-------------------------- MODULE MCClientDelivery --------------------------
(***************************************************************************)
(* Small instances of ClientDelivery.                                      *)
(***************************************************************************)
EXTENDS ClientDelivery

Git(source, event, body) ==
  [consumer |-> "git", source |-> source, event |-> event, body |-> body]
Report(consumer, body, findings) ==
  [consumer |-> consumer, body |-> body, findings |-> findings]

GiteaClosed == Git("Gitea", "merge", "closed")    \* kills the client
GitPush     == Git("Github", "push", "full")
Scan        == Report("trivyk8s", "full", 2)      \* two transactions
Sbom        == Report("trivysbom", "nometadata", 0)
Score       == Report("kubescore", "full", 1)

MCMessage  == {GiteaClosed, GitPush, Scan}
MCConsumer == {"git", "trivyk8s"}

MCMessageLive  == {GiteaClosed, Score, Sbom}
MCConsumerLive == {"git", "kubescore", "trivysbom"}

-----------------------------------------------------------------------------
(* One message of every shape that the handlers tell apart.                *)
PushBodies(source)  ==
  {"garbled", "full"} \cup CASE source = "AzureDevops" -> {"norefs"}
                             [] source = "Gitea"       -> {"incomplete"}
                             [] OTHER                  -> {}
MergeBodies(source) ==
  CASE source = "Gitea"              -> {"garbled", "merged", "closed", "open", "bare"}
    [] source \in {"Github", "Gitlab"} -> {"garbled", "merged", "open"}
    [] OTHER                          -> {"garbled", "merged"}
GitShapes ==
  UNION {{Git(p, "push", b) : b \in PushBodies(p)} \cup {Git(p, "merge", b) : b \in MergeBodies(p)}
         \cup {Git(p, "other", "full")} : p \in GitProviders}
  \cup {Git("Github", "none", "full"), Git("unknown", "none", "full")}

ContainerShapes ==
  {[consumer |-> "container", source |-> source, body |-> body] :
     source \in Registries \cup {"Github_Registry"}, body \in {"garbled", "full"}}
  \cup {[consumer |-> "container", source |-> "unknown", body |-> "full"]}

ReportShapes ==
  {Report(consumer, body, 1) : consumer \in KubvizConsumers, body \in {"garbled", "full"}}
  \cup {Report(consumer, "full", n) : consumer \in RowwiseConsumers, n \in {0, 2}}
  \cup {Sbom, Report("kubvizevent", "noevent", 0), Report("kuberhealthy", "neverrun", 1)}

MCShapes == GitShapes \cup ContainerShapes \cup ReportShapes
=============================================================================
