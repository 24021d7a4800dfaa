--------------------------- MODULE ClientHandlers ---------------------------
(***************************************************************************)
(* What the message handlers of the kubviz client do with one message,     *)
(* once it has been acknowledged: client/pkg/clients decodes and routes    *)
(* it, client/pkg/clickhouse inserts it.                                   *)
(*                                                                         *)
(* A message is a record.  Its field "consumer" names the durable consumer *)
(* it is delivered to; the other fields are the facts about it that the    *)
(* handlers branch on:                                                     *)
(*   source    the header GitProvider (git) or REPO_NAME (container)       *)
(*   event     git: "none" (header absent), "push", "merge" (the provider's*)
(*             pull or merge request event) or "other"                     *)
(*   body      "garbled" if json.Unmarshal fails on it, or a shape of a    *)
(*             well-formed body ("full" where no branch looks at it)       *)
(*   findings  the number of rows in a report                              *)
(***************************************************************************)
EXTENDS Naturals

(* The ways a handler can go on after decoding a message: it inserts; it   *)
(* opens a transaction and returns without committing it; it returns at    *)
(* once; it ends the process, with log.Fatal or a panic nothing recovers.  *)
Outcomes == {"insert", "abandon", "return", "die"}

(***************************************************************************)
(* Durable consumers, by the shape of the insert their handler calls.      *)
(***************************************************************************)
SingleRowConsumers == {"ketall", "rakees", "outdated", "kubvizevent", "trivysbom"}
BatchConsumers     == {"deprecated", "deleted", "kuberhealthy", "kubescore"}
RowwiseConsumers   == {"trivyk8s", "trivyimage"}
KubvizConsumers    == SingleRowConsumers \cup BatchConsumers \cup RowwiseConsumers
Consumers          == KubvizConsumers \cup {"git", "container"}

(* Number of ClickHouse transactions the insert of message m commits: the  *)
(* two Trivy inserts open, execute and commit one transaction per finding, *)
(* every other insert commits all its rows in one.                         *)
Transactions(m) == IF m.consumer \in RowwiseConsumers THEN m.findings ELSE 1

(* InsertGitCommon returns its errors and SubscribeGitBridgeNats drops     *)
(* them; a failed Begin, Prepare or Commit of any other insert is fatal.   *)
DbErrorIsFatal(m) == m.consumer # "git"

(* A failed Exec is as fatal, except that InsertKubeScoreMetrics logs it   *)
(* and commits the other rows.                                             *)
RowErrorIsLogged(m) == m.consumer = "kubescore"

(***************************************************************************)
(* Git webhooks.                                                           *)
(***************************************************************************)
GitProviders == {"Gitea", "Github", "Gitlab", "BitBucket", "AzureDevops"}

(* The URL of an Azure push is built from RefUpdates[0] outside the check  *)
(* that the list is not empty.                                             *)
AzureOutcome(m) ==
  IF m.event = "push" /\ m.body = "norefs" THEN "die" ELSE "insert"

GithubOutcome(m) ==
  IF m.event = "merge" /\ m.body # "merged" THEN "return" ELSE "insert"

(* The repository and the author of the first commit of a push are         *)
(* dereferenced without a check ("incomplete": the body lacks one of them).*)
GiteaPushOutcome(m) == IF m.body = "incomplete" THEN "die" ELSE "insert"

(* Every closed pull request is to be stored, merged or not, but its merge *)
(* commit, null when it was not merged, is dereferenced ("bare": the body  *)
(* has no pull request object, and is stored without a commit).            *)
GiteaOutcome(m) ==
  IF m.event = "push" THEN GiteaPushOutcome(m)
  ELSE IF m.body \in {"merged", "bare"} THEN "insert"
  ELSE IF m.body = "closed" THEN "die" ELSE "return"

GitlabOutcome(m) ==
  IF m.event = "merge" /\ m.body # "merged" THEN "return" ELSE "insert"

(* Bitbucket names the merge in the event, so there is nothing to filter.  *)
BitbucketOutcome(m) == "insert"

(* Only push and merge bodies are decoded; any other event of a known      *)
(* provider is stored as it came.                                          *)
GitOutcome(m) ==
  IF m.source \notin GitProviders \/ m.event = "none" THEN "return"
  ELSE IF m.event = "other" THEN "insert"
  ELSE IF m.body = "garbled" THEN "return"
  ELSE CASE m.source = "AzureDevops" -> AzureOutcome(m)
         [] m.source = "Github"      -> GithubOutcome(m)
         [] m.source = "Gitea"       -> GiteaOutcome(m)
         [] m.source = "Gitlab"      -> GitlabOutcome(m)
         [] m.source = "BitBucket"   -> BitbucketOutcome(m)

(***************************************************************************)
(* Container registry events.  Github packages go to container_github, a   *)
(* table no migration of sql/ creates: its Prepare fails and is fatal.     *)
(***************************************************************************)
Registries == {"Dockerhub_Registry", "Azure_Container_Registry",
               "Quay_Container_Registry", "Jfrog_Container_Registry"}

GithubPackageOutcome(m) == IF m.body = "garbled" THEN "return" ELSE "die"

ContainerOutcome(m) ==
  IF m.source = "Github_Registry" THEN GithubPackageOutcome(m)
  ELSE IF m.source \in Registries /\ m.body # "garbled" THEN "insert"
  ELSE "return"

(***************************************************************************)
(* Reports of the kubviz agent.                                            *)
(***************************************************************************)
SkipsGarbled == {"kuberhealthy", "trivysbom"}

(* InsertTrivySbomMetrics looks for the metadata of the bill of materials  *)
(* after Begin and Prepare, and returns when there is none.                *)
SbomOutcome(m) == IF m.body = "nometadata" THEN "abandon" ELSE "insert"

(* InsertKubvizEvent follows the pointer metrics.Event without a check.    *)
KubvizEventOutcome(m) == IF m.body = "noevent" THEN "die" ELSE "insert"

(* InsertKuberhealthyMetrics follows the pointer LastRun of every check,   *)
(* which is null until the check has run for the first time.               *)
KuberhealthyOutcome(m) == IF m.body = "neverrun" THEN "die" ELSE "insert"

KubvizOutcome(m) ==
  IF m.body = "garbled"
  THEN IF m.consumer \in SkipsGarbled THEN "return" ELSE "die"
  ELSE CASE m.consumer = "trivysbom"    -> SbomOutcome(m)
         [] m.consumer = "kubvizevent"  -> KubvizEventOutcome(m)
         [] m.consumer = "kuberhealthy" -> KuberhealthyOutcome(m)
         [] OTHER                       -> "insert"

-----------------------------------------------------------------------------
Outcome(m) ==
  CASE m.consumer = "git"       -> GitOutcome(m)
    [] m.consumer = "container" -> ContainerOutcome(m)
    [] OTHER                    -> KubvizOutcome(m)
=============================================================================
