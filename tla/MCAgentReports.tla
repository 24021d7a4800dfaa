--------------------------- MODULE MCAgentReports ---------------------------
(***************************************************************************)
(* What each part of the agent may meet: an instance of CollectPlugins, of   *)
(* RakkessAccess and of EventWatch, of which a behaviour runs one.           *)
(***************************************************************************)
EXTENDS CollectPlugins, RakkessAccess, EventWatch

\* The tags of a repository: at most MCMaxTags of these, any of them running.
MCTags == {Version(FALSE, <<1>>, NoSuffix), Version(FALSE, <<1, 2>>, NoSuffix),
           Version(FALSE, <<1, 2, 0>>, NoSuffix), Version(FALSE, <<1, 10, 1>>, NoSuffix),
           Version(FALSE, <<1, 2, 0, 4>>, NoSuffix), Version(FALSE, <<1, 2, 0, 5>>, NoSuffix),
           Version(FALSE, <<2>>, NoSuffix), Version(FALSE, <<2>>, Plain),
           Version(TRUE, <<2>>, NoSuffix), Version(FALSE, <<2, 1, 0>>, Dotted),
           Version(FALSE, <<6, 0>>, NoSuffix), Version(FALSE, <<6, 0, 0>>, NoSuffix),
           Text("latest"), Text("stable"), Text("old")}
MCMaxTags == 3

\* The date of a tag: that of its major number, or of its name.
MCDate(t) == CASE t.text = "latest" -> 4 [] t.text = "stable" -> 2 [] t.text = "old" -> -1
               [] OTHER -> Segment(t, 1)
MCNoDate == -1

Container(index, pullable, registry, tag, tags) ==
  [index |-> index, pullable |-> pullable, parses |-> TRUE, registry |-> registry,
   tag |-> tag, date |-> [t \in tags |-> MCDate(t)]]

MCRepositories == UNION {kSubset(k, MCTags) : k \in 0..MCMaxTags}
MCTagRuns == {[plugin |-> "outdated",
               world |-> [ready |-> TRUE, items |-> <<Container(1, "p1", "ok", t, tags)>>]] :
              t \in MCTags, tags \in MCRepositories}

MCFewTags == {Version(FALSE, <<1>>, NoSuffix), Version(FALSE, <<2>>, NoSuffix),
              Text("latest"), Text("stable")}
\* Two containers of which either may lack an ImageID or a reachable registry.
MCOutdatedRuns ==
  {[plugin |-> "outdated",
    world |-> [ready |-> l,
               items |-> <<Container(1, p, r, Version(FALSE, <<1>>, NoSuffix), MCFewTags),
                           Container(2, "", s, Text("stable"), MCFewTags)>>]] :
     l \in BOOLEAN, p \in {"p1", ""},
     r \in {"ok", "unreachable"}, s \in {"ok", "noTags", "unreachable"}}

\* Two items, each with two reports, and a third that may be the image of the
\* first; the cluster scan is one item.
MCScanRuns ==
  {[plugin |-> p,
    world |-> [ready |-> l,
               items |-> [i \in 1..(IF p = "trivyK8s" THEN 1 ELSE 3) |->
                            [index |-> i, pullable |-> IF i = 3 THEN d ELSE i,
                             scan |-> scan[i],
                             reports |-> IF i = 2 THEN <<i>> ELSE <<i, i + 10>>]]]] :
     p \in Scannable, l \in BOOLEAN, d \in {1, 3},
     scan \in [1..3 -> {"whole", "empty", "fails"}]}

MCPodSecurity == API("policy", "v1beta1", "PodSecurityPolicy")
MCOldIngress  == API("extensions", "v1beta1", "Ingress")
MCNewIngress  == API("networking.k8s.io", "v1", "Ingress")
MCComponent   == API("", "v1", "ComponentStatus")
MCOldCron     == API("batch", "v1beta1", "CronJob")
MCNewCron     == API("batch", "v1", "CronJob")
MCCRD         == API(CRDGroup, "v1", "CustomResourceDefinition")
MCOldCRD      == API(CRDGroup, "v1beta1", "CustomResourceDefinition")
MCWidget      == API("example.com", "v1", "Widget")
MCService     == API(ServiceGroup, "v1", "APIService")
MCPodMetrics  == API("metrics.k8s.io", "v1beta1", "PodMetrics")
MCServed      == {MCPodSecurity, MCOldIngress, MCNewIngress, MCComponent, MCOldCron,
                  MCNewCron, MCCRD, MCOldCRD, MCWidget, MCService, MCPodMetrics}
MCCustom      == [g \in Directories |-> IF g = CRDGroup THEN {MCWidget.group}
                                                        ELSE {MCPodMetrics.group}]

Definition(api, described, deprecated) ==
  [api |-> api, described |-> described, deprecated |-> deprecated]
MCPreUpgradeRuns ==
  {[plugin |-> "preUpgrade",
    world |-> [ready |-> l,
               definitions |-> {Definition(MCNewIngress, TRUE, FALSE),
                                Definition(MCComponent, TRUE, TRUE),
                                Definition(MCOldCron, TRUE, TRUE),
                                Definition(MCNewCron, d, FALSE),
                                Definition(MCCRD, TRUE, FALSE),
                                Definition(MCService, TRUE, FALSE)},
               served |-> MCServed,
               preferred |-> MCServed \ {MCOldCron, MCOldCRD},
               unseen |-> u,
               objects |-> [a \in MCServed |->
                              CASE a = MCOldIngress -> old
                                [] a = MCNewIngress -> {"ingress"}
                                [] OTHER            -> {a.kind}],
               listing |-> f,
               custom |-> MCCustom]] :
     l \in BOOLEAN, d \in BOOLEAN, u \in {{}, {CRDGroup}, {ServiceGroup}, {"policy"}},
     old \in {{}, {"ingress"}, {"ingress", "left"}},
     f \in {[a \in MCServed |-> "items"]}
            \cup {[a \in MCServed |-> IF a = b THEN e ELSE "items"] :
                    b \in MCServed, e \in {"notFound", "error"}}}

\* The access check: one resource with all verbs and one that can only be read.
MCResource == {"pods", "tokens"}
MCSupported == [r \in MCResource |-> IF r = "pods" THEN Verbs ELSE {"list"}]
MCRakkessRun == [plugin |-> "rakkess", world |-> MCSupported]

\* The watch: an event of a pod with two containers and one of a node.
MCEvent == {"ofPod", "ofNode"}
MCImages == [e \in MCEvent |-> IF e = "ofPod" THEN 2 ELSE 0]
MCWatchRun == [plugin |-> "events", world |-> MCImages]

MCRuns == MCTagRuns \cup MCOutdatedRuns \cup MCScanRuns \cup MCPreUpgradeRuns
            \cup {MCRakkessRun, MCWatchRun}

MCInit == Init /\ RInit /\ WInit
MCNext == \/ Next /\ UNCHANGED <<rvars, wvars>>
          \/ run = MCRakkessRun /\ RNext /\ UNCHANGED <<pvars, wvars>>
          \/ run = MCWatchRun /\ WNext /\ UNCHANGED <<pvars, rvars>>
=============================================================================
