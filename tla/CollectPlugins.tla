--------------------------- MODULE CollectPlugins ---------------------------
(***************************************************************************)
(* One run of one plugin of the agent's collection                          *)
(* (agent/kubviz/plugins): what it lists, scans and publishes, and what it  *)
(* does about each thing that can fail.  The plugins share a shape: list the *)
(* items, scan one after the other, publish the reports of each.  They       *)
(* differ in what a failure ends: the item, the run, or the process.         *)
(* The access check of rakkess is in RakkessAccess.  The container bridge's  *)
(* watch on the packages of GitHub has the same shape.                       *)
(***************************************************************************)
EXTENDS OutdatedVersions, PreUpgrade

CONSTANTS
  Runs,      \* the runs: records [plugin, world], the world being what it meets
  PageSize,  \* the entries of a page of GitHub's answers
  MaxLost    \* bound: publish calls that fail in a run

\* The plugins that scan one item after the other.
Scannable == {"ketall", "trivyImage", "trivySbom", "trivyK8s", "kubeScore", "kuberhealthy",
              "github"}

\* What a run meets is finite: lists of items, each with a list of reports, of
\* which the scan of the whole cluster is one; and the resources of a cluster.
ASSUME RunsAssumption == \A r \in Runs :
  /\ r.plugin \in Scannable =>
       /\ r.world.items \in Seq(ToSet(r.world.items))
       /\ \A it \in ToSet(r.world.items) : it.reports \in Seq(ToSet(it.reports))
  /\ r.plugin = "trivyK8s" => Len(r.world.items) = 1
  /\ r.plugin = "preUpgrade" => IsFiniteSet(r.world.preferred)
\* The containers of the pods are numbered, and the tags of a registry finitely
\* many, those that are versions with numbers in them.
ASSUME ImagesAssumption == \A r \in Runs : r.plugin = "outdated" =>
  /\ r.world.items \in Seq(ToSet(r.world.items))
  /\ \A i \in 1..Len(r.world.items) : LET c == r.world.items[i] IN
       /\ c.index = i /\ IsFiniteSet(DOMAIN c.date)
       /\ \A t \in DOMAIN c.date \cup {c.tag} : t.nums \in Seq(Nat)
ASSUME PageSizeAssumption == PageSize \in Nat

VARIABLES
  run,        \* the run
  status,     \* "start", "loop", or how it ended: "nil", "error", "panic"
  todo,       \* the items not scanned yet
  batch,      \* the reports of the scanned items not published yet
  published,  \* history: the reports handed to the broker
  lost        \* history: the reports whose publish call failed
pvars == <<run, status, todo, batch, published, lost>>

Init == /\ run \in Runs
        /\ status = "start"
        /\ todo = <<>> /\ batch = <<>> /\ published = <<>> /\ lost = <<>>

world == run.world
Starts(p) == run.plugin = p /\ status = "start"
Scans(p)  == run.plugin = p /\ status = "loop" /\ batch = <<>> /\ todo # <<>>
Sends(p)  == run.plugin = p /\ status = "loop" /\ batch # <<>>
Ends(p)   == run.plugin = p /\ status = "loop" /\ batch = <<>> /\ todo = <<>>

Listed(items) == /\ status' = "loop" /\ todo' = items
                 /\ UNCHANGED <<run, batch, published, lost>>
Scanned(reports) == /\ todo' = Tail(todo) /\ batch' = reports
                    /\ UNCHANGED <<run, status, published, lost>>
Return(how) == /\ status' = how
               /\ UNCHANGED <<run, todo, batch, published, lost>>
Published == /\ published' = Append(published, Head(batch)) /\ batch' = Tail(batch)
             /\ UNCHANGED <<run, status, todo, lost>>
PublishFails(how) == /\ Len(lost) < MaxLost
                     /\ lost' = Append(lost, Head(batch)) /\ batch' = Tail(batch)
                     /\ status' = how
                     /\ UNCHANGED <<run, todo, published>>

PublishOrReturn(p) == Sends(p) /\ (Published \/ PublishFails("error"))
PublishOrGoOn(p)   == Sends(p) /\ (Published \/ PublishFails("loop"))

(***************************************************************************)
(* The images of the cluster: those of the containers of all pods, each      *)
(* ImageID once; a container that has not started has none.                  *)
(***************************************************************************)
ListImages(containers) ==
  LET cleaned[n \in 0..Len(containers)] ==
        IF n = 0 THEN <<>>
        ELSE IF \E c \in ToSet(cleaned[n - 1]) : c.pullable = containers[n].pullable
             THEN cleaned[n - 1]
             ELSE Append(cleaned[n - 1], containers[n])
  IN  cleaned[Len(containers)]

(***************************************************************************)
(* OutDatedImages.  An image whose registry cannot be reached, or whose date *)
(* is not told, is published as 0 behind with a message for a version; one   *)
(* whose tags cannot be fetched is not published.                            *)
(***************************************************************************)
Message == Text("Unable to get image data")
Unknown(c) == [image |-> c.index, behind |-> 0, latest |-> Message]
OutdatedReports(c) ==
  IF ~c.parses \/ c.registry = "unreachable" THEN <<Unknown(c)>>
  ELSE IF c.registry = "noTags" THEN <<>>
  ELSE LET r == ParseImage(c.date, c.tag)
       IN  IF r.behind = -1 THEN <<Unknown(c)>>
           ELSE <<[image |-> c.index, behind |-> r.behind, latest |-> r.latest]>>

OutDatedImages ==
  \/ /\ Starts("outdated")
     /\ IF world.ready THEN Listed(ListImages(world.items)) ELSE Return("error")
  \/ Scans("outdated") /\ Scanned(OutdatedReports(Head(todo)))
  \/ PublishOrReturn("outdated")
  \/ Ends("outdated") /\ Return("nil")

(***************************************************************************)
(* GetAllResources: the resources of the cluster are a map, in any order,    *)
(* and one whose objects cannot be listed is skipped.                        *)
(***************************************************************************)
\* (Mutant: the error of a publish call is dropped.)
GetAllResourcesGoesOn ==
  \/ Starts("ketall") /\ Listed(world.items)
  \/ Scans("ketall") /\ Scanned(Head(todo).reports)
  \/ PublishOrGoOn("ketall")
  \/ Ends("ketall") /\ Return("nil")

GetAllResources ==
  \/ /\ Starts("ketall")
     /\ IF world.ready THEN \E s \in SetToSeqs(ToSet(world.items)) : Listed(s)
                         ELSE Return("error")
  \/ /\ Scans("ketall")
     /\ Scanned(IF Head(todo).scan = "whole" THEN Head(todo).reports ELSE <<>>)
  \/ PublishOrReturn("ketall")
  \/ Ends("ketall") /\ Return("nil")

(***************************************************************************)
(* RunTrivyImageScans, RunTrivySbomScan, RunTrivyK8sClusterScan.  A scan     *)
(* ends "whole", with no output, or fails (an exit code, broken JSON).       *)
(***************************************************************************)
\* (Mutant: return for continue after a failed scan.)
RunTrivyImageScansStop ==
  \/ Starts("trivyImage") /\ Listed(ListImages(world.items))
  \/ /\ Scans("trivyImage")
     /\ IF Head(todo).scan = "whole" THEN Scanned(Head(todo).reports) ELSE Return("error")
  \/ PublishOrReturn("trivyImage")
  \/ Ends("trivyImage") /\ Return("nil")

RunTrivyImageScans ==
  \/ /\ Starts("trivyImage")
     /\ IF world.ready THEN Listed(ListImages(world.items)) ELSE Return("error")
  \/ /\ Scans("trivyImage")
     /\ Scanned(IF Head(todo).scan = "whole" THEN Head(todo).reports ELSE <<>>)
  \/ PublishOrReturn("trivyImage")
  \/ Ends("trivyImage") /\ Return("nil")

\* The error of the listing is logged, and the run goes on with no image.
RunTrivySbomScan ==
  \/ /\ Starts("trivySbom")
     /\ Listed(IF world.ready THEN ListImages(world.items) ELSE <<>>)
  \/ /\ Scans("trivySbom")
     /\ Scanned(IF Head(todo).scan = "whole" THEN Head(todo).reports ELSE <<>>)
  \/ PublishOrGoOn("trivySbom")
  \/ Ends("trivySbom") /\ Return("nil")

\* The error returned for a scan without output is nil.
RunTrivyK8sClusterScan ==
  \/ /\ Starts("trivyK8s")
     /\ IF world.ready THEN Listed(world.items) ELSE Return("error")
  \/ /\ Scans("trivyK8s")
     /\ CASE Head(todo).scan = "whole" -> Scanned(Head(todo).reports)
          [] Head(todo).scan = "empty" -> Return("nil")
          [] OTHER                     -> Return("error")
  \/ PublishOrReturn("trivyK8s")
  \/ Ends("trivyK8s") /\ Return("nil")

(***************************************************************************)
(* RunKubeScore: the error of a namespace, and of its publish call, is       *)
(* dropped.  ExecuteCommand gives the output whatever the exit code.         *)
(***************************************************************************)
RunKubeScore ==
  \/ /\ Starts("kubeScore")
     /\ IF world.ready THEN Listed(world.items) ELSE Return("error")
  \/ /\ Scans("kubeScore")
     /\ Scanned(IF Head(todo).scan = "whole" THEN Head(todo).reports ELSE <<>>)
  \/ PublishOrGoOn("kubeScore")
  \/ Ends("kubeScore") /\ Return("nil")

(***************************************************************************)
(* StartKuberHealthy: an item is a tick.  The loop over the ticker has no    *)
(* end; a missing setting ends the process.                                  *)
(***************************************************************************)
StartKuberHealthy ==
  \/ /\ Starts("kuberhealthy")
     /\ IF world.ready THEN Listed(world.items) ELSE Return("panic")
  \/ /\ Scans("kuberhealthy")
     /\ Scanned(IF Head(todo).scan = "whole" THEN Head(todo).reports ELSE <<>>)
  \/ PublishOrGoOn("kuberhealthy")

(***************************************************************************)
(* KubePreUpgradeDetector: the whole result first, then the deprecated APIs, *)
(* in any order, then the deleted ones.                                      *)
(***************************************************************************)
KubePreUpgradeDetector ==
  \/ /\ Starts("preUpgrade")
     /\ CASE ~world.ready -> Return("error")
          [] world.ready /\ Panics(world) -> Return("panic")
          [] OTHER ->
               LET r == getResults(world)
                   seqs(S, why) == {[i \in DOMAIN s |-> [api |-> s[i], why |-> why]] : s \in SetToSeqs(S)}
               IN  \E s \in seqs(r.deprecated, "deprecated"), t \in seqs(r.deleted, "deleted") :
                     /\ status' = "loop" /\ batch' = s \o t
                     /\ UNCHANGED <<run, todo, published, lost>>
  \/ PublishOrReturn("preUpgrade")
  \/ Ends("preUpgrade") /\ Return("nil")

(***************************************************************************)
(* GithubContainerWatch, once per start of the bridge: an item is a package, *)
(* its reports are its versions.  Only the first page of each is asked for;  *)
(* what fails is logged, and no error is returned.                           *)
(***************************************************************************)
FirstPage(s) == SubSeq(s, 1, Min({Len(s), PageSize}))
GithubContainerWatch ==
  \/ /\ Starts("github")
     /\ IF world.ready THEN Listed(FirstPage(world.items)) ELSE Return("nil")
  \/ /\ Scans("github")
     /\ Scanned(IF Head(todo).scan = "whole" THEN FirstPage(Head(todo).reports) ELSE <<>>)
  \/ PublishOrGoOn("github")
  \/ Ends("github") /\ Return("nil")

Next == \/ OutDatedImages \/ GetAllResources
        \/ RunTrivyImageScans \/ RunTrivySbomScan \/ RunTrivyK8sClusterScan
        \/ GithubContainerWatch \/ RunKubeScore \/ StartKuberHealthy \/ KubePreUpgradeDetector
PSpec == Init /\ [][Next]_pvars
-----------------------------------------------------------------------------
Over == \/ status \in {"nil", "error", "panic"}
        \/ run.plugin = "kuberhealthy" /\ Ends("kuberhealthy")
Sent == ToSet(published)

\* The plugins that stop at the first publish call that fails.
Stops == {"outdated", "ketall", "trivyImage", "trivyK8s", "preUpgrade"}

\* A failure costs what it must and nothing more: a report of an item whose scan
\* went well is missing after the run only if the listing failed, the publish
\* call of that report failed, a publish call failed in a plugin that stops
\* there, another container with the same ImageID was listed before it, or it is
\* past the first page of GitHub's answer.
MissingHasACause ==
  Over /\ run.plugin \in Scannable =>
    \A i \in 1..Len(world.items) : LET it == world.items[i] IN
      it.scan = "whole" /\ ~ ToSet(it.reports) \subseteq Sent =>
        \/ ~world.ready
        \/ run.plugin \in Stops /\ lost # <<>>
        \/ ToSet(it.reports) \subseteq Sent \cup ToSet(lost)
        \/ /\ run.plugin \in {"trivyImage", "trivySbom"}
           /\ \E j \in 1..(i - 1) : world.items[j].pullable = it.pullable
        \/ run.plugin = "github" /\ (i > PageSize \/ Len(it.reports) > PageSize)

\* A run says it failed when it did: it returns nil with a report lost, or with
\* nothing listed, only in the two plugins that drop those errors, and in the
\* watch on GitHub, which returns none.
NilMeansPublished ==
  status = "nil" /\ (lost # <<>> \/ ~world.ready) =>
    run.plugin \in {"kubeScore", "trivySbom", "github"}

\* An image whose tags have at most three parts, without a gap of three major
\* numbers and with no other tag of the numbers of the running one, is reported
\* as many versions behind as there are newer ones.
LagIsRight ==
  run.plugin = "outdated" => \A r \in Sent : LET c == world.items[r.image] IN
    /\ r.latest # Message /\ IsVersion(c.tag)
    /\ LET tags == DOMAIN c.date \cup {c.tag} IN
       LongTags(tags) = {} /\ ~HasGap(DOMAIN c.date) /\ ~HasTwin(tags, c.tag)
    => r.behind = Cardinality(NewerNumbers(DOMAIN c.date, c.tag))

\* An API is reported as deleted only if its objects live under no replacement
\* and the upgrade's swagger file does not describe it; an API of a custom
\* resource or an aggregated one only if the group that tells of these could not
\* be read in the version that the cluster prefers.
DeletedIsDeleted ==
  run.plugin = "preUpgrade" => \A r \in Sent : r.why = "deleted" =>
    /\ world.objects[r.api] # {}
    /\ \A d \in world.definitions : d.api = r.api => ~d.described
    /\ r.api \in DOMAIN deletedApiReplacements =>
         ~ world.objects[r.api] \subseteq world.objects[deletedApiReplacements[r.api]]
    /\ \A g \in Directories : r.api.group \in world.custom[g] =>
         \/ g \in world.unseen
         \/ \A a \in world.preferred : a.group = g => List(world, a) # "items"

\* A deprecated API with objects is missing from a run that ended well only if
\* the cluster prefers another version of it, or its group or its list could not
\* be read.
DeprecatedIsSeen ==
  run.plugin = "preUpgrade" /\ status = "nil" =>
    \A a \in DeprecatedAPIs(world) \cap world.served :
      world.objects[a] # {} =>
        \/ [api |-> a, why |-> "deprecated"] \in Sent
        \/ a \notin world.preferred \/ a.group \in world.unseen
        \/ world.listing[a] # "items"
=============================================================================
