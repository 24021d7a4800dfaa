---------------------------- MODULE PluginProofs ----------------------------
(***************************************************************************)
(* Proofs about the plugins of a collection: CollectPlugins, for every        *)
(* cluster a run may meet, every number of failing calls and every size of a *)
(* page; RakkessAccess, for every set of resources and whatever verbs they   *)
(* support.                                                                  *)
(***************************************************************************)
EXTENDS CollectPlugins, RakkessAccess, SequenceRanges, FiniteSetTheorems, TLAPS

\* A run goes on after a listing or a publish call that failed only in the
\* plugins that say nothing of it, or that never return.
Quiet == {"kubeScore", "trivySbom", "github"}
GoesOn == Quiet \cup {"kuberhealthy"}
ReturnInv ==
  /\ status = "start" => lost = <<>>
  /\ status \in {"loop", "nil"} /\ run.plugin \notin GoesOn => lost = <<>> /\ run.world.ready
  /\ status = "nil" => run.plugin # "kuberhealthy"

\* What a step of any plugin does: it lists, it goes on or ends, or a publish
\* call fails.
Lists == /\ status = "start" /\ UNCHANGED <<run, lost>>
         /\ \/ status' \in {"error", "panic"}
            \/ status' = "loop" /\ (run.world.ready \/ run.plugin \in GoesOn)
            \/ status' = "nil" /\ run.plugin = "github"
Continues == /\ status = "loop" /\ UNCHANGED <<run, lost>>
             /\ status' = "nil" => run.plugin # "kuberhealthy"
             /\ status' \in {"loop", "nil", "error"}
Loses == /\ status = "loop" /\ UNCHANGED run
         /\ status' = "error" \/ (status' = "loop" /\ run.plugin \in GoesOn)

\* A plugin by its four parts: each publishes alike.
LEMMA Sending ==
  ASSUME NEW p
  PROVE  /\ PublishOrReturn(p) => Continues \/ Loses
         /\ PublishOrGoOn(p) /\ p \in GoesOn => Continues \/ Loses
BY DEF PublishOrReturn, PublishOrGoOn, Sends, Published, PublishFails, Continues, Loses

\* Every step of every plugin is one of the three.
LEMMA Effects == Next => Lists \/ Continues \/ Loses
<1> USE DEF Starts, Scans, Ends, Listed, Scanned, Return, world, Quiet, GoesOn
<1>1. OutDatedImages => Lists \/ Continues \/ Loses
  BY Sending DEF OutDatedImages, Lists, Continues
<1>2. GetAllResources => Lists \/ Continues \/ Loses
  BY Sending DEF GetAllResources, Lists, Continues
<1>3. RunTrivyImageScans => Lists \/ Continues \/ Loses
  BY Sending DEF RunTrivyImageScans, Lists, Continues
<1>4. RunTrivySbomScan => Lists \/ Continues \/ Loses
  BY Sending DEF RunTrivySbomScan, Lists, Continues
<1>5. RunTrivyK8sClusterScan => Lists \/ Continues \/ Loses
  BY Sending DEF RunTrivyK8sClusterScan, Lists, Continues
<1>6. GithubContainerWatch => Lists \/ Continues \/ Loses
  BY Sending DEF GithubContainerWatch, Lists, Continues
<1>7. RunKubeScore => Lists \/ Continues \/ Loses
  BY Sending DEF RunKubeScore, Lists, Continues
<1>8. StartKuberHealthy => Lists \/ Continues \/ Loses
  BY Sending DEF StartKuberHealthy, Lists, Continues
<1>9. KubePreUpgradeDetector => Lists \/ Continues \/ Loses
  BY Sending DEF KubePreUpgradeDetector, Lists, Continues
<1>10. QED
  BY <1>1, <1>2, <1>3, <1>4, <1>5, <1>6, <1>7, <1>8, <1>9 DEF Next

LEMMA NextReturn == ReturnInv /\ [Next]_pvars => ReturnInv'
<1>1. ReturnInv /\ (Lists \/ Continues \/ Loses) => ReturnInv'
  BY DEF ReturnInv, Lists, Continues, Loses, GoesOn, Quiet
<1>2. ReturnInv /\ UNCHANGED pvars => ReturnInv'
  BY DEF ReturnInv, pvars
<1>3. QED
  BY <1>1, <1>2, Effects

LEMMA ReturnAlways == PSpec => []ReturnInv
<1>1. Init => ReturnInv
  BY DEF Init, ReturnInv
<1>2. QED
  BY <1>1, NextReturn, PTL DEF PSpec

\* A plugin returns nil with a report lost, or with nothing listed, only where
\* the code drops those errors.
THEOREM NilIsHonest == PSpec => []NilMeansPublished
<1>1. ReturnInv => NilMeansPublished
  BY DEF ReturnInv, NilMeansPublished, GoesOn, Quiet, world
<1>2. QED
  BY <1>1, ReturnAlways, PTL
-----------------------------------------------------------------------------
(***************************************************************************)
(* What a run lists.                                                       *)
(***************************************************************************)
LEMMA ToSetIsRange == \A s : ToSet(s) = Range(s)
BY DEF ToSet, Range

\* A queue with its head taken, and one with an element more.
LEMMA QueueTakes ==
  ASSUME NEW S, NEW s \in Seq(S), s # <<>>
  PROVE  /\ Head(s) \in S /\ Tail(s) \in Seq(S)
         /\ ToSet(s) = {Head(s)} \cup ToSet(Tail(s))
BY RangeHeadTail, ToSetIsRange

LEMMA QueueAdds ==
  ASSUME NEW S, NEW s \in Seq(S), NEW e \in S
  PROVE  Append(s, e) \in Seq(S) /\ ToSet(Append(s, e)) = ToSet(s) \cup {e}
BY RangeAppend, ToSetIsRange

LEMMA QueueJoins ==
  ASSUME NEW S, NEW s \in Seq(S), NEW t \in Seq(S)
  PROVE  s \o t \in Seq(S) /\ ToSet(s \o t) = ToSet(s) \cup ToSet(t)
BY RangeConcat, ToSetIsRange

\* A queue that is empty has nothing.
LEMMA EmptyQueue == ASSUME NEW S PROVE <<>> \in Seq(S) /\ ToSet(<<>>) = {}
BY RangeEmpty, ToSetIsRange

\* The keys of a map, in any order: all of them.
LEMMA SetToSeqsOnto ==
  ASSUME NEW S, IsFiniteSet(S), NEW s \in SetToSeqs(S)
  PROVE  s \in Seq(S) /\ ToSet(s) = S
<1> DEFINE n == Cardinality(S)
<1>1. n \in Nat /\ IsFiniteSet(1..n) /\ Cardinality(1..n) = n
  BY FS_CardinalityType, FS_Interval
<1>2. s \in [1..n -> S] /\ \A i, j \in 1..n : i # j => s[i] # s[j]
  BY DEF SetToSeqs
<1>3. s \in Injection(1..n, S)
  BY <1>2 DEF Injection, IsInjective
<1>4. s \in Surjection(1..n, S)
  BY <1>1, <1>3, FS_Injection
<1> HIDE DEF n
<1>5. s \in Seq(S)
  BY <1>1, <1>2
<1>6. \A e \in S : \E i \in 1..n : s[i] = e
  BY <1>4 DEF Surjection
<1>7. DOMAIN s = 1..n
  BY <1>2
<1>8. ToSet(s) = {s[i] : i \in 1..n}
  BY <1>7 DEF ToSet
<1>9. QED
  BY <1>2, <1>5, <1>6, <1>8

\* A sequence has finitely many elements.
LEMMA SequenceIsFinite ==
  ASSUME NEW S, NEW s \in Seq(S)
  PROVE  IsFiniteSet(ToSet(s))
<1>1. Len(s) \in Nat /\ IsFiniteSet(1..Len(s))
  BY FS_Interval
<1>2. ToSet(s) = {s[i] : i \in 1..Len(s)}
  BY RangeIndexed, ToSetIsRange, Zenon
<1> DEFINE f == [i \in 1..Len(s) |-> s[i]]
<1>3. f \in Surjection(1..Len(s), ToSet(s))
  BY <1>2 DEF Surjection
<1> HIDE DEF f
<1>4. QED
  BY <1>1, <1>3, FS_Surjection

\* The first page of an answer: its entries up to the size of a page.
LEMMA FirstPageOf ==
  ASSUME NEW S, NEW s \in Seq(S)
  PROVE  /\ FirstPage(s) \in Seq(S)
         /\ \A i \in 1..Len(s) : i <= PageSize => s[i] \in ToSet(FirstPage(s))
<1> USE PageSizeAssumption
<1> DEFINE n == Min({Len(s), PageSize})
<1>1. n \in 0..Len(s) /\ (n = Len(s) \/ n = PageSize)
  <2>1. \E x \in {Len(s), PageSize} : \A y \in {Len(s), PageSize} : x <= y
    OBVIOUS
  <2>2. n \in {Len(s), PageSize} /\ \A y \in {Len(s), PageSize} : n <= y
    BY <2>1, Zenon DEF Min
  <2> HIDE DEF n
  <2>3. QED
    BY <2>2
<1> HIDE DEF n
<1>2. FirstPage(s) = SubSeq(s, 1, n)
  BY DEF FirstPage, n
<1>3. SubSeq(s, 1, n) \in Seq(S) /\ Len(SubSeq(s, 1, n)) = n
      /\ \A i \in 1..n : SubSeq(s, 1, n)[i] = s[i]
  BY <1>1
<1>4. \A i \in 1..n : s[i] \in ToSet(SubSeq(s, 1, n))
  BY <1>3 DEF ToSet
<1>5. QED
  BY <1>1, <1>2, <1>3, <1>4

\* The loop that removes the duplicates keeps the first container of each
\* ImageID.
LEMMA ListImagesKeepsFirst ==
  ASSUME NEW S, NEW s \in Seq(S)
  PROVE  /\ ListImages(s) \in Seq(S)
         /\ \A i \in 1..Len(s) : \/ s[i] \in ToSet(ListImages(s))
                                 \/ \E j \in 1..(i - 1) : s[j].pullable = s[i].pullable
<1> DEFINE L == Len(s)
           step(t, n) == IF \E c \in ToSet(t) : c.pullable = s[n].pullable THEN t ELSE Append(t, s[n])
           g == [p \in Seq(S) \X (1..L) |-> step(p[1], p[2])]
           Loop(h) == h = [n \in 0..L |-> IF n = 0 THEN <<>> ELSE step(h[n - 1], n)]
           cleaned == CHOOSE h : Loop(h)
<1>1. L \in Nat /\ \A n \in 1..L : s[n] \in S
  OBVIOUS
<1> HIDE DEF L
<1>2. \A t \in Seq(S), n \in 1..L : step(t, n) \in Seq(S)
  BY <1>1
<1> HIDE DEF step
<1>3. g \in [Seq(S) \X (1..L) -> Seq(S)]
  BY <1>2
<1>4. \A t \in Seq(S), n \in 1..L : g[<<t, n>>] = step(t, n)
  OBVIOUS
<1> HIDE DEF g
<1> DEFINE f == LoopStates(Seq(S), <<>>, L, g)
<1>5. IsLoop(f, Seq(S), <<>>, L, g)
  BY <1>1, <1>3, EmptyQueue, LoopExists
<1> HIDE DEF f
<1>6. f \in [0..L -> Seq(S)] /\ f[0] = <<>> /\ \A k \in 1..L : f[k] = g[<<f[k - 1], k>>]
  BY <1>5 DEF IsLoop
<1>7. \A k \in 1..L : f[k - 1] \in Seq(S) /\ f[k] = step(f[k - 1], k)
  <2>1. \A k \in 1..L : k - 1 \in 0..L
    BY <1>1
  <2>2. QED
    BY <1>4, <1>6, <2>1
<1>8. Loop(f)
  BY <1>1, <1>6, <1>7
<1>9. Loop(cleaned)
  BY <1>8, Zenon
<1> HIDE DEF cleaned
<1>10. /\ cleaned[0] = <<>>
      /\ \A n \in 1..L : cleaned[n] = step(cleaned[n - 1], n)
  BY <1>1, <1>9
<1> HIDE DEF Loop
<1> DEFINE Cleaned(n) ==
      /\ cleaned[n] \in Seq(S)
      /\ \A c \in ToSet(cleaned[n]) : \E j \in 1..n : c = s[j]
      /\ \A i \in 1..n : \/ s[i] \in ToSet(cleaned[n])
                         \/ \E j \in 1..(i - 1) : s[j].pullable = s[i].pullable
<1>11. Cleaned(0)
  BY <1>10, EmptyQueue
<1>12. ASSUME NEW n \in 1..L, Cleaned(n - 1) PROVE Cleaned(n)
  <2>1. cleaned[n] = IF \E c \in ToSet(cleaned[n - 1]) : c.pullable = s[n].pullable
                     THEN cleaned[n - 1] ELSE Append(cleaned[n - 1], s[n])
    BY <1>10 DEF step
  <2>2. n \in 1..n /\ \A j \in 1..(n - 1) : j \in 1..n
    OBVIOUS
  <2>3. \A i \in 1..n : i = n \/ i \in 1..(n - 1)
    OBVIOUS
  <2>4. CASE \E c \in ToSet(cleaned[n - 1]) : c.pullable = s[n].pullable
    <3>1. cleaned[n] = cleaned[n - 1]
      BY <2>1, <2>4
    <3>2. \E j \in 1..(n - 1) : s[j].pullable = s[n].pullable
      BY <1>12, <2>4
    <3>3. QED
      BY <1>12, <2>2, <2>3, <3>1, <3>2
  <2>5. CASE ~ \E c \in ToSet(cleaned[n - 1]) : c.pullable = s[n].pullable
    <3>1. cleaned[n] = Append(cleaned[n - 1], s[n])
      BY <2>1, <2>5
    <3>2. cleaned[n] \in Seq(S) /\ ToSet(cleaned[n]) = ToSet(cleaned[n - 1]) \cup {s[n]}
      BY <1>1, <1>12, <3>1, QueueAdds
    <3>3. QED
      BY <1>12, <2>2, <2>3, <3>2
  <2>6. QED
    BY <2>4, <2>5
<1> DEFINE D == {n \in 0..L : Cleaned(n)}
<1> HIDE DEF Cleaned
<1>13. 0 \in D /\ \A n \in 1..L : n - 1 \in D => n \in D
  BY <1>1, <1>11, <1>12
<1> HIDE DEF D
<1>14. 0..L \subseteq D
  BY <1>1, <1>13, UptoInduction, Zenon
<1>15. Cleaned(L)
  BY <1>1, <1>14 DEF D
<1>16. ListImages(s) = cleaned[L]
  BY DEF ListImages, cleaned, Loop, step, L
<1>17. QED
  BY <1>15, <1>16 DEF Cleaned, L
-----------------------------------------------------------------------------
(***************************************************************************)
(* What becomes of the items of a run.                                     *)
(***************************************************************************)
Items == run.world.items
Reports == UNION {ToSet(it.reports) : it \in ToSet(Items)}
Final == {"nil", "error", "panic"}

QueuesInv ==
  /\ run \in Runs
  /\ run.plugin \in Scannable =>
       /\ todo \in Seq(ToSet(Items)) /\ batch \in Seq(Reports)
       /\ published \in Seq(Reports) /\ lost \in Seq(Reports)

\* Why the reports of the i-th item need not be published.
Excused(i) ==
  \/ ~run.world.ready
  \/ run.plugin \in Stops /\ lost # <<>>
  \/ /\ run.plugin \in {"trivyImage", "trivySbom"}
     /\ \E j \in 1..(i - 1) : Items[j].pullable = Items[i].pullable
  \/ run.plugin = "github" /\ (i > PageSize \/ Len(Items[i].reports) > PageSize)

\* Until the run is over an item may also wait for its scan, and its reports for
\* their publish calls.
ItemsInv ==
  run.plugin \in Scannable =>
    \A i \in 1..Len(Items) : Items[i].scan = "whole" =>
      /\ status = "loop" =>
           \/ Excused(i) \/ Items[i] \in ToSet(todo)
           \/ ToSet(Items[i].reports) \subseteq ToSet(batch) \cup Sent \cup ToSet(lost)
      /\ status \in Final =>
           Excused(i) \/ ToSet(Items[i].reports) \subseteq Sent \cup ToSet(lost)

\* What the plugins do with their queues.
ListsItems ==
  /\ status = "start" /\ status' = "loop" /\ UNCHANGED <<run, batch, published, lost>>
  /\ todo' \in Seq(ToSet(Items))
  /\ \A i \in 1..Len(Items) : Excused(i) \/ Items[i] \in ToSet(todo')
ListsNothing ==
  /\ status = "start" /\ status' \in Final /\ ~run.world.ready
  /\ UNCHANGED <<run, todo, batch, published, lost>>
ScansItem ==
  /\ status = "loop" /\ batch = <<>> /\ todo # <<>> /\ todo' = Tail(todo)
  /\ batch' \in Seq(Reports)
  /\ \/ Head(todo).scan # "whole"
     \/ ToSet(Head(todo).reports) \subseteq ToSet(batch')
     \/ run.plugin = "github" /\ Len(Head(todo).reports) > PageSize
  /\ UNCHANGED <<run, status, published, lost>>
SendsReport == status = "loop" /\ batch # <<>> /\ Published
LosesReport == /\ status = "loop" /\ batch # <<>>
               /\ PublishFails("loop") \/ (PublishFails("error") /\ run.plugin \in Stops)
EndsRun ==
  /\ status = "loop" /\ batch = <<>> /\ status' \in Final
  /\ todo = <<>> \/ (run.plugin = "trivyK8s" /\ Head(todo).scan # "whole")
  /\ UNCHANGED <<run, todo, batch, published, lost>>
QueueStep == ListsItems \/ ListsNothing \/ ScansItem \/ SendsReport \/ LosesReport \/ EndsRun

\* The items of a run, and their reports, are sequences.
LEMMA ItemsType ==
  ASSUME QueuesInv, run.plugin \in Scannable
  PROVE  /\ Items \in Seq(ToSet(Items))
         /\ \A it \in ToSet(Items) : it.reports \in Seq(Reports)
         /\ \A it \in ToSet(Items) : ToSet(it.reports) \subseteq Reports
         /\ run.plugin = "trivyK8s" => Len(Items) = 1
<1>1. /\ Items \in Seq(ToSet(Items))
      /\ \A it \in ToSet(Items) : it.reports \in Seq(ToSet(it.reports))
      /\ run.plugin = "trivyK8s" => Len(Items) = 1
  BY RunsAssumption DEF QueuesInv, Items
<1>2. \A it \in ToSet(Items) : ToSet(it.reports) \subseteq Reports
  BY Zenon DEF Reports
<1>3. ASSUME NEW it \in ToSet(Items) PROVE it.reports \in Seq(Reports)
  <2>1. it.reports \in Seq(ToSet(it.reports)) /\ ToSet(it.reports) \subseteq Reports
    BY <1>1, <1>2
  <2>2. QED
    BY <2>1
<1>4. QED
  BY <1>1, <1>2, <1>3

\* A plugin that lists its items as they come, or the first of each ImageID.
LEMMA ListsAll ==
  ASSUME QueuesInv, run.plugin \in Scannable, status = "start", Listed(Items)
  PROVE  ListsItems
<1>1. Items \in Seq(ToSet(Items))
  BY ItemsType
<1>2. \A i \in 1..Len(Items) : Items[i] \in ToSet(Items)
  BY <1>1 DEF ToSet
<1>3. QED
  BY <1>1, <1>2 DEF ListsItems, Listed

\* The containers of the cluster without those whose ImageID came before.
LEMMA ListsImages ==
  ASSUME QueuesInv, run.plugin \in {"trivyImage", "trivySbom"}, status = "start",
         Listed(ListImages(Items))
  PROVE  ListsItems
<1>1. Items \in Seq(ToSet(Items))
  BY ItemsType DEF Scannable
<1>2. /\ ListImages(Items) \in Seq(ToSet(Items))
      /\ \A i \in 1..Len(Items) : \/ Items[i] \in ToSet(ListImages(Items))
                                  \/ \E j \in 1..(i - 1) : Items[j].pullable = Items[i].pullable
  BY <1>1, ListImagesKeepsFirst
<1>3. QED
  BY <1>2 DEF ListsItems, Listed, Excused

\* A scan gives the reports of the item, or nothing.
LEMMA ScansAll ==
  ASSUME QueuesInv, run.plugin \in Scannable, status = "loop", batch = <<>>, todo # <<>>,
         Scanned(IF Head(todo).scan = "whole" THEN Head(todo).reports ELSE <<>>)
  PROVE  ScansItem
<1>1. Head(todo) \in ToSet(Items)
  BY QueueTakes DEF QueuesInv
<1>2. Head(todo).reports \in Seq(Reports)
  BY <1>1, ItemsType
<1>3. <<>> \in Seq(Reports)
  BY EmptyQueue
<1>4. QED
  BY <1>2, <1>3 DEF ScansItem, Scanned

\* A publish call goes through, or fails.
LEMMA SendsOrLoses ==
  ASSUME NEW p, run.plugin = p
  PROVE  /\ PublishOrGoOn(p) => SendsReport \/ LosesReport
         /\ PublishOrReturn(p) /\ p \in Stops => SendsReport \/ LosesReport
BY DEF PublishOrGoOn, PublishOrReturn, Sends, SendsReport, LosesReport

\* A plugin returns when nothing is left.
LEMMA ReturnsAtEnd ==
  ASSUME NEW p, run.plugin = p, Ends(p), NEW how \in Final, Return(how)
  PROVE  EndsRun
BY DEF Ends, Return, EndsRun

\* Every step of a scanning plugin is one of the six.
LEMMA QueueEffects ==
  ASSUME QueuesInv, run.plugin \in Scannable, Next
  PROVE  QueueStep
<1> USE DEF QueueStep, Final
<1>1. run.world.items = Items /\ UNCHANGED run
  <2>1. UNCHANGED run
    BY Effects DEF Lists, Continues, Loses
  <2>2. QED
    BY <2>1 DEF Items
<1>2. CASE GetAllResources
  <2>1. CASE Starts("ketall") /\ ~run.world.ready /\ Return("error")
    BY <2>1 DEF Starts, Return, ListsNothing
  <2>2. ASSUME Starts("ketall"), NEW s \in SetToSeqs(ToSet(Items)), Listed(s) PROVE ListsItems
    <3>1. Items \in Seq(ToSet(Items)) /\ IsFiniteSet(ToSet(Items))
      BY ItemsType, SequenceIsFinite
    <3>2. s \in Seq(ToSet(Items)) /\ ToSet(s) = ToSet(Items)
      BY <3>1, SetToSeqsOnto
    <3>3. \A i \in 1..Len(Items) : Items[i] \in ToSet(Items)
      BY <3>1
    <3>4. QED
      BY <2>2, <3>2, <3>3 DEF ListsItems, Listed, Starts
  <2>3. CASE Scans("ketall") /\ Scanned(IF Head(todo).scan = "whole" THEN Head(todo).reports ELSE <<>>)
    BY <2>3, ScansAll DEF Scans
  <2>4. CASE PublishOrReturn("ketall")
    BY <2>4, SendsOrLoses DEF Stops, PublishOrReturn, Sends
  <2>5. CASE Ends("ketall") /\ Return("nil")
    BY <2>5, ReturnsAtEnd DEF Ends
  <2>6. QED
    BY <1>1, <1>2, <2>1, <2>2, <2>3, <2>4, <2>5 DEF GetAllResources, world
<1>3. CASE RunTrivyImageScans
  <2>1. CASE Starts("trivyImage") /\ run.world.ready /\ Listed(ListImages(Items))
    BY <2>1, ListsImages DEF Starts
  <2>2. CASE Starts("trivyImage") /\ ~run.world.ready /\ Return("error")
    BY <2>2 DEF Starts, Return, ListsNothing
  <2>3. CASE Scans("trivyImage") /\ Scanned(IF Head(todo).scan = "whole" THEN Head(todo).reports ELSE <<>>)
    BY <2>3, ScansAll DEF Scans
  <2>4. CASE PublishOrReturn("trivyImage")
    BY <2>4, SendsOrLoses DEF Stops, PublishOrReturn, Sends
  <2>5. CASE Ends("trivyImage") /\ Return("nil")
    BY <2>5, ReturnsAtEnd DEF Ends
  <2>6. QED
    BY <1>1, <1>3, <2>1, <2>2, <2>3, <2>4, <2>5 DEF RunTrivyImageScans, world
<1>4. CASE RunTrivySbomScan
  <2>1. CASE Starts("trivySbom") /\ run.world.ready /\ Listed(ListImages(Items))
    BY <2>1, ListsImages DEF Starts
  <2>2. CASE Starts("trivySbom") /\ ~run.world.ready /\ Listed(<<>>)
    BY <2>2, EmptyQueue DEF Starts, Listed, ListsItems, Excused
  <2>3. CASE Scans("trivySbom") /\ Scanned(IF Head(todo).scan = "whole" THEN Head(todo).reports ELSE <<>>)
    BY <2>3, ScansAll DEF Scans
  <2>4. CASE PublishOrGoOn("trivySbom")
    BY <2>4, SendsOrLoses DEF PublishOrGoOn, Sends
  <2>5. CASE Ends("trivySbom") /\ Return("nil")
    BY <2>5, ReturnsAtEnd DEF Ends
  <2>6. QED
    BY <1>1, <1>4, <2>1, <2>2, <2>3, <2>4, <2>5 DEF RunTrivySbomScan, world
<1>5. CASE RunTrivyK8sClusterScan
  <2>1. CASE Starts("trivyK8s") /\ run.world.ready /\ Listed(Items)
    BY <2>1, ListsAll DEF Starts
  <2>2. CASE Starts("trivyK8s") /\ ~run.world.ready /\ Return("error")
    BY <2>2 DEF Starts, Return, ListsNothing
  <2>3. CASE Scans("trivyK8s") /\ Head(todo).scan = "whole" /\ Scanned(Head(todo).reports)
    BY <2>3, ScansAll DEF Scans
  <2>4. CASE Scans("trivyK8s") /\ Head(todo).scan # "whole" /\ (Return("nil") \/ Return("error"))
    BY <2>4 DEF Scans, Return, EndsRun
  <2>5. CASE PublishOrReturn("trivyK8s")
    BY <2>5, SendsOrLoses DEF Stops, PublishOrReturn, Sends
  <2>6. CASE Ends("trivyK8s") /\ Return("nil")
    BY <2>6, ReturnsAtEnd DEF Ends
  <2>7. QED
    BY <1>1, <1>5, <2>1, <2>2, <2>3, <2>4, <2>5, <2>6 DEF RunTrivyK8sClusterScan, world
<1>6. CASE RunKubeScore
  <2>1. CASE Starts("kubeScore") /\ run.world.ready /\ Listed(Items)
    BY <2>1, ListsAll DEF Starts
  <2>2. CASE Starts("kubeScore") /\ ~run.world.ready /\ Return("error")
    BY <2>2 DEF Starts, Return, ListsNothing
  <2>3. CASE Scans("kubeScore") /\ Scanned(IF Head(todo).scan = "whole" THEN Head(todo).reports ELSE <<>>)
    BY <2>3, ScansAll DEF Scans
  <2>4. CASE PublishOrGoOn("kubeScore")
    BY <2>4, SendsOrLoses DEF PublishOrGoOn, Sends
  <2>5. CASE Ends("kubeScore") /\ Return("nil")
    BY <2>5, ReturnsAtEnd DEF Ends
  <2>6. QED
    BY <1>1, <1>6, <2>1, <2>2, <2>3, <2>4, <2>5 DEF RunKubeScore, world
<1>7. CASE StartKuberHealthy
  <2>1. CASE Starts("kuberhealthy") /\ run.world.ready /\ Listed(Items)
    BY <2>1, ListsAll DEF Starts
  <2>2. CASE Starts("kuberhealthy") /\ ~run.world.ready /\ Return("panic")
    BY <2>2 DEF Starts, Return, ListsNothing
  <2>3. CASE Scans("kuberhealthy") /\ Scanned(IF Head(todo).scan = "whole" THEN Head(todo).reports ELSE <<>>)
    BY <2>3, ScansAll DEF Scans
  <2>4. CASE PublishOrGoOn("kuberhealthy")
    BY <2>4, SendsOrLoses DEF PublishOrGoOn, Sends
  <2>5. QED
    BY <1>1, <1>7, <2>1, <2>2, <2>3, <2>4 DEF StartKuberHealthy, world
<1>8. CASE GithubContainerWatch
  <2>1. CASE Starts("github") /\ run.world.ready /\ Listed(FirstPage(Items))
    <3>1. Items \in Seq(ToSet(Items))
      BY ItemsType
    <3>2. /\ FirstPage(Items) \in Seq(ToSet(Items))
          /\ \A i \in 1..Len(Items) : i <= PageSize => Items[i] \in ToSet(FirstPage(Items))
      BY <3>1, FirstPageOf
    <3>3. \A i \in 1..Len(Items) : i <= PageSize \/ i > PageSize
      BY PageSizeAssumption
    <3>4. QED
      BY <2>1, <3>2, <3>3 DEF Starts, Listed, ListsItems, Excused
  <2>2. CASE Starts("github") /\ ~run.world.ready /\ Return("nil")
    BY <2>2 DEF Starts, Return, ListsNothing
  <2>3. CASE Scans("github")
               /\ Scanned(IF Head(todo).scan = "whole" THEN FirstPage(Head(todo).reports) ELSE <<>>)
    <3>1. Head(todo) \in ToSet(Items)
      BY <2>3, QueueTakes DEF QueuesInv, Scans
    <3>2. PICK r \in Seq(Reports) : r = Head(todo).reports
      BY <3>1, ItemsType
    <3>3. /\ FirstPage(r) \in Seq(Reports)
          /\ \A i \in 1..Len(r) : i <= PageSize => r[i] \in ToSet(FirstPage(r))
      BY FirstPageOf
    <3>4. Len(r) > PageSize \/ ToSet(r) \subseteq ToSet(FirstPage(r))
      <4> SUFFICES ASSUME ~(Len(r) > PageSize) PROVE ToSet(r) \subseteq ToSet(FirstPage(r))
        OBVIOUS
      <4>1. \A i \in 1..Len(r) : r[i] \in ToSet(FirstPage(r))
        BY <3>3, PageSizeAssumption
      <4>2. DOMAIN r = 1..Len(r)
        OBVIOUS
      <4>3. QED
        BY <4>1, <4>2, Zenon DEF ToSet
    <3>5. <<>> \in Seq(Reports)
      BY EmptyQueue
    <3>6. QED
      BY <2>3, <3>2, <3>3, <3>4, <3>5 DEF Scans, Scanned, ScansItem
  <2>4. CASE PublishOrGoOn("github")
    BY <2>4, SendsOrLoses DEF PublishOrGoOn, Sends
  <2>5. CASE Ends("github") /\ Return("nil")
    BY <2>5, ReturnsAtEnd DEF Ends
  <2>6. QED
    BY <1>1, <1>8, <2>1, <2>2, <2>3, <2>4, <2>5 DEF GithubContainerWatch, world
<1>9. CASE OutDatedImages
  <2>1. run.plugin = "outdated"
    BY <1>9 DEF OutDatedImages, PublishOrReturn, Starts, Scans, Sends, Ends
  <2>2. QED
    BY <2>1 DEF Scannable
<1>10. CASE KubePreUpgradeDetector
  <2>1. run.plugin = "preUpgrade"
    BY <1>10 DEF KubePreUpgradeDetector, PublishOrReturn, Starts, Scans, Sends, Ends
  <2>2. QED
    BY <2>1 DEF Scannable
<1>11. QED
  BY <1>2, <1>3, <1>4, <1>5, <1>6, <1>7, <1>8, <1>9, <1>10 DEF Next

LEMMA NextQueues == QueuesInv /\ [Next]_pvars => QueuesInv'
<1> SUFFICES ASSUME QueuesInv, [Next]_pvars PROVE QueuesInv'
  OBVIOUS
<1>1. UNCHANGED run
  BY Effects DEF Lists, Continues, Loses, pvars
<1>2. Items' = Items /\ Reports' = Reports
  BY <1>1 DEF Items, Reports
<1>3. CASE run.plugin \notin Scannable
  BY <1>1, <1>3 DEF QueuesInv
<1>4. CASE run.plugin \in Scannable /\ Next
  <2>1. /\ todo \in Seq(ToSet(Items)) /\ batch \in Seq(Reports)
        /\ published \in Seq(Reports) /\ lost \in Seq(Reports)
    BY <1>4 DEF QueuesInv
  <2>2. CASE ListsItems \/ ListsNothing \/ EndsRun
    BY <1>1, <1>2, <2>1, <2>2 DEF QueuesInv, ListsItems, ListsNothing, EndsRun
  <2>3. CASE ScansItem
    BY <1>1, <1>2, <2>1, <2>3, QueueTakes DEF QueuesInv, ScansItem
  <2>4. CASE SendsReport \/ LosesReport
    <3>1. Head(batch) \in Reports /\ Tail(batch) \in Seq(Reports)
      BY <2>1, <2>4, QueueTakes DEF SendsReport, LosesReport
    <3>2. /\ Append(published, Head(batch)) \in Seq(Reports)
          /\ Append(lost, Head(batch)) \in Seq(Reports)
      BY <2>1, <3>1
    <3>3. QED
      BY <1>1, <1>2, <2>1, <2>4, <3>1, <3>2
         DEF QueuesInv, SendsReport, LosesReport, Published, PublishFails
  <2>5. QED
    BY <1>4, <2>2, <2>3, <2>4, QueueEffects DEF QueueStep
<1>5. CASE UNCHANGED pvars
  BY <1>2, <1>5 DEF QueuesInv, pvars
<1>6. QED
  BY <1>3, <1>4, <1>5

LEMMA NextItems == QueuesInv /\ ItemsInv /\ [Next]_pvars => ItemsInv'
<1> SUFFICES ASSUME QueuesInv, ItemsInv, [Next]_pvars PROVE ItemsInv'
  OBVIOUS
<1>1. UNCHANGED run
  BY Effects DEF Lists, Continues, Loses, pvars
<1>2. Items' = Items /\ Reports' = Reports
  BY <1>1 DEF Items, Reports
<1>3. CASE run.plugin \notin Scannable
  BY <1>1, <1>3 DEF ItemsInv
<1>4. CASE UNCHANGED pvars
  BY <1>2, <1>4 DEF ItemsInv, pvars, Excused, Sent
<1>5. CASE run.plugin \in Scannable /\ Next
  <2> SUFFICES ASSUME NEW i \in 1..Len(Items), Items[i].scan = "whole"
               PROVE  /\ status' = "loop" =>
                           \/ Excused(i)' \/ Items[i] \in ToSet(todo')
                           \/ ToSet(Items[i].reports) \subseteq ToSet(batch') \cup Sent' \cup ToSet(lost')
                      /\ status' \in Final =>
                           Excused(i)' \/ ToSet(Items[i].reports) \subseteq Sent' \cup ToSet(lost')
    BY <1>1, <1>2 DEF ItemsInv
  <2> DEFINE it == Items[i]
  <2>1. /\ todo \in Seq(ToSet(Items)) /\ batch \in Seq(Reports)
        /\ published \in Seq(Reports) /\ lost \in Seq(Reports)
    BY <1>5 DEF QueuesInv
  <2>2. /\ status = "loop" =>
             \/ Excused(i) \/ it \in ToSet(todo)
             \/ ToSet(it.reports) \subseteq ToSet(batch) \cup Sent \cup ToSet(lost)
        /\ it.scan = "whole"
    BY <1>5 DEF ItemsInv
  <2>3. /\ run.plugin = "trivyK8s" => i = 1 /\ Len(Items) = 1
        /\ it \in ToSet(Items)
    <3>1. Items \in Seq(ToSet(Items)) /\ run.plugin = "trivyK8s" => Len(Items) = 1
      BY <1>5, ItemsType
    <3>2. Items \in Seq(ToSet(Items))
      BY <1>5, ItemsType
    <3>3. QED
      BY <1>5, <3>2, ItemsType DEF ToSet
  <2>4. Excused(i) /\ (lost' # <<>> \/ lost' = lost) => Excused(i)'
    BY <1>1, <1>2 DEF Excused
  <2> HIDE DEF it
  <2>5. CASE ListsItems
    <3>1. Excused(i) \/ it \in ToSet(todo')
      BY <2>5 DEF ListsItems, it
    <3>2. QED
      BY <2>4, <2>5, <3>1 DEF ListsItems, Final, it
  <2>6. CASE ListsNothing
    <3>1. Excused(i) /\ lost' = lost /\ status' \in Final
      BY <2>6 DEF ListsNothing, Excused
    <3>2. QED
      BY <2>4, <3>1 DEF Final
  <2>7. CASE ScansItem
    <3>1. /\ batch = <<>> /\ lost' = lost /\ Sent' = Sent /\ status' = "loop" /\ status = "loop"
          /\ Head(todo) \in ToSet(Items) /\ ToSet(todo) = {Head(todo)} \cup ToSet(todo')
          /\ \/ Head(todo).scan # "whole"
             \/ ToSet(Head(todo).reports) \subseteq ToSet(batch')
             \/ run.plugin = "github" /\ Len(Head(todo).reports) > PageSize
      BY <2>1, <2>7, QueueTakes DEF ScansItem, Sent
    <3>2. ToSet(batch) = {}
      BY <3>1, EmptyQueue
    <3>3. CASE it = Head(todo)
      <4>1. \/ ToSet(it.reports) \subseteq ToSet(batch')
            \/ run.plugin = "github" /\ Len(it.reports) > PageSize
        BY <2>2, <3>1, <3>3
      <4>2. (run.plugin = "github" /\ Len(it.reports) > PageSize) => Excused(i)
        BY DEF Excused, it
      <4>3. QED
        BY <2>4, <3>1, <4>1, <4>2 DEF Final, it
    <3>4. CASE it # Head(todo)
      <4>1. it \in ToSet(todo) => it \in ToSet(todo')
        BY <3>1, <3>4
      <4>2. QED
        BY <2>2, <2>4, <3>1, <3>2, <4>1 DEF Final, it
    <3>5. QED
      BY <3>3, <3>4
  <2>8. CASE SendsReport
    <3>1. /\ published' = Append(published, Head(batch)) /\ batch' = Tail(batch)
          /\ status = "loop" /\ batch # <<>> /\ UNCHANGED <<status, todo, lost>>
      BY <2>8 DEF SendsReport, Published
    <3>2. Head(batch) \in Reports /\ ToSet(batch) = {Head(batch)} \cup ToSet(batch')
      BY <2>1, <3>1, QueueTakes
    <3>3. Sent' = Sent \cup {Head(batch)}
      BY <2>1, <3>1, <3>2, QueueAdds DEF Sent
    <3>4. QED
      BY <2>2, <2>4, <3>1, <3>2, <3>3 DEF Final, it
  <2>9. CASE LosesReport
    <3>1. /\ lost' = Append(lost, Head(batch)) /\ batch' = Tail(batch)
          /\ status = "loop" /\ batch # <<>> /\ UNCHANGED <<todo, published>>
          /\ status' = "loop" \/ (status' = "error" /\ run.plugin \in Stops)
      BY <2>9 DEF LosesReport, PublishFails
    <3>2. Head(batch) \in Reports /\ ToSet(batch) = {Head(batch)} \cup ToSet(batch')
      BY <2>1, <3>1, QueueTakes
    <3>3. ToSet(lost') = ToSet(lost) \cup {Head(batch)} /\ Sent' = Sent /\ lost' # <<>>
      <4>1. ToSet(lost') = ToSet(lost) \cup {Head(batch)}
        BY <2>1, <3>1, <3>2, QueueAdds
      <4>2. Sent' = Sent
        BY <3>1 DEF Sent
      <4>3. lost' # <<>>
        BY <2>1, <3>1, <3>2
      <4>4. QED
        BY <4>1, <4>2, <4>3
    <3>4. CASE status' = "loop"
      BY <2>2, <2>4, <3>1, <3>2, <3>3, <3>4 DEF Final, it
    <3>5. CASE status' = "error" /\ run.plugin \in Stops
      BY <1>1, <3>3, <3>5 DEF Excused
    <3>6. QED
      BY <3>1, <3>4, <3>5
  <2>10. CASE EndsRun
    <3>1. /\ status = "loop" /\ batch = <<>> /\ status' \in Final
          /\ todo = <<>> \/ (run.plugin = "trivyK8s" /\ Head(todo).scan # "whole")
          /\ lost' = lost /\ Sent' = Sent
      BY <2>10 DEF EndsRun, Sent
    <3>2. ToSet(batch) = {}
      BY <3>1, EmptyQueue
    <3>3. it \notin ToSet(todo)
      <4>1. CASE todo = <<>>
        BY <4>1, EmptyQueue
      <4>2. CASE todo # <<>>
        <5>1. /\ run.plugin = "trivyK8s" /\ Head(todo).scan # "whole"
              /\ Head(todo) \in ToSet(Items)
          BY <2>1, <3>1, <4>2, QueueTakes
        <5>2. \A x \in ToSet(Items) : x = it
          BY <1>5, <2>3, <5>1, ItemsType DEF ToSet, it
        <5>3. QED
          BY <2>2, <5>1, <5>2
      <4>3. QED
        BY <4>1, <4>2
    <3>4. QED
      BY <2>2, <2>4, <3>1, <3>2, <3>3 DEF Final, it
  <2>11. QED
    BY <1>5, <2>5, <2>6, <2>7, <2>8, <2>9, <2>10, QueueEffects DEF QueueStep
<1>6. QED
  BY <1>3, <1>4, <1>5

\* A report of an item whose scan went well is missing from a run that is over
\* only for one of the causes that the code has.
THEOREM ReportsAreComplete == PSpec => []MissingHasACause
<1>1. Init => QueuesInv /\ ItemsInv
  BY EmptyQueue DEF Init, QueuesInv, ItemsInv, Final
<1>2. QueuesInv /\ ItemsInv /\ [Next]_pvars => (QueuesInv /\ ItemsInv)'
  BY NextQueues, NextItems
<1>3. QueuesInv /\ ItemsInv => MissingHasACause
  <2> SUFFICES ASSUME QueuesInv, ItemsInv, Over, run.plugin \in Scannable,
                      NEW i \in 1..Len(Items), Items[i].scan = "whole"
               PROVE  Excused(i) \/ ToSet(Items[i].reports) \subseteq Sent \cup ToSet(lost)
    BY DEF MissingHasACause, Excused, Items, world
  <2>1. CASE status \in Final
    BY <2>1 DEF ItemsInv
  <2>2. CASE run.plugin = "kuberhealthy" /\ Ends("kuberhealthy")
    <3>1. status = "loop" /\ ToSet(todo) = {} /\ ToSet(batch) = {}
      BY <2>2, EmptyQueue DEF Ends
    <3>2. QED
      BY <3>1 DEF ItemsInv
  <2>3. QED
    BY <2>1, <2>2 DEF Over, Final
<1>4. QED
  BY <1>1, <1>2, <1>3, PTL DEF PSpec
-----------------------------------------------------------------------------
(***************************************************************************)
(* What the pre-upgrade detector says of the APIs of the cluster.          *)
(***************************************************************************)
Entry(a, why) == [api |-> a, why |-> why]
Entries(S, why) == {Entry(a, why) : a \in S}
Found == Entries(getResults(run.world).deprecated, "deprecated")
           \cup Entries(getResults(run.world).deleted, "deleted")

\* What is found is waiting for its publish call or had it, and nothing else is.
DetectorInv ==
  /\ run \in Runs
  /\ run.plugin = "preUpgrade" =>
       /\ batch \in Seq(Found) /\ published \in Seq(Found) /\ lost \in Seq(Found)
       /\ status = "start" => published = <<>>
       /\ status \in {"loop", "nil"} =>
            Found \subseteq ToSet(batch) \cup Sent \cup ToSet(lost)
       /\ status = "nil" => batch = <<>>

\* What a run of the detector does with its queue.
FindsAll ==
  /\ status = "start" /\ status' = "loop" /\ UNCHANGED <<run, published, lost>>
  /\ batch' \in Seq(Found) /\ ToSet(batch') = Found
Tells == status = "loop" /\ batch # <<>> /\ Published
Misses == status = "loop" /\ batch # <<>> /\ PublishFails("error")
Gives == /\ UNCHANGED <<run, batch, published, lost>>
         /\ \/ status = "start" /\ status' \in {"error", "panic"}
            \/ status = "loop" /\ status' = "nil" /\ batch = <<>>

\* The entries of a set, one for each of its APIs in any order.
LEMMA EntriesInOrder ==
  ASSUME NEW S, IsFiniteSet(S), NEW why, NEW s \in SetToSeqs(S)
  PROVE  LET e == [i \in DOMAIN s |-> [api |-> s[i], why |-> why]]
         IN  e \in Seq(Entries(S, why)) /\ ToSet(e) = Entries(S, why)
<1> DEFINE e == [i \in DOMAIN s |-> [api |-> s[i], why |-> why]]
<1>1. s \in Seq(S) /\ ToSet(s) = S
  BY SetToSeqsOnto
<1>2. DOMAIN s = 1..Len(s) /\ Len(s) \in Nat /\ \A i \in DOMAIN s : s[i] \in S
  BY <1>1
<1>3. \A i \in DOMAIN s : e[i] = Entry(s[i], why)
  BY DEF Entry
<1>4. DOMAIN e = 1..Len(s)
  BY <1>2
<1> HIDE DEF e
<1>5. \A i \in 1..Len(s) : e[i] \in Entries(S, why)
  BY <1>2, <1>3 DEF Entries
<1>6. e \in [1..Len(s) -> Entries(S, why)]
  <2>1. e = [i \in 1..Len(s) |-> e[i]]
    BY <1>2 DEF e
  <2>2. QED
    BY <1>5, <2>1
<1>7. e \in Seq(Entries(S, why))
  BY <1>2, <1>6
<1>8. ToSet(e) = {Entry(s[i], why) : i \in DOMAIN s}
  BY <1>2, <1>3, <1>4 DEF ToSet
<1>9. {Entry(s[i], why) : i \in DOMAIN s} = Entries(S, why)
  BY <1>1 DEF Entries, ToSet
<1>10. QED
  BY <1>7, <1>8, <1>9 DEF e

\* The detector finds finitely many APIs.
LEMMA ResultsAreFinite ==
  ASSUME run \in Runs, run.plugin = "preUpgrade"
  PROVE  /\ IsFiniteSet(getResults(run.world).deprecated)
         /\ IsFiniteSet(getResults(run.world).deleted)
<1>1. IsFiniteSet(run.world.preferred)
  BY RunsAssumption
<1>2. /\ getResults(run.world).deprecated \subseteq run.world.preferred
      /\ getResults(run.world).deleted \subseteq run.world.preferred
  BY DEF getResults, DeprecatedToList, DeletedToList, DiscoverResourceNameAndPreferredGV,
         ServerPreferredResources
<1>3. QED
  BY <1>1, <1>2, FS_Subset

\* Every step of the detector is one of the four.
LEMMA DetectorEffects ==
  ASSUME DetectorInv, Next, run.plugin = "preUpgrade"
  PROVE  FindsAll \/ Tells \/ Misses \/ Gives
<1>1. KubePreUpgradeDetector
  BY DEF Next, OutDatedImages, GetAllResources, RunTrivyImageScans, RunTrivySbomScan,
         RunTrivyK8sClusterScan, GithubContainerWatch, RunKubeScore, StartKuberHealthy,
         Starts, Scans, Ends, PublishOrReturn, PublishOrGoOn, Sends
<1>2. CASE PublishOrReturn("preUpgrade")
  BY <1>2 DEF PublishOrReturn, Sends, Tells, Misses
<1>3. CASE Ends("preUpgrade") /\ Return("nil")
  BY <1>3 DEF Ends, Return, Gives
<1>4. CASE Starts("preUpgrade") /\ (Return("error") \/ Return("panic"))
  BY <1>4 DEF Starts, Return, Gives
<1>5. ASSUME Starts("preUpgrade"), status' = "loop", UNCHANGED <<run, todo, published, lost>>,
             NEW s \in SetToSeqs(getResults(run.world).deprecated),
             NEW t \in SetToSeqs(getResults(run.world).deleted),
             batch' = [i \in DOMAIN s |-> [api |-> s[i], why |-> "deprecated"]]
                        \o [i \in DOMAIN t |-> [api |-> t[i], why |-> "deleted"]]
      PROVE  FindsAll
  <2> DEFINE D == Entries(getResults(run.world).deprecated, "deprecated")
             X == Entries(getResults(run.world).deleted, "deleted")
             d == [i \in DOMAIN s |-> [api |-> s[i], why |-> "deprecated"]]
             x == [i \in DOMAIN t |-> [api |-> t[i], why |-> "deleted"]]
  <2>1. /\ IsFiniteSet(getResults(run.world).deprecated)
        /\ IsFiniteSet(getResults(run.world).deleted)
    BY ResultsAreFinite DEF DetectorInv
  <2>2. d \in Seq(D) /\ ToSet(d) = D
    BY <2>1, EntriesInOrder
  <2>3. x \in Seq(X) /\ ToSet(x) = X
    BY <2>1, EntriesInOrder
  <2>4. batch' = d \o x /\ Found = D \cup X
    BY <1>5 DEF Found
  <2> HIDE DEF D, X, d, x
  <2>5. d \in Seq(Found) /\ x \in Seq(Found)
    BY <2>2, <2>3, <2>4
  <2>6. batch' \in Seq(Found) /\ ToSet(batch') = ToSet(d) \cup ToSet(x)
    BY <2>4, <2>5, QueueJoins
  <2>7. QED
    BY <1>5, <2>2, <2>3, <2>4, <2>6 DEF FindsAll, Starts
<1>6. Starts("preUpgrade") /\ KubePreUpgradeDetector =>
        FindsAll \/ Return("error") \/ Return("panic")
  BY <1>5 DEF KubePreUpgradeDetector, Starts, PublishOrReturn, Sends, Ends, world
<1>7. QED
  BY <1>1, <1>2, <1>3, <1>4, <1>6 DEF KubePreUpgradeDetector

LEMMA NextDetector == DetectorInv /\ [Next]_pvars => DetectorInv'
<1> SUFFICES ASSUME DetectorInv, [Next]_pvars PROVE DetectorInv'
  OBVIOUS
<1>1. UNCHANGED run
  BY Effects DEF Lists, Continues, Loses, pvars
<1>2. Found' = Found
  BY <1>1 DEF Found
<1>3. CASE run.plugin # "preUpgrade"
  BY <1>1, <1>3 DEF DetectorInv
<1>4. CASE UNCHANGED pvars
  BY <1>2, <1>4 DEF DetectorInv, pvars, Sent
<1>5. CASE run.plugin = "preUpgrade" /\ Next
  <2>1. /\ batch \in Seq(Found) /\ published \in Seq(Found) /\ lost \in Seq(Found)
        /\ status = "start" => published = <<>>
        /\ status \in {"loop", "nil"} =>
             Found \subseteq ToSet(batch) \cup Sent \cup ToSet(lost)
        /\ run \in Runs
    BY <1>5 DEF DetectorInv
  <2> SUFFICES /\ batch' \in Seq(Found) /\ published' \in Seq(Found) /\ lost' \in Seq(Found)
               /\ status' # "start"
               /\ status' \in {"loop", "nil"} =>
                    Found \subseteq ToSet(batch') \cup Sent' \cup ToSet(lost')
               /\ status' = "nil" => batch' = <<>>
    BY <1>1, <1>2, <2>1 DEF DetectorInv
  <2>2. CASE FindsAll
    BY <2>1, <2>2 DEF FindsAll
  <2>3. CASE Tells
    <3>1. /\ published' = Append(published, Head(batch)) /\ batch' = Tail(batch)
          /\ status = "loop" /\ batch # <<>> /\ UNCHANGED <<status, lost>>
      BY <2>3 DEF Tells, Published
    <3>2. Head(batch) \in Found /\ batch' \in Seq(Found)
          /\ ToSet(batch) = {Head(batch)} \cup ToSet(batch')
      BY <2>1, <3>1, QueueTakes
    <3>3. published' \in Seq(Found) /\ Sent' = Sent \cup {Head(batch)}
      BY <2>1, <3>1, <3>2, QueueAdds DEF Sent
    <3>4. QED
      BY <2>1, <3>1, <3>2, <3>3
  <2>4. CASE Misses
    <3>1. /\ lost' = Append(lost, Head(batch)) /\ batch' = Tail(batch)
          /\ batch # <<>> /\ status' = "error" /\ UNCHANGED published
      BY <2>4 DEF Misses, PublishFails
    <3>2. Head(batch) \in Found /\ batch' \in Seq(Found)
      BY <2>1, <3>1, QueueTakes
    <3>3. lost' \in Seq(Found)
      BY <2>1, <3>1, <3>2, QueueAdds
    <3>4. QED
      BY <2>1, <3>1, <3>2, <3>3
  <2>5. CASE Gives
    BY <2>1, <2>5 DEF Gives, Sent
  <2>6. QED
    BY <1>5, <2>2, <2>3, <2>4, <2>5, DetectorEffects
<1>6. QED
  BY <1>3, <1>4, <1>5

LEMMA DetectorAlways == PSpec => []DetectorInv
<1>1. Init => DetectorInv
  <2> SUFFICES ASSUME Init PROVE DetectorInv
    OBVIOUS
  <2>1. <<>> \in Seq(Found)
    BY EmptyQueue
  <2>2. QED
    BY <2>1 DEF Init, DetectorInv
<1>2. QED
  BY <1>1, NextDetector, PTL DEF PSpec

\* What is reported as deleted is: no replacement has its objects, and the
\* swagger file of the upgrade does not describe it.
THEOREM DeletedIsTrue == PSpec => []DeletedIsDeleted
<1>1. DetectorInv => DeletedIsDeleted
  <2> SUFFICES ASSUME DetectorInv, run.plugin = "preUpgrade",
                      NEW r \in Sent, r.why = "deleted"
               PROVE  /\ world.objects[r.api] # {}
                      /\ \A d \in world.definitions : d.api = r.api => ~d.described
                      /\ r.api \in DOMAIN deletedApiReplacements =>
                           ~ world.objects[r.api] \subseteq world.objects[deletedApiReplacements[r.api]]
                      /\ \A g \in Directories : r.api.group \in world.custom[g] =>
                           \/ g \in world.unseen
                           \/ \A a \in world.preferred :
                                a.group = g => List(world, a) # "items"
    BY DEF DeletedIsDeleted
  <2>1. r \in Found
    <3>1. published \in Seq(Found)
      BY DEF DetectorInv
    <3>2. QED
      BY <3>1 DEF Sent, ToSet
  <2>2. \A a : Entry(a, "deprecated").why = "deprecated"
               /\ Entry(a, "deleted").api = a
    BY DEF Entry
  <2>3. r.api \in getResults(world).deleted
    BY <2>1, <2>2 DEF Found, Entries, world
  <2>4. r.api \in DeletedToList(world) /\ fixDeletedItemsList(world, r.api) # {}
    BY <2>3 DEF getResults
  <2>5. /\ world.objects[r.api] # {}
        /\ r.api \in DOMAIN deletedApiReplacements =>
             ~ world.objects[r.api] \subseteq world.objects[deletedApiReplacements[r.api]]
    BY <2>4 DEF fixDeletedItemsList
  <2>6. \A d \in world.definitions : d.api = r.api => ~d.described
    BY <2>4 DEF DeletedToList, PopulateKubeAPIMap, getKubeAPIValues
  <2>7. \A g \in Directories : r.api.group \in world.custom[g] =>
          \A a \in GroupLists(world, g) : List(world, a) # "items"
    BY <2>4 DEF DeletedToList, IgnoredGroups
  <2>8. \A g \in Directories : g \notin world.unseen =>
          \A a \in world.preferred : a.group = g => a \in GroupLists(world, g)
    BY DEF GroupLists, ServerPreferredResources
  <2>9. QED
    BY <2>5, <2>6, <2>7, <2>8
<1>2. QED
  BY <1>1, DetectorAlways, PTL

\* A run that ended well has told of every deprecated API that the cluster
\* prefers and that could be read.
THEOREM DeprecatedIsComplete == PSpec => []DeprecatedIsSeen
<1>1. DetectorInv /\ ReturnInv => DeprecatedIsSeen
  <2> SUFFICES ASSUME DetectorInv, ReturnInv, run.plugin = "preUpgrade", status = "nil",
                      NEW a \in DeprecatedAPIs(world) \cap world.served,
                      world.objects[a] # {}, a \in world.preferred,
                      a.group \notin world.unseen, world.listing[a] = "items"
               PROVE  Entry(a, "deprecated") \in Sent
    BY DEF DeprecatedIsSeen, Entry
  <2>1. a \in DeprecatedToList(world) /\ List(world, a) = "items"
    BY DEF DeprecatedToList, DiscoverResourceNameAndPreferredGV, ServerPreferredResources, List
  <2>2. a \in getResults(world).deprecated
    BY <2>1 DEF getResults
  <2>3. Entry(a, "deprecated") \in Found
    BY <2>2 DEF Found, Entries, world
  <2>4. ToSet(batch) = {} /\ ToSet(lost) = {}
    BY EmptyQueue DEF DetectorInv, ReturnInv, GoesOn, Quiet
  <2>5. QED
    BY <2>3, <2>4 DEF DetectorInv
<1>2. QED
  BY <1>1, ReturnAlways, DetectorAlways, PTL
-----------------------------------------------------------------------------
(***************************************************************************)
(* How far an image is behind: versions of at most three parts, their order, *)
(* and what ParseImage counts.                                             *)
(***************************************************************************)
\* A version of at most three parts.
Short(t) == t.nums \in Seq(Nat) /\ IsVersion(t) /\ Parts(t) <= 3

\* The order of the numbers of such versions.
Numbers == [1..3 -> Nat]
Below(f, g) == \/ f[1] < g[1]
               \/ f[1] = g[1] /\ f[2] < g[2]
               \/ f[1] = g[1] /\ f[2] = g[2] /\ f[3] < g[3]

LEMMA BelowOrder ==
  ASSUME NEW f \in Numbers, NEW g \in Numbers
  PROVE  /\ ~Below(f, f)
         /\ Below(f, g) => ~Below(g, f) /\ f # g
         /\ f # g => Below(f, g) \/ Below(g, f)
         /\ \A h \in Numbers : Below(f, g) /\ ~Below(h, g) => Below(f, h)
         /\ \A h \in Numbers : ~Below(g, f) /\ Below(g, h) => Below(f, h)
<1> USE DEF Numbers, Below
<1>1. f[1] = g[1] /\ f[2] = g[2] /\ f[3] = g[3] => f = g
  OBVIOUS
<1>2. QED
  BY <1>1

LEMMA IndexedSequence ==
  ASSUME NEW S, NEW n \in Nat, NEW f \in [1..n -> S]
  PROVE  f \in Seq(S) /\ Len(f) = n
OBVIOUS

\* The numbers of a version, the missing ones being zero.
LEMMA SegmentsOf ==
  ASSUME NEW t, Short(t)
  PROVE  /\ Len(t.nums) \in 1..3 /\ Parts(t) \in 1..3 /\ Parts(t) >= Len(t.nums)
         /\ Segments(t) \in Numbers /\ Len(Segments(t)) = 3 /\ Segments(t) \in Seq(Nat)
         /\ \A i \in 1..3 : Segments(t)[i] = IF i <= Len(t.nums) THEN t.nums[i] ELSE 0
         /\ \A i \in 1..3 : Segment(t, i) = Segments(t)[i]
         /\ Segment(t, 4) = 0
<1>1. t.nums \in Seq(Nat) /\ t.nums # <<>> /\ Parts(t) <= 3
  BY DEF Short, IsVersion
<1>2. PICK n \in Nat \ {0} : n = Len(t.nums)
  BY <1>1
<1>3. Len(t.nums) \in 1..3 /\ Parts(t) \in 1..3 /\ Parts(t) >= Len(t.nums)
  <2>1. Parts(t) = n \/ Parts(t) = n + 1
    BY <1>2 DEF Parts
  <2>2. PICK p : p = Parts(t)
    OBVIOUS
  <2>3. (p = n \/ p = n + 1) /\ p <= 3
    BY <1>1, <2>1, <2>2
  <2>4. n \in 1..3 /\ p \in 1..3 /\ p >= n
    BY <2>3
  <2>5. QED
    BY <1>2, <2>2, <2>4
<1>4. Max({3, Len(t.nums)}) = 3
  <2> DEFINE S == {3, Len(t.nums)}
  <2>1. 3 \in S /\ \A y \in S : 3 >= y
    BY <1>3
  <2>2. \A x \in S : (\A y \in S : x >= y) => x = 3
    BY <1>3
  <2> HIDE DEF S
  <2>3. Max(S) = 3
    BY <2>1, <2>2 DEF Max
  <2>4. QED
    BY <2>3 DEF S
<1>5. Segments(t) = [i \in 1..3 |-> IF i <= Len(t.nums) THEN t.nums[i] ELSE 0]
  BY <1>4 DEF Segments
<1>6. Segments(t) \in Numbers
  BY <1>1, <1>3, <1>5 DEF Numbers
<1>7. Len(Segments(t)) = 3 /\ Segments(t) \in Seq(Nat)
  <2>1. Segments(t) \in [1..3 -> Nat] /\ 3 \in Nat
    BY <1>6 DEF Numbers
  <2>2. Segments(t) \in Seq(Nat)
    BY <2>1, IndexedSequence
  <2>3. DOMAIN Segments(t) = 1..3
    BY <2>1
  <2>4. QED
    BY <2>2, <2>3
<1>8. QED
  BY <1>3, <1>5, <1>6, <1>7 DEF Segment

\* How two versions compare.
LEMMA NumbersCompared ==
  ASSUME NEW a, NEW b, Short(a), Short(b)
  PROVE  /\ NumberLess(a, b) <=> Below(Segments(a), Segments(b))
         /\ FirstDifference(a, b) = 0 <=> Segments(a) = Segments(b)
         /\ ~Below(Segments(b), Segments(a)) =>
              (LessSpecific(a, b) <=> Segments(a) = Segments(b))
<1> DEFINE f == Segments(a)
           g == Segments(b)
           D == {i \in 1..MaxParts : Segment(a, i) # Segment(b, i)}
           d == FirstDifference(a, b)
<1>1. /\ f \in Numbers /\ g \in Numbers /\ Len(f) = 3 /\ Len(g) = 3
      /\ \A i \in 1..3 : Segment(a, i) = f[i] /\ Segment(b, i) = g[i]
      /\ Segment(a, 4) = Segment(b, 4)
  BY SegmentsOf
<1>2. D = {i \in 1..3 : f[i] # g[i]}
  BY <1>1 DEF MaxParts
<1>3. d = IF D = {} THEN 0 ELSE Min(D)
  BY DEF FirstDifference
<1> HIDE DEF D
<1>4. ASSUME D # {} PROVE Min(D) \in D /\ \A y \in D : Min(D) <= y
  <2>1. \E x \in D : \A y \in D : x <= y
    <3>1. D \subseteq Nat
      BY <1>2
    <3>2. QED
      BY <1>4, <3>1, LeastNatural
  <2>2. QED
    BY <2>1, Zenon DEF Min
<1>5. CASE D = {}
  <2>1. d = 0 /\ f[1] = g[1] /\ f[2] = g[2] /\ f[3] = g[3]
    BY <1>2, <1>3, <1>5
  <2>2. f = g
    BY <1>1, <2>1 DEF Numbers
  <2>3. QED
    BY <1>1, <2>1, <2>2, BelowOrder DEF NumberLess, LessSpecific
<1>6. CASE D # {}
  <2>1. d \in 1..3 /\ f[d] # g[d] /\ \A i \in 1..3 : i < d => f[i] = g[i]
    BY <1>2, <1>3, <1>4, <1>6
  <2>2. f # g /\ d # 0
    BY <2>1
  <2> HIDE DEF d, f, g
  <2>3. /\ Below(f, g) <=> f[d] < g[d]
        /\ Below(g, f) <=> g[d] < f[d]
    BY <1>1, <2>1 DEF Below, Numbers
  <2>4. /\ Segment(a, d) = f[d] /\ Segment(b, d) = g[d]
        /\ f[d] \in Nat /\ g[d] \in Nat
    BY <1>1, <2>1 DEF Numbers
  <2>5. NumberLess(a, b) <=> Below(f, g)
    BY <2>2, <2>3, <2>4 DEF NumberLess, d
  <2>6. ~Below(g, f) => ~LessSpecific(a, b)
    BY <1>1, <2>1, <2>2, <2>3, <2>4 DEF LessSpecific, d, f, g
  <2>7. QED
    BY <2>2, <2>5, <2>6 DEF d, f, g
<1>7. QED
  BY <1>5, <1>6

LEMMA LessCompared ==
  ASSUME NEW a, NEW b, Short(a), Short(b)
  PROVE  /\ LessThan(a, b) => ~Below(Segments(b), Segments(a))
         /\ Below(Segments(a), Segments(b)) => LessThan(a, b)
         /\ LessThan(a, b) <=> \/ Below(Segments(a), Segments(b))
                               \/ Segments(a) = Segments(b) /\ SuffixRank(a) < SuffixRank(b)
<1>1. Segments(a) \in Numbers /\ Segments(b) \in Numbers
      /\ Len(Segments(a)) = 3 /\ Len(Segments(b)) = 3
  BY SegmentsOf
<1>2. LessThan(a, b) <=> \/ Below(Segments(a), Segments(b))
                         \/ Segments(a) = Segments(b) /\ SuffixRank(a) < SuffixRank(b)
  BY <1>1, NumbersCompared DEF LessThan
<1>3. Segments(a) = Segments(b) => ~Below(Segments(b), Segments(a))
  BY <1>1, BelowOrder
<1>4. Below(Segments(a), Segments(b)) => ~Below(Segments(b), Segments(a))
  BY <1>1, BelowOrder
<1>5. QED
  BY <1>2, <1>3, <1>4

\* Of what is measured by a natural number, the least.
LEMMA LeastBy ==
  ASSUME NEW S, S # {}, NEW f \in [S -> Nat]
  PROVE  \E m \in S : \A t \in S : f[m] <= f[t]
<1> DEFINE T == {f[t] : t \in S}
<1>1. T \subseteq Nat /\ T # {}
  OBVIOUS
<1> HIDE DEF T
<1>2. PICK n \in T : \A k \in T : n <= k
  BY <1>1, LeastNatural
<1> USE DEF T
<1>3. PICK m \in S : f[m] = n
  BY <1>2
<1>4. \A t \in S : f[t] \in T
  OBVIOUS
<1>5. QED
  BY <1>2, <1>3, <1>4

LEMMA SuffixRankType == \A t : SuffixRank(t) \in Nat
BY DEF SuffixRank

\* There is a first of some versions: one that no other comes before.
LEMMA FirstVersion ==
  ASSUME NEW S, S # {}, \A t \in S : Short(t)
  PROVE  \E m \in S : \A t \in S : ~LessThan(t, m)
<1> DEFINE N(t) == Segments(t)
<1>1. \A t \in S : N(t) \in Numbers
  BY SegmentsOf
<1> HIDE DEF N
<1> DEFINE f1 == [t \in S |-> N(t)[1]]
<1>2. f1 \in [S -> Nat]
  BY <1>1 DEF Numbers
<1>3. PICK m1 \in S : \A t \in S : f1[m1] <= f1[t]
  BY <1>2, LeastBy
<1> DEFINE S2 == {t \in S : N(t)[1] = N(m1)[1]}
           f2 == [t \in S2 |-> N(t)[2]]
<1>4. f2 \in [S2 -> Nat] /\ S2 # {}
  BY <1>1 DEF Numbers
<1>5. PICK m2 \in S2 : \A t \in S2 : f2[m2] <= f2[t]
  BY <1>4, LeastBy
<1> DEFINE S3 == {t \in S2 : N(t)[2] = N(m2)[2]}
           f3 == [t \in S3 |-> N(t)[3]]
<1>6. f3 \in [S3 -> Nat] /\ S3 # {}
  BY <1>1 DEF Numbers
<1>7. PICK m3 \in S3 : \A t \in S3 : f3[m3] <= f3[t]
  BY <1>6, LeastBy
<1> DEFINE S4 == {t \in S3 : N(t)[3] = N(m3)[3]}
           f4 == [t \in S4 |-> SuffixRank(t)]
<1>8. f4 \in [S4 -> Nat] /\ S4 # {}
  BY SuffixRankType
<1>9. PICK m \in S4 : \A t \in S4 : f4[m] <= f4[t]
  BY <1>8, LeastBy
<1>10. /\ m \in S /\ N(m)[1] = N(m1)[1] /\ N(m)[2] = N(m2)[2] /\ N(m)[3] = N(m3)[3]
       /\ \A t \in S : N(m)[1] <= N(t)[1]
       /\ \A t \in S : N(t)[1] = N(m)[1] => N(m)[2] <= N(t)[2]
       /\ \A t \in S : N(t)[1] = N(m)[1] /\ N(t)[2] = N(m)[2] => N(m)[3] <= N(t)[3]
       /\ \A t \in S : N(t) = N(m) => SuffixRank(m) <= SuffixRank(t)
  BY <1>3, <1>5, <1>7, <1>9
<1>11. ASSUME NEW t \in S PROVE ~LessThan(t, m)
  <2>1. N(t) \in Numbers /\ N(m) \in Numbers
    BY <1>1, <1>10
  <2>2. ~Below(N(t), N(m))
    BY <1>10, <2>1 DEF Below, Numbers
  <2>3. N(t) = N(m) => ~(SuffixRank(t) < SuffixRank(m))
    BY <1>10, SuffixRankType
  <2>4. QED
    BY <1>10, <2>2, <2>3, LessCompared DEF N
<1>12. QED
  BY <1>10, <1>11

\* Finitely many versions can be put in order.
LEMMA OrderExists ==
  ASSUME NEW S, IsFiniteSet(S), \A t \in S : Short(t)
  PROVE  \E s \in SetToSeqs(S) : InOrder(s)
<1> DEFINE L == Cardinality(S)
           Orders(T) == \E s \in SetToSeqs(T) : InOrder(s)
           D == {n \in 0..L : \A T \in SUBSET S : Cardinality(T) = n => Orders(T)}
<1>1. L \in Nat
  BY FS_CardinalityType
<1>2. \A T \in SUBSET S : IsFiniteSet(T) /\ Cardinality(T) \in Nat
  BY FS_Subset, FS_CardinalityType
<1> HIDE DEF L
<1>3. ASSUME NEW T \in SUBSET S, Cardinality(T) = 0 PROVE Orders(T)
  <2>1. T = {}
    BY <1>2, <1>3, FS_EmptySet
  <2>2. <<>> \in SetToSeqs({}) /\ InOrder(<<>>)
    BY FS_EmptySet DEF SetToSeqs, InOrder
  <2>3. QED
    BY <2>1, <2>2
<1>4. ASSUME NEW n \in 1..L, NEW T \in SUBSET S, Cardinality(T) = n,
             \A R \in SUBSET S : Cardinality(R) = n - 1 => Orders(R)
      PROVE  Orders(T)
  <2>1. T # {}
    BY <1>4, FS_EmptySet
  <2>2. PICK m \in T : \A t \in T : ~LessThan(t, m)
    BY <2>1, FirstVersion
  <2>3. Cardinality(T \ {m}) = n - 1 /\ T \ {m} \in SUBSET S
    BY <1>2, <1>4, FS_RemoveElement
  <2>4. PICK r \in SetToSeqs(T \ {m}) : InOrder(r)
    BY <1>4, <2>3
  <2>5. /\ r \in [1..(n - 1) -> T \ {m}]
        /\ \A i, j \in 1..(n - 1) : i # j => r[i] # r[j]
    BY <2>3, <2>4 DEF SetToSeqs
  <2> DEFINE s == [i \in 1..n |-> IF i = 1 THEN m ELSE r[i - 1]]
  <2>6. s \in [1..n -> T]
    BY <2>5
  <2>7. s[1] = m /\ \A i \in 2..n : s[i] = r[i - 1] /\ i - 1 \in 1..(n - 1) /\ s[i] \in T \ {m}
    BY <2>5
  <2> HIDE DEF s
  <2>8. \A i, j \in 1..n : i # j => s[i] # s[j]
    <3> SUFFICES ASSUME NEW i \in 1..n, NEW j \in 1..n, i # j PROVE s[i] # s[j]
      OBVIOUS
    <3>1. CASE i = 1 \/ j = 1
      BY <2>7, <3>1
    <3>2. CASE i # 1 /\ j # 1
      <4>1. i \in 2..n /\ j \in 2..n /\ i - 1 # j - 1
        BY <3>2
      <4>2. QED
        BY <2>5, <2>7, <4>1
    <3>3. QED
      BY <3>1, <3>2
  <2>9. s \in SetToSeqs(T)
    BY <1>4, <2>6, <2>8 DEF SetToSeqs
  <2>10. InOrder(s)
    <3> SUFFICES ASSUME NEW i \in 1..n, NEW j \in 1..n, i < j PROVE ~LessThan(s[j], s[i])
      BY <2>6 DEF InOrder
    <3>1. CASE i = 1
      BY <2>2, <2>6, <2>7, <3>1
    <3>2. CASE i # 1
      <4>1. i \in 2..n /\ j \in 2..n /\ i - 1 < j - 1
        BY <3>2
      <4>2. DOMAIN r = 1..(n - 1)
        BY <2>5
      <4>3. ~LessThan(r[j - 1], r[i - 1])
        BY <2>4, <2>7, <4>1, <4>2 DEF InOrder
      <4>4. QED
        BY <2>7, <4>1, <4>3
    <3>3. QED
      BY <3>1, <3>2
  <2>11. QED
    BY <2>9, <2>10
<1> HIDE DEF Orders
<1>5. 0 \in D /\ \A n \in 1..L : n - 1 \in D => n \in D
  BY <1>1, <1>3, <1>4
<1> HIDE DEF D
<1>6. 0..L \subseteq D
  BY <1>1, <1>5, UptoInduction, Zenon
<1>7. Orders(S)
  BY <1>1, <1>6 DEF D, L
<1>8. QED
  BY <1>7 DEF Orders

\* The members of a set, each once, in the order of their numbers.
Listing(s, S) ==
  /\ s \in Seq(S)
  /\ \A t \in S : \E i \in 1..Len(s) : s[i] = t
  /\ \A i, j \in 1..Len(s) : i # j => s[i] # s[j]
  /\ \A i, j \in 1..Len(s) : i < j => ~Below(Segments(s[j]), Segments(s[i]))

\* What Sorted gives: such a listing.
LEMMA SortedOf ==
  ASSUME NEW S, IsFiniteSet(S), \A t \in S : Short(t)
  PROVE  Listing(Sorted(S), S)
<1> DEFINE s == Sorted(S)
           n == Cardinality(S)
<1>1. s \in SetToSeqs(S) /\ InOrder(s)
  BY OrderExists, Zenon DEF Sorted
<1>2. n \in Nat
  BY FS_CardinalityType
<1> HIDE DEF s, n
<1>3. s \in [1..n -> S] /\ \A i, j \in 1..n : i # j => s[i] # s[j]
  BY <1>1 DEF SetToSeqs, n
<1>4. s \in Seq(S) /\ Len(s) = n
  BY <1>2, <1>3, IndexedSequence
<1>5. \A t \in S : \E i \in 1..n : s[i] = t
  <2>1. IsFiniteSet(1..n) /\ Cardinality(1..n) = n
    BY <1>2, FS_Interval
  <2>2. s \in Injection(1..n, S)
    BY <1>3 DEF Injection, IsInjective
  <2>3. s \in Surjection(1..n, S)
    BY <2>1, <2>2, FS_Injection DEF n
  <2>4. QED
    BY <2>3 DEF Surjection
<1>6. \A i, j \in 1..n : i < j => ~Below(Segments(s[j]), Segments(s[i]))
  <2> SUFFICES ASSUME NEW i \in 1..n, NEW j \in 1..n, i < j
               PROVE  ~Below(Segments(s[j]), Segments(s[i]))
    OBVIOUS
  <2>1. ~LessThan(s[j], s[i])
    BY <1>1, <1>3 DEF InOrder
  <2>2. s[i] \in S /\ s[j] \in S
    BY <1>3
  <2>3. QED
    BY <2>1, <2>2, LessCompared
<1>7. QED
  BY <1>3, <1>4, <1>5, <1>6 DEF Listing, s
\* The segments of versions in order have majors in order.
LEMMA MajorsInOrder ==
  ASSUME NEW f \in Numbers, NEW g \in Numbers, ~Below(f, g)
  PROVE  g[1] <= f[1] /\ f[1] \in Nat /\ g[1] \in Nat
BY DEF Below, Numbers

\* Without a gap of majors nothing is an outlier.
LEMMA NoOutliers ==
  ASSUME NEW tags, IsFiniteSet(tags), ~HasGap(tags),
         \A t \in tags : IsVersion(t) => Short(t)
  PROVE  parseTags(tags).semver = Sorted({t \in tags : IsVersion(t)})
<1> DEFINE vs == {t \in tags : IsVersion(t)}
           all == Sorted(vs)
           majors == {Segment(u, 1) : u \in vs}
           gap == {i \in 2..Len(all) :
                     Segment(all[i], 1) - Segment(all[i - 1], 1) > SemverOutlierMajorVersionThreshold}
<1>1. IsFiniteSet(vs) /\ \A t \in vs : Short(t)
  BY FS_Subset
<1> HIDE DEF vs
<1>2. Listing(all, vs)
  BY <1>1, SortedOf
<1>3. parseTags(tags).semver = splitOutlierSemvers(all).remaining
  BY DEF parseTags, vs
<1> HIDE DEF all
<1>4. /\ all \in Seq(vs) /\ Len(all) \in Nat
      /\ \A t \in vs : \E i \in 1..Len(all) : all[i] = t
      /\ \A i, j \in 1..Len(all) : i < j => ~Below(Segments(all[j]), Segments(all[i]))
  BY <1>2 DEF Listing
<1> DEFINE M(i) == Segment(all[i], 1)
<1>5. /\ \A i \in 1..Len(all) : all[i] \in vs /\ M(i) \in Nat /\ M(i) \in majors
      /\ \A i, j \in 1..Len(all) : i < j => M(i) <= M(j)
  <2>1. \A i \in 1..Len(all) : all[i] \in vs
    BY <1>4
  <2>2. \A i \in 1..Len(all) : Segments(all[i]) \in Numbers /\ M(i) = Segments(all[i])[1]
    BY <1>1, <2>1, SegmentsOf
  <2>3. ASSUME NEW i \in 1..Len(all), NEW j \in 1..Len(all), i < j PROVE M(i) <= M(j)
    BY <1>4, <2>2, <2>3, MajorsInOrder
  <2>4. \A i \in 1..Len(all) : M(i) \in Nat /\ M(i) \in majors
    BY <2>1, <2>2 DEF Numbers
  <2>5. QED
    BY <2>1, <2>3, <2>4
<1>6. \A m \in majors : m \in Nat /\ \E i \in 1..Len(all) : M(i) = m
  <2> SUFFICES ASSUME NEW m \in majors PROVE m \in Nat /\ \E i \in 1..Len(all) : M(i) = m
    OBVIOUS
  <2>1. PICK u \in vs : m = Segment(u, 1)
    OBVIOUS
  <2>2. PICK i \in 1..Len(all) : all[i] = u
    BY <1>4
  <2>3. M(i) = m
    BY <2>1, <2>2
  <2>4. QED
    BY <1>5, <2>3
<1>7. ~HasGap(tags) <=> ~ \E m \in majors : m > Min(majors) /\ (m - 2)..(m - 1) \cap majors = {}
  BY DEF HasGap, vs
<1> HIDE DEF M, majors
<1>8. gap = {}
  <2> SUFFICES ASSUME NEW i \in 2..Len(all), M(i) - M(i - 1) > 2
               PROVE  FALSE
    BY DEF SemverOutlierMajorVersionThreshold, M
  <2>1. i \in 1..Len(all) /\ i - 1 \in 1..Len(all)
    BY <1>4
  <2>2. M(i) \in majors /\ M(i - 1) \in majors /\ M(i) \in Nat /\ M(i - 1) \in Nat
    BY <1>5, <2>1
  <2>3. Min(majors) \in Nat /\ Min(majors) <= M(i - 1)
    <3>1. majors \subseteq Nat /\ majors # {}
      BY <1>6, <2>2
    <3>2. \E x \in majors : \A y \in majors : x <= y
      BY <3>1, LeastNatural
    <3>3. Min(majors) \in majors /\ \A y \in majors : Min(majors) <= y
      BY <3>2, Zenon DEF Min
    <3>4. QED
      BY <2>2, <3>1, <3>3
  <2>4. M(i) > Min(majors)
    BY <2>2, <2>3
  <2>5. (M(i) - 2)..(M(i) - 1) \cap majors # {}
    BY <1>7, <2>2, <2>4
  <2>6. PICK k \in (M(i) - 2)..(M(i) - 1) : k \in majors
    BY <2>5
  <2>7. PICK j \in 1..Len(all) : M(j) = k
    BY <1>6, <2>6
  <2>8. M(j) >= M(i) - 2 /\ M(j) <= M(i) - 1 /\ M(j) \in Nat
    BY <1>5, <2>2, <2>6, <2>7
  <2>9. j < i
    BY <1>5, <2>1, <2>2, <2>8
  <2>10. M(j) <= M(i - 1)
    BY <1>5, <2>1, <2>8, <2>9
  <2>11. QED
    BY <2>2, <2>8, <2>10
<1>9. splitOutlierSemvers(all).remaining = SubSeq(all, 1, Len(all))
  BY <1>8, Zenon DEF splitOutlierSemvers
<1>10. SubSeq(all, 1, Len(all)) = all
  BY <1>4
<1>11. QED
  BY <1>3, <1>9, <1>10 DEF all, vs

\* The length of a version's tag.
LEMMA TagLengthType == ASSUME NEW t, Short(t) PROVE TagLength(t) \in Nat
<1>1. \A n : Digits(n) \in Nat
  <2> TAKE n
  <2>1. PICK m \in Int : m = 9
    OBVIOUS
  <2> DEFINE P == {d \in 1..9 : 10^d <= n}
  <2>2. P \subseteq 1..m /\ IsFiniteSet(1..m)
    <3>1. P \subseteq 1..9
      OBVIOUS
    <3> HIDE DEF P
    <3>2. IsFiniteSet(1..m)
      BY FS_Interval
    <3>3. QED
      BY <2>1, <3>1, <3>2
  <2> HIDE DEF P
  <2>3. Cardinality(P) \in Nat
    BY <2>2, FS_Subset, FS_CardinalityType
  <2>4. 1 + Cardinality(P) \in Nat
    BY <2>3
  <2>5. QED
    BY <2>4 DEF Digits, P
<1>2. \A i : Written(t, i) \in Nat
  BY <1>1 DEF Written
<1>3. Prefixed(t) \in Nat /\ Suffixed(t) \in Nat
  BY DEF Prefixed, Suffixed
<1>4. Len(t.nums) \in 1..3
  BY SegmentsOf
<1>5. PICK p \in Nat, s \in Nat, l \in 1..3 : p = Prefixed(t) /\ s = Suffixed(t) /\ l = Len(t.nums)
  BY <1>3, <1>4
<1>6. PICK m1 \in Nat, m2 \in Nat, m3 \in Nat, m4 \in Nat :
        m1 = Written(t, 1) /\ m2 = Written(t, 2) /\ m3 = Written(t, 3) /\ m4 = Written(t, 4)
  BY <1>2
<1>7. TagLength(t) = p + m1 + m2 + m3 + m4 + l - 1 + s
  BY <1>5, <1>6 DEF TagLength
<1>8. QED
  BY <1>7

\* Versions of the same key have the same numbers, written alike.
LEMMA KeyMeansNumbers ==
  ASSUME NEW a, NEW b, Short(a), Short(b), UniqueKey(a) = UniqueKey(b)
  PROVE  Segments(a) = Segments(b) /\ Parts(a) = Parts(b)
<1> DEFINE f == Segments(a)
           g == Segments(b)
<1>1. /\ f \in Numbers /\ g \in Numbers /\ f \in Seq(Nat) /\ g \in Seq(Nat)
      /\ Len(f) = 3 /\ Len(g) = 3 /\ Parts(a) \in 1..3 /\ Parts(b) \in 1..3
      /\ \A i \in 1..3 : i > Parts(a) => f[i] = 0
      /\ \A i \in 1..3 : i > Parts(b) => g[i] = 0
  <2>1. /\ Len(a.nums) \in 1..3 /\ Parts(a) \in 1..3 /\ Parts(a) >= Len(a.nums)
        /\ \A i \in 1..3 : f[i] = IF i <= Len(a.nums) THEN a.nums[i] ELSE 0
    BY SegmentsOf
  <2>2. /\ Len(b.nums) \in 1..3 /\ Parts(b) \in 1..3 /\ Parts(b) >= Len(b.nums)
        /\ \A i \in 1..3 : g[i] = IF i <= Len(b.nums) THEN b.nums[i] ELSE 0
    BY SegmentsOf
  <2>3. \A i \in 1..3 : i > Parts(a) => f[i] = 0
    BY <2>1
  <2>4. \A i \in 1..3 : i > Parts(b) => g[i] = 0
    BY <2>2
  <2>5. QED
    BY <2>1, <2>2, <2>3, <2>4, SegmentsOf
<1>2. PICK p \in 1..3, q \in 1..3 : p = Parts(a) /\ q = Parts(b)
  BY <1>1
<1>3. SubSeq(f, 1, p) = SubSeq(g, 1, q)
  <2>1. UniqueKey(a) = SubSeq(f, 1, p)
    BY <1>2 DEF UniqueKey
  <2>2. UniqueKey(b) = SubSeq(g, 1, q)
    BY <1>2 DEF UniqueKey
  <2>3. QED
    BY <2>1, <2>2
<1> HIDE DEF f, g
<1>4. /\ Len(SubSeq(f, 1, p)) = p /\ Len(SubSeq(g, 1, q)) = q
      /\ \A i \in 1..p : SubSeq(f, 1, p)[i] = f[i]
      /\ \A i \in 1..q : SubSeq(g, 1, q)[i] = g[i]
  BY <1>1
<1>5. p = q
  BY <1>3, <1>4
<1>6. \A i \in 1..3 : f[i] = g[i]
  <2> TAKE i \in 1..3
  <2>1. CASE i \in 1..p
    BY <1>3, <1>4, <1>5, <2>1
  <2>2. CASE i \notin 1..p
    BY <1>1, <1>2, <1>5, <2>2
  <2>3. QED
    BY <2>1, <2>2
<1>7. f = g
  <2>1. f \in [1..3 -> Nat] /\ g \in [1..3 -> Nat]
    BY <1>1 DEF Numbers
  <2>2. QED
    BY <1>6, <2>1
<1>8. QED
  BY <1>2, <1>5, <1>7 DEF f, g

\* What Unique keeps: of every number one tag, and the tag that is alone with
\* its number.
LEMMA UniqueOf ==
  ASSUME NEW V, IsFiniteSet(V), \A t \in V : Short(t), NEW c \in Seq(V)
  PROVE  \E W \in SUBSET V :
           /\ Listing(Unique(c), W)
           /\ \A i \in 1..Len(c) : \E w \in W : Segments(w) = Segments(c[i])
           /\ \A i \in 1..Len(c) : ~HasTwin(V, c[i]) => c[i] \in W
<1> DEFINE N == 1..Len(c)
           W == {c[i] : i \in {k \in N : Kept(c, k)}}
<1>1. \A i \in N : c[i] \in V /\ Short(c[i]) /\ TagLength(c[i]) \in Nat /\ i \in Nat
  BY TagLengthType
<1>2. N \subseteq Nat
  OBVIOUS
<1>3. \A i \in N : (\A j \in N : UniqueKey(c[j]) = UniqueKey(c[i]) =>
                      \/ TagLength(c[i]) < TagLength(c[j])
                      \/ TagLength(c[i]) = TagLength(c[j]) /\ i <= j) => c[i] \in W
  BY DEF Kept
<1>4. W \in SUBSET V
  BY <1>1
<1>5. Unique(c) = Sorted(W)
  BY DEF Unique
<1> HIDE DEF N, W
<1>6. Listing(Sorted(W), W)
  <2>1. IsFiniteSet(W) /\ \A t \in W : Short(t)
    BY <1>4, FS_Subset
  <2>2. QED
    BY <2>1, SortedOf
<1>7. ASSUME NEW i \in N PROVE \E w \in W : Segments(w) = Segments(c[i])
  <2> DEFINE K == {j \in N : UniqueKey(c[j]) = UniqueKey(c[i])}
             f == [j \in K |-> TagLength(c[j])]
  <2>1. f \in [K -> Nat] /\ K # {}
    BY <1>1
  <2>2. PICK m \in K : \A j \in K : f[m] <= f[j]
    BY <2>1, LeastBy
  <2> DEFINE J == {j \in K : f[j] = f[m]}
  <2>3. J \subseteq Nat /\ J # {}
    BY <1>2
  <2>4. PICK k \in J : \A j \in J : k <= j
    BY <2>3, LeastNatural
  <2>5. k \in N /\ UniqueKey(c[k]) = UniqueKey(c[i])
    OBVIOUS
  <2>6. ASSUME NEW j \in N, UniqueKey(c[j]) = UniqueKey(c[k])
        PROVE  \/ TagLength(c[k]) < TagLength(c[j])
               \/ TagLength(c[k]) = TagLength(c[j]) /\ k <= j
    <3>1. j \in K
      BY <2>5, <2>6
    <3>2. TagLength(c[m]) <= TagLength(c[j]) /\ TagLength(c[k]) = TagLength(c[m])
      BY <2>2, <3>1
    <3>3. TagLength(c[j]) = TagLength(c[m]) => j \in J
      BY <3>1
    <3>4. QED
      BY <1>1, <2>4, <3>2, <3>3
  <2>7. c[k] \in W
    BY <1>3, <2>5, <2>6
  <2>8. Segments(c[k]) = Segments(c[i])
    BY <1>1, <2>5, KeyMeansNumbers
  <2>9. QED
    BY <2>7, <2>8
<1>8. ASSUME NEW i \in N, ~HasTwin(V, c[i]) PROVE c[i] \in W
  <2> DEFINE J == {j \in N : c[j] = c[i]}
  <2>1. J \subseteq Nat /\ J # {}
    BY <1>2
  <2>2. PICK k \in J : \A j \in J : k <= j
    BY <2>1, LeastNatural
  <2>3. k \in N /\ c[k] = c[i]
    OBVIOUS
  <2>4. ASSUME NEW j \in N, UniqueKey(c[j]) = UniqueKey(c[k])
        PROVE  TagLength(c[k]) = TagLength(c[j]) /\ k <= j
    <3>1. Segments(c[j]) = Segments(c[k]) /\ Parts(c[j]) = Parts(c[k])
      BY <1>1, <2>3, <2>4, KeyMeansNumbers
    <3>2. c[j] = c[i]
      BY <1>1, <1>8, <2>3, <3>1 DEF HasTwin
    <3>3. QED
      BY <2>2, <2>3, <3>2
  <2>5. c[k] \in W
    BY <1>3, <2>3, <2>4
  <2>6. QED
    BY <2>3, <2>5
<1>9. QED
  BY <1>4, <1>5, <1>6, <1>7, <1>8 DEF N
\* The numbers above the first of a sequence of versions.
Above(g, n) == {h \in {g[i] : i \in 1..n} : Below(g[1], h)}

\* The loop that removes the least specific versions leaves, of versions in
\* order, the first and one of each number above it.
LEMMA Counted ==
  ASSUME NEW S, \A t \in S : Short(t), NEW p \in Seq(S), p # <<>>,
         \A i, j \in 1..Len(p) : i < j => ~Below(Segments(p[j]), Segments(p[i]))
  PROVE  LET g == [i \in 1..Len(p) |-> Segments(p[i])]
         IN  /\ IsFiniteSet(Above(g, Len(p)))
             /\ RemoveLeastSpecific(p) \in Seq(S)
             /\ Len(RemoveLeastSpecific(p)) = 1 + Cardinality(Above(g, Len(p)))
<1> DEFINE L == Len(p)
           g == [i \in 1..L |-> Segments(p[i])]
           step(t, n) == IF n > 1 /\ LessSpecific(p[n - 1], p[n]) THEN t ELSE Append(t, p[n])
           body == [x \in Seq(S) \X (1..L) |-> step(x[1], x[2])]
           Loop(h) == h = [n \in 0..L |-> IF n = 0 THEN <<>> ELSE step(h[n - 1], n)]
           cleaned == CHOOSE h : Loop(h)
<1>1. L \in Nat \ {0} /\ \A n \in 1..L : p[n] \in S
  OBVIOUS
<1>2. /\ \A i \in 1..L : g[i] \in Numbers
      /\ \A i, j \in 1..L : i < j => ~Below(g[j], g[i])
  BY <1>1, SegmentsOf
<1>3. \A n \in 2..L : LessSpecific(p[n - 1], p[n]) <=> g[n - 1] = g[n]
  <2> TAKE n \in 2..L
  <2>1. n - 1 \in 1..L /\ n \in 1..L /\ n - 1 < n
    BY <1>1
  <2>2. ~Below(Segments(p[n]), Segments(p[n - 1])) /\ Short(p[n]) /\ Short(p[n - 1])
    BY <1>1, <2>1
  <2>3. LessSpecific(p[n - 1], p[n]) <=> Segments(p[n - 1]) = Segments(p[n])
    BY <2>2, NumbersCompared
  <2>4. QED
    BY <2>1, <2>3
<1> HIDE DEF L, g
<1>4. \A t \in Seq(S), n \in 1..L : step(t, n) \in Seq(S)
  BY <1>1
<1> HIDE DEF step
<1>5. body \in [Seq(S) \X (1..L) -> Seq(S)]
  BY <1>4
<1>6. \A t \in Seq(S), n \in 1..L : body[<<t, n>>] = step(t, n)
  OBVIOUS
<1> HIDE DEF body
<1> DEFINE f == LoopStates(Seq(S), <<>>, L, body)
<1>7. IsLoop(f, Seq(S), <<>>, L, body)
  <2>1. <<>> \in Seq(S)
    OBVIOUS
  <2>2. QED
    BY <1>1, <1>5, <2>1, LoopExists
<1> HIDE DEF f
<1>8. f \in [0..L -> Seq(S)] /\ f[0] = <<>> /\ \A k \in 1..L : f[k] = body[<<f[k - 1], k>>]
  BY <1>7 DEF IsLoop
<1>9. \A k \in 1..L : f[k - 1] \in Seq(S) /\ f[k] = step(f[k - 1], k)
  <2>1. \A k \in 1..L : k - 1 \in 0..L
    BY <1>1
  <2>2. QED
    BY <1>6, <1>8, <2>1
<1>10. Loop(f)
  BY <1>1, <1>8, <1>9
<1>11. Loop(cleaned)
  BY <1>10, Zenon
<1> HIDE DEF cleaned
<1>12. /\ cleaned[0] = <<>>
       /\ \A n \in 1..L : cleaned[n] = step(cleaned[n - 1], n)
  BY <1>1, <1>11
<1> HIDE DEF Loop
<1> DEFINE Right(n) ==
      /\ cleaned[n] \in Seq(S) /\ IsFiniteSet(Above(g, n))
      /\ n = 0 => Len(cleaned[n]) = 0
      /\ n > 0 => Len(cleaned[n]) = 1 + Cardinality(Above(g, n))
<1>13. Right(0)
  <2>1. Above(g, 0) = {}
    BY DEF Above
  <2>2. IsFiniteSet({}) /\ Cardinality({}) = 0
    BY FS_EmptySet
  <2>3. cleaned[0] \in Seq(S) /\ Len(cleaned[0]) = 0
    BY <1>12
  <2>4. IsFiniteSet(Above(g, 0))
    BY <2>1, <2>2, Zenon
  <2>5. QED
    BY <2>3, <2>4
<1>14. ASSUME NEW n \in 1..L, Right(n - 1) PROVE Right(n)
  <2>1. cleaned[n - 1] \in Seq(S) /\ p[n] \in S /\ IsFiniteSet(Above(g, n - 1))
    BY <1>1, <1>14
  <2>2. cleaned[n] = step(cleaned[n - 1], n)
    BY <1>12
  <2>3. \A h : h \in {g[i] : i \in 1..n} <=> h = g[n] \/ h \in {g[i] : i \in 1..(n - 1)}
    <3>1. \A i : i \in 1..n <=> i = n \/ i \in 1..(n - 1)
      OBVIOUS
    <3>2. QED
      BY <3>1
  <2>4. CASE n = 1
    <3>1. cleaned[n] = Append(cleaned[n - 1], p[n])
      BY <2>2, <2>4 DEF step
    <3>2. Len(cleaned[n - 1]) = 0
      BY <1>14, <2>4
    <3>3. cleaned[n] \in Seq(S) /\ Len(cleaned[n]) = 1
      BY <2>1, <3>1, <3>2
    <3>4. ~Below(g[1], g[1])
      BY <1>2, <2>4, BelowOrder
    <3>5. Above(g, n) = {}
      BY <2>4, <3>4 DEF Above
    <3>6. IsFiniteSet({}) /\ Cardinality({}) = 0
      BY FS_EmptySet
    <3>7. IsFiniteSet(Above(g, n)) /\ Cardinality(Above(g, n)) = 0
      BY <3>5, <3>6, Zenon
    <3>8. QED
      BY <2>4, <3>3, <3>7
  <2>5. CASE n > 1
    <3>1. n \in 2..L /\ n - 1 \in 1..L /\ n - 1 > 0 /\ 1 \in 1..L
      BY <1>1, <2>5
    <3>2. Len(cleaned[n - 1]) = 1 + Cardinality(Above(g, n - 1))
      BY <1>14, <3>1
    <3>3. CASE g[n - 1] = g[n]
      <4>1. cleaned[n] = cleaned[n - 1]
        BY <1>3, <2>2, <2>5, <3>1, <3>3 DEF step
      <4>2. g[n] \in {g[i] : i \in 1..(n - 1)}
        BY <3>1, <3>3
      <4>3. Above(g, n) = Above(g, n - 1)
        BY <2>3, <4>2 DEF Above
      <4>4. QED
        BY <1>14, <3>1, <4>1, <4>3
    <3>4. CASE g[n - 1] # g[n]
      <4>1. cleaned[n] = Append(cleaned[n - 1], p[n])
        BY <1>3, <2>2, <2>5, <3>1, <3>4 DEF step
      <4>2. cleaned[n] \in Seq(S) /\ Len(cleaned[n]) = Len(cleaned[n - 1]) + 1
        BY <2>1, <4>1
      <4>3. g[n] \in Numbers /\ g[n - 1] \in Numbers /\ g[1] \in Numbers
        BY <1>2, <3>1
      <4>4. Below(g[n - 1], g[n])
        <5>1. ~Below(g[n], g[n - 1])
          BY <1>2, <3>1
        <5>2. QED
          BY <3>4, <4>3, <5>1, BelowOrder
      <4>5. Below(g[1], g[n])
        <5>1. CASE n - 1 = 1
          BY <4>4, <5>1
        <5>2. CASE n - 1 # 1
          <6>1. ~Below(g[n - 1], g[1])
            BY <1>2, <3>1, <5>2
          <6>2. QED
            BY <4>3, <4>4, <6>1, BelowOrder
        <5>3. QED
          BY <5>1, <5>2
      <4>6. \A i \in 1..(n - 1) : g[i] # g[n]
        <5> TAKE i \in 1..(n - 1)
        <5>1. i \in 1..L
          BY <1>1
        <5>2. CASE i = n - 1
          BY <3>4, <5>2
        <5>3. CASE i # n - 1
          <6>1. ~Below(g[n - 1], g[i])
            BY <1>2, <3>1, <5>1, <5>3
          <6>2. QED
            BY <4>4, <6>1
        <5>4. QED
          BY <5>2, <5>3
      <4>7. Above(g, n) = Above(g, n - 1) \cup {g[n]} /\ g[n] \notin Above(g, n - 1)
        <5>1. \A h : h \in Above(g, n) <=> h = g[n] \/ h \in Above(g, n - 1)
          BY <2>3, <4>5 DEF Above
        <5>2. g[n] \notin Above(g, n - 1)
          BY <4>6 DEF Above
        <5>3. QED
          BY <5>1, <5>2
      <4>8. IsFiniteSet(Above(g, n)) /\ Cardinality(Above(g, n)) = Cardinality(Above(g, n - 1)) + 1
        <5>1. PICK A, h : A = Above(g, n - 1) /\ h = g[n]
          OBVIOUS
        <5>2. IsFiniteSet(A) /\ h \notin A
          BY <2>1, <4>7, <5>1
        <5>3. IsFiniteSet(A \cup {h}) /\ Cardinality(A \cup {h}) = Cardinality(A) + 1
          BY <5>2, FS_AddElement
        <5>4. Above(g, n) = A \cup {h}
          BY <4>7, <5>1
        <5>5. QED
          BY <5>1, <5>3, <5>4
      <4>9. QED
        <5>1. PICK k \in Nat : k = Cardinality(Above(g, n - 1))
          BY <2>1, FS_CardinalityType
        <5>2. Len(cleaned[n]) = 1 + Cardinality(Above(g, n))
          BY <3>2, <4>2, <4>8, <5>1
        <5>3. QED
          BY <2>5, <4>2, <4>8, <5>2
    <3>5. QED
      BY <3>3, <3>4
  <2>6. QED
    BY <2>4, <2>5
<1> DEFINE D == {n \in 0..L : Right(n)}
<1> HIDE DEF Right
<1>15. 0 \in D /\ \A n \in 1..L : n - 1 \in D => n \in D
  BY <1>1, <1>13, <1>14
<1> HIDE DEF D
<1>16. 0..L \subseteq D
  BY <1>1, <1>15, UptoInduction, Zenon
<1>17. Right(L) /\ L > 0
  BY <1>1, <1>16 DEF D
<1>18. RemoveLeastSpecific(p) = cleaned[L]
  BY DEF RemoveLeastSpecific, cleaned, Loop, step, L
<1>19. QED
  BY <1>17, <1>18 DEF Right, L, g
\* How far a version is behind its image's registry: as many newer numbers as
\* there are, when no tag has more than three parts, no major number is far from
\* the others and no other tag has the numbers of the running one.
LEMMA BehindCounted ==
  ASSUME NEW date, NEW current, IsFiniteSet(DOMAIN date), ~HasGap(DOMAIN date), IsVersion(current),
         \A t \in DOMAIN date \cup {current} : t.nums \in Seq(Nat) /\ Parts(t) <= 3,
         ~HasTwin(DOMAIN date \cup {current}, current)
  PROVE  /\ ParseImage(date, current).behind = Cardinality(NewerNumbers(DOMAIN date, current))
         /\ IsFiniteSet(NewerNumbers(DOMAIN date, current))
<1> DEFINE tags == DOMAIN date
           vs == {t \in tags : IsVersion(t)}
           V == vs \cup {current}
           semver == Sorted(vs)
           c == Append(semver, current)
           u == Unique(c)
           p == VersionsBehind(c, current)
<1>1. IsFiniteSet(vs) /\ IsFiniteSet(V) /\ current \in V /\ \A t \in V : Short(t)
  <2>1. IsFiniteSet(vs)
    BY FS_Subset
  <2>2. IsFiniteSet(V)
    BY <2>1, FS_AddElement
  <2>3. QED
    BY <2>1, <2>2 DEF Short
<1>2. parseTags(tags).semver = semver
  BY NoOutliers DEF Short
<1>3. ~HasTwin(V, current)
  BY DEF HasTwin
<1>4. Listing(semver, vs)
  BY <1>1, SortedOf
<1> HIDE DEF semver, vs
<1>5. /\ c \in Seq(V) /\ \A t \in V : \E i \in 1..Len(c) : c[i] = t
  <2>1. /\ semver \in Seq(vs) /\ Len(semver) \in Nat
        /\ \A t \in vs : \E i \in 1..Len(semver) : semver[i] = t
    BY <1>4 DEF Listing
  <2>2. semver \in Seq(V)
    BY <2>1
  <2>3. /\ c \in Seq(V) /\ Len(c) = Len(semver) + 1 /\ c[Len(semver) + 1] = current
        /\ \A i \in 1..Len(semver) : c[i] = semver[i]
    BY <1>1, <2>2
  <2>4. \A i \in 1..Len(semver) : i \in 1..Len(c)
    BY <2>1, <2>3
  <2>5. Len(semver) + 1 \in 1..Len(c)
    BY <2>1, <2>3
  <2>6. QED
    BY <2>1, <2>3, <2>4, <2>5
<1> HIDE DEF c, V
<1>6. PICK W \in SUBSET V :
        /\ Listing(u, W)
        /\ \A i \in 1..Len(c) : \E w \in W : Segments(w) = Segments(c[i])
        /\ \A i \in 1..Len(c) : ~HasTwin(V, c[i]) => c[i] \in W
  BY <1>1, <1>5, UniqueOf
<1>7. current \in W /\ (\A t \in V : \E w \in W : Segments(w) = Segments(t))
  BY <1>1, <1>3, <1>5, <1>6
<1> HIDE DEF u
<1>8. /\ u \in Seq(W) /\ Len(u) \in Nat
      /\ \A t \in W : \E i \in 1..Len(u) : u[i] = t
      /\ \A i, j \in 1..Len(u) : i # j => u[i] # u[j]
      /\ \A i, j \in 1..Len(u) : i < j => ~Below(Segments(u[j]), Segments(u[i]))
  BY <1>6 DEF Listing
<1>9. PICK k \in 1..Len(u) : u[k] = current
  BY <1>7, <1>8
<1>10. p = SubSeq(u, k, Len(u))
  <2> DEFINE at == {i \in 1..Len(u) : u[i] = current}
  <2>1. at = {k}
    BY <1>8, <1>9
  <2>2. p = IF at = {} THEN <<current>> ELSE SubSeq(u, Min(at), Len(u))
    BY DEF VersionsBehind, u
  <2> HIDE DEF at
  <2>3. Min(at) = k
    <3>1. k \in Int /\ k <= k
      OBVIOUS
    <3>2. \A x \in at : x = k
      BY <2>1
    <3>3. k \in at /\ \A y \in at : k <= y
      BY <2>1, <3>1
    <3>4. QED
      BY <3>2, <3>3, Zenon DEF Min
  <2>4. QED
    BY <2>1, <2>2, <2>3
<1> HIDE DEF p
<1>11. /\ p \in Seq(W) /\ Len(p) = Len(u) - k + 1 /\ Len(p) \in Nat \ {0} /\ p # <<>>
       /\ \A i \in 1..Len(p) : p[i] = u[k + i - 1] /\ k + i - 1 \in 1..Len(u)
  <2>1. PICK n \in Nat : n = Len(u)
    BY <1>8
  <2>2. k \in 1..n /\ p = SubSeq(u, k, n)
    BY <1>10, <2>1
  <2>3. p \in Seq(W)
    BY <1>8, <2>1, <2>2
  <2>4. Len(p) = n - k + 1
    BY <1>8, <2>1, <2>2
  <2>5. \A i \in 1..(n - k + 1) : p[i] = u[k + i - 1] /\ k + i - 1 \in 1..n
    BY <1>8, <2>1, <2>2
  <2>6. n - k + 1 \in Nat \ {0}
    BY <2>2
  <2>7. QED
    BY <2>1, <2>3, <2>4, <2>5, <2>6
<1>12. /\ p[1] = current
       /\ \A i, j \in 1..Len(p) : i < j => ~Below(Segments(p[j]), Segments(p[i]))
  <2>1. 1 \in 1..Len(p) /\ k + 1 - 1 = k
    BY <1>11
  <2>2. p[1] = current
    BY <1>9, <1>11, <2>1
  <2>3. ASSUME NEW i \in 1..Len(p), NEW j \in 1..Len(p), i < j
        PROVE  ~Below(Segments(p[j]), Segments(p[i]))
    <3>1. k + i - 1 < k + j - 1
      BY <2>3
    <3>2. QED
      BY <1>8, <1>11, <3>1
  <2>4. QED
    BY <2>2, <2>3
<1> DEFINE g == [i \in 1..Len(p) |-> Segments(p[i])]
           path == RemoveLeastSpecific(p)
<1>13. /\ IsFiniteSet(Above(g, Len(p)))
       /\ path \in Seq(W) /\ Len(path) = 1 + Cardinality(Above(g, Len(p)))
  <2>1. \A t \in W : Short(t)
    BY <1>1
  <2>2. QED
    BY <1>11, <1>12, <2>1, Counted
<1>14. Above(g, Len(p)) = NewerNumbers(tags, current)
  <2>1. NewerNumbers(tags, current) =
          {Segments(t) : t \in {x \in vs : Below(Segments(current), Segments(x))}}
    <3>1. NewerNumbers(tags, current) = {Segments(t) : t \in {x \in vs : NumberLess(current, x)}}
      BY DEF NewerNumbers, vs
    <3>2. \A x \in vs : NumberLess(current, x) <=> Below(Segments(current), Segments(x))
      BY <1>1, NumbersCompared DEF V
    <3>3. QED
      BY <3>1, <3>2
  <2>2. \A h : h \in Above(g, Len(p)) <=>
          \E i \in 1..Len(p) : h = Segments(p[i]) /\ Below(Segments(current), h)
    <3>1. g[1] = Segments(current) /\ \A i \in 1..Len(p) : g[i] = Segments(p[i])
      BY <1>11, <1>12
    <3> HIDE DEF g
    <3>2. QED
      BY <3>1 DEF Above
  <2>3. \A t \in V : Segments(t) \in Numbers
    BY <1>1, SegmentsOf
  <2>4. ASSUME NEW i \in 1..Len(p), Below(Segments(current), Segments(p[i]))
        PROVE  p[i] \in vs
    <3>1. p[i] \in V
      BY <1>11
    <3>2. p[i] # current
      BY <1>1, <2>3, <2>4, BelowOrder
    <3>3. QED
      BY <3>1, <3>2 DEF V
  <2>5. ASSUME NEW t \in vs, Below(Segments(current), Segments(t))
        PROVE  \E i \in 1..Len(p) : Segments(p[i]) = Segments(t)
    <3>1. PICK w \in W : Segments(w) = Segments(t)
      BY <1>7 DEF V
    <3>2. PICK m \in 1..Len(u) : u[m] = w
      BY <1>8
    <3>3. Segments(current) \in Numbers /\ Segments(t) \in Numbers
      BY <1>1, <2>3 DEF V
    <3>4. m > k
      <4>1. m # k
        BY <1>9, <2>5, <3>1, <3>2, <3>3, BelowOrder
      <4>2. ~(m < k)
        BY <1>8, <1>9, <2>5, <3>1, <3>2
      <4>3. QED
        BY <4>1, <4>2
    <3>5. PICK n \in Nat : n = Len(u)
      BY <1>8
    <3>6. Len(p) = n - k + 1 /\ m \in 1..n /\ k \in 1..n
      BY <1>11, <3>5
    <3>7. PICK i \in 1..(n - k + 1) : k + i - 1 = m
      <4>1. m - k + 1 \in 1..(n - k + 1) /\ k + (m - k + 1) - 1 = m
        BY <3>4, <3>6
      <4>2. QED
        BY <4>1
    <3>8. i \in 1..Len(p) /\ p[i] = w
      BY <1>11, <3>2, <3>6, <3>7
    <3>9. QED
      BY <3>1, <3>8
  <2>6. ASSUME NEW h \in Above(g, Len(p)) PROVE h \in NewerNumbers(tags, current)
    <3>1. PICK i \in 1..Len(p) : h = Segments(p[i]) /\ Below(Segments(current), h)
      BY <2>2, <2>6
    <3>2. p[i] \in vs
      BY <2>4, <3>1
    <3>3. QED
      BY <2>1, <3>1, <3>2
  <2>7. ASSUME NEW h \in NewerNumbers(tags, current) PROVE h \in Above(g, Len(p))
    <3>1. PICK t \in vs : h = Segments(t) /\ Below(Segments(current), h)
      BY <2>1, <2>7
    <3>2. \E i \in 1..Len(p) : Segments(p[i]) = h
      BY <2>5, <3>1
    <3>3. QED
      BY <2>2, <3>1, <3>2
  <2>8. QED
    BY <2>6, <2>7
<1>15. ParseImage(date, current).behind = Len(path) - 1
  BY <1>2 DEF ParseImage, p, c
<1>16. Cardinality(Above(g, Len(p))) \in Nat
  BY <1>13, FS_CardinalityType
<1> HIDE DEF path, g
<1>17. QED
  BY <1>13, <1>14, <1>15, <1>16

(***************************************************************************)
(* What the run about outdated images says of them.                        *)
(***************************************************************************)
Answered == UNION {ToSet(OutdatedReports(it)) : it \in ToSet(Items)}

\* The queues of the run hold images of the cluster, and answers about them.
ImagesInv ==
  run.plugin = "outdated" =>
    /\ run \in Runs
    /\ todo \in Seq(ToSet(Items)) /\ batch \in Seq(Answered) /\ published \in Seq(Answered)

\* The answer about an image is one report, or none.
LEMMA AnswerIsSequence ==
  ASSUME NEW c
  PROVE  OutdatedReports(c) \in Seq(ToSet(OutdatedReports(c)))
<1> DEFINE r == ParseImage(c.date, c.tag)
           told == [image |-> c.index, behind |-> r.behind, latest |-> r.latest]
<1>1. \/ OutdatedReports(c) = <<>> \/ OutdatedReports(c) = <<Unknown(c)>>
      \/ OutdatedReports(c) = <<told>>
  BY Zenon DEF OutdatedReports
<1> HIDE DEF told
<1>2. \A x : <<x>> \in Seq(ToSet(<<x>>))
  <2> TAKE x
  <2>1. x \in ToSet(<<x>>)
    BY DEF ToSet
  <2>2. QED
    BY <2>1
<1>3. <<>> \in Seq(ToSet(<<>>))
  BY EmptyQueue
<1>4. QED
  BY <1>1, <1>2, <1>3, Zenon

\* It names the image, and gives what ParseImage says or that it cannot tell.
LEMMA AnswerSays ==
  ASSUME NEW c, NEW a \in ToSet(OutdatedReports(c))
  PROVE  /\ a.image = c.index
         /\ a.latest # Message => a.behind = ParseImage(c.date, c.tag).behind
<1> DEFINE r == ParseImage(c.date, c.tag)
           told == [image |-> c.index, behind |-> r.behind, latest |-> r.latest]
<1>1. \/ OutdatedReports(c) = <<>> \/ OutdatedReports(c) = <<Unknown(c)>>
      \/ OutdatedReports(c) = <<told>>
  BY Zenon DEF OutdatedReports
<1>2. told.image = c.index /\ told.behind = r.behind
  OBVIOUS
<1> HIDE DEF told, r
<1>3. \A x, y : y \in ToSet(<<x>>) => y = x
  BY DEF ToSet
<1>4. a = Unknown(c) \/ a = told
  BY <1>1, <1>3, EmptyQueue
<1>5. Unknown(c).image = c.index /\ Unknown(c).latest = Message
  BY DEF Unknown
<1>6. QED
  BY <1>2, <1>4, <1>5 DEF r

LEMMA NextImages == ImagesInv /\ [Next]_pvars => ImagesInv'
<1> SUFFICES ASSUME ImagesInv, [Next]_pvars PROVE ImagesInv'
  OBVIOUS
<1>1. UNCHANGED run
  BY Effects DEF Lists, Continues, Loses, pvars
<1>2. Items' = Items /\ Answered' = Answered
  BY <1>1 DEF Items, Answered
<1>3. CASE run.plugin # "outdated"
  BY <1>1, <1>3 DEF ImagesInv
<1>4. CASE UNCHANGED pvars
  BY <1>2, <1>4 DEF ImagesInv, pvars
<1>5. CASE run.plugin = "outdated" /\ Next
  <2>1. /\ run \in Runs /\ todo \in Seq(ToSet(Items))
        /\ batch \in Seq(Answered) /\ published \in Seq(Answered)
    BY <1>5 DEF ImagesInv
  <2> SUFFICES todo' \in Seq(ToSet(Items)) /\ batch' \in Seq(Answered) /\ published' \in Seq(Answered)
    BY <1>1, <1>2, <2>1 DEF ImagesInv
  <2>2. OutDatedImages
    BY <1>5 DEF Next, KubePreUpgradeDetector, GetAllResources, RunTrivyImageScans,
         RunTrivySbomScan, RunTrivyK8sClusterScan, GithubContainerWatch, RunKubeScore,
         StartKuberHealthy, Starts, Scans, Ends, PublishOrReturn, PublishOrGoOn, Sends
  <2>3. CASE Starts("outdated") /\ Listed(ListImages(Items))
    <3>1. Items \in Seq(ToSet(Items))
      BY <1>5, <2>1, ImagesAssumption DEF Items
    <3>2. ListImages(Items) \in Seq(ToSet(Items))
      BY <3>1, ListImagesKeepsFirst
    <3>3. QED
      BY <2>1, <2>3, <3>2 DEF Listed
  <2>4. CASE \E how : Return(how)
    BY <2>1, <2>4 DEF Return
  <2>5. CASE Scans("outdated") /\ Scanned(OutdatedReports(Head(todo)))
    <3>1. todo # <<>> /\ todo' = Tail(todo) /\ batch' = OutdatedReports(Head(todo))
          /\ published' = published
      BY <2>5 DEF Scans, Scanned
    <3>2. Head(todo) \in ToSet(Items) /\ todo' \in Seq(ToSet(Items))
      BY <2>1, <3>1, QueueTakes
    <3>3. ToSet(OutdatedReports(Head(todo))) \subseteq Answered
      BY <3>2 DEF Answered
    <3>4. batch' \in Seq(ToSet(OutdatedReports(Head(todo))))
      BY <3>1, AnswerIsSequence
    <3>5. batch' \in Seq(Answered)
      BY <3>3, <3>4
    <3>6. QED
      BY <2>1, <3>1, <3>2, <3>5
  <2>6. CASE PublishOrReturn("outdated")
    <3>1. batch # <<>> /\ batch' = Tail(batch) /\ UNCHANGED todo
          /\ (published' = published \/ published' = Append(published, Head(batch)))
      BY <2>6 DEF PublishOrReturn, Sends, Published, PublishFails
    <3>2. Head(batch) \in Answered /\ batch' \in Seq(Answered)
      BY <2>1, <3>1, QueueTakes
    <3>3. Append(published, Head(batch)) \in Seq(Answered)
      BY <2>1, <3>2
    <3>4. QED
      BY <2>1, <3>1, <3>2, <3>3
  <2>7. QED
    BY <2>2, <2>3, <2>4, <2>5, <2>6 DEF OutDatedImages, world, Items
<1>6. QED
  BY <1>3, <1>4, <1>5

LEMMA ImagesAlways == PSpec => []ImagesInv
<1>1. Init => ImagesInv
  <2> SUFFICES ASSUME Init PROVE ImagesInv
    OBVIOUS
  <2>1. <<>> \in Seq(Answered) /\ <<>> \in Seq(ToSet(Items))
    BY EmptyQueue
  <2>2. QED
    BY <2>1 DEF Init, ImagesInv
<1>2. QED
  BY <1>1, NextImages, PTL DEF PSpec

\* An image whose versions can be compared.
Comparable(c) ==
  /\ IsVersion(c.tag) /\ LongTags(DOMAIN c.date \cup {c.tag}) = {} /\ ~HasGap(DOMAIN c.date)
  /\ ~HasTwin(DOMAIN c.date \cup {c.tag}, c.tag)

LEMMA LagCounted ==
  ASSUME ImagesInv, run.plugin = "outdated", NEW a \in Sent,
         NEW c, c = run.world.items[a.image], a.latest # Message, Comparable(c)
  PROVE  /\ a.behind = Cardinality(NewerNumbers(DOMAIN c.date, c.tag))
         /\ IsFiniteSet(NewerNumbers(DOMAIN c.date, c.tag))
<1>1. run \in Runs /\ published \in Seq(Answered)
  BY DEF ImagesInv
<1>2. /\ Items \in Seq(ToSet(Items))
      /\ \A i \in 1..Len(Items) :
           /\ Items[i].index = i /\ IsFiniteSet(DOMAIN Items[i].date)
           /\ \A t \in DOMAIN Items[i].date \cup {Items[i].tag} : t.nums \in Seq(Nat)
  BY <1>1, ImagesAssumption, Zenon DEF Items
<1>3. a \in Answered
  BY <1>1, RangeType, ToSetIsRange DEF Sent
<1>4. PICK it \in ToSet(Items) : a \in ToSet(OutdatedReports(it))
  BY <1>3, Zenon DEF Answered
<1>5. PICK i \in 1..Len(Items) : it = Items[i]
  <2>1. ToSet(Items) = {Items[i] : i \in 1..Len(Items)}
    BY <1>2, RangeIndexed, ToSetIsRange, Zenon
  <2>2. QED
    BY <2>1
<1>6. a.image = it.index /\ a.behind = ParseImage(it.date, it.tag).behind
  BY <1>4, AnswerSays
<1>7. it = c
  BY <1>2, <1>5, <1>6 DEF Items
<1>8. IsFiniteSet(DOMAIN c.date) /\ \A t \in DOMAIN c.date \cup {c.tag} : t.nums \in Seq(Nat)
  BY <1>2, <1>5, <1>7
<1>9. \A t \in DOMAIN c.date \cup {c.tag} : Parts(t) <= 3
  <2> TAKE t \in DOMAIN c.date \cup {c.tag}
  <2>1. Parts(t) \in Nat
    BY <1>8 DEF Parts
  <2>2. ~(Parts(t) > 3)
    BY DEF LongTags, Comparable
  <2>3. QED
    BY <2>1, <2>2
<1>10. QED
  BY <1>6, <1>7, <1>8, <1>9, BehindCounted DEF Comparable

\* An image whose tags have at most three parts, no far major number and no
\* other tag of the numbers of the running one is reported as many versions
\* behind as its registry has newer numbers, for every registry.
THEOREM LagIsTrue == PSpec => []LagIsRight
<1>1. ImagesInv => LagIsRight
  BY LagCounted, Zenon DEF LagIsRight, Comparable, world
<1>2. QED
  BY <1>1, ImagesAlways, PTL

-----------------------------------------------------------------------------
(* The access check.                                                       *)
USE SupportedAssumption

Codes == {Denied, Allowed, NotApplicable, RequestErr}
Answers == UNION {[S -> Codes] : S \in SUBSET Verbs}

TypeInv ==
  /\ phase \in {"start", "checking", "publishing", "nil", "error"}
  /\ checking \subseteq Resource
  /\ access \in [Resource -> Answers] /\ answered \in [Resource -> Answers]
  /\ DOMAIN res \subseteq Resource /\ DOMAIN rows \subseteq DOMAIN res

\* A goroutine has an answer of its own for what the resource does not support,
\* and that of the API server for the rest.
HeardOf(r) ==
  /\ DOMAIN answered[r] = DOMAIN access[r] \cap Supported[r]
  /\ \A v \in DOMAIN access[r] :
       access[r][v] = IF v \in Supported[r] THEN answered[r][v] ELSE NotApplicable
  /\ \A v \in DOMAIN answered[r] : answered[r][v] # NotApplicable

\* What is stored is final: the goroutine of the resource has ended.
StoredInv == \A r \in DOMAIN res :
  res[r] = access[r] /\ DOMAIN access[r] = Verbs /\ r \notin checking

\* A resource with answers has a goroutine that will store them, or stored ones.
AskedInv == \A r \in Resource : access[r] # NoAnswers => r \in checking \cup DOMAIN res

RowsInv == \A r \in DOMAIN rows : rows[r] = Row(res[r])

PhaseInv ==
  /\ phase = "start" => res = [r \in {} |-> NoAnswers]
                        /\ \A r \in Resource : access[r] = NoAnswers
  /\ phase \in {"start", "publishing", "nil"} => checking = {}

AccessInv ==
  /\ TypeInv /\ StoredInv /\ AskedInv /\ RowsInv /\ PhaseInv
  /\ \A r \in Resource : HeardOf(r)

\* A goroutine that has not begun has no answer.
LEMMA NoAnswersType == NoAnswers \in Answers /\ DOMAIN NoAnswers = {}
<1>1. NoAnswers \in [{} -> Codes]
  BY DEF NoAnswers, Codes
<1>2. QED
  BY <1>1 DEF Answers, NoAnswers

\* An answer more is an answer of the same kind.
LEMMA ExtendedAnswers ==
  ASSUME NEW f \in Answers, NEW v \in Verbs, NEW a \in Codes,
         NEW h, h = [x \in DOMAIN h |-> h[x]], DOMAIN h = DOMAIN f \cup {v},
         h[v] = a, \A w \in DOMAIN f : w # v => h[w] = f[w]
  PROVE  h \in Answers
<1>1. PICK S \in SUBSET Verbs : f \in [S -> Codes]
  BY DEF Answers
<1>2. h \in [S \cup {v} -> Codes]
  BY <1>1
<1>3. S \cup {v} \in SUBSET Verbs
  OBVIOUS
<1>4. QED
  BY <1>2, <1>3 DEF Answers

LEMMA InitInv == RInit => AccessInv
<1> SUFFICES ASSUME RInit PROVE AccessInv
  OBVIOUS
<1>1. DOMAIN [r \in {} |-> NoAnswers] = {}
  OBVIOUS
<1>2. TypeInv
  BY <1>1, NoAnswersType DEF RInit, TypeInv
<1>3. \A r \in Resource : HeardOf(r)
  BY NoAnswersType DEF RInit, HeardOf
<1>4. QED
  BY <1>1, <1>2, <1>3 DEF RInit, AccessInv, StoredInv, AskedInv, RowsInv, PhaseInv

\* A goroutine adds the answer about one verb.
LEMMA CheckVerbInv ==
  ASSUME AccessInv, NEW s \in Resource, NEW v \in Verbs, CheckVerb(s, v)
  PROVE  AccessInv'
<1> USE DEF AccessInv
<1>1. PICK a \in Codes :
        /\ access' = [access EXCEPT ![s] = Extended(@, v, a)]
        /\ IF v \in Supported[s]
           THEN a # NotApplicable /\ answered' = [answered EXCEPT ![s] = Extended(@, v, a)]
           ELSE a = NotApplicable /\ answered' = answered
  BY DEF CheckVerb, Codes, Denied, Allowed, NotApplicable, RequestErr
<1>2. PICK f \in Answers, g \in Answers : f = access[s] /\ g = answered[s]
  BY DEF TypeInv
<1>3. s \in checking /\ UNCHANGED <<phase, checking, res, rows>>
  BY DEF CheckVerb
<1>4. PICK A : A = Extended(f, v, a)
  OBVIOUS
<1>5. PICK B : B = Extended(g, v, a)
  OBVIOUS
<1>6. /\ A = [x \in DOMAIN A |-> A[x]] /\ DOMAIN A = DOMAIN f \cup {v}
      /\ A[v] = a /\ \A w \in DOMAIN f : w # v => A[w] = f[w]
  BY <1>4 DEF Extended
<1>7. /\ B = [x \in DOMAIN B |-> B[x]] /\ DOMAIN B = DOMAIN g \cup {v}
      /\ B[v] = a /\ \A w \in DOMAIN g : w # v => B[w] = g[w]
  BY <1>5 DEF Extended
<1>8. A \in Answers /\ B \in Answers
  BY <1>6, <1>7, ExtendedAnswers
<1>9. access' = [access EXCEPT ![s] = A]
      /\ answered' = IF v \in Supported[s] THEN [answered EXCEPT ![s] = B] ELSE answered
  BY <1>1, <1>2, <1>4, <1>5
<1>10. TypeInv'
  BY <1>9, <1>8, <1>3 DEF TypeInv
<1>11. \A r \in Resource : HeardOf(r)'
  <2> SUFFICES ASSUME NEW r \in Resource PROVE HeardOf(r)'
    OBVIOUS
  <2>1. CASE r # s
    BY <2>1, <1>1 DEF HeardOf, TypeInv
  <2>2. CASE r = s
    <3>1. access'[s] = A
      BY <1>9 DEF TypeInv
    <3>2. answered'[s] = IF v \in Supported[s] THEN B ELSE answered[s]
      BY <1>9 DEF TypeInv
    <3>3. HeardOf(s)
      OBVIOUS
    <3>4. CASE v \in Supported[s]
      BY <3>1, <3>2, <3>3, <3>4, <2>2, <1>1, <1>2, <1>6, <1>7 DEF HeardOf
    <3>5. CASE v \notin Supported[s]
      BY <3>1, <3>2, <3>3, <3>5, <2>2, <1>1, <1>2, <1>6, <1>7 DEF HeardOf
    <3>6. QED
      BY <3>4, <3>5
  <2>3. QED
    BY <2>1, <2>2
<1>12. s \notin DOMAIN res
  BY <1>3 DEF StoredInv
<1>13. StoredInv'
  BY <1>1, <1>3, <1>12 DEF StoredInv, TypeInv
<1>14. AskedInv' /\ RowsInv' /\ PhaseInv'
  BY <1>1, <1>3 DEF AskedInv, RowsInv, PhaseInv, TypeInv
<1>15. QED
  BY <1>10, <1>11, <1>13, <1>14

\* A goroutine stores its answers in the map and ends.
LEMMA StoreInv ==
  ASSUME AccessInv, NEW s \in Resource, Store(s)
  PROVE  AccessInv'
<1> USE DEF AccessInv
<1>1. /\ s \in checking /\ DOMAIN access[s] = Verbs
      /\ checking' = checking \ {s} /\ UNCHANGED <<phase, access, rows, answered>>
  BY DEF Store
<1>2. DOMAIN res' = DOMAIN res \cup {s}
  BY DEF Store, Extended
<1>3. \A r \in DOMAIN res' : res'[r] = IF r = s THEN access[s] ELSE res[r]
  BY DEF Store, Extended
<1>4. s \notin DOMAIN rows
  BY <1>1 DEF StoredInv, TypeInv
<1>5. TypeInv' /\ StoredInv' /\ AskedInv'
  BY <1>1, <1>2, <1>3 DEF TypeInv, StoredInv, AskedInv
<1>6. RowsInv'
  BY <1>1, <1>2, <1>3, <1>4 DEF RowsInv, TypeInv
<1>7. PhaseInv' /\ \A r \in Resource : HeardOf(r)'
  BY <1>1 DEF PhaseInv, HeardOf
<1>8. QED
  BY <1>5, <1>6, <1>7

\* The row of one resource is published.
LEMMA PublishInv ==
  ASSUME AccessInv, NEW s \in Resource, Publish(s)
  PROVE  AccessInv'
<1> USE DEF AccessInv
<1>1. /\ phase = "publishing" /\ s \in DOMAIN res \ DOMAIN rows
      /\ phase' \in {"publishing", "error"} /\ UNCHANGED <<checking, access, res, answered>>
  BY DEF Publish
<1>2. DOMAIN rows' \subseteq DOMAIN rows \cup {s}
      /\ \A r \in DOMAIN rows' : rows'[r] = IF r = s THEN Row(res[s]) ELSE rows[r]
  BY DEF Publish, Extended
<1>3. TypeInv' /\ StoredInv' /\ AskedInv' /\ PhaseInv'
  BY <1>1, <1>2 DEF TypeInv, StoredInv, AskedInv, PhaseInv
<1>4. RowsInv'
  BY <1>1, <1>2 DEF RowsInv, Row
<1>5. \A r \in Resource : HeardOf(r)'
  BY <1>1 DEF HeardOf
<1>6. QED
  BY <1>3, <1>4, <1>5

LEMMA NextInv == AccessInv /\ [RNext]_rvars => AccessInv'
<1> SUFFICES ASSUME AccessInv, [RNext]_rvars PROVE AccessInv'
  OBVIOUS
<1> USE DEF AccessInv, TypeInv, StoredInv, AskedInv, RowsInv, PhaseInv, HeardOf
<1>1. CASE Fetch
  BY <1>1 DEF Fetch, Row
<1>2. CASE Wait
  BY <1>2 DEF Wait, Row
<1>3. CASE Done
  BY <1>3 DEF Done, Row
<1>4. CASE Cancel
  BY <1>4 DEF Cancel, Row
<1>5. CASE UNCHANGED rvars
  BY <1>5 DEF rvars, Row
<1>6. QED
  BY <1>1, <1>2, <1>3, <1>4, <1>5, CheckVerbInv, StoreInv, PublishInv DEF RNext

\* Every row tells apart the four cases of its own resource and each verb, in
\* whatever order the goroutines answer and store, under the marks that the code
\* gives them: an empty cell is a verb that is denied, and "no" one that the
\* resource does not have.
THEOREM RowsTellApart == RSpec => []RowsTellTheAnswers
<1>1. AccessInv => RowsTellTheAnswers
  <2> SUFFICES ASSUME AccessInv, NEW r \in DOMAIN rows, NEW v \in Verbs
               PROVE  /\ rows[r][v] = "no" <=> v \notin Supported[r]
                      /\ rows[r][v] = "yes" <=> Said(r, v, Allowed)
                      /\ rows[r][v] = "" <=> Said(r, v, Denied)
                      /\ rows[r][v] = "ERR" <=> Said(r, v, RequestErr)
    BY DEF RowsTellTheAnswers
  <2>1. r \in Resource /\ DOMAIN access[r] = Verbs /\ HeardOf(r)
        /\ rows[r][v] = HumanreadableAccessCode(accessToOutcome(access[r][v]))
    BY DEF AccessInv, TypeInv, StoredInv, RowsInv, Row
  <2>2. access[r][v] \in Codes
    BY <2>1 DEF AccessInv, TypeInv, Answers
  <2>3. /\ rows[r][v] = "no" <=> access[r][v] = NotApplicable
        /\ rows[r][v] = "yes" <=> access[r][v] = Allowed
        /\ rows[r][v] = "" <=> access[r][v] = Denied
        /\ rows[r][v] = "ERR" <=> access[r][v] = RequestErr
    <3>1. PICK o : o = accessToOutcome(access[r][v])
      OBVIOUS
    <3>2. /\ o \in {"None", "Up", "Down", "Err"}
          /\ o = "Down" <=> access[r][v] = NotApplicable
          /\ o = "Up" <=> access[r][v] = Allowed
          /\ o = "None" <=> access[r][v] = Denied
          /\ o = "Err" <=> access[r][v] = RequestErr
      BY <2>2, <3>1 DEF accessToOutcome, Codes, Denied, Allowed, NotApplicable, RequestErr
    <3>3. rows[r][v] = HumanreadableAccessCode(o)
      BY <2>1, <3>1
    <3>4. QED
      BY <3>2, <3>3 DEF HumanreadableAccessCode
  <2>4. v \in DOMAIN answered[r] <=> v \in Supported[r]
    BY <2>1 DEF HeardOf
  <2>5. CASE v \in Supported[r]
    BY <2>1, <2>3, <2>4, <2>5 DEF HeardOf, Said
  <2>6. CASE v \notin Supported[r]
    BY <2>1, <2>3, <2>4, <2>6
       DEF HeardOf, Said, Denied, Allowed, NotApplicable, RequestErr
  <2>7. QED
    BY <2>5, <2>6
<1>2. QED
  BY <1>1, InitInv, NextInv, PTL DEF RSpec

\* Once the rows go out the map is complete, and nobody writes to it any more.
THEOREM MapIsFinal == RSpec => []NothingChecksWhilePublishing
<1>1. AccessInv => NothingChecksWhilePublishing
  BY DEF AccessInv, TypeInv, StoredInv, AskedInv, PhaseInv, NothingChecksWhilePublishing
<1>2. QED
  BY <1>1, InitInv, NextInv, PTL DEF RSpec
=============================================================================
