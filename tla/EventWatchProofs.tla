-------------------------- MODULE EventWatchProofs --------------------------
(***************************************************************************)
(* Proofs about EventWatch, for every set of events and every number of     *)
(* versions, cuts, failures and ends of the process.                         *)
(***************************************************************************)
EXTENDS EventWatch, SequenceRanges, FiniteSetTheorems, TLAPS

Kinds == {"Added", "Modified", "Deleted", "Replaced", "Tombstone"}

\* The deltas that may be queued: of an event that has been written, and a
\* tombstone only of one that has expired, after a cut.
Seen == {d \in [kind : Kinds, event : Event] :
           /\ server[d.event] # NotYet
           /\ d.kind = "Tombstone" => cuts > 0 /\ server[d.event] = Gone}

QueueInv ==
  /\ server \in [Event -> Nat \cup {Gone}]
  /\ queue \in Seq(Seen) /\ unread \in Seq(Seen)
  /\ store \subseteq {e \in Event : server[e] # NotYet}
  /\ cuts \in Nat /\ deaths \in Nat
  /\ ~watching => cuts > 0
  /\ OnlyExpiredEventsKill

\* The running handler of an ADD has p before it.
ToAdd(p) ==
  /\ handler.kind = "ADD" /\ handler.event = p.event
  /\ handler.left = 0 \/ p.image > Images[p.event] - handler.left

\* What is in the store and has a pod has been published, is being handled for
\* the first time, or a call has failed.
StoreInv ==
  /\ adds \in [Publication -> Nat] /\ fails \in Nat
  /\ pod \in [Event -> BOOLEAN]
  /\ \/ handler = Idle
     \/ /\ handler \in [kind : {"ADD", "UPDATE", "DELETE"}, event : Event, left : Nat]
        /\ handler.left <= Images[handler.event]
  /\ alive => \A p \in Publication :
       p.event \in store /\ pod[p.event] => adds[p] > 0 \/ fails > 0 \/ ToAdd(p)

\* A publication is of an event and of one of its images.
LEMMA PublicationType ==
  \A p : p \in Publication <=> /\ p = [event |-> p.event, image |-> p.image]
                               /\ p.event \in Event /\ p.image \in 1..Images[p.event]
BY DEF Publication

\* The elements of a set in any order.
LEMMA SetToSeqType ==
  ASSUME NEW T, NEW S, S \subseteq T, IsFiniteSet(S)
  PROVE  SetToSeq(S) \in Seq(T)
<1>1. Cardinality(S) \in Nat /\ ExistsBijection(1..Cardinality(S), S)
  BY FS_CardinalityType
<1>2. PICK f \in [1..Cardinality(S) -> S] : IsInjective(f)
  BY <1>1 DEF ExistsBijection, Bijection, Injection, IsInjective
<1>3. SetToSeq(S) \in [1..Cardinality(S) -> S]
  BY <1>2 DEF SetToSeq
<1>4. QED
  BY <1>1, <1>3

\* What is seen stays seen: an event that is written, or has expired, remains so.
LEMMA SeenGrows ==
  ASSUME QueueInv, cuts' \in Nat, cuts' >= cuts,
         \A e \in Event : server[e] # NotYet =>
            server'[e] # NotYet /\ (server[e] = Gone => server'[e] = Gone)
  PROVE  Seen \subseteq Seen' /\ \A s \in Seq(Seen) : s \in Seq(Seen')
<1>1. Seen \subseteq Seen'
  BY DEF Seen, QueueInv
<1>2. QED
  BY <1>1

\* A list after a cut: a tombstone is of an event that was known.
LEMMA KnownIsWritten ==
  ASSUME QueueInv
  PROVE  Known \subseteq {e \in Event : server[e] # NotYet}
<1>1. ASSUME NEW e \in Event, NEW i \in Queued(e) PROVE server[e] # NotYet
  <2>1. queue[i] \in Seen /\ queue[i].event = e
    BY <1>1 DEF Queued, QueueInv
  <2>2. QED
    BY <2>1 DEF Seen
<1>2. ASSUME NEW e \in Event, e \in Known PROVE server[e] # NotYet
  BY <1>1, <1>2 DEF Known, QueueInv
<1>3. QED
  BY <1>2 DEF Known

\* One delta of each of finitely many events.
LEMMA DeltasFinite ==
  ASSUME NEW S, IsFiniteSet(S), NEW kind
  PROVE  IsFiniteSet({Delta(kind, e) : e \in S})
<1> DEFINE T == {Delta(kind, e) : e \in S}
           f == [e \in S |-> Delta(kind, e)]
<1>1. f \in Surjection(S, T)
  BY DEF Surjection
<1> HIDE DEF T, f
<1>2. IsFiniteSet(T)
  BY <1>1, FS_Surjection
<1>3. QED
  BY <1>2 DEF T

\* The list after a cut has deltas of written events only.
LEMMA ReplacementSeen ==
  ASSUME QueueInv, NEW known, known \subseteq {e \in Event : server[e] # NotYet},
         known = {} \/ cuts > 0
  PROVE  Replacement(known) \in Seq(Seen)
<1>1. {Delta("Replaced", e) : e \in AtServer} \subseteq Seen
  BY DEF AtServer, Delta, Seen, Kinds, QueueInv, NotYet, Gone
<1>2. {Delta("Tombstone", e) : e \in known \ AtServer} \subseteq Seen
  BY DEF AtServer, Delta, Seen, Kinds, QueueInv, NotYet, Gone
<1>3. IsFiniteSet(AtServer) /\ IsFiniteSet(known \ AtServer)
  BY EventAssumption, FS_Subset DEF AtServer
<1>4. /\ IsFiniteSet({Delta("Replaced", e) : e \in AtServer})
      /\ IsFiniteSet({Delta("Tombstone", e) : e \in known \ AtServer})
  BY <1>3, DeltasFinite
<1>5. QED
  BY <1>1, <1>2, <1>4, SetToSeqType DEF Replacement

\* A change of the server is queued, or waits.
LEMMA ChangedSeen ==
  ASSUME QueueInv, NEW d, d \in Seen', Changed(d), \A s \in Seq(Seen) : s \in Seq(Seen')
  PROVE  queue' \in Seq(Seen') /\ unread' \in Seq(Seen')
<1>1. queue \in Seq(Seen') /\ unread \in Seq(Seen')
  BY DEF QueueInv
<1>2. CASE alive /\ watching
  BY <1>1, <1>2 DEF Changed
<1>3. CASE alive /\ ~watching
  BY <1>1, <1>3 DEF Changed
<1>4. CASE ~alive
  BY <1>1, <1>4 DEF Changed
<1>5. QED
  BY <1>2, <1>3, <1>4

LEMMA NextQueue == QueueInv /\ [WNext]_wvars => QueueInv'
<1> SUFFICES ASSUME QueueInv, [WNext]_wvars PROVE QueueInv'
  OBVIOUS
<1> USE DEF NotYet, Gone
<1>1. ASSUME UNCHANGED <<server, queue, unread, store, cuts>>,
             deaths' \in Nat, watching \/ UNCHANGED watching, watching' \/ UNCHANGED watching,
             UNCHANGED <<alive, deaths>> \/ alive' \/ deaths' > 0
      PROVE  QueueInv'
  BY <1>1 DEF QueueInv, Seen, OnlyExpiredEventsKill
<1>2. ASSUME NEW e \in Event, Write(e) PROVE QueueInv'
  <2>1. /\ server' = [server EXCEPT ![e] = @ + 1] /\ server[e] >= 0
        /\ UNCHANGED <<watching, store, alive, cuts, deaths>>
    BY <1>2 DEF Write, QueueInv
  <2>2. /\ \A f \in Event : server[f] # NotYet =>
             server'[f] # NotYet /\ (server[f] = Gone => server'[f] = Gone)
        /\ server' \in [Event -> Nat \cup {Gone}] /\ server'[e] # NotYet
    BY <2>1 DEF QueueInv
  <2>3. Delta(IF server[e] = NotYet THEN "Added" ELSE "Modified", e) \in Seen'
    BY <2>2 DEF Delta, Seen, Kinds
  <2>4. \A s \in Seq(Seen) : s \in Seq(Seen')
    BY <2>1, <2>2, SeenGrows DEF QueueInv
  <2>5. queue' \in Seq(Seen') /\ unread' \in Seq(Seen')
    BY <1>2, <2>3, <2>4, ChangedSeen DEF Write
  <2>6. QED
    BY <2>1, <2>2, <2>5 DEF QueueInv, OnlyExpiredEventsKill
<1>3. ASSUME NEW e \in Event, Expire(e) PROVE QueueInv'
  <2>1. /\ server' = [server EXCEPT ![e] = Gone]
        /\ UNCHANGED <<watching, store, alive, cuts, deaths>>
    BY <1>3 DEF Expire
  <2>2. /\ \A f \in Event : server[f] # NotYet =>
             server'[f] # NotYet /\ (server[f] = Gone => server'[f] = Gone)
        /\ server' \in [Event -> Nat \cup {Gone}] /\ server'[e] = Gone
    BY <2>1 DEF QueueInv
  <2>3. Delta("Deleted", e) \in Seen'
    BY <2>2 DEF Delta, Seen, Kinds
  <2>4. \A s \in Seq(Seen) : s \in Seq(Seen')
    BY <2>1, <2>2, SeenGrows DEF QueueInv
  <2>5. queue' \in Seq(Seen') /\ unread' \in Seq(Seen')
    BY <1>3, <2>3, <2>4, ChangedSeen DEF Expire
  <2>6. QED
    BY <2>1, <2>2, <2>5 DEF QueueInv, OnlyExpiredEventsKill
<1>4. CASE Cut
  <2>1. /\ watching' = FALSE /\ cuts' = cuts + 1
        /\ UNCHANGED <<server, unread, queue, store, alive, deaths>>
    BY <1>4 DEF Cut
  <2>2. \A s \in Seq(Seen) : s \in Seq(Seen')
    BY <2>1, SeenGrows DEF QueueInv
  <2>3. QED
    BY <2>1, <2>2 DEF QueueInv, OnlyExpiredEventsKill
<1>5. CASE Resume
  <2>1. /\ watching' = TRUE /\ queue' = queue \o unread /\ unread' = <<>>
        /\ UNCHANGED <<server, store, alive, cuts, deaths>>
    BY <1>5 DEF Resume
  <2>2. Seen' = Seen /\ queue' \in Seq(Seen)
    BY <2>1 DEF QueueInv, Seen
  <2>3. QED
    BY <2>1, <2>2 DEF QueueInv, OnlyExpiredEventsKill
<1>6. CASE Relist
  <2>1. /\ watching' = TRUE /\ queue' = queue \o Replacement(Known) /\ unread' = <<>>
        /\ ~watching /\ UNCHANGED <<server, store, alive, cuts, deaths>>
    BY <1>6 DEF Relist
  <2>2. Replacement(Known) \in Seq(Seen)
    BY <2>1, KnownIsWritten, ReplacementSeen DEF QueueInv
  <2>3. Seen' = Seen /\ queue' \in Seq(Seen)
    BY <2>1, <2>2 DEF QueueInv, Seen
  <2>4. QED
    BY <2>1, <2>3 DEF QueueInv, OnlyExpiredEventsKill
<1>7. CASE Pop
  <2>1. /\ queue # <<>> /\ queue' = Tail(queue)
        /\ UNCHANGED <<server, watching, unread, cuts, deaths>>
        /\ store' \subseteq store \cup {Head(queue).event}
        /\ alive' = (Head(queue).kind # "Tombstone")
    BY <1>7 DEF Pop
  <2>2. Seen' = Seen /\ queue' \in Seq(Seen) /\ Head(queue) \in Seen
    BY <2>1 DEF QueueInv, Seen
  <2>3. /\ Head(queue).event \in Event /\ server[Head(queue).event] # NotYet
        /\ Head(queue).kind = "Tombstone" => cuts > 0 /\ server[Head(queue).event] = Gone
    BY <2>2 DEF Seen
  <2>4. OnlyExpiredEventsKill'
    BY <2>1, <2>3 DEF OnlyExpiredEventsKill
  <2>5. QED
    BY <2>1, <2>2, <2>3, <2>4 DEF QueueInv
<1>8. CASE WatchStarts
  <2>1. /\ alive' = TRUE /\ watching' = TRUE /\ store' = {} /\ unread' = <<>>
        /\ queue' = Replacement({}) /\ UNCHANGED <<server, cuts, deaths>>
    BY <1>8 DEF WatchStarts
  <2>2. Seen' = Seen /\ Replacement({}) \in Seq(Seen)
    BY <2>1, ReplacementSeen DEF Seen
  <2>3. QED
    BY <2>1, <2>2 DEF QueueInv, OnlyExpiredEventsKill
<1>9. ASSUME NEW e \in Event, PodGoes(e) PROVE QueueInv'
  BY <1>1, <1>9 DEF PodGoes, QueueInv
<1>10. CASE LookUpPod \/ PublishEvent \/ PublishEventFails \/ LookUpFails \/ OtherEnd \/ UNCHANGED wvars
  BY <1>1, <1>10 DEF LookUpPod, PublishEvent, PublishEventFails, LookUpFails, NextImage, OtherEnd, wvars, QueueInv
<1>11. QED
  BY <1>2, <1>3, <1>4, <1>5, <1>6, <1>7, <1>8, <1>9, <1>10 DEF WNext

\* One publication: the first of those that the handler has before it.
LEMMA Published ==
  ASSUME QueueInv, StoreInv, PublishEvent
  PROVE  /\ \/ handler' = Idle
            \/ /\ handler' \in [kind : {"ADD", "UPDATE", "DELETE"}, event : Event, left : Nat]
               /\ handler'.left <= Images[handler'.event]
         /\ handler'.kind = "ADD" => handler.kind = "ADD" /\ handler'.event = handler.event
         /\ adds' \in [Publication -> Nat]
         /\ \A p \in Publication : \/ adds'[p] = adds[p] /\ (ToAdd(p)' <=> ToAdd(p))
                                   \/ adds'[p] = adds[p] + 1 /\ ToAdd(p) /\ ~ToAdd(p)'
         /\ UNCHANGED <<alive, store, fails, pod>>
<1> DEFINE c == CurrentImage
           e == handler.event
           l == handler.left
           n == Images[handler.event]
<1>1. /\ handler # Idle /\ l > 0 /\ NextImage /\ UNCHANGED <<alive, store, fails, pod>>
      /\ adds' = [adds EXCEPT ![c] = IF handler.kind = "ADD" THEN @ + 1 ELSE @]
  BY DEF PublishEvent
<1>2. /\ handler \in [kind : {"ADD", "UPDATE", "DELETE"}, event : Event, left : Nat]
      /\ e \in Event /\ l \in 1..n /\ n \in Nat /\ adds \in [Publication -> Nat]
  BY <1>1, ContainersAssumption DEF StoreInv
<1>3. c \in Publication /\ c.event = e /\ c.image = n - l + 1
  BY <1>2, PublicationType DEF CurrentImage
<1>4. /\ l = 1 => handler' = Idle
      /\ l > 1 => /\ handler' = [handler EXCEPT !.left = l - 1]
                  /\ handler'.kind = handler.kind /\ handler'.event = e /\ handler'.left = l - 1
  BY <1>1, <1>2 DEF NextImage
<1>5. \/ handler' = Idle
      \/ /\ handler' \in [kind : {"ADD", "UPDATE", "DELETE"}, event : Event, left : Nat]
         /\ handler'.left <= Images[handler'.event]
         /\ handler'.event = handler.event /\ handler'.kind = handler.kind
  BY <1>2, <1>4
<1>6. ASSUME NEW p \in Publication, handler.kind = "ADD", p.event = e
      PROVE  IF p = c THEN ToAdd(p) /\ ~ToAdd(p)' ELSE ToAdd(p)' <=> ToAdd(p)
  <2>1. /\ p = [event |-> p.event, image |-> p.image] /\ p.image \in 1..n
        /\ c = [event |-> e, image |-> n - l + 1]
    BY <1>6, PublicationType DEF CurrentImage
  <2>2. p = c <=> p.image = n - l + 1
    BY <1>6, <2>1
  <2>3. ToAdd(p) <=> p.image > n - l
    BY <1>2, <1>6 DEF ToAdd
  <2>4. ToAdd(p)' <=> p.image > n - l + 1
    <3>1. CASE l = 1
      BY <1>2, <1>4, <2>1, <3>1 DEF ToAdd, Idle
    <3>2. CASE l > 1
      BY <1>2, <1>4, <1>6, <2>1, <3>2 DEF ToAdd
    <3>3. QED
      BY <1>2, <3>1, <3>2
  <2>5. p.image \in Int /\ n - l \in Int
    BY <1>2, <2>1
  <2>6. QED
    BY <2>2, <2>3, <2>4, <2>5
<1>7. ASSUME NEW p \in Publication, handler.kind # "ADD" \/ p.event # e
      PROVE  ~ToAdd(p) /\ ~ToAdd(p)' /\ (handler.kind # "ADD" \/ p # c)
  BY <1>3, <1>5, <1>7 DEF ToAdd, Idle
<1> HIDE DEF c, e, l, n
<1>8. adds' \in [Publication -> Nat]
      /\ \A p \in Publication : adds'[p] = IF p = c /\ handler.kind = "ADD" THEN adds[p] + 1 ELSE adds[p]
  BY <1>1, <1>2, <1>3
<1>9. \A p \in Publication : \/ adds'[p] = adds[p] /\ (ToAdd(p)' <=> ToAdd(p))
                             \/ adds'[p] = adds[p] + 1 /\ ToAdd(p) /\ ~ToAdd(p)'
  BY <1>3, <1>6, <1>7, <1>8
<1>10. QED
  BY <1>1, <1>5, <1>8, <1>9 DEF Idle

\* What the handlers do with the store and the history.
LEMMA NextStore == QueueInv /\ StoreInv /\ [WNext]_wvars => StoreInv'
<1> SUFFICES ASSUME QueueInv, StoreInv, [WNext]_wvars PROVE StoreInv'
  OBVIOUS
<1>1. ASSUME UNCHANGED <<adds, fails, pod, handler, alive, store>> PROVE StoreInv'
  BY <1>1 DEF StoreInv, ToAdd
<1>2. ASSUME NEW e \in Event, PodGoes(e) PROVE StoreInv'
  <2>1. /\ pod' = [pod EXCEPT ![e] = FALSE]
        /\ UNCHANGED <<adds, fails, handler, alive, store>>
    BY <1>2 DEF PodGoes
  <2>2. pod' \in [Event -> BOOLEAN] /\ \A f \in Event : pod'[f] => pod[f]
    BY <2>1 DEF StoreInv
  <2>3. \A p \in Publication : p.event \in Event
    BY PublicationType
  <2>4. QED
    BY <2>1, <2>2, <2>3 DEF StoreInv, ToAdd
<1>3. CASE Pop
  <2>1. Head(queue) \in Seen
    BY <1>3 DEF Pop, QueueInv
  <2>2. Head(queue).event \in Event
    BY <2>1 DEF Seen
  <2>3. CASE Head(queue).kind = "Tombstone"
    BY <1>3, <2>3 DEF Pop, StoreInv
  <2>4. CASE Head(queue).kind # "Tombstone"
    <3> DEFINE d == Head(queue)
    <3>1. /\ alive /\ handler = Idle /\ UNCHANGED <<adds, fails, pod>>
          /\ store' = IF d.kind = "Deleted" THEN store \ {d.event} ELSE store \cup {d.event}
          /\ handler' = [kind  |-> IF d.kind = "Deleted" THEN "DELETE"
                                   ELSE IF d.event \in store THEN "UPDATE" ELSE "ADD",
                         event |-> d.event, left |-> 0]
      BY <1>3, <2>4 DEF Pop
    <3>2. d.event \in Event /\ 0 <= Images[d.event]
      BY <2>2, ContainersAssumption
    <3> HIDE DEF d
    <3>3. /\ handler' \in [kind : {"ADD", "UPDATE", "DELETE"}, event : Event, left : Nat]
          /\ handler'.left <= Images[handler'.event]
      BY <3>1, <3>2
    <3>4. ASSUME NEW p \in Publication, p.event \in store', pod[p.event]
          PROVE  adds[p] > 0 \/ fails > 0 \/ ToAdd(p)'
      <4>1. CASE p.event \in store
        BY <3>1, <3>4, <4>1 DEF StoreInv, ToAdd, Idle
      <4>2. CASE p.event \notin store
        <5>1. d.kind # "Deleted" /\ p.event = d.event
          BY <3>1, <3>4, <4>2
        <5>2. handler' = [kind |-> "ADD", event |-> p.event, left |-> 0]
          BY <3>1, <4>2, <5>1
        <5>3. QED
          BY <5>2 DEF ToAdd
      <4>3. QED
        BY <4>1, <4>2
    <3>5. QED
      BY <3>1, <3>3, <3>4 DEF StoreInv
  <2>5. QED
    BY <2>3, <2>4
<1>4. CASE LookUpPod
  <2>1. /\ handler # Idle /\ handler.left = 0 /\ UNCHANGED <<adds, fails, pod, alive, store>>
        /\ handler' = IF pod[handler.event]
                      THEN [handler EXCEPT !.left = Images[handler.event]] ELSE Idle
    BY <1>4 DEF LookUpPod
  <2>2. /\ handler \in [kind : {"ADD", "UPDATE", "DELETE"}, event : Event, left : Nat]
        /\ Images[handler.event] \in Nat
    BY <2>1, ContainersAssumption DEF StoreInv
  <2>3. \A p \in Publication : ToAdd(p) => ToAdd(p)' \/ ~pod[p.event]
    BY <2>1, <2>2, PublicationType DEF ToAdd
  <2>4. QED
    BY <2>1, <2>2, <2>3 DEF StoreInv
<1>5. CASE PublishEvent
  BY <1>5, Published DEF StoreInv
<1>6. CASE LookUpFails \/ PublishEventFails
  <2>1. /\ fails \in Nat /\ fails' = fails + 1
        /\ handler # Idle /\ UNCHANGED <<adds, pod, alive, store>>
    BY <1>6 DEF LookUpFails, PublishEventFails, StoreInv
  <2>2. handler' = Idle \/ (handler.left > 0 /\ NextImage)
    <3>1. CASE LookUpFails
      BY <3>1 DEF LookUpFails
    <3>2. CASE PublishEventFails
      BY <3>2, Zenon DEF PublishEventFails
    <3>3. QED
      BY <1>6, <3>1, <3>2
  <2>3. \/ handler' = Idle
        \/ /\ handler' \in [kind : {"ADD", "UPDATE", "DELETE"}, event : Event, left : Nat]
           /\ handler'.left <= Images[handler'.event]
    <3>1. /\ handler \in [kind : {"ADD", "UPDATE", "DELETE"}, event : Event, left : Nat]
          /\ handler.left <= Images[handler.event] /\ Images[handler.event] \in Nat
      BY <2>1, ContainersAssumption DEF StoreInv
    <3>2. CASE handler.left > 1 /\ NextImage
      <4>1. handler' = [handler EXCEPT !.left = @ - 1]
        BY <3>2 DEF NextImage
      <4>2. QED
        BY <3>1, <3>2, <4>1
    <3>3. CASE handler.left = 1 /\ NextImage
      BY <3>3 DEF NextImage
    <3>4. QED
      BY <2>2, <3>1, <3>2, <3>3
  <2>4. QED
    BY <2>1, <2>3 DEF StoreInv
<1>7. CASE OtherEnd \/ WatchStarts
  BY <1>7 DEF OtherEnd, WatchStarts, StoreInv
<1>8. ASSUME NEW e \in Event, Write(e) \/ Expire(e) PROVE StoreInv'
  BY <1>1, <1>8 DEF Write, Expire
<1>9. CASE Cut \/ Resume \/ Relist \/ UNCHANGED wvars
  BY <1>1, <1>9 DEF Cut, Resume, Relist, wvars
<1>10. QED
  BY <1>2, <1>3, <1>4, <1>5, <1>6, <1>7, <1>8, <1>9 DEF WNext

LEMMA InitWatch == WInit => QueueInv /\ StoreInv
BY ContainersAssumption, PublicationType
   DEF WInit, QueueInv, StoreInv, OnlyExpiredEventsKill, NotYet, Gone, OnPod

\* Only a tombstone, of an expired event and after a cut, ends the process.
THEOREM KilledByExpiry == WSpec => []OnlyExpiredEventsKill
<1>1. QueueInv => OnlyExpiredEventsKill
  BY DEF QueueInv
<1>2. WInit => QueueInv
  BY InitWatch
<1>3. QED
  BY <1>1, <1>2, NextQueue, PTL DEF WSpec

\* An event whose pod is there is published for each image of the pod, or a call
\* for one has failed.
THEOREM PublishedUnlessFailed == WSpec => []EventIsPublished
<1>1. QueueInv /\ StoreInv => EventIsPublished
  BY DEF QueueInv, StoreInv, EventIsPublished, Pending, ToAdd
<1>2. WInit => QueueInv /\ StoreInv
  BY InitWatch
<1>3. QueueInv /\ StoreInv /\ [WNext]_wvars => (QueueInv /\ StoreInv)'
  BY NextQueue, NextStore
<1>4. QED
  BY <1>1, <1>2, <1>3, PTL DEF WSpec

(***************************************************************************)
(* An event is published as an ADD once per process.  Its deltas come in the *)
(* order of its life, whatever was cut, listed again or queued twice: none   *)
(* that would store it follows one that removes it, so an event that has     *)
(* left the store does not come back.                                        *)
(***************************************************************************)
Removal == {"Deleted", "Tombstone"}
Deltas == [kind : Kinds, event : Event]

\* The deltas this process will read, in their order, unless it lists again.
Line == queue \o unread

Ordered(s) ==
  \A i, j \in 1..Len(s) :
    i < j /\ s[i].kind \in Removal /\ s[j].event = s[i].event => s[j].kind \in Removal

LineInv ==
  /\ watching => unread = <<>>
  /\ \A d \in Range(Line) : d.kind \in Removal => server[d.event] = Gone
  /\ Ordered(Line)

\* The process may still publish p as an ADD.
MayAdd(p) ==
  \/ ToAdd(p)
  \/ /\ p.event \notin store
     /\ \/ server[p.event] # Gone
        \/ \E d \in Range(Line) : d.event = p.event /\ d.kind \notin Removal

\* A cut that may still end the process, and no process has paid for.
CutIsOpen == ~watching \/ \E d \in Range(Line) : d.kind = "Tombstone"

One(b) == IF b THEN 1 ELSE 0

AddsInv ==
  /\ alive /\ handler.kind = "ADD" => handler.event \in store
  /\ alive  => \A p \in Publication : adds[p] + One(MayAdd(p)) + One(CutIsOpen) <= 1 + deaths + cuts
  /\ ~alive => \A p \in Publication : adds[p] <= deaths + cuts

\* Both queues are sequences of deltas.
LEMMA QueueType == QueueInv => queue \in Seq(Deltas) /\ unread \in Seq(Deltas)
<1>1. Seen \subseteq Deltas
  BY DEF Seen, Deltas
<1>2. QED
  BY <1>1 DEF QueueInv

\* And so is what waits in the two, one behind the other.
LEMMA LineType == QueueInv => Line \in Seq(Deltas)
BY QueueType DEF Line

\* Two queues, the second with nothing that has to be before the first.
LEMMA OrderedConcat ==
  ASSUME NEW s \in Seq(Deltas), NEW t \in Seq(Deltas), Ordered(s),
         \A d \in Range(s) \cup Range(t) : \A c \in Range(t) :
            d.kind \in Removal /\ c.event = d.event => c.kind \in Removal
  PROVE  Ordered(s \o t)
<1> SUFFICES ASSUME NEW i \in 1..Len(s \o t), NEW j \in 1..Len(s \o t), i < j,
                    (s \o t)[i].kind \in Removal, (s \o t)[j].event = (s \o t)[i].event
             PROVE  (s \o t)[j].kind \in Removal
  BY Zenon DEF Ordered
<1>1. /\ Len(s) \in Nat /\ Len(t) \in Nat /\ Len(s \o t) = Len(s) + Len(t)
      /\ \A k \in 1..Len(s) : (s \o t)[k] = s[k] /\ s[k] \in Range(s)
      /\ \A k \in 1..Len(t) : t[k] \in Range(t)
  BY DEF Range
<1>2. \A k \in (Len(s) + 1)..(Len(s) + Len(t)) :
        (s \o t)[k] = t[k - Len(s)] /\ k - Len(s) \in 1..Len(t)
  BY <1>1
<1>3. (s \o t)[i] \in Range(s) \cup Range(t)
  BY <1>1, <1>2
<1>4. CASE j \in 1..Len(s)
  <2>1. i \in 1..Len(s)
    BY <1>4
  <2>2. QED
    BY <1>1, <1>4, <2>1 DEF Ordered
<1>5. CASE j \in (Len(s) + 1)..(Len(s) + Len(t))
  <2>1. (s \o t)[j] \in Range(t)
    BY <1>1, <1>2, <1>5
  <2>2. QED
    BY <1>3, <2>1
<1>6. QED
  BY <1>1, <1>4, <1>5

\* Taking the first delta keeps the order of the others.
LEMMA OrderedTail ==
  ASSUME NEW s \in Seq(Deltas), s # <<>>, Ordered(s)
  PROVE  /\ Ordered(Tail(s))
         /\ Head(s).kind \in Removal =>
              \A d \in Range(Tail(s)) : d.event = Head(s).event => d.kind \in Removal
<1>1. /\ Len(s) \in Nat \ {0} /\ Len(Tail(s)) = Len(s) - 1 /\ Tail(s) \in Seq(Deltas)
      /\ \A k \in 1..Len(Tail(s)) : Tail(s)[k] = s[k + 1] /\ k + 1 \in 1..Len(s)
  OBVIOUS
<1>2. Ordered(Tail(s))
  BY <1>1 DEF Ordered
<1>3. ASSUME Head(s).kind \in Removal, NEW d \in Range(Tail(s)), d.event = Head(s).event
      PROVE  d.kind \in Removal
  <2> Range(Tail(s)) = {Tail(s)[k] : k \in 1..Len(Tail(s))}
    BY <1>1, RangeIndexed, Zenon
  <2>1. PICK k \in 1..Len(Tail(s)) : Tail(s)[k] = d
    BY <1>3, Zenon
  <2>2. d = s[k + 1] /\ k + 1 \in 1..Len(s) /\ 1 \in 1..Len(s) /\ 1 < k + 1 /\ Head(s) = s[1]
    BY <1>1, <2>1
  <2>3. QED
    BY <1>3, <2>2 DEF Ordered
<1>4. QED
  BY <1>2, <1>3

\* A queue cut short keeps the order.
LEMMA OrderedPrefix ==
  ASSUME NEW s \in Seq(Deltas), NEW t \in Seq(Deltas), Ordered(s \o t)
  PROVE  Ordered(s)
<1>1. /\ Len(s) \in Nat /\ Len(t) \in Nat /\ Len(s \o t) = Len(s) + Len(t)
      /\ \A k \in 1..Len(s) : (s \o t)[k] = s[k] /\ k \in 1..Len(s \o t)
  OBVIOUS
<1>2. QED
  BY <1>1 DEF Ordered

\* A list adds what the server has, and tombstones of what it has no longer.
LEMMA ReplacementDeltas ==
  ASSUME QueueInv, NEW known, known \subseteq {e \in Event : server[e] # NotYet}
  PROVE  /\ Replacement(known) \in Seq(Deltas)
         /\ \A d \in Range(Replacement(known)) :
              \/ d.kind = "Replaced" /\ server[d.event] > 0
              \/ d.kind = "Tombstone" /\ server[d.event] = Gone /\ d.event \in known
         /\ Ordered(Replacement(known))
<1> USE DEF NotYet, Gone
<1> DEFINE T == {d \in Deltas : \/ d.kind = "Replaced" /\ server[d.event] > 0
                                \/ d.kind = "Tombstone" /\ server[d.event] = Gone
                                     /\ d.event \in known}
<1>1. {Delta("Replaced", e) : e \in AtServer} \subseteq T
  BY DEF AtServer, Delta, Deltas, Kinds, QueueInv
<1>2. {Delta("Tombstone", e) : e \in known \ AtServer} \subseteq T
  BY DEF AtServer, Delta, Deltas, Kinds, QueueInv
<1>3. IsFiniteSet(AtServer) /\ IsFiniteSet(known \ AtServer)
  BY EventAssumption, FS_Subset DEF AtServer
<1>4. /\ IsFiniteSet({Delta("Replaced", e) : e \in AtServer})
      /\ IsFiniteSet({Delta("Tombstone", e) : e \in known \ AtServer})
  BY <1>3, DeltasFinite
<1>5. Replacement(known) \in Seq(T)
  BY <1>1, <1>2, <1>4, SetToSeqType DEF Replacement
<1>6. Replacement(known) \in Seq(Deltas) /\ Range(Replacement(known)) \subseteq T
  BY <1>5, RangeType
<1>7. \A d \in Range(Replacement(known)) : \A c \in Range(Replacement(known)) :
        d.kind \in Removal /\ c.event = d.event => c.kind \in Removal
  BY <1>6 DEF Removal
<1>8. <<>> \in Seq(Deltas) /\ Ordered(<<>>) /\ Range(<<>>) = {}
      /\ <<>> \o Replacement(known) = Replacement(known)
  BY <1>6, RangeEmpty DEF Ordered
<1>9. Ordered(Replacement(known))
  BY <1>6, <1>7, <1>8, OrderedConcat
<1>10. QED
  BY <1>6, <1>9

\* What waits is not touched.
LEMMA LineKept ==
  ASSUME QueueInv, LineInv, UNCHANGED <<queue, unread, server>>, watching' => watching
  PROVE  LineInv' /\ Line' = Line
BY DEF LineInv, Line

\* The server changes an event that it has not dropped.
LEMMA LineGrows ==
  ASSUME QueueInv, LineInv, NEW e \in Event, NEW kind \in Kinds,
         Changed(Delta(kind, e)), UNCHANGED watching, server[e] # Gone,
         \A f \in Event : server[f] = Gone => server'[f] = Gone,
         kind \in Removal => server'[e] = Gone
  PROVE  /\ LineInv'
         /\ Line' \in Seq(Deltas)
         /\ alive  => Range(Line') = Range(Line) \cup {Delta(kind, e)}
         /\ ~alive => Line' = Line
<1> DEFINE d == Delta(kind, e)
<1>1. Line \in Seq(Deltas) /\ d \in Deltas /\ Range(Line) \subseteq Deltas
  BY LineType, RangeType DEF Delta, Deltas
<1>2. d.kind = kind /\ d.event = e
  BY DEF Delta
<1> HIDE DEF d
<1>3. /\ <<d>> \in Seq(Deltas) /\ Range(<<d>>) = {d} /\ Append(Line, d) = Line \o <<d>>
      /\ Append(Line, d) \in Seq(Deltas) /\ Range(Append(Line, d)) = Range(Line) \cup {d}
  <2>1. <<d>> \in Seq(Deltas) /\ Append(Line, d) = Line \o <<d>>
    BY <1>1
  <2>2. Range(<<d>>) = {d}
    BY DEF Range
  <2>3. Append(Line, d) \in Seq(Deltas) /\ Range(Append(Line, d)) = Range(Line) \cup {d}
    <3>1. Line \in Seq(Deltas) /\ d \in Deltas
      BY <1>1
    <3> HIDE DEF Line, Deltas
    <3>2. QED
      BY <3>1, RangeAppend
  <2>4. QED
    BY <2>1, <2>2, <2>3
<1>4. \A c \in Range(Line) : c.kind \in Removal => c.event # e
  BY DEF LineInv
<1>5. Ordered(Line \o <<d>>)
  BY <1>1, <1>2, <1>3, <1>4, OrderedConcat DEF LineInv
<1>6. queue \in Seq(Deltas) /\ unread \in Seq(Deltas)
  BY QueueType
<1>7. CASE alive
  <2>1. Line' = Append(Line, d) /\ (watching => unread' = <<>>)
    <3>1. CASE watching
      <4>1. unread = <<>> /\ unread' = <<>> /\ queue' = Append(queue, d)
        BY <1>7, <3>1 DEF Changed, LineInv, d
      <4>2. QED
        BY <1>1, <1>6, <4>1 DEF Line
    <3>2. CASE ~watching
      <4>1. queue' = queue /\ unread' = Append(unread, d)
        BY <1>7, <3>2 DEF Changed, d
      <4>2. QED
        BY <1>1, <1>6, <3>2, <4>1, ConcatAppend DEF Line
    <3>3. QED
      BY <3>1, <3>2
  <2>2. \A c \in Range(Line') : c.kind \in Removal => server'[c.event] = Gone
    BY <1>1, <1>2, <1>3, <2>1 DEF LineInv, Deltas
  <2>3. QED
    BY <1>1, <1>3, <1>5, <1>7, <2>1, <2>2 DEF LineInv, d
<1>8. CASE ~alive
  <2>1. UNCHANGED <<queue, unread>> /\ Line' = Line
    BY <1>8 DEF Changed, Line
  <2>2. QED
    BY <1>1, <1>8, <2>1 DEF LineInv, Deltas
<1>9. QED
  BY <1>7, <1>8

\* A write adds one delta behind the others, and no removal.
LEMMA WriteGrows ==
  ASSUME QueueInv, LineInv, NEW e \in Event, Write(e)
  PROVE  /\ LineInv'
         /\ server[e] # Gone /\ \A f \in Event : f # e => server'[f] = server[f]
         /\ \A d \in Range(Line') : d \in Range(Line) \/ (d.event = e /\ d.kind # "Tombstone")
<1> DEFINE kind == IF server[e] = NotYet THEN "Added" ELSE "Modified"
<1>1. /\ server' = [server EXCEPT ![e] = @ + 1] /\ server[e] >= 0
      /\ Changed(Delta(kind, e)) /\ UNCHANGED watching
  BY DEF Write, QueueInv, NotYet
<1>2. kind \in Kinds /\ kind \notin Removal /\ kind # "Tombstone"
  BY DEF Kinds, Removal
<1> HIDE DEF kind
<1>3. server[e] # Gone /\ \A f \in Event : f # e => server'[f] = server[f]
  BY <1>1 DEF QueueInv, Gone
<1>4. \A f \in Event : server[f] = Gone => server'[f] = Gone
  BY <1>3
<1>5. LineInv' /\ (alive  => Range(Line') = Range(Line) \cup {Delta(kind, e)})
               /\ (~alive => Line' = Line)
  BY <1>1, <1>2, <1>3, <1>4, LineGrows
<1>6. Delta(kind, e).kind = kind /\ Delta(kind, e).event = e
  BY DEF Delta
<1>7. QED
  BY <1>2, <1>3, <1>5, <1>6

\* An expiry adds one removal behind the others.
LEMMA ExpireGrows ==
  ASSUME QueueInv, LineInv, NEW e \in Event, Expire(e)
  PROVE  /\ LineInv'
         /\ server[e] # Gone /\ \A f \in Event : f # e => server'[f] = server[f]
         /\ \A d \in Range(Line') : d \in Range(Line) \/ (d.event = e /\ d.kind = "Deleted")
<1>1. /\ server' = [server EXCEPT ![e] = Gone] /\ server[e] > 0
      /\ Changed(Delta("Deleted", e)) /\ UNCHANGED watching
  BY DEF Expire
<1>2. /\ server[e] # Gone /\ server'[e] = Gone
      /\ \A f \in Event : f # e => server'[f] = server[f]
  BY <1>1 DEF QueueInv, Gone
<1>3. \A f \in Event : server[f] = Gone => server'[f] = Gone
  BY <1>2
<1>4. "Deleted" \in Kinds
  BY DEF Kinds
<1>5. LineInv' /\ (alive  => Range(Line') = Range(Line) \cup {Delta("Deleted", e)})
               /\ (~alive => Line' = Line)
  BY <1>1, <1>2, <1>3, <1>4, LineGrows
<1>6. Delta("Deleted", e).kind = "Deleted" /\ Delta("Deleted", e).event = e
  BY DEF Delta
<1>7. QED
  BY <1>2, <1>5, <1>6

\* What the reflector and the handlers do with the line.
LEMMA LinePopped ==
  ASSUME QueueInv, LineInv, queue # <<>>, queue' = Tail(queue), UNCHANGED <<server, unread, watching>>
  PROVE  /\ LineInv'
         /\ Head(queue) \in Deltas /\ Range(Line) = {Head(queue)} \cup Range(Line')
         /\ Head(queue).kind \in Removal =>
              /\ server[Head(queue).event] = Gone
              /\ \A d \in Range(Line') : d.event = Head(queue).event => d.kind \in Removal
<1>1. /\ queue \in Seq(Deltas) /\ unread \in Seq(Deltas) /\ Line \in Seq(Deltas)
  BY QueueType, LineType
<1>2. Line # <<>> /\ Line' = Tail(Line) /\ Head(Line) = Head(queue)
  BY <1>1 DEF Line
<1>3. /\ Head(Line) \in Deltas /\ Range(Line) = {Head(Line)} \cup Range(Tail(Line))
  BY <1>1, <1>2, RangeHeadTail
<1>4. /\ Ordered(Tail(Line))
      /\ Head(Line).kind \in Removal =>
           \A d \in Range(Tail(Line)) : d.event = Head(Line).event => d.kind \in Removal
  BY <1>1, <1>2, OrderedTail DEF LineInv
<1>5. \A d \in Range(Line) : d.kind \in Removal => server[d.event] = Gone
  BY DEF LineInv
<1>6. LineInv'
  <2>1. \A d \in Range(Line') : d.kind \in Removal => server'[d.event] = Gone
    BY <1>2, <1>3, <1>5
  <2>2. (watching => unread = <<>>)'
    BY DEF LineInv
  <2>3. QED
    BY <1>2, <1>4, <2>1, <2>2 DEF LineInv
<1>7. QED
  BY <1>2, <1>3, <1>4, <1>5, <1>6

\* A resumed watch reads on where the cut one stopped.
LEMMA LineResumed ==
  ASSUME QueueInv, LineInv, Resume
  PROVE  LineInv' /\ Line' = Line
<1>1. queue \in Seq(Deltas) /\ unread \in Seq(Deltas)
  BY QueueType
<1>2. queue' = queue \o unread /\ unread' = <<>> /\ server' = server
  BY DEF Resume
<1>3. Line' = Line
  BY <1>1, <1>2 DEF Line
<1>4. QED
  BY <1>2, <1>3 DEF LineInv

\* A list after a cut takes the place of what the watch has not read.
LEMMA LineRelisted ==
  ASSUME QueueInv, LineInv, Relist
  PROVE  /\ LineInv'
         /\ \A d \in Range(Line') : d \in Range(Line) \/ d.kind \in Removal \/ server[d.event] > 0
<1>1. queue \in Seq(Deltas) /\ unread \in Seq(Deltas)
  BY QueueType
<1>2. queue' = queue \o Replacement(Known) /\ unread' = <<>> /\ server' = server
  BY DEF Relist
<1> DEFINE r == Replacement(Known)
<1>3. /\ r \in Seq(Deltas)
      /\ \A d \in Range(r) : \/ d.kind = "Replaced" /\ server[d.event] > 0
                             \/ d.kind = "Tombstone" /\ server[d.event] = Gone
  BY KnownIsWritten, ReplacementDeltas
<1> HIDE DEF r
<1>4. Line' = queue \o r
  BY <1>1, <1>2, <1>3 DEF Line, r
<1>5. Range(Line) = Range(queue) \cup Range(unread) /\ Range(Line') = Range(queue) \cup Range(r)
  BY <1>1, <1>3, <1>4, RangeConcat DEF Line
<1>6. Ordered(queue)
  BY <1>1, OrderedPrefix DEF LineInv, Line
<1>7. \A d \in Range(Line') : d.kind \in Removal => server[d.event] = Gone
  BY <1>3, <1>5 DEF LineInv, Removal
<1>8. Ordered(Line')
  <2>1. \A d \in Range(queue) \cup Range(r) : \A c \in Range(r) :
          d.kind \in Removal /\ c.event = d.event => c.kind \in Removal
    BY <1>3, <1>5, <1>7 DEF Removal, Gone
  <2>2. QED
    BY <1>1, <1>3, <1>4, <1>6, <2>1, OrderedConcat
<1>9. QED
  BY <1>2, <1>3, <1>5, <1>7, <1>8 DEF LineInv, Removal

\* A new process lists what exists, and nothing else.
LEMMA LineStarts ==
  ASSUME QueueInv, WatchStarts
  PROVE  LineInv' /\ \A d \in Range(Line') : d.kind = "Replaced"
<1>1. queue' = Replacement({}) /\ unread' = <<>> /\ server' = server
  BY DEF WatchStarts
<1> DEFINE r == Replacement({})
<1>2. /\ r \in Seq(Deltas) /\ Ordered(r)
      /\ \A d \in Range(r) : d.kind = "Replaced"
  BY ReplacementDeltas
<1> HIDE DEF r
<1>3. Line' = r
  BY <1>1, <1>2 DEF Line, r
<1>4. QED
  BY <1>1, <1>2, <1>3 DEF LineInv, Removal

\* The steps that leave the line and the server as they are.
LEMMA LineQuiet ==
  ASSUME QueueInv, LineInv, LookUpPod \/ PublishEvent \/ PublishEventFails \/ LookUpFails \/ OtherEnd
           \/ Cut \/ (\E e \in Event : PodGoes(e)) \/ UNCHANGED wvars
  PROVE  LineInv' /\ Line' = Line
<1>1. ASSUME UNCHANGED <<queue, unread, server>>, watching' => watching
      PROVE  LineInv' /\ Line' = Line
  BY <1>1, LineKept
<1>2. CASE Cut
  BY <1>1, <1>2 DEF Cut
<1>3. CASE \E e \in Event : PodGoes(e)
  BY <1>1, <1>3 DEF PodGoes
<1>4. CASE LookUpPod \/ PublishEvent \/ PublishEventFails \/ LookUpFails \/ OtherEnd \/ UNCHANGED wvars
  <2>1. UNCHANGED <<queue, unread, server, watching>>
    BY <1>4, Zenon DEF LookUpPod, PublishEvent, PublishEventFails, LookUpFails, NextImage, OtherEnd, wvars
  <2>2. QED
    BY <1>1, <2>1
<1>5. QED
  BY <1>2, <1>3, <1>4

\* Every step of the watch keeps the order of what waits.
LEMMA NextLine == QueueInv /\ LineInv /\ [WNext]_wvars => LineInv'
<1> SUFFICES ASSUME QueueInv, LineInv, [WNext]_wvars PROVE LineInv'
  OBVIOUS
<1>1. ASSUME NEW e \in Event, Write(e) PROVE LineInv'
  BY <1>1, WriteGrows
<1>2. ASSUME NEW e \in Event, Expire(e) PROVE LineInv'
  BY <1>2, ExpireGrows
<1>3. CASE Resume
  BY <1>3, LineResumed
<1>4. CASE Relist
  BY <1>4, LineRelisted
<1>5. CASE Pop
  BY <1>5, LinePopped DEF Pop
<1>6. CASE WatchStarts
  BY <1>6, LineStarts
<1>7. CASE LookUpPod \/ PublishEvent \/ PublishEventFails \/ LookUpFails \/ OtherEnd
             \/ Cut \/ (\E e \in Event : PodGoes(e)) \/ UNCHANGED wvars
  BY <1>7, LineQuiet
<1>8. QED
  BY <1>1, <1>2, <1>3, <1>4, <1>5, <1>6, <1>7 DEF WNext

\* A step in which no event may be added again and no cut opens.
LEMMA AddsKept ==
  ASSUME QueueInv, StoreInv, AddsInv, UNCHANGED <<alive, adds, deaths, cuts>>,
         \A p \in Publication : MayAdd(p)' => MayAdd(p), CutIsOpen' => CutIsOpen,
         alive /\ handler'.kind = "ADD" => handler'.event \in store'
  PROVE  AddsInv'
<1>1. \A p \in Publication : One(MayAdd(p))' <= One(MayAdd(p))
  BY DEF One
<1>2. One(CutIsOpen)' <= One(CutIsOpen)
  BY DEF One
<1>3. /\ \A p \in Publication : One(MayAdd(p)) \in {0, 1} /\ One(MayAdd(p))' \in {0, 1}
      /\ One(CutIsOpen) \in {0, 1} /\ One(CutIsOpen)' \in {0, 1}
  BY DEF One
<1>4. /\ adds' = adds /\ deaths' = deaths /\ cuts' = cuts /\ alive' = alive
      /\ adds \in [Publication -> Nat] /\ deaths \in Nat /\ cuts \in Nat
  BY DEF QueueInv, StoreInv
<1>5. alive => \A p \in Publication : adds[p] + One(MayAdd(p))' + One(CutIsOpen)' <= 1 + deaths + cuts
  BY <1>1, <1>2, <1>3, <1>4 DEF AddsInv
<1>6. QED
  BY <1>4, <1>5 DEF AddsInv

\* What an event or a line of deltas makes possible.
LEMMA MayAddLater ==
  ASSUME UNCHANGED <<handler, store>>, NEW p \in Publication,
         server[p.event] = Gone => server'[p.event] = Gone,
         \A d \in Range(Line') : d.event = p.event =>
            d \in Range(Line) \/ d.kind \in Removal \/ server[p.event] # Gone
  PROVE  MayAdd(p)' => MayAdd(p)
BY DEF MayAdd, ToAdd

\* A change at the server opens at most the first addition of an event.
LEMMA AddsAtServer ==
  ASSUME QueueInv, StoreInv, LineInv, AddsInv, NEW e \in Event, Write(e) \/ Expire(e)
  PROVE  AddsInv'
<1>1. /\ LineInv' /\ server[e] # Gone /\ \A f \in Event : f # e => server'[f] = server[f]
      /\ \A d \in Range(Line') : d \in Range(Line) \/ (d.event = e /\ d.kind # "Tombstone")
  <2>1. CASE Write(e)
    BY <2>1, WriteGrows
  <2>2. CASE Expire(e)
    BY <2>2, ExpireGrows
  <2>3. QED
    BY <2>1, <2>2
<1>2. UNCHANGED <<watching, store, handler, alive, adds, cuts, deaths>>
  BY Zenon DEF Write, Expire
<1>3. \A p \in Publication : MayAdd(p)' => MayAdd(p)
  BY <1>1, <1>2, MayAddLater, PublicationType
<1>4. CutIsOpen' => CutIsOpen
  BY <1>1, <1>2 DEF CutIsOpen
<1>5. alive /\ handler'.kind = "ADD" => handler'.event \in store'
  BY <1>2 DEF AddsInv
<1>6. QED
  BY <1>2, <1>3, <1>4, <1>5, AddsKept

\* A handler is called for what is popped: with ADD, only of an event that the
\* store does not have; what a deletion removes is not stored again.
LEMMA AddsPopped ==
  ASSUME QueueInv, StoreInv, LineInv, AddsInv, Pop
  PROVE  AddsInv'
<1> DEFINE d == Head(queue)
<1>1. /\ alive /\ handler = Idle /\ queue # <<>> /\ queue' = Tail(queue)
      /\ store' = IF d.kind \in Removal THEN store \ {d.event} ELSE store \cup {d.event}
      /\ alive' = (d.kind # "Tombstone")
      /\ handler' = IF d.kind = "Tombstone" THEN Idle
                    ELSE [kind  |-> IF d.kind = "Deleted" THEN "DELETE"
                                    ELSE IF d.event \in store THEN "UPDATE" ELSE "ADD",
                          event |-> d.event, left |-> 0]
      /\ UNCHANGED <<server, watching, unread, adds, cuts, deaths>>
  BY DEF Pop, Removal
<1>2. /\ LineInv' /\ d \in Deltas /\ Range(Line) = {d} \cup Range(Line')
      /\ d.kind \in Removal => /\ server[d.event] = Gone
                               /\ \A c \in Range(Line') : c.event = d.event => c.kind \in Removal
  BY <1>1, LinePopped
<1> HIDE DEF d
<1>3. d.event \in Event
  BY <1>2 DEF Deltas
<1>4. CASE d.kind = "Tombstone"
  <2>1. CutIsOpen /\ ~alive'
    BY <1>1, <1>2, <1>4 DEF CutIsOpen
  <2>2. \A p \in Publication : adds[p] + One(MayAdd(p)) + 1 <= 1 + deaths + cuts /\ One(MayAdd(p)) \in {0, 1}
    BY <1>1, <2>1 DEF AddsInv, One
  <2>3. \A p \in Publication : adds'[p] <= deaths' + cuts'
    BY <1>1, <2>2 DEF StoreInv, QueueInv
  <2>4. QED
    BY <2>1, <2>3 DEF AddsInv
<1>5. CASE d.kind = "Deleted"
  <2>1. /\ handler' = [kind |-> "DELETE", event |-> d.event, left |-> 0]
        /\ store' = store \ {d.event} /\ alive' = alive
    BY <1>1, <1>5 DEF Removal
  <2>2. ASSUME NEW p \in Publication, MayAdd(p)' PROVE MayAdd(p)
    <3>1. /\ p.event \notin store'
          /\ \/ server[p.event] # Gone
             \/ \E c \in Range(Line') : c.event = p.event /\ c.kind \notin Removal
      BY <1>1, <2>1, <2>2 DEF MayAdd, ToAdd
    <3>2. p.event # d.event
      BY <1>2, <1>5, <3>1 DEF Removal
    <3>3. p.event \notin store
      BY <2>1, <3>1, <3>2
    <3>4. QED
      BY <1>2, <3>1, <3>3 DEF MayAdd
  <2>3. CutIsOpen' => CutIsOpen
    BY <1>1, <1>2 DEF CutIsOpen
  <2>4. handler'.kind # "ADD"
    BY <2>1
  <2>5. \A p \in Publication : MayAdd(p)' => MayAdd(p)
    BY <2>2
  <2>6. UNCHANGED <<alive, adds, deaths, cuts>>
    BY <1>1, <2>1
  <2>7. QED
    BY <2>3, <2>4, <2>5, <2>6, AddsKept
<1>6. CASE d.kind \notin Removal
  <2>1. /\ handler' = [kind |-> IF d.event \in store THEN "UPDATE" ELSE "ADD",
                       event |-> d.event, left |-> 0]
        /\ store' = store \cup {d.event} /\ alive' = alive
    BY <1>1, <1>6 DEF Removal
  <2>2. ASSUME NEW p \in Publication, MayAdd(p)' PROVE MayAdd(p)
    <3>1. CASE ToAdd(p)'
      <4>1. p.event = d.event /\ p.event \notin store
        BY <2>1, <3>1 DEF ToAdd
      <4>2. QED
        BY <1>2, <1>6, <4>1 DEF MayAdd
    <3>2. CASE ~ToAdd(p)'
      BY <1>1, <1>2, <2>1, <2>2, <3>2 DEF MayAdd
    <3>3. QED
      BY <3>1, <3>2
  <2>3. CutIsOpen' => CutIsOpen
    BY <1>1, <1>2 DEF CutIsOpen
  <2>4. handler'.event \in store'
    BY <2>1
  <2>5. QED
    BY <1>1, <2>1, <2>2, <2>3, <2>4, AddsKept
<1>7. QED
  BY <1>4, <1>5, <1>6 DEF Removal

\* The ADD that is published is one that was possible: its event is stored.
LEMMA AddsPublished ==
  ASSUME QueueInv, StoreInv, LineInv, AddsInv, PublishEvent
  PROVE  AddsInv'
<1>1. alive /\ UNCHANGED <<server, watching, unread, queue, store, alive, cuts, deaths>>
  BY DEF PublishEvent
<1>2. /\ adds \in [Publication -> Nat] /\ adds' \in [Publication -> Nat]
      /\ deaths \in Nat /\ cuts \in Nat
      /\ handler'.kind = "ADD" => handler.kind = "ADD" /\ handler'.event = handler.event
      /\ \A p \in Publication : \/ adds'[p] = adds[p] /\ (ToAdd(p)' <=> ToAdd(p))
                                \/ adds'[p] = adds[p] + 1 /\ ToAdd(p) /\ ~ToAdd(p)'
  BY Published DEF StoreInv, QueueInv
<1>3. Line' = Line /\ CutIsOpen' = CutIsOpen
  BY <1>1 DEF Line, CutIsOpen
<1>4. ASSUME NEW p \in Publication
      PROVE  adds'[p] + One(MayAdd(p))' + One(CutIsOpen)' <= 1 + deaths' + cuts'
  <2>1. /\ adds[p] + One(MayAdd(p)) + One(CutIsOpen) <= 1 + deaths + cuts
        /\ One(CutIsOpen)' = One(CutIsOpen) /\ One(CutIsOpen) \in {0, 1}
        /\ One(MayAdd(p)) \in {0, 1} /\ One(MayAdd(p))' \in {0, 1}
        /\ adds[p] \in Nat /\ adds'[p] \in Nat /\ cuts' = cuts /\ deaths' = deaths
    BY <1>1, <1>2, <1>3 DEF AddsInv, One
  <2>2. CASE adds'[p] = adds[p] /\ (ToAdd(p)' <=> ToAdd(p))
    <3>1. MayAdd(p)' => MayAdd(p)
      BY <1>1, <1>3, <2>2 DEF MayAdd
    <3>2. One(MayAdd(p))' <= One(MayAdd(p))
      BY <3>1 DEF One
    <3>3. QED
      BY <1>2, <2>1, <2>2, <3>2
  <2>3. CASE adds'[p] = adds[p] + 1 /\ ToAdd(p) /\ ~ToAdd(p)'
    <3>1. p.event \in store
      BY <1>1, <2>3 DEF AddsInv, ToAdd
    <3>2. MayAdd(p) /\ ~MayAdd(p)'
      BY <1>1, <2>3, <3>1 DEF MayAdd
    <3>3. One(MayAdd(p)) = 1 /\ One(MayAdd(p))' = 0
      BY <3>2 DEF One
    <3>4. QED
      BY <1>2, <2>1, <2>3, <3>3
  <2>4. QED
    BY <1>2, <2>2, <2>3
<1>5. QED
  BY <1>1, <1>2, <1>4 DEF AddsInv

\* A process that ends has published each event no more often than there were
\* ends and cuts; a new one may publish it once more.
LEMMA AddsOtherEnd ==
  ASSUME QueueInv, StoreInv, AddsInv, OtherEnd
  PROVE  AddsInv'
<1>1. alive /\ deaths' = deaths + 1 /\ ~alive' /\ UNCHANGED <<adds, cuts>>
  BY DEF OtherEnd
<1>2. \A p \in Publication : One(MayAdd(p)) \in {0, 1}
  BY DEF One
<1>3. One(CutIsOpen) \in {0, 1} /\ adds \in [Publication -> Nat] /\ deaths \in Nat /\ cuts \in Nat
  BY DEF One, QueueInv, StoreInv
<1>4. QED
  BY <1>1, <1>2, <1>3 DEF AddsInv

\* A new process may add every event once more.
LEMMA AddsWatchStarts ==
  ASSUME QueueInv, StoreInv, AddsInv, WatchStarts
  PROVE  AddsInv'
<1>1. ~alive /\ alive' /\ watching' /\ handler' = Idle /\ UNCHANGED <<adds, cuts, deaths>>
  BY DEF WatchStarts
<1>2. \A d \in Range(Line') : d.kind = "Replaced"
  BY LineStarts
<1>3. ~CutIsOpen' /\ handler'.kind # "ADD"
  BY <1>1, <1>2 DEF CutIsOpen, Idle
<1>4. /\ One(CutIsOpen)' = 0 /\ \A p \in Publication : One(MayAdd(p))' \in {0, 1}
      /\ adds \in [Publication -> Nat] /\ deaths \in Nat /\ cuts \in Nat
  BY <1>3 DEF One, QueueInv, StoreInv
<1>5. \A p \in Publication : adds[p] <= deaths + cuts
  BY <1>1 DEF AddsInv
<1>6. \A p \in Publication : adds'[p] + One(MayAdd(p))' + One(CutIsOpen)' <= 1 + deaths' + cuts'
  BY <1>1, <1>4, <1>5
<1>7. QED
  BY <1>1, <1>3, <1>6 DEF AddsInv

\* A cut may cost one addition more of an event.
LEMMA AddsCut ==
  ASSUME QueueInv, StoreInv, LineInv, AddsInv, Cut
  PROVE  AddsInv'
<1>1. /\ alive /\ cuts' = cuts + 1 /\ UNCHANGED <<server, store, handler, alive, adds, deaths>>
  BY DEF Cut
<1>2. Line' = Line
  BY LineQuiet
<1>3. \A p \in Publication : MayAdd(p)' = MayAdd(p)
  BY <1>1, <1>2 DEF MayAdd, ToAdd
<1>4. /\ \A p \in Publication : One(MayAdd(p))' = One(MayAdd(p)) /\ One(MayAdd(p)) \in {0, 1}
      /\ One(CutIsOpen) \in {0, 1} /\ One(CutIsOpen)' \in {0, 1}
      /\ adds \in [Publication -> Nat] /\ deaths \in Nat /\ cuts \in Nat
  BY <1>3 DEF One, QueueInv, StoreInv
<1>5. \A p \in Publication : adds[p] + One(MayAdd(p)) + One(CutIsOpen) <= 1 + deaths + cuts
  BY <1>1 DEF AddsInv
<1>6. \A p \in Publication : adds'[p] + One(MayAdd(p))' + One(CutIsOpen)' <= 1 + deaths' + cuts'
  BY <1>1, <1>4, <1>5
<1>7. QED
  BY <1>1, <1>6 DEF AddsInv

LEMMA NextAdds == QueueInv /\ StoreInv /\ LineInv /\ AddsInv /\ [WNext]_wvars => AddsInv'
<1> SUFFICES ASSUME QueueInv, StoreInv, LineInv, AddsInv, [WNext]_wvars PROVE AddsInv'
  OBVIOUS
<1>1. ASSUME NEW e \in Event, Write(e) \/ Expire(e) PROVE AddsInv'
  BY <1>1, AddsAtServer
<1>2. CASE Resume
  <2>1. Line' = Line /\ watching' /\ ~watching
           /\ UNCHANGED <<server, store, handler, alive, adds, cuts, deaths>>
    BY <1>2, LineResumed DEF Resume
  <2>2. CutIsOpen /\ \A p \in Publication : MayAdd(p)' => MayAdd(p)
    BY <2>1 DEF CutIsOpen, MayAdd, ToAdd
  <2>3. alive /\ handler'.kind = "ADD" => handler'.event \in store'
    BY <2>1 DEF AddsInv
  <2>4. QED
    BY <2>1, <2>2, <2>3, AddsKept
<1>3. CASE Relist
  <2>1. ~watching /\ UNCHANGED <<server, store, handler, alive, adds, cuts, deaths>>
    BY <1>3 DEF Relist
  <2>2. \A d \in Range(Line') : d \in Range(Line) \/ d.kind \in Removal \/ server[d.event] > 0
    BY <1>3, LineRelisted
  <2>3. CutIsOpen /\ \A p \in Publication : MayAdd(p)' => MayAdd(p)
    BY <2>1, <2>2 DEF CutIsOpen, MayAdd, ToAdd, Gone
  <2>4. alive /\ handler'.kind = "ADD" => handler'.event \in store'
    BY <2>1 DEF AddsInv
  <2>5. QED
    BY <2>1, <2>3, <2>4, AddsKept
<1>4. CASE Pop
  BY <1>4, AddsPopped
<1>5. CASE PublishEvent
  BY <1>5, AddsPublished
<1>6. CASE LookUpPod \/ LookUpFails \/ PublishEventFails
  <2>1. UNCHANGED <<server, watching, store, alive, adds, cuts, deaths>> /\ handler # Idle
    BY <1>6, Zenon DEF LookUpPod, LookUpFails, PublishEventFails, NextImage
  <2>2. Line' = Line /\ CutIsOpen' = CutIsOpen
    BY <1>6, <2>1, LineQuiet DEF CutIsOpen
  <2>3. handler'.kind = "ADD" => handler.kind = "ADD" /\ handler'.event = handler.event
    BY <1>6, <2>1 DEF LookUpPod, LookUpFails, PublishEventFails, NextImage, StoreInv, Idle
  <2>4. \A p \in Publication : MayAdd(p)' => MayAdd(p)
    <3>1. \A p \in Publication : ToAdd(p)' => ToAdd(p)
      BY <1>6, <2>1, PublicationType, ContainersAssumption
         DEF LookUpPod, LookUpFails, PublishEventFails, NextImage, StoreInv, Idle, ToAdd
    <3>2. QED
      BY <2>1, <2>2, <3>1 DEF MayAdd
  <2>5. alive /\ handler'.kind = "ADD" => handler'.event \in store'
    BY <2>1, <2>3 DEF AddsInv
  <2>6. QED
    BY <2>1, <2>2, <2>4, <2>5, AddsKept
<1>7. CASE OtherEnd
  BY <1>7, AddsOtherEnd
<1>8. CASE WatchStarts
  BY <1>8, AddsWatchStarts
<1>9. CASE Cut
  BY <1>9, AddsCut
<1>10. CASE (\E e \in Event : PodGoes(e)) \/ UNCHANGED wvars
  <2>1. UNCHANGED <<server, watching, store, handler, alive, adds, cuts, deaths>>
    BY <1>10, Zenon DEF PodGoes, wvars
  <2>2. Line' = Line
    BY <1>10, LineQuiet
  <2>3. CutIsOpen' = CutIsOpen /\ \A p \in Publication : MayAdd(p)' => MayAdd(p)
    BY <2>1, <2>2 DEF CutIsOpen, MayAdd, ToAdd
  <2>4. alive /\ handler'.kind = "ADD" => handler'.event \in store'
    BY <2>1 DEF AddsInv
  <2>5. QED
    BY <2>1, <2>3, <2>4, AddsKept
<1>11. QED
  BY <1>1, <1>2, <1>3, <1>4, <1>5, <1>6, <1>7, <1>8, <1>9, <1>10 DEF WNext

LEMMA InitAdds == WInit => LineInv /\ AddsInv
<1> SUFFICES ASSUME WInit PROVE LineInv /\ AddsInv
  OBVIOUS
<1>1. Line = <<>> /\ Range(Line) = {}
  BY RangeEmpty DEF WInit, Line
<1>2. LineInv
  BY <1>1 DEF WInit, LineInv, Ordered
<1>3. ~CutIsOpen /\ handler.kind # "ADD"
  BY <1>1 DEF WInit, CutIsOpen, Idle
<1>4. One(CutIsOpen) = 0 /\ \A p \in Publication : One(MayAdd(p)) \in {0, 1}
  BY <1>3 DEF One
<1>5. QED
  BY <1>2, <1>3, <1>4 DEF WInit, AddsInv

\* Each image of an event is published as an ADD at most once by each process: by
\* the first, and by one more for every other end and every cut.
THEOREM AddedByEachProcess == WSpec => []AddedOncePerProcess
<1> DEFINE Inv == QueueInv /\ StoreInv /\ LineInv /\ AddsInv
<1>1. Inv => AddedOncePerProcess
  <2> SUFFICES ASSUME Inv, NEW p \in Publication PROVE adds[p] <= 1 + deaths + cuts
    BY DEF AddedOncePerProcess
  <2>1. One(MayAdd(p)) \in {0, 1} /\ One(CutIsOpen) \in {0, 1}
    BY DEF One
  <2>2. adds[p] \in Nat /\ deaths \in Nat /\ cuts \in Nat
    BY DEF StoreInv, QueueInv
  <2>3. QED
    BY <2>1, <2>2 DEF AddsInv
<1>2. WInit => Inv
  BY InitWatch, InitAdds
<1>3. Inv /\ [WNext]_wvars => Inv'
  BY NextQueue, NextStore, NextLine, NextAdds
<1>4. QED
  BY <1>1, <1>2, <1>3, PTL DEF WSpec
=============================================================================
