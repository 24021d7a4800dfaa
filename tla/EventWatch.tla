----------------------------- MODULE EventWatch -----------------------------
(***************************************************************************)
(* The agent's watch on the events of the cluster                           *)
(* (agent/kubviz/plugins/events/event_metrics_utils.go): an informer of      *)
(* client-go feeds three handlers, one delta at a time; a handler looks up   *)
(* the pod the event is about, when its turn comes, and publishes the event  *)
(* once for each container of the pod, with its image.                       *)
(* The API server drops events after their time to live, the watch may be    *)
(* cut, and the process may end and start again.                             *)
(***************************************************************************)
EXTENDS Integers, Sequences, SequencesExt

CONSTANTS
  Event,        \* the events of the cluster
  Images,       \* Images[e]: the containers of the pod that e is about; 0: no pod
  MaxVersion,   \* bound: versions of an event
  MaxCuts,      \* bound: cuts of the watch
  MaxFails,     \* bound: lookups and publish calls that fail
  MaxDeaths     \* bound: other ends of the process

ASSUME EventAssumption == IsFiniteSet(Event)
ASSUME ContainersAssumption == Images \in [Event -> Nat]

NotYet == 0
Gone == -1

VARIABLES
  server,    \* server[e]: the version of e at the API server, NotYet or Gone
  pod,       \* pod[e]: the pod that e is about exists
  watching,  \* the watch is connected
  unread,    \* the changes of the server that a cut watch has not read
  queue,     \* the deltas not handled yet, [kind, event]
  store,     \* the events the informer knows
  handler,   \* the running handler: [kind, event, left], or Idle; left: the
             \* images it has not published, 0 until the pod is looked up
  alive,     \* the process runs
  adds,      \* history: the ADDs of each event that were published, by image
  cuts, fails, deaths    \* history: the faults so far
wvars == <<server, pod, watching, unread, queue, store, handler, alive, adds,
           cuts, fails, deaths>>

\* What a handler of e publishes: one message for each image.
Publication == UNION {[event : {e}, image : 1..Images[e]] : e \in Event}
OnPod(e) == Images[e] > 0

Idle == [kind |-> "none", event |-> "none", left |-> 0]
Delta(kind, e) == [kind |-> kind, event |-> e]
AtServer == {e \in Event : server[e] > 0}

\* DeltaFIFO.Replace: what is listed, and a tombstone for what is known and is
\* not, unless its deletion is queued already.
Queued(e) == {i \in DOMAIN queue : queue[i].event = e}
Known == {e \in Event : IF Queued(e) = {} THEN e \in store
                        ELSE queue[CHOOSE i \in Queued(e) : \A j \in Queued(e) : j <= i].kind
                               \notin {"Deleted", "Tombstone"}}
Replacement(known) ==
  SetToSeq({Delta("Replaced", e) : e \in AtServer})
    \o SetToSeq({Delta("Tombstone", e) : e \in known \ AtServer})

WInit == /\ server = [e \in Event |-> NotYet] /\ pod = [e \in Event |-> OnPod(e)]
         /\ watching = TRUE /\ unread = <<>> /\ queue = <<>> /\ store = {}
         /\ handler = Idle /\ alive = TRUE /\ adds = [p \in Publication |-> 0]
         /\ cuts = 0 /\ fails = 0 /\ deaths = 0

(***************************************************************************)
(* The cluster.                                                              *)
(***************************************************************************)
\* A change reaches the watch, or waits for it.
Changed(d) ==
  IF alive /\ watching THEN queue' = Append(queue, d) /\ UNCHANGED unread
  ELSE IF alive THEN unread' = Append(unread, d) /\ UNCHANGED queue
  ELSE UNCHANGED <<queue, unread>>

Write(e) ==
  /\ server[e] \in NotYet..(MaxVersion - 1)
  /\ server[e] = NotYet /\ OnPod(e) => pod[e]
  /\ server' = [server EXCEPT ![e] = @ + 1]
  /\ Changed(Delta(IF server[e] = NotYet THEN "Added" ELSE "Modified", e))
  /\ UNCHANGED <<pod, watching, store, handler, alive, adds, cuts, fails, deaths>>

Expire(e) ==
  /\ server[e] > 0
  /\ server' = [server EXCEPT ![e] = Gone]
  /\ Changed(Delta("Deleted", e))
  /\ UNCHANGED <<pod, watching, store, handler, alive, adds, cuts, fails, deaths>>

PodGoes(e) ==
  /\ pod[e] /\ server[e] # NotYet
  /\ pod' = [pod EXCEPT ![e] = FALSE]
  /\ UNCHANGED <<server, watching, unread, queue, store, handler, alive, adds, cuts, fails, deaths>>

(***************************************************************************)
(* The reflector of client-go.                                               *)
(***************************************************************************)
Cut ==
  /\ alive /\ watching /\ cuts < MaxCuts
  /\ watching' = FALSE /\ cuts' = cuts + 1
  /\ UNCHANGED <<server, pod, unread, queue, store, handler, alive, adds, fails, deaths>>

\* The watch goes on from the last version it has seen ...
Resume ==
  /\ alive /\ ~watching
  /\ watching' = TRUE /\ queue' = queue \o unread /\ unread' = <<>>
  /\ UNCHANGED <<server, pod, store, handler, alive, adds, cuts, fails, deaths>>

\* ... or that version is too old, and it lists the events again.
Relist ==
  /\ alive /\ ~watching
  /\ watching' = TRUE /\ unread' = <<>>
  /\ queue' = queue \o Replacement(Known)
  /\ UNCHANGED <<server, pod, store, handler, alive, adds, cuts, fails, deaths>>

(***************************************************************************)
(* The handlers.                                                             *)
(***************************************************************************)
\* processDeltas: the store first, then AddFunc, UpdateFunc or DeleteFunc.  The
\* argument of DeleteFunc for a tombstone is not an *v1.Event: the type assertion
\* panics, which nothing recovers.
\* (Mutants: the store is not looked up; an event of a list is stored without a
\* call of AddFunc; every deletion comes as a tombstone.)
PopWithoutStore ==
  /\ alive /\ handler = Idle /\ queue # <<>>
  /\ queue' = Tail(queue) /\ store' = store \cup {Head(queue).event}
  /\ handler' = [kind |-> "ADD", event |-> Head(queue).event, left |-> 0]
  /\ UNCHANGED <<server, pod, watching, unread, alive, adds, cuts, fails, deaths>>
PopListed ==
  /\ alive /\ handler = Idle /\ queue # <<>>
  /\ queue' = Tail(queue) /\ store' = store \cup {Head(queue).event}
  /\ handler' = IF Head(queue).kind = "Replaced" THEN Idle
                ELSE [kind |-> "ADD", event |-> Head(queue).event, left |-> 0]
  /\ UNCHANGED <<server, pod, watching, unread, alive, adds, cuts, fails, deaths>>
PopTombstone ==
  /\ alive /\ handler = Idle /\ queue # <<>>
  /\ queue' = Tail(queue) /\ store' = store \cup {Head(queue).event}
  /\ alive' = (Head(queue).kind \notin {"Deleted", "Tombstone"})
  /\ UNCHANGED <<server, pod, watching, unread, handler, adds, cuts, fails, deaths>>
Pop ==
  /\ alive /\ handler = Idle /\ queue # <<>>
  /\ queue' = Tail(queue)
  /\ LET d == Head(queue) IN
     /\ store' = IF d.kind \in {"Deleted", "Tombstone"} THEN store \ {d.event}
                                                       ELSE store \cup {d.event}
     /\ alive' = (d.kind # "Tombstone")
     /\ handler' = IF d.kind = "Tombstone" THEN Idle
                   ELSE [kind  |-> IF d.kind = "Deleted" THEN "DELETE"
                                   ELSE IF d.event \in store THEN "UPDATE" ELSE "ADD",
                         event |-> d.event, left |-> 0]
  /\ UNCHANGED <<server, pod, watching, unread, adds, cuts, fails, deaths>>

\* getK8sPodImages, by the name of the object the event is about.
LookUpPod ==
  /\ alive /\ handler # Idle /\ handler.left = 0
  /\ handler' = IF pod[handler.event] THEN [handler EXCEPT !.left = Images[handler.event]]
                                      ELSE Idle
  /\ UNCHANGED <<server, pod, watching, unread, queue, store, alive, adds, cuts, fails, deaths>>

LookUpFails ==
  /\ alive /\ handler # Idle /\ handler.left = 0 /\ fails < MaxFails
  /\ fails' = fails + 1 /\ handler' = Idle
  /\ UNCHANGED <<server, pod, watching, unread, queue, store, alive, adds, cuts, deaths>>

\* The loop over the images goes on to the next one, or returns.
CurrentImage == [event |-> handler.event, image |-> Images[handler.event] - handler.left + 1]
NextImage == handler' = IF handler.left = 1 THEN Idle ELSE [handler EXCEPT !.left = @ - 1]

PublishEvent ==
  /\ alive /\ handler # Idle /\ handler.left > 0
  /\ adds' = [adds EXCEPT ![CurrentImage] = IF handler.kind = "ADD" THEN @ + 1 ELSE @]
  /\ NextImage
  /\ UNCHANGED <<server, pod, watching, unread, queue, store, alive, cuts, fails, deaths>>

\* publishK8sMetrics returns an error, which is ignored.
PublishEventFails ==
  /\ alive /\ handler # Idle /\ handler.left > 0 /\ fails < MaxFails
  /\ fails' = fails + 1 /\ NextImage
  /\ UNCHANGED <<server, pod, watching, unread, queue, store, alive, adds, cuts, deaths>>

(***************************************************************************)
(* The process.                                                              *)
(***************************************************************************)
OtherEnd ==
  /\ alive /\ deaths < MaxDeaths
  /\ deaths' = deaths + 1 /\ alive' = FALSE /\ handler' = Idle
  /\ UNCHANGED <<server, pod, watching, unread, queue, store, adds, cuts, fails>>

\* A new process lists all events that exist.
WatchStarts ==
  /\ ~alive
  /\ alive' = TRUE /\ watching' = TRUE /\ handler' = Idle
  /\ store' = {} /\ unread' = <<>> /\ queue' = Replacement({})
  /\ UNCHANGED <<server, pod, adds, cuts, fails, deaths>>

WNext == \/ \E e \in Event : Write(e) \/ Expire(e) \/ PodGoes(e)
         \/ Cut \/ Resume \/ Relist
         \/ Pop \/ LookUpPod \/ LookUpFails \/ PublishEvent \/ PublishEventFails
         \/ OtherEnd \/ WatchStarts
WSpec == WInit /\ [][WNext]_wvars
-----------------------------------------------------------------------------
Pending(e) == handler.event = e \/ Queued(e) # {}

\* The event of a pod that is still there, once it is handled, has been published
\* as an ADD for every image of the pod, unless a lookup or a publish call failed:
\* nothing tries it again.
EventIsPublished ==
  alive => \A p \in Publication :
             p.event \in store /\ ~Pending(p.event) /\ pod[p.event] => adds[p] > 0 \/ fails > 0

\* An event is published as an ADD for each image of its pod at most once per
\* process: only a restart, which lists all events again, repeats it.  A tombstone
\* ends a process, too, at most once per cut.
AddedOncePerProcess == \A p \in Publication : adds[p] <= 1 + deaths + cuts

\* Without another cause the watch ends the process only after it was cut and an
\* event has expired, however deltas, cuts and lists follow each other.
OnlyExpiredEventsKill ==
  ~alive /\ deaths = 0 => cuts > 0 /\ \E e \in Event : server[e] = Gone
=============================================================================
