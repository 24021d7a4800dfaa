--------------------------- MODULE ClientLifecycle ---------------------------
(***************************************************************************)
(* The life of the client's pods: start, crash loop, rollout, shutdown.    *)
(*                                                                         *)
(* A client connects to ClickHouse and NATS, then asks for the streams one *)
(* after the other and subscribes to the durables of each before it asks   *)
(* for the next; a missing stream ends the process.  The errors of         *)
(* Subscribe are ignored: nats.go refuses a durable push consumer that     *)
(* another connection is bound to, and gives up on a request that gets no  *)
(* answer, and the client goes on without the durable.  The deployment has *)
(* one replica, no probe and the default strategy: a rollout starts the    *)
(* new pod first and stops the old one as soon as the new container runs.  *)
(* The init container of each pod migrates the schema first.               *)
(*                                                                         *)
(* Pod: the pods the deployment may create, one after the other.           *)
(***************************************************************************)
EXTENDS Naturals, Sequences, SchemaMigration

CONSTANTS
  First,          \* the pod it starts with
  KubvizDurable,  \* the durables of the stream METRICS
  Enabled,        \* the streams whose agents are installed
  None,           \* no durable
  MaxFaults,      \* bound on rollouts, lost nodes, killed processes, failed dials
  MaxOutages      \* bound on connections given up and requests not answered

StreamOrder == <<"GITMETRICS", "CONTAINERMETRICS", "METRICS">>
Streams     == {StreamOrder[i] : i \in 1..3}
Durables(s) ==
  CASE s = "GITMETRICS"       -> {"Git-Consumer"}
    [] s = "CONTAINERMETRICS" -> {"CONTAINER_EVENT_CONSUMER"}
    [] s = "METRICS"          -> KubvizDurable
Durable     == UNION {Durables(s) : s \in Streams}

ASSUME PodAssumption     == First \in Pod
ASSUME EnabledAssumption == Enabled \subseteq Streams
ASSUME NoneAssumption    == None \notin Durable
ASSUME DurableAssumption == KubvizDurable \cap {"Git-Consumer", "CONTAINER_EVENT_CONSUMER"} = {}
ASSUME FaultAssumption   == MaxFaults \in Nat /\ MaxOutages \in Nat

VARIABLES
  exporters,  \* the pods with AWS_ENABLE, whose Start runs the daily export
  streams,    \* streams that exist on the server
  bound,      \* the pods whose connection the server delivers each durable to
  desired,    \* the pod of the newest replica set
  pc,         \* where each pod is
  stage,      \* the stream each pod is at, an index of StreamOrder
  pending,    \* durables of that stream the pod has not subscribed to yet
  found,      \* the durable the pod has looked up and found free
  missed,     \* durables whose Subscribe got no answer in the process of the pod
  offline,    \* pods whose connection to NATS is closed for good
  signalled,  \* pods that were sent SIGTERM
  faults,     \* number of faults so far
  outages,    \* number of connections given up and of requests not answered so far
  handovers,  \* history: number of those that replaced a pod by another
  graceKilled \* history: pods that outlived their grace period without having closed

startVars == <<stage, pending, found, missed, offline>>
counters == <<faults, outages>>
history   == <<handovers, graceKilled, exporters>>
vars == <<streams, bound, desired, pc, startVars, signalled, counters, history, schemaVars>>

Starting == {"connecting", "dialing", "checking", "subscribing"}
Up       == {"exporting", "serving"}
Running  == Starting \cup Up \cup {"closing", "closed"}
InInit    == {"migrating", "unmigrated"}
Phases   == Running \cup InInit \cup {"none", "crashed", "gone"}

Inject == faults < MaxFaults /\ faults' = faults + 1 /\ UNCHANGED outages
Outage == outages < MaxOutages /\ outages' = outages + 1 /\ UNCHANGED faults

(* The process of p ends: its connection is closed, and the server knows.  *)
End(p, where) ==
  /\ pc' = [pc EXCEPT ![p] = where]
  /\ bound' = [d \in Durable |-> bound[d] \ {p}]
  /\ pending' = [pending EXCEPT ![p] = {}]
  /\ found' = [found EXCEPT ![p] = None]
  /\ missed' = [missed EXCEPT ![p] = {}]
  /\ stage' = [stage EXCEPT ![p] = 1]
  /\ offline' = offline \ {p}

Init ==
  /\ exporters \in SUBSET Pod
  /\ streams = {}
  /\ bound = [d \in Durable |-> {}]
  /\ desired = First
  /\ SchemaInit
  /\ pc = [p \in Pod |-> IF p = First THEN "migrating" ELSE "none"]
  /\ stage = [p \in Pod |-> 1]
  /\ pending = [p \in Pod |-> {}]
  /\ found = [p \in Pod |-> None]
  /\ missed = [p \in Pod |-> {}]
  /\ offline = {} /\ signalled = {}
  /\ faults = 0 /\ outages = 0 /\ handovers = 0 /\ graceKilled = {}

-----------------------------------------------------------------------------
(* An agent that is installed creates its stream when it starts.           *)
CreateStream(s) ==
  /\ s \in Enabled \ streams
  /\ streams' = streams \cup {s}
  /\ UNCHANGED <<bound, desired, pc, startVars, signalled, counters, history, schemaVars>>

-----------------------------------------------------------------------------
(* The init container.                                                     *)
Migrates(p) ==
  /\ pc[p] = "migrating"
  /\ UpSteps(p)
  /\ UNCHANGED <<streams, bound, desired, pc, startVars, signalled, counters, history>>

MigrationEnds(p) ==
  /\ pc[p] = "migrating"
  /\ \/ Migrated(p) /\ pc' = [pc EXCEPT ![p] = "connecting"]
     \/ ~Migrated(p) /\ Refused(p) /\ pc' = [pc EXCEPT ![p] = "unmigrated"]
  /\ Leaves(p)
  /\ UNCHANGED <<streams, bound, desired, startVars, signalled, counters, history>>

(* A file fails, ClickHouse goes away, or the container is killed.         *)
MigrationCut(p) ==
  /\ pc[p] = "migrating"
  /\ Inject /\ Leaves(p)
  /\ pc' = [pc EXCEPT ![p] = "unmigrated"]
  /\ UNCHANGED <<streams, bound, desired, startVars, signalled, history>>

(* The deployment removes a pod that is not ready at once.                 *)
MigrationRemoved(p) ==
  /\ pc[p] \in InInit /\ p # desired
  /\ signalled' = signalled \cup {p} /\ Leaves(p)
  /\ pc' = [pc EXCEPT ![p] = "gone"]
  /\ UNCHANGED <<streams, bound, desired, startVars, counters, history>>

-----------------------------------------------------------------------------
(* Start, up to the checks of NewNATSContext.                              *)

(* NewDBClient pings ClickHouse on both of its connections.                *)
ConnectDb(p) ==
  /\ pc[p] = "connecting"
  /\ pc' = [pc EXCEPT ![p] = "dialing"]
  /\ UNCHANGED <<streams, bound, desired, startVars, signalled, counters, history, schemaVars>>

(* nats.Connect, after a second of sleep.                                  *)
ConnectNats(p) ==
  /\ pc[p] = "dialing"
  /\ pc' = [pc EXCEPT ![p] = "checking"]
  /\ UNCHANGED <<streams, bound, desired, startVars, signalled, counters, history, schemaVars>>

ConnectFails(p) ==
  /\ pc[p] \in {"connecting", "dialing"}
  /\ Inject /\ End(p, "crashed")
  /\ UNCHANGED <<streams, desired, signalled, history, schemaVars>>

StreamFound(p) ==
  /\ pc[p] = "checking"
  /\ StreamOrder[stage[p]] \in streams /\ p \notin offline
  /\ pc' = [pc EXCEPT ![p] = "subscribing"]
  /\ pending' = [pending EXCEPT ![p] = Durables(StreamOrder[stage[p]])]
  /\ UNCHANGED <<streams, bound, desired, stage, found, missed, offline, signalled, counters, history, schemaVars>>

(* log.Fatal in Start, with the earlier subscriptions already delivering.  *)
(* A StreamInfo that gets no answer is a missing stream too.               *)
StreamMissing(p) ==
  /\ pc[p] = "checking"
  /\ StreamOrder[stage[p]] \notin streams \/ p \in offline
  /\ End(p, "crashed")
  /\ UNCHANGED <<streams, desired, signalled, counters, history, schemaVars>>

(* Subscribe asks for the consumer first, and fails if it is bound.        *)
LookUp(p) ==
  /\ pc[p] = "subscribing" /\ found[p] = None
  /\ \E d \in pending[p] :
       /\ pending' = [pending EXCEPT ![p] = @ \ {d}]
       /\ found' = [found EXCEPT ![p] = IF bound[d] = {} /\ p \notin offline THEN d ELSE None]
  /\ UNCHANGED <<streams, bound, desired, pc, stage, missed, offline, signalled, counters, history, schemaVars>>

(* Mutant: the loop does not advance.                                      *)
BindStuck(p) ==
  /\ found[p] # None
  /\ bound' = [bound EXCEPT ![found[p]] = @ \cup {p}]
  /\ UNCHANGED <<streams, desired, pc, stage, pending, found, missed, offline, signalled, counters, history, schemaVars>>

Bind(p) ==
  /\ found[p] # None
  /\ bound' = IF p \in offline THEN bound ELSE [bound EXCEPT ![found[p]] = @ \cup {p}]
  /\ found' = [found EXCEPT ![p] = None]
  /\ UNCHANGED <<streams, desired, pc, stage, pending, missed, offline, signalled, counters, history, schemaVars>>

(* Either request of Subscribe, for the consumer or to create it, gets no   *)
(* answer: it returns an error that nobody looks at, and leaves no         *)
(* subscription behind.                                                    *)
SubscribeFails(p) ==
  /\ pc[p] = "subscribing" /\ Outage
  /\ \E d \in IF found[p] = None THEN pending[p] ELSE {found[p]} :
       /\ pending' = [pending EXCEPT ![p] = @ \ {d}]
       /\ missed' = [missed EXCEPT ![p] = @ \cup {d}]
  /\ found' = [found EXCEPT ![p] = None]
  /\ UNCHANGED <<streams, bound, desired, pc, stage, offline, signalled, history, schemaVars>>

(* Mutants: the subscription loop ends early, and the list of streams has  *)
(* one more than NewNATSContext knows how to subscribe to.                 *)
NextStreamEarly(p) ==
  /\ pc[p] = "subscribing" /\ found[p] = None
  /\ stage[p] < 3
  /\ pc' = [pc EXCEPT ![p] = "checking"]
  /\ stage' = [stage EXCEPT ![p] = @ + 1]
  /\ UNCHANGED <<streams, bound, desired, pending, found, missed, offline, signalled, counters, history, schemaVars>>

NextStreamUnbounded(p) ==
  /\ pc[p] = "subscribing" /\ pending[p] = {} /\ found[p] = None
  /\ pc' = [pc EXCEPT ![p] = "checking"]
  /\ stage' = [stage EXCEPT ![p] = @ + 1]
  /\ UNCHANGED <<streams, bound, desired, pending, found, missed, offline, signalled, counters, history, schemaVars>>

NextStream(p) ==
  /\ pc[p] = "subscribing" /\ pending[p] = {} /\ found[p] = None
  /\ stage[p] < 3
  /\ pc' = [pc EXCEPT ![p] = "checking"]
  /\ stage' = [stage EXCEPT ![p] = @ + 1]
  /\ UNCHANGED <<streams, bound, desired, pending, found, missed, offline, signalled, counters, history, schemaVars>>

(* Mutant: the cron block is not under "if cfg.AwsEnable".                 *)
StartedAlwaysWaits(p) ==
  /\ pc[p] = "subscribing" /\ pending[p] = {} /\ found[p] = None
  /\ stage[p] = 3
  /\ pc' = [pc EXCEPT ![p] = "exporting"]
  /\ UNCHANGED <<streams, bound, desired, startVars, signalled, counters, history, schemaVars>>

(* The rest of Start: with AWS_ENABLE it blocks on a channel of its own.   *)
Started(p) ==
  /\ pc[p] = "subscribing" /\ pending[p] = {} /\ found[p] = None
  /\ stage[p] = 3
  /\ pc' = [pc EXCEPT ![p] = IF p \in exporters THEN "exporting" ELSE "serving"]
  /\ UNCHANGED <<streams, bound, desired, startVars, signalled, counters, history, schemaVars>>

-----------------------------------------------------------------------------
(* SIGTERM, sent once to a pod that is replaced: when the container of its *)
(* successor runs, or at once if its own does not.                         *)
Replaced(p) ==
  /\ p # desired /\ p \notin signalled
  /\ pc[desired] \in Running \/ pc[p] = "crashed"

(* main waits for it and closes.                                           *)
SignalServing(p) ==
  /\ Replaced(p) /\ pc[p] = "serving"
  /\ signalled' = signalled \cup {p}
  /\ pc' = [pc EXCEPT ![p] = "closing"]
  /\ UNCHANGED <<streams, bound, desired, startVars, counters, history, schemaVars>>

(* Start takes it from its own channel, stops the cron and returns; main   *)
(* then waits for another.                                                 *)
SignalExporting(p) ==
  /\ Replaced(p) /\ pc[p] = "exporting"
  /\ signalled' = signalled \cup {p}
  /\ pc' = [pc EXCEPT ![p] = "serving"]
  /\ UNCHANGED <<streams, bound, desired, startVars, counters, history, schemaVars>>

(* Nobody waits for signals yet: the default action ends the process.      *)
SignalStarting(p) ==
  /\ Replaced(p) /\ pc[p] \in Starting \cup {"crashed"}
  /\ signalled' = signalled \cup {p}
  /\ End(p, "gone")
  /\ UNCHANGED <<streams, desired, counters, history, schemaVars>>

CloseNats(p) ==
  /\ pc[p] = "closing"
  /\ End(p, "closed")
  /\ UNCHANGED <<streams, desired, signalled, counters, history, schemaVars>>

(* The database is closed, twice, and main sends its last traces and       *)
(* returns.  Sending them has no deadline: if the collector does not       *)
(* answer, the kubelet kills the pod here, which leaves it as Exit does.   *)
Exit(p) ==
  /\ pc[p] = "closed"
  /\ pc' = [pc EXCEPT ![p] = "gone"]
  /\ UNCHANGED <<streams, bound, desired, startVars, signalled, counters, history, schemaVars>>

(* SIGKILL at the end of the grace period.  Closing the connections takes  *)
(* no time beside it, so it meets a process with open connections only if  *)
(* that waits for a signal it will not get.                                *)
GraceKill(p) ==
  /\ p \in signalled /\ pc[p] = "serving"
  /\ graceKilled' = graceKilled \cup {p}
  /\ End(p, "gone")
  /\ UNCHANGED <<streams, desired, signalled, counters, handovers, exporters, schemaVars>>

-----------------------------------------------------------------------------
(* Faults, and the kubelet.                                                *)

(* log.Fatal or a panic in a handler, or an out-of-memory kill.            *)
Kill(p) ==
  /\ pc[p] \in Running
  /\ Inject
  /\ End(p, IF p \in signalled THEN "gone" ELSE "crashed")
  /\ UNCHANGED <<streams, desired, signalled, history, schemaVars>>

(* The init container runs again until it has succeeded once.              *)
Restart(p) ==
  /\ \/ pc[p] = "crashed" /\ pc' = [pc EXCEPT ![p] = "connecting"]
     \/ pc[p] = "unmigrated" /\ pc' = [pc EXCEPT ![p] = "migrating"]
  /\ UNCHANGED <<streams, bound, desired, startVars, signalled, counters, history, schemaVars>>

(* helm upgrade: the deployment creates a new pod.                         *)
Rollout(q) ==
  /\ pc[q] = "none"
  /\ Inject /\ handovers' = handovers + 1
  /\ desired' = q
  /\ pc' = [pc EXCEPT ![q] = "migrating"]
  /\ UNCHANGED <<streams, bound, startVars, signalled, graceKilled, exporters, schemaVars>>

(* The node is cut off: the deployment starts another pod elsewhere, and   *)
(* the server still holds the old connection until its pings time out.     *)
NodeLost(q) ==
  /\ pc[q] = "none" /\ pc[desired] \in Running
  /\ Inject /\ handovers' = handovers + 1
  /\ desired' = q
  /\ pc' = [pc EXCEPT ![q] = "migrating", ![desired] = "gone"]
  /\ pending' = [pending EXCEPT ![desired] = {}]
  /\ found' = [found EXCEPT ![desired] = None]
  /\ missed' = [missed EXCEPT ![desired] = {}]
  /\ offline' = offline \ {desired}
  /\ UNCHANGED <<streams, bound, stage, signalled, graceKilled, exporters, schemaVars>>

(* nats.go tries to reconnect sixty times, two seconds apart, and then     *)
(* closes the connection.  The client does not ask to be told, and goes on *)
(* without its subscriptions.                                              *)
GiveUp(p) ==
  /\ pc[p] \in {"checking", "subscribing"} \cup Up /\ p \notin offline
  /\ Outage
  /\ offline' = offline \cup {p}
  /\ bound' = [d \in Durable |-> bound[d] \ {p}]
  /\ UNCHANGED <<streams, desired, pc, stage, pending, found, missed, signalled, history, schemaVars>>

PingTimeout(p) ==
  /\ pc[p] = "gone" /\ \E d \in Durable : p \in bound[d]
  /\ bound' = [d \in Durable |-> bound[d] \ {p}]
  /\ UNCHANGED <<streams, desired, pc, startVars, signalled, counters, history, schemaVars>>

-----------------------------------------------------------------------------
Progress(p) ==
  \/ Migrates(p) \/ MigrationEnds(p) \/ ConnectDb(p) \/ ConnectNats(p) \/ StreamFound(p) \/ StreamMissing(p)
  \/ LookUp(p) \/ Bind(p) \/ NextStream(p) \/ Started(p)
  \/ CloseNats(p) \/ Exit(p) \/ GraceKill(p) \/ Restart(p) \/ PingTimeout(p)

Signal(p) == SignalServing(p) \/ SignalExporting(p) \/ SignalStarting(p) \/ MigrationRemoved(p)

Next ==
  \/ \E s \in Streams : CreateStream(s)
  \/ \E p \in Pod : \/ Progress(p) \/ Signal(p)
                    \/ MigrationCut(p) \/ ConnectFails(p) \/ SubscribeFails(p)
                    \/ Kill(p) \/ GiveUp(p) \/ Rollout(p) \/ NodeLost(p)

Spec == Init /\ [][Next]_vars

(* Agents that are installed start; processes run; the kubelet restarts    *)
(* crashed containers and replaces pods; the server times connections out. *)
Fairness ==
  /\ \A s \in Streams : WF_vars(CreateStream(s))
  /\ \A p \in Pod : WF_vars(Progress(p)) /\ WF_vars(Signal(p))

FairSpec == Spec /\ Fairness

-----------------------------------------------------------------------------
TypeOK ==
  /\ schema \in [at : 0..Migrations, dirty : BOOLEAN] /\ tables \subseteq 1..Migrations
  /\ job \in [Pod -> [at : 0..Migrations,
                      next : {"nothing", "mark", "create", "clear", "done"}]]
  /\ exporters \subseteq Pod
  /\ streams \subseteq Enabled
  /\ bound \in [Durable -> SUBSET Pod]
  /\ desired \in Pod
  /\ pc \in [Pod -> Phases]
  /\ stage \in [Pod -> 1..3]
  /\ pending \in [Pod -> SUBSET Durable]
  /\ found \in [Pod -> Durable \cup {None}] /\ missed \in [Pod -> SUBSET Durable]
  /\ offline \subseteq Pod /\ signalled \subseteq Pod
  /\ faults \in 0..MaxFaults /\ handovers \in 0..MaxFaults /\ outages \in 0..MaxOutages
  /\ graceKilled \subseteq Pod

(* As long as no pod has been replaced, a client that is up is subscribed  *)
(* to everything, however often it crashed and restarted on the way, but   *)
(* for the durables whose Subscribe got no answer in this very process,    *)
(* and until its connection is given up; what it misses it misses for      *)
(* good, for nothing ends the process (the deployment has no liveness      *)
(* probe).                                                                 *)
UpMeansSubscribed ==
  handovers = 0 =>
    \A p \in Pod : pc[p] \in Up /\ p \notin offline =>
      \A d \in Durable : bound[d] = IF d \in missed[p] THEN {} ELSE {p}

(* A pod stopped by SIGTERM while its main waits for signals closes its    *)
(* connections in the grace period.  Only the export of AWS_ENABLE, which  *)
(* takes the signal for itself, makes the kubelet kill the client with its *)
(* connections open.                                                       *)
ClosesInTime == graceKilled \subseteq exporters

(* A client connects only when every table is there, however the init      *)
(* containers of two pods run into each other and whatever cut them off.   *)
UpMeansMigrated ==
  \A p \in Pod : pc[p] \in Running => tables = 1..Migrations

(* Once all agents are installed the newest pod comes up for good, through *)
(* the crash loop, the rollouts and the lost nodes - unless a migration    *)
(* that was cut off, by a fault or a rollout, has left the version dirty.  *)
ComesUp == <>[](pc[desired] \in Up) \/ <>[](schema.dirty /\ faults > 0)

(* README.md: "Kubviz-client pod is in a CrashLoopBackOff state,           *)
(* installing the Kubviz-agent will bring it back up and running."         *)
AgentBringsClientUp == "METRICS" \in streams ~> pc[desired] \in Up

(* README.md: "The agent detects the changes in real time and send those   *)
(* events via NATS JetStream and the same is received in the KubViz        *)
(* client": somebody receives the events of every durable.                 *)
SomebodyReceives == <>[](\A d \in Durable : bound[d] # {})
=============================================================================
