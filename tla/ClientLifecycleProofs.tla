----------------------- MODULE ClientLifecycleProofs -----------------------
(***************************************************************************)
(* Proofs about ClientLifecycle, for every set of pods and durables, every *)
(* number of migrations, faults and connections given up.                  *)
(***************************************************************************)
EXTENDS ClientLifecycle, TLAPS

USE PodAssumption, EnabledAssumption, NoneAssumption, FaultAssumption, MigrationsAssumption,
    DurableAssumption

-----------------------------------------------------------------------------
(* The invariants.                                                         *)

(* The types, in the parts that actions change together.                   *)
SchemaOK ==
  /\ schema \in [at : 0..Migrations, dirty : BOOLEAN] /\ tables \subseteq 1..Migrations
  /\ job \in [Pod -> [at : 0..Migrations,
                      next : {"nothing", "mark", "create", "clear", "done"}]]
PlaceOK ==
  /\ exporters \subseteq Pod /\ signalled \subseteq Pod /\ graceKilled \subseteq Pod
  /\ streams \subseteq Enabled /\ desired \in Pod
  /\ pc \in [Pod -> Phases]
StartOK ==
  /\ bound \in [Durable -> SUBSET Pod]
  /\ stage \in [Pod -> 1..3] /\ pending \in [Pod -> SUBSET Durable]
  /\ found \in [Pod -> Durable \cup {None}] /\ offline \subseteq Pod
  /\ missed \in [Pod -> SUBSET Durable]
FaultsOK ==
  /\ faults \in 0..MaxFaults /\ outages \in 0..MaxOutages
  /\ handovers \in Nat /\ handovers <= faults

TypeInv == SchemaOK /\ PlaceOK /\ StartOK /\ FaultsOK

(* Files run in order, also when two pods run into each other: whoever is  *)
(* at a file, and whoever wrote the version, did so with the tables of all *)
(* files before it.                                                        *)
Built(k) == 1..k \subseteq tables
JobOK(p) ==
  /\ job[p].next = "nothing" => job[p] = Idle
  /\ job[p].next \in {"mark", "create"} => job[p].at > 0 /\ Built(job[p].at - 1)
  /\ job[p].next = "clear" => job[p].at > 0 /\ Built(job[p].at)
  /\ job[p].next = "done" => Built(Migrations)
SchemaInv ==
  /\ ~schema.dirty => Built(schema.at)
  /\ \A p \in Pod : JobOK(p)

(* A pod that crashed comes back without its init container.               *)
MigratedInv == \A p \in Pod : pc[p] \in Running \cup {"crashed"} => Built(Migrations)

(* A pod has its SIGTERM behind it, or took it in the export.              *)
SignalOK(p) ==
  /\ pc[p] = "exporting" => p \in exporters
  /\ p \in signalled => \/ pc[p] \in {"closing", "closed", "gone"}
                        \/ pc[p] = "serving" /\ p \in exporters
  /\ p \in graceKilled => p \in exporters
SignalInv == \A p \in Pod : SignalOK(p)

(* A pod only looks up and binds durables of the stream it is at, and one  *)
(* that is not connected starts over.                                      *)
StartPodOK(p) ==
  /\ found[p] # None => /\ pc[p] = "subscribing"
                        /\ found[p] \in Durables(StreamOrder[stage[p]]) \ pending[p]
  /\ pc[p] = "subscribing" => pending[p] \subseteq Durables(StreamOrder[stage[p]])
  /\ pc[p] \in {"none", "migrating", "unmigrated", "connecting", "dialing", "crashed"}
       => stage[p] = 1 /\ p \notin offline
StartInv == \A p \in Pod : StartPodOK(p)

(* As long as no pod has been replaced, the first is alone, and the server *)
(* delivers to it the durables it has got through, but for those it missed *)
(* on the way, and no other.                                               *)
Earlier(k) == UNION {Durables(StreamOrder[i]) : i \in 1..(k - 1)}
Subscribed(p) ==
  CASE pc[p] \in Up        -> Durable
    [] pc[p] = "checking"  -> Earlier(stage[p])
    [] pc[p] = "subscribing" ->
         Earlier(stage[p])
           \cup (Durables(StreamOrder[stage[p]]) \ (pending[p] \cup {found[p]}))
    [] OTHER -> {}
Alone ==
  /\ desired = First /\ \A p \in Pod \ {First} : pc[p] = "none"
  /\ missed[First] \subseteq Subscribed(First)
  /\ \A d \in Durable :
       bound[d] = IF First \in offline \/ d \in missed[First] \/ d \notin Subscribed(First)
                  THEN {} ELSE {First}
AloneInv == handovers = 0 => Alone
-----------------------------------------------------------------------------
(* Types.                                                                  *)

\* Every stream has durables of the client.
LEMMA DurablesType == \A i \in 1..3 : Durables(StreamOrder[i]) \subseteq Durable
<1> SUFFICES ASSUME NEW i \in 1..3 PROVE Durables(StreamOrder[i]) \subseteq Durable
  OBVIOUS
<1>1. StreamOrder[i] \in Streams
  BY DEF Streams
<1>2. QED
  BY <1>1, Zenon DEF Durable

LEMMA TypeInvImplies == TypeInv => TypeOK
BY DEF TypeInv, SchemaOK, PlaceOK, StartOK, FaultsOK, TypeOK

LEMMA InitType == Init => TypeInv
<1> SUFFICES ASSUME Init PROVE TypeInv
  OBVIOUS
<1>1. SchemaOK
  BY DEF Init, SchemaInit, Idle, SchemaOK
<1>2. PlaceOK
  BY DEF Init, PlaceOK, Phases, InInit
<1>3. StartOK /\ FaultsOK
  BY DEF Init, StartOK, FaultsOK
<1>4. QED
  BY <1>1, <1>2, <1>3 DEF TypeInv

(* The steps of the init containers: one pod is at a file, or leaves.      *)
SchemaStep == \E p \in Pod : Migrates(p) \/ Leaves(p)

\* The pods touch the schema only through the steps of the migration.
LEMMA NextSchema == [Next]_vars => SchemaStep \/ UNCHANGED schemaVars
<1> SUFFICES ASSUME [Next]_vars PROVE SchemaStep \/ UNCHANGED schemaVars
  OBVIOUS
<1>1. ASSUME NEW s \in Streams, CreateStream(s) PROVE UNCHANGED schemaVars
  BY <1>1 DEF CreateStream
<1>2. ASSUME NEW p \in Pod, Progress(p) PROVE Migrates(p) \/ Leaves(p) \/ UNCHANGED schemaVars
  BY <1>2, Zenon DEF Progress, MigrationEnds, ConnectDb, ConnectNats, StreamFound, StreamMissing,
     LookUp, Bind, NextStream, Started, CloseNats, Exit, GraceKill, Restart, PingTimeout
<1>3. ASSUME NEW p \in Pod, Signal(p) PROVE Leaves(p) \/ UNCHANGED schemaVars
  BY <1>3, Zenon DEF Signal, SignalServing, SignalExporting, SignalStarting, MigrationRemoved
<1>4. ASSUME NEW p \in Pod,
             \/ MigrationCut(p) \/ ConnectFails(p) \/ SubscribeFails(p)
             \/ Kill(p) \/ GiveUp(p) \/ Rollout(p) \/ NodeLost(p)
      PROVE Leaves(p) \/ UNCHANGED schemaVars
  BY <1>4, Zenon DEF MigrationCut, ConnectFails, SubscribeFails, Kill, GiveUp, Rollout, NodeLost
<1>5. QED
  BY <1>1, <1>2, <1>3, <1>4, Zenon DEF Next, vars, SchemaStep

(* A version is never above the number of files.                           *)
LEMMA SchemaType == SchemaOK /\ SchemaInv /\ [Next]_vars => SchemaOK'
<1> SUFFICES ASSUME SchemaOK, SchemaInv, SchemaStep PROVE SchemaOK'
  BY NextSchema DEF schemaVars, SchemaOK
<1>1. PICK p \in Pod : Migrates(p) \/ Leaves(p)
  BY DEF SchemaStep
<1> USE DEF SchemaOK
<1>2. CASE UpReads(p)
  BY <1>2 DEF UpReads
<1>3. CASE MarkDirty(p)
  BY <1>3 DEF MarkDirty, SetVersion, Goes
<1>4. CASE RunFile(p)
  <2>1. job[p].at \in 1..Migrations
    BY <1>4 DEF RunFile, SchemaInv, JobOK
  <2>2. tables' \subseteq 1..Migrations
    BY <1>4, <2>1 DEF RunFile
  <2>3. QED
    BY <1>4, <2>1, <2>2 DEF RunFile, Goes
<1>5. CASE MarkClean(p)
  <2>1. job[p].at \in 0..Migrations
    OBVIOUS
  <2>2. job[p].at # Migrations => job[p].at + 1 \in 0..Migrations
    BY <2>1
  <2>3. schema' \in [at : 0..Migrations, dirty : BOOLEAN]
    BY <1>5, <2>1 DEF MarkClean, SetVersion
  <2>4. CASE job[p].at = Migrations
    BY <1>5, <2>1, <2>3, <2>4 DEF MarkClean, Goes
  <2>5. CASE job[p].at # Migrations
    BY <1>5, <2>2, <2>3, <2>5 DEF MarkClean, Goes
  <2>6. QED
    BY <2>4, <2>5
<1>6. CASE Leaves(p)
  BY <1>6 DEF Leaves, Idle
<1>7. QED
  BY <1>1, <1>2, <1>3, <1>4, <1>5, <1>6 DEF Migrates, UpSteps

LEMMA PlaceType == PlaceOK /\ [Next]_vars => PlaceOK'
<1> SUFFICES ASSUME PlaceOK, [Next]_vars PROVE PlaceOK'
  OBVIOUS
<1> USE DEF PlaceOK, startVars, counters, history, Phases, Running, Starting, Up, InInit
<1>1. ASSUME NEW s \in Streams, CreateStream(s) PROVE PlaceOK'
  BY <1>1 DEF CreateStream
<1>2. ASSUME NEW p \in Pod, Progress(p) PROVE PlaceOK'
  <2>1. CASE Migrates(p) \/ MigrationEnds(p)
    BY <2>1 DEF Migrates, MigrationEnds
  <2>2. CASE ConnectDb(p) \/ ConnectNats(p) \/ StreamFound(p) \/ StreamMissing(p)
    BY <2>2 DEF ConnectDb, ConnectNats, StreamFound, StreamMissing, End
  <2>3. CASE LookUp(p) \/ Bind(p) \/ NextStream(p) \/ Started(p)
    BY <2>3 DEF LookUp, Bind, NextStream, Started
  <2>4. CASE CloseNats(p) \/ Exit(p) \/ GraceKill(p)
    BY <2>4 DEF CloseNats, Exit, GraceKill, End
  <2>5. CASE Restart(p) \/ PingTimeout(p)
    BY <2>5 DEF Restart, PingTimeout
  <2>6. QED
    BY <1>2, <2>1, <2>2, <2>3, <2>4, <2>5 DEF Progress
<1>3. ASSUME NEW p \in Pod, Signal(p) PROVE PlaceOK'
  BY <1>3 DEF Signal, SignalServing, SignalExporting, SignalStarting, MigrationRemoved, End
<1>4. ASSUME NEW p \in Pod,
             MigrationCut(p) \/ ConnectFails(p) \/ SubscribeFails(p) \/ Kill(p) \/ GiveUp(p)
      PROVE  PlaceOK'
  BY <1>4 DEF MigrationCut, ConnectFails, SubscribeFails, Kill, GiveUp, End, Inject
<1>5. ASSUME NEW p \in Pod, Rollout(p) \/ NodeLost(p) PROVE PlaceOK'
  BY <1>5 DEF Rollout, NodeLost, Inject
<1>6. CASE UNCHANGED vars
  BY <1>6 DEF vars
<1>7. QED
  BY <1>1, <1>2, <1>3, <1>4, <1>5, <1>6 DEF Next

LEMMA StartType == StartOK /\ [Next]_vars => StartOK'
<1> SUFFICES ASSUME StartOK, [Next]_vars PROVE StartOK'
  OBVIOUS
<1> USE DEF StartOK, startVars, counters, history
<1>1. ASSUME NEW p \in Pod, NEW where, End(p, where) PROVE StartOK'
  BY <1>1 DEF End
<1>2. ASSUME NEW s \in Streams, CreateStream(s) PROVE StartOK'
  BY <1>2 DEF CreateStream
<1>3. ASSUME NEW p \in Pod, Progress(p) PROVE StartOK'
  <2>1. CASE \/ Migrates(p) \/ MigrationEnds(p) \/ ConnectDb(p) \/ ConnectNats(p)
             \/ Started(p) \/ Exit(p) \/ Restart(p)
    BY <2>1 DEF Migrates, MigrationEnds, ConnectDb, ConnectNats, Started, Exit, Restart
  <2>2. CASE StreamMissing(p) \/ CloseNats(p) \/ GraceKill(p)
    BY <2>2, <1>1 DEF StreamMissing, CloseNats, GraceKill
  <2>3. CASE StreamFound(p)
    <3>1. Durables(StreamOrder[stage[p]]) \subseteq Durable
      BY DurablesType
    <3>2. QED
      BY <2>3, <3>1 DEF StreamFound
  <2>4. CASE LookUp(p)
    BY <2>4 DEF LookUp
  <2>5. CASE Bind(p)
    BY <2>5 DEF Bind
  <2>6. CASE NextStream(p)
    BY <2>6 DEF NextStream
  <2>7. CASE PingTimeout(p)
    BY <2>7 DEF PingTimeout
  <2>8. QED
    BY <1>3, <2>1, <2>2, <2>3, <2>4, <2>5, <2>6, <2>7 DEF Progress
<1>4. ASSUME NEW p \in Pod, Signal(p) PROVE StartOK'
  BY <1>4, <1>1 DEF Signal, SignalServing, SignalExporting, SignalStarting, MigrationRemoved
<1>5. ASSUME NEW p \in Pod, MigrationCut(p) \/ Rollout(p) PROVE StartOK'
  BY <1>5 DEF MigrationCut, Rollout
<1>6. ASSUME NEW p \in Pod, ConnectFails(p) \/ Kill(p) PROVE StartOK'
  BY <1>6, <1>1 DEF ConnectFails, Kill
<1>7. ASSUME NEW p \in Pod, GiveUp(p) \/ NodeLost(p) PROVE StartOK'
  BY <1>7 DEF GiveUp, NodeLost
<1>8. ASSUME NEW p \in Pod, SubscribeFails(p) PROVE StartOK'
  <2>1. PICK d \in IF found[p] = None THEN pending[p] ELSE {found[p]} :
          /\ pending' = [pending EXCEPT ![p] = @ \ {d}]
          /\ missed' = [missed EXCEPT ![p] = @ \cup {d}]
    BY <1>8 DEF SubscribeFails
  <2>2. d \in Durable
    BY <2>1
  <2>3. QED
    BY <1>8, <2>1, <2>2 DEF SubscribeFails
<1>9. CASE UNCHANGED vars
  BY <1>9 DEF vars
<1>10. QED
  BY <1>2, <1>3, <1>4, <1>5, <1>6, <1>7, <1>8, <1>9 DEF Next

LEMMA FaultsType == FaultsOK /\ [Next]_vars => FaultsOK' /\ handovers <= handovers'
<1> SUFFICES ASSUME FaultsOK, [Next]_vars PROVE FaultsOK' /\ handovers <= handovers'
  OBVIOUS
<1> USE DEF FaultsOK, counters, history
<1>1. ASSUME NEW s \in Streams, CreateStream(s) PROVE FaultsOK' /\ handovers <= handovers'
  BY <1>1 DEF CreateStream
<1>2. ASSUME NEW p \in Pod, Progress(p) PROVE UNCHANGED <<faults, outages, handovers>>
  BY <1>2, Zenon DEF Progress, Migrates, MigrationEnds, ConnectDb, ConnectNats, StreamFound,
     StreamMissing, LookUp, Bind, NextStream, Started, CloseNats, Exit, GraceKill, Restart,
     PingTimeout
<1>3. ASSUME NEW p \in Pod, Signal(p) PROVE UNCHANGED <<faults, outages, handovers>>
  BY <1>3, Zenon DEF Signal, SignalServing, SignalExporting, SignalStarting, MigrationRemoved
<1>4. ASSUME NEW p \in Pod, MigrationCut(p) \/ ConnectFails(p) \/ Kill(p) PROVE FaultsOK' /\ handovers <= handovers'
  BY <1>4 DEF MigrationCut, ConnectFails, Kill, Inject
<1>5. ASSUME NEW p \in Pod, SubscribeFails(p) \/ GiveUp(p) \/ Rollout(p) \/ NodeLost(p)
      PROVE  FaultsOK' /\ handovers <= handovers'
  BY <1>5 DEF SubscribeFails, GiveUp, Rollout, NodeLost, Inject, Outage
<1>6. CASE UNCHANGED vars
  BY <1>6 DEF vars
<1>7. QED
  BY <1>1, <1>2, <1>3, <1>4, <1>5, <1>6 DEF Next

LEMMA NextType == TypeInv /\ SchemaInv /\ [Next]_vars => TypeInv'
BY SchemaType, PlaceType, StartType, FaultsType DEF TypeInv
-----------------------------------------------------------------------------
(* The schema: tables only grow, and a file is reached with all before it. *)

LEMMA InitInv == Init => SchemaInv /\ MigratedInv /\ SignalInv /\ StartInv /\ AloneInv
<1> SUFFICES ASSUME Init PROVE SchemaInv /\ MigratedInv /\ SignalInv /\ StartInv /\ AloneInv
  OBVIOUS
<1> USE DEF Init, Running, Starting, Up
<1>1. SchemaInv
  BY DEF SchemaInit, SchemaInv, JobOK, Idle, Built
<1>2. MigratedInv
  BY DEF MigratedInv
<1>3. SignalInv
  BY DEF SignalInv, SignalOK
<1>4. StartInv
  BY DEF StartInv, StartPodOK
<1>5. AloneInv
  BY DEF AloneInv, Alone, Subscribed
<1>6. QED
  BY <1>1, <1>2, <1>3, <1>4, <1>5

\* No step of a migration takes a table away.
LEMMA TablesGrow == SchemaStep => tables \subseteq tables'
BY DEF SchemaStep, Migrates, UpSteps, UpReads, MarkDirty, RunFile, MarkClean, Leaves

LEMMA NextSchemaInv == SchemaOK /\ SchemaInv /\ [Next]_vars => SchemaInv'
<1> SUFFICES ASSUME SchemaOK, SchemaInv, SchemaStep PROVE SchemaInv'
  BY NextSchema DEF schemaVars, SchemaInv, JobOK, Built
<1>1. PICK p \in Pod : Migrates(p) \/ Leaves(p)
  BY DEF SchemaStep
<1> USE DEF SchemaOK
<1>2. \A k : Built(k) => Built(k)'
  BY TablesGrow DEF Built
<1>3. ASSUME JobOK(p)', \A q \in Pod \ {p} : job'[q] = job[q] PROVE \A q \in Pod : JobOK(q)'
  BY <1>3, <1>2 DEF SchemaInv, JobOK
<1>4. CASE UpReads(p)
  <2>1. JobOK(p)'
    BY <1>4, <1>2 DEF UpReads, SchemaInv, JobOK
  <2>2. QED
    BY <1>3, <1>4, <2>1, <1>2 DEF UpReads, SchemaInv
<1>5. CASE MarkDirty(p)
  <2>1. JobOK(p)'
    BY <1>5, <1>2 DEF MarkDirty, SetVersion, Goes, SchemaInv, JobOK
  <2>2. QED
    BY <1>3, <1>5, <2>1 DEF MarkDirty, SetVersion, Goes, SchemaInv
<1>6. CASE RunFile(p)
  <2>1. job[p].at > 0 /\ Built(job[p].at - 1) /\ job[p].at \in Nat
    BY <1>6 DEF RunFile, SchemaInv, JobOK
  <2>2. Built(job[p].at)'
    BY <1>6, <2>1 DEF RunFile, Goes, Built
  <2>3. JobOK(p)'
    BY <1>6, <2>1, <2>2 DEF RunFile, Goes, JobOK, Built
  <2>4. QED
    BY <1>3, <1>6, <2>3, <1>2 DEF RunFile, Goes, SchemaInv
<1>7. CASE MarkClean(p)
  <2>1. PICK k \in Nat \ {0} : k = job[p].at
    BY <1>7 DEF MarkClean, SchemaInv, JobOK
  <2>2. Built(k)'
    BY <1>7, <2>1, <1>2 DEF MarkClean, SchemaInv, JobOK
  <2>3. JobOK(p)'
    BY <1>7, <2>1, <2>2 DEF MarkClean, Goes, JobOK
  <2>4. (\A q \in Pod \ {p} : job'[q] = job[q]) /\ schema'.at = k
    BY <1>7, <2>1 DEF MarkClean, SetVersion, Goes
  <2>5. QED
    BY <1>3, <2>2, <2>3, <2>4 DEF SchemaInv, Built
<1>8. CASE Leaves(p)
  <2>1. JobOK(p)'
    BY <1>8 DEF Leaves, JobOK, Idle
  <2>2. QED
    BY <1>3, <1>8, <2>1, <1>2 DEF Leaves, SchemaInv
<1>9. QED
  BY <1>1, <1>4, <1>5, <1>6, <1>7, <1>8 DEF Migrates, UpSteps

LEMMA NextMigrated == TypeInv /\ SchemaInv /\ MigratedInv /\ [Next]_vars => MigratedInv'
<1> SUFFICES ASSUME TypeInv, SchemaInv, MigratedInv, [Next]_vars,
                    NEW q \in Pod, pc'[q] \in Running \cup {"crashed"}
             PROVE  Built(Migrations)'
  BY DEF MigratedInv
<1> USE DEF startVars, counters, history, Running, Starting, Up
<1>1. tables \subseteq tables'
  BY NextSchema, TablesGrow DEF schemaVars
<1>2. CASE pc[q] \in Running \cup {"crashed"}
  BY <1>1, <1>2 DEF MigratedInv, Built
<1>3. CASE pc[q] \notin Running \cup {"crashed"}
  <2>1. PICK p \in Pod : MigrationEnds(p) /\ Migrated(p)
    <3>1. ASSUME NEW s \in Streams, CreateStream(s) PROVE FALSE
      BY <3>1, <1>3 DEF CreateStream
    <3>2. ASSUME NEW p \in Pod, Progress(p) PROVE MigrationEnds(p) /\ Migrated(p)
      <4>1. CASE Migrates(p) \/ ConnectDb(p) \/ ConnectNats(p) \/ StreamFound(p) \/ StreamMissing(p)
        BY <4>1, <1>3 DEF Migrates, ConnectDb, ConnectNats, StreamFound, StreamMissing, End,
           TypeInv, PlaceOK
      <4>2. CASE LookUp(p) \/ Bind(p) \/ NextStream(p) \/ Started(p)
        BY <4>2, <1>3 DEF LookUp, Bind, NextStream, Started, TypeInv, PlaceOK
      <4>3. CASE CloseNats(p) \/ Exit(p) \/ GraceKill(p) \/ Restart(p) \/ PingTimeout(p)
        BY <4>3, <1>3 DEF CloseNats, Exit, GraceKill, Restart, PingTimeout, End, TypeInv, PlaceOK
      <4>4. CASE MigrationEnds(p)
        BY <4>4, <1>3 DEF MigrationEnds, TypeInv, PlaceOK
      <4>5. QED
        BY <3>2, <4>1, <4>2, <4>3, <4>4 DEF Progress
    <3>3. ASSUME NEW p \in Pod, Signal(p) PROVE FALSE
      BY <3>3, <1>3 DEF Signal, SignalServing, SignalExporting, SignalStarting,
         MigrationRemoved, End, TypeInv, PlaceOK
    <3>4. ASSUME NEW p \in Pod,
                 MigrationCut(p) \/ ConnectFails(p) \/ SubscribeFails(p) \/ Kill(p) \/ GiveUp(p)
          PROVE FALSE
      BY <3>4, <1>3 DEF MigrationCut, ConnectFails, SubscribeFails, Kill, GiveUp, End, TypeInv,
         PlaceOK
    <3>5. ASSUME NEW p \in Pod, Rollout(p) \/ NodeLost(p) PROVE FALSE
      BY <3>5, <1>3 DEF Rollout, NodeLost, TypeInv, PlaceOK
    <3>6. CASE UNCHANGED vars
      BY <3>6, <1>3 DEF vars
    <3>7. QED
      BY <3>1, <3>2, <3>3, <3>4, <3>5, <3>6 DEF Next
  <2>2. Built(Migrations)
    BY <2>1 DEF Migrated, SchemaInv, JobOK, Idle
  <2>3. QED
    BY <1>1, <2>2 DEF Built
<1>4. QED
  BY <1>2, <1>3
-----------------------------------------------------------------------------
(* The signal.                                                             *)
LEMMA NextSignal == PlaceOK /\ SignalInv /\ [Next]_vars => SignalInv'
<1> SUFFICES ASSUME PlaceOK, SignalInv, [Next]_vars, NEW q \in Pod PROVE SignalOK(q)'
  BY DEF SignalInv
<1> USE DEF startVars, counters, history, Running, Starting, Up, PlaceOK, SignalInv, SignalOK
<1>1. ASSUME NEW s \in Streams, CreateStream(s) PROVE SignalOK(q)'
  BY <1>1 DEF CreateStream
<1>2. ASSUME NEW p \in Pod, Progress(p) PROVE SignalOK(q)'
  <2>1. CASE Migrates(p) \/ MigrationEnds(p)
    BY <2>1 DEF Migrates, MigrationEnds
  <2>2. CASE ConnectDb(p) \/ ConnectNats(p) \/ StreamFound(p) \/ StreamMissing(p)
    BY <2>2 DEF ConnectDb, ConnectNats, StreamFound, StreamMissing, End
  <2>3. CASE LookUp(p) \/ Bind(p) \/ NextStream(p) \/ Started(p)
    BY <2>3 DEF LookUp, Bind, NextStream, Started
  <2>4. CASE CloseNats(p) \/ Exit(p)
    BY <2>4 DEF CloseNats, Exit, End
  <2>5. CASE GraceKill(p)
    BY <2>5 DEF GraceKill, End
  <2>6. CASE Restart(p) \/ PingTimeout(p)
    BY <2>6 DEF Restart, PingTimeout
  <2>7. QED
    BY <1>2, <2>1, <2>2, <2>3, <2>4, <2>5, <2>6 DEF Progress
<1>3. ASSUME NEW p \in Pod, Signal(p) PROVE SignalOK(q)'
  <2>1. CASE SignalServing(p) \/ SignalExporting(p)
    BY <2>1 DEF SignalServing, SignalExporting, Replaced
  <2>2. CASE SignalStarting(p) \/ MigrationRemoved(p)
    BY <2>2 DEF SignalStarting, MigrationRemoved, Replaced, End
  <2>3. QED
    BY <1>3, <2>1, <2>2 DEF Signal
<1>4. ASSUME NEW p \in Pod, MigrationCut(p) \/ ConnectFails(p) \/ SubscribeFails(p) \/ GiveUp(p)
      PROVE  SignalOK(q)'
  BY <1>4 DEF MigrationCut, ConnectFails, SubscribeFails, GiveUp, End
<1>5. ASSUME NEW p \in Pod, Kill(p) PROVE SignalOK(q)'
  BY <1>5 DEF Kill, End
<1>6. ASSUME NEW p \in Pod, Rollout(p) \/ NodeLost(p) PROVE SignalOK(q)'
  BY <1>6 DEF Rollout, NodeLost
<1>7. CASE UNCHANGED vars
  BY <1>7 DEF vars
<1>8. QED
  BY <1>1, <1>2, <1>3, <1>4, <1>5, <1>6, <1>7 DEF Next
-----------------------------------------------------------------------------
(* The start, of one pod beside the others.                                *)
LEMMA NextStart == PlaceOK /\ StartOK /\ StartInv /\ [Next]_vars => StartInv'
<1> SUFFICES ASSUME PlaceOK, StartOK, StartInv, [Next]_vars, NEW q \in Pod PROVE StartPodOK(q)'
  BY DEF StartInv
<1>1. \A p \in Pod : StartPodOK(p)
  BY DEF StartInv
<1> USE DEF startVars, counters, history, Running, Starting, Up, StartPodOK
<1>2. /\ pc \in [Pod -> Phases] /\ desired \in Pod
      /\ stage \in [Pod -> 1..3] /\ pending \in [Pod -> SUBSET Durable]
      /\ found \in [Pod -> Durable \cup {None}]
  BY DEF PlaceOK, StartOK
<1>3. ASSUME NEW p \in Pod, NEW where \in {"crashed", "closed", "gone"}, End(p, where)
      PROVE  StartPodOK(q)'
  BY <1>3, <1>1, <1>2 DEF End
<1>4. ASSUME NEW s \in Streams, CreateStream(s) PROVE StartPodOK(q)'
  BY <1>4, <1>1 DEF CreateStream
<1>5. ASSUME NEW p \in Pod, Progress(p) PROVE StartPodOK(q)'
  <2>1. CASE Migrates(p) \/ MigrationEnds(p) \/ ConnectDb(p) \/ ConnectNats(p)
    BY <2>1, <1>1, <1>2 DEF Migrates, MigrationEnds, ConnectDb, ConnectNats
  <2>2. CASE StreamMissing(p) \/ CloseNats(p) \/ GraceKill(p)
    BY <2>2, <1>3 DEF StreamMissing, CloseNats, GraceKill
  <2>3. CASE StreamFound(p)
    BY <2>3, <1>1, <1>2 DEF StreamFound
  <2>4. CASE LookUp(p)
    BY <2>4, <1>1, <1>2 DEF LookUp
  <2>5. CASE Bind(p)
    BY <2>5, <1>1, <1>2 DEF Bind
  <2>6. CASE NextStream(p) \/ Started(p)
    BY <2>6, <1>1, <1>2 DEF NextStream, Started
  <2>7. CASE Exit(p) \/ Restart(p) \/ PingTimeout(p)
    BY <2>7, <1>1, <1>2 DEF Exit, Restart, PingTimeout
  <2>8. QED
    BY <1>5, <2>1, <2>2, <2>3, <2>4, <2>5, <2>6, <2>7 DEF Progress
<1>6. ASSUME NEW p \in Pod, Signal(p) PROVE StartPodOK(q)'
  <2>1. CASE SignalStarting(p)
    BY <2>1, <1>3 DEF SignalStarting
  <2>2. CASE SignalServing(p) \/ SignalExporting(p) \/ MigrationRemoved(p)
    BY <2>2, <1>1, <1>2 DEF SignalServing, SignalExporting, MigrationRemoved, InInit
  <2>3. QED
    BY <1>6, <2>1, <2>2 DEF Signal
<1>7. ASSUME NEW p \in Pod, ConnectFails(p) \/ Kill(p) PROVE StartPodOK(q)'
  BY <1>7, <1>3 DEF ConnectFails, Kill
<1>8. ASSUME NEW p \in Pod, MigrationCut(p) \/ Rollout(p) \/ GiveUp(p) PROVE StartPodOK(q)'
  BY <1>8, <1>1, <1>2 DEF MigrationCut, Rollout, GiveUp
<1>9. ASSUME NEW p \in Pod, NodeLost(p) PROVE StartPodOK(q)'
  BY <1>9, <1>1, <1>2 DEF NodeLost
<1>10. ASSUME NEW p \in Pod, SubscribeFails(p) PROVE StartPodOK(q)'
  BY <1>10, <1>1, <1>2 DEF SubscribeFails
<1>11. CASE UNCHANGED vars
  BY <1>11, <1>1 DEF vars
<1>12. QED
  BY <1>4, <1>5, <1>6, <1>7, <1>8, <1>9, <1>10, <1>11 DEF Next
-----------------------------------------------------------------------------
(* The first pod, as long as it is alone.                                  *)

\* The durables of the streams that were looked up before stage k.
LEMMA EarlierStages ==
  /\ Earlier(1) = {}
  /\ \A k \in 1..3 : Earlier(k + 1) = Earlier(k) \cup Durables(StreamOrder[k])
  /\ Durable = Earlier(4)
<1>1. Earlier(1) = {}
  BY DEF Earlier
<1>2. ASSUME NEW k \in 1..3
      PROVE  Earlier(k + 1) = Earlier(k) \cup Durables(StreamOrder[k])
  <2>1. 1..((k + 1) - 1) = 1..(k - 1) \cup {k}
    OBVIOUS
  <2>2. QED
    BY <2>1, Zenon DEF Earlier
<1>3. Durable = Earlier(4)
  <2>1. 1..(4 - 1) = 1..3
    OBVIOUS
  <2>2. QED
    BY <2>1, Zenon DEF Earlier, Durable, Streams
<1>4. QED
  BY <1>1, <1>2, <1>3

\* A durable belongs to one stream, so none is met at two stages.
LEMMA EarlierDiffer == \A k \in 1..3 : Earlier(k) \cap Durables(StreamOrder[k]) = {}
<1>1. \A i, k \in 1..3 : i < k => Durables(StreamOrder[i]) \cap Durables(StreamOrder[k]) = {}
  <2>1. /\ Durables(StreamOrder[1]) = {"Git-Consumer"}
        /\ Durables(StreamOrder[2]) = {"CONTAINER_EVENT_CONSUMER"}
        /\ Durables(StreamOrder[3]) = KubvizDurable
    BY DEF StreamOrder, Durables
  <2>2. \A i, k \in 1..3 : i < k => <<i, k>> \in {<<1, 2>>, <<1, 3>>, <<2, 3>>}
    OBVIOUS
  <2>3. QED
    BY <2>1, <2>2
<1>2. ASSUME NEW k \in 1..3, NEW d \in Earlier(k) PROVE d \notin Durables(StreamOrder[k])
  <2>1. PICK i \in 1..(k - 1) : d \in Durables(StreamOrder[i])
    BY <1>2 DEF Earlier
  <2>2. i \in 1..3 /\ i < k
    BY <2>1
  <2>3. QED
    BY <1>1, <2>1, <2>2
<1>3. QED
  BY <1>2

(* The subscriptions stay, or all of them end.                             *)
LEMMA SubscriptionsStay ==
  ASSUME Alone, UNCHANGED <<desired, bound, missed, offline>>,
         \A p \in Pod \ {First} : pc'[p] = "none",
         Subscribed(First)' = Subscribed(First)
  PROVE  Alone'
BY DEF Alone

\* A pod that is gone is bound to nothing; the first may be alone again.
LEMMA SubscriptionsEnd ==
  ASSUME Alone, UNCHANGED desired,
         \A p \in Pod \ {First} : pc'[p] = "none",
         bound' = [d \in Durable |-> bound[d] \ {First}],
         missed'[First] \subseteq Subscribed(First)',
         First \in offline' \/ Subscribed(First)' = {}
  PROVE  Alone'
BY DEF Alone

LEMMA NextAlone ==
  ASSUME PlaceOK, StartOK, FaultsOK, StartInv, AloneInv, [Next]_vars
  PROVE  AloneInv'
<1> SUFFICES ASSUME handovers' = 0 PROVE Alone'
  BY DEF AloneInv
<1> USE DEF startVars, counters, history, Running, Starting, Up
<1>1. handovers = 0 /\ Alone
  BY FaultsType DEF FaultsOK, AloneInv
<1>2. /\ pc \in [Pod -> Phases] /\ pc[First] \in Phases
      /\ \A p \in Pod : p # First => pc[p] = "none" /\ found[p] = None
      /\ desired = First
  BY <1>1 DEF PlaceOK, Alone, StartInv, StartPodOK
<1>3. /\ stage \in [Pod -> 1..3] /\ pending \in [Pod -> SUBSET Durable]
      /\ found \in [Pod -> Durable \cup {None}] /\ missed \in [Pod -> SUBSET Durable]
  BY DEF StartOK
<1>4. ASSUME NEW s \in Streams, CreateStream(s) PROVE Alone'
  BY <1>1, <1>4 DEF CreateStream, Alone, Subscribed
<1>5. ASSUME NEW p \in Pod, Progress(p) PROVE Alone'
  <2>0. CASE p # First
    <3>1. PingTimeout(p) => FALSE
      BY <2>0, <1>2 DEF PingTimeout
    <3>2. QED
      BY <1>5, <2>0, <3>1, <1>2 DEF Progress, Migrates, MigrationEnds, ConnectDb, ConnectNats,
         StreamFound, StreamMissing, LookUp, Bind, NextStream, Started, CloseNats, Exit,
         GraceKill, Restart
  <2> SUFFICES ASSUME p = First PROVE Alone'
    BY <2>0
  <2>1. ASSUME NEW where \in {"crashed", "closed", "gone"}, End(First, where), desired' = desired
        PROVE  Alone'
    <3>1. /\ \A q \in Pod \ {First} : pc'[q] = "none"
          /\ bound' = [d \in Durable |-> bound[d] \ {First}]
          /\ pc'[First] = where /\ missed'[First] = {}
      BY <2>1, <1>2, <1>3 DEF End
    <3>2. Subscribed(First)' = {}
      BY <3>1 DEF Subscribed
    <3>3. QED
      BY <3>1, <3>2, <2>1, <1>1, SubscriptionsEnd
  <2>2. CASE Migrates(p) \/ MigrationEnds(p)
    <3>1. Subscribed(First)' = Subscribed(First)
      BY <2>2, <1>2 DEF Migrates, MigrationEnds, Subscribed
    <3>2. QED
      BY <2>2, <3>1, <1>1, <1>2, SubscriptionsStay DEF Migrates, MigrationEnds
  <2>3. CASE ConnectDb(p) \/ ConnectNats(p)
    <3>1. pc[First] = "dialing" => stage[First] = 1
      BY DEF StartInv, StartPodOK
    <3>2. Subscribed(First)' = Subscribed(First)
      BY <2>3, <3>1, <1>2, EarlierStages DEF ConnectDb, ConnectNats, Subscribed
    <3>3. QED
      BY <2>3, <3>2, <1>1, <1>2, SubscriptionsStay DEF ConnectDb, ConnectNats
  <2>4. CASE StreamFound(p)
    <3>1. /\ pc[First] = "checking" /\ pc'[First] = "subscribing"
          /\ pending'[First] = Durables(StreamOrder[stage[First]])
          /\ found'[First] = None /\ stage' = stage
      BY <2>4, <1>2, <1>3 DEF StreamFound, StartInv, StartPodOK
    <3>2. Subscribed(First)' = Subscribed(First)
      BY <3>1 DEF Subscribed, Earlier
    <3>3. QED
      BY <2>4, <3>2, <1>1, <1>2, SubscriptionsStay DEF StreamFound
  <2>5. CASE StreamMissing(p) \/ CloseNats(p) \/ GraceKill(p)
    BY <2>1, <2>5 DEF StreamMissing, CloseNats, GraceKill
  <2>6. CASE LookUp(p)
    <3>1. PICK d \in pending[First] :
            /\ pending'[First] = pending[First] \ {d}
            /\ found'[First] = IF bound[d] = {} /\ First \notin offline THEN d ELSE None
      BY <2>6, <1>3 DEF LookUp
    <3>2. /\ pc[First] = "subscribing" /\ pc' = pc /\ found[First] = None /\ stage' = stage
          /\ d \in Durable /\ d # None
      BY <2>6, <1>3, <3>1 DEF LookUp
    <3>3. UNCHANGED <<desired, bound, missed, offline>>
      BY <2>6 DEF LookUp
    <3>4. /\ Subscribed(First) =
               Earlier(stage[First])
                 \cup (Durables(StreamOrder[stage[First]]) \ (pending[First] \cup {None}))
          /\ Subscribed(First)' =
               Earlier(stage[First])
                 \cup (Durables(StreamOrder[stage[First]]) \ (pending'[First] \cup {found'[First]}))
      BY <3>2 DEF Subscribed, Earlier
    <3>5. None \notin Durables(StreamOrder[stage[First]])
      BY <1>3, DurablesType
    <3>6. Subscribed(First)' =
            IF found'[First] = d THEN Subscribed(First) ELSE Subscribed(First) \cup {d}
      <4>1. d \in Durables(StreamOrder[stage[First]])
        BY <3>1, <3>2 DEF StartInv, StartPodOK
      <4>2. CASE found'[First] = d
        BY <3>1, <3>4, <3>5, <4>2
      <4>3. CASE found'[First] = None
        BY <3>1, <3>2, <3>4, <3>5, <4>1, <4>3
      <4>4. QED
        BY <3>1, <4>2, <4>3
    <3>7. CASE found'[First] = d \/ d \in Subscribed(First)
      <4>1. Subscribed(First)' = Subscribed(First)
        BY <3>6, <3>7
      <4>2. QED
        BY <3>2, <3>3, <4>1, <1>1, <1>2, SubscriptionsStay
    <3>8. CASE First \in offline
      BY <3>2, <3>3, <3>6, <3>8, <1>1, <1>2 DEF Alone
    <3>9. QED
      <4>1. bound[d] # {} => d \in Subscribed(First)
        BY <3>2, <1>1 DEF Alone
      <4>2. QED
        BY <3>1, <3>7, <3>8, <4>1
  <2>7. CASE Bind(p)
    <3>1. PICK d \in Durable : d = found[First]
      BY <2>7, <1>3 DEF Bind
    <3>2. /\ pc[First] = "subscribing" /\ d \in Durables(StreamOrder[stage[First]])
          /\ d \notin pending[First] /\ d # None
      BY <2>7, <3>1 DEF Bind, StartInv, StartPodOK
    <3>3. /\ pc' = pc /\ found'[First] = None
          /\ desired' = desired /\ offline' = offline
          /\ UNCHANGED <<stage, pending, missed>>
      BY <2>7, <1>3 DEF Bind
    <3>4. Subscribed(First)' = Subscribed(First) \cup {d}
      <4>1. /\ Subscribed(First) =
                 Earlier(stage[First])
                   \cup (Durables(StreamOrder[stage[First]]) \ (pending[First] \cup {d}))
            /\ Subscribed(First)' =
                 Earlier(stage[First])
                   \cup (Durables(StreamOrder[stage[First]]) \ (pending[First] \cup {None}))
        BY <3>1, <3>2, <3>3 DEF Subscribed, Earlier
      <4>2. None \notin Durables(StreamOrder[stage[First]])
        BY <1>3, DurablesType
      <4>3. QED
        BY <3>2, <4>1, <4>2
    <3>5. \A e \in Durable :
            bound'[e] = IF First \in offline THEN bound[e]
                        ELSE IF e = d THEN bound[d] \cup {First} ELSE bound[e]
      BY <2>7, <3>1 DEF Bind, StartOK
    <3>6. d \notin Subscribed(First)
      BY <3>1, <3>2, EarlierDiffer, <1>3 DEF Subscribed
    <3>7. CASE First \in offline
      BY <3>3, <3>4, <3>5, <3>7, <1>1, <1>2 DEF Alone
    <3>8. CASE First \notin offline
      BY <3>3, <3>4, <3>5, <3>6, <3>8, <1>1, <1>2 DEF Alone
    <3>9. QED
      BY <3>7, <3>8
  <2>8. CASE NextStream(p)
    <3>1. PICK k \in 1..3 : k = stage[First]
      BY <1>3
    <3>2. /\ pc[First] = "subscribing" /\ pc'[First] = "checking" /\ stage'[First] = k + 1
          /\ pending[First] = {} /\ found[First] = None
      BY <2>8, <3>1, <1>2, <1>3 DEF NextStream
    <3>3. Subscribed(First)' = Earlier(k + 1)
      BY <3>2 DEF Subscribed
    <3>4. Subscribed(First) = Earlier(k) \cup (Durables(StreamOrder[k]) \ {None})
      BY <3>1, <3>2 DEF Subscribed
    <3>5. None \notin Durables(StreamOrder[k])
      BY <3>1, DurablesType
    <3>6. Subscribed(First)' = Subscribed(First)
      BY <3>3, <3>4, <3>5, EarlierStages
    <3>7. QED
      BY <2>8, <3>6, <1>1, <1>2, SubscriptionsStay DEF NextStream
  <2>9. CASE Started(p)
    <3>1. /\ pc[First] = "subscribing" /\ pc'[First] \in Up /\ stage[First] = 3
          /\ pending[First] = {} /\ found[First] = None
      BY <2>9, <1>2 DEF Started
    <3>2. Subscribed(First)' = Durable
      BY <3>1 DEF Subscribed
    <3>3. Subscribed(First) = Earlier(3) \cup (Durables(StreamOrder[3]) \ {None})
      BY <3>1 DEF Subscribed
    <3>4. None \notin Durables(StreamOrder[3]) /\ 3 + 1 = 4
      BY DurablesType
    <3>5. Subscribed(First)' = Subscribed(First)
      BY <3>2, <3>3, <3>4, EarlierStages
    <3>6. QED
      BY <2>9, <3>5, <1>1, <1>2, SubscriptionsStay DEF Started
  <2>10. CASE Exit(p) \/ Restart(p)
    <3>1. Subscribed(First)' = Subscribed(First)
      BY <2>10, <1>2 DEF Exit, Restart, Subscribed
    <3>2. QED
      BY <2>10, <3>1, <1>1, <1>2, SubscriptionsStay DEF Exit, Restart
  <2>11. CASE PingTimeout(p)
    <3>1. Subscribed(First)' = {} /\ Subscribed(First) = {}
      BY <2>11 DEF PingTimeout, Subscribed
    <3>2. missed'[First] \subseteq Subscribed(First)'
      BY <2>11, <3>1, <1>1 DEF PingTimeout, Alone
    <3>3. QED
      BY <2>11, <3>1, <3>2, <1>1, <1>2, SubscriptionsEnd DEF PingTimeout
  <2>12. QED
    BY <1>5, <2>2, <2>3, <2>4, <2>5, <2>6, <2>7, <2>8, <2>9, <2>10, <2>11 DEF Progress
<1>6. ASSUME NEW p \in Pod, Signal(p) PROVE Alone'
  BY <1>6, <1>2 DEF Signal, SignalServing, SignalExporting, SignalStarting, MigrationRemoved,
     Replaced, InInit
<1>7. ASSUME NEW p \in Pod, MigrationCut(p) PROVE Alone'
  <2>1. p = First
    BY <1>7, <1>2 DEF MigrationCut
  <2>2. Subscribed(First)' = Subscribed(First)
    BY <2>1, <1>7, <1>2 DEF MigrationCut, Subscribed
  <2>3. QED
    BY <1>7, <2>1, <2>2, <1>1, <1>2, SubscriptionsStay DEF MigrationCut
<1>8. ASSUME NEW p \in Pod, ConnectFails(p) \/ Kill(p) PROVE Alone'
  <2>1. p = First
    BY <1>8, <1>2 DEF ConnectFails, Kill
  <2>2. /\ \A q \in Pod \ {First} : pc'[q] = "none"
        /\ bound' = [d \in Durable |-> bound[d] \ {First}]
        /\ pc'[First] \in {"crashed", "gone"} /\ missed'[First] = {}
    BY <1>8, <2>1, <1>2, <1>3 DEF ConnectFails, Kill, End
  <2>3. Subscribed(First)' = {}
    BY <2>2 DEF Subscribed
  <2>4. QED
    BY <1>8, <2>2, <2>3, <1>1, SubscriptionsEnd DEF ConnectFails, Kill
<1>9. ASSUME NEW p \in Pod, GiveUp(p) PROVE Alone'
  <2>1. p = First
    BY <1>9, <1>2 DEF GiveUp
  <2>2. First \in offline'
    BY <1>9, <2>1 DEF GiveUp
  <2>3. missed'[First] \subseteq Subscribed(First)'
    BY <1>9, <1>1 DEF GiveUp, Alone, Subscribed
  <2>4. QED
    BY <1>9, <2>1, <2>2, <2>3, <1>1, <1>2, SubscriptionsEnd DEF GiveUp
<1>10. ASSUME NEW p \in Pod, Rollout(p) \/ NodeLost(p) PROVE Alone'
  BY <1>10, <1>1 DEF Rollout, NodeLost
<1>11. ASSUME NEW p \in Pod, SubscribeFails(p) PROVE Alone'
  <2>1. p = First
    BY <1>11, <1>2 DEF SubscribeFails
  <2>2. PICK d \in IF found[First] = None THEN pending[First] ELSE {found[First]} :
          /\ pending'[First] = pending[First] \ {d}
          /\ missed'[First] = missed[First] \cup {d}
    BY <1>11, <2>1, <1>3 DEF SubscribeFails
  <2>3. /\ pc[First] = "subscribing" /\ pc' = pc /\ found'[First] = None
        /\ UNCHANGED <<desired, bound, offline, stage>>
    BY <1>11, <2>1, <1>3 DEF SubscribeFails
  <2>4. /\ d \in Durables(StreamOrder[stage[First]]) /\ d \in Durable
        /\ found[First] \in {None, d} /\ None \notin Durables(StreamOrder[stage[First]])
    <3>1. d \in Durables(StreamOrder[stage[First]])
      BY <2>2, <2>3 DEF StartInv, StartPodOK
    <3>2. QED
      BY <2>2, <3>1, <1>3, DurablesType
  <2>5. /\ Subscribed(First) =
             Earlier(stage[First])
               \cup (Durables(StreamOrder[stage[First]]) \ (pending[First] \cup {found[First]}))
        /\ Subscribed(First)' =
             Earlier(stage[First])
               \cup (Durables(StreamOrder[stage[First]]) \ (pending'[First] \cup {None}))
    BY <2>3 DEF Subscribed, Earlier
  <2>6. Subscribed(First)' = Subscribed(First) \cup {d}
    BY <2>2, <2>4, <2>5
  <2>7. d \notin Subscribed(First)
    <3>1. d \in pending[First] \cup {found[First]}
      BY <2>2
    <3>2. d \notin Earlier(stage[First])
      BY <2>4, <1>3, EarlierDiffer
    <3>3. QED
      BY <2>5, <3>1, <3>2
  <2>8. QED
    BY <2>2, <2>3, <2>6, <2>7, <1>1, <1>2 DEF Alone
<1>12. CASE UNCHANGED vars
  <2>1. Subscribed(First)' = Subscribed(First)
    BY <1>12 DEF vars, Subscribed
  <2>2. QED
    BY <1>12, <2>1, <1>1, <1>2, SubscriptionsStay DEF vars
<1>13. QED
  BY <1>4, <1>5, <1>6, <1>7, <1>8, <1>9, <1>10, <1>11, <1>12 DEF Next
-----------------------------------------------------------------------------
IInv == TypeInv /\ SchemaInv /\ MigratedInv /\ SignalInv /\ StartInv /\ AloneInv

LEMMA NextInv == IInv /\ [Next]_vars => IInv'
BY NextType, NextSchemaInv, NextMigrated, NextSignal, NextStart, NextAlone DEF IInv, TypeInv

LEMMA SpecInv == Spec => []IInv
<1>1. Init => IInv
  BY InitType, InitInv DEF IInv
<1>2. QED
  BY <1>1, NextInv, PTL DEF Spec

(* Every variable stays in its type: a version never passes the number of  *)
(* files, a stage never passes the list of streams NewNATSContext walks,   *)
(* and only pods are bound to a durable.                                   *)
THEOREM TypeCorrect == Spec => []TypeOK
<1>1. IInv => TypeOK
  BY TypeInvImplies DEF IInv
<1>2. QED
  BY <1>1, SpecInv, PTL

(* Every client that runs finds every table of ClickHouse, with any number *)
(* of pods whose init containers write the same version, each cut off      *)
(* anywhere: UpMeansMigrated.                                              *)
THEOREM RunningIsMigrated == Spec => []UpMeansMigrated
<1>1. IInv => UpMeansMigrated
  BY DEF IInv, TypeInv, SchemaOK, MigratedInv, Built, UpMeansMigrated
<1>2. QED
  BY <1>1, SpecInv, PTL

(* Only a pod with AWS_ENABLE is ever killed at the end of its grace       *)
(* period, in every order of signals, crashes and rollouts: ClosesInTime.  *)
THEOREM GracefulUnlessExporting == Spec => []ClosesInTime
<1>1. IInv => ClosesInTime
  BY DEF IInv, TypeInv, PlaceOK, SignalInv, SignalOK, ClosesInTime
<1>2. QED
  BY <1>1, SpecInv, PTL

(* Until a pod is replaced, a client that is up and connected is the one   *)
(* subscriber of every durable but those whose Subscribe got no answer     *)
(* since it started, which nobody receives, whatever number of durables    *)
(* METRICS has and however often the client crashed on the way:            *)
(* UpMeansSubscribed.                                                      *)
THEOREM UpIsSubscribed == Spec => []UpMeansSubscribed
<1>1. IInv => UpMeansSubscribed
  BY DEF IInv, AloneInv, Alone, Subscribed, Up, UpMeansSubscribed
<1>2. QED
  BY <1>1, SpecInv, PTL
=============================================================================
