------------------------- MODULE AgentProcessProofs -------------------------
(***************************************************************************)
(* Proofs about AgentProcess, for every collection, every set of scheduled  *)
(* plugins, every number of overlapping collections and of hanging runs.    *)
(***************************************************************************)
EXTENDS AgentProcess, TLAPS

USE CollectionAssumption, ModeAssumption

\* Who has work: the first collection before main goes on, then under cron the
\* jobs, each with its own plugin.
WorkInv ==
  /\ mode \in Mode
  /\ work = [r \in Run |-> work[r]] /\ step = [r \in Run |-> step[r]]
  /\ main = "collecting" => \A r \in Run \ {"first"} : work[r] = <<>>
  /\ main # "collecting" => work["first"] = <<>>
  /\ main = "blocking" => mode # "cron"
  /\ mode = "cron" => \A s \in Slots : work[s] = <<>>
  /\ \A p \in Scheduled : work[p] = <<>> \/ work[p] = <<p>>
  /\ \A r \in Run : work[r] = <<>> \/ ~alive => step[r] = "begin"

\* A run of the detector has the file and the result for itself.
Owns(r) == Runs(r, "preUpgrade") =>
  /\ step[r] = "writing" => swagger = r
  /\ step[r] = "written" => swagger = "whole"
  /\ step[r] = "publishing" => result = r
OwnInv == mode = "cron" /\ ~upset => mishap = {} /\ \A r \in Run : Owns(r)

\* Where SIGTERM has left a process that lives.
SignalInv ==
  /\ main \in {"collecting", "collected", "scheduled", "listening", "blocking", "leaving",
              "flushing"}
  /\ alive /\ terminating => registered /\ (early \/ main \in {"leaving", "flushing", "blocking"})
  /\ killed => ~alive
  /\ GraceKillHasACause

\* Under cron at most one run is in the detector: the first collection, or the
\* job of that name.
LEMMA OneDetector ==
  ASSUME WorkInv, mode = "cron",
         NEW r \in Run, NEW q \in Run, Runs(r, "preUpgrade"), Runs(q, "preUpgrade")
  PROVE  r = q
<1>1. ASSUME NEW p \in Scheduled, Runs(p, "preUpgrade") PROVE p = "preUpgrade"
  <2>1. work[p] = <<p>>
    BY <1>1 DEF WorkInv, Runs
  <2>2. Head(<<p>>) = p
    OBVIOUS
  <2>3. QED
    BY <1>1, <2>1, <2>2 DEF Runs
<1>2. CASE main = "collecting"
  BY <1>2 DEF WorkInv, Runs
<1>3. CASE main # "collecting"
  BY <1>1, <1>3 DEF WorkInv, Runs, Run
<1>4. QED
  BY <1>2, <1>3

\* At the start nobody has work and no signal has come.
LEMMA InitInv == Init => WorkInv /\ OwnInv /\ SignalInv
BY DEF Init, WorkInv, OwnInv, Owns, Runs, SignalInv, GraceKillHasACause, FirstWork, Run

\* What a run does to its work and its step.
LEMMA AdvanceWork ==
  ASSUME WorkInv, NEW r \in Run, work[r] # <<>>, Advance(r), UNCHANGED <<mode, main, alive>>
  PROVE  WorkInv'
<1>1. /\ work' = [work EXCEPT ![r] = Tail(@)] /\ step' = [step EXCEPT ![r] = "begin"]
  BY DEF Advance
<1>2. \A q \in Run : /\ work'[q] = IF q = r THEN Tail(work[r]) ELSE work[q]
                     /\ step'[q] = IF q = r THEN "begin" ELSE step[q]
  BY <1>1 DEF WorkInv
<1>3. r \in Scheduled => work'[r] = <<>>
  <2>1. ASSUME r \in Scheduled PROVE work[r] = <<r>>
    BY <2>1 DEF WorkInv
  <2>2. Tail(<<r>>) = <<>>
    OBVIOUS
  <2>3. QED
    BY <2>1, <2>2, <1>2
<1>4. QED
  BY <1>1, <1>2, <1>3 DEF WorkInv, Run

\* The next stage of the detector leaves the run's work as it is.
LEMMA GotoWork ==
  ASSUME WorkInv, NEW r \in Run, NEW s, work[r] # <<>>, alive, Goto(r, s), UNCHANGED <<mode, main, alive>>
  PROVE  WorkInv'
BY DEF WorkInv, Goto, Run

\* A step of a run takes a plugin off its work, or ends the run.
LEMMA StepWork ==
  ASSUME WorkInv, NEW r \in Run, Step(r)
  PROVE  WorkInv'
<1> USE DEF Detector, At, Runs, process
<1>1. CASE CreateFile(r) \/ CopyFile(r) \/ ReadFile(r) \/ ReadFails(r) \/ Compute(r)
           \/ PublishResult(r) \/ CatchSigs(r)
  BY <1>1, GotoWork DEF CreateFile, CopyFile, ReadFile, ReadFails, Compute, PublishResult, CatchSigs
<1>2. CASE DownloadFails(r) \/ CopyBreaks(r) \/ RemoveFile(r) \/ DiscoveryFails(r)
           \/ CheckAccess(r) \/ Scan(r)
  BY <1>2, AdvanceWork
     DEF DownloadFails, CopyBreaks, RemoveFile, DiscoveryFails, CheckAccess, Scan
<1>3. CASE Panics(r)
  <2>1. CASE r \in Scheduled
    BY <1>3, <2>1, AdvanceWork DEF Panics
  <2>2. CASE r \notin Scheduled
    <3>1. End(FALSE)
      BY <1>3, <2>2 DEF Panics
    <3>2. QED
      BY <3>1 DEF End, Forget, WorkInv, Run
  <2>3. QED
    BY <2>1, <2>2
<1>4. QED
  BY <1>1, <1>2, <1>3 DEF Step

\* Every step of the process keeps WorkInv.
LEMMA NextWork == WorkInv /\ [Next]_vars => WorkInv'
<1> SUFFICES ASSUME WorkInv, [Next]_vars PROVE WorkInv'
  OBVIOUS
<1> USE DEF process, file
<1>1. ASSUME NEW r \in Run, Step(r) PROVE WorkInv'
  BY <1>1, StepWork
<1>2. ASSUME NEW r \in Run, Hang(r) PROVE WorkInv'
  <2>1. UNCHANGED <<mode, main, alive, work, step>>
    BY <1>2 DEF Hang
  <2>2. QED
    BY <2>1 DEF WorkInv
<1>3. CASE MainNext
  <2>1. CASE Collected \/ StartScheduler \/ Listen \/ Stop
    <3>1. /\ UNCHANGED <<mode, alive, work, step>> /\ main' # "collecting"
          /\ work["first"] = <<>> /\ (main' = "blocking" => mode # "cron")
      BY <2>1 DEF Collected, StartScheduler, Listen, Stop, CanStop, WorkInv
    <3>2. QED
      BY <3>1 DEF WorkInv
  <2>2. CASE Leave
    BY <2>2 DEF Leave, End, Forget, WorkInv, Run
  <2>3. QED
    BY <1>3, <2>1, <2>2 DEF MainNext
<1>4. ASSUME NEW p \in Scheduled, CronTick(p) PROVE WorkInv'
  <2>1. main # "collecting" /\ alive /\ UNCHANGED <<mode, main, alive, step>>
    BY <1>4 DEF CronTick
  <2>2. work' = [work EXCEPT ![p] = <<p>>] /\ <<p>> # <<>>
    BY <1>4 DEF CronTick
  <2>3. \A q \in Run : work'[q] = IF q = p THEN <<p>> ELSE work[q]
    BY <2>2 DEF WorkInv
  <2>4. work' = [q \in Run |-> work'[q]] /\ step' = [q \in Run |-> step'[q]]
    BY <2>1, <2>2 DEF WorkInv
  <2>5. QED
    BY <2>1, <2>2, <2>3, <2>4 DEF WorkInv, Run
<1>5. ASSUME NEW s \in Slots, GocronTick(s) PROVE WorkInv'
  BY <1>5 DEF GocronTick, WorkInv, Run
<1>6. CASE Sigterm
  <2>1. /\ main' = IF main = "listening" THEN "leaving" ELSE main
        /\ UNCHANGED mode
    BY <1>6 DEF Sigterm
  <2>2. CASE registered
    <3>1. alive /\ alive' /\ UNCHANGED <<work, step>>
      BY <1>6, <2>2 DEF Sigterm
    <3>2. QED
      BY <2>1, <3>1 DEF WorkInv
  <2>3. CASE ~registered
    BY <1>6, <2>1, <2>3 DEF Sigterm, Forget, WorkInv, Run
  <2>4. QED
    BY <2>2, <2>3
<1>7. CASE GraceKill \/ OtherEnd
  BY <1>7 DEF GraceKill, OtherEnd, End, Forget, WorkInv, Run
<1>8. CASE OtherPod \/ ClusterChanges
  <2>1. UNCHANGED <<mode, main, alive, work, step>>
    BY <1>8 DEF OtherPod, ClusterChanges
  <2>2. QED
    BY <2>1 DEF WorkInv
<1>9. CASE Restart
  <2>1. /\ main' = "collecting" /\ UNCHANGED <<mode, step>>
        /\ work' = [r \in Run |-> IF r = "first" THEN Collection ELSE <<>>]
    BY <1>9 DEF Restart, FirstWork
  <2>2. step' = [r \in Run |-> step'[r]]
    BY <2>1 DEF WorkInv
  <2>3. \A r \in Run : step'[r] = "begin"
    BY <1>9 DEF Restart, WorkInv
  <2>4. QED
    BY <2>1, <2>2, <2>3 DEF WorkInv, Run
<1>10. CASE UNCHANGED vars
  <2>1. UNCHANGED <<mode, main, alive, work, step>>
    BY <1>10 DEF vars
  <2>2. QED
    BY <2>1 DEF WorkInv
<1>11. QED
  BY <1>1, <1>2, <1>3, <1>4, <1>5, <1>6, <1>7, <1>8, <1>9, <1>10 DEF Next

\* Under cron a step of one run leaves every run what it owns.
LEMMA StepOwn ==
  ASSUME WorkInv, OwnInv, mode = "cron", ~upset, NEW r \in Run, Step(r)
  PROVE  mishap' = {} /\ \A q \in Run : Owns(q)'
<1> USE DEF process, file
<1>1. mishap = {} /\ \A q \in Run : Owns(q)
  BY DEF OwnInv
<1>2. ASSUME Runs(r, "preUpgrade"), NEW q \in Run, q # r, work'[q] = work[q] PROVE Owns(q)'
  BY <1>2, OneDetector DEF Runs, Owns
<1>3. ASSUME NEW q \in Run, work'[q] = <<>> \/ step'[q] = "begin" PROVE Owns(q)'
  BY <1>3 DEF Runs, Owns
<1>4. ASSUME Advance(r) PROVE step'[r] = "begin" /\ \A q \in Run \ {r} : work'[q] = work[q] /\ step'[q] = step[q]
  BY <1>4 DEF Advance, WorkInv
<1>5. ASSUME NEW s, Goto(r, s)
      PROVE  step'[r] = s /\ work' = work /\ \A q \in Run \ {r} : step'[q] = step[q]
  BY <1>5 DEF Goto, WorkInv
<1>6. CASE DownloadFails(r) \/ CopyBreaks(r) \/ RemoveFile(r)
  <2>1. Runs(r, "preUpgrade") /\ Advance(r) /\ mishap' = mishap
    BY <1>6 DEF DownloadFails, CopyBreaks, RemoveFile, Detector, At
  <2>2. QED
    BY <1>1, <1>2, <1>3, <1>4, <2>1
<1>7. CASE CreateFile(r)
  <2>1. Runs(r, "preUpgrade") /\ Goto(r, "writing") /\ swagger' = r /\ mishap' = mishap
    BY <1>7 DEF CreateFile, Detector, At
  <2>2. Owns(r)'
    BY <2>1, <1>5 DEF Owns
  <2>3. QED
    BY <1>1, <1>2, <1>5, <2>1, <2>2
<1>8. CASE CopyFile(r)
  <2>1. Runs(r, "preUpgrade") /\ step[r] = "writing" /\ Goto(r, "written") /\ mishap' = mishap
        /\ swagger' = IF swagger = r THEN "whole" ELSE swagger
    BY <1>8 DEF CopyFile, Detector, At
  <2>2. Owns(r)'
    BY <1>1, <2>1, <1>5 DEF Owns
  <2>3. QED
    BY <1>1, <1>2, <1>5, <2>1, <2>2
<1>9. CASE ReadFile(r)
  <2>1. Runs(r, "preUpgrade") /\ Goto(r, "computing") /\ mishap' = mishap
    BY <1>9 DEF ReadFile, Detector, At
  <2>2. Owns(r)'
    BY <2>1, <1>5 DEF Owns
  <2>3. QED
    BY <1>1, <1>2, <1>5, <2>1, <2>2
<1>10. CASE ReadFails(r)
  BY <1>1, <1>10 DEF ReadFails, Detector, At, Owns
<1>11. CASE Compute(r)
  <2>1. Runs(r, "preUpgrade") /\ Goto(r, "publishing") /\ result' = r /\ mishap' = mishap
    BY <1>11 DEF Compute, Detector, At
  <2>2. Owns(r)'
    BY <2>1, <1>5 DEF Owns
  <2>3. QED
    BY <1>1, <1>2, <1>5, <2>1, <2>2
<1>12. CASE PublishResult(r)
  <2>1. Runs(r, "preUpgrade") /\ step[r] = "publishing" /\ Goto(r, "removing")
        /\ mishap' = IF result = r THEN mishap ELSE mishap \cup {"result"}
    BY <1>12 DEF PublishResult, Detector, At
  <2>2. result = r
    BY <1>1, <2>1 DEF Owns
  <2>3. Owns(r)'
    BY <2>1, <1>5 DEF Owns
  <2>4. QED
    BY <1>1, <1>2, <1>5, <2>1, <2>2, <2>3
<1>13. CASE Panics(r)
  <2>1. CASE r \in Scheduled
    <3>1. Runs(r, "preUpgrade") /\ Advance(r) /\ mishap' = mishap
      BY <1>13, <2>1 DEF Panics, Detector, At
    <3>2. QED
      BY <1>1, <1>2, <1>3, <1>4, <3>1
  <2>2. CASE r \notin Scheduled
    <3>1. mishap' = {} /\ work' = [q \in Run |-> <<>>]
      BY <1>13, <2>2 DEF Panics, End, Forget
    <3>2. QED
      BY <1>3, <3>1
  <2>3. QED
    BY <2>1, <2>2
<1>14. CASE CatchSigs(r)
  <2>1. ~Runs(r, "preUpgrade") /\ Goto(r, "checking") /\ UNCHANGED <<swagger, result, mishap>>
    BY <1>14 DEF CatchSigs, At, Runs
  <2>2. Owns(r)'
    BY <2>1, <1>5 DEF Owns, Runs
  <2>3. QED
    BY <1>1, <1>5, <2>1, <2>2 DEF Owns, Runs
<1>15. CASE DiscoveryFails(r) \/ CheckAccess(r) \/ Scan(r)
  <2>1. Advance(r) /\ UNCHANGED <<swagger, result, mishap>>
    BY <1>15 DEF DiscoveryFails, CheckAccess, Scan
  <2>2. Owns(r)'
    BY <2>1, <1>3, <1>4
  <2>3. QED
    BY <1>1, <1>4, <2>1, <2>2 DEF Owns, Runs
<1>16. QED
  BY <1>6, <1>7, <1>8, <1>9, <1>10, <1>11, <1>12, <1>13, <1>14, <1>15 DEF Step

\* Every other step leaves the file and the result alone, or forgets them.
LEMMA NextOwn == WorkInv /\ OwnInv /\ [Next]_vars => OwnInv'
<1> SUFFICES ASSUME WorkInv, OwnInv, [Next]_vars, mode' = "cron", ~upset'
             PROVE  mishap' = {} /\ \A q \in Run : Owns(q)'
  BY DEF OwnInv
<1> USE DEF process, file
<1>1. ASSUME Forget PROVE mishap' = {} /\ \A q \in Run : Owns(q)'
  BY <1>1 DEF Forget, Owns, Runs
<1>2. ASSUME UNCHANGED <<mode, file, step>>,
             \A q \in Run : Runs(q, "preUpgrade")' => Runs(q, "preUpgrade") \/ step[q] = "begin"
      PROVE  mishap' = {} /\ \A q \in Run : Owns(q)'
  BY <1>2 DEF OwnInv, Owns
<1>3. ASSUME UNCHANGED <<mode, file, step, work>>
      PROVE  mishap' = {} /\ \A q \in Run : Owns(q)'
  BY <1>2, <1>3 DEF Runs
<1>4. ASSUME NEW r \in Run, Step(r)
      PROVE  mishap' = {} /\ \A q \in Run : Owns(q)'
  <2>1. CASE mode = "cron" /\ ~upset
    BY <1>4, <2>1, StepOwn
  <2>2. CASE mode # "cron" \/ upset
    <3>1. mode' = mode /\ (upset' = upset \/ Forget)
      BY <1>4 DEF Step, DownloadFails, CreateFile, CopyFile, CopyBreaks, ReadFile, ReadFails,
           Compute, PublishResult, RemoveFile, Panics, End, DiscoveryFails, CatchSigs,
           CheckAccess, Scan
    <3>2. QED
      BY <1>1, <2>2, <3>1
  <2>3. QED
    BY <2>1, <2>2
<1>5. ASSUME NEW r \in Run, Hang(r)
      PROVE  mishap' = {} /\ \A q \in Run : Owns(q)'
  BY <1>3, <1>5 DEF Hang
<1>6. CASE Collected \/ StartScheduler \/ Listen \/ Stop \/ ClusterChanges \/ UNCHANGED vars
  BY <1>3, <1>6 DEF Collected, StartScheduler, Listen, Stop, ClusterChanges, vars
<1>7. CASE Leave \/ GraceKill \/ OtherEnd
  BY <1>1, <1>7 DEF Leave, GraceKill, OtherEnd, End
<1>8. ASSUME NEW p \in Scheduled, CronTick(p)
      PROVE  mishap' = {} /\ \A q \in Run : Owns(q)'
  <2>1. UNCHANGED <<mode, file, step>> /\ work' = [work EXCEPT ![p] = <<p>>]
    BY <1>8 DEF CronTick
  <2>2. p \in Run /\ \A q \in Run \ {p} : work'[q] = work[q]
    BY <2>1 DEF WorkInv, Run
  <2>3. step[p] = "begin" \/ work'[p] = work[p]
    BY <2>1, <2>2 DEF WorkInv
  <2>4. QED
    BY <1>2, <2>1, <2>2, <2>3 DEF Runs
<1>9. ASSUME NEW s \in Slots, GocronTick(s)
      PROVE  mishap' = {} /\ \A q \in Run : Owns(q)'
  BY <1>9 DEF GocronTick, WorkInv
<1>10. CASE Sigterm
  <2>1. CASE registered
    BY <1>3, <1>10, <2>1 DEF Sigterm
  <2>2. CASE ~registered
    BY <1>1, <1>10, <2>2 DEF Sigterm
  <2>3. QED
    BY <2>1, <2>2
<1>11. CASE OtherPod
  BY <1>11 DEF OtherPod
<1>12. CASE Restart
  <2>1. UNCHANGED <<mode, file, step>> /\ ~alive
    BY <1>12 DEF Restart
  <2>2. \A q \in Run : step[q] = "begin"
    BY <2>1 DEF WorkInv
  <2>3. QED
    BY <1>2, <2>1, <2>2
<1>13. QED
  BY <1>4, <1>5, <1>6, <1>7, <1>8, <1>9, <1>10, <1>11, <1>12 DEF Next, MainNext

\* Where a SIGTERM can meet the process, and what is left to do then.
LEMMA NextSignal == WorkInv /\ SignalInv /\ [Next]_vars => SignalInv'
<1> SUFFICES ASSUME WorkInv, SignalInv, [Next]_vars PROVE SignalInv'
  OBVIOUS
<1> USE DEF process, file
<1>1. ASSUME UNCHANGED process PROVE SignalInv'
  BY <1>1 DEF SignalInv, GraceKillHasACause
<1>2. ASSUME End(FALSE) PROVE SignalInv'
  BY <1>2 DEF End, SignalInv, GraceKillHasACause
<1>3. ASSUME NEW r \in Run, Step(r) PROVE SignalInv'
  <2>1. UNCHANGED process \/ End(FALSE) \/ CatchSigs(r)
    BY <1>3 DEF Step, DownloadFails, CreateFile, CopyFile, CopyBreaks, ReadFile, ReadFails,
         Compute, PublishResult, RemoveFile, Panics, DiscoveryFails, CheckAccess, Scan
  <2>2. CASE CatchSigs(r)
    BY <2>2 DEF CatchSigs, SignalInv, GraceKillHasACause
  <2>3. QED
    BY <1>1, <1>2, <2>1, <2>2
<1>4. ASSUME NEW r \in Run, Hang(r) PROVE SignalInv'
  BY <1>1, <1>4 DEF Hang
<1>5. CASE Collected \/ StartScheduler \/ Listen \/ Stop
  BY <1>5 DEF Collected, StartScheduler, Listen, Stop, CanStop, SignalInv, GraceKillHasACause
<1>6. CASE Leave \/ OtherEnd
  BY <1>2, <1>6 DEF Leave, OtherEnd
<1>7. ASSUME NEW p \in Scheduled, CronTick(p) PROVE SignalInv'
  BY <1>1, <1>7 DEF CronTick
<1>8. ASSUME NEW s \in Slots, GocronTick(s) PROVE SignalInv'
  BY <1>1, <1>8 DEF GocronTick
<1>9. CASE Sigterm
  BY <1>9 DEF Sigterm, SignalInv, GraceKillHasACause
<1>10. CASE GraceKill
  <2>1. registered /\ (early \/ main \in {"blocking", "flushing"}) /\ main' = main
    BY <1>10 DEF GraceKill, End, CanStop, SignalInv
  <2>2. QED
    BY <1>10, <2>1 DEF GraceKill, End, SignalInv, GraceKillHasACause, WorkInv
<1>11. CASE OtherPod \/ UNCHANGED vars
  BY <1>1, <1>11 DEF OtherPod, vars
<1>12. CASE ClusterChanges \/ Restart
  BY <1>12 DEF ClusterChanges, Restart, SignalInv, GraceKillHasACause
<1>13. QED
  BY <1>3, <1>4, <1>5, <1>6, <1>7, <1>8, <1>9, <1>10, <1>11, <1>12 DEF Next, MainNext

\* The jobs of cron never disturb one another in the pre-upgrade detector, over
\* any number of panics, restarts and skipped ticks.
THEOREM DetectorAlone == Spec => []DetectorIsUndisturbed
<1>1. Init => WorkInv /\ OwnInv
  BY InitInv
<1>2. WorkInv /\ OwnInv /\ [Next]_vars => (WorkInv /\ OwnInv)'
  BY NextWork, NextOwn
<1>3. WorkInv /\ OwnInv => DetectorIsUndisturbed
  BY DEF WorkInv, OwnInv, DetectorIsUndisturbed
<1>4. QED
  BY <1>1, <1>2, <1>3, PTL DEF Spec

\* Only a signal that came too early, gocron, or spans that cannot be sent make the
\* kubelet kill the agent.
THEOREM KilledForACause == Spec => []GraceKillHasACause
<1>1. Init => WorkInv /\ SignalInv
  BY InitInv
<1>2. WorkInv /\ SignalInv /\ [Next]_vars => (WorkInv /\ SignalInv)'
  BY NextWork, NextSignal
<1>3. SignalInv => GraceKillHasACause
  BY DEF SignalInv
<1>4. QED
  BY <1>1, <1>2, <1>3, PTL DEF Spec
=============================================================================
