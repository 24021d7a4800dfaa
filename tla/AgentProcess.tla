---------------------------- MODULE AgentProcess ----------------------------
(***************************************************************************)
(* The agent as a process (agent/kubviz/k8smetrics_agent.go, scheduler/):    *)
(* the first collection on the main goroutine, then a job per plugin (cron)  *)
(* or a collection per tick (gocron); the swagger file and the result that   *)
(* the runs of the pre-upgrade detector share; the signals that the access   *)
(* check takes for itself; panics, restarts and the pod that replaces this.  *)
(* What a plugin lists and publishes is in CollectPlugins and RakkessAccess. *)
(***************************************************************************)
EXTENDS Naturals, Sequences, FiniteSets

CONSTANTS
  Collection,   \* the plugins of a collection, in order
  Scheduled,    \* the plugins with an interval, which InitScheduler adds as jobs
  Mode,         \* SCHEDULER_ENABLE: "cron", "gocron", or both to check both
  Slots,        \* bound: the collections that gocron can have running at once
  MaxHangs      \* bound: the runs of a process that wait for ever

ASSUME CollectionAssumption ==
  /\ Scheduled \subseteq {Collection[i] : i \in DOMAIN Collection}
  /\ "first" \notin Scheduled \cup Slots /\ Scheduled \cap Slots = {}
ASSUME ModeAssumption == Mode \subseteq {"cron", "gocron"}

\* The goroutines that run plugins: main with the first collection, the jobs of
\* cron, the ticks of gocron.
Run == {"first"} \cup Scheduled \cup Slots

VARIABLES
  mode,
  main,        \* "collecting", "collected", "scheduled", "listening" (cron),
               \* "blocking" (gocron), "leaving", "flushing"
  alive,       \* the process runs
  killed,      \* the process was killed at the end of its grace period
  terminating, \* the pod has been asked to go
  early,       \* ... while main was still about to listen to signals
  registered,  \* signal.Notify has been called: SIGTERM does not end the process
  panicky,     \* a list call of the detector fails: a run of it panics
  work,        \* work[r]: the plugins r has still to run, the first of them running
  step,        \* step[r]: where r is in its first plugin
  hung,        \* the runs that wait for ever
  token,       \* the tokens of SkipIfStillRunning
  swagger,     \* the swagger file: "none", "whole", or cut off by who created or
               \* truncated it last, a run, "broken", or "other", the other pod
  result,      \* the global variable result: the run whose result it is
  upset,       \* history: another pod has used the file during this process
  mishap       \* history: what went wrong in this process: "read", "result"
vars == <<mode, main, alive, killed, terminating, early, registered, panicky, work,
          step, hung, token, swagger, result, upset, mishap>>
process == <<mode, main, alive, killed, terminating, early, registered, panicky>>
file == <<swagger, result, upset, mishap>>

FirstWork == [r \in Run |-> IF r = "first" THEN Collection ELSE <<>>]

Init ==
  /\ mode \in Mode /\ main = "collecting" /\ alive = TRUE /\ killed = FALSE
  /\ terminating = FALSE /\ early = FALSE /\ registered = FALSE /\ panicky \in BOOLEAN
  /\ work = FirstWork /\ step = [r \in Run |-> "begin"]
  /\ hung = {} /\ token = Scheduled
  /\ swagger = "none" /\ result = "none" /\ upset = FALSE /\ mishap = {}

Runs(r, p) == work[r] # <<>> /\ Head(work[r]) = p
At(r, p, s) == alive /\ r \notin hung /\ Runs(r, p) /\ step[r] = s

\* r has finished its plugin: LogErr logs what it returned, the collection goes
\* on, and a job gives its token back.
Advance(r) ==
  /\ work' = [work EXCEPT ![r] = Tail(@)] /\ step' = [step EXCEPT ![r] = "begin"]
  /\ token' = IF r \in Scheduled THEN token \cup {r} ELSE token
Goto(r, s) == step' = [step EXCEPT ![r] = s] /\ UNCHANGED <<work, token>>

\* The process ends, and what it had in memory is gone.
Forget == /\ work' = [r \in Run |-> <<>>] /\ step' = [r \in Run |-> "begin"]
          /\ hung' = {} /\ token' = Scheduled
          /\ result' = "none" /\ upset' = FALSE /\ mishap' = {}
End(byKubelet) == /\ alive' = FALSE /\ killed' = byKubelet /\ Forget
                  /\ UNCHANGED <<mode, main, terminating, early, registered, panicky>>

(***************************************************************************)
(* KubePreUpgradeDetector.                                                   *)
(***************************************************************************)
Detector(r, s) == At(r, "preUpgrade", s)

\* downloadFile: http.Get fails, or os.Create truncates the file of that name,
\* which may be one that another run writes or reads.
DownloadFails(r) ==
  /\ Detector(r, "begin") /\ Advance(r)
  /\ UNCHANGED <<process, file, hung>>
CreateFile(r) ==
  /\ Detector(r, "begin") /\ Goto(r, "writing")
  /\ swagger' = r
  /\ UNCHANGED <<process, hung, result, upset, mishap>>

\* io.Copy to its end.  The file that has the name is another one if the one this
\* run created is removed, and not whole if another run has truncated it since.
CopyFile(r) ==
  /\ Detector(r, "writing") /\ Goto(r, "written")
  /\ swagger' = IF swagger = r THEN "whole" ELSE swagger
  /\ UNCHANGED <<process, hung, result, upset, mishap>>
\* The copy breaks: the error is returned, and the broken file stays.
\* (Mutant: the error is logged, and the run goes on.)
CopyBreaksGoOn(r) ==
  /\ Detector(r, "writing") /\ Goto(r, "written")
  /\ swagger' = IF swagger = r THEN "broken" ELSE swagger
  /\ UNCHANGED <<process, hung, result, upset, mishap>>
CopyBreaks(r) ==
  /\ Detector(r, "writing") /\ Advance(r)
  /\ swagger' = IF swagger = r THEN "broken" ELSE swagger
  /\ UNCHANGED <<process, hung, result, upset, mishap>>

\* PopulateKubeAPIMap: no file, or a part of one, is an error; where two write one
\* file, the part that the later one has reached may complete the other's.
ReadFile(r) ==
  /\ Detector(r, "written") /\ swagger # "none"
  /\ Goto(r, "computing")
  /\ UNCHANGED <<process, file, hung>>
ReadFails(r) ==
  /\ Detector(r, "written") /\ swagger # "whole"
  /\ Goto(r, "removing") /\ mishap' = mishap \cup {"read"}
  /\ UNCHANGED <<process, hung, swagger, result, upset>>

\* getResults, into the global variable.
\* (Mutant: the result of an earlier run is kept.)
ComputeOnce(r) ==
  /\ Detector(r, "computing") /\ ~panicky
  /\ Goto(r, "publishing") /\ result' = IF result = "none" THEN r ELSE result
  /\ UNCHANGED <<process, hung, swagger, upset, mishap>>
Compute(r) ==
  /\ Detector(r, "computing") /\ ~panicky
  /\ Goto(r, "publishing") /\ result' = r
  /\ UNCHANGED <<process, hung, swagger, upset, mishap>>

\* The call of publishK8sDepricated_Deleted_Api reads the global variable.
PublishResult(r) ==
  /\ Detector(r, "publishing") /\ Goto(r, "removing")
  /\ mishap' = IF result = r THEN mishap ELSE mishap \cup {"result"}
  /\ UNCHANGED <<process, hung, swagger, result, upset>>

\* The deferred RemoveAll, of whatever file has the name by now.
RemoveFile(r) ==
  /\ Detector(r, "removing") /\ Advance(r) /\ swagger' = "none"
  /\ UNCHANGED <<process, hung, result, upset, mishap>>

\* getResults panics; the deferred RemoveAll runs.  A job is recovered, inside
\* SkipIfStillRunning, which then gets its token back; on any other goroutine
\* the process ends.
\* (Mutant: Recover is outside SkipIfStillRunning.)
PanicsKeepsToken(r) ==
  /\ Detector(r, "computing") /\ panicky /\ swagger' = "none"
  /\ \/ /\ r \in Scheduled
        /\ work' = [work EXCEPT ![r] = <<>>] /\ step' = [step EXCEPT ![r] = "begin"]
        /\ UNCHANGED <<process, token, hung, result, upset, mishap>>
     \/ r \notin Scheduled /\ End(FALSE)
Panics(r) ==
  /\ Detector(r, "computing") /\ panicky /\ swagger' = "none"
  /\ \/ r \in Scheduled /\ Advance(r) /\ UNCHANGED <<process, hung, result, upset, mishap>>
     \/ r \notin Scheduled /\ End(FALSE)

(***************************************************************************)
(* The other plugins.                                                        *)
(***************************************************************************)
\* RakeesOutput: the discovery fails, or catchSigs registers a channel, and never
\* stops.
DiscoveryFails(r) ==
  /\ At(r, "rakkess", "begin") /\ Advance(r)
  /\ UNCHANGED <<process, file, hung>>
CatchSigs(r) ==
  /\ At(r, "rakkess", "begin") /\ Goto(r, "checking")
  /\ registered' = TRUE
  /\ UNCHANGED <<mode, main, alive, killed, terminating, early, panicky, file, hung>>
CheckAccess(r) ==
  /\ At(r, "rakkess", "checking") /\ Advance(r)
  /\ UNCHANGED <<process, file, hung>>

\* A plugin without state that another run could see.
Scan(r) ==
  /\ \E p \in {Collection[i] : i \in DOMAIN Collection} \ {"preUpgrade", "rakkess"} :
       At(r, p, "begin")
  /\ Advance(r)
  /\ UNCHANGED <<process, file, hung>>

\* A request or a command that never ends: http.Get, kubectl and the Kubernetes
\* client have no timeout here; the file system and js.Publish answer.
Hang(r) ==
  /\ alive /\ work[r] # <<>> /\ step[r] \notin {"written", "publishing", "removing"}
  /\ r \notin hung /\ Cardinality(hung) < MaxHangs
  /\ hung' = hung \cup {r}
  /\ UNCHANGED <<process, work, step, token, file>>

(***************************************************************************)
(* main and the schedulers.                                                  *)
(***************************************************************************)
Collected ==
  /\ alive /\ main = "collecting" /\ work["first"] = <<>>
  /\ main' = "collected"
  /\ UNCHANGED <<mode, alive, killed, terminating, early, registered, panicky,
                 work, step, hung, token, file>>
\* InitScheduler and Start, or StartBlocking.
StartScheduler ==
  /\ alive /\ main = "collected"
  /\ main' = IF mode = "cron" THEN "scheduled" ELSE "blocking"
  /\ UNCHANGED <<mode, alive, killed, terminating, early, registered, panicky,
                 work, step, hung, token, file>>
Listen ==
  /\ alive /\ main = "scheduled"
  /\ main' = "listening" /\ registered' = TRUE
  /\ UNCHANGED <<mode, alive, killed, terminating, early, panicky,
                 work, step, hung, token, file>>

\* A job is due; it is skipped while the one before it runs.
CronTick(p) ==
  /\ alive /\ main \in {"scheduled", "listening"} /\ p \in token
  /\ work' = [work EXCEPT ![p] = <<p>>] /\ token' = token \ {p}
  /\ UNCHANGED <<process, step, hung, file>>
\* A collection is due, whether the one before it runs or not.
GocronTick(s) ==
  /\ alive /\ main = "blocking" /\ work[s] = <<>>
  /\ work' = [work EXCEPT ![s] = Collection]
  /\ UNCHANGED <<process, step, hung, token, file>>

\* main got the signal: Stop does not wait for the jobs.
\* (Mutant: it waits for the jobs that run.)
CanStopAfterJobs == main = "leaving" /\ token = Scheduled
CanStop == main = "leaving"
Stop ==
  /\ alive /\ CanStop
  /\ main' = "flushing"
  /\ UNCHANGED <<mode, alive, killed, terminating, early, registered, panicky,
                 work, step, hung, token, file>>

\* main returns once the deferred Shutdown of the tracer provider has sent the
\* spans that wait, for which it sets no deadline.
Leave ==
  /\ alive /\ main = "flushing" /\ End(FALSE) /\ UNCHANGED swagger

(***************************************************************************)
(* The environment.                                                          *)
(***************************************************************************)
\* A signal that no channel is registered for ends the process; one that comes
\* before main listens goes to the channels of the access checks alone.
Sigterm ==
  /\ alive /\ ~terminating
  /\ terminating' = TRUE /\ early' = (main \in {"collecting", "collected", "scheduled"})
  /\ main' = IF main = "listening" THEN "leaving" ELSE main
  /\ alive' = registered
  /\ IF registered THEN UNCHANGED <<work, step, hung, token, result, upset, mishap>> ELSE Forget
  /\ UNCHANGED <<mode, killed, registered, panicky, swagger>>

\* The end of the grace period, which is long for a main that can stop, but not
\* for a collector of spans that does not answer.
GraceKill ==
  /\ alive /\ terminating /\ ~CanStop /\ End(TRUE) /\ UNCHANGED swagger

\* Another goroutine ends the process: a tombstone in the event watch, log.Fatal
\* of the kuberhealthy plugin or of the server, the out-of-memory killer.
OtherEnd ==
  /\ alive /\ End(FALSE) /\ UNCHANGED swagger

\* Another pod on the shared volume, of a rollout or of the autoscaler, creates,
\* completes or removes the file.
OtherPod ==
  /\ alive
  /\ swagger' \in {"other", "none"} \cup (IF swagger = "other" THEN {"whole"} ELSE {})
  /\ upset' = TRUE
  /\ UNCHANGED <<process, work, step, hung, token, result, mishap>>

ClusterChanges ==
  /\ panicky' = ~panicky
  /\ UNCHANGED <<mode, main, alive, killed, terminating, early, registered,
                 work, step, hung, token, file>>

\* The container starts again, or the pod that replaces it takes over; the volume
\* keeps the file.
Restart ==
  /\ ~alive
  /\ alive' = TRUE /\ killed' = FALSE /\ main' = "collecting"
  /\ terminating' = FALSE /\ early' = FALSE /\ registered' = FALSE
  /\ work' = FirstWork
  /\ UNCHANGED <<mode, panicky, step, hung, token, file>>

Step(r) == \/ DownloadFails(r) \/ CreateFile(r) \/ CopyFile(r) \/ CopyBreaks(r)
           \/ ReadFile(r) \/ ReadFails(r) \/ Compute(r) \/ PublishResult(r)
           \/ RemoveFile(r) \/ Panics(r) \/ DiscoveryFails(r) \/ CatchSigs(r)
           \/ CheckAccess(r) \/ Scan(r)
MainNext == Collected \/ StartScheduler \/ Listen \/ Stop \/ Leave
Next == \/ \E r \in Run : Step(r) \/ Hang(r)
        \/ MainNext
        \/ \E p \in Scheduled : CronTick(p)
        \/ \E s \in Slots : GocronTick(s)
        \/ Sigterm \/ GraceKill \/ OtherEnd \/ OtherPod \/ ClusterChanges \/ Restart

\* The Go scheduler runs every goroutine, the timers of cron and gocron fire, and
\* the kubelet kills and restarts.  Signals, faults and changes need not come.
Fairness == /\ \A r \in Run : WF_vars(Step(r))
            /\ WF_vars(MainNext) /\ WF_vars(GraceKill) /\ WF_vars(Restart)
            /\ \A p \in Scheduled : WF_vars(CronTick(p))
            /\ \A s \in Slots : WF_vars(GocronTick(s))
Spec == Init /\ [][Next]_vars /\ Fairness
-----------------------------------------------------------------------------
\* A run of the detector fails to read the file it has downloaded in full, or
\* publishes the result of another run, only under gocron, whose runs overlap,
\* or next to another pod; the jobs of cron never do.
DetectorIsUndisturbed == mishap # {} => mode = "gocron" \/ upset

\* The agent is killed at the end of its grace period only under gocron, where
\* nobody listens to signals, when the signal came during the start, after the
\* first access check had taken signals for itself and before main listened, or
\* while main sends the spans that wait.
GraceKillHasACause ==
  killed => registered /\ (mode = "gocron" \/ early \/ main = "flushing")

\* The plugins run again and again: every job of cron, every plugin of gocron's
\* collections - unless the process ends again and again.  A run that hangs stops
\* them all when it is the first collection, on the main goroutine; else a job
\* stops only itself, and a collection of gocron none.
Running(p) == \E r \in Run \ hung : Runs(r, p)
Plugins == IF mode = "cron" THEN Scheduled ELSE {Collection[i] : i \in DOMAIN Collection}
PluginsKeepRunning ==
  \/ []<>(~alive)
  \/ <>[]("first" \in hung)
  \/ \A p \in {Collection[i] : i \in DOMAIN Collection} :
       <>[](p \in hung) \/ []<>(p \in Plugins => Running(p))
=============================================================================
