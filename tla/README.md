# KubViz in TLA+

TLA+ models of KubViz, the TLC runs that check them and the TLAPS proofs about
them. The models are read from the Go code of this repository, not from its
documentation; where the two disagree a run shows it.

## 1. The system

Agents in a cluster observe it and publish what they see to NATS JetStream. One
client consumes the streams and inserts into ClickHouse, which Grafana reads.

```
 kubviz agent ---- METRICS ---------.
 git bridge ------ GITMETRICS -------+--> client --> ClickHouse --> Grafana
 container bridge  CONTAINERMETRICS -'       \          ^
                                              `-- daily export --> S3
 migration CLI (init container of the client) --> tables
```

| Component | State it keeps | Operations | Interacts by | Hard about it | Correct when |
|---|---|---|---|---|---|
| client, subscriptions and handlers (`client/pkg/clients`) | durables, the queue nats.go keeps per subscription, the ack write buffer | 13 message handlers: ack, decode, route, insert | push deliveries and acks; calls into `DBClient` | 13 goroutines share one process that any of them can end; ack comes before store | what is acknowledged is stored, or it is known why not; nothing comes back for ever |
| client, inserts (`client/pkg/clickhouse`) | rows, open transactions | one transaction per message, or one per finding | `database/sql` | early returns, fatal errors, partial reports | a report is stored whole and once |
| client, start and shutdown (`client/main.go`, `client/pkg/application`, `NewNATSContext`) | connections, bound durables, signal channels | connect, look up streams, subscribe, close | server-side consumer binding; SIGTERM; kubelet | crash loop that consumes, two pods of a rollout, ignored Subscribe errors | a client that is up is subscribed to everything, or it is known why not; SIGTERM closes it |
| client, export (`client/pkg/storage`) | `ExportedAt`, one object per table in S3 | select, read, upload, mark | ClickHouse mutations, S3, cron | select and mark are two statements, runs overlap and fail, the TTL does not wait for them | marked means uploaded; everything that is kept is uploaded |
| kubviz agent, main (`agent/kubviz/k8smetrics_agent.go`) | the collection in progress, the cron or gocron scheduler | one collection at start, then per interval | METRICS stream, signals | collections overlap without singleton mode; SIGTERM swallowed by the rakkess plugin | a signal ends the agent, or it is known why not; the plugins run again and again |
| kubviz agent, scheduler (`agent/kubviz/scheduler`) | `jobs`, `cronIDs` under a mutex | AddJob, RemoveJob, GetJobs, Start, Stop | robfig/cron chain SkipIfStillRunning, Recover | a job that panics or hangs; Stop does not wait | one run of a job at a time, and a job that panics runs again |
| kubviz agent, event watch (`plugins/events`) | informer cache | publish on add and delete | Kubernetes watch, METRICS | a cut watch, a list after it, tombstones; the pod of an event is looked up when the event is handled; a message per container | an event of a pod that exists is published for each of its images, once per process |
| kubviz agent, plugins (`ketall`, `kubescore`, `trivy`, `kuberhealthy`, `kubepreupgrade`) | files and results, partly global | list, run a scanner, publish each item | METRICS | each stops or goes on at an error in its own way; shared file and result | what is missing has a cause, and a run that lost something says so |
| kubviz agent, rakkess (`plugins/rakkess`) | a result per resource, filled by a goroutine each | check every verb of every resource | METRICS | shared map, cancellation, two codings of access | the outcome published tells the answer of the API server; nobody writes the map that is read |
| kubviz agent, outdated (`plugins/outdated`) | none | compare an image tag with those of its registry | registries, METRICS | tags that are no versions, duplicates, missing parts | the lag published is the number of newer versions |
| git bridge (`agent/git`) | HTTP server, NATS connection | one handler per provider | webhooks, GITMETRICS | the publish result is dropped; the connection closes before the server | what was answered with 200 is in the stream |
| container bridge (`agent/container`) | HTTP server, NATS connection, poller of GitHub packages | one handler per registry | webhooks, CONTAINERMETRICS | asynchronous publish that nobody waits for; `log.Fatalf` while `Shutdown` drains | the same |
| migration CLI (`cmd/cli`) | schema version | up, down, add TTL | ClickHouse | a migration cut half way; two pods migrating at once | a client that is up has its tables |
| SDK, mTLS, tracing, models, charts | none of their own | | | | |

## 2. What is modelled, and where

| Module | What it is | Extends |
|---|---|---|
| `ClientHandlers` | pure: what each handler decides about a message (insert, abandon, return, die), and how many transactions its insert commits | |
| `ClientDelivery` | the client between JetStream and ClickHouse: broker, queues, handlers, write buffer, death, shutdown, restart | `ClientHandlers` |
| `DeliveryContract` | abstract: what the pipeline promises whatever the client does | |
| `MCClientDelivery` | small instances of `ClientDelivery` | `ClientDelivery` |
| `ClientDeliveryProofs` | proofs about `ClientDelivery` | `ClientDelivery`, `SequenceRanges`, TLAPS |
| `SchemaMigration` | the migration CLI, the init container of a pod | |
| `ClientLifecycle`, `MCClientLifecycle` | the pods of the client's deployment: migration, start, crash loop, rollout, shutdown | `SchemaMigration` |
| `ClientLifecycleProofs` | proofs about `ClientLifecycle` and `SchemaMigration` | `ClientLifecycle`, TLAPS |
| `WebhookBridge`, `MCWebhookBridge` | the git and the container bridge: HTTP handlers, asynchronous publication, reconnection, shutdown | |
| `WebhookContract` | abstract: what a bridge promises its senders and the stream | |
| `WebhookBridgeProofs` | proofs about `WebhookBridge` | `WebhookBridge`, `SequenceRanges`, TLAPS |
| `SequenceRanges` | lemmas on the elements of a queue; induction over a number and the states of a loop, used by the proofs about queues and loops | TLAPS |
| `ExpiredDataExport` | the daily export of one table | |
| `ExpiredDataExportProofs` | proofs about `ExpiredDataExport` | `ExpiredDataExport`, TLAPS |
| `AgentProcess`, `MCAgentProcess` | the agent as a process: first collection, the two schedulers, signals, panics, restarts, and what overlapping runs share | |
| `AgentProcessProofs` | proofs about `AgentProcess` | `AgentProcess`, TLAPS |
| `OutdatedVersions` | pure: how many versions an image is behind, and what it should be | |
| `PreUpgrade` | pure: which APIs with objects are deprecated or deleted | |
| `CollectPlugins` | one run of one plugin: list, scan, publish, and what each failure ends; also the GitHub watch of the container bridge | `OutdatedVersions`, `PreUpgrade` |
| `RakkessAccess` | one run of the access check, a goroutine per resource | |
| `PluginProofs` | proofs about the plugins, what they compute included | `CollectPlugins`, `RakkessAccess`, `SequenceRanges`, TLAPS |
| `EventWatch` | the informer on the events of the cluster and its three handlers | |
| `EventWatchProofs` | proofs about `EventWatch` | `EventWatch`, `SequenceRanges`, TLAPS |
| `MCAgentReports` | small worlds for the three modules above; a behaviour is of one of them | `CollectPlugins`, `RakkessAccess`, `EventWatch` |

`ClientHandlers` reduces a message to the facts a handler branches on (header,
event, shape of the body, number of findings). Wording, columns and time stamps
do not matter to any property and are left out. What stays is every branch:
for instance that the Gitea handler dereferences the merge commit of a pull
request that was closed without a merge, and the repository and the author of a
push; that the Azure handler indexes `RefUpdates[0]` outside its check; that the
Kuberhealthy insert dereferences the last run of a check, which is null until it
has run; and that the GitHub package insert names a table no migration creates.

`ClientDelivery` and the code:

| Variable | In the program |
|---|---|
| `stream`, `taken`, `acked` | the broker: published, handed out, acknowledged |
| `inbox` | the channel of pending messages of each nats.go subscription |
| `handling`, `step`, `left` | the goroutine of a subscription: its message, the statement it is at, transactions to go |
| `ackbuf` | the write buffer of the NATS connection |
| `rows` | committed transactions of each message |
| `phase` | the process: down, running, inside `NATSContext.Close` before and after the database is closed |
| `faults`, `interrupted`, `skipped`, `reoffered` | history, for the bounds and the properties |

A handler is the steps `Receive`, `Ack`, one of `DecodeInsert`, `DecodeSkip`
and `DecodeDie`, then `BeginTx` and `CommitTx` once per transaction, `Finish`.
Each is one call of the code that another goroutine can run beside. `Die` is
the end of the process in whatever step causes it: an unknown part of the write
buffer has been sent, everything in memory is gone. Nothing in the code flushes
the buffer between `msg.Ack` and a `log.Fatal` or a panic, so a handler that ends
the process races the flusher for its own ack at every delivery, and losing that
race is no fault: `Die` counts only what comes from outside. So that the rows of
a message handed out again and again stay finite, an ack can be lost with the
process only while its message has fewer than `MaxRows` rows. `DropRow` is the
insert of kube-score, which logs a row that is refused and goes on.

`ClientLifecycle` models the pods a deployment goes through. The order of
`StreamOrder` is the order of the checks in `NewNATSContext`; `LookUp` and
`Bind` are the two halves of `js.Subscribe` on a durable push consumer (it asks
for the consumer, and refuses one that is bound; then it binds). The error is
dropped at `kubviz_client.go:39` (`bridge_client.go:50`, `container_client.go:40`),
so `LookUp` of a bound durable goes on to the next, and so does `SubscribeFails`,
either half without an answer (`missed`), which leaves a client that is up and
connected without the subscription. The deployment has one replica, no probes and the default strategy
(`charts/client/templates/deployment.yaml`), hence `Replaced`.

Before that, the init container of a pod migrates the schema (`SchemaMigration`,
whose state is the row of `schema_migrations`, the tables that exist and what
each pod's `m.Up()` is at). golang-migrate marks a version dirty, runs its file
and clears the mark, each a statement of its own; its ClickHouse lock is one of
the process. `Refused` is the error of every later `Up` on a dirty version:
`ClientLifecycle` then restarts the container for ever.

`ExpiredDataExport` models one table, since a run takes the tables one after
the other and they share nothing. `Expire` is the TTL of the table
(`sql/000001_events.up.sql:20`), which deletes a row at any moment, exported or not. A ClickHouse `ALTER TABLE UPDATE` returns when
its mutation is queued; `Mutate` is its execution.

`WebhookBridge` is both bridges: they differ in their handlers (`Verdict`) and
in what they make of a failed publication (`AnswerFailed`), and a behaviour is
of the one or the other (`bridge`, fixed by `Init`). A request goes from `Open`
through `Publish` or `PublishFails` to an answer; `outbox` is what nats.go has
not got through to the server, `pending` the publications it counts against its
limit, `link` the connection. `End` is the end of the process, whether by
`log.Fatalf` in `Start`, the end of `main` or a kill.

nats.go closes a connection for good after sixty attempts to reconnect, two
seconds apart; none of the programs changes that default or asks to be told
(`GiveUp` in `ClientLifecycle` and `WebhookBridge`). No deployment has a
liveness probe, so the process stays up: a client without subscriptions, a
container bridge that answers 500 to everything, a git bridge that answers 200
and drops everything.

### The agent

`AgentProcess` and the code:

| Variable | In the program |
|---|---|
| `mode`, `main` | `SCHEDULER_ENABLE`, and where `main` is: in the first collection, on its way to the scheduler, listening to signals (cron), stopping and then flushing its traces (`tp.Shutdown`, deferred, without a deadline), or in `StartBlocking` (gocron) |
| `work`, `step` | the goroutines that run plugins (main, the jobs of cron, the ticks of gocron): the plugins each has still to run, and where it is in the first of them |
| `token` | the channel of one element that `SkipIfStillRunning` keeps per job |
| `swagger`, `result` | the file `swagger-<version>.json` on the volume, by who has it, and the global variable `result` of the detector |
| `registered`, `terminating`, `early` | whether `signal.Notify` has been called by anybody, and when SIGTERM came |
| `panicky` | a list call of the detector fails, so that it reads the items of no list |
| `hung` | runs that wait for a request or a command without timeout |

The detector of deprecated APIs is the steps `CreateFile`, `CopyFile`,
`ReadFile`, `Compute`, `PublishResult`, `RemoveFile`, since these are where
another run can get between. When two runs write one file the model leaves open
whether the reader finds it whole. The access check is two steps, because
`catchSigs` changes the process before it checks anything. The other six
plugins keep no state another run could see and are one step each (`Scan`).

`CollectPlugins` has a disjunct per plugin, of the same four parts: the listing
(`Starts`), the scan of the next item (`Scans`), the publish call of the next
report (`Sends`) and the end (`Ends`). `run` is the plugin and the world it
meets; `todo`, `batch` are its loops. What differs is what a failure ends:
`PublishOrReturn` or `PublishOrGoOn`, `continue` or `return` after a scan.

`OutdatedVersions` takes a tag that go-version parses for its numbers, its "v"
and one of three suffixes, and any other tag for its date. `ParseImage` is the
chain `parseTags`, `Unique`, `VersionsBehind`, `RemoveLeastSpecific` of the
code, with its keys, its orders and the length of the tags; `Sorted` is any order
`sort.Sort` may leave. The loops that clean a list (`ListImages`,
`RemoveLeastSpecific`) are recursive functions over their index. The reference
definition is `NewerNumbers`, the versions of higher numbers. `PreUpgrade` is
`getResults` over a cluster: what the swagger file defines, what is served,
preferred and undiscoverable, and how each list call ends, those of the two
groups that name custom APIs (`Directories`) each for itself.

`RakkessAccess`: `access[r]` is the goroutine of resource r, `res` the map under
the mutex, `checking` the WaitGroup. `answered` keeps what the API server said,
to compare the rows with. `EventWatch`: `queue` is the DeltaFIFO of client-go, `store` the
informer's, `handler` the running callback: it looks the pod up and then publishes
one message for each container, of which each may fail alone. A change, a cut, a list and the end of the
process may come between any two steps of a handler, in particular between
`Pop` and `LookUpPod`.

Not under `src/`, and modelled from how the code uses them (marked external in
PROJECT.json): the JetStream server and nats.go, ClickHouse, the kubelet and
the deployment controller, golang-migrate, the informer of client-go, robfig/cron
and gocron, go-version, the registries and the API server.

## 3. The runs

| Run | Module, config | Checks | Shows |
|---|---|---|---|
| `delivery` | `MCClientDelivery`, `ClientDelivery.cfg` | `TypeOK`, `LossHasACause`, `DuplicateHasACause`, `WholeReports`, `ImplementsContract` | which losses, duplicates and partial reports the order "ack, then store" permits, and no other; the client implements `DeliveryContract` |
| `delivery_live` | `ClientDeliveryLive.cfg` | `EverythingSettles` | no message comes back for ever, not even with one that kills the client, unless the ack of that one is lost with the process at every delivery |
| `delivery_shapes` | `ClientDeliveryShapes.cfg` | `LossNeedsAnother` | over every pair of message shapes: without faults, but with acks that die with the process, a message that is to be inserted is lost only next to one that ends the process |
| `delivery_loss` | `ClientDeliveryLoss.cfg` | `EveryEventStored`, violated | closing an unmerged Gitea pull request loses the Trivy report stored at the same moment |
| `lifecycle` | `MCClientLifecycle`, `ClientLifecycle.cfg` | `TypeOK`, `UpMeansSubscribed`, `UpMeansMigrated`, `ClosesInTime`, `ComesUp` | migration, crash loop, unanswered subscriptions, rollouts, lost nodes and signals, for two pods; the client comes up unless a cut migration has left the schema dirty |
| `lifecycle_install` | `ClientLifecycleInstall.cfg` | `AgentBringsClientUp`, violated | with the bridges disabled, as by default, the crash loop does not end |
| `lifecycle_rollout` | `ClientLifecycleRollout.cfg` | `SomebodyReceives`, violated | a rollout can leave a durable that nobody is subscribed to |
| `bridge` | `MCWebhookBridge`, `WebhookBridge.cfg` | `TypeOK`, `OkLossHasACause`, `ErrorMeansUnsent`, `ImplementsContract`, `RoomReturns` | what a 200 and an error mean for the stream; the bridge implements `WebhookContract`; only acknowledgements lost with a connection can block a bridge for good |
| `bridge_answer` | `WebhookBridgeAnswer.cfg` | `OkMeansStored`, violated | the container bridge answers 200 for events that never reach the stream |
| `export` | `ExpiredDataExport`, `ExpiredDataExport.cfg` | `TypeOK`, `MarkHasACause`, `KeptRowIsExported` | rows marked without being uploaded, and why; none that the TTL leaves is left out for ever |
| `reports` | `MCAgentReports`, `AgentReports.cfg` | `MissingHasACause`, `NilMeansPublished` (every plugin); `LagIsRight` (outdated images); `DeletedIsDeleted`, `DeprecatedIsSeen` (detector); `RowsTellTheAnswers`, `NothingChecksWhilePublishing` (access check); `EventIsPublished`, `AddedOncePerProcess`, `OnlyExpiredEventsKill` (events) | what each part of the agent publishes of the world it meets: what may be missing, doubled or wrong, and why |
| `agent` | `MCAgentProcess`, `AgentProcess.cfg` | `DetectorIsUndisturbed`, `GraceKillHasACause`, `PluginsKeepRunning` | what overlapping runs do to each other, which signals the agent misses, and that nothing but a first collection that hangs or a process that ends again and again stops the plugins; a run that hangs elsewhere stops itself |

### Bounds, and why they are enough

* `delivery`: two handlers, three messages (one that kills the client, one whose
  database errors are not fatal, one with two transactions), two faults. A loss
  or a duplicate involves one message and one other that kills the process; two
  faults are enough to combine a lost ack with a failing insert or a late
  redelivery with a kill. `MaxPublished` is the number of messages here. With
  `MaxRows = 2` a report of one row can be stored twice, and one of two rows be
  repeated after its first, by acks that die with the process; that one of two rows is
  stored twice in full takes a redelivery after AckWait.
* `delivery_shapes`: all 74 shapes the handlers tell apart, two of them
  published in any run (`MaxPublished = 2`), no faults. The property relates a
  message to at most one other.
* `delivery_live`: two of three messages (one that kills the client, one whose
  insert may drop a row, one whose insert returns early), two faults; the ack of the
  killer may be lost with it at every delivery, which is no fault.
* `delivery_loss`: three messages, no fault.
* `lifecycle`: two pods, because a rollout has an old and a new one, and two of
  the eleven durables of METRICS, because durables of one stream differ only in
  the order of their binding, which the model leaves open. Three faults: a
  rollout or lost node, and a crash of either pod. One connection given
  up or one request of Subscribe without an answer (`MaxOutages`).
  Two migrations, so that one can be cut after another has gone through. The
  rollout run has none (`Migrations = 0`): it is about subscriptions. A rollout is
  one of the faults, because it may remove a pod in the middle of its migration.
* `reports`: every set of up to three tags (`MCMaxTags`) of fifteen, any of the
  fifteen running: with the running tag that is two to keep and two that push each other
  out, which is what `Unique` and `RemoveLeastSpecific` look at. Up to three
  items of two reports, of which two may be the same image, one failing publish
  call (`MaxLost`), every outcome of every scan, and pages of two (`PageSize`;
  30 in the program, GitHub's default, since neither URL names a size), so that a third item is past the page. Clusters with one API
  of every sort the detector tells apart, of which one list call and one group may fail.
  Two resources, one of which lacks verbs. Two events, one of a pod with two containers, two
  versions each (`MaxVersion`: an add and an update), two cuts (`MaxCuts`: the
  second list meets the tombstone of the first), one failing call and one end of
  the process from elsewhere. A fault of one part does not reach another, so the parts are
  checked beside each other and not multiplied.
* `agent`: one plugin of each sort (shared file, no state, signals), the first two
  of them scheduled, two ticks of gocron beside each other (`Slots`), one hanging run
  (`MaxHangs`). Signals, panics, other ends, restarts and steps of the other pod
  are not bounded.
* `bridge`: four webhooks of each bridge, three of them to be published, so that
  the limit of pending publications (two, in place of 4000) and the buffer (one,
  in place of 8 MB) can both be reached with one more to come; one of the git
  bridge is larger than the server accepts; two faults, so
  that a lost connection can meet a refusal or a kill. Signals and restarts are
  not bounded.
* `export`: two rows, two runs active at once (the overlap of two is what the
  marks depend on), one fault, so that a run that fails, or whose answer is lost,
  meets another; signals, mutations and the TTL are not bounded.

Deadlock is not checked where the model may stop: in the delivery runs once all
messages are published and settled, in the lifecycle runs once the pods serve
and no fault is left, in `reports` once the run is over. `export`, `bridge` and
`agent` check it.

### Fairness, and why the code justifies it

* `ClientDelivery!Fairness`: the broker delivers, and after AckWait delivers
  again, what nobody holds; handler goroutines and the flusher of nats.go are
  scheduled; main goes on with Close; the kubelet restarts the container. No
  fairness on publishing, signals, kills, or a redelivery while the client still
  has the message. A call ClickHouse refuses is fair only together with its
  alternative, so a closed database handle cannot block a handler for ever.
* `ClientLifecycle!Fairness`: installed agents create their streams, processes
  run, the kubelet and the deployment controller do their work, the server times
  out dead connections. No fairness on faults, unanswered requests and rollouts.
* `WebhookBridge!Fairness`: request goroutines run, the server works off what
  reaches it, nats.go reconnects or gives up, main goes on closing, the kubelet
  restarts. No fairness on webhooks, signals and faults.
* `AgentProcess!Fairness`: the Go scheduler runs every goroutine that does not
  hang, main goes on, the timers of cron and gocron fire, the kubelet kills at
  the end of the grace period and restarts. No fairness on signals, hanging,
  other ends, the other pod and changes of the cluster. `CronTick` is weakly fair
  since only the job itself takes its token.
* `ExpiredDataExport!Fairness`: the cron fires daily, a run goes on, ClickHouse
  works off its mutations. The TTL is not fair: a row may be kept for ever, and
  then it must be exported. A failure is never fair, but bounded by `MaxFaults`: a
  run that fails every day for ever exports nothing, and the TTL then deletes it all.

## 4. What is proved

TLAPS checks these for every value of the constants.

* `ClientDeliveryProofs!TypeCorrect`: `Spec => [](TypeOK /\ HandlerOK)`. The
  inductive invariant is `TypeInv`: the types, that a handler has a message
  exactly when it is not idle (`HandlerOK`), and that an open transaction has a
  row to commit (`TxOK`). The last two are what keeps `left` a natural number
  and `handling` a message at `Ack` and `CommitTx`.
* `ClientDeliveryProofs!NoSilentLoss`: `Spec => []LossHasACause`. `LossHasACause`
  alone is not inductive: the write buffer may hold the ack of a message nobody
  accounts for, and a handler may finish with too few rows. `LossInv` adds
  `AnswersOK` (every ack in the write buffer is accounted for as well, since the
  buffer becomes `acked` in `FlushAck`, `CloseNats` and `Die`) and `CountOK`
  (rows stored and transactions left together cover the report, so `Finish`
  leaves it complete). A step that stops being `Working` on a message is either
  `Finish`, covered by `CountOK`, or moves it to `skipped` or `interrupted`.
* `ClientDeliveryProofs!ClientImplementsContract`: `Spec => ImplementsContract`, the
  refinement of `DeliveryContract` step by step. A step of the client is a step of
  the contract or none; for that the acknowledged messages must have been handed
  out, and what a subscription holds must be its own (`PlaceInv`): otherwise the
  ack that a dying process takes with it could be one the contract never gave.
* `ClientDeliveryProofs!LossTakesAnother` (`LossNeedsAnother`) from `CalmInv`: without
  faults and without a message that kills, the client runs on and interrupts
  nobody. `ReportsAreWhole` (`WholeReports`) from `WholeInv`: rows and open
  transactions of a message make whole reports together (a natural multiple, so
  that many deliveries are covered). `DuplicatesAreOffered` (`DuplicateHasACause`)
  from `OnceInv`: a message the broker had no reason to offer again is at one
  place, once, and its ack marks how far its handler is.
* `ClientLifecycleProofs`: `TypeCorrect`, `RunningIsMigrated` (`UpMeansMigrated`),
  `GracefulUnlessExporting` (`ClosesInTime`) and `UpIsSubscribed`
  (`UpMeansSubscribed`), from one inductive invariant of six parts. `SchemaInv` is
  the reason two migrations beside each other do no harm: whoever is at a file, and
  whoever wrote the version, did so with the tables of all files before it;
  `MigratedInv` carries that over to the pods, crashed ones included, which come
  back without their init container. `SignalInv` says where a SIGTERM has left a pod.
  `StartInv` says which durables a pod may be at, and `AloneInv` that until a pod is
  replaced the server delivers to the first one exactly what it has got through and
  not `missed`.
* `WebhookBridgeProofs!TypeCorrect`, `OkIsAccountedFor` (`Spec =>
  []OkLossHasACause`) and `ErrorIsFinal` (`Spec => []ErrorMeansUnsent`). Both
  follow from `AnswerInv`, which says of a handler before its answer what the
  properties say after it: a published event is accounted for (`PublishedOK`), a
  failed one is known as such (`FailedOK`), and an event whose handler has not
  written it, or will answer an error, is nowhere in the connection or the
  stream (`UnsentOK`). The connection steps are handled by one lemma, `Tracked`:
  they lose track of no event and make none appear. The only hard case is
  `Disconnect`, which cuts the buffer at two places.
* `WebhookBridgeProofs!BridgeImplementsContract`: `Spec => ImplementsContract`, the
  refinement of `WebhookContract`. The mapping forgets the connection, the limits
  and the phases: `underway` is what the buffer holds, `gone` what was lost or
  refused, a request waits from `Open` to its answer, and the git bridge is the one
  that `hides` failures. `AnswerInv` is not enough, since the contract lets an
  event be published once: `FreshOK` says that the event of a handler that has
  not published is nowhere, not even among the lost ones, and `OutboxOK` that the
  buffer holds none twice, so that a connection that breaks decides about each
  publication once (`OnceSuffix`). `RouteOK` is needed because only the git bridge
  may answer 200 to what it ignores. `ConnectionDecides` joins the five steps of the
  connection, `EndDecides` the two ends of the process.
* `ExpiredDataExportProofs!TypeCorrect` and `MarksAreExcused`:
  `Spec => []MarkHasACause`. The invariant follows a row through the run: what a
  run has selected or written is excused, what is unexported while a run has
  uploaded is uploaded, overlapped or unread, and so is every queued mutation.
* `AgentProcessProofs!DetectorAlone` (`Spec => []DetectorIsUndisturbed`) and
  `KilledForACause` (`Spec => []GraceKillHasACause`). `WorkInv` says who may have
  work: the first collection before main goes on, and then under cron each job
  with its own plugin alone. It gives `OneDetector`, that at most one run is in
  the detector, from which `OwnInv` follows: between its steps that run owns the
  file and the result. `SignalInv` says where a SIGTERM has left a process that
  still lives.
* `EventWatchProofs!KilledByExpiry` (`WSpec => []OnlyExpiredEventsKill`) and
  `PublishedUnlessFailed` (`WSpec => []EventIsPublished`). `QueueInv` bounds what can be
  queued: deltas of written events, and a tombstone only of an expired one after
  a cut; the hard case is the list, for which `ReplacementSeen` unfolds
  `SetToSeq`. `StoreInv` says that an event in the store whose pod exists is
  published for every image up to the one its ADD is at, or a call has failed.
* `EventWatchProofs!AddedByEachProcess` (`WSpec => []AddedOncePerProcess`). `AddsInv`
  is an account: the additions published of an image of an event, one that may still come
  (`MayAdd`) and one for a cut that may still end the process (`CutIsOpen`) are no
  more than one, the ends so far and the cuts. `LineInv` makes it inductive: behind
  the removal of an event the queue has nothing of it but another removal, so no
  addition can follow unless the process ends.
* `PluginProofs!RowsTellApart` (`RSpec => []RowsTellTheAnswers`: each mark of a row
  stands for one answer, though not for the one the code means) and
  `MapIsFinal` (`RSpec => []NothingChecksWhilePublishing`), from `AccessInv`: what
  a goroutine has is the answer of the server or its own (`HeardOf`), what is
  stored is final (`StoredInv`), and whoever has answers is still counted or has stored
  (`AskedInv`).
* `PluginProofs!NilIsHonest`: `PSpec => []NilMeansPublished`, for every
  world, from `ReturnInv`: a run goes on after a failure only in the plugins that
  drop it. `Effects` reduces the steps of the nine plugins to three.
* `PluginProofs!ReportsAreComplete`: `PSpec => []MissingHasACause`. `QueuesInv` types
  the loops of a run and `ItemsInv` follows each item from the listing (where it may
  be excused) through `todo`, its scan and `batch` to `published` or `lost`.
  `QueueEffects` reduces the plugins to six steps; `ListImagesKeepsFirst` is the
  loop that removes duplicates, by induction over its index.
* `PluginProofs!DeletedIsTrue` (`DeletedIsDeleted`) and `DeprecatedIsComplete`
  (`DeprecatedIsSeen`). `DetectorInv` says that what the detector has found
  (`Found`) is in its queue, published or lost; the rest is about `getResults`.
  The proof corrected the property: an API of a custom resource is excused if
  *every* preferred version of the group of custom resources could not be read; a
  version that is served and not preferred is never read and excuses nothing.
* `PluginProofs!LagIsTrue` (`LagIsRight`): what `ParseImage` counts, for every registry, in which the
  tags may be any number. The lemmas follow the code: `SortedOf` (finitely many
  versions can be put in order, and then their numbers are), `NoOutliers` (without a
  far major number nothing is cut off), `UniqueOf` (of every number a tag is kept, and
  the running one unless it has a twin), `Counted` (the loop leaves the running
  version and one of each number above it, by induction over its index), and
  `BehindCounted`, which joins them. `ImagesInv` says of the run that its answers are
  answers about its images. The proof made the property stronger: it had been
  stated only for registries in which no version has a twin, and only a twin of the
  running version matters.

TLAPS has no induction over data with an operator as its parameter. Where a loop
needs it, the induction is about the members of a set: `LeastNatural` (a set of
naturals has a least element, from the well-foundedness of `<`) gives
`UptoInduction`, and this `LoopExists`, that the states of a loop exist, without
which nothing is known of a recursive function.

Assumptions: those named `...Assumption` in the modules, which TLC evaluates for
the instances. Every message belongs to a modelled consumer and has an outcome and
a number of transactions, and `None` is no message (`ClientDelivery`); jobs are
plugins of the collection; the events of a cluster are finitely many, and so are
the items of a run, their reports, and the resources it meets (`RunsAssumption`);
the containers of the pods are numbered and the numbers of a tag are natural
(`ImagesAssumption`), and those of the pod of an event counted (`ContainersAssumption`); bounds are
natural numbers.

Every invariant and action property of the passing runs is proved. Only
model-checked is liveness (`EverythingSettles`, `ComesUp`, `KeptRowIsExported`,
`RoomReturns`, `PluginsKeepRunning`), because TLAPS has no fairness or ENABLED
reasoning. The properties of the four runs that expect a violation are false.

## 5. Where the code and its documentation disagree

1. One message can end the client and lose another's report
   (`delivery_loss`; `bridge_client.go:254`, README.md:45). Acknowledging first
   is also what makes `EverythingSettles` true: the killer does not come back,
   unless its panic overtakes the flush of its ack. A push of Gitea without a
   repository or an author (`bridge_client.go:224`, `:232`) and a Kuberhealthy
   check that has not run yet (`db_client.go:416`) kill it in the same way.
2. Installing the agent does not end the client's crash loop while the bridges
   are disabled (`lifecycle_install`; `clients.go:69`, README.md:121,
   `charts/agent/values.yaml:49` and `:91`).
3. What the container bridge answers 200 need not reach the stream
   (`bridge_answer`; `nats_client.go:155`, `azure_container.go:22`).
4. A rollout can leave durables without a subscriber (`lifecycle_rollout`;
   `kubviz_client.go:39`), and so can one request without an answer
   (`UpMeansSubscribed` names it).

The rest is what a passing run names as the exception of its property:

5. The export marks rows it has not uploaded (`MarkHasACause` names the two
   causes; `store.go:65` and `:37`).
6. With `AWS_ENABLE` the one SIGTERM of Kubernetes stops the export and not the
   client (`ClosesInTime`; `application.go:115`).
7. A deletion the watch has missed ends the agent (`OnlyExpiredEventsKill`;
   `event_metrics_utils.go:198`).
8. A verb that is denied is published as an empty cell, one that does not apply
   as a refusal (`RowsTellTheAnswers` states what each mark stands for;
   `rakees_agent.go:27`).
9. An image can be reported as 0 versions behind when the registry has another
   tag of its version (`LagIsRight` excepts it; `outdated.go:517`).
10. A list call that fails makes the detector panic, which ends the agent except
    in a cron job (`PluginsKeepRunning`; `kubePreUpgrade.go:298`).
11. A migration that is cut leaves a schema no later start repairs (`ComesUp`;
    `cmd/cli/config/utils.go:119`).
12. The GitHub watch of the container bridge runs once, over one page
    (`MissingHasACause`; `githubmodule.go:63`).
13. The TTL deletes rows that were never exported when it is shorter than a day, as
    in the example of `docs/CONFIGURATION_TTL.md:14`, or when the export fails for
    as long (`KeptRowIsExported` names it; `sql/000001_events.up.sql:20`).

## 6. Where the models are coarser than the code

* `AgentProcess`: one plugin without state stands for six; two runs on one file
  are over-approximated (the reader may find it whole or not); the tick of a job
  that is skipped is no step.
* `EventWatch`: the DeltaFIFO is one queue, where client-go groups the deltas of
  an object that have not been popped; for the handlers only their order per
  event matters, which is kept. Version numbers stand for the changes. A pod that
  has gone does not come back: the code looks pods up by name, so an event may in
  the program be published with the images of a later pod of the same name. The
  images of a pod do not change while it exists.
* `OutdatedVersions`: equal versions come in one order, though any (`sort.Sort` and
  a map leave it open); that the answer does not depend on it is proved where
  `LagIsTrue` applies, and elsewhere only one order is seen. A registry
  gives its dates or none. The dates of the version path are computed by the
  code and dropped, and are not modelled.
* `CollectPlugins`: the content of a report is its number; the resources of ketall come in any order.
* `SchemaMigration`: each file creates its table; the rewriting of the templates
  before the first statement and the flags of the command are left out.
* `ClientLifecycle`: the flush of the traces at the end of `main`
  (`tp.Shutdown(context.Background())`, `client/main.go:22`, deferred without a
  deadline) is no step: it comes after the connections have been closed, so that a
  kill there ends what `Exit` ends. That `Close` itself fits the grace period is
  assumed. In `AgentProcess` the same flush is a step (`Leave`).
* `ExpiredDataExport`: `Expire` may come at any moment, in particular before
  `ExpiryDate`; a row that a run has read is uploaded whether or not it expires then.
* `AgentProcess!PluginsKeepRunning` excepts a first collection that hangs: it does
  not say that this cannot happen, which is false, but that nothing else stops the others.
* `ClientDelivery`, `WebhookBridge`: column values and headers only as far as a
  branch reads them.

## 7. Not modelled

* The start of the bridges and of the agent up to the first collection: each
  connection or stream that fails there ends the process, which is `OtherEnd`,
  `End` and `Restart` in the models, and keeps nothing.
* `RemoveJob`, `GetJobs`, `Diff`, `Table` and the other commands of rakkess, and
  the read functions `Retrive*` of `DBClient`: nothing in the repository calls
  them.
* The text of the CSV export; the profiling server of the agent; the SDK, which
  only an example uses; `pkg/mtlsnats` and `pkg/opentelemetry`, which read files
  and wire libraries; data types, generated code, dashboards and charts, except
  for what the modules quote of them.

## 8. Plan

Done: the client from the stream to the database and to S3 with its schema and
its deployment, the two bridges, and the agent: its process, its watch and all
its plugins. In order of what is next:

1. An abstract contract of the agent's plugins (what is listed is published or
   lost), which `CollectPlugins` and `RakkessAccess` would both refine.
2. `WebhookContract` joined to `DeliveryContract`, what the one has stored being
   what the other sends, so that one statement reaches from the webhook to the
   table.
3. The lemmas that liveness rests on and that are safety: a measure which every
   fair step of `ClientDelivery` lowers.
