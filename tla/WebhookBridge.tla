---------------------------- MODULE WebhookBridge ----------------------------
(***************************************************************************)
(* The git and the container bridge: HTTP servers that publish webhooks to *)
(* a JetStream stream.                                                     *)
(*                                                                         *)
(* Each request runs on a goroutine of its own.  Its handler checks the    *)
(* webhook, hands the event to PublishMsgAsync and answers; nobody waits   *)
(* for the acknowledgement of the server.  The git bridge drops the error  *)
(* of the publication, the container bridge answers 500.  main waits for   *)
(* SIGTERM, closes the NATS connection and then shuts the server down;     *)
(* meanwhile the goroutine of Start calls log.Fatalf as soon as the        *)
(* listener is closed.                                                     *)
(*                                                                         *)
(* nats.go is modelled from how the bridges use it: published bytes wait   *)
(* in a buffer, also while it reconnects, until that is full; it keeps the *)
(* publications that await an acknowledgement, up to a limit, and does not *)
(* forget those whose acknowledgement was lost with a connection; after    *)
(* sixty attempts to reconnect it closes the connection for good.          *)
(***************************************************************************)
EXTENDS Naturals, Sequences, FiniteSets, Functions

CONSTANTS
  Event,       \* the webhooks that may be sent: see Verdict
  BufferSize,  \* publications the buffer holds while nats.go reconnects
  MaxPending,  \* publications that may await an acknowledgement
  MaxFaults    \* bound on connections lost, refusals, kills

GitProviders == {"Gitea", "Github", "Gitlab", "BitBucket", "AzureDevops"}
Registries   == {"Dockerhub_Registry", "Azure_Container_Registry",
                 "Quay_Container_Registry", "Jfrog_Container_Registry"}

ASSUME EventAssumption == \A e \in Event : e.provider \in GitProviders \cup Registries
ASSUME BoundAssumption ==
  BufferSize \in Nat /\ MaxPending \in Nat /\ MaxFaults \in Nat

VARIABLES
  bridge,   \* which of the two programs this is
  phase,    \* where the process is
  link,     \* the connection to NATS
  req,      \* where the request of each event is
  outbox,   \* publications in the buffers of the connection
  pending,  \* publications whose acknowledgement nats.go waits for
  stored,   \* events in the stream
  faults,   \* number of faults so far
  lost,     \* history: publications lost with a connection
  rejected, \* history: publications the server refused
  unsent,   \* history: publications that returned an error
  orphaned  \* history: publications whose acknowledgement cannot arrive

history == <<lost, rejected, unsent, orphaned>>
vars == <<bridge, phase, link, req, outbox, pending, stored, faults, history>>

Phases   == {"down", "serving", "closing", "draining"}
Links    == {"up", "reconnecting", "closed"}
Answered == {"ok", "error"}
Requests == {"new", "open", "published", "failed", "cut"} \cup Answered

Inject == faults < MaxFaults /\ faults' = faults + 1

-----------------------------------------------------------------------------
(* An event has the fields provider; header, whether the event type is     *)
(* there (Azure DevOps has it in the body, a container event has none);    *)
(* and body, "full", "huge" (more than the server accepts in a message) or *)
(* what is wrong with it: "cut" (the body could not be read), "empty",     *)
(* "garbled" (no JSON).                                                    *)

TooLarge(e) == e.body = "huge"
Whole(e)    == e.body = "full" \/ TooLarge(e)

(* Without the header the Gitea handler returns without a status, which is *)
(* 200; it publishes what it could read of a body that breaks off.         *)
GiteaVerdict(e) == IF e.header THEN "publish" ELSE "ignore"

HeaderVerdict(e) == IF e.header /\ e.body # "cut" THEN "publish" ELSE "reject"

AzureVerdict(e) == IF e.header /\ Whole(e) THEN "publish" ELSE "reject"

DockerVerdict(e) == IF e.body \in {"cut", "empty"} THEN "reject" ELSE "publish"

RegistryVerdict(e) == IF Whole(e) THEN "publish" ELSE "reject"

Verdict(e) ==
  CASE e.provider = "Gitea"                             -> GiteaVerdict(e)
    [] e.provider \in {"Github", "Gitlab", "BitBucket"} -> HeaderVerdict(e)
    [] e.provider = "AzureDevops"                       -> AzureVerdict(e)
    [] e.provider = "Dockerhub_Registry"                -> DockerVerdict(e)
    [] OTHER                                            -> RegistryVerdict(e)

Providers == IF bridge = "git" THEN GitProviders ELSE Registries

Init ==
  /\ bridge \in {"git", "container"}
  /\ phase = "serving" /\ link = "up"
  /\ req = [e \in Event |-> "new"]
  /\ outbox = <<>> /\ pending = {} /\ stored = {}
  /\ faults = 0
  /\ lost = {} /\ rejected = {} /\ unsent = {} /\ orphaned = {}

-----------------------------------------------------------------------------
(* The handler of one request.                                             *)

To(e, where) == req' = [req EXCEPT ![e] = where]

(* The listener is open until Shutdown.                                    *)
Open(e) ==
  /\ phase \in {"serving", "closing"}
  /\ req[e] = "new" /\ e.provider \in Providers
  /\ To(e, "open")
  /\ UNCHANGED <<bridge, phase, link, outbox, pending, stored, faults, history>>

Reject(e) ==
  /\ req[e] = "open" /\ Verdict(e) = "reject"
  /\ To(e, "error")
  /\ UNCHANGED <<bridge, phase, link, outbox, pending, stored, faults, history>>

Ignore(e) ==
  /\ req[e] = "open" /\ Verdict(e) = "ignore"
  /\ To(e, "ok")
  /\ UNCHANGED <<bridge, phase, link, outbox, pending, stored, faults, history>>

(* PublishMsgAsync waits a moment for room, and then gives up; it refuses  *)
(* by itself what is larger than the server has said it accepts.           *)
Room     == Cardinality(pending) + 1 < MaxPending
Writable == link = "up" \/ (link = "reconnecting" /\ Len(outbox) < BufferSize)
CanPublish(e) == Room /\ Writable /\ ~TooLarge(e)

(* Mutant: the handler tries again without waiting for the first attempt.  *)
PublishAgain(e) ==
  /\ req[e] = "open" /\ Verdict(e) = "publish"
  /\ CanPublish(e)
  /\ outbox' = Append(outbox, e)
  /\ pending' = pending \cup {e}
  /\ \/ To(e, "published") \/ UNCHANGED req
  /\ UNCHANGED <<bridge, phase, link, stored, faults, history>>

Publish(e) ==
  /\ req[e] = "open" /\ Verdict(e) = "publish"
  /\ CanPublish(e)
  /\ outbox' = Append(outbox, e)
  /\ pending' = pending \cup {e}
  /\ To(e, "published")
  /\ UNCHANGED <<bridge, phase, link, stored, faults, history>>

(* Mutant: a publication that fails still awaits an acknowledgement.       *)
PublishFailsPending(e) ==
  /\ req[e] = "open" /\ Verdict(e) = "publish"
  /\ ~CanPublish(e)
  /\ unsent' = unsent \cup {e}
  /\ pending' = pending \cup {e}
  /\ To(e, "failed")
  /\ UNCHANGED <<bridge, phase, link, outbox, stored, faults, lost, rejected, orphaned>>

PublishFails(e) ==
  /\ req[e] = "open" /\ Verdict(e) = "publish"
  /\ ~CanPublish(e)
  /\ unsent' = unsent \cup {e}
  /\ To(e, "failed")
  /\ UNCHANGED <<bridge, phase, link, outbox, pending, stored, faults, lost, rejected, orphaned>>

(* Mutant: the test of the error is inverted.                              *)
AnswerError(e) ==
  /\ req[e] = "published"
  /\ To(e, "error")
  /\ UNCHANGED <<bridge, phase, link, outbox, pending, stored, faults, history>>

AnswerPublished(e) ==
  /\ req[e] = "published"
  /\ To(e, "ok")
  /\ UNCHANGED <<bridge, phase, link, outbox, pending, stored, faults, history>>

(* Mutant: the container handlers ignore what Publish returns, too.        *)
AnswerFailedOk(e) ==
  /\ req[e] = "failed"
  /\ To(e, "ok")
  /\ UNCHANGED <<bridge, phase, link, outbox, pending, stored, faults, history>>

(* The git handlers ignore what Publish returns.                           *)
AnswerFailed(e) ==
  /\ req[e] = "failed"
  /\ To(e, IF bridge = "git" THEN "ok" ELSE "error")
  /\ UNCHANGED <<bridge, phase, link, outbox, pending, stored, faults, history>>

-----------------------------------------------------------------------------
(* The connection and the server.                                          *)

Store ==
  /\ link = "up" /\ outbox # <<>>
  /\ stored' = stored \cup {Head(outbox)}
  /\ pending' = pending \ {Head(outbox)}
  /\ outbox' = Tail(outbox)
  /\ UNCHANGED <<bridge, phase, link, req, faults, history>>

(* The stream is gone or full, or has no leader.                           *)
Refuse ==
  /\ link = "up" /\ outbox # <<>>
  /\ Inject
  /\ rejected' = rejected \cup {Head(outbox)}
  /\ pending' = pending \ {Head(outbox)}
  /\ outbox' = Tail(outbox)
  /\ UNCHANGED <<bridge, phase, link, req, stored, lost, unsent, orphaned>>

(* The connection breaks when n publications have been written, of which   *)
(* the server has stored the first k; no acknowledgement arrives.          *)
Disconnect ==
  /\ link = "up" /\ phase # "down"
  /\ Inject
  /\ link' = "reconnecting"
  /\ \E n \in 0..Len(outbox) : \E k \in 0..n :
       /\ stored' = stored \cup {outbox[i] : i \in 1..k}
       /\ lost' = lost \cup {outbox[i] : i \in (k + 1)..n}
       /\ orphaned' = orphaned \cup {outbox[i] : i \in 1..n}
       /\ outbox' = SubSeq(outbox, n + 1, Len(outbox))
  /\ UNCHANGED <<bridge, phase, req, pending, rejected, unsent>>

Reconnect ==
  /\ link = "reconnecting"
  /\ link' = "up"
  /\ UNCHANGED <<bridge, phase, req, outbox, pending, stored, faults, history>>

(* The buffer is dropped, and nothing tells the bridge.                    *)
LoseOutbox ==
  /\ outbox' = <<>>
  /\ lost' = lost \cup Range(outbox)

GiveUp ==
  /\ link = "reconnecting"
  /\ link' = "closed"
  /\ LoseOutbox /\ orphaned' = orphaned \cup pending
  /\ UNCHANGED <<bridge, phase, req, pending, stored, faults, rejected, unsent>>

-----------------------------------------------------------------------------
(* The process.                                                            *)

(* The process ends, and with it the requests it has open.                 *)
End ==
  /\ phase' = "down" /\ link' = "closed"
  /\ LoseOutbox /\ pending' = {} /\ orphaned' = {}
  /\ req' = [e \in Event |->
       IF req[e] \in {"open", "published", "failed"} THEN "cut" ELSE req[e]]
  /\ UNCHANGED <<bridge, stored, rejected, unsent>>

(* SIGTERM: Close first closes the connection, which sends what is written *)
(* if it is up.                                                            *)
CloseNats ==
  /\ phase = "serving"
  /\ phase' = "closing" /\ link' = "closed"
  /\ IF link = "up"
     THEN stored' = stored \cup Range(outbox) /\ outbox' = <<>> /\ UNCHANGED lost
     ELSE LoseOutbox /\ UNCHANGED stored
  /\ orphaned' = orphaned \cup pending
  /\ UNCHANGED <<bridge, req, pending, faults, rejected, unsent>>

(* Mutant: main goes on waiting after Shutdown.                            *)
ShutdownStays ==
  /\ phase = "closing"
  /\ phase' = "waiting"
  /\ UNCHANGED <<bridge, link, req, outbox, pending, stored, faults, history>>

(* Shutdown closes the listener.                                           *)
Shutdown ==
  /\ phase = "closing"
  /\ phase' = "draining"
  /\ UNCHANGED <<bridge, link, req, outbox, pending, stored, faults, history>>

(* log.Fatalf in Start, which ListenAndServe has just returned to, or the  *)
(* end of main, once Shutdown has seen every open request answered: the    *)
(* first can always come before the second.                                *)
ServerClosed ==
  /\ phase = "draining"
  /\ End /\ UNCHANGED faults

Kill ==
  /\ phase # "down"
  /\ Inject /\ End

(* Another container, or the next pod.                                     *)
Restart ==
  /\ phase = "down"
  /\ phase' = "serving" /\ link' = "up"
  /\ UNCHANGED <<bridge, req, outbox, pending, stored, faults, history>>

-----------------------------------------------------------------------------
Handle(e) ==
  \/ Reject(e) \/ Ignore(e) \/ Publish(e) \/ PublishFails(e)
  \/ AnswerPublished(e) \/ AnswerFailed(e)

Next ==
  \/ \E e \in Event : Open(e) \/ Handle(e)
  \/ Store \/ Refuse \/ Disconnect \/ Reconnect \/ GiveUp
  \/ CloseNats \/ Shutdown \/ ServerClosed \/ Kill \/ Restart

Spec == Init /\ [][Next]_vars

(* Goroutines run, the server works off what it is sent, nats.go goes on   *)
(* trying to reconnect, main goes on closing, the kubelet restarts.  No    *)
(* webhook, signal or fault need come.                                     *)
Fairness ==
  /\ \A e \in Event : WF_vars(Handle(e))
  /\ WF_vars(Store) /\ WF_vars(Reconnect \/ GiveUp)
  /\ WF_vars(Shutdown) /\ WF_vars(ServerClosed) /\ WF_vars(Restart)

FairSpec == Spec /\ Fairness

-----------------------------------------------------------------------------
TypeOK ==
  /\ bridge \in {"git", "container"}
  /\ phase \in Phases /\ link \in Links
  /\ req \in [Event -> Requests]
  /\ outbox \in Seq(Event)
  /\ pending \subseteq Event /\ stored \subseteq Event
  /\ faults \in 0..MaxFaults
  /\ lost \subseteq Event /\ rejected \subseteq Event
  /\ unsent \subseteq Event /\ orphaned \subseteq Event

(* An event that is to be published and was answered 200 is in the stream  *)
(* or on its way, or was lost by the connection or refused by the server,  *)
(* which may be before the answer or after it, as nobody waits for either; *)
(* only the git bridge answers 200 for a publication whose call returned   *)
(* an error.                                                               *)
OkLossHasACause ==
  \A e \in Event : req[e] = "ok" /\ Verdict(e) = "publish" =>
    \/ e \in stored \cup Range(outbox) \cup lost \cup rejected
    \/ bridge = "git" /\ e \in unsent

(* An event whose sender is told of an error is not in the stream and does *)
(* not get there, so that a sender who tries again makes no duplicate:     *)
(* PublishMsgAsync fails before it writes anything.                        *)
ErrorMeansUnsent ==
  \A e \in Event : req[e] = "error" => e \notin stored \cup Range(outbox)

(* The bridge implements the contract between the senders of webhooks and  *)
(* the stream: the git bridge is the one that hides failures.              *)
Contract == INSTANCE WebhookContract WITH
  hides <- bridge = "git",
  answer <- [e \in Event |-> IF req[e] \in {"open", "published", "failed"}
                            THEN "waiting" ELSE req[e]],
  underway <- Range(outbox),
  gone <- lost \cup rejected

ImplementsContract == Contract!ContractSpec

(* The bridge does not stay without room for publications, unless          *)
(* acknowledgements were lost with a connection: those take room for ever. *)
RoomReturns == (~Room) ~> (Room \/ orphaned # {})

(* agent/container/pkg/handler/azure_container.go: "If the payload is      *)
(* invalid or the publishing process fails, an error response is           *)
(* returned": what the container bridge answers 200 gets into the stream.  *)
OkMeansStored ==
  \A e \in Event : bridge = "container" /\ req[e] = "ok" ~> e \in stored
=============================================================================
