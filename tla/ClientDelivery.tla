--------------------------- MODULE ClientDelivery ---------------------------
(***************************************************************************)
(* The kubviz client between NATS JetStream and ClickHouse.                *)
(*                                                                         *)
(* Every subscription is a durable push consumer with manual              *)
(* acknowledgement.  nats.go keeps a queue of delivered messages per       *)
(* subscription and runs its handler on one goroutine, so each             *)
(* subscription handles one message at a time and different subscriptions  *)
(* interleave.  A handler first acknowledges the message (the ack goes to  *)
(* the write buffer of the connection), then decodes it, then commits one  *)
(* or several transactions.  log.Fatal or a panic in any handler ends the  *)
(* whole process, with the queues, the write buffer and the other handlers.*)
(*                                                                         *)
(* The broker is modelled from how the client uses it: it hands out a      *)
(* message of the stream, hands it out again when AckWait has passed       *)
(* without an ack, and stops when the ack arrives.  The order of first     *)
(* deliveries is left open: no property depends on it.                     *)
(***************************************************************************)
EXTENDS ClientHandlers, Sequences, FiniteSets, Functions

CONSTANTS
  Message,     \* the messages that may be published, records of ClientHandlers
  Consumer,    \* the durable consumers in the model
  None,        \* a handler slot that holds no message
  MaxPublished,\* bound on the number of messages published
  MaxFaults,   \* bound on the number of faults: see Inject
  MaxRows      \* bound on the rows of a message whose ack may still be lost: see Die

ASSUME MessageAssumption ==
  \A m \in Message : /\ m.consumer \in Consumer
                     /\ Outcome(m) \in Outcomes
                     /\ Transactions(m) \in Nat
ASSUME ConsumerAssumption == Consumer \subseteq Consumers
ASSUME NoneAssumption == None \notin Message
ASSUME FaultAssumption == MaxFaults \in Nat /\ MaxRows \in Nat

VARIABLES
  stream,      \* messages published to the streams
  taken,       \* messages the broker has handed out at least once
  acked,       \* messages whose ack has reached the broker
  phase,       \* where the client process is in its life
  inbox,       \* delivered messages waiting in each subscription
  handling,    \* the message each handler works on
  step,        \* where each handler is
  left,        \* transactions each handler still has to commit
  ackbuf,      \* acks in the write buffer of the connection
  rows,        \* transactions committed for each message
  faults,      \* number of faults so far
  interrupted, \* history: acknowledged, and in a handler when the process died
  skipped,     \* history: acknowledged, and let go, or stored with a row less
  reoffered    \* history: may be handled twice

brokerVars  == <<stream, taken, acked>>
handlerVars == <<handling, step, left>>
history     == <<interrupted, skipped, reoffered>>
vars == <<brokerVars, phase, inbox, handlerVars, ackbuf, rows, faults, history>>

Phases == {"down", "running", "closing", "dbclosed"}
Steps  == {"idle", "received", "acked", "insert", "tx"}

(* The client holds a copy of m, or an ack of m that is not sent yet.      *)
InHand(m) == m \in Range(inbox[m.consumer]) \/ handling[m.consumer] = m
Held(m)   == InHand(m) \/ m \in Range(ackbuf)

(* k faults happen in this step.  A fault is a SIGTERM or SIGKILL, an      *)
(* AckWait that passes while the client holds the message, or a Begin,     *)
(* Prepare, Exec or Commit that fails.                                     *)
Inject(k) ==
  /\ faults + k <= MaxFaults
  /\ faults' = faults + k

Init ==
  /\ stream = {} /\ taken = {} /\ acked = {}
  /\ phase = "running"
  /\ inbox = [c \in Consumer |-> <<>>]
  /\ handling = [c \in Consumer |-> None]
  /\ step = [c \in Consumer |-> "idle"]
  /\ left = [c \in Consumer |-> 0]
  /\ ackbuf = <<>>
  /\ rows = [m \in Message |-> 0]
  /\ faults = 0
  /\ interrupted = {} /\ skipped = {} /\ reoffered = {}

-----------------------------------------------------------------------------
(* The broker.                                                             *)

Publish(m) ==
  /\ m \notin stream
  /\ Cardinality(stream) < MaxPublished
  /\ stream' = stream \cup {m}
  /\ UNCHANGED <<taken, acked, phase, inbox, handlerVars, ackbuf, rows, faults, history>>

Deliver(m) ==
  /\ phase = "running"
  /\ m \in stream \ taken
  /\ taken' = taken \cup {m}
  /\ inbox' = [inbox EXCEPT ![m.consumer] = Append(@, m)]
  /\ UNCHANGED <<stream, acked, phase, handlerVars, ackbuf, rows, faults, history>>

(* AckWait is over and no ack has arrived.  A client that died has nothing *)
(* in hand; one that is alive gets a second copy.                          *)
Redeliver(m) ==
  /\ phase = "running"
  /\ m \in taken \ acked
  /\ IF Held(m)
     THEN Inject(1) /\ reoffered' = reoffered \cup {m}
     ELSE UNCHANGED <<faults, reoffered>>
  /\ inbox' = [inbox EXCEPT ![m.consumer] = Append(@, m)]
  /\ UNCHANGED <<brokerVars, phase, handlerVars, ackbuf, rows, interrupted, skipped>>

(* The connection sends its write buffer in the order it was written.      *)
FlushAck ==
  /\ ackbuf # <<>>
  /\ acked' = acked \cup {Head(ackbuf)}
  /\ ackbuf' = Tail(ackbuf)
  /\ UNCHANGED <<stream, taken, phase, inbox, handlerVars, rows, faults, history>>

-----------------------------------------------------------------------------
(* The death of the process.                                               *)

(* The messages a handler has acknowledged and not finished.               *)
Unfinished == {handling[c] : c \in {d \in Consumer : step[d] \in {"acked", "insert", "tx"}}}

(* A process that dies has sent the first n acks of its write buffer; k    *)
(* faults made it die.  Losing the others is no fault: nothing flushes     *)
(* between msg.Ack() and a panic, so it may happen at every delivery.  The *)
(* guard on MaxRows only bounds how often a report is stored that way; a   *)
(* message that has no rows, as one that kills its handler, may lose its   *)
(* ack any number of times.                                                *)
Die(n, k) ==
  /\ phase' = "down"
  /\ Inject(k)
  /\ \A i \in (n + 1)..Len(ackbuf) : rows[ackbuf[i]] < MaxRows
  /\ acked' = acked \cup {ackbuf[i] : i \in 1..n}
  /\ reoffered' = reoffered \cup {ackbuf[i] : i \in (n + 1)..Len(ackbuf)}
  /\ interrupted' = interrupted \cup Unfinished
  /\ ackbuf' = <<>>
  /\ inbox' = [c \in Consumer |-> <<>>]
  /\ handling' = [c \in Consumer |-> None]
  /\ step' = [c \in Consumer |-> "idle"]
  /\ left' = [c \in Consumer |-> 0]
  /\ UNCHANGED <<stream, taken, rows, skipped>>

-----------------------------------------------------------------------------
(* The handler of subscription c.                                          *)

Receive(c) ==
  /\ phase = "running"
  /\ step[c] = "idle" /\ inbox[c] # <<>>
  /\ handling' = [handling EXCEPT ![c] = Head(inbox[c])]
  /\ inbox' = [inbox EXCEPT ![c] = Tail(@)]
  /\ step' = [step EXCEPT ![c] = "received"]
  /\ UNCHANGED <<brokerVars, phase, left, ackbuf, rows, faults, history>>

(* Mutants: a handler without the call of msg.Ack(), and one that calls it *)
(* after decoding.                                                         *)
AckForgotten(c) ==
  /\ step[c] = "received"
  /\ step' = [step EXCEPT ![c] = "acked"]
  /\ UNCHANGED <<brokerVars, phase, inbox, handling, left, ackbuf, rows, faults, history>>

AckDecoded(c) ==
  /\ step[c] = "received"
  /\ step' = [step EXCEPT ![c] = "acked"]
  /\ ackbuf' = IF Outcome(handling[c]) = "die" THEN ackbuf ELSE Append(ackbuf, handling[c])
  /\ UNCHANGED <<brokerVars, phase, inbox, handling, left, rows, faults, history>>

(* msg.Ack(), whose error is ignored: on a closed connection it does       *)
(* nothing, and the handler goes on.                                       *)
Ack(c) ==
  /\ step[c] = "received"
  /\ step' = [step EXCEPT ![c] = "acked"]
  /\ IF phase = "running"
     THEN ackbuf' = Append(ackbuf, handling[c]) /\ UNCHANGED reoffered
     ELSE reoffered' = reoffered \cup {handling[c]} /\ UNCHANGED ackbuf
  /\ UNCHANGED <<brokerVars, phase, inbox, handling, left, rows, faults, interrupted, skipped>>

Return(c) ==
  /\ handling' = [handling EXCEPT ![c] = None]
  /\ step' = [step EXCEPT ![c] = "idle"]
  /\ left' = [left EXCEPT ![c] = 0]

Skip(c) ==
  /\ Return(c)
  /\ skipped' = skipped \cup {handling[c]}
  /\ UNCHANGED <<brokerVars, phase, inbox, ackbuf, rows, interrupted, reoffered>>

(* Mutant: the loop over the findings stops one short.                     *)
DecodeOneShort(c) ==
  /\ step[c] = "acked"
  /\ Outcome(handling[c]) = "insert"
  /\ step' = [step EXCEPT ![c] = "insert"]
  /\ left' = [left EXCEPT ![c] = Transactions(handling[c]) - 1]
  /\ UNCHANGED <<brokerVars, phase, inbox, handling, ackbuf, rows, faults, history>>

(* json.Unmarshal and the branches on headers and body.                    *)
DecodeInsert(c) ==
  /\ step[c] = "acked"
  /\ Outcome(handling[c]) \in {"insert", "abandon"}
  /\ step' = [step EXCEPT ![c] = "insert"]
  /\ left' = [left EXCEPT ![c] = Transactions(handling[c])]
  /\ UNCHANGED <<brokerVars, phase, inbox, handling, ackbuf, rows, faults, history>>

(* Mutant: log.Fatal where the handler logs and returns.                   *)
DecodeSkipFatal(c) ==
  /\ step[c] = "acked"
  /\ Outcome(handling[c]) = "return"
  /\ \E n \in 0..Len(ackbuf) : Die(n, 0)

DecodeSkip(c) ==
  /\ step[c] = "acked"
  /\ Outcome(handling[c]) = "return"
  /\ Skip(c) /\ UNCHANGED faults

DecodeDie(c) ==
  /\ step[c] = "acked"
  /\ Outcome(handling[c]) = "die"
  /\ \E n \in 0..Len(ackbuf) : Die(n, 0)

(* Mutant: the loop over the findings is not bounded.                      *)
BeginTxUnbounded(c) ==
  /\ step[c] = "insert"
  /\ phase # "dbclosed"
  /\ step' = [step EXCEPT ![c] = "tx"]
  /\ UNCHANGED <<brokerVars, phase, inbox, handling, left, ackbuf, rows, faults, history>>

BeginTx(c) ==
  /\ step[c] = "insert" /\ left[c] > 0
  /\ phase # "dbclosed"
  /\ step' = [step EXCEPT ![c] = "tx"]
  /\ UNCHANGED <<brokerVars, phase, inbox, handling, left, ackbuf, rows, faults, history>>

(* Mutant: a commit that took effect is tried again.                       *)
CommitTwice(c) ==
  /\ step[c] = "tx" /\ Outcome(handling[c]) = "insert"
  /\ rows' = [rows EXCEPT ![handling[c]] = @ + 2]
  /\ left' = [left EXCEPT ![c] = @ - 1]
  /\ step' = [step EXCEPT ![c] = "insert"]
  /\ UNCHANGED <<brokerVars, phase, inbox, handling, ackbuf, faults, history>>

CommitTx(c) ==
  /\ step[c] = "tx" /\ Outcome(handling[c]) = "insert"
  /\ rows' = [rows EXCEPT ![handling[c]] = @ + 1]
  /\ left' = [left EXCEPT ![c] = @ - 1]
  /\ step' = [step EXCEPT ![c] = "insert"]
  /\ UNCHANGED <<brokerVars, phase, inbox, handling, ackbuf, faults, history>>

AbandonTx(c) ==
  /\ step[c] = "tx" /\ Outcome(handling[c]) = "abandon"
  /\ Skip(c) /\ UNCHANGED faults

(* Mutant: a return inside the loop over the findings.                     *)
FinishEarly(c) ==
  /\ step[c] = "insert"
  /\ Return(c)
  /\ UNCHANGED <<brokerVars, phase, inbox, ackbuf, rows, faults, history>>

(* Everything is committed and the handler returns.                        *)
Finish(c) ==
  /\ step[c] = "insert" /\ left[c] = 0
  /\ Return(c)
  /\ UNCHANGED <<brokerVars, phase, inbox, ackbuf, rows, faults, history>>

(* A call the database refuses: Begin on the closed handle always, any     *)
(* call while ClickHouse is failing.                                       *)
CallsDb(c) == step[c] = "tx" \/ (step[c] = "insert" /\ left[c] > 0)
Refusal(c) == IF step[c] = "insert" /\ phase = "dbclosed" THEN 0 ELSE 1

InsertFails(c) ==
  /\ CallsDb(c)
  /\ ~DbErrorIsFatal(handling[c])
  /\ Skip(c) /\ Inject(Refusal(c))

InsertDies(c) ==
  /\ CallsDb(c)
  /\ DbErrorIsFatal(handling[c])
  /\ \E n \in 0..Len(ackbuf) : Die(n, Refusal(c))

(* An Exec that fails and is logged: the row is missing, the transaction   *)
(* goes on.                                                                *)
DropRow(c) ==
  /\ step[c] = "tx"
  /\ RowErrorIsLogged(handling[c])
  /\ Inject(1)
  /\ skipped' = skipped \cup {handling[c]}
  /\ UNCHANGED <<brokerVars, phase, inbox, handlerVars, ackbuf, rows, interrupted, reoffered>>

-----------------------------------------------------------------------------
(* The main goroutine and the pod.                                         *)

(* SIGTERM: Close() closes the NATS connection, which sends the write      *)
(* buffer and drops the queues; handlers that run are not waited for.      *)
CloseNats ==
  /\ phase = "running"
  /\ Inject(1)
  /\ phase' = "closing"
  /\ acked' = acked \cup Range(ackbuf)
  /\ ackbuf' = <<>>
  /\ inbox' = [c \in Consumer |-> <<>>]
  /\ UNCHANGED <<stream, taken, handlerVars, rows, history>>

CloseDb ==
  /\ phase = "closing"
  /\ phase' = "dbclosed"
  /\ UNCHANGED <<brokerVars, inbox, handlerVars, ackbuf, rows, faults, history>>

(* main returns; the write buffer is empty since CloseNats.                *)
Exit ==
  /\ phase = "dbclosed"
  /\ Die(Len(ackbuf), 0)

(* SIGKILL, an out-of-memory kill, the loss of the node.                   *)
Kill ==
  /\ phase # "down"
  /\ \E n \in 0..Len(ackbuf) : Die(n, 1)

(* The kubelet starts the container again and every consumer is bound.     *)
Restart ==
  /\ phase = "down"
  /\ phase' = "running"
  /\ UNCHANGED <<brokerVars, inbox, handlerVars, ackbuf, rows, faults, history>>

-----------------------------------------------------------------------------
Handler(c) ==
  \/ Receive(c) \/ Ack(c)
  \/ DecodeInsert(c) \/ DecodeSkip(c) \/ DecodeDie(c)
  \/ BeginTx(c) \/ CommitTx(c) \/ AbandonTx(c) \/ Finish(c)
  \/ InsertFails(c) \/ InsertDies(c) \/ DropRow(c)

Next ==
  \/ \E m \in Message : Publish(m) \/ Deliver(m) \/ Redeliver(m)
  \/ \E c \in Consumer : Handler(c)
  \/ FlushAck \/ CloseNats \/ CloseDb \/ Exit \/ Kill \/ Restart

Spec == Init /\ [][Next]_vars

(* What goes on by itself: the broker delivers, and delivers again what    *)
(* nobody holds; the flusher sends acks; the handler goroutines run; main  *)
(* finishes Close; the kubelet restarts the container.  Publishing,        *)
(* signals, kills, slow handlers and database failures need not happen.    *)
Fairness ==
  /\ \A m \in Message : WF_vars(Deliver(m)) /\ WF_vars(~Held(m) /\ Redeliver(m))
  /\ \A c \in Consumer :
       /\ WF_vars(Receive(c)) /\ WF_vars(Ack(c))
       /\ WF_vars(DecodeInsert(c) \/ DecodeSkip(c) \/ DecodeDie(c))
       /\ WF_vars(BeginTx(c) \/ CommitTx(c) \/ AbandonTx(c) \/ Finish(c))
       /\ WF_vars(InsertFails(c) \/ InsertDies(c))
  /\ WF_vars(FlushAck) /\ WF_vars(CloseDb) /\ WF_vars(Exit) /\ WF_vars(Restart)

FairSpec == Spec /\ Fairness

-----------------------------------------------------------------------------
TypeOK ==
  /\ stream \subseteq Message /\ taken \subseteq Message /\ acked \subseteq Message
  /\ phase \in Phases
  /\ inbox \in [Consumer -> Seq(Message)]
  /\ handling \in [Consumer -> Message \cup {None}]
  /\ step \in [Consumer -> Steps]
  /\ left \in [Consumer -> Nat]
  /\ ackbuf \in Seq(Message)
  /\ rows \in [Message -> Nat]
  /\ faults \in Nat
  /\ interrupted \subseteq Message /\ skipped \subseteq Message
  /\ reoffered \subseteq Message

(* A handler that is not idle has a message, and an idle one has none.     *)
HandlerOK == \A c \in Consumer : handling[c] = None <=> step[c] = "idle"

(* A handler of m past its Ack: still decoding or still committing.        *)
Working(m) == \E c \in Consumer : handling[c] = m /\ step[c] \in {"acked", "insert", "tx"}

(* The client answers for a message it has acknowledged: its report is     *)
(* stored, or a handler is at it, or it is known why it is not.            *)
Accounted(m) ==
  rows[m] >= Transactions(m) \/ Working(m) \/ m \in interrupted \/ m \in skipped

(* The broker forgets a message only once its report is stored, or a       *)
(* handler is at it, or for one of two reasons: the handler let it go      *)
(* (garbled, filtered or refused by the database), or the process died     *)
(* with it.  The second is the price of acknowledging first: nothing else  *)
(* - a redelivery, a slow handler, the shutdown order - loses a message.   *)
LossHasACause == \A m \in acked : Accounted(m)

(* A message its handler inserts is lost only by a fault or by another     *)
(* message: one whose handler ends the process all the handlers share.     *)
LossNeedsAnother ==
  faults = 0 /\ (\A p \in taken : Outcome(p) # "die") =>
    \A m \in acked : Outcome(m) = "insert" => rows[m] >= Transactions(m) \/ Working(m)

(* A report is stored twice only if the broker had reason to hand it out   *)
(* twice: AckWait ran out while the client had it, its ack was lost with   *)
(* the process, or was written to a connection Close had already closed.   *)
DuplicateHasACause ==
  \A m \in Message : rows[m] > Transactions(m) => m \in reoffered

(* A report is stored whole, unless a handler is in the middle of it or    *)
(* the process died, or the database refused, in the middle of it: the two *)
(* Trivy inserts commit row by row, and that of kube-score drops rows.     *)
WholeReports ==
  \A m \in Message :
    \/ \E k \in 0..rows[m] : rows[m] = k * Transactions(m)
    \/ Working(m) \/ m \in interrupted \/ m \in skipped

(* The client implements the contract between the stream and the database. *)
Contract == INSTANCE DeliveryContract WITH
  sent <- stream, settled <- acked, stored <- rows,
  inHand <- {m \in Message : InHand(m)}

ImplementsContract == Contract!ContractSpec

(* The process dies and takes the ack of m with it, unsent.                *)
AckLost(m) == phase' = "down" /\ m \in Range(ackbuf) \ acked'

(* Every published message is settled in the end, whatever messages kill   *)
(* the process on the way: a message that kills it is acknowledged before  *)
(* it does.  There is one exception, and no other: the panic wins the race *)
(* against the flusher at every delivery of such a message, which then     *)
(* comes back for ever and keeps the others from being handled.            *)
EverythingSettles ==
  \/ \E p \in {q \in Message : Outcome(q) = "die"} : []<><<AckLost(p)>>_vars
  \/ \A m \in Message : m \in stream ~> m \in acked

(* README.md: "KubViz client receives the events and passes it to          *)
(* Clickhouse database".                                                   *)
EveryEventStored ==
  \A m \in Message :
    Outcome(m) = "insert" => (m \in stream ~> rows[m] >= Transactions(m))
=============================================================================
