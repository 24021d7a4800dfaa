------------------------ MODULE ClientDeliveryProofs ------------------------
(***************************************************************************)
(* Proofs about ClientDelivery, for every set of messages and consumers    *)
(* and every number of faults.                                             *)
(***************************************************************************)
EXTENDS ClientDelivery, SequenceRanges, TLAPS

USE MessageAssumption, ConsumerAssumption, NoneAssumption, FaultAssumption

-----------------------------------------------------------------------------
(* Type correctness.                                                       *)

(* A transaction is only open for a row that is still to be committed.     *)
TxOK == \A c \in Consumer : step[c] = "tx" => left[c] > 0

TypeInv == TypeOK /\ HandlerOK /\ TxOK

\* What nobody has finished are messages.
LEMMA UnfinishedType == TypeInv => Unfinished \subseteq Message
BY DEF TypeInv, TypeOK, HandlerOK, TxOK, Unfinished, Steps

\* A dead client has lost its memory and kept the types.
LEMMA DieType ==
  ASSUME TypeInv, NEW n \in 0..Len(ackbuf), NEW k \in Nat, Die(n, k)
  PROVE  TypeInv'
<1>1. acked' \subseteq Message /\ reoffered' \subseteq Message
  <2>1. ackbuf \in Seq(Message) /\ Len(ackbuf) \in Nat
    BY DEF TypeInv, TypeOK
  <2>2. ASSUME NEW i \in 1..Len(ackbuf) PROVE ackbuf[i] \in Message
    BY <2>1
  <2>3. 1..n \subseteq 1..Len(ackbuf) /\ (n + 1)..Len(ackbuf) \subseteq 1..Len(ackbuf)
    BY <2>1
  <2>4. {ackbuf[i] : i \in 1..n} \subseteq Message
    BY <2>2, <2>3, Zenon
  <2>5. {ackbuf[i] : i \in (n + 1)..Len(ackbuf)} \subseteq Message
    BY <2>2, <2>3, Zenon
  <2>6. acked \subseteq Message /\ reoffered \subseteq Message
    BY DEF TypeInv, TypeOK
  <2>7. QED
    BY <2>4, <2>5, <2>6, Zenon DEF Die
<1>2. interrupted' \subseteq Message
  BY UnfinishedType DEF Die, TypeInv, TypeOK
<1>3. faults' \in Nat
  BY DEF Die, TypeInv, TypeOK, Inject
<1>4. QED
  BY <1>1, <1>2, <1>3 DEF Die, TypeInv, TypeOK, HandlerOK, TxOK, Phases, Steps

\* A handler that returns is idle.
LEMMA ReturnType ==
  ASSUME TypeInv, NEW c \in Consumer, Return(c)
  PROVE  /\ handling' \in [Consumer -> Message \cup {None}]
         /\ step' \in [Consumer -> Steps]
         /\ left' \in [Consumer -> Nat]
         /\ HandlerOK' /\ TxOK'
BY DEF TypeInv, TypeOK, HandlerOK, TxOK, Return, Steps

LEMMA InitType == Init => TypeInv
BY DEF Init, TypeInv, TypeOK, HandlerOK, TxOK, Phases, Steps

LEMMA NextType == TypeInv /\ [Next]_vars => TypeInv'
<1> SUFFICES ASSUME TypeInv, [Next]_vars PROVE TypeInv'
  OBVIOUS
<1> USE DEF brokerVars, handlerVars, history
<1>1. ASSUME NEW m \in Message, Publish(m) PROVE TypeInv'
  BY <1>1 DEF Publish, TypeInv, TypeOK, HandlerOK, TxOK
<1>2. ASSUME NEW m \in Message, Deliver(m) PROVE TypeInv'
  BY <1>2 DEF Deliver, TypeInv, TypeOK, HandlerOK, TxOK
<1>3. ASSUME NEW m \in Message, Redeliver(m) PROVE TypeInv'
  BY <1>3 DEF Redeliver, Inject, TypeInv, TypeOK, HandlerOK, TxOK
<1>4. ASSUME NEW c \in Consumer, Handler(c) PROVE TypeInv'
  <2>1. CASE Receive(c)
    <3>1. inbox[c] \in Seq(Message) /\ inbox[c] # <<>>
      BY <2>1 DEF Receive, TypeInv, TypeOK
    <3>2. Head(inbox[c]) \in Message /\ Tail(inbox[c]) \in Seq(Message)
      BY <3>1, RangeHeadTail
    <3>3. QED
      BY <2>1, <3>2 DEF Receive, TypeInv, TypeOK, HandlerOK, TxOK, Steps
  <2>2. CASE Ack(c)
    <3>1. handling[c] \in Message
      BY <2>2 DEF Ack, TypeInv, TypeOK, HandlerOK
    <3>2. ackbuf' \in Seq(Message) /\ reoffered' \subseteq Message
      <4>1. Append(ackbuf, handling[c]) \in Seq(Message)
        BY <3>1, RangeAppend DEF TypeInv, TypeOK
      <4>2. QED
        BY <2>2, <3>1, <4>1 DEF Ack, TypeInv, TypeOK
    <3>3. step' \in [Consumer -> Steps] /\ HandlerOK' /\ TxOK'
      BY <2>2 DEF Ack, TypeInv, TypeOK, HandlerOK, TxOK, Steps
    <3>4. QED
      BY <2>2, <3>2, <3>3 DEF Ack, TypeInv, TypeOK
  <2>3. CASE DecodeInsert(c)
    <3>1. handling[c] \in Message
      BY <2>3 DEF DecodeInsert, TypeInv, TypeOK, HandlerOK, TxOK
    <3>2. QED
      BY <2>3, <3>1 DEF DecodeInsert, TypeInv, TypeOK, HandlerOK, TxOK, Steps
  <2>4. ASSUME Skip(c), handling[c] \in Message, faults' \in Nat PROVE TypeInv'
    BY <2>4, ReturnType DEF Skip, TypeInv, TypeOK
  <2>5. CASE DecodeSkip(c)
    BY <2>5, <2>4 DEF DecodeSkip, TypeInv, TypeOK, HandlerOK, TxOK
  <2>6. CASE DecodeDie(c)
    BY <2>6, DieType DEF DecodeDie
  <2>7. CASE BeginTx(c)
    BY <2>7 DEF BeginTx, TypeInv, TypeOK, HandlerOK, TxOK, Steps
  <2>8. CASE CommitTx(c)
    BY <2>8 DEF CommitTx, TypeInv, TypeOK, HandlerOK, TxOK, Steps
  <2>9. CASE AbandonTx(c)
    BY <2>9, <2>4 DEF AbandonTx, TypeInv, TypeOK, HandlerOK, TxOK
  <2>10. CASE Finish(c)
    BY <2>10, ReturnType DEF Finish, TypeInv, TypeOK
  <2>11. CASE InsertFails(c)
    BY <2>11, <2>4 DEF InsertFails, CallsDb, Inject, Refusal, TypeInv, TypeOK, HandlerOK, TxOK
  <2>12. CASE InsertDies(c)
    BY <2>12, DieType DEF InsertDies, Refusal
  <2>13. CASE DropRow(c)
    BY <2>13 DEF DropRow, Inject, TypeInv, TypeOK, HandlerOK, TxOK
  <2>14. QED
    BY <1>4, <2>1, <2>2, <2>3, <2>5, <2>6, <2>7, <2>8, <2>9, <2>10, <2>11, <2>12, <2>13
       DEF Handler
<1>5. CASE FlushAck
  BY <1>5, RangeHeadTail DEF FlushAck, TypeInv, TypeOK, HandlerOK, TxOK
<1>6. CASE CloseNats
  BY <1>6, RangeType DEF CloseNats, Inject, TypeInv, TypeOK, HandlerOK, TxOK, Phases
<1>7. CASE CloseDb
  BY <1>7 DEF CloseDb, TypeInv, TypeOK, HandlerOK, TxOK, Phases
<1>8. CASE Exit
  <2>1. Len(ackbuf) \in 0..Len(ackbuf)
    BY DEF TypeInv, TypeOK
  <2>2. QED
    BY <1>8, <2>1, DieType DEF Exit
<1>9. CASE Kill
  BY <1>9, DieType DEF Kill
<1>10. CASE Restart
  BY <1>10 DEF Restart, TypeInv, TypeOK, HandlerOK, TxOK, Phases
<1>11. CASE UNCHANGED vars
  BY <1>11 DEF vars, TypeInv, TypeOK, HandlerOK, TxOK
<1>12. QED
  BY <1>1, <1>2, <1>3, <1>4, <1>5, <1>6, <1>7, <1>8, <1>9, <1>10, <1>11 DEF Next

(* Every variable keeps its type, and a handler is busy exactly when it    *)
(* has a message.                                                          *)
THEOREM TypeCorrect == Spec => [](TypeOK /\ HandlerOK)
<1>1. TypeInv => TypeOK /\ HandlerOK
  BY DEF TypeInv
<1>2. QED
  BY <1>1, InitType, NextType, PTL DEF Spec
-----------------------------------------------------------------------------
(* Loss.                                                                   *)

(* What a handler has stored and what it still has to store make up the    *)
(* report, whoever else stored rows of it.                                 *)
CountOK ==
  \A c \in Consumer :
    step[c] \in {"insert", "tx"} => rows[handling[c]] + left[c] >= Transactions(handling[c])

(* The client already answers for the messages whose ack is buffered: the  *)
(* broker may learn of them at any time, the death of the process included.*)
AnswersOK == \A m \in acked \cup Range(ackbuf) : Accounted(m)

LossInv == TypeInv /\ CountOK /\ AnswersOK

LEMMA InitLoss == Init => LossInv
<1> SUFFICES ASSUME Init PROVE LossInv
  OBVIOUS
<1>1. CountOK
  BY DEF Init, CountOK
<1>2. acked \cup Range(ackbuf) = {}
  BY RangeEmpty DEF Init
<1>3. QED
  BY <1>1, <1>2, InitType DEF LossInv, AnswersOK

(* The broker and the connection: they touch no handler and no row.        *)
LEMMA QuietLoss ==
  ASSUME LossInv, TypeInv', UNCHANGED <<handling, step, left, rows, interrupted>>,
         skipped \subseteq skipped',
         acked' \cup Range(ackbuf') \subseteq acked \cup Range(ackbuf)
  PROVE  LossInv'
<1>1. CountOK'
  BY DEF LossInv, CountOK
<1>2. ASSUME NEW m \in acked \cup Range(ackbuf) PROVE Accounted(m)'
  BY <1>2 DEF LossInv, AnswersOK, Accounted, Working
<1>3. QED
  BY <1>1, <1>2 DEF LossInv, AnswersOK

\* Whatever dies with the client is accounted for as interrupted.
LEMMA DieLoss ==
  ASSUME LossInv, TypeInv', NEW n \in 0..Len(ackbuf), NEW k \in Nat, Die(n, k)
  PROVE  LossInv'
<1>1. CountOK'
  BY DEF CountOK, Die
<1>2. ASSUME NEW m \in acked \cup Range(ackbuf) PROVE Accounted(m)'
  <2>1. Working(m) => m \in Unfinished
    BY DEF Working, Unfinished
  <2>2. QED
    BY <1>2, <2>1 DEF LossInv, AnswersOK, Accounted, Die
<1>3. acked' \subseteq acked \cup Range(ackbuf) /\ Range(ackbuf') = {}
  <2>1. 1..n \subseteq 1..Len(ackbuf)
    BY DEF LossInv, TypeInv, TypeOK
  <2>2. Range(ackbuf) = {ackbuf[i] : i \in 1..Len(ackbuf)}
    BY RangeIndexed DEF LossInv, TypeInv, TypeOK
  <2>3. {ackbuf[i] : i \in 1..n} \subseteq Range(ackbuf)
    BY <2>1, <2>2, Zenon
  <2>4. QED
    BY <2>3, RangeEmpty DEF Die
<1>4. QED
  BY <1>1, <1>2, <1>3 DEF LossInv, AnswersOK

(* A handler returns: it has stored the report, or let the message go.     *)
LEMMA ReturnLoss ==
  ASSUME LossInv, TypeInv', NEW c \in Consumer, Return(c),
         UNCHANGED <<acked, ackbuf, rows, interrupted>>, skipped \subseteq skipped',
         \/ handling[c] \in skipped'
         \/ rows[handling[c]] >= Transactions(handling[c])
  PROVE  LossInv'
<1>1. \A d \in Consumer \ {c} : handling'[d] = handling[d] /\ step'[d] = step[d]
                              /\ left'[d] = left[d]
  BY DEF LossInv, TypeInv, TypeOK, Return
<1>2. step'[c] = "idle"
  BY DEF LossInv, TypeInv, TypeOK, Return
<1>3. CountOK'
  BY <1>1, <1>2 DEF LossInv, CountOK
<1>4. ASSUME NEW m \in acked \cup Range(ackbuf) PROVE Accounted(m)'
  BY <1>1, <1>4 DEF LossInv, AnswersOK, Accounted, Working
<1>5. QED
  BY <1>3, <1>4 DEF LossInv, AnswersOK

(* A handler goes on with the message it has.                              *)
LEMMA AdvanceLoss ==
  ASSUME LossInv, TypeInv', NEW c \in Consumer, UNCHANGED <<handling, rows, interrupted, skipped>>,
         step' = [step EXCEPT ![c] = step'[c]], step'[c] \in {"acked", "insert", "tx"},
         acked' = acked,
         Range(ackbuf') \subseteq Range(ackbuf) \cup {handling[c]},
         \A d \in Consumer \ {c} : left'[d] = left[d],
         step'[c] # "acked" => rows[handling[c]] + left'[c] >= Transactions(handling[c])
  PROVE  LossInv'
<1>1. \A d \in Consumer \ {c} : step'[d] = step[d]
  BY DEF LossInv, TypeInv, TypeOK
<1>2. CountOK'
  BY <1>1 DEF LossInv, CountOK
<1>3. Working(handling[c])'
  BY DEF Working
<1>4. ASSUME NEW m \in acked \cup Range(ackbuf) PROVE Accounted(m)'
  <2>1. CASE m = handling[c]
    BY <1>3, <2>1 DEF Accounted
  <2>2. CASE m # handling[c]
    BY <1>1, <1>4, <2>2 DEF LossInv, AnswersOK, Accounted, Working
  <2>3. QED
    BY <2>1, <2>2
<1>5. Accounted(handling[c])'
  BY <1>3 DEF Accounted
<1>6. QED
  BY <1>2, <1>4, <1>5 DEF LossInv, AnswersOK

LEMMA NextLoss == LossInv /\ [Next]_vars => LossInv'
<1> SUFFICES ASSUME LossInv, [Next]_vars PROVE LossInv'
  OBVIOUS
<1>1. TypeInv /\ TypeInv'
  BY NextType DEF LossInv
<1> USE DEF brokerVars, handlerVars, history
<1>2. ASSUME NEW m \in Message, Publish(m) \/ Deliver(m) \/ Redeliver(m) PROVE LossInv'
  BY <1>1, <1>2, QuietLoss DEF Publish, Deliver, Redeliver
<1>3. ASSUME NEW c \in Consumer, Handler(c) PROVE LossInv'
  <2>1. CASE Receive(c)
    <3>1. CountOK'
      BY <1>1, <2>1 DEF Receive, LossInv, CountOK, TypeInv, TypeOK
    <3>2. ASSUME NEW m \in acked \cup Range(ackbuf) PROVE Accounted(m)'
      <4>1. Working(m) => Working(m)'
        BY <1>1, <2>1 DEF Receive, Working, TypeInv, TypeOK
      <4>2. QED
        BY <2>1, <3>2, <4>1 DEF Receive, LossInv, AnswersOK, Accounted
    <3>3. QED
      BY <1>1, <2>1, <3>1, <3>2 DEF Receive, LossInv, AnswersOK
  <2>2. CASE Ack(c)
    <3>1. handling[c] \in Message
      BY <1>1, <2>2 DEF Ack, TypeInv, TypeOK, HandlerOK
    <3>2. Range(ackbuf') \subseteq Range(ackbuf) \cup {handling[c]}
      <4>1. Range(Append(ackbuf, handling[c])) = Range(ackbuf) \cup {handling[c]}
        BY <1>1, <3>1, RangeAppend DEF TypeInv, TypeOK
      <4>2. ackbuf' = Append(ackbuf, handling[c]) \/ ackbuf' = ackbuf
        BY <2>2 DEF Ack
      <4>3. QED
        BY <4>1, <4>2
    <3>3. step' = [step EXCEPT ![c] = step'[c]] /\ step'[c] = "acked"
      BY <1>1, <2>2 DEF Ack, TypeInv, TypeOK
    <3>4. QED
      BY <1>1, <2>2, <3>2, <3>3, AdvanceLoss DEF Ack
  <2>3. CASE DecodeInsert(c)
    <3>1. handling[c] \in Message
      BY <1>1, <2>3 DEF DecodeInsert, TypeInv, TypeOK, HandlerOK
    <3>2. step' = [step EXCEPT ![c] = step'[c]] /\ step'[c] = "insert"
      BY <1>1, <2>3 DEF DecodeInsert, TypeInv, TypeOK
    <3>3. left'[c] = Transactions(handling[c]) /\ \A d \in Consumer \ {c} : left'[d] = left[d]
      BY <1>1, <2>3 DEF DecodeInsert, TypeInv, TypeOK
    <3>4. rows[handling[c]] + left'[c] >= Transactions(handling[c])
      BY <1>1, <3>1, <3>3 DEF TypeInv, TypeOK
    <3>5. QED
      BY <1>1, <2>3, <3>2, <3>3, <3>4, AdvanceLoss DEF DecodeInsert
  <2>4. ASSUME Skip(c) PROVE LossInv'
    BY <1>1, <2>4, ReturnLoss DEF Skip
  <2>5. CASE DecodeDie(c) \/ InsertDies(c)
    BY <1>1, <2>5, DieLoss DEF DecodeDie, InsertDies, Refusal
  <2>6. CASE BeginTx(c)
    <3>1. step' = [step EXCEPT ![c] = step'[c]] /\ step'[c] = "tx"
      BY <1>1, <2>6 DEF BeginTx, TypeInv, TypeOK
    <3>2. rows[handling[c]] + left[c] >= Transactions(handling[c])
      BY <2>6 DEF BeginTx, LossInv, CountOK
    <3>3. QED
      BY <1>1, <2>6, <3>1, <3>2, AdvanceLoss DEF BeginTx
  <2>7. CASE CommitTx(c)
    <3>1. handling[c] \in Message
      BY <1>1, <2>7 DEF CommitTx, TypeInv, TypeOK, HandlerOK
    <3>2. \A m \in Message : rows'[m] >= rows[m] /\ rows[m] \in Nat /\ rows'[m] \in Nat
      BY <1>1, <2>7, <3>1 DEF CommitTx, TypeInv, TypeOK
    <3>3. rows'[handling[c]] = rows[handling[c]] + 1 /\ left'[c] = left[c] - 1
      BY <1>1, <2>7, <3>1 DEF CommitTx, TypeInv, TypeOK
    <3>4. rows'[handling[c]] + left'[c] >= Transactions(handling[c])
      BY <1>1, <2>7, <3>1, <3>3 DEF CommitTx, LossInv, CountOK, TypeInv, TypeOK
    <3>5. \A d \in Consumer \ {c} : step'[d] = step[d] /\ left'[d] = left[d]
      BY <1>1, <2>7 DEF CommitTx, TypeInv, TypeOK
    <3>6. \A d \in Consumer : step[d] # "idle" => handling[d] \in Message
      BY <1>1 DEF TypeInv, TypeOK, HandlerOK
    <3>7. ASSUME NEW d \in Consumer, d # c, step[d] \in {"insert", "tx"}
          PROVE  rows'[handling[d]] + left'[d] >= Transactions(handling[d])
      <4>1. rows[handling[d]] + left[d] >= Transactions(handling[d])
        BY <3>7 DEF LossInv, CountOK
      <4>2. handling[d] \in Message /\ left[d] \in Nat
        BY <1>1, <3>6, <3>7 DEF TypeInv, TypeOK
      <4>3. QED
        BY <3>2, <3>5, <3>7, <4>1, <4>2
    <3>8. CountOK'
      BY <2>7, <3>4, <3>5, <3>7 DEF CommitTx, CountOK
    <3>9. ASSUME NEW m \in acked \cup Range(ackbuf) PROVE Accounted(m)'
      <4>1. m \in Message
        BY <1>1, <3>9, RangeType DEF TypeInv, TypeOK
      <4>2. Working(m) => Working(m)'
        BY <1>1, <2>7 DEF CommitTx, Working, TypeInv, TypeOK
      <4>3. Transactions(m) \in Nat
        BY <4>1
      <4>4. QED
        BY <2>7, <3>2, <3>9, <4>1, <4>2, <4>3 DEF CommitTx, LossInv, AnswersOK, Accounted
    <3>10. QED
      BY <1>1, <2>7, <3>8, <3>9 DEF CommitTx, LossInv, AnswersOK
  <2>8. CASE Finish(c)
    <3>1. rows[handling[c]] >= Transactions(handling[c])
      <4>1. handling[c] \in Message /\ rows[handling[c]] \in Nat
        BY <1>1, <2>8 DEF Finish, TypeInv, TypeOK, HandlerOK
      <4>2. rows[handling[c]] + 0 >= Transactions(handling[c])
        BY <2>8 DEF Finish, LossInv, CountOK
      <4>3. QED
        BY <4>1, <4>2
    <3>2. QED
      BY <1>1, <2>8, <3>1, ReturnLoss DEF Finish
  <2>9. CASE DropRow(c)
    BY <1>1, <2>9, QuietLoss DEF DropRow
  <2>10. QED
    BY <1>3, <2>1, <2>2, <2>3, <2>4, <2>5, <2>6, <2>7, <2>8, <2>9
       DEF Handler, DecodeSkip, AbandonTx, InsertFails
<1>4. CASE FlushAck
  <2>1. Range(ackbuf) = {Head(ackbuf)} \cup Range(Tail(ackbuf))
    BY <1>1, <1>4, RangeHeadTail DEF FlushAck, TypeInv, TypeOK
  <2>2. QED
    BY <1>1, <1>4, <2>1, QuietLoss DEF FlushAck
<1>5. CASE CloseNats
  BY <1>1, <1>5, RangeEmpty, QuietLoss DEF CloseNats
<1>6. CASE CloseDb \/ Restart \/ UNCHANGED vars
  BY <1>1, <1>6, QuietLoss DEF CloseDb, Restart, vars
<1>7. CASE Exit
  <2>1. Len(ackbuf) \in 0..Len(ackbuf)
    BY <1>1 DEF TypeInv, TypeOK
  <2>2. QED
    BY <1>1, <1>7, <2>1, DieLoss DEF Exit
<1>8. CASE Kill
  BY <1>1, <1>8, DieLoss DEF Kill
<1>9. QED
  BY <1>2, <1>3, <1>4, <1>5, <1>6, <1>7, <1>8 DEF Next

(* No message is lost but for the two causes LossHasACause names, whatever *)
(* the handlers, the signals, the kills and the broker do in between.      *)
THEOREM NoSilentLoss == Spec => []LossHasACause
<1>1. LossInv => LossHasACause
  BY DEF LossInv, AnswersOK, LossHasACause
<1>2. QED
  BY <1>1, InitLoss, NextLoss, PTL DEF Spec
-----------------------------------------------------------------------------
(* Where messages are.                                                     *)

(* The client only has messages the broker handed out, each in the queue   *)
(* and the handler of its own subscription.                                *)
HeldBy(c) == Range(inbox[c]) \cup ({handling[c]} \ {None})
PlacesOK ==
  /\ \A c \in Consumer : \A m \in HeldBy(c) : m.consumer = c /\ m \in taken
  /\ Range(ackbuf) \subseteq taken /\ acked \subseteq taken /\ taken \subseteq stream

PlaceInv == TypeInv /\ PlacesOK

Answered == acked \cup Range(ackbuf)

(* The acks a dying process has sent, and those it takes with it.          *)
LEMMA DieAnswers ==
  ASSUME TypeInv, NEW n \in 0..Len(ackbuf), NEW k \in Nat, Die(n, k)
  PROVE  /\ Answered' = acked' /\ acked \subseteq acked' /\ acked' \subseteq Answered
         /\ Answered \subseteq acked' \cup reoffered' /\ reoffered \subseteq reoffered'
<1>1. ackbuf \in Seq(Message) /\ Len(ackbuf) \in Nat
  BY DEF TypeInv, TypeOK
<1>2. 1..Len(ackbuf) = 1..n \cup (n + 1)..Len(ackbuf)
  BY <1>1
<1>3. Range(ackbuf) = {ackbuf[i] : i \in 1..Len(ackbuf)}
  BY <1>1, RangeIndexed
<1>4. Range(ackbuf) = {ackbuf[i] : i \in 1..n} \cup {ackbuf[i] : i \in (n + 1)..Len(ackbuf)}
  BY <1>2, <1>3, Zenon
<1>5. Range(ackbuf') = {}
  BY RangeEmpty DEF Die
<1>6. QED
  BY <1>4, <1>5, Zenon DEF Die, Answered

(* A dead process holds nothing.                                           *)
LEMMA DieHolds ==
  ASSUME NEW n, NEW k, Die(n, k)
  PROVE  \A c \in Consumer : HeldBy(c)' = {}
BY RangeEmpty DEF Die, HeldBy

(* Steps that hand nothing to the client keep everything in its place.     *)
LEMMA KeptPlaces ==
  ASSUME PlaceInv, TypeInv', taken' = taken, stream \subseteq stream',
         \A c \in Consumer : HeldBy(c)' \subseteq HeldBy(c),
         Answered' \subseteq Answered \cup UNION {HeldBy(c) : c \in Consumer}
  PROVE  PlaceInv'
BY DEF PlaceInv, PlacesOK, Answered

(* The two ways a message gets into a queue.                               *)
LEMMA HandedOver ==
  ASSUME PlaceInv, NEW m \in Message, inbox' = [inbox EXCEPT ![m.consumer] = Append(@, m)],
         handling' = handling
  PROVE  /\ m.consumer \in Consumer
         /\ inbox[m.consumer] \in Seq(Message) /\ inbox'[m.consumer] = Append(inbox[m.consumer], m)
         /\ \A c \in Consumer : c # m.consumer => inbox'[c] = inbox[c]
         /\ HeldBy(m.consumer)' = HeldBy(m.consumer) \cup {m}
         /\ \A c \in Consumer : c # m.consumer => HeldBy(c)' = HeldBy(c)
<1>1. /\ m.consumer \in Consumer
      /\ inbox[m.consumer] \in Seq(Message) /\ inbox'[m.consumer] = Append(inbox[m.consumer], m)
      /\ \A c \in Consumer : c # m.consumer => inbox'[c] = inbox[c]
  BY DEF PlaceInv, TypeInv, TypeOK
<1>2. Range(inbox'[m.consumer]) = Range(inbox[m.consumer]) \cup {m}
  BY <1>1, RangeAppend
<1>3. QED
  BY <1>1, <1>2 DEF HeldBy

(* The head of a queue moves into the handler.                             *)
LEMMA Received ==
  ASSUME PlaceInv, NEW c \in Consumer, Receive(c)
  PROVE  /\ inbox[c] \in Seq(Message) /\ inbox[c] # <<>> /\ handling[c] = None
         /\ handling'[c] = Head(inbox[c]) /\ Head(inbox[c]) \in Message
         /\ inbox'[c] = Tail(inbox[c])
         /\ Range(inbox[c]) = {Head(inbox[c])} \cup Range(inbox'[c])
         /\ \A d \in Consumer : HeldBy(d)' = HeldBy(d)
<1>1. /\ inbox[c] \in Seq(Message) /\ inbox[c] # <<>> /\ handling[c] = None
      /\ handling'[c] = Head(inbox[c]) /\ inbox'[c] = Tail(inbox[c])
      /\ \A d \in Consumer \ {c} : inbox'[d] = inbox[d] /\ handling'[d] = handling[d]
  BY DEF Receive, PlaceInv, TypeInv, TypeOK, HandlerOK
<1>2. Range(inbox[c]) = {Head(inbox[c])} \cup Range(inbox'[c]) /\ Head(inbox[c]) \in Message
  BY <1>1, RangeHeadTail
<1>3. HeldBy(c)' = HeldBy(c)
  BY <1>1, <1>2 DEF HeldBy
<1>4. \A d \in Consumer \ {c} : HeldBy(d)' = HeldBy(d)
  BY <1>1 DEF HeldBy
<1>5. QED
  BY <1>1, <1>2, <1>3, <1>4

\* An acknowledgement reaches the broker while the connection is open.
LEMMA Acknowledged ==
  ASSUME PlaceInv, NEW c \in Consumer, Ack(c)
  PROVE  /\ handling[c] \in Message /\ Answered \subseteq Answered'
         /\ IF phase = "running" THEN /\ Answered' = Answered \cup {handling[c]}
                                      /\ reoffered' = reoffered
            ELSE Answered' = Answered /\ reoffered' = reoffered \cup {handling[c]}
<1>1. handling[c] \in Message /\ ackbuf \in Seq(Message)
  BY DEF Ack, PlaceInv, TypeInv, TypeOK, HandlerOK
<1>2. Range(Append(ackbuf, handling[c])) = Range(ackbuf) \cup {handling[c]}
  BY <1>1, RangeAppend
<1>3. QED
  BY <1>1, <1>2 DEF Ack, Answered, brokerVars

\* A flush moves acknowledgements and adds none.
LEMMA Flushed == PlaceInv /\ (FlushAck \/ CloseNats) => Answered' = Answered
<1> SUFFICES ASSUME PlaceInv, FlushAck \/ CloseNats PROVE Answered' = Answered
  OBVIOUS
<1>1. CASE FlushAck
  <2>1. Range(ackbuf) = {Head(ackbuf)} \cup Range(Tail(ackbuf))
    BY <1>1, RangeHeadTail DEF FlushAck, PlaceInv, TypeInv, TypeOK
  <2>2. QED
    BY <1>1, <2>1 DEF FlushAck, Answered
<1>2. CASE CloseNats
  BY <1>2, RangeEmpty DEF CloseNats, Answered
<1>3. QED
  BY <1>1, <1>2

LEMMA InitPlaces == Init => PlaceInv
<1> SUFFICES ASSUME Init PROVE PlaceInv
  OBVIOUS
<1>1. \A c \in Consumer : HeldBy(c) = {}
  BY RangeEmpty DEF Init, HeldBy
<1>2. QED
  BY <1>1, RangeEmpty, InitType DEF Init, PlaceInv, PlacesOK

LEMMA NextPlaces == PlaceInv /\ [Next]_vars => PlaceInv'
<1> SUFFICES ASSUME PlaceInv, [Next]_vars PROVE PlaceInv'
  OBVIOUS
<1>1. TypeInv'
  BY NextType DEF PlaceInv
<1> USE DEF brokerVars, handlerVars, history
<1>2. ASSUME NEW n \in 0..Len(ackbuf), NEW k \in Nat, Die(n, k) PROVE PlaceInv'
  <2>1. UNCHANGED <<taken, stream>>
    BY <1>2 DEF Die
  <2>2. QED
    BY <1>1, <1>2, <2>1, DieAnswers, DieHolds, KeptPlaces DEF PlaceInv
<1>3. ASSUME NEW m \in Message, Publish(m) PROVE PlaceInv'
  BY <1>1, <1>3, KeptPlaces DEF Publish, HeldBy, Answered
<1>4. ASSUME NEW m \in Message, Deliver(m) \/ Redeliver(m) PROVE PlaceInv'
  <2>1. /\ inbox' = [inbox EXCEPT ![m.consumer] = Append(@, m)] /\ handling' = handling
        /\ m \in taken' /\ taken \subseteq taken' /\ taken' \subseteq stream
        /\ UNCHANGED <<stream, acked, ackbuf>>
    BY <1>4 DEF Deliver, Redeliver, PlaceInv, PlacesOK
  <2>2. /\ HeldBy(m.consumer)' = HeldBy(m.consumer) \cup {m}
        /\ \A c \in Consumer : c # m.consumer => HeldBy(c)' = HeldBy(c)
    BY <2>1, HandedOver
  <2>3. ASSUME NEW c \in Consumer, NEW x \in HeldBy(c)' PROVE x.consumer = c /\ x \in taken'
    <3>1. x \in HeldBy(c) \/ (x = m /\ c = m.consumer)
      BY <2>2, <2>3
    <3>2. QED
      BY <2>1, <3>1 DEF PlaceInv, PlacesOK
  <2>4. QED
    BY <1>1, <2>1, <2>3 DEF PlaceInv, PlacesOK
<1>5. ASSUME NEW c \in Consumer, Handler(c) PROVE PlaceInv'
  <2>1. CASE Receive(c)
    BY <1>1, <2>1, Received, KeptPlaces DEF Receive, Answered
  <2>2. CASE Ack(c)
    <3>1. handling[c] \in HeldBy(c)
      BY <2>2, Acknowledged DEF HeldBy, Ack
    <3>2. QED
      BY <1>1, <2>2, <3>1, Acknowledged, KeptPlaces DEF Ack, HeldBy
  <2>3. CASE DecodeInsert(c) \/ BeginTx(c) \/ CommitTx(c) \/ DropRow(c)
    BY <1>1, <2>3, KeptPlaces DEF DecodeInsert, BeginTx, CommitTx, DropRow, HeldBy, Answered
  <2>4. CASE DecodeSkip(c) \/ AbandonTx(c) \/ InsertFails(c) \/ Finish(c)
    <3>1. /\ Return(c) /\ UNCHANGED <<taken, stream, inbox, acked, ackbuf>>
      BY <2>4 DEF DecodeSkip, AbandonTx, InsertFails, Finish, Skip
    <3>2. \A d \in Consumer : HeldBy(d)' \subseteq HeldBy(d)
      BY <3>1 DEF Return, HeldBy, PlaceInv, TypeInv, TypeOK
    <3>3. QED
      BY <1>1, <3>1, <3>2, KeptPlaces DEF Answered
  <2>5. CASE DecodeDie(c) \/ InsertDies(c)
    BY <1>2, <2>5 DEF DecodeDie, InsertDies, Refusal
  <2>6. QED
    BY <1>5, <2>1, <2>2, <2>3, <2>4, <2>5 DEF Handler
<1>6. CASE FlushAck
  BY <1>1, <1>6, Flushed, KeptPlaces DEF FlushAck, HeldBy
<1>7. CASE CloseNats
  <2>1. \A c \in Consumer : HeldBy(c)' \subseteq HeldBy(c)
    BY <1>7, RangeEmpty DEF CloseNats, HeldBy
  <2>2. QED
    BY <1>1, <1>7, <2>1, Flushed, KeptPlaces DEF CloseNats
<1>8. CASE CloseDb \/ Restart \/ UNCHANGED vars
  BY <1>1, <1>8, KeptPlaces DEF CloseDb, Restart, vars, HeldBy, Answered
<1>9. CASE Exit \/ Kill
  <2>1. Len(ackbuf) \in 0..Len(ackbuf)
    BY DEF PlaceInv, TypeInv, TypeOK
  <2>2. QED
    BY <1>2, <1>9, <2>1 DEF Exit, Kill
<1>10. QED
  BY <1>3, <1>4, <1>5, <1>6, <1>7, <1>8, <1>9 DEF Next
-----------------------------------------------------------------------------
(* The contract.                                                           *)

Hand == {m \in Message : InHand(m)}

\* A message is in hand where its consumer holds it.
LEMMA HandHeld == \A m \in Message : m \in Hand <=> m \in HeldBy(m.consumer)
BY DEF Hand, InHand, HeldBy

\* The hand is emptied where every consumer holds less.
LEMMA HandKept ==
  ASSUME \A c \in Consumer : HeldBy(c)' \subseteq HeldBy(c)
  PROVE  Hand' \subseteq Hand
<1> SUFFICES ASSUME NEW m \in Message, m \in Hand' PROVE m \in Hand
  BY DEF Hand
<1>1. m \in HeldBy(m.consumer)'
  BY DEF Hand, InHand, HeldBy
<1>2. QED
  BY <1>1, HandHeld

(* Every step that neither sends, nor hands out, nor stores releases.      *)
LEMMA ReleaseStep ==
  ASSUME PlaceInv', UNCHANGED <<stream, taken, rows>>, acked \subseteq acked',
         \A c \in Consumer : HeldBy(c)' \subseteq HeldBy(c)
  PROVE  Contract!ContractNext
<1>1. acked' \in SUBSET taken /\ Hand \ Hand' \in SUBSET Hand
  BY DEF PlaceInv, PlacesOK
<1>2. acked' = acked \cup acked' /\ Hand' = Hand \ (Hand \ Hand')
  BY HandKept
<1>3. Contract!Release(acked', Hand \ Hand')
  BY <1>1, <1>2 DEF Contract!Release, Hand
<1>4. QED
  BY <1>1, <1>3 DEF Contract!ContractNext, Hand

\* A delivery, the first or a later one, is the contract's HandOut.
LEMMA HandOutStep ==
  ASSUME PlaceInv, NEW m \in Message, Deliver(m) \/ Redeliver(m)
  PROVE  Contract!HandOut(m)
<1> USE DEF brokerVars, handlerVars, history
<1>1. /\ inbox' = [inbox EXCEPT ![m.consumer] = Append(@, m)] /\ handling' = handling
      /\ m \in stream \ acked /\ taken' = taken \cup {m}
      /\ UNCHANGED <<stream, acked, rows>>
  BY DEF Deliver, Redeliver, PlaceInv, PlacesOK
<1>2. /\ HeldBy(m.consumer)' = HeldBy(m.consumer) \cup {m}
      /\ \A c \in Consumer : c # m.consumer => HeldBy(c)' = HeldBy(c)
  BY <1>1, HandedOver
<1>3. \A x \in Message : x \in Hand' <=> x \in HeldBy(x.consumer)'
  BY DEF Hand, InHand, HeldBy
<1>4. Hand' = Hand \cup {m}
  <2>1. \A x \in Message : x \in Hand' <=> x \in Hand \/ x = m
    BY <1>2, <1>3, HandHeld
  <2>2. QED
    BY <2>1 DEF Hand
<1>5. QED
  BY <1>1, <1>4 DEF Contract!HandOut, Hand

\* A commit is the contract's Store.
LEMMA StoreStep ==
  ASSUME PlaceInv, NEW c \in Consumer, CommitTx(c)
  PROVE  Contract!ContractNext
<1>1. handling[c] \in Message /\ handling[c] \in HeldBy(c)
  BY DEF CommitTx, PlaceInv, TypeInv, TypeOK, HandlerOK, HeldBy
<1>2. handling[c] \in Hand
  BY <1>1, HandHeld DEF PlaceInv, PlacesOK
<1>3. Hand' = Hand
  BY DEF CommitTx, Hand, InHand
<1>4. Contract!Store(handling[c])
  BY <1>2, <1>3 DEF CommitTx, brokerVars, Contract!Store, Hand
<1>5. QED
  BY <1>1, <1>4 DEF Contract!ContractNext

\* Every step of the client is a step of the contract or none.
LEMMA NextContract ==
  PlaceInv /\ PlaceInv' /\ [Next]_vars => [Contract!ContractNext]_(Contract!contractVars)
<1> SUFFICES ASSUME PlaceInv, PlaceInv', [Next]_vars
             PROVE  Contract!ContractNext \/ UNCHANGED Contract!contractVars
  OBVIOUS
<1> USE DEF brokerVars, handlerVars, history
<1>1. ASSUME NEW n \in 0..Len(ackbuf), NEW k \in Nat, Die(n, k) PROVE Contract!ContractNext
  <2>1. UNCHANGED <<stream, taken, rows>>
    BY <1>1 DEF Die
  <2>2. QED
    BY <1>1, <2>1, DieAnswers, DieHolds, ReleaseStep DEF PlaceInv
<1>2. ASSUME NEW m \in Message, Publish(m) PROVE Contract!ContractNext
  <2>1. Contract!Send(m)
    BY <1>2 DEF Publish, Contract!Send, InHand
  <2>2. QED
    BY <2>1 DEF Contract!ContractNext
<1>3. ASSUME NEW m \in Message, Deliver(m) \/ Redeliver(m) PROVE Contract!ContractNext
  BY <1>3, HandOutStep DEF Contract!ContractNext
<1>4. ASSUME NEW c \in Consumer, Handler(c) PROVE Contract!ContractNext
  <2>1. CASE Receive(c)
    BY <2>1, Received, ReleaseStep DEF Receive
  <2>2. CASE Ack(c) \/ DecodeInsert(c) \/ BeginTx(c) \/ DropRow(c)
    BY <2>2, ReleaseStep DEF Ack, DecodeInsert, BeginTx, DropRow, HeldBy
  <2>3. CASE CommitTx(c)
    BY <2>3, StoreStep
  <2>4. CASE DecodeSkip(c) \/ AbandonTx(c) \/ InsertFails(c) \/ Finish(c)
    <3>1. Return(c) /\ UNCHANGED <<stream, taken, acked, rows, inbox>>
      BY <2>4 DEF DecodeSkip, AbandonTx, InsertFails, Finish, Skip
    <3>2. \A d \in Consumer : HeldBy(d)' \subseteq HeldBy(d)
      BY <3>1 DEF Return, HeldBy, PlaceInv, TypeInv, TypeOK
    <3>3. QED
      BY <3>1, <3>2, ReleaseStep
  <2>5. CASE DecodeDie(c) \/ InsertDies(c)
    BY <1>1, <2>5 DEF DecodeDie, InsertDies, Refusal
  <2>6. QED
    BY <1>4, <2>1, <2>2, <2>3, <2>4, <2>5 DEF Handler
<1>5. CASE FlushAck \/ CloseDb \/ Restart
  BY <1>5, ReleaseStep DEF FlushAck, CloseDb, Restart, HeldBy
<1>6. CASE CloseNats
  <2>1. \A c \in Consumer : HeldBy(c)' \subseteq HeldBy(c)
    BY <1>6, RangeEmpty DEF CloseNats, HeldBy
  <2>2. QED
    BY <1>6, <2>1, ReleaseStep DEF CloseNats
<1>7. CASE UNCHANGED vars
  BY <1>7 DEF vars, InHand, Contract!contractVars
<1>8. CASE Exit \/ Kill
  <2>1. Len(ackbuf) \in 0..Len(ackbuf)
    BY DEF PlaceInv, TypeInv, TypeOK
  <2>2. QED
    BY <1>1, <1>8, <2>1 DEF Exit, Kill
<1>9. QED
  BY <1>2, <1>3, <1>4, <1>5, <1>6, <1>7, <1>8 DEF Next

(* The client, with all its goroutines, its deaths and its shutdown, keeps *)
(* the contract between the stream and the database: ImplementsContract.   *)
THEOREM ClientImplementsContract == Spec => ImplementsContract
<1>1. Init => Contract!ContractInit
  <2>1. Init => Hand = {}
    BY RangeEmpty DEF Init, Hand, InHand
  <2>2. QED
    BY <2>1 DEF Init, Contract!ContractInit, Hand
<1>2. QED
  BY <1>1, InitPlaces, NextPlaces, NextContract, PTL
     DEF Spec, ImplementsContract, Contract!ContractSpec
-----------------------------------------------------------------------------
(* Loss without a fault.                                                   *)

(* Without faults, and without a message that ends the process, the client *)
(* keeps running, and lets go only of what it is not to insert.            *)
Calm == faults = 0 /\ \A p \in taken : Outcome(p) # "die"
CalmOK ==
  Calm => phase = "running" /\ interrupted = {} /\ \A m \in skipped : Outcome(m) # "insert"
CalmInv == PlaceInv /\ CalmOK

\* Without a fault and a message that kills, nothing is skipped.
LEMMA NextCalm == CalmInv /\ [Next]_vars => CalmInv'
<1> SUFFICES ASSUME CalmInv, [Next]_vars, Calm' PROVE CalmOK'
  BY NextPlaces DEF CalmInv, CalmOK
<1> USE DEF brokerVars, handlerVars, history
<1>1. PlaceInv /\ faults \in Nat
  BY DEF CalmInv, PlaceInv, TypeInv, TypeOK
<1>2. ASSUME Calm, UNCHANGED <<phase, interrupted, skipped>> PROVE CalmOK'
  BY <1>2 DEF CalmInv, CalmOK
<1>3. ASSUME NEW n, NEW k \in Nat \ {0}, Die(n, k) PROVE FALSE
  BY <1>1, <1>3 DEF Die, Inject, Calm
<1>4. ASSUME NEW m \in Message, Publish(m) \/ Deliver(m) PROVE CalmOK'
  BY <1>4, <1>2 DEF Publish, Deliver, Calm
<1>5. ASSUME NEW m \in Message, Redeliver(m) PROVE CalmOK'
  <2>1. Calm
    BY <1>1, <1>5 DEF Redeliver, Inject, Calm
  <2>2. QED
    BY <1>5, <1>2, <2>1 DEF Redeliver
<1>6. ASSUME NEW c \in Consumer, Handler(c) PROVE CalmOK'
  <2>1. CASE Receive(c) \/ Ack(c) \/ DecodeInsert(c) \/ BeginTx(c) \/ CommitTx(c) \/ Finish(c)
    <3>1. UNCHANGED <<taken, faults, phase, interrupted, skipped>>
      BY <2>1 DEF Receive, Ack, DecodeInsert, BeginTx, CommitTx, Finish
    <3>2. QED
      BY <3>1, <1>2 DEF Calm
  <2>2. CASE DecodeSkip(c) \/ AbandonTx(c)
    <3>1. /\ UNCHANGED <<taken, faults, phase, interrupted>> /\ Outcome(handling[c]) # "insert"
          /\ skipped' = skipped \cup {handling[c]}
      BY <2>2 DEF DecodeSkip, AbandonTx, Skip
    <3>2. QED
      BY <3>1 DEF Calm, CalmInv, CalmOK
  <2>3. CASE DecodeDie(c)
    <3>1. handling[c] \in taken
      BY <1>1, <2>3 DEF DecodeDie, PlaceInv, TypeInv, TypeOK, HandlerOK, PlacesOK, HeldBy
    <3>2. taken' = taken
      BY <2>3 DEF DecodeDie, Die
    <3>3. QED
      BY <2>3, <3>1, <3>2 DEF DecodeDie, Calm
  <2>4. CASE InsertFails(c) \/ InsertDies(c)
    <3>1. faults' >= faults /\ taken' = taken
      BY <1>1, <2>4 DEF InsertFails, InsertDies, Skip, Die, Inject, Refusal, PlaceInv, TypeInv, TypeOK
    <3>2. Calm
      BY <1>1, <3>1 DEF Calm
    <3>3. Refusal(c) = 1
      BY <3>2 DEF CalmInv, CalmOK, Refusal
    <3>4. QED
      BY <1>1, <1>3, <2>4, <3>3 DEF InsertFails, InsertDies, Inject, Calm
  <2>5. CASE DropRow(c)
    BY <1>1, <2>5 DEF DropRow, Inject, Calm
  <2>6. QED
    BY <1>6, <2>1, <2>2, <2>3, <2>4, <2>5 DEF Handler
<1>7. CASE FlushAck \/ UNCHANGED vars
  BY <1>7, <1>2 DEF FlushAck, vars, Calm
<1>8. CASE CloseDb \/ Exit \/ Restart
  <2>1. faults' >= faults /\ taken' = taken
    BY <1>1, <1>8 DEF CloseDb, Exit, Restart, Die, Inject, PlaceInv, TypeInv, TypeOK
  <2>2. Calm
    BY <1>1, <2>1 DEF Calm
  <2>3. QED
    BY <1>8, <2>2 DEF CloseDb, Exit, Restart, CalmInv, CalmOK
<1>9. CASE CloseNats \/ Kill
  BY <1>1, <1>9, <1>3 DEF CloseNats, Kill, Inject, Calm
<1>10. QED
  BY <1>4, <1>5, <1>6, <1>7, <1>8, <1>9 DEF Next

(* Whatever the number of subscriptions and messages: LossNeedsAnother.    *)
THEOREM LossTakesAnother == Spec => []LossNeedsAnother
<1>1. Init => CalmInv
  BY InitPlaces DEF Init, CalmInv, CalmOK
<1>2. CalmInv /\ LossInv => LossNeedsAnother
  BY DEF CalmInv, CalmOK, Calm, LossInv, AnswersOK, Accounted, LossNeedsAnother
<1>3. QED
  BY <1>1, <1>2, NextCalm, InitLoss, NextLoss, PTL DEF Spec
-----------------------------------------------------------------------------
(* Whole reports.                                                          *)

(* A handler owes the rows it has not committed yet; with them, whoever    *)
(* else committed rows of the message before, its report is whole.         *)
Owed(m) ==
  IF handling[m.consumer] = m /\ step[m.consumer] \in {"insert", "tx"}
  THEN left[m.consumer] ELSE 0
Whole(n, t) == \E k \in Nat : n = k * t
WholeOK(m) == m \in interrupted \cup skipped \/ Whole(rows[m] + Owed(m), Transactions(m))
WholeInv == PlaceInv /\ \A m \in Message : WholeOK(m)

\* Another whole report on top of whole reports.
LEMMA WholeSums ==
  ASSUME NEW n \in Nat, NEW t \in Nat, Whole(n, t)
  PROVE  Whole(n + t, t)
<1>1. PICK k \in Nat : n = k * t
  BY DEF Whole
<1>2. n + t = (k + 1) * t
  BY <1>1
<1>3. QED
  BY <1>2 DEF Whole

\* Whole reports are as many as their transactions at most.
LEMMA WholeBound ==
  ASSUME NEW n \in Nat, NEW t \in Nat, Whole(n, t)
  PROVE  \E k \in 0..n : n = k * t
<1>1. PICK k \in Nat : n = k * t
  BY DEF Whole
<1>2. CASE t = 0
  <2>1. n = 0 * t
    BY <1>1, <1>2
  <2>2. QED
    BY <2>1
<1>3. CASE t > 0
  <2>1. k <= k * t
    BY <1>3
  <2>2. QED
    BY <1>1, <2>1
<1>4. QED
  BY <1>2, <1>3

LEMMA NextWhole == WholeInv /\ [Next]_vars => WholeInv'
<1> SUFFICES ASSUME WholeInv, [Next]_vars, NEW m \in Message PROVE WholeOK(m)'
  BY NextPlaces DEF WholeInv
<1> USE DEF brokerVars, handlerVars, history
<1>1. /\ TypeInv /\ WholeOK(m) /\ m.consumer \in Consumer /\ m # None
      /\ Transactions(m) \in Nat /\ rows[m] \in Nat /\ left[m.consumer] \in Nat
  BY DEF WholeInv, PlaceInv, TypeInv, TypeOK
<1>2. \A c \in Consumer : handling[c] # None => handling[c].consumer = c
  BY DEF WholeInv, PlaceInv, PlacesOK, HeldBy
<1>3. ASSUME interrupted \subseteq interrupted', skipped \subseteq skipped',
             rows'[m] = rows[m], Owed(m)' = Owed(m)
      PROVE  WholeOK(m)'
  BY <1>1, <1>3 DEF WholeOK
<1>4. ASSUME NEW n, NEW k, Die(n, k) PROVE WholeOK(m)'
  <2>1. /\ interrupted' = interrupted \cup Unfinished /\ Owed(m)' = 0
        /\ UNCHANGED <<rows, skipped>>
    BY <1>1, <1>4 DEF Die, Owed
  <2>2. CASE handling[m.consumer] = m /\ step[m.consumer] \in {"insert", "tx"}
    BY <1>1, <2>1, <2>2 DEF Unfinished, WholeOK
  <2>3. CASE ~(handling[m.consumer] = m /\ step[m.consumer] \in {"insert", "tx"})
    BY <1>3, <2>1, <2>3 DEF Owed
  <2>4. QED
    BY <2>2, <2>3
<1>5. ASSUME UNCHANGED <<handling, step, left, rows, interrupted, skipped>> PROVE WholeOK(m)'
  BY <1>5, <1>3 DEF Owed
<1>6. ASSUME NEW c \in Consumer, Handler(c) PROVE WholeOK(m)'
  <2>1. CASE Receive(c) \/ Ack(c) \/ BeginTx(c)
    BY <1>1, <1>3, <2>1 DEF Receive, Ack, BeginTx, Owed, TypeInv, TypeOK
  <2>2. CASE DecodeInsert(c)
    <3>1. CASE handling[c] = m
      <4>1. m.consumer = c
        BY <1>1, <1>2, <3>1
      <4>2. /\ Owed(m) = 0 /\ Owed(m)' = Transactions(m)
            /\ UNCHANGED <<rows, interrupted, skipped>>
        BY <2>2, <3>1, <4>1, <1>1 DEF DecodeInsert, Owed, TypeInv, TypeOK
      <4>3. QED
        BY <1>1, <4>2, WholeSums DEF WholeOK
    <3>2. CASE handling[c] # m
      BY <1>1, <1>3, <2>2, <3>2 DEF DecodeInsert, Owed, TypeInv, TypeOK
    <3>3. QED
      BY <3>1, <3>2
  <2>3. CASE CommitTx(c)
    <3>1. CASE handling[c] = m
      <4>1. m.consumer = c /\ left[c] \in Nat /\ left[c] > 0
        BY <1>1, <1>2, <2>3, <3>1 DEF CommitTx, TypeInv, TxOK
      <4>2. /\ Owed(m) = left[c] /\ Owed(m)' = left[c] - 1 /\ rows'[m] = rows[m] + 1
            /\ UNCHANGED <<interrupted, skipped>>
        BY <1>1, <2>3, <3>1, <4>1 DEF CommitTx, Owed, TypeInv, TypeOK
      <4>3. rows'[m] + Owed(m)' = rows[m] + Owed(m)
        BY <1>1, <4>1, <4>2
      <4>4. QED
        BY <1>1, <4>2, <4>3 DEF WholeOK
    <3>2. CASE handling[c] # m
      BY <1>1, <1>3, <2>3, <3>2 DEF CommitTx, Owed, TypeInv, TypeOK
    <3>3. QED
      BY <3>1, <3>2
  <2>4. ASSUME Skip(c) PROVE WholeOK(m)'
    <3>1. Return(c) /\ skipped' = skipped \cup {handling[c]} /\ UNCHANGED <<rows, interrupted>>
      BY <2>4 DEF Skip
    <3>2. CASE handling[c] = m
      BY <3>1, <3>2 DEF WholeOK
    <3>3. CASE handling[c] # m
      BY <1>1, <1>3, <3>1, <3>3 DEF Return, Owed, TypeInv, TypeOK
    <3>4. QED
      BY <3>2, <3>3
  <2>5. CASE Finish(c)
    BY <1>1, <1>3, <2>5 DEF Finish, Return, Owed, TypeInv, TypeOK
  <2>6. CASE DecodeDie(c) \/ InsertDies(c)
    BY <1>4, <2>6 DEF DecodeDie, InsertDies
  <2>7. CASE DropRow(c)
    BY <1>3, <2>7 DEF DropRow, Owed
  <2>8. QED
    BY <1>6, <2>1, <2>2, <2>3, <2>4, <2>5, <2>6, <2>7
       DEF Handler, DecodeSkip, AbandonTx, InsertFails
<1>7. QED
  BY <1>5, <1>6, <1>4 DEF Next, Publish, Deliver, Redeliver, FlushAck, CloseNats, CloseDb,
     Exit, Kill, Restart, vars

(* Every handler that is not interrupted stores all rows of its message,   *)
(* however many there are and however often it gets the message:           *)
(* WholeReports.                                                           *)
THEOREM ReportsAreWhole == Spec => []WholeReports
<1>1. Init => WholeInv
  <2> SUFFICES ASSUME Init, NEW m \in Message PROVE WholeOK(m)
    BY InitPlaces DEF WholeInv
  <2>1. rows[m] + Owed(m) = 0 * Transactions(m)
    BY DEF Init, Owed
  <2>2. QED
    BY <2>1 DEF WholeOK, Whole
<1>2. WholeInv => WholeReports
  <2> SUFFICES ASSUME WholeInv, NEW m \in Message, ~Working(m), m \notin interrupted \cup skipped
               PROVE  \E k \in 0..rows[m] : rows[m] = k * Transactions(m)
    BY DEF WholeReports
  <2>1. rows[m] \in Nat /\ Transactions(m) \in Nat /\ m.consumer \in Consumer /\ WholeOK(m)
    BY DEF WholeInv, PlaceInv, TypeInv, TypeOK
  <2>2. Owed(m) = 0
    BY <2>1 DEF Owed, Working
  <2>3. Whole(rows[m], Transactions(m))
    BY <2>1, <2>2 DEF WholeOK
  <2>4. QED
    BY <2>1, <2>3, WholeBound
<1>3. QED
  BY <1>1, <1>2, NextWhole, PTL DEF Spec
-----------------------------------------------------------------------------
(* Duplicates.                                                             *)

(* A message that was never offered twice is in one place at a time: it    *)
(* waits, unanswered and with no row; or a handler is at it, past its ack  *)
(* exactly if it is answered, and owes at most what is missing; or it is   *)
(* answered and done.                                                      *)
OnceOK(m) ==
  /\ rows[m] > 0 => m \in Answered
  /\ m \in Range(inbox[m.consumer]) =>
       m \notin Answered /\ handling[m.consumer] # m /\ Once(inbox[m.consumer], m)
  /\ handling[m.consumer] = m =>
       /\ m \in Answered <=> step[m.consumer] # "received"
       /\ step[m.consumer] = "acked" => rows[m] = 0
  /\ rows[m] + Owed(m) <= Transactions(m)
OnceInv == PlaceInv /\ \A m \in Message \ reoffered : OnceOK(m)

LEMMA NextOnce == OnceInv /\ [Next]_vars => OnceInv'
<1>1. TypeInv /\ [Next]_vars => reoffered \subseteq reoffered'
  BY DieAnswers DEF Next, Publish, Deliver, Redeliver, Handler, Receive, Ack, DecodeInsert,
     DecodeSkip, DecodeDie, BeginTx, CommitTx, AbandonTx, Finish, InsertFails, InsertDies, Skip,
     DropRow,
     FlushAck, CloseNats, CloseDb, Exit, Kill, Restart, Die, vars, history
<1> SUFFICES ASSUME OnceInv, [Next]_vars, NEW m \in Message \ reoffered' PROVE OnceOK(m)'
  BY NextPlaces DEF OnceInv
<1> USE DEF brokerVars, handlerVars, history
<1>2. /\ PlaceInv /\ TypeInv /\ OnceOK(m) /\ m.consumer \in Consumer /\ m # None
      /\ Transactions(m) \in Nat /\ rows[m] \in Nat /\ left[m.consumer] \in Nat
      /\ Owed(m) \in Nat /\ inbox[m.consumer] \in Seq(Message)
  BY <1>1 DEF OnceInv, PlaceInv, TypeInv, TypeOK, Owed
<1>3. \A c \in Consumer : handling[c] # None => handling[c].consumer = c
  BY <1>2 DEF PlaceInv, PlacesOK, HeldBy
<1>4. ASSUME handling'[m.consumer] = handling[m.consumer], step'[m.consumer] = step[m.consumer],
             Owed(m)' = Owed(m), rows'[m] = rows[m], m \in Answered' <=> m \in Answered,
             inbox'[m.consumer] = inbox[m.consumer] \/ inbox'[m.consumer] = <<>>
      PROVE  OnceOK(m)'
  BY <1>2, <1>4, RangeEmpty DEF OnceOK
<1>5. ASSUME UNCHANGED <<handling, step, left, rows>>, Answered' = Answered,
             inbox' = inbox \/ inbox' = [c \in Consumer |-> <<>>]
      PROVE  OnceOK(m)'
  BY <1>2, <1>5, <1>4 DEF Owed
<1>6. ASSUME NEW x \in Message, Deliver(x) \/ Redeliver(x) PROVE OnceOK(m)'
  <2>1. /\ inbox' = [inbox EXCEPT ![x.consumer] = Append(@, x)]
        /\ UNCHANGED <<handling, step, left, rows>> /\ Answered' = Answered /\ Owed(m)' = Owed(m)
    BY <1>6 DEF Deliver, Redeliver, Answered, Owed
  <2>2. CASE x.consumer # m.consumer
    <3>1. inbox'[m.consumer] = inbox[m.consumer]
      BY <1>2, <2>1, <2>2, HandedOver
    <3>2. QED
      BY <2>1, <3>1, <1>4
  <2>3. CASE x.consumer = m.consumer
    <3>1. inbox'[m.consumer] = Append(inbox[m.consumer], x)
      BY <1>2, <2>1, <2>3, HandedOver
    <3>2. Range(inbox'[m.consumer]) = Range(inbox[m.consumer]) \cup {x}
      BY <1>2, <3>1, RangeAppend
    <3>3. CASE x = m
      <4>1. m \notin Range(inbox[m.consumer]) /\ m \notin Answered /\ handling[m.consumer] # m
        <5>1. CASE Deliver(m)
          BY <1>2, <5>1 DEF Deliver, PlaceInv, PlacesOK, HeldBy, Answered
        <5>2. CASE Redeliver(m)
          BY <1>2, <5>2 DEF Redeliver, Held, InHand, Answered
        <5>3. QED
          BY <1>6, <3>3, <5>1, <5>2
      <4>2. Once(inbox'[m.consumer], m)
        BY <1>2, <3>1, <3>3, <4>1, OnceAbsent, OnceAppend
      <4>3. QED
        BY <1>2, <2>1, <4>1, <4>2 DEF OnceOK
    <3>4. CASE x # m
      <4>1. m \in Range(inbox[m.consumer]) => Once(inbox'[m.consumer], m)
        BY <1>2, <3>1, <3>4, OnceAppend DEF OnceOK
      <4>2. QED
        BY <1>2, <2>1, <3>2, <3>4, <4>1 DEF OnceOK
    <3>5. QED
      BY <3>3, <3>4
  <2>4. QED
    BY <2>2, <2>3
<1>7. ASSUME NEW n \in 0..Len(ackbuf), NEW k \in Nat, Die(n, k) PROVE OnceOK(m)'
  <2>1. m \in Answered' <=> m \in Answered
    BY <1>2, <1>7, DieAnswers
  <2>2. handling'[m.consumer] = None /\ inbox'[m.consumer] = <<>> /\ rows' = rows /\ Owed(m)' = 0
    BY <1>2, <1>7 DEF Die, Owed
  <2>3. QED
    BY <1>2, <2>1, <2>2, RangeEmpty DEF OnceOK
<1>8. ASSUME NEW c \in Consumer, Handler(c) PROVE OnceOK(m)'
  <2>0. ASSUME m.consumer # c, UNCHANGED <<rows, inbox>> \/ Receive(c) \/ CommitTx(c),
               \A d \in Consumer \ {c} : handling'[d] = handling[d] /\ step'[d] = step[d]
                                         /\ left'[d] = left[d],
               m \in Answered' <=> m \in Answered
        PROVE  OnceOK(m)'
    <3>1. inbox'[m.consumer] = inbox[m.consumer]
      BY <1>2, <2>0 DEF Receive, CommitTx, TypeInv, TypeOK
    <3>2. rows'[m] = rows[m]
      <4>1. CASE CommitTx(c)
        <5>1. handling[c] # None
          BY <1>2, <4>1 DEF CommitTx, TypeInv, HandlerOK
        <5>2. handling[c] # m
          BY <1>3, <2>0, <5>1
        <5>3. QED
          BY <1>2, <4>1, <5>2 DEF CommitTx, TypeInv, TypeOK
      <4>2. QED
        BY <2>0, <4>1 DEF Receive
    <3>3. QED
      BY <1>2, <1>4, <2>0, <3>1, <3>2 DEF Owed
  <2>1. CASE Receive(c)
    <3>0. Answered' = Answered /\ rows' = rows /\ Owed(m)' = Owed(m) /\ step'[c] = "received"
          /\ \A d \in Consumer \ {c} : handling'[d] = handling[d] /\ step'[d] = step[d]
                                         /\ left'[d] = left[d]
      BY <1>2, <2>1 DEF Receive, Answered, Owed, TypeInv, TypeOK
    <3>1. CASE m.consumer = c
      <4>1. /\ inbox[c] # <<>> /\ handling'[c] = Head(inbox[c]) /\ inbox'[c] = Tail(inbox[c])
            /\ Range(inbox[c]) = {Head(inbox[c])} \cup Range(inbox'[c])
        BY <1>2, <2>1, Received
      <4>2. m \in Range(inbox[c]) => Once(inbox'[c], m) /\ (m = handling'[c] => m \notin Range(inbox'[c]))
        BY <1>2, <3>1, <4>1, OnceTail DEF OnceOK
      <4>3. QED
        BY <1>2, <3>0, <3>1, <4>1, <4>2 DEF OnceOK
    <3>2. CASE m.consumer # c
      BY <2>0, <2>1, <3>0, <3>2
    <3>3. QED
      BY <3>1, <3>2
  <2>2. CASE Ack(c)
    <3>0. /\ UNCHANGED <<rows, inbox, handling, left>> /\ Owed(m)' = Owed(m)
          /\ step[c] = "received" /\ step'[c] = "acked"
          /\ \A d \in Consumer \ {c} : step'[d] = step[d]
      BY <1>2, <2>2 DEF Ack, Owed, TypeInv, TypeOK
    <3>1. CASE handling[c] = m
      <4>1. m.consumer = c /\ m \in Answered'
        BY <1>2, <1>3, <2>2, <3>1, Acknowledged
      <4>2. QED
        BY <1>2, <3>0, <3>1, <4>1 DEF OnceOK
    <3>2. CASE handling[c] # m
      <4>1. m \in Answered' <=> m \in Answered
        BY <1>2, <2>2, <3>2, Acknowledged
      <4>2. QED
        BY <1>2, <3>0, <3>2, <4>1 DEF OnceOK
    <3>3. QED
      BY <3>1, <3>2
  <2>3. CASE DecodeInsert(c) \/ BeginTx(c)
    <3>0. /\ UNCHANGED <<rows, inbox, handling>> /\ Answered' = Answered
          /\ step[c] \in {"acked", "insert"} /\ step'[c] \in {"insert", "tx"}
          /\ \A d \in Consumer \ {c} : step'[d] = step[d] /\ left'[d] = left[d]
          /\ IF step[c] = "acked" THEN left'[c] = Transactions(handling[c]) ELSE left'[c] = left[c]
      BY <1>2, <2>3 DEF DecodeInsert, BeginTx, Answered, TypeInv, TypeOK
    <3>1. CASE handling[c] = m
      <4>1. m.consumer = c
        BY <1>2, <1>3, <3>1
      <4>2. rows'[m] + Owed(m)' <= Transactions(m)
        <5>1. Owed(m)' = left'[c] /\ rows'[m] = rows[m]
          BY <3>0, <3>1, <4>1 DEF Owed
        <5>2. CASE step[c] = "acked"
          <6>1. rows[m] = 0
            BY <1>2, <3>1, <4>1, <5>2 DEF OnceOK
          <6>2. QED
            BY <1>2, <3>0, <3>1, <5>1, <5>2, <6>1
        <5>3. CASE step[c] = "insert"
          <6>1. Owed(m) = left[c]
            BY <3>1, <4>1, <5>3 DEF Owed
          <6>2. QED
            BY <1>2, <3>0, <4>1, <5>1, <5>3, <6>1 DEF OnceOK
        <5>4. QED
          BY <3>0, <5>2, <5>3
      <4>3. /\ m \in Answered /\ m \notin Range(inbox[c])
            /\ handling'[c] = m /\ step'[c] \notin {"received", "acked"} /\ inbox'[c] = inbox[c]
        BY <1>2, <3>0, <3>1, <4>1 DEF OnceOK
      <4>4. QED
        BY <3>0, <4>1, <4>2, <4>3 DEF OnceOK
    <3>2. CASE handling[c] # m
      <4>1. Owed(m)' = Owed(m)
        BY <1>2, <3>0, <3>2 DEF Owed
      <4>2. QED
        BY <1>2, <3>0, <3>2, <4>1 DEF OnceOK
    <3>3. QED
      BY <3>1, <3>2
  <2>4. CASE CommitTx(c)
    <3>0. /\ UNCHANGED <<inbox, handling>> /\ Answered' = Answered
          /\ step[c] = "tx" /\ step'[c] = "insert" /\ left[c] \in Nat \ {0} /\ left'[c] = left[c] - 1
          /\ \A d \in Consumer \ {c} : step'[d] = step[d] /\ left'[d] = left[d]
          /\ rows'[m] = IF m = handling[c] THEN rows[m] + 1 ELSE rows[m]
      BY <1>2, <2>4 DEF CommitTx, Answered, TypeInv, TypeOK, TxOK
    <3>1. CASE handling[c] = m
      <4>1. m.consumer = c
        BY <1>2, <1>3, <3>1
      <4>2. rows'[m] + Owed(m)' <= Transactions(m)
        BY <1>2, <3>0, <3>1, <4>1 DEF OnceOK, Owed
      <4>3. /\ m \in Answered /\ m \notin Range(inbox[c])
            /\ handling'[c] = m /\ step'[c] \notin {"received", "acked"} /\ inbox'[c] = inbox[c]
        BY <1>2, <3>0, <3>1, <4>1 DEF OnceOK
      <4>4. QED
        BY <3>0, <4>1, <4>2, <4>3 DEF OnceOK
    <3>2. CASE handling[c] # m
      <4>1. Owed(m)' = Owed(m)
        BY <1>2, <3>0, <3>2 DEF Owed
      <4>2. QED
        BY <1>2, <3>0, <3>2, <4>1 DEF OnceOK
    <3>3. QED
      BY <3>1, <3>2
  <2>5. CASE DecodeSkip(c) \/ AbandonTx(c) \/ InsertFails(c) \/ Finish(c)
    <3>1. /\ Return(c) /\ UNCHANGED <<rows, inbox>> /\ Answered' = Answered
      BY <2>5 DEF DecodeSkip, AbandonTx, InsertFails, Finish, Skip, Answered
    <3>2. CASE m.consumer = c
      <4>1. handling'[m.consumer] = None /\ Owed(m)' = 0
        BY <1>2, <3>1, <3>2 DEF Return, Owed, TypeInv, TypeOK
      <4>2. QED
        BY <1>2, <3>1, <4>1 DEF OnceOK
    <3>3. CASE m.consumer # c
      BY <1>2, <2>0, <3>1, <3>3 DEF Return, TypeInv, TypeOK
    <3>4. QED
      BY <3>2, <3>3
  <2>6. CASE DecodeDie(c) \/ InsertDies(c)
    BY <1>7, <2>6 DEF DecodeDie, InsertDies, Refusal
  <2>7. CASE DropRow(c)
    BY <1>5, <2>7 DEF DropRow, Answered
  <2>8. QED
    BY <1>8, <2>1, <2>2, <2>3, <2>4, <2>5, <2>6, <2>7 DEF Handler
<1>9. CASE Exit \/ Kill
  <2>1. Len(ackbuf) \in 0..Len(ackbuf)
    BY <1>2 DEF TypeInv, TypeOK
  <2>2. QED
    BY <1>7, <1>9, <2>1 DEF Exit, Kill
<1>10. CASE FlushAck \/ CloseNats
  BY <1>2, <1>5, <1>10, Flushed DEF FlushAck, CloseNats
<1>11. CASE CloseDb \/ Restart \/ UNCHANGED vars \/ \E x \in Message : Publish(x)
  BY <1>5, <1>11 DEF CloseDb, Restart, Publish, vars, Answered
<1>12. QED
  BY <1>6, <1>8, <1>9, <1>10, <1>11 DEF Next

(* A report is stored a second time only if its message was offered twice, *)
(* wherever the deaths and the shutdowns fall: DuplicateHasACause.         *)
THEOREM DuplicatesAreOffered == Spec => []DuplicateHasACause
<1>1. Init => OnceInv
  <2>1. Init => \A m \in Message : OnceOK(m)
    BY RangeEmpty DEF Init, OnceOK, Owed, Answered
  <2>2. QED
    BY <2>1, InitPlaces DEF OnceInv
<1>2. OnceInv => DuplicateHasACause
  <2> SUFFICES ASSUME OnceInv, NEW m \in Message \ reoffered PROVE rows[m] <= Transactions(m)
    BY DEF DuplicateHasACause, OnceInv, PlaceInv, TypeInv, TypeOK
  <2>1. /\ rows[m] \in Nat /\ Owed(m) \in Nat /\ Transactions(m) \in Nat
        /\ rows[m] + Owed(m) <= Transactions(m)
    BY DEF OnceInv, PlaceInv, TypeInv, TypeOK, OnceOK, Owed
  <2>2. QED
    BY <2>1
<1>3. QED
  BY <1>1, <1>2, NextOnce, PTL DEF Spec
=============================================================================
