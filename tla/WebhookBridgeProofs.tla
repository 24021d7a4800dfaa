------------------------- MODULE WebhookBridgeProofs -------------------------
(***************************************************************************)
(* Proofs about WebhookBridge, for every set of events, every limit of     *)
(* nats.go and every number of faults.                                     *)
(***************************************************************************)
EXTENDS WebhookBridge, SequenceRanges, TLAPS

USE EventAssumption, BoundAssumption

-----------------------------------------------------------------------------
(* Type correctness.                                                       *)

LEMMA InitType == Init => TypeOK
BY DEF Init, TypeOK, Phases, Links, Requests

\* What a connection leaves in its buffer, by position.
LEMMA Remainder ==
  ASSUME NEW n \in 0..Len(outbox), outbox \in Seq(Event),
         outbox' = SubSeq(outbox, n + 1, Len(outbox))
  PROVE  /\ outbox' \in Seq(Event) /\ Len(outbox') = Len(outbox) - n
         /\ \A i \in 1..Len(outbox') : outbox'[i] = outbox[i + n]
BY Suffix

(* What a connection does with its buffer keeps the types.                 *)
LEMMA DisconnectType == TypeOK /\ Disconnect => TypeOK'
<1> SUFFICES ASSUME TypeOK, Disconnect PROVE TypeOK'
  OBVIOUS
<1> USE DEF TypeOK, Links
<1>1. PICK n \in 0..Len(outbox) : \E k \in 0..n :
        /\ stored' = stored \cup {outbox[i] : i \in 1..k}
        /\ lost' = lost \cup {outbox[i] : i \in (k + 1)..n}
        /\ orphaned' = orphaned \cup {outbox[i] : i \in 1..n}
        /\ outbox' = SubSeq(outbox, n + 1, Len(outbox))
  BY DEF Disconnect
<1>2. PICK k \in 0..n :
        /\ stored' = stored \cup {outbox[i] : i \in 1..k}
        /\ lost' = lost \cup {outbox[i] : i \in (k + 1)..n}
        /\ orphaned' = orphaned \cup {outbox[i] : i \in 1..n}
        /\ outbox' = SubSeq(outbox, n + 1, Len(outbox))
  BY <1>1
<1>3. outbox \in Seq(Event) /\ Len(outbox) \in Nat
  OBVIOUS
<1>4. \A i \in 1..Len(outbox) : outbox[i] \in Event
  BY <1>3
<1>5. 1..k \subseteq 1..Len(outbox) /\ (k + 1)..n \subseteq 1..Len(outbox) /\ 1..n \subseteq 1..Len(outbox)
  BY <1>3
<1>6. {outbox[i] : i \in 1..k} \subseteq Event
  BY <1>4, <1>5, Zenon
<1>7. {outbox[i] : i \in (k + 1)..n} \subseteq Event
  BY <1>4, <1>5, Zenon
<1>8. {outbox[i] : i \in 1..n} \subseteq Event
  BY <1>4, <1>5, Zenon
<1>9. outbox' \in Seq(Event)
  <2>1. outbox' = SubSeq(outbox, n + 1, Len(outbox))
    BY <1>2
  <2>2. QED
    BY <1>3, <2>1, Remainder, Zenon
<1>10. stored' \subseteq Event /\ lost' \subseteq Event /\ orphaned' \subseteq Event
  BY <1>2, <1>6, <1>7, <1>8
<1>11. faults' \in 0..MaxFaults /\ link' \in Links
  BY DEF Disconnect, Inject
<1>12. UNCHANGED <<bridge, phase, req, pending, rejected, unsent>>
  BY DEF Disconnect
<1>13. QED
  BY <1>9, <1>10, <1>11, <1>12

\* The end of the process loses what it had in memory.
LEMMA EndType ==
  ASSUME TypeOK, End, faults' \in 0..MaxFaults
  PROVE  TypeOK'
<1>1. Range(outbox) \subseteq Event
  BY RangeType DEF TypeOK
<1>2. QED
  BY <1>1 DEF TypeOK, End, LoseOutbox, Phases, Links, Requests, Answered

LEMMA NextType == TypeOK /\ [Next]_vars => TypeOK'
<1> SUFFICES ASSUME TypeOK, [Next]_vars PROVE TypeOK'
  OBVIOUS
<1>1. ASSUME NEW e \in Event, Open(e) \/ Handle(e) PROVE TypeOK'
  <2> USE DEF TypeOK, To, Requests, Answered, history
  <2>1. CASE Open(e)
    BY <2>1 DEF Open
  <2>2. CASE Reject(e)
    BY <2>2 DEF Reject
  <2>3. CASE Ignore(e)
    BY <2>3 DEF Ignore
  <2>4. CASE Publish(e)
    BY <2>4, RangeAppend DEF Publish
  <2>5. CASE PublishFails(e)
    BY <2>5 DEF PublishFails
  <2>6. CASE AnswerPublished(e)
    BY <2>6 DEF AnswerPublished
  <2>7. CASE AnswerFailed(e)
    BY <2>7 DEF AnswerFailed
  <2>8. QED
    BY <1>1, <2>1, <2>2, <2>3, <2>4, <2>5, <2>6, <2>7 DEF Handle
<1>2. ASSUME outbox # <<>> PROVE Head(outbox) \in Event /\ Tail(outbox) \in Seq(Event)
  BY <1>2, RangeHeadTail DEF TypeOK
<1>3. Range(outbox) \subseteq Event
  BY RangeType DEF TypeOK
<1>4. CASE Store
  BY <1>2, <1>4 DEF Store, TypeOK, history
<1>5. CASE Refuse
  BY <1>2, <1>5 DEF Refuse, TypeOK, Inject
<1>6. CASE Disconnect
  BY <1>6, DisconnectType
<1>7. CASE Reconnect
  BY <1>7 DEF Reconnect, TypeOK, Links, history
<1>8. CASE GiveUp
  BY <1>3, <1>8 DEF GiveUp, LoseOutbox, TypeOK, Links
<1>9. CASE CloseNats
  <2> USE DEF CloseNats, TypeOK, Links, Phases
  <2>1. CASE link = "up"
    BY <1>3, <1>9, <2>1
  <2>2. CASE link # "up"
    BY <1>3, <1>9, <2>2 DEF LoseOutbox
  <2>3. QED
    BY <2>1, <2>2
<1>10. CASE Shutdown
  BY <1>10 DEF Shutdown, TypeOK, Phases, history
<1>11. CASE ServerClosed
  BY <1>11, EndType DEF ServerClosed, TypeOK
<1>12. CASE Kill
  <2>1. faults' \in 0..MaxFaults
    BY <1>12 DEF Kill, Inject, TypeOK
  <2>2. QED
    BY <1>12, <2>1, EndType DEF Kill
<1>13. CASE Restart
  BY <1>13 DEF Restart, TypeOK, Phases, Links, history
<1>14. CASE UNCHANGED vars
  BY <1>14 DEF vars, TypeOK, history
<1>15. QED
  BY <1>1, <1>4, <1>5, <1>6, <1>7, <1>8, <1>9, <1>10, <1>11, <1>12, <1>13, <1>14 DEF Next

(* Every variable keeps its type.                                          *)
THEOREM TypeCorrect == Spec => []TypeOK
BY InitType, NextType, PTL DEF Spec

-----------------------------------------------------------------------------
(* What happens to an event once its handler has answered.                 *)

(* The event was written to the connection, and where it is now is known.  *)
Sent      == stored \cup Range(outbox)
Accounted == Sent \cup lost \cup rejected

(* A handler about to answer: what it will answer for is so already.       *)
PublishedOK == \A e \in Event : req[e] = "published" => e \in Accounted
FailedOK    == \A e \in Event : req[e] = "failed" => e \in unsent

(* A handler that has not written its event, or will answer an error.      *)
UnsentOK ==
  \A e \in Event : req[e] \in {"new", "open", "failed", "error"} => e \notin Sent

AnswerInv == TypeOK /\ PublishedOK /\ FailedOK /\ UnsentOK /\ OkLossHasACause

LEMMA InitAnswer == Init => AnswerInv
BY InitType, RangeEmpty
   DEF Init, AnswerInv, PublishedOK, FailedOK, UnsentOK, OkLossHasACause, Sent

(* The connection moves events about without losing track of one, and none *)
(* appears that was not written.                                           *)
Tracked == Accounted \subseteq Accounted' /\ Sent' \subseteq Sent

\* A lost connection loses track of no event.
LEMMA TrackDisconnect == TypeOK /\ Disconnect => Tracked
<1> SUFFICES ASSUME TypeOK, Disconnect PROVE Tracked
  OBVIOUS
<1>1. outbox \in Seq(Event) /\ Len(outbox) \in Nat
  BY DEF TypeOK
<1>2. PICK n \in 0..Len(outbox) : \E k \in 0..n :
        /\ stored' = stored \cup {outbox[i] : i \in 1..k}
        /\ lost' = lost \cup {outbox[i] : i \in (k + 1)..n}
        /\ outbox' = SubSeq(outbox, n + 1, Len(outbox))
  BY DEF Disconnect
<1>3. PICK k \in 0..n :
        /\ stored' = stored \cup {outbox[i] : i \in 1..k}
        /\ lost' = lost \cup {outbox[i] : i \in (k + 1)..n}
        /\ outbox' = SubSeq(outbox, n + 1, Len(outbox))
  BY <1>2
<1>4. Range(outbox) = {outbox[i] : i \in 1..Len(outbox)}
  BY <1>1, RangeIndexed
<1>5. /\ outbox' \in Seq(Event) /\ Len(outbox') = Len(outbox) - n
      /\ \A i \in 1..Len(outbox') : outbox'[i] = outbox[i + n]
  <2>1. outbox' = SubSeq(outbox, n + 1, Len(outbox))
    BY <1>3
  <2>2. QED
    BY <1>1, <2>1, Remainder, Zenon
<1>6. Range(outbox') = {outbox'[i] : i \in 1..Len(outbox')}
  BY <1>5, RangeIndexed
<1>7. ASSUME NEW i \in 1..Len(outbox')
      PROVE  i + n \in 1..Len(outbox) /\ outbox'[i] = outbox[i + n]
  BY <1>1, <1>3, <1>5
<1>8. ASSUME NEW i \in 1..Len(outbox)
      PROVE  outbox[i] \in stored' \cup lost' \cup Range(outbox')
  <2>1. CASE i \in 1..k
    BY <1>3, <2>1
  <2>2. CASE i \in (k + 1)..n
    BY <1>3, <2>2
  <2>3. CASE i \in (n + 1)..Len(outbox)
    <3>1. i - n \in 1..Len(outbox') /\ outbox'[i - n] = outbox[i]
      BY <1>1, <1>3, <1>5, <2>3
    <3>2. QED
      BY <1>6, <3>1
  <2>4. QED
    BY <1>1, <2>1, <2>2, <2>3
<1>9. Range(outbox) \subseteq stored' \cup lost' \cup Range(outbox')
  BY <1>4, <1>8, Zenon
<1>10. Range(outbox') \subseteq Range(outbox)
  BY <1>4, <1>6, <1>7
<1>11. 1..k \subseteq 1..Len(outbox)
  BY <1>1
<1>12. stored' \subseteq stored \cup Range(outbox)
  BY <1>3, <1>4, <1>11, Zenon
<1>13. stored \subseteq stored' /\ lost \subseteq lost' /\ rejected' = rejected
  BY <1>3 DEF Disconnect
<1>14. QED
  BY <1>9, <1>10, <1>12, <1>13 DEF Tracked, Accounted, Sent

\* Neither does any other step of the connection.
LEMMA TrackConnection ==
  TypeOK /\ (Store \/ Refuse \/ Disconnect \/ GiveUp \/ CloseNats) => Tracked
<1> SUFFICES ASSUME TypeOK, Store \/ Refuse \/ Disconnect \/ GiveUp \/ CloseNats
             PROVE  Tracked
  OBVIOUS
<1>1. ASSUME outbox # <<>> PROVE Range(outbox) = {Head(outbox)} \cup Range(Tail(outbox))
  BY <1>1, RangeHeadTail DEF TypeOK
<1> USE DEF Tracked, Accounted, Sent
<1>2. CASE Store
  BY <1>1, <1>2 DEF Store, history
<1>3. CASE Refuse
  BY <1>1, <1>3 DEF Refuse
<1>4. CASE Disconnect
  BY <1>4, TrackDisconnect
<1>5. CASE GiveUp
  BY <1>5, RangeEmpty DEF GiveUp, LoseOutbox
<1>6. CASE CloseNats
  BY <1>6, RangeEmpty DEF CloseNats, LoseOutbox
<1>7. QED
  BY <1>2, <1>3, <1>4, <1>5, <1>6

(* A step that tracks the events and moves no request keeps the invariant. *)
LEMMA TrackedAnswer ==
  ASSUME AnswerInv, TypeOK', Tracked, req' = req, unsent' = unsent, bridge' = bridge
  PROVE  AnswerInv'
BY DEF AnswerInv, PublishedOK, FailedOK, UnsentOK, OkLossHasACause, Tracked, Accounted, Sent

(* The end of the process cuts the open requests and tracks the rest.      *)
LEMMA EndAnswer ==
  ASSUME AnswerInv, TypeOK', End
  PROVE  AnswerInv'
<1>1. Tracked
  BY RangeEmpty DEF End, LoseOutbox, Tracked, Accounted, Sent
<1>2. ASSUME NEW e \in Event
      PROVE  /\ req'[e] \in {"new", "error", "ok"} => req'[e] = req[e]
             /\ req'[e] \notin {"open", "published", "failed"}
  BY DEF End, AnswerInv, TypeOK, Requests
<1>3. PublishedOK' /\ FailedOK'
  BY <1>2 DEF PublishedOK, FailedOK
<1>4. UnsentOK'
  BY <1>1, <1>2 DEF AnswerInv, UnsentOK, Tracked
<1>5. OkLossHasACause'
  BY <1>1, <1>2 DEF AnswerInv, OkLossHasACause, Tracked, Accounted, Sent, End
<1>6. QED
  BY <1>3, <1>4, <1>5 DEF AnswerInv

\* A step of a handler keeps what is said of its answer.
LEMMA HandlerAnswer ==
  ASSUME AnswerInv, TypeOK', NEW e \in Event, Open(e) \/ Handle(e)
  PROVE  AnswerInv'
<1> USE DEF AnswerInv, PublishedOK, FailedOK, UnsentOK, OkLossHasACause, Accounted, Sent,
            TypeOK, To, history
<1>1. CASE Open(e)
  BY <1>1 DEF Open
<1>2. CASE Reject(e)
  BY <1>2 DEF Reject
<1>3. CASE Ignore(e)
  BY <1>3 DEF Ignore
<1>4. CASE Publish(e)
  <2>1. Range(outbox') = Range(outbox) \cup {e}
    BY <1>4, RangeAppend DEF Publish
  <2>2. QED
    BY <1>4, <2>1 DEF Publish
<1>5. CASE PublishFails(e)
  BY <1>5 DEF PublishFails
<1>6. CASE AnswerPublished(e)
  BY <1>6 DEF AnswerPublished
<1>7. CASE AnswerFailed(e)
  BY <1>7 DEF AnswerFailed
<1>8. QED
  BY <1>1, <1>2, <1>3, <1>4, <1>5, <1>6, <1>7 DEF Handle

LEMMA NextAnswer == AnswerInv /\ [Next]_vars => AnswerInv'
<1> SUFFICES ASSUME AnswerInv, [Next]_vars PROVE AnswerInv'
  OBVIOUS
<1>1. TypeOK /\ TypeOK'
  BY NextType DEF AnswerInv
<1>2. ASSUME NEW e \in Event, Open(e) \/ Handle(e) PROVE AnswerInv'
  BY <1>1, <1>2, HandlerAnswer
<1>3. CASE Store \/ Refuse \/ Disconnect \/ GiveUp \/ CloseNats
  <2>1. Tracked
    BY <1>1, <1>3, TrackConnection
  <2>2. req' = req /\ unsent' = unsent /\ bridge' = bridge
    BY <1>3 DEF Store, Refuse, Disconnect, GiveUp, CloseNats, history
  <2>3. QED
    BY <1>1, <2>1, <2>2, TrackedAnswer
<1>4. CASE Reconnect \/ Shutdown \/ Restart \/ UNCHANGED vars
  <2>1. Tracked /\ req' = req /\ unsent' = unsent /\ bridge' = bridge
    BY <1>4 DEF Reconnect, Shutdown, Restart, vars, history, Tracked, Accounted, Sent
  <2>2. QED
    BY <1>1, <2>1, TrackedAnswer
<1>5. CASE ServerClosed \/ Kill
  BY <1>1, <1>5, EndAnswer DEF ServerClosed, Kill
<1>6. QED
  BY <1>2, <1>3, <1>4, <1>5 DEF Next

(* A webhook that was answered 200 and is to be published is in the stream *)
(* or on its way, or was lost by the connection or refused by the server   *)
(* (before the answer or after it), or the git bridge has hidden the error *)
(* of its publication.                                                     *)
THEOREM OkIsAccountedFor == Spec => []OkLossHasACause
<1>1. Spec => []AnswerInv
  BY InitAnswer, NextAnswer, PTL DEF Spec
<1>2. AnswerInv => OkLossHasACause
  BY DEF AnswerInv
<1>3. QED
  BY <1>1, <1>2, PTL

(* A webhook that was answered with an error never gets into the stream.   *)
THEOREM ErrorIsFinal == Spec => []ErrorMeansUnsent
<1>1. Spec => []AnswerInv
  BY InitAnswer, NextAnswer, PTL DEF Spec
<1>2. AnswerInv => ErrorMeansUnsent
  BY DEF AnswerInv, UnsentOK, ErrorMeansUnsent, Sent
<1>3. QED
  BY <1>1, <1>2, PTL
-----------------------------------------------------------------------------
(* The contract between the senders of webhooks and the stream.            *)

(* No event is in the buffer twice: what the connection decides about one  *)
(* publication it does not decide about another of the same event.         *)
OutboxOK == \A e \in Event : Once(outbox, e)

(* A handler that has not published its event, or never will: the event is *)
(* nowhere, not even among the lost ones.                                  *)
FreshOK ==
  \A e \in Event : req[e] \in {"new", "open", "failed", "error"} => e \notin Accounted

(* A bridge has the routes of its own providers only.                      *)
RouteOK == \A e \in Event : req[e] # "new" => e.provider \in Providers

ContractInv == AnswerInv /\ OutboxOK /\ FreshOK /\ RouteOK

LEMMA InitContract == Init => ContractInv /\ Contract!ContractInit
<1> SUFFICES ASSUME Init PROVE ContractInv /\ Contract!ContractInit
  OBVIOUS
<1>1. AnswerInv
  BY InitAnswer
<1>2. Range(outbox) = {} /\ Len(outbox) = 0
  BY RangeEmpty DEF Init
<1>3. OutboxOK
  BY <1>2 DEF OutboxOK, Once
<1>4. FreshOK /\ RouteOK
  BY <1>2 DEF Init, FreshOK, RouteOK, Accounted, Sent
<1>5. Contract!ContractInit
  BY <1>2 DEF Init, Contract!ContractInit
<1>6. QED
  BY <1>1, <1>3, <1>4, <1>5 DEF ContractInv

(* The connection decides about the publications S and L, and no others.   *)
Decided(S, L) ==
  /\ Range(outbox)' = Range(outbox) \ (S \cup L)
  /\ stored' = stored \cup S
  /\ (lost \cup rejected)' = (lost \cup rejected) \cup L

Decision == \E S \in SUBSET Range(outbox) : \E L \in SUBSET (Range(outbox) \ S) : Decided(S, L)

\* A connection that breaks has decided about what it has written.
LEMMA DecideDisconnect == TypeOK /\ OutboxOK /\ Disconnect => Decision /\ OutboxOK'
<1> SUFFICES ASSUME TypeOK, OutboxOK, Disconnect PROVE Decision /\ OutboxOK'
  OBVIOUS
<1>1. outbox \in Seq(Event) /\ Len(outbox) \in Nat
  BY DEF TypeOK
<1>2. PICK n \in 0..Len(outbox) : \E k \in 0..n :
        /\ stored' = stored \cup {outbox[i] : i \in 1..k}
        /\ lost' = lost \cup {outbox[i] : i \in (k + 1)..n}
        /\ outbox' = SubSeq(outbox, n + 1, Len(outbox))
  BY DEF Disconnect
<1>3. PICK k \in 0..n :
        /\ stored' = stored \cup {outbox[i] : i \in 1..k}
        /\ lost' = lost \cup {outbox[i] : i \in (k + 1)..n}
        /\ outbox' = SubSeq(outbox, n + 1, Len(outbox))
  BY <1>2
<1>4. /\ outbox' \in Seq(Event) /\ Len(outbox') = Len(outbox) - n
      /\ \A i \in 1..Len(outbox') : outbox'[i] = outbox[i + n]
  <2>1. outbox' = SubSeq(outbox, n + 1, Len(outbox))
    BY <1>3
  <2>2. QED
    BY <1>1, <2>1, Remainder, Zenon
<1>5. /\ Range(outbox') = Range(outbox) \ {outbox[i] : i \in 1..n}
      /\ \A e \in Event : Once(outbox', e)
  <2>1. \A x \in Event : Once(outbox, x)
    BY DEF OutboxOK
  <2>2. QED
    BY <1>1, <1>4, <2>1, OnceSuffix
<1> DEFINE S == {outbox[i] : i \in 1..k}
           L == {outbox[i] : i \in (k + 1)..n}
<1>6. S \subseteq Range(outbox) /\ L \subseteq Range(outbox)
  <2>1. 1..k \subseteq 1..Len(outbox) /\ (k + 1)..n \subseteq 1..Len(outbox)
    BY <1>1
  <2>2. Range(outbox) = {outbox[i] : i \in 1..Len(outbox)}
    BY <1>1, RangeIndexed
  <2>3. QED
    BY <2>1, <2>2, Zenon
<1>7. {outbox[i] : i \in 1..n} = S \cup L
  <2>1. \A i : i \in 1..n <=> i \in 1..k \/ i \in (k + 1)..n
    BY <1>1
  <2>2. QED
    BY <2>1, Zenon
<1>8. S \cap L = {}
  <2> SUFFICES ASSUME NEW i \in 1..k, NEW j \in (k + 1)..n, outbox[i] = outbox[j] PROVE FALSE
    BY Zenon
  <2>1. i \in 1..Len(outbox) /\ j \in 1..Len(outbox) /\ i # j
    BY <1>1
  <2>2. outbox[i] \in Event
    BY <1>1, <2>1
  <2>3. QED
    BY <2>1, <2>2, Zenon DEF OutboxOK, Once
<1>9. rejected' = rejected
  BY DEF Disconnect
<1> HIDE DEF S, L
<1>10. Decided(S, L)
  <2>1. stored' = stored \cup S /\ lost' = lost \cup L
    BY <1>3 DEF S, L
  <2>2. QED
    BY <1>5, <1>7, <1>9, <2>1 DEF Decided
<1>11. QED
  BY <1>5, <1>6, <1>8, <1>10 DEF Decision, OutboxOK

\* So do the other steps of the connection.
LEMMA DecideConnection ==
  TypeOK /\ OutboxOK /\ (Store \/ Refuse \/ Disconnect \/ GiveUp \/ CloseNats)
    => Decision /\ OutboxOK'
<1> SUFFICES ASSUME TypeOK, OutboxOK, Store \/ Refuse \/ Disconnect \/ GiveUp \/ CloseNats
             PROVE  Decision /\ OutboxOK'
  OBVIOUS
<1>1. ASSUME outbox # <<>>, outbox' = Tail(outbox)
      PROVE  /\ Head(outbox) \in Range(outbox)
             /\ Range(outbox)' = Range(outbox) \ {Head(outbox)}
             /\ OutboxOK'
  <2>1. /\ outbox \in Seq(Event) /\ Head(outbox) \in Event
        /\ Range(outbox) = {Head(outbox)} \cup Range(Tail(outbox))
    BY <1>1, RangeHeadTail DEF TypeOK
  <2>2. \A e \in Event : Once(Tail(outbox), e) /\ (e = Head(outbox) => e \notin Range(Tail(outbox)))
    BY <1>1, <2>1, OnceTail DEF OutboxOK
  <2>3. QED
    BY <1>1, <2>1, <2>2 DEF OutboxOK
<1>2. ASSUME outbox' = <<>> PROVE Range(outbox)' = {} /\ OutboxOK'
  <2>1. Range(outbox)' = {} /\ Len(outbox') = 0
    BY <1>2, RangeEmpty
  <2>2. QED
    BY <2>1 DEF OutboxOK, Once
<1>3. CASE Store
  <2>1. Decided({Head(outbox)}, {})
    BY <1>1, <1>3 DEF Store, Decided, history
  <2>2. QED
    BY <1>1, <1>3, <2>1 DEF Store, Decision
<1>4. CASE Refuse
  <2>1. Decided({}, {Head(outbox)})
    BY <1>1, <1>4 DEF Refuse, Decided
  <2>2. QED
    BY <1>1, <1>4, <2>1 DEF Refuse, Decision
<1>5. CASE Disconnect
  BY <1>5, DecideDisconnect
<1>6. CASE LoseOutbox /\ stored' = stored /\ rejected' = rejected
  <2>1. Decided({}, Range(outbox))
    BY <1>2, <1>6 DEF LoseOutbox, Decided
  <2>2. QED
    BY <1>2, <1>6, <2>1 DEF LoseOutbox, Decision
<1>7. CASE GiveUp
  BY <1>6, <1>7 DEF GiveUp
<1>8. CASE CloseNats
  <2>1. CASE link = "up"
    <3>1. Decided(Range(outbox), {})
      BY <1>2, <1>8, <2>1 DEF CloseNats, Decided
    <3>2. QED
      BY <1>2, <1>8, <2>1, <3>1 DEF CloseNats, Decision
  <2>2. CASE link # "up"
    BY <1>6, <1>8, <2>2 DEF CloseNats
  <2>3. QED
    BY <2>1, <2>2
<1>9. QED
  BY <1>3, <1>4, <1>5, <1>7, <1>8
\* The end of the process loses what is in the buffer.
LEMMA EndDecides ==
  ASSUME ContractInv, End, AnswerInv'
  PROVE  ContractInv' /\ Contract!Die
<1>1. Range(outbox)' = {} /\ Len(outbox') = 0
  BY RangeEmpty DEF End, LoseOutbox
<1>2. OutboxOK'
  BY <1>1 DEF OutboxOK, Once
<1>3. ASSUME NEW e \in Event
      PROVE  /\ req'[e] \in {"new", "error"} => req'[e] = req[e]
             /\ req'[e] \notin {"open", "published", "failed"}
             /\ req'[e] # "new" => req[e] # "new"
  BY DEF End, ContractInv, AnswerInv, TypeOK, Requests
<1>4. FreshOK'
  BY <1>1, <1>3 DEF FreshOK, Accounted, Sent, End, LoseOutbox, ContractInv
<1>5. RouteOK'
  BY <1>3 DEF RouteOK, Providers, End, ContractInv
<1>6. /\ stored' = stored /\ bridge' = bridge
      /\ (lost \cup rejected)' = (lost \cup rejected) \cup Range(outbox)
  BY DEF End, LoseOutbox
<1>7. \A e \in Event :
        (IF req[e] \in {"open", "published", "failed"} THEN "waiting" ELSE req[e])' =
          IF req[e] \in {"open", "published", "failed"} THEN "cut" ELSE req[e]
  BY DEF End, ContractInv, AnswerInv, TypeOK, Requests, Answered
<1>8. \A e \in Event : req[e] # "waiting"
  BY DEF ContractInv, AnswerInv, TypeOK, Requests, Answered
<1>9. Contract!Die
  BY <1>1, <1>6, <1>7, <1>8 DEF Contract!Die, Contract!Waits
<1>10. QED
  BY <1>2, <1>4, <1>5, <1>9 DEF ContractInv

\* A step of the connection, seen from the contract.
LEMMA ConnectionDecides ==
  ASSUME ContractInv, AnswerInv', req' = req, bridge' = bridge, Decision, OutboxOK'
  PROVE  ContractInv' /\ Contract!ContractNext
<1>1. PICK S \in SUBSET Range(outbox) : \E L \in SUBSET (Range(outbox) \ S) : Decided(S, L)
  BY DEF Decision
<1>2. PICK L \in SUBSET (Range(outbox) \ S) : Decided(S, L)
  BY <1>1
<1>3. Accounted' = Accounted
  BY <1>2 DEF Decided, Accounted, Sent
<1>4. FreshOK' /\ RouteOK'
  BY <1>3 DEF ContractInv, FreshOK, RouteOK, Providers
<1>5. Contract!Settle(S, L)
  BY <1>2 DEF Decided, Contract!Settle
<1>6. QED
  BY <1>4, <1>5 DEF ContractInv, Contract!ContractNext

(* The answer of one request changes, in the model and in the contract.    *)
LEMMA ToldOne ==
  ASSUME TypeOK, NEW e \in Event, NEW where \in Requests, To(e, where)
  PROVE  [x \in Event |-> IF req[x] \in {"open", "published", "failed"}
                          THEN "waiting" ELSE req[x]]' =
         [[x \in Event |-> IF req[x] \in {"open", "published", "failed"}
                           THEN "waiting" ELSE req[x]] EXCEPT ![e] =
            IF where \in {"open", "published", "failed"} THEN "waiting" ELSE where]
<1>1. \A x \in Event : req'[x] = IF x = e THEN where ELSE req[x]
  BY DEF TypeOK, To
<1>2. QED
  BY <1>1

(* Only Gitea's handler answers 200 for what it does not publish.          *)
LEMMA IgnoredByGit ==
  ASSUME TypeOK, NEW e \in Event, e.provider \in Providers, Verdict(e) = "ignore"
  PROVE  bridge = "git"
<1>1. CASE e.provider = "Gitea"
  BY <1>1 DEF TypeOK, Providers, Registries
<1>2. CASE e.provider # "Gitea"
  <2>1. Verdict(e) \in {"publish", "reject"}
    BY <1>2 DEF Verdict, HeaderVerdict, AzureVerdict, DockerVerdict, RegistryVerdict,
                GitProviders, Registries
  <2>2. QED
    BY <2>1
<1>3. QED
  BY <1>1, <1>2

\* A step of a handler, seen from the contract.
LEMMA HandlerContract ==
  ASSUME ContractInv, AnswerInv', NEW e \in Event, Open(e) \/ Handle(e)
  PROVE  ContractInv' /\ (Contract!ContractNext \/ UNCHANGED Contract!contractVars)
<1> USE DEF history
<1>1. TypeOK /\ TypeOK'
  BY DEF ContractInv, AnswerInv
<1>2. ASSUME NEW where \in Requests \ {"new"}, To(e, where), outbox' = outbox, stored' = stored,
             lost' = lost, rejected' = rejected, bridge' = bridge,
             e.provider \in Providers,
             where \in {"open", "failed", "error"} => req[e] \in {"new", "open", "failed", "error"}
      PROVE  ContractInv'
  <2>1. \A x \in Event : req'[x] = IF x = e THEN where ELSE req[x]
    BY <1>1, <1>2 DEF TypeOK, To
  <2>2. OutboxOK'
    BY <1>2 DEF ContractInv, OutboxOK
  <2>3. FreshOK'
    BY <1>2, <2>1 DEF ContractInv, FreshOK, Accounted, Sent
  <2>4. RouteOK'
    BY <1>2, <2>1 DEF ContractInv, RouteOK, Providers
  <2>5. QED
    BY <2>2, <2>3, <2>4 DEF ContractInv
<1>3. ASSUME ~Open(e) PROVE e.provider \in Providers /\ req[e] \in {"open", "published", "failed"}
  <2>1. req[e] \in {"open", "published", "failed"}
    BY <1>3 DEF Handle, Reject, Ignore, Publish, PublishFails, AnswerPublished, AnswerFailed
  <2>2. QED
    BY <2>1 DEF ContractInv, RouteOK
<1>4. Contract!Published = Accounted
  BY DEF Contract!Published, Accounted, Sent
<1>5. CASE Open(e)
  <2>1. ContractInv'
    BY <1>2, <1>5 DEF Open, Requests, Answered
  <2>2. Contract!Receive(e)
    BY <1>1, <1>5, ToldOne DEF Open, Contract!Receive, Requests, Answered
  <2>3. QED
    BY <2>1, <2>2 DEF Contract!ContractNext
<1>6. CASE Publish(e)
  <2>1. /\ req[e] = "open" /\ outbox' = Append(outbox, e) /\ To(e, "published")
        /\ UNCHANGED <<bridge, stored, lost, rejected>>
    BY <1>6 DEF Publish
  <2>2. e \notin Accounted
    BY <2>1 DEF ContractInv, FreshOK
  <2>3. Range(outbox)' = Range(outbox) \cup {e}
    BY <1>1, <2>1, RangeAppend DEF TypeOK
  <2>4. \A x \in Event : req'[x] = IF x = e THEN "published" ELSE req[x]
    BY <1>1, <2>1 DEF TypeOK, To
  <2>5. OutboxOK'
    <3>1. \A x \in Event : Once(Append(outbox, e), x)
      BY <1>1, <2>2, OnceAppend DEF ContractInv, OutboxOK, TypeOK, Accounted, Sent
    <3>2. QED
      BY <2>1, <3>1 DEF OutboxOK
  <2>6. FreshOK'
    BY <2>1, <2>3, <2>4 DEF ContractInv, FreshOK, Accounted, Sent
  <2>7. RouteOK'
    BY <2>1, <2>4 DEF ContractInv, RouteOK, Providers
  <2>8. Contract!Publish(e)
    <3>1. \A x \in Event :
            (IF req[x] \in {"open", "published", "failed"} THEN "waiting" ELSE req[x])' =
             IF req[x] \in {"open", "published", "failed"} THEN "waiting" ELSE req[x]
      BY <2>1, <2>4
    <3>2. QED
      BY <1>4, <2>1, <2>2, <2>3, <3>1 DEF Contract!Publish, Contract!Waits
  <2>9. QED
    BY <2>5, <2>6, <2>7, <2>8 DEF ContractInv, Contract!ContractNext
<1>7. CASE PublishFails(e)
  <2>1. ContractInv'
    BY <1>2, <1>3, <1>7 DEF PublishFails, Requests, Open
  <2>2. \A x \in Event : req'[x] = IF x = e THEN "failed" ELSE req[x]
    BY <1>1, <1>7 DEF PublishFails, TypeOK, To
  <2>3. \A x \in Event :
          (IF req[x] \in {"open", "published", "failed"} THEN "waiting" ELSE req[x])' =
           IF req[x] \in {"open", "published", "failed"} THEN "waiting" ELSE req[x]
    BY <1>7, <2>2 DEF PublishFails
  <2>4. UNCHANGED Contract!contractVars
    BY <1>7, <2>3 DEF PublishFails, Contract!contractVars
  <2>5. QED
    BY <2>1, <2>4
<1>8. CASE Reject(e) \/ Ignore(e) \/ AnswerPublished(e) \/ AnswerFailed(e)
  <2>1. PICK a \in Answered : To(e, a)
    BY <1>8 DEF Reject, Ignore, AnswerPublished, AnswerFailed, Answered
  <2>2. UNCHANGED <<bridge, outbox, stored, lost, rejected>>
    BY <1>8 DEF Reject, Ignore, AnswerPublished, AnswerFailed
  <2>3. req[e] \in {"open", "published", "failed"} /\ e.provider \in Providers
    <3>1. req[e] \in {"open", "published", "failed"}
      BY <1>8 DEF Reject, Ignore, AnswerPublished, AnswerFailed
    <3>2. QED
      BY <3>1 DEF ContractInv, RouteOK
  <2>4. a = req'[e]
    BY <1>1, <2>1 DEF To, TypeOK
  <2>5. a = "error" => req[e] \in {"open", "failed"}
    BY <1>1, <1>8, <2>4 DEF Reject, Ignore, AnswerPublished, AnswerFailed, To, TypeOK
  <2>6. a = "ok" => e \in Accounted \/ bridge = "git"
    <3>1. CASE Reject(e)
      BY <1>1, <2>4, <3>1 DEF Reject, To, TypeOK
    <3>2. CASE Ignore(e)
      BY <1>1, <2>3, <3>2, IgnoredByGit DEF Ignore
    <3>3. CASE AnswerPublished(e)
      BY <3>3 DEF AnswerPublished, ContractInv, AnswerInv, PublishedOK
    <3>4. CASE AnswerFailed(e)
      BY <1>1, <2>4, <3>4 DEF AnswerFailed, To, TypeOK
    <3>5. QED
      BY <1>8, <3>1, <3>2, <3>3, <3>4
  <2>7. ContractInv'
    BY <1>2, <2>1, <2>2, <2>3, <2>5 DEF Requests, Answered
  <2>8. Contract!Answer(e, a)
    <3>1. a = "error" => e \notin Accounted
      BY <2>5 DEF ContractInv, FreshOK
    <3>2. a \in Requests /\ a \notin {"open", "published", "failed"}
      BY DEF Requests, Answered
    <3>3. [x \in Event |-> IF req[x] \in {"open", "published", "failed"}
                           THEN "waiting" ELSE req[x]]' =
          [[x \in Event |-> IF req[x] \in {"open", "published", "failed"}
                            THEN "waiting" ELSE req[x]] EXCEPT ![e] = a]
      BY <1>1, <2>1, <3>2, ToldOne
    <3>4. Contract!Waits(e)
      BY <2>3 DEF Contract!Waits
    <3>5. QED
      BY <1>4, <2>2, <2>6, <3>1, <3>3, <3>4 DEF Contract!Answer
  <2>9. QED
    BY <2>7, <2>8 DEF Contract!ContractNext, Answered
<1>9. QED
  BY <1>5, <1>6, <1>7, <1>8 DEF Handle

\* Every step of a bridge is a step of the contract or none.
LEMMA NextContract ==
  ContractInv /\ [Next]_vars => ContractInv' /\ [Contract!ContractNext]_(Contract!contractVars)
<1> SUFFICES ASSUME ContractInv, [Next]_vars
             PROVE  ContractInv' /\ (Contract!ContractNext \/ UNCHANGED Contract!contractVars)
  OBVIOUS
<1>1. AnswerInv' /\ TypeOK /\ OutboxOK
  BY NextAnswer DEF ContractInv, AnswerInv
<1>2. ASSUME NEW e \in Event, Open(e) \/ Handle(e)
      PROVE  ContractInv' /\ (Contract!ContractNext \/ UNCHANGED Contract!contractVars)
  BY <1>1, <1>2, HandlerContract
<1>3. CASE Store \/ Refuse \/ Disconnect \/ GiveUp \/ CloseNats
  <2>1. req' = req /\ bridge' = bridge
    BY <1>3 DEF Store, Refuse, Disconnect, GiveUp, CloseNats
  <2>2. QED
    BY <1>1, <1>3, <2>1, DecideConnection, ConnectionDecides
<1>4. CASE Reconnect \/ Shutdown \/ Restart \/ UNCHANGED vars
  <2>1. UNCHANGED <<bridge, req, outbox, stored, lost, rejected>>
    BY <1>4 DEF Reconnect, Shutdown, Restart, vars, history
  <2>2. ContractInv'
    BY <1>1, <2>1 DEF ContractInv, OutboxOK, FreshOK, RouteOK, Accounted, Sent, Providers
  <2>3. UNCHANGED Contract!contractVars
    BY <2>1 DEF Contract!contractVars
  <2>4. QED
    BY <2>2, <2>3
<1>5. CASE ServerClosed \/ Kill
  BY <1>1, <1>5, EndDecides DEF ServerClosed, Kill, Contract!ContractNext
<1>6. QED
  BY <1>2, <1>3, <1>4, <1>5 DEF Next

(* A bridge, with all its requests, its connection and its ends, keeps the *)
(* contract between the senders of webhooks and the stream: a webhook is   *)
(* published at most once, while its sender waits; what becomes of it is   *)
(* final; and an error is answered only for what was never published.      *)
THEOREM BridgeImplementsContract == Spec => ImplementsContract
BY InitContract, NextContract, PTL DEF Spec, ImplementsContract, Contract!ContractSpec
=============================================================================
