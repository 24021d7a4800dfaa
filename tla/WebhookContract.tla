-------------------------- MODULE WebhookContract --------------------------
(***************************************************************************)
(* What a webhook bridge promises, whatever its server and its connection  *)
(* do in between: a webhook is published at most once, and only while its  *)
(* sender waits; a publication gets into the stream or is gone, and stays  *)
(* so; an error is answered only if nothing was published, and 200 only if *)
(* something was, unless the bridge hides failures.  Nothing is promised   *)
(* about how many publications get into the stream, nor how long that      *)
(* takes; a process that dies takes with it what is underway.              *)
(***************************************************************************)
CONSTANT Event

VARIABLES
  hides,    \* whether the bridge answers 200 for what it did not publish
  answer,   \* what the sender of each webhook was told
  underway, \* publications not decided yet
  stored,   \* events in the stream
  gone      \* publications that will never be in the stream

contractVars == <<hides, answer, underway, stored, gone>>

Published == underway \cup stored \cup gone
Waits(e)  == answer[e] = "waiting"

ContractInit ==
  /\ hides \in BOOLEAN
  /\ answer = [e \in Event |-> "new"]
  /\ underway = {} /\ stored = {} /\ gone = {}

Receive(e) ==
  /\ answer[e] = "new"
  /\ answer' = [answer EXCEPT ![e] = "waiting"]
  /\ UNCHANGED <<hides, underway, stored, gone>>

Publish(e) ==
  /\ Waits(e) /\ e \notin Published
  /\ underway' = underway \cup {e}
  /\ UNCHANGED <<hides, answer, stored, gone>>

Answer(e, a) ==
  /\ Waits(e)
  /\ a = "ok" => e \in Published \/ hides
  /\ a = "error" => e \notin Published
  /\ answer' = [answer EXCEPT ![e] = a]
  /\ UNCHANGED <<hides, underway, stored, gone>>

(* The publications S get into the stream, and those of L never will.      *)
Settle(S, L) ==
  /\ underway' = underway \ (S \cup L)
  /\ stored' = stored \cup S /\ gone' = gone \cup L
  /\ UNCHANGED <<hides, answer>>

Die ==
  /\ underway' = {} /\ gone' = gone \cup underway
  /\ answer' = [e \in Event |-> IF Waits(e) THEN "cut" ELSE answer[e]]
  /\ UNCHANGED <<hides, stored>>

ContractNext ==
  \/ \E S \in SUBSET underway : \E L \in SUBSET (underway \ S) : Settle(S, L)
  \/ \E e \in Event : Receive(e) \/ Publish(e) \/ Answer(e, "ok") \/ Answer(e, "error")
  \/ Die

ContractSpec == ContractInit /\ [][ContractNext]_contractVars
=============================================================================
