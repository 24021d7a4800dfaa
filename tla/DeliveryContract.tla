-------------------------- MODULE DeliveryContract --------------------------
(***************************************************************************)
(* What the pipeline from a JetStream stream to ClickHouse promises,       *)
(* whatever its client does in between: the broker hands a message out     *)
(* until the client has settled it and never again; only a client that has *)
(* the message in hand stores rows of it; rows are never taken back.       *)
(* Nothing is promised about how many rows a settled message has.          *)
(***************************************************************************)
EXTENDS Naturals

CONSTANT Message

VARIABLES
  sent,     \* messages in the stream
  taken,    \* messages the broker has handed out at least once
  settled,  \* messages the broker will never hand out again
  inHand,   \* messages of which the client holds a copy
  stored    \* rows of each message in the database

contractVars == <<sent, taken, settled, inHand, stored>>

ContractInit ==
  /\ sent = {} /\ taken = {} /\ settled = {} /\ inHand = {}
  /\ stored = [m \in Message |-> 0]

Send(m) ==
  /\ m \in Message \ sent
  /\ sent' = sent \cup {m}
  /\ UNCHANGED <<taken, settled, inHand, stored>>

HandOut(m) ==
  /\ m \in sent \ settled
  /\ taken' = taken \cup {m}
  /\ inHand' = inHand \cup {m}
  /\ UNCHANGED <<sent, settled, stored>>

Store(m) ==
  /\ m \in inHand
  /\ stored' = [stored EXCEPT ![m] = @ + 1]
  /\ UNCHANGED <<sent, taken, settled, inHand>>

(* The client lets go of some messages while the broker learns that some   *)
(* others are settled: one step, because a dying process does both.        *)
Release(S, R) ==
  /\ S \subseteq taken
  /\ settled' = settled \cup S
  /\ inHand' = inHand \ R
  /\ UNCHANGED <<sent, taken, stored>>

ContractNext ==
  \/ \E m \in Message : Send(m) \/ HandOut(m) \/ Store(m)
  \/ \E S \in SUBSET taken, R \in SUBSET inHand : Release(S, R)

ContractSpec == ContractInit /\ [][ContractNext]_contractVars
=============================================================================
