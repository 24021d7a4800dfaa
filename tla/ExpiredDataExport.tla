-------------------------- MODULE ExpiredDataExport --------------------------
(***************************************************************************)
(* The daily export of one ClickHouse table to S3 by the client.           *)
(*                                                                         *)
(* ExportExpiredData selects the rows whose ExportedAt is null, uploads    *)
(* them as one object whose key is the name of the table, and then asks    *)
(* ClickHouse to set ExportedAt wherever it is null.  Meanwhile the        *)
(* message handlers insert rows.  robfig/cron starts each run of a job on  *)
(* a goroutine of its own, so a run that outlasts the day overlaps the     *)
(* next, as do the runs of two pods.                                       *)
(*                                                                         *)
(* ClickHouse is modelled from how the client uses it: a SELECT reads the  *)
(* rows of the moment it starts, and ALTER TABLE UPDATE returns once the   *)
(* mutation is queued; it applies to the rows that existed then, later.    *)
(* Every table is created with TTL ExpiryDate: ClickHouse deletes a row    *)
(* when its interval is over, whether or not a run has exported it.  The   *)
(* interval is a setting, from minutes to months, and nothing relates it   *)
(* to the day between two runs, so a row may expire at any moment.         *)
(***************************************************************************)
EXTENDS Naturals

CONSTANTS
  Row,        \* the rows that may be inserted
  Run,        \* the runs of the cron job that may be active at once
  MaxFaults   \* bound on failing calls and ends of the process

ASSUME FaultAssumption == MaxFaults \in Nat

VARIABLES
  table,      \* each row: not inserted, with a null ExportedAt, with one, deleted
  mutations,  \* the queued mutations: the sets of rows they apply to
  object,     \* the rows in the object of the table in S3
  step,       \* where each run is
  selected,   \* the rows the SELECT of each run returns
  csvData,    \* the rows each run has written to its CSV text
  faults,     \* number of faults so far
  uploaded,   \* history: the rows that were ever in the object
  overlapped, \* history: the rows inserted while a run was active
  unread      \* history: the rows a run has not read because its query broke

runVars == <<step, selected, csvData>>
history == <<uploaded, overlapped, unread>>
vars == <<table, mutations, object, runVars, faults, history>>

Marks == {"absent", "null", "exported", "expired"}
Steps == {"idle", "reading", "built", "uploaded"}

Unexported == {r \in Row : table[r] = "null"}
Exported   == {r \in Row : table[r] = "exported"}
Active     == {j \in Run : step[j] # "idle"}

Inject == faults < MaxFaults /\ faults' = faults + 1

Init ==
  /\ table = [r \in Row |-> "absent"]
  /\ mutations = {} /\ object = {}
  /\ step = [j \in Run |-> "idle"]
  /\ selected = [j \in Run |-> {}]
  /\ csvData = [j \in Run |-> {}]
  /\ faults = 0
  /\ uploaded = {} /\ overlapped = {} /\ unread = {}

-----------------------------------------------------------------------------
(* ClickHouse and the handlers that insert into it.                        *)

Insert(r) ==
  /\ table[r] = "absent"
  /\ table' = [table EXCEPT ![r] = "null"]
  /\ overlapped' = IF Active = {} THEN overlapped ELSE overlapped \cup {r}
  /\ UNCHANGED <<mutations, object, runVars, faults, uploaded, unread>>

Mutate(R) ==
  /\ R \in mutations
  /\ mutations' = mutations \ {R}
  /\ table' = [r \in Row |-> IF r \in R \cap Unexported THEN "exported" ELSE table[r]]
  /\ UNCHANGED <<object, runVars, faults, history>>

(* TTL ExpiryDate: the row is deleted.                                     *)
Expire(r) ==
  /\ r \in Unexported \cup Exported
  /\ table' = [table EXCEPT ![r] = "expired"]
  /\ UNCHANGED <<mutations, object, runVars, faults, history>>

-----------------------------------------------------------------------------
(* One run of ExportExpiredData.                                           *)

Select(j) ==
  /\ step[j] = "idle"
  /\ step' = [step EXCEPT ![j] = "reading"]
  /\ selected' = [selected EXCEPT ![j] = Unexported]
  /\ csvData' = [csvData EXCEPT ![j] = {}]
  /\ UNCHANGED <<table, mutations, object, faults, history>>

(* The loop over the rows, to the end.                                     *)
ReadAll(j) ==
  /\ step[j] = "reading"
  /\ csvData' = [csvData EXCEPT ![j] = selected[j]]
  /\ step' = [step EXCEPT ![j] = "built"]
  /\ UNCHANGED <<table, mutations, object, selected, faults, history>>

(* rows.Next() is false early because the connection broke: rows.Err() is  *)
(* not asked, and the run goes on with what it has.                        *)
ReadBreaks(j) ==
  /\ step[j] = "reading"
  /\ Inject
  /\ \E R \in SUBSET selected[j] \ {selected[j]} :
       /\ csvData' = [csvData EXCEPT ![j] = R]
       /\ unread' = unread \cup (selected[j] \ R)
  /\ step' = [step EXCEPT ![j] = "built"]
  /\ UNCHANGED <<table, mutations, object, selected, uploaded, overlapped>>

(* The function returns: its variables are gone.                           *)
Return(j) ==
  /\ step' = [step EXCEPT ![j] = "idle"]
  /\ selected' = [selected EXCEPT ![j] = {}]
  /\ csvData' = [csvData EXCEPT ![j] = {}]

Put(j) ==
  /\ object' = csvData[j]
  /\ uploaded' = uploaded \cup csvData[j]

Upload(j) ==
  /\ step[j] = "built"
  /\ Put(j)
  /\ step' = [step EXCEPT ![j] = "uploaded"]
  /\ UNCHANGED <<table, mutations, selected, csvData, faults, overlapped, unread>>

(* PutObject replaces the object and its answer is lost.                   *)
UploadUnanswered(j) ==
  /\ step[j] = "built"
  /\ Put(j)
  /\ Inject /\ Return(j)
  /\ UNCHANGED <<table, mutations, overlapped, unread>>

(* Mutant: the condition of the ALTER is inverted.                         *)
MarkInverted(j) ==
  /\ step[j] = "uploaded"
  /\ mutations' = mutations \cup {Exported}
  /\ Return(j)
  /\ UNCHANGED <<table, object, faults, history>>

MarkExported(j) ==
  /\ step[j] = "uploaded"
  /\ mutations' = IF Unexported = {} THEN mutations ELSE mutations \cup {Unexported}
  /\ Return(j)
  /\ UNCHANGED <<table, object, faults, history>>

(* Mutants: a failed upload is logged and the run goes on, and a run that  *)
(* failed keeps the next from starting.                                    *)
FailGoesOn(j) ==
  /\ step[j] \in {"reading", "built"}
  /\ Inject
  /\ step' = [step EXCEPT ![j] = "uploaded"]
  /\ UNCHANGED <<table, mutations, object, selected, csvData, history>>

FailStays(j) ==
  /\ step[j] # "idle"
  /\ Inject
  /\ step' = [step EXCEPT ![j] = "failed"]
  /\ UNCHANGED <<table, mutations, object, selected, csvData, history>>

(* Scan, PutObject or the ALTER fails: the run returns its error, which    *)
(* exportDataForTables logs.                                               *)
Fail(j) ==
  /\ step[j] # "idle"
  /\ Inject /\ Return(j)
  /\ UNCHANGED <<table, mutations, object, history>>

(* The process ends with its runs: nobody waits for them, neither log.Fatal*)
(* in a handler nor c.Stop() nor main.                                     *)
EndOfProcess ==
  /\ Active # {}
  /\ Inject
  /\ step' = [j \in Run |-> "idle"]
  /\ selected' = [j \in Run |-> {}] /\ csvData' = [j \in Run |-> {}]
  /\ UNCHANGED <<table, mutations, object, history>>

-----------------------------------------------------------------------------
Export(j) ==
  \/ Select(j) \/ ReadAll(j) \/ Upload(j) \/ MarkExported(j)

Next ==
  \/ \E r \in Row : Insert(r) \/ Expire(r)
  \/ \E R \in mutations : Mutate(R)
  \/ \E j \in Run : Export(j) \/ ReadBreaks(j) \/ UploadUnanswered(j) \/ Fail(j)
  \/ EndOfProcess

Spec == Init /\ [][Next]_vars

(* The cron starts a run every day, runs go on by themselves, ClickHouse   *)
(* works off its mutations.                                                *)
Fairness ==
  /\ \A j \in Run : WF_vars(Export(j))
  /\ WF_vars(\E R \in mutations : Mutate(R))

FairSpec == Spec /\ Fairness

-----------------------------------------------------------------------------
TypeOK ==
  /\ table \in [Row -> Marks]
  /\ mutations \subseteq SUBSET Row
  /\ object \subseteq Row
  /\ step \in [Run -> Steps]
  /\ selected \in [Run -> SUBSET Row] /\ csvData \in [Run -> SUBSET Row]
  /\ faults \in 0..MaxFaults
  /\ uploaded \subseteq Row /\ overlapped \subseteq Row /\ unread \subseteq Row

(* A row that is marked exported was uploaded, but for two causes: it was  *)
(* inserted while a run was active, or the query of a run broke unnoticed. *)
(* A failed upload or ALTER, a lost answer, overlapping runs and the end   *)
(* of the process never mark a row that was not uploaded.                  *)
MarkHasACause == Exported \subseteq uploaded \cup overlapped \cup unread

(* A row that ClickHouse keeps is exported in the end, however the runs    *)
(* fail and overlap.  Nothing says it is kept until then: with an interval *)
(* below the day between two runs, or runs that fail for that long, its    *)
(* TTL deletes it first, and it never reaches S3.                          *)
KeptRowIsExported ==
  \A r \in Row : table[r] = "null" ~> table[r] \in {"exported", "expired"}
=============================================================================
