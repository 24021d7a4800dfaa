----------------------- MODULE ExpiredDataExportProofs -----------------------
(***************************************************************************)
(* Proofs about ExpiredDataExport, for every set of rows and of runs and   *)
(* every number of faults.                                                 *)
(***************************************************************************)
EXTENDS ExpiredDataExport, TLAPS

USE FaultAssumption

(* The rows a mark is excused for.                                         *)
Excused == uploaded \cup overlapped \cup unread

(* A row a run has not selected came after it had.                         *)
SelectOK == \A j \in Run : step[j] # "idle" => Unexported \subseteq selected[j] \cup overlapped

(* What a run has selected is in its text or was cut off, and later in S3. *)
ReadOK ==
  \A j \in Run : /\ step[j] = "built" => selected[j] \subseteq csvData[j] \cup unread
                 /\ step[j] = "uploaded" => selected[j] \subseteq uploaded \cup unread

(* Every mutation, queued or done, only has excused rows.                  *)
MutationOK == (\A R \in mutations : R \subseteq Excused) /\ MarkHasACause

MarkInv == TypeOK /\ SelectOK /\ ReadOK /\ MutationOK

LEMMA InitInv == Init => MarkInv
BY DEF Init, MarkInv, TypeOK, Marks, Steps, SelectOK, ReadOK, MutationOK, MarkHasACause,
       Exported, Excused

(* Every variable keeps its type.                                          *)
LEMMA NextType == TypeOK /\ [Next]_vars => TypeOK'
<1> SUFFICES ASSUME TypeOK, [Next]_vars PROVE TypeOK'
  OBVIOUS
<1> USE DEF TypeOK, Marks, Steps, Inject, runVars, history
<1>1. ASSUME NEW r \in Row, Insert(r) PROVE TypeOK'
  BY <1>1 DEF Insert
<1>2. ASSUME NEW R \in mutations, Mutate(R) PROVE TypeOK'
  BY <1>2 DEF Mutate
<1>3. ASSUME NEW j \in Run, Select(j) PROVE TypeOK'
  BY <1>3 DEF Select, Unexported
<1>4. ASSUME NEW j \in Run, ReadAll(j) PROVE TypeOK'
  BY <1>4 DEF ReadAll
<1>5. ASSUME NEW j \in Run, ReadBreaks(j) PROVE TypeOK'
  BY <1>5 DEF ReadBreaks
<1>6. ASSUME NEW j \in Run, Upload(j) PROVE TypeOK'
  BY <1>6 DEF Upload, Put
<1>7. ASSUME NEW j \in Run, UploadUnanswered(j) PROVE TypeOK'
  BY <1>7 DEF UploadUnanswered, Put, Return
<1>8. ASSUME NEW j \in Run, MarkExported(j) PROVE TypeOK'
  BY <1>8 DEF MarkExported, Return, Unexported
<1>9. ASSUME NEW j \in Run, Fail(j) PROVE TypeOK'
  BY <1>9 DEF Fail, Return
<1>10. CASE EndOfProcess
  BY <1>10 DEF EndOfProcess
<1>11. CASE UNCHANGED vars
  BY <1>11 DEF vars
<1>12. ASSUME NEW r \in Row, Expire(r) PROVE TypeOK'
  BY <1>12 DEF Expire
<1>13. QED
  BY <1>1, <1>2, <1>3, <1>4, <1>5, <1>6, <1>7, <1>8, <1>9, <1>10, <1>11, <1>12
  DEF Next, Export

LEMMA NextInv == MarkInv /\ [Next]_vars => MarkInv'
<1> SUFFICES ASSUME MarkInv, [Next]_vars PROVE MarkInv'
  OBVIOUS
<1>1. TypeOK /\ TypeOK'
  BY NextType DEF MarkInv
<1> USE <1>1 DEF MarkInv, SelectOK, ReadOK, MutationOK, MarkHasACause, Exported, Excused,
             Unexported, runVars, history
<1>2. ASSUME NEW r \in Row, Insert(r) PROVE MarkInv'
  <2>1. Unexported' = Unexported \cup {r} /\ Exported' = Exported
    BY <1>2 DEF Insert, TypeOK
  <2>2. ASSUME NEW j \in Run, step[j] # "idle" PROVE overlapped' = overlapped \cup {r}
    BY <1>2, <2>2 DEF Insert, Active
  <2>3. UNCHANGED <<mutations, step, selected, csvData, uploaded, unread>>
        /\ overlapped \subseteq overlapped'
    BY <1>2 DEF Insert
  <2>4. QED
    BY <2>1, <2>2, <2>3
<1>14. ASSUME NEW r \in Row, Expire(r) PROVE MarkInv'
  <2>1. Unexported' \subseteq Unexported /\ Exported' \subseteq Exported
    BY <1>14 DEF Expire, TypeOK
  <2>2. QED
    BY <1>14, <2>1 DEF Expire
<1>3. ASSUME NEW R \in mutations, Mutate(R) PROVE MarkInv'
  <2>1. Unexported' \subseteq Unexported /\ Exported' \subseteq Exported \cup R
    BY <1>3 DEF Mutate, TypeOK
  <2>2. QED
    BY <1>3, <2>1 DEF Mutate
<1>4. ASSUME NEW j \in Run, Select(j) PROVE MarkInv'
  BY <1>4 DEF Select, TypeOK
<1>5. ASSUME NEW j \in Run, ReadAll(j) PROVE MarkInv'
  BY <1>5 DEF ReadAll, TypeOK
<1>6. ASSUME NEW j \in Run, ReadBreaks(j) PROVE MarkInv'
  BY <1>6 DEF ReadBreaks, TypeOK
<1>7. ASSUME NEW j \in Run, Upload(j) PROVE MarkInv'
  BY <1>7 DEF Upload, Put, TypeOK
<1>8. ASSUME NEW j \in Run, UploadUnanswered(j) PROVE MarkInv'
  BY <1>8 DEF UploadUnanswered, Put, Return, TypeOK
<1>9. ASSUME NEW j \in Run, MarkExported(j) PROVE MarkInv'
  <2>1. Unexported \subseteq Excused
    BY <1>9 DEF MarkExported
  <2>2. \A R \in mutations' : R \subseteq Excused
    BY <1>9, <2>1 DEF MarkExported
  <2>3. QED
    BY <1>9, <2>2 DEF MarkExported, Return, TypeOK
<1>10. ASSUME NEW j \in Run, Fail(j) PROVE MarkInv'
  BY <1>10 DEF Fail, Return, TypeOK
<1>11. CASE EndOfProcess
  BY <1>11 DEF EndOfProcess
<1>12. CASE UNCHANGED vars
  BY <1>12 DEF vars
<1>13. QED
  BY <1>2, <1>3, <1>4, <1>5, <1>6, <1>7, <1>8, <1>9, <1>10, <1>11, <1>12,
     <1>14 DEF Next, Export

(* Every variable keeps its type.                                          *)
THEOREM TypeCorrect == Spec => []TypeOK
BY InitInv, NextType, PTL DEF Spec, MarkInv

(* No row is marked exported that was not uploaded, but for the two causes *)
(* MarkHasACause names, however the runs overlap and fail.                 *)
THEOREM MarksAreExcused == Spec => []MarkHasACause
<1>1. MarkInv => MarkHasACause
  BY DEF MarkInv, MutationOK
<1>2. QED
  BY <1>1, InitInv, NextInv, PTL DEF Spec
=============================================================================
