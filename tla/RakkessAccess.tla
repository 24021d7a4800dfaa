---------------------------- MODULE RakkessAccess ----------------------------
(***************************************************************************)
(* One run of the access check of the collection                            *)
(* (agent/kubviz/plugins/rakkess): a goroutine per resource asks the API     *)
(* server for every verb and stores its answers under a mutex; when all have *)
(* stored, a row per resource is published, in the order of a map.  A signal *)
(* cancels the context of the requests.                                      *)
(***************************************************************************)
EXTENDS Naturals, Sequences, FiniteSets

CONSTANTS
  Resource,    \* the resources of the cluster
  Supported    \* Supported[r]: the verbs r supports

VerbOrder == <<"list", "create", "update", "delete">>
Verbs == {VerbOrder[i] : i \in 1..4}

ASSUME SupportedAssumption == Supported \in [Resource -> SUBSET Verbs]

\* The codes of Access and of Outcome, and the marks of the rows.
Denied == 0
Allowed == 1
NotApplicable == 2
RequestErr == 3
\* (Mutant: off by one.)
accessToOutcomeShifted(access) ==
  CASE access = 1 -> "None" [] access = 2 -> "Up" [] access = 3 -> "Down" [] OTHER -> "Err"
accessToOutcome(access) ==
  CASE access = 0 -> "None" [] access = 1 -> "Up" [] access = 2 -> "Down" [] OTHER -> "Err"
HumanreadableAccessCode(o) ==
  CASE o = "None" -> "" [] o = "Up" -> "yes" [] o = "Down" -> "no" [] OTHER -> "ERR"

VARIABLES
  phase,      \* "start", "checking", "publishing", "nil" or "error"
  cancelled,  \* the context of the run is cancelled
  checking,   \* the resources whose goroutine runs (the WaitGroup counts them)
  access,     \* access[r]: the answers of r's goroutine so far, a function on the verbs asked
  res,        \* the map of the answers, which the goroutines fill
  rows,       \* the rows published
  answered    \* history: what the API server said of each resource and verb
rvars == <<phase, cancelled, checking, access, res, rows, answered>>

NoAnswers == [v \in {} |-> Denied]
Extended(f, k, e) == [x \in DOMAIN f \cup {k} |-> IF x = k THEN e ELSE f[x]]

RInit == /\ phase = "start" /\ cancelled = FALSE
         /\ checking = {} /\ access = [r \in Resource |-> NoAnswers]
         /\ res = [r \in {} |-> NoAnswers] /\ rows = [r \in {} |-> NoAnswers]
         /\ answered = [r \in Resource |-> NoAnswers]

\* RakeesOutput up to the WaitGroup.  The discovery of FetchAvailableGroupResources
\* may fail, or find a part of the resources; a resource without verbs is left out.
Fetch ==
  /\ phase = "start"
  /\ \/ /\ phase' = "error" /\ UNCHANGED checking
     \/ \E found \in SUBSET Resource :
          /\ checking' = {r \in found : Supported[r] # {}}
          /\ phase' = "checking"
  /\ UNCHANGED <<cancelled, access, res, rows, answered>>

\* The goroutine of r takes the verb that is next in opts.Verbs: one that r does
\* not support gets NotApplicable, and the others the answer of a
\* SelfSubjectAccessReview, which fails once the context is cancelled.
CheckVerb(r, v) ==
  /\ r \in checking /\ DOMAIN access[r] # Verbs
  /\ v = VerbOrder[Cardinality(DOMAIN access[r]) + 1]
  /\ IF v \notin Supported[r]
     THEN /\ access' = [access EXCEPT ![r] = Extended(@, v, NotApplicable)]
          /\ UNCHANGED answered
     ELSE \E a \in {Denied, Allowed, RequestErr} :
          /\ cancelled => a = RequestErr
          /\ access' = [access EXCEPT ![r] = Extended(@, v, a)]
          /\ answered' = [answered EXCEPT ![r] = Extended(@, v, a)]
  /\ UNCHANGED <<phase, cancelled, checking, res, rows>>

\* mu.Lock, the store, mu.Unlock, wg.Done.
Store(r) ==
  /\ r \in checking /\ DOMAIN access[r] = Verbs
  /\ res' = Extended(res, r, access[r])
  /\ checking' = checking \ {r}
  /\ UNCHANGED <<phase, cancelled, access, rows, answered>>

\* wg.Wait.
\* (Mutant: the goroutines are not waited for.)
WaitForFirst == /\ phase = "checking" /\ res # [r \in {} |-> NoAnswers]
                /\ phase' = "publishing"
                /\ UNCHANGED <<cancelled, checking, access, res, rows, answered>>
Wait == /\ phase = "checking" /\ checking = {}
        /\ phase' = "publishing"
        /\ UNCHANGED <<cancelled, checking, access, res, rows, answered>>

Row(answers) == [v \in Verbs |-> HumanreadableAccessCode(accessToOutcome(answers[v]))]
Publish(r) ==
  /\ phase = "publishing" /\ r \in DOMAIN res \ DOMAIN rows
  /\ \/ rows' = Extended(rows, r, Row(res[r])) /\ UNCHANGED phase
     \/ phase' = "error" /\ UNCHANGED rows
  /\ UNCHANGED <<cancelled, checking, access, res, answered>>

Done == /\ phase = "publishing" /\ DOMAIN rows = DOMAIN res
        /\ phase' = "nil"
        /\ UNCHANGED <<cancelled, checking, access, res, rows, answered>>

\* A signal of catchCtrlC, from the start of the checks on.
Cancel == /\ phase \in {"checking", "publishing"} /\ ~cancelled
          /\ cancelled' = TRUE
          /\ UNCHANGED <<phase, checking, access, res, rows, answered>>

RNext == \/ Fetch \/ Wait \/ Done \/ Cancel
         \/ \E r \in Resource : Store(r) \/ Publish(r) \/ \E v \in Verbs : CheckVerb(r, v)
RSpec == RInit /\ [][RNext]_rvars
-----------------------------------------------------------------------------
\* What the API server said of a verb, if it was asked.
Said(r, v, a) == v \in DOMAIN answered[r] /\ answered[r][v] = a

\* A published row tells apart the four cases of its own resource and each verb,
\* in whatever order the goroutines answer and store: a verb the resource does not
\* have, one that is allowed, one that is denied and one that could not be asked.
\* The marks are those of accessToOutcome, which takes the codes for others: the
\* verb that is denied is an empty cell, and the one that the resource does not
\* have is marked as refused.
RowsTellTheAnswers == \A r \in DOMAIN rows, v \in Verbs :
  /\ rows[r][v] = "no"  <=> v \notin Supported[r]
  /\ rows[r][v] = "yes" <=> Said(r, v, Allowed)
  /\ rows[r][v] = ""    <=> Said(r, v, Denied)
  /\ rows[r][v] = "ERR" <=> Said(r, v, RequestErr)

\* When the rows go out, no goroutine can change the map any more: every resource
\* that was asked about has its row, with an answer to every verb.
NothingChecksWhilePublishing ==
  phase \in {"publishing", "nil"} =>
    \A r \in Resource : access[r] # NoAnswers => r \in DOMAIN res /\ res[r] = access[r]
                                                 /\ DOMAIN res[r] = Verbs
=============================================================================
