----------------------------- MODULE RunPromise -----------------------------
(***************************************************************************)
(* What labctl promises whoever reads run-result.json, whenever the        *)
(* process dies and however many runs share the directory: a record is     *)
(* opened blank, after the run has chosen its checks, and then settles one *)
(* chosen check at a time, as passed only if the check has passed in that  *)
(* run.  Only when all are settled does it say how the run ended.  Live    *)
(* checks add findings and take a "pass" back.  A run that has stopped     *)
(* writes no more, and a record that was lost does not come back.          *)
(***************************************************************************)
EXTENDS Naturals

CONSTANTS
  Tasks,        \* the checks
  Findings      \* what the runner, or the live checks, may find about them

VARIABLES
  begun,    \* runs begun in the directory
  open,     \* the last one is at work
  chosen,   \* the checks the run profile on disk selects
  proved,   \* <<run, check>> that passed
  \* the run result on disk
  of,       \* the run it is of
  whole,    \* it parses
  passes, fails, findings, outcome

record == <<of, whole, passes, fails, findings, outcome>>
promise == <<begun, open, chosen, proved, record>>

Init ==
  /\ begun = 0 /\ open = FALSE /\ chosen = {} /\ proved = {}
  /\ of = 0 /\ whole = FALSE
  /\ passes = {} /\ fails = {} /\ findings = {} /\ outcome = "blocked"

Begin ==
  /\ ~open /\ open' = TRUE /\ begun' = begun + 1
  /\ UNCHANGED <<chosen, proved, record>>

Choose ==
  /\ open /\ of # begun /\ chosen' \in SUBSET Tasks
  /\ UNCHANGED <<begun, open, proved, record>>

Open ==
  /\ open /\ of # begun /\ of' = begun /\ whole' = TRUE
  /\ passes' = {} /\ fails' = {} /\ findings' = {} /\ outcome' = "blocked"
  /\ UNCHANGED <<begun, open, chosen, proved>>

InForce == open /\ whole /\ of = begun
Unsettled == chosen \ (passes \cup fails)

Slow(t) == {f \in Findings : f.origin = "slow" /\ f.task = t}
Live == {f \in Findings : f.origin = "live"}

Prove(t) ==
  /\ InForce /\ t \in Unsettled /\ proved' = proved \cup {<<begun, t>>}
  /\ UNCHANGED <<begun, open, chosen, record>>

SettlePassed(t) ==
  /\ InForce /\ t \in Unsettled /\ <<begun, t>> \in proved
  /\ passes' = passes \cup {t}
  /\ \E found \in SUBSET Slow(t) : findings' = findings \cup found
  /\ UNCHANGED <<begun, open, chosen, proved, of, whole, fails, outcome>>

SettleFailed(t) ==
  /\ InForce /\ t \in Unsettled /\ <<begun, t>> \notin proved
  /\ fails' = fails \cup {t}
  /\ UNCHANGED <<begun, open, chosen, proved, of, whole, passes, findings, outcome>>

Conclude ==
  /\ InForce /\ Unsettled = {} /\ fails = {} /\ outcome = "blocked"
  /\ outcome' = IF findings = {} THEN "pass" ELSE "fix-now"
  /\ UNCHANGED <<begun, open, chosen, proved, of, whole, passes, fails, findings>>

Judge ==
  /\ whole
  /\ \E found \in SUBSET Live : found # {} /\ findings' = findings \cup found
  /\ outcome' = IF outcome = "pass" THEN "fix-now" ELSE outcome
  /\ UNCHANGED <<begun, open, chosen, proved, of, whole, passes, fails>>

(* The process ends, maybe in the middle of writing the record.            *)
Stop ==
  /\ open' = FALSE /\ whole' \in {whole, FALSE}
  /\ UNCHANGED <<begun, chosen, proved, of, passes, fails, findings, outcome>>

Next == \/ Begin \/ Choose \/ Open \/ Conclude \/ Judge \/ Stop
        \/ \E t \in Tasks : Prove(t) \/ SettlePassed(t) \/ SettleFailed(t)

Spec == Init /\ [][Next]_promise
=============================================================================
