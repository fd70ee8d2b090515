------------------------ MODULE ExecuteTask_proofs ------------------------
(***************************************************************************)
(* The truth of a log entry, for every timeout and every inactivity limit. *)
(***************************************************************************)
EXTENDS ExecuteTask, TLAPS

-----------------------------------------------------------------------------
(* The inductive invariant *)

(* The invocations that precede p, and those that follow it. *)
Before(p) == CASE p = "json" -> {} [] p = "table" -> {"json"} [] p = "csv" -> {"json", "table"}
After(p)  == CASE p = "json" -> {"table", "csv"} [] p = "table" -> {"csv"} [] p = "csv" -> {}

Passed(p)   == ended[p] = "ok" /\ exitCodes[p] = 0
Untried(p)  == ended[p] = "none" /\ exitCodes[p] = 0
Failed(p)   == /\ exitCodes[p] # 0 /\ ended[p] # "none"
               /\ p = "json" /\ ended[p] = "error" => jsonErr

AllPassed == status = "pass" /\ \A p \in Phases : Passed(p)
FailedAt(p) == /\ status = "fail" /\ Failed(p)
               /\ \A q \in Before(p) : Passed(q)
               /\ \A q \in After(p) : Untried(q)

(* Where the three results stand. *)
Progress ==
  /\ Invoking => /\ status = "pass" /\ Untried(phase)
                 /\ \A q \in Before(phase) : Passed(q)
                 /\ \A q \in After(phase) : Untried(q)
  /\ ~Invoking => AllPassed \/ \E p \in Phases : FailedAt(p)

(* What Wait returned and what became of the child go together, whatever   *)
(* the deadline and the ticker did in between.                             *)
Waited ==
  /\ stage = "record" => waitCh # "empty"
  /\ cancelled => expired
  /\ waitCh # "empty" => proc = "reaped"
  /\ waitCh = "nil" => code = 0
  /\ waitCh = "error" /\ code = 0 => expired

(* The entry that goes with the three results. *)
TheEntry == [status   |-> status,
             exitCode |-> reportedExitCode,
             error    |-> jsonErr /\ reportedExitCode = exitCodes["json"],
             payload  |-> files["json"] # "absent"]

Reported == phase = "done" => entry = TheEntry

TaskInv == TypeOK /\ Progress /\ Waited /\ Reported

-----------------------------------------------------------------------------
(* Types *)

LEMMA LesserType ==
  ASSUME NEW n \in Nat, NEW a \in 0..n
  PROVE  Lesser(a + 1, n) \in 0..n
BY DEF Lesser

(* The truth values apart from the rest. *)
Flags == /\ killed \in BOOLEAN /\ pipes \in BOOLEAN /\ expired \in BOOLEAN
         /\ cancelled \in BOOLEAN /\ inactive \in BOOLEAN /\ ticked \in BOOLEAN
         /\ printed \in BOOLEAN /\ jsonErr \in BOOLEAN

LEMMA FlagsInit == Init => Flags
BY Zenon DEF Init, Flags

LEMMA FlagsStep == Flags /\ [Next]_vars => Flags'
<1> SUFFICES ASSUME Flags, [Next]_vars PROVE Flags'
  OBVIOUS
<1> USE DescendantsAssumption DEF Flags
<1>1. CASE Emit
  BY <1>1, Zenon DEF Emit, report
<1>2. CASE UpdateArtifact
  BY <1>2, Zenon DEF UpdateArtifact, report, child
<1>3. CASE Exit
  BY <1>3, Zenon DEF Exit, report, clock
<1>4. CASE Die
  BY <1>4, Zenon DEF Die, report, clock
<1>5. CASE LetGo
  BY <1>5, Zenon DEF LetGo, report, clock
<1>6. CASE Deadline
  <2>1. (proc \in {"running", "exited"}) \in BOOLEAN /\ (killed \/ proc = "running") \in BOOLEAN
    OBVIOUS
  <2>2. QED
    BY <1>6, <2>1, Zenon DEF Deadline, report
<1>7. CASE Reap
  BY <1>7, Zenon DEF Reap, report, clock
<1>8. CASE WaitReturns
  BY <1>8, Zenon DEF WaitReturns, report, clock, child
<1>9. CASE Second
  BY <1>9, Zenon DEF Second, report, child
<1>10. CASE StartInvocation
  BY <1>10, Zenon DEF StartInvocation, report
<1>11. CASE StartFails
  BY <1>11, Zenon DEF StartFails, Conclude, child, clock
<1>12. CASE Receive
  BY <1>12, Zenon DEF Receive, child, clock, report
<1>13. CASE Tick
  BY <1>13, Zenon DEF Tick, report
<1>14. CASE Record
  BY <1>14, Zenon DEF Record, Conclude, child
<1>15. CASE Report
  BY <1>15, Zenon DEF Report, child, clock
<1>16. CASE UNCHANGED vars
  BY <1>16, Zenon DEF vars, child, clock, report
<1>17. QED
  BY <1>1, <1>2, <1>3, <1>4, <1>5, <1>6, <1>7, <1>8, <1>9, <1>10, <1>11, <1>12, <1>13,
     <1>14, <1>15, <1>16 DEF Next, Runner
(* The log entry apart from the rest, too. *)
EntryType == entry \in [status : {"none", "pass", "fail"}, exitCode : Codes,
                        error : BOOLEAN, payload : BOOLEAN]

Ranges ==
  /\ phase \in Phases \cup {"report", "done"}
  /\ stage \in {"start", "wait", "drain", "record"}
  /\ proc \in {"none", "running", "exited", "reaped"} /\ code \in Codes
  /\ waitCh \in {"empty", "nil", "error"}
  /\ elapsed \in 0..Timeout
  /\ quiet \in 0..Inactivity + 1 /\ fsQuiet \in 0..Inactivity + 1
  /\ files \in [Phases -> {"absent", "old", "new", "torn"}]
  /\ exitCodes \in [Phases -> Codes]
  /\ status \in {"pass", "fail"}
  /\ ended \in [Phases -> {"none", "unstarted", "ok", "error", "signal"}]

LEMMA TypeParts == TypeOK <=> Flags /\ Ranges /\ EntryType
BY Zenon DEF TypeOK, Flags, Ranges, EntryType

LEMMA ConcludeRanges ==
  ASSUME Ranges, Invoking, NEW exitCode \in Codes, NEW err, Conclude(exitCode, err)
  PROVE  /\ phase' \in Phases \cup {"report", "done"} /\ stage' = "start"
         /\ exitCodes' \in [Phases -> Codes] /\ status' \in {"pass", "fail"}
<1>1. PhaseAfter(phase) \in Phases \cup {"report", "done"}
  BY DEF Invoking, PhaseAfter, Phases
<1>2. QED
  BY <1>1 DEF Ranges, Conclude, Invoking

LEMMA ExitCodeType ==
  ASSUME Ranges, waitCh # "empty"
  PROVE  ExitCode \in Codes
BY DEF Ranges, ExitCode, Codes

LEMMA RangesInit == Init => Ranges
BY TimeoutAssumption, InactivityAssumption DEF Init, Ranges, Codes, Phases

LEMMA RangesStep == Ranges /\ Waited /\ [Next]_vars => Ranges'
<1> SUFFICES ASSUME Ranges, Waited, [Next]_vars PROVE Ranges'
  OBVIOUS
<1> USE TimeoutAssumption, InactivityAssumption DEF Ranges
<1>1. CASE Emit
  BY <1>1 DEF Emit, report
<1>2. CASE UpdateArtifact
  BY <1>2 DEF UpdateArtifact, report, child
<1>3. CASE Exit \/ Die
  BY <1>3 DEF Exit, Die, report, clock, Codes
<1>5. CASE LetGo
  BY <1>5 DEF LetGo, report, clock
<1>6. CASE Deadline
  BY <1>6 DEF Deadline, report
<1>7. CASE Reap
  BY <1>7 DEF Reap, report, clock
<1>8. CASE WaitReturns
  BY <1>8 DEF WaitReturns, report, clock, child
<1>9. CASE Second
  BY <1>9, LesserType DEF Second, report, child
<1>10. CASE StartInvocation
  BY <1>10 DEF StartInvocation, report, Codes
<1>11. CASE StartFails
  BY <1>11, ConcludeRanges DEF StartFails, child, clock, Codes
<1>12. CASE Receive
  BY <1>12 DEF Receive, child, clock, report
<1>13. CASE Tick
  BY <1>13 DEF Tick, report, LastActivity, Lesser
<1>14. CASE Record
  <2>1. Invoking /\ ExitCode \in Codes /\ Conclude(ExitCode, waitCh = "error")
    BY <1>14, ExitCodeType DEF Record, Waited
  <2>2. /\ phase' \in Phases \cup {"report", "done"} /\ stage' = "start"
        /\ exitCodes' \in [Phases -> Codes] /\ status' \in {"pass", "fail"}
    BY <2>1, ConcludeRanges
  <2>3. ended' \in [Phases -> {"none", "unstarted", "ok", "error", "signal"}]
    BY <1>14 DEF Record, Codes
  <2>4. files' \in [Phases -> {"absent", "old", "new", "torn"}]
    BY <1>14, <2>1 DEF Record, Invoking
  <2>5. fsQuiet' \in 0..Inactivity + 1
    BY <1>14 DEF Record
  <2>6. UNCHANGED <<proc, code, waitCh, elapsed, quiet>>
    BY <1>14 DEF Record, child
  <2>7. QED
    BY <2>2, <2>3, <2>4, <2>5, <2>6
<1>15. CASE Report
  BY <1>15 DEF Report, child, clock
<1>16. CASE UNCHANGED vars
  BY <1>16 DEF vars, child, clock, report
<1>17. QED
  BY <1>1, <1>2, <1>3, <1>5, <1>6, <1>7, <1>8, <1>9, <1>10, <1>11, <1>12, <1>13,
     <1>14, <1>15, <1>16 DEF Next, Runner
-----------------------------------------------------------------------------
(* Wait, the child and the deadline *)

LEMMA WaitedInit == Init => Waited
BY DEF Init, Waited

LEMMA WaitedStep == Ranges /\ Waited /\ [Next]_vars => Waited'
<1> SUFFICES ASSUME Ranges, Waited, [Next]_vars PROVE Waited'
  OBVIOUS
<1> USE DEF Waited
<1>1. CASE Emit \/ UpdateArtifact \/ LetGo \/ Second \/ Receive \/ Tick
  <2>1. UNCHANGED <<proc, code, cancelled, expired, waitCh>>
    BY <1>1 DEF Emit, UpdateArtifact, LetGo, Second, Receive, Tick, child, clock
  <2>2. stage' = "record" => waitCh # "empty"
    BY <1>1 DEF Emit, UpdateArtifact, LetGo, Second, Receive, Tick
  <2>3. QED
    BY <2>1, <2>2, Zenon
<1>2. CASE Exit \/ Die
  <2>1. proc = "running" /\ waitCh = "empty"
    BY <1>2 DEF Exit, Die
  <2>2. UNCHANGED <<stage, waitCh, cancelled, expired>>
    BY <1>2 DEF Exit, Die, clock
  <2>3. QED
    BY <2>1, <2>2, Zenon
<1>3. CASE Deadline
  <2>1. expired' /\ UNCHANGED <<stage, waitCh, proc, code>>
    BY <1>3 DEF Deadline
  <2>2. QED
    BY <2>1
<1>4. CASE Reap
  BY <1>4 DEF Reap, clock
<1>5. CASE WaitReturns
  BY <1>5 DEF WaitReturns, child, clock
<1>6. CASE StartInvocation
  BY <1>6 DEF StartInvocation
<1>7. CASE StartFails \/ Record
  <2>1. UNCHANGED <<proc, code, cancelled, expired, waitCh>> /\ stage' = "start"
    BY <1>7 DEF StartFails, Record, Conclude, child, clock
  <2>2. QED
    BY <2>1, Zenon
<1>8. CASE Report \/ UNCHANGED vars
  BY <1>8 DEF Report, vars, child, clock
<1>9. QED
  BY <1>1, <1>2, <1>3, <1>4, <1>5, <1>6, <1>7, <1>8 DEF Next, Runner

-----------------------------------------------------------------------------
(* The results of the three invocations *)

LEMMA ProgressInit == Init => Progress
BY DEF Init, Progress, Invoking, Phases, Untried, Before, After

(* An invocation that is concluded moves on if it passed, and settles the   *)
(* check if it did not.                                                     *)
LEMMA ConcludeProgress ==
  ASSUME Ranges, Progress, Invoking, NEW exitCode \in Codes, NEW err,
         Conclude(exitCode, err),
         NEW how \in {"unstarted", "ok", "error", "signal"},
         ended' = [ended EXCEPT ![phase] = how],
         exitCode = 0 => how = "ok", how = "error" => err
  PROVE  Progress'
<1>0. PICK p \in Phases : p = phase
  BY DEF Invoking
<1>1. /\ status = "pass" /\ Untried(p)
      /\ \A q \in Before(p) : Passed(q)
      /\ \A q \in After(p) : Untried(q)
  BY <1>0 DEF Progress, Invoking
<1>2. /\ exitCodes'[p] = exitCode /\ ended'[p] = how
      /\ \A q \in Phases \ {p} : exitCodes'[q] = exitCodes[q] /\ ended'[q] = ended[q]
  BY <1>0, <1>1 DEF Conclude, Ranges
<1>3. CASE exitCode = 0
  <2>1. status' = "pass" /\ phase' = PhaseAfter(p)
    BY <1>0, <1>3 DEF Conclude
  <2>2. \A q \in Before(p) \cup {p} : Passed(q)'
    BY <1>1, <1>2, <1>3 DEF Passed, Before, Phases
  <2>3. \A q \in After(p) : Untried(q)'
    BY <1>1, <1>2 DEF Untried, After, Phases
  <2>4. QED
    BY <1>1, <2>1, <2>2, <2>3
       DEF Progress, Invoking, AllPassed, PhaseAfter, Before, After, Phases
<1>4. CASE exitCode # 0
  <2>1. status' = "fail" /\ phase' = "report"
    BY <1>4 DEF Conclude
  <2>2. Failed(p)'
    <3>1. p = "json" => jsonErr' = err
      BY <1>0 DEF Conclude
    <3>2. QED
      BY <1>2, <1>4, <3>1 DEF Failed
  <2>3. \A q \in Before(p) : Passed(q)'
    BY <1>1, <1>2 DEF Passed, Before, Phases
  <2>4. \A q \in After(p) : Untried(q)'
    BY <1>1, <1>2 DEF Untried, After, Phases
  <2>5. QED
    BY <1>1, <2>1, <2>2, <2>3, <2>4 DEF Progress, Invoking, FailedAt, Phases, Before, After
<1>5. QED
  BY <1>3, <1>4
LEMMA ProgressStep == Ranges /\ Waited /\ Progress /\ [Next]_vars => Progress'
<1> SUFFICES ASSUME Ranges, Waited, Progress, [Next]_vars PROVE Progress'
  OBVIOUS
<1>1. ASSUME UNCHANGED <<phase, report>>
      PROVE  Progress'
  BY <1>1, Zenon DEF Progress, Invoking, Passed, Untried, AllPassed, FailedAt, Failed, report
<1>2. CASE \/ Emit \/ UpdateArtifact \/ Exit \/ Die \/ LetGo \/ Deadline \/ Reap
           \/ WaitReturns \/ Second \/ StartInvocation \/ Receive \/ Tick \/ UNCHANGED vars
  <2>1. UNCHANGED <<phase, report>>
    BY <1>2 DEF Emit, UpdateArtifact, Exit, Die, LetGo, Deadline, Reap, WaitReturns, Second,
                StartInvocation, Receive, Tick, vars
  <2>2. QED
    BY <1>1, <2>1
<1>3. CASE StartFails
  <2>1. Invoking /\ Conclude(-1, TRUE) /\ ended' = [ended EXCEPT ![phase] = "unstarted"]
    BY <1>3 DEF StartFails
  <2>2. -1 \in Codes /\ -1 # 0
    BY DEF Codes
  <2>3. QED
    BY <2>1, <2>2, ConcludeProgress
<1>4. CASE Record
  <2> DEFINE how == CASE code = 0 -> "ok" [] code = 1 -> "error" [] code = -1 -> "signal"
             err == waitCh = "error"
  <2>1. Invoking /\ Conclude(ExitCode, err) /\ ended' = [ended EXCEPT ![phase] = how]
    BY <1>4 DEF Record
  <2>2. waitCh # "empty" /\ (waitCh = "nil" => code = 0) /\ (err /\ code = 0 => expired)
    BY <1>4 DEF Record, Waited
  <2>3. ExitCode \in Codes
    BY <2>2, ExitCodeType
  <2>4. waitCh \in {"nil", "error"} /\ code \in Codes
    BY <2>2 DEF Ranges
  <2>5. how \in {"unstarted", "ok", "error", "signal"} /\ (how = "error" => code = 1)
    BY <2>4 DEF Codes
  <2>6. ExitCode = 0 => how = "ok"
    <3>1. ExitCode = 0 => code = 0
      BY <2>2, <2>4 DEF ExitCode
    <3>2. QED
      BY <3>1
  <2>7. how = "error" => err
    BY <2>2, <2>4, <2>5
  <2> HIDE DEF how, err
  <2>8. QED
    BY <2>1, <2>3, <2>5, <2>6, <2>7, ConcludeProgress
<1>5. CASE Report
  <2>1. phase = "report" /\ phase' = "done" /\ UNCHANGED <<exitCodes, jsonErr, status, ended>>
    BY <1>5 DEF Report
  <2>2. ~Invoking /\ ~Invoking'
    BY <2>1 DEF Invoking, Phases
  <2>3. QED
    BY <2>1, <2>2, Zenon DEF Progress, Passed, Untried, AllPassed, FailedAt, Failed
<1>6. QED
  BY <1>2, <1>3, <1>4, <1>5 DEF Next, Runner

-----------------------------------------------------------------------------
(* The log entry *)

LEMMA ReportedStep == Reported /\ [Next]_vars => Reported'
<1> SUFFICES ASSUME Reported, [Next]_vars PROVE Reported'
  OBVIOUS
<1>1. ASSUME UNCHANGED <<phase, report>>
      PROVE  Reported'
  BY <1>1, Zenon DEF Reported, TheEntry, reportedExitCode, report
<1>2. CASE \/ Emit \/ UpdateArtifact \/ Exit \/ Die \/ LetGo \/ Deadline \/ Reap
           \/ WaitReturns \/ Second \/ StartInvocation \/ Receive \/ Tick \/ UNCHANGED vars
  <2>1. UNCHANGED <<phase, report>>
    BY <1>2 DEF Emit, UpdateArtifact, Exit, Die, LetGo, Deadline, Reap, WaitReturns, Second,
                StartInvocation, Receive, Tick, vars
  <2>2. QED
    BY <1>1, <2>1
<1>3. CASE StartFails \/ Record
  <2>1. phase' # "done"
    BY <1>3 DEF StartFails, Record, Conclude, PhaseAfter, Invoking, Phases
  <2>2. QED
    BY <2>1 DEF Reported
<1>4. CASE Report
  <2>1. entry' = TheEntry /\ UNCHANGED <<files, exitCodes, jsonErr, status>>
    BY <1>4 DEF Report, TheEntry
  <2>2. QED
    BY <2>1, Zenon DEF Reported, TheEntry, reportedExitCode
<1>5. QED
  BY <1>2, <1>3, <1>4 DEF Next, Runner

LEMMA EntryTypeStep == Ranges /\ Flags /\ EntryType /\ [Next]_vars => EntryType'
<1> SUFFICES ASSUME Ranges, Flags, EntryType, [Next]_vars PROVE EntryType'
  OBVIOUS
<1>1. CASE Report
  <2>1. reportedExitCode \in Codes /\ status \in {"none", "pass", "fail"}
    BY DEF Ranges, reportedExitCode, Phases
  <2>2. /\ (jsonErr /\ reportedExitCode = exitCodes["json"]) \in BOOLEAN
        /\ (files["json"] # "absent") \in BOOLEAN
    OBVIOUS
  <2>3. TheEntry \in [status : {"none", "pass", "fail"}, exitCode : Codes,
                      error : BOOLEAN, payload : BOOLEAN]
    BY <2>1, <2>2, Zenon DEF TheEntry
  <2>4. entry' = TheEntry
    BY <1>1 DEF Report, TheEntry
  <2>5. QED
    BY <2>3, <2>4 DEF EntryType
<1>2. CASE \/ Emit \/ UpdateArtifact \/ Exit \/ Die \/ LetGo \/ Deadline \/ Reap
           \/ WaitReturns \/ Second \/ StartInvocation \/ Receive \/ Tick \/ UNCHANGED vars
           \/ StartFails \/ Record
  <2>1. entry' = entry
    BY <1>2 DEF Emit, UpdateArtifact, Exit, Die, LetGo, Deadline, Reap, WaitReturns, Second,
                StartInvocation, Receive, Tick, vars, StartFails, Record, report
  <2>2. QED
    BY <2>1 DEF EntryType
<1>3. QED
  BY <1>1, <1>2 DEF Next, Runner

-----------------------------------------------------------------------------
(* The theorems *)

LEMMA TaskInvariant == Spec => []TaskInv
<1>1. Init => TaskInv
  <2>1. Init => EntryType
    BY DEF Init, NoEntry, EntryType, Codes
  <2>2. Init => Reported
    BY DEF Init, Reported
  <2>3. QED
    BY <2>1, <2>2, FlagsInit, RangesInit, WaitedInit, ProgressInit, TypeParts DEF TaskInv
<1>2. TaskInv /\ [Next]_vars => TaskInv'
  <2> SUFFICES ASSUME TaskInv, [Next]_vars PROVE TaskInv'
    OBVIOUS
  <2>1. Flags /\ Ranges /\ EntryType /\ Progress /\ Waited /\ Reported
    BY TypeParts DEF TaskInv
  <2>2. (Flags /\ Ranges /\ EntryType)' /\ (Progress /\ Waited /\ Reported)'
    BY <2>1, FlagsStep, RangesStep, EntryTypeStep, ProgressStep, WaitedStep, ReportedStep
  <2>3. TypeOK' <=> (Flags /\ Ranges /\ EntryType)'
    BY TypeParts, PTL
  <2>4. QED
    BY <2>2, <2>3 DEF TaskInv
<1>3. QED
  BY <1>1, <1>2, PTL DEF Spec

(* The state keeps its types, the counters of the clock their bounds.      *)
THEOREM TaskType == Spec => []TypeOK
<1>1. TaskInv => TypeOK
  BY DEF TaskInv
<1>2. QED
  BY <1>1, TaskInvariant, PTL

(* The log entry of a check is true, whatever the two limits are, whether   *)
(* or not the tool leaves a process behind and however its exit, the        *)
(* deadline and the ticker race (executeTask).                              *)
THEOREM EntriesAreTrue == Spec => []EntryIsTrue
<1>1. TaskInv => EntryIsTrue
  <2> SUFFICES ASSUME TaskInv, phase = "done" PROVE EntryIsTrue
    BY DEF EntryIsTrue
  <2>1. /\ entry.status = status /\ entry.exitCode = reportedExitCode
        /\ entry.error = (jsonErr /\ reportedExitCode = exitCodes["json"])
    <3>1. entry = TheEntry
      BY DEF TaskInv, Reported
    <3>2. /\ TheEntry.status = status /\ TheEntry.exitCode = reportedExitCode
          /\ TheEntry.error = (jsonErr /\ reportedExitCode = exitCodes["json"])
      BY Zenon DEF TheEntry
    <3>3. QED
      BY <3>1, <3>2, Zenon
  <2>2. ~Invoking
    BY DEF Invoking, Phases
  <2>3. CASE AllPassed
    <3>1. \A p \in Phases : ended[p] = "ok" /\ exitCodes[p] = 0
      BY <2>3 DEF AllPassed, Passed
    <3>2. status = "pass" /\ reportedExitCode = 0
      BY <2>3, <3>1 DEF AllPassed, reportedExitCode, Phases
    <3>3. QED
      BY <2>1, <3>1, <3>2 DEF EntryIsTrue, Phases
  <2>4. ASSUME NEW p \in Phases, FailedAt(p)
        PROVE  EntryIsTrue
    <3>1. /\ status = "fail" /\ exitCodes[p] # 0
          /\ \A q \in Before(p) : ended[q] = "ok" /\ exitCodes[q] = 0
          /\ \A q \in After(p) : ended[q] = "none" /\ exitCodes[q] = 0
      BY <2>4 DEF FailedAt, Failed, Passed, Untried
    <3>2. reportedExitCode = exitCodes[p]
      BY <3>1 DEF reportedExitCode, Before, After, Phases
    <3>3. \A q \in Phases \ {p} : ended[q] \in {"ok", "none"}
      BY <3>1 DEF Before, After, Phases
    <3>4. PhaseAfter(p) # "report" => ended[PhaseAfter(p)] = "none"
      BY <3>1 DEF PhaseAfter, After, Phases
    <3>5. ended["json"] = "error" => entry.error
      <4>1. ended["json"] = "error" => p = "json"
        BY <3>1 DEF Before, Phases
      <4>2. p = "json" /\ ended["json"] = "error" => jsonErr
        BY <2>4 DEF FailedAt, Failed
      <4>3. QED
        BY <2>1, <3>2, <4>1, <4>2, Zenon
    <3>6. QED
      BY <2>1, <3>1, <3>2, <3>3, <3>4, <3>5 DEF EntryIsTrue
  <2>5. QED
    BY <2>2, <2>3, <2>4 DEF TaskInv, Progress
<1>2. QED
  BY <1>1, TaskInvariant, PTL

-----------------------------------------------------------------------------
(* The refinement of CheckPromise *)

(* An error text stands for a JSON invocation that failed, and there is no *)
(* entry before the report.                                                *)
ErrorIsJson == jsonErr => exitCodes["json"] # 0
NoEntryYet == phase # "done" => entry = NoEntry

LEMMA ErrorIsJsonStep ==
  Ranges /\ Waited /\ ErrorIsJson /\ [Next]_vars => ErrorIsJson'
<1> SUFFICES ASSUME Ranges, Waited, ErrorIsJson, [Next]_vars PROVE ErrorIsJson'
  OBVIOUS
<1>1. ASSUME NEW c \in Codes, NEW err, Conclude(c, err), Invoking, err => c # 0
      PROVE  ErrorIsJson'
  BY <1>1 DEF Conclude, ErrorIsJson, Ranges, Invoking, Phases
<1>2. CASE StartFails
  <2>1. Invoking /\ Conclude(-1, TRUE)
    BY <1>2 DEF StartFails
  <2>2. -1 \in Codes /\ -1 # 0
    BY DEF Codes
  <2>3. QED
    BY <1>1, <2>1, <2>2
<1>3. CASE Record
  <2>1. Invoking /\ Conclude(ExitCode, waitCh = "error") /\ ExitCode \in Codes
    BY <1>3, ExitCodeType DEF Record, Waited
  <2>2. waitCh = "error" => ExitCode # 0
    BY <1>3 DEF Record, Waited, ExitCode, Ranges
  <2>3. QED
    BY <1>1, <2>1, <2>2
<1>4. CASE ~(StartFails \/ Record)
  <2>1. UNCHANGED <<exitCodes, jsonErr>>
    BY <1>4 DEF Next, Runner, Emit, UpdateArtifact, Exit, Die, LetGo, Deadline, Reap,
                WaitReturns, Second, StartInvocation, Receive, Tick, Report, vars, report
  <2>2. QED
    BY <2>1 DEF ErrorIsJson
<1>5. QED
  BY <1>2, <1>3, <1>4

LEMMA NoEntryYetStep == NoEntryYet /\ [Next]_vars => NoEntryYet'
<1> SUFFICES ASSUME NoEntryYet, [Next]_vars PROVE NoEntryYet'
  OBVIOUS
<1>1. CASE Report
  BY <1>1 DEF Report, NoEntryYet
<1>2. CASE StartFails \/ Record
  BY <1>2 DEF StartFails, Record, Conclude, Invoking, Phases, NoEntryYet
<1>3. CASE ~(Report \/ StartFails \/ Record)
  <2>1. UNCHANGED <<phase, entry>>
    BY <1>3 DEF Next, Runner, Emit, UpdateArtifact, Exit, Die, LetGo, Deadline, Reap,
                WaitReturns, Second, StartInvocation, Receive, Tick, vars, report
  <2>2. QED
    BY <2>1 DEF NoEntryYet
<1>4. QED
  BY <1>1, <1>2, <1>3

(* The number of invocations that passed. *)
Proved == Counted("json") + Counted("table") + Counted("csv")

(* An invocation that is concluded is a Pass or a Stop of the promise.     *)
LEMMA ConcludeIsPromised ==
  ASSUME Ranges, Progress, Invoking, NEW c \in Codes, NEW err, Conclude(c, err),
         NEW how \in {"unstarted", "ok", "error", "signal"},
         ended' = [ended EXCEPT ![phase] = how], c = 0 => how = "ok",
         files' \in {files} \cup {[files EXCEPT ![phase] = f] : f \in {"torn", "new"}},
         UNCHANGED entry
  PROVE  Promise!Next
<1>0. PICK p \in Phases : p = phase
  BY DEF Invoking
<1>1. /\ status = "pass" /\ Untried(p)
      /\ \A q \in Before(p) : Passed(q)
      /\ \A q \in After(p) : Untried(q)
  BY <1>0 DEF Progress, Invoking
<1>2. /\ exitCodes'[p] = c /\ ended'[p] = how
      /\ \A q \in Phases \ {p} : exitCodes'[q] = exitCodes[q] /\ ended'[q] = ended[q]
  BY <1>0 DEF Conclude, Ranges
<1>3. /\ \A q \in Before(p) : Counted(q) = 1
      /\ \A q \in After(p) \cup {p} : Counted(q) = 0
  BY <1>1 DEF Counted, Passed, Untried, Before, After
<1>4. /\ \A q \in Phases \ {p} : Counted(q)' = Counted(q)
      /\ Counted(p)' = IF c = 0 THEN 1 ELSE 0
  BY <1>2 DEF Counted
<1>5. /\ Proved \in 0..2 /\ (Proved = 0 <=> p = "json")
      /\ Proved' = IF c = 0 THEN Proved + 1 ELSE Proved
  BY <1>3, <1>4 DEF Proved, Before, After, Phases
<1>6. files'["json"] = files["json"] \/ (Proved = 0 /\ files'["json"] \in {"torn", "new"})
  BY <1>0, <1>5 DEF Ranges, Phases
<1>7. CASE c = 0
  <2>1. status' = "pass"
    BY <1>7 DEF Conclude
  <2>2. Promise!Pass
    BY <1>1, <1>5, <1>6, <1>7, <2>1 DEF Promise!Pass, Promise!Touch, Proved
  <2>3. QED
    BY <2>2 DEF Promise!Next
<1>8. CASE c # 0
  <2>1. status' = "fail"
    BY <1>8 DEF Conclude
  <2>2. Promise!Stop
    BY <1>1, <1>5, <1>6, <1>8, <2>1 DEF Promise!Stop, Promise!Touch, Proved
  <2>3. QED
    BY <2>2 DEF Promise!Next
<1>9. QED
  BY <1>7, <1>8

(* The report closes the check.                                            *)
LEMMA ReportIsPromised ==
  ASSUME Ranges, Flags, Progress, ErrorIsJson, NoEntryYet, Report
  PROVE  Promise!Next
<1>1. /\ phase = "report" /\ entry = Promise!Open
      /\ UNCHANGED <<files, exitCodes, status, ended>>
  BY DEF Report, NoEntryYet, NoEntry, Promise!Open
<1> DEFINE error == jsonErr /\ reportedExitCode = exitCodes["json"]
<1>2. entry' = [status |-> status, exitCode |-> reportedExitCode, error |-> error,
                payload |-> files["json"] # "absent"]
  BY DEF Report
<1>3. reportedExitCode \in Codes
  BY DEF Ranges, reportedExitCode, Phases
<1>4. error \in BOOLEAN
  OBVIOUS
<1>5. /\ AllPassed \/ \E p \in Phases : FailedAt(p)
  BY <1>1 DEF Progress, Invoking, Phases
<1>6. CASE AllPassed
  <2>1. /\ status = "pass" /\ Proved = 3 /\ reportedExitCode = 0 /\ ~error
    <3>1. \A p \in Phases : ended[p] = "ok" /\ exitCodes[p] = 0
      BY <1>6 DEF AllPassed, Passed
    <3>2. QED
      BY <1>6, <3>1 DEF AllPassed, Counted, Proved, Phases, reportedExitCode, ErrorIsJson
  <2> HIDE DEF error
  <2>2. Promise!Close
    BY <1>1, <1>2, <1>3, <1>4, <2>1 DEF Promise!Close, Proved, Counted, Codes
  <2>3. QED
    BY <2>2 DEF Promise!Next
<1>7. ASSUME NEW p \in Phases, FailedAt(p) PROVE Promise!Next
  <2>1. /\ status = "fail" /\ exitCodes[p] # 0
        /\ \A q \in Before(p) : ended[q] = "ok" /\ exitCodes[q] = 0
        /\ \A q \in After(p) : ended[q] = "none" /\ exitCodes[q] = 0
    BY <1>7 DEF FailedAt, Failed, Passed, Untried
  <2>2. reportedExitCode = exitCodes[p]
    BY <2>1 DEF reportedExitCode, Before, After, Phases
  <2>3. error => Proved = 0
    BY <2>1 DEF ErrorIsJson, Proved, Counted, Before, After, Phases
  <2> HIDE DEF error
  <2>4. Promise!Close
    BY <1>1, <1>2, <1>3, <1>4, <2>1, <2>2, <2>3 DEF Promise!Close, Proved, Counted, Codes
  <2>5. QED
    BY <2>4 DEF Promise!Next
<1>8. QED
  BY <1>5, <1>6, <1>7

(* What goes on inside a check is a stutter, the end of an invocation and  *)
(* the report are steps.                                                   *)
LEMMA PromiseStep ==
  TaskInv /\ ErrorIsJson /\ NoEntryYet /\ [Next]_vars => [Promise!Next]_(Promise!promise)
<1> SUFFICES ASSUME TaskInv, ErrorIsJson, NoEntryYet, [Next]_vars
             PROVE  [Promise!Next]_(Promise!promise)
  OBVIOUS
<1>1. Ranges /\ Flags /\ Progress /\ Waited
  BY TypeParts DEF TaskInv
<1>2. CASE StartFails
  <2>1. /\ Invoking /\ Conclude(-1, TRUE) /\ ended' = [ended EXCEPT ![phase] = "unstarted"]
        /\ UNCHANGED <<files, entry>>
    BY <1>2 DEF StartFails
  <2>2. -1 \in Codes /\ -1 # 0
    BY DEF Codes
  <2>3. QED
    BY <1>1, <2>1, <2>2, ConcludeIsPromised
<1>3. CASE Record
  <2> DEFINE how == CASE code = 0 -> "ok" [] code = 1 -> "error" [] code = -1 -> "signal"
             err == waitCh = "error"
  <2>1. /\ Invoking /\ Conclude(ExitCode, err) /\ ended' = [ended EXCEPT ![phase] = how]
        /\ UNCHANGED entry
    BY <1>3 DEF Record
  <2>2. waitCh \in {"nil", "error"} /\ code \in Codes /\ (waitCh = "nil" => code = 0)
    BY <1>1, <1>3 DEF Record, Waited, Ranges
  <2>3. ExitCode \in Codes
    BY <1>1, <2>2, ExitCodeType
  <2>4. how \in {"unstarted", "ok", "error", "signal"}
    BY <2>2 DEF Codes
  <2>5. ExitCode = 0 => how = "ok"
    <3>1. ExitCode = 0 => code = 0
      BY <1>1, <2>2 DEF Waited, ExitCode
    <3>2. QED
      BY <3>1
  <2>6. files' \in {files} \cup {[files EXCEPT ![phase] = f] : f \in {"torn", "new"}}
    <3>1. [files EXCEPT ![phase] = files[phase]] = files
      BY <1>1, <2>1 DEF Ranges, Invoking
    <3>2. QED
      BY <1>3, <3>1 DEF Record
  <2> HIDE DEF how, err
  <2>7. QED
    BY <1>1, <2>1, <2>3, <2>4, <2>5, <2>6, ConcludeIsPromised
<1>4. CASE Report
  BY <1>1, <1>4, ReportIsPromised
<1>5. CASE ~(StartFails \/ Record \/ Report)
  <2>1. UNCHANGED report
    BY <1>5 DEF Next, Runner, Emit, UpdateArtifact, Exit, Die, LetGo, Deadline, Reap,
                WaitReturns, Second, StartInvocation, Receive, Tick, vars
  <2>2. UNCHANGED <<files, exitCodes, ended, status, entry>>
    BY <2>1 DEF report
  <2>3. UNCHANGED Promise!promise
    BY <2>2 DEF Promise!promise, Counted
  <2>4. QED
    BY <2>3
<1>6. QED
  BY <1>2, <1>3, <1>4, <1>5

LEMMA PromiseInit == Init => Promise!Init /\ ErrorIsJson /\ NoEntryYet
BY DEF Init, Promise!Init, Promise!Open, NoEntry, Counted, Phases, ErrorIsJson, NoEntryYet

(* Whatever races inside it, executeTask does to the log and the payload   *)
(* file what CheckPromise allows, and nothing else: the step that AzureRun *)
(* takes for a whole check.                                                *)
THEOREM RunnerKeepsPromise == Spec => KeepsPromise
<1>1. Spec => [](ErrorIsJson /\ NoEntryYet)
  <2>1. TaskInv => Ranges /\ Waited
    BY TypeParts DEF TaskInv
  <2>2. TaskInv /\ ErrorIsJson /\ NoEntryYet /\ [Next]_vars => (ErrorIsJson /\ NoEntryYet)'
    BY <2>1, ErrorIsJsonStep, NoEntryYetStep
  <2>3. QED
    BY <2>2, PromiseInit, TaskInvariant, PTL DEF Spec
<1>2. QED
  BY <1>1, PromiseInit, PromiseStep, TaskInvariant, PTL DEF Spec, KeepsPromise, Promise!Spec

-----------------------------------------------------------------------------
(* Kills *)

LEMMA KillStep ==
  ASSUME Ranges, Flags, [Next]_vars, killed', ~killed
  PROVE  \/ Timeout > 0 /\ elapsed = Timeout
         \/ Inactivity > 0 /\ quiet > Inactivity /\ fsQuiet > Inactivity
<1>1. CASE Deadline
  BY <1>1 DEF Deadline
<1>2. CASE Tick
  <2>1. quiet' = Lesser(quiet, fsQuiet)
    BY <1>2 DEF Tick, LastActivity
  <2>2. Inactivity > 0 /\ quiet' > Inactivity
    <3>1. killed' = (killed \/ ((Inactivity > 0 /\ quiet' > Inactivity) /\ proc = "running"))
      BY <1>2, Zenon DEF Tick
    <3>2. QED
      BY <3>1, Zenon
  <2>3. quiet \in Nat /\ fsQuiet \in Nat /\ Inactivity \in Nat
    BY InactivityAssumption DEF Ranges
  <2>4. QED
    BY <2>1, <2>2, <2>3 DEF Lesser
<1>3. CASE StartInvocation
  BY <1>3, Zenon DEF StartInvocation
<1>4. CASE ~(Deadline \/ Tick \/ StartInvocation)
  <2>1. UNCHANGED killed
    BY <1>4 DEF Next, Runner, Emit, UpdateArtifact, Exit, Die, LetGo, Reap, WaitReturns, Second,
       StartFails, Receive, Record, Report, child, vars
  <2>2. QED
    BY <2>1, Zenon
<1>5. QED
  BY <1>1, <1>2, <1>3, <1>4

(* A child is killed only when its time is up, or when output and artifacts *)
(* have both been still for longer than the inactivity limit, whichever of  *)
(* the deadline and the ticker comes first.                                 *)
THEOREM KillsHaveCause == Spec => KilledForCause
<1>1. TaskInv /\ [Next]_vars =>
        [killed' /\ ~killed =>
           \/ Timeout > 0 /\ elapsed = Timeout
           \/ Inactivity > 0 /\ quiet > Inactivity /\ fsQuiet > Inactivity]_vars
  BY KillStep, TypeParts DEF TaskInv
<1>2. QED
  BY <1>1, TaskInvariant, PTL DEF Spec, KilledForCause

=============================================================================
