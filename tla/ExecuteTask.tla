---------------------------- MODULE ExecuteTask ----------------------------
(***************************************************************************)
(* executeTask in internal/lab/run.go: one check of a run.  The tool is    *)
(* run three times (JSON, table, CSV), each time as a child process that   *)
(* races its own exit, the context's deadline, and the one-second ticker   *)
(* that looks for output or artifact updates.                              *)
(*                                                                         *)
(* Time is counted in ticks and every counter stops where nothing depends  *)
(* on it any more: elapsed at Timeout, quiet and fsQuiet one past          *)
(* Inactivity.  os/exec is external: Wait returns when the process is      *)
(* reaped and everyone who holds its pipes has let go of them.             *)
(***************************************************************************)
EXTENDS Integers

CONSTANTS
  Timeout,      \* --command-timeout-seconds, 0: none
  Inactivity,   \* --command-inactivity-seconds, 0: none
  Descendants   \* the tool may leave a process behind that holds its pipes

ASSUME TimeoutAssumption == Timeout \in Nat
ASSUME InactivityAssumption == Inactivity \in Nat
ASSUME DescendantsAssumption == Descendants \in BOOLEAN

VARIABLES
  phase,      \* which invocation, then the report
  stage,      \* where runInvocation stands
  proc,       \* the child: "none", "running", "exited" (a zombie) or "reaped"
  code,       \* its exit code, -1 after a signal
  killed,     \* it was sent SIGKILL
  pipes,      \* a descendant holds its stdout or stderr
  expired,    \* ctx.Err() is DeadlineExceeded
  cancelled,  \* the deadline found the child not yet reaped
  waitCh,     \* "empty", or what command.Wait() returned: "nil", "error"
  inactive,   \* timedOutForInactivity
  elapsed,    \* seconds since the context was made
  quiet,      \* seconds since tracker.lastActivity
  fsQuiet,    \* seconds since a file under outdir changed
  ticked,     \* ticker.C holds a tick
  printed,    \* stdout is not empty
  files,      \* the three output files
  exitCodes,  \* jsonExitCode, tableExitCode, csvExitCode
  jsonErr,    \* jsonErr is not nil
  status,
  entry,
  ended       \* history: how each invocation's process ended

child == <<proc, code, killed, pipes, cancelled, printed>>
clock == <<elapsed, quiet, fsQuiet, ticked, expired>>
report == <<files, exitCodes, jsonErr, status, entry, ended>>
vars == <<phase, stage, child, clock, waitCh, inactive, report>>

Phases == {"json", "table", "csv"}
Codes  == {-1, 0, 1}

NoEntry == [status |-> "none", exitCode |-> 0, error |-> FALSE, payload |-> FALSE]

TypeOK ==
  /\ phase \in Phases \cup {"report", "done"}
  /\ stage \in {"start", "wait", "drain", "record"}
  /\ proc \in {"none", "running", "exited", "reaped"} /\ code \in Codes
  /\ {killed, pipes, expired, cancelled, inactive, ticked, printed, jsonErr} \subseteq BOOLEAN
  /\ waitCh \in {"empty", "nil", "error"}
  /\ elapsed \in 0..Timeout
  /\ quiet \in 0..Inactivity + 1 /\ fsQuiet \in 0..Inactivity + 1
  /\ files \in [Phases -> {"absent", "old", "new", "torn"}]
  /\ exitCodes \in [Phases -> Codes]
  /\ status \in {"pass", "fail"}
  /\ entry \in [status : {"none", "pass", "fail"}, exitCode : Codes,
                error : BOOLEAN, payload : BOOLEAN]
  /\ ended \in [Phases -> {"none", "unstarted", "ok", "error", "signal"}]

Init ==
  /\ phase = "json" /\ stage = "start"
  /\ proc = "none" /\ code = 0 /\ killed = FALSE /\ pipes = FALSE /\ cancelled = FALSE
  /\ printed = FALSE /\ expired = FALSE /\ waitCh = "empty" /\ inactive = FALSE
  /\ elapsed = 0 /\ quiet = 0 /\ fsQuiet \in 0..Inactivity + 1 /\ ticked = FALSE
  /\ \E f \in {"absent", "old"} : files = [p \in Phases |-> f]
  /\ exitCodes = [p \in Phases |-> 0]
  /\ jsonErr = FALSE /\ status = "pass" /\ entry = NoEntry
  /\ ended = [p \in Phases |-> "none"]

Invoking == phase \in Phases

-----------------------------------------------------------------------------
(* The child process, its descendants and os/exec *)

Emit ==
  /\ proc = "running" /\ ~killed
  /\ printed' \in {printed, TRUE} /\ quiet' = 0       \* stdout, or only stderr
  /\ UNCHANGED <<phase, stage, proc, code, killed, pipes, cancelled, elapsed, fsQuiet,
                 ticked, expired, waitCh, inactive, report>>

UpdateArtifact ==
  /\ proc = "running" /\ ~killed /\ fsQuiet' = 0
  /\ UNCHANGED <<phase, stage, child, elapsed, quiet, ticked, expired, waitCh, inactive, report>>

(* The tool ends by itself, perhaps leaving a process behind. *)
Exit ==
  /\ proc = "running" /\ proc' = "exited"
  /\ code' \in {0, 1} /\ pipes' \in {FALSE, Descendants}
  /\ UNCHANGED <<phase, stage, killed, cancelled, printed, clock, waitCh, inactive, report>>

(* SIGKILL reaches the tool alone. *)
Die ==
  /\ proc = "running" /\ killed /\ proc' = "exited"
  /\ code' = -1 /\ pipes' \in {FALSE, Descendants}
  /\ UNCHANGED <<phase, stage, killed, cancelled, printed, clock, waitCh, inactive, report>>

LetGo ==
  /\ pipes /\ pipes' = FALSE
  /\ UNCHANGED <<phase, stage, proc, code, killed, cancelled, printed, clock, waitCh,
                 inactive, report>>

(* Mutant: the deadline kills nobody.                                      *)
Deadline_NoKill ==
  /\ Invoking /\ stage # "start"
  /\ Timeout > 0 /\ elapsed = Timeout /\ ~expired
  /\ expired' = TRUE /\ cancelled' = FALSE
  /\ UNCHANGED <<phase, stage, proc, code, killed, pipes, printed, elapsed, quiet, fsQuiet,
                 ticked, waitCh, inactive, report>>

(* The context's deadline: exec's watcher kills a child it can still signal. *)
Deadline ==
  /\ Invoking /\ stage # "start"
  /\ Timeout > 0 /\ elapsed = Timeout /\ ~expired
  /\ expired' = TRUE
  /\ killed' = (killed \/ proc = "running")
  /\ cancelled' = (proc \in {"running", "exited"})
  /\ UNCHANGED <<phase, stage, proc, code, pipes, printed, elapsed, quiet, fsQuiet, ticked,
                 waitCh, inactive, report>>

Reap ==
  /\ proc = "exited" /\ proc' = "reaped"
  /\ UNCHANGED <<phase, stage, code, killed, pipes, cancelled, printed, clock, waitCh,
                 inactive, report>>

(* command.Wait() *)
WaitReturns ==
  /\ proc = "reaped" /\ ~pipes /\ waitCh = "empty" /\ stage \in {"wait", "drain"}
  /\ waitCh' = IF code # 0 \/ cancelled THEN "error" ELSE "nil"
  /\ UNCHANGED <<phase, stage, child, clock, inactive, report>>

Lesser(a, b) == IF a < b THEN a ELSE b

Second ==
  /\ Invoking /\ stage # "start"
  /\ elapsed' = Lesser(elapsed + 1, Timeout)
  /\ quiet' = Lesser(quiet + 1, Inactivity + 1)
  /\ fsQuiet' = Lesser(fsQuiet + 1, Inactivity + 1)
  /\ ticked' = TRUE
  /\ UNCHANGED <<phase, stage, child, expired, waitCh, inactive, report>>

-----------------------------------------------------------------------------
(* runInvocation *)

StartInvocation ==
  /\ Invoking /\ stage = "start" /\ stage' = "wait"
  /\ proc' = "running" /\ code' = 0 /\ killed' = FALSE /\ pipes' = FALSE
  /\ cancelled' = FALSE /\ printed' = FALSE
  /\ elapsed' = 0 /\ quiet' = 0 /\ ticked' = FALSE /\ expired' = FALSE
  /\ waitCh' = "empty" /\ inactive' = FALSE
  /\ UNCHANGED <<phase, fsQuiet, report>>

PhaseAfter(p) == CASE p = "json" -> "table" [] p = "table" -> "csv" [] p = "csv" -> "report"

(* What executeTask makes of an invocation's result. *)
Conclude(exitCode, err) ==
  LET passed == exitCode = 0 IN
  /\ exitCodes' = [exitCodes EXCEPT ![phase] = exitCode]
  /\ jsonErr' = IF phase = "json" THEN err ELSE jsonErr
  /\ status' = IF passed THEN "pass" ELSE "fail"
  /\ phase' = IF passed THEN PhaseAfter(phase) ELSE "report"
  /\ stage' = "start"

(* command.Start() fails: nothing is written. *)
StartFails ==
  /\ Invoking /\ stage = "start"
  /\ Conclude(-1, TRUE)
  /\ ended' = [ended EXCEPT ![phase] = "unstarted"]
  /\ UNCHANGED <<child, clock, waitCh, inactive, files, entry>>

(* select: the wait channel. *)
Receive ==
  /\ Invoking /\ stage \in {"wait", "drain"} /\ waitCh # "empty"
  /\ stage' = "record"
  /\ UNCHANGED <<phase, child, clock, waitCh, inactive, report>>

(* Mutant: only output counts as activity. *)
LastActivity_OutputOnly == quiet

LastActivity == Lesser(quiet, fsQuiet)

(* select: the ticker.  A child that was quiet for too long is killed, and *)
(* the runner then blocks on the wait channel.                             *)
Tick ==
  /\ Invoking /\ stage = "wait" /\ ticked /\ ticked' = FALSE
  /\ quiet' = LastActivity
  /\ LET tooQuiet == Inactivity > 0 /\ quiet' > Inactivity IN
     /\ inactive' = tooQuiet
     /\ killed' = (killed \/ (tooQuiet /\ proc = "running"))
     /\ stage' = IF tooQuiet THEN "drain" ELSE "wait"
  /\ UNCHANGED <<phase, proc, code, pipes, cancelled, printed, elapsed, fsQuiet, expired,
                 waitCh, report>>

ExitCode ==
  CASE inactive                               -> -1
    [] ~inactive /\ waitCh = "error"          -> IF expired THEN -1 ELSE code
    [] ~inactive /\ waitCh = "nil"            -> 0

(* The output is written if there is any, and an error of that write is    *)
(* not looked at.                                                          *)
Record ==
  /\ Invoking /\ stage = "record"
  /\ files' \in IF printed THEN {[files EXCEPT ![phase] = f] : f \in {files[phase], "torn", "new"}}
                           ELSE {files}
  /\ fsQuiet' \in {fsQuiet, 0}
  /\ Conclude(ExitCode, waitCh = "error")
  /\ ended' = [ended EXCEPT ![phase] = CASE code = 0 -> "ok" [] code = 1 -> "error"
                                         [] code = -1 -> "signal"]
  /\ UNCHANGED <<child, elapsed, quiet, ticked, expired, waitCh, inactive, entry>>

-----------------------------------------------------------------------------
(* Mutant: the CSV rerun's exit code is reported whenever the table passed.*)
reportedExitCode_Csv ==
  IF exitCodes["table"] # 0 THEN exitCodes["table"] ELSE exitCodes["csv"]

reportedExitCode ==
  CASE status = "fail" /\ exitCodes["csv"] # 0   -> exitCodes["csv"]
    [] status = "fail" /\ exitCodes["csv"] = 0
                       /\ exitCodes["table"] # 0 -> exitCodes["table"]
    [] OTHER                                     -> exitCodes["json"]

(* Mutant: the payload is recorded for every check that passed. *)
Report_WhenPassed ==
  /\ phase = "report" /\ phase' = "done"
  /\ entry' = [status   |-> status,
               exitCode |-> reportedExitCode,
               error    |-> jsonErr /\ reportedExitCode = exitCodes["json"],
               payload  |-> status = "pass"]
  /\ UNCHANGED <<stage, child, clock, waitCh, inactive, files, exitCodes, jsonErr, status, ended>>

(* The log entry.  It names the payload file when there is one, whenever   *)
(* that was written.                                                       *)
Report ==
  /\ phase = "report" /\ phase' = "done"
  /\ entry' = [status   |-> status,
               exitCode |-> reportedExitCode,
               error    |-> jsonErr /\ reportedExitCode = exitCodes["json"],
               payload  |-> files["json"] # "absent"]
  /\ UNCHANGED <<stage, child, clock, waitCh, inactive, files, exitCodes, jsonErr, status, ended>>

Runner == StartInvocation \/ StartFails \/ Receive \/ Tick \/ Record \/ Report

Next ==
  \/ Emit \/ UpdateArtifact \/ Exit \/ Die \/ LetGo
  \/ Deadline \/ Reap \/ WaitReturns \/ Second
  \/ Runner

Spec == Init /\ [][Next]_vars

(* The clock ticks, the kernel delivers a signal and reaps the child, the  *)
(* runner is scheduled and select does not pass over a ready wait channel  *)
(* for ever.  Nothing makes the tool, or what it left behind, end.         *)
FairSpec ==
  /\ Spec
  /\ WF_vars(Runner) /\ WF_vars(Receive)
  /\ WF_vars(Second) /\ WF_vars(Deadline)
  /\ WF_vars(Die) /\ WF_vars(Reap) /\ WF_vars(WaitReturns)

-----------------------------------------------------------------------------
(* A passing entry stands for three processes that each ended by itself    *)
(* with status 0; a failing one carries the exit code, never 0, of the     *)
(* first invocation that failed, and no invocation followed that one,      *)
(* however exit, deadline and ticker raced.                                *)
EntryIsTrue ==
  phase = "done" =>
    /\ entry.status = "pass" <=> entry.exitCode = 0
    /\ entry.status = "pass" => \A p \in Phases : ended[p] = "ok"
    /\ entry.status = "fail" =>
         \E p \in Phases : /\ entry.exitCode = exitCodes[p]
                           /\ \A q \in Phases \ {p} : ended[q] \in {"ok", "none"}
                           /\ PhaseAfter(p) # "report" => ended[PhaseAfter(p)] = "none"
    /\ ended["json"] = "error" => entry.error

(* A child is killed only when its time is up, or when neither its output  *)
(* nor a file under its output directory has moved for longer than the     *)
(* inactivity limit (runInvocation's ticker branch).                       *)
KilledForCause ==
  [][killed' /\ ~killed =>
       \/ Timeout > 0 /\ elapsed = Timeout
       \/ Inactivity > 0 /\ quiet > Inactivity /\ fsQuiet > Inactivity]_vars

(* The run's view of a check: how many invocations have passed, whether    *)
(* one has not, the payload file and the entry.                            *)
Counted(p) == IF ended[p] = "ok" /\ exitCodes[p] = 0 THEN 1 ELSE 0

Promise == INSTANCE CheckPromise WITH
  proved  <- Counted("json") + Counted("table") + Counted("csv"),
  stopped <- status = "fail",
  payload <- files["json"]

(* executeTask, with all its races, does what the run takes for one step:  *)
(* it keeps the promise CheckPromise states.                               *)
KeepsPromise == Promise!Spec

(* executeTask returns (--command-timeout-seconds): main.go:302 says of    *)
(* the flag "Per-command timeout in seconds".                              *)
TaskEnds == <>(phase = "done")

(* A check ends, by the tool's exit, the deadline or the ticker, if those  *)
(* the tool leaves behind let go of its pipes in the end.                  *)
TaskEndsOnceReleased == <>[](~pipes) => TaskEnds
=============================================================================
