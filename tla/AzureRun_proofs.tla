--------------------------- MODULE AzureRun_proofs ---------------------------
(***************************************************************************)
(* What holds of AzureRun for every manifest, selection, plan order and    *)
(* number of runs.                                                         *)
(***************************************************************************)
EXTENDS AzureRun, TLAPS

-----------------------------------------------------------------------------
(* The defaults have their types. *)

LEMMA DefaultsType ==
  /\ AnyManifest \in Manifests /\ AnyManifest \in Manifest
  /\ AnyRequest \in Request
  /\ 0 \in Runs
  /\ NoEntries \in [Tasks -> Entry]
  /\ NoVerdict \in Verdict
  /\ NoRunProfile \in RunProfileArtifact
<1>1. AnyManifest \in Manifests /\ AnyManifest \in Manifest
  BY ManifestsAssumption DEF AnyManifest
<1>2. AnyRequest \in Request
  BY RequestsAssumption DEF AnyRequest
<1>3. 0 \in Runs
  BY MaxRunsAssumption DEF Runs
<1>4. NoEntries \in [Tasks -> Entry]
  BY DEF NoEntries, Entry
<1>5. NoVerdict \in Verdict /\ NoRunProfile \in RunProfileArtifact
  BY DEF NoVerdict, Verdict, NoRunProfile, RunProfileArtifact, ProfileNames
<1>6. QED
  BY <1>1, <1>2, <1>3, <1>4, <1>5

LEMMA ScaffoldRunType ==
  ASSUME NEW m \in Manifests, NEW d \in BOOLEAN, NEW r \in Runs, NEW s \in BOOLEAN
  PROVE  ScaffoldRun(m, d, r, s) \in RunResult(Runs, Scopes)
<1>1. RequiredArtifacts(m, d) \subseteq ArtifactIDs
  BY ManifestsAssumption DEF RequiredArtifacts, Manifest
<1>2. [t \in Tasks |-> IF Covered(m, t) THEN "blocked" ELSE "none"] \in [Tasks -> TaskStatus]
  BY DEF TaskStatus
<1>3. RunScope(m) \in Scopes
  BY DEF Scopes
<1>4. QED
  BY <1>1, <1>2, <1>3 DEF ScaffoldRun, RunResult, Forms, Outcomes

LEMMA NoResultType == NoResult \in RunResult(Runs, Scopes)
<1>1. ScaffoldRun(AnyManifest, FALSE, 0, FALSE) \in RunResult(Runs, Scopes)
  BY ScaffoldRunType, DefaultsType
<1>2. QED
  BY <1>1 DEF NoResult, RunResult, Forms

LEMMA RunProfileType ==
  ASSUME NEW m \in Manifests, NEW r \in Request
  PROVE  /\ BuildRunProfile(m, r) \in RunProfileArtifact
         /\ SelectedTasks(m, r) \subseteq Tasks
<1>1. SelectedTasks(m, r) \subseteq Tasks /\ SkippedTasks(m, r) \subseteq Tasks
  BY DEF SelectedTasks, SkippedTasks, AdmittedTasks, BuildSurfacePlan
<1>2. ProfileName(m, r) \in ProfileNames
  BY DEF ProfileName, ProfileNames, Request
<1>3. QED
  BY <1>1, <1>2 DEF BuildRunProfile, RunProfileArtifact

-----------------------------------------------------------------------------
(* Type correctness *)

LEMMA InitType == Init => TypeOK
<1> SUFFICES ASSUME Init PROVE TypeOK
  OBVIOUS
<1> USE DefaultsType, NoResultType
<1>1. At(FALSE) \in Stamp(Runs)
  BY DEF Init, At, Stamp
<1>2. log \in LogFile /\ timeline \in LogFile /\ demo \in DemoFile
  BY <1>1 DEF Init, LogFile, DemoFile, Forms
<1>3. profile \in ProfileFile /\ summary \in SummaryFile
  BY DEF Init, ProfileFile, SummaryFile, Forms, ProfileNames
<1>4. payload \in [Tasks -> Payload]
  BY DEF Init, Payload
<1>5. pc \in Stages /\ cmd \in Subcommands /\ exit \in ExitCodes
  BY DEF Init, Stages, Subcommands, ExitCodes
<1>6. QED
  BY <1>2, <1>3, <1>4, <1>5 DEF Init, TypeOK

LEMMA ReturnType ==
  ASSUME NEW code \in ExitCodes, Return(code)
  PROVE  /\ pc' \in Stages /\ exit' \in ExitCodes
         /\ man' \in Manifests /\ req' \in Request
         /\ pending' \subseteq ArtifactIDs
         /\ mem' \in RunResult(Runs, Scopes)
         /\ prof' \in RunProfileArtifact
         /\ todo' \subseteq Tasks /\ task' \in Tasks \cup {NoTask}
         /\ entries' \in [Tasks -> Entry]
         /\ final' \in BOOLEAN /\ found' \subseteq Findings /\ verdict' \in Verdict
BY DefaultsType, NoResultType DEF Return, Stages

LEMMA BeginType ==
  ASSUME TypeOK, Operator
  PROVE  TypeOK'
<1> USE DEF TypeOK
<1>1. ASSUME NEW c, NEW m, NEW r, BeginRun(c, m, r)
      PROVE  run' \in Runs /\ run' = run + 1
  BY <1>1, MaxRunsAssumption DEF BeginRun, Runs
<1>2. ASSUME NEW c \in {"scaffold-run", "execution", "validation"},
             NEW m \in Manifests, NEW r \in Requests, BeginRun(c, m, r),
             builds' \subseteq Runs
      PROVE  TypeOK'
  <2>1. pending' \subseteq ArtifactIDs /\ req' \in Request
    BY <1>2, ManifestsAssumption, RequestsAssumption DEF BeginRun, RequiredArtifacts, Manifest
  <2>2. pc' \in Stages /\ cmd' \in Subcommands /\ exit' \in ExitCodes
    BY <1>2 DEF BeginRun, Start, Stages, Subcommands, RunCommands, ExitCodes
  <2>3. QED
    BY <1>1, <1>2, <2>1, <2>2 DEF BeginRun, reports
<1>3. CASE StartScaffold \/ StartRun
  <2>1. CASE StartScaffold
    BY <1>2, <2>1 DEF StartScaffold
  <2>2. CASE StartRun
    BY <1>1, <1>2, <2>2 DEF StartRun, RunCommands
  <2>3. QED
    BY <1>3, <2>1, <2>2
<1>4. CASE RefuseRun
  BY <1>4 DEF RefuseRun, memory, reports, RunCommands, Subcommands, ExitCodes
<1>5. CASE StartLive
  BY <1>5 DEF StartLive, Start, memory, reports, Subcommands, ExitCodes, Stages
<1>6. QED
  BY <1>3, <1>4, <1>5 DEF Operator

LEMMA FileTypes ==
  ASSUME TypeOK
  PROVE  /\ \A b \in BOOLEAN : At(b) \in Stamp(Runs)
         /\ RealLog \in LogFile /\ TornLog \in LogFile
         /\ PlaceholderLog \in LogFile /\ Placeholder \in DemoFile
<1>1. \A b \in BOOLEAN : At(b) \in Stamp(Runs)
  BY DEF TypeOK, At, Stamp
<1>2. QED
  BY <1>1, DefaultsType
     DEF TypeOK, RealLog, TornLog, PlaceholderLog, Placeholder, LogFile, DemoFile, Forms

(* Settling a task. *)
LEMMA SettleType ==
  ASSUME TypeOK, NEW t \in Tasks, NEW status \in {"pass", "fail"}, NEW p \in BOOLEAN,
         NEW f \in SUBSET Findings, Settle(t, status, p, f)
  PROVE  /\ entries' \in [Tasks -> Entry]
         /\ mem' \in RunResult(Runs, Scopes)
         /\ todo' \subseteq Tasks /\ task' \in Tasks \cup {NoTask}
         /\ pc' \in Stages
<1>1. entries' \in [Tasks -> Entry]
  BY DEF TypeOK, Settle, Entry
<1>2. mem' \in RunResult(Runs, Scopes)
  BY DEF TypeOK, Settle, RunResult, TaskStatus
<1>3. QED
  BY <1>1, <1>2 DEF TypeOK, Settle, Stages

LEMMA TearType ==
  ASSUME TypeOK, TearFile \/ UNCHANGED reports
  PROVE  /\ log' \in LogFile /\ timeline' \in LogFile /\ demo' \in DemoFile
         /\ result' \in RunResult(Runs, Scopes)
         /\ profile' \in ProfileFile /\ summary' \in SummaryFile
<1> USE FileTypes
<1>1. [result EXCEPT !.form = "torn"] \in RunResult(Runs, Scopes)
  BY DEF TypeOK, RunResult, Forms
<1>2. [profile EXCEPT !.form = "torn"] \in ProfileFile
  BY DEF TypeOK, ProfileFile, Forms
<1>3. [summary EXCEPT !.form = "torn"] \in SummaryFile
  BY DEF TypeOK, SummaryFile, Forms
<1>4. [form |-> "torn", stamp |-> At(FALSE)] \in DemoFile
  BY DEF DemoFile, Forms
<1>5. QED
  BY <1>1, <1>2, <1>3, <1>4 DEF TypeOK, TearFile, reports

(* Executing and recording have a task in hand: without this the types of  *)
(* entries and passed are not inductive.                                   *)
TaskInHand == pc \in {"execute", "record"} => task \in Tasks

LEMMA BeforeTasksType ==
  ASSUME TypeOK,
         \/ WritePlaceholder \/ TakeStart \/ PlanRun \/ PlanFails \/ WriteRunProfile
         \/ WriteCommandLog \/ WriteCommandTimeline \/ UpdateRunResult
  PROVE  TypeOK'
<1> USE FileTypes
<1>1. CASE WritePlaceholder
  BY <1>1 DEF TypeOK, WritePlaceholder
<1>2. CASE TakeStart
  <2>1. man \in Manifests /\ req.demo \in BOOLEAN /\ run \in Runs
    BY DEF TypeOK, Request
  <2>2. mem' \in RunResult(Runs, Scopes)
    BY <1>2, <2>1, ScaffoldRunType DEF TakeStart
  <2>3. pc' \in Stages
    BY <1>2 DEF TakeStart, Stages
  <2>4. QED
    BY <1>2, <2>2, <2>3 DEF TypeOK, TakeStart, reports
<1>3. CASE PlanRun
  BY <1>3, RunProfileType DEF TypeOK, PlanRun, reports, Stages
<1>4. CASE PlanFails
  BY <1>4, ReturnType DEF TypeOK, PlanFails, reports, ExitCodes
<1>5. CASE WriteRunProfile
  <2>1. profile' \in ProfileFile
    BY <1>5 DEF TypeOK, WriteRunProfile, ProfileFile, RunProfileArtifact, Forms
  <2>2. mem' \in RunResult(Runs, Scopes)
    BY <1>5 DEF TypeOK, WriteRunProfile, RunResult
  <2>3. QED
    BY <1>5, <2>1, <2>2 DEF TypeOK, WriteRunProfile, Stages
<1>6. CASE WriteCommandLog
  BY <1>6 DEF TypeOK, WriteCommandLog, memory, Stages
<1>7. CASE WriteCommandTimeline
  BY <1>7 DEF TypeOK, WriteCommandTimeline, memory, Stages
<1>8. CASE UpdateRunResult
  <2>1. pc' \in Stages /\ builds' \subseteq Runs
    BY <1>8 DEF TypeOK, UpdateRunResult, Stages
  <2>2. QED
    BY <1>8, <2>1 DEF TypeOK, UpdateRunResult, memory
<1>9. QED
  BY <1>1, <1>2, <1>3, <1>4, <1>5, <1>6, <1>7, <1>8

LEMMA TasksType ==
  ASSUME TypeOK, TaskInHand,
         OpenSession \/ FailSession \/ Execute \/ RecordPass \/ RecordFail \/ Finish
  PROVE  TypeOK'
<1>1. CASE OpenSession
  BY <1>1 DEF TypeOK, OpenSession, reports, Stages
<1>2. CASE FailSession
  <2>1. PICK t \in todo : Settle(t, "fail", FALSE, {}) /\ dirs' \in {dirs, dirs \cup {<<run, t>>}}
    BY <1>2 DEF FailSession
  <2>2. dirs' \subseteq Runs \X Tasks
    BY <2>1 DEF TypeOK
  <2>3. /\ entries' \in [Tasks -> Entry] /\ mem' \in RunResult(Runs, Scopes)
        /\ todo' \subseteq Tasks /\ task' \in Tasks \cup {NoTask} /\ pc' \in Stages
    <3>1. t \in Tasks /\ {} \in SUBSET Findings
      BY DEF TypeOK
    <3>2. QED
      BY <2>1, <3>1, SettleType
  <2>4. QED
    BY <1>2, <2>2, <2>3 DEF TypeOK, FailSession, reports
<1>3. CASE Execute
  <2> USE <1>3 DEF TypeOK, Execute
  <2>1. task \in Tasks
    BY DEF TaskInHand
  <2>2. PICK status \in {"pass", "fail"}, print \in Prints :
          LET written == IF print = "nothing" THEN payload[task]
                         ELSE [form |-> "real", run |-> run, good |-> print = "good"]
          IN  /\ payload' = [payload EXCEPT ![task] = written]
              /\ entries' = [entries EXCEPT ![task] =
                   [status |-> status, payload |-> written.form = "real"]]
    OBVIOUS
  <2>3. payload' \in [Tasks -> Payload]
    BY <2>1, <2>2 DEF Payload
  <2>4. entries' \in [Tasks -> Entry]
    BY <2>1, <2>2 DEF Payload, Entry
  <2>5. QED
    BY <2>3, <2>4 DEF reports, Stages
<1>4. CASE RecordPass \/ RecordFail
  <2>1. task \in Tasks /\ entries[task].payload \in BOOLEAN
    BY <1>4 DEF TaskInHand, TypeOK, RecordPass, RecordFail, Entry
  <2>2. [origin |-> "slow", task |-> task] \in Findings
    BY <2>1 DEF Findings
  <2>3. PICK status \in {"pass", "fail"}, f \in SUBSET Findings :
          Settle(task, status, entries[task].payload, f)
    BY <1>4, <2>2 DEF RecordPass, RecordFail
  <2>4. dirs' \subseteq Runs \X Tasks /\ passed' \subseteq Runs \X Tasks
    BY <1>4, <2>1 DEF TypeOK, RecordPass, RecordFail, CloseSession
  <2>5. QED
    BY <1>4, <2>1, <2>3, <2>4, SettleType DEF TypeOK, RecordPass, RecordFail, reports
<1>5. CASE Finish
  <2>1. mem' \in RunResult(Runs, Scopes)
    BY <1>5 DEF TypeOK, Finish, FinalOutcome, RunResult, Outcomes
  <2>2. QED
    BY <1>5, <2>1 DEF TypeOK, Finish, reports, Stages
<1>6. QED
  BY <1>1, <1>2, <1>3, <1>4, <1>5

LEMMA AfterTasksType ==
  ASSUME TypeOK,
         LiveCheck \/ LiveCheckFails \/ SaveLiveFindings
           \/ VerifyCompletion \/ VerifyFails \/ WriteSummary \/ Leave
  PROVE  TypeOK'
<1>1. CASE LiveCheck
  <2>1. LiveFindings \subseteq Findings
    BY DEF LiveFindings, Findings
  <2>2. QED
    BY <1>1, <2>1 DEF TypeOK, LiveCheck, reports, Stages
<1>2. CASE LiveCheckFails \/ VerifyFails
  BY <1>2, ReturnType DEF TypeOK, LiveCheckFails, VerifyFails, reports, ExitCodes
<1>3. CASE SaveLiveFindings
  <2>1. result' \in RunResult(Runs, Scopes)
    <3>1. MergeFindings(result.findings, found) \in SUBSET Findings
      BY DEF TypeOK, MergeFindings, RunResult
    <3>2. OutcomeAfterLive(result.outcome, found) \in Outcomes
      BY DEF TypeOK, OutcomeAfterLive, RunResult, Outcomes
    <3>3. QED
      BY <1>3, <3>1, <3>2 DEF TypeOK, SaveLiveFindings, RunResult
  <2>2. QED
    BY <1>3, <2>1 DEF TypeOK, SaveLiveFindings, memory, Stages
<1>4. CASE VerifyCompletion
  <2>1. verdict' \in Verdict
    BY <1>4 DEF VerifyCompletion, Verdict, Complete, ReleaseReady, ManifestAccounts
  <2>2. QED
    BY <1>4, <2>1 DEF TypeOK, VerifyCompletion, reports, Stages
<1>5. CASE WriteSummary
  <2>1. summary' \in SummaryFile
    BY <1>5 DEF TypeOK, WriteSummary, SummaryFile, Verdict, Forms
  <2>2. QED
    BY <1>5, <2>1 DEF TypeOK, WriteSummary, memory, Stages
<1>6. CASE Leave
  <2>1. PICK code \in {"0", "1"} : Return(code)
    BY <1>6 DEF TypeOK, Leave, Subcommands, RunCommands, RunExit, LiveExit, ValidationExit
  <2>2. code \in ExitCodes /\ builds' \subseteq Runs
    BY <1>6 DEF TypeOK, Leave, ExitCodes
  <2>3. QED
    BY <1>6, <2>1, <2>2, ReturnType DEF TypeOK, Leave, reports
<1>7. QED
  BY <1>1, <1>2, <1>3, <1>4, <1>5, <1>6

LEMMA FailureType ==
  ASSUME TypeOK, Crash \/ WriteFails
  PROVE  TypeOK'
<1>1. PICK code \in {"killed", "error"} : Return(code)
  BY DEF Crash, WriteFails
<1>2. code \in ExitCodes
  BY DEF ExitCodes
<1>3. TearFile \/ UNCHANGED reports
  BY DEF Crash, WriteFails
<1>4. UNCHANGED <<cmd, run, payload, dirs, passed>> /\ builds' \subseteq Runs
  BY DEF TypeOK, Crash, WriteFails
<1>5. QED
  BY <1>1, <1>2, <1>3, <1>4, ReturnType, TearType DEF TypeOK

(* Nothing but OpenSession enters "execute", and only Execute leaves it for *)
(* "record", with the same task in hand.                                    *)
LEMMA TaskInHandStep ==
  ASSUME TypeOK, TaskInHand, [Next]_vars
  PROVE  TaskInHand'
<1> USE DEF TaskInHand
<1>1. CASE Operator
  BY <1>1 DEF Operator, StartScaffold, StartRun, RefuseRun, StartLive, BeginRun, Start, memory
<1>2. CASE OpenSession
  BY <1>2 DEF TypeOK, OpenSession
<1>3. CASE Execute
  BY <1>3 DEF Execute
<1>4. CASE \/ WritePlaceholder \/ TakeStart \/ PlanRun \/ PlanFails \/ WriteRunProfile
           \/ WriteCommandLog \/ WriteCommandTimeline \/ UpdateRunResult
  BY <1>4 DEF WritePlaceholder, TakeStart, PlanRun, PlanFails, WriteRunProfile,
              WriteCommandLog, WriteCommandTimeline, UpdateRunResult, Return
<1>5. CASE FailSession \/ RecordPass \/ RecordFail \/ Finish
  BY <1>5 DEF FailSession, RecordPass, RecordFail, Finish, Settle
<1>6. CASE \/ LiveCheck \/ LiveCheckFails \/ SaveLiveFindings
           \/ VerifyCompletion \/ VerifyFails \/ WriteSummary \/ Leave
  BY <1>6 DEF LiveCheck, LiveCheckFails, SaveLiveFindings, VerifyCompletion, VerifyFails,
              WriteSummary, Leave, Return
<1>7. CASE Crash \/ WriteFails
  BY <1>7 DEF Crash, WriteFails, Return
<1>8. CASE UNCHANGED vars
  BY <1>8 DEF vars, memory
<1>9. QED
  BY <1>1, <1>2, <1>3, <1>4, <1>5, <1>6, <1>7, <1>8 DEF Next, Work

LEMMA StepType ==
  ASSUME TypeOK, TaskInHand, [Next]_vars
  PROVE  TypeOK'
<1>1. CASE UNCHANGED vars
  BY <1>1 DEF TypeOK, vars, memory, reports
<1>2. CASE Next
  BY <1>2, BeginType, BeforeTasksType, TasksType, AfterTasksType, FailureType
     DEF Next, Work
<1>3. QED
  BY <1>1, <1>2

(* Every variable keeps its type, in every order of commands, crashes and   *)
(* failed writes: in particular the three statuses of a check, the outcome  *)
(* and the exit status never leave the values the program knows.            *)
THEOREM TypeCorrect == Spec => []TypeOK
<1>1. Init => TypeOK /\ TaskInHand
  <2>1. Init => TaskInHand
    BY DEF Init, TaskInHand
  <2>2. QED
    BY <2>1, InitType
<1>2. TypeOK /\ TaskInHand /\ [Next]_vars => (TypeOK /\ TaskInHand)'
  BY StepType, TaskInHandStep
<1>3. QED
  BY <1>1, <1>2, PTL DEF Spec

-----------------------------------------------------------------------------
(* A release-ready directory has earned it *)

(* The stages in which mem is the result of the current run.               *)
Running == {"plan", "profile", "log", "timeline", "result", "session", "execute",
            "record", "finish"}

(* A "pass", in memory or on disk, is that of an executed check: what makes *)
(* ReleaseIsEarned inductive.                                               *)
PassIsEarned(r) == \A t \in Tasks : r.status[t] = "pass" => <<r.run, t>> \in passed

Earned ==
  /\ PassIsEarned(mem)
  /\ PassIsEarned(result)
  /\ pc \in Running => mem.run = run

(* A scaffolded result passes nothing.                                      *)
LEMMA NoResultEarned == \A t \in Tasks : NoResult.status[t] # "pass"
BY DEF ScaffoldRun, NoResult

(* A command that ends forgets its run result and leaves "Running".         *)
LEMMA ReturnEarned ==
  ASSUME Earned, NEW code, Return(code), UNCHANGED passed,
         PassIsEarned(result)'
  PROVE  Earned'
<1>1. PassIsEarned(mem)'
  BY NoResultEarned DEF Return, PassIsEarned
<1>2. QED
  BY <1>1 DEF Earned, Return, Running

(* Of a result only the form, the findings, the outcome and the profile     *)
(* record may change without putting its passes in question.                *)
LEMMA SamePasses ==
  ASSUME NEW q, NEW r, PassIsEarned(q), passed \subseteq passed',
         r.run = q.run, r.status = q.status
  PROVE  \A t \in Tasks : r.status[t] = "pass" => <<r.run, t>> \in passed'
BY DEF PassIsEarned

LEMMA TearEarned ==
  ASSUME TypeOK, Earned, TearFile \/ UNCHANGED reports, UNCHANGED passed
  PROVE  PassIsEarned(result)'
<1>1. result' = result \/ result' = [result EXCEPT !.form = "torn"]
  BY DEF TearFile, reports
<1>2. result'.run = result.run /\ result'.status = result.status
  BY <1>1 DEF TypeOK, RunResult
<1>3. QED
  BY <1>2 DEF Earned, PassIsEarned

(* Settling a check as passed is earned when the check is recorded passed.  *)
LEMMA SettleEarned ==
  ASSUME TypeOK, Earned, pc \in Running, NEW t \in Tasks, NEW status, NEW p, NEW f,
         Settle(t, status, p, f), UNCHANGED <<run, result>>,
         passed \subseteq passed',
         status = "pass" => <<run, t>> \in passed'
  PROVE  Earned'
<1>1. mem'.run = mem.run /\ mem'.status = [mem.status EXCEPT ![t] = status]
  BY DEF Settle, TypeOK, RunResult
<1>2. mem.run = run
  BY DEF Earned
<1>3. PassIsEarned(mem)'
  BY <1>1, <1>2 DEF Earned, PassIsEarned, TypeOK, RunResult
<1>4. QED
  BY <1>1, <1>2, <1>3 DEF Earned, PassIsEarned

LEMMA EarnedStep ==
  ASSUME TypeOK, TaskInHand, Earned, [Next]_vars
  PROVE  Earned'
<1>1. CASE Operator
  BY <1>1 DEF Operator, StartScaffold, StartRun, RefuseRun, StartLive, BeginRun, Start,
              memory, reports, Earned, PassIsEarned, Running
<1>2. CASE TakeStart
  <2>1. PICK s \in BOOLEAN : mem' = ScaffoldRun(man, req.demo, run, s)
    BY <1>2 DEF TakeStart
  <2>2. mem'.run = run
    BY <2>1 DEF ScaffoldRun
  <2>3. \A t \in Tasks : mem'.status[t] # "pass"
    BY <2>1 DEF ScaffoldRun
  <2>4. UNCHANGED <<run, result, passed>>
    BY <1>2 DEF TakeStart, reports
  <2>5. QED
    BY <2>2, <2>3, <2>4 DEF Earned, PassIsEarned
<1>3. CASE WriteRunProfile \/ Finish
  <2>1. mem'.run = mem.run /\ mem'.status = mem.status
    BY <1>3 DEF WriteRunProfile, Finish, TypeOK, RunResult
  <2>2. pc \in Running /\ UNCHANGED <<run, result, passed>>
    BY <1>3 DEF WriteRunProfile, Finish, reports, Running
  <2>3. QED
    BY <2>1, <2>2 DEF Earned, PassIsEarned
<1>4. CASE UpdateRunResult
  <2>1. result' = mem /\ pc \in Running /\ UNCHANGED <<run, passed>>
    BY <1>4 DEF UpdateRunResult, Running
  <2>2. UNCHANGED mem
    BY <1>4 DEF UpdateRunResult, memory
  <2>3. QED
    BY <2>1, <2>2 DEF Earned, PassIsEarned
<1>5. CASE FailSession
  BY <1>5, SettleEarned DEF FailSession, TypeOK, reports, Running
<1>6. CASE RecordPass
  <2>1. task \in Tasks /\ pc \in Running
    BY <1>6 DEF RecordPass, TaskInHand, Running
  <2>2. PICK f : Settle(task, "pass", entries[task].payload, f)
    BY <1>6 DEF RecordPass
  <2>3. /\ passed \subseteq passed' /\ <<run, task>> \in passed'
        /\ UNCHANGED <<run, result>>
    BY <1>6 DEF RecordPass, reports
  <2>4. QED
    BY <2>1, <2>2, <2>3, SettleEarned
<1>7. CASE RecordFail
  <2>1. task \in Tasks /\ pc \in Running
    BY <1>7 DEF RecordFail, TaskInHand, Running
  <2>2. QED
    BY <1>7, <2>1, SettleEarned DEF RecordFail, reports
<1>8. CASE SaveLiveFindings
  <2>1. result'.run = result.run /\ result'.status = result.status
    BY <1>8 DEF SaveLiveFindings, TypeOK, RunResult
  <2>2. PassIsEarned(result)' /\ UNCHANGED <<run, passed>>
    BY <1>8, <2>1 DEF SaveLiveFindings, Earned, PassIsEarned
  <2>3. UNCHANGED mem /\ pc' \notin Running
    BY <1>8 DEF SaveLiveFindings, memory, Running
  <2>4. QED
    BY <2>2, <2>3 DEF Earned, PassIsEarned
<1>9. CASE PlanFails \/ LiveCheckFails \/ VerifyFails \/ Leave
  <2>1. UNCHANGED <<result, passed>> /\ \E code : Return(code)
    BY <1>9 DEF PlanFails, LiveCheckFails, VerifyFails, Leave, reports
  <2>2. QED
    BY <2>1, ReturnEarned DEF Earned, PassIsEarned
<1>10. CASE Crash \/ WriteFails
  <2>1. PassIsEarned(result)' /\ UNCHANGED passed /\ \E code : Return(code)
    BY <1>10, TearEarned DEF Crash, WriteFails
  <2>2. QED
    BY <2>1, ReturnEarned
<1>11. CASE \/ WritePlaceholder \/ PlanRun \/ WriteCommandLog \/ WriteCommandTimeline
            \/ OpenSession \/ Execute \/ LiveCheck \/ VerifyCompletion \/ WriteSummary
            \/ UNCHANGED vars
  <2>1. UNCHANGED <<mem, run, result, passed>>
    BY <1>11 DEF WritePlaceholder, PlanRun, WriteCommandLog, WriteCommandTimeline, OpenSession,
                 Execute, LiveCheck, VerifyCompletion, WriteSummary, vars, memory, reports
  <2>2. pc' \in Running => pc \in Running
    BY <1>11 DEF WritePlaceholder, PlanRun, WriteCommandLog, WriteCommandTimeline, OpenSession,
                 Execute, LiveCheck, VerifyCompletion, WriteSummary, vars, Running
  <2>3. QED
    BY <2>1, <2>2 DEF Earned, PassIsEarned
<1>12. QED
  BY <1>1, <1>2, <1>3, <1>4, <1>5, <1>6, <1>7, <1>8, <1>9, <1>10, <1>11 DEF Next, Work


(* When the release gate holds nothing is skipped, so that the verifier     *)
(* finds each covered viewpoint passed in the run result.                   *)
LEMMA GateLeavesNothingOut ==
  ASSUME NEW m, NEW t \in Tasks, Covered(m, t),
         ReleaseReady(m, Shipped, result, profile, ArtifactFiles)
  PROVE  result.status[t] = "pass"
<1>1. SurfaceResultAccepted(m, t, result, profile)
  BY DEF ReleaseReady, Complete, RunResultAccepted
<1>2. result.profiled => profile.skipped = {}
  BY DEF ReleaseReady, runProfileReleaseGate
<1>3. QED
  BY <1>1, <1>2 DEF SurfaceResultAccepted

(* labctl validate calls a directory release-ready only when each covered   *)
(* viewpoint was executed, and passed, in the very run that wrote the run   *)
(* result, whatever runs, reruns, crashes and failed writes came before.    *)
THEOREM ReleaseEarned == Spec => []ReleaseIsEarned
<1>1. Init => TypeOK /\ TaskInHand /\ Earned
  <2>1. Init => TaskInHand
    BY DEF Init, TaskInHand
  <2>2. Init => Earned
    BY NoResultEarned DEF Init, Earned, PassIsEarned, Running
  <2>3. QED
    BY <2>1, <2>2, InitType
<1>2. TypeOK /\ TaskInHand /\ Earned /\ [Next]_vars => (TypeOK /\ TaskInHand /\ Earned)'
  BY StepType, TaskInHandStep, EarnedStep
<1>3. Earned => ReleaseIsEarned
  BY GateLeavesNothingOut DEF Earned, PassIsEarned, ReleaseIsEarned
<1>4. QED
  BY <1>1, <1>2, <1>3, PTL DEF Spec
-----------------------------------------------------------------------------
(* The reports of a run against each other and against what it did         *)

(* The inductive invariant *)

Preparing == {"placeholders", "plan", "profile"}
AtWork    == {"log", "timeline", "result", "session", "execute", "record", "finish"}
Closing   == {"live", "merge", "verify", "summary", "leave"}

Settled == {"pass", "fail"}

OurRun == cmd \in RunCommands /\ pc \in AtWork \cup Closing

(* The stages each command goes through.                                   *)
Route ==
  /\ cmd = "none" => pc = "idle"
  /\ cmd = "scaffold-run" => pc \in {"idle", "placeholders", "result", "leave"}
  /\ cmd = "live" => pc \in {"idle", "live", "leave"}
  /\ cmd = "live-write" => pc \in {"idle", "live", "merge", "leave"}
  /\ cmd = "execution" => pc \in {"idle", "leave"} \cup Preparing \cup AtWork
  /\ pc \in AtWork /\ final => pc \in {"log", "timeline", "result"}
  /\ OurRun /\ pc \in Closing => final
  /\ pc \in Preparing \cup {"idle"} => ~final
  /\ cmd = "scaffold-run" => ~final

(* Nothing is dated later than the run that was started last.              *)
Dated ==
  /\ log.stamp.run <= run /\ timeline.stamp.run <= run
  /\ result.run <= run /\ profile.run <= run
  /\ \A r \in Runs, t \in Tasks : <<r, t>> \in passed \cup dirs => r <= run

(* A run that has not reached its tasks has left nothing behind.           *)
Untouched ==
  /\ pc \in Preparing \cup {"idle"} => entries = NoEntries
  /\ pc \in Preparing =>
       /\ result.run < run /\ profile.run < run
       /\ log.stamp.run = run => log.form # "real"
       /\ timeline.stamp.run = run => timeline.form # "real"
       /\ \A t \in Tasks : <<run, t>> \notin passed \cup dirs
  /\ pc \in {"plan", "profile"} \/ (cmd = "scaffold-run" /\ pc = "result") =>
       /\ \A t \in Tasks : mem.status[t] \notin Settled
       /\ mem.outcome = "blocked" /\ mem.findings = {}
       /\ result.run < run

(* The run result in memory is that of this run and this manifest.         *)
MemOfRun ==
  pc \in {"plan", "profile"} \cup AtWork \/ OurRun =>
    /\ mem.form = "real" /\ mem.run = run /\ mem.scope = RunScope(man)
    /\ mem.demo = req.demo /\ mem.artifacts = RequiredArtifacts(man, req.demo)

(* The profile in memory, on disk and in the run result is one.            *)
ProfileOfRun ==
  /\ pc = "profile" \/ OurRun => prof = BuildRunProfile(man, req)
  /\ pc = "profile" => todo = prof.selected
  /\ OurRun => /\ mem.profiled
               /\ profile = [form |-> "real", run |-> run, profile |-> prof.profile,
                             selected |-> prof.selected, skipped |-> prof.skipped]

(* What the run has come to: the selected checks that are no longer to be  *)
(* done are settled, alike in the log and in the run result, the others    *)
(* are not.                                                                *)
Done == prof.selected \ todo

InOrder ==
  OurRun =>
    /\ todo \subseteq prof.selected
    /\ \A t \in Done : entries[t].status \in Settled /\ mem.status[t] = entries[t].status
    /\ \A t \in Tasks \ Done : /\ mem.status[t] \notin Settled
                               /\ entries[t] = NoEntries[t] \/ (pc = "record" /\ t = task)
    /\ pc \in {"execute", "record"} => task \in todo
    /\ pc = "finish" \/ final => todo = {}
    /\ mem.outcome = IF final THEN FinalOutcome(entries, mem.findings) ELSE "blocked"

(* What is on disk of this run never says more than the memory does.       *)
Behind(entry) == \A t \in Tasks : entry[t].status # "none" => t \in Done /\ entry[t] = entries[t]

OnDisk ==
  OurRun /\ pc \in AtWork =>
    /\ log.form = "real" /\ log.stamp.run = run => Behind(log.entries)
    /\ timeline.form = "real" /\ timeline.stamp.run = run => Behind(timeline.entries)
    /\ result.run = run =>
         /\ result.outcome = "blocked" /\ result.findings \subseteq mem.findings
         /\ \A t \in Tasks : result.status[t] \in Settled =>
                               t \in Done /\ result.status[t] = mem.status[t]
    /\ pc \in {"timeline", "result"} => log = RealLog
    /\ pc = "result" => timeline = RealLog

(* The reports at the end of a run.                                        *)
Checked == cmd = "validation" /\ pc \in {"verify", "summary", "leave"}

Reported ==
  OurRun /\ pc \in Closing =>
    /\ log = RealLog /\ timeline = RealLog
    /\ ~Checked => result = mem
    /\ Checked => result = [mem EXCEPT !.findings = MergeFindings(@, found),
                                       !.outcome  = OutcomeAfterLive(@, found)]
    /\ pc = "merge" \/ Checked => found = LiveFindings
    /\ Checked /\ pc # "verify" =>
         verdict = [complete |-> Complete(man, Shipped, result, profile, ArtifactFiles),
                    ready    |-> ReleaseReady(man, Shipped, result, profile, ArtifactFiles)]
    /\ Checked /\ pc = "leave" =>
         summary = [form |-> "real", run |-> run,
                    complete |-> verdict.complete, ready |-> verdict.ready]

(* The placeholder of the demo index is this run's.                        *)
DemoOfRun ==
  /\ pc = "placeholders" => pending \subseteq RequiredArtifacts(man, req.demo)
  /\ /\ pc \in Preparing \/ OurRun
     /\ "demo_capture_index" \in RequiredArtifacts(man, req.demo)
     /\ pc = "placeholders" => "demo_capture_index" \notin pending
     => demo = Placeholder

(* Directories and what passed.                                            *)
SessionsOfRun ==
  OurRun =>
    /\ \A t \in Tasks : <<run, t>> \in dirs =>
         \/ pc \in {"execute", "record"} /\ t = task
         \/ /\ t \in Done /\ entries[t] = [status |-> "fail", payload |-> FALSE]
            /\ <<run, t>> \notin passed
    /\ \A t \in Tasks : <<run, t>> \in passed => t \in Done /\ entries[t].status = "pass"
    /\ cmd = "validation" /\ pc \in Closing => run \notin builds

-----------------------------------------------------------------------------
(* Frames *)

Stopped == Crash \/ WriteFails
Settling == FailSession \/ RecordPass \/ RecordFail
Ending == pc' = "idle" /\ final' = FALSE /\ entries' = NoEntries

LEMMA RestIsOurs == [Next]_vars =>
  \/ Ending \/ RefuseRun \/ StartScaffold \/ StartRun \/ StartLive
  \/ WritePlaceholder \/ TakeStart \/ PlanRun \/ WriteRunProfile
  \/ WriteCommandLog \/ WriteCommandTimeline \/ UpdateRunResult
  \/ OpenSession \/ Execute \/ Settling \/ Finish
  \/ LiveCheck \/ SaveLiveFindings \/ VerifyCompletion \/ WriteSummary \/ UNCHANGED vars
<1>1. \A code : Return(code) => Ending
  BY DEF Return, Ending
<1>2. PlanFails \/ LiveCheckFails \/ VerifyFails \/ Leave \/ Crash \/ WriteFails => Ending
  BY <1>1 DEF PlanFails, LiveCheckFails, VerifyFails, Leave, Crash, WriteFails
<1>3. QED
  BY <1>2 DEF Next, Operator, Work, Settling

(* Which steps write what. *)
LEMMA Writers ==
  ASSUME [Next]_vars
  PROVE  /\ StartScaffold \/ StartRun \/ UNCHANGED run
         /\ Operator \/ UNCHANGED cmd
         /\ StartScaffold \/ StartRun \/ Ending \/ UNCHANGED <<man, req>>
         /\ WritePlaceholder \/ WriteCommandLog \/ Stopped \/ UNCHANGED log
         /\ WritePlaceholder \/ WriteCommandTimeline \/ Stopped \/ UNCHANGED timeline
         /\ WritePlaceholder \/ Stopped \/ UNCHANGED demo
         /\ UpdateRunResult \/ SaveLiveFindings \/ Stopped \/ UNCHANGED result
         /\ WriteRunProfile \/ Stopped \/ UNCHANGED profile
         /\ WriteSummary \/ Stopped \/ UNCHANGED summary
         /\ TakeStart \/ WriteRunProfile \/ Settling \/ Finish \/ Ending \/ UNCHANGED mem
         /\ PlanRun \/ Ending \/ UNCHANGED prof
         /\ PlanRun \/ Settling \/ Ending \/ UNCHANGED todo
         /\ Execute \/ Settling \/ Ending \/ UNCHANGED entries
         /\ Finish \/ Ending \/ UNCHANGED final
         /\ LiveCheck \/ Ending \/ UNCHANGED found
         /\ VerifyCompletion \/ Ending \/ UNCHANGED verdict
         /\ Execute \/ UNCHANGED payload
         /\ OpenSession \/ Settling \/ UNCHANGED dirs
         /\ RecordPass \/ UNCHANGED passed
<1> USE DEF memory, reports
<1>0. \A code : Return(code) => Ending
  BY DEF Return, Ending
<1>1. CASE Operator
  BY <1>1 DEF Operator, StartScaffold, StartRun, RefuseRun, StartLive, BeginRun, Start
<1>2. CASE WritePlaceholder
  BY <1>2 DEF WritePlaceholder
<1>3. CASE TakeStart \/ PlanRun
  BY <1>3 DEF TakeStart, PlanRun
<1>4. CASE PlanFails \/ LiveCheckFails \/ VerifyFails \/ Leave
  BY <1>0, <1>4 DEF PlanFails, LiveCheckFails, VerifyFails, Leave
<1>5. CASE WriteRunProfile \/ WriteCommandLog \/ WriteCommandTimeline \/ UpdateRunResult
  BY <1>5 DEF WriteRunProfile, WriteCommandLog, WriteCommandTimeline, UpdateRunResult
<1>6. CASE OpenSession
  BY <1>6 DEF OpenSession
<1>7. CASE Execute
  BY <1>7 DEF Execute
<1>8. CASE Settling
  BY <1>8 DEF Settling, FailSession, RecordPass, RecordFail
<1>9. CASE Finish \/ LiveCheck \/ SaveLiveFindings
  BY <1>9 DEF Finish, LiveCheck, SaveLiveFindings
<1>10. CASE VerifyCompletion \/ WriteSummary
  BY <1>10 DEF VerifyCompletion, WriteSummary
<1>11. CASE Crash \/ WriteFails
  BY <1>0, <1>11 DEF Crash, WriteFails, Stopped
<1>12. CASE UNCHANGED vars
  BY <1>12 DEF vars
<1>13. QED
  BY <1>1, <1>2, <1>3, <1>4, <1>5, <1>6, <1>7, <1>8, <1>9, <1>10, <1>11, <1>12
     DEF Next, Work, Settling

(* From which stage to which the steps lead. *)
LEMMA StagesOf ==
  /\ StartScaffold => pc = "idle" /\ pc' = "placeholders" /\ cmd' = "scaffold-run"
  /\ StartRun => pc = "idle" /\ pc' = "placeholders" /\ cmd' \in RunCommands
  /\ StartLive => pc = "idle" /\ pc' = "live" /\ cmd' \in {"live", "live-write"}
  /\ RefuseRun => pc = "idle" /\ pc' = "idle" /\ cmd' \in RunCommands
  /\ WritePlaceholder => pc = "placeholders" /\ pc' = "placeholders"
  /\ TakeStart => pc = "placeholders" /\ pc' = IF cmd = "scaffold-run" THEN "result" ELSE "plan"
  /\ PlanRun => pc = "plan" /\ pc' = "profile"
  /\ WriteRunProfile => pc = "profile" /\ pc' = "log"
  /\ WriteCommandLog => pc = "log" /\ pc' = "timeline"
  /\ WriteCommandTimeline => pc = "timeline" /\ pc' = "result"
  /\ UpdateRunResult =>
       /\ pc = "result"
       /\ pc' = CASE cmd \in RunCommands /\ ~final -> IF todo = {} THEN "finish" ELSE "session"
                  [] cmd = "validation" /\ final   -> "live"
                  [] OTHER                         -> "leave"
  /\ OpenSession => pc = "session" /\ pc' = "execute"
  /\ Execute => pc = "execute" /\ pc' = "record"
  /\ Settling => pc \in {"session", "record"} /\ pc' = "log"
  /\ Finish => pc = "finish" /\ pc' = "log"
  /\ LiveCheck => pc = "live" /\ pc' = IF cmd = "live" THEN "leave" ELSE "merge"
  /\ SaveLiveFindings => pc = "merge" /\ pc' = IF cmd = "live-write" THEN "leave" ELSE "verify"
  /\ VerifyCompletion => pc = "verify" /\ pc' = "summary"
  /\ WriteSummary => pc = "summary" /\ pc' = "leave"
  /\ Stopped => pc' = "idle"
<1>1. /\ StartScaffold => pc = "idle" /\ pc' = "placeholders" /\ cmd' = "scaffold-run"
      /\ StartRun => pc = "idle" /\ pc' = "placeholders" /\ cmd' \in RunCommands
      /\ StartLive => pc = "idle" /\ pc' = "live" /\ cmd' \in {"live", "live-write"}
      /\ RefuseRun => pc = "idle" /\ pc' = "idle" /\ cmd' \in RunCommands
  BY DEF StartScaffold, StartRun, StartLive, RefuseRun, BeginRun, Start
<1>2. /\ WritePlaceholder => pc = "placeholders" /\ pc' = "placeholders"
      /\ TakeStart => /\ pc = "placeholders"
                      /\ pc' = IF cmd = "scaffold-run" THEN "result" ELSE "plan"
      /\ PlanRun => pc = "plan" /\ pc' = "profile"
      /\ WriteRunProfile => pc = "profile" /\ pc' = "log"
      /\ WriteCommandLog => pc = "log" /\ pc' = "timeline"
      /\ WriteCommandTimeline => pc = "timeline" /\ pc' = "result"
  BY DEF WritePlaceholder, TakeStart, PlanRun, WriteRunProfile, WriteCommandLog,
         WriteCommandTimeline
<1>3. UpdateRunResult =>
       /\ pc = "result"
       /\ pc' = CASE cmd \in RunCommands /\ ~final -> IF todo = {} THEN "finish" ELSE "session"
                  [] cmd = "validation" /\ final   -> "live"
                  [] OTHER                         -> "leave"
  BY Zenon DEF UpdateRunResult
<1>4. /\ OpenSession => pc = "session" /\ pc' = "execute"
      /\ Execute => pc = "execute" /\ pc' = "record"
      /\ Settling => pc \in {"session", "record"} /\ pc' = "log"
      /\ Finish => pc = "finish" /\ pc' = "log"
  BY DEF OpenSession, Execute, Settling, FailSession, RecordPass, RecordFail, Settle, Finish
<1>5. /\ LiveCheck => pc = "live" /\ pc' = IF cmd = "live" THEN "leave" ELSE "merge"
      /\ SaveLiveFindings => /\ pc = "merge"
                             /\ pc' = IF cmd = "live-write" THEN "leave" ELSE "verify"
      /\ VerifyCompletion => pc = "verify" /\ pc' = "summary"
      /\ WriteSummary => pc = "summary" /\ pc' = "leave"
      /\ Stopped => pc' = "idle"
  BY DEF LiveCheck, SaveLiveFindings, VerifyCompletion, WriteSummary, Stopped, Crash,
         WriteFails, Return
<1>6. QED
  BY <1>1, <1>2, <1>3, <1>4, <1>5

-----------------------------------------------------------------------------
(* Stages and dates *)

LEMMA RouteStep ==
  ASSUME TypeOK, Route, [Next]_vars
  PROVE  Route'
<1> USE DEF Route, OurRun, Preparing, AtWork, Closing, RunCommands
<1>t. cmd \in Subcommands /\ pc \in Stages /\ final \in BOOLEAN
  BY DEF TypeOK
<1>1. CASE Ending
  BY <1>1 DEF Ending
<1>2. CASE RefuseRun \/ StartScaffold \/ StartRun \/ StartLive
  <2>1. UNCHANGED final
    BY <1>2 DEF RefuseRun, StartScaffold, StartRun, StartLive, BeginRun, memory
  <2>2. ~final
    BY <1>2, StagesOf
  <2>3. QED
    BY <1>2, <2>1, <2>2, StagesOf
<1>3. CASE Finish
  <2>1. final' = TRUE /\ UNCHANGED cmd
    BY <1>3 DEF Finish
  <2>2. QED
    BY <1>3, <1>t, <2>1, StagesOf
<1>4. CASE UpdateRunResult
  <2>1. UNCHANGED <<cmd, final>>
    BY <1>4 DEF UpdateRunResult, memory
  <2>2. CASE cmd \in RunCommands /\ ~final
    BY <1>4, <2>1, <2>2, StagesOf
  <2>3. CASE cmd = "validation" /\ final
    BY <1>4, <2>1, <2>3, StagesOf
  <2>4. CASE ~(cmd \in RunCommands /\ ~final) /\ ~(cmd = "validation" /\ final)
    BY <1>4, <1>t, <2>1, <2>4, StagesOf DEF Subcommands
  <2>5. QED
    BY <2>2, <2>3, <2>4
<1>5. CASE /\ ~Ending /\ ~RefuseRun /\ ~StartScaffold /\ ~StartRun /\ ~StartLive
           /\ ~Finish /\ ~UpdateRunResult
  <2>1. UNCHANGED <<cmd, final>>
    <3>1. UNCHANGED final
      BY <1>5, Writers
    <3>2. UNCHANGED cmd
      BY <1>5, Writers DEF Operator
    <3>3. QED
      BY <3>1, <3>2
  <2>2. CASE UNCHANGED vars
    BY <2>1, <2>2 DEF vars
  <2>3. CASE WritePlaceholder \/ TakeStart \/ PlanRun \/ WriteRunProfile
    BY <1>t, <2>1, <2>3, StagesOf DEF Subcommands
  <2>4. CASE \/ WriteCommandLog \/ WriteCommandTimeline \/ OpenSession \/ Execute \/ Settling
    BY <1>t, <2>1, <2>4, StagesOf DEF Subcommands
  <2>5. CASE LiveCheck \/ SaveLiveFindings
    BY <1>t, <2>1, <2>5, StagesOf DEF Subcommands
  <2>6. CASE VerifyCompletion \/ WriteSummary
    BY <1>t, <2>1, <2>6, StagesOf DEF Subcommands
  <2>7. QED
    BY <1>5, <2>2, <2>3, <2>4, <2>5, <2>6, RestIsOurs
<1>6. QED
  BY <1>1, <1>2, <1>3, <1>4, <1>5

LEMMA BeginsAnew ==
  ASSUME TypeOK, StartScaffold \/ StartRun
  PROVE  /\ run' = run + 1 /\ run' \in Runs
         /\ UNCHANGED <<mem, prof, todo, task, entries, final, found, verdict, reports,
                        payload, dirs, passed>>
         /\ pending' = RequiredArtifacts(man', req'.demo)
BY MaxRunsAssumption DEF TypeOK, StartScaffold, StartRun, BeginRun, Runs

LEMMA RunIsNumber == TypeOK => run \in Nat /\ (\A r \in Runs : r \in Nat)
BY MaxRunsAssumption DEF TypeOK, Runs

(* A file cut short keeps what else is known of it. *)
LEMMA Tears ==
  ASSUME TypeOK, Stopped
  PROVE  /\ log' = log \/ log' = TornLog
         /\ timeline' = timeline \/ timeline' = TornLog
         /\ result' = result \/ (pc \in {"result", "merge"} /\ result' = [result EXCEPT !.form = "torn"])
         /\ profile' = profile \/ (pc = "profile" /\ profile' = [profile EXCEPT !.form = "torn"])
BY DEF Stopped, Crash, WriteFails, TearFile, reports

LEMMA DatedStep ==
  ASSUME TypeOK, TaskInHand, Dated, MemOfRun, [Next]_vars
  PROVE  Dated'
<1>n. run \in Nat /\ \A r \in Runs : r \in Nat
  BY RunIsNumber
<1>t. /\ log \in LogFile /\ timeline \in LogFile /\ profile \in ProfileFile
      /\ result \in RunResult(Runs, Scopes) /\ run \in Runs
  BY DEF TypeOK
<1>d. /\ log.stamp.run \in Nat /\ timeline.stamp.run \in Nat
      /\ result.run \in Nat /\ profile.run \in Nat
  BY <1>n, <1>t DEF LogFile, Stamp, RunResult, ProfileFile
<1>1. run' \in Nat /\ run <= run'
  BY <1>n, BeginsAnew, Writers DEF Runs
<1>2. log'.stamp.run <= run' /\ timeline'.stamp.run <= run'
  <2>1. CASE WritePlaceholder \/ WriteCommandLog \/ WriteCommandTimeline
    <3>1. UNCHANGED run
      BY <2>1 DEF WritePlaceholder, WriteCommandLog, WriteCommandTimeline
    <3>2. log' \in {log, PlaceholderLog, RealLog} /\ timeline' \in {timeline, PlaceholderLog, RealLog}
      BY <2>1 DEF WritePlaceholder, WriteCommandLog, WriteCommandTimeline
    <3>3. PlaceholderLog.stamp.run = run /\ RealLog.stamp.run = run
      BY DEF PlaceholderLog, RealLog, At
    <3>4. QED
      BY <1>n, <3>1, <3>2, <3>3 DEF Dated
  <2>2. CASE Stopped
    <3>1. TornLog.stamp.run = run
      BY DEF TornLog, At
    <3>2. QED
      BY <1>n, <1>d, <1>1, <2>2, <3>1, Tears DEF Dated
  <2>3. CASE UNCHANGED <<log, timeline>>
    BY <1>n, <1>d, <1>1, <2>3 DEF Dated
  <2>4. CASE ~WritePlaceholder /\ ~WriteCommandLog /\ ~WriteCommandTimeline /\ ~Stopped
    BY <2>3, <2>4, Writers
  <2>5. QED
    BY <2>1, <2>2, <2>4
<1>3. result'.run <= run' /\ profile'.run <= run'
  <2>1. CASE UpdateRunResult
    <3>1. result' = mem /\ pc \in AtWork /\ UNCHANGED <<run, profile>>
      BY <2>1 DEF UpdateRunResult, AtWork
    <3>2. QED
      BY <1>n, <3>1 DEF Dated, MemOfRun
  <2>2. CASE SaveLiveFindings
    BY <1>t, <2>2 DEF SaveLiveFindings, RunResult, Dated
  <2>3. CASE WriteRunProfile
    BY <1>n, <2>3 DEF WriteRunProfile, Dated
  <2>4. CASE Stopped
    <3>1. result'.run = result.run /\ profile'.run = profile.run
      BY <1>t, <2>4, Tears DEF RunResult, ProfileFile
    <3>2. QED
      BY <1>n, <1>d, <1>1, <3>1 DEF Dated
  <2>5. CASE UNCHANGED <<result, profile>>
    BY <1>n, <1>d, <1>1, <2>5 DEF Dated
  <2>6. QED
    BY <2>1, <2>2, <2>3, <2>4, <2>5, Writers
<1>4. \A r \in Runs, t \in Tasks : <<r, t>> \in passed' \cup dirs' => r <= run'
  <2>1. passed' \cup dirs' \subseteq passed \cup dirs \cup {<<run, t>> : t \in Tasks}
    <3>1. CASE OpenSession \/ FailSession
      BY <3>1 DEF OpenSession, FailSession, TypeOK
    <3>3. CASE RecordPass \/ RecordFail
      BY <3>3 DEF RecordPass, RecordFail, CloseSession, TaskInHand
    <3>2. CASE ~OpenSession /\ ~Settling
      BY <3>2, Writers DEF Settling
    <3>4. QED
      BY <3>1, <3>2, <3>3 DEF Settling
  <2>2. QED
    BY <1>n, <1>1, <2>1 DEF Dated
<1>5. QED
  BY <1>2, <1>3, <1>4 DEF Dated

-----------------------------------------------------------------------------
(* The beginning of a run *)

LEMMA ScaffoldRunIsNew ==
  ASSUME TypeOK, TakeStart
  PROVE  /\ mem'.form = "real" /\ mem'.run = run /\ mem'.scope = RunScope(man)
         /\ mem'.demo = req.demo /\ mem'.artifacts = RequiredArtifacts(man, req.demo)
         /\ \A t \in Tasks : mem'.status[t] \notin Settled
         /\ mem'.outcome = "blocked" /\ mem'.findings = {}
<1>1. PICK s \in BOOLEAN : mem' = ScaffoldRun(man, req.demo, run, s)
  BY DEF TakeStart
<1>2. QED
  BY <1>1 DEF ScaffoldRun, Settled

LEMMA UntouchedStep ==
  ASSUME TypeOK, Route, Dated, Untouched, [Next]_vars
  PROVE  Untouched'
<1>n. run \in Nat /\ \A r \in Runs : r \in Nat
  BY RunIsNumber
<1>t. /\ log \in LogFile /\ timeline \in LogFile /\ profile \in ProfileFile
      /\ result \in RunResult(Runs, Scopes) /\ run \in Runs /\ cmd \in Subcommands
  BY DEF TypeOK
<1>d. /\ log.stamp.run \in Nat /\ timeline.stamp.run \in Nat
      /\ result.run \in Nat /\ profile.run \in Nat
  BY <1>n, <1>t DEF LogFile, Stamp, RunResult, ProfileFile
<1> USE DEF Untouched, Preparing
<1>1. CASE Ending
  BY <1>1 DEF Ending
<1>2. CASE RefuseRun
  BY <1>2, StagesOf DEF RefuseRun, memory
<1>3. CASE StartLive
  BY <1>3, StagesOf
<1>4. CASE StartScaffold \/ StartRun
  <2>1. run' = run + 1 /\ run' \in Runs
    BY <1>4, BeginsAnew
  <2>2. UNCHANGED <<log, timeline, result, profile, entries, passed, dirs>>
    BY <1>4, BeginsAnew DEF reports
  <2>3. \A t \in Tasks : <<run', t>> \notin passed \cup dirs
    BY <1>n, <2>1 DEF Dated
  <2>4. pc = "idle" /\ pc' = "placeholders"
    BY <1>4, StagesOf
  <2>5. result.run < run' /\ profile.run < run'
        /\ log.stamp.run # run' /\ timeline.stamp.run # run'
    BY <1>n, <1>d, <2>1 DEF Dated
  <2>6. QED
    BY <2>2, <2>3, <2>4, <2>5
<1>5. CASE WritePlaceholder
  <2>1. UNCHANGED <<pc, run, result, profile, entries, passed, dirs>>
    BY <1>5 DEF WritePlaceholder
  <2>2. log' \in {log, PlaceholderLog} /\ timeline' \in {timeline, PlaceholderLog}
    BY <1>5 DEF WritePlaceholder
  <2>3. PlaceholderLog.form # "real"
    BY DEF PlaceholderLog
  <2>4. QED
    BY <1>5, <2>1, <2>2, <2>3, StagesOf
<1>6. CASE TakeStart
  <2>1. UNCHANGED <<cmd, run, log, timeline, result, profile, entries, passed, dirs>>
    BY <1>6 DEF TakeStart, reports
  <2>2. QED
    BY <1>6, <2>1, StagesOf, ScaffoldRunIsNew
<1>7. CASE PlanRun
  <2>1. UNCHANGED <<mem, run, log, timeline, result, profile, entries, passed, dirs>>
    BY <1>7 DEF PlanRun, reports
  <2>2. QED
    BY <1>7, <2>1, StagesOf
<1>8. CASE UNCHANGED vars
  BY <1>8 DEF vars, memory, reports
<1>9. CASE \/ WriteRunProfile \/ WriteCommandLog \/ WriteCommandTimeline \/ UpdateRunResult
           \/ OpenSession \/ Execute \/ Settling \/ Finish
           \/ LiveCheck \/ SaveLiveFindings \/ VerifyCompletion \/ WriteSummary
  <2>1. UNCHANGED cmd
    BY <1>9 DEF WriteRunProfile, WriteCommandLog, WriteCommandTimeline, UpdateRunResult,
       OpenSession, Execute, Settling, FailSession, RecordPass, RecordFail, Finish, LiveCheck,
       SaveLiveFindings, VerifyCompletion, WriteSummary
  <2>2. pc' \notin Preparing \cup {"idle"}
    BY <1>9, StagesOf
  <2>3. pc' = "result" => pc = "timeline"
    BY <1>9, StagesOf
  <2>4. cmd = "scaffold-run" => pc # "timeline"
    BY DEF Route
  <2>5. QED
    BY <2>1, <2>2, <2>3, <2>4
<1>10. QED
  BY <1>1, <1>2, <1>3, <1>4, <1>5, <1>6, <1>7, <1>8, <1>9, RestIsOurs

(* The steps within a run. *)
Inside == \/ UNCHANGED vars
          \/ WriteCommandLog \/ WriteCommandTimeline \/ UpdateRunResult
          \/ OpenSession \/ Execute \/ Settling \/ Finish
          \/ LiveCheck \/ SaveLiveFindings \/ VerifyCompletion \/ WriteSummary

LEMMA Within ==
  ASSUME TypeOK, Route, [Next]_vars, OurRun'
  PROVE  \/ WriteRunProfile /\ cmd \in RunCommands /\ UNCHANGED <<cmd, run, man, req>>
         \/ Inside /\ OurRun /\ UNCHANGED <<cmd, run, man, req>>
<1> USE DEF OurRun, AtWork, Closing
<1>0. ~Ending /\ ~RefuseRun /\ ~StartScaffold /\ ~StartRun
  BY StagesOf DEF Ending
<1>1. ~StartLive
  BY StagesOf DEF RunCommands
<1>2. UNCHANGED <<cmd, run, man, req>>
  BY <1>0, <1>1, Writers DEF Operator
<1>3. ~WritePlaceholder /\ ~PlanRun
  BY StagesOf
<1>4. ~TakeStart
  BY <1>2, StagesOf DEF RunCommands
<1>5. CASE WriteRunProfile
  BY <1>2, <1>5
<1>6. CASE UNCHANGED vars
  BY <1>2, <1>6 DEF vars, Inside
<1>7. CASE \/ WriteCommandLog \/ WriteCommandTimeline \/ UpdateRunResult
           \/ OpenSession \/ Execute \/ Settling \/ Finish
           \/ LiveCheck \/ SaveLiveFindings \/ VerifyCompletion \/ WriteSummary
  <2>1. pc \in AtWork \cup Closing
    BY <1>7, StagesOf
  <2>2. QED
    BY <1>2, <1>7, <2>1 DEF Inside
<1>8. QED
  BY <1>0, <1>1, <1>3, <1>4, <1>5, <1>6, <1>7, RestIsOurs

(* A check is settled: its session cannot be opened, it passed, it failed. *)
LEMMA SettlesOne ==
  ASSUME Settling
  PROVE  \E t, status, hasPayload, f :
           /\ Settle(t, status, hasPayload, f)
           /\ \/ /\ pc = "session" /\ t \in todo /\ status = "fail" /\ hasPayload = FALSE
                 /\ passed' = passed /\ dirs' \in {dirs, dirs \cup {<<run, t>>}}
              \/ /\ pc = "record" /\ t = task /\ status = "pass"
                 /\ passed' = passed \cup {<<run, t>>} /\ dirs' = dirs \ {<<run, t>>}
              \/ /\ pc = "record" /\ t = task /\ status = "fail"
                 /\ passed' = passed /\ dirs' = dirs \ {<<run, t>>}
<1>1. CASE FailSession
  <2>1. PICK t \in todo : /\ pc = "session" /\ Settle(t, "fail", FALSE, {})
                         /\ dirs' \in {dirs, dirs \cup {<<run, t>>}} /\ passed' = passed
    BY <1>1 DEF FailSession
  <2>2. QED
    BY <2>1
<1>2. CASE RecordPass
  <2>1. PICK f : Settle(task, "pass", entries[task].payload, f)
    BY <1>2 DEF RecordPass
  <2>2. QED
    BY <1>2, <2>1 DEF RecordPass, CloseSession
<1>3. CASE RecordFail
  <2>1. Settle(task, "fail", entries[task].payload, {})
    BY <1>3 DEF RecordFail
  <2>2. QED
    BY <1>3, <2>1 DEF RecordFail, CloseSession
<1>4. QED
  BY <1>1, <1>2, <1>3 DEF Settling

LEMMA SettleChanges ==
  ASSUME TypeOK, NEW t \in Tasks, NEW status, NEW hasPayload, NEW f,
         Settle(t, status, hasPayload, f)
  PROVE  /\ entries'[t] = [status |-> status, payload |-> hasPayload]
         /\ \A u \in Tasks \ {t} : entries'[u] = entries[u]
         /\ mem'.status[t] = status
         /\ \A u \in Tasks \ {t} : mem'.status[u] = mem.status[u]
         /\ mem'.findings = mem.findings \cup f
         /\ todo' = todo \ {t}
         /\ mem'.form = mem.form /\ mem'.run = mem.run /\ mem'.scope = mem.scope
         /\ mem'.demo = mem.demo /\ mem'.artifacts = mem.artifacts
         /\ mem'.outcome = mem.outcome /\ mem'.profiled = mem.profiled
<1>1. mem \in RunResult(Runs, Scopes) /\ entries \in [Tasks -> Entry]
  BY DEF TypeOK
<1>2. /\ entries' = [entries EXCEPT ![t] = [status |-> status, payload |-> hasPayload]]
      /\ mem' = [mem EXCEPT !.status[t] = status, !.findings = @ \cup f]
      /\ todo' = todo \ {t}
  BY DEF Settle
<1>3. mem'.status = [mem.status EXCEPT ![t] = status] /\ mem.status \in [Tasks -> TaskStatus]
  BY <1>1, <1>2 DEF RunResult
<1>4. QED
  BY <1>1, <1>2, <1>3 DEF RunResult

LEMMA MemOfRunStep ==
  ASSUME TypeOK, TaskInHand, Route, MemOfRun, [Next]_vars
  PROVE  MemOfRun'
<1> DEFINE Region == pc \in {"plan", "profile"} \cup AtWork \/ OurRun
<1>t. mem \in RunResult(Runs, Scopes)
  BY DEF TypeOK
<1> USE DEF MemOfRun, AtWork
<1>1. SUFFICES ASSUME Region' PROVE MemOfRun'
  OBVIOUS
<1>2. CASE TakeStart
  <2>1. UNCHANGED <<run, man, req>>
    BY <1>2 DEF TakeStart
  <2>2. QED
    BY <1>2, <2>1, ScaffoldRunIsNew
<1>3. CASE ~TakeStart
  <2>1. ~Ending /\ ~RefuseRun /\ ~StartScaffold /\ ~StartRun
    BY <1>1, StagesOf DEF Ending, OurRun, Closing
  <2>2. ~StartLive
    BY <1>1, StagesOf DEF OurRun, RunCommands
  <2>3. UNCHANGED <<cmd, run, man, req>>
    BY <2>1, <2>2, Writers DEF Operator
  <2>4. ~WritePlaceholder
    BY <1>1, StagesOf DEF OurRun, Closing
  <2>5. Region
    <3>1. CASE PlanRun \/ WriteRunProfile
      BY <3>1, StagesOf
    <3>2. CASE OurRun'
      BY <3>2, <1>3, Within, StagesOf
    <3>3. CASE UNCHANGED vars
      BY <1>1, <3>3 DEF vars, OurRun
    <3>4. CASE \/ WriteCommandLog \/ WriteCommandTimeline \/ UpdateRunResult
               \/ OpenSession \/ Execute \/ Settling \/ Finish
      BY <3>4, StagesOf
    <3>5. CASE LiveCheck \/ SaveLiveFindings \/ VerifyCompletion \/ WriteSummary
      BY <1>1, <3>2, <3>5, StagesOf
    <3>6. QED
      BY <1>3, <2>1, <2>2, <2>4, <3>1, <3>2, <3>3, <3>4, <3>5, RestIsOurs
  <2>6. /\ mem'.form = mem.form /\ mem'.run = mem.run /\ mem'.scope = mem.scope
        /\ mem'.demo = mem.demo /\ mem'.artifacts = mem.artifacts
    <3>1. CASE WriteRunProfile \/ Finish
      BY <1>t, <3>1 DEF WriteRunProfile, Finish, RunResult
    <3>2. CASE Settling
      <4>1. todo \subseteq Tasks
        BY DEF TypeOK
      <4>2. PICK t, status, hasPayload, f : t \in Tasks /\ Settle(t, status, hasPayload, f)
        BY <3>2, <4>1, SettlesOne DEF TaskInHand
      <4>3. QED
        BY <4>2, SettleChanges
    <3>3. CASE UNCHANGED mem
      BY <3>3
    <3>4. QED
      BY <1>3, <2>1, <3>1, <3>2, <3>3, Writers
  <2>7. QED
    BY <2>3, <2>5, <2>6
<1>4. QED
  BY <1>2, <1>3

LEMMA ProfileOfRunStep ==
  ASSUME TypeOK, TaskInHand, Route, ProfileOfRun, [Next]_vars
  PROVE  ProfileOfRun'
<1>t. mem \in RunResult(Runs, Scopes)
  BY DEF TypeOK
<1> USE DEF ProfileOfRun
<1>1. CASE pc' = "profile"
  <2>1. ~OurRun'
    BY <1>1 DEF OurRun, AtWork, Closing
  <2>2. CASE PlanRun
    BY <2>1, <2>2 DEF PlanRun, BuildRunProfile
  <2>3. CASE UNCHANGED vars
    BY <1>1, <2>1, <2>3 DEF vars, memory
  <2>4. QED
    BY <1>1, <2>2, <2>3, StagesOf, RestIsOurs DEF Ending
<1>2. CASE OurRun'
  <2>0. pc' # "profile" /\ pc' # "idle"
    BY <1>2 DEF OurRun, AtWork, Closing
  <2>1. CASE WriteRunProfile
    <3>1. /\ prof' = prof /\ run' = run /\ man' = man /\ req' = req
          /\ profile' = [form |-> "real", run |-> run, profile |-> prof.profile,
                         selected |-> prof.selected, skipped |-> prof.skipped]
          /\ mem' = [mem EXCEPT !.profiled = TRUE]
      BY <2>1 DEF WriteRunProfile
    <3>2. mem'.profiled
      BY <1>t, <3>1 DEF RunResult
    <3>3. prof = BuildRunProfile(man, req)
      BY <2>1, StagesOf
    <3>4. QED
      BY <2>0, <3>1, <3>2, <3>3
  <2>2. CASE ~WriteRunProfile
    <3>1. Inside /\ OurRun /\ UNCHANGED <<cmd, run, man, req>>
      BY <1>2, <2>2, Within
    <3>2. ~Ending /\ ~PlanRun /\ ~Stopped
      BY <2>0, <1>2, StagesOf DEF Ending, OurRun, AtWork, Closing
    <3>3. UNCHANGED <<prof, profile>>
      BY <2>2, <3>2, Writers
    <3>4. mem'.profiled = mem.profiled
      <4>1. CASE Settling
        <5>1. todo \subseteq Tasks
          BY DEF TypeOK
        <5>2. PICK t, status, hasPayload, f : t \in Tasks /\ Settle(t, status, hasPayload, f)
          BY <4>1, <5>1, SettlesOne DEF TaskInHand
        <5>3. QED
          BY <5>2, SettleChanges
      <4>2. CASE Finish
        BY <1>t, <4>2 DEF Finish, RunResult
      <4>3. CASE UNCHANGED mem
        BY <4>3
      <4>4. ~TakeStart
        BY <3>1, StagesOf DEF OurRun, AtWork, Closing
      <4>5. QED
        BY <2>2, <3>2, <4>1, <4>2, <4>3, <4>4, Writers
    <3>5. QED
      BY <2>0, <3>1, <3>3, <3>4
  <2>3. QED
    BY <2>1, <2>2
<1>3. CASE pc' # "profile" /\ ~OurRun'
  BY <1>3
<1>4. QED
  BY <1>1, <1>2, <1>3

-----------------------------------------------------------------------------
(* The tasks *)

(* The steps that only report.                                             *)
Reporting == \/ UNCHANGED vars
             \/ WriteCommandLog \/ WriteCommandTimeline \/ UpdateRunResult
             \/ LiveCheck \/ SaveLiveFindings \/ VerifyCompletion \/ WriteSummary

LEMMA InsideIs == Inside => Reporting \/ OpenSession \/ Execute \/ Settling \/ Finish
BY DEF Inside, Reporting

LEMMA ReportingKeeps ==
  Reporting => UNCHANGED <<cmd, run, man, req, mem, prof, todo, task, entries, final, demo,
                           profile, payload, dirs, passed>>
<1>1. UNCHANGED vars => UNCHANGED <<cmd, run, man, req, mem, prof, todo, task, entries, final,
                                    demo, profile, payload, dirs, passed>>
  BY DEF vars, memory, reports
<1>2. WriteCommandLog \/ WriteCommandTimeline \/ UpdateRunResult =>
        UNCHANGED <<cmd, run, man, req, mem, prof, todo, task, entries, final, demo, profile,
                    payload, dirs, passed>>
  BY DEF WriteCommandLog, WriteCommandTimeline, UpdateRunResult, memory
<1>3. LiveCheck \/ SaveLiveFindings \/ VerifyCompletion \/ WriteSummary =>
        UNCHANGED <<cmd, run, man, req, mem, prof, todo, task, entries, final, demo, profile,
                    payload, dirs, passed>>
  BY DEF LiveCheck, SaveLiveFindings, VerifyCompletion, WriteSummary, memory, reports
<1>4. QED
  BY <1>1, <1>2, <1>3 DEF Reporting

(* What is settled is a check the run still had to do.                     *)
LEMMA SettlesAtHand ==
  ASSUME TypeOK, Route, InOrder, OurRun, Settling
  PROVE  /\ ~final /\ pc' = "log" /\ pc \in {"session", "record"}
         /\ \E t, status, hasPayload, f :
              /\ t \in Tasks /\ status \in Settled
              /\ Settle(t, status, hasPayload, f) /\ t \in todo /\ t \in prof.selected
              /\ \A u \in Tasks \ Done : u # t => entries[u] = NoEntries[u]
              /\ \/ /\ pc = "session" /\ status = "fail" /\ hasPayload = FALSE
                    /\ passed' = passed /\ dirs' \in {dirs, dirs \cup {<<run, t>>}}
                 \/ /\ pc = "record" /\ t = task /\ status = "pass"
                    /\ passed' = passed \cup {<<run, t>>} /\ dirs' = dirs \ {<<run, t>>}
                 \/ /\ pc = "record" /\ t = task /\ status = "fail"
                    /\ passed' = passed /\ dirs' = dirs \ {<<run, t>>}
<1>1. pc \in {"session", "record"} /\ pc' = "log" /\ ~final
  BY StagesOf DEF Route, AtWork
<1>2. PICK t, status, hasPayload, f :
        /\ Settle(t, status, hasPayload, f)
        /\ \/ /\ pc = "session" /\ t \in todo /\ status = "fail" /\ hasPayload = FALSE
              /\ passed' = passed /\ dirs' \in {dirs, dirs \cup {<<run, t>>}}
           \/ /\ pc = "record" /\ t = task /\ status = "pass"
              /\ passed' = passed \cup {<<run, t>>} /\ dirs' = dirs \ {<<run, t>>}
           \/ /\ pc = "record" /\ t = task /\ status = "fail"
              /\ passed' = passed /\ dirs' = dirs \ {<<run, t>>}
  BY SettlesOne
<1>3. t \in todo /\ status \in Settled
  BY <1>2 DEF InOrder, Settled
<1>4. todo \subseteq prof.selected /\ todo \subseteq Tasks
  BY DEF InOrder, TypeOK
<1>5. \A u \in Tasks \ Done : u # t => entries[u] = NoEntries[u]
  BY <1>2 DEF InOrder
<1>6. QED
  BY <1>1, <1>2, <1>3, <1>4, <1>5

LEMMA InOrderStep ==
  ASSUME TypeOK, TaskInHand, Route, Untouched, ProfileOfRun, InOrder, [Next]_vars
  PROVE  InOrder'
<1>t. /\ todo \subseteq Tasks /\ prof.selected \subseteq Tasks /\ entries \in [Tasks -> Entry]
      /\ mem \in RunResult(Runs, Scopes) /\ final \in BOOLEAN
  BY DEF TypeOK, RunProfileArtifact
<1>1. SUFFICES ASSUME OurRun' PROVE InOrder'
  BY DEF InOrder
<1>2. CASE WriteRunProfile
  <2>1. /\ mem' = [mem EXCEPT !.profiled = TRUE] /\ pc = "profile" /\ pc' = "log"
        /\ UNCHANGED <<todo, prof, entries, task, final>>
    BY <1>2 DEF WriteRunProfile
  <2>2. mem'.status = mem.status /\ mem'.outcome = mem.outcome
    BY <1>t, <2>1 DEF RunResult
  <2>3. Done' = {} /\ todo = prof.selected
    BY <2>1 DEF ProfileOfRun, Done
  <2>4. /\ \A t \in Tasks : mem.status[t] \notin Settled
        /\ mem.outcome = "blocked" /\ entries = NoEntries /\ ~final
    BY <2>1 DEF Untouched, Preparing, Route
  <2>5. QED
    BY <2>1, <2>2, <2>3, <2>4 DEF InOrder
<1>3. CASE ~WriteRunProfile
  <2>0. Inside /\ OurRun /\ UNCHANGED prof
    <3>1. Inside /\ OurRun
      BY <1>1, <1>3, Within
    <3>2. ~PlanRun /\ ~Ending
      BY <1>1, <3>1, StagesOf DEF OurRun, AtWork, Closing, Ending
    <3>3. QED
      BY <3>1, <3>2, Writers
  <2>1. CASE Reporting
    <3>1. UNCHANGED <<mem, todo, prof, entries, task, final>>
      BY <2>1, ReportingKeeps
    <3>2. Done' = Done
      BY <3>1 DEF Done
    <3>3. pc' \in {"execute", "record"} => pc' = pc
      BY <2>1, StagesOf DEF Reporting, vars
    <3>4. pc' = "finish" => pc = "finish" \/ todo = {}
      BY <2>1, StagesOf DEF Reporting, vars
    <3>5. pc = "record" => pc' = "record"
      BY <2>1, StagesOf DEF Reporting, vars
    <3>6. QED
      BY <2>0, <3>1, <3>2, <3>3, <3>4, <3>5 DEF InOrder
  <2>2. CASE OpenSession
    <3>1. task' \in todo /\ UNCHANGED <<mem, todo, prof, entries, final>> /\ pc' = "execute"
          /\ pc = "session"
      BY <2>2 DEF OpenSession
    <3>2. Done' = Done
      BY <3>1 DEF Done
    <3>3. QED
      BY <2>0, <3>1, <3>2 DEF InOrder
  <2>3. CASE Execute
    <3>1. pc = "execute" /\ pc' = "record" /\ UNCHANGED <<mem, todo, prof, task, final>>
      BY <2>3 DEF Execute
    <3>2. ~final
      BY <2>0, <3>1 DEF Route, AtWork
    <3>3. task \in Tasks /\ task \in todo /\ Done' = Done
      BY <2>0, <3>1 DEF InOrder, TaskInHand, Done
    <3>4. \A u \in Tasks : u # task => entries'[u] = entries[u]
      BY <1>t, <2>3 DEF Execute
    <3>5. task \notin Done
      BY <3>3 DEF Done
    <3>6. mem'.outcome = "blocked" /\ ~final'
      BY <2>0, <3>1, <3>2 DEF InOrder
    <3>7. \A u \in Tasks \ Done' : /\ mem'.status[u] \notin Settled
                                   /\ entries'[u] = NoEntries'[u] \/ u = task'
      BY <2>0, <3>1, <3>3, <3>4 DEF InOrder, NoEntries
    <3>8. \A u \in Done' : entries'[u].status \in Settled /\ mem'.status[u] = entries'[u].status
      BY <1>t, <2>0, <3>1, <3>3, <3>4, <3>5 DEF InOrder, Done
    <3>9. QED
      BY <2>0, <3>1, <3>3, <3>6, <3>7, <3>8 DEF InOrder
  <2>4. CASE Settling
    <3>1. ~final /\ pc' = "log" /\ UNCHANGED final
      BY <2>0, <2>4, SettlesAtHand, Writers, StagesOf DEF Ending
    <3>2. PICK t, status, hasPayload, f :
            /\ t \in Tasks /\ status \in Settled
            /\ Settle(t, status, hasPayload, f) /\ t \in todo /\ t \in prof.selected
            /\ \A u \in Tasks \ Done : u # t => entries[u] = NoEntries[u]
            /\ \/ /\ pc = "session" /\ status = "fail" /\ hasPayload = FALSE
                  /\ passed' = passed /\ dirs' \in {dirs, dirs \cup {<<run, t>>}}
               \/ /\ pc = "record" /\ t = task /\ status = "pass"
                  /\ passed' = passed \cup {<<run, t>>} /\ dirs' = dirs \ {<<run, t>>}
               \/ /\ pc = "record" /\ t = task /\ status = "fail"
                  /\ passed' = passed /\ dirs' = dirs \ {<<run, t>>}
      BY <2>0, <2>4, SettlesAtHand
    <3>3. /\ entries'[t] = [status |-> status, payload |-> hasPayload]
          /\ \A u \in Tasks \ {t} : entries'[u] = entries[u]
          /\ mem'.status[t] = status
          /\ \A u \in Tasks \ {t} : mem'.status[u] = mem.status[u]
          /\ todo' = todo \ {t} /\ mem'.outcome = mem.outcome
      BY <3>2, SettleChanges
    <3>4. Done' = Done \cup {t}
      BY <2>0, <3>2, <3>3 DEF Done
    <3>5. \A u \in Done' : entries'[u].status \in Settled /\ mem'.status[u] = entries'[u].status
      BY <1>t, <2>0, <3>2, <3>3, <3>4 DEF InOrder, Done
    <3>6. \A u \in Tasks \ Done' : mem'.status[u] \notin Settled /\ entries'[u] = NoEntries'[u]
      BY <2>0, <3>2, <3>3, <3>4 DEF InOrder, NoEntries
    <3>7. QED
      BY <2>0, <3>1, <3>3, <3>5, <3>6 DEF InOrder
  <2>5. CASE Finish
    <3>1. /\ mem' = [mem EXCEPT !.outcome = FinalOutcome(entries, mem.findings)]
          /\ final' = TRUE /\ pc' = "log" /\ pc = "finish"
          /\ UNCHANGED <<todo, prof, entries, task>>
      BY <2>5 DEF Finish
    <3>2. /\ mem'.status = mem.status /\ mem'.findings = mem.findings
          /\ mem'.outcome = FinalOutcome(entries, mem.findings)
      BY <1>t, <3>1 DEF RunResult
    <3>3. Done' = Done
      BY <3>1 DEF Done
    <3>4. QED
      BY <2>0, <3>1, <3>2, <3>3 DEF InOrder
  <2>6. QED
    BY <2>0, <2>1, <2>2, <2>3, <2>4, <2>5, InsideIs
<1>4. QED
  BY <1>2, <1>3

(* A step that works on the tasks leaves the reports alone and keeps what  *)
(* was settled.                                                            *)
LEMMA WorkGoesOn ==
  ASSUME TypeOK, TaskInHand, Route, InOrder, OurRun,
         OpenSession \/ Execute \/ Settling \/ Finish
  PROVE  /\ UNCHANGED <<run, man, req, cmd, prof, log, timeline, demo, result, profile>>
         /\ todo' \subseteq todo /\ Done \subseteq Done'
         /\ \A t \in Done : entries'[t] = entries[t] /\ mem'.status[t] = mem.status[t]
         /\ mem.findings \subseteq mem'.findings
         /\ mem'.profiled = mem.profiled /\ mem'.run = mem.run /\ mem'.form = mem.form
         /\ pc' \in {"execute", "record", "log"}
<1>t. /\ todo \subseteq Tasks /\ prof.selected \subseteq Tasks /\ entries \in [Tasks -> Entry]
      /\ mem \in RunResult(Runs, Scopes)
  BY DEF TypeOK, RunProfileArtifact
<1>1. CASE OpenSession
  BY <1>1 DEF OpenSession, Done, reports
<1>2. CASE Execute
  <2>1. /\ pc' = "record"
        /\ UNCHANGED <<run, man, req, cmd, prof, mem, todo, log, timeline, demo, result, profile>>
    BY <1>2 DEF Execute, reports
  <2>2. task \in Tasks /\ task \notin Done
    BY <1>2, StagesOf DEF InOrder, TaskInHand, Done
  <2>3. \A u \in Tasks : u # task => entries'[u] = entries[u]
    BY <1>t, <1>2 DEF Execute
  <2>4. QED
    BY <1>t, <2>1, <2>2, <2>3 DEF Done
<1>3. CASE Settling
  <2>1. /\ UNCHANGED <<run, man, req, cmd, prof, log, timeline, demo, result, profile>>
        /\ pc' = "log"
    BY <1>3 DEF Settling, FailSession, RecordPass, RecordFail, Settle, reports
  <2>2. PICK t, status, hasPayload, f :
          t \in Tasks /\ status \in Settled /\ Settle(t, status, hasPayload, f) /\ t \in todo
    BY <1>3, SettlesAtHand
  <2>3. /\ \A u \in Tasks \ {t} : entries'[u] = entries[u] /\ mem'.status[u] = mem.status[u]
        /\ mem'.findings = mem.findings \cup f
        /\ mem'.profiled = mem.profiled /\ mem'.run = mem.run /\ mem'.form = mem.form
        /\ todo' = todo \ {t}
    BY <2>2, SettleChanges
  <2>4. QED
    BY <1>t, <2>1, <2>2, <2>3 DEF Done
<1>4. CASE Finish
  <2>1. /\ mem' = [mem EXCEPT !.outcome = FinalOutcome(entries, mem.findings)] /\ pc' = "log"
        /\ UNCHANGED <<run, man, req, cmd, prof, todo, entries, log, timeline, demo, result,
                       profile>>
    BY <1>4 DEF Finish, reports
  <2>2. QED
    BY <1>t, <2>1 DEF Done, RunResult
<1>5. QED
  BY <1>1, <1>2, <1>3, <1>4

-----------------------------------------------------------------------------
(* The reports during the run *)

LEMMA OnDiskStep ==
  ASSUME TypeOK, TaskInHand, Route, Untouched, MemOfRun, InOrder, OnDisk, [Next]_vars
  PROVE  OnDisk'
<1>t. /\ todo \subseteq Tasks /\ prof.selected \subseteq Tasks /\ entries \in [Tasks -> Entry]
      /\ mem \in RunResult(Runs, Scopes) /\ final \in BOOLEAN /\ run \in Nat
  BY RunIsNumber DEF TypeOK, RunProfileArtifact
<1>1. SUFFICES ASSUME OurRun', pc' \in AtWork' PROVE OnDisk'
  BY DEF OnDisk
<1>2. CASE WriteRunProfile
  <2>1. UNCHANGED <<run, log, timeline, result>> /\ pc = "profile" /\ pc' = "log"
    BY <1>2 DEF WriteRunProfile
  <2>2. /\ result.run < run
        /\ log.stamp.run = run => log.form # "real"
        /\ timeline.stamp.run = run => timeline.form # "real"
    BY <2>1 DEF Untouched, Preparing
  <2>3. QED
    BY <1>t, <2>1, <2>2 DEF OnDisk
<1>3. CASE ~WriteRunProfile
  <2>0. Inside /\ OurRun
    BY <1>1, <1>3, Within
  <2>1. CASE OpenSession \/ Execute \/ Settling \/ Finish
    <3>1. /\ UNCHANGED <<run, log, timeline, result>>
          /\ Done \subseteq Done'
          /\ \A t \in Done : entries'[t] = entries[t] /\ mem'.status[t] = mem.status[t]
          /\ mem.findings \subseteq mem'.findings
          /\ pc' \in {"execute", "record", "log"}
      BY <2>0, <2>1, WorkGoesOn
    <3>2. pc \in AtWork
      BY <2>1, StagesOf DEF AtWork
    <3>3. QED
      BY <2>0, <3>1, <3>2 DEF OnDisk, Behind
  <2>2. CASE Reporting
    <3>1. UNCHANGED <<run, mem, todo, prof, entries, task, final>>
      BY <2>2, ReportingKeeps
    <3>2. Done' = Done /\ RealLog' = RealLog
      BY <3>1 DEF Done, RealLog, At
    <3>3. pc \notin {"execute", "record"} => Behind(entries)
      BY <2>0 DEF Behind, InOrder, NoEntries
    <3>4. CASE WriteCommandLog
      <4>1. log' = RealLog /\ pc = "log" /\ pc' = "timeline" /\ UNCHANGED <<timeline, result>>
        BY <3>4 DEF WriteCommandLog
      <4>2. Behind(entries) /\ RealLog.entries = entries
        BY <3>3, <4>1 DEF RealLog
      <4>3. QED
        BY <2>0, <3>1, <3>2, <4>1, <4>2 DEF OnDisk, Behind, AtWork
    <3>5. CASE WriteCommandTimeline
      <4>1. timeline' = RealLog /\ pc = "timeline" /\ pc' = "result" /\ UNCHANGED <<log, result>>
        BY <3>5 DEF WriteCommandTimeline
      <4>2. Behind(entries) /\ RealLog.entries = entries
        BY <3>3, <4>1 DEF RealLog
      <4>3. QED
        BY <2>0, <3>1, <3>2, <4>1, <4>2 DEF OnDisk, Behind, AtWork
    <3>6. CASE UpdateRunResult
      <4>1. result' = mem /\ pc = "result" /\ UNCHANGED <<log, timeline>>
        BY <3>6 DEF UpdateRunResult
      <4>2. ~final /\ pc' \in {"finish", "session"}
        <5>1. cmd \in RunCommands
          BY <2>0 DEF OurRun
        <5>2. pc' \notin {"live", "leave"}
          BY <1>1 DEF AtWork
        <5>3. QED
          BY <3>6, <5>1, <5>2, StagesOf
      <4>3. /\ mem.outcome = "blocked"
            /\ \A t \in Tasks : mem.status[t] \in Settled => t \in Done
        BY <2>0, <4>2 DEF InOrder
      <4>4. QED
        BY <2>0, <3>1, <3>2, <4>1, <4>2, <4>3 DEF OnDisk, Behind, AtWork
    <3>7. CASE LiveCheck \/ SaveLiveFindings \/ VerifyCompletion \/ WriteSummary
      BY <1>1, <3>7, StagesOf DEF AtWork
    <3>8. CASE UNCHANGED vars
      <4>1. UNCHANGED <<pc, log, timeline, result>>
        BY <3>8 DEF vars, reports
      <4>2. QED
        BY <1>1, <2>0, <3>1, <3>2, <4>1 DEF OnDisk, Behind
    <3>9. QED
      BY <2>2, <3>4, <3>5, <3>6, <3>7, <3>8 DEF Reporting
  <2>3. QED
    BY <2>0, <2>1, <2>2, InsideIs
<1>4. QED
  BY <1>2, <1>3

LEMMA ReportedStep ==
  ASSUME TypeOK, TaskInHand, Route, OnDisk, Reported, [Next]_vars
  PROVE  Reported'
<1>t. result \in RunResult(Runs, Scopes) /\ final \in BOOLEAN
  BY DEF TypeOK
<1>1. SUFFICES ASSUME OurRun', pc' \in Closing' PROVE Reported'
  BY DEF Reported
<1>2. pc' \notin AtWork
  BY <1>1 DEF Closing, AtWork
<1>3. Inside /\ OurRun /\ cmd \in RunCommands /\ UNCHANGED <<cmd, run, man, req>>
  BY <1>1, <1>2, Within, StagesOf DEF AtWork, OurRun
<1>4. Reporting /\ ~WriteCommandLog /\ ~WriteCommandTimeline
  BY <1>2, <1>3, InsideIs, StagesOf DEF AtWork
<1>5. UNCHANGED <<mem, run, man, entries, profile, demo, payload>>
  BY <1>4, ReportingKeeps
<1>6. UNCHANGED <<log, timeline>>
  BY <1>4 DEF Reporting, UpdateRunResult, LiveCheck, SaveLiveFindings, VerifyCompletion,
     WriteSummary, vars, reports
<1>7. RealLog' = RealLog /\ LiveFindings' = LiveFindings /\ ArtifactFiles' = ArtifactFiles
  BY <1>5, <1>6 DEF RealLog, At, LiveFindings, ArtifactFiles
<1>8. CASE UpdateRunResult
  <2>1. result' = mem /\ pc = "result"
    BY <1>8 DEF UpdateRunResult
  <2>2. log = RealLog /\ timeline = RealLog
    BY <1>3, <2>1 DEF OnDisk, AtWork
  <2>3. pc' = "live" \/ (pc' = "leave" /\ cmd # "validation")
    BY <1>1, <1>3, <1>8, StagesOf DEF Closing, RunCommands
  <2>4. ~Checked' /\ pc' # "merge"
    BY <1>3, <2>3 DEF Checked
  <2>5. QED
    BY <1>5, <1>6, <1>7, <2>1, <2>2, <2>4 DEF Reported
<1>9. CASE LiveCheck
  <2>1. found' = LiveFindings /\ UNCHANGED result /\ pc = "live" /\ pc' = "merge"
    BY <1>3, <1>9, StagesOf DEF LiveCheck, reports, RunCommands
  <2>2. ~Checked /\ ~Checked'
    BY <2>1 DEF Checked
  <2>3. QED
    BY <1>3, <1>5, <1>6, <1>7, <2>1, <2>2 DEF Reported, Closing
<1>10. CASE SaveLiveFindings
  <2>1. /\ result' = [result EXCEPT !.findings = MergeFindings(@, found),
                                    !.outcome  = OutcomeAfterLive(@, found)]
        /\ UNCHANGED found /\ pc = "merge" /\ pc' = "verify"
    BY <1>3, <1>10, StagesOf DEF SaveLiveFindings, memory, RunCommands
  <2>2. ~Checked /\ Checked'
    BY <1>3, <2>1 DEF Checked, Route, Preparing, AtWork, RunCommands
  <2>3. result = mem /\ found = LiveFindings /\ log = RealLog /\ timeline = RealLog
    BY <1>3, <2>1, <2>2 DEF Reported, Closing
  <2>4. QED
    BY <1>5, <1>6, <1>7, <2>1, <2>2, <2>3 DEF Reported
<1>11. CASE VerifyCompletion
  <2>1. /\ verdict' = [complete |-> Complete(man, Shipped, result, profile, ArtifactFiles),
                       ready    |-> ReleaseReady(man, Shipped, result, profile, ArtifactFiles)]
        /\ UNCHANGED <<result, found>> /\ pc = "verify" /\ pc' = "summary"
    BY <1>11 DEF VerifyCompletion, reports
  <2>2. Checked /\ Checked'
    BY <1>3, <2>1 DEF Checked, Route, Preparing, AtWork, RunCommands
  <2>3. QED
    BY <1>3, <1>5, <1>6, <1>7, <2>1, <2>2 DEF Reported, Closing
<1>12. CASE WriteSummary
  <2>1. /\ summary' = [form |-> "real", run |-> run,
                       complete |-> verdict.complete, ready |-> verdict.ready]
        /\ UNCHANGED <<result, found, verdict>> /\ pc = "summary" /\ pc' = "leave"
    BY <1>12 DEF WriteSummary, memory
  <2>2. Checked /\ Checked'
    BY <1>3, <2>1 DEF Checked, Route, Preparing, AtWork, RunCommands
  <2>3. QED
    BY <1>3, <1>5, <1>6, <1>7, <2>1, <2>2 DEF Reported, Closing
<1>13. CASE UNCHANGED vars
  <2>1. UNCHANGED <<pc, result, found, verdict, summary>>
    BY <1>13 DEF vars, memory, reports
  <2>2. Checked' = Checked
    BY <1>3, <2>1 DEF Checked
  <2>3. QED
    BY <1>1, <1>3, <1>5, <1>6, <1>7, <2>1, <2>2 DEF Reported
<1>14. QED
  BY <1>4, <1>8, <1>9, <1>10, <1>11, <1>12, <1>13 DEF Reporting

LEMMA DemoOfRunStep ==
  ASSUME TypeOK, TaskInHand, Route, InOrder, DemoOfRun, [Next]_vars
  PROVE  DemoOfRun'
<1>1. CASE StartScaffold \/ StartRun
  <2>1. pending' = RequiredArtifacts(man', req'.demo) /\ pc' = "placeholders"
    BY <1>1, BeginsAnew, StagesOf
  <2>2. ~OurRun'
    BY <2>1 DEF OurRun, AtWork, Closing
  <2>3. QED
    BY <2>1, <2>2 DEF DemoOfRun
<1>2. CASE WritePlaceholder
  <2>1. PICK a \in pending :
          /\ pending' = pending \ {a} /\ UNCHANGED <<pc, cmd, man, req>> /\ pc = "placeholders"
          /\ demo' = IF a = "demo_capture_index" THEN Placeholder ELSE demo
    BY <1>2 DEF WritePlaceholder
  <2>2. Placeholder' = Placeholder
    BY <1>2 DEF Placeholder, At, WritePlaceholder
  <2>3. QED
    BY <2>1, <2>2 DEF DemoOfRun, Preparing
<1>3. CASE TakeStart \/ PlanRun \/ WriteRunProfile
  <2>1. UNCHANGED <<run, man, req, cmd, demo>>
    BY <1>3 DEF TakeStart, PlanRun, WriteRunProfile, reports
  <2>2. pc \in Preparing /\ pc' # "placeholders" /\ (pc = "placeholders" => pending = {})
    BY <1>3, StagesOf DEF Preparing, TakeStart
  <2>3. Placeholder' = Placeholder
    BY <2>1 DEF Placeholder, At
  <2>4. QED
    BY <2>1, <2>2, <2>3 DEF DemoOfRun
<1>4. CASE Ending \/ RefuseRun \/ StartLive
  <2>1. pc' \notin Preparing /\ ~OurRun'
    BY <1>4, StagesOf DEF Ending, Preparing, OurRun, AtWork, Closing, RunCommands
  <2>2. QED
    BY <2>1 DEF DemoOfRun, Preparing
<1>5. CASE Inside
  <2>1. UNCHANGED <<run, man, req, demo>>
    <3>1. CASE Reporting
      BY <3>1, ReportingKeeps
    <3>2. CASE OpenSession \/ Execute \/ Settling \/ Finish
      BY <3>2 DEF OpenSession, Execute, Settling, FailSession, RecordPass, RecordFail, Finish,
         reports
    <3>3. QED
      BY <1>5, <3>1, <3>2, InsideIs
  <2>2. Placeholder' = Placeholder
    BY <2>1 DEF Placeholder, At
  <2>3. CASE UNCHANGED vars
    <3>1. UNCHANGED <<pc, cmd, pending>>
      BY <2>3 DEF vars, memory
    <3>2. QED
      BY <2>1, <2>2, <3>1 DEF DemoOfRun, OurRun
  <2>4. CASE ~UNCHANGED vars
    <3>1. pc' \notin Preparing
      BY <1>5, <2>4, StagesOf DEF Inside, Preparing
    <3>2. OurRun' => OurRun
      BY <1>5, Within, StagesOf DEF Inside, vars, WriteRunProfile
    <3>3. OurRun => pc # "placeholders"
      BY DEF OurRun, AtWork, Closing
    <3>4. QED
      BY <2>1, <2>2, <3>1, <3>2, <3>3 DEF DemoOfRun, Preparing
  <2>5. QED
    BY <2>3, <2>4
<1>6. QED
  BY <1>1, <1>2, <1>3, <1>4, <1>5, RestIsOurs DEF Inside

LEMMA SessionsOfRunStep ==
  ASSUME TypeOK, TaskInHand, Route, Untouched, InOrder, SessionsOfRun, [Next]_vars
  PROVE  SessionsOfRun'
<1>t. /\ todo \subseteq Tasks /\ prof.selected \subseteq Tasks /\ run \in Nat /\ final \in BOOLEAN
  BY RunIsNumber DEF TypeOK, RunProfileArtifact
<1>1. SUFFICES ASSUME OurRun' PROVE SessionsOfRun'
  BY DEF SessionsOfRun
<1>2. CASE WriteRunProfile
  <2>1. UNCHANGED <<run, dirs, passed>> /\ pc = "profile" /\ pc' = "log"
    BY <1>2 DEF WriteRunProfile
  <2>2. \A t \in Tasks : <<run, t>> \notin passed \cup dirs
    BY <2>1 DEF Untouched, Preparing
  <2>3. QED
    BY <2>1, <2>2 DEF SessionsOfRun, Closing
<1>3. CASE ~WriteRunProfile
  <2>0. Inside /\ OurRun /\ UNCHANGED <<cmd, run, man, req>>
    BY <1>1, <1>3, Within
  <2>1. CASE Reporting
    <3>1. UNCHANGED <<run, prof, todo, task, entries, dirs, passed>>
      BY <2>1, ReportingKeeps
    <3>2. Done' = Done
      BY <3>1 DEF Done
    <3>3. pc \in {"execute", "record"} => pc' = pc
      BY <2>1, StagesOf DEF Reporting, vars
    <3>4. cmd = "validation" /\ pc' \in Closing => run \notin builds'
      <4>1. CASE UpdateRunResult
        <5>1. cmd = "validation" /\ pc' \in Closing => final
          BY <4>1, StagesOf DEF Closing, RunCommands
        <5>2. QED
          BY <4>1, <5>1 DEF UpdateRunResult
      <4>2. CASE WriteCommandLog \/ WriteCommandTimeline
        BY <4>2, StagesOf DEF Closing
      <4>3. CASE LiveCheck \/ SaveLiveFindings \/ VerifyCompletion \/ WriteSummary
        <5>1. pc \in Closing /\ UNCHANGED builds
          BY <4>3 DEF LiveCheck, SaveLiveFindings, VerifyCompletion, WriteSummary, Closing
        <5>2. QED
          BY <2>0, <5>1 DEF SessionsOfRun
      <4>4. CASE UNCHANGED vars
        BY <2>0, <4>4 DEF vars, SessionsOfRun
      <4>5. QED
        BY <2>1, <4>1, <4>2, <4>3, <4>4 DEF Reporting
    <3>5. QED
      BY <2>0, <3>1, <3>2, <3>3, <3>4 DEF SessionsOfRun, Closing
  <2>2. CASE OpenSession
    <3>1. /\ UNCHANGED <<prof, todo, entries, passed>> /\ pc = "session" /\ pc' = "execute"
          /\ dirs' = dirs \cup {<<run, task'>>}
      BY <2>2 DEF OpenSession
    <3>2. Done' = Done
      BY <3>1 DEF Done
    <3>3. QED
      BY <2>0, <3>1, <3>2 DEF SessionsOfRun, Closing
  <2>3. CASE Execute
    <3>1. UNCHANGED <<prof, todo, task, dirs, passed>> /\ pc = "execute" /\ pc' = "record"
      BY <2>3 DEF Execute
    <3>2. Done' = Done
      BY <3>1 DEF Done
    <3>3. \A t \in Done : entries'[t] = entries[t]
      BY <2>0, <2>3, WorkGoesOn
    <3>4. QED
      BY <2>0, <3>1, <3>2, <3>3 DEF SessionsOfRun, Closing
  <2>4. CASE Settling
    <3>1. pc' = "log" /\ pc \in {"session", "record"} /\ UNCHANGED prof
      BY <2>0, <2>4, SettlesAtHand, Writers, StagesOf DEF Ending
    <3>2. PICK t, status, hasPayload, f :
              /\ t \in Tasks /\ status \in Settled
              /\ Settle(t, status, hasPayload, f) /\ t \in todo /\ t \in prof.selected
              /\ \/ /\ pc = "session" /\ status = "fail" /\ hasPayload = FALSE
                    /\ passed' = passed /\ dirs' \in {dirs, dirs \cup {<<run, t>>}}
                 \/ /\ pc = "record" /\ t = task /\ status = "pass"
                    /\ passed' = passed \cup {<<run, t>>} /\ dirs' = dirs \ {<<run, t>>}
                 \/ /\ pc = "record" /\ t = task /\ status = "fail"
                    /\ passed' = passed /\ dirs' = dirs \ {<<run, t>>}
      BY <2>0, <2>4, SettlesAtHand
    <3>3. /\ entries'[t] = [status |-> status, payload |-> hasPayload]
          /\ \A u \in Tasks \ {t} : entries'[u] = entries[u]
          /\ todo' = todo \ {t}
      BY <3>2, SettleChanges
    <3>4. Done' = Done \cup {t} /\ t \notin Done
      BY <1>t, <3>1, <3>2, <3>3 DEF Done
    <3>5. \A u \in Tasks : <<run, u>> \in dirs' =>
            /\ u \in Done' /\ entries'[u] = [status |-> "fail", payload |-> FALSE]
            /\ <<run, u>> \notin passed'
      <4>1. SUFFICES ASSUME NEW u \in Tasks, <<run, u>> \in dirs'
                     PROVE  /\ u \in Done' /\ <<run, u>> \notin passed'
                            /\ entries'[u] = [status |-> "fail", payload |-> FALSE]
        OBVIOUS
      <4>2. CASE u = t
        BY <2>0, <3>2, <3>3, <3>4, <4>1, <4>2 DEF SessionsOfRun
      <4>3. CASE u # t
        BY <2>0, <3>2, <3>3, <3>4, <4>1, <4>3 DEF SessionsOfRun
      <4>4. QED
        BY <4>2, <4>3
    <3>6. \A u \in Tasks : <<run, u>> \in passed' => u \in Done' /\ entries'[u].status = "pass"
      BY <2>0, <3>2, <3>3, <3>4 DEF SessionsOfRun
    <3>7. QED
      BY <2>0, <3>1, <3>5, <3>6 DEF SessionsOfRun, Closing
  <2>5. CASE Finish
    <3>1. UNCHANGED <<prof, todo, task, entries, dirs, passed>> /\ pc = "finish" /\ pc' = "log"
      BY <2>5 DEF Finish
    <3>2. Done' = Done
      BY <3>1 DEF Done
    <3>3. QED
      BY <2>0, <3>1, <3>2 DEF SessionsOfRun, Closing
  <2>6. QED
    BY <2>0, <2>1, <2>2, <2>3, <2>4, <2>5, InsideIs
<1>4. QED
  BY <1>2, <1>3

-----------------------------------------------------------------------------
(* All of it *)

ReportsInv ==
  /\ TypeOK /\ TaskInHand /\ Earned
  /\ Route /\ Dated /\ Untouched
  /\ MemOfRun /\ ProfileOfRun /\ InOrder
  /\ OnDisk /\ Reported /\ DemoOfRun /\ SessionsOfRun

LEMMA ReportsInit == Init => ReportsInv
<1> SUFFICES ASSUME Init PROVE ReportsInv
  OBVIOUS
<1>1. TypeOK /\ TaskInHand /\ Earned
  BY InitType, NoResultEarned DEF Init, TaskInHand, Earned, PassIsEarned, Running
<1>2. ~OurRun
  BY DEF Init, OurRun, RunCommands
<1>3. Route
  BY <1>2 DEF Init, Route, AtWork, Preparing
<1>4. Dated
  <2>1. result.run = 0
    BY DEF Init, NoResult, ScaffoldRun
  <2>2. log.stamp.run = 0 /\ timeline.stamp.run = 0 /\ profile.run = 0 /\ run = 0
    BY DEF Init, At
  <2>3. passed \cup dirs = {}
    BY DEF Init
  <2>4. QED
    BY <2>1, <2>2, <2>3 DEF Dated
<1>5. pc = "idle" /\ entries = NoEntries /\ cmd = "none"
  BY DEF Init
<1>6. Untouched /\ MemOfRun /\ ProfileOfRun /\ InOrder /\ OnDisk /\ Reported /\ DemoOfRun
      /\ SessionsOfRun
  BY <1>2, <1>5 DEF Untouched, MemOfRun, ProfileOfRun, InOrder, OnDisk, Reported, DemoOfRun,
     SessionsOfRun, Preparing, AtWork
<1>7. QED
  BY <1>1, <1>3, <1>4, <1>6 DEF ReportsInv

LEMMA ReportsStep == ReportsInv /\ [Next]_vars => ReportsInv'
<1> SUFFICES ASSUME ReportsInv, [Next]_vars PROVE ReportsInv'
  OBVIOUS
<1>1. /\ TypeOK /\ TaskInHand /\ Earned
      /\ Route /\ Dated /\ Untouched
      /\ MemOfRun /\ ProfileOfRun /\ InOrder
      /\ OnDisk /\ Reported /\ DemoOfRun /\ SessionsOfRun
  BY DEF ReportsInv
<1>2. TypeOK' /\ TaskInHand' /\ Earned'
  BY <1>1, StepType, TaskInHandStep, EarnedStep
<1>3. Route' /\ Dated' /\ Untouched'
  BY <1>1, RouteStep, DatedStep, UntouchedStep
<1>4. MemOfRun' /\ ProfileOfRun' /\ InOrder'
  BY <1>1, MemOfRunStep, ProfileOfRunStep, InOrderStep
<1>5. OnDisk' /\ Reported' /\ DemoOfRun' /\ SessionsOfRun'
  BY <1>1, OnDiskStep, ReportedStep, DemoOfRunStep, SessionsOfRunStep
<1>6. QED
  BY <1>2, <1>3, <1>4, <1>5 DEF ReportsInv

(* A command that is about its reports, is a run's; ending with a report    *)
(* takes Leave.                                                             *)
LEMMA WhoWrites ==
  ASSUME TypeOK, Route
  PROVE  /\ pc \in {"log", "timeline"} => OurRun
         /\ pc = "result" => OurRun \/ cmd = "scaffold-run"
         /\ pc \in AtWork \cup Closing /\ cmd \in RunCommands => OurRun
<1>1. cmd \in {"none", "scaffold-run", "live", "live-write", "execution", "validation"}
  BY DEF TypeOK, Subcommands, RunCommands
<1>2. QED
  BY <1>1 DEF Route, OurRun, AtWork, Closing, Preparing, RunCommands

LEMMA HowItEnds ==
  ASSUME [Next]_vars, pc' = "idle", exit' \in {"0", "1"}
  PROVE  Leave \/ UNCHANGED vars
<1>1. ~PlanFails /\ ~LiveCheckFails /\ ~VerifyFails /\ ~Crash /\ ~WriteFails
  BY DEF PlanFails, LiveCheckFails, VerifyFails, Crash, WriteFails, Return
<1>2. ~StartScaffold /\ ~StartRun /\ ~StartLive /\ ~RefuseRun
  BY StagesOf DEF RefuseRun
<1>3. QED
  BY <1>1, <1>2, StagesOf DEF Next, Operator, Work, Settling

-----------------------------------------------------------------------------
(* The newest first *)

LEMMA NewestFirstStep ==
  ASSUME ReportsInv, NewestFirst, [Next]_vars
  PROVE  NewestFirst'
<1>t. /\ TypeOK /\ Route /\ Untouched /\ InOrder /\ OnDisk
      /\ result \in RunResult(Runs, Scopes)
  BY DEF ReportsInv, TypeOK
<1>r. RealLog.stamp.run = run /\ RealLog.entries = entries /\ RealLog.form = "real"
  BY DEF RealLog, At
<1>1. CASE WriteCommandLog
  <2>1. log' = RealLog /\ UNCHANGED <<timeline, result>> /\ pc = "log"
    BY <1>1 DEF WriteCommandLog
  <2>2. timeline.form = "real" /\ timeline.stamp.run = run => Behind(timeline.entries)
    BY <1>t, <2>1, WhoWrites DEF OnDisk, AtWork
  <2>3. QED
    BY <1>r, <2>1, <2>2 DEF NewestFirst, Behind
<1>2. CASE WriteCommandTimeline
  <2>1. timeline' = RealLog /\ UNCHANGED <<log, result>> /\ pc = "timeline"
    BY <1>2 DEF WriteCommandTimeline
  <2>2. OurRun /\ pc \in AtWork
    BY <1>t, <2>1, WhoWrites DEF AtWork
  <2>3. log = RealLog
    BY <1>t, <2>1, <2>2 DEF OnDisk
  <2>4. \A t \in Tasks : result.run = run /\ result.status[t] \in Settled =>
                           t \in Done /\ result.status[t] = mem.status[t]
    BY <1>t, <2>2 DEF OnDisk
  <2>5. \A t \in Tasks : result.run = run /\ result.status[t] \in Settled =>
                           entries[t].status = result.status[t]
    BY <1>t, <2>2, <2>4 DEF InOrder
  <2>6. QED
    BY <1>r, <2>1, <2>3, <2>5 DEF NewestFirst, Settled
<1>3. CASE UpdateRunResult
  <2>1. result' = mem /\ UNCHANGED <<log, timeline>> /\ pc = "result"
    BY <1>3 DEF UpdateRunResult
  <2>2. CASE OurRun
    <3>1. timeline = RealLog
      BY <1>t, <2>1, <2>2 DEF OnDisk, AtWork
    <3>2. \A t \in Tasks : mem.status[t] \in Settled => entries[t].status = mem.status[t]
      BY <1>t, <2>2 DEF InOrder
    <3>3. QED
      BY <1>r, <2>1, <3>1, <3>2 DEF NewestFirst, Settled
  <2>3. CASE cmd = "scaffold-run"
    <3>1. \A t \in Tasks : mem.status[t] \notin Settled
      BY <1>t, <2>1, <2>3 DEF Untouched
    <3>2. QED
      BY <2>1, <3>1 DEF NewestFirst, Settled
  <2>4. QED
    BY <1>t, <2>1, <2>2, <2>3, WhoWrites
<1>4. CASE SaveLiveFindings
  <2>1. /\ UNCHANGED <<log, timeline>> /\ result'.run = result.run
        /\ result'.status = result.status /\ result'.form = result.form
    BY <1>4, <1>t DEF SaveLiveFindings, RunResult
  <2>2. QED
    BY <2>1 DEF NewestFirst
<1>5. CASE WritePlaceholder
  <2>1. /\ log' \in {log, PlaceholderLog} /\ timeline' \in {timeline, PlaceholderLog}
        /\ UNCHANGED result
    BY <1>5 DEF WritePlaceholder
  <2>2. PlaceholderLog.form # "real"
    BY DEF PlaceholderLog
  <2>3. QED
    BY <2>1, <2>2 DEF NewestFirst
<1>6. CASE Stopped
  <2>1. TornLog.form # "real"
    BY DEF TornLog
  <2>2. result' = result \/ result'.form # "real"
    BY <1>6, <1>t, Tears DEF RunResult
  <2>3. /\ log' = log \/ log'.form # "real"
        /\ timeline' = timeline \/ timeline'.form # "real"
    BY <1>6, <1>t, <2>1, Tears
  <2>4. QED
    BY <2>2, <2>3 DEF NewestFirst
<1>7. CASE UNCHANGED <<log, timeline, result>>
  BY <1>7 DEF NewestFirst
<1>8. QED
  BY <1>1, <1>2, <1>3, <1>4, <1>5, <1>6, <1>7, Writers

(* The reports on disk never contradict each other, wherever the process    *)
(* was killed: what the run result settles the timeline settles alike, and  *)
(* what the timeline lists the log lists.                                   *)
THEOREM ReportsAgree == Spec => []NewestFirst
<1>1. Init => ReportsInv /\ NewestFirst
  <2>1. Init => NewestFirst
    BY DEF Init, NewestFirst
  <2>2. QED
    BY <2>1, ReportsInit
<1>2. (ReportsInv /\ NewestFirst) /\ [Next]_vars => (ReportsInv /\ NewestFirst)'
  BY ReportsStep, NewestFirstStep
<1>3. QED
  BY <1>1, <1>2, PTL DEF Spec

-----------------------------------------------------------------------------
(* What the run has come to when it is over *)

LEMMA AtTheEnd ==
  ASSUME ReportsInv, OurRun, final
  PROVE  /\ todo = {} /\ Done = prof.selected
         /\ mem.outcome = FinalOutcome(entries, mem.findings)
         /\ pc # "record" =>
              \A t \in Tasks \ prof.selected : /\ mem.status[t] \in {"none", "blocked"}
                                               /\ entries[t].status = "none"
         /\ \A t \in prof.selected : /\ t \in Tasks /\ entries[t].status \in Settled
                                     /\ mem.status[t] = entries[t].status
<1>1. /\ InOrder /\ mem \in RunResult(Runs, Scopes) /\ prof.selected \subseteq Tasks
  BY DEF ReportsInv, TypeOK, RunProfileArtifact
<1>2. todo = {} /\ mem.outcome = FinalOutcome(entries, mem.findings)
  BY <1>1 DEF InOrder
<1>3. Done = prof.selected
  BY <1>2 DEF Done
<1>4. \A t \in Tasks : mem.status[t] \in TaskStatus
  BY <1>1 DEF RunResult
<1>5. \A t \in Tasks \ prof.selected :
         /\ mem.status[t] \notin Settled
         /\ entries[t] = NoEntries[t] \/ pc = "record"
  BY <1>1, <1>3 DEF InOrder
<1>6. \A t \in prof.selected : entries[t].status \in Settled /\ mem.status[t] = entries[t].status
  BY <1>1, <1>3 DEF InOrder
<1>7. QED
  BY <1>1, <1>2, <1>3, <1>4, <1>5, <1>6 DEF TaskStatus, Settled, NoEntries

LEMMA PassMeans ==
  ASSUME ReportsInv, OurRun, mem.outcome = "pass"
  PROVE  /\ final /\ mem.findings = {}
         /\ \A t \in Tasks : entries[t].status # "fail" /\ mem.status[t] # "fail"
         /\ \A t \in prof.selected : /\ t \in Tasks /\ entries[t].status = "pass"
                                     /\ mem.status[t] = "pass" /\ <<run, t>> \in passed
<1>1. /\ InOrder /\ MemOfRun /\ Earned /\ mem \in RunResult(Runs, Scopes)
  BY DEF ReportsInv, TypeOK
<1>2. final
  BY <1>1 DEF InOrder
<1>3. FinalOutcome(entries, mem.findings) = "pass"
  BY <1>2, AtTheEnd
<1>4. mem.findings = {} /\ \A t \in Tasks : entries[t].status # "fail"
  BY <1>3 DEF FinalOutcome, AnyFailures
<1>5. \A t \in Tasks \ prof.selected : mem.status[t] # "fail"
  BY <1>1, <1>2, AtTheEnd DEF InOrder, Settled
<1>6. \A t \in prof.selected : t \in Tasks /\ entries[t].status = "pass" /\ mem.status[t] = "pass"
  BY <1>2, <1>4, AtTheEnd DEF Settled
<1>7. mem.run = run
  BY <1>1 DEF MemOfRun
<1>8. QED
  BY <1>1, <1>2, <1>4, <1>5, <1>6, <1>7 DEF Earned, PassIsEarned

-----------------------------------------------------------------------------
(* An outcome "pass" on disk *)

LEMMA OutcomeIsHonestStep ==
  ASSUME ReportsInv, OutcomeIsHonest, [Next]_vars
  PROVE  OutcomeIsHonest'
<1>t. /\ TypeOK /\ Route /\ Untouched /\ MemOfRun /\ ProfileOfRun /\ OnDisk
      /\ result \in RunResult(Runs, Scopes) /\ run \in Nat
      /\ profile \in ProfileFile
  BY RunIsNumber DEF ReportsInv, TypeOK
<1>p. passed \subseteq passed'
  BY Writers DEF RecordPass
<1>r. RealLog.stamp.run = run /\ RealLog.entries = entries /\ RealLog.form = "real"
  BY DEF RealLog, At
<1>1. CASE UpdateRunResult
  <2>1. result' = mem /\ UNCHANGED <<log, profile>> /\ pc = "result"
    BY <1>1 DEF UpdateRunResult
  <2>2. CASE OurRun
    <3>1. SUFFICES ASSUME mem.outcome = "pass" PROVE OutcomeIsHonest'
      BY <2>1 DEF OutcomeIsHonest
    <3>2. log = RealLog /\ profile.selected = prof.selected /\ mem.run = run
      BY <1>t, <2>1, <2>2 DEF OnDisk, AtWork, ProfileOfRun, MemOfRun
    <3>3. QED
      BY <1>p, <1>r, <2>1, <2>2, <3>1, <3>2, PassMeans DEF OutcomeIsHonest
  <2>3. CASE cmd = "scaffold-run"
    BY <1>t, <2>1, <2>3 DEF Untouched, OutcomeIsHonest
  <2>4. QED
    BY <1>t, <2>1, <2>2, <2>3, WhoWrites
<1>2. CASE SaveLiveFindings
  <2>1. /\ result' = [result EXCEPT !.findings = MergeFindings(@, found),
                                    !.outcome  = OutcomeAfterLive(@, found)]
        /\ UNCHANGED <<log, profile>>
    BY <1>2 DEF SaveLiveFindings
  <2>2. /\ result'.form = result.form /\ result'.run = result.run
        /\ result'.status = result.status
        /\ result'.findings = result.findings \cup found
        /\ result'.outcome = OutcomeAfterLive(result.outcome, found)
    BY <1>t, <2>1 DEF RunResult, MergeFindings
  <2>3. result'.outcome = "pass" => result.outcome = "pass" /\ found = {}
    BY <2>2 DEF OutcomeAfterLive, ReleasableOutcomes
  <2>4. QED
    BY <1>p, <2>1, <2>2, <2>3 DEF OutcomeIsHonest
<1>3. CASE WriteCommandLog
  <2>1. log' = RealLog /\ UNCHANGED <<result, profile, passed>> /\ pc = "log"
    BY <1>3 DEF WriteCommandLog
  <2>2. result.run = run => result.outcome # "pass"
    BY <1>t, <2>1, WhoWrites DEF OnDisk, AtWork
  <2>3. QED
    BY <1>r, <2>1, <2>2 DEF OutcomeIsHonest
<1>4. CASE WritePlaceholder
  <2>1. log' \in {log, PlaceholderLog} /\ UNCHANGED <<result, profile, passed>>
    BY <1>4 DEF WritePlaceholder
  <2>2. PlaceholderLog.form # "real"
    BY DEF PlaceholderLog
  <2>3. QED
    BY <2>1, <2>2 DEF OutcomeIsHonest
<1>5. CASE WriteRunProfile
  <2>1. profile'.run = run /\ UNCHANGED <<log, result, passed>> /\ pc = "profile"
    BY <1>5 DEF WriteRunProfile
  <2>2. result.run < run
    BY <1>t, <2>1 DEF Untouched, Preparing
  <2>3. QED
    BY <1>t, <2>1, <2>2 DEF OutcomeIsHonest
<1>6. CASE Stopped
  <2>1. TornLog.form # "real"
    BY DEF TornLog
  <2>2. /\ log' = log \/ log'.form # "real"
        /\ result' = result \/ result'.form # "real"
        /\ profile' = profile \/ profile'.form # "real"
    BY <1>6, <1>t, <2>1, Tears DEF RunResult, ProfileFile
  <2>3. QED
    BY <1>p, <2>2 DEF OutcomeIsHonest
<1>7. CASE UNCHANGED <<log, result, profile>>
  BY <1>p, <1>7 DEF OutcomeIsHonest
<1>8. QED
  BY <1>1, <1>2, <1>3, <1>4, <1>5, <1>6, <1>7, Writers

(* A run result says "pass" only when nothing was found, nothing failed and *)
(* all that was selected was executed and passed in that run, whatever log  *)
(* and profile other runs have left beside it.                              *)
THEOREM PassIsHonest == Spec => []OutcomeIsHonest
<1>1. Init => ReportsInv /\ OutcomeIsHonest
  <2>1. Init => OutcomeIsHonest
    BY DEF Init, OutcomeIsHonest, NoResult, ScaffoldRun
  <2>2. QED
    BY <2>1, ReportsInit
<1>2. (ReportsInv /\ OutcomeIsHonest) /\ [Next]_vars => (ReportsInv /\ OutcomeIsHonest)'
  BY ReportsStep, OutcomeIsHonestStep
<1>3. QED
  BY <1>1, <1>2, PTL DEF Spec

-----------------------------------------------------------------------------
(* The end of a run command *)

LEMMA LeavesReports ==
  ASSUME ReportsInv, pc = "leave", cmd \in RunCommands
  PROVE  /\ OurRun /\ final
         /\ log = RealLog /\ timeline = RealLog
         /\ result.form = "real" /\ result.run = run /\ result.status = mem.status
         /\ profile = [form |-> "real", run |-> run, profile |-> prof.profile,
                       selected |-> prof.selected, skipped |-> prof.skipped]
<1>1. Route /\ Reported /\ MemOfRun /\ ProfileOfRun /\ mem \in RunResult(Runs, Scopes)
  BY DEF ReportsInv, TypeOK
<1>2. OurRun /\ pc \in Closing
  BY DEF OurRun, Closing
<1>3. final /\ log = RealLog /\ timeline = RealLog /\ mem.form = "real" /\ mem.run = run
  BY <1>1, <1>2 DEF Route, Reported, MemOfRun
<1>4. result = mem \/ result = [mem EXCEPT !.findings = MergeFindings(@, found),
                                           !.outcome  = OutcomeAfterLive(@, found)]
  BY <1>1, <1>2 DEF Reported
<1>5. result.form = mem.form /\ result.run = mem.run /\ result.status = mem.status
  BY <1>1, <1>4 DEF RunResult
<1>6. QED
  BY <1>1, <1>2, <1>3, <1>5 DEF ProfileOfRun

LEMMA FinishedRunIsWholeStep ==
  ASSUME ReportsInv, FinishedRunIsWhole, [Next]_vars
  PROVE  FinishedRunIsWhole'
<1>1. SUFFICES ASSUME pc' = "idle", cmd' \in RunCommands, exit' \in {"0", "1"}
               PROVE  FinishedRunIsWhole'
  BY DEF FinishedRunIsWhole, RunCommands
<1>2. CASE UNCHANGED vars
  BY <1>2 DEF FinishedRunIsWhole, vars, reports
<1>3. CASE Leave
  <2>1. UNCHANGED <<cmd, run, log, timeline, result, profile>> /\ pc = "leave"
    BY <1>3 DEF Leave, reports
  <2>2. /\ OurRun /\ final /\ log = RealLog /\ timeline = RealLog
        /\ result.form = "real" /\ result.run = run /\ result.status = mem.status
        /\ profile = [form |-> "real", run |-> run, profile |-> prof.profile,
                      selected |-> prof.selected, skipped |-> prof.skipped]
    BY <1>1, <2>1, LeavesReports
  <2>3. /\ RealLog.form = "real" /\ RealLog.stamp.run = run /\ RealLog.entries = entries
    BY DEF RealLog, At
  <2>4. \A t \in Tasks :
          IF t \in prof.selected
            THEN mem.status[t] = entries[t].status /\ mem.status[t] # "none"
            ELSE mem.status[t] \in {"none", "blocked"} /\ entries[t].status = "none"
    BY <2>1, <2>2, AtTheEnd DEF Settled
  <2>5. QED
    BY <2>1, <2>2, <2>3, <2>4 DEF FinishedRunIsWhole
<1>4. QED
  BY <1>1, <1>2, <1>3, HowItEnds

(* A run command that ends with a report leaves the directory to one run:   *)
(* four whole reports of that run which list exactly the selected checks    *)
(* and agree on each, whatever earlier runs had left there.                 *)
THEOREM ReportsAreOneRun == Spec => []FinishedRunIsWhole
<1>1. Init => ReportsInv /\ FinishedRunIsWhole
  <2>1. Init => FinishedRunIsWhole
    BY DEF Init, FinishedRunIsWhole, RunCommands
  <2>2. QED
    BY <2>1, ReportsInit
<1>2. (ReportsInv /\ FinishedRunIsWhole) /\ [Next]_vars => (ReportsInv /\ FinishedRunIsWhole)'
  BY ReportsStep, FinishedRunIsWholeStep
<1>3. QED
  BY <1>1, <1>2, PTL DEF Spec

-----------------------------------------------------------------------------
(* Exit status 0 *)

LEMMA ExitZeroStep ==
  ASSUME ReportsInv, ExitZeroMeansProof, [Next]_vars
  PROVE  ExitZeroMeansProof'
<1>1. SUFFICES ASSUME pc' = "idle", cmd' = "validation", exit' = "0"
               PROVE  ExitZeroMeansProof'
  BY DEF ExitZeroMeansProof
<1>2. CASE UNCHANGED vars
  BY <1>2 DEF ExitZeroMeansProof, vars, reports
<1>3. CASE Leave
  <2>t. /\ Reported /\ MemOfRun /\ ProfileOfRun /\ mem \in RunResult(Runs, Scopes)
        /\ entries \in [Tasks -> Entry]
    BY DEF ReportsInv, TypeOK
  <2>1. /\ UNCHANGED <<cmd, run, log, timeline, result, profile, summary, payload, passed>>
        /\ pc = "leave" /\ cmd = "validation" /\ exit' = ValidationExit
    BY <1>1, <1>3 DEF Leave, reports, Return
  <2>2. mem.outcome = "pass" /\ found = {} /\ verdict.complete
    BY <1>1, <2>1 DEF ValidationExit, RunExit, LiveExit
  <2>3. /\ OurRun /\ log = RealLog /\ result.run = run
        /\ profile.run = run /\ profile.selected = prof.selected
    BY <2>1, LeavesReports DEF RunCommands
  <2>4. /\ Checked /\ found = LiveFindings
        /\ result = [mem EXCEPT !.findings = MergeFindings(@, found),
                                !.outcome  = OutcomeAfterLive(@, found)]
        /\ summary = [form |-> "real", run |-> run,
                      complete |-> verdict.complete, ready |-> verdict.ready]
    BY <2>t, <2>1, <2>3 DEF Reported, Checked, Closing
  <2>5. /\ mem.findings = {}
        /\ \A t \in prof.selected : /\ t \in Tasks /\ entries[t].status = "pass"
                                    /\ <<run, t>> \in passed
    BY <2>2, <2>3, PassMeans
  <2>6. result.outcome = "pass" /\ result.findings = {}
    BY <2>t, <2>2, <2>4, <2>5 DEF RunResult, MergeFindings, OutcomeAfterLive
  <2>7. summary.form = "real" /\ summary.run = run /\ summary.complete
    BY <2>2, <2>4
  <2>8. ASSUME NEW t \in prof.selected
        PROVE  /\ entries[t] = [status |-> "pass", payload |-> TRUE] /\ payload[t].good
    <3>1. t \in Tasks /\ log.form = "real" /\ log.entries[t].status = "pass"
          /\ log.entries[t] = entries[t]
      BY <2>3, <2>5 DEF RealLog
    <3>2. LiveFindings = {}
      BY <2>2, <2>4
    <3>3. entries[t].payload /\ payload[t].good
      BY <3>1, <3>2 DEF LiveFindings
    <3>4. QED
      BY <2>t, <3>1, <3>3 DEF Entry
  <2>9. QED
    BY <2>1, <2>3, <2>5, <2>6, <2>7, <2>8 DEF ExitZeroMeansProof, RealLog
<1>4. QED
  BY <1>1, <1>2, <1>3, HowItEnds

(* Exit status 0 of run-azure-validation is proof: of a complete summary of *)
(* this run, of an outcome without findings, and for each selected check of *)
(* a pass in this run with a payload on disk that the live checks accept.   *)
THEOREM ExitZeroIsProof == Spec => []ExitZeroMeansProof
<1>1. Init => ReportsInv /\ ExitZeroMeansProof
  <2>1. Init => ExitZeroMeansProof
    BY DEF Init, ExitZeroMeansProof
  <2>2. QED
    BY <2>1, ReportsInit
<1>2. (ReportsInv /\ ExitZeroMeansProof) /\ [Next]_vars => (ReportsInv /\ ExitZeroMeansProof)'
  BY ReportsStep, ExitZeroStep
<1>3. QED
  BY <1>1, <1>2, PTL DEF Spec

-----------------------------------------------------------------------------
(* The verifier and a clean run *)

LEMMA CleanRunIsAccepted == ReportsInv => VerifierAcceptsCleanRun
<1> SUFFICES ASSUME ReportsInv,
                    pc = "summary", cmd = "validation", mem.outcome = "pass", found = {},
                    mem.demo => mem.sameSecond, ManifestAccounts(man, Shipped),
                    \A t \in Tasks : Covered(man, t) => t \in AdmittedTasks(man)
             PROVE  /\ verdict.complete
                    /\ verdict.ready <=> runProfileReleaseGate(prof)
  BY DEF VerifierAcceptsCleanRun
<1>t. /\ Reported /\ MemOfRun /\ ProfileOfRun /\ DemoOfRun
      /\ mem \in RunResult(Runs, Scopes)
      /\ run \in Nat /\ man \in Manifests /\ req \in Request
  BY RunIsNumber DEF ReportsInv, TypeOK
<1>1. OurRun /\ pc \in Closing /\ Checked
  BY DEF OurRun, Closing, Checked, RunCommands
<1>2. /\ log = RealLog /\ timeline = RealLog
      /\ result = [mem EXCEPT !.findings = MergeFindings(@, found),
                              !.outcome  = OutcomeAfterLive(@, found)]
      /\ verdict = [complete |-> Complete(man, Shipped, result, profile, ArtifactFiles),
                    ready    |-> ReleaseReady(man, Shipped, result, profile, ArtifactFiles)]
  BY <1>t, <1>1 DEF Reported
<1>3. /\ mem.form = "real" /\ mem.run = run /\ mem.scope = RunScope(man)
      /\ mem.demo = req.demo /\ mem.artifacts = RequiredArtifacts(man, req.demo)
  BY <1>t, <1>1 DEF MemOfRun
<1>4. /\ result.form = "real" /\ result.run = run /\ result.scope = RunScope(man)
      /\ result.demo = req.demo /\ result.artifacts = RequiredArtifacts(man, req.demo)
      /\ result.status = mem.status /\ result.sameSecond = mem.sameSecond
      /\ result.profiled = mem.profiled /\ result.outcome = "pass"
  BY <1>t, <1>2, <1>3 DEF RunResult, OutcomeAfterLive
<1>5. /\ mem.profiled /\ prof = BuildRunProfile(man, req)
      /\ profile = [form |-> "real", run |-> run, profile |-> prof.profile,
                    selected |-> prof.selected, skipped |-> prof.skipped]
  BY <1>t, <1>1 DEF ProfileOfRun
<1>6. ASSUME NEW t \in Tasks, Covered(man, t)
      PROVE  SurfaceResultAccepted(man, t, result, profile)
  <2>1. t \in prof.selected \/ t \in prof.skipped
    BY <1>5, <1>6 DEF BuildRunProfile, SkippedTasks
  <2>2. t \in prof.selected => result.status[t] = "pass"
    BY <1>1, <1>4, PassMeans
  <2>3. profile.selected = prof.selected /\ profile.skipped = prof.skipped
    BY <1>5
  <2>4. QED
    BY <1>4, <1>5, <2>1, <2>2, <2>3 DEF SurfaceResultAccepted
<1>7. ASSUME NEW a \in RequiredArtifacts(man, result.demo)
      PROVE  ArtifactAccepted(a, result, ArtifactFiles)
  <2>1. a \in ArtifactIDs /\ (a = "demo_capture_index" => result.demo)
    BY <1>t, <1>7, ManifestsAssumption DEF RequiredArtifacts, Manifest
  <2>2. a \in result.artifacts
    BY <1>4, <1>7
  <2>3. CASE a \in {"command_log", "command_timeline"}
    <3>1. ArtifactFiles[a] = [form |-> RealLog.form, stamp |-> RealLog.stamp]
      BY <1>2, <2>1, <2>3 DEF ArtifactFiles
    <3>2. QED
      BY <1>4, <2>2, <3>1 DEF ArtifactAccepted, RealLog, At, Fresh
  <2>4. CASE a = "demo_capture_index"
    <3>1. demo = Placeholder
      BY <1>t, <1>1, <1>4, <1>7, <2>4 DEF DemoOfRun
    <3>2. ArtifactFiles[a] = Placeholder
      BY <2>1, <2>4, <3>1 DEF ArtifactFiles
    <3>3. result.sameSecond
      BY <1>3, <1>4, <2>1, <2>4
    <3>4. QED
      BY <1>4, <2>2, <3>2, <3>3 DEF ArtifactAccepted, Placeholder, At, Fresh
  <2>5. QED
    BY <2>1, <2>3, <2>4 DEF ArtifactIDs
<1>8. Complete(man, Shipped, result, profile, ArtifactFiles)
  BY <1>4, <1>6, <1>7 DEF Complete, RunResultAccepted
<1>9. verdict.complete
  BY <1>2, <1>8
<1>10. runProfileReleaseGate(profile) <=> runProfileReleaseGate(prof)
  <2>1. profile.profile = prof.profile /\ profile.skipped = prof.skipped
    BY <1>5
  <2>2. QED
    BY <2>1 DEF runProfileReleaseGate
<1>11. ReleaseReady(man, Shipped, result, profile, ArtifactFiles)
         <=> runProfileReleaseGate(prof)
  <2>1. result.outcome \in ReleasableOutcomes
    BY <1>4 DEF ReleasableOutcomes
  <2>2. result.profiled
    BY <1>4, <1>5
  <2>3. QED
    BY <1>8, <1>10, <2>1, <2>2 DEF ReleaseReady
<1>12. verdict.ready <=> runProfileReleaseGate(prof)
  BY <1>2, <1>11
<1>13. QED
  BY <1>9, <1>12

(* The verifier turns no clean run away: when each selected check passed,   *)
(* the live checks found nothing and the manifest accounts for what is      *)
(* shipped, the verdict is complete, and it is release-ready exactly when   *)
(* the profile of the run is that of a release candidate.                   *)
THEOREM CleanRunsAreAccepted == Spec => []VerifierAcceptsCleanRun
<1>1. ReportsInv /\ [Next]_vars => ReportsInv'
  BY ReportsStep
<1>2. QED
  BY <1>1, ReportsInit, CleanRunIsAccepted, PTL DEF Spec

-----------------------------------------------------------------------------
(* Steps *)

LEMMA FindingsStickStep ==
  ASSUME ReportsInv, [Next]_vars, result'.run = result.run
  PROVE  /\ result.findings \subseteq result'.findings
         /\ result.outcome = "fix-now" => result'.outcome = "fix-now"
<1>t. /\ TypeOK /\ Route /\ Untouched /\ MemOfRun /\ OnDisk
      /\ result \in RunResult(Runs, Scopes) /\ run \in Nat
  BY RunIsNumber DEF ReportsInv, TypeOK
<1>1. CASE UpdateRunResult
  <2>1. result' = mem /\ pc = "result" /\ mem.run = run
    BY <1>1, <1>t DEF UpdateRunResult, MemOfRun, AtWork
  <2>2. result.run = run
    BY <2>1
  <2>3. OurRun
    BY <1>t, <2>1, <2>2, WhoWrites DEF Untouched
  <2>4. QED
    BY <1>t, <2>1, <2>2, <2>3 DEF OnDisk, AtWork
<1>2. CASE SaveLiveFindings
  <2>1. /\ result'.findings = result.findings \cup found
        /\ result'.outcome = OutcomeAfterLive(result.outcome, found)
    BY <1>2, <1>t DEF SaveLiveFindings, RunResult, MergeFindings
  <2>2. QED
    BY <2>1 DEF OutcomeAfterLive, ReleasableOutcomes
<1>3. CASE Stopped
  BY <1>3, <1>t, Tears DEF RunResult
<1>4. CASE UNCHANGED result
  BY <1>4
<1>5. QED
  BY <1>1, <1>2, <1>3, <1>4, Writers

(* Findings written to a run result are never taken back and its outcome    *)
(* never improves without a new run.                                        *)
THEOREM FindingsAreKept == Spec => FindingsStick
<1>1. ReportsInv /\ [Next]_vars => ReportsInv'
  BY ReportsStep
<1>2. ReportsInv /\ [Next]_vars =>
        [result.form = "real" /\ result'.form = "real" /\ result'.run = result.run =>
           /\ result.findings \subseteq result'.findings
           /\ result.outcome = "fix-now" => result'.outcome = "fix-now"]_vars
  BY FindingsStickStep
<1>3. QED
  BY <1>1, <1>2, ReportsInit, PTL DEF Spec, FindingsStick

LEMMA CleanExitStep ==
  ASSUME ReportsInv, [Next]_vars, pc # "idle", pc' = "idle", exit' # "killed",
         cmd \in RunCommands
  PROVE  /\ run \notin builds'
         /\ \A t \in Tasks : <<run, t>> \in dirs' =>
              /\ <<run, t>> \notin passed'
              /\ entries[t] = [status |-> "fail", payload |-> FALSE]
<1>t. /\ TypeOK /\ Route /\ Untouched /\ SessionsOfRun
  BY DEF ReportsInv
<1>1. PlanFails \/ LiveCheckFails \/ VerifyFails \/ Leave \/ WriteFails
  <2>1. ~Operator
    BY StagesOf DEF Operator
  <2>2. ~UNCHANGED vars /\ ~Crash
    BY DEF vars, Crash, Return
  <2>3. QED
    BY <2>1, <2>2, StagesOf DEF Next, Work, Settling
<1>2. UNCHANGED <<dirs, passed>>
  BY <1>1 DEF PlanFails, LiveCheckFails, VerifyFails, Leave, WriteFails
<1>3. /\ pc \notin {"execute", "record"}
      /\ pc \in Preparing \/ OurRun
  <2>1. pc \in Preparing \cup AtWork \cup Closing /\ pc \notin {"execute", "record"}
    BY <1>1 DEF PlanFails, LiveCheckFails, VerifyFails, Leave, WriteFails, Writing,
       Preparing, AtWork, Closing
  <2>2. QED
    BY <2>1 DEF OurRun
<1>4. run \notin builds'
  <2>1. CASE PlanFails
    BY <2>1 DEF PlanFails
  <2>2. CASE LiveCheckFails \/ VerifyFails
    <3>1. pc \in {"live", "verify"} /\ UNCHANGED builds
      BY <2>2 DEF LiveCheckFails, VerifyFails
    <3>2. OurRun /\ cmd = "validation"
      BY <1>t, <1>3, <3>1 DEF Route, Preparing, AtWork, RunCommands
    <3>3. QED
      BY <1>t, <3>1, <3>2 DEF SessionsOfRun, Closing
  <2>3. CASE Leave
    <3>1. pc = "leave" /\ builds' = IF cmd = "execution" THEN builds \ {run} ELSE builds
      BY <2>3 DEF Leave
    <3>2. cmd = "validation" => run \notin builds
      BY <1>t, <1>3, <3>1 DEF SessionsOfRun, Closing, Preparing
    <3>3. QED
      BY <3>1, <3>2 DEF RunCommands
  <2>4. CASE WriteFails
    BY <2>4 DEF WriteFails
  <2>5. QED
    BY <1>1, <2>1, <2>2, <2>3, <2>4
<1>5. ASSUME NEW t \in Tasks, <<run, t>> \in dirs
      PROVE  <<run, t>> \notin passed /\ entries[t] = [status |-> "fail", payload |-> FALSE]
  <2>1. CASE pc \in Preparing
    BY <1>t, <1>5, <2>1 DEF Untouched
  <2>2. CASE OurRun
    BY <1>t, <1>3, <1>5, <2>2 DEF SessionsOfRun
  <2>3. QED
    BY <1>3, <2>1, <2>2
<1>6. QED
  BY <1>2, <1>4, <1>5

(* A run command that is not killed leaves no build directory behind, and   *)
(* no session directory but that of a check whose session could not be      *)
(* opened, on any of its ways out.                                          *)
THEOREM ExitsAreClean == Spec => CleanExit
<1>1. ReportsInv /\ [Next]_vars => ReportsInv'
  BY ReportsStep
<1>2. ReportsInv /\ [Next]_vars =>
        [pc # "idle" /\ pc' = "idle" /\ exit' # "killed" /\ cmd \in RunCommands =>
           /\ run \notin builds'
           /\ \A t \in Tasks : <<run, t>> \in dirs' =>
                /\ <<run, t>> \notin passed'
                /\ entries[t] = [status |-> "fail", payload |-> FALSE]]_vars
  BY CleanExitStep
<1>3. QED
  BY <1>1, <1>2, ReportsInit, PTL DEF Spec, CleanExit

-----------------------------------------------------------------------------
(* The promise of the run result *)

(* The steps by which the result on disk may be behind the one in memory.  *)
Opens ==
  /\ result.run # run
  /\ mem.form = "real" /\ mem.run = run /\ mem.outcome = "blocked" /\ mem.findings = {}
  /\ \A t \in Tasks : mem.status[t] \notin Settled

SameHead == /\ result.form = "real" /\ result.run = run
            /\ mem.form = "real" /\ mem.run = run

SettlesCheck(t) ==
  /\ SameHead /\ mem.outcome = result.outcome
  /\ t \in prof.selected /\ result.status[t] \notin Settled
  /\ \A u \in Tasks \ {t} : mem.status[u] = result.status[u]
  /\ \/ /\ <<run, t>> \in passed /\ mem.status[t] = "pass"
        /\ \E f \in SUBSET Promise!Slow(t) : mem.findings = result.findings \cup f
     \/ /\ <<run, t>> \notin passed /\ mem.status[t] = "fail"
        /\ mem.findings = result.findings

Concludes ==
  /\ SameHead /\ result.outcome = "blocked"
  /\ mem.status = result.status /\ mem.findings = result.findings

(* The record on disk is that in memory, or one step behind it.            *)
Checkpointed ==
  /\ OurRun /\ pc \in {"session", "execute", "record", "finish"} => result = mem
  /\ OurRun /\ pc \in {"log", "timeline", "result"} =>
       IF final THEN Concludes ELSE Opens \/ \E t \in Tasks : SettlesCheck(t)

(* What is merged into a result is of the live checks, and the result parses. *)
Merging == pc = "merge" => result.form = "real" /\ found \subseteq Promise!Live

PromiseInv == ReportsInv /\ Checkpointed /\ Merging

(* Only a slow check that passed leaves a finding.                         *)
LEMMA SettledFinds ==
  ASSUME TypeOK, TaskInHand, Settling
  PROVE  \E t, status, hasPayload, f :
           /\ Settle(t, status, hasPayload, f)
           /\ \/ /\ pc = "session" /\ t \in todo
                 /\ status = "fail" /\ f = {} /\ passed' = passed
              \/ /\ pc = "record" /\ t = task
                 /\ status = "pass" /\ f \subseteq Promise!Slow(t)
                 /\ passed' = passed \cup {<<run, t>>}
              \/ /\ pc = "record" /\ t = task
                 /\ status = "fail" /\ f = {} /\ passed' = passed
<1>1. CASE FailSession
  <2>1. PICK t \in todo : Settle(t, "fail", FALSE, {}) /\ passed' = passed /\ pc = "session"
    BY <1>1 DEF FailSession
  <2>2. QED
    BY <2>1
<1>2. CASE RecordPass
  <2>1. PICK slow \in {FALSE, FlagSlow} :
          Settle(task, "pass", entries[task].payload,
                 IF slow THEN {[origin |-> "slow", task |-> task]} ELSE {})
    BY <1>2 DEF RecordPass
  <2>2. passed' = passed \cup {<<run, task>>} /\ pc = "record" /\ task \in Tasks
    BY <1>2 DEF RecordPass, TaskInHand
  <2>3. (IF slow THEN {[origin |-> "slow", task |-> task]} ELSE {}) \subseteq Promise!Slow(task)
    BY <2>2 DEF Promise!Slow, Findings
  <2>4. QED
    BY <2>1, <2>2, <2>3
<1>3. CASE RecordFail
  <2>1. Settle(task, "fail", entries[task].payload, {}) /\ passed' = passed /\ pc = "record"
    BY <1>3 DEF RecordFail
  <2>2. QED
    BY <2>1
<1>4. QED
  BY <1>1, <1>2, <1>3 DEF Settling

(* Settling a check leaves the result on disk one check behind.            *)
LEMMA SettlingIsOneStep ==
  ASSUME ReportsInv, Checkpointed, OurRun, Settling
  PROVE  /\ ~final /\ UNCHANGED <<run, cmd, final, prof, profile, result>>
         /\ pc' = "log" /\ \E t \in Tasks : SettlesCheck(t)'
<1>1. /\ TypeOK /\ TaskInHand /\ Route /\ MemOfRun /\ InOrder /\ SessionsOfRun
      /\ mem \in RunResult(Runs, Scopes)
  BY DEF ReportsInv, TypeOK
<1>2. pc \in {"session", "record"} /\ pc' = "log" /\ ~final
  BY <1>1, StagesOf DEF Route, AtWork
<1>3. UNCHANGED <<run, cmd, final, prof, profile, result>>
  BY DEF Settling, FailSession, RecordPass, RecordFail, reports
<1>4. PICK t, status, hasPayload, f :
        /\ Settle(t, status, hasPayload, f)
        /\ \/ /\ pc = "session" /\ t \in todo
              /\ status = "fail" /\ f = {} /\ passed' = passed
           \/ /\ pc = "record" /\ t = task
              /\ status = "pass" /\ f \subseteq Promise!Slow(t)
              /\ passed' = passed \cup {<<run, t>>}
           \/ /\ pc = "record" /\ t = task
              /\ status = "fail" /\ f = {} /\ passed' = passed
  BY <1>1, SettledFinds
<1>5. t \in todo /\ t \in prof.selected /\ t \in Tasks
  BY <1>1, <1>4 DEF InOrder, TypeOK
<1>6. mem.status[t] \notin Settled /\ <<run, t>> \notin passed
  BY <1>1, <1>5 DEF InOrder, SessionsOfRun, Done
<1>7. result = mem /\ mem.form = "real" /\ mem.run = run
  BY <1>1, <1>2 DEF Checkpointed, MemOfRun, AtWork
<1>8. /\ mem'.status[t] = status
      /\ \A u \in Tasks \ {t} : mem'.status[u] = mem.status[u]
      /\ mem'.findings = mem.findings \cup f
      /\ mem'.form = mem.form /\ mem'.run = mem.run /\ mem'.outcome = mem.outcome
  BY <1>1, <1>4, <1>5, SettleChanges
<1>9. SettlesCheck(t)'
  <2>1. /\ SameHead' /\ mem'.outcome = result'.outcome
        /\ t \in prof'.selected /\ result'.status[t] \notin Settled
        /\ \A u \in Tasks \ {t} : mem'.status[u] = result'.status[u]
    BY <1>3, <1>5, <1>6, <1>7, <1>8 DEF SameHead
  <2>2. CASE status = "pass"
    <3>1. <<run, t>>' \in passed' /\ f \in SUBSET Promise!Slow(t)
      BY <1>3, <1>4, <2>2
    <3>2. QED
      BY <1>3, <1>7, <1>8, <2>1, <2>2, <3>1 DEF SettlesCheck, Promise!Slow
  <2>3. CASE status = "fail"
    <3>1. passed' = passed /\ f = {}
      BY <1>4, <2>3
    <3>2. QED
      BY <1>3, <1>6, <1>7, <1>8, <2>1, <2>3, <3>1 DEF SettlesCheck
  <2>4. QED
    BY <1>4, <2>2, <2>3
<1>10. QED
  BY <1>2, <1>3, <1>5, <1>9

(* The steps that write no report on the record keep it that far behind.   *)
LEMMA SameDistance ==
  ASSUME UNCHANGED <<run, final, prof, mem, result, passed>>
  PROVE  /\ Opens' = Opens /\ Concludes' = Concludes
         /\ \A t \in Tasks : SettlesCheck(t)' = SettlesCheck(t)
BY DEF Opens, Concludes, SettlesCheck, SameHead, Promise!Slow

LEMMA CheckpointedStep ==
  ASSUME ReportsInv, Checkpointed, [Next]_vars
  PROVE  Checkpointed'
<1>t. /\ TypeOK /\ TaskInHand /\ Route /\ Untouched /\ MemOfRun /\ InOrder /\ OnDisk
      /\ mem \in RunResult(Runs, Scopes) /\ result.run \in Nat /\ run \in Nat
  BY RunIsNumber DEF ReportsInv, TypeOK, RunResult
<1>1. SUFFICES ASSUME OurRun', pc' \in AtWork PROVE Checkpointed'
  BY DEF Checkpointed, AtWork
<1>2. CASE WriteRunProfile
  <2>1. /\ mem' = [mem EXCEPT !.profiled = TRUE] /\ pc = "profile" /\ pc' = "log"
        /\ UNCHANGED <<run, final, result>>
    BY <1>2 DEF WriteRunProfile
  <2>2. /\ mem'.form = mem.form /\ mem'.run = mem.run /\ mem'.status = mem.status
        /\ mem'.outcome = mem.outcome /\ mem'.findings = mem.findings
    BY <1>t, <2>1 DEF RunResult
  <2>3. mem.form = "real" /\ mem.run = run /\ ~final
    BY <1>t, <2>1 DEF MemOfRun, Route, Preparing
  <2>4. /\ \A t \in Tasks : mem.status[t] \notin Settled
        /\ mem.outcome = "blocked" /\ mem.findings = {} /\ result.run < run
    BY <1>t, <2>1 DEF Untouched, Preparing
  <2>5. Opens' /\ ~final'
    BY <1>t, <2>1, <2>2, <2>3, <2>4 DEF Opens
  <2>6. QED
    BY <2>1, <2>5 DEF Checkpointed
<1>3. CASE ~WriteRunProfile
  <2>0. Inside /\ OurRun
    BY <1>1, <1>3, <1>t, Within
  <2>1. CASE WriteCommandLog \/ WriteCommandTimeline
    <3>1. pc \in {"log", "timeline"} /\ pc' \in {"timeline", "result"}
      BY <2>1, StagesOf
    <3>2. UNCHANGED <<run, final, prof, mem, result, passed>>
      BY <2>1 DEF WriteCommandLog, WriteCommandTimeline, memory
    <3>3. IF final THEN Concludes ELSE Opens \/ \E t \in Tasks : SettlesCheck(t)
      BY <2>0, <3>1 DEF Checkpointed
    <3>4. (IF final THEN Concludes ELSE Opens \/ \E t \in Tasks : SettlesCheck(t))'
      BY <3>2, <3>3, SameDistance
    <3>5. QED
      BY <3>1, <3>4 DEF Checkpointed
  <2>2. CASE UpdateRunResult
    <3>1. result' = mem /\ mem' = mem
      BY <2>2 DEF UpdateRunResult, memory
    <3>2. pc' \in {"finish", "session"}
      <4>1. pc' \notin {"live", "leave"}
        BY <1>1 DEF AtWork
      <4>2. QED
        BY <2>2, <4>1, StagesOf
    <3>3. QED
      BY <3>1, <3>2 DEF Checkpointed
  <2>3. CASE OpenSession \/ Execute
    <3>1. pc \in {"session", "execute"} /\ pc' \in {"execute", "record"}
      BY <2>3, StagesOf
    <3>2. UNCHANGED <<mem, result>>
      BY <2>3 DEF OpenSession, Execute, reports
    <3>3. QED
      BY <2>0, <3>1, <3>2 DEF Checkpointed
  <2>4. CASE Settling
    <3>1. /\ ~final /\ final' = final /\ pc' = "log" /\ \E t \in Tasks : SettlesCheck(t)'
      BY <2>0, <2>4, SettlingIsOneStep
    <3>2. QED
      BY <3>1 DEF Checkpointed
  <2>5. CASE Finish
    <3>1. /\ mem' = [mem EXCEPT !.outcome = FinalOutcome(entries, mem.findings)]
          /\ pc = "finish" /\ pc' = "log" /\ final' = TRUE /\ UNCHANGED <<run, result>>
      BY <2>5 DEF Finish, reports
    <3>2. /\ mem'.form = mem.form /\ mem'.run = mem.run /\ mem'.status = mem.status
          /\ mem'.findings = mem.findings
      BY <1>t, <3>1 DEF RunResult
    <3>3. result = mem /\ mem.form = "real" /\ mem.run = run
      BY <1>t, <2>0, <3>1 DEF Checkpointed, MemOfRun, AtWork
    <3>4. result.outcome = "blocked"
      BY <1>t, <2>0, <3>1, <3>3 DEF OnDisk, AtWork
    <3>5. Concludes'
      BY <3>1, <3>2, <3>3, <3>4 DEF Concludes, SameHead
    <3>6. QED
      BY <3>1, <3>5 DEF Checkpointed
  <2>6. CASE LiveCheck \/ SaveLiveFindings \/ VerifyCompletion \/ WriteSummary
    BY <1>1, <2>6, StagesOf DEF AtWork
  <2>7. CASE UNCHANGED vars
    <3>1. UNCHANGED <<pc, run, final, prof, mem, result, passed>>
      BY <2>7 DEF vars, memory, reports
    <3>2. OurRun /\ pc \in {"session", "execute", "record", "finish"} => result = mem
      BY DEF Checkpointed
    <3>3. OurRun /\ pc \in {"log", "timeline", "result"} =>
            (IF final THEN Concludes ELSE Opens \/ \E t \in Tasks : SettlesCheck(t))'
      BY <3>1, SameDistance DEF Checkpointed
    <3>4. QED
      BY <2>0, <3>1, <3>2, <3>3 DEF Checkpointed
  <2>8. QED
    BY <2>0, <2>1, <2>2, <2>3, <2>4, <2>5, <2>6, <2>7 DEF Inside
<1>4. QED
  BY <1>2, <1>3

LEMMA MergingStep ==
  ASSUME ReportsInv, Merging, [Next]_vars
  PROVE  Merging'
<1>1. SUFFICES ASSUME pc' = "merge" PROVE Merging'
  BY DEF Merging
<1>2. CASE LiveCheck
  <2>1. result.form = "real" /\ found' = LiveFindings /\ result' = result
    BY <1>2 DEF LiveCheck, reports
  <2>2. LiveFindings \subseteq Promise!Live
    <3>1. SUFFICES ASSUME NEW f \in LiveFindings PROVE f \in Promise!Live
      OBVIOUS
    <3>2. PICK t \in Tasks : f = [origin |-> "live", task |-> t]
      BY DEF LiveFindings
    <3>3. QED
      BY <3>2 DEF Promise!Live, Findings
  <2>3. QED
    BY <2>1, <2>2 DEF Merging, Promise!Live
<1>3. CASE UNCHANGED vars
  BY <1>1, <1>3 DEF vars, memory, reports, Merging, Promise!Live
<1>4. QED
  BY <1>1, <1>2, <1>3, StagesOf, RestIsOurs DEF Ending

(* Where the process stands, and whether the record is in force.           *)
LEMMA WhoRecords ==
  ASSUME TypeOK, Route
  PROVE  /\ pc \in Preparing => Recording
         /\ OurRun => Recording
         /\ pc = "result" => Recording
         /\ pc \in AtWork => Recording
BY WhoWrites DEF OurRun, Recording, Preparing, AtWork, Closing, Route, TypeOK, Subcommands,
   RunCommands

(* A command that ends stops the recording and at most tears the record.   *)
LEMMA EndingStops ==
  ASSUME ReportsInv,
         \/ PlanFails \/ LiveCheckFails \/ VerifyFails \/ Leave \/ Crash \/ WriteFails
  PROVE  [Promise!Next]_(Promise!promise)
<1>t. result \in RunResult(Runs, Scopes) /\ profile \in ProfileFile
  BY DEF ReportsInv, TypeOK
<1>1. Recording' = FALSE /\ run' = run /\ passed' = passed
  BY DEF PlanFails, LiveCheckFails, VerifyFails, Leave, Crash, WriteFails, Return, Recording
<1>2. TearFile \/ UNCHANGED reports
  BY DEF PlanFails, LiveCheckFails, VerifyFails, Leave, Crash, WriteFails
<1>3. /\ result' = result \/ result' = [result EXCEPT !.form = "torn"]
      /\ profile' = profile \/ profile' = [profile EXCEPT !.form = "torn"]
  BY <1>2 DEF TearFile, reports
<1>4. /\ profile'.selected = profile.selected
      /\ result'.run = result.run /\ result'.status = result.status
      /\ result'.findings = result.findings /\ result'.outcome = result.outcome
      /\ result'.form \in {result.form, "torn"}
  BY <1>t, <1>3 DEF RunResult, ProfileFile
<1>5. UNCHANGED <<TasksWith(result, "pass"), TasksWith(result, "fail")>>
  BY <1>4 DEF TasksWith
<1>6. (result.form = "real")' \in {(result.form = "real"), FALSE}
  BY <1>4
<1>7. Promise!Stop
  BY <1>1, <1>4, <1>5, <1>6 DEF Promise!Stop
<1>8. QED
  BY <1>7 DEF Promise!Next

(* The record reaches the disk: it is opened, a check settled, or the run   *)
(* concluded.                                                               *)
LEMMA RecordSettles ==
  ASSUME TypeOK, NEW t \in Tasks, SettlesCheck(t), result' = mem,
         Recording = TRUE, Recording' = TRUE, profile.selected = prof.selected,
         UNCHANGED <<run, profile, passed>>
  PROVE  Promise!SettlePassed(t) \/ Promise!SettleFailed(t)
<1>1. SameHead /\ t \in prof.selected /\ result.status[t] \notin Settled
      /\ mem.outcome = result.outcome
      /\ \A u \in Tasks \ {t} : mem.status[u] = result.status[u]
  BY DEF SettlesCheck
<1>2. Promise!InForce
  BY <1>1 DEF SameHead, Promise!InForce
<1>3. t \in Promise!Unsettled
  BY <1>1 DEF Promise!Unsettled, TasksWith, Settled
<1>4. /\ Recording' = Recording /\ (result.form = "real")' = (result.form = "real")
      /\ UNCHANGED <<run, profile.selected, passed, result.run, result.outcome>>
  BY <1>1 DEF SameHead
<1>5. CASE <<run, t>> \in passed
  <2>1. mem.status[t] = "pass" /\ \E f \in SUBSET Promise!Slow(t) : mem.findings = result.findings \cup f
    BY <1>5 DEF SettlesCheck
  <2>2. /\ TasksWith(result, "pass")' = TasksWith(result, "pass") \cup {t}
        /\ TasksWith(result, "fail")' = TasksWith(result, "fail")
    BY <1>1, <2>1 DEF TasksWith, Settled
  <2>3. \E f \in SUBSET Promise!Slow(t) : result'.findings = result.findings \cup f
    BY <2>1
  <2>4. QED
    BY <1>2, <1>3, <1>4, <1>5, <2>2, <2>3 DEF Promise!SettlePassed
<1>6. CASE <<run, t>> \notin passed
  <2>1. mem.status[t] = "fail" /\ mem.findings = result.findings
    BY <1>6 DEF SettlesCheck
  <2>2. /\ TasksWith(result, "fail")' = TasksWith(result, "fail") \cup {t}
        /\ TasksWith(result, "pass")' = TasksWith(result, "pass")
    BY <1>1, <2>1 DEF TasksWith, Settled
  <2>3. result'.findings = result.findings
    BY <2>1
  <2>4. QED
    BY <1>2, <1>3, <1>4, <1>6, <2>2, <2>3 DEF Promise!SettleFailed
<1>7. QED
  BY <1>5, <1>6

LEMMA RecordConcludes ==
  ASSUME ReportsInv, OurRun, final, Concludes, result' = mem,
         Recording = TRUE, Recording' = TRUE, UNCHANGED <<run, profile, passed>>
  PROVE  Promise!Conclude \/ UNCHANGED Promise!promise
<1>1. /\ SameHead /\ result.outcome = "blocked"
      /\ mem.status = result.status /\ mem.findings = result.findings
  BY DEF Concludes
<1>2. /\ Recording' = Recording /\ (result.form = "real")' = (result.form = "real")
      /\ UNCHANGED <<run, profile.selected, passed, result.run, result.findings>>
  BY <1>1 DEF SameHead
<1>3. UNCHANGED <<TasksWith(result, "pass"), TasksWith(result, "fail")>>
  BY <1>1 DEF TasksWith
<1>4. /\ todo = {} /\ mem.outcome = FinalOutcome(entries, mem.findings)
      /\ \A t \in prof.selected : entries[t].status \in Settled /\ mem.status[t] = entries[t].status
      /\ \A t \in Tasks \ prof.selected : mem.status[t] \notin Settled /\ entries[t].status = "none"
  <2>1. Route /\ InOrder
    BY DEF ReportsInv
  <2>2. pc # "record"
    BY <2>1 DEF Route, AtWork
  <2>3. todo = {} /\ Done = prof.selected
    BY <2>1 DEF InOrder, Done
  <2>4. QED
    BY <2>1, <2>2, <2>3 DEF InOrder, NoEntries
<1>5. profile.selected = prof.selected /\ prof.selected \subseteq Tasks
  BY DEF ReportsInv, ProfileOfRun, TypeOK, RunProfileArtifact
<1>6. AnyFailures(entries) <=> TasksWith(result, "fail") # {}
  BY <1>1, <1>4, <1>5 DEF AnyFailures, TasksWith, Settled
<1>7. CASE TasksWith(result, "fail") # {}
  <2>1. result'.outcome = result.outcome
    BY <1>1, <1>4, <1>6, <1>7 DEF FinalOutcome
  <2>2. QED
    BY <1>2, <1>3, <2>1 DEF Promise!promise, Promise!record
<1>8. CASE TasksWith(result, "fail") = {}
  <2>1. result'.outcome = IF result.findings = {} THEN "pass" ELSE "fix-now"
    BY <1>1, <1>4, <1>6, <1>8 DEF FinalOutcome
  <2>2. Promise!Unsettled = {}
    BY <1>1, <1>4, <1>5 DEF Promise!Unsettled, TasksWith, Settled
  <2>3. Promise!InForce
    BY <1>1 DEF SameHead, Promise!InForce
  <2>4. QED
    BY <1>1, <1>2, <1>3, <1>8, <2>1, <2>2, <2>3 DEF Promise!Conclude
<1>9. QED
  BY <1>7, <1>8

LEMMA RecordOpens ==
  ASSUME Opens, result' = mem, Recording = TRUE, Recording' = TRUE,
         UNCHANGED <<run, profile, passed>>
  PROVE  Promise!Open
<1>1. /\ TasksWith(result, "pass")' = {} /\ TasksWith(result, "fail")' = {}
  BY DEF Opens, TasksWith, Settled
<1>2. /\ Recording' = Recording /\ (result.form = "real")' = TRUE
      /\ result'.run = run /\ result'.findings = {} /\ result'.outcome = "blocked"
      /\ result.run # run
  BY DEF Opens
<1>3. UNCHANGED <<run, profile.selected, passed>>
  OBVIOUS
<1>4. QED
  BY <1>1, <1>2, <1>3 DEF Promise!Open

LEMMA UpdateKeepsPromise ==
  ASSUME PromiseInv, UpdateRunResult
  PROVE  [Promise!Next]_(Promise!promise)
<1>t. /\ ReportsInv /\ Checkpointed /\ TypeOK /\ Route /\ Untouched /\ MemOfRun
      /\ result.run \in Nat /\ run \in Nat
  BY RunIsNumber DEF PromiseInv, ReportsInv, TypeOK, RunResult
<1>1. /\ pc = "result" /\ result' = mem /\ UNCHANGED <<cmd, run, profile, passed>>
  BY DEF UpdateRunResult
<1>2. Recording = TRUE /\ Recording' = TRUE
  <2>1. pc' # "idle"
    BY StagesOf
  <2>2. Recording
    BY <1>1, <1>t, WhoRecords
  <2>3. QED
    BY <1>1, <2>1, <2>2 DEF Recording
<1>3. CASE OurRun /\ final
  <2>1. Concludes
    BY <1>1, <1>3, <1>t DEF Checkpointed
  <2>2. QED
    BY <1>1, <1>2, <1>3, <1>t, <2>1, RecordConcludes DEF Promise!Next
<1>4. CASE OurRun /\ ~final
  <2>1. Opens \/ \E t \in Tasks : SettlesCheck(t)
    BY <1>1, <1>4, <1>t DEF Checkpointed
  <2>2. CASE Opens
    BY <1>1, <1>2, <2>2, RecordOpens DEF Promise!Next
  <2>3. ASSUME NEW t \in Tasks, SettlesCheck(t) PROVE Promise!Next
    <3>1. profile.selected = prof.selected
      BY <1>4 DEF PromiseInv, ReportsInv, ProfileOfRun
    <3>2. Promise!SettlePassed(t) \/ Promise!SettleFailed(t)
      BY <1>1, <1>2, <1>t, <2>3, <3>1, RecordSettles
    <3>3. QED
      BY <3>2 DEF Promise!Next
  <2>4. QED
    BY <2>1, <2>2, <2>3
<1>5. CASE ~OurRun
  <2>1. cmd = "scaffold-run"
    BY <1>1, <1>5, <1>t, WhoWrites
  <2>2. mem.form = "real" /\ mem.run = run
    BY <1>1, <1>t DEF MemOfRun, AtWork
  <2>3. Opens
    BY <1>1, <1>t, <2>1, <2>2 DEF Untouched, Opens
  <2>4. QED
    BY <1>1, <1>2, <2>3, RecordOpens DEF Promise!Next
<1>6. QED
  BY <1>3, <1>4, <1>5

(* A check passes while the record has it unsettled.                       *)
LEMMA PassIsProved ==
  ASSUME PromiseInv, RecordPass
  PROVE  [Promise!Next]_(Promise!promise)
<1>t. /\ ReportsInv /\ Checkpointed /\ TypeOK /\ TaskInHand /\ Route /\ MemOfRun /\ InOrder
      /\ ProfileOfRun
  BY DEF PromiseInv, ReportsInv
<1>1. /\ pc = "record" /\ pc' = "log" /\ passed' = passed \cup {<<run, task>>}
      /\ UNCHANGED <<cmd, run, result, profile>>
  BY DEF RecordPass, Settle, reports
<1>2. OurRun /\ task \in Tasks
  <2>1. cmd \in RunCommands
    BY <1>1, <1>t DEF Route, TypeOK, Subcommands, RunCommands, AtWork
  <2>2. QED
    BY <1>1, <1>t, <2>1 DEF OurRun, AtWork, TaskInHand
<1>3. Recording = TRUE /\ Recording' = TRUE
  BY <1>1, <1>2 DEF OurRun, Recording
<1>4. result = mem /\ mem.form = "real" /\ mem.run = run
  BY <1>1, <1>2, <1>t DEF Checkpointed, MemOfRun, AtWork
<1>5. task \in todo /\ task \in prof.selected /\ mem.status[task] \notin Settled
  BY <1>1, <1>2, <1>t DEF InOrder, Done
<1>6. task \in Promise!Unsettled
  <2>1. profile.selected = prof.selected
    BY <1>2, <1>t DEF ProfileOfRun
  <2>2. QED
    BY <1>4, <1>5, <2>1 DEF Promise!Unsettled, TasksWith, Settled
<1>7. Promise!InForce
  BY <1>3, <1>4 DEF Promise!InForce
<1>8. UNCHANGED <<TasksWith(result, "pass"), TasksWith(result, "fail")>>
  BY <1>1 DEF TasksWith
<1>9. /\ Recording' = Recording /\ (result.form = "real")' = (result.form = "real")
      /\ UNCHANGED <<run, profile.selected, result.run, result.findings, result.outcome>>
  BY <1>1, <1>3
<1>10. Promise!Prove(task)
  BY <1>1, <1>6, <1>7, <1>8, <1>9 DEF Promise!Prove, Promise!record
<1>11. QED
  BY <1>2, <1>10 DEF Promise!Next

(* The live checks judge the record.                                       *)
LEMMA LiveChecksJudge ==
  ASSUME PromiseInv, SaveLiveFindings
  PROVE  [Promise!Next]_(Promise!promise)
<1>t. result \in RunResult(Runs, Scopes)
  BY DEF PromiseInv, ReportsInv, TypeOK
<1>1. /\ pc = "merge" /\ pc' \in {"leave", "verify"}
      /\ UNCHANGED <<cmd, run, profile, passed>>
  BY DEF SaveLiveFindings
<1>2. /\ result'.findings = result.findings \cup found
      /\ result'.outcome = OutcomeAfterLive(result.outcome, found)
      /\ result'.form = result.form /\ result'.run = result.run
      /\ result'.status = result.status
  BY <1>t DEF SaveLiveFindings, RunResult, MergeFindings
<1>3. result.form = "real" /\ found \subseteq Promise!Live
  BY <1>1 DEF PromiseInv, Merging
<1>4. /\ Recording' = Recording /\ (result.form = "real")' = (result.form = "real")
      /\ UNCHANGED <<run, profile.selected, passed, result.run>>
  <2>1. Recording' = Recording
    BY <1>1 DEF Recording
  <2>2. QED
    BY <1>1, <1>2, <2>1
<1>5. UNCHANGED <<TasksWith(result, "pass"), TasksWith(result, "fail")>>
  BY <1>2 DEF TasksWith
<1>6. CASE found = {}
  <2>1. result'.findings = result.findings /\ result'.outcome = result.outcome
    BY <1>2, <1>6 DEF OutcomeAfterLive
  <2>2. QED
    BY <1>4, <1>5, <2>1 DEF Promise!promise, Promise!record
<1>7. CASE found # {}
  <2>1. result'.outcome = IF result.outcome = "pass" THEN "fix-now" ELSE result.outcome
    BY <1>t, <1>2, <1>7 DEF OutcomeAfterLive, ReleasableOutcomes, RunResult, Outcomes
  <2>2. \E f \in SUBSET Promise!Live : f # {} /\ result'.findings = result.findings \cup f
    BY <1>2, <1>3, <1>7
  <2>3. Promise!Judge
    BY <1>3, <1>4, <1>5, <2>1, <2>2 DEF Promise!Judge
  <2>4. QED
    BY <2>3 DEF Promise!Next
<1>8. QED
  BY <1>6, <1>7

LEMMA SameRecord ==
  ASSUME UNCHANGED <<run, profile, passed, result>>, Recording' = Recording
  PROVE  UNCHANGED Promise!promise
<1>1. UNCHANGED <<TasksWith(result, "pass"), TasksWith(result, "fail")>>
  BY DEF TasksWith
<1>2. (result.form = "real")' = (result.form = "real")
  OBVIOUS
<1>3. QED
  BY <1>1, <1>2 DEF Promise!promise, Promise!record

LEMMA BeginsAndChooses ==
  ASSUME ReportsInv, StartScaffold \/ StartRun \/ WriteRunProfile
  PROVE  [Promise!Next]_(Promise!promise)
<1>1. CASE StartScaffold \/ StartRun
  <2>1. /\ pc = "idle" /\ pc' = "placeholders" /\ cmd' \in RunCommands \cup {"scaffold-run"}
        /\ run' = run + 1 /\ UNCHANGED <<profile, passed, result>>
    BY <1>1 DEF StartScaffold, StartRun, BeginRun, Start, reports
  <2>2. Recording = FALSE /\ Recording' = TRUE
    BY <2>1 DEF Recording
  <2>3. UNCHANGED <<TasksWith(result, "pass"), TasksWith(result, "fail")>>
    BY <2>1 DEF TasksWith
  <2>4. (result.form = "real")' = (result.form = "real")
    BY <2>1
  <2>5. Promise!Begin
    BY <2>1, <2>2, <2>3, <2>4 DEF Promise!Begin, Promise!record
  <2>6. QED
    BY <2>5 DEF Promise!Next
<1>2. CASE WriteRunProfile
  <2>1. /\ pc = "profile" /\ pc' = "log" /\ UNCHANGED <<cmd, run, passed, result>>
        /\ profile'.selected = prof.selected
    BY <1>2 DEF WriteRunProfile
  <2>2. prof.selected \in SUBSET Tasks /\ result.run # run
    BY <2>1, RunIsNumber DEF ReportsInv, TypeOK, RunProfileArtifact, RunResult, Untouched,
       Preparing
  <2>3. Recording = TRUE /\ Recording' = TRUE
    <3>1. Recording
      BY <2>1, WhoRecords DEF ReportsInv, Preparing
    <3>2. QED
      BY <2>1, <3>1 DEF Recording
  <2>4. UNCHANGED <<TasksWith(result, "pass"), TasksWith(result, "fail")>>
    BY <2>1 DEF TasksWith
  <2>5. (result.form = "real")' = (result.form = "real")
    BY <2>1
  <2>6. Promise!Choose
    BY <2>1, <2>2, <2>3, <2>4, <2>5 DEF Promise!Choose, Promise!record
  <2>7. QED
    BY <2>6 DEF Promise!Next
<1>3. QED
  BY <1>1, <1>2

LEMMA OtherStepsKeepRecord ==
  ASSUME [Next]_vars,
         \/ RefuseRun \/ StartLive \/ WritePlaceholder \/ TakeStart \/ PlanRun
         \/ WriteCommandLog \/ WriteCommandTimeline \/ OpenSession \/ FailSession \/ Execute
         \/ RecordFail \/ Finish \/ LiveCheck \/ VerifyCompletion \/ WriteSummary
         \/ UNCHANGED vars
  PROVE  UNCHANGED Promise!promise
<1>1. UNCHANGED <<run, profile, passed, result>>
  BY DEF RefuseRun, StartLive, WritePlaceholder, TakeStart, PlanRun, WriteCommandLog,
     WriteCommandTimeline, OpenSession, FailSession, Execute, RecordFail, Finish, LiveCheck,
     VerifyCompletion, WriteSummary, vars, reports
<1>2. Recording' = Recording
  <2>1. CASE RefuseRun
    BY <2>1, StagesOf DEF Recording
  <2>2. CASE StartLive
    BY <2>2, StagesOf DEF Recording, RunCommands
  <2>3. CASE UNCHANGED vars
    BY <2>3 DEF vars, Recording
  <2>4. CASE \/ WritePlaceholder \/ TakeStart \/ PlanRun
             \/ WriteCommandLog \/ WriteCommandTimeline \/ OpenSession \/ FailSession
             \/ Execute \/ RecordFail \/ Finish \/ LiveCheck \/ VerifyCompletion \/ WriteSummary
    <3>1. pc # "idle" /\ pc' # "idle"
      BY <2>4, StagesOf DEF Settling
    <3>2. cmd' = cmd
      BY <2>4 DEF WritePlaceholder, TakeStart, PlanRun, WriteCommandLog, WriteCommandTimeline,
         OpenSession, FailSession, Execute, RecordFail, Finish, LiveCheck, VerifyCompletion,
         WriteSummary
    <3>3. QED
      BY <3>1, <3>2 DEF Recording
  <2>5. QED
    BY <2>1, <2>2, <2>3, <2>4
<1>3. QED
  BY <1>1, <1>2, SameRecord

LEMMA PromiseStep ==
  ASSUME PromiseInv, [Next]_vars
  PROVE  [Promise!Next]_(Promise!promise)
<1>1. ReportsInv
  BY DEF PromiseInv
<1>2. CASE \/ PlanFails \/ LiveCheckFails \/ VerifyFails \/ Leave \/ Crash \/ WriteFails
  BY <1>1, <1>2, EndingStops
<1>3. CASE StartScaffold \/ StartRun \/ WriteRunProfile
  BY <1>1, <1>3, BeginsAndChooses
<1>4. CASE UpdateRunResult
  BY <1>4, UpdateKeepsPromise
<1>5. CASE RecordPass
  BY <1>5, PassIsProved
<1>6. CASE SaveLiveFindings
  BY <1>6, LiveChecksJudge
<1>7. CASE \/ RefuseRun \/ StartLive \/ WritePlaceholder \/ TakeStart \/ PlanRun
           \/ WriteCommandLog \/ WriteCommandTimeline \/ OpenSession \/ FailSession \/ Execute
           \/ RecordFail \/ Finish \/ LiveCheck \/ VerifyCompletion \/ WriteSummary
           \/ UNCHANGED vars
  BY <1>7, OtherStepsKeepRecord
<1>8. QED
  BY <1>2, <1>3, <1>4, <1>5, <1>6, <1>7 DEF Next, Operator, Work

LEMMA PromiseInit == Init => PromiseInv /\ Promise!Init
<1> SUFFICES ASSUME Init PROVE PromiseInv /\ Promise!Init
  OBVIOUS
<1>1. PromiseInv
  BY ReportsInit DEF Init, PromiseInv, Checkpointed, Merging, OurRun, RunCommands
<1>2. /\ pc = "idle" /\ run = 0 /\ profile.selected = {} /\ passed = {} /\ result = NoResult
  BY DEF Init
<1>3. /\ NoResult.run = 0 /\ NoResult.form = "absent" /\ NoResult.findings = {}
      /\ NoResult.outcome = "blocked" /\ \A t \in Tasks : NoResult.status[t] \notin Settled
  BY DEF NoResult, ScaffoldRun, Settled
<1>4. TasksWith(result, "pass") = {} /\ TasksWith(result, "fail") = {}
  BY <1>2, <1>3 DEF TasksWith, Settled
<1>5. Recording = FALSE /\ (result.form = "real") = FALSE
  BY <1>2, <1>3 DEF Recording
<1>6. Promise!Init
  BY <1>2, <1>3, <1>4, <1>5 DEF Promise!Init
<1>7. QED
  BY <1>1, <1>6

(* Whenever a command is killed and whatever runs share the directory, the  *)
(* run result on disk is one that RunPromise promises its reader.           *)
THEOREM RunKeepsRecord == Spec => KeepsRecord
<1>1. PromiseInv /\ [Next]_vars => PromiseInv'
  BY ReportsStep, CheckpointedStep, MergingStep DEF PromiseInv
<1>2. PromiseInv /\ [Next]_vars => [Promise!Next]_(Promise!promise)
  BY PromiseStep
<1>3. QED
  BY <1>1, <1>2, PromiseInit, PTL DEF Spec, KeepsRecord, Promise!Spec
=============================================================================
