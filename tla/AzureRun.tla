------------------------------ MODULE AzureRun ------------------------------
(***************************************************************************)
(* labctl at work on one run directory (--output-dir): scaffold-run,       *)
(* run-azure-execution, run-azure-validation and live-validate-run         *)
(* (internal/lab/run.go, cmd/labctl/main.go).                              *)
(*                                                                         *)
(* One process at a time works on the directory.  Commands follow each     *)
(* other in the same directory, and any of them may be killed or have a    *)
(* write fail; each os.WriteFile is a step of its own.  labctl validate    *)
(* only reads: its answer is a function of the state (Completion).  The    *)
(* tool under test is external: it passes or fails, prints or is silent,   *)
(* and what it prints satisfies the live checks or does not.               *)
(***************************************************************************)
EXTENDS Completion

CONSTANTS
  Manifests,    \* the manifests the operator may pass
  Requests,     \* the selections the operator may ask for
  Shipped,      \* the surfaces HO-Azure ships (DeriveSurface)
  PlanOrder,    \* position of each task in BuildSurfacePlan's order
  NoTask,       \* no task in hand
  FlagSlow,     \* --slow-command-seconds is not 0
  Prints,       \* what the tool may print: "nothing", a "good" or a "bad" payload
  Builds,       \* the tool may have to be built first (TRUE), be given (FALSE)
  MaxRuns       \* bound: how many runs are started in the directory

ASSUME ManifestsAssumption == Manifests # {} /\ Manifests \subseteq Manifest
ASSUME RequestsAssumption  == Requests # {} /\ Requests \subseteq Request
ASSUME ShippedAssumption   == Shipped \subseteq Surfaces
ASSUME OrderAssumption     ==
  /\ PlanOrder \in [Tasks -> Nat]
  /\ \A t, u \in Tasks : PlanOrder[t] = PlanOrder[u] => t = u
ASSUME NoTaskAssumption    == NoTask \notin Tasks
ASSUME SlowAssumption      == FlagSlow \in BOOLEAN
ASSUME PrintsAssumption    == Prints \subseteq {"nothing", "good", "bad"}
ASSUME BuildsAssumption    == Builds \subseteq BOOLEAN
ASSUME MaxRunsAssumption   == MaxRuns \in Nat

VARIABLES
  pc,         \* where the process stands
  cmd,        \* the subcommand it executes, or executed last
  exit,       \* how the last one ended
  run,        \* number of the run, counting every run started here
  \* memory of the process
  man, req,   \* --manifest and the selection flags
  pending,    \* placeholders still to write
  mem,        \* runResult
  prof,       \* runProfile
  todo, task, \* the tasks not yet reached and the one in hand
  entries,    \* the command log entries so far
  final,      \* the final outcome is computed
  found,      \* findings of the live checks
  verdict,    \* what ValidateLab returned
  \* the disk
  log, timeline, demo, result, profile, summary,
  payload,    \* stdout.json of each task
  dirs,       \* <<run, task>> whose session directory (AZURE_CONFIG_DIR) exists
  builds,     \* runs whose build directory exists
  \* history
  passed      \* <<run, task>> that passed in that run, context captured

memory == <<man, req, pending, mem, prof, todo, task, entries, final, found, verdict>>
reports == <<log, timeline, demo, result, profile, summary>>
vars == <<pc, cmd, exit, run, memory, reports, payload, dirs, builds, passed>>

-----------------------------------------------------------------------------
(* Types *)

Runs    == 0..MaxRuns
Scopes  == {RunScope(m) : m \in Manifests}
Entry   == [status : {"none", "pass", "fail"}, payload : BOOLEAN]
Payload == [form : {"absent", "real"}, run : Runs, good : BOOLEAN]

LogFile     == [form : Forms, stamp : Stamp(Runs), entries : [Tasks -> Entry]]
DemoFile    == [form : Forms, stamp : Stamp(Runs)]
ProfileFile == [form : Forms, run : Runs, profile : ProfileNames,
                selected : SUBSET Tasks, skipped : SUBSET Tasks]
SummaryFile == [form : Forms, run : Runs, complete : BOOLEAN, ready : BOOLEAN]
Verdict     == [complete : BOOLEAN, ready : BOOLEAN]

Stages == {"idle", "placeholders", "plan", "profile", "log", "timeline", "result",
           "session", "execute", "record", "finish", "live", "merge", "verify",
           "summary", "leave"}
RunCommands  == {"execution", "validation"}
Subcommands  == RunCommands \cup {"none", "scaffold-run", "live", "live-write"}
(* "error" is exit status 1 with an error instead of a report. *)
ExitCodes    == {"none", "0", "1", "error", "killed"}

NoEntries == [t \in Tasks |-> [status |-> "none", payload |-> FALSE]]
NoVerdict == [complete |-> FALSE, ready |-> FALSE]
NoRunProfile == [profile |-> "selector", selected |-> {}, skipped |-> {}]
AnyManifest == CHOOSE m \in Manifests : TRUE
AnyRequest  == CHOOSE r \in Requests : TRUE

At(started) == [run |-> run, started |-> started]

(* ScaffoldRun: every covered viewpoint starts as "blocked". *)
ScaffoldRun(m, demoExpected, r, sameSecond) ==
  [form       |-> "real",
   run        |-> r,
   sameSecond |-> sameSecond,
   scope      |-> RunScope(m),
   status     |-> [t \in Tasks |-> IF Covered(m, t) THEN "blocked" ELSE "none"],
   outcome    |-> "blocked",
   findings   |-> {},
   demo       |-> demoExpected,
   artifacts  |-> RequiredArtifacts(m, demoExpected),
   profiled   |-> FALSE]

NoResult == [ScaffoldRun(AnyManifest, FALSE, 0, FALSE) EXCEPT !.form = "absent"]

TypeOK ==
  /\ pc \in Stages /\ cmd \in Subcommands /\ exit \in ExitCodes /\ run \in Runs
  /\ man \in Manifests /\ req \in Request
  /\ pending \subseteq ArtifactIDs
  /\ mem \in RunResult(Runs, Scopes)
  /\ prof \in RunProfileArtifact
  /\ todo \subseteq Tasks /\ task \in Tasks \cup {NoTask}
  /\ entries \in [Tasks -> Entry]
  /\ final \in BOOLEAN /\ found \subseteq Findings /\ verdict \in Verdict
  /\ log \in LogFile /\ timeline \in LogFile /\ demo \in DemoFile
  /\ result \in RunResult(Runs, Scopes)
  /\ profile \in ProfileFile /\ summary \in SummaryFile
  /\ payload \in [Tasks -> Payload]
  /\ dirs \subseteq Runs \X Tasks /\ builds \subseteq Runs
  /\ passed \subseteq Runs \X Tasks

-----------------------------------------------------------------------------
(* Start and end of a command *)

Init ==
  /\ pc = "idle" /\ cmd = "none" /\ exit = "none" /\ run = 0
  /\ man = AnyManifest /\ req = AnyRequest
  /\ pending = {} /\ mem = NoResult /\ prof = NoRunProfile
  /\ todo = {} /\ task = NoTask /\ entries = NoEntries
  /\ final = FALSE /\ found = {} /\ verdict = NoVerdict
  /\ log = [form |-> "absent", stamp |-> At(FALSE), entries |-> NoEntries]
  /\ timeline = log
  /\ demo = [form |-> "absent", stamp |-> At(FALSE)]
  /\ result = NoResult
  /\ profile = [form |-> "absent", run |-> 0, profile |-> "selector",
                selected |-> {}, skipped |-> {}]
  /\ summary = [form |-> "absent", run |-> 0, complete |-> FALSE, ready |-> FALSE]
  /\ payload = [t \in Tasks |-> [form |-> "absent", run |-> 0, good |-> FALSE]]
  /\ dirs = {} /\ builds = {} /\ passed = {}

(* The process ends: what it held in memory is gone. *)
Return(code) ==
  /\ pc' = "idle" /\ exit' = code
  /\ man' = AnyManifest /\ req' = AnyRequest
  /\ pending' = {} /\ mem' = NoResult /\ prof' = NoRunProfile
  /\ todo' = {} /\ task' = NoTask /\ entries' = NoEntries
  /\ final' = FALSE /\ found' = {} /\ verdict' = NoVerdict

Start(c, stage) == pc = "idle" /\ cmd' = c /\ exit' = "none" /\ pc' = stage

(* A run begins with ScaffoldRun's first loop, over the required artifacts. *)
BeginRun(c, m, r) ==
  /\ run < MaxRuns
  /\ Start(c, "placeholders")
  /\ run' = run + 1 /\ man' = m /\ req' = r
  /\ pending' = RequiredArtifacts(m, r.demo)
  /\ UNCHANGED <<mem, prof, todo, task, entries, final, found, verdict>>
  /\ UNCHANGED <<reports, payload, dirs, passed>>

StartScaffold ==
  \E m \in Manifests, r \in Requests : BeginRun("scaffold-run", m, r) /\ UNCHANGED builds

(* Without --tool-bin ResolveBaseCommand builds the tool in a directory of *)
(* its own.                                                                *)
StartRun ==
  \E c \in RunCommands, m \in Manifests, r \in Requests :
    /\ BeginRun(c, m, r)
    /\ \E b \in Builds : builds' = IF b THEN builds \cup {run + 1} ELSE builds

(* The manifest, the tool's sources or the binary is not usable. *)
RefuseRun ==
  \E c \in RunCommands :
    /\ pc = "idle" /\ cmd' = c /\ exit' = "error"
    /\ UNCHANGED <<pc, run, memory, reports, payload, dirs, builds, passed>>

StartLive ==
  \E c \in {"live", "live-write"} :
    /\ Start(c, "live")
    /\ UNCHANGED <<run, memory, reports, payload, dirs, builds, passed>>

-----------------------------------------------------------------------------
(* Before the first task *)

Placeholder == [form |-> "placeholder", stamp |-> At(FALSE)]
PlaceholderLog == [form |-> "placeholder", stamp |-> At(FALSE), entries |-> NoEntries]

WritePlaceholder ==
  \E a \in pending :
    /\ pc = "placeholders" /\ pending' = pending \ {a}
    /\ log'      = IF a = "command_log" THEN PlaceholderLog ELSE log
    /\ timeline' = IF a = "command_timeline" THEN PlaceholderLog ELSE timeline
    /\ demo'     = IF a = "demo_capture_index" THEN Placeholder ELSE demo
    /\ UNCHANGED <<pc, cmd, exit, run, man, req, mem, prof, todo, task, entries, final,
                   found, verdict, result, profile, summary, payload, dirs, builds, passed>>

(* The run result takes its started_at after the placeholders are written. *)
TakeStart ==
  /\ pc = "placeholders" /\ pending = {}
  /\ \E sameSecond \in BOOLEAN : mem' = ScaffoldRun(man, req.demo, run, sameSecond)
  /\ pc' = IF cmd = "scaffold-run" THEN "result" ELSE "plan"
  /\ UNCHANGED <<cmd, exit, run, man, req, pending, prof, todo, task, entries, final,
                 found, verdict, reports, payload, dirs, builds, passed>>

PlanRun ==
  /\ pc = "plan" /\ ProfileBuilds(man, req)
  /\ prof' = BuildRunProfile(man, req)
  /\ todo' = SelectedTasks(man, req)
  /\ pc' = "profile"
  /\ UNCHANGED <<cmd, exit, run, man, req, pending, mem, task, entries, final, found,
                 verdict, reports, payload, dirs, builds, passed>>

(* A selector is refused, or resolveRunContext finds no credentials, tenant *)
(* or subscription.                                                         *)
PlanFails ==
  /\ pc = "plan" /\ Return("error")
  /\ builds' = builds \ {run}
  /\ UNCHANGED <<cmd, run, reports, payload, dirs, passed>>

WriteRunProfile ==
  /\ pc = "profile"
  /\ profile' = [form |-> "real", run |-> run, profile |-> prof.profile,
                 selected |-> prof.selected, skipped |-> prof.skipped]
  /\ mem' = [mem EXCEPT !.profiled = TRUE]
  /\ pc' = "log"
  /\ UNCHANGED <<cmd, exit, run, man, req, pending, prof, todo, task, entries, final, found,
                 verdict, log, timeline, demo, result, summary, payload, dirs, builds, passed>>

-----------------------------------------------------------------------------
(* Command log, timeline, run result: written in this order before the     *)
(* first task, after each task and after the last.                         *)

RealLog == [form |-> "real", stamp |-> At(TRUE), entries |-> entries]

WriteCommandLog ==
  /\ pc = "log" /\ log' = RealLog /\ pc' = "timeline"
  /\ UNCHANGED <<cmd, exit, run, memory, timeline, demo, result, profile, summary,
                 payload, dirs, builds, passed>>

WriteCommandTimeline ==
  /\ pc = "timeline" /\ timeline' = RealLog /\ pc' = "result"
  /\ UNCHANGED <<cmd, exit, run, memory, log, demo, result, profile, summary,
                 payload, dirs, builds, passed>>

UpdateRunResult ==
  /\ pc = "result" /\ result' = mem
  /\ pc' = CASE cmd \in RunCommands /\ ~final -> IF todo = {} THEN "finish" ELSE "session"
             [] cmd = "validation" /\ final   -> "live"
             [] OTHER                         -> "leave"
  /\ builds' = IF cmd = "validation" /\ final THEN builds \ {run} ELSE builds
  /\ UNCHANGED <<cmd, exit, run, memory, log, timeline, demo, profile, summary,
                 payload, dirs, passed>>

-----------------------------------------------------------------------------
(* One task *)

IsNext(t) == t \in todo /\ \A u \in todo : PlanOrder[t] <= PlanOrder[u]

OpenSession ==
  \E t \in todo :
    /\ pc = "session" /\ IsNext(t)
    /\ task' = t /\ dirs' = dirs \cup {<<run, t>>} /\ pc' = "execute"
    /\ UNCHANGED <<cmd, exit, run, man, req, pending, mem, prof, todo, entries, final, found,
                   verdict, reports, payload, builds, passed>>

(* Mutants of Settle: the run result goes to disk before the log; the run  *)
(* stops at the first failure; a task is never ticked off; the reports are *)
(* written at the end only.                                                *)
Settle_ResultFirst(t, status, hasPayload, findings) ==
  /\ entries' = [entries EXCEPT ![t] = [status |-> status, payload |-> hasPayload]]
  /\ mem' = [mem EXCEPT !.status[t] = status, !.findings = @ \cup findings]
  /\ todo' = todo \ {t} /\ task' = NoTask
  /\ pc' = "result"
Settle_StopAtFailure(t, status, hasPayload, findings) ==
  /\ entries' = [entries EXCEPT ![t] = [status |-> status, payload |-> hasPayload]]
  /\ mem' = [mem EXCEPT !.status[t] = status, !.findings = @ \cup findings]
  /\ todo' = (IF status = "fail" THEN {} ELSE todo \ {t}) /\ task' = NoTask
  /\ pc' = "log"
Settle_KeepTodo(t, status, hasPayload, findings) ==
  /\ entries' = [entries EXCEPT ![t] = [status |-> status, payload |-> hasPayload]]
  /\ mem' = [mem EXCEPT !.status[t] = status, !.findings = @ \cup findings]
  /\ task' = NoTask /\ pc' = "log" /\ UNCHANGED todo

Settle_NoCheckpoint(t, status, hasPayload, findings) ==
  /\ entries' = [entries EXCEPT ![t] = [status |-> status, payload |-> hasPayload]]
  /\ mem' = [mem EXCEPT !.status[t] = status, !.findings = @ \cup findings]
  /\ todo' = todo \ {t} /\ task' = NoTask
  /\ pc' = IF todo' = {} THEN "log" ELSE "session"

(* The entry and the status of task t are settled. *)
Settle(t, status, hasPayload, findings) ==
  /\ entries' = [entries EXCEPT ![t] = [status |-> status, payload |-> hasPayload]]
  /\ mem' = [mem EXCEPT !.status[t] = status, !.findings = @ \cup findings]
  /\ todo' = todo \ {t} /\ task' = NoTask
  /\ pc' = "log"

(* No credentials, or az login or az account fails.  Once the directory is *)
(* made setupViewpointSession and setupAdminAmbientSession return without  *)
(* its name, and the caller has nothing to remove.                         *)
FailSession ==
  \E t \in todo :
    /\ pc = "session" /\ IsNext(t)
    /\ Settle(t, "fail", FALSE, {})
    /\ dirs' \in {dirs, dirs \cup {<<run, t>>}}
    /\ UNCHANGED <<cmd, exit, run, man, req, pending, prof, final, found, verdict, reports,
                   payload, builds, passed>>

(* executeTask.  stdout.json is written when the tool printed something,   *)
(* whatever its exit status; what an earlier run left there stays          *)
(* otherwise.                                                              *)
Execute ==
  /\ pc = "execute" /\ pc' = "record"
  /\ \E status \in {"pass", "fail"}, print \in Prints :
       LET written == IF print = "nothing" THEN payload[task]
                      ELSE [form |-> "real", run |-> run, good |-> print = "good"]
       IN  /\ payload' = [payload EXCEPT ![task] = written]
           /\ entries' = [entries EXCEPT ![task] =
                [status |-> status, payload |-> written.form = "real"]]
  /\ UNCHANGED <<cmd, exit, run, man, req, pending, mem, prof, todo, task, final, found,
                 verdict, reports, dirs, builds, passed>>

CloseSession_Forgotten == dirs' = dirs  \* mutant

CloseSession == dirs' = dirs \ {<<run, task>>}

(* The context of the check is captured from Azure; a slow pass is a       *)
(* finding.                                                                *)
RecordPass ==
  /\ pc = "record" /\ entries[task].status = "pass"
  /\ \E slow \in {FALSE, FlagSlow} :
       Settle(task, "pass", entries[task].payload,
              IF slow THEN {[origin |-> "slow", task |-> task]} ELSE {})
  /\ CloseSession
  /\ passed' = passed \cup {<<run, task>>}
  /\ UNCHANGED <<cmd, exit, run, man, req, pending, prof, final, found, verdict, reports,
                 payload, builds>>

(* The tool failed, or a capture did. *)
RecordFail ==
  /\ pc = "record"
  /\ Settle(task, "fail", entries[task].payload, {})
  /\ CloseSession
  /\ UNCHANGED <<cmd, exit, run, man, req, pending, prof, final, found, verdict, reports,
                 payload, builds, passed>>

-----------------------------------------------------------------------------
(* After the last task *)

AnyFailures(log_entries) == \E t \in Tasks : log_entries[t].status = "fail"

FinalOutcome(log_entries, findings) ==
  IF AnyFailures(log_entries) THEN "blocked"
  ELSE IF findings # {} THEN "fix-now" ELSE "pass"

Finish ==
  /\ pc = "finish" /\ final' = TRUE /\ pc' = "log"
  /\ mem' = [mem EXCEPT !.outcome = FinalOutcome(entries, mem.findings)]
  /\ UNCHANGED <<cmd, exit, run, man, req, pending, prof, todo, task, entries, found,
                 verdict, reports, payload, dirs, builds, passed>>

(* ValidateLiveRun: a passing entry whose payload is unrecorded, missing or *)
(* not what Azure shows.                                                    *)
LiveFindings ==
  {[origin |-> "live", task |-> t] : t \in
     {u \in Tasks : /\ log.form = "real" /\ log.entries[u].status = "pass"
                    /\ ~(log.entries[u].payload /\ payload[u].form = "real"
                                                /\ payload[u].good)}}

(* The run result and the command log must parse (a placeholder log does,  *)
(* as a log without entries).  artifacts/live-validation-summary.json is   *)
(* written here and read by nothing.                                       *)
LiveCheck ==
  /\ pc = "live" /\ result.form = "real" /\ log.form \in {"real", "placeholder"}
  /\ found' = LiveFindings
  /\ pc' = IF cmd = "live" THEN "leave" ELSE "merge"
  /\ UNCHANGED <<cmd, exit, run, man, req, pending, mem, prof, todo, task, entries, final,
                 verdict, reports, payload, dirs, builds, passed>>

(* One of the two does not parse, or a context artifact does not. *)
LiveCheckFails ==
  /\ pc = "live" /\ Return("error")
  /\ UNCHANGED <<cmd, run, reports, payload, dirs, builds, passed>>

MergeFindings_Replace(existing, incoming) == incoming     \* mutant

MergeFindings(existing, incoming) == existing \cup incoming

OutcomeAfterLive_Kept(outcome, incoming) == outcome     \* mutant

OutcomeAfterLive(outcome, incoming) ==
  IF incoming # {} /\ outcome \in ReleasableOutcomes THEN "fix-now" ELSE outcome

SaveLiveFindings ==
  /\ pc = "merge"
  /\ result' = [result EXCEPT !.findings = MergeFindings(@, found),
                              !.outcome  = OutcomeAfterLive(@, found)]
  /\ pc' = IF cmd = "live-write" THEN "leave" ELSE "verify"
  /\ UNCHANGED <<cmd, exit, run, memory, log, timeline, demo, profile, summary,
                 payload, dirs, builds, passed>>

ArtifactFiles ==
  [a \in ArtifactIDs |->
     CASE a = "command_log"        -> [form |-> log.form, stamp |-> log.stamp]
       [] a = "command_timeline"   -> [form |-> timeline.form, stamp |-> timeline.stamp]
       [] a = "demo_capture_index" -> demo]

VerifyCompletion ==
  /\ pc = "verify" /\ ValidateLabReads(result, profile)
  /\ verdict' = [complete |-> Complete(man, Shipped, result, profile, ArtifactFiles),
                 ready    |-> ReleaseReady(man, Shipped, result, profile, ArtifactFiles)]
  /\ pc' = "summary"
  /\ UNCHANGED <<cmd, exit, run, man, req, pending, mem, prof, todo, task, entries, final,
                 found, reports, payload, dirs, builds, passed>>

(* The manifest or the tool's sources can no longer be read. *)
VerifyFails ==
  /\ pc = "verify" /\ Return("error")
  /\ UNCHANGED <<cmd, run, reports, payload, dirs, builds, passed>>

WriteSummary ==
  /\ pc = "summary"
  /\ summary' = [form |-> "real", run |-> run,
                 complete |-> verdict.complete, ready |-> verdict.ready]
  /\ pc' = "leave"
  /\ UNCHANGED <<cmd, exit, run, memory, log, timeline, demo, result, profile, payload,
                 dirs, builds, passed>>


RunExit(r) == IF r.outcome = "pass" THEN "0" ELSE "1"

LiveExit(findings) == IF findings = {} THEN "0" ELSE "1"

(* Mutant: the live checks have no say. *)
ValidationExit_NoLive ==
  IF RunExit(mem) = "0" /\ verdict.complete THEN "0" ELSE "1"

ValidationExit ==
  IF RunExit(mem) = "0" /\ LiveExit(found) = "0" /\ verdict.complete THEN "0" ELSE "1"

(* The process ends with a report; RunAzureValidation's deferred cleanup    *)
(* removes the built tool.                                                  *)
Leave ==
  /\ pc = "leave"
  /\ Return(CASE cmd = "scaffold-run"           -> "0"
              [] cmd = "execution"              -> RunExit(mem)
              [] cmd \in {"live", "live-write"} -> LiveExit(found)
              [] OTHER                          -> ValidationExit)
  /\ builds' = IF cmd = "execution" THEN builds \ {run} ELSE builds
  /\ UNCHANGED <<cmd, run, reports, payload, dirs, passed>>

-----------------------------------------------------------------------------
(* Failures *)

TornLog == [form |-> "torn", stamp |-> At(pc # "placeholders"), entries |-> NoEntries]

(* The write in progress is cut short: the file exists and holds a prefix. *)
TearFile ==
  \/ /\ pc = "log" \/ (pc = "placeholders" /\ "command_log" \in pending)
     /\ log' = TornLog /\ UNCHANGED <<timeline, demo, result, profile, summary>>
  \/ /\ pc = "timeline" \/ (pc = "placeholders" /\ "command_timeline" \in pending)
     /\ timeline' = TornLog /\ UNCHANGED <<log, demo, result, profile, summary>>
  \/ /\ pc = "placeholders" /\ "demo_capture_index" \in pending
     /\ demo' = [form |-> "torn", stamp |-> At(FALSE)]
     /\ UNCHANGED <<log, timeline, result, profile, summary>>
  \/ /\ pc \in {"result", "merge"} /\ result' = [result EXCEPT !.form = "torn"]
     /\ UNCHANGED <<log, timeline, demo, profile, summary>>
  \/ /\ pc = "profile" /\ profile' = [profile EXCEPT !.form = "torn"]
     /\ UNCHANGED <<log, timeline, demo, result, summary>>
  \/ /\ pc = "summary" /\ summary' = [summary EXCEPT !.form = "torn"]
     /\ UNCHANGED <<log, timeline, demo, result, profile>>

Crash ==
  /\ pc # "idle" /\ Return("killed")
  /\ TearFile \/ UNCHANGED reports
  /\ UNCHANGED <<cmd, run, payload, dirs, builds, passed>>

Writing == \/ pc \in {"log", "timeline", "result", "profile", "merge", "summary"}
           \/ (pc = "placeholders" /\ pending # {})
           \/ (pc = "leave" /\ cmd = "validation")     \* completion-summary.txt

(* WriteJSON returns an error and with it the command; the deferred cleanup *)
(* of the build directory runs.                                             *)
WriteFails ==
  /\ Writing /\ Return("error")
  /\ TearFile \/ UNCHANGED reports
  /\ builds' = IF cmd \in RunCommands THEN builds \ {run} ELSE builds
  /\ UNCHANGED <<cmd, run, payload, dirs, passed>>

-----------------------------------------------------------------------------
Operator == StartScaffold \/ StartRun \/ RefuseRun \/ StartLive

Work ==
  \/ WritePlaceholder \/ TakeStart \/ PlanRun \/ PlanFails \/ WriteRunProfile
  \/ WriteCommandLog \/ WriteCommandTimeline \/ UpdateRunResult
  \/ OpenSession \/ FailSession \/ Execute \/ RecordPass \/ RecordFail \/ Finish
  \/ LiveCheck \/ LiveCheckFails \/ SaveLiveFindings
  \/ VerifyCompletion \/ VerifyFails \/ WriteSummary \/ Leave

Next == Operator \/ Work \/ Crash \/ WriteFails

Spec == Init /\ [][Next]_vars

(* The process keeps running; az, the tool and the disk answer in the end. *)
FairSpec == Spec /\ WF_vars(Work)
-----------------------------------------------------------------------------
(* Properties *)

(* The three reports of one run never contradict each other, whenever the  *)
(* process dies: the run result settles no task that the timeline does not *)
(* settle alike, the timeline lists no entry that the log does not list.   *)
(* (WriteCommandLog, WriteCommandTimeline, UpdateRunResultPath after each  *)
(* task.)                                                                  *)
NewestFirst ==
  \A t \in Tasks :
    /\ /\ log.form = "real" /\ timeline.form = "real"
       /\ log.stamp.run = timeline.stamp.run
       /\ timeline.entries[t].status # "none"
       => log.entries[t] = timeline.entries[t]
    /\ /\ result.form = "real" /\ timeline.form = "real"
       /\ result.run = timeline.stamp.run
       /\ result.status[t] \in {"pass", "fail"}
       => timeline.entries[t].status = result.status[t]

(* Whatever mixture of runs the directory holds, if labctl validate calls  *)
(* it release-ready then each covered viewpoint of the manifest was        *)
(* executed in the run that wrote run-result.json, and passed.             *)
ReleaseIsEarned ==
  \A m \in Manifests :
    /\ ValidateLabReads(result, profile)
    /\ ReleaseReady(m, Shipped, result, profile, ArtifactFiles)
    => \A t \in Tasks : Covered(m, t) => <<result.run, t>> \in passed

(* A run result says "pass" only when no finding is on record and nothing  *)
(* the run selected failed or is still to be done (RunAzureValidation's    *)
(* outcome, SaveLiveValidationSummary's downgrade).                        *)
OutcomeIsHonest ==
  result.form = "real" /\ result.outcome = "pass" =>
    /\ result.findings = {}
    /\ \A t \in Tasks : result.status[t] # "fail"
    /\ log.form = "real" /\ log.stamp.run = result.run =>
         \A t \in Tasks : log.entries[t].status # "fail"
    /\ profile.form = "real" /\ profile.run = result.run =>
         \A t \in profile.selected : <<result.run, t>> \in passed

(* Exit status 0 of run-azure-validation: the summary on disk is this      *)
(* run's and says complete, and each selected check passed with a payload  *)
(* on disk that the live checks accept (RunValidation's three conditions). *)
ExitZeroMeansProof ==
  pc = "idle" /\ cmd = "validation" /\ exit = "0" =>
    /\ summary.form = "real" /\ summary.run = run /\ summary.complete
    /\ result.run = run /\ result.outcome = "pass" /\ result.findings = {}
    /\ profile.run = run
    /\ \A t \in profile.selected :
         /\ <<run, t>> \in passed
         /\ log.entries[t] = [status |-> "pass", payload |-> TRUE]
         /\ payload[t].good

(* A run command that ends with a report (exit status 0 or 1, no error)    *)
(* leaves the directory to one run: its four reports are whole, list       *)
(* exactly the selected checks and agree on each, whatever earlier runs,   *)
(* killed ones included, had left there.                                   *)
FinishedRunIsWhole ==
  pc = "idle" /\ cmd \in RunCommands /\ exit \in {"0", "1"} =>
    /\ "real" = log.form /\ "real" = timeline.form
    /\ "real" = result.form /\ "real" = profile.form
    /\ run = log.stamp.run /\ run = timeline.stamp.run
    /\ run = result.run /\ run = profile.run
    /\ timeline.entries = log.entries
    /\ \A t \in Tasks :
         IF t \in profile.selected
           THEN result.status[t] = log.entries[t].status /\ result.status[t] # "none"
           ELSE result.status[t] \in {"none", "blocked"} /\ log.entries[t].status = "none"

(* The verifier turns no clean run away: every selected check passed, the  *)
(* live checks found nothing, the manifest accounts for the shipped        *)
(* surfaces and covers a viewpoint only where the plan runs it.  (Demo     *)
(* captures are excepted: nothing ever replaces their placeholder, so that *)
(* it counts as stale or not depending on the second it was written in.)   *)
VerifierAcceptsCleanRun ==
  /\ pc = "summary" /\ cmd = "validation"
  /\ mem.outcome = "pass" /\ found = {}
  /\ mem.demo => mem.sameSecond
  /\ ManifestAccounts(man, Shipped)
  /\ \A t \in Tasks : Covered(man, t) => t \in AdmittedTasks(man)
  => /\ verdict.complete
     /\ verdict.ready <=> runProfileReleaseGate(prof)

(* A run, or scaffold-run, is at work; the checks a run result settles so. *)
Recording == pc # "idle" /\ cmd \in RunCommands \cup {"scaffold-run"}
TasksWith(r, status) == {t \in Tasks : r.status[t] = status}

Promise == INSTANCE RunPromise WITH
  begun    <- run,
  open     <- Recording,
  chosen   <- profile.selected,
  proved   <- passed,
  of       <- result.run,
  whole    <- (result.form = "real"),
  passes   <- TasksWith(result, "pass"),
  fails    <- TasksWith(result, "fail"),
  findings <- result.findings,
  outcome  <- result.outcome

(* The run result keeps what RunPromise promises its reader: after every   *)
(* kill and failed write, and over the runs of a directory, it settles one *)
(* check at a time of those chosen, and an outcome comes last.             *)
KeepsRecord == Promise!Spec

(* Findings written to a run result are never taken back and an outcome    *)
(* never improves without a new run, however often the live checks are     *)
(* repeated (MergeFindings, SaveLiveValidationSummary).                    *)
FindingsStick ==
  [][result.form = "real" /\ result'.form = "real" /\ result'.run = result.run =>
       /\ result.findings \subseteq result'.findings
       /\ result.outcome = "fix-now" => result'.outcome = "fix-now"]_vars

(* A run command that is not killed leaves no build directory and no       *)
(* session directory behind, on any of its ways out, except that of a      *)
(* check whose session could not be opened (the deferred calls of          *)
(* RunAzureValidation).                                                    *)
CleanExit ==
  [][pc # "idle" /\ pc' = "idle" /\ exit' # "killed" /\ cmd \in RunCommands =>
       /\ run \notin builds'
       /\ \A t \in Tasks : <<run, t>> \in dirs' =>
            /\ <<run, t>> \notin passed'
            /\ entries[t] = [status |-> "fail", payload |-> FALSE]]_vars

(* Every command ends, when the process keeps being scheduled and the      *)
(* programs it waits for end (ExecuteTask shows when they do).             *)
CommandsEnd == pc # "idle" ~> pc = "idle"

-----------------------------------------------------------------------------
(* What the repository says and the program does not keep *)

(* "required artifacts and teardown records are present and fresh": a      *)
(* release-ready verdict never rests on a placeholder or on half a file.   *)
ReleaseOnRealArtifacts ==
  pc = "idle" => \A m \in Manifests :
    /\ ValidateLabReads(result, profile)
    /\ ReleaseReady(m, Shipped, result, profile, ArtifactFiles)
    => \A a \in RequiredArtifacts(m, result.demo) : ArtifactFiles[a].form = "real"

(* "successful runs should always record the emitted payload path": the    *)
(* payload a passing entry records is the one its run emitted.             *)
RecordedPayloadWasEmitted ==
  log.form = "real" =>
    \A t \in Tasks : log.entries[t] = [status |-> "pass", payload |-> TRUE] =>
                       payload[t].run = log.stamp.run

(* "the repo is not pretending a release gate passed when it did not": a   *)
(* release-ready verdict is about at least one executed check.             *)
GateIsNotEmpty ==
  \A m \in Manifests :
    /\ ValidateLabReads(result, profile)
    /\ ReleaseReady(m, Shipped, result, profile, ArtifactFiles)
    => \E t \in Tasks : <<result.run, t>> \in passed
=============================================================================
