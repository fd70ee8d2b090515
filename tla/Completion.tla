----------------------------- MODULE Completion -----------------------------
(***************************************************************************)
(* Completion verification (ValidateLab and validateRunResults in          *)
(* internal/lab/validate.go): the verdict on the files of one run          *)
(* directory.                                                              *)
(*                                                                         *)
(* A file is a record.  Its form is "absent", "torn" (os.WriteFile         *)
(* truncates before it writes, so an interrupted write leaves a file that  *)
(* does not parse), "placeholder" (the stand-in ScaffoldRun writes) or     *)
(* "real"; its stamp says in which run it was written, before or after     *)
(* that run took its started_at.  The other fields are read only when form *)
(* is "real".                                                              *)
(***************************************************************************)
EXTENDS RunProfile, Naturals

Forms == {"absent", "torn", "placeholder", "real"}

(* "none": the run recorded nothing for this surface and viewpoint. *)
TaskStatus == {"none", "pass", "fail", "blocked"}

Outcomes == {"pass", "fix-now", "blocked"}

(* A finding is identified by the check it is about and by its origin: the *)
(* runner (slow command, owner "tool") or the live checks (tool_repo).     *)
Findings == [origin : {"slow", "live"}, task : Tasks]

(* When a file was written: the number of the run and whether started_at   *)
(* had been taken.                                                         *)
Stamp(Runs) == [run : Runs, started : BOOLEAN]

(* run-result.json.  sameSecond: started_at, which has no fraction of a    *)
(* second, is in the second of the placeholders' writes.                   *)
RunResult(Runs, Scopes) ==
  [form       : Forms,
   run        : Runs,
   sameSecond : BOOLEAN,
   scope      : Scopes,
   status     : [Tasks -> TaskStatus],
   outcome    : Outcomes,
   findings   : SUBSET Findings,
   demo       : BOOLEAN,
   artifacts  : SUBSET ArtifactIDs,
   profiled   : BOOLEAN]        \* has a run_profile record

-----------------------------------------------------------------------------
(* An artifact is fresh unless its modification time precedes started_at.  *)
Fresh_Strict(stamp, result) == stamp.run > result.run     \* mutant

Fresh(stamp, result) ==
  \/ stamp.run > result.run
  \/ stamp.run = result.run /\ (stamp.started \/ result.sameSecond)

RequiredArtifacts(m, demo) ==
  {a \in m.artifacts : a # "demo_capture_index" \/ demo}

(* Recorded by the run, on disk (whatever it holds) and fresh. *)
ArtifactAccepted(a, result, files) ==
  /\ a \in result.artifacts
  /\ files[a].form # "absent"
  /\ Fresh(files[a].stamp, result)

(* Mutant: being selected is taken for having passed. *)
SurfaceResultAccepted_BySelection(m, t, result, profile) ==
  result.profiled => t \in profile.skipped \cup profile.selected

(* Each covered viewpoint of each tracked surface is skipped by the        *)
(* profile, or selected by it and passed.  Note that the surface's own     *)
(* status and the required viewpoints play no part here.                   *)
SurfaceResultAccepted(m, t, result, profile) ==
  \/ result.profiled /\ t \in profile.skipped
  \/ /\ result.profiled => t \in profile.selected
     /\ result.status[t] = "pass"

RunResultAccepted(m, result, profile, files) ==
  /\ result.scope = RunScope(m)
  /\ \A t \in Tasks : Covered(m, t) => SurfaceResultAccepted(m, t, result, profile)
  /\ \A a \in RequiredArtifacts(m, result.demo) : ArtifactAccepted(a, result, files)

-----------------------------------------------------------------------------
(* ValidateLab on a run directory: it reports an error when a file it      *)
(* parses does not parse, else a completion status and release readiness.  *)
(* result.outcome, findings and teardown are never empty in a file this    *)
(* program wrote, and a live finding carries every field a blocker needs.  *)
ValidateLabReads(result, profile) ==
  /\ result.form = "real"
  /\ result.profiled => profile.form = "real"

Complete(m, shipped, result, profile, files) ==
  /\ ManifestAccounts(m, shipped)
  /\ RunResultAccepted(m, result, profile, files)

ReleasableOutcomes == {"pass", "pass_with_explicit_exceptions"}

ReleaseReady(m, shipped, result, profile, files) ==
  /\ Complete(m, shipped, result, profile, files)
  /\ result.outcome \in ReleasableOutcomes
  /\ result.profiled => runProfileReleaseGate(profile)
=============================================================================
