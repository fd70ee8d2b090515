----------------------------- MODULE RunProfile -----------------------------
(***************************************************************************)
(* The run profile (BuildRunProfile in internal/lab/run.go and the flag    *)
(* merge in cmd/labctl/main.go): which of the admitted checks a run        *)
(* executes, which it skips and under what name.                           *)
(***************************************************************************)
EXTENDS LabManifest, FiniteSets

CONSTANT NoProfile   \* the empty --profile

ProfileNames == {"release-candidate", "selector", "custom"}

(* What the operator asks for.  Selector lists are sets: normalization     *)
(* splits, trims, drops repetitions and sorts.  "custom" is any label other*)
(* than the two that the program gives itself.                             *)
Request == [viewpoint : Viewpoints \cup {All},
            selectors : SUBSET Surfaces,
            profile   : ProfileNames \cup {NoProfile},
            demo      : BOOLEAN]

(* --profile-file: the file's label and viewpoint fill the flags left at   *)
(* their defaults, its selectors are added to those of the flags.  A file  *)
(* without a viewpoint has All.                                            *)
applyRunProfileFile(req, file) ==
  [req EXCEPT !.profile   = IF req.profile = NoProfile THEN file.profile ELSE @,
              !.selectors = @ \cup file.selectors,
              !.viewpoint = IF @ = All THEN file.viewpoint ELSE @]

-----------------------------------------------------------------------------
(* Every selector names a covered surface of the manifest. *)
validateRunProfileSelectors(m, selectors) ==
  \A s \in selectors : s \in m.tracked /\ m.entry[s].status = "covered"

AdmittedTasks(m) == BuildSurfacePlan(m, RequiredViewpoints(m))

taskSelectorMatches(t, selectors) == selectors = {} \/ t.surface \in selectors

SelectedTasks(m, req) ==
  {t \in AdmittedTasks(m) : /\ t.viewpoint \in SelectedViewpoints(m, req.viewpoint)
                            /\ taskSelectorMatches(t, req.selectors)}

SkippedTasks(m, req) == AdmittedTasks(m) \ SelectedTasks(m, req)

(* Mutant: nobody counts what a selector selects. *)
SelectorsServed_Any(m, req) == req.selectors = {} \/ SelectedTasks(m, req) # {}

(* No selector is left without a check to run. *)
SelectorsServed(m, req) ==
  \A s \in req.selectors : \E t \in SelectedTasks(m, req) : t.surface = s

ProfileName(m, req) ==
  CASE req.profile # NoProfile -> req.profile
    [] /\ req.profile = NoProfile
       /\ \/ req.selectors # {}
          \/ SelectedViewpoints(m, req.viewpoint) # RequiredViewpoints(m)
       -> "selector"
    [] OTHER -> "release-candidate"

(* BuildRunProfile succeeds ... *)
ProfileBuilds(m, req) ==
  /\ validateRunProfileSelectors(m, req.selectors)
  /\ SelectorsServed(m, req)

(* ... and yields this artifact.  The counts of the artifact are the       *)
(* cardinalities of the two sets.                                          *)
RunProfileArtifact == [profile  : ProfileNames,
                       selected : SUBSET Tasks,
                       skipped  : SUBSET Tasks]

BuildRunProfile(m, req) ==
  [profile  |-> ProfileName(m, req),
   selected |-> SelectedTasks(m, req),
   skipped  |-> SkippedTasks(m, req)]

(* Mutant: any selector explains any skipped check. *)
SkippedReason_Selectors(m, req, t) ==
  IF req.selectors # {} THEN "surface_not_selected" ELSE "viewpoint_not_selected"

(* Why a check was skipped, as the artifact records it. *)
SkippedReason(m, req, t) ==
  IF t.viewpoint \in SelectedViewpoints(m, req.viewpoint) /\ req.selectors # {}
    THEN "surface_not_selected"
    ELSE "viewpoint_not_selected"

(* Mutant: the label is all that counts. *)
runProfileReleaseGate_Label(profile) == profile.profile = "release-candidate"

(* The profile under which a run may count as release proof. *)
runProfileReleaseGate(profile) ==
  profile.profile = "release-candidate" /\ profile.skipped = {}
=============================================================================
