---------------------------- MODULE LabManifest ----------------------------
(***************************************************************************)
(* The validation manifest (internal/lab/manifest.go, types.go): which     *)
(* shipped surfaces the lab accounts for, how each one is classified, and  *)
(* the plan of checks it admits.  Everything here is a function of data;   *)
(* the processes that use it are in AzureRun.                              *)
(*                                                                         *)
(* A Go map keyed by surface name is a pair of a set of keys and a total   *)
(* function: m.tracked is the key set, m.status, m.reason, ... are only    *)
(* read on it.                                                             *)
(***************************************************************************)
CONSTANTS
  Commands,     \* names of flat commands
  Families,     \* names of grouped families (a name may also be a command's)
  Viewpoints,   \* viewpoint names, those of a typo included
  All,          \* the value "all" of --viewpoint, not a viewpoint
  ReasonCodes,  \* SupportedReasonCodes
  NoReason      \* the empty reason_code

ASSUME AllAssumption == All \notin Viewpoints
ASSUME ReasonAssumption == NoReason \notin ReasonCodes

Surfaces == [kind : {"commands"}, name : Commands]
              \cup [kind : {"families"}, name : Families]

(* One check: a surface run from one viewpoint (SurfaceTask without the    *)
(* command line, which plays no part in planning or in completion).        *)
Tasks == [surface : Surfaces, viewpoint : Viewpoints]

SurfaceStatuses == {"covered", "excepted", "unsupported"}

ArtifactIDs == {"command_log", "command_timeline", "demo_capture_index"}

(* The entry of one surface.  views[v].status is "absent" when the entry   *)
(* has no record for v, "other" is any value outside SurfaceStatuses.      *)
ViewEntry == [status : SurfaceStatuses \cup {"absent", "other"},
              reason : ReasonCodes \cup {NoReason}]

SurfaceEntry == [status : SurfaceStatuses \cup {"other"},
                 reason : ReasonCodes \cup {NoReason},
                 steps  : BOOLEAN,             \* manual_setup_steps present
                 views  : [Viewpoints -> ViewEntry]]

Manifest == [required  : SUBSET Viewpoints,
             tracked   : SUBSET Surfaces,
             entry     : [Surfaces -> SurfaceEntry],
             artifacts : SUBSET ArtifactIDs]

-----------------------------------------------------------------------------
(* Viewpoints *)

RequiredViewpoints(m) == m.required

(* --viewpoint all stands for the required ones; any other value is taken  *)
(* as it is, a name the manifest does not know included.                   *)
SelectedViewpoints(m, requested) ==
  IF requested = All THEN RequiredViewpoints(m) ELSE {requested}

-----------------------------------------------------------------------------
(* Coverage *)

Covered(m, t) == /\ t.surface \in m.tracked
                 /\ m.entry[t.surface].views[t.viewpoint].status = "covered"

(* The checks a run may execute: a covered viewpoint of a covered surface. *)
BuildSurfacePlan(m, viewpoints) ==
  {t \in Tasks : /\ t.viewpoint \in viewpoints
                 /\ Covered(m, t)
                 /\ m.entry[t.surface].status = "covered"}

(* The scope a run records: each tracked surface with its status and, when *)
(* it is not covered, its reason.  A status that is neither covered nor    *)
(* excepted is listed as unsupported.                                      *)
buildScopeSummary(m) ==
  [s \in m.tracked |->
     LET e == m.entry[s] IN
     CASE e.status = "covered"  -> <<"covered", NoReason>>
       [] e.status = "excepted" -> <<"excepted", e.reason>>
       [] OTHER                 -> <<"unsupported", e.reason>>]

RunScope(m) == [required |-> RequiredViewpoints(m), surfaces |-> buildScopeSummary(m)]

-----------------------------------------------------------------------------
(* Surface accounting: validateManifest reports no failure. *)

AccountedStatus_NoReason(status, reason) == status \in SurfaceStatuses   \* mutant

AccountedStatus(status, reason) ==
  /\ status \in SurfaceStatuses
  /\ status # "covered" => reason # NoReason

EntryValid(m, s) ==
  LET e == m.entry[s] IN
  /\ AccountedStatus(e.status, e.reason)
  /\ e.reason = "manual_setup_not_done" => e.steps
  /\ \A v \in m.required : AccountedStatus(e.views[v].status, e.views[v].reason)

ManifestAccounts(m, shipped) ==
  /\ m.required # {}
  /\ m.tracked = shipped
  /\ \A s \in m.tracked : EntryValid(m, s)

-----------------------------------------------------------------------------
(* Scaffolding (scaffold-manifest). *)

defaultCompletionContract == ArtifactIDs

(* Mutant: the manual steps are left out. *)
UniformEntry_NoSteps(defaultStatus, reasonCode, declared) ==
  [status |-> defaultStatus,
   reason |-> IF defaultStatus = "covered" THEN NoReason ELSE reasonCode,
   steps  |-> FALSE,
   views  |-> [v \in Viewpoints |->
                 [status |-> IF v \in declared THEN defaultStatus ELSE "absent",
                  reason |-> IF v \in declared /\ defaultStatus # "covered"
                               THEN reasonCode ELSE NoReason]]]

UniformEntry(defaultStatus, reasonCode, declared) ==
  LET reason == IF defaultStatus = "covered" THEN NoReason ELSE reasonCode
  IN  [status |-> defaultStatus,
       reason |-> reason,
       steps  |-> reasonCode = "manual_setup_not_done",
       views  |-> [v \in Viewpoints |->
                     IF v \in declared THEN [status |-> defaultStatus, reason |-> reason]
                                       ELSE [status |-> "absent", reason |-> NoReason]]]

(* The profile "uniform": every shipped surface has the default status.    *)
(* The three viewpoints it declares are all required.                      *)
UniformManifest(shipped, declared, defaultStatus, reasonCode) ==
  [required  |-> declared,
   tracked   |-> shipped,
   entry     |-> [s \in Surfaces |-> UniformEntry(defaultStatus, reasonCode, declared)],
   artifacts |-> defaultCompletionContract]

(* The flags scaffold-manifest accepts: any status when the reason code is *)
(* a supported one, "covered" with anything.                               *)
ScaffoldAccepts(defaultStatus, reasonCode) ==
  defaultStatus = "covered" \/ reasonCode \in ReasonCodes

(* The profile "truth-first-bootstrap": each shipped surface is covered,   *)
(* waits for a manual setup, or is a follow-up; one that is in none of the *)
(* three lists fails the scaffold.                                         *)
BootstrapClassifies(shipped, covered, manual, followup) ==
  shipped \subseteq covered \cup manual \cup followup

BootstrapManifest(shipped, declared, covered, manual) ==
  [required  |-> declared,
   tracked   |-> shipped,
   entry     |-> [s \in Surfaces |->
                    IF s \in covered THEN UniformEntry("covered", NoReason, declared)
                    ELSE IF s \in manual
                      THEN UniformEntry("excepted", "manual_setup_not_done", declared)
                      ELSE UniformEntry("excepted", "first_gate_followup", declared)],
   artifacts |-> defaultCompletionContract]
=============================================================================
