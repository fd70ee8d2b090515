---------------------------- MODULE ManifestLife ----------------------------
(***************************************************************************)
(* A manifest over time: labctl scaffolds it from the surface HO-Azure     *)
(* ships (internal/lab/manifest.go), the operator edits it by hand, and    *)
(* HO-Azure goes on shipping and retiring surfaces (external).  What       *)
(* labctl validate says of the manifest and what a run would select from   *)
(* it are functions of the state (LabManifest, RunProfile).                *)
(***************************************************************************)
EXTENDS RunProfile, Naturals

CONSTANTS
  Declared,            \* the viewpoints a scaffolded manifest requires
  BootstrapCovered,    \* truthFirstBootstrapCovered{Commands,Families}
  BootstrapManual,     \* truthFirstBootstrapManualCommands
  BootstrapFollowup,   \* truthFirstBootstrapFollowup{Commands,Families}
  Requests,            \* the selections an operator may ask for
  MaxEdits             \* bound: edits by hand since the last scaffold

ASSUME DeclaredAssumption == Declared # {} /\ Declared \subseteq Viewpoints
ASSUME BootstrapAssumption ==
  /\ BootstrapCovered \cup BootstrapManual \cup BootstrapFollowup \subseteq Surfaces
  /\ {"manual_setup_not_done", "first_gate_followup"} \subseteq ReasonCodes
ASSUME LifeRequestsAssumption == Requests \subseteq Request
ASSUME MaxEditsAssumption == MaxEdits \in Nat

VARIABLES
  shipped,    \* the surfaces HO-Azure ships now
  manifest,   \* the manifest file
  edits,      \* edits since the scaffold that wrote it
  scaffolded  \* the surfaces shipped at that scaffold, {} before the first

lifeVars == <<shipped, manifest, edits, scaffolded>>

Empty == UniformManifest({}, Declared, "covered", NoReason)

LifeTypeOK ==
  /\ shipped \subseteq Surfaces /\ scaffolded \subseteq Surfaces
  /\ manifest \in Manifest
  /\ edits \in 0..MaxEdits

LifeInit ==
  /\ shipped \in SUBSET Surfaces
  /\ manifest = Empty /\ edits = 0 /\ scaffolded = {}

-----------------------------------------------------------------------------
Save(m) == manifest' = m /\ edits' = 0 /\ scaffolded' = shipped /\ UNCHANGED shipped

(* scaffold-manifest, profile "uniform".  The default status is not looked *)
(* at: any word is written into the manifest.                              *)
ScaffoldUniform ==
  \E status \in SurfaceStatuses, reason \in ReasonCodes \cup {NoReason} :
    /\ ScaffoldAccepts(status, reason)
    /\ Save(UniformManifest(shipped, Declared, status, reason))

(* scaffold-manifest --profile truth-first-bootstrap. *)
ScaffoldBootstrap ==
  /\ BootstrapClassifies(shipped, BootstrapCovered, BootstrapManual, BootstrapFollowup)
  /\ Save(BootstrapManifest(shipped, Declared, BootstrapCovered, BootstrapManual))

(* The operator edits one field by hand. *)
Edit(m) == /\ edits < MaxEdits /\ edits' = edits + 1 /\ manifest' = m
           /\ UNCHANGED <<shipped, scaffolded>>

EditStatus ==
  \E s \in manifest.tracked, status \in SurfaceStatuses \cup {"other"} :
    Edit([manifest EXCEPT !.entry[s].status = status])

EditReason ==
  \E s \in manifest.tracked, reason \in ReasonCodes \cup {NoReason} :
    Edit([manifest EXCEPT !.entry[s].reason = reason])

EditViewpoint ==
  \E s \in manifest.tracked, v \in Viewpoints, e \in ViewEntry :
    Edit([manifest EXCEPT !.entry[s].views[v] = e])

EditRequired ==
  \E v \in Viewpoints :
    Edit([manifest EXCEPT !.required = IF v \in @ THEN @ \ {v} ELSE @ \cup {v}])

ShippedChanges ==
  /\ shipped' \in SUBSET Surfaces
  /\ UNCHANGED <<manifest, edits, scaffolded>>

LifeNext ==
  \/ ScaffoldUniform \/ ScaffoldBootstrap
  \/ EditStatus \/ EditReason \/ EditViewpoint \/ EditRequired
  \/ ShippedChanges

LifeSpec == LifeInit /\ [][LifeNext]_lifeVars
-----------------------------------------------------------------------------
(* What scaffold-manifest writes accounts for the surface it was derived   *)
(* from, under each profile, and for no other: validate turns it down as   *)
(* soon as HO-Azure ships a surface more or one less (ScaffoldManifest,    *)
(* validateManifest).                                                      *)
ScaffoldAccounts ==
  edits = 0 => \A s \in SUBSET Surfaces :
                 ManifestAccounts(manifest, s) <=> s = scaffolded

(* A manifest that validate accepts hides no surface: each shipped one is  *)
(* planned from some required viewpoint, or a reason stands beside it or   *)
(* beside each of its required viewpoints (validateManifest,               *)
(* BuildSurfacePlan).                                                      *)
PlannedOrExplained ==
  ManifestAccounts(manifest, shipped) =>
    \A s \in shipped :
      \/ \E t \in AdmittedTasks(manifest) : t.surface = s
      \/ manifest.entry[s].reason # NoReason
      \/ \A v \in manifest.required : manifest.entry[s].views[v].reason # NoReason

(* A run asked for nothing in particular always gets a profile, and that   *)
(* profile is the release gate; a request that leaves an admitted check    *)
(* out never is, whatever label it carries (BuildRunProfile,               *)
(* runProfileReleaseGate).                                                 *)
GateIsTheWholePlan ==
  /\ \A r \in Requests : r.viewpoint = All /\ r.selectors = {} /\ r.profile = NoProfile =>
       ProfileBuilds(manifest, r) /\ runProfileReleaseGate(BuildRunProfile(manifest, r))
  /\ \A r \in Requests :
       ProfileBuilds(manifest, r) /\ AdmittedTasks(manifest) # SelectedTasks(manifest, r) =>
         ~runProfileReleaseGate(BuildRunProfile(manifest, r))

(* The reason a profile gives for a skipped check is the operator's own    *)
(* choice: the surface was not among the selectors, or else the viewpoint  *)
(* was not asked for (BuildRunProfile's two reasons).                      *)
SkipReasonsAreTrue ==
  \A r \in Requests : ProfileBuilds(manifest, r) =>
    \A t \in BuildRunProfile(manifest, r).skipped :
      IF SkippedReason(manifest, r, t) = "surface_not_selected"
        THEN r.selectors # {} /\ t.surface \notin r.selectors
        ELSE t.viewpoint # r.viewpoint /\ r.viewpoint # All

(* Each surface named on the command line or in --profile-file is run from *)
(* at least one viewpoint, or the run does not start (applyRunProfileFile, *)
(* BuildRunProfile).                                                       *)
NoSelectorIsDropped ==
  \A r, f \in Requests :
    LET merged == applyRunProfileFile(r, f) IN
    ProfileBuilds(manifest, merged) =>
      \A s \in r.selectors \cup f.selectors :
        \E t \in BuildRunProfile(manifest, merged).selected : t.surface = s
=============================================================================
