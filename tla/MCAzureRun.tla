----------------------------- MODULE MCAzureRun -----------------------------
(* Instances of AzureRun for TLC. *)
EXTENDS AzureRun

Cmd(n) == [kind |-> "commands", name |-> n]
Fam(n) == [kind |-> "families", name |-> n]

View(status) == [status |-> status,
                 reason |-> IF status \in {"covered", "absent"} THEN NoReason ELSE "api_gap"]

(* An entry covered from the viewpoints vs, excepted from the other required ones. *)
CoveredFrom(vs, required) ==
  [status |-> "covered", reason |-> NoReason, steps |-> FALSE,
   views  |-> [v \in Viewpoints |-> IF v \in vs THEN View("covered")
                                    ELSE IF v \in required THEN View("excepted")
                                    ELSE View("absent")]]

(* Every surface is covered from every required viewpoint. *)
FullManifest ==
  [required  |-> {"admin", "dev"},
   tracked   |-> Surfaces,
   entry     |-> [s \in Surfaces |-> CoveredFrom({"admin", "dev"}, {"admin", "dev"})],
   artifacts |-> {"command_log", "command_timeline", "demo_capture_index"}]

(* The second viewpoint waits for an API. *)
AdminManifest ==
  [required  |-> {"admin", "dev"},
   tracked   |-> Surfaces,
   entry     |-> [s \in Surfaces |-> CoveredFrom({"admin"}, {"admin", "dev"})],
   artifacts |-> {"command_log", "command_timeline", "demo_capture_index"}]

(* What scaffold-manifest writes when it is given no status. *)
StarterManifest ==
  UniformManifest(Surfaces, {"admin", "dev"}, "excepted", "bootstrap_pending")

Ask(v, sel, p, d) == [viewpoint |-> v, selectors |-> sel, profile |-> p, demo |-> d]

Whole  == Ask(All, {}, NoProfile, FALSE)
Narrow == Ask("admin", {}, NoProfile, FALSE)
Picked == Ask(All, {CHOOSE s \in Surfaces : TRUE}, "release-candidate", FALSE)
Demo   == Ask(All, {}, NoProfile, TRUE)

MCPlanOrder == CHOOSE f \in [Tasks -> 1..Cardinality(Tasks)] :
                 \A t, u \in Tasks : t # u => f[t] # f[u]

MCFull    == {FullManifest}
MCAdmin   == {AdminManifest}
MCStarter == {StarterManifest}
MCShipped == Surfaces
MCWholeNarrow == {Whole, Narrow}
MCAll     == {Whole, Narrow, Picked, Demo}
=============================================================================
