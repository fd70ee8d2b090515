CONSTANTS
  Commands = {"whoami"}
  Families = {}
  Viewpoints = {"admin", "dev"}
  All = All
  ReasonCodes = {"api_gap", "bootstrap_pending", "manual_setup_not_done", "first_gate_followup"}
  NoReason = NoReason
  NoProfile = NoProfile
  NoTask = NoTask
  Manifests <- MCFull
  Requests <- MCWholeNarrow
  Shipped <- MCShipped
  PlanOrder <- MCPlanOrder
  FlagSlow = FALSE
  Prints = {"good"}
  Builds = {FALSE}
  MaxRuns = 2
SPECIFICATION Spec
INVARIANTS
  NewestFirst ReleaseIsEarned FinishedRunIsWhole
PROPERTIES
  KeepsRecord
