CONSTANTS
  Commands = {"whoami"}
  Families = {"dcr"}
  Viewpoints = {"admin", "dev"}
  All = All
  ReasonCodes = {"api_gap", "bootstrap_pending", "manual_setup_not_done", "first_gate_followup"}
  NoReason = NoReason
  NoProfile = NoProfile
  NoTask = NoTask
  Manifests <- MCAdmin
  Requests <- MCAll
  Shipped <- MCShipped
  PlanOrder <- MCPlanOrder
  FlagSlow = TRUE
  Prints = {"nothing", "good", "bad"}
  Builds = {TRUE, FALSE}
  MaxRuns = 1
SPECIFICATION FairSpec
INVARIANTS
  OutcomeIsHonest ExitZeroMeansProof VerifierAcceptsCleanRun
PROPERTIES
  FindingsStick CleanExit CommandsEnd
