CONSTANTS
  Commands = {"whoami", "cross-tenant"}
  Families = {"dcr"}
  Viewpoints = {"admin", "dev"}
  All = All
  ReasonCodes = {"manual_setup_not_done", "first_gate_followup"}
  NoReason = NoReason
  NoProfile = NoProfile
  Declared = {"admin", "dev"}
  BootstrapCovered <- MCBootstrapCovered
  BootstrapManual <- MCBootstrapManual
  BootstrapFollowup <- MCBootstrapFollowup
  Requests <- MCRequests
  MaxEdits = 1
SPECIFICATION LifeSpec
INVARIANTS
  ScaffoldAccounts PlannedOrExplained GateIsTheWholePlan NoSelectorIsDropped
