SPECIFICATION Spec
CONSTANTS
    Principals = {"me", "sp", "mi"}
    NoOne = "no one"
    Me = "me"
    SampleLimit = 1
    Canary <- MCCanary
    Scenarios <- MCScenarios
    Tenants <- MCTenants
    Edits <- MCEdits
INVARIANTS TruthIsAccepted PassMeansProven
CHECK_DEADLOCK FALSE
