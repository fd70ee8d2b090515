SPECIFICATION Spec
CONSTANTS
    Vaults = {v1}
    Accounts = {a1}
    CommandOrder <- MCCommandOrder
    MaxEdits = 1
INVARIANTS TruthIsAccepted SiblingsAgree FindingsAreExplained
CHECK_DEADLOCK FALSE
