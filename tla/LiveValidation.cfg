SPECIFICATION Spec
CONSTANTS
    Campaigns <- MCCampaigns
    Sayings = {"truth", "drift", "broken"}
INVARIANTS TruthIsAccepted NothingPassesUnseen ContextsAreOwn LeftoversDoNotStopIt
CHECK_DEADLOCK FALSE
