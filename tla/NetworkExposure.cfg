SPECIFICATION Spec
CONSTANTS
    Nics <- MCNics
    Groups = {"g1", "g2"}
    NoGroup = "no group"
    RuleLists <- MCRuleLists
    OpenTexts <- MCOpenTexts
    Layouts <- MCLayouts
INVARIANTS TruthIsAccepted PassMeansKept ChecksAgree SightNeverLowers
CHECK_DEADLOCK FALSE
