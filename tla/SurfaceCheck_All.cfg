SPECIFICATION Spec
CONSTANTS
    Objects = {o1, o2}
    Surfaces <- MCAllSurfaces
    NoFile = NoFile
INVARIANTS NoFalseAlarm PassMeansKept
CHECK_DEADLOCK FALSE
SYMMETRY MCSymmetry
