SPECIFICATION Spec
CONSTANTS
    Proc = {p1, p2, p3, p4, p5}
    NoLock = NoLock
INVARIANTS
    TypeOK
    ExclusiveUnlessOverlapped
    LiveLockSurvives
PROPERTIES
    LiveOwnerKeepsPath
SYMMETRY MCSymmetry
CHECK_DEADLOCK FALSE
