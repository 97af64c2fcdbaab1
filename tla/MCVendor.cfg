SPECIFICATION Spec
SYMMETRY MCSymmetry
CONSTANTS
    Proc = {p1, p2}
    Lockfile = {l1, l2}
    Packages <- MCPackages
    MaxOperations = 3
    MaxActs = 1
    MaxFaults = 2
INVARIANTS
    TypeOK
    ReadyIsCoherent
    LeaseKeepsTree
    RegistryRetained
CHECK_DEADLOCK FALSE
