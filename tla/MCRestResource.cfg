SPECIFICATION Spec
SYMMETRY Symmetry
CONSTANTS
    a = a
    b = b
    Resources = {a, b}
    Kinds <- AllKinds
    Configs <- MCConfigs
    AdminsDuringApply = FALSE
    Gone = Gone
    NoState = NoState
    NoJob = NoJob
    Unset = Unset
    Null = Null
INVARIANTS
    TypeOK
    DefaultStands
PROPERTIES
    UnmanagedStands
    SuccessMeansStored
