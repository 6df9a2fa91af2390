SPECIFICATION Spec
CONSTANTS
    LiveRules <- MCLiveRules
    Means <- MCMeans
    Configs <- MCConfigs
    AdminsDuringApply = FALSE
    EmptyRule <- Empty
    NormalForm <- Normalize
    CanonicalForm <- Canonical
    SameForm <- Equal
    MarkersOf <- Markers
    WithIds <- Resolve
    Envelope <- PutBody
    NoRule = NoRule
    NoGroup = NoGroup
    NoState = NoState
    NoJob = NoJob
INVARIANTS
    TypeOK
    PlanIsExact
PROPERTIES
    NeverRunsIncompleteRule
