SPECIFICATION Spec
CONSTANTS
    scoped = scoped
    foreign = foreign
    unknown = unknown
    dim = dim
    one = one
    NoDim = NoDim
    NoData = NoData
    All = All
    NoState = NoState
    NoJob = NoJob
    Rows <- MCRows
    Catalog <- MCCatalog
    Offered <- MCOffered
    Dims <- MCDims
    DimOf <- MCDimOf
    Configs <- MCConfigs
    EditsDuringApply = TRUE
PROPERTY RevokesOnlyPlanned
