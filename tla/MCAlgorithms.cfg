SPECIFICATION MCSpec
CONSTANTS
    ImageLimits = {1, 2, 3, 4, 5, 6, 7, 8, 9}
    Images = {1, 2, 4, 5}
    Shells = {3, 5, 6}
    Wrappers = {4, 10, 11}
    ItemOverhead = 5
    BatchShell = 4
    McpShell = 6
    MaxBatchItems = 8
    MaxExcess = 2
    Streams <- MCStreams
    LF = "lf"
    CR = "cr"
    MaxLine = 2
    Models <- MCModels
    MaxModelBytes = 12
    MaxFields = 4
    MaxDepth = 3
    MaxText = 1
    VarintBytes = 4
    TagLimit = 65536
    PositionLimit = 4194304
    Absent = Absent
INVARIANTS
    ScanIsExact
    AdmissionIsLocal
    QualifiedIsAdmitted
    LinesAreExact
    LimitsAreExact
    RegionsAreExact
CHECK_DEADLOCK FALSE
