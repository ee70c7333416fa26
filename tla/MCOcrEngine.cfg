SPECIFICATION Spec
CONSTANTS
    Images <- MCImages
    RowTolerance = 2
    BatchLimit = 3
    MaxPixels = 12
    Foreign = {9}
INVARIANTS
    TextsOfTheirRegions
    WholeResultsAreValid
    StopIsPrompt
CHECK_DEADLOCK FALSE
