SPECIFICATION FrontSpec
CONSTANTS
    Inputs <- MCInputs
    MaxInt = 127
    MaxSeconds = 100000
    BadRegexp = {"("}
    IntWidth = 8
    Width = 12
    UnitNanos <- MCUnitNanos
    MaxOrder = 30
INVARIANTS   FunctionsInline PlanWellFormed  BoundsCover
 
