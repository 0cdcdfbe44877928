SPECIFICATION TargetSpec
CONSTANTS
    N = 4
    Inputs <- ShapesAndDates
    NoMark = NoMark
    NoFile = NoFile
    AsOf = 3
    Lookback = 1
    Files = {1, 2, 3}
    ModelFiles = {1, 2, 3}
    Trees <- SmallTrees
    EndsWith <- ThirdEndsWithFirst
    Reads <- ThreeReadsOne
INVARIANTS OnlyChangesPlanned
CHECK_DEADLOCK FALSE
