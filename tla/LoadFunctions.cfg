SPECIFICATION Spec
CONSTANTS
    MaxFileSize = 100
    MaxAggregateElements = 9
    MaxInt32 = 7
    MaxCallArgumentCount = 2
    MaxStringLength = 255
    IoFaults = FALSE
    MaxLoads = 1
    FileSizes <- FunctionSizes
    Contents <- FunctionContents
INVARIANTS HeldWithinBudget ObjectSizesAreRight
PROPERTIES SaveWritesWhatLoadRead AbiShowsWhatIsHeld
