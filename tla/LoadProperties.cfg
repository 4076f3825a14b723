SPECIFICATION Spec
CONSTANTS
    MaxFileSize = 130
    MaxAggregateElements = 4
    MaxInt32 = 7
    MaxCallArgumentCount = 2
    MaxStringLength = 255
    IoFaults = FALSE
    MaxLoads = 1
    FileSizes <- PropertySizes
    Contents <- PropertyContents
INVARIANTS ObjectSizesAreRight
PROPERTIES SaveWritesWhatLoadRead AbiShowsWhatIsHeld
