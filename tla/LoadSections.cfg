SPECIFICATION Spec
CONSTANTS
    MaxFileSize = 60
    MaxAggregateElements = 3
    MaxInt32 = 7
    MaxCallArgumentCount = 2
    MaxStringLength = 255
    IoFaults = TRUE
    MaxLoads = 2
    FileSizes <- SectionSizes
    Contents <- SectionContents
INVARIANTS TypeOK ReaderBounded HeldWithinBudget CountsMatchVectors CountRefusalsAreSound
PROPERTIES LoadIsAtomic LoadReturns SaveWritesWhatLoadRead AbiShowsWhatIsHeld
