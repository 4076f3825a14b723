SPECIFICATION FixtureSpec
CONSTANTS
    MaxFileSize = 400
    MaxAggregateElements = 40
    MaxInt32 = 8191
    MaxCallArgumentCount = 4096
    MaxStringLength = 65535
    IoFaults = FALSE
    MaxLoads = 1
    SizeCountsItself = TRUE
    FileSizes <- EveryLength
    Contents <- NoContents
INVARIANTS FixtureLoads PrefixesAreRejected
PROPERTIES SaveWritesWhatLoadRead AbiShowsWhatIsHeld
CHECK_DEADLOCK FALSE
