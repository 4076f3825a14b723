SPECIFICATION FixtureSpec
CONSTANTS
    MaxFileSize = 400
    MaxAggregateElements = 40
    MaxInt32 = 8191
    MaxCallArgumentCount = 4096
    MaxStringLength = 65535
    IoFaults = FALSE
    MaxLoads = 1
    SizeCountsItself = FALSE
    FileSizes <- WholeLength
    Contents <- NoContents
INVARIANT FixtureLoads
CHECK_DEADLOCK FALSE
