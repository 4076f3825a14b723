SPECIFICATION DataSpec
CONSTANTS
    MaxFileSize = 35
    MaxAggregateElements = 3
    MaxInt32 = 7
    MaxCallArgumentCount = 2
    MaxStringLength = 255
    IoFaults = TRUE
    MaxLoads = 2
    MaxSaves = 2
    FileSizes <- LifeSizes
    Contents <- LifeContents
    NewStrings <- ShortReplacements
PROPERTIES TornFileNeverLoads ImplementsStore SaveReturns
