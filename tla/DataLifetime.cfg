SPECIFICATION DataSpec
CONSTANTS
    MaxFileSize = 35
    MaxAggregateElements = 3
    MaxInt32 = 7
    MaxCallArgumentCount = 2
    MaxStringLength = 255
    IoFaults = FALSE
    MaxLoads = 3
    MaxSaves = 2
    FileSizes <- LifeSizes
    Contents <- LifeContents
    NewStrings <- Replacements
INVARIANTS DataTypeOK CountsMatchVectors
PROPERTIES SavedFileLoads ReloadReproduces SaveIsNeverCutShort
