SPECIFICATION TextSpec
CONSTANT
    Strings <- SmallStrings
INVARIANTS TextTypeOK WellFormedIsKept ConvertedIsWellFormed ReadingIsDecidedByTheWhole
CHECK_DEADLOCK FALSE
