SPECIFICATION LinesSpec
CONSTANTS
    a1 = a1
    a2 = a2
    a3 = a3
    a4 = a4
    a5 = a5
    Addresses = {a1, a2, a3, a4, a5}
    Files <- SomeFiles
SYMMETRY Symmetry
INVARIANTS LinesTypeOK EveryArrayHasOneOwner NumbersAreKept OutputsCanBeUsed
