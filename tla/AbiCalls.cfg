SPECIFICATION AbiSpec
CONSTANTS
    t1 = t1
    t2 = t2
    h1 = h1
    h2 = h2
    empty = empty
    word = word
    latin = latin
    long = long
    Threads = {t1, t2}
    Handles = {h1, h2}
    Texts = {empty, word, latin, long}
    Utf8Length <- Bytes
    WideLength <- Wides
    Files <- Loaded
    HeaderCalls <- Functions
    EmptyText = empty
    MaxStringLength = 2
    Calls <- SomeCalls
SYMMETRY Symmetry
INVARIANTS AbiTypeOK StatusTellsOutcome BufferHoldsWholeText BorrowedTextStands
