----------------------------- MODULE PexFixture -----------------------------
(***************************************************************************)
(* The complete file the repository's tests build (CreateFixture), given   *)
(* to Load whole and cut short at every byte.                              *)
(***************************************************************************)
EXTENDS PexCodec

CONSTANT SizeCountsItself   \* whether the fixture's object size includes its 4 bytes

ASSUME SizeAssumption == SizeCountsItself \in BOOLEAN

U8(v) == WriteUInt8(v)
U16(v) == WriteUInt16BE(v)
U32(v) == WriteUInt32BE(v)
U64(v) == WriteUInt64BE(v)

\* AppendString, for the nth of the fixture's strings.
AppendString(length, n) == U16(length) \o << Text(length, n) >>

EmptyFunction == U16(0) \o U16(0) \o U16(0)

FixtureObjectData ==
    U16(0) \o U16(0) \o U32(0) \o U16(1)
    \* a variable, an integer
    \o U16(1) \o U16(4) \o U16(3) \o U32(0) \o U8(3) \o U32(7)
    \* a property with both handlers, and an auto property
    \o U16(2)
    \o U16(4) \o U16(3) \o U16(1) \o U32(17) \o U8(3)
    \o U16(3) \o U16(1) \o U32(34) \o U8(1) \o EmptyFunction
    \o U16(3) \o U16(1) \o U32(51) \o U8(2) \o EmptyFunction
    \o U16(5) \o U16(3) \o U16(1) \o U32(68) \o U8(4) \o U16(4)
    \* a state with a function of one parameter and one local
    \o U16(1) \o U16(1) \o U16(1) \o U16(2)
    \o U16(3) \o U16(0) \o U32(0) \o U8(0)
    \o U16(1) \o U16(4) \o U16(3)
    \o U16(1) \o U16(4) \o U16(3)
    \* callmethod with one argument, and fadd
    \o U16(2)
    \o U8(callmethod) \o U8(0) \o U8(1) \o U16(4) \o U8(2) \o U16(5)
    \o U8(3) \o U32(1) \o U8(5) \o U8(1)
    \o U8(2) \o U8(4) \o U32(90) \o U8(4) \o U32(91) \o U8(4) \o U32(92)

Fixture ==
    U32(Magic) \o U8(3) \o U8(2) \o U16(1) \o U64(123456789)
    \o AppendString(11, 1) \o AppendString(6, 2) \o AppendString(9, 3)
    \* the string table
    \o U16(7)
    \o AppendString(10, 10) \o AppendString(14, 11) \o AppendString(12, 12)
    \o AppendString(3, 13) \o AppendString(8, 14) \o AppendString(6, 15)
    \o AppendString(4, 16)
    \* the debug information of a function with two lines
    \o U8(1) \o U64(987654321) \o U16(1)
    \o U16(0) \o U16(1) \o U16(2) \o U8(0) \o U16(2) \o U16(42) \o U16(43)
    \* a user flag
    \o U16(1) \o U16(6) \o U8(3)
    \* an object
    \o U16(1) \o U16(0)
    \o U32(Bytes(FixtureObjectData) + (IF SizeCountsItself THEN 4 ELSE 0))
    \o FixtureObjectData

\* The first n bytes of the fixture.
Prefix(n) ==
    LET offset == Offsets(Fixture)
    IN  [bytes |-> n,
         at |-> [o \in {offset[i] : i \in {j \in DOMAIN Fixture : offset[j + 1] <= n}} |->
                    Fixture[CHOOSE i \in DOMAIN Fixture :
                                offset[i] = o /\ Fixture[i].width > 0]]]

FixtureInit == disk \in {Prefix(n) : n \in FileSizes} /\ NoCall

FixtureNext == OpenFile \/ LoadStep

FixtureSpec == FixtureInit /\ [][FixtureNext]_vars

-----------------------------------------------------------------------------
(* Properties *)

\* The whole fixture loads, as the tests expect of it: LoadsCompleteFixture
\* asserts the counts of the data loaded (PexParserTests.cpp:608-626).
FixtureLoads == load = "failed" => disk.bytes < Bytes(Fixture)

\* No prefix of it does (RejectsEveryTruncatedPrefix, PexParserTests.cpp:633).
PrefixesAreRejected == load = "loaded" => disk.bytes = Bytes(Fixture)
=============================================================================
