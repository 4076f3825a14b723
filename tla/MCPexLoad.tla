----------------------------- MODULE MCPexLoad -----------------------------
(***************************************************************************)
(* PexLoad on small files.  A member that steers the parser takes the      *)
(* values that matter to it; any other member has a value of its own, so   *)
(* that two members exchanged anywhere are noticed.                        *)
(***************************************************************************)
EXTENDS PexCodec, SequencesExt

\* Every pair of a kind of read and a member, and the strings' contents.
AllReads == FlattenSeq(<<
    ReadHeader, ReadStringTable, ReadDebugInfo, ReadDebugFunction,
    ReadUserFlags, ReadObjects, ReadObjectData, ReadVariable, ReadProperty,
    ReadState, ReadFunction,
    ReadVariableData[1], ReadVariableData[3], ReadVariableData[4],
    ReadVariableData[5],
    << <<"u64", "modificationTime">>, <<"count", "functionCount">>,
       <<"u16", "autoVarName">>, <<"u16", "functionName">>, <<"u16", "line">>,
       <<"u16", "flagNameIndex">>, <<"u8", "flagIndex">>,
       <<"u16", "nameIndex">>, <<"objectSize", "size">>, <<"opcode", "op">>,
       <<"string", "bytes">>, <<"payload", "bytes">>,
       <<"payload", "sourceFileName">>, <<"payload", "username">>,
       <<"payload", "machinename">> >> >>)

\* One value for each member, all different.
Filler ==
    [m \in {AllReads[i] : i \in DOMAIN AllReads} |->
        {100 + (CHOOSE i \in DOMAIN AllReads : AllReads[i] = m)}]

\* Empty vectors and strings and filler, but for the members in the domain
\* of `interesting`.
Choose(interesting) ==
    [m \in DOMAIN Filler |->
        IF m \in DOMAIN interesting THEN interesting[m]
        ELSE CASE m[1] \in {"count", "string", "debugFlag"} -> {0}
               [] m[1] = "magic" -> {Magic}
               [] OTHER -> Filler[m]]

-----------------------------------------------------------------------------
\* The sections before the objects.
SectionContents == Choose(
    (<<"magic", "magic">>             :> {0, Magic})
    @@ (<<"string", "sourceFileName">>  :> {0, 1})
    @@ (<<"count", "count">>            :> {0, 1, 3})
    @@ (<<"string", "bytes">>           :> {0, 2})
    @@ (<<"debugFlag", "hasDebugInfo">> :> {0, 1, 2})
    @@ (<<"count", "functionCount">>    :> {0, 1})
    @@ (<<"count", "instructionCount">> :> {0, 2})
    @@ (<<"count", "userFlagCount">>    :> {0, 1}))

SectionSizes == {29, 34, 60, 61}

-----------------------------------------------------------------------------
\* One object with one state with one function, its parameters and its
\* instructions: n bytes of these make an object of size 20 + 4 + 17 + n.
\* With MaxInt32 = 7 the argument count 15 is -1.
FunctionContents == Choose(
    (<<"count", "objectCount">>       :> {0, 1})
    @@ (<<"objectSize", "size">>        :> {3, 20, 41, 42, 45, 47, 49, 50, 54, 59})
    @@ (<<"count", "numStates">>        :> {0, 1})
    @@ (<<"count", "numFunctions">>     :> {1})
    @@ (<<"count", "numParams">>        :> {0, 1})
    @@ (<<"count", "numInstructions">>  :> {0, 1, 2})
    @@ (<<"opcode", "op">>              :> {nop, 20, callmethod, callparent,
                                            array_rfindelement, 36})
    @@ (<<"type", "type">>              :> {0, 3})
    @@ (<<"u32", "int32">>              :> {0, 1, 3, 15}))

FunctionSizes == {86, 100}

-----------------------------------------------------------------------------
\* Objects with variables and properties, and handlers with locals.
PropertyContents == Choose(
    (<<"count", "objectCount">>       :> {1, 2})
    @@ (<<"objectSize", "size">>        :> {19, 20, 29, 30, 31, 33, 40, 44, 46, 50, 61, 63, 65})
    @@ (<<"count", "numVariables">>     :> {0, 1})
    @@ (<<"count", "numProperties">>    :> {0, 1, 2})
    @@ (<<"propertyFlags", "flags">>    :> 0..7)
    @@ (<<"count", "numLocals">>        :> {0, 1})
    @@ (<<"type", "type">>              :> 0..6))

PropertySizes == {90, 130}
=============================================================================
