------------------------------ MODULE PexAccess ------------------------------
(***************************************************************************)
(* The accessors of the C ABI (PexReader.cpp): what a caller who asks for  *)
(* every count and then for every index below it is shown of an instance.  *)
(*                                                                         *)
(* An accessor takes a handle and indices.  It compares each index, the    *)
(* outermost first, with a bound, and then uses it in a vector; last it    *)
(* returns members of the record it arrived at.  So it is a chain of pairs *)
(* of a bound and a vector, and a set of members.  The null handle, and    *)
(* the status a call leaves behind, are PexAbi's.                          *)
(***************************************************************************)
EXTENDS PexRecords

Accessor(chain, members) == [chain |-> chain, members |-> members]

\* Index >= Inst->stringTable.count, and so on.
StringAt == << <<"count", "strings">> >>
DebugFunctionAt == << <<"functionCount", "functions">> >>
UserFlagAt == << <<"userFlagCount", "userFlags">> >>
ObjectAt == << <<"objectCount", "objects">> >>
VariableAt == Append(ObjectAt, <<"numVariables", "variables">>)
PropertyAt == Append(ObjectAt, <<"numProperties", "properties">>)
StateAt == Append(ObjectAt, <<"numStates", "states">>)
FunctionAt == Append(StateAt, <<"numFunctions", "functions">>)

\* The seven accessors of the header.
HeaderAccessors ==
    { Accessor(<< >>, {"sourceFileName", "username", "machinename", "magic",
                       "majorVersion", "minorVersion", "gameId",
                       "compilationTime"}) }

\* Variant: the index of a string is compared with the count of user flags.
StringAccessorsBoundedByFlags ==
    { Accessor(<< >>, {"count"}),
      Accessor(<< <<"userFlagCount", "strings">> >>, {"bytes"}) }

\* C_GetStringTableCount, C_GetStringUtf8 and C_GetStringWide.  What the text
\* of a string is, PexText says.
StringAccessors ==
    { Accessor(<< >>, {"count"}), Accessor(StringAt, {"bytes"}) }

\* C_HasDebugInfo to C_GetDebugFunctionInfo, which copies the line numbers
\* and gives, for their count, the size of the vector.
DebugAccessors ==
    { Accessor(<< >>, {"hasDebugInfo", "modificationTime", "functionCount"}),
      Accessor(DebugFunctionAt, {"objectNameIndex", "stateNameIndex",
                                 "functionNameIndex", "functionType"}),
      Accessor(Append(DebugFunctionAt, <<"size()", "lineNumbers">>), {"line"}) }

\* C_GetUserFlagCount and C_GetUserFlagInfo.
UserFlagAccessors ==
    { Accessor(<< >>, {"userFlagCount"}),
      Accessor(UserFlagAt, {"flagNameIndex", "flagIndex"}) }

\* C_GetObjectCount, C_GetObjectInfo and C_GetObjectData.
ObjectAccessors ==
    { Accessor(<< >>, {"objectCount"}),
      Accessor(ObjectAt, {"nameIndex", "size", "parentClassName", "docString",
                          "userFlags", "autoStateName"}) }

\* C_GetVariableCount and C_GetVariableInfo.
VariableAccessors ==
    { Accessor(ObjectAt, {"numVariables"}),
      Accessor(VariableAt, {"name", "typeName", "userFlags", "type", "data"}) }

\* C_GetPropertyCount and C_GetPropertyInfo.  Nothing shows the handlers.
PropertyAccessors ==
    { Accessor(ObjectAt, {"numProperties"}),
      Accessor(PropertyAt, {"name", "type", "docstring", "userFlags", "flags",
                            "autoVarName"}) }

\* C_GetStateCount and C_GetStateInfo.
StateAccessors ==
    { Accessor(ObjectAt, {"numStates"}),
      Accessor(StateAt, {"name", "numFunctions"}) }

\* C_GetStateFunctionInfo.
FunctionAccessors ==
    { Accessor(FunctionAt, {"functionName", "returnType", "docString",
                            "userFlags", "flags", "numParams", "numLocals",
                            "numInstructions"}) }

InstructionAt == Append(FunctionAt, <<"numInstructions", "instructions">>)

\* C_GetInstructionInfo.  A uint16_t holds the size of any argument list the
\* loader makes, 4096 and the four of the header at most.
InstructionAccessors == { Accessor(InstructionAt, {"op"}) }

\* Variant: the index of an argument is compared with the count of
\* instructions.
ArgumentAccessorsBoundedByInstructions ==
    { Accessor(Append(InstructionAt, <<"numInstructions", "arguments">>),
               {"type", "data"}) }

\* C_GetInstructionArgument.
ArgumentAccessors ==
    { Accessor(Append(InstructionAt, <<"size()", "arguments">>), {"type", "data"}) }

\* Variant: the locals are shown for the parameters.
ParamAccessorsOfLocals ==
    { Accessor(FunctionAt, {"numParams"}),
      Accessor(Append(FunctionAt, <<"numLocals", "locals">>), {"name", "type"}) }

\* C_GetFunctionParamCount and C_GetFunctionParamInfo.
ParamAccessors ==
    { Accessor(FunctionAt, {"numParams"}),
      Accessor(Append(FunctionAt, <<"numParams", "params">>), {"name", "type"}) }

\* C_GetFunctionLocalCount and C_GetFunctionLocalInfo.
LocalAccessors ==
    { Accessor(FunctionAt, {"numLocals"}),
      Accessor(Append(FunctionAt, <<"numLocals", "locals">>), {"name", "type"}) }

Accessors ==
    HeaderAccessors \cup StringAccessors \cup DebugAccessors
        \cup UserFlagAccessors \cup ObjectAccessors \cup VariableAccessors
        \cup PropertyAccessors \cup StateAccessors \cup FunctionAccessors
        \cup InstructionAccessors \cup ArgumentAccessors \cup ParamAccessors
        \cup LocalAccessors

-----------------------------------------------------------------------------
(* Walking the accessors *)

\* Variant: an identifier is taken for one without data.
AlternativeWithoutIdentifier(type) ==
    CASE type = 2 -> "uint16" [] type = 3 -> "int32" [] type = 4 -> "float"
      [] type = 5 -> "uint8" [] OTHER -> "none"

\* The std::get of C_GetVariableInfo and C_GetInstructionArgument.
Alternative(type) ==
    CASE type \in {1, 2} -> "uint16" [] type = 3 -> "int32" [] type = 4 -> "float"
      [] type = 5 -> "uint8" [] OTHER -> "none"

\* The bound of one step of a chain, in the record at `path`.
Bound(d, path, step) ==
    IF step[1] = "size()" THEN Size(d, path, step[2]) ELSE Value(d, path, step[1])

\* The records an accessor reaches with the indices it accepts.
Reached(d, chain) ==
    LET reached[k \in 0..Len(chain)] ==
            IF k = 0 THEN { << >> }
            ELSE UNION { {Child(path, chain[k][2], i) :
                              i \in 1..Bound(d, path, chain[k])} :
                         path \in reached[k - 1] }
    IN  reached[Len(chain)]

\* The member a caller is shown under the name m: "data" is the alternative
\* asked for.
Shown(d, path, m) ==
    IF m = "data" THEN Alternative(Value(d, path, "type")) ELSE m

\* Every member some accessor shows of some record, with what it shows.
ShownMembers(d) ==
    UNION { {LET member == Shown(d, path, m)
             IN  <<path, member, Value(d, path, member)>> :
                 path \in Reached(d, a.chain), m \in a.members} :
            a \in Accessors }

\* Every vector, with the bound of the indices into it; and every string,
\* with its length.
ShownSizes(d) ==
    UNION { (UNION { {<<path, a.chain[k][2], Bound(d, path, a.chain[k])>> :
                          path \in Reached(d, SubSeq(a.chain, 1, k - 1))} :
                     k \in DOMAIN a.chain })
            \cup {<<path, m, Size(d, path, m)>> :
                      path \in Reached(d, a.chain),
                      m \in a.members
                              \cap {"bytes", "sourceFileName", "username", "machinename"}} :
            a \in Accessors }
=============================================================================
