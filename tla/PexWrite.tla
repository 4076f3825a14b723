------------------------------ MODULE PexWrite ------------------------------
(***************************************************************************)
(* The Write functions of PexData: the writes to the output stream that    *)
(* Save makes for the data d, in order.                                    *)
(***************************************************************************)
EXTENDS PexRecords

CONSTANT MaxStringLength    \* the largest uint16_t

\* It is at least the largest uint8_t.
ASSUME StringLengthAssumption == MaxStringLength \in Nat /\ MaxStringLength >= 255

WriteUInt8(v) == << Number(1, v) >>
WriteUInt16BE(v) == << Number(2, v) >>
WriteUInt32BE(v) == << Number(4, v) >>
WriteUInt64BE(v) == << Number(8, v) >>

\* CheckedUInt16Length throws instead of writing.
LengthError == Number(0, 0)

\* Variant: nothing is written for an empty string.
WriteWStringUnlessEmpty(d, path, field) ==
    LET length == Size(d, path, field)
    IN  IF length > MaxStringLength THEN << LengthError >>
        ELSE IF length = 0 THEN << >>
        ELSE WriteUInt16BE(length)
               \o << Text(length, Value(d, path, field)) >>

\* A length-prefixed string.
WriteWString(d, path, field) ==
    LET length == Size(d, path, field)
    IN  IF length > MaxStringLength THEN << LengthError >>
        ELSE WriteUInt16BE(length) \o
             (IF length = 0 THEN << >>
              ELSE << Text(length, Value(d, path, field)) >>)

\* The first n of the sequences s, one after the other.
Joined(s, n) ==
    LET joined[i \in 0..n] == IF i = 0 THEN << >> ELSE joined[i - 1] \o s[i]
    IN  joined[n]

\* What is written for the elements 1..n of a vector, one after the other.
Loop(n, Write(_)) == Joined([i \in 1..n |-> Write(i)], n)

\* for (const auto& element : vector)
ForEach(d, path, vector, Write(_, _)) ==
    LET element(i) == Write(d, Child(path, vector, i))
    IN  Loop(Size(d, path, vector), element)

\* Variant: the versions exchanged.
WriteHeaderMinorFirst(d) ==
    LET member(field) == Value(d, << >>, field) IN
    WriteUInt32BE(member("magic"))
      \o WriteUInt8(member("minorVersion")) \o WriteUInt8(member("majorVersion"))
      \o WriteUInt16BE(member("gameId")) \o WriteUInt64BE(member("compilationTime"))
      \o WriteWString(d, << >>, "sourceFileName")
      \o WriteWString(d, << >>, "username")
      \o WriteWString(d, << >>, "machinename")

WriteHeader(d) ==
    LET member(field) == Value(d, << >>, field) IN
    WriteUInt32BE(member("magic"))
      \o WriteUInt8(member("majorVersion")) \o WriteUInt8(member("minorVersion"))
      \o WriteUInt16BE(member("gameId")) \o WriteUInt64BE(member("compilationTime"))
      \o WriteWString(d, << >>, "sourceFileName")
      \o WriteWString(d, << >>, "username")
      \o WriteWString(d, << >>, "machinename")

\* As many strings as the count says, the vector being resized to it first.
WriteStringTable(d) ==
    LET count == Value(d, << >>, "count")
        string(i) == WriteWString(d, Child(<< >>, "strings", i), "bytes")
    IN  WriteUInt16BE(count) \o Loop(count, string)

\* Variant: the names of state and function exchanged.
WriteDebugFunctionExchanged(d, path) ==
    LET member(field) == Value(d, path, field)
        line(e, p) == WriteUInt16BE(Value(e, p, "line"))
    IN  WriteUInt16BE(member("objectNameIndex"))
          \o WriteUInt16BE(member("functionNameIndex"))
          \o WriteUInt16BE(member("stateNameIndex"))
          \o WriteUInt8(member("functionType"))
          \o WriteUInt16BE(member("instructionCount"))
          \o ForEach(d, path, "lineNumbers", line)

WriteDebugFunction(d, path) ==
    LET member(field) == Value(d, path, field)
        line(e, p) == WriteUInt16BE(Value(e, p, "line"))
    IN  WriteUInt16BE(member("objectNameIndex"))
          \o WriteUInt16BE(member("stateNameIndex"))
          \o WriteUInt16BE(member("functionNameIndex"))
          \o WriteUInt8(member("functionType"))
          \o WriteUInt16BE(member("instructionCount"))
          \o ForEach(d, path, "lineNumbers", line)

WriteDebugInfo(d) ==
    LET member(field) == Value(d, << >>, field) IN
    WriteUInt8(member("hasDebugInfo"))
      \o (IF member("hasDebugInfo") = 0 THEN << >>
          ELSE WriteUInt64BE(member("modificationTime"))
                 \o WriteUInt16BE(member("functionCount"))
                 \o ForEach(d, << >>, "functions", WriteDebugFunction))

WriteUserFlags(d) ==
    LET flag(e, p) == WriteUInt16BE(Value(e, p, "flagNameIndex"))
                        \o WriteUInt8(Value(e, p, "flagIndex"))
    IN  WriteUInt16BE(Value(d, << >>, "userFlagCount"))
          \o ForEach(d, << >>, "userFlags", flag)

\* Variant: an identifier is written like the null value.
WriteVariableDataWithoutIdentifier(d, path) ==
    LET member(field) == Value(d, path, field)
        type == member("type")
    IN  WriteUInt8(type)
          \o CASE type = 2 -> WriteUInt16BE(member("uint16"))
               [] type = 3 -> WriteUInt32BE(member("int32"))
               [] type = 4 -> WriteUInt32BE(member("float"))
               [] type = 5 -> WriteUInt8(member("uint8"))
               [] OTHER -> << >>

\* The type, and the alternative of the std::variant that goes with it.
WriteVariableData(d, path) ==
    LET member(field) == Value(d, path, field)
        type == member("type")
    IN  WriteUInt8(type)
          \o CASE type \in {1, 2} -> WriteUInt16BE(member("uint16"))
               [] type = 3 -> WriteUInt32BE(member("int32"))
               [] type = 4 -> WriteUInt32BE(member("float"))
               [] type = 5 -> WriteUInt8(member("uint8"))
               [] OTHER -> << >>

WriteVariable(d, path) ==
    LET member(field) == Value(d, path, field) IN
    WriteUInt16BE(member("name")) \o WriteUInt16BE(member("typeName"))
      \o WriteUInt32BE(member("userFlags")) \o WriteVariableData(d, path)

\* Variant: the last argument is not written.
WriteInstructionShort(d, path) ==
    WriteUInt8(Value(d, path, "op"))
      \o LET argument(i) == WriteVariableData(d, Child(path, "arguments", i))
         IN  Loop(IF Size(d, path, "arguments") = 0 THEN 0
                  ELSE Size(d, path, "arguments") - 1, argument)

WriteInstruction(d, path) ==
    WriteUInt8(Value(d, path, "op"))
      \o ForEach(d, path, "arguments", WriteVariableData)

WriteFunction(d, path) ==
    LET member(field) == Value(d, path, field)
        variableType(e, p) == WriteUInt16BE(Value(e, p, "name"))
                                \o WriteUInt16BE(Value(e, p, "type"))
    IN  WriteUInt16BE(member("returnType")) \o WriteUInt16BE(member("docString"))
          \o WriteUInt32BE(member("userFlags")) \o WriteUInt8(member("flags"))
          \o WriteUInt16BE(member("numParams"))
          \o ForEach(d, path, "params", variableType)
          \o WriteUInt16BE(member("numLocals"))
          \o ForEach(d, path, "locals", variableType)
          \o WriteUInt16BE(member("numInstructions"))
          \o ForEach(d, path, "instructions", WriteInstruction)

\* Variant: an auto property is written with its handlers.
WritePropertyWithHandlers(d, path) ==
    LET member(field) == Value(d, path, field)
        flags == member("flags")
    IN  WriteUInt16BE(member("name")) \o WriteUInt16BE(member("type"))
          \o WriteUInt16BE(member("docstring")) \o WriteUInt32BE(member("userFlags"))
          \o WriteUInt8(flags)
          \o (IF HasBit(flags, 4)
              THEN WriteUInt16BE(member("autoVarName")) ELSE << >>)
          \o (IF HasBit(flags, 1)
              THEN WriteFunction(d, Child(path, "readHandler", 0)) ELSE << >>)
          \o (IF HasBit(flags, 2)
              THEN WriteFunction(d, Child(path, "writeHandler", 0)) ELSE << >>)

WriteProperty(d, path) ==
    LET member(field) == Value(d, path, field)
        flags == member("flags")
    IN  WriteUInt16BE(member("name")) \o WriteUInt16BE(member("type"))
          \o WriteUInt16BE(member("docstring")) \o WriteUInt32BE(member("userFlags"))
          \o WriteUInt8(flags)
          \o (IF HasBit(flags, 4)
              THEN WriteUInt16BE(member("autoVarName")) ELSE << >>)
          \o (IF HasBit(flags, 1) /\ ~HasBit(flags, 4)
              THEN WriteFunction(d, Child(path, "readHandler", 0)) ELSE << >>)
          \o (IF HasBit(flags, 2) /\ ~HasBit(flags, 4)
              THEN WriteFunction(d, Child(path, "writeHandler", 0)) ELSE << >>)

WriteState(d, path) ==
    LET function(e, p) == WriteUInt16BE(Value(e, p, "functionName"))
                            \o WriteFunction(e, p)
    IN  WriteUInt16BE(Value(d, path, "name"))
          \o WriteUInt16BE(Value(d, path, "numFunctions"))
          \o ForEach(d, path, "functions", function)

WriteObjectData(d, path) ==
    LET member(field) == Value(d, path, field) IN
    WriteUInt16BE(member("parentClassName")) \o WriteUInt16BE(member("docString"))
      \o WriteUInt32BE(member("userFlags")) \o WriteUInt16BE(member("autoStateName"))
      \o WriteUInt16BE(member("numVariables"))
      \o ForEach(d, path, "variables", WriteVariable)
      \o WriteUInt16BE(member("numProperties"))
      \o ForEach(d, path, "properties", WriteProperty)
      \o WriteUInt16BE(member("numStates"))
      \o ForEach(d, path, "states", WriteState)

WriteObjects(d) ==
    LET object(e, p) == WriteUInt16BE(Value(e, p, "nameIndex"))
                          \o WriteUInt32BE(Value(e, p, "size"))
                          \o WriteObjectData(e, p)
    IN  WriteUInt16BE(Value(d, << >>, "objectCount"))
          \o ForEach(d, << >>, "objects", object)

\* All of Save.
Writes(d) ==
    WriteHeader(d) \o WriteStringTable(d) \o WriteDebugInfo(d)
      \o WriteUserFlags(d) \o WriteObjects(d)

-----------------------------------------------------------------------------
\* The offset each write starts at, and after the last one the file's length.
Offsets(writes) ==
    LET offset[i \in 1..(Len(writes) + 1)] ==
            IF i = 1 THEN 0 ELSE offset[i - 1] + writes[i - 1].width
    IN  offset

Bytes(writes) == Offsets(writes)[Len(writes) + 1]
=============================================================================
