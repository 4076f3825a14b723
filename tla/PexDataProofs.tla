---------------------------- MODULE PexDataProofs ----------------------------
(***************************************************************************)
(* Whatever calls of Load, ModifyStringTable, Save and Close follow one    *)
(* another, and wherever a Save fails or dies, an instance holds data      *)
(* whose counts are the sizes of its vectors, and whose two-byte members   *)
(* and strings are short enough for Save to write. A file that is cut      *)
(* short is never loaded, a saved one that is loaded gives back the data   *)
(* it was written from, and the ABI shows the data a Load has committed.   *)
(***************************************************************************)
EXTENDS PexData, PexCodecProofs

-----------------------------------------------------------------------------
(* What is short enough to be written *)

\* The members of two bytes, and the strings.
Words ==
    {"gameId", "objectNameIndex", "stateNameIndex", "functionNameIndex", "line",
     "flagNameIndex", "nameIndex", "parentClassName", "docString",
     "autoStateName", "name", "typeName", "type", "docstring", "autoVarName",
     "functionName", "returnType", "uint16"} \cup DOMAIN Vector

Strings == {"sourceFileName", "username", "machinename", "bytes"}

\* Every member of two bytes, and the length of every string, is a uint16_t.
Short(d) ==
    /\ \A q, f : f \in Words /\ <<q, f>> \in DOMAIN d.val => d.val[<<q, f>>] <= MaxStringLength
    /\ \A q, f : f \in Strings /\ <<q, f>> \in DOMAIN d.len => d.len[<<q, f>>] <= MaxStringLength

ShortData(d) == IsData(d) /\ Short(d)

\* What a Save may hand to the stream: LengthError is none of it.
Writable ==
    {e \in Items : e.width > 0 /\ (e.width = 2 /\ ~e.text => e.value <= MaxStringLength)}

\* Numbers of any width but two can be written, and numbers of two bytes that
\* are uint16_t.
LEMMA NumbersWritable ==
    ASSUME NEW v \in Nat
    PROVE  /\ WriteUInt8(v) \in Seq(Writable) /\ WriteUInt32BE(v) \in Seq(Writable)
           /\ WriteUInt64BE(v) \in Seq(Writable)
           /\ v <= MaxStringLength => WriteUInt16BE(v) \in Seq(Writable)
           /\ << >> \in Seq(Writable)
  <1>1. /\ Number(1, v) \in Writable /\ Number(4, v) \in Writable /\ Number(8, v) \in Writable
        /\ v <= MaxStringLength => Number(2, v) \in Writable
    BY DEF Number, Writable, Items
  <1>2. \A e \in Writable : <<e>> \in Seq(Writable)
    OBVIOUS
  <1> QED
    BY <1>1, <1>2 DEF WriteUInt8, WriteUInt16BE, WriteUInt32BE, WriteUInt64BE

\* The members of short data,
LEMMA MembersWritable ==
    ASSUME NEW d, ShortData(d), NEW path
    PROVE  /\ \A f \in Words : WriteUInt16BE(Value(d, path, f)) \in Seq(Writable)
           /\ \A f : /\ WriteUInt8(Value(d, path, f)) \in Seq(Writable)
                     /\ WriteUInt32BE(Value(d, path, f)) \in Seq(Writable)
                     /\ WriteUInt64BE(Value(d, path, f)) \in Seq(Writable)
  <1>1. \A f : Value(d, path, f) \in Nat
    BY ValueTyped DEF ShortData
  <1>2. ASSUME NEW f \in Words PROVE Value(d, path, f) <= MaxStringLength
    BY StringLengthAssumption DEF ShortData, Short, Value
  <1> QED
    BY <1>1, <1>2, NumbersWritable

\* ... its strings,
LEMMA StringsWritable ==
    ASSUME NEW d, ShortData(d), NEW path, NEW field \in Strings
    PROVE  WriteWString(d, path, field) \in Seq(Writable)
  <1> DEFINE length == Size(d, path, field)
             text == Text(length, Value(d, path, field))
             bytes == IF length = 0 THEN << >> ELSE << text >>
  <1>1. length \in Nat /\ Value(d, path, field) \in Nat
    BY ValueTyped DEF ShortData
  <1>2. length <= MaxStringLength
    BY StringLengthAssumption DEF ShortData, Short, Size
  <1>3. bytes \in Seq(Writable)
    <2>1. length # 0 => text \in Writable
      BY <1>1 DEF Text, Writable, Items
    <2> HIDE DEF text, length
    <2> QED
      BY <2>1
  <1>4. WriteUInt16BE(length) \in Seq(Writable)
    BY <1>1, <1>2, NumbersWritable
  <1>5. WriteWString(d, path, field) =
           IF length > MaxStringLength THEN << LengthError >>
           ELSE Then(WriteUInt16BE(length), bytes)
    BY Zenon DEF WriteWString, Then
  <1>6. ~(length > MaxStringLength)
    BY <1>1, <1>2, StringLengthAssumption
  <1> HIDE DEF bytes, length
  <1> QED
    BY <1>3, <1>4, <1>5, <1>6, ThenTyped

\* ... its variables, arguments and instructions,
LEMMA InstructionsWritable ==
    ASSUME NEW d, ShortData(d)
    PROVE  /\ \A path : WriteVariableData(d, path) \in Seq(Writable)
           /\ \A path : WriteInstruction(d, path) \in Seq(Writable)
  <1>1. ASSUME NEW path PROVE WriteVariableData(d, path) \in Seq(Writable)
    <2> DEFINE type == Value(d, path, "type")
               data == CASE type \in {1, 2} -> WriteUInt16BE(Value(d, path, "uint16"))
                         [] type = 3 -> WriteUInt32BE(Value(d, path, "int32"))
                         [] type = 4 -> WriteUInt32BE(Value(d, path, "float"))
                         [] type = 5 -> WriteUInt8(Value(d, path, "uint8"))
                         [] OTHER -> << >>
    <2>1. "uint16" \in Words
      BY DEF Words
    <2>2. data \in Seq(Writable)
      BY <2>1, MembersWritable
    <2>3. WriteUInt8(type) \in Seq(Writable)
      BY MembersWritable
    <2>4. WriteVariableData(d, path) = Then(WriteUInt8(type), data)
      BY WriteVariableDataIs, Zenon
    <2> HIDE DEF type, data
    <2> QED
      BY <2>2, <2>3, <2>4, ThenTyped
  <1>2. ASSUME NEW path PROVE WriteInstruction(d, path) \in Seq(Writable)
    <2> DEFINE n == Size(d, path, "arguments")
    <2>1. Sequences(Arguments(d, path), n, Writable)
      BY <1>1 DEF Arguments, Sequences
    <2>2. n \in Nat
      BY ValueTyped DEF ShortData
    <2>3. WriteInstruction(d, path) =
             Then(WriteUInt8(Value(d, path, "op")), Joined(Arguments(d, path), n))
      BY WriteInstructionIs
    <2>4. WriteUInt8(Value(d, path, "op")) \in Seq(Writable)
      BY MembersWritable
    <2> HIDE DEF n
    <2>5. Joined(Arguments(d, path), n) \in Seq(Writable)
      BY <2>1, <2>2, JoinedTyped
    <2> QED
      BY <2>3, <2>4, <2>5, ThenTyped
  <1> QED
    BY <1>1, <1>2

\* ... a count with its elements, when they can be,
LEMMA CountingWritable ==
    ASSUME NEW d, ShortData(d), NEW c \in DOMAIN Vector,
           \A p : Element(c, d, p) \in Seq(Writable)
    PROVE  \A path : Counting(c, d, path) \in Seq(Writable)
  <1> SUFFICES ASSUME NEW path PROVE Counting(c, d, path) \in Seq(Writable)
    OBVIOUS
  <1> DEFINE m == Size(d, path, Vector[c].name)
             e == Elements(c, d, path)
  <1>1. m \in Nat
    BY ValueTyped DEF ShortData
  <1>2. Sequences(e, m, Writable)
    BY DEF Elements, Sequences
  <1>3. Counting(c, d, path) =
           Then(WriteUInt16BE(Value(d, path, c)), JoinedFrom(e, 0, m))
    BY DEF Counting, Rest
  <1>4. WriteUInt16BE(Value(d, path, c)) \in Seq(Writable)
    BY MembersWritable DEF Words
  <1> HIDE DEF m, e
  <1>5. JoinedFrom(e, 0, m) \in Seq(Writable)
    BY <1>1, <1>2, JoinedFromTyped
  <1> QED
    BY <1>3, <1>4, <1>5, ThenTyped

\* ... its functions, those of the debug information too,
LEMMA FunctionsWritable ==
    ASSUME NEW d, ShortData(d)
    PROVE  /\ \A path : WriteFunction(d, path) \in Seq(Writable)
           /\ \A path : WriteDebugFunction(d, path) \in Seq(Writable)
  <1>1. \A p : /\ Element("instructionCount", d, p) \in Seq(Writable)
               /\ Element("numParams", d, p) \in Seq(Writable)
               /\ Element("numLocals", d, p) \in Seq(Writable)
               /\ Element("numInstructions", d, p) \in Seq(Writable)
    <2> TAKE p
    <2>1. {"line", "name", "type"} \subseteq Words
      BY DEF Words
    <2>2. \A f \in {"line", "name", "type"} : WriteUInt16BE(Value(d, p, f)) \in Seq(Writable)
      BY <2>1, MembersWritable
    <2>3. WriteInstruction(d, p) \in Seq(Writable)
      BY InstructionsWritable
    <2> QED
      BY <2>2, <2>3, ThenTyped DEF Element
  <1>2. \A path : /\ Counting("instructionCount", d, path) \in Seq(Writable)
                  /\ Counting("numParams", d, path) \in Seq(Writable)
                  /\ Counting("numLocals", d, path) \in Seq(Writable)
                  /\ Counting("numInstructions", d, path) \in Seq(Writable)
    BY <1>1, CountingWritable, VectorDomain
  <1>3. ASSUME NEW path PROVE FunctionWrites(d, path) \in Seq(Writable)
    <2>1. {"returnType", "docString"} \subseteq Words
      BY DEF Words
    <2>2. /\ WriteUInt16BE(Value(d, path, "returnType")) \in Seq(Writable)
          /\ WriteUInt16BE(Value(d, path, "docString")) \in Seq(Writable)
          /\ WriteUInt32BE(Value(d, path, "userFlags")) \in Seq(Writable)
          /\ WriteUInt8(Value(d, path, "flags")) \in Seq(Writable)
      BY <2>1, MembersWritable
    <2> QED
      BY <1>2, <2>2, ThenTyped DEF FunctionWrites
  <1>4. ASSUME NEW path PROVE DebugFunctionWrites(d, path) \in Seq(Writable)
    <2>1. {"objectNameIndex", "stateNameIndex", "functionNameIndex"} \subseteq Words
      BY DEF Words
    <2>2. /\ WriteUInt16BE(Value(d, path, "objectNameIndex")) \in Seq(Writable)
          /\ WriteUInt16BE(Value(d, path, "stateNameIndex")) \in Seq(Writable)
          /\ WriteUInt16BE(Value(d, path, "functionNameIndex")) \in Seq(Writable)
          /\ WriteUInt8(Value(d, path, "functionType")) \in Seq(Writable)
      BY <2>1, MembersWritable
    <2> QED
      BY <1>2, <2>2, ThenTyped DEF DebugFunctionWrites
  <1> QED
    BY <1>3, <1>4, WriteFunctionTyped, WriteDebugFunctionTyped DEF ShortData

\* ... its variables, properties and states,
LEMMA PartsWritable ==
    ASSUME NEW d, ShortData(d)
    PROVE  \A p : /\ Element("numVariables", d, p) \in Seq(Writable)
                  /\ Element("numProperties", d, p) \in Seq(Writable)
                  /\ Element("numStates", d, p) \in Seq(Writable)
  <1> TAKE p
  <1>1. {"name", "typeName", "type", "docstring", "autoVarName", "functionName"} \subseteq Words
    BY DEF Words
  <1>2. \A q : \A f \in {"name", "typeName", "type", "docstring", "autoVarName",
                         "functionName"} :
           WriteUInt16BE(Value(d, q, f)) \in Seq(Writable)
    BY <1>1, MembersWritable
  <1>3. /\ WriteUInt32BE(Value(d, p, "userFlags")) \in Seq(Writable)
        /\ WriteUInt8(Value(d, p, "flags")) \in Seq(Writable)
        /\ WriteVariableData(d, p) \in Seq(Writable)
        /\ << >> \in Seq(Writable)
    BY MembersWritable, InstructionsWritable, NumbersWritable
  <1>4. WriteVariable(d, p) \in Seq(Writable)
    BY <1>2, <1>3, WriteVariableIs, ThenTyped DEF ShortData
  <1>5. FlagsWrites(d, p) \in Seq(Writable)
    <2> DEFINE flags == Value(d, p, "flags")
    <2>1. /\ AutoWrites(d, p, flags) \in Seq(Writable)
          /\ ReadHandlerWrites(d, p, flags) \in Seq(Writable)
          /\ WriteHandlerWrites(d, p, flags) \in Seq(Writable)
      BY <1>2, <1>3, FunctionsWritable
         DEF AutoWrites, ReadHandlerWrites, WriteHandlerWrites
    <2> QED
      BY <1>3, <2>1, ThenTyped DEF FlagsWrites
  <1>6. WriteProperty(d, p) \in Seq(Writable)
    BY <1>2, <1>3, <1>5, WritePropertyIs, ThenTyped DEF ShortData
  <1>7. WriteState(d, p) \in Seq(Writable)
    <2>1. \A q : Element("numFunctions", d, q) \in Seq(Writable)
      BY <1>2, FunctionsWritable, ThenTyped DEF Element
    <2>2. Counting("numFunctions", d, p) \in Seq(Writable)
      BY <2>1, CountingWritable, VectorDomain
    <2> QED
      BY <1>2, <2>2, WriteStateIs, ThenTyped DEF ShortData
  <1> QED
    BY <1>4, <1>6, <1>7 DEF Element

\* ... its objects,
LEMMA ObjectsWritable ==
    ASSUME NEW d, ShortData(d)
    PROVE  WriteObjects(d) \in Seq(Writable)
  <1>1. \A path : /\ Counting("numVariables", d, path) \in Seq(Writable)
                  /\ Counting("numProperties", d, path) \in Seq(Writable)
                  /\ Counting("numStates", d, path) \in Seq(Writable)
    BY PartsWritable, CountingWritable, VectorDomain
  <1>2. ASSUME NEW p PROVE Element("objectCount", d, p) \in Seq(Writable)
    <2>1. {"nameIndex", "parentClassName", "docString", "autoStateName"} \subseteq Words
      BY DEF Words
    <2>2. /\ WriteUInt16BE(Value(d, p, "nameIndex")) \in Seq(Writable)
          /\ WriteUInt16BE(Value(d, p, "parentClassName")) \in Seq(Writable)
          /\ WriteUInt16BE(Value(d, p, "docString")) \in Seq(Writable)
          /\ WriteUInt16BE(Value(d, p, "autoStateName")) \in Seq(Writable)
          /\ WriteUInt32BE(Value(d, p, "userFlags")) \in Seq(Writable)
          /\ WriteUInt32BE(Value(d, p, "size")) \in Seq(Writable)
      BY <2>1, MembersWritable
    <2>3. ObjectWrites(d, p) \in Seq(Writable)
      BY <1>1, <2>2, ThenTyped DEF ObjectWrites
    <2>4. WriteObjectData(d, p) \in Seq(Writable)
      BY <2>3, WriteObjectDataTyped DEF ShortData
    <2> QED
      BY <2>2, <2>4, ThenTyped DEF Element
  <1>3. Counting("objectCount", d, << >>) \in Seq(Writable)
    BY <1>2, CountingWritable, VectorDomain
  <1> QED
    BY <1>3, WriteObjectsIs DEF ShortData

\* ... and all of it.
LEMMA WritesWritable ==
    ASSUME NEW d, ShortData(d)
    PROVE  Writes(d) \in Seq(Writable)
  <1>1. WriteHeader(d) \in Seq(Writable)
    <2>1. "gameId" \in Words /\ {"sourceFileName", "username", "machinename"} \subseteq Strings
      BY DEF Words, Strings
    <2>2. /\ WriteUInt16BE(Value(d, << >>, "gameId")) \in Seq(Writable)
          /\ \A f : /\ WriteUInt8(Value(d, << >>, f)) \in Seq(Writable)
                    /\ WriteUInt32BE(Value(d, << >>, f)) \in Seq(Writable)
                    /\ WriteUInt64BE(Value(d, << >>, f)) \in Seq(Writable)
      BY <2>1, MembersWritable
    <2>3. /\ WriteWString(d, << >>, "sourceFileName") \in Seq(Writable)
          /\ WriteWString(d, << >>, "username") \in Seq(Writable)
          /\ WriteWString(d, << >>, "machinename") \in Seq(Writable)
      BY <2>1, StringsWritable
    <2>4. HeaderWrites(d, << >>) \in Seq(Writable)
      BY <2>2, <2>3, ThenTyped DEF HeaderWrites
    <2> QED
      BY <2>4, WriteHeaderIs DEF ShortData
  <1>2. WriteStringTable(d) \in Seq(Writable)
    <2> DEFINE n == Value(d, << >>, "count")
               s == [i \in 1..n |-> WriteWString(d, Child(<< >>, "strings", i), "bytes")]
    <2>1. WriteStringTable(d) = Then(WriteUInt16BE(n), Joined(s, n))
      BY Zenon DEF WriteStringTable, Loop, Then
    <2>2. "bytes" \in Strings /\ "count" \in Words
      BY VectorDomain DEF Strings, Words
    <2>3. n \in Nat /\ WriteUInt16BE(n) \in Seq(Writable)
      BY <2>2, ValueTyped, MembersWritable DEF ShortData
    <2>4. Sequences(s, n, Writable)
      BY <2>2, StringsWritable DEF Sequences
    <2> HIDE DEF n, s
    <2>5. Joined(s, n) \in Seq(Writable)
      BY <2>3, <2>4, JoinedTyped
    <2> QED
      BY <2>1, <2>3, <2>5, ThenTyped
  <1>3. WriteDebugInfo(d) \in Seq(Writable)
    <2>1. \A p : Element("functionCount", d, p) \in Seq(Writable)
      BY FunctionsWritable DEF Element
    <2>2. Counting("functionCount", d, << >>) \in Seq(Writable)
      BY <2>1, CountingWritable, VectorDomain
    <2>3. /\ WriteUInt8(Value(d, << >>, "hasDebugInfo")) \in Seq(Writable)
          /\ WriteUInt64BE(Value(d, << >>, "modificationTime")) \in Seq(Writable)
          /\ << >> \in Seq(Writable)
      BY MembersWritable, NumbersWritable
    <2>4. DebugInfoWrites(d, << >>) \in Seq(Writable)
      BY <2>2, <2>3, ThenTyped DEF DebugInfoWrites
    <2> QED
      BY <2>4, WriteDebugInfoIs DEF ShortData
  <1>4. WriteUserFlags(d) \in Seq(Writable)
    <2>1. "flagNameIndex" \in Words
      BY DEF Words
    <2>2. \A p : Element("userFlagCount", d, p) \in Seq(Writable)
      BY <2>1, MembersWritable, ThenTyped DEF Element
    <2>3. Counting("userFlagCount", d, << >>) \in Seq(Writable)
      BY <2>2, CountingWritable, VectorDomain
    <2> QED
      BY <2>3, WriteUserFlagsIs DEF ShortData
  <1>5. WriteObjects(d) \in Seq(Writable)
    BY ObjectsWritable
  <1> QED
    BY <1>1, <1>2, <1>3, <1>4, <1>5, WritesTyped, ThenTyped DEF ShortData

-----------------------------------------------------------------------------
(* What is parsed is short enough to be written again *)

\* A member of two bytes is read from two bytes, or is a type.
LEMMA MemberWords ==
    ASSUME NEW kind, NEW field, <<kind, field>> \in Members, field \in Words
    PROVE  kind \in {"u16", "count", "type"}
  BY VectorDomain DEF Members, Words

\* The names of vectors are not those of strings.
LEMMA StringsAreNoVectors ==
    /\ \A c \in DOMAIN Vector : Vector[c].name \notin Strings
    /\ "objects" \notin Strings /\ "arguments" \notin Strings
  BY VectorDomain DEF Vector, Strings

\* A step that sets short members keeps what is parsed short.
LEMMA ShortStep ==
    ASSUME Short(parsed), NEW values, NEW sizes, Grows(values, sizes),
           \A q, f : <<q, f>> \in values /\ f \in Words =>
                        parsed'.val[<<q, f>>] <= MaxStringLength,
           \A q, f : <<q, f>> \in sizes /\ f \in Strings =>
                        parsed'.len[<<q, f>>] <= MaxStringLength
    PROVE  Short(parsed')
  <1>1. ASSUME NEW q, NEW f, f \in Words, <<q, f>> \in DOMAIN parsed'.val
        PROVE  parsed'.val[<<q, f>>] <= MaxStringLength
    <2>1. CASE <<q, f>> \in values
      BY <1>1, <2>1
    <2>2. CASE <<q, f>> \notin values
      <3>1. <<q, f>> \in DOMAIN parsed.val /\ parsed'.val[<<q, f>>] = parsed.val[<<q, f>>]
        BY <1>1, <2>2 DEF Grows, Extends
      <3> QED
        BY <1>1, <3>1 DEF Short
    <2> QED
      BY <2>1, <2>2
  <1>2. ASSUME NEW q, NEW f, f \in Strings, <<q, f>> \in DOMAIN parsed'.len
        PROVE  parsed'.len[<<q, f>>] <= MaxStringLength
    <2>1. CASE <<q, f>> \in sizes
      BY <1>2, <2>1
    <2>2. CASE <<q, f>> \notin sizes
      <3>1. <<q, f>> \in DOMAIN parsed.len /\ parsed'.len[<<q, f>>] = parsed.len[<<q, f>>]
        BY <1>2, <2>2 DEF Grows, Extends
      <3> QED
        BY <1>2, <3>1 DEF Short
    <2> QED
      BY <2>1, <2>2
  <1> QED
    BY <1>1, <1>2 DEF Short

\* What a read gives a member of two bytes is a uint16_t.
LEMMA ReadIsShort ==
    ASSUME TypeOK, Narrow, agenda # << >>, head.kind \in DOMAIN Width \cup {"payload"},
           NEW v \in Seen(HeadWidth), ~Rejects(v)
    PROVE  head.field \in Words => v <= MaxStringLength
  <1>1. SUFFICES ASSUME head.field \in Words PROVE v <= MaxStringLength
    OBVIOUS
  <1>2. <<head.kind, head.field>> \in Members
    BY HeadTyped DEF Goals
  <1>3. head.kind \in {"u16", "count", "type"}
    BY <1>1, <1>2, MemberWords
  <1>4. CASE head.kind = "type"
    <2>1. v \in Nat /\ v <= 5
      BY <1>4, SeenTyped DEF Rejects
    <2> QED
      BY <2>1, StringLengthAssumption
  <1>5. CASE head.kind \in {"u16", "count"}
    <2>1. HeadWidth = 2
      BY <1>5 DEF HeadWidth, Width
    <2> QED
      BY <1>5, <2>1, SeenNarrow
  <1> QED
    BY <1>3, <1>4, <1>5

\* Every step of the parser keeps it so.
LEMMA ReadStepShort ==
    ASSUME TypeOK, Narrow, Short(parsed), ReadStep
    PROVE  Short(parsed')
  <1>0. /\ DOMAIN Width = {"magic", "u8", "u16", "u32", "u64", "string", "count",
                           "debugFlag", "objectSize", "propertyFlags", "type", "opcode"}
        /\ agenda # << >>
    BY DEF ReadStep, ReadScalar, ReadLength, ReadCount, NextElement, ReadDebugFlag,
           ReadObjectSize, ObjectEnds, ReadPropertyFlags, ReadType, ReadOpcode,
           ReadCallArguments, PushArgument, At, Width
  <1>1. ASSUME ReadScalar \/ ReadDebugFlag \/ ReadPropertyFlags \/ ReadType
        PROVE  Short(parsed')
    <2>1. /\ head.kind \in DOMAIN Width \cup {"payload"}
          /\ \E v \in Seen(HeadWidth) : ~Rejects(v) /\ parsed' = WithValue(v)
      <3>1. CASE ReadScalar
        BY <1>0, <3>1 DEF ReadScalar, At, Consume
      <3>2. CASE ReadDebugFlag \/ ReadPropertyFlags \/ ReadType
        <4>1. head.kind \in {"debugFlag", "propertyFlags", "type"}
          BY <3>2 DEF ReadDebugFlag, ReadPropertyFlags, ReadType, At
        <4>2. HeadWidth = 1
          BY <4>1 DEF HeadWidth, Width
        <4> QED
          BY <1>0, <3>2, <4>1, <4>2 DEF ReadDebugFlag, ReadPropertyFlags, ReadType, Consume
      <3> QED
        BY <1>1, <3>1, <3>2
    <2>2. PICK v \in Seen(HeadWidth) : ~Rejects(v) /\ parsed' = WithValue(v)
      BY <2>1
    <2>3. head.field \in Words => v <= MaxStringLength
      BY <1>0, <2>1, <2>2, ReadIsShort
    <2>4. /\ Grows({<<head.path, head.field>>}, {})
          /\ parsed'.val[<<head.path, head.field>>] = v
      BY <2>2, GrowsByValue
    <2> QED
      BY <2>3, <2>4, ShortStep
  <1>2. ASSUME ReadLength
        PROVE  Short(parsed')
    <2>1. PICK v \in Seen(2) : parsed' = WithSize(parsed, head.path, head.field, v)
      BY <1>2 DEF ReadLength
    <2>2. v <= MaxStringLength
      <3>1. head.kind = "string"
        BY <1>2 DEF ReadLength, At
      <3> QED
        BY <1>0, <2>1, <3>1, SeenNarrow
    <2>3. /\ Grows({}, {<<head.path, head.field>>})
          /\ parsed'.len[<<head.path, head.field>>] = v
      BY <2>1, GrowsBySize
    <2> QED
      BY <2>2, <2>3, ShortStep
  <1>3. ASSUME ReadCount \/ ReadObjectSize \/ ReadOpcode
        PROVE  Short(parsed')
    <2>1. /\ head.kind \in DOMAIN Width
          /\ \E v \in Seen(HeadWidth) : \E p, f, n :
                ~Rejects(v) /\ f \notin Strings /\ parsed' = WithSize(WithValue(v), p, f, n)
      <3>1. CASE ReadCount
        <4>1. head.kind = "count" /\ head.field \in DOMAIN Vector
          <5>1. head.kind = "count"
            BY <3>1 DEF ReadCount, At
          <5>2. <<head.kind, head.field>> \in Members
            BY <1>0, <5>1, HeadTyped DEF Goals
          <5> QED
            BY <5>1, <5>2, MemberNames
        <4>2. HeadWidth = 2 /\ Vector[head.field].name \notin Strings
          BY <4>1, StringsAreNoVectors DEF HeadWidth, Width
        <4> QED
          BY <1>0, <3>1, <4>1, <4>2 DEF ReadCount, Consume
      <3>2. CASE ReadObjectSize
        <4>1. head.kind = "objectSize" /\ HeadWidth = 4 /\ "objects" \notin Strings
          BY <3>2, StringsAreNoVectors DEF ReadObjectSize, At, HeadWidth, Width
        <4> QED
          BY <1>0, <3>2, <4>1 DEF ReadObjectSize, Consume
      <3>3. CASE ReadOpcode
        <4>1. head.kind = "opcode" /\ HeadWidth = 1 /\ "arguments" \notin Strings
          BY <3>3, StringsAreNoVectors DEF ReadOpcode, At, HeadWidth, Width
        <4> QED
          BY <1>0, <3>3, <4>1 DEF ReadOpcode, Consume
      <3> QED
        BY <1>3, <3>1, <3>2, <3>3
    <2>2. PICK v, p, f, n :
             /\ v \in Seen(HeadWidth) /\ ~Rejects(v)
             /\ f \notin Strings /\ parsed' = WithSize(WithValue(v), p, f, n)
      BY <2>1
    <2>3. head.field \in Words => v <= MaxStringLength
      BY <1>0, <2>1, <2>2, ReadIsShort
    <2>4. /\ Grows({<<head.path, head.field>>}, {<<p, f>>})
          /\ parsed'.val[<<head.path, head.field>>] = v
      BY <2>2, GrowsByBoth
    <2> QED
      BY <2>2, <2>3, <2>4, ShortStep
  <1>4. ASSUME ReadCallArguments \/ PushArgument
        PROVE  Short(parsed')
    <2>1. PICK n : parsed' = WithSize(parsed, head.path, "arguments", n)
      BY <1>4 DEF ReadCallArguments, PushArgument
    <2>2. Grows({}, {<<head.path, "arguments">>})
      BY <2>1, GrowsBySize
    <2> QED
      BY <2>2, ShortStep, StringsAreNoVectors
  <1>5. ASSUME NextElement \/ ObjectEnds
        PROVE  Short(parsed')
    BY <1>5 DEF NextElement, ObjectEnds
  <1> QED
    BY <1>1, <1>2, <1>3, <1>4, <1>5 DEF ReadStep

\* Nothing is short.
LEMMA NothingIsShort == Short(EmptyData)
  BY DEF Short, EmptyData

-----------------------------------------------------------------------------
(* The inductive invariant *)

\* Data an instance may hold: every count is the size of its vector, the
\* vectors are within the limit, and all of it is short enough to be written.
Sound(d) ==
    /\ IsData(d) /\ Short(d) /\ Matched(d)
    /\ Value(d, << >>, "objectCount") = Size(d, << >>, "objects")
    /\ IsFiniteSet(DOMAIN d.len) /\ Held(d) <= MaxAggregateElements

\* The instance always does, and while a file is parsed Save does not run.
Stored ==
    /\ Sound(inst) /\ Short(parsed)
    /\ load = "parsing" => save # "saving"

\* Save hands nothing to the stream that it refuses, and knows what it wrote.
Saving ==
    /\ output \in Seq(Writable) /\ good \in BOOLEAN
    /\ save \in {"idle", "saving", "saved", "failed"} /\ saves \in 0..MaxSaves
    /\ written.how \in {"foreign", "torn", "complete"} /\ Sound(written.data)

DataInv == CodecInv /\ Stored /\ Saving

\* Sound data have the counts that the accessors and the writer rely on.
LEMMA SoundIs ==
    ASSUME NEW d, Sound(d)
    PROVE  Good(d) /\ Counted(d) /\ ShortData(d)
  <1>1. Counted(d)
    BY MatchedIsCounted DEF Sound
  <1>2. ASSUME NEW c \in DOMAIN Vector, NEW path, HasCount(path, c)
        PROVE  Value(d, path, c) = Size(d, path, Vector[c].name)
    <2>1. CASE c = "objectCount"
      BY <1>2, <2>1, VectorNamesAre DEF HasCount, Sound
    <2>2. CASE c # "objectCount"
      BY <1>2, <2>2, MatchedEverywhere DEF Sound
    <2> QED
      BY <2>1, <2>2
  <1>3. Even(d)
    BY <1>2 DEF Even
  <1> QED
    BY <1>1, <1>3 DEF Good, ShortData, Sound

\* A new instance is sound,
LEMMA NothingIsSound == Sound(EmptyData)
  <1>1. Matched(EmptyData) /\ IsData(EmptyData)
    BY EmptyDataTyped DEF Matched, EmptyData
  <1>2. Value(EmptyData, << >>, "objectCount") = Size(EmptyData, << >>, "objects")
    BY DEF EmptyData, Value, Size
  <1> QED
    BY <1>1, <1>2, NothingIsShort, HeldOfNothing, LimitsAssumption DEF Sound

\* ... what was parsed to its end is,
LEMMA ParsedIsSound ==
    ASSUME VectorInv, Short(parsed), agenda = << >>
    PROVE  Sound(parsed)
  <1>1. /\ IsData(parsed) /\ Matched(parsed) /\ IsFiniteSet(DOMAIN parsed.len)
        /\ ObjectsToCome = 0
        /\ Held(parsed) + Owing(agenda) + ObjectsToCome <= aggregateElements
        /\ aggregateElements <= MaxAggregateElements /\ aggregateElements \in Nat
    BY DEF VectorInv, ParseInv, Finite, ObjectsCounted, ChargedFor, ReaderBounded, TypeOK
  <1>2. /\ Value(parsed, << >>, "objectCount") \in Nat
        /\ Size(parsed, << >>, "objects") \in Nat
    BY <1>1, ValueTyped
  <1>3. Value(parsed, << >>, "objectCount") = Size(parsed, << >>, "objects")
    BY <1>1, <1>2 DEF ObjectsToCome
  <1>4. Owing(agenda) = 0 /\ Held(parsed) \in Nat
    BY <1>1, FitsNothing, HeldTyped DEF Fits
  <1>5. Held(parsed) <= MaxAggregateElements
    BY <1>1, <1>4, LimitsAssumption
  <1> QED
    BY <1>1, <1>3, <1>5 DEF Sound

\* ... and what ModifyStringTable makes of sound data is.
LEMMA ReplacedIsSound ==
    ASSUME NEW d, Sound(d), NEW path, NEW v \in Nat, NEW n \in Nat, n <= MaxStringLength
    PROVE  Sound(WithSize(SetValue(d, path, "bytes", v), path, "bytes", n))
  <1> DEFINE e == SetValue(d, path, "bytes", v)
             s == WithSize(e, path, "bytes", n)
             key == <<path, "bytes">>
  <1>1. /\ IsData(d) /\ Short(d) /\ Matched(d)
        /\ Value(d, << >>, "objectCount") = Size(d, << >>, "objects")
        /\ IsFiniteSet(DOMAIN d.len) /\ Held(d) <= MaxAggregateElements
    BY DEF Sound
  <1>2. "bytes" \notin DOMAIN Vector /\ "bytes" \notin VectorNames /\ "bytes" \notin Words
    BY VectorDomain DEF VectorNames, Vector, Words
  <1>3. /\ IsData(e) /\ Matched(e)
        /\ e.len = d.len /\ e.val = Put(d.val, key, v)
        /\ Held(e) = Held(d)
        /\ \A p, f : /\ Value(e, p, f) = IF p = path /\ f = "bytes" THEN v ELSE Value(d, p, f)
                     /\ Size(e, p, f) = Size(d, p, f)
    BY <1>1, <1>2, SetTyped, ValueKeepsMatched, PutIs, HeldOfSizes, ValueOfPut
  <1> HIDE DEF e
  <1>4. /\ IsData(s) /\ Matched(s)
        /\ s.val = e.val /\ s.len = Put(e.len, key, n)
        /\ \A p, f : /\ Value(s, p, f) = Value(e, p, f)
                     /\ Size(s, p, f) = IF p = path /\ f = "bytes" THEN n ELSE Size(e, p, f)
    BY <1>2, <1>3, SetTyped, SizeKeepsMatched, PutIs, ValueOfPut
  <1>5. IsFiniteSet(DOMAIN s.len) /\ Held(s) = Held(d)
    <2>1. IsFiniteSet(DOMAIN e.len)
      BY <1>1, <1>3
    <2> QED
      BY <1>2, <1>3, <2>1, HeldOfWithSize
  <1> HIDE DEF s
  <1>6. Value(s, << >>, "objectCount") = Size(s, << >>, "objects")
    BY <1>1, <1>3, <1>4
  <1>7. Short(s)
    <2>1. /\ Extends(s.val, d.val, {key}) /\ Extends(s.len, d.len, {key}) /\ s.len[key] = n
      BY <1>3, <1>4, PutKept
    <2>2. ASSUME NEW q, NEW f, f \in Words, <<q, f>> \in DOMAIN s.val
          PROVE  s.val[<<q, f>>] <= MaxStringLength
      <3>1. <<q, f>> # key
        BY <1>2, <2>2
      <3>2. <<q, f>> \in DOMAIN d.val /\ s.val[<<q, f>>] = d.val[<<q, f>>]
        BY <2>1, <2>2, <3>1 DEF Extends
      <3> QED
        BY <1>1, <2>2, <3>2 DEF Short
    <2>3. ASSUME NEW q, NEW f, f \in Strings, <<q, f>> \in DOMAIN s.len
          PROVE  s.len[<<q, f>>] <= MaxStringLength
      <3>1. CASE <<q, f>> # key
        <4>1. <<q, f>> \in DOMAIN d.len /\ s.len[<<q, f>>] = d.len[<<q, f>>]
          BY <2>1, <2>3, <3>1 DEF Extends
        <4> QED
          BY <1>1, <2>3, <4>1 DEF Short
      <3>2. CASE <<q, f>> = key
        BY <2>1, <3>2
      <3> QED
        BY <3>1, <3>2
    <2> QED
      BY <2>2, <2>3 DEF Short
  <1>8. Sound(s)
    BY <1>1, <1>4, <1>5, <1>6, <1>7 DEF Sound
  <1> QED
    BY <1>8 DEF s, e

\* Between two calls of Load the invariant of the parser asks for no more.
Rests ==
    /\ disk = [bytes |-> disk.bytes, at |-> disk.at] /\ disk.bytes \in Nat
    /\ \A o \in DOMAIN disk.at : disk.at[o] \in Items
    /\ Narrow
    /\ size \in Nat /\ position \in Nat /\ ReaderBounded /\ aggregateElements = 0
    /\ agenda = << >> /\ parsed = EmptyData /\ Sound(inst)
    /\ load \in {"idle", "loaded", "failed"} /\ loads \in Nat

\* At rest the invariant of the parser holds,
LEMMA RestingCodec == Rests => CodecInv
  <1> SUFFICES ASSUME Rests PROVE CodecInv
    OBVIOUS
  <1>1. TypeOK
    BY EmptyDataTyped DEF TypeOK, Sound, Rests
  <1>2. ParseInv
    BY Resting DEF Sound, Rests
  <1>3. CountsMatchVectors /\ Held(inst) <= MaxAggregateElements
    BY SoundIs DEF Counted, CountsMatchVectors, Sound, Rests
  <1>4. FreshInv /\ Explained
    BY NothingIsFresh DEF FreshInv, Explained, Rests
  <1> QED
    BY <1>1, <1>2, <1>3, <1>4 DEF CodecInv, VectorInv, Rests

\* ... and so it does after a step that is none of Load's.
LEMMA BetweenCalls ==
    ASSUME CodecInv, load # "parsing",
           UNCHANGED <<reader, agenda, parsed, loads>>,
           load' \in {"idle", "loaded", "failed"}, Sound(inst'),
           disk' = [bytes |-> disk'.bytes, at |-> disk'.at], disk'.bytes \in Nat,
           \A o \in DOMAIN disk'.at : disk'.at[o] \in Items, Narrow'
    PROVE  CodecInv'
  <1>1. /\ size' \in Nat /\ position' \in Nat /\ ReaderBounded' /\ aggregateElements' = 0
        /\ agenda' = << >> /\ parsed' = EmptyData /\ loads' \in Nat
    BY DEF CodecInv, VectorInv, TypeOK, ReaderBounded, ParseInv, NothingRuns, reader
  <1>2. Rests'
    BY <1>1 DEF Rests
  <1>3. (Rests => CodecInv)'
    BY RestingCodec, PTL
  <1> QED
    BY <1>2, <1>3

-----------------------------------------------------------------------------
(* The steps *)

\* A step of Load: it only reads, and what it leaves in the instance is sound.
LEMMA LoadKeepsData ==
    ASSUME DataInv, PlaceFileHere \/ CallLoad \/ ContinueLoad
    PROVE  DataInv'
  <1>1. CodecInv'
    <2>1. Next
      BY DEF PlaceFileHere, CallLoad, ContinueLoad, Next
    <2> QED
      BY <2>1, NextCodec DEF DataInv
  <1>2. Saving'
    <2>1. CASE PlaceFileHere
      BY <2>1, NothingIsSound DEF PlaceFileHere, DataInv, Saving, Foreign, Written
    <2>2. CASE CallLoad \/ ContinueLoad
      BY <2>2 DEF CallLoad, ContinueLoad, saveVars, DataInv, Saving
    <2> QED
      BY <2>1, <2>2
  <1>3. Stored'
    <2>1. CASE PlaceFileHere
      BY <2>1 DEF PlaceFileHere, PlaceFile, DataInv, Stored
    <2>2. CASE CallLoad
      <3>1. /\ save' = save /\ save # "saving"
            /\ OpenFile \/ RefuseFile
        BY <2>2 DEF CallLoad, saveVars, Idle
      <3>2. inst' = inst /\ parsed' \in {parsed, EmptyData}
        BY <3>1 DEF OpenFile, RefuseFile
      <3> QED
        BY <3>1, <3>2, NothingIsShort DEF DataInv, Stored
    <2>3. CASE ContinueLoad
      <3>1. /\ load = "parsing" /\ save' = save /\ save # "saving"
            /\ TypeOK /\ Narrow /\ VectorInv
        <4>1. load = "parsing"
          BY <2>3 DEF ContinueLoad, LoadStep, Throw, Commit, ReadFails, ValueRefused,
                      ObjectSizeMismatch, CallRefused, ReadStep, ReadScalar, ReadLength,
                      ReadCount, NextElement, ReadDebugFlag, ReadObjectSize, ObjectEnds,
                      ReadPropertyFlags, ReadType, ReadOpcode, ReadCallArguments,
                      PushArgument, At
        <4> QED
          BY <2>3, <4>1 DEF ContinueLoad, saveVars, DataInv, Stored, CodecInv, VectorInv
      <3>2. CASE ReadStep
        <4>1. inst' = inst
          BY <3>2 DEF ReadStep, ReadScalar, ReadLength,
                      ReadCount, NextElement, ReadDebugFlag, ReadObjectSize, ObjectEnds,
                      ReadPropertyFlags, ReadType, ReadOpcode, ReadCallArguments,
                      PushArgument, Consume
        <4> QED
          BY <3>1, <3>2, <4>1, ReadStepShort DEF DataInv, Stored
      <3>3. CASE Throw
        <4>1. inst' = inst /\ parsed' = EmptyData
          BY <3>3 DEF Throw, ReadFails, ValueRefused, ObjectSizeMismatch, CallRefused, EndCall
        <4> QED
          BY <3>1, <4>1, NothingIsShort DEF DataInv, Stored
      <3>4. CASE Commit
        <4>1. inst' = parsed /\ parsed' = EmptyData /\ agenda = << >>
          BY <3>4 DEF Commit, EndCall
        <4> QED
          BY <3>1, <4>1, NothingIsShort, ParsedIsSound DEF DataInv, Stored
      <3> QED
        BY <2>3, <3>2, <3>3, <3>4 DEF ContinueLoad, LoadStep
    <2> QED
      BY <2>1, <2>2, <2>3
  <1> QED
    BY <1>1, <1>2, <1>3 DEF DataInv

\* A step that leaves the file, and replaces sound data by sound data.
LEMMA InstanceKeepsData ==
    ASSUME DataInv, Idle, Sound(inst'),
           UNCHANGED <<disk, reader, agenda, parsed, load, loads, saveVars>>
    PROVE  DataInv'
  <1>1. /\ load # "parsing" /\ load' = load /\ load \in {"idle", "loaded", "failed"}
        /\ UNCHANGED <<reader, agenda, parsed, loads>> /\ disk' = disk
        /\ TypeOK /\ Narrow /\ CodecInv
    BY DEF DataInv, CodecInv, VectorInv, TypeOK, Idle
  <1>2. Narrow'
    BY <1>1 DEF Narrow
  <1>3. CodecInv'
    BY <1>1, <1>2, BetweenCalls DEF TypeOK
  <1>4. Stored' /\ Saving'
    BY <1>1 DEF DataInv, Stored, Saving, saveVars
  <1> QED
    BY <1>3, <1>4 DEF DataInv

\* ModifyStringTable and Close.
LEMMA ModifyKeepsData ==
    ASSUME DataInv, ModifyStringTable \/ Close
    PROVE  DataInv'
  <1>1. Idle /\ UNCHANGED <<disk, reader, agenda, parsed, load, loads, saveVars>>
    BY DEF ModifyStringTable, Close
  <1>2. Sound(inst')
    <2>1. CASE Close
      BY <2>1, NothingIsSound DEF Close
    <2>2. CASE ModifyStringTable
      <3>1. PICK i, s : s \in NewStrings /\ s.length <= MaxStringLength /\ inst' = ReplaceString(i, s)
        BY <2>2 DEF ModifyStringTable
      <3> DEFINE path == Child(<< >>, "strings", i)
      <3>2. s.length \in Nat /\ s.value \in Nat /\ Sound(inst) /\ IsData(inst)
        BY <3>1, NewStringsAssumption DEF DataInv, Stored, Sound
      <3>3. inst' = WithSize(SetValue(inst, path, "bytes", s.value), path, "bytes", s.length)
        <4> DEFINE set  == SetValue(inst, path, "bytes", s.value)
                   both == WithSize(set, path, "bytes", s.length)
        <4>1. inst = [val |-> inst.val, len |-> inst.len]
          BY <3>2 DEF IsData
        <4>2. set = [val |-> Put(inst.val, <<path, "bytes">>, s.value), len |-> inst.len]
          BY <4>1 DEF SetValue
        <4>3. both = [set EXCEPT !.len = Put(set.len, <<path, "bytes">>, s.length)]
          BY Zenon DEF WithSize
        <4>4. both = [val |-> set.val, len |-> Put(set.len, <<path, "bytes">>, s.length)]
          <5> HIDE DEF set, both
          <5> QED
            BY <4>2, <4>3
        <4>5. /\ set.val = Put(inst.val, <<path, "bytes">>, s.value)
              /\ set.len = inst.len
          <5> HIDE DEF set, both
          <5> QED
            BY <4>2
        <4>6. ReplaceString(i, s) = [val |-> Put(inst.val, <<path, "bytes">>, s.value),
                                     len |-> Put(inst.len, <<path, "bytes">>, s.length)]
          BY Zenon DEF ReplaceString
        <4>7. ReplaceString(i, s) = both
          <5> HIDE DEF set, both, path
          <5> QED
            BY <4>4, <4>5, <4>6
        <4> QED
          BY <3>1, <4>7
      <3> HIDE DEF path
      <3> QED
        BY <3>1, <3>2, <3>3, ReplacedIsSound
    <2> QED
      BY <2>1, <2>2
  <1> QED
    BY <1>1, <1>2, InstanceKeepsData

\* WriteStringTable does not resize the strings of a sound instance.
LEMMA StringsOfCount ==
    ASSUME NEW d, Sound(d)
    PROVE  WithStringsOfCount(d) = d
  <1>1. Value(d, << >>, "count") = Size(d, << >>, "strings")
    <2>1. HasCount(<< >>, "count") /\ "count" \in DOMAIN Vector
      BY VectorDomain DEF HasCount
    <2>2. Even(d)
      BY SoundIs DEF Good
    <2> QED
      BY <2>1, <2>2, VectorNamesAre DEF Even
  <1>2. Value(d, << >>, "count") \in Nat
    BY ValueTyped DEF Sound
  <1> QED
    BY <1>1, <1>2 DEF WithStringsOfCount

\* Save begins,
LEMMA OpenKeepsData ==
    ASSUME DataInv, OpenForSave \/ CannotOpenForSave
    PROVE  DataInv'
  <1>1. CASE CannotOpenForSave
    <2>1. /\ UNCHANGED vars /\ UNCHANGED <<output, good, written>>
          /\ save' = "failed" /\ saves' \in 0..MaxSaves
      BY <1>1, NewStringsAssumption DEF CannotOpenForSave, DataInv, Saving
    <2>2. CodecInv'
      BY <2>1, NextCodec DEF DataInv
    <2> QED
      BY <2>1, <2>2 DEF DataInv, Stored, Saving, vars
  <1>2. CASE OpenForSave
    <2>1. /\ load # "parsing" /\ disk' = Unread(0) /\ output' = Writes(inst) /\ good' = TRUE
          /\ save' = "saving" /\ saves' \in 0..MaxSaves /\ Sound(inst) /\ inst' = inst
          /\ written' = Written("torn", inst)
          /\ UNCHANGED <<reader, agenda, parsed, load, loads>>
      BY <1>2, NewStringsAssumption, StringsOfCount
         DEF OpenForSave, Idle, DataInv, Stored, Saving
    <2>2. CodecInv'
      <3>1. load' \in {"idle", "loaded", "failed"} /\ CodecInv
        BY <2>1 DEF DataInv, CodecInv, VectorInv, TypeOK
      <3>2. /\ disk' = [bytes |-> disk'.bytes, at |-> disk'.at] /\ disk'.bytes = 0
            /\ DOMAIN disk'.at = {}
        BY <2>1 DEF Unread
      <3>3. Narrow'
        BY <3>2 DEF Narrow
      <3> QED
        BY <2>1, <3>1, <3>2, <3>3, BetweenCalls
    <2>3. output' \in Seq(Writable)
      BY <2>1, SoundIs, WritesWritable
    <2> QED
      BY <2>1, <2>2, <2>3 DEF DataInv, Stored, Saving, Written
  <1> QED
    BY <1>1, <1>2

\* A Save whose output is writable ends only when there is none left.
LEMMA NothingStopsSave ==
    ASSUME Saving, output # NoWrites
    PROVE  /\ ~WritingEnds
           /\ Head(output) \in Writable /\ Tail(output) \in Seq(Writable)
  <1>1. Head(output) \in Writable /\ Tail(output) \in Seq(Writable)
    BY DEF Saving, NoWrites
  <1>2. Head(output).width > 0
    BY <1>1 DEF Writable
  <1>3. LengthError.width = 0
    BY DEF LengthError, Number
  <1> QED
    BY <1>1, <1>2, <1>3 DEF WritingEnds

\* What the parser knows of a file stays true of a longer one.
LEMMA LongerFile ==
    ASSUME DataInv, save = "saving", NEW n \in Nat,
           disk' = [disk EXCEPT !.bytes = @ + n],
           UNCHANGED <<reader, agenda, parsed, loads>>, load' \in {load, "idle"},
           Sound(inst')
    PROVE  CodecInv'
  <1>1. /\ CodecInv /\ TypeOK /\ Narrow /\ load # "parsing"
        /\ load' \in {"idle", "loaded", "failed"}
    BY DEF DataInv, CodecInv, VectorInv, Stored, TypeOK
  <1>2. /\ disk' = [bytes |-> disk'.bytes, at |-> disk'.at] /\ disk'.bytes \in Nat
        /\ disk'.at = disk.at
    BY <1>1 DEF TypeOK
  <1>3. Narrow' /\ \A o \in DOMAIN disk'.at : disk'.at[o] \in Items
    BY <1>1, <1>2 DEF Narrow, TypeOK
  <1> QED
    BY <1>1, <1>2, <1>3, BetweenCalls

\* ... writes, and ends;
LEMMA SaveKeepsData ==
    ASSUME DataInv, SaveStep
    PROVE  DataInv'
  <1>1. /\ save = "saving" /\ load # "parsing" /\ Saving /\ Stored
        /\ CodecInv /\ TypeOK /\ Narrow /\ Sound(inst) /\ inst' = inst
        /\ UNCHANGED <<reader, agenda, parsed, inst, load, loads>>
    BY DEF SaveStep, Write, WriteFails, WriteDropped, CloseFile, vars, reader, DataInv,
           Stored, CodecInv, VectorInv
  <1>2. CASE Write
    <2>1. output # NoWrites
      BY <1>2 DEF Write, WritingEnds
    <2> DEFINE e == Head(output)
    <2>2. e \in Writable /\ Tail(output) \in Seq(Writable)
      BY <1>1, <2>1, NothingStopsSave
    <2>3. /\ disk' = [bytes |-> disk.bytes + e.width, at |-> Put(disk.at, disk.bytes, e)]
          /\ output' = Tail(output) /\ UNCHANGED <<good, save, saves, written>>
      BY <1>2 DEF Write
    <2> HIDE DEF e
    <2>4. /\ disk' = [bytes |-> disk'.bytes, at |-> disk'.at] /\ disk'.bytes \in Nat
          /\ Reveals(disk'.at, disk.at, disk.bytes, e)
      <3>1. disk'.at = Put(disk.at, disk.bytes, e) /\ disk'.bytes = disk.bytes + e.width
        BY <2>3
      <3>2. disk.bytes \in Nat /\ e.width \in Nat
        BY <1>1, <2>2 DEF TypeOK, Writable, Items
      <3> QED
        BY <2>3, <3>1, <3>2, PutReveals
    <2>5. Narrow' /\ \A o \in DOMAIN disk'.at : disk'.at[o] \in Items
      <3>1. ASSUME NEW o \in DOMAIN disk'.at
            PROVE  /\ disk'.at[o] \in Items
                   /\ disk'.at[o].width = 2 /\ ~disk'.at[o].text =>
                         disk'.at[o].value <= MaxStringLength
        <4>1. CASE o = disk.bytes
          BY <2>2, <2>4, <4>1 DEF Reveals, Writable
        <4>2. CASE o # disk.bytes
          <5>1. o \in DOMAIN disk.at /\ disk'.at[o] = disk.at[o]
            BY <2>4, <3>1, <4>2 DEF Reveals
          <5> QED
            BY <1>1, <5>1 DEF TypeOK, Narrow
        <4> QED
          BY <4>1, <4>2
      <3> QED
        BY <3>1 DEF Narrow
    <2>6. load' \in {"idle", "loaded", "failed"} /\ Sound(inst')
      BY <1>1 DEF TypeOK
    <2>7. CodecInv'
      BY <1>1, <2>4, <2>5, <2>6, BetweenCalls
    <2> QED
      BY <1>1, <2>2, <2>3, <2>7 DEF DataInv, Stored, Saving
  <1>3. CASE WriteFails
    <2>1. PICK n \in 0..(Head(output).width - 1) : disk' = [disk EXCEPT !.bytes = @ + n]
      BY <1>3 DEF WriteFails
    <2>2. n \in Nat
      BY <2>1
    <2>3. good' = FALSE /\ UNCHANGED <<output, save, saves, written>>
      BY <1>3 DEF WriteFails
    <2>4. CodecInv'
      BY <1>1, <2>1, <2>2, LongerFile
    <2> QED
      BY <1>1, <2>3, <2>4 DEF DataInv, Stored, Saving
  <1>4. CASE WriteDropped
    <2>1. output' = Tail(output) /\ UNCHANGED <<good, save, saves, written>> /\ UNCHANGED vars
      BY <1>4 DEF WriteDropped
    <2>2. output # NoWrites
      BY <1>4 DEF WriteDropped, WritingEnds
    <2>3. CodecInv'
      BY <1>1, <2>1, NextCodec
    <2>4. output' \in Seq(Writable)
      BY <1>1, <2>1, <2>2, NothingStopsSave
    <2> QED
      BY <1>1, <2>1, <2>3, <2>4 DEF DataInv, Stored, Saving
  <1>5. CASE CloseFile
    <2>1. /\ save' \in {"saved", "failed"} /\ output' = NoWrites
          /\ written' \in {written, Written("complete", inst)}
          /\ UNCHANGED vars /\ UNCHANGED <<good, saves>>
      BY <1>5 DEF CloseFile
    <2>2. CodecInv'
      BY <1>1, <2>1, NextCodec
    <2>3. written'.how \in {"foreign", "torn", "complete"} /\ Sound(written'.data)
      BY <1>1, <2>1 DEF Written, Saving
    <2> QED
      BY <1>1, <2>1, <2>2, <2>3 DEF DataInv, Stored, Saving, NoWrites
  <1> QED
    BY <1>2, <1>3, <1>4, <1>5 DEF SaveStep

\* ... or dies.
LEMMA CrashKeepsData ==
    ASSUME DataInv, Crash
    PROVE  DataInv'
  <1>1. /\ save = "saving" /\ Saving /\ Stored /\ TypeOK /\ Sound(inst)
        /\ UNCHANGED <<reader, agenda, parsed, loads>>
        /\ inst' = EmptyData /\ load' = "idle" /\ save' = "idle" /\ output' = NoWrites
        /\ good' = TRUE /\ saves' = saves
        /\ written' \in {written, Written("complete", inst)}
    BY DEF Crash, DataInv, Stored, CodecInv, VectorInv
  <1>2. \E n \in Nat : disk' = [disk EXCEPT !.bytes = @ + n]
    <2>1. CASE good /\ ~WritingEnds
      <3>1. PICK n \in 0..(Head(output).width - 1) : disk' = [disk EXCEPT !.bytes = @ + n]
        BY <2>1 DEF Crash
      <3> QED
        BY <3>1
    <2>2. CASE ~(good /\ ~WritingEnds)
      <3>1. disk' = disk
        BY <2>2 DEF Crash
      <3>2. disk = [disk EXCEPT !.bytes = @ + 0]
        BY <1>1 DEF TypeOK
      <3> QED
        BY <3>1, <3>2
    <2> QED
      BY <2>1, <2>2
  <1>3. CodecInv'
    BY <1>1, <1>2, NothingIsSound, LongerFile
  <1>4. written'.how \in {"foreign", "torn", "complete"} /\ Sound(written'.data)
    BY <1>1 DEF Written, Saving
  <1> QED
    BY <1>1, <1>3, <1>4, NothingIsSound DEF DataInv, Stored, Saving, NoWrites

\* The invariant holds at first,
LEMMA InitData == DataInit => DataInv
  <1> SUFFICES ASSUME DataInit PROVE DataInv
    OBVIOUS
  <1>1. CodecInv
    BY InitCodec DEF DataInit
  <1>2. Stored
    BY NothingIsSound, NothingIsShort DEF DataInit, Init, NoCall, Stored
  <1>3. Saving
    BY NothingIsSound, NewStringsAssumption DEF DataInit, Saving, NoWrites, Foreign, Written
  <1> QED
    BY <1>1, <1>2, <1>3 DEF DataInv

\* ... and every step keeps it.
LEMMA NextData == DataInv /\ [DataNext]_dataVars => DataInv'
  <1> SUFFICES ASSUME DataInv, [DataNext]_dataVars PROVE DataInv'
    OBVIOUS
  <1>1. CASE UNCHANGED dataVars
    <2>1. UNCHANGED vars /\ UNCHANGED saveVars
      BY <1>1 DEF dataVars, saveVars
    <2>2. CodecInv'
      BY <2>1, NextCodec DEF DataInv
    <2> QED
      BY <2>1, <2>2 DEF DataInv, Stored, Saving, vars, saveVars
  <1>2. CASE DataNext
    BY <1>2, LoadKeepsData, ModifyKeepsData, OpenKeepsData, SaveKeepsData,
       CrashKeepsData DEF DataNext
  <1> QED
    BY <1>1, <1>2

-----------------------------------------------------------------------------
(* The theorems *)

\* Whatever calls of Load, ModifyStringTable, Save and Close follow one
\* another, and wherever a Save fails or dies, the invariant holds.
THEOREM DataStaysSound == DataSpec => []DataInv
  <1>1. DataInit => DataInv
    BY InitData
  <1>2. DataInv /\ [DataNext]_dataVars => DataInv'
    BY NextData
  <1> QED
    BY <1>1, <1>2, PTL DEF DataSpec

\* Every variable of an instance and its file has a value of its type,
\* whatever is called and whatever fails.
THEOREM DataTypeCorrect == DataSpec => []DataTypeOK
  <1>1. DataInv => DataTypeOK
    <2> SUFFICES ASSUME DataInv PROVE DataTypeOK
      OBVIOUS
    <2>1. TypeOK
      BY DEF DataInv, CodecInv, VectorInv
    <2>2. output \in Seq(Items)
      BY DEF DataInv, Saving, Writable
    <2> QED
      BY <2>1, <2>2 DEF DataTypeOK, DataInv, Saving, Sound
  <1> QED
    BY <1>1, DataStaysSound, PTL

\* For every file, every limit and every string that replaces one: Save, once
\* it has truncated the file, is never stopped by a string too long to write.
\* Load lets none into the instance because a length is read from two bytes,
\* ModifyStringTable because it refuses it; and no count is too large for the
\* two bytes it is written in.
THEOREM NothingCutsSaveShort == DataSpec => SaveIsNeverCutShort
  <1>1. DataInv /\ [DataNext]_dataVars => (save = "saving" => save' # "failed")
    <2> SUFFICES ASSUME DataInv, [DataNext]_dataVars, save = "saving"
                 PROVE  save' # "failed"
      OBVIOUS
    <2>1. CASE CloseFile
      <3>1. output = NoWrites
        BY <2>1, NothingStopsSave DEF CloseFile, DataInv
      <3> QED
        BY <2>1, <3>1 DEF CloseFile
    <2>2. CASE ~CloseFile
      BY <2>2 DEF DataNext, dataVars, PlaceFileHere, CallLoad, ContinueLoad, saveVars,
                  ModifyStringTable, OpenForSave, CannotOpenForSave, SaveStep, Write,
                  WriteFails, WriteDropped, Close, Crash, Idle
    <2> QED
      BY <2>1, <2>2
  <1>2. [DataInv /\ DataInv' /\ [DataNext]_dataVars]_dataVars
           => [save = "saving" => save' # "failed"]_dataVars
    BY <1>1
  <1> QED
    BY <1>1, DataStaysSound, PTL DEF DataSpec, SaveIsNeverCutShort

\* In whatever order an instance is used, each of its counts is the size of
\* the vector beside it, which is what the accessors of the C ABI rely on.
THEOREM CountsMatchWhateverIsCalled == DataSpec => []CountsMatchVectors
  <1>1. DataInv => CountsMatchVectors
    BY DEF DataInv, CodecInv, VectorInv
  <1> QED
    BY <1>1, DataStaysSound, PTL

-----------------------------------------------------------------------------
(* The data that were saved fit what a Load of their file has parsed so     *)
(* far, step by step.                                                      *)

\* What the read at hand would find if the file were written for d.
First(d) ==
    IF head.kind = "string" THEN Size(d, head.path, head.field)
    ELSE Value(d, head.path, head.field)

\* A goal of the new agenda was on the old one or is new.
LEMMA NewOrOld ==
    ASSUME TypeOK, agenda # << >>, NEW more \in Seq(Goals),
           agenda' = Then(more, Tail(agenda)), NEW i \in DOMAIN agenda'
    PROVE  \/ \E j \in DOMAIN more : more[j] = agenda'[i]
           \/ \E j \in DOMAIN agenda : agenda[j] = agenda'[i]
  <1> DEFINE t == Tail(agenda)
  <1>1. t \in Seq(Goals) /\ agenda' = Then(more, t)
    BY HeadTyped
  <1>2. \A j \in DOMAIN t : \E k \in DOMAIN agenda : agenda[k] = t[j]
    <2> SUFFICES ASSUME NEW j \in DOMAIN t
                 PROVE  \E k \in DOMAIN agenda : agenda[k] = t[j]
      OBVIOUS
    <2>1. j + 1 \in DOMAIN agenda /\ agenda[j + 1] = t[j]
      BY <1>1 DEF TypeOK
    <2> QED
      BY <2>1
  <1> HIDE DEF t
  <1>3. \/ i \in DOMAIN more /\ Then(more, t)[i] = more[i]
        \/ i - Len(more) \in DOMAIN t /\ Then(more, t)[i] = t[i - Len(more)]
    BY <1>1, ThenPart
  <1>4. CASE i \in DOMAIN more /\ Then(more, t)[i] = more[i]
    BY <1>1, <1>4
  <1>5. CASE i - Len(more) \in DOMAIN t /\ Then(more, t)[i] = t[i - Len(more)]
    BY <1>1, <1>2, <1>5
  <1> QED
    BY <1>3, <1>4, <1>5

\* The call goals among the agenda go on fitting.
LEMMA CallsFit ==
    ASSUME TypeOK, agenda # << >>, NEW more \in Seq(Goals),
           agenda' = Then(more, Tail(agenda)), NEW d, Fit(d, parsed, agenda),
           \A j \in DOMAIN more : more[j].kind = "callArguments" =>
              more[j].n <= Size(d, more[j].path, "arguments")
    PROVE  \A i \in DOMAIN agenda' : agenda'[i].kind = "callArguments" =>
              agenda'[i].n <= Size(d, agenda'[i].path, "arguments")
  <1> SUFFICES ASSUME NEW i \in DOMAIN agenda', agenda'[i].kind = "callArguments"
               PROVE  agenda'[i].n <= Size(d, agenda'[i].path, "arguments")
    OBVIOUS
  <1>1. CASE \E j \in DOMAIN more : more[j] = agenda'[i]
    <2>1. PICK j \in DOMAIN more : more[j] = agenda'[i]
      BY <1>1
    <2>2. more[j].kind = "callArguments"
      BY <2>1
    <2>3. more[j].n <= Size(d, more[j].path, "arguments")
      BY <2>2
    <2> QED
      BY <2>1, <2>3
  <1>2. CASE \E j \in DOMAIN agenda : agenda[j] = agenda'[i]
    <2>1. PICK j \in DOMAIN agenda : agenda[j] = agenda'[i]
      BY <1>2
    <2>2. agenda[j].kind = "callArguments"
      BY <2>1
    <2>3. agenda[j].n <= Size(d, agenda[j].path, "arguments")
      BY <2>2 DEF Fit, Argued
    <2> QED
      BY <2>1, <2>3
  <1> QED
    BY <1>1, <1>2, NewOrOld

\* A count is read for a record that has one.
LEMMA CountHasCount ==
    ASSUME TypeOK, ObjectsComeLast, agenda # << >>, head.kind = "count"
    PROVE  HasCount(head.path, head.field)
  <1>1. CASE head.field # "objectCount"
    BY <1>1, HeadInner DEF Inner
  <1>2. CASE head.field = "objectCount"
    <2>1. Len(agenda) \in Nat /\ Len(agenda) >= 1 /\ head = agenda[1]
      BY HeadIs
    <2>2. CASE Len(agenda) = 1
      BY <1>2, <2>1, <2>2 DEF ObjectsComeLast, LastGoal, HasCount
    <2>3. CASE Len(agenda) # 1
      <3>1. 1 \in 1..(Len(agenda) - 1)
        <4> DEFINE n == Len(agenda)
        <4>1. n \in Nat /\ n >= 1 /\ n # 1
          BY <2>1, <2>3
        <4> HIDE DEF n
        <4>2. 1 \in 1..(n - 1)
          BY <4>1
        <4> QED
          BY <4>2 DEF n
      <3> QED
        BY <1>2, <2>1, <3>1 DEF ObjectsComeLast, Inner
    <2> QED
      BY <2>2, <2>3
  <1> QED
    BY <1>1, <1>2

\* A plain step that finds what d has keeps d possible,
LEMMA PlainFits ==
    ASSUME TypeOK, FreshInv, ObjectsComeLast, NEW v, NEW more, Plain(v, more),
           NEW d, Good(d), Fit(d, parsed, agenda),
           head.kind \in Readings => v = First(d)
    PROVE  Fit(d, parsed', agenda')
  <1>1. /\ agenda # << >> /\ more \in Seq(Goals) /\ agenda' = Then(more, Tail(agenda))
        /\ \A i \in DOMAIN more : more[i].kind \notin {"callArguments", "push"}
        /\ Grows(Filled, Sized)
        /\ \A k \in Filled : parsed'.val[k] = v
        /\ \A k \in Sized : k[2] # "objects" => parsed'.len[k] = v
    BY DEF Plain, Straight
  <1>2. \A q, f : <<q, f>> \in Sized => f # "arguments"
    BY PlainKinds
  <1>3. /\ \A q : InLocals(agenda', q) <=> InLocals(agenda, q)
        /\ \A q : Pushes(agenda', q) = Pushes(agenda, q)
    BY PlainLocals
  <1>4. ASSUME NEW q, NEW f, <<q, f>> \in DOMAIN parsed'.val
        PROVE  Value(d, q, f) = parsed'.val[<<q, f>>]
    <2>1. CASE <<q, f>> \in Filled
      <3>1. /\ head.kind \in Readings \ {"string"}
            /\ q = head.path /\ f = head.field
        BY <2>1 DEF Filled
      <3>2. v = Value(d, q, f)
        BY <3>1 DEF First
      <3> QED
        BY <1>1, <2>1, <3>2
    <2>2. CASE <<q, f>> \notin Filled
      <3>1. /\ <<q, f>> \in DOMAIN parsed.val
            /\ parsed'.val[<<q, f>>] = parsed.val[<<q, f>>]
        BY <1>1, <1>4, <2>2 DEF Grows, Extends
      <3> QED
        BY <3>1 DEF Fit, Known
    <2> QED
      BY <2>1, <2>2
  <1>5. ASSUME NEW q, NEW f, <<q, f>> \in Sized, f # "objects"
        PROVE  Size(d, q, f) = v
    <2>1. CASE head.kind = "string"
      <3>1. q = head.path /\ f = head.field /\ head.kind \in Readings
        BY <1>5, <2>1 DEF Sized, Readings, Width
      <3> QED
        BY <2>1, <3>1 DEF First
    <2>2. CASE head.kind = "count"
      <3>1. q = head.path /\ f = Vector[head.field].name /\ head.kind \in Readings
        BY <1>5, <2>2 DEF Sized, Readings, Width
      <3>2. head.field \in DOMAIN Vector
        BY <1>1, <2>2, HeadReads DEF Width
      <3>3. HasCount(head.path, head.field)
        BY <1>1, <2>2, CountHasCount
      <3>4. Value(d, q, head.field) = Size(d, q, f)
        BY <3>1, <3>2, <3>3 DEF Good, Even
      <3> QED
        BY <2>2, <3>1, <3>4 DEF First
    <2> QED
      BY <1>5, <2>1, <2>2 DEF Sized
  <1>6. ASSUME NEW q, NEW f, <<q, f>> \in DOMAIN parsed'.len, f \notin {"arguments", "objects"}
        PROVE  Size(d, q, f) = parsed'.len[<<q, f>>]
    <2>1. CASE <<q, f>> \in Sized
      <3>1. parsed'.len[<<q, f>>] = v
        <4>1. <<q, f>>[2] # "objects"
          BY <1>6
        <4> QED
          BY <1>1, <2>1, <4>1
      <3> QED
        BY <1>5, <1>6, <2>1, <3>1
    <2>2. CASE <<q, f>> \notin Sized
      <3>1. /\ <<q, f>> \in DOMAIN parsed.len
            /\ parsed'.len[<<q, f>>] = parsed.len[<<q, f>>]
        BY <1>1, <1>6, <2>2 DEF Grows, Extends
      <3> QED
        BY <1>6, <3>1 DEF Fit, Known
    <2> QED
      BY <2>1, <2>2
  <1>7. ASSUME NEW q \in Path, <<q, "arguments">> \in DOMAIN parsed'.len,
               ~InLocals(agenda', q)
        PROVE  Size(d, q, "arguments")
                  = parsed'.len[<<q, "arguments">>] + Pushes(agenda', q)
    <2>1. /\ <<q, "arguments">> \in DOMAIN parsed.len
          /\ parsed'.len[<<q, "arguments">>] = parsed.len[<<q, "arguments">>]
      BY <1>1, <1>2, <1>7 DEF Grows, Extends
    <2> QED
      BY <1>3, <1>7, <2>1 DEF Fit, Argued
  <1>8. \A i \in DOMAIN agenda' : agenda'[i].kind = "callArguments" =>
              agenda'[i].n <= Size(d, agenda'[i].path, "arguments")
    <2>1. \A j \in DOMAIN more : more[j].kind = "callArguments" =>
              more[j].n <= Size(d, more[j].path, "arguments")
      BY <1>1
    <2> QED
      BY <1>1, <2>1, CallsFit
  <1>9. Known(d, parsed')
    BY <1>4, <1>6 DEF Known
  <1>10. Argued(d, parsed', agenda')
    BY <1>7, <1>8 DEF Argued
  <1> QED
    BY <1>9, <1>10 DEF Fit

\* ... and so does an opcode,
LEMMA OpensFits ==
    ASSUME TypeOK, FreshInv, NEW v, NEW more, Opens(v, more),
           NEW d, Good(d), Shaped(d), Fit(d, parsed, agenda), v = First(d)
    PROVE  Fit(d, parsed', agenda')
  <1> DEFINE n == HeaderArgumentCount(v)
             opkey == <<head.path, "op">>
             key == <<head.path, "arguments">>
  <1>1. /\ agenda # << >> /\ head.kind = "opcode" /\ head.field = "op"
        /\ head.path \in Path
        /\ more \in Seq(Goals) /\ agenda' = Then(more, Tail(agenda))
        /\ Grows({opkey}, {key})
        /\ parsed'.val[opkey] = v
        /\ parsed'.len[key] = IF v \in Calls THEN 0 ELSE n
    BY DEF Opens
  <1>2. /\ \A i \in DOMAIN more :
              \/ i \in 1..n /\ more[i] = ReadArgument(head.path, i)
              \/ /\ v \in Calls /\ i = n + 1
                 /\ more[i] = Goal("callArguments", head.path, "op", n)
        /\ \A q : Pushes(agenda', q) = Pushes(agenda, q)
        /\ Pushes(agenda, head.path) = 0
        /\ \A q : InLocals(agenda', q) <=>
                        (q = head.path /\ v \in Calls) \/ InLocals(agenda, q)
    BY OpensLocals
  <1>3. v = Value(d, head.path, "op") /\ n \in Nat
    BY <1>1, HeaderTyped DEF First
  <1>4. Instructed(d, head.path, Size(d, head.path, "arguments"))
    BY <1>1 DEF Shaped
  <1>5. /\ v \notin Calls => Size(d, head.path, "arguments") = n
        /\ v \in Calls => n <= Size(d, head.path, "arguments")
    <2>1. CASE v \notin Calls
      BY <1>3, <1>4, <2>1 DEF Instructed
    <2>2. CASE v \in Calls
      <3> DEFINE last == Child(head.path, "arguments", n)
                 m == Signed(Value(d, last, "int32"))
      <3>1. m \in Nat /\ Size(d, head.path, "arguments") = n + m
        BY <1>3, <1>4, <2>2 DEF Instructed
      <3> HIDE DEF m, n
      <3> QED
        BY <1>3, <2>2, <3>1
    <2> QED
      BY <2>1, <2>2
  <1>6. Known(d, parsed')
    <2>1. ASSUME NEW q, NEW f, <<q, f>> \in DOMAIN parsed'.val
          PROVE  Value(d, q, f) = parsed'.val[<<q, f>>]
      <3>1. CASE <<q, f>> = opkey
        <4>1. q = head.path /\ f = "op"
          BY <3>1
        <4> QED
          BY <1>1, <1>3, <4>1
      <3>2. CASE <<q, f>> # opkey
        BY <1>1, <2>1, <3>2 DEF Grows, Extends, Fit, Known
      <3> QED
        BY <3>1, <3>2
    <2>2. ASSUME NEW q, NEW f, <<q, f>> \in DOMAIN parsed'.len,
                 f \notin {"arguments", "objects"}
          PROVE  Size(d, q, f) = parsed'.len[<<q, f>>]
      <3>1. <<q, f>> # key
        BY <2>2
      <3> QED
        BY <1>1, <2>2, <3>1 DEF Grows, Extends, Fit, Known
    <2> QED
      BY <2>1, <2>2 DEF Known
  <1>7. ASSUME NEW q \in Path, <<q, "arguments">> \in DOMAIN parsed'.len,
               ~InLocals(agenda', q)
        PROVE  Size(d, q, "arguments")
                  = parsed'.len[<<q, "arguments">>] + Pushes(agenda', q)
    <2>1. CASE q = head.path
      <3>1. v \notin Calls /\ Pushes(agenda', q) = 0
        BY <1>2, <1>7, <2>1
      <3>2. parsed'.len[<<q, "arguments">>] = n /\ Size(d, q, "arguments") = n
        BY <1>1, <1>5, <2>1, <3>1
      <3> HIDE DEF n, key
      <3> QED
        BY <1>3, <3>1, <3>2
    <2>2. CASE q # head.path
      <3>1. <<q, "arguments">> # key
        BY <2>2
      <3>2. /\ <<q, "arguments">> \in DOMAIN parsed.len
            /\ parsed'.len[<<q, "arguments">>] = parsed.len[<<q, "arguments">>]
        BY <1>1, <1>7, <3>1 DEF Grows, Extends
      <3> QED
        BY <1>2, <1>7, <3>2 DEF Fit, Argued
    <2> QED
      BY <2>1, <2>2
  <1>8. \A j \in DOMAIN more : more[j].kind = "callArguments" =>
              more[j].n <= Size(d, more[j].path, "arguments")
    <2> SUFFICES ASSUME NEW j \in DOMAIN more, more[j].kind = "callArguments"
                 PROVE  more[j].n <= Size(d, more[j].path, "arguments")
      OBVIOUS
    <2>1. v \in Calls /\ more[j] = Goal("callArguments", head.path, "op", n)
      <3>1. \A i \in 1..n : ReadArgument(head.path, i).kind = "type"
        BY DEF ReadArgument, Goal
      <3> HIDE DEF n
      <3> QED
        BY <1>2, <3>1
    <2>2. more[j].n = n /\ more[j].path = head.path
      BY <2>1 DEF Goal
    <2> QED
      BY <1>5, <2>1, <2>2
  <1>9. \A i \in DOMAIN agenda' : agenda'[i].kind = "callArguments" =>
              agenda'[i].n <= Size(d, agenda'[i].path, "arguments")
    BY <1>1, <1>8, CallsFit
  <1>10. Argued(d, parsed', agenda')
    BY <1>7, <1>9 DEF Argued
  <1> QED
    BY <1>6, <1>10 DEF Fit

\* ... the arguments that follow it,
LEMMA FurthersFits ==
    ASSUME TypeOK, FreshInv, ShapeInv, NEW count, NEW more, Furthers(count, more),
           NEW d, Good(d), Shaped(d), Fit(d, parsed, agenda)
    PROVE  Fit(d, parsed', agenda')
  <1> DEFINE key == <<head.path, "arguments">>
             op == Value(parsed, head.path, "op")
  <1>1. /\ agenda # << >> /\ head.kind = "callArguments"
        /\ head \in Goals /\ head.path \in Path /\ head.n \in Nat /\ count \in Nat
        /\ count = Signed(Value(parsed, CallArgument, "int32"))
        /\ more \in Seq(Goals) /\ agenda' = Then(more, Tail(agenda))
        /\ Grows({}, {key}) /\ parsed'.len[key] = head.n
    BY DEF Furthers
  <1>2. /\ \A i \in DOMAIN more : more[i].kind \in {"type", "push"}
        /\ \A q : InLocals(agenda, q) <=> q = head.path \/ InLocals(agenda', q)
        /\ ~InLocals(agenda', head.path)
        /\ Pushes(agenda', head.path) = count
        /\ \A q : q # head.path => Pushes(agenda', q) = Pushes(agenda, q)
    BY FurthersLocals
  <1>3. /\ op \in Calls /\ head.n = HeaderArgumentCount(op)
        /\ <<CallArgument, "int32">> \in DOMAIN parsed.val
    BY CallWaited
  <1>4. Size(d, head.path, "arguments") = head.n + count
    <2>1. Value(d, head.path, "op") = op
      <3>1. op # 0
        BY <1>3, CallsAre
      <3>2. <<head.path, "op">> \in DOMAIN parsed.val
        BY <3>1 DEF Value
      <3> QED
        BY <3>2 DEF Fit, Known, Value
    <2>2. Value(d, CallArgument, "int32") = Value(parsed, CallArgument, "int32")
      BY <1>3 DEF Fit, Known, Value
    <2>3. Instructed(d, head.path, Size(d, head.path, "arguments"))
      BY <1>1 DEF Shaped
    <2>4. Child(head.path, "arguments", HeaderArgumentCount(op)) = CallArgument
      BY <1>3 DEF CallArgument
    <2> HIDE DEF op
    <2>5. Size(d, head.path, "arguments")
            = HeaderArgumentCount(op) + Signed(Value(d, CallArgument, "int32"))
      BY <1>3, <2>1, <2>3, <2>4 DEF Instructed
    <2> QED
      BY <1>1, <1>3, <2>2, <2>5
  <1>5. Known(d, parsed')
    <2>1. ASSUME NEW q, NEW f, <<q, f>> \in DOMAIN parsed'.val
          PROVE  Value(d, q, f) = parsed'.val[<<q, f>>]
      BY <1>1, <2>1 DEF Grows, Extends, Fit, Known
    <2>2. ASSUME NEW q, NEW f, <<q, f>> \in DOMAIN parsed'.len,
                 f \notin {"arguments", "objects"}
          PROVE  Size(d, q, f) = parsed'.len[<<q, f>>]
      <3>1. <<q, f>> # key
        BY <2>2
      <3> QED
        BY <1>1, <2>2, <3>1 DEF Grows, Extends, Fit, Known
    <2> QED
      BY <2>1, <2>2 DEF Known
  <1>6. ASSUME NEW q \in Path, <<q, "arguments">> \in DOMAIN parsed'.len,
               ~InLocals(agenda', q)
        PROVE  Size(d, q, "arguments")
                  = parsed'.len[<<q, "arguments">>] + Pushes(agenda', q)
    <2>1. CASE q = head.path
      BY <1>1, <1>2, <1>4, <2>1
    <2>2. CASE q # head.path
      <3>1. <<q, "arguments">> # key
        BY <2>2
      <3>2. /\ <<q, "arguments">> \in DOMAIN parsed.len
            /\ parsed'.len[<<q, "arguments">>] = parsed.len[<<q, "arguments">>]
        BY <1>1, <1>6, <3>1 DEF Grows, Extends
      <3>3. ~InLocals(agenda, q) /\ Pushes(agenda', q) = Pushes(agenda, q)
        BY <1>2, <1>6, <2>2
      <3> QED
        BY <3>2, <3>3 DEF Fit, Argued
    <2> QED
      BY <2>1, <2>2
  <1>7. \A i \in DOMAIN agenda' : agenda'[i].kind = "callArguments" =>
              agenda'[i].n <= Size(d, agenda'[i].path, "arguments")
    <2>1. \A j \in DOMAIN more : more[j].kind = "callArguments" =>
              more[j].n <= Size(d, more[j].path, "arguments")
      BY <1>2
    <2> QED
      BY <1>1, <2>1, CallsFit
  <1>8. Argued(d, parsed', agenda')
    BY <1>6, <1>7 DEF Argued
  <1> QED
    BY <1>5, <1>8 DEF Fit

\* ... and each of them, pushed.
LEMMA PushingFits ==
    ASSUME TypeOK, Pushing, NEW d, Fit(d, parsed, agenda)
    PROVE  Fit(d, parsed', agenda')
  <1> DEFINE key == <<head.path, "arguments">>
  <1>1. /\ agenda # << >> /\ head.kind = "push"
        /\ << >> \in Seq(Goals) /\ agenda' = Then(<< >>, Tail(agenda))
        /\ key \in DOMAIN parsed.len /\ Grows({}, {key})
        /\ parsed.len[key] \in Nat /\ parsed'.len[key] = parsed.len[key] + 1
        /\ \A q : InLocals(agenda', q) <=> InLocals(agenda, q)
        /\ \A q : Pushes(agenda', q) \in Nat
        /\ Pushes(agenda, head.path) = 1 + Pushes(agenda', head.path)
        /\ \A q : q # head.path => Pushes(agenda, q) = Pushes(agenda', q)
    BY DEF Pushing
  <1>2. Known(d, parsed')
    <2>1. ASSUME NEW q, NEW f, <<q, f>> \in DOMAIN parsed'.val
          PROVE  Value(d, q, f) = parsed'.val[<<q, f>>]
      BY <1>1, <2>1 DEF Grows, Extends, Fit, Known
    <2>2. ASSUME NEW q, NEW f, <<q, f>> \in DOMAIN parsed'.len,
                 f \notin {"arguments", "objects"}
          PROVE  Size(d, q, f) = parsed'.len[<<q, f>>]
      <3>1. <<q, f>> # key
        BY <2>2
      <3> QED
        BY <1>1, <2>2, <3>1 DEF Grows, Extends, Fit, Known
    <2> QED
      BY <2>1, <2>2 DEF Known
  <1>3. ASSUME NEW q \in Path, <<q, "arguments">> \in DOMAIN parsed'.len,
               ~InLocals(agenda', q)
        PROVE  Size(d, q, "arguments")
                  = parsed'.len[<<q, "arguments">>] + Pushes(agenda', q)
    <2>1. <<q, "arguments">> \in DOMAIN parsed.len /\ ~InLocals(agenda, q)
      BY <1>1, <1>3 DEF Grows, Extends
    <2>2. Size(d, q, "arguments") = parsed.len[<<q, "arguments">>] + Pushes(agenda, q)
      BY <2>1 DEF Fit, Argued
    <2>3. CASE q = head.path
      <3>1. /\ parsed.len[<<q, "arguments">>] \in Nat /\ Pushes(agenda', q) \in Nat
            /\ Pushes(agenda, q) = 1 + Pushes(agenda', q)
            /\ parsed'.len[<<q, "arguments">>] = parsed.len[<<q, "arguments">>] + 1
        BY <1>1, <2>3
      <3> QED
        BY <2>2, <3>1
    <2>4. CASE q # head.path
      <3>1. <<q, "arguments">> # key
        BY <2>4
      <3>2. parsed'.len[<<q, "arguments">>] = parsed.len[<<q, "arguments">>]
        BY <1>1, <2>1, <3>1 DEF Grows, Extends
      <3> QED
        BY <1>1, <2>2, <2>4, <3>2
    <2> QED
      BY <2>3, <2>4
  <1>4. \A i \in DOMAIN agenda' : agenda'[i].kind = "callArguments" =>
              agenda'[i].n <= Size(d, agenda'[i].path, "arguments")
    <2>1. \A j \in DOMAIN << >> : << >>[j].kind = "callArguments" =>
              << >>[j].n <= Size(d, << >>[j].path, "arguments")
      OBVIOUS
    <2> QED
      BY <1>1, <2>1, CallsFit
  <1>5. Argued(d, parsed', agenda')
    BY <1>3, <1>4 DEF Argued
  <1> QED
    BY <1>2, <1>5 DEF Fit

\* Data that fit what was parsed, and whose next value is the only one the
\* file shows, fit what is parsed next.
LEMMA ReadStepFits ==
    ASSUME TypeOK, FreshInv, ObjectsComeLast, ShapeInv, ReadStep,
           NEW d, Good(d), Shaped(d), Fit(d, parsed, agenda),
           head.kind \in Readings => Seen(HeadWidth) = {First(d)}
    PROVE  Fit(d, parsed', agenda')
  <1>1. \A v : head.kind \in Readings /\ Takes(v) => v = First(d)
    BY DEF Takes, Consume
  <1>2. CASE \E v, more : Plain(v, more)
    <2>1. PICK v, more : Plain(v, more)
      BY <1>2
    <2>2. head.kind \in Readings => v = First(d)
      BY <1>1, <2>1 DEF Plain
    <2> QED
      BY <2>1, <2>2, PlainFits
  <1>3. CASE ReadOpcode
    <2>1. PICK v, more : Opens(v, more)
      BY <1>3, ReadOpcodeOpens
    <2>2. head.kind \in Readings /\ Takes(v)
      BY <2>1 DEF Opens, Readings, Width
    <2> QED
      BY <1>1, <2>1, <2>2, OpensFits
  <1>4. CASE ReadCallArguments
    BY <1>4, ReadCallArgumentsFurthers, FurthersFits
  <1>5. CASE PushArgument
    BY <1>5, PushArgumentPushes, PushingFits
  <1> QED
    BY <1>2, <1>3, <1>4, <1>5, PlainStep

\* What is written for the read at hand begins with the value it would find.
LEMMA EmitFirst ==
    ASSUME TypeOK, FreshInv, agenda # << >>, head.kind \in Readings,
           NEW d, IsData(d),
           head.kind = "string" => Size(d, head.path, head.field) <= MaxStringLength
    PROVE  \E rest \in Seq(Items) :
              /\ Item(HeadWidth, First(d)) \in Items
              /\ Item(HeadWidth, First(d)).width = HeadWidth
              /\ Emit(head, d) = Then(<<Item(HeadWidth, First(d))>>, rest)
  <1> DEFINE path == head.path
             v == Value(d, path, head.field)
             e == Item(HeadWidth, First(d))
  <1>1. /\ v \in Nat /\ Size(d, path, head.field) \in Nat
        /\ HeadWidth \in Nat \ {0}
        /\ head.kind \in DOMAIN Width => HeadWidth = Width[head.kind]
        /\ head.kind = "payload" => HeadWidth = head.n
    BY ValueTyped, HeadWidthIs DEF Readings
  <1>2. First(d) \in Nat
    BY <1>1 DEF First
  <1>3. e \in Items /\ e.width = HeadWidth
    BY <1>1, <1>2 DEF Item, Number, Text, Items
  <1>4. << >> \in Seq(Items)
    BY NothingTyped
  <1> SUFFICES \E rest \in Seq(Items) : Emit(head, d) = Then(<<e>>, rest)
    BY <1>3
  <1>5. head.kind # "payload" => e = Number(HeadWidth, First(d))
    BY DEF Item
  <1>6. CASE head.kind \in {"magic", "u8", "u16", "u32", "u64"}
    <2>1. First(d) = v /\ head.kind # "payload" /\ HeadWidth = Width[head.kind]
      BY <1>1, <1>6 DEF First, Width
    <2>2. Emit(head, d) = <<Number(HeadWidth, v)>>
      BY <1>6, <2>1 DEF Emit, Width, WriteUInt8, WriteUInt16BE, WriteUInt32BE, WriteUInt64BE
    <2>3. Emit(head, d) = <<e>> /\ <<e>> \in Seq(Items)
      <3>1. <<e>> \in Seq(Items)
        <4> HIDE DEF e
        <4> QED
          BY <1>3
      <3> QED
        BY <1>5, <2>1, <2>2, <3>1
    <2> HIDE DEF e
    <2> QED
      BY <1>3, <1>4, <2>3, ThenNone
  <1>7. CASE head.kind = "payload"
    <2>1. First(d) = v /\ e = Text(head.n, v)
      BY <1>1, <1>7 DEF First, Item
    <2>2. Emit(head, d) = <<Text(head.n, v)>>
      BY <1>7 DEF Emit
    <2>3. Emit(head, d) = <<e>> /\ <<e>> \in Seq(Items)
      <3>1. <<e>> \in Seq(Items)
        <4> HIDE DEF e
        <4> QED
          BY <1>3
      <3> QED
        BY <2>1, <2>2, <3>1
    <2> HIDE DEF e
    <2> QED
      BY <1>3, <1>4, <2>3, ThenNone
  <1>8. CASE head.kind = "string"
    <2> DEFINE n == Size(d, path, head.field)
               rest == IF n = 0 THEN << >> ELSE <<Text(n, v)>>
    <2>1. First(d) = n /\ HeadWidth = 2 /\ e = Number(2, n)
      BY <1>1, <1>5, <1>8 DEF First, Width
    <2>2. ~(n > MaxStringLength)
      BY <1>1, <1>8, StringLengthAssumption
    <2>3. WriteWString(d, path, head.field) = Then(WriteUInt16BE(n), rest)
      BY <2>2, Zenon DEF WriteWString, Then
    <2>4. Emit(head, d) = Then(<<e>>, rest)
      BY <1>8, <2>1, <2>3 DEF Emit, WriteUInt16BE
    <2>5. rest \in Seq(Items)
      BY <1>1, <1>4, NumberTyped
    <2> HIDE DEF rest, e
    <2> QED
      BY <1>3, <2>4, <2>5
  <1>9. CASE head.kind = "count"
    <2>1. First(d) = v /\ HeadWidth = 2 /\ e = Number(2, v)
      BY <1>1, <1>5, <1>9 DEF First, Width
    <2>2. Emit(head, d) = Then(<<e>>, Rest(head.field, d, path, 0))
      BY <1>9, <2>1 DEF Emit, Counting, WriteUInt16BE
    <2>3. Rest(head.field, d, path, 0) \in Seq(Items)
      <3>1. head.field \in DOMAIN Vector
        BY <1>9, HeadReads DEF Width
      <3> QED
        BY <3>1, ElementTyped, RestTyped
    <2> HIDE DEF e
    <2> QED
      BY <1>3, <2>2, <2>3
  <1>10. CASE head.kind = "debugFlag"
    <2> DEFINE rest == IF Value(d, path, "hasDebugInfo") = 0 THEN << >>
                       ELSE Then(WriteUInt64BE(Value(d, path, "modificationTime")),
                                 Counting("functionCount", d, path))
    <2>1. head.field = "hasDebugInfo"
      BY <1>10, HeadTyped DEF Goals, Members, Width
    <2>2. First(d) = v /\ HeadWidth = 1 /\ e = Number(1, v)
      BY <1>1, <1>5, <1>10 DEF First, Width
    <2>3. Emit(head, d) = Then(<<e>>, rest)
      BY <1>10, <2>1, <2>2 DEF Emit, DebugInfoWrites, WriteUInt8
    <2>4. rest \in Seq(Items)
      <3>1. Counting("functionCount", d, path) \in Seq(Items)
        <4>1. "functionCount" \in DOMAIN Vector
          BY DEF Vector
        <4> QED
          BY <4>1, ElementTyped, CountingIs
      <3>2. WriteUInt64BE(Value(d, path, "modificationTime")) \in Seq(Items)
        BY ValueTyped, NumbersTyped
      <3> QED
        BY <1>4, <3>1, <3>2, ThenTyped
    <2> HIDE DEF e, rest
    <2> QED
      BY <1>3, <2>3, <2>4
  <1>11. CASE head.kind = "objectSize"
    <2>1. head.field = "size"
      BY <1>11, HeadTyped DEF Goals, Members, Width
    <2>2. First(d) = v /\ HeadWidth = 4 /\ e = Number(4, v)
      BY <1>1, <1>5, <1>11 DEF First, Width
    <2>3. Emit(head, d) = Then(<<e>>, WriteObjectData(d, path))
      BY <1>11, <2>1, <2>2 DEF Emit, WriteUInt32BE
    <2> HIDE DEF e
    <2> QED
      BY <1>3, <2>3, WriteObjectDataTyped
  <1>12. CASE head.kind = "propertyFlags"
    <2> DEFINE rest == Then(Then(AutoWrites(d, path, v), ReadHandlerWrites(d, path, v)),
                            WriteHandlerWrites(d, path, v))
    <2>1. head.field = "flags"
      BY <1>12, HeadTyped DEF Goals, Members, Width
    <2>2. First(d) = v /\ HeadWidth = 1 /\ e = Number(1, v)
      BY <1>1, <1>5, <1>12 DEF First, Width
    <2>3. Emit(head, d) = Then(<<e>>, rest)
      BY <1>12, <2>1, <2>2 DEF Emit, FlagsWrites, WriteUInt8
    <2>4. rest \in Seq(Items)
      BY OptionalWritesTyped, ThenTyped
    <2> HIDE DEF e, rest
    <2> QED
      BY <1>3, <2>3, <2>4
  <1>13. CASE head.kind = "type"
    <2> DEFINE rest == CASE v \in {1, 2} -> WriteUInt16BE(Value(d, path, "uint16"))
                         [] v = 3 -> WriteUInt32BE(Value(d, path, "int32"))
                         [] v = 4 -> WriteUInt32BE(Value(d, path, "float"))
                         [] v = 5 -> WriteUInt8(Value(d, path, "uint8"))
                         [] OTHER -> << >>
    <2>1. head.field = "type"
      BY <1>13, HeadTyped DEF Goals, Members, Width
    <2>2. First(d) = v /\ HeadWidth = 1 /\ e = Number(1, v)
      BY <1>1, <1>5, <1>13 DEF First, Width
    <2>3. WriteVariableData(d, path) = Then(WriteUInt8(v), rest)
      BY <2>1, WriteVariableDataIs
    <2>4. Emit(head, d) = Then(<<e>>, rest)
      BY <1>13, <2>2, <2>3 DEF Emit, WriteUInt8
    <2>5. rest \in Seq(Items)
      <3>1. /\ WriteUInt16BE(Value(d, path, "uint16")) \in Seq(Items)
            /\ WriteUInt32BE(Value(d, path, "int32")) \in Seq(Items)
            /\ WriteUInt32BE(Value(d, path, "float")) \in Seq(Items)
            /\ WriteUInt8(Value(d, path, "uint8")) \in Seq(Items)
        BY ValueTyped, NumbersTyped
      <3> QED
        BY <1>4, <3>1
    <2> HIDE DEF e, rest
    <2> QED
      BY <1>3, <2>4, <2>5
  <1>14. CASE head.kind = "opcode"
    <2> DEFINE rest == Joined(Arguments(d, path), Size(d, path, "arguments"))
    <2>1. head.field = "op"
      BY <1>14, HeadTyped DEF Goals, Members, Width
    <2>2. First(d) = v /\ HeadWidth = 1 /\ e = Number(1, v)
      BY <1>1, <1>5, <1>14 DEF First, Width
    <2>3. Emit(head, d) = Then(<<e>>, rest)
      BY <1>14, <2>1, <2>2, WriteInstructionIs DEF Emit, WriteUInt8
    <2>4. rest \in Seq(Items)
      BY ValueTyped, WriteInstructionTyped, JoinedTyped
    <2> HIDE DEF e, rest
    <2> QED
      BY <1>3, <2>3, <2>4
  <1>15. head.kind \in {"magic", "u8", "u16", "u32", "u64", "payload", "string",
                        "count", "debugFlag", "objectSize", "propertyFlags", "type",
                        "opcode"}
    BY DEF Readings, Width
  <1> QED
    BY <1>6, <1>7, <1>8, <1>9, <1>10, <1>11, <1>12, <1>13, <1>14, <1>15

-----------------------------------------------------------------------------
(* A file stands as far as it was written.                                 *)

\* w is e between a and b.
Parted(w, a, e, b) == w = Then(a, Then(<<e>>, b))

\* Two sequences with the same elements are one.
LEMMA SameSequence ==
    ASSUME NEW S, NEW s \in Seq(S), NEW t \in Seq(S), Len(s) = Len(t),
           \A i \in 1..Len(s) : s[i] = t[i]
    PROVE  s = t
  OBVIOUS

\* Where the parts of w are found in it.
LEMMA ThreeParts ==
    ASSUME NEW S, NEW a \in Seq(S), NEW h \in S, NEW r \in Seq(S),
           NEW w, Parted(w, a, h, r)
    PROVE  /\ w \in Seq(S) /\ Len(a) \in Nat /\ Len(r) \in Nat
           /\ Len(w) = Len(a) + 1 + Len(r)
           /\ \A i \in 1..Len(a) : w[i] = a[i]
           /\ w[Len(a) + 1] = h
           /\ \A i \in 1..Len(r) : w[Len(a) + 1 + i] = r[i]
  BY DEF Then, Parted

\* The shorter of two beginnings begins the longer one.
LEMMA Cuts ==
    ASSUME NEW S, NEW a \in Seq(S), NEW h \in S, NEW r \in Seq(S),
           NEW p \in Seq(S), NEW e \in S, NEW b \in Seq(S),
           NEW w, Parted(w, a, h, r), Parted(w, p, e, b), Len(p) < Len(a)
    PROVE  \E c \in Seq(S) : Parted(a, p, e, c)
  <1> DEFINE n == Len(a) - Len(p) - 1
             c == [i \in 1..n |-> a[Len(p) + 1 + i]]
             z == Then(p, Then(<<e>>, c))
  <1>1. /\ Len(a) \in Nat /\ \A i \in 1..Len(a) : w[i] = a[i] /\ a[i] \in S
    BY ThreeParts
  <1>2. /\ Len(p) \in Nat /\ \A i \in 1..Len(p) : w[i] = p[i]
        /\ w[Len(p) + 1] = e
    BY ThreeParts
  <1>3. n \in Nat /\ Len(p) + 1 + n = Len(a)
    BY <1>1, <1>2
  <1>4. c \in Seq(S) /\ Len(c) = n /\ \A i \in 1..n : c[i] = a[Len(p) + 1 + i]
    <2>1. \A i \in 1..n : Len(p) + 1 + i \in 1..Len(a)
      BY <1>1, <1>2
    <2> QED
      BY <1>1, <1>3, <2>1
  <1> HIDE DEF c, n
  <1>8. Parted(z, p, e, c)
    BY DEF Parted
  <1> HIDE DEF z
  <1>5. /\ z \in Seq(S) /\ Len(z) = Len(a)
        /\ \A i \in 1..Len(p) : z[i] = p[i]
        /\ z[Len(p) + 1] = e
        /\ \A i \in 1..n : z[Len(p) + 1 + i] = c[i]
    <2>1. c \in Seq(S) /\ Parted(z, p, e, c)
      BY <1>4, <1>8
    <2>2. /\ z \in Seq(S) /\ Len(p) \in Nat /\ Len(c) \in Nat
          /\ Len(z) = Len(p) + 1 + Len(c)
          /\ \A i \in 1..Len(p) : z[i] = p[i]
          /\ z[Len(p) + 1] = e
          /\ \A i \in 1..Len(c) : z[Len(p) + 1 + i] = c[i]
      BY <2>1, ThreeParts
    <2>3. Len(c) = n
      BY <1>4
    <2> QED
      BY <1>3, <2>2, <2>3
  <1>6. ASSUME NEW i \in 1..Len(a) PROVE z[i] = a[i]
    <2>1. CASE i \in 1..Len(p)
      BY <1>1, <1>2, <1>5, <2>1
    <2>2. CASE i = Len(p) + 1
      BY <1>1, <1>2, <1>5, <2>2
    <2>3. CASE i > Len(p) + 1
      <3> DEFINE j == i - (Len(p) + 1)
      <3>1. j \in 1..n /\ Len(p) + 1 + j = i
        BY <1>1, <1>2, <1>3, <2>3
      <3> HIDE DEF j
      <3> QED
        BY <1>4, <1>5, <3>1
    <2> QED
      BY <1>1, <1>2, <2>1, <2>2, <2>3
  <1>7. a = z
    BY <1>5, <1>6, SameSequence
  <1> QED
    BY <1>4, <1>7, <1>8

\* Two cuts at one place cut off the same.
LEMMA SameCut ==
    ASSUME NEW S, NEW a \in Seq(S), NEW h \in S, NEW r \in Seq(S),
           NEW p \in Seq(S), NEW e \in S, NEW b \in Seq(S),
           NEW w, Parted(w, a, h, r), Parted(w, p, e, b), Len(p) = Len(a)
    PROVE  a = p /\ h = e
  <1>1. /\ Len(a) \in Nat /\ w[Len(a) + 1] = h
        /\ \A i \in 1..Len(a) : w[i] = a[i]
    BY ThreeParts
  <1>2. /\ w[Len(p) + 1] = e
        /\ \A i \in 1..Len(p) : w[i] = p[i]
    BY ThreeParts
  <1>3. \A i \in 1..Len(a) : a[i] = p[i]
    BY <1>1, <1>2
  <1> QED
    BY <1>1, <1>2, <1>3, SameSequence

\* The first n bytes of what was written in the order of w are in the file.
Stands(w, n, at) ==
    \A a, b \in Seq(Items), e \in Items :
        Parted(w, a, e, b) /\ Bytes(a) + e.width <= n =>
           Bytes(a) \in DOMAIN at /\ at[Bytes(a)] = e

\* The bytes of w are those of its parts.
LEMMA BytesOfParts ==
    ASSUME NEW a \in Seq(Items), NEW e \in Items, NEW b \in Seq(Items),
           NEW w, Parted(w, a, e, b)
    PROVE  /\ Bytes(a) \in Nat /\ Bytes(b) \in Nat /\ e.width \in Nat
           /\ Bytes(w) = Bytes(a) + e.width + Bytes(b)
  <1>1. <<e>> \in Seq(Items) /\ Bytes(<<e>>) = e.width
    BY BytesOfFew
  <1>2. Then(<<e>>, b) \in Seq(Items)
    BY <1>1, ThenTyped
  <1>3. /\ Bytes(a) \in Nat /\ Bytes(b) \in Nat /\ Bytes(<<e>>) \in Nat
    BY <1>1, BytesIs
  <1>4. /\ Bytes(Then(<<e>>, b)) = Bytes(<<e>>) + Bytes(b)
        /\ Bytes(Then(a, Then(<<e>>, b))) = Bytes(a) + Bytes(Then(<<e>>, b))
    BY <1>1, <1>2, BytesThen
  <1> QED
    BY <1>1, <1>3, <1>4 DEF Parted

\* One write more stands, or a part of one.
LEMMA StandsGrows ==
    ASSUME NEW a \in Seq(Items), NEW h \in Items, NEW r \in Seq(Items), NEW w,
           Parted(w, a, h, r),
           \A i \in DOMAIN w : w[i].width > 0,
           NEW at, Stands(w, Bytes(a), at)
    PROVE  /\ \A n \in Nat : n < h.width => Stands(w, Bytes(a) + n, at)
           /\ Stands(w, Bytes(a) + h.width, Put(at, Bytes(a), h))
  <1> DEFINE new == Put(at, Bytes(a), h)
  <1>1. /\ DOMAIN new = DOMAIN at \cup {Bytes(a)} /\ new[Bytes(a)] = h
        /\ \A o \in DOMAIN at : o # Bytes(a) => new[o] = at[o]
    BY DEF Put
  <1> HIDE DEF new
  <1>2. ASSUME NEW p \in Seq(Items), NEW b \in Seq(Items), NEW e \in Items,
               Parted(w, p, e, b),
               Bytes(p) + e.width <= Bytes(a) + h.width
        PROVE  \/ p = a /\ e = h
               \/ /\ Bytes(p) \in DOMAIN at /\ at[Bytes(p)] = e
                  /\ Bytes(p) # Bytes(a)
    <2>1. /\ Bytes(p) \in Nat /\ e.width \in Nat /\ Bytes(a) \in Nat /\ h.width \in Nat
      <3>1. Bytes(p) \in Nat /\ e.width \in Nat
        BY <1>2, BytesOfParts
      <3>2. Bytes(a) \in Nat /\ h.width \in Nat
        BY BytesOfParts
      <3> QED
        BY <3>1, <3>2
    <2>2. Len(p) \in Nat /\ Len(a) \in Nat /\ Len(p) + 1 \in DOMAIN w /\ w[Len(p) + 1] = e
      <3>1. /\ w \in Seq(Items) /\ Len(p) \in Nat /\ Len(b) \in Nat /\ Len(a) \in Nat
            /\ Len(w) = Len(p) + 1 + Len(b) /\ w[Len(p) + 1] = e
        BY <1>2, ThreeParts
      <3>2. DOMAIN w = 1..Len(w)
        BY <3>1
      <3> QED
        BY <3>1, <3>2
    <2>3. e.width > 0
      BY <2>2
    <2>4. CASE Len(p) < Len(a)
      <3>1. PICK c \in Seq(Items) : Parted(a, p, e, c)
        BY <1>2, <2>4, Cuts
      <3>2. Bytes(a) = Bytes(p) + e.width + Bytes(c) /\ Bytes(c) \in Nat
        BY <3>1, BytesOfParts
      <3>3. Bytes(p) + e.width <= Bytes(a) /\ Bytes(p) # Bytes(a)
        BY <2>1, <2>3, <3>2
      <3> QED
        BY <1>2, <3>3 DEF Stands
    <2>5. CASE Len(p) = Len(a)
      BY <1>2, <2>5, SameCut
    <2>6. CASE Len(p) > Len(a)
      <3>1. PICK c \in Seq(Items) : Parted(p, a, h, c)
        BY <1>2, <2>2, <2>6, Cuts
      <3>2. Bytes(p) = Bytes(a) + h.width + Bytes(c) /\ Bytes(c) \in Nat
        BY <3>1, BytesOfParts
      <3> QED
        BY <1>2, <2>1, <2>3, <3>2
    <2> QED
      BY <2>2, <2>4, <2>5, <2>6
  <1>3. Bytes(a) \in Nat /\ h.width \in Nat
    BY BytesOfParts
  <1>4. ASSUME NEW n \in Nat, n < h.width PROVE Stands(w, Bytes(a) + n, at)
    <2> SUFFICES ASSUME NEW p \in Seq(Items), NEW b \in Seq(Items), NEW e \in Items,
                        Parted(w, p, e, b), Bytes(p) + e.width <= Bytes(a) + n
                 PROVE  Bytes(p) \in DOMAIN at /\ at[Bytes(p)] = e
      BY DEF Stands
    <2>1. Bytes(p) \in Nat /\ e.width \in Nat
      BY BytesOfParts
    <2>2. Bytes(p) + e.width <= Bytes(a) + h.width /\ ~(p = a /\ e = h)
      BY <1>3, <1>4, <2>1
    <2> QED
      BY <1>2, <2>2
  <1>5. Stands(w, Bytes(a) + h.width, new)
    <2> SUFFICES ASSUME NEW p \in Seq(Items), NEW b \in Seq(Items), NEW e \in Items,
                        Parted(w, p, e, b),
                        Bytes(p) + e.width <= Bytes(a) + h.width
                 PROVE  Bytes(p) \in DOMAIN new /\ new[Bytes(p)] = e
      BY DEF Stands
    <2> QED
      BY <1>1, <1>2
  <1> QED
    BY <1>4, <1>5 DEF new

\* Nothing stands in an empty file.
LEMMA StandsNothing ==
    ASSUME NEW w \in Seq(Items), \A i \in DOMAIN w : w[i].width > 0, NEW at
    PROVE  Stands(w, 0, at)
  <1> SUFFICES ASSUME NEW p \in Seq(Items), NEW b \in Seq(Items), NEW e \in Items,
                      Parted(w, p, e, b), Bytes(p) + e.width <= 0
               PROVE  FALSE
    BY DEF Stands
  <1>1. /\ Len(p) \in Nat /\ Len(b) \in Nat
        /\ Len(w) = Len(p) + 1 + Len(b) /\ w[Len(p) + 1] = e
    BY ThreeParts
  <1>2. Len(p) + 1 \in DOMAIN w
    BY <1>1
  <1>3. e.width > 0
    BY <1>1, <1>2
  <1> QED
    BY <1>3, BytesOfParts

\* What stands goes on standing when what is there is read again.
LEMMA StandsSame ==
    ASSUME NEW w, NEW n, NEW at, Stands(w, n, at), NEW new,
           NEW o, NEW e, Reveals(new, at, o, e), o \in DOMAIN at, at[o] = e
    PROVE  Stands(w, n, new)
  BY DEF Stands, Reveals

-----------------------------------------------------------------------------
(* A file that Save made is read back as it was written *)

\* The file has what was written of the data, as far as it was written: all
\* of it, less than all, or what the running Save is done with.
Kept(d) == Stands(Writes(d), disk.bytes, disk.at)

\* The writes the running Save is done with are followed by those to come.
Underway(d) ==
    \E done \in Seq(Items) :
        Writes(d) = Then(done, output) /\ Bytes(done) = disk.bytes

Filed ==
    /\ Shaped(written.data)
    /\ written.how # "foreign" => Kept(written.data)
    /\ written.how = "complete" => disk.bytes = Bytes(Writes(written.data))
    /\ written.how = "torn" /\ (save = "saving" => ~good) =>
          disk.bytes < Bytes(Writes(written.data))
    /\ save = "saving" =>
          /\ written.how = "torn" /\ inst = written.data
          /\ good => Underway(written.data)

\* A Load of such a file has found nothing else, and has still to find what
\* is written for the reads and loops on its agenda.
Retraces(d) ==
    /\ size = disk.bytes /\ Fit(d, parsed, agenda)
    /\ \E done \in Seq(Items) :
          Bytes(done) = position /\ Writes(d) = Then(done, EmitAll(agenda, d))

Retraced ==
    load = "parsing" /\ written.how # "foreign" => Retraces(written.data)

FiledInv == DataInv /\ ShapesInv /\ Filed /\ Retraced

\* What stands in the file is what the read at hand finds.
LEMMA ReadFinds ==
    ASSUME TypeOK, FreshInv, ReaderBounded, agenda # << >>, head.kind \in Readings,
           HeadWidth <= size - position,
           NEW d, Sound(d), Kept(d), Retraces(d)
    PROVE  /\ position \in DOMAIN disk.at
           /\ disk.at[position] = Item(HeadWidth, First(d))
           /\ Seen(HeadWidth) = {First(d)}
  <1> DEFINE e == Item(HeadWidth, First(d))
             t == Tail(agenda)
             w == Writes(d)
  <1>1. IsData(d) /\ Short(d)
    BY DEF Sound
  <1>2. head.kind = "string" => Size(d, head.path, head.field) <= MaxStringLength
    <2> SUFFICES ASSUME head.kind = "string"
                 PROVE  Size(d, head.path, head.field) <= MaxStringLength
      OBVIOUS
    <2>1. head.field \in Strings
      <3>1. <<head.kind, head.field>> \in Members
        BY HeadTyped DEF Goals, Readings
      <3> QED
        BY <3>1 DEF Members, Strings
    <2> QED
      BY <1>1, <2>1, StringLengthAssumption DEF Short, Size
  <1>3. PICK rest \in Seq(Items) :
           /\ e \in Items /\ e.width = HeadWidth
           /\ Emit(head, d) = Then(<<e>>, rest)
    BY <1>1, <1>2, EmitFirst
  <1>4. PICK done \in Seq(Items) :
           Bytes(done) = position /\ w = Then(done, EmitAll(agenda, d))
    BY DEF Retraces
  <1>5. t \in Seq(Goals)
    BY HeadTyped
  <1>6. EmitAll(agenda, d) = Then(Emit(head, d), EmitAll(t, d))
    BY <1>1, EmitHead
  <1> HIDE DEF e, t, w
  <1>7. EmitAll(t, d) \in Seq(Items)
    BY <1>1, <1>5, EmitAllTyped
  <1>8. <<e>> \in Seq(Items)
    BY <1>3
  <1>9. EmitAll(agenda, d) = Then(<<e>>, Then(rest, EmitAll(t, d)))
    <2>1. Then(Then(<<e>>, rest), EmitAll(t, d)) = Then(<<e>>, Then(rest, EmitAll(t, d)))
      <3> DEFINE s == <<e>>
                 u == EmitAll(t, d)
      <3>1. s \in Seq(Items) /\ rest \in Seq(Items) /\ u \in Seq(Items)
        BY <1>3, <1>7, <1>8
      <3> HIDE DEF s, u
      <3>2. Then(Then(s, rest), u) = Then(s, Then(rest, u))
        BY <3>1, ThenAssociative
      <3> QED
        BY <3>2 DEF s, u
    <2> QED
      BY <1>3, <1>6, <2>1
  <1>10. Then(rest, EmitAll(t, d)) \in Seq(Items)
    BY <1>7, ThenTyped
  <1>11. Parted(w, done, e, Then(rest, EmitAll(t, d)))
    BY <1>4, <1>9 DEF Parted
  <1>12. Bytes(done) + e.width <= disk.bytes
    BY <1>3, <1>4, HeadWidthIs DEF Retraces, TypeOK, ReaderBounded, Readings
  <1>13. position \in DOMAIN disk.at /\ disk.at[position] = e
    BY <1>3, <1>4, <1>10, <1>11, <1>12 DEF Kept, Stands, w
  <1>14. disk.at[position].value = First(d)
    <2>1. e.value = First(d)
      BY DEF e, Item, Text, Number
    <2> QED
      BY <1>13, <2>1
  <1>15. Seen(HeadWidth) = {First(d)}
    BY <1>13, <1>14 DEF Seen, e
  <1> QED
    BY <1>13, <1>15 DEF e

\* A read of what stands there leaves it.
LEMMA ReadKeeps ==
    ASSUME TypeOK, FreshInv, Narrow, ReaderBounded, agenda # << >>, head.kind \in Readings,
           HeadWidth <= size - position,
           NEW d, Sound(d), Kept(d), Retraces(d),
           NEW v \in Seen(HeadWidth),
           disk' = [disk EXCEPT !.at = Put(@, position, Item(HeadWidth, v))]
    PROVE  Stands(Writes(d), disk'.bytes, disk'.at) /\ v = First(d) /\ disk'.bytes = disk.bytes
  <1>1. /\ position \in DOMAIN disk.at
        /\ disk.at[position] = Item(HeadWidth, First(d))
        /\ v = First(d)
    BY ReadFinds
  <1>2. Reveals(disk'.at, disk.at, position, Item(HeadWidth, v))
    BY RevealNarrow DEF Readings
  <1>3. disk'.bytes = disk.bytes
    BY DEF TypeOK
  <1>4. Stands(Writes(d), disk.bytes, disk'.at)
    BY <1>1, <1>2, StandsSame DEF Kept
  <1> QED
    BY <1>1, <1>3, <1>4

\* A step that reads has the input for it.
LEMMA ReadStepReads ==
    ASSUME TypeOK, FreshInv, ReadStep, head.kind \in Readings
    PROVE  HeadWidth <= size - position
  <1>1. CASE \E v, more : Plain(v, more)
    BY <1>1 DEF Plain, Takes, Consume
  <1>2. CASE ReadOpcode
    BY <1>2, ReadOpcodeOpens DEF Opens, Takes, Consume
  <1>3. CASE ReadCallArguments \/ PushArgument
    BY <1>3 DEF ReadCallArguments, PushArgument, At, Readings, Width
  <1> QED
    BY <1>1, <1>2, <1>3, PlainStep

\* What a step finds is written for the head, the rest for what follows it.
LEMMA FollowsRetraces ==
    ASSUME TypeOK, agenda # << >>, NEW e \in Seq(Items), NEW more, Follows(e, more),
           NEW d, Good(d), Fit(d, parsed', agenda'),
           NEW done \in Seq(Items), NEW w, w = Then(done, EmitAll(agenda, d))
    PROVE  w = Then(Then(done, e), EmitAll(agenda', d))
  <1> DEFINE a == EmitAll(more, d)
             b == EmitAll(Tail(agenda), d)
  <1>1. /\ IsData(d) /\ more \in Seq(Goals) /\ agenda' = Then(more, Tail(agenda))
        /\ Emit(head, d) = Then(e, a) /\ Tail(agenda) \in Seq(Goals)
    BY HeadTyped DEF Follows, Good
  <1>2. EmitAll(agenda, d) = Then(Then(e, a), b)
    BY <1>1, EmitHead
  <1>3. EmitAll(agenda', d) = Then(a, b)
    BY <1>1, EmitThen
  <1>4. a \in Seq(Items) /\ b \in Seq(Items)
    BY <1>1, EmitAllTyped
  <1> HIDE DEF a, b
  <1>5. /\ Then(a, b) \in Seq(Items)
        /\ Then(Then(e, a), b) = Then(e, Then(a, b))
    BY <1>4, ThenTyped, ThenAssociative
  <1>6. Then(done, Then(e, Then(a, b))) = Then(Then(done, e), Then(a, b))
    BY <1>5, ThenAssociative
  <1> QED
    BY <1>2, <1>3, <1>5, <1>6

\* Every step of the parser goes on retracing it.
LEMMA ReadStepRetraces ==
    ASSUME DataInv, ShapesInv, ReadStep,
           NEW d, Sound(d), Shaped(d), Kept(d), Retraces(d)
    PROVE  /\ Stands(Writes(d), disk'.bytes, disk'.at) /\ disk'.bytes = disk.bytes
           /\ size' = disk'.bytes /\ Fit(d, parsed', agenda')
           /\ \E done \in Seq(Items) :
                 Bytes(done) = position' /\ Writes(d) = Then(done, EmitAll(agenda', d))
  <1>1. /\ TypeOK /\ FreshInv /\ Narrow /\ ObjectsComeLast /\ ReaderBounded /\ ShapeInv
        /\ Good(d)
    BY SoundIs DEF DataInv, CodecInv, VectorInv, ParseInv, ShapesInv
  <1>2. Fit(d, parsed, agenda) /\ size = disk.bytes
    BY DEF Retraces
  <1>3. agenda # << >>
    BY <1>1, ReadStepFollows
  <1>4. head.kind \in Readings => Seen(HeadWidth) = {First(d)}
    BY <1>1, <1>3, ReadStepReads, ReadFinds
  <1>5. Fit(d, parsed', agenda')
    BY <1>1, <1>2, <1>4, ReadStepFits
  <1>6. PICK done \in Seq(Items) :
           Bytes(done) = position /\ Writes(d) = Then(done, EmitAll(agenda, d))
    BY DEF Retraces
  <1>7. CASE /\ head.kind \in Readings
             /\ \E v, more : Takes(v) /\ Follows(<<Item(HeadWidth, v)>>, more)
    <2>1. PICK v, more : Takes(v) /\ Follows(<<Item(HeadWidth, v)>>, more)
      BY <1>7
    <2> DEFINE e == Item(HeadWidth, v)
    <2>2. /\ HeadWidth <= size - position /\ v \in Seen(HeadWidth) /\ size' = size
          /\ disk' = [disk EXCEPT !.at = Put(@, position, Item(HeadWidth, v))]
          /\ position' = position + HeadWidth /\ v \in Nat /\ HeadWidth \in Nat
      BY <2>1 DEF Takes, Consume
    <2>3. e \in Items /\ e.width = HeadWidth
      BY <2>2 DEF Item, Text, Number, Items
    <2>4. Stands(Writes(d), disk'.bytes, disk'.at) /\ disk'.bytes = disk.bytes
      BY <1>1, <1>3, <1>7, <2>2, ReadKeeps
    <2> HIDE DEF e
    <2>5. <<e>> \in Seq(Items) /\ Bytes(<<e>>) = HeadWidth
      BY <2>3, BytesOfFew
    <2>6. Writes(d) = Then(Then(done, <<e>>), EmitAll(agenda', d))
      BY <1>1, <1>3, <1>5, <1>6, <2>1, <2>5, FollowsRetraces DEF e
    <2>7. Then(done, <<e>>) \in Seq(Items) /\ Bytes(Then(done, <<e>>)) = position'
      BY <1>6, <2>2, <2>5, ThenTyped, BytesThen
    <2> QED
      BY <1>2, <1>5, <2>2, <2>4, <2>6, <2>7
  <1>8. CASE /\ disk' = disk /\ position' = position
             /\ \E more : Follows(<< >>, more)
    <2>1. size' = size
      BY DEF ReadStep, ReadScalar, ReadLength, ReadCount, NextElement, ReadDebugFlag,
             ReadObjectSize, ObjectEnds, ReadPropertyFlags, ReadType, ReadOpcode,
             ReadCallArguments, PushArgument, Consume, reader
    <2>2. PICK more : Follows(<< >>, more)
      BY <1>8
    <2>3. << >> \in Seq(Items)
      BY NothingTyped
    <2>4. Writes(d) = Then(Then(done, << >>), EmitAll(agenda', d))
      BY <1>1, <1>3, <1>5, <1>6, <2>2, <2>3, FollowsRetraces
    <2>5. Then(done, << >>) = done
      BY ThenNone
    <2>6. Stands(Writes(d), disk'.bytes, disk'.at)
      BY <1>8 DEF Kept
    <2> QED
      BY <1>2, <1>5, <1>6, <1>8, <2>1, <2>4, <2>5, <2>6
  <1> QED
    BY <1>1, <1>7, <1>8, ReadStepFollows DEF Readings

\* A Load of what Save wrote begins at the beginning of it.
LEMMA OpenFileRetraces ==
    ASSUME OpenFile, NEW d, Good(d)
    PROVE  /\ size' = disk'.bytes /\ Fit(d, parsed', agenda')
           /\ \E done \in Seq(Items) :
                 Bytes(done) = position' /\ Writes(d) = Then(done, EmitAll(agenda', d))
  <1>1. /\ size' = disk.bytes /\ disk' = disk /\ position' = 0
        /\ agenda' = Load /\ parsed' = EmptyData
    BY DEF OpenFile
  <1>2. Fit(d, EmptyData, Load)
    <2>1. \A i \in DOMAIN Load : Load[i].kind # "callArguments"
      BY LoadStraight DEF Straight
    <2> QED
      BY <2>1 DEF Fit, Known, Argued, EmptyData
  <1>3. EmitAll(Load, d) = Writes(d) /\ Writes(d) \in Seq(Items)
    BY EmitLoad, WritesTyped DEF Good
  <1>4. << >> \in Seq(Items) /\ Bytes(<< >>) = 0 /\ Then(<< >>, Writes(d)) = Writes(d)
    BY <1>3, NothingTyped, BytesOfFew, ThenNone
  <1> QED
    BY <1>1, <1>2, <1>3, <1>4

\* A refused value leaves what stands in the file.
LEMMA ThrowKeeps ==
    ASSUME DataInv, Throw, NEW d, Sound(d), Kept(d), Retraces(d)
    PROVE  Stands(Writes(d), disk'.bytes, disk'.at) /\ disk'.bytes = disk.bytes
  <1>1. TypeOK /\ FreshInv /\ Narrow /\ ReaderBounded
    BY DEF DataInv, CodecInv, VectorInv
  <1>2. CASE disk' = disk
    BY <1>2 DEF Kept
  <1>3. CASE ValueRefused
    <2>1. /\ agenda # << >> /\ head.kind \in Readings /\ HeadWidth <= size - position
          /\ \E v \in Seen(HeadWidth) :
                disk' = [disk EXCEPT !.at = Put(@, position, Item(HeadWidth, v))]
      BY <1>3 DEF ValueRefused, At, Readings
    <2> QED
      BY <1>1, <2>1, ReadKeeps
  <1> QED
    BY <1>2, <1>3 DEF Throw, ReadFails, ObjectSizeMismatch, CallRefused

\* At its end a Load has read all that is written for the data.
LEMMA CommitAtTheEnd ==
    ASSUME DataInv, Commit, NEW d, Sound(d), Retraces(d)
    PROVE  position = Bytes(Writes(d)) /\ ~(disk.bytes < Bytes(Writes(d)))
  <1>1. /\ agenda = << >> /\ TypeOK /\ ReaderBounded /\ IsData(d)
    BY DEF Commit, DataInv, CodecInv, VectorInv, Sound
  <1>2. PICK done \in Seq(Items) :
           Bytes(done) = position /\ Writes(d) = Then(done, EmitAll(agenda, d))
    BY DEF Retraces
  <1>3. EmitAll(agenda, d) = << >>
    BY <1>1, EmitFew
  <1>4. Then(done, << >>) = done
    BY ThenNone
  <1> QED
    BY <1>1, <1>2, <1>3, <1>4 DEF Retraces, TypeOK, ReaderBounded

-----------------------------------------------------------------------------
(* The steps *)

\* A replaced string leaves the instructions in shape.
LEMMA ReplacedShaped ==
    ASSUME IsData(inst), Shaped(inst), NEW i, NEW s
    PROVE  Shaped(ReplaceString(i, s))
  <1> DEFINE new == ReplaceString(i, s)
             key == <<Child(<< >>, "strings", i), "bytes">>
  <1>1. new.val = Put(inst.val, key, s.value) /\ new.len = Put(inst.len, key, s.length)
    BY DEF ReplaceString
  <1> HIDE DEF new
  <1>2. \A q, f : f # "bytes" =>
           /\ Value(new, q, f) = Value(inst, q, f) /\ Size(new, q, f) = Size(inst, q, f)
           /\ <<q, f>> \in DOMAIN inst.val => <<q, f>> \in DOMAIN new.val
    <2> TAKE q, f
    <2>1. f # "bytes" => <<q, f>> # key
      OBVIOUS
    <2> HIDE DEF key
    <2> QED
      BY <1>1, <2>1 DEF Value, Size, Put
  <1> SUFFICES ASSUME NEW q \in Path
               PROVE  Instructed(new, q, Size(new, q, "arguments"))
    BY DEF Shaped, new
  <1>3. Instructed(inst, q, Size(inst, q, "arguments"))
    BY DEF Shaped
  <1> QED
    BY <1>2, <1>3 DEF Instructed

\* Every step leaves them so.
LEMMA DataKeepsShapes ==
    ASSUME DataInv, ShapesInv, [DataNext]_dataVars
    PROVE  ShapesInv'
  <1>1. /\ TypeOK /\ FreshInv /\ NothingRuns /\ Sound(inst) /\ IsData(inst)
        /\ load = "parsing" => save # "saving"
    BY DEF DataInv, CodecInv, VectorInv, ParseInv, Stored, Sound
  <1>2. CASE PlaceFileHere \/ CallLoad \/ ContinueLoad \/ UNCHANGED dataVars
    <2>1. [Next]_vars
      BY <1>2 DEF PlaceFileHere, CallLoad, ContinueLoad, Next, dataVars
    <2> QED
      BY <1>1, <2>1, NextShapes
  <1>3. CASE ModifyStringTable \/ Close \/ OpenForSave \/ CannotOpenForSave \/ SaveStep
                 \/ Crash
    <2>1. load # "parsing" /\ agenda' = agenda /\ parsed' = parsed
      BY <1>1, <1>3 DEF ModifyStringTable, Close, OpenForSave, CannotOpenForSave, SaveStep,
         Write, WriteFails, WriteDropped, CloseFile, Crash, Idle, vars
    <2>2. ShapeInv'
      BY <1>1, <2>1, RestShape DEF NothingRuns
    <2>3. CASE inst' = inst \/ inst' = EmptyData
      BY <2>2, <2>3, EmptyShaped DEF ShapesInv
    <2>4. CASE ModifyStringTable
      <3>1. \E i, s : inst' = ReplaceString(i, s)
        BY <2>4 DEF ModifyStringTable
      <3> QED
        BY <1>1, <2>2, <3>1, ReplacedShaped DEF ShapesInv
    <2>5. OpenForSave => inst' = inst
      BY <1>1, StringsOfCount DEF OpenForSave
    <2> QED
      BY <1>3, <2>3, <2>4, <2>5 DEF Close, CannotOpenForSave, SaveStep, Write, WriteFails,
         WriteDropped, CloseFile, Crash, vars
  <1> QED
    BY <1>2, <1>3 DEF DataNext

\* A step that leaves the file, when Save does not run, leaves what is known
\* of it.
LEMMA FiledStays ==
    ASSUME Filed, UNCHANGED <<disk, written>>, save # "saving", save' # "saving"
    PROVE  Filed'
  BY DEF Filed, Kept, Stands, Underway

\* A step of Load keeps the file as it was written, and retraces it.
LEMMA LoadKeepsFile ==
    ASSUME FiledInv, PlaceFileHere \/ CallLoad \/ ContinueLoad
    PROVE  Filed' /\ Retraced'
  <1> DEFINE d == written.data
  <1>1. /\ DataInv /\ ShapesInv /\ Filed /\ Retraced /\ Sound(d) /\ Shaped(d) /\ Good(d)
    BY SoundIs DEF FiledInv, Filed, DataInv, Saving
  <1>2. CASE PlaceFileHere
    <2>1. written' = Foreign /\ save' = save /\ save # "saving"
      BY <1>2 DEF PlaceFileHere, Idle
    <2>2. written'.how = "foreign" /\ written'.data = EmptyData
      BY <2>1 DEF Foreign, Written
    <2> QED
      BY <2>1, <2>2, EmptyShaped DEF Filed, Retraced
  <1>3. CASE CallLoad
    <2>1. /\ UNCHANGED <<disk, written, save>> /\ save # "saving"
          /\ OpenFile \/ RefuseFile
      BY <1>3 DEF CallLoad, saveVars, Idle, OpenFile, RefuseFile
    <2>2. Filed'
      BY <1>1, <2>1, FiledStays
    <2>3. Retraced'
      <3>1. CASE OpenFile
        BY <1>1, <2>1, <3>1, OpenFileRetraces DEF Retraced, Retraces
      <3>2. CASE RefuseFile
        BY <3>2 DEF RefuseFile, Retraced
      <3> QED
        BY <2>1, <3>1, <3>2
    <2> QED
      BY <2>2, <2>3
  <1>4. CASE ContinueLoad
    <2>1. /\ written' = written /\ save' = save /\ load = "parsing" /\ save # "saving"
          /\ LoadStep
      <3>1. load = "parsing"
        BY <1>4 DEF ContinueLoad, LoadStep, Throw, Commit, ReadFails, ValueRefused,
                    ObjectSizeMismatch, CallRefused, ReadStep, ReadScalar, ReadLength,
                    ReadCount, NextElement, ReadDebugFlag, ReadObjectSize, ObjectEnds,
                    ReadPropertyFlags, ReadType, ReadOpcode, ReadCallArguments,
                    PushArgument, At
      <3> QED
        BY <1>1, <1>4, <3>1 DEF ContinueLoad, saveVars, DataInv, Stored
    <2>2. CASE written.how = "foreign"
      BY <1>1, <2>1, <2>2 DEF Filed, Retraced
    <2>3. CASE written.how # "foreign"
      <3>1. Kept(d) /\ Retraces(d)
        BY <1>1, <2>1, <2>3 DEF Filed, Retraced
      <3>2. /\ Stands(Writes(d), disk'.bytes, disk'.at) /\ disk'.bytes = disk.bytes
            /\ load' = "parsing" =>
                  /\ size' = disk'.bytes /\ Fit(d, parsed', agenda')
                  /\ \E done \in Seq(Items) :
                        Bytes(done) = position'
                          /\ Writes(d) = Then(done, EmitAll(agenda', d))
        <4> HIDE DEF d
        <4>1. CASE ReadStep
          BY <1>1, <3>1, <4>1, ReadStepRetraces
        <4>2. CASE Throw
          <5>1. load' = "failed"
            BY <4>2 DEF Throw, ReadFails, ValueRefused, ObjectSizeMismatch, CallRefused,
                        EndCall
          <5> QED
            BY <1>1, <3>1, <4>2, <5>1, ThrowKeeps
        <4>3. CASE Commit
          BY <3>1, <4>3 DEF Commit, EndCall, Kept
        <4> QED
          BY <2>1, <4>1, <4>2, <4>3 DEF LoadStep
      <3>3. Filed'
        BY <1>1, <2>1, <2>3, <3>2 DEF Filed, Kept
      <3>4. Retraced'
        BY <2>1, <3>2 DEF Retraced, Retraces
      <3> QED
        BY <3>3, <3>4
    <2> QED
      BY <2>2, <2>3
  <1> QED
    BY <1>2, <1>3, <1>4

\* The writes of sound data, each of some width.
LEMMA SoundWrites ==
    ASSUME NEW d, Sound(d)
    PROVE  /\ Writes(d) \in Seq(Writable) /\ Writes(d) \in Seq(Items)
           /\ \A i \in DOMAIN Writes(d) : Writes(d)[i].width > 0
  <1>1. Writes(d) \in Seq(Writable) /\ Writes(d) \in Seq(Items)
    BY SoundIs, WritesWritable, WritesTyped DEF Sound
  <1>2. \A i \in DOMAIN Writes(d) : Writes(d)[i] \in Writable
    BY <1>1
  <1> QED
    BY <1>1, <1>2 DEF Writable

\* Save begins with an empty file.
LEMMA OpenKeepsFile ==
    ASSUME FiledInv, OpenForSave \/ CannotOpenForSave
    PROVE  Filed' /\ Retraced'
  <1>1. load # "parsing" /\ load' = load /\ Sound(inst) /\ Shaped(inst) /\ Filed
        /\ save # "saving"
    BY DEF OpenForSave, CannotOpenForSave, Idle, vars, FiledInv, DataInv, Stored, ShapesInv
  <1>2. Retraced'
    BY <1>1 DEF Retraced
  <1>3. CASE CannotOpenForSave
    BY <1>1, <1>2, <1>3, FiledStays DEF CannotOpenForSave, vars
  <1>4. CASE OpenForSave
    <2> DEFINE w == Writes(inst)
    <2>1. /\ disk' = Unread(0) /\ output' = w /\ good' = TRUE /\ inst' = inst
          /\ save' = "saving" /\ written' = Written("torn", inst)
      BY <1>1, <1>4, StringsOfCount DEF OpenForSave
    <2>2. disk'.bytes = 0 /\ written'.how = "torn" /\ written'.data = inst
      BY <2>1 DEF Unread, Written
    <2>3. w \in Seq(Items) /\ Stands(w, 0, disk'.at)
      BY <1>1, SoundWrites, StandsNothing
    <2>4. << >> \in Seq(Items) /\ w = Then(<< >>, w) /\ Bytes(<< >>) = 0
      BY <2>3, NothingTyped, BytesOfFew, ThenNone
    <2> HIDE DEF w
    <2>5. \E done \in Seq(Items) : w = Then(done, output') /\ Bytes(done) = disk'.bytes
      BY <2>1, <2>2, <2>4
    <2> QED
      BY <1>1, <1>2, <2>1, <2>2, <2>3, <2>5 DEF Filed, Kept, Underway, w
  <1> QED
    BY <1>3, <1>4

\* The write at hand stands between those that are done and those to come.
LEMMA WriteParts ==
    ASSUME FiledInv, save = "saving", good, output # NoWrites
    PROVE  \E done \in Seq(Items) :
              /\ Head(output) \in Items /\ Tail(output) \in Seq(Items)
              /\ Head(output).width > 0
              /\ Bytes(done) = disk.bytes
              /\ Parted(Writes(inst), done, Head(output), Tail(output))
  <1>1. PICK done \in Seq(Items) :
           Writes(inst) = Then(done, output) /\ Bytes(done) = disk.bytes
    BY DEF FiledInv, Filed, Underway
  <1>2. Head(output) \in Writable /\ Tail(output) \in Seq(Writable)
    BY NothingStopsSave DEF FiledInv, DataInv
  <1>3. /\ Head(output) \in Items /\ Tail(output) \in Seq(Items)
        /\ Head(output).width > 0
    BY <1>2 DEF Writable
  <1>4. output = Then(<<Head(output)>>, Tail(output))
    <2>1. output \in Seq(Writable) /\ output # << >>
      BY DEF FiledInv, DataInv, Saving, NoWrites
    <2> QED
      BY <2>1 DEF Then
  <1> QED
    BY <1>1, <1>3, <1>4 DEF Parted

\* A part of a write leaves the file short of the whole.
LEMMA TornWrite ==
    ASSUME FiledInv, save = "saving", good, output # NoWrites,
           NEW n \in 0..(Head(output).width - 1)
    PROVE  /\ Stands(Writes(inst), disk.bytes + n, disk.at)
           /\ disk.bytes + n < Bytes(Writes(inst))
  <1> DEFINE e == Head(output)
             rest == Tail(output)
             w == Writes(inst)
  <1>1. PICK done \in Seq(Items) :
           /\ e \in Items /\ rest \in Seq(Items) /\ e.width > 0
           /\ Bytes(done) = disk.bytes /\ Parted(w, done, e, rest)
    BY WriteParts
  <1>2. /\ Stands(w, disk.bytes, disk.at)
        /\ \A i \in DOMAIN w : w[i].width > 0
    BY SoundWrites DEF FiledInv, Filed, Kept, DataInv, Stored
  <1>3. n \in 0..(e.width - 1)
    OBVIOUS
  <1> HIDE DEF e, rest, w
  <1>4. /\ Bytes(done) \in Nat /\ Bytes(rest) \in Nat /\ e.width \in Nat
        /\ Bytes(w) = Bytes(done) + e.width + Bytes(rest)
    BY <1>1, BytesOfParts
  <1>5. n \in Nat /\ n < e.width
    BY <1>3, <1>4
  <1>6. \A m \in Nat : m < e.width => Stands(w, Bytes(done) + m, disk.at)
    BY <1>1, <1>2, StandsGrows
  <1>7. Stands(w, disk.bytes + n, disk.at) /\ disk.bytes + n < Bytes(w)
    BY <1>1, <1>4, <1>5, <1>6
  <1> QED
    BY <1>7 DEF w

\* A whole write stands in the file.
LEMMA WholeWrite ==
    ASSUME FiledInv, save = "saving", good, output # NoWrites
    PROVE  /\ Stands(Writes(inst), disk.bytes + Head(output).width,
                     Put(disk.at, disk.bytes, Head(output)))
           /\ \E done \in Seq(Items) :
                 /\ Writes(inst) = Then(done, Tail(output))
                 /\ Bytes(done) = disk.bytes + Head(output).width
  <1> DEFINE e == Head(output)
             rest == Tail(output)
             w == Writes(inst)
  <1>1. PICK done \in Seq(Items) :
           /\ e \in Items /\ rest \in Seq(Items) /\ e.width > 0
           /\ Bytes(done) = disk.bytes /\ Parted(w, done, e, rest)
    BY WriteParts
  <1>2. /\ Stands(w, disk.bytes, disk.at)
        /\ \A i \in DOMAIN w : w[i].width > 0
    BY SoundWrites DEF FiledInv, Filed, Kept, DataInv, Stored
  <1> HIDE DEF e, rest, w
  <1>3. Stands(w, Bytes(done) + e.width, Put(disk.at, Bytes(done), e))
    BY <1>1, <1>2, StandsGrows
  <1> DEFINE s == <<e>>
  <1>4. s \in Seq(Items) /\ Bytes(s) = e.width
    BY <1>1, BytesOfFew
  <1>5. w = Then(done, Then(s, rest))
    BY <1>1 DEF Parted
  <1> HIDE DEF s
  <1>6. w = Then(Then(done, s), rest)
    BY <1>1, <1>4, <1>5, ThenAssociative
  <1>7. Then(done, s) \in Seq(Items) /\ Bytes(Then(done, s)) = disk.bytes + e.width
    BY <1>1, <1>4, ThenTyped, BytesThen
  <1>8. /\ Stands(w, disk.bytes + e.width, Put(disk.at, disk.bytes, e))
        /\ \E before \in Seq(Items) :
              w = Then(before, rest) /\ Bytes(before) = disk.bytes + e.width
    BY <1>1, <1>3, <1>6, <1>7
  <1> QED
    BY <1>8 DEF w, e, rest

\* When nothing is left to write, all of it stands there.
LEMMA AllWritten ==
    ASSUME FiledInv, save = "saving", good, output = NoWrites
    PROVE  disk.bytes = Bytes(Writes(inst))
  <1>1. PICK done \in Seq(Items) :
           Writes(inst) = Then(done, output) /\ Bytes(done) = disk.bytes
    BY DEF FiledInv, Filed, Underway
  <1>2. Then(done, << >>) = done
    BY ThenNone
  <1> QED
    BY <1>1, <1>2 DEF NoWrites

\* Save writes, and ends.
LEMMA SaveKeepsFile ==
    ASSUME FiledInv, SaveStep
    PROVE  Filed' /\ Retraced'
  <1>1. /\ save = "saving" /\ load # "parsing" /\ load' = load /\ inst' = inst
        /\ Filed /\ written.data = inst /\ written.how = "torn" /\ Shaped(inst)
        /\ Kept(inst) /\ Saving /\ TypeOK
    BY DEF SaveStep, Write, WriteFails, WriteDropped, CloseFile, vars, FiledInv, DataInv,
           Stored, ShapesInv, Filed, CodecInv, VectorInv
  <1>2. Retraced'
    BY <1>1 DEF Retraced
  <1>3. CASE Write
    <2>1. /\ output # NoWrites /\ good /\ UNCHANGED <<good, save, written>>
          /\ disk' = [bytes |-> disk.bytes + Head(output).width,
                      at |-> Put(disk.at, disk.bytes, Head(output))]
          /\ output' = Tail(output)
      BY <1>3 DEF Write, WritingEnds
    <2>2. /\ disk'.bytes = disk.bytes + Head(output).width
          /\ disk'.at = Put(disk.at, disk.bytes, Head(output))
      BY <2>1
    <2>3. /\ Stands(Writes(inst), disk'.bytes, disk'.at)
          /\ \E done \in Seq(Items) :
                Writes(inst) = Then(done, output') /\ Bytes(done) = disk'.bytes
      BY <1>1, <2>1, <2>2, WholeWrite
    <2> QED
      BY <1>1, <1>2, <2>1, <2>3 DEF Filed, Kept, Underway
  <1>4. CASE WriteFails
    <2>1. /\ output # NoWrites /\ good /\ good' = FALSE /\ UNCHANGED <<output, save, written>>
          /\ \E n \in 0..(Head(output).width - 1) : disk' = [disk EXCEPT !.bytes = @ + n]
      BY <1>4 DEF WriteFails, WritingEnds
    <2>2. PICK n \in 0..(Head(output).width - 1) : disk' = [disk EXCEPT !.bytes = @ + n]
      BY <2>1
    <2>3. disk'.bytes = disk.bytes + n /\ disk'.at = disk.at
      BY <1>1, <2>2 DEF TypeOK
    <2>4. /\ Stands(Writes(inst), disk'.bytes, disk'.at)
          /\ disk'.bytes < Bytes(Writes(inst))
      BY <1>1, <2>1, <2>3, TornWrite
    <2> QED
      BY <1>1, <1>2, <2>1, <2>4 DEF Filed, Kept
  <1>5. CASE WriteDropped
    <2>1. ~good /\ UNCHANGED <<disk, good, save, written>>
      BY <1>5 DEF WriteDropped, vars
    <2> QED
      BY <1>1, <1>2, <2>1 DEF Filed, Kept
  <1>6. CASE CloseFile
    <2>1. /\ save' # "saving" /\ disk' = disk /\ output = NoWrites
          /\ written' = IF good THEN Written("complete", inst) ELSE written
      BY <1>1, <1>6, NothingStopsSave DEF CloseFile, vars
    <2>2. CASE good
      <3>1. written'.how = "complete" /\ written'.data = inst
        BY <2>1, <2>2 DEF Written
      <3>2. disk'.bytes = Bytes(Writes(inst))
        BY <1>1, <2>1, <2>2, AllWritten
      <3> QED
        BY <1>1, <1>2, <2>1, <3>1, <3>2 DEF Filed, Kept
    <2>3. CASE ~good
      <3>1. disk.bytes < Bytes(Writes(inst))
        BY <1>1, <2>3 DEF Filed
      <3> QED
        BY <1>1, <1>2, <2>1, <2>3, <3>1 DEF Filed, Kept
    <2> QED
      BY <2>2, <2>3
  <1> QED
    BY <1>3, <1>4, <1>5, <1>6 DEF SaveStep

\* ... or dies.
LEMMA CrashKeepsFile ==
    ASSUME FiledInv, Crash
    PROVE  Filed' /\ Retraced'
  <1>1. /\ save = "saving" /\ save' = "idle" /\ load' = "idle"
        /\ Filed /\ written.data = inst /\ written.how = "torn" /\ Shaped(inst)
        /\ Kept(inst) /\ Saving /\ TypeOK
        /\ written' = IF good /\ output = NoWrites
                      THEN Written("complete", inst) ELSE written
    BY DEF Crash, FiledInv, DataInv, ShapesInv, Filed, CodecInv, VectorInv
  <1>2. Retraced'
    BY <1>1 DEF Retraced
  <1>3. CASE good /\ output # NoWrites
    <2>1. \E n \in 0..(Head(output).width - 1) : disk' = [disk EXCEPT !.bytes = @ + n]
      BY <1>1, <1>3, NothingStopsSave DEF Crash
    <2>2. PICK n \in 0..(Head(output).width - 1) : disk' = [disk EXCEPT !.bytes = @ + n]
      BY <2>1
    <2>3. disk'.bytes = disk.bytes + n /\ disk'.at = disk.at
      BY <1>1, <2>2 DEF TypeOK
    <2>4. /\ Stands(Writes(inst), disk'.bytes, disk'.at)
          /\ disk'.bytes < Bytes(Writes(inst))
      BY <1>1, <1>3, <2>3, TornWrite
    <2>5. written' = written
      BY <1>1, <1>3
    <2> QED
      BY <1>1, <1>2, <2>4, <2>5 DEF Filed, Kept
  <1>4. CASE good /\ output = NoWrites
    <2>1. disk' = disk
      BY <1>4 DEF Crash, WritingEnds
    <2>2. written'.how = "complete" /\ written'.data = inst
      BY <1>1, <1>4 DEF Written
    <2>3. disk'.bytes = Bytes(Writes(inst))
      BY <1>1, <1>4, <2>1, AllWritten
    <2> QED
      BY <1>1, <1>2, <2>1, <2>2, <2>3 DEF Filed, Kept
  <1>5. CASE ~good
    <2>1. disk' = disk /\ written' = written
      BY <1>1, <1>5 DEF Crash
    <2>2. disk.bytes < Bytes(Writes(inst))
      BY <1>1, <1>5 DEF Filed
    <2> QED
      BY <1>1, <1>2, <2>1, <2>2 DEF Filed, Kept
  <1> QED
    BY <1>3, <1>4, <1>5

\* The invariant holds at first,
LEMMA InitFiled == DataInit => FiledInv
  <1> SUFFICES ASSUME DataInit PROVE FiledInv
    OBVIOUS
  <1>1. DataInv /\ ShapesInv
    BY InitData, InitShapes DEF DataInit
  <1>2. /\ written.how = "foreign" /\ written.data = EmptyData /\ save = "idle"
        /\ load = "idle"
    BY DEF DataInit, Init, NoCall, Foreign, Written
  <1> QED
    BY <1>1, <1>2, EmptyShaped DEF FiledInv, Filed, Retraced

\* ... and every step keeps it.
LEMMA NextFiled == FiledInv /\ [DataNext]_dataVars => FiledInv'
  <1> SUFFICES ASSUME FiledInv, [DataNext]_dataVars PROVE FiledInv'
    OBVIOUS
  <1>1. DataInv' /\ ShapesInv'
    BY NextData, DataKeepsShapes DEF FiledInv
  <1>2. Filed' /\ Retraced'
    <2>1. CASE PlaceFileHere \/ CallLoad \/ ContinueLoad
      BY <2>1, LoadKeepsFile
    <2>2. CASE ModifyStringTable \/ Close
      <3>1. /\ UNCHANGED <<disk, written>> /\ save # "saving" /\ save' = save
            /\ load # "parsing" /\ load' = load
        BY <2>2 DEF ModifyStringTable, Close, Idle, saveVars
      <3> QED
        BY <3>1, FiledStays DEF FiledInv, Retraced
    <2>3. CASE UNCHANGED dataVars
      BY <2>3 DEF dataVars, vars, FiledInv, Filed, Kept, Stands, Underway, Retraced, Retraces
    <2> QED
      BY <2>1, <2>2, <2>3, OpenKeepsFile, SaveKeepsFile, CrashKeepsFile DEF DataNext
  <1> QED
    BY <1>1, <1>2 DEF FiledInv

\* While Save runs, dies or fails, the file holds the beginning of what it
\* writes for the data, as far as it came; and a Load of it finds that and
\* nothing else.
THEOREM FileIsAsWritten == DataSpec => []FiledInv
  <1>1. DataInit => FiledInv
    BY InitFiled
  <1>2. FiledInv /\ [DataNext]_dataVars => FiledInv'
    BY NextFiled
  <1> QED
    BY <1>1, <1>2, PTL DEF DataSpec

\* Whatever was saved and at whatever byte a crash or a failed write cut the
\* file: Load never takes what is left for a script.  It finds in it what was
\* written, so it is still missing something when the file ends.
THEOREM NoTornFileLoads == DataSpec => TornFileNeverLoads
  <1>1. FiledInv /\ [DataNext]_dataVars =>
           (written.how = "torn" /\ load = "parsing" => load' # "loaded")
    <2> SUFFICES ASSUME FiledInv, [DataNext]_dataVars, written.how = "torn",
                        load = "parsing"
                 PROVE  load' # "loaded"
      OBVIOUS
    <2>1. CASE Commit
      <3>1. /\ DataInv /\ Retraces(written.data) /\ Sound(written.data)
            /\ disk.bytes < Bytes(Writes(written.data))
        BY DEF FiledInv, Filed, Retraced, DataInv, Saving, Stored
      <3> QED
        BY <2>1, <3>1, CommitAtTheEnd
    <2>2. CASE ~Commit
      BY <2>2 DEF DataNext, dataVars, vars, PlaceFileHere, CallLoad, ContinueLoad,
         ModifyStringTable, OpenForSave, CannotOpenForSave, SaveStep, Write, WriteFails,
         WriteDropped, CloseFile, Close, Crash, Idle, LoadStep, Throw, ReadFails,
         ValueRefused, ObjectSizeMismatch, CallRefused, EndCall, ReadStep, ReadScalar,
         ReadLength, ReadCount, NextElement, ReadDebugFlag, ReadObjectSize, ObjectEnds,
         ReadPropertyFlags, ReadType, ReadOpcode, ReadCallArguments, PushArgument, Consume
    <2> QED
      BY <2>1, <2>2
  <1>2. [FiledInv /\ FiledInv' /\ [DataNext]_dataVars]_dataVars
           => [written.how = "torn" /\ load = "parsing" => load' # "loaded"]_dataVars
    BY <1>1
  <1> QED
    BY <1>1, FileIsAsWritten, PTL DEF DataSpec, TornFileNeverLoads

-----------------------------------------------------------------------------
(* What the data lead the parser to.  Which goals a Load has before it     *)
(* depends on a few of the values it reads: counts, flags, types and       *)
(* opcodes.  For given data these goals are a set, and a Load of the data  *)
(* visits each of them; a set that has the goals Load begins with, and     *)
(* with each goal those it leads to, is closed.                            *)

Of(goals) == {goals[i] : i \in DOMAIN goals}

\* The ends of objects set nothing and lead nowhere.
Ends == {g \in Goals : g.kind = "objectEnd"}

\* The member the goal g sets, and the vector or string it sizes.
Fills(g) == IF g.kind \in Readings \ {"string"} THEN {<<g.path, g.field>>} ELSE {}

Measures(g) ==
    CASE g.kind = "string" -> {<<g.path, g.field>>}
      [] g.kind = "count" -> {<<g.path, Vector[g.field].name>>}
      [] g.kind = "objectSize" -> {<< << >>, "objects">>}
      [] g.kind \in {"opcode", "callArguments", "push"} -> {<<g.path, "arguments">>}
      [] OTHER -> {}

\* The goals of the next element of a loop, and of the flags of a property.
Turn(g) ==
    Of(Reads(Vector[g.field].element, Child(g.path, Vector[g.field].name, g.n + 1)))
       \cup {[g EXCEPT !.n = g.n + 1]}

Handler(path, v, bit, name) ==
    IF HasBit(v, bit) /\ ~HasBit(v, 4)
    THEN Of(Reads(ReadFunction, Child(path, name, 0))) ELSE {}

Flagged(path, v) ==
    (IF HasBit(v, 4) THEN Of(Reads(<< <<"u16", "autoVarName">> >>, path)) ELSE {})
       \cup Handler(path, v, 1, "readHandler") \cup Handler(path, v, 2, "writeHandler")

\* The goals that take the place of g when the data are d.
Leads(g, d) ==
    LET v == Value(d, g.path, g.field)
        n == Size(d, g.path, g.field)
    IN  CASE g.kind = "string" ->
               IF n = 0 THEN {} ELSE {Goal("payload", g.path, g.field, n)}
          [] g.kind = "count" -> {Goal("loop", g.path, g.field, 0)}
          [] g.kind = "loop" -> IF g.n < v THEN Turn(g) ELSE {}
          [] g.kind = "debugFlag" -> IF v = 0 THEN {} ELSE Of(Reads(DebugTable, g.path))
          [] g.kind = "objectSize" -> Of(Reads(ReadObjectData, g.path))
          [] g.kind = "propertyFlags" -> Flagged(g.path, v)
          [] g.kind = "type" -> Of(Reads(ReadVariableData[v], g.path))
          [] g.kind = "opcode" ->
               Of(Then(FirstOf(g.path, HeaderArgumentCount(v)), CallGoal(g.path, v)))
          [] g.kind = "callArguments" ->
               Of(Further(g.path, g.n, Size(d, g.path, "arguments") - g.n))
          [] OTHER -> {}

\* The step at hand leads to those and at most to the end of an object.
Led(more, d) == Leads(head, d) \subseteq Of(more) /\ Of(more) \subseteq Leads(head, d) \cup Ends

\* The goals of two lists,
LEMMA OfThen ==
    ASSUME NEW S, NEW a \in Seq(S), NEW b \in Seq(S)
    PROVE  Of(Then(a, b)) = Of(a) \cup Of(b)
  <1>1. /\ Len(a) \in Nat /\ Len(b) \in Nat
        /\ DOMAIN a = 1..Len(a) /\ DOMAIN b = 1..Len(b)
        /\ DOMAIN Then(a, b) = 1..(Len(a) + Len(b))
        /\ \A j \in 1..Len(a) : Then(a, b)[j] = a[j]
        /\ \A j \in 1..Len(b) : Then(a, b)[Len(a) + j] = b[j]
    <2>1. /\ Len(a) \in Nat /\ Len(b) \in Nat
          /\ DOMAIN Then(a, b) = 1..(Len(a) + Len(b))
          /\ \A i \in 1..Len(a) : Then(a, b)[i] = a[i]
          /\ \A i \in (Len(a) + 1)..(Len(a) + Len(b)) : Then(a, b)[i] = b[i - Len(a)]
      BY ThenAt
    <2>2. DOMAIN a = 1..Len(a) /\ DOMAIN b = 1..Len(b)
      OBVIOUS
    <2>3. ASSUME NEW j \in 1..Len(b) PROVE Then(a, b)[Len(a) + j] = b[j]
      <3> DEFINE i == Len(a) + j
      <3>1. i \in (Len(a) + 1)..(Len(a) + Len(b)) /\ i - Len(a) = j
        BY <2>1
      <3> HIDE DEF i
      <3>2. Then(a, b)[i] = b[j]
        BY <2>1, <3>1
      <3> QED
        BY <3>2 DEF i
    <2> QED
      BY <2>1, <2>2, <2>3
  <1>2. ASSUME NEW x \in Of(Then(a, b)) PROVE x \in Of(a) \cup Of(b)
    <2>1. PICK i \in DOMAIN Then(a, b) : x = Then(a, b)[i]
      BY DEF Of
    <2> QED
      BY <2>1, ThenPart DEF Of
  <1>3. ASSUME NEW x \in Of(a) PROVE x \in Of(Then(a, b))
    <2>1. PICK i \in DOMAIN a : x = a[i]
      BY DEF Of
    <2>2. i \in DOMAIN Then(a, b) /\ x = Then(a, b)[i]
      BY <1>1, <2>1
    <2> QED
      BY <2>2 DEF Of
  <1>4. ASSUME NEW x \in Of(b) PROVE x \in Of(Then(a, b))
    <2>1. PICK i \in DOMAIN b : x = b[i]
      BY DEF Of
    <2>2. Len(a) + i \in DOMAIN Then(a, b) /\ x = Then(a, b)[Len(a) + i]
      BY <1>1, <2>1
    <2> QED
      BY <2>2 DEF Of
  <1> QED
    BY <1>2, <1>3, <1>4

\* ... of none, and of one.
LEMMA OfFew ==
    /\ Of(<< >>) = {}
    /\ \A g : Of(<<g>>) = {g}
  <1>1. DOMAIN << >> = {} /\ \A g : DOMAIN <<g>> = {1} /\ <<g>>[1] = g
    OBVIOUS
  <1>2. Of(<< >>) = {}
    BY <1>1 DEF Of
  <1>3. ASSUME NEW g PROVE Of(<<g>>) = {g}
    BY <1>1 DEF Of
  <1> QED
    BY <1>2, <1>3

\* Goals in a list are goals.
LEMMA OfTyped ==
    ASSUME NEW goals \in Seq(Goals)
    PROVE  Of(goals) \subseteq Goals
  BY DEF Of

\* After a step the agenda has the new goals and what was behind the head.
LEMMA OfStep ==
    ASSUME TypeOK, agenda # << >>, NEW more \in Seq(Goals),
           agenda' = Then(more, Tail(agenda))
    PROVE  /\ Of(agenda') = Of(more) \cup Of(Tail(agenda))
           /\ Of(agenda) = {head} \cup Of(Tail(agenda))
  <1>1. Tail(agenda) \in Seq(Goals) /\ head \in Goals
    BY HeadTyped
  <1>2. agenda = Then(<<head>>, Tail(agenda)) /\ <<head>> \in Seq(Goals)
    BY <1>1 DEF TypeOK, head, Then
  <1> DEFINE t == Tail(agenda)
             s == <<head>>
  <1>3. Of(s) = {head}
    BY OfFew
  <1>4. agenda = Then(s, t) /\ s \in Seq(Goals) /\ t \in Seq(Goals) /\ agenda' = Then(more, t)
    BY <1>1, <1>2
  <1> HIDE DEF s, t
  <1>5. Of(agenda') = Of(more) \cup Of(t)
    BY <1>4, OfThen
  <1>6. Of(agenda) = Of(s) \cup Of(t)
    BY <1>4, OfThen
  <1> QED
    BY <1>3, <1>5, <1>6 DEF t

\* A step of the parser that is about no instruction is led.
LEMMA PlainLed ==
    ASSUME TypeOK, FreshInv, NEW v, NEW more, Plain(v, more),
           NEW d, Known(d, parsed')
    PROVE  Led(more, d)
  <1>0. /\ agenda # << >> /\ head \in Goals /\ Unfolds(v, more)
        /\ head.kind \notin {"opcode", "callArguments", "push"}
        /\ head.path \in Path /\ Grows(Filled, Sized)
        /\ \A k \in Filled : parsed'.val[k] = v
        /\ \A k \in Sized : k[2] # "objects" => parsed'.len[k] = v
    BY HeadTyped DEF Plain, Goals
  <1>1. ASSUME head.kind \in Readings \ {"string"}
        PROVE  Value(d, head.path, head.field) = v
    <2>1. Filled = {<<head.path, head.field>>}
      BY <1>1 DEF Filled
    <2>2. /\ <<head.path, head.field>> \in DOMAIN parsed'.val
          /\ parsed'.val[<<head.path, head.field>>] = v
      BY <1>0, <2>1 DEF Grows, Extends
    <2> QED
      BY <2>2 DEF Known
  <1>2. CASE head.kind \in {"magic", "u8", "u16", "u32", "u64", "payload", "objectEnd"}
    <2>1. more = << >>
      BY <1>0, <1>2 DEF Unfolds
    <2>2. Leads(head, d) = {}
      BY <1>2 DEF Leads
    <2> QED
      BY <2>1, <2>2, OfFew DEF Led
  <1>3. CASE head.kind = "string"
    <2>1. more = IF v = 0 THEN << >> ELSE <<Goal("payload", head.path, head.field, v)>>
      BY <1>0, <1>3 DEF Unfolds
    <2>2. head.field # "objects" /\ head.field # "arguments"
      <3>1. <<head.kind, head.field>> \in Members
        BY <1>0, <1>3 DEF Goals, Width
      <3> QED
        BY <1>3, <3>1 DEF Members
    <2>3. Sized = {<<head.path, head.field>>}
      BY <1>3 DEF Sized
    <2>4. /\ <<head.path, head.field>> \in DOMAIN parsed'.len
          /\ parsed'.len[<<head.path, head.field>>] = v
      BY <1>0, <2>2, <2>3 DEF Grows, Extends
    <2>5. Size(d, head.path, head.field) = v
      BY <2>2, <2>4 DEF Known
    <2>6. Leads(head, d) = IF v = 0 THEN {} ELSE {Goal("payload", head.path, head.field, v)}
      BY <1>3, <2>5 DEF Leads
    <2> QED
      BY <2>1, <2>6, OfFew DEF Led
  <1>4. CASE head.kind = "count"
    <2>1. more = <<Goal("loop", head.path, head.field, 0)>>
      BY <1>0, <1>4 DEF Unfolds
    <2>2. Leads(head, d) = {Goal("loop", head.path, head.field, 0)}
      BY <1>4 DEF Leads
    <2> QED
      BY <2>1, <2>2, OfFew DEF Led
  <1>5. CASE head.kind = "loop"
    <2>1. more = IF head.n < Value(parsed, head.path, head.field) THEN NextGoals ELSE << >>
      BY <1>0, <1>5 DEF Unfolds
    <2>2. Value(d, head.path, head.field) = Value(parsed, head.path, head.field)
      <3>1. <<head.path, head.field>> \in DOMAIN parsed.val
        <4>1. 1 \in DOMAIN agenda /\ agenda[1] = head
          BY <1>0 DEF TypeOK, head
        <4> QED
          BY <1>5, <4>1 DEF FreshInv, Prepared
      <3>2. Filled = {}
        BY <1>5 DEF Filled, Readings, Width
      <3>3. /\ <<head.path, head.field>> \in DOMAIN parsed'.val
            /\ parsed'.val[<<head.path, head.field>>] = parsed.val[<<head.path, head.field>>]
        BY <1>0, <3>1, <3>2 DEF Grows, Extends
      <3> QED
        BY <3>1, <3>3 DEF Known, Value
    <2>3. Leads(head, d) = IF head.n < Value(parsed, head.path, head.field)
                           THEN Turn(head) ELSE {}
      BY <1>5, <2>2 DEF Leads
    <2> DEFINE a == Reads(Vector[head.field].element,
                          Child(head.path, Vector[head.field].name, head.n + 1))
               b == <<Successor>>
    <2>4. a \in Seq(Goals) /\ b \in Seq(Goals)
      <3>1. head.field \in DOMAIN Vector /\ head.n \in Nat
        BY <1>0, <1>5 DEF Goals
      <3>2. Child(head.path, Vector[head.field].name, head.n + 1) \in Path
        BY <1>0, <3>1, ChildTyped, VectorTyped
      <3>3. Successor \in Goals
        BY <1>0, <1>5, <3>1 DEF Goals, Successor, Width
      <3> QED
        BY <3>1, <3>2, <3>3, VectorTyped, ReadsTyped, OneGoal
    <2>5. Of(b) = {Successor} /\ Turn(head) = Of(a) \cup {Successor}
      BY OfFew DEF Turn, Successor
    <2>6. NextGoals = Then(a, b)
      BY DEF NextGoals
    <2> HIDE DEF a, b
    <2>7. Of(NextGoals) = Turn(head)
      BY <2>4, <2>5, <2>6, OfThen
    <2> QED
      BY <2>1, <2>3, <2>7, OfFew DEF Led
  <1>6. CASE head.kind = "debugFlag"
    <2>1. more = IF v = 0 THEN << >> ELSE Reads(DebugTable, head.path)
      BY <1>0, <1>6 DEF Unfolds
    <2>2. Leads(head, d) = IF v = 0 THEN {} ELSE Of(Reads(DebugTable, head.path))
      BY <1>1, <1>6 DEF Leads, Readings, Width
    <2> QED
      BY <2>1, <2>2, OfFew DEF Led
  <1>7. CASE head.kind = "objectSize"
    <2>1. PICK n \in Nat : more = Then(Reads(ReadObjectData, head.path),
                                       <<Goal("objectEnd", head.path, "size", n)>>)
      BY <1>0, <1>7 DEF Unfolds
    <2> DEFINE g == Goal("objectEnd", head.path, "size", n)
               a == Reads(ReadObjectData, head.path)
               b == <<g>>
    <2>2. b \in Seq(Goals) /\ g.kind = "objectEnd"
      <3>1. "size" \in Fields
        <4>1. <<"objectSize", "size">> \in Members
          BY DEF Members
        <4> QED
          BY <4>1 DEF Fields
      <3> QED
        BY <1>0, <3>1, GoalTyped DEF Goal
    <2>3. a \in Seq(Goals)
      BY <1>0, ObjectDataTyped, ReadsTyped
    <2>4. Of(b) = {g} /\ Leads(head, d) = Of(a)
      BY <1>7, OfFew DEF Leads
    <2>5. more = Then(a, b)
      BY <2>1
    <2>6. Of(b) \subseteq Ends
      <3> HIDE DEF g
      <3>1. Of(b) \subseteq Goals
        BY <2>2, OfTyped
      <3> QED
        BY <2>2, <2>4, <3>1 DEF Ends
    <2> HIDE DEF a, b, g
    <2>7. Of(more) = Of(a) \cup Of(b)
      BY <2>2, <2>3, <2>5, OfThen
    <2> QED
      BY <2>4, <2>6, <2>7 DEF Led
  <1>8. CASE head.kind = "propertyFlags"
    <2> DEFINE a == AutoGoals(v)
               b == HandlerGoals(v, 1, "readHandler")
               c == HandlerGoals(v, 2, "writeHandler")
    <2>1. more = Then(Then(a, b), c)
      BY <1>0, <1>8 DEF Unfolds
    <2>2. a \in Seq(Goals)
      <3> DEFINE body == << <<"u16", "autoVarName">> >>
      <3>1. body \in Seq(Reading)
        BY OptionsTyped
      <3> HIDE DEF body
      <3>2. Reads(body, head.path) \in Seq(Goals) /\ << >> \in Seq(Goals)
        BY <1>0, <3>1, ReadsTyped
      <3>3. a = IF HasBit(v, 4) THEN Reads(body, head.path) ELSE << >>
        BY DEF AutoGoals, body
      <3> QED
        BY <3>2, <3>3
    <2>3. \A bit, name : name \in Parts => HandlerGoals(v, bit, name) \in Seq(Goals)
      <3>1. ASSUME NEW bit, NEW name \in Parts PROVE HandlerGoals(v, bit, name) \in Seq(Goals)
        <4>1. Child(head.path, name, 0) \in Path
          BY <1>0, ChildTyped
        <4>2. Reads(ReadFunction, Child(head.path, name, 0)) \in Seq(Goals)
          BY <4>1, FunctionTyped, ReadsTyped
        <4> QED
          BY <4>2 DEF HandlerGoals
      <3> QED
        BY <3>1
    <2>4. b \in Seq(Goals) /\ c \in Seq(Goals)
      <3>1. "readHandler" \in Parts /\ "writeHandler" \in Parts
        BY DEF Parts
      <3> QED
        BY <2>3, <3>1
    <2>5. /\ Of(b) = Handler(head.path, v, 1, "readHandler")
          /\ Of(c) = Handler(head.path, v, 2, "writeHandler")
      BY OfFew DEF HandlerGoals, Handler
    <2>6. Of(a) = IF HasBit(v, 4)
                  THEN Of(Reads(<< <<"u16", "autoVarName">> >>, head.path)) ELSE {}
      BY OfFew DEF AutoGoals
    <2>7. Leads(head, d) = Flagged(head.path, v)
      BY <1>1, <1>8 DEF Leads, Readings, Width
    <2>8. Flagged(head.path, v) = Of(a) \cup Of(b) \cup Of(c)
      BY <2>5, <2>6 DEF Flagged
    <2> HIDE DEF a, b, c
    <2> DEFINE ab == Then(a, b)
    <2>9. ab \in Seq(Goals) /\ Of(ab) = Of(a) \cup Of(b)
      BY <2>2, <2>4, ThenTyped, OfThen
    <2>10. more = Then(ab, c)
      BY <2>1
    <2> HIDE DEF ab
    <2>11. Of(more) = Of(ab) \cup Of(c)
      BY <2>4, <2>9, <2>10, OfThen
    <2> QED
      BY <2>7, <2>8, <2>9, <2>11 DEF Led
  <1>9. CASE head.kind = "type"
    <2>1. more = Reads(ReadVariableData[v], head.path)
      BY <1>0, <1>9 DEF Unfolds
    <2>2. Leads(head, d) = Of(Reads(ReadVariableData[v], head.path))
      BY <1>1, <1>9 DEF Leads, Readings, Width
    <2> QED
      BY <2>1, <2>2 DEF Led
  <1>10. head.kind \in {"magic", "u8", "u16", "u32", "u64", "payload", "objectEnd", "string",
                        "count", "loop", "debugFlag", "objectSize", "propertyFlags", "type"}
    BY <1>0 DEF Goals, Kinds, Width
  <1> QED
    BY <1>2, <1>3, <1>4, <1>5, <1>6, <1>7, <1>8, <1>9, <1>10

\* So is the reading of an opcode,
LEMMA OpensLed ==
    ASSUME NEW v, NEW more, Opens(v, more), NEW d, Known(d, parsed')
    PROVE  Led(more, d)
  <1>1. /\ <<head.path, "op">> \in DOMAIN parsed'.val
        /\ parsed'.val[<<head.path, "op">>] = v
        /\ head.kind = "opcode" /\ head.field = "op"
        /\ more = Then(FirstOf(head.path, HeaderArgumentCount(v)), CallGoal(head.path, v))
    BY DEF Opens, Grows, Extends
  <1>2. Value(d, head.path, head.field) = v
    BY <1>1 DEF Known
  <1>3. Leads(head, d) = Of(Then(FirstOf(head.path, HeaderArgumentCount(v)),
                                 CallGoal(head.path, v)))
    BY <1>1, <1>2 DEF Leads
  <1> QED
    BY <1>1, <1>3 DEF Led

\* ... of the further arguments of a call,
LEMMA FurthersLed ==
    ASSUME TypeOK, FreshInv, NEW count, NEW more, Furthers(count, more),
           NEW d, Argued(d, parsed', agenda')
    PROVE  Led(more, d)
  <1>1. /\ head.kind = "callArguments" /\ head.path \in Path /\ head.n \in Nat
        /\ count \in Nat /\ more = Further(head.path, head.n, count)
        /\ <<head.path, "arguments">> \in DOMAIN parsed'.len
        /\ parsed'.len[<<head.path, "arguments">>] = head.n
    BY DEF Furthers, Grows, Extends
  <1>2. ~InLocals(agenda', head.path) /\ Pushes(agenda', head.path) = count
    BY FurthersLocals
  <1>3. Size(d, head.path, "arguments") = head.n + count
    BY <1>1, <1>2 DEF Argued
  <1>4. Size(d, head.path, "arguments") - head.n = count
    BY <1>1, <1>3
  <1>5. Leads(head, d) = Of(Further(head.path, head.n, count))
    BY <1>1, <1>4 DEF Leads
  <1> QED
    BY <1>1, <1>5 DEF Led

\* ... and a push.
LEMMA PushingLed ==
    ASSUME Pushing, NEW d
    PROVE  Led(<< >>, d)
  <1>1. Leads(head, d) = {}
    BY DEF Pushing, Leads
  <1> QED
    BY <1>1, OfFew DEF Led

\* So every step of the parser is led by all data it may end with, and it sets
\* what its goal is there to set.
LEMMA ReadStepLed ==
    ASSUME TypeOK, FreshInv, ReadStep
    PROVE  \E more \in Seq(Goals) :
              /\ agenda # << >> /\ agenda' = Then(more, Tail(agenda))
              /\ Grows(Fills(head), Measures(head))
              /\ \A d : Fit(d, parsed', agenda') => Led(more, d)
  <1>1. CASE \E v, more : Plain(v, more)
    <2>1. PICK v, more : Plain(v, more)
      BY <1>1
    <2>2. /\ more \in Seq(Goals) /\ agenda # << >> /\ agenda' = Then(more, Tail(agenda))
          /\ Grows(Filled, Sized) /\ head.kind \notin {"opcode", "callArguments", "push"}
      BY <2>1 DEF Plain, Straight
    <2>3. Filled = Fills(head)
      BY DEF Filled, Fills
    <2>4. Sized = Measures(head)
      BY <2>2 DEF Sized, Measures
    <2>5. \A d : Fit(d, parsed', agenda') => Led(more, d)
      BY <2>1, PlainLed DEF Fit
    <2> QED
      BY <2>2, <2>3, <2>4, <2>5
  <1>2. CASE ReadOpcode
    <2>1. PICK v, more : Opens(v, more)
      BY <1>2, ReadOpcodeOpens
    <2>2. Fills(head) = {<<head.path, "op">>} /\ Measures(head) = {<<head.path, "arguments">>}
      BY <2>1 DEF Opens, Fills, Measures, Readings, Width
    <2>3. \A d : Fit(d, parsed', agenda') => Led(more, d)
      BY <2>1, OpensLed DEF Fit
    <2> QED
      BY <2>1, <2>2, <2>3 DEF Opens
  <1>3. CASE ReadCallArguments
    <2>1. PICK count, more : Furthers(count, more)
      BY <1>3, ReadCallArgumentsFurthers
    <2>2. Fills(head) = {} /\ Measures(head) = {<<head.path, "arguments">>}
      BY <2>1 DEF Furthers, Fills, Measures, Readings, Width
    <2>3. \A d : Fit(d, parsed', agenda') => Led(more, d)
      BY <2>1, FurthersLed DEF Fit
    <2> QED
      BY <2>1, <2>2, <2>3 DEF Furthers
  <1>4. CASE PushArgument
    <2>1. Pushing
      BY <1>4, PushArgumentPushes
    <2>2. Fills(head) = {} /\ Measures(head) = {<<head.path, "arguments">>}
      BY <2>1 DEF Pushing, Fills, Measures, Readings, Width
    <2>3. \A d : Fit(d, parsed', agenda') => Led(<< >>, d)
      BY <2>1, PushingLed
    <2>4. << >> \in Seq(Goals)
      OBVIOUS
    <2> QED
      BY <2>1, <2>2, <2>3, <2>4 DEF Pushing
  <1> QED
    BY <1>1, <1>2, <1>3, <1>4, PlainStep

-----------------------------------------------------------------------------
(* Whatever a Load visits *)

Closed(G, d) ==
    /\ G \subseteq Goals /\ Of(Load) \subseteq G /\ Ends \subseteq G
    /\ \A g \in G : Leads(g, d) \subseteq G

\* Every member of d that is not 0 is one that a Load of d sets: it belongs to
\* a goal in each closed set.
Grounded(d) ==
    \A G : Closed(G, d) =>
        /\ \A k \in DOMAIN d.val : d.val[k] # 0 => \E g \in G : k \in Fills(g)
        /\ \A k \in DOMAIN d.len : d.len[k] # 0 => \E g \in G : k \in Measures(g)

\* The goals H are done: with those still to do they lead nowhere else, what
\* is set is what they set, and for data d no Load could do without them.
Visits(H, p, goals, d) ==
    /\ H \subseteq Goals /\ Ends \subseteq H
    /\ Of(Load) \subseteq H \cup Of(goals)
    /\ \A g \in H : Leads(g, d) \subseteq H \cup Of(goals)
    /\ \A g \in H : Fills(g) \subseteq DOMAIN p.val /\ Measures(g) \subseteq DOMAIN p.len
    /\ \A k \in DOMAIN p.val : \E g \in H : k \in Fills(g)
    /\ \A k \in DOMAIN p.len : \E g \in H : k \in Measures(g)
    /\ \A G : Closed(G, d) => H \cup Of(goals) \subseteq G

Walked(p, goals) ==
    \A d : Good(d) /\ Fit(d, p, goals) => \E H : Visits(H, p, goals, d)

\* A Load begins with nothing visited but the ends.
LEMMA LoadWalks == Walked(EmptyData, Load)
  <1>1. Of(Load) \subseteq Goals
    BY LoadStraight, OfTyped DEF Straight
  <1>2. \A g \in Ends : Fills(g) = {} /\ Measures(g) = {}
    BY DEF Ends, Fills, Measures, Readings, Width
  <1>3. \A d : \A g \in Ends : Leads(g, d) = {}
    BY DEF Ends, Leads
  <1>4. \A d : Visits(Ends, EmptyData, Load, d)
    BY <1>1, <1>2, <1>3 DEF Visits, Closed, EmptyData, Ends
  <1> QED
    BY <1>4 DEF Walked

\* A step visits its goal.
LEMMA VisitStep ==
    ASSUME TypeOK, agenda # << >>, NEW more \in Seq(Goals),
           agenda' = Then(more, Tail(agenda)), Grows(Fills(head), Measures(head)),
           NEW d, Led(more, d), NEW H, Visits(H, parsed, agenda, d)
    PROVE  Visits(H \cup {head}, parsed', agenda', d)
  <1> DEFINE t == Of(Tail(agenda))
             m == Of(more)
             I == H \cup {head}
  <1>1. /\ Of(agenda') = m \cup t /\ Of(agenda) = {head} \cup t /\ head \in Goals
        /\ Leads(head, d) \subseteq m /\ m \subseteq Leads(head, d) \cup Ends
    BY OfStep, HeadTyped DEF Led
  <1>2. /\ DOMAIN parsed'.val = DOMAIN parsed.val \cup Fills(head)
        /\ DOMAIN parsed'.len = DOMAIN parsed.len \cup Measures(head)
    BY DEF Grows, Extends
  <1> HIDE DEF t, m
  <1>3. /\ H \subseteq Goals /\ Ends \subseteq H
        /\ Of(Load) \subseteq H \cup Of(agenda)
        /\ \A g \in H : Leads(g, d) \subseteq H \cup Of(agenda)
        /\ \A g \in H : Fills(g) \subseteq DOMAIN parsed.val
                          /\ Measures(g) \subseteq DOMAIN parsed.len
        /\ \A k \in DOMAIN parsed.val : \E g \in H : k \in Fills(g)
        /\ \A k \in DOMAIN parsed.len : \E g \in H : k \in Measures(g)
        /\ \A G : Closed(G, d) => H \cup Of(agenda) \subseteq G
    BY DEF Visits
  <1>4. I \subseteq Goals /\ Ends \subseteq I /\ Of(Load) \subseteq I \cup Of(agenda')
    BY <1>1, <1>3
  <1>5. \A g \in I : Leads(g, d) \subseteq I \cup Of(agenda')
    BY <1>1, <1>3
  <1>6. \A g \in I : Fills(g) \subseteq DOMAIN parsed'.val
                       /\ Measures(g) \subseteq DOMAIN parsed'.len
    BY <1>2, <1>3
  <1>7. \A k \in DOMAIN parsed'.val : \E g \in I : k \in Fills(g)
    BY <1>2, <1>3
  <1>8. \A k \in DOMAIN parsed'.len : \E g \in I : k \in Measures(g)
    BY <1>2, <1>3
  <1>9. ASSUME NEW G, Closed(G, d) PROVE I \cup Of(agenda') \subseteq G
    <2>1. H \cup {head} \cup t \subseteq G
      BY <1>1, <1>3, <1>9
    <2>2. Leads(head, d) \cup Ends \subseteq G
      BY <1>9, <2>1 DEF Closed
    <2> QED
      BY <1>1, <2>1, <2>2
  <1> QED
    BY <1>4, <1>5, <1>6, <1>7, <1>8, <1>9 DEF Visits

\* So every step of the parser keeps it.
LEMMA ReadStepWalks ==
    ASSUME TypeOK, FreshInv, Narrow, ObjectsComeLast, ReadStep, Walked(parsed, agenda)
    PROVE  Walked(parsed', agenda')
  <1> SUFFICES ASSUME NEW d, Good(d), Fit(d, parsed', agenda')
               PROVE  \E H : Visits(H, parsed', agenda', d)
    BY DEF Walked
  <1>1. Fit(d, parsed, agenda)
    BY ReadStepFollows DEF Follows
  <1>2. PICK H : Visits(H, parsed, agenda, d)
    BY <1>1 DEF Walked
  <1>3. PICK more \in Seq(Goals) :
           /\ agenda # << >> /\ agenda' = Then(more, Tail(agenda))
           /\ Grows(Fills(head), Measures(head)) /\ Led(more, d)
    BY ReadStepLed
  <1>4. Visits(H \cup {head}, parsed', agenda', d)
    BY <1>2, <1>3, VisitStep
  <1> QED
    BY <1>4

\* When all is done, the visited goals are closed,
LEMMA AllVisited ==
    ASSUME NEW p, NEW d, NEW H, Visits(H, p, << >>, d)
    PROVE  Closed(H, d)
  <1>1. Of(<< >>) = {}
    BY OfFew
  <1> QED
    BY <1>1 DEF Visits, Closed

\* ... and the data that were parsed are grounded.
LEMMA ParsedIsGrounded ==
    ASSUME VectorInv, agenda = << >>, Walked(parsed, agenda)
    PROVE  Grounded(parsed)
  <1>1. Good(parsed) /\ Fit(parsed, parsed, agenda)
    BY ParsedIsGood
  <1>2. PICK H : Visits(H, parsed, agenda, parsed)
    BY <1>1 DEF Walked
  <1>3. /\ \A k \in DOMAIN parsed.val : \E g \in H : k \in Fills(g)
        /\ \A k \in DOMAIN parsed.len : \E g \in H : k \in Measures(g)
        /\ \A G : Closed(G, parsed) => H \subseteq G
    BY <1>2 DEF Visits
  <1> QED
    BY <1>3 DEF Grounded

\* So are no data.
LEMMA NothingIsGrounded == Grounded(EmptyData)
  BY DEF Grounded, EmptyData

\* A Load that has read all of what was written for d has set each member of d
\* that is not 0, and to what it is in d.
LEMMA SameNormal ==
    ASSUME VectorInv, agenda = << >>, Walked(parsed, agenda),
           NEW d, Sound(d), Grounded(d), Fit(d, parsed, agenda)
    PROVE  Normal(parsed) = Normal(d)
  <1>1. Good(d) /\ Matched(d) /\ IsData(d) /\ Good(parsed) /\ Even(d) /\ Even(parsed)
        /\ IsData(parsed) /\ Matched(parsed)
    BY SoundIs, ParsedIsGood DEF Sound, Good, VectorInv, ParseInv
  <1>2. PICK H : Visits(H, parsed, agenda, d)
    BY <1>1 DEF Walked
  <1>3. Closed(H, d)
    BY <1>2, AllVisited
  <1>4. /\ H \subseteq Goals
        /\ \A g \in H : Fills(g) \subseteq DOMAIN parsed.val
                          /\ Measures(g) \subseteq DOMAIN parsed.len
        /\ \A k \in DOMAIN parsed.val : \E g \in H : k \in Fills(g)
        /\ \A k \in DOMAIN parsed.len : \E g \in H : k \in Measures(g)
    BY <1>2 DEF Visits
  <1>5. \A k \in DOMAIN d.val : d.val[k] # 0 => k \in DOMAIN parsed.val
    BY <1>3, <1>4 DEF Grounded
  <1>6. \A k \in DOMAIN d.len : d.len[k] # 0 => k \in DOMAIN parsed.len
    BY <1>3, <1>4 DEF Grounded
  <1>7. ASSUME NEW k \in DOMAIN parsed.val
        PROVE  IF k \in DOMAIN d.val THEN d.val[k] = parsed.val[k] ELSE parsed.val[k] = 0
    <2>1. PICK g \in H : k \in Fills(g)
      BY <1>4, <1>7
    <2>2. k = <<g.path, g.field>>
      BY <2>1 DEF Fills
    <2>3. Value(d, g.path, g.field) = parsed.val[<<g.path, g.field>>]
      BY <1>7, <2>2 DEF Fit, Known
    <2> QED
      BY <2>2, <2>3 DEF Value
  <1>8. ASSUME NEW k \in DOMAIN parsed.len
        PROVE  IF k \in DOMAIN d.len THEN d.len[k] = parsed.len[k] ELSE parsed.len[k] = 0
    <2>1. PICK g \in H : k \in Measures(g)
      BY <1>4, <1>8
    <2>2. PICK q, f : k = <<q, f>> /\ q \in Path
      <3>1. g.path \in Path
        BY <1>4, <2>1 DEF Goals
      <3>2. << >> \in Path
        BY DEF Path
      <3> QED
        BY <2>1, <3>1, <3>2 DEF Measures
    <2>3. Size(d, q, f) = parsed.len[<<q, f>>]
      <3>1. CASE f = "arguments"
        <4>1. ~InLocals(agenda, q)
          BY DEF InLocals
        <4>2. Pushes(agenda, q) = 0
          <5>1. << >> \in Seq(Goals) /\ DOMAIN << >> = {}
            OBVIOUS
          <5> QED
            BY <5>1, NoPushesAmong
        <4>3. parsed.len[<<q, "arguments">>] \in Nat
          BY <1>1, <1>8, <2>2, <3>1 DEF IsData
        <4>4. Size(d, q, "arguments") = parsed.len[<<q, "arguments">>] + Pushes(agenda, q)
          BY <1>8, <2>2, <3>1, <4>1 DEF Fit, Argued
        <4> QED
          BY <3>1, <4>2, <4>3, <4>4
      <3>2. CASE f = "objects"
        <4>1. q = << >>
          BY <1>1, <1>8, <2>2, <3>2 DEF Matched
        <4>2. /\ HasCount(<< >>, "objectCount") /\ "objectCount" \in DOMAIN Vector
              /\ Vector["objectCount"].name = "objects"
          BY VectorDomain, VectorNamesAre DEF HasCount
        <4>3. /\ Value(d, << >>, "objectCount") = Size(d, << >>, "objects")
              /\ Value(parsed, << >>, "objectCount") = Size(parsed, << >>, "objects")
          BY <1>1, <4>2 DEF Even
        <4>4. Value(d, << >>, "objectCount") = Value(parsed, << >>, "objectCount")
          BY <1>5 DEF Value, Fit, Known
        <4> QED
          BY <1>8, <2>2, <3>2, <4>1, <4>3, <4>4 DEF Size
      <3> QED
        BY <1>8, <2>2, <3>1, <3>2 DEF Fit, Known
    <2> QED
      BY <2>2, <2>3 DEF Size
  <1>9. {x \in DOMAIN parsed.val : parsed.val[x] # 0} = {x \in DOMAIN d.val : d.val[x] # 0}
    BY <1>5, <1>7
  <1>10. {x \in DOMAIN parsed.len : parsed.len[x] # 0} = {x \in DOMAIN d.len : d.len[x] # 0}
    BY <1>6, <1>8
  <1>11. [k \in {x \in DOMAIN parsed.val : parsed.val[x] # 0} |-> parsed.val[k]]
           = [k \in {x \in DOMAIN d.val : d.val[x] # 0} |-> d.val[k]]
    BY <1>7, <1>9
  <1>12. [k \in {x \in DOMAIN parsed.len : parsed.len[x] # 0} |-> parsed.len[k]]
           = [k \in {x \in DOMAIN d.len : d.len[x] # 0} |-> d.len[k]]
    BY <1>8, <1>10
  <1> QED
    BY <1>11, <1>12, Zenon DEF Normal

\* A Load reads the magic and the number of strings, whatever else.
LEMMA LoadReads ==
    /\ Goal("magic", << >>, "magic", 0) \in Of(Load)
    /\ Goal("count", << >>, "count", 0) \in Of(Load)
  <1> DEFINE s == ReadHeader \o ReadStringTable \o ReadDebugInfo \o ReadUserFlags \o ReadObjects
  <1>1. /\ 1 \in DOMAIN s /\ s[1] = <<"magic", "magic">>
        /\ 9 \in DOMAIN s /\ s[9] = <<"count", "count">>
    BY DEF ReadHeader, ReadStringTable, ReadDebugInfo, ReadUserFlags, ReadObjects
  <1>2. Load = Reads(s, << >>)
    BY DEF Load
  <1> HIDE DEF s
  <1>3. /\ 1 \in DOMAIN Load /\ Load[1] = Goal("magic", << >>, "magic", 0)
        /\ 9 \in DOMAIN Load /\ Load[9] = Goal("count", << >>, "count", 0)
    BY <1>1, <1>2 DEF Reads
  <1> QED
    BY <1>3 DEF Of

\* A set that is closed for d has the reads of all its strings.
LEMMA StringsRead ==
    ASSUME NEW d, IsData(d), NEW G, Closed(G, d), NEW i \in 1..Value(d, << >>, "count")
    PROVE  Goal("string", Child(<< >>, "strings", i), "bytes", 0) \in G
  <1> DEFINE loop(n) == Goal("loop", << >>, "count", n)
             top == Goal("count", << >>, "count", 0)
             all == Value(d, << >>, "count")
             P == {n \in Nat : n <= all => loop(n) \in G}
  <1>0. /\ all \in Nat /\ Vector["count"].name = "strings"
        /\ Vector["count"].element = << <<"string", "bytes">> >>
    BY ValueTyped DEF Vector
  <1>1. loop(0) \in G
    <2>1. top \in G
      BY LoadReads DEF Closed
    <2>2. Leads(top, d) = {loop(0)}
      BY DEF Leads, Goal
    <2> QED
      BY <2>1, <2>2 DEF Closed
  <1>2. ASSUME NEW n \in Nat, loop(n) \in G, n < all
        PROVE  /\ loop(n + 1) \in G
               /\ Goal("string", Child(<< >>, "strings", n + 1), "bytes", 0) \in G
    <2>1. Leads(loop(n), d) = Turn(loop(n))
      BY <1>2 DEF Leads, Goal
    <2>2. Turn(loop(n)) = Of(Reads(<< <<"string", "bytes">> >>, Child(<< >>, "strings", n + 1)))
                            \cup {loop(n + 1)}
      BY <1>0 DEF Turn, Goal
    <2>3. Reads(<< <<"string", "bytes">> >>, Child(<< >>, "strings", n + 1))
            = <<Goal("string", Child(<< >>, "strings", n + 1), "bytes", 0)>>
      BY DEF Reads
    <2> QED
      BY <1>2, <2>1, <2>2, <2>3, OfFew DEF Closed
  <1>3. \A n \in Nat : n \in P
    <2>1. 0 \in P
      BY <1>1
    <2>2. \A n \in Nat : n \in P => n + 1 \in P
      <3> SUFFICES ASSUME NEW n \in Nat, n \in P, n + 1 <= all PROVE loop(n + 1) \in G
        OBVIOUS
      <3>1. n < all /\ loop(n) \in G
        BY <1>0
      <3> QED
        BY <1>2, <3>1
    <2> HIDE DEF P
    <2> QED
      BY <2>1, <2>2, NatSetInduction
  <1> DEFINE j == i - 1
  <1>4. j \in Nat /\ j < all /\ j <= all /\ j + 1 = i
    BY <1>0
  <1> HIDE DEF j
  <1>5. j \in P
    BY <1>3, <1>4
  <1>6. loop(j) \in G
    BY <1>4, <1>5
  <1> QED
    BY <1>2, <1>4, <1>6

\* The data d and e differ at most in the string at the path.
ButForString(d, e, path) ==
    \A q, f : f # "bytes" \/ q # path =>
        Value(e, q, f) = Value(d, q, f) /\ Size(e, q, f) = Size(d, q, f)

\* What a goal leads to hangs on no string but the one it reads.
LEMMA LeadsElsewhere ==
    ASSUME NEW d, NEW e, NEW path, ButForString(d, e, path),
           NEW g \in Goals, ~(g.kind = "string" /\ g.path = path /\ g.field = "bytes")
    PROVE  Leads(g, e) = Leads(g, d)
  <1>1. g.kind \in {"loop", "debugFlag", "propertyFlags", "type", "opcode"} =>
           g.field # "bytes"
    <2>1. g.kind = "loop" => g.field \in DOMAIN Vector
      BY DEF Goals
    <2>2. g.kind \in {"debugFlag", "propertyFlags", "type", "opcode"} =>
             <<g.kind, g.field>> \in Members
      BY DEF Goals, Width
    <2> QED
      BY <2>1, <2>2, VectorDomain DEF Members
  <1>2. g.kind \in {"loop", "debugFlag", "propertyFlags", "type", "opcode"} =>
           Value(e, g.path, g.field) = Value(d, g.path, g.field)
    BY <1>1 DEF ButForString
  <1>3. /\ Size(e, g.path, "arguments") = Size(d, g.path, "arguments")
        /\ g.kind = "string" => Size(e, g.path, g.field) = Size(d, g.path, g.field)
    BY DEF ButForString
  <1>4. CASE g.kind \in {"loop", "debugFlag", "propertyFlags", "type", "opcode"}
    BY <1>2, <1>4 DEF Leads
  <1>5. CASE g.kind = "string"
    BY <1>3, <1>5 DEF Leads
  <1>6. CASE g.kind = "callArguments"
    BY <1>3, <1>6 DEF Leads
  <1>7. CASE g.kind \notin {"loop", "debugFlag", "propertyFlags", "type", "opcode",
                            "string", "callArguments"}
    BY <1>7 DEF Leads
  <1> QED
    BY <1>4, <1>5, <1>6, <1>7

\* A replaced string leaves the data grounded: if it is not empty, its bytes
\* are read after its length.
LEMMA ReplacedIsGrounded ==
    ASSUME IsData(inst), Grounded(inst), NEW i \in 1..Value(inst, << >>, "count"),
           NEW s \in NewStrings
    PROVE  Grounded(ReplaceString(i, s))
  <1> DEFINE new == ReplaceString(i, s)
             path == Child(<< >>, "strings", i)
             key == <<path, "bytes">>
             P == {g \in Goals : g.kind = "payload" /\ g.path = path /\ g.field = "bytes"}
             S == Goal("string", path, "bytes", 0)
  <1>1. /\ new.val = Put(inst.val, key, s.value) /\ new.len = Put(inst.len, key, s.length)
        /\ s.length \in Nat /\ s.value \in Nat /\ (s.length = 0 => s.value = 0)
        /\ new = [val |-> new.val, len |-> new.len]
    BY NewStringsAssumption DEF ReplaceString
  <1> SUFFICES ASSUME NEW G, Closed(G, new)
               PROVE  /\ \A k \in DOMAIN new.val : new.val[k] # 0 => \E g \in G : k \in Fills(g)
                      /\ \A k \in DOMAIN new.len : new.len[k] # 0 => \E g \in G : k \in Measures(g)
    BY Zenon DEF Grounded
  <1> HIDE DEF new
  <1>2. /\ DOMAIN new.val = DOMAIN inst.val \cup {key} /\ new.val[key] = s.value
        /\ DOMAIN new.len = DOMAIN inst.len \cup {key} /\ new.len[key] = s.length
        /\ \A k \in DOMAIN inst.val : k # key => new.val[k] = inst.val[k]
        /\ \A k \in DOMAIN inst.len : k # key => new.len[k] = inst.len[k]
    <2> HIDE DEF key
    <2> QED
      BY <1>1 DEF Put
  <1>3. \A q, f : f # "bytes" \/ q # path =>
           Value(new, q, f) = Value(inst, q, f) /\ Size(new, q, f) = Size(inst, q, f)
    <2> SUFFICES ASSUME NEW q, NEW f, f # "bytes" \/ q # path
                 PROVE  /\ Value(new, q, f) = Value(inst, q, f)
                        /\ Size(new, q, f) = Size(inst, q, f)
      OBVIOUS
    <2>1. <<q, f>> # key
      OBVIOUS
    <2> HIDE DEF key
    <2> QED
      BY <1>2, <2>1 DEF Value, Size
  <1>4. IsData(new)
    <2> HIDE DEF key
    <2> QED
      BY <1>1, <1>2 DEF IsData
  <1>5. S \in G
    <2>1. Value(new, << >>, "count") = Value(inst, << >>, "count")
      BY <1>3
    <2> QED
      BY <1>4, <2>1, StringsRead
  <1>6. S.kind = "string" /\ S.path = path /\ S.field = "bytes"
    BY DEF Goal
  <1> HIDE DEF S, path
  <1>7. /\ \A g \in P : Fills(g) = {key} /\ Measures(g) = {} /\ \A d : Leads(g, d) = {}
        /\ P \subseteq Goals
    BY DEF Fills, Measures, Leads, Readings
  <1>8. /\ G \subseteq Goals /\ Of(Load) \subseteq G /\ Ends \subseteq G
        /\ \A g \in G : Leads(g, new) \subseteq G
    BY DEF Closed
  <1>9. Closed(G \cup P, inst)
    <2>1. ASSUME NEW g \in G PROVE Leads(g, inst) \subseteq G \cup P
      <3>1. CASE ~(g.kind = "string" /\ g.path = path /\ g.field = "bytes")
        <4>1. g \in Goals
          BY <1>8
        <4>2. ButForString(inst, new, path)
          BY <1>3 DEF ButForString
        <4>3. Leads(g, new) = Leads(g, inst)
          BY <4>2, <3>1, <4>1, LeadsElsewhere
        <4> QED
          BY <1>8, <4>3
      <3>2. CASE g.kind = "string" /\ g.path = path /\ g.field = "bytes"
        <4> DEFINE n == Size(inst, path, "bytes")
                   h == Goal("payload", path, "bytes", n)
        <4>1. Leads(g, inst) \subseteq {h}
          BY <3>2 DEF Leads
        <4>2. n \in Nat
          BY ValueTyped
        <4> HIDE DEF n
        <4>3. h \in Goals
          <5>1. path \in Path
            BY <1>6, <1>5, <1>8 DEF Goals
          <5>2. <<"payload", "bytes">> \in Members
            BY DEF Members
          <5>3. "bytes" \in Fields /\ "payload" \in Kinds
            BY <5>2 DEF Fields, Kinds
          <5> QED
            BY <4>2, <5>1, <5>2, <5>3 DEF Goals, Goal
        <4>4. h \in P
          BY <4>3 DEF Goal
        <4> QED
          BY <4>1, <4>4
      <3> QED
        BY <3>1, <3>2
    <2> HIDE DEF P
    <2> QED
      BY <1>7, <1>8, <2>1 DEF Closed
  <1> HIDE DEF P
  <1>10. ASSUME NEW k \in DOMAIN new.val, new.val[k] # 0
         PROVE  \E g \in G : k \in Fills(g)
    <2>1. CASE k = key
      <3>1. s.length # 0
        BY <1>1, <1>2, <1>10, <2>1
      <3>2. Size(new, path, "bytes") = s.length
        BY <1>2 DEF Size
      <3> DEFINE h == Goal("payload", path, "bytes", s.length)
      <3>3. Leads(S, new) = {h}
        BY <1>6, <3>1, <3>2 DEF Leads
      <3>4. h \in G
        BY <1>5, <1>8, <3>3
      <3>5. Fills(h) = {key}
        BY DEF Fills, Goal, Readings
      <3> QED
        BY <2>1, <3>4, <3>5
    <2>2. CASE k # key
      <3>1. k \in DOMAIN inst.val /\ inst.val[k] # 0
        BY <1>2, <1>10, <2>2
      <3>2. PICK g \in G \cup P : k \in Fills(g)
        BY <1>9, <3>1 DEF Grounded
      <3> QED
        BY <1>7, <2>2, <3>2
    <2> QED
      BY <2>1, <2>2
  <1>11. ASSUME NEW k \in DOMAIN new.len, new.len[k] # 0
         PROVE  \E g \in G : k \in Measures(g)
    <2>1. CASE k = key
      <3>1. Measures(S) = {key}
        BY <1>6 DEF Measures
      <3> QED
        BY <1>5, <2>1, <3>1
    <2>2. CASE k # key
      <3>1. k \in DOMAIN inst.len /\ inst.len[k] # 0
        BY <1>2, <1>11, <2>2
      <3>2. PICK g \in G \cup P : k \in Measures(g)
        BY <1>9, <3>1 DEF Grounded
      <3> QED
        BY <1>7, <2>2, <3>2
    <2> QED
      BY <2>1, <2>2
  <1> QED
    BY <1>10, <1>11

-----------------------------------------------------------------------------
(* What was saved comes back *)

\* The magic that was read is the right one.
MagicRead ==
    \A q : <<q, "magic">> \in DOMAIN parsed.val => parsed.val[<<q, "magic">>] = Magic

\* The instance and the data last written are grounded, and a Load that runs
\* visits what it must.
Rooted ==
    /\ Grounded(inst) /\ Grounded(written.data)
    /\ load = "parsing" => Walked(parsed, agenda)
    /\ MagicRead

StoreInv == FiledInv /\ Rooted

\* A step of the parser reads no other magic.
LEMMA ReadStepMagic ==
    ASSUME TypeOK, FreshInv, ReadStep, MagicRead
    PROVE  MagicRead'
  <1> SUFFICES ASSUME NEW q, <<q, "magic">> \in DOMAIN parsed'.val
               PROVE  parsed'.val[<<q, "magic">>] = Magic
    BY DEF MagicRead
  <1>1. /\ agenda # << >> /\ head \in Goals /\ Extends(parsed'.val, parsed.val, Fills(head))
    BY ReadStepLed, HeadTyped DEF Grows
  <1>2. CASE <<q, "magic">> \in Fills(head)
    <2>1. head.kind \in Readings /\ head.field = "magic" /\ head.path = q
      BY <1>2 DEF Fills
    <2>2. <<head.kind, head.field>> \in Members
      BY <1>1, <2>1 DEF Goals, Readings
    <2>3. head.kind = "magic"
      BY <2>1, <2>2, VectorDomain DEF Members
    <2>4. ReadScalar
      BY <2>3 DEF ReadStep, ReadLength, ReadCount, NextElement, ReadDebugFlag,
         ReadObjectSize, ObjectEnds, ReadPropertyFlags, ReadType, ReadOpcode,
         ReadCallArguments, PushArgument, At
    <2>5. PICK v : parsed' = WithValue(v) /\ ~Rejects(v)
      BY <2>4 DEF ReadScalar, Consume
    <2>6. v = Magic
      BY <2>3, <2>5 DEF Rejects
    <2>7. parsed'.val[<<head.path, head.field>>] = v
      BY <2>5, GrowsByValue
    <2> QED
      BY <2>1, <2>6, <2>7
  <1>3. CASE <<q, "magic">> \notin Fills(head)
    <2>1. /\ <<q, "magic">> \in DOMAIN parsed.val
          /\ parsed'.val[<<q, "magic">>] = parsed.val[<<q, "magic">>]
      BY <1>1, <1>3 DEF Extends
    <2> QED
      BY <2>1 DEF MagicRead
  <1> QED
    BY <1>2, <1>3

\* The steps of Load keep it,
LEMMA LoadRoots ==
    ASSUME StoreInv, PlaceFileHere \/ CallLoad \/ ContinueLoad
    PROVE  Rooted'
  <1>1. /\ TypeOK /\ FreshInv /\ Narrow /\ ObjectsComeLast /\ VectorInv
        /\ Grounded(inst) /\ Grounded(written.data) /\ MagicRead
        /\ load = "parsing" => Walked(parsed, agenda)
    BY DEF StoreInv, Rooted, FiledInv, DataInv, CodecInv, VectorInv, ParseInv
  <1>2. CASE PlaceFileHere
    <2>1. written' = Foreign /\ load' = load /\ load # "parsing" /\ UNCHANGED <<parsed, inst>>
      BY <1>2 DEF PlaceFileHere, PlaceFile, Idle
    <2>2. written'.data = EmptyData
      BY <2>1 DEF Foreign, Written
    <2> QED
      BY <1>1, <2>1, <2>2, NothingIsGrounded DEF Rooted, MagicRead
  <1>3. CASE CallLoad
    <2>1. UNCHANGED <<inst, written>> /\ (OpenFile \/ RefuseFile)
      BY <1>3 DEF CallLoad, saveVars, OpenFile, RefuseFile
    <2>2. CASE OpenFile
      <3>1. agenda' = Load /\ parsed' = EmptyData
        BY <2>2 DEF OpenFile
      <3>2. MagicRead'
        BY <3>1 DEF MagicRead, EmptyData
      <3> QED
        BY <1>1, <2>1, <3>1, <3>2, LoadWalks DEF Rooted
    <2>3. CASE RefuseFile
      <3>1. load' = "failed" /\ parsed' = parsed
        BY <2>3 DEF RefuseFile
      <3> QED
        BY <1>1, <2>1, <3>1 DEF Rooted, MagicRead
    <2> QED
      BY <2>1, <2>2, <2>3
  <1>4. CASE ContinueLoad
    <2>1. written' = written /\ LoadStep
      BY <1>4 DEF ContinueLoad, saveVars
    <2>2. CASE ReadStep
      <3>1. load = "parsing"
        BY <1>1, <2>2, ReadStepFollows
      <3>2. Walked(parsed', agenda') /\ MagicRead'
        BY <1>1, <2>2, <3>1, ReadStepWalks, ReadStepMagic
      <3>3. inst' = inst
        BY <2>2 DEF ReadStep, ReadScalar, ReadLength, ReadCount, NextElement, ReadDebugFlag,
           ReadObjectSize, ObjectEnds, ReadPropertyFlags, ReadType, ReadOpcode,
           ReadCallArguments, PushArgument, Consume
      <3> QED
        BY <1>1, <2>1, <3>2, <3>3 DEF Rooted
    <2>3. CASE Throw
      <3>1. load' = "failed" /\ parsed' = EmptyData /\ inst' = inst
        BY <2>3 DEF Throw, ReadFails, ValueRefused, ObjectSizeMismatch, CallRefused, EndCall
      <3>2. MagicRead'
        BY <3>1 DEF MagicRead, EmptyData
      <3> QED
        BY <1>1, <2>1, <3>1, <3>2 DEF Rooted
    <2>4. CASE Commit
      <3>1. /\ load = "parsing" /\ agenda = << >> /\ inst' = parsed /\ load' = "loaded"
            /\ parsed' = EmptyData
        BY <2>4 DEF Commit, EndCall
      <3>2. Grounded(parsed)
        BY <1>1, <3>1, ParsedIsGrounded
      <3>3. MagicRead'
        BY <3>1 DEF MagicRead, EmptyData
      <3> QED
        BY <1>1, <2>1, <3>1, <3>2, <3>3 DEF Rooted
    <2> QED
      BY <2>1, <2>2, <2>3, <2>4 DEF LoadStep
  <1> QED
    BY <1>2, <1>3, <1>4

\* ... and so do the others.
LEMMA NextRooted ==
    ASSUME StoreInv, [DataNext]_dataVars
    PROVE  Rooted'
  <1>1. /\ Grounded(inst) /\ Grounded(written.data) /\ MagicRead /\ Sound(inst) /\ IsData(inst)
        /\ load = "parsing" => Walked(parsed, agenda) /\ save # "saving"
    BY DEF StoreInv, Rooted, FiledInv, DataInv, Stored, Sound
  <1>2. CASE PlaceFileHere \/ CallLoad \/ ContinueLoad
    BY <1>2, LoadRoots
  <1>3. CASE UNCHANGED dataVars
    BY <1>1, <1>3 DEF dataVars, vars, Rooted, MagicRead
  <1>4. CASE ModifyStringTable \/ Close \/ OpenForSave \/ CannotOpenForSave \/ SaveStep
                 \/ Crash
    <2>1. load' # "parsing" /\ parsed' = parsed
      BY <1>1, <1>4 DEF ModifyStringTable, Close, OpenForSave, CannotOpenForSave, SaveStep,
         Write, WriteFails, WriteDropped, CloseFile, Crash, Idle, vars
    <2>2. Grounded(inst')
      <3>1. CASE ModifyStringTable
        <4>1. PICK i \in 1..Value(inst, << >>, "count"), s \in NewStrings :
                 inst' = ReplaceString(i, s)
          BY <3>1 DEF ModifyStringTable
        <4> QED
          BY <1>1, <4>1, ReplacedIsGrounded
      <3>2. CASE Close \/ Crash
        BY <3>2, NothingIsGrounded DEF Close, Crash
      <3>3. CASE OpenForSave
        BY <1>1, <3>3, StringsOfCount DEF OpenForSave
      <3>4. CASE CannotOpenForSave \/ SaveStep
        BY <1>1, <3>4 DEF CannotOpenForSave, SaveStep, Write, WriteFails, WriteDropped,
           CloseFile, vars
      <3> QED
        BY <1>4, <3>1, <3>2, <3>3, <3>4
    <2>3. written'.data \in {written.data, inst}
      BY <1>4 DEF ModifyStringTable, Close, OpenForSave, CannotOpenForSave, SaveStep,
         Write, WriteFails, WriteDropped, CloseFile, Crash, saveVars, Written
    <2> QED
      BY <1>1, <2>1, <2>2, <2>3 DEF Rooted, MagicRead
  <1> QED
    BY <1>2, <1>3, <1>4 DEF DataNext

\* The invariant holds at first,
LEMMA InitStore == DataInit => StoreInv
  <1> SUFFICES ASSUME DataInit PROVE StoreInv
    OBVIOUS
  <1>1. /\ written.data = EmptyData /\ inst = EmptyData /\ parsed = EmptyData
        /\ load = "idle"
    BY DEF DataInit, Init, NoCall, Foreign, Written
  <1>2. MagicRead
    BY <1>1 DEF MagicRead, EmptyData
  <1> QED
    BY <1>1, <1>2, InitFiled, NothingIsGrounded DEF StoreInv, Rooted

\* ... and every step keeps it.
LEMMA NextStore == StoreInv /\ [DataNext]_dataVars => StoreInv'
  BY NextFiled, NextRooted DEF StoreInv

\* Every member of the instance that is not 0 is one that some Load set, or a
\* string that was replaced; and a Load of the file sets those of the data
\* last saved.
THEOREM DataAreGrounded == DataSpec => []StoreInv
  <1>1. DataInit => StoreInv
    BY InitStore
  <1>2. StoreInv /\ [DataNext]_dataVars => StoreInv'
    BY NextStore
  <1> QED
    BY <1>1, <1>2, PTL DEF DataSpec

\* A Load that succeeds has read the magic;
LEMMA CommitMagic ==
    ASSUME StoreInv, Commit
    PROVE  /\ inst' = parsed /\ Value(parsed, << >>, "magic") = Magic
           /\ <<<< >>, "magic">> \in DOMAIN parsed.val
  <1>1. /\ agenda = << >> /\ inst' = parsed /\ VectorInv /\ Walked(parsed, agenda) /\ MagicRead
    BY DEF Commit, StoreInv, Rooted, FiledInv, DataInv, CodecInv
  <1>2. PICK H : Visits(H, parsed, << >>, parsed)
    BY <1>1, ParsedIsGood DEF Walked
  <1> DEFINE g == Goal("magic", << >>, "magic", 0)
  <1>3. g \in H
    <2>1. Closed(H, parsed)
      BY <1>2, AllVisited
    <2> QED
      BY <2>1, LoadReads DEF Closed
  <1>4. Fills(g) = {<<<< >>, "magic">>}
    BY DEF Fills, Goal, Readings, Width
  <1>5. <<<< >>, "magic">> \in DOMAIN parsed.val
    BY <1>2, <1>3, <1>4 DEF Visits
  <1> QED
    BY <1>1, <1>5 DEF MagicRead, Value

\* ... and if the file was made by Save, the data that were saved, which had it.
LEMMA CommitReloads ==
    ASSUME StoreInv, Commit, written.how # "foreign"
    PROVE  /\ CompleteFile
           /\ Normal(inst') = Normal(written.data)
  <1> DEFINE d == written.data
  <1>1. /\ load = "parsing" /\ agenda = << >> /\ inst' = parsed /\ VectorInv
        /\ Walked(parsed, agenda) /\ Sound(d) /\ Grounded(d) /\ Retraces(d) /\ DataInv
        /\ written.how \in {"foreign", "torn", "complete"} /\ save # "saving" /\ Filed
    BY DEF Commit, StoreInv, Rooted, FiledInv, DataInv, CodecInv, Retraced, Saving, Stored
  <1>2. Fit(d, parsed, agenda)
    BY <1>1 DEF Retraces
  <1>3. Normal(parsed) = Normal(d)
    BY <1>1, <1>2, SameNormal
  <1>4. Value(d, << >>, "magic") = Magic
    BY <1>2, CommitMagic DEF Fit, Known, Value
  <1>5. written.how # "torn"
    BY <1>1, CommitAtTheEnd DEF Filed
  <1> QED
    BY <1>1, <1>3, <1>4, <1>5 DEF CompleteFile

\* For every file, every order of calls and every string that was replaced:
\* a Load that succeeds on what Save completed gives the data that were saved,
\* member by member.
THEOREM SavedDataComeBack == DataSpec => ReloadReproduces
  <1>1. StoreInv /\ [DataNext]_dataVars =>
           (CompleteFile /\ load = "parsing" /\ load' = "loaded" =>
              Normal(inst') = Normal(written.data))
    <2> SUFFICES ASSUME StoreInv, [DataNext]_dataVars, CompleteFile, load = "parsing",
                        load' = "loaded"
                 PROVE  Normal(inst') = Normal(written.data)
      OBVIOUS
    <2>1. Commit
      BY DEF DataNext, dataVars, vars, PlaceFileHere, CallLoad, ContinueLoad,
         ModifyStringTable, OpenForSave, CannotOpenForSave, SaveStep, Write, WriteFails,
         WriteDropped, CloseFile, Close, Crash, Idle, LoadStep, Throw, ReadFails,
         ValueRefused, ObjectSizeMismatch, CallRefused, EndCall, ReadStep, ReadScalar,
         ReadLength, ReadCount, NextElement, ReadDebugFlag, ReadObjectSize, ObjectEnds,
         ReadPropertyFlags, ReadType, ReadOpcode, ReadCallArguments, PushArgument, Consume
    <2> QED
      BY <2>1, CommitReloads DEF CompleteFile
  <1>2. [StoreInv /\ StoreInv' /\ [DataNext]_dataVars]_dataVars
           => [CompleteFile /\ load = "parsing" /\ load' = "loaded" =>
                 Normal(inst') = Normal(written.data)]_dataVars
    BY <1>1
  <1> QED
    BY <1>1, DataAreGrounded, PTL DEF DataSpec, ReloadReproduces

-----------------------------------------------------------------------------
(* The abstract store *)

\* It is about the same data as the rest.
LEMMA StoreRecords ==
    /\ Store!EmptyData = EmptyData /\ Store!Magic = Magic
    /\ \A d, q, f : Store!Value(d, q, f) = Value(d, q, f)
    /\ \A q, name, i : Store!Child(q, name, i) = Child(q, name, i)
  BY DEF Store!EmptyData, EmptyData, Store!Magic, Magic, Store!Value, Value, Store!Child,
     Child

\* Normal leaves out members that are 0, and changes none.
LEMMA ValueNormal ==
    ASSUME NEW d, NEW q, NEW f
    PROVE  Value(Normal(d), q, f) = Value(d, q, f)
  <1> DEFINE k == <<q, f>>
             e == Normal(d)
  <1>1. /\ DOMAIN e.val = {x \in DOMAIN d.val : d.val[x] # 0}
        /\ \A x \in DOMAIN e.val : e.val[x] = d.val[x]
    BY DEF Normal
  <1> HIDE DEF e, k
  <1>2. (IF k \in DOMAIN e.val THEN e.val[k] ELSE 0)
           = (IF k \in DOMAIN d.val THEN d.val[k] ELSE 0)
    BY <1>1
  <1> QED
    BY <1>2 DEF Value, e, k

\* Of no data nothing is left.
LEMMA NormalNothing == Normal(EmptyData) = EmptyData
  <1>1. /\ {x \in DOMAIN EmptyData.val : EmptyData.val[x] # 0} = {}
        /\ {x \in DOMAIN EmptyData.len : EmptyData.len[x] # 0} = {}
    BY DEF EmptyData
  <1>2. /\ [k \in {x \in DOMAIN EmptyData.val : EmptyData.val[x] # 0} |-> EmptyData.val[k]]
             = [k \in {} |-> 0]
        /\ [k \in {x \in DOMAIN EmptyData.len : EmptyData.len[x] # 0} |-> EmptyData.len[k]]
             = [k \in {} |-> 0]
    BY <1>1
  <1>3. Normal(EmptyData) = [val |-> [k \in {} |-> 0], len |-> [k \in {} |-> 0]]
    BY <1>2, Zenon DEF Normal
  <1> QED
    BY <1>3 DEF EmptyData

\* Replacing a string changes its length and its bytes, and nothing else.
LEMMA ReplacedWithout ==
    ASSUME NEW i, NEW s
    PROVE  LET key == <<Child(<< >>, "strings", i), "bytes">>
           IN  Store!Without(Normal(ReplaceString(i, s)), key)
                  = Store!Without(Normal(inst), key)
  <1> DEFINE key == <<Child(<< >>, "strings", i), "bytes">>
             new == ReplaceString(i, s)
             a == Normal(new)
             b == Normal(inst)
  <1>1. new.val = Put(inst.val, key, s.value) /\ new.len = Put(inst.len, key, s.length)
    BY DEF ReplaceString
  <1>2. /\ DOMAIN a.val = {x \in DOMAIN new.val : new.val[x] # 0}
        /\ \A x \in DOMAIN a.val : a.val[x] = new.val[x]
        /\ DOMAIN a.len = {x \in DOMAIN new.len : new.len[x] # 0}
        /\ \A x \in DOMAIN a.len : a.len[x] = new.len[x]
    BY DEF Normal
  <1>3. /\ DOMAIN b.val = {x \in DOMAIN inst.val : inst.val[x] # 0}
        /\ \A x \in DOMAIN b.val : b.val[x] = inst.val[x]
        /\ DOMAIN b.len = {x \in DOMAIN inst.len : inst.len[x] # 0}
        /\ \A x \in DOMAIN b.len : b.len[x] = inst.len[x]
    BY DEF Normal
  <1> HIDE DEF key, new, a, b
  <1>4. /\ DOMAIN a.val \ {key} = DOMAIN b.val \ {key}
        /\ \A x \in DOMAIN b.val \ {key} : a.val[x] = b.val[x]
    BY <1>1, <1>2, <1>3 DEF Put
  <1>5. /\ DOMAIN a.len \ {key} = DOMAIN b.len \ {key}
        /\ \A x \in DOMAIN b.len \ {key} : a.len[x] = b.len[x]
    BY <1>1, <1>2, <1>3 DEF Put
  <1>6. [k \in DOMAIN a.val \ {key} |-> a.val[k]] = [k \in DOMAIN b.val \ {key} |-> b.val[k]]
    BY <1>4
  <1>7. [k \in DOMAIN a.len \ {key} |-> a.len[k]] = [k \in DOMAIN b.len \ {key} |-> b.len[k]]
    BY <1>5
  <1>8. Store!Without(a, key) = Store!Without(b, key)
    BY <1>6, <1>7, Zenon DEF Store!Without
  <1> QED
    BY <1>8 DEF key, a, b, new

\* What is known of the file, by how it came to be.
LEMMA StoredFileIs ==
    /\ written.how = "foreign" => StoredFile = Store!Unknown
    /\ written.how = "torn" => StoredFile = Store!Unreadable
    /\ written.how = "complete" =>
          StoredFile = IF Value(written.data, << >>, "magic") = Magic
                       THEN Store!Holds(Normal(written.data)) ELSE Store!Unreadable
  BY StoreRecords DEF StoredFile, CompleteFile, Store!Unknown, Store!Unreadable, Store!Holds

\* At first nothing is stored,
LEMMA InitImplements == DataInit => Store!StoreInit
  <1> SUFFICES ASSUME DataInit PROVE Store!StoreInit
    OBVIOUS
  <1>1. /\ inst = EmptyData /\ load = "idle" /\ save = "idle" /\ written.how = "foreign"
    BY DEF DataInit, Init, NoCall, Foreign, Written
  <1>2. Normal(inst) = EmptyData
    BY <1>1, NormalNothing
  <1> QED
    BY <1>1, <1>2, StoredFileIs, StoreRecords DEF Store!StoreInit, RunningCall

\* ... and each step of a Load is a step of the store or invisible in it.
LEMMA LoadImplements ==
    ASSUME StoreInv, PlaceFileHere \/ CallLoad \/ ContinueLoad
    PROVE  [Store!StoreNext]_(Store!storeVars)
  <1>1. load = "parsing" => save # "saving"
    BY DEF StoreInv, FiledInv, DataInv, Stored
  <1>2. CASE PlaceFileHere
    <2>1. /\ load # "parsing" /\ save # "saving" /\ UNCHANGED <<load, save, inst>>
          /\ written'.how = "foreign"
      BY <1>2 DEF PlaceFileHere, PlaceFile, Idle, Foreign, Written
    <2>2. StoredFile' = Store!Unknown
      BY <2>1, StoreRecords DEF StoredFile, CompleteFile, Store!Unknown
    <2>3. Store!ChooseFile
      BY <2>1, <2>2 DEF Store!ChooseFile, RunningCall
    <2> QED
      BY <2>3 DEF Store!StoreNext
  <1>3. CASE CallLoad
    <2>1. /\ load # "parsing" /\ save # "saving" /\ UNCHANGED <<save, inst, written>>
          /\ OpenFile \/ RefuseFile
      BY <1>3 DEF CallLoad, saveVars, Idle, OpenFile, RefuseFile
    <2>2. StoredFile' = StoredFile
      BY <2>1 DEF StoredFile, CompleteFile
    <2>3. CASE OpenFile
      <3>1. load' = "parsing"
        BY <2>3 DEF OpenFile
      <3>2. Store!BeginLoad
        BY <2>1, <2>2, <3>1 DEF Store!BeginLoad, RunningCall
      <3> QED
        BY <3>2 DEF Store!StoreNext
    <2>4. CASE RefuseFile
      <3>1. load' = "failed"
        BY <2>4 DEF RefuseFile
      <3>2. Store!LoadFails
        BY <2>1, <2>2, <3>1 DEF Store!LoadFails, RunningCall
      <3> QED
        BY <3>2 DEF Store!StoreNext
    <2> QED
      BY <2>1, <2>3, <2>4
  <1>4. CASE ContinueLoad
    <2>1. UNCHANGED <<save, written>> /\ LoadStep
      BY <1>4 DEF ContinueLoad, saveVars
    <2>2. load = "parsing"
      BY <2>1 DEF LoadStep, Throw, Commit, ReadFails, ValueRefused, ObjectSizeMismatch,
         CallRefused, ReadStep, ReadScalar, ReadLength, ReadCount, NextElement,
         ReadDebugFlag, ReadObjectSize, ObjectEnds, ReadPropertyFlags, ReadType,
         ReadOpcode, ReadCallArguments, PushArgument, At
    <2>3. StoredFile' = StoredFile
      BY <2>1 DEF StoredFile, CompleteFile
    <2>4. RunningCall = "loading" /\ save # "saving" /\ save' # "saving"
      BY <1>1, <2>1, <2>2 DEF RunningCall
    <2>5. CASE ReadStep
      <3>1. UNCHANGED <<inst, load>>
        BY <2>5 DEF ReadStep, ReadScalar, ReadLength, ReadCount, NextElement, ReadDebugFlag,
           ReadObjectSize, ObjectEnds, ReadPropertyFlags, ReadType, ReadOpcode,
           ReadCallArguments, PushArgument, Consume
      <3>2. UNCHANGED Store!storeVars
        BY <2>1, <2>3, <3>1 DEF Store!storeVars, RunningCall
      <3> QED
        BY <3>2
    <2>6. CASE Throw
      <3>1. inst' = inst /\ load' = "failed"
        BY <2>6 DEF Throw, ReadFails, ValueRefused, ObjectSizeMismatch, CallRefused, EndCall
      <3>2. Store!LoadFails
        BY <2>3, <2>4, <3>1 DEF Store!LoadFails, RunningCall
      <3> QED
        BY <3>2 DEF Store!StoreNext
    <2>7. CASE Commit
      <3>1. inst' = parsed /\ load' = "loaded"
        BY <2>7 DEF Commit, EndCall
      <3>2. Value(Normal(inst'), << >>, "magic") = Magic
        BY <2>7, CommitMagic, ValueNormal
      <3>3. /\ StoredFile.kind # "unreadable"
            /\ StoredFile.kind = "holds" => Normal(inst') = StoredFile.data
        <4>1. CASE written.how = "foreign"
          BY <4>1, StoredFileIs DEF Store!Unknown
        <4>2. CASE written.how # "foreign"
          <5>1. CompleteFile /\ Normal(inst') = Normal(written.data)
            BY <2>7, <4>2, CommitReloads
          <5> QED
            BY <5>1 DEF StoredFile
        <4> QED
          BY <4>1, <4>2
      <3>4. Store!LoadSucceeds
        BY <2>3, <2>4, <3>1, <3>2, <3>3, StoreRecords DEF Store!LoadSucceeds, RunningCall
      <3> QED
        BY <3>4 DEF Store!StoreNext
    <2> QED
      BY <2>1, <2>5, <2>6, <2>7 DEF LoadStep
  <1> QED
    BY <1>2, <1>3, <1>4

\* So is each step on the instance between calls,
LEMMA InstanceImplements ==
    ASSUME StoreInv, ModifyStringTable \/ Close
    PROVE  [Store!StoreNext]_(Store!storeVars)
  <1>1. /\ load # "parsing" /\ save # "saving" /\ UNCHANGED <<load, save, written>>
    BY DEF ModifyStringTable, Close, Idle, saveVars
  <1>2. StoredFile' = StoredFile /\ RunningCall = "none" /\ RunningCall' = "none"
    BY <1>1 DEF StoredFile, CompleteFile, RunningCall
  <1>3. CASE ModifyStringTable
    <2>1. PICK i \in 1..Value(inst, << >>, "count"), s \in NewStrings :
             inst' = ReplaceString(i, s)
      BY <1>3 DEF ModifyStringTable
    <2>2. i \in 1..Value(Normal(inst), << >>, "count")
      BY ValueNormal
    <2> DEFINE key == <<Child(<< >>, "strings", i), "bytes">>
    <2>3. Store!Without(Normal(inst'), key) = Store!Without(Normal(inst), key)
      BY <2>1, ReplacedWithout
    <2>4. Store!ReplaceOneString
      BY <1>1, <1>2, <2>2, <2>3, StoreRecords DEF Store!ReplaceOneString
    <2> QED
      BY <2>4 DEF Store!StoreNext
  <1>4. CASE Close
    <2>1. Normal(inst') = EmptyData
      BY <1>4, NormalNothing DEF Close
    <2>2. Store!CloseInstance
      BY <1>1, <1>2, <2>1, StoreRecords DEF Store!CloseInstance
    <2> QED
      BY <2>2 DEF Store!StoreNext
  <1> QED
    BY <1>3, <1>4

\* What the end of a Save may make of the file.
LEMMA EndOfSave ==
    ASSUME written.data = inst, written.how = "torn",
           written' = written \/ written' = Written("complete", inst)
    PROVE  StoredFile' \in {StoredFile, Store!Saved}
  <1>1. StoredFile = Store!Unreadable
    BY StoredFileIs
  <1>2. CASE written' = written
    BY <1>2 DEF StoredFile, CompleteFile
  <1>3. CASE written' = Written("complete", inst)
    <2>1. written'.how = "complete" /\ written'.data = inst
      BY <1>3 DEF Written
    <2>2. Value(Normal(inst), << >>, "magic") = Value(inst, << >>, "magic")
      BY ValueNormal
    <2>3. StoredFile' = IF Value(inst, << >>, "magic") = Magic
                        THEN Store!Holds(Normal(inst)) ELSE Store!Unreadable
      BY <2>1, StoreRecords DEF StoredFile, CompleteFile, Store!Holds, Store!Unreadable
    <2> QED
      BY <2>2, <2>3, StoreRecords DEF Store!Saved
  <1> QED
    BY <1>2, <1>3

\* ... each step of a Save, and a crash.
LEMMA SaveImplements ==
    ASSUME StoreInv, OpenForSave \/ CannotOpenForSave \/ SaveStep \/ Crash
    PROVE  [Store!StoreNext]_(Store!storeVars)
  <1>1. /\ load = "parsing" => save # "saving"
        /\ save = "saving" => written.how = "torn" /\ inst = written.data
        /\ Sound(inst)
    BY DEF StoreInv, FiledInv, DataInv, Stored, Filed
  <1>2. CASE OpenForSave
    <2>1. /\ load # "parsing" /\ save # "saving" /\ load' = load /\ save' = "saving"
          /\ inst' = inst /\ written'.how = "torn"
      BY <1>1, <1>2, StringsOfCount DEF OpenForSave, Idle, Written
    <2>2. StoredFile' = Store!Unreadable
      BY <2>1, StoreRecords DEF StoredFile, CompleteFile, Store!Unreadable
    <2>3. Store!BeginSave
      BY <2>1, <2>2 DEF Store!BeginSave, RunningCall
    <2> QED
      BY <2>3 DEF Store!StoreNext
  <1>3. CASE CannotOpenForSave
    <2>1. /\ load # "parsing" /\ save # "saving" /\ save' = "failed"
          /\ UNCHANGED <<load, inst, written>>
      BY <1>3 DEF CannotOpenForSave, Idle, vars
    <2>2. UNCHANGED Store!storeVars
      BY <2>1 DEF Store!storeVars, RunningCall, StoredFile, CompleteFile
    <2> QED
      BY <2>2
  <1>4. CASE Write \/ WriteFails \/ WriteDropped
    <2>1. UNCHANGED <<load, inst, written, save>>
      BY <1>4 DEF Write, WriteFails, WriteDropped, vars
    <2>2. UNCHANGED Store!storeVars
      BY <2>1 DEF Store!storeVars, RunningCall, StoredFile, CompleteFile
    <2> QED
      BY <2>2
  <1>5. CASE CloseFile
    <2>1. /\ save = "saving" /\ save' # "saving" /\ UNCHANGED <<load, inst>>
          /\ written' = written \/ written' = Written("complete", inst)
      BY <1>5 DEF CloseFile, vars
    <2>2. StoredFile' \in {StoredFile, Store!Saved}
      BY <1>1, <2>1, EndOfSave
    <2>3. Store!EndSave
      BY <1>1, <2>1, <2>2 DEF Store!EndSave, RunningCall
    <2> QED
      BY <2>3 DEF Store!StoreNext
  <1>6. CASE Crash
    <2>1. /\ save = "saving" /\ save' = "idle" /\ load' = "idle" /\ inst' = EmptyData
          /\ written' = written \/ written' = Written("complete", inst)
      BY <1>6 DEF Crash
    <2>2. StoredFile' \in {StoredFile, Store!Saved}
      BY <1>1, <2>1, EndOfSave
    <2>3. Normal(inst') = EmptyData
      BY <2>1, NormalNothing
    <2>4. Store!ProcessDies
      BY <1>1, <2>1, <2>2, <2>3, StoreRecords DEF Store!ProcessDies, RunningCall
    <2> QED
      BY <2>4 DEF Store!StoreNext
  <1> QED
    BY <1>2, <1>3, <1>4, <1>5, <1>6 DEF SaveStep

\* So every step is one.
LEMMA NextImplements ==
    StoreInv /\ [DataNext]_dataVars => [Store!StoreNext]_(Store!storeVars)
  <1> SUFFICES ASSUME StoreInv, [DataNext]_dataVars
               PROVE  [Store!StoreNext]_(Store!storeVars)
    OBVIOUS
  <1>1. CASE UNCHANGED dataVars
    <2>1. UNCHANGED <<load, inst, written, save>>
      BY <1>1 DEF dataVars, vars
    <2>2. UNCHANGED Store!storeVars
      BY <2>1 DEF Store!storeVars, RunningCall, StoredFile, CompleteFile
    <2> QED
      BY <2>2
  <1> QED
    BY <1>1, LoadImplements, InstanceImplements, SaveImplements DEF DataNext

\* Parser, writer and stream implement the store, for all data, all limits and
\* all orders of calls, failures and crashes: a Load gives the contents as a
\* whole or leaves the old ones, what Save completed comes back, and what it
\* did not complete is never loaded.
THEOREM StoreIsImplemented == DataSpec => ImplementsStore
  <1>1. DataInit => Store!StoreInit
    BY InitImplements
  <1>2. StoreInv /\ [DataNext]_dataVars => [Store!StoreNext]_(Store!storeVars)
    BY NextImplements
  <1> QED
    BY <1>1, <1>2, DataAreGrounded, PTL DEF DataSpec, ImplementsStore, Store!StoreSpec

-----------------------------------------------------------------------------
(* What the accessors of the C ABI reach.  A chain is built of links: the   *)
(* chain of the record an index is used in, and the pair of a bound and a  *)
(* vector.                                                                 *)

LineAt == Append(DebugFunctionAt, <<"size()", "lineNumbers">>)
ArgumentAt == Append(InstructionAt, <<"size()", "arguments">>)
ParamAt == Append(FunctionAt, <<"numParams", "params">>)
LocalAt == Append(FunctionAt, <<"numLocals", "locals">>)

Links ==
    { << << >>, <<"count", "strings">> >>,
      << << >>, <<"functionCount", "functions">> >>,
      << DebugFunctionAt, <<"size()", "lineNumbers">> >>,
      << << >>, <<"userFlagCount", "userFlags">> >>,
      << << >>, <<"objectCount", "objects">> >>,
      << ObjectAt, <<"numVariables", "variables">> >>,
      << ObjectAt, <<"numProperties", "properties">> >>,
      << ObjectAt, <<"numStates", "states">> >>,
      << StateAt, <<"numFunctions", "functions">> >>,
      << FunctionAt, <<"numInstructions", "instructions">> >>,
      << InstructionAt, <<"size()", "arguments">> >>,
      << FunctionAt, <<"numParams", "params">> >>,
      << FunctionAt, <<"numLocals", "locals">> >> }

Chains ==
    { << >>, StringAt, DebugFunctionAt, LineAt, UserFlagAt, ObjectAt, VariableAt,
      PropertyAt, StateAt, FunctionAt, InstructionAt, ArgumentAt, ParamAt, LocalAt }

\* Each chain but the empty one is a link more than another.
LEMMA ChainsAre ==
    /\ StringAt = Append(<< >>, <<"count", "strings">>)
    /\ DebugFunctionAt = Append(<< >>, <<"functionCount", "functions">>)
    /\ LineAt = Append(DebugFunctionAt, <<"size()", "lineNumbers">>)
    /\ UserFlagAt = Append(<< >>, <<"userFlagCount", "userFlags">>)
    /\ ObjectAt = Append(<< >>, <<"objectCount", "objects">>)
    /\ VariableAt = Append(ObjectAt, <<"numVariables", "variables">>)
    /\ PropertyAt = Append(ObjectAt, <<"numProperties", "properties">>)
    /\ StateAt = Append(ObjectAt, <<"numStates", "states">>)
    /\ FunctionAt = Append(StateAt, <<"numFunctions", "functions">>)
    /\ InstructionAt = Append(FunctionAt, <<"numInstructions", "instructions">>)
    /\ ArgumentAt = Append(InstructionAt, <<"size()", "arguments">>)
    /\ ParamAt = Append(FunctionAt, <<"numParams", "params">>)
    /\ LocalAt = Append(FunctionAt, <<"numLocals", "locals">>)
  <1>1. \A x : <<x>> = Append(<< >>, x)
    OBVIOUS
  <1> QED
    BY <1>1 DEF StringAt, DebugFunctionAt, LineAt, UserFlagAt, ObjectAt, VariableAt,
       PropertyAt, StateAt, FunctionAt, InstructionAt, ArgumentAt, ParamAt, LocalAt

\* What the empty chain has and each link preserves, every chain has.
LEMMA ChainInduction ==
    ASSUME NEW S, << >> \in S, \A l \in Links : l[1] \in S => Append(l[1], l[2]) \in S
    PROVE  Chains \subseteq S
  <1>1. StringAt \in S
    <2>1. << << >>, <<"count", "strings">> >> \in Links
      BY DEF Links
    <2> QED
      BY <2>1, ChainsAre
  <1>2. DebugFunctionAt \in S
    <2>1. << << >>, <<"functionCount", "functions">> >> \in Links
      BY DEF Links
    <2> QED
      BY <2>1, ChainsAre
  <1>3. LineAt \in S
    <2>1. << DebugFunctionAt, <<"size()", "lineNumbers">> >> \in Links
      BY DEF Links
    <2> QED
      BY <1>2, <2>1, ChainsAre
  <1>4. UserFlagAt \in S
    <2>1. << << >>, <<"userFlagCount", "userFlags">> >> \in Links
      BY DEF Links
    <2> QED
      BY <2>1, ChainsAre
  <1>5. ObjectAt \in S
    <2>1. << << >>, <<"objectCount", "objects">> >> \in Links
      BY DEF Links
    <2> QED
      BY <2>1, ChainsAre
  <1>6. VariableAt \in S
    <2>1. << ObjectAt, <<"numVariables", "variables">> >> \in Links
      BY DEF Links
    <2> QED
      BY <1>5, <2>1, ChainsAre
  <1>7. PropertyAt \in S
    <2>1. << ObjectAt, <<"numProperties", "properties">> >> \in Links
      BY DEF Links
    <2> QED
      BY <1>5, <2>1, ChainsAre
  <1>8. StateAt \in S
    <2>1. << ObjectAt, <<"numStates", "states">> >> \in Links
      BY DEF Links
    <2> QED
      BY <1>5, <2>1, ChainsAre
  <1>9. FunctionAt \in S
    <2>1. << StateAt, <<"numFunctions", "functions">> >> \in Links
      BY DEF Links
    <2> QED
      BY <1>8, <2>1, ChainsAre
  <1>10. InstructionAt \in S
    <2>1. << FunctionAt, <<"numInstructions", "instructions">> >> \in Links
      BY DEF Links
    <2> QED
      BY <1>9, <2>1, ChainsAre
  <1>11. ArgumentAt \in S
    <2>1. << InstructionAt, <<"size()", "arguments">> >> \in Links
      BY DEF Links
    <2> QED
      BY <1>10, <2>1, ChainsAre
  <1>12. ParamAt \in S
    <2>1. << FunctionAt, <<"numParams", "params">> >> \in Links
      BY DEF Links
    <2> QED
      BY <1>9, <2>1, ChainsAre
  <1>13. LocalAt \in S
    <2>1. << FunctionAt, <<"numLocals", "locals">> >> \in Links
      BY DEF Links
    <2> QED
      BY <1>9, <2>1, ChainsAre
  <1> QED
    BY <1>1, <1>2, <1>3, <1>4, <1>5, <1>6, <1>7, <1>8, <1>9, <1>10, <1>11, <1>12, <1>13
       DEF Chains

\* The steps of the chains.
Steps == {l[2] : l \in Links}

\* A chain is a sequence of them.
LEMMA ChainTyped == Chains \subseteq Seq(Steps)
  <1> DEFINE S == Seq(Steps)
  <1>1. << >> \in S
    OBVIOUS
  <1>2. \A l \in Links : l[2] \in Steps
    BY DEF Steps
  <1>3. \A c \in S : \A x \in Steps : Append(c, x) \in S
    OBVIOUS
  <1> HIDE DEF S
  <1>4. \A l \in Links : l[1] \in S => Append(l[1], l[2]) \in S
    BY <1>2, <1>3
  <1> QED
    BY <1>1, <1>4, ChainInduction DEF S

\* The chain before a link, and the one after it, are chains.
LEMMA LinkTyped ==
    ASSUME NEW l \in Links
    PROVE  /\ l[1] \in Chains /\ Append(l[1], l[2]) \in Chains
           /\ l[1] \in Seq(Steps) /\ l[2] \in Steps
           /\ l = <<l[1], l[2]>> /\ l[2] = <<l[2][1], l[2][2]>>
  <1>1. l[1] \in Chains
    BY DEF Links, Chains
  <1>2. Append(l[1], l[2]) \in Chains
    <2>1. \/ l = << << >>, <<"count", "strings">> >>
          \/ l = << << >>, <<"functionCount", "functions">> >>
          \/ l = << DebugFunctionAt, <<"size()", "lineNumbers">> >>
          \/ l = << << >>, <<"userFlagCount", "userFlags">> >>
          \/ l = << << >>, <<"objectCount", "objects">> >>
          \/ l = << ObjectAt, <<"numVariables", "variables">> >>
          \/ l = << ObjectAt, <<"numProperties", "properties">> >>
          \/ l = << ObjectAt, <<"numStates", "states">> >>
          \/ l = << StateAt, <<"numFunctions", "functions">> >>
          \/ l = << FunctionAt, <<"numInstructions", "instructions">> >>
          \/ l = << InstructionAt, <<"size()", "arguments">> >>
          \/ l = << FunctionAt, <<"numParams", "params">> >>
          \/ l = << FunctionAt, <<"numLocals", "locals">> >>
      BY DEF Links
    <2>2. \A x, y : l = <<x, y>> => Append(l[1], l[2]) = Append(x, y)
      OBVIOUS
    <2>3. /\ Append(<< >>, <<"count", "strings">>) \in Chains
          /\ Append(<< >>, <<"functionCount", "functions">>) \in Chains
          /\ Append(DebugFunctionAt, <<"size()", "lineNumbers">>) \in Chains
          /\ Append(<< >>, <<"userFlagCount", "userFlags">>) \in Chains
          /\ Append(<< >>, <<"objectCount", "objects">>) \in Chains
          /\ Append(ObjectAt, <<"numVariables", "variables">>) \in Chains
          /\ Append(ObjectAt, <<"numProperties", "properties">>) \in Chains
          /\ Append(ObjectAt, <<"numStates", "states">>) \in Chains
          /\ Append(StateAt, <<"numFunctions", "functions">>) \in Chains
          /\ Append(FunctionAt, <<"numInstructions", "instructions">>) \in Chains
          /\ Append(InstructionAt, <<"size()", "arguments">>) \in Chains
          /\ Append(FunctionAt, <<"numParams", "params">>) \in Chains
          /\ Append(FunctionAt, <<"numLocals", "locals">>) \in Chains
      <3>1. /\ {StringAt, DebugFunctionAt, LineAt, UserFlagAt, ObjectAt} \subseteq Chains
            /\ {VariableAt, PropertyAt, StateAt, FunctionAt, InstructionAt} \subseteq Chains
            /\ {ArgumentAt, ParamAt, LocalAt} \subseteq Chains
        BY DEF Chains
      <3> QED
        BY <3>1, ChainsAre
    <2> QED
      BY <2>1, <2>2, <2>3, Zenon
  <1>3. l[2] \in Steps /\ l = <<l[1], l[2]>> /\ l[2] = <<l[2][1], l[2][2]>>
    BY DEF Links, Steps
  <1>4. l[1] \in Seq(Steps)
    BY <1>1, ChainTyped
  <1> QED
    BY <1>1, <1>2, <1>3, <1>4

\* Each step of a chain is a link from the steps before it.
LEMMA StepsAreLinks ==
    \A c \in Chains : \A k \in DOMAIN c : <<SubSeq(c, 1, k - 1), c[k]>> \in Links
  <1> DEFINE S == {c \in Chains :
                     \A k \in DOMAIN c : <<SubSeq(c, 1, k - 1), c[k]>> \in Links}
  <1>1. << >> \in S
    BY DEF Chains
  <1>2. ASSUME NEW l \in Links, l[1] \in S PROVE Append(l[1], l[2]) \in S
    <2> DEFINE c == l[1]
               e == Append(c, l[2])
    <2>1. /\ c \in Seq(Steps) /\ l[2] \in Steps
          /\ e \in Chains /\ l = <<c, l[2]>>
      BY LinkTyped
    <2> SUFFICES ASSUME NEW k \in DOMAIN e PROVE <<SubSeq(e, 1, k - 1), e[k]>> \in Links
      BY <2>1
    <2>2. Len(e) = Len(c) + 1 /\ DOMAIN e = 1..(Len(c) + 1) /\ Len(c) \in Nat
      BY <2>1
    <2>3. \A j \in 1..Len(c) : e[j] = c[j]
      BY <2>1
    <2>4. e[Len(c) + 1] = l[2]
      BY <2>1
    <2>5. SubSeq(e, 1, k - 1) = SubSeq(c, 1, k - 1)
      <3>1. /\ SubSeq(e, 1, k - 1) = [j \in 1..(k - 1) |-> e[j]]
            /\ SubSeq(c, 1, k - 1) = [j \in 1..(k - 1) |-> c[j]]
        <4>1. e \in Seq(Steps)
          BY <2>1
        <4> HIDE DEF c, e
        <4>2. \A j \in 1..(k - 1) : (1 + j) - 1 = j
          BY <2>2
        <4> QED
          BY <2>1, <2>2, <4>1, <4>2
      <3>2. \A j \in 1..(k - 1) : e[j] = c[j]
        BY <2>2, <2>3
      <3> HIDE DEF c, e
      <3> QED
        BY <3>1, <3>2
    <2>6. CASE k = Len(c) + 1
      <3>1. SubSeq(c, 1, Len(c)) = c
        BY <2>1
      <3>2. k - 1 = Len(c)
        BY <2>2, <2>6
      <3> HIDE DEF c, e
      <3> QED
        BY <2>1, <2>4, <2>5, <2>6, <3>1, <3>2
    <2>7. CASE k # Len(c) + 1
      <3>1. k \in DOMAIN c /\ e[k] = c[k]
        BY <2>1, <2>2, <2>3, <2>7
      <3>2. <<SubSeq(c, 1, k - 1), c[k]>> \in Links
        BY <1>2, <3>1
      <3> HIDE DEF c, e
      <3> QED
        BY <2>5, <3>1, <3>2
    <2> QED
      BY <2>6, <2>7
  <1> HIDE DEF S
  <1>3. Chains \subseteq S
    BY <1>1, <1>2, ChainInduction
  <1> QED
    BY <1>3 DEF S

\* The PexData alone, and the records one step further than others.
Top == { << >> }

Onward(d, step, paths) ==
    UNION { {Child(path, step[2], i) : i \in 1..Bound(d, path, step)} : path \in paths }

\* The records that the indices of the first n steps reach.
Arrives(f, d, c, n) ==
    f = [k \in 0..n |-> IF k = 0 THEN Top ELSE Onward(d, c[k], f[k - 1])]

\* There are such sets,
LEMMA ArrivesExists ==
    ASSUME NEW d, NEW c
    PROVE  \A n \in Nat : \E f : Arrives(f, d, c, n)
  <1> DEFINE P == {n \in Nat : \E f : Arrives(f, d, c, n)}
  <1>1. 0 \in P
    <2>1. Arrives([k \in 0..0 |-> Top], d, c, 0)
      BY DEF Arrives
    <2> QED
      BY <2>1
  <1>2. ASSUME NEW n \in Nat, n \in P PROVE n + 1 \in P
    <2>1. PICK f : Arrives(f, d, c, n)
      BY <1>2
    <2> DEFINE g == [k \in 0..(n + 1) |-> IF k = n + 1 THEN Onward(d, c[n + 1], f[n])
                                          ELSE f[k]]
    <2>2. \A k \in 0..(n + 1) :
             g[k] = IF k = 0 THEN Top ELSE Onward(d, c[k], g[k - 1])
      BY <2>1 DEF Arrives
    <2>3. Arrives(g, d, c, n + 1)
      BY <2>2 DEF Arrives
    <2> QED
      BY <2>3
  <1> HIDE DEF P
  <1>3. \A n \in Nat : n \in P
    BY <1>1, <1>2, NatSetInduction
  <1> QED
    BY <1>3 DEF P

\* ... of which Reached is the last,
LEMMA ReachedIs ==
    ASSUME NEW d, NEW c, Len(c) \in Nat
    PROVE  \E f : Arrives(f, d, c, Len(c)) /\ Reached(d, c) = f[Len(c)]
  <1>1. PICK h : Arrives(h, d, c, Len(c))
    BY ArrivesExists
  <1> DEFINE f == CHOOSE g :
                    g = [k \in 0..Len(c) |->
                            IF k = 0 THEN { << >> }
                            ELSE UNION { {Child(path, c[k][2], i) :
                                              i \in 1..Bound(d, path, c[k])} :
                                         path \in g[k - 1] }]
  <1>2. h = [k \in 0..Len(c) |->
                IF k = 0 THEN { << >> }
                ELSE UNION { {Child(path, c[k][2], i) : i \in 1..Bound(d, path, c[k])} :
                             path \in h[k - 1] }]
    BY <1>1, Zenon DEF Arrives, Onward, Top
  <1>3. f = [k \in 0..Len(c) |->
                IF k = 0 THEN { << >> }
                ELSE UNION { {Child(path, c[k][2], i) : i \in 1..Bound(d, path, c[k])} :
                             path \in f[k - 1] }]
    BY <1>2, Zenon
  <1>4. Reached(d, c) = f[Len(c)]
    BY Zenon DEF Reached
  <1> HIDE DEF f
  <1>5. Arrives(f, d, c, Len(c))
    BY <1>3, Zenon DEF Arrives, Onward, Top
  <1> QED
    BY <1>4, <1>5

\* ... and which do not hang on later steps.
LEMMA ArrivesSame ==
    ASSUME NEW d, NEW b, NEW c, NEW m \in Nat, NEW n \in Nat, NEW f, NEW g,
           Arrives(f, d, b, m), Arrives(g, d, c, n), m <= n,
           \A k \in 1..m : b[k] = c[k]
    PROVE  f[m] = g[m]
  <1> DEFINE P == {k \in Nat : k <= m => f[k] = g[k]}
  <1>1. 0 \in P
    BY DEF Arrives
  <1>2. ASSUME NEW k \in Nat, k \in P PROVE k + 1 \in P
    <2> SUFFICES ASSUME k + 1 <= m PROVE f[k + 1] = g[k + 1]
      OBVIOUS
    <2>1. f[k] = g[k] /\ b[k + 1] = c[k + 1] /\ (k + 1) - 1 = k
      BY <1>2
    <2>2. /\ f[k + 1] = Onward(d, b[k + 1], f[(k + 1) - 1])
          /\ g[k + 1] = Onward(d, c[k + 1], g[(k + 1) - 1])
      BY DEF Arrives
    <2> QED
      BY <2>1, <2>2, Zenon
  <1> HIDE DEF P
  <1>3. \A k \in Nat : k \in P
    BY <1>1, <1>2, NatSetInduction
  <1> QED
    BY <1>3 DEF P

\* No index reaches the PexData itself,
LEMMA ReachedNone == ASSUME NEW d PROVE Reached(d, << >>) = Top
  <1>0. Len(<< >>) = 0
    OBVIOUS
  <1>1. PICK f : Arrives(f, d, << >>, 0) /\ Reached(d, << >>) = f[0]
    BY <1>0, ReachedIs
  <1>2. f[0] = Top
    BY <1>1 DEF Arrives
  <1> QED
    BY <1>1, <1>2

\* ... and one step more reaches the elements of a vector.
LEMMA ReachedNext ==
    ASSUME NEW d, NEW l \in Links
    PROVE  Reached(d, Append(l[1], l[2])) = Onward(d, l[2], Reached(d, l[1]))
  <1> DEFINE c == l[1]
             e == Append(c, l[2])
             m == Len(c)
  <1>0. c \in Seq(Steps)
    BY LinkTyped
  <1>1. m \in Nat /\ Len(e) = m + 1 /\ e[m + 1] = l[2] /\ \A k \in 1..m : c[k] = e[k]
    BY <1>0
  <1> HIDE DEF c, e, m
  <1>2. PICK f : Arrives(f, d, c, m) /\ Reached(d, c) = f[m]
    BY <1>1, ReachedIs DEF m
  <1>3. PICK g : Arrives(g, d, e, m + 1) /\ Reached(d, e) = g[m + 1]
    BY <1>1, ReachedIs
  <1>4. f[m] = g[m]
    BY <1>1, <1>2, <1>3, ArrivesSame
  <1>5. g[m + 1] = Onward(d, e[m + 1], g[(m + 1) - 1])
    BY <1>1, <1>3 DEF Arrives
  <1>6. (m + 1) - 1 = m
    BY <1>1
  <1>7. Reached(d, e) = Onward(d, l[2], Reached(d, c))
    BY <1>1, <1>2, <1>3, <1>4, <1>5, <1>6, Zenon
  <1> QED
    BY <1>7 DEF c, e

\* An accepted index leads to a record that is reached.
LEMMA ReachedChild ==
    ASSUME NEW d, NEW l \in Links, NEW path \in Reached(d, l[1]),
           NEW i \in 1..Bound(d, path, l[2])
    PROVE  Child(path, l[2][2], i) \in Reached(d, Append(l[1], l[2]))
  <1>1. Child(path, l[2][2], i) \in Onward(d, l[2], Reached(d, l[1]))
    BY DEF Onward
  <1> QED
    BY <1>1, ReachedNext

\* The records of a property's handlers, which no accessor reaches.
Handlers == {"readHandler", "writeHandler"}
Handled(q) == \E k \in DOMAIN q : q[k][1] \in Handlers

\* A part of a handler is one, and a part of another record that is none.
LEMMA HandledChild ==
    ASSUME NEW q \in Path, NEW name \in Parts, NEW i \in Nat
    PROVE  /\ Child(q, name, i) \in Path
           /\ Handled(q) => Handled(Child(q, name, i))
           /\ name \in Handlers => Handled(Child(q, name, i))
           /\ ~Handled(q) /\ name \notin Handlers => ~Handled(Child(q, name, i))
  <1> DEFINE S == Parts \X Nat
             x == <<name, i>>
             r == Append(q, x)
  <1>1. x \in S /\ q \in Seq(S) /\ x[1] = name
    BY DEF Path
  <1> HIDE DEF x, S
  <1>2. /\ r \in Seq(S) /\ DOMAIN q = 1..Len(q) /\ Len(q) \in Nat
        /\ DOMAIN r = 1..(Len(q) + 1)
        /\ \A k \in 1..Len(q) : r[k] = q[k]
        /\ r[Len(q) + 1] = x
    BY <1>1
  <1> HIDE DEF r
  <1>3. Child(q, name, i) = r
    BY DEF Child, r, x
  <1>4. Handled(q) => Handled(r)
    <2> SUFFICES ASSUME Handled(q) PROVE Handled(r)
      OBVIOUS
    <2>1. PICK k \in DOMAIN q : q[k][1] \in Handlers
      BY DEF Handled
    <2>2. k \in DOMAIN r /\ r[k] = q[k]
      BY <1>2
    <2> QED
      BY <2>1, <2>2 DEF Handled
  <1>5. name \in Handlers => Handled(r)
    <2>1. Len(q) + 1 \in DOMAIN r
      BY <1>2
    <2> QED
      BY <1>1, <1>2, <2>1 DEF Handled
  <1>6. ASSUME Handled(r) PROVE Handled(q) \/ name \in Handlers
    <2>1. PICK k \in DOMAIN r : r[k][1] \in Handlers
      BY <1>6 DEF Handled
    <2>2. CASE k = Len(q) + 1
      BY <1>1, <1>2, <2>1, <2>2
    <2>3. CASE k # Len(q) + 1
      <3>1. k \in DOMAIN q /\ r[k] = q[k]
        BY <1>2, <2>3
      <3> QED
        BY <2>1, <3>1 DEF Handled
    <2> QED
      BY <2>2, <2>3
  <1> QED
    BY <1>2, <1>3, <1>4, <1>5, <1>6 DEF Path, S

\* The vectors of the links are parts, and none is a handler.
LEMMA LinkParts ==
    ASSUME NEW l \in Links
    PROVE  l[2][2] \in Parts /\ l[2][2] \notin Handlers
  <1>1. {"strings", "functions", "lineNumbers", "userFlags", "objects", "variables",
         "properties", "states", "params", "locals", "instructions", "arguments"}
           \subseteq Parts
    BY VectorDomain, VectorNamesAre DEF Parts
  <1>2. l[2][2] \in {"strings", "functions", "lineNumbers", "userFlags", "objects",
                     "variables", "properties", "states", "params", "locals",
                     "instructions", "arguments"}
    BY DEF Links
  <1> QED
    BY <1>1, <1>2 DEF Handlers

\* What is reached are records outside the handlers.
LEMMA ReachedTyped ==
    ASSUME NEW d
    PROVE  \A c \in Chains : Reached(d, c) \subseteq {q \in Path : ~Handled(q)}
  <1> DEFINE S == {c \in Chains : Reached(d, c) \subseteq {q \in Path : ~Handled(q)}}
  <1>1. << >> \in S
    <2>1. << >> \in Path /\ ~Handled(<< >>) /\ << >> \in Chains
      BY DEF Path, Handled, Chains
    <2> QED
      BY <2>1, ReachedNone DEF Top
  <1>2. ASSUME NEW l \in Links, l[1] \in S PROVE Append(l[1], l[2]) \in S
    <2>1. Append(l[1], l[2]) \in Chains
      BY LinkTyped
    <2>2. ASSUME NEW q \in Reached(d, Append(l[1], l[2])) PROVE q \in Path /\ ~Handled(q)
      <3>1. q \in Onward(d, l[2], Reached(d, l[1]))
        BY <2>2, ReachedNext
      <3>2. PICK path \in Reached(d, l[1]) :
               \E i \in 1..Bound(d, path, l[2]) : q = Child(path, l[2][2], i)
        BY <3>1 DEF Onward
      <3>4. PICK i \in 1..Bound(d, path, l[2]) : q = Child(path, l[2][2], i)
        BY <3>2
      <3>3. path \in Path /\ ~Handled(path) /\ i \in Nat
        BY <1>2
      <3> QED
        BY <3>4, <3>3, LinkParts, HandledChild
    <2> QED
      BY <2>1, <2>2
  <1> HIDE DEF S
  <1>3. Chains \subseteq S
    BY <1>1, <1>2, ChainInduction
  <1> QED
    BY <1>3 DEF S

\* Only the PexData is reached by no index, and it is reached by no other chain
\* that ends at a state.
LEMMA StateIsNotRoot ==
    ASSUME NEW d, NEW q \in Reached(d, StateAt)
    PROVE  q # << >>
  <1> DEFINE l == << ObjectAt, <<"numStates", "states">> >>
  <1>1. l \in Links /\ StateAt = Append(l[1], l[2]) /\ l[1] \in Chains /\ l[2][2] = "states"
    BY ChainsAre DEF Links, Chains
  <1> HIDE DEF l
  <1>2. q \in Onward(d, l[2], Reached(d, l[1]))
    BY <1>1, ReachedNext
  <1>3. PICK path \in Reached(d, l[1]) :
           \E i \in 1..Bound(d, path, l[2]) : q = Child(path, l[2][2], i)
    BY <1>2 DEF Onward
  <1>6. PICK i \in 1..Bound(d, path, l[2]) : q = Child(path, l[2][2], i)
    BY <1>3
  <1>4. path \in Path
    BY <1>1, ReachedTyped
  <1>5. l[2][2] \in Parts /\ i \in Nat
    BY <1>1, LinkParts
  <1> QED
    BY <1>4, <1>5, <1>6, ChildIsNotRoot

\* The bound an index is compared with is the size of the vector it is used in.
LEMMA BoundIsSize ==
    ASSUME NEW d, Even(d), NEW l \in Links, NEW path \in Reached(d, l[1])
    PROVE  Bound(d, path, l[2]) = Size(d, path, l[2][2])
  <1>1. CASE l[2][1] = "size()"
    BY <1>1 DEF Bound
  <1>2. CASE l[2][1] # "size()"
    <2>1. /\ l[2][1] \in DOMAIN Vector /\ Vector[l[2][1]].name = l[2][2]
          /\ l[2][1] \in {"objectCount", "functionCount"} => l[1] = << >>
          /\ l[2][1] = "numFunctions" => l[1] = StateAt
      BY <1>2, VectorDomain, VectorNamesAre DEF Links
    <2>2. HasCount(path, l[2][1])
      BY <2>1, ReachedNone, StateIsNotRoot DEF HasCount, Top
    <2>3. Value(d, path, l[2][1]) = Size(d, path, Vector[l[2][1]].name)
      BY <2>1, <2>2 DEF Even
    <2> QED
      BY <1>2, <2>1, <2>3 DEF Bound
  <1> QED
    BY <1>1, <1>2

-----------------------------------------------------------------------------
(* Where a goal is at home.  A chain of an accessor reaches the records of  *)
(* one kind, of which the parser reads certain members.                    *)

Home(chain, reads) == [chain |-> chain, reads |-> reads]

\* The goals of a string, and of a count and the loop it bounds.
Stringed(fields) == {"string", "payload"} \X fields
Repeated(counts) == {"count", "loop"} \X counts

\* The data of a variable or an argument.
Alternatives == {"uint16", "int32", "float", "uint8"}
DataReads ==
    {<<"type", "type">>, <<"u16", "uint16">>, <<"u32", "int32">>, <<"u32", "float">>,
     <<"u8", "uint8">>}

RootReads ==
    {<<"magic", "magic">>, <<"u8", "majorVersion">>, <<"u8", "minorVersion">>,
     <<"u16", "gameId">>, <<"u64", "compilationTime">>,
     <<"debugFlag", "hasDebugInfo">>, <<"u64", "modificationTime">>}
       \cup Stringed({"sourceFileName", "username", "machinename"})
       \cup Repeated({"count", "functionCount", "userFlagCount", "objectCount"})

DebugReads ==
    {<<"u16", "objectNameIndex">>, <<"u16", "stateNameIndex">>,
     <<"u16", "functionNameIndex">>, <<"u8", "functionType">>}
       \cup Repeated({"instructionCount"})

ObjectReads ==
    {<<"u16", "nameIndex">>, <<"objectSize", "size">>, <<"u16", "parentClassName">>,
     <<"u16", "docString">>, <<"u32", "userFlags">>, <<"u16", "autoStateName">>}
       \cup Repeated({"numVariables", "numProperties", "numStates"})

VariableReads ==
    {<<"u16", "name">>, <<"u16", "typeName">>, <<"u32", "userFlags">>} \cup DataReads

PropertyReads ==
    {<<"u16", "name">>, <<"u16", "type">>, <<"u16", "docstring">>,
     <<"u32", "userFlags">>, <<"propertyFlags", "flags">>, <<"u16", "autoVarName">>}

FunctionReads ==
    {<<"u16", "functionName">>, <<"u16", "returnType">>, <<"u16", "docString">>,
     <<"u32", "userFlags">>, <<"u8", "flags">>}
       \cup Repeated({"numParams", "numLocals", "numInstructions"})

InstructionReads ==
    {<<"opcode", "op">>, <<"callArguments", "op">>, <<"push", "arguments">>}

RootHome == Home(<< >>, RootReads)
StringHome == Home(StringAt, Stringed({"bytes"}))
DebugHome == Home(DebugFunctionAt, DebugReads)
LineHome == Home(LineAt, {<<"u16", "line">>})
FlagHome == Home(UserFlagAt, {<<"u16", "flagNameIndex">>, <<"u8", "flagIndex">>})
ObjectHome == Home(ObjectAt, ObjectReads)
VariableHome == Home(VariableAt, VariableReads)
PropertyHome == Home(PropertyAt, PropertyReads)
StateHome == Home(StateAt, {<<"u16", "name">>} \cup Repeated({"numFunctions"}))
FunctionHome == Home(FunctionAt, FunctionReads)
InstructionHome == Home(InstructionAt, InstructionReads)
ArgumentHome == Home(ArgumentAt, DataReads)
ParamHome == Home(ParamAt, {<<"u16", "name">>, <<"u16", "type">>})
LocalHome == Home(LocalAt, {<<"u16", "name">>, <<"u16", "type">>})

Homes ==
    {RootHome, StringHome, DebugHome, LineHome, FlagHome, ObjectHome, VariableHome,
     PropertyHome, StateHome, FunctionHome, InstructionHome, ArgumentHome, ParamHome,
     LocalHome}

\* The record a home is.
LEMMA HomesAre ==
    ASSUME NEW h \in Homes
    PROVE  h.chain \in Chains
  BY DEF Homes, Home, Chains, RootHome, StringHome, DebugHome, LineHome, FlagHome, ObjectHome,
     VariableHome, PropertyHome, StateHome, FunctionHome, InstructionHome, ArgumentHome,
     ParamHome, LocalHome

\* The loops: where a count is at home, the link to the elements of its vector,
\* and where these are.
Branch(from, count, step, to) == [from |-> from, count |-> count, step |-> step, to |-> to]

Branches ==
    { Branch(RootHome, "count", <<"count", "strings">>, StringHome),
      Branch(RootHome, "functionCount", <<"functionCount", "functions">>, DebugHome),
      Branch(DebugHome, "instructionCount", <<"size()", "lineNumbers">>, LineHome),
      Branch(RootHome, "userFlagCount", <<"userFlagCount", "userFlags">>, FlagHome),
      Branch(RootHome, "objectCount", <<"objectCount", "objects">>, ObjectHome),
      Branch(ObjectHome, "numVariables", <<"numVariables", "variables">>, VariableHome),
      Branch(ObjectHome, "numProperties", <<"numProperties", "properties">>, PropertyHome),
      Branch(ObjectHome, "numStates", <<"numStates", "states">>, StateHome),
      Branch(StateHome, "numFunctions", <<"numFunctions", "functions">>, FunctionHome),
      Branch(FunctionHome, "numParams", <<"numParams", "params">>, ParamHome),
      Branch(FunctionHome, "numLocals", <<"numLocals", "locals">>, LocalHome),
      Branch(FunctionHome, "numInstructions", <<"numInstructions", "instructions">>,
             InstructionHome) }

\* All that a Read function reads is at home together, and no alternative.
Covers(reads, body) ==
    \A i \in DOMAIN body :
        <<body[i][1], body[i][2]>> \in reads /\ body[i][2] \notin Alternatives

\* Two tables, one after the other.
LEMMA CoversBoth ==
    ASSUME NEW S, NEW a \in Seq(S), NEW b \in Seq(S), NEW reads, Covers(reads, a),
           Covers(reads, b)
    PROVE  Covers(reads, Then(a, b))
  <1> SUFFICES ASSUME NEW i \in DOMAIN Then(a, b)
               PROVE  /\ <<Then(a, b)[i][1], Then(a, b)[i][2]>> \in reads
                      /\ Then(a, b)[i][2] \notin Alternatives
    BY DEF Covers
  <1>1. \/ i \in DOMAIN a /\ Then(a, b)[i] = a[i]
        \/ i - Len(a) \in DOMAIN b /\ Then(a, b)[i] = b[i - Len(a)]
    BY ThenPart
  <1> QED
    BY <1>1 DEF Covers

\* What the Read functions read.
LEMMA ReadsCovered ==
    /\ Covers(RootReads, ReadHeader) /\ Covers(RootReads, ReadStringTable)
    /\ Covers(RootReads, ReadDebugInfo) /\ Covers(RootReads, ReadUserFlags)
    /\ Covers(RootReads, ReadObjects) /\ Covers(RootReads, DebugTable)
    /\ Covers(ObjectReads, ReadObjectData) /\ Covers(FunctionReads, ReadFunction)
    /\ Covers(PropertyReads, << <<"u16", "autoVarName">> >>)
  <1>1. Covers(RootReads, ReadHeader)
    BY DEF Covers, Alternatives, RootReads, ReadHeader, Stringed
  <1>2. Covers(RootReads, ReadStringTable) /\ Covers(RootReads, ReadDebugInfo)
    BY DEF Covers, Alternatives, RootReads, ReadStringTable, ReadDebugInfo, Repeated
  <1>3. Covers(RootReads, ReadUserFlags) /\ Covers(RootReads, ReadObjects)
    BY DEF Covers, Alternatives, RootReads, ReadUserFlags, ReadObjects, Repeated
  <1>4. Covers(RootReads, DebugTable)
    BY DEF Covers, Alternatives, RootReads, DebugTable, Repeated
  <1>5. Covers(ObjectReads, ReadObjectData)
    BY DEF Covers, Alternatives, ObjectReads, ReadObjectData, Repeated
  <1>6. Covers(FunctionReads, ReadFunction)
    BY DEF Covers, Alternatives, FunctionReads, ReadFunction, Repeated
  <1>7. Covers(PropertyReads, << <<"u16", "autoVarName">> >>)
    BY DEF Covers, Alternatives, PropertyReads
  <1> QED
    BY <1>1, <1>2, <1>3, <1>4, <1>5, <1>6, <1>7

\* The elements of the vectors.
LEMMA ElementsCovered ==
    ASSUME NEW b \in Branches
    PROVE  Covers(b.to.reads, Vector[b.count].element)
  <1>1. CASE b = Branch(RootHome, "count", <<"count", "strings">>, StringHome)
    <2>1. Covers(Stringed({"bytes"}), << <<"string", "bytes">> >>)
      BY DEF Covers, Alternatives, Stringed
    <2> QED
      BY <1>1, <2>1 DEF Branch, StringHome, Home, Vector
  <1>2. CASE b = Branch(RootHome, "functionCount", <<"functionCount", "functions">>, DebugHome)
    <2>1. Covers(DebugReads, ReadDebugFunction)
      BY DEF Covers, Alternatives, DebugReads, ReadDebugFunction, Repeated
    <2> QED
      BY <1>2, <2>1 DEF Branch, DebugHome, Home, Vector
  <1>3. CASE b = Branch(DebugHome, "instructionCount", <<"size()", "lineNumbers">>, LineHome)
    <2>1. Covers({<<"u16", "line">>}, << <<"u16", "line">> >>)
      BY DEF Covers, Alternatives
    <2> QED
      BY <1>3, <2>1 DEF Branch, LineHome, Home, Vector
  <1>4. CASE b = Branch(RootHome, "userFlagCount", <<"userFlagCount", "userFlags">>, FlagHome)
    <2>1. Covers({<<"u16", "flagNameIndex">>, <<"u8", "flagIndex">>},
                 << <<"u16", "flagNameIndex">>, <<"u8", "flagIndex">> >>)
      BY DEF Covers, Alternatives
    <2> QED
      BY <1>4, <2>1 DEF Branch, FlagHome, Home, Vector
  <1>5. CASE b = Branch(RootHome, "objectCount", <<"objectCount", "objects">>, ObjectHome)
    <2>1. Covers(ObjectReads, << <<"u16", "nameIndex">>, <<"objectSize", "size">> >>)
      BY DEF Covers, Alternatives, ObjectReads
    <2> QED
      BY <1>5, <2>1 DEF Branch, ObjectHome, Home, Vector
  <1>6. CASE b = Branch(ObjectHome, "numVariables", <<"numVariables", "variables">>,
                        VariableHome)
    <2>1. Covers(VariableReads, ReadVariable)
      BY DEF Covers, Alternatives, VariableReads, ReadVariable, DataReads
    <2> QED
      BY <1>6, <2>1 DEF Branch, VariableHome, Home, Vector
  <1>7. CASE b = Branch(ObjectHome, "numProperties", <<"numProperties", "properties">>,
                        PropertyHome)
    <2>1. Covers(PropertyReads, ReadProperty)
      BY DEF Covers, Alternatives, PropertyReads, ReadProperty
    <2> QED
      BY <1>7, <2>1 DEF Branch, PropertyHome, Home, Vector
  <1>8. CASE b = Branch(ObjectHome, "numStates", <<"numStates", "states">>, StateHome)
    <2>1. Covers({<<"u16", "name">>} \cup Repeated({"numFunctions"}), ReadState)
      BY DEF Covers, Alternatives, ReadState, Repeated
    <2> QED
      BY <1>8, <2>1 DEF Branch, StateHome, Home, Vector
  <1>9. CASE b = Branch(StateHome, "numFunctions", <<"numFunctions", "functions">>,
                        FunctionHome)
    <2> DEFINE name == << <<"u16", "functionName">> >>
    <2>1. Covers(FunctionReads, name)
      BY DEF Covers, Alternatives, FunctionReads
    <2>2. name \in Seq(Reading) /\ ReadFunction \in Seq(Reading)
      <3>1. <<"u16", "functionName">> \in Reading
        BY DEF Reading, Members
      <3> QED
        BY <3>1, FunctionTyped
    <2>3. Covers(FunctionReads, Then(name, ReadFunction))
      <3> HIDE DEF name
      <3> QED
        BY <2>1, <2>2, ReadsCovered, CoversBoth
    <2>4. Vector["numFunctions"].element = Then(name, ReadFunction)
      BY DEF Vector, Then
    <2> QED
      BY <1>9, <2>3, <2>4 DEF Branch, FunctionHome, Home
  <1>10. CASE b = Branch(FunctionHome, "numParams", <<"numParams", "params">>, ParamHome)
    <2>1. Covers({<<"u16", "name">>, <<"u16", "type">>}, ReadVariableType)
      BY DEF Covers, Alternatives, ReadVariableType
    <2> QED
      BY <1>10, <2>1 DEF Branch, ParamHome, Home, Vector
  <1>11. CASE b = Branch(FunctionHome, "numLocals", <<"numLocals", "locals">>, LocalHome)
    <2>1. Covers({<<"u16", "name">>, <<"u16", "type">>}, ReadVariableType)
      BY DEF Covers, Alternatives, ReadVariableType
    <2> QED
      BY <1>11, <2>1 DEF Branch, LocalHome, Home, Vector
  <1>12. CASE b = Branch(FunctionHome, "numInstructions",
                         <<"numInstructions", "instructions">>, InstructionHome)
    <2>1. Covers(InstructionReads, << <<"opcode", "op">> >>)
      BY DEF Covers, Alternatives, InstructionReads
    <2> QED
      BY <1>12, <2>1 DEF Branch, InstructionHome, Home, Vector
  <1> QED
    BY <1>1, <1>2, <1>3, <1>4, <1>5, <1>6, <1>7, <1>8, <1>9, <1>10, <1>11, <1>12
       DEF Branches

\* A branch follows a link, from home to home.
LEMMA BranchesAre ==
    ASSUME NEW b \in Branches
    PROVE  /\ b.from \in Homes /\ b.to \in Homes
           /\ <<b.from.chain, b.step>> \in Links
           /\ b.to.chain = Append(b.from.chain, b.step)
           /\ b.count \in DOMAIN Vector /\ b.step[2] = Vector[b.count].name
           /\ {<<"count", b.count>>, <<"loop", b.count>>} \subseteq b.from.reads
  <1>1. b.from \in Homes /\ b.to \in Homes
    BY DEF Branches, Branch, Homes
  <1>2. /\ RootHome.chain = << >> /\ StringHome.chain = StringAt
        /\ DebugHome.chain = DebugFunctionAt /\ LineHome.chain = LineAt
        /\ FlagHome.chain = UserFlagAt /\ ObjectHome.chain = ObjectAt
        /\ VariableHome.chain = VariableAt /\ PropertyHome.chain = PropertyAt
        /\ StateHome.chain = StateAt /\ FunctionHome.chain = FunctionAt
        /\ InstructionHome.chain = InstructionAt
        /\ ParamHome.chain = ParamAt /\ LocalHome.chain = LocalAt
    BY DEF RootHome, StringHome, DebugHome, LineHome, FlagHome, ObjectHome,
       VariableHome, PropertyHome, StateHome, FunctionHome, InstructionHome,
       ParamHome, LocalHome, Home
  <1>3. <<b.from.chain, b.step>> \in Links
    BY <1>2 DEF Branches, Branch, Links
  <1>4. b.to.chain = Append(b.from.chain, b.step)
    <2>1. \A f, c, s, t : b = Branch(f, c, s, t) => b.from = f /\ b.step = s /\ b.to = t
      BY DEF Branch
    <2>2. \/ b = Branch(RootHome, "count", <<"count", "strings">>, StringHome)
          \/ b = Branch(RootHome, "functionCount", <<"functionCount", "functions">>, DebugHome)
          \/ b = Branch(DebugHome, "instructionCount", <<"size()", "lineNumbers">>, LineHome)
          \/ b = Branch(RootHome, "userFlagCount", <<"userFlagCount", "userFlags">>, FlagHome)
          \/ b = Branch(RootHome, "objectCount", <<"objectCount", "objects">>, ObjectHome)
          \/ b = Branch(ObjectHome, "numVariables", <<"numVariables", "variables">>, VariableHome)
          \/ b = Branch(ObjectHome, "numProperties", <<"numProperties", "properties">>,
                        PropertyHome)
          \/ b = Branch(ObjectHome, "numStates", <<"numStates", "states">>, StateHome)
          \/ b = Branch(StateHome, "numFunctions", <<"numFunctions", "functions">>, FunctionHome)
          \/ b = Branch(FunctionHome, "numParams", <<"numParams", "params">>, ParamHome)
          \/ b = Branch(FunctionHome, "numLocals", <<"numLocals", "locals">>, LocalHome)
          \/ b = Branch(FunctionHome, "numInstructions", <<"numInstructions", "instructions">>,
                        InstructionHome)
      BY DEF Branches
    <2>3. /\ StringHome.chain = Append(RootHome.chain, <<"count", "strings">>)
          /\ DebugHome.chain = Append(RootHome.chain, <<"functionCount", "functions">>)
          /\ LineHome.chain = Append(DebugHome.chain, <<"size()", "lineNumbers">>)
          /\ FlagHome.chain = Append(RootHome.chain, <<"userFlagCount", "userFlags">>)
          /\ ObjectHome.chain = Append(RootHome.chain, <<"objectCount", "objects">>)
          /\ VariableHome.chain = Append(ObjectHome.chain, <<"numVariables", "variables">>)
          /\ PropertyHome.chain = Append(ObjectHome.chain, <<"numProperties", "properties">>)
          /\ StateHome.chain = Append(ObjectHome.chain, <<"numStates", "states">>)
          /\ FunctionHome.chain = Append(StateHome.chain, <<"numFunctions", "functions">>)
          /\ ParamHome.chain = Append(FunctionHome.chain, <<"numParams", "params">>)
          /\ LocalHome.chain = Append(FunctionHome.chain, <<"numLocals", "locals">>)
          /\ InstructionHome.chain
                = Append(FunctionHome.chain, <<"numInstructions", "instructions">>)
      BY <1>2, ChainsAre
    <2>4. \A f, c, s, t : b = Branch(f, c, s, t) /\ t.chain = Append(f.chain, s)
                              => b.to.chain = Append(b.from.chain, b.step)
      BY <2>1, Zenon
    <2> QED
      BY <2>2, <2>3, <2>4
  <1>5. b.count \in DOMAIN Vector /\ b.step[2] = Vector[b.count].name
    BY VectorDomain, VectorNamesAre DEF Branches, Branch
  <1>6. {<<"count", b.count>>, <<"loop", b.count>>} \subseteq b.from.reads
    <2>1. /\ Repeated({"count", "functionCount", "userFlagCount", "objectCount"})
                \subseteq RootHome.reads
          /\ Repeated({"instructionCount"}) \subseteq DebugHome.reads
          /\ Repeated({"numVariables", "numProperties", "numStates"}) \subseteq ObjectHome.reads
          /\ Repeated({"numFunctions"}) \subseteq StateHome.reads
          /\ Repeated({"numParams", "numLocals", "numInstructions"})
                \subseteq FunctionHome.reads
      BY DEF RootHome, DebugHome, ObjectHome, StateHome, FunctionHome, Home, RootReads,
         DebugReads, ObjectReads, FunctionReads
    <2>2. \A S : \A c \in S : {<<"count", c>>, <<"loop", c>>} \subseteq Repeated(S)
      BY DEF Repeated
    <2> QED
      BY <2>1, <2>2 DEF Branches, Branch
  <1> QED
    BY <1>1, <1>3, <1>4, <1>5, <1>6

\* At which homes the parser's steps of each kind are.
LEMMA KindsAtHome ==
    ASSUME NEW h \in Homes, NEW k, NEW f, <<k, f>> \in h.reads
    PROVE  /\ k = "string" => <<"payload", f>> \in h.reads /\ f \in Strings
           /\ k = "debugFlag" => h = RootHome
           /\ k = "objectSize" => h = ObjectHome
           /\ k = "propertyFlags" => h = PropertyHome
           /\ k = "type" => h \in {VariableHome, ArgumentHome} /\ f = "type"
           /\ k \in {"opcode", "callArguments", "push"} => h = InstructionHome
           /\ k = "opcode" => f = "op"
  <1>1. CASE h = RootHome
    BY <1>1 DEF RootHome, Home, RootReads, Stringed, Repeated, Strings
  <1>2. CASE h = StringHome
    BY <1>2 DEF StringHome, Home, Stringed, Strings
  <1>3. CASE h = DebugHome
    BY <1>3 DEF DebugHome, Home, DebugReads, Repeated, Strings
  <1>4. CASE h = LineHome
    BY <1>4 DEF LineHome, Home, Strings
  <1>5. CASE h = FlagHome
    BY <1>5 DEF FlagHome, Home, Strings
  <1>6. CASE h = ObjectHome
    BY <1>6 DEF ObjectHome, Home, ObjectReads, Repeated, Strings
  <1>7. CASE h = VariableHome
    BY <1>7 DEF VariableHome, Home, VariableReads, DataReads, Strings
  <1>8. CASE h = PropertyHome
    BY <1>8 DEF PropertyHome, Home, PropertyReads, Strings
  <1>9. CASE h = StateHome
    BY <1>9 DEF StateHome, Home, Repeated, Strings
  <1>10. CASE h = FunctionHome
    BY <1>10 DEF FunctionHome, Home, FunctionReads, Repeated, Strings
  <1>11. CASE h = InstructionHome
    BY <1>11 DEF InstructionHome, Home, InstructionReads, Strings
  <1>12. CASE h = ArgumentHome
    BY <1>12 DEF ArgumentHome, Home, DataReads, Strings
  <1>13. CASE h = ParamHome
    BY <1>13 DEF ParamHome, Home, Strings
  <1>14. CASE h = LocalHome
    BY <1>14 DEF LocalHome, Home, Strings
  <1> QED
    BY <1>1, <1>2, <1>3, <1>4, <1>5, <1>6, <1>7, <1>8, <1>9, <1>10, <1>11, <1>12, <1>13, <1>14
       DEF Homes

\* A count or a loop at home has a branch.
LEMMA CountsAtHome ==
    ASSUME NEW h \in Homes, NEW k \in {"count", "loop"}, NEW f, <<k, f>> \in h.reads
    PROVE  \E b \in Branches : b.from = h /\ b.count = f
  <1>0. \A from, c, s, t : LET b == Branch(from, c, s, t) IN
                            b \in Branches /\ h = from /\ f = c =>
                               \E e \in Branches : e.from = h /\ e.count = f
    BY DEF Branch
  <1>1. \/ h = RootHome /\ f \in {"count", "functionCount", "userFlagCount", "objectCount"}
        \/ h = DebugHome /\ f = "instructionCount"
        \/ h = ObjectHome /\ f \in {"numVariables", "numProperties", "numStates"}
        \/ h = StateHome /\ f = "numFunctions"
        \/ h = FunctionHome /\ f \in {"numParams", "numLocals", "numInstructions"}
    <2>1. CASE h = RootHome
      BY <2>1 DEF RootHome, Home, RootReads, Stringed, Repeated
    <2>2. CASE h = StringHome
      BY <2>2 DEF StringHome, Home, Stringed
    <2>3. CASE h = DebugHome
      BY <2>3 DEF DebugHome, Home, DebugReads, Repeated
    <2>4. CASE h = LineHome
      BY <2>4 DEF LineHome, Home
    <2>5. CASE h = FlagHome
      BY <2>5 DEF FlagHome, Home
    <2>6. CASE h = ObjectHome
      BY <2>6 DEF ObjectHome, Home, ObjectReads, Repeated
    <2>7. CASE h = VariableHome
      BY <2>7 DEF VariableHome, Home, VariableReads, DataReads
    <2>8. CASE h = PropertyHome
      BY <2>8 DEF PropertyHome, Home, PropertyReads
    <2>9. CASE h = StateHome
      BY <2>9 DEF StateHome, Home, Repeated
    <2>10. CASE h = FunctionHome
      BY <2>10 DEF FunctionHome, Home, FunctionReads, Repeated
    <2>11. CASE h = InstructionHome
      BY <2>11 DEF InstructionHome, Home, InstructionReads
    <2>12. CASE h = ArgumentHome
      BY <2>12 DEF ArgumentHome, Home, DataReads
    <2>13. CASE h = ParamHome
      BY <2>13 DEF ParamHome, Home
    <2>14. CASE h = LocalHome
      BY <2>14 DEF LocalHome, Home
    <2> QED
      BY <2>1, <2>2, <2>3, <2>4, <2>5, <2>6, <2>7, <2>8, <2>9, <2>10, <2>11, <2>12, <2>13, <2>14
         DEF Homes
  <1> QED
    BY <1>0, <1>1 DEF Branches

\* The goal g is at home: it reads of a record an accessor reaches, and of the
\* data of a variable or an argument the alternative its type asks for; or it
\* reads of a handler, or nothing.
Homed(g, d) ==
    \/ g.kind = "objectEnd" \/ Handled(g.path)
    \/ \E h \in Homes :
          /\ g.path \in Reached(d, h.chain) /\ <<g.kind, g.field>> \in h.reads
          /\ g.field \in Alternatives => g.field = Alternative(Value(d, g.path, "type"))

\* A table that is covered at a home is at home there.
LEMMA TableHomed ==
    ASSUME NEW d, NEW h \in Homes, NEW path \in Reached(d, h.chain), NEW body,
           Covers(h.reads, body)
    PROVE  \A x \in Of(Reads(body, path)) : Homed(x, d)
  <1> SUFFICES ASSUME NEW x \in Of(Reads(body, path)) PROVE Homed(x, d)
    OBVIOUS
  <1>1. PICK i \in DOMAIN body : x = Goal(body[i][1], path, body[i][2], 0)
    BY DEF Of, Reads
  <1>2. x.path = path /\ x.kind = body[i][1] /\ x.field = body[i][2]
    BY <1>1 DEF Goal
  <1> QED
    BY <1>2 DEF Homed, Covers

\* ... and a table read of a handler is, whatever it has.
LEMMA TableHandled ==
    ASSUME NEW d, NEW path, Handled(path), NEW body
    PROVE  \A x \in Of(Reads(body, path)) : Homed(x, d)
  BY DEF Of, Reads, Goal, Homed

\* The argument at an index below the size is reached.
LEMMA ArgumentHomed ==
    ASSUME NEW d, NEW q \in Reached(d, InstructionAt), NEW i \in 1..Size(d, q, "arguments")
    PROVE  Homed(ReadArgument(q, i), d)
  <1> DEFINE l == << InstructionAt, <<"size()", "arguments">> >>
  <1>1. /\ l \in Links /\ l[1] = InstructionAt /\ l[2] = <<"size()", "arguments">>
        /\ Append(l[1], l[2]) = ArgumentAt /\ l[2][2] = "arguments"
    BY ChainsAre DEF Links
  <1>2. Bound(d, q, l[2]) = Size(d, q, "arguments")
    BY <1>1 DEF Bound
  <1> HIDE DEF l
  <1>3. Child(q, "arguments", i) \in Reached(d, ArgumentAt)
    BY <1>1, <1>2, ReachedChild
  <1>4. ArgumentHome \in Homes /\ ArgumentHome.chain = ArgumentAt /\ ArgumentHome.reads = DataReads
    BY DEF Homes, ArgumentHome, Home
  <1>5. <<"type", "type">> \in DataReads /\ "type" \notin Alternatives
    BY DEF DataReads, Alternatives
  <1> QED
    BY <1>3, <1>4, <1>5 DEF Homed, ReadArgument, Goal

\* The goals an opcode leads to.
LEMMA OpcodeGoals ==
    ASSUME NEW q, NEW v
    PROVE  \A x \in Of(Then(FirstOf(q, HeaderArgumentCount(v)), CallGoal(q, v))) :
              \/ \E i \in 1..HeaderArgumentCount(v) : x = ReadArgument(q, i)
              \/ x.kind = "callArguments" /\ x.path = q /\ x.field = "op"
  <1> DEFINE n == HeaderArgumentCount(v)
             g == Goal("callArguments", q, "op", n)
             S == {ReadArgument(q, i) : i \in 1..n} \cup {g}
  <1>1. n \in Nat
    BY HeaderTyped
  <1> HIDE DEF n
  <1>2. FirstOf(q, n) \in Seq(S)
    <2>1. FirstOf(q, n) \in [1..n -> S]
      BY DEF FirstOf
    <2> HIDE DEF S
    <2> QED
      BY <1>1, <2>1
  <1>3. CallGoal(q, v) \in Seq(S) /\ Of(CallGoal(q, v)) \subseteq {g}
    <2>1. CallGoal(q, v) = <<g>> \/ CallGoal(q, v) = << >>
      BY DEF CallGoal, n
    <2>2. g \in S
      OBVIOUS
    <2> HIDE DEF S, g
    <2>3. CASE CallGoal(q, v) = <<g>>
      BY <2>2, <2>3, OfFew
    <2>4. CASE CallGoal(q, v) = << >>
      BY <2>4, OfFew
    <2> QED
      BY <2>1, <2>3, <2>4
  <1>4. ASSUME NEW x \in Of(FirstOf(q, n)) PROVE \E i \in 1..n : x = ReadArgument(q, i)
    BY <1>4 DEF Of, FirstOf
  <1>5. Of(Then(FirstOf(q, n), CallGoal(q, v))) = Of(FirstOf(q, n)) \cup Of(CallGoal(q, v))
    <2> HIDE DEF S
    <2> QED
      BY <1>2, <1>3, OfThen
  <1>6. g.kind = "callArguments" /\ g.path = q /\ g.field = "op"
    BY DEF Goal
  <1> HIDE DEF g
  <1> QED
    BY <1>3, <1>4, <1>5, <1>6 DEF n

\* What a goal of a handler leads to is of the handler, too.
LEMMA LeadsHandled ==
    ASSUME NEW d, NEW g \in Goals, Handled(g.path), NEW x \in Leads(g, d)
    PROVE  Homed(x, d)
  <1>0. /\ g.path \in Path /\ g.n \in Nat
        /\ \A body, path : Handled(path) => \A y \in Of(Reads(body, path)) : Homed(y, d)
        /\ \A y : y.path = g.path => Homed(y, d)
        /\ {"readHandler", "writeHandler", "arguments"} \subseteq Parts
    BY TableHandled DEF Goals, Homed, Parts
  <1>1. CASE g.kind \in {"string", "count"}
    BY <1>0, <1>1 DEF Leads, Goal
  <1>2. CASE g.kind = "loop"
    <2>1. /\ Vector[g.field].name \in Parts /\ g.n + 1 \in Nat
          /\ Handled(Child(g.path, Vector[g.field].name, g.n + 1))
      <3>1. Vector[g.field].name \in Parts
        BY <1>2 DEF Goals, Parts
      <3> QED
        BY <1>0, <3>1, HandledChild
    <2>2. x \in Turn(g)
      BY <1>2 DEF Leads
    <2>3. x = [g EXCEPT !.n = g.n + 1] => x.path = g.path
      BY DEF Goals
    <2> QED
      BY <1>0, <2>1, <2>2, <2>3 DEF Turn
  <1>3. CASE g.kind \in {"debugFlag", "objectSize", "type"}
    BY <1>0, <1>3 DEF Leads
  <1>4. CASE g.kind = "propertyFlags"
    <2>1. x \in Flagged(g.path, Value(d, g.path, g.field))
      BY <1>4 DEF Leads
    <2>2. Handled(Child(g.path, "readHandler", 0)) /\ Handled(Child(g.path, "writeHandler", 0))
      BY <1>0, HandledChild
    <2> QED
      BY <1>0, <2>1, <2>2 DEF Flagged, Handler
  <1>5. CASE g.kind = "opcode"
    <2> DEFINE v == Value(d, g.path, g.field)
               n == HeaderArgumentCount(v)
    <2>1. x \in Of(Then(FirstOf(g.path, n), CallGoal(g.path, v)))
      BY <1>5 DEF Leads
    <2>2. CASE \E i \in 1..n : x = ReadArgument(g.path, i)
      <3>1. PICK i \in 1..n : x = ReadArgument(g.path, i)
        BY <2>2
      <3>2. x.path = Child(g.path, "arguments", i) /\ i \in Nat
        BY <3>1 DEF ReadArgument, Goal
      <3> QED
        BY <1>0, <3>2, HandledChild DEF Homed
    <2>3. CASE x.path = g.path
      BY <1>0, <2>3
    <2> QED
      BY <2>1, <2>2, <2>3, OpcodeGoals
  <1>6. CASE g.kind = "callArguments"
    <2> DEFINE m == Size(d, g.path, "arguments") - g.n
    <2>1. x \in Of(Further(g.path, g.n, m))
      BY <1>6 DEF Leads
    <2> HIDE DEF m
    <2>2. PICK i \in 1..(2 * m) :
             x = IF i % 2 = 1 THEN ReadArgument(g.path, g.n + (i + 1) \div 2)
                 ELSE Goal("push", g.path, "arguments", 0)
      BY <2>1 DEF Of, Further
    <2>3. g.n + (i + 1) \div 2 \in Nat
      BY <1>0
    <2>4. x.path \in {g.path, Child(g.path, "arguments", g.n + (i + 1) \div 2)}
      BY <2>2 DEF ReadArgument, Goal
    <2> QED
      BY <1>0, <2>3, <2>4, HandledChild DEF Homed
  <1>7. CASE g.kind \notin {"string", "count", "loop", "debugFlag", "objectSize", "type",
                            "propertyFlags", "opcode", "callArguments"}
    BY <1>7 DEF Leads
  <1> QED
    BY <1>1, <1>2, <1>3, <1>4, <1>5, <1>6, <1>7

\* An index below its bound is one below the count a loop runs to.
LEMMA BranchBound ==
    ASSUME NEW d, Even(d), NEW b \in Branches, NEW path
    PROVE  Bound(d, path, b.step) = Value(d, path, b.count)
  <1>1. \/ b.step[1] = b.count /\ b.count # "size()"
        \/ b.step[1] = "size()" /\ b.count = "instructionCount"
    BY DEF Branches, Branch
  <1>2. CASE b.step[1] = b.count /\ b.count # "size()"
    BY <1>2 DEF Bound
  <1>3. CASE b.step[1] = "size()" /\ b.count = "instructionCount"
    <2>1. /\ b.count \in DOMAIN Vector /\ b.step[2] = Vector[b.count].name
          /\ HasCount(path, b.count)
      BY <1>3, BranchesAre DEF HasCount
    <2>2. Value(d, path, b.count) = Size(d, path, b.step[2])
      BY <2>1 DEF Even
    <2> QED
      BY <1>3, <2>2 DEF Bound
  <1> QED
    BY <1>1, <1>2, <1>3

\* A turn of a loop at home leads to the element of its vector, which is at
\* home, and to the next turn.
LEMMA TurnHomed ==
    ASSUME NEW d, Even(d), NEW g \in Goals, g.kind = "loop",
           NEW h \in Homes, g.path \in Reached(d, h.chain), <<g.kind, g.field>> \in h.reads,
           g.field \in Alternatives => g.field = Alternative(Value(d, g.path, "type")),
           Value(d, g.path, g.field) \in Nat, g.n < Value(d, g.path, g.field),
           NEW x \in Turn(g)
    PROVE  Homed(x, d)
  <1> DEFINE child == Child(g.path, Vector[g.field].name, g.n + 1)
  <1>1. CASE x = [g EXCEPT !.n = g.n + 1]
    <2>1. x.kind = g.kind /\ x.path = g.path /\ x.field = g.field
      BY <1>1 DEF Goals
    <2> QED
      BY <2>1 DEF Homed
  <1>2. CASE x \in Of(Reads(Vector[g.field].element, child))
    <2>1. PICK b \in Branches : b.from = h /\ b.count = g.field
      BY CountsAtHome
    <2> DEFINE l == <<b.from.chain, b.step>>
    <2>2. /\ b.to \in Homes /\ l \in Links /\ b.to.chain = Append(l[1], l[2])
          /\ l[1] = h.chain /\ l[2] = b.step
          /\ b.step[2] = Vector[g.field].name
      BY <2>1, BranchesAre
    <2>3. g.n + 1 \in 1..Bound(d, g.path, l[2])
      <3>1. Bound(d, g.path, l[2]) = Value(d, g.path, g.field)
        BY <2>1, <2>2, BranchBound
      <3>2. g.n \in Nat
        BY DEF Goals
      <3> QED
        BY <3>1, <3>2
    <2> HIDE DEF l
    <2>4. Child(g.path, l[2][2], g.n + 1) \in Reached(d, Append(l[1], l[2]))
      BY <2>2, <2>3, ReachedChild
    <2>5. child \in Reached(d, b.to.chain)
      BY <2>2, <2>4
    <2>6. Covers(b.to.reads, Vector[g.field].element)
      BY <2>1, ElementsCovered
    <2> HIDE DEF child
    <2> QED
      BY <1>2, <2>2, <2>5, <2>6, TableHomed
  <1> QED
    BY <1>1, <1>2 DEF Turn

\* A type leads to the alternative that is shown for it.
LEMMA TypeHomed ==
    ASSUME NEW d, NEW path, NEW h \in {VariableHome, ArgumentHome},
           path \in Reached(d, h.chain), Value(d, path, "type") \in 0..5,
           NEW x \in Of(Reads(ReadVariableData[Value(d, path, "type")], path))
    PROVE  Homed(x, d)
  <1> DEFINE v == Value(d, path, "type")
             body == ReadVariableData[v]
  <1>1. \A i \in DOMAIN body :
           <<body[i][1], body[i][2]>> \in DataReads /\ body[i][2] = Alternative(v)
    BY DEF ReadVariableData, DataReads, Alternative
  <1>2. h \in Homes /\ DataReads \subseteq h.reads
    BY DEF Homes, VariableHome, ArgumentHome, Home, VariableReads
  <1>3. PICK i \in DOMAIN body : x = Goal(body[i][1], path, body[i][2], 0)
    BY DEF Of, Reads
  <1>4. x.path = path /\ x.kind = body[i][1] /\ x.field = body[i][2]
    BY <1>3 DEF Goal
  <1> QED
    BY <1>1, <1>2, <1>4 DEF Homed

\* The flags of a property lead to the name of its variable, which is shown,
\* and to its handlers.
LEMMA FlagsHomed ==
    ASSUME NEW d, NEW path \in Path, path \in Reached(d, PropertyHome.chain), NEW v,
           NEW x \in Flagged(path, v)
    PROVE  Homed(x, d)
  <1>1. CASE x \in Of(Reads(<< <<"u16", "autoVarName">> >>, path))
    <2>1. PropertyHome \in Homes /\ PropertyHome.reads = PropertyReads
      BY DEF Homes, PropertyHome, Home
    <2>2. Covers(PropertyReads, << <<"u16", "autoVarName">> >>)
      BY ReadsCovered
    <2> QED
      BY <1>1, <2>1, <2>2, TableHomed
  <1>2. CASE \E name \in Handlers : x \in Of(Reads(ReadFunction, Child(path, name, 0)))
    <2>1. PICK name \in Handlers : x \in Of(Reads(ReadFunction, Child(path, name, 0)))
      BY <1>2
    <2>2. Handled(Child(path, name, 0))
      BY HandledChild DEF Handlers, Parts
    <2> QED
      BY <2>1, <2>2, TableHandled
  <1>3. {"readHandler", "writeHandler"} = Handlers
    BY DEF Handlers
  <1> QED
    BY <1>1, <1>2, <1>3 DEF Flagged, Handler

\* An instruction has the arguments its opcode asks for.
LEMMA HeaderIsThere ==
    ASSUME NEW d, Shaped(d), NEW path \in Path
    PROVE  /\ HeaderArgumentCount(Value(d, path, "op")) <= Size(d, path, "arguments")
           /\ Size(d, path, "arguments") \in Nat
  <1>1. HeaderArgumentCount(Value(d, path, "op")) \in Nat
    BY HeaderTyped
  <1>2. Instructed(d, path, Size(d, path, "arguments"))
    BY DEF Shaped
  <1> QED
    BY <1>1, <1>2 DEF Instructed

\* The opcode of an instruction, and a call, lead to arguments it has.
LEMMA InstructionHomed ==
    ASSUME NEW d, Shaped(d), NEW g \in Goals, g.kind \in {"opcode", "callArguments"},
           g.kind = "opcode" => g.field = "op",
           g.path \in Reached(d, InstructionAt), NEW x \in Leads(g, d)
    PROVE  Homed(x, d)
  <1> DEFINE q == g.path
             k == Size(d, q, "arguments")
  <1>1. InstructionHome \in Homes /\ InstructionHome.chain = InstructionAt
        /\ InstructionHome.reads = InstructionReads
    BY DEF Homes, InstructionHome, Home
  <1>2. {<<"callArguments", "op">>, <<"push", "arguments">>} \subseteq InstructionReads
        /\ "op" \notin Alternatives /\ "arguments" \notin Alternatives
    BY DEF InstructionReads, Alternatives
  <1>3. q \in Path /\ g.n \in Nat
    BY DEF Goals
  <1>4. HeaderArgumentCount(Value(d, q, "op")) <= k /\ k \in Nat
    BY <1>3, HeaderIsThere
  <1>5. \A i \in 1..k : Homed(ReadArgument(q, i), d)
    BY ArgumentHomed
  <1> HIDE DEF k
  <1>6. CASE g.kind = "opcode"
    <2> DEFINE v == Value(d, q, "op")
    <2>1. x \in Of(Then(FirstOf(q, HeaderArgumentCount(v)), CallGoal(q, v)))
      BY <1>6 DEF Leads
    <2>2. HeaderArgumentCount(v) \in Nat
      BY HeaderTyped
    <2> HIDE DEF v
    <2>3. CASE \E i \in 1..HeaderArgumentCount(v) : x = ReadArgument(q, i)
      BY <1>4, <1>5, <2>2, <2>3 DEF v
    <2>4. CASE x.kind = "callArguments" /\ x.path = q /\ x.field = "op"
      BY <1>1, <1>2, <2>4 DEF Homed
    <2> QED
      BY <2>1, <2>3, <2>4, OpcodeGoals
  <1>7. CASE g.kind = "callArguments"
    <2> DEFINE m == k - g.n
    <2>1. x \in Of(Further(q, g.n, m))
      BY <1>7 DEF Leads, k
    <2>2. PICK i \in 1..(2 * m) :
             x = IF i % 2 = 1 THEN ReadArgument(q, g.n + (i + 1) \div 2)
                 ELSE Goal("push", q, "arguments", 0)
      BY <2>1 DEF Of, Further
    <2>3. CASE i % 2 = 1
      <3>1. g.n + (i + 1) \div 2 \in 1..k
        BY <1>3, <1>4, <2>3
      <3> QED
        BY <1>5, <2>2, <2>3, <3>1
    <2>4. CASE i % 2 # 1
      <3>1. x.kind = "push" /\ x.path = q /\ x.field = "arguments"
        BY <2>2, <2>4 DEF Goal
      <3> QED
        BY <1>1, <1>2, <3>1 DEF Homed
    <2> QED
      BY <2>3, <2>4
  <1> QED
    BY <1>6, <1>7

\* What a goal at home leads to is at home.
LEMMA LeadsHomed ==
    ASSUME NEW d, IsData(d), Even(d), Shaped(d), NEW g \in Goals, Homed(g, d),
           g.kind = "type" => Value(d, g.path, g.field) <= 5,
           NEW x \in Leads(g, d)
    PROVE  Homed(x, d)
  <1>0. g.path \in Path /\ g.n \in Nat /\ Value(d, g.path, g.field) \in Nat
    BY ValueTyped DEF Goals
  <1>1. CASE g.kind = "objectEnd"
    BY <1>1 DEF Leads
  <1>2. CASE Handled(g.path)
    BY <1>2, LeadsHandled
  <1>3. CASE \E h \in Homes :
                /\ g.path \in Reached(d, h.chain) /\ <<g.kind, g.field>> \in h.reads
                /\ g.field \in Alternatives
                      => g.field = Alternative(Value(d, g.path, "type"))
    <2> PICK h \in Homes :
                /\ g.path \in Reached(d, h.chain) /\ <<g.kind, g.field>> \in h.reads
                /\ g.field \in Alternatives
                      => g.field = Alternative(Value(d, g.path, "type"))
      BY <1>3
    <2>0. /\ g.kind = "string" => <<"payload", g.field>> \in h.reads /\ g.field \in Strings
          /\ g.kind = "debugFlag" => h = RootHome
          /\ g.kind = "objectSize" => h = ObjectHome
          /\ g.kind = "propertyFlags" => h = PropertyHome
          /\ g.kind = "type" => h \in {VariableHome, ArgumentHome} /\ g.field = "type"
          /\ g.kind \in {"opcode", "callArguments", "push"} => h = InstructionHome
          /\ g.kind = "opcode" => g.field = "op"
      BY KindsAtHome
    <2>1. CASE g.kind = "string"
      <3>1. x.kind = "payload" /\ x.path = g.path /\ x.field = g.field
        BY <2>1 DEF Leads, Goal
      <3> QED
        BY <2>0, <2>1, <3>1 DEF Homed
    <2>2. CASE g.kind = "count"
      <3>1. x.kind = "loop" /\ x.path = g.path /\ x.field = g.field
        BY <2>2 DEF Leads, Goal
      <3>2. PICK b \in Branches : b.from = h /\ b.count = g.field
        BY <2>2, CountsAtHome
      <3>3. <<"loop", g.field>> \in h.reads
        BY <3>2, BranchesAre
      <3> QED
        BY <3>1, <3>3 DEF Homed
    <2>3. CASE g.kind = "loop"
      <3>1. g.n < Value(d, g.path, g.field) /\ x \in Turn(g)
        BY <2>3 DEF Leads
      <3> QED
        BY <1>0, <2>3, <3>1, TurnHomed
    <2>4. CASE g.kind = "debugFlag"
      <3>1. x \in Of(Reads(DebugTable, g.path))
        BY <2>4 DEF Leads
      <3>2. Covers(h.reads, DebugTable)
        BY <2>0, <2>4, ReadsCovered DEF RootHome, Home
      <3> QED
        BY <3>1, <3>2, TableHomed
    <2>5. CASE g.kind = "objectSize"
      <3>1. x \in Of(Reads(ReadObjectData, g.path))
        BY <2>5 DEF Leads
      <3>2. Covers(h.reads, ReadObjectData)
        BY <2>0, <2>5, ReadsCovered DEF ObjectHome, Home
      <3> QED
        BY <3>1, <3>2, TableHomed
    <2>6. CASE g.kind = "propertyFlags"
      <3>1. x \in Flagged(g.path, Value(d, g.path, g.field))
        BY <2>6 DEF Leads
      <3> QED
        BY <1>0, <2>0, <2>6, <3>1, FlagsHomed
    <2>7. CASE g.kind = "type"
      <3>1. g.field = "type" /\ Value(d, g.path, "type") \in 0..5
        BY <1>0, <2>0, <2>7
      <3>2. x \in Of(Reads(ReadVariableData[Value(d, g.path, "type")], g.path))
        BY <2>7, <3>1 DEF Leads
      <3> QED
        BY <2>0, <2>7, <3>1, <3>2, TypeHomed
    <2>8. CASE g.kind \in {"opcode", "callArguments"}
      <3>1. h.chain = InstructionAt
        BY <2>0, <2>8 DEF InstructionHome, Home
      <3> QED
        BY <2>0, <2>8, <3>1, InstructionHomed
    <2>9. CASE g.kind \notin {"string", "count", "loop", "debugFlag", "objectSize", "type",
                              "propertyFlags", "opcode", "callArguments"}
      BY <2>9 DEF Leads
    <2> QED
      BY <2>1, <2>2, <2>3, <2>4, <2>5, <2>6, <2>7, <2>8, <2>9
  <1> QED
    BY <1>1, <1>2, <1>3 DEF Homed

\* The goals a Load begins with are at home.
LEMMA LoadHomed ==
    ASSUME NEW d
    PROVE  \A x \in Of(Load) : Homed(x, d)
  <1> DEFINE S == Reading
             one == Then(ReadHeader, ReadStringTable)
             two == Then(one, ReadDebugInfo)
             three == Then(two, ReadUserFlags)
             body == Then(three, ReadObjects)
  <1>1. /\ ReadHeader \in Seq(S) /\ ReadStringTable \in Seq(S) /\ ReadDebugInfo \in Seq(S)
        /\ ReadUserFlags \in Seq(S) /\ ReadObjects \in Seq(S)
    BY DEF Reading, Members, ReadHeader, ReadStringTable, ReadDebugInfo, ReadUserFlags,
       ReadObjects, Vector
  <1>2. /\ Covers(RootReads, ReadHeader) /\ Covers(RootReads, ReadStringTable)
        /\ Covers(RootReads, ReadDebugInfo) /\ Covers(RootReads, ReadUserFlags)
        /\ Covers(RootReads, ReadObjects)
    BY ReadsCovered
  <1> HIDE DEF S
  <1>3. one \in Seq(S) /\ Covers(RootReads, one)
    BY <1>1, <1>2, ThenTyped, CoversBoth
  <1> HIDE DEF one
  <1>4. two \in Seq(S) /\ Covers(RootReads, two)
    BY <1>1, <1>2, <1>3, ThenTyped, CoversBoth
  <1> HIDE DEF two
  <1>5. three \in Seq(S) /\ Covers(RootReads, three)
    BY <1>1, <1>2, <1>4, ThenTyped, CoversBoth
  <1> HIDE DEF three
  <1>6. Covers(RootReads, body)
    BY <1>1, <1>2, <1>5, CoversBoth
  <1>7. Load = Reads(body, << >>)
    BY DEF Load, body, three, two, one, Then
  <1> HIDE DEF body
  <1>8. /\ RootHome \in Homes /\ RootHome.reads = RootReads
        /\ << >> \in Reached(d, RootHome.chain)
    <2>1. RootHome.chain = << >> /\ RootHome \in Homes /\ RootHome.reads = RootReads
      BY DEF RootHome, Home, Homes
    <2> QED
      BY <2>1, ReachedNone DEF Top
  <1> QED
    BY <1>6, <1>7, <1>8, TableHomed

-----------------------------------------------------------------------------
(* What was parsed is at home                                              *)

\* The types among the goals that are done were read, and are types.
TypesKnown(H, p) == \A g \in H : g.kind = "type" => p.val[<<g.path, g.field>>] <= 5

\* A Load visits what it must, and no type that is none.
Surveyed(p, goals) ==
    \A d : Good(d) /\ Fit(d, p, goals) =>
        \E H : Visits(H, p, goals, d) /\ TypesKnown(H, p)

\* The types read before stay; and one that is read is accepted only if it is
\* a type.
LEMMA ReadStepTypes ==
    ASSUME TypeOK, FreshInv, ReadStep, Grows(Fills(head), Measures(head)),
           NEW d, NEW H, Visits(H, parsed, agenda, d), TypesKnown(H, parsed)
    PROVE  TypesKnown(H \cup {head}, parsed')
  <1>0. agenda # << >> /\ head \in Goals
    BY ReadStepLed, HeadTyped
  <1>1. ASSUME NEW g \in H, g.kind = "type"
        PROVE  parsed'.val[<<g.path, g.field>>] <= 5
    <2>1. <<g.path, g.field>> \in Fills(g)
      BY <1>1 DEF Fills, Readings, Width
    <2>2. <<g.path, g.field>> \in DOMAIN parsed.val
      BY <1>1, <2>1 DEF Visits
    <2>3. <<g.path, g.field>> \notin Fills(head)
      <3> SUFFICES ASSUME <<g.path, g.field>> \in Fills(head) PROVE FALSE
        OBVIOUS
      <3>1. head.kind \in Readings /\ <<g.path, g.field>> = <<head.path, head.field>>
        BY DEF Fills
      <3>2. <<head.path, head.field>> \notin DOMAIN parsed.val
        BY <1>0, <3>1, HeadSets DEF Readings
      <3> QED
        BY <2>2, <3>1, <3>2
    <2>4. parsed'.val[<<g.path, g.field>>] = parsed.val[<<g.path, g.field>>]
      BY <2>2, <2>3 DEF Grows, Extends
    <2> QED
      BY <1>1, <2>4 DEF TypesKnown
  <1>2. ASSUME head.kind = "type"
        PROVE  parsed'.val[<<head.path, head.field>>] <= 5
    <2>1. ReadType
      BY <1>2 DEF ReadStep, ReadScalar, ReadLength, ReadCount, NextElement, ReadDebugFlag,
         ReadObjectSize, ObjectEnds, ReadPropertyFlags, ReadOpcode,
         ReadCallArguments, PushArgument, At
    <2>2. PICK v \in Seen(1) : parsed' = WithValue(v) /\ ~Rejects(v)
      BY <2>1 DEF ReadType, Consume
    <2>3. ~(v > 5)
      BY <1>2, <2>2 DEF Rejects
    <2>4. parsed'.val[<<head.path, head.field>>] = v
      BY <2>2, GrowsByValue
    <2>5. v \in Nat
      BY <1>0, <2>1, SeenTyped DEF ReadType, At, Width
    <2> QED
      BY <2>3, <2>4, <2>5
  <1> QED
    BY <1>1, <1>2 DEF TypesKnown

\* Every step of the parser keeps what was surveyed.
LEMMA ReadStepSurveys ==
    ASSUME TypeOK, FreshInv, Narrow, ObjectsComeLast, ReadStep, Surveyed(parsed, agenda)
    PROVE  Surveyed(parsed', agenda')
  <1> SUFFICES ASSUME NEW d, Good(d), Fit(d, parsed', agenda')
               PROVE  \E H : Visits(H, parsed', agenda', d) /\ TypesKnown(H, parsed')
    BY DEF Surveyed
  <1>1. Fit(d, parsed, agenda)
    BY ReadStepFollows DEF Follows
  <1>2. PICK H : Visits(H, parsed, agenda, d) /\ TypesKnown(H, parsed)
    BY <1>1 DEF Surveyed
  <1>3. PICK more \in Seq(Goals) :
           /\ agenda # << >> /\ agenda' = Then(more, Tail(agenda))
           /\ Grows(Fills(head), Measures(head)) /\ Led(more, d)
    BY ReadStepLed
  <1>4. Visits(H \cup {head}, parsed', agenda', d)
    BY <1>2, <1>3, VisitStep
  <1>5. TypesKnown(H \cup {head}, parsed')
    BY <1>2, <1>3, ReadStepTypes
  <1> QED
    BY <1>4, <1>5

\* A Load begins with nothing visited but the ends, which are no types.
LEMMA LoadSurveys == Surveyed(EmptyData, Load)
  <1>1. Of(Load) \subseteq Goals
    BY LoadStraight, OfTyped DEF Straight
  <1>2. \A g \in Ends : Fills(g) = {} /\ Measures(g) = {} /\ g.kind # "type"
    BY DEF Ends, Fills, Measures, Readings, Width
  <1>3. \A d : \A g \in Ends : Leads(g, d) = {}
    BY DEF Ends, Leads
  <1>4. \A d : Visits(Ends, EmptyData, Load, d)
    BY <1>1, <1>2, <1>3 DEF Visits, Closed, EmptyData, Ends
  <1>5. TypesKnown(Ends, EmptyData)
    BY <1>2 DEF TypesKnown
  <1> QED
    BY <1>4, <1>5 DEF Surveyed

\* The invariant of a single Load.
SurveyInv == CodecInv /\ ShapesInv /\ (load = "parsing" => Surveyed(parsed, agenda))

\* It holds at first,
LEMMA InitSurvey == Init => SurveyInv
  BY InitCodec, InitShapes DEF SurveyInv, Init, NoCall

\* ... and every step keeps it.
LEMMA NextSurvey == SurveyInv /\ [Next]_vars => SurveyInv'
  <1> SUFFICES ASSUME SurveyInv, [Next]_vars PROVE SurveyInv'
    OBVIOUS
  <1>0. TypeOK /\ FreshInv /\ Narrow /\ ObjectsComeLast
    BY DEF SurveyInv, CodecInv, VectorInv, ParseInv
  <1>1. CodecInv' /\ ShapesInv'
    BY <1>0, NextCodec, NextShapes DEF SurveyInv
  <1>2. CASE PlaceFile \/ RefuseFile \/ UNCHANGED vars
    BY <1>1, <1>2 DEF PlaceFile, RefuseFile, vars, SurveyInv
  <1>3. CASE OpenFile
    BY <1>1, <1>3, LoadSurveys DEF OpenFile, SurveyInv
  <1>4. CASE ReadStep
    <2>1. load = "parsing"
      BY <1>0, <1>4, ReadStepFollows
    <2>2. Surveyed(parsed', agenda')
      BY <1>0, <1>4, <2>1, ReadStepSurveys DEF SurveyInv
    <2> QED
      BY <1>1, <2>2 DEF SurveyInv
  <1>5. CASE Throw \/ Commit
    BY <1>1, <1>5 DEF Throw, ReadFails, ValueRefused, ObjectSizeMismatch, CallRefused, Commit,
       EndCall, SurveyInv
  <1> QED
    BY <1>2, <1>3, <1>4, <1>5 DEF Next, LoadStep

\* All that d holds is what goals at home set.
Housed(d) ==
    \E H : /\ H \subseteq Goals
           /\ \A g \in H : Homed(g, d)
           /\ \A k \in DOMAIN d.val : \E g \in H : k \in Fills(g)
           /\ \A k \in DOMAIN d.len : \E g \in H : k \in Measures(g)

\* When all is read, the goals were all at home.
LEMMA ParsedIsHoused ==
    ASSUME SurveyInv, load = "parsing", agenda = << >>, Shaped(parsed)
    PROVE  Housed(parsed)
  <1>1. Good(parsed) /\ Fit(parsed, parsed, agenda) /\ IsData(parsed) /\ Even(parsed)
    BY ParsedIsGood DEF SurveyInv, CodecInv, Good
  <1>2. PICK H : Visits(H, parsed, agenda, parsed) /\ TypesKnown(H, parsed)
    BY <1>1 DEF SurveyInv, Surveyed
  <1>3. Closed(H, parsed)
    BY <1>2, AllVisited
  <1> DEFINE G == {g \in H : Homed(g, parsed)}
  <1>4. /\ H \subseteq Goals /\ Of(Load) \subseteq H /\ Ends \subseteq H
        /\ \A g \in H : Leads(g, parsed) \subseteq H
    BY <1>3 DEF Closed
  <1>5. Of(Load) \subseteq G /\ Ends \subseteq G
    BY <1>4, LoadHomed DEF Ends, Homed
  <1>6. ASSUME NEW g \in G, NEW x \in Leads(g, parsed) PROVE x \in G
    <2>1. g \in Goals /\ x \in H /\ Homed(g, parsed)
      BY <1>4, <1>6
    <2>2. g.kind = "type" => Value(parsed, g.path, g.field) <= 5
      <3> SUFFICES ASSUME g.kind = "type" PROVE Value(parsed, g.path, g.field) <= 5
        OBVIOUS
      <3>1. parsed.val[<<g.path, g.field>>] <= 5
        BY <1>2 DEF TypesKnown
      <3> QED
        BY <3>1 DEF Value
    <2>3. Homed(x, parsed)
      BY <1>1, <1>6, <2>1, <2>2, LeadsHomed
    <2> QED
      BY <2>1, <2>3
  <1>7. Closed(G, parsed)
    BY <1>4, <1>5, <1>6 DEF Closed
  <1>8. H \subseteq G
    BY <1>2, <1>7 DEF Visits
  <1>9. /\ \A k \in DOMAIN parsed.val : \E g \in H : k \in Fills(g)
        /\ \A k \in DOMAIN parsed.len : \E g \in H : k \in Measures(g)
    BY <1>2 DEF Visits
  <1> QED
    BY <1>4, <1>8, <1>9 DEF Housed

-----------------------------------------------------------------------------
(* What is shown is what is held                                           *)

\* The accessors end at chains, and none shows the number of instructions of a
\* debug function.
LEMMA AccessorsAre ==
    ASSUME NEW a \in Accessors
    PROVE  a.chain \in Chains /\ "instructionCount" \notin a.members
  <1>1. CASE a \in HeaderAccessors \cup StringAccessors \cup UserFlagAccessors
    BY <1>1 DEF HeaderAccessors, StringAccessors, UserFlagAccessors, Accessor, Chains
  <1>2. CASE a \in DebugAccessors
    BY <1>2 DEF DebugAccessors, Accessor, Chains, LineAt
  <1>3. CASE a \in ObjectAccessors \cup VariableAccessors
    BY <1>3 DEF ObjectAccessors, VariableAccessors, Accessor, Chains
  <1>4. CASE a \in PropertyAccessors \cup StateAccessors
    BY <1>4 DEF PropertyAccessors, StateAccessors, Accessor, Chains
  <1>5. CASE a \in FunctionAccessors \cup InstructionAccessors
    BY <1>5 DEF FunctionAccessors, InstructionAccessors, Accessor, Chains
  <1>6. CASE a \in ArgumentAccessors
    BY <1>6 DEF ArgumentAccessors, Accessor, Chains, ArgumentAt
  <1>7. CASE a \in ParamAccessors \cup LocalAccessors
    BY <1>7 DEF ParamAccessors, LocalAccessors, Accessor, Chains, ParamAt, LocalAt
  <1> QED
    BY <1>1, <1>2, <1>3, <1>4, <1>5, <1>6, <1>7 DEF Accessors

\* For each member of a home there is an accessor that shows it, as it is or
\* as the data of a variable or an argument.
LEMMA ReadingsShown ==
    ASSUME NEW h \in Homes, NEW k, NEW f, <<k, f>> \in h.reads, k \in Readings
    PROVE  /\ f # "data"
           /\ \/ f = "instructionCount"
              \/ \E a \in Accessors :
                    /\ a.chain = h.chain
                    /\ f \in a.members \/ (f \in Alternatives /\ "data" \in a.members)
  <1> DEFINE Tells(c, g) ==
               \E a \in Accessors :
                  /\ a.chain = c
                  /\ g \in a.members \/ (g \in Alternatives /\ "data" \in a.members)
  <1>0. \A c, S : \A g \in S : Accessor(c, S) \in Accessors => Tells(c, g)
    BY DEF Accessor
  <1>00. \A c, S : \A g \in Alternatives :
            Accessor(c, S) \in Accessors /\ "data" \in S => Tells(c, g)
    BY DEF Accessor
  <1>1. CASE h = RootHome
    <2>1. /\ Accessor(<< >>, {"sourceFileName", "username", "machinename", "magic",
                       "majorVersion", "minorVersion", "gameId", "compilationTime"})
                \in Accessors
          /\ Accessor(<< >>, {"count"}) \in Accessors
          /\ Accessor(<< >>, {"hasDebugInfo", "modificationTime", "functionCount"})
                \in Accessors
          /\ Accessor(<< >>, {"userFlagCount"}) \in Accessors
          /\ Accessor(<< >>, {"objectCount"}) \in Accessors
      BY DEF Accessors, HeaderAccessors, StringAccessors, DebugAccessors,
         UserFlagAccessors, ObjectAccessors
    <2>2. \/ f \in {"sourceFileName", "username", "machinename", "magic",
                    "majorVersion", "minorVersion", "gameId", "compilationTime"}
          \/ f \in {"count"}
          \/ f \in {"hasDebugInfo", "modificationTime", "functionCount"}
          \/ f \in {"userFlagCount"}
          \/ f \in {"objectCount"}
      BY <1>1 DEF RootHome, Home, RootReads, Stringed, Repeated
    <2>3. h.chain = << >>
      BY <1>1 DEF RootHome, Home
    <2>4. Tells(<< >>, f)
      <3> HIDE DEF Tells
      <3> QED
        BY <1>0, <2>1, <2>2
    <2> QED
      BY <2>2, <2>3, <2>4
  <1>2. CASE h = StringHome
    <2>1. Accessor(StringAt, {"bytes"}) \in Accessors
      BY DEF Accessors, StringAccessors
    <2>2. f \in {"bytes"} /\ h.chain = StringAt
      BY <1>2 DEF StringHome, Home, Stringed
    <2> QED
      BY <1>0, <2>1, <2>2
  <1>3. CASE h = DebugHome
    <2>1. Accessor(DebugFunctionAt, {"objectNameIndex", "stateNameIndex",
                                     "functionNameIndex", "functionType"}) \in Accessors
      BY DEF Accessors, DebugAccessors
    <2>2. \/ f \in {"objectNameIndex", "stateNameIndex", "functionNameIndex", "functionType"}
          \/ f = "instructionCount"
      BY <1>3 DEF DebugHome, Home, DebugReads, Repeated
    <2>3. h.chain = DebugFunctionAt
      BY <1>3 DEF DebugHome, Home
    <2> QED
      BY <1>0, <2>1, <2>2, <2>3
  <1>4. CASE h = LineHome
    <2>1. Accessor(LineAt, {"line"}) \in Accessors
      BY DEF Accessors, DebugAccessors, LineAt
    <2>2. f \in {"line"} /\ h.chain = LineAt
      BY <1>4 DEF LineHome, Home
    <2> QED
      BY <1>0, <2>1, <2>2
  <1>5. CASE h = FlagHome
    <2>1. Accessor(UserFlagAt, {"flagNameIndex", "flagIndex"}) \in Accessors
      BY DEF Accessors, UserFlagAccessors
    <2>2. f \in {"flagNameIndex", "flagIndex"} /\ h.chain = UserFlagAt
      BY <1>5 DEF FlagHome, Home
    <2> QED
      BY <1>0, <2>1, <2>2
  <1>6. CASE h = ObjectHome
    <2>1. /\ Accessor(ObjectAt, {"nameIndex", "size", "parentClassName", "docString",
                                 "userFlags", "autoStateName"}) \in Accessors
          /\ Accessor(ObjectAt, {"numVariables"}) \in Accessors
          /\ Accessor(ObjectAt, {"numProperties"}) \in Accessors
          /\ Accessor(ObjectAt, {"numStates"}) \in Accessors
      BY DEF Accessors, ObjectAccessors, VariableAccessors, PropertyAccessors, StateAccessors
    <2>2. \/ f \in {"nameIndex", "size", "parentClassName", "docString", "userFlags",
                    "autoStateName"}
          \/ f \in {"numVariables"} \/ f \in {"numProperties"} \/ f \in {"numStates"}
      BY <1>6 DEF ObjectHome, Home, ObjectReads, Repeated
    <2>3. h.chain = ObjectAt
      BY <1>6 DEF ObjectHome, Home
    <2>4. Tells(ObjectAt, f)
      <3> HIDE DEF Tells
      <3> QED
        BY <1>0, <2>1, <2>2
    <2> QED
      BY <2>2, <2>3, <2>4
  <1>7. CASE h = VariableHome
    <2>1. Accessor(VariableAt, {"name", "typeName", "userFlags", "type", "data"}) \in Accessors
      BY DEF Accessors, VariableAccessors
    <2>2. f \in {"name", "typeName", "userFlags", "type"} \/ f \in Alternatives
      BY <1>7 DEF VariableHome, Home, VariableReads, DataReads, Alternatives
    <2>3. h.chain = VariableAt /\ "data" \notin Alternatives
      BY <1>7 DEF VariableHome, Home, Alternatives
    <2>4. Tells(VariableAt, f)
      <3> HIDE DEF Tells
      <3> QED
        BY <1>0, <1>00, <2>1, <2>2
    <2> QED
      BY <2>2, <2>3, <2>4
  <1>8. CASE h = PropertyHome
    <2>1. Accessor(PropertyAt, {"name", "type", "docstring", "userFlags", "flags",
                                "autoVarName"}) \in Accessors
      BY DEF Accessors, PropertyAccessors
    <2>2. f \in {"name", "type", "docstring", "userFlags", "flags", "autoVarName"}
          /\ h.chain = PropertyAt
      BY <1>8 DEF PropertyHome, Home, PropertyReads
    <2> QED
      BY <1>0, <2>1, <2>2
  <1>9. CASE h = StateHome
    <2>1. Accessor(StateAt, {"name", "numFunctions"}) \in Accessors
      BY DEF Accessors, StateAccessors
    <2>2. f \in {"name", "numFunctions"} /\ h.chain = StateAt
      BY <1>9 DEF StateHome, Home, Repeated
    <2> QED
      BY <1>0, <2>1, <2>2
  <1>10. CASE h = FunctionHome
    <2>1. Accessor(FunctionAt, {"functionName", "returnType", "docString",
                            "userFlags", "flags", "numParams", "numLocals",
                            "numInstructions"}) \in Accessors
      BY DEF Accessors, FunctionAccessors
    <2>2. f \in {"functionName", "returnType", "docString", "userFlags", "flags",
                 "numParams", "numLocals", "numInstructions"} /\ h.chain = FunctionAt
      BY <1>10 DEF FunctionHome, Home, FunctionReads, Repeated
    <2> QED
      BY <1>0, <2>1, <2>2
  <1>11. CASE h = InstructionHome
    <2>1. Accessor(InstructionAt, {"op"}) \in Accessors
      BY DEF Accessors, InstructionAccessors
    <2>2. f \in {"op"} /\ h.chain = InstructionAt
      BY <1>11 DEF InstructionHome, Home, InstructionReads, Readings, Width
    <2> QED
      BY <1>0, <2>1, <2>2
  <1>12. CASE h = ArgumentHome
    <2>1. Accessor(ArgumentAt, {"type", "data"}) \in Accessors
      BY DEF Accessors, ArgumentAccessors, ArgumentAt
    <2>2. f \in {"type"} \/ f \in Alternatives
      BY <1>12 DEF ArgumentHome, Home, DataReads, Alternatives
    <2>3. h.chain = ArgumentAt /\ "data" \notin Alternatives
      BY <1>12 DEF ArgumentHome, Home, Alternatives
    <2>4. Tells(ArgumentAt, f)
      <3> HIDE DEF Tells
      <3> QED
        BY <1>0, <1>00, <2>1, <2>2
    <2> QED
      BY <2>2, <2>3, <2>4
  <1>13. CASE h = ParamHome
    <2>1. Accessor(ParamAt, {"name", "type"}) \in Accessors
      BY DEF Accessors, ParamAccessors, ParamAt
    <2>2. f \in {"name", "type"} /\ h.chain = ParamAt
      BY <1>13 DEF ParamHome, Home
    <2> QED
      BY <1>0, <2>1, <2>2
  <1>14. CASE h = LocalHome
    <2>1. Accessor(LocalAt, {"name", "type"}) \in Accessors
      BY DEF Accessors, LocalAccessors, LocalAt
    <2>2. f \in {"name", "type"} /\ h.chain = LocalAt
      BY <1>14 DEF LocalHome, Home
    <2> QED
      BY <1>0, <2>1, <2>2
  <1> QED
    BY <1>1, <1>2, <1>3, <1>4, <1>5, <1>6, <1>7, <1>8, <1>9, <1>10, <1>11, <1>12, <1>13, <1>14
       DEF Homes

\* Each link is the end of some accessor's chain.
LEMMA LinksShown ==
    ASSUME NEW l \in Links
    PROVE  \E a \in Accessors : a.chain = Append(l[1], l[2])
  <1>1. \A h \in Homes \ {RootHome} : \E a \in Accessors : a.chain = h.chain
    <2> SUFFICES ASSUME NEW h \in Homes, h # RootHome
                 PROVE  \E a \in Accessors : a.chain = h.chain
      OBVIOUS
    <2>1. \A k, f : <<k, f>> \in h.reads /\ k \in Readings /\ f # "instructionCount" =>
             \E a \in Accessors : a.chain = h.chain
      BY ReadingsShown
    <2>2. \E k, f : <<k, f>> \in h.reads /\ k \in Readings /\ f # "instructionCount"
      <3>0. {"string", "u16", "u8", "opcode", "type"} \subseteq Readings
        BY DEF Readings, Width
      <3>1. CASE h = StringHome
        <4>1. <<"string", "bytes">> \in h.reads
          BY <3>1 DEF StringHome, Home, Stringed
        <4> QED
          BY <3>0, <4>1
      <3>2. CASE h = DebugHome
        <4>1. <<"u8", "functionType">> \in h.reads
          BY <3>2 DEF DebugHome, Home, DebugReads
        <4> QED
          BY <3>0, <4>1
      <3>3. CASE h = LineHome
        <4>1. <<"u16", "line">> \in h.reads
          BY <3>3 DEF LineHome, Home
        <4> QED
          BY <3>0, <4>1
      <3>4. CASE h = FlagHome
        <4>1. <<"u8", "flagIndex">> \in h.reads
          BY <3>4 DEF FlagHome, Home
        <4> QED
          BY <3>0, <4>1
      <3>5. CASE h = ObjectHome
        <4>1. <<"u16", "nameIndex">> \in h.reads
          BY <3>5 DEF ObjectHome, Home, ObjectReads
        <4> QED
          BY <3>0, <4>1
      <3>6. CASE h \in {VariableHome, PropertyHome, StateHome, ParamHome, LocalHome}
        <4>1. <<"u16", "name">> \in h.reads
          BY <3>6 DEF VariableHome, PropertyHome, StateHome, ParamHome, LocalHome, Home,
             VariableReads, PropertyReads
        <4> QED
          BY <3>0, <4>1
      <3>7. CASE h = FunctionHome
        <4>1. <<"u16", "functionName">> \in h.reads
          BY <3>7 DEF FunctionHome, Home, FunctionReads
        <4> QED
          BY <3>0, <4>1
      <3>8. CASE h = InstructionHome
        <4>1. <<"opcode", "op">> \in h.reads
          BY <3>8 DEF InstructionHome, Home, InstructionReads
        <4> QED
          BY <3>0, <4>1
      <3>9. CASE h = ArgumentHome
        <4>1. <<"type", "type">> \in h.reads
          BY <3>9 DEF ArgumentHome, Home, DataReads
        <4> QED
          BY <3>0, <4>1
      <3> QED
        BY <3>1, <3>2, <3>3, <3>4, <3>5, <3>6, <3>7, <3>8, <3>9 DEF Homes
    <2> QED
      BY <2>1, <2>2
  <1>2. \A c \in Chains \ {<< >>} : \E h \in Homes : h # RootHome /\ h.chain = c
    <2>1. /\ RootHome.chain = << >> /\ StringHome.chain = StringAt
          /\ DebugHome.chain = DebugFunctionAt /\ LineHome.chain = LineAt
          /\ FlagHome.chain = UserFlagAt /\ ObjectHome.chain = ObjectAt
          /\ VariableHome.chain = VariableAt /\ PropertyHome.chain = PropertyAt
          /\ StateHome.chain = StateAt /\ FunctionHome.chain = FunctionAt
          /\ InstructionHome.chain = InstructionAt /\ ArgumentHome.chain = ArgumentAt
          /\ ParamHome.chain = ParamAt /\ LocalHome.chain = LocalAt
      BY DEF RootHome, StringHome, DebugHome, LineHome, FlagHome, ObjectHome,
         VariableHome, PropertyHome, StateHome, FunctionHome, InstructionHome,
         ArgumentHome, ParamHome, LocalHome, Home
    <2>2. \A c \in Chains : \E h \in Homes : h.chain = c
      BY <2>1 DEF Chains, Homes
    <2> QED
      BY <2>1, <2>2
  <1>3. Append(l[1], l[2]) \in Chains \ {<< >>}
    <2> DEFINE e == Append(l[1], l[2])
    <2>0. Len(e) = Len(l[1]) + 1 /\ Len(l[1]) \in Nat
      <3>1. l[1] \in Seq(Steps) /\ l[2] \in Steps
        BY LinkTyped
      <3> QED
        BY <3>1
    <2> HIDE DEF e
    <2>1. e # << >>
      <3> SUFFICES ASSUME e = << >> PROVE FALSE
        OBVIOUS
      <3>1. Len(e) = 0
        OBVIOUS
      <3> QED
        BY <2>0, <3>1
    <2> QED
      BY <2>1, LinkTyped DEF e
  <1> QED
    BY <1>1, <1>2, <1>3

\* A caller who asks for a member is shown it,
LEMMA MemberShown ==
    ASSUME NEW d, NEW a \in Accessors, NEW path \in Reached(d, a.chain), NEW m \in a.members
    PROVE  <<path, Shown(d, path, m), Value(d, path, Shown(d, path, m))>> \in ShownMembers(d)
  BY DEF ShownMembers

\* ... and nothing else.
LEMMA ShownMember ==
    ASSUME NEW d, NEW t \in ShownMembers(d)
    PROVE  \E a \in Accessors : \E path \in Reached(d, a.chain) : \E m \in a.members :
              t = <<path, Shown(d, path, m), Value(d, path, Shown(d, path, m))>>
  BY DEF ShownMembers

\* The sizes of vectors and strings that the callers of one accessor are shown.
StringNames == {"bytes", "sourceFileName", "username", "machinename"}

BoundsOf(d, c) ==
    UNION { {<<path, c[k][2], Bound(d, path, c[k])>> :
                 path \in Reached(d, SubSeq(c, 1, k - 1))} : k \in DOMAIN c }

LengthsOf(d, a) ==
    {<<path, m, Size(d, path, m)>> :
         path \in Reached(d, a.chain), m \in a.members \cap StringNames}

\* They make up all the sizes that are shown.
LEMMA ShownSizesAre ==
    ASSUME NEW d
    PROVE  ShownSizes(d) = UNION {BoundsOf(d, a.chain) \cup LengthsOf(d, a) : a \in Accessors}
  BY DEF ShownSizes, BoundsOf, LengthsOf, StringNames

\* Each bound and each length that is compared or returned is shown,
LEMMA SizeShown ==
    ASSUME NEW d, NEW a \in Accessors
    PROVE  /\ \A k \in DOMAIN a.chain : \A path \in Reached(d, SubSeq(a.chain, 1, k - 1)) :
                 <<path, a.chain[k][2], Bound(d, path, a.chain[k])>> \in ShownSizes(d)
           /\ \A path \in Reached(d, a.chain) : \A m \in a.members \cap StringNames :
                 <<path, m, Size(d, path, m)>> \in ShownSizes(d)
  <1> DEFINE c == a.chain
  <1>1. BoundsOf(d, c) \subseteq ShownSizes(d) /\ LengthsOf(d, a) \subseteq ShownSizes(d)
    BY ShownSizesAre
  <1> HIDE DEF c
  <1>2. \A k \in DOMAIN c : \A path \in Reached(d, SubSeq(c, 1, k - 1)) :
           <<path, c[k][2], Bound(d, path, c[k])>> \in BoundsOf(d, c)
    BY DEF BoundsOf
  <1>3. \A path \in Reached(d, c) : \A m \in a.members \cap StringNames :
           <<path, m, Size(d, path, m)>> \in LengthsOf(d, a)
    BY DEF LengthsOf, c
  <1> QED
    BY <1>1, <1>2, <1>3 DEF c

\* ... and no others.
LEMMA ShownSize ==
    ASSUME NEW d, NEW t \in ShownSizes(d)
    PROVE  \/ \E a \in Accessors : \E k \in DOMAIN a.chain :
                 \E path \in Reached(d, SubSeq(a.chain, 1, k - 1)) :
                    t = <<path, a.chain[k][2], Bound(d, path, a.chain[k])>>
           \/ \E a \in Accessors : \E path \in Reached(d, a.chain) :
                 \E m \in a.members \cap StringNames : t = <<path, m, Size(d, path, m)>>
  <1>1. PICK a \in Accessors : t \in BoundsOf(d, a.chain) \cup LengthsOf(d, a)
    BY ShownSizesAre
  <1> DEFINE c == a.chain
  <1>2. CASE t \in BoundsOf(d, c)
    <2> HIDE DEF c
    <2>1. \E k \in DOMAIN c : \E path \in Reached(d, SubSeq(c, 1, k - 1)) :
             t = <<path, c[k][2], Bound(d, path, c[k])>>
      BY <1>2 DEF BoundsOf
    <2> QED
      BY <2>1 DEF c
  <1>3. CASE t \in LengthsOf(d, a)
    BY <1>3 DEF LengthsOf
  <1> QED
    BY <1>1, <1>2, <1>3

\* The record of a handler is hidden, and of the others only a count that
\* another is shown for.
LEMMA HiddenIs ==
    ASSUME NEW path, NEW member
    PROVE  Hidden(path, member) <=> Handled(path) \/ member = "instructionCount"
  BY DEF Hidden, Handled, Handlers

\* What is shown of d and is not 0, d holds.
LEMMA ShownIsHeld ==
    ASSUME NEW d, Even(d)
    PROVE  /\ \A t \in ShownMembers(d) : t[3] # 0 =>
                 \E k \in DOMAIN d.val : ~Hidden(k[1], k[2]) /\ t = <<k[1], k[2], d.val[k]>>
           /\ \A t \in ShownSizes(d) : t[3] # 0 =>
                 \E k \in DOMAIN d.len : ~Hidden(k[1], k[2]) /\ t = <<k[1], k[2], d.len[k]>>
  <1>0. \A c \in Chains : \A q \in Reached(d, c) : q \in Path /\ ~Handled(q)
    BY ReachedTyped
  <1>1. ASSUME NEW t \in ShownMembers(d), t[3] # 0
        PROVE  \E k \in DOMAIN d.val : ~Hidden(k[1], k[2]) /\ t = <<k[1], k[2], d.val[k]>>
    <2>1. PICK a \in Accessors : \E path \in Reached(d, a.chain) : \E m \in a.members :
             t = <<path, Shown(d, path, m), Value(d, path, Shown(d, path, m))>>
      BY ShownMember
    <2>9. PICK path \in Reached(d, a.chain) : \E m \in a.members :
             t = <<path, Shown(d, path, m), Value(d, path, Shown(d, path, m))>>
      BY <2>1
    <2>2. PICK m \in a.members :
             t = <<path, Shown(d, path, m), Value(d, path, Shown(d, path, m))>>
      BY <2>9
    <2> DEFINE f == Shown(d, path, m)
               k == <<path, f>>
    <2>3. ~Handled(path)
      BY <1>0, AccessorsAre
    <2>4. f # "instructionCount"
      <3>1. m # "instructionCount"
        BY <2>2, AccessorsAre
      <3> QED
        BY <3>1 DEF Shown, Alternative
    <2> HIDE DEF f
    <2>5. Value(d, path, f) # 0 /\ t = <<path, f, Value(d, path, f)>>
      BY <1>1, <2>2 DEF f
    <2>6. k \in DOMAIN d.val /\ Value(d, path, f) = d.val[k]
      BY <2>5 DEF Value
    <2>7. k[1] = path /\ k[2] = f
      OBVIOUS
    <2>8. ~Hidden(k[1], k[2])
      BY <2>3, <2>4, <2>7, HiddenIs
    <2> QED
      BY <2>5, <2>6, <2>7, <2>8
  <1>2. ASSUME NEW q, ~Handled(q), NEW f, f # "instructionCount", Size(d, q, f) # 0
        PROVE  \E k \in DOMAIN d.len :
                  ~Hidden(k[1], k[2]) /\ <<q, f, Size(d, q, f)>> = <<k[1], k[2], d.len[k]>>
    <2> DEFINE k == <<q, f>>
    <2>1. k \in DOMAIN d.len /\ Size(d, q, f) = d.len[k] /\ k[1] = q /\ k[2] = f
      BY <1>2 DEF Size
    <2>2. ~Hidden(k[1], k[2])
      BY <1>2, <2>1, HiddenIs
    <2> HIDE DEF k
    <2> QED
      BY <2>1, <2>2
  <1>3. ASSUME NEW t \in ShownSizes(d), t[3] # 0
        PROVE  \E k \in DOMAIN d.len : ~Hidden(k[1], k[2]) /\ t = <<k[1], k[2], d.len[k]>>
    <2>1. CASE \E a \in Accessors : \E k \in DOMAIN a.chain :
                 \E path \in Reached(d, SubSeq(a.chain, 1, k - 1)) :
                    t = <<path, a.chain[k][2], Bound(d, path, a.chain[k])>>
      <3>1. PICK a \in Accessors : \E k \in DOMAIN a.chain :
                 \E path \in Reached(d, SubSeq(a.chain, 1, k - 1)) :
                    t = <<path, a.chain[k][2], Bound(d, path, a.chain[k])>>
        BY <2>1
      <3>2. PICK k \in DOMAIN a.chain :
                 \E path \in Reached(d, SubSeq(a.chain, 1, k - 1)) :
                    t = <<path, a.chain[k][2], Bound(d, path, a.chain[k])>>
        BY <3>1
      <3> DEFINE l == <<SubSeq(a.chain, 1, k - 1), a.chain[k]>>
      <3>3. l \in Links /\ l[1] = SubSeq(a.chain, 1, k - 1) /\ l[2] = a.chain[k]
        BY AccessorsAre, StepsAreLinks
      <3> HIDE DEF l
      <3>4. PICK path \in Reached(d, l[1]) : t = <<path, l[2][2], Bound(d, path, l[2])>>
        BY <3>2, <3>3
      <3>5. Bound(d, path, l[2]) = Size(d, path, l[2][2])
        BY <3>3, BoundIsSize
      <3>6. ~Handled(path)
        BY <1>0, <3>3, LinkTyped
      <3>7. l[2][2] # "instructionCount"
        BY <3>3 DEF Links
      <3>8. t = <<path, l[2][2], Size(d, path, l[2][2])>>
        BY <3>4, <3>5
      <3> QED
        BY <1>2, <1>3, <3>6, <3>7, <3>8
    <2>2. CASE \E a \in Accessors : \E path \in Reached(d, a.chain) :
                 \E m \in a.members \cap StringNames : t = <<path, m, Size(d, path, m)>>
      <3>1. PICK a \in Accessors : \E path \in Reached(d, a.chain) :
                 \E m \in a.members \cap StringNames : t = <<path, m, Size(d, path, m)>>
        BY <2>2
      <3>2. PICK path \in Reached(d, a.chain) :
                 \E m \in a.members \cap StringNames : t = <<path, m, Size(d, path, m)>>
        BY <3>1
      <3>3. PICK m \in a.members \cap StringNames : t = <<path, m, Size(d, path, m)>>
        BY <3>2
      <3>4. ~Handled(path) /\ m # "instructionCount"
        BY <1>0, AccessorsAre
      <3> QED
        BY <1>2, <1>3, <3>3, <3>4
    <2> QED
      BY <2>1, <2>2, ShownSize
  <1> QED
    BY <1>1, <1>3

\* A member that d holds at home is shown.
LEMMA MemberHeldIsShown ==
    ASSUME NEW d, NEW g \in Goals, Homed(g, d), g.kind \in Readings, ~Handled(g.path),
           g.field # "instructionCount"
    PROVE  <<g.path, g.field, Value(d, g.path, g.field)>> \in ShownMembers(d)
  <1>1. PICK h \in Homes :
           /\ g.path \in Reached(d, h.chain) /\ <<g.kind, g.field>> \in h.reads
           /\ g.field \in Alternatives => g.field = Alternative(Value(d, g.path, "type"))
    BY DEF Homed, Readings, Width
  <1>2. g.field # "data"
    BY <1>1, ReadingsShown
  <1>3. PICK a \in Accessors :
           /\ a.chain = h.chain
           /\ g.field \in a.members \/ (g.field \in Alternatives /\ "data" \in a.members)
    BY <1>1, ReadingsShown
  <1>4. CASE g.field \in a.members
    <2>1. Shown(d, g.path, g.field) = g.field
      BY <1>2 DEF Shown
    <2>2. <<g.path, Shown(d, g.path, g.field), Value(d, g.path, Shown(d, g.path, g.field))>>
             \in ShownMembers(d)
      BY <1>1, <1>3, <1>4, MemberShown
    <2> QED
      BY <2>1, <2>2
  <1>5. CASE g.field \in Alternatives /\ "data" \in a.members
    <2>1. Shown(d, g.path, "data") = g.field
      BY <1>1, <1>5 DEF Shown
    <2>2. <<g.path, Shown(d, g.path, "data"), Value(d, g.path, Shown(d, g.path, "data"))>>
             \in ShownMembers(d)
      BY <1>1, <1>3, <1>5, MemberShown
    <2> QED
      BY <2>1, <2>2
  <1> QED
    BY <1>3, <1>4, <1>5

\* The size of a vector is shown as the bound of the indices into it.
LEMMA BoundShown ==
    ASSUME NEW d, Even(d), NEW l \in Links, NEW path \in Reached(d, l[1])
    PROVE  <<path, l[2][2], Size(d, path, l[2][2])>> \in ShownSizes(d)
  <1> DEFINE c == l[1]
             e == Append(c, l[2])
             n == Len(c) + 1
  <1>1. c \in Seq(Steps) /\ l[2] \in Steps
    BY LinkTyped
  <1>2. PICK a \in Accessors : a.chain = e
    BY LinksShown
  <1>3. /\ n \in DOMAIN e /\ e[n] = l[2] /\ n - 1 = Len(c) /\ Len(c) \in Nat
        /\ e \in Seq(Steps) /\ \A j \in 1..Len(c) : e[j] = c[j]
    BY <1>1
  <1>4. SubSeq(e, 1, n - 1) = c
    <2>1. SubSeq(e, 1, Len(c)) \in Seq(Steps) /\ Len(SubSeq(e, 1, Len(c))) = Len(c)
          /\ \A j \in 1..Len(c) : SubSeq(e, 1, Len(c))[j] = e[j]
      <3>1. Len(c) <= Len(e)
        BY <1>1
      <3> HIDE DEF c, e
      <3>2. \A j \in 1..Len(c) : j \in DOMAIN e /\ e[j] \in Steps /\ (1 + j) - 1 = j
        BY <1>3, <3>1
      <3>3. SubSeq(e, 1, Len(c)) = [j \in 1..Len(c) |-> e[j]]
        BY <1>3, <3>1, <3>2
      <3>4. [j \in 1..Len(c) |-> e[j]] \in [1..Len(c) -> Steps]
        BY <3>2
      <3> QED
        BY <1>3, <3>3, <3>4
    <2> HIDE DEF c, e
    <2> QED
      BY <1>1, <1>3, <2>1, SameSequence
  <1>5. \A k \in DOMAIN e : \A q \in Reached(d, SubSeq(e, 1, k - 1)) :
           <<q, e[k][2], Bound(d, q, e[k])>> \in ShownSizes(d)
    BY <1>2, SizeShown
  <1> HIDE DEF e, n
  <1>6. <<path, l[2][2], Bound(d, path, l[2])>> \in ShownSizes(d)
    BY <1>3, <1>4, <1>5
  <1> QED
    BY <1>6, BoundIsSize

\* The size of a vector or a string that d holds at home is shown.
LEMMA SizeHeldIsShown ==
    ASSUME NEW d, Even(d), NEW g \in Goals, Homed(g, d), NEW k \in Measures(g),
           ~Handled(k[1])
    PROVE  <<k[1], k[2], Size(d, k[1], k[2])>> \in ShownSizes(d)
  <1>1. CASE g.kind = "objectSize"
    <2> DEFINE l == << << >>, <<"objectCount", "objects">> >>
    <2>1. k[1] = << >> /\ k[2] = "objects"
      BY <1>1 DEF Measures
    <2>2. l \in Links /\ l[1] = << >> /\ l[2][2] = "objects"
      BY DEF Links
    <2>3. << >> \in Reached(d, << >>)
      BY ReachedNone DEF Top
    <2> HIDE DEF l
    <2> QED
      BY <2>1, <2>2, <2>3, BoundShown
  <1>2. CASE g.kind # "objectSize"
    <2>1. k[1] = g.path /\ g.kind # "objectEnd"
      BY <1>2 DEF Measures
    <2>2. PICK h \in Homes :
             g.path \in Reached(d, h.chain) /\ <<g.kind, g.field>> \in h.reads
      BY <2>1 DEF Homed
    <2>3. CASE g.kind = "string"
      <3>1. k[2] = g.field
        BY <2>3 DEF Measures
      <3>2. g.field \in Strings
        BY <2>2, <2>3, KindsAtHome
      <3>3. g.field \in StringNames /\ g.field \notin Alternatives
            /\ g.field # "instructionCount"
        BY <3>2 DEF Strings, StringNames, Alternatives
      <3>4. g.kind \in Readings
        BY <2>3 DEF Readings, Width
      <3>5. PICK a \in Accessors : a.chain = h.chain /\ g.field \in a.members
        BY <2>2, <3>3, <3>4, ReadingsShown
      <3> QED
        BY <2>1, <2>2, <3>1, <3>3, <3>5, SizeShown
    <2>4. CASE g.kind = "count"
      <3>1. k[2] = Vector[g.field].name
        BY <2>4 DEF Measures
      <3>2. PICK b \in Branches : b.from = h /\ b.count = g.field
        BY <2>2, <2>4, CountsAtHome
      <3> DEFINE l == <<h.chain, b.step>>
      <3>3. l \in Links /\ l[1] = h.chain /\ l[2][2] = k[2]
        BY <3>1, <3>2, BranchesAre
      <3> HIDE DEF l
      <3> QED
        BY <2>1, <2>2, <3>3, BoundShown
    <2>5. CASE g.kind \in {"opcode", "callArguments", "push"}
      <3> DEFINE l == << InstructionAt, <<"size()", "arguments">> >>
      <3>1. k[2] = "arguments"
        BY <2>5 DEF Measures
      <3>2. h = InstructionHome /\ InstructionHome.chain = InstructionAt
        BY <2>2, <2>5, KindsAtHome DEF InstructionHome, Home
      <3>3. l \in Links /\ l[1] = InstructionAt /\ l[2][2] = "arguments"
        BY DEF Links
      <3> HIDE DEF l
      <3> QED
        BY <2>1, <2>2, <3>1, <3>2, <3>3, BoundShown
    <2> QED
      BY <1>2, <2>3, <2>4, <2>5 DEF Measures
  <1> QED
    BY <1>1, <1>2

\* What d holds of a Load, and is not hidden, is shown.
LEMMA HeldIsShown ==
    ASSUME NEW d, Even(d), Housed(d)
    PROVE  /\ \A k \in DOMAIN d.val :
                 ~Hidden(k[1], k[2]) => <<k[1], k[2], d.val[k]>> \in ShownMembers(d)
           /\ \A k \in DOMAIN d.len :
                 ~Hidden(k[1], k[2]) => <<k[1], k[2], d.len[k]>> \in ShownSizes(d)
  <1>0. PICK H : /\ H \subseteq Goals
                 /\ \A g \in H : Homed(g, d)
                 /\ \A k \in DOMAIN d.val : \E g \in H : k \in Fills(g)
                 /\ \A k \in DOMAIN d.len : \E g \in H : k \in Measures(g)
    BY DEF Housed
  <1>1. ASSUME NEW k \in DOMAIN d.val, ~Hidden(k[1], k[2])
        PROVE  <<k[1], k[2], d.val[k]>> \in ShownMembers(d)
    <2>1. PICK g \in H : k \in Fills(g)
      BY <1>0
    <2>2. k = <<g.path, g.field>> /\ g.kind \in Readings /\ g \in Goals /\ Homed(g, d)
      BY <1>0, <2>1 DEF Fills
    <2>3. k[1] = g.path /\ k[2] = g.field
      BY <2>2
    <2>4. Value(d, g.path, g.field) = d.val[k]
      BY <2>2 DEF Value
    <2>5. ~Handled(g.path) /\ g.field # "instructionCount"
      BY <1>1, <2>3, HiddenIs
    <2> QED
      BY <2>2, <2>3, <2>4, <2>5, MemberHeldIsShown
  <1>2. ASSUME NEW k \in DOMAIN d.len, ~Hidden(k[1], k[2])
        PROVE  <<k[1], k[2], d.len[k]>> \in ShownSizes(d)
    <2>1. PICK g \in H : k \in Measures(g)
      BY <1>0
    <2>2. k = <<k[1], k[2]>> /\ g \in Goals /\ Homed(g, d)
      BY <1>0, <2>1 DEF Measures
    <2>3. Size(d, k[1], k[2]) = d.len[k]
      BY <2>2 DEF Size
    <2>4. ~Handled(k[1])
      BY <1>2, HiddenIs
    <2> QED
      BY <2>1, <2>2, <2>3, <2>4, SizeHeldIsShown
  <1> QED
    BY <1>1, <1>2

\* For every file and all limits: a caller who walks an instance just loaded
\* through the accessors of the C ABI, by the counts they give, is shown every
\* member and every size that the parser put there, but for the handlers of
\* properties, and nothing else.
THEOREM AbiAlwaysShowsWhatIsHeld == Spec => AbiShowsWhatIsHeld
  <1> DEFINE held(f) == {<<k[1], k[2], f[k]>> :
                            k \in {x \in DOMAIN f : ~Hidden(x[1], x[2])}}
             nonzero(S) == {t \in S : t[3] # 0}
             Same(d) == /\ nonzero(ShownMembers(d)) = nonzero(held(d.val))
                        /\ nonzero(ShownSizes(d)) = nonzero(held(d.len))
  <1>1. ASSUME NEW d, Even(d), Housed(d) PROVE Same(d)
    <2>1. ASSUME NEW t, t \in nonzero(ShownMembers(d)) PROVE t \in nonzero(held(d.val))
      <3>1. PICK k \in DOMAIN d.val : ~Hidden(k[1], k[2]) /\ t = <<k[1], k[2], d.val[k]>>
        BY <1>1, <2>1, ShownIsHeld
      <3> QED
        BY <2>1, <3>1
    <2>2. ASSUME NEW t, t \in nonzero(held(d.val)) PROVE t \in nonzero(ShownMembers(d))
      <3>1. PICK k \in DOMAIN d.val : ~Hidden(k[1], k[2]) /\ t = <<k[1], k[2], d.val[k]>>
        BY <2>2
      <3>2. t \in ShownMembers(d)
        BY <1>1, <3>1, HeldIsShown
      <3> QED
        BY <2>2, <3>2
    <2>3. ASSUME NEW t, t \in nonzero(ShownSizes(d)) PROVE t \in nonzero(held(d.len))
      <3>1. PICK k \in DOMAIN d.len : ~Hidden(k[1], k[2]) /\ t = <<k[1], k[2], d.len[k]>>
        BY <1>1, <2>3, ShownIsHeld
      <3> QED
        BY <2>3, <3>1
    <2>4. ASSUME NEW t, t \in nonzero(held(d.len)) PROVE t \in nonzero(ShownSizes(d))
      <3>1. PICK k \in DOMAIN d.len : ~Hidden(k[1], k[2]) /\ t = <<k[1], k[2], d.len[k]>>
        BY <2>4
      <3>2. t \in ShownSizes(d)
        BY <1>1, <3>1, HeldIsShown
      <3> QED
        BY <2>4, <3>2
    <2> HIDE DEF nonzero, held
    <2> QED
      BY <2>1, <2>2, <2>3, <2>4
  <1> HIDE DEF Same
  <1>2. ASSUME SurveyInv, [Next]_vars, load = "parsing", load' = "loaded"
        PROVE  Same(inst')
    <2>1. Commit
      BY <1>2 DEF Next, LoadStep, ReadStep, Throw, ReadFails, ValueRefused,
         ObjectSizeMismatch, CallRefused, EndCall, PlaceFile, OpenFile, RefuseFile,
         vars, ReadScalar, ReadLength, ReadCount, NextElement, ReadDebugFlag,
         ReadObjectSize, ObjectEnds, ReadPropertyFlags, ReadType, ReadOpcode,
         ReadCallArguments, PushArgument, Consume, At
    <2>2. agenda = << >> /\ inst' = parsed
      BY <2>1 DEF Commit
    <2>3. Shaped(parsed)
      BY <1>2, <2>2, CommitShape DEF SurveyInv, ShapesInv, CodecInv, VectorInv
    <2>4. Even(parsed)
      BY <1>2, <2>2, ParsedIsGood DEF SurveyInv, CodecInv, Good
    <2>5. Housed(parsed)
      BY <1>2, <2>2, <2>3, ParsedIsHoused
    <2> QED
      BY <1>1, <2>2, <2>4, <2>5
  <1>3. SurveyInv /\ [Next]_vars => (load = "parsing" /\ load' = "loaded" => Same(inst'))
    BY <1>2
  <1>4. Init => SurveyInv
    BY InitSurvey
  <1>5. SurveyInv /\ [Next]_vars => SurveyInv'
    BY NextSurvey
  <1> USE DEF Same
  <1> QED
    BY <1>3, <1>4, <1>5, PTL DEF Spec, AbiShowsWhatIsHeld

=============================================================================
