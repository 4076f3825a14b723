------------------------------- MODULE PexLoad -------------------------------
(***************************************************************************)
(* PexData::Load: one call opens a file, parses it with a PexBinaryReader  *)
(* into the local object `parsed`, and moves that object into the instance *)
(* only when the whole file was parsed.                                    *)
(*                                                                         *)
(* The file is revealed as it is read: `disk` holds its length and the     *)
(* bytes some read has returned so far, and a read of bytes nobody has     *)
(* read before returns any value of Contents.  A behaviour therefore stands *)
(* for every file with the values it read, and, because the parser never   *)
(* reads a byte twice, for a file that another process changes under it.   *)
(*                                                                         *)
(* The call stack of the Read functions is `agenda`, the sequence of the   *)
(* reads and loops still to do.  A step takes its head.                    *)
(***************************************************************************)
EXTENDS PexRecords, FiniteSetsExt

CONSTANTS
    MaxFileSize,            \* PexBinaryReader::MaxFileSize
    MaxAggregateElements,   \* PexBinaryReader::MaxAggregateElements
    MaxInt32,               \* the largest int32_t
    MaxCallArgumentCount,   \* the constant of ReadCallArgumentCount
    FileSizes,              \* the lengths of the files the program is given
    Contents,                \* what each kind of read of each member may return
    IoFaults,               \* whether a read or an allocation may fail
    MaxLoads                \* bound: how often Load is called

ASSUME LimitsAssumption ==
    /\ MaxFileSize \in Nat
    /\ MaxAggregateElements \in Nat
    /\ MaxInt32 \in Nat
    /\ MaxCallArgumentCount \in 0..MaxInt32

ASSUME EnvironmentAssumption ==
    /\ FileSizes \subseteq Nat
    /\ IoFaults \in BOOLEAN
    /\ MaxLoads \in Nat

VARIABLES
    disk,               \* the file: its length and the bytes known of it
    size,               \* PexBinaryReader::_size
    position,           \* PexBinaryReader::_position
    aggregateElements,  \* PexBinaryReader::_aggregateElements
    agenda,             \* what the running Load still has to do
    parsed,             \* the local PexData of Load
    inst,               \* the instance Load was called on
    load,               \* how the last Load stands
    loads               \* the calls of Load so far

reader == <<size, position, aggregateElements>>
vars == <<disk, size, position, aggregateElements, agenda, parsed, inst, load,
          loads>>

-----------------------------------------------------------------------------
(* What each Read function reads, in order: pairs of a kind of read and    *)
(* the member it fills.                                                    *)

ReadHeader == <<
    <<"magic", "magic">>, <<"u8", "majorVersion">>, <<"u8", "minorVersion">>,
    <<"u16", "gameId">>, <<"u64", "compilationTime">>,
    <<"string", "sourceFileName">>, <<"string", "username">>,
    <<"string", "machinename">> >>

ReadStringTable == << <<"count", "count">> >>

ReadDebugInfo == << <<"debugFlag", "hasDebugInfo">> >>

ReadDebugFunction == <<
    <<"u16", "objectNameIndex">>, <<"u16", "stateNameIndex">>,
    <<"u16", "functionNameIndex">>, <<"u8", "functionType">>,
    <<"count", "instructionCount">> >>

ReadUserFlags == << <<"count", "userFlagCount">> >>

ReadObjects == << <<"count", "objectCount">> >>

ReadObjectData == <<
    <<"u16", "parentClassName">>, <<"u16", "docString">>,
    <<"u32", "userFlags">>, <<"u16", "autoStateName">>,
    <<"count", "numVariables">>, <<"count", "numProperties">>,
    <<"count", "numStates">> >>

ReadVariable == <<
    <<"u16", "name">>, <<"u16", "typeName">>, <<"u32", "userFlags">>,
    <<"type", "type">> >>

ReadProperty == <<
    <<"u16", "name">>, <<"u16", "type">>, <<"u16", "docstring">>,
    <<"u32", "userFlags">>, <<"propertyFlags", "flags">> >>

ReadState == << <<"u16", "name">>, <<"count", "numFunctions">> >>

ReadFunction == <<
    <<"u16", "returnType">>, <<"u16", "docString">>, <<"u32", "userFlags">>,
    <<"u8", "flags">>, <<"count", "numParams">>, <<"count", "numLocals">>,
    <<"count", "numInstructions">> >>

\* A parameter or a local.
ReadVariableType == << <<"u16", "name">>, <<"u16", "type">> >>

\* The data of a VariableData, by its type; the member is named for the
\* alternative of the std::variant it sets.
ReadVariableData == [type \in 0..5 |->
    CASE type = 0 -> << >>
      [] type \in {1, 2} -> << <<"u16", "uint16">> >>
      [] type = 3 -> << <<"u32", "int32">> >>
      [] type = 4 -> << <<"u32", "float">> >>
      [] type = 5 -> << <<"u8", "uint8">> >>]

\* For each count: the vector it sizes, and what the loop over it reads.
Vector ==
    [count            |-> [name |-> "strings",
                           element |-> << <<"string", "bytes">> >>],
     functionCount    |-> [name |-> "functions", element |-> ReadDebugFunction],
     instructionCount |-> [name |-> "lineNumbers",
                           element |-> << <<"u16", "line">> >>],
     userFlagCount    |-> [name |-> "userFlags",
                           element |-> << <<"u16", "flagNameIndex">>,
                                          <<"u8", "flagIndex">> >>],
     objectCount      |-> [name |-> "objects",
                           element |-> << <<"u16", "nameIndex">>,
                                          <<"objectSize", "size">> >>],
     numVariables     |-> [name |-> "variables", element |-> ReadVariable],
     numProperties    |-> [name |-> "properties", element |-> ReadProperty],
     numStates        |-> [name |-> "states", element |-> ReadState],
     numFunctions     |-> [name |-> "functions",
                           element |-> << <<"u16", "functionName">> >>
                                       \o ReadFunction],
     numParams        |-> [name |-> "params", element |-> ReadVariableType],
     numLocals        |-> [name |-> "locals", element |-> ReadVariableType],
     numInstructions  |-> [name |-> "instructions",
                           element |-> << <<"opcode", "op">> >>]]

\* Variant: a user flag taken to need sizeof(UserFlag) bytes.
MinimumSizeInMemory ==
    [count |-> 2, functionCount |-> 9, instructionCount |-> 2,
     userFlagCount |-> 4, objectCount |-> 6, numVariables |-> 9,
     numProperties |-> 11, numStates |-> 4, numFunctions |-> 17,
     numParams |-> 4, numLocals |-> 4, numInstructions |-> 1]

\* The minimumBytesPerElement each caller gives to ValidateCount.
MinimumSize ==
    [count |-> 2, functionCount |-> 9, instructionCount |-> 2,
     userFlagCount |-> 3, objectCount |-> 6, numVariables |-> 9,
     numProperties |-> 11, numStates |-> 4, numFunctions |-> 17,
     numParams |-> 4, numLocals |-> 4, numInstructions |-> 1]

\* The bytes each kind of read takes; "payload" takes the length read
\* before it, the other kinds read nothing.
Width == [magic |-> 4, u8 |-> 1, u16 |-> 2, u32 |-> 4, u64 |-> 8,
          string |-> 2, count |-> 2, debugFlag |-> 1, objectSize |-> 4,
          propertyFlags |-> 1, type |-> 1, opcode |-> 1]

\* Every read the parser makes: its kind and the member it fills.
Members ==
    ({"magic"} \X {"magic"})
    \cup ({"u8"} \X {"majorVersion", "minorVersion", "functionType",
                     "flagIndex", "flags", "uint8"})
    \cup ({"u16"} \X {"gameId", "objectNameIndex", "stateNameIndex",
                      "functionNameIndex", "line", "flagNameIndex",
                      "nameIndex", "parentClassName", "docString",
                      "autoStateName", "name", "typeName", "type",
                      "docstring", "autoVarName", "functionName",
                      "returnType", "uint16"})
    \cup ({"u32"} \X {"userFlags", "int32", "float"})
    \cup ({"u64"} \X {"compilationTime", "modificationTime"})
    \cup ({"string", "payload"}
            \X {"sourceFileName", "username", "machinename", "bytes"})
    \cup ({"count"} \X DOMAIN Vector)
    \cup ({"debugFlag"} \X {"hasDebugInfo"})
    \cup ({"objectSize"} \X {"size"})
    \cup ({"propertyFlags"} \X {"flags"})
    \cup ({"type"} \X {"type"})
    \cup ({"opcode"} \X {"op"})

ASSUME ContentsAssumption == Contents \in [Members -> SUBSET Nat]

-----------------------------------------------------------------------------
(* An entry of the agenda: a kind of step, the record and member it is     *)
(* about, and a number: the length of a payload, the elements a loop has   *)
(* read, the offset where an object must end, the header arguments of a    *)
(* call.                                                                   *)

Kinds == DOMAIN Width \cup
            {"payload", "loop", "objectEnd", "callArguments", "push"}

Fields == {m[2] : m \in Members} \cup {"arguments"}

\* The parts a record may have: elements of a vector, or a handler.
Parts == {Vector[c].name : c \in DOMAIN Vector}
            \cup {"arguments", "readHandler", "writeHandler"}

Path == Seq(Parts \X Nat)

Goals ==
    {g \in [kind : Kinds, path : Path, field : Fields, n : Nat] :
        /\ g.kind \in DOMAIN Width \cup {"payload"} =>
              <<g.kind, g.field>> \in Members
        /\ g.kind = "loop" => g.field \in DOMAIN Vector}

Goal(kind, path, field, n) ==
    [kind |-> kind, path |-> path, field |-> field, n |-> n]

\* The reads of a Read function, for the record at path.
Reads(body, path) ==
    [i \in DOMAIN body |-> Goal(body[i][1], path, body[i][2], 0)]

\* Variant: the objects are left out.
LoadWithoutObjects ==
    Reads(ReadHeader \o ReadStringTable \o ReadDebugInfo \o ReadUserFlags, << >>)

Load == Reads(ReadHeader \o ReadStringTable \o ReadDebugInfo \o ReadUserFlags
                \o ReadObjects, << >>)

head == Head(agenda)

\* A file nobody has read.
Unread(n) == [bytes |-> n, at |-> [o \in {} |-> 0]]

\* The bytes left once w more are read.
RemainingAfter(w) == size - (position + w)

\* The item the step at hand finds in w bytes when they hold v.
Item(w, v) == IF head.kind = "payload" THEN Text(w, v) ELSE Number(w, v)

\* The values the read of w bytes at hand may return.
Seen(w) ==
    IF /\ position \in DOMAIN disk.at
       /\ disk.at[position] = Item(w, disk.at[position].value)
    THEN {disk.at[position].value}
    ELSE Contents[<<head.kind, head.field>>]

\* Variant: only the input limits a count.
CountTooLargeForInput(n, min, left) == n > left \div min

\* ValidateCount throws, with `left` bytes of input remaining.
CountTooLarge(n, min, left) ==
    \/ n > MaxAggregateElements - aggregateElements
    \/ n > left \div min

\* The step at hand, having read v, throws.
Rejects(v) ==
    \/ head.kind = "magic" /\ v # Magic
    \/ head.kind = "string" /\ v > RemainingAfter(2)
    \/ head.kind = "count"
         /\ CountTooLarge(v, MinimumSize[head.field], RemainingAfter(2))
    \/ head.kind = "debugFlag" /\ v > 1
    \/ head.kind = "objectSize" /\ (v < 4 \/ v - 4 > RemainingAfter(4))
    \/ head.kind = "type" /\ v > 5
    \/ head.kind = "opcode"
         /\ \/ v > array_rfindelement
            \/ CountTooLarge(HeaderArgumentCount(v), 1, RemainingAfter(1))

\* static_cast<int32_t>
Signed(v) == IF v > MaxInt32 THEN v - 2 * (MaxInt32 + 1) ELSE v

\* The argument count of a call, as ReadCallArgumentCount finds it.
CallArgument == Child(head.path, "arguments", head.n)

CallArgumentCountIsInvalid ==
    \/ Value(parsed, CallArgument, "type") # 3
    \/ LET count == Signed(Value(parsed, CallArgument, "int32"))
       IN  \/ count < 0
           \/ count > MaxCallArgumentCount
           \/ CountTooLarge(count, 1, RemainingAfter(0))

HeadWidth == IF head.kind = "payload" THEN head.n ELSE Width[head.kind]

\* Load is at a step of one of these kinds.
At(kinds) == load = "parsing" /\ agenda # << >> /\ head.kind \in kinds

-----------------------------------------------------------------------------
(* Opening a file *)

\* The caller names another file.  [The files are the environment's.]
PlaceFile ==
    /\ load # "parsing"
    /\ \E n \in FileSizes : disk' = Unread(n)
    /\ UNCHANGED <<reader, agenda, parsed, inst, load, loads>>

\* The file is opened and its size is within the limit.
OpenFile ==
    /\ load # "parsing" /\ loads < MaxLoads
    /\ disk.bytes <= MaxFileSize
    /\ size' = disk.bytes
    /\ position' = 0
    /\ aggregateElements' = 0
    /\ agenda' = Load
    /\ parsed' = EmptyData
    /\ load' = "parsing"
    /\ loads' = loads + 1
    /\ UNCHANGED <<disk, inst>>

\* The file cannot be opened, or is too large for the reader.
RefuseFile ==
    /\ load # "parsing" /\ loads < MaxLoads
    /\ IoFaults \/ disk.bytes > MaxFileSize
    /\ load' = "failed"
    /\ loads' = loads + 1
    /\ UNCHANGED <<disk, reader, agenda, parsed, inst>>

-----------------------------------------------------------------------------
(* Reading *)

\* Variant: a read does not ask how much input remains.
ConsumeUnbounded(w, v) ==
    /\ v \in Seen(w)
    /\ ~Rejects(v)
    /\ disk' = [disk EXCEPT !.at = Put(@, position, Item(w, v))]
    /\ position' = position + w
    /\ UNCHANGED <<size, inst, load, loads>>

\* The step at hand reads w bytes, finds v in them and accepts it.
Consume(w, v) ==
    /\ w <= size - position
    /\ v \in Seen(w)
    /\ ~Rejects(v)
    /\ disk' = [disk EXCEPT !.at = Put(@, position, Item(w, v))]
    /\ position' = position + w
    /\ UNCHANGED <<size, inst, load, loads>>

\* `parsed` once the member at hand holds v, and once the vector or string
\* `field` of the record at `path` has n elements.
WithValue(v) ==
    [parsed EXCEPT !.val = Put(@, <<head.path, head.field>>, v)]

\* Variant: one element too few.
WithSizeOneShort(d, path, field, n) ==
    [d EXCEPT !.len = Put(@, <<path, field>>, n - 1)]

WithSize(d, path, field, n) ==
    [d EXCEPT !.len = Put(@, <<path, field>>, n)]

\* A member nothing else depends on, the magic, or the bytes of a string.
ReadScalar ==
    /\ At({"magic", "u8", "u16", "u32", "u64", "payload"})
    /\ \E v \in Seen(HeadWidth) :
          /\ Consume(HeadWidth, v)
          /\ parsed' = WithValue(v)
    /\ agenda' = Tail(agenda)
    /\ UNCHANGED aggregateElements

\* ReadWString, ReadBytes: the length, which fits in what remains, and then,
\* unless it is 0, as many bytes.
ReadLength ==
    /\ At({"string"})
    /\ \E v \in Seen(2) :
          /\ Consume(2, v)
          /\ parsed' = WithSize(parsed, head.path, head.field, v)
          /\ agenda' = (IF v = 0 THEN << >>
                        ELSE <<Goal("payload", head.path, head.field, v)>>)
                       \o Tail(agenda)
    /\ UNCHANGED aggregateElements

\* A count is validated, its vector resized, and the loop over it entered.
\* The vector of objects is only reserved.
ReadCount ==
    /\ At({"count"})
    /\ \E v \in Seen(2) :
          /\ Consume(2, v)
          /\ aggregateElements' = aggregateElements + v
          /\ parsed' = WithSize(WithValue(v), head.path,
                                Vector[head.field].name,
                                IF head.field = "objectCount" THEN 0 ELSE v)
    /\ agenda' = <<Goal("loop", head.path, head.field, 0)>> \o Tail(agenda)

\* The head of a loop: the reads of the next element, or the end.
NextElement ==
    /\ At({"loop"})
    /\ LET vector == Vector[head.field]
           i == head.n + 1
       IN  agenda' =
             IF head.n < Value(parsed, head.path, head.field)
             THEN Reads(vector.element, Child(head.path, vector.name, i))
                    \o <<[head EXCEPT !.n = i]>> \o Tail(agenda)
             ELSE Tail(agenda)
    /\ UNCHANGED <<disk, reader, parsed, inst, load, loads>>

ReadDebugFlag ==
    /\ At({"debugFlag"})
    /\ \E v \in Seen(1) :
          /\ Consume(1, v)
          /\ parsed' = WithValue(v)
          /\ agenda' = (IF v = 0 THEN << >>
                        ELSE Reads(<< <<"u64", "modificationTime">>,
                                      <<"count", "functionCount">> >>, head.path))
                       \o Tail(agenda)
    /\ UNCHANGED aggregateElements

\* Variant: the size does not count its own 4 bytes.
ReadObjectSizeOfData ==
    /\ At({"objectSize"})
    /\ \E v \in Seen(4) :
          /\ Consume(4, v)
          /\ parsed' = WithSize(WithValue(v), << >>, "objects",
                                Size(parsed, << >>, "objects") + 1)
          /\ agenda' = Reads(ReadObjectData, head.path)
                       \o <<Goal("objectEnd", head.path, "size", position + 4 + v)>>
                       \o Tail(agenda)
    /\ UNCHANGED aggregateElements

\* The size of an object counts its own 4 bytes.  The object is appended to
\* the vector, its data read, and the bytes read compared with the size.
ReadObjectSize ==
    /\ At({"objectSize"})
    /\ \E v \in Seen(4) :
          /\ Consume(4, v)
          /\ parsed' = WithSize(WithValue(v), << >>, "objects",
                                Size(parsed, << >>, "objects") + 1)
          /\ agenda' = Reads(ReadObjectData, head.path)
                       \o <<Goal("objectEnd", head.path, "size",
                                 position + 4 + (v - 4))>>
                       \o Tail(agenda)
    /\ UNCHANGED aggregateElements

\* Variant: where the object ends is not checked.
ObjectEndsAnywhere ==
    /\ At({"objectEnd"})
    /\ agenda' = Tail(agenda)
    /\ UNCHANGED <<disk, reader, parsed, inst, load, loads>>

ObjectEnds ==
    /\ At({"objectEnd"})
    /\ position = head.n
    /\ agenda' = Tail(agenda)
    /\ UNCHANGED <<disk, reader, parsed, inst, load, loads>>

\* What a property holds besides its members depends on its flags.
ReadPropertyFlags ==
    /\ At({"propertyFlags"})
    /\ \E v \in Seen(1) :
          /\ Consume(1, v)
          /\ parsed' = WithValue(v)
          /\ agenda' =
               (IF HasBit(v, 4)
                THEN Reads(<< <<"u16", "autoVarName">> >>, head.path) ELSE << >>)
               \o (IF HasBit(v, 1) /\ ~HasBit(v, 4)
                   THEN Reads(ReadFunction, Child(head.path, "readHandler", 0))
                   ELSE << >>)
               \o (IF HasBit(v, 2) /\ ~HasBit(v, 4)
                   THEN Reads(ReadFunction, Child(head.path, "writeHandler", 0))
                   ELSE << >>)
               \o Tail(agenda)
    /\ UNCHANGED aggregateElements

ReadType ==
    /\ At({"type"})
    /\ \E v \in Seen(1) :
          /\ Consume(1, v)
          /\ parsed' = WithValue(v)
          /\ agenda' = Reads(ReadVariableData[v], head.path) \o Tail(agenda)
    /\ UNCHANGED aggregateElements

\* An argument of the instruction at `path`.
ReadArgument(path, i) == Goal("type", Child(path, "arguments", i), "type", 0)

\* ReadInstruction up to the first argument: a plain instruction resizes its
\* vector of arguments, a call reads its header into locals first.
ReadOpcode ==
    /\ At({"opcode"})
    /\ \E v \in Seen(1) :
          LET n == HeaderArgumentCount(v) IN
          /\ Consume(1, v)
          /\ aggregateElements' = aggregateElements + n
          /\ parsed' = WithSize(WithValue(v), head.path, "arguments",
                                IF v \in Calls THEN 0 ELSE n)
          /\ agenda' = [i \in 1..n |-> ReadArgument(head.path, i)]
                       \o (IF v \in Calls
                           THEN <<Goal("callArguments", head.path, "op", n)>>
                           ELSE << >>)
                       \o Tail(agenda)

\* Variant: further arguments are not charged to the reader.
ReadCallArgumentsUncharged ==
    /\ At({"callArguments"})
    /\ ~CallArgumentCountIsInvalid
    /\ LET n == head.n
           count == Signed(Value(parsed, CallArgument, "int32"))
       IN  /\ parsed' = WithSize(parsed, head.path, "arguments", n)
           /\ agenda' = [i \in 1..(2 * count) |->
                           IF i % 2 = 1
                           THEN ReadArgument(head.path, n + (i + 1) \div 2)
                           ELSE Goal("push", head.path, "arguments", 0)]
                        \o Tail(agenda)
    /\ UNCHANGED <<disk, reader, inst, load, loads>>

\* The header arguments of a call are pushed, the count among them is
\* validated, and each further argument is read and then pushed.
ReadCallArguments ==
    /\ At({"callArguments"})
    /\ ~CallArgumentCountIsInvalid
    /\ LET n == head.n
           count == Signed(Value(parsed, CallArgument, "int32"))
       IN  /\ aggregateElements' = aggregateElements + count
           /\ parsed' = WithSize(parsed, head.path, "arguments", n)
           /\ agenda' = [i \in 1..(2 * count) |->
                           IF i % 2 = 1
                           THEN ReadArgument(head.path, n + (i + 1) \div 2)
                           ELSE Goal("push", head.path, "arguments", 0)]
                        \o Tail(agenda)
    /\ UNCHANGED <<disk, size, position, inst, load, loads>>

PushArgument ==
    /\ At({"push"})
    /\ parsed' = WithSize(parsed, head.path, "arguments",
                          Size(parsed, head.path, "arguments") + 1)
    /\ agenda' = Tail(agenda)
    /\ UNCHANGED <<disk, reader, inst, load, loads>>

-----------------------------------------------------------------------------
(* The end of the call *)

\* The stack unwinds: the reader and `parsed` are destroyed.
EndCall(outcome) ==
    /\ load' = outcome
    /\ parsed' = EmptyData
    /\ agenda' = << >>
    /\ size' = 0 /\ position' = 0 /\ aggregateElements' = 0
    /\ UNCHANGED loads

\* Variants: what was parsed is kept; a short read throws nothing.
ReadFailsInPlace ==
    /\ At(DOMAIN Width \cup {"payload"})
    /\ IoFaults \/ HeadWidth > size - position
    /\ EndCall("failed")
    /\ inst' = parsed
    /\ UNCHANGED disk

ReadFailsQuietly ==
    /\ At(DOMAIN Width \cup {"payload"})
    /\ HeadWidth > size - position
    /\ UNCHANGED vars

\* A read finds too little input or, with IoFaults, cannot be completed.
ReadFails ==
    /\ At(DOMAIN Width \cup {"payload"})
    /\ IoFaults \/ HeadWidth > size - position
    /\ EndCall("failed")
    /\ UNCHANGED <<disk, inst>>

\* A value is read and refused.
ValueRefused ==
    /\ At(DOMAIN Width)
    /\ HeadWidth <= size - position
    /\ \E v \in Seen(HeadWidth) :
          /\ Rejects(v)
          /\ disk' = [disk EXCEPT !.at =
                        Put(@, position, Item(HeadWidth, v))]
    /\ EndCall("failed")
    /\ UNCHANGED inst

\* An object ends elsewhere than its size says.
ObjectSizeMismatch ==
    /\ At({"objectEnd"})
    /\ position # head.n
    /\ EndCall("failed")
    /\ UNCHANGED <<disk, inst>>

CallRefused ==
    /\ At({"callArguments"})
    /\ CallArgumentCountIsInvalid
    /\ EndCall("failed")
    /\ UNCHANGED <<disk, inst>>

Throw == ReadFails \/ ValueRefused \/ ObjectSizeMismatch \/ CallRefused

\* *this = std::move(parsed).  Bytes after the last object are not read.
Commit ==
    /\ load = "parsing" /\ agenda = << >>
    /\ inst' = parsed
    /\ EndCall("loaded")
    /\ UNCHANGED disk

-----------------------------------------------------------------------------
\* A new instance, and no call yet.
NoCall ==
    /\ size = 0 /\ position = 0 /\ aggregateElements = 0
    /\ agenda = << >>
    /\ parsed = EmptyData
    /\ inst = EmptyData
    /\ load = "idle" /\ loads = 0

Init ==
    /\ disk \in {Unread(n) : n \in FileSizes}
    /\ NoCall

ReadStep ==
    \/ ReadScalar \/ ReadLength \/ ReadCount \/ NextElement \/ ReadDebugFlag
    \/ ReadObjectSize \/ ObjectEnds \/ ReadPropertyFlags \/ ReadType
    \/ ReadOpcode \/ ReadCallArguments \/ PushArgument

LoadStep == ReadStep \/ Throw \/ Commit

Next == PlaceFile \/ OpenFile \/ RefuseFile \/ LoadStep

\* The thread that is in Load keeps running.
Spec == Init /\ [][Next]_vars /\ WF_vars(LoadStep)

-----------------------------------------------------------------------------
(* Properties *)

IsData(d) ==
    /\ d = [val |-> d.val, len |-> d.len]
    /\ \A k \in DOMAIN d.val : d.val[k] \in Nat
    /\ \A k \in DOMAIN d.len : d.len[k] \in Nat

\* Every variable has a value of its type.
TypeOK ==
    /\ disk = [bytes |-> disk.bytes, at |-> disk.at]
    /\ disk.bytes \in Nat
    /\ \A o \in DOMAIN disk.at : disk.at[o] \in Items
    /\ size \in Nat /\ position \in Nat /\ aggregateElements \in Nat
    /\ agenda \in Seq(Goals)
    /\ IsData(parsed) /\ IsData(inst)
    /\ load \in {"idle", "parsing", "loaded", "failed"}
    /\ loads \in Nat

\* The reader never stands past the end of the file it measured, whose size
\* is within the limit, so that _size - _position and the difference that
\* ValidateCount takes never wrap around (Record.h:42-45, 75).
ReaderBounded ==
    /\ position <= size /\ size <= MaxFileSize
    /\ aggregateElements <= MaxAggregateElements

\* The elements of all the vectors of d.
VectorNames == {Vector[c].name : c \in DOMAIN Vector} \cup {"arguments"}

Held(d) ==
    MapThenSumSet(LAMBDA k : d.len[k],
                  {k \in DOMAIN d.len : k[2] \in VectorNames})

\* However deeply vectors are nested, and although each is sized in another
\* function, the reader has been charged for every element that exists: no
\* resize, emplace_back or push_back precedes its ValidateCount, and what an
\* instance holds never exceeds the aggregate limit.
HeldWithinBudget ==
    /\ Held(parsed) <= aggregateElements
    /\ Held(inst) <= MaxAggregateElements

\* The accessors of the C ABI index a vector after comparing the index with
\* the count member beside it, never with size(): in the instance every
\* count is the size of its vector.
CountsMatchVectors ==
    /\ \A k \in DOMAIN inst.val :
          k[2] \in DOMAIN Vector =>
             inst.val[k] = Size(inst, k[1], Vector[k[2]].name)
    /\ \A k \in DOMAIN inst.len :
          k[2] \in VectorNames \ {"arguments"} =>
             \E c \in DOMAIN Vector : /\ Vector[c].name = k[2]
                                      /\ Value(inst, k[1], c) = inst.len[k]

\* What is read of the shortest element of a vector: no data after a type, no
\* arguments after an opcode, no handler; of an object its data, with no
\* variable, property or state.
Shortest(c) ==
    IF c = "objectCount" THEN Vector[c].element \o ReadObjectData ELSE Vector[c].element

\* The bytes it takes.
Widths(c) == [i \in DOMAIN Shortest(c) |-> Width[Shortest(c)[i][1]]]

SmallestElement(c) ==
    MapThenSumSet(LAMBDA i : Widths(c)[i], DOMAIN Widths(c))

\* A count that ValidateCount refuses for want of input could not have been
\* read: the shortest elements would not fit in what remains.  The minimum
\* sizes are counted by hand in the code, and one too large would refuse
\* files that are well formed.  (That of an object is its name and its size
\* only, less than the shortest takes.)
CountRefusalsAreSound ==
    At({"count"}) /\ RemainingAfter(2) >= 0 =>
        \A n \in Seen(2) :
            n > RemainingAfter(2) \div MinimumSize[head.field] =>
                n * SmallestElement(head.field) > RemainingAfter(2)

\* A Load that fails leaves the instance as it was, and one that succeeds
\* replaces all of it, by the data of this one file (PexHelper.cpp:42).
LoadIsAtomic == [][inst' # inst => load' = "loaded" /\ inst' = parsed]_vars

\* Every Load returns: no loop of the parser can run without consuming input
\* or using up a count.
LoadReturns == (load = "parsing") ~> (load # "parsing")
=============================================================================
