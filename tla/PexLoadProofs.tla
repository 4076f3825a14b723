--------------------------- MODULE PexLoadProofs ---------------------------
(***************************************************************************)
(* What holds of Load for every file, every limit and every number of      *)
(* calls.                                                                  *)
(***************************************************************************)
EXTENDS PexLoad, TLAPS

\* The reads a Read function is made of.
Reading == {m \in Members : m[1] # "payload"}

\* The counts of the file.
LEMMA VectorDomain ==
    DOMAIN Vector = {"count", "functionCount", "instructionCount",
        "userFlagCount", "objectCount", "numVariables", "numProperties",
        "numStates", "numFunctions", "numParams", "numLocals",
        "numInstructions"}
  BY DEF Vector

\* A read is of one of the kinds that have a width.
LEMMA ReadingTyped ==
    ASSUME NEW r \in Reading
    PROVE  /\ r \in Members
           /\ r = <<r[1], r[2]>>
           /\ r[1] \in DOMAIN Width
           /\ r[1] = "count" => r[2] \in DOMAIN Vector
  <1>1. r \in Members /\ r[1] # "payload"
    BY DEF Reading
  <1>2. r[1] \in DOMAIN Width
    BY <1>1 DEF Members, Width
  <1>3. r[1] = "count" => r[2] \in DOMAIN Vector
    BY <1>1 DEF Members
  <1>4. r = <<r[1], r[2]>>
    BY <1>1 DEF Members
  <1> QED
    BY <1>1, <1>2, <1>3, <1>4

\* The tables of the Read functions consist of such reads.
LEMMA LoadTyped ==
    ReadHeader \o ReadStringTable \o ReadDebugInfo \o ReadUserFlags
        \o ReadObjects \in Seq(Reading)
  BY VectorDomain DEF Reading, Members, ReadHeader, ReadStringTable,
       ReadDebugInfo, ReadUserFlags, ReadObjects

\* ... ReadObjectData,
LEMMA ObjectDataTyped == ReadObjectData \in Seq(Reading)
  BY VectorDomain DEF Reading, Members, ReadObjectData

\* ... ReadFunction,
LEMMA FunctionTyped == ReadFunction \in Seq(Reading)
  BY VectorDomain DEF Reading, Members, ReadFunction

\* ... ReadDebugFunction,
LEMMA DebugFunctionTyped == ReadDebugFunction \in Seq(Reading)
  BY VectorDomain DEF Reading, Members, ReadDebugFunction

\* ... what a flag may add: an auto variable, the debug information,
LEMMA OptionsTyped ==
    /\ << <<"u16", "autoVarName">> >> \in Seq(Reading)
    /\ << <<"u64", "modificationTime">>, <<"count", "functionCount">> >>
          \in Seq(Reading)
  BY VectorDomain DEF Reading, Members

\* ... and the data of a variable, for each of its six types.
LEMMA VariableDataTyped ==
    ASSUME NEW type \in 0..5
    PROVE  ReadVariableData[type] \in Seq(Reading)
  <1> USE DEF Reading, Members
  <1>0. CASE type = 0
    <2>1. ReadVariableData[type] = << >>
      BY <1>0 DEF ReadVariableData
    <2> QED
      BY <2>1
  <1>1. CASE type \in {1, 2}
    <2>1. ReadVariableData[type] = << <<"u16", "uint16">> >>
      BY <1>1 DEF ReadVariableData
    <2> QED
      BY <2>1
  <1>3. CASE type = 3
    <2>1. ReadVariableData[type] = << <<"u32", "int32">> >>
      BY <1>3 DEF ReadVariableData
    <2> QED
      BY <2>1
  <1>4. CASE type = 4
    <2>1. ReadVariableData[type] = << <<"u32", "float">> >>
      BY <1>4 DEF ReadVariableData
    <2> QED
      BY <2>1
  <1>5. CASE type = 5
    <2>1. ReadVariableData[type] = << <<"u8", "uint8">> >>
      BY <1>5 DEF ReadVariableData
    <2> QED
      BY <2>1
  <1> QED
    BY <1>0, <1>1, <1>3, <1>4, <1>5

\* What a loop reads for an element, and where.
LEMMA VectorTyped ==
    ASSUME NEW c \in DOMAIN Vector
    PROVE  /\ Vector[c].element \in Seq(Reading)
           /\ Vector[c].name \in Parts
  <1>1. Vector[c].name \in Parts
    BY DEF Parts
  <1>2. Vector[c].element \in Seq(Reading)
    <2> DEFINE Shorts == {ReadDebugFunction, ReadVariable, ReadProperty,
                          ReadState, ReadVariableType,
                          << <<"u16", "functionName">> >> \o ReadFunction,
                          << <<"string", "bytes">> >>,
                          << <<"u16", "line">> >>,
                          << <<"u16", "flagNameIndex">>, <<"u8", "flagIndex">> >>,
                          << <<"u16", "nameIndex">>, <<"objectSize", "size">> >>,
                          << <<"opcode", "op">> >>}
    <2>1. Vector[c].element \in Shorts
      BY VectorDomain, SMTT(30) DEF Vector
    <2> USE VectorDomain DEF Reading, Members
    <2>2. /\ ReadVariable \in Seq(Reading)
          /\ ReadProperty \in Seq(Reading)
      BY DEF ReadVariable, ReadProperty
    <2>3. /\ ReadState \in Seq(Reading)
          /\ ReadVariableType \in Seq(Reading)
      BY DEF ReadState, ReadVariableType
    <2>4. << <<"u16", "functionName">> >> \o ReadFunction \in Seq(Reading)
      <3>1. << <<"u16", "functionName">> >> \in Seq(Reading)
        OBVIOUS
      <3> QED
        BY <3>1, FunctionTyped
    <2>5. /\ << <<"string", "bytes">> >> \in Seq(Reading)
          /\ << <<"u16", "line">> >> \in Seq(Reading)
          /\ << <<"opcode", "op">> >> \in Seq(Reading)
      OBVIOUS
    <2>6. /\ << <<"u16", "flagNameIndex">>, <<"u8", "flagIndex">> >>
                \in Seq(Reading)
          /\ << <<"u16", "nameIndex">>, <<"objectSize", "size">> >>
                \in Seq(Reading)
      OBVIOUS
    <2> HIDE DEF Reading, Members
    <2> QED
      BY <2>1, <2>2, <2>3, <2>4, <2>5, <2>6, DebugFunctionTyped DEF Shorts
  <1> QED
    BY <1>1, <1>2

\* What is put on the agenda is well formed.
LEMMA ReadsTyped ==
    ASSUME NEW body \in Seq(Reading), NEW path \in Path
    PROVE  Reads(body, path) \in Seq(Goals)
  <1>1. ASSUME NEW i \in DOMAIN body
        PROVE  Goal(body[i][1], path, body[i][2], 0) \in Goals
    <2>1. body[i] \in Reading
      OBVIOUS
    <2>2. body[i][2] \in Fields
      BY <2>1, ReadingTyped DEF Fields
    <2>3. /\ body[i][1] \in DOMAIN Width
          /\ <<body[i][1], body[i][2]>> \in Members
      BY <2>1, ReadingTyped
    <2>4. body[i][1] # "loop"
      BY <2>3 DEF Width
    <2> QED
      BY <2>2, <2>3, <2>4 DEF Goal, Goals, Kinds
  <1> QED
    BY <1>1 DEF Reads

-----------------------------------------------------------------------------
(* Type correctness *)

\* Adding a value to a map of values.
LEMMA PutTyped ==
    ASSUME NEW f, NEW k, NEW S, NEW v \in S, \A x \in DOMAIN f : f[x] \in S
    PROVE  \A x \in DOMAIN Put(f, k, v) : Put(f, k, v)[x] \in S
  BY DEF Put

\* A number assigned to a member, or to a size, keeps a record tree typed.
LEMMA DataTyped ==
    ASSUME NEW d, IsData(d), NEW k, NEW n \in Nat
    PROVE  /\ IsData([d EXCEPT !.val = Put(@, k, n)])
           /\ IsData([d EXCEPT !.len = Put(@, k, n)])
  <1>1. /\ \A x \in DOMAIN Put(d.val, k, n) : Put(d.val, k, n)[x] \in Nat
        /\ \A x \in DOMAIN Put(d.len, k, n) : Put(d.len, k, n)[x] \in Nat
    BY PutTyped DEF IsData
  <1>2. /\ [d EXCEPT !.val = Put(@, k, n)] = [val |-> Put(d.val, k, n), len |-> d.len]
        /\ [d EXCEPT !.len = Put(@, k, n)] = [val |-> d.val, len |-> Put(d.len, k, n)]
    BY DEF IsData
  <1> QED
    BY <1>1, <1>2 DEF IsData

\* A default-constructed PexData is a record tree.
LEMMA EmptyDataTyped == IsData(EmptyData)
  BY DEF IsData, EmptyData

\* Its members and sizes are natural numbers, the unassigned ones too.
LEMMA ValueTyped ==
    ASSUME NEW d, IsData(d), NEW path, NEW field
    PROVE  Value(d, path, field) \in Nat /\ Size(d, path, field) \in Nat
  BY DEF IsData, Value, Size

\* The step at hand, and what follows it, are well formed.
LEMMA HeadTyped ==
    ASSUME TypeOK, agenda # << >>
    PROVE  head \in Goals /\ Tail(agenda) \in Seq(Goals)
  BY DEF TypeOK, head

\* What a read returns is a natural number.
LEMMA SeenTyped ==
    ASSUME TypeOK, agenda # << >>, head.kind \in DOMAIN Width \cup {"payload"},
           NEW w, NEW v \in Seen(w)
    PROVE  v \in Nat
  <1>1. <<head.kind, head.field>> \in Members
    BY HeadTyped DEF Goals
  <1>2. Contents[<<head.kind, head.field>>] \subseteq Nat
    BY <1>1, ContentsAssumption
  <1> QED
    BY <1>2 DEF Seen, TypeOK, Items

\* A file stays well formed as more of it is read.
LEMMA RevealTyped ==
    ASSUME TypeOK, NEW w \in Nat, NEW v \in Nat,
           disk' = [disk EXCEPT !.at =
                      Put(@, position, Item(w, v))]
    PROVE  /\ disk' = [bytes |-> disk'.bytes, at |-> disk'.at]
           /\ disk'.bytes \in Nat
           /\ \A o \in DOMAIN disk'.at :
                 disk'.at[o] \in Items
  <1> DEFINE cell == Item(w, v)
  <1>1. disk' = [bytes |-> disk.bytes, at |-> Put(disk.at, position, cell)]
    BY DEF TypeOK
  <1>2. cell \in Items
    BY DEF Item, Items, Text, Number
  <1>3. \A o \in DOMAIN Put(disk.at, position, cell) :
           Put(disk.at, position, cell)[o] \in Items
    BY <1>2, PutTyped DEF TypeOK
  <1> QED
    BY <1>1, <1>3 DEF TypeOK

\* A step reads a natural number of bytes.
LEMMA WidthTyped ==
    ASSUME TypeOK, agenda # << >>, head.kind \in DOMAIN Width \cup {"payload"}
    PROVE  HeadWidth \in Nat
  <1>1. head.n \in Nat
    BY HeadTyped DEF Goals
  <1>2. \A k \in DOMAIN Width : Width[k] \in Nat
    BY DEF Width
  <1> QED
    BY <1>1, <1>2 DEF HeadWidth

\* A step that consumes input keeps all but agenda, parsed and the charge
\* well typed.
LEMMA ConsumeTyped ==
    ASSUME TypeOK, agenda # << >>, head.kind \in DOMAIN Width \cup {"payload"},
           NEW w \in Nat, NEW v, Consume(w, v),
           agenda' \in Seq(Goals), IsData(parsed'), aggregateElements' \in Nat
    PROVE  TypeOK'
  <1>1. v \in Nat
    BY SeenTyped DEF Consume
  <1>2. position' \in Nat
    BY DEF Consume, TypeOK
  <1>3. /\ disk' = [bytes |-> disk'.bytes, at |-> disk'.at]
        /\ disk'.bytes \in Nat
        /\ \A o \in DOMAIN disk'.at : disk'.at[o] \in Items
    BY <1>1, RevealTyped DEF Consume
  <1> QED
    BY <1>2, <1>3 DEF TypeOK, Consume, IsData

\* The path of an element.
LEMMA ChildTyped ==
    ASSUME NEW path \in Path, NEW part \in Parts, NEW i \in Nat
    PROVE  Child(path, part, i) \in Path
  BY DEF Child, Path

\* Agendas are put together by concatenation.
LEMMA ConcatTyped ==
    ASSUME NEW S, NEW a \in Seq(S), NEW b \in Seq(S), NEW c \in Seq(S)
    PROVE  a \o b \in Seq(S) /\ a \o b \o c \in Seq(S)
  OBVIOUS

\* The members that parsed gets are natural numbers.
LEMMA ParsedTyped ==
    ASSUME TypeOK, NEW v \in Nat, NEW n \in Nat, NEW path, NEW field
    PROVE  /\ IsData(WithValue(v))
           /\ IsData(WithSize(parsed, path, field, n))
           /\ IsData(WithSize(WithValue(v), path, field, n))
  BY DataTyped DEF TypeOK, WithValue, WithSize

\* The steps that read nothing.
LEMMA GoalTyped ==
    ASSUME NEW kind \in {"loop", "objectEnd", "callArguments", "push"},
           NEW path \in Path, NEW field \in Fields, NEW n \in Nat,
           kind = "loop" => field \in DOMAIN Vector
    PROVE  <<Goal(kind, path, field, n)>> \in Seq(Goals)
  <1>1. kind \in Kinds /\ kind \notin DOMAIN Width \cup {"payload"}
    BY DEF Kinds, Width
  <1> QED
    BY <1>1 DEF Goal, Goals

\* The read of an argument.
LEMMA ArgumentTyped ==
    ASSUME NEW path \in Path, NEW i \in Nat
    PROVE  ReadArgument(path, i) \in Goals
  <1>1. <<"type", "type">> \in Members /\ "type" \in DOMAIN Width
    BY DEF Members, Width
  <1>2. "type" \in Fields /\ "type" \in Kinds
    BY <1>1 DEF Fields, Kinds
  <1>3. Child(path, "arguments", i) \in Path
    BY ChildTyped DEF Parts
  <1> QED
    BY <1>1, <1>2, <1>3 DEF ReadArgument, Goal, Goals

\* A number of header arguments is a natural number, for any opcode.
LEMMA HeaderTyped ==
    ASSUME NEW op
    PROVE  HeaderArgumentCount(op) \in Nat
  BY DEF HeaderArgumentCount

\* ReadScalar keeps every variable of its type.
LEMMA ReadScalarTyped == TypeOK /\ ReadScalar => TypeOK'
  <1> SUFFICES ASSUME TypeOK, ReadScalar PROVE TypeOK'
    OBVIOUS
  <1>1. head.kind \in DOMAIN Width \cup {"payload"} /\ agenda # << >>
    BY DEF ReadScalar, At, Width
  <1>2. PICK v : v \in Seen(HeadWidth) /\ Consume(HeadWidth, v)
                 /\ parsed' = WithValue(v)
    BY DEF ReadScalar
  <1>3. v \in Nat /\ HeadWidth \in Nat
    BY <1>1, <1>2, SeenTyped, WidthTyped
  <1>4. IsData(parsed')
    BY <1>2, <1>3, ParsedTyped
  <1>5. agenda' \in Seq(Goals)
    BY <1>1, HeadTyped DEF ReadScalar
  <1>6. aggregateElements' \in Nat
    BY DEF ReadScalar, TypeOK
  <1> QED
    BY <1>1, <1>2, <1>3, <1>4, <1>5, <1>6, ConsumeTyped

\* ReadLength keeps every variable of its type.
LEMMA ReadLengthTyped == TypeOK /\ ReadLength => TypeOK'
  <1> SUFFICES ASSUME TypeOK, ReadLength PROVE TypeOK'
    OBVIOUS
  <1>1. head.kind = "string" /\ head.kind \in DOMAIN Width /\ agenda # << >>
    BY DEF ReadLength, At, Width
  <1>2. PICK v : /\ v \in Seen(2) /\ Consume(2, v)
                 /\ parsed' = WithSize(parsed, head.path, head.field, v)
                 /\ agenda' = (IF v = 0 THEN << >>
                        ELSE <<Goal("payload", head.path, head.field, v)>>)
                       \o Tail(agenda)
    BY DEF ReadLength
  <1>3. v \in Nat
    BY <1>1, <1>2, SeenTyped
  <1>4. IsData(parsed')
    BY <1>2, <1>3, ParsedTyped
  <1>5. Goal("payload", head.path, head.field, v) \in Goals
    <2>1. head \in Goals
      BY <1>1, HeadTyped
    <2>2. <<"string", head.field>> \in Members
      BY <1>1, <2>1 DEF Goals
    <2>3. <<"payload", head.field>> \in Members
      BY <2>2 DEF Members
    <2> QED
      BY <1>3, <2>1, <2>3 DEF Goal, Goals, Kinds
  <1>6. agenda' \in Seq(Goals)
    BY <1>1, <1>2, <1>5, HeadTyped
  <1>7. aggregateElements' \in Nat
    BY DEF ReadLength, TypeOK
  <1> QED
    BY <1>1, <1>2, <1>4, <1>6, <1>7, ConsumeTyped

\* ReadCount keeps every variable of its type.
LEMMA ReadCountTyped == TypeOK /\ ReadCount => TypeOK'
  <1> SUFFICES ASSUME TypeOK, ReadCount PROVE TypeOK'
    OBVIOUS
  <1>1. head.kind = "count" /\ head.kind \in DOMAIN Width /\ agenda # << >>
    BY DEF ReadCount, At, Width
  <1>2. PICK v : /\ v \in Seen(2) /\ Consume(2, v)
                 /\ aggregateElements' = aggregateElements + v
                 /\ parsed' = WithSize(WithValue(v), head.path,
                                Vector[head.field].name,
                                IF head.field = "objectCount" THEN 0 ELSE v)
    BY DEF ReadCount
  <1>3. v \in Nat
    BY <1>1, <1>2, SeenTyped
  <1>4. IsData(parsed')
    BY <1>2, <1>3, ParsedTyped
  <1>5. head \in Goals /\ head.field \in DOMAIN Vector
    <2>1. head \in Goals /\ <<"count", head.field>> \in Members
      BY <1>1, HeadTyped DEF Goals
    <2> QED
      BY <2>1 DEF Members
  <1>6. <<Goal("loop", head.path, head.field, 0)>> \in Seq(Goals)
    BY <1>5, GoalTyped DEF Goals
  <1>7. agenda' \in Seq(Goals)
    BY <1>1, <1>6, HeadTyped DEF ReadCount
  <1>8. aggregateElements' \in Nat
    BY <1>2, <1>3 DEF TypeOK
  <1> QED
    BY <1>1, <1>2, <1>4, <1>7, <1>8, ConsumeTyped

\* NextElement keeps every variable of its type.
LEMMA NextElementTyped == TypeOK /\ NextElement => TypeOK'
  <1> SUFFICES ASSUME TypeOK, NextElement PROVE TypeOK'
    OBVIOUS
  <1> DEFINE i == head.n + 1
             vector == Vector[head.field]
  <1>1. head.kind = "loop" /\ agenda # << >>
    BY DEF NextElement, At
  <1>2. /\ head \in Goals /\ head.field \in DOMAIN Vector /\ head.n \in Nat
        /\ head.path \in Path /\ head.field \in Fields
        /\ head = Goal("loop", head.path, head.field, head.n)
        /\ Tail(agenda) \in Seq(Goals)
    BY <1>1, HeadTyped DEF Goals, Goal
  <1>3. Reads(vector.element, Child(head.path, vector.name, i)) \in Seq(Goals)
    <2>1. vector.element \in Seq(Reading) /\ vector.name \in Parts /\ i \in Nat
      BY <1>2, VectorTyped
    <2> HIDE DEF vector, i
    <2>2. Child(head.path, vector.name, i) \in Path
      BY <1>2, <2>1, ChildTyped
    <2> QED
      BY <2>1, <2>2, ReadsTyped
  <1>4. [head EXCEPT !.n = i] = Goal("loop", head.path, head.field, i)
    BY <1>2 DEF Goal
  <1>5. <<[head EXCEPT !.n = i]>> \in Seq(Goals)
    BY <1>2, <1>4, GoalTyped
  <1>6. agenda' \in Seq(Goals)
    <2>1. agenda' = Reads(vector.element, Child(head.path, vector.name, i))
                      \o <<[head EXCEPT !.n = i]>> \o Tail(agenda)
          \/ agenda' = Tail(agenda)
      BY DEF NextElement
    <2> DEFINE element == Reads(vector.element, Child(head.path, vector.name, i))
               again == <<[head EXCEPT !.n = i]>>
    <2>2. element \in Seq(Goals) /\ again \in Seq(Goals)
      BY <1>3, <1>5
    <2>3. agenda' = element \o again \o Tail(agenda) \/ agenda' = Tail(agenda)
      BY <2>1
    <2> HIDE DEF element, again
    <2> QED
      BY <1>2, <2>2, <2>3, ConcatTyped
  <1> QED
    BY <1>6 DEF NextElement, TypeOK, reader, IsData

\* ReadDebugFlag keeps every variable of its type.
LEMMA ReadDebugFlagTyped == TypeOK /\ ReadDebugFlag => TypeOK'
  <1> SUFFICES ASSUME TypeOK, ReadDebugFlag PROVE TypeOK'
    OBVIOUS
  <1> DEFINE body == << <<"u64", "modificationTime">>, <<"count", "functionCount">> >>
  <1>1. head.kind \in DOMAIN Width /\ agenda # << >>
    BY DEF ReadDebugFlag, At, Width
  <1>2. PICK v : /\ v \in Seen(1) /\ Consume(1, v) /\ parsed' = WithValue(v)
                 /\ agenda' = (IF v = 0 THEN << >> ELSE Reads(body, head.path))
                                \o Tail(agenda)
    BY DEF ReadDebugFlag
  <1>3. v \in Nat
    BY <1>1, <1>2, SeenTyped
  <1>4. IsData(parsed')
    BY <1>2, <1>3, ParsedTyped
  <1>5. Reads(body, head.path) \in Seq(Goals)
    <2>1. body \in Seq(Reading) /\ head.path \in Path
      BY <1>1, OptionsTyped, HeadTyped DEF Goals
    <2> HIDE DEF body
    <2> QED
      BY <2>1, ReadsTyped
  <1>6. agenda' \in Seq(Goals)
    <2> HIDE DEF body
    <2> QED
      BY <1>1, <1>2, <1>5, HeadTyped, ConcatTyped
  <1>7. aggregateElements' \in Nat
    BY DEF ReadDebugFlag, TypeOK
  <1> QED
    BY <1>1, <1>2, <1>4, <1>6, <1>7, ConsumeTyped

\* ReadObjectSize keeps every variable of its type.
LEMMA ReadObjectSizeTyped == TypeOK /\ ReadObjectSize => TypeOK'
  <1> SUFFICES ASSUME TypeOK, ReadObjectSize PROVE TypeOK'
    OBVIOUS
  <1>1. head.kind \in DOMAIN Width /\ agenda # << >>
    BY DEF ReadObjectSize, At, Width
  <1>2. PICK v : /\ v \in Seen(4) /\ Consume(4, v)
                 /\ parsed' = WithSize(WithValue(v), << >>, "objects",
                                Size(parsed, << >>, "objects") + 1)
                 /\ agenda' = Reads(ReadObjectData, head.path)
                       \o <<Goal("objectEnd", head.path, "size",
                                 position + 4 + (v - 4))>>
                       \o Tail(agenda)
    BY DEF ReadObjectSize
  <1>3. v \in Nat
    BY <1>1, <1>2, SeenTyped
  <1>4. IsData(parsed')
    <2>1. Size(parsed, << >>, "objects") + 1 \in Nat
      BY ValueTyped DEF TypeOK
    <2> QED
      BY <1>2, <1>3, <2>1, ParsedTyped
  <1>5. head.path \in Path /\ Tail(agenda) \in Seq(Goals)
    BY <1>1, HeadTyped DEF Goals
  <1>6. Reads(ReadObjectData, head.path) \in Seq(Goals)
    BY <1>5, ObjectDataTyped, ReadsTyped
  <1>7. <<Goal("objectEnd", head.path, "size", position + 4 + (v - 4))>>
            \in Seq(Goals)
    <2>1. "size" \in Fields
      <3>1. <<"objectSize", "size">> \in Members
        BY DEF Members
      <3> QED
        BY <3>1 DEF Fields
    <2>2. position + 4 + (v - 4) \in Nat
      BY <1>3 DEF TypeOK
    <2> QED
      BY <1>5, <2>1, <2>2, GoalTyped
  <1>8. agenda' \in Seq(Goals)
    BY <1>2, <1>5, <1>6, <1>7, ConcatTyped
  <1>9. aggregateElements' \in Nat
    BY DEF ReadObjectSize, TypeOK
  <1> QED
    BY <1>1, <1>2, <1>4, <1>8, <1>9, ConsumeTyped

\* ObjectEnds keeps every variable of its type.
LEMMA ObjectEndsTyped == TypeOK /\ ObjectEnds => TypeOK'
  <1> SUFFICES ASSUME TypeOK, ObjectEnds PROVE TypeOK'
    OBVIOUS
  <1>1. agenda' \in Seq(Goals)
    BY HeadTyped DEF ObjectEnds, At
  <1> QED
    BY <1>1 DEF ObjectEnds, TypeOK, reader, IsData

\* ReadPropertyFlags keeps every variable of its type.
LEMMA ReadPropertyFlagsTyped == TypeOK /\ ReadPropertyFlags => TypeOK'
  <1> SUFFICES ASSUME TypeOK, ReadPropertyFlags PROVE TypeOK'
    OBVIOUS
  <1> DEFINE
        auto == Reads(<< <<"u16", "autoVarName">> >>, head.path)
        read == Reads(ReadFunction, Child(head.path, "readHandler", 0))
        written == Reads(ReadFunction, Child(head.path, "writeHandler", 0))
  <1>1. head.kind \in DOMAIN Width /\ agenda # << >>
    BY DEF ReadPropertyFlags, At, Width
  <1>2. PICK v :
          /\ v \in Seen(1) /\ Consume(1, v) /\ parsed' = WithValue(v)
          /\ agenda' = (IF HasBit(v, 4) THEN auto ELSE << >>)
               \o (IF HasBit(v, 1) /\ ~HasBit(v, 4) THEN read ELSE << >>)
               \o (IF HasBit(v, 2) /\ ~HasBit(v, 4) THEN written ELSE << >>)
               \o Tail(agenda)
    BY DEF ReadPropertyFlags
  <1>3. v \in Nat
    BY <1>1, <1>2, SeenTyped
  <1>4. IsData(parsed')
    BY <1>2, <1>3, ParsedTyped
  <1>5. head.path \in Path /\ Tail(agenda) \in Seq(Goals)
    BY <1>1, HeadTyped DEF Goals
  <1>6. auto \in Seq(Goals)
    BY <1>5, OptionsTyped, ReadsTyped
  <1>7. read \in Seq(Goals) /\ written \in Seq(Goals)
    <2>1. /\ Child(head.path, "readHandler", 0) \in Path
          /\ Child(head.path, "writeHandler", 0) \in Path
      BY <1>5, ChildTyped DEF Parts
    <2> QED
      BY <2>1, FunctionTyped, ReadsTyped
  <1>8. agenda' \in Seq(Goals)
    <2> DEFINE a == IF HasBit(v, 4) THEN auto ELSE << >>
               b == IF HasBit(v, 1) /\ ~HasBit(v, 4) THEN read ELSE << >>
               c == IF HasBit(v, 2) /\ ~HasBit(v, 4) THEN written ELSE << >>
    <2>1. a \in Seq(Goals) /\ b \in Seq(Goals) /\ c \in Seq(Goals)
      BY <1>6, <1>7
    <2>2. agenda' = a \o b \o c \o Tail(agenda)
      BY <1>2
    <2> HIDE DEF a, b, c
    <2>3. a \o b \o c \in Seq(Goals)
      BY <2>1, ConcatTyped
    <2> QED
      BY <1>5, <2>2, <2>3, ConcatTyped
  <1>9. aggregateElements' \in Nat
    BY DEF ReadPropertyFlags, TypeOK
  <1> QED
    BY <1>1, <1>2, <1>4, <1>8, <1>9, ConsumeTyped

\* ReadType keeps every variable of its type.
LEMMA ReadTypeTyped == TypeOK /\ ReadType => TypeOK'
  <1> SUFFICES ASSUME TypeOK, ReadType PROVE TypeOK'
    OBVIOUS
  <1>1. head.kind = "type" /\ head.kind \in DOMAIN Width /\ agenda # << >>
    BY DEF ReadType, At, Width
  <1>2. PICK v : /\ v \in Seen(1) /\ Consume(1, v) /\ parsed' = WithValue(v)
                 /\ agenda' = Reads(ReadVariableData[v], head.path) \o Tail(agenda)
    BY DEF ReadType
  <1>3. v \in Nat
    BY <1>1, <1>2, SeenTyped
  <1>4. IsData(parsed')
    BY <1>2, <1>3, ParsedTyped
  <1>5. v \in 0..5
    BY <1>1, <1>2, <1>3 DEF Consume, Rejects
  <1>6. Reads(ReadVariableData[v], head.path) \in Seq(Goals)
    <2>1. head.path \in Path
      BY <1>1, HeadTyped DEF Goals
    <2> QED
      BY <1>5, <2>1, VariableDataTyped, ReadsTyped
  <1>7. agenda' \in Seq(Goals)
    BY <1>1, <1>2, <1>6, HeadTyped, ConcatTyped
  <1>8. aggregateElements' \in Nat
    BY DEF ReadType, TypeOK
  <1> QED
    BY <1>1, <1>2, <1>4, <1>7, <1>8, ConsumeTyped

\* ReadOpcode keeps every variable of its type.
LEMMA ReadOpcodeTyped == TypeOK /\ ReadOpcode => TypeOK'
  <1> SUFFICES ASSUME TypeOK, ReadOpcode PROVE TypeOK'
    OBVIOUS
  <1>1. head.kind \in DOMAIN Width /\ agenda # << >>
    BY DEF ReadOpcode, At, Width
  <1>2. PICK v :
          /\ v \in Seen(1) /\ Consume(1, v)
          /\ aggregateElements' = aggregateElements + HeaderArgumentCount(v)
          /\ parsed' = WithSize(WithValue(v), head.path, "arguments",
                         IF v \in Calls THEN 0 ELSE HeaderArgumentCount(v))
          /\ agenda' = [i \in 1..HeaderArgumentCount(v) |->
                            ReadArgument(head.path, i)]
                       \o (IF v \in Calls
                           THEN <<Goal("callArguments", head.path, "op",
                                       HeaderArgumentCount(v))>>
                           ELSE << >>)
                       \o Tail(agenda)
    BY DEF ReadOpcode
  <1> DEFINE n == HeaderArgumentCount(v)
  <1>3. v \in Nat /\ n \in Nat
    BY <1>1, <1>2, SeenTyped, HeaderTyped
  <1>4. IsData(parsed')
    BY <1>2, <1>3, ParsedTyped
  <1>5. head.path \in Path /\ Tail(agenda) \in Seq(Goals)
    BY <1>1, HeadTyped DEF Goals
  <1>6. agenda' \in Seq(Goals)
    <2> DEFINE a == [i \in 1..n |-> ReadArgument(head.path, i)]
               b == IF v \in Calls
                    THEN <<Goal("callArguments", head.path, "op", n)>>
                    ELSE << >>
    <2>1. a \in Seq(Goals)
      <3>1. \A i \in 1..n : ReadArgument(head.path, i) \in Goals
        BY <1>3, <1>5, ArgumentTyped
      <3> HIDE DEF n
      <3> QED
        BY <1>3, <3>1
    <2>2. b \in Seq(Goals)
      <3>1. "op" \in Fields
        <4>1. <<"opcode", "op">> \in Members
          BY DEF Members
        <4> QED
          BY <4>1 DEF Fields
      <3> QED
        BY <1>3, <1>5, <3>1, GoalTyped
    <2>3. agenda' = a \o b \o Tail(agenda)
      BY <1>2
    <2> HIDE DEF a, b
    <2> QED
      BY <1>5, <2>1, <2>2, <2>3, ConcatTyped
  <1>7. aggregateElements' \in Nat
    BY <1>2, <1>3 DEF TypeOK
  <1> QED
    BY <1>1, <1>2, <1>4, <1>6, <1>7, ConsumeTyped

\* A call argument count that was not refused is not negative.
LEMMA CountTyped ==
    ASSUME TypeOK, ~CallArgumentCountIsInvalid
    PROVE  Signed(Value(parsed, CallArgument, "int32")) \in Nat
  <1>1. Value(parsed, CallArgument, "int32") \in Nat
    BY ValueTyped DEF TypeOK
  <1>2. Signed(Value(parsed, CallArgument, "int32")) \in Int
    BY <1>1, LimitsAssumption DEF Signed
  <1> QED
    BY <1>2 DEF CallArgumentCountIsInvalid

\* ReadCallArguments keeps every variable of its type.
LEMMA ReadCallArgumentsTyped == TypeOK /\ ReadCallArguments => TypeOK'
  <1> SUFFICES ASSUME TypeOK, ReadCallArguments PROVE TypeOK'
    OBVIOUS
  <1> DEFINE n == head.n
             count == Signed(Value(parsed, CallArgument, "int32"))
             argument(i) == ReadArgument(head.path, n + (i + 1) \div 2)
             push == Goal("push", head.path, "arguments", 0)
             further == [i \in 1..(2 * count) |->
                           IF i % 2 = 1 THEN argument(i) ELSE push]
  <1>1. /\ agenda # << >> /\ ~CallArgumentCountIsInvalid
        /\ aggregateElements' = aggregateElements + count
        /\ parsed' = WithSize(parsed, head.path, "arguments", n)
        /\ agenda' = further \o Tail(agenda)
    BY DEF ReadCallArguments, At
  <1>2. count \in Nat /\ n \in Nat
    BY <1>1, CountTyped, HeadTyped DEF Goals
  <1>3. IsData(parsed')
    BY <1>1, <1>2, ParsedTyped
  <1>4. head.path \in Path /\ Tail(agenda) \in Seq(Goals)
    BY <1>1, HeadTyped DEF Goals
  <1>5. push \in Goals
    <2>1. "arguments" \in Fields
      BY DEF Fields
    <2>2. <<push>> \in Seq(Goals)
      BY <1>4, <2>1, GoalTyped
    <2> HIDE DEF push
    <2> QED
      BY <2>2
  <1>6. further \in Seq(Goals)
    <2>1. ASSUME NEW i \in 1..(2 * count)
          PROVE  argument(i) \in Goals
      <3>1. n + (i + 1) \div 2 \in Nat
        <4> HIDE DEF n, count
        <4> QED
          BY <1>2
      <3> HIDE DEF n
      <3> QED
        BY <1>4, <3>1, ArgumentTyped
    <2>2. 2 * count \in Nat
      <3> HIDE DEF count
      <3> QED
        BY <1>2
    <2> HIDE DEF argument, push, count
    <2> QED
      BY <1>5, <2>1, <2>2
  <1>7. agenda' \in Seq(Goals)
    <2> HIDE DEF further
    <2> QED
      BY <1>1, <1>4, <1>6
  <1>8. aggregateElements' \in Nat
    <2> HIDE DEF count
    <2> QED
      BY <1>1, <1>2 DEF TypeOK
  <1> QED
    BY <1>3, <1>7, <1>8 DEF ReadCallArguments, TypeOK, IsData

\* PushArgument keeps every variable of its type.
LEMMA PushArgumentTyped == TypeOK /\ PushArgument => TypeOK'
  <1> SUFFICES ASSUME TypeOK, PushArgument PROVE TypeOK'
    OBVIOUS
  <1>1. Size(parsed, head.path, "arguments") + 1 \in Nat
    BY ValueTyped DEF TypeOK
  <1>2. IsData(parsed')
    BY <1>1, ParsedTyped DEF PushArgument
  <1>3. agenda' \in Seq(Goals)
    BY HeadTyped DEF PushArgument, At
  <1> QED
    BY <1>2, <1>3 DEF PushArgument, TypeOK, reader, IsData

\* A call that ends leaves the reader and parsed as a constructor would.
LEMMA EndCallTyped ==
    ASSUME TypeOK, NEW outcome \in {"loaded", "failed"}, EndCall(outcome),
           disk' = [bytes |-> disk'.bytes, at |-> disk'.at],
           disk'.bytes \in Nat,
           \A o \in DOMAIN disk'.at : disk'.at[o] \in Items,
           IsData(inst')
    PROVE  TypeOK'
  <1>1. IsData(parsed')
    BY EmptyDataTyped DEF EndCall
  <1>2. agenda' \in Seq(Goals)
    BY DEF EndCall
  <1> QED
    BY <1>1, <1>2 DEF EndCall, TypeOK

\* However Load throws,
LEMMA ThrowTyped == TypeOK /\ Throw => TypeOK'
  <1> SUFFICES ASSUME TypeOK, Throw PROVE TypeOK'
    OBVIOUS
  <1>1. EndCall("failed") /\ IsData(inst')
    BY DEF Throw, ReadFails, ValueRefused, ObjectSizeMismatch, CallRefused,
           TypeOK, IsData
  <1>2. /\ disk' = [bytes |-> disk'.bytes, at |-> disk'.at]
        /\ disk'.bytes \in Nat
        /\ \A o \in DOMAIN disk'.at : disk'.at[o] \in Items
    <2>1. CASE ValueRefused
      <3>1. /\ head.kind \in DOMAIN Width \cup {"payload"}
            /\ agenda # << >>
        BY <2>1 DEF ValueRefused, At
      <3>2. PICK v \in Seen(HeadWidth) :
               disk' = [disk EXCEPT !.at =
                          Put(@, position, Item(HeadWidth, v))]
        BY <2>1 DEF ValueRefused
      <3>3. v \in Nat /\ HeadWidth \in Nat
        BY <3>1, SeenTyped, WidthTyped
      <3> QED
        BY <3>2, <3>3, RevealTyped
    <2>2. CASE disk' = disk
      BY <2>2 DEF TypeOK
    <2> QED
      BY <2>1, <2>2 DEF Throw, ReadFails, ObjectSizeMismatch, CallRefused
  <1> QED
    BY <1>1, <1>2, EndCallTyped

\* ... and when it succeeds, every variable keeps its type,
LEMMA CommitTyped == TypeOK /\ Commit => TypeOK'
  <1> SUFFICES ASSUME TypeOK, Commit PROVE TypeOK'
    OBVIOUS
  <1>1. IsData(inst') /\ EndCall("loaded") /\ disk' = disk
    BY DEF Commit, TypeOK, IsData
  <1> QED
    BY <1>1, EndCallTyped DEF TypeOK

\* ... and so it does when another file is named
LEMMA PlaceFileTyped == TypeOK /\ PlaceFile => TypeOK'
  <1> SUFFICES ASSUME TypeOK, PlaceFile PROVE TypeOK'
    OBVIOUS
  <1>1. PICK n \in FileSizes : disk' = Unread(n)
    BY DEF PlaceFile
  <1>2. n \in Nat
    BY EnvironmentAssumption
  <1> QED
    BY <1>1, <1>2 DEF PlaceFile, TypeOK, Unread, reader, IsData

\* What Load has to do is well formed.
LEMMA LoadAgendaTyped == Load \in Seq(Goals)
  <1>1. << >> \in Path
    BY DEF Path
  <1> QED
    BY <1>1, LoadTyped, ReadsTyped DEF Load

\* ... or opened
LEMMA OpenFileTyped == TypeOK /\ OpenFile => TypeOK'
  BY LoadAgendaTyped, EmptyDataTyped DEF OpenFile, TypeOK, IsData

\* ... or refused.
LEMMA RefuseFileTyped == TypeOK /\ RefuseFile => TypeOK'
  BY DEF RefuseFile, TypeOK, reader, IsData

\* The initial states are typed,
LEMMA InitTyped == Init => TypeOK
  <1> SUFFICES ASSUME Init PROVE TypeOK
    OBVIOUS
  <1>1. PICK n \in FileSizes : disk = Unread(n)
    BY DEF Init
  <1>2. n \in Nat
    BY EnvironmentAssumption
  <1> QED
    BY <1>1, <1>2, EmptyDataTyped DEF Init, NoCall, TypeOK, Unread

\* ... and every step keeps them so.
LEMMA NextTyped == TypeOK /\ [Next]_vars => TypeOK'
  <1> SUFFICES ASSUME TypeOK, [Next]_vars PROVE TypeOK'
    OBVIOUS
  <1>1. CASE PlaceFile \/ OpenFile \/ RefuseFile
    BY <1>1, PlaceFileTyped, OpenFileTyped, RefuseFileTyped
  <1>2. CASE ReadStep
    BY <1>2, ReadScalarTyped, ReadLengthTyped, ReadCountTyped,
       NextElementTyped, ReadDebugFlagTyped, ReadObjectSizeTyped,
       ObjectEndsTyped, ReadPropertyFlagsTyped, ReadTypeTyped,
       ReadOpcodeTyped, ReadCallArgumentsTyped, PushArgumentTyped
       DEF ReadStep
  <1>3. CASE Throw \/ Commit
    BY <1>3, ThrowTyped, CommitTyped
  <1>4. CASE UNCHANGED vars
    BY <1>4 DEF vars, TypeOK, IsData
  <1> QED
    BY <1>1, <1>2, <1>3, <1>4 DEF Next, LoadStep

\* Whatever the file holds and whatever the limits, every variable keeps a
\* value of its type: every record of the agenda is one of the parser's own
\* reads, every count and size a natural number.
THEOREM TypeCorrect == Spec => []TypeOK
  <1>1. Init => TypeOK
    BY InitTyped
  <1>2. TypeOK /\ [Next]_vars => TypeOK'
    BY NextTyped
  <1> QED
    BY <1>1, <1>2, PTL DEF Spec

-----------------------------------------------------------------------------
(* The bounds of the reader *)

\* A step that consumes input stays within it.
LEMMA ConsumeBounded ==
    ASSUME TypeOK, ReaderBounded, NEW w \in Nat, NEW v, Consume(w, v)
    PROVE  position' <= size' /\ size' <= MaxFileSize /\ ~Rejects(v)
  BY DEF TypeOK, ReaderBounded, Consume

\* A count is charged to the reader no further than the limit,
LEMMA ReadCountBounded == TypeOK /\ ReaderBounded /\ ReadCount => ReaderBounded'
  <1> SUFFICES ASSUME TypeOK, ReaderBounded, ReadCount PROVE ReaderBounded'
    OBVIOUS
  <1>1. /\ head.kind = "count" /\ head.kind \in DOMAIN Width
        /\ agenda # << >>
    BY DEF ReadCount, At, Width
  <1>2. PICK v : /\ v \in Seen(2) /\ Consume(2, v)
                 /\ aggregateElements' = aggregateElements + v
    BY DEF ReadCount
  <1>3. v \in Nat
    BY <1>1, <1>2, SeenTyped
  <1>4. v <= MaxAggregateElements - aggregateElements
    BY <1>1, <1>2, <1>3, LimitsAssumption
       DEF Consume, Rejects, CountTooLarge, TypeOK
  <1>5. aggregateElements' <= MaxAggregateElements
    BY <1>2, <1>3, <1>4, LimitsAssumption DEF TypeOK
  <1>6. position' <= size' /\ size' <= MaxFileSize
    BY <1>2, ConsumeBounded
  <1> QED
    BY <1>5, <1>6 DEF ReaderBounded

\* ... nor are the header arguments of an instruction,
LEMMA ReadOpcodeBounded ==
    TypeOK /\ ReaderBounded /\ ReadOpcode => ReaderBounded'
  <1> SUFFICES ASSUME TypeOK, ReaderBounded, ReadOpcode PROVE ReaderBounded'
    OBVIOUS
  <1>1. head.kind = "opcode"
    BY DEF ReadOpcode, At
  <1>2. PICK v : /\ Consume(1, v)
                 /\ aggregateElements' =
                       aggregateElements + HeaderArgumentCount(v)
    BY DEF ReadOpcode
  <1> DEFINE n == HeaderArgumentCount(v)
  <1>3. n \in Nat
    BY HeaderTyped
  <1>4. n <= MaxAggregateElements - aggregateElements
    <2>1. ~(n > MaxAggregateElements - aggregateElements)
      BY <1>1, <1>2 DEF Consume, Rejects, CountTooLarge
    <2> HIDE DEF n
    <2> QED
      BY <1>3, <2>1, LimitsAssumption DEF TypeOK
  <1>5. aggregateElements' <= MaxAggregateElements
    <2>1. aggregateElements' = aggregateElements + n
      BY <1>2
    <2> HIDE DEF n
    <2> QED
      BY <1>3, <1>4, <2>1, LimitsAssumption DEF TypeOK
  <1> QED
    BY <1>2, <1>5, ConsumeBounded DEF ReaderBounded

\* ... nor the further arguments of a call.
LEMMA ReadCallArgumentsBounded ==
    TypeOK /\ ReaderBounded /\ ReadCallArguments => ReaderBounded'
  <1> SUFFICES ASSUME TypeOK, ReaderBounded, ReadCallArguments
               PROVE  ReaderBounded'
    OBVIOUS
  <1> DEFINE count == Signed(Value(parsed, CallArgument, "int32"))
  <1>1. /\ count \in Nat
        /\ aggregateElements' = aggregateElements + count
    BY CountTyped DEF ReadCallArguments
  <1>2. ~(count > MaxAggregateElements - aggregateElements)
    BY DEF ReadCallArguments, CallArgumentCountIsInvalid, CountTooLarge
  <1> HIDE DEF count
  <1>3. aggregateElements' <= MaxAggregateElements
    BY <1>1, <1>2, LimitsAssumption DEF TypeOK
  <1> QED
    BY <1>3 DEF ReadCallArguments, ReaderBounded

\* The reads that are charged nothing.
LEMMA OtherReadsBounded ==
    /\ TypeOK /\ ReaderBounded
    /\ \/ ReadScalar \/ ReadLength \/ ReadDebugFlag \/ ReadObjectSize
       \/ ReadPropertyFlags \/ ReadType
    => ReaderBounded'
  <1> SUFFICES ASSUME TypeOK, ReaderBounded,
                      \/ ReadScalar \/ ReadLength \/ ReadDebugFlag
                      \/ ReadObjectSize \/ ReadPropertyFlags \/ ReadType
               PROVE  ReaderBounded'
    OBVIOUS
  <1>1. \E w \in Nat : \E v : Consume(w, v)
    <2>1. CASE ReadScalar
      <3>1. head.kind \in DOMAIN Width \cup {"payload"} /\ agenda # << >>
        BY <2>1 DEF ReadScalar, At, Width
      <3> QED
        BY <2>1, <3>1, WidthTyped DEF ReadScalar
    <2>2. CASE ReadLength \/ ReadDebugFlag \/ ReadObjectSize
                 \/ ReadPropertyFlags \/ ReadType
      BY <2>2 DEF ReadLength, ReadDebugFlag, ReadObjectSize,
                  ReadPropertyFlags, ReadType
    <2> QED
      BY <2>1, <2>2
  <1>2. aggregateElements' = aggregateElements
    BY DEF ReadScalar, ReadLength, ReadDebugFlag, ReadObjectSize,
           ReadPropertyFlags, ReadType
  <1> QED
    BY <1>1, <1>2, ConsumeBounded DEF ReaderBounded

\* The steps that do not read: they leave the reader alone, or destroy it.
LEMMA OtherStepsBounded ==
    /\ TypeOK /\ ReaderBounded
    /\ \/ NextElement \/ ObjectEnds \/ PushArgument \/ Throw \/ Commit
       \/ PlaceFile \/ RefuseFile \/ UNCHANGED vars
    => ReaderBounded'
  <1> SUFFICES ASSUME TypeOK, ReaderBounded,
                      \/ NextElement \/ ObjectEnds \/ PushArgument \/ Throw
                      \/ Commit \/ PlaceFile \/ RefuseFile \/ UNCHANGED vars
               PROVE  ReaderBounded'
    OBVIOUS
  <1>1. \/ UNCHANGED reader
        \/ size' = 0 /\ position' = 0 /\ aggregateElements' = 0
    BY DEF NextElement, ObjectEnds, PushArgument, Throw, ReadFails,
           ValueRefused, ObjectSizeMismatch, CallRefused, Commit, EndCall,
           PlaceFile, RefuseFile, vars, reader
  <1> QED
    BY <1>1, LimitsAssumption DEF ReaderBounded, reader

\* A new reader is within its bounds.
LEMMA OpenFileBounded == TypeOK /\ OpenFile => ReaderBounded'
  BY LimitsAssumption DEF OpenFile, ReaderBounded, TypeOK

\* The bounds, with the types, are inductive: that counts are natural
\* numbers is what makes a charge that passed ValidateCount fit.
LEMMA NextBounded ==
    TypeOK /\ ReaderBounded /\ [Next]_vars => TypeOK' /\ ReaderBounded'
  <1> SUFFICES ASSUME TypeOK, ReaderBounded, [Next]_vars
               PROVE  TypeOK' /\ ReaderBounded'
    OBVIOUS
  <1>1. TypeOK'
    BY NextTyped
  <1>2. ReaderBounded'
    <2>1. CASE ReadStep
      BY <2>1, ReadCountBounded, ReadOpcodeBounded,
         ReadCallArgumentsBounded, OtherReadsBounded, OtherStepsBounded
         DEF ReadStep
    <2>2. CASE OpenFile
      BY <2>2, OpenFileBounded
    <2>3. CASE PlaceFile \/ RefuseFile \/ Throw \/ Commit \/ UNCHANGED vars
      BY <2>3, OtherStepsBounded
    <2> QED
      BY <2>1, <2>2, <2>3 DEF Next, LoadStep
  <1> QED
    BY <1>1, <1>2

\* A new reader is within its bounds.
LEMMA InitBounded == Init => ReaderBounded
  BY LimitsAssumption DEF Init, NoCall, ReaderBounded

\* For every file and every limit the reader stays within the file it
\* measured and within the aggregate limit, so that no unsigned difference
\* it takes wraps around.
THEOREM ReaderStaysBounded == Spec => []ReaderBounded
  <1>1. Init => TypeOK /\ ReaderBounded
    BY InitTyped, InitBounded
  <1>2. TypeOK /\ ReaderBounded /\ [Next]_vars => (TypeOK /\ ReaderBounded)'
    BY NextBounded
  <1> QED
    BY <1>1, <1>2, PTL DEF Spec

-----------------------------------------------------------------------------
(* Atomicity *)

\* For every file, every fault and every limit, the only step of the
\* program's Load that changes the instance is the last one of a Load that
\* succeeds, and it replaces the whole of it by what was parsed.
THEOREM LoadReplacesTheWholeOrNothing == Spec => LoadIsAtomic
  <1>1. [Next]_vars => [inst' # inst => load' = "loaded" /\ inst' = parsed]_vars
    <2> SUFFICES ASSUME Next
                 PROVE  inst' # inst => load' = "loaded" /\ inst' = parsed
      OBVIOUS
    <2>1. CASE Commit
      BY <2>1 DEF Commit, EndCall
    <2>2. CASE ReadStep
      <3>1. inst' = inst
        BY <2>2 DEF ReadStep, ReadScalar, ReadLength, ReadCount, NextElement,
             ReadDebugFlag, ReadObjectSize, ObjectEnds, ReadPropertyFlags,
             ReadType, ReadOpcode, ReadCallArguments, PushArgument, Consume
      <3> QED
        BY <3>1
    <2>3. CASE Throw \/ PlaceFile \/ OpenFile \/ RefuseFile
      <3>1. inst' = inst
        BY <2>3 DEF Throw, ReadFails, ValueRefused, ObjectSizeMismatch,
             CallRefused, PlaceFile, OpenFile, RefuseFile
      <3> QED
        BY <3>1
    <2> QED
      BY <2>1, <2>2, <2>3 DEF Next, LoadStep
  <1> QED
    BY <1>1, PTL DEF Spec, LoadIsAtomic
=============================================================================
