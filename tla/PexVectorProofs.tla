-------------------------- MODULE PexVectorProofs --------------------------
(***************************************************************************)
(* What Load makes of the counts in a file: the vectors it leaves have the *)
(* sizes the counts beside them say, and the reader was charged for every  *)
(* element of them, however they are nested.                               *)
(***************************************************************************)
EXTENDS PexLoadProofs, PexInduction, SequenceTheorems

(* The inductive invariant *)

\* The records that have the count c: PexData has its own, and a state, but
\* not the PexData, has functions.
HasCount(path, c) ==
    /\ c \in {"objectCount", "functionCount"} => path = << >>
    /\ c = "numFunctions" => path # << >>

\* A step that may stand before the loop over the objects.
Inner(g) ==
    /\ g.field # "objectCount"
    /\ HasCount(g.path, g.field)
    /\ g.kind = "debugFlag" => g.path = << >>

LastGoal == agenda[Len(agenda)]

\* The objects are the last thing the parser has to do, and the size of one is
\* read only directly before the loop goes on.
ObjectsComeLast ==
    agenda # << >> =>
        /\ LastGoal.kind \in {"count", "loop"}
        /\ LastGoal.field = "objectCount" /\ LastGoal.path = << >>
        /\ \A i \in 1..(Len(agenda) - 1) :
              /\ Inner(agenda[i])
              /\ agenda[i].kind = "objectSize" =>
                    i = Len(agenda) - 1 /\ LastGoal.kind = "loop"

\* Whether the object at hand has still to be appended.
Announced ==
    IF \E i \in 1..(Len(agenda) - 1) : agenda[i].kind = "objectSize" THEN 1 ELSE 0

ObjectsToCome == Value(parsed, << >>, "objectCount") - Size(parsed, << >>, "objects")

\* As many objects were appended as the loop over them has begun to read, and
\* when nothing is left to do, as many as the count says.
ObjectsCounted ==
    IF agenda = << >> THEN ObjectsToCome = 0
    ELSE IF LastGoal.kind = "count"
    THEN /\ Value(parsed, << >>, "objectCount") = 0
         /\ Size(parsed, << >>, "objects") = 0
    ELSE /\ LastGoal.n <= Value(parsed, << >>, "objectCount")
         /\ LastGoal.n = Size(parsed, << >>, "objects") + Announced

\* But for the objects, a count and the vector beside it are set together.
Matched(d) ==
    /\ \A k \in DOMAIN d.val :
          /\ k = <<k[1], k[2]>>
          /\ k[2] \in DOMAIN Vector => HasCount(k[1], k[2])
    /\ \A k \in DOMAIN d.len :
          /\ k = <<k[1], k[2]>>
          /\ k[2] = "objects" => k[1] = << >>
    /\ \A k \in DOMAIN d.val \cup DOMAIN d.len :
          \A c \in DOMAIN Vector \ {"objectCount"} :
             HasCount(k[1], c) =>
                Value(d, k[1], c) = Size(d, k[1], Vector[c].name)

\* Between two calls there is no reader, and nothing half read.
NothingRuns ==
    load # "parsing" =>
        agenda = << >> /\ parsed = EmptyData /\ aggregateElements = 0

\* The elements a step will add that the reader was charged for before.
Owed(g) ==
    IF g.kind = "callArguments" THEN g.n ELSE IF g.kind = "push" THEN 1 ELSE 0

Owing(goals) == Total([i \in DOMAIN goals |-> Owed(goals[i])])

\* The reader was charged for what parsed holds, for what the agenda will add,
\* and for the objects still to come.
ChargedFor ==
    Held(parsed) + Owing(agenda) + ObjectsToCome <= aggregateElements

Finite == IsFiniteSet(DOMAIN parsed.len) /\ IsFiniteSet(DOMAIN inst.len)

\* The parsing of a file, and what it leaves in the instance.
ParseInv ==
    /\ NothingRuns /\ Finite
    /\ ObjectsComeLast /\ ObjectsCounted
    /\ Matched(parsed) /\ ChargedFor

VectorInv ==
    /\ TypeOK /\ ReaderBounded
    /\ ParseInv
    /\ CountsMatchVectors /\ Held(inst) <= MaxAggregateElements
-----------------------------------------------------------------------------
(* What the tables of the Read functions say of the counts *)

\* Only a count has the name of one, only what is not a vector is a string,
\* and the size of an object is no count.
LEMMA MemberNames ==
    ASSUME NEW kind, NEW field, <<kind, field>> \in Members
    PROVE  /\ kind = "count" <=> field \in DOMAIN Vector
           /\ kind \in {"string", "payload"} => field \notin VectorNames
  <1>1. kind = "count" <=> field \in DOMAIN Vector
    BY VectorDomain DEF Members
  <1>2. VectorNames = {"strings", "functions", "lineNumbers", "userFlags",
            "objects", "variables", "properties", "states", "params",
            "locals", "instructions", "arguments"}
    BY VectorDomain DEF VectorNames, Vector
  <1>3. kind \in {"string", "payload"} => field \notin VectorNames
    BY <1>2 DEF Members
  <1> QED
    BY <1>1, <1>3

\* The vectors of two counts have different names, but for those of functions.
LEMMA VectorNamesDiffer ==
    ASSUME NEW b \in DOMAIN Vector, NEW c \in DOMAIN Vector,
           Vector[b].name = Vector[c].name, b # c
    PROVE  {b, c} = {"functionCount", "numFunctions"}
  BY VectorDomain DEF Vector

\* The vector of objects.
LEMMA ObjectsVector ==
    /\ "objectCount" \in DOMAIN Vector /\ Vector["objectCount"].name = "objects"
    /\ \A c \in DOMAIN Vector : Vector[c].name = "objects" => c = "objectCount"
    /\ \A c \in DOMAIN Vector : Vector[c].name \in VectorNames \ {"arguments"}
    /\ "objects" \in VectorNames /\ "arguments" \in VectorNames
  BY VectorDomain DEF Vector, VectorNames

\* A table that neither reads the size of an object nor a count of PexData.
Quiet(body) ==
    \A i \in DOMAIN body : /\ body[i][2] \notin {"objectCount", "functionCount"}
                           /\ body[i][1] \notin {"objectSize", "debugFlag"}

\* Two such tables, one after the other, are one.
LEMMA QuietConcat ==
    ASSUME NEW a \in Seq(Reading), NEW b \in Seq(Reading), Quiet(a), Quiet(b)
    PROVE  Quiet(a \o b)
  <1> SUFFICES ASSUME NEW i \in 1..Len(a \o b)
               PROVE  \/ i \in DOMAIN a /\ (a \o b)[i] = a[i]
                      \/ i - Len(a) \in DOMAIN b /\ (a \o b)[i] = b[i - Len(a)]
    BY DEF Quiet
  <1> QED
    OBVIOUS

\* No table for a record other than PexData does, but that of the objects,
LEMMA ElementsQuiet ==
    ASSUME NEW c \in DOMAIN Vector, c # "objectCount"
    PROVE  Quiet(Vector[c].element)
  <1> USE DEF Quiet
  <1>1. /\ Quiet(ReadDebugFunction) /\ Quiet(ReadVariable)
        /\ Quiet(ReadProperty) /\ Quiet(ReadState) /\ Quiet(ReadVariableType)
    BY DEF ReadDebugFunction, ReadVariable, ReadProperty, ReadState,
           ReadVariableType
  <1>2. Quiet(<< <<"u16", "functionName">> >> \o ReadFunction)
    <2> DEFINE name == << <<"u16", "functionName">> >>
    <2>1. name \in Seq(Reading) /\ Quiet(name)
      BY DEF Reading, Members
    <2>2. Quiet(ReadFunction)
      BY DEF ReadFunction
    <2> HIDE DEF name, Quiet
    <2>3. Quiet(name \o ReadFunction)
      BY <2>1, <2>2, FunctionTyped, QuietConcat
    <2> QED
      BY <2>3 DEF name
  <1>3. /\ Quiet(<< <<"string", "bytes">> >>) /\ Quiet(<< <<"u16", "line">> >>)
        /\ Quiet(<< <<"opcode", "op">> >>)
        /\ Quiet(<< <<"u16", "flagNameIndex">>, <<"u8", "flagIndex">> >>)
    OBVIOUS
  <1> HIDE DEF Quiet
  <1>4. Vector[c].element \in
            {ReadDebugFunction, ReadVariable, ReadProperty, ReadState,
             ReadVariableType, << <<"u16", "functionName">> >> \o ReadFunction,
             << <<"string", "bytes">> >>, << <<"u16", "line">> >>,
             << <<"opcode", "op">> >>,
             << <<"u16", "flagNameIndex">>, <<"u8", "flagIndex">> >>}
    BY VectorDomain, SMTT(30) DEF Vector
  <1> QED
    BY <1>1, <1>2, <1>3, <1>4

\* ... and only that of a state reads how many functions there are.
LEMMA TablesQuiet ==
    /\ Quiet(ReadObjectData) /\ Quiet(ReadFunction)
    /\ Quiet(<< <<"u16", "autoVarName">> >>)
    /\ \A v \in 0..5 : Quiet(ReadVariableData[v])
    /\ \A i \in DOMAIN ReadObjectData : ReadObjectData[i][2] # "numFunctions"
    /\ \A i \in DOMAIN ReadFunction : ReadFunction[i][2] # "numFunctions"
    /\ \A v \in 0..5 : \A i \in DOMAIN ReadVariableData[v] :
          ReadVariableData[v][i][2] # "numFunctions"
  <1>1. Quiet(ReadObjectData) /\ Quiet(ReadFunction)
    BY DEF Quiet, ReadObjectData, ReadFunction
  <1>2. Quiet(<< <<"u16", "autoVarName">> >>)
    BY DEF Quiet
  <1>3. /\ \A i \in DOMAIN ReadObjectData : ReadObjectData[i][2] # "numFunctions"
        /\ \A i \in DOMAIN ReadFunction : ReadFunction[i][2] # "numFunctions"
    BY DEF ReadObjectData, ReadFunction
  <1>4. ASSUME NEW v \in 0..5
        PROVE  /\ Quiet(ReadVariableData[v])
               /\ \A i \in DOMAIN ReadVariableData[v] :
                     ReadVariableData[v][i][2] # "numFunctions"
    <2> DEFINE bodies == {<< >>, << <<"u16", "uint16">> >>,
                          << <<"u32", "int32">> >>, << <<"u32", "float">> >>,
                          << <<"u8", "uint8">> >>}
    <2>1. ReadVariableData[v] \in bodies
      BY DEF ReadVariableData
    <2>2. \A b \in bodies :
             Quiet(b) /\ \A i \in DOMAIN b : b[i][2] # "numFunctions"
      BY DEF Quiet
    <2> QED
      BY <2>1, <2>2
  <1> QED
    BY <1>1, <1>2, <1>3, <1>4

\* What such a table puts on the agenda may stand before the objects.
LEMMA ReadsInner ==
    ASSUME NEW body \in Seq(Reading), Quiet(body), NEW path \in Path,
           \/ path # << >>
           \/ \A i \in DOMAIN body : body[i][2] # "numFunctions"
    PROVE  \A i \in DOMAIN Reads(body, path) :
              /\ Inner(Reads(body, path)[i])
              /\ Reads(body, path)[i].kind \notin
                    {"objectSize", "callArguments", "push"}
  <1> SUFFICES ASSUME NEW i \in DOMAIN body
               PROVE  LET g == Goal(body[i][1], path, body[i][2], 0)
                      IN  /\ Inner(g)
                          /\ g.kind \notin {"objectSize", "callArguments", "push"}
    BY DEF Reads
  <1>1. body[i] \in Reading
    OBVIOUS
  <1>2. body[i][1] \in DOMAIN Width
    BY <1>1, ReadingTyped
  <1>3. body[i][1] \notin {"callArguments", "push"}
    BY <1>2 DEF Width
  <1> QED
    BY <1>3 DEF Quiet, Inner, HasCount, Goal

-----------------------------------------------------------------------------
(* The agenda *)

\* The step at hand is the first of the agenda.
LEMMA HeadIs ==
    ASSUME TypeOK, agenda # << >>
    PROVE  /\ Len(agenda) \in Nat /\ Len(agenda) >= 1
           /\ head = agenda[1]
           /\ Len(Tail(agenda)) = Len(agenda) - 1
           /\ \A i \in 1..(Len(agenda) - 1) : Tail(agenda)[i] = agenda[i + 1]
  BY DEF TypeOK, head

\* A step before the objects is not the last one.
LEMMA HeadInner ==
    ASSUME TypeOK, agenda # << >>, ObjectsComeLast, head.field # "objectCount"
    PROVE  /\ Len(agenda) >= 2 /\ Inner(head)
           /\ head.kind = "objectSize" => Len(agenda) = 2 /\ LastGoal.kind = "loop"
  <1>1. Len(agenda) # 1
    BY HeadIs DEF ObjectsComeLast, LastGoal
  <1>2. Len(agenda) >= 2
    BY <1>1, HeadIs
  <1>3. 1 \in 1..(Len(agenda) - 1) /\ head = agenda[1]
    BY <1>2, HeadIs
  <1>4. /\ Inner(agenda[1])
        /\ agenda[1].kind = "objectSize" =>
              1 = Len(agenda) - 1 /\ LastGoal.kind = "loop"
    BY <1>3 DEF ObjectsComeLast
  <1>5. Len(agenda) \in Nat
    BY HeadIs
  <1> QED
    BY <1>2, <1>3, <1>4, <1>5

\* Such a step, replaced by steps that may stand there, leaves the loop over
\* the objects where it is.
LEMMA AgendaGrows ==
    ASSUME TypeOK, ObjectsComeLast, agenda # << >>,
           head.field # "objectCount",
           NEW more \in Seq(Goals), agenda' = more \o Tail(agenda),
           \A i \in DOMAIN more : Inner(more[i]) /\ more[i].kind # "objectSize"
    PROVE  /\ ObjectsComeLast' /\ agenda' # << >> /\ LastGoal' = LastGoal
           /\ Announced' = IF head.kind = "objectSize" THEN 0 ELSE Announced
  <1> DEFINE n == Len(agenda)
             m == Len(more)
  <1>1. /\ n \in Nat /\ n >= 2 /\ m \in Nat /\ head = agenda[1]
        /\ Len(Tail(agenda)) = n - 1
        /\ \A i \in 1..(n - 1) : Tail(agenda)[i] = agenda[i + 1]
    BY HeadIs, HeadInner
  <1>2. /\ Len(agenda') = m + (n - 1)
        /\ \A i \in 1..m : agenda'[i] = more[i]
        /\ \A i \in 1..(n - 1) : agenda'[m + i] = agenda[i + 1]
    BY <1>1, HeadTyped
  <1> HIDE DEF n, m
  <1>3. agenda' # << >>
    BY <1>1, <1>2
  <1>4. LastGoal' = LastGoal
    <2>0. n - 1 \in 1..(n - 1) /\ (n - 1) + 1 = n
      BY <1>1
    <2>1. agenda'[m + (n - 1)] = agenda[n]
      BY <1>2, <2>0
    <2> QED
      BY <1>2, <2>1 DEF LastGoal, n
  <1>5. ASSUME NEW i \in 1..(Len(agenda') - 1)
        PROVE  \/ i \in 1..m /\ agenda'[i] = more[i]
               \/ /\ i - m \in 1..(n - 2)
                  /\ agenda'[i] = agenda[(i - m) + 1]
    <2>1. CASE i <= m
      BY <1>1, <1>2, <2>1
    <2>2. CASE i > m
      <3>1. i - m \in 1..(n - 2) /\ i = m + (i - m)
        BY <1>1, <1>2, <2>2
      <3> QED
        BY <1>1, <1>2, <3>1
    <2> QED
      BY <1>1, <2>1, <2>2
  <1>6. ObjectsComeLast'
    <2>1. ASSUME NEW i \in 1..(Len(agenda') - 1)
          PROVE  /\ Inner(agenda'[i])
                 /\ agenda'[i].kind = "objectSize" =>
                       i = Len(agenda') - 1 /\ LastGoal.kind = "loop"
      <3>1. CASE i \in 1..m /\ agenda'[i] = more[i]
        <4>1. i \in DOMAIN more
          BY <3>1 DEF m
        <4> QED
          BY <3>1, <4>1
      <3>2. CASE i - m \in 1..(n - 2) /\ agenda'[i] = agenda[(i - m) + 1]
        <4>1. (i - m) + 1 \in 1..(n - 1)
          BY <1>1, <3>2
        <4>2. /\ Inner(agenda[(i - m) + 1])
              /\ agenda[(i - m) + 1].kind = "objectSize" =>
                    (i - m) + 1 = n - 1 /\ LastGoal.kind = "loop"
          BY <4>1 DEF ObjectsComeLast, n
        <4> QED
          BY <1>1, <1>2, <3>2, <4>2
      <3> QED
        BY <1>5, <3>1, <3>2
    <2>2. /\ LastGoal.kind \in {"count", "loop"}
          /\ LastGoal.field = "objectCount" /\ LastGoal.path = << >>
      BY DEF ObjectsComeLast
    <2> QED
      BY <1>4, <2>1, <2>2 DEF ObjectsComeLast, Inner, HasCount
  <1>7. Announced' = IF head.kind = "objectSize" THEN 0 ELSE Announced
    <2>1. CASE head.kind = "objectSize"
      <3>1. n = 2
        BY <2>1, HeadInner DEF n
      <3>2. \A i \in 1..(Len(agenda') - 1) : agenda'[i].kind # "objectSize"
        <4> SUFFICES ASSUME NEW i \in 1..(Len(agenda') - 1)
                     PROVE  agenda'[i].kind # "objectSize"
          OBVIOUS
        <4>1. i \in 1..m /\ agenda'[i] = more[i]
          BY <1>5, <3>1
        <4>2. i \in DOMAIN more
          BY <4>1 DEF m
        <4> QED
          BY <4>1, <4>2
      <3> QED
        BY <2>1, <3>2 DEF Announced
    <2>2. CASE head.kind # "objectSize"
      <3>1. ASSUME NEW i \in 1..(n - 1), agenda[i].kind = "objectSize"
            PROVE  \E j \in 1..(Len(agenda') - 1) : agenda'[j].kind = "objectSize"
        <4>1. i # 1
          BY <1>1, <2>2, <3>1
        <4>2. i - 1 \in 1..(n - 1) /\ (i - 1) + 1 = i
          BY <1>1, <4>1
        <4>3. agenda'[m + (i - 1)] = agenda[i]
          BY <1>2, <4>2
        <4>4. m + (i - 1) \in 1..(Len(agenda') - 1)
          BY <1>1, <1>2, <4>1
        <4> QED
          BY <3>1, <4>3, <4>4
      <3>2. ASSUME NEW i \in 1..(Len(agenda') - 1), agenda'[i].kind = "objectSize"
            PROVE  \E j \in 1..(n - 1) : agenda[j].kind = "objectSize"
        <4>1. CASE i \in 1..m /\ agenda'[i] = more[i]
          <5>1. i \in DOMAIN more
            BY <4>1 DEF m
          <5> QED
            BY <3>2, <4>1, <5>1
        <4>2. CASE i - m \in 1..(n - 2) /\ agenda'[i] = agenda[(i - m) + 1]
          <5>1. (i - m) + 1 \in 1..(n - 1)
            BY <1>1, <4>2
          <5> QED
            BY <3>2, <4>2, <5>1
        <4> QED
          BY <1>5, <4>1, <4>2
      <3> QED
        BY <2>2, <3>1, <3>2 DEF Announced, n
    <2> QED
      BY <2>1, <2>2
  <1> QED
    BY <1>3, <1>4, <1>6, <1>7

-----------------------------------------------------------------------------
(* Counts and vectors *)

\* A count and its vector agree in every record, those nothing was read of
\* included.
LEMMA MatchedEverywhere ==
    ASSUME NEW d, Matched(d), NEW path, NEW c \in DOMAIN Vector,
           c # "objectCount", HasCount(path, c)
    PROVE  Value(d, path, c) = Size(d, path, Vector[c].name)
  <1> DEFINE name == Vector[c].name
  <1>1. CASE <<path, c>> \in DOMAIN d.val
    BY <1>1 DEF Matched
  <1>2. CASE <<path, name>> \in DOMAIN d.len
    BY <1>2 DEF Matched
  <1>3. CASE <<path, c>> \notin DOMAIN d.val /\ <<path, name>> \notin DOMAIN d.len
    BY <1>3 DEF Value, Size
  <1> QED
    BY <1>1, <1>2, <1>3

\* A tree with a member set to n.
SetValue(d, path, field, n) == [d EXCEPT !.val = Put(@, <<path, field>>, n)]

\* Setting a member, or a size, leaves the other half of the tree alone,
LEMMA PutIs ==
    ASSUME NEW d, IsData(d), NEW path, NEW field, NEW n
    PROVE  /\ SetValue(d, path, field, n).len = d.len
           /\ SetValue(d, path, field, n).val = Put(d.val, <<path, field>>, n)
           /\ WithSize(d, path, field, n).val = d.val
           /\ WithSize(d, path, field, n).len = Put(d.len, <<path, field>>, n)
  <1>1. d = [val |-> d.val, len |-> d.len]
    BY DEF IsData
  <1> QED
    BY <1>1 DEF SetValue, WithSize

\* ... and adds its key.
LEMMA PutDomain ==
    ASSUME NEW f, NEW k, NEW n
    PROVE  DOMAIN Put(f, k, n) = DOMAIN f \cup {k}
  BY DEF Put

\* So the tree has the keys it had, and that one.
LEMMA PutKeys ==
    ASSUME NEW d, IsData(d), NEW path, NEW field, NEW n
    PROVE  /\ SetValue(d, path, field, n).len = d.len
           /\ WithSize(d, path, field, n).val = d.val
           /\ \A k \in DOMAIN SetValue(d, path, field, n).val :
                 k \in DOMAIN d.val \/ k = <<path, field>>
           /\ \A k \in DOMAIN WithSize(d, path, field, n).len :
                 k \in DOMAIN d.len \/ k = <<path, field>>
  <1>1. /\ SetValue(d, path, field, n).len = d.len
        /\ SetValue(d, path, field, n).val = Put(d.val, <<path, field>>, n)
        /\ WithSize(d, path, field, n).val = d.val
        /\ WithSize(d, path, field, n).len = Put(d.len, <<path, field>>, n)
    BY PutIs
  <1>2. /\ DOMAIN Put(d.val, <<path, field>>, n) = DOMAIN d.val \cup {<<path, field>>}
        /\ DOMAIN Put(d.len, <<path, field>>, n) = DOMAIN d.len \cup {<<path, field>>}
    BY PutDomain
  <1> QED
    BY <1>1, <1>2

\* A member that is set has that value, and the others keep theirs.
LEMMA ValueOfPut ==
    ASSUME NEW d, IsData(d), NEW path, NEW field, NEW n
    PROVE  \A p, f :
              /\ Value(SetValue(d, path, field, n), p, f) =
                    IF p = path /\ f = field THEN n ELSE Value(d, p, f)
              /\ Size(SetValue(d, path, field, n), p, f) = Size(d, p, f)
              /\ Value(WithSize(d, path, field, n), p, f) = Value(d, p, f)
              /\ Size(WithSize(d, path, field, n), p, f) =
                    IF p = path /\ f = field THEN n ELSE Size(d, p, f)
  <1> SUFFICES ASSUME NEW p, NEW f
               PROVE  /\ Value(SetValue(d, path, field, n), p, f) =
                            IF p = path /\ f = field THEN n ELSE Value(d, p, f)
                      /\ Size(SetValue(d, path, field, n), p, f) = Size(d, p, f)
                      /\ Value(WithSize(d, path, field, n), p, f) = Value(d, p, f)
                      /\ Size(WithSize(d, path, field, n), p, f) =
                            IF p = path /\ f = field THEN n ELSE Size(d, p, f)
    OBVIOUS
  <1>1. /\ SetValue(d, path, field, n).len = d.len
        /\ SetValue(d, path, field, n).val = Put(d.val, <<path, field>>, n)
        /\ WithSize(d, path, field, n).val = d.val
        /\ WithSize(d, path, field, n).len = Put(d.len, <<path, field>>, n)
    BY PutIs
  <1>2. <<p, f>> = <<path, field>> <=> p = path /\ f = field
    OBVIOUS
  <1>3. /\ Value(SetValue(d, path, field, n), p, f) =
               IF <<p, f>> = <<path, field>> THEN n ELSE Value(d, p, f)
        /\ Size(SetValue(d, path, field, n), p, f) = Size(d, p, f)
    BY <1>1 DEF Value, Size, Put
  <1>4. /\ Value(WithSize(d, path, field, n), p, f) = Value(d, p, f)
        /\ Size(WithSize(d, path, field, n), p, f) =
               IF <<p, f>> = <<path, field>> THEN n ELSE Size(d, p, f)
    BY <1>1 DEF Value, Size, Put
  <1> QED
    BY <1>2, <1>3, <1>4

\* A tree stays one.
LEMMA SetTyped ==
    ASSUME NEW d, IsData(d), NEW path, NEW field, NEW n \in Nat
    PROVE  IsData(SetValue(d, path, field, n)) /\ IsData(WithSize(d, path, field, n))
  BY DataTyped DEF SetValue, WithSize

\* A member that is no count may be set,
LEMMA ValueKeepsMatched ==
    ASSUME NEW d, IsData(d), Matched(d), NEW path, NEW field, NEW n,
           field \notin DOMAIN Vector
    PROVE  Matched(SetValue(d, path, field, n))
  <1> DEFINE v == SetValue(d, path, field, n)
  <1>1. /\ \A k \in DOMAIN v.val : k \in DOMAIN d.val \/ k = <<path, field>>
        /\ v.len = d.len
    BY PutKeys
  <1>2. \A p, f : /\ Value(v, p, f) = IF p = path /\ f = field THEN n
                                      ELSE Value(d, p, f)
                  /\ Size(v, p, f) = Size(d, p, f)
    BY ValueOfPut
  <1> HIDE DEF v
  <1>3. ASSUME NEW p, NEW c \in DOMAIN Vector \ {"objectCount"}, HasCount(p, c)
        PROVE  Value(v, p, c) = Size(v, p, Vector[c].name)
    BY <1>2, <1>3, MatchedEverywhere
  <1>4. \A k \in DOMAIN v.val :
           k = <<k[1], k[2]>> /\ (k[2] \in DOMAIN Vector => HasCount(k[1], k[2]))
    BY <1>1 DEF Matched
  <1>5. \A k \in DOMAIN v.len :
           k = <<k[1], k[2]>> /\ (k[2] = "objects" => k[1] = << >>)
    BY <1>1 DEF Matched
  <1>6. Matched(v)
    BY <1>3, <1>4, <1>5 DEF Matched
  <1> QED
    BY <1>6 DEF v

\* ... so may the size of what is no vector with a count,
LEMMA SizeKeepsMatched ==
    ASSUME NEW d, IsData(d), Matched(d), NEW path, NEW field, NEW n,
           field \notin VectorNames \ {"arguments"}
    PROVE  Matched(WithSize(d, path, field, n))
  <1> DEFINE s == WithSize(d, path, field, n)
  <1>1. /\ \A k \in DOMAIN s.len : k \in DOMAIN d.len \/ k = <<path, field>>
        /\ s.val = d.val
    BY PutKeys
  <1>2. \A p, f : /\ Value(s, p, f) = Value(d, p, f)
                  /\ Size(s, p, f) = IF p = path /\ f = field THEN n
                                     ELSE Size(d, p, f)
    BY ValueOfPut
  <1> HIDE DEF s
  <1>3. ASSUME NEW p, NEW c \in DOMAIN Vector \ {"objectCount"}, HasCount(p, c)
        PROVE  Value(s, p, c) = Size(s, p, Vector[c].name)
    <2>1. Vector[c].name # field
      BY ObjectsVector
    <2> QED
      BY <1>2, <1>3, <2>1, MatchedEverywhere
  <1>4. \A k \in DOMAIN s.val :
           k = <<k[1], k[2]>> /\ (k[2] \in DOMAIN Vector => HasCount(k[1], k[2]))
    BY <1>1 DEF Matched
  <1>5. \A k \in DOMAIN s.len :
           k = <<k[1], k[2]>> /\ (k[2] = "objects" => k[1] = << >>)
    <2>1. field # "objects"
      BY ObjectsVector
    <2> QED
      BY <1>1, <2>1 DEF Matched
  <1>6. Matched(s)
    BY <1>3, <1>4, <1>5 DEF Matched
  <1> QED
    BY <1>6 DEF s

\* ... and so may a count together with its vector,
LEMMA CountKeepsMatched ==
    ASSUME NEW d, IsData(d), Matched(d), NEW path, NEW c \in DOMAIN Vector,
           c # "objectCount", HasCount(path, c), NEW n \in Nat
    PROVE  Matched(WithSize(SetValue(d, path, c, n), path, Vector[c].name, n))
  <1> DEFINE v == SetValue(d, path, c, n)
             s == WithSize(v, path, Vector[c].name, n)
  <1>1. /\ \A k \in DOMAIN v.val : k \in DOMAIN d.val \/ k = <<path, c>>
        /\ v.len = d.len /\ IsData(v)
    BY PutKeys, SetTyped
  <1>2. \A p, f : /\ Value(v, p, f) = IF p = path /\ f = c THEN n
                                      ELSE Value(d, p, f)
                  /\ Size(v, p, f) = Size(d, p, f)
    BY ValueOfPut
  <1> HIDE DEF v
  <1>3. /\ \A k \in DOMAIN s.len :
              k \in DOMAIN v.len \/ k = <<path, Vector[c].name>>
        /\ s.val = v.val
    BY <1>1, PutKeys
  <1>4. \A p, f : /\ Value(s, p, f) = Value(v, p, f)
                  /\ Size(s, p, f) = IF p = path /\ f = Vector[c].name THEN n
                                     ELSE Size(v, p, f)
    BY <1>1, ValueOfPut
  <1> HIDE DEF s
  <1>5. ASSUME NEW p, NEW b \in DOMAIN Vector \ {"objectCount"}, HasCount(p, b)
        PROVE  Value(s, p, b) = Size(s, p, Vector[b].name)
    <2>1. Value(d, p, b) = Size(d, p, Vector[b].name)
      BY <1>5, MatchedEverywhere
    <2>2. p = path /\ Vector[b].name = Vector[c].name => b = c
      <3> SUFFICES ASSUME p = path, Vector[b].name = Vector[c].name, b # c
                   PROVE  FALSE
        OBVIOUS
      <3>1. {b, c} = {"functionCount", "numFunctions"}
        BY VectorNamesDiffer
      <3> QED
        BY <1>5, <3>1 DEF HasCount
    <2> QED
      BY <1>2, <1>4, <2>1, <2>2
  <1>6. \A k \in DOMAIN s.val :
           k = <<k[1], k[2]>> /\ (k[2] \in DOMAIN Vector => HasCount(k[1], k[2]))
    BY <1>1, <1>3 DEF Matched
  <1>7. \A k \in DOMAIN s.len :
           k = <<k[1], k[2]>> /\ (k[2] = "objects" => k[1] = << >>)
    <2>1. Vector[c].name # "objects"
      BY ObjectsVector
    <2> QED
      BY <1>1, <1>3, <2>1 DEF Matched
  <1>8. Matched(s)
    BY <1>5, <1>6, <1>7 DEF Matched
  <1> QED
    BY <1>8 DEF s, v

\* ... and the number of the objects, and the objects there are.
LEMMA ObjectsKeepMatched ==
    ASSUME NEW d, IsData(d), Matched(d), NEW n
    PROVE  /\ Matched(SetValue(d, << >>, "objectCount", n))
           /\ Matched(WithSize(d, << >>, "objects", n))
  <1> DEFINE v == SetValue(d, << >>, "objectCount", n)
             s == WithSize(d, << >>, "objects", n)
  <1>1. /\ \A k \in DOMAIN v.val :
              k \in DOMAIN d.val \/ k = << << >>, "objectCount">>
        /\ v.len = d.len /\ s.val = d.val
        /\ \A k \in DOMAIN s.len :
              k \in DOMAIN d.len \/ k = << << >>, "objects">>
    BY PutKeys
  <1>2. \A p, f : /\ Value(v, p, f) = IF p = << >> /\ f = "objectCount" THEN n
                                      ELSE Value(d, p, f)
                  /\ Size(v, p, f) = Size(d, p, f)
                  /\ Value(s, p, f) = Value(d, p, f)
                  /\ Size(s, p, f) = IF p = << >> /\ f = "objects" THEN n
                                     ELSE Size(d, p, f)
    BY ValueOfPut
  <1> HIDE DEF v, s
  <1>3. ASSUME NEW p, NEW c \in DOMAIN Vector \ {"objectCount"}, HasCount(p, c)
        PROVE  /\ Value(v, p, c) = Size(v, p, Vector[c].name)
               /\ Value(s, p, c) = Size(s, p, Vector[c].name)
    <2>1. Vector[c].name # "objects"
      BY ObjectsVector
    <2>2. Value(d, p, c) = Size(d, p, Vector[c].name)
      BY <1>3, MatchedEverywhere
    <2> QED
      BY <1>2, <2>1, <2>2
  <1>4. HasCount(<< >>, "objectCount")
    BY DEF HasCount
  <1>5. Matched(v)
    BY <1>1, <1>3, <1>4 DEF Matched
  <1>6. Matched(s)
    BY <1>1, <1>3 DEF Matched
  <1> QED
    BY <1>5, <1>6 DEF v, s

\* What CountsMatchVectors says, of any tree.
Counted(d) ==
    /\ \A k \in DOMAIN d.val :
          k[2] \in DOMAIN Vector =>
             d.val[k] = Size(d, k[1], Vector[k[2]].name)
    /\ \A k \in DOMAIN d.len :
          k[2] \in VectorNames \ {"arguments"} =>
             \E c \in DOMAIN Vector : /\ Vector[c].name = k[2]
                                      /\ Value(d, k[1], c) = d.len[k]

\* If the objects are all there too, every count is the size of its vector.
LEMMA MatchedIsCounted ==
    ASSUME NEW d, IsData(d), Matched(d),
           Value(d, << >>, "objectCount") = Size(d, << >>, "objects")
    PROVE  Counted(d)
  <1>1. ASSUME NEW path, NEW c \in DOMAIN Vector, HasCount(path, c)
        PROVE  Value(d, path, c) = Size(d, path, Vector[c].name)
    <2>1. CASE c = "objectCount"
      BY <1>1, <2>1, ObjectsVector DEF HasCount
    <2> QED
      BY <1>1, <2>1, MatchedEverywhere
  <1>2. ASSUME NEW k \in DOMAIN d.val, k[2] \in DOMAIN Vector
        PROVE  d.val[k] = Size(d, k[1], Vector[k[2]].name)
    <2>1. k = <<k[1], k[2]>> /\ HasCount(k[1], k[2])
      BY <1>2 DEF Matched
    <2>2. Value(d, k[1], k[2]) = d.val[k]
      BY <2>1 DEF Value
    <2> QED
      BY <1>1, <1>2, <2>1, <2>2
  <1>3. ASSUME NEW k \in DOMAIN d.len, k[2] \in VectorNames \ {"arguments"}
        PROVE  \E c \in DOMAIN Vector : /\ Vector[c].name = k[2]
                                        /\ Value(d, k[1], c) = d.len[k]
    <2>1. /\ k = <<k[1], k[2]>>
          /\ k[2] = "objects" => k[1] = << >>
      BY <1>3 DEF Matched
    <2>2. Size(d, k[1], k[2]) = d.len[k]
      BY <2>1 DEF Size
    <2>3. \E c \in DOMAIN Vector : Vector[c].name = k[2] /\ HasCount(k[1], c)
      <3>1. PICK b \in DOMAIN Vector : Vector[b].name = k[2]
        BY <1>3 DEF VectorNames
      <3>2. CASE b \in {"functionCount", "numFunctions"}
        <4>1. /\ {"functionCount", "numFunctions"} \subseteq DOMAIN Vector
              /\ Vector["functionCount"].name = Vector["numFunctions"].name
          BY VectorDomain DEF Vector
        <4>2. HasCount(k[1], "functionCount") \/ HasCount(k[1], "numFunctions")
          BY DEF HasCount
        <4> QED
          BY <3>1, <3>2, <4>1, <4>2
      <3>3. CASE b = "objectCount"
        <4>1. k[1] = << >>
          BY <2>1, <3>1, <3>3, ObjectsVector
        <4> QED
          BY <3>1, <3>3, <4>1 DEF HasCount
      <3>4. CASE b \notin {"functionCount", "numFunctions", "objectCount"}
        BY <3>1, <3>4 DEF HasCount
      <3> QED
        BY <3>2, <3>3, <3>4
    <2>4. PICK c \in DOMAIN Vector : Vector[c].name = k[2] /\ HasCount(k[1], c)
      BY <2>3
    <2>5. Value(d, k[1], c) = d.len[k]
      BY <1>1, <2>2, <2>4
    <2> QED
      BY <2>4, <2>5
  <1> QED
    BY <1>2, <1>3 DEF Counted

-----------------------------------------------------------------------------
(* The elements of all the vectors *)

HeldKeys(d) == {k \in DOMAIN d.len : k[2] \in VectorNames}

\* They are the sum of the sizes.
LEMMA HeldIs == ASSUME NEW d PROVE Held(d) = SumOver(d.len, HeldKeys(d))
  BY Zenon DEF Held, HeldKeys, SumOver, MapThenSumSet, MapThenFoldSet

\* Only sizes count.
LEMMA HeldOfSizes ==
    ASSUME NEW d, NEW e, d.len = e.len
    PROVE  Held(d) = Held(e)
  BY HeldIs DEF HeldKeys

\* A new PexData holds nothing.
LEMMA HeldOfNothing == Held(EmptyData) = 0 /\ IsFiniteSet(DOMAIN EmptyData.len)
  <1>1. DOMAIN EmptyData.len = {}
    BY DEF EmptyData
  <1>2. HeldKeys(EmptyData) = {}
    BY <1>1 DEF HeldKeys
  <1>3. SumOver(EmptyData.len, {}) = 0
    BY SumOverNothing
  <1> QED
    BY <1>1, <1>2, <1>3, HeldIs, FS_EmptySet

\* What is held is a number, in which the size of a vector has its part.
LEMMA HeldTyped ==
    ASSUME NEW d, IsData(d), IsFiniteSet(DOMAIN d.len)
    PROVE  /\ IsFiniteSet(HeldKeys(d)) /\ Held(d) \in Nat
           /\ \A k \in HeldKeys(d) :
                 Held(d) = d.len[k] + SumOver(d.len, HeldKeys(d) \ {k})
  <1>1. HeldKeys(d) \subseteq DOMAIN d.len
    BY DEF HeldKeys
  <1>2. IsFiniteSet(HeldKeys(d))
    BY <1>1, FS_Subset
  <1>3. \A k \in HeldKeys(d) : d.len[k] \in Nat
    BY <1>1 DEF IsData
  <1> DEFINE f == d.len
             S == HeldKeys(d)
  <1>4. IsFiniteSet(S) /\ \A x \in S : f[x] \in Nat
    BY <1>2, <1>3
  <1>5. Held(d) = SumOver(f, S)
    BY HeldIs
  <1> HIDE DEF f, S
  <1>6. /\ SumOver(f, S) \in Nat
        /\ \A x \in S : SumOver(f, S) = f[x] + SumOver(f, S \ {x})
    BY <1>4, SumOverElement
  <1> QED
    BY <1>2, <1>5, <1>6 DEF f, S

\* A size that is set takes the place of the one it had.
LEMMA HeldOfWithSize ==
    ASSUME NEW d, IsData(d), IsFiniteSet(DOMAIN d.len),
           NEW path, NEW field, NEW n \in Nat
    PROVE  LET e == WithSize(d, path, field, n)
           IN  /\ IsFiniteSet(DOMAIN e.len)
               /\ Held(e) = IF field \in VectorNames
                             THEN Held(d) - Size(d, path, field) + n
                             ELSE Held(d)
  <1> DEFINE e == WithSize(d, path, field, n)
             k == <<path, field>>
  <1>1. e.len = Put(d.len, k, n) /\ IsData(e)
    <2>1. /\ SetValue(d, path, field, n).len = d.len
          /\ SetValue(d, path, field, n).val = Put(d.val, <<path, field>>, n)
          /\ WithSize(d, path, field, n).val = d.val
          /\ WithSize(d, path, field, n).len = Put(d.len, <<path, field>>, n)
      BY PutIs
    <2> QED
      BY <2>1, SetTyped
  <1>2. k[2] = field
    OBVIOUS
  <1>3. Size(d, path, field) = IF k \in DOMAIN d.len THEN d.len[k] ELSE 0
    BY DEF Size
  <1> HIDE DEF e, k
  <1>4. DOMAIN e.len = DOMAIN d.len \cup {k}
    BY <1>1, PutDomain
  <1>5. IsFiniteSet(DOMAIN e.len)
    BY <1>4, FS_AddElement
  <1>6. /\ \A x \in DOMAIN d.len : x # k => e.len[x] = d.len[x]
        /\ e.len[k] = n
    BY <1>1 DEF Put
  <1> DEFINE f == d.len
             g == e.len
             S == HeldKeys(d)
             T == HeldKeys(e)
  <1>7. /\ IsFiniteSet(S) /\ IsFiniteSet(T) /\ Held(d) \in Nat
        /\ Held(d) = SumOver(f, S) /\ Held(e) = SumOver(g, T)
        /\ \A x \in S : Held(d) = f[x] + SumOver(f, S \ {x})
        /\ \A x \in T : Held(e) = g[x] + SumOver(g, T \ {x})
    BY <1>1, <1>5, HeldTyped, HeldIs
  <1>8. /\ \A x \in S : x # k => g[x] = f[x]
        /\ k \in S <=> k \in DOMAIN d.len /\ field \in VectorNames
        /\ T = IF field \in VectorNames THEN S \cup {k} ELSE S
        /\ k \in S => f[k] \in Nat
    <2>1. \A x \in S : x # k => g[x] = f[x]
      BY <1>6 DEF HeldKeys
    <2>2. k \in S <=> k \in DOMAIN d.len /\ field \in VectorNames
      BY <1>2 DEF HeldKeys
    <2>3. T = IF field \in VectorNames THEN S \cup {k} ELSE S
      BY <1>2, <1>4 DEF HeldKeys
    <2>4. k \in S => f[k] \in Nat
      BY <2>2 DEF IsData
    <2> QED
      BY <2>1, <2>2, <2>3, <2>4
  <1>9. g[k] = n
    BY <1>6
  <1> HIDE DEF f, g, S, T
  <1>10. Held(e) = IF field \in VectorNames
                   THEN Held(d) - Size(d, path, field) + n ELSE Held(d)
    <2>1. CASE field \notin VectorNames
      <3>1. S = T /\ \A x \in S : f[x] = g[x]
        BY <1>8, <2>1
      <3>2. SumOver(f, S) = SumOver(g, S)
        BY <1>7, <3>1, SumOverSame
      <3> QED
        BY <1>7, <2>1, <3>1, <3>2
    <2>2. CASE field \in VectorNames
      <3> DEFINE R == S \ {k}
      <3>1. T \ {k} = R /\ k \in T /\ \A x \in R : f[x] = g[x]
        BY <1>8, <2>2
      <3>2. IsFiniteSet(R)
        BY <1>7, FS_Subset
      <3>3. Held(e) = n + SumOver(g, R)
        BY <1>7, <1>9, <3>1
      <3> HIDE DEF R
      <3>4. SumOver(f, R) = SumOver(g, R)
        BY <3>1, <3>2, SumOverSame
      <3>5. SumOver(f, R) \in Nat /\ Held(d) = Size(d, path, field) + SumOver(f, R)
        <4>1. CASE k \in S
          <5>1. \A x \in R : f[x] \in Nat
            BY DEF R, S, f, HeldKeys, IsData
          <5>2. SumOver(f, R) \in Nat
            BY <3>2, <5>1, SumOverElement
          <5>3. Held(d) = f[k] + SumOver(f, R)
            BY <1>7, <4>1 DEF R
          <5>4. Size(d, path, field) = f[k]
            BY <1>3, <1>8, <4>1 DEF f
          <5> QED
            BY <5>2, <5>3, <5>4
        <4>2. CASE k \notin S
          <5>1. R = S
            BY <4>2 DEF R
          <5>2. Size(d, path, field) = 0
            BY <1>3, <1>8, <2>2, <4>2
          <5> QED
            BY <1>7, <5>1, <5>2
        <4> QED
          BY <4>1, <4>2
      <3>6. Size(d, path, field) \in Nat
        BY ValueTyped
      <3> QED
        BY <2>2, <3>3, <3>4, <3>5, <3>6
    <2> QED
      BY <2>1, <2>2
  <1> QED
    BY <1>5, <1>10 DEF e

-----------------------------------------------------------------------------
(* What a step may put on the agenda *)

\* Steps that may stand before the objects, and owe x elements.
Fits(more, x) ==
    /\ more \in Seq(Goals)
    /\ \A i \in DOMAIN more : Inner(more[i]) /\ more[i].kind # "objectSize"
    /\ Owing(more) = x

\* What a step owes is a number.
LEMMA OwedTyped ==
    ASSUME NEW goals \in Seq(Goals)
    PROVE  /\ [i \in DOMAIN goals |-> Owed(goals[i])] \in Seq(Nat)
           /\ Owing(goals) \in Nat
  <1>1. \A i \in DOMAIN goals : Owed(goals[i]) \in Nat
    <2>1. \A g \in Goals : Owed(g) \in Nat
      BY DEF Owed, Goals
    <2> QED
      BY <2>1
  <1>2. [i \in DOMAIN goals |-> Owed(goals[i])] \in Seq(Nat)
    BY <1>1
  <1> QED
    BY <1>2, TotalTyped DEF Owing

\* What follows is owed on top.
LEMMA OwingConcat ==
    ASSUME NEW a \in Seq(Goals), NEW b \in Seq(Goals)
    PROVE  Owing(a \o b) = Owing(a) + Owing(b)
  <1> DEFINE s == [i \in DOMAIN a |-> Owed(a[i])]
             t == [i \in DOMAIN b |-> Owed(b[i])]
             u == [i \in DOMAIN (a \o b) |-> Owed((a \o b)[i])]
  <1>1. s \in Seq(Nat) /\ t \in Seq(Nat)
    BY OwedTyped
  <1>2. u = s \o t
    <2> DEFINE c == a \o b
    <2>1. /\ c \in Seq(Goals) /\ Len(c) = Len(a) + Len(b)
          /\ \A i \in 1..(Len(a) + Len(b)) :
                c[i] = IF i <= Len(a) THEN a[i] ELSE b[i - Len(a)]
      BY ConcatProperties
    <2>2. /\ Len(s) = Len(a) /\ \A i \in 1..Len(a) : s[i] = Owed(a[i])
          /\ Len(t) = Len(b) /\ \A i \in 1..Len(b) : t[i] = Owed(b[i])
      OBVIOUS
    <2> HIDE DEF c
    <2>3. u = [i \in DOMAIN c |-> Owed(c[i])]
      BY DEF c
    <2>4. u \in Seq(Nat)
      BY <2>1, <2>3, OwedTyped
    <2> HIDE DEF s, t, u
    <2>5. Len(u) = Len(c) /\ \A i \in 1..Len(c) : u[i] = Owed(c[i])
      BY <2>1, <2>3, <2>4
    <2>6. /\ s \o t \in Seq(Nat) /\ Len(s \o t) = Len(s) + Len(t)
          /\ \A i \in 1..(Len(s) + Len(t)) :
                (s \o t)[i] = IF i <= Len(s) THEN s[i] ELSE t[i - Len(s)]
      BY <1>1, ConcatProperties
    <2>7. ASSUME NEW i \in 1..Len(u)
          PROVE  u[i] = (s \o t)[i]
      <3>1. u[i] = Owed(c[i]) /\ i \in 1..(Len(a) + Len(b))
        BY <2>1, <2>5
      <3>2. CASE i <= Len(a)
        <4>1. i \in 1..Len(a)
          BY <3>1, <3>2
        <4> QED
          BY <2>1, <2>2, <2>6, <3>1, <4>1
      <3>3. CASE ~(i <= Len(a))
        <4>1. i - Len(a) \in 1..Len(b) /\ ~(i <= Len(a))
          BY <3>1, <3>3
        <4> QED
          BY <2>1, <2>2, <2>6, <3>1, <4>1
      <3> QED
        BY <3>1, <3>2, <3>3
    <2>8. Len(u) = Len(s \o t)
      BY <2>1, <2>2, <2>5, <2>6
    <2> QED
      BY <2>4, <2>6, <2>7, <2>8, SeqEqual
  <1>3. Total(s \o t) = Total(s) + Total(t)
    <2> HIDE DEF s, t
    <2> QED
      BY <1>1, TotalOfConcat
  <1> QED
    BY <1>2, <1>3 DEF Owing

\* Such steps may be put together,
LEMMA FitsConcat ==
    ASSUME NEW a, NEW b, NEW x, NEW y, Fits(a, x), Fits(b, y)
    PROVE  Fits(a \o b, x + y)
  <1>1. a \in Seq(Goals) /\ b \in Seq(Goals) /\ a \o b \in Seq(Goals)
    BY DEF Fits
  <1>2. Owing(a \o b) = x + y
    BY <1>1, OwingConcat DEF Fits
  <1>3. ASSUME NEW i \in 1..Len(a \o b)
        PROVE  \/ i \in DOMAIN a /\ (a \o b)[i] = a[i]
               \/ i - Len(a) \in DOMAIN b /\ (a \o b)[i] = b[i - Len(a)]
    BY <1>1
  <1>4. DOMAIN (a \o b) = 1..Len(a \o b)
    BY <1>1
  <1> QED
    BY <1>1, <1>2, <1>3, <1>4 DEF Fits

\* ... nothing at all is fine,
LEMMA FitsNothing == Fits(<< >>, 0)
  <1>1. [i \in DOMAIN << >> |-> Owed(<< >>[i])] = << >>
    OBVIOUS
  <1> QED
    BY <1>1, TotalOfFew DEF Fits, Owing

\* ... so are steps that owe nothing,
LEMMA OwingFree ==
    ASSUME NEW more \in Seq(Goals),
           \A i \in DOMAIN more : more[i].kind \notin {"callArguments", "push"}
    PROVE  Owing(more) = 0
  <1> DEFINE s == [i \in DOMAIN more |-> Owed(more[i])]
  <1>1. s \in Seq(Nat) /\ Len(s) = Len(more)
    BY OwedTyped
  <1>2. \A i \in 1..Len(s) : s[i] = 0
    BY <1>1 DEF Owed
  <1>3. Total(s) = 0
    <2> HIDE DEF s
    <2> QED
      BY <1>1, <1>2, TotalOfZeros
  <1> QED
    BY <1>3 DEF Owing

\* ... if they may stand there,
LEMMA FitsFree ==
    ASSUME NEW more \in Seq(Goals),
           \A i \in DOMAIN more :
              /\ Inner(more[i])
              /\ more[i].kind \notin {"objectSize", "callArguments", "push"}
    PROVE  Fits(more, 0)
  <1>1. Owing(more) = 0
    BY OwingFree
  <1> QED
    BY <1>1 DEF Fits

\* ... as the reads of a table are,
LEMMA FitsReads ==
    ASSUME NEW body \in Seq(Reading), Quiet(body), NEW path \in Path,
           \/ path # << >>
           \/ \A i \in DOMAIN body : body[i][2] # "numFunctions"
    PROVE  Fits(Reads(body, path), 0)
  BY ReadsInner, ReadsTyped, FitsFree

\* ... a single step,
LEMMA FitsOne ==
    ASSUME NEW g, <<g>> \in Seq(Goals), Inner(g), g.kind # "objectSize"
    PROVE  Fits(<<g>>, Owed(g))
  <1>1. g \in Goals
    <2>1. <<g>>[1] \in Goals
      OBVIOUS
    <2> QED
      BY <2>1
  <1>2. Owed(g) \in Nat
    BY <1>1 DEF Owed, Goals
  <1>3. [i \in DOMAIN <<g>> |-> Owed(<<g>>[i])] = <<Owed(g)>>
    OBVIOUS
  <1>4. Owing(<<g>>) = Owed(g)
    BY <1>2, <1>3, TotalOfFew DEF Owing
  <1> QED
    BY <1>4 DEF Fits

\* ... the reads of arguments,
LEMMA FitsArguments ==
    ASSUME NEW path \in Path, NEW n \in Nat
    PROVE  Fits([i \in 1..n |-> ReadArgument(path, i)], 0)
  <1> DEFINE more == [i \in 1..n |-> ReadArgument(path, i)]
  <1>1. more \in Seq(Goals)
    <2>1. \A i \in 1..n : ReadArgument(path, i) \in Goals
      BY ArgumentTyped
    <2> QED
      BY <2>1
  <1>2. \A i \in DOMAIN more :
           /\ Inner(more[i])
           /\ more[i].kind \notin {"objectSize", "callArguments", "push"}
    BY DEF ReadArgument, Goal, Inner, HasCount
  <1> HIDE DEF more
  <1>3. Fits(more, 0)
    BY <1>1, <1>2, FitsFree
  <1> QED
    BY <1>3 DEF more

\* ... and the further arguments of a call, each read and then pushed: they
\* owe as many elements as they are.
LEMMA FitsFurther ==
    ASSUME NEW path \in Path, NEW n \in Nat, NEW count \in Nat
    PROVE  Fits([i \in 1..(2 * count) |->
                    IF i % 2 = 1
                    THEN ReadArgument(path, n + (i + 1) \div 2)
                    ELSE Goal("push", path, "arguments", 0)], count)
  <1> DEFINE argument(i) == ReadArgument(path, n + (i + 1) \div 2)
             push == Goal("push", path, "arguments", 0)
             more == [i \in 1..(2 * count) |->
                         IF i % 2 = 1 THEN argument(i) ELSE push]
             turns == [i \in 1..(2 * count) |-> IF i % 2 = 1 THEN 0 ELSE 1]
  <1>1. push \in Goals /\ Inner(push) /\ push.kind = "push"
    <2>1. "arguments" \in Fields
      BY DEF Fields
    <2>2. <<push>> \in Seq(Goals)
      BY <2>1, GoalTyped
    <2>3. <<push>>[1] \in Goals
      <3> HIDE DEF push
      <3> QED
        BY <2>2
    <2> QED
      BY <2>3 DEF Inner, HasCount, Goal
  <1>2. ASSUME NEW i \in 1..(2 * count)
        PROVE  argument(i) \in Goals /\ Inner(argument(i)) /\ argument(i).kind = "type"
    <2>1. n + (i + 1) \div 2 \in Nat
      OBVIOUS
    <2>2. argument(i) \in Goals
      BY <2>1, ArgumentTyped
    <2> QED
      BY <2>2 DEF Inner, HasCount, ReadArgument, Goal
  <1> HIDE DEF argument, push
  <1>3. more \in Seq(Goals) /\ DOMAIN more = 1..(2 * count)
    BY <1>1, <1>2
  <1>4. \A i \in DOMAIN more : Inner(more[i]) /\ more[i].kind # "objectSize"
    BY <1>1, <1>2
  <1>5. [i \in DOMAIN more |-> Owed(more[i])] = turns
    <2>1. ASSUME NEW i \in 1..(2 * count)
          PROVE  Owed(more[i]) = IF i % 2 = 1 THEN 0 ELSE 1
      BY <1>1, <1>2 DEF Owed
    <2> HIDE DEF more
    <2> QED
      BY <1>3, <2>1
  <1>6. Total(turns) = count
    BY TotalOfTurns
  <1>7. Owing(more) = count
    BY <1>5, <1>6 DEF Owing
  <1>8. Fits(more, count)
    BY <1>3, <1>4, <1>7 DEF Fits
  <1> QED
    BY <1>8 DEF argument, push

-----------------------------------------------------------------------------
(* Steps before the objects *)

\* The objects at hand or to come are found by the last step of the agenda.
LEMMA HeadOfOthers ==
    ASSUME TypeOK, ObjectsComeLast, agenda # << >>
    PROVE  /\ head.kind \notin {"count", "loop"} => head.field # "objectCount"
           /\ head.field = "objectCount" => Len(agenda) = 1 /\ head = LastGoal
  <1>0. Len(agenda) \in Nat /\ Len(agenda) >= 1
    BY HeadIs
  <1>1. head = agenda[1]
    BY HeadIs
  <1>2. CASE Len(agenda) = 1
    BY <1>1, <1>2 DEF ObjectsComeLast, LastGoal
  <1>3. CASE Len(agenda) # 1
    <2>0. Len(agenda) >= 2
      BY <1>3, HeadIs
    <2>1. 1 \in 1..(Len(agenda) - 1)
      BY <1>0, <2>0
    <2>2. Inner(agenda[1])
      BY <2>1 DEF ObjectsComeLast
    <2> QED
      BY <1>1, <1>3, <2>2 DEF Inner
  <1> QED
    BY <1>2, <1>3

\* What the agenda owes is what the step at hand owes, and the rest.
LEMMA OwingHead ==
    ASSUME TypeOK, agenda # << >>
    PROVE  /\ Owing(agenda) = Owed(head) + Owing(Tail(agenda))
           /\ Owed(head) \in Nat /\ Owing(Tail(agenda)) \in Nat
  <1>1. head \in Goals /\ Tail(agenda) \in Seq(Goals)
    BY HeadTyped
  <1>2. agenda = <<head>> \o Tail(agenda)
    BY DEF TypeOK, head
  <1> DEFINE g == head
             rest == Tail(agenda)
  <1>3. g \in Goals /\ rest \in Seq(Goals) /\ agenda = <<g>> \o rest
    BY <1>1, <1>2
  <1> HIDE DEF g, rest
  <1>4. <<g>> \in Seq(Goals)
    BY <1>3
  <1>5. Owing(<<g>> \o rest) = Owing(<<g>>) + Owing(rest)
    BY <1>3, <1>4, OwingConcat
  <1>6. Owed(g) \in Nat
    BY <1>3 DEF Owed, Goals
  <1>7. [i \in DOMAIN <<g>> |-> Owed(<<g>>[i])] = <<Owed(g)>>
    OBVIOUS
  <1>8. Owing(<<g>>) = Owed(g)
    BY <1>6, <1>7, TotalOfFew DEF Owing
  <1>9. Owing(rest) \in Nat
    BY <1>3, OwedTyped
  <1> QED
    BY <1>3, <1>5, <1>6, <1>8, <1>9 DEF g, rest

\* The object a step appends.
Appended == IF head.kind = "objectSize" THEN 1 ELSE 0

\* A step before the objects preserves the invariant if it charges what it
\* adds to parsed and to the agenda.
LEMMA InnerStep ==
    ASSUME VectorInv, TypeOK', ReaderBounded', load = "parsing",
           agenda # << >>, head.field # "objectCount",
           NEW more, NEW x \in Nat, Fits(more, x), agenda' = more \o Tail(agenda),
           IsFiniteSet(DOMAIN parsed'.len), Matched(parsed'),
           Value(parsed', << >>, "objectCount") = Value(parsed, << >>, "objectCount"),
           Size(parsed', << >>, "objects") =
              Size(parsed, << >>, "objects") + Appended,
           Held(parsed') + x + aggregateElements <=
              Held(parsed) + Owed(head) + aggregateElements' + Appended,
           inst' = inst, load' = load
    PROVE  VectorInv'
  <1>1. TypeOK /\ ParseInv
    BY DEF VectorInv
  <1>2. /\ more \in Seq(Goals) /\ Owing(more) = x
        /\ \A i \in DOMAIN more : Inner(more[i]) /\ more[i].kind # "objectSize"
    BY DEF Fits
  <1>3. /\ ObjectsComeLast' /\ agenda' # << >> /\ LastGoal' = LastGoal
        /\ Announced' = IF head.kind = "objectSize" THEN 0 ELSE Announced
    BY <1>1, <1>2, AgendaGrows DEF ParseInv
  <1>4. ObjectsCounted'
    <2>1. /\ Len(agenda) >= 2
          /\ head.kind = "objectSize" => Len(agenda) = 2 /\ LastGoal.kind = "loop"
      BY <1>1, HeadInner DEF ParseInv
    <2>2. head.kind = "objectSize" => Announced = 1
      <3> SUFFICES ASSUME head.kind = "objectSize" PROVE Announced = 1
        OBVIOUS
      <3>1. 1 \in 1..(Len(agenda) - 1) /\ agenda[1].kind = "objectSize"
        BY <1>1, <2>1, HeadIs
      <3> QED
        BY <3>1 DEF Announced
    <2>3. CASE LastGoal.kind = "count"
      BY <1>1, <1>3, <2>1, <2>3 DEF ParseInv, ObjectsCounted, Appended
    <2>4. CASE LastGoal.kind # "count"
      <3>1. /\ LastGoal.n <= Value(parsed, << >>, "objectCount")
            /\ LastGoal.n = Size(parsed, << >>, "objects") + Announced
        BY <1>1, <2>4 DEF ParseInv, ObjectsCounted
      <3>2. Size(parsed, << >>, "objects") \in Nat /\ Announced \in Nat
        BY <1>1, ValueTyped DEF TypeOK, Announced
      <3>3. LastGoal.n = Size(parsed', << >>, "objects") + Announced'
        BY <1>3, <2>2, <3>1, <3>2 DEF Appended
      <3> QED
        BY <1>3, <2>4, <3>1, <3>3 DEF ObjectsCounted
    <2> QED
      BY <2>3, <2>4
  <1>5. ChargedFor'
    <2>1. Owing(agenda') = x + Owing(Tail(agenda))
      BY <1>1, <1>2, HeadTyped, OwingConcat
    <2>2. /\ Owing(agenda) = Owed(head) + Owing(Tail(agenda))
          /\ Owed(head) \in Nat /\ Owing(Tail(agenda)) \in Nat
      BY <1>1, OwingHead
    <2>3. Held(parsed) + Owing(agenda) + ObjectsToCome <= aggregateElements
      BY <1>1 DEF ParseInv, ChargedFor
    <2>4. /\ Held(parsed) \in Nat /\ Held(parsed') \in Nat
          /\ aggregateElements \in Nat /\ aggregateElements' \in Nat
      BY <1>1, HeldTyped DEF ParseInv, Finite, TypeOK
    <2>5. ObjectsToCome \in Int /\ ObjectsToCome' = ObjectsToCome - Appended
      <3>1. /\ Value(parsed, << >>, "objectCount") \in Nat
            /\ Size(parsed, << >>, "objects") \in Nat /\ Appended \in Nat
        BY <1>1, ValueTyped DEF TypeOK, Appended
      <3> DEFINE count == Value(parsed, << >>, "objectCount")
                 there == Size(parsed, << >>, "objects")
      <3>2. /\ ObjectsToCome = count - there
            /\ ObjectsToCome' = count - (there + Appended)
        BY Zenon DEF ObjectsToCome
      <3>3. count \in Nat /\ there \in Nat
        BY <3>1
      <3> HIDE DEF count, there
      <3> QED
        BY <3>1, <3>2, <3>3
    <2>6. Appended \in Nat
      BY DEF Appended
    <2>7. Held(parsed') + Owing(agenda') + ObjectsToCome' <= aggregateElements'
      <3> DEFINE held1 == Held(parsed)
                 held2 == Held(parsed')
                 limit1 == aggregateElements
                 limit2 == aggregateElements'
                 owed == Owed(head)
                 rest == Owing(Tail(agenda))
                 come == ObjectsToCome
                 one == Appended
      <3>1. /\ held1 \in Nat /\ held2 \in Nat /\ limit1 \in Nat
            /\ limit2 \in Nat /\ owed \in Nat /\ rest \in Nat
            /\ come \in Int /\ one \in Nat /\ x \in Nat
            /\ held1 + (owed + rest) + come <= limit1
            /\ held2 + x + limit1 <= held1 + owed + limit2 + one
        BY <2>2, <2>3, <2>4, <2>5, <2>6
      <3>2. /\ Owing(agenda') = x + rest /\ ObjectsToCome' = come - one
            /\ Held(parsed') = held2 /\ aggregateElements' = limit2
        BY <2>1, <2>5
      <3> HIDE DEF held1, held2, limit1, limit2, owed, rest, come, one
      <3>3. held2 + (x + rest) + (come - one) <= limit2
        BY <3>1
      <3> QED
        BY <3>2, <3>3
    <2> QED
      BY <2>7 DEF ChargedFor
  <1>6. ParseInv'
    BY <1>1, <1>3, <1>4, <1>5 DEF ParseInv, NothingRuns, Finite
  <1> QED
    BY <1>6 DEF VectorInv, CountsMatchVectors

\* Setting a member that is no count changes no vector,
LEMMA WithValueIs ==
    ASSUME NEW d, IsData(d), Matched(d), IsFiniteSet(DOMAIN d.len),
           NEW path, NEW field, field \notin DOMAIN Vector, NEW v \in Nat
    PROVE  LET e == SetValue(d, path, field, v)
           IN  /\ IsData(e) /\ Matched(e) /\ IsFiniteSet(DOMAIN e.len)
               /\ Held(e) = Held(d)
               /\ Value(e, << >>, "objectCount") = Value(d, << >>, "objectCount")
               /\ \A p, f : Size(e, p, f) = Size(d, p, f)
  <1> DEFINE e == SetValue(d, path, field, v)
  <1>1. IsData(e)
    BY SetTyped
  <1>2. Matched(e)
    BY ValueKeepsMatched
  <1>3. e.len = d.len
    BY PutKeys
  <1>4. \A p, f : Size(e, p, f) = Size(d, p, f)
    BY <1>3 DEF Size
  <1>5. Value(e, << >>, "objectCount") = Value(d, << >>, "objectCount")
    <2>1. field # "objectCount"
      BY ObjectsVector
    <2> QED
      BY <2>1, ValueOfPut
  <1>6. Held(e) = Held(d)
    BY <1>3, HeldOfSizes
  <1> HIDE DEF e
  <1>7. IsFiniteSet(DOMAIN e.len)
    BY <1>3
  <1> QED
    BY <1>1, <1>2, <1>4, <1>5, <1>6, <1>7 DEF e

\* ... and the size of arguments, or of a string, changes no other vector.
LEMMA WithSizeIs ==
    ASSUME NEW d, IsData(d), Matched(d), IsFiniteSet(DOMAIN d.len),
           NEW path, NEW field, field \notin VectorNames \ {"arguments"},
           NEW n \in Nat
    PROVE  LET e == WithSize(d, path, field, n)
           IN  /\ IsData(e) /\ Matched(e) /\ IsFiniteSet(DOMAIN e.len)
               /\ Held(e) = IF field = "arguments"
                            THEN Held(d) - Size(d, path, field) + n ELSE Held(d)
               /\ Value(e, << >>, "objectCount") = Value(d, << >>, "objectCount")
               /\ Size(e, << >>, "objects") = Size(d, << >>, "objects")
  <1> DEFINE e == WithSize(d, path, field, n)
  <1>1. IsData(e)
    BY SetTyped
  <1>2. Matched(e)
    BY SizeKeepsMatched
  <1>3. /\ IsFiniteSet(DOMAIN e.len)
        /\ Held(e) = IF field \in VectorNames
                     THEN Held(d) - Size(d, path, field) + n ELSE Held(d)
    BY HeldOfWithSize
  <1>4. "objects" # field /\ (field \in VectorNames <=> field = "arguments")
    BY ObjectsVector
  <1>5. /\ Value(e, << >>, "objectCount") = Value(d, << >>, "objectCount")
        /\ Size(e, << >>, "objects") = Size(d, << >>, "objects")
    BY <1>4, ValueOfPut
  <1> HIDE DEF e
  <1> QED
    BY <1>1, <1>2, <1>3, <1>4, <1>5 DEF e

\* The step at hand, when it reads.
LEMMA HeadReads ==
    ASSUME TypeOK, agenda # << >>, head.kind \in DOMAIN Width \cup {"payload"}
    PROVE  /\ head \in Goals /\ head.path \in Path
           /\ head.kind = "count" <=> head.field \in DOMAIN Vector
           /\ head.kind \in {"string", "payload"} => head.field \notin VectorNames
  <1>1. /\ head \in Goals /\ head.path \in Path
        /\ <<head.kind, head.field>> \in Members
    BY HeadTyped DEF Goals
  <1> QED
    BY <1>1, MemberNames

\* A step that only sets a member other than a count, and may put free steps
\* on the agenda.
LEMMA SetStep ==
    ASSUME VectorInv, TypeOK', ReaderBounded', load = "parsing", agenda # << >>,
           head.kind \in DOMAIN Width \cup {"payload"},
           head.kind \notin {"count", "objectSize"},
           NEW v \in Nat, parsed' = WithValue(v),
           NEW more, Fits(more, 0), agenda' = more \o Tail(agenda),
           aggregateElements' = aggregateElements, inst' = inst, load' = load
    PROVE  VectorInv'
  <1>1. /\ TypeOK /\ IsData(parsed) /\ Matched(parsed)
        /\ IsFiniteSet(DOMAIN parsed.len) /\ ObjectsComeLast
    BY DEF VectorInv, ParseInv, Finite, TypeOK
  <1>2. head.field \notin DOMAIN Vector
    BY <1>1, HeadReads
  <1>3. head.field # "objectCount"
    BY <1>2, ObjectsVector
  <1>4. parsed' = SetValue(parsed, head.path, head.field, v)
    BY DEF WithValue, SetValue
  <1>5. /\ Matched(parsed') /\ IsFiniteSet(DOMAIN parsed'.len)
        /\ Held(parsed') = Held(parsed)
        /\ Value(parsed', << >>, "objectCount") = Value(parsed, << >>, "objectCount")
        /\ Size(parsed', << >>, "objects") = Size(parsed, << >>, "objects")
    BY <1>1, <1>2, <1>4, WithValueIs
  <1>6. Appended = 0 /\ 0 \in Nat
    BY DEF Appended
  <1>7. Size(parsed', << >>, "objects") = Size(parsed, << >>, "objects") + Appended
    <2>1. Size(parsed, << >>, "objects") \in Nat
      BY <1>1, ValueTyped
    <2> QED
      BY <1>5, <1>6, <2>1
  <1>8. Held(parsed') + 0 + aggregateElements <=
           Held(parsed) + Owed(head) + aggregateElements' + Appended
    <2>1. Held(parsed) \in Nat /\ Owed(head) \in Nat /\ aggregateElements \in Nat
      BY <1>1, HeldTyped, OwingHead DEF TypeOK
    <2> QED
      BY <1>5, <1>6, <2>1
  <1> QED
    BY <1>3, <1>5, <1>6, <1>7, <1>8, InnerStep

\* ReadScalar keeps the counts and the charge right,
LEMMA ReadScalarVectors ==
    VectorInv /\ TypeOK' /\ ReaderBounded' /\ ReadScalar => VectorInv'
  <1> SUFFICES ASSUME VectorInv, TypeOK', ReaderBounded', ReadScalar
               PROVE  VectorInv'
    OBVIOUS
  <1>1. /\ load = "parsing" /\ agenda # << >>
        /\ head.kind \in DOMAIN Width \cup {"payload"}
        /\ head.kind \notin {"count", "objectSize"}
    BY DEF ReadScalar, At, Width
  <1>2. PICK v : v \in Seen(HeadWidth) /\ Consume(HeadWidth, v)
                 /\ parsed' = WithValue(v)
    BY DEF ReadScalar
  <1>3. v \in Nat /\ TypeOK
    BY <1>1, <1>2, SeenTyped DEF VectorInv
  <1>4. inst' = inst /\ load' = load /\ aggregateElements' = aggregateElements
    BY <1>2 DEF Consume, ReadScalar
  <1>5. agenda' = << >> \o Tail(agenda)
    BY <1>1, <1>3, HeadTyped DEF ReadScalar
  <1> QED
    BY <1>1, <1>2, <1>3, <1>4, <1>5, FitsNothing, SetStep

\* ... ReadType does, for each type,
LEMMA ReadTypeVectors ==
    VectorInv /\ TypeOK' /\ ReaderBounded' /\ ReadType => VectorInv'
  <1> SUFFICES ASSUME VectorInv, TypeOK', ReaderBounded', ReadType
               PROVE  VectorInv'
    OBVIOUS
  <1>1. /\ load = "parsing" /\ agenda # << >> /\ head.kind = "type"
        /\ head.kind \in DOMAIN Width \cup {"payload"}
        /\ head.kind \notin {"count", "objectSize"}
    BY DEF ReadType, At, Width
  <1>2. PICK v : /\ v \in Seen(1) /\ Consume(1, v) /\ parsed' = WithValue(v)
                 /\ agenda' = Reads(ReadVariableData[v], head.path) \o Tail(agenda)
    BY DEF ReadType
  <1>3. v \in Nat /\ TypeOK
    BY <1>1, <1>2, SeenTyped DEF VectorInv
  <1>4. inst' = inst /\ load' = load /\ aggregateElements' = aggregateElements
    BY <1>2 DEF Consume, ReadType
  <1>5. v \in 0..5
    BY <1>1, <1>2, <1>3 DEF Consume, Rejects
  <1>6. Fits(Reads(ReadVariableData[v], head.path), 0)
    <2>1. head.path \in Path
      BY <1>1, <1>3, HeadReads
    <2> QED
      BY <1>5, <2>1, VariableDataTyped, TablesQuiet, FitsReads
  <1> QED
    BY <1>1, <1>2, <1>3, <1>4, <1>6, SetStep

\* ... ReadPropertyFlags, whatever the flags,
LEMMA ReadPropertyFlagsVectors ==
    VectorInv /\ TypeOK' /\ ReaderBounded' /\ ReadPropertyFlags => VectorInv'
  <1> SUFFICES ASSUME VectorInv, TypeOK', ReaderBounded', ReadPropertyFlags
               PROVE  VectorInv'
    OBVIOUS
  <1> DEFINE
        auto == Reads(<< <<"u16", "autoVarName">> >>, head.path)
        read == Reads(ReadFunction, Child(head.path, "readHandler", 0))
        written == Reads(ReadFunction, Child(head.path, "writeHandler", 0))
  <1>1. /\ load = "parsing" /\ agenda # << >>
        /\ head.kind \in DOMAIN Width \cup {"payload"}
        /\ head.kind \notin {"count", "objectSize"}
    BY DEF ReadPropertyFlags, At, Width
  <1>2. PICK v :
          /\ v \in Seen(1) /\ Consume(1, v) /\ parsed' = WithValue(v)
          /\ agenda' = (IF HasBit(v, 4) THEN auto ELSE << >>)
               \o (IF HasBit(v, 1) /\ ~HasBit(v, 4) THEN read ELSE << >>)
               \o (IF HasBit(v, 2) /\ ~HasBit(v, 4) THEN written ELSE << >>)
               \o Tail(agenda)
    BY DEF ReadPropertyFlags
  <1>3. v \in Nat /\ TypeOK
    BY <1>1, <1>2, SeenTyped DEF VectorInv
  <1>4. inst' = inst /\ load' = load /\ aggregateElements' = aggregateElements
    BY <1>2 DEF Consume, ReadPropertyFlags
  <1>5. head.path \in Path
    BY <1>1, <1>3, HeadReads
  <1>6. Fits(auto, 0)
    <2>1. \A i \in DOMAIN << <<"u16", "autoVarName">> >> :
             << <<"u16", "autoVarName">> >>[i][2] # "numFunctions"
      OBVIOUS
    <2> QED
      BY <1>5, <2>1, OptionsTyped, TablesQuiet, FitsReads
  <1>7. Fits(read, 0) /\ Fits(written, 0)
    <2>1. /\ Child(head.path, "readHandler", 0) \in Path
          /\ Child(head.path, "writeHandler", 0) \in Path
      BY <1>5, ChildTyped DEF Parts
    <2> QED
      BY <2>1, FunctionTyped, TablesQuiet, FitsReads
  <1> DEFINE a == IF HasBit(v, 4) THEN auto ELSE << >>
             b == IF HasBit(v, 1) /\ ~HasBit(v, 4) THEN read ELSE << >>
             c == IF HasBit(v, 2) /\ ~HasBit(v, 4) THEN written ELSE << >>
  <1>8. Fits(a, 0) /\ Fits(b, 0) /\ Fits(c, 0)
    BY <1>6, <1>7, FitsNothing
  <1>9. agenda' = a \o b \o c \o Tail(agenda)
    BY <1>2
  <1> HIDE DEF a, b, c
  <1>10. Fits(a \o b, 0)
    BY <1>8, FitsConcat
  <1>11. Fits(a \o b \o c, 0)
    BY <1>8, <1>10, FitsConcat
  <1> QED
    BY <1>1, <1>2, <1>3, <1>4, <1>9, <1>11, SetStep

\* ... and ReadDebugFlag, which has the one count of functions read that is
\* PexData's own.
LEMMA ReadDebugFlagVectors ==
    VectorInv /\ TypeOK' /\ ReaderBounded' /\ ReadDebugFlag => VectorInv'
  <1> SUFFICES ASSUME VectorInv, TypeOK', ReaderBounded', ReadDebugFlag
               PROVE  VectorInv'
    OBVIOUS
  <1> DEFINE body == << <<"u64", "modificationTime">>, <<"count", "functionCount">> >>
  <1>1. /\ load = "parsing" /\ agenda # << >> /\ head.kind = "debugFlag"
        /\ head.kind \in DOMAIN Width \cup {"payload"}
        /\ head.kind \notin {"count", "objectSize"}
    BY DEF ReadDebugFlag, At, Width
  <1>2. PICK v : /\ v \in Seen(1) /\ Consume(1, v) /\ parsed' = WithValue(v)
                 /\ agenda' = (IF v = 0 THEN << >> ELSE Reads(body, head.path))
                                \o Tail(agenda)
    BY DEF ReadDebugFlag
  <1>3. v \in Nat /\ TypeOK
    BY <1>1, <1>2, SeenTyped DEF VectorInv
  <1>4. inst' = inst /\ load' = load /\ aggregateElements' = aggregateElements
    BY <1>2 DEF Consume, ReadDebugFlag
  <1>5. head.path = << >>
    <2>1. ObjectsComeLast
      BY DEF VectorInv, ParseInv
    <2>2. head.field # "objectCount"
      BY <1>1, <1>3, <2>1, HeadOfOthers
    <2> QED
      BY <1>1, <1>3, <2>1, <2>2, HeadInner DEF Inner
  <1>6. Fits(Reads(body, << >>), 0)
    <2>1. Reads(body, << >>) \in Seq(Goals)
      <3>1. << >> \in Path
        BY DEF Path
      <3> QED
        BY <3>1, OptionsTyped, ReadsTyped
    <2>2. Reads(body, << >>) = << Goal("u64", << >>, "modificationTime", 0),
                                  Goal("count", << >>, "functionCount", 0) >>
      BY DEF Reads
    <2>3. \A i \in DOMAIN Reads(body, << >>) :
             /\ Inner(Reads(body, << >>)[i])
             /\ Reads(body, << >>)[i].kind \notin
                   {"objectSize", "callArguments", "push"}
      BY <2>2 DEF Inner, HasCount, Goal
    <2> QED
      BY <2>1, <2>3, FitsFree
  <1> DEFINE more == IF v = 0 THEN << >> ELSE Reads(body, head.path)
  <1>7. Fits(more, 0)
    BY <1>5, <1>6, FitsNothing
  <1>8. agenda' = more \o Tail(agenda)
    BY <1>2
  <1> HIDE DEF more
  <1> QED
    BY <1>1, <1>2, <1>3, <1>4, <1>7, <1>8, SetStep

\* ReadLength sets the size of a string, which is no vector.
LEMMA ReadLengthVectors ==
    VectorInv /\ TypeOK' /\ ReaderBounded' /\ ReadLength => VectorInv'
  <1> SUFFICES ASSUME VectorInv, TypeOK', ReaderBounded', ReadLength
               PROVE  VectorInv'
    OBVIOUS
  <1>1. /\ load = "parsing" /\ agenda # << >> /\ head.kind = "string"
        /\ head.kind \in DOMAIN Width \cup {"payload"}
    BY DEF ReadLength, At, Width
  <1>2. PICK v : /\ v \in Seen(2) /\ Consume(2, v)
                 /\ parsed' = WithSize(parsed, head.path, head.field, v)
                 /\ agenda' = (IF v = 0 THEN << >>
                        ELSE <<Goal("payload", head.path, head.field, v)>>)
                       \o Tail(agenda)
    BY DEF ReadLength
  <1>3. /\ v \in Nat /\ TypeOK /\ IsData(parsed) /\ Matched(parsed)
        /\ IsFiniteSet(DOMAIN parsed.len)
    BY <1>1, <1>2, SeenTyped DEF VectorInv, ParseInv, Finite, TypeOK
  <1>4. inst' = inst /\ load' = load /\ aggregateElements' = aggregateElements
    BY <1>2 DEF Consume, ReadLength
  <1>5. /\ head.field \notin VectorNames /\ head.field \notin DOMAIN Vector
        /\ head.field \notin {"objectCount", "arguments"}
    BY <1>1, <1>3, HeadReads, ObjectsVector
  <1>6. /\ Matched(parsed') /\ IsFiniteSet(DOMAIN parsed'.len)
        /\ Held(parsed') = Held(parsed)
        /\ Value(parsed', << >>, "objectCount") = Value(parsed, << >>, "objectCount")
        /\ Size(parsed', << >>, "objects") = Size(parsed, << >>, "objects")
    <2> DEFINE d == parsed
               path == head.path
               field == head.field
    <2>1. /\ IsData(d) /\ Matched(d) /\ IsFiniteSet(DOMAIN d.len)
          /\ field \notin VectorNames \ {"arguments"} /\ field # "arguments"
          /\ v \in Nat
      BY <1>3, <1>5
    <2>2. parsed' = WithSize(d, path, field, v)
      BY <1>2
    <2> HIDE DEF d, path, field
    <2> DEFINE e == WithSize(d, path, field, v)
    <2>3. /\ Matched(e) /\ IsFiniteSet(DOMAIN e.len)
          /\ Held(e) = IF field = "arguments"
                       THEN Held(d) - Size(d, path, field) + v ELSE Held(d)
          /\ Value(e, << >>, "objectCount") = Value(d, << >>, "objectCount")
          /\ Size(e, << >>, "objects") = Size(d, << >>, "objects")
      BY <2>1, WithSizeIs, Zenon
    <2>4. parsed' = e
      BY <2>2
    <2> HIDE DEF e
    <2> QED
      BY <2>1, <2>3, <2>4 DEF d
  <1> DEFINE g == Goal("payload", head.path, head.field, v)
             more == IF v = 0 THEN << >> ELSE <<g>>
  <1>7. Fits(more, 0)
    <2>1. g \in Goals
      <3>1. head \in Goals /\ <<"string", head.field>> \in Members
        BY <1>1, <1>3, HeadTyped DEF Goals
      <3>2. <<"payload", head.field>> \in Members
        BY <3>1 DEF Members
      <3> QED
        BY <1>3, <3>1, <3>2 DEF Goal, Goals, Kinds
    <2>2. Inner(g) /\ g.kind = "payload" /\ Owed(g) = 0
      <3>1. head.field \notin {"objectCount", "functionCount", "numFunctions"}
        BY <1>5, VectorDomain
      <3> QED
        BY <3>1 DEF Inner, HasCount, Goal, Owed
    <2> HIDE DEF g
    <2>3. Fits(<<g>>, 0)
      BY <2>1, <2>2, FitsOne
    <2> QED
      BY <2>3, FitsNothing
  <1>8. agenda' = more \o Tail(agenda)
    BY <1>2
  <1> HIDE DEF more
  <1>9. Appended = 0 /\ 0 \in Nat /\ Size(parsed, << >>, "objects") \in Nat
    BY <1>1, <1>3, ValueTyped DEF Appended
  <1>10. Held(parsed') + 0 + aggregateElements <=
            Held(parsed) + Owed(head) + aggregateElements' + Appended
    <2>1. Held(parsed) \in Nat /\ Owed(head) \in Nat /\ aggregateElements \in Nat
      BY <1>1, <1>3, HeldTyped, OwingHead DEF TypeOK
    <2> QED
      BY <1>4, <1>6, <1>9, <2>1
  <1>11. Size(parsed', << >>, "objects") = Size(parsed, << >>, "objects") + Appended
    BY <1>6, <1>9
  <1> QED
    BY <1>1, <1>3, <1>4, <1>5, <1>6, <1>7, <1>8, <1>9, <1>10, <1>11, InnerStep

\* ReadCount, but for the objects, sets a count and resizes the vector beside
\* it, and charges as much.
LEMMA ReadCountVectors ==
    /\ VectorInv /\ TypeOK' /\ ReaderBounded' /\ ReadCount
    /\ head.field # "objectCount"
    => VectorInv'
  <1> SUFFICES ASSUME VectorInv, TypeOK', ReaderBounded', ReadCount,
                      head.field # "objectCount"
               PROVE  VectorInv'
    OBVIOUS
  <1> DEFINE c == head.field
             path == head.path
             name == Vector[head.field].name
  <1>1. /\ load = "parsing" /\ agenda # << >> /\ head.kind = "count"
        /\ head.kind \in DOMAIN Width \cup {"payload"}
    BY DEF ReadCount, At, Width
  <1>2. PICK v : /\ v \in Seen(2) /\ Consume(2, v)
                 /\ aggregateElements' = aggregateElements + v
                 /\ parsed' = WithSize(SetValue(parsed, path, c, v), path, name, v)
    BY DEF ReadCount, WithValue, SetValue
  <1>3. /\ v \in Nat /\ TypeOK /\ IsData(parsed) /\ Matched(parsed)
        /\ IsFiniteSet(DOMAIN parsed.len) /\ ObjectsComeLast
    BY <1>1, <1>2, SeenTyped DEF VectorInv, ParseInv, Finite, TypeOK
  <1>4. inst' = inst /\ load' = load
    BY <1>2 DEF Consume
  <1>5. head \in Goals /\ path \in Path /\ c \in DOMAIN Vector
    BY <1>1, <1>3, HeadReads
  <1>6. HasCount(path, c)
    BY <1>1, <1>3, HeadInner DEF Inner
  <1> HIDE DEF c, path, name
  <1>7. Matched(parsed')
    BY <1>2, <1>3, <1>5, <1>6, CountKeepsMatched DEF c, name
  <1> DEFINE e == SetValue(parsed, path, c, v)
  <1>8. /\ IsData(e) /\ e.len = parsed.len
        /\ Value(e, << >>, "objectCount") = Value(parsed, << >>, "objectCount")
        /\ Size(e, << >>, "objects") = Size(parsed, << >>, "objects")
        /\ Size(e, path, name) = Size(parsed, path, name)
    <2>1. IsData(e)
      BY <1>3, SetTyped
    <2>2. e.len = parsed.len
      BY <1>3, PutKeys
    <2>3. c # "objectCount"
      BY DEF c
    <2> QED
      BY <1>3, <2>1, <2>2, <2>3, ValueOfPut
  <1>9. parsed' = WithSize(e, path, name, v)
    BY <1>2
  <1> HIDE DEF e
  <1>10. Held(e) = Held(parsed) /\ IsFiniteSet(DOMAIN e.len)
    BY <1>3, <1>8, HeldOfSizes
  <1>11. name \in VectorNames /\ name # "objects"
    BY <1>5, ObjectsVector DEF name, c
  <1>12. /\ IsFiniteSet(DOMAIN parsed'.len)
         /\ Held(parsed') = Held(parsed) - Size(parsed, path, name) + v
    BY <1>3, <1>8, <1>9, <1>10, <1>11, HeldOfWithSize
  <1>13. /\ Value(parsed', << >>, "objectCount") = Value(parsed, << >>, "objectCount")
         /\ Size(parsed', << >>, "objects") = Size(parsed, << >>, "objects")
    BY <1>8, <1>9, <1>11, ValueOfPut
  <1> DEFINE g == Goal("loop", path, c, 0)
  <1>14. agenda' = <<g>> \o Tail(agenda) /\ <<g>> \in Seq(Goals)
    <2>1. agenda' = <<g>> \o Tail(agenda)
      BY DEF ReadCount, c, path
    <2>2. c \in Fields
      BY <1>5 DEF Goals, c
    <2> QED
      BY <1>5, <2>1, <2>2, GoalTyped
  <1>15. Inner(g) /\ g.kind = "loop" /\ Owed(g) = 0
    BY <1>6 DEF Inner, Goal, Owed, c
  <1> HIDE DEF g
  <1>16. Fits(<<g>>, 0)
    BY <1>14, <1>15, FitsOne
  <1>17. /\ Appended = 0 /\ 0 \in Nat /\ Size(parsed, << >>, "objects") \in Nat
         /\ Size(parsed, path, name) \in Nat
         /\ Held(parsed) \in Nat /\ Owed(head) \in Nat /\ aggregateElements \in Nat
    BY <1>1, <1>3, ValueTyped, HeldTyped, OwingHead DEF Appended, TypeOK
  <1>18. Held(parsed') + 0 + aggregateElements <=
            Held(parsed) + Owed(head) + aggregateElements' + Appended
    BY <1>2, <1>3, <1>12, <1>17
  <1>19. Size(parsed', << >>, "objects") = Size(parsed, << >>, "objects") + Appended
    BY <1>13, <1>17
  <1> QED
    BY <1>1, <1>4, <1>7, <1>12, <1>13, <1>14, <1>16, <1>17, <1>18, <1>19, InnerStep

\* A step that sets nothing and puts only free steps on the agenda.
LEMMA FreeStep ==
    ASSUME VectorInv, TypeOK', ReaderBounded', load = "parsing", agenda # << >>,
           head.field # "objectCount", head.kind # "objectSize",
           NEW more, Fits(more, 0), agenda' = more \o Tail(agenda),
           UNCHANGED <<parsed, aggregateElements, inst, load>>
    PROVE  VectorInv'
  <1>1. /\ TypeOK /\ IsData(parsed) /\ Matched(parsed)
        /\ IsFiniteSet(DOMAIN parsed.len)
    BY DEF VectorInv, ParseInv, Finite, TypeOK
  <1>2. /\ Appended = 0 /\ 0 \in Nat /\ Size(parsed, << >>, "objects") \in Nat
        /\ Held(parsed) \in Nat /\ Owed(head) \in Nat /\ aggregateElements \in Nat
    BY <1>1, ValueTyped, HeldTyped, OwingHead DEF Appended, TypeOK
  <1>3. /\ Held(parsed') = Held(parsed) /\ parsed' = parsed
        /\ aggregateElements' = aggregateElements
    OBVIOUS
  <1>4. Held(parsed') + 0 + aggregateElements <=
           Held(parsed) + Owed(head) + aggregateElements' + Appended
    BY <1>2, <1>3
  <1>5. Size(parsed', << >>, "objects") = Size(parsed, << >>, "objects") + Appended
    BY <1>2, <1>3
  <1>6. /\ Matched(parsed') /\ IsFiniteSet(DOMAIN parsed'.len)
        /\ Value(parsed', << >>, "objectCount") = Value(parsed, << >>, "objectCount")
    BY <1>1, <1>3
  <1> QED
    BY <1>2, <1>4, <1>5, <1>6, InnerStep

\* No element is the PexData itself.
LEMMA ChildIsNotRoot ==
    ASSUME NEW path \in Path, NEW part \in Parts, NEW i \in Nat
    PROVE  Child(path, part, i) # << >>
  <1>1. path \in Seq(Parts \X Nat) /\ <<part, i>> \in Parts \X Nat
    BY DEF Path
  <1> DEFINE S == Parts \X Nat
             x == <<part, i>>
  <1>2. path \in Seq(S) /\ x \in S
    BY <1>1
  <1> HIDE DEF S, x
  <1>3. Len(Append(path, x)) = Len(path) + 1 /\ Len(path) \in Nat
    BY <1>2
  <1>4. Append(path, x) # << >>
    BY <1>3
  <1> QED
    BY <1>4 DEF Child, x

\* A loop, but for that over the objects, reads the next element or ends,
LEMMA NextElementVectors ==
    /\ VectorInv /\ TypeOK' /\ ReaderBounded' /\ NextElement
    /\ head.field # "objectCount"
    => VectorInv'
  <1> SUFFICES ASSUME VectorInv, TypeOK', ReaderBounded', NextElement,
                      head.field # "objectCount"
               PROVE  VectorInv'
    OBVIOUS
  <1> DEFINE i == head.n + 1
             vector == Vector[head.field]
             element == Reads(vector.element, Child(head.path, vector.name, i))
             again == [head EXCEPT !.n = i]
  <1>1. /\ head.kind = "loop" /\ agenda # << >> /\ load = "parsing"
        /\ UNCHANGED <<parsed, aggregateElements, inst, load>>
    BY DEF NextElement, At, reader
  <1>2. /\ TypeOK /\ ObjectsComeLast
        /\ agenda' = element \o <<again>> \o Tail(agenda) \/ agenda' = Tail(agenda)
    BY DEF NextElement, VectorInv, ParseInv
  <1>3. /\ head \in Goals /\ head.field \in DOMAIN Vector /\ head.n \in Nat
        /\ head.path \in Path /\ head.field \in Fields
        /\ head = Goal("loop", head.path, head.field, head.n)
        /\ Tail(agenda) \in Seq(Goals)
    BY <1>1, <1>2, HeadTyped DEF Goals, Goal
  <1>4. Fits(element, 0)
    <2>1. /\ vector.element \in Seq(Reading) /\ vector.name \in Parts /\ i \in Nat
          /\ Quiet(vector.element)
      BY <1>3, VectorTyped, ElementsQuiet
    <2> HIDE DEF vector, i
    <2>2. Child(head.path, vector.name, i) \in Path
      BY <1>3, <2>1, ChildTyped
    <2>3. Child(head.path, vector.name, i) # << >>
      BY <1>3, <2>1, ChildIsNotRoot
    <2> QED
      BY <2>1, <2>2, <2>3, FitsReads
  <1>5. Fits(<<again>>, 0)
    <2>1. again = Goal("loop", head.path, head.field, i)
      BY <1>3 DEF Goal
    <2>2. <<again>> \in Seq(Goals)
      BY <1>3, <2>1, GoalTyped
    <2>3. Inner(head)
      BY <1>1, <1>2, HeadInner
    <2>4. Inner(again) /\ again.kind = "loop" /\ Owed(again) = 0
      BY <2>1, <2>3 DEF Inner, Goal, Owed
    <2> HIDE DEF again
    <2> QED
      BY <2>2, <2>4, FitsOne
  <1> HIDE DEF element, again
  <1>6. Fits(element \o <<again>>, 0)
    BY <1>4, <1>5, FitsConcat
  <1>7. CASE agenda' = element \o <<again>> \o Tail(agenda)
    BY <1>1, <1>6, <1>7, FreeStep
  <1>8. CASE agenda' = Tail(agenda)
    <2>1. agenda' = << >> \o Tail(agenda)
      BY <1>3, <1>8
    <2> QED
      BY <1>1, <2>1, FitsNothing, FreeStep
  <1> QED
    BY <1>2, <1>7, <1>8

\* ... and an object ends.
LEMMA ObjectEndsVectors ==
    VectorInv /\ TypeOK' /\ ReaderBounded' /\ ObjectEnds => VectorInv'
  <1> SUFFICES ASSUME VectorInv, TypeOK', ReaderBounded', ObjectEnds
               PROVE  VectorInv'
    OBVIOUS
  <1>1. /\ head.kind = "objectEnd" /\ agenda # << >> /\ load = "parsing"
        /\ UNCHANGED <<parsed, aggregateElements, inst, load>>
        /\ agenda' = Tail(agenda)
    BY DEF ObjectEnds, At, reader
  <1>2. TypeOK /\ ObjectsComeLast
    BY DEF VectorInv, ParseInv
  <1>3. head.field # "objectCount"
    BY <1>1, <1>2, HeadOfOthers
  <1>4. agenda' = << >> \o Tail(agenda)
    BY <1>1, <1>2, HeadTyped
  <1> QED
    BY <1>1, <1>3, <1>4, FitsNothing, FreeStep

\* The size of an object: the object is appended, as the loop announced.
LEMMA ReadObjectSizeVectors ==
    VectorInv /\ TypeOK' /\ ReaderBounded' /\ ReadObjectSize => VectorInv'
  <1> SUFFICES ASSUME VectorInv, TypeOK', ReaderBounded', ReadObjectSize
               PROVE  VectorInv'
    OBVIOUS
  <1> DEFINE n == Size(parsed, << >>, "objects")
             data == Reads(ReadObjectData, head.path)
             end(v) == Goal("objectEnd", head.path, "size", position + 4 + (v - 4))
  <1>1. /\ load = "parsing" /\ agenda # << >> /\ head.kind = "objectSize"
        /\ head.kind \in DOMAIN Width \cup {"payload"}
    BY DEF ReadObjectSize, At, Width
  <1>2. PICK v : /\ v \in Seen(4) /\ Consume(4, v)
                 /\ parsed' = WithSize(SetValue(parsed, head.path, head.field, v),
                                       << >>, "objects", n + 1)
                 /\ agenda' = data \o <<end(v)>> \o Tail(agenda)
    BY DEF ReadObjectSize, WithValue, SetValue
  <1>3. /\ v \in Nat /\ TypeOK /\ IsData(parsed) /\ Matched(parsed)
        /\ IsFiniteSet(DOMAIN parsed.len)
    BY <1>1, <1>2, SeenTyped DEF VectorInv, ParseInv, Finite, TypeOK
  <1>4. inst' = inst /\ load' = load /\ aggregateElements' = aggregateElements
    BY <1>2 DEF Consume, ReadObjectSize
  <1>5. head.path \in Path /\ head.field \notin DOMAIN Vector
    BY <1>1, <1>3, HeadReads
  <1>6. n \in Nat /\ n + 1 \in Nat
    BY <1>3, ValueTyped
  <1>7. Fits(data, 0)
    BY <1>5, ObjectDataTyped, TablesQuiet, FitsReads
  <1>8. Fits(<<end(v)>>, 0)
    <2>1. "size" \in Fields
      <3>1. <<"objectSize", "size">> \in Members
        BY DEF Members
      <3> QED
        BY <3>1 DEF Fields
    <2>2. position + 4 + (v - 4) \in Nat
      <3>1. position \in Nat /\ v \in Nat
        BY <1>3 DEF TypeOK
      <3> DEFINE p == position
      <3>2. p \in Nat /\ v \in Nat
        BY <3>1
      <3> HIDE DEF p
      <3>3. p + 4 + (v - 4) \in Nat
        BY <3>2
      <3> QED
        BY <3>3 DEF p
    <2>3. <<end(v)>> \in Seq(Goals)
      BY <1>5, <2>1, <2>2, GoalTyped
    <2>4. Inner(end(v)) /\ end(v).kind = "objectEnd" /\ Owed(end(v)) = 0
      BY DEF Inner, HasCount, Goal, Owed
    <2> HIDE DEF end
    <2> QED
      BY <2>3, <2>4, FitsOne
  <1> HIDE DEF n, data, end
  <1>9. Fits(data \o <<end(v)>>, 0)
    BY <1>7, <1>8, FitsConcat
  <1> DEFINE e == SetValue(parsed, head.path, head.field, v)
  <1>10. /\ IsData(e) /\ Matched(e) /\ IsFiniteSet(DOMAIN e.len)
         /\ Held(e) = Held(parsed)
         /\ Value(e, << >>, "objectCount") = Value(parsed, << >>, "objectCount")
         /\ Size(e, << >>, "objects") = n
    <2>1. \A path, field : field \notin DOMAIN Vector =>
             LET x == SetValue(parsed, path, field, v)
             IN  /\ IsData(x) /\ Matched(x) /\ IsFiniteSet(DOMAIN x.len)
                 /\ Held(x) = Held(parsed)
                 /\ Value(x, << >>, "objectCount") = Value(parsed, << >>, "objectCount")
                 /\ \A p, f : Size(x, p, f) = Size(parsed, p, f)
      BY <1>3, WithValueIs
    <2>2. /\ IsData(e) /\ Matched(e) /\ IsFiniteSet(DOMAIN e.len)
          /\ Held(e) = Held(parsed)
          /\ Value(e, << >>, "objectCount") = Value(parsed, << >>, "objectCount")
          /\ \A p, f : Size(e, p, f) = Size(parsed, p, f)
      BY <1>5, <2>1
    <2> HIDE DEF e
    <2> QED
      BY <2>2 DEF n
  <1>11. parsed' = WithSize(e, << >>, "objects", n + 1)
    BY <1>2
  <1> HIDE DEF e
  <1>12. Matched(parsed')
    BY <1>10, <1>11, ObjectsKeepMatched
  <1>13. /\ IsFiniteSet(DOMAIN parsed'.len)
         /\ Held(parsed') = Held(e) - Size(e, << >>, "objects") + (n + 1)
    BY <1>6, <1>10, <1>11, HeldOfWithSize, ObjectsVector
  <1>14. /\ Value(parsed', << >>, "objectCount") = Value(parsed, << >>, "objectCount")
         /\ Size(parsed', << >>, "objects") = n + 1
    BY <1>10, <1>11, ValueOfPut
  <1>15. /\ Appended = 1 /\ 0 \in Nat
         /\ Held(parsed) \in Nat /\ Owed(head) = 0 /\ aggregateElements \in Nat
    BY <1>1, <1>3, HeldTyped DEF Appended, TypeOK, Owed
  <1>16. Held(parsed') + 0 + aggregateElements <=
            Held(parsed) + Owed(head) + aggregateElements' + Appended
    BY <1>4, <1>6, <1>10, <1>13, <1>15
  <1>17. Size(parsed', << >>, "objects") = Size(parsed, << >>, "objects") + Appended
    BY <1>14, <1>15 DEF n
  <1>18. head.field # "objectCount"
    BY <1>5, ObjectsVector
  <1> QED
    BY <1>1, <1>2, <1>4, <1>9, <1>12, <1>13, <1>14, <1>15, <1>16, <1>17, <1>18,
       InnerStep

-----------------------------------------------------------------------------
(* Arguments *)

\* ReadOpcode charges the header arguments, which it holds at once unless the
\* instruction is a call, whose arguments the agenda owes.
LEMMA ReadOpcodeVectors ==
    VectorInv /\ TypeOK' /\ ReaderBounded' /\ ReadOpcode => VectorInv'
  <1> SUFFICES ASSUME VectorInv, TypeOK', ReaderBounded', ReadOpcode
               PROVE  VectorInv'
    OBVIOUS
  <1>1. /\ load = "parsing" /\ agenda # << >> /\ head.kind = "opcode"
        /\ head.kind \in DOMAIN Width \cup {"payload"}
    BY DEF ReadOpcode, At, Width
  <1>2. PICK v :
          /\ v \in Seen(1) /\ Consume(1, v)
          /\ aggregateElements' = aggregateElements + HeaderArgumentCount(v)
          /\ parsed' = WithSize(SetValue(parsed, head.path, head.field, v),
                               head.path, "arguments",
                               IF v \in Calls THEN 0 ELSE HeaderArgumentCount(v))
          /\ agenda' = [i \in 1..HeaderArgumentCount(v) |->
                            ReadArgument(head.path, i)]
                       \o (IF v \in Calls
                           THEN <<Goal("callArguments", head.path, "op",
                                       HeaderArgumentCount(v))>>
                           ELSE << >>)
                       \o Tail(agenda)
    BY DEF ReadOpcode, WithValue, SetValue
  <1> DEFINE n == HeaderArgumentCount(v)
             held == IF v \in Calls THEN 0 ELSE n
             owed == IF v \in Calls THEN n ELSE 0
             a == [i \in 1..n |-> ReadArgument(head.path, i)]
             g == Goal("callArguments", head.path, "op", n)
             b == IF v \in Calls THEN <<g>> ELSE << >>
             e == SetValue(parsed, head.path, head.field, v)
  <1>3. /\ v \in Nat /\ TypeOK /\ IsData(parsed) /\ Matched(parsed)
        /\ IsFiniteSet(DOMAIN parsed.len) /\ n \in Nat
    BY <1>1, <1>2, SeenTyped, HeaderTyped DEF VectorInv, ParseInv, Finite, TypeOK
  <1>4. inst' = inst /\ load' = load
    BY <1>2 DEF Consume
  <1>5. head.path \in Path /\ head.field \notin DOMAIN Vector
    BY <1>1, <1>3, HeadReads
  <1>6. /\ aggregateElements' = aggregateElements + n
        /\ parsed' = WithSize(e, head.path, "arguments", held)
        /\ agenda' = a \o b \o Tail(agenda)
    BY <1>2
  <1> HIDE DEF n
  <1>7. held \in Nat /\ owed \in Nat /\ held + owed = n
    BY <1>3
  <1>8. Fits(a, 0)
    BY <1>3, <1>5, FitsArguments
  <1>9. Fits(b, owed)
    <2>1. "op" \in Fields
      <3>1. <<"opcode", "op">> \in Members
        BY DEF Members
      <3> QED
        BY <3>1 DEF Fields
    <2>2. <<g>> \in Seq(Goals)
      BY <1>3, <1>5, <2>1, GoalTyped
    <2>3. Inner(g) /\ g.kind = "callArguments" /\ Owed(g) = n
      BY DEF Inner, HasCount, Goal, Owed
    <2> HIDE DEF g
    <2>4. Fits(<<g>>, n)
      BY <2>2, <2>3, FitsOne
    <2> QED
      BY <2>4, FitsNothing
  <1> HIDE DEF a, b
  <1>10. Fits(a \o b, owed)
    <2> HIDE DEF owed
    <2>1. Fits(a \o b, 0 + owed)
      BY <1>8, <1>9, FitsConcat
    <2> QED
      BY <1>7, <2>1
  <1>11. /\ IsData(e) /\ Matched(e) /\ IsFiniteSet(DOMAIN e.len)
         /\ Held(e) = Held(parsed)
         /\ Value(e, << >>, "objectCount") = Value(parsed, << >>, "objectCount")
         /\ \A p, f : Size(e, p, f) = Size(parsed, p, f)
    BY <1>3, <1>5, WithValueIs
  <1> HIDE DEF e, held, owed
  <1>12. /\ Matched(parsed') /\ IsFiniteSet(DOMAIN parsed'.len)
         /\ Held(parsed') = Held(e) - Size(e, head.path, "arguments") + held
         /\ Value(parsed', << >>, "objectCount") = Value(e, << >>, "objectCount")
         /\ Size(parsed', << >>, "objects") = Size(e, << >>, "objects")
    BY <1>6, <1>7, <1>11, WithSizeIs
  <1>13. /\ Appended = 0
         /\ Held(parsed) \in Nat /\ Owed(head) = 0 /\ aggregateElements \in Nat
         /\ Size(e, head.path, "arguments") \in Nat
         /\ Size(parsed, << >>, "objects") \in Nat
    BY <1>1, <1>3, <1>11, HeldTyped, ValueTyped DEF Appended, TypeOK, Owed
  <1>14. Held(parsed') + owed + aggregateElements <=
            Held(parsed) + Owed(head) + aggregateElements' + Appended
    BY <1>3, <1>6, <1>7, <1>11, <1>12, <1>13
  <1>15. /\ Size(parsed', << >>, "objects") = Size(parsed, << >>, "objects") + Appended
         /\ Value(parsed', << >>, "objectCount") = Value(parsed, << >>, "objectCount")
    BY <1>11, <1>12, <1>13
  <1>16. head.field # "objectCount"
    BY <1>5, ObjectsVector
  <1> QED
    BY <1>1, <1>4, <1>6, <1>7, <1>10, <1>12, <1>14, <1>15, <1>16, InnerStep

\* A call pays with them, and charges the further arguments, which the agenda
\* owes from then on,
LEMMA ReadCallArgumentsVectors ==
    VectorInv /\ TypeOK' /\ ReaderBounded' /\ ReadCallArguments => VectorInv'
  <1> SUFFICES ASSUME VectorInv, TypeOK', ReaderBounded', ReadCallArguments
               PROVE  VectorInv'
    OBVIOUS
  <1> DEFINE n == head.n
             count == Signed(Value(parsed, CallArgument, "int32"))
             further == [i \in 1..(2 * count) |->
                           IF i % 2 = 1
                           THEN ReadArgument(head.path, n + (i + 1) \div 2)
                           ELSE Goal("push", head.path, "arguments", 0)]
  <1>1. /\ load = "parsing" /\ agenda # << >> /\ head.kind = "callArguments"
        /\ ~CallArgumentCountIsInvalid /\ inst' = inst /\ load' = load
        /\ aggregateElements' = aggregateElements + count
        /\ parsed' = WithSize(parsed, head.path, "arguments", n)
        /\ agenda' = further \o Tail(agenda)
    BY DEF ReadCallArguments, At
  <1>2. /\ TypeOK /\ IsData(parsed) /\ Matched(parsed)
        /\ IsFiniteSet(DOMAIN parsed.len) /\ ObjectsComeLast
    BY DEF VectorInv, ParseInv, Finite, TypeOK
  <1>3. head.path \in Path /\ n \in Nat /\ count \in Nat
    BY <1>1, <1>2, CountTyped, HeadTyped DEF Goals
  <1> HIDE DEF count
  <1>4. Fits(further, count)
    BY <1>3, FitsFurther
  <1> HIDE DEF further
  <1>5. Owed(head) = n
    BY <1>1 DEF Owed
  <1> HIDE DEF n
  <1>6. /\ Matched(parsed') /\ IsFiniteSet(DOMAIN parsed'.len)
        /\ Held(parsed') = Held(parsed) - Size(parsed, head.path, "arguments") + n
        /\ Value(parsed', << >>, "objectCount") = Value(parsed, << >>, "objectCount")
        /\ Size(parsed', << >>, "objects") = Size(parsed, << >>, "objects")
    <2> DEFINE d == parsed
               path == head.path
    <2>1. /\ IsData(d) /\ Matched(d) /\ IsFiniteSet(DOMAIN d.len)
          /\ "arguments" \notin VectorNames \ {"arguments"} /\ n \in Nat
      BY <1>2, <1>3
    <2>2. parsed' = WithSize(d, path, "arguments", n)
      BY <1>1
    <2> HIDE DEF d, path
    <2> DEFINE e == WithSize(d, path, "arguments", n)
    <2>3. /\ Matched(e) /\ IsFiniteSet(DOMAIN e.len)
          /\ Held(e) = Held(d) - Size(d, path, "arguments") + n
          /\ Value(e, << >>, "objectCount") = Value(d, << >>, "objectCount")
          /\ Size(e, << >>, "objects") = Size(d, << >>, "objects")
      BY <2>1, WithSizeIs
    <2>4. parsed' = e
      BY <2>2
    <2> HIDE DEF e
    <2> QED
      BY <2>3, <2>4 DEF d, path
  <1>7. /\ Appended = 0 /\ Held(parsed) \in Nat /\ aggregateElements \in Nat
        /\ Size(parsed, head.path, "arguments") \in Nat
        /\ Size(parsed, << >>, "objects") \in Nat
    BY <1>1, <1>2, HeldTyped, ValueTyped DEF Appended, TypeOK
  <1>8. Held(parsed') + count + aggregateElements <=
           Held(parsed) + Owed(head) + aggregateElements' + Appended
    BY <1>1, <1>3, <1>5, <1>6, <1>7
  <1>9. Size(parsed', << >>, "objects") = Size(parsed, << >>, "objects") + Appended
    BY <1>6, <1>7
  <1>10. head.field # "objectCount"
    BY <1>1, <1>2, HeadOfOthers
  <1> QED
    BY <1>1, <1>3, <1>4, <1>6, <1>8, <1>9, <1>10, InnerStep

\* ... until each is pushed.
LEMMA PushArgumentVectors ==
    VectorInv /\ TypeOK' /\ ReaderBounded' /\ PushArgument => VectorInv'
  <1> SUFFICES ASSUME VectorInv, TypeOK', ReaderBounded', PushArgument
               PROVE  VectorInv'
    OBVIOUS
  <1> DEFINE n == Size(parsed, head.path, "arguments")
  <1>1. /\ load = "parsing" /\ agenda # << >> /\ head.kind = "push"
        /\ inst' = inst /\ load' = load
        /\ aggregateElements' = aggregateElements
        /\ parsed' = WithSize(parsed, head.path, "arguments", n + 1)
        /\ agenda' = Tail(agenda)
    BY DEF PushArgument, At, reader
  <1>2. /\ TypeOK /\ IsData(parsed) /\ Matched(parsed)
        /\ IsFiniteSet(DOMAIN parsed.len) /\ ObjectsComeLast
    BY DEF VectorInv, ParseInv, Finite, TypeOK
  <1>3. /\ Appended = 0 /\ Held(parsed) \in Nat /\ aggregateElements \in Nat
        /\ n \in Nat /\ n + 1 \in Nat /\ Size(parsed, << >>, "objects") \in Nat
        /\ Owed(head) = 1 /\ 0 \in Nat
    BY <1>1, <1>2, HeldTyped, ValueTyped DEF Appended, TypeOK, Owed
  <1>4. agenda' = << >> \o Tail(agenda)
    BY <1>1, <1>2, HeadTyped
  <1>5. /\ Matched(parsed') /\ IsFiniteSet(DOMAIN parsed'.len)
        /\ Held(parsed') = Held(parsed) - n + (n + 1)
        /\ Value(parsed', << >>, "objectCount") = Value(parsed, << >>, "objectCount")
        /\ Size(parsed', << >>, "objects") = Size(parsed, << >>, "objects")
    BY <1>1, <1>2, <1>3, WithSizeIs
  <1> HIDE DEF n
  <1>6. Held(parsed') + 0 + aggregateElements <=
           Held(parsed) + Owed(head) + aggregateElements' + Appended
    BY <1>1, <1>3, <1>5
  <1>7. Size(parsed', << >>, "objects") = Size(parsed, << >>, "objects") + Appended
    BY <1>3, <1>5
  <1>8. head.field # "objectCount"
    BY <1>1, <1>2, HeadOfOthers
  <1> QED
    BY <1>1, <1>3, <1>4, <1>5, <1>6, <1>7, <1>8, FitsNothing, InnerStep

-----------------------------------------------------------------------------
(* The objects *)

\* Nothing is left to do after the last step,
LEMMA NothingAfterLast ==
    ASSUME TypeOK, agenda # << >>, Len(agenda) = 1
    PROVE  Tail(agenda) = << >>
  <1>1. Tail(agenda) \in Seq(Goals)
    BY HeadTyped
  <1>2. Len(Tail(agenda)) = 0
    BY HeadIs
  <1> DEFINE rest == Tail(agenda)
  <1>3. rest \in Seq(Goals) /\ Len(rest) = 0
    BY <1>1, <1>2
  <1> HIDE DEF rest
  <1>4. rest = << >>
    BY <1>3, EmptySeq
  <1> QED
    BY <1>4 DEF rest

\* ... which may become one step, or three.
LEMMA ThreeSteps ==
    ASSUME NEW a, NEW b, NEW c
    PROVE  /\ <<a>> \o << >> = <<a>>
           /\ <<a, b>> \o <<c>> \o << >> = <<a, b, c>>
  <1> DEFINE S == {a, b, c}
  <1>1. <<a>> \in Seq(S) /\ <<a, b>> \in Seq(S) /\ <<c>> \in Seq(S)
    OBVIOUS
  <1>2. <<a>> \o << >> = <<a>>
    BY <1>1
  <1>3. <<a, b>> \o <<c>> = <<a, b, c>>
    <2>1. /\ <<a, b>> \o <<c>> \in Seq(S) /\ Len(<<a, b>> \o <<c>>) = 3
          /\ (<<a, b>> \o <<c>>)[1] = a /\ (<<a, b>> \o <<c>>)[2] = b
          /\ (<<a, b>> \o <<c>>)[3] = c
      BY <1>1
    <2>2. /\ <<a, b, c>> \in Seq(S) /\ Len(<<a, b, c>>) = 3
          /\ <<a, b, c>>[1] = a /\ <<a, b, c>>[2] = b /\ <<a, b, c>>[3] = c
      OBVIOUS
    <2> DEFINE s == <<a, b>> \o <<c>>
               t == <<a, b, c>>
    <2>3. /\ s \in Seq(S) /\ t \in Seq(S) /\ Len(s) = 3 /\ Len(t) = 3
          /\ s[1] = t[1] /\ s[2] = t[2] /\ s[3] = t[3]
      BY <2>1, <2>2
    <2> HIDE DEF s, t, S
    <2>4. \A i \in 1..3 : s[i] = t[i]
      BY <2>3
    <2>5. s = t
      BY <2>3, <2>4, SeqEqual
    <2> QED
      BY <2>5 DEF s, t
  <1>4. <<a, b, c>> \in Seq(S)
    OBVIOUS
  <1> HIDE DEF S
  <1>5. <<a, b, c>> \o << >> = <<a, b, c>>
    BY <1>4
  <1> QED
    BY <1>2, <1>3, <1>5

\* The count of the objects: they are announced, and charged.
LEMMA ObjectCountVectors ==
    /\ VectorInv /\ TypeOK' /\ ReaderBounded' /\ ReadCount
    /\ head.field = "objectCount"
    => VectorInv'
  <1> SUFFICES ASSUME VectorInv, TypeOK', ReaderBounded', ReadCount,
                      head.field = "objectCount"
               PROVE  VectorInv'
    OBVIOUS
  <1>1. /\ load = "parsing" /\ agenda # << >> /\ head.kind = "count"
        /\ head.kind \in DOMAIN Width \cup {"payload"}
    BY DEF ReadCount, At, Width
  <1>2. /\ TypeOK /\ IsData(parsed) /\ Matched(parsed) /\ ParseInv
        /\ IsFiniteSet(DOMAIN parsed.len) /\ ObjectsComeLast /\ ObjectsCounted
    BY DEF VectorInv, ParseInv, Finite, TypeOK
  <1>3. Len(agenda) = 1 /\ head = LastGoal
    BY <1>1, <1>2, HeadOfOthers
  <1>4. /\ LastGoal.kind = "count" /\ head.path = << >>
        /\ Value(parsed, << >>, "objectCount") = 0
        /\ Size(parsed, << >>, "objects") = 0
    BY <1>1, <1>2, <1>3 DEF ObjectsComeLast, ObjectsCounted
  <1> DEFINE g == Goal("loop", << >>, "objectCount", 0)
  <1>5. PICK v : /\ v \in Seen(2) /\ Consume(2, v)
                 /\ aggregateElements' = aggregateElements + v
                 /\ parsed' = WithSize(SetValue(parsed, << >>, "objectCount", v),
                                      << >>, "objects", 0)
    BY <1>4, ObjectsVector DEF ReadCount, WithValue, SetValue
  <1>6. v \in Nat /\ inst' = inst /\ load' = load
    BY <1>1, <1>2, <1>5, SeenTyped DEF Consume
  <1>7. agenda' = <<g>>
    <2>1. agenda' = <<g>> \o Tail(agenda)
      BY <1>4 DEF ReadCount
    <2>2. Tail(agenda) = << >>
      BY <1>1, <1>2, <1>3, NothingAfterLast
    <2> HIDE DEF g
    <2> QED
      BY <2>1, <2>2, ThreeSteps
  <1> DEFINE e == SetValue(parsed, << >>, "objectCount", v)
  <1>8. /\ IsData(e) /\ Matched(e) /\ e.len = parsed.len
        /\ Value(e, << >>, "objectCount") = v /\ Size(e, << >>, "objects") = 0
    <2>1. IsData(e)
      BY <1>2, <1>6, SetTyped
    <2>2. e.len = parsed.len
      BY <1>2, PutKeys
    <2> QED
      BY <1>2, <1>4, <2>1, <2>2, ObjectsKeepMatched, ValueOfPut
  <1>9. parsed' = WithSize(e, << >>, "objects", 0)
    BY <1>5
  <1> HIDE DEF e
  <1>10. Held(e) = Held(parsed) /\ IsFiniteSet(DOMAIN e.len)
    BY <1>2, <1>8, HeldOfSizes
  <1>11. /\ Matched(parsed') /\ IsFiniteSet(DOMAIN parsed'.len)
         /\ Held(parsed') = Held(e) - Size(e, << >>, "objects") + 0
         /\ Value(parsed', << >>, "objectCount") = v
         /\ Size(parsed', << >>, "objects") = 0
    BY <1>8, <1>9, <1>10, ObjectsKeepMatched, HeldOfWithSize, ValueOfPut,
       ObjectsVector
  <1>12. ObjectsComeLast' /\ LastGoal' = g /\ Announced' = 0
    <2>1. Len(agenda') = 1 /\ agenda'[1] = g
      BY <1>7
    <2>2. g.kind = "loop" /\ g.field = "objectCount" /\ g.path = << >> /\ g.n = 0
      BY DEF Goal
    <2> HIDE DEF g
    <2>3. LastGoal' = g
      BY <2>1 DEF LastGoal
    <2>4. 1..(Len(agenda') - 1) = {}
      BY <2>1
    <2> QED
      BY <2>2, <2>3, <2>4 DEF ObjectsComeLast, Announced
  <1>13. ObjectsCounted'
    <2>1. /\ g.kind = "loop" /\ g.n = 0 /\ agenda' # << >>
      BY <1>7 DEF Goal
    <2> HIDE DEF g
    <2> QED
      BY <1>6, <1>11, <1>12, <2>1 DEF ObjectsCounted
  <1>14. ChargedFor'
    <2>1. Owing(agenda') = 0 /\ Owing(agenda) \in Nat
      <3>1. agenda' \in Seq(Goals)
        BY DEF TypeOK
      <3>2. \A i \in DOMAIN agenda' : agenda'[i].kind \notin {"callArguments", "push"}
        BY <1>7 DEF Goal
      <3> QED
        BY <1>2, <3>1, <3>2, OwingFree, OwedTyped DEF TypeOK
    <2>2. Held(parsed) + Owing(agenda) + ObjectsToCome <= aggregateElements
      BY <1>2 DEF ParseInv, ChargedFor
    <2>3. Held(parsed) \in Nat /\ aggregateElements \in Nat
      BY <1>2, HeldTyped DEF TypeOK
    <2>4. ObjectsToCome = 0 /\ ObjectsToCome' = v
      BY <1>4, <1>6, <1>11 DEF ObjectsToCome
    <2>5. Held(parsed') = Held(parsed)
      BY <1>8, <1>10, <1>11, <2>3
    <2>6. Held(parsed') + Owing(agenda') + ObjectsToCome' <= aggregateElements'
      BY <1>5, <1>6, <2>1, <2>2, <2>3, <2>4, <2>5
    <2> QED
      BY <2>6 DEF ChargedFor
  <1>15. ParseInv'
    BY <1>1, <1>2, <1>6, <1>11, <1>12, <1>13, <1>14
       DEF ParseInv, NothingRuns, Finite
  <1> QED
    BY <1>6, <1>15 DEF VectorInv, CountsMatchVectors

\* The loop over the objects: one more is announced, or all are there.
LEMMA NextObjectVectors ==
    /\ VectorInv /\ TypeOK' /\ ReaderBounded' /\ NextElement
    /\ head.field = "objectCount"
    => VectorInv'
  <1> SUFFICES ASSUME VectorInv, TypeOK', ReaderBounded', NextElement,
                      head.field = "objectCount"
               PROVE  VectorInv'
    OBVIOUS
  <1> DEFINE n == head.n
             path == Child(<< >>, "objects", n + 1)
             name == Goal("u16", path, "nameIndex", 0)
             bytes == Goal("objectSize", path, "size", 0)
             again == Goal("loop", << >>, "objectCount", n + 1)
  <1>1. /\ load = "parsing" /\ agenda # << >> /\ head.kind = "loop"
        /\ UNCHANGED <<parsed, aggregateElements, inst, load>>
    BY DEF NextElement, At, reader
  <1>2. /\ TypeOK /\ IsData(parsed) /\ Matched(parsed) /\ ParseInv
        /\ IsFiniteSet(DOMAIN parsed.len) /\ ObjectsComeLast /\ ObjectsCounted
    BY DEF VectorInv, ParseInv, Finite, TypeOK
  <1>3. Len(agenda) = 1 /\ head = LastGoal
    BY <1>1, <1>2, HeadOfOthers
  <1>4. head.path = << >> /\ LastGoal.kind = "loop"
    BY <1>1, <1>2, <1>3 DEF ObjectsComeLast
  <1>5. head = Goal("loop", << >>, "objectCount", n) /\ n \in Nat
    BY <1>1, <1>2, <1>4, HeadTyped DEF Goals, Goal
  <1>6. Announced = 0
    BY <1>3 DEF Announced
  <1>7. /\ n <= Value(parsed, << >>, "objectCount")
        /\ n = Size(parsed, << >>, "objects")
        /\ Value(parsed, << >>, "objectCount") \in Nat
    <2>1. Size(parsed, << >>, "objects") \in Nat /\ Value(parsed, << >>, "objectCount") \in Nat
      BY <1>2, ValueTyped
    <2> QED
      BY <1>1, <1>2, <1>3, <1>4, <1>6, <2>1 DEF ObjectsCounted
  <1>8. agenda' = IF n < Value(parsed, << >>, "objectCount")
                  THEN <<name, bytes, again>> ELSE << >>
    <2>1. Tail(agenda) = << >>
      BY <1>1, <1>2, <1>3, NothingAfterLast
    <2>2. Reads(Vector["objectCount"].element, path) = <<name, bytes>>
      <3>1. Vector["objectCount"].element =
               << <<"u16", "nameIndex">>, <<"objectSize", "size">> >>
        BY DEF Vector
      <3> HIDE DEF path
      <3> QED
        BY <3>1 DEF Reads
    <2>3. [head EXCEPT !.n = n + 1] = again
      BY <1>5 DEF Goal
    <2>4. Vector["objectCount"].name = "objects"
      BY ObjectsVector
    <2>5. agenda' = IF n < Value(parsed, << >>, "objectCount")
                    THEN <<name, bytes>> \o <<again>> \o << >> ELSE << >>
      BY <1>4, <2>1, <2>2, <2>3, <2>4 DEF NextElement
    <2> HIDE DEF name, bytes, again
    <2> QED
      BY <2>5, ThreeSteps
  <1>9. Owing(agenda') = 0 /\ Owing(agenda) \in Nat
    <2>1. agenda' \in Seq(Goals)
      BY DEF TypeOK
    <2>2. \A i \in DOMAIN agenda' : agenda'[i].kind \notin {"callArguments", "push"}
      BY <1>8 DEF Goal
    <2> QED
      BY <1>2, <2>1, <2>2, OwingFree, OwedTyped DEF TypeOK
  <1>10. ChargedFor'
    <2>1. Held(parsed) + Owing(agenda) + ObjectsToCome <= aggregateElements
      BY <1>2 DEF ParseInv, ChargedFor
    <2>2. Held(parsed) \in Nat /\ aggregateElements \in Nat /\ ObjectsToCome \in Int
      BY <1>2, <1>5, <1>7, HeldTyped DEF TypeOK, ObjectsToCome
    <2>3. /\ Held(parsed') = Held(parsed) /\ ObjectsToCome' = ObjectsToCome
          /\ aggregateElements' = aggregateElements
      BY <1>1 DEF ObjectsToCome
    <2>4. Held(parsed') + Owing(agenda') + ObjectsToCome' <= aggregateElements'
      BY <1>9, <2>1, <2>2, <2>3
    <2> QED
      BY <2>4 DEF ChargedFor
  <1>11. ObjectsComeLast' /\ ObjectsCounted'
    <2>1. CASE n < Value(parsed, << >>, "objectCount")
      <3>1. /\ Len(agenda') = 3 /\ agenda' # << >>
            /\ agenda'[1] = name /\ agenda'[2] = bytes /\ agenda'[3] = again
        BY <1>8, <2>1
      <3>2. /\ again.kind = "loop" /\ again.field = "objectCount"
            /\ again.path = << >> /\ again.n = n + 1
            /\ Inner(name) /\ name.kind = "u16"
            /\ Inner(bytes) /\ bytes.kind = "objectSize"
        BY DEF Goal, Inner, HasCount
      <3> HIDE DEF name, bytes, again
      <3>3. LastGoal' = again
        BY <3>1 DEF LastGoal
      <3>4. /\ \A i \in 1..(Len(agenda') - 1) :
                  \/ i = 1 /\ agenda'[i] = name
                  \/ i = 2 /\ agenda'[i] = bytes
            /\ 2 \in 1..(Len(agenda') - 1) /\ 2 = Len(agenda') - 1
        BY <3>1
      <3>5. ObjectsComeLast'
        BY <3>2, <3>3, <3>4 DEF ObjectsComeLast, Inner, HasCount
      <3>6. Announced' = 1
        BY <3>1, <3>2, <3>4 DEF Announced
      <3>7. ObjectsCounted'
        <4>1. /\ n + 1 <= Value(parsed, << >>, "objectCount")
              /\ n + 1 = Size(parsed, << >>, "objects") + 1
          BY <1>5, <1>7, <2>1
        <4> QED
          BY <1>1, <3>1, <3>2, <3>3, <3>6, <4>1 DEF ObjectsCounted
      <3> QED
        BY <3>5, <3>7
    <2>2. CASE ~(n < Value(parsed, << >>, "objectCount"))
      <3>1. agenda' = << >>
        BY <1>8, <2>2
      <3>2. ObjectsToCome' = 0
        BY <1>1, <1>5, <1>7, <2>2 DEF ObjectsToCome
      <3> QED
        BY <3>1, <3>2 DEF ObjectsComeLast, ObjectsCounted
    <2> QED
      BY <2>1, <2>2
  <1>12. ParseInv'
    BY <1>1, <1>2, <1>10, <1>11 DEF ParseInv, NothingRuns, Finite
  <1> QED
    BY <1>1, <1>12 DEF VectorInv, CountsMatchVectors

-----------------------------------------------------------------------------
(* The beginning and the end of a call *)

\* While nothing runs there is nothing to count.
LEMMA Resting ==
    /\ agenda = << >> /\ parsed = EmptyData /\ aggregateElements = 0
    /\ IsFiniteSet(DOMAIN inst.len)
    => ParseInv
  <1> SUFFICES ASSUME agenda = << >>, parsed = EmptyData,
                      aggregateElements = 0, IsFiniteSet(DOMAIN inst.len)
               PROVE  ParseInv
    OBVIOUS
  <1>1. Held(parsed) = 0 /\ IsFiniteSet(DOMAIN parsed.len)
    BY HeldOfNothing
  <1>2. /\ DOMAIN parsed.val = {} /\ DOMAIN parsed.len = {}
        /\ Value(parsed, << >>, "objectCount") = 0
        /\ Size(parsed, << >>, "objects") = 0
    BY DEF EmptyData, Value, Size
  <1>3. Matched(parsed)
    BY <1>2 DEF Matched
  <1>4. ObjectsToCome = 0
    BY <1>2 DEF ObjectsToCome
  <1>5. Owing(agenda) = 0
    BY FitsNothing DEF Fits
  <1>6. ChargedFor
    BY <1>1, <1>4, <1>5 DEF ChargedFor
  <1> QED
    BY <1>1, <1>3, <1>4, <1>6
       DEF ParseInv, NothingRuns, Finite, ObjectsComeLast, ObjectsCounted

\* A new instance holds nothing, and nothing runs.
LEMMA InitVectors == Init => VectorInv
  <1> SUFFICES ASSUME Init PROVE VectorInv
    OBVIOUS
  <1>1. TypeOK /\ ReaderBounded
    BY InitTyped, InitBounded
  <1>2. /\ agenda = << >> /\ parsed = EmptyData /\ aggregateElements = 0
        /\ inst = EmptyData
    BY DEF Init, NoCall
  <1>3. Held(inst) = 0 /\ IsFiniteSet(DOMAIN inst.len)
    BY <1>2, HeldOfNothing
  <1>4. ParseInv
    BY <1>2, <1>3, Resting
  <1>5. CountsMatchVectors
    BY <1>2 DEF CountsMatchVectors, EmptyData
  <1> QED
    BY <1>1, <1>3, <1>4, <1>5, LimitsAssumption DEF VectorInv

\* A call that ends leaves the invariant, whatever it leaves in the instance
\* being in order.
LEMMA EndCallVectors ==
    ASSUME TypeOK', ReaderBounded', NEW outcome, EndCall(outcome),
           IsFiniteSet(DOMAIN inst'.len), Held(inst') <= MaxAggregateElements,
           CountsMatchVectors'
    PROVE  VectorInv'
  <1>1. (/\ agenda = << >> /\ parsed = EmptyData /\ aggregateElements = 0
         /\ IsFiniteSet(DOMAIN inst.len)
         => ParseInv)'
    BY Resting, PTL
  <1>2. ParseInv'
    BY <1>1 DEF EndCall
  <1> QED
    BY <1>2 DEF VectorInv

\* A Load that throws leaves the instance it found,
LEMMA ThrowVectors ==
    VectorInv /\ TypeOK' /\ ReaderBounded' /\ Throw => VectorInv'
  <1> SUFFICES ASSUME VectorInv, TypeOK', ReaderBounded', Throw
               PROVE  VectorInv'
    OBVIOUS
  <1>1. EndCall("failed") /\ inst' = inst
    BY DEF Throw, ReadFails, ValueRefused, ObjectSizeMismatch, CallRefused
  <1>2. /\ IsFiniteSet(DOMAIN inst'.len) /\ Held(inst') <= MaxAggregateElements
        /\ CountsMatchVectors'
    BY <1>1 DEF VectorInv, ParseInv, Finite, CountsMatchVectors
  <1> QED
    BY <1>1, <1>2, EndCallVectors

\* ... and one that succeeds leaves what it parsed, for all of which the
\* reader was charged.
LEMMA CommitVectors ==
    VectorInv /\ TypeOK' /\ ReaderBounded' /\ Commit => VectorInv'
  <1> SUFFICES ASSUME VectorInv, TypeOK', ReaderBounded', Commit
               PROVE  VectorInv'
    OBVIOUS
  <1>1. EndCall("loaded") /\ inst' = parsed /\ agenda = << >>
    BY DEF Commit
  <1>2. /\ IsData(parsed) /\ Matched(parsed) /\ ObjectsToCome = 0
        /\ IsFiniteSet(DOMAIN parsed.len)
        /\ Held(parsed) + Owing(agenda) + ObjectsToCome <= aggregateElements
        /\ aggregateElements <= MaxAggregateElements
        /\ aggregateElements \in Nat
    BY <1>1 DEF VectorInv, ParseInv, Finite, ObjectsCounted, ChargedFor,
                ReaderBounded, TypeOK
  <1>3. Value(parsed, << >>, "objectCount") = Size(parsed, << >>, "objects")
    <2>1. /\ Value(parsed, << >>, "objectCount") \in Nat
          /\ Size(parsed, << >>, "objects") \in Nat
      BY <1>2, ValueTyped
    <2> QED
      BY <1>2, <2>1 DEF ObjectsToCome
  <1>4. Counted(inst')
    BY <1>1, <1>2, <1>3, MatchedIsCounted
  <1>5. Owing(agenda) = 0 /\ Held(parsed) \in Nat
    BY <1>1, <1>2, FitsNothing, HeldTyped DEF Fits
  <1>6. Held(inst') <= MaxAggregateElements
    BY <1>1, <1>2, <1>5, LimitsAssumption
  <1> QED
    BY <1>1, <1>2, <1>4, <1>6, EndCallVectors DEF Counted, CountsMatchVectors

\* What Load has to do: everything before the objects may stand there.
ToTheObjects == ReadHeader \o ReadStringTable \o ReadDebugInfo \o ReadUserFlags

\* The reads of the file up to the objects, and the count of the objects.
LEMMA ToTheObjectsIs ==
    /\ Len(ToTheObjects) \in Nat /\ DOMAIN ToTheObjects = 1..Len(ToTheObjects)
    /\ \A i \in DOMAIN ToTheObjects :
          /\ ToTheObjects[i][2] \notin {"objectCount", "numFunctions"}
          /\ ToTheObjects[i][1] \notin {"objectSize", "callArguments", "push"}
    /\ Len(Load) = Len(ToTheObjects) + 1
    /\ \A i \in DOMAIN ToTheObjects :
          Load[i] = Goal(ToTheObjects[i][1], << >>, ToTheObjects[i][2], 0)
    /\ Load[Len(ToTheObjects) + 1] = Goal("count", << >>, "objectCount", 0)
  <1>1. /\ ToTheObjects \in Seq(Reading)
        /\ \A i \in DOMAIN ToTheObjects :
              /\ ToTheObjects[i][2] \notin {"objectCount", "numFunctions"}
              /\ ToTheObjects[i][1] \notin {"objectSize", "callArguments", "push"}
    BY VectorDomain DEF Reading, Members, ToTheObjects, ReadHeader, ReadStringTable,
       ReadDebugInfo, ReadUserFlags
  <1>2. ReadObjects \in Seq(Reading) /\ Len(ReadObjects) = 1
        /\ ReadObjects[1] = <<"count", "objectCount">>
    BY VectorDomain DEF Reading, Members, ReadObjects
  <1>3. Load = Reads(ToTheObjects \o ReadObjects, << >>)
    BY DEF Load, ToTheObjects
  <1> DEFINE body == ToTheObjects \o ReadObjects
  <1> HIDE DEF ToTheObjects, ReadObjects, Reading
  <1>4. /\ body \in Seq(Reading) /\ Len(body) = Len(ToTheObjects) + 1
        /\ \A i \in DOMAIN ToTheObjects : body[i] = ToTheObjects[i]
        /\ body[Len(ToTheObjects) + 1] = <<"count", "objectCount">>
        /\ Len(ToTheObjects) \in Nat /\ DOMAIN ToTheObjects = 1..Len(ToTheObjects)
    <2>1. Len(ToTheObjects) \in Nat /\ DOMAIN ToTheObjects = 1..Len(ToTheObjects)
      BY <1>1
    <2>2. /\ body \in Seq(Reading)
          /\ Len(body) = Len(ToTheObjects) + Len(ReadObjects)
      BY <1>1, <1>2, ConcatProperties, Zenon
    <2>3. ASSUME NEW i \in 1..(Len(ToTheObjects) + 1)
          PROVE  body[i] = IF i <= Len(ToTheObjects) THEN ToTheObjects[i]
                           ELSE ReadObjects[i - Len(ToTheObjects)]
      BY <1>1, <1>2, <2>1, ConcatProperties
    <2> HIDE DEF body
    <2>4. \A i \in DOMAIN ToTheObjects : body[i] = ToTheObjects[i]
      BY <2>1, <2>3
    <2>5. body[Len(ToTheObjects) + 1] = ReadObjects[1]
      BY <2>1, <2>3
    <2> QED
      BY <1>2, <2>1, <2>2, <2>4, <2>5
  <1>5. /\ DOMAIN body = 1..(Len(ToTheObjects) + 1)
        /\ \A i \in DOMAIN ToTheObjects : i \in DOMAIN body
    BY <1>4
  <1> HIDE DEF body
  <1>6. Load = [i \in DOMAIN body |-> Goal(body[i][1], << >>, body[i][2], 0)]
    BY <1>3 DEF Reads, body
  <1>7. Len(Load) = Len(ToTheObjects) + 1
    BY <1>4, <1>5, <1>6
  <1>8. /\ \A i \in DOMAIN ToTheObjects :
              Load[i] = Goal(ToTheObjects[i][1], << >>, ToTheObjects[i][2], 0)
        /\ Load[Len(ToTheObjects) + 1] = Goal("count", << >>, "objectCount", 0)
    BY <1>4, <1>5, <1>6
  <1> QED
    BY <1>1, <1>4, <1>7, <1>8

\* Opening a file begins the count.
LEMMA OpenFileVectors ==
    VectorInv /\ TypeOK' /\ ReaderBounded' /\ OpenFile => VectorInv'
  <1> SUFFICES ASSUME VectorInv, TypeOK', ReaderBounded', OpenFile
               PROVE  VectorInv'
    OBVIOUS
  <1>1. /\ agenda' = Load /\ parsed' = EmptyData /\ aggregateElements' = 0
        /\ load' = "parsing" /\ inst' = inst
    BY DEF OpenFile
  <1> DEFINE n == Len(ToTheObjects)
             g == Goal("count", << >>, "objectCount", 0)
  <1>2. /\ n \in Nat /\ Len(agenda') = n + 1 /\ agenda'[n + 1] = g
        /\ \A i \in 1..n :
              agenda'[i] = Goal(ToTheObjects[i][1], << >>, ToTheObjects[i][2], 0)
        /\ \A i \in 1..n :
              /\ ToTheObjects[i][2] \notin {"objectCount", "numFunctions"}
              /\ ToTheObjects[i][1] \notin {"objectSize", "callArguments", "push"}
    BY <1>1, ToTheObjectsIs
  <1> HIDE DEF n
  <1>3. ASSUME NEW i \in 1..n
        PROVE  /\ Inner(agenda'[i])
               /\ agenda'[i].kind \notin {"objectSize", "callArguments", "push"}
    <2> DEFINE r == ToTheObjects[i]
    <2>1. /\ agenda'[i] = Goal(r[1], << >>, r[2], 0)
          /\ r[2] \notin {"objectCount", "numFunctions"}
          /\ r[1] \notin {"objectSize", "callArguments", "push"}
      BY <1>2
    <2> HIDE DEF r
    <2>2. /\ agenda'[i].kind = r[1] /\ agenda'[i].field = r[2]
          /\ agenda'[i].path = << >>
      BY <2>1 DEF Goal
    <2> QED
      BY <2>1, <2>2 DEF Inner, HasCount
  <1>4. /\ g.kind = "count" /\ g.field = "objectCount" /\ g.path = << >>
    BY DEF Goal
  <1> HIDE DEF g
  <1>5. /\ LastGoal' = g /\ agenda' # << >> /\ 1..(Len(agenda') - 1) = 1..n
        /\ \A i \in DOMAIN agenda' : i \in 1..n \/ i = n + 1
    <2>1. agenda' \in Seq(Goals)
      BY DEF TypeOK
    <2>2. DOMAIN agenda' = 1..(n + 1)
      BY <1>2, <2>1
    <2> QED
      BY <1>2, <2>2 DEF LastGoal
  <1>6. ObjectsComeLast'
    BY <1>3, <1>4, <1>5 DEF ObjectsComeLast, Inner, HasCount
  <1>7. /\ DOMAIN parsed'.val = {} /\ DOMAIN parsed'.len = {}
        /\ Value(parsed', << >>, "objectCount") = 0
        /\ Size(parsed', << >>, "objects") = 0
    BY <1>1 DEF EmptyData, Value, Size
  <1>8. ObjectsCounted' /\ ObjectsToCome' = 0
    BY <1>4, <1>5, <1>7 DEF ObjectsCounted, ObjectsToCome
  <1>9. Matched(parsed')
    BY <1>7 DEF Matched
  <1>10. Owing(agenda') = 0
    <2>1. agenda' \in Seq(Goals)
      BY DEF TypeOK
    <2>2. \A i \in DOMAIN agenda' : agenda'[i].kind \notin {"callArguments", "push"}
      BY <1>2, <1>3, <1>4, <1>5
    <2> QED
      BY <2>1, <2>2, OwingFree
  <1>11. Held(parsed') = 0 /\ IsFiniteSet(DOMAIN parsed'.len)
    BY <1>1, HeldOfNothing
  <1>12. ChargedFor'
    BY <1>1, <1>8, <1>10, <1>11 DEF ChargedFor
  <1>13. ParseInv'
    BY <1>1, <1>6, <1>8, <1>9, <1>11, <1>12
       DEF ParseInv, NothingRuns, Finite, VectorInv
  <1> QED
    BY <1>1, <1>13 DEF VectorInv, CountsMatchVectors

\* What leaves the parser and the instance alone preserves the invariant.
LEMMA OtherStepsVectors ==
    /\ VectorInv /\ TypeOK' /\ ReaderBounded'
    /\ PlaceFile \/ RefuseFile \/ UNCHANGED vars
    => VectorInv'
  <1> SUFFICES ASSUME VectorInv, TypeOK', ReaderBounded',
                      PlaceFile \/ RefuseFile \/ UNCHANGED vars
               PROVE  VectorInv'
    OBVIOUS
  <1>1. /\ agenda' = agenda /\ parsed' = parsed /\ inst' = inst
        /\ aggregateElements' = aggregateElements
        /\ load' # "parsing" => load # "parsing"
    BY DEF PlaceFile, RefuseFile, vars, reader
  <1>2. NothingRuns'
    BY <1>1 DEF VectorInv, ParseInv, NothingRuns
  <1> QED
    BY <1>1, <1>2 DEF VectorInv, ParseInv, Finite, ObjectsComeLast, LastGoal,
       ObjectsCounted, ObjectsToCome, Announced, ChargedFor, CountsMatchVectors

\* Every step of the program preserves the invariant.
LEMMA NextVectors == VectorInv /\ [Next]_vars => VectorInv'
  <1> SUFFICES ASSUME VectorInv, [Next]_vars PROVE VectorInv'
    OBVIOUS
  <1>1. TypeOK' /\ ReaderBounded'
    BY NextBounded DEF VectorInv
  <1>2. CASE ReadCount \/ NextElement
    BY <1>1, <1>2, ReadCountVectors, ObjectCountVectors, NextElementVectors,
       NextObjectVectors
  <1>3. CASE ReadStep /\ ~ReadCount /\ ~NextElement
    BY <1>1, <1>3, ReadScalarVectors, ReadLengthVectors, ReadDebugFlagVectors,
       ReadObjectSizeVectors, ObjectEndsVectors, ReadPropertyFlagsVectors,
       ReadTypeVectors, ReadOpcodeVectors, ReadCallArgumentsVectors,
       PushArgumentVectors DEF ReadStep
  <1>4. CASE Throw \/ Commit
    BY <1>1, <1>4, ThrowVectors, CommitVectors
  <1>5. CASE OpenFile \/ PlaceFile \/ RefuseFile \/ UNCHANGED vars
    BY <1>1, <1>5, OpenFileVectors, OtherStepsVectors
  <1> QED
    BY <1>2, <1>3, <1>4, <1>5 DEF Next, LoadStep

-----------------------------------------------------------------------------
(* The theorems *)

\* The invariant holds, for every file and every limit.
THEOREM VectorsAreKept == Spec => []VectorInv
  <1> QED
    BY InitVectors, NextVectors, PTL DEF Spec

\* For every file and every limit: in the instance each count is the size of
\* the vector beside it, for the objects too, which are appended one by one
\* and counted only once.  The accessors of the C ABI rely on it.
THEOREM CountsAlwaysMatchVectors == Spec => []CountsMatchVectors
  <1>1. VectorInv => CountsMatchVectors
    BY DEF VectorInv
  <1> QED
    BY <1>1, VectorsAreKept, PTL

\* For every file and every limit: the reader was charged for every element
\* that exists, and an instance never holds more than the aggregate limit.
\* What the running functions will still add, and the objects still to come,
\* are what the invariant adds to the elements for an induction.
THEOREM HeldStaysWithinBudget == Spec => []HeldWithinBudget
  <1>1. VectorInv => HeldWithinBudget
    <2> SUFFICES ASSUME VectorInv PROVE HeldWithinBudget
      OBVIOUS
    <2>1. /\ TypeOK /\ IsData(parsed) /\ IsFiniteSet(DOMAIN parsed.len)
          /\ Held(parsed) + Owing(agenda) + ObjectsToCome <= aggregateElements
          /\ aggregateElements \in Nat /\ ObjectsCounted
          /\ Held(inst) <= MaxAggregateElements
      BY DEF VectorInv, ParseInv, Finite, ChargedFor, TypeOK
    <2>2. /\ Value(parsed, << >>, "objectCount") \in Nat
          /\ Size(parsed, << >>, "objects") \in Nat
          /\ Announced \in Nat
      BY <2>1, ValueTyped DEF Announced
    <2>3. ObjectsToCome \in Nat
      BY <2>1, <2>2 DEF ObjectsCounted, ObjectsToCome
    <2>4. Owing(agenda) \in Nat
      BY <2>1, OwedTyped DEF TypeOK
    <2>5. Held(parsed) \in Nat
      BY <2>1, HeldTyped
    <2>6. Held(parsed) <= aggregateElements
      BY <2>1, <2>3, <2>4, <2>5
    <2> QED
      BY <2>1, <2>6 DEF HeldWithinBudget
  <1> QED
    BY <1>1, VectorsAreKept, PTL

-----------------------------------------------------------------------------
(* The smallest elements *)

\* The sum over the first indices, one more at a time.
LEMMA SumOfNext ==
    ASSUME NEW n \in Nat, NEW f, \A i \in 1..(n + 1) : f[i] \in Nat
    PROVE  /\ SumOver(f, 1..n) \in Nat
           /\ SumOver(f, 1..(n + 1)) = f[n + 1] + SumOver(f, 1..n)
  <1>1. IsFiniteSet(1..n) /\ IsFiniteSet(1..(n + 1))
    BY FS_Interval
  <1>2. (1..(n + 1)) \ {n + 1} = 1..n /\ n + 1 \in 1..(n + 1)
    OBVIOUS
  <1>3. SumOver(f, 1..n) \in Nat
    <2>1. \A i \in 1..n : f[i] \in Nat
      OBVIOUS
    <2> QED
      BY <1>1, <2>1, SumOverElement
  <1>4. SumOver(f, 1..(n + 1)) = f[n + 1] + SumOver(f, (1..(n + 1)) \ {n + 1})
    BY <1>1, <1>2, SumOverElement
  <1> QED
    BY <1>2, <1>3, <1>4

\* The sum over nine indices, or fewer.
LEMMA SumOfFew ==
    ASSUME NEW f, NEW n \in 1..9, \A i \in 1..n : f[i] \in Nat
    PROVE  /\ n = 1 => SumOver(f, 1..n) = f[1]
           /\ n = 2 => SumOver(f, 1..n) = f[1] + f[2]
           /\ n = 4 => SumOver(f, 1..n) = f[1] + f[2] + f[3] + f[4]
           /\ n = 5 => SumOver(f, 1..n) = f[1] + f[2] + f[3] + f[4] + f[5]
           /\ n = 8 => SumOver(f, 1..n) = f[1] + f[2] + f[3] + f[4] + f[5]
                                           + f[6] + f[7] + f[8]
           /\ n = 9 => SumOver(f, 1..n) = f[1] + f[2] + f[3] + f[4] + f[5]
                                           + f[6] + f[7] + f[8] + f[9]
  <1> DEFINE sum(m) == SumOver(f, 1..m)
  <1>1. sum(0) = 0
    <2>1. 1..0 = {}
      OBVIOUS
    <2> QED
      BY <2>1, SumOverNothing
  <1>2. ASSUME NEW m \in 0..8, m < n
        PROVE  sum(m + 1) = sum(m) + f[m + 1] /\ sum(m) \in Nat /\ f[m + 1] \in Nat
    <2>1. m \in Nat /\ \A i \in 1..(m + 1) : f[i] \in Nat
      BY <1>2
    <2>2. f[m + 1] \in Nat
      BY <2>1
    <2> QED
      BY <2>1, <2>2, SumOfNext
  <1> HIDE DEF sum
  <1>3. 1 <= n => sum(1) = f[1]
    <2>1. 0 \in 0..8 /\ 0 + 1 = 1
      OBVIOUS
    <2> QED
      BY <1>1, <1>2, <2>1
  <1>4. 2 <= n => sum(2) = f[1] + f[2]
    <2>1. 1 \in 0..8 /\ 1 + 1 = 2
      OBVIOUS
    <2> QED
      BY <1>3, <1>2, <2>1
  <1>5. 3 <= n => sum(3) = f[1] + f[2] + f[3]
    <2>1. 2 \in 0..8 /\ 2 + 1 = 3
      OBVIOUS
    <2> QED
      BY <1>4, <1>2, <2>1
  <1>6. 4 <= n => sum(4) = f[1] + f[2] + f[3] + f[4]
    <2>1. 3 \in 0..8 /\ 3 + 1 = 4
      OBVIOUS
    <2> QED
      BY <1>5, <1>2, <2>1
  <1>7. 5 <= n => sum(5) = f[1] + f[2] + f[3] + f[4] + f[5]
    <2>1. 4 \in 0..8 /\ 4 + 1 = 5
      OBVIOUS
    <2> QED
      BY <1>6, <1>2, <2>1
  <1>8. 6 <= n => sum(6) = f[1] + f[2] + f[3] + f[4] + f[5] + f[6]
    <2>1. 5 \in 0..8 /\ 5 + 1 = 6
      OBVIOUS
    <2> QED
      BY <1>7, <1>2, <2>1
  <1>9. 7 <= n => sum(7) = f[1] + f[2] + f[3] + f[4] + f[5] + f[6] + f[7]
    <2>1. 6 \in 0..8 /\ 6 + 1 = 7
      OBVIOUS
    <2> QED
      BY <1>8, <1>2, <2>1
  <1>10. 8 <= n => sum(8) = f[1] + f[2] + f[3] + f[4] + f[5] + f[6] + f[7]
                            + f[8]
    <2>1. 7 \in 0..8 /\ 7 + 1 = 8
      OBVIOUS
    <2> QED
      BY <1>9, <1>2, <2>1
  <1>11. 9 <= n => sum(9) = f[1] + f[2] + f[3] + f[4] + f[5] + f[6] + f[7]
                            + f[8] + f[9]
    <2>1. 8 \in 0..8 /\ 8 + 1 = 9
      OBVIOUS
    <2> QED
      BY <1>10, <1>2, <2>1
  <1>12. /\ n = 1 => sum(n) = f[1]
         /\ n = 2 => sum(n) = f[1] + f[2]
         /\ n = 4 => sum(n) = f[1] + f[2] + f[3] + f[4]
         /\ n = 5 => sum(n) = f[1] + f[2] + f[3] + f[4] + f[5]
         /\ n = 8 => sum(n) = f[1] + f[2] + f[3] + f[4] + f[5] + f[6] + f[7]
                              + f[8]
         /\ n = 9 => sum(n) = f[1] + f[2] + f[3] + f[4] + f[5] + f[6] + f[7]
                              + f[8] + f[9]
    BY <1>3, <1>4, <1>6, <1>7, <1>10, <1>11
  <1> QED
    BY <1>12 DEF sum

\* What the elements of each vector take at least, from the tables of the
\* Read functions: that is what the code's minimum sizes count by hand, but
\* for the objects, of which they leave out the data.
LEMMA MinimumSizesAreRight ==
    ASSUME NEW c \in DOMAIN Vector
    PROVE  /\ MinimumSize[c] \in Nat \ {0} /\ SmallestElement(c) \in Nat
           /\ c # "objectCount" => MinimumSize[c] = SmallestElement(c)
           /\ c = "objectCount" => MinimumSize[c] = 6 /\ SmallestElement(c) = 22
  <1> DEFINE w == Widths(c)
  <1>1. SmallestElement(c) = SumOver(w, DOMAIN w)
    BY Zenon DEF SmallestElement, SumOver, MapThenSumSet, MapThenFoldSet
  <1>2. ASSUME NEW n \in 1..9, DOMAIN w = 1..n, \A i \in 1..n : w[i] \in Nat
        PROVE  /\ n = 1 => SmallestElement(c) = w[1]
               /\ n = 2 => SmallestElement(c) = w[1] + w[2]
               /\ n = 4 => SmallestElement(c) = w[1] + w[2] + w[3] + w[4]
               /\ n = 5 => SmallestElement(c) = w[1] + w[2] + w[3] + w[4] + w[5]
               /\ n = 8 => SmallestElement(c) = w[1] + w[2] + w[3] + w[4] + w[5]
                                               + w[6] + w[7] + w[8]
               /\ n = 9 => SmallestElement(c) = w[1] + w[2] + w[3] + w[4] + w[5]
                                               + w[6] + w[7] + w[8] + w[9]
    <2> HIDE DEF w
    <2> QED
      BY <1>1, <1>2, SumOfFew
  <1>3. CASE c = "count"
    <2>1. /\ DOMAIN w = 1..1
          /\ w[1] = 2
      BY <1>3 DEF Widths, Shortest, Vector, Width
    <2> HIDE DEF w
    <2>2. SmallestElement(c) = 2
      BY <1>2, <2>1
    <2> QED
      BY <1>3, <2>2 DEF MinimumSize
  <1>4. CASE c = "functionCount"
    <2>1. /\ DOMAIN w = 1..5
          /\ w[1] = 2 /\ w[2] = 2 /\ w[3] = 2 /\ w[4] = 1
          /\ w[5] = 2
      BY <1>4 DEF Widths, Shortest, Vector, Width, ReadDebugFunction
    <2> HIDE DEF w
    <2>2. SmallestElement(c) = 9
      BY <1>2, <2>1
    <2> QED
      BY <1>4, <2>2 DEF MinimumSize
  <1>5. CASE c = "instructionCount"
    <2>1. /\ DOMAIN w = 1..1
          /\ w[1] = 2
      BY <1>5 DEF Widths, Shortest, Vector, Width
    <2> HIDE DEF w
    <2>2. SmallestElement(c) = 2
      BY <1>2, <2>1
    <2> QED
      BY <1>5, <2>2 DEF MinimumSize
  <1>6. CASE c = "userFlagCount"
    <2>1. /\ DOMAIN w = 1..2
          /\ w[1] = 2 /\ w[2] = 1
      BY <1>6 DEF Widths, Shortest, Vector, Width
    <2> HIDE DEF w
    <2>2. SmallestElement(c) = 3
      BY <1>2, <2>1
    <2> QED
      BY <1>6, <2>2 DEF MinimumSize
  <1>7. CASE c = "objectCount"
    <2>1. /\ DOMAIN w = 1..9
          /\ w[1] = 2 /\ w[2] = 4 /\ w[3] = 2 /\ w[4] = 2
          /\ w[5] = 4 /\ w[6] = 2 /\ w[7] = 2 /\ w[8] = 2 /\ w[9] = 2
      <3>1. Shortest(c) = << <<"u16", "nameIndex">>, <<"objectSize", "size">> >> \o ReadObjectData
        BY <1>7 DEF Shortest, Vector
      <3> DEFINE e == Shortest(c)
      <3> HIDE DEF e
      <3>2. DOMAIN e = 1..9
        BY <3>1 DEF e, ReadObjectData
      <3>3. /\ e[1][1] = "u16" /\ e[2][1] = "objectSize" /\ e[3][1] = "u16"
            /\ e[4][1] = "u16" /\ e[5][1] = "u32" /\ e[6][1] = "u16"
            /\ e[7][1] = "count" /\ e[8][1] = "count" /\ e[9][1] = "count"
        BY <3>1 DEF e, ReadObjectData
      <3>4. w = [i \in DOMAIN e |-> Width[e[i][1]]]
        BY DEF Widths, e
      <3> HIDE DEF w
      <3> QED
        BY <3>2, <3>3, <3>4 DEF Width
    <2> HIDE DEF w
    <2>2. SmallestElement(c) = 22
      BY <1>2, <2>1
    <2> QED
      BY <1>7, <2>2 DEF MinimumSize
  <1>8. CASE c = "numVariables"
    <2>1. /\ DOMAIN w = 1..4
          /\ w[1] = 2 /\ w[2] = 2 /\ w[3] = 4 /\ w[4] = 1
      BY <1>8 DEF Widths, Shortest, Vector, Width, ReadVariable
    <2> HIDE DEF w
    <2>2. SmallestElement(c) = 9
      BY <1>2, <2>1
    <2> QED
      BY <1>8, <2>2 DEF MinimumSize
  <1>9. CASE c = "numProperties"
    <2>1. /\ DOMAIN w = 1..5
          /\ w[1] = 2 /\ w[2] = 2 /\ w[3] = 2 /\ w[4] = 4
          /\ w[5] = 1
      BY <1>9 DEF Widths, Shortest, Vector, Width, ReadProperty
    <2> HIDE DEF w
    <2>2. SmallestElement(c) = 11
      BY <1>2, <2>1
    <2> QED
      BY <1>9, <2>2 DEF MinimumSize
  <1>10. CASE c = "numStates"
    <2>1. /\ DOMAIN w = 1..2
          /\ w[1] = 2 /\ w[2] = 2
      BY <1>10 DEF Widths, Shortest, Vector, Width, ReadState
    <2> HIDE DEF w
    <2>2. SmallestElement(c) = 4
      BY <1>2, <2>1
    <2> QED
      BY <1>10, <2>2 DEF MinimumSize
  <1>11. CASE c = "numFunctions"
    <2>1. /\ DOMAIN w = 1..8
          /\ w[1] = 2 /\ w[2] = 2 /\ w[3] = 2 /\ w[4] = 4
          /\ w[5] = 1 /\ w[6] = 2 /\ w[7] = 2 /\ w[8] = 2
      BY <1>11 DEF Widths, Shortest, Vector, Width, ReadFunction
    <2> HIDE DEF w
    <2>2. SmallestElement(c) = 17
      BY <1>2, <2>1
    <2> QED
      BY <1>11, <2>2 DEF MinimumSize
  <1>12. CASE c = "numParams"
    <2>1. /\ DOMAIN w = 1..2
          /\ w[1] = 2 /\ w[2] = 2
      BY <1>12 DEF Widths, Shortest, Vector, Width, ReadVariableType
    <2> HIDE DEF w
    <2>2. SmallestElement(c) = 4
      BY <1>2, <2>1
    <2> QED
      BY <1>12, <2>2 DEF MinimumSize
  <1>13. CASE c = "numLocals"
    <2>1. /\ DOMAIN w = 1..2
          /\ w[1] = 2 /\ w[2] = 2
      BY <1>13 DEF Widths, Shortest, Vector, Width, ReadVariableType
    <2> HIDE DEF w
    <2>2. SmallestElement(c) = 4
      BY <1>2, <2>1
    <2> QED
      BY <1>13, <2>2 DEF MinimumSize
  <1>14. CASE c = "numInstructions"
    <2>1. /\ DOMAIN w = 1..1
          /\ w[1] = 1
      BY <1>14 DEF Widths, Shortest, Vector, Width
    <2> HIDE DEF w
    <2>2. SmallestElement(c) = 1
      BY <1>2, <2>1
    <2> QED
      BY <1>14, <2>2 DEF MinimumSize
  <1> QED
    BY <1>3, <1>4, <1>5, <1>6, <1>7, <1>8, <1>9, <1>10, <1>11, <1>12, <1>13, <1>14, VectorDomain

\* For every file: a count that ValidateCount refuses because too little
\* input is left could not have been read, not even if its elements were the
\* smallest there are; no well-formed file is refused for it.
THEOREM CountRefusalsAreAlwaysSound == Spec => []CountRefusalsAreSound
  <1>1. TypeOK => CountRefusalsAreSound
    <2> SUFFICES ASSUME TypeOK, At({"count"}), RemainingAfter(2) >= 0,
                        NEW n \in Seen(2),
                        n > RemainingAfter(2) \div MinimumSize[head.field]
                 PROVE  n * SmallestElement(head.field) > RemainingAfter(2)
      BY DEF CountRefusalsAreSound
    <2> DEFINE m == MinimumSize[head.field]
               left == RemainingAfter(2)
    <2>1. /\ agenda # << >> /\ head.kind = "count"
          /\ head.kind \in DOMAIN Width \cup {"payload"}
      BY DEF At, Width
    <2>2. head.field \in DOMAIN Vector /\ n \in Nat
      BY <2>1, HeadReads, SeenTyped
    <2>3. /\ m \in Nat \ {0} /\ SmallestElement(head.field) \in Nat
          /\ m <= SmallestElement(head.field)
      BY <2>2, MinimumSizesAreRight
    <2>4. left \in Nat
      BY DEF RemainingAfter, TypeOK
    <2>5. n > left \div m
      OBVIOUS
    <2> HIDE DEF m, left
    <2>6. n * m > left
      <3>1. n >= (left \div m) + 1 /\ left \div m \in Nat
        BY <2>2, <2>3, <2>4, <2>5
      <3>2. left = m * (left \div m) + (left % m) /\ left % m < m
        BY <2>3, <2>4
      <3>3. n * m >= ((left \div m) + 1) * m
        BY <2>2, <2>3, <3>1
      <3> QED
        BY <2>2, <2>3, <2>4, <3>1, <3>2, <3>3
    <2>7. n * m <= n * SmallestElement(head.field)
      BY <2>2, <2>3
    <2>8. n * m \in Nat /\ n * SmallestElement(head.field) \in Nat
      BY <2>2, <2>3
    <2> QED
      BY <2>4, <2>6, <2>7, <2>8 DEF left
  <1> QED
    BY <1>1, TypeCorrect, PTL
=============================================================================
