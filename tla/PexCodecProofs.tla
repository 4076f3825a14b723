--------------------------- MODULE PexCodecProofs ---------------------------
(***************************************************************************)
(* Save writes what Load read.  For each goal of the agenda there is what  *)
(* Save will write for it; a step of Load takes from the file what the     *)
(* head of the agenda stands for, so that what was read and what the       *)
(* agenda stands for are together, at any time, what Save will write.      *)
(***************************************************************************)
EXTENDS PexCodec, PexVectorProofs

-----------------------------------------------------------------------------
(* Sequences one after the other *)

\* The provers take \o apart wherever they see it; here it is kept whole.
Then(s, t) == s \o t

\* Two sequences of a set, one after the other, are a sequence of that set.
LEMMA ThenTyped ==
    ASSUME NEW S, NEW s \in Seq(S), NEW t \in Seq(S)
    PROVE  Then(s, t) \in Seq(S)
  BY DEF Then

\* The empty sequence adds nothing on either side.
LEMMA ThenNone ==
    ASSUME NEW S, NEW s \in Seq(S)
    PROVE  Then(s, << >>) = s /\ Then(<< >>, s) = s
  BY ConcatEmptySeq DEF Then

\* Three sequences one after the other, however they are grouped.
LEMMA ThenAssociative ==
    ASSUME NEW S, NEW s \in Seq(S), NEW t \in Seq(S), NEW u \in Seq(S)
    PROVE  Then(Then(s, t), u) = Then(s, Then(t, u))
  BY ConcatAssociative DEF Then

\* f joins the first n of the sequences s.
Joins(f, s, n) == f = [i \in 0..n |-> IF i = 0 THEN << >> ELSE f[i - 1] \o s[i]]

\* There is such a function,
LEMMA JoinsExists ==
    ASSUME NEW s
    PROVE  \A n \in Nat : \E f : Joins(f, s, n)
  <1> DEFINE P == {n \in Nat : \E f : Joins(f, s, n)}
  <1>1. 0 \in P
    <2>1. Joins([i \in 0..0 |-> << >>], s, 0)
      BY DEF Joins
    <2> QED
      BY <2>1
  <1>2. ASSUME NEW n \in Nat, n \in P PROVE n + 1 \in P
    <2>1. PICK f : Joins(f, s, n)
      BY <1>2
    <2> DEFINE g == [i \in 0..(n + 1) |-> IF i = n + 1 THEN f[n] \o s[n + 1]
                                          ELSE f[i]]
    <2>2. \A i \in 0..(n + 1) : g[i] = IF i = 0 THEN << >> ELSE g[i - 1] \o s[i]
      BY <2>1 DEF Joins
    <2>3. Joins(g, s, n + 1)
      BY <2>2 DEF Joins
    <2> QED
      BY <2>3
  <1> HIDE DEF P
  <1>3. \A n \in Nat : n \in P
    BY <1>1, <1>2, NatSetInduction
  <1> QED
    BY <1>3 DEF P

\* ... and Joined is its last value,
LEMMA JoinedIs ==
    ASSUME NEW s, NEW n \in Nat
    PROVE  \E f : Joins(f, s, n) /\ Joined(s, n) = f[n]
  <1>1. PICK h : Joins(h, s, n)
    BY JoinsExists
  <1> DEFINE f == CHOOSE g :
                     g = [i \in 0..n |-> IF i = 0 THEN << >> ELSE g[i - 1] \o s[i]]
  <1>2. h = [i \in 0..n |-> IF i = 0 THEN << >> ELSE h[i - 1] \o s[i]]
    BY <1>1 DEF Joins
  <1>3. f = [i \in 0..n |-> IF i = 0 THEN << >> ELSE f[i - 1] \o s[i]]
    BY <1>2, Zenon
  <1>4. Joined(s, n) = f[n]
    BY Zenon DEF Joined
  <1> HIDE DEF f
  <1>5. Joins(f, s, n)
    BY <1>3 DEF Joins
  <1> QED
    BY <1>4, <1>5

\* ... which depends on nothing but the first sequences.
LEMMA JoinsSame ==
    ASSUME NEW s, NEW t, NEW m \in Nat, NEW n \in Nat, NEW f, NEW g,
           Joins(f, s, m), Joins(g, t, n)
    PROVE  \A i \in Nat : i <= m /\ i <= n /\ (\A j \in 1..i : s[j] = t[j])
                             => f[i] = g[i]
  <1> DEFINE P == {i \in Nat : i <= m /\ i <= n /\ (\A j \in 1..i : s[j] = t[j])
                                  => f[i] = g[i]}
  <1>1. 0 \in P
    BY DEF Joins
  <1>2. ASSUME NEW i \in Nat, i \in P PROVE i + 1 \in P
    <2> SUFFICES ASSUME i + 1 <= m, i + 1 <= n, \A j \in 1..(i + 1) : s[j] = t[j]
                 PROVE  f[i + 1] = g[i + 1]
      OBVIOUS
    <2>1. f[i] = g[i]
      BY <1>2
    <2>2. /\ f[i + 1] = f[(i + 1) - 1] \o s[i + 1]
          /\ g[i + 1] = g[(i + 1) - 1] \o t[i + 1]
      BY DEF Joins
    <2>3. (i + 1) - 1 = i /\ s[i + 1] = t[i + 1]
      OBVIOUS
    <2> QED
      BY <2>1, <2>2, <2>3, Zenon
  <1> HIDE DEF P
  <1>3. \A i \in Nat : i \in P
    BY <1>1, <1>2, NatSetInduction
  <1> QED
    BY <1>3 DEF P

\* Joined depends only on the sequences it joins.
LEMMA JoinedSame ==
    ASSUME NEW s, NEW t, NEW n \in Nat, \A i \in 1..n : s[i] = t[i]
    PROVE  Joined(s, n) = Joined(t, n)
  <1>1. PICK f : Joins(f, s, n) /\ Joined(s, n) = f[n]
    BY JoinedIs
  <1>2. PICK g : Joins(g, t, n) /\ Joined(t, n) = g[n]
    BY JoinedIs
  <1> QED
    BY <1>1, <1>2, JoinsSame

\* The two equations of Joined.
LEMMA JoinedNone == ASSUME NEW s PROVE Joined(s, 0) = << >>
  <1>1. PICK f : Joins(f, s, 0) /\ Joined(s, 0) = f[0]
    BY JoinedIs
  <1>2. f[0] = << >>
    BY <1>1 DEF Joins
  <1> QED
    BY <1>1, <1>2

\* One sequence more is appended at the end.
LEMMA JoinedNext ==
    ASSUME NEW s, NEW n \in Nat
    PROVE  Joined(s, n + 1) = Then(Joined(s, n), s[n + 1])
  <1>1. PICK f : Joins(f, s, n) /\ Joined(s, n) = f[n]
    BY JoinedIs
  <1>2. PICK g : Joins(g, s, n + 1) /\ Joined(s, n + 1) = g[n + 1]
    BY JoinedIs
  <1>3. f[n] = g[n]
    BY <1>1, <1>2, JoinsSame
  <1>4. g[n + 1] = g[(n + 1) - 1] \o s[n + 1]
    BY <1>2 DEF Joins
  <1>5. (n + 1) - 1 = n
    OBVIOUS
  <1>6. Joined(s, n + 1) = Joined(s, n) \o s[n + 1]
    BY <1>1, <1>2, <1>3, <1>4, <1>5, Zenon
  <1> QED
    BY <1>6, Zenon DEF Then

\* The first n of s are sequences over S.
Sequences(s, n, S) == \A i \in 1..n : s[i] \in Seq(S)

\* What is joined of sequences of a set is a sequence of that set.
LEMMA JoinedTyped ==
    ASSUME NEW S, NEW s, NEW n \in Nat, Sequences(s, n, S)
    PROVE  Joined(s, n) \in Seq(S)
  <1> DEFINE P == {m \in Nat : m <= n => Joined(s, m) \in Seq(S)}
  <1>1. 0 \in P
    <2>1. << >> \in Seq(S)
      OBVIOUS
    <2>2. Joined(s, 0) \in Seq(S)
      BY <2>1, JoinedNone
    <2> QED
      BY <2>2
  <1>2. ASSUME NEW m \in Nat, m \in P PROVE m + 1 \in P
    <2> SUFFICES ASSUME m + 1 <= n PROVE Joined(s, m + 1) \in Seq(S)
      OBVIOUS
    <2>1. Joined(s, m) \in Seq(S) /\ s[m + 1] \in Seq(S)
      BY <1>2 DEF Sequences
    <2>2. Joined(s, m + 1) = Then(Joined(s, m), s[m + 1])
      BY JoinedNext
    <2> QED
      BY <2>1, <2>2, ThenTyped
  <1> HIDE DEF P
  <1>3. \A m \in Nat : m \in P
    BY <1>1, <1>2, NatSetInduction
  <1> QED
    BY <1>3 DEF P

\* The first m and the n that follow, which are those of t.
Follow(t, n, s, m) == \A i \in 1..n : t[i] = s[m + i]

\* Kept as a name, so that the provers do not rewrite l.
IsSum(l, m, n) == l = m + n

\* The first m sequences joined, then the n that follow them.
LEMMA JoinedParts ==
    ASSUME NEW S, NEW s, NEW t, NEW m \in Nat, NEW n \in Nat, NEW l, IsSum(l, m, n),
           Sequences(s, l, S), Follow(t, n, s, m)
    PROVE  Joined(s, l) = Then(Joined(s, m), Joined(t, n))
  <1> USE DEF IsSum
  <1> DEFINE P == {k \in Nat : k <= n =>
                      Joined(s, m + k) = Then(Joined(s, m), Joined(t, k))}
             a == Joined(s, m)
  <1>0. a \in Seq(S)
    BY JoinedTyped DEF Sequences
  <1>1. 0 \in P
    <2>1. Joined(t, 0) = << >> /\ m + 0 = m
      BY JoinedNone
    <2>2. Then(a, << >>) = a
      BY <1>0, ThenNone
    <2> QED
      BY <2>1, <2>2
  <1>2. ASSUME NEW k \in Nat, k \in P PROVE k + 1 \in P
    <2> SUFFICES ASSUME k + 1 <= n
                 PROVE  Joined(s, m + (k + 1)) = Then(a, Joined(t, k + 1))
      OBVIOUS
    <2> DEFINE b == Joined(t, k)
               c == t[k + 1]
    <2>1. Joined(s, m + k) = Then(a, b)
      BY <1>2
    <2>2. /\ m + k \in Nat /\ m + (k + 1) = (m + k) + 1
          /\ m + (k + 1) \in 1..l /\ k + 1 \in 1..n
      OBVIOUS
    <2>3. Joined(s, (m + k) + 1) = Then(Joined(s, m + k), s[(m + k) + 1])
      BY <2>2, JoinedNext
    <2>4. Joined(t, k + 1) = Then(b, c)
      BY JoinedNext
    <2>5. c = s[(m + k) + 1]
      BY <2>2 DEF Follow
    <2>8. c \in Seq(S)
      BY <2>2, <2>5 DEF Sequences
    <2>6. b \in Seq(S)
      <3>1. Sequences(t, k, S)
        <4> SUFFICES ASSUME NEW i \in 1..k PROVE t[i] \in Seq(S)
          BY DEF Sequences
        <4>1. t[i] = s[m + i] /\ m + i \in 1..l
          BY DEF Follow
        <4> QED
          BY <4>1 DEF Sequences
      <3> QED
        BY <3>1, JoinedTyped
    <2> HIDE DEF a, b, c, P
    <2>7. Then(Then(a, b), c) = Then(a, Then(b, c))
      BY <1>0, <2>6, <2>8, ThenAssociative
    <2> QED
      BY <2>1, <2>2, <2>3, <2>4, <2>5, <2>7
  <1> HIDE DEF P
  <1>3. \A k \in Nat : k \in P
    BY <1>1, <1>2, NatSetInduction
  <1>4. Joined(s, m + n) = Then(a, Joined(t, n))
    BY <1>3 DEF P
  <1> QED
    BY <1>4 DEF a

\* What comes of the first m sequences after the first n.
JoinedFrom(s, n, m) ==
    IF n < m THEN Joined([i \in 1..(m - n) |-> s[n + i]], m - n) ELSE << >>

\* Joining from n on is joining the sequences that follow the first n.
LEMMA JoinedFromIs ==
    ASSUME NEW s, NEW n \in Nat, NEW m \in Nat, n <= m
    PROVE  \E t : Follow(t, m - n, s, n) /\ JoinedFrom(s, n, m) = Joined(t, m - n)
  <1> DEFINE t == [i \in 1..(m - n) |-> s[n + i]]
  <1>1. Follow(t, m - n, s, n)
    BY DEF Follow
  <1>2. CASE n < m
    BY <1>1, <1>2 DEF JoinedFrom
  <1>3. CASE n = m
    <2>1. JoinedFrom(s, n, m) = << >> /\ m - n = 0
      BY <1>3 DEF JoinedFrom
    <2> HIDE DEF t
    <2> QED
      BY <1>1, <2>1, JoinedNone
  <1> QED
    BY <1>2, <1>3

\* So it is a sequence of the set too.
LEMMA JoinedFromTyped ==
    ASSUME NEW S, NEW s, NEW n \in Nat, NEW m \in Nat, Sequences(s, m, S)
    PROVE  JoinedFrom(s, n, m) \in Seq(S)
  <1>1. CASE n <= m
    <2>1. PICK t : /\ Follow(t, m - n, s, n)
                   /\ JoinedFrom(s, n, m) = Joined(t, m - n)
      BY <1>1, JoinedFromIs
    <2>2. m - n \in Nat
      BY <1>1
    <2>3. Sequences(t, m - n, S)
      <3> SUFFICES ASSUME NEW i \in 1..(m - n) PROVE t[i] \in Seq(S)
        BY DEF Sequences
      <3>1. n + i \in 1..m /\ t[i] = s[n + i]
        BY <2>1 DEF Follow
      <3> QED
        BY <3>1 DEF Sequences
    <2> QED
      BY <2>1, <2>2, <2>3, JoinedTyped
  <1>2. CASE ~(n <= m)
    BY <1>2 DEF JoinedFrom
  <1> QED
    BY <1>1, <1>2

\* Joining from the start is joining them all.
LEMMA JoinedFromStart ==
    ASSUME NEW s, NEW m \in Nat
    PROVE  JoinedFrom(s, 0, m) = Joined(s, m)
  <1>1. PICK t : Follow(t, m - 0, s, 0) /\ JoinedFrom(s, 0, m) = Joined(t, m - 0)
    BY JoinedFromIs
  <1>2. m - 0 = m /\ \A i \in 1..m : 0 + i = i
    OBVIOUS
  <1>3. \A i \in 1..m : t[i] = s[i]
    BY <1>1, <1>2 DEF Follow
  <1> QED
    BY <1>1, <1>2, <1>3, JoinedSame

\* The first n, and what comes after them.
LEMMA JoinedFromHere ==
    ASSUME NEW S, NEW s, NEW n \in Nat, NEW m \in Nat, n <= m, Sequences(s, m, S)
    PROVE  Joined(s, m) = Then(Joined(s, n), JoinedFrom(s, n, m))
  <1>1. PICK k \in Nat : k = m - n /\ m = n + k
    OBVIOUS
  <1>2. PICK t : Follow(t, k, s, n) /\ JoinedFrom(s, n, m) = Joined(t, k)
    BY <1>1, JoinedFromIs
  <1>4. IsSum(m, n, k)
    BY <1>1 DEF IsSum
  <1>3. Joined(s, m) = Then(Joined(s, n), Joined(t, k))
    BY <1>1, <1>2, <1>4, JoinedParts
  <1> QED
    BY <1>2, <1>3

\* The next one and what comes after it.
LEMMA JoinedFromNext ==
    ASSUME NEW S, NEW s, NEW n \in Nat, NEW m \in Nat, n < m, Sequences(s, m, S)
    PROVE  JoinedFrom(s, n, m) = Then(s[n + 1], JoinedFrom(s, n + 1, m))
  <1>1. PICK t : Follow(t, m - n, s, n) /\ JoinedFrom(s, n, m) = Joined(t, m - n)
    BY JoinedFromIs
  <1>2. PICK u : /\ Follow(u, m - (n + 1), s, n + 1)
                 /\ JoinedFrom(s, n + 1, m) = Joined(u, m - (n + 1))
    BY JoinedFromIs
  <1>3. /\ 1 \in Nat /\ m - (n + 1) \in Nat /\ m - n = 1 + (m - (n + 1))
        /\ 1 \in 1..(m - n) /\ n + 1 \in 1..m
    OBVIOUS
  <1>4. Sequences(t, m - n, S)
    <2> SUFFICES ASSUME NEW i \in 1..(m - n) PROVE t[i] \in Seq(S)
      BY DEF Sequences
    <2>1. n + i \in 1..m /\ t[i] = s[n + i]
      BY <1>1 DEF Follow
    <2> QED
      BY <2>1 DEF Sequences
  <1>5. Follow(u, m - (n + 1), t, 1)
    <2> SUFFICES ASSUME NEW i \in 1..(m - (n + 1)) PROVE u[i] = t[1 + i]
      BY DEF Follow
    <2>1. /\ (n + 1) + i = n + (1 + i) /\ 1 + i \in 1..(m - n)
          /\ u[i] = s[(n + 1) + i]
      BY <1>2 DEF Follow
    <2>2. t[1 + i] = s[n + (1 + i)]
      BY <1>1, <2>1 DEF Follow
    <2> QED
      BY <2>1, <2>2
  <1>6. Joined(t, m - n) = Then(Joined(t, 1), Joined(u, m - (n + 1)))
    <2>1. PICK l \in Nat, k \in Nat, o \in Nat :
             l = m - n /\ k = m - (n + 1) /\ o = 1 /\ l = o + k
      BY <1>3
    <2>2. Sequences(t, l, S) /\ Follow(u, k, t, o) /\ IsSum(l, o, k)
      BY <1>4, <1>5, <2>1 DEF IsSum
    <2>3. Joined(t, l) = Then(Joined(t, o), Joined(u, k))
      BY <2>1, <2>2, JoinedParts
    <2> QED
      BY <2>1, <2>3
  <1>7. Joined(t, 1) = s[n + 1]
    <2>1. Joined(t, 0 + 1) = Then(Joined(t, 0), t[0 + 1])
      BY JoinedNext
    <2>2. t[1] = s[n + 1] /\ t[1] \in Seq(S) /\ 0 + 1 = 1
      BY <1>1, <1>3, <1>4 DEF Follow, Sequences
    <2> QED
      BY <2>1, <2>2, JoinedNone, ThenNone
  <1> QED
    BY <1>1, <1>2, <1>6, <1>7

\* Of a few sequences.
LEMMA JoinedFew ==
    ASSUME NEW S, NEW s, s[1] \in Seq(S)
    PROVE  /\ Joined(s, 1) = s[1]
           /\ \A n \in Nat : Joined(s, n + 1) = Then(Joined(s, n), s[n + 1])
  <1>1. Then(<< >>, s[1]) = s[1]
    BY ThenNone
  <1>2. Joined(s, 0 + 1) = Then(Joined(s, 0), s[0 + 1])
    BY JoinedNext
  <1>3. 0 + 1 = 1
    OBVIOUS
  <1> QED
    BY <1>1, <1>2, <1>3, JoinedNone, JoinedNext

-----------------------------------------------------------------------------
(* What Save writes for a part of the data *)

\* For the element at path, of a vector with the count c,
Element(c, d, path) ==
    LET member(field) == Value(d, path, field) IN
    CASE c = "count" -> WriteWString(d, path, "bytes")
      [] c = "functionCount" -> WriteDebugFunction(d, path)
      [] c = "instructionCount" -> WriteUInt16BE(member("line"))
      [] c = "userFlagCount" -> Then(WriteUInt16BE(member("flagNameIndex")),
                                     WriteUInt8(member("flagIndex")))
      [] c = "objectCount" -> Then(Then(WriteUInt16BE(member("nameIndex")),
                                        WriteUInt32BE(member("size"))),
                                   WriteObjectData(d, path))
      [] c = "numVariables" -> WriteVariable(d, path)
      [] c = "numProperties" -> WriteProperty(d, path)
      [] c = "numStates" -> WriteState(d, path)
      [] c = "numFunctions" -> Then(WriteUInt16BE(member("functionName")),
                                    WriteFunction(d, path))
      [] c \in {"numParams", "numLocals"} ->
            Then(WriteUInt16BE(member("name")), WriteUInt16BE(member("type")))
      [] c = "numInstructions" -> WriteInstruction(d, path)

\* ... for each element of the record at path,
Elements(c, d, path) ==
    [i \in 1..Size(d, path, Vector[c].name) |->
        Element(c, d, Child(path, Vector[c].name, i))]

\* ... for those after the first n,
Rest(c, d, path, n) ==
    JoinedFrom(Elements(c, d, path), n, Size(d, path, Vector[c].name))

\* ... for a count and all its elements,
Counting(c, d, path) ==
    Then(WriteUInt16BE(Value(d, path, c)), Rest(c, d, path, 0))

\* ... for the arguments of an instruction.
Arguments(d, path) ==
    [i \in 1..Size(d, path, "arguments") |->
        WriteVariableData(d, Child(path, "arguments", i))]

\* One number or one text is written as one item.
LEMMA NumberTyped ==
    ASSUME NEW w \in Nat, NEW v \in Nat
    PROVE  <<Number(w, v)>> \in Seq(Items) /\ <<Text(w, v)>> \in Seq(Items)
  BY DEF Number, Text, Items

\* Each integer write of PexHelper.cpp appends items.
LEMMA NumbersTyped ==
    ASSUME NEW v \in Nat
    PROVE  /\ WriteUInt8(v) \in Seq(Items) /\ WriteUInt16BE(v) \in Seq(Items)
           /\ WriteUInt32BE(v) \in Seq(Items) /\ WriteUInt64BE(v) \in Seq(Items)
  BY NumberTyped DEF WriteUInt8, WriteUInt16BE, WriteUInt32BE, WriteUInt64BE

\* Nothing is a sequence of items.
LEMMA NothingTyped == << >> \in Seq(Items)
  OBVIOUS

\* WriteWString appends items: a length, and the text or nothing.
LEMMA WriteWStringTyped ==
    ASSUME NEW d, IsData(d), NEW path, NEW field
    PROVE  WriteWString(d, path, field) \in Seq(Items)
  <1> DEFINE length == Size(d, path, field)
             bytes == IF length = 0 THEN << >>
                      ELSE << Text(length, Value(d, path, field)) >>
  <1>1. length \in Nat /\ Value(d, path, field) \in Nat
    BY ValueTyped
  <1>2. << LengthError >> \in Seq(Items)
    BY NumberTyped DEF LengthError
  <1>3. bytes \in Seq(Items)
    BY <1>1, NumberTyped, NothingTyped
  <1>4. WriteUInt16BE(length) \in Seq(Items)
    BY <1>1, NumbersTyped
  <1>5. WriteWString(d, path, field) =
           IF length > MaxStringLength THEN << LengthError >>
           ELSE Then(WriteUInt16BE(length), bytes)
    BY Zenon DEF WriteWString, Then
  <1> HIDE DEF bytes, length
  <1> QED
    BY <1>2, <1>3, <1>4, <1>5, ThenTyped

\* WriteVariableData writes the type, then the value its type selects.
LEMMA WriteVariableDataIs ==
    ASSUME NEW d, NEW path
    PROVE  WriteVariableData(d, path) =
             LET type == Value(d, path, "type") IN
             Then(WriteUInt8(type),
                  CASE type \in {1, 2} -> WriteUInt16BE(Value(d, path, "uint16"))
                    [] type = 3 -> WriteUInt32BE(Value(d, path, "int32"))
                    [] type = 4 -> WriteUInt32BE(Value(d, path, "float"))
                    [] type = 5 -> WriteUInt8(Value(d, path, "uint8"))
                    [] OTHER -> << >>)
  BY Zenon DEF WriteVariableData, Then

\* Both are items.
LEMMA WriteVariableDataTyped ==
    ASSUME NEW d, IsData(d), NEW path
    PROVE  WriteVariableData(d, path) \in Seq(Items)
  <1> DEFINE type == Value(d, path, "type")
             data == CASE type \in {1, 2} -> WriteUInt16BE(Value(d, path, "uint16"))
                       [] type = 3 -> WriteUInt32BE(Value(d, path, "int32"))
                       [] type = 4 -> WriteUInt32BE(Value(d, path, "float"))
                       [] type = 5 -> WriteUInt8(Value(d, path, "uint8"))
                       [] OTHER -> << >>
  <1>1. \A field : Value(d, path, field) \in Nat
    BY ValueTyped
  <1>2. data \in Seq(Items)
    BY <1>1, NumbersTyped, NothingTyped
  <1>3. WriteUInt8(type) \in Seq(Items)
    BY <1>1, NumbersTyped
  <1>4. WriteVariableData(d, path) = Then(WriteUInt8(type), data)
    BY WriteVariableDataIs, Zenon
  <1> HIDE DEF type, data
  <1> QED
    BY <1>2, <1>3, <1>4, ThenTyped

\* The member each count field stands for.
LEMMA VectorNamesAre ==
    /\ Vector["count"].name = "strings"
    /\ Vector["functionCount"].name = "functions"
    /\ Vector["instructionCount"].name = "lineNumbers"
    /\ Vector["userFlagCount"].name = "userFlags"
    /\ Vector["objectCount"].name = "objects"
    /\ Vector["numVariables"].name = "variables"
    /\ Vector["numProperties"].name = "properties"
    /\ Vector["numStates"].name = "states"
    /\ Vector["numFunctions"].name = "functions"
    /\ Vector["numParams"].name = "params"
    /\ Vector["numLocals"].name = "locals"
    /\ Vector["numInstructions"].name = "instructions"
  BY DEF Vector

\* What a loop writes for a vector, which Write functions do one by one.
LEMMA LoopIs ==
    ASSUME NEW d, IsData(d), NEW path, NEW c, NEW name, Vector[c].name = name,
           NEW s, \A i \in 1..Size(d, path, name) :
                     s[i] = Element(c, d, Child(path, name, i))
    PROVE  Joined(s, Size(d, path, name)) = Rest(c, d, path, 0)
  <1> DEFINE n == Size(d, path, name)
             e == Elements(c, d, path)
  <1>1. n \in Nat
    BY ValueTyped
  <1>2. \A i \in 1..n : e[i] = Element(c, d, Child(path, name, i))
    BY DEF Elements
  <1>3. Rest(c, d, path, 0) = JoinedFrom(e, 0, n)
    BY DEF Rest
  <1> HIDE DEF n, e
  <1>4. \A i \in 1..n : s[i] = e[i]
    BY <1>2 DEF n
  <1>5. Joined(s, n) = Joined(e, n)
    BY <1>1, <1>4, JoinedSame
  <1>6. JoinedFrom(e, 0, n) = Joined(e, n)
    BY <1>1, JoinedFromStart
  <1> QED
    BY <1>3, <1>5, <1>6 DEF n

\* The Write functions, with what they write for a vector kept whole.
LEMMA WriteInstructionIs ==
    ASSUME NEW d, NEW path
    PROVE  WriteInstruction(d, path) =
             Then(WriteUInt8(Value(d, path, "op")),
                  Joined(Arguments(d, path), Size(d, path, "arguments")))
  BY Zenon DEF WriteInstruction, ForEach, Loop, Arguments, Then

\* WriteFunction, with Then in the place of the concatenations of PexWrite.
LEMMA WriteFunctionIs ==
    ASSUME NEW d, IsData(d), NEW path
    PROVE  WriteFunction(d, path) =
             LET member(field) == Value(d, path, field) IN
             Then(Then(Then(Then(Then(Then(Then(Then(Then(
                 WriteUInt16BE(member("returnType")),
                 WriteUInt16BE(member("docString"))),
                 WriteUInt32BE(member("userFlags"))),
                 WriteUInt8(member("flags"))),
                 WriteUInt16BE(member("numParams"))),
                 Rest("numParams", d, path, 0)),
                 WriteUInt16BE(member("numLocals"))),
                 Rest("numLocals", d, path, 0)),
                 WriteUInt16BE(member("numInstructions"))),
                 Rest("numInstructions", d, path, 0))
  <1> DEFINE variableType(name, i) ==
                 Then(WriteUInt16BE(Value(d, Child(path, name, i), "name")),
                      WriteUInt16BE(Value(d, Child(path, name, i), "type")))
             params == [i \in 1..Size(d, path, "params") |-> variableType("params", i)]
             locals == [i \in 1..Size(d, path, "locals") |-> variableType("locals", i)]
             instructions == [i \in 1..Size(d, path, "instructions") |->
                                WriteInstruction(d, Child(path, "instructions", i))]
  <1>1. WriteFunction(d, path) =
             LET member(field) == Value(d, path, field) IN
             Then(Then(Then(Then(Then(Then(Then(Then(Then(
                 WriteUInt16BE(member("returnType")),
                 WriteUInt16BE(member("docString"))),
                 WriteUInt32BE(member("userFlags"))),
                 WriteUInt8(member("flags"))),
                 WriteUInt16BE(member("numParams"))),
                 Joined(params, Size(d, path, "params"))),
                 WriteUInt16BE(member("numLocals"))),
                 Joined(locals, Size(d, path, "locals"))),
                 WriteUInt16BE(member("numInstructions"))),
                 Joined(instructions, Size(d, path, "instructions")))
    BY Zenon DEF WriteFunction, ForEach, Loop, Then
  <1>2. Joined(params, Size(d, path, "params")) = Rest("numParams", d, path, 0)
    <2>1. \A i \in 1..Size(d, path, "params") :
             params[i] = Element("numParams", d, Child(path, "params", i))
      BY DEF Element
    <2> HIDE DEF params
    <2> QED
      BY <2>1, VectorNamesAre, LoopIs
  <1>3. Joined(locals, Size(d, path, "locals")) = Rest("numLocals", d, path, 0)
    <2>1. \A i \in 1..Size(d, path, "locals") :
             locals[i] = Element("numLocals", d, Child(path, "locals", i))
      BY DEF Element
    <2> HIDE DEF locals
    <2> QED
      BY <2>1, VectorNamesAre, LoopIs
  <1>4. Joined(instructions, Size(d, path, "instructions"))
            = Rest("numInstructions", d, path, 0)
    <2>1. \A i \in 1..Size(d, path, "instructions") :
             instructions[i] =
                Element("numInstructions", d, Child(path, "instructions", i))
      BY DEF Element
    <2> HIDE DEF instructions
    <2> QED
      BY <2>1, VectorNamesAre, LoopIs
  <1> HIDE DEF params, locals, instructions
  <1> QED
    BY <1>1, <1>2, <1>3, <1>4, Zenon

\* The elements of a vector after the first n are written as items.
LEMMA RestTyped ==
    ASSUME NEW d, IsData(d), NEW path, NEW c, NEW n \in Nat,
           \A p : Element(c, d, p) \in Seq(Items)
    PROVE  Rest(c, d, path, n) \in Seq(Items)
  <1> DEFINE m == Size(d, path, Vector[c].name)
             e == Elements(c, d, path)
  <1>1. m \in Nat
    BY ValueTyped
  <1>2. Sequences(e, m, Items)
    BY DEF Elements, Sequences
  <1>3. Rest(c, d, path, n) = JoinedFrom(e, n, m)
    BY DEF Rest
  <1> HIDE DEF m, e
  <1> QED
    BY <1>1, <1>2, <1>3, JoinedFromTyped

\* A count and what is written for its elements belong together.
LEMMA CountingIs ==
    ASSUME NEW d, IsData(d), NEW path, NEW c,
           \A p : Element(c, d, p) \in Seq(Items)
    PROVE  /\ Counting(c, d, path) \in Seq(Items)
           /\ \A s \in Seq(Items) :
                 /\ Then(s, Counting(c, d, path)) \in Seq(Items)
                 /\ Then(Then(s, WriteUInt16BE(Value(d, path, c))),
                         Rest(c, d, path, 0))
                      = Then(s, Counting(c, d, path))
  <1>1. WriteUInt16BE(Value(d, path, c)) \in Seq(Items)
    BY ValueTyped, NumbersTyped
  <1>2. Rest(c, d, path, 0) \in Seq(Items)
    BY RestTyped
  <1> QED
    BY <1>1, <1>2, ThenTyped, ThenAssociative DEF Counting

\* WriteInstruction writes items.
LEMMA WriteInstructionTyped ==
    ASSUME NEW d, IsData(d), NEW path
    PROVE  /\ Sequences(Arguments(d, path), Size(d, path, "arguments"), Items)
           /\ WriteInstruction(d, path) \in Seq(Items)
  <1>1. Sequences(Arguments(d, path), Size(d, path, "arguments"), Items)
    BY WriteVariableDataTyped DEF Arguments, Sequences
  <1>2. Size(d, path, "arguments") \in Nat /\ Value(d, path, "op") \in Nat
    BY ValueTyped
  <1>3. Joined(Arguments(d, path), Size(d, path, "arguments")) \in Seq(Items)
    BY <1>1, <1>2, JoinedTyped
  <1>4. WriteUInt8(Value(d, path, "op")) \in Seq(Items)
    BY <1>2, NumbersTyped
  <1> QED
    BY <1>1, <1>3, <1>4, WriteInstructionIs, ThenTyped

\* The elements that are themselves without loops, and the instructions.
LEMMA SmallElementsTyped ==
    ASSUME NEW d, IsData(d)
    PROVE  \A p : /\ Element("count", d, p) \in Seq(Items)
                  /\ Element("instructionCount", d, p) \in Seq(Items)
                  /\ Element("userFlagCount", d, p) \in Seq(Items)
                  /\ Element("numParams", d, p) \in Seq(Items)
                  /\ Element("numLocals", d, p) \in Seq(Items)
                  /\ Element("numInstructions", d, p) \in Seq(Items)
  <1> TAKE p
  <1>1. \A field : /\ WriteUInt8(Value(d, p, field)) \in Seq(Items)
                   /\ WriteUInt16BE(Value(d, p, field)) \in Seq(Items)
    BY ValueTyped, NumbersTyped
  <1> QED
    BY <1>1, ThenTyped, WriteWStringTyped, WriteInstructionTyped DEF Element

\* WriteFunction, count by count.
FunctionWrites(d, path) ==
    LET member(field) == Value(d, path, field) IN
    Then(Then(Then(Then(Then(Then(
        WriteUInt16BE(member("returnType")),
        WriteUInt16BE(member("docString"))),
        WriteUInt32BE(member("userFlags"))),
        WriteUInt8(member("flags"))),
        Counting("numParams", d, path)),
        Counting("numLocals", d, path)),
        Counting("numInstructions", d, path))

\* WriteFunction is FunctionWrites, and writes items.
LEMMA WriteFunctionTyped ==
    ASSUME NEW d, IsData(d), NEW path
    PROVE  /\ WriteFunction(d, path) = FunctionWrites(d, path)
           /\ WriteFunction(d, path) \in Seq(Items)
  <1> DEFINE member(field) == Value(d, path, field)
             a == Then(Then(Then(
                    WriteUInt16BE(member("returnType")),
                    WriteUInt16BE(member("docString"))),
                    WriteUInt32BE(member("userFlags"))),
                    WriteUInt8(member("flags")))
             b == Then(a, Counting("numParams", d, path))
             c == Then(b, Counting("numLocals", d, path))
             e == Then(c, Counting("numInstructions", d, path))
  <1>1. a \in Seq(Items)
    BY ValueTyped, NumbersTyped, ThenTyped
  <1>2. WriteFunction(d, path) =
          Then(Then(Then(Then(Then(Then(a,
              WriteUInt16BE(member("numParams"))), Rest("numParams", d, path, 0)),
              WriteUInt16BE(member("numLocals"))), Rest("numLocals", d, path, 0)),
              WriteUInt16BE(member("numInstructions"))),
              Rest("numInstructions", d, path, 0))
    BY WriteFunctionIs, Zenon
  <1>3. FunctionWrites(d, path) = e
    BY Zenon DEF FunctionWrites
  <1> HIDE DEF a, b, c, e
  <1>4. /\ Then(Then(a, WriteUInt16BE(member("numParams"))), Rest("numParams", d, path, 0)) = b
        /\ b \in Seq(Items)
    BY <1>1, SmallElementsTyped, CountingIs DEF b
  <1>5. /\ Then(Then(b, WriteUInt16BE(member("numLocals"))), Rest("numLocals", d, path, 0)) = c
        /\ c \in Seq(Items)
    BY <1>4, SmallElementsTyped, CountingIs DEF c
  <1>6. /\ Then(Then(c, WriteUInt16BE(member("numInstructions"))),
                Rest("numInstructions", d, path, 0)) = e
        /\ e \in Seq(Items)
    BY <1>5, SmallElementsTyped, CountingIs DEF e
  <1> QED
    BY <1>2, <1>3, <1>4, <1>5, <1>6, Zenon

\* WriteDebugFunction, WriteVariable,
DebugFunctionWrites(d, path) ==
    LET member(field) == Value(d, path, field) IN
    Then(Then(Then(Then(
        WriteUInt16BE(member("objectNameIndex")),
        WriteUInt16BE(member("stateNameIndex"))),
        WriteUInt16BE(member("functionNameIndex"))),
        WriteUInt8(member("functionType"))),
        Counting("instructionCount", d, path))

\* A debug function is written by DebugFunctionWrites, as items.
LEMMA WriteDebugFunctionTyped ==
    ASSUME NEW d, IsData(d), NEW path
    PROVE  /\ WriteDebugFunction(d, path) = DebugFunctionWrites(d, path)
           /\ WriteDebugFunction(d, path) \in Seq(Items)
  <1> DEFINE member(field) == Value(d, path, field)
             a == Then(Then(Then(
                    WriteUInt16BE(member("objectNameIndex")),
                    WriteUInt16BE(member("stateNameIndex"))),
                    WriteUInt16BE(member("functionNameIndex"))),
                    WriteUInt8(member("functionType")))
             b == Then(a, Counting("instructionCount", d, path))
             lines == [i \in 1..Size(d, path, "lineNumbers") |->
                        WriteUInt16BE(Value(d, Child(path, "lineNumbers", i), "line"))]
  <1>1. a \in Seq(Items)
    BY ValueTyped, NumbersTyped, ThenTyped
  <1>2. WriteDebugFunction(d, path) =
          Then(Then(a, WriteUInt16BE(member("instructionCount"))),
               Joined(lines, Size(d, path, "lineNumbers")))
    BY Zenon DEF WriteDebugFunction, ForEach, Loop, Then
  <1>3. DebugFunctionWrites(d, path) = b
    BY Zenon DEF DebugFunctionWrites
  <1>4. Joined(lines, Size(d, path, "lineNumbers"))
          = Rest("instructionCount", d, path, 0)
    <2>1. \A i \in 1..Size(d, path, "lineNumbers") :
             lines[i] = Element("instructionCount", d, Child(path, "lineNumbers", i))
      BY DEF Element
    <2> HIDE DEF lines
    <2> QED
      BY <2>1, VectorNamesAre, LoopIs
  <1> HIDE DEF a, b, lines
  <1>5. /\ Then(Then(a, WriteUInt16BE(member("instructionCount"))),
                Rest("instructionCount", d, path, 0)) = b
        /\ b \in Seq(Items)
    BY <1>1, SmallElementsTyped, CountingIs DEF b
  <1> QED
    BY <1>2, <1>3, <1>4, <1>5, Zenon

\* WriteVariable: three members, then the variable data.
LEMMA WriteVariableIs ==
    ASSUME NEW d, IsData(d), NEW path
    PROVE  /\ WriteVariable(d, path) =
                LET member(field) == Value(d, path, field) IN
                Then(Then(Then(WriteUInt16BE(member("name")),
                               WriteUInt16BE(member("typeName"))),
                          WriteUInt32BE(member("userFlags"))),
                     WriteVariableData(d, path))
           /\ WriteVariable(d, path) \in Seq(Items)
  <1>1. WriteVariable(d, path) =
                LET member(field) == Value(d, path, field) IN
                Then(Then(Then(WriteUInt16BE(member("name")),
                               WriteUInt16BE(member("typeName"))),
                          WriteUInt32BE(member("userFlags"))),
                     WriteVariableData(d, path))
    BY Zenon DEF WriteVariable, Then
  <1>2. /\ WriteUInt16BE(Value(d, path, "name")) \in Seq(Items)
        /\ WriteUInt16BE(Value(d, path, "typeName")) \in Seq(Items)
        /\ WriteUInt32BE(Value(d, path, "userFlags")) \in Seq(Items)
    BY ValueTyped, NumbersTyped
  <1> QED
    BY <1>1, <1>2, WriteVariableDataTyped, ThenTyped

\* ... WriteProperty, whose flags belong together with what they say follows,
AutoWrites(d, path, flags) ==
    IF HasBit(flags, 4)
    THEN WriteUInt16BE(Value(d, path, "autoVarName")) ELSE << >>

\* The handlers follow, unless the property has an automatic variable.
ReadHandlerWrites(d, path, flags) ==
    IF HasBit(flags, 1) /\ ~HasBit(flags, 4)
    THEN WriteFunction(d, Child(path, "readHandler", 0)) ELSE << >>

\* The same for the write handler, which its own bit selects.
WriteHandlerWrites(d, path, flags) ==
    IF HasBit(flags, 2) /\ ~HasBit(flags, 4)
    THEN WriteFunction(d, Child(path, "writeHandler", 0)) ELSE << >>

\* The flags of a property and the parts they select.
FlagsWrites(d, path) ==
    LET flags == Value(d, path, "flags") IN
    Then(WriteUInt8(flags),
         Then(Then(AutoWrites(d, path, flags), ReadHandlerWrites(d, path, flags)),
              WriteHandlerWrites(d, path, flags)))

\* The three optional parts of a property are items.
LEMMA OptionalWritesTyped ==
    ASSUME NEW d, IsData(d), NEW path, NEW flags
    PROVE  /\ AutoWrites(d, path, flags) \in Seq(Items)
           /\ ReadHandlerWrites(d, path, flags) \in Seq(Items)
           /\ WriteHandlerWrites(d, path, flags) \in Seq(Items)
  <1>1. WriteUInt16BE(Value(d, path, "autoVarName")) \in Seq(Items)
    BY ValueTyped, NumbersTyped
  <1> QED
    BY <1>1, NothingTyped, WriteFunctionTyped
       DEF AutoWrites, ReadHandlerWrites, WriteHandlerWrites

\* WriteProperty: four members, the flags, and the parts they select.
LEMMA WritePropertyIs ==
    ASSUME NEW d, IsData(d), NEW path
    PROVE  /\ WriteProperty(d, path) =
                LET member(field) == Value(d, path, field) IN
                Then(Then(Then(Then(WriteUInt16BE(member("name")),
                                    WriteUInt16BE(member("type"))),
                               WriteUInt16BE(member("docstring"))),
                          WriteUInt32BE(member("userFlags"))),
                     FlagsWrites(d, path))
           /\ WriteProperty(d, path) \in Seq(Items)
           /\ FlagsWrites(d, path) \in Seq(Items)
  <1> DEFINE member(field) == Value(d, path, field)
             flags == member("flags")
             x == Then(Then(Then(WriteUInt16BE(member("name")),
                                 WriteUInt16BE(member("type"))),
                            WriteUInt16BE(member("docstring"))),
                       WriteUInt32BE(member("userFlags")))
             f == WriteUInt8(flags)
             a == AutoWrites(d, path, flags)
             r == ReadHandlerWrites(d, path, flags)
             w == WriteHandlerWrites(d, path, flags)
  <1>1. WriteProperty(d, path) = Then(Then(Then(Then(x, f), a), r), w)
    BY Zenon DEF WriteProperty, Then, AutoWrites, ReadHandlerWrites,
                 WriteHandlerWrites
  <1>2. x \in Seq(Items)
    BY ValueTyped, NumbersTyped, ThenTyped
  <1>3. f \in Seq(Items)
    BY ValueTyped, NumbersTyped
  <1>4. a \in Seq(Items) /\ r \in Seq(Items) /\ w \in Seq(Items)
    BY OptionalWritesTyped
  <1>5. FlagsWrites(d, path) = Then(f, Then(Then(a, r), w))
    BY Zenon DEF FlagsWrites
  <1> HIDE DEF x, f, a, r, w
  <1>6. Then(a, r) \in Seq(Items) /\ Then(Then(a, r), w) \in Seq(Items)
    BY <1>4, ThenTyped
  <1>7. Then(x, Then(f, Then(Then(a, r), w)))
           = Then(Then(x, f), Then(Then(a, r), w))
    BY <1>2, <1>3, <1>6, ThenAssociative
  <1>8. Then(x, f) \in Seq(Items) /\ Then(Then(x, f), a) \in Seq(Items)
    BY <1>2, <1>3, <1>4, ThenTyped
  <1>9. Then(Then(x, f), Then(Then(a, r), w))
           = Then(Then(Then(x, f), Then(a, r)), w)
    BY <1>4, <1>6, <1>8, ThenAssociative
  <1>10. Then(Then(x, f), Then(a, r)) = Then(Then(Then(x, f), a), r)
    BY <1>4, <1>8, ThenAssociative
  <1>11. WriteProperty(d, path) = Then(x, FlagsWrites(d, path))
    BY <1>1, <1>5, <1>7, <1>9, <1>10
  <1>12. FlagsWrites(d, path) \in Seq(Items)
    BY <1>3, <1>5, <1>6, ThenTyped
  <1>13. WriteProperty(d, path) \in Seq(Items)
    BY <1>2, <1>11, <1>12, ThenTyped
  <1> QED
    BY <1>11, <1>12, <1>13, Zenon DEF x

\* ... WriteState,
LEMMA WriteStateIs ==
    ASSUME NEW d, IsData(d), NEW path
    PROVE  /\ WriteState(d, path) = Then(WriteUInt16BE(Value(d, path, "name")),
                                         Counting("numFunctions", d, path))
           /\ WriteState(d, path) \in Seq(Items)
           /\ \A p : Element("numFunctions", d, p) \in Seq(Items)
  <1> DEFINE a == WriteUInt16BE(Value(d, path, "name"))
             functions == [i \in 1..Size(d, path, "functions") |->
                Then(WriteUInt16BE(Value(d, Child(path, "functions", i), "functionName")),
                     WriteFunction(d, Child(path, "functions", i)))]
  <1>1. a \in Seq(Items)
    BY ValueTyped, NumbersTyped
  <1>2. WriteState(d, path) =
          Then(Then(a, WriteUInt16BE(Value(d, path, "numFunctions"))),
               Joined(functions, Size(d, path, "functions")))
    BY Zenon DEF WriteState, ForEach, Loop, Then
  <1>3. \A p : Element("numFunctions", d, p) \in Seq(Items)
    <2> TAKE p
    <2>1. WriteUInt16BE(Value(d, p, "functionName")) \in Seq(Items)
      BY ValueTyped, NumbersTyped
    <2> QED
      BY <2>1, WriteFunctionTyped, ThenTyped DEF Element
  <1>4. Joined(functions, Size(d, path, "functions"))
          = Rest("numFunctions", d, path, 0)
    <2>1. \A i \in 1..Size(d, path, "functions") :
             functions[i] = Element("numFunctions", d, Child(path, "functions", i))
      BY DEF Element
    <2> HIDE DEF functions
    <2> QED
      BY <2>1, VectorNamesAre, LoopIs
  <1> HIDE DEF a, functions
  <1>5. /\ Then(Then(a, WriteUInt16BE(Value(d, path, "numFunctions"))),
                Rest("numFunctions", d, path, 0))
             = Then(a, Counting("numFunctions", d, path))
        /\ Then(a, Counting("numFunctions", d, path)) \in Seq(Items)
    BY <1>1, <1>3, CountingIs
  <1> QED
    BY <1>2, <1>3, <1>4, <1>5, Zenon DEF a

\* ... WriteObjectData,
ObjectWrites(d, path) ==
    LET member(field) == Value(d, path, field) IN
    Then(Then(Then(Then(Then(Then(
        WriteUInt16BE(member("parentClassName")),
        WriteUInt16BE(member("docString"))),
        WriteUInt32BE(member("userFlags"))),
        WriteUInt16BE(member("autoStateName"))),
        Counting("numVariables", d, path)),
        Counting("numProperties", d, path)),
        Counting("numStates", d, path))

\* WriteObjectData is ObjectWrites and writes items, and so do the elements of its vectors.
LEMMA WriteObjectDataTyped ==
    ASSUME NEW d, IsData(d), NEW path
    PROVE  /\ WriteObjectData(d, path) = ObjectWrites(d, path)
           /\ WriteObjectData(d, path) \in Seq(Items)
           /\ \A p : /\ Element("numVariables", d, p) \in Seq(Items)
                     /\ Element("numProperties", d, p) \in Seq(Items)
                     /\ Element("numStates", d, p) \in Seq(Items)
  <1> DEFINE member(field) == Value(d, path, field)
             a == Then(Then(Then(
                    WriteUInt16BE(member("parentClassName")),
                    WriteUInt16BE(member("docString"))),
                    WriteUInt32BE(member("userFlags"))),
                    WriteUInt16BE(member("autoStateName")))
             b == Then(a, Counting("numVariables", d, path))
             c == Then(b, Counting("numProperties", d, path))
             e == Then(c, Counting("numStates", d, path))
             variables == [i \in 1..Size(d, path, "variables") |->
                             WriteVariable(d, Child(path, "variables", i))]
             properties == [i \in 1..Size(d, path, "properties") |->
                             WriteProperty(d, Child(path, "properties", i))]
             states == [i \in 1..Size(d, path, "states") |->
                             WriteState(d, Child(path, "states", i))]
  <1>1. a \in Seq(Items)
    BY ValueTyped, NumbersTyped, ThenTyped
  <1>2. WriteObjectData(d, path) =
          Then(Then(Then(Then(Then(Then(a,
              WriteUInt16BE(member("numVariables"))),
              Joined(variables, Size(d, path, "variables"))),
              WriteUInt16BE(member("numProperties"))),
              Joined(properties, Size(d, path, "properties"))),
              WriteUInt16BE(member("numStates"))),
              Joined(states, Size(d, path, "states")))
    BY Zenon DEF WriteObjectData, ForEach, Loop, Then
  <1>3. ObjectWrites(d, path) = e
    BY Zenon DEF ObjectWrites
  <1>4. Joined(variables, Size(d, path, "variables")) = Rest("numVariables", d, path, 0)
    <2>1. \A i \in 1..Size(d, path, "variables") :
             variables[i] = Element("numVariables", d, Child(path, "variables", i))
      BY DEF Element
    <2> HIDE DEF variables
    <2> QED
      BY <2>1, VectorNamesAre, LoopIs
  <1>5. Joined(properties, Size(d, path, "properties")) = Rest("numProperties", d, path, 0)
    <2>1. \A i \in 1..Size(d, path, "properties") :
             properties[i] = Element("numProperties", d, Child(path, "properties", i))
      BY DEF Element
    <2> HIDE DEF properties
    <2> QED
      BY <2>1, VectorNamesAre, LoopIs
  <1>6. Joined(states, Size(d, path, "states")) = Rest("numStates", d, path, 0)
    <2>1. \A i \in 1..Size(d, path, "states") :
             states[i] = Element("numStates", d, Child(path, "states", i))
      BY DEF Element
    <2> HIDE DEF states
    <2> QED
      BY <2>1, VectorNamesAre, LoopIs
  <1>7. \A p : /\ Element("numVariables", d, p) \in Seq(Items)
               /\ Element("numProperties", d, p) \in Seq(Items)
               /\ Element("numStates", d, p) \in Seq(Items)
    <2> TAKE p
    <2> QED
      BY WriteVariableIs, WritePropertyIs, WriteStateIs DEF Element
  <1> HIDE DEF a, b, c, e, variables, properties, states
  <1>8. /\ Then(Then(a, WriteUInt16BE(member("numVariables"))), Rest("numVariables", d, path, 0)) = b
        /\ b \in Seq(Items)
    BY <1>1, <1>7, CountingIs DEF b
  <1>9. /\ Then(Then(b, WriteUInt16BE(member("numProperties"))), Rest("numProperties", d, path, 0)) = c
        /\ c \in Seq(Items)
    BY <1>7, <1>8, CountingIs DEF c
  <1>10. /\ Then(Then(c, WriteUInt16BE(member("numStates"))), Rest("numStates", d, path, 0)) = e
         /\ e \in Seq(Items)
    BY <1>7, <1>9, CountingIs DEF e
  <1>11. WriteObjectData(d, path) = e
    BY <1>2, <1>4, <1>5, <1>6, <1>8, <1>9, <1>10, Zenon
  <1> QED
    BY <1>3, <1>7, <1>10, <1>11, Zenon

\* ... and the elements all of them.
LEMMA ElementTyped ==
    ASSUME NEW d, IsData(d), NEW c \in DOMAIN Vector
    PROVE  \A p : Element(c, d, p) \in Seq(Items)
  <1>1. \A p : Element("functionCount", d, p) \in Seq(Items)
    BY WriteDebugFunctionTyped DEF Element
  <1>2. \A p : Element("objectCount", d, p) \in Seq(Items)
    <2> TAKE p
    <2>1. /\ WriteUInt16BE(Value(d, p, "nameIndex")) \in Seq(Items)
          /\ WriteUInt32BE(Value(d, p, "size")) \in Seq(Items)
      BY ValueTyped, NumbersTyped
    <2> QED
      BY <2>1, WriteObjectDataTyped, ThenTyped DEF Element
  <1>3. \A p : Element("numFunctions", d, p) \in Seq(Items)
    BY WriteStateIs
  <1>4. \A p : /\ Element("numVariables", d, p) \in Seq(Items)
               /\ Element("numProperties", d, p) \in Seq(Items)
               /\ Element("numStates", d, p) \in Seq(Items)
    BY WriteObjectDataTyped
  <1> QED
    BY <1>1, <1>2, <1>3, <1>4, SmallElementsTyped, VectorDomain

-----------------------------------------------------------------------------
(* ... and for all of it *)

\* The header, member by member.
HeaderWrites(d, path) ==
    LET member(field) == Value(d, path, field) IN
    Then(Then(Then(Then(Then(Then(Then(
        WriteUInt32BE(member("magic")),
        WriteUInt8(member("majorVersion"))),
        WriteUInt8(member("minorVersion"))),
        WriteUInt16BE(member("gameId"))),
        WriteUInt64BE(member("compilationTime"))),
        WriteWString(d, path, "sourceFileName")),
        WriteWString(d, path, "username")),
        WriteWString(d, path, "machinename"))

\* WriteHeader is HeaderWrites, and writes items.
LEMMA WriteHeaderIs ==
    ASSUME NEW d, IsData(d)
    PROVE  /\ WriteHeader(d) = HeaderWrites(d, << >>)
           /\ HeaderWrites(d, << >>) \in Seq(Items)
  <1>1. WriteHeader(d) = HeaderWrites(d, << >>)
    BY Zenon DEF WriteHeader, HeaderWrites, Then
  <1>2. \A field : /\ WriteUInt8(Value(d, << >>, field)) \in Seq(Items)
                   /\ WriteUInt16BE(Value(d, << >>, field)) \in Seq(Items)
                   /\ WriteUInt32BE(Value(d, << >>, field)) \in Seq(Items)
                   /\ WriteUInt64BE(Value(d, << >>, field)) \in Seq(Items)
                   /\ WriteWString(d, << >>, field) \in Seq(Items)
    BY ValueTyped, NumbersTyped, WriteWStringTyped
  <1> QED
    BY <1>1, <1>2, ThenTyped DEF HeaderWrites

\* The string table is written as long as its count says.
LEMMA WriteStringTableIs ==
    ASSUME NEW d, IsData(d)
    PROVE  /\ WriteStringTable(d) \in Seq(Items)
           /\ Value(d, << >>, "count") = Size(d, << >>, "strings") =>
                 WriteStringTable(d) = Counting("count", d, << >>)
  <1> DEFINE n == Value(d, << >>, "count")
             s == [i \in 1..n |-> WriteWString(d, Child(<< >>, "strings", i), "bytes")]
  <1>1. WriteStringTable(d) = Then(WriteUInt16BE(n), Joined(s, n))
    BY Zenon DEF WriteStringTable, Loop, Then
  <1>2. n \in Nat
    BY ValueTyped
  <1>3. Sequences(s, n, Items)
    BY WriteWStringTyped DEF Sequences
  <1>4. \A i \in 1..n : s[i] = Element("count", d, Child(<< >>, "strings", i))
    BY DEF Element
  <1> HIDE DEF s
  <1>5. Joined(s, n) \in Seq(Items) /\ WriteUInt16BE(n) \in Seq(Items)
    BY <1>2, <1>3, JoinedTyped, NumbersTyped
  <1>6. ASSUME n = Size(d, << >>, "strings")
        PROVE  WriteStringTable(d) = Counting("count", d, << >>)
    <2>1. \A i \in 1..Size(d, << >>, "strings") :
             s[i] = Element("count", d, Child(<< >>, "strings", i))
      BY <1>4, <1>6
    <2>2. Joined(s, Size(d, << >>, "strings")) = Rest("count", d, << >>, 0)
      BY <2>1, VectorNamesAre, LoopIs
    <2> QED
      BY <1>1, <1>6, <2>2 DEF Counting
  <1> QED
    BY <1>1, <1>5, <1>6, ThenTyped

\* The flag, and when it is not 0 the time and the functions.
DebugInfoWrites(d, path) ==
    Then(WriteUInt8(Value(d, path, "hasDebugInfo")),
         IF Value(d, path, "hasDebugInfo") = 0 THEN << >>
         ELSE Then(WriteUInt64BE(Value(d, path, "modificationTime")),
                   Counting("functionCount", d, path)))

\* WriteDebugInfo is DebugInfoWrites, and writes items.
LEMMA WriteDebugInfoIs ==
    ASSUME NEW d, IsData(d)
    PROVE  /\ WriteDebugInfo(d) = DebugInfoWrites(d, << >>)
           /\ \A path : DebugInfoWrites(d, path) \in Seq(Items)
  <1> DEFINE flag == Value(d, << >>, "hasDebugInfo")
             a == WriteUInt64BE(Value(d, << >>, "modificationTime"))
             b == WriteUInt16BE(Value(d, << >>, "functionCount"))
             s == [i \in 1..Size(d, << >>, "functions") |->
                     WriteDebugFunction(d, Child(<< >>, "functions", i))]
             t == Joined(s, Size(d, << >>, "functions"))
  <1>1. WriteDebugInfo(d) =
           Then(WriteUInt8(flag), IF flag = 0 THEN << >> ELSE Then(Then(a, b), t))
    BY Zenon DEF WriteDebugInfo, ForEach, Loop, Then
  <1>2. \A i \in 1..Size(d, << >>, "functions") :
           s[i] = Element("functionCount", d, Child(<< >>, "functions", i))
    BY DEF Element
  <1>3. \A path : /\ WriteUInt64BE(Value(d, path, "modificationTime")) \in Seq(Items)
                  /\ WriteUInt8(Value(d, path, "hasDebugInfo")) \in Seq(Items)
    BY ValueTyped, NumbersTyped
  <1>4. "functionCount" \in DOMAIN Vector
    BY VectorDomain
  <1> HIDE DEF s
  <1>5. Then(Then(a, b), t) = Then(a, Counting("functionCount", d, << >>))
    <2>1. t = Rest("functionCount", d, << >>, 0)
      BY <1>2, VectorNamesAre, LoopIs
    <2>2. \A p : Element("functionCount", d, p) \in Seq(Items)
      BY <1>4, ElementTyped
    <2> QED
      BY <1>3, <2>1, <2>2, CountingIs
  <1>6. WriteDebugInfo(d) = DebugInfoWrites(d, << >>)
    BY <1>1, <1>5, Zenon DEF DebugInfoWrites
  <1>7. \A path : Counting("functionCount", d, path) \in Seq(Items)
    BY <1>4, ElementTyped, CountingIs
  <1>8. \A path : DebugInfoWrites(d, path) \in Seq(Items)
    BY <1>3, <1>7, NothingTyped, ThenTyped DEF DebugInfoWrites
  <1> QED
    BY <1>6, <1>8

\* WriteUserFlags writes the count of the user flags and each of them.
LEMMA WriteUserFlagsIs ==
    ASSUME NEW d, IsData(d)
    PROVE  /\ WriteUserFlags(d) = Counting("userFlagCount", d, << >>)
           /\ WriteUserFlags(d) \in Seq(Items)
  <1> DEFINE s == [i \in 1..Size(d, << >>, "userFlags") |->
                Then(WriteUInt16BE(Value(d, Child(<< >>, "userFlags", i), "flagNameIndex")),
                     WriteUInt8(Value(d, Child(<< >>, "userFlags", i), "flagIndex")))]
  <1>1. WriteUserFlags(d) = Then(WriteUInt16BE(Value(d, << >>, "userFlagCount")),
                                 Joined(s, Size(d, << >>, "userFlags")))
    BY Zenon DEF WriteUserFlags, ForEach, Loop, Then
  <1>2. \A i \in 1..Size(d, << >>, "userFlags") :
           s[i] = Element("userFlagCount", d, Child(<< >>, "userFlags", i))
    BY DEF Element
  <1>3. "userFlagCount" \in DOMAIN Vector
    BY VectorDomain
  <1> HIDE DEF s
  <1>4. Joined(s, Size(d, << >>, "userFlags")) = Rest("userFlagCount", d, << >>, 0)
    BY <1>2, VectorNamesAre, LoopIs
  <1>5. Counting("userFlagCount", d, << >>) \in Seq(Items)
    BY <1>3, ElementTyped, CountingIs
  <1> QED
    BY <1>1, <1>4, <1>5 DEF Counting

\* WriteObjects writes the count of the objects and each of them.
LEMMA WriteObjectsIs ==
    ASSUME NEW d, IsData(d)
    PROVE  /\ WriteObjects(d) = Counting("objectCount", d, << >>)
           /\ WriteObjects(d) \in Seq(Items)
  <1> DEFINE object(i) == Child(<< >>, "objects", i)
             s == [i \in 1..Size(d, << >>, "objects") |->
                     Then(Then(WriteUInt16BE(Value(d, object(i), "nameIndex")),
                               WriteUInt32BE(Value(d, object(i), "size"))),
                          WriteObjectData(d, object(i)))]
  <1>1. WriteObjects(d) = Then(WriteUInt16BE(Value(d, << >>, "objectCount")),
                               Joined(s, Size(d, << >>, "objects")))
    BY Zenon DEF WriteObjects, ForEach, Loop, Then
  <1>2. \A i \in 1..Size(d, << >>, "objects") :
           s[i] = Element("objectCount", d, Child(<< >>, "objects", i))
    BY DEF Element
  <1>3. "objectCount" \in DOMAIN Vector
    BY VectorDomain
  <1> HIDE DEF s
  <1>4. Joined(s, Size(d, << >>, "objects")) = Rest("objectCount", d, << >>, 0)
    BY <1>2, VectorNamesAre, LoopIs
  <1>5. Counting("objectCount", d, << >>) \in Seq(Items)
    BY <1>3, ElementTyped, CountingIs
  <1> QED
    BY <1>1, <1>4, <1>5 DEF Counting

\* Everything Save writes is an item, whatever the data.
LEMMA WritesTyped ==
    ASSUME NEW d, IsData(d)
    PROVE  /\ Writes(d) = Then(Then(Then(Then(WriteHeader(d), WriteStringTable(d)),
                                         WriteDebugInfo(d)),
                                    WriteUserFlags(d)),
                               WriteObjects(d))
           /\ Writes(d) \in Seq(Items)
  <1>1. Writes(d) = Then(Then(Then(Then(WriteHeader(d), WriteStringTable(d)),
                                         WriteDebugInfo(d)),
                                    WriteUserFlags(d)),
                               WriteObjects(d))
    BY Zenon DEF Writes, Then
  <1>2. /\ WriteHeader(d) \in Seq(Items) /\ WriteStringTable(d) \in Seq(Items)
        /\ WriteDebugInfo(d) \in Seq(Items) /\ WriteUserFlags(d) \in Seq(Items)
        /\ WriteObjects(d) \in Seq(Items)
    BY WriteHeaderIs, WriteStringTableIs, WriteDebugInfoIs, WriteUserFlagsIs,
       WriteObjectsIs
  <1> QED
    BY <1>1, <1>2, ThenTyped

-----------------------------------------------------------------------------
(* What a goal of the agenda stands for *)

\* What Save writes where Load takes the step of g, and the steps that follow
\* from it.
Emit(g, d) ==
    LET member == Value(d, g.path, g.field) IN
    CASE g.kind \in {"magic", "u32"} -> WriteUInt32BE(member)
      [] g.kind = "u8" -> WriteUInt8(member)
      [] g.kind = "u16" -> WriteUInt16BE(member)
      [] g.kind = "u64" -> WriteUInt64BE(member)
      [] g.kind = "string" -> WriteWString(d, g.path, g.field)
      [] g.kind = "payload" -> << Text(g.n, member) >>
      [] g.kind = "count" -> Counting(g.field, d, g.path)
      [] g.kind = "loop" -> Rest(g.field, d, g.path, g.n)
      [] g.kind = "debugFlag" -> DebugInfoWrites(d, g.path)
      [] g.kind = "objectSize" -> Then(WriteUInt32BE(Value(d, g.path, "size")),
                                       WriteObjectData(d, g.path))
      [] g.kind = "propertyFlags" -> FlagsWrites(d, g.path)
      [] g.kind = "type" -> WriteVariableData(d, g.path)
      [] g.kind = "opcode" -> WriteInstruction(d, g.path)
      [] g.kind = "callArguments" ->
            JoinedFrom(Arguments(d, g.path), g.n, Size(d, g.path, "arguments"))
      [] OTHER -> << >>

\* What a sequence of goals stands for.
EmitAll(goals, d) == Joined([i \in DOMAIN goals |-> Emit(goals[i], d)], Len(goals))

\* What a goal stands for is a sequence of items.
LEMMA EmitTyped ==
    ASSUME NEW d, IsData(d), NEW g \in Goals
    PROVE  Emit(g, d) \in Seq(Items)
  <1> DEFINE member == Value(d, g.path, g.field)
  <1>0. /\ g.n \in Nat /\ member \in Nat
        /\ g.kind \in DOMAIN Width \cup {"payload"} => <<g.kind, g.field>> \in Members
        /\ g.kind = "loop" => g.field \in DOMAIN Vector
    BY ValueTyped DEF Goals
  <1>1. CASE g.kind \in {"magic", "u8", "u16", "u32", "u64"}
    <2>1. /\ WriteUInt8(member) \in Seq(Items) /\ WriteUInt16BE(member) \in Seq(Items)
          /\ WriteUInt32BE(member) \in Seq(Items) /\ WriteUInt64BE(member) \in Seq(Items)
      BY <1>0, NumbersTyped
    <2> QED
      BY <1>1, <2>1 DEF Emit
  <1>2. CASE g.kind \in {"count", "loop"}
    <2>1. g.field \in DOMAIN Vector
      BY <1>0, <1>2, MemberNames DEF Width
    <2>2. \A p : Element(g.field, d, p) \in Seq(Items)
      BY <2>1, ElementTyped
    <2>3. /\ Counting(g.field, d, g.path) \in Seq(Items)
          /\ Rest(g.field, d, g.path, g.n) \in Seq(Items)
      BY <1>0, <2>2, CountingIs, RestTyped
    <2> QED
      BY <1>2, <2>3 DEF Emit
  <1>3. CASE g.kind \in {"string", "payload", "type", "opcode"}
    <2>1. /\ WriteWString(d, g.path, g.field) \in Seq(Items)
          /\ << Text(g.n, member) >> \in Seq(Items)
          /\ WriteVariableData(d, g.path) \in Seq(Items)
          /\ WriteInstruction(d, g.path) \in Seq(Items)
      BY <1>0, WriteWStringTyped, NumberTyped, WriteVariableDataTyped,
         WriteInstructionTyped
    <2> QED
      BY <1>3, <2>1 DEF Emit
  <1>4. CASE g.kind \in {"debugFlag", "propertyFlags", "objectSize"}
    <2>1. /\ DebugInfoWrites(d, g.path) \in Seq(Items)
          /\ FlagsWrites(d, g.path) \in Seq(Items)
          /\ WriteObjectData(d, g.path) \in Seq(Items)
      BY WriteDebugInfoIs, WritePropertyIs, WriteObjectDataTyped
    <2>2. WriteUInt32BE(Value(d, g.path, "size")) \in Seq(Items)
      BY ValueTyped, NumbersTyped
    <2> QED
      BY <1>4, <2>1, <2>2, ThenTyped DEF Emit
  <1>5. CASE g.kind = "callArguments"
    <2>1. JoinedFrom(Arguments(d, g.path), g.n, Size(d, g.path, "arguments"))
             \in Seq(Items)
      BY <1>0, ValueTyped, WriteInstructionTyped, JoinedFromTyped
    <2> QED
      BY <1>5, <2>1 DEF Emit
  <1>6. CASE g.kind \in {"objectEnd", "push"}
    BY <1>6, NothingTyped DEF Emit
  <1>7. g.kind \in {"magic", "u8", "u16", "u32", "u64", "count", "loop", "string",
                    "payload", "type", "opcode", "debugFlag", "propertyFlags",
                    "objectSize", "callArguments", "objectEnd", "push"}
    BY DEF Goals, Kinds, Width
  <1> QED
    BY <1>1, <1>2, <1>3, <1>4, <1>5, <1>6, <1>7

\* So is what a sequence of goals stands for.
LEMMA EmitAllTyped ==
    ASSUME NEW d, IsData(d), NEW goals \in Seq(Goals)
    PROVE  /\ EmitAll(goals, d) \in Seq(Items)
           /\ Sequences([i \in DOMAIN goals |-> Emit(goals[i], d)], Len(goals), Items)
  <1> DEFINE s == [i \in DOMAIN goals |-> Emit(goals[i], d)]
  <1>1. Sequences(s, Len(goals), Items)
    BY EmitTyped DEF Sequences
  <1>2. EmitAll(goals, d) = Joined(s, Len(goals)) /\ Len(goals) \in Nat
    BY DEF EmitAll
  <1> HIDE DEF s
  <1>3. EmitAll(goals, d) \in Seq(Items)
    BY <1>1, <1>2, JoinedTyped
  <1> QED
    BY <1>1, <1>3 DEF s

\* ... for some steps and then others,
LEMMA EmitThen ==
    ASSUME NEW d, IsData(d), NEW a \in Seq(Goals), NEW b \in Seq(Goals)
    PROVE  /\ Then(a, b) \in Seq(Goals)
           /\ EmitAll(Then(a, b), d) = Then(EmitAll(a, d), EmitAll(b, d))
  <1> DEFINE c == a \o b
             s == [i \in DOMAIN c |-> Emit(c[i], d)]
             t == [i \in DOMAIN a |-> Emit(a[i], d)]
             u == [i \in DOMAIN b |-> Emit(b[i], d)]
  <1>1. /\ c \in Seq(Goals) /\ Len(c) = Len(a) + Len(b)
        /\ \A i \in 1..Len(a) : c[i] = a[i]
        /\ \A i \in 1..Len(b) : c[Len(a) + i] = b[i]
        /\ Len(a) \in Nat /\ Len(b) \in Nat
    OBVIOUS
  <1>2. Sequences(s, Len(c), Items)
    BY <1>1, EmitTyped DEF Sequences
  <1>3. \A i \in 1..Len(a) : s[i] = t[i]
    BY <1>1
  <1>4. Follow(u, Len(b), s, Len(a))
    BY <1>1 DEF Follow
  <1>5. /\ EmitAll(c, d) = Joined(s, Len(c))
        /\ EmitAll(a, d) = Joined(t, Len(a))
        /\ EmitAll(b, d) = Joined(u, Len(b))
    BY DEF EmitAll
  <1>6. Then(a, b) = c
    BY DEF Then
  <1> HIDE DEF c, s, t, u
  <1>7. IsSum(Len(c), Len(a), Len(b)) /\ Len(c) \in Nat
    BY <1>1 DEF IsSum
  <1>8. Joined(s, Len(c)) = Then(Joined(s, Len(a)), Joined(u, Len(b)))
    BY <1>1, <1>2, <1>4, <1>7, JoinedParts
  <1>9. Joined(s, Len(a)) = Joined(t, Len(a))
    BY <1>1, <1>3, JoinedSame
  <1> QED
    BY <1>1, <1>5, <1>6, <1>8, <1>9

\* ... for none, for one,
LEMMA EmitFew ==
    ASSUME NEW d, IsData(d)
    PROVE  /\ EmitAll(<< >>, d) = << >>
           /\ \A g \in Goals : <<g>> \in Seq(Goals) /\ EmitAll(<<g>>, d) = Emit(g, d)
  <1>1. EmitAll(<< >>, d) = << >>
    <2>1. EmitAll(<< >>, d) = Joined([i \in DOMAIN << >> |-> Emit(<< >>[i], d)], 0)
      BY DEF EmitAll
    <2> QED
      BY <2>1, JoinedNone
  <1>2. ASSUME NEW g \in Goals PROVE EmitAll(<<g>>, d) = Emit(g, d)
    <2> DEFINE s == [i \in DOMAIN <<g>> |-> Emit(<<g>>[i], d)]
    <2>1. EmitAll(<<g>>, d) = Joined(s, 1) /\ s[1] = Emit(g, d)
      BY DEF EmitAll
    <2>2. s[1] \in Seq(Items)
      BY <2>1, EmitTyped
    <2> HIDE DEF s
    <2> QED
      BY <2>1, <2>2, JoinedFew
  <1> QED
    BY <1>1, <1>2

\* ... and for the first and those after it.
LEMMA EmitHead ==
    ASSUME NEW d, IsData(d), TypeOK, agenda # << >>
    PROVE  EmitAll(agenda, d) = Then(Emit(head, d), EmitAll(Tail(agenda), d))
  <1>1. head \in Goals /\ Tail(agenda) \in Seq(Goals)
    BY HeadTyped
  <1>2. agenda = Then(<<head>>, Tail(agenda))
    BY DEF TypeOK, Then, head
  <1> QED
    BY <1>1, <1>2, EmitThen, EmitFew

\* The reads of a table, one by one.
ReadsOf(body, path, d) ==
    [i \in DOMAIN body |-> Emit(Goal(body[i][1], path, body[i][2], 0), d)]

\* The goals of a reading table stand for the reads of the table, one after the other.
LEMMA EmitReads ==
    ASSUME NEW d, IsData(d), NEW body \in Seq(Reading), NEW path \in Path
    PROVE  /\ EmitAll(Reads(body, path), d) = Joined(ReadsOf(body, path, d), Len(body))
           /\ \A i \in DOMAIN body : ReadsOf(body, path, d)[i] \in Seq(Items)
  <1>1. Reads(body, path) \in Seq(Goals)
    BY ReadsTyped
  <1>2. /\ DOMAIN Reads(body, path) = DOMAIN body
        /\ Len(Reads(body, path)) = Len(body)
        /\ \A i \in DOMAIN body :
              Reads(body, path)[i] = Goal(body[i][1], path, body[i][2], 0)
    BY DEF Reads
  <1>3. \A i \in DOMAIN body : Reads(body, path)[i] \in Goals
    BY <1>1, <1>2
  <1> DEFINE s == [i \in DOMAIN Reads(body, path) |-> Emit(Reads(body, path)[i], d)]
  <1>4. s = ReadsOf(body, path, d)
    BY <1>2 DEF ReadsOf
  <1>5. EmitAll(Reads(body, path), d) = Joined(s, Len(body))
    BY <1>2 DEF EmitAll
  <1>6. \A i \in DOMAIN body : s[i] \in Seq(Items)
    BY <1>2, <1>3, EmitTyped
  <1> QED
    BY <1>4, <1>5, <1>6

\* What the goals that read one member stand for.
LEMMA EmitIs ==
    ASSUME NEW d, NEW path, NEW field, NEW n
    PROVE  /\ Emit(Goal("magic", path, field, n), d) = WriteUInt32BE(Value(d, path, field))
           /\ Emit(Goal("u8", path, field, n), d) = WriteUInt8(Value(d, path, field))
           /\ Emit(Goal("u16", path, field, n), d) = WriteUInt16BE(Value(d, path, field))
           /\ Emit(Goal("u32", path, field, n), d) = WriteUInt32BE(Value(d, path, field))
           /\ Emit(Goal("u64", path, field, n), d) = WriteUInt64BE(Value(d, path, field))
           /\ Emit(Goal("string", path, field, n), d) = WriteWString(d, path, field)
           /\ Emit(Goal("payload", path, field, n), d) = << Text(n, Value(d, path, field)) >>
           /\ Emit(Goal("count", path, field, n), d) = Counting(field, d, path)
           /\ Emit(Goal("loop", path, field, n), d) = Rest(field, d, path, n)
           /\ Emit(Goal("debugFlag", path, field, n), d) = DebugInfoWrites(d, path)
           /\ Emit(Goal("objectSize", path, field, n), d) =
                 Then(WriteUInt32BE(Value(d, path, "size")), WriteObjectData(d, path))
           /\ Emit(Goal("propertyFlags", path, field, n), d) = FlagsWrites(d, path)
           /\ Emit(Goal("type", path, field, n), d) = WriteVariableData(d, path)
           /\ Emit(Goal("opcode", path, field, n), d) = WriteInstruction(d, path)
           /\ Emit(Goal("callArguments", path, field, n), d) =
                 JoinedFrom(Arguments(d, path), n, Size(d, path, "arguments"))
           /\ Emit(Goal("objectEnd", path, field, n), d) = << >>
           /\ Emit(Goal("push", path, field, n), d) = << >>
  BY DEF Emit, Goal

\* Joined for the lengths the reading tables have.
LEMMA JoinedEach ==
    ASSUME NEW S, NEW s, s[1] \in Seq(S)
    PROVE  /\ Joined(s, 1) = s[1]
           /\ Joined(s, 2) = Then(s[1], s[2])
           /\ Joined(s, 4) = Then(Then(Then(s[1], s[2]), s[3]), s[4])
           /\ Joined(s, 5) = Then(Then(Then(Then(s[1], s[2]), s[3]), s[4]), s[5])
           /\ Joined(s, 7) = Then(Then(Then(Then(Then(Then(
                                s[1], s[2]), s[3]), s[4]), s[5]), s[6]), s[7])
           /\ Joined(s, 8) = Then(Then(Then(Then(Then(Then(Then(
                                s[1], s[2]), s[3]), s[4]), s[5]), s[6]), s[7]), s[8])
  <1>1. /\ 1 + 1 = 2 /\ 2 + 1 = 3 /\ 3 + 1 = 4 /\ 4 + 1 = 5 /\ 5 + 1 = 6
        /\ 6 + 1 = 7 /\ 7 + 1 = 8
    OBVIOUS
  <1>2. Joined(s, 1) = s[1]
    BY JoinedFew
  <1>3. \A n \in Nat : Joined(s, n + 1) = Then(Joined(s, n), s[n + 1])
    BY JoinedFew
  <1>4. /\ Joined(s, 1 + 1) = Then(Joined(s, 1), s[1 + 1])
        /\ Joined(s, 2 + 1) = Then(Joined(s, 2), s[2 + 1])
        /\ Joined(s, 3 + 1) = Then(Joined(s, 3), s[3 + 1])
        /\ Joined(s, 4 + 1) = Then(Joined(s, 4), s[4 + 1])
        /\ Joined(s, 5 + 1) = Then(Joined(s, 5), s[5 + 1])
        /\ Joined(s, 6 + 1) = Then(Joined(s, 6), s[6 + 1])
        /\ Joined(s, 7 + 1) = Then(Joined(s, 7), s[7 + 1])
    BY <1>3
  <1> QED
    BY <1>1, <1>2, <1>4

\* What the Read functions and the Write functions do agrees table by table:
\* the data of an object and a function,
LEMMA EmitObjectData ==
    ASSUME NEW d, IsData(d), NEW path \in Path
    PROVE  EmitAll(Reads(ReadObjectData, path), d) = WriteObjectData(d, path)
  <1> DEFINE s == ReadsOf(ReadObjectData, path, d)
  <1>1. /\ Len(ReadObjectData) = 7 /\ 1 \in DOMAIN ReadObjectData
        /\ s[1] = WriteUInt16BE(Value(d, path, "parentClassName"))
        /\ s[2] = WriteUInt16BE(Value(d, path, "docString"))
        /\ s[3] = WriteUInt32BE(Value(d, path, "userFlags"))
        /\ s[4] = WriteUInt16BE(Value(d, path, "autoStateName"))
        /\ s[5] = Counting("numVariables", d, path)
        /\ s[6] = Counting("numProperties", d, path)
        /\ s[7] = Counting("numStates", d, path)
    BY EmitIs DEF ReadsOf, ReadObjectData
  <1>2. EmitAll(Reads(ReadObjectData, path), d) = Joined(s, 7) /\ s[1] \in Seq(Items)
    BY <1>1, ObjectDataTyped, EmitReads
  <1>3. WriteObjectData(d, path) = ObjectWrites(d, path)
    BY WriteObjectDataTyped
  <1> HIDE DEF s
  <1> QED
    BY <1>1, <1>2, <1>3, JoinedEach DEF ObjectWrites

\* Reading a function is writing one: the table ReadFunction against WriteFunction.
LEMMA EmitFunction ==
    ASSUME NEW d, IsData(d), NEW path \in Path
    PROVE  EmitAll(Reads(ReadFunction, path), d) = WriteFunction(d, path)
  <1> DEFINE s == ReadsOf(ReadFunction, path, d)
  <1>1. /\ Len(ReadFunction) = 7 /\ 1 \in DOMAIN ReadFunction
        /\ s[1] = WriteUInt16BE(Value(d, path, "returnType"))
        /\ s[2] = WriteUInt16BE(Value(d, path, "docString"))
        /\ s[3] = WriteUInt32BE(Value(d, path, "userFlags"))
        /\ s[4] = WriteUInt8(Value(d, path, "flags"))
        /\ s[5] = Counting("numParams", d, path)
        /\ s[6] = Counting("numLocals", d, path)
        /\ s[7] = Counting("numInstructions", d, path)
    BY EmitIs DEF ReadsOf, ReadFunction
  <1>2. EmitAll(Reads(ReadFunction, path), d) = Joined(s, 7) /\ s[1] \in Seq(Items)
    BY <1>1, FunctionTyped, EmitReads
  <1>3. WriteFunction(d, path) = FunctionWrites(d, path)
    BY WriteFunctionTyped
  <1> HIDE DEF s
  <1> QED
    BY <1>1, <1>2, <1>3, JoinedEach DEF FunctionWrites

\* The goals of two tables one after the other.
LEMMA ReadsThen ==
    ASSUME NEW a \in Seq(Reading), NEW b \in Seq(Reading), NEW path \in Path
    PROVE  /\ Then(a, b) \in Seq(Reading)
           /\ Reads(Then(a, b), path) = Then(Reads(a, path), Reads(b, path))
           /\ Reads(a, path) \in Seq(Goals) /\ Reads(b, path) \in Seq(Goals)
  <1>1. Then(a, b) \in Seq(Reading)
    BY ThenTyped
  <1>2. Reads(a, path) \in Seq(Goals) /\ Reads(b, path) \in Seq(Goals)
    BY ReadsTyped
  <1>3. Reads(a \o b, path) = Reads(a, path) \o Reads(b, path)
    <2> DEFINE c == a \o b
               x == Reads(c, path)
               y == Reads(a, path) \o Reads(b, path)
    <2>1. /\ c \in Seq(Reading) /\ Len(c) = Len(a) + Len(b)
          /\ Len(a) \in Nat /\ Len(b) \in Nat
          /\ \A i \in 1..Len(c) :
                c[i] = IF i <= Len(a) THEN a[i] ELSE b[i - Len(a)]
      OBVIOUS
    <2>2. /\ Len(Reads(a, path)) = Len(a) /\ Len(Reads(b, path)) = Len(b)
          /\ \A i \in 1..Len(a) : Reads(a, path)[i] = Goal(a[i][1], path, a[i][2], 0)
          /\ \A i \in 1..Len(b) : Reads(b, path)[i] = Goal(b[i][1], path, b[i][2], 0)
      BY DEF Reads
    <2>3. /\ y \in Seq(Goals) /\ Len(y) = Len(a) + Len(b)
          /\ \A i \in 1..Len(y) : y[i] = IF i <= Len(a) THEN Reads(a, path)[i]
                                          ELSE Reads(b, path)[i - Len(a)]
      <3> DEFINE ra == Reads(a, path)
                 rb == Reads(b, path)
      <3>1. ra \in Seq(Goals) /\ rb \in Seq(Goals)
            /\ Len(ra) = Len(a) /\ Len(rb) = Len(b)
        BY <1>2, <2>2
      <3> HIDE DEF ra, rb
      <3>2. /\ ra \o rb \in Seq(Goals) /\ Len(ra \o rb) = Len(ra) + Len(rb)
            /\ \A i \in 1..Len(ra \o rb) : (ra \o rb)[i] =
                  IF i <= Len(ra) THEN ra[i] ELSE rb[i - Len(ra)]
        BY <3>1
      <3> QED
        BY <3>1, <3>2, Zenon DEF ra, rb
    <2>4. /\ x \in Seq(Goals) /\ Len(x) = Len(c)
          /\ \A i \in 1..Len(c) : x[i] = Goal(c[i][1], path, c[i][2], 0)
      <3> HIDE DEF c
      <3>1. x \in Seq(Goals)
        BY <2>1, ReadsTyped
      <3>2. DOMAIN c = 1..Len(c) /\ Len(c) \in Nat
        BY <2>1
      <3>3. x = [i \in 1..Len(c) |-> Goal(c[i][1], path, c[i][2], 0)]
        BY <3>2, Zenon DEF Reads
      <3> QED
        BY <3>1, <3>2, <3>3
    <2>5. \A i \in 1..Len(c) : x[i] = y[i]
      <3> SUFFICES ASSUME NEW i \in 1..Len(c) PROVE x[i] = y[i]
        OBVIOUS
      <3> HIDE DEF c, x, y
      <3>1. CASE i <= Len(a)
        BY <2>1, <2>2, <2>3, <2>4, <3>1
      <3>2. CASE i > Len(a)
        <4>1. i - Len(a) \in 1..Len(b) /\ ~(i <= Len(a)) /\ i \in 1..Len(y)
          BY <2>1, <2>3, <3>2
        <4>2. c[i] = b[i - Len(a)] /\ y[i] = Reads(b, path)[i - Len(a)]
          BY <2>1, <2>3, <4>1
        <4> QED
          BY <2>2, <2>4, <4>1, <4>2
      <3> QED
        BY <2>1, <3>1, <3>2
    <2> HIDE DEF c, x, y
    <2>6. x = y
      BY <2>1, <2>3, <2>4, <2>5, SeqEqual
    <2> QED
      BY <2>6 DEF c, x, y
  <1> QED
    BY <1>1, <1>2, <1>3 DEF Then

\* ... the elements of every vector,
LEMMA EmitElement ==
    ASSUME NEW d, IsData(d), NEW path \in Path, NEW c \in DOMAIN Vector
    PROVE  EmitAll(Reads(Vector[c].element, path), d) = Element(c, d, path)
  <1> DEFINE body == Vector[c].element
             s == ReadsOf(body, path, d)
  <1>0. body \in Seq(Reading)
    BY VectorTyped
  <1>1. EmitAll(Reads(body, path), d) = Joined(s, Len(body))
    BY <1>0, EmitReads
  <1>2. 1 \in DOMAIN body => s[1] \in Seq(Items)
    BY <1>0, EmitReads
  <1>3. CASE c = "count"
    <2>1. Len(body) = 1 /\ 1 \in DOMAIN body
          /\ s[1] = WriteWString(d, path, "bytes")
      BY <1>3, EmitIs DEF ReadsOf, Vector
    <2> HIDE DEF s, body
    <2> QED
      BY <1>1, <1>2, <1>3, <2>1, JoinedEach DEF Element, body
  <1>4. CASE c = "instructionCount"
    <2>1. Len(body) = 1 /\ 1 \in DOMAIN body
          /\ s[1] = WriteUInt16BE(Value(d, path, "line"))
      BY <1>4, EmitIs DEF ReadsOf, Vector
    <2> HIDE DEF s, body
    <2> QED
      BY <1>1, <1>2, <1>4, <2>1, JoinedEach DEF Element, body
  <1>5. CASE c = "numInstructions"
    <2>1. Len(body) = 1 /\ 1 \in DOMAIN body
          /\ s[1] = WriteInstruction(d, path)
      BY <1>5, EmitIs DEF ReadsOf, Vector
    <2> HIDE DEF s, body
    <2> QED
      BY <1>1, <1>2, <1>5, <2>1, JoinedEach DEF Element, body
  <1>6. CASE c = "userFlagCount"
    <2>1. Len(body) = 2 /\ 1 \in DOMAIN body
          /\ s[1] = WriteUInt16BE(Value(d, path, "flagNameIndex"))
          /\ s[2] = WriteUInt8(Value(d, path, "flagIndex"))
      BY <1>6, EmitIs DEF ReadsOf, Vector
    <2> HIDE DEF s, body
    <2> QED
      BY <1>1, <1>2, <1>6, <2>1, JoinedEach DEF Element, body
  <1>7. CASE c \in {"numParams", "numLocals"}
    <2>1. Len(body) = 2 /\ 1 \in DOMAIN body
          /\ s[1] = WriteUInt16BE(Value(d, path, "name"))
          /\ s[2] = WriteUInt16BE(Value(d, path, "type"))
      BY <1>7, EmitIs DEF ReadsOf, Vector, ReadVariableType
    <2> HIDE DEF s, body
    <2> QED
      BY <1>1, <1>2, <1>7, <2>1, JoinedEach DEF Element, body
  <1>8. CASE c = "objectCount"
    <2> DEFINE a == WriteUInt16BE(Value(d, path, "nameIndex"))
               b == WriteUInt32BE(Value(d, path, "size"))
    <2>1. Len(body) = 2 /\ 1 \in DOMAIN body
          /\ s[1] = a /\ s[2] = Then(b, WriteObjectData(d, path))
      BY <1>8, EmitIs DEF ReadsOf, Vector
    <2>2. a \in Seq(Items) /\ b \in Seq(Items) /\ WriteObjectData(d, path) \in Seq(Items)
      BY ValueTyped, NumbersTyped, WriteObjectDataTyped
    <2>3. Element(c, d, path) = Then(Then(a, b), WriteObjectData(d, path))
      BY <1>8 DEF Element
    <2>4. Then(Then(a, b), WriteObjectData(d, path))
             = Then(a, Then(b, WriteObjectData(d, path)))
      BY <2>2, ThenAssociative
    <2> HIDE DEF s, body, a, b
    <2> QED
      BY <1>1, <1>2, <2>1, <2>3, <2>4, JoinedEach DEF body
  <1>9. CASE c = "numStates"
    <2>1. Len(body) = 2 /\ 1 \in DOMAIN body
          /\ s[1] = WriteUInt16BE(Value(d, path, "name"))
          /\ s[2] = Counting("numFunctions", d, path)
      BY <1>9, EmitIs DEF ReadsOf, Vector, ReadState
    <2>2. Element(c, d, path) = Then(WriteUInt16BE(Value(d, path, "name")),
                                     Counting("numFunctions", d, path))
      BY <1>9, WriteStateIs DEF Element
    <2> HIDE DEF s, body
    <2> QED
      BY <1>1, <1>2, <2>1, <2>2, JoinedEach DEF body
  <1>10. CASE c = "numVariables"
    <2>1. Len(body) = 4 /\ 1 \in DOMAIN body
          /\ s[1] = WriteUInt16BE(Value(d, path, "name"))
          /\ s[2] = WriteUInt16BE(Value(d, path, "typeName"))
          /\ s[3] = WriteUInt32BE(Value(d, path, "userFlags"))
          /\ s[4] = WriteVariableData(d, path)
      BY <1>10, EmitIs DEF ReadsOf, Vector, ReadVariable
    <2>2. Element(c, d, path) =
             Then(Then(Then(WriteUInt16BE(Value(d, path, "name")),
                            WriteUInt16BE(Value(d, path, "typeName"))),
                       WriteUInt32BE(Value(d, path, "userFlags"))),
                  WriteVariableData(d, path))
      BY <1>10, WriteVariableIs DEF Element
    <2> HIDE DEF s, body
    <2> QED
      BY <1>1, <1>2, <2>1, <2>2, JoinedEach DEF body
  <1>11. CASE c = "numProperties"
    <2>1. Len(body) = 5 /\ 1 \in DOMAIN body
          /\ s[1] = WriteUInt16BE(Value(d, path, "name"))
          /\ s[2] = WriteUInt16BE(Value(d, path, "type"))
          /\ s[3] = WriteUInt16BE(Value(d, path, "docstring"))
          /\ s[4] = WriteUInt32BE(Value(d, path, "userFlags"))
          /\ s[5] = FlagsWrites(d, path)
      BY <1>11, EmitIs DEF ReadsOf, Vector, ReadProperty
    <2>2. Element(c, d, path) =
             Then(Then(Then(Then(WriteUInt16BE(Value(d, path, "name")),
                                 WriteUInt16BE(Value(d, path, "type"))),
                            WriteUInt16BE(Value(d, path, "docstring"))),
                       WriteUInt32BE(Value(d, path, "userFlags"))),
                  FlagsWrites(d, path))
      BY <1>11, WritePropertyIs DEF Element
    <2> HIDE DEF s, body
    <2> QED
      BY <1>1, <1>2, <2>1, <2>2, JoinedEach DEF body
  <1>12. CASE c = "functionCount"
    <2>1. Len(body) = 5 /\ 1 \in DOMAIN body
          /\ s[1] = WriteUInt16BE(Value(d, path, "objectNameIndex"))
          /\ s[2] = WriteUInt16BE(Value(d, path, "stateNameIndex"))
          /\ s[3] = WriteUInt16BE(Value(d, path, "functionNameIndex"))
          /\ s[4] = WriteUInt8(Value(d, path, "functionType"))
          /\ s[5] = Counting("instructionCount", d, path)
      BY <1>12, EmitIs DEF ReadsOf, Vector, ReadDebugFunction
    <2>2. Element(c, d, path) = DebugFunctionWrites(d, path)
      BY <1>12, WriteDebugFunctionTyped DEF Element
    <2> HIDE DEF s, body
    <2> QED
      BY <1>1, <1>2, <2>1, <2>2, JoinedEach DEF body, DebugFunctionWrites
  <1>13. CASE c = "numFunctions"
    <2> DEFINE name == << <<"u16", "functionName">> >>
    <2>1. name \in Seq(Reading)
      BY DEF Reading, Members
    <2>2. body = Then(name, ReadFunction)
      BY <1>13 DEF Vector, Then
    <2>3. EmitAll(Reads(name, path), d) = WriteUInt16BE(Value(d, path, "functionName"))
      <3> DEFINE t == ReadsOf(name, path, d)
      <3>1. Len(name) = 1 /\ 1 \in DOMAIN name
            /\ t[1] = WriteUInt16BE(Value(d, path, "functionName"))
        BY EmitIs DEF ReadsOf
      <3>2. EmitAll(Reads(name, path), d) = Joined(t, 1) /\ t[1] \in Seq(Items)
        BY <2>1, <3>1, EmitReads
      <3> HIDE DEF t
      <3> QED
        BY <3>1, <3>2, JoinedEach
    <2>4. Element(c, d, path) = Then(WriteUInt16BE(Value(d, path, "functionName")),
                                     WriteFunction(d, path))
      BY <1>13 DEF Element
    <2> HIDE DEF name, body
    <2>5. /\ Reads(body, path) = Then(Reads(name, path), Reads(ReadFunction, path))
          /\ Reads(name, path) \in Seq(Goals) /\ Reads(ReadFunction, path) \in Seq(Goals)
      BY <2>1, <2>2, FunctionTyped, ReadsThen
    <2>6. EmitAll(Reads(body, path), d) =
             Then(EmitAll(Reads(name, path), d), EmitAll(Reads(ReadFunction, path), d))
      BY <2>5, EmitThen
    <2> QED
      BY <2>3, <2>4, <2>6, EmitFunction DEF body
  <1> QED
    BY <1>3, <1>4, <1>5, <1>6, <1>7, <1>8, <1>9, <1>10, <1>11, <1>12, <1>13,
       VectorDomain

\* ... the data of a variable, what follows the flags of a property and the
\* debug flag,
LEMMA EmitVariableData ==
    ASSUME NEW d, IsData(d), NEW path \in Path, NEW v \in 0..5,
           Value(d, path, "type") = v
    PROVE  WriteVariableData(d, path) =
              Then(WriteUInt8(v), EmitAll(Reads(ReadVariableData[v], path), d))
  <1> DEFINE body == ReadVariableData[v]
             s == ReadsOf(body, path, d)
             data == CASE v \in {1, 2} -> WriteUInt16BE(Value(d, path, "uint16"))
                       [] v = 3 -> WriteUInt32BE(Value(d, path, "int32"))
                       [] v = 4 -> WriteUInt32BE(Value(d, path, "float"))
                       [] v = 5 -> WriteUInt8(Value(d, path, "uint8"))
                       [] OTHER -> << >>
  <1>1. WriteVariableData(d, path) = Then(WriteUInt8(v), data)
    BY WriteVariableDataIs, Zenon
  <1>2. body \in Seq(Reading)
    BY VariableDataTyped
  <1>3. EmitAll(Reads(body, path), d) = Joined(s, Len(body))
    BY <1>2, EmitReads
  <1>4. 1 \in DOMAIN body => s[1] \in Seq(Items)
    BY <1>2, EmitReads
  <1>5. CASE v = 0
    <2>1. Len(body) = 0 /\ data = << >>
      BY <1>5 DEF ReadVariableData
    <2> HIDE DEF s, body, data
    <2> QED
      BY <1>1, <1>3, <2>1, JoinedNone DEF body
  <1>6. CASE v # 0
    <2>1. Len(body) = 1 /\ 1 \in DOMAIN body /\ s[1] = data
      BY <1>6, EmitIs DEF ReadsOf, ReadVariableData
    <2> HIDE DEF s, body, data
    <2> QED
      BY <1>1, <1>3, <1>4, <2>1, JoinedEach DEF body
  <1> QED
    BY <1>5, <1>6

\* The tables of the optional members against the writes that select them.
LEMMA EmitOptions ==
    ASSUME NEW d, IsData(d), NEW path \in Path
    PROVE  /\ EmitAll(Reads(<< <<"u16", "autoVarName">> >>, path), d)
                = WriteUInt16BE(Value(d, path, "autoVarName"))
           /\ EmitAll(Reads(<< <<"u64", "modificationTime">>,
                               <<"count", "functionCount">> >>, path), d)
                = Then(WriteUInt64BE(Value(d, path, "modificationTime")),
                       Counting("functionCount", d, path))
  <1> DEFINE a == << <<"u16", "autoVarName">> >>
             b == << <<"u64", "modificationTime">>, <<"count", "functionCount">> >>
             s == ReadsOf(a, path, d)
             t == ReadsOf(b, path, d)
  <1>1. /\ Len(a) = 1 /\ 1 \in DOMAIN a
        /\ s[1] = WriteUInt16BE(Value(d, path, "autoVarName"))
        /\ Len(b) = 2 /\ 1 \in DOMAIN b
        /\ t[1] = WriteUInt64BE(Value(d, path, "modificationTime"))
        /\ t[2] = Counting("functionCount", d, path)
    BY EmitIs DEF ReadsOf
  <1>2. /\ EmitAll(Reads(a, path), d) = Joined(s, 1) /\ s[1] \in Seq(Items)
        /\ EmitAll(Reads(b, path), d) = Joined(t, 2) /\ t[1] \in Seq(Items)
    BY <1>1, OptionsTyped, EmitReads
  <1> HIDE DEF s, t
  <1> QED
    BY <1>1, <1>2, JoinedEach

\* ... and all of Load and all of Save, when the counts are the sizes of the
\* vectors.
Even(d) ==
    \A c \in DOMAIN Vector : \A path :
        HasCount(path, c) => Value(d, path, c) = Size(d, path, Vector[c].name)

\* The agenda Load begins with stands for all that Save writes.
LEMMA EmitLoad ==
    ASSUME NEW d, IsData(d), Even(d)
    PROVE  EmitAll(Load, d) = Writes(d)
  <1> DEFINE path == << >>
             header == Reads(ReadHeader, path)
             strings == Reads(ReadStringTable, path)
             debug == Reads(ReadDebugInfo, path)
             flags == Reads(ReadUserFlags, path)
             objects == Reads(ReadObjects, path)
  <1>0. path \in Path
    BY DEF Path
  <1>1. /\ ReadHeader \in Seq(Reading) /\ ReadStringTable \in Seq(Reading)
        /\ ReadDebugInfo \in Seq(Reading) /\ ReadUserFlags \in Seq(Reading)
        /\ ReadObjects \in Seq(Reading)
    BY VectorDomain DEF ReadHeader, ReadStringTable, ReadDebugInfo, ReadUserFlags,
       ReadObjects, Reading, Members
  <1>2. Load = Then(Then(Then(Then(header, strings), debug), flags), objects)
    <2>1. Load = Reads(Then(Then(Then(Then(ReadHeader, ReadStringTable),
                            ReadDebugInfo), ReadUserFlags), ReadObjects), path)
      BY Zenon DEF Load, Then
    <2>2. /\ Then(ReadHeader, ReadStringTable) \in Seq(Reading)
          /\ Then(Then(ReadHeader, ReadStringTable), ReadDebugInfo) \in Seq(Reading)
          /\ Then(Then(Then(ReadHeader, ReadStringTable), ReadDebugInfo),
                  ReadUserFlags) \in Seq(Reading)
      BY <1>1, ThenTyped
    <2> QED
      BY <1>0, <1>1, <2>1, <2>2, ReadsThen
  <1>3. /\ header \in Seq(Goals) /\ strings \in Seq(Goals) /\ debug \in Seq(Goals)
        /\ flags \in Seq(Goals) /\ objects \in Seq(Goals)
    BY <1>0, <1>1, ReadsTyped
  <1>4. EmitAll(header, d) = WriteHeader(d)
    <2> DEFINE s == ReadsOf(ReadHeader, path, d)
    <2>1. /\ Len(ReadHeader) = 8 /\ 1 \in DOMAIN ReadHeader
          /\ s[1] = WriteUInt32BE(Value(d, path, "magic"))
          /\ s[2] = WriteUInt8(Value(d, path, "majorVersion"))
          /\ s[3] = WriteUInt8(Value(d, path, "minorVersion"))
          /\ s[4] = WriteUInt16BE(Value(d, path, "gameId"))
          /\ s[5] = WriteUInt64BE(Value(d, path, "compilationTime"))
          /\ s[6] = WriteWString(d, path, "sourceFileName")
          /\ s[7] = WriteWString(d, path, "username")
          /\ s[8] = WriteWString(d, path, "machinename")
      BY EmitIs DEF ReadsOf, ReadHeader
    <2>2. EmitAll(header, d) = Joined(s, 8) /\ s[1] \in Seq(Items)
      BY <1>0, <1>1, <2>1, EmitReads
    <2>3. WriteHeader(d) = HeaderWrites(d, path)
      BY WriteHeaderIs
    <2> HIDE DEF s, path, header
    <2> QED
      BY <2>1, <2>2, <2>3, JoinedEach DEF HeaderWrites
  <1>5. /\ strings = << Goal("count", path, "count", 0) >>
        /\ debug = << Goal("debugFlag", path, "hasDebugInfo", 0) >>
        /\ flags = << Goal("count", path, "userFlagCount", 0) >>
        /\ objects = << Goal("count", path, "objectCount", 0) >>
    BY DEF Reads, ReadStringTable, ReadDebugInfo, ReadUserFlags, ReadObjects
  <1>6. /\ Goal("count", path, "count", 0) \in Goals
        /\ Goal("debugFlag", path, "hasDebugInfo", 0) \in Goals
        /\ Goal("count", path, "userFlagCount", 0) \in Goals
        /\ Goal("count", path, "objectCount", 0) \in Goals
    <2>1. \A g : <<g>> \in Seq(Goals) => g \in Goals
      OBVIOUS
    <2> HIDE DEF header, strings, debug, flags, objects, path
    <2> QED
      BY <1>3, <1>5, <2>1
  <1>7. Value(d, path, "count") = Size(d, path, "strings")
    BY VectorDomain, VectorNamesAre DEF Even, HasCount
  <1>8. /\ EmitAll(strings, d) = WriteStringTable(d)
        /\ EmitAll(debug, d) = WriteDebugInfo(d)
        /\ EmitAll(flags, d) = WriteUserFlags(d)
        /\ EmitAll(objects, d) = WriteObjects(d)
    <2>1. /\ EmitAll(strings, d) = Emit(Goal("count", path, "count", 0), d)
          /\ EmitAll(debug, d) = Emit(Goal("debugFlag", path, "hasDebugInfo", 0), d)
          /\ EmitAll(flags, d) = Emit(Goal("count", path, "userFlagCount", 0), d)
          /\ EmitAll(objects, d) = Emit(Goal("count", path, "objectCount", 0), d)
      BY <1>5, <1>6, EmitFew
    <2>2. /\ WriteStringTable(d) = Counting("count", d, path)
          /\ WriteDebugInfo(d) = DebugInfoWrites(d, path)
          /\ WriteUserFlags(d) = Counting("userFlagCount", d, path)
          /\ WriteObjects(d) = Counting("objectCount", d, path)
      BY <1>7, WriteStringTableIs, WriteDebugInfoIs, WriteUserFlagsIs, WriteObjectsIs
    <2> QED
      BY <2>1, <2>2, EmitIs
  <1> HIDE DEF header, strings, debug, flags, objects, path
  <1>9. /\ Then(header, strings) \in Seq(Goals)
        /\ Then(Then(header, strings), debug) \in Seq(Goals)
        /\ Then(Then(Then(header, strings), debug), flags) \in Seq(Goals)
    BY <1>3, ThenTyped
  <1>10. EmitAll(Load, d) =
            Then(Then(Then(Then(EmitAll(header, d), EmitAll(strings, d)),
                           EmitAll(debug, d)), EmitAll(flags, d)), EmitAll(objects, d))
    BY <1>2, <1>3, <1>9, EmitThen
  <1> QED
    BY <1>4, <1>8, <1>10, WritesTyped

-----------------------------------------------------------------------------
(* What a goal will set *)

\* The members ("val"), the sizes of vectors and strings ("len") that the step
\* of a goal, and what follows from it, sets in the goal's own record, and the
\* parts of that record whose own members follow from it ("part").
Tags(kind, field) ==
    LET members(names) == {"val"} \X names
        vectors(names) == {"len", "part"} \X names IN
    CASE kind = "string" -> {"val", "len"} \X {field}
      [] kind = "count" -> members({field}) \cup vectors({Vector[field].name})
      [] kind = "loop" -> {"part"} \X {Vector[field].name}
      [] kind = "debugFlag" ->
            members({"hasDebugInfo", "modificationTime", "functionCount"})
               \cup vectors({"functions"})
      [] kind = "objectSize" ->
            members({"size", "parentClassName", "docString", "userFlags",
                     "autoStateName", "numVariables", "numProperties", "numStates"})
               \cup vectors({"variables", "properties", "states"})
      [] kind = "propertyFlags" ->
            members({"flags", "autoVarName"})
               \cup ({"part"} \X {"readHandler", "writeHandler"})
      [] kind = "type" -> members({"type", "uint16", "int32", "float", "uint8"})
      [] kind = "opcode" -> members({"op"}) \cup vectors({"arguments"})
      [] kind = "callArguments" -> vectors({"arguments"})
      [] kind \in {"objectEnd", "push"} -> {}
      [] OTHER -> members({field})

\* The record at q is in a part of g's record that g will fill, a loop or a
\* call from the next element on.
Within(g, q) ==
    /\ Len(q) > Len(g.path)
    /\ \A j \in 1..Len(g.path) : q[j] = g.path[j]
    /\ <<"part", q[Len(g.path) + 1][1]>> \in Tags(g.kind, g.field)
    /\ g.kind \in {"loop", "callArguments"} => q[Len(g.path) + 1][2] > g.n

\* The goal g may set the member or the size f of the record at q.
Owns(g, map, q, f) ==
    \/ q = g.path /\ <<map, f>> \in Tags(g.kind, g.field)
    \/ Within(g, q)

\* All that the goal g may set is among what the goal h may.
Inside(g, h) ==
    \A map, f : \A q \in Path : Owns(g, map, q, f) => Owns(h, map, q, f)

\* The goals g and h set no member in common.
Disjoint(g, h) ==
    \A map, f : \A q \in Path : ~(Owns(g, map, q, f) /\ Owns(h, map, q, f))

\* The arguments of the instruction at q are still being read into locals.
InLocals(goals, q) ==
    \E i \in DOMAIN goals : goals[i].kind = "callArguments" /\ goals[i].path = q

\* What was set for good, or will only grow with the pushes to come.
Settled(p, goals, map, q, f) ==
    \/ map = "val" /\ <<q, f>> \in DOMAIN p.val
    \/ /\ map = "len" /\ <<q, f>> \in DOMAIN p.len /\ f # "objects"
       /\ f = "arguments" => ~InLocals(goals, q)

\* No two goals set the same,
Apart(goals) ==
    \A i, j \in DOMAIN goals : i # j => Disjoint(goals[i], goals[j])

\* and none what was set before.
Fresh(p, goals) ==
    \A i \in DOMAIN goals : \A map, f : \A q \in Path :
        Owns(goals[i], map, q, f) => ~Settled(p, goals, map, q, f)

\* What goes before a goal.
Prepared(p, goals) ==
    \A i \in DOMAIN goals :
        LET g == goals[i] IN
        /\ g.kind = "payload" => g.n > 0
        /\ g.kind = "loop" => <<g.path, g.field>> \in DOMAIN p.val
        /\ g.kind = "push" => Settled(p, goals, "len", g.path, "arguments")


\* A path has a length, and each step of it is a part and an index.
LEMMA PathTyped ==
    ASSUME NEW q \in Path
    PROVE  /\ Len(q) \in Nat
           /\ \A i \in 1..Len(q) : q[i] \in Parts \X Nat
  BY DEF Path

\* Two goals of one record: the one sets less than the other,
LEMMA InsideSame ==
    ASSUME NEW g, NEW h, g.path = h.path, h.kind \notin {"loop", "callArguments"},
           Tags(g.kind, g.field) \subseteq Tags(h.kind, h.field)
    PROVE  Inside(g, h)
  BY DEF Inside, Owns, Within

\* A loop that has turned sets no more than it did before it turned.
LEMMA LoopInside ==
    ASSUME NEW g \in Goals, NEW h \in Goals, g.path = h.path, g.kind = h.kind,
           g.field = h.field, h.n <= g.n
    PROVE  Inside(g, h)
  <1> SUFFICES ASSUME NEW map, NEW f, NEW q \in Path, Owns(g, map, q, f)
               PROVE  Owns(h, map, q, f)
    BY DEF Inside
  <1>1. CASE q = g.path /\ <<map, f>> \in Tags(g.kind, g.field)
    BY <1>1 DEF Owns
  <1>2. CASE Within(g, q)
    <2>1. /\ g.path \in Path /\ Len(g.path) \in Nat /\ Len(q) \in Nat
          /\ g.n \in Nat /\ h.n \in Nat
      BY PathTyped DEF Goals
    <2>2. Len(q) > Len(g.path)
      BY <1>2 DEF Within
    <2>3. q[Len(g.path) + 1][2] \in Nat
      <3>1. Len(g.path) + 1 \in 1..Len(q)
        BY <2>1, <2>2
      <3>2. q[Len(g.path) + 1] \in Parts \X Nat
        BY <3>1, PathTyped
      <3> QED
        BY <3>2
    <2>4. Within(h, q)
      BY <1>2, <2>1, <2>3 DEF Within
    <2> QED
      BY <2>4 DEF Owns
  <1> QED
    BY <1>1, <1>2 DEF Owns

\* ... or they set nothing in common.
LEMMA SameApart ==
    ASSUME NEW g, NEW h, g.path \in Path, g.path = h.path,
           Tags(g.kind, g.field) \cap Tags(h.kind, h.field) = {}
    PROVE  Disjoint(g, h)
  <1> SUFFICES ASSUME NEW map, NEW f, NEW q \in Path,
                      Owns(g, map, q, f), Owns(h, map, q, f)
               PROVE  FALSE
    BY DEF Disjoint
  <1>1. Len(q) \in Nat /\ Len(g.path) \in Nat
    BY PathTyped
  <1>2. CASE q = g.path
    BY <1>1, <1>2 DEF Owns, Within
  <1>3. CASE q # g.path
    BY <1>3 DEF Owns, Within
  <1> QED
    BY <1>2, <1>3

\* What a goal for a part of a record sets is in that part.
LEMMA BelowChild ==
    ASSUME NEW path \in Path, NEW name \in Parts, NEW i \in Nat, NEW g,
           g.path = Child(path, name, i),
           NEW map, NEW f, NEW q \in Path, Owns(g, map, q, f)
    PROVE  /\ Len(q) > Len(path)
           /\ \A j \in 1..Len(path) : q[j] = path[j]
           /\ q[Len(path) + 1] = <<name, i>>
  <1> DEFINE p == Child(path, name, i)
  <1>1. /\ Len(path) \in Nat /\ Len(p) = Len(path) + 1
        /\ \A j \in 1..Len(path) : p[j] = path[j]
        /\ p[Len(path) + 1] = <<name, i>>
    BY DEF Child, Path
  <1>2. g.path = p /\ Len(q) \in Nat
    BY PathTyped
  <1> HIDE DEF p
  <1>3. Len(q) >= Len(p) /\ \A j \in 1..Len(p) : q[j] = p[j]
    <2>1. CASE q = p
      BY <1>1, <1>2, <2>1
    <2>2. CASE Within(g, q)
      BY <1>1, <1>2, <2>2 DEF Within
    <2> QED
      BY <1>2, <2>1, <2>2 DEF Owns
  <1> QED
    BY <1>1, <1>2, <1>3

\* A goal for an element of a vector sets only what the goal of the vector may.
LEMMA ChildInside ==
    ASSUME NEW h, h.path \in Path, NEW name \in Parts, NEW i \in Nat, NEW g,
           g.path = Child(h.path, name, i),
           <<"part", name>> \in Tags(h.kind, h.field),
           h.kind \in {"loop", "callArguments"} => i > h.n
    PROVE  Inside(g, h)
  <1> SUFFICES ASSUME NEW map, NEW f, NEW q \in Path, Owns(g, map, q, f)
               PROVE  Within(h, q)
    BY DEF Inside, Owns
  <1>1. /\ Len(q) > Len(h.path)
        /\ \A j \in 1..Len(h.path) : q[j] = h.path[j]
        /\ q[Len(h.path) + 1] = <<name, i>>
    BY BelowChild
  <1> QED
    BY <1>1 DEF Within

\* Goals for two elements of one vector, or for two parts, set nothing in common.
LEMMA ChildrenApart ==
    ASSUME NEW path \in Path, NEW name \in Parts, NEW other \in Parts,
           NEW i \in Nat, NEW j \in Nat, name # other \/ i # j,
           NEW g, g.path = Child(path, name, i),
           NEW h, h.path = Child(path, other, j)
    PROVE  Disjoint(g, h)
  <1> SUFFICES ASSUME NEW map, NEW f, NEW q \in Path,
                      Owns(g, map, q, f), Owns(h, map, q, f)
               PROVE  FALSE
    BY DEF Disjoint
  <1>1. q[Len(path) + 1] = <<name, i>>
    BY BelowChild
  <1>2. q[Len(path) + 1] = <<other, j>>
    BY BelowChild
  <1> QED
    BY <1>1, <1>2

\* A goal for an element sets nothing of a goal that has no such element left.
LEMMA ChildApart ==
    ASSUME NEW h, h.path \in Path, NEW name \in Parts, NEW i \in Nat, NEW g,
           g.path = Child(h.path, name, i),
           \/ <<"part", name>> \notin Tags(h.kind, h.field)
           \/ h.kind \in {"loop", "callArguments"} /\ ~(i > h.n)
    PROVE  Disjoint(g, h) /\ Disjoint(h, g)
  <1> SUFFICES ASSUME NEW map, NEW f, NEW q \in Path,
                      Owns(g, map, q, f), Owns(h, map, q, f)
               PROVE  FALSE
    BY DEF Disjoint
  <1>1. Len(q) > Len(h.path) /\ q[Len(h.path) + 1] = <<name, i>>
    BY BelowChild
  <1>2. Len(h.path) \in Nat /\ Len(q) \in Nat
    BY PathTyped
  <1>3. q # h.path
    BY <1>1, <1>2
  <1> QED
    BY <1>1, <1>3 DEF Owns, Within

\* Goals one after the other.
LEMMA ThenAt ==
    ASSUME NEW S, NEW a \in Seq(S), NEW b \in Seq(S)
    PROVE  /\ Then(a, b) \in Seq(S) /\ Len(a) \in Nat /\ Len(b) \in Nat
           /\ DOMAIN Then(a, b) = 1..(Len(a) + Len(b))
           /\ \A i \in 1..Len(a) : Then(a, b)[i] = a[i] /\ i \in DOMAIN a
           /\ \A i \in (Len(a) + 1)..(Len(a) + Len(b)) :
                 /\ Then(a, b)[i] = b[i - Len(a)]
                 /\ i - Len(a) \in DOMAIN b
  BY DEF Then

\* Two runs of goals that are apart, and apart from each other, are apart together.
LEMMA ApartThen ==
    ASSUME NEW a \in Seq(Goals), NEW b \in Seq(Goals), Apart(a), Apart(b),
           \A i \in DOMAIN a : \A j \in DOMAIN b : Disjoint(a[i], b[j])
    PROVE  Apart(Then(a, b))
  <1> DEFINE c == Then(a, b)
             m == Len(a)
             n == Len(b)
  <1>1. /\ m \in Nat /\ n \in Nat /\ DOMAIN c = 1..(m + n)
        /\ \A i \in 1..m : c[i] = a[i] /\ i \in DOMAIN a
        /\ \A i \in (m + 1)..(m + n) : c[i] = b[i - m] /\ i - m \in DOMAIN b
    BY ThenAt
  <1>2. \A g, h : Disjoint(g, h) => Disjoint(h, g)
    BY DEF Disjoint
  <1> HIDE DEF c, m, n
  <1>3. SUFFICES ASSUME NEW i \in 1..(m + n), NEW j \in 1..(m + n), i # j
                 PROVE  Disjoint(c[i], c[j])
    BY <1>1 DEF Apart, c
  <1>4. /\ i \in 1..m \/ i \in (m + 1)..(m + n)
        /\ j \in 1..m \/ j \in (m + 1)..(m + n)
    BY <1>1
  <1>5. CASE i \in 1..m /\ j \in 1..m
    BY <1>1, <1>3, <1>5 DEF Apart
  <1>6. CASE i \in (m + 1)..(m + n) /\ j \in (m + 1)..(m + n)
    <2>1. i - m # j - m
      BY <1>1, <1>3
    <2> QED
      BY <1>1, <1>6, <2>1 DEF Apart
  <1>7. CASE i \in 1..m /\ j \in (m + 1)..(m + n)
    BY <1>1, <1>7
  <1>8. CASE i \in (m + 1)..(m + n) /\ j \in 1..m
    BY <1>1, <1>2, <1>8
  <1> QED
    BY <1>4, <1>5, <1>6, <1>7, <1>8

\* No goals, or a single goal, are apart.
LEMMA ApartFew == Apart(<< >>) /\ \A g : Apart(<<g>>)
  BY DEF Apart

\* Each goal sets members of its own, none of which was set before.
FreshInv == Apart(agenda) /\ Fresh(parsed, agenda) /\ Prepared(parsed, agenda)

\* How a step changes which arguments are still being read into locals.
LEMMA InLocalsStep ==
    ASSUME TypeOK, agenda # << >>, NEW more \in Seq(Goals),
           agenda' = Then(more, Tail(agenda))
    PROVE  \A q : /\ InLocals(agenda, q) <=>
                        \/ head.kind = "callArguments" /\ head.path = q
                        \/ InLocals(Tail(agenda), q)
                  /\ InLocals(agenda', q) <=>
                        InLocals(more, q) \/ InLocals(Tail(agenda), q)
  <1> DEFINE t == Tail(agenda)
             m == Len(more)
             n == Len(t)
  <1>0. t \in Seq(Goals)
    BY HeadTyped
  <1>1. /\ m \in Nat /\ n \in Nat /\ DOMAIN agenda' = 1..(m + n)
        /\ \A i \in 1..m : agenda'[i] = more[i] /\ i \in DOMAIN more
        /\ \A i \in (m + 1)..(m + n) : agenda'[i] = t[i - m] /\ i - m \in DOMAIN t
    BY <1>0, ThenAt
  <1>2. /\ Len(agenda) = n + 1 /\ DOMAIN agenda = 1..(n + 1) /\ head = agenda[1]
        /\ \A i \in 1..n : t[i] = agenda[i + 1]
        /\ DOMAIN t = 1..n /\ DOMAIN more = 1..m
    BY <1>0, HeadIs DEF TypeOK
  <1> HIDE DEF t, m, n
  <1> TAKE q
  <1>3. InLocals(agenda, q) <=> \/ head.kind = "callArguments" /\ head.path = q
                                \/ InLocals(t, q)
    <2>1. ASSUME NEW i \in 1..n PROVE i + 1 \in DOMAIN agenda
      BY <1>1, <1>2
    <2>2. ASSUME NEW i \in DOMAIN agenda PROVE i = 1 \/ (i - 1 \in 1..n /\ agenda[i] = t[i - 1])
      <3>1. i = 1 \/ i - 1 \in 1..n
        BY <1>1, <1>2
      <3>2. (i - 1) + 1 = i
        BY <1>1, <1>2
      <3> QED
        BY <1>2, <3>1, <3>2
    <2>3. 1 \in DOMAIN agenda
      BY <1>1, <1>2
    <2> QED
      BY <1>2, <2>1, <2>2, <2>3 DEF InLocals
  <1>4. InLocals(agenda', q) <=> InLocals(more, q) \/ InLocals(t, q)
    <2>1. ASSUME NEW i \in 1..n
          PROVE  m + i \in DOMAIN agenda' /\ agenda'[m + i] = t[i]
      <3>1. m + i \in (m + 1)..(m + n) /\ (m + i) - m = i /\ m + i \in 1..(m + n)
        BY <1>1
      <3> QED
        BY <1>1, <3>1
    <2>2. ASSUME NEW i \in 1..m PROVE i \in DOMAIN agenda' /\ agenda'[i] = more[i]
      BY <1>1
    <2>3. ASSUME NEW i \in DOMAIN agenda'
          PROVE  \/ i \in DOMAIN more /\ agenda'[i] = more[i]
                 \/ i - m \in DOMAIN t /\ agenda'[i] = t[i - m]
      <3>1. i \in 1..m \/ i \in (m + 1)..(m + n)
        BY <1>1
      <3> QED
        BY <1>1, <3>1
    <2> QED
      BY <1>2, <2>1, <2>2, <2>3 DEF InLocals
  <1> QED
    BY <1>3, <1>4 DEF t

\* A step replaces its goal by goals that set less, and nothing twice.
LEMMA FreshStep ==
    ASSUME TypeOK, FreshInv, agenda # << >>,
           NEW more \in Seq(Goals), agenda' = Then(more, Tail(agenda)),
           Apart(more), \A i \in DOMAIN more : Inside(more[i], head),
           \A i \in DOMAIN more :
              more[i].kind = "callArguments" =>
                 head.kind = "opcode" /\ more[i].path = head.path,
           DOMAIN parsed.val \subseteq DOMAIN parsed'.val,
           DOMAIN parsed.len \subseteq DOMAIN parsed'.len,
           \A map, f : \A q \in Path :
              Settled(parsed', agenda', map, q, f) =>
                 \/ Settled(parsed, agenda, map, q, f)
                 \/ /\ Owns(head, map, q, f)
                    /\ \A i \in DOMAIN more : ~Owns(more[i], map, q, f),
           \A i \in DOMAIN more :
              /\ more[i].kind = "payload" => more[i].n > 0
              /\ more[i].kind = "loop" =>
                    <<more[i].path, more[i].field>> \in DOMAIN parsed'.val
              /\ more[i].kind = "push" =>
                    Settled(parsed', agenda', "len", more[i].path, "arguments")
    PROVE  FreshInv'
  <1> DEFINE t == Tail(agenda)
             m == Len(more)
             n == Len(t)
  <1>0. t \in Seq(Goals)
    BY HeadTyped
  <1>1. /\ m \in Nat /\ n \in Nat /\ DOMAIN agenda' = 1..(m + n)
        /\ \A i \in 1..m : agenda'[i] = more[i] /\ i \in DOMAIN more
        /\ \A i \in (m + 1)..(m + n) : agenda'[i] = t[i - m] /\ i - m \in DOMAIN t
    BY <1>0, ThenAt
  <1>2. /\ DOMAIN agenda = 1..(n + 1) /\ head = agenda[1]
        /\ DOMAIN t = 1..n
        /\ \A i \in DOMAIN t : t[i] = agenda[i + 1] /\ i + 1 \in DOMAIN agenda /\ i + 1 # 1
        /\ 1 \in DOMAIN agenda
    BY <1>0, HeadIs DEF TypeOK
  <1>3. \A i \in DOMAIN agenda' : \/ i \in DOMAIN more /\ agenda'[i] = more[i]
                                  \/ i - m \in DOMAIN t /\ agenda'[i] = t[i - m]
    <2> SUFFICES ASSUME NEW i \in DOMAIN agenda'
                 PROVE  \/ i \in DOMAIN more /\ agenda'[i] = more[i]
                        \/ i - m \in DOMAIN t /\ agenda'[i] = t[i - m]
      OBVIOUS
    <2>1. i \in 1..m \/ i \in (m + 1)..(m + n)
      BY <1>1
    <2> QED
      BY <1>1, <2>1
  <1>4. \A q : /\ InLocals(agenda, q) <=>
                     \/ head.kind = "callArguments" /\ head.path = q
                     \/ InLocals(t, q)
               /\ InLocals(agenda', q) <=> InLocals(more, q) \/ InLocals(t, q)
    BY InLocalsStep
  <1>9. \A i \in DOMAIN agenda : agenda[i].path \in Path
    <2>1. \A i \in DOMAIN agenda : agenda[i] \in Goals
      BY DEF TypeOK
    <2> QED
      BY <2>1 DEF Goals
  <1> HIDE DEF t, m, n
  <1>5. \A i \in DOMAIN t : Disjoint(head, t[i])
    BY <1>2 DEF FreshInv, Apart
  <1>6. Apart(agenda')
    <2>1. Apart(t)
      <3> SUFFICES ASSUME NEW i \in DOMAIN t, NEW j \in DOMAIN t, i # j
                   PROVE  Disjoint(t[i], t[j])
        BY DEF Apart
      <3>1. i + 1 # j + 1
        BY <1>1, <1>2
      <3> QED
        BY <1>2, <3>1 DEF FreshInv, Apart
    <2>2. \A i \in DOMAIN more : \A j \in DOMAIN t : Disjoint(more[i], t[j])
      BY <1>5 DEF Disjoint, Inside
    <2> QED
      BY <1>0, <2>1, <2>2, ApartThen DEF t
  <1>7. Fresh(parsed', agenda')
    <2> SUFFICES ASSUME NEW i \in DOMAIN agenda', NEW map, NEW f, NEW q \in Path,
                        Owns(agenda'[i], map, q, f),
                        Settled(parsed', agenda', map, q, f)
                 PROVE  FALSE
      BY DEF Fresh
    <2>1. CASE i \in DOMAIN more /\ agenda'[i] = more[i]
      <3>1. Owns(head, map, q, f)
        BY <2>1 DEF Inside
      <3>2. ~Settled(parsed, agenda, map, q, f)
        BY <1>2, <3>1 DEF FreshInv, Fresh
      <3> QED
        BY <2>1, <3>2
    <2>2. CASE i - m \in DOMAIN t /\ agenda'[i] = t[i - m]
      <3>1. ~Settled(parsed, agenda, map, q, f)
        BY <1>2, <2>2 DEF FreshInv, Fresh
      <3>2. ~Owns(head, map, q, f)
        BY <1>5, <2>2 DEF Disjoint
      <3> QED
        BY <3>1, <3>2
    <2> QED
      BY <1>3, <2>1, <2>2
  <1>8. Prepared(parsed', agenda')
    <2> SUFFICES ASSUME NEW i \in DOMAIN agenda', NEW g, g = agenda'[i]
                 PROVE  /\ g.kind = "payload" => g.n > 0
                        /\ g.kind = "loop" => <<g.path, g.field>> \in DOMAIN parsed'.val
                        /\ g.kind = "push" =>
                              Settled(parsed', agenda', "len", g.path, "arguments")
      BY DEF Prepared
    <2>1. CASE i \in DOMAIN more /\ agenda'[i] = more[i]
      BY <2>1
    <2>2. CASE i - m \in DOMAIN t /\ agenda'[i] = t[i - m]
      <3>1. PICK j \in DOMAIN agenda : g = agenda[j]
        BY <1>2, <2>2
      <3>2. /\ g.kind = "payload" => g.n > 0
            /\ g.kind = "loop" => <<g.path, g.field>> \in DOMAIN parsed.val
            /\ g.kind = "push" => Settled(parsed, agenda, "len", g.path, "arguments")
        BY <3>1 DEF FreshInv, Prepared
      <3>3. ASSUME g.kind = "push"
            PROVE  Settled(parsed', agenda', "len", g.path, "arguments")
        <4>1. /\ <<g.path, "arguments">> \in DOMAIN parsed.len
              /\ ~InLocals(agenda, g.path) /\ g.path \in Path
          BY <1>9, <3>1, <3>2, <3>3 DEF Settled
        <4>2. ~InLocals(more, g.path)
          <5> SUFFICES ASSUME InLocals(more, g.path) PROVE FALSE
            OBVIOUS
          <5>1. head.kind = "opcode" /\ head.path = g.path
            BY DEF InLocals
          <5>2. Owns(head, "len", g.path, "arguments")
            BY <5>1 DEF Owns, Tags
          <5> QED
            BY <1>2, <3>2, <3>3, <4>1, <5>2 DEF FreshInv, Fresh
        <4> QED
          BY <1>4, <4>1, <4>2 DEF Settled
      <3> QED
        BY <3>2, <3>3
    <2> QED
      BY <1>3, <2>1, <2>2
  <1> QED
    BY <1>6, <1>7, <1>8 DEF FreshInv

\* A table whose reads set nothing in common, and what they set.
Split(body) ==
    \A i, j \in DOMAIN body :
        i # j => Tags(body[i][1], body[i][2]) \cap Tags(body[j][1], body[j][2]) = {}

\* The reads of the table set only the members of these tags.
Sets(body, tags) == \A i \in DOMAIN body : Tags(body[i][1], body[i][2]) \subseteq tags

\* The members the goals of the tables set, by the tags of their kinds.
LEMMA TagsOfReads ==
    /\ \A field : /\ Tags("magic", field) = {<<"val", field>>}
                  /\ Tags("u8", field) = {<<"val", field>>}
                  /\ Tags("u16", field) = {<<"val", field>>}
                  /\ Tags("u32", field) = {<<"val", field>>}
                  /\ Tags("u64", field) = {<<"val", field>>}
                  /\ Tags("payload", field) = {<<"val", field>>}
                  /\ Tags("string", field) = {<<"val", field>>, <<"len", field>>}
    /\ \A c \in DOMAIN Vector :
          Tags("count", c) = {<<"val", c>>, <<"len", Vector[c].name>>,
                              <<"part", Vector[c].name>>}
  BY DEF Tags

\* The table ReadObjectData sets each member once, and none of them is the size.
LEMMA ObjectDataSplit ==
    /\ Split(ReadObjectData)
    /\ Sets(ReadObjectData, Tags("objectSize", "size") \ {<<"val", "size">>})
  <1> DEFINE t(i) == Tags(ReadObjectData[i][1], ReadObjectData[i][2])
  <1>1. /\ t(1) = {<<"val", "parentClassName">>}
        /\ t(2) = {<<"val", "docString">>}
        /\ t(3) = {<<"val", "userFlags">>}
        /\ t(4) = {<<"val", "autoStateName">>}
        /\ t(5) = {<<"val", "numVariables">>, <<"len", "variables">>, <<"part", "variables">>}
        /\ t(6) = {<<"val", "numProperties">>, <<"len", "properties">>,
                   <<"part", "properties">>}
        /\ t(7) = {<<"val", "numStates">>, <<"len", "states">>, <<"part", "states">>}
        /\ DOMAIN ReadObjectData = 1..7
    BY TagsOfReads, VectorNamesAre, VectorDomain DEF ReadObjectData
  <1>2. Tags("objectSize", "size") =
           ({"val"} \X {"size", "parentClassName", "docString", "userFlags",
                     "autoStateName", "numVariables", "numProperties", "numStates"})
               \cup ({"len", "part"} \X {"variables", "properties", "states"})
    BY DEF Tags
  <1> HIDE DEF t
  <1>3. \A i \in 1..7 : t(i) \subseteq Tags("objectSize", "size") \ {<<"val", "size">>}
    <2> SUFFICES ASSUME NEW i \in 1..7
                 PROVE  t(i) \subseteq Tags("objectSize", "size") \ {<<"val", "size">>}
      OBVIOUS
    <2>1. i = 1 \/ i = 2 \/ i = 3 \/ i = 4 \/ i = 5 \/ i = 6 \/ i = 7
      OBVIOUS
    <2> QED
      BY <1>1, <1>2, <2>1
  <1>4. \A i, j \in 1..7 : i # j => t(i) \cap t(j) = {}
    <2> SUFFICES ASSUME NEW i \in 1..7, NEW j \in 1..7, i # j, NEW x \in t(i), x \in t(j)
                 PROVE  FALSE
      OBVIOUS
    <2>1. /\ i = 1 \/ i = 2 \/ i = 3 \/ i = 4 \/ i = 5 \/ i = 6 \/ i = 7
          /\ j = 1 \/ j = 2 \/ j = 3 \/ j = 4 \/ j = 5 \/ j = 6 \/ j = 7
      OBVIOUS
    <2> QED
      BY <1>1, <2>1
  <1> QED
    BY <1>1, <1>3, <1>4 DEF Split, Sets, t

\* A table of at most one read sets each member once.
LEMMA SingleSplit ==
    ASSUME NEW body, Len(body) \in {0, 1}, DOMAIN body = 1..Len(body)
    PROVE  Split(body)
  BY DEF Split

\* The tables of a function set each member once.
LEMMA FunctionSplit == Split(ReadFunction) /\ Split(<< <<"u16", "functionName">> >> \o ReadFunction)
  <1> DEFINE body == << <<"u16", "functionName">> >> \o ReadFunction
             t(i) == Tags(body[i][1], body[i][2])
  <1>0. /\ DOMAIN body = 1..8 /\ DOMAIN ReadFunction = 1..7
        /\ \A i \in 1..7 : body[i + 1] = ReadFunction[i]
        /\ body[1] = <<"u16", "functionName">>
    BY DEF ReadFunction
  <1>1. /\ t(1) = {<<"val", "functionName">>}
        /\ t(2) = {<<"val", "returnType">>}
        /\ t(3) = {<<"val", "docString">>}
        /\ t(4) = {<<"val", "userFlags">>}
        /\ t(5) = {<<"val", "flags">>}
        /\ t(6) = {<<"val", "numParams">>, <<"len", "params">>, <<"part", "params">>}
        /\ t(7) = {<<"val", "numLocals">>, <<"len", "locals">>, <<"part", "locals">>}
        /\ t(8) = {<<"val", "numInstructions">>, <<"len", "instructions">>,
                   <<"part", "instructions">>}
    BY TagsOfReads, VectorNamesAre, VectorDomain DEF ReadFunction
  <1> HIDE DEF t
  <1>2. \A i, j \in 1..8 : i # j => t(i) \cap t(j) = {}
    <2> SUFFICES ASSUME NEW i \in 1..8, NEW j \in 1..8, i # j, NEW x \in t(i), x \in t(j)
                 PROVE  FALSE
      OBVIOUS
    <2>1. /\ i = 1 \/ i = 2 \/ i = 3 \/ i = 4 \/ i = 5 \/ i = 6 \/ i = 7 \/ i = 8
          /\ j = 1 \/ j = 2 \/ j = 3 \/ j = 4 \/ j = 5 \/ j = 6 \/ j = 7 \/ j = 8
      OBVIOUS
    <2> QED
      BY <1>1, <2>1
  <1> HIDE DEF body
  <1>3. Split(body)
    BY <1>0, <1>2 DEF Split, t
  <1>4. Split(ReadFunction)
    <2> SUFFICES ASSUME NEW i \in 1..7, NEW j \in 1..7, i # j
                 PROVE  Tags(ReadFunction[i][1], ReadFunction[i][2])
                           \cap Tags(ReadFunction[j][1], ReadFunction[j][2]) = {}
      BY <1>0 DEF Split
    <2>1. i + 1 \in 1..8 /\ j + 1 \in 1..8 /\ i + 1 # j + 1
      OBVIOUS
    <2> QED
      BY <1>0, <1>2, <2>1 DEF t
  <1> QED
    BY <1>3, <1>4 DEF body

\* So does the table of the element of each vector.
LEMMA ElementsSplit ==
    ASSUME NEW c \in DOMAIN Vector
    PROVE  Split(Vector[c].element)
  <1> DEFINE body == Vector[c].element
             t(i) == Tags(body[i][1], body[i][2])
  <1>1. CASE c \in {"count", "instructionCount", "numInstructions"}
    <2>1. Len(body) = 1 /\ DOMAIN body = 1..Len(body)
      BY <1>1 DEF Vector
    <2> QED
      BY <2>1, SingleSplit
  <1>2. CASE c = "userFlagCount"
    <2>1. DOMAIN body = 1..2 /\ t(1) = {<<"val", "flagNameIndex">>}
          /\ t(2) = {<<"val", "flagIndex">>}
      BY <1>2, TagsOfReads DEF Vector
    <2> QED
      BY <2>1 DEF Split
  <1>3. CASE c \in {"numParams", "numLocals"}
    <2>1. DOMAIN body = 1..2 /\ t(1) = {<<"val", "name">>}
          /\ t(2) = {<<"val", "type">>}
      BY <1>3, TagsOfReads DEF Vector, ReadVariableType
    <2> QED
      BY <2>1 DEF Split
  <1>4. CASE c = "objectCount"
    <2>1. DOMAIN body = 1..2 /\ t(1) = {<<"val", "nameIndex">>}
          /\ t(2) = Tags("objectSize", "size")
      BY <1>4, TagsOfReads DEF Vector
    <2>2. <<"val", "nameIndex">> \notin Tags("objectSize", "size")
      BY DEF Tags
    <2> QED
      BY <2>1, <2>2 DEF Split
  <1>5. CASE c = "numStates"
    <2>1. DOMAIN body = 1..2 /\ t(1) = {<<"val", "name">>}
          /\ t(2) = {<<"val", "numFunctions">>, <<"len", "functions">>,
                     <<"part", "functions">>}
      BY <1>5, TagsOfReads, VectorDomain, VectorNamesAre DEF Vector, ReadState
    <2> QED
      BY <2>1 DEF Split
  <1>6. CASE c = "numVariables"
    <2>1. /\ DOMAIN body = 1..4 /\ t(1) = {<<"val", "name">>}
          /\ t(2) = {<<"val", "typeName">>} /\ t(3) = {<<"val", "userFlags">>}
          /\ t(4) = Tags("type", "type")
      BY <1>6, TagsOfReads DEF Vector, ReadVariable
    <2>2. {<<"val", "name">>, <<"val", "typeName">>, <<"val", "userFlags">>}
             \cap Tags("type", "type") = {}
      BY DEF Tags
    <2> QED
      BY <2>1, <2>2 DEF Split
  <1>7. CASE c = "numProperties"
    <2>1. /\ DOMAIN body = 1..5 /\ t(1) = {<<"val", "name">>}
          /\ t(2) = {<<"val", "type">>} /\ t(3) = {<<"val", "docstring">>}
          /\ t(4) = {<<"val", "userFlags">>} /\ t(5) = Tags("propertyFlags", "flags")
      BY <1>7, TagsOfReads DEF Vector, ReadProperty
    <2>2. {<<"val", "name">>, <<"val", "type">>, <<"val", "docstring">>,
           <<"val", "userFlags">>} \cap Tags("propertyFlags", "flags") = {}
      BY DEF Tags
    <2> QED
      BY <2>1, <2>2 DEF Split
  <1>8. CASE c = "functionCount"
    <2>1. /\ DOMAIN body = 1..5 /\ t(1) = {<<"val", "objectNameIndex">>}
          /\ t(2) = {<<"val", "stateNameIndex">>} /\ t(3) = {<<"val", "functionNameIndex">>}
          /\ t(4) = {<<"val", "functionType">>}
          /\ t(5) = {<<"val", "instructionCount">>, <<"len", "lineNumbers">>,
                     <<"part", "lineNumbers">>}
      BY <1>8, TagsOfReads, VectorDomain, VectorNamesAre DEF Vector, ReadDebugFunction
    <2> QED
      BY <2>1 DEF Split
  <1>9. CASE c = "numFunctions"
    <2>1. body = << <<"u16", "functionName">> >> \o ReadFunction
      BY <1>9 DEF Vector
    <2> QED
      BY <2>1, FunctionSplit
  <1> QED
    BY <1>1, <1>2, <1>3, <1>4, <1>5, <1>6, <1>7, <1>8, <1>9, VectorDomain

\* So do the tables of the optional members, and none of them sets the flag that selects them.
LEMMA OptionsSplit ==
    /\ Split(<< <<"u16", "autoVarName">> >>)
    /\ Sets(<< <<"u16", "autoVarName">> >>,
            Tags("propertyFlags", "flags") \ {<<"val", "flags">>})
    /\ Split(<< <<"u64", "modificationTime">>, <<"count", "functionCount">> >>)
    /\ Sets(<< <<"u64", "modificationTime">>, <<"count", "functionCount">> >>,
            Tags("debugFlag", "hasDebugInfo") \ {<<"val", "hasDebugInfo">>})
    /\ \A v \in 0..5 : /\ Split(ReadVariableData[v])
                       /\ Sets(ReadVariableData[v],
                               Tags("type", "type") \ {<<"val", "type">>})
  <1>1. Split(<< <<"u16", "autoVarName">> >>)
    BY SingleSplit
  <1>2. Sets(<< <<"u16", "autoVarName">> >>,
            Tags("propertyFlags", "flags") \ {<<"val", "flags">>})
    <2>1. <<"val", "autoVarName">> \in Tags("propertyFlags", "flags")
      BY DEF Tags
    <2> QED
      BY <2>1, TagsOfReads DEF Sets
  <1> DEFINE body == << <<"u64", "modificationTime">>, <<"count", "functionCount">> >>
             t(i) == Tags(body[i][1], body[i][2])
  <1>3. /\ DOMAIN body = 1..2 /\ t(1) = {<<"val", "modificationTime">>}
        /\ t(2) = {<<"val", "functionCount">>, <<"len", "functions">>,
                   <<"part", "functions">>}
    BY TagsOfReads, VectorDomain, VectorNamesAre
  <1>4. Split(body)
    BY <1>3 DEF Split
  <1>5. Sets(body, Tags("debugFlag", "hasDebugInfo") \ {<<"val", "hasDebugInfo">>})
    <2>1. /\ <<"val", "modificationTime">> \in Tags("debugFlag", "hasDebugInfo")
          /\ <<"val", "functionCount">> \in Tags("debugFlag", "hasDebugInfo")
          /\ <<"len", "functions">> \in Tags("debugFlag", "hasDebugInfo")
          /\ <<"part", "functions">> \in Tags("debugFlag", "hasDebugInfo")
      BY DEF Tags
    <2> QED
      BY <1>3, <2>1 DEF Sets
  <1>6. ASSUME NEW v \in 0..5
        PROVE  /\ Split(ReadVariableData[v])
               /\ Sets(ReadVariableData[v], Tags("type", "type") \ {<<"val", "type">>})
    <2> DEFINE data == ReadVariableData[v]
    <2>1. data \in {<< >>, << <<"u16", "uint16">> >>, << <<"u32", "int32">> >>,
                    << <<"u32", "float">> >>, << <<"u8", "uint8">> >>}
      BY DEF ReadVariableData
    <2> HIDE DEF data
    <2>2. /\ Len(data) \in {0, 1} /\ DOMAIN data = 1..Len(data)
          /\ \A i \in DOMAIN data :
                data[i] \in {<<"u16", "uint16">>, <<"u32", "int32">>,
                            <<"u32", "float">>, <<"u8", "uint8">>}
      BY <2>1
    <2>3. /\ <<"val", "uint16">> \in Tags("type", "type")
          /\ <<"val", "int32">> \in Tags("type", "type")
          /\ <<"val", "float">> \in Tags("type", "type")
          /\ <<"val", "uint8">> \in Tags("type", "type")
      BY DEF Tags
    <2> QED
      <3>1. \A i, j \in DOMAIN data : i = j
        BY <2>2
      <3>3. Split(data)
        BY <3>1 DEF Split
      <3>2. Sets(data, Tags("type", "type") \ {<<"val", "type">>})
        <4> SUFFICES ASSUME NEW i \in DOMAIN data
                     PROVE  Tags(data[i][1], data[i][2])
                               \subseteq Tags("type", "type") \ {<<"val", "type">>}
          BY DEF Sets
        <4>1. \/ data[i][1] = "u16" /\ data[i][2] = "uint16"
              \/ data[i][1] = "u32" /\ data[i][2] = "int32"
              \/ data[i][1] = "u32" /\ data[i][2] = "float"
              \/ data[i][1] = "u8" /\ data[i][2] = "uint8"
          BY <2>2
        <4> QED
          BY <2>3, <4>1, TagsOfReads
      <3> QED
        BY <3>2, <3>3 DEF data
  <1> QED
    BY <1>1, <1>2, <1>4, <1>5, <1>6

\* Of its own path a goal sets the members its tags name.
LEMMA OwnsHere ==
    ASSUME NEW g, g.path \in Path
    PROVE  \A map, f : Owns(g, map, g.path, f) <=> <<map, f>> \in Tags(g.kind, g.field)
  <1>1. Len(g.path) \in Nat
    BY PathTyped
  <1> QED
    BY <1>1 DEF Owns, Within

\* A table of reads as goals of one record.
LEMMA TableGoals ==
    ASSUME NEW body \in Seq(Reading), NEW path \in Path, Split(body)
    PROVE  /\ Reads(body, path) \in Seq(Goals)
           /\ DOMAIN Reads(body, path) = DOMAIN body
           /\ Apart(Reads(body, path))
           /\ \A i \in DOMAIN body :
                 /\ Reads(body, path)[i].path = path
                 /\ Reads(body, path)[i].kind = body[i][1]
                 /\ Reads(body, path)[i].field = body[i][2]
                 /\ Reads(body, path)[i].kind \in DOMAIN Width
  <1> DEFINE more == Reads(body, path)
  <1>1. more \in Seq(Goals)
    BY ReadsTyped
  <1>2. /\ DOMAIN more = DOMAIN body
        /\ \A i \in DOMAIN body : more[i] = Goal(body[i][1], path, body[i][2], 0)
    BY DEF Reads
  <1>3. \A i \in DOMAIN body : body[i][1] \in DOMAIN Width
    BY ReadingTyped
  <1> HIDE DEF more
  <1>4. \A i \in DOMAIN body : /\ more[i].path = path
                               /\ more[i].kind = body[i][1]
                               /\ more[i].field = body[i][2]
    BY <1>2 DEF Goal
  <1>5. Apart(more)
    <2> SUFFICES ASSUME NEW i \in DOMAIN body, NEW j \in DOMAIN body, i # j
                 PROVE  Disjoint(more[i], more[j])
      BY <1>2 DEF Apart
    <2>1. Tags(more[i].kind, more[i].field) \cap Tags(more[j].kind, more[j].field) = {}
      BY <1>4 DEF Split
    <2> QED
      BY <1>4, <2>1, SameApart
  <1> QED
    BY <1>1, <1>2, <1>3, <1>4, <1>5 DEF more

\* The goals of a table set what the goal they replace may, and not the member it has set.
LEMMA TableInside ==
    ASSUME NEW h, h.path \in Path, h.kind \notin {"loop", "callArguments"},
           NEW body \in Seq(Reading), Split(body), NEW name,
           Sets(body, Tags(h.kind, h.field) \ {<<"val", name>>})
    PROVE  \A i \in DOMAIN body :
              /\ Inside(Reads(body, h.path)[i], h)
              /\ ~Owns(Reads(body, h.path)[i], "val", h.path, name)
  <1> SUFFICES ASSUME NEW i \in DOMAIN body, NEW g, g = Reads(body, h.path)[i]
               PROVE  Inside(g, h) /\ ~Owns(g, "val", h.path, name)
    OBVIOUS
  <1>1. g.path = h.path /\ g.kind = body[i][1] /\ g.field = body[i][2]
    BY TableGoals
  <1>2. Tags(g.kind, g.field) \subseteq Tags(h.kind, h.field) \ {<<"val", name>>}
    BY <1>1 DEF Sets
  <1>3. Inside(g, h)
    BY <1>1, <1>2, InsideSame
  <1>4. ~Owns(g, "val", h.path, name)
    BY <1>1, <1>2, OwnsHere
  <1> QED
    BY <1>3, <1>4

\* A read sets the member it reads, and was not done before.
LEMMA HeadSets ==
    ASSUME TypeOK, agenda # << >>, head.kind \in DOMAIN Width \cup {"payload"}
    PROVE  /\ <<"val", head.field>> \in Tags(head.kind, head.field)
           /\ Owns(head, "val", head.path, head.field)
           /\ head.path \in Path
           /\ FreshInv => <<head.path, head.field>> \notin DOMAIN parsed.val
  <1>1. head \in Goals /\ head.path \in Path
    BY HeadTyped, HeadReads
  <1>2. <<head.kind, head.field>> \in Members
    BY <1>1 DEF Goals
  <1>3. <<"val", head.field>> \in Tags(head.kind, head.field)
    <2>1. /\ head.kind = "debugFlag" => head.field = "hasDebugInfo"
          /\ head.kind = "objectSize" => head.field = "size"
          /\ head.kind = "propertyFlags" => head.field = "flags"
          /\ head.kind = "type" => head.field = "type"
          /\ head.kind = "opcode" => head.field = "op"
      BY <1>2 DEF Members
    <2>2. head.kind \in {"magic", "u8", "u16", "u32", "u64", "string", "count",
              "debugFlag", "objectSize", "propertyFlags", "type", "opcode", "payload"}
      BY DEF Width
    <2> QED
      BY <2>1, <2>2 DEF Tags
  <1>4. Owns(head, "val", head.path, head.field)
    BY <1>3 DEF Owns
  <1>5. ASSUME FreshInv PROVE <<head.path, head.field>> \notin DOMAIN parsed.val
    <2>1. 1 \in DOMAIN agenda /\ agenda[1] = head
      BY HeadIs DEF TypeOK
    <2>2. ~Settled(parsed, agenda, "val", head.path, head.field)
      BY <1>1, <1>4, <1>5, <2>1 DEF FreshInv, Fresh
    <2> QED
      BY <2>2 DEF Settled
  <1> QED
    BY <1>1, <1>3, <1>4, <1>5

\* The step of a read: its own member is settled by it, the sizes in `sizes`
\* unless more is to come.
LEMMA ReadKeepsFresh ==
    ASSUME TypeOK, FreshInv, agenda # << >>, head.kind \in DOMAIN Width \cup {"payload"},
           NEW more \in Seq(Goals), agenda' = Then(more, Tail(agenda)),
           Apart(more), \A i \in DOMAIN more : Inside(more[i], head),
           \A i \in DOMAIN more :
              more[i].kind = "callArguments" =>
                 head.kind = "opcode" /\ more[i].path = head.path,
           NEW values, NEW sizes,
           DOMAIN parsed'.val = DOMAIN parsed.val \cup values,
           DOMAIN parsed'.len = DOMAIN parsed.len \cup sizes,
           values \subseteq {<<head.path, head.field>>},
           values # {} => \A i \in DOMAIN more : ~Owns(more[i], "val", head.path, head.field),
           \A q, f : <<q, f>> \in sizes =>
              \/ f = "objects"
              \/ f = "arguments" /\ InLocals(agenda', q)
              \/ /\ q = head.path /\ <<"len", f>> \in Tags(head.kind, head.field)
                 /\ \A i \in DOMAIN more : ~Owns(more[i], "len", q, f),
           \A i \in DOMAIN more :
              /\ more[i].kind = "payload" => more[i].n > 0
              /\ more[i].kind = "loop" =>
                    <<more[i].path, more[i].field>> \in DOMAIN parsed'.val
              /\ more[i].kind # "push"
    PROVE  FreshInv'
  <1>1. \A map, f : \A q \in Path :
              Settled(parsed', agenda', map, q, f) =>
                 \/ Settled(parsed, agenda, map, q, f)
                 \/ /\ Owns(head, map, q, f)
                    /\ \A i \in DOMAIN more : ~Owns(more[i], map, q, f)
    <2> SUFFICES ASSUME NEW map, NEW f, NEW q \in Path,
                        Settled(parsed', agenda', map, q, f),
                        ~Settled(parsed, agenda, map, q, f)
                 PROVE  /\ Owns(head, map, q, f)
                        /\ \A i \in DOMAIN more : ~Owns(more[i], map, q, f)
      OBVIOUS
    <2>1. ~InLocals(agenda', q) => ~InLocals(agenda, q)
      BY InLocalsStep DEF Width
    <2>2. CASE map = "val"
      <3>1. <<q, f>> \in DOMAIN parsed'.val /\ <<q, f>> \notin DOMAIN parsed.val
        BY <2>2 DEF Settled
      <3>2. <<q, f>> \in values
        BY <3>1
      <3>3. q = head.path /\ f = head.field /\ values # {}
        BY <3>2
      <3> QED
        BY <2>2, <3>3, HeadSets
    <2>3. CASE map = "len"
      <3>1. /\ <<q, f>> \in DOMAIN parsed'.len /\ f # "objects"
            /\ f = "arguments" => ~InLocals(agenda', q)
        BY <2>3 DEF Settled
      <3>2. <<q, f>> \notin DOMAIN parsed.len
        BY <2>1, <2>3, <3>1 DEF Settled
      <3>3. <<q, f>> \in sizes
        BY <3>1, <3>2
      <3>4. /\ q = head.path /\ <<"len", f>> \in Tags(head.kind, head.field)
            /\ \A i \in DOMAIN more : ~Owns(more[i], "len", q, f)
        BY <3>1, <3>3
      <3> QED
        BY <2>3, <3>4 DEF Owns
    <2>4. map = "val" \/ map = "len"
      BY DEF Settled
    <2> QED
      BY <2>2, <2>3, <2>4
  <1>2. /\ DOMAIN parsed.val \subseteq DOMAIN parsed'.val
        /\ DOMAIN parsed.len \subseteq DOMAIN parsed'.len
    OBVIOUS
  <1> QED
    BY <1>1, <1>2, FreshStep

-----------------------------------------------------------------------------
(* What of the data to be written is known already *)

\* The goals of a sequence that count, when w says what each counts for.
Weigh(w, goals) == Total([i \in DOMAIN goals |-> w[goals[i]]])

\* A push to the arguments at q counts for 1.
PushAt(q) == [g \in Goals |-> IF g.kind = "push" /\ g.path = q THEN 1 ELSE 0]

\* How many goals still push to the arguments of q.
Pushes(goals, q) == Weigh(PushAt(q), goals)

\* Data whose counts are right.
Good(d) == IsData(d) /\ Even(d)

\* The data d may be what is parsed when the goals are done: it has the
\* members and the sizes that are set, but for the objects; and the arguments
\* of an instruction once they are no longer read into locals, with those
\* still to be pushed.
Known(d, p) ==
    /\ \A q, f : <<q, f>> \in DOMAIN p.val => Value(d, q, f) = p.val[<<q, f>>]
    /\ \A q, f : <<q, f>> \in DOMAIN p.len /\ f \notin {"arguments", "objects"} =>
                    Size(d, q, f) = p.len[<<q, f>>]

\* The arguments pushed and to be pushed are those d has.
Argued(d, p, goals) ==
    /\ \A q \in Path : <<q, "arguments">> \in DOMAIN p.len /\ ~InLocals(goals, q) =>
          Size(d, q, "arguments") = p.len[<<q, "arguments">>] + Pushes(goals, q)
    /\ \A i \in DOMAIN goals : goals[i].kind = "callArguments" =>
          goals[i].n <= Size(d, goals[i].path, "arguments")

\* Both hold: d may be what is parsed when the goals are done.
Fit(d, p, goals) == Known(d, p) /\ Argued(d, p, goals)

\* PushAt counts the pushes at a path.
LEMMA PushAtTyped ==
    ASSUME NEW q
    PROVE  /\ \A g \in Goals : PushAt(q)[g] \in Nat
           /\ \A g \in Goals : ~(g.kind = "push" /\ g.path = q) => PushAt(q)[g] = 0
           /\ \A g \in Goals : g.kind = "push" /\ g.path = q => PushAt(q)[g] = 1
  BY DEF PushAt

\* What goals count for is a number,
LEMMA WeighTyped ==
    ASSUME NEW w, \A g \in Goals : w[g] \in Nat, NEW goals \in Seq(Goals)
    PROVE  /\ [i \in DOMAIN goals |-> w[goals[i]]] \in Seq(Nat)
           /\ Weigh(w, goals) \in Nat
  <1>1. \A i \in DOMAIN goals : w[goals[i]] \in Nat
    OBVIOUS
  <1>2. [i \in DOMAIN goals |-> w[goals[i]]] \in Seq(Nat)
    BY <1>1
  <1> QED
    BY <1>2, TotalTyped DEF Weigh

\* ... 0 if each counts for nothing,
LEMMA WeighNothing ==
    ASSUME NEW w, \A g \in Goals : w[g] \in Nat, NEW goals \in Seq(Goals),
           \A i \in DOMAIN goals : w[goals[i]] = 0
    PROVE  Weigh(w, goals) = 0
  <1> DEFINE s == [i \in DOMAIN goals |-> w[goals[i]]]
  <1>1. s \in Seq(Nat) /\ Len(s) = Len(goals)
    BY WeighTyped
  <1>2. \A i \in 1..Len(s) : s[i] = 0
    BY <1>1
  <1>3. Total(s) = 0
    <2> HIDE DEF s
    <2> QED
      BY <1>1, <1>2, TotalOfZeros
  <1> QED
    BY <1>3 DEF Weigh

\* ... of one goal what it counts for,
LEMMA WeighOne ==
    ASSUME NEW w, \A g \in Goals : w[g] \in Nat, NEW g \in Goals
    PROVE  Weigh(w, <<g>>) = w[g]
  <1>1. [i \in DOMAIN <<g>> |-> w[<<g>>[i]]] = <<w[g]>>
    OBVIOUS
  <1> QED
    BY <1>1, TotalOfFew DEF Weigh

\* ... and of two sequences the sum.
LEMMA WeighThen ==
    ASSUME NEW w, \A g \in Goals : w[g] \in Nat,
           NEW a \in Seq(Goals), NEW b \in Seq(Goals)
    PROVE  Weigh(w, Then(a, b)) = Weigh(w, a) + Weigh(w, b)
  <1> DEFINE c == Then(a, b)
             s == [i \in DOMAIN a |-> w[a[i]]]
             t == [i \in DOMAIN b |-> w[b[i]]]
             u == [i \in DOMAIN c |-> w[c[i]]]
  <1>1. s \in Seq(Nat) /\ t \in Seq(Nat)
    BY WeighTyped
  <1>2. /\ c \in Seq(Goals) /\ DOMAIN c = 1..(Len(a) + Len(b))
        /\ Len(a) \in Nat /\ Len(b) \in Nat
        /\ \A i \in 1..Len(a) : c[i] = a[i] /\ i \in DOMAIN a
        /\ \A i \in (Len(a) + 1)..(Len(a) + Len(b)) :
              c[i] = b[i - Len(a)] /\ i - Len(a) \in DOMAIN b
    BY ThenAt
  <1>3. u \in Seq(Nat)
    <2> HIDE DEF c
    <2> QED
      BY <1>2, WeighTyped
  <1>4. /\ Len(s) = Len(a) /\ \A i \in 1..Len(a) : s[i] = w[a[i]]
        /\ Len(t) = Len(b) /\ \A i \in 1..Len(b) : t[i] = w[b[i]]
    OBVIOUS
  <1> HIDE DEF c, s, t
  <1>5. DOMAIN u = 1..(Len(a) + Len(b)) /\ \A i \in DOMAIN u : u[i] = w[c[i]]
    BY <1>2
  <1> HIDE DEF u
  <1>6. /\ Then(s, t) \in Seq(Nat) /\ DOMAIN Then(s, t) = 1..(Len(a) + Len(b))
        /\ \A i \in 1..Len(a) : Then(s, t)[i] = s[i]
        /\ \A i \in (Len(a) + 1)..(Len(a) + Len(b)) : Then(s, t)[i] = t[i - Len(a)]
    <2>1. /\ Then(s, t) \in Seq(Nat) /\ DOMAIN Then(s, t) = 1..(Len(s) + Len(t))
          /\ \A i \in 1..Len(s) : Then(s, t)[i] = s[i]
          /\ \A i \in (Len(s) + 1)..(Len(s) + Len(t)) : Then(s, t)[i] = t[i - Len(s)]
      <3> DEFINE N == Nat
      <3>1. s \in Seq(N) /\ t \in Seq(N)
        BY <1>1
      <3> HIDE DEF N
      <3>2. /\ Then(s, t) \in Seq(N) /\ DOMAIN Then(s, t) = 1..(Len(s) + Len(t))
            /\ \A i \in 1..Len(s) : Then(s, t)[i] = s[i]
            /\ \A i \in (Len(s) + 1)..(Len(s) + Len(t)) : Then(s, t)[i] = t[i - Len(s)]
        BY <3>1, ThenAt
      <3> QED
        BY <3>2 DEF N
    <2>2. Len(s) = Len(a) /\ Len(t) = Len(b)
      BY <1>4
    <2> QED
      BY <2>1, <2>2
  <1>7. ASSUME NEW i \in 1..(Len(a) + Len(b)) PROVE u[i] = Then(s, t)[i]
    <2>1. u[i] = w[c[i]]
      BY <1>5
    <2>2. CASE i \in 1..Len(a)
      BY <1>2, <1>4, <1>6, <2>1, <2>2
    <2>3. CASE i \in (Len(a) + 1)..(Len(a) + Len(b))
      <3>1. c[i] = b[i - Len(a)] /\ Then(s, t)[i] = t[i - Len(a)]
        BY <1>2, <1>6, <2>3
      <3>2. i - Len(a) \in 1..Len(b)
        BY <1>2, <2>3
      <3> QED
        BY <1>4, <2>1, <3>1, <3>2
    <2> QED
      BY <1>2, <2>2, <2>3
  <1>8. u = Then(s, t)
    <2>1. Len(u) = Len(a) + Len(b) /\ Len(Then(s, t)) = Len(a) + Len(b)
      BY <1>2, <1>3, <1>5, <1>6
    <2> QED
      BY <1>3, <1>6, <1>7, <2>1, SeqEqual
  <1>9. Total(u) = Total(s) + Total(t)
    BY <1>1, <1>8, TotalOfConcat DEF Then
  <1> QED
    BY <1>9 DEF u, s, t, c, Weigh

\* The map g has the keys `new` and what f had besides.
Extends(g, f, new) ==
    /\ DOMAIN g = DOMAIN f \cup new
    /\ \A q, x : <<q, x>> \in DOMAIN f /\ <<q, x>> \notin new =>
                    g[<<q, x>>] = f[<<q, x>>]

\* The step sets the members `values` and the sizes `sizes`, and no other.
Grows(values, sizes) ==
    Extends(parsed'.val, parsed.val, values) /\ Extends(parsed'.len, parsed.len, sizes)

\* Put changes a function at one point.
LEMMA PutKept ==
    ASSUME NEW f, NEW k, NEW n
    PROVE  Extends(Put(f, k, n), f, {k}) /\ Put(f, k, n)[k] = n
  <1>1. DOMAIN Put(f, k, n) = DOMAIN f \cup {k} /\ Put(f, k, n)[k] = n
    BY DEF Put
  <1>2. \A y \in DOMAIN f : y # k => Put(f, k, n)[y] = f[y]
    BY DEF Put
  <1> QED
    BY <1>1, <1>2 DEF Extends

\* A function extends itself.
LEMMA SameKept ==
    ASSUME NEW f
    PROVE  Extends(f, f, {})
  BY DEF Extends

\* Reading a value sets that one member.
LEMMA GrowsByValue ==
    ASSUME TypeOK, NEW v, parsed' = WithValue(v)
    PROVE  /\ Grows({<<head.path, head.field>>}, {})
           /\ parsed'.val[<<head.path, head.field>>] = v
  <1>1. /\ parsed'.val = Put(parsed.val, <<head.path, head.field>>, v)
        /\ parsed'.len = parsed.len
    BY DEF TypeOK, IsData, WithValue
  <1> QED
    BY <1>1, PutKept, SameKept DEF Grows

\* Making a vector longer sets that one length.
LEMMA GrowsBySize ==
    ASSUME TypeOK, NEW p, NEW f, NEW n, parsed' = WithSize(parsed, p, f, n)
    PROVE  /\ Grows({}, {<<p, f>>})
           /\ parsed'.len[<<p, f>>] = n
  <1>1. /\ parsed'.len = Put(parsed.len, <<p, f>>, n)
        /\ parsed'.val = parsed.val
    BY DEF TypeOK, IsData, WithSize
  <1> QED
    BY <1>1, PutKept, SameKept DEF Grows

\* Reading a count sets a member and a length.
LEMMA GrowsByBoth ==
    ASSUME TypeOK, NEW v, NEW p, NEW f, NEW n,
           parsed' = WithSize(WithValue(v), p, f, n)
    PROVE  /\ Grows({<<head.path, head.field>>}, {<<p, f>>})
           /\ parsed'.val[<<head.path, head.field>>] = v
           /\ parsed'.len[<<p, f>>] = n
  <1>1. /\ parsed'.len = Put(parsed.len, <<p, f>>, n)
        /\ parsed'.val = Put(parsed.val, <<head.path, head.field>>, v)
    BY DEF TypeOK, IsData, WithSize, WithValue
  <1>2. /\ Extends(parsed'.len, parsed.len, {<<p, f>>})
        /\ parsed'.len[<<p, f>>] = n
    BY <1>1, PutKept
  <1>3. /\ Extends(parsed'.val, parsed.val, {<<head.path, head.field>>})
        /\ parsed'.val[<<head.path, head.field>>] = v
    BY <1>1, PutKept
  <1> QED
    BY <1>2, <1>3 DEF Grows

\* The pushes of an agenda, by head and tail.
LEMMA PushesStep ==
    ASSUME TypeOK, agenda # << >>, NEW more \in Seq(Goals),
           agenda' = Then(more, Tail(agenda)), NEW q
    PROVE  /\ Pushes(agenda, q) = PushAt(q)[head] + Pushes(Tail(agenda), q)
           /\ Pushes(agenda', q) = Pushes(more, q) + Pushes(Tail(agenda), q)
           /\ Pushes(Tail(agenda), q) \in Nat
  <1> DEFINE t == Tail(agenda)
             g == head
  <1>1. t \in Seq(Goals) /\ g \in Goals /\ <<g>> \in Seq(Goals)
    BY HeadTyped
  <1>2. agenda = Then(<<g>>, t)
    BY DEF TypeOK, head, Then
  <1> HIDE DEF t, g
  <1>3. \A x \in Goals : PushAt(q)[x] \in Nat
    BY PushAtTyped
  <1>4. Weigh(PushAt(q), <<g>>) = PushAt(q)[g]
    BY <1>1, <1>3, WeighOne
  <1>5. Weigh(PushAt(q), Then(<<g>>, t)) = Weigh(PushAt(q), <<g>>) + Weigh(PushAt(q), t)
    BY <1>1, <1>3, WeighThen
  <1>6. Weigh(PushAt(q), Then(more, t)) = Weigh(PushAt(q), more) + Weigh(PushAt(q), t)
    BY <1>1, <1>3, WeighThen
  <1>7. Weigh(PushAt(q), t) \in Nat
    BY <1>1, <1>3, WeighTyped
  <1>8. agenda' = Then(more, t)
    BY DEF t
  <1>9. /\ Pushes(agenda, q) = PushAt(q)[g] + Pushes(t, q)
        /\ Pushes(agenda', q) = Pushes(more, q) + Pushes(t, q)
        /\ Pushes(t, q) \in Nat
    BY <1>2, <1>4, <1>5, <1>6, <1>7, <1>8 DEF Pushes
  <1> QED
    BY <1>9 DEF t, g

\* The goals of the agenda are the head and the tail, and the tail is kept.
LEMMA AgendaParts ==
    ASSUME TypeOK, agenda # << >>, NEW more \in Seq(Goals),
           agenda' = Then(more, Tail(agenda)), NEW i \in DOMAIN agenda
    PROVE  \/ agenda[i] = head
           \/ \E j \in DOMAIN agenda' : agenda'[j] = agenda[i]
  <1> DEFINE t == Tail(agenda)
             m == Len(more)
             n == Len(t)
  <1>0. t \in Seq(Goals)
    BY HeadTyped
  <1>1. /\ m \in Nat /\ n \in Nat /\ DOMAIN agenda' = 1..(m + n)
        /\ \A k \in (m + 1)..(m + n) : agenda'[k] = t[k - m]
    BY <1>0, ThenAt
  <1>2. /\ DOMAIN agenda = 1..(n + 1) /\ head = agenda[1]
        /\ \A k \in 1..n : t[k] = agenda[k + 1]
    BY <1>0, HeadIs DEF TypeOK
  <1> HIDE DEF t, m, n
  <1>3. CASE i # 1
    <2>1. i - 1 \in 1..n /\ m + (i - 1) \in (m + 1)..(m + n)
      BY <1>1, <1>2, <1>3
    <2>2. agenda'[m + (i - 1)] = t[(m + (i - 1)) - m]
      BY <1>1, <2>1
    <2>3. (m + (i - 1)) - m = i - 1
      BY <1>1, <2>1
    <2>4. t[i - 1] = agenda[i]
      BY <1>2, <2>1
    <2>5. m + (i - 1) \in DOMAIN agenda'
      BY <1>1, <2>1
    <2> QED
      BY <2>2, <2>3, <2>4, <2>5
  <1> QED
    BY <1>2, <1>3

\* What the arguments of an instruction are stays known, as long as the step
\* neither pushes one nor goes back to reading them into locals.
LEMMA ReadKeepsFit ==
    ASSUME TypeOK, FreshInv, agenda # << >>, head.kind \in DOMAIN Width \cup {"payload"},
           NEW more \in Seq(Goals), agenda' = Then(more, Tail(agenda)),
           \A i \in DOMAIN more :
              more[i].kind = "callArguments" =>
                 head.kind = "opcode" /\ more[i].path = head.path,
           \A i \in DOMAIN more : more[i].kind # "push",
           NEW values, NEW sizes, Grows(values, sizes),
           values \subseteq {<<head.path, head.field>>},
           \A q, f : <<q, f>> \in sizes =>
              \/ f = "objects"
              \/ f = "arguments" /\ InLocals(agenda', q)
              \/ q = head.path /\ <<"len", f>> \in Tags(head.kind, head.field),
           NEW d, Fit(d, parsed', agenda')
    PROVE  Fit(d, parsed, agenda)
  <1>1. head.path \in Path /\ <<head.path, head.field>> \notin DOMAIN parsed.val
    BY HeadSets
  <1>2. \A f : <<"len", f>> \in Tags(head.kind, head.field) =>
                  ~Settled(parsed, agenda, "len", head.path, f)
    <2>1. 1 \in DOMAIN agenda /\ agenda[1] = head
      BY HeadIs DEF TypeOK
    <2>2. \A f : <<"len", f>> \in Tags(head.kind, head.field) =>
                    Owns(head, "len", head.path, f)
      BY DEF Owns
    <2> QED
      BY <1>1, <2>1, <2>2 DEF FreshInv, Fresh
  <1>3. Known(d, parsed)
    <2>1. ASSUME NEW q, NEW f, <<q, f>> \in DOMAIN parsed.val
          PROVE  Value(d, q, f) = parsed.val[<<q, f>>]
      <3>1. <<q, f>> \notin values
        BY <1>1, <2>1
      <3>2. <<q, f>> \in DOMAIN parsed'.val /\ parsed'.val[<<q, f>>] = parsed.val[<<q, f>>]
        BY <2>1, <3>1 DEF Grows, Extends
      <3> QED
        BY <3>2 DEF Fit, Known
    <2>2. ASSUME NEW q, NEW f, <<q, f>> \in DOMAIN parsed.len,
                 f \notin {"arguments", "objects"}
          PROVE  Size(d, q, f) = parsed.len[<<q, f>>]
      <3>1. <<q, f>> \notin sizes
        <4> SUFFICES ASSUME <<q, f>> \in sizes PROVE FALSE
          OBVIOUS
        <4>1. q = head.path /\ <<"len", f>> \in Tags(head.kind, head.field)
          BY <2>2
        <4> QED
          BY <1>2, <2>2, <4>1 DEF Settled
      <3>2. <<q, f>> \in DOMAIN parsed'.len /\ parsed'.len[<<q, f>>] = parsed.len[<<q, f>>]
        BY <2>2, <3>1 DEF Grows, Extends
      <3> QED
        BY <2>2, <3>2 DEF Fit, Known
    <2> QED
      BY <2>1, <2>2 DEF Known
  <1>4. ASSUME NEW q \in Path, <<q, "arguments">> \in DOMAIN parsed.len,
               ~InLocals(agenda, q)
        PROVE  Size(d, q, "arguments") = parsed.len[<<q, "arguments">>] + Pushes(agenda, q)
    <2>0. ~(q = head.path /\ <<"len", "arguments">> \in Tags(head.kind, head.field))
      BY <1>2, <1>4 DEF Settled
    <2>1. ~InLocals(agenda', q)
      <3>1. InLocals(agenda', q) => InLocals(more, q) \/ InLocals(Tail(agenda), q)
        BY InLocalsStep
      <3>2. ~InLocals(Tail(agenda), q)
        BY <1>4, InLocalsStep
      <3>3. ~InLocals(more, q)
        <4> SUFFICES ASSUME InLocals(more, q) PROVE FALSE
          OBVIOUS
        <4>1. head.kind = "opcode" /\ head.path = q
          BY DEF InLocals
        <4> QED
          BY <2>0, <4>1 DEF Tags
      <3> QED
        BY <3>1, <3>2, <3>3
    <2>2. <<q, "arguments">> \notin sizes
      BY <2>0, <2>1
    <2>3. /\ <<q, "arguments">> \in DOMAIN parsed'.len
          /\ parsed'.len[<<q, "arguments">>] = parsed.len[<<q, "arguments">>]
      BY <1>4, <2>2 DEF Grows, Extends
    <2>4. Size(d, q, "arguments") = parsed'.len[<<q, "arguments">>] + Pushes(agenda', q)
      BY <2>1, <2>3 DEF Fit, Argued
    <2>5. Pushes(agenda', q) = Pushes(agenda, q)
      <3>1. PushAt(q)[head] = 0
        <4>1. head \in Goals /\ head.kind # "push"
          BY HeadTyped DEF Width
        <4> QED
          BY <4>1, PushAtTyped
      <3>2. Pushes(more, q) = 0
        <4>1. \A i \in DOMAIN more : more[i] \in Goals
          OBVIOUS
        <4>2. \A i \in DOMAIN more : PushAt(q)[more[i]] = 0
          BY <4>1, PushAtTyped
        <4> QED
          BY <4>2, PushAtTyped, WeighNothing DEF Pushes
      <3> QED
        BY <3>1, <3>2, PushesStep
    <2> QED
      BY <2>3, <2>4, <2>5
  <1>5. ASSUME NEW i \in DOMAIN agenda, agenda[i].kind = "callArguments"
        PROVE  agenda[i].n <= Size(d, agenda[i].path, "arguments")
    <2>1. agenda[i] # head
      BY <1>5 DEF Width
    <2>2. PICK j \in DOMAIN agenda' : agenda'[j] = agenda[i]
      BY <2>1, AgendaParts
    <2> QED
      BY <1>5, <2>2 DEF Fit, Argued
  <1>6. Argued(d, parsed, agenda)
    BY <1>4, <1>5 DEF Argued
  <1> QED
    BY <1>3, <1>6 DEF Fit

-----------------------------------------------------------------------------
(* What each step reads is what is written there *)

\* No read of two bytes returned more than a uint16_t.
Narrow ==
    \A o \in DOMAIN disk.at :
        disk.at[o].width = 2 /\ ~disk.at[o].text => disk.at[o].value <= MaxStringLength

\* The step reads e and leaves `more` to do instead of the head; and whatever
\* the data will be, e is what Save writes first for the head, and what it
\* writes for `more` follows.
Follows(e, more) ==
    /\ more \in Seq(Goals) /\ agenda' = Then(more, Tail(agenda))
    /\ FreshInv'
    /\ \A d : Good(d) /\ Fit(d, parsed', agenda') =>
          /\ Fit(d, parsed, agenda)
          /\ Emit(head, d) = Then(e, EmitAll(more, d))

\* The step reads v.
Takes(v) == Consume(HeadWidth, v) /\ v \in Nat /\ HeadWidth \in Nat \ {0}

\* What two bytes give is at most MaxStringLength.
LEMMA SeenNarrow ==
    ASSUME TypeOK, Narrow, agenda # << >>, head.kind \in {"u16", "string", "count"},
           NEW v \in Seen(2)
    PROVE  v <= MaxStringLength
  <1>1. <<head.kind, head.field>> \in Members
    <2>1. head \in Goals
      BY HeadTyped
    <2> QED
      BY <2>1 DEF Goals, Width
  <1>2. Contents[<<head.kind, head.field>>] \subseteq 0..MaxStringLength
    BY <1>1, NumbersAssumption
  <1>3. CASE v \in Contents[<<head.kind, head.field>>]
    BY <1>2, <1>3
  <1>4. CASE /\ position \in DOMAIN disk.at
             /\ disk.at[position] = Item(2, disk.at[position].value)
             /\ v = disk.at[position].value
    <2>1. disk.at[position] = Number(2, disk.at[position].value)
      BY <1>4 DEF Item
    <2>2. disk.at[position].width = 2 /\ ~disk.at[position].text
      BY <2>1 DEF Number
    <2> QED
      BY <1>4, <2>2 DEF Narrow
  <1> QED
    BY <1>3, <1>4 DEF Seen

\* The width of a read is that of its kind, and of a payload the length that was read.
LEMMA HeadWidthIs ==
    ASSUME TypeOK, FreshInv, agenda # << >>, head.kind \in DOMAIN Width \cup {"payload"}
    PROVE  /\ HeadWidth \in Nat \ {0}
           /\ head.kind \in DOMAIN Width => HeadWidth = Width[head.kind]
           /\ head.kind = "payload" => HeadWidth = head.n
  <1>1. head.kind = "payload" => head.n > 0
    <2>1. 1 \in DOMAIN agenda /\ agenda[1] = head
      BY HeadIs DEF TypeOK
    <2> QED
      BY <2>1 DEF FreshInv, Prepared
  <1>2. \A k \in DOMAIN Width : Width[k] \in Nat \ {0} /\ k # "payload"
    BY DEF Width
  <1>3. head.n \in Nat
    BY HeadTyped DEF Goals
  <1> QED
    BY <1>1, <1>2, <1>3 DEF HeadWidth

\* A read that replaces its goal by goals inside it keeps the goals apart and their members unset.
LEMMA ReadFollows ==
    ASSUME TypeOK, FreshInv, agenda # << >>, head.kind \in DOMAIN Width \cup {"payload"},
           NEW more \in Seq(Goals), agenda' = Then(more, Tail(agenda)),
           Apart(more), \A i \in DOMAIN more : Inside(more[i], head),
           \A i \in DOMAIN more :
              more[i].kind = "callArguments" =>
                 head.kind = "opcode" /\ more[i].path = head.path,
           NEW values, NEW sizes, Grows(values, sizes),
           values \subseteq {<<head.path, head.field>>},
           values # {} => \A i \in DOMAIN more : ~Owns(more[i], "val", head.path, head.field),
           \A q, f : <<q, f>> \in sizes =>
              \/ f = "objects"
              \/ f = "arguments" /\ InLocals(agenda', q)
              \/ /\ q = head.path /\ <<"len", f>> \in Tags(head.kind, head.field)
                 /\ \A i \in DOMAIN more : ~Owns(more[i], "len", q, f),
           \A i \in DOMAIN more :
              /\ more[i].kind = "payload" => more[i].n > 0
              /\ more[i].kind = "loop" =>
                    <<more[i].path, more[i].field>> \in DOMAIN parsed'.val
              /\ more[i].kind # "push",
           NEW e,
           \A d : Good(d) /\ Fit(d, parsed', agenda') =>
                     Emit(head, d) = Then(e, EmitAll(more, d))
    PROVE  Follows(e, more)
  <1>1. FreshInv'
    BY ReadKeepsFresh DEF Grows, Extends
  <1>2. \A q, f : <<q, f>> \in sizes =>
              \/ f = "objects"
              \/ f = "arguments" /\ InLocals(agenda', q)
              \/ q = head.path /\ <<"len", f>> \in Tags(head.kind, head.field)
    OBVIOUS
  <1>3. \A d : Fit(d, parsed', agenda') => Fit(d, parsed, agenda)
    BY <1>2, ReadKeepsFit
  <1> QED
    BY <1>1, <1>3 DEF Follows

\* ReadScalar,
LEMMA ReadScalarFollows ==
    ASSUME TypeOK, FreshInv, ReadScalar
    PROVE  \E v : Takes(v) /\ Follows(<<Item(HeadWidth, v)>>, << >>)
  <1>1. /\ agenda # << >> /\ head.kind \in DOMAIN Width \cup {"payload"}
        /\ head.kind \in {"magic", "u8", "u16", "u32", "u64", "payload"}
    BY DEF ReadScalar, At, Width
  <1>2. PICK v : v \in Seen(HeadWidth) /\ Consume(HeadWidth, v)
                 /\ parsed' = WithValue(v)
    BY DEF ReadScalar
  <1>3. Takes(v)
    BY <1>1, <1>2, SeenTyped, HeadWidthIs DEF Takes
  <1>4. << >> \in Seq(Goals) /\ agenda' = Then(<< >>, Tail(agenda)) /\ Apart(<< >>)
    <2>1. Tail(agenda) \in Seq(Goals) /\ agenda' = Tail(agenda)
      BY <1>1, HeadTyped DEF ReadScalar
    <2>2. Then(<< >>, Tail(agenda)) = Tail(agenda)
      BY <2>1, ThenNone
    <2>3. << >> \in Seq(Goals)
      OBVIOUS
    <2> QED
      BY <2>1, <2>2, <2>3, ApartFew
  <1>5. /\ Grows({<<head.path, head.field>>}, {})
        /\ parsed'.val[<<head.path, head.field>>] = v
        /\ <<head.path, head.field>> \in DOMAIN parsed'.val
    BY <1>2, GrowsByValue DEF Grows, Extends
  <1>6. ASSUME NEW d, Good(d), Fit(d, parsed', agenda')
        PROVE  Emit(head, d) = Then(<<Item(HeadWidth, v)>>, EmitAll(<< >>, d))
    <2>1. Value(d, head.path, head.field) = v
      BY <1>5, <1>6 DEF Fit, Known
    <2>2. Emit(head, d) = <<Item(HeadWidth, v)>>
      <3>1. CASE head.kind = "payload"
        BY <1>1, <2>1, <3>1, HeadWidthIs DEF Emit, Item
      <3>2. CASE head.kind # "payload"
        <4>1. HeadWidth = Width[head.kind] /\ Item(HeadWidth, v) = Number(HeadWidth, v)
          BY <1>1, <3>2, HeadWidthIs DEF Item
        <4>2. CASE head.kind \in {"magic", "u32"}
          BY <2>1, <4>1, <4>2 DEF Emit, Width, WriteUInt32BE
        <4>3. CASE head.kind = "u8"
          BY <2>1, <4>1, <4>3 DEF Emit, Width, WriteUInt8
        <4>4. CASE head.kind = "u16"
          BY <2>1, <4>1, <4>4 DEF Emit, Width, WriteUInt16BE
        <4>5. CASE head.kind = "u64"
          BY <2>1, <4>1, <4>5 DEF Emit, Width, WriteUInt64BE
        <4> QED
          BY <1>1, <3>2, <4>2, <4>3, <4>4, <4>5
      <3> QED
        BY <3>1, <3>2
    <2>3. EmitAll(<< >>, d) = << >>
      BY <1>6, EmitFew DEF Good
    <2> QED
      BY <2>2, <2>3 DEF Then
  <1>7. Follows(<<Item(HeadWidth, v)>>, << >>)
    <2> DEFINE more == << >>
               values == {<<head.path, head.field>>}
    <2>1. DOMAIN more = {}
      OBVIOUS
    <2>2. more \in Seq(Goals) /\ agenda' = Then(more, Tail(agenda)) /\ Apart(more)
      BY <1>4
    <2>3. Grows(values, {})
      BY <1>5
    <2>4. \A d : Good(d) /\ Fit(d, parsed', agenda') =>
                    Emit(head, d) = Then(<<Item(HeadWidth, v)>>, EmitAll(more, d))
      BY <1>6
    <2>5. values \subseteq {<<head.path, head.field>>}
      OBVIOUS
    <2> HIDE DEF more, values
    <2>6. Follows(<<Item(HeadWidth, v)>>, more)
      BY <1>1, <2>1, <2>2, <2>3, <2>4, <2>5, ReadFollows
    <2> QED
      BY <2>6 DEF more
  <1> QED
    BY <1>3, <1>7

\* A step that puts one goal on the agenda.
LEMMA OneGoal ==
    ASSUME NEW g \in Goals
    PROVE  /\ <<g>> \in Seq(Goals) /\ Apart(<<g>>) /\ DOMAIN <<g>> = {1}
           /\ <<g>>[1] = g
  <1>1. <<g>> \in Seq(Goals) /\ DOMAIN <<g>> = {1} /\ <<g>>[1] = g
    OBVIOUS
  <1> QED
    BY <1>1, ApartFew

\* ... ReadLength: a string is written with its length before it,
LEMMA ReadLengthFollows ==
    ASSUME TypeOK, FreshInv, Narrow, ReadLength
    PROVE  \E v, more : Takes(v) /\ Follows(<<Item(HeadWidth, v)>>, more)
  <1>1. /\ agenda # << >> /\ head.kind \in DOMAIN Width \cup {"payload"}
        /\ head.kind = "string"
    BY DEF ReadLength, At, Width
  <1>2. PICK v : /\ v \in Seen(2) /\ Consume(2, v)
                 /\ parsed' = WithSize(parsed, head.path, head.field, v)
                 /\ agenda' = (IF v = 0 THEN << >>
                               ELSE <<Goal("payload", head.path, head.field, v)>>)
                              \o Tail(agenda)
    BY DEF ReadLength
  <1>3. v \in Nat /\ v <= MaxStringLength /\ HeadWidth = 2 /\ Takes(v)
    <2>1. HeadWidth = 2
      BY <1>1, HeadWidthIs DEF Width
    <2> QED
      BY <1>1, <1>2, <2>1, SeenTyped, SeenNarrow DEF Takes
  <1> DEFINE p == Goal("payload", head.path, head.field, v)
             more == IF v = 0 THEN << >> ELSE <<p>>
             key == <<head.path, head.field>>
  <1>4. /\ head \in Goals /\ head.path \in Path /\ head.field \notin VectorNames
        /\ head.field # "arguments" /\ head.field # "objects"
    <2>1. head \in Goals /\ head.path \in Path /\ head.field \notin VectorNames
      BY <1>1, HeadReads
    <2> QED
      BY <2>1 DEF VectorNames, Vector
  <1>5. /\ p \in Goals /\ p.kind = "payload" /\ p.path = head.path
        /\ p.field = head.field /\ p.n = v
    <2>1. <<"payload", head.field>> \in Members /\ head.field \in Fields
      <3>1. <<"string", head.field>> \in Members
        BY <1>1, <1>4 DEF Goals
      <3>2. <<"payload", head.field>> \in Members
        BY <3>1 DEF Members
      <3> QED
        BY <1>4, <3>2 DEF Goals
    <2> QED
      BY <1>3, <1>4, <2>1 DEF Goal, Goals, Kinds
  <1>6. /\ Tags(p.kind, p.field) = {<<"val", head.field>>}
        /\ Tags(head.kind, head.field) = {<<"val", head.field>>, <<"len", head.field>>}
    BY <1>1, <1>5, TagsOfReads
  <1>7. /\ Grows({}, {key}) /\ parsed'.len[key] = v /\ key \in DOMAIN parsed'.len
    BY <1>2, GrowsBySize DEF Grows, Extends
  <1>8. /\ more \in Seq(Goals) /\ agenda' = Then(more, Tail(agenda)) /\ Apart(more)
        /\ \A i \in DOMAIN more : more[i] = p /\ v # 0
    <2>0. << >> \in Seq(Goals) /\ DOMAIN << >> = {}
      OBVIOUS
    <2>1. agenda' = more \o Tail(agenda)
      BY <1>2
    <2>2. <<p>> \in Seq(Goals) /\ Apart(<<p>>) /\ DOMAIN <<p>> = {1} /\ <<p>>[1] = p
      BY <1>5, OneGoal
    <2>3. \/ more = << >>
          \/ more = <<p>> /\ v # 0
      OBVIOUS
    <2> HIDE DEF more, p
    <2> QED
      BY <2>0, <2>1, <2>2, <2>3, ApartFew DEF Then
  <1>9. Inside(p, head) /\ ~Owns(p, "len", head.path, head.field)
    <2> HIDE DEF p
    <2>1. Inside(p, head)
      BY <1>1, <1>5, <1>6, InsideSame
    <2>2. Owns(p, "len", p.path, head.field) <=>
             <<"len", head.field>> \in Tags(p.kind, p.field)
      BY <1>4, <1>5, OwnsHere
    <2>3. <<"len", head.field>> \notin Tags(p.kind, p.field)
      BY <1>6
    <2> QED
      BY <1>5, <2>1, <2>2, <2>3
  <1>10. ASSUME NEW d, Good(d), Fit(d, parsed', agenda')
         PROVE  Emit(head, d) = Then(<<Item(HeadWidth, v)>>, EmitAll(more, d))
    <2>1. Size(d, head.path, head.field) = v
      BY <1>4, <1>7, <1>10 DEF Fit, Known
    <2>2. Emit(head, d) = WriteUInt16BE(v) \o
             (IF v = 0 THEN << >> ELSE << Text(v, Value(d, head.path, head.field)) >>)
      <3>1. Emit(head, d) = WriteWString(d, head.path, head.field)
        BY <1>1 DEF Emit
      <3>2. ~(v > MaxStringLength)
        BY <1>3, StringLengthAssumption
      <3> QED
        BY <2>1, <3>1, <3>2, Zenon DEF WriteWString
    <2>3. EmitAll(more, d) =
             IF v = 0 THEN << >> ELSE << Text(v, Value(d, head.path, head.field)) >>
      <3>1. EmitAll(<<p>>, d) = Emit(p, d) /\ EmitAll(<< >>, d) = << >>
        BY <1>5, <1>10, EmitFew DEF Good
      <3>2. Emit(p, d) = << Text(v, Value(d, head.path, head.field)) >>
        BY EmitIs
      <3> QED
        BY <3>1, <3>2
    <2>4. WriteUInt16BE(v) = <<Item(HeadWidth, v)>>
      BY <1>1, <1>3 DEF WriteUInt16BE, Item
    <2> QED
      BY <2>2, <2>3, <2>4 DEF Then
  <1>11. Follows(<<Item(HeadWidth, v)>>, more)
    <2> DEFINE sizes == {key}
    <2>1. \A q, f : <<q, f>> \in sizes => q = head.path /\ f = head.field
      OBVIOUS
    <2>2. <<"len", head.field>> \in Tags(head.kind, head.field)
      BY <1>6
    <2>3. Grows({}, sizes)
      BY <1>7
    <2> HIDE DEF more, p, sizes, key
    <2>4. \A q, f : <<q, f>> \in sizes =>
              /\ q = head.path /\ <<"len", f>> \in Tags(head.kind, head.field)
              /\ \A i \in DOMAIN more : ~Owns(more[i], "len", q, f)
      BY <1>8, <1>9, <2>1, <2>2
    <2>5. \A i \in DOMAIN more :
              /\ Inside(more[i], head)
              /\ more[i].kind = "payload" /\ more[i].n > 0
      BY <1>3, <1>5, <1>8, <1>9
    <2> QED
      BY <1>1, <1>8, <1>10, <2>3, <2>4, <2>5, ReadFollows
  <1> QED
    BY <1>3, <1>11

\* ... ReadCount: the count is written, and then the elements of the vector,
LEMMA ReadCountFollows ==
    ASSUME TypeOK, FreshInv, ReadCount
    PROVE  \E v, more : Takes(v) /\ Follows(<<Item(HeadWidth, v)>>, more)
  <1>1. /\ agenda # << >> /\ head.kind \in DOMAIN Width \cup {"payload"}
        /\ head.kind = "count"
    BY DEF ReadCount, At, Width
  <1> DEFINE c == head.field
             name == Vector[c].name
             g == Goal("loop", head.path, c, 0)
             key == <<head.path, c>>
             more == <<g>>
             sizes == {<<head.path, name>>}
  <1>2. PICK v : /\ v \in Seen(2) /\ Consume(2, v)
                 /\ parsed' = WithSize(WithValue(v), head.path, name,
                                       IF c = "objectCount" THEN 0 ELSE v)
    BY DEF ReadCount
  <1>3. v \in Nat /\ HeadWidth = 2 /\ Takes(v)
    <2>1. HeadWidth = 2
      BY <1>1, HeadWidthIs DEF Width
    <2> QED
      BY <1>1, <1>2, <2>1, SeenTyped DEF Takes
  <1>4. head \in Goals /\ head.path \in Path /\ c \in DOMAIN Vector /\ c \in Fields
    BY <1>1, HeadReads DEF Goals
  <1>5. /\ g \in Goals /\ g.kind = "loop" /\ g.path = head.path
        /\ g.field = c /\ g.n = 0
    <2>1. "loop" \notin DOMAIN Width \cup {"payload"}
      BY DEF Width
    <2> QED
      BY <1>4, <2>1 DEF Goal, Goals, Kinds
  <1>6. /\ Tags(g.kind, g.field) = {<<"part", name>>}
        /\ Tags(head.kind, c) = {<<"val", c>>, <<"len", name>>, <<"part", name>>}
    <2>1. Tags("loop", c) = {<<"part", name>>}
      BY DEF Tags
    <2> QED
      BY <1>1, <1>4, <1>5, <2>1, TagsOfReads
  <1>7. Grows({key}, sizes) /\ parsed'.val[key] = v /\ key \in DOMAIN parsed'.val
    BY <1>2, GrowsByBoth DEF Grows, Extends
  <1>8. /\ more \in Seq(Goals) /\ agenda' = Then(more, Tail(agenda)) /\ Apart(more)
        /\ DOMAIN more = {1} /\ more[1] = g
    <2>1. agenda' = more \o Tail(agenda)
      BY DEF ReadCount
    <2> HIDE DEF g
    <2> QED
      BY <1>5, <2>1, OneGoal DEF Then
  <1>9. /\ Inside(g, head)
        /\ ~Owns(g, "val", head.path, c) /\ ~Owns(g, "len", head.path, name)
    <2> HIDE DEF g, name
    <2>1. \A map, f : \A q \in Path : Owns(g, map, q, f) => Owns(head, map, q, f)
      <3> SUFFICES ASSUME NEW map, NEW f, NEW q \in Path, Owns(g, map, q, f)
                   PROVE  Owns(head, map, q, f)
        OBVIOUS
      <3>1. CASE q = g.path /\ <<map, f>> \in Tags(g.kind, g.field)
        BY <1>5, <1>6, <3>1 DEF Owns
      <3>2. CASE Within(g, q)
        <4>1. Within(head, q)
          BY <1>1, <1>5, <1>6, <3>2 DEF Within
        <4> QED
          BY <4>1 DEF Owns
      <3> QED
        BY <3>1, <3>2 DEF Owns
    <2>2. \A map, f : Owns(g, map, g.path, f) <=> <<map, f>> \in Tags(g.kind, g.field)
      BY <1>4, <1>5, OwnsHere
    <2>3. /\ <<"val", c>> \notin Tags(g.kind, g.field)
          /\ <<"len", name>> \notin Tags(g.kind, g.field)
      BY <1>6
    <2> QED
      BY <1>5, <2>1, <2>2, <2>3 DEF Inside
  <1>10. ASSUME NEW d, Good(d), Fit(d, parsed', agenda')
         PROVE  Emit(head, d) = Then(<<Item(HeadWidth, v)>>, EmitAll(more, d))
    <2>1. Value(d, head.path, c) = v
      BY <1>7, <1>10 DEF Fit, Known
    <2>2. Emit(head, d) = Counting(c, d, head.path)
      BY <1>1 DEF Emit
    <2>3. Emit(g, d) = Rest(c, d, head.path, 0)
      BY EmitIs
    <2>4. EmitAll(more, d) = Rest(c, d, head.path, 0)
      <3> HIDE DEF g
      <3> QED
        BY <1>5, <1>10, <2>3, EmitFew DEF Good
    <2>5. <<Item(HeadWidth, v)>> = WriteUInt16BE(v)
      BY <1>1, <1>3 DEF WriteUInt16BE, Item
    <2> QED
      BY <2>1, <2>2, <2>4, <2>5 DEF Counting
  <1>11. Follows(<<Item(HeadWidth, v)>>, more)
    <2> DEFINE values == {key}
    <2>1. \A q, f : <<q, f>> \in sizes => q = head.path /\ f = name
      OBVIOUS
    <2>2. <<"len", name>> \in Tags(head.kind, head.field)
      BY <1>6
    <2>3. Grows(values, sizes) /\ values \subseteq {<<head.path, head.field>>}
      BY <1>7
    <2>4. \A i \in DOMAIN more : more[i] = g
      BY <1>8
    <2>5. <<g.path, g.field>> \in DOMAIN parsed'.val
      BY <1>5, <1>7
    <2> HIDE DEF more, g, sizes, key, values, name
    <2>6. \A q, f : <<q, f>> \in sizes =>
              /\ q = head.path /\ <<"len", f>> \in Tags(head.kind, head.field)
              /\ \A i \in DOMAIN more : ~Owns(more[i], "len", q, f)
      BY <1>9, <2>1, <2>2, <2>4
    <2>7. \A i \in DOMAIN more :
              /\ Inside(more[i], head) /\ more[i].kind = "loop"
              /\ <<more[i].path, more[i].field>> \in DOMAIN parsed'.val
              /\ ~Owns(more[i], "val", head.path, head.field)
      BY <1>5, <1>9, <2>4, <2>5
    <2> QED
      BY <1>1, <1>8, <1>10, <2>3, <2>6, <2>7, ReadFollows
  <1> QED
    BY <1>3, <1>11

\* The goals a read of a table leaves to do.
LEMMA TableFollows ==
    ASSUME TypeOK, FreshInv, agenda # << >>, head.kind \in DOMAIN Width,
           NEW body \in Seq(Reading), Split(body),
           Sets(body, Tags(head.kind, head.field) \ {<<"val", head.field>>})
    PROVE  LET more == Reads(body, head.path)
           IN  /\ more \in Seq(Goals) /\ Apart(more)
               /\ \A i \in DOMAIN more :
                     /\ Inside(more[i], head)
                     /\ ~Owns(more[i], "val", head.path, head.field)
                     /\ more[i].kind \in DOMAIN Width
  <1>1. head.path \in Path /\ head.kind \notin {"loop", "callArguments"}
    BY HeadTyped DEF Goals, Width
  <1> QED
    BY <1>1, TableGoals, TableInside

\* The kinds that read nothing by themselves.
LEMMA ReadKinds ==
    /\ "payload" \notin DOMAIN Width /\ "loop" \notin DOMAIN Width
    /\ "push" \notin DOMAIN Width /\ "callArguments" \notin DOMAIN Width
    /\ "objectEnd" \notin DOMAIN Width
  BY DEF Width

\* A step that sets the member it reads, and leaves reads to do.
LEMMA SetFollows ==
    ASSUME TypeOK, FreshInv, agenda # << >>, head.kind \in DOMAIN Width,
           NEW v, parsed' = WithValue(v),
           NEW more \in Seq(Goals), agenda' = Then(more, Tail(agenda)), Apart(more),
           \A i \in DOMAIN more :
              /\ Inside(more[i], head)
              /\ ~Owns(more[i], "val", head.path, head.field)
              /\ more[i].kind \in DOMAIN Width,
           NEW e,
           \A d : Good(d) /\ Fit(d, parsed', agenda') /\ Value(d, head.path, head.field) = v =>
                 Emit(head, d) = Then(e, EmitAll(more, d))
    PROVE  Follows(e, more)
  <1> DEFINE values == {<<head.path, head.field>>}
  <1>1. /\ Grows(values, {}) /\ parsed'.val[<<head.path, head.field>>] = v
        /\ <<head.path, head.field>> \in DOMAIN parsed'.val
    BY GrowsByValue DEF Grows, Extends
  <1>2. \A d : Good(d) /\ Fit(d, parsed', agenda') =>
                  Emit(head, d) = Then(e, EmitAll(more, d))
    BY <1>1 DEF Fit, Known
  <1>3. \A i \in DOMAIN more :
              /\ more[i].kind \notin {"payload", "loop", "push", "callArguments"}
              /\ Inside(more[i], head)
              /\ ~Owns(more[i], "val", head.path, head.field)
    BY ReadKinds
  <1>4. values \subseteq {<<head.path, head.field>>}
    OBVIOUS
  <1> HIDE DEF values
  <1> QED
    BY <1>1, <1>2, <1>3, <1>4, ReadFollows

\* ... ReadType, for each type,
LEMMA ReadTypeFollows ==
    ASSUME TypeOK, FreshInv, ReadType
    PROVE  \E v, more : Takes(v) /\ Follows(<<Item(HeadWidth, v)>>, more)
  <1>1. /\ agenda # << >> /\ head.kind \in DOMAIN Width \cup {"payload"}
        /\ head.kind = "type" /\ head.kind \in DOMAIN Width
    BY DEF ReadType, At, Width
  <1>2. PICK v : /\ v \in Seen(1) /\ Consume(1, v) /\ parsed' = WithValue(v)
                 /\ agenda' = Reads(ReadVariableData[v], head.path) \o Tail(agenda)
    BY DEF ReadType
  <1>3. v \in Nat /\ HeadWidth = 1 /\ Takes(v)
    <2>1. HeadWidth = 1
      BY <1>1, HeadWidthIs DEF Width
    <2> QED
      BY <1>1, <1>2, <2>1, SeenTyped DEF Takes
  <1>4. v \in 0..5
    BY <1>1, <1>2, <1>3 DEF Consume, Rejects
  <1>5. head.path \in Path /\ head.field = "type"
    <2>1. head \in Goals /\ head.path \in Path
      BY <1>1, HeadReads
    <2> QED
      BY <1>1, <2>1 DEF Goals, Members
  <1> DEFINE more == Reads(ReadVariableData[v], head.path)
  <1>6. /\ more \in Seq(Goals) /\ Apart(more)
        /\ \A i \in DOMAIN more :
              /\ Inside(more[i], head)
              /\ ~Owns(more[i], "val", head.path, head.field)
              /\ more[i].kind \in DOMAIN Width
    <2>1. ReadVariableData[v] \in Seq(Reading)
      BY <1>4, VariableDataTyped
    <2>2. /\ Split(ReadVariableData[v])
          /\ Sets(ReadVariableData[v],
                  Tags(head.kind, head.field) \ {<<"val", head.field>>})
      BY <1>1, <1>4, <1>5, OptionsSplit
    <2> QED
      BY <1>1, <2>1, <2>2, TableFollows
  <1>7. agenda' = Then(more, Tail(agenda))
    BY <1>2 DEF Then
  <1>8. ASSUME NEW d, Good(d), Value(d, head.path, head.field) = v
        PROVE  Emit(head, d) = Then(<<Item(HeadWidth, v)>>, EmitAll(more, d))
    <2>1. Emit(head, d) = WriteVariableData(d, head.path)
      BY <1>1 DEF Emit
    <2>2. <<Item(HeadWidth, v)>> = WriteUInt8(v)
      BY <1>1, <1>3 DEF WriteUInt8, Item
    <2> QED
      BY <1>4, <1>5, <1>8, <2>1, <2>2, EmitVariableData DEF Good
  <1> HIDE DEF more
  <1>9. Follows(<<Item(HeadWidth, v)>>, more)
    <2> DEFINE e == <<Item(HeadWidth, v)>>
    <2>1. \A d : Good(d) /\ Fit(d, parsed', agenda') /\ Value(d, head.path, head.field) = v =>
                 Emit(head, d) = Then(e, EmitAll(more, d))
      BY <1>8
    <2>2. parsed' = WithValue(v)
      BY <1>2
    <2> HIDE DEF e
    <2>3. Follows(e, more)
      BY <1>1, <1>6, <1>7, <2>1, <2>2, SetFollows
    <2> QED
      BY <2>3 DEF e
  <1> QED
    BY <1>3, <1>9

\* ... ReadDebugFlag, with and without debug information,
LEMMA ReadDebugFlagFollows ==
    ASSUME TypeOK, FreshInv, ReadDebugFlag
    PROVE  \E v, more : Takes(v) /\ Follows(<<Item(HeadWidth, v)>>, more)
  <1> DEFINE body == << <<"u64", "modificationTime">>, <<"count", "functionCount">> >>
  <1>1. /\ agenda # << >> /\ head.kind \in DOMAIN Width \cup {"payload"}
        /\ head.kind = "debugFlag" /\ head.kind \in DOMAIN Width
    BY DEF ReadDebugFlag, At, Width
  <1>2. PICK v : /\ v \in Seen(1) /\ Consume(1, v) /\ parsed' = WithValue(v)
                 /\ agenda' = (IF v = 0 THEN << >> ELSE Reads(body, head.path))
                                \o Tail(agenda)
    BY DEF ReadDebugFlag
  <1>3. v \in Nat /\ HeadWidth = 1 /\ Takes(v)
    <2>1. HeadWidth = 1
      BY <1>1, HeadWidthIs DEF Width
    <2> QED
      BY <1>1, <1>2, <2>1, SeenTyped DEF Takes
  <1>5. head.path \in Path /\ head.field = "hasDebugInfo"
    <2>1. head \in Goals /\ head.path \in Path
      BY <1>1, HeadReads
    <2> QED
      BY <1>1, <2>1 DEF Goals, Members
  <1> DEFINE table == Reads(body, head.path)
             more == IF v = 0 THEN << >> ELSE table
  <1>6. /\ table \in Seq(Goals) /\ Apart(table)
        /\ \A i \in DOMAIN table :
              /\ Inside(table[i], head)
              /\ ~Owns(table[i], "val", head.path, head.field)
              /\ table[i].kind \in DOMAIN Width
    <2>1. body \in Seq(Reading) /\ Split(body)
          /\ Sets(body, Tags(head.kind, head.field) \ {<<"val", head.field>>})
      BY <1>1, <1>5, OptionsTyped, OptionsSplit
    <2> HIDE DEF body
    <2> QED
      BY <1>1, <2>1, TableFollows
  <1>7. agenda' = Then(more, Tail(agenda))
    BY <1>2 DEF Then
  <1>8. ASSUME NEW d, Good(d), Value(d, head.path, head.field) = v
        PROVE  Emit(head, d) = Then(<<Item(HeadWidth, v)>>, EmitAll(more, d))
    <2>1. Emit(head, d) = DebugInfoWrites(d, head.path)
      BY <1>1 DEF Emit
    <2>2. <<Item(HeadWidth, v)>> = WriteUInt8(v)
      BY <1>1, <1>3 DEF WriteUInt8, Item
    <2>3. EmitAll(<< >>, d) = << >>
      BY <1>8, EmitFew DEF Good
    <2>4. EmitAll(table, d)
             = Then(WriteUInt64BE(Value(d, head.path, "modificationTime")),
                    Counting("functionCount", d, head.path))
      BY <1>5, <1>8, EmitOptions DEF Good
    <2> HIDE DEF table
    <2> QED
      BY <1>5, <1>8, <2>1, <2>2, <2>3, <2>4 DEF DebugInfoWrites
  <1>10. /\ more \in Seq(Goals) /\ Apart(more)
         /\ \A i \in DOMAIN more :
              /\ Inside(more[i], head)
              /\ ~Owns(more[i], "val", head.path, head.field)
              /\ more[i].kind \in DOMAIN Width
    <2>1. << >> \in Seq(Goals) /\ DOMAIN << >> = {}
      OBVIOUS
    <2> HIDE DEF table
    <2> QED
      BY <1>6, <2>1, ApartFew
  <1> HIDE DEF more
  <1>9. Follows(<<Item(HeadWidth, v)>>, more)
    <2> DEFINE e == <<Item(HeadWidth, v)>>
    <2>1. \A d : Good(d) /\ Fit(d, parsed', agenda') /\ Value(d, head.path, head.field) = v =>
                 Emit(head, d) = Then(e, EmitAll(more, d))
      BY <1>8
    <2>2. parsed' = WithValue(v)
      BY <1>2
    <2> HIDE DEF e
    <2>3. Follows(e, more)
      BY <1>1, <1>10, <1>7, <2>1, <2>2, SetFollows
    <2> QED
      BY <2>3 DEF e
  <1> QED
    BY <1>3, <1>9

\* A place in two sequences, one after the other.
LEMMA ThenPart ==
    ASSUME NEW S, NEW a \in Seq(S), NEW b \in Seq(S), NEW i \in DOMAIN Then(a, b)
    PROVE  \/ i \in DOMAIN a /\ Then(a, b)[i] = a[i]
           \/ i - Len(a) \in DOMAIN b /\ Then(a, b)[i] = b[i - Len(a)]
  <1>1. /\ Len(a) \in Nat /\ Len(b) \in Nat
        /\ DOMAIN Then(a, b) = 1..(Len(a) + Len(b))
        /\ \A j \in 1..Len(a) : Then(a, b)[j] = a[j] /\ j \in DOMAIN a
        /\ \A j \in (Len(a) + 1)..(Len(a) + Len(b)) :
              /\ Then(a, b)[j] = b[j - Len(a)]
              /\ j - Len(a) \in DOMAIN b
    BY ThenAt
  <1>2. i \in 1..Len(a) \/ i \in (Len(a) + 1)..(Len(a) + Len(b))
    BY <1>1
  <1> QED
    BY <1>1, <1>2

\* The reads of a table for a part of the head's record.
LEMMA PartFollows ==
    ASSUME NEW h, h.path \in Path, NEW body \in Seq(Reading), Split(body),
           NEW name \in Parts, NEW i \in Nat, <<"part", name>> \in Tags(h.kind, h.field),
           h.kind \in {"loop", "callArguments"} => i > h.n
    PROVE  LET more == Reads(body, Child(h.path, name, i))
           IN  /\ Child(h.path, name, i) \in Path
               /\ more \in Seq(Goals) /\ Apart(more)
               /\ \A j \in DOMAIN more :
                     /\ more[j].path = Child(h.path, name, i)
                     /\ Inside(more[j], h)
                     /\ \A map, f : ~Owns(more[j], map, h.path, f)
                     /\ more[j].kind \in DOMAIN Width
  <1> DEFINE more == Reads(body, Child(h.path, name, i))
  <1>1. Child(h.path, name, i) \in Path
    BY ChildTyped
  <1>2. /\ more \in Seq(Goals) /\ Apart(more)
        /\ \A j \in DOMAIN more : /\ more[j].path = Child(h.path, name, i)
                                  /\ more[j].kind \in DOMAIN Width
    BY <1>1, TableGoals
  <1> HIDE DEF more
  <1>3. \A j \in DOMAIN more : Inside(more[j], h)
    BY <1>2, ChildInside
  <1>4. \A j \in DOMAIN more : \A map, f : ~Owns(more[j], map, h.path, f)
    <2> SUFFICES ASSUME NEW j \in DOMAIN more, NEW map, NEW f,
                        Owns(more[j], map, h.path, f)
                 PROVE  FALSE
      OBVIOUS
    <2>1. Len(h.path) > Len(h.path)
      BY <1>2, BelowChild
    <2> QED
      BY <2>1, PathTyped
  <1> QED
    BY <1>1, <1>2, <1>3, <1>4 DEF more

\* ... ReadPropertyFlags, whatever the flags,
LEMMA ReadPropertyFlagsFollows ==
    ASSUME TypeOK, FreshInv, ReadPropertyFlags
    PROVE  \E v, more : Takes(v) /\ Follows(<<Item(HeadWidth, v)>>, more)
  <1> DEFINE
        auto == Reads(<< <<"u16", "autoVarName">> >>, head.path)
        read == Reads(ReadFunction, Child(head.path, "readHandler", 0))
        written == Reads(ReadFunction, Child(head.path, "writeHandler", 0))
  <1>1. /\ agenda # << >> /\ head.kind \in DOMAIN Width \cup {"payload"}
        /\ head.kind = "propertyFlags" /\ head.kind \in DOMAIN Width
    BY DEF ReadPropertyFlags, At, Width
  <1>2. PICK v :
          /\ v \in Seen(1) /\ Consume(1, v) /\ parsed' = WithValue(v)
          /\ agenda' = (IF HasBit(v, 4) THEN auto ELSE << >>)
               \o (IF HasBit(v, 1) /\ ~HasBit(v, 4) THEN read ELSE << >>)
               \o (IF HasBit(v, 2) /\ ~HasBit(v, 4) THEN written ELSE << >>)
               \o Tail(agenda)
    BY DEF ReadPropertyFlags
  <1>3. v \in Nat /\ HeadWidth = 1 /\ Takes(v)
    <2>1. HeadWidth = 1
      BY <1>1, HeadWidthIs DEF Width
    <2> QED
      BY <1>1, <1>2, <2>1, SeenTyped DEF Takes
  <1>4. head.path \in Path /\ head.field = "flags"
    <2>1. head \in Goals /\ head.path \in Path
      BY <1>1, HeadReads
    <2> QED
      BY <1>1, <2>1 DEF Goals, Members
  <1>5. /\ "readHandler" \in Parts /\ "writeHandler" \in Parts /\ 0 \in Nat
        /\ <<"part", "readHandler">> \in Tags(head.kind, head.field)
        /\ <<"part", "writeHandler">> \in Tags(head.kind, head.field)
        /\ ~(head.kind \in {"loop", "callArguments"})
    BY <1>1 DEF Parts, Tags
  <1>6. /\ auto \in Seq(Goals) /\ Apart(auto)
        /\ \A i \in DOMAIN auto :
              /\ Inside(auto[i], head)
              /\ ~Owns(auto[i], "val", head.path, head.field)
              /\ auto[i].kind \in DOMAIN Width
        /\ \A i \in DOMAIN auto :
              auto[i].path = head.path /\ auto[i].kind = "u16"
    <2> DEFINE body == << <<"u16", "autoVarName">> >>
    <2>1. body \in Seq(Reading) /\ Split(body)
          /\ Sets(body, Tags(head.kind, head.field) \ {<<"val", head.field>>})
      BY <1>1, <1>4, OptionsTyped, OptionsSplit
    <2>2. \A i \in DOMAIN body : body[i][1] = "u16"
      OBVIOUS
    <2> HIDE DEF body
    <2>3. /\ DOMAIN Reads(body, head.path) = DOMAIN body
          /\ \A i \in DOMAIN body : /\ Reads(body, head.path)[i].path = head.path
                                    /\ Reads(body, head.path)[i].kind = "u16"
      BY <1>4, <2>1, <2>2, TableGoals
    <2> QED
      BY <1>1, <2>1, <2>3, TableFollows DEF body
  <1>7. /\ Child(head.path, "readHandler", 0) \in Path
        /\ read \in Seq(Goals) /\ Apart(read)
        /\ \A i \in DOMAIN read :
              /\ read[i].path = Child(head.path, "readHandler", 0)
              /\ Inside(read[i], head)
              /\ ~Owns(read[i], "val", head.path, head.field)
              /\ read[i].kind \in DOMAIN Width
    BY <1>4, <1>5, FunctionTyped, FunctionSplit, PartFollows
  <1>8. /\ Child(head.path, "writeHandler", 0) \in Path
        /\ written \in Seq(Goals) /\ Apart(written)
        /\ \A i \in DOMAIN written :
              /\ written[i].path = Child(head.path, "writeHandler", 0)
              /\ Inside(written[i], head)
              /\ ~Owns(written[i], "val", head.path, head.field)
              /\ written[i].kind \in DOMAIN Width
    BY <1>4, <1>5, FunctionTyped, FunctionSplit, PartFollows
  <1> HIDE DEF auto, read, written
  <1>9. /\ \A i \in DOMAIN auto : \A j \in DOMAIN read : Disjoint(auto[i], read[j])
        /\ \A i \in DOMAIN auto : \A j \in DOMAIN written : Disjoint(auto[i], written[j])
    <2>1. ASSUME NEW i \in DOMAIN auto
          PROVE  /\ <<"part", "readHandler">> \notin Tags(auto[i].kind, auto[i].field)
                 /\ <<"part", "writeHandler">> \notin Tags(auto[i].kind, auto[i].field)
                 /\ auto[i].path = head.path
      BY <1>6, TagsOfReads
    <2> QED
      BY <1>4, <1>5, <1>7, <1>8, <2>1, ChildApart
  <1>10. \A i \in DOMAIN read : \A j \in DOMAIN written : Disjoint(read[i], written[j])
    <2>1. "readHandler" # "writeHandler"
      OBVIOUS
    <2> QED
      BY <1>4, <1>5, <1>7, <1>8, <2>1, ChildrenApart
  <1> DEFINE a == IF HasBit(v, 4) THEN auto ELSE << >>
             b == IF HasBit(v, 1) /\ ~HasBit(v, 4) THEN read ELSE << >>
             c == IF HasBit(v, 2) /\ ~HasBit(v, 4) THEN written ELSE << >>
             more == Then(Then(a, b), c)
             Right(goals) == /\ goals \in Seq(Goals) /\ Apart(goals)
                             /\ \A i \in DOMAIN goals :
                                   /\ Inside(goals[i], head)
                                   /\ ~Owns(goals[i], "val", head.path, head.field)
                                   /\ goals[i].kind \in DOMAIN Width
             Clear(s, t) == \A i \in DOMAIN s : \A j \in DOMAIN t : Disjoint(s[i], t[j])
  <1>11. Right(a) /\ Right(b) /\ Right(c)
    <2>1. Right(<< >>)
      <3>1. << >> \in Seq(Goals) /\ DOMAIN << >> = {}
        OBVIOUS
      <3> QED
        BY <3>1, ApartFew
    <2> QED
      BY <1>6, <1>7, <1>8, <2>1
  <1>12. Clear(a, b) /\ Clear(a, c) /\ Clear(b, c)
    <2>1. DOMAIN << >> = {}
      OBVIOUS
    <2> QED
      BY <1>9, <1>10, <2>1
  <1>13. agenda' = Then(more, Tail(agenda))
    BY <1>2 DEF Then
  <1>14. ASSUME NEW d, Good(d), Value(d, head.path, head.field) = v
         PROVE  Emit(head, d) = Then(<<Item(HeadWidth, v)>>, EmitAll(more, d))
    <2>1. Emit(head, d) = FlagsWrites(d, head.path)
      BY <1>1 DEF Emit
    <2>2. <<Item(HeadWidth, v)>> = WriteUInt8(v)
      BY <1>1, <1>3 DEF WriteUInt8, Item
    <2>3. EmitAll(<< >>, d) = << >>
      BY <1>14, EmitFew DEF Good
    <2>4. EmitAll(a, d) = AutoWrites(d, head.path, v)
      BY <1>4, <1>14, <2>3, EmitOptions DEF Good, AutoWrites, auto
    <2>5. EmitAll(b, d) = ReadHandlerWrites(d, head.path, v)
      BY <1>7, <1>14, <2>3, EmitFunction DEF Good, ReadHandlerWrites, read
    <2>6. EmitAll(c, d) = WriteHandlerWrites(d, head.path, v)
      BY <1>8, <1>14, <2>3, EmitFunction DEF Good, WriteHandlerWrites, written
    <2>7. EmitAll(more, d) = Then(Then(EmitAll(a, d), EmitAll(b, d)), EmitAll(c, d))
      <3>1. a \in Seq(Goals) /\ b \in Seq(Goals) /\ c \in Seq(Goals)
        BY <1>11
      <3> HIDE DEF a, b, c
      <3> QED
        BY <1>14, <3>1, EmitThen DEF Good
    <2> QED
      BY <1>4, <1>14, <2>1, <2>2, <2>4, <2>5, <2>6, <2>7 DEF FlagsWrites
  <1> HIDE DEF a, b, c
  <1>15. ASSUME NEW s, NEW t, Right(s), Right(t), Clear(s, t)
         PROVE  Right(Then(s, t))
    <2>1. Then(s, t) \in Seq(Goals) /\ Apart(Then(s, t))
      BY <1>15, ApartThen, ThenTyped
    <2>2. ASSUME NEW i \in DOMAIN Then(s, t)
          PROVE  \/ i \in DOMAIN s /\ Then(s, t)[i] = s[i]
                 \/ i - Len(s) \in DOMAIN t /\ Then(s, t)[i] = t[i - Len(s)]
      BY <1>15, ThenPart
    <2> QED
      BY <1>15, <2>1, <2>2
  <1>16. Right(Then(a, b))
    BY <1>11, <1>12, <1>15
  <1>17. Clear(Then(a, b), c)
    <2> SUFFICES ASSUME NEW i \in DOMAIN Then(a, b), NEW j \in DOMAIN c
                 PROVE  Disjoint(Then(a, b)[i], c[j])
      OBVIOUS
    <2>1. \/ i \in DOMAIN a /\ Then(a, b)[i] = a[i]
          \/ i - Len(a) \in DOMAIN b /\ Then(a, b)[i] = b[i - Len(a)]
      BY <1>11, ThenPart
    <2> QED
      BY <1>12, <2>1
  <1>18. Right(more)
    BY <1>11, <1>15, <1>16, <1>17
  <1> HIDE DEF more
  <1>19. Follows(<<Item(HeadWidth, v)>>, more)
    <2> DEFINE e == <<Item(HeadWidth, v)>>
    <2>1. \A d : Good(d) /\ Fit(d, parsed', agenda') /\ Value(d, head.path, head.field) = v =>
                 Emit(head, d) = Then(e, EmitAll(more, d))
      BY <1>14
    <2>2. parsed' = WithValue(v)
      BY <1>2
    <2> HIDE DEF e
    <2>3. Follows(e, more)
      BY <1>1, <1>18, <1>13, <2>1, <2>2, SetFollows
    <2> QED
      BY <2>3 DEF e
  <1> QED
    BY <1>3, <1>19

\* ... ReadObjectSize: an object is written with the size it was read with,
LEMMA ReadObjectSizeFollows ==
    ASSUME TypeOK, FreshInv, ReadObjectSize
    PROVE  \E v, more : Takes(v) /\ Follows(<<Item(HeadWidth, v)>>, more)
  <1>1. /\ agenda # << >> /\ head.kind \in DOMAIN Width \cup {"payload"}
        /\ head.kind = "objectSize" /\ head.kind \in DOMAIN Width
    BY DEF ReadObjectSize, At, Width
  <1> DEFINE table == Reads(ReadObjectData, head.path)
  <1>2. PICK v : /\ v \in Seen(4) /\ Consume(4, v)
                 /\ parsed' = WithSize(WithValue(v), << >>, "objects",
                                       Size(parsed, << >>, "objects") + 1)
                 /\ agenda' = table
                       \o <<Goal("objectEnd", head.path, "size", position + 4 + (v - 4))>>
                       \o Tail(agenda)
    BY DEF ReadObjectSize
  <1> DEFINE end == Goal("objectEnd", head.path, "size", position + 4 + (v - 4))
             more == Then(table, <<end>>)
             key == <<head.path, head.field>>
             sizes == {<< << >>, "objects" >>}
  <1>3. v \in Nat /\ HeadWidth = 4 /\ Takes(v)
    <2>1. HeadWidth = 4
      BY <1>1, HeadWidthIs DEF Width
    <2> QED
      BY <1>1, <1>2, <2>1, SeenTyped DEF Takes
  <1>4. head.path \in Path /\ head.field = "size" /\ "size" \in Fields
    <2>1. head \in Goals /\ head.path \in Path
      BY <1>1, HeadReads
    <2> QED
      BY <1>1, <2>1 DEF Goals, Members
  <1>5. /\ end \in Goals /\ end.kind = "objectEnd" /\ end.path = head.path
        /\ end.field = "size"
    <2>1. position + 4 + (v - 4) \in Nat
      BY <1>3 DEF TypeOK
    <2> HIDE DEF end
    <2>2. end = Goal("objectEnd", head.path, "size", position + 4 + (v - 4))
      BY DEF end
    <2>3. <<end>> \in Seq(Goals)
      BY <1>4, <2>1, <2>2, GoalTyped
    <2>4. <<end>>[1] \in Goals
      BY <2>3
    <2> QED
      BY <2>2, <2>4 DEF Goal
  <1>6. Tags(end.kind, end.field) = {}
    BY <1>5 DEF Tags
  <1>7. /\ Grows({key}, sizes) /\ parsed'.val[key] = v /\ key \in DOMAIN parsed'.val
    BY <1>2, GrowsByBoth DEF Grows, Extends
  <1>8. /\ table \in Seq(Goals) /\ Apart(table)
        /\ \A i \in DOMAIN table :
              /\ Inside(table[i], head)
              /\ ~Owns(table[i], "val", head.path, head.field)
              /\ table[i].kind \in DOMAIN Width
              /\ table[i].path = head.path
    <2>1. /\ ReadObjectData \in Seq(Reading) /\ Split(ReadObjectData)
          /\ Sets(ReadObjectData, Tags(head.kind, head.field) \ {<<"val", head.field>>})
      BY <1>1, <1>4, ObjectDataTyped, ObjectDataSplit
    <2>2. \A i \in DOMAIN table : table[i].path = head.path
      BY <1>4, <2>1, TableGoals
    <2> QED
      BY <1>1, <2>1, <2>2, TableFollows
  <1>9. /\ Inside(end, head) /\ \A map, f : \A q \in Path : ~Owns(end, map, q, f)
    <2>1. Inside(end, head)
      BY <1>1, <1>5, <1>6, InsideSame
    <2> QED
      BY <1>6, <2>1 DEF Owns, Within
  <1>10. agenda' = Then(more, Tail(agenda))
    BY <1>2 DEF Then
  <1>11. ASSUME NEW d, Good(d), Fit(d, parsed', agenda')
         PROVE  Emit(head, d) = Then(<<Item(HeadWidth, v)>>, EmitAll(more, d))
    <2>0. IsData(d)
      BY <1>11 DEF Good
    <2>1. Value(d, head.path, "size") = v
      BY <1>4, <1>7, <1>11 DEF Fit, Known
    <2>2. Emit(head, d) = Then(WriteUInt32BE(v), WriteObjectData(d, head.path))
      BY <1>1, <2>1 DEF Emit
    <2>3. EmitAll(table, d) = WriteObjectData(d, head.path)
      BY <1>4, <2>0, EmitObjectData
    <2>4. Emit(end, d) = << >>
      BY EmitIs
    <2>5. <<Item(HeadWidth, v)>> = WriteUInt32BE(v)
      BY <1>1, <1>3 DEF WriteUInt32BE, Item
    <2> HIDE DEF end, table
    <2>6. EmitAll(more, d) = Then(EmitAll(table, d), EmitAll(<<end>>, d))
      <3>1. <<end>> \in Seq(Goals)
        BY <1>5, OneGoal
      <3> QED
        BY <1>8, <2>0, <3>1, EmitThen
    <2>7. EmitAll(<<end>>, d) = << >>
      BY <1>5, <2>0, <2>4, EmitFew
    <2>8. EmitAll(more, d) = WriteObjectData(d, head.path)
      <3>1. WriteObjectData(d, head.path) \in Seq(Items)
        BY <2>0, WriteObjectDataTyped
      <3> QED
        BY <2>3, <2>6, <2>7, <3>1, ThenNone
    <2> QED
      BY <2>2, <2>5, <2>8
  <1> HIDE DEF table, end
  <1>12. /\ more \in Seq(Goals) /\ Apart(more)
         /\ \A i \in DOMAIN more :
              /\ Inside(more[i], head)
              /\ ~Owns(more[i], "val", head.path, head.field)
              /\ more[i].kind \notin {"payload", "loop", "push", "callArguments"}
    <2>1. /\ <<end>> \in Seq(Goals) /\ Apart(<<end>>) /\ DOMAIN <<end>> = {1}
          /\ <<end>>[1] = end
      BY <1>5, OneGoal
    <2>2. more \in Seq(Goals)
      BY <1>8, <2>1, ThenTyped
    <2>3. \A i \in DOMAIN table : \A j \in DOMAIN <<end>> : Disjoint(table[i], <<end>>[j])
      BY <1>9, <2>1 DEF Disjoint
    <2>4. Apart(more)
      <3> DEFINE ends == <<end>>
      <3>1. ends \in Seq(Goals) /\ Apart(ends)
            /\ \A i \in DOMAIN table : \A j \in DOMAIN ends : Disjoint(table[i], ends[j])
        BY <2>1, <2>3
      <3> HIDE DEF ends
      <3>2. Apart(Then(table, ends))
        BY <1>8, <3>1, ApartThen
      <3> QED
        BY <3>2 DEF ends
    <2>5. ASSUME NEW i \in DOMAIN more
          PROVE  more[i] = end \/ \E j \in DOMAIN table : more[i] = table[j]
      <3>1. \/ i \in DOMAIN table /\ more[i] = table[i]
            \/ i - Len(table) \in DOMAIN <<end>> /\ more[i] = <<end>>[i - Len(table)]
        BY <1>8, <2>1, ThenPart
      <3> QED
        BY <2>1, <3>1
    <2> HIDE DEF more
    <2>6. \A i \in DOMAIN more :
              /\ Inside(more[i], head)
              /\ ~Owns(more[i], "val", head.path, head.field)
              /\ more[i].kind \notin {"payload", "loop", "push", "callArguments"}
      BY <1>4, <1>5, <1>8, <1>9, <2>5, ReadKinds
    <2> QED
      BY <2>2, <2>4, <2>6
  <1>13. Follows(<<Item(HeadWidth, v)>>, more)
    <2> DEFINE values == {key}
               e == <<Item(HeadWidth, v)>>
    <2>1. \A q, f : <<q, f>> \in sizes => f = "objects"
      OBVIOUS
    <2>2. Grows(values, sizes) /\ values \subseteq {<<head.path, head.field>>}
      BY <1>7
    <2>3. \A d : Good(d) /\ Fit(d, parsed', agenda') =>
                    Emit(head, d) = Then(e, EmitAll(more, d))
      BY <1>11
    <2> HIDE DEF values, e, sizes, key, more
    <2>4. Follows(e, more)
      BY <1>1, <1>10, <1>12, <2>1, <2>2, <2>3, ReadFollows
    <2> QED
      BY <2>4 DEF e
  <1> QED
    BY <1>3, <1>13

\* The read of an argument,
LEMMA ReadArgumentIs ==
    ASSUME NEW path \in Path, NEW i \in Nat
    PROVE  /\ ReadArgument(path, i) \in Goals
           /\ ReadArgument(path, i).path = Child(path, "arguments", i)
           /\ ReadArgument(path, i).kind = "type" /\ ReadArgument(path, i).field = "type"
           /\ \A d : Emit(ReadArgument(path, i), d)
                        = WriteVariableData(d, Child(path, "arguments", i))
  BY ArgumentTyped, EmitIs DEF ReadArgument, Goal

\* ... and of the first arguments of an instruction.
LEMMA FirstArguments ==
    ASSUME NEW h, h.path \in Path, h.kind = "opcode", NEW n \in Nat
    PROVE  LET a == [i \in 1..n |-> ReadArgument(h.path, i)]
           IN  /\ a \in Seq(Goals) /\ Apart(a)
               /\ \A i \in DOMAIN a :
                     /\ i \in 1..n /\ a[i].path = Child(h.path, "arguments", i)
                     /\ a[i].kind = "type"
                     /\ Inside(a[i], h)
                     /\ \A map, f : ~Owns(a[i], map, h.path, f)
               /\ \A d : IsData(d) /\ n <= Size(d, h.path, "arguments") =>
                     EmitAll(a, d) = Joined(Arguments(d, h.path), n)
  <1> DEFINE path == h.path
             a == [i \in 1..n |-> ReadArgument(path, i)]
  <1>1. \A i \in 1..n : /\ ReadArgument(path, i) \in Goals
                        /\ ReadArgument(path, i).path = Child(path, "arguments", i)
                        /\ ReadArgument(path, i).kind = "type"
    BY ReadArgumentIs
  <1>2. a \in Seq(Goals) /\ DOMAIN a = 1..n /\ Len(a) = n
    BY <1>1
  <1>3. \A i \in DOMAIN a : /\ i \in 1..n /\ a[i].path = Child(path, "arguments", i)
                            /\ a[i].kind = "type" /\ a[i] = ReadArgument(path, i)
    BY <1>1
  <1> HIDE DEF a
  <1>4. "arguments" \in Parts /\ <<"part", "arguments">> \in Tags(h.kind, h.field)
    BY DEF Parts, Tags
  <1>5. Apart(a)
    <2> SUFFICES ASSUME NEW i \in DOMAIN a, NEW j \in DOMAIN a, i # j
                 PROVE  Disjoint(a[i], a[j])
      BY DEF Apart
    <2>1. i \in Nat /\ j \in Nat
      BY <1>2
    <2> QED
      BY <1>3, <1>4, <2>1, ChildrenApart
  <1>6. ASSUME NEW i \in DOMAIN a
        PROVE  Inside(a[i], h) /\ \A map, f : ~Owns(a[i], map, path, f)
    <2>1. i \in Nat
      BY <1>2
    <2>2. Inside(a[i], h)
      BY <1>3, <1>4, <2>1, ChildInside
    <2>3. ASSUME NEW map, NEW f, Owns(a[i], map, path, f) PROVE FALSE
      <3>1. Len(path) > Len(path)
        BY <1>3, <1>4, <2>1, <2>3, BelowChild
      <3> QED
        BY <3>1, PathTyped
    <2> QED
      BY <2>2, <2>3
  <1>7. ASSUME NEW d, IsData(d), n <= Size(d, path, "arguments")
        PROVE  EmitAll(a, d) = Joined(Arguments(d, path), n)
    <2> DEFINE s == [i \in DOMAIN a |-> Emit(a[i], d)]
               t == Arguments(d, path)
    <2>1. Size(d, path, "arguments") \in Nat
      BY <1>7, ValueTyped
    <2>2. \A i \in 1..n : s[i] = t[i]
      <3> SUFFICES ASSUME NEW i \in 1..n PROVE s[i] = t[i]
        OBVIOUS
      <3>1. i \in DOMAIN a /\ i \in 1..Size(d, path, "arguments") /\ i \in Nat
        BY <1>2, <1>7, <2>1
      <3>2. s[i] = WriteVariableData(d, Child(path, "arguments", i))
        BY <1>3, <3>1, ReadArgumentIs
      <3>3. t[i] = WriteVariableData(d, Child(path, "arguments", i))
        BY <3>1 DEF Arguments
      <3> QED
        BY <3>2, <3>3
    <2>3. EmitAll(a, d) = Joined(s, n)
      BY <1>2 DEF EmitAll
    <2> HIDE DEF s, t
    <2>4. Joined(s, n) = Joined(t, n)
      BY <2>2, JoinedSame
    <2> QED
      BY <2>3, <2>4 DEF t
  <1> QED
    BY <1>2, <1>3, <1>5, <1>6, <1>7 DEF a

\* Before the arguments of an instruction are set, none is to be pushed.
LEMMA NoPushesYet ==
    ASSUME TypeOK, FreshInv, agenda # << >>, head.kind \in {"opcode", "callArguments"}
    PROVE  Pushes(Tail(agenda), head.path) = 0
  <1>1. Tail(agenda) \in Seq(Goals) /\ head.path \in Path
    BY HeadTyped DEF Goals
  <1>2. /\ 1 \in DOMAIN agenda /\ agenda[1] = head
        /\ \A i \in DOMAIN Tail(agenda) :
              i + 1 \in DOMAIN agenda /\ Tail(agenda)[i] = agenda[i + 1]
    BY <1>1, HeadIs DEF TypeOK
  <1>3. Owns(head, "len", head.path, "arguments")
    BY DEF Owns, Tags
  <1>4. ~Settled(parsed, agenda, "len", head.path, "arguments")
    BY <1>1, <1>2, <1>3 DEF FreshInv, Fresh
  <1>5. \A i \in DOMAIN agenda : ~(agenda[i].kind = "push" /\ agenda[i].path = head.path)
    BY <1>4 DEF FreshInv, Prepared
  <1>6. \A i \in DOMAIN Tail(agenda) :
           /\ Tail(agenda)[i] \in Goals
           /\ ~(Tail(agenda)[i].kind = "push" /\ Tail(agenda)[i].path = head.path)
    BY <1>1, <1>2, <1>5
  <1>7. \A i \in DOMAIN Tail(agenda) : PushAt(head.path)[Tail(agenda)[i]] = 0
    BY <1>6, PushAtTyped
  <1> QED
    BY <1>1, <1>7, PushAtTyped, WeighNothing DEF Pushes

\* Goals that are not pushes push nothing.
LEMMA NoPushesAmong ==
    ASSUME NEW more \in Seq(Goals), \A i \in DOMAIN more : more[i].kind # "push", NEW q
    PROVE  Pushes(more, q) = 0
  <1>1. \A i \in DOMAIN more : more[i] \in Goals
    OBVIOUS
  <1>2. \A i \in DOMAIN more : PushAt(q)[more[i]] = 0
    BY <1>1, PushAtTyped
  <1> QED
    BY <1>2, PushAtTyped, WeighNothing DEF Pushes

\* The goals stand for what a stands for and then what b stands for.
EmitAllIs(goals, a, b) ==
    \A d : IsData(d) => EmitAll(goals, d) = Then(EmitAll(a, d), EmitAll(b, d))

\* A goal put after others.
LEMMA LastOfThen ==
    ASSUME NEW S, NEW a \in Seq(S), NEW g \in S
    PROVE  /\ Len(Then(a, <<g>>)) = Len(a) + 1
           /\ Len(a) + 1 \in DOMAIN Then(a, <<g>>)
           /\ Then(a, <<g>>)[Len(a) + 1] = g
  BY DEF Then

\* A goal put before others is among them.
LEMMA AmongThen ==
    ASSUME NEW S, NEW a \in Seq(S), NEW b \in Seq(S), NEW i \in DOMAIN a
    PROVE  i \in DOMAIN Then(a, b) /\ Then(a, b)[i] = a[i]
  BY DEF Then

\* ... ReadOpcode: an instruction is written with its arguments; a call may
\* have further ones,
LEMMA ReadOpcodeFollows ==
    ASSUME TypeOK, FreshInv, ReadOpcode
    PROVE  \E v, more : Takes(v) /\ Follows(<<Item(HeadWidth, v)>>, more)
  <1>1. /\ agenda # << >> /\ head.kind \in DOMAIN Width \cup {"payload"}
        /\ head.kind = "opcode"
    BY DEF ReadOpcode, At, Width
  <1>2. PICK v :
          /\ v \in Seen(1) /\ Consume(1, v)
          /\ parsed' = WithSize(WithValue(v), head.path, "arguments",
                                IF v \in Calls THEN 0 ELSE HeaderArgumentCount(v))
          /\ agenda' = [i \in 1..HeaderArgumentCount(v) |-> ReadArgument(head.path, i)]
                       \o (IF v \in Calls
                           THEN <<Goal("callArguments", head.path, "op",
                                       HeaderArgumentCount(v))>>
                           ELSE << >>)
                       \o Tail(agenda)
    BY DEF ReadOpcode
  <1> DEFINE n == HeaderArgumentCount(v)
             a == [i \in 1..n |-> ReadArgument(head.path, i)]
             g == Goal("callArguments", head.path, "op", n)
             b == IF v \in Calls THEN <<g>> ELSE << >>
             more == Then(a, b)
             key == <<head.path, head.field>>
             vector == <<head.path, "arguments">>
  <1>3. v \in Nat /\ HeadWidth = 1 /\ Takes(v) /\ n \in Nat
    <2>1. HeadWidth = 1
      BY <1>1, HeadWidthIs DEF Width
    <2> QED
      BY <1>1, <1>2, <2>1, SeenTyped, HeaderTyped DEF Takes
  <1>4. head.path \in Path /\ head.field = "op" /\ "op" \in Fields
    <2>1. head \in Goals /\ head.path \in Path
      BY <1>1, HeadReads
    <2> QED
      BY <1>1, <2>1 DEF Goals, Members
  <1>5. /\ Grows({key}, {vector})
        /\ parsed'.val[key] = v /\ key \in DOMAIN parsed'.val
        /\ parsed'.len[vector] = (IF v \in Calls THEN 0 ELSE n)
        /\ vector \in DOMAIN parsed'.len
    BY <1>2, GrowsByBoth DEF Grows, Extends
  <1>6. agenda' = Then(more, Tail(agenda))
    BY <1>2 DEF Then
  <1> HIDE DEF n
  <1>7. /\ a \in Seq(Goals) /\ Apart(a)
        /\ \A i \in DOMAIN a :
              /\ i \in 1..n /\ a[i].path = Child(head.path, "arguments", i)
              /\ a[i].kind = "type"
              /\ Inside(a[i], head)
              /\ \A map, f : ~Owns(a[i], map, head.path, f)
        /\ \A d : IsData(d) /\ n <= Size(d, head.path, "arguments") =>
              EmitAll(a, d) = Joined(Arguments(d, head.path), n)
    BY <1>1, <1>3, <1>4, FirstArguments
  <1>8. /\ g \in Goals /\ g.kind = "callArguments" /\ g.path = head.path
        /\ g.n = n /\ g.field = "op"
    <2> HIDE DEF g
    <2>2. g = Goal("callArguments", head.path, "op", n)
      BY DEF g
    <2>3. <<g>> \in Seq(Goals)
      BY <1>3, <1>4, <2>2, GoalTyped
    <2>4. <<g>>[1] \in Goals
      BY <2>3
    <2> QED
      BY <2>2, <2>4 DEF Goal
  <1> HIDE DEF a, g
  <1>9. /\ Tags(g.kind, g.field) = {<<"len", "arguments">>, <<"part", "arguments">>}
        /\ <<"len", "arguments">> \in Tags(head.kind, head.field)
        /\ <<"part", "arguments">> \in Tags(head.kind, head.field)
    BY <1>1, <1>8 DEF Tags
  <1>10. Inside(g, head) /\ ~Owns(g, "val", head.path, head.field)
    <2>1. Inside(g, head)
      BY <1>1, <1>8, <1>9, InsideSame
    <2>2. Owns(g, "val", g.path, head.field) <=> <<"val", head.field>> \in Tags(g.kind, g.field)
      BY <1>4, <1>8, OwnsHere
    <2>3. <<"val", head.field>> \notin Tags(g.kind, g.field)
      BY <1>9
    <2> QED
      BY <1>8, <2>1, <2>2, <2>3
  <1>11. ASSUME NEW i \in DOMAIN a PROVE Disjoint(a[i], g)
    <2>1. i \in Nat /\ ~(i > n) /\ "arguments" \in Parts
      BY <1>3, <1>7 DEF Parts
    <2> QED
      BY <1>4, <1>7, <1>8, <2>1, ChildApart
  <1>12. /\ b \in Seq(Goals) /\ Apart(b)
         /\ \A i \in DOMAIN b : b[i] = g /\ v \in Calls
         /\ b = (IF v \in Calls THEN <<g>> ELSE << >>)
         /\ v \in Calls => b = <<g>> /\ 1 \in DOMAIN b
    <2>1. /\ <<g>> \in Seq(Goals) /\ Apart(<<g>>) /\ DOMAIN <<g>> = {1}
          /\ <<g>>[1] = g
      BY <1>8, OneGoal
    <2>2. << >> \in Seq(Goals) /\ DOMAIN << >> = {} /\ Apart(<< >>)
      BY ApartFew
    <2> QED
      BY <2>1, <2>2
  <1> HIDE DEF b
  <1>13. more \in Seq(Goals) /\ Apart(more)
    <2>1. \A i \in DOMAIN a : \A j \in DOMAIN b : Disjoint(a[i], b[j])
      BY <1>11, <1>12
    <2> QED
      BY <1>7, <1>12, <2>1, ApartThen, ThenTyped
  <1>14. \A i \in DOMAIN more : \/ more[i] = g /\ v \in Calls
                                \/ \E j \in DOMAIN a : more[i] = a[j]
    <2> SUFFICES ASSUME NEW i \in DOMAIN more
                 PROVE  \/ more[i] = g /\ v \in Calls
                        \/ \E j \in DOMAIN a : more[i] = a[j]
      OBVIOUS
    <2>1. \/ i \in DOMAIN a /\ more[i] = a[i]
          \/ i - Len(a) \in DOMAIN b /\ more[i] = b[i - Len(a)]
      BY <1>7, <1>12, ThenPart
    <2> QED
      BY <1>12, <2>1
  <1>15. v \in Calls => InLocals(agenda', head.path)
    <2> SUFFICES ASSUME v \in Calls PROVE InLocals(agenda', head.path)
      OBVIOUS
    <2>1. a \in Seq(Goals) /\ g \in Goals /\ b = <<g>>
      BY <1>7, <1>8, <1>12
    <2>2. Len(a) + 1 \in DOMAIN more /\ more[Len(a) + 1] = g
      BY <2>1, LastOfThen
    <2>4. InLocals(more, head.path)
      BY <1>8, <2>2 DEF InLocals
    <2> HIDE DEF more
    <2> QED
      BY <1>1, <1>6, <1>13, <2>4, InLocalsStep
  <1>16. /\ EmitAllIs(more, a, b)
    BY <1>7, <1>12, EmitThen DEF EmitAllIs
  <1>17. ASSUME NEW d, Good(d), Fit(d, parsed', agenda')
         PROVE  Emit(head, d) = Then(<<Item(HeadWidth, v)>>, EmitAll(more, d))
    <2> DEFINE s == Arguments(d, head.path)
               m == Size(d, head.path, "arguments")
    <2>0. IsData(d) /\ m \in Nat
      BY <1>17, ValueTyped DEF Good
    <2>1. Value(d, head.path, "op") = v
      BY <1>4, <1>5, <1>17 DEF Fit, Known
    <2>2. Emit(head, d) = Then(WriteUInt8(v), Joined(s, m))
      BY <1>1, <2>1, WriteInstructionIs DEF Emit
    <2>3. <<Item(HeadWidth, v)>> = WriteUInt8(v)
      BY <1>1, <1>3 DEF WriteUInt8, Item
    <2>4. Sequences(s, m, Items)
      BY <2>0, WriteInstructionTyped
    <2> HIDE DEF s, m, more
    <2>5. EmitAll(more, d) = Then(EmitAll(a, d), EmitAll(b, d))
      BY <1>16, <2>0 DEF EmitAllIs
    <2>6. CASE v \in Calls
      <3>1. n <= m
        <4>1. \E j \in DOMAIN agenda' : agenda'[j] = g
          <5>1. a \in Seq(Goals) /\ g \in Goals /\ b = <<g>>
            BY <1>7, <1>8, <1>12, <2>6
          <5>2. Len(a) + 1 \in DOMAIN Then(a, b) /\ Then(a, b)[Len(a) + 1] = g
            BY <5>1, LastOfThen
          <5>3. Len(a) + 1 \in DOMAIN more /\ more[Len(a) + 1] = g
            BY <5>2 DEF more
          <5>4. /\ Len(a) + 1 \in DOMAIN Then(more, Tail(agenda))
                /\ Then(more, Tail(agenda))[Len(a) + 1] = g
            BY <1>1, <1>13, <5>3, HeadTyped, AmongThen
          <5> QED
            BY <1>6, <5>4
        <4> QED
          BY <1>8, <1>17, <4>1 DEF Fit, Argued, m
      <3>2. EmitAll(b, d) = JoinedFrom(s, n, m)
        <4>1. EmitAll(b, d) = Emit(g, d)
          BY <1>8, <1>12, <2>0, <2>6, EmitFew
        <4> QED
          BY <1>8, <4>1 DEF Emit, s, m
      <3>3. EmitAll(a, d) = Joined(s, n)
        BY <1>7, <2>0, <3>1 DEF s, m
      <3>4. Joined(s, m) = Then(Joined(s, n), JoinedFrom(s, n, m))
        BY <1>3, <2>0, <2>4, <3>1, JoinedFromHere
      <3> QED
        BY <2>2, <2>3, <2>5, <3>2, <3>3, <3>4
    <2>7. CASE v \notin Calls
      <3>1. b = << >> /\ EmitAll(b, d) = << >>
        BY <1>12, <2>0, <2>7, EmitFew
      <3>2. m = n
        <4>1. ~InLocals(agenda', head.path)
          <5>1. ~InLocals(more, head.path)
            <6>1. \A i \in DOMAIN more : more[i].kind = "type"
              BY <1>7, <1>14, <2>7
            <6> QED
              BY <6>1 DEF InLocals
          <5>2. ~InLocals(Tail(agenda), head.path)
            <6> SUFFICES ASSUME InLocals(Tail(agenda), head.path) PROVE FALSE
              OBVIOUS
            <6>1. Tail(agenda) \in Seq(Goals)
              BY <1>1, HeadTyped
            <6>2. PICK i \in DOMAIN Tail(agenda) :
                     /\ Tail(agenda)[i].kind = "callArguments"
                     /\ Tail(agenda)[i].path = head.path
              BY DEF InLocals
            <6>3. /\ 1 \in DOMAIN agenda /\ agenda[1] = head
                  /\ i + 1 \in DOMAIN agenda /\ Tail(agenda)[i] = agenda[i + 1]
                  /\ i + 1 # 1
              BY <1>1, <6>1, HeadIs DEF TypeOK
            <6>4. Disjoint(head, agenda[i + 1])
              BY <6>3 DEF FreshInv, Apart
            <6>5. Owns(head, "len", head.path, "arguments")
              BY <1>9 DEF Owns
            <6>6. Owns(agenda[i + 1], "len", head.path, "arguments")
              BY <6>2, <6>3 DEF Owns, Tags
            <6> QED
              BY <1>4, <6>4, <6>5, <6>6 DEF Disjoint
          <5> QED
            BY <1>1, <1>6, <1>13, <5>1, <5>2, InLocalsStep
        <4>2. Size(d, head.path, "arguments") = n + Pushes(agenda', head.path)
          BY <1>4, <1>5, <1>17, <2>7, <4>1 DEF Fit, Argued
        <4>3. Pushes(agenda', head.path) = 0
          <5>1. Pushes(Tail(agenda), head.path) = 0
            BY <1>1, NoPushesYet
          <5>2. Pushes(more, head.path) = 0
            <6>1. \A i \in DOMAIN more : more[i].kind # "push"
              BY <1>7, <1>14, <2>7
            <6> QED
              BY <1>13, <6>1, NoPushesAmong
          <5>3. Pushes(agenda', head.path)
                   = Pushes(more, head.path) + Pushes(Tail(agenda), head.path)
            BY <1>1, <1>6, <1>13, PushesStep
          <5> QED
            BY <5>1, <5>2, <5>3
        <4> QED
          BY <1>3, <4>2, <4>3 DEF m
      <3>3. EmitAll(a, d) = Joined(s, n) /\ Joined(s, n) \in Seq(Items)
        BY <1>3, <1>7, <2>0, <2>4, <3>2, JoinedTyped DEF s, m
      <3>4. EmitAll(more, d) = Joined(s, m)
        BY <2>5, <3>1, <3>2, <3>3, ThenNone
      <3> QED
        BY <2>2, <2>3, <3>4
    <2> QED
      BY <2>6, <2>7
  <1>18. Follows(<<Item(HeadWidth, v)>>, more)
    <2> DEFINE values == {key}
               sizes == {vector}
               e == <<Item(HeadWidth, v)>>
    <2>1. \A q, f : <<q, f>> \in sizes => q = head.path /\ f = "arguments"
      OBVIOUS
    <2>2. Grows(values, sizes) /\ values \subseteq {<<head.path, head.field>>}
      BY <1>5
    <2>3. \A d : Good(d) /\ Fit(d, parsed', agenda') =>
                    Emit(head, d) = Then(e, EmitAll(more, d))
      BY <1>17
    <2> HIDE DEF values, e, sizes, key, vector, more
    <2>4. \A i \in DOMAIN more :
              /\ Inside(more[i], head)
              /\ ~Owns(more[i], "val", head.path, head.field)
              /\ more[i].kind \notin {"payload", "loop", "push"}
              /\ more[i].kind = "callArguments" =>
                    head.kind = "opcode" /\ more[i].path = head.path
      BY <1>1, <1>7, <1>8, <1>10, <1>14
    <2>5. \A q, f : <<q, f>> \in sizes =>
              \/ f = "objects"
              \/ f = "arguments" /\ InLocals(agenda', q)
              \/ /\ q = head.path /\ <<"len", f>> \in Tags(head.kind, head.field)
                 /\ \A i \in DOMAIN more : ~Owns(more[i], "len", q, f)
      <3>1. CASE v \in Calls
        BY <1>15, <2>1, <3>1
      <3>2. CASE v \notin Calls
        <4>1. \A i \in DOMAIN more : ~Owns(more[i], "len", head.path, "arguments")
          BY <1>7, <1>14, <3>2
        <4> QED
          BY <1>9, <2>1, <4>1
      <3> QED
        BY <3>1, <3>2
    <2>6. Follows(e, more)
      BY <1>1, <1>6, <1>13, <2>2, <2>3, <2>4, <2>5, ReadFollows
    <2> QED
      BY <2>6 DEF e
  <1> QED
    BY <1>3, <1>18

\* A step that reads nothing, sets nothing and neither begins nor ends with
\* the arguments of an instruction.
LEMMA QuietFollows ==
    ASSUME TypeOK, FreshInv, agenda # << >>, parsed' = parsed,
           head.kind \notin {"push", "callArguments"},
           NEW more \in Seq(Goals), agenda' = Then(more, Tail(agenda)),
           Apart(more), \A i \in DOMAIN more : Inside(more[i], head),
           \A i \in DOMAIN more :
              more[i].kind \notin {"payload", "push", "callArguments"},
           \A i \in DOMAIN more :
              more[i].kind = "loop" =>
                 <<more[i].path, more[i].field>> \in DOMAIN parsed.val,
           \A d : Good(d) /\ Fit(d, parsed, agenda) =>
                     Emit(head, d) = EmitAll(more, d)
    PROVE  Follows(<< >>, more)
  <1>1. \A q : InLocals(agenda', q) <=> InLocals(agenda, q)
    <2>1. \A q : ~InLocals(more, q)
      BY DEF InLocals
    <2> QED
      BY <2>1, InLocalsStep
  <1>2. FreshInv'
    <2>1. \A map, f : \A q \in Path :
             Settled(parsed', agenda', map, q, f) => Settled(parsed, agenda, map, q, f)
      BY <1>1 DEF Settled
    <2>2. /\ DOMAIN parsed.val \subseteq DOMAIN parsed'.val
          /\ DOMAIN parsed.len \subseteq DOMAIN parsed'.len
      OBVIOUS
    <2> QED
      BY <2>1, <2>2, FreshStep
  <1>3. \A q : Pushes(agenda', q) = Pushes(agenda, q)
    <2> SUFFICES ASSUME NEW q PROVE Pushes(agenda', q) = Pushes(agenda, q)
      OBVIOUS
    <2>1. PushAt(q)[head] = 0
      BY HeadTyped, PushAtTyped
    <2>2. \A i \in DOMAIN more : more[i] \in Goals /\ more[i].kind # "push"
      OBVIOUS
    <2>3. Pushes(more, q) = 0
      BY <2>2, NoPushesAmong
    <2> QED
      BY <2>1, <2>3, PushesStep
  <1>4. ASSUME NEW d, Fit(d, parsed', agenda')
        PROVE  Fit(d, parsed, agenda)
    <2>1. ASSUME NEW i \in DOMAIN agenda, agenda[i].kind = "callArguments"
          PROVE  agenda[i].n <= Size(d, agenda[i].path, "arguments")
      <3>1. PICK j \in DOMAIN agenda' : agenda'[j] = agenda[i]
        BY <2>1, AgendaParts
      <3> QED
        BY <1>4, <2>1, <3>1 DEF Fit, Argued
    <2>2. Known(d, parsed)
      BY <1>4 DEF Fit
    <2>3. \A q \in Path : <<q, "arguments">> \in DOMAIN parsed.len /\ ~InLocals(agenda, q) =>
             Size(d, q, "arguments") = parsed.len[<<q, "arguments">>] + Pushes(agenda, q)
      BY <1>1, <1>3, <1>4 DEF Fit, Argued
    <2> QED
      BY <2>1, <2>2, <2>3 DEF Fit, Argued
  <1>5. ASSUME NEW d, Good(d), Fit(d, parsed', agenda')
        PROVE  Emit(head, d) = Then(<< >>, EmitAll(more, d))
    <2>1. EmitAll(more, d) \in Seq(Items)
      BY <1>5, EmitAllTyped DEF Good
    <2>2. Emit(head, d) = EmitAll(more, d)
      BY <1>4, <1>5
    <2> QED
      BY <2>1, <2>2, ThenNone
  <1> QED
    BY <1>2, <1>4, <1>5 DEF Follows

\* ... ObjectEnds, which writes nothing,
LEMMA ObjectEndsFollows ==
    ASSUME TypeOK, FreshInv, ObjectEnds
    PROVE  Follows(<< >>, << >>)
  <1>1. /\ agenda # << >> /\ head.kind = "objectEnd"
        /\ agenda' = Tail(agenda) /\ parsed' = parsed
    BY DEF ObjectEnds, At
  <1>2. agenda' = Then(<< >>, Tail(agenda))
    BY <1>1, HeadTyped, ThenNone
  <1>3. \A d : Good(d) /\ Fit(d, parsed, agenda) =>
                  Emit(head, d) = EmitAll(<< >>, d)
    BY <1>1, EmitFew DEF Emit, Good
  <1>4. << >> \in Seq(Goals) /\ Apart(<< >>) /\ DOMAIN << >> = {}
    BY ApartFew
  <1>5. head.kind \notin {"push", "callArguments"}
    BY <1>1
  <1> QED
    BY <1>1, <1>2, <1>3, <1>4, <1>5, QuietFollows

\* The record at hand has the count its loop is about.
LEMMA LoopHasCount ==
    ASSUME TypeOK, ObjectsComeLast, agenda # << >>, head.kind = "loop"
    PROVE  HasCount(head.path, head.field)
  <1>1. CASE head.field # "objectCount"
    BY <1>1, HeadInner DEF Inner
  <1>2. CASE head.field = "objectCount"
    <2>1. Len(agenda) \in Nat /\ Len(agenda) >= 1 /\ head = agenda[1]
      BY HeadIs
    <2>2. CASE Len(agenda) = 1
      BY <1>2, <2>1, <2>2 DEF ObjectsComeLast, LastGoal, HasCount
    <2>3. CASE Len(agenda) # 1
      <3>1. 1 \in 1..(Len(agenda) - 1)
        <4> DEFINE n == Len(agenda)
        <4>1. n \in Nat /\ n >= 1 /\ n # 1
          BY <2>1, <2>3
        <4> HIDE DEF n
        <4>2. 1 \in 1..(n - 1)
          BY <4>1
        <4> QED
          BY <4>2 DEF n
      <3> QED
        BY <1>2, <2>1, <3>1 DEF ObjectsComeLast, Inner
    <2> QED
      BY <2>2, <2>3
  <1> QED
    BY <1>1, <1>2

\* ... NextElement: the next element is written, and then those after it,
LEMMA NextElementFollows ==
    ASSUME TypeOK, FreshInv, ObjectsComeLast, NextElement
    PROVE  \E more : Follows(<< >>, more)
  <1> DEFINE vector == Vector[head.field]
             i == head.n + 1
             next == [head EXCEPT !.n = i]
             reads == Reads(vector.element, Child(head.path, vector.name, i))
             count == Value(parsed, head.path, head.field)
  <1>1. /\ agenda # << >> /\ head.kind = "loop" /\ parsed' = parsed
        /\ agenda' = IF head.n < count THEN reads \o <<next>> \o Tail(agenda)
                     ELSE Tail(agenda)
    BY DEF NextElement, At
  <1>2. /\ head \in Goals /\ head.path \in Path /\ head.field \in DOMAIN Vector
        /\ head.n \in Nat /\ vector.element \in Seq(Reading) /\ vector.name \in Parts
        /\ Split(vector.element) /\ count \in Nat
    <2>1. head \in Goals
      BY <1>1, HeadTyped
    <2>2. head.path \in Path /\ head.field \in DOMAIN Vector /\ head.n \in Nat
      BY <1>1, <2>1 DEF Goals
    <2> QED
      BY <2>1, <2>2, VectorTyped, ElementsSplit, ValueTyped DEF TypeOK
  <1>3. <<head.path, head.field>> \in DOMAIN parsed.val
    <2>1. 1 \in DOMAIN agenda /\ agenda[1] = head
      BY <1>1, HeadIs DEF TypeOK
    <2> QED
      BY <1>1, <2>1 DEF FreshInv, Prepared
  <1>4. ASSUME NEW d, Good(d), Fit(d, parsed, agenda)
        PROVE  /\ IsData(d) /\ Size(d, head.path, vector.name) = count
               /\ Sequences(Elements(head.field, d, head.path), count, Items)
               /\ Emit(head, d) = JoinedFrom(Elements(head.field, d, head.path),
                                             head.n, count)
    <2>1. Value(d, head.path, head.field) = count
      BY <1>3, <1>4 DEF Fit, Known, Value
    <2>2. IsData(d) /\ Size(d, head.path, vector.name) = count
      BY <1>1, <1>2, <1>4, <2>1, LoopHasCount DEF Good, Even
    <2>3. \A p : Element(head.field, d, p) \in Seq(Items)
      BY <1>2, <2>2, ElementTyped
    <2>4. Sequences(Elements(head.field, d, head.path), count, Items)
      BY <2>2, <2>3 DEF Sequences, Elements
    <2>5. Emit(head, d) = Rest(head.field, d, head.path, head.n)
      BY <1>1 DEF Emit
    <2> QED
      BY <2>2, <2>4, <2>5 DEF Rest
  <1>5. CASE head.n < count
    <2> DEFINE more == Then(reads, <<next>>)
    <2>1. agenda' = Then(more, Tail(agenda))
      BY <1>1, <1>5 DEF Then
    <2>2. /\ next \in Goals /\ next.path = head.path /\ next.kind = head.kind
          /\ next.field = head.field /\ next.n = i /\ i \in Nat
      <3>1. head \in [kind : Kinds, path : Path, field : Fields, n : Nat]
        BY <1>2 DEF Goals
      <3>2. i \in Nat
        BY <1>2
      <3> HIDE DEF i
      <3>3. next \in [kind : Kinds, path : Path, field : Fields, n : Nat]
        BY <3>1, <3>2
      <3>4. /\ next.path = head.path /\ next.kind = head.kind
            /\ next.field = head.field /\ next.n = i
        BY <3>1, <3>2
      <3>5. next \in Goals
        <4> HIDE DEF next
        <4> QED
          BY <1>1, <1>2, <3>3, <3>4 DEF Goals, Width
      <3> QED
        BY <3>2, <3>4, <3>5
    <2>3. <<"part", vector.name>> \in Tags(head.kind, head.field)
      BY <1>1 DEF Tags
    <2>4. i > head.n /\ i \in Nat /\ head.n + 1 = i /\ ~(i > i)
      BY <1>2
    <2>5. /\ reads \in Seq(Goals) /\ Apart(reads)
          /\ \A j \in DOMAIN reads :
                /\ reads[j].path = Child(head.path, vector.name, i)
                /\ Inside(reads[j], head)
                /\ reads[j].kind \in DOMAIN Width
      <3> HIDE DEF vector, i
      <3> QED
        BY <1>2, <2>3, <2>4, PartFollows
    <2>5a. Child(head.path, vector.name, i) \in Path
      BY <1>2, <2>4, ChildTyped
    <2>6. ASSUME NEW d, Good(d), Fit(d, parsed, agenda)
          PROVE  Emit(head, d) = EmitAll(more, d)
      <3> DEFINE s == Elements(head.field, d, head.path)
      <3>1. Emit(head, d) = Then(s[i], JoinedFrom(s, i, count))
        <4>1. JoinedFrom(s, head.n, count) = Then(s[head.n + 1], JoinedFrom(s, head.n + 1, count))
          <5> HIDE DEF s, count
          <5>1. Sequences(s, count, Items)
            BY <1>4, <2>6 DEF s, count
          <5> QED
            BY <1>2, <1>5, <5>1, JoinedFromNext
        <4> QED
          BY <1>4, <2>6, <4>1
      <3>2. s[i] = EmitAll(reads, d)
        <4>1. i \in 1..Size(d, head.path, vector.name)
          BY <1>2, <1>4, <1>5, <2>6
        <4>2. s[i] = Element(head.field, d, Child(head.path, vector.name, i))
          BY <4>1 DEF Elements
        <4> QED
          BY <1>2, <1>4, <2>5a, <2>6, <4>2, EmitElement
      <3>3. Emit(next, d) = JoinedFrom(s, i, count)
        BY <1>1, <1>4, <2>2, <2>6 DEF Emit, Rest
      <3> HIDE DEF s, reads, next
      <3>4. EmitAll(<<next>>, d) = Emit(next, d)
        BY <1>4, <2>2, <2>6, EmitFew
      <3>5. EmitAll(more, d) = Then(EmitAll(reads, d), EmitAll(<<next>>, d))
        <4>1. <<next>> \in Seq(Goals)
          BY <2>2
        <4> QED
          BY <1>4, <2>5, <2>6, <4>1, EmitThen
      <3> QED
        BY <3>1, <3>2, <3>3, <3>4, <3>5
    <2>7. Inside(next, head)
      <3>1. head.n <= next.n
        BY <1>2, <2>2, <2>4
      <3> HIDE DEF next, i
      <3> QED
        BY <1>1, <1>2, <2>2, <3>1, LoopInside
    <2>8. \A j \in DOMAIN reads : Disjoint(reads[j], next)
      <3> HIDE DEF next, vector, i
      <3> QED
        BY <1>1, <1>2, <2>2, <2>4, <2>5, ChildApart
    <2> HIDE DEF reads, next
    <2>9. /\ <<next>> \in Seq(Goals) /\ Apart(<<next>>) /\ DOMAIN <<next>> = {1}
          /\ <<next>>[1] = next
      BY <2>2, OneGoal
    <2>10. more \in Seq(Goals) /\ Apart(more)
      <3> DEFINE b == <<next>>
      <3>1. \A j \in DOMAIN reads : \A k \in DOMAIN b : Disjoint(reads[j], b[k])
        BY <2>8, <2>9
      <3>2. b \in Seq(Goals) /\ Apart(b)
        BY <2>9
      <3> HIDE DEF b
      <3>3. Then(reads, b) \in Seq(Goals) /\ Apart(Then(reads, b))
        BY <2>5, <3>1, <3>2, ApartThen, ThenTyped
      <3> QED
        BY <3>3 DEF b
    <2>11. \A j \in DOMAIN more :
              more[j] = next \/ \E k \in DOMAIN reads : more[j] = reads[k]
      <3> SUFFICES ASSUME NEW j \in DOMAIN more
                   PROVE  more[j] = next \/ \E k \in DOMAIN reads : more[j] = reads[k]
        OBVIOUS
      <3>1. \/ j \in DOMAIN reads /\ more[j] = reads[j]
            \/ j - Len(reads) \in DOMAIN <<next>> /\ more[j] = <<next>>[j - Len(reads)]
        BY <2>5, <2>9, ThenPart
      <3> QED
        BY <2>9, <3>1
    <2> HIDE DEF more
    <2>12. \A j \in DOMAIN more :
              /\ Inside(more[j], head)
              /\ more[j].kind \notin {"payload", "push", "callArguments"}
              /\ more[j].kind = "loop" =>
                    <<more[j].path, more[j].field>> \in DOMAIN parsed.val
      BY <1>1, <1>3, <2>2, <2>5, <2>7, <2>11, ReadKinds
    <2>13. head.kind \notin {"push", "callArguments"}
      BY <1>1
    <2> QED
      BY <1>1, <2>1, <2>6, <2>10, <2>12, <2>13, QuietFollows
  <1>6. CASE ~(head.n < count)
    <2>1. agenda' = Then(<< >>, Tail(agenda))
      BY <1>1, <1>6, HeadTyped, ThenNone
    <2>2. \A d : Good(d) /\ Fit(d, parsed, agenda) =>
                    Emit(head, d) = EmitAll(<< >>, d)
      BY <1>4, <1>6, EmitFew DEF JoinedFrom
    <2>3. << >> \in Seq(Goals) /\ Apart(<< >>) /\ DOMAIN << >> = {}
      BY ApartFew
    <2>4. head.kind \notin {"push", "callArguments"}
      BY <1>1
    <2> QED
      BY <1>1, <2>1, <2>2, <2>3, <2>4, QuietFollows
  <1> QED
    BY <1>5, <1>6

\* ... PushArgument, which writes nothing: the argument was read before,
LEMMA PushArgumentFollows ==
    ASSUME TypeOK, FreshInv, PushArgument
    PROVE  Follows(<< >>, << >>)
  <1> DEFINE key == <<head.path, "arguments">>
  <1>1. /\ agenda # << >> /\ head.kind = "push" /\ agenda' = Tail(agenda)
        /\ parsed' = WithSize(parsed, head.path, "arguments",
                              Size(parsed, head.path, "arguments") + 1)
    BY DEF PushArgument, At
  <1>2. /\ head \in Goals /\ head.path \in Path
        /\ 1 \in DOMAIN agenda /\ agenda[1] = head
    <2>1. head \in Goals
      BY <1>1, HeadTyped
    <2> QED
      BY <1>1, <2>1, HeadIs DEF Goals, TypeOK
  <1>3. key \in DOMAIN parsed.len /\ ~InLocals(agenda, head.path)
    BY <1>1, <1>2 DEF FreshInv, Prepared, Settled
  <1>4. /\ Grows({}, {key})
        /\ parsed'.len[key] = Size(parsed, head.path, "arguments") + 1
    <2> DEFINE n == Size(parsed, head.path, "arguments") + 1
    <2>1. parsed' = WithSize(parsed, head.path, "arguments", n)
      BY <1>1
    <2> HIDE DEF n
    <2>2. Grows({}, {key}) /\ parsed'.len[key] = n
      BY <2>1, GrowsBySize
    <2> QED
      BY <2>2 DEF n
  <1>5. /\ DOMAIN parsed'.val = DOMAIN parsed.val
        /\ DOMAIN parsed'.len = DOMAIN parsed.len
        /\ parsed'.len[key] = parsed.len[key] + 1 /\ parsed.len[key] \in Nat
    BY <1>3, <1>4 DEF Grows, Extends, Size, TypeOK, IsData
  <1>6. << >> \in Seq(Goals) /\ Apart(<< >>) /\ DOMAIN << >> = {}
        /\ agenda' = Then(<< >>, Tail(agenda))
    <2>1. agenda' = Then(<< >>, Tail(agenda))
      BY <1>1, HeadTyped, ThenNone
    <2> QED
      BY <2>1, ApartFew
  <1>7. \A q : InLocals(agenda', q) <=> InLocals(agenda, q)
    <2>1. \A q : ~InLocals(<< >>, q)
      BY DEF InLocals
    <2> QED
      BY <1>1, <1>6, <2>1, InLocalsStep
  <1>8. FreshInv'
    <2>1. \A map, f : \A q \in Path :
             Settled(parsed', agenda', map, q, f) => Settled(parsed, agenda, map, q, f)
      BY <1>5, <1>7 DEF Settled
    <2>2. /\ DOMAIN parsed.val \subseteq DOMAIN parsed'.val
          /\ DOMAIN parsed.len \subseteq DOMAIN parsed'.len
      BY <1>5
    <2> QED
      BY <1>1, <1>6, <2>1, <2>2, FreshStep
  <1> DEFINE pushes(q) == Pushes(Tail(agenda), q)
  <1>9. /\ \A q : Pushes(agenda', q) \in Nat
        /\ Pushes(agenda, head.path) = 1 + Pushes(agenda', head.path)
        /\ \A q : q # head.path => Pushes(agenda, q) = Pushes(agenda', q)
    <2>1. \A q : Pushes(agenda', q) \in Nat /\ Pushes(agenda, q) = PushAt(q)[head] + Pushes(agenda', q)
      BY <1>1, <1>6, PushesStep
    <2>2. /\ PushAt(head.path)[head] = 1
          /\ \A q : q # head.path => PushAt(q)[head] = 0
      BY <1>1, <1>2, PushAtTyped
    <2>3. Pushes(agenda, head.path) = 1 + Pushes(agenda', head.path)
      BY <2>1, <2>2
    <2>4. ASSUME NEW q, q # head.path PROVE Pushes(agenda, q) = Pushes(agenda', q)
      BY <2>1, <2>2, <2>4
    <2> QED
      BY <2>1, <2>3, <2>4
  <1>10. ASSUME NEW d, Fit(d, parsed', agenda')
         PROVE  Fit(d, parsed, agenda)
    <2>1. ASSUME NEW i \in DOMAIN agenda, agenda[i].kind = "callArguments"
          PROVE  agenda[i].n <= Size(d, agenda[i].path, "arguments")
      <3>1. PICK j \in DOMAIN agenda' : agenda'[j] = agenda[i]
        BY <1>1, <1>6, <2>1, AgendaParts
      <3> QED
        BY <1>10, <2>1, <3>1 DEF Fit, Argued
    <2>2. Known(d, parsed)
      BY <1>4, <1>5, <1>10 DEF Fit, Known, Grows, Extends
    <2>3. ASSUME NEW q \in Path, <<q, "arguments">> \in DOMAIN parsed.len,
                 ~InLocals(agenda, q)
          PROVE  Size(d, q, "arguments") = parsed.len[<<q, "arguments">>] + Pushes(agenda, q)
      <3>1. Size(d, q, "arguments") = parsed'.len[<<q, "arguments">>] + Pushes(agenda', q)
        BY <1>5, <1>7, <1>10, <2>3 DEF Fit, Argued
      <3>2. CASE q = head.path
        <4>1. <<q, "arguments">> = key
          BY <3>2
        <4> HIDE DEF key
        <4> QED
          BY <1>5, <1>9, <3>1, <3>2, <4>1
      <3>3. CASE q # head.path
        <4>1. parsed'.len[<<q, "arguments">>] = parsed.len[<<q, "arguments">>]
          BY <1>4, <2>3, <3>3 DEF Grows, Extends
        <4> QED
          BY <1>9, <3>1, <3>3, <4>1
      <3> QED
        BY <3>2, <3>3
    <2> QED
      BY <2>1, <2>2, <2>3 DEF Fit, Argued
  <1>11. ASSUME NEW d, Good(d)
         PROVE  Emit(head, d) = Then(<< >>, EmitAll(<< >>, d))
    <2>1. Emit(head, d) = << >> /\ EmitAll(<< >>, d) = << >>
      BY <1>1, <1>11, EmitFew DEF Emit, Good
    <2> QED
      BY <2>1, NothingTyped, ThenNone
  <1> QED
    BY <1>6, <1>8, <1>10, <1>11 DEF Follows

\* Every second of the sequences is empty, the others are those of t.
Turns(s, t, n) == \A j \in 1..n : s[2 * j - 1] = t[j] /\ s[2 * j] = << >>

\* Two sequences joined each turn are the turns joined.
LEMMA JoinedTurns ==
    ASSUME NEW S, NEW s, NEW t, NEW n \in Nat, Sequences(t, n, S), Turns(s, t, n)
    PROVE  Joined(s, 2 * n) = Joined(t, n)
  <1> DEFINE P == {k \in Nat : k <= n => Joined(s, 2 * k) = Joined(t, k)}
  <1>1. 0 \in P
    BY JoinedNone
  <1>2. ASSUME NEW k \in Nat, k \in P
        PROVE  k + 1 \in P
    <2> SUFFICES ASSUME k + 1 <= n
                 PROVE  Joined(s, 2 * (k + 1)) = Joined(t, k + 1)
      OBVIOUS
    <2>1. Joined(s, 2 * k) = Joined(t, k)
      BY <1>2
    <2>2. /\ k + 1 \in 1..n /\ 2 * k \in Nat /\ 2 * k + 1 \in Nat
          /\ 2 * (k + 1) - 1 = 2 * k + 1 /\ 2 * (k + 1) = (2 * k + 1) + 1
      OBVIOUS
    <2>3. s[2 * k + 1] = t[k + 1] /\ s[(2 * k + 1) + 1] = << >>
      <3>1. s[2 * (k + 1) - 1] = t[k + 1] /\ s[2 * (k + 1)] = << >>
        BY <2>2 DEF Turns
      <3> QED
        BY <2>2, <3>1
    <2>4. Joined(s, 2 * k + 1) = Then(Joined(t, k), t[k + 1])
      <3>1. Joined(s, 2 * k + 1) = Then(Joined(s, 2 * k), s[2 * k + 1])
        <4> DEFINE m == 2 * k
        <4>1. m \in Nat
          BY <2>2
        <4> HIDE DEF m
        <4>2. Joined(s, m + 1) = Then(Joined(s, m), s[m + 1])
          BY <4>1, JoinedNext
        <4> QED
          BY <4>2 DEF m
      <3> QED
        BY <2>1, <2>3, <3>1
    <2>5. Joined(t, k + 1) = Then(Joined(t, k), t[k + 1])
      BY JoinedNext
    <2>6. Joined(t, k + 1) \in Seq(S)
      <3>1. Sequences(t, k + 1, S)
        BY DEF Sequences
      <3> QED
        BY <3>1, JoinedTyped
    <2>7. Joined(s, (2 * k + 1) + 1) = Then(Joined(s, 2 * k + 1), s[(2 * k + 1) + 1])
      <3> DEFINE m == 2 * k + 1
      <3>1. m \in Nat
        BY <2>2
      <3> HIDE DEF m
      <3>2. Joined(s, m + 1) = Then(Joined(s, m), s[m + 1])
        BY <3>1, JoinedNext
      <3> QED
        BY <3>2 DEF m
    <2>8. Joined(s, (2 * k + 1) + 1) = Joined(t, k + 1)
      BY <2>3, <2>4, <2>5, <2>6, <2>7, ThenNone
    <2> QED
      BY <2>2, <2>8
  <1> HIDE DEF P
  <1>3. \A k \in Nat : k \in P
    BY <1>1, <1>2, NatSetInduction
  <1> QED
    BY <1>3 DEF P

\* A push sets nothing.
LEMMA PushOwnsNothing ==
    ASSUME NEW g, g.kind = "push"
    PROVE  \A map, f, q : ~Owns(g, map, q, f)
  BY DEF Owns, Within, Tags

\* The further arguments of a call.
Further(path, n, count) ==
    [i \in 1..(2 * count) |->
        IF i % 2 = 1 THEN ReadArgument(path, n + (i + 1) \div 2)
        ELSE Goal("push", path, "arguments", 0)]

\* Reads of the arguments after the first n and pushes by turns.
ByTurns(more, path, n, count) ==
    \A i \in 1..(2 * count) :
        /\ i % 2 = 1 =>
              /\ more[i] = ReadArgument(path, n + (i + 1) \div 2)
              /\ n + (i + 1) \div 2 \in Nat /\ n + (i + 1) \div 2 > n
              /\ more[i].kind = "type"
              /\ more[i].path = Child(path, "arguments", n + (i + 1) \div 2)
        /\ i % 2 # 1 =>
              /\ more[i] = Goal("push", path, "arguments", 0)
              /\ more[i].kind = "push"
              /\ more[i].path = path

\* They are read and pushed by turns,
LEMMA FurtherTyped ==
    ASSUME NEW path \in Path, NEW n \in Nat, NEW count \in Nat
    PROVE  /\ Further(path, n, count) \in Seq(Goals)
           /\ DOMAIN Further(path, n, count) = 1..(2 * count)
           /\ Len(Further(path, n, count)) = 2 * count
           /\ ByTurns(Further(path, n, count), path, n, count)
  <1> DEFINE push == Goal("push", path, "arguments", 0)
             index(i) == n + (i + 1) \div 2
             more == [i \in 1..(2 * count) |->
                         IF i % 2 = 1 THEN ReadArgument(path, index(i)) ELSE push]
  <1>1. push \in Goals
    <2>1. "arguments" \in Fields
      BY DEF Fields
    <2>2. <<push>> \in Seq(Goals)
      BY <2>1, GoalTyped
    <2> HIDE DEF push
    <2> QED
      BY <2>2
  <1>2. push.kind = "push" /\ push.path = path
    BY DEF Goal
  <1>3. ASSUME NEW i \in 1..(2 * count)
        PROVE  index(i) \in Nat /\ index(i) > n
    OBVIOUS
  <1> HIDE DEF push, index
  <1>4. ASSUME NEW i \in 1..(2 * count)
        PROVE  /\ ReadArgument(path, index(i)) \in Goals
               /\ ReadArgument(path, index(i)).kind = "type"
               /\ ReadArgument(path, index(i)).path = Child(path, "arguments", index(i))
    BY <1>3, ReadArgumentIs
  <1>5. more \in Seq(Goals) /\ DOMAIN more = 1..(2 * count) /\ Len(more) = 2 * count
    BY <1>1, <1>4
  <1>6. \A i \in 1..(2 * count) :
           /\ i % 2 = 1 => more[i] = ReadArgument(path, index(i))
           /\ i % 2 # 1 => more[i] = push
    OBVIOUS
  <1>7. Further(path, n, count) = more
    BY DEF Further, index, push
  <1> HIDE DEF more
  <1>8. \A i \in 1..(2 * count) :
           /\ i % 2 = 1 => /\ index(i) \in Nat /\ index(i) > n
                           /\ more[i].kind = "type"
                           /\ more[i].path = Child(path, "arguments", index(i))
           /\ i % 2 # 1 => more[i].kind = "push" /\ more[i].path = path
    BY <1>2, <1>3, <1>4, <1>6
  <1> QED
    BY <1>5, <1>6, <1>7, <1>8 DEF index, push, ByTurns

\* ... each once,
LEMMA FurtherApart ==
    ASSUME NEW h, h.path \in Path, h.kind = "callArguments", h.n \in Nat,
           NEW count \in Nat
    PROVE  LET more == Further(h.path, h.n, count)
           IN  /\ Apart(more)
               /\ \A i \in DOMAIN more :
                     /\ Inside(more[i], h)
                     /\ \A map, f : ~Owns(more[i], map, h.path, f)
                     /\ more[i].kind \in {"type", "push"}
                     /\ more[i].kind = "push" => more[i].path = h.path
  <1> DEFINE path == h.path
             n == h.n
             more == Further(path, n, count)
             index(i) == n + (i + 1) \div 2
  <1>1. /\ DOMAIN more = 1..(2 * count)
        /\ \A i \in DOMAIN more :
              /\ i % 2 = 1 => /\ index(i) \in Nat /\ index(i) > n
                              /\ more[i].kind = "type"
                              /\ more[i].path = Child(path, "arguments", index(i))
              /\ i % 2 # 1 => more[i].kind = "push" /\ more[i].path = path
    <2>1. DOMAIN more = 1..(2 * count) /\ ByTurns(more, path, n, count)
      BY FurtherTyped
    <2> HIDE DEF more
    <2> QED
      BY <2>1 DEF ByTurns
  <1> HIDE DEF more
  <1>2. \A i, j \in DOMAIN more :
           i # j /\ i % 2 = 1 /\ j % 2 = 1 => index(i) # index(j)
    <2>1. ASSUME NEW i \in Nat, i % 2 = 1
          PROVE  i = 2 * (index(i) - n) - 1 /\ index(i) \in Int
      BY <2>1
    <2>2. \A i \in DOMAIN more : i \in Nat
      BY <1>1
    <2> HIDE DEF index
    <2> QED
      BY <2>1, <2>2
  <1> HIDE DEF index
  <1>3. "arguments" \in Parts /\ <<"part", "arguments">> \in Tags(h.kind, h.field)
    BY DEF Parts, Tags
  <1>4. Apart(more)
    <2> SUFFICES ASSUME NEW i \in DOMAIN more, NEW j \in DOMAIN more, i # j
                 PROVE  Disjoint(more[i], more[j])
      BY DEF Apart
    <2>1. CASE i % 2 # 1 \/ j % 2 # 1
      BY <1>1, <2>1, PushOwnsNothing DEF Disjoint
    <2>2. CASE i % 2 = 1 /\ j % 2 = 1
      <3>1. /\ index(i) \in Nat /\ index(j) \in Nat /\ index(i) # index(j)
            /\ more[i].path = Child(path, "arguments", index(i))
            /\ more[j].path = Child(path, "arguments", index(j))
        BY <1>1, <1>2, <2>2
      <3> QED
        BY <1>3, <3>1, ChildrenApart
    <2> QED
      BY <2>1, <2>2
  <1>5. ASSUME NEW i \in DOMAIN more
        PROVE  Inside(more[i], h) /\ \A map, f : ~Owns(more[i], map, path, f)
    <2>1. CASE i % 2 # 1
      BY <1>1, <2>1, PushOwnsNothing DEF Inside
    <2>2. CASE i % 2 = 1
      <3>1. /\ index(i) \in Nat /\ index(i) > n
            /\ more[i].path = Child(path, "arguments", index(i))
        BY <1>1, <2>2
      <3>2. Inside(more[i], h)
        BY <1>3, <3>1, ChildInside
      <3>3. \A map, f : ~Owns(more[i], map, path, f)
        <4> SUFFICES ASSUME NEW map, NEW f, Owns(more[i], map, path, f) PROVE FALSE
          OBVIOUS
        <4>1. Len(path) > Len(path)
          BY <1>3, <3>1, BelowChild
        <4> QED
          BY <4>1, PathTyped
      <3> QED
        BY <3>2, <3>3
    <2> QED
      BY <2>1, <2>2
  <1>6. \A i \in DOMAIN more : /\ more[i].kind \in {"type", "push"}
                               /\ more[i].kind = "push" => more[i].path = path
    BY <1>1
  <1> QED
    BY <1>4, <1>5, <1>6 DEF more

\* ... as many pushes as further arguments,
LEMMA FurtherPushes ==
    ASSUME NEW path \in Path, NEW n \in Nat, NEW count \in Nat
    PROVE  /\ Pushes(Further(path, n, count), path) = count
           /\ \A q : q # path => Pushes(Further(path, n, count), q) = 0
  <1> DEFINE more == Further(path, n, count)
             turns == [i \in 1..(2 * count) |-> IF i % 2 = 1 THEN 0 ELSE 1]
  <1>1. /\ more \in Seq(Goals) /\ DOMAIN more = 1..(2 * count)
        /\ \A i \in 1..(2 * count) :
              /\ i % 2 = 1 => more[i].kind = "type"
              /\ i % 2 # 1 => more[i].kind = "push" /\ more[i].path = path
    <2>1. /\ more \in Seq(Goals) /\ DOMAIN more = 1..(2 * count)
          /\ ByTurns(more, path, n, count)
      BY FurtherTyped
    <2> HIDE DEF more
    <2> QED
      BY <2>1 DEF ByTurns
  <1> HIDE DEF more
  <1>2. \A i \in 1..(2 * count) : more[i] \in Goals
    BY <1>1
  <1>3. \A i \in 1..(2 * count) :
           PushAt(path)[more[i]] = IF i % 2 = 1 THEN 0 ELSE 1
    BY <1>1, <1>2, PushAtTyped
  <1>4. [i \in DOMAIN more |-> PushAt(path)[more[i]]] = turns
    BY <1>1, <1>3
  <1>5. Pushes(more, path) = count
    BY <1>4, TotalOfTurns DEF Pushes, Weigh
  <1>6. ASSUME NEW q, q # path PROVE Pushes(more, q) = 0
    <2>1. \A i \in DOMAIN more : PushAt(q)[more[i]] = 0
      BY <1>1, <1>2, <1>6, PushAtTyped
    <2> QED
      BY <1>1, <2>1, PushAtTyped, WeighNothing DEF Pushes
  <1> QED
    BY <1>5, <1>6 DEF more

\* ... and they are written after the first n.
LEMMA FurtherWrites ==
    ASSUME NEW d, IsData(d), NEW path \in Path, NEW n \in Nat, NEW count \in Nat,
           Size(d, path, "arguments") = n + count
    PROVE  EmitAll(Further(path, n, count), d)
              = JoinedFrom(Arguments(d, path), n, n + count)
  <1> DEFINE more == Further(path, n, count)
             s == [i \in DOMAIN more |-> Emit(more[i], d)]
             a == Arguments(d, path)
             m == n + count
  <1>0. m \in Nat /\ n <= m /\ m - n = count /\ Size(d, path, "arguments") = m
    OBVIOUS
  <1>1. Sequences(a, m, Items)
    BY <1>0, WriteInstructionTyped
  <1>1a. \A i \in 1..m : a[i] = WriteVariableData(d, Child(path, "arguments", i))
    BY <1>0 DEF Arguments
  <1> HIDE DEF a
  <1>2. PICK t : Follow(t, count, a, n) /\ JoinedFrom(a, n, m) = Joined(t, count)
    <2> HIDE DEF m
    <2>1. \E t : Follow(t, m - n, a, n) /\ JoinedFrom(a, n, m) = Joined(t, m - n)
      BY <1>0, JoinedFromIs
    <2> QED
      BY <1>0, <2>1
  <1>3. ASSUME NEW j \in 1..count
        PROVE  s[2 * j - 1] = t[j] /\ s[2 * j] = << >>
    <2> DEFINE i == 2 * j - 1
               k == 2 * j
    <2>1. /\ i \in 1..(2 * count) /\ k \in 1..(2 * count)
          /\ i % 2 = 1 /\ k % 2 # 1 /\ n + (i + 1) \div 2 = n + j
          /\ n + j \in Nat /\ n + j \in 1..m
      OBVIOUS
    <2> HIDE DEF i, k, m
    <2>2. /\ DOMAIN more = 1..(2 * count)
          /\ more[i] = ReadArgument(path, n + j)
          /\ more[k] = Goal("push", path, "arguments", 0)
      <3>1. DOMAIN more = 1..(2 * count) /\ ByTurns(more, path, n, count)
        BY FurtherTyped
      <3> HIDE DEF more
      <3> QED
        BY <2>1, <3>1 DEF ByTurns
    <2> HIDE DEF more
    <2>3. s[i] = a[n + j]
      BY <1>1a, <2>1, <2>2, ReadArgumentIs
    <2>4. s[k] = << >>
      <3>1. Emit(Goal("push", path, "arguments", 0), d) = << >>
        BY EmitIs
      <3> QED
        BY <2>1, <2>2, <3>1
    <2>5. t[j] = a[n + j]
      BY <1>2 DEF Follow
    <2> QED
      BY <2>3, <2>4, <2>5 DEF i, k
  <1>4. Len(more) = 2 * count
    BY FurtherTyped
  <1> HIDE DEF s, m, more
  <1>5. Sequences(t, count, Items) /\ Turns(s, t, count)
    <2>1. Turns(s, t, count)
      BY <1>3 DEF Turns
    <2>2. \A j \in 1..count : n + j \in 1..m
      BY <1>0
    <2> QED
      BY <1>1, <1>2, <2>1, <2>2 DEF Sequences, Follow
  <1>6. Joined(s, 2 * count) = JoinedFrom(a, n, m)
    BY <1>2, <1>5, JoinedTurns
  <1> QED
    BY <1>4, <1>6 DEF EmitAll, s, more, m, a

\* Only one goal reads the arguments of an instruction into locals.
LEMMA NoLocalsAfter ==
    ASSUME TypeOK, FreshInv, agenda # << >>, head.kind = "callArguments"
    PROVE  ~InLocals(Tail(agenda), head.path)
  <1> SUFFICES ASSUME InLocals(Tail(agenda), head.path) PROVE FALSE
    OBVIOUS
  <1>1. Tail(agenda) \in Seq(Goals) /\ head.path \in Path
    BY HeadTyped DEF Goals
  <1>2. PICK i \in DOMAIN Tail(agenda) :
           /\ Tail(agenda)[i].kind = "callArguments"
           /\ Tail(agenda)[i].path = head.path
    BY DEF InLocals
  <1>3. /\ 1 \in DOMAIN agenda /\ agenda[1] = head
        /\ i + 1 \in DOMAIN agenda /\ Tail(agenda)[i] = agenda[i + 1]
        /\ i + 1 # 1
    BY <1>1, HeadIs DEF TypeOK
  <1>4. Disjoint(head, agenda[i + 1])
    BY <1>3 DEF FreshInv, Apart
  <1>5. Owns(head, "len", head.path, "arguments")
    BY DEF Owns, Tags
  <1>6. Owns(agenda[i + 1], "len", head.path, "arguments")
    BY <1>2, <1>3 DEF Owns, Tags
  <1> QED
    BY <1>1, <1>4, <1>5, <1>6 DEF Disjoint

\* ... ReadCallArguments: the further arguments are written after those read
\* with the opcode.
LEMMA ReadCallArgumentsFollows ==
    ASSUME TypeOK, FreshInv, ReadCallArguments
    PROVE  \E more : Follows(<< >>, more)
  <1> DEFINE n == head.n
             path == head.path
             count == Signed(Value(parsed, CallArgument, "int32"))
             more == Further(path, n, count)
             key == <<path, "arguments">>
  <1>1. /\ agenda # << >> /\ head.kind = "callArguments"
        /\ parsed' = WithSize(parsed, path, "arguments", n)
        /\ agenda' = more \o Tail(agenda)
        /\ ~CallArgumentCountIsInvalid
    BY Zenon DEF ReadCallArguments, At, Further
  <1>2. /\ head \in Goals /\ path \in Path /\ n \in Nat /\ count \in Nat
        /\ 1 \in DOMAIN agenda /\ agenda[1] = head
    <2>1. head \in Goals
      BY <1>1, HeadTyped
    <2> QED
      BY <1>1, <2>1, CountTyped, HeadIs DEF Goals, TypeOK
  <1> HIDE DEF count
  <1>3. /\ more \in Seq(Goals) /\ Apart(more)
        /\ \A i \in DOMAIN more :
              /\ Inside(more[i], head)
              /\ \A map, f : ~Owns(more[i], map, path, f)
              /\ more[i].kind \in {"type", "push"}
              /\ more[i].kind = "push" => more[i].path = path
    BY <1>1, <1>2, FurtherTyped, FurtherApart
  <1>4. /\ Pushes(more, path) = count
        /\ \A q : q # path => Pushes(more, q) = 0
    BY <1>2, FurtherPushes
  <1>5. agenda' = Then(more, Tail(agenda))
    BY <1>1 DEF Then
  <1>6. Grows({}, {key}) /\ parsed'.len[key] = n
    BY <1>1, GrowsBySize
  <1>7. ASSUME NEW d, IsData(d), Size(d, path, "arguments") = n + count
        PROVE  EmitAll(more, d) = Emit(head, d)
    <2>1. EmitAll(more, d) = JoinedFrom(Arguments(d, path), n, n + count)
      BY <1>2, <1>7, FurtherWrites
    <2>2. Emit(head, d) = JoinedFrom(Arguments(d, path), n, Size(d, path, "arguments"))
      BY <1>1 DEF Emit
    <2> QED
      BY <1>7, <2>1, <2>2
  <1> HIDE DEF more, n, path
  <1>8. /\ DOMAIN parsed'.val = DOMAIN parsed.val
        /\ DOMAIN parsed'.len = DOMAIN parsed.len \cup {key}
        /\ key \in DOMAIN parsed'.len
    BY <1>6 DEF Grows, Extends
  <1>9. /\ \A q : InLocals(agenda, q) <=> q = path \/ InLocals(Tail(agenda), q)
        /\ \A q : InLocals(agenda', q) <=> InLocals(Tail(agenda), q)
        /\ ~InLocals(Tail(agenda), path)
    <2>1. \A q : ~InLocals(more, q)
      BY <1>3 DEF InLocals
    <2> QED
      BY <1>1, <1>3, <1>5, <2>1, InLocalsStep, NoLocalsAfter DEF path
  <1>10. FreshInv'
    <2>1. ASSUME NEW map, NEW f, NEW q \in Path, Settled(parsed', agenda', map, q, f)
          PROVE  \/ Settled(parsed, agenda, map, q, f)
                 \/ /\ Owns(head, map, q, f)
                    /\ \A i \in DOMAIN more : ~Owns(more[i], map, q, f)
      <3>1. CASE map = "val"
        BY <1>8, <2>1, <3>1 DEF Settled
      <3>2. CASE map = "len" /\ <<q, f>> = key
        <4>1. q = path /\ f = "arguments" /\ head.path = path
          BY <3>2 DEF path
        <4>2. Owns(head, "len", path, "arguments")
          BY <1>1, <4>1 DEF Owns, Tags
        <4> QED
          BY <1>3, <3>2, <4>1, <4>2
      <3>3. CASE map = "len" /\ <<q, f>> # key
        <4>1. /\ <<q, f>> \in DOMAIN parsed.len /\ f # "objects"
              /\ f = "arguments" => ~InLocals(agenda', q) /\ q # path
          BY <1>8, <2>1, <3>3 DEF Settled
        <4>2. f = "arguments" => ~InLocals(agenda, q)
          BY <1>9, <4>1
        <4> QED
          BY <3>3, <4>1, <4>2 DEF Settled
      <3> QED
        BY <2>1, <3>1, <3>2, <3>3 DEF Settled
    <2>2. /\ DOMAIN parsed.val \subseteq DOMAIN parsed'.val
          /\ DOMAIN parsed.len \subseteq DOMAIN parsed'.len
      BY <1>8
    <2>3. Settled(parsed', agenda', "len", path, "arguments")
      BY <1>8, <1>9 DEF Settled
    <2>4. \A i \in DOMAIN more :
             /\ more[i].kind \notin {"payload", "loop", "callArguments"}
             /\ more[i].kind = "push" =>
                   Settled(parsed', agenda', "len", more[i].path, "arguments")
      BY <1>3, <2>3
    <2> QED
      BY <1>1, <1>3, <1>5, <2>1, <2>2, <2>4, FreshStep
  <1>11. /\ \A q : Pushes(Tail(agenda), q) \in Nat
         /\ \A q : Pushes(agenda, q) = Pushes(Tail(agenda), q)
         /\ \A q : Pushes(agenda', q) = Pushes(more, q) + Pushes(Tail(agenda), q)
         /\ Pushes(Tail(agenda), path) = 0
    <2>1. \A q : /\ Pushes(agenda, q) = PushAt(q)[head] + Pushes(Tail(agenda), q)
                 /\ Pushes(agenda', q) = Pushes(more, q) + Pushes(Tail(agenda), q)
                 /\ Pushes(Tail(agenda), q) \in Nat
      BY <1>1, <1>3, <1>5, PushesStep
    <2>2. \A q : PushAt(q)[head] = 0
      BY <1>1, <1>2, PushAtTyped
    <2>3. Pushes(Tail(agenda), path) = 0
      BY <1>1, NoPushesYet DEF path
    <2>4. ASSUME NEW q PROVE Pushes(agenda, q) = Pushes(Tail(agenda), q)
      BY <2>1, <2>2
    <2> QED
      BY <2>1, <2>3, <2>4
  <1>12. ASSUME NEW d, Good(d), Fit(d, parsed', agenda')
         PROVE  Size(d, path, "arguments") = n + count
    <2>1. Size(d, path, "arguments") = parsed'.len[<<path, "arguments">>] + Pushes(agenda', path)
      BY <1>2, <1>8, <1>9, <1>12 DEF Fit, Argued, path
    <2>2. Pushes(agenda', path) = count
      <3>1. Pushes(agenda', path) = count + 0
        BY <1>4, <1>11
      <3> QED
        BY <1>2, <3>1
    <2> QED
      BY <1>6, <2>1, <2>2
  <1>13. ASSUME NEW d, Good(d), Fit(d, parsed', agenda')
         PROVE  Fit(d, parsed, agenda)
    <2>1. ASSUME NEW i \in DOMAIN agenda, agenda[i].kind = "callArguments"
          PROVE  agenda[i].n <= Size(d, agenda[i].path, "arguments")
      <3>1. CASE agenda[i] = head
        <4>1. n <= Size(d, path, "arguments")
          <5>1. head.n \in Nat
            BY <1>2 DEF n
          <5> QED
            BY <1>2, <1>12, <1>13, <5>1 DEF n
        <4> QED
          BY <3>1, <4>1 DEF n, path
      <3>2. CASE agenda[i] # head
        <4>1. PICK j \in DOMAIN agenda' : agenda'[j] = agenda[i]
          BY <1>1, <1>3, <1>5, <3>2, AgendaParts
        <4> QED
          BY <1>13, <2>1, <4>1 DEF Fit, Argued
      <3> QED
        BY <3>1, <3>2
    <2>2. Known(d, parsed)
      BY <1>6, <1>8, <1>13 DEF Fit, Known, Grows, Extends
    <2>3. ASSUME NEW q \in Path, <<q, "arguments">> \in DOMAIN parsed.len,
                 ~InLocals(agenda, q)
          PROVE  Size(d, q, "arguments") = parsed.len[<<q, "arguments">>] + Pushes(agenda, q)
      <3>1. q # path /\ ~InLocals(agenda', q)
        BY <1>9, <2>3
      <3>2. /\ <<q, "arguments">> \in DOMAIN parsed'.len
            /\ parsed'.len[<<q, "arguments">>] = parsed.len[<<q, "arguments">>]
        BY <1>6, <2>3, <3>1 DEF Grows, Extends
      <3>3. Size(d, q, "arguments") = parsed'.len[<<q, "arguments">>] + Pushes(agenda', q)
        BY <1>13, <3>1, <3>2 DEF Fit, Argued
      <3>4. Pushes(agenda', q) = Pushes(agenda, q)
        <4>1. Pushes(agenda', q) = 0 + Pushes(Tail(agenda), q)
          BY <1>4, <1>11, <3>1
        <4> QED
          BY <1>11, <4>1
      <3> QED
        BY <3>2, <3>3, <3>4
    <2> QED
      BY <2>1, <2>2, <2>3 DEF Fit, Argued
  <1>14. ASSUME NEW d, Good(d), Fit(d, parsed', agenda')
         PROVE  Emit(head, d) = Then(<< >>, EmitAll(more, d))
    <2>1. EmitAll(more, d) = Emit(head, d)
      BY <1>7, <1>12, <1>14 DEF Good
    <2>2. EmitAll(more, d) \in Seq(Items)
      BY <1>3, <1>14, EmitAllTyped DEF Good
    <2> QED
      BY <2>1, <2>2, ThenNone
  <1> QED
    BY <1>3, <1>5, <1>10, <1>13, <1>14 DEF Follows

\* All that Load reads before any count is known sets nothing twice.
LEMMA LoadSplit ==
    Split(ReadHeader \o ReadStringTable \o ReadDebugInfo \o ReadUserFlags \o ReadObjects)
  <1> DEFINE body == ReadHeader \o ReadStringTable \o ReadDebugInfo \o ReadUserFlags
                        \o ReadObjects
             t(i) == Tags(body[i][1], body[i][2])
  <1>1. /\ DOMAIN body = 1..12
        /\ body[1] = <<"magic", "magic">>
        /\ body[2] = <<"u8", "majorVersion">>
        /\ body[3] = <<"u8", "minorVersion">>
        /\ body[4] = <<"u16", "gameId">>
        /\ body[5] = <<"u64", "compilationTime">>
        /\ body[6] = <<"string", "sourceFileName">>
        /\ body[7] = <<"string", "username">>
        /\ body[8] = <<"string", "machinename">>
        /\ body[9] = <<"count", "count">>
        /\ body[10] = <<"debugFlag", "hasDebugInfo">>
        /\ body[11] = <<"count", "userFlagCount">>
        /\ body[12] = <<"count", "objectCount">>
    BY DEF ReadHeader, ReadStringTable, ReadDebugInfo, ReadUserFlags, ReadObjects
  <1> HIDE DEF body
  <1>2. /\ t(1) = {<<"val", "magic">>} /\ t(2) = {<<"val", "majorVersion">>}
        /\ t(3) = {<<"val", "minorVersion">>} /\ t(4) = {<<"val", "gameId">>}
        /\ t(5) = {<<"val", "compilationTime">>}
        /\ t(6) = {<<"val", "sourceFileName">>, <<"len", "sourceFileName">>}
        /\ t(7) = {<<"val", "username">>, <<"len", "username">>}
        /\ t(8) = {<<"val", "machinename">>, <<"len", "machinename">>}
        /\ t(9) = {<<"val", "count">>, <<"len", "strings">>, <<"part", "strings">>}
        /\ t(10) = {<<"val", "hasDebugInfo">>, <<"val", "modificationTime">>,
                    <<"val", "functionCount">>, <<"len", "functions">>,
                    <<"part", "functions">>}
        /\ t(11) = {<<"val", "userFlagCount">>, <<"len", "userFlags">>,
                    <<"part", "userFlags">>}
        /\ t(12) = {<<"val", "objectCount">>, <<"len", "objects">>,
                    <<"part", "objects">>}
    <2>1. Tags("debugFlag", "hasDebugInfo") =
             {<<"val", "hasDebugInfo">>, <<"val", "modificationTime">>,
              <<"val", "functionCount">>, <<"len", "functions">>, <<"part", "functions">>}
      BY DEF Tags
    <2> QED
      BY <1>1, <2>1, TagsOfReads, VectorNamesAre, VectorDomain
  <1>3. DOMAIN body = 1..12
    BY <1>1
  <1> HIDE DEF t
  <1>4. \A i, j \in 1..12 : i # j => t(i) \cap t(j) = {}
    <2> SUFFICES ASSUME NEW i \in 1..12, NEW j \in 1..12, i # j, NEW x \in t(i), x \in t(j)
                 PROVE  FALSE
      OBVIOUS
    <2>1. /\ \/ i = 1 \/ i = 2 \/ i = 3 \/ i = 4 \/ i = 5 \/ i = 6 \/ i = 7
             \/ i = 8 \/ i = 9 \/ i = 10 \/ i = 11 \/ i = 12
          /\ \/ j = 1 \/ j = 2 \/ j = 3 \/ j = 4 \/ j = 5 \/ j = 6 \/ j = 7
             \/ j = 8 \/ j = 9 \/ j = 10 \/ j = 11 \/ j = 12
      OBVIOUS
    <2> QED
      BY <1>2, <2>1
  <1> QED
    BY <1>3, <1>4 DEF Split, t, body

\* A new Load has set nothing yet, and will set nothing twice.
LEMMA LoadIsFresh ==
    Apart(Load) /\ Fresh(EmptyData, Load) /\ Prepared(EmptyData, Load)
  <1> DEFINE body == ReadHeader \o ReadStringTable \o ReadDebugInfo \o ReadUserFlags
                        \o ReadObjects
  <1>1. body \in Seq(Reading) /\ Split(body) /\ << >> \in Path
    BY LoadTyped, LoadSplit DEF Path
  <1>2. Load = Reads(body, << >>)
    BY DEF Load
  <1> HIDE DEF body
  <1>3. Apart(Load) /\ \A i \in DOMAIN Load : Load[i].kind \in DOMAIN Width
    BY <1>1, <1>2, TableGoals
  <1>4. \A map, f : \A q \in Path : ~Settled(EmptyData, Load, map, q, f)
    BY DEF Settled, EmptyData
  <1> QED
    BY <1>3, <1>4, ReadKinds DEF Fresh, Prepared

\* Nothing to do, nothing to set.
LEMMA NothingIsFresh ==
    ASSUME NEW p
    PROVE  Apart(<< >>) /\ Fresh(p, << >>) /\ Prepared(p, << >>)
  BY DEF Apart, Fresh, Prepared

-----------------------------------------------------------------------------
(* Where in the file what was read stands *)

\* f has the offsets of the first n of the writes s.
Offs(f, s, n) ==
    f = [i \in 1..(n + 1) |-> IF i = 1 THEN 0 ELSE f[i - 1] + s[i - 1].width]

\* Each sequence has the offsets of its elements.
LEMMA OffsetsExist ==
    ASSUME NEW s, NEW n \in Nat
    PROVE  \E f : Offs(f, s, n)
  <1> DEFINE w == [i \in 1..n |-> s[i].width]
  <1>1. PICK g : Adds(g, w, n)
    BY AddsExists
  <1> DEFINE f == [i \in 1..(n + 1) |-> g[i - 1]]
  <1>2. ASSUME NEW i \in 1..(n + 1)
        PROVE  f[i] = IF i = 1 THEN 0 ELSE f[i - 1] + s[i - 1].width
    <2>1. i - 1 \in 0..n /\ (i # 1 => i - 1 \in 1..n /\ i - 1 \in 1..(n + 1))
      OBVIOUS
    <2>2. g[i - 1] = IF i - 1 = 0 THEN 0 ELSE g[(i - 1) - 1] + w[i - 1]
      <3> DEFINE k == i - 1
      <3>1. k \in 0..n
        BY <2>1
      <3> HIDE DEF k
      <3>2. g[k] = IF k = 0 THEN 0 ELSE g[k - 1] + w[k]
        BY <1>1, <3>1 DEF Adds
      <3> QED
        BY <3>2 DEF k
    <2>3. i # 1 => w[i - 1] = s[i - 1].width
      BY <2>1
    <2> HIDE DEF w
    <2>4. f[i] = g[i - 1] /\ (i # 1 => f[i - 1] = g[(i - 1) - 1])
      BY <2>1
    <2> HIDE DEF f
    <2>5. i = 1 <=> i - 1 = 0
      OBVIOUS
    <2> QED
      BY <2>2, <2>3, <2>4, <2>5
  <1>3. f = [i \in 1..(n + 1) |-> IF i = 1 THEN 0 ELSE f[i - 1] + s[i - 1].width]
    <2>1. DOMAIN f = 1..(n + 1) /\ f = [i \in 1..(n + 1) |-> f[i]]
      OBVIOUS
    <2> HIDE DEF f
    <2> QED
      BY <1>2, <2>1
  <1> QED
    BY <1>3 DEF Offs

\* There are no other,
LEMMA OffsetsUnique ==
    ASSUME NEW s, NEW n \in Nat, NEW f, NEW g, Offs(f, s, n), Offs(g, s, n)
    PROVE  f = g
  <1> DEFINE P == {k \in Nat : k + 1 <= n + 1 => f[k + 1] = g[k + 1]}
  <1>1. 0 \in P
    BY DEF Offs
  <1>2. ASSUME NEW k \in Nat, k \in P
        PROVE  k + 1 \in P
    <2> SUFFICES ASSUME (k + 1) + 1 <= n + 1 PROVE f[(k + 1) + 1] = g[(k + 1) + 1]
      OBVIOUS
    <2> DEFINE i == (k + 1) + 1
    <2>1. i \in 1..(n + 1) /\ i # 1 /\ i - 1 = k + 1 /\ k + 1 <= n + 1
      OBVIOUS
    <2> HIDE DEF i
    <2>2. f[i] = f[i - 1] + s[i - 1].width /\ g[i] = g[i - 1] + s[i - 1].width
      BY <2>1 DEF Offs
    <2>3. f[k + 1] = g[k + 1]
      BY <1>2, <2>1
    <2> QED
      BY <2>1, <2>2, <2>3 DEF i
  <1> HIDE DEF P
  <1>3. \A k \in Nat : k \in P
    BY <1>1, <1>2, NatSetInduction
  <1>4. ASSUME NEW i \in 1..(n + 1) PROVE f[i] = g[i]
    <2> DEFINE k == i - 1
    <2>1. k \in Nat /\ k + 1 = i /\ i <= n + 1
      OBVIOUS
    <2> HIDE DEF k
    <2>2. f[k + 1] = g[k + 1]
      BY <1>3, <2>1 DEF P
    <2> QED
      BY <2>1, <2>2
  <1>5. /\ DOMAIN f = 1..(n + 1) /\ DOMAIN g = 1..(n + 1)
        /\ f = [i \in 1..(n + 1) |-> f[i]] /\ g = [i \in 1..(n + 1) |-> g[i]]
    BY DEF Offs
  <1> QED
    BY <1>4, <1>5

\* ... and Offsets are those.
LEMMA OffsetsAre ==
    ASSUME NEW s, Len(s) \in Nat, NEW f, Offs(f, s, Len(s))
    PROVE  Offsets(s) = f
  <1> DEFINE g == CHOOSE g : Offs(g, s, Len(s))
  <1>1. Offs(g, s, Len(s))
    BY Zenon
  <1>2. Offsets(s) = g
    BY Zenon DEF Offsets, Offs
  <1> QED
    BY <1>1, <1>2, OffsetsUnique

\* The items of hist were read one after the other, at the offsets f, up to
\* position p, and are what is known of the file there.
Trail(hist, f, p, at) ==
    /\ hist \in Seq(Items) /\ Offs(f, hist, Len(hist))
    /\ p \in Nat /\ f[Len(hist) + 1] = p
    /\ \A i \in DOMAIN hist :
          /\ f[i] \in Nat /\ f[i] < p
          /\ f[i] \in DOMAIN at /\ at[f[i]] = hist[i]

\* `new` is what is known of the file after e was read at p.
Reveals(new, at, p, e) ==
    /\ DOMAIN new = DOMAIN at \cup {p} /\ new[p] = e
    /\ \A o \in DOMAIN at : o # p => new[o] = at[o]

\* Nothing was read yet.
LEMMA TrailStart ==
    ASSUME NEW at
    PROVE  \E f : Trail(<< >>, f, 0, at)
  <1>1. PICK f : Offs(f, << >>, 0)
    BY OffsetsExist
  <1>2. f[0 + 1] = 0
    BY <1>1 DEF Offs
  <1> QED
    BY <1>1, <1>2, NothingTyped DEF Trail

\* One more item is read.
LEMMA TrailGrows ==
    ASSUME NEW hist, NEW f, NEW p, NEW at, Trail(hist, f, p, at),
           NEW e \in Items, e.width > 0, NEW new, Reveals(new, at, p, e)
    PROVE  \E g : Trail(Then(hist, <<e>>), g, p + e.width, new)
  <1> DEFINE n == Len(hist)
             longer == Then(hist, <<e>>)
  <1>1. /\ hist \in Seq(Items) /\ n \in Nat /\ DOMAIN hist = 1..n
        /\ p \in Nat /\ e.width \in Nat /\ <<e>> \in Seq(Items)
    BY DEF Trail, Items
  <1>2. /\ longer \in Seq(Items) /\ Len(longer) = n + 1 /\ DOMAIN longer = 1..(n + 1)
        /\ longer[n + 1] = e
        /\ \A i \in 1..n : longer[i] = hist[i]
    BY <1>1 DEF Then
  <1> HIDE DEF longer, n
  <1>3. PICK g : Offs(g, longer, n + 1)
    <2> DEFINE m == n + 1
    <2>1. m \in Nat
      BY <1>1
    <2> HIDE DEF m
    <2>2. \E g : Offs(g, longer, m)
      BY <2>1, OffsetsExist
    <2> QED
      BY <2>2 DEF m
  <1> DEFINE h == [i \in 1..(n + 1) |-> g[i]]
  <1>4. Offs(h, hist, n)
    <2>1. ASSUME NEW i \in 1..(n + 1)
          PROVE  h[i] = IF i = 1 THEN 0 ELSE h[i - 1] + hist[i - 1].width
      <3>1. /\ i \in 1..((n + 1) + 1)
            /\ i # 1 => i - 1 \in 1..n /\ i - 1 \in 1..(n + 1)
        BY <1>1
      <3>2. g[i] = IF i = 1 THEN 0 ELSE g[i - 1] + longer[i - 1].width
        BY <1>3, <3>1 DEF Offs
      <3>3. i # 1 => longer[i - 1] = hist[i - 1]
        BY <1>2, <3>1
      <3>4. h[i] = g[i] /\ (i # 1 => h[i - 1] = g[i - 1])
        BY <3>1
      <3> HIDE DEF h
      <3> QED
        BY <3>2, <3>3, <3>4
    <2>2. DOMAIN h = 1..(n + 1) /\ h = [i \in 1..(n + 1) |-> h[i]]
      OBVIOUS
    <2> HIDE DEF h
    <2>3. h = [i \in 1..(n + 1) |-> IF i = 1 THEN 0 ELSE h[i - 1] + hist[i - 1].width]
      BY <2>1, <2>2
    <2> QED
      BY <2>3 DEF Offs
  <1>5. h = f
    BY <1>1, <1>4, OffsetsUnique DEF Trail, n
  <1>6. \A i \in 1..(n + 1) : g[i] = f[i]
    <2> SUFFICES ASSUME NEW i \in 1..(n + 1) PROVE g[i] = f[i]
      OBVIOUS
    <2>1. h[i] = g[i]
      OBVIOUS
    <2> QED
      BY <1>5, <2>1
  <1> HIDE DEF h
  <1>7. f[n + 1] = p
    BY DEF Trail, n
  <1>8. g[(n + 1) + 1] = p + e.width
    <2> DEFINE i == (n + 1) + 1
    <2>1. i \in 1..((n + 1) + 1) /\ i # 1 /\ i - 1 = n + 1 /\ n + 1 \in 1..(n + 1)
      BY <1>1
    <2> HIDE DEF i
    <2>2. g[i] = g[i - 1] + longer[i - 1].width
      BY <1>3, <2>1 DEF Offs
    <2> QED
      BY <1>2, <1>6, <1>7, <2>1, <2>2 DEF i
  <1>9. ASSUME NEW i \in 1..(n + 1)
        PROVE  /\ g[i] \in Nat /\ g[i] < p + e.width
               /\ g[i] \in DOMAIN new /\ new[g[i]] = longer[i]
    <2>1. CASE i = n + 1
      <3>1. g[i] = p /\ longer[i] = e
        BY <1>2, <1>6, <1>7, <2>1
      <3>2. p \in DOMAIN new
        BY DEF Reveals
      <3>3. new[p] = e
        BY DEF Reveals
      <3> QED
        BY <1>1, <3>1, <3>2, <3>3
    <2>2. CASE i # n + 1
      <3>1. i \in 1..n
        BY <1>1, <2>2
      <3>2. /\ f[i] \in Nat /\ f[i] < p
            /\ f[i] \in DOMAIN at /\ at[f[i]] = hist[i]
        BY <1>1, <3>1 DEF Trail
      <3>3. g[i] = f[i] /\ longer[i] = hist[i] /\ f[i] # p /\ f[i] < p + e.width
        BY <1>1, <1>2, <1>6, <3>1, <3>2
      <3>4. f[i] \in DOMAIN new /\ new[f[i]] = at[f[i]]
        BY <3>2, <3>3 DEF Reveals
      <3> QED
        BY <3>2, <3>3, <3>4
    <2> QED
      BY <2>1, <2>2
  <1>10. p + e.width \in Nat
    BY <1>1
  <1>11. Trail(longer, g, p + e.width, new)
    BY <1>2, <1>3, <1>8, <1>9, <1>10 DEF Trail
  <1> QED
    BY <1>11 DEF longer

\* What was read one after the other is what the file reproduces.
LEMMA TrailReproduces ==
    ASSUME NEW hist, NEW f, NEW p, NEW at, Trail(hist, f, p, at)
    PROVE  Reproduces(hist, p, at)
  <1>1. Len(hist) \in Nat
    BY DEF Trail
  <1>2. Offsets(hist) = f
    BY <1>1, OffsetsAre DEF Trail
  <1> QED
    BY <1>2 DEF Reproduces, Trail

-----------------------------------------------------------------------------
(* The inductive invariant *)

\* Whatever the data will be that comes of what is parsed and of the agenda,
\* Save will write hist for it, and then what the agenda stands for.
Predicts(hist, p, goals) ==
    \A d : Good(d) /\ Fit(d, p, goals) => Writes(d) = Then(hist, EmitAll(goals, d))

\* While a file is parsed, this is so of all that was read of it.
Explained ==
    load = "parsing" =>
        \E hist, f : Trail(hist, f, position, disk.at) /\ Predicts(hist, parsed, agenda)

\* The inductive invariant of the round trip, in its four parts.
CodecInv == VectorInv /\ FreshInv /\ Narrow /\ Explained

\* What a step reads, and what it leaves to do, is what its goal stood for.
LEMMA FollowsPredicts ==
    ASSUME TypeOK, agenda # << >>, NEW hist \in Seq(Items), NEW e \in Seq(Items),
           NEW more, Follows(e, more), Predicts(hist, parsed, agenda)
    PROVE  Predicts(Then(hist, e), parsed', agenda')
  <1> SUFFICES ASSUME NEW d, Good(d), Fit(d, parsed', agenda')
               PROVE  Writes(d) = Then(Then(hist, e), EmitAll(agenda', d))
    BY DEF Predicts
  <1> DEFINE a == EmitAll(more, d)
             b == EmitAll(Tail(agenda), d)
  <1>1. /\ IsData(d) /\ more \in Seq(Goals) /\ agenda' = Then(more, Tail(agenda))
        /\ Fit(d, parsed, agenda) /\ Emit(head, d) = Then(e, a)
        /\ Tail(agenda) \in Seq(Goals)
    BY HeadTyped DEF Follows, Good
  <1>2. Writes(d) = Then(hist, EmitAll(agenda, d))
    BY <1>1 DEF Predicts
  <1>3. EmitAll(agenda, d) = Then(Then(e, a), b)
    BY <1>1, EmitHead
  <1>4. EmitAll(agenda', d) = Then(a, b)
    BY <1>1, EmitThen
  <1>5. a \in Seq(Items) /\ b \in Seq(Items)
    BY <1>1, EmitAllTyped
  <1> HIDE DEF a, b
  <1>6. /\ Then(a, b) \in Seq(Items)
        /\ Then(Then(e, a), b) = Then(e, Then(a, b))
    BY <1>5, ThenTyped, ThenAssociative
  <1>7. Then(hist, Then(e, Then(a, b))) = Then(Then(hist, e), Then(a, b))
    BY <1>6, ThenAssociative
  <1> QED
    BY <1>2, <1>3, <1>4, <1>6, <1>7

\* Every step of the parser does one of the two.
LEMMA ReadStepFollows ==
    ASSUME TypeOK, FreshInv, Narrow, ObjectsComeLast, ReadStep
    PROVE  /\ agenda # << >> /\ load = "parsing"
           /\ \/ /\ head.kind \in DOMAIN Width \cup {"payload"}
                 /\ \E v, more : Takes(v) /\ Follows(<<Item(HeadWidth, v)>>, more)
              \/ /\ disk' = disk /\ position' = position
                 /\ \E more : Follows(<< >>, more)
  <1>1. CASE ReadScalar
    <2>1. head.kind \in DOMAIN Width \cup {"payload"} /\ agenda # << >> /\ load = "parsing"
      BY <1>1 DEF ReadScalar, At, Width
    <2> QED
      BY <1>1, <2>1, ReadScalarFollows
  <1>2. CASE ReadLength
    <2>1. head.kind \in DOMAIN Width \cup {"payload"} /\ agenda # << >> /\ load = "parsing"
      BY <1>2 DEF ReadLength, At, Width
    <2> QED
      BY <1>2, <2>1, ReadLengthFollows
  <1>3. CASE ReadCount
    <2>1. head.kind \in DOMAIN Width \cup {"payload"} /\ agenda # << >> /\ load = "parsing"
      BY <1>3 DEF ReadCount, At, Width
    <2> QED
      BY <1>3, <2>1, ReadCountFollows
  <1>4. CASE NextElement
    <2>1. agenda # << >> /\ load = "parsing" /\ disk' = disk /\ position' = position
      BY <1>4 DEF NextElement, At, reader
    <2> QED
      BY <1>4, <2>1, NextElementFollows
  <1>5. CASE ReadDebugFlag
    <2>1. head.kind \in DOMAIN Width \cup {"payload"} /\ agenda # << >> /\ load = "parsing"
      BY <1>5 DEF ReadDebugFlag, At, Width
    <2> QED
      BY <1>5, <2>1, ReadDebugFlagFollows
  <1>6. CASE ReadObjectSize
    <2>1. head.kind \in DOMAIN Width \cup {"payload"} /\ agenda # << >> /\ load = "parsing"
      BY <1>6 DEF ReadObjectSize, At, Width
    <2> QED
      BY <1>6, <2>1, ReadObjectSizeFollows
  <1>7. CASE ObjectEnds
    <2>1. agenda # << >> /\ load = "parsing" /\ disk' = disk /\ position' = position
      BY <1>7 DEF ObjectEnds, At, reader
    <2> QED
      BY <1>7, <2>1, ObjectEndsFollows
  <1>8. CASE ReadPropertyFlags
    <2>1. head.kind \in DOMAIN Width \cup {"payload"} /\ agenda # << >> /\ load = "parsing"
      BY <1>8 DEF ReadPropertyFlags, At, Width
    <2> QED
      BY <1>8, <2>1, ReadPropertyFlagsFollows
  <1>9. CASE ReadType
    <2>1. head.kind \in DOMAIN Width \cup {"payload"} /\ agenda # << >> /\ load = "parsing"
      BY <1>9 DEF ReadType, At, Width
    <2> QED
      BY <1>9, <2>1, ReadTypeFollows
  <1>10. CASE ReadOpcode
    <2>1. head.kind \in DOMAIN Width \cup {"payload"} /\ agenda # << >> /\ load = "parsing"
      BY <1>10 DEF ReadOpcode, At, Width
    <2> QED
      BY <1>10, <2>1, ReadOpcodeFollows
  <1>11. CASE ReadCallArguments
    <2>1. agenda # << >> /\ load = "parsing" /\ disk' = disk /\ position' = position
      BY <1>11 DEF ReadCallArguments, At
    <2> QED
      BY <1>11, <2>1, ReadCallArgumentsFollows
  <1>12. CASE PushArgument
    <2>1. agenda # << >> /\ load = "parsing" /\ disk' = disk /\ position' = position
      BY <1>12 DEF PushArgument, At, reader
    <2> QED
      BY <1>12, <2>1, PushArgumentFollows
  <1> QED
    BY <1>1, <1>2, <1>3, <1>4, <1>5, <1>6, <1>7, <1>8, <1>9, <1>10, <1>11, <1>12
       DEF ReadStep

\* What a read reveals of the file.
LEMMA PutReveals ==
    ASSUME NEW f, NEW k, NEW e
    PROVE  Reveals(Put(f, k, e), f, k, e)
  BY DEF Reveals, Put

\* No read of two bytes finds too much in them.
LEMMA RevealNarrow ==
    ASSUME TypeOK, FreshInv, Narrow, agenda # << >>,
           head.kind \in DOMAIN Width \cup {"payload"},
           NEW v \in Seen(HeadWidth),
           disk' = [disk EXCEPT !.at = Put(@, position, Item(HeadWidth, v))]
    PROVE  /\ Narrow'
           /\ Reveals(disk'.at, disk.at, position, Item(HeadWidth, v))
  <1>1. disk'.at = Put(disk.at, position, Item(HeadWidth, v))
    BY DEF TypeOK
  <1>2. Reveals(disk'.at, disk.at, position, Item(HeadWidth, v))
    BY <1>1, PutReveals
  <1>3. /\ Item(HeadWidth, v).width = HeadWidth /\ Item(HeadWidth, v).value = v
        /\ ~Item(HeadWidth, v).text => head.kind # "payload"
    BY DEF Item, Number, Text
  <1>4. ASSUME HeadWidth = 2, head.kind # "payload"
        PROVE  v <= MaxStringLength
    <2>1. head.kind \in DOMAIN Width /\ Width[head.kind] = 2
      BY <1>4, HeadWidthIs
    <2>2. head.kind \in {"u16", "string", "count"}
      BY <2>1 DEF Width
    <2>3. v \in Seen(2)
      BY <1>4
    <2> QED
      BY <2>2, <2>3, SeenNarrow
  <1>5. Narrow'
    <2> SUFFICES ASSUME NEW o \in DOMAIN disk'.at,
                        disk'.at[o].width = 2, ~disk'.at[o].text
                 PROVE  disk'.at[o].value <= MaxStringLength
      BY DEF Narrow
    <2>1. CASE o = position
      BY <1>2, <1>3, <1>4, <2>1 DEF Reveals
    <2>2. CASE o # position
      <3>1. o \in DOMAIN disk.at /\ disk'.at[o] = disk.at[o]
        BY <1>2, <2>2 DEF Reveals
      <3> QED
        BY <3>1 DEF Narrow
    <2> QED
      BY <2>1, <2>2
  <1> QED
    BY <1>2, <1>5

\* A step of the parser keeps the history of what was read.
LEMMA ReadStepCodec ==
    ASSUME CodecInv, ReadStep
    PROVE  FreshInv' /\ Narrow' /\ Explained'
  <1>1. /\ TypeOK /\ FreshInv /\ Narrow /\ ObjectsComeLast
    BY DEF CodecInv, VectorInv, ParseInv
  <1>2. /\ agenda # << >> /\ load = "parsing"
        /\ \/ /\ head.kind \in DOMAIN Width \cup {"payload"}
              /\ \E v, more : Takes(v) /\ Follows(<<Item(HeadWidth, v)>>, more)
           \/ /\ disk' = disk /\ position' = position
              /\ \E more : Follows(<< >>, more)
    BY <1>1, ReadStepFollows
  <1>3. PICK hist, f : Trail(hist, f, position, disk.at) /\ Predicts(hist, parsed, agenda)
    BY <1>2 DEF CodecInv, Explained
  <1>4. hist \in Seq(Items)
    BY <1>3 DEF Trail
  <1>5. CASE /\ head.kind \in DOMAIN Width \cup {"payload"}
             /\ \E v, more : Takes(v) /\ Follows(<<Item(HeadWidth, v)>>, more)
    <2>1. PICK v, more : Takes(v) /\ Follows(<<Item(HeadWidth, v)>>, more)
      BY <1>5
    <2> DEFINE e == Item(HeadWidth, v)
    <2>2. /\ e \in Items /\ e.width = HeadWidth /\ HeadWidth \in Nat /\ HeadWidth > 0
          /\ <<e>> \in Seq(Items)
      <3>1. HeadWidth \in Nat \ {0} /\ v \in Nat
        BY <2>1 DEF Takes
      <3> HIDE DEF HeadWidth
      <3>2. e \in Items /\ e.width = HeadWidth
        BY <3>1 DEF Item, Number, Text, Items
      <3> QED
        BY <3>1, <3>2
    <2>3. /\ v \in Seen(HeadWidth)
          /\ disk' = [disk EXCEPT !.at = Put(@, position, e)]
          /\ position' = position + HeadWidth
      BY <2>1 DEF Takes, Consume
    <2>4. Narrow' /\ Reveals(disk'.at, disk.at, position, e)
      BY <1>1, <1>2, <1>5, <2>3, RevealNarrow
    <2> HIDE DEF e
    <2>5. PICK g : Trail(Then(hist, <<e>>), g, position', disk'.at)
      BY <1>3, <2>2, <2>3, <2>4, TrailGrows
    <2>6. Predicts(Then(hist, <<e>>), parsed', agenda')
      BY <1>1, <1>2, <1>3, <1>4, <2>1, <2>2, FollowsPredicts DEF e
    <2>7. FreshInv'
      BY <2>1 DEF Follows
    <2> QED
      BY <2>4, <2>5, <2>6, <2>7 DEF Explained
  <1>6. CASE /\ disk' = disk /\ position' = position
             /\ \E more : Follows(<< >>, more)
    <2>1. PICK more : Follows(<< >>, more)
      BY <1>6
    <2>2. Then(hist, << >>) = hist
      BY <1>4, ThenNone
    <2>3. Predicts(hist, parsed', agenda')
      BY <1>1, <1>2, <1>3, <1>4, <2>1, <2>2, NothingTyped, FollowsPredicts
    <2>4. FreshInv' /\ Narrow'
      BY <1>1, <1>6, <2>1 DEF Follows, Narrow
    <2>5. Explained'
      BY <1>3, <1>6, <2>3 DEF Explained
    <2> QED
      BY <2>4, <2>5
  <1> QED
    BY <1>2, <1>5, <1>6

\* A file that is opened: nothing was read, and all is to be written.
LEMMA OpenFileCodec ==
    ASSUME CodecInv, OpenFile
    PROVE  FreshInv' /\ Narrow' /\ Explained'
  <1>1. /\ position' = 0 /\ agenda' = Load /\ parsed' = EmptyData /\ disk' = disk
    BY DEF OpenFile
  <1>2. FreshInv'
    BY <1>1, LoadIsFresh DEF FreshInv
  <1>3. Narrow'
    BY <1>1 DEF CodecInv, Narrow
  <1>4. PICK f : Trail(<< >>, f, position', disk'.at)
    BY <1>1, TrailStart
  <1>5. Predicts(<< >>, parsed', agenda')
    <2> SUFFICES ASSUME NEW d, Good(d)
                 PROVE  Writes(d) = Then(<< >>, EmitAll(agenda', d))
      BY DEF Predicts
    <2>1. EmitAll(agenda', d) = Writes(d) /\ Writes(d) \in Seq(Items)
      BY <1>1, EmitLoad, WritesTyped DEF Good
    <2> QED
      BY <2>1, ThenNone
  <1>6. Explained'
    BY <1>4, <1>5 DEF Explained
  <1> QED
    BY <1>2, <1>3, <1>6

\* When Load is not running there is nothing to say but of the file.
LEMMA RestCodec ==
    ASSUME agenda' = << >>, load' # "parsing"
    PROVE  FreshInv' /\ Explained'
  BY NothingIsFresh DEF FreshInv, Explained

\* However a call of Load ends,
LEMMA EndCodec ==
    ASSUME CodecInv, Throw \/ Commit
    PROVE  FreshInv' /\ Narrow' /\ Explained'
  <1>1. agenda' = << >> /\ load' # "parsing"
    BY DEF Throw, Commit, ReadFails, ValueRefused, ObjectSizeMismatch, CallRefused, EndCall
  <1>2. CASE disk' = disk
    BY <1>1, <1>2, RestCodec DEF CodecInv, Narrow
  <1>3. CASE ValueRefused
    <2>1. /\ agenda # << >> /\ head.kind \in DOMAIN Width \cup {"payload"}
          /\ TypeOK /\ FreshInv /\ Narrow
      BY <1>3 DEF ValueRefused, At, CodecInv, VectorInv
    <2>2. PICK v \in Seen(HeadWidth) :
             disk' = [disk EXCEPT !.at = Put(@, position, Item(HeadWidth, v))]
      BY <1>3 DEF ValueRefused
    <2>3. Narrow'
      BY <2>1, <2>2, RevealNarrow
    <2> QED
      BY <1>1, <2>3, RestCodec
  <1> QED
    BY <1>2, <1>3 DEF Throw, Commit, ReadFails, ObjectSizeMismatch, CallRefused

\* ... and whatever happens between two calls.
LEMMA IdleCodec ==
    ASSUME CodecInv, PlaceFile \/ RefuseFile \/ UNCHANGED vars
    PROVE  FreshInv' /\ Narrow' /\ Explained'
  <1>1. CASE PlaceFile
    <2>1. /\ load # "parsing" /\ load' = load /\ agenda' = agenda
          /\ \E n : disk' = Unread(n)
      BY <1>1 DEF PlaceFile
    <2>2. agenda' = << >>
      BY <2>1 DEF CodecInv, VectorInv, ParseInv, NothingRuns
    <2>3. Narrow'
      BY <2>1 DEF Narrow, Unread
    <2> QED
      BY <2>1, <2>2, <2>3, RestCodec
  <1>2. CASE RefuseFile
    <2>1. load # "parsing" /\ load' # "parsing" /\ agenda' = agenda /\ disk' = disk
      BY <1>2 DEF RefuseFile
    <2>2. agenda' = << >>
      BY <2>1 DEF CodecInv, VectorInv, ParseInv, NothingRuns
    <2> QED
      BY <2>1, <2>2, RestCodec DEF CodecInv, Narrow
  <1>3. CASE UNCHANGED vars
    BY <1>3 DEF vars, CodecInv, FreshInv, Narrow, Explained
  <1> QED
    BY <1>1, <1>2, <1>3

\* The invariant holds at first,
LEMMA InitCodec == Init => CodecInv
  <1> SUFFICES ASSUME Init PROVE CodecInv
    OBVIOUS
  <1>1. VectorInv
    BY InitVectors
  <1>2. agenda = << >> /\ load = "idle" /\ \E n : disk = Unread(n)
    BY DEF Init, NoCall
  <1>3. FreshInv
    BY <1>2, NothingIsFresh DEF FreshInv
  <1>4. Narrow /\ Explained
    BY <1>2 DEF Narrow, Unread, Explained
  <1> QED
    BY <1>1, <1>3, <1>4 DEF CodecInv

\* ... and every step keeps it.
LEMMA NextCodec == CodecInv /\ [Next]_vars => CodecInv'
  <1> SUFFICES ASSUME CodecInv, [Next]_vars PROVE CodecInv'
    OBVIOUS
  <1>1. VectorInv'
    BY NextVectors DEF CodecInv
  <1>2. FreshInv' /\ Narrow' /\ Explained'
    BY ReadStepCodec, OpenFileCodec, EndCodec, IdleCodec DEF Next, LoadStep
  <1> QED
    BY <1>1, <1>2 DEF CodecInv

\* While a file is parsed, what was read of it is what Save will write first
\* for the data that comes of it, whatever is still to be read.
THEOREM WhatIsReadWillBeWritten == Spec => []CodecInv
  <1>1. Init => CodecInv
    BY InitCodec
  <1>2. CodecInv /\ [Next]_vars => CodecInv'
    BY NextCodec
  <1> QED
    BY <1>1, <1>2, PTL DEF Spec

\* When nothing is left to read, the counts of what was parsed are right.
LEMMA ParsedIsGood ==
    ASSUME VectorInv, agenda = << >>
    PROVE  Good(parsed) /\ Fit(parsed, parsed, agenda)
  <1>1. IsData(parsed) /\ Matched(parsed) /\ ObjectsCounted
    BY DEF VectorInv, TypeOK, ParseInv
  <1>2. ASSUME NEW c \in DOMAIN Vector, NEW path, HasCount(path, c)
        PROVE  Value(parsed, path, c) = Size(parsed, path, Vector[c].name)
    <2>1. CASE c # "objectCount"
      BY <1>1, <1>2, <2>1, MatchedEverywhere
    <2>2. CASE c = "objectCount"
      <3>1. path = << >> /\ Vector[c].name = "objects"
        BY <1>2, <2>2, VectorNamesAre DEF HasCount
      <3>2. Value(parsed, << >>, "objectCount") - Size(parsed, << >>, "objects") = 0
        BY <1>1 DEF ObjectsCounted, ObjectsToCome
      <3>3. /\ Value(parsed, << >>, "objectCount") \in Nat
            /\ Size(parsed, << >>, "objects") \in Nat
        BY <1>1, ValueTyped
      <3> QED
        BY <2>2, <3>1, <3>2, <3>3
    <2> QED
      BY <2>1, <2>2
  <1>3. Good(parsed)
    BY <1>1, <1>2 DEF Good, Even
  <1>4. Known(parsed, parsed)
    BY DEF Known, Value, Size
  <1>5. Argued(parsed, parsed, agenda)
    <2>1. ASSUME NEW q \in Path, <<q, "arguments">> \in DOMAIN parsed.len
          PROVE  Size(parsed, q, "arguments")
                    = parsed.len[<<q, "arguments">>] + Pushes(agenda, q)
      <3>1. Pushes(agenda, q) = 0
        <4>1. << >> \in Seq(Goals) /\ DOMAIN << >> = {}
          OBVIOUS
        <4> QED
          BY <4>1, NoPushesAmong
      <3>2. Size(parsed, q, "arguments") = parsed.len[<<q, "arguments">>]
        BY <2>1 DEF Size
      <3>3. Size(parsed, q, "arguments") \in Nat
        BY <1>1, ValueTyped
      <3> QED
        BY <3>1, <3>2, <3>3
    <2> QED
      BY <2>1 DEF Argued
  <1> QED
    BY <1>3, <1>4, <1>5 DEF Fit

\* A Load that succeeds leaves data for which Save writes what was read.
LEMMA CommitReproduces ==
    ASSUME CodecInv, Commit
    PROVE  Reproduces(Writes(inst'), position, disk.at)
  <1>1. load = "parsing" /\ agenda = << >> /\ inst' = parsed /\ VectorInv
    BY DEF Commit, CodecInv
  <1>2. PICK hist, f : Trail(hist, f, position, disk.at) /\ Predicts(hist, parsed, agenda)
    BY <1>1 DEF CodecInv, Explained
  <1>3. Writes(parsed) = Then(hist, EmitAll(<< >>, parsed))
    BY <1>1, <1>2, ParsedIsGood DEF Predicts
  <1>4. EmitAll(<< >>, parsed) = << >>
    BY <1>1, EmitFew DEF VectorInv, TypeOK
  <1>5. Writes(parsed) = hist
    <2>1. hist \in Seq(Items)
      BY <1>2 DEF Trail
    <2> QED
      BY <1>3, <1>4, <2>1, ThenNone
  <1> QED
    BY <1>1, <1>2, <1>5, TrailReproduces

\* For every file, every limit and every number of calls: what a Load that
\* succeeds has read is, byte for byte and at the same offsets, what Save
\* writes for the instance it leaves.
THEOREM SaveAlwaysWritesWhatLoadRead == Spec => SaveWritesWhatLoadRead
  <1>1. CodecInv /\ [Next]_vars =>
           (load = "parsing" /\ load' = "loaded" =>
               Reproduces(Writes(inst'), position, disk.at))
    <2> SUFFICES ASSUME CodecInv, [Next]_vars, load = "parsing", load' = "loaded"
                 PROVE  Reproduces(Writes(inst'), position, disk.at)
      OBVIOUS
    <2>1. Commit
      BY DEF Next, LoadStep, ReadStep, Throw, ReadFails, ValueRefused,
         ObjectSizeMismatch, CallRefused, EndCall, PlaceFile, OpenFile, RefuseFile,
         vars, ReadScalar, ReadLength, ReadCount, NextElement, ReadDebugFlag,
         ReadObjectSize, ObjectEnds, ReadPropertyFlags, ReadType, ReadOpcode,
         ReadCallArguments, PushArgument, Consume, At
    <2> QED
      BY <2>1, CommitReproduces
  <1>2. Init => CodecInv
    BY InitCodec
  <1>3. CodecInv /\ [Next]_vars => CodecInv'
    BY NextCodec
  <1> QED
    BY <1>1, <1>2, <1>3, PTL DEF Spec, SaveWritesWhatLoadRead

-----------------------------------------------------------------------------
(* The sizes of the objects *)

\* The widths of writes, added up.
Weight(s) == Total([i \in DOMAIN s |-> s[i].width])

\* The widths of items are numbers.
LEMMA WidthsTyped ==
    ASSUME NEW s \in Seq(Items)
    PROVE  /\ [i \in DOMAIN s |-> s[i].width] \in Seq(Nat)
           /\ Len([i \in DOMAIN s |-> s[i].width]) = Len(s) /\ Len(s) \in Nat
  <1>1. \A i \in DOMAIN s : s[i].width \in Nat
    <2> SUFFICES ASSUME NEW i \in DOMAIN s PROVE s[i].width \in Nat
      OBVIOUS
    <2>1. s[i] \in Items
      OBVIOUS
    <2> QED
      BY <2>1 DEF Items
  <1>2. DOMAIN s = 1..Len(s) /\ Len(s) \in Nat
    OBVIOUS
  <1> QED
    BY <1>1, <1>2

\* Bytes is the sum of the widths,
LEMMA BytesIs ==
    ASSUME NEW s \in Seq(Items)
    PROVE  Bytes(s) = Weight(s) /\ Bytes(s) \in Nat
  <1> DEFINE w == [i \in DOMAIN s |-> s[i].width]
             n == Len(s)
  <1>1. w \in Seq(Nat) /\ Len(w) = n /\ n \in Nat /\ DOMAIN s = 1..n
    BY WidthsTyped
  <1>2. PICK g : Adds(g, w, n) /\ Total(w) = g[n]
    <2>1. \E g : Adds(g, w, Len(w)) /\ Total(w) = g[Len(w)]
      <3> HIDE DEF w
      <3> QED
        BY <1>1, TotalIs
    <2> QED
      BY <1>1, <2>1
  <1>3. PICK f : Offs(f, s, n)
    BY <1>1, OffsetsExist
  <1>4. Offsets(s) = f
    BY <1>1, <1>3, OffsetsAre
  <1>5. \A i \in 1..n : w[i] = s[i].width
    BY <1>1
  <1>6. Total(w) \in Nat
    <2> HIDE DEF w
    <2> QED
      BY <1>1, TotalTyped
  <1> HIDE DEF w, n
  <1> DEFINE P == {k \in Nat : k <= n => f[k + 1] = g[k]}
  <1>7. 0 \in P
    <2>1. 1 \in 1..(n + 1) /\ 0 \in 0..n /\ 0 + 1 = 1
      BY <1>1
    <2>2. f[1] = 0
      BY <1>3, <2>1 DEF Offs
    <2>3. g[0] = 0
      BY <1>2, <2>1 DEF Adds
    <2> QED
      BY <2>1, <2>2, <2>3
  <1>8. ASSUME NEW k \in Nat, k \in P
        PROVE  k + 1 \in P
    <2> SUFFICES ASSUME k + 1 <= n PROVE f[(k + 1) + 1] = g[k + 1]
      BY <1>8
    <2> DEFINE j == k + 1
               i == j + 1
    <2>1. /\ i \in 1..(n + 1) /\ i # 1 /\ i - 1 = j /\ j \in 1..n
          /\ j \in 0..n /\ j # 0 /\ j - 1 = k /\ f[k + 1] = g[k]
      BY <1>1, <1>8
    <2> HIDE DEF i
    <2>2. f[i] = f[i - 1] + s[i - 1].width
      BY <1>3, <2>1 DEF Offs
    <2>3. f[j] = g[k]
      BY <2>1
    <2> HIDE DEF j
    <2>4. g[j] = g[j - 1] + w[j]
      BY <1>2, <2>1 DEF Adds
    <2>5. w[j] = s[j].width
      BY <1>5, <2>1
    <2>6. f[i] = g[j]
      BY <2>1, <2>2, <2>3, <2>4, <2>5
    <2> QED
      BY <2>6 DEF i, j
  <1> HIDE DEF P
  <1>9. n \in P
    BY <1>1, <1>7, <1>8, NatSetInduction
  <1>10. f[n + 1] = g[n]
    BY <1>1, <1>9 DEF P
  <1>11. Bytes(s) = f[n + 1]
    BY <1>4 DEF Bytes, n
  <1> QED
    BY <1>2, <1>6, <1>10, <1>11 DEF Weight, w

\* ... so that of no writes it is 0, of one its width,
LEMMA BytesOfFew ==
    /\ Bytes(<< >>) = 0
    /\ \A e \in Items : Bytes(<<e>>) = e.width
  <1>1. [i \in DOMAIN << >> |-> << >>[i].width] = << >>
    OBVIOUS
  <1>2. Bytes(<< >>) = 0
    BY <1>1, NothingTyped, BytesIs, TotalOfFew DEF Weight
  <1>3. ASSUME NEW e \in Items PROVE Bytes(<<e>>) = e.width
    <2>1. <<e>> \in Seq(Items) /\ e.width \in Nat
      BY DEF Items
    <2>2. [i \in DOMAIN <<e>> |-> <<e>>[i].width] = <<e.width>>
      OBVIOUS
    <2> QED
      BY <2>1, <2>2, BytesIs, TotalOfFew DEF Weight
  <1> QED
    BY <1>2, <1>3

\* ... and of writes after others the sum.
LEMMA BytesThen ==
    ASSUME NEW a \in Seq(Items), NEW b \in Seq(Items)
    PROVE  Bytes(Then(a, b)) = Bytes(a) + Bytes(b)
  <1> DEFINE c == Then(a, b)
             s == [i \in DOMAIN a |-> a[i].width]
             t == [i \in DOMAIN b |-> b[i].width]
             u == [i \in DOMAIN c |-> c[i].width]
  <1>1. s \in Seq(Nat) /\ t \in Seq(Nat)
    BY WidthsTyped
  <1>2. /\ c \in Seq(Items) /\ DOMAIN c = 1..(Len(a) + Len(b))
        /\ Len(a) \in Nat /\ Len(b) \in Nat
        /\ \A i \in 1..Len(a) : c[i] = a[i] /\ i \in DOMAIN a
        /\ \A i \in (Len(a) + 1)..(Len(a) + Len(b)) :
              c[i] = b[i - Len(a)] /\ i - Len(a) \in DOMAIN b
    BY ThenAt
  <1>3. u \in Seq(Nat)
    <2> HIDE DEF c
    <2> QED
      BY <1>2, WidthsTyped
  <1>4. /\ Len(s) = Len(a) /\ \A i \in 1..Len(a) : s[i] = a[i].width
        /\ Len(t) = Len(b) /\ \A i \in 1..Len(b) : t[i] = b[i].width
    <2>1. /\ Len(s) = Len(a) /\ DOMAIN a = 1..Len(a)
          /\ Len(t) = Len(b) /\ DOMAIN b = 1..Len(b)
      BY WidthsTyped
    <2> QED
      BY <2>1
  <1>5. DOMAIN u = DOMAIN c /\ \A i \in DOMAIN c : u[i] = c[i].width
    OBVIOUS
  <1>6. u = Then(s, t)
    <2> HIDE DEF c, s, t, u
    <2>1. DOMAIN u = 1..(Len(a) + Len(b)) /\ \A i \in DOMAIN u : u[i] = c[i].width
      BY <1>2, <1>5
    <2>2. /\ Then(s, t) \in Seq(Nat) /\ DOMAIN Then(s, t) = 1..(Len(a) + Len(b))
          /\ \A i \in 1..Len(a) : Then(s, t)[i] = s[i]
          /\ \A i \in (Len(a) + 1)..(Len(a) + Len(b)) : Then(s, t)[i] = t[i - Len(a)]
      <3> DEFINE N == Nat
      <3>1. s \in Seq(N) /\ t \in Seq(N)
        BY <1>1
      <3> HIDE DEF N
      <3>2. /\ Then(s, t) \in Seq(N) /\ DOMAIN Then(s, t) = 1..(Len(s) + Len(t))
            /\ \A i \in 1..Len(s) : Then(s, t)[i] = s[i]
            /\ \A i \in (Len(s) + 1)..(Len(s) + Len(t)) : Then(s, t)[i] = t[i - Len(s)]
        BY <3>1, ThenAt
      <3>3. Len(s) = Len(a) /\ Len(t) = Len(b)
        BY <1>4
      <3> QED
        BY <3>2, <3>3 DEF N
    <2>3. ASSUME NEW i \in 1..(Len(a) + Len(b)) PROVE u[i] = Then(s, t)[i]
      <3>1. u[i] = c[i].width
        BY <2>1
      <3>2. CASE i \in 1..Len(a)
        BY <1>2, <1>4, <2>2, <3>1, <3>2
      <3>3. CASE i \in (Len(a) + 1)..(Len(a) + Len(b))
        <4>1. c[i] = b[i - Len(a)] /\ Then(s, t)[i] = t[i - Len(a)]
          BY <1>2, <2>2, <3>3
        <4>2. i - Len(a) \in 1..Len(b)
          BY <1>2, <3>3
        <4> QED
          BY <1>4, <3>1, <4>1, <4>2
      <3> QED
        BY <1>2, <3>2, <3>3
    <2>4. Len(u) = Len(a) + Len(b) /\ Len(Then(s, t)) = Len(a) + Len(b)
      BY <1>2, <1>3, <2>1, <2>2
    <2> QED
      BY <1>3, <2>2, <2>3, <2>4, SeqEqual
  <1>7. Total(u) = Total(s) + Total(t)
    <2> HIDE DEF s, t, u
    <2> QED
      BY <1>1, <1>6, TotalOfConcat DEF Then
  <1>8. Bytes(c) = Total(u) /\ Bytes(a) = Total(s) /\ Bytes(b) = Total(t)
    <2>1. Bytes(c) = Weight(c)
      <3> HIDE DEF c
      <3> QED
        BY <1>2, BytesIs
    <2>2. Bytes(a) = Weight(a) /\ Bytes(b) = Weight(b)
      BY BytesIs
    <2> QED
      BY <2>1, <2>2 DEF Weight
  <1> QED
    BY <1>7, <1>8

\* A step of the parser appends an object when it reads its size, and else
\* only the count of the objects changes how many there are.
LEMMA ObjectsKept ==
    ASSUME VectorInv, ReadStep
    PROVE  \/ /\ ReadCount /\ head.field = "objectCount"
              /\ Size(parsed', << >>, "objects") = 0
           \/ Size(parsed', << >>, "objects")
                 = Size(parsed, << >>, "objects") + Appended
  <1> DEFINE objects(d) == Size(d, << >>, "objects")
             set(v) == SetValue(parsed, head.path, head.field, v)
  <1>1. /\ TypeOK /\ IsData(parsed) /\ agenda # << >> /\ head \in Goals
        /\ head.kind \in DOMAIN Width \cup {"payload"} => <<head.kind, head.field>> \in Members
    <2>1. TypeOK /\ IsData(parsed) /\ agenda # << >>
      BY DEF VectorInv, TypeOK, ReadStep, ReadScalar, ReadLength, ReadCount, NextElement,
         ReadDebugFlag, ReadObjectSize, ObjectEnds, ReadPropertyFlags, ReadType,
         ReadOpcode, ReadCallArguments, PushArgument, At
    <2>2. head \in Goals
      BY <2>1, HeadTyped
    <2> QED
      BY <2>1, <2>2 DEF Goals
  <1>2. objects(parsed) \in Nat
    BY <1>1, ValueTyped
  <1>3. \A v : /\ WithValue(v) = set(v) /\ objects(set(v)) = objects(parsed)
               /\ v \in Nat => IsData(set(v))
    <2> SUFFICES ASSUME NEW v
                 PROVE  /\ WithValue(v) = set(v) /\ objects(set(v)) = objects(parsed)
                        /\ v \in Nat => IsData(set(v))
      OBVIOUS
    <2>1. WithValue(v) = set(v)
      BY DEF WithValue, SetValue
    <2>2. Size(set(v), << >>, "objects") = Size(parsed, << >>, "objects")
      BY <1>1, ValueOfPut
    <2>3. v \in Nat => IsData(set(v))
      BY <1>1, SetTyped
    <2> QED
      BY <2>1, <2>2, <2>3
  <1>4. \A d, f, n, p : IsData(d) /\ f # "objects" =>
                           objects(WithSize(d, p, f, n)) = objects(d)
    BY ValueOfPut
  <1>5. head.kind \in DOMAIN Width \cup {"payload"} =>
           \A w \in Nat : \A v \in Seen(w) : v \in Nat
    BY <1>1, SeenTyped
  <1> HIDE DEF objects, set
  <1>6. CASE ReadScalar \/ ReadDebugFlag \/ ReadPropertyFlags \/ ReadType
    <2>1. head.kind # "objectSize" /\ \E v : parsed' = WithValue(v)
      BY <1>6 DEF ReadScalar, ReadDebugFlag, ReadPropertyFlags, ReadType, At
    <2>2. objects(parsed') = objects(parsed)
      BY <1>3, <2>1
    <2> QED
      BY <1>2, <2>1, <2>2 DEF Appended, objects
  <1>7. CASE ReadLength
    <2>1. /\ head.kind = "string" /\ head.kind \in DOMAIN Width
          /\ \E v : parsed' = WithSize(parsed, head.path, head.field, v)
      BY <1>7 DEF ReadLength, At, Width
    <2>2. head.field # "objects"
      BY <1>1, <2>1, MemberNames, ObjectsVector
    <2>3. objects(parsed') = objects(parsed)
      BY <1>1, <1>4, <2>1, <2>2
    <2> QED
      BY <1>2, <2>1, <2>3 DEF Appended, objects
  <1>8. CASE ReadCount
    <2>1. /\ head.kind = "count" /\ head.kind \in DOMAIN Width
          /\ \E v \in Seen(2) :
                parsed' = WithSize(WithValue(v), head.path, Vector[head.field].name,
                                   IF head.field = "objectCount" THEN 0 ELSE v)
      BY <1>8 DEF ReadCount, At, Width
    <2>2. PICK v \in Nat :
             parsed' = WithSize(set(v), head.path, Vector[head.field].name,
                                IF head.field = "objectCount" THEN 0 ELSE v)
      BY <1>3, <1>5, <2>1
    <2>3. head.field \in DOMAIN Vector
      BY <1>1, <2>1, MemberNames
    <2>4. CASE head.field = "objectCount"
      <3>1. head.path = << >>
        BY <1>1, <2>4, HeadOfOthers DEF VectorInv, ParseInv, ObjectsComeLast
      <3>2. parsed' = WithSize(set(v), << >>, "objects", 0)
        BY <2>2, <2>4, <3>1, ObjectsVector
      <3>3. objects(parsed') = 0
        BY <1>3, <3>2, ValueOfPut DEF objects
      <3> QED
        BY <1>8, <2>4, <3>3 DEF objects
    <2>5. CASE head.field # "objectCount"
      <3>1. Vector[head.field].name # "objects"
        BY <2>3, <2>5, ObjectsVector
      <3>2. objects(parsed') = objects(parsed)
        BY <1>3, <1>4, <2>2, <3>1
      <3> QED
        BY <1>2, <2>1, <3>2 DEF Appended, objects
    <2> QED
      BY <2>4, <2>5
  <1>9. CASE ReadObjectSize
    <2>1. /\ head.kind = "objectSize" /\ head.kind \in DOMAIN Width
          /\ \E v \in Seen(4) :
                parsed' = WithSize(WithValue(v), << >>, "objects",
                                   Size(parsed, << >>, "objects") + 1)
      BY <1>9 DEF ReadObjectSize, At, Width
    <2>2. PICK v \in Nat :
             parsed' = WithSize(set(v), << >>, "objects", objects(parsed) + 1)
      BY <1>3, <1>5, <2>1 DEF objects
    <2>3. objects(parsed') = objects(parsed) + 1
      BY <1>3, <2>2, ValueOfPut DEF objects
    <2> QED
      BY <2>1, <2>3 DEF Appended, objects
  <1>10. CASE ReadOpcode
    <2>1. /\ head.kind = "opcode" /\ head.kind \in DOMAIN Width
          /\ \E v \in Seen(1) : \E n :
                parsed' = WithSize(WithValue(v), head.path, "arguments", n)
      BY <1>10 DEF ReadOpcode, At, Width
    <2>2. PICK v, n :
             v \in Nat /\ parsed' = WithSize(set(v), head.path, "arguments", n)
      BY <1>3, <1>5, <2>1
    <2>3. objects(parsed') = objects(parsed)
      BY <1>3, <1>4, <2>2
    <2> QED
      BY <1>2, <2>1, <2>3 DEF Appended, objects
  <1>11. CASE ReadCallArguments \/ PushArgument
    <2>1. /\ head.kind # "objectSize"
          /\ \E n : parsed' = WithSize(parsed, head.path, "arguments", n)
      BY <1>11 DEF ReadCallArguments, PushArgument, At
    <2>2. objects(parsed') = objects(parsed)
      BY <1>1, <1>4, <2>1
    <2> QED
      BY <1>2, <2>1, <2>2 DEF Appended, objects
  <1>12. CASE NextElement \/ ObjectEnds
    <2>1. head.kind # "objectSize" /\ parsed' = parsed
      BY <1>12 DEF NextElement, ObjectEnds, At
    <2> QED
      BY <1>2, <2>1 DEF Appended, objects
  <1> QED
    BY <1>6, <1>7, <1>8, <1>9, <1>10, <1>11, <1>12 DEF ReadStep

\* The size at hand is that of the next object.
Announces ==
    \A i \in DOMAIN agenda : agenda[i].kind = "objectSize" =>
        agenda[i].path = Child(<< >>, "objects", Size(parsed, << >>, "objects") + 1)

\* Before the objects, no step announces another object.
LEMMA NoneAnnounced ==
    ASSUME VectorInv, VectorInv', agenda # << >>, head.field # "objectCount",
           NEW more \in Seq(Goals), agenda' = Then(more, Tail(agenda)),
           Size(parsed', << >>, "objects") = Size(parsed, << >>, "objects") + Appended
    PROVE  \A i \in DOMAIN more : more[i].kind # "objectSize"
  <1> DEFINE n == Len(agenda)
             m == Len(more)
             rest == Tail(agenda)
             objects == Size(parsed, << >>, "objects")
  <1>1. /\ TypeOK /\ ObjectsComeLast /\ ObjectsCounted
        /\ TypeOK' /\ ObjectsComeLast' /\ ObjectsCounted'
    BY DEF VectorInv, ParseInv
  <1>2. /\ n \in Nat /\ n >= 2 /\ head = agenda[1]
        /\ Len(rest) = n - 1 /\ \A i \in 1..(n - 1) : rest[i] = agenda[i + 1]
        /\ head.kind = "objectSize" => n = 2
        /\ rest \in Seq(Goals)
    <2>1. rest \in Seq(Goals)
      BY <1>1, HeadTyped
    <2> QED
      BY <1>1, <2>1, HeadIs, HeadInner
  <1>3. objects \in Nat
    BY <1>1, ValueTyped DEF TypeOK
  <1>a. /\ Then(more, rest) \in Seq(Goals) /\ m \in Nat
        /\ DOMAIN Then(more, rest) = 1..(m + Len(rest))
        /\ \A i \in 1..m : Then(more, rest)[i] = more[i]
        /\ \A i \in (m + 1)..(m + Len(rest)) : Then(more, rest)[i] = rest[i - m]
    <2>1. rest \in Seq(Goals)
      BY <1>2
    <2> HIDE DEF rest, n, objects
    <2> QED
      BY <2>1, ThenAt
  <1>b. DOMAIN more = 1..m
    OBVIOUS
  <1> HIDE DEF n, m, rest, objects
  <1>4. /\ m \in Nat /\ Len(agenda') = m + (n - 1)
        /\ \A i \in 1..m : agenda'[i] = more[i]
        /\ \A i \in (m + 1)..(m + (n - 1)) : agenda'[i] = rest[i - m]
        /\ DOMAIN more = 1..m
    <2>1. Len(Then(more, rest)) = m + Len(rest)
      BY <1>2, <1>a
    <2>2. agenda' = Then(more, rest) /\ Len(rest) = n - 1
      BY <1>2 DEF rest
    <2> QED
      BY <1>2, <1>a, <1>b, <2>1, <2>2
  <1>5. agenda' # << >> /\ LastGoal' = LastGoal
    <2>1. Len(agenda') \in (m + 1)..(m + (n - 1)) /\ Len(agenda') - m = n - 1
          /\ n - 1 \in 1..(n - 1) /\ (n - 1) + 1 = n
      BY <1>2, <1>4
    <2>2. agenda'[Len(agenda')] = agenda[n]
      BY <1>2, <1>4, <2>1
    <2> QED
      BY <1>2, <1>4, <2>2 DEF LastGoal, n
  <1> SUFFICES ASSUME NEW i \in DOMAIN more, more[i].kind = "objectSize"
               PROVE  FALSE
    OBVIOUS
  <1>6. i \in 1..(Len(agenda') - 1) /\ agenda'[i].kind = "objectSize" /\ i <= m
    BY <1>2, <1>4
  <1>7. i = Len(agenda') - 1 /\ LastGoal'.kind = "loop"
    BY <1>1, <1>5, <1>6 DEF ObjectsComeLast
  <1>8. i = m /\ n = 2
    BY <1>2, <1>4, <1>6, <1>7
  <1>9. Announced' = 1
    BY <1>6 DEF Announced
  <1>10. LastGoal'.n = Size(parsed', << >>, "objects") + 1
    BY <1>1, <1>5, <1>7, <1>9 DEF ObjectsCounted
  <1>11. LastGoal.n = objects + Announced
    BY <1>1, <1>5, <1>7 DEF ObjectsCounted, objects
  <1>12. Announced = Appended
    <2>1. /\ \A k \in 1..(Len(agenda) - 1) : agenda[k] = head
          /\ 1 \in 1..(Len(agenda) - 1) /\ agenda[1] = head
      BY <1>2, <1>8 DEF n
    <2> QED
      BY <2>1 DEF Announced, Appended
  <1>13. Announced \in {0, 1}
    BY DEF Announced
  <1> QED
    BY <1>3, <1>5, <1>10, <1>11, <1>12, <1>13 DEF objects

\* The first of two sequences, one after the other, if there is a first.
LEMMA HeadOfThen ==
    ASSUME NEW S, NEW a \in Seq(S), a # << >>, NEW b \in Seq(S)
    PROVE  /\ Head(a) \in S /\ Tail(a) \in Seq(S) /\ <<Head(a)>> \in Seq(S)
           /\ Head(Then(a, b)) = Head(a)
           /\ a = Then(<<Head(a)>>, Tail(a))
  <1>1. /\ Head(a) \in S /\ Tail(a) \in Seq(S) /\ <<Head(a)>> \in Seq(S)
        /\ Head(a) = a[1] /\ Len(a) \in Nat /\ Len(a) >= 1
    OBVIOUS
  <1>2. Head(Then(a, b)) = Head(a)
    BY <1>1 DEF Then
  <1>3. a = Then(<<Head(a)>>, Tail(a))
    BY <1>1, SMTT(30) DEF Then
  <1> QED
    BY <1>1, <1>2, <1>3

\* What comes after the first of the two sequences.
LEMMA TailOfThen ==
    ASSUME NEW S, NEW a \in Seq(S), a # << >>, NEW b \in Seq(S)
    PROVE  Tail(Then(a, b)) = Then(Tail(a), b)
  <1>1. Tail(a) \in Seq(S) /\ Len(a) \in Nat /\ Len(a) >= 1
    OBVIOUS
  <1> QED
    BY <1>1, SMTT(30) DEF Then

\* The size of the object at p is right, whatever is still to be read.
SizedIn(p, d0, goals) ==
    \A d : Good(d) /\ Fit(d, d0, goals) =>
        Value(d, p, "size") = 4 + Bytes(WriteObjectData(d, p))

\* The object at p is being read: `done` of it since `start`, and the goals
\* `pre` are left of it before its size is checked.
UnderwayIn(p, d0, goals, pos) ==
    \E pre \in Seq(Goals), g \in Goals, post \in Seq(Goals),
       done \in Seq(Items), start \in Nat :
        /\ goals = Then(pre, Then(<<g>>, post)) /\ g.kind = "objectEnd"
        /\ pos = start + Bytes(done)
        /\ \A d : Good(d) /\ Fit(d, d0, goals) =>
              /\ Value(d, p, "size") + start = g.n + 4
              /\ WriteObjectData(d, p) = Then(done, EmitAll(pre, d))

\* What is to be shown of an object that is being read.
LEMMA UnderwayBy ==
    ASSUME NEW p, NEW d0, NEW goals, NEW pos,
           NEW pre \in Seq(Goals), NEW g \in Goals, NEW post \in Seq(Goals),
           NEW done \in Seq(Items), NEW start \in Nat,
           goals = Then(pre, Then(<<g>>, post)), g.kind = "objectEnd",
           pos = start + Bytes(done),
           \A d : Good(d) /\ Fit(d, d0, goals) =>
              /\ Value(d, p, "size") + start = g.n + 4
              /\ WriteObjectData(d, p) = Then(done, EmitAll(pre, d))
    PROVE  UnderwayIn(p, d0, goals, pos)
  BY Zenon DEF UnderwayIn

\* A size that was right, or is being checked, stays so with every step, and
\* is right once it was checked.
LEMMA SizesStep ==
    ASSUME TypeOK, TypeOK', agenda # << >>,
           NEW e \in Seq(Items), NEW more, Follows(e, more),
           position' = position + Bytes(e),
           head.kind = "objectEnd" => position = head.n,
           NEW p, SizedIn(p, parsed, agenda) \/ UnderwayIn(p, parsed, agenda, position)
    PROVE  SizedIn(p, parsed', agenda') \/ UnderwayIn(p, parsed', agenda', position')
  <1>1. \A d : Good(d) /\ Fit(d, parsed', agenda') =>
           /\ Fit(d, parsed, agenda)
           /\ Emit(head, d) = Then(e, EmitAll(more, d))
    BY DEF Follows
  <1>2. CASE SizedIn(p, parsed, agenda)
    BY <1>1, <1>2 DEF SizedIn
  <1>3. CASE UnderwayIn(p, parsed, agenda, position)
    <2>1. PICK pre \in Seq(Goals), g \in Goals, post \in Seq(Goals),
               done \in Seq(Items), start \in Nat :
             /\ agenda = Then(pre, Then(<<g>>, post)) /\ g.kind = "objectEnd"
             /\ position = start + Bytes(done)
             /\ \A d : Good(d) /\ Fit(d, parsed, agenda) =>
                   /\ Value(d, p, "size") + start = g.n + 4
                   /\ WriteObjectData(d, p) = Then(done, EmitAll(pre, d))
      BY <1>3 DEF UnderwayIn
    <2>2. /\ <<g>> \in Seq(Goals) /\ Then(<<g>>, post) \in Seq(Goals)
          /\ Bytes(done) \in Nat /\ Bytes(e) \in Nat
      <3>1. <<g>> \in Seq(Goals)
        OBVIOUS
      <3> QED
        BY <3>1, ThenTyped, BytesIs
    <2>3. CASE pre = << >>
      <3>1. agenda = Then(<<g>>, post)
        BY <2>1, <2>2, <2>3, ThenNone
      <3>2. head = g
        <4>1. <<g>> # << >> /\ Head(<<g>>) = g
          OBVIOUS
        <4> QED
          <5> DEFINE one == <<g>>
          <5>1. one \in Seq(Goals) /\ one # << >> /\ agenda = Then(one, post) /\ Head(one) = g
            BY <2>2, <3>1, <4>1
          <5> HIDE DEF one
          <5>2. Head(Then(one, post)) = Head(one)
            BY <5>1, HeadOfThen
          <5> QED
            BY <5>1, <5>2 DEF head
      <3>3. position = g.n
        BY <2>1, <3>2
      <3>4. ASSUME NEW d, Good(d), Fit(d, parsed', agenda')
            PROVE  Value(d, p, "size") = 4 + Bytes(WriteObjectData(d, p))
        <4>1. /\ Value(d, p, "size") + start = g.n + 4
              /\ WriteObjectData(d, p) = Then(done, EmitAll(pre, d))
          BY <1>1, <2>1, <3>4
        <4>2. EmitAll(pre, d) = << >> /\ Value(d, p, "size") \in Nat
          BY <2>3, <3>4, EmitFew, ValueTyped DEF Good
        <4>3. WriteObjectData(d, p) = done
          BY <4>1, <4>2, ThenNone
        <4>4. Value(d, p, "size") + start = (start + Bytes(done)) + 4
          BY <2>1, <3>3, <4>1
        <4> QED
          BY <2>2, <4>2, <4>3, <4>4
      <3> QED
        BY <3>4 DEF SizedIn
    <2>4. CASE pre # << >>
      <3> DEFINE rest == Tail(pre)
                 now == Then(more, rest)
                 end == Then(<<g>>, post)
                 far == Then(done, e)
      <3>1. /\ rest \in Seq(Goals) /\ <<Head(pre)>> \in Seq(Goals)
            /\ head = Head(pre) /\ Tail(agenda) = Then(rest, end)
            /\ pre = Then(<<Head(pre)>>, rest)
        <4>1. /\ Head(pre) \in Goals /\ Tail(pre) \in Seq(Goals)
              /\ <<Head(pre)>> \in Seq(Goals)
              /\ Head(Then(pre, end)) = Head(pre)
              /\ Tail(Then(pre, end)) = Then(Tail(pre), end)
              /\ pre = Then(<<Head(pre)>>, Tail(pre))
          <5> HIDE DEF end
          <5> DEFINE G == Goals
          <5>1. end \in Seq(G) /\ pre \in Seq(G)
            BY <2>1, <2>2 DEF end
          <5> HIDE DEF G
          <5>2. /\ Head(pre) \in G /\ Tail(pre) \in Seq(G)
                /\ <<Head(pre)>> \in Seq(G)
                /\ Head(Then(pre, end)) = Head(pre)
                /\ Tail(Then(pre, end)) = Then(Tail(pre), end)
                /\ pre = Then(<<Head(pre)>>, Tail(pre))
            <6>1. Head(pre) \in G /\ Tail(pre) \in Seq(G) /\ <<Head(pre)>> \in Seq(G)
              BY <2>4, <5>1, HeadOfThen
            <6>2. Head(Then(pre, end)) = Head(pre)
              BY <2>4, <5>1, HeadOfThen
            <6>3. Tail(Then(pre, end)) = Then(Tail(pre), end)
              BY <2>4, <5>1, TailOfThen, Zenon
            <6>4. pre = Then(<<Head(pre)>>, Tail(pre))
              BY <2>4, <5>1, HeadOfThen
            <6> QED
              BY <6>1, <6>2, <6>3, <6>4
          <5> QED
            BY <5>2 DEF G
        <4>2. agenda = Then(pre, end)
          BY <2>1
        <4> QED
          BY <4>1, <4>2 DEF head
      <3>2. more \in Seq(Goals) /\ agenda' = Then(more, Tail(agenda))
        BY DEF Follows
      <3>3. agenda' = Then(now, end) /\ now \in Seq(Goals)
        <4>1. end \in Seq(Goals) /\ agenda' = Then(more, Then(rest, end))
          BY <2>2, <3>1, <3>2
        <4> HIDE DEF rest, end
        <4> QED
          BY <3>1, <3>2, <4>1, ThenTyped, ThenAssociative
      <3>4. far \in Seq(Items) /\ Bytes(far) = Bytes(done) + Bytes(e)
        BY <2>1, ThenTyped, BytesThen
      <3>5. position' = start + Bytes(far)
        BY <2>1, <2>2, <3>4
      <3>6. ASSUME NEW d, Good(d), Fit(d, parsed', agenda')
            PROVE  /\ Value(d, p, "size") + start = g.n + 4
                   /\ WriteObjectData(d, p) = Then(far, EmitAll(now, d))
        <4>1. /\ Value(d, p, "size") + start = g.n + 4
              /\ WriteObjectData(d, p) = Then(done, EmitAll(pre, d))
              /\ Emit(head, d) = Then(e, EmitAll(more, d))
          BY <1>1, <2>1, <3>6
        <4>2. IsData(d)
          BY <3>6 DEF Good
        <4>3. EmitAll(<<Head(pre)>>, d) = Emit(head, d)
          <5>1. head \in Goals
            BY HeadTyped
          <5> QED
            BY <3>1, <4>2, <5>1, EmitFew
        <4>4. EmitAll(pre, d) = Then(Emit(head, d), EmitAll(rest, d))
          <5> HIDE DEF rest
          <5>1. EmitAll(Then(<<Head(pre)>>, rest), d)
                   = Then(EmitAll(<<Head(pre)>>, d), EmitAll(rest, d))
            BY <3>1, <4>2, EmitThen
          <5> QED
            BY <3>1, <4>3, <5>1
        <4>5. /\ EmitAll(more, d) \in Seq(Items) /\ EmitAll(rest, d) \in Seq(Items)
              /\ EmitAll(now, d) = Then(EmitAll(more, d), EmitAll(rest, d))
              /\ EmitAll(now, d) \in Seq(Items)
          BY <3>1, <3>2, <3>3, <4>2, EmitAllTyped, EmitThen
        <4>6. EmitAll(pre, d) = Then(e, EmitAll(now, d))
          <5> HIDE DEF rest, now
          <5> QED
            BY <4>1, <4>4, <4>5, ThenAssociative
        <4>7. Then(done, Then(e, EmitAll(now, d))) = Then(far, EmitAll(now, d))
          <5> HIDE DEF rest, now
          <5> QED
            BY <2>1, <4>5, ThenAssociative
        <4> QED
          BY <4>1, <4>6, <4>7
      <3> HIDE DEF now, far
      <3>7. UnderwayIn(p, parsed', agenda', position')
        BY <2>1, <3>3, <3>4, <3>5, <3>6, UnderwayBy DEF end
      <3> QED
        BY <3>7
    <2> QED
      BY <2>3, <2>4
  <1> QED
    BY <1>2, <1>3

\* An object whose size is read is being read from then on.
LEMMA SizeIsUnderway ==
    ASSUME TypeOK, TypeOK', FreshInv, ReadObjectSize
    PROVE  UnderwayIn(head.path, parsed', agenda', position')
  <1>1. /\ agenda # << >> /\ head.kind \in DOMAIN Width \cup {"payload"}
        /\ head.kind = "objectSize" /\ head.kind \in DOMAIN Width
    BY DEF ReadObjectSize, At, Width
  <1> DEFINE p == head.path
             pre == Reads(ReadObjectData, p)
  <1>2. PICK v : /\ v \in Seen(4) /\ Consume(4, v)
                 /\ parsed' = WithSize(WithValue(v), << >>, "objects",
                                       Size(parsed, << >>, "objects") + 1)
                 /\ agenda' = pre
                       \o <<Goal("objectEnd", p, "size", position + 4 + (v - 4))>>
                       \o Tail(agenda)
    BY DEF ReadObjectSize
  <1> DEFINE g == Goal("objectEnd", p, "size", position + 4 + (v - 4))
  <1>3. v \in Nat /\ v >= 4
    <2>1. v \in Nat
      BY <1>1, <1>2, SeenTyped
    <2>2. ~Rejects(v)
      BY <1>2 DEF Consume
    <2> QED
      BY <1>1, <2>1, <2>2 DEF Rejects
  <1>4. head \in Goals /\ p \in Path /\ head.field = "size" /\ "size" \in Fields
    <2>1. head \in Goals /\ head.path \in Path
      BY <1>1, HeadReads
    <2> QED
      BY <1>1, <2>1 DEF Goals, Members
  <1>5. /\ g \in Goals /\ <<g>> \in Seq(Goals) /\ g.kind = "objectEnd"
        /\ g.n = position + v
    <2>1. position + 4 + (v - 4) \in Nat /\ position + 4 + (v - 4) = position + v
      BY <1>3 DEF TypeOK
    <2> HIDE DEF g
    <2>2. g = Goal("objectEnd", p, "size", position + 4 + (v - 4))
      BY DEF g
    <2>3. <<g>> \in Seq(Goals)
      BY <1>4, <2>1, <2>2, GoalTyped
    <2>4. <<g>>[1] \in Goals
      BY <2>3
    <2>5. g.kind = "objectEnd" /\ g.n = position + 4 + (v - 4)
      BY <2>2 DEF Goal
    <2> QED
      BY <2>1, <2>3, <2>4, <2>5
  <1> HIDE DEF g
  <1>6. /\ pre \in Seq(Goals) /\ Tail(agenda) \in Seq(Goals)
        /\ Then(<<g>>, Tail(agenda)) \in Seq(Goals)
    BY <1>1, <1>4, <1>5, ObjectDataTyped, ReadsTyped, HeadTyped, ThenTyped
  <1>7. agenda' = Then(pre, Then(<<g>>, Tail(agenda)))
    <2>1. agenda' = Then(Then(pre, <<g>>), Tail(agenda))
      BY <1>2 DEF Then, g
    <2> DEFINE rest == Tail(agenda)
               one == <<g>>
    <2>2. /\ one \in Seq(Goals) /\ rest \in Seq(Goals)
          /\ agenda' = Then(Then(pre, one), rest)
      BY <1>5, <1>6, <2>1
    <2> HIDE DEF pre, rest, one
    <2>3. agenda' = Then(pre, Then(one, rest))
      BY <1>6, <2>2, ThenAssociative
    <2> QED
      BY <2>3 DEF one, rest
  <1>8. position' = position + 4 /\ position \in Nat
    BY <1>2 DEF Consume, TypeOK
  <1>9. ASSUME NEW d, Good(d), Fit(d, parsed', agenda')
        PROVE  /\ Value(d, p, "size") + (position + 4) = g.n + 4
               /\ WriteObjectData(d, p) = Then(<< >>, EmitAll(pre, d))
    <2>1. parsed'.val[<<p, "size">>] = v /\ <<p, "size">> \in DOMAIN parsed'.val
      <3>1. /\ Grows({<<head.path, head.field>>}, {<< << >>, "objects" >>})
            /\ parsed'.val[<<head.path, head.field>>] = v
        BY <1>2, GrowsByBoth
      <3> QED
        BY <1>4, <3>1 DEF Grows, Extends
    <2>2. Value(d, p, "size") = v
      BY <1>9, <2>1 DEF Fit, Known
    <2>3. EmitAll(pre, d) = WriteObjectData(d, p) /\ WriteObjectData(d, p) \in Seq(Items)
      BY <1>4, <1>9, EmitObjectData, WriteObjectDataTyped DEF Good
    <2> HIDE DEF pre
    <2> QED
      BY <1>3, <1>5, <1>8, <2>2, <2>3, ThenNone
  <1>10. position' = (position + 4) + Bytes(<< >>) /\ position + 4 \in Nat
    BY <1>8, BytesOfFew
  <1> HIDE DEF pre
  <1> QED
    <2> DEFINE start == position + 4
               rest == Tail(agenda)
    <2>1. /\ start \in Nat /\ position' = start + Bytes(<< >>)
          /\ rest \in Seq(Goals) /\ agenda' = Then(pre, Then(<<g>>, rest))
      BY <1>6, <1>7, <1>10
    <2>2. \A d : Good(d) /\ Fit(d, parsed', agenda') =>
             /\ Value(d, p, "size") + start = g.n + 4
             /\ WriteObjectData(d, p) = Then(<< >>, EmitAll(pre, d))
      BY <1>9
    <2> HIDE DEF start, rest, p
    <2>3. UnderwayIn(p, parsed', agenda', position')
      BY <1>5, <1>6, <2>1, <2>2, NothingTyped, UnderwayBy
    <2> QED
      BY <2>3 DEF p

\* While a file is parsed, the size of each object there is is right, or is
\* that of the object being read.
Sizes ==
    load = "parsing" =>
        \A k \in 1..Size(parsed, << >>, "objects") :
            \/ SizedIn(Child(<< >>, "objects", k), parsed, agenda)
            \/ UnderwayIn(Child(<< >>, "objects", k), parsed, agenda, position)

\* The inductive invariant of the sizes.
SizesInv == CodecInv /\ Announces /\ Sizes /\ ObjectSizesAreRight

\* What is known of a step of the parser.
LEMMA SizesStepIs ==
    ASSUME SizesInv, CodecInv', ReadStep
    PROVE  \E e, more :
              /\ e \in Seq(Items) /\ Follows(e, more) /\ position' = position + Bytes(e)
              /\ head.kind = "objectEnd" => position = head.n
  <1>1. /\ TypeOK /\ FreshInv /\ Narrow /\ ObjectsComeLast
    BY DEF SizesInv, CodecInv, VectorInv, ParseInv
  <1>2. /\ agenda # << >> /\ load = "parsing"
        /\ \/ /\ head.kind \in DOMAIN Width \cup {"payload"}
              /\ \E v, more : Takes(v) /\ Follows(<<Item(HeadWidth, v)>>, more)
           \/ /\ disk' = disk /\ position' = position
              /\ \E more : Follows(<< >>, more)
    BY <1>1, ReadStepFollows
  <1>3. head.kind = "objectEnd" => position = head.n
    BY DEF ReadStep, ReadScalar, ReadLength, ReadCount, NextElement,
       ReadDebugFlag, ReadObjectSize, ObjectEnds, ReadPropertyFlags, ReadType,
       ReadOpcode, ReadCallArguments, PushArgument, At
  <1>4. CASE \E v, more : Takes(v) /\ Follows(<<Item(HeadWidth, v)>>, more)
    <2>1. PICK v, more : Takes(v) /\ Follows(<<Item(HeadWidth, v)>>, more)
      BY <1>4
    <2> DEFINE e == Item(HeadWidth, v)
    <2>2. e \in Items /\ e.width = HeadWidth /\ position' = position + HeadWidth
      <3>1. HeadWidth \in Nat \ {0} /\ v \in Nat /\ position' = position + HeadWidth
        BY <2>1 DEF Takes, Consume
      <3> HIDE DEF HeadWidth
      <3>2. e \in Items /\ e.width = HeadWidth
        BY <3>1 DEF Item, Number, Text, Items
      <3> QED
        BY <3>1, <3>2
    <2> HIDE DEF e
    <2>3. <<e>> \in Seq(Items) /\ Bytes(<<e>>) = HeadWidth
      BY <2>2, BytesOfFew
    <2> QED
      BY <1>3, <2>1, <2>2, <2>3 DEF e
  <1>5. CASE position' = position /\ \E more : Follows(<< >>, more)
    <2>1. position' = position + Bytes(<< >>)
      BY <1>1, <1>5, BytesOfFew DEF TypeOK
    <2> QED
      BY <1>3, <1>5, <2>1, NothingTyped
  <1> QED
    BY <1>2, <1>4, <1>5

\* A step of the parser keeps the sizes right.
LEMMA ReadStepSizes ==
    ASSUME SizesInv, CodecInv', ReadStep
    PROVE  Announces' /\ Sizes'
  <1> DEFINE objects == Size(parsed, << >>, "objects")
             object(k) == Child(<< >>, "objects", k)
  <1>1. /\ VectorInv /\ VectorInv' /\ TypeOK /\ TypeOK' /\ FreshInv
        /\ ObjectsComeLast /\ ObjectsComeLast'
    BY DEF SizesInv, CodecInv, VectorInv, ParseInv
  <1>2. agenda # << >> /\ load = "parsing"
    BY DEF ReadStep, ReadScalar, ReadLength, ReadCount, NextElement,
       ReadDebugFlag, ReadObjectSize, ObjectEnds, ReadPropertyFlags, ReadType,
       ReadOpcode, ReadCallArguments, PushArgument, At
  <1>3. objects \in Nat
    BY <1>1, ValueTyped DEF TypeOK
  <1>4. PICK e, more :
           /\ e \in Seq(Items) /\ Follows(e, more) /\ position' = position + Bytes(e)
           /\ head.kind = "objectEnd" => position = head.n
    BY SizesStepIs
  <1>5. more \in Seq(Goals) /\ agenda' = Then(more, Tail(agenda)) /\ Tail(agenda) \in Seq(Goals)
    BY <1>1, <1>2, <1>4, HeadTyped DEF Follows
  <1>6. \A k \in 1..objects :
           \/ SizedIn(object(k), parsed', agenda')
           \/ UnderwayIn(object(k), parsed', agenda', position')
    <2> SUFFICES ASSUME NEW k \in 1..objects
                 PROVE  \/ SizedIn(object(k), parsed', agenda')
                        \/ UnderwayIn(object(k), parsed', agenda', position')
      OBVIOUS
    <2>1. SizedIn(object(k), parsed, agenda) \/ UnderwayIn(object(k), parsed, agenda, position)
      BY <1>2 DEF SizesInv, Sizes
    <2> HIDE DEF object
    <2> QED
      BY <1>1, <1>2, <1>4, <2>1, SizesStep
  <1>7. CASE ReadCount /\ head.field = "objectCount" /\ Size(parsed', << >>, "objects") = 0
    <2>1. Sizes'
      BY <1>7 DEF Sizes
    <2>2. Len(agenda) = 1 /\ agenda' = <<Goal("loop", head.path, head.field, 0)>> \o Tail(agenda)
      BY <1>1, <1>2, <1>7, HeadOfOthers DEF ReadCount
    <2>3. Tail(agenda) = << >>
      BY <1>1, <1>2, <2>2, NothingAfterLast
    <2>4. \A i \in DOMAIN agenda' : agenda'[i].kind = "loop"
      BY <2>2, <2>3 DEF Goal
    <2> QED
      BY <2>1, <2>4 DEF Announces
  <1>8. CASE NextElement /\ head.field = "objectCount" /\ Size(parsed', << >>, "objects") = objects + Appended
    <2>1. /\ head.kind = "loop" /\ Len(agenda) = 1 /\ head = LastGoal /\ parsed' = parsed
          /\ head.path = << >>
      BY <1>1, <1>2, <1>8, HeadOfOthers DEF NextElement, At, ObjectsComeLast
    <2>2. Size(parsed', << >>, "objects") = objects
      BY <2>1
    <2>3. Sizes'
      BY <1>6, <2>2 DEF Sizes
    <2>4. head.n = objects
      <3>1. Announced = 0
        BY <2>1 DEF Announced
      <3>2. head.n = objects + Announced
        BY <1>1, <1>2, <2>1 DEF VectorInv, ParseInv, ObjectsCounted
      <3> QED
        BY <1>3, <3>1, <3>2
    <2>5. Tail(agenda) = << >>
      BY <1>1, <1>2, <2>1, NothingAfterLast
    <2> DEFINE table == Reads(Vector["objectCount"].element, object(head.n + 1))
               next == [head EXCEPT !.n = head.n + 1]
    <2>6. \/ agenda' = table \o <<next>> \o << >>
          \/ agenda' = << >>
      BY <1>8, <2>1, <2>5, ObjectsVector DEF NextElement
    <2>7. /\ next.kind = "loop"
          /\ DOMAIN table = 1..2 /\ table[1].kind = "u16"
          /\ table[2].kind = "objectSize" /\ table[2].path = object(head.n + 1)
      <3>1. head \in Goals
        BY <1>1, <1>2, HeadTyped
      <3>2. Vector["objectCount"].element = << <<"u16", "nameIndex">>, <<"objectSize", "size">> >>
        BY DEF Vector
      <3> HIDE DEF object
      <3> QED
        BY <2>1, <3>1, <3>2 DEF Reads, Goal, Goals
    <2>8. ASSUME NEW i \in DOMAIN agenda', agenda'[i].kind = "objectSize"
          PROVE  agenda'[i].path = object(Size(parsed', << >>, "objects") + 1)
      <3>1. agenda' = table \o <<next>> \o << >>
        BY <2>6, <2>8
      <3> HIDE DEF table, next, object
      <3>2. agenda'[i] \in {table[1], table[2], next}
        <4>1. Len(table) = 2 /\ table = <<table[1], table[2]>>
          BY <2>7 DEF table, Reads
        <4>2. agenda' = <<table[1], table[2], next>>
          BY <3>1, <4>1, ThreeSteps
        <4> QED
          BY <4>2
      <3> QED
        BY <2>2, <2>4, <2>7, <2>8, <3>2
    <2>9. Announces'
      BY <2>8 DEF Announces
    <2> QED
      BY <2>3, <2>9
  <1>9. CASE /\ head.field # "objectCount"
             /\ Size(parsed', << >>, "objects") = objects + Appended
    <2>1. \A i \in DOMAIN more : more[i].kind # "objectSize"
      BY <1>1, <1>2, <1>5, <1>9, NoneAnnounced
    <2>2. 1 \in DOMAIN agenda /\ agenda[1] = head
      BY <1>1, <1>2, HeadIs DEF TypeOK
    <2>3. CASE head.kind # "objectSize"
      <3>1. Size(parsed', << >>, "objects") = objects
        BY <1>3, <1>9, <2>3 DEF Appended
      <3>2. Sizes'
        BY <1>6, <3>1 DEF Sizes
      <3>3. ASSUME NEW i \in DOMAIN agenda', agenda'[i].kind = "objectSize"
            PROVE  agenda'[i].path = object(Size(parsed', << >>, "objects") + 1)
        <4> DEFINE rest == Tail(agenda)
        <4>1. i - Len(more) \in DOMAIN rest /\ agenda'[i] = rest[i - Len(more)]
          <5>1. rest \in Seq(Goals) /\ agenda' = Then(more, rest)
            BY <1>5
          <5> HIDE DEF rest
          <5> QED
            BY <1>5, <2>1, <3>3, <5>1, ThenPart
        <4>2. PICK j \in DOMAIN rest : agenda'[i] = rest[j]
          BY <4>1
        <4>3. j + 1 \in DOMAIN agenda /\ rest[j] = agenda[j + 1]
          BY <1>1, <1>2, <4>2, HeadIs DEF TypeOK
        <4>4. agenda[j + 1].path = object(objects + 1)
          BY <3>3, <4>2, <4>3 DEF SizesInv, Announces
        <4> QED
          BY <3>1, <4>2, <4>3, <4>4
      <3> QED
        BY <3>2, <3>3 DEF Announces
    <2>4. CASE head.kind = "objectSize"
      <3>1. Size(parsed', << >>, "objects") = objects + 1
        BY <1>9, <2>4 DEF Appended
      <3>2. head.path = object(objects + 1)
        BY <2>2, <2>4 DEF SizesInv, Announces
      <3>3. ReadObjectSize
        BY <2>4 DEF ReadStep, ReadScalar, ReadLength, ReadCount, NextElement,
           ReadDebugFlag, ReadObjectSize, ObjectEnds, ReadPropertyFlags, ReadType,
           ReadOpcode, ReadCallArguments, PushArgument, At
      <3>4. UnderwayIn(object(objects + 1), parsed', agenda', position')
        BY <1>1, <3>2, <3>3, SizeIsUnderway
      <3>5. Sizes'
        <4> HIDE DEF object, objects
        <4>1. \A k \in 1..(objects + 1) : k \in 1..objects \/ k = objects + 1
          BY <1>3
        <4>2. \A k \in 1..Size(parsed', << >>, "objects") :
                 \/ SizedIn(object(k), parsed', agenda')
                 \/ UnderwayIn(object(k), parsed', agenda', position')
          BY <1>6, <3>1, <3>4, <4>1
        <4> QED
          BY <4>2 DEF Sizes, object
      <3>6. ASSUME NEW i \in DOMAIN agenda', agenda'[i].kind = "objectSize"
            PROVE  FALSE
        <4> DEFINE rest == Tail(agenda)
        <4>1. i - Len(more) \in DOMAIN rest /\ agenda'[i] = rest[i - Len(more)]
          <5>1. rest \in Seq(Goals) /\ agenda' = Then(more, rest)
            BY <1>5
          <5> HIDE DEF rest
          <5> QED
            BY <1>5, <2>1, <3>6, <5>1, ThenPart
        <4>2. Len(agenda) = 2 /\ LastGoal.kind = "loop"
          BY <1>1, <1>2, <1>9, <2>4, HeadInner
        <4>3. \A j \in DOMAIN rest : rest[j] = LastGoal
          <5>1. /\ Len(agenda) = 2 /\ Len(rest) = Len(agenda) - 1
                /\ \A j \in 1..(Len(agenda) - 1) : rest[j] = agenda[j + 1]
                /\ rest \in Seq(Goals)
            BY <1>1, <1>2, <1>5, <4>2, HeadIs
          <5> HIDE DEF rest
          <5>2. DOMAIN rest = 1..1 /\ rest[1] = agenda[2]
            BY <5>1
          <5> QED
            BY <4>2, <5>2 DEF LastGoal
        <4> QED
          BY <3>6, <4>1, <4>2, <4>3
      <3> QED
        BY <3>5, <3>6 DEF Announces
    <2> QED
      BY <2>3, <2>4
  <1>10. head.field = "objectCount" => head.kind \in {"count", "loop"}
    BY <1>1, <1>2, HeadOfOthers
  <1>11. /\ head.kind = "count" => ReadCount
         /\ head.kind = "loop" => NextElement
    BY DEF ReadStep, ReadScalar, ReadLength, ReadCount, NextElement,
       ReadDebugFlag, ReadObjectSize, ObjectEnds, ReadPropertyFlags, ReadType,
       ReadOpcode, ReadCallArguments, PushArgument, At
  <1>12. \/ ReadCount /\ head.field = "objectCount" /\ Size(parsed', << >>, "objects") = 0
         \/ Size(parsed', << >>, "objects") = objects + Appended
    BY <1>1, ObjectsKept
  <1>13. ReadCount /\ head.field = "objectCount" => Size(parsed', << >>, "objects") = 0
    <2> SUFFICES ASSUME ReadCount, head.field = "objectCount"
                 PROVE  Size(parsed', << >>, "objects") = 0
      OBVIOUS
    <2>1. /\ Len(agenda) = 1 /\ agenda' = <<Goal("loop", head.path, head.field, 0)>> \o Tail(agenda)
      BY <1>1, <1>2, HeadOfOthers DEF ReadCount
    <2>2. Tail(agenda) = << >>
      BY <1>1, <1>2, <2>1, NothingAfterLast
    <2>3. /\ agenda' # << >> /\ LastGoal'.kind = "loop" /\ LastGoal'.n = 0
          /\ Announced' = 0
      BY <2>1, <2>2 DEF Goal, LastGoal, Announced
    <2>4. LastGoal'.n = Size(parsed', << >>, "objects") + Announced'
      BY <1>1, <2>3 DEF VectorInv, ParseInv, ObjectsCounted
    <2>5. Size(parsed', << >>, "objects") \in Nat
      BY <1>1, ValueTyped DEF TypeOK
    <2> QED
      BY <2>3, <2>4, <2>5
  <1> QED
    BY <1>7, <1>8, <1>9, <1>10, <1>11, <1>12, <1>13

\* The sizes of an instance are right when those of what was parsed are.
LEMMA CommitSizes ==
    ASSUME SizesInv, Commit
    PROVE  ObjectSizesAreRight'
  <1>1. /\ load = "parsing" /\ agenda = << >> /\ inst' = parsed
        /\ VectorInv
    BY DEF Commit, SizesInv, CodecInv
  <1>2. Good(parsed) /\ Fit(parsed, parsed, agenda)
    BY <1>1, ParsedIsGood
  <1>3. ASSUME NEW k \in 1..Size(parsed, << >>, "objects")
        PROVE  LET object == Child(<< >>, "objects", k)
               IN  Value(parsed, object, "size")
                      = 4 + Bytes(WriteObjectData(parsed, object))
    <2> DEFINE object == Child(<< >>, "objects", k)
    <2>1. \/ SizedIn(object, parsed, agenda)
          \/ UnderwayIn(object, parsed, agenda, position)
      BY <1>1, <1>3 DEF SizesInv, Sizes
    <2>2. ~UnderwayIn(object, parsed, agenda, position)
      <3> SUFFICES ASSUME NEW pre \in Seq(Goals), NEW g \in Goals, NEW post \in Seq(Goals),
                          agenda = Then(pre, Then(<<g>>, post))
                   PROVE  FALSE
        BY DEF UnderwayIn
      <3>1. <<g>> \in Seq(Goals) /\ Len(<<g>>) = 1
        OBVIOUS
      <3>2. Then(<<g>>, post) \in Seq(Goals) /\ Len(Then(<<g>>, post)) = 1 + Len(post)
        BY <3>1 DEF Then
      <3>3. Len(agenda) = Len(pre) + (1 + Len(post)) /\ Len(pre) \in Nat /\ Len(post) \in Nat
        BY <3>2 DEF Then
      <3> DEFINE m == Len(pre)
                 n == Len(post)
                 l == Len(agenda)
      <3>4. l = 0 /\ l = m + (1 + n) /\ m \in Nat /\ n \in Nat
        BY <1>1, <3>3
      <3> HIDE DEF l, m, n
      <3> QED
        BY <3>4
    <2> QED
      BY <1>2, <2>1, <2>2 DEF SizedIn
  <1> QED
    BY <1>1, <1>3 DEF ObjectSizesAreRight

\* When Load is not running no size is at hand,
LEMMA RestSizes ==
    ASSUME agenda' = << >>, load' # "parsing"
    PROVE  Announces' /\ Sizes'
  BY DEF Announces, Sizes

\* ... and when it begins there is no object.
LEMMA OpenFileSizes ==
    ASSUME OpenFile
    PROVE  Announces' /\ Sizes'
  <1>1. agenda' = Load /\ parsed' = EmptyData
    BY DEF OpenFile
  <1>2. Size(parsed', << >>, "objects") = 0
    BY <1>1 DEF EmptyData, Size
  <1>3. \A i \in DOMAIN agenda' : agenda'[i].kind # "objectSize"
    <2> DEFINE body == ReadHeader \o ReadStringTable \o ReadDebugInfo \o ReadUserFlags
                          \o ReadObjects
    <2>1. \A i \in DOMAIN body : body[i][1] # "objectSize"
      <3>1. \A i \in DOMAIN body :
               body[i] \in {<<"magic", "magic">>, <<"u8", "majorVersion">>,
                            <<"u8", "minorVersion">>, <<"u16", "gameId">>,
                            <<"u64", "compilationTime">>,
                            <<"string", "sourceFileName">>, <<"string", "username">>,
                            <<"string", "machinename">>, <<"count", "count">>,
                            <<"debugFlag", "hasDebugInfo">>,
                            <<"count", "userFlagCount">>, <<"count", "objectCount">>}
        BY DEF ReadHeader, ReadStringTable, ReadDebugInfo, ReadUserFlags, ReadObjects
      <3> HIDE DEF body
      <3> QED
        BY <3>1
    <2>2. agenda' = Reads(body, << >>)
      BY <1>1 DEF Load
    <2> HIDE DEF body
    <2> QED
      BY <2>1, <2>2 DEF Reads, Goal
  <1>4. Sizes'
    BY <1>2 DEF Sizes
  <1> QED
    BY <1>3, <1>4 DEF Announces

\* The invariant holds at first,
LEMMA InitSizes == Init => SizesInv
  <1> SUFFICES ASSUME Init PROVE SizesInv
    OBVIOUS
  <1>1. CodecInv
    BY InitCodec
  <1>2. agenda = << >> /\ load = "idle" /\ inst = EmptyData
    BY DEF Init, NoCall
  <1>3. Announces /\ Sizes
    BY <1>2 DEF Announces, Sizes
  <1>4. ObjectSizesAreRight
    <2>1. Size(inst, << >>, "objects") = 0
      BY <1>2 DEF EmptyData, Size
    <2> QED
      BY <2>1 DEF ObjectSizesAreRight
  <1> QED
    BY <1>1, <1>3, <1>4 DEF SizesInv

\* ... and every step keeps it.
LEMMA NextSizes == SizesInv /\ [Next]_vars => SizesInv'
  <1> SUFFICES ASSUME SizesInv, [Next]_vars PROVE SizesInv'
    OBVIOUS
  <1>1. CodecInv'
    BY NextCodec DEF SizesInv
  <1>2. CASE ReadStep
    <2>1. inst' = inst
      BY <1>2 DEF ReadStep, ReadScalar, ReadLength, ReadCount, NextElement,
         ReadDebugFlag, ReadObjectSize, ObjectEnds, ReadPropertyFlags, ReadType,
         ReadOpcode, ReadCallArguments, PushArgument, Consume
    <2>2. ObjectSizesAreRight'
      BY <2>1 DEF SizesInv, ObjectSizesAreRight
    <2> QED
      BY <1>1, <1>2, <2>2, ReadStepSizes DEF SizesInv
  <1>3. CASE OpenFile
    <2>1. ObjectSizesAreRight'
      BY <1>3 DEF OpenFile, SizesInv, ObjectSizesAreRight
    <2> QED
      BY <1>1, <1>3, <2>1, OpenFileSizes DEF SizesInv
  <1>4. CASE Commit
    <2>1. agenda' = << >> /\ load' # "parsing"
      BY <1>4 DEF Commit, EndCall
    <2> QED
      BY <1>1, <1>4, <2>1, CommitSizes, RestSizes DEF SizesInv
  <1>5. CASE Throw \/ PlaceFile \/ RefuseFile
    <2>1. inst' = inst /\ load' # "parsing" /\ agenda' = << >>
      <3>1. CodecInv
        BY DEF SizesInv
      <3>2. load # "parsing" => agenda = << >>
        BY <3>1 DEF CodecInv, VectorInv, ParseInv, NothingRuns
      <3> QED
        BY <1>5, <3>2 DEF Throw, ReadFails, ValueRefused, ObjectSizeMismatch, CallRefused,
           EndCall, PlaceFile, RefuseFile
    <2>2. ObjectSizesAreRight'
      BY <2>1 DEF SizesInv, ObjectSizesAreRight
    <2> QED
      BY <1>1, <2>1, <2>2, RestSizes DEF SizesInv
  <1>6. CASE UNCHANGED vars
    BY <1>1, <1>6 DEF vars, SizesInv, Announces, Sizes, ObjectSizesAreRight
  <1> QED
    BY <1>2, <1>3, <1>4, <1>5, <1>6 DEF Next, LoadStep

\* Whatever file is loaded, the size an object carries is that of what Save
\* writes for its data: the check of the reader (Record.h) and the widths and
\* conditions of the writer agree.
THEOREM ObjectSizesAreAlwaysRight == Spec => []ObjectSizesAreRight
  <1>1. Init => SizesInv
    BY InitSizes
  <1>2. SizesInv /\ [Next]_vars => SizesInv'
    BY NextSizes
  <1>3. SizesInv => ObjectSizesAreRight
    BY DEF SizesInv
  <1> QED
    BY <1>1, <1>2, <1>3, PTL DEF Spec

-----------------------------------------------------------------------------
(* What a step of the parser does, put in one form for all kinds of step    *)
(* but those of an instruction.                                            *)

\* The kinds of step that read.
Readings == DOMAIN Width \cup {"payload"}

\* The member the step at hand sets, and the size it sets.
Filled ==
    IF head.kind \in Readings \ {"string"} THEN {<<head.path, head.field>>} ELSE {}

Sized ==
    CASE head.kind = "string" -> {<<head.path, head.field>>}
      [] head.kind = "count" -> {<<head.path, Vector[head.field].name>>}
      [] head.kind = "objectSize" -> {<< << >>, "objects">>}
      [] OTHER -> {}

\* What follows the flag of the debug information.
DebugTable == << <<"u64", "modificationTime">>, <<"count", "functionCount">> >>

\* What the flags of a property ask for: the name of its variable,
AutoGoals(v) ==
    IF HasBit(v, 4) THEN Reads(<< <<"u16", "autoVarName">> >>, head.path) ELSE << >>

\* ... and each handler.
HandlerGoals(v, bit, name) ==
    IF HasBit(v, bit) /\ ~HasBit(v, 4)
    THEN Reads(ReadFunction, Child(head.path, name, 0)) ELSE << >>

\* A loop goes on with the next element:
Successor == [head EXCEPT !.n = head.n + 1]

\* ... the reads of the element, and the rest of the loop.
NextGoals ==
    Then(Reads(Vector[head.field].element,
               Child(head.path, Vector[head.field].name, head.n + 1)),
         <<Successor>>)

\* The goals that take the place of the one at hand, when v was read.
Unfolds(v, more) ==
    /\ head.kind \in {"magic", "u8", "u16", "u32", "u64", "payload", "objectEnd"} =>
          more = << >>
    /\ head.kind = "string" =>
          more = IF v = 0 THEN << >> ELSE <<Goal("payload", head.path, head.field, v)>>
    /\ head.kind = "count" => more = <<Goal("loop", head.path, head.field, 0)>>
    /\ head.kind = "loop" =>
          more = IF head.n < Value(parsed, head.path, head.field)
                 THEN NextGoals ELSE << >>
    /\ head.kind = "debugFlag" =>
          more = IF v = 0 THEN << >> ELSE Reads(DebugTable, head.path)
    /\ head.kind = "objectSize" =>
          \E n \in Nat : more = Then(Reads(ReadObjectData, head.path),
                                     <<Goal("objectEnd", head.path, "size", n)>>)
    /\ head.kind = "propertyFlags" =>
          more = Then(Then(AutoGoals(v), HandlerGoals(v, 1, "readHandler")),
                      HandlerGoals(v, 2, "writeHandler"))
    /\ head.kind = "type" => v \in 0..5 /\ more = Reads(ReadVariableData[v], head.path)

\* Goals that are neither about the arguments of a call nor pushes.
Straight(goals) ==
    /\ goals \in Seq(Goals)
    /\ \A i \in DOMAIN goals : goals[i].kind \notin {"callArguments", "push"}

\* A step that is about no instruction: it may read v, sets members no step
\* has set, and replaces the head by straight goals.
Plain(v, more) ==
    /\ agenda # << >> /\ head.kind \notin {"opcode", "callArguments", "push"}
    /\ Straight(more) /\ agenda' = Then(more, Tail(agenda))
    /\ Grows(Filled, Sized)
    /\ \A k \in Filled : parsed'.val[k] = v
    /\ \A k \in Sized : k[2] # "objects" => parsed'.len[k] = v
    /\ Unfolds(v, more)
    /\ head.kind \in Readings => Takes(v)

\* The reads of a Read function are straight goals,
LEMMA StraightReads ==
    ASSUME NEW body \in Seq(Reading), NEW path \in Path
    PROVE  Straight(Reads(body, path))
  <1>1. Reads(body, path) \in Seq(Goals)
    BY ReadsTyped
  <1>2. ASSUME NEW i \in DOMAIN Reads(body, path)
        PROVE  Reads(body, path)[i].kind \in DOMAIN Width
    <2>1. i \in DOMAIN body /\ body[i] \in Reading
      BY DEF Reads
    <2> QED
      BY <2>1, ReadingTyped DEF Reads, Goal
  <1> QED
    BY <1>1, <1>2, ReadKinds DEF Straight

\* ... and so are straight goals one after the other,
LEMMA StraightThen ==
    ASSUME NEW a, NEW b, Straight(a), Straight(b)
    PROVE  Straight(Then(a, b))
  <1>1. a \in Seq(Goals) /\ b \in Seq(Goals) /\ Then(a, b) \in Seq(Goals)
    BY ThenTyped DEF Straight
  <1>2. \A i \in DOMAIN Then(a, b) :
           \/ i \in DOMAIN a /\ Then(a, b)[i] = a[i]
           \/ i - Len(a) \in DOMAIN b /\ Then(a, b)[i] = b[i - Len(a)]
    BY <1>1, ThenPart
  <1> QED
    BY <1>1, <1>2 DEF Straight

\* ... none, and one.
LEMMA StraightFew ==
    /\ Straight(<< >>)
    /\ \A g \in Goals : g.kind \notin {"callArguments", "push"} => Straight(<<g>>)
  <1>1. << >> \in Seq(Goals) /\ DOMAIN << >> = {}
    OBVIOUS
  <1>2. \A g \in Goals : <<g>> \in Seq(Goals) /\ DOMAIN <<g>> = {1} /\ <<g>>[1] = g
    BY OneGoal
  <1> QED
    BY <1>1, <1>2 DEF Straight

\* A step that sets the member it reads and nothing else.
LEMMA FillsOnly ==
    ASSUME TypeOK, agenda # << >>, head.kind \in Readings,
           head.kind \notin {"string", "count", "objectSize"},
           NEW v, parsed' = WithValue(v)
    PROVE  /\ Grows(Filled, Sized)
           /\ \A k \in Filled : parsed'.val[k] = v
           /\ \A k \in Sized : k[2] # "objects" => parsed'.len[k] = v
  <1>1. Filled = {<<head.path, head.field>>} /\ Sized = {}
    BY DEF Filled, Sized
  <1>2. /\ Grows({<<head.path, head.field>>}, {})
        /\ parsed'.val[<<head.path, head.field>>] = v
    BY GrowsByValue
  <1> QED
    BY <1>1, <1>2

\* A step that sets nothing.
LEMMA FillsNothing ==
    ASSUME TypeOK, agenda # << >>, head.kind \in {"loop", "objectEnd"}, parsed' = parsed
    PROVE  /\ Grows(Filled, Sized) /\ Filled = {} /\ Sized = {}
  <1>1. Filled = {} /\ Sized = {}
    BY ReadKinds DEF Filled, Sized, Readings
  <1>2. Grows({}, {})
    BY SameKept DEF Grows
  <1> QED
    BY <1>1, <1>2

\* A scalar, the magic or a payload is read in this form,
LEMMA ReadScalarPlain ==
    ASSUME TypeOK, FreshInv, ReadScalar
    PROVE  \E v, more : Plain(v, more)
  <1>1. /\ agenda # << >> /\ head.kind \in Readings
        /\ head.kind \in {"magic", "u8", "u16", "u32", "u64", "payload"}
        /\ agenda' = Tail(agenda)
    BY DEF ReadScalar, At, Width, Readings
  <1>2. PICK v : v \in Seen(HeadWidth) /\ Consume(HeadWidth, v) /\ parsed' = WithValue(v)
    BY DEF ReadScalar
  <1>3. Takes(v)
    BY <1>1, <1>2, SeenTyped, HeadWidthIs DEF Takes, Readings
  <1>4. agenda' = Then(<< >>, Tail(agenda))
    BY <1>1, HeadTyped, ThenNone
  <1>5. Unfolds(v, << >>)
    BY <1>1 DEF Unfolds
  <1>6. Plain(v, << >>)
    BY <1>1, <1>2, <1>3, <1>4, <1>5, FillsOnly, StraightFew DEF Plain
  <1> QED
    BY <1>6

\* ... the length of a string,
LEMMA ReadLengthPlain ==
    ASSUME TypeOK, FreshInv, ReadLength
    PROVE  \E v, more : Plain(v, more)
  <1>1. /\ agenda # << >> /\ head.kind \in Readings /\ head.kind = "string"
    BY DEF ReadLength, At, Width, Readings
  <1>2. PICK v : /\ v \in Seen(2) /\ Consume(2, v)
                 /\ parsed' = WithSize(parsed, head.path, head.field, v)
                 /\ agenda' = (IF v = 0 THEN << >>
                               ELSE <<Goal("payload", head.path, head.field, v)>>)
                              \o Tail(agenda)
    BY DEF ReadLength
  <1> DEFINE p == Goal("payload", head.path, head.field, v)
             more == IF v = 0 THEN << >> ELSE <<p>>
             key == <<head.path, head.field>>
  <1>3. v \in Nat /\ Takes(v)
    <2>1. HeadWidth = 2
      BY <1>1, HeadWidthIs DEF Width, Readings
    <2> QED
      BY <1>1, <1>2, <2>1, SeenTyped DEF Takes, Readings
  <1>4. p \in Goals /\ p.kind = "payload"
    <2>1. head \in Goals
      BY <1>1, HeadTyped
    <2>2. <<"payload", head.field>> \in Members /\ head.field \in Fields /\ head.path \in Path
      <3>1. <<"string", head.field>> \in Members /\ head.field \in Fields /\ head.path \in Path
        BY <1>1, <2>1 DEF Goals, Width
      <3> QED
        BY <3>1 DEF Members
    <2> QED
      BY <1>3, <2>2 DEF Goal, Goals, Kinds
  <1>5. Filled = {} /\ Sized = {key}
    BY <1>1 DEF Filled, Sized, Readings
  <1>6. Grows({}, {key}) /\ parsed'.len[key] = v
    BY <1>2, GrowsBySize
  <1>7. agenda' = Then(more, Tail(agenda)) /\ Unfolds(v, more)
    BY <1>1, <1>2 DEF Then, Unfolds
  <1>8. Straight(more)
    <2>1. Straight(<<p>>) /\ Straight(<< >>)
      BY <1>4, StraightFew
    <2> QED
      BY <2>1
  <1> HIDE DEF more, key
  <1>9. Plain(v, more)
    BY <1>1, <1>3, <1>5, <1>6, <1>7, <1>8 DEF Plain
  <1> QED
    BY <1>9

\* ... a count,
LEMMA ReadCountPlain ==
    ASSUME TypeOK, FreshInv, ReadCount
    PROVE  \E v, more : Plain(v, more)
  <1>1. /\ agenda # << >> /\ head.kind \in Readings /\ head.kind = "count"
    BY DEF ReadCount, At, Width, Readings
  <1> DEFINE c == head.field
             name == Vector[c].name
             g == Goal("loop", head.path, c, 0)
             key == <<head.path, c>>
             vector == <<head.path, name>>
             more == <<g>>
  <1>2. PICK v : /\ v \in Seen(2) /\ Consume(2, v)
                 /\ parsed' = WithSize(WithValue(v), head.path, name,
                                       IF c = "objectCount" THEN 0 ELSE v)
    BY DEF ReadCount
  <1>3. v \in Nat /\ Takes(v)
    <2>1. HeadWidth = 2
      BY <1>1, HeadWidthIs DEF Width, Readings
    <2> QED
      BY <1>1, <1>2, <2>1, SeenTyped DEF Takes, Readings
  <1>4. c \in DOMAIN Vector /\ head.path \in Path /\ head.field \in Fields
    BY <1>1, HeadReads DEF Goals, Readings
  <1>5. Filled = {key} /\ Sized = {vector}
    BY <1>1 DEF Filled, Sized, Readings
  <1>6. /\ Grows({key}, {vector}) /\ parsed'.val[key] = v
        /\ parsed'.len[vector] = IF c = "objectCount" THEN 0 ELSE v
    <2> DEFINE m == IF c = "objectCount" THEN 0 ELSE v
    <2>1. parsed' = WithSize(WithValue(v), head.path, name, m)
      BY <1>2
    <2> HIDE DEF m, name
    <2>2. /\ Grows({key}, {vector}) /\ parsed'.val[key] = v
          /\ parsed'.len[vector] = m
      BY <2>1, GrowsByBoth
    <2> QED
      BY <2>2 DEF m
  <1>7. agenda' = Then(more, Tail(agenda)) /\ Unfolds(v, more)
    <2>1. agenda' = more \o Tail(agenda)
      BY DEF ReadCount
    <2> QED
      BY <1>1, <2>1 DEF Then, Unfolds
  <1>8. Straight(more)
    <2>1. g.kind = "loop"
      BY DEF Goal
    <2>2. <<g>> \in Seq(Goals)
      BY <1>4, GoalTyped
    <2>3. g \in Goals
      <3> HIDE DEF g
      <3>1. <<g>>[1] \in Goals
        BY <2>2
      <3> QED
        BY <3>1
    <2> HIDE DEF g
    <2> QED
      BY <2>1, <2>3, StraightFew
  <1>9. name # "objects" => c # "objectCount"
    BY ObjectsVector
  <1> HIDE DEF more
  <1>10. \A k \in {vector} : k[2] # "objects" => parsed'.len[k] = v
    BY <1>6, <1>9
  <1> HIDE DEF key, vector
  <1>11. Plain(v, more)
    BY <1>1, <1>3, <1>5, <1>6, <1>7, <1>8, <1>10 DEF Plain
  <1> QED
    BY <1>11

\* ... a type,
LEMMA ReadTypePlain ==
    ASSUME TypeOK, FreshInv, ReadType
    PROVE  \E v, more : Plain(v, more)
  <1>1. /\ agenda # << >> /\ head.kind \in Readings /\ head.kind = "type"
    BY DEF ReadType, At, Width, Readings
  <1>2. PICK v : /\ v \in Seen(1) /\ Consume(1, v) /\ parsed' = WithValue(v)
                 /\ agenda' = Reads(ReadVariableData[v], head.path) \o Tail(agenda)
    BY DEF ReadType
  <1>3. v \in Nat /\ Takes(v)
    <2>1. HeadWidth = 1
      BY <1>1, HeadWidthIs DEF Width, Readings
    <2> QED
      BY <1>1, <1>2, <2>1, SeenTyped DEF Takes, Readings
  <1>4. v \in 0..5 /\ head.path \in Path
    BY <1>1, <1>2, <1>3, HeadReads DEF Consume, Rejects, Readings
  <1> DEFINE more == Reads(ReadVariableData[v], head.path)
  <1>5. Straight(more)
    BY <1>4, VariableDataTyped, StraightReads
  <1>6. agenda' = Then(more, Tail(agenda)) /\ Unfolds(v, more)
    BY <1>1, <1>2, <1>4 DEF Then, Unfolds
  <1> HIDE DEF more
  <1>7. Plain(v, more)
    BY <1>1, <1>2, <1>3, <1>5, <1>6, FillsOnly DEF Plain
  <1> QED
    BY <1>7

\* ... the flag of the debug information,
LEMMA ReadDebugFlagPlain ==
    ASSUME TypeOK, FreshInv, ReadDebugFlag
    PROVE  \E v, more : Plain(v, more)
  <1>1. /\ agenda # << >> /\ head.kind \in Readings /\ head.kind = "debugFlag"
    BY DEF ReadDebugFlag, At, Width, Readings
  <1>2. PICK v : /\ v \in Seen(1) /\ Consume(1, v) /\ parsed' = WithValue(v)
                 /\ agenda' = (IF v = 0 THEN << >> ELSE Reads(DebugTable, head.path))
                                \o Tail(agenda)
    BY DEF ReadDebugFlag, DebugTable
  <1>3. v \in Nat /\ Takes(v)
    <2>1. HeadWidth = 1
      BY <1>1, HeadWidthIs DEF Width, Readings
    <2> QED
      BY <1>1, <1>2, <2>1, SeenTyped DEF Takes, Readings
  <1>4. head.path \in Path
    BY <1>1, HeadReads DEF Readings
  <1> DEFINE more == IF v = 0 THEN << >> ELSE Reads(DebugTable, head.path)
  <1>5. Straight(more)
    <2>1. Straight(Reads(DebugTable, head.path))
      BY <1>4, OptionsTyped, StraightReads DEF DebugTable
    <2> QED
      BY <2>1, StraightFew
  <1>6. agenda' = Then(more, Tail(agenda)) /\ Unfolds(v, more)
    BY <1>1, <1>2 DEF Then, Unfolds
  <1> HIDE DEF more
  <1>7. Plain(v, more)
    BY <1>1, <1>2, <1>3, <1>5, <1>6, FillsOnly DEF Plain
  <1> QED
    BY <1>7

\* ... the size of an object,
LEMMA ReadObjectSizePlain ==
    ASSUME TypeOK, FreshInv, ReadObjectSize
    PROVE  \E v, more : Plain(v, more)
  <1>1. /\ agenda # << >> /\ head.kind \in Readings /\ head.kind = "objectSize"
    BY DEF ReadObjectSize, At, Width, Readings
  <1> DEFINE objects == Size(parsed, << >>, "objects") + 1
             key == <<head.path, head.field>>
             vector == << << >>, "objects">>
  <1>2. PICK v : /\ v \in Seen(4) /\ Consume(4, v)
                 /\ parsed' = WithSize(WithValue(v), << >>, "objects", objects)
                 /\ agenda' = Reads(ReadObjectData, head.path)
                       \o <<Goal("objectEnd", head.path, "size",
                                 position + 4 + (v - 4))>>
                       \o Tail(agenda)
    BY DEF ReadObjectSize
  <1>3. v \in Nat /\ Takes(v)
    <2>1. HeadWidth = 4
      BY <1>1, HeadWidthIs DEF Width, Readings
    <2> QED
      BY <1>1, <1>2, <2>1, SeenTyped DEF Takes, Readings
  <1>4. head.path \in Path /\ "size" \in Fields
    <2>1. <<"objectSize", "size">> \in Members
      BY DEF Members
    <2> QED
      BY <1>1, <2>1, HeadReads DEF Readings, Fields
  <1> DEFINE n == position + 4 + (v - 4)
             g == Goal("objectEnd", head.path, "size", n)
             more == Then(Reads(ReadObjectData, head.path), <<g>>)
  <1>5. n \in Nat
    BY <1>3 DEF TypeOK
  <1> HIDE DEF n
  <1>6. Straight(more)
    <2>1. Straight(Reads(ReadObjectData, head.path))
      BY <1>4, ObjectDataTyped, StraightReads
    <2>2. <<g>> \in Seq(Goals) /\ g.kind = "objectEnd"
      BY <1>4, <1>5, GoalTyped DEF Goal
    <2>3. g \in Goals
      <3> HIDE DEF g
      <3>1. <<g>>[1] \in Goals
        BY <2>2
      <3> QED
        BY <3>1
    <2> HIDE DEF g
    <2> QED
      BY <2>1, <2>2, <2>3, StraightFew, StraightThen
  <1>7. agenda' = Then(more, Tail(agenda))
    BY <1>2 DEF Then, n
  <1>8. Unfolds(v, more)
    BY <1>1, <1>5 DEF Unfolds
  <1>9. Filled = {key} /\ Sized = {vector}
    BY <1>1 DEF Filled, Sized, Readings
  <1>10. Grows({key}, {vector}) /\ parsed'.val[key] = v
    BY <1>2, GrowsByBoth
  <1>11. \A k \in {vector} : k[2] # "objects" => parsed'.len[k] = v
    OBVIOUS
  <1> HIDE DEF more, key, vector
  <1>12. Plain(v, more)
    BY <1>1, <1>3, <1>6, <1>7, <1>8, <1>9, <1>10, <1>11 DEF Plain
  <1> QED
    BY <1>12

\* ... and the flags of a property;
LEMMA ReadPropertyFlagsPlain ==
    ASSUME TypeOK, FreshInv, ReadPropertyFlags
    PROVE  \E v, more : Plain(v, more)
  <1>1. /\ agenda # << >> /\ head.kind \in Readings /\ head.kind = "propertyFlags"
    BY DEF ReadPropertyFlags, At, Width, Readings
  <1>2. PICK v :
          /\ v \in Seen(1) /\ Consume(1, v) /\ parsed' = WithValue(v)
          /\ agenda' = AutoGoals(v) \o HandlerGoals(v, 1, "readHandler")
               \o HandlerGoals(v, 2, "writeHandler") \o Tail(agenda)
    BY DEF ReadPropertyFlags, AutoGoals, HandlerGoals
  <1>3. v \in Nat /\ Takes(v)
    <2>1. HeadWidth = 1
      BY <1>1, HeadWidthIs DEF Width, Readings
    <2> QED
      BY <1>1, <1>2, <2>1, SeenTyped DEF Takes, Readings
  <1>4. head.path \in Path
    BY <1>1, HeadReads DEF Readings
  <1>5. Straight(AutoGoals(v))
    <2>1. Straight(Reads(<< <<"u16", "autoVarName">> >>, head.path))
      BY <1>4, OptionsTyped, StraightReads
    <2> QED
      BY <2>1, StraightFew DEF AutoGoals
  <1>6. ASSUME NEW bit, NEW name \in {"readHandler", "writeHandler"}
        PROVE  Straight(HandlerGoals(v, bit, name))
    <2>1. Child(head.path, name, 0) \in Path
      BY <1>4, ChildTyped DEF Parts
    <2>2. Straight(Reads(ReadFunction, Child(head.path, name, 0)))
      BY <2>1, FunctionTyped, StraightReads
    <2> QED
      BY <2>2, StraightFew DEF HandlerGoals
  <1> DEFINE more == Then(Then(AutoGoals(v), HandlerGoals(v, 1, "readHandler")),
                          HandlerGoals(v, 2, "writeHandler"))
  <1>7. Straight(more)
    BY <1>5, <1>6, StraightThen
  <1>8. agenda' = Then(more, Tail(agenda)) /\ Unfolds(v, more)
    BY <1>1, <1>2 DEF Then, Unfolds
  <1> HIDE DEF more
  <1>9. Plain(v, more)
    BY <1>1, <1>2, <1>3, <1>7, <1>8, FillsOnly DEF Plain
  <1> QED
    BY <1>9

\* ... the head of a loop and the end of an object read nothing.
LEMMA QuietPlain ==
    ASSUME TypeOK, FreshInv, NextElement \/ ObjectEnds
    PROVE  \E v, more : Plain(v, more)
  <1>1. CASE ObjectEnds
    <2>1. /\ agenda # << >> /\ head.kind = "objectEnd" /\ parsed' = parsed
          /\ agenda' = Tail(agenda)
      BY <1>1 DEF ObjectEnds, At
    <2>2. agenda' = Then(<< >>, Tail(agenda))
      BY <2>1, HeadTyped, ThenNone
    <2>3. Unfolds(0, << >>) /\ head.kind \notin Readings
      BY <2>1, ReadKinds DEF Unfolds, Readings
    <2>4. Plain(0, << >>)
      BY <2>1, <2>2, <2>3, FillsNothing, StraightFew DEF Plain
    <2> QED
      BY <2>4
  <1>2. CASE NextElement
    <2> DEFINE more == IF head.n < Value(parsed, head.path, head.field)
                       THEN NextGoals ELSE << >>
               reads == Reads(Vector[head.field].element,
                              Child(head.path, Vector[head.field].name, head.n + 1))
    <2>1. /\ agenda # << >> /\ head.kind = "loop" /\ parsed' = parsed
          /\ agenda' = IF head.n < Value(parsed, head.path, head.field)
                       THEN reads \o <<Successor>> \o Tail(agenda) ELSE Tail(agenda)
      BY <1>2 DEF NextElement, At, Successor
    <2>2. agenda' = Then(more, Tail(agenda))
      <3>1. Then(<< >>, Tail(agenda)) = Tail(agenda)
        BY <2>1, HeadTyped, ThenNone
      <3> QED
        BY <2>1, <3>1 DEF Then, NextGoals
    <2>3. /\ head \in Goals /\ head.path \in Path /\ head.field \in DOMAIN Vector
          /\ head.n \in Nat
      <3>1. head \in Goals
        BY <2>1, HeadTyped
      <3> QED
        BY <2>1, <3>1 DEF Goals
    <2>4. Straight(reads)
      <3>1. /\ Vector[head.field].element \in Seq(Reading)
            /\ Vector[head.field].name \in Parts /\ head.n + 1 \in Nat
        BY <2>3, VectorTyped
      <3>2. Child(head.path, Vector[head.field].name, head.n + 1) \in Path
        BY <2>3, <3>1, ChildTyped
      <3> QED
        BY <3>1, <3>2, StraightReads
    <2>5. Straight(<<Successor>>)
      <3>1. head \in [kind : Kinds, path : Path, field : Fields, n : Nat]
        BY <2>3 DEF Goals
      <3>2. Successor \in [kind : Kinds, path : Path, field : Fields, n : Nat]
            /\ Successor.kind = head.kind /\ Successor.field = head.field
        BY <2>3, <3>1 DEF Successor
      <3>3. Successor \in Goals
        BY <2>1, <2>3, <3>2, ReadKinds DEF Goals
      <3> QED
        BY <2>1, <3>2, <3>3, StraightFew
    <2>6. Straight(more)
      BY <2>4, <2>5, StraightFew, StraightThen DEF NextGoals
    <2>7. Unfolds(0, more) /\ head.kind \notin Readings
      BY <2>1, ReadKinds DEF Unfolds, Readings
    <2> HIDE DEF more
    <2>8. Plain(0, more)
      BY <2>1, <2>2, <2>6, <2>7, FillsNothing DEF Plain
    <2> QED
      BY <2>8
  <1> QED
    BY <1>1, <1>2

\* Every step has this form, or is about an instruction.
LEMMA PlainStep ==
    ASSUME TypeOK, FreshInv, ReadStep
    PROVE  \/ \E v, more : Plain(v, more)
           \/ ReadOpcode \/ ReadCallArguments \/ PushArgument
  BY ReadScalarPlain, ReadLengthPlain, ReadCountPlain, ReadTypePlain,
     ReadDebugFlagPlain, ReadObjectSizePlain, ReadPropertyFlagsPlain, QuietPlain
     DEF ReadStep

-----------------------------------------------------------------------------
(* The arguments of an instruction are as many as its opcode says, and, of  *)
(* a call, as the argument says that counts the further ones.               *)

\* The instruction at q has k arguments, as many as its opcode asks for, and
\* if it is a call as many more as its last header argument says.
Instructed(d, q, k) ==
    LET op == Value(d, q, "op")
        n == HeaderArgumentCount(op)
        last == Child(q, "arguments", n)
    IN  /\ op \in Calls =>
              /\ Value(d, last, "type") = 3
              /\ <<last, "int32">> \in DOMAIN d.val
              /\ Signed(Value(d, last, "int32")) \in Nat
              /\ k = n + Signed(Value(d, last, "int32"))
        /\ op \notin Calls => k = n

\* So have all instructions of d.
Shaped(d) == \A q \in Path : Instructed(d, q, Size(d, q, "arguments"))

\* The goal g comes before the i-th.
Earlier(goals, g, i) == \E k \in DOMAIN goals : k < i /\ goals[k] = g

\* A call that waits for its header arguments: the one that counts is still
\* to be read, or was read, and if it is an integer so is its value.
Waits(p, goals, i) ==
    LET q == goals[i].path
        n == goals[i].n
        last == Child(q, "arguments", n)
    IN  /\ Value(p, q, "op") \in Calls
        /\ n = HeaderArgumentCount(Value(p, q, "op"))
        /\ \/ Earlier(goals, ReadArgument(q, n), i)
           \/ /\ <<last, "type">> \in DOMAIN p.val
              /\ p.val[<<last, "type">>] = 3 =>
                    \/ <<last, "int32">> \in DOMAIN p.val
                    \/ Earlier(goals, Goal("u32", last, "int32", 0), i)

\* So do all calls.
CallsWait(p, goals) ==
    \A i \in DOMAIN goals : goals[i].kind = "callArguments" => Waits(p, goals, i)

\* The instructions parsed have their arguments, pushed or to be pushed.
InstructionsIn(p, goals) ==
    \A q \in Path : ~InLocals(goals, q) =>
        Instructed(p, q, Size(p, q, "arguments") + Pushes(goals, q))

\* The invariant of the instructions.
ShapeInv == InstructionsIn(parsed, agenda) /\ CallsWait(parsed, agenda)

\* Opcode 0 is no call, and a call has three or four header arguments.
LEMMA CallsAre ==
    /\ 0 \notin Calls /\ HeaderArgumentCount(0) = 0
    /\ \A op \in Calls : HeaderArgumentCount(op) \in {3, 4}
  BY DEF Calls, callmethod, callparent, callstatic, HeaderArgumentCount, nop,
         array_rfindelement

\* What comes before a goal still does, unless it was the goal at hand.
LEMMA EarlierStep ==
    ASSUME TypeOK, agenda # << >>, NEW more \in Seq(Goals),
           agenda' = Then(more, Tail(agenda)), NEW j \in DOMAIN Tail(agenda)
    PROVE  /\ j + 1 \in DOMAIN agenda /\ agenda[j + 1] = Tail(agenda)[j]
           /\ Len(more) + j \in DOMAIN agenda' /\ agenda'[Len(more) + j] = Tail(agenda)[j]
           /\ \A g : Earlier(agenda, g, j + 1) =>
                        g = head \/ Earlier(agenda', g, Len(more) + j)
           /\ \A m \in DOMAIN more : Earlier(agenda', more[m], Len(more) + j)
  <1> DEFINE t == Tail(agenda)
  <1>1. t \in Seq(Goals) /\ Len(more) \in Nat /\ Len(t) \in Nat /\ j \in 1..Len(t)
    BY HeadTyped
  <1>2. /\ Len(agenda) \in Nat /\ Len(agenda) = Len(t) + 1 /\ agenda[1] = head
        /\ DOMAIN agenda = 1..Len(agenda)
        /\ \A i \in 1..Len(t) : t[i] = agenda[i + 1]
    BY HeadIs, <1>1 DEF TypeOK
  <1> HIDE DEF t
  <1>3. /\ DOMAIN agenda' = 1..(Len(more) + Len(t))
        /\ \A i \in 1..Len(more) : agenda'[i] = more[i]
        /\ \A i \in (Len(more) + 1)..(Len(more) + Len(t)) : agenda'[i] = t[i - Len(more)]
    BY <1>1, ThenAt DEF t
  <1>4. \A i \in 1..Len(t) : /\ Len(more) + i \in DOMAIN agenda'
                             /\ agenda'[Len(more) + i] = t[i]
    <2> SUFFICES ASSUME NEW i \in 1..Len(t)
                 PROVE  Len(more) + i \in DOMAIN agenda' /\ agenda'[Len(more) + i] = t[i]
      OBVIOUS
    <2>1. /\ Len(more) + i \in (Len(more) + 1)..(Len(more) + Len(t))
          /\ Len(more) + i \in 1..(Len(more) + Len(t))
          /\ (Len(more) + i) - Len(more) = i
      BY <1>1
    <2> QED
      BY <1>3, <2>1
  <1>5. ASSUME NEW g, Earlier(agenda, g, j + 1), g # head
        PROVE  Earlier(agenda', g, Len(more) + j)
    <2>1. PICK k \in DOMAIN agenda : k < j + 1 /\ agenda[k] = g
      BY <1>5 DEF Earlier
    <2>2. k # 1 /\ k \in 1..Len(agenda)
      BY <1>2, <1>5, <2>1
    <2>3. k - 1 \in 1..Len(t) /\ (k - 1) + 1 = k /\ Len(more) + (k - 1) < Len(more) + j
      BY <1>1, <1>2, <2>1, <2>2
    <2>4. t[k - 1] = g
      BY <1>2, <2>1, <2>3
    <2> QED
      BY <1>4, <2>3, <2>4 DEF Earlier
  <1>6. \A m \in DOMAIN more : Earlier(agenda', more[m], Len(more) + j)
    <2> SUFFICES ASSUME NEW m \in DOMAIN more
                 PROVE  Earlier(agenda', more[m], Len(more) + j)
      OBVIOUS
    <2>1. /\ m \in 1..Len(more) /\ m \in 1..(Len(more) + Len(t))
          /\ m < Len(more) + j
      BY <1>1
    <2> QED
      BY <1>3, <2>1 DEF Earlier
  <1>7. j + 1 \in DOMAIN agenda /\ agenda[j + 1] = t[j]
    BY <1>1, <1>2
  <1> QED
    BY <1>1, <1>4, <1>5, <1>6, <1>7 DEF t

\* Values that were set stay.
LEMMA ValueStays ==
    ASSUME NEW values, NEW sizes, Grows(values, sizes),
           values \cap DOMAIN parsed.val = {}
    PROVE  /\ \A q, f : <<q, f>> \in DOMAIN parsed.val =>
                 /\ <<q, f>> \in DOMAIN parsed'.val
                 /\ parsed'.val[<<q, f>>] = parsed.val[<<q, f>>]
           /\ \A q, f : Value(parsed, q, f) # 0 =>
                 Value(parsed', q, f) = Value(parsed, q, f)
  <1>1. \A q, f : <<q, f>> \in DOMAIN parsed.val =>
                 /\ <<q, f>> \in DOMAIN parsed'.val
                 /\ parsed'.val[<<q, f>>] = parsed.val[<<q, f>>]
    BY DEF Grows, Extends
  <1> QED
    BY <1>1 DEF Value

\* A call that waits goes on waiting, until all that it waits for is there.
LEMMA WaitsStep ==
    ASSUME TypeOK, agenda # << >>, CallsWait(parsed, agenda),
           NEW more \in Seq(Goals), agenda' = Then(more, Tail(agenda)),
           NEW values, NEW sizes, Grows(values, sizes),
           values \cap DOMAIN parsed.val = {},
           head.kind \in {"type", "u32"} => <<head.path, head.field>> \in DOMAIN parsed'.val,
           head.kind = "type" /\ parsed'.val[<<head.path, head.field>>] = 3 =>
              \E m \in DOMAIN more : more[m] = Goal("u32", head.path, "int32", 0),
           NEW j \in DOMAIN Tail(agenda), Tail(agenda)[j].kind = "callArguments"
    PROVE  /\ Len(more) + j \in DOMAIN agenda'
           /\ agenda'[Len(more) + j] = Tail(agenda)[j]
           /\ Waits(parsed', agenda', Len(more) + j)
  <1> DEFINE g == Tail(agenda)[j]
             i == Len(more) + j
             q == g.path
             n == g.n
             last == Child(q, "arguments", n)
             int == Goal("u32", last, "int32", 0)
  <1>1. /\ j + 1 \in DOMAIN agenda /\ agenda[j + 1] = g
        /\ i \in DOMAIN agenda' /\ agenda'[i] = g
        /\ \A h : Earlier(agenda, h, j + 1) => h = head \/ Earlier(agenda', h, i)
        /\ \A m \in DOMAIN more : Earlier(agenda', more[m], i)
    BY EarlierStep
  <1>2. Waits(parsed, agenda, j + 1)
    BY <1>1 DEF CallsWait
  <1> HIDE DEF g, i
  <1>3. /\ Value(parsed, q, "op") \in Calls
        /\ n = HeaderArgumentCount(Value(parsed, q, "op"))
        /\ \/ Earlier(agenda, ReadArgument(q, n), j + 1)
           \/ /\ <<last, "type">> \in DOMAIN parsed.val
              /\ parsed.val[<<last, "type">>] = 3 =>
                    \/ <<last, "int32">> \in DOMAIN parsed.val
                    \/ Earlier(agenda, int, j + 1)
    BY <1>1, <1>2 DEF Waits
  <1>4. Value(parsed', q, "op") = Value(parsed, q, "op")
    BY <1>3, CallsAre, ValueStays
  <1>5. \/ Earlier(agenda', ReadArgument(q, n), i)
        \/ /\ <<last, "type">> \in DOMAIN parsed'.val
           /\ parsed'.val[<<last, "type">>] = 3 =>
                 \/ <<last, "int32">> \in DOMAIN parsed'.val
                 \/ Earlier(agenda', int, i)
    <2>1. CASE Earlier(agenda, ReadArgument(q, n), j + 1)
      <3>1. CASE head = ReadArgument(q, n)
        <4>1. head.kind = "type" /\ head.path = last /\ head.field = "type"
          BY <3>1 DEF ReadArgument, Goal
        <4> HIDE DEF last
        <4> QED
          BY <1>1, <4>1
      <3> QED
        BY <1>1, <2>1, <3>1
    <2>2. CASE /\ <<last, "type">> \in DOMAIN parsed.val
               /\ parsed.val[<<last, "type">>] = 3 =>
                     \/ <<last, "int32">> \in DOMAIN parsed.val
                     \/ Earlier(agenda, int, j + 1)
      <3>1. CASE head = int
        <4>1. head.kind = "u32" /\ head.path = last /\ head.field = "int32"
          BY <3>1 DEF Goal
        <4> HIDE DEF last
        <4> QED
          BY <2>2, <4>1, ValueStays
      <3> HIDE DEF last, int
      <3> QED
        BY <1>1, <2>2, <3>1, ValueStays
    <2> QED
      BY <1>3, <2>1, <2>2
  <1>6. Waits(parsed', agenda', i)
    BY <1>1, <1>3, <1>4, <1>5 DEF Waits
  <1> QED
    BY <1>1, <1>6 DEF g, i

\* Calls among the goals that are left are calls that waited.
LEMMA CallsWaitStep ==
    ASSUME TypeOK, agenda # << >>, CallsWait(parsed, agenda),
           NEW more \in Seq(Goals), agenda' = Then(more, Tail(agenda)),
           NEW values, NEW sizes, Grows(values, sizes),
           values \cap DOMAIN parsed.val = {},
           head.kind \in {"type", "u32"} => <<head.path, head.field>> \in DOMAIN parsed'.val,
           head.kind = "type" /\ parsed'.val[<<head.path, head.field>>] = 3 =>
              \E m \in DOMAIN more : more[m] = Goal("u32", head.path, "int32", 0),
           \A i \in DOMAIN more :
              more[i].kind = "callArguments" => Waits(parsed', agenda', i)
    PROVE  CallsWait(parsed', agenda')
  <1> DEFINE t == Tail(agenda)
  <1>1. t \in Seq(Goals) /\ more \in Seq(Goals)
    BY HeadTyped
  <1>2. \A j \in DOMAIN t : t[j].kind = "callArguments" =>
                              Waits(parsed', agenda', Len(more) + j)
    BY WaitsStep
  <1> HIDE DEF t
  <1>3. \A i \in DOMAIN Then(more, t) :
           \/ i \in DOMAIN more /\ Then(more, t)[i] = more[i]
           \/ i - Len(more) \in DOMAIN t /\ Then(more, t)[i] = t[i - Len(more)]
    BY <1>1, ThenPart
  <1>4. \A i \in DOMAIN Then(more, t) : Len(more) + (i - Len(more)) = i
    <2>1. /\ Len(more) \in Nat /\ Len(t) \in Nat
          /\ DOMAIN Then(more, t) = 1..(Len(more) + Len(t))
      BY <1>1, ThenAt
    <2> QED
      BY <2>1
  <1>5. agenda' = Then(more, t)
    BY DEF t
  <1>6. ASSUME NEW i \in DOMAIN agenda', agenda'[i].kind = "callArguments"
        PROVE  Waits(parsed', agenda', i)
    <2>1. CASE i \in DOMAIN more /\ agenda'[i] = more[i]
      BY <1>6, <2>1
    <2>2. CASE i - Len(more) \in DOMAIN t /\ agenda'[i] = t[i - Len(more)]
      <3>1. Waits(parsed', agenda', Len(more) + (i - Len(more)))
        BY <1>2, <1>6, <2>2
      <3> QED
        BY <1>4, <1>5, <1>6, <3>1
    <2> QED
      BY <1>3, <1>5, <1>6, <2>1, <2>2
  <1> QED
    BY <1>6 DEF CallsWait

\* Members set elsewhere leave an instruction whole.
LEMMA InstructedStays ==
    ASSUME NEW values, NEW sizes, Grows(values, sizes),
           values \cap DOMAIN parsed.val = {},
           NEW q, Value(parsed', q, "op") = Value(parsed, q, "op"),
           NEW k, Instructed(parsed, q, k)
    PROVE  Instructed(parsed', q, k)
  <1> DEFINE op == Value(parsed, q, "op")
             last == Child(q, "arguments", HeaderArgumentCount(op))
  <1>1. CASE op \in Calls
    <2>1. /\ Value(parsed, last, "type") = 3
          /\ <<last, "int32">> \in DOMAIN parsed.val
          /\ Signed(Value(parsed, last, "int32")) \in Nat
          /\ k = HeaderArgumentCount(op) + Signed(Value(parsed, last, "int32"))
      BY <1>1 DEF Instructed
    <2>2. /\ Value(parsed', last, "type") = 3
          /\ <<last, "int32">> \in DOMAIN parsed'.val
          /\ Value(parsed', last, "int32") = Value(parsed, last, "int32")
      <3> HIDE DEF last
      <3> QED
        BY <2>1, ValueStays DEF Value
    <2> QED
      BY <1>1, <2>1, <2>2 DEF Instructed
  <1>2. CASE op \notin Calls
    BY <1>2 DEF Instructed
  <1> QED
    BY <1>1, <1>2

\* A plain step sets no opcode, no arguments, and no member twice.
LEMMA PlainKinds ==
    ASSUME TypeOK, FreshInv, NEW v, NEW more, Plain(v, more)
    PROVE  /\ Filled \cap DOMAIN parsed.val = {}
           /\ \A q, f : <<q, f>> \in Filled => f # "op"
           /\ \A q, f : <<q, f>> \in Sized => f # "arguments"
  <1>1. agenda # << >> /\ head.kind \notin {"opcode", "callArguments", "push"}
    BY DEF Plain
  <1>2. head \in Goals
    BY <1>1, HeadTyped
  <1>3. Filled \cap DOMAIN parsed.val = {}
    BY <1>1, HeadSets DEF Filled, Readings
  <1>4. ASSUME NEW q, NEW f, <<q, f>> \in Filled PROVE f # "op"
    <2>1. head.kind \in Readings /\ f = head.field
      BY <1>4 DEF Filled
    <2>2. <<head.kind, head.field>> \in Members
      BY <1>2, <2>1 DEF Goals, Readings
    <2> QED
      BY <1>1, <2>1, <2>2 DEF Members, Vector
  <1>5. ASSUME NEW q, NEW f, <<q, f>> \in Sized PROVE f # "arguments"
    <2>1. CASE head.kind = "string"
      <3>1. f = head.field /\ head.field \notin VectorNames
        BY <1>1, <1>5, <2>1, HeadReads DEF Sized, Width
      <3> QED
        BY <3>1 DEF VectorNames
    <2>2. CASE head.kind = "count"
      <3>1. f = Vector[head.field].name /\ head.field \in DOMAIN Vector
        BY <1>1, <1>5, <2>2, HeadReads DEF Sized, Width
      <3> QED
        BY <3>1, ObjectsVector
    <2> QED
      BY <1>5, <2>1, <2>2 DEF Sized
  <1> QED
    BY <1>3, <1>4, <1>5

\* It begins and ends no call.
LEMMA PlainLocals ==
    ASSUME TypeOK, NEW v, NEW more, Plain(v, more)
    PROVE  /\ \A q : InLocals(agenda', q) <=> InLocals(agenda, q)
           /\ \A q : Pushes(agenda', q) = Pushes(agenda, q)
  <1>1. /\ agenda # << >> /\ head.kind \notin {"opcode", "callArguments", "push"}
        /\ more \in Seq(Goals) /\ agenda' = Then(more, Tail(agenda))
        /\ \A i \in DOMAIN more : more[i].kind \notin {"callArguments", "push"}
    BY DEF Plain, Straight
  <1>2. \A q : ~InLocals(more, q)
    BY <1>1 DEF InLocals
  <1>3. \A q : InLocals(agenda', q) <=> InLocals(agenda, q)
    BY <1>1, <1>2, InLocalsStep
  <1>4. ASSUME NEW q PROVE Pushes(agenda', q) = Pushes(agenda, q)
    <2>1. PushAt(q)[head] = 0
      BY <1>1, HeadTyped, PushAtTyped
    <2>2. Pushes(more, q) = 0
      BY <1>1, NoPushesAmong
    <2> QED
      BY <1>1, <2>1, <2>2, PushesStep
  <1> QED
    BY <1>3, <1>4

\* So it keeps the instructions in shape.
LEMMA PlainShape ==
    ASSUME TypeOK, FreshInv, ShapeInv, NEW v, NEW more, Plain(v, more)
    PROVE  ShapeInv'
  <1>1. /\ agenda # << >> /\ head.kind \notin {"opcode", "callArguments", "push"}
        /\ more \in Seq(Goals) /\ agenda' = Then(more, Tail(agenda))
        /\ \A i \in DOMAIN more : more[i].kind \notin {"callArguments", "push"}
        /\ Grows(Filled, Sized)
        /\ \A k \in Filled : parsed'.val[k] = v
    BY DEF Plain, Straight
  <1>2. /\ Filled \cap DOMAIN parsed.val = {}
        /\ \A q, f : <<q, f>> \in Filled => f # "op"
        /\ \A q, f : <<q, f>> \in Sized => f # "arguments"
    BY PlainKinds
  <1>3. head.kind \in {"type", "u32"} => <<head.path, head.field>> \in Filled
    BY DEF Filled, Readings, Width
  <1>4. head.kind \in {"type", "u32"} => <<head.path, head.field>> \in DOMAIN parsed'.val
    BY <1>1, <1>3 DEF Grows, Extends
  <1>5. ASSUME head.kind = "type", parsed'.val[<<head.path, head.field>>] = 3
        PROVE  \E m \in DOMAIN more : more[m] = Goal("u32", head.path, "int32", 0)
    <2>1. v = 3
      BY <1>1, <1>3, <1>5
    <2>2. more = Reads(ReadVariableData[v], head.path)
      BY <1>5 DEF Plain, Unfolds
    <2>3. ReadVariableData[3] = << <<"u32", "int32">> >>
      BY DEF ReadVariableData
    <2>4. 1 \in DOMAIN more /\ more[1] = Goal("u32", head.path, "int32", 0)
      BY <2>1, <2>2, <2>3 DEF Reads
    <2> QED
      BY <2>4
  <1>6. CallsWait(parsed', agenda')
    BY <1>1, <1>2, <1>4, <1>5, CallsWaitStep DEF ShapeInv
  <1>7. ASSUME NEW q \in Path, ~InLocals(agenda', q)
        PROVE  Instructed(parsed', q, Size(parsed', q, "arguments") + Pushes(agenda', q))
    <2>1. ~InLocals(agenda, q) /\ Pushes(agenda', q) = Pushes(agenda, q)
      BY <1>7, PlainLocals
    <2>2. Size(parsed', q, "arguments") = Size(parsed, q, "arguments")
      BY <1>1, <1>2 DEF Size, Grows, Extends
    <2>3. Value(parsed', q, "op") = Value(parsed, q, "op")
      BY <1>1, <1>2 DEF Value, Grows, Extends
    <2>4. Instructed(parsed, q, Size(parsed, q, "arguments") + Pushes(agenda, q))
      BY <2>1 DEF ShapeInv, InstructionsIn
    <2> QED
      BY <1>1, <1>2, <2>1, <2>2, <2>3, <2>4, InstructedStays
  <1> QED
    BY <1>6, <1>7 DEF ShapeInv, InstructionsIn

\* The goals an opcode leaves: its first arguments and, of a call, the wait
\* for them.
FirstOf(path, n) == [i \in 1..n |-> ReadArgument(path, i)]

\* The wait of a call for its header arguments.
CallGoal(path, v) ==
    IF v \in Calls THEN <<Goal("callArguments", path, "op", HeaderArgumentCount(v))>>
    ELSE << >>

\* What reading an opcode does.
Opens(v, more) ==
    /\ agenda # << >> /\ head.kind = "opcode" /\ head.field = "op"
    /\ head.path \in Path /\ Takes(v)
    /\ more \in Seq(Goals) /\ agenda' = Then(more, Tail(agenda))
    /\ more = Then(FirstOf(head.path, HeaderArgumentCount(v)), CallGoal(head.path, v))
    /\ Grows({<<head.path, "op">>}, {<<head.path, "arguments">>})
    /\ parsed'.val[<<head.path, "op">>] = v
    /\ parsed'.len[<<head.path, "arguments">>] =
          IF v \in Calls THEN 0 ELSE HeaderArgumentCount(v)

\* Each of those goals.
LEMMA OpeningGoals ==
    ASSUME NEW path \in Path, NEW v
    PROVE  LET n == HeaderArgumentCount(v)
               more == Then(FirstOf(path, n), CallGoal(path, v))
           IN  /\ more \in Seq(Goals) /\ n \in Nat
               /\ v \notin Calls => DOMAIN more = 1..n
               /\ v \in Calls => DOMAIN more = 1..(n + 1)
               /\ \A i \in 1..n : i \in DOMAIN more /\ more[i] = ReadArgument(path, i)
               /\ v \in Calls =>
                     more[n + 1] = Goal("callArguments", path, "op", n)
  <1> DEFINE n == HeaderArgumentCount(v)
             a == FirstOf(path, n)
             g == Goal("callArguments", path, "op", n)
  <1>1. n \in Nat
    BY HeaderTyped
  <1> HIDE DEF n
  <1>2. /\ a \in Seq(Goals) /\ Len(a) = n /\ DOMAIN a = 1..n
        /\ \A i \in 1..n : a[i] = ReadArgument(path, i)
    <2>1. \A i \in 1..n : ReadArgument(path, i) \in Goals
      BY ReadArgumentIs
    <2> QED
      BY <1>1, <2>1 DEF FirstOf
  <1>3. g \in Goals
    <2>1. <<"opcode", "op">> \in Members
      BY DEF Members
    <2>2. <<g>> \in Seq(Goals)
      BY <1>1, <2>1, GoalTyped DEF Fields
    <2> HIDE DEF g
    <2>3. <<g>>[1] \in Goals
      BY <2>2
    <2> QED
      BY <2>3
  <1> HIDE DEF a, g
  <1>4. CASE v \in Calls
    <2>1. CallGoal(path, v) = <<g>>
      BY <1>4 DEF CallGoal, g, n
    <2>2. /\ Then(a, <<g>>) \in Seq(Goals)
          /\ DOMAIN Then(a, <<g>>) = 1..(n + 1)
          /\ \A i \in 1..n : Then(a, <<g>>)[i] = a[i]
          /\ Then(a, <<g>>)[n + 1] = g
      BY <1>1, <1>2, <1>3 DEF Then
    <2> QED
      BY <1>1, <1>2, <1>4, <2>1, <2>2 DEF a, g, n
  <1>5. CASE v \notin Calls
    <2>1. CallGoal(path, v) = << >>
      BY <1>5 DEF CallGoal
    <2>2. Then(a, << >>) = a
      BY <1>2, ThenNone
    <2> QED
      BY <1>1, <1>2, <1>5, <2>1, <2>2 DEF a, n
  <1> QED
    BY <1>4, <1>5

\* Reading an opcode does this.
LEMMA ReadOpcodeOpens ==
    ASSUME TypeOK, FreshInv, ReadOpcode
    PROVE  \E v, more : Opens(v, more)
  <1>1. /\ agenda # << >> /\ head.kind \in DOMAIN Width \cup {"payload"}
        /\ head.kind = "opcode"
    BY DEF ReadOpcode, At, Width
  <1>2. PICK v :
          /\ v \in Seen(1) /\ Consume(1, v)
          /\ parsed' = WithSize(WithValue(v), head.path, "arguments",
                                IF v \in Calls THEN 0 ELSE HeaderArgumentCount(v))
          /\ agenda' = FirstOf(head.path, HeaderArgumentCount(v))
                       \o CallGoal(head.path, v) \o Tail(agenda)
    BY DEF ReadOpcode, FirstOf, CallGoal
  <1> DEFINE n == HeaderArgumentCount(v)
             k == IF v \in Calls THEN 0 ELSE n
             more == Then(FirstOf(head.path, n), CallGoal(head.path, v))
  <1>3. Takes(v)
    <2>1. HeadWidth = 1
      BY <1>1, HeadWidthIs DEF Width
    <2> QED
      BY <1>1, <1>2, <2>1, SeenTyped DEF Takes
  <1>4. head.path \in Path /\ head.field = "op"
    <2>1. head \in Goals /\ head.path \in Path
      BY <1>1, HeadReads
    <2> QED
      BY <1>1, <2>1 DEF Goals, Members
  <1>5. /\ Grows({<<head.path, "op">>}, {<<head.path, "arguments">>})
        /\ parsed'.val[<<head.path, "op">>] = v
        /\ parsed'.len[<<head.path, "arguments">>] = k
    <2>1. parsed' = WithSize(WithValue(v), head.path, "arguments", k)
      BY <1>2
    <2> HIDE DEF k
    <2> QED
      BY <1>4, <2>1, GrowsByBoth
  <1>6. more \in Seq(Goals)
    BY <1>4, OpeningGoals
  <1>7. agenda' = Then(more, Tail(agenda))
    BY <1>2 DEF Then
  <1>8. Opens(v, more)
    BY <1>1, <1>3, <1>4, <1>5, <1>6, <1>7 DEF Opens
  <1> QED
    BY <1>8

\* The instruction of the opcode is new, and waits if it is a call.
LEMMA OpensLocals ==
    ASSUME TypeOK, FreshInv, NEW v, NEW more, Opens(v, more)
    PROVE  /\ \A i \in DOMAIN more :
                 \/ i \in 1..HeaderArgumentCount(v) /\ more[i] = ReadArgument(head.path, i)
                 \/ /\ v \in Calls /\ i = HeaderArgumentCount(v) + 1
                    /\ more[i] = Goal("callArguments", head.path, "op", HeaderArgumentCount(v))
           /\ \A q : Pushes(agenda', q) = Pushes(agenda, q)
           /\ Pushes(agenda, head.path) = 0
           /\ ~InLocals(agenda, head.path)
           /\ \A q : InLocals(agenda', q) <=>
                        (q = head.path /\ v \in Calls) \/ InLocals(agenda, q)
           /\ <<head.path, "op">> \notin DOMAIN parsed.val
  <1> DEFINE n == HeaderArgumentCount(v)
  <1>1. /\ agenda # << >> /\ head.kind = "opcode" /\ head.field = "op"
        /\ head.path \in Path
        /\ more \in Seq(Goals) /\ agenda' = Then(more, Tail(agenda))
        /\ more = Then(FirstOf(head.path, n), CallGoal(head.path, v))
    BY DEF Opens
  <1>2. /\ n \in Nat
        /\ v \notin Calls => DOMAIN more = 1..n
        /\ v \in Calls => DOMAIN more = 1..(n + 1)
        /\ \A i \in 1..n : i \in DOMAIN more /\ more[i] = ReadArgument(head.path, i)
        /\ v \in Calls => more[n + 1] = Goal("callArguments", head.path, "op", n)
    BY <1>1, OpeningGoals
  <1> HIDE DEF n
  <1>3. ASSUME NEW i \in DOMAIN more
        PROVE  \/ i \in 1..n /\ more[i] = ReadArgument(head.path, i)
               \/ v \in Calls /\ i = n + 1 /\ more[i] = Goal("callArguments", head.path, "op", n)
    BY <1>2
  <1>4. \A i \in DOMAIN more : \/ more[i].kind = "type"
                               \/ /\ more[i].kind = "callArguments"
                                  /\ more[i].path = head.path /\ v \in Calls
    <2> SUFFICES ASSUME NEW i \in DOMAIN more
                 PROVE  \/ more[i].kind = "type"
                        \/ /\ more[i].kind = "callArguments"
                           /\ more[i].path = head.path /\ v \in Calls
      OBVIOUS
    <2>1. CASE i \in 1..n /\ more[i] = ReadArgument(head.path, i)
      <3>1. ReadArgument(head.path, i).kind = "type"
        BY DEF ReadArgument, Goal
      <3> QED
        BY <2>1, <3>1
    <2>2. CASE v \in Calls /\ more[i] = Goal("callArguments", head.path, "op", n)
      <3>1. /\ Goal("callArguments", head.path, "op", n).kind = "callArguments"
            /\ Goal("callArguments", head.path, "op", n).path = head.path
        BY DEF Goal
      <3> QED
        BY <2>2, <3>1
    <2> QED
      BY <1>3, <2>1, <2>2
  <1>5. \A q : InLocals(more, q) <=> q = head.path /\ v \in Calls
    <2>1. ASSUME NEW q, InLocals(more, q) PROVE q = head.path /\ v \in Calls
      BY <1>4, <2>1 DEF InLocals
    <2>2. ASSUME v \in Calls PROVE InLocals(more, head.path)
      BY <1>2, <2>2 DEF InLocals, Goal
    <2> QED
      BY <2>1, <2>2
  <1>6. /\ \A q : InLocals(agenda, q) <=> InLocals(Tail(agenda), q)
        /\ \A q : InLocals(agenda', q) <=> InLocals(more, q) \/ InLocals(Tail(agenda), q)
    BY <1>1, InLocalsStep
  <1>7. ~InLocals(Tail(agenda), head.path)
    <2> SUFFICES ASSUME InLocals(Tail(agenda), head.path) PROVE FALSE
      OBVIOUS
    <2>1. Tail(agenda) \in Seq(Goals)
      BY <1>1, HeadTyped
    <2>2. PICK i \in DOMAIN Tail(agenda) :
             /\ Tail(agenda)[i].kind = "callArguments"
             /\ Tail(agenda)[i].path = head.path
      BY DEF InLocals
    <2>3. /\ 1 \in DOMAIN agenda /\ agenda[1] = head
          /\ i + 1 \in DOMAIN agenda /\ Tail(agenda)[i] = agenda[i + 1]
          /\ i + 1 # 1
      BY <1>1, <2>1, HeadIs DEF TypeOK
    <2>4. Disjoint(head, agenda[i + 1])
      BY <2>3 DEF FreshInv, Apart
    <2>5. Owns(head, "len", head.path, "arguments")
      BY <1>1 DEF Owns, Tags
    <2>6. Owns(agenda[i + 1], "len", head.path, "arguments")
      BY <2>2, <2>3 DEF Owns, Tags
    <2> QED
      BY <1>1, <2>4, <2>5, <2>6 DEF Disjoint
  <1>8. \A q : Pushes(agenda', q) = Pushes(agenda, q)
    <2> SUFFICES ASSUME NEW q PROVE Pushes(agenda', q) = Pushes(agenda, q)
      OBVIOUS
    <2>1. PushAt(q)[head] = 0
      BY <1>1, HeadTyped, PushAtTyped
    <2>2. Pushes(more, q) = 0
      BY <1>1, <1>4, NoPushesAmong
    <2> QED
      BY <1>1, <2>1, <2>2, PushesStep
  <1>9. Pushes(agenda, head.path) = 0
    <2>1. PushAt(head.path)[head] = 0
      BY <1>1, HeadTyped, PushAtTyped
    <2>2. Pushes(Tail(agenda), head.path) = 0
      BY <1>1, NoPushesYet
    <2> QED
      BY <1>1, <2>1, <2>2, PushesStep
  <1>10. <<head.path, "op">> \notin DOMAIN parsed.val
    BY <1>1, HeadSets DEF Width
  <1> QED
    BY <1>3, <1>5, <1>6, <1>7, <1>8, <1>9, <1>10 DEF n

\* So the instructions stay in shape.
LEMMA OpensShape ==
    ASSUME TypeOK, FreshInv, ShapeInv, NEW v, NEW more, Opens(v, more)
    PROVE  ShapeInv'
  <1> DEFINE n == HeaderArgumentCount(v)
             values == {<<head.path, "op">>}
             sizes == {<<head.path, "arguments">>}
  <1>1. /\ agenda # << >> /\ head.kind = "opcode" /\ head.field = "op"
        /\ head.path \in Path /\ Tail(agenda) \in Seq(Goals)
        /\ more \in Seq(Goals) /\ agenda' = Then(more, Tail(agenda))
        /\ Grows(values, sizes)
        /\ parsed'.val[<<head.path, "op">>] = v
        /\ parsed'.len[<<head.path, "arguments">>] = IF v \in Calls THEN 0 ELSE n
    BY HeadTyped DEF Opens
  <1>2. /\ \A i \in DOMAIN more :
              \/ i \in 1..n /\ more[i] = ReadArgument(head.path, i)
              \/ /\ v \in Calls /\ i = n + 1
                 /\ more[i] = Goal("callArguments", head.path, "op", n)
        /\ \A q : Pushes(agenda', q) = Pushes(agenda, q)
        /\ Pushes(agenda, head.path) = 0
        /\ ~InLocals(agenda, head.path)
        /\ \A q : InLocals(agenda', q) <=>
                        (q = head.path /\ v \in Calls) \/ InLocals(agenda, q)
        /\ <<head.path, "op">> \notin DOMAIN parsed.val
    BY OpensLocals
  <1>3. values \cap DOMAIN parsed.val = {}
    BY <1>2
  <1>4. Value(parsed', head.path, "op") = v
    BY <1>1 DEF Value, Grows, Extends
  <1>5. ASSUME NEW i \in DOMAIN more, more[i].kind = "callArguments"
        PROVE  Waits(parsed', agenda', i)
    <2>1. v \in Calls /\ i = n + 1 /\ more[i] = Goal("callArguments", head.path, "op", n)
      <3>1. \A j \in 1..n : ReadArgument(head.path, j).kind = "type"
        BY DEF ReadArgument, Goal
      <3> QED
        BY <1>2, <1>5, <3>1
    <2>2. n \in {3, 4}
      BY <2>1, CallsAre
    <2>3. agenda'[i] = more[i] /\ n \in DOMAIN agenda' /\ agenda'[n] = more[n] /\ n \in DOMAIN more
      <3>1. n \in DOMAIN more
        <4>1. DOMAIN more = 1..(n + 1)
          BY <1>1, <2>1, OpeningGoals DEF Opens
        <4> QED
          BY <2>2, <4>1
      <3> HIDE DEF n
      <3> QED
        BY <1>1, <1>5, <3>1, AmongThen
    <2>4. more[n] = ReadArgument(head.path, n)
      BY <1>2, <2>2, <2>3
    <2>5. Earlier(agenda', ReadArgument(head.path, n), i)
      BY <2>1, <2>2, <2>3, <2>4 DEF Earlier
    <2>6. agenda'[i].path = head.path /\ agenda'[i].n = n
      BY <2>1, <2>3 DEF Goal
    <2> QED
      BY <1>4, <2>1, <2>5, <2>6 DEF Waits
  <1>6. CallsWait(parsed', agenda')
    <2> HIDE DEF values, sizes
    <2>1. head.kind \notin {"type", "u32"}
      BY <1>1
    <2> QED
      BY <1>1, <1>3, <1>5, <2>1, CallsWaitStep DEF ShapeInv
  <1>7. ASSUME NEW q \in Path, ~InLocals(agenda', q)
        PROVE  Instructed(parsed', q, Size(parsed', q, "arguments") + Pushes(agenda', q))
    <2>1. CASE q = head.path
      <3>1. v \notin Calls
        BY <1>2, <1>7, <2>1
      <3>2. Size(parsed', q, "arguments") = n
        BY <1>1, <2>1, <3>1 DEF Size, Grows, Extends
      <3>3. n + Pushes(agenda', q) = n
        BY <1>2, <2>1, HeaderTyped
      <3> QED
        BY <1>4, <2>1, <3>1, <3>2, <3>3 DEF Instructed
    <2>2. CASE q # head.path
      <3>1. ~InLocals(agenda, q) /\ Pushes(agenda', q) = Pushes(agenda, q)
        BY <1>2, <1>7
      <3>2. Size(parsed', q, "arguments") = Size(parsed, q, "arguments")
        BY <1>1, <2>2 DEF Size, Grows, Extends
      <3>3. Value(parsed', q, "op") = Value(parsed, q, "op")
        BY <1>1, <2>2 DEF Value, Grows, Extends
      <3>4. Instructed(parsed, q, Size(parsed, q, "arguments") + Pushes(agenda, q))
        BY <3>1 DEF ShapeInv, InstructionsIn
      <3> HIDE DEF values, sizes
      <3> QED
        BY <1>1, <1>3, <3>1, <3>2, <3>3, <3>4, InstructedStays
    <2> QED
      BY <2>1, <2>2
  <1> QED
    BY <1>6, <1>7 DEF ShapeInv, InstructionsIn

\* What the further arguments of a call do: the vector is sized by the header
\* arguments, and as many arguments as were counted are to be read and pushed.
Furthers(count, more) ==
    /\ agenda # << >> /\ head.kind = "callArguments"
    /\ head \in Goals /\ head.path \in Path /\ head.n \in Nat
    /\ count \in Nat /\ count = Signed(Value(parsed, CallArgument, "int32"))
    /\ Value(parsed, CallArgument, "type") = 3
    /\ more = Further(head.path, head.n, count)
    /\ more \in Seq(Goals) /\ agenda' = Then(more, Tail(agenda))
    /\ Grows({}, {<<head.path, "arguments">>})
    /\ parsed'.len[<<head.path, "arguments">>] = head.n

\* Reading the further arguments does this.
LEMMA ReadCallArgumentsFurthers ==
    ASSUME TypeOK, FreshInv, ReadCallArguments
    PROVE  \E count, more : Furthers(count, more)
  <1> DEFINE count == Signed(Value(parsed, CallArgument, "int32"))
             more == Further(head.path, head.n, count)
  <1>1. /\ agenda # << >> /\ head.kind = "callArguments"
        /\ parsed' = WithSize(parsed, head.path, "arguments", head.n)
        /\ agenda' = more \o Tail(agenda)
        /\ ~CallArgumentCountIsInvalid
    BY Zenon DEF ReadCallArguments, At, Further
  <1>2. head \in Goals /\ head.path \in Path /\ head.n \in Nat /\ count \in Nat
    <2>1. head \in Goals
      BY <1>1, HeadTyped
    <2> QED
      BY <1>1, <2>1, CountTyped DEF Goals
  <1>3. Value(parsed, CallArgument, "type") = 3
    BY <1>1 DEF CallArgumentCountIsInvalid
  <1>4. count = Signed(Value(parsed, CallArgument, "int32"))
    OBVIOUS
  <1> HIDE DEF count
  <1>5. more \in Seq(Goals)
    BY <1>2, FurtherTyped
  <1>6. agenda' = Then(more, Tail(agenda))
    BY <1>1 DEF Then
  <1>7. more = Further(head.path, head.n, count)
    OBVIOUS
  <1> HIDE DEF more
  <1>8. /\ Grows({}, {<<head.path, "arguments">>})
        /\ parsed'.len[<<head.path, "arguments">>] = head.n
    BY <1>1, GrowsBySize
  <1>9. Furthers(count, more)
    BY <1>1, <1>2, <1>3, <1>4, <1>5, <1>6, <1>7, <1>8 DEF Furthers
  <1> QED
    BY <1>9

\* The call waits no longer, and has as many pushes to come.
LEMMA FurthersLocals ==
    ASSUME TypeOK, FreshInv, NEW count, NEW more, Furthers(count, more)
    PROVE  /\ \A i \in DOMAIN more : more[i].kind \in {"type", "push"}
           /\ \A q : InLocals(agenda, q) <=> q = head.path \/ InLocals(agenda', q)
           /\ ~InLocals(agenda', head.path)
           /\ Pushes(agenda', head.path) = count
           /\ \A q : q # head.path => Pushes(agenda', q) = Pushes(agenda, q)
  <1>1. /\ agenda # << >> /\ head.kind = "callArguments"
        /\ head \in Goals /\ head.path \in Path /\ head.n \in Nat /\ count \in Nat
        /\ more = Further(head.path, head.n, count)
        /\ more \in Seq(Goals) /\ agenda' = Then(more, Tail(agenda))
    BY DEF Furthers
  <1>2. \A i \in DOMAIN more : more[i].kind \in {"type", "push"}
    BY <1>1, FurtherApart
  <1>3. /\ Pushes(more, head.path) = count
        /\ \A q : q # head.path => Pushes(more, q) = 0
    BY <1>1, FurtherPushes
  <1> HIDE DEF Further
  <1>4. /\ \A q : InLocals(agenda, q) <=> q = head.path \/ InLocals(Tail(agenda), q)
        /\ \A q : InLocals(agenda', q) <=> InLocals(Tail(agenda), q)
        /\ ~InLocals(Tail(agenda), head.path)
    <2>1. \A q : ~InLocals(more, q)
      BY <1>2 DEF InLocals
    <2> QED
      BY <1>1, <2>1, InLocalsStep, NoLocalsAfter
  <1>5. \A q : /\ Pushes(agenda, q) = PushAt(q)[head] + Pushes(Tail(agenda), q)
               /\ Pushes(agenda', q) = Pushes(more, q) + Pushes(Tail(agenda), q)
               /\ Pushes(Tail(agenda), q) \in Nat
    BY <1>1, PushesStep
  <1>6. \A q : PushAt(q)[head] = 0
    BY <1>1, PushAtTyped
  <1>7. Pushes(Tail(agenda), head.path) = 0
    BY <1>1, NoPushesYet
  <1>8. Pushes(agenda', head.path) = count
    <2>1. Pushes(agenda', head.path) = count + 0
      BY <1>3, <1>5, <1>7
    <2> QED
      BY <1>1, <2>1
  <1>9. ASSUME NEW q, q # head.path PROVE Pushes(agenda', q) = Pushes(agenda, q)
    <2>1. Pushes(agenda', q) = 0 + Pushes(Tail(agenda), q)
      BY <1>3, <1>5, <1>9
    <2>2. Pushes(agenda, q) = 0 + Pushes(Tail(agenda), q)
      BY <1>5, <1>6
    <2> QED
      BY <2>1, <2>2
  <1> QED
    BY <1>2, <1>4, <1>8, <1>9

\* By the time a call reads its further arguments, what counts them is set.
LEMMA CallWaited ==
    ASSUME TypeOK, ShapeInv, NEW count, NEW more, Furthers(count, more)
    PROVE  /\ Value(parsed, head.path, "op") \in Calls
           /\ head.n = HeaderArgumentCount(Value(parsed, head.path, "op"))
           /\ <<CallArgument, "int32">> \in DOMAIN parsed.val
  <1>1. /\ agenda # << >> /\ head.kind = "callArguments"
        /\ Value(parsed, CallArgument, "type") = 3
        /\ 1 \in DOMAIN agenda /\ agenda[1] = head
    BY HeadIs DEF Furthers, TypeOK
  <1>2. Waits(parsed, agenda, 1)
    BY <1>1 DEF ShapeInv, CallsWait
  <1>3. \A g : ~Earlier(agenda, g, 1)
    <2> SUFFICES ASSUME NEW k \in DOMAIN agenda, k < 1 PROVE FALSE
      BY DEF Earlier
    <2> QED
      BY DEF TypeOK
  <1>4. /\ Value(parsed, head.path, "op") \in Calls
        /\ head.n = HeaderArgumentCount(Value(parsed, head.path, "op"))
        /\ <<CallArgument, "type">> \in DOMAIN parsed.val
        /\ parsed.val[<<CallArgument, "type">>] = 3 =>
              <<CallArgument, "int32">> \in DOMAIN parsed.val
    BY <1>1, <1>2, <1>3 DEF Waits, CallArgument
  <1>5. parsed.val[<<CallArgument, "type">>] = 3
    BY <1>1, <1>4 DEF Value
  <1> QED
    BY <1>4, <1>5

\* So its arguments will be as many as it says.
LEMMA FurthersShape ==
    ASSUME TypeOK, FreshInv, ShapeInv, NEW count, NEW more, Furthers(count, more)
    PROVE  ShapeInv'
  <1> DEFINE key == <<head.path, "arguments">>
             op == Value(parsed, head.path, "op")
  <1>1. /\ agenda # << >> /\ head.kind = "callArguments"
        /\ head \in Goals /\ head.path \in Path /\ head.n \in Nat /\ count \in Nat
        /\ count = Signed(Value(parsed, CallArgument, "int32"))
        /\ Value(parsed, CallArgument, "type") = 3
        /\ more \in Seq(Goals) /\ agenda' = Then(more, Tail(agenda))
        /\ Grows({}, {key}) /\ parsed'.len[key] = head.n
    BY DEF Furthers
  <1>2. /\ \A i \in DOMAIN more : more[i].kind \in {"type", "push"}
        /\ \A q : InLocals(agenda, q) <=> q = head.path \/ InLocals(agenda', q)
        /\ ~InLocals(agenda', head.path)
        /\ Pushes(agenda', head.path) = count
        /\ \A q : q # head.path => Pushes(agenda', q) = Pushes(agenda, q)
    BY FurthersLocals
  <1>3. /\ op \in Calls /\ head.n = HeaderArgumentCount(op)
        /\ <<CallArgument, "int32">> \in DOMAIN parsed.val
    BY CallWaited
  <1>4. \A q, f : Value(parsed', q, f) = Value(parsed, q, f)
    BY <1>1 DEF Value, Grows, Extends
  <1>5. CallsWait(parsed', agenda')
    <2>1. \A i \in DOMAIN more :
              more[i].kind = "callArguments" => Waits(parsed', agenda', i)
      BY <1>2
    <2>2. head.kind \notin {"type", "u32"} /\ {} \cap DOMAIN parsed.val = {}
      BY <1>1
    <2> HIDE DEF key
    <2> QED
      BY <1>1, <2>1, <2>2, CallsWaitStep DEF ShapeInv
  <1>6. ASSUME NEW q \in Path, ~InLocals(agenda', q)
        PROVE  Instructed(parsed', q, Size(parsed', q, "arguments") + Pushes(agenda', q))
    <2>1. CASE q = head.path
      <3>1. Size(parsed', q, "arguments") = head.n
        BY <1>1, <2>1 DEF Size, Grows, Extends
      <3>2. <<CallArgument, "int32">> \in DOMAIN parsed'.val
        BY <1>1, <1>3 DEF Grows, Extends
      <3>3. CallArgument = Child(q, "arguments", HeaderArgumentCount(op))
        BY <1>3, <2>1 DEF CallArgument
      <3>4. Value(parsed', q, "op") = op
        BY <1>4, <2>1
      <3>5. Pushes(agenda', q) = count
        BY <1>2, <2>1
      <3> HIDE DEF op
      <3>6. /\ Value(parsed', Child(q, "arguments", HeaderArgumentCount(op)), "type") = 3
            /\ Value(parsed', Child(q, "arguments", HeaderArgumentCount(op)), "int32")
                  = Value(parsed, CallArgument, "int32")
            /\ <<Child(q, "arguments", HeaderArgumentCount(op)), "int32">> \in DOMAIN parsed'.val
        BY <1>1, <1>4, <3>2, <3>3
      <3> QED
        BY <1>1, <1>3, <3>1, <3>4, <3>5, <3>6 DEF Instructed
    <2>2. CASE q # head.path
      <3>1. ~InLocals(agenda, q) /\ Pushes(agenda', q) = Pushes(agenda, q)
        BY <1>2, <1>6, <2>2
      <3>2. Size(parsed', q, "arguments") = Size(parsed, q, "arguments")
        BY <1>1, <2>2 DEF Size, Grows, Extends
      <3>3. Value(parsed', q, "op") = Value(parsed, q, "op")
        BY <1>4
      <3>4. Instructed(parsed, q, Size(parsed, q, "arguments") + Pushes(agenda, q))
        BY <3>1 DEF ShapeInv, InstructionsIn
      <3>5. {} \cap DOMAIN parsed.val = {}
        OBVIOUS
      <3> HIDE DEF key
      <3> QED
        BY <1>1, <3>1, <3>2, <3>3, <3>4, <3>5, InstructedStays
    <2> QED
      BY <2>1, <2>2
  <1> QED
    BY <1>5, <1>6 DEF ShapeInv, InstructionsIn

\* What a push does: one more of the arguments that are left is in the vector.
Pushing ==
    /\ agenda # << >> /\ head.kind = "push"
    /\ head \in Goals /\ head.path \in Path
    /\ agenda' = Then(<< >>, Tail(agenda))
    /\ <<head.path, "arguments">> \in DOMAIN parsed.len
    /\ Grows({}, {<<head.path, "arguments">>})
    /\ parsed.len[<<head.path, "arguments">>] \in Nat
    /\ parsed'.len[<<head.path, "arguments">>]
          = parsed.len[<<head.path, "arguments">>] + 1
    /\ ~InLocals(agenda, head.path)
    /\ \A q : InLocals(agenda', q) <=> InLocals(agenda, q)
    /\ \A q : Pushes(agenda', q) \in Nat
    /\ Pushes(agenda, head.path) = 1 + Pushes(agenda', head.path)
    /\ \A q : q # head.path => Pushes(agenda, q) = Pushes(agenda', q)

\* Pushing an argument does this.
LEMMA PushArgumentPushes ==
    ASSUME TypeOK, FreshInv, PushArgument
    PROVE  Pushing
  <1> DEFINE key == <<head.path, "arguments">>
  <1>1. /\ agenda # << >> /\ head.kind = "push" /\ agenda' = Tail(agenda)
        /\ parsed' = WithSize(parsed, head.path, "arguments",
                              Size(parsed, head.path, "arguments") + 1)
    BY DEF PushArgument, At
  <1>2. /\ head \in Goals /\ head.path \in Path
        /\ 1 \in DOMAIN agenda /\ agenda[1] = head
    <2>1. head \in Goals
      BY <1>1, HeadTyped
    <2> QED
      BY <1>1, <2>1, HeadIs DEF Goals, TypeOK
  <1>3. key \in DOMAIN parsed.len /\ ~InLocals(agenda, head.path)
    BY <1>1, <1>2 DEF FreshInv, Prepared, Settled
  <1>4. /\ Grows({}, {key})
        /\ parsed'.len[key] = Size(parsed, head.path, "arguments") + 1
    <2> DEFINE n == Size(parsed, head.path, "arguments") + 1
    <2>1. parsed' = WithSize(parsed, head.path, "arguments", n)
      BY <1>1
    <2> HIDE DEF n
    <2>2. Grows({}, {key}) /\ parsed'.len[key] = n
      BY <2>1, GrowsBySize
    <2> QED
      BY <2>2 DEF n
  <1>5. parsed'.len[key] = parsed.len[key] + 1 /\ parsed.len[key] \in Nat
    BY <1>3, <1>4 DEF Size, TypeOK, IsData
  <1>6. << >> \in Seq(Goals) /\ agenda' = Then(<< >>, Tail(agenda))
    <2>1. agenda' = Then(<< >>, Tail(agenda))
      BY <1>1, HeadTyped, ThenNone
    <2> QED
      BY <2>1
  <1>7. \A q : InLocals(agenda', q) <=> InLocals(agenda, q)
    <2>1. \A q : ~InLocals(<< >>, q)
      BY DEF InLocals
    <2> QED
      BY <1>1, <1>6, <2>1, InLocalsStep
  <1>8. /\ \A q : Pushes(agenda', q) \in Nat
        /\ Pushes(agenda, head.path) = 1 + Pushes(agenda', head.path)
        /\ \A q : q # head.path => Pushes(agenda, q) = Pushes(agenda', q)
    <2>1. \A q : Pushes(agenda', q) \in Nat /\ Pushes(agenda, q) = PushAt(q)[head] + Pushes(agenda', q)
      BY <1>1, <1>6, PushesStep
    <2>2. /\ PushAt(head.path)[head] = 1
          /\ \A q : q # head.path => PushAt(q)[head] = 0
      BY <1>1, <1>2, PushAtTyped
    <2>3. Pushes(agenda, head.path) = 1 + Pushes(agenda', head.path)
      BY <2>1, <2>2
    <2>4. ASSUME NEW q, q # head.path PROVE Pushes(agenda, q) = Pushes(agenda', q)
      BY <2>1, <2>2, <2>4
    <2> QED
      BY <2>1, <2>3, <2>4
  <1> QED
    BY <1>1, <1>2, <1>3, <1>4, <1>5, <1>6, <1>7, <1>8 DEF Pushing

\* What is pushed was counted among those to come.
LEMMA PushingShape ==
    ASSUME TypeOK, FreshInv, ShapeInv, Pushing
    PROVE  ShapeInv'
  <1> DEFINE key == <<head.path, "arguments">>
  <1>1. /\ agenda # << >> /\ head.kind = "push"
        /\ << >> \in Seq(Goals) /\ agenda' = Then(<< >>, Tail(agenda))
        /\ key \in DOMAIN parsed.len /\ Grows({}, {key})
        /\ parsed.len[key] \in Nat /\ parsed'.len[key] = parsed.len[key] + 1
        /\ \A q : InLocals(agenda', q) <=> InLocals(agenda, q)
        /\ \A q : Pushes(agenda', q) \in Nat
        /\ Pushes(agenda, head.path) = 1 + Pushes(agenda', head.path)
        /\ \A q : q # head.path => Pushes(agenda, q) = Pushes(agenda', q)
    BY DEF Pushing
  <1>2. {} \cap DOMAIN parsed.val = {}
    OBVIOUS
  <1>3. \A q, f : Value(parsed', q, f) = Value(parsed, q, f)
    BY <1>1 DEF Value, Grows, Extends
  <1>4. CallsWait(parsed', agenda')
    <2>1. \A i \in DOMAIN << >> :
              << >>[i].kind = "callArguments" => Waits(parsed', agenda', i)
      OBVIOUS
    <2>2. head.kind \notin {"type", "u32"}
      BY <1>1
    <2> HIDE DEF key
    <2> QED
      BY <1>1, <1>2, <2>1, <2>2, CallsWaitStep DEF ShapeInv
  <1>5. ASSUME NEW q \in Path, ~InLocals(agenda', q)
        PROVE  Instructed(parsed', q, Size(parsed', q, "arguments") + Pushes(agenda', q))
    <2>1. Size(parsed', q, "arguments") + Pushes(agenda', q)
             = Size(parsed, q, "arguments") + Pushes(agenda, q)
      <3>1. CASE q = head.path
        <4>1. Size(parsed', q, "arguments") = parsed.len[key] + 1
          BY <1>1, <3>1 DEF Size, Grows, Extends
        <4>2. Size(parsed, q, "arguments") = parsed.len[key]
          BY <1>1, <3>1 DEF Size
        <4>3. /\ parsed.len[key] \in Nat /\ Pushes(agenda', q) \in Nat
              /\ Pushes(agenda, q) = 1 + Pushes(agenda', q)
          BY <1>1, <3>1
        <4> HIDE DEF key
        <4> QED
          BY <4>1, <4>2, <4>3
      <3>2. CASE q # head.path
        <4>1. Size(parsed', q, "arguments") = Size(parsed, q, "arguments")
          BY <1>1, <3>2 DEF Size, Grows, Extends
        <4> QED
          BY <1>1, <3>2, <4>1
      <3> QED
        BY <3>1, <3>2
    <2>2. ~InLocals(agenda, q)
      BY <1>1, <1>5
    <2>3. Instructed(parsed, q, Size(parsed, q, "arguments") + Pushes(agenda, q))
      BY <2>2 DEF ShapeInv, InstructionsIn
    <2> HIDE DEF key
    <2> QED
      BY <1>1, <1>2, <1>3, <2>1, <2>3, InstructedStays
  <1> QED
    BY <1>4, <1>5 DEF ShapeInv, InstructionsIn

\* Every step of the parser keeps the instructions in shape.
LEMMA ReadStepShape ==
    ASSUME TypeOK, FreshInv, ShapeInv, ReadStep
    PROVE  ShapeInv'
  <1>1. CASE \E v, more : Plain(v, more)
    BY <1>1, PlainShape
  <1>2. CASE ReadOpcode
    BY <1>2, ReadOpcodeOpens, OpensShape
  <1>3. CASE ReadCallArguments
    BY <1>3, ReadCallArgumentsFurthers, FurthersShape
  <1>4. CASE PushArgument
    BY <1>4, PushArgumentPushes, PushingShape
  <1> QED
    BY <1>1, <1>2, <1>3, <1>4, PlainStep

\* Nothing was read: there is no instruction.
LEMMA NothingShaped ==
    ASSUME NEW goals \in Seq(Goals),
           \A i \in DOMAIN goals : goals[i].kind \notin {"callArguments", "push"}
    PROVE  InstructionsIn(EmptyData, goals) /\ CallsWait(EmptyData, goals)
  <1>1. CallsWait(EmptyData, goals)
    BY DEF CallsWait
  <1>2. ASSUME NEW q \in Path
        PROVE  Instructed(EmptyData, q, Size(EmptyData, q, "arguments") + Pushes(goals, q))
    <2>1. Size(EmptyData, q, "arguments") = 0 /\ Value(EmptyData, q, "op") = 0
      BY DEF Size, Value, EmptyData
    <2>2. Pushes(goals, q) = 0
      BY NoPushesAmong
    <2> QED
      BY <2>1, <2>2, CallsAre DEF Instructed
  <1> QED
    BY <1>1, <1>2 DEF InstructionsIn

\* A new instance holds no instruction.
LEMMA EmptyShaped == Shaped(EmptyData)
  <1> SUFFICES ASSUME NEW q \in Path
               PROVE  Instructed(EmptyData, q, Size(EmptyData, q, "arguments"))
    BY DEF Shaped
  <1>1. Size(EmptyData, q, "arguments") = 0 /\ Value(EmptyData, q, "op") = 0
    BY DEF Size, Value, EmptyData
  <1> QED
    BY <1>1, CallsAre DEF Instructed

\* It holds of what is parsed and of the instance.
ShapesInv == ShapeInv /\ Shaped(inst)

\* Nor does a parser at rest.
LEMMA RestShape ==
    ASSUME agenda' = << >>, parsed' = EmptyData
    PROVE  ShapeInv'
  <1>1. /\ << >> \in Seq(Goals)
        /\ \A i \in DOMAIN << >> : << >>[i].kind \notin {"callArguments", "push"}
    OBVIOUS
  <1>2. InstructionsIn(EmptyData, << >>) /\ CallsWait(EmptyData, << >>)
    BY <1>1, NothingShaped
  <1> QED
    BY <1>2 DEF ShapeInv

\* What a Load leaves in the instance is in shape.
LEMMA CommitShape ==
    ASSUME TypeOK, ShapeInv, agenda = << >>, inst' = parsed
    PROVE  Shaped(inst')
  <1> SUFFICES ASSUME NEW q \in Path
               PROVE  Instructed(parsed, q, Size(parsed, q, "arguments"))
    BY DEF Shaped
  <1>1. ~InLocals(agenda, q)
    BY DEF InLocals
  <1>2. Pushes(agenda, q) = 0
    <2>1. << >> \in Seq(Goals) /\ \A i \in DOMAIN << >> : << >>[i].kind # "push"
      OBVIOUS
    <2> QED
      BY <2>1, NoPushesAmong
  <1>3. Size(parsed, q, "arguments") + Pushes(agenda, q) = Size(parsed, q, "arguments")
    <2>1. Size(parsed, q, "arguments") \in Nat
      BY ValueTyped DEF TypeOK
    <2> QED
      BY <1>2, <2>1
  <1> QED
    BY <1>1, <1>3 DEF ShapeInv, InstructionsIn

\* Both hold at first,
LEMMA InitShapes == Init => ShapesInv
  <1> SUFFICES ASSUME Init PROVE ShapesInv
    OBVIOUS
  <1>1. agenda = << >> /\ parsed = EmptyData /\ inst = EmptyData
    BY DEF Init, NoCall
  <1>2. /\ << >> \in Seq(Goals)
        /\ \A i \in DOMAIN << >> : << >>[i].kind \notin {"callArguments", "push"}
    OBVIOUS
  <1> QED
    BY <1>1, <1>2, NothingShaped, EmptyShaped DEF ShapesInv, ShapeInv

\* Load begins with no instruction at hand.
LEMMA LoadStraight == Straight(Load)
  <1>1. << >> \in Path
    BY DEF Path
  <1> QED
    BY <1>1, LoadTyped, StraightReads DEF Load

\* ... when a file is opened,
LEMMA OpenFileShape ==
    ASSUME OpenFile
    PROVE  ShapeInv'
  <1>1. agenda' = Load /\ parsed' = EmptyData
    BY DEF OpenFile
  <1>2. Load \in Seq(Goals) /\ \A i \in DOMAIN Load : Load[i].kind \notin {"callArguments", "push"}
    BY LoadStraight DEF Straight
  <1> QED
    BY <1>1, <1>2, NothingShaped DEF ShapeInv

\* ... and after every step of the parser.
LEMMA NextShapes ==
    ASSUME TypeOK, FreshInv, ShapesInv, [Next]_vars
    PROVE  ShapesInv'
  <1>1. CASE PlaceFile \/ RefuseFile \/ UNCHANGED vars
    BY <1>1 DEF PlaceFile, RefuseFile, vars, ShapesInv, ShapeInv
  <1>2. CASE OpenFile
    BY <1>2, OpenFileShape DEF OpenFile, ShapesInv
  <1>3. CASE ReadStep
    <2>1. inst' = inst
      BY <1>3 DEF ReadStep, ReadScalar, ReadLength, ReadCount, NextElement,
         ReadDebugFlag, ReadObjectSize, ObjectEnds, ReadPropertyFlags, ReadType,
         ReadOpcode, ReadCallArguments, PushArgument, Consume
    <2> QED
      BY <1>3, <2>1, ReadStepShape DEF ShapesInv
  <1>4. CASE Throw
    BY <1>4, RestShape DEF Throw, ReadFails, ValueRefused, ObjectSizeMismatch, CallRefused, EndCall, ShapesInv
  <1>5. CASE Commit
    BY <1>5, RestShape, CommitShape DEF Commit, EndCall, ShapesInv
  <1> QED
    BY <1>1, <1>2, <1>3, <1>4, <1>5 DEF Next, LoadStep

=============================================================================
