---------------------------- MODULE PexTextProofs ----------------------------
(***************************************************************************)
(* Theorems about PexText, for entries of every length.                    *)
(***************************************************************************)
EXTENDS PexText, WellFoundedInduction, TLAPS

-----------------------------------------------------------------------------
(* Windows1252ToUTF8 makes characters *)

\* Every entry of the table is a character beyond ASCII that fits in three
\* bytes, and none of the surrogates.
LEMMA TableRange ==
    \A k \in 1..32 :
        CP1252_TABLE[k] \in Nat /\ 128 <= CP1252_TABLE[k] /\ CP1252_TABLE[k] < 8483
BY DEF CP1252_TABLE

\* c is one character, of n bytes.
IsCharacter(c, n) == c \in Seq(Byte) /\ Len(c) = n /\ CharacterAt(c, 1, n)

\* The two bytes of a character below 0x800.
LEMMA TwoBytesAreACharacter ==
    ASSUME NEW u \in Nat, 128 <= u, u < 2048
    PROVE  IsCharacter(TwoBytes(u), 2)
<1> DEFINE b == 192 + u \div 64
           c == 128 + (u % 64)
<1>1. b \in 194..223 /\ c \in 128..191
  OBVIOUS
<1>2. TwoBytes(u) = <<b, c>>
  BY DEF TwoBytes
<1> HIDE DEF b, c
<1> QED
  BY <1>1, <1>2 DEF IsCharacter, Byte, CharacterAt, Tail2

\* The three bytes of a character from 0x800 to 0x2122.
LEMMA ThreeBytesAreACharacter ==
    ASSUME NEW u \in Nat, 2048 <= u, u < 8483
    PROVE  IsCharacter(ThreeBytes(u), 3)
<1> DEFINE b == 224 + u \div 4096
           c == 128 + ((u \div 64) % 64)
           d == 128 + (u % 64)
<1>1. d \in 128..191
  OBVIOUS
<1>2. u \div 4096 \in 0..2
  OBVIOUS
<1>3. u \div 64 \in 32..132
  OBVIOUS
<1>4. \A x \in Nat : x % 64 \in 0..63
  OBVIOUS
<1>5. c \in 128..191
  BY <1>3, <1>4
<1>6. b \in 224..226
  BY <1>2
<1>7. b = 224 => c >= 160
  <2>1. SUFFICES ASSUME u \div 4096 = 0
                 PROVE  (u \div 64) % 64 >= 32
    BY <1>2, <1>3
  <2>2. u < 4096
    BY <2>1
  <2>3. u \div 64 \in 32..63
    BY <2>2
  <2>4. \A x \in 32..63 : x % 64 = x
    OBVIOUS
  <2> QED
    BY <2>3, <2>4
<1>8. ThreeBytes(u) = <<b, c, d>>
  BY DEF ThreeBytes
<1> HIDE DEF b, c, d
<1>9. CharacterAt(<<b, c, d>>, 1, 3)
  <2>1. \A k \in 1..2 : <<b, c, d>>[1 + k] \in Tail2
    <3>1. <<b, c, d>>[2] \in Tail2 /\ <<b, c, d>>[3] \in Tail2
      BY <1>1, <1>5 DEF Tail2
    <3>2. \A k \in 1..2 : 1 + k = 2 \/ 1 + k = 3
      OBVIOUS
    <3> QED
      BY <3>1, <3>2
  <2> QED
    BY <2>1, <1>6, <1>7 DEF CharacterAt
<1> QED
  BY <1>1, <1>5, <1>6, <1>8, <1>9 DEF IsCharacter, Byte

LEMMA EncodedIsACharacter ==
    \A b \in Byte : \E n \in 1..4 : IsCharacter(Encoded(b), n)
<1> TAKE b \in Byte
<1>1. CASE b < 128
  <2>1. Encoded(b) = <<b>>
    BY <1>1 DEF Encoded
  <2>2. IsCharacter(<<b>>, 1)
    BY <1>1 DEF IsCharacter, CharacterAt, Byte
  <2> QED
    BY <2>1, <2>2
<1>2. CASE b >= 160
  <2>1. Encoded(b) = TwoBytes(b) /\ b \in Nat /\ 128 <= b /\ b < 2048
    BY <1>2 DEF Encoded, Byte
  <2> QED
    BY <2>1, TwoBytesAreACharacter
<1>3. CASE 128 <= b /\ b < 160
  <2> DEFINE u == CP1252_TABLE[b - 127]
  <2>1. u \in Nat /\ 128 <= u /\ u < 8483
    <3>1. b - 127 \in 1..32
      BY <1>3 DEF Byte
    <3> QED
      BY <3>1, TableRange
  <2>2. Encoded(b) = IF u < 2048 THEN TwoBytes(u) ELSE ThreeBytes(u)
    BY <1>3 DEF Encoded, Byte
  <2> HIDE DEF u
  <2>3. CASE u < 2048
    BY <2>1, <2>2, <2>3, TwoBytesAreACharacter
  <2>4. CASE u >= 2048
    BY <2>1, <2>2, <2>4, ThreeBytesAreACharacter
  <2> QED
    BY <2>1, <2>3, <2>4
<1> QED
  BY <1>1, <1>2, <1>3 DEF Byte

-----------------------------------------------------------------------------
(* Well-formed UTF-8 *)

LEMMA EmptyIsWellFormed == WellFormed(<< >>)
BY DEF WellFormed, Starts

\* Whether a character stands at a place is a matter of its own bytes.
LEMMA CharacterMoves ==
    ASSUME NEW s \in Seq(Byte), NEW t \in Seq(Byte), NEW n \in 1..4,
           NEW p \in 1..Len(s), NEW q \in 1..Len(t),
           CharacterAt(s, p, n),
           q + n - 1 <= Len(t),
           \A k \in 0..(n - 1) : t[q + k] = s[p + k]
    PROVE  CharacterAt(t, q, n)
<1>1. s[p] = t[q]
  <2>1. 0 \in 0..(n - 1) /\ q + 0 = q /\ p + 0 = p
    OBVIOUS
  <2> QED
    BY <2>1
<1>2. n > 1 => s[p + 1] = t[q + 1]
  <2>1. n > 1 => 1 \in 0..(n - 1)
    OBVIOUS
  <2> QED
    BY <2>1
<1>3. \A k \in 1..(n - 1) : t[q + k] \in Tail2
  <2>1. \A k \in 1..(n - 1) : s[p + k] \in Tail2
    BY DEF CharacterAt
  <2>2. \A k \in 1..(n - 1) : k \in 0..(n - 1)
    OBVIOUS
  <2> QED
    BY <2>1, <2>2
<1>4. CASE n = 1
  BY <1>1, <1>3, <1>4 DEF CharacterAt
<1>5. CASE n = 2
  BY <1>1, <1>3, <1>5 DEF CharacterAt
<1>6. CASE n = 3
  BY <1>1, <1>2, <1>3, <1>6 DEF CharacterAt
<1>7. CASE n = 4
  BY <1>1, <1>2, <1>3, <1>7 DEF CharacterAt
<1> QED
  BY <1>4, <1>5, <1>6, <1>7

\* A character starts with a byte that continues none, and the rest of it
\* continues.
LEMMA CharacterStarts ==
    ASSUME NEW s \in Seq(Byte), NEW p \in 1..Len(s), NEW n \in 1..4,
           CharacterAt(s, p, n)
    PROVE  /\ p \in Starts(s)
           /\ p + n - 1 <= Len(s)
           /\ \A q \in (p + 1)..(p + n - 1) : q \notin Starts(s)
<1>1. s[p] \notin Tail2
  <2>1. \/ n = 1 /\ s[p] \in 0..127
        \/ n = 2 /\ s[p] \in 194..223
        \/ n = 3 /\ s[p] \in 224..239
        \/ n = 4 /\ s[p] \in 240..244
    <3>1. n = 1 \/ n = 2 \/ n = 3 \/ n = 4
      OBVIOUS
    <3> QED
      BY <3>1 DEF CharacterAt
  <2>2. \A x \in Int : x \in 0..127 \/ x \in 194..223 \/ x \in 224..239 \/ x \in 240..244
                => x \notin Tail2
    BY DEF Tail2
  <2>3. s[p] \in Int
    <3>1. s[p] \in Byte
      OBVIOUS
    <3>2. \A x \in Byte : x \in Int
      BY DEF Byte
    <3> QED
      BY <3>1, <3>2
  <2> QED
    BY <2>1, <2>2, <2>3
<1>2. ASSUME NEW q \in (p + 1)..(p + n - 1)
      PROVE  q \notin Starts(s)
  <2>1. q - p \in 1..(n - 1) /\ q = p + (q - p)
    OBVIOUS
  <2> QED
    BY <2>1 DEF CharacterAt, Starts
<1> QED
  BY <1>1, <1>2 DEF CharacterAt, Starts

\* A character put after well-formed text leaves it well formed.
LEMMA AppendCharacter ==
    ASSUME NEW s \in Seq(Byte), NEW c, NEW l \in 1..4,
           WellFormed(s), IsCharacter(c, l)
    PROVE  WellFormed(s \o c)
<1> DEFINE t == s \o c
           m == Len(s)
<1>1. /\ c \in Seq(Byte) /\ Len(c) = l
      /\ t \in Seq(Byte) /\ m \in Nat /\ Len(t) = m + l
      /\ \A p \in 1..m : t[p] = s[p]
      /\ \A p \in 1..l : t[m + p] = c[p]
  BY DEF IsCharacter
<1> HIDE DEF t
<1>2. CharacterAt(t, m + 1, l)
  <2>1. \A k \in 0..(l - 1) : t[(m + 1) + k] = c[1 + k]
    <3>1. \A k \in 0..(l - 1) : 1 + k \in 1..l /\ (m + 1) + k = m + (1 + k)
      BY <1>1
    <3> QED
      BY <1>1, <3>1
  <2>2. 1 \in 1..Len(c) /\ m + 1 \in 1..Len(t) /\ (m + 1) + l - 1 <= Len(t)
    BY <1>1
  <2> QED
    BY <1>1, <2>1, <2>2, CharacterMoves DEF IsCharacter
<1>3. /\ m + 1 \in Starts(t)
      /\ \A q \in ((m + 1) + 1)..((m + 1) + l - 1) : q \notin Starts(t)
  <2>1. m + 1 \in 1..Len(t)
    BY <1>1
  <2> QED
    BY <1>1, <1>2, <2>1, CharacterStarts
<1>4. \A p \in 1..m : p \in Starts(t) <=> p \in Starts(s)
  BY <1>1 DEF Starts
<1>5. 1 \in Starts(t)
  <2>1. CASE m = 0
    BY <2>1, <1>3
  <2>2. CASE m > 0
    BY <2>2, <1>1, <1>4 DEF WellFormed
  <2> QED
    BY <1>1, <2>1, <2>2
<1>6. ASSUME NEW p \in Starts(t)
      PROVE  \E n \in 1..4 : /\ CharacterAt(t, p, n)
                             /\ p + n \in Starts(t) \cup {Len(t) + 1}
  <2>1. p \in 1..(m + l)
    BY <1>1 DEF Starts
  <2>2. CASE p \in 1..m
    <3>1. PICK n \in 1..4 : /\ CharacterAt(s, p, n)
                            /\ p + n \in Starts(s) \cup {m + 1}
      BY <2>2, <1>4 DEF WellFormed
    <3>2. p + n \in 1..(m + 1)
      BY <3>1, <2>2, <1>1 DEF Starts
    <3>3. p + n \in Starts(t)
      BY <3>1, <3>2, <1>3, <1>4, <1>1 DEF Starts
    <3>4. \A k \in 0..(n - 1) : t[p + k] = s[p + k]
      <4>1. \A k \in 0..(n - 1) : p + k \in 1..m
        BY <3>2, <2>2, <1>1
      <4> QED
        BY <4>1, <1>1
    <3>5. p \in 1..Len(t) /\ p + n - 1 <= Len(t)
      BY <3>2, <2>2, <1>1
    <3>6. CharacterAt(t, p, n)
      BY <2>2, <3>1, <3>4, <3>5, <1>1, CharacterMoves
    <3> QED
      BY <3>3, <3>6
  <2>3. CASE p = m + 1
    <3>1. p + l = Len(t) + 1
      BY <2>3, <1>1
    <3> QED
      BY <2>3, <3>1, <1>2
  <2> QED
    BY <2>1, <2>2, <2>3, <1>1, <1>3
<1>7. WellFormed(t)
  BY <1>5, <1>6 DEF WellFormed
<1> QED
  BY <1>7 DEF t

-----------------------------------------------------------------------------
(* The bounds of the loops *)

\* ActualSize never exceeds the entry, and is all of it when there is no NUL.
LEMMA SizeIsBounded ==
    ASSUME NEW s \in Seq(Byte)
    PROVE  /\ SizeBeforeNul(s) \in 0..Len(s)
           /\ ~HasNul(s) => SizeBeforeNul(s) = Len(s)
<1> DEFINE nuls == {p \in 1..Len(s) : s[p] = 0}
           first == CHOOSE p \in nuls : \A q \in nuls : p <= q
<1>1. SizeBeforeNul(s) = IF nuls = {} \/ 1 \in nuls THEN Len(s) ELSE first - 1
  BY DEF SizeBeforeNul
<1>2. HasNul(s) <=> nuls # {}
  BY DEF HasNul
<1>3. ASSUME nuls # {}
      PROVE  first \in 1..Len(s)
  <2>1. nuls \subseteq Nat
    OBVIOUS
  <2>2. PICK p \in nuls : \A q \in nuls : ~(<<q, p>> \in OpToRel(<, Nat))
    BY <1>3, <2>1, NatLessThanWellFounded, WFMin
  <2>3. \A q \in nuls : p <= q
    <3>1. \A x, y \in Nat : x < y => <<x, y>> \in OpToRel(<, Nat)
      BY DEF OpToRel
    <3> HIDE DEF nuls
    <3>2. \A q \in nuls : p \in Nat /\ q \in Nat /\ ~(q < p)
      BY <2>1, <2>2, <3>1
    <3> QED
      BY <3>2
  <2>4. first \in nuls
    BY <2>3
  <2> QED
    BY <2>4
<1> HIDE DEF nuls, first
<1> QED
  BY <1>1, <1>2, <1>3
-----------------------------------------------------------------------------
(* Types, and what a conversion leaves *)

\* Before the conversion nothing is built; while it runs, and after it, what
\* is built is well formed.
ConversionInv ==
    /\ TextTypeOK
    /\ phase \in {"measure", "detect"} => result = << >>
    /\ phase = "convert" => WellFormed(result)
    /\ HasText => WellFormed(result) \/ result = SubSeq(string, 1, actualSize)
    /\ phase = "refused" => ~WellFormed(result)

LEMMA ConversionInitially == TextInit => ConversionInv
BY StringsAssumption DEF TextInit, ConversionInv, TextTypeOK, HasText

LEMMA ConversionStep ==
    ASSUME ConversionInv, [TextNext]_textVars
    PROVE  ConversionInv'
<1> USE DEF ConversionInv, TextTypeOK, HasText
<1>1. CASE Measure
  BY <1>1, SizeIsBounded DEF Measure
<1>2. CASE Detect
  <2>1. PICK n \in 1..4 : /\ LooksLikeCharacter(string, i, n, actualSize)
                          /\ i' = i + n
    BY <1>2 DEF Detect
  <2>2. i' \in 1..(Len(string) + 1)
    BY <2>1 DEF LooksLikeCharacter
  <2> QED
    BY <1>2, <2>2 DEF Detect
<1>3. CASE KeepBytes
  <2>1. SubSeq(string, 1, actualSize) \in Seq(Byte)
    OBVIOUS
  <2> QED
    BY <1>3, <2>1 DEF KeepBytes
<1>4. CASE NotUtf8
  BY <1>4, EmptyIsWellFormed DEF NotUtf8
<1>5. CASE Convert
  <2>1. i \in 1..Len(string) /\ i <= actualSize /\ string[i] \in Byte
    BY <1>5 DEF Convert, AtEnd
  <2>2. PICK n \in 1..4 : IsCharacter(Encoded(string[i]), n)
    BY <2>1, EncodedIsACharacter
  <2>3. WellFormed(result) /\ result \in Seq(Byte)
    BY <1>5 DEF Convert
  <2>4. result' = result \o Encoded(string[i])
    BY <1>5 DEF Convert
  <2>5. WellFormed(result')
    BY <2>2, <2>3, <2>4, AppendCharacter
  <2>6. result' \in Seq(Byte)
    BY <2>2, <2>3, <2>4 DEF IsCharacter
  <2> QED
    BY <1>5, <2>1, <2>5, <2>6 DEF Convert
<1>6. CASE Converted
  BY <1>6 DEF Converted
<1>7. CASE ToWide
  BY <1>7 DEF ToWide
<1>8. CASE UNCHANGED textVars
  BY <1>8 DEF textVars
<1> QED
  BY <1>1, <1>2, <1>3, <1>4, <1>5, <1>6, <1>7, <1>8 DEF TextNext

\* Every variable has a value of its type, for entries of every length: no
\* loop of the two functions leaves the entry it reads.
THEOREM TextTypeCorrect == TextSpec => []TextTypeOK
<1>1. ConversionInv => TextTypeOK
  BY DEF ConversionInv
<1> QED
  BY <1>1, ConversionInitially, ConversionStep, PTL DEF TextSpec

\* Every entry that is converted becomes well-formed UTF-8.
THEOREM ConversionIsWellFormed == TextSpec => []ConvertedIsWellFormed
<1>1. ConversionInv => ConvertedIsWellFormed
  BY DEF ConversionInv, ConvertedIsWellFormed
<1> QED
  BY <1>1, ConversionInitially, ConversionStep, PTL DEF TextSpec

-----------------------------------------------------------------------------
(* UTF-8 is recognised *)

\* The code's test of a character is weaker than Unicode's, and a byte leads
\* characters of one length only.
LEMMA CharacterLooksLikeOne ==
    ASSUME NEW s \in Seq(Byte), NEW p \in 1..Len(s), NEW n \in 1..4,
           CharacterAt(s, p, n)
    PROVE  /\ LooksLikeCharacter(s, p, n, Len(s))
           /\ \A m \in 1..4 : LooksLikeCharacter(s, p, m, Len(s)) => m = n
<1>0. /\ Lead[1] = 0..127 /\ Lead[2] = 192..223
      /\ Lead[3] = 224..239 /\ Lead[4] = 240..247
  BY DEF Lead
<1>1. s[p] \in Int
  <2>1. s[p] \in Byte
    OBVIOUS
  <2>2. \A x \in Byte : x \in Int
    BY DEF Byte
  <2> QED
    BY <2>1, <2>2
<1>2. n = 1 \/ n = 2 \/ n = 3 \/ n = 4
  OBVIOUS
<1>3. \/ n = 1 /\ s[p] \in 0..127
      \/ n = 2 /\ s[p] \in 194..223
      \/ n = 3 /\ s[p] \in 224..239
      \/ n = 4 /\ s[p] \in 240..244
  BY <1>2 DEF CharacterAt
<1>4. \A x \in Int : /\ x \in 0..127 => x \in Lead[1]
                     /\ x \in 194..223 => x \in Lead[2]
                     /\ x \in 224..239 => x \in Lead[3]
                     /\ x \in 240..244 => x \in Lead[4]
  BY <1>0
<1>5. s[p] \in Lead[n]
  BY <1>1, <1>3, <1>4
<1>6. \A x \in Int : /\ x \in Lead[1] => x \notin Lead[2] /\ x \notin Lead[3] /\ x \notin Lead[4]
                     /\ x \in Lead[2] => x \notin Lead[3] /\ x \notin Lead[4]
                     /\ x \in Lead[3] => x \notin Lead[4]
  <2> SUFFICES ASSUME NEW x \in Int
               PROVE  /\ x \in Lead[1] => x \notin Lead[2] /\ x \notin Lead[3] /\ x \notin Lead[4]
                      /\ x \in Lead[2] => x \notin Lead[3] /\ x \notin Lead[4]
                      /\ x \in Lead[3] => x \notin Lead[4]
    OBVIOUS
  <2>1. x \in Lead[1] <=> 0 <= x /\ x <= 127
    BY <1>0
  <2>2. x \in Lead[2] <=> 192 <= x /\ x <= 223
    BY <1>0
  <2>3. x \in Lead[3] <=> 224 <= x /\ x <= 239
    BY <1>0
  <2>4. x \in Lead[4] <=> 240 <= x /\ x <= 247
    BY <1>0
  <2> QED
    BY <2>1, <2>2, <2>3, <2>4
<1>7. ASSUME NEW m \in 1..4, s[p] \in Lead[m]
      PROVE  m = n
  <2>1. m = 1 \/ m = 2 \/ m = 3 \/ m = 4
    OBVIOUS
  <2> QED
    BY <1>1, <1>2, <1>5, <1>6, <1>7, <2>1
<1> QED
  BY <1>5, <1>7 DEF CharacterAt, LooksLikeCharacter

\* While well-formed text is looked at, the index stands at a character.
KeptInv ==
    WellFormed(string) /\ ~HasNul(string) =>
        /\ phase \notin {"convert", "refused"}
        /\ phase = "detect" => /\ actualSize = Len(string)
                               /\ i \in Starts(string) \cup {Len(string) + 1}
        /\ HasText => result = string

LEMMA KeptStep ==
    ASSUME TextTypeOK, KeptInv, [TextNext]_textVars
    PROVE  KeptInv'
<1> SUFFICES ASSUME WellFormed(string'), ~HasNul(string')
             PROVE  /\ phase' \notin {"convert", "refused"}
                    /\ phase' = "detect" =>
                           /\ actualSize' = Len(string')
                           /\ i' \in Starts(string') \cup {Len(string') + 1}
                    /\ HasText' => result' = string'
  BY DEF KeptInv
<1>0. string' = string
  BY DEF TextNext, textVars, Measure, Detect, KeepBytes, NotUtf8, Convert, Converted, ToWide
<1>1. WellFormed(string) /\ ~HasNul(string) /\ string \in Seq(Byte)
  BY <1>0 DEF TextTypeOK
<1>2. ASSUME phase = "detect", ~AtEnd
      PROVE  /\ i \in Starts(string) /\ i \in 1..Len(string)
             /\ actualSize = Len(string)
             /\ \E n \in 1..4 : /\ CharacterAt(string, i, n)
                                /\ i + n \in Starts(string) \cup {Len(string) + 1}
  <2>1. actualSize = Len(string) /\ i \in Starts(string) \cup {Len(string) + 1}
    BY <1>1, <1>2 DEF KeptInv
  <2>2. i <= Len(string)
    BY <1>2, <2>1 DEF AtEnd
  <2>3. i \in Starts(string)
    BY <2>1, <2>2, <1>1
  <2> QED
    BY <2>1, <2>3, <1>1 DEF WellFormed, Starts
<1>3. CASE Measure
  BY <1>0, <1>1, <1>3, SizeIsBounded DEF Measure, WellFormed, HasText
<1>4. CASE Detect
  <2>1. phase = "detect" /\ ~AtEnd
    BY <1>4 DEF Detect
  <2>2. PICK n \in 1..4 : /\ CharacterAt(string, i, n)
                          /\ i + n \in Starts(string) \cup {Len(string) + 1}
    BY <1>2, <2>1
  <2>3. PICK m \in 1..4 : /\ LooksLikeCharacter(string, i, m, actualSize)
                          /\ i' = i + m
    BY <1>4 DEF Detect
  <2>4. m = n
    BY <1>1, <1>2, <2>1, <2>2, <2>3, CharacterLooksLikeOne
  <2> QED
    BY <1>0, <1>2, <1>4, <2>1, <2>2, <2>3, <2>4 DEF Detect, HasText
<1>5. CASE KeepBytes
  <2>1. phase = "detect" /\ AtEnd /\ result' = SubSeq(string, 1, actualSize)
    BY <1>5 DEF KeepBytes
  <2>2. actualSize = Len(string)
    BY <1>1, <2>1 DEF KeptInv
  <2>3. result' = string
    BY <1>1, <2>1, <2>2
  <2> QED
    BY <1>0, <1>5, <2>3 DEF KeepBytes
<1>6. CASE NotUtf8
  <2>1. phase = "detect" /\ ~AtEnd
        /\ \A n \in 1..4 : ~LooksLikeCharacter(string, i, n, actualSize)
    BY <1>6 DEF NotUtf8
  <2> QED
    BY <1>1, <1>2, <2>1, CharacterLooksLikeOne
<1>7. CASE Convert
  BY <1>1, <1>7 DEF KeptInv, Convert
<1>8. CASE Converted
  BY <1>1, <1>8 DEF KeptInv, Converted
<1>9. CASE ToWide
  BY <1>0, <1>1, <1>9 DEF KeptInv, ToWide, HasText
<1>10. CASE UNCHANGED textVars
  BY <1>1, <1>10 DEF KeptInv, textVars, HasText
<1> QED
  BY <1>3, <1>4, <1>5, <1>6, <1>7, <1>8, <1>9, <1>10 DEF TextNext

\* Well-formed UTF-8 without a NUL is given back byte for byte, whatever its
\* length and wherever its characters stand.
THEOREM WellFormedKept == TextSpec => []WellFormedIsKept
<1>1. TextInit => KeptInv
  BY DEF TextInit, KeptInv, HasText
<1>2. KeptInv => WellFormedIsKept
  BY DEF KeptInv, WellFormedIsKept
<1> QED
  BY <1>1, <1>2, KeptStep, TextTypeCorrect, PTL DEF TextSpec
-----------------------------------------------------------------------------
(* What decides how an entry is read *)

\* How many bytes the first one announces.
Group(b) == IF b < 128 THEN 1 ELSE IF b < 224 THEN 2
            ELSE IF b < 240 THEN 3 ELSE 4

\* The groups before j are complete and follow each other up to it.
LooseTo(s, j) ==
    /\ j > 1 => 1 \in Starts(s)
    /\ \A p \in Starts(s) : p < j =>
          /\ s[p] < 248
          /\ p + Group(s[p]) \in Starts(s) \cup {j}
          /\ \A q \in (p + 1)..(p + Group(s[p]) - 1) : q \notin Starts(s)

LEMMA LooseToTheEnd ==
    ASSUME NEW s \in Seq(Byte)
    PROVE  LooseForm(s) <=> LooseTo(s, Len(s) + 1)
<1>1. Len(s) \in Nat /\ \A p \in Starts(s) : p < Len(s) + 1
  BY DEF Starts
<1>2. Len(s) > 0 <=> Len(s) + 1 > 1
  BY <1>1
<1> QED
  BY <1>1, <1>2 DEF LooseForm, LooseTo, Group

\* A byte that leads n bytes is no continuation, and announces n.
LEMMA LeadIsAStart ==
    ASSUME NEW b \in Byte, NEW n \in 1..4
    PROVE  b \in Lead[n] <=> b \notin Tail2 /\ b < 248 /\ Group(b) = n
<1>0. /\ Lead[1] = 0..127 /\ Lead[2] = 192..223
      /\ Lead[3] = 224..239 /\ Lead[4] = 240..247
  BY DEF Lead
<1>1. b \in Int /\ 0 <= b /\ b <= 255
  BY DEF Byte
<1>2. b \notin Tail2 <=> b < 128 \/ b > 191
  BY <1>1 DEF Tail2
<1>3. n = 1 \/ n = 2 \/ n = 3 \/ n = 4
  OBVIOUS
<1>4. /\ b \in Lead[1] <=> 0 <= b /\ b <= 127
      /\ b \in Lead[2] <=> 192 <= b /\ b <= 223
      /\ b \in Lead[3] <=> 224 <= b /\ b <= 239
      /\ b \in Lead[4] <=> 240 <= b /\ b <= 247
  BY <1>0, <1>1
<1> QED
  BY <1>1, <1>2, <1>3, <1>4 DEF Group

\* One turn of the detection makes one group more.
LEMMA LooseNext ==
    ASSUME NEW s \in Seq(Byte), NEW j \in 1..Len(s), NEW n \in 1..4,
           LooseTo(s, j), LooksLikeCharacter(s, j, n, Len(s))
    PROVE  /\ j \in Starts(s) /\ Group(s[j]) = n
           /\ j + n \in 1..(Len(s) + 1)
           /\ LooseTo(s, j + n)
<1>1. s[j] \in Byte
  OBVIOUS
<1>2. s[j] \notin Tail2 /\ s[j] < 248 /\ Group(s[j]) = n
  BY <1>1, LeadIsAStart DEF LooksLikeCharacter
<1>3. j \in Starts(s)
  BY <1>2 DEF Starts
<1>4. j + n \in 1..(Len(s) + 1)
  BY DEF LooksLikeCharacter
<1>5. \A q \in (j + 1)..(j + n - 1) : q \notin Starts(s)
  <2> SUFFICES ASSUME NEW q \in (j + 1)..(j + n - 1) PROVE q \notin Starts(s)
    OBVIOUS
  <2>1. q - j \in 1..(n - 1) /\ j + (q - j) = q
    OBVIOUS
  <2>2. s[j + (q - j)] \in Tail2
    BY <2>1 DEF LooksLikeCharacter
  <2> QED
    BY <2>1, <2>2 DEF Starts
<1>6. j + n > 1 => 1 \in Starts(s)
  <2>1. j = 1 \/ j > 1
    OBVIOUS
  <2> QED
    BY <1>3, <2>1 DEF LooseTo
<1>7. ASSUME NEW p \in Starts(s), p < j + n
      PROVE  /\ s[p] < 248
             /\ p + Group(s[p]) \in Starts(s) \cup {j + n}
             /\ \A q \in (p + 1)..(p + Group(s[p]) - 1) : q \notin Starts(s)
  <2>1. p \in Int
    BY DEF Starts
  <2>2. CASE p < j
    BY <1>3, <2>2 DEF LooseTo
  <2>3. CASE p = j
    BY <1>2, <1>5, <2>3
  <2>4. CASE p > j
    <3>1. p \in (j + 1)..(j + n - 1)
      BY <1>7, <2>1, <2>4
    <3> QED
      BY <1>5, <3>1
  <2> QED
    BY <2>1, <2>2, <2>3, <2>4
<1> QED
  BY <1>2, <1>3, <1>4, <1>6, <1>7 DEF LooseTo

\* Without a NUL at its start, the entry is measured up to its first NUL.
LEMMA NoNulBeforeSize ==
    ASSUME NEW s \in Seq(Byte), ~(Len(s) > 0 /\ s[1] = 0)
    PROVE  \A p \in 1..SizeBeforeNul(s) : s[p] # 0
<1> DEFINE nuls == {p \in 1..Len(s) : s[p] = 0}
           first == CHOOSE p \in nuls : \A q \in nuls : p <= q
<1>1. SizeBeforeNul(s) = IF nuls = {} \/ 1 \in nuls THEN Len(s) ELSE first - 1
  BY DEF SizeBeforeNul
<1>2. 1 \notin nuls
  OBVIOUS
<1>3. ASSUME nuls # {}
      PROVE  first \in 1..Len(s) /\ \A q \in nuls : first <= q
  <2>1. nuls \subseteq Nat
    OBVIOUS
  <2>2. PICK p \in nuls : \A q \in nuls : ~(<<q, p>> \in OpToRel(<, Nat))
    BY <1>3, <2>1, NatLessThanWellFounded, WFMin
  <2>3. \A q \in nuls : p <= q
    <3>1. \A x, y \in Nat : x < y => <<x, y>> \in OpToRel(<, Nat)
      BY DEF OpToRel
    <3> HIDE DEF nuls
    <3>2. \A q \in nuls : p \in Nat /\ q \in Nat /\ ~(q < p)
      BY <2>1, <2>2, <3>1
    <3> QED
      BY <3>2
  <2>4. first \in nuls /\ \A q \in nuls : first <= q
    BY <2>3
  <2> QED
    BY <2>4
<1>4. SizeBeforeNul(s) \in 0..Len(s)
  BY SizeIsBounded
<1> HIDE DEF first
<1> SUFFICES ASSUME NEW p \in 1..SizeBeforeNul(s), s[p] = 0 PROVE FALSE
  OBVIOUS
<1>5. p \in nuls
  BY <1>4
<1> QED
  BY <1>1, <1>2, <1>3, <1>5

\* What Windows-1252 makes of a byte is longer than it, unless it is ASCII.
LEMMA EncodedLength ==
    ASSUME NEW b \in Byte
    PROVE  /\ Len(Encoded(b)) >= 1
           /\ b >= 128 => Len(Encoded(b)) >= 2
BY DEF Byte, Encoded, TwoBytes, ThreeBytes

\* The bytes the reading is about.
Measured == SubSeq(string, 1, actualSize)

\* The detection has seen complete groups up to its index, and if all of the
\* entry is made of such groups, one starts there.  A conversion runs only
\* if it is not, and then there is a high byte that makes the result longer
\* than the entry.
DecidedInv ==
    /\ phase # "measure" => actualSize = SizeBeforeNul(string)
    /\ ~(Len(string) > 0 /\ string[1] = 0) =>
        /\ phase = "detect" =>
              /\ i \in 1..(actualSize + 1)
              /\ LooseTo(Measured, i)
              /\ LooseForm(Measured) => i \in Starts(Measured) \cup {actualSize + 1}
        /\ phase = "convert" =>
              /\ ~LooseForm(Measured)
              /\ \E p \in 1..actualSize : string[p] >= 128
              /\ i \in 1..(actualSize + 1)
              /\ Len(result) >= i - 1
              /\ (\E p \in 1..(i - 1) : string[p] >= 128) => Len(result) >= i
        /\ HasText => (result = Measured <=> LooseForm(Measured))

LEMMA DecidedStep ==
    ASSUME TextTypeOK, DecidedInv, [TextNext]_textVars
    PROVE  DecidedInv'
<1>0. string' = string
  BY DEF TextNext, textVars, Measure, Detect, KeepBytes, NotUtf8, Convert, Converted, ToWide
<1>1. phase' # "measure" => actualSize' = SizeBeforeNul(string')
  BY DEF DecidedInv, TextNext, textVars, Measure, Detect, KeepBytes, NotUtf8,
         Convert, Converted, ToWide
<1> DEFINE Goal ==
        /\ phase' = "detect" =>
              /\ i' \in 1..(actualSize' + 1)
              /\ LooseTo(Measured', i')
              /\ LooseForm(Measured') => i' \in Starts(Measured') \cup {actualSize' + 1}
        /\ phase' = "convert" =>
              /\ ~LooseForm(Measured')
              /\ \E p \in 1..actualSize' : string'[p] >= 128
              /\ i' \in 1..(actualSize' + 1)
              /\ Len(result') >= i' - 1
              /\ (\E p \in 1..(i' - 1) : string'[p] >= 128) => Len(result') >= i'
        /\ HasText' => (result' = Measured' <=> LooseForm(Measured'))
<1> SUFFICES ASSUME ~(Len(string) > 0 /\ string[1] = 0) PROVE Goal
  BY <1>0, <1>1 DEF DecidedInv
<1>2. /\ string \in Seq(Byte) /\ actualSize \in 0..Len(string)
      /\ result \in Seq(Byte) /\ i \in 1..(Len(string) + 1)
  BY DEF TextTypeOK
<1>3. /\ Measured \in Seq(Byte) /\ Len(Measured) = actualSize
      /\ \A p \in 1..actualSize : Measured[p] = string[p]
  BY <1>2 DEF Measured
<1>4. phase # "measure" => \A p \in 1..actualSize : string[p] # 0 /\ string[p] \in Byte
  BY <1>2, NoNulBeforeSize DEF DecidedInv
<1>5. \A j, n \in Nat : LooksLikeCharacter(string, j, n, actualSize)
                            /\ j \in 1..actualSize /\ n \in 1..4
                      <=> LooksLikeCharacter(Measured, j, n, Len(Measured))
                            /\ j \in 1..actualSize /\ n \in 1..4
  <2> SUFFICES ASSUME NEW j \in 1..actualSize, NEW n \in 1..4
               PROVE  LooksLikeCharacter(string, j, n, actualSize)
                        <=> LooksLikeCharacter(Measured, j, n, Len(Measured))
    OBVIOUS
  <2>1. Measured[j] = string[j]
    BY <1>3
  <2>2. j + n - 1 <= actualSize => \A k \in 1..(n - 1) : Measured[j + k] = string[j + k]
    BY <1>2, <1>3
  <2> QED
    BY <1>3, <2>1, <2>2 DEF LooksLikeCharacter
<1>6. CASE Measure
  <2>1. i' = 1 /\ phase' = "detect" /\ actualSize' = SizeBeforeNul(string)
    BY <1>6 DEF Measure
  <2>2. actualSize' \in 0..Len(string)
    BY <1>2, <2>1, SizeIsBounded
  <2>3. /\ Measured' \in Seq(Byte) /\ Len(Measured') = actualSize'
    <3>1. Measured' = SubSeq(string, 1, actualSize')
      BY <1>0 DEF Measured
    <3>2. \A n \in 0..Len(string) : /\ SubSeq(string, 1, n) \in Seq(Byte)
                                   /\ Len(SubSeq(string, 1, n)) = n
      BY <1>2
    <3> QED
      BY <2>2, <3>1, <3>2
  <2>4. LooseTo(Measured', 1)
    BY <2>3 DEF LooseTo, Starts
  <2>5. LooseForm(Measured') => 1 \in Starts(Measured') \cup {actualSize' + 1}
    <3>1. actualSize' = 0 \/ actualSize' > 0
      BY <2>2
    <3> QED
      BY <2>3, <3>1 DEF LooseForm
  <2> QED
    BY <2>1, <2>2, <2>4, <2>5 DEF HasText
<1>7. CASE Detect
  <2>1. phase = "detect" /\ ~AtEnd /\ UNCHANGED <<string, actualSize, result, phase>>
    BY <1>7 DEF Detect
  <2>2. PICK n \in 1..4 : /\ LooksLikeCharacter(string, i, n, actualSize)
                          /\ i' = i + n
    BY <1>7 DEF Detect
  <2>3. /\ i \in 1..actualSize /\ LooseTo(Measured, i)
        /\ LooseForm(Measured) => i \in Starts(Measured)
    <3>1. i <= actualSize /\ i \in 1..(actualSize + 1)
      BY <2>1 DEF AtEnd, DecidedInv
    <3> QED
      BY <1>2, <2>1, <3>1 DEF DecidedInv
  <2>4. LooksLikeCharacter(Measured, i, n, Len(Measured))
    BY <1>5, <2>2, <2>3
  <2>5. /\ Group(Measured[i]) = n /\ i + n \in 1..(actualSize + 1)
        /\ LooseTo(Measured, i + n)
    BY <1>3, <2>3, <2>4, LooseNext
  <2>6. LooseForm(Measured) => i + n \in Starts(Measured) \cup {actualSize + 1}
    <3> SUFFICES ASSUME LooseForm(Measured)
                 PROVE  i + n \in Starts(Measured) \cup {actualSize + 1}
      OBVIOUS
    <3>1. i \in Starts(Measured) /\ i < actualSize + 1
      BY <1>2, <2>3
    <3>2. LooseTo(Measured, actualSize + 1)
      BY <1>3, LooseToTheEnd
    <3> QED
      BY <2>5, <3>1, <3>2 DEF LooseTo
  <2>7. Measured' = Measured
    BY <2>1 DEF Measured
  <2> QED
    BY <2>1, <2>2, <2>5, <2>6, <2>7 DEF HasText
<1>8. CASE KeepBytes
  <2>1. /\ phase = "detect" /\ AtEnd /\ result' = Measured /\ phase' = "text"
        /\ actualSize' = actualSize
    BY <1>8 DEF KeepBytes, Measured
  <2>2. i \in 1..(actualSize + 1) /\ LooseTo(Measured, i)
    BY <2>1 DEF DecidedInv
  <2>3. i = actualSize + 1
    <3>1. i <= actualSize => string[i] # 0
      BY <1>2, <1>4, <2>1, <2>2
    <3> QED
      BY <1>2, <2>1, <2>2, <3>1 DEF AtEnd
  <2>4. LooseForm(Measured)
    BY <1>3, <2>2, <2>3, LooseToTheEnd
  <2>5. Measured' = Measured
    BY <1>0, <2>1 DEF Measured
  <2> QED
    BY <2>1, <2>4, <2>5
<1>9. CASE NotUtf8
  <2>1. /\ phase = "detect" /\ ~AtEnd /\ phase' = "convert" /\ i' = 1
        /\ \A n \in 1..4 : ~LooksLikeCharacter(string, i, n, actualSize)
        /\ actualSize' = actualSize /\ result' = result
    BY <1>9 DEF NotUtf8
  <2>2. i \in 1..actualSize /\ (LooseForm(Measured) => i \in Starts(Measured))
    <3>1. i <= actualSize /\ i \in 1..(actualSize + 1)
      BY <2>1 DEF AtEnd, DecidedInv
    <3> QED
      BY <1>2, <2>1, <3>1 DEF DecidedInv
  <2>3. Measured[i] = string[i] /\ string[i] \in Byte
    BY <1>2, <1>3, <2>2
  <2>4. ~LooseForm(Measured)
    <3> SUFFICES ASSUME LooseForm(Measured) PROVE FALSE
      OBVIOUS
    <3> DEFINE n == Group(Measured[i])
    <3>0. n \in 1..4
      BY DEF Group
    <3>1. /\ Measured[i] < 248 /\ i \in Starts(Measured)
          /\ i + n \in Starts(Measured) \cup {actualSize + 1}
          /\ \A q \in (i + 1)..(i + n - 1) : q \notin Starts(Measured)
      <4>1. LooseTo(Measured, actualSize + 1)
        BY <1>3, LooseToTheEnd
      <4> QED
        BY <1>2, <2>2, <4>1 DEF LooseTo
    <3>2. i + n <= actualSize + 1
      BY <1>2, <1>3, <3>1 DEF Starts
    <3>3. Measured[i] \in Lead[n]
      <4>1. Measured[i] \notin Tail2
        BY <3>1 DEF Starts
      <4> QED
        BY <2>3, <3>0, <3>1, <4>1, LeadIsAStart
    <3> HIDE DEF n
    <3>4. \A k \in 1..(n - 1) : Measured[i + k] \in Tail2
      <4> SUFFICES ASSUME NEW k \in 1..(n - 1) PROVE Measured[i + k] \in Tail2
        OBVIOUS
      <4>1. i + k \in (i + 1)..(i + n - 1) /\ i + k \in 1..actualSize
        BY <1>2, <2>2, <3>0, <3>2
      <4> QED
        BY <1>3, <3>1, <4>1 DEF Starts
    <3>5. LooksLikeCharacter(Measured, i, n, Len(Measured))
      BY <1>2, <1>3, <2>2, <3>0, <3>2, <3>3, <3>4 DEF LooksLikeCharacter
    <3> QED
      BY <1>5, <2>1, <2>2, <3>0, <3>5
  <2>5. string[i] >= 128
    <3>0. \A b \in Byte : b >= 128 \/ b \in 0..127
      BY DEF Byte
    <3> SUFFICES ASSUME string[i] \in 0..127 PROVE FALSE
      BY <2>3, <3>0
    <3>1. string[i] \in Lead[1]
      BY DEF Lead
    <3>2. LooksLikeCharacter(string, i, 1, actualSize)
      BY <1>2, <2>2, <3>1 DEF LooksLikeCharacter
    <3> QED
      BY <2>1, <3>2
  <2>6. Measured' = Measured
    BY <1>0, <2>1 DEF Measured
  <2>7. Len(result) >= 0
    BY <1>2
  <2> QED
    BY <1>0, <1>2, <2>1, <2>2, <2>4, <2>5, <2>6, <2>7 DEF HasText
<1>10. CASE Convert
  <2>1. /\ phase = "convert" /\ ~AtEnd /\ phase' = "convert" /\ i' = i + 1
        /\ result' = result \o Encoded(string[i]) /\ actualSize' = actualSize
    BY <1>10 DEF Convert
  <2>2. i \in 1..actualSize
    <3>1. i <= actualSize
      BY <2>1 DEF AtEnd
    <3> QED
      BY <1>2, <3>1
  <2>3. string[i] \in Byte
    BY <1>2, <2>2
  <2>4. /\ Len(Encoded(string[i])) \in Nat /\ Len(Encoded(string[i])) >= 1
        /\ string[i] >= 128 => Len(Encoded(string[i])) >= 2
        /\ Len(result') = Len(result) + Len(Encoded(string[i]))
    <3>1. PICK n \in 1..4 : IsCharacter(Encoded(string[i]), n)
      BY <2>3, EncodedIsACharacter
    <3>2. Encoded(string[i]) \in Seq(Byte)
      BY <3>1 DEF IsCharacter
    <3> DEFINE e == Encoded(string[i])
    <3>3. /\ Len(e) >= 1
          /\ string[i] >= 128 => Len(e) >= 2
      BY <2>3, EncodedLength
    <3> HIDE DEF e
    <3>4. e \in Seq(Byte) /\ result' = result \o e
      BY <2>1, <3>2 DEF e
    <3>5. Len(e) \in Nat /\ Len(result') = Len(result) + Len(e)
      BY <1>2, <3>4
    <3> QED
      BY <3>3, <3>5 DEF e
  <2>5. /\ ~LooseForm(Measured) /\ Len(result) >= i - 1
        /\ \E p \in 1..actualSize : string[p] >= 128
        /\ (\E p \in 1..(i - 1) : string[p] >= 128) => Len(result) >= i
    BY <2>1 DEF DecidedInv
  <2>6. Measured' = Measured
    BY <1>0, <2>1 DEF Measured
  <2>7. Len(result) \in Nat
    BY <1>2
  <2>8. Len(result') >= (i + 1) - 1
    BY <1>2, <2>4, <2>5, <2>7
  <2>9. ASSUME NEW p \in 1..((i + 1) - 1), string[p] >= 128
        PROVE  Len(result') >= i + 1
    <3>1. CASE p = i
      BY <1>2, <2>4, <2>5, <2>7, <2>9, <3>1
    <3>2. CASE p # i
      <4>1. p \in 1..(i - 1)
        BY <1>2, <3>2
      <4>2. Len(result) >= i
        BY <2>5, <2>9, <4>1
      <4> QED
        BY <1>2, <2>4, <2>7, <4>2
    <3> QED
      BY <3>1, <3>2
  <2>10. i + 1 \in 1..(actualSize + 1)
    BY <1>2, <2>2
  <2> QED
    BY <1>0, <2>1, <2>5, <2>6, <2>8, <2>9, <2>10 DEF HasText
<1>11. CASE Converted
  <2>1. /\ phase = "convert" /\ AtEnd /\ phase' = "text"
        /\ result' = result /\ actualSize' = actualSize
    BY <1>11 DEF Converted
  <2>2. /\ i \in 1..(actualSize + 1) /\ ~LooseForm(Measured)
        /\ \E p \in 1..actualSize : string[p] >= 128
        /\ (\E p \in 1..(i - 1) : string[p] >= 128) => Len(result) >= i
    BY <2>1 DEF DecidedInv
  <2>3. i = actualSize + 1
    <3>1. i <= actualSize => string[i] # 0
      BY <1>2, <1>4, <2>1, <2>2
    <3> QED
      BY <1>2, <2>1, <2>2, <3>1 DEF AtEnd
  <2>4. Len(result) >= actualSize + 1
    BY <1>2, <2>2, <2>3
  <2>5. result # Measured
    BY <1>2, <1>3, <2>4
  <2>6. Measured' = Measured
    BY <1>0, <2>1 DEF Measured
  <2> QED
    BY <2>1, <2>2, <2>5, <2>6
<1>12. CASE ToWide
  <2>1. /\ phase = "text" /\ phase' \in {"wide", "refused"}
        /\ UNCHANGED <<string, actualSize, i, result>>
    BY <1>12 DEF ToWide
  <2>2. Measured' = Measured
    BY <2>1 DEF Measured
  <2> QED
    BY <2>1, <2>2 DEF HasText, DecidedInv
<1>13. CASE UNCHANGED textVars
  <2>1. Measured' = Measured
    BY <1>13 DEF Measured, textVars
  <2> QED
    BY <1>13, <2>1 DEF HasText, DecidedInv, textVars
<1> QED
  BY <1>6, <1>7, <1>8, <1>9, <1>10, <1>11, <1>12, <1>13 DEF TextNext

\* Whatever the length of an entry, one byte that fits in no group decides
\* for Windows-1252, and an entry made of groups is never converted.
THEOREM TheWholeDecides == TextSpec => []ReadingIsDecidedByTheWhole
<1>1. TextInit => DecidedInv
  BY DEF TextInit, DecidedInv, HasText
<1>2. TextTypeOK /\ DecidedInv => ReadingIsDecidedByTheWhole
  <2> SUFFICES ASSUME TextTypeOK, DecidedInv, HasText, ~(actualSize > 0 /\ string[1] = 0)
               PROVE  result = Measured <=> LooseForm(Measured)
    BY DEF ReadingIsDecidedByTheWhole, Measured
  <2>1. string \in Seq(Byte) /\ actualSize = SizeBeforeNul(string)
    BY DEF TextTypeOK, DecidedInv, HasText
  <2>2. ~(Len(string) > 0 /\ string[1] = 0)
    <3> SUFFICES ASSUME Len(string) > 0, string[1] = 0 PROVE FALSE
      OBVIOUS
    <3>1. 1 \in {p \in 1..Len(string) : string[p] = 0}
      BY <2>1
    <3>2. SizeBeforeNul(string) = Len(string)
      BY <3>1 DEF SizeBeforeNul
    <3> QED
      BY <2>1, <3>2
  <2> QED
    BY <2>2 DEF DecidedInv
<1> QED
  BY <1>1, <1>2, DecidedStep, TextTypeCorrect, PTL DEF TextSpec

=============================================================================
