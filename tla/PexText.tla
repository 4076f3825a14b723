------------------------------- MODULE PexText -------------------------------
(***************************************************************************)
(* How an entry of the string table becomes text (PexStringTable.cpp and   *)
(* UTF8ToWString of PexReader.cpp): one call of C_GetStringWide, whose     *)
(* first part, up to the phase "text", is C_GetStringUtf8.                 *)
(*                                                                         *)
(* An entry is any sequence of bytes.  StringTable::ToUtf8 looks for a     *)
(* terminating NUL, then decides with IsLikelyUTF8 whether the bytes are   *)
(* UTF-8 already; if not they are converted as Windows-1252.  The two      *)
(* loops over the bytes are the actions Detect and Convert.                *)
(***************************************************************************)
EXTENDS Integers, Sequences

CONSTANT
    Strings         \* the entries ToUtf8 is called for

Byte == 0..255

ASSUME StringsAssumption == Strings \subseteq Seq(Byte)

VARIABLES
    string,         \* the bytes of the entry
    actualSize,     \* ActualSize of RawString::Parse
    i,              \* the index of the running loop, counted from 1
    result,         \* the std::string built so far
    phase           \* where the call is

textVars == <<string, actualSize, i, result, phase>>

-----------------------------------------------------------------------------
(* UTF-8 as the Unicode standard defines it (table 3-7), against which the *)
(* code is checked.                                                        *)

Tail2 == 128..191

\* A character of n bytes stands at position p of s.
CharacterAt(s, p, n) ==
    /\ p + n - 1 <= Len(s)
    /\ \A k \in 1..(n - 1) : s[p + k] \in Tail2
    /\ CASE n = 1 -> s[p] \in 0..127
         [] n = 2 -> s[p] \in 194..223
         [] n = 3 -> /\ s[p] \in 224..239
                     /\ s[p] = 224 => s[p + 1] >= 160
                     /\ s[p] = 237 => s[p + 1] <= 159
         [] n = 4 -> /\ s[p] \in 240..244
                     /\ s[p] = 240 => s[p + 1] >= 144
                     /\ s[p] = 244 => s[p + 1] <= 143

\* The bytes that do not continue a character.
Starts(s) == {p \in 1..Len(s) : s[p] \notin Tail2}

\* Characters follow each other from the first byte to the last.
WellFormed(s) ==
    /\ Len(s) > 0 => 1 \in Starts(s)
    /\ \A p \in Starts(s) :
          \E n \in 1..4 : /\ CharacterAt(s, p, n)
                          /\ p + n \in Starts(s) \cup {Len(s) + 1}

HasNul(s) == \E p \in 1..Len(s) : s[p] = 0

-----------------------------------------------------------------------------
(* RawString::Parse *)

\* The bytes before the first NUL; all of them if the first is a NUL, for
\* 0 stands for "none found".
SizeBeforeNul(s) ==
    LET nuls == {p \in 1..Len(s) : s[p] = 0}
        first == CHOOSE p \in nuls : \A q \in nuls : p <= q
    IN  IF nuls = {} \/ 1 \in nuls THEN Len(s) ELSE first - 1

\* Where a loop over the bytes stops.
AtEnd == i <= actualSize => string[i] = 0

\* The lead bytes IsLikelyUTF8 knows for each length of a character.
Lead == <<0..127, 192..223, 224..239, 240..247>>

\* Variant: the third byte of a character is not looked at.
LooksLikeCharacterOfTwo(s, p, n, size) ==
    /\ p + n - 1 <= size
    /\ s[p] \in Lead[n]
    /\ \A k \in 1..(IF n = 3 THEN 1 ELSE n - 1) : s[p + k] \in Tail2

\* Variant: a character of several bytes is not taken at the very end.
LooksLikeCharacterBeforeEnd(s, p, n, size) ==
    /\ IF n = 1 THEN p <= size ELSE p + n <= size
    /\ s[p] \in Lead[n]
    /\ \A k \in 1..(n - 1) : s[p + k] \in Tail2

\* IsLikelyUTF8: the lead byte says how many bytes follow, and each of those
\* continues; which character these encode is not looked at.
LooksLikeCharacter(s, p, n, size) ==
    /\ p + n - 1 <= size
    /\ s[p] \in Lead[n]
    /\ \A k \in 1..(n - 1) : s[p + k] \in Tail2

-----------------------------------------------------------------------------
(* Windows1252ToUTF8 *)

\* The characters of the bytes 0x80 to 0x9F.
CP1252_TABLE ==
    << 8364, 129, 8218, 402, 8222, 8230, 8224, 8225,
       710, 8240, 352, 8249, 338, 141, 381, 143,
       144, 8216, 8217, 8220, 8221, 8226, 8211, 8212,
       732, 8482, 353, 8250, 339, 157, 382, 376 >>

\* 0xC0 | u >> 6 and so on: the bits do not overlap.
TwoBytes(u) == <<192 + u \div 64, 128 + (u % 64)>>

ThreeBytes(u) == <<224 + u \div 4096, 128 + ((u \div 64) % 64), 128 + (u % 64)>>

\* Variant: the table's characters are all taken to need two bytes.
EncodedInTwo(b) ==
    IF b < 128 THEN <<b>>
    ELSE TwoBytes(IF b < 160 THEN CP1252_TABLE[b - 127] ELSE b)

Encoded(b) ==
    IF b < 128 THEN <<b>>
    ELSE IF b >= 160 THEN TwoBytes(b)
    ELSE LET unicode == CP1252_TABLE[b - 127]
         IN  IF unicode < 2048 THEN TwoBytes(unicode) ELSE ThreeBytes(unicode)

-----------------------------------------------------------------------------
(* The call *)

\* ActualSize is found before anything else.
Measure ==
    /\ phase = "measure"
    /\ actualSize' = SizeBeforeNul(string)
    /\ i' = 1
    /\ phase' = "detect"
    /\ UNCHANGED <<string, result>>

\* Variant: the loop steps over the byte after a character of several.
DetectSkipping ==
    /\ phase = "detect" /\ ~AtEnd
    /\ \E n \in 1..4 :
          /\ LooksLikeCharacter(string, i, n, actualSize)
          /\ i' = IF n = 1 THEN i + 1 ELSE i + n + 1
    /\ UNCHANGED <<string, actualSize, result, phase>>

\* One turn of the loop of IsLikelyUTF8.
Detect ==
    /\ phase = "detect" /\ ~AtEnd
    /\ \E n \in 1..4 :
          /\ LooksLikeCharacter(string, i, n, actualSize)
          /\ i' = i + n
    /\ UNCHANGED <<string, actualSize, result, phase>>

\* It returns true: the bytes are copied.
KeepBytes ==
    /\ phase = "detect" /\ AtEnd
    /\ result' = SubSeq(string, 1, actualSize)
    /\ phase' = "text"
    /\ UNCHANGED <<string, actualSize, i>>

\* It returns false.
NotUtf8 ==
    /\ phase = "detect" /\ ~AtEnd
    /\ \A n \in 1..4 : ~LooksLikeCharacter(string, i, n, actualSize)
    /\ i' = 1
    /\ phase' = "convert"
    /\ UNCHANGED <<string, actualSize, result>>

\* One turn of the loop of Windows1252ToUTF8.
Convert ==
    /\ phase = "convert" /\ ~AtEnd
    /\ result' = result \o Encoded(string[i])
    /\ i' = i + 1
    /\ UNCHANGED <<string, actualSize, phase>>

Converted ==
    /\ phase = "convert" /\ AtEnd
    /\ phase' = "text"
    /\ UNCHANGED <<string, actualSize, i, result>>

\* UTF8ToWString: the empty text, or what MultiByteToWideChar takes with
\* MB_ERR_INVALID_CHARS.  Otherwise it throws, and the call returns -1.
ToWide ==
    /\ phase = "text"
    /\ phase' = IF result = << >> \/ WellFormed(result) THEN "wide" ELSE "refused"
    /\ UNCHANGED <<string, actualSize, i, result>>

TextInit ==
    /\ string \in Strings
    /\ actualSize = 0 /\ i = 1 /\ result = << >>
    /\ phase = "measure"

TextNext ==
    Measure \/ Detect \/ KeepBytes \/ NotUtf8 \/ Convert \/ Converted \/ ToWide

TextSpec == TextInit /\ [][TextNext]_textVars

-----------------------------------------------------------------------------
(* Properties *)

HasText == phase \in {"text", "wide", "refused"}

\* Every variable has a value of its type, and the loops stay inside the
\* entry.
TextTypeOK ==
    /\ string \in Seq(Byte)
    /\ actualSize \in 0..Len(string)
    /\ i \in 1..(Len(string) + 1)
    /\ result \in Seq(Byte)
    /\ phase \in {"measure", "detect", "convert", "text", "wide", "refused"}

\* What a caller stored with C_ModifyStringTable, null-terminated UTF-8, is
\* given back byte for byte, and has a wide text: the detection takes no
\* well-formed string for Windows-1252, wherever in it the characters of each
\* length stand.
WellFormedIsKept ==
    HasText /\ WellFormed(string) /\ ~HasNul(string) =>
        result = string /\ phase # "refused"

\* What was converted is well-formed UTF-8: no byte of Windows-1252, through
\* the table or beside it, becomes anything that C_GetStringWide refuses.
ConvertedIsWellFormed ==
    HasText /\ result # SubSeq(string, 1, actualSize) =>
        WellFormed(result) /\ phase # "refused"

\* Every byte is part of a group of as many bytes as its first announces.
LooseForm(s) ==
    /\ Len(s) > 0 => 1 \in Starts(s)
    /\ \A p \in Starts(s) :
          /\ s[p] < 248
          /\ LET n == IF s[p] < 128 THEN 1 ELSE IF s[p] < 224 THEN 2
                      ELSE IF s[p] < 240 THEN 3 ELSE 4
             IN  /\ p + n \in Starts(s) \cup {Len(s) + 1}
                 /\ \A q \in (p + 1)..(p + n - 1) : q \notin Starts(s)

\* A string is kept only if all of it looks like UTF-8, and converted
\* otherwise: one letter with a high byte, at whatever place, decides for
\* Windows-1252.  A string that starts with a NUL is not looked at.
ReadingIsDecidedByTheWhole ==
    HasText /\ ~(actualSize > 0 /\ string[1] = 0) =>
        LET bytes == SubSeq(string, 1, actualSize)
        IN  (result = bytes) <=> LooseForm(bytes)
=============================================================================
