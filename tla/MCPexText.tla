------------------------------ MODULE MCPexText ------------------------------
(***************************************************************************)
(* PexText on the bytes at which one of its tests changes its answer.      *)
(***************************************************************************)
EXTENDS PexText

\* On both sides of every bound of a byte, and some of the table: 0x80 (the
\* largest entry), 0x81, 0x83 (the smallest), 0x8A.
Bytes == {0, 65, 127, 128, 129, 131, 138, 159, 160, 191, 192, 193, 194, 223,
          224, 237, 239, 240, 244, 245, 247, 248, 255}

\* Characters of four bytes, and what is almost one.
LongStrings ==
    {240, 244, 245} \X {65, 128, 143, 144, 191} \X {128, 191, 192} \X {0, 65, 128, 224}

\* All pairs of bytes; up to three, four or five of those above.
SmallStrings ==
    [1..2 -> Byte] \cup UNION {[1..n -> Bytes] : n \in 0..3}
        \cup LongStrings \cup {s \o <<65>> : s \in LongStrings}
=============================================================================
