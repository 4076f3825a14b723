----------------------------- MODULE PexRecords -----------------------------
(***************************************************************************)
(* The data a PexData instance holds (PexSections.cpp, PexHeader.cpp,      *)
(* PexStringTable.cpp) and the constants of the instruction set, shared by *)
(* the loader and the writer.                                              *)
(*                                                                         *)
(* A record tree is kept flat.  A Path names one record: the empty path is *)
(* the PexData itself, <<<<"objects", 2>>, <<"states", 1>>>> the first     *)
(* state of its second object (positions start at 1).  A Key is a member   *)
(* of that record.  `val` gives a member that holds a number or the        *)
(* content of a string, `len` the size of a vector or of a string.  A      *)
(* member that was never assigned has the 0 its constructor gives it.      *)
(***************************************************************************)
EXTENDS Integers, Sequences, FiniteSets

\* A default-constructed PexData.
EmptyData == [val |-> [k \in {} |-> 0], len |-> [k \in {} |-> 0]]

\* The finite map f with f[k] = v.
Put(f, k, v) == [x \in DOMAIN f \cup {k} |-> IF x = k THEN v ELSE f[x]]

Value(d, path, field) ==
    IF <<path, field>> \in DOMAIN d.val THEN d.val[<<path, field>>] ELSE 0

Size(d, path, field) ==
    IF <<path, field>> \in DOMAIN d.len THEN d.len[<<path, field>>] ELSE 0

\* Members that are 0 are left out, so that two trees are equal if and only
\* if all their members are.
Normal(d) ==
    LET nonzero(f) == [k \in {x \in DOMAIN f : f[x] # 0} |-> f[k]]
    IN  [val |-> nonzero(d.val), len |-> nonzero(d.len)]

\* The record at position i of the vector `vector` of the record at `path`.
Child(path, vector, i) == Append(path, <<vector, i>>)

-----------------------------------------------------------------------------
\* What is read or written at once: a number of w bytes, or the n bytes of a
\* string.
Number(w, v) == [width |-> w, value |-> v, text |-> FALSE]
Text(n, v) == [width |-> n, value |-> v, text |-> TRUE]

Items == [width : Nat, value : Nat, text : BOOLEAN]

-----------------------------------------------------------------------------
\* The 4-byte magic 0xFA57C0DE, as the one value that ReadHeader accepts.
Magic == 1

\* A uint8_t bit field with the bit of weight b set.
HasBit(flags, b) == (flags \div b) % 2 = 1

-----------------------------------------------------------------------------
\* enum class Opcode: the opcodes the reader treats apart.
nop == 0
callmethod == 23
callparent == 24
callstatic == 25
array_rfindelement == 35

Calls == {callmethod, callparent, callstatic}

\* Variant: a method call read like a call of the parent.
HeaderArgumentCountOfParent(op) ==
    CASE op = nop -> 0
      [] op \in {20, 26} -> 1
      [] op \in (10..14) \cup {21, 22, 30, 31} -> 2
      [] op \in {34, array_rfindelement, callstatic} -> 4
      [] OTHER -> 3

\* How many arguments stand in the file before any counted by the file
\* itself: GetOpcodeArgumentCount for a plain instruction, the header
\* arguments (the last one is the argument count) for a call.
HeaderArgumentCount(op) ==
    CASE op = nop -> 0
      [] op \in {20, 26} -> 1
      [] op \in (10..14) \cup {21, 22, 30, 31} -> 2
      [] op \in {34, array_rfindelement, callmethod, callstatic} -> 4
      [] OTHER -> 3
=============================================================================
