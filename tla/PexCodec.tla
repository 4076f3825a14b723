------------------------------ MODULE PexCodec ------------------------------
(***************************************************************************)
(* The loader and the writer side by side: what a Load accepted is         *)
(* compared with what Save would write for it, and with what the accessors *)
(* of the C ABI show of it.                                                *)
(***************************************************************************)
EXTENDS PexLoad, PexWrite, PexAccess

\* What a read of two bytes returns is a uint16_t.
ASSUME NumbersAssumption ==
    \A m \in Members :
        m[1] \in {"u16", "string", "count"} => Contents[m] \subseteq 0..MaxStringLength

\* What a successful Load read is, byte for byte and at the same offsets,
\* what Save writes for the instance it left: no member is lost, reordered
\* or written with another width or under another condition than it was read.
Reproduces(writes, bytes, at) ==
    LET offset == Offsets(writes)
    IN  /\ offset[Len(writes) + 1] = bytes
        /\ \A i \in DOMAIN writes :
              offset[i] \in DOMAIN at /\ at[offset[i]] = writes[i]

SaveWritesWhatLoadRead ==
    [][load = "parsing" /\ load' = "loaded" =>
          Reproduces(Writes(inst'), position, disk.at)]_vars

\* The size an accepted object carries is the length of what is written for
\* its data, and 4: Save, which writes the size it read, writes a right one.
ObjectSizesAreRight ==
    \A i \in 1..Size(inst, << >>, "objects") :
        LET object == Child(<< >>, "objects", i)
        IN  Value(inst, object, "size") = 4 + Bytes(WriteObjectData(inst, object))

\* The handlers of a property are what no accessor shows; and for the
\* instruction count of a debug function it shows how many lines there are.
Hidden(path, member) ==
    \/ \E k \in DOMAIN path : path[k][1] \in {"readHandler", "writeHandler"}
    \/ member = "instructionCount"

\* A caller who walks the instance through the C ABI, asking each count and
\* then every index below it, is shown all that Load put into it and nothing
\* else: no accessor takes the count of another vector, refuses an index that
\* exists, returns another member or another alternative of a std::variant
\* (bad_variant_access), or leaves a member out.
AbiShowsWhatIsHeld ==
    [][load = "parsing" /\ load' = "loaded" =>
          LET held(f) == {<<k[1], k[2], f[k]>> :
                              k \in {x \in DOMAIN f : ~Hidden(x[1], x[2])}}
              nonzero(S) == {t \in S : t[3] # 0}
          IN  /\ nonzero(ShownMembers(inst')) = nonzero(held(inst'.val))
              /\ nonzero(ShownSizes(inst')) = nonzero(held(inst'.len))]_vars
=============================================================================
