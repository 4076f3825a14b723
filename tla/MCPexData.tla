----------------------------- MODULE MCPexData -----------------------------
(***************************************************************************)
(* PexData with a file of up to two short strings and a user flag: with    *)
(* the first replaced the file stays within MaxFileSize, with both it does *)
(* not.                                                                    *)
(***************************************************************************)
EXTENDS PexData, MCPexLoad

LifeContents == Choose(
    (<<"count", "count">>           :> {0, 1, 2})
    @@ (<<"string", "bytes">>         :> {0, 2})
    @@ (<<"count", "userFlagCount">>  :> {0, 1}))

\* Exactly as long as the smallest files, and with a byte to spare.
LifeSizes == {29, 33, 35}

\* The empty string, a short one, the longest that can be stored, with which
\* the file outgrows MaxFileSize, and one too long.
Replacements == {[length |-> 0, value |-> 0], [length |-> 3, value |-> 90],
                 [length |-> MaxStringLength, value |-> 91],
                 [length |-> MaxStringLength + 1, value |-> 92]}

ShortReplacements == {s \in Replacements : s.length <= 3}
=============================================================================
