------------------------------ MODULE MCPexAbi ------------------------------
(***************************************************************************)
(* PexAbi for two threads and two instances.                               *)
(***************************************************************************)
EXTENDS PexAbi, TLC

CONSTANTS t1, t2, h1, h2, empty, word, latin, long

\* A text that is not UTF-8 has no length in wchar_t.
Bytes == empty :> 0 @@ word :> 2 @@ latin :> 1 @@ long :> 3
Wides == empty :> 0 @@ word :> 1 @@ latin :> -1 @@ long :> 3

Functions == {"C_GetHeaderUsername"}

\* One string in the table, which is not UTF-8, and one in the header.
Loaded == {[strings |-> <<latin>>, header |-> [f \in Functions |-> word]]}

\* A buffer, or none, with capacities around the length of `word`; a capacity
\* without a buffer, and an index out of range.
Buffers ==
    [C_GetStringUtf8 |-> {<<0, FALSE, 0>>, <<0, TRUE, 2>>, <<0, TRUE, 3>>,
                          <<0, FALSE, 1>>, <<1, TRUE, 2>>},
     C_GetStringWide |-> {<<0, FALSE, 0>>, <<0, TRUE, 1>>, <<0, TRUE, 2>>}]

SomeCalls ==
    [name : {"C_CreateInstance"}, handle : {Null}]
    \cup [name : {"C_DestroyInstance", "C_Close"} \cup Functions, handle : {h1, h2, Null}]
    \cup [name : {"C_ReadPex"}, handle : {h1, h2, Null}, hasPath : {TRUE}]
    \cup [name : {"C_SavePex"}, handle : {h1, h2}, hasPath : BOOLEAN]
    \cup [name : {"C_GetUserFlagInfo"}, handle : {h1, h2, Null}, inRange : {FALSE}]
    \cup {[name |-> "C_ModifyStringTable", handle |-> h, index |-> x[1], text |-> x[2]] :
              h \in {h1, h2},
              x \in {<<0, word>>, <<0, long>>, <<1, word>>, <<0, None>>}}
    \cup UNION {{[name |-> f, handle |-> h, index |-> b[1],
                  hasBuffer |-> b[2], capacity |-> b[3]] :
                     h \in {h1, h2}, b \in Buffers[f]} : f \in StringCalls}

Symmetry == Permutations({t1, t2}) \cup Permutations({h1, h2})
=============================================================================
