----------------------------- MODULE MCPexLines -----------------------------
(***************************************************************************)
(* PexLines for a heap of a few addresses.                                 *)
(***************************************************************************)
EXTENDS PexLines, TLC

CONSTANTS a1, a2, a3, a4, a5

\* A function with one number, one with two, and one without: a file with two
\* functions, and files with one.
Lists == {<<7>>, <<7, 65535>>, << >>}
SomeFiles == {<<l>> : l \in Lists} \cup {<<k, l>> : k \in {<<7>>}, l \in Lists}

Symmetry == Permutations({a1, a2, a3, a4, a5})
=============================================================================
