------------------------------- MODULE PexLines -------------------------------
(***************************************************************************)
(* The line numbers of a debug function (C_GetDebugFunctionInfo and        *)
(* C_FreeBuffer, LineNumberBuffer.h): the library allocates an array, and  *)
(* it is the caller's to free.                                             *)
(*                                                                         *)
(* The heap holds the arrays of the caller and the storage of the          *)
(* instance's own vectors, which a load, C_Close and C_DestroyInstance     *)
(* free.  An address that was freed may be allocated anew.                 *)
(***************************************************************************)
EXTENDS Integers, Sequences

CONSTANTS
    Addresses,      \* where an array may be allocated
    Files           \* what a file may hold: the line numbers of its functions

Null == 0
Untouched == -1

ASSUME LinesAssumption ==
    /\ Null \notin Addresses /\ Untouched \notin Addresses
    /\ Files \subseteq Seq(Seq(Nat))

VARIABLES
    alive,          \* there is an instance
    functions,      \* where its functions' lineNumbers are, Null if empty
    heap,           \* the allocated arrays, by address
    given,          \* the caller's arrays: numbers and count at their call
    outputs         \* what the last C_GetDebugFunctionInfo left its caller

linesVars == <<alive, functions, heap, given, outputs>>

\* The two outputs are asked for or not; one that was not keeps its value,
\* whatever that is.
Asked == SUBSET {"lineNumbers", "lineCount"}

Result(handle, ret, asked, lines, count) ==
    [handle |-> handle, ret |-> ret, asked |-> asked,
     lines |-> IF "lineNumbers" \in asked THEN lines ELSE Untouched,
     count |-> IF "lineCount" \in asked THEN count ELSE Untouched]

\* No call yet, or the caller has done with what it left.
NoResult == [handle |-> FALSE, ret |-> Untouched, asked |-> {}, lines |-> Untouched,
             count |-> Untouched]

Storage == {functions[i] : i \in DOMAIN functions} \ {Null}

\* The heap without the addresses A.
Freed(A) == [a \in DOMAIN heap \ A |-> heap[a]]

-----------------------------------------------------------------------------
(* The instance *)

CreateInstance ==
    /\ ~alive
    /\ alive' = TRUE
    /\ UNCHANGED <<functions, heap, given, outputs>>

\* Load parses into vectors of its own and moves them into the instance, whose
\* old ones are freed last.  A Load that fails frees its own: nothing changes.
Load ==
    /\ alive
    /\ \E file \in Files :
       \E at \in [DOMAIN file -> (Addresses \ DOMAIN heap) \cup {Null}] :
          /\ \A i \in DOMAIN file : at[i] = Null <=> file[i] = << >>
          /\ \A i, j \in DOMAIN file : at[i] = at[j] /\ at[i] # Null => i = j
          /\ functions' = at
          /\ heap' = [a \in (DOMAIN heap \ Storage)
                            \cup ({at[i] : i \in DOMAIN file} \ {Null}) |->
                         IF a \in DOMAIN heap THEN heap[a]
                         ELSE file[CHOOSE i \in DOMAIN file : at[i] = a]]
    /\ UNCHANGED <<alive, given, outputs>>

\* Variant: the vectors are freed, and still there.
CloseWithoutReset ==
    /\ alive
    /\ heap' = Freed(Storage)
    /\ UNCHANGED <<alive, functions, given, outputs>>

Close ==
    /\ alive
    /\ functions' = << >>
    /\ heap' = Freed(Storage)
    /\ UNCHANGED <<alive, given, outputs>>

DestroyInstance ==
    /\ alive
    /\ alive' = FALSE
    /\ functions' = << >>
    /\ heap' = Freed(Storage)
    /\ UNCHANGED <<given, outputs>>

-----------------------------------------------------------------------------
(* C_GetDebugFunctionInfo *)

\* The wrapper refuses a null handle before the outputs are touched.
RefuseHandle ==
    /\ \E asked \in Asked : outputs' = Result(FALSE, 0, asked, Untouched, Untouched)
    /\ UNCHANGED <<alive, functions, heap, given>>

\* Variant: the outputs are set only once the index is found right.
RefuseIndexUntouched ==
    /\ alive
    /\ \E asked \in Asked : outputs' = Result(TRUE, 0, asked, Untouched, Untouched)
    /\ UNCHANGED <<alive, functions, heap, given>>

\* An index out of range, found after the outputs were reset.
RefuseIndex ==
    /\ alive
    /\ \E asked \in Asked : outputs' = Result(TRUE, 0, asked, Null, 0)
    /\ UNCHANGED <<alive, functions, heap, given>>

\* No line numbers: none there, or not both outputs asked for.
GiveNoLines ==
    /\ alive
    /\ \E i \in DOMAIN functions, asked \in Asked :
          /\ asked = {"lineNumbers", "lineCount"} => functions[i] = Null
          /\ outputs' = Result(TRUE, 1, asked, Null, 0)
    /\ UNCHANGED <<alive, functions, heap, given>>

\* Variant: the vector's own array is returned, and no copy made.
ShareLines ==
    /\ alive
    /\ \E i \in DOMAIN functions :
          LET a == functions[i] IN
          /\ a # Null
          /\ given' = [x \in DOMAIN given \cup {a} |->
                          IF x = a THEN [numbers |-> heap[a], count |-> Len(heap[a])]
                          ELSE given[x]]
          /\ outputs' = Result(TRUE, 1, {"lineNumbers", "lineCount"}, a, Len(heap[a]))
    /\ UNCHANGED <<alive, functions, heap>>

\* The numbers are copied to a new array, the caller's from here on.
GiveLines ==
    /\ alive
    /\ \E i \in DOMAIN functions, a \in Addresses \ DOMAIN heap :
          /\ functions[i] # Null
          /\ LET numbers == heap[functions[i]] IN
             /\ heap' = [x \in DOMAIN heap \cup {a} |->
                            IF x = a THEN numbers ELSE heap[x]]
             /\ given' = [x \in DOMAIN given \cup {a} |->
                             IF x = a THEN [numbers |-> numbers, count |-> Len(numbers)]
                             ELSE given[x]]
             /\ outputs' = Result(TRUE, 1, {"lineNumbers", "lineCount"}, a, Len(numbers))
    /\ UNCHANGED <<alive, functions>>

\* The allocation threw: the outputs stay reset, the wrapper returns 0.
CannotCopy ==
    /\ alive
    /\ \E i \in DOMAIN functions : functions[i] # Null
    /\ outputs' = Result(TRUE, 0, {"lineNumbers", "lineCount"}, Null, 0)
    /\ UNCHANGED <<alive, functions, heap, given>>

-----------------------------------------------------------------------------
(* C_FreeBuffer *)

\* Variant: the owner made of the pointer is released, not destroyed.
FreeBufferOfNothing ==
    /\ \E a \in DOMAIN given \cup {Null} :
          /\ given' = [x \in DOMAIN given \ {a} |-> given[x]]
          /\ outputs' = IF outputs.lines = a THEN NoResult ELSE outputs
    /\ UNCHANGED <<alive, functions, heap>>

\* The caller frees one of its arrays, once, or null.
FreeBuffer ==
    /\ \E a \in DOMAIN given \cup {Null} :
          /\ heap' = Freed({a})
          /\ given' = [x \in DOMAIN given \ {a} |-> given[x]]
          /\ outputs' = IF outputs.lines = a THEN NoResult ELSE outputs
    /\ UNCHANGED <<alive, functions>>

-----------------------------------------------------------------------------
LinesInit ==
    /\ alive = FALSE
    /\ functions = << >>
    /\ heap = [a \in {} |-> << >>]
    /\ given = [a \in {} |-> NoResult]
    /\ outputs = NoResult

LinesNext ==
    \/ CreateInstance \/ Load \/ Close \/ DestroyInstance
    \/ RefuseHandle \/ RefuseIndex \/ GiveNoLines \/ GiveLines \/ CannotCopy
    \/ FreeBuffer

LinesSpec == LinesInit /\ [][LinesNext]_linesVars

-----------------------------------------------------------------------------
(* Properties *)

\* Every variable has a value of its type; in particular the instance's lists
\* are where the heap has an array.
LinesTypeOK ==
    /\ alive \in BOOLEAN
    /\ DOMAIN heap \subseteq Addresses
    /\ \A a \in DOMAIN heap : heap[a] \in Seq(Nat)
    /\ \A i \in DOMAIN functions : functions[i] \in DOMAIN heap \cup {Null}
    /\ \A a \in DOMAIN given : given[a].numbers \in Seq(Nat) /\ given[a].count \in Nat
    /\ outputs.ret \in {0, 1, Untouched} /\ outputs.asked \in Asked
    /\ outputs.handle \in BOOLEAN

\* Every array on the heap is in one hand: it is the storage of one of the
\* instance's vectors, or an array a call with the return value 1 gave the
\* caller.  No call leaks an array, and none frees another's
\* (PexReaderApi.h:77-79).
EveryArrayHasOneOwner ==
    /\ DOMAIN heap = Storage \cup DOMAIN given
    /\ Storage \cap DOMAIN given = {}
    /\ \A i, j \in DOMAIN functions : functions[i] = functions[j] /\ functions[i] # Null => i = j

\* The caller's arrays keep the numbers that the function had when it was
\* asked, and are as long as their counts say, whatever becomes of the
\* instance.
NumbersAreKept ==
    \A a \in DOMAIN given :
        /\ a \in DOMAIN heap /\ heap[a] = given[a].numbers
        /\ given[a].count = Len(heap[a])

\* After a call with a handle, whether it failed or not, a caller who asked
\* for both outputs may read `lineCount` numbers and free `lineNumbers`: the
\* pointer is null with count 0, or an array of its own of that length.
OutputsCanBeUsed ==
    outputs.asked = {"lineNumbers", "lineCount"} /\ outputs.handle =>
        \/ outputs.lines = Null /\ outputs.count = 0
        \/ /\ outputs.ret = 1 /\ outputs.lines \in DOMAIN given
           /\ outputs.count = Len(heap[outputs.lines]) /\ outputs.count > 0
=============================================================================
