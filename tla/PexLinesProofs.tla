---------------------------- MODULE PexLinesProofs ----------------------------
(***************************************************************************)
(* Theorems about PexLines, for any heap and any files.                    *)
(***************************************************************************)
EXTENDS PexLines, TLAPS

\* What the instance keeps an array for has line numbers.
ListsAreNotEmpty ==
    \A i \in DOMAIN functions : functions[i] # Null => Len(heap[functions[i]]) > 0

\* The four properties rest on each other, and on that.
LinesInv ==
    /\ LinesTypeOK
    /\ EveryArrayHasOneOwner
    /\ NumbersAreKept
    /\ OutputsCanBeUsed
    /\ ListsAreNotEmpty

\* A call changes no array: it leaves outputs that can be used.
LEMMA OutputsOnly ==
    ASSUME LinesInv, UNCHANGED <<alive, functions, heap, given>>,
           NEW handle \in BOOLEAN, NEW ret \in {0, 1}, NEW asked \in Asked,
           outputs' = IF handle THEN Result(TRUE, ret, asked, Null, 0)
                      ELSE Result(FALSE, ret, asked, Untouched, Untouched)
    PROVE  LinesInv'
<1>1. LinesTypeOK'
  BY DEF LinesInv, LinesTypeOK, Result
<1>2. EveryArrayHasOneOwner' /\ NumbersAreKept'
  BY DEF LinesInv, EveryArrayHasOneOwner, Storage, NumbersAreKept
<1>3. OutputsCanBeUsed'
  BY DEF OutputsCanBeUsed, Result
<1>4. ListsAreNotEmpty'
  BY DEF LinesInv, ListsAreNotEmpty
<1> QED
  BY <1>1, <1>2, <1>3, <1>4 DEF LinesInv

\* The instance's storage is freed: the caller's arrays stay.
LEMMA StorageFreed ==
    ASSUME LinesInv, alive' \in BOOLEAN, functions' = << >>, heap' = Freed(Storage),
           UNCHANGED <<given, outputs>>
    PROVE  LinesInv'
<1>1. Storage' = {}
  BY DEF Storage
<1>2. /\ DOMAIN heap' = DOMAIN given
      /\ \A a \in DOMAIN given : heap'[a] = heap[a]
  BY DEF LinesInv, EveryArrayHasOneOwner, Freed
<1>3. LinesTypeOK'
  BY <1>2 DEF LinesInv, LinesTypeOK, EveryArrayHasOneOwner
<1>4. EveryArrayHasOneOwner'
  BY <1>1, <1>2 DEF EveryArrayHasOneOwner
<1>5. NumbersAreKept' /\ OutputsCanBeUsed'
  BY <1>2 DEF LinesInv, NumbersAreKept, OutputsCanBeUsed
<1>6. ListsAreNotEmpty'
  BY DEF ListsAreNotEmpty
<1> QED
  BY <1>3, <1>4, <1>5, <1>6 DEF LinesInv

\* The instance's storage is replaced by that of what a file holds.
LEMMA LoadKeepsInv == ASSUME LinesInv, Load PROVE LinesInv'
<1>1. PICK file \in Files :
         \E at \in [DOMAIN file -> (Addresses \ DOMAIN heap) \cup {Null}] :
            /\ \A i \in DOMAIN file : at[i] = Null <=> file[i] = << >>
            /\ \A i, j \in DOMAIN file : at[i] = at[j] /\ at[i] # Null => i = j
            /\ functions' = at
            /\ heap' = [a \in (DOMAIN heap \ Storage)
                              \cup ({at[i] : i \in DOMAIN file} \ {Null}) |->
                           IF a \in DOMAIN heap THEN heap[a]
                           ELSE file[CHOOSE i \in DOMAIN file : at[i] = a]]
  BY DEF Load
<1>2. PICK at \in [DOMAIN file -> (Addresses \ DOMAIN heap) \cup {Null}] :
            /\ \A i \in DOMAIN file : at[i] = Null <=> file[i] = << >>
            /\ \A i, j \in DOMAIN file : at[i] = at[j] /\ at[i] # Null => i = j
            /\ functions' = at
            /\ heap' = [a \in (DOMAIN heap \ Storage)
                              \cup ({at[i] : i \in DOMAIN file} \ {Null}) |->
                           IF a \in DOMAIN heap THEN heap[a]
                           ELSE file[CHOOSE i \in DOMAIN file : at[i] = a]]
  BY <1>1
<1>3. alive' = alive /\ given' = given /\ outputs' = outputs
  BY DEF Load
<1> DEFINE new == {at[i] : i \in DOMAIN file} \ {Null}
<1>4. Storage' = new /\ new \cap DOMAIN heap = {} /\ new \subseteq Addresses
  BY <1>2 DEF Storage
<1>5. DOMAIN heap' = DOMAIN given \cup new
  BY <1>2 DEF LinesInv, EveryArrayHasOneOwner
<1>6. \A a \in DOMAIN given : heap'[a] = heap[a]
  BY <1>2, <1>5 DEF LinesInv, EveryArrayHasOneOwner
<1>11. ASSUME NEW a \in new PROVE heap'[a] \in Seq(Nat) /\ Len(heap'[a]) > 0
  <2> DEFINE i == CHOOSE i \in DOMAIN file : at[i] = a
  <2>1. i \in DOMAIN file /\ at[i] = a /\ a # Null
    OBVIOUS
  <2>2. heap'[a] = file[i]
    BY <1>2, <1>4, <1>5
  <2>3. file \in Seq(Seq(Nat))
    BY LinesAssumption
  <2>4. file[i] \in Seq(Nat) /\ file[i] # << >>
    BY <1>2, <2>1, <2>3
  <2> QED
    BY <2>2, <2>4
<1>7. \A a \in DOMAIN heap' : heap'[a] \in Seq(Nat)
  BY <1>5, <1>6, <1>11 DEF LinesInv, LinesTypeOK, EveryArrayHasOneOwner
<1>8. LinesTypeOK'
  <2>1. \A i \in DOMAIN functions' : functions'[i] \in DOMAIN heap' \cup {Null}
    BY <1>2, <1>5
  <2>2. DOMAIN heap' \subseteq Addresses
    BY <1>4, <1>5 DEF LinesInv, LinesTypeOK, EveryArrayHasOneOwner
  <2> QED
    BY <1>3, <1>7, <2>1, <2>2 DEF LinesInv, LinesTypeOK
<1>9. EveryArrayHasOneOwner'
  BY <1>2, <1>3, <1>4, <1>5 DEF LinesInv, EveryArrayHasOneOwner
<1>10. NumbersAreKept' /\ OutputsCanBeUsed'
  BY <1>3, <1>5, <1>6 DEF LinesInv, NumbersAreKept, OutputsCanBeUsed
<1>12. ListsAreNotEmpty'
  BY <1>2, <1>11 DEF ListsAreNotEmpty
<1> QED
  BY <1>8, <1>9, <1>10, <1>12 DEF LinesInv

\* An array is allocated, and the caller's.
LEMMA GiveLinesKeepsInv == ASSUME LinesInv, GiveLines PROVE LinesInv'
<1>1. PICK i \in DOMAIN functions, a \in Addresses \ DOMAIN heap :
         /\ functions[i] # Null
         /\ heap' = [x \in DOMAIN heap \cup {a} |->
                        IF x = a THEN heap[functions[i]] ELSE heap[x]]
         /\ given' = [x \in DOMAIN given \cup {a} |->
                         IF x = a THEN [numbers |-> heap[functions[i]],
                                        count |-> Len(heap[functions[i]])]
                         ELSE given[x]]
         /\ outputs' = Result(TRUE, 1, {"lineNumbers", "lineCount"}, a, Len(heap[functions[i]]))
  BY DEF GiveLines
<1> DEFINE numbers == heap[functions[i]]
<1>2. numbers \in Seq(Nat) /\ Len(numbers) \in Nat
  BY <1>1 DEF LinesInv, LinesTypeOK
<1>3. alive' = alive /\ functions' = functions /\ Storage' = Storage
  BY DEF GiveLines, Storage
<1>4. a \notin DOMAIN given /\ a \notin Storage
  BY <1>1 DEF LinesInv, EveryArrayHasOneOwner
<1>5. Len(numbers) > 0
  BY <1>1, <1>2 DEF LinesInv, ListsAreNotEmpty
<1> HIDE DEF numbers
<1>6. LinesTypeOK'
  BY <1>1, <1>2, <1>3 DEF LinesInv, LinesTypeOK, Result, Asked, numbers
<1>7. EveryArrayHasOneOwner'
  BY <1>1, <1>3, <1>4 DEF LinesInv, EveryArrayHasOneOwner
<1>8. NumbersAreKept'
  BY <1>1, <1>4 DEF LinesInv, NumbersAreKept, EveryArrayHasOneOwner
<1>9. OutputsCanBeUsed'
  BY <1>1, <1>5 DEF OutputsCanBeUsed, Result, numbers
<1>10. ListsAreNotEmpty'
  BY <1>1, <1>3, <1>4 DEF LinesInv, LinesTypeOK, ListsAreNotEmpty, Storage
<1> QED
  BY <1>6, <1>7, <1>8, <1>9, <1>10 DEF LinesInv

\* An array is freed by the caller, who owned it.
LEMMA FreeBufferKeepsInv == ASSUME LinesInv, FreeBuffer PROVE LinesInv'
<1>1. PICK a \in DOMAIN given \cup {Null} :
         /\ heap' = Freed({a})
         /\ given' = [x \in DOMAIN given \ {a} |-> given[x]]
         /\ outputs' = IF outputs.lines = a THEN NoResult ELSE outputs
  BY DEF FreeBuffer
<1>2. alive' = alive /\ functions' = functions /\ Storage' = Storage
  BY DEF FreeBuffer, Storage
<1>3. a \notin Storage
  BY DEF LinesInv, EveryArrayHasOneOwner, Storage
<1>4. DOMAIN heap' = DOMAIN heap \ {a} /\ \A x \in DOMAIN heap' : heap'[x] = heap[x]
  BY <1>1 DEF Freed
<1>5. Storage \subseteq DOMAIN heap'
  BY <1>3, <1>4 DEF LinesInv, EveryArrayHasOneOwner
<1>6. LinesTypeOK'
  <2>1. \A i \in DOMAIN functions' : functions'[i] \in DOMAIN heap' \cup {Null}
    BY <1>2, <1>5 DEF Storage
  <2>2. outputs'.ret \in {0, 1, Untouched} /\ outputs'.asked \in Asked
        /\ outputs'.handle \in BOOLEAN
    BY <1>1 DEF LinesInv, LinesTypeOK, NoResult, Asked
  <2> QED
    BY <1>1, <1>2, <1>4, <2>1, <2>2 DEF LinesInv, LinesTypeOK
<1>7. EveryArrayHasOneOwner'
  BY <1>1, <1>2, <1>3, <1>4 DEF LinesInv, EveryArrayHasOneOwner
<1>8. NumbersAreKept'
  BY <1>1, <1>4 DEF LinesInv, NumbersAreKept
<1>9. OutputsCanBeUsed'
  BY <1>1, <1>4 DEF LinesInv, NumbersAreKept, OutputsCanBeUsed, NoResult
<1>10. ListsAreNotEmpty'
  BY <1>2, <1>4, <1>5 DEF LinesInv, ListsAreNotEmpty, Storage
<1> QED
  BY <1>6, <1>7, <1>8, <1>9, <1>10 DEF LinesInv

LEMMA InitLinesInv == LinesInit => LinesInv
<1> SUFFICES ASSUME LinesInit PROVE LinesInv
  OBVIOUS
<1>1. DOMAIN heap = {} /\ DOMAIN given = {} /\ DOMAIN functions = {} /\ Storage = {}
  BY DEF LinesInit, Storage
<1>2. outputs = NoResult /\ alive = FALSE
  BY DEF LinesInit
<1>3. LinesTypeOK
  BY <1>1, <1>2 DEF LinesTypeOK, NoResult, Asked
<1>4. EveryArrayHasOneOwner /\ NumbersAreKept /\ ListsAreNotEmpty
  BY <1>1 DEF EveryArrayHasOneOwner, NumbersAreKept, ListsAreNotEmpty
<1>5. OutputsCanBeUsed
  BY <1>2 DEF OutputsCanBeUsed, NoResult
<1> QED
  BY <1>3, <1>4, <1>5 DEF LinesInv

\* The invariant is inductive.
LEMMA StepLinesInv == LinesInv /\ [LinesNext]_linesVars => LinesInv'
<1> SUFFICES ASSUME LinesInv, [LinesNext]_linesVars PROVE LinesInv'
  OBVIOUS
<1>1. CASE UNCHANGED linesVars \/ CreateInstance
  <2>1. alive' \in BOOLEAN /\ UNCHANGED <<functions, heap, given, outputs>>
    BY <1>1 DEF linesVars, CreateInstance, LinesInv, LinesTypeOK
  <2>2. LinesTypeOK'
    BY <2>1 DEF LinesInv, LinesTypeOK
  <2>3. EveryArrayHasOneOwner' /\ NumbersAreKept'
    BY <2>1 DEF LinesInv, EveryArrayHasOneOwner, NumbersAreKept, Storage
  <2>4. OutputsCanBeUsed' /\ ListsAreNotEmpty'
    BY <2>1 DEF LinesInv, OutputsCanBeUsed, ListsAreNotEmpty
  <2> QED
    BY <2>2, <2>3, <2>4 DEF LinesInv
<1>2. CASE Close \/ DestroyInstance
  <2>1. alive' \in BOOLEAN
    BY <1>2 DEF Close, DestroyInstance, LinesInv, LinesTypeOK
  <2> QED
    BY <1>2, <2>1, StorageFreed DEF Close, DestroyInstance
<1>3. CASE Load
  BY <1>3, LoadKeepsInv
<1>4. CASE RefuseHandle
  <2>1. PICK asked \in Asked : outputs' = Result(FALSE, 0, asked, Untouched, Untouched)
    BY <1>4 DEF RefuseHandle
  <2> QED
    BY <1>4, <2>1, OutputsOnly DEF RefuseHandle
<1>5. CASE RefuseIndex
  <2>1. PICK asked \in Asked : outputs' = Result(TRUE, 0, asked, Null, 0)
    BY <1>5 DEF RefuseIndex
  <2> QED
    BY <1>5, <2>1, OutputsOnly DEF RefuseIndex
<1>6. CASE GiveNoLines
  <2>1. PICK asked \in Asked : outputs' = Result(TRUE, 1, asked, Null, 0)
    BY <1>6 DEF GiveNoLines
  <2> QED
    BY <1>6, <2>1, OutputsOnly DEF GiveNoLines
<1>7. CASE CannotCopy
  <2>1. {"lineNumbers", "lineCount"} \in Asked
    BY DEF Asked
  <2> QED
    BY <1>7, <2>1, OutputsOnly DEF CannotCopy
<1>8. CASE GiveLines \/ FreeBuffer
  BY <1>8, GiveLinesKeepsInv, FreeBufferKeepsInv
<1> QED
  BY <1>1, <1>2, <1>3, <1>4, <1>5, <1>6, <1>7, <1>8 DEF LinesNext

LEMMA LinesInvAlways == LinesSpec => []LinesInv
BY InitLinesInv, StepLinesInv, PTL DEF LinesSpec

-----------------------------------------------------------------------------
(* Theorems *)

\* Every variable keeps its type; the instance's lists are never dangling.
THEOREM LinesTypeCorrect == LinesSpec => []LinesTypeOK
<1>1. LinesInv => LinesTypeOK
  BY DEF LinesInv
<1> QED
  BY <1>1, LinesInvAlways, PTL

\* No array leaks and none has two owners, if the caller frees what it was
\* given once.
THEOREM OwnershipIsRight == LinesSpec => []EveryArrayHasOneOwner
<1>1. LinesInv => EveryArrayHasOneOwner
  BY DEF LinesInv
<1> QED
  BY <1>1, LinesInvAlways, PTL

\* The caller's arrays outlive every change of the instance unchanged.
THEOREM NumbersStand == LinesSpec => []NumbersAreKept
<1>1. LinesInv => NumbersAreKept
  BY DEF LinesInv
<1> QED
  BY <1>1, LinesInvAlways, PTL

\* What a call with a handle leaves in its outputs can be read and freed.
THEOREM OutputsAreRight == LinesSpec => []OutputsCanBeUsed
<1>1. LinesInv => OutputsCanBeUsed
  BY DEF LinesInv
<1> QED
  BY <1>1, LinesInvAlways, PTL
=============================================================================
