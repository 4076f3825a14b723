---------------------------- MODULE PexInduction ----------------------------
(***************************************************************************)
(* Induction and recursion over data, in a form the provers can use.  The  *)
(* induction theorems of the library have an operator as a parameter; here *)
(* a property is the set of the data that have it.  The root is that a set *)
(* of finite sets has a smallest member.                                   *)
(*                                                                         *)
(* A recursive function is the CHOOSE of a solution of its equation.  That *)
(* there is a solution is proved each time, and the step from there to the *)
(* function itself is left to Zenon.                                       *)
(***************************************************************************)
EXTENDS Integers, Sequences, FiniteSets, FiniteSetTheorems, TLAPS

\* A set of finite sets that is not empty has a member that contains no other.
LEMMA SmallestSet ==
    ASSUME NEW T, T # {}, \A t \in T : IsFiniteSet(t)
    PROVE  \E m \in T : \A t \in T : t \subseteq m => t = m
  <1> DEFINE S == UNION T
  <1>1. T \subseteq FiniteSubsetsOf(S)
    BY DEF FiniteSubsetsOf
  <1>2. PICK m \in T : \A t \in T : ~(<<t, m>> \in StrictSubsetOrdering(S))
    BY <1>1, WFMin, FS_StrictSubsetOrderingWellFounded
  <1> QED
    BY <1>2 DEF StrictSubsetOrdering

\* Induction over the natural numbers.
LEMMA NatSetInduction ==
    ASSUME NEW P, 0 \in P, \A n \in Nat : n \in P => n + 1 \in P
    PROVE  \A n \in Nat : n \in P
  <1> SUFFICES ASSUME NEW n \in Nat, n \notin P PROVE FALSE
    OBVIOUS
  <1> DEFINE U == {0..k : k \in Nat \ P}
  <1>1. PICK m \in U : \A t \in U : t \subseteq m => t = m
    <2>1. U # {}
      OBVIOUS
    <2>2. \A t \in U : IsFiniteSet(t)
      BY FS_Interval
    <2> HIDE DEF U
    <2> QED
      BY <2>1, <2>2, SmallestSet
  <1>2. PICK x \in Nat \ P : m = 0..x
    OBVIOUS
  <1>3. x # 0 /\ x - 1 \in Nat
    BY <1>2
  <1>4. x - 1 \notin P
    BY <1>2, <1>3
  <1>5. 0..(x - 1) \in U /\ 0..(x - 1) \subseteq m /\ x \in m /\ x \notin 0..(x - 1)
    BY <1>2, <1>3, <1>4
  <1> QED
    BY <1>1, <1>5

\* Induction over the subsets of a finite set.
LEMMA SubsetInduction ==
    ASSUME NEW S, IsFiniteSet(S), NEW P,
           \A s \in SUBSET S :
              (\A t \in SUBSET s : t # s => t \in P) => s \in P
    PROVE  \A s \in SUBSET S : s \in P
  <1> SUFFICES ASSUME NEW s \in SUBSET S, s \notin P PROVE FALSE
    OBVIOUS
  <1> DEFINE U == (SUBSET S) \ P
  <1>1. PICK m \in U : \A t \in U : t \subseteq m => t = m
    <2>1. U # {}
      OBVIOUS
    <2>2. \A t \in U : IsFiniteSet(t)
      BY FS_Subset
    <2> HIDE DEF U
    <2> QED
      BY <2>1, <2>2, SmallestSet
  <1>2. \A t \in SUBSET m : t # m => t \in P
    BY <1>1
  <1> QED
    BY <1>1, <1>2

-----------------------------------------------------------------------------
(* The total of a sequence of numbers *)

Total(s) ==
    LET total[i \in 0..Len(s)] == IF i = 0 THEN 0 ELSE total[i - 1] + s[i]
    IN  total[Len(s)]

\* f adds up the first n numbers of s.
Adds(f, s, n) ==
    f = [i \in 0..n |-> IF i = 0 THEN 0 ELSE f[i - 1] + s[i]]

\* There is such a function,
LEMMA AddsExists ==
    ASSUME NEW s
    PROVE  \A n \in Nat : \E f : Adds(f, s, n)
  <1> DEFINE P == {n \in Nat : \E f : Adds(f, s, n)}
  <1>1. 0 \in P
    <2>1. Adds([i \in 0..0 |-> 0], s, 0)
      BY DEF Adds
    <2> QED
      BY <2>1
  <1>2. ASSUME NEW n \in Nat, n \in P PROVE n + 1 \in P
    <2>1. PICK f : Adds(f, s, n)
      BY <1>2
    <2> DEFINE g == [i \in 0..(n + 1) |-> IF i = n + 1 THEN f[n] + s[n + 1]
                                          ELSE f[i]]
    <2>2. \A i \in 0..(n + 1) : g[i] = IF i = 0 THEN 0 ELSE g[i - 1] + s[i]
      BY <2>1 DEF Adds
    <2>3. Adds(g, s, n + 1)
      BY <2>2 DEF Adds
    <2> QED
      BY <2>3
  <1> HIDE DEF P
  <1>3. \A n \in Nat : n \in P
    BY <1>1, <1>2, NatSetInduction
  <1> QED
    BY <1>3 DEF P

\* ... whose value at a place does not depend on what comes after it,
LEMMA AddsUnique ==
    ASSUME NEW s, NEW m \in Nat, NEW n \in Nat, NEW f, NEW g,
           Adds(f, s, m), Adds(g, s, n)
    PROVE  \A i \in Nat : i <= m /\ i <= n => f[i] = g[i]
  <1> DEFINE P == {i \in Nat : i <= m /\ i <= n => f[i] = g[i]}
  <1>1. 0 \in P
    BY DEF Adds
  <1>2. ASSUME NEW i \in Nat, i \in P PROVE i + 1 \in P
    <2> SUFFICES ASSUME i + 1 <= m, i + 1 <= n PROVE f[i + 1] = g[i + 1]
      OBVIOUS
    <2>1. f[i] = g[i]
      BY <1>2
    <2>2. /\ f[i + 1] = f[(i + 1) - 1] + s[i + 1]
          /\ g[i + 1] = g[(i + 1) - 1] + s[i + 1]
      BY DEF Adds
    <2> QED
      BY <2>1, <2>2
  <1> HIDE DEF P
  <1>3. \A i \in Nat : i \in P
    BY <1>1, <1>2, NatSetInduction
  <1> QED
    BY <1>3 DEF P

\* ... and Total is its last one.
LEMMA TotalIs ==
    ASSUME NEW s, Len(s) \in Nat
    PROVE  \E f : Adds(f, s, Len(s)) /\ Total(s) = f[Len(s)]
  <1>1. PICK h : Adds(h, s, Len(s))
    BY AddsExists
  <1> DEFINE f == CHOOSE g :
                     g = [i \in 0..Len(s) |-> IF i = 0 THEN 0 ELSE g[i - 1] + s[i]]
  <1>2. h = [i \in 0..Len(s) |-> IF i = 0 THEN 0 ELSE h[i - 1] + s[i]]
    BY <1>1 DEF Adds
  <1>3. f = [i \in 0..Len(s) |-> IF i = 0 THEN 0 ELSE f[i - 1] + s[i]]
    BY <1>2, Zenon
  <1>4. Total(s) = f[Len(s)]
    BY Zenon DEF Total
  <1> HIDE DEF f
  <1> QED
    BY <1>3, <1>4 DEF Adds

\* Sums of natural numbers are natural numbers.
LEMMA AddsTyped ==
    ASSUME NEW s, NEW n \in Nat, NEW f, Adds(f, s, n),
           \A i \in 1..n : s[i] \in Nat
    PROVE  \A i \in Nat : i <= n => f[i] \in Nat
  <1> DEFINE P == {i \in Nat : i <= n => f[i] \in Nat}
  <1>1. 0 \in P
    BY DEF Adds
  <1>2. ASSUME NEW i \in Nat, i \in P PROVE i + 1 \in P
    <2> SUFFICES ASSUME i + 1 <= n PROVE f[i + 1] \in Nat
      OBVIOUS
    <2>1. f[i] \in Nat /\ s[i + 1] \in Nat
      BY <1>2
    <2>2. f[i + 1] = f[(i + 1) - 1] + s[i + 1]
      BY DEF Adds
    <2> QED
      BY <2>1, <2>2
  <1> HIDE DEF P
  <1>3. \A i \in Nat : i \in P
    BY <1>1, <1>2, NatSetInduction
  <1> QED
    BY <1>3 DEF P

\* The total of natural numbers is one.
LEMMA TotalTyped ==
    ASSUME NEW s \in Seq(Nat)
    PROVE  Total(s) \in Nat
  <1>1. PICK f : Adds(f, s, Len(s)) /\ Total(s) = f[Len(s)]
    BY TotalIs
  <1> QED
    BY <1>1, AddsTyped

\* Nothing, and a single number.
LEMMA TotalOfFew ==
    /\ Total(<< >>) = 0
    /\ \A x \in Nat : Total(<<x>>) = x
  <1>1. Total(<< >>) = 0
    <2>1. PICK f : Adds(f, << >>, 0) /\ Total(<< >>) = f[0]
      BY TotalIs
    <2> QED
      BY <2>1 DEF Adds
  <1>2. ASSUME NEW x \in Nat PROVE Total(<<x>>) = x
    <2>0. Len(<<x>>) = 1
      OBVIOUS
    <2>1. PICK f : Adds(f, <<x>>, 1) /\ Total(<<x>>) = f[1]
      BY <2>0, TotalIs
    <2>2. f[1] = f[1 - 1] + x /\ f[0] = 0
      BY <2>1 DEF Adds
    <2> QED
      BY <2>1, <2>2
  <1> QED
    BY <1>1, <1>2

\* The total of two sequences, one after the other.
LEMMA TotalOfConcat ==
    ASSUME NEW s \in Seq(Nat), NEW t \in Seq(Nat)
    PROVE  Total(s \o t) = Total(s) + Total(t)
  <1> DEFINE m == Len(s)
             n == Len(t)
             u == s \o t
  <1>0. /\ m \in Nat /\ n \in Nat /\ Len(u) = m + n
        /\ \A i \in 1..m : u[i] = s[i]
        /\ \A i \in 1..n : u[m + i] = t[i]
    OBVIOUS
  <1>1. PICK f : Adds(f, s, m) /\ Total(s) = f[m]
    BY TotalIs
  <1>2. PICK g : Adds(g, t, n) /\ Total(t) = g[n]
    BY TotalIs
  <1>3. PICK h : Adds(h, u, m + n) /\ Total(u) = h[m + n]
    <2> HIDE DEF u
    <2>1. Len(u) \in Nat
      BY <1>0
    <2> QED
      BY <1>0, <2>1, TotalIs
  <1>0a. /\ \A i \in 1..m : s[i] \in Nat
        /\ \A i \in 1..n : t[i] \in Nat
    OBVIOUS
  <1> HIDE DEF m, n, u
  <1>4. \A i \in Nat : i <= m => f[i] \in Nat
    BY <1>0, <1>1, <1>0a, AddsTyped
  <1>5. \A i \in Nat : i <= n => g[i] \in Nat
    BY <1>0, <1>2, <1>0a, AddsTyped
  <1>6. h[m] = f[m]
    <2>1. Adds(h, u, m + n) /\ Adds(f, s, m)
      BY <1>1, <1>3
    <2> DEFINE P == {i \in Nat : i <= m => h[i] = f[i]}
    <2>2. 0 \in P
      BY <1>0, <2>1 DEF Adds
    <2>3. ASSUME NEW i \in Nat, i \in P PROVE i + 1 \in P
      <3> SUFFICES ASSUME i + 1 <= m PROVE h[i + 1] = f[i + 1]
        OBVIOUS
      <3>1. h[i] = f[i] /\ u[i + 1] = s[i + 1]
        BY <1>0, <2>3
      <3>2. /\ h[i + 1] = h[(i + 1) - 1] + u[i + 1]
            /\ f[i + 1] = f[(i + 1) - 1] + s[i + 1]
        BY <1>0, <2>1 DEF Adds
      <3> QED
        BY <3>1, <3>2
    <2> HIDE DEF P
    <2>4. \A i \in Nat : i \in P
      BY <2>2, <2>3, NatSetInduction
    <2> QED
      BY <1>0, <2>4 DEF P
  <1>7. h[m + n] = f[m] + g[n]
    <2>1. Adds(h, u, m + n) /\ Adds(g, t, n)
      BY <1>2, <1>3
    <2> DEFINE P == {i \in Nat : i <= n => h[m + i] = f[m] + g[i]}
    <2>2. 0 \in P
      <3>1. g[0] = 0
        BY <1>0, <2>1 DEF Adds
      <3>2. f[m] \in Nat
        BY <1>0, <1>4
      <3> QED
        BY <1>0, <1>6, <3>1, <3>2
    <2>3. ASSUME NEW i \in Nat, i \in P PROVE i + 1 \in P
      <3> SUFFICES ASSUME i + 1 <= n PROVE h[m + (i + 1)] = f[m] + g[i + 1]
        OBVIOUS
      <3>1. h[m + i] = f[m] + g[i] /\ u[m + (i + 1)] = t[i + 1]
        BY <1>0, <2>3
      <3>2. g[i + 1] = g[(i + 1) - 1] + t[i + 1]
        BY <1>0, <2>1 DEF Adds
      <3>3. h[m + (i + 1)] = h[(m + (i + 1)) - 1] + u[m + (i + 1)]
        BY <1>0, <2>1 DEF Adds
      <3>4. /\ f[m] \in Nat /\ g[i] \in Nat /\ t[i + 1] \in Nat
            /\ (i + 1) - 1 = i /\ (m + (i + 1)) - 1 = m + i
        BY <1>0, <1>4, <1>5 DEF n
      <3> QED
        BY <3>1, <3>2, <3>3, <3>4
    <2> HIDE DEF P
    <2>4. \A i \in Nat : i \in P
      BY <2>2, <2>3, NatSetInduction
    <2> QED
      BY <1>0, <2>4 DEF P
  <1> QED
    BY <1>1, <1>2, <1>3, <1>7 DEF u

\* Numbers that are all 0 add up to 0.
LEMMA TotalOfZeros ==
    ASSUME NEW s \in Seq(Nat), \A i \in 1..Len(s) : s[i] = 0
    PROVE  Total(s) = 0
  <1>1. PICK f : Adds(f, s, Len(s)) /\ Total(s) = f[Len(s)]
    BY TotalIs
  <1> DEFINE P == {i \in Nat : i <= Len(s) => f[i] = 0}
  <1>2. 0 \in P
    BY <1>1 DEF Adds
  <1>3. ASSUME NEW i \in Nat, i \in P PROVE i + 1 \in P
    <2> SUFFICES ASSUME i + 1 <= Len(s) PROVE f[i + 1] = 0
      OBVIOUS
    <2>1. f[i] = 0 /\ s[i + 1] = 0
      BY <1>3
    <2>2. f[i + 1] = f[(i + 1) - 1] + s[i + 1]
      BY <1>1 DEF Adds
    <2> QED
      BY <2>1, <2>2
  <1> HIDE DEF P
  <1>4. \A i \in Nat : i \in P
    BY <1>2, <1>3, NatSetInduction
  <1> QED
    BY <1>1, <1>4 DEF P

\* 0 and 1 by turns, n times, add up to n.
LEMMA TotalOfTurns ==
    ASSUME NEW n \in Nat
    PROVE  Total([i \in 1..(2 * n) |-> IF i % 2 = 1 THEN 0 ELSE 1]) = n
  <1> DEFINE s == [i \in 1..(2 * n) |-> IF i % 2 = 1 THEN 0 ELSE 1]
  <1>1. Len(s) = 2 * n /\ 2 * n \in Nat
    OBVIOUS
  <1>2. \A i \in 1..(2 * n) : s[i] = IF i % 2 = 1 THEN 0 ELSE 1
    OBVIOUS
  <1> SUFFICES Total(s) = n
    OBVIOUS
  <1> HIDE DEF s
  <1>3. PICK f : Adds(f, s, 2 * n) /\ Total(s) = f[2 * n]
    BY <1>1, TotalIs
  <1> DEFINE P == {i \in Nat : i <= n => f[2 * i] = i}
  <1>4. 0 \in P
    BY <1>1, <1>3 DEF Adds
  <1>5. ASSUME NEW i \in Nat, i \in P PROVE i + 1 \in P
    <2> SUFFICES ASSUME i + 1 <= n PROVE f[2 * (i + 1)] = i + 1
      OBVIOUS
    <2>1. f[2 * i] = i
      BY <1>5
    <2>2. /\ 2 * i + 1 \in 1..(2 * n) /\ 2 * i + 2 \in 1..(2 * n)
          /\ (2 * i + 1) % 2 = 1 /\ (2 * i + 2) % 2 = 0
      OBVIOUS
    <2>3. s[2 * i + 1] = 0 /\ s[2 * i + 2] = 1
      BY <1>2, <2>2
    <2>4. /\ f[2 * i + 1] = f[(2 * i + 1) - 1] + s[2 * i + 1]
          /\ f[2 * i + 2] = f[(2 * i + 2) - 1] + s[2 * i + 2]
      BY <1>3, <2>2 DEF Adds
    <2>5. /\ (2 * i + 1) - 1 = 2 * i /\ (2 * i + 2) - 1 = 2 * i + 1
          /\ 2 * (i + 1) = 2 * i + 2
      OBVIOUS
    <2>6. f[2 * i + 1] = i
      BY <2>1, <2>3, <2>4, <2>5
    <2> QED
      BY <2>3, <2>4, <2>5, <2>6
  <1> HIDE DEF P
  <1>6. \A i \in Nat : i \in P
    BY <1>4, <1>5, NatSetInduction
  <1> QED
    BY <1>3, <1>6 DEF P
-----------------------------------------------------------------------------
(* The sum of a function over a finite set *)

\* As MapThenSumSet has it.
SumOver(f, S) ==
    LET iter[s \in SUBSET S] ==
            IF s = {} THEN 0
            ELSE LET x == CHOOSE x \in s : TRUE
                 IN  f[x] + iter[s \ {x}]
    IN  iter[S]

\* The element of s that is added last.
Some(s) == CHOOSE x \in s : TRUE

\* it sums f over the subsets of S.
Sums(it, f, S) ==
    it = [s \in SUBSET S |-> IF s = {} THEN 0
                             ELSE f[Some(s)] + it[s \ {Some(s)}]]

\* It is an element.
LEMMA SomeTyped == ASSUME NEW s, s # {} PROVE Some(s) \in s
  BY DEF Some

\* A function that sums over the subsets of S is the only one,
LEMMA SumsUnique ==
    ASSUME NEW f, NEW S, NEW T, IsFiniteSet(S), NEW it, NEW jt,
           Sums(it, f, S), Sums(jt, f, T)
    PROVE  \A s \in SUBSET S : s \subseteq T => it[s] = jt[s]
  <1> DEFINE P == {s \in SUBSET S : s \subseteq T => it[s] = jt[s]}
  <1>1. ASSUME NEW s \in SUBSET S, \A t \in SUBSET s : t # s => t \in P
        PROVE  s \in P
    <2> SUFFICES ASSUME s \subseteq T PROVE it[s] = jt[s]
      OBVIOUS
    <2>1. CASE s = {}
      BY <2>1 DEF Sums
    <2>2. CASE s # {}
      <3> DEFINE r == s \ {Some(s)}
      <3>1. Some(s) \in s
        BY <2>2, SomeTyped
      <3>2. r \in SUBSET s /\ r # s /\ r \subseteq T
        BY <3>1
      <3>3. it[r] = jt[r]
        BY <1>1, <3>2
      <3>4. it[s] = f[Some(s)] + it[r] /\ jt[s] = f[Some(s)] + jt[r]
        BY <2>2 DEF Sums
      <3> QED
        BY <3>3, <3>4
    <2> QED
      BY <2>1, <2>2
  <1> HIDE DEF P
  <1>2. \A s \in SUBSET S : s \in P
    BY <1>1, SubsetInduction
  <1> QED
    BY <1>2 DEF P

\* ... and there is one.
LEMMA SumsExists ==
    ASSUME NEW f, NEW S, IsFiniteSet(S)
    PROVE  \A T \in SUBSET S : \E it : Sums(it, f, T)
  <1> DEFINE P == {s \in SUBSET S : \E it : Sums(it, f, s)}
  <1>1. ASSUME NEW s \in SUBSET S, \A t \in SUBSET s : t # s => t \in P
        PROVE  s \in P
    <2> DEFINE On(t) == CHOOSE it : Sums(it, f, t)
               value(t) == On(t)[t]
    <2>1. \A t \in SUBSET s : t # s => Sums(On(t), f, t)
      <3> SUFFICES ASSUME NEW t \in SUBSET s, t # s PROVE Sums(On(t), f, t)
        OBVIOUS
      <3>1. \E it : Sums(it, f, t)
        BY <1>1
      <3> QED
        BY <3>1, Zenon
    <2>2. \A t \in SUBSET s : IsFiniteSet(t)
      BY FS_Subset
    <2> HIDE DEF On
    <2>3. \A t \in SUBSET s : t # s =>
             value(t) = IF t = {} THEN 0
                        ELSE f[Some(t)] + value(t \ {Some(t)})
      <3> SUFFICES ASSUME NEW t \in SUBSET s, t # s
                   PROVE  value(t) = IF t = {} THEN 0
                                     ELSE f[Some(t)] + value(t \ {Some(t)})
        OBVIOUS
      <3> DEFINE r == t \ {Some(t)}
      <3>1. Sums(On(t), f, t)
        BY <2>1
      <3>2. CASE t = {}
        BY <3>1, <3>2 DEF Sums
      <3>3. CASE t # {}
        <4>1. Some(t) \in t
          BY <3>3, SomeTyped
        <4>2. r \in SUBSET s /\ r # s /\ r \in SUBSET t /\ IsFiniteSet(r)
          BY <2>2, <4>1
        <4>3. Sums(On(r), f, r)
          BY <2>1, <4>2
        <4>4. On(r)[r] = On(t)[r]
          <5> HIDE DEF r
          <5> QED
            BY <3>1, <4>2, <4>3, SumsUnique
        <4>5. On(t)[t] = f[Some(t)] + On(t)[r]
          BY <3>1, <3>3 DEF Sums
        <4> QED
          BY <3>3, <4>4, <4>5
      <3> QED
        BY <3>2, <3>3
    <2> DEFINE it == [t \in SUBSET s |-> IF t = {} THEN 0
                                         ELSE f[Some(t)] + value(t \ {Some(t)})]
    <2> HIDE DEF value
    <2>4. \A t \in SUBSET s : t # {} => it[t \ {Some(t)}] = value(t \ {Some(t)})
      <3> SUFFICES ASSUME NEW t \in SUBSET s, t # {}
                   PROVE  it[t \ {Some(t)}] = value(t \ {Some(t)})
        OBVIOUS
      <3> DEFINE r == t \ {Some(t)}
      <3>1. Some(t) \in t
        BY SomeTyped
      <3>2. r \in SUBSET s /\ r # s
        BY <3>1
      <3> HIDE DEF r
      <3>3. it[r] = value(r)
        BY <2>3, <3>2
      <3> QED
        BY <3>3 DEF r
    <2>5. \A t \in SUBSET s : it[t] = IF t = {} THEN 0
                                      ELSE f[Some(t)] + it[t \ {Some(t)}]
      <3> SUFFICES ASSUME NEW t \in SUBSET s
                   PROVE  it[t] = IF t = {} THEN 0
                                  ELSE f[Some(t)] + it[t \ {Some(t)}]
        OBVIOUS
      <3>1. it[t] = IF t = {} THEN 0 ELSE f[Some(t)] + value(t \ {Some(t)})
        OBVIOUS
      <3> HIDE DEF it
      <3> QED
        BY <2>4, <3>1
    <2>6. \E k : k = it
      OBVIOUS
    <2>7. PICK k : k = it
      BY <2>6
    <2>8. \E D : k = [t \in D |-> k[t]] /\ D = SUBSET s
      BY <2>7
    <2>9. Sums(k, f, s)
      <3>1. \A t \in SUBSET s : k[t] = IF t = {} THEN 0
                                       ELSE f[Some(t)] + k[t \ {Some(t)}]
        <4> HIDE DEF it
        <4> QED
          BY <2>5, <2>7
      <3> HIDE DEF it
      <3> QED
        BY <2>8, <3>1 DEF Sums
    <2> QED
      BY <2>9
  <1> HIDE DEF P
  <1>2. \A s \in SUBSET S : s \in P
    BY <1>1, SubsetInduction
  <1> QED
    BY <1>2 DEF P

\* SumOver is its value for the whole set.
LEMMA SumOverIs ==
    ASSUME NEW f, NEW S, IsFiniteSet(S)
    PROVE  \E it : Sums(it, f, S) /\ SumOver(f, S) = it[S]
  <1>1. PICK jt : Sums(jt, f, S)
    BY SumsExists
  <1> DEFINE it == CHOOSE k :
                k = [s \in SUBSET S |->
                        IF s = {} THEN 0
                        ELSE LET x == CHOOSE x \in s : TRUE
                             IN  f[x] + k[s \ {x}]]
  <1>2. jt = [s \in SUBSET S |-> IF s = {} THEN 0
                 ELSE LET x == CHOOSE x \in s : TRUE IN f[x] + jt[s \ {x}]]
    BY <1>1, Zenon DEF Sums, Some
  <1>3. it = [s \in SUBSET S |-> IF s = {} THEN 0
                 ELSE LET x == CHOOSE x \in s : TRUE IN f[x] + it[s \ {x}]]
    BY <1>2, Zenon
  <1>4. SumOver(f, S) = it[S]
    BY Zenon DEF SumOver
  <1> HIDE DEF it
  <1>5. Sums(it, f, S)
    BY <1>3, Zenon DEF Sums, Some
  <1> QED
    BY <1>4, <1>5

\* Over nothing the sum is 0.
LEMMA SumOverNothing == ASSUME NEW f PROVE SumOver(f, {}) = 0
  <1>1. IsFiniteSet({})
    BY FS_EmptySet
  <1>2. PICK it : Sums(it, f, {}) /\ SumOver(f, {}) = it[{}]
    BY <1>1, SumOverIs
  <1> QED
    BY <1>2 DEF Sums

\* It depends on no other value of the function,
LEMMA SumOverSame ==
    ASSUME NEW S, IsFiniteSet(S), NEW f, NEW g, \A x \in S : f[x] = g[x]
    PROVE  SumOver(f, S) = SumOver(g, S)
  <1>1. PICK it : Sums(it, f, S) /\ SumOver(f, S) = it[S]
    BY SumOverIs
  <1>2. PICK jt : Sums(jt, g, S) /\ SumOver(g, S) = jt[S]
    BY SumOverIs
  <1>3. Sums(it, g, S)
    <2>1. \A s \in SUBSET S : s # {} => f[Some(s)] = g[Some(s)]
      BY SomeTyped
    <2> QED
      BY <1>1, <2>1 DEF Sums
  <1>4. it[S] = jt[S]
    BY <1>2, <1>3, SumsUnique
  <1> QED
    BY <1>1, <1>2, <1>4

\* ... nor on the order in which the elements are added.
LEMMA SumOverElement ==
    ASSUME NEW S, IsFiniteSet(S), NEW f, \A x \in S : f[x] \in Nat
    PROVE  /\ SumOver(f, S) \in Nat
           /\ \A x \in S : SumOver(f, S) = f[x] + SumOver(f, S \ {x})
  <1>1. PICK it : Sums(it, f, S) /\ SumOver(f, S) = it[S]
    BY SumOverIs
  <1> DEFINE P == {s \in SUBSET S :
                      /\ it[s] \in Nat
                      /\ \A x \in s : it[s] = f[x] + it[s \ {x}]}
  <1>2. ASSUME NEW s \in SUBSET S, \A t \in SUBSET s : t # s => t \in P
        PROVE  s \in P
    <2>1. CASE s = {}
      <3>1. it[s] = 0
        BY <1>1, <2>1 DEF Sums
      <3> QED
        BY <2>1, <3>1
    <2>2. CASE s # {}
      <3> DEFINE c == Some(s)
                 r == s \ {c}
      <3>1. c \in s
        BY <2>2, SomeTyped
      <3>2. it[s] = f[c] + it[r]
        BY <1>1, <2>2 DEF Sums
      <3> HIDE DEF c
      <3>3. r \in SUBSET s /\ r # s
        BY <3>1
      <3>4. r \in P
        BY <1>2, <3>3
      <3>5. it[r] \in Nat /\ f[c] \in Nat
        BY <3>1, <3>4
      <3>6. ASSUME NEW x \in s PROVE it[s] = f[x] + it[s \ {x}]
        <4>1. CASE x = c
          BY <3>2, <4>1
        <4>2. CASE x # c
          <5> DEFINE q == s \ {x}
          <5>1. it[r] = f[x] + it[r \ {x}]
            BY <3>4, <4>2
          <5>2. q \in SUBSET s /\ q # s /\ c \in q
            BY <3>1, <4>2
          <5>3. q \in P
            BY <1>2, <5>2
          <5>4. it[q] = f[c] + it[q \ {c}]
            BY <5>2, <5>3
          <5>5. q \ {c} = r \ {x}
            OBVIOUS
          <5>6. it[r \ {x}] \in Nat
            <6>1. r \ {x} \in SUBSET s /\ r \ {x} # s
              BY <3>1
            <6>2. r \ {x} \in P
              BY <1>2, <6>1
            <6> QED
              BY <6>2
          <5>7. f[x] \in Nat
            OBVIOUS
          <5> QED
            BY <3>2, <3>5, <5>1, <5>4, <5>5, <5>6, <5>7
        <4> QED
          BY <4>1, <4>2
      <3>7. it[s] \in Nat
        BY <3>2, <3>5
      <3> QED
        BY <3>6, <3>7
    <2> QED
      BY <2>1, <2>2
  <1>3. S \in P
    <2> HIDE DEF P
    <2>1. \A s \in SUBSET S : s \in P
      BY <1>2, SubsetInduction
    <2> QED
      BY <2>1
  <1>4. ASSUME NEW x \in S PROVE SumOver(f, S \ {x}) = it[S \ {x}]
    <2> DEFINE r == S \ {x}
    <2>1. IsFiniteSet(r)
      BY FS_RemoveElement
    <2>2. r \in SUBSET S
      OBVIOUS
    <2> HIDE DEF r
    <2>3. PICK jt : Sums(jt, f, r) /\ SumOver(f, r) = jt[r]
      BY <2>1, SumOverIs
    <2>4. jt[r] = it[r]
      BY <1>1, <2>1, <2>2, <2>3, SumsUnique
    <2> QED
      BY <2>3, <2>4 DEF r
  <1> QED
    BY <1>1, <1>3, <1>4
=============================================================================
