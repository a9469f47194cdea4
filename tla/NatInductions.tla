--------------------------- MODULE NatInductions ---------------------------
(***************************************************************************)
(* Induction over the naturals for sets and functions: the forms that the  *)
(* provers can instantiate.  The least-number principle comes from the     *)
(* well-foundedness of < on sets; from it follow induction over an         *)
(* interval and the existence of a function defined by iteration.          *)
(***************************************************************************)
EXTENDS Integers, WellFoundedInduction, TLAPS

\* A set of naturals that is not empty has a least element.
LEMMA LeastNat ==
  ASSUME NEW T \in SUBSET Nat, T # {}
  PROVE  \E x \in T : \A y \in T : x <= y
<1> DEFINE R == {ss \in Nat \X Nat : ss[1] < ss[2]}
<1>1. IsWellFoundedOn(R, Nat)
  BY NatLessThanWellFounded DEF OpToRel
<1> HIDE DEF R
<1>2. PICK x \in T : \A y \in T : ~(<<y, x>> \in R)
  BY <1>1, WFMin
<1>3. \A y \in T : ~(y < x)
  BY <1>2 DEF R
<1> QED BY <1>3

\* Induction over an interval: a set with the first element that is closed under the next one
\* has them all.
LEMMA IntervalInduction ==
  ASSUME NEW n \in Nat, NEW T, 0 \in T, \A k \in 1 .. n : k - 1 \in T => k \in T
  PROVE  \A k \in 0 .. n : k \in T
<1> DEFINE bad == {k \in 0 .. n : k \notin T}
<1> SUFFICES ASSUME bad # {} PROVE FALSE
  OBVIOUS
<1>0. bad \in SUBSET Nat
  OBVIOUS
<1>1. PICK x \in bad : \A y \in bad : x <= y
  <2> HIDE DEF bad
  <2> QED BY <1>0, LeastNat
<1>2. x \in 1 .. n /\ x - 1 \notin bad
  BY <1>1
<1> QED BY <1>1, <1>2

\* A function that starts with a and takes step k from the value before.
Iterates(f, n, a, step) == f[0] = a /\ \A k \in 1 .. n : f[k] = step[k][f[k - 1]]
HasIteration(n, S, a, step) == \E f \in [0 .. n -> S] : Iterates(f, n, a, step)

\* Such a function exists.
LEMMA Iteration ==
  ASSUME NEW n \in Nat, NEW S, NEW a \in S, NEW step \in [1 .. n -> [S -> S]]
  PROVE  HasIteration(n, S, a, step)
<1> DEFINE Upto(m) == \E f \in [0 .. m -> S] : /\ f[0] = a
                                               /\ \A k \in 1 .. m : f[k] = step[k][f[k - 1]]
           T == {m \in 0 .. n : Upto(m)}
<1>1. 0 \in T
  <2> DEFINE f == [k \in 0 .. 0 |-> a]
  <2>1. f \in [0 .. 0 -> S] /\ f[0] = a /\ \A k \in 1 .. 0 : f[k] = step[k][f[k - 1]]
    OBVIOUS
  <2> HIDE DEF f
  <2> QED BY <2>1
<1>2. ASSUME NEW m \in 1 .. n, m - 1 \in T PROVE m \in T
  <2>1. PICK f \in [0 .. m - 1 -> S] : /\ f[0] = a
                                       /\ \A k \in 1 .. m - 1 : f[k] = step[k][f[k - 1]]
    BY <1>2
  <2> DEFINE g == [k \in 0 .. m |-> IF k < m THEN f[k] ELSE step[m][f[m - 1]]]
  <2>2. g \in [0 .. m -> S]
    <3>1. step[m] \in [S -> S] /\ f[m - 1] \in S
      BY <2>1
    <3> QED BY <2>1, <3>1
  <2>3. g[0] = a
    BY <2>1
  <2>4. \A k \in 1 .. m : g[k] = step[k][g[k - 1]]
    BY <2>1
  <2> HIDE DEF g
  <2>5. Upto(m)
    BY <2>2, <2>3, <2>4
  <2> HIDE DEF Upto
  <2>6. m \in 0 .. n
    OBVIOUS
  <2> QED BY <2>5, <2>6, Zenon
<1> HIDE DEF T
<1>3. \A m \in 0 .. n : m \in T
  BY <1>1, <1>2, IntervalInduction
<1>4. n \in T
  BY <1>3
<1>5. Upto(n)
  BY <1>4 DEF T
<1> QED BY <1>5 DEF HasIteration, Iterates
=============================================================================
