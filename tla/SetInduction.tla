---------------------------- MODULE SetInduction ----------------------------
(***************************************************************************)
(* Induction over the natural numbers stated with sets instead of          *)
(* predicates, so that a first-order prover can use it: what the proofs    *)
(* need to unfold the recursive functions of PeerDelivery and Kinds.       *)
(***************************************************************************)
EXTENDS Integers, WellFoundedInduction, TLAPS

(* A set of natural numbers that is not empty has a least element. *)
LEMMA LeastElement ==
    ASSUME NEW S \in SUBSET Nat, S # {}
    PROVE  \E x \in S : \A y \in S : x <= y
  <1>1. PICK x \in S : \A y \in S : <<y, x>> \notin OpToRel(<, Nat)
    BY NatLessThanWellFounded, WFMin
  <1>2. \A y \in S : ~(y < x)
    BY <1>1 DEF OpToRel
  <1> QED BY <1>2

(* A set with 0 and the successors of its elements has every number. *)
LEMMA AllNumbers ==
    ASSUME NEW S \in SUBSET Nat, 0 \in S, \A n \in S : n + 1 \in S
    PROVE  \A n \in Nat : n \in S
  <1> SUFFICES ASSUME Nat \ S # {} PROVE FALSE
    OBVIOUS
  <1>1. PICK x \in Nat \ S : \A y \in Nat \ S : x <= y
    BY LeastElement
  <1>2. x - 1 \in Nat
    BY <1>1
  <1>3. x - 1 \in S
    BY <1>1, <1>2
  <1>4. (x - 1) + 1 = x
    BY <1>1
  <1> QED BY <1>1, <1>3, <1>4

\* h holds the first m iterations of F from x.
IsIteration(h, S, F, x, m) ==
    h \in [0 .. m -> S] /\ h[0] = x /\ \A i \in 1 .. m : h[i] = F[h[i - 1]]

(* A function from a set to itself can be iterated any number of times. *)
LEMMA Iterates ==
    ASSUME NEW S, NEW F \in [S -> S], NEW x \in S
    PROVE  \A m \in Nat : \E h : IsIteration(h, S, F, x, m)
  <1> DEFINE T == {m \in Nat : \E h : IsIteration(h, S, F, x, m)}
  <1>1. 0 \in T
    <2> DEFINE z == [i \in 0 .. 0 |-> x]
    <2>1. z \in [0 .. 0 -> S] /\ z[0] = x /\ \A i \in 1 .. 0 : z[i] = F[z[i - 1]]
      OBVIOUS
    <2>2. IsIteration(z, S, F, x, 0)
      BY <2>1 DEF IsIteration
    <2> HIDE DEF z
    <2> QED BY <2>2
  <1>2. ASSUME NEW m \in T PROVE m + 1 \in T
    <2>0. m \in Nat
      OBVIOUS
    <2>1. PICK h : IsIteration(h, S, F, x, m)
      OBVIOUS
    <2>2. h \in [0 .. m -> S] /\ h[0] = x /\ \A i \in 1 .. m : h[i] = F[h[i - 1]]
      BY <2>1 DEF IsIteration
    <2> DEFINE g == [i \in 0 .. m + 1 |-> IF i = m + 1 THEN F[h[m]] ELSE h[i]]
    <2>3. h[m] \in S
      BY <2>0, <2>2
    <2>4. g \in [0 .. m + 1 -> S] /\ g[0] = x
      BY <2>0, <2>2, <2>3
    <2>5. ASSUME NEW i \in 1 .. m + 1 PROVE g[i] = F[g[i - 1]]
      <3>1. i - 1 \in 0 .. m /\ g[i - 1] = h[i - 1]
        BY <2>0
      <3>2. CASE i = m + 1
        BY <2>0, <3>1, <3>2
      <3>3. CASE i # m + 1
        BY <2>0, <2>2, <3>1, <3>3
      <3> QED BY <3>2, <3>3
    <2> HIDE DEF g
    <2>6. IsIteration(g, S, F, x, m + 1) /\ m + 1 \in Nat
      BY <2>0, <2>4, <2>5 DEF IsIteration
    <2> QED BY <2>6
  <1> HIDE DEF T
  <1>3. T \subseteq Nat
    BY DEF T
  <1>4. \A n \in Nat : n \in T
    BY <1>1, <1>2, <1>3, AllNumbers
  <1> QED BY <1>4 DEF T

=============================================================================
