-------------------------------- MODULE Lemmas --------------------------------
(***************************************************************************)
(* Facts about naturals and sets of naturals that proofs of several         *)
(* components rest on.  Induction over the naturals is used in the form of  *)
(* the least counterexample: a non-empty set of naturals has a least        *)
(* element.                                                                 *)
(***************************************************************************)
EXTENDS Integers, Sequences, FiniteSets, FiniteSetsExt, FiniteSetTheorems,
        WellFoundedInduction, TLAPS

LEMMA NatWellFounded == IsWellFoundedOn({p \in Nat \X Nat : p[1] < p[2]}, Nat)
  BY NatLessThanWellFounded, Zenon DEF OpToRel

LEMMA LeastNat ==
  ASSUME NEW S, S \subseteq Nat, S # {}
  PROVE  \E x \in S : \A y \in S : x <= y
<1>1. PICK x \in S : \A y \in S : <<y, x>> \notin {p \in Nat \X Nat : p[1] < p[2]}
  BY NatWellFounded, WFMin
<1>2. \A y \in S : ~ (y < x) BY <1>1
<1> QED BY <1>2

(* What holds at the first place, and at each place if at the one before,   *)
(* holds at every place.                                                    *)
LEMMA Induction ==
  ASSUME NEW a \in Nat, NEW b \in Nat, NEW T,
         a \in T,
         \A i \in (a + 1) .. b : i - 1 \in T => i \in T
  PROVE  \A i \in a .. b : i \in T
<1> DEFINE Out == {i \in a .. b : i \notin T}
<1> SUFFICES ASSUME Out # {} PROVE FALSE
  OBVIOUS
<1>0. Out \subseteq Nat OBVIOUS
<1>1. PICK x \in Out : \A y \in Out : x <= y
  <2> HIDE DEF Out
  <2> QED BY <1>0, LeastNat
<1>2. x # a /\ x \in (a + 1) .. b BY <1>1
<1>3. x - 1 \notin Out BY <1>1, <1>2
<1>4. x - 1 \in T BY <1>2, <1>3
<1> QED BY <1>1, <1>2, <1>4

(* Finitely many naturals have an upper bound. *)
LEMMA BoundedFunction ==
  ASSUME NEW n \in Nat, NEW f, \A i \in 1 .. n : f[i] \in Nat
  PROVE  \E m \in Nat : \A i \in 1 .. n : f[i] <= m
<1> DEFINE T == {k \in 0 .. n : \E m \in Nat : \A i \in 1 .. k : f[i] <= m}
<1>1. 0 \in T OBVIOUS
<1>2. ASSUME NEW k \in (0 + 1) .. n, k - 1 \in T PROVE k \in T
  <2>1. PICK m \in Nat : \A i \in 1 .. (k - 1) : f[i] <= m BY <1>2
  <2>2. f[k] \in Nat BY <1>2
  <2>3. CASE f[k] <= m
    <3>1. \A i \in 1 .. k : f[i] <= m BY <2>1, <2>3
    <3> QED BY <3>1
  <2>4. CASE ~ (f[k] <= m)
    <3>1. \A i \in 1 .. k : f[i] <= f[k] BY <2>1, <2>2, <2>4
    <3> QED BY <2>2, <3>1
  <2> QED BY <2>3, <2>4
<1>3. \A i \in 0 .. n : i \in T
  <2> HIDE DEF T
  <2> QED BY <1>1, <1>2, Induction
<1>4. n \in T
  <2> HIDE DEF T
  <2> QED BY <1>3
<1> QED BY <1>4

LEMMA GreatestNat ==
  ASSUME NEW S, S \subseteq Nat, S # {}, NEW m \in Nat, \A x \in S : x <= m
  PROVE  \E x \in S : \A y \in S : y <= x
<1> DEFINE U == {k \in Nat : \A x \in S : x <= k}
<1>1. PICK k \in U : \A y \in U : k <= y BY LeastNat
<1>2. CASE k \in S BY <1>1, <1>2
<1>3. CASE k \notin S
  <2>1. \A x \in S : x <= k - 1 BY <1>1, <1>3
  <2>2. k # 0
    <3>1. PICK x \in S : TRUE OBVIOUS
    <3>2. x \in Nat /\ x <= k BY <1>1
    <3> QED BY <1>3, <3>2
  <2>3. k - 1 \in U BY <2>1, <2>2
  <2> QED BY <1>1, <2>3
<1> QED BY <1>2, <1>3

LEMMA FiniteBounded ==
  ASSUME NEW S, S \subseteq Nat, IsFiniteSet(S)
  PROVE  \E m \in Nat : \A x \in S : x <= m
<1>1. PICK q \in Seq(S) : \A s \in S : \E n \in 1 .. Len(q) : q[n] = s
  BY DEF IsFiniteSet
<1>2. Len(q) \in Nat /\ \A i \in 1 .. Len(q) : q[i] \in Nat
  <2>1. \A i \in 1 .. Len(q) : q[i] \in S OBVIOUS
  <2>2. \A x \in S : x \in Nat OBVIOUS
  <2>3. Len(q) \in Nat OBVIOUS
  <2> QED BY <2>1, <2>2, <2>3
<1>3. PICK m \in Nat : \A i \in 1 .. Len(q) : q[i] <= m BY <1>2, BoundedFunction
<1> QED BY <1>1, <1>3

(* What Max and Min of FiniteSetsExt return. *)
LEMMA MaxOfNats ==
  ASSUME NEW S, S \subseteq Nat, S # {}, NEW m \in Nat, \A x \in S : x <= m
  PROVE  Max(S) \in S /\ \A x \in S : x <= Max(S)
<1>1. \E x \in S : \A y \in S : x >= y BY GreatestNat
<1> QED BY <1>1 DEF Max

LEMMA MinOfNats ==
  ASSUME NEW S, S \subseteq Nat, S # {}
  PROVE  Min(S) \in S /\ \A x \in S : Min(S) <= x
<1>1. \E x \in S : \A y \in S : x <= y BY LeastNat
<1> QED BY <1>1 DEF Min

LEMMA MinOfNatsOr ==
  ASSUME NEW n \in Int, n < 0, NEW S, S \subseteq Nat \cup {n}, S # {}
  PROVE  Min(S) \in S /\ \A x \in S : Min(S) <= x
<1>1. \E x \in S : \A y \in S : x <= y
  <2>1. CASE n \in S BY <2>1
  <2>2. CASE n \notin S
    <3>1. S \subseteq Nat BY <2>2
    <3> QED BY <3>1, LeastNat
  <2> QED BY <2>1, <2>2
<1> QED BY <1>1 DEF Min

(* The values of a function on a finite set. *)
LEMMA ImageFinite ==
  ASSUME NEW P, IsFiniteSet(P), NEW f, f = [p \in P |-> f[p]]
  PROVE  IsFiniteSet({f[p] : p \in P})
<1> DEFINE T == {f[p] : p \in P}
<1>1. f \in [P -> T] OBVIOUS
<1>2. \A t \in T : \E p \in P : f[p] = t OBVIOUS
<1>3. f \in Surjection(P, T)
  <2> HIDE DEF T
  <2> QED BY <1>1, <1>2 DEF Surjection
<1> HIDE DEF T
<1>4. IsFiniteSet(T) BY <1>3, FS_Surjection
<1> USE DEF T
<1> QED BY <1>4

(* F gives the value at i from the one at i - 1, in X.                      *)
IsStep(F, a, b, X) == \A i \in (a + 1) .. b : \A x \in X : F[<<i, x>>] \in X

Unfolds(f, F, a, b, X, x0) ==
    /\ f \in [a .. b -> X] /\ f[a] = x0
    /\ \A i \in (a + 1) .. b : f[i] = F[<<i, f[i - 1]>>]

(* A function on a .. b may be defined by its first value and a step.       *)
LEMMA RecursionExists ==
  ASSUME NEW a \in Nat, NEW b \in Nat, a <= b, NEW X, NEW x0 \in X, NEW F,
         IsStep(F, a, b, X)
  PROVE  \E f : Unfolds(f, F, a, b, X, x0)
<1> USE DEF IsStep, Unfolds
<1> DEFINE Defines(f, k) == /\ f \in [a .. k -> X] /\ f[a] = x0
                            /\ \A i \in (a + 1) .. k : f[i] = F[<<i, f[i - 1]>>]
           T == {k \in a .. b : \E f : Defines(f, k)}
<1>1. a \in T
  <2> DEFINE one == [i \in a .. a |-> x0]
  <2>1. Defines(one, a) OBVIOUS
  <2> QED BY <2>1
<1>2. ASSUME NEW k \in (a + 1) .. b, k - 1 \in T PROVE k \in T
  <2>1. PICK f : Defines(f, k - 1) BY <1>2
  <2> DEFINE next == F[<<k, f[k - 1]>>]
             g == [i \in a .. k |-> IF i = k THEN next ELSE f[i]]
  <2>2. next \in X BY <1>2, <2>1
  <2> HIDE DEF next
  <2>3. g \in [a .. k -> X] /\ g[a] = x0 BY <2>1, <2>2
  <2>4. ASSUME NEW i \in (a + 1) .. k PROVE g[i] = F[<<i, g[i - 1]>>]
    <3>1. g[i - 1] = f[i - 1] BY <2>4
    <3>2. CASE i = k BY <3>1, <3>2 DEF next
    <3>3. CASE i # k
      <4>1. i \in (a + 1) .. (k - 1) /\ g[i] = f[i] BY <2>4, <3>3
      <4> QED BY <2>1, <3>1, <4>1
    <3> QED BY <3>2, <3>3
  <2>5. Defines(g, k) BY <2>3, <2>4
  <2>6. k \in a .. b BY <1>2
  <2> HIDE DEF g, Defines
  <2> QED BY <2>5, <2>6
<1>3. \A k \in a .. b : k \in T
  <2> HIDE DEF T
  <2> QED BY <1>1, <1>2, Induction
<1>4. b \in T
  <2> HIDE DEF T
  <2> QED BY <1>3
<1> QED BY <1>4

=============================================================================
