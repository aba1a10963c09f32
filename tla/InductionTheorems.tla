------------------------- MODULE InductionTheorems -------------------------
(***************************************************************************)
(* Induction and recursion on the natural numbers, in forms that take sets *)
(* and functions where the library's theorems take operators: a set of     *)
(* naturals with 0 and every successor is all of them, and a function on   *)
(* 0 .. N may be defined by its first value and by a step.  They are used  *)
(* where a model computes along a sequence.                                *)
(***************************************************************************)
EXTENDS Integers, WellFoundedInduction, TLAPS

(* Every set of numbers that is not empty has a least one.                 *)
LEMMA LeastNumber ==
  ASSUME NEW T, T \subseteq Nat, T # {}
  PROVE  \E x \in T : \A y \in T : x <= y
<1> DEFINE R == OpToRel(<, Nat)
<1>1. IsWellFoundedOn(R, Nat) BY NatLessThanWellFounded
<1>2. \A x, y \in Nat : y < x => <<y, x>> \in R BY DEF OpToRel
<1>3. \E x \in T : \A y \in T : ~ (<<y, x>> \in R)
  <2> HIDE DEF R
  <2> QED BY <1>1, WFMin, Zenon
<1>4. PICK x \in T : \A y \in T : ~ (<<y, x>> \in R) BY <1>3
<1>5. \A y \in T : ~ (y < x) BY <1>2, <1>4
<1> QED BY <1>5

(* A set with 0 and every successor has all numbers.                      *)
LEMMA SetInduction ==
  ASSUME NEW S, 0 \in S, \A n \in Nat : n \in S => n + 1 \in S
  PROVE  Nat \subseteq S
<1> SUFFICES ASSUME Nat \ S # {} PROVE FALSE OBVIOUS
<1>1. PICK x \in Nat \ S : \A y \in Nat \ S : x <= y BY LeastNumber
<1>2. x # 0 /\ x - 1 \in Nat BY <1>1
<1>3. x - 1 \in S BY <1>1, <1>2
<1> QED BY <1>1, <1>2, <1>3

(* A function on 0 .. N is defined by its first value and by a step.       *)
Follows(f, X, N, first, step) ==
  /\ f \in [0 .. N -> X]
  /\ f[0] = first
  /\ \A i \in 1 .. N : f[i] = step[<<i, f[i - 1]>>]

LEMMA Recursion ==
  ASSUME NEW X, NEW a \in X, NEW N \in Nat, NEW step, step \in [(1 .. N) \X X -> X]
  PROVE  \E f : Follows(f, X, N, a, step)
<1> DEFINE Solves(g, n) == /\ g \in [0 .. n -> X]
                           /\ g[0] = a
                           /\ \A i \in 1 .. n : g[i] = step[<<i, g[i - 1]>>]
           S == {n \in Nat : n <= N => \E g : Solves(g, n)}
<1>1. 0 \in S
  <2>1. Solves([i \in 0 .. 0 |-> a], 0) OBVIOUS
  <2> QED BY <2>1
<1>2. ASSUME NEW n \in Nat, n \in S PROVE n + 1 \in S
  <2> SUFFICES ASSUME n + 1 <= N PROVE \E g : Solves(g, n + 1) OBVIOUS
  <2>1. PICK g : Solves(g, n) BY <1>2
  <2> DEFINE next == step[<<n + 1, g[n]>>]
             h == [i \in 0 .. n + 1 |-> IF i = n + 1 THEN next ELSE g[i]]
  <2>2. n \in 0 .. n /\ g[n] \in X BY <2>1
  <2>3. next \in X
    <3>1. <<n + 1, g[n]>> \in (1 .. N) \X X BY <2>2
    <3> QED BY <3>1
  <2>4. h \in [0 .. n + 1 -> X] BY <2>1, <2>3
  <2>5. h[0] = a BY <2>1
  <2>6. ASSUME NEW i \in 1 .. n + 1 PROVE h[i] = step[<<i, h[i - 1]>>]
    <3>1. CASE i = n + 1
      <4>1. h[i] = next BY <3>1
      <4>2. i - 1 = n /\ n # n + 1 /\ n \in 0 .. n + 1 BY <3>1
      <4>3. h[i - 1] = g[n] BY <4>2
      <4> QED BY <4>1, <4>3, <3>1
    <3>2. CASE i # n + 1
      <4>1. i \in 1 .. n /\ i \in 0 .. n /\ i - 1 \in 0 .. n /\ i - 1 # n + 1 BY <3>2
      <4>2. h[i] = g[i] /\ h[i - 1] = g[i - 1] BY <4>1
      <4> QED BY <4>1, <4>2, <2>1
    <3> QED BY <3>1, <3>2
  <2>7. Solves(h, n + 1) BY <2>4, <2>5, <2>6
  <2> QED BY <2>7
<1> HIDE DEF S
<1>3. Nat \subseteq S BY <1>1, <1>2, SetInduction
<1> QED BY <1>3 DEF S, Follows

(* Whatever satisfies the equations has the type of their solution.        *)
LEMMA RecursionType ==
  ASSUME NEW X, NEW a \in X, NEW N \in Nat, NEW step, step \in [(1 .. N) \X X -> X],
         NEW g, DOMAIN g = 0 .. N, g = [n \in 0 .. N |-> g[n]], g[0] = a,
         \A i \in 1 .. N : g[i - 1] \in X => g[i] = step[<<i, g[i - 1]>>]
  PROVE  Follows(g, X, N, a, step)
<1> DEFINE S == {n \in Nat : n <= N => g[n] \in X}
<1>1. 0 \in S OBVIOUS
<1>2. ASSUME NEW n \in Nat, n \in S PROVE n + 1 \in S
  <2> SUFFICES ASSUME n + 1 <= N PROVE g[n + 1] \in X OBVIOUS
  <2>1. n + 1 \in 1 .. N /\ (n + 1) - 1 = n /\ g[n] \in X BY <1>2
  <2>2. g[n + 1] = step[<<n + 1, g[n]>>] BY <2>1
  <2>3. <<n + 1, g[n]>> \in (1 .. N) \X X BY <2>1
  <2> QED BY <2>2, <2>3
<1> HIDE DEF S
<1>3. Nat \subseteq S BY <1>1, <1>2, SetInduction
<1>4. \A n \in 0 .. N : g[n] \in X BY <1>3 DEF S
<1>5. g \in [0 .. N -> X] BY <1>4
<1>6. ASSUME NEW i \in 1 .. N PROVE g[i] = step[<<i, g[i - 1]>>]
  <2>1. i - 1 \in 0 .. N OBVIOUS
  <2> QED BY <2>1, <1>4
<1> QED BY <1>5, <1>6 DEF Follows

(* Ranked: what x depends on, below[x], has lower ranks.                   *)
Ranked(K, rank, below) ==
  /\ rank \in [K -> Nat] /\ below \in [K -> SUBSET K]
  /\ \A x \in K : \A y \in below[x] : rank[y] < rank[x]

LEMMA RankInduction ==
  ASSUME NEW K, NEW rank, NEW below, Ranked(K, rank, below),
         NEW T, \A x \in K : below[x] \subseteq T => x \in T
  PROVE  K \subseteq T
<1> SUFFICES ASSUME K \ T # {} PROVE FALSE OBVIOUS
<1> DEFINE S == {rank[x] : x \in K \ T}
<1>1. S \subseteq Nat /\ S # {} BY DEF Ranked
<1>2. PICK n \in S : \A m \in S : n <= m BY <1>1, LeastNumber
<1>3. PICK x \in K \ T : n = rank[x] BY <1>2
<1>4. PICK y \in below[x] : y \notin T BY <1>3
<1>5. y \in K \ T /\ rank[y] < rank[x] /\ rank[y] \in Nat /\ rank[x] \in Nat BY <1>3, <1>4 DEF Ranked
<1>6. rank[y] \in S BY <1>5
<1> QED BY <1>2, <1>3, <1>5, <1>6

(* A function is defined by a step that looks at what is below only.       *)
LooksBelow(step, K, X, below) ==
  /\ step \in [K \X [K -> X] -> X]
  /\ \A x \in K : \A g, h \in [K -> X] :
       (\A y \in below[x] : g[y] = h[y]) => step[<<x, g>>] = step[<<x, h>>]

Defines(step, K, X) == \E f \in [K -> X] : \A x \in K : f[x] = step[<<x, f>>]

LEMMA RankRecursion ==
  ASSUME NEW K, NEW rank, NEW below, Ranked(K, rank, below),
         NEW N \in Nat, \A x \in K : rank[x] < N, NEW X, X # {}, NEW step, LooksBelow(step, K, X, below)
  PROVE  Defines(step, K, X)
<1> DEFINE Solves(g, n) == \A x \in K : rank[x] < n => g[x] = step[<<x, g>>]
           S == {n \in Nat : \E g \in [K -> X] : Solves(g, n)}
<1>0. \A x \in K : rank[x] \in Nat /\ below[x] \subseteq K /\ \A y \in below[x] : rank[y] < rank[x]
  BY DEF Ranked
<1>1. 0 \in S
  <2>1. PICK z \in X : TRUE OBVIOUS
  <2>2. [x \in K |-> z] \in [K -> X] BY <2>1
  <2>3. Solves([x \in K |-> z], 0) BY <1>0
  <2> QED BY <2>2, <2>3
<1>2. ASSUME NEW n \in Nat, n \in S PROVE n + 1 \in S
  <2>1. PICK g \in [K -> X] : Solves(g, n) BY <1>2
  <2> DEFINE h == [x \in K |-> step[<<x, g>>]]
  <2>2. h \in [K -> X]
    <3>1. \A x \in K : <<x, g>> \in K \X [K -> X] BY <2>1
    <3> QED BY <3>1 DEF LooksBelow
  <2>3. ASSUME NEW x \in K, rank[x] < n + 1 PROVE h[x] = step[<<x, h>>]
    <3>1. \A y \in below[x] : y \in K /\ rank[y] < n BY <1>0, <2>3
    <3>2. \A y \in below[x] : g[y] = h[y] BY <2>1, <3>1
    <3>3. step[<<x, g>>] = step[<<x, h>>] BY <2>1, <2>2, <3>2 DEF LooksBelow
    <3> QED BY <3>3
  <2>4. Solves(h, n + 1) BY <2>3
  <2> HIDE DEF h, Solves
  <2>5. n + 1 \in Nat OBVIOUS
  <2> QED BY <2>2, <2>4, <2>5
<1> HIDE DEF S
<1>3. Nat \subseteq S BY <1>1, <1>2, SetInduction
<1>4. PICK f \in [K -> X] : Solves(f, N) BY <1>3 DEF S
<1> QED BY <1>0, <1>4 DEF Defines
=============================================================================
