------------------------------ MODULE Recursion ------------------------------
(***************************************************************************)
(* Induction and recursion on the natural numbers, without parameters that *)
(* are operators: what is to be shown of a number is membership in a set,  *)
(* and a step of a recursion is a function.                                *)
(***************************************************************************)
EXTENDS Naturals, TLAPS, WellFoundedInduction

(* A set of naturals has a least element. *)
LEMMA NatMin ==
  ASSUME NEW S, S \subseteq Nat, S # {}
  PROVE  \E m \in S : \A k \in S : m <= k
<1> DEFINE R == {ss \in Nat \X Nat : ss[1] < ss[2]}
<1>1. IsWellFoundedOn(R, Nat)
  BY NatLessThanWellFounded DEF OpToRel
<1>2. PICK x \in S : \A y \in S : ~ (<<y, x>> \in R)
  <2> HIDE DEF R
  <2> QED BY <1>1, WFMin
<1>3. \A y \in S : ~(y < x)
  <2> TAKE y \in S
  <2>1. <<y, x>> \in Nat \X Nat  OBVIOUS
  <2>2. ~ (<<y, x>> \in R)  BY <1>2
  <2> QED BY <2>1, <2>2
<1> QED BY <1>3

(* What holds of 0, and of n + 1 with n, holds up to N. *)
LEMMA UpTo ==
  ASSUME NEW N \in Nat, NEW S, 0 \in S,
         \A n \in 0 .. N : n \in S /\ n < N => n + 1 \in S
  PROVE  \A n \in 0 .. N : n \in S
<1> SUFFICES ASSUME NEW a \in 0 .. N, a \notin S PROVE FALSE
  OBVIOUS
<1> DEFINE Bad == {n \in 0 .. N : n \notin S}
<1>1. PICK m \in Bad : \A k \in Bad : m <= k
  <2>1. Bad \subseteq Nat /\ Bad # {}  OBVIOUS
  <2> HIDE DEF Bad
  <2> QED BY <2>1, NatMin
<1>2. m # 0 /\ m \in 0 .. N /\ m \notin S  OBVIOUS
<1>3. m - 1 \in 0 .. N /\ m - 1 < N /\ ~(m <= m - 1) /\ (m - 1) + 1 = m  BY <1>2
<1>4. m - 1 \in S  BY <1>1, <1>3
<1> QED BY <1>2, <1>3, <1>4

(* Two functions that begin alike and go on alike are alike. *)
Alike(f, g, N) == f[0] = g[0] /\ \A n \in 1 .. N : f[n - 1] = g[n - 1] => f[n] = g[n]

LEMMA Agree ==
  ASSUME NEW N \in Nat, NEW f, NEW g, Alike(f, g, N)
  PROVE  \A n \in 0 .. N : f[n] = g[n]
<1> DEFINE S == {n \in 0 .. N : f[n] = g[n]}
<1>1. 0 \in S  BY DEF Alike
<1>2. \A n \in 0 .. N : n \in S /\ n < N => n + 1 \in S
  <2> SUFFICES ASSUME NEW n \in 0 .. N, f[n] = g[n], n < N PROVE n + 1 \in S
    OBVIOUS
  <2>1. n + 1 \in 1 .. N /\ n + 1 \in 0 .. N /\ (n + 1) - 1 = n  OBVIOUS
  <2> QED BY <2>1 DEF Alike
<1>3. \A n \in 0 .. N : n \in S
  <2> HIDE DEF S
  <2> QED BY <1>1, <1>2, UpTo
<1> QED BY <1>3

(* Recursion: whatever a step makes of a number and a result, there is the *)
(* function that begins with base and goes on by the step.                 *)
StaysIn(R, N, step) == \A n \in 1 .. N : \A r \in R : step[n][r] \in R

GoesBy(f, N, base, step) == f[0] = base /\ \A n \in 1 .. N : f[n] = step[n][f[n - 1]]

LEMMA Recursively ==
  ASSUME NEW N \in Nat, NEW R, NEW base \in R, NEW step, StaysIn(R, N, step)
  PROVE  \E f \in [0 .. N -> R] : GoesBy(f, N, base, step)
<1> USE DEF StaysIn, GoesBy
<1> DEFINE Good(n, f) == f[0] = base /\ \A i \in 1 .. n : f[i] = step[i][f[i - 1]]
           S == {n \in 0 .. N : \E f \in [0 .. n -> R] : Good(n, f)}
<1>1. 0 \in S
  <2>1. [i \in 0 .. 0 |-> base] \in [0 .. 0 -> R]  OBVIOUS
  <2>2. Good(0, [i \in 0 .. 0 |-> base])  OBVIOUS
  <2>3. \E f \in [0 .. 0 -> R] : Good(0, f)
    <3> HIDE DEF Good
    <3> QED BY <2>1, <2>2
  <2> HIDE DEF Good
  <2> QED BY <2>3
<1>2. ASSUME NEW n \in 0 .. N, n \in S, n < N PROVE n + 1 \in S
  <2>1. PICK f \in [0 .. n -> R] : Good(n, f)  BY <1>2
  <2> DEFINE g == [i \in 0 .. n + 1 |-> IF i <= n THEN f[i] ELSE step[i][f[n]]]
  <2>2. n \in Nat /\ n + 1 \in 1 .. N /\ n + 1 \in 0 .. N  BY <1>2
  <2>3. f[n] \in R  BY <2>1, <2>2
  <2>4. step[n + 1][f[n]] \in R  BY <2>2, <2>3
  <2>5. g \in [0 .. n + 1 -> R]
    <3> SUFFICES ASSUME NEW i \in 0 .. n + 1 PROVE g[i] \in R  OBVIOUS
    <3>1. CASE i <= n  BY <2>1, <2>2, <3>1
    <3>2. CASE ~(i <= n)
      <4>1. i = n + 1  BY <2>2, <3>2
      <4> QED BY <2>4, <3>2, <4>1
    <3> QED BY <3>1, <3>2
  <2>6. g[0] = base  BY <2>1, <2>2
  <2>7. ASSUME NEW i \in 1 .. n + 1 PROVE g[i] = step[i][g[i - 1]]
    <3>1. i \in 0 .. n + 1 /\ i - 1 \in 0 .. n + 1 /\ i - 1 <= n /\ g[i - 1] = f[i - 1]
      BY <2>2
    <3>2. CASE i <= n  BY <2>1, <2>2, <3>1, <3>2
    <3>3. CASE ~(i <= n)
      <4>1. i - 1 = n  BY <2>2, <3>3
      <4> QED BY <3>1, <3>3, <4>1
    <3> QED BY <3>2, <3>3
  <2> HIDE DEF g
  <2> QED BY <2>2, <2>5, <2>6, <2>7
<1> HIDE DEF S
<1>3. N \in S
  <2>1. \A n \in 0 .. N : n \in S  BY <1>1, <1>2, UpTo
  <2> QED BY <2>1
<1> QED BY <1>3 DEF S
=============================================================================
