-------------------------- MODULE NaturalsRecursion --------------------------
(***************************************************************************)
(* Induction and recursion over the naturals, stated over sets and         *)
(* functions instead of predicates, so that every prover can use them.     *)
(***************************************************************************)
EXTENDS Integers, WellFoundedInduction, TLAPS

\* The order of the naturals as a relation ...
LessThan == {p \in Nat \X Nat : p[1] < p[2]}

\* ... is well-founded.
LEMMA LessThanWellFounded == IsWellFoundedOn(LessThan, Nat)
<1>1. LessThan \cap (Nat \X Nat) \subseteq OpToRel(<, Nat)
  BY Zenon DEF LessThan, OpToRel
<1> QED BY <1>1, NatLessThanWellFounded, IsWellFoundedOnSubrelation, Zenon

\* Every set of numbers that is not empty has a least one.
LEMMA LeastNumber ==
  ASSUME NEW T, T \subseteq Nat, T # {}
  PROVE  \E n \in T : \A m \in T : n <= m
<1>1. PICK n \in T : \A m \in T : ~ (<<m, n>> \in LessThan)
  BY LessThanWellFounded, WFMin, Zenon
<1>2. ASSUME NEW m \in T PROVE n <= m
  <2>1. CASE m < n
    <3>1. <<m, n>> \in LessThan BY <2>1, SMT DEF LessThan
    <3> QED BY <1>1, <3>1
  <2>2. CASE ~(m < n) BY <2>2
  <2> QED BY <2>1, <2>2
<1> QED BY <1>2

\* Induction: a set that holds 0, and n + 1 whenever it holds n, holds all numbers.
LEMMA SetInduction ==
  ASSUME NEW T, 0 \in T, \A n \in Nat : n \in T => n + 1 \in T
  PROVE  Nat \subseteq T
<1>1. SUFFICES ASSUME Nat \ T # {} PROVE FALSE
  OBVIOUS
<1>2. PICK n \in Nat \ T : \A m \in Nat \ T : n <= m
  BY <1>1, LeastNumber, Zenon
<1>3. n # 0
  OBVIOUS
<1>4. n - 1 \in Nat /\ ~(n <= n - 1) /\ (n - 1) + 1 = n
  BY <1>3
<1>5. n - 1 \in T
  BY <1>2, <1>4
<1> QED BY <1>4, <1>5

\* f is the first n steps of a recursion.
Computes(f, n, r0, step) == f[0] = r0 /\ \A i \in 0..n-1 : f[i + 1] = step[<<i, f[i]>>]

\* The function of a value to start from and a step.
Recursive(f, r0, step) == f[0] = r0 /\ \A n \in Nat : f[n + 1] = step[<<n, f[n]>>]

\* There is such a function on the naturals.
LEMMA Recursion ==
  ASSUME NEW R, NEW r0 \in R, NEW step \in [Nat \X R -> R]
  PROVE  \E f \in [Nat -> R] : Recursive(f, r0, step)
<1> DEFINE Runs(n) == {g \in [0..n -> R] : Computes(g, n, r0, step)}
           T == {n \in Nat : Runs(n) # {}}
           U == {i \in Nat : \A n, m \in Nat : \A g \in Runs(n), h \in Runs(m) :
                   i <= n /\ i <= m => g[i] = h[i]}
<1>1. 0 \in T
  <2>1. [i \in 0..0 |-> r0] \in Runs(0)
    BY DEF Computes
  <2> QED BY <2>1
<1>2. ASSUME NEW n \in Nat, n \in T PROVE n + 1 \in T
  <2>1. PICK g \in [0..n -> R] : Computes(g, n, r0, step)
    BY <1>2
  <2> DEFINE h == [i \in 0..n+1 |-> IF i = n + 1 THEN step[<<n, g[n]>>] ELSE g[i]]
  <2>2. step[<<n, g[n]>>] \in R
    BY <2>1
  <2>3. h \in [0..n+1 -> R]
    BY <2>1, <2>2
  <2>4. h[0] = r0
    BY <2>1 DEF Computes
  <2>5. ASSUME NEW i \in 0..n PROVE h[i + 1] = step[<<i, h[i]>>]
    <3>1. h[i] = g[i]
      BY <2>5
    <3>2. CASE i = n
      <4>1. h[n + 1] = step[<<n, g[n]>>]
        OBVIOUS
      <4> HIDE DEF h
      <4> QED BY <3>1, <3>2, <4>1
    <3>3. CASE i # n
      <4>1. i \in 0..n-1 /\ h[i + 1] = g[i + 1]
        BY <2>5, <3>3
      <4> QED BY <2>1, <3>1, <4>1 DEF Computes
    <3> QED BY <3>2, <3>3
  <2>6. h \in Runs(n + 1)
    <3> HIDE DEF h
    <3>1. (n + 1) - 1 = n
      OBVIOUS
    <3> QED BY <2>3, <2>4, <2>5, <3>1 DEF Computes
  <2> QED BY <2>6
<1>3. T = Nat
  <2> HIDE DEF T
  <2>1. Nat \subseteq T BY <1>1, <1>2, SetInduction
  <2> QED BY <2>1 DEF T
<1>4. 0 \in U
  BY DEF Computes
<1>5. ASSUME NEW i \in Nat, i \in U PROVE i + 1 \in U
  <2>1. SUFFICES ASSUME NEW n \in Nat, NEW m \in Nat, NEW g \in Runs(n), NEW h \in Runs(m),
                        i + 1 <= n, i + 1 <= m
                 PROVE  g[i + 1] = h[i + 1]
    OBVIOUS
  <2>2. g[i] = h[i]
    BY <1>5, <2>1
  <2>3. i \in 0..n-1 /\ i \in 0..m-1
    BY <2>1
  <2> QED BY <2>1, <2>2, <2>3 DEF Computes
<1>6. U = Nat
  <2> HIDE DEF U
  <2>1. Nat \subseteq U BY <1>4, <1>5, SetInduction
  <2> QED BY <2>1 DEF U
<1> DEFINE run(n) == CHOOSE g : g \in Runs(n)
           f == [n \in Nat |-> run(n)[n]]
<1>7. \A n \in Nat : run(n) \in Runs(n)
  <2> HIDE DEF Runs
  <2> QED BY <1>3
<1>8. \A n \in Nat : \A g \in Runs(n) : g \in [0..n -> R] /\ Computes(g, n, r0, step)
  OBVIOUS
<1>9. \A n \in Nat, m \in Nat : \A g \in Runs(n), h \in Runs(m) : \A i \in Nat :
        i <= n /\ i <= m => g[i] = h[i]
  <2> HIDE DEF Runs
  <2> QED BY <1>6
<1> HIDE DEF Runs, run
<1>10. f \in [Nat -> R]
  BY <1>7, <1>8
<1>11. f[0] = r0
  BY <1>7, <1>8 DEF Computes
<1>12. ASSUME NEW n \in Nat PROVE f[n + 1] = step[<<n, f[n]>>]
  <2>1. run(n + 1) \in Runs(n + 1) /\ run(n) \in Runs(n)
    BY <1>7
  <2>2. run(n + 1)[n] = run(n)[n]
    BY <1>9, <2>1
  <2>3. run(n + 1)[n + 1] = step[<<n, run(n + 1)[n]>>]
    BY <1>8, <2>1 DEF Computes
  <2> QED BY <2>2, <2>3
<1> HIDE DEF f
<1>13. Recursive(f, r0, step)
  BY <1>11, <1>12 DEF Recursive
<1> QED BY <1>10, <1>13
=============================================================================
