----------------------------- MODULE Induction ------------------------------
(***************************************************************************)
(* Induction on the naturals, in the form in which the models need it: a   *)
(* set that holds 0 and each successor of a member holds every natural,    *)
(* and a step repeated n times, written as a recursive function on 0..n,   *)
(* runs through the states that its recursion equation says.               *)
(*                                                                         *)
(* The chipset is driven clock by clock (rigel_step, audio_step,           *)
(* cia_timer_step), so the models repeat one step a number of times.       *)
(***************************************************************************)
EXTENDS Integers, WellFoundedInduction, TLAPS

(* A set of naturals that has a member has a least one.                    *)
LEMMA LeastNat ==
    ASSUME NEW T \in SUBSET Nat, T # {}
    PROVE  \E x \in T : \A y \in T : ~(y < x)
<1>1. IsWellFoundedOn(OpToRel(<, Nat), Nat)
  BY NatLessThanWellFounded, Zenon
<1> DEFINE R == {p \in Nat \X Nat : p[1] < p[2]}
<1>2. OpToRel(<, Nat) = R
  BY Zenon DEF OpToRel
<1>3. IsWellFoundedOn(R, Nat)
  BY <1>1, <1>2, Zenon
<1> HIDE DEF R
<1>4. \E x \in T : \A y \in T : ~(<<y, x>> \in R)
  BY <1>3, WFMin
<1> QED
  BY <1>4 DEF R

(* Induction: a set closed under successor that holds 0 holds them all.    *)
LEMMA SetInduction ==
    ASSUME NEW S, 0 \in S, \A n \in Nat : n \in S => n + 1 \in S
    PROVE  Nat \subseteq S
<1> DEFINE T == Nat \ S
<1> SUFFICES ASSUME T # {} PROVE FALSE
  OBVIOUS
<1>1. PICK x \in T : \A y \in T : ~(y < x)
  BY LeastNat
<1>2. x # 0 /\ x - 1 \in Nat /\ x - 1 \notin T
  BY <1>1
<1> QED
  BY <1>1, <1>2

(* The same up to a bound.                                                 *)
LEMMA BoundedInduction ==
    ASSUME NEW n \in Nat, NEW S, 0 \in S,
           \A k \in Nat : k \in S /\ k + 1 \in 0..n => k + 1 \in S
    PROVE  n \in S
<1> DEFINE T == {k \in Nat : k \in 0..n => k \in S}
<1>1. 0 \in T
  OBVIOUS
<1>2. ASSUME NEW k \in Nat, k \in T PROVE k + 1 \in T
  <2>1. k + 1 \in 0..n => k \in 0..n
    OBVIOUS
  <2> QED
    BY <1>2, <2>1
<1>3. Nat \subseteq T
  BY <1>1, <1>2, SetInduction
<1> QED
  BY <1>3

-----------------------------------------------------------------------------
(* The states that n steps of F run through from x0.                       *)
Run(F, x0, n, f) == f = [i \in 0..n |-> IF i = 0 THEN x0 ELSE F[f[i - 1]]]

(* There is such a run for every number of steps.                          *)
LEMMA RunExists ==
    ASSUME NEW F, NEW x0, NEW n \in Nat
    PROVE  \E f : Run(F, x0, n, f)
<1> DEFINE S == {k \in Nat : \E f : Run(F, x0, k, f)}
<1>1. 0 \in S
  <2> DEFINE f == [i \in 0..0 |-> x0]
  <2>1. f = [i \in 0..0 |-> IF i = 0 THEN x0 ELSE F[f[i - 1]]]
    OBVIOUS
  <2> HIDE DEF f
  <2>2. Run(F, x0, 0, f)
    BY <2>1 DEF Run
  <2> QED
    BY <2>2
<1>2. ASSUME NEW k \in Nat, k \in S
      PROVE  k + 1 \in S
  <2>1. PICK f : Run(F, x0, k, f)
    BY <1>2
  <2> DEFINE g == [i \in 0..(k + 1) |-> IF i \in 0..k THEN f[i] ELSE F[f[k]]]
  <2>2. f = [i \in 0..k |-> IF i = 0 THEN x0 ELSE F[f[i - 1]]]
    BY <2>1 DEF Run
  <2>3. ASSUME NEW i \in 0..(k + 1)
        PROVE  g[i] = IF i = 0 THEN x0 ELSE F[g[i - 1]]
    <3>1. CASE i = 0
      BY <2>2, <3>1
    <3>2. CASE i \in 1..k
      <4>1. i \in 0..k /\ i - 1 \in 0..k /\ i \in 0..(k + 1) /\ i - 1 \in 0..(k + 1) /\ i # 0
        BY <3>2
      <4>2. g[i] = f[i] /\ g[i - 1] = f[i - 1]
        BY <4>1
      <4> QED
        BY <2>2, <4>1, <4>2
    <3>3. CASE i = k + 1
      <4>1. k \in 0..k /\ k \in 0..(k + 1) /\ i \notin 0..k /\ i # 0 /\ i - 1 = k
        BY <3>3
      <4>2. g[i] = F[f[k]] /\ g[k] = f[k]
        BY <3>3, <4>1
      <4> QED
        BY <4>1, <4>2
    <3> QED
      BY <3>1, <3>2, <3>3
  <2> HIDE DEF g
  <2>4. DOMAIN g = 0..(k + 1) /\ g = [i \in 0..(k + 1) |-> g[i]]
    BY DEF g
  <2>5. g = [i \in 0..(k + 1) |-> IF i = 0 THEN x0 ELSE F[g[i - 1]]]
    BY <2>3, <2>4
  <2> QED
    BY <2>5 DEF Run
<1>3. Nat \subseteq S
  BY <1>1, <1>2, SetInduction
<1> QED
  BY <1>3

(* A property of the start that every step keeps holds all along a run.    *)
LEMMA RunInvariant ==
    ASSUME NEW F, NEW x0, NEW n \in Nat, NEW f, Run(F, x0, n, f),
           NEW X, x0 \in X, \A x \in X : F[x] \in X
    PROVE  f \in [0..n -> X]
<1> DEFINE S == {k \in Nat : k \in 0..n => f[k] \in X}
<1>0. f = [i \in 0..n |-> IF i = 0 THEN x0 ELSE F[f[i - 1]]]
  BY DEF Run
<1>1. 0 \in S
  BY <1>0
<1>2. ASSUME NEW k \in Nat, k \in S
      PROVE  k + 1 \in S
  <2> SUFFICES ASSUME k + 1 \in 0..n PROVE f[k + 1] \in X
    OBVIOUS
  <2>1. k \in 0..n /\ k + 1 # 0 /\ (k + 1) - 1 = k
    OBVIOUS
  <2>2. f[k + 1] = F[f[k]]
    BY <1>0, <2>1
  <2> QED
    BY <1>2, <2>1, <2>2
<1>3. Nat \subseteq S
  BY <1>1, <1>2, SetInduction
<1>4. \A k \in 0..n : f[k] \in X
  BY <1>3
<1> QED
  BY <1>0, <1>4

(* Two runs from the same start agree as far as both go.                   *)
LEMMA RunsAgree ==
    ASSUME NEW F, NEW x0, NEW n \in Nat, NEW m \in Nat, n <= m,
           NEW f, Run(F, x0, n, f), NEW g, Run(F, x0, m, g)
    PROVE  f[n] = g[n]
<1> DEFINE S == {k \in Nat : k \in 0..n => f[k] = g[k]}
<1>1. /\ f = [i \in 0..n |-> IF i = 0 THEN x0 ELSE F[f[i - 1]]]
      /\ g = [i \in 0..m |-> IF i = 0 THEN x0 ELSE F[g[i - 1]]]
  BY DEF Run
<1>2. 0 \in S
  BY <1>1
<1>3. ASSUME NEW k \in Nat, k \in S
      PROVE  k + 1 \in S
  <2> SUFFICES ASSUME k + 1 \in 0..n PROVE f[k + 1] = g[k + 1]
    OBVIOUS
  <2>1. k \in 0..n /\ k + 1 \in 0..m /\ k + 1 # 0 /\ (k + 1) - 1 = k
    OBVIOUS
  <2>2. f[k + 1] = F[f[k]] /\ g[k + 1] = F[g[k]]
    BY <1>1, <2>1
  <2> QED
    BY <1>3, <2>1, <2>2
<1>4. Nat \subseteq S
  BY <1>2, <1>3, SetInduction
<1> QED
  BY <1>4

(* The state after n steps of F from x0.                                   *)
Iterated(F, x0, n) == (CHOOSE f : Run(F, x0, n, f))[n]

LEMMA IteratedIsRun ==
    ASSUME NEW F, NEW x0, NEW n \in Nat, NEW f, Run(F, x0, n, f)
    PROVE  f[n] = Iterated(F, x0, n)
<1> DEFINE g == CHOOSE h : Run(F, x0, n, h)
<1>1. Run(F, x0, n, g)
  BY Zenon
<1> HIDE DEF g
<1>2. f[n] = g[n]
  BY <1>1, RunsAgree
<1> QED
  BY <1>2, Zenon DEF g, Iterated

LEMMA IteratedSteps ==
    ASSUME NEW F, NEW x0
    PROVE  /\ Iterated(F, x0, 0) = x0
           /\ \A n \in Nat : Iterated(F, x0, n + 1) = F[Iterated(F, x0, n)]
<1>1. Iterated(F, x0, 0) = x0
  <2>1. PICK f : Run(F, x0, 0, f)
    BY RunExists
  <2>2. f[0] = Iterated(F, x0, 0)
    BY <2>1, IteratedIsRun
  <2>3. f[0] = x0
    BY <2>1 DEF Run
  <2> QED
    BY <2>2, <2>3
<1>2. ASSUME NEW n \in Nat
      PROVE  Iterated(F, x0, n + 1) = F[Iterated(F, x0, n)]
  <2>1. PICK f : Run(F, x0, n, f)
    BY RunExists
  <2>2. n + 1 \in Nat /\ n <= n + 1 /\ n + 1 # 0 /\ (n + 1) - 1 = n
    OBVIOUS
  <2>3. PICK g : Run(F, x0, n + 1, g)
    BY <2>2, RunExists
  <2>4. f[n] = Iterated(F, x0, n) /\ g[n + 1] = Iterated(F, x0, n + 1)
    BY <2>1, <2>2, <2>3, IteratedIsRun
  <2>5. f[n] = g[n]
    BY <2>1, <2>2, <2>3, RunsAgree
  <2>6. g = [i \in 0..(n + 1) |-> IF i = 0 THEN x0 ELSE F[g[i - 1]]]
    BY <2>3 DEF Run
  <2>7. g[n + 1] = F[g[n]]
    <3>1. n + 1 \in 0..(n + 1)
      BY <2>2
    <3> QED
      BY <2>2, <2>6, <3>1
  <2> QED
    BY <2>4, <2>5, <2>7
<1> QED
  BY <1>1, <1>2

(* What a step keeps holds after any number of steps.                      *)
LEMMA IteratedInvariant ==
    ASSUME NEW F, NEW x0, NEW X, x0 \in X, \A x \in X : F[x] \in X
    PROVE  \A n \in Nat : Iterated(F, x0, n) \in X
<1> DEFINE S == {k \in Nat : Iterated(F, x0, k) \in X}
<1>1. 0 \in S
  BY IteratedSteps
<1>2. ASSUME NEW k \in Nat, k \in S PROVE k + 1 \in S
  <2>1. Iterated(F, x0, k + 1) = F[Iterated(F, x0, k)]
    BY IteratedSteps
  <2> QED
    BY <1>2, <2>1
<1>3. Nat \subseteq S
  BY <1>1, <1>2, SetInduction
<1> QED
  BY <1>3

(* A recursive function on 0..n whose step at i is F[i] exists.            *)
LEMMA StepsExist ==
    ASSUME NEW V, NEW x0 \in V, NEW n \in Nat, NEW F \in [1..n -> [V -> V]]
    PROVE  \E f \in [0..n -> V] : f[0] = x0 /\ \A i \in 1..n : f[i] = F[i][f[i - 1]]
<1> DEFINE Good(k, f) == f \in [0..k -> V] /\ f[0] = x0
                         /\ \A i \in 1..k : f[i] = F[i][f[i - 1]]
           S == {k \in Nat : k \in 0..n => \E f : Good(k, f)}
<1>1. 0 \in S
  <2> DEFINE f == [i \in 0..0 |-> x0]
  <2>1. Good(0, f)
    OBVIOUS
  <2> QED
    BY <2>1, Zenon
<1>2. ASSUME NEW k \in Nat, k \in S PROVE k + 1 \in S
  <2> SUFFICES ASSUME k + 1 \in 0..n PROVE \E f : Good(k + 1, f)
    OBVIOUS
  <2>1. k \in 0..n /\ k + 1 \in 1..n
    OBVIOUS
  <2>2. PICK f : Good(k, f)
    BY <1>2, <2>1
  <2> DEFINE g == [i \in 0..(k + 1) |-> IF i = k + 1 THEN F[k + 1][f[k]] ELSE f[i]]
  <2>3. f[k] \in V
    BY <2>2
  <2>4. F[k + 1][f[k]] \in V
    BY <2>1, <2>3
  <2>5. ASSUME NEW i \in 0..(k + 1) PROVE g[i] \in V
    <3>1. CASE i = k + 1
      BY <2>4, <3>1
    <3>2. CASE i # k + 1
      <4>1. i \in 0..k
        BY <3>2
      <4> QED
        BY <2>2, <3>2, <4>1
    <3> QED
      BY <3>1, <3>2
  <2>6. g \in [0..(k + 1) -> V]
    BY <2>5
  <2>7. g[0] = x0
    BY <2>2
  <2>8. ASSUME NEW i \in 1..(k + 1) PROVE g[i] = F[i][g[i - 1]]
    <3>0. i \in 0..(k + 1) /\ i - 1 \in 0..(k + 1) /\ i - 1 # k + 1
      OBVIOUS
    <3>1. g[i - 1] = f[i - 1]
      BY <3>0
    <3>2. CASE i = k + 1
      <4>1. i - 1 = k
        BY <3>2
      <4> QED
        BY <3>0, <3>1, <3>2, <4>1
    <3>3. CASE i # k + 1
      <4>1. i \in 1..k
        BY <3>3
      <4> QED
        BY <2>2, <3>0, <3>1, <3>3, <4>1
    <3> QED
      BY <3>2, <3>3
  <2> HIDE DEF g
  <2> QED
    BY <2>6, <2>7, <2>8
<1>3. Nat \subseteq S
  BY <1>1, <1>2, SetInduction
<1>4. n \in S /\ n \in 0..n
  BY <1>3
<1> QED
  BY <1>4

-----------------------------------------------------------------------------
(* Quotient and remainder.                                                 *)

LEMMA DivMod ==
    ASSUME NEW a \in Int, NEW m \in Nat \ {0}
    PROVE  /\ a \div m \in Int /\ a % m \in 0..(m - 1)
           /\ a = m * (a \div m) + (a % m)
           /\ a \in Nat => a \div m \in Nat
<1>1. a \div m \in Int /\ a % m \in 0..(m - 1)
  OBVIOUS
<1>2. a = m * (a \div m) + (a % m)
  OBVIOUS
<1>3. a \in Nat => a \div m \in Nat
  OBVIOUS
<1> QED
  BY <1>1, <1>2, <1>3

(* A quotient times its divisor is at most the dividend.                   *)
LEMMA Quotient ==
    ASSUME NEW a \in Nat, NEW m \in Nat \ {0}
    PROVE  a \div m \in Nat /\ m * (a \div m) <= a
<1>1. a \in Int
  OBVIOUS
<1>2. a \div m \in Nat /\ a % m \in 0..(m - 1) /\ a = m * (a \div m) + (a % m)
  BY <1>1, DivMod, Zenon
<1>3. PICK q \in Nat : q = a \div m
  BY <1>2
<1>4. PICK k \in Nat : k = m * q
  BY <1>3
<1>5. PICK r \in Nat : r = a % m
  BY <1>2
<1>6. a = k + r
  BY <1>2, <1>3, <1>4, <1>5, Zenon
<1> QED
  BY <1>3, <1>4, <1>6

(* They are determined by the division with remainder.                     *)
LEMMA DivUnique ==
    ASSUME NEW m \in Nat \ {0}, NEW q \in Int, NEW r \in 0..(m - 1)
    PROVE  (m * q + r) \div m = q /\ (m * q + r) % m = r
<1> DEFINE a == m * q + r
           p == a \div m
           s == a % m
<1>1. a \in Int
  OBVIOUS
<1>2. p \in Int /\ s \in 0..(m - 1) /\ a = m * p + s
  BY <1>1, DivMod
<1> HIDE DEF p, s
<1>3. m * (p - q) = r - s /\ r - s < m /\ s - r < m
  BY <1>2
<1>4. ~(p - q >= 1) /\ ~(p - q <= -1)
  <2>1. ASSUME p - q >= 1 PROVE FALSE
    <3>1. m * (p - q) >= m
      BY <1>2, <2>1
    <3> QED
      BY <1>2, <1>3, <3>1
  <2>2. ASSUME p - q <= -1 PROVE FALSE
    <3>1. m * (p - q) <= -m
      BY <1>2, <2>2
    <3> QED
      BY <1>2, <1>3, <3>1
  <2> QED
    BY <2>1, <2>2
<1>5. p = q
  BY <1>2, <1>4
<1> QED
  BY <1>2, <1>5 DEF p, s
=============================================================================
