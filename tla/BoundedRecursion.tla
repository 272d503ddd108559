--------------------------- MODULE BoundedRecursion ---------------------------
(***************************************************************************)
(* Induction and recursion over the positions 0 .. n, in a form the        *)
(* provers can use: no lemma takes an operator as a parameter.  Induction  *)
(* is on membership of a set, by way of its least counterexample; a        *)
(* recursion is given by a function of the previous value and the          *)
(* position.                                                               *)
(***************************************************************************)
EXTENDS Integers, Sums, WellFoundedInduction, TLAPS

\* A set of natural numbers that has an element has a least one.
LEMMA LeastNatural ==
  ASSUME NEW T \in SUBSET Nat, T # {}
  PROVE  \E x \in T : \A y \in T : x <= y
<1>1. PICK x \in T : \A y \in T : <<y, x>> \notin OpToRel(<, Nat)
  BY NatLessThanWellFounded, WFMin, Zenon
<1>2. \A y \in T : ~(y < x)
  BY <1>1 DEF OpToRel
<1>3. QED
  BY <1>2

\* What holds at position 0 and is handed on from each position to the next one
\* holds at all positions.
LEMMA UpTo ==
  ASSUME NEW n \in Nat, NEW S, 0 \in S, \A i \in 1 .. n : i - 1 \in S => i \in S
  PROVE  \A i \in 0 .. n : i \in S
<1> DEFINE T == {i \in 0 .. n : i \notin S}
<1>1. SUFFICES ASSUME T # {} PROVE FALSE
  OBVIOUS
<1>2. PICK i \in T : \A k \in T : i <= k
  <2>1. T \in SUBSET Nat
    OBVIOUS
  <2> HIDE DEF T
  <2>2. QED
    BY <1>1, <2>1, LeastNatural
<1>3. i # 0 /\ i \in 0 .. n
  BY <1>2
<1>4. i \in 1 .. n /\ i - 1 \in 0 .. n /\ ~(i <= i - 1)
  BY <1>3
<1>5. QED
  BY <1>2, <1>4

\* A value for position 0 and a step from each position to the next one give a
\* function on all positions.
StepFunctions(A, n) == [A \X (1 .. n) -> A]

Unrolls(f, A, base, n, step) ==
  f \in [0 .. n -> A] /\ f[0] = base /\ \A i \in 1 .. n : f[i] = step[<<f[i - 1], i>>]

LEMMA Recursion ==
  ASSUME NEW A, NEW base \in A, NEW n \in Nat, NEW step \in StepFunctions(A, n)
  PROVE  \E f : Unrolls(f, A, base, n, step)
<1> DEFINE Good(f, m) == f[0] = base /\ \A i \in 1 .. m : f[i] = step[<<f[i - 1], i>>]
           T == {m \in 0 .. n : ~ \E f \in [0 .. m -> A] : Good(f, m)}
<1>1. T = {}
  <2>1. SUFFICES ASSUME T # {} PROVE FALSE
    OBVIOUS
  <2>2. PICK m \in T : \A k \in T : m <= k
    <3>1. T \in SUBSET Nat
      OBVIOUS
    <3> HIDE DEF T
    <3>2. QED
      BY <2>1, <3>1, LeastNatural
  <2>3. m # 0
    <3>1. [k \in 0 .. 0 |-> base] \in [0 .. 0 -> A] /\ Good([k \in 0 .. 0 |-> base], 0)
      OBVIOUS
    <3>2. QED
      BY <2>2, <3>1
  <2>4. m \in 1 .. n /\ m - 1 \in 0 .. n /\ m - 1 \notin T
    <3>1. m \in 0 .. n
      OBVIOUS
    <3>2. m \in 1 .. n /\ m - 1 \in 0 .. n /\ ~(m <= m - 1)
      BY <2>3, <3>1
    <3> HIDE DEF T
    <3>3. QED
      BY <2>2, <3>2
  <2>5. PICK f \in [0 .. m - 1 -> A] : Good(f, m - 1)
    BY <2>4
  <2> DEFINE g == [k \in 0 .. m |-> IF k = m THEN step[<<f[m - 1], m>>] ELSE f[k]]
  <2>6. g \in [0 .. m -> A]
    BY <2>4, <2>5 DEF StepFunctions
  <2>7. Good(g, m)
    <3>1. g[0] = base
      BY <2>4, <2>5
    <3>2. ASSUME NEW i \in 1 .. m PROVE g[i] = step[<<g[i - 1], i>>]
      <4>1. g[i - 1] = f[i - 1]
        BY <2>4
      <4>2. CASE i = m
        <5>1. g[m] = step[<<f[m - 1], m>>]
          BY <2>4
        <5> HIDE DEF g
        <5>2. QED
          BY <4>1, <4>2, <5>1
      <4>3. CASE i # m
        <5>1. i \in 1 .. m - 1 /\ g[i] = f[i]
          BY <2>4, <4>3
        <5> HIDE DEF g
        <5>2. QED
          BY <2>5, <4>1, <5>1
      <4>4. QED
        BY <4>2, <4>3
    <3> HIDE DEF g
    <3>3. QED
      BY <3>1, <3>2
  <2>8. QED
    BY <2>2, <2>6, <2>7
<1>2. n \notin T
  BY <1>1
<1>3. QED
  BY <1>2 DEF Unrolls

-----------------------------------------------------------------------------
(* Sums of sizes.                                                          *)

SumsRule(f, size, n) ==
  [i \in 0 .. n |-> IF i = 0 THEN 0 ELSE f[i - 1] + size[i]]

IsSums(F, size, n) ==
  F \in [0 .. n -> Nat] /\ F[0] = 0 /\ \A i \in 1 .. n : F[i] = F[i - 1] + size[i]

LEMMA SumsExist ==
  ASSUME NEW n \in Nat, NEW size, \A i \in 1 .. n : size[i] \in Nat
  PROVE  \E f : f = SumsRule(f, size, n)
<1> DEFINE step == [x \in Nat \X (1 .. n) |-> x[1] + size[x[2]]]
<1>1. step \in StepFunctions(Nat, n)
  BY DEF StepFunctions
<1>2. PICK f : Unrolls(f, Nat, 0, n, step)
  <2> HIDE DEF step
  <2>1. QED
    BY <1>1, Recursion
<1>3. \A i \in 1 .. n : f[i] = f[i - 1] + size[i]
  <2>1. TAKE i \in 1 .. n
  <2>2. f[i - 1] \in Nat
    BY <1>2 DEF Unrolls
  <2>3. step[<<f[i - 1], i>>] = f[i - 1] + size[i]
    BY <2>2
  <2> HIDE DEF step
  <2>4. QED
    BY <1>2, <2>3 DEF Unrolls
<1>4. f = SumsRule(f, size, n)
  <2> HIDE DEF step
  <2>1. QED
    BY <1>2, <1>3 DEF Unrolls, SumsRule
<1>5. QED
  BY <1>4

LEMMA SumsEquation ==
  ASSUME NEW n \in Nat, NEW size, \A i \in 1 .. n : size[i] \in Nat
  PROVE  IsSums(Sums(size, n), size, n)
<1> DEFINE F == Sums(size, n)
<1>1. F = SumsRule(F, size, n)
  <2>1. F = CHOOSE f : f = SumsRule(f, size, n)
    BY DEF Sums, SumsRule
  <2> HIDE DEF F
  <2>2. QED
    BY <2>1, SumsExist, Zenon
<1> HIDE DEF F
<1>2. F[0] = 0 /\ \A i \in 1 .. n : F[i] = F[i - 1] + size[i]
  <2>1. ASSUME NEW i \in 0 .. n
        PROVE  SumsRule(F, size, n)[i] = IF i = 0 THEN 0 ELSE F[i - 1] + size[i]
    BY DEF SumsRule
  <2>2. \A i \in 0 .. n : F[i] = IF i = 0 THEN 0 ELSE F[i - 1] + size[i]
    BY <1>1, <2>1
  <2>3. 0 \in 0 .. n /\ \A i \in 1 .. n : i \in 0 .. n /\ i # 0
    OBVIOUS
  <2>4. QED
    BY <2>2, <2>3
<1>3. \A i \in 0 .. n : F[i] \in Nat
  <2> DEFINE S == {i \in 0 .. n : F[i] \in Nat}
  <2>1. 0 \in S /\ \A i \in 1 .. n : i - 1 \in S => i \in S
    BY <1>2
  <2>2. \A i \in 0 .. n : i \in S
    <3> HIDE DEF S
    <3>1. QED
      BY <2>1, UpTo
  <2>3. QED
    BY <2>2
<1>4. F \in [0 .. n -> Nat]
  BY <1>1, <1>3 DEF SumsRule
<1>5. QED
  BY <1>2, <1>4 DEF IsSums, F

\* Sums never fall.
LEMMA SumsGrow ==
  ASSUME NEW n \in Nat, NEW size, NEW F, IsSums(F, size, n),
         \A i \in 1 .. n : size[i] \in Nat,
         NEW a \in 0 .. n
  PROVE  \A b \in 0 .. n : a <= b => F[a] <= F[b]
<1> DEFINE S == {b \in 0 .. n : a <= b => F[a] <= F[b]}
<1>1. 0 \in S
  BY DEF IsSums
<1>2. ASSUME NEW b \in 1 .. n, b - 1 \in S PROVE b \in S
  <2>1. F[b] = F[b - 1] + size[b] /\ F[b - 1] \in Nat /\ size[b] \in Nat /\ F[a] \in Nat
    BY DEF IsSums
  <2>2. CASE a = b
    BY <2>1, <2>2
  <2>3. CASE a # b
    BY <1>2, <2>1, <2>3
  <2>4. QED
    BY <2>2, <2>3
<1>3. \A b \in 0 .. n : b \in S
  <2> HIDE DEF S
  <2>1. QED
    BY <1>1, <1>2, UpTo
<1>4. QED
  BY <1>3
=============================================================================
