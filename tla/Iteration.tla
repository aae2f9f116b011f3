------------------------------ MODULE Iteration ------------------------------
(***************************************************************************)
(* Loops: a recursive function that starts from base and takes one more    *)
(* step for each number is there, and what its steps keep holds at its     *)
(* end.  A module that has such a loop instantiates this one with the      *)
(* loop's step and with what it keeps; c is what the loop leaves alone.    *)
(***************************************************************************)
EXTENDS Integers, WellFoundedInduction, TLAPS

CONSTANTS
  Step(_, _, _),   \* Step(c, d, i): what round i makes of d
  Good(_, _, _)    \* Good(c, d, i): what holds of d after round i

Next(c, base, g, i) == IF i = 0 THEN base ELSE Step(c, g[i - 1], i)

IsRun(c, base, g, n) == g = [i \in 0 .. n |-> Next(c, base, g, i)]

Unfolds(c, base, g, n) ==
  g[0] = base /\ \A i \in 1 .. n: g[i] = Step(c, g[i - 1], i)

\* Of some numbers one is the least.
LEMMA LeastIsThere ==
  ASSUME NEW S, S \subseteq Nat, S # {}
  PROVE  \E x \in S: \A y \in S: x <= y
<1>1. PICK x \in S: \A y \in S: ~(<<y, x>> \in OpToRel(<, Nat))
  BY NatLessThanWellFounded, WFMin
<1>2. ASSUME NEW y \in S
      PROVE  x <= y
  <2>1. x \in Nat /\ y \in Nat
    OBVIOUS
  <2>2. ~(y < x)
    BY <1>1, <2>1 DEF OpToRel
  <2>. QED
    BY <2>1, <2>2
<1>. QED
  BY <1>2

\* A loop of any number of rounds can be run.
LEMMA RunExists ==
  ASSUME NEW N \in Nat, NEW c, NEW base
  PROVE  \E g: IsRun(c, base, g, N)
<1>. DEFINE Bad == {n \in 0 .. N: \A g: ~IsRun(c, base, g, n)}
<1>1. ASSUME NEW n \in 0 .. N, n # 0, NEW g, IsRun(c, base, g, n - 1)
      PROVE  \E h: IsRun(c, base, h, n)
  <2>. DEFINE x == Step(c, g[n - 1], n)
              h == [i \in 0 .. n |-> IF i = n THEN x ELSE g[i]]
  <2>1. n \in Nat /\ n - 1 \in 0 .. n
    BY <1>1
  <2>2. \A i \in 0 .. n - 1: h[i] = g[i] /\ g[i] = Next(c, base, g, i)
    BY <1>1, <2>1 DEF IsRun
  <2>3. h[n] = Step(c, h[n - 1], n)
    BY <1>1, <2>1
  <2>4. h = [i \in 0 .. n |-> h[i]]
    OBVIOUS
  <2>. HIDE DEF h
  <2>5. ASSUME NEW i \in 0 .. n
        PROVE  h[i] = Next(c, base, h, i)
    <3>1. CASE i = n
      BY <1>1, <2>3, <3>1 DEF Next
    <3>2. CASE i # n
      <4>1. i \in 0 .. n - 1 /\ (i # 0 => i - 1 \in 0 .. n - 1)
        BY <2>1, <3>2
      <4>. QED
        BY <2>2, <4>1 DEF Next
    <3>. QED
      BY <3>1, <3>2
  <2>6. IsRun(c, base, h, n)
    BY <2>4, <2>5 DEF IsRun
  <2>. QED
    BY <2>6
<1>2. \E g: IsRun(c, base, g, 0)
  <2>. DEFINE g == [i \in 0 .. 0 |-> base]
  <2>1. \A i \in 0 .. 0: Next(c, base, g, i) = base
    BY DEF Next
  <2>2. IsRun(c, base, g, 0)
    BY <2>1 DEF IsRun
  <2>. QED
    BY <2>2
<1>3. Bad \subseteq Nat
  OBVIOUS
<1>4. \A n \in 0 .. N: n \notin Bad => \E g: IsRun(c, base, g, n)
  OBVIOUS
<1>5. \A n \in Bad: n \in 0 .. N /\ ~\E g: IsRun(c, base, g, n)
  OBVIOUS
<1>. HIDE DEF Bad
<1>6. ASSUME Bad # {}
      PROVE  FALSE
  <2>1. PICK n \in Bad: \A m \in Bad: n <= m
    BY <1>3, <1>6, LeastIsThere
  <2>2. n \in 0 .. N /\ n # 0
    BY <1>2, <1>5
  <2>3. n - 1 \in 0 .. N /\ n - 1 \notin Bad
    BY <2>1, <2>2
  <2>4. PICK g: IsRun(c, base, g, n - 1)
    BY <1>4, <2>3
  <2>. QED
    BY <1>1, <1>5, <2>2, <2>4
<1>. QED
  BY <1>4, <1>6

\* The loop starts from base, and takes its step in every round.
THEOREM LoopUnfolds ==
  ASSUME NEW N \in Nat, NEW c, NEW base, NEW f,
         f = CHOOSE g: g = [i \in 0 .. N |-> IF i = 0 THEN base
                                             ELSE Step(c, g[i - 1], i)]
  PROVE  Unfolds(c, base, f, N)
<1>1. IsRun(c, base, f, N)
  <2>1. f = CHOOSE g: IsRun(c, base, g, N)
    BY DEF IsRun, Next
  <2>. QED
    BY <2>1, RunExists
<1>2. \A i \in 0 .. N: f[i] = Next(c, base, f, i)
  BY <1>1 DEF IsRun
<1>3. 0 \in 0 .. N /\ \A i \in 1 .. N: i \in 0 .. N /\ i # 0
  OBVIOUS
<1>. QED
  BY <1>2, <1>3 DEF Next, Unfolds

\* What every round keeps holds after the last one.
THEOREM LoopKeeps ==
  ASSUME NEW N \in Nat, NEW c, NEW base, NEW f,
         f = CHOOSE g: g = [i \in 0 .. N |-> IF i = 0 THEN base
                                             ELSE Step(c, g[i - 1], i)],
         Good(c, base, 0),
         \A i \in 1 .. N: \A d: Good(c, d, i - 1) => Good(c, Step(c, d, i), i)
  PROVE  Good(c, f[N], N)
<1>1. f[0] = base /\ \A i \in 1 .. N: f[i] = Step(c, f[i - 1], i)
  <2>1. Unfolds(c, base, f, N)
    BY LoopUnfolds
  <2>. QED
    BY <2>1 DEF Unfolds
<1>. DEFINE Bad == {i \in 0 .. N: ~Good(c, f[i], i)}
<1>3. Bad \subseteq Nat /\ \A i \in 0 .. N: i \in Bad \/ Good(c, f[i], i)
  OBVIOUS
<1>4. \A i \in Bad: i \in 0 .. N /\ ~Good(c, f[i], i)
  OBVIOUS
<1>. HIDE DEF Bad
<1>5. ASSUME Bad # {}
      PROVE  FALSE
  <2>1. PICK i \in Bad: \A j \in Bad: i <= j
    BY <1>3, <1>5, LeastIsThere
  <2>2. i # 0
    BY <1>1, <1>4
  <2>3. i \in 1 .. N /\ i - 1 \in 0 .. N /\ i - 1 \notin Bad
    <3>1. i \in 0 .. N
      BY <1>4
    <3>2. i \in Nat /\ i - 1 \in 0 .. N /\ i \in 1 .. N /\ ~(i <= i - 1)
      BY <2>2, <3>1
    <3>. QED
      BY <2>1, <3>2
  <2>4. Good(c, f[i - 1], i - 1)
    BY <1>3, <2>3
  <2>5. f[i] = Step(c, f[i - 1], i)
    BY <1>1, <2>3
  <2>. QED
    BY <1>4, <2>3, <2>4, <2>5
<1>. QED
  BY <1>3, <1>5
=============================================================================
