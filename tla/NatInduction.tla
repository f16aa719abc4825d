---------------------------- MODULE NatInduction ----------------------------
(***************************************************************************)
(* Induction over the natural numbers, and functions defined by recursion  *)
(* on them, stated about sets and functions instead of operators, so that  *)
(* they can be cited like any other lemma: a property of numbers is the    *)
(* set of the numbers that have it.  That the numbers are well ordered is  *)
(* taken from the finite sets 0..n, which strict inclusion orders well     *)
(* (FiniteSetTheorems).                                                    *)
(*                                                                         *)
(* The proofs of the modules whose definitions recurse over a sequence     *)
(* rest on these lemmas; nothing in this module is about the program.      *)
(***************************************************************************)
EXTENDS FiniteSetTheorems, FiniteSetsExt, SequenceTheorems, TLAPS

\* A nonempty set of natural numbers has a least element.
LEMMA LeastNatural ==
  ASSUME NEW T, T \subseteq Nat, T # {}
  PROVE  \E x \in T : \A y \in T : x <= y
<1> DEFINE Downs == {0..x : x \in T}
<1>1. IsWellFoundedOn(StrictSubsetOrdering(Nat), FiniteSubsetsOf(Nat))
  BY FS_StrictSubsetOrderingWellFounded
<1>2. Downs \subseteq FiniteSubsetsOf(Nat)
  <2> SUFFICES ASSUME NEW x \in T PROVE 0..x \in FiniteSubsetsOf(Nat)
    OBVIOUS
  <2>1. x \in Nat
    OBVIOUS
  <2>2. IsFiniteSet(0..x)
    BY <2>1, FS_Interval
  <2> QED BY <2>1, <2>2 DEF FiniteSubsetsOf
<1>3. Downs # {}
  OBVIOUS
<1> HIDE DEF Downs
<1>4. \E D \in Downs : \A E \in Downs : ~ (<<E, D>> \in StrictSubsetOrdering(Nat))
  BY <1>1, <1>2, <1>3, WFMin
<1>5. PICK D \in Downs : \A E \in Downs : ~ (<<E, D>> \in StrictSubsetOrdering(Nat))
  BY <1>4
<1>6. PICK x \in T : D = 0..x
  BY <1>5 DEF Downs
<1>7. ASSUME NEW y \in T PROVE x <= y
  <2>1. x \in Nat /\ y \in Nat
    OBVIOUS
  <2>2. 0..y \in Downs
    BY DEF Downs
  <2>3. ~(<<0..y, 0..x>> \in StrictSubsetOrdering(Nat))
    BY <1>5, <1>6, <2>2
  <2>4. <<0..y, 0..x>> \in (SUBSET Nat) \X (SUBSET Nat)
    BY <2>1
  <2>5. ~(0..y \subseteq 0..x /\ 0..y # 0..x)
    BY <2>3, <2>4 DEF StrictSubsetOrdering
  <2>6. y < x => 0..y \subseteq 0..x /\ x \in 0..x /\ x \notin 0..y
    BY <2>1
  <2> QED BY <2>1, <2>5, <2>6
<1> QED BY <1>7

\* Induction: a set that has 0, and with a number its successor, has them all.
LEMMA NatSetInduction ==
  ASSUME NEW H, 0 \in H, \A n \in Nat : n \in H => n + 1 \in H
  PROVE  Nat \subseteq H
<1> DEFINE T == {n \in Nat : n \notin H}
<1> SUFFICES ASSUME T # {} PROVE FALSE
  OBVIOUS
<1>1. T \subseteq Nat
  OBVIOUS
<1>2. PICK x \in T : \A y \in T : x <= y
  BY <1>1, LeastNatural
<1>3. x \in Nat /\ x # 0
  OBVIOUS
<1>4. x - 1 \in Nat /\ ~(x <= x - 1) /\ (x - 1) + 1 = x
  BY <1>3
<1>5. x - 1 \in H
  BY <1>2, <1>4
<1> QED BY <1>4, <1>5

\* The start of a function on the numbers: the values at 0..n.
RecursesTo(h, n, S, a, d) ==
  /\ h \in [0..n -> S]
  /\ h[0] = a
  /\ \A i \in 1..n : h[i] = d[i][h[i - 1]]

\* Two starts of the function agree where both are defined.
LEMMA StartsAgree ==
  ASSUME NEW S, NEW a, NEW d, NEW m \in Nat, NEW n \in Nat, NEW g, NEW h,
         RecursesTo(g, m, S, a, d), RecursesTo(h, n, S, a, d)
  PROVE  \A i \in 0..m : i \in 0..n => g[i] = h[i]
<1> DEFINE H == {i \in Nat : i \in 0..m /\ i \in 0..n => g[i] = h[i]}
<1>1. 0 \in H
  BY DEF RecursesTo
<1>2. ASSUME NEW i \in Nat, i \in H PROVE i + 1 \in H
  <2> SUFFICES ASSUME i + 1 \in 0..m, i + 1 \in 0..n PROVE g[i + 1] = h[i + 1]
    OBVIOUS
  <2>1. i \in 0..m /\ i \in 0..n /\ i + 1 \in 1..m /\ i + 1 \in 1..n /\ (i + 1) - 1 = i
    OBVIOUS
  <2>2. g[i] = h[i]
    BY <1>2, <2>1
  <2>3. g[i + 1] = d[i + 1][g[i]] /\ h[i + 1] = d[i + 1][h[i]]
    BY <2>1 DEF RecursesTo
  <2> QED BY <2>2, <2>3
<1>3. Nat \subseteq H
  <2> HIDE DEF H
  <2> QED BY <1>1, <1>2, NatSetInduction
<1> QED BY <1>3

\* f starts with a, and d[n] takes its value before n to that at n.
Recurses(f, S, a, d) ==
  /\ f \in [Nat -> S]
  /\ f[0] = a
  /\ \A n \in Nat \ {0} : f[n] = d[n][f[n - 1]]

\* Recursion: for a first value and functions that give the next ones there is a
\* function on the numbers that has these values.
LEMMA NatRecursion ==
  ASSUME NEW S, NEW a \in S, NEW d \in [Nat -> [S -> S]]
  PROVE  \E f : Recurses(f, S, a, d)
<1> DEFINE H == {n \in Nat : \E h : RecursesTo(h, n, S, a, d)}
<1>1. 0 \in H
  <2>1. RecursesTo([i \in 0..0 |-> a], 0, S, a, d)
    BY DEF RecursesTo
  <2> QED BY <2>1
<1>2. ASSUME NEW n \in Nat, n \in H PROVE n + 1 \in H
  <2>1. PICK h : RecursesTo(h, n, S, a, d)
    BY <1>2
  <2> DEFINE g == [i \in 0..(n + 1) |-> IF i = n + 1 THEN d[n + 1][h[n]] ELSE h[i]]
  <2>2. h[n] \in S /\ d[n + 1][h[n]] \in S
    <3>1. h[n] \in S
      BY <2>1 DEF RecursesTo
    <3> QED BY <3>1
  <2>3. g \in [0..(n + 1) -> S]
    <3> SUFFICES ASSUME NEW i \in 0..(n + 1), i # n + 1 PROVE h[i] \in S
      BY <2>2
    <3>1. i \in 0..n
      OBVIOUS
    <3> QED BY <2>1, <3>1 DEF RecursesTo
  <2>4. g[0] = a
    <3>1. 0 \in 0..(n + 1) /\ 0 # n + 1
      OBVIOUS
    <3>2. g[0] = h[0]
      BY <3>1
    <3> QED BY <3>2, <2>1 DEF RecursesTo
  <2>5. ASSUME NEW i \in 1..(n + 1) PROVE g[i] = d[i][g[i - 1]]
    <3>1. i \in 0..(n + 1) /\ i - 1 \in 0..(n + 1) /\ i - 1 # n + 1 /\ i \in Nat
      OBVIOUS
    <3>2. g[i - 1] = h[i - 1]
      BY <3>1
    <3>3. CASE i = n + 1
      <4>1. g[i] = d[n + 1][h[n]] /\ i - 1 = n
        BY <3>1, <3>3
      <4> QED BY <3>2, <3>3, <4>1
    <3>4. CASE i # n + 1
      <4>1. g[i] = h[i]
        BY <3>1, <3>4
      <4>2. i \in 1..n
        BY <3>4
      <4>3. h[i] = d[i][h[i - 1]]
        BY <2>1, <4>2 DEF RecursesTo
      <4> QED BY <3>2, <4>1, <4>3
    <3> QED BY <3>3, <3>4
  <2> HIDE DEF g
  <2>6. RecursesTo(g, n + 1, S, a, d)
    BY <2>3, <2>4, <2>5 DEF RecursesTo
  <2> QED BY <2>6
<1>3. Nat \subseteq H
  <2> HIDE DEF H
  <2> QED BY <1>1, <1>2, NatSetInduction
<1> DEFINE start == [n \in Nat |-> CHOOSE h : RecursesTo(h, n, S, a, d)]
<1>4. \A n \in Nat : RecursesTo(start[n], n, S, a, d)
  <2> TAKE n \in Nat
  <2>1. \E h : RecursesTo(h, n, S, a, d)
    BY <1>3
  <2>2. RecursesTo(CHOOSE h : RecursesTo(h, n, S, a, d), n, S, a, d)
    BY <2>1
  <2> QED BY <2>2
<1> HIDE DEF start
<1> DEFINE f == [n \in Nat |-> start[n][n]]
<1>5. f \in [Nat -> S]
  <2> SUFFICES ASSUME NEW n \in Nat PROVE start[n][n] \in S
    OBVIOUS
  <2>1. n \in 0..n
    OBVIOUS
  <2> QED BY <1>4, <2>1 DEF RecursesTo
<1>6. f[0] = a
  BY <1>4 DEF RecursesTo
<1>7. ASSUME NEW n \in Nat \ {0} PROVE f[n] = d[n][f[n - 1]]
  <2>1. n \in Nat /\ n - 1 \in Nat /\ n \in 1..n /\ n - 1 \in 0..(n - 1) /\ n - 1 \in 0..n
    OBVIOUS
  <2>2. f[n] = start[n][n] /\ f[n - 1] = start[n - 1][n - 1]
    BY <2>1
  <2>3. start[n][n] = d[n][start[n][n - 1]]
    BY <1>4, <2>1 DEF RecursesTo
  <2>4. start[n - 1][n - 1] = start[n][n - 1]
    <3>1. PICK m \in Nat : m = n - 1
      BY <2>1
    <3>2. PICK g, h : g = start[m] /\ h = start[n]
      OBVIOUS
    <3>3. RecursesTo(g, m, S, a, d) /\ RecursesTo(h, n, S, a, d)
      BY <1>4, <2>1, <3>2
    <3>4. \A i \in 0..m : i \in 0..n => g[i] = h[i]
      BY <2>1, <3>3, StartsAgree
    <3>5. m \in 0..m /\ m \in 0..n
      BY <3>1
    <3> QED BY <3>1, <3>2, <3>4, <3>5
  <2> QED BY <2>2, <2>3, <2>4
<1> HIDE DEF f
<1> QED BY <1>5, <1>6, <1>7 DEF Recurses

-----------------------------------------------------------------------------
(* Going through a sequence.  What a fold over a sequence is can be said    *)
(* without an operator as a parameter once the step is a function, and then *)
(* these lemmas are about all folds.                                        *)

\* h has what became of a before the first item of s and after every item.
Runs(h, op, a, s) ==
  /\ h[0] = a
  /\ \A i \in 1..Len(s) : h[i] = op[s[i]][h[i - 1]]
Through(op, a, s) == (CHOOSE h : Runs(h, op, a, s))[Len(s)]

\* h is a run of n items that stays in S.
RunTo(h, n, S, op, a, s) ==
  h \in [0..n -> S] /\ Runs(h, op, a, s) /\ Through(op, a, s) = h[n]

\* Every run agrees with one that stays in S.
LEMMA RunsAgree ==
  ASSUME NEW op, NEW a, NEW s, NEW n \in Nat, n = Len(s), NEW h, Runs(h, op, a, s),
         NEW g, Runs(g, op, a, s)
  PROVE  \A i \in 0..n : h[i] = g[i]
<1> DEFINE H == {i \in Nat : i <= n => h[i] = g[i]}
<1>1. 0 \in H
  BY DEF Runs, RunTo
<1>2. ASSUME NEW i \in Nat, i \in H PROVE i + 1 \in H
  <2> SUFFICES ASSUME i + 1 <= n PROVE h[i + 1] = g[i + 1]
    OBVIOUS
  <2>1. i + 1 \in 1..n /\ (i + 1) - 1 = i /\ i <= n
    OBVIOUS
  <2>2. h[i] = g[i]
    BY <1>2, <2>1
  <2>3. h[i + 1] = op[s[i + 1]][h[i]] /\ g[i + 1] = op[s[i + 1]][g[i]]
    BY <2>1 DEF Runs, RunTo
  <2> QED BY <2>2, <2>3
<1>3. Nat \subseteq H
  <2> HIDE DEF H
  <2> QED BY <1>1, <1>2, NatSetInduction
<1> QED BY <1>3

\* There is a run in S, and it ends where the sequence leads.
LEMMA ThroughRuns ==
  ASSUME NEW T, NEW S, NEW op \in [T -> [S -> S]], NEW a \in S, NEW s \in Seq(T),
         NEW n \in Nat, n = Len(s)
  PROVE  \E h : RunTo(h, n, S, op, a, s)
<1>1. \A i \in 1..n : s[i] \in T
  BY ElementOfSeq
<1> DEFINE d == [i \in Nat |-> IF i \in 1..n THEN op[s[i]] ELSE [x \in S |-> x]]
<1>2. d \in [Nat -> [S -> S]]
  BY <1>1
<1>3. PICK f : Recurses(f, S, a, d)
  <2> HIDE DEF d
  <2> QED BY <1>2, NatRecursion
<1>4. PICK h : h = [i \in 0..n |-> f[i]]
  OBVIOUS
<1>5. h \in [0..n -> S]
  BY <1>3, <1>4 DEF Recurses
<1>6. Runs(h, op, a, s)
  <2>1. h[0] = a
    BY <1>3, <1>4 DEF Recurses
  <2>2. ASSUME NEW i \in 1..n PROVE h[i] = op[s[i]][h[i - 1]]
    <3>1. i \in 0..n /\ i - 1 \in 0..n /\ i \in Nat \ {0}
      OBVIOUS
    <3>2. f[i] = d[i][f[i - 1]]
      BY <1>3, <3>1 DEF Recurses
    <3>3. d[i] = op[s[i]]
      BY <3>1
    <3> QED BY <1>4, <3>1, <3>2, <3>3
  <2> QED BY <2>1, <2>2 DEF Runs, RunTo
<1>7. PICK g : g = CHOOSE r : Runs(r, op, a, s)
  OBVIOUS
<1>8. Runs(g, op, a, s)
  BY <1>6, <1>7
<1>9. g[n] = h[n]
  <2>1. n \in 0..n
    OBVIOUS
  <2>2. \A i \in 0..n : g[i] = h[i]
    BY <1>6, <1>8, RunsAgree
  <2> QED BY <2>1, <2>2
<1>10. Through(op, a, s) = h[n]
  BY <1>7, <1>9 DEF Through
<1> QED BY <1>5, <1>6, <1>10 DEF RunTo

\* So does any other run.
LEMMA ThroughIs ==
  ASSUME NEW op, NEW a, NEW s, NEW n \in Nat, n = Len(s), NEW h, Runs(h, op, a, s)
  PROVE  Through(op, a, s) = h[n]
<1>1. PICK g : g = CHOOSE r : Runs(r, op, a, s)
  OBVIOUS
<1>2. Runs(g, op, a, s)
  BY <1>1
<1>3. g[n] = h[n]
  <2>1. n \in 0..n
    OBVIOUS
  <2>2. \A i \in 0..n : g[i] = h[i]
    BY <1>2, RunsAgree
  <2> QED BY <2>1, <2>2
<1> QED BY <1>1, <1>3 DEF Through

LEMMA ThroughEmpty ==
  ASSUME NEW op, NEW a
  PROVE  Through(op, a, <<>>) = a
<1>1. PICK s \in Seq({}) : s = <<>> /\ Len(s) = 0
  <2>1. <<>> \in Seq({}) /\ Len(<<>>) = 0
    OBVIOUS
  <2> QED BY <2>1
<1>2. PICK h : h = [i \in {0} |-> a]
  OBVIOUS
<1>3. Runs(h, op, a, s)
  <2>1. 1..Len(s) = {}
    BY <1>1
  <2> QED BY <1>2, <2>1 DEF Runs, RunTo
<1>4. Through(op, a, s) = h[0]
  BY <1>1, <1>3, ThroughIs
<1> QED BY <1>1, <1>2, <1>4

\* The items of s, then those of t.
LEMMA ThroughConcat ==
  ASSUME NEW T, NEW S, NEW op \in [T -> [S -> S]], NEW a \in S, NEW s \in Seq(T),
         NEW t \in Seq(T)
  PROVE  /\ Through(op, a, s) \in S
         /\ Through(op, a, s \o t) = Through(op, Through(op, a, s), t)
<1>1. PICK n \in Nat, m \in Nat : n = Len(s) /\ m = Len(t)
  BY LenProperties
<1>2. PICK u \in Seq(T) : u = s \o t
  BY ConcatProperties
<1>3. /\ Len(u) = n + m
      /\ \A i \in 1..(n + m) : u[i] = IF i <= n THEN s[i] ELSE t[i - n]
  BY <1>1, <1>2, ConcatProperties
<1>4. PICK b : b = Through(op, a, s)
  OBVIOUS
<1>5. PICK h : RunTo(h, n, S, op, a, s)
  BY <1>1, <1>4, ThroughRuns
<1>6. b \in S
  <2>1. n \in 0..n
    OBVIOUS
  <2> QED BY <1>4, <1>5, <2>1 DEF RunTo
<1>7. PICK g : RunTo(g, m, S, op, b, t)
  BY <1>1, <1>6, ThroughRuns
<1>8. PICK f : f = [i \in 0..(n + m) |-> IF i <= n THEN h[i] ELSE g[i - n]]
  OBVIOUS
<1>9. Runs(f, op, a, u)
  <2>1. f[0] = a
    BY <1>5, <1>8 DEF Runs, RunTo
  <2>2. ASSUME NEW i \in 1..(n + m) PROVE f[i] = op[u[i]][f[i - 1]]
    <3>1. i \in 0..(n + m) /\ i - 1 \in 0..(n + m) /\ i \in Nat
      OBVIOUS
    <3>2. CASE i <= n
      <4>1. i \in 1..n /\ i - 1 <= n
        BY <3>1, <3>2
      <4>2. h[i] = op[s[i]][h[i - 1]]
        BY <1>1, <1>5, <4>1 DEF Runs, RunTo
      <4>3. f[i] = h[i] /\ f[i - 1] = h[i - 1] /\ u[i] = s[i]
        BY <1>3, <1>8, <3>1, <3>2, <4>1
      <4> QED BY <4>2, <4>3
    <3>3. CASE ~(i <= n)
      <4>1. PICK j : j = i - n
        OBVIOUS
      <4>2. j \in 1..m /\ (i - 1) - n = j - 1
        BY <3>1, <3>3, <4>1
      <4>3. g[j] = op[t[j]][g[j - 1]]
        BY <1>1, <1>7, <4>2 DEF Runs, RunTo
      <4>4. f[i] = g[j] /\ u[i] = t[j]
        BY <1>3, <1>8, <3>1, <3>3, <4>1
      <4>5. f[i - 1] = g[j - 1]
        <5>1. CASE i - 1 = n
          <6>1. j - 1 = 0 /\ g[0] = b /\ f[i - 1] = h[n]
            BY <1>7, <1>8, <3>1, <4>2, <5>1 DEF Runs, RunTo
          <6> QED BY <1>4, <1>5, <6>1 DEF RunTo
        <5>2. CASE i - 1 # n
          <6>1. ~(i - 1 <= n)
            BY <3>1, <3>3, <5>2
          <6> QED BY <1>8, <3>1, <4>2, <6>1
        <5> QED BY <5>1, <5>2
      <4> QED BY <4>3, <4>4, <4>5
    <3> QED BY <3>2, <3>3
  <2> QED BY <1>3, <2>1, <2>2 DEF Runs, RunTo
<1>10. Through(op, a, u) = f[n + m]
  BY <1>3, <1>9, ThroughIs
<1>11. f[n + m] = g[m]
  <2>1. CASE m = 0
    <3>1. g[0] = b
      BY <1>7 DEF Runs, RunTo
    <3> QED BY <1>4, <1>5, <1>8, <2>1, <3>1 DEF RunTo
  <2>2. CASE m # 0
    <3>1. ~(n + m <= n) /\ (n + m) - n = m /\ n + m \in 0..(n + m)
      BY <2>2
    <3> QED BY <1>8, <3>1
  <2> QED BY <2>1, <2>2
<1> QED BY <1>2, <1>4, <1>6, <1>7, <1>10, <1>11 DEF RunTo

\* They lead nowhere out of S.
LEMMA ThroughStays ==
  ASSUME NEW T, NEW S, NEW op \in [T -> [S -> S]], NEW a \in S, NEW s \in Seq(T)
  PROVE  Through(op, a, s) \in S
  BY ThroughConcat

\* One more item.
LEMMA ThroughAppend ==
  ASSUME NEW T, NEW S, NEW op \in [T -> [S -> S]], NEW a \in S, NEW s \in Seq(T),
         NEW x \in T
  PROVE  /\ Through(op, a, s) \in S
         /\ Through(op, a, Append(s, x)) = op[x][Through(op, a, s)]
<1>1. PICK b \in S : b = Through(op, a, s)
  BY ThroughConcat
<1>2. PICK t \in Seq(T) : t = <<x>> /\ Len(t) = 1 /\ t[1] = x
  <2>1. <<x>> \in Seq(T) /\ Len(<<x>>) = 1 /\ <<x>>[1] = x
    OBVIOUS
  <2> QED BY <2>1
<1>3. Append(s, x) = s \o t
  BY <1>2, AppendIsConcat
<1>4. Through(op, a, s \o t) = Through(op, b, t)
  BY <1>1, ThroughConcat
<1>5. PICK h : RunTo(h, 1, S, op, b, t)
  <2>1. \E h : RunTo(h, 1, S, op, b, t)
    BY <1>1, <1>2, ThroughRuns
  <2> QED BY <2>1
<1>6. h[1] = op[x][b]
  <2>1. 1 \in 1..1 /\ 1 - 1 = 0
    OBVIOUS
  <2>2. h[0] = b /\ h[1] = op[t[1]][h[0]]
    BY <1>2, <1>5, <2>1 DEF Runs, RunTo
  <2> QED BY <1>2, <2>2
<1> QED BY <1>1, <1>3, <1>4, <1>5, <1>6 DEF RunTo

\* Two functions take what R relates to what it relates, for the same item.
Related(R, T, op1, op2) ==
  \A x \in T : \A d, v : <<d, v>> \in R => <<op1[x][d], op2[x][v]>> \in R

\* The same items lead from what R relates to what it relates.
LEMMA ThroughBoth ==
  ASSUME NEW T, NEW S1, NEW op1 \in [T -> [S1 -> S1]], NEW S2, NEW op2 \in [T -> [S2 -> S2]],
         NEW a \in S1, NEW b \in S2, NEW R, <<a, b>> \in R, Related(R, T, op1, op2),
         NEW s \in Seq(T)
  PROVE  <<Through(op1, a, s), Through(op2, b, s)>> \in R
<1>1. PICK n \in Nat : n = Len(s)
  BY LenProperties
<1>2. PICK h : RunTo(h, n, S1, op1, a, s)
  BY <1>1, ThroughRuns
<1>3. PICK g : RunTo(g, n, S2, op2, b, s)
  BY <1>1, ThroughRuns
<1> DEFINE H == {i \in Nat : i <= n => <<h[i], g[i]>> \in R}
<1>4. 0 \in H
  BY <1>2, <1>3 DEF Runs, RunTo
<1>5. ASSUME NEW i \in Nat, i \in H PROVE i + 1 \in H
  <2> SUFFICES ASSUME i + 1 <= n PROVE <<h[i + 1], g[i + 1]>> \in R
    OBVIOUS
  <2>1. i + 1 \in 1..n /\ (i + 1) - 1 = i /\ i <= n
    OBVIOUS
  <2>2. <<h[i], g[i]>> \in R
    BY <1>5, <2>1
  <2>3. s[i + 1] \in T
    BY <1>1, <2>1, ElementOfSeq
  <2>4. h[i + 1] = op1[s[i + 1]][h[i]] /\ g[i + 1] = op2[s[i + 1]][g[i]]
    BY <1>1, <1>2, <1>3, <2>1 DEF Runs, RunTo
  <2>5. <<op1[s[i + 1]][h[i]], op2[s[i + 1]][g[i]]>> \in R
    BY <2>2, <2>3 DEF Related
  <2> QED BY <2>4, <2>5
<1>6. Nat \subseteq H
  <2> HIDE DEF H
  <2> QED BY <1>4, <1>5, NatSetInduction
<1> QED BY <1>2, <1>3, <1>6 DEF RunTo

\* The items lead nowhere out of G.
LEMMA ThroughKeeps ==
  ASSUME NEW T, NEW S, NEW op \in [T -> [S -> S]], NEW a \in S, NEW G, a \in G,
         \A x \in T : \A d \in S : d \in G => op[x][d] \in G, NEW s \in Seq(T)
  PROVE  Through(op, a, s) \in G
<1>1. PICK n \in Nat : n = Len(s)
  BY LenProperties
<1>2. PICK h : RunTo(h, n, S, op, a, s)
  BY <1>1, ThroughRuns
<1> DEFINE H == {i \in Nat : i <= n => h[i] \in G}
<1>4. 0 \in H
  BY <1>2 DEF Runs, RunTo
<1>5. ASSUME NEW i \in Nat, i \in H PROVE i + 1 \in H
  <2> SUFFICES ASSUME i + 1 <= n PROVE h[i + 1] \in G
    OBVIOUS
  <2>1. i + 1 \in 1..n /\ (i + 1) - 1 = i /\ i <= n /\ i \in 0..n
    OBVIOUS
  <2>2. h[i] \in G /\ h[i] \in S
    BY <1>2, <1>5, <2>1 DEF RunTo
  <2>3. s[i + 1] \in T
    BY <1>1, <2>1, ElementOfSeq
  <2>4. h[i + 1] = op[s[i + 1]][h[i]]
    BY <1>1, <1>2, <2>1 DEF Runs, RunTo
  <2> QED BY <2>2, <2>3, <2>4
<1>6. Nat \subseteq H
  <2> HIDE DEF H
  <2> QED BY <1>4, <1>5, NatSetInduction
<1> QED BY <1>2, <1>6 DEF RunTo

-----------------------------------------------------------------------------
(* Folds of a sequence (Folds, SequencesExt): they are functions on the      *)
(* sets of places, defined by recursion over their greatest elements.        *)

\* A nonempty set of places has a greatest one.
LEMMA MaxOf ==
  ASSUME NEW n \in Nat, NEW s \in SUBSET (1..n), s # {}
  PROVE  Max(s) \in s /\ \A y \in s : y <= Max(s)
<1> DEFINE T == {x \in Nat : \A y \in s : y <= x}
<1>1. n \in T
  OBVIOUS
<1>2. PICK x \in T : \A z \in T : x <= z
  BY <1>1, LeastNatural
<1>3. x \in s
  <2> SUFFICES ASSUME x \notin s PROVE FALSE
    OBVIOUS
  <2>1. PICK y \in s : TRUE
    OBVIOUS
  <2>2. x \in Nat /\ y \in Nat /\ 1 <= y /\ y <= x
    BY <1>2
  <2>3. x - 1 \in Nat /\ ~(x <= x - 1)
    BY <2>2
  <2>4. \A z \in s : z <= x - 1
    <3> TAKE z \in s
    <3>1. z \in Nat /\ z <= x /\ z # x
      BY <1>2
    <3> QED BY <2>2, <3>1
  <2>5. x - 1 \in T
    BY <2>3, <2>4
  <2> QED BY <1>2, <2>3, <2>5
<1>4. \A y \in s : x >= y
  BY <1>2
<1>5. \E z \in s : \A y \in s : z >= y
  BY <1>3, <1>4
<1>6. Max(s) \in s /\ \A y \in s : Max(s) >= y
  BY <1>5 DEF Max
<1> QED BY <1>6

\* The steps at the places of s; elsewhere nothing happens.
StepsAt(s, S, d) == [k \in Nat |-> IF k \in s THEN d[k] ELSE [x \in S |-> x]]

\* Behind the last place of s nothing happens.
LEMMA NothingBehind ==
  ASSUME NEW S, NEW a, NEW d, NEW s, NEW f, Recurses(f, S, a, StepsAt(s, S, d)),
         NEW m \in Nat, \A y \in s : y \in Nat /\ y <= m
  PROVE  \A k \in Nat : m <= k => f[k] = f[m]
<1> DEFINE H == {k \in Nat : m <= k => f[k] = f[m]}
<1>1. 0 \in H
  OBVIOUS
<1>2. ASSUME NEW k \in Nat, k \in H PROVE k + 1 \in H
  <2>1. CASE m <= k
    <3>1. k + 1 \in Nat \ {0} /\ (k + 1) - 1 = k /\ k + 1 \notin s
      BY <2>1
    <3>2. f[k] \in S /\ f[k + 1] = StepsAt(s, S, d)[k + 1][f[k]]
      <4>1. \A j \in Nat \ {0} : f[j] = StepsAt(s, S, d)[j][f[j - 1]]
        BY DEF Recurses
      <4>2. f[k] \in S
        BY DEF Recurses
      <4> QED BY <3>1, <4>1, <4>2
    <3>3. StepsAt(s, S, d)[k + 1] = [x \in S |-> x]
      BY <3>1 DEF StepsAt
    <3> QED BY <1>2, <2>1, <3>2, <3>3
  <2>2. CASE ~(m <= k)
    <3>1. m <= k + 1 => k + 1 = m
      BY <2>2
    <3> QED BY <3>1
  <2> QED BY <2>1, <2>2
<1>3. Nat \subseteq H
  <2> HIDE DEF H
  <2> QED BY <1>1, <1>2, NatSetInduction
<1> QED BY <1>3

\* Up to a place, only the places of s up to it count.
LEMMA SameUpTo ==
  ASSUME NEW S, NEW a, NEW d, NEW s, NEW t, NEW f, NEW g,
         Recurses(f, S, a, StepsAt(s, S, d)), Recurses(g, S, a, StepsAt(t, S, d)),
         NEW m \in Nat, \A k \in 1..m : k \in s <=> k \in t
  PROVE  f[m] = g[m]
<1> DEFINE H == {k \in Nat : k <= m => f[k] = g[k]}
<1>1. 0 \in H
  BY DEF Recurses
<1>2. ASSUME NEW k \in Nat, k \in H PROVE k + 1 \in H
  <2> SUFFICES ASSUME k + 1 <= m PROVE f[k + 1] = g[k + 1]
    OBVIOUS
  <2>1. k + 1 \in Nat \ {0} /\ (k + 1) - 1 = k /\ k + 1 \in 1..m /\ k <= m
    OBVIOUS
  <2>2. f[k + 1] = StepsAt(s, S, d)[k + 1][f[k]]
    <3>1. \A j \in Nat \ {0} : f[j] = StepsAt(s, S, d)[j][f[j - 1]]
      BY DEF Recurses
    <3> QED BY <2>1, <3>1
  <2>3. g[k + 1] = StepsAt(t, S, d)[k + 1][g[k]]
    <3>1. \A j \in Nat \ {0} : g[j] = StepsAt(t, S, d)[j][g[j - 1]]
      BY DEF Recurses
    <3> QED BY <2>1, <3>1
  <2>4. StepsAt(s, S, d)[k + 1] = StepsAt(t, S, d)[k + 1]
    BY <2>1 DEF StepsAt
  <2> QED BY <1>2, <2>1, <2>2, <2>3, <2>4
<1>3. Nat \subseteq H
  <2> HIDE DEF H
  <2> QED BY <1>1, <1>2, NatSetInduction
<1> QED BY <1>3

\* it[s] is the result of the steps at the places of s, in their order.
FoldOf(it, n, S, a, d) ==
  /\ it \in [SUBSET (1..n) -> S]
  /\ \A s \in SUBSET (1..n) :
       it[s] = IF s = {} THEN a ELSE d[Max(s)][it[s \ {Max(s)}]]

\* The function that a fold is a value of exists.
LEMMA FoldExists ==
  ASSUME NEW n \in Nat, NEW S, NEW a \in S, NEW d \in [1..n -> [S -> S]]
  PROVE  \E it : FoldOf(it, n, S, a, d)
<1> DEFINE run == [s \in SUBSET (1..n) |-> CHOOSE f : Recurses(f, S, a, StepsAt(s, S, d))]
<1>1. ASSUME NEW s \in SUBSET (1..n) PROVE Recurses(run[s], S, a, StepsAt(s, S, d))
  <2>1. StepsAt(s, S, d) \in [Nat -> [S -> S]]
    BY DEF StepsAt
  <2>2. \E f : Recurses(f, S, a, StepsAt(s, S, d))
    BY <2>1, NatRecursion
  <2>3. Recurses(CHOOSE f : Recurses(f, S, a, StepsAt(s, S, d)), S, a, StepsAt(s, S, d))
    BY <2>2
  <2> QED BY <2>3
<1> HIDE DEF run
<1> DEFINE it == [s \in SUBSET (1..n) |-> run[s][n]]
<1>2. it \in [SUBSET (1..n) -> S]
  BY <1>1 DEF Recurses
<1>3. ASSUME NEW s \in SUBSET (1..n)
      PROVE  it[s] = IF s = {} THEN a ELSE d[Max(s)][it[s \ {Max(s)}]]
  <2>1. CASE s = {}
    <3>1. PICK f : f = run[s]
      OBVIOUS
    <3>2. Recurses(f, S, a, StepsAt(s, S, d))
      BY <1>1, <3>1
    <3>3. \A k \in Nat : 0 <= k => f[k] = f[0]
      BY <2>1, <3>2, NothingBehind
    <3>4. f[n] = a
      BY <3>2, <3>3 DEF Recurses
    <3> QED BY <2>1, <3>1, <3>4
  <2>2. CASE s # {}
    <3>1. PICK m : m = Max(s)
      OBVIOUS
    <3>2. m \in s /\ m \in 1..n /\ m - 1 \in Nat /\ m \in Nat \ {0} /\ \A y \in s : y <= m
      <4>1. Max(s) \in s /\ \A y \in s : y <= Max(s)
        BY <2>2, MaxOf
      <4>2. m \in 1..n
        BY <3>1, <4>1
      <4> QED BY <3>1, <4>1, <4>2
    <3>3. PICK t : t = s \ {m}
      OBVIOUS
    <3>4. t \in SUBSET (1..n)
      BY <3>3
    <3>5. PICK f, g : f = run[s] /\ g = run[t]
      OBVIOUS
    <3>6. Recurses(f, S, a, StepsAt(s, S, d)) /\ Recurses(g, S, a, StepsAt(t, S, d))
      BY <1>1, <3>4, <3>5
    <3>7. f[n] = f[m]
      <4>1. \A y \in s : y \in Nat /\ y <= m
        BY <3>2
      <4>2. PICK u, e : u = s /\ e = m
        OBVIOUS
      <4>3. e \in Nat /\ \A y \in u : y \in Nat /\ y <= e
        BY <3>2, <4>1, <4>2
      <4>4. Recurses(f, S, a, StepsAt(u, S, d))
        BY <3>6, <4>2
      <4>5. \A k \in Nat : e <= k => f[k] = f[e]
        BY <4>3, <4>4, NothingBehind
      <4>6. m <= n
        BY <3>2
      <4> QED BY <4>2, <4>5, <4>6
    <3>8. g[n] = g[m - 1]
      <4>1. \A y \in t : y \in Nat /\ y <= m - 1
        <5> TAKE y \in t
        <5>1. y \in Nat /\ y <= m /\ y # m
          BY <3>2, <3>3
        <5> QED BY <3>2, <5>1
      <4>2. \A k \in Nat : m - 1 <= k => g[k] = g[m - 1]
        BY <3>2, <3>6, <4>1, NothingBehind
      <4>3. m - 1 <= n
        BY <3>2
      <4> QED BY <4>2, <4>3
    <3>9. f[m - 1] = g[m - 1]
      <4>1. \A k \in 1..(m - 1) : k \in s <=> k \in t
        BY <3>2, <3>3
      <4> QED BY <3>2, <3>6, <4>1, SameUpTo
    <3>10. f[m] = d[m][f[m - 1]]
      <4>1. f[m] = StepsAt(s, S, d)[m][f[m - 1]]
        BY <3>2, <3>6 DEF Recurses
      <4>2. StepsAt(s, S, d)[m] = d[m]
        BY <3>2 DEF StepsAt
      <4> QED BY <4>1, <4>2
    <3>11. it[s] = f[n] /\ it[t] = g[n]
      BY <3>4, <3>5
    <3>12. it[s] = d[m][it[t]]
      BY <3>7, <3>8, <3>9, <3>10, <3>11
    <3> HIDE DEF it
    <3> QED BY <2>2, <3>1, <3>3, <3>12
  <2> QED BY <2>1, <2>2
<1> HIDE DEF it
<1>4. FoldOf(it, n, S, a, d)
  BY <1>2, <1>3 DEF FoldOf
<1> QED BY <1>4

\* it[s] is the result of the steps at the places of s, in their order.
FoldAlong(it, n, S, op, a, s) ==
  /\ it \in [SUBSET (1..n) -> S]
  /\ \A p \in SUBSET (1..n) :
       it[p] = IF p = {} THEN a ELSE op[s[Max(p)]][it[p \ {Max(p)}]]

\* The same, known only where the result so far is in S.
StepsAlong(it, n, S, op, a, s) ==
  /\ it[{}] = a
  /\ \A p \in SUBSET (1..n) : p # {} /\ it[p \ {Max(p)}] \in S
                               => it[p] = op[s[Max(p)]][it[p \ {Max(p)}]]

\* A fold is a value of such a function: it exists.
LEMMA AlongExists ==
  ASSUME NEW T, NEW S, NEW op \in [T -> [S -> S]], NEW a \in S, NEW s \in Seq(T),
         NEW n \in Nat, n = Len(s)
  PROVE  \E it : FoldAlong(it, n, S, op, a, s)
<1>1. PICK d : d = [k \in 1..n |-> op[s[k]]]
  OBVIOUS
<1>2. d \in [1..n -> [S -> S]]
  BY <1>1, ElementOfSeq
<1>3. PICK it : FoldOf(it, n, S, a, d)
  BY <1>2, FoldExists
<1>4. ASSUME NEW p \in SUBSET (1..n)
      PROVE  it[p] = IF p = {} THEN a ELSE op[s[Max(p)]][it[p \ {Max(p)}]]
  <2>1. CASE p # {}
    <3>1. Max(p) \in 1..n
      BY <2>1, MaxOf
    <3> QED BY <1>1, <1>3, <2>1, <3>1 DEF FoldOf
  <2> QED BY <1>3, <2>1 DEF FoldOf
<1> QED BY <1>3, <1>4 DEF FoldOf, FoldAlong

\* And it leads where the sequence leads.
LEMMA AlongLeads ==
  ASSUME NEW T, NEW S, NEW op \in [T -> [S -> S]], NEW a \in S, NEW s \in Seq(T),
         NEW n \in Nat, n = Len(s), NEW it, StepsAlong(it, n, S, op, a, s)
  PROVE  it[1..n] = Through(op, a, s)
<1> USE DEF StepsAlong
<1>1. ASSUME NEW k \in 0..n, k + 1 <= n, it[1..k] \in S
      PROVE  it[1..(k + 1)] = op[s[k + 1]][it[1..k]] /\ it[1..(k + 1)] \in S
  <2>1. PICK p : p = 1..(k + 1)
    OBVIOUS
  <2>2. p \in SUBSET (1..n) /\ k + 1 \in p
    BY <1>1, <2>1
  <2>3. Max(p) \in p /\ \A y \in p : y <= Max(p)
    BY <2>2, MaxOf
  <2>4. Max(p) = k + 1
    <3>1. PICK x : x = Max(p)
      OBVIOUS
    <3>2. x \in 1..(k + 1) /\ k + 1 <= x
      BY <2>1, <2>2, <2>3, <3>1
    <3> QED BY <3>1, <3>2
  <2>5. p \ {Max(p)} = 1..k
    BY <2>1, <2>4
  <2>6. it[p] = op[s[k + 1]][it[1..k]]
    BY <1>1, <2>2, <2>4, <2>5
  <2>7. op[s[k + 1]] \in [S -> S]
    BY <1>1, ElementOfSeq
  <2> QED BY <1>1, <2>1, <2>6, <2>7
<1> DEFINE H == {k \in Nat : k <= n => it[1..k] \in S}
<1>2. it[1..0] = a
  <2>1. 1..0 = {}
    OBVIOUS
  <2> QED BY <2>1
<1>3. 0 \in H
  BY <1>2
<1>4. ASSUME NEW k \in Nat, k \in H PROVE k + 1 \in H
  BY <1>1, <1>4
<1>5. \A k \in 0..n : it[1..k] \in S
  <2>1. Nat \subseteq H
    <3> HIDE DEF H
    <3> QED BY <1>3, <1>4, NatSetInduction
  <2> QED BY <2>1
<1>6. PICK h : h = [i \in 0..n |-> it[1..i]]
  OBVIOUS
<1>7. Runs(h, op, a, s)
  <2>1. h[0] = a
    BY <1>2, <1>6
  <2>2. ASSUME NEW i \in 1..n PROVE h[i] = op[s[i]][h[i - 1]]
    <3>1. i \in 0..n /\ i - 1 \in 0..n /\ (i - 1) + 1 = i /\ i <= n
      OBVIOUS
    <3>2. it[1..i] = op[s[i]][it[1..(i - 1)]]
      BY <1>1, <1>5, <3>1
    <3> QED BY <1>6, <3>1, <3>2
  <2> QED BY <2>1, <2>2 DEF Runs
<1>8. h[n] = it[1..n]
  BY <1>6
<1> QED BY <1>7, <1>8, ThroughIs

\* A set that has the empty sequence, and with a sequence every longer one, has all.
LEMMA SeqSetInduction ==
  ASSUME NEW T, NEW S, <<>> \in S,
         \A s \in Seq(T) : s \in S => \A e \in T : Append(s, e) \in S
  PROVE  Seq(T) \subseteq S
<1> DEFINE H == {n \in Nat : \A s \in Seq(T) : Len(s) = n => s \in S}
<1>1. 0 \in H
  BY EmptySeq
<1>2. ASSUME NEW n \in Nat, n \in H PROVE n + 1 \in H
  <2> SUFFICES ASSUME NEW s \in Seq(T), Len(s) = n + 1 PROVE s \in S
    OBVIOUS
  <2>1. PICK t \in Seq(T), e \in T : s = Append(t, e)
    <3>1. s # <<>>
      BY EmptySeq
    <3> QED BY <3>1, SequenceEmptyOrAppend
  <2>2. Len(t) = n
    BY <2>1, AppendProperties, LenProperties
  <2> QED BY <1>2, <2>1, <2>2
<1>3. Nat \subseteq H
  <2> HIDE DEF H
  <2> QED BY <1>1, <1>2, NatSetInduction
<1>4. ASSUME NEW s \in Seq(T) PROVE s \in S
  <2>1. PICK n \in Nat : n = Len(s)
    BY LenProperties
  <2> QED BY <1>3, <2>1
<1> QED BY <1>4

\* One item.
LEMMA ThroughOne ==
  ASSUME NEW T, NEW S, NEW op \in [T -> [S -> S]], NEW a \in S, NEW x \in T
  PROVE  Through(op, a, <<x>>) = op[x][a]
<1>1. PICK s \in Seq(T) : s = <<>>
  <2>1. <<>> \in Seq(T)
    OBVIOUS
  <2> QED BY <2>1
<1>2. Through(op, a, Append(s, x)) = op[x][Through(op, a, s)]
  BY ThroughAppend
<1>3. Append(s, x) = <<x>>
  BY <1>1
<1>4. Through(op, a, s) = a
  BY <1>1, ThroughEmpty
<1> QED BY <1>2, <1>3, <1>4
=============================================================================
