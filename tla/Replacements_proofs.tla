------------------------- MODULE Replacements_proofs ------------------------
(***************************************************************************)
(* Proofs about Replacements, for any tokens, corrections, dictionaries    *)
(* and number of calls.                                                    *)
(*                                                                         *)
(* That a stored pair comes from the user is a statement about the         *)
(* function Led, which recurses over the calls; LedUnfolds gets its        *)
(* equation from NatRecursion, and LedGrows that a further call leaves the *)
(* earlier values as they were, by induction.  The property is inductive   *)
(* as it stands once the types are known.                                  *)
(*                                                                         *)
(* That a chain of two calls is learnt is not: the second call must find   *)
(* the first one in prev_mis_repl_ and prev_cor_repl_.  PendingInv says so *)
(* of the last call, whatever happened to the session in between; it needs *)
(* that prev_cor_repl_ is always the correction of some call.              *)
(***************************************************************************)
EXTENDS Replacements, NatInduction

Distinct(list) == \A i, j \in DOMAIN list : list[i] = list[j] => i = j

-----------------------------------------------------------------------------
(* The list of add_repl.                                                    *)

\* Appending adds the appended element to the elements, and nothing else.
LEMMA ElementsOfAppend ==
  ASSUME NEW S, NEW list \in Seq(S), NEW x \in S
  PROVE  /\ Append(list, x) \in Seq(S)
         /\ Elements(Append(list, x)) = Elements(list) \cup {x}
         /\ x \notin Elements(list) /\ Distinct(list) => Distinct(Append(list, x))
<1> DEFINE more == Append(list, x)
<1>1. /\ more \in Seq(S)
      /\ Len(more) = Len(list) + 1 /\ Len(list) \in Nat
      /\ DOMAIN list = 1..Len(list) /\ DOMAIN more = 1..(Len(list) + 1)
      /\ \A i \in 1..Len(list) : more[i] = list[i]
      /\ more[Len(list) + 1] = x
  OBVIOUS
<1> HIDE DEF more
<1>2. Elements(more) = Elements(list) \cup {x}
  <2>1. ASSUME NEW i \in DOMAIN more PROVE more[i] \in Elements(list) \cup {x}
    <3>1. CASE i = Len(list) + 1
      BY <1>1, <3>1
    <3>2. CASE i # Len(list) + 1
      <4>1. i \in 1..Len(list)
        BY <1>1, <3>2
      <4> QED BY <1>1, <4>1 DEF Elements
    <3> QED BY <3>1, <3>2
  <2>2. ASSUME NEW i \in DOMAIN list PROVE list[i] \in Elements(more)
    <3>1. i \in DOMAIN more /\ more[i] = list[i]
      BY <1>1
    <3> QED BY <3>1 DEF Elements
  <2>3. x \in Elements(more)
    <3>1. Len(list) + 1 \in DOMAIN more
      BY <1>1
    <3> QED BY <1>1, <3>1 DEF Elements
  <2> QED BY <2>1, <2>2, <2>3 DEF Elements
<1>3. ASSUME x \notin Elements(list), Distinct(list) PROVE Distinct(more)
  <2> SUFFICES ASSUME NEW i \in DOMAIN more, NEW j \in DOMAIN more, more[i] = more[j]
               PROVE  i = j
    BY DEF Distinct
  <2>1. \A k \in 1..Len(list) : more[k] # x
    BY <1>1, <1>3 DEF Elements
  <2>2. (i \in 1..Len(list) \/ i = Len(list) + 1) /\ (j \in 1..Len(list) \/ j = Len(list) + 1)
    BY <1>1
  <2>3. CASE i \in 1..Len(list) /\ j \in 1..Len(list)
    BY <1>1, <1>3, <2>3 DEF Distinct
  <2> QED BY <1>1, <2>1, <2>2, <2>3
<1> QED BY <1>1, <1>2, <1>3 DEF more

\* What AddUnlessOffered does to the elements: the pair is among them afterwards
\* unless it was offered, and no pair is there twice.
LEMMA AddedOnce ==
  ASSUME NEW list \in Seq(Pairs), Distinct(list), NEW pair \in Pairs, NEW known
  PROVE  LET after == AddUnlessOffered(list, pair, known)
         IN  /\ after \in Seq(Pairs)
             /\ Distinct(after)
             /\ Elements(list) \subseteq Elements(after)
             /\ Elements(after) \subseteq Elements(list) \cup {pair}
             /\ pair \in Elements(after) \cup known
<1>1. CASE pair \in known
  BY <1>1 DEF AddUnlessOffered
<1>2. CASE pair \notin known /\ pair \in Elements(list)
  BY <1>2 DEF AddUnlessOffered, AddRepl
<1>3. CASE pair \notin known /\ pair \notin Elements(list)
  <2>1. AddUnlessOffered(list, pair, known) = Append(list, pair)
    BY <1>3 DEF AddUnlessOffered, AddRepl
  <2> QED BY <1>3, <2>1, ElementsOfAppend
<1> QED BY <1>1, <1>2, <1>3

\* The inputs are texts; a misspelling is not blank, and a blank text is correct.
LEMMA TextFacts ==
  /\ Misspellings \subseteq Texts
  /\ Blank \notin Misspellings
  /\ Blank \in Texts
  /\ Corrections \subseteq Texts
  /\ Correct(Blank)
<1>1. Correct(Blank)
  BY DEF Correct, Blank
<1>2. Blank \notin Misspellings
  BY DEF Blank, Misspellings
<1> QED BY <1>1, <1>2, InputAssumption DEF Texts

\* A pair of typed halves is a pair, and has these halves.
LEMMA PairFacts ==
  ASSUME NEW mis \in Misspellings, NEW cor \in Texts
  PROVE  Pair(mis, cor) \in Pairs /\ Pair(mis, cor).mis = mis /\ Pair(mis, cor).cor = cor
BY DEF Pair, Pairs

-----------------------------------------------------------------------------
(* What one call does.                                                      *)

\* A correct replacement stores, or leaves to suggest(), the pair and, if the
\* misspelling is what was typed last, the pair of the chain's start; it stores
\* nothing else and keeps what was stored.
LEMMA WhatIsStored ==
  ASSUME TypeOK, NEW mis \in Misspellings, NEW cor \in Texts, StoreCorrect(mis, cor)
  PROVE  LET chain == IF prevCor = mis THEN {Pair(prevMis, cor)} ELSE {}
         IN  /\ repls' \in Seq(Pairs) /\ Distinct(repls')
             /\ offered' \subseteq Pairs
             /\ Elements(repls) \subseteq Elements(repls')
             /\ offered \subseteq offered'
             /\ Elements(repls') \subseteq Elements(repls) \cup {Pair(mis, cor)} \cup chain
             /\ {Pair(mis, cor)} \cup chain \subseteq Elements(repls') \cup offered'
<1> DEFINE one == Pair(mis, cor)
           two == Pair(prevMis, cor)
           pairs == ToLearn(mis, cor)
<1>0. repls \in Seq(Pairs) /\ Distinct(repls) /\ offered \subseteq Pairs
  BY DEF TypeOK, Distinct
<1>1. one \in Pairs
  BY PairFacts
<1>2. ASSUME prevCor = mis PROVE two \in Pairs
  <2>1. prevMis \in Misspellings
    BY <1>2, TextFacts DEF TypeOK
  <2> QED BY <2>1, PairFacts
<1>3. CASE prevCor = mis
  <2>1. pairs = <<one, two>>
    BY <1>3 DEF ToLearn
  <2>2. Len(pairs) # 1 /\ pairs[1] = one /\ pairs[2] = two /\ Elements(pairs) = {one, two}
    BY <2>1 DEF Elements
  <2> HIDE DEF pairs, one, two
  <2>3. PICK known \in SUBSET {one, two} :
           /\ repls' = AddUnlessOffered(AddUnlessOffered(repls, one, known), two, known)
           /\ offered' = offered \cup known
    BY <2>2 DEF StoreCorrect, pairs
  <2> DEFINE first == AddUnlessOffered(repls, one, known)
  <2>4. /\ first \in Seq(Pairs) /\ Distinct(first)
        /\ Elements(repls) \subseteq Elements(first)
        /\ Elements(first) \subseteq Elements(repls) \cup {one}
        /\ one \in Elements(first) \cup known
    BY <1>0, <1>1, AddedOnce
  <2> HIDE DEF first
  <2>5. repls' = AddUnlessOffered(first, two, known)
    BY <2>3 DEF first
  <2>6. /\ repls' \in Seq(Pairs) /\ Distinct(repls')
        /\ Elements(first) \subseteq Elements(repls')
        /\ Elements(repls') \subseteq Elements(first) \cup {two}
        /\ two \in Elements(repls') \cup known
    BY <1>2, <1>3, <2>4, <2>5, AddedOnce
  <2> QED BY <1>0, <1>1, <1>2, <1>3, <2>3, <2>4, <2>6 DEF one, two
<1>4. CASE prevCor # mis
  <2>1. pairs = <<one>>
    BY <1>4 DEF ToLearn
  <2>2. Len(pairs) = 1 /\ pairs[1] = one /\ Elements(pairs) = {one}
    BY <2>1 DEF Elements
  <2> HIDE DEF pairs, one
  <2>3. PICK known \in SUBSET {one} : /\ repls' = AddUnlessOffered(repls, one, known)
                                      /\ offered' = offered \cup known
    BY <2>2 DEF StoreCorrect, pairs
  <2>4. /\ repls' \in Seq(Pairs) /\ Distinct(repls')
        /\ Elements(repls) \subseteq Elements(repls')
        /\ Elements(repls') \subseteq Elements(repls) \cup {one}
        /\ one \in Elements(repls') \cup known
    BY <1>0, <1>1, <2>3, AddedOnce
  <2> QED BY <1>0, <1>1, <1>4, <2>3, <2>4 DEF one
<1> QED BY <1>3, <1>4

Call == [pair : Pairs, correct : BOOLEAN]

\* A call is appended to the history, which keeps the earlier ones.
LEMMA CallIsRecorded ==
  ASSUME TypeOK, NEW mis \in Misspellings, NEW cor \in Texts, StoreReplacement(mis, cor)
  PROVE  /\ calls \in Seq(Call) /\ calls' \in Seq(Call)
         /\ Len(calls) \in Nat /\ Len(calls') = Len(calls) + 1
         /\ DOMAIN calls = 1..Len(calls) /\ DOMAIN calls' = 1..(Len(calls) + 1)
         /\ \A i \in 1..Len(calls) : calls'[i] = calls[i]
         /\ calls'[Len(calls) + 1].pair = Pair(mis, cor)
         /\ calls'[Len(calls) + 1].correct = Correct(cor)
<1> DEFINE c == [pair |-> Pair(mis, cor), correct |-> Correct(cor)]
<1>1. Correct(cor) \in BOOLEAN
  BY DEF Correct
<1>2. c \in Call /\ c.pair = Pair(mis, cor) /\ c.correct = Correct(cor)
  BY <1>1, PairFacts DEF Call
<1>3. calls \in Seq(Call)
  BY DEF TypeOK, Call
<1>4. calls' = Append(calls, c)
  BY DEF StoreReplacement
<1> HIDE DEF c
<1> QED BY <1>2, <1>3, <1>4

-----------------------------------------------------------------------------
(* Types.                                                                   *)

LEMMA InitTypeOK == Init => TypeOK
<1> SUFFICES ASSUME Init PROVE TypeOK
  OBVIOUS
<1>1. repls \in Seq(Pairs) /\ \A i, j \in DOMAIN repls : repls[i] = repls[j] => i = j
  BY DEF Init
<1>2. calls \in Seq([pair : Pairs, correct : BOOLEAN])
  BY DEF Init
<1>3. prevMis \in Misspellings \cup {Blank} /\ prevCor \in Texts
      /\ (prevMis = Blank <=> prevCor = Blank)
  BY TextFacts DEF Init
<1> QED BY <1>1, <1>2, <1>3 DEF Init, TypeOK

\* Every call leaves the memory well typed.
LEMMA TypeOKStep == TypeOK /\ [Next]_vars => TypeOK'
<1> SUFFICES ASSUME TypeOK, [Next]_vars PROVE TypeOK'
  OBVIOUS
<1>1. ASSUME NEW mis \in Misspellings, NEW cor \in Corrections, StoreReplacement(mis, cor)
      PROVE  TypeOK'
  <2>1. cor \in Texts
    BY TextFacts
  <2>2. calls' \in Seq([pair : Pairs, correct : BOOLEAN])
    BY <1>1, <2>1, CallIsRecorded DEF Call
  <2>3. session' \subseteq Personal /\ ignoreRepl' \in BOOLEAN
    BY <1>1 DEF StoreReplacement, TypeOK
  <2>4. CASE StoreCorrect(mis, cor)
    <3>1. repls' \in Seq(Pairs) /\ Distinct(repls') /\ offered' \subseteq Pairs
      BY <2>1, <2>4, WhatIsStored
    <3>2. UNCHANGED <<prevMis, prevCor>>
      BY <2>4 DEF StoreCorrect
    <3> QED BY <2>2, <2>3, <3>1, <3>2 DEF TypeOK, Distinct
  <2>5. CASE StoreBlank(mis, cor)
    BY <2>2, <2>3, <2>5 DEF StoreBlank, TypeOK
  <2>6. CASE StoreMisspelt(mis, cor)
    <3>1. cor # Blank /\ mis # Blank
      BY <2>6, TextFacts DEF StoreMisspelt
    <3>2. prevCor' = cor /\ prevMis' = IF prevCor # mis THEN mis ELSE prevMis
      BY <2>6 DEF StoreMisspelt, ChainStart
    <3>3. /\ prevMis' \in Misspellings \cup {Blank} /\ prevCor' \in Texts
          /\ prevMis' # Blank /\ prevCor' # Blank
      BY <2>1, <3>1, <3>2 DEF TypeOK
    <3>4. UNCHANGED <<repls, offered>>
      BY <2>6 DEF StoreMisspelt
    <3> QED BY <2>2, <2>3, <3>3, <3>4 DEF TypeOK
  <2> QED BY <1>1, <2>4, <2>5, <2>6 DEF StoreReplacement
<1>2. ASSUME NEW t \in Personal, AddToSession(t) PROVE TypeOK'
  BY <1>2 DEF AddToSession, TypeOK
<1>3. CASE ClearSession
  BY <1>3 DEF ClearSession, TypeOK
<1>4. ASSUME NEW value \in BOOLEAN, SetIgnoreRepl(value) PROVE TypeOK'
  BY <1>4 DEF SetIgnoreRepl, TypeOK
<1>5. CASE UNCHANGED vars
  BY <1>5 DEF vars, TypeOK
<1> QED BY <1>1, <1>2, <1>3, <1>4, <1>5 DEF Next, StoreIgnored

-----------------------------------------------------------------------------
(* The pairs that the calls lead to.                                        *)

\* What call c adds to the pairs led so far.
Onward(led, c) ==
  led \cup {c.pair} \cup {Pair(p.mis, c.pair.cor) : p \in {q \in led : q.cor = c.pair.mis}}

\* For any calls c there is a function that satisfies the equation of Led.
LEMMA LedExists ==
  ASSUME NEW c
  PROVE  \E f : f = [n \in Nat |-> IF n = 0 THEN {} ELSE Onward(f[n - 1], c[n])]
<1> DEFINE Q == {c[n].pair : n \in Nat}
           R == {Pair(q.mis, r.cor) : q, r \in Q}
<1> HIDE DEF Q, R
<1>0. PICK S : S = SUBSET (Q \cup R)
  OBVIOUS
<1>1. PICK a \in S : a = {}
  BY <1>0
<1>2. ASSUME NEW led \in S, NEW n \in Nat PROVE Onward(led, c[n]) \in S
  <2>1. c[n].pair \in Q
    BY DEF Q
  <2>2. ASSUME NEW p \in led
        PROVE  Pair(p.mis, c[n].pair.cor) \in R
    <3>1. \E q \in Q : p.mis = q.mis
      <4>1. CASE p \in Q
        BY <4>1
      <4>2. CASE p \notin Q
        <5>1. PICK q \in Q, r \in Q : p = Pair(q.mis, r.cor)
          BY <1>0, <4>2 DEF R
        <5> QED BY <5>1 DEF Pair
      <4> QED BY <4>1, <4>2
    <3> QED BY <2>1, <3>1 DEF R
  <2> QED BY <1>0, <2>1, <2>2 DEF Onward
<1>3. PICK d : d = [n \in Nat |-> [led \in S |-> Onward(led, c[n])]]
  OBVIOUS
<1>4. d \in [Nat -> [S -> S]]
  BY <1>2, <1>3
<1>5. PICK f : Recurses(f, S, a, d)
  BY <1>4, NatRecursion
<1>6. \A n \in Nat \ {0} : f[n] = Onward(f[n - 1], c[n])
  <2> TAKE n \in Nat \ {0}
  <2>1. n - 1 \in Nat
    OBVIOUS
  <2>2. f[n - 1] \in S /\ f[n] = d[n][f[n - 1]]
    BY <1>5, <2>1 DEF Recurses
  <2>3. d[n][f[n - 1]] = Onward(f[n - 1], c[n])
    BY <1>3, <2>2
  <2> QED BY <2>2, <2>3
<1>7. f = [n \in Nat |-> IF n = 0 THEN {} ELSE Onward(f[n - 1], c[n])]
  BY <1>1, <1>5, <1>6 DEF Recurses
<1> QED BY <1>7

LedEquation ==
  /\ Led[0] = {}
  /\ \A n \in Nat \ {0} : Led[n] = Onward(Led[n - 1], calls[n])

\* Led satisfies its equation.
LEMMA LedUnfolds == LedEquation
<1> DEFINE Eq(g) == g = [n \in Nat |-> IF n = 0 THEN {} ELSE Onward(g[n - 1], calls[n])]
<1>1. \E f : Eq(f)
  BY LedExists
<1>2. Led = CHOOSE g : Eq(g)
  BY DEF Led, Onward
<1>3. Eq(Led)
  <2> HIDE DEF Eq
  <2> QED BY <1>1, <1>2
<1> QED BY <1>3 DEF LedEquation

\* A further call leaves what the earlier calls lead to, and adds to it.
LEMMA LedGrows ==
  ASSUME TypeOK, NEW mis \in Misspellings, NEW cor \in Texts, StoreReplacement(mis, cor)
  PROVE  Led'[Len(calls')]
           = LET led == Led[Len(calls)]
             IN  led \cup {Pair(mis, cor)}
                 \cup {Pair(p.mis, cor) : p \in {q \in led : q.cor = mis}}
<1>1. LedEquation /\ LedEquation'
  BY LedUnfolds, PTL
<1>2. /\ Len(calls) \in Nat /\ Len(calls') = Len(calls) + 1
      /\ \A i \in 1..Len(calls) : calls'[i] = calls[i]
      /\ calls'[Len(calls) + 1].pair = Pair(mis, cor)
  BY CallIsRecorded
<1> DEFINE H == {n \in Nat : n \in 0..Len(calls) => Led'[n] = Led[n]}
<1>3. 0 \in H
  BY <1>1 DEF LedEquation
<1>4. ASSUME NEW n \in Nat, n \in H PROVE n + 1 \in H
  <2> SUFFICES ASSUME n + 1 \in 0..Len(calls) PROVE Led'[n + 1] = Led[n + 1]
    OBVIOUS
  <2>1. n \in 0..Len(calls) /\ n + 1 \in Nat \ {0} /\ (n + 1) - 1 = n /\ n + 1 \in 1..Len(calls)
    BY <1>2
  <2>2. Led'[n] = Led[n]
    BY <1>4, <2>1
  <2>3. Led[n + 1] = Onward(Led[n], calls[n + 1]) /\ Led'[n + 1] = Onward(Led'[n], calls'[n + 1])
    BY <1>1, <2>1 DEF LedEquation
  <2>4. calls'[n + 1] = calls[n + 1]
    BY <1>2, <2>1
  <2> QED BY <2>2, <2>3, <2>4
<1>5. Nat \subseteq H
  <2> HIDE DEF H
  <2> QED BY <1>3, <1>4, NatSetInduction
<1> DEFINE n == Len(calls) + 1
<1>6. n \in Nat \ {0} /\ n - 1 = Len(calls) /\ Len(calls) \in 0..Len(calls)
  BY <1>2
<1>7. Led'[Len(calls)] = Led[Len(calls)]
  BY <1>2, <1>5, <1>6
<1>8. Led'[n] = Onward(Led'[n - 1], calls'[n])
  <2> HIDE DEF n
  <2> QED BY <1>1, <1>6 DEF LedEquation
<1>9. Led'[n] = Onward(Led[Len(calls)], calls'[n])
  BY <1>6, <1>7, <1>8
<1>10. Pair(mis, cor).mis = mis /\ Pair(mis, cor).cor = cor
  BY PairFacts
<1> QED BY <1>2, <1>9, <1>10 DEF Onward

\* Nothing is learnt at first, so all of it comes from the user.
LEMMA InitPairs == Init => PairsComeFromTheUser
<1> SUFFICES ASSUME Init PROVE PairsComeFromTheUser
  OBVIOUS
<1>1. Elements(repls) = {} /\ prevCor = Blank
  BY DEF Init, Elements
<1> QED BY <1>1 DEF PairsComeFromTheUser

\* Every step keeps what is stored, and what is pending, within what the calls
\* lead to.
LEMMA PairsStep == TypeOK /\ PairsComeFromTheUser /\ [Next]_vars => PairsComeFromTheUser'
<1> SUFFICES ASSUME TypeOK, PairsComeFromTheUser, [Next]_vars PROVE PairsComeFromTheUser'
  OBVIOUS
<1>0. PICK led : led = Led[Len(calls)]
  OBVIOUS
<1>1. Elements(repls) \subseteq led /\ (prevCor # Blank => Pair(prevMis, prevCor) \in led)
  BY <1>0 DEF PairsComeFromTheUser
<1>2. ASSUME NEW mis \in Misspellings, NEW cor \in Corrections, StoreReplacement(mis, cor)
      PROVE  PairsComeFromTheUser'
  <2>0. cor \in Texts /\ mis # Blank
    BY TextFacts
  <2>1. PICK more : more = Led'[Len(calls')]
    OBVIOUS
  <2>2. more = led \cup {Pair(mis, cor)}
                   \cup {Pair(p.mis, cor) : p \in {q \in led : q.cor = mis}}
    BY <1>0, <1>2, <2>0, <2>1, LedGrows
  <2>3. ASSUME prevCor = mis PROVE Pair(prevMis, cor) \in more
    <3>1. Pair(prevMis, prevCor) \in led
      BY <1>1, <2>0, <2>3
    <3>2. Pair(prevMis, prevCor).mis = prevMis /\ Pair(prevMis, prevCor).cor = mis
      BY <2>3 DEF Pair
    <3> QED BY <2>2, <3>1, <3>2
  <2>4. Elements(repls') \subseteq more /\ (prevCor' # Blank => Pair(prevMis', prevCor') \in more)
    <3>1. CASE StoreCorrect(mis, cor)
      <4>1. Elements(repls') \subseteq Elements(repls) \cup {Pair(mis, cor)}
               \cup (IF prevCor = mis THEN {Pair(prevMis, cor)} ELSE {})
        BY <2>0, <3>1, WhatIsStored
      <4>2. prevMis' = prevMis /\ prevCor' = prevCor
        BY <3>1 DEF StoreCorrect
      <4> QED BY <1>1, <2>2, <2>3, <4>1, <4>2
    <3>2. CASE StoreBlank(mis, cor)
      <4>1. repls' = repls /\ prevMis' = prevMis /\ prevCor' = prevCor
        BY <3>2 DEF StoreBlank
      <4> QED BY <1>1, <2>2, <4>1
    <3>3. CASE StoreMisspelt(mis, cor)
      <4>1. /\ repls' = repls /\ prevCor' = cor
            /\ prevMis' = IF prevCor # mis THEN mis ELSE prevMis
        BY <3>3 DEF StoreMisspelt, ChainStart
      <4> QED BY <1>1, <2>2, <2>3, <4>1
    <3> QED BY <1>2, <3>1, <3>2, <3>3 DEF StoreReplacement
  <2> QED BY <2>1, <2>4 DEF PairsComeFromTheUser
<1>3. ASSUME UNCHANGED <<repls, prevMis, prevCor, calls>> PROVE PairsComeFromTheUser'
  <2>1. Led' = Led
    BY <1>3 DEF Led
  <2>2. (Led[Len(calls)])' = led
    BY <1>0, <1>3, <2>1
  <2> QED BY <1>1, <1>3, <2>2 DEF PairsComeFromTheUser
<1>4. ASSUME NEW t \in Personal, AddToSession(t) PROVE PairsComeFromTheUser'
  BY <1>3, <1>4 DEF AddToSession
<1>5. CASE ClearSession
  BY <1>3, <1>5 DEF ClearSession
<1>6. ASSUME NEW value \in BOOLEAN, SetIgnoreRepl(value) PROVE PairsComeFromTheUser'
  BY <1>3, <1>6 DEF SetIgnoreRepl
<1>7. CASE UNCHANGED vars
  BY <1>3, <1>7 DEF vars
<1> QED BY <1>2, <1>4, <1>5, <1>6, <1>7 DEF Next, StoreIgnored

-----------------------------------------------------------------------------
(* The memory works.                                                        *)

\* No call before n typed the misspelling of call n.
FirstTyped(n) == \A j \in 1..(n - 1) : calls[j].pair.cor # calls[n].pair.mis

\* What is pending was typed in some call, and if the last call typed a
\* misspelling it is that call, or a chain that ends in it.
PendingInv ==
  /\ prevCor # Blank => \E j \in 1..Len(calls) : calls[j].pair.cor = prevCor
  /\ \A n \in 1..Len(calls) : n = Len(calls) /\ ~calls[n].correct =>
       /\ prevCor = calls[n].pair.cor
       /\ FirstTyped(n) => prevMis = calls[n].pair.mis

\* At first no replacement is pending.
LEMMA InitPending == Init => PendingInv
BY DEF Init, PendingInv

\* The memory always stands for the last call.
LEMMA PendingStep == TypeOK /\ PendingInv /\ [Next]_vars => PendingInv'
<1> SUFFICES ASSUME TypeOK, PendingInv, [Next]_vars PROVE PendingInv'
  OBVIOUS
<1>1. ASSUME NEW mis \in Misspellings, NEW cor \in Corrections, StoreReplacement(mis, cor)
      PROVE  PendingInv'
  <2>0. cor \in Texts
    BY TextFacts
  <2>n. PICK n : n = Len(calls) + 1
    OBVIOUS
  <2>1. /\ Len(calls) \in Nat /\ Len(calls') = n /\ n = Len(calls) + 1
        /\ \A i \in 1..Len(calls) : calls'[i] = calls[i]
        /\ calls'[n].pair = Pair(mis, cor)
        /\ calls'[n].correct = Correct(cor)
    BY <1>1, <2>0, <2>n, CallIsRecorded
  <2>2. calls'[n].pair.mis = mis /\ calls'[n].pair.cor = cor
    BY <2>0, <2>1, PairFacts
  <2>3. n \in Nat /\ n \in 1..n /\ \A i \in 1..Len(calls) : i \in 1..n
    BY <2>1
  <2>4. ASSUME prevCor' = prevCor, prevCor # Blank
        PROVE  \E j \in 1..Len(calls') : calls'[j].pair.cor = prevCor'
    BY <2>1, <2>3, <2>4 DEF PendingInv
  <2>5. CASE Correct(cor) /\ prevCor' = prevCor
    <3>1. calls'[Len(calls')].correct
      BY <2>1, <2>5
    <3> QED BY <2>4, <2>5, <3>1 DEF PendingInv
  <2>6. CASE StoreMisspelt(mis, cor)
    <3>1. prevCor' = cor /\ prevMis' = IF prevCor # mis THEN mis ELSE prevMis
      BY <2>6 DEF StoreMisspelt, ChainStart
    <3>2. \E j \in 1..Len(calls') : calls'[j].pair.cor = prevCor'
      BY <2>1, <2>2, <2>3, <3>1
    <3>3. ASSUME FirstTyped(n)' PROVE prevMis' = mis
      <4>1. \A j \in 1..(n - 1) : calls'[j].pair.cor # mis
        BY <2>2, <3>3 DEF FirstTyped
      <4>2. \A j \in 1..Len(calls) : calls[j].pair.cor # mis
        BY <2>1, <4>1
      <4>3. mis # Blank
        BY TextFacts
      <4>4. prevCor # mis
        BY <4>2, <4>3 DEF PendingInv
      <4> QED BY <3>1, <4>4
    <3>4. ASSUME NEW m \in 1..Len(calls'), m = Len(calls')
          PROVE  /\ prevCor' = calls'[m].pair.cor
                 /\ FirstTyped(m)' => prevMis' = calls'[m].pair.mis
      BY <2>1, <2>2, <3>1, <3>3, <3>4
    <3> QED BY <3>2, <3>4 DEF PendingInv
  <2>7. StoreBlank(mis, cor) => Correct(cor) /\ prevCor' = prevCor
    BY TextFacts DEF StoreBlank
  <2>8. StoreCorrect(mis, cor) => Correct(cor) /\ prevCor' = prevCor
    BY DEF StoreCorrect
  <2> QED BY <1>1, <2>5, <2>6, <2>7, <2>8 DEF StoreReplacement
<1>2. ASSUME UNCHANGED <<prevMis, prevCor, calls>> PROVE PendingInv'
  BY <1>2 DEF PendingInv, FirstTyped
<1>3. ASSUME NEW t \in Personal, AddToSession(t) PROVE PendingInv'
  BY <1>2, <1>3 DEF AddToSession
<1>4. CASE ClearSession
  BY <1>2, <1>4 DEF ClearSession
<1>5. ASSUME NEW value \in BOOLEAN, SetIgnoreRepl(value) PROVE PendingInv'
  BY <1>2, <1>5 DEF SetIgnoreRepl
<1>6. CASE UNCHANGED vars
  BY <1>2, <1>6 DEF vars
<1> QED BY <1>1, <1>3, <1>4, <1>5, <1>6 DEF Next, StoreIgnored

\* At first there are no calls, so no chain of replacements.
LEMMA InitLearnt == Init => FirstMisspellingIsLearnt
<1> SUFFICES ASSUME Init PROVE FirstMisspellingIsLearnt
  OBVIOUS
<1>1. Len(calls) = 0 /\ 1..(0 - 1) = {}
  BY DEF Init
<1> QED BY <1>1 DEF FirstMisspellingIsLearnt

\* What was learnt stays, and a correction of the last call's misspelling is learnt.
LEMMA LearntStep ==
  TypeOK /\ PendingInv /\ FirstMisspellingIsLearnt /\ [Next]_vars => FirstMisspellingIsLearnt'
<1> SUFFICES ASSUME TypeOK, PendingInv, FirstMisspellingIsLearnt, [Next]_vars
             PROVE  FirstMisspellingIsLearnt'
  OBVIOUS
<1>1. ASSUME NEW mis \in Misspellings, NEW cor \in Corrections, StoreReplacement(mis, cor)
      PROVE  FirstMisspellingIsLearnt'
  <2>0. cor \in Texts
    BY TextFacts
  <2> DEFINE n == Len(calls)
  <2>1. /\ n \in Nat /\ Len(calls') = n + 1
        /\ \A i \in 1..n : calls'[i] = calls[i]
        /\ calls'[n + 1].pair = Pair(mis, cor)
        /\ calls'[n + 1].correct = Correct(cor)
    BY <1>1, <2>0, CallIsRecorded
  <2>2. calls'[n + 1].pair.mis = mis /\ calls'[n + 1].pair.cor = cor
    BY <2>0, <2>1, PairFacts
  <2>3. Elements(repls) \cup offered \subseteq Elements(repls') \cup offered'
    <3>1. CASE StoreCorrect(mis, cor)
      BY <2>0, <3>1, WhatIsStored
    <3>2. CASE StoreBlank(mis, cor) \/ StoreMisspelt(mis, cor)
      <4>1. repls' = repls /\ offered' = offered
        BY <3>2 DEF StoreBlank, StoreMisspelt
      <4> QED BY <4>1
    <3> QED BY <1>1, <3>1, <3>2 DEF StoreReplacement
  <2> SUFFICES ASSUME NEW i \in 1..n, CorrectsTheLast(i)', FirstTyped(i)'
               PROVE  Learnt(i)'
    BY <2>1 DEF FirstMisspellingIsLearnt, FirstTyped
  <2>4. CASE i < n
    <3>1. i \in 1..(Len(calls) - 1) /\ i \in 1..n /\ i + 1 \in 1..n
          /\ \A j \in 1..(i - 1) : j \in 1..n
      BY <2>1, <2>4
    <3>2. calls'[i] = calls[i] /\ calls'[i + 1] = calls[i + 1]
          /\ \A j \in 1..(i - 1) : calls'[j] = calls[j]
      BY <2>1, <3>1
    <3>3. CorrectsTheLast(i) /\ \A j \in 1..(i - 1) : calls[j].pair.cor # calls[i].pair.mis
      BY <3>2 DEF CorrectsTheLast, FirstTyped
    <3>4. Learnt(i)
      BY <3>1, <3>3 DEF FirstMisspellingIsLearnt
    <3> QED BY <2>3, <3>2, <3>4 DEF Learnt
  <2>5. CASE i = n
    <3>1. calls'[n] = calls[n]
      BY <2>1, <2>5
    <3>2. ~calls[n].correct /\ calls[n].pair.cor = mis /\ Correct(cor) /\ cor # Blank
      BY <2>1, <2>2, <2>5, <3>1 DEF CorrectsTheLast
    <3>3. FirstTyped(n)
      <4>1. \A j \in 1..(n - 1) : j \in 1..n
        BY <2>1
      <4>2. \A j \in 1..(n - 1) : calls'[j] = calls[j]
        BY <2>1, <4>1
      <4> QED BY <2>5, <3>1, <4>2 DEF FirstTyped
    <3>4. prevCor = mis /\ prevMis = calls[n].pair.mis
      BY <2>1, <2>5, <3>2, <3>3 DEF PendingInv
    <3>5. StoreCorrect(mis, cor)
      BY <1>1, <3>2 DEF StoreReplacement, StoreBlank, StoreMisspelt
    <3>6. Pair(prevMis, cor) \in Elements(repls') \cup offered'
      BY <2>0, <3>4, <3>5, WhatIsStored
    <3>7. Pair(calls'[n].pair.mis, calls'[n + 1].pair.cor) = Pair(prevMis, cor)
      BY <2>2, <3>1, <3>4
    <3> QED BY <2>5, <3>6, <3>7 DEF Learnt
  <2> QED BY <2>1, <2>4, <2>5
<1>2. ASSUME UNCHANGED <<repls, calls, offered>> PROVE FirstMisspellingIsLearnt'
  BY <1>2 DEF FirstMisspellingIsLearnt, CorrectsTheLast, Learnt
<1>3. ASSUME NEW t \in Personal, AddToSession(t) PROVE FirstMisspellingIsLearnt'
  BY <1>2, <1>3 DEF AddToSession
<1>4. CASE ClearSession
  BY <1>2, <1>4 DEF ClearSession
<1>5. ASSUME NEW value \in BOOLEAN, SetIgnoreRepl(value) PROVE FirstMisspellingIsLearnt'
  BY <1>2, <1>5 DEF SetIgnoreRepl
<1>6. CASE UNCHANGED vars
  BY <1>2, <1>6 DEF vars
<1> QED BY <1>1, <1>3, <1>4, <1>5, <1>6 DEF Next, StoreIgnored

-----------------------------------------------------------------------------
(* The theorems.                                                            *)

\* In every state the lists and the pending chain are well typed, no pair is in
\* the replacement dictionary twice, and the two halves of the memory are set
\* together (store_replacement, add_repl).
THEOREM TypeCorrect == Spec => []TypeOK
<1>1. Init => TypeOK
  BY InitTypeOK
<1>2. TypeOK /\ [Next]_vars => TypeOK'
  BY TypeOKStep
<1> QED BY <1>1, <1>2, PTL DEF Spec

\* store_replacement never joins one misspelling to the correction of another:
\* every pair it stores, and what is pending, is the two ends of a chain of the
\* user's own replacements, however many calls there were and whatever was
\* ignored, or added to the session or cleared from it, in between.
THEOREM PairsAreTheUsers == Spec => []PairsComeFromTheUser
<1>1. Init => PairsComeFromTheUser
  BY InitPairs
<1>2. TypeOK /\ PairsComeFromTheUser /\ [Next]_vars => PairsComeFromTheUser'
  BY PairsStep
<1> QED BY <1>1, <1>2, TypeCorrect, PTL DEF Spec

\* A misspelling that the user replaced by another one, which the next call of
\* store_replacement corrected, is stored with that correction, or suggest() puts
\* it first anyway, unless an earlier call had typed it.
THEOREM ChainsAreLearnt == Spec => []FirstMisspellingIsLearnt
<1>1. Init => PendingInv /\ FirstMisspellingIsLearnt
  BY InitPending, InitLearnt
<1>2. TypeOK /\ PendingInv /\ FirstMisspellingIsLearnt /\ [Next]_vars
         => PendingInv' /\ FirstMisspellingIsLearnt'
  BY PendingStep, LearntStep
<1> QED BY <1>1, <1>2, TypeCorrect, PTL DEF Spec
=============================================================================
