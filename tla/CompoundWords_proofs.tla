------------------------- MODULE CompoundWords_proofs -------------------------
(***************************************************************************)
(* Proofs about the check of a word that may be several, for any alphabet, *)
(* dictionaries, words and options, and any size of the array.             *)
(*                                                                         *)
(* First, what is left in the array.  Attempts fills it from the last      *)
(* place to the first, so what holds of an attempt at one place is shown   *)
(* from what holds at the places behind it: that the pieces from there on  *)
(* are linked and are words for the letters they stand for (Sound),        *)
(* whatever turns that failed have written to the same places.  The parts  *)
(* of a camelCase word are put behind one another (SoundTo), and such      *)
(* pieces are a chain that spells the word (SpellsTheWord).                *)
(*                                                                         *)
(* Then, what is found.  At a place with room for all of the pieces or all *)
(* of the letters an attempt finds what can be strung of words             *)
(* (CompleteAt, RunRight): the first prefix that fits is taken and the     *)
(* others are tried if the rest fails, which loses nothing if the guess of *)
(* the case is right.  Parts take no more places than they have letters,   *)
(* so there is room for each (RightTo, CountTo).                           *)
(***************************************************************************)
EXTENDS CompoundWords, NatInduction

\* A function on 0..n: d[i] takes its value before i to that at i.
LEMMA UpToExists ==
  ASSUME NEW n \in Nat, NEW S, NEW a \in S, NEW d \in [1..n -> [S -> S]]
  PROVE  \E g : RecursesTo(g, n, S, a, d)
<1>1. PICK e : e = [i \in Nat |-> IF i \in 1..n THEN d[i] ELSE [x \in S |-> x]]
  OBVIOUS
<1>2. e \in [Nat -> [S -> S]]
  <2>1. ASSUME NEW i \in Nat PROVE (IF i \in 1..n THEN d[i] ELSE [x \in S |-> x]) \in [S -> S]
    <3>1. CASE i \in 1..n
      BY <3>1
    <3>2. CASE i \notin 1..n
      BY <3>2
    <3> QED BY <3>1, <3>2
  <2> QED BY <1>1, <2>1
<1>3. PICK f : Recurses(f, S, a, e)
  BY <1>2, NatRecursion
<1>4. PICK g : g = [i \in 0..n |-> f[i]]
  OBVIOUS
<1>5. g \in [0..n -> S] /\ g[0] = a
  BY <1>3, <1>4 DEF Recurses
<1>6. ASSUME NEW i \in 1..n PROVE g[i] = d[i][g[i - 1]]
  <2>1. i \in Nat \ {0} /\ i \in 0..n /\ i - 1 \in 0..n /\ i \in Nat
    OBVIOUS
  <2>2. f[i] = e[i][f[i - 1]]
    BY <1>3, <2>1 DEF Recurses
  <2>3. e[i] = d[i]
    BY <1>1, <2>1
  <2> QED BY <1>4, <2>1, <2>2, <2>3
<1> QED BY <1>5, <1>6 DEF RecursesTo

\* Whatever satisfies the equation where it is known to be in S does so everywhere.
Follows(P, n, S, a, d) ==
  /\ P = [i \in 0..n |-> P[i]]
  /\ P[0] = a
  /\ \A i \in 1..n : P[i - 1] \in S => P[i] = d[i][P[i - 1]]
\* So it is the function whose existence UpToExists states.
LEMMA UpToIn ==
  ASSUME NEW n \in Nat, NEW S, NEW a \in S, NEW d \in [1..n -> [S -> S]],
         NEW P, Follows(P, n, S, a, d)
  PROVE  RecursesTo(P, n, S, a, d)
<1> DEFINE H == {i \in Nat : i \in 0..n => P[i] \in S}
<1>1. 0 \in H
  BY DEF Follows
<1>2. ASSUME NEW i \in Nat, i \in H PROVE i + 1 \in H
  <2> SUFFICES ASSUME i + 1 \in 0..n PROVE P[i + 1] \in S
    OBVIOUS
  <2>1. i \in 0..n /\ i + 1 \in 1..n /\ (i + 1) - 1 = i
    OBVIOUS
  <2>2. P[i] \in S
    BY <1>2, <2>1
  <2>3. P[i + 1] = d[i + 1][P[i]]
    BY <2>1, <2>2 DEF Follows
  <2>4. d[i + 1] \in [S -> S]
    BY <2>1
  <2> QED BY <2>2, <2>3, <2>4
<1>3. Nat \subseteq H
  <2> HIDE DEF H
  <2> QED BY <1>1, <1>2, NatSetInduction
<1>4. \A i \in 0..n : P[i] \in S
  BY <1>3
<1>5. ASSUME NEW i \in 1..n PROVE P[i] = d[i][P[i - 1]]
  <2>1. i - 1 \in 0..n
    OBVIOUS
  <2> QED BY <1>4, <2>1 DEF Follows
<1>6. P \in [0..n -> S] /\ P[0] = a
  BY <1>4 DEF Follows
<1> QED BY <1>4, <1>5, <1>6 DEF RecursesTo

-----------------------------------------------------------------------------

ListsOK == personal \subseteq Words /\ session \subseteq Words
Optional == {Null} \cup {<<d>> : d \in Words}

UpperChar(c) == IF c \in LowerLetters THEN UpperOf[c] ELSE c

\* The upper case of a letter is its own.
LEMMA UpperCharFacts ==
  ASSUME NEW c \in WordChars
  PROVE  UpperChar(c) \in WordChars /\ UpperChar(UpperChar(c)) = UpperChar(c)
  BY AlphabetAssumption DEF UpperChar, WordChars, Letters

\* Upper goes letter by letter.
LEMMA UpperFacts ==
  ASSUME NEW w \in Words
  PROVE  /\ Upper(w) \in Words /\ DOMAIN Upper(w) = DOMAIN w /\ Len(Upper(w)) = Len(w)
         /\ \A i \in DOMAIN w : Upper(w)[i] = UpperChar(w[i]) /\ w[i] \in WordChars
<1>1. PICK n \in Nat : n = Len(w) /\ DOMAIN w = 1..n
  BY DEF Words
<1>2. \A i \in 1..n : w[i] \in WordChars
  BY <1>1 DEF Words
<1>3. Upper(w) = [i \in 1..n |-> UpperChar(w[i])]
  BY <1>1 DEF Upper, UpperChar, IsUpper
<1>4. \A i \in 1..n : UpperChar(w[i]) \in WordChars
  BY <1>2, UpperCharFacts
<1>5. Upper(w) \in [1..n -> WordChars]
  BY <1>3, <1>4
<1>6. Upper(w) \in Seq(WordChars) /\ Len(Upper(w)) = n
  BY <1>5
<1> QED BY <1>1, <1>2, <1>3, <1>6 DEF Words

\* Words that are the same but for their case.
LEMMA SameUpper ==
  ASSUME NEW v \in Words, NEW w \in Words, DOMAIN v = DOMAIN w,
         \A i \in DOMAIN w : UpperChar(v[i]) = UpperChar(w[i])
  PROVE  Upper(v) = Upper(w)
<1>1. \A i \in DOMAIN w : Upper(v)[i] = Upper(w)[i]
  BY UpperFacts
<1>2. Upper(v) = [i \in DOMAIN v |-> Upper(v)[i]] /\ Upper(w) = [i \in DOMAIN w |-> Upper(w)[i]]
  BY DEF Upper
<1> QED BY <1>1, <1>2

\* A capital changes the case only.
LEMMA TitleFacts ==
  ASSUME NEW w \in Words
  PROVE  Title(w) \in Words /\ Upper(Title(w)) = Upper(w) /\ Len(Title(w)) = Len(w)
<1>1. PICK n \in Nat : n = Len(w) /\ DOMAIN w = 1..n
  BY DEF Words
<1>2. Title(w) = [i \in 1..n |-> IF i = 1 THEN Upper(w)[1] ELSE w[i]]
  BY <1>1 DEF Title
<1>3. \A i \in 1..n : w[i] \in WordChars /\ Upper(w)[i] = UpperChar(w[i])
  BY <1>1, UpperFacts
<1>4. ASSUME NEW i \in 1..n
      PROVE  Title(w)[i] \in WordChars /\ UpperChar(Title(w)[i]) = UpperChar(w[i])
  <2>1. Title(w)[i] = IF i = 1 THEN UpperChar(w[i]) ELSE w[i]
    BY <1>2, <1>3
  <2> QED BY <1>3, <2>1, UpperCharFacts
<1>5. Title(w) \in [1..n -> WordChars]
  BY <1>2, <1>4
<1>6. Title(w) \in Words /\ DOMAIN Title(w) = 1..n /\ Len(Title(w)) = n
  BY <1>5 DEF Words
<1> QED BY <1>1, <1>4, <1>6, SameUpper

\* Nothing is left to be changed the second time.
LEMMA UpperTwice ==
  ASSUME NEW w \in Words
  PROVE  Upper(Upper(w)) = Upper(w)
<1>1. \A i \in DOMAIN w : UpperChar(Upper(w)[i]) = UpperChar(w[i])
  BY UpperFacts, UpperCharFacts
<1> QED BY <1>1, UpperFacts, SameUpper

\* What is looked up is found as a word that differs in its case at most.
LEMMA EntryFacts ==
  ASSUME ListsOK, NEW w \in Words
  PROVE  /\ Entry(w) \in Optional
         /\ \A d : Entry(w) = <<d>> => d \in Words /\ Upper(d) = Upper(w)
<1>1. CASE Len(w) <= Ignore
  <2>1. Entry(w) = <<w>>
    BY <1>1 DEF Entry
  <2> QED BY <2>1 DEF Optional
<1>2. CASE ~(Len(w) <= Ignore) /\ Entries(w) = {}
  <2>1. Entry(w) = Null
    BY <1>2 DEF Entry
  <2> QED BY <2>1 DEF Optional, Null
<1>3. CASE ~(Len(w) <= Ignore) /\ Entries(w) # {}
  <2>1. PICK e : e = CHOOSE d \in Entries(w) : TRUE
    OBVIOUS
  <2>2. e \in Entries(w)
    BY <1>3, <2>1
  <2>3. Entry(w) = <<e>>
    BY <1>3, <2>1 DEF Entry
  <2>4. e \in Words
    <3>1. Seq(Letters) \subseteq Words
      BY DEF Words, WordChars
    <3> QED BY <2>2, <3>1, WordAssumption DEF Entries, ListsOK
  <2>5. w \in {e, Title(e), Upper(e)}
    BY <2>2 DEF Entries
  <2>6. Upper(w) = Upper(e)
    BY <2>4, <2>5, TitleFacts, UpperTwice
  <2> QED BY <2>3, <2>4, <2>6 DEF Optional
<1> QED BY <1>1, <1>2, <1>3

\* So is what is looked up with the capital it may have lost.
LEMMA SingleFacts ==
  ASSUME ListsOK, NEW w \in Words, NEW t \in BOOLEAN
  PROVE  /\ Single(w, t) \in Optional
         /\ \A d : Single(w, t) = <<d>> => d \in Words /\ Upper(d) = Upper(w)
<1>1. CASE Single(w, t) = Entry(w)
  BY <1>1, EntryFacts
<1>2. CASE Single(w, t) = Null
  BY <1>2 DEF Optional, Null
<1>3. CASE Single(w, t) = Entry(Title(w))
  BY <1>3, EntryFacts, TitleFacts
<1> QED BY <1>1, <1>2, <1>3 DEF Single

\* Parts of words.
LEMMA SubWord ==
  ASSUME NEW w \in Words, NEW i \in 1..(Len(w) + 1), NEW j \in 0..Len(w)
  PROVE  /\ SubSeq(w, i, j) \in Words
         /\ Len(SubSeq(w, i, j)) = IF i <= j THEN j - i + 1 ELSE 0
         /\ \A k \in 1..(j - i + 1) : SubSeq(w, i, j)[k] = w[i + k - 1]
  BY DEF Words

\* The prefixes tried are those that leave both pieces long enough.
LEMMA CutsFacts ==
  ASSUME NEW w \in Words, NEW min \in Nat
  PROVE  /\ Len(Cuts(w, min)) \in Nat
         /\ \A k \in 1..Len(Cuts(w, min)) : /\ Cuts(w, min)[k] \in 0..Len(w)
                                            /\ Cuts(w, min)[k] \in min..(Len(w) - min)
         /\ \A n \in min..(Len(w) - min) : \E k \in 1..Len(Cuts(w, min)) : Cuts(w, min)[k] = n
<1>1. Len(w) \in Nat
  BY DEF Words
<1>2. CASE Len(w) < 2 * min
  <2>1. Cuts(w, min) = <<>>
    BY <1>2 DEF Cuts
  <2>2. Len(Cuts(w, min)) = 0
    BY <2>1
  <2> QED BY <1>1, <1>2, <2>2
<1>3. CASE ~(Len(w) < 2 * min)
  <2>1. PICK m \in Nat : m = Len(w) - 2 * min + 1
    BY <1>1, <1>3
  <2>2. Cuts(w, min) = [j \in 1..m |-> min + j - 1]
    BY <1>3, <2>1 DEF Cuts
  <2>3. Len(Cuts(w, min)) = m
    BY <2>2
  <2>4. ASSUME NEW k \in 1..m
        PROVE  Cuts(w, min)[k] \in 0..Len(w) /\ Cuts(w, min)[k] \in min..(Len(w) - min)
    BY <1>1, <1>3, <2>1, <2>2
  <2>5. ASSUME NEW n \in min..(Len(w) - min)
        PROVE  \E k \in 1..m : Cuts(w, min)[k] = n
    <3>1. n - min + 1 \in 1..m
      BY <1>1, <1>3, <2>1
    <3>2. Cuts(w, min)[n - min + 1] = n
      BY <2>2, <3>1
    <3> QED BY <3>1, <3>2
  <2> QED BY <2>1, <2>3, <2>4, <2>5
<1> QED BY <1>2, <1>3

Info == [word : Optional, compound : BOOLEAN, next : Nat, incorrect : BOOLEAN]
\* What is written to some places of the array.
Writings == UNION {[D -> Info] : D \in SUBSET (1..Infos)}
Guess == {<<>>} \cup {<<b>> : b \in BOOLEAN}
Result == [inf : Writings, last : 0..Infos, title : Guess]
Deeper(w) == [Ends(w) -> [BOOLEAN -> [0..Infos -> Result]]]

\* Writings are known by what they write where.
LEMMA WritingsFacts ==
  ASSUME NEW f \in Writings
  PROVE  DOMAIN f \subseteq 1..Infos /\ f = [i \in DOMAIN f |-> f[i]]
         /\ \A i \in DOMAIN f : f[i] \in Info
  BY DEF Writings

\* What writes pieces to places of the array is of them.
LEMMA WritingsIs ==
  ASSUME NEW D, D \subseteq 1..Infos, NEW f, f = [i \in D |-> f[i]], \A i \in D : f[i] \in Info
  PROVE  f \in Writings
<1>1. f \in [D -> Info]
  OBVIOUS
<1> QED BY <1>1 DEF Writings

\* A piece is entered at one place.
LEMMA EnteredFacts ==
  ASSUME NEW ci \in 1..Infos, NEW x \in Info
  PROVE  /\ Entered(ci, x) \in Writings /\ DOMAIN Entered(ci, x) = {ci}
         /\ Entered(ci, x)[ci] = x
<1>1. Entered(ci, x) = [i \in {ci} |-> x]
  BY DEF Entered
<1>2. Entered(ci, x) \in [{ci} -> Info]
  BY <1>1
<1>3. {ci} \in SUBSET (1..Infos)
  OBVIOUS
<1> QED BY <1>1, <1>2, <1>3 DEF Writings

\* What is written later counts, and the rest stays.
LEMMA WrittenFacts ==
  ASSUME NEW f \in Writings, NEW g \in Writings
  PROVE  /\ Written(f, g) \in Writings /\ DOMAIN Written(f, g) = DOMAIN f \cup DOMAIN g
         /\ \A i \in DOMAIN f : Written(f, g)[i] = f[i]
         /\ \A i \in DOMAIN g : i \notin DOMAIN f => Written(f, g)[i] = g[i]
<1>1. PICK D : D = DOMAIN f \cup DOMAIN g
  OBVIOUS
<1>2. Written(f, g) = [i \in D |-> IF i \in DOMAIN f THEN f[i] ELSE g[i]]
  BY <1>1 DEF Written
<1>3. D \subseteq 1..Infos /\ \A i \in D : (IF i \in DOMAIN f THEN f[i] ELSE g[i]) \in Info
  BY <1>1, WritingsFacts
<1>4. Written(f, g) \in [D -> Info]
  BY <1>2, <1>3
<1>5. Written(f, g) \in Writings
  BY <1>3, <1>4 DEF Writings
<1> QED BY <1>1, <1>2, <1>5

\* A guess of the case is made or not.
LEMMA GuessFacts ==
  ASSUME NEW g \in Guess
  PROVE  g # <<>> => g[1] \in BOOLEAN /\ g = <<g[1]>>
  BY DEF Guess

\* A piece of the array.
LEMMA PieceTyped ==
  ASSUME NEW found \in Optional, NEW b \in BOOLEAN, NEW n \in Nat
  PROVE  /\ CheckInfo(found, b, n) \in Info
         /\ CheckInfo(found, b, n).word = found
         /\ CheckInfo(found, b, n).compound = b
         /\ CheckInfo(found, b, n).next = n
         /\ CheckInfo(found, b, n).incorrect = FALSE
  BY DEF CheckInfo, Info

\* A cleared piece has no word.
LEMMA ClearedTyped == Cleared \in Info /\ Cleared.word = Null
  BY PieceTyped DEF Cleared, Optional, Null

\* The word looked up as it is.
LEMMA WholeTyped ==
  ASSUME ListsOK, NEW w \in Words, NEW title \in BOOLEAN, NEW ci \in 1..Infos
  PROVE  Whole(w, title, ci) \in Result
<1>1. PICK found \in Optional : found = Single(w, title)
  BY SingleFacts
<1>2. PICK inf \in Writings : inf = Entered(ci, CheckInfo(found, FALSE, 0))
  BY <1>1, PieceTyped, EnteredFacts
<1>3. ci \in 0..Infos /\ 0 \in 0..Infos
  BY LimitAssumption
<1>4. Whole(w, title, ci) = [inf |-> inf, last |-> IF found # Null THEN ci ELSE 0,
                             title |-> IF title THEN <<TRUE>> ELSE <<>>]
  BY <1>1, <1>2 DEF Whole
<1>5. PICK end \in 0..Infos, g \in Guess :
        end = (IF found # Null THEN ci ELSE 0) /\ g = (IF title THEN <<TRUE>> ELSE <<>>)
  <2>1. (IF found # Null THEN ci ELSE 0) \in 0..Infos
    BY <1>3
  <2>2. (IF title THEN <<TRUE>> ELSE <<>>) \in Guess
    BY DEF Guess
  <2> QED BY <2>1, <2>2
<1>6. Whole(w, title, ci) = [inf |-> inf, last |-> end, title |-> g]
  BY <1>4, <1>5
<1> QED BY <1>6 DEF Result

\* Ends of a word, and theirs.
LEMMA EndsTyped ==
  ASSUME NEW w \in Words
  PROVE  /\ Ends(w) \subseteq Words /\ w \in Ends(w)
         /\ \A v \in Ends(w) : \A n \in 0..Len(v) : SubSeq(v, n + 1, Len(v)) \in Ends(w)
<1>0. Len(w) \in Nat
  BY DEF Words
<1>1. ASSUME NEW i \in 1..(Len(w) + 1) PROVE SubSeq(w, i, Len(w)) \in Words
  BY <1>0, SubWord
<1>2. w = SubSeq(w, 1, Len(w)) /\ 1 \in 1..(Len(w) + 1)
  BY <1>0 DEF Words
<1>3. ASSUME NEW v \in Ends(w), NEW n \in 0..Len(v)
      PROVE  SubSeq(v, n + 1, Len(v)) \in Ends(w)
  <2>1. PICK i \in 1..(Len(w) + 1) : v = SubSeq(w, i, Len(w))
    BY DEF Ends
  <2>2. v \in Words /\ Len(v) = Len(w) - i + 1
    BY <1>0, <1>1, <2>1, SubWord
  <2>3. \A k \in 1..Len(v) : v[k] = w[i + k - 1]
    BY <1>0, <2>1, <2>2, SubWord
  <2>4. i + n \in 1..(Len(w) + 1)
    BY <1>0, <2>2
  <2>5. SubSeq(v, n + 1, Len(v)) = SubSeq(w, i + n, Len(w))
    <3>1. SubSeq(v, n + 1, Len(v)) = [k \in 1..(Len(v) - n) |-> v[n + k]]
      BY <1>0, <2>2 DEF Words
    <3>2. SubSeq(w, i + n, Len(w)) = [k \in 1..(Len(w) - (i + n) + 1) |-> w[i + n + k - 1]]
      BY <1>0, <2>4 DEF Words
    <3>3. Len(v) - n = Len(w) - (i + n) + 1
      BY <1>0, <2>2
    <3>4. \A k \in 1..(Len(v) - n) : v[n + k] = w[i + n + k - 1]
      <4> SUFFICES ASSUME NEW k \in 1..(Len(v) - n) PROVE v[n + k] = w[i + n + k - 1]
        OBVIOUS
      <4>1. n + k \in 1..Len(v) /\ i + (n + k) - 1 = i + n + k - 1
        BY <1>0, <2>2
      <4> QED BY <2>3, <4>1
    <3> QED BY <3>1, <3>2, <3>3, <3>4
  <2> QED BY <2>4, <2>5 DEF Ends
<1> QED BY <1>1, <1>2, <1>3 DEF Ends

\* One turn of the loop, case by case: found is the prefix, and rest what became of the rest.
Turn(r, acc, v, n, title, limit, ci, deeper, found, known, rest, piece) ==
  /\ found \in Optional /\ found = Single(SubSeq(v, 1, n), title)
  /\ known \in Guess /\ known # <<>>
  /\ known = IF acc.title = <<>> THEN <<FirstUpper(SubSeq(v, 1, n))>> ELSE acc.title
  /\ rest \in Result /\ rest = deeper[SubSeq(v, n + 1, Len(v))][known[1]][limit - 1]
  /\ piece \in Info
  /\ piece = CheckInfo(found, rest.last # 0, IF rest.last # 0 THEN ci + 1 ELSE 0)
  /\ r \in Result
  /\ acc.last # 0 => r = acc
  /\ acc.last = 0 /\ found = Null => /\ r.inf = Written(Entered(ci, Cleared), acc.inf)
                                    /\ r.last = 0 /\ r.title = acc.title
  /\ acc.last = 0 /\ found # Null =>
       /\ r.inf = Written(rest.inf, Written(Entered(ci, piece), acc.inf))
       /\ r.last = rest.last /\ r.title = known

\* TryCut is such a turn.
LEMMA TryCutFacts ==
  ASSUME ListsOK, NEW w \in Words, NEW v \in Ends(w), NEW acc \in Result, NEW n \in 0..Len(v),
         NEW title \in BOOLEAN, NEW limit \in 0..Infos, limit > 1, NEW ci \in 1..Infos,
         NEW deeper \in Deeper(w)
  PROVE  \E found, known, rest, piece :
           Turn(TryCut(acc, v, n, title, limit, ci, deeper), acc, v, n, title, limit, ci, deeper,
                found, known, rest, piece)
<1>a. PICK r, found, known : /\ r = TryCut(acc, v, n, title, limit, ci, deeper)
                             /\ found = Single(SubSeq(v, 1, n), title)
                             /\ known = IF acc.title = <<>> THEN <<FirstUpper(SubSeq(v, 1, n))>>
                                        ELSE acc.title
  OBVIOUS
<1>b. PICK rest : rest = deeper[SubSeq(v, n + 1, Len(v))][known[1]][limit - 1]
  OBVIOUS
<1>c. PICK piece : piece = CheckInfo(found, rest.last # 0, IF rest.last # 0 THEN ci + 1 ELSE 0)
  OBVIOUS
<1>d. ASSUME r \in Result,
             acc.last # 0 => r = acc,
             acc.last = 0 /\ found = Null => /\ r.inf = Written(Entered(ci, Cleared), acc.inf)
                                           /\ r.last = 0 /\ r.title = acc.title,
             acc.last = 0 /\ found # Null =>
               /\ r.inf = Written(rest.inf, Written(Entered(ci, piece), acc.inf))
               /\ r.last = rest.last /\ r.title = known,
             found \in Optional, known \in Guess, known # <<>>, rest \in Result, piece \in Info
      PROVE  Turn(TryCut(acc, v, n, title, limit, ci, deeper), acc, v, n, title, limit, ci, deeper,
                found, known, rest, piece)
  BY <1>a, <1>b, <1>c, <1>d DEF Turn
<1>1. v \in Words /\ Len(v) \in Nat
  BY EndsTyped DEF Words
<1>2. SubSeq(v, 1, n) \in Words
  BY <1>1, SubWord
<1>3. found \in Optional
  BY <1>a, <1>2, SingleFacts
<1>4. known \in Guess /\ known # <<>>
  <2>1. FirstUpper(SubSeq(v, 1, n)) \in BOOLEAN
    BY DEF FirstUpper
  <2>2. acc.title \in Guess
    BY DEF Result
  <2> QED BY <1>a, <2>1, <2>2 DEF Guess
<1>5. rest \in Result
  <2>1. SubSeq(v, n + 1, Len(v)) \in Ends(w)
    BY EndsTyped
  <2>2. known[1] \in BOOLEAN
    BY <1>4, GuessFacts
  <2>3. limit - 1 \in 0..Infos
    BY LimitAssumption
  <2>4. deeper[SubSeq(v, n + 1, Len(v))] \in [BOOLEAN -> [0..Infos -> Result]]
    BY <2>1 DEF Deeper
  <2> QED BY <1>b, <2>2, <2>3, <2>4
<1>6. (rest.last # 0) \in BOOLEAN /\ (IF rest.last # 0 THEN ci + 1 ELSE 0) \in Nat
  BY LimitAssumption
<1>7. piece \in Info
  <2>1. PICK b \in BOOLEAN, m \in Nat : b = (rest.last # 0) /\ m = IF rest.last # 0 THEN ci + 1 ELSE 0
    BY <1>6
  <2>2. piece = CheckInfo(found, b, m)
    BY <1>c, <2>1
  <2>3. CheckInfo(found, b, m) \in Info
    BY <1>3, PieceTyped
  <2> QED BY <2>2, <2>3
<1>8. acc.inf \in Writings /\ acc.last \in 0..Infos /\ acc.title \in Guess
      /\ rest.inf \in Writings /\ rest.last \in 0..Infos
  BY <1>5 DEF Result
<1>9. CASE acc.last # 0
  <2>1. r = acc
    BY <1>a, <1>9 DEF TryCut
  <2> QED BY <1>3, <1>4, <1>5, <1>7, <1>9, <1>d, <2>1
<1>10. CASE acc.last = 0 /\ found = Null
  <2>1. r = [acc EXCEPT !.inf = Written(Entered(ci, Cleared), acc.inf)]
    BY <1>a, <1>10 DEF TryCut
  <2>2. Written(Entered(ci, Cleared), acc.inf) \in Writings
    BY <1>8, ClearedTyped, EnteredFacts, WrittenFacts
  <2>3. r \in Result /\ r.inf = Written(Entered(ci, Cleared), acc.inf)
        /\ r.last = 0 /\ r.title = acc.title
    BY <1>8, <1>10, <2>1, <2>2 DEF Result
  <2> QED BY <1>3, <1>4, <1>5, <1>7, <1>10, <1>d, <2>3
<1>11. CASE acc.last = 0 /\ found # Null
  <2>1. PICK inf : inf = Written(rest.inf, Written(Entered(ci, piece), acc.inf))
    OBVIOUS
  <2>2. PICK last0 \in 0..Infos, known0 \in Guess : last0 = rest.last /\ known0 = known
    BY <1>4, <1>8
  <2>3. r = [inf |-> inf, last |-> last0, title |-> known0]
    BY <1>a, <1>b, <1>c, <1>11, <2>1, <2>2 DEF TryCut
  <2>4. inf \in Writings
    BY <1>7, <1>8, <2>1, EnteredFacts, WrittenFacts
  <2>5. r \in Result /\ r.inf = inf /\ r.last = last0 /\ r.title = known0
    BY <2>3, <2>4 DEF Result
  <2> QED BY <1>3, <1>4, <1>5, <1>7, <1>11, <1>d, <2>1, <2>2, <2>5
<1> QED BY <1>9, <1>10, <1>11

\* So it leads from one result to another.
LEMMA TryCutTyped ==
  ASSUME ListsOK, NEW w \in Words, NEW v \in Ends(w), NEW acc \in Result, NEW n \in 0..Len(v),
         NEW title \in BOOLEAN, NEW limit \in 0..Infos, limit > 1, NEW ci \in 1..Infos,
         NEW deeper \in Deeper(w)
  PROVE  TryCut(acc, v, n, title, limit, ci, deeper) \in Result
<1>1. PICK r : r = TryCut(acc, v, n, title, limit, ci, deeper)
  OBVIOUS
<1>2. \E found, known, rest, piece :
        Turn(r, acc, v, n, title, limit, ci, deeper, found, known, rest, piece)
  BY <1>1, TryCutFacts
<1>3. r \in Result
  BY <1>2 DEF Turn
<1> QED BY <1>1, <1>3

\* tried[k] is what an attempt came to with the first k prefixes.
Tries(tried, w, title, limit, min, ci, deeper) ==
  /\ tried \in [0..Len(Cuts(w, min)) -> Result]
  /\ tried[0] = Whole(w, title, ci)
  /\ \A k \in 1..Len(Cuts(w, min)) :
       tried[k] = TryCut(tried[k - 1], w, Cuts(w, min)[k], title, limit, ci, deeper)

\* An attempt tries every prefix, unless the limit leaves but one piece.
LEMMA AttemptIs ==
  ASSUME ListsOK, NEW w \in Words, NEW v \in Ends(w), NEW title \in BOOLEAN, NEW min \in Nat,
         NEW limit \in 0..Infos, NEW ci \in 1..Infos, NEW deeper \in Deeper(w)
  PROVE  /\ limit <= 1 => Attempt(v, title, limit, min, ci, deeper) = Whole(v, title, ci)
         /\ limit > 1 => \E tried : /\ Tries(tried, v, title, limit, min, ci, deeper)
                                    /\ Attempt(v, title, limit, min, ci, deeper)
                                         = tried[Len(Cuts(v, min))]
<1>1. CASE limit <= 1
  <2>1. Attempt(v, title, limit, min, ci, deeper) = Whole(v, title, ci)
    BY <1>1 DEF Attempt
  <2>2. ~(limit > 1)
    BY <1>1, LimitAssumption
  <2> QED BY <2>1, <2>2
<1>2. CASE limit > 1
  <2> DEFINE Eq(g, cuts) == g = [n \in 0..Len(cuts) |->
                                  IF n = 0 THEN Whole(v, title, ci)
                                  ELSE TryCut(g[n - 1], v, cuts[n], title, limit, ci, deeper)]
  <2>1. PICK cuts : cuts = Cuts(v, min)
    OBVIOUS
  <2>2. v \in Words
    BY EndsTyped
  <2>3. PICK m \in Nat : m = Len(cuts)
    BY <2>1, <2>2, CutsFacts
  <2>4. \A k \in 1..m : cuts[k] \in 0..Len(v)
    BY <2>1, <2>2, <2>3, CutsFacts
  <2>5. PICK a \in Result : a = Whole(v, title, ci)
    BY <2>2, WholeTyped
  <2>6. ASSUME NEW k \in 1..m, NEW acc \in Result
        PROVE  TryCut(acc, v, cuts[k], title, limit, ci, deeper) \in Result
    BY <1>2, <2>4, <2>6, TryCutTyped
  <2>7. PICK d : d = [k \in 1..m |-> [acc \in Result |->
                         TryCut(acc, v, cuts[k], title, limit, ci, deeper)]]
    OBVIOUS
  <2>8. d \in [1..m -> [Result -> Result]]
    BY <2>6, <2>7
  <2>9. PICK g : RecursesTo(g, m, Result, a, d)
    BY <2>8, UpToExists
  <2>10. ASSUME NEW i \in 1..m
         PROVE  g[i] = TryCut(g[i - 1], v, cuts[i], title, limit, ci, deeper)
    <3>1. i - 1 \in 0..m
      OBVIOUS
    <3>2. g[i - 1] \in Result /\ g[i] = d[i][g[i - 1]]
      BY <2>9, <3>1 DEF RecursesTo
    <3> QED BY <2>7, <3>2
  <2>11. Eq(g, cuts)
    <3>1. ASSUME NEW n \in 0..m
          PROVE  g[n] = IF n = 0 THEN Whole(v, title, ci)
                        ELSE TryCut(g[n - 1], v, cuts[n], title, limit, ci, deeper)
      <4>1. CASE n = 0
        BY <2>5, <2>9, <4>1 DEF RecursesTo
      <4>2. CASE n # 0
        <5>1. n \in 1..m
          BY <4>2
        <5> QED BY <2>10, <4>2, <5>1
      <4> QED BY <4>1, <4>2
    <3>2. g = [n \in 0..m |-> g[n]]
      BY <2>9 DEF RecursesTo
    <3>3. g = [n \in 0..m |-> IF n = 0 THEN Whole(v, title, ci)
                               ELSE TryCut(g[n - 1], v, cuts[n], title, limit, ci, deeper)]
      BY <3>1, <3>2
    <3> QED BY <2>3, <3>3
  <2>12. PICK P : P = CHOOSE h : Eq(h, cuts)
    OBVIOUS
  <2>13. Eq(P, cuts)
    <3> HIDE DEF Eq
    <3> QED BY <2>11, <2>12
  <2>14. Attempt(v, title, limit, min, ci, deeper) = P[m]
    <3>1. ~(limit <= 1)
      BY <1>2, LimitAssumption
    <3> QED BY <2>1, <2>3, <2>12, <3>1 DEF Attempt
  <2>15. P = [n \in 0..m |-> IF n = 0 THEN Whole(v, title, ci)
                             ELSE TryCut(P[n - 1], v, cuts[n], title, limit, ci, deeper)]
    BY <2>3, <2>13
  <2> HIDE DEF Eq
  <2>16. P[0] = a /\ \A n \in 1..m : P[n] = TryCut(P[n - 1], v, cuts[n], title, limit, ci, deeper)
    <3>1. 0 \in 0..m /\ \A n \in 1..m : n \in 0..m /\ n # 0
      OBVIOUS
    <3> QED BY <2>5, <2>15, <3>1
  <2>17. \A n \in 1..m : P[n - 1] \in Result => P[n] = d[n][P[n - 1]]
    BY <2>7, <2>16
  <2>18. Follows(P, m, Result, a, d)
    <3>1. P = [n \in 0..m |-> P[n]]
      BY <2>15
    <3> QED BY <2>16, <2>17, <3>1 DEF Follows
  <2>19. RecursesTo(P, m, Result, a, d)
    BY <2>8, <2>18, UpToIn
  <2>20. Tries(P, v, title, limit, min, ci, deeper)
    BY <2>1, <2>3, <2>5, <2>16, <2>19 DEF Tries, RecursesTo
  <2>21. ~(limit <= 1)
    BY <1>2, LimitAssumption
  <2> QED BY <2>1, <2>3, <2>14, <2>20, <2>21
<1> QED BY <1>1, <1>2, LimitAssumption

\* It comes to a result.
LEMMA AttemptTyped ==
  ASSUME ListsOK, NEW w \in Words, NEW v \in Ends(w), NEW title \in BOOLEAN, NEW min \in Nat,
         NEW limit \in 0..Infos, NEW ci \in 1..Infos, NEW deeper \in Deeper(w)
  PROVE  Attempt(v, title, limit, min, ci, deeper) \in Result
<1>1. v \in Words
  BY EndsTyped
<1>2. CASE limit <= 1
  <2>1. Attempt(v, title, limit, min, ci, deeper) = Whole(v, title, ci)
    BY <1>2, AttemptIs
  <2>2. Whole(v, title, ci) \in Result
    BY <1>1, WholeTyped
  <2> QED BY <2>1, <2>2
<1>3. CASE limit > 1
  <2>1. PICK tried : /\ Tries(tried, v, title, limit, min, ci, deeper)
                     /\ Attempt(v, title, limit, min, ci, deeper) = tried[Len(Cuts(v, min))]
    BY <1>3, AttemptIs
  <2>2. PICK m \in Nat : m = Len(Cuts(v, min))
    BY <1>1, CutsFacts
  <2>3. m \in 0..m
    OBVIOUS
  <2> QED BY <2>1, <2>2, <2>3 DEF Tries
<1> QED BY <1>2, <1>3, LimitAssumption

\* What the places behind make of the ends of a word, the last ones first.
Fills(run, w, min) ==
  /\ run \in [0..Infos -> Deeper(w)]
  /\ run[0] = NoRoom(w)
  /\ \A room \in 1..Infos : run[room] = AtPlace(w, Infos + 1 - room, min, run[room - 1])

\* Behind the array there is nothing to be found.
LEMMA NoRoomTyped ==
  ASSUME NEW w
  PROVE  NoRoom(w) \in Deeper(w)
<1>1. <<>> \in Writings
  <2>1. <<>> \in [{} -> Info]
    OBVIOUS
  <2>2. {} \in SUBSET (1..Infos)
    OBVIOUS
  <2> QED BY <2>1, <2>2 DEF Writings
<1>2. 0 \in 0..Infos
  BY LimitAssumption
<1>3. <<>> \in Guess
  BY DEF Guess
<1>4. [inf |-> <<>>, last |-> 0, title |-> <<>>] \in Result
  BY <1>1, <1>2, <1>3 DEF Result
<1> QED BY <1>4 DEF NoRoom, Deeper

\* At a place, the attempts at every end of the word.
LEMMA AtPlaceTyped ==
  ASSUME ListsOK, NEW w \in Words, NEW min \in Nat, NEW ci \in 1..Infos, NEW deeper \in Deeper(w)
  PROVE  /\ AtPlace(w, ci, min, deeper) \in Deeper(w)
         /\ \A v \in Ends(w) : \A t \in BOOLEAN : \A l \in 0..Infos :
              AtPlace(w, ci, min, deeper)[v][t][l] = Attempt(v, t, l, min, ci, deeper)
<1>1. ASSUME NEW v \in Ends(w), NEW t \in BOOLEAN, NEW l \in 0..Infos
      PROVE  Attempt(v, t, l, min, ci, deeper) \in Result
  BY AttemptTyped
<1>2. AtPlace(w, ci, min, deeper) \in Deeper(w)
  BY <1>1 DEF AtPlace, Deeper
<1> QED BY <1>2 DEF AtPlace

\* Attempts fills the array so.
LEMMA AttemptsIs ==
  ASSUME ListsOK, NEW w \in Words, NEW min \in Nat
  PROVE  Fills(Attempts(w, min), w, min)
<1> DEFINE Eq(g) == g = [room \in 0..Infos |->
              IF room = 0 THEN NoRoom(w)
              ELSE AtPlace(w, Infos + 1 - room, min, g[room - 1])]
<1>1. PICK m \in Nat : m = Infos /\ m > 0
  BY LimitAssumption
<1>2. PICK S : S = Deeper(w)
  OBVIOUS
<1>3. PICK a \in S : a = NoRoom(w)
  BY <1>2, NoRoomTyped
<1>4. PICK d : d = [room \in 1..m |-> [x \in S |-> AtPlace(w, Infos + 1 - room, min, x)]]
  OBVIOUS
<1>5. ASSUME NEW room \in 1..m, NEW x \in S
      PROVE  AtPlace(w, Infos + 1 - room, min, x) \in S
  <2>1. Infos + 1 - room \in 1..Infos
    BY <1>1
  <2> QED BY <1>2, <2>1, AtPlaceTyped
<1>6. d \in [1..m -> [S -> S]]
  BY <1>4, <1>5
<1>7. PICK g : RecursesTo(g, m, S, a, d)
  BY <1>6, UpToExists
<1>8. ASSUME NEW i \in 1..m PROVE g[i] = AtPlace(w, Infos + 1 - i, min, g[i - 1])
  <2>1. i - 1 \in 0..m
    OBVIOUS
  <2>2. g[i - 1] \in S /\ g[i] = d[i][g[i - 1]]
    BY <1>7, <2>1 DEF RecursesTo
  <2> QED BY <1>4, <2>2
<1>9. Eq(g)
  <2>1. ASSUME NEW room \in 0..m
        PROVE  g[room] = IF room = 0 THEN NoRoom(w)
                         ELSE AtPlace(w, Infos + 1 - room, min, g[room - 1])
    <3>1. CASE room = 0
      BY <1>3, <1>7, <3>1 DEF RecursesTo
    <3>2. CASE room # 0
      <4>1. room \in 1..m
        BY <3>2
      <4> QED BY <1>8, <3>2, <4>1
    <3> QED BY <3>1, <3>2
  <2>2. g = [room \in 0..m |-> g[room]]
    BY <1>7 DEF RecursesTo
  <2>3. g = [room \in 0..m |-> IF room = 0 THEN NoRoom(w)
                                ELSE AtPlace(w, Infos + 1 - room, min, g[room - 1])]
    BY <2>1, <2>2
  <2> QED BY <1>1, <2>3
<1>10. PICK P : P = Attempts(w, min)
  OBVIOUS
<1>11. P = CHOOSE h : Eq(h)
  BY <1>10 DEF Attempts
<1>12. Eq(P)
  <2> HIDE DEF Eq
  <2> QED BY <1>9, <1>11
<1>13. P = [room \in 0..m |-> IF room = 0 THEN NoRoom(w)
                               ELSE AtPlace(w, Infos + 1 - room, min, P[room - 1])]
  BY <1>1, <1>12
<1> HIDE DEF Eq
<1>14. P[0] = a
  <2>1. 0 \in 0..m
    OBVIOUS
  <2> QED BY <1>3, <1>13, <2>1
<1>15. ASSUME NEW i \in 1..m PROVE P[i] = AtPlace(w, Infos + 1 - i, min, P[i - 1])
  <2>1. i \in 0..m /\ i # 0
    OBVIOUS
  <2> QED BY <1>13, <2>1
<1>16. \A i \in 1..m : P[i - 1] \in S => P[i] = d[i][P[i - 1]]
  BY <1>4, <1>15
<1>17. Follows(P, m, S, a, d)
  <2>1. P = [i \in 0..m |-> P[i]]
    BY <1>13
  <2> QED BY <1>14, <1>16, <2>1 DEF Follows
<1>18. RecursesTo(P, m, S, a, d)
  BY <1>6, <1>17, UpToIn
<1> QED BY <1>1, <1>2, <1>3, <1>10, <1>15, <1>18 DEF Fills, RecursesTo

\* The letters of w from b up to e, and those behind b.
Cut(w, b, e) == SubSeq(w, b + 1, e)
Behind(w, b) == SubSeq(w, b + 1, Len(w))

\* The letters of a cut.
LEMMA CutFacts ==
  ASSUME NEW w \in Words, NEW b \in 0..Len(w), NEW e \in b..Len(w)
  PROVE  /\ Cut(w, b, e) \in Words /\ Len(Cut(w, b, e)) = e - b
         /\ \A i \in 1..(e - b) : Cut(w, b, e)[i] = w[b + i]
<1>1. Len(w) \in Nat
  BY DEF Words
<1>2. b + 1 \in 1..(Len(w) + 1) /\ e \in 0..Len(w)
  BY <1>1
<1>3. Cut(w, b, e) \in Words /\ Len(Cut(w, b, e)) = IF b + 1 <= e THEN e - (b + 1) + 1 ELSE 0
  BY <1>2, SubWord DEF Cut
<1>4. \A k \in 1..(e - (b + 1) + 1) : Cut(w, b, e)[k] = w[(b + 1) + k - 1]
  BY <1>2, SubWord DEF Cut
<1>5. (IF b + 1 <= e THEN e - (b + 1) + 1 ELSE 0) = e - b /\ e - (b + 1) + 1 = e - b
  BY <1>1
<1>6. \A k \in 1..(e - b) : (b + 1) + k - 1 = b + k
  BY <1>1
<1> QED BY <1>3, <1>4, <1>5, <1>6

\* A cut of a cut.
LEMMA CutTwice ==
  ASSUME NEW w \in Words, NEW b \in 0..Len(w), NEW e \in b..Len(w),
         NEW i \in 0..(e - b), NEW j \in i..(e - b)
  PROVE  Cut(Cut(w, b, e), i, j) = Cut(w, b + i, b + j)
<1>1. PICK n \in Nat : n = Len(w)
  BY DEF Words
<1>2. PICK v \in Words : v = Cut(w, b, e) /\ Len(v) = e - b /\ \A k \in 1..(e - b) : v[k] = w[b + k]
  BY CutFacts
<1>3. i \in 0..Len(v) /\ j \in i..Len(v) /\ b + i \in 0..n /\ b + j \in (b + i)..n
  BY <1>1, <1>2
<1>4. PICK x, y : x = Cut(v, i, j) /\ y = Cut(w, b + i, b + j)
  OBVIOUS
<1>5. /\ x \in Words /\ Len(x) = j - i /\ \A k \in 1..(j - i) : x[k] = v[i + k]
  BY <1>3, <1>4, CutFacts
<1>6. /\ y \in Words /\ Len(y) = (b + j) - (b + i)
      /\ \A k \in 1..((b + j) - (b + i)) : y[k] = w[(b + i) + k]
  BY <1>1, <1>3, <1>4, CutFacts
<1>7. (b + j) - (b + i) = j - i
  BY <1>1
<1>8. \A k \in 1..(j - i) : x[k] = y[k]
  <2> SUFFICES ASSUME NEW k \in 1..(j - i) PROVE x[k] = y[k]
    OBVIOUS
  <2>1. i + k \in 1..(e - b) /\ b + (i + k) = (b + i) + k
    BY <1>1
  <2> QED BY <1>2, <1>5, <1>6, <1>7, <2>1
<1>9. x \in Seq(WordChars) /\ y \in Seq(WordChars) /\ Len(x) = Len(y)
  BY <1>5, <1>6, <1>7 DEF Words
<1>10. x = y
  BY <1>5, <1>8, <1>9
<1> QED BY <1>2, <1>4, <1>10

\* All of the word.
LEMMA CutAll ==
  ASSUME NEW w \in Words
  PROVE  Cut(w, 0, Len(w)) = w
  BY DEF Words, Cut

\* What is behind a place is an end of the word, and is cut as the word is.
LEMMA BehindFacts ==
  ASSUME NEW w \in Words, NEW b \in 0..Len(w)
  PROVE  /\ Behind(w, b) = Cut(w, b, Len(w)) /\ Behind(w, b) \in Words
         /\ Len(Behind(w, b)) = Len(w) - b /\ Behind(w, b) \in Ends(w)
         /\ \A n \in 0..Len(Behind(w, b)) :
               /\ b + n \in b..Len(w)
               /\ SubSeq(Behind(w, b), 1, n) = Cut(w, b, b + n)
               /\ SubSeq(Behind(w, b), n + 1, Len(Behind(w, b))) = Behind(w, b + n)
<1>0. PICK v : v = Behind(w, b)
  OBVIOUS
<1>1. PICK l \in Nat : l = Len(w)
  BY DEF Words
<1>2. v = Cut(w, b, l) /\ l \in b..Len(w)
  BY <1>0, <1>1 DEF Behind, Cut
<1>3. v \in Words /\ Len(v) = l - b
  BY <1>1, <1>2, CutFacts
<1>4. ASSUME NEW n \in 0..Len(v)
      PROVE  /\ b + n \in b..Len(w)
             /\ SubSeq(v, 1, n) = Cut(w, b, b + n)
             /\ SubSeq(v, n + 1, Len(v)) = Behind(w, b + n)
  <2>1. 0 \in 0..(l - b) /\ n \in 0..(l - b) /\ l - b \in n..(l - b) /\ n \in 0..n
    BY <1>1, <1>3
  <2>2. Cut(v, 0, n) = Cut(w, b + 0, b + n)
    BY <1>2, <2>1, CutTwice
  <2>3. Cut(v, n, l - b) = Cut(w, b + n, b + (l - b))
    BY <1>2, <2>1, CutTwice
  <2>4. Cut(v, 0, n) = SubSeq(v, 1, n) /\ Cut(v, n, l - b) = SubSeq(v, n + 1, Len(v))
    BY <1>3 DEF Cut
  <2>5. Cut(w, b + n, b + (l - b)) = Behind(w, b + n) /\ b + 0 = b
    BY <1>1 DEF Cut, Behind
  <2> QED BY <1>1, <1>3, <2>2, <2>3, <2>4, <2>5
<1>5. v \in Ends(w)
  <2>1. b + 1 \in 1..(Len(w) + 1)
    BY <1>1
  <2> QED BY <1>0, <2>1 DEF Ends, Behind
<1> QED BY <1>0, <1>1, <1>2, <1>3, <1>4, <1>5

-----------------------------------------------------------------------------
(* What a piece of the array says of a piece of the word.                   *)

\* The pieces at from..to are words for the letters of w from b up to e.
Along(at, inf, from, to, w, b, e) ==
  /\ at \in [(from - 1)..to -> b..e]
  /\ at[from - 1] = b /\ at[to] = e
  /\ \A j \in from..to : /\ at[j - 1] <= at[j]
                         /\ inf[j].word # Null
                         /\ Upper(inf[j].word[1]) = Upper(Cut(w, at[j - 1], at[j]))
Covers(inf, from, to, w, b, e) == \E at : Along(at, inf, from, to, w, b, e)

\* It is the words of the pieces that count.
LEMMA CoversSame ==
  ASSUME NEW from \in Nat \ {0}, NEW to \in Nat, NEW inf, NEW new, NEW w, NEW b \in Nat, NEW e \in Nat,
         Covers(inf, from, to, w, b, e), \A j \in from..to : new[j].word = inf[j].word
  PROVE  Covers(new, from, to, w, b, e)
<1>1. PICK at : Along(at, inf, from, to, w, b, e)
  BY DEF Covers
<1>2. Along(at, new, from, to, w, b, e)
  BY <1>1 DEF Along
<1> QED BY <1>2 DEF Covers

\* One piece.
LEMMA CoversOne ==
  ASSUME NEW ci \in Nat \ {0}, NEW inf, NEW w, NEW b \in Nat, NEW e \in Nat, b <= e,
         inf[ci].word # Null, Upper(inf[ci].word[1]) = Upper(Cut(w, b, e))
  PROVE  Covers(inf, ci, ci, w, b, e)
<1>1. PICK at : at = [j \in (ci - 1)..ci |-> IF j = ci THEN e ELSE b]
  OBVIOUS
<1>2. at \in [(ci - 1)..ci -> b..e] /\ at[ci - 1] = b /\ at[ci] = e
  BY <1>1
<1>3. \A j \in ci..ci : j = ci
  OBVIOUS
<1>4. Along(at, inf, ci, ci, w, b, e)
  BY <1>2, <1>3 DEF Along
<1> QED BY <1>4 DEF Covers

\* Pieces, and pieces behind them.
LEMMA CoversBoth ==
  ASSUME NEW from \in Nat \ {0}, NEW mid \in Nat, NEW to \in Nat, from <= mid + 1, mid <= to, NEW inf, NEW w,
         NEW b \in Nat, NEW m \in Nat, NEW e \in Nat, b <= m, m <= e,
         Covers(inf, from, mid, w, b, m), Covers(inf, mid + 1, to, w, m, e)
  PROVE  Covers(inf, from, to, w, b, e)
<1>1. PICK p : Along(p, inf, from, mid, w, b, m)
  BY DEF Covers
<1>2. PICK q : Along(q, inf, mid + 1, to, w, m, e)
  BY DEF Covers
<1>3. PICK at : at = [j \in (from - 1)..to |-> IF j <= mid THEN p[j] ELSE q[j]]
  OBVIOUS
<1>4. \A j \in (from - 1)..mid : at[j] = p[j] /\ p[j] \in b..m
  BY <1>1, <1>3 DEF Along
<1>5. \A j \in mid..to : at[j] = q[j] /\ q[j] \in m..e
  <2> SUFFICES ASSUME NEW j \in mid..to PROVE at[j] = q[j] /\ q[j] \in m..e
    OBVIOUS
  <2>1. q \in [mid..to -> m..e] /\ q[mid] = m
    BY <1>2 DEF Along
  <2>2. p[mid] = m
    BY <1>1 DEF Along
  <2>3. j <= mid => j = mid
    OBVIOUS
  <2> QED BY <1>3, <2>1, <2>2, <2>3
<1>6. at \in [(from - 1)..to -> b..e]
  <2> SUFFICES ASSUME NEW j \in (from - 1)..to PROVE at[j] \in b..e
    BY <1>3
  <2>1. CASE j <= mid
    BY <1>4, <2>1
  <2>2. CASE ~(j <= mid)
    BY <1>5, <2>2
  <2> QED BY <2>1, <2>2
<1>7. at[from - 1] = b /\ at[to] = e
  <2>1. p[from - 1] = b /\ q[to] = e
    BY <1>1, <1>2 DEF Along
  <2> QED BY <1>4, <1>5, <2>1
<1>8. ASSUME NEW j \in from..to
      PROVE  /\ at[j - 1] <= at[j]
             /\ inf[j].word # Null
             /\ Upper(inf[j].word[1]) = Upper(Cut(w, at[j - 1], at[j]))
  <2>1. CASE j <= mid
    <3>1. j \in from..mid /\ j - 1 \in (from - 1)..mid /\ j \in (from - 1)..mid
      BY <2>1
    <3> QED BY <1>1, <1>4, <3>1 DEF Along
  <2>2. CASE ~(j <= mid)
    <3>1. j \in (mid + 1)..to /\ j - 1 \in mid..to /\ j \in mid..to
      BY <2>2
    <3> QED BY <1>2, <1>5, <3>1 DEF Along
  <2> QED BY <2>1, <2>2
<1>9. Along(at, inf, from, to, w, b, e)
  BY <1>6, <1>7, <1>8 DEF Along
<1> QED BY <1>9 DEF Covers

\* Each of them leads to the next, and the last one nowhere.
Linked(inf, from, to) ==
  \A j \in from..to : /\ j \in DOMAIN inf
                      /\ ~inf[j].incorrect
                      /\ inf[j].compound <=> j < to
                      /\ inf[j].next = IF j < to THEN j + 1 ELSE 0

\* What check_runtogether makes at ci of the letters of w behind b.
Sound(r, ci, min, w, b) ==
  /\ DOMAIN r.inf \subseteq ci..Infos
  /\ r.last # 0 => /\ r.last \in ci..Infos
                   /\ Linked(r.inf, ci, r.last)
                   /\ Covers(r.inf, ci, r.last, w, b, Len(w))
                   /\ min > 0 /\ b < Len(w) => r.last <= ci - 1 + (Len(w) - b)

\* The word looked up as it is, at one place.
LEMMA WholeSound ==
  ASSUME ListsOK, NEW w \in Words, NEW b \in 0..Len(w), NEW t \in BOOLEAN, NEW ci \in 1..Infos,
         NEW min \in Nat
  PROVE  Sound(Whole(Behind(w, b), t, ci), ci, min, w, b)
<1>1. PICK v \in Words : v = Behind(w, b) /\ v = Cut(w, b, Len(w)) /\ Len(w) \in Nat
  BY BehindFacts DEF Words
<1>2. PICK found \in Optional : found = Single(v, t) /\ \A d : found = <<d>> => Upper(d) = Upper(v)
  BY <1>1, SingleFacts
<1>3. PICK x \in Info : /\ x = CheckInfo(found, FALSE, 0)
                        /\ x.word = found /\ x.compound = FALSE /\ x.next = 0 /\ x.incorrect = FALSE
  <2>1. CheckInfo(found, FALSE, 0) = [word |-> found, compound |-> FALSE, next |-> 0, incorrect |-> FALSE]
    BY DEF CheckInfo
  <2>2. PICK x : x = [word |-> found, compound |-> FALSE, next |-> 0, incorrect |-> FALSE]
    OBVIOUS
  <2>3. x \in Info
    BY <2>2 DEF Info
  <2> QED BY <2>1, <2>2, <2>3
<1>4. PICK inf \in Writings : inf = Entered(ci, x) /\ DOMAIN inf = {ci} /\ inf[ci] = x
  BY EnteredFacts
<1>5. PICK r : r = Whole(v, t, ci)
  OBVIOUS
<1>6. r.inf = inf /\ r.last = IF found # Null THEN ci ELSE 0
  BY <1>2, <1>3, <1>4, <1>5 DEF Whole
<1>7. DOMAIN r.inf \subseteq ci..Infos
  BY <1>4, <1>6
<1>8. ASSUME r.last # 0
      PROVE  /\ r.last \in ci..Infos
             /\ Linked(r.inf, ci, r.last)
             /\ Covers(r.inf, ci, r.last, w, b, Len(w))
             /\ min > 0 /\ b < Len(w) => r.last <= ci - 1 + (Len(w) - b)
  <2>1. found # Null /\ r.last = ci
    BY <1>6, <1>8
  <2>2. PICK d \in Words : found = <<d>> /\ found[1] = d
    BY <2>1 DEF Optional
  <2>3. Upper(found[1]) = Upper(Cut(w, b, Len(w)))
    BY <1>1, <1>2, <2>2
  <2>4. Covers(inf, ci, ci, w, b, Len(w))
    <3>1. inf[ci].word # Null /\ Upper(inf[ci].word[1]) = Upper(Cut(w, b, Len(w)))
      BY <1>3, <1>4, <2>1, <2>3
    <3>2. PICK e \in Nat : e = Len(w) /\ b <= e /\ b \in Nat
      BY <1>1
    <3>3. Covers(inf, ci, ci, w, b, e)
      BY <3>1, <3>2, CoversOne
    <3> QED BY <3>2, <3>3
  <2>5. Linked(inf, ci, ci)
    <3>1. \A j \in ci..ci : j = ci /\ ~(j < ci)
      OBVIOUS
    <3> QED BY <1>3, <1>4, <3>1 DEF Linked
  <2>6. b < Len(w) => ci <= ci - 1 + (Len(w) - b)
    BY <1>1
  <2> QED BY <1>6, <2>1, <2>4, <2>5, <2>6
<1> QED BY <1>1, <1>5, <1>7, <1>8 DEF Sound

SoundAll(deeper, ci, min, w) ==
  \A b \in 0..Len(w) : \A t \in BOOLEAN : \A l \in 0..Infos :
    Sound(deeper[Behind(w, b)][t][l], ci, min, w, b)

\* One turn: the piece at ci and those behind it are for the letters they stand for,
\* though turns before this one have written to the same places.
LEMMA TryCutSound ==
  ASSUME ListsOK, NEW w \in Words, NEW b \in 0..Len(w), NEW v, v = Behind(w, b),
         NEW acc \in Result, NEW min \in Nat, NEW n \in min..(Len(v) - min), NEW title \in BOOLEAN,
         NEW limit \in 0..Infos, limit > 1, NEW ci \in 1..Infos, NEW deeper \in Deeper(w),
         Sound(acc, ci, min, w, b), SoundAll(deeper, ci + 1, min, w)
  PROVE  Sound(TryCut(acc, v, n, title, limit, ci, deeper), ci, min, w, b)
<1>4. Len(w) \in Nat /\ v \in Words /\ Len(v) = Len(w) - b /\ n \in 0..Len(v) /\ v \in Ends(w)
  <2>1. Len(w) \in Nat
    BY DEF Words
  <2> QED BY <2>1, BehindFacts
<1>1. PICK r : r = TryCut(acc, v, n, title, limit, ci, deeper)
  OBVIOUS
<1>2. PICK found, known, rest, piece :
        Turn(r, acc, v, n, title, limit, ci, deeper, found, known, rest, piece)
  BY <1>1, <1>4, TryCutFacts
<1>3. /\ found = Single(SubSeq(v, 1, n), title)
      /\ rest = deeper[SubSeq(v, n + 1, Len(v))][known[1]][limit - 1]
      /\ piece = CheckInfo(found, rest.last # 0, IF rest.last # 0 THEN ci + 1 ELSE 0)
  BY <1>2 DEF Turn
<1>5. /\ r \in Result /\ found \in Optional /\ known \in Guess /\ known # <<>>
      /\ rest \in Result /\ piece \in Info
      /\ acc.last # 0 => r = acc
      /\ acc.last = 0 /\ found = Null =>
           /\ r.inf = Written(Entered(ci, Cleared), acc.inf)
           /\ r.last = 0 /\ r.title = acc.title
      /\ acc.last = 0 /\ found # Null =>
           /\ r.inf = Written(rest.inf, Written(Entered(ci, piece), acc.inf))
           /\ r.last = rest.last /\ r.title = known
  BY <1>2 DEF Turn
<1>6. CASE acc.last # 0
  BY <1>1, <1>5, <1>6
<1>7. acc.inf \in Writings /\ DOMAIN acc.inf \subseteq ci..Infos
  BY DEF Result, Sound
<1>8. CASE acc.last = 0 /\ found = Null
  <2>1. Entered(ci, Cleared) \in Writings /\ DOMAIN Entered(ci, Cleared) = {ci}
    BY ClearedTyped, EnteredFacts
  <2>2. DOMAIN r.inf \subseteq ci..Infos
    <3>1. PICK f \in Writings, g \in Writings : f = Entered(ci, Cleared) /\ g = acc.inf
      BY <1>7, <2>1
    <3>3. DOMAIN Written(f, g) = DOMAIN f \cup DOMAIN g
      BY WrittenFacts
    <3>2. DOMAIN r.inf = {ci} \cup DOMAIN acc.inf
      BY <1>5, <1>8, <2>1, <3>1, <3>3
    <3> QED BY <1>7, <3>2
  <2> QED BY <1>1, <1>5, <1>8, <2>2 DEF Sound
<1>9. CASE acc.last = 0 /\ found # Null
  <2>1. PICK m : m = b + n
    OBVIOUS
  <2>2. /\ m \in b..Len(w) /\ m \in 0..Len(w) /\ m \in Nat /\ b \in Nat
        /\ SubSeq(v, 1, n) = Cut(w, b, m) /\ SubSeq(v, n + 1, Len(v)) = Behind(w, m)
    <3>1. /\ b + n \in b..Len(w) /\ SubSeq(v, 1, n) = Cut(w, b, b + n)
          /\ SubSeq(v, n + 1, Len(v)) = Behind(w, b + n)
      <4>1. Behind(w, b) = v /\ n \in 0..Len(Behind(w, b))
        BY <1>4
      <4> QED BY <4>1, BehindFacts
    <3> QED BY <1>4, <2>1, <3>1
  <2>3. Sound(rest, ci + 1, min, w, m)
    <3>1. known[1] \in BOOLEAN
      BY <1>5, GuessFacts
    <3>2. limit - 1 \in 0..Infos
      BY LimitAssumption
    <3> QED BY <1>3, <2>2, <3>1, <3>2 DEF SoundAll
  <2>4. PICK one : one = Entered(ci, piece)
    OBVIOUS
  <2>5. one \in Writings /\ DOMAIN one = {ci} /\ one[ci] = piece
    BY <1>5, <2>4, EnteredFacts
  <2>6. PICK base \in Writings : /\ base = Written(one, acc.inf)
                                 /\ DOMAIN base = {ci} \cup DOMAIN acc.inf
                                 /\ base[ci] = piece
    <3>1. PICK f \in Writings, g \in Writings : f = one /\ g = acc.inf
      BY <1>7, <2>5
    <3>2. PICK h \in Writings : /\ h = Written(f, g)
                                /\ DOMAIN h = DOMAIN f \cup DOMAIN g
                                /\ \A i \in DOMAIN f : h[i] = f[i]
      BY WrittenFacts
    <3>3. DOMAIN f = {ci} /\ f[ci] = piece
      BY <2>5, <3>1
    <3> QED BY <3>1, <3>2, <3>3
  <2>7. rest.inf \in Writings /\ DOMAIN rest.inf \subseteq (ci + 1)..Infos
    BY <1>5, <2>3 DEF Result, Sound
  <2>8. r.inf = Written(rest.inf, base)
    BY <1>5, <1>9, <2>4, <2>6
  <2>9. /\ DOMAIN r.inf = DOMAIN rest.inf \cup DOMAIN base
        /\ \A i \in DOMAIN rest.inf : r.inf[i] = rest.inf[i]
        /\ \A i \in DOMAIN base : i \notin DOMAIN rest.inf => r.inf[i] = base[i]
    <3>1. PICK new \in Writings : new = rest.inf
      BY <2>7
    <3>2. /\ DOMAIN Written(new, base) = DOMAIN new \cup DOMAIN base
          /\ \A i \in DOMAIN new : Written(new, base)[i] = new[i]
          /\ \A i \in DOMAIN base : i \notin DOMAIN new => Written(new, base)[i] = base[i]
      BY <2>6, WrittenFacts
    <3> QED BY <2>8, <3>1, <3>2
  <2>10. DOMAIN r.inf \subseteq ci..Infos
    <3>1. ci \in ci..Infos /\ (ci + 1)..Infos \subseteq ci..Infos
      BY LimitAssumption
    <3> QED BY <1>7, <2>6, <2>7, <2>9, <3>1
  <2>11. r.inf[ci] = piece /\ ci \in DOMAIN r.inf
    <3>1. ci \notin DOMAIN rest.inf
      BY <2>7, LimitAssumption
    <3> QED BY <2>6, <2>9, <3>1
  <2>12. ASSUME r.last # 0
         PROVE  /\ r.last \in ci..Infos
                /\ Linked(r.inf, ci, r.last)
                /\ Covers(r.inf, ci, r.last, w, b, Len(w))
                /\ min > 0 /\ b < Len(w) => r.last <= ci - 1 + (Len(w) - b)
    <3>1. PICK to : to = rest.last
      OBVIOUS
    <3>2. r.last = to /\ to # 0
      BY <1>5, <1>9, <2>12, <3>1
    <3>3. /\ to \in (ci + 1)..Infos /\ Linked(rest.inf, ci + 1, to)
          /\ Covers(rest.inf, ci + 1, to, w, m, Len(w))
          /\ min > 0 /\ m < Len(w) => to <= (ci + 1) - 1 + (Len(w) - m)
      BY <2>3, <3>1, <3>2 DEF Sound
    <3>4. to \in Nat /\ ci < to /\ to \in ci..Infos
      BY <3>3, LimitAssumption
    <3>5. piece.word = found /\ piece.compound = TRUE /\ piece.next = ci + 1 /\ piece.incorrect = FALSE
      BY <1>3, <3>1, <3>2 DEF CheckInfo
    <3>6. \A j \in (ci + 1)..to : j \in DOMAIN rest.inf /\ r.inf[j] = rest.inf[j]
      BY <2>9, <3>3 DEF Linked
    <3>7. Linked(r.inf, ci, to)
      <4> SUFFICES ASSUME NEW j \in ci..to
                   PROVE  /\ j \in DOMAIN r.inf
                          /\ ~r.inf[j].incorrect
                          /\ r.inf[j].compound <=> j < to
                          /\ r.inf[j].next = IF j < to THEN j + 1 ELSE 0
        BY DEF Linked
      <4>1. CASE j = ci
        BY <2>11, <3>4, <3>5, <4>1
      <4>2. CASE j # ci
        <5>1. j \in (ci + 1)..to
          BY <4>2
        <5> QED BY <2>9, <3>3, <3>6, <5>1 DEF Linked
      <4> QED BY <4>1, <4>2
    <3>8. Covers(r.inf, ci, ci, w, b, m)
      <4>1. PICK d \in Words : found = <<d>> /\ found[1] = d
        BY <1>5, <1>9 DEF Optional
      <4>2. SubSeq(v, 1, n) \in Words
        BY <1>4, <2>2, CutFacts
      <4>3. Upper(d) = Upper(Cut(w, b, m))
        BY <1>3, <2>2, <4>1, <4>2, SingleFacts
      <4>4. r.inf[ci].word # Null /\ Upper(r.inf[ci].word[1]) = Upper(Cut(w, b, m))
        BY <1>9, <2>11, <3>5, <4>1, <4>3
      <4>5. PICK f \in Nat \ {0}, x \in Nat, y \in Nat : f = ci /\ x = b /\ y = m /\ x <= y
        BY <2>2, LimitAssumption
      <4>6. Covers(r.inf, f, f, w, x, y)
        BY <4>4, <4>5, CoversOne
      <4> QED BY <4>5, <4>6
    <3>9. Covers(r.inf, ci + 1, to, w, m, Len(w))
      <4>1. PICK f \in Nat \ {0}, e \in Nat : f = ci + 1 /\ e = Len(w)
        <5>1. ci + 1 \in Nat \ {0}
          BY LimitAssumption
        <5>2. Len(w) \in Nat
          BY DEF Words
        <5> QED BY <5>1, <5>2
      <4>2. PICK old, new : old = rest.inf /\ new = r.inf
        OBVIOUS
      <4>3. Covers(old, f, to, w, m, e) /\ \A j \in f..to : new[j].word = old[j].word
        BY <3>3, <3>6, <4>1, <4>2
      <4>4. Covers(new, f, to, w, m, e)
        BY <2>2, <3>4, <4>3, CoversSame
      <4> QED BY <4>1, <4>2, <4>4
    <3>10. Covers(r.inf, ci, to, w, b, Len(w))
      <4>1. PICK e \in Nat : e = Len(w) /\ b <= m /\ m <= e
        BY <1>4, <2>2
      <4>2. Covers(r.inf, ci, to, w, b, e)
        BY <2>2, <3>4, <3>8, <3>9, <4>1, CoversBoth
      <4> QED BY <4>1, <4>2
    <3>11. min > 0 /\ b < Len(w) => to <= ci - 1 + (Len(w) - b)
      BY <1>4, <2>1, <3>3, <3>4
    <3> QED BY <3>2, <3>4, <3>7, <3>10, <3>11
  <2> QED BY <1>1, <2>10, <2>12 DEF Sound
<1> QED BY <1>6, <1>8, <1>9

\* So after every turn.
LEMMA AttemptSound ==
  ASSUME ListsOK, NEW w \in Words, NEW b \in 0..Len(w), NEW min \in Nat, NEW title \in BOOLEAN,
         NEW limit \in 0..Infos, NEW ci \in 1..Infos, NEW deeper \in Deeper(w),
         SoundAll(deeper, ci + 1, min, w)
  PROVE  Sound(Attempt(Behind(w, b), title, limit, min, ci, deeper), ci, min, w, b)
<1>1. PICK v \in Ends(w) : v = Behind(w, b) /\ v \in Words
  BY BehindFacts
<1>0. /\ limit <= 1 => Attempt(v, title, limit, min, ci, deeper) = Whole(v, title, ci)
      /\ limit > 1 => \E tried : /\ Tries(tried, v, title, limit, min, ci, deeper)
                                 /\ Attempt(v, title, limit, min, ci, deeper)
                                      = tried[Len(Cuts(v, min))]
  BY AttemptIs
<1>2. Sound(Whole(v, title, ci), ci, min, w, b)
  BY <1>1, WholeSound
<1>3. CASE limit <= 1
  <2>1. Attempt(v, title, limit, min, ci, deeper) = Whole(v, title, ci)
    BY <1>0, <1>3
  <2> QED BY <1>1, <1>2, <2>1
<1>4. CASE limit > 1
  <2>1. PICK tried : /\ Tries(tried, v, title, limit, min, ci, deeper)
                     /\ Attempt(v, title, limit, min, ci, deeper) = tried[Len(Cuts(v, min))]
    BY <1>0, <1>4
  <2>a. PICK cuts : cuts = Cuts(v, min)
    OBVIOUS
  <2>b. Len(Cuts(v, min)) \in Nat
    BY <1>1, CutsFacts
  <2>2. PICK m \in Nat : cuts = Cuts(v, min) /\ m = Len(cuts)
    BY <2>a, <2>b
  <2>3. \A k \in 1..m : cuts[k] \in min..(Len(v) - min)
    BY <1>1, <2>2, CutsFacts
  <2> DEFINE H == {k \in Nat : k \in 0..m => Sound(tried[k], ci, min, w, b)}
  <2>4. 0 \in H
    BY <1>2, <2>1 DEF Tries
  <2>5. ASSUME NEW k \in Nat, k \in H PROVE k + 1 \in H
    <3> SUFFICES ASSUME k + 1 \in 0..m PROVE Sound(tried[k + 1], ci, min, w, b)
      OBVIOUS
    <3>1. k \in 0..m /\ k + 1 \in 1..m /\ (k + 1) - 1 = k
      OBVIOUS
    <3>2. Sound(tried[k], ci, min, w, b)
      BY <2>5, <3>1
    <3>3. tried[k] \in Result /\ tried[k + 1] = TryCut(tried[k], v, cuts[k + 1], title, limit, ci, deeper)
      BY <2>1, <2>2, <3>1 DEF Tries
    <3>4. PICK n \in min..(Len(v) - min), acc \in Result : n = cuts[k + 1] /\ acc = tried[k]
      BY <2>3, <3>1, <3>3
    <3>5. Sound(TryCut(acc, v, n, title, limit, ci, deeper), ci, min, w, b)
      BY <1>1, <1>4, <3>2, <3>4, TryCutSound
    <3> QED BY <3>3, <3>4, <3>5
  <2>6. Nat \subseteq H
    <3> HIDE DEF H
    <3> QED BY <2>4, <2>5, NatSetInduction
  <2>7. m \in 0..m
    OBVIOUS
  <2>8. Sound(tried[m], ci, min, w, b)
    BY <2>6, <2>7
  <2> QED BY <1>1, <2>1, <2>2, <2>8
<1> QED BY <1>3, <1>4, LimitAssumption

\* So with every place of the array, from the last to the first.
LEMMA AttemptsSound ==
  ASSUME ListsOK, NEW w \in Words, NEW min \in Nat, NEW room \in 0..Infos
  PROVE  /\ Attempts(w, min)[room] \in Deeper(w)
         /\ SoundAll(Attempts(w, min)[room], Infos + 1 - room, min, w)
<1>1. PICK run : run = Attempts(w, min)
  OBVIOUS
<1>2. Fills(run, w, min)
  BY <1>1, AttemptsIs
<1>3. PICK N \in Nat : N = Infos
  BY LimitAssumption
<1> DEFINE H == {k \in Nat : k \in 0..N => SoundAll(run[k], Infos + 1 - k, min, w)}
<1>4. 0 \in H
  <2> SUFFICES ASSUME NEW b \in 0..Len(w), NEW t \in BOOLEAN, NEW l \in 0..Infos
               PROVE  Sound(run[0][Behind(w, b)][t][l], Infos + 1 - 0, min, w, b)
    BY DEF SoundAll
  <2>1. Behind(w, b) \in Ends(w)
    BY BehindFacts
  <2>2. run[0][Behind(w, b)][t][l] = [inf |-> <<>>, last |-> 0, title |-> <<>>]
    BY <1>2, <2>1 DEF Fills, NoRoom
  <2>3. DOMAIN <<>> = {}
    OBVIOUS
  <2> QED BY <2>2, <2>3 DEF Sound
<1>5. ASSUME NEW k \in Nat, k \in H PROVE k + 1 \in H
  <2> SUFFICES ASSUME k + 1 \in 0..N PROVE SoundAll(run[k + 1], Infos + 1 - (k + 1), min, w)
    OBVIOUS
  <2>1. k \in 0..N /\ k + 1 \in 1..Infos /\ (k + 1) - 1 = k /\ k \in 0..Infos
    BY <1>3
  <2>2. PICK ci \in 1..Infos : ci = Infos + 1 - (k + 1) /\ ci + 1 = Infos + 1 - k
    BY <1>3, <2>1
  <2>3. PICK deeper \in Deeper(w) : deeper = run[k]
    BY <1>2, <2>1 DEF Fills
  <2>4. SoundAll(deeper, ci + 1, min, w)
    BY <1>5, <2>1, <2>2, <2>3
  <2>5. run[k + 1] = AtPlace(w, ci, min, deeper)
    BY <1>2, <2>1, <2>2, <2>3 DEF Fills
  <2> SUFFICES ASSUME NEW b \in 0..Len(w), NEW t \in BOOLEAN, NEW l \in 0..Infos
               PROVE  Sound(run[k + 1][Behind(w, b)][t][l], ci, min, w, b)
    BY <2>2 DEF SoundAll
  <2>6. Behind(w, b) \in Ends(w)
    BY BehindFacts
  <2>7. run[k + 1][Behind(w, b)][t][l] = Attempt(Behind(w, b), t, l, min, ci, deeper)
    BY <2>5, <2>6, AtPlaceTyped
  <2> QED BY <2>4, <2>7, AttemptSound
<1>6. Nat \subseteq H
  <2> HIDE DEF H
  <2> QED BY <1>4, <1>5, NatSetInduction
<1>7. room \in 0..N /\ room \in Nat
  BY <1>3
<1>8. run[room] \in Deeper(w)
  BY <1>2 DEF Fills
<1> QED BY <1>1, <1>6, <1>7, <1>8

-----------------------------------------------------------------------------
(* Ends, without the places before b.                                       *)

\* Where the piece that ends at e begins, of those that end at ends, behind b.
Begin(b, ends, e) == Max({b} \cup {x \in ends : x < e})
PieceFrom(w, b, ends, e) == Cut(w, Begin(b, ends, e), e)

\* The greatest of some numbers.
LEMMA MaxIn ==
  ASSUME NEW n \in Nat, NEW s, s \subseteq 0..n, s # {}
  PROVE  Max(s) \in s /\ \A y \in s : y <= Max(s)
<1>1. PICK T : T = {x \in Nat : \A y \in s : y <= x}
  OBVIOUS
<1>2. n \in T /\ T \subseteq Nat
  BY <1>1
<1>3. PICK m \in T : \A y \in T : m <= y
  BY <1>2, LeastNatural
<1>4. m \in Nat /\ \A y \in s : y <= m
  BY <1>1, <1>3
<1>5. m \in s
  <2> SUFFICES ASSUME m \notin s PROVE FALSE
    OBVIOUS
  <2>0. PICK y : y \in s
    OBVIOUS
  <2>1. y \in s /\ y \in Nat
    BY <2>0
  <2>2. m - 1 \in Nat /\ ~(m <= m - 1)
    BY <1>4, <2>1
  <2>3. \A z \in s : z <= m - 1
    BY <1>4
  <2>4. m - 1 \in T
    BY <1>1, <2>2, <2>3
  <2> QED BY <1>3, <2>2, <2>4
<1>6. Max(s) = CHOOSE x \in s : \A y \in s : x >= y
  BY DEF Max
<1>7. \A y \in s : m >= y
  BY <1>4
<1>8. Max(s) \in s /\ \A y \in s : Max(s) >= y
  BY <1>5, <1>6, <1>7
<1> QED BY <1>8

\* Begin is the greatest.
LEMMA BeginFacts ==
  ASSUME NEW l \in Nat, NEW b \in 0..l, NEW ends \in SUBSET ((b + 1)..l), NEW e \in (b + 1)..l
  PROVE  /\ Begin(b, ends, e) \in b..(e - 1)
         /\ Begin(b, ends, e) = b \/ Begin(b, ends, e) \in ends
         /\ \A x \in ends : x < e => x <= Begin(b, ends, e)
<1>1. PICK s : s = {b} \cup {x \in ends : x < e}
  OBVIOUS
<1>2. s \subseteq 0..l /\ s # {} /\ s \subseteq b..(e - 1)
  <2>1. b \in Nat /\ b <= l /\ e \in Nat /\ b + 1 <= e /\ e <= l
    OBVIOUS
  <2>2. \A x \in s : x = b \/ (x \in Nat /\ b + 1 <= x /\ x < e)
    BY <1>1
  <2>3. \A x \in s : x \in 0..l /\ x \in b..(e - 1)
    BY <2>1, <2>2
  <2> QED BY <1>1, <2>3
<1>3. Max(s) \in s /\ \A y \in s : y <= Max(s)
  BY <1>2, MaxIn
<1>4. Begin(b, ends, e) = Max(s)
  BY <1>1 DEF Begin
<1> QED BY <1>1, <1>2, <1>3, <1>4

\* It is known by that.
LEMMA BeginIs ==
  ASSUME NEW l \in Nat, NEW b \in 0..l, NEW ends \in SUBSET ((b + 1)..l), NEW e \in (b + 1)..l,
         NEW s \in b..(e - 1), s = b \/ s \in ends, \A x \in ends : x < e => x <= s
  PROVE  Begin(b, ends, e) = s
<1>1. PICK r : r = Begin(b, ends, e)
  OBVIOUS
<1>2. r \in b..(e - 1) /\ (r = b \/ r \in ends) /\ \A x \in ends : x < e => x <= r
  BY <1>1, BeginFacts
<1>3. r <= s
  BY <1>2
<1>4. s <= r
  BY <1>2
<1> QED BY <1>1, <1>2, <1>3, <1>4

\* With the first piece, which ends at m, and without it.
BeginsApart(l, b, m, rest) ==
  /\ rest \cup {m} \in SUBSET ((b + 1)..l)
  /\ Begin(b, rest \cup {m}, m) = b
  /\ \A e \in rest : Begin(b, rest \cup {m}, e) = Begin(m, rest, e)
\* So they are apart.
LEMMA BeginSplit ==
  ASSUME NEW l \in Nat, NEW b \in 0..l, NEW m \in (b + 1)..l,
         NEW rest \in SUBSET ((m + 1)..l)
  PROVE  BeginsApart(l, b, m, rest)
<1>0. PICK ends : ends = rest \cup {m}
  OBVIOUS
<1>1. ends \in SUBSET ((b + 1)..l)
  BY <1>0
<1>2. Begin(b, ends, m) = b
  BY <1>0, <1>1, BeginIs
<1>3. ASSUME NEW e \in rest PROVE Begin(b, ends, e) = Begin(m, rest, e)
  <2>1. m \in 0..l /\ e \in (m + 1)..l /\ e \in (b + 1)..l
    OBVIOUS
  <2>2. PICK s : s = Begin(m, rest, e)
    OBVIOUS
  <2>3. s \in m..(e - 1) /\ (s = m \/ s \in rest) /\ \A x \in rest : x < e => x <= s
    BY <2>1, <2>2, BeginFacts
  <2>4. s \in b..(e - 1) /\ (s = b \/ s \in ends) /\ \A x \in ends : x < e => x <= s
    BY <1>0, <2>1, <2>3
  <2>5. Begin(b, ends, e) = s
    BY <1>1, <2>1, <2>4, BeginIs
  <2> QED BY <2>2, <2>5
<1> QED BY <1>0, <1>1, <1>2, <1>3 DEF BeginsApart

\* The least of the ends is that of the first piece.
FirstEnd(m, rest, ends, b, l) ==
  /\ m \in (b + 1)..l /\ rest \in SUBSET ((m + 1)..l)
  /\ ends = rest \cup {m} /\ m \notin rest
  /\ IsFiniteSet(rest) /\ Cardinality(ends) = Cardinality(rest) + 1
\* There is a first piece.
LEMMA FirstOfEnds ==
  ASSUME NEW l \in Nat, NEW b \in 0..l, NEW ends \in SUBSET ((b + 1)..l), ends # {}
  PROVE  \E m, rest : FirstEnd(m, rest, ends, b, l)
<1>1. ends \subseteq Nat
  OBVIOUS
<1>2. PICK m \in ends : \A y \in ends : m <= y
  BY <1>1, LeastNatural
<1>3. PICK rest : rest = ends \ {m}
  OBVIOUS
<1>4. m \in (b + 1)..l /\ rest \in SUBSET ((m + 1)..l) /\ ends = rest \cup {m} /\ m \notin rest
  BY <1>2, <1>3
<1>5. IsFiniteSet((m + 1)..l)
  BY <1>4, FS_Interval
<1>6. IsFiniteSet(rest)
  BY <1>4, <1>5, FS_Subset
<1>7. Cardinality(ends) = Cardinality(rest) + 1
  BY <1>4, <1>6, FS_AddElement
<1> QED BY <1>4, <1>6, <1>7 DEF FirstEnd

-----------------------------------------------------------------------------
(* The words that are strung of the letters of w behind b.                  *)

Capital(w, b, ends, t, e) == t \/ \E x \in ends : x < e /\ FirstUpper(PieceFrom(w, b, ends, x))
Fits(w, b, ends, t, e, min) ==
  /\ Len(PieceFrom(w, b, ends, e)) >= min
  /\ Single(PieceFrom(w, b, ends, e), Capital(w, b, ends, t, e)) # Null
StringOf(w, b, ends, t, min) ==
  /\ ends \in SUBSET ((b + 1)..Len(w)) /\ Len(w) \in ends
  /\ \A e \in ends : Fits(w, b, ends, t, e, min)
StrungFrom(w, b, t, l, min) ==
  \E ends : StringOf(w, b, ends, t, min) /\ Cardinality(ends) \in 1..l

\* What is known of the case behind a piece.
Knowing(t, piece) == t \/ FirstUpper(piece)

\* It is a truth value.
LEMMA KnowingTyped ==
  ASSUME NEW t \in BOOLEAN, NEW piece
  PROVE  Knowing(t, piece) \in BOOLEAN
  BY DEF Knowing

\* One piece, then a string of the rest.
LEMMA StringSplit ==
  ASSUME NEW w \in Words, NEW b \in 0..Len(w), NEW m \in (b + 1)..Len(w),
         NEW rest \in SUBSET ((m + 1)..Len(w)), rest # {}, NEW t \in BOOLEAN, NEW min \in Nat
  PROVE  StringOf(w, b, rest \cup {m}, t, min) <=>
           /\ m - b >= min
           /\ Single(Cut(w, b, m), t) # Null
           /\ StringOf(w, m, rest, Knowing(t, Cut(w, b, m)), min)
<1>1. PICK l \in Nat : l = Len(w)
  BY DEF Words
<1>0. PICK ends : ends = rest \cup {m}
  OBVIOUS
<1>2. /\ ends \in SUBSET ((b + 1)..l)
      /\ Begin(b, ends, m) = b
      /\ \A e \in rest : Begin(b, ends, e) = Begin(m, rest, e)
  <2>1. b \in 0..l /\ m \in (b + 1)..l /\ rest \in SUBSET ((m + 1)..l)
    BY <1>1
  <2>2. BeginsApart(l, b, m, rest)
    BY <2>1, BeginSplit
  <2> QED BY <1>0, <2>2 DEF BeginsApart
<1>3. PICK one : one = Cut(w, b, m)
  OBVIOUS
<1>4. PieceFrom(w, b, ends, m) = one /\ \A e \in rest : PieceFrom(w, b, ends, e) = PieceFrom(w, m, rest, e)
  BY <1>2, <1>3 DEF PieceFrom
<1>5. Len(one) = m - b
  <2>1. m \in b..Len(w)
    BY <1>1
  <2> QED BY <1>3, <2>1, CutFacts
<1>6. PICK t2 \in BOOLEAN : t2 = Knowing(t, one)
  BY KnowingTyped
<1>7. \A x \in rest : m < x /\ x \in (m + 1)..l
  BY <1>1
<1>8. Fits(w, b, ends, t, m, min) <=> m - b >= min /\ Single(one, t) # Null
  <2>1. \A x \in ends : ~(x < m)
    BY <1>0, <1>1, <1>7
  <2>2. Capital(w, b, ends, t, m) = t
    BY <2>1 DEF Capital
  <2> QED BY <1>4, <1>5, <2>2 DEF Fits
<1>9. ASSUME NEW e \in rest
      PROVE  Fits(w, b, ends, t, e, min) <=> Fits(w, m, rest, t2, e, min)
  <2>1. Capital(w, b, ends, t, e) <=> Capital(w, m, rest, t2, e)
    <3>1. (\E x \in ends : x < e /\ FirstUpper(PieceFrom(w, b, ends, x)))
            <=> FirstUpper(one) \/ \E x \in rest : x < e /\ FirstUpper(PieceFrom(w, m, rest, x))
      BY <1>0, <1>4, <1>7
    <3> QED BY <1>6, <3>1 DEF Capital, Knowing
  <2>2. PICK c \in BOOLEAN : c = Capital(w, b, ends, t, e)
    BY DEF Capital
  <2>3. c = Capital(w, m, rest, t2, e)
    BY <2>1, <2>2 DEF Capital
  <2> QED BY <1>4, <2>2, <2>3 DEF Fits
<1>10. l \in ends <=> l \in rest
  <2>1. PICK x : x \in rest
    OBVIOUS
  <2>2. m # l
    BY <1>7, <2>1, <1>1
  <2> QED BY <1>0, <2>2
<1>11. StringOf(w, b, ends, t, min) <=>
         /\ l \in ends /\ Fits(w, b, ends, t, m, min)
         /\ \A e \in rest : Fits(w, b, ends, t, e, min)
  BY <1>0, <1>1, <1>2 DEF StringOf
<1>12. StringOf(w, m, rest, t2, min) <=> l \in rest /\ \A e \in rest : Fits(w, m, rest, t2, e, min)
  BY <1>1 DEF StringOf
<1> QED BY <1>0, <1>3, <1>6, <1>8, <1>9, <1>10, <1>11, <1>12

\* The rest as one piece.
LEMMA StringOne ==
  ASSUME NEW w \in Words, NEW b \in 0..Len(w), b < Len(w), NEW t \in BOOLEAN, NEW min \in Nat
  PROVE  StringOf(w, b, {Len(w)}, t, min) <=> Len(w) - b >= min /\ Single(Behind(w, b), t) # Null
<1>1. PICK l \in Nat : l = Len(w)
  BY DEF Words
<1>2. {l} \in SUBSET ((b + 1)..l) /\ l \in (b + 1)..l /\ b \in b..(l - 1)
  BY <1>1
<1>3. Begin(b, {l}, l) = b
  <2>1. PICK ends : ends = {l}
    OBVIOUS
  <2>2. b \in 0..l /\ ends \in SUBSET ((b + 1)..l) /\ \A x \in ends : x < l => x <= b
    BY <1>1, <1>2, <2>1
  <2>3. Begin(b, ends, l) = b
    BY <1>2, <2>2, BeginIs
  <2> QED BY <2>1, <2>3
<1>4. PieceFrom(w, b, {l}, l) = Behind(w, b)
  BY <1>1, <1>3 DEF PieceFrom, Cut, Behind
<1>5. Len(Behind(w, b)) = l - b
  BY <1>1, BehindFacts
<1>6. Capital(w, b, {l}, t, l) = t
  BY <1>1 DEF Capital
<1> QED BY <1>1, <1>2, <1>4, <1>5, <1>6 DEF StringOf, Fits

\* All of the strings with a piece less.
LEMMA StrungStep ==
  ASSUME NEW w \in Words, NEW b \in 0..Len(w), b < Len(w), NEW t \in BOOLEAN, NEW min \in Nat,
         min > 0, NEW l \in Nat, l > 0
  PROVE  StrungFrom(w, b, t, l, min) <=>
           \/ Len(w) - b >= min /\ Single(Behind(w, b), t) # Null
           \/ \E m \in (b + 1)..Len(w) :
                /\ m - b >= min /\ Single(Cut(w, b, m), t) # Null
                /\ StrungFrom(w, m, Knowing(t, Cut(w, b, m)), l - 1, min)
<1>1. PICK n \in Nat : n = Len(w)
  BY DEF Words
<1>2. ASSUME StrungFrom(w, b, t, l, min)
      PROVE  \/ n - b >= min /\ Single(Behind(w, b), t) # Null
             \/ \E m \in (b + 1)..n :
                  /\ m - b >= min /\ Single(Cut(w, b, m), t) # Null
                  /\ StrungFrom(w, m, Knowing(t, Cut(w, b, m)), l - 1, min)
  <2>1. PICK ends : StringOf(w, b, ends, t, min) /\ Cardinality(ends) \in 1..l
    BY <1>2 DEF StrungFrom
  <2>2. ends \in SUBSET ((b + 1)..n) /\ ends # {} /\ n \in ends
    BY <1>1, <2>1 DEF StringOf
  <2>3. PICK m, rest : FirstEnd(m, rest, ends, b, n)
    <3>1. b \in 0..n
      BY <1>1
    <3> QED BY <1>1, <2>2, <3>1, FirstOfEnds
  <2>6. /\ m \in (b + 1)..n /\ rest \in SUBSET ((m + 1)..n)
        /\ ends = rest \cup {m} /\ m \notin rest
        /\ IsFiniteSet(rest) /\ Cardinality(ends) = Cardinality(rest) + 1
    BY <2>3 DEF FirstEnd
  <2>4. CASE rest = {}
    <3>1. ends = {Len(w)}
      BY <1>1, <2>2, <2>6, <2>4
    <3>2. StringOf(w, b, {Len(w)}, t, min)
      BY <2>1, <3>1
    <3> QED BY <1>1, <3>2, StringOne
  <2>5. CASE rest # {}
    <3>1. /\ m - b >= min /\ Single(Cut(w, b, m), t) # Null
          /\ StringOf(w, m, rest, Knowing(t, Cut(w, b, m)), min)
      <4>1. m \in (b + 1)..Len(w) /\ rest \in SUBSET ((m + 1)..Len(w))
        BY <1>1, <2>6
      <4> QED BY <2>1, <2>6, <2>5, <4>1, StringSplit
    <3>2. Cardinality(rest) \in Nat /\ Cardinality(rest) # 0
      BY <2>6, <2>5, FS_CardinalityType, FS_EmptySet
    <3>3. Cardinality(rest) \in 1..(l - 1)
      BY <2>1, <2>6, <3>2
    <3>4. StrungFrom(w, m, Knowing(t, Cut(w, b, m)), l - 1, min)
      BY <3>1, <3>3 DEF StrungFrom
    <3> QED BY <2>6, <3>1, <3>4
  <2> QED BY <2>4, <2>5
<1>3. ASSUME n - b >= min, Single(Behind(w, b), t) # Null PROVE StrungFrom(w, b, t, l, min)
  <2>1. StringOf(w, b, {Len(w)}, t, min)
    BY <1>1, <1>3, StringOne
  <2>2. Cardinality({Len(w)}) \in 1..l
    <3>1. Cardinality({Len(w)}) = 1
      BY FS_Singleton
    <3> QED BY <3>1
  <2> QED BY <2>1, <2>2 DEF StrungFrom
<1>4. ASSUME NEW m \in (b + 1)..n, m - b >= min, Single(Cut(w, b, m), t) # Null,
             StrungFrom(w, m, Knowing(t, Cut(w, b, m)), l - 1, min)
      PROVE  StrungFrom(w, b, t, l, min)
  <2>1. PICK rest : /\ StringOf(w, m, rest, Knowing(t, Cut(w, b, m)), min)
                    /\ Cardinality(rest) \in 1..(l - 1)
    BY <1>4 DEF StrungFrom
  <2>2. rest \in SUBSET ((m + 1)..n) /\ rest # {} /\ m \notin rest
    BY <1>1, <2>1 DEF StringOf
  <2>3. PICK ends : ends = rest \cup {m}
    OBVIOUS
  <2>4. StringOf(w, b, ends, t, min)
    BY <1>1, <1>4, <2>1, <2>2, <2>3, StringSplit
  <2>5. IsFiniteSet(rest)
    <3>1. IsFiniteSet((m + 1)..n)
      BY <1>1, FS_Interval
    <3> QED BY <2>2, <3>1, FS_Subset
  <2>6. Cardinality(ends) = Cardinality(rest) + 1
    BY <2>2, <2>3, <2>5, FS_AddElement
  <2>7. Cardinality(ends) \in 1..l
    BY <2>1, <2>6
  <2> QED BY <2>4, <2>7 DEF StrungFrom
<1> QED BY <1>1, <1>2, <1>3, <1>4

\* A string is as long as its last piece at least.
LEMMA StrungLong ==
  ASSUME NEW w \in Words, NEW b \in 0..Len(w), NEW t, NEW min \in Nat, NEW l,
         StrungFrom(w, b, t, l, min)
  PROVE  b < Len(w) /\ Len(w) - b >= min
<1>1. PICK n \in Nat : n = Len(w)
  BY DEF Words
<1>2. PICK ends : StringOf(w, b, ends, t, min)
  BY DEF StrungFrom
<1>3. ends \in SUBSET ((b + 1)..n) /\ n \in ends /\ Fits(w, b, ends, t, n, min)
  BY <1>1, <1>2 DEF StringOf
<1>4. PICK s : s = Begin(b, ends, n)
  OBVIOUS
<1>5. s \in b..(n - 1)
  <2>1. n \in (b + 1)..n
    BY <1>3
  <2> QED BY <1>1, <1>3, <1>4, <2>1, BeginFacts
<1>6. Len(PieceFrom(w, b, ends, n)) = n - s
  <2>1. s \in 0..Len(w) /\ n \in s..Len(w)
    BY <1>1, <1>5
  <2> QED BY <1>4, <2>1, CutFacts DEF PieceFrom
<1>7. n - s >= min
  BY <1>3, <1>6 DEF Fits
<1> QED BY <1>1, <1>5, <1>7

-----------------------------------------------------------------------------
(* What the attempts find.                                                  *)

\* Guessable, for cuts: every prefix that fits has the capital of the first.
LEMMA GuessableCuts ==
  ASSUME NEW w \in Words, NEW min \in Nat, min > 0, Guessable(w, min), NEW b \in 0..Len(w),
         NEW j \in (b + min)..Len(w), NEW k \in (b + min)..Len(w),
         Entry(Cut(w, b, j)) # Null, Entry(Cut(w, b, k)) # Null
  PROVE  FirstUpper(Cut(w, b, j)) = FirstUpper(Cut(w, b, k))
<1>1. PICK n \in Nat : n = Len(w) /\ DOMAIN w = 1..n
  BY DEF Words
<1>2. PICK i \in 1..n : i = b + 1
  BY <1>1
<1>3. j \in i..Len(w) /\ k \in i..Len(w) /\ j + 1 - i >= min /\ k + 1 - i >= min
  BY <1>1, <1>2
<1>4. PICK fit : fit = {x \in i..Len(w) : Entry(SubSeq(w, i, x)) # Null}
  OBVIOUS
<1>5. \A x, y \in fit : x + 1 - i >= min /\ x <= y
          => FirstUpper(SubSeq(w, i, x)) = FirstUpper(SubSeq(w, i, y))
  BY <1>1, <1>4 DEF Guessable
<1>6. j \in fit /\ k \in fit
  BY <1>2, <1>3, <1>4 DEF Cut
<1>7. j <= k \/ k <= j
  BY <1>1
<1> QED BY <1>2, <1>3, <1>5, <1>6, <1>7 DEF Cut

\* The piece of n letters behind b fits, and so does what is behind it.
LeadsOn(deeper, w, b, t, l, n) ==
  /\ Single(Cut(w, b, b + n), t) # Null
  /\ deeper[Behind(w, b + n)][Knowing(t, Cut(w, b, b + n))][l - 1].last # 0

\* What is known of the case is so of every prefix that fits.
Knows(title, w, b, t, min) ==
  /\ t => title # <<>>
  /\ title # <<>> => \A m \in (b + min)..Len(w) :
                        Single(Cut(w, b, m), t) # Null => title[1] = Knowing(t, Cut(w, b, m))

Completes(r, acc, deeper, w, b, t, limit, n, min) ==
  /\ r.last # 0 <=> acc.last # 0 \/ LeadsOn(deeper, w, b, t, limit, n)
  /\ r.last = 0 => Knows(r.title, w, b, t, min)

\* One turn: it finds what there is to find with this prefix, and guesses right.
LEMMA TryCutComplete ==
  ASSUME ListsOK, NEW w \in Words, NEW b \in 0..Len(w), NEW acc \in Result, NEW min \in Nat,
         min > 0, Guessable(w, min), NEW n \in min..(Len(w) - b - min), NEW t \in BOOLEAN,
         NEW limit \in 0..Infos, limit > 1, NEW ci \in 1..Infos, NEW deeper \in Deeper(w),
         acc.last = 0 => Knows(acc.title, w, b, t, min)
  PROVE  Completes(TryCut(acc, Behind(w, b), n, t, limit, ci, deeper), acc, deeper, w, b, t, limit,
                   n, min)
<1>1. PICK v, r : v = Behind(w, b) /\ r = TryCut(acc, v, n, t, limit, ci, deeper)
  OBVIOUS
<1>2. PICK L \in Nat : L = Len(w)
  BY DEF Words
<1>3. /\ v \in Ends(w) /\ v \in Words /\ n \in 0..Len(v) /\ b + n \in 0..L /\ b + n \in (b + min)..L
      /\ SubSeq(v, 1, n) = Cut(w, b, b + n) /\ SubSeq(v, n + 1, Len(v)) = Behind(w, b + n)
  <2>1. n \in 0..Len(Behind(w, b))
    BY <1>2, BehindFacts
  <2> QED BY <1>1, <1>2, <2>1, BehindFacts
<1>4. PICK found, known, rest, piece : Turn(r, acc, v, n, t, limit, ci, deeper, found, known, rest, piece)
  BY <1>1, <1>3, TryCutFacts
<1>5. PICK one : one = Cut(w, b, b + n)
  OBVIOUS
<1>6. /\ found = Single(one, t) /\ known \in Guess /\ known # <<>>
      /\ known = IF acc.title = <<>> THEN <<FirstUpper(one)>> ELSE acc.title
      /\ rest = deeper[Behind(w, b + n)][known[1]][limit - 1]
      /\ acc.last # 0 => r = acc
      /\ acc.last = 0 /\ found = Null => r.last = 0 /\ r.title = acc.title
      /\ acc.last = 0 /\ found # Null => r.last = rest.last /\ r.title = known
  BY <1>3, <1>4, <1>5 DEF Turn
<1> SUFFICES /\ r.last # 0 <=> acc.last # 0 \/ LeadsOn(deeper, w, b, t, limit, n)
             /\ r.last = 0 => Knows(r.title, w, b, t, min)
  BY <1>1 DEF Completes
<1>7. CASE acc.last # 0
  <2>1. r = acc
    BY <1>6, <1>7
  <2> QED BY <1>7, <2>1
<1>8. CASE acc.last = 0 /\ found = Null
  <2>1. ~LeadsOn(deeper, w, b, t, limit, n)
    BY <1>5, <1>6, <1>8 DEF LeadsOn
  <2> QED BY <1>6, <1>8, <2>1
<1>9. CASE acc.last = 0 /\ found # Null
  <2>1. known[1] = Knowing(t, one)
    <3>1. CASE acc.title = <<>>
      <4>1. ~t
        BY <1>9, <3>1 DEF Knows
      <4>2. known = <<FirstUpper(one)>> /\ Knowing(t, one) = FirstUpper(one)
        BY <1>6, <3>1, <4>1 DEF Knowing, FirstUpper
      <4> QED BY <4>2
    <3>2. CASE acc.title # <<>>
      <4>1. known = acc.title
        BY <1>6, <3>2
      <4> QED BY <1>2, <1>3, <1>5, <1>6, <1>9, <3>2, <4>1 DEF Knows
    <3> QED BY <3>1, <3>2
  <2>2. r.last # 0 <=> LeadsOn(deeper, w, b, t, limit, n)
    <3>1. rest = deeper[Behind(w, b + n)][Knowing(t, one)][limit - 1]
      BY <1>6, <2>1
    <3> QED BY <1>5, <1>6, <1>9, <3>1 DEF LeadsOn
  <2>3. Knows(known, w, b, t, min)
    <3>1. CASE acc.title = <<>>
      <4>1. ~t
        BY <1>9, <3>1 DEF Knows
      <4>2. ASSUME NEW m \in (b + min)..Len(w), Single(Cut(w, b, m), t) # Null
            PROVE  known[1] = Knowing(t, Cut(w, b, m))
        <5>1. Entry(Cut(w, b, m)) # Null /\ Entry(one) # Null
          BY <1>6, <1>9, <4>1, <4>2 DEF Single
        <5>2. b + n \in (b + min)..Len(w)
          BY <1>2, <1>3
        <5>3. FirstUpper(Cut(w, b, m)) = FirstUpper(Cut(w, b, b + n))
          BY <1>5, <5>1, <5>2, GuessableCuts
        <5>4. Knowing(t, Cut(w, b, m)) = FirstUpper(Cut(w, b, m)) /\ Knowing(t, one) = FirstUpper(one)
          BY <4>1 DEF Knowing, FirstUpper
        <5> QED BY <1>5, <2>1, <5>3, <5>4
      <4> QED BY <1>6, <4>1, <4>2 DEF Knows
    <3>2. CASE acc.title # <<>>
      BY <1>6, <1>9, <3>2
    <3> QED BY <3>1, <3>2
  <2>4. r.title = known
    BY <1>6, <1>9
  <2> QED BY <1>9, <2>2, <2>3, <2>4
<1> QED BY <1>7, <1>8, <1>9

\* The word looked up as it is: nothing is guessed, unless it is known.
LEMMA WholeComplete ==
  ASSUME NEW w \in Words, NEW b \in 0..Len(w), NEW t \in BOOLEAN, NEW ci \in 1..Infos, NEW min
  PROVE  /\ Whole(Behind(w, b), t, ci).last # 0 <=> Single(Behind(w, b), t) # Null
         /\ Knows(Whole(Behind(w, b), t, ci).title, w, b, t, min)
<1>1. PICK r : r = Whole(Behind(w, b), t, ci)
  OBVIOUS
<1>2. r.last = (IF Single(Behind(w, b), t) # Null THEN ci ELSE 0)
      /\ r.title = IF t THEN <<TRUE>> ELSE <<>>
  BY <1>1 DEF Whole
<1>3. ci # 0
  BY LimitAssumption
<1>4. Knows(r.title, w, b, t, min)
  <2>1. CASE t
    <3>0. <<TRUE>> # <<>> /\ <<TRUE>>[1] = TRUE
      OBVIOUS
    <3>1. r.title # <<>> /\ r.title[1] = TRUE
      BY <1>2, <2>1, <3>0, Zenon
    <3>2. \A p : Knowing(t, p) = TRUE
      BY <2>1 DEF Knowing
    <3> QED BY <3>1, <3>2 DEF Knows
  <2>2. CASE ~t
    <3>1. r.title = <<>>
      BY <1>2, <2>2
    <3> QED BY <2>2, <3>1 DEF Knows
  <2> QED BY <2>1, <2>2
<1> QED BY <1>1, <1>2, <1>3, <1>4

\* So with all of the prefixes.
LEMMA AttemptComplete ==
  ASSUME ListsOK, NEW w \in Words, NEW b \in 0..Len(w), NEW min \in Nat, min > 0,
         Guessable(w, min), NEW t \in BOOLEAN, NEW limit \in 0..Infos, NEW ci \in 1..Infos,
         NEW deeper \in Deeper(w)
  PROVE  Attempt(Behind(w, b), t, limit, min, ci, deeper).last # 0 <=>
           \/ Single(Behind(w, b), t) # Null
           \/ limit > 1 /\ \E n \in min..(Len(w) - b - min) : LeadsOn(deeper, w, b, t, limit, n)
<1>1. PICK v \in Ends(w) : v = Behind(w, b) /\ v \in Words /\ Len(v) = Len(w) - b
  BY BehindFacts
<1>0. /\ limit <= 1 => Attempt(v, t, limit, min, ci, deeper) = Whole(v, t, ci)
      /\ limit > 1 => \E tried : /\ Tries(tried, v, t, limit, min, ci, deeper)
                                 /\ Attempt(v, t, limit, min, ci, deeper)
                                      = tried[Len(Cuts(v, min))]
  BY AttemptIs
<1>2. /\ Whole(v, t, ci).last # 0 <=> Single(v, t) # Null
      /\ Knows(Whole(v, t, ci).title, w, b, t, min)
  BY <1>1, WholeComplete
<1>3. CASE limit <= 1
  <2>1. ~(limit > 1)
    BY <1>3, LimitAssumption
  <2> QED BY <1>0, <1>1, <1>2, <1>3, <2>1
<1>4. CASE limit > 1
  <2>1. PICK tried : /\ Tries(tried, v, t, limit, min, ci, deeper)
                     /\ Attempt(v, t, limit, min, ci, deeper) = tried[Len(Cuts(v, min))]
    BY <1>0, <1>4
  <2>2. PICK cuts : cuts = Cuts(v, min)
    OBVIOUS
  <2>3. Len(Cuts(v, min)) \in Nat
    BY <1>1, CutsFacts
  <2>4. PICK m \in Nat : m = Len(cuts)
    BY <2>2, <2>3
  <2>5. /\ \A k \in 1..m : cuts[k] \in min..(Len(v) - min)
        /\ \A n \in min..(Len(v) - min) : \E k \in 1..m : cuts[k] = n
    <3>1. \A k \in 1..Len(Cuts(v, min)) : Cuts(v, min)[k] \in min..(Len(v) - min)
      BY <1>1, CutsFacts
    <3>2. \A n \in min..(Len(v) - min) : \E k \in 1..Len(Cuts(v, min)) : Cuts(v, min)[k] = n
      BY <1>1, CutsFacts
    <3> QED BY <2>2, <2>4, <3>1, <3>2
  <2>6. /\ tried \in [0..m -> Result] /\ tried[0] = Whole(v, t, ci)
        /\ \A k \in 1..m : tried[k] = TryCut(tried[k - 1], v, cuts[k], t, limit, ci, deeper)
    BY <2>1, <2>2, <2>4 DEF Tries
  <2> DEFINE Known(k) == tried[k].last = 0 => Knows(tried[k].title, w, b, t, min)
             Found(k) == tried[k].last # 0 <=>
                           \/ Single(v, t) # Null
                           \/ \E j \in 1..k : LeadsOn(deeper, w, b, t, limit, cuts[j])
             H == {k \in Nat : k \in 0..m => Known(k) /\ Found(k)}
  <2>7. 0 \in H
    <3>1. Known(0)
      BY <1>2, <2>6
    <3>2. Found(0)
      <4>1. 1..0 = {}
        OBVIOUS
      <4> QED BY <1>2, <2>6, <4>1
    <3> QED BY <3>1, <3>2
  <2>8. ASSUME NEW k \in Nat, k \in H PROVE k + 1 \in H
    <3> SUFFICES ASSUME k + 1 \in 0..m PROVE Known(k + 1) /\ Found(k + 1)
      OBVIOUS
    <3>1. k \in 0..m /\ k + 1 \in 1..m /\ (k + 1) - 1 = k
      OBVIOUS
    <3>0. PICK next : next = tried[k + 1]
      OBVIOUS
    <3>2. PICK acc \in Result, n \in min..(Len(w) - b - min) :
            acc = tried[k] /\ n = cuts[k + 1] /\ next = tried[k + 1]
      BY <1>1, <2>5, <2>6, <3>0, <3>1
    <3>3. next = TryCut(acc, v, n, t, limit, ci, deeper)
      BY <2>6, <3>1, <3>2
    <3>4. Known(k) /\ Found(k)
      BY <2>8, <3>1
    <3>5. /\ next.last # 0 <=> acc.last # 0 \/ LeadsOn(deeper, w, b, t, limit, n)
          /\ next.last = 0 => Knows(next.title, w, b, t, min)
      <4>1. acc.last = 0 => Knows(acc.title, w, b, t, min)
        BY <3>2, <3>4
      <4> HIDE DEF H, Known, Found
      <4>2. Completes(TryCut(acc, Behind(w, b), n, t, limit, ci, deeper), acc, deeper, w, b, t,
                      limit, n, min)
        BY <1>4, <4>1, TryCutComplete
      <4> QED BY <1>1, <3>3, <4>2 DEF Completes
    <3>6. (\E j \in 1..(k + 1) : LeadsOn(deeper, w, b, t, limit, cuts[j])) <=>
            \/ \E j \in 1..k : LeadsOn(deeper, w, b, t, limit, cuts[j])
            \/ LeadsOn(deeper, w, b, t, limit, cuts[k + 1])
      <4>1. \A j : j \in 1..(k + 1) <=> j \in 1..k \/ j = k + 1
        OBVIOUS
      <4> HIDE DEF H, Known, Found
      <4> QED BY <4>1
    <3> QED BY <3>2, <3>4, <3>5, <3>6
  <2>9. Nat \subseteq H
    <3> HIDE DEF H
    <3> QED BY <2>7, <2>8, NatSetInduction
  <2>10. m \in 0..m
    OBVIOUS
  <2>11. Found(m)
    BY <2>9, <2>10
  <2>12. (\E j \in 1..m : LeadsOn(deeper, w, b, t, limit, cuts[j])) <=>
           \E n \in min..(Len(w) - b - min) : LeadsOn(deeper, w, b, t, limit, n)
    BY <1>1, <2>5
  <2>13. Attempt(v, t, limit, min, ci, deeper) = tried[m]
    BY <2>1, <2>2, <2>4
  <2> QED BY <1>1, <1>4, <2>11, <2>12, <2>13
<1> QED BY <1>3, <1>4, LimitAssumption

\* With room for all of the pieces, or for all of the letters.
CompleteAt(deeper, room, w, min) ==
  \A b \in 0..Len(w) : \A t \in BOOLEAN : \A l \in 0..Infos :
    l <= room \/ Len(w) - b <= room =>
      (deeper[Behind(w, b)][t][l].last # 0
         <=> Single(Behind(w, b), t) # Null \/ StrungFrom(w, b, t, l, min))

\* One piece more.
LEMMA CompleteStep ==
  ASSUME ListsOK, NEW w \in Words, NEW min \in Nat, min > 0, Guessable(w, min),
         NEW room \in Nat, NEW ci \in 1..Infos, NEW deeper \in Deeper(w),
         room > 0 => CompleteAt(deeper, room, w, min),
         NEW b \in 0..Len(w), NEW t \in BOOLEAN, NEW l \in 0..Infos,
         l <= room + 1 \/ Len(w) - b <= room + 1
  PROVE  Attempt(Behind(w, b), t, l, min, ci, deeper).last # 0
           <=> Single(Behind(w, b), t) # Null \/ StrungFrom(w, b, t, l, min)
<1>1. PICK L \in Nat : L = Len(w)
  BY DEF Words
<1>2. Attempt(Behind(w, b), t, l, min, ci, deeper).last # 0 <=>
           \/ Single(Behind(w, b), t) # Null
           \/ l > 1 /\ \E n \in min..(L - b - min) : LeadsOn(deeper, w, b, t, l, n)
  BY <1>1, AttemptComplete
<1>3. l \in Nat /\ b \in Nat /\ b <= L
  BY <1>1, LimitAssumption
<1>4. CASE b = L
  <2>1. ~StrungFrom(w, b, t, l, min)
    BY <1>1, <1>4, StrungLong
  <2>2. ~\E n \in min..(L - b - min) : TRUE
    BY <1>3, <1>4
  <2> QED BY <1>2, <2>1, <2>2
<1>5. CASE b < L /\ l = 0
  <2>1. ~StrungFrom(w, b, t, l, min)
    <3>1. \A c : ~(c \in 1..l)
      BY <1>5
    <3> QED BY <3>1 DEF StrungFrom
  <2> QED BY <1>2, <1>3, <1>5, <2>1
<1>6. CASE b < L /\ l > 0
  <2>1. StrungFrom(w, b, t, l, min) <=>
           \/ L - b >= min /\ Single(Behind(w, b), t) # Null
           \/ \E m \in (b + 1)..L :
                /\ m - b >= min /\ Single(Cut(w, b, m), t) # Null
                /\ StrungFrom(w, m, Knowing(t, Cut(w, b, m)), l - 1, min)
    BY <1>1, <1>3, <1>6, StrungStep
  <2>2. ASSUME NEW m \in (b + 1)..L, L - m >= min, l > 1
        PROVE  deeper[Behind(w, m)][Knowing(t, Cut(w, b, m))][l - 1].last # 0
                 <=> StrungFrom(w, m, Knowing(t, Cut(w, b, m)), l - 1, min)
    <3>1. PICK k \in BOOLEAN : k = Knowing(t, Cut(w, b, m))
      BY KnowingTyped
    <3>2. m \in 0..Len(w) /\ m < Len(w) /\ l - 1 \in 0..Infos /\ l - 1 \in Nat /\ l - 1 > 0
      BY <1>1, <1>3, <2>2, LimitAssumption
    <3>3. room > 0 /\ (l - 1 <= room \/ Len(w) - m <= room)
      BY <1>1, <1>3, <2>2
    <3>4. deeper[Behind(w, m)][k][l - 1].last # 0
            <=> Single(Behind(w, m), k) # Null \/ StrungFrom(w, m, k, l - 1, min)
      BY <3>2, <3>3 DEF CompleteAt
    <3>5. Single(Behind(w, m), k) # Null => StrungFrom(w, m, k, l - 1, min)
      BY <1>1, <2>2, <3>2, StrungStep
    <3> QED BY <3>1, <3>4, <3>5
  <2>3. ASSUME l > 1, NEW n \in min..(L - b - min), LeadsOn(deeper, w, b, t, l, n)
        PROVE  StrungFrom(w, b, t, l, min)
    <3>1. PICK m \in (b + 1)..L : m = b + n /\ L - m >= min /\ m - b >= min
      BY <1>3
    <3>2. StrungFrom(w, m, Knowing(t, Cut(w, b, m)), l - 1, min) /\ Single(Cut(w, b, m), t) # Null
      BY <2>2, <2>3, <3>1 DEF LeadsOn
    <3> QED BY <2>1, <3>1, <3>2
  <2>4. ASSUME NEW m \in (b + 1)..L, m - b >= min, Single(Cut(w, b, m), t) # Null,
               StrungFrom(w, m, Knowing(t, Cut(w, b, m)), l - 1, min)
        PROVE  l > 1 /\ \E n \in min..(L - b - min) : LeadsOn(deeper, w, b, t, l, n)
    <3>1. m \in 0..Len(w)
      BY <1>1, <1>3
    <3>2. L - m >= min
      BY <1>1, <2>4, <3>1, StrungLong
    <3>3. l > 1
      <4>1. \E c : c \in 1..(l - 1)
        BY <2>4 DEF StrungFrom
      <4> QED BY <1>3, <4>1
    <3>4. PICK n \in min..(L - b - min) : m = b + n
      <4>1. m - b \in min..(L - b - min) /\ m = b + (m - b)
        BY <1>3, <2>4, <3>2
      <4> QED BY <4>1
    <3>5. LeadsOn(deeper, w, b, t, l, n)
      BY <2>2, <2>4, <3>2, <3>3, <3>4 DEF LeadsOn
    <3> QED BY <3>3, <3>5
  <2> QED BY <1>2, <2>1, <2>3, <2>4
<1> QED BY <1>3, <1>4, <1>5, <1>6

\* So with every place of the array, from the last to the first.
LEMMA AttemptsComplete ==
  ASSUME ListsOK, NEW w \in Words, NEW min \in Nat, min > 0, Guessable(w, min),
         NEW room \in 1..Infos
  PROVE  CompleteAt(Attempts(w, min)[room], room, w, min)
<1>1. PICK run : run = Attempts(w, min)
  OBVIOUS
<1>2. Fills(run, w, min)
  BY <1>1, AttemptsIs
<1>3. PICK N \in Nat : N = Infos
  BY LimitAssumption
<1> DEFINE H == {k \in Nat : k \in 1..N => CompleteAt(run[k], k, w, min)}
<1>4. 0 \in H
  OBVIOUS
<1>5. ASSUME NEW k \in Nat, k \in H PROVE k + 1 \in H
  <2> SUFFICES ASSUME k + 1 \in 1..N PROVE CompleteAt(run[k + 1], k + 1, w, min)
    OBVIOUS
  <2>1. k \in 0..N /\ k + 1 \in 1..Infos /\ (k + 1) - 1 = k /\ k \in 0..Infos
    BY <1>3
  <2>2. PICK ci \in 1..Infos : ci = Infos + 1 - (k + 1)
    BY <1>3, <2>1
  <2>3. PICK deeper \in Deeper(w) : deeper = run[k]
    BY <1>2, <2>1 DEF Fills
  <2>4. k > 0 => CompleteAt(deeper, k, w, min)
    BY <1>5, <2>1, <2>3
  <2>5. run[k + 1] = AtPlace(w, ci, min, deeper)
    BY <1>2, <2>1, <2>2, <2>3 DEF Fills
  <2> HIDE DEF H
  <2> SUFFICES ASSUME NEW b \in 0..Len(w), NEW t \in BOOLEAN, NEW l \in 0..Infos,
                      l <= k + 1 \/ Len(w) - b <= k + 1
               PROVE  run[k + 1][Behind(w, b)][t][l].last # 0
                        <=> Single(Behind(w, b), t) # Null \/ StrungFrom(w, b, t, l, min)
    BY DEF CompleteAt
  <2>6. Behind(w, b) \in Ends(w)
    BY BehindFacts
  <2>7. run[k + 1][Behind(w, b)][t][l] = Attempt(Behind(w, b), t, l, min, ci, deeper)
    BY <2>5, <2>6, AtPlaceTyped
  <2>8. Attempt(Behind(w, b), t, l, min, ci, deeper).last # 0
           <=> Single(Behind(w, b), t) # Null \/ StrungFrom(w, b, t, l, min)
    BY <2>4, CompleteStep
  <2> QED BY <2>7, <2>8
<1>6. Nat \subseteq H
  <2> HIDE DEF H
  <2> QED BY <1>4, <1>5, NatSetInduction
<1>7. room \in 1..N /\ room \in Nat
  BY <1>3
<1> QED BY <1>1, <1>6, <1>7

-----------------------------------------------------------------------------
(* What check_runtogether makes of a word or of a part of one.              *)

\* A word that is found or strung is what the manual calls so.
LEMMA StrungIs ==
  ASSUME NEW w \in Words, NEW limit \in Nat, NEW min \in Nat
  PROVE  Single(w, FALSE) # Null \/ StrungFrom(w, 0, FALSE, limit, min)
           <=> Entry(w) # Null \/ Strung(w, limit, min)
<1>1. PICK n \in Nat : n = Len(w)
  BY DEF Words
<1>2. Single(w, FALSE) = Entry(w)
  BY DEF Single
<1>3. ASSUME NEW ends, StringOf(w, 0, ends, FALSE, min), Cardinality(ends) = 1
      PROVE  Entry(w) # Null
  <2>1. ends \in SUBSET ((0 + 1)..n) /\ n \in ends
    BY <1>1, <1>3 DEF StringOf
  <2>2. IsFiniteSet(ends)
    <3>1. IsFiniteSet((0 + 1)..n)
      BY <1>1, FS_Interval
    <3> QED BY <2>1, <3>1, FS_Subset
  <2>3. ends = {Len(w)}
    <3>1. PICK x : ends = {x}
      BY <1>3, <2>2, FS_Singleton
    <3> QED BY <1>1, <2>1, <3>1
  <2>4. 0 \in 0..Len(w) /\ 0 < Len(w)
    BY <1>1, <2>1
  <2>5. Single(Behind(w, 0), FALSE) # Null
    BY <1>3, <2>3, <2>4, StringOne
  <2>6. Behind(w, 0) = w
    BY CutAll DEF Cut, Behind
  <2> QED BY <1>2, <2>5, <2>6
<1>4. ASSUME NEW ends \in SUBSET (1..n)
      PROVE  StringOf(w, 0, ends, FALSE, min) <=>
               /\ Len(w) \in ends
               /\ \A e \in ends :
                    /\ Len(PieceTo(w, ends, e)) >= min
                    /\ Single(PieceTo(w, ends, e),
                              \E b \in ends : b < e /\ FirstUpper(PieceTo(w, ends, b))) # Null
  <2>1. \A e : PieceFrom(w, 0, ends, e) = PieceTo(w, ends, e)
    BY DEF PieceFrom, PieceTo, Cut, Begin
  <2>2. ASSUME NEW e
        PROVE Capital(w, 0, ends, FALSE, e) = \E b \in ends : b < e /\ FirstUpper(PieceTo(w, ends, b))
    BY <2>1 DEF Capital
  <2>3. ends \in SUBSET ((0 + 1)..Len(w))
    BY <1>1
  <2> QED BY <2>1, <2>2, <2>3 DEF StringOf, Fits
<1>5. Strung(w, limit, min) <=> \E ends : StringOf(w, 0, ends, FALSE, min) /\ Cardinality(ends) \in 2..limit
  <2>1. \A ends : StringOf(w, 0, ends, FALSE, min) => ends \in SUBSET (1..n)
    <3>1. 0 + 1 = 1
      OBVIOUS
    <3> QED BY <1>1, <3>1 DEF StringOf
  <2>2. Strung(w, limit, min) <=>
          \E ends \in SUBSET (1..n) : StringOf(w, 0, ends, FALSE, min) /\ Cardinality(ends) \in 2..limit
    BY <1>1, <1>4 DEF Strung
  <2> QED BY <2>1, <2>2
<1>6. \A c : c \in 1..limit <=> (c \in 2..limit \/ (c = 1 /\ limit >= 1))
  OBVIOUS
<1>7. ASSUME NEW ends, StringOf(w, 0, ends, FALSE, min), Cardinality(ends) \in 1..limit
      PROVE  Entry(w) # Null \/ Strung(w, limit, min)
  <2>1. CASE Cardinality(ends) = 1
    BY <1>3, <1>7, <2>1
  <2>2. CASE Cardinality(ends) \in 2..limit
    BY <1>5, <1>7, <2>2
  <2> QED BY <1>6, <1>7, <2>1, <2>2
<1>8. ASSUME Strung(w, limit, min) PROVE StrungFrom(w, 0, FALSE, limit, min)
  BY <1>5, <1>6, <1>8 DEF StrungFrom
<1> QED BY <1>2, <1>7, <1>8 DEF StrungFrom

\* The whole word is its end behind no letter.
LEMMA WordItself ==
  ASSUME NEW w \in Words
  PROVE  Behind(w, 0) = w /\ 0 \in 0..Len(w) /\ w \in Ends(w) /\ Len(w) \in Nat
<1>1. Len(w) \in Nat
  BY DEF Words
<1>2. Behind(w, 0) = w
  BY CutAll DEF Cut, Behind
<1> QED BY <1>1, <1>2, EndsTyped

\* What it makes is so, and in the places behind.
LEMMA RunSound ==
  ASSUME ListsOK, NEW w \in Words, NEW min \in Nat, NEW ci \in 1..Infos, NEW limit \in 0..Infos
  PROVE  /\ RunTogether(w, ci, limit, min) \in Result
         /\ Sound(RunTogether(w, ci, limit, min), ci, min, w, 0)
<1>1. PICK room \in 1..Infos : room = Infos + 1 - ci /\ Infos + 1 - room = ci /\ room \in 0..Infos
  BY LimitAssumption
<1>2. PICK deeper : deeper = Attempts(w, min)[room]
  OBVIOUS
<1>3. deeper \in Deeper(w) /\ SoundAll(deeper, ci, min, w)
  BY <1>1, <1>2, AttemptsSound
<1>4. RunTogether(w, ci, limit, min) = deeper[w][FALSE][limit]
  BY <1>1, <1>2 DEF RunTogether
<1>5. deeper[w][FALSE][limit] \in Result
  <2>1. deeper[w] \in [BOOLEAN -> [0..Infos -> Result]]
    BY <1>3, WordItself DEF Deeper
  <2>2. PICK t \in BOOLEAN : t = FALSE
    OBVIOUS
  <2>3. deeper[w][t][limit] \in Result
    BY <2>1
  <2> QED BY <2>2, <2>3
<1>6. Sound(deeper[Behind(w, 0)][FALSE][limit], ci, min, w, 0)
  BY <1>3, WordItself DEF SoundAll
<1> QED BY <1>4, <1>5, <1>6, WordItself

\* Without running together it is the word that is looked up.
LEMMA RunOne ==
  ASSUME ListsOK, NEW w \in Words, NEW min \in Nat, NEW ci \in 1..Infos, NEW limit \in 0..Infos,
         limit <= 1
  PROVE  RunTogether(w, ci, limit, min) = Whole(w, FALSE, ci)
<1>1. PICK room \in 1..Infos : room = Infos + 1 - ci /\ Infos + 1 - room = ci /\ room - 1 \in 0..Infos
  BY LimitAssumption
<1>2. PICK run : run = Attempts(w, min)
  OBVIOUS
<1>3. Fills(run, w, min)
  BY <1>2, AttemptsIs
<1>4. PICK deeper \in Deeper(w) : deeper = run[room - 1]
  BY <1>1, <1>3 DEF Fills
<1>5. run[room] = AtPlace(w, ci, min, deeper)
  BY <1>1, <1>3, <1>4 DEF Fills
<1>6. run[room][w][FALSE][limit] = Attempt(w, FALSE, limit, min, ci, deeper)
  <2>1. PICK v \in Ends(w), t \in BOOLEAN : v = w /\ t = FALSE
    BY WordItself
  <2>2. AtPlace(w, ci, min, deeper)[v][t][limit] = Attempt(v, t, limit, min, ci, deeper)
    BY AtPlaceTyped
  <2> QED BY <1>5, <2>1, <2>2
<1>7. PICK v \in Ends(w), t \in BOOLEAN : v = w /\ t = FALSE
  BY WordItself
<1>8. Attempt(v, t, limit, min, ci, deeper) = Whole(v, t, ci)
  BY DEF Attempt
<1> QED BY <1>1, <1>2, <1>6, <1>7, <1>8 DEF RunTogether

\* Where there is room, it finds what is right.
LEMMA RunRight ==
  ASSUME ListsOK, NEW w \in Words, NEW o \in Options, NEW ci \in 1..Infos,
         o.runTogether => o.min > 0 /\ Guessable(w, o.min),
         Limit(o) <= Infos + 1 - ci \/ Len(w) <= Infos + 1 - ci
  PROVE  RunTogether(w, ci, Limit(o), o.min).last # 0 <=> Right(w, o)
<1>1. o.runTogether \in BOOLEAN /\ o.limit \in 0..Infos /\ o.min \in Nat
  BY LimitAssumption
<1>2. PICK limit \in 0..Infos, min \in Nat : limit = Limit(o) /\ min = o.min /\ limit \in Nat
  <2>1. 0 \in 0..Infos /\ \A x \in 0..Infos : x \in Nat
    BY LimitAssumption
  <2> QED BY <1>1, <2>1 DEF Limit
<1>3. PICK r : r = RunTogether(w, ci, limit, min)
  OBVIOUS
<1>4. CASE limit <= 1
  <2>1. r = Whole(w, FALSE, ci)
    BY <1>3, <1>4, RunOne
  <2>2. r.last # 0 <=> Single(w, FALSE) # Null
    <3>1. r.last = IF Single(w, FALSE) # Null THEN ci ELSE 0
      BY <2>1 DEF Whole
    <3>2. ci # 0
      BY LimitAssumption
    <3> QED BY <3>1, <3>2
  <2>3. Single(w, FALSE) = Entry(w)
    BY DEF Single
  <2>4. o.runTogether => ~Strung(w, o.limit, o.min)
    <3> SUFFICES ASSUME o.runTogether PROVE ~Strung(w, o.limit, o.min)
      OBVIOUS
    <3>1. o.limit = limit
      BY <1>2 DEF Limit
    <3>2. \A c : ~(c \in 2..limit)
      BY <1>2, <1>4
    <3> QED BY <3>1, <3>2 DEF Strung
  <2> QED BY <1>2, <1>3, <2>2, <2>3, <2>4 DEF Right
<1>5. CASE limit > 1
  <2>1. o.runTogether /\ o.limit = limit
    BY <1>2, <1>5 DEF Limit
  <2>2. PICK room \in 1..Infos : room = Infos + 1 - ci /\ (limit <= room \/ Len(w) <= room)
    BY <1>2, LimitAssumption
  <2>3. CompleteAt(Attempts(w, min)[room], room, w, min)
    BY <1>2, <2>1, AttemptsComplete
  <2>4. r = Attempts(w, min)[room][Behind(w, 0)][FALSE][limit]
    BY <1>3, <2>2, WordItself DEF RunTogether
  <2>5. Len(w) - 0 = Len(w)
    BY WordItself
  <2>6. r.last # 0 <=> Single(Behind(w, 0), FALSE) # Null \/ StrungFrom(w, 0, FALSE, limit, min)
    BY <2>2, <2>3, <2>4, <2>5, WordItself DEF CompleteAt
  <2>7. r.last # 0 <=> Entry(w) # Null \/ Strung(w, limit, min)
    BY <1>2, <2>6, WordItself, StrungIs
  <2> QED BY <1>2, <1>3, <2>1, <2>7 DEF Right
<1> QED BY <1>2, <1>4, <1>5

\* It takes no more places than there are letters.
LEMMA RunEnds ==
  ASSUME ListsOK, NEW w \in Words, w # <<>>, NEW o \in Options, NEW ci \in 1..Infos,
         o.runTogether => o.min > 0
  PROVE  RunTogether(w, ci, Limit(o), o.min).last <= ci - 1 + Len(w)
<1>1. o.runTogether \in BOOLEAN /\ o.limit \in 0..Infos /\ o.min \in Nat
  BY LimitAssumption
<1>2. PICK limit \in 0..Infos, min \in Nat : limit = Limit(o) /\ min = o.min /\ limit \in Nat
  <2>1. 0 \in 0..Infos /\ \A x \in 0..Infos : x \in Nat
    BY LimitAssumption
  <2> QED BY <1>1, <2>1 DEF Limit
<1>3. PICK r : r = RunTogether(w, ci, limit, min)
  OBVIOUS
<1>4. PICK n \in Nat : n = Len(w) /\ n > 0
  BY DEF Words
<1>5. CASE limit <= 1
  <2>1. r = Whole(w, FALSE, ci)
    BY <1>3, <1>5, RunOne
  <2>2. r.last = ci \/ r.last = 0
    BY <2>1 DEF Whole
  <2>3. r.last <= ci - 1 + n
    BY <1>4, <2>2, LimitAssumption
  <2> QED BY <1>2, <1>3, <1>4, <2>3
<1>6. CASE limit > 1
  <2>1. min > 0
    BY <1>2, <1>6 DEF Limit
  <2>2. Sound(r, ci, min, w, 0)
    BY <1>3, RunSound
  <2>3. r.last # 0 => r.last <= ci - 1 + (n - 0)
    BY <1>4, <2>1, <2>2 DEF Sound
  <2>4. r.last <= ci - 1 + n
    BY <1>4, <2>3, LimitAssumption
  <2> QED BY <1>2, <1>3, <1>4, <2>4
<1> QED BY <1>2, <1>5, <1>6

-----------------------------------------------------------------------------
(* The parts of a camelCase word.                                           *)

LEMMA RunFromFacts ==
  ASSUME NEW w \in Words, NEW i \in 2..Len(w), NEW upper \in BOOLEAN
  PROVE  /\ RunFrom(w, i, upper) \in (i - 1)..Len(w)
         /\ (IF upper THEN IsUpper(w[i]) ELSE IsLower(w[i])) => RunFrom(w, i, upper) >= i
<1>1. PICK n \in Nat : n = Len(w)
  BY DEF Words
<1>2. PICK ends : ends = {j \in i..n : ~(IF upper THEN IsUpper(w[j]) ELSE IsLower(w[j]))}
  OBVIOUS
<1>3. CASE ends = {}
  <2>1. RunFrom(w, i, upper) = n
    BY <1>1, <1>2, <1>3 DEF RunFrom
  <2> QED BY <1>1, <2>1
<1>4. CASE ends # {}
  <2>1. ends \subseteq Nat
    BY <1>1, <1>2
  <2>2. \E j \in ends : \A k \in ends : j <= k
    BY <1>4, <2>1, LeastNatural
  <2>3. PICK e : e = CHOOSE j \in ends : \A k \in ends : j <= k
    OBVIOUS
  <2>4. e \in ends
    BY <2>2, <2>3
  <2>5. RunFrom(w, i, upper) = e - 1
    BY <1>1, <1>2, <1>4, <2>3 DEF RunFrom
  <2>6. e \in i..n /\ ~(IF upper THEN IsUpper(w[e]) ELSE IsLower(w[e]))
    BY <1>2, <2>4
  <2>7. (IF upper THEN IsUpper(w[i]) ELSE IsLower(w[i])) => e # i
    BY <2>6
  <2> QED BY <1>1, <2>5, <2>6, <2>7
<1> QED BY <1>3, <1>4

\* The first part of a camelCase word has a letter, if the word has.
LEMMA FirstPartFacts ==
  ASSUME NEW w \in Words, NEW camel \in BOOLEAN
  PROVE  /\ Len(w) > 0 => FirstPart(w, camel) \in 1..Len(w)
         /\ Len(w) = 0 => FirstPart(w, camel) = 0
<1>1. PICK n \in Nat : n = Len(w)
  BY DEF Words
<1>0. PICK f : f = FirstPart(w, camel)
  OBVIOUS
<1> SUFFICES (n > 0 => f \in 1..n) /\ (n = 0 => f = 0)
  BY <1>0, <1>1
<1>2. CASE ~camel \/ n <= 1
  <2>1. f = n
    BY <1>0, <1>1, <1>2 DEF FirstPart
  <2> QED BY <2>1
<1>3. CASE camel /\ ~(n <= 1)
  <2>1. 2 \in 2..Len(w)
    BY <1>1, <1>3
  <2>10. PICK i \in 2..Len(w), no \in BOOLEAN, yes \in BOOLEAN :
           i = 2 /\ no = FALSE /\ yes = TRUE
    BY <2>1
  <2>11. PICK lo, hi : lo = RunFrom(w, i, no) /\ hi = RunFrom(w, i, yes)
    OBVIOUS
  <2>0. /\ i = 2 /\ no = FALSE /\ yes = TRUE
        /\ lo = RunFrom(w, i, no) /\ hi = RunFrom(w, i, yes)
    BY <2>10, <2>11
  <2>2. lo \in (i - 1)..Len(w)
    BY <2>0, RunFromFacts
  <2>3. hi \in (i - 1)..Len(w)
    BY <2>0, RunFromFacts
  <2>7. (IF yes THEN IsUpper(w[i]) ELSE IsLower(w[i])) => hi >= i
    BY <2>0, RunFromFacts
  <2>8. lo \in 1..n /\ hi \in 1..n /\ (IsUpper(w[2]) => hi >= 2)
    <3>1. lo \in 1..n /\ hi \in 1..n
      <4>1. i - 1 = 1
        BY <2>0
      <4> QED BY <1>1, <2>2, <2>3, <4>1
    <3>2. IsUpper(w[i]) => hi >= i
      BY <2>0, <2>7, Zenon
    <3>3. IsUpper(w[2]) => hi >= 2
      BY <2>0, <3>2, Zenon
    <3> QED BY <3>1, <3>3
  <2>4. CASE ~IsUpper(w[1]) \/ IsLower(w[2])
    <3>1. f = lo
      BY <1>0, <2>0, <1>1, <1>3, <2>4 DEF FirstPart
    <3>2. f \in 1..n
      BY <1>3, <2>8, <3>1
    <3> QED BY <1>3, <3>2
  <2>5. CASE ~(~IsUpper(w[1]) \/ IsLower(w[2])) /\ RunFrom(w, 2, TRUE) = n
    <3>1. f = n
      BY <1>0, <1>1, <1>3, <2>5 DEF FirstPart
    <3> QED BY <1>3, <3>1
  <2>6. CASE ~(~IsUpper(w[1]) \/ IsLower(w[2])) /\ RunFrom(w, 2, TRUE) # n
    <3>1. f = hi - 1
      BY <1>0, <2>0, <1>1, <1>3, <2>6 DEF FirstPart
    <3>2. IsUpper(w[2])
      <4>1. ~IsLower(w[2])
        BY <2>6
      <4>2. PICK c \in LowerLetters : UpperOf[c] = w[2]
        BY <4>1 DEF IsLower
      <4> QED BY <4>2, AlphabetAssumption DEF IsUpper
    <3>3. f \in 1..n
      BY <1>3, <2>8, <3>1, <3>2
    <3> QED BY <1>3, <3>3
  <2> QED BY <2>4, <2>5, <2>6
<1> QED BY <1>2, <1>3

\* ends has where the parts end: each is behind the one before, till that of the word.
EndsAt(ends, w, camel) ==
  /\ ends \in [0..Len(w) -> 0..Len(w)] /\ ends[0] = 0
  /\ \A k \in 1..Len(w) :
       ends[k] = ends[k - 1] + FirstPart(SubSeq(w, ends[k - 1] + 1, Len(w)), camel)

\* So each part ends behind the one before, till there is none left.
LEMMA NextEnd ==
  ASSUME NEW w \in Words, NEW camel \in BOOLEAN, NEW b \in 0..Len(w)
  PROVE  /\ b + FirstPart(SubSeq(w, b + 1, Len(w)), camel) \in 0..Len(w)
         /\ b < Len(w) => b < b + FirstPart(SubSeq(w, b + 1, Len(w)), camel)
         /\ b = Len(w) => b + FirstPart(SubSeq(w, b + 1, Len(w)), camel) = b
<1>1. PICK n \in Nat : n = Len(w)
  BY DEF Words
<1>2. PICK v \in Words : v = SubSeq(w, b + 1, Len(w)) /\ Len(v) = n - b
  BY <1>1, BehindFacts DEF Behind
<1>3. Len(v) > 0 => FirstPart(v, camel) \in 1..Len(v)
  BY FirstPartFacts
<1>4. Len(v) = 0 => FirstPart(v, camel) = 0
  BY FirstPartFacts
<1> QED BY <1>1, <1>2, <1>3, <1>4

\* PartEnds are such ends.
LEMMA PartEndsIs ==
  ASSUME NEW w \in Words, NEW camel \in BOOLEAN
  PROVE  EndsAt(PartEnds(w, camel), w, camel)
<1> DEFINE Next(b) == b + FirstPart(SubSeq(w, b + 1, Len(w)), camel)
           Eq(g) == g = [n \in 0..Len(w) |->
                           IF n = 0 THEN 0
                           ELSE LET begin == g[n - 1]
                                IN  begin + FirstPart(SubSeq(w, begin + 1, Len(w)), camel)]
<1>1. PICK m \in Nat : m = Len(w)
  BY DEF Words
<1>2. PICK S : S = 0..m
  OBVIOUS
<1>3. 0 \in S /\ \A x \in S : Next(x) \in S
  BY <1>1, <1>2, NextEnd
<1>4. PICK d : d = [k \in 1..m |-> [x \in S |-> Next(x)]]
  OBVIOUS
<1>5. d \in [1..m -> [S -> S]]
  BY <1>3, <1>4
<1>6. PICK g : RecursesTo(g, m, S, 0, d)
  BY <1>3, <1>5, UpToExists
<1>7. ASSUME NEW i \in 1..m PROVE g[i] = Next(g[i - 1])
  <2>1. i - 1 \in 0..m
    OBVIOUS
  <2>2. g[i - 1] \in S /\ g[i] = d[i][g[i - 1]]
    BY <1>6, <2>1 DEF RecursesTo
  <2> QED BY <1>4, <2>2
<1> HIDE DEF Next
<1>8. Eq(g)
  <2>1. ASSUME NEW n \in 0..m PROVE g[n] = IF n = 0 THEN 0 ELSE Next(g[n - 1])
    <3>1. CASE n = 0
      BY <1>6, <3>1 DEF RecursesTo
    <3>2. CASE n # 0
      <4>1. n \in 1..m
        BY <3>2
      <4> QED BY <1>7, <3>2, <4>1
    <3> QED BY <3>1, <3>2
  <2>2. g = [n \in 0..m |-> g[n]]
    BY <1>6 DEF RecursesTo
  <2>3. g = [n \in 0..m |-> IF n = 0 THEN 0 ELSE Next(g[n - 1])]
    BY <2>1, <2>2
  <2> QED BY <1>1, <2>3 DEF Next
<1>9. PICK P : P = PartEnds(w, camel)
  OBVIOUS
<1>10. P = CHOOSE h : Eq(h)
  BY <1>9 DEF PartEnds
<1>11. Eq(P)
  <2> HIDE DEF Eq
  <2> QED BY <1>8, <1>10
<1>12. P = [n \in 0..m |-> IF n = 0 THEN 0 ELSE Next(P[n - 1])]
  BY <1>1, <1>11 DEF Next
<1> HIDE DEF Eq
<1>13. P[0] = 0
  <2>1. 0 \in 0..m
    OBVIOUS
  <2> QED BY <1>12, <2>1
<1>14. ASSUME NEW i \in 1..m PROVE P[i] = Next(P[i - 1])
  <2>1. i \in 0..m /\ i # 0
    OBVIOUS
  <2> QED BY <1>12, <2>1
<1>15. \A i \in 1..m : P[i - 1] \in S => P[i] = d[i][P[i - 1]]
  BY <1>4, <1>14
<1>16. Follows(P, m, S, 0, d)
  <2>1. P = [i \in 0..m |-> P[i]]
    BY <1>12
  <2> QED BY <1>13, <1>15, <2>1 DEF Follows
<1>17. RecursesTo(P, m, S, 0, d)
  BY <1>3, <1>5, <1>16, UpToIn
<1>18. P \in [0..m -> 0..m]
  BY <1>2, <1>17 DEF RecursesTo
<1> QED BY <1>1, <1>9, <1>13, <1>14, <1>18 DEF EndsAt, Next

\* parts are the pieces of w between the places at.
PartsOf(parts, at, K, w) ==
  /\ K \in Nat /\ parts \in Seq(Words) /\ Len(parts) = K
  /\ at \in [0..K -> 0..Len(w)] /\ at[0] = 0 /\ at[K] = Len(w)
  /\ \A k \in 1..K : at[k - 1] < at[k] /\ parts[k] = Cut(w, at[k - 1], at[k])

\* Parts are such pieces, up to the end of the word.
LEMMA PartsFacts ==
  ASSUME NEW w \in Words, NEW camel \in BOOLEAN
  PROVE  \E at : PartsOf(Parts(w, camel), at, Len(Parts(w, camel)), w)
<1>1. PICK n \in Nat : n = Len(w)
  BY DEF Words
<1>2. PICK ends : ends = PartEnds(w, camel)
  OBVIOUS
<1>3. EndsAt(ends, w, camel)
  BY <1>2, PartEndsIs
<1>4. /\ ends \in [0..n -> 0..n] /\ ends[0] = 0
      /\ \A k \in 1..n : /\ ends[k - 1] < n => ends[k - 1] < ends[k]
                         /\ ends[k - 1] = n => ends[k] = n
  <2>1. ends \in [0..n -> 0..n] /\ ends[0] = 0
    BY <1>1, <1>3 DEF EndsAt
  <2>2. ASSUME NEW k \in 1..n
        PROVE  /\ ends[k - 1] < n => ends[k - 1] < ends[k]
               /\ ends[k - 1] = n => ends[k] = n
    <3>1. k - 1 \in 0..n
      OBVIOUS
    <3>2. PICK b \in 0..Len(w) : b = ends[k - 1]
      BY <1>1, <2>1, <3>1
    <3>3. ends[k] = b + FirstPart(SubSeq(w, b + 1, Len(w)), camel)
      BY <1>1, <1>3, <3>2 DEF EndsAt
    <3>4. (b < Len(w) => b < ends[k]) /\ (b = Len(w) => ends[k] = b)
      BY <3>3, NextEnd
    <3> QED BY <1>1, <3>2, <3>4
  <2> QED BY <2>1, <2>2
<1> DEFINE H == {k \in Nat : k \in 0..n => ends[k] >= k}
<1>5. Nat \subseteq H
  <2>1. 0 \in H
    BY <1>4
  <2>2. ASSUME NEW k \in Nat, k \in H PROVE k + 1 \in H
    <3> SUFFICES ASSUME k + 1 \in 0..n PROVE ends[k + 1] >= k + 1
      OBVIOUS
    <3>1. k \in 0..n /\ k + 1 \in 1..n /\ (k + 1) - 1 = k
      OBVIOUS
    <3>2. ends[k] >= k
      BY <2>2, <3>1
    <3>3. ends[k] < n => ends[k] < ends[k + 1]
      BY <1>4, <3>1
    <3>4. ends[k] = n => ends[k + 1] = n
      BY <1>4, <3>1
    <3>5. ends[k] \in 0..n /\ ends[k + 1] \in 0..n
      BY <1>4, <3>1
    <3> QED BY <3>1, <3>2, <3>3, <3>4, <3>5
  <2> HIDE DEF H
  <2> QED BY <2>1, <2>2, NatSetInduction
<1>6. ends[n] = n
  <2>1. n \in 0..n /\ n \in H
    BY <1>5
  <2> QED BY <1>4, <2>1
<1>7. PICK T : T = {k \in 0..n : ends[k] = n}
  OBVIOUS
<1>8. T \subseteq Nat /\ n \in T
  BY <1>6, <1>7
<1>9. PICK K \in T : \A k \in T : K <= k
  BY <1>8, LeastNatural
<1>10. K \in 0..n /\ K \in Nat /\ ends[K] = n
  BY <1>7, <1>9
<1>11. \A k \in 0..n : k < K => ends[k] < n
  BY <1>4, <1>7, <1>9, <1>10
<1> DEFINE G == {k \in Nat : k \in 0..n /\ K <= k => ends[k] = n}
<1>12. Nat \subseteq G
  <2>1. 0 \in G
    BY <1>10
  <2>2. ASSUME NEW k \in Nat, k \in G PROVE k + 1 \in G
    <3> SUFFICES ASSUME k + 1 \in 0..n, K <= k + 1 PROVE ends[k + 1] = n
      OBVIOUS
    <3>1. k \in 0..n /\ k + 1 \in 1..n /\ (k + 1) - 1 = k
      OBVIOUS
    <3>2. CASE K <= k
      <4>1. ends[k] = n
        BY <2>2, <3>1, <3>2
      <4> QED BY <1>4, <3>1, <4>1
    <3>3. CASE K = k + 1
      BY <1>10, <3>3
    <3> QED BY <1>10, <3>2, <3>3
  <2> HIDE DEF G
  <2> QED BY <2>1, <2>2, NatSetInduction
<1> HIDE DEF H, G
<1>13. {k \in 0..n : ends[k] < n} = 0..(K - 1)
  <2>1. \A k \in 0..n : K <= k => ends[k] = n
    BY <1>12 DEF G
  <2>2. \A k : k \in 0..(K - 1) <=> k \in 0..n /\ k < K
    BY <1>10
  <2> QED BY <1>10, <1>11, <2>1, <2>2
<1>14. Cardinality(0..(K - 1)) = K
  <2>1. Cardinality(0..(K - 1)) = IF 0 > K - 1 THEN 0 ELSE K - 1 - 0 + 1
    BY <1>10, FS_Interval
  <2> QED BY <1>10, <2>1
<1>15. PICK parts : parts = Parts(w, camel)
  OBVIOUS
<1>16. parts = [k \in 1..K |-> SubSeq(w, ends[k - 1] + 1, ends[k])]
  BY <1>1, <1>2, <1>13, <1>14, <1>15 DEF Parts
<1>17. PICK at : at = [k \in 0..K |-> ends[k]]
  OBVIOUS
<1>18. at \in [0..K -> 0..n] /\ at[0] = 0 /\ at[K] = n
  BY <1>4, <1>10, <1>17
<1>19. ASSUME NEW k \in 1..K
       PROVE  at[k - 1] < at[k] /\ parts[k] = Cut(w, at[k - 1], at[k]) /\ parts[k] \in Words
  <2>1. k - 1 \in 0..K /\ k \in 0..K /\ k - 1 \in 0..n /\ k - 1 < K /\ k \in 1..n
    BY <1>10
  <2>2. at[k - 1] = ends[k - 1] /\ at[k] = ends[k]
    BY <1>17, <2>1
  <2>3. ends[k - 1] < ends[k]
    BY <1>4, <1>11, <2>1
  <2>4. parts[k] = Cut(w, at[k - 1], at[k])
    BY <1>16, <2>2 DEF Cut
  <2>5. at[k - 1] \in 0..Len(w) /\ at[k] \in at[k - 1]..Len(w)
    BY <1>1, <1>18, <2>1, <2>2, <2>3
  <2> QED BY <2>2, <2>3, <2>4, <2>5, CutFacts
<1>20. parts \in Seq(Words) /\ Len(parts) = K
  <2>1. parts \in [1..K -> Words]
    BY <1>16, <1>19
  <2> QED BY <1>10, <2>1
<1> QED BY <1>1, <1>10, <1>15, <1>18, <1>19, <1>20 DEF PartsOf

-----------------------------------------------------------------------------
(* One part.                                                                *)

Array == [1..Infos -> Info]
Cpi == [count : Nat, incorrect : Nat, first : Nat]
Checking == [inf : Array, ci : 1..(Infos + 1), prev : 0..Infos, ok : BOOLEAN, returned : BOOLEAN,
             cpi : Cpi]
Going == {a \in Checking : ~a.returned => a.ci <= Infos}

\* A state of the check of the parts.
LEMMA ReachedTyped ==
  ASSUME NEW inf \in Array, NEW ci \in 1..(Infos + 1), NEW prev \in 0..Infos, NEW ok \in BOOLEAN,
         NEW returned \in BOOLEAN, NEW cpi \in Cpi, ~returned => ci <= Infos
  PROVE  /\ Reached(inf, ci, prev, ok, returned, cpi) \in Going
         /\ Reached(inf, ci, prev, ok, returned, cpi).inf = inf
         /\ Reached(inf, ci, prev, ok, returned, cpi).ci = ci
         /\ Reached(inf, ci, prev, ok, returned, cpi).prev = prev
         /\ Reached(inf, ci, prev, ok, returned, cpi).ok = ok
         /\ Reached(inf, ci, prev, ok, returned, cpi).returned = returned
         /\ Reached(inf, ci, prev, ok, returned, cpi).cpi = cpi
  BY DEF Reached, Going, Checking

\* Writing to the array leaves the other places.
LEMMA ArrayWritten ==
  ASSUME NEW f \in Writings, NEW inf \in Array
  PROVE  /\ Written(f, inf) \in Array
         /\ \A i \in DOMAIN f : Written(f, inf)[i] = f[i]
         /\ \A i \in 1..Infos : i \notin DOMAIN f => Written(f, inf)[i] = inf[i]
<1>1. inf \in Writings /\ DOMAIN inf = 1..Infos
  BY DEF Array, Writings
<1>2. PICK g : g = Written(f, inf)
  OBVIOUS
<1>3. g \in Writings /\ DOMAIN g = DOMAIN f \cup DOMAIN inf
      /\ (\A i \in DOMAIN f : g[i] = f[i])
      /\ \A i \in DOMAIN inf : i \notin DOMAIN f => g[i] = inf[i]
  BY <1>1, <1>2, WrittenFacts
<1>4. DOMAIN f \subseteq 1..Infos
  BY WritingsFacts
<1>5. DOMAIN g = 1..Infos
  BY <1>1, <1>3, <1>4
<1>6. g = [i \in 1..Infos |-> g[i]] /\ \A i \in 1..Infos : g[i] \in Info
  BY <1>3, <1>5, WritingsFacts
<1>7. g \in Array
  BY <1>6 DEF Array
<1> QED BY <1>1, <1>2, <1>3, <1>7

\* A wrong part is marked.
Marked(inf, ci, part) == [inf EXCEPT ![ci].word = <<part>>, ![ci].incorrect = TRUE]
\* Marking a part leaves the other places.
LEMMA MarkedFacts ==
  ASSUME NEW inf \in Array, NEW ci \in 1..Infos, NEW part \in Words
  PROVE  /\ Marked(inf, ci, part) \in Array
         /\ Marked(inf, ci, part)[ci].word = <<part>>
         /\ \A i \in 1..Infos : i # ci => Marked(inf, ci, part)[i] = inf[i]
<1>1. PICK x \in Info : x = inf[ci]
  BY DEF Array
<1>2. PICK y : y = [x EXCEPT !.word = <<part>>, !.incorrect = TRUE]
  OBVIOUS
<1>3. y \in Info /\ y.word = <<part>>
  <2>1. <<part>> \in Optional
    BY DEF Optional
  <2> QED BY <1>2, <2>1 DEF Info
<1>4. Marked(inf, ci, part) = [inf EXCEPT ![ci] = y]
  BY <1>1, <1>2 DEF Marked, Array
<1> QED BY <1>3, <1>4 DEF Array

\* Linking leaves the words.
LEMMA LinkFacts ==
  ASSUME NEW inf \in Array, NEW prev \in 0..Infos, NEW ci \in Nat
  PROVE  /\ Link(inf, prev, ci) \in Array
         /\ \A i \in 1..Infos : /\ Link(inf, prev, ci)[i].word = inf[i].word
                                /\ Link(inf, prev, ci)[i].incorrect = inf[i].incorrect
                                /\ i # prev => Link(inf, prev, ci)[i] = inf[i]
         /\ prev # 0 => /\ Link(inf, prev, ci)[prev].compound = TRUE
                        /\ Link(inf, prev, ci)[prev].next = ci
<1>1. CASE prev = 0
  <2>1. Link(inf, prev, ci) = inf
    BY <1>1 DEF Link
  <2> QED BY <1>1, <2>1
<1>2. CASE prev # 0
  <2>1. prev \in 1..Infos
    BY <1>2, LimitAssumption
  <2>2. PICK x \in Info : x = inf[prev]
    BY <2>1 DEF Array
  <2>3. PICK y : y = [x EXCEPT !.compound = TRUE, !.next = ci]
    OBVIOUS
  <2>4. y \in Info /\ y.word = x.word /\ y.incorrect = x.incorrect /\ y.compound = TRUE /\ y.next = ci
    BY <2>3 DEF Info
  <2>5. PICK g : g = Link(inf, prev, ci)
    OBVIOUS
  <2>6. g = [inf EXCEPT ![prev] = y]
    BY <1>2, <2>2, <2>3, <2>5 DEF Link, Array
  <2>7. g \in Array /\ g[prev] = y /\ \A i \in 1..Infos : i # prev => g[i] = inf[i]
    BY <2>1, <2>4, <2>6 DEF Array
  <2> QED BY <2>2, <2>4, <2>5, <2>7
<1> QED BY <1>1, <1>2

\* What counting a part counts.
LEMMA CountFacts ==
  ASSUME NEW cpi \in Cpi, NEW ci \in Nat, NEW found \in BOOLEAN
  PROVE  /\ Count(cpi, ci, found) \in Cpi
         /\ [Count(cpi, ci, found) EXCEPT !.count = 0] \in Cpi
         /\ Count(cpi, ci, found).count = cpi.count + 1
         /\ Count(cpi, ci, found).incorrect = IF found THEN cpi.incorrect ELSE cpi.incorrect + 1
         /\ Count(cpi, ci, found).first = IF found \/ cpi.first # 0 THEN cpi.first ELSE ci
<1>1. PICK n \in Nat, m \in Nat : /\ n = (IF found THEN cpi.incorrect ELSE cpi.incorrect + 1)
                                  /\ m = (IF found \/ cpi.first # 0 THEN cpi.first ELSE ci)
  BY DEF Cpi
<1>2. PICK c \in Nat : c = cpi.count + 1
  BY DEF Cpi
<1>3. PICK r : r = Count(cpi, ci, found)
  OBVIOUS
<1>4. r = [count |-> c, incorrect |-> n, first |-> m]
  BY <1>1, <1>2, <1>3 DEF Count
<1>5. r \in Cpi /\ r.count = c /\ r.incorrect = n /\ r.first = m
  BY <1>4 DEF Cpi
<1>6. [r EXCEPT !.count = 0] \in Cpi
  BY <1>5 DEF Cpi
<1> QED BY <1>1, <1>2, <1>3, <1>5, <1>6

\* One part, case by case.
PartStep(r, acc, part, run, counting, left, marked, linked, end) ==
  /\ r \in Going
  /\ acc.returned => r = acc
  /\ ~acc.returned /\ run.last = 0 /\ ~counting => r.ok = FALSE /\ r.returned = TRUE
  /\ ~acc.returned /\ (run.last # 0 \/ counting) =>
       /\ left = Written(run.inf, acc.inf) /\ left \in Array
       /\ marked = (IF run.last # 0 THEN left ELSE Marked(left, acc.ci, part)) /\ marked \in Array
       /\ linked = Link(marked, acc.prev, acc.ci) /\ linked \in Array
       /\ end = (IF run.last # 0 THEN run.last ELSE acc.ci) /\ end \in acc.ci..Infos
       /\ r.inf = linked /\ r.ci = end + 1 /\ r.prev = end
       /\ Full(end) => r.ok = FALSE /\ r.returned = TRUE /\ r.cpi.count = 0
       /\ ~Full(end) => /\ r.returned = FALSE
                        /\ r.ok <=> acc.ok /\ run.last # 0
                        /\ counting => r.cpi = Count(acc.cpi, acc.ci, run.last # 0)

\* CheckPart is such a step.
LEMMA CheckPartFacts ==
  ASSUME NEW acc \in Going, NEW part \in Words, NEW run, NEW counting \in BOOLEAN,
         ~acc.returned => run \in Result /\ (run.last # 0 => run.last \in acc.ci..Infos)
  PROVE  \E left, marked, linked, end :
           PartStep(CheckPart(acc, part, run, counting), acc, part, run, counting, left, marked,
                    linked, end)
<1>1. PICK r : r = CheckPart(acc, part, run, counting)
  OBVIOUS
<1>2. PICK end : end = IF run.last # 0 THEN run.last ELSE acc.ci
  OBVIOUS
<1>3. PICK left : left = Written(run.inf, acc.inf)
  OBVIOUS
<1>4. PICK marked : marked = IF run.last # 0 THEN left ELSE Marked(left, acc.ci, part)
  OBVIOUS
<1>5. PICK linked : linked = Link(marked, acc.prev, acc.ci)
  OBVIOUS
<1>6. acc.inf \in Array /\ acc.ci \in 1..(Infos + 1) /\ acc.prev \in 0..Infos /\ acc.ok \in BOOLEAN
      /\ acc.returned \in BOOLEAN /\ acc.cpi \in Cpi
  BY DEF Going, Checking
<1> SUFFICES PartStep(r, acc, part, run, counting, left, marked, linked, end)
  BY <1>1
<1>7. CASE acc.returned
  <2>1. r = acc
    BY <1>1, <1>7 DEF CheckPart
  <2> QED BY <1>7, <2>1 DEF PartStep
<1>8. CASE ~acc.returned
  <2>1. run \in Result /\ acc.ci \in 1..Infos /\ run.inf \in Writings
    BY <1>8, LimitAssumption DEF Going, Result, Checking
  <2>0. PICK yes \in BOOLEAN, no \in BOOLEAN : yes /\ yes = TRUE /\ ~no /\ no = FALSE
    OBVIOUS
  <2>2. PICK found \in BOOLEAN : found = (run.last # 0)
    OBVIOUS
  <2>3. left \in Array
    BY <1>3, <1>6, <2>1, ArrayWritten
  <2>4. marked \in Array
    BY <1>4, <2>1, <2>3, MarkedFacts
  <2>5. linked \in Array
    <3>1. acc.ci \in Nat
      BY <2>1
    <3> QED BY <1>5, <1>6, <2>4, <3>1, LinkFacts
  <2>6. end \in acc.ci..Infos /\ end \in 0..Infos /\ end + 1 \in 1..(Infos + 1)
    <3>1. run.last # 0 => run.last \in acc.ci..Infos
      BY <1>8
    <3> QED BY <1>2, <2>1, <3>1, LimitAssumption
  <2>7. PICK counted : counted = IF counting THEN Count(acc.cpi, acc.ci, found) ELSE acc.cpi
    OBVIOUS
  <2>8. counted \in Cpi /\ [counted EXCEPT !.count = 0] \in Cpi
    <3>1. CASE counting
      <4>1. acc.ci \in Nat
        BY <2>1
      <4> QED BY <1>6, <2>7, <3>1, <4>1, CountFacts
    <3>2. CASE ~counting
      BY <1>6, <2>7, <3>2 DEF Cpi
    <3> QED BY <3>1, <3>2
  <2>9. CASE ~found /\ ~counting
    <3>1. r = Reached(left, acc.ci, acc.prev, FALSE, TRUE, acc.cpi)
      BY <1>1, <1>3, <1>8, <2>2, <2>9 DEF CheckPart
    <3>3. PICK inf \in Array, ci \in 1..(Infos + 1), prev \in 0..Infos, cpi \in Cpi :
            inf = left /\ ci = acc.ci /\ prev = acc.prev /\ cpi = acc.cpi
      BY <1>6, <2>3
    <3>4. r = Reached(inf, ci, prev, no, yes, cpi)
      BY <2>0, <3>1, <3>3
    <3>5. /\ Reached(inf, ci, prev, no, yes, cpi) \in Going
          /\ Reached(inf, ci, prev, no, yes, cpi).ok = no
          /\ Reached(inf, ci, prev, no, yes, cpi).returned = yes
      <4>1. ~yes => ci <= Infos
        BY <2>0
      <4> QED BY <4>1, ReachedTyped
    <3>2. r \in Going /\ r.ok = FALSE /\ r.returned = TRUE
      BY <2>0, <3>4, <3>5
    <3> QED BY <1>8, <2>2, <2>9, <3>2 DEF PartStep
  <2>10. CASE (found \/ counting) /\ Full(end)
    <3>1. r = Reached(linked, end + 1, end, FALSE, TRUE, [counted EXCEPT !.count = 0])
      BY <1>1, <1>2, <1>3, <1>4, <1>5, <1>8, <2>2, <2>7, <2>10 DEF CheckPart, Marked
    <3>2. PICK c \in Cpi : c = [counted EXCEPT !.count = 0]
      BY <2>8
    <3>3. c.count = 0
      BY <2>8, <3>2 DEF Cpi
    <3>4. r = Reached(linked, end + 1, end, FALSE, TRUE, c)
      BY <3>1, <3>2
    <3>5. /\ r \in Going /\ r.inf = linked /\ r.ci = end + 1 /\ r.prev = end
          /\ r.ok = FALSE /\ r.returned = TRUE /\ r.cpi = c
      <4>1. PICK ci \in 1..(Infos + 1), prev \in 0..Infos : ci = end + 1 /\ prev = end
        BY <2>6
      <4>2. r = Reached(linked, ci, prev, no, yes, c)
        BY <2>0, <3>4, <4>1
      <4>3. /\ Reached(linked, ci, prev, no, yes, c) \in Going
            /\ Reached(linked, ci, prev, no, yes, c).inf = linked
            /\ Reached(linked, ci, prev, no, yes, c).ci = ci
            /\ Reached(linked, ci, prev, no, yes, c).prev = prev
            /\ Reached(linked, ci, prev, no, yes, c).ok = no
            /\ Reached(linked, ci, prev, no, yes, c).returned = yes
            /\ Reached(linked, ci, prev, no, yes, c).cpi = c
        <5>1. ~yes => ci <= Infos
          BY <2>0
        <5> QED BY <2>5, <5>1, ReachedTyped
      <4> QED BY <2>0, <4>1, <4>2, <4>3
    <3> QED BY <1>2, <1>3, <1>4, <1>5, <1>8, <2>2, <2>3, <2>4, <2>5, <2>6, <2>10, <3>3, <3>5 DEF PartStep
  <2>11. CASE (found \/ counting) /\ ~Full(end)
    <3>1. PICK ok \in BOOLEAN : ok = (acc.ok /\ found)
      OBVIOUS
    <3>2. r = Reached(linked, end + 1, end, ok, FALSE, counted)
      BY <1>1, <1>2, <1>3, <1>4, <1>5, <1>8, <2>2, <2>7, <2>11, <3>1 DEF CheckPart, Marked
    <3>3. end + 1 <= Infos
      BY <2>6, <2>11, LimitAssumption DEF Full
    <3>4. /\ r \in Going /\ r.inf = linked /\ r.ci = end + 1 /\ r.prev = end
          /\ r.ok = ok /\ r.returned = FALSE /\ r.cpi = counted
      <4>1. PICK ci \in 1..(Infos + 1), prev \in 0..Infos : ci = end + 1 /\ prev = end
        BY <2>6
      <4>2. r = Reached(linked, ci, prev, ok, no, counted)
        BY <2>0, <3>2, <4>1
      <4>3. /\ Reached(linked, ci, prev, ok, no, counted) \in Going
            /\ Reached(linked, ci, prev, ok, no, counted).inf = linked
            /\ Reached(linked, ci, prev, ok, no, counted).ci = ci
            /\ Reached(linked, ci, prev, ok, no, counted).prev = prev
            /\ Reached(linked, ci, prev, ok, no, counted).ok = ok
            /\ Reached(linked, ci, prev, ok, no, counted).returned = no
            /\ Reached(linked, ci, prev, ok, no, counted).cpi = counted
        BY <2>0, <2>5, <2>8, <3>3, <4>1, ReachedTyped
      <4> QED BY <2>0, <4>1, <4>2, <4>3
    <3>5. counting => r.cpi = Count(acc.cpi, acc.ci, run.last # 0)
      BY <2>2, <2>7, <3>4
    <3> QED BY <1>2, <1>3, <1>4, <1>5, <1>8, <2>2, <2>3, <2>4, <2>5, <2>6, <2>11, <3>1, <3>4, <3>5 DEF PartStep
  <2> QED BY <2>9, <2>10, <2>11
<1> QED BY <1>6, <1>7, <1>8

\* The parts, one after the other.
PartOp(o, counting) ==
  [part \in Words |-> [acc \in Going |->
     CheckPart(acc, part, RunTogether(part, acc.ci, Limit(o), o.min), counting)]]

\* What check_runtogether makes of the part, where the check has come to.
LEMMA PlacesTyped ==
  ASSUME ListsOK, NEW o \in Options, NEW part \in Words, NEW acc \in Going, ~acc.returned,
         NEW run, run = RunTogether(part, acc.ci, Limit(o), o.min)
  PROVE  /\ acc.ci \in 1..Infos /\ Limit(o) \in 0..Infos /\ o.min \in Nat
         /\ run \in Result /\ Sound(run, acc.ci, o.min, part, 0)
         /\ run.last # 0 => run.last \in acc.ci..Infos
<1>1. acc.ci \in 1..Infos
  BY LimitAssumption DEF Going, Checking
<1>2. o.runTogether \in BOOLEAN /\ o.limit \in 0..Infos /\ o.min \in Nat
  BY LimitAssumption
<1>3. Limit(o) \in 0..Infos
  BY <1>2, LimitAssumption DEF Limit
<1>4. run \in Result /\ Sound(run, acc.ci, o.min, part, 0)
  BY <1>1, <1>2, <1>3, RunSound
<1> QED BY <1>1, <1>2, <1>3, <1>4 DEF Sound

\* So every part leads from one state of the check to another.
LEMMA PartOpTyped ==
  ASSUME ListsOK, NEW o \in Options, NEW counting \in BOOLEAN
  PROVE  PartOp(o, counting) \in [Words -> [Going -> Going]]
<1>1. ASSUME NEW part \in Words, NEW acc \in Going
      PROVE  CheckPart(acc, part, RunTogether(part, acc.ci, Limit(o), o.min), counting) \in Going
  <2>1. PICK run : run = RunTogether(part, acc.ci, Limit(o), o.min)
    OBVIOUS
  <2>2. ~acc.returned => run \in Result /\ (run.last # 0 => run.last \in acc.ci..Infos)
    BY <2>1, PlacesTyped
  <2>3. \E left, marked, linked, end :
           PartStep(CheckPart(acc, part, run, counting), acc, part, run, counting, left, marked,
                    linked, end)
    BY <2>2, CheckPartFacts
  <2> QED BY <2>1, <2>3 DEF PartStep
<1> QED BY <1>1 DEF PartOp

\* Where the parts start.
Start(inf) == Reached(inf, 1, 0, TRUE, FALSE, NoCount)

\* It starts at place 1, with nothing before it.
LEMMA StartTyped ==
  ASSUME NEW inf \in Array
  PROVE  /\ Start(inf) \in Going /\ Start(inf).inf = inf /\ Start(inf).ci = 1 /\ Start(inf).prev = 0
         /\ Start(inf).ok = TRUE /\ Start(inf).returned = FALSE /\ Start(inf).cpi = NoCount
<1>1. PICK yes \in BOOLEAN, no \in BOOLEAN : yes = TRUE /\ no = FALSE
  OBVIOUS
<1>2. PICK one \in 1..(Infos + 1), none \in 0..Infos : one = 1 /\ none = 0 /\ one <= Infos
  BY LimitAssumption
<1>3. PICK cpi \in Cpi : cpi = NoCount
  BY DEF Cpi, NoCount
<1>4. /\ Reached(inf, one, none, yes, no, cpi) \in Going
      /\ Reached(inf, one, none, yes, no, cpi).inf = inf
      /\ Reached(inf, one, none, yes, no, cpi).ci = one
      /\ Reached(inf, one, none, yes, no, cpi).prev = none
      /\ Reached(inf, one, none, yes, no, cpi).ok = yes
      /\ Reached(inf, one, none, yes, no, cpi).returned = no
      /\ Reached(inf, one, none, yes, no, cpi).cpi = cpi
  BY <1>2, ReachedTyped
<1>5. Start(inf) = Reached(inf, one, none, yes, no, cpi)
  BY <1>1, <1>2, <1>3 DEF Start
<1> QED BY <1>1, <1>2, <1>3, <1>4, <1>5

\* The fold of CheckParts goes from the first part to the last.
LEMMA PartLeads ==
  ASSUME ListsOK, NEW inf, NEW o \in Options, NEW counting \in BOOLEAN, NEW seq \in Seq(Words), Start(inf) \in Going
  PROVE  CheckParts(inf, seq, o, Limit(o), counting) = Through(PartOp(o, counting), Start(inf), seq)
<1> DEFINE base == Start(inf)
           next(d, f) == CheckPart(d, f, RunTogether(f, d.ci, Limit(o), o.min), counting)
           value(it) == [p \in SUBSET DOMAIN seq |->
                           IF p = {} THEN base ELSE next(it[p \ {Max(p)}], seq[Max(p)])]
<1>1. PICK n \in Nat : n = Len(seq) /\ DOMAIN seq = 1..n
  BY LenProperties
<1>2. CheckParts(inf, seq, o, Limit(o), counting) = (CHOOSE it : it = value(it))[1..n]
  <2>1. CheckParts(inf, seq, o, Limit(o), counting) = FoldLeft(next, base, seq)
    BY DEF CheckParts, Start
  <2>2. FoldLeft(next, base, seq) = (CHOOSE it : it = value(it))[DOMAIN seq]
    BY DEF FoldLeft, MapThenFoldSet
  <2> QED BY <1>1, <2>1, <2>2
<1>3. PICK op \in [Words -> [Going -> Going]] :
        /\ op = PartOp(o, counting)
        /\ \A f \in Words : \A d \in Going : op[f][d] = next(d, f)
  BY PartOpTyped DEF PartOp
<1>4. PICK a \in Going : a = base
  OBVIOUS
<1> HIDE DEF base, next
<1>5. PICK it : it = value(it) /\ (CHOOSE i : i = value(i)) = it
  <2>1. PICK it : FoldAlong(it, n, Going, op, a, seq)
    <3>1. \E it : FoldAlong(it, n, Going, op, a, seq)
      BY <1>1, AlongExists
    <3> QED BY <3>1
  <2>2. ASSUME NEW p \in SUBSET (1..n)
        PROVE  it[p] = IF p = {} THEN base ELSE next(it[p \ {Max(p)}], seq[Max(p)])
    <3>1. CASE p # {}
      <4>1. Max(p) \in 1..n
        BY <3>1, MaxOf
      <4>2. seq[Max(p)] \in Words
        BY <1>1, <4>1, ElementOfSeq
      <4>3. it[p \ {Max(p)}] \in Going /\ it[p] = op[seq[Max(p)]][it[p \ {Max(p)}]]
        BY <2>1, <3>1 DEF FoldAlong
      <4> QED BY <1>3, <3>1, <4>2, <4>3
    <3> QED BY <1>4, <2>1, <3>1 DEF FoldAlong
  <2>3. it = value(it)
    BY <1>1, <2>1, <2>2 DEF FoldAlong
  <2> HIDE DEF value
  <2> QED BY <2>3
<1>6. StepsAlong(it, n, Going, op, a, seq)
  <2>1. it[{}] = a
    BY <1>4, <1>5
  <2>2. ASSUME NEW p \in SUBSET (1..n), p # {}, it[p \ {Max(p)}] \in Going
        PROVE  it[p] = op[seq[Max(p)]][it[p \ {Max(p)}]]
    <3>1. Max(p) \in 1..n
      BY <2>2, MaxOf
    <3>2. seq[Max(p)] \in Words
      BY <1>1, <3>1, ElementOfSeq
    <3>3. it[p] = next(it[p \ {Max(p)}], seq[Max(p)])
      BY <1>1, <1>5, <2>2
    <3> QED BY <1>3, <2>2, <3>2, <3>3
  <2> HIDE DEF value
  <2> QED BY <2>1, <2>2 DEF StepsAlong
<1> HIDE DEF value
<1>7. it[1..n] = Through(op, a, seq)
  BY <1>1, <1>6, AlongLeads
<1> QED BY <1>2, <1>3, <1>4, <1>5, <1>7 DEF base

\* h has what became of the check before the first part and behind every part.
Steps(h, K, o, counting, inf, parts) ==
  /\ h \in [0..K -> Going] /\ h[0] = Start(inf)
  /\ \A k \in 1..K : h[k] = CheckPart(h[k - 1], parts[k],
                                      RunTogether(parts[k], h[k - 1].ci, Limit(o), o.min), counting)

\* So it goes through a state behind every part.
LEMMA CheckPartsSteps ==
  ASSUME ListsOK, NEW inf \in Array, NEW o \in Options, NEW counting \in BOOLEAN,
         NEW parts \in Seq(Words), NEW K \in Nat, K = Len(parts)
  PROVE  \E h : /\ Steps(h, K, o, counting, inf, parts)
                /\ CheckParts(inf, parts, o, Limit(o), counting) = h[K]
<1>1. PICK op \in [Words -> [Going -> Going]], a \in Going : op = PartOp(o, counting) /\ a = Start(inf)
  BY PartOpTyped, StartTyped
<1>2. CheckParts(inf, parts, o, Limit(o), counting) = Through(op, a, parts)
  BY <1>1, PartLeads
<1>3. PICK h : RunTo(h, K, Going, op, a, parts)
  BY ThroughRuns
<1>4. h \in [0..K -> Going] /\ h[0] = a /\ Through(op, a, parts) = h[K]
  BY <1>3 DEF RunTo, Runs
<1>5. ASSUME NEW k \in 1..K
      PROVE  h[k] = CheckPart(h[k - 1], parts[k],
                              RunTogether(parts[k], h[k - 1].ci, Limit(o), o.min), counting)
  <2>1. h[k] = op[parts[k]][h[k - 1]]
    BY <1>3 DEF RunTo, Runs
  <2>2. k - 1 \in 0..K
    OBVIOUS
  <2>3. PICK acc \in Going, part \in Words : acc = h[k - 1] /\ part = parts[k]
    BY <1>4, <2>2, ElementOfSeq
  <2>4. op[part][acc] = CheckPart(acc, part, RunTogether(part, acc.ci, Limit(o), o.min), counting)
    BY <1>1 DEF PartOp
  <2> QED BY <2>1, <2>3, <2>4
<1>6. Steps(h, K, o, counting, inf, parts)
  BY <1>1, <1>4, <1>5 DEF Steps
<1> QED BY <1>2, <1>4, <1>6

-----------------------------------------------------------------------------
(* The chain, as words.                                                     *)

Pieces == {info \in Info : info.word # Null}
SpellOp == [info \in Pieces |-> [word \in Words |-> word \o info.word[1]]]

\* A piece adds its word to the letters before it.
LEMMA SpellOpTyped == SpellOp \in [Pieces -> [Words -> Words]]
<1>1. ASSUME NEW info \in Pieces, NEW word \in Words PROVE word \o info.word[1] \in Words
  <2>1. info.word \in Optional /\ info.word # Null
    BY DEF Pieces, Info
  <2>2. PICK d \in Words : info.word[1] = d
    BY <2>1 DEF Optional
  <2> QED BY <2>2, ConcatProperties DEF Words
<1> QED BY <1>1 DEF SpellOp

\* The fold of Spelled goes from the first piece to the last.
LEMMA SpellLeads ==
  ASSUME NEW seq \in Seq(Pieces), <<>> \in Words
  PROVE  Spelled(seq) = Through(SpellOp, <<>>, seq)
<1> DEFINE base == <<>>
           next(d, f) == d \o f.word[1]
           value(it) == [p \in SUBSET DOMAIN seq |->
                           IF p = {} THEN base ELSE next(it[p \ {Max(p)}], seq[Max(p)])]
<1>1. PICK n \in Nat : n = Len(seq) /\ DOMAIN seq = 1..n
  BY LenProperties
<1>2. Spelled(seq) = (CHOOSE it : it = value(it))[1..n]
  <2>1. Spelled(seq) = FoldLeft(next, base, seq)
    BY DEF Spelled
  <2>2. FoldLeft(next, base, seq) = (CHOOSE it : it = value(it))[DOMAIN seq]
    BY DEF FoldLeft, MapThenFoldSet
  <2> QED BY <1>1, <2>1, <2>2
<1>3. PICK op \in [Pieces -> [Words -> Words]] :
        /\ op = SpellOp
        /\ \A f \in Pieces : \A d \in Words : op[f][d] = next(d, f)
  BY SpellOpTyped DEF SpellOp
<1>4. PICK a \in Words : a = base
  OBVIOUS
<1> HIDE DEF base, next
<1>5. PICK it : it = value(it) /\ (CHOOSE i : i = value(i)) = it
  <2>1. PICK it : FoldAlong(it, n, Words, op, a, seq)
    <3>1. \E it : FoldAlong(it, n, Words, op, a, seq)
      BY <1>1, AlongExists
    <3> QED BY <3>1
  <2>2. ASSUME NEW p \in SUBSET (1..n)
        PROVE  it[p] = IF p = {} THEN base ELSE next(it[p \ {Max(p)}], seq[Max(p)])
    <3>1. CASE p # {}
      <4>1. Max(p) \in 1..n
        BY <3>1, MaxOf
      <4>2. seq[Max(p)] \in Pieces
        BY <1>1, <4>1, ElementOfSeq
      <4>3. it[p \ {Max(p)}] \in Words /\ it[p] = op[seq[Max(p)]][it[p \ {Max(p)}]]
        BY <2>1, <3>1 DEF FoldAlong
      <4> QED BY <1>3, <3>1, <4>2, <4>3
    <3> QED BY <1>4, <2>1, <3>1 DEF FoldAlong
  <2>3. it = value(it)
    BY <1>1, <2>1, <2>2 DEF FoldAlong
  <2> HIDE DEF value
  <2> QED BY <2>3
<1>6. StepsAlong(it, n, Words, op, a, seq)
  <2>1. it[{}] = a
    BY <1>4, <1>5
  <2>2. ASSUME NEW p \in SUBSET (1..n), p # {}, it[p \ {Max(p)}] \in Words
        PROVE  it[p] = op[seq[Max(p)]][it[p \ {Max(p)}]]
    <3>1. Max(p) \in 1..n
      BY <2>2, MaxOf
    <3>2. seq[Max(p)] \in Pieces
      BY <1>1, <3>1, ElementOfSeq
    <3>3. it[p] = next(it[p \ {Max(p)}], seq[Max(p)])
      BY <1>1, <1>5, <2>2
    <3> QED BY <1>3, <2>2, <3>2, <3>3
  <2> HIDE DEF value
  <2> QED BY <2>1, <2>2 DEF StepsAlong
<1> HIDE DEF value
<1>7. it[1..n] = Through(op, a, seq)
  BY <1>1, <1>6, AlongLeads
<1> QED BY <1>2, <1>3, <1>4, <1>5, <1>7 DEF base

\* The function Chain goes along.
At(inf, at) ==
  at = [n \in 0..Infos |-> IF n = 0 THEN 1
                           ELSE LET before == at[n - 1] IN IF before = 0 THEN 0 ELSE inf[before].next]

\* The chain of pieces that are linked is they, in their order.
LEMMA ChainIs ==
  ASSUME NEW inf \in Array, NEW L \in 1..Infos, Linked(inf, 1, L)
  PROVE  Chain(inf) = [k \in 1..L |-> inf[k]]
<1>1. PICK N \in Nat : N = Infos /\ L <= N /\ L \in Nat /\ 1 <= L
  BY LimitAssumption
<1>2. \A j \in 1..L : inf[j].next = IF j < L THEN j + 1 ELSE 0
  BY DEF Linked
<1>3. PICK g : g = [n \in 0..N |-> IF n < L THEN n + 1 ELSE 0]
  OBVIOUS
<1>4. At(inf, g)
  <2>1. ASSUME NEW n \in 0..N
        PROVE  g[n] = IF n = 0 THEN 1
                      ELSE LET before == g[n - 1] IN IF before = 0 THEN 0 ELSE inf[before].next
    <3>1. CASE n = 0
      BY <1>1, <1>3, <3>1
    <3>2. CASE n # 0
      <4>1. n - 1 \in 0..N /\ n \in 1..N
        BY <3>2
      <4>2. g[n - 1] = IF n - 1 < L THEN (n - 1) + 1 ELSE 0
        BY <1>3, <4>1
      <4>3. g[n] = IF n < L THEN n + 1 ELSE 0
        BY <1>3
      <4>4. CASE n <= L
        <5>1. g[n - 1] = n /\ n \in 1..L
          BY <1>1, <4>1, <4>2, <4>4
        <5>2. inf[n].next = IF n < L THEN n + 1 ELSE 0
          BY <1>2, <5>1
        <5> QED BY <3>2, <4>1, <4>3, <5>1, <5>2
      <4>5. CASE ~(n <= L)
        <5>1. g[n - 1] = 0 /\ g[n] = 0
          BY <1>1, <4>1, <4>2, <4>3, <4>5
        <5> QED BY <3>2, <5>1
      <4> QED BY <4>4, <4>5
    <3> QED BY <3>1, <3>2
  <2>2. g = [n \in 0..N |-> g[n]]
    BY <1>3
  <2>3. g = [n \in 0..N |-> IF n = 0 THEN 1
                            ELSE LET before == g[n - 1] IN IF before = 0 THEN 0 ELSE inf[before].next]
    BY <2>1, <2>2
  <2> QED BY <1>1, <2>3 DEF At
<1>5. PICK at : at = CHOOSE a : At(inf, a)
  OBVIOUS
<1>6. At(inf, at)
  BY <1>4, <1>5
<1>7. /\ at = [n \in 0..N |-> at[n]] /\ at[0] = 1
      /\ \A n \in 1..N : at[n] = IF at[n - 1] = 0 THEN 0 ELSE inf[at[n - 1]].next
  <2>1. \A n \in 1..N : n \in 0..N /\ n # 0
    OBVIOUS
  <2>2. 0 \in 0..N
    OBVIOUS
  <2> QED BY <1>1, <1>6, <2>1, <2>2 DEF At
<1> DEFINE H == {n \in Nat : n \in 0..N => at[n] = g[n]}
<1>8. Nat \subseteq H
  <2>1. 0 \in H
    BY <1>1, <1>3, <1>7
  <2>2. ASSUME NEW n \in Nat, n \in H PROVE n + 1 \in H
    <3> SUFFICES ASSUME n + 1 \in 0..N PROVE at[n + 1] = g[n + 1]
      OBVIOUS
    <3>1. n \in 0..N /\ n + 1 \in 1..N /\ (n + 1) - 1 = n /\ n + 1 # 0
      OBVIOUS
    <3>2. at[n] = g[n]
      BY <2>2, <3>1
    <3>3. at[n + 1] = IF g[n] = 0 THEN 0 ELSE inf[g[n]].next
      BY <1>7, <3>1, <3>2
    <3>4. g[n + 1] = IF g[n] = 0 THEN 0 ELSE inf[g[n]].next
      BY <1>1, <1>4, <3>1 DEF At
    <3> QED BY <3>3, <3>4
  <2> HIDE DEF H
  <2> QED BY <2>1, <2>2, NatSetInduction
<1>9. ASSUME NEW n \in 0..N PROVE at[n] = IF n < L THEN n + 1 ELSE 0
  <2>1. n \in Nat
    OBVIOUS
  <2>2. n \in H
    BY <1>8, <2>1
  <2>3. at[n] = g[n]
    BY <2>2
  <2> QED BY <1>3, <2>3
<1> HIDE DEF H
<1>10. {n \in 0..N : at[n] # 0} = 0..(L - 1)
  <2>1. \A n : n \in 0..(L - 1) <=> n \in 0..N /\ n < L
    BY <1>1
  <2>2. \A n \in 0..N : at[n] # 0 <=> n < L
    BY <1>9
  <2> QED BY <2>1, <2>2
<1>11. Cardinality(0..(L - 1)) = L
  <2>1. Cardinality(0..(L - 1)) = IF 0 > L - 1 THEN 0 ELSE L - 1 - 0 + 1
    BY <1>1, FS_Interval
  <2> QED BY <1>1, <2>1
<1>12. Chain(inf) = [k \in 1..Cardinality({n \in 0..N : at[n] # 0}) |-> inf[at[k - 1]]]
  BY <1>1, <1>5 DEF Chain, At
<1>13. Chain(inf) = [k \in 1..L |-> inf[at[k - 1]]]
  BY <1>10, <1>11, <1>12
<1>14. \A k \in 1..L : at[k - 1] = k
  <2> SUFFICES ASSUME NEW k \in 1..L PROVE at[k - 1] = k
    OBVIOUS
  <2>1. k - 1 \in 0..N /\ k - 1 < L /\ (k - 1) + 1 = k
    BY <1>1
  <2> QED BY <1>9, <2>1
<1> QED BY <1>13, <1>14

\* Upper goes letter by letter, of two words as of one.
LEMMA UpperConcat ==
  ASSUME NEW a \in Words, NEW b \in Words
  PROVE  a \o b \in Words /\ Upper(a \o b) = Upper(a) \o Upper(b)
<1>1. PICK m \in Nat, n \in Nat : m = Len(a) /\ n = Len(b)
  BY DEF Words
<1>2. PICK c : c = a \o b
  OBVIOUS
<1>3. c \in Words /\ Len(c) = m + n /\ \A i \in 1..(m + n) : c[i] = IF i <= m THEN a[i] ELSE b[i - m]
  BY <1>1, <1>2, ConcatProperties DEF Words
<1>4. PICK u, v : u = Upper(a) /\ v = Upper(b)
  OBVIOUS
<1>5. /\ u \in Words /\ Len(u) = m /\ \A i \in 1..m : u[i] = UpperChar(a[i])
      /\ v \in Words /\ Len(v) = n /\ \A i \in 1..n : v[i] = UpperChar(b[i])
  <2>1. DOMAIN a = 1..m /\ DOMAIN b = 1..n
    BY <1>1 DEF Words
  <2> QED BY <1>1, <1>4, <2>1, UpperFacts
<1>6. PICK d : d = u \o v
  OBVIOUS
<1>7. d \in Words /\ Len(d) = m + n /\ \A i \in 1..(m + n) : d[i] = IF i <= m THEN u[i] ELSE v[i - m]
  BY <1>5, <1>6, ConcatProperties DEF Words
<1>8. PICK e : e = Upper(c)
  OBVIOUS
<1>9. e \in Words /\ Len(e) = m + n /\ \A i \in 1..(m + n) : e[i] = UpperChar(c[i])
  <2>1. DOMAIN c = 1..(m + n)
    BY <1>3 DEF Words
  <2> QED BY <1>3, <1>8, <2>1, UpperFacts
<1>10. ASSUME NEW i \in 1..(m + n) PROVE e[i] = d[i]
  <2>1. CASE i <= m
    <3>1. i \in 1..m
      BY <2>1
    <3> QED BY <1>3, <1>5, <1>7, <1>9, <2>1, <3>1
  <2>2. CASE ~(i <= m)
    <3>1. i - m \in 1..n
      BY <2>2
    <3> QED BY <1>3, <1>5, <1>7, <1>9, <2>2, <3>1
  <2> QED BY <2>1, <2>2
<1>11. e = d
  BY <1>7, <1>9, <1>10 DEF Words
<1> QED BY <1>2, <1>3, <1>4, <1>6, <1>8, <1>11

\* Two cuts side by side are one.
LEMMA CutConcat ==
  ASSUME NEW w \in Words, NEW b \in 0..Len(w), NEW e \in b..Len(w)
  PROVE  Cut(w, 0, e) = Cut(w, 0, b) \o Cut(w, b, e)
<1>1. PICK n \in Nat : n = Len(w)
  BY DEF Words
<1>2. PICK x, y, z : x = Cut(w, 0, b) /\ y = Cut(w, b, e) /\ z = Cut(w, 0, e)
  OBVIOUS
<1>3. x \in Words /\ Len(x) = b /\ \A i \in 1..b : x[i] = w[i]
  <2>1. 0 \in 0..Len(w) /\ b \in 0..Len(w) /\ b - 0 = b
    BY <1>1
  <2>2. x \in Words /\ Len(x) = b - 0 /\ \A i \in 1..(b - 0) : x[i] = w[0 + i]
    BY <1>2, <2>1, CutFacts
  <2>3. \A i \in 1..b : 0 + i = i
    BY <1>1
  <2> QED BY <2>1, <2>2, <2>3
<1>4. y \in Words /\ Len(y) = e - b /\ \A i \in 1..(e - b) : y[i] = w[b + i]
  BY <1>2, CutFacts
<1>5. z \in Words /\ Len(z) = e /\ \A i \in 1..e : z[i] = w[i]
  <2>1. 0 \in 0..Len(w) /\ e \in 0..Len(w) /\ e - 0 = e
    BY <1>1
  <2>2. z \in Words /\ Len(z) = e - 0 /\ \A i \in 1..(e - 0) : z[i] = w[0 + i]
    BY <1>2, <2>1, CutFacts
  <2>3. \A i \in 1..e : 0 + i = i
    BY <1>1
  <2> QED BY <2>1, <2>2, <2>3
<1>6. PICK d : d = x \o y
  OBVIOUS
<1>7. d \in Words /\ Len(d) = e /\ \A i \in 1..e : d[i] = IF i <= b THEN x[i] ELSE y[i - b]
  <2>1. d \in Seq(WordChars) /\ Len(d) = Len(x) + Len(y)
        /\ \A i \in 1..(Len(x) + Len(y)) : d[i] = IF i <= Len(x) THEN x[i] ELSE y[i - Len(x)]
    BY <1>3, <1>4, <1>6, ConcatProperties DEF Words
  <2>2. Len(x) + Len(y) = e
    BY <1>1, <1>3, <1>4
  <2> QED BY <1>3, <2>1, <2>2 DEF Words
<1>8. ASSUME NEW i \in 1..e PROVE z[i] = d[i]
  <2>1. CASE i <= b
    <3>1. i \in 1..b
      BY <1>1, <2>1
    <3> QED BY <1>3, <1>5, <1>7, <2>1, <3>1
  <2>2. CASE ~(i <= b)
    <3>1. i - b \in 1..(e - b) /\ b + (i - b) = i
      BY <1>1, <2>2
    <3> QED BY <1>4, <1>5, <1>7, <2>2, <3>1
  <2> QED BY <2>1, <2>2
<1>9. z = d
  BY <1>5, <1>7, <1>8 DEF Words
<1> QED BY <1>2, <1>6, <1>9

\* Pieces for all of the letters of a word spell it.
LEMMA SpelledIs ==
  ASSUME NEW w \in Words, NEW seq \in Seq(Pieces), NEW L \in Nat, L = Len(seq),
         Covers(seq, 1, L, w, 0, Len(w))
  PROVE  Upper(Spelled(seq)) = Upper(w)
<1>1. PICK at : Along(at, seq, 1, L, w, 0, Len(w))
  BY DEF Covers
<1>2. PICK n \in Nat : n = Len(w)
  BY DEF Words
<1>3. /\ at \in [0..L -> 0..n] /\ at[0] = 0 /\ at[L] = n
      /\ \A j \in 1..L : /\ at[j - 1] <= at[j]
                         /\ Upper(seq[j].word[1]) = Upper(Cut(w, at[j - 1], at[j]))
  <2>1. 1 - 1 = 0
    OBVIOUS
  <2> QED BY <1>1, <1>2, <2>1 DEF Along
<1>4. PICK a \in Words : a = <<>>
  <2>1. <<>> \in Seq(WordChars)
    OBVIOUS
  <2> QED BY <2>1 DEF Words
<1>5. PICK op \in [Pieces -> [Words -> Words]] : op = SpellOp
  BY SpellOpTyped
<1>6. Spelled(seq) = Through(op, a, seq)
  BY <1>4, <1>5, SpellLeads
<1>7. PICK h : RunTo(h, L, Words, op, a, seq)
  BY ThroughRuns
<1>8. h \in [0..L -> Words] /\ h[0] = a /\ Through(op, a, seq) = h[L]
      /\ \A k \in 1..L : h[k] = op[seq[k]][h[k - 1]]
  BY <1>7 DEF RunTo, Runs
<1> DEFINE H == {k \in Nat : k \in 0..L => Upper(h[k]) = Upper(Cut(w, 0, at[k]))}
<1>9. 0 \in H
  <2>1. Cut(w, 0, 0) = <<>>
    BY DEF Cut, Words
  <2> QED BY <1>3, <1>4, <1>8, <2>1
<1>10. ASSUME NEW k \in Nat, k \in H PROVE k + 1 \in H
  <2> SUFFICES ASSUME k + 1 \in 0..L PROVE Upper(h[k + 1]) = Upper(Cut(w, 0, at[k + 1]))
    OBVIOUS
  <2>1. k \in 0..L /\ k + 1 \in 1..L /\ (k + 1) - 1 = k
    OBVIOUS
  <2>2. Upper(h[k]) = Upper(Cut(w, 0, at[k]))
    BY <1>10, <2>1
  <2>3. PICK info \in Pieces, v \in Words : info = seq[k + 1] /\ v = h[k]
    BY <1>8, <2>1, ElementOfSeq
  <2>4. PICK d \in Words : d = info.word[1]
    <3>1. info.word \in Optional /\ info.word # Null
      BY DEF Pieces, Info
    <3> QED BY <3>1 DEF Optional
  <2>5. h[k + 1] = v \o d
    BY <1>5, <1>8, <2>1, <2>3, <2>4 DEF SpellOp
  <2>6. PICK b \in 0..Len(w), e \in 0..Len(w) : b = at[k] /\ e = at[k + 1]
    BY <1>2, <1>3, <2>1
  <2>7. e \in b..Len(w) /\ Upper(d) = Upper(Cut(w, b, e))
    <3>1. at[k] <= at[k + 1] /\ Upper(seq[k + 1].word[1]) = Upper(Cut(w, at[k], at[k + 1]))
      BY <1>3, <2>1
    <3> QED BY <1>2, <2>3, <2>4, <2>6, <3>1
  <2>8. Cut(w, 0, b) \in Words /\ Cut(w, b, e) \in Words
    <3>1. 0 \in 0..Len(w)
      BY <1>2
    <3> QED BY <2>7, <3>1, CutFacts
  <2>9. Cut(w, 0, e) = Cut(w, 0, b) \o Cut(w, b, e)
    BY <2>7, CutConcat
  <2>10. Upper(v \o d) = Upper(v) \o Upper(d)
    BY UpperConcat
  <2>11. Upper(Cut(w, 0, b) \o Cut(w, b, e)) = Upper(Cut(w, 0, b)) \o Upper(Cut(w, b, e))
    BY <2>8, UpperConcat
  <2> QED BY <2>2, <2>3, <2>5, <2>6, <2>7, <2>9, <2>10, <2>11
<1>11. Nat \subseteq H
  <2> HIDE DEF H
  <2> QED BY <1>9, <1>10, NatSetInduction
<1>12. L \in 0..L
  OBVIOUS
<1>13. Upper(h[L]) = Upper(Cut(w, 0, n))
  BY <1>3, <1>11, <1>12
<1> QED BY <1>2, <1>6, <1>8, <1>13, CutAll

-----------------------------------------------------------------------------
(* The parts of a word that was accepted are linked and spell it.           *)

\* What is ordered stays so further on.
LEMMA Ordered == \A i, j, k \in Nat : i <= j => k + i <= k + j
  OBVIOUS

\* Pieces for a part are pieces for that part of the word.
LEMMA CoversShift ==
  ASSUME NEW from \in Nat \ {0}, NEW to \in Nat, NEW inf, NEW w \in Words, NEW b \in 0..Len(w),
         NEW e \in b..Len(w), NEW part \in Words, part = Cut(w, b, e), from <= to,
         Covers(inf, from, to, part, 0, Len(part))
  PROVE  Covers(inf, from, to, w, b, e)
<1>1. PICK n \in Nat, m \in Nat : n = Len(w) /\ m = e - b /\ Len(part) = m
  <2>1. Len(w) \in Nat
    BY DEF Words
  <2>2. Len(part) = e - b
    BY CutFacts
  <2>3. e - b \in Nat
    BY <2>1
  <2> QED BY <2>1, <2>2, <2>3
<1>2. PICK at : Along(at, inf, from, to, part, 0, m)
  BY <1>1 DEF Covers
<1>3. /\ at \in [(from - 1)..to -> 0..m] /\ at[from - 1] = 0 /\ at[to] = m
      /\ \A j \in from..to : /\ at[j - 1] <= at[j]
                             /\ inf[j].word # Null
                             /\ Upper(inf[j].word[1]) = Upper(Cut(part, at[j - 1], at[j]))
  BY <1>2 DEF Along
<1>4. PICK to2 : to2 = [j \in (from - 1)..to |-> b + at[j]]
  OBVIOUS
<1>5. to2 \in [(from - 1)..to -> b..e]
  <2>1. ASSUME NEW j \in (from - 1)..to PROVE b + at[j] \in b..e
    <3>1. at[j] \in 0..m
      BY <1>3
    <3> QED BY <1>1, <3>1
  <2> QED BY <1>4, <2>1
<1>6. to2[from - 1] = b /\ to2[to] = e
  <2>1. from - 1 \in (from - 1)..to /\ to \in (from - 1)..to
    OBVIOUS
  <2>2. to2[from - 1] = b + at[from - 1] /\ to2[to] = b + at[to]
    BY <1>4, <2>1
  <2> QED BY <1>1, <1>3, <2>2
<1>7. ASSUME NEW j \in from..to
      PROVE  /\ to2[j - 1] <= to2[j]
             /\ inf[j].word # Null
             /\ Upper(inf[j].word[1]) = Upper(Cut(w, to2[j - 1], to2[j]))
  <2>1. j - 1 \in (from - 1)..to /\ j \in (from - 1)..to
    OBVIOUS
  <2>2. PICK x \in 0..m, y \in 0..m : x = at[j - 1] /\ y = at[j] /\ x <= y
    BY <1>3, <2>1
  <2>3. to2[j - 1] = b + x /\ to2[j] = b + y
    BY <1>4, <2>1, <2>2
  <2>4. x \in 0..(e - b) /\ y \in x..(e - b)
    BY <1>1, <2>2
  <2>5. Cut(part, x, y) = Cut(w, b + x, b + y)
    BY <2>4, CutTwice
  <2>6. b + x <= b + y
    <3>1. x <= y
      BY <2>2
    <3>2. b \in Nat /\ x \in Nat /\ y \in Nat
      OBVIOUS
    <3> QED BY <3>1, <3>2, Ordered
  <2> QED BY <1>3, <2>2, <2>3, <2>5, <2>6
<1>8. Along(to2, inf, from, to, w, b, e)
  BY <1>5, <1>6, <1>7 DEF Along
<1> QED BY <1>8 DEF Covers

\* What is so behind the part that ends at e.
SoundTo(a, w, e) ==
  /\ a.returned => ~a.ok
  /\ ~a.returned => a.prev = a.ci - 1
  /\ a.ok => Linked(a.inf, 1, a.prev) /\ Covers(a.inf, 1, a.prev, w, 0, e)

\* One part: linked to the pieces before it, for the letters behind theirs.
LEMMA PartSound ==
  ASSUME ListsOK, NEW w \in Words, NEW o \in Options, NEW counting \in BOOLEAN, NEW acc \in Going,
         NEW b \in 0..Len(w), NEW e \in b..Len(w), NEW part \in Words, part = Cut(w, b, e),
         SoundTo(acc, w, b)
  PROVE  SoundTo(CheckPart(acc, part, RunTogether(part, acc.ci, Limit(o), o.min), counting), w, e)
<1>1. PICK run : run = RunTogether(part, acc.ci, Limit(o), o.min)
  OBVIOUS
<1>2. PICK r : r = CheckPart(acc, part, run, counting)
  OBVIOUS
<1>3. ~acc.returned => run \in Result /\ (run.last # 0 => run.last \in acc.ci..Infos)
  BY <1>1, PlacesTyped
<1>4. PICK left, marked, linked, end :
        PartStep(r, acc, part, run, counting, left, marked, linked, end)
  BY <1>2, <1>3, CheckPartFacts
<1>5. /\ acc.inf \in Array /\ acc.ci \in 1..(Infos + 1) /\ acc.prev \in 0..Infos
      /\ acc.returned \in BOOLEAN /\ acc.ok \in BOOLEAN
  BY DEF Going, Checking
<1> SUFFICES SoundTo(r, w, e)
  BY <1>1, <1>2
<1>6. CASE acc.returned
  <2>1. r = acc /\ ~acc.ok
    BY <1>4, <1>6 DEF PartStep, SoundTo
  <2> QED BY <1>6, <2>1 DEF SoundTo
<1>7. CASE ~acc.returned /\ run.last = 0 /\ ~counting
  <2>1. r.ok = FALSE /\ r.returned = TRUE
    BY <1>4, <1>7 DEF PartStep
  <2> QED BY <2>1 DEF SoundTo
<1>8. CASE ~acc.returned /\ (run.last # 0 \/ counting) /\ Full(end)
  <2>1. r.ok = FALSE /\ r.returned = TRUE
    BY <1>4, <1>8 DEF PartStep
  <2> QED BY <2>1 DEF SoundTo
<1>9. CASE ~acc.returned /\ (run.last # 0 \/ counting) /\ ~Full(end)
  <2>1. /\ end \in acc.ci..Infos /\ end = (IF run.last # 0 THEN run.last ELSE acc.ci)
        /\ r.inf = linked /\ r.ci = end + 1 /\ r.prev = end /\ r.returned = FALSE
        /\ r.ok <=> acc.ok /\ run.last # 0
    BY <1>4, <1>9 DEF PartStep
  <2>2. r.prev = r.ci - 1
    BY <1>5, <2>1, LimitAssumption
  <2>3. ASSUME r.ok
        PROVE  Linked(linked, 1, end) /\ Covers(linked, 1, end, w, 0, e)
    <3>1. acc.ok /\ run.last # 0 /\ end = run.last
      BY <2>1, <2>3
    <3>2. /\ left = Written(run.inf, acc.inf) /\ left \in Array /\ marked = left
          /\ linked = Link(left, acc.prev, acc.ci)
      BY <1>4, <1>9, <3>1 DEF PartStep
    <3>3. Sound(run, acc.ci, o.min, part, 0) /\ run.inf \in Writings
      BY <1>1, <1>9, PlacesTyped DEF Result
    <3>4. /\ DOMAIN run.inf \subseteq acc.ci..Infos
          /\ Linked(run.inf, acc.ci, end) /\ Covers(run.inf, acc.ci, end, part, 0, Len(part))
      BY <3>1, <3>3 DEF Sound
    <3>5. PICK p \in 0..Infos, c \in 1..Infos : p = acc.prev /\ c = acc.ci /\ p = c - 1 /\ c = p + 1
      <4>1. acc.prev = acc.ci - 1
        BY <1>9 DEF SoundTo
      <4>2. acc.ci \in 1..Infos
        BY <1>9, LimitAssumption DEF Going, Checking
      <4> QED BY <1>5, <4>1, <4>2, LimitAssumption
    <3>6. p \in Nat /\ c \in Nat /\ c \in Nat \ {0} /\ end \in c..Infos /\ end \in Nat /\ p < end
      <4>1. end \in c..Infos
        BY <2>1, <3>5
      <4>2. PICK n \in Nat : n = Infos
        BY LimitAssumption
      <4>3. c \in 1..n /\ p = c - 1
        BY <3>5, <4>2
      <4>4. end \in c..n
        BY <4>1, <4>2
      <4> QED BY <4>1, <4>3, <4>4
    <3>7. Linked(acc.inf, 1, p) /\ Covers(acc.inf, 1, p, w, 0, b)
      BY <3>1, <3>5 DEF SoundTo
    <3>8. \A j \in 1..p : j \in 1..Infos /\ left[j] = acc.inf[j] /\ j \notin c..end
      <4> SUFFICES ASSUME NEW j \in 1..p PROVE j \in 1..Infos /\ left[j] = acc.inf[j] /\ j \notin c..end
        OBVIOUS
      <4>1. j \in 1..Infos /\ j \notin c..Infos
        BY <3>5, LimitAssumption
      <4>2. j \notin DOMAIN run.inf
        BY <3>4, <3>5, <4>1
      <4> QED BY <1>5, <3>2, <3>3, <3>6, <4>1, <4>2, ArrayWritten
    <3>9. \A j \in c..end : j \in 1..Infos /\ left[j] = run.inf[j] /\ j # p
      <4> SUFFICES ASSUME NEW j \in c..end PROVE j \in 1..Infos /\ left[j] = run.inf[j] /\ j # p
        OBVIOUS
      <4>1. j \in DOMAIN run.inf
        BY <3>4, <3>5 DEF Linked
      <4>2. j \in 1..Infos /\ j # p
        <5>1. PICK n \in Nat : n = Infos
          BY LimitAssumption
        <5>2. c \in 1..n /\ end \in c..n /\ p = c - 1
          BY <3>5, <3>6, <5>1
        <5> QED BY <5>1, <5>2
      <4> QED BY <1>5, <3>2, <3>3, <4>1, <4>2, ArrayWritten
    <3>10. /\ linked \in Array
           /\ \A i \in 1..Infos : /\ linked[i].word = left[i].word
                                  /\ linked[i].incorrect = left[i].incorrect
                                  /\ i # p => linked[i] = left[i]
           /\ p # 0 => linked[p].compound = TRUE /\ linked[p].next = c
      <4>1. linked = Link(left, p, c)
        BY <3>2, <3>5
      <4>2. /\ Link(left, p, c) \in Array
            /\ \A i \in 1..Infos : /\ Link(left, p, c)[i].word = left[i].word
                                   /\ Link(left, p, c)[i].incorrect = left[i].incorrect
                                   /\ i # p => Link(left, p, c)[i] = left[i]
            /\ p # 0 => Link(left, p, c)[p].compound = TRUE /\ Link(left, p, c)[p].next = c
        BY <3>2, <3>6, LinkFacts
      <4> QED BY <4>1, <4>2
    <3>11. Linked(linked, 1, end)
      <4> SUFFICES ASSUME NEW j \in 1..end
                   PROVE  /\ j \in DOMAIN linked
                          /\ ~linked[j].incorrect
                          /\ linked[j].compound <=> j < end
                          /\ linked[j].next = IF j < end THEN j + 1 ELSE 0
        BY DEF Linked
      <4>1. j \in 1..Infos /\ j \in DOMAIN linked
        BY <3>6, <3>10, LimitAssumption DEF Array
      <4>2. CASE j \in c..end
        <5>1. linked[j] = run.inf[j]
          BY <3>9, <3>10, <4>1, <4>2
        <5> QED BY <3>4, <3>5, <4>1, <4>2, <5>1 DEF Linked
      <4>3. CASE j \in 1..p /\ j # p
        <5>1. linked[j] = acc.inf[j] /\ j < p /\ j < end
          BY <3>6, <3>8, <3>10, <4>1, <4>3
        <5> QED BY <3>7, <4>1, <4>3, <5>1 DEF Linked
      <4>4. CASE j = p
        <5>1. j \in 1..p
          BY <3>6, <4>4
        <5>2. linked[j].incorrect = acc.inf[j].incorrect
          BY <3>8, <3>10, <4>1, <5>1
        <5>3. linked[j].compound = TRUE /\ linked[j].next = j + 1 /\ j < end
          <6>1. p # 0 /\ j = p /\ c = p + 1 /\ p < end
            BY <3>5, <3>6, <4>4
          <6>2. linked[p].compound = TRUE /\ linked[p].next = c
            BY <3>10, <6>1
          <6> QED BY <6>1, <6>2
        <5> QED BY <3>7, <4>1, <5>1, <5>2, <5>3 DEF Linked
      <4> QED BY <3>5, <3>6, <4>2, <4>3, <4>4
    <3>12. Covers(linked, 1, p, w, 0, b)
      <4>1. \A j \in 1..p : linked[j].word = acc.inf[j].word
        BY <3>8, <3>10
      <4>2. PICK one \in Nat \ {0}, none \in Nat : one = 1 /\ none = 0
        OBVIOUS
      <4>3. b \in Nat
        BY DEF Words
      <4>4. Covers(linked, one, p, w, none, b)
        BY <3>6, <3>7, <4>1, <4>2, <4>3, CoversSame
      <4> QED BY <4>2, <4>4
    <3>13. Covers(linked, c, end, w, b, e)
      <4>1. \A j \in c..end : linked[j].word = run.inf[j].word
        BY <3>9, <3>10
      <4>2. PICK none \in Nat, l \in Nat : none = 0 /\ l = Len(part)
        BY DEF Words
      <4>3. Covers(linked, c, end, part, none, l)
        BY <3>4, <3>5, <3>6, <4>1, <4>2, CoversSame
      <4>4. c <= end
        BY <3>6
      <4> QED BY <3>6, <4>2, <4>3, <4>4, CoversShift
    <3>14. Covers(linked, 1, end, w, 0, e)
      <4>1. PICK one \in Nat \ {0}, none \in Nat : one = 1 /\ none = 0
        OBVIOUS
      <4>2. b \in Nat /\ e \in Nat /\ none <= b /\ b <= e
        <5>1. Len(w) \in Nat
          BY DEF Words
        <5> QED BY <4>1, <5>1
      <4>3. one <= p + 1 /\ p <= end /\ Covers(linked, p + 1, end, w, b, e) /\ Covers(linked, one, p, w, none, b)
        BY <3>5, <3>6, <3>12, <3>13, <4>1
      <4>4. Covers(linked, one, end, w, none, e)
        BY <3>6, <4>2, <4>3, CoversBoth
      <4> QED BY <4>1, <4>4
    <3> QED BY <3>11, <3>14
  <2> QED BY <2>1, <2>2, <2>3 DEF SoundTo
<1> QED BY <1>5, <1>6, <1>7, <1>8, <1>9

\* Before the first part there is no piece, for no letters.
LEMMA StartSound ==
  ASSUME NEW inf \in Array, NEW w \in Words
  PROVE  SoundTo(Start(inf), w, 0)
<1>1. PICK a : a = Start(inf)
  OBVIOUS
<1>2. a.inf = inf /\ a.ci = 1 /\ a.prev = 0 /\ a.ok = TRUE /\ a.returned = FALSE
  BY <1>1, StartTyped
<1>3. \A j : j \notin 1..0
  OBVIOUS
<1>4. Linked(inf, 1, 0)
  BY <1>3 DEF Linked
<1>5. PICK at : at = [j \in (1 - 1)..0 |-> 0]
  OBVIOUS
<1>6. at \in [(1 - 1)..0 -> 0..0] /\ at[1 - 1] = 0 /\ at[0] = 0
  BY <1>5
<1>7. Along(at, inf, 1, 0, w, 0, 0)
  BY <1>3, <1>6 DEF Along
<1>8. Covers(inf, 1, 0, w, 0, 0)
  BY <1>7 DEF Covers
<1> QED BY <1>1, <1>2, <1>4, <1>8 DEF SoundTo

\* So behind every part.
LEMMA PartsSound ==
  ASSUME ListsOK, NEW w \in Words, NEW o \in Options, NEW counting \in BOOLEAN, NEW inf \in Array,
         NEW parts, NEW at, NEW K \in Nat, PartsOf(parts, at, K, w),
         NEW h, Steps(h, K, o, counting, inf, parts)
  PROVE  \A k \in 0..K : h[k] \in Going /\ SoundTo(h[k], w, at[k])
<1>1. /\ parts \in Seq(Words) /\ Len(parts) = K /\ at \in [0..K -> 0..Len(w)] /\ at[0] = 0
      /\ \A k \in 1..K : at[k - 1] < at[k] /\ parts[k] = Cut(w, at[k - 1], at[k])
  BY DEF PartsOf
<1>2. /\ h \in [0..K -> Going] /\ h[0] = Start(inf)
      /\ \A k \in 1..K : h[k] = CheckPart(h[k - 1], parts[k],
                                          RunTogether(parts[k], h[k - 1].ci, Limit(o), o.min), counting)
  BY DEF Steps
<1> DEFINE H == {k \in Nat : k \in 0..K => SoundTo(h[k], w, at[k])}
<1>3. 0 \in H
  BY <1>1, <1>2, StartSound
<1>4. ASSUME NEW k \in Nat, k \in H PROVE k + 1 \in H
  <2> SUFFICES ASSUME k + 1 \in 0..K PROVE SoundTo(h[k + 1], w, at[k + 1])
    OBVIOUS
  <2>1. k \in 0..K /\ k + 1 \in 1..K /\ (k + 1) - 1 = k
    OBVIOUS
  <2>2. SoundTo(h[k], w, at[k])
    BY <1>4, <2>1
  <2>3. PICK acc \in Going, part \in Words : acc = h[k] /\ part = parts[k + 1]
    BY <1>1, <1>2, <2>1, ElementOfSeq
  <2>4. PICK b \in 0..Len(w), e \in 0..Len(w) : b = at[k] /\ e = at[k + 1] /\ e \in b..Len(w)
    <3>1. at[k] \in 0..Len(w) /\ at[k + 1] \in 0..Len(w) /\ at[k] < at[k + 1]
      BY <1>1, <2>1
    <3>2. Len(w) \in Nat
      BY DEF Words
    <3> QED BY <3>1, <3>2
  <2>5. part = Cut(w, b, e) /\ SoundTo(acc, w, b)
    BY <1>1, <2>1, <2>2, <2>3, <2>4
  <2>6. SoundTo(CheckPart(acc, part, RunTogether(part, acc.ci, Limit(o), o.min), counting), w, e)
    BY <2>4, <2>5, PartSound
  <2>7. h[k + 1] = CheckPart(acc, part, RunTogether(part, acc.ci, Limit(o), o.min), counting)
    BY <1>2, <2>1, <2>3
  <2> QED BY <2>4, <2>6, <2>7
<1>5. Nat \subseteq H
  <2> HIDE DEF H
  <2> QED BY <1>3, <1>4, NatSetInduction
<1> QED BY <1>2, <1>5

\* What is said of the chain.
Spells(inf, w) ==
  LET chain == Chain(inf)
  IN  /\ Upper(Spelled(chain)) = Upper(w)
      /\ \A j \in DOMAIN chain : /\ ~chain[j].incorrect
                                 /\ chain[j].compound <=> j < Len(chain)

\* Pieces that are linked, for all of the letters, are a chain that spells the word.
LEMMA SpellsTheWord ==
  ASSUME NEW inf \in Array, NEW w \in Words, NEW L \in 1..Infos, Linked(inf, 1, L),
         Covers(inf, 1, L, w, 0, Len(w))
  PROVE  Spells(inf, w)
<1>1. PICK n \in Nat, l \in Nat : n = Len(w) /\ l = L /\ l <= Infos
  BY LimitAssumption DEF Words
<1>2. PICK chain : chain = Chain(inf) /\ chain = [k \in 1..l |-> inf[k]]
  BY <1>1, ChainIs
<1>3. DOMAIN chain = 1..l /\ \A k \in 1..l : chain[k] = inf[k]
  BY <1>2
<1>4. \A k \in 1..l : inf[k] \in Pieces
  <2> SUFFICES ASSUME NEW k \in 1..l PROVE inf[k] \in Pieces
    OBVIOUS
  <2>1. k \in 1..Infos
    BY <1>1, LimitAssumption
  <2>2. inf[k].word # Null
    BY <1>1 DEF Covers, Along
  <2> QED BY <2>1, <2>2 DEF Array, Pieces
<1>5. chain \in Seq(Pieces) /\ Len(chain) = l
  <2>1. chain \in [1..l -> Pieces]
    BY <1>2, <1>4
  <2> QED BY <2>1
<1>6. Covers(chain, 1, l, w, 0, n)
  <2>1. PICK one \in Nat \ {0}, none \in Nat : one = 1 /\ none = 0
    OBVIOUS
  <2>2. \A j \in one..l : chain[j].word = inf[j].word
    BY <1>3, <2>1
  <2>3. Covers(inf, one, l, w, none, n)
    BY <1>1, <2>1
  <2>4. Covers(chain, one, l, w, none, n)
    BY <2>2, <2>3, CoversSame
  <2> QED BY <2>1, <2>4
<1>7. Upper(Spelled(chain)) = Upper(w)
  <2>1. Covers(chain, 1, l, w, 0, Len(w)) /\ l = Len(chain)
    BY <1>1, <1>5, <1>6
  <2> QED BY <1>5, <2>1, SpelledIs
<1>8. ASSUME NEW j \in DOMAIN chain
      PROVE  ~chain[j].incorrect /\ (chain[j].compound <=> j < Len(chain))
  <2>1. j \in 1..L /\ chain[j] = inf[j]
    BY <1>1, <1>3
  <2>2. ~inf[j].incorrect /\ (inf[j].compound <=> j < L)
    BY <2>1 DEF Linked
  <2> QED BY <1>1, <1>5, <2>1, <2>2
<1> QED BY <1>2, <1>7, <1>8 DEF Spells

\* The word itself, or its parts.
LEMMA WholeLeft ==
  ASSUME ListsOK, NEW inf \in Array, NEW w \in Words, NEW o \in Options,
         NEW whole, whole = RunTogether(w, 1, Limit(o), o.min),
         NEW left, left = Written(whole.inf, [inf EXCEPT ![1] = Cleared])
  PROVE  /\ left \in Array /\ whole.last \in 0..Infos
         /\ whole.last # 0 => Spells(left, w)
<1>1. PICK one \in 1..Infos : one = 1
  BY LimitAssumption
<1>2. o.runTogether \in BOOLEAN /\ o.limit \in 0..Infos /\ o.min \in Nat
  BY LimitAssumption
<1>3. PICK limit \in 0..Infos, min \in Nat : limit = Limit(o) /\ min = o.min
  <2>1. 0 \in 0..Infos
    BY LimitAssumption
  <2> QED BY <1>2, <2>1 DEF Limit
<1>4. whole = RunTogether(w, one, limit, min)
  BY <1>1, <1>3
<1>5. whole \in Result /\ Sound(whole, one, min, w, 0)
  BY <1>4, RunSound
<1>6. whole.inf \in Writings /\ whole.last \in 0..Infos
  BY <1>5 DEF Result
<1>7. PICK base \in Array : base = [inf EXCEPT ![1] = Cleared]
  BY <1>1, ClearedTyped DEF Array
<1>8. left = Written(whole.inf, base)
  BY <1>7
<1>9. left \in Array /\ \A i \in DOMAIN whole.inf : left[i] = whole.inf[i]
  <2>1. PICK f \in Writings : f = whole.inf
    BY <1>6
  <2>2. Written(f, base) \in Array /\ \A i \in DOMAIN f : Written(f, base)[i] = f[i]
    BY ArrayWritten
  <2> QED BY <1>8, <2>1, <2>2
<1>10. ASSUME whole.last # 0 PROVE Spells(left, w)
  <2>1. PICK L \in 1..Infos : L = whole.last
    BY <1>1, <1>5, <1>10 DEF Sound
  <2>2. Linked(whole.inf, 1, L) /\ Covers(whole.inf, 1, L, w, 0, Len(w))
    BY <1>1, <1>5, <1>10, <2>1 DEF Sound
  <2>3. \A j \in 1..L : j \in 1..Infos /\ j \in DOMAIN whole.inf /\ left[j] = whole.inf[j]
    <3> SUFFICES ASSUME NEW j \in 1..L
                 PROVE  j \in 1..Infos /\ j \in DOMAIN whole.inf /\ left[j] = whole.inf[j]
      OBVIOUS
    <3>1. j \in DOMAIN whole.inf
      BY <2>2 DEF Linked
    <3>2. j \in 1..Infos
      BY LimitAssumption
    <3> QED BY <1>9, <3>1, <3>2
  <2>4. Linked(left, 1, L)
    <3>1. DOMAIN left = 1..Infos
      BY <1>9 DEF Array
    <3> QED BY <2>2, <2>3, <3>1 DEF Linked
  <2>5. Covers(left, 1, L, w, 0, Len(w))
    <3>0. Len(w) \in Nat
      BY DEF Words
    <3>1. PICK p \in Nat \ {0}, none \in Nat, n \in Nat : p = 1 /\ none = 0 /\ n = Len(w)
      <4>1. PICK p \in Nat \ {0}, none \in Nat : p = 1 /\ none = 0
        OBVIOUS
      <4> QED BY <3>0, <4>1
    <3>5. L \in Nat
      BY LimitAssumption
    <3>6. \A j \in p..L : left[j].word = whole.inf[j].word
      BY <2>3, <3>1
    <3>2. L \in Nat /\ \A j \in p..L : left[j].word = whole.inf[j].word
      BY <3>5, <3>6
    <3>3. Covers(whole.inf, p, L, w, none, n)
      BY <2>2, <3>1
    <3>4. Covers(left, p, L, w, none, n)
      BY <3>2, <3>3, CoversSame
    <3> QED BY <3>1, <3>4
  <2> QED BY <1>9, <2>4, <2>5, SpellsTheWord
<1> QED BY <1>6, <1>9, <1>10

\* The parts of a word that were all found are a chain that spells it.
LEMMA PartsSpell ==
  ASSUME ListsOK, NEW inf \in Array, NEW w \in Words, NEW o \in Options, NEW counting \in BOOLEAN,
         NEW parts, NEW at, NEW K \in Nat, K > 1, PartsOf(parts, at, K, w)
  PROVE  /\ CheckParts(inf, parts, o, Limit(o), counting) \in Going
         /\ CheckParts(inf, parts, o, Limit(o), counting).ok
              => Spells(CheckParts(inf, parts, o, Limit(o), counting).inf, w)
<1>1. /\ parts \in Seq(Words) /\ Len(parts) = K /\ at \in [0..K -> 0..Len(w)] /\ at[K] = Len(w)
      /\ \A k \in 1..K : at[k - 1] < at[k]
  BY DEF PartsOf
<1>2. PICK h : /\ Steps(h, K, o, counting, inf, parts)
               /\ CheckParts(inf, parts, o, Limit(o), counting) = h[K]
  BY <1>1, CheckPartsSteps
<1>3. PICK a : a = h[K]
  OBVIOUS
<1>4. a \in Going /\ SoundTo(a, w, Len(w))
  <2>1. K \in 0..K
    OBVIOUS
  <2>2. \A k \in 0..K : h[k] \in Going /\ SoundTo(h[k], w, at[k])
    BY <1>2, PartsSound
  <2> QED BY <1>1, <1>3, <2>1, <2>2
<1>5. ASSUME a.ok PROVE Spells(a.inf, w)
  <2>1. a.inf \in Array /\ a.prev \in 0..Infos
    BY <1>4 DEF Going, Checking
  <2>2. Linked(a.inf, 1, a.prev) /\ Covers(a.inf, 1, a.prev, w, 0, Len(w))
    BY <1>4, <1>5 DEF SoundTo
  <2>3. Len(w) > 0
    <3>1. K \in 1..K /\ K - 1 \in 0..K
      OBVIOUS
    <3>2. at[K - 1] \in 0..Len(w) /\ at[K - 1] < at[K] /\ at[K] = Len(w)
      BY <1>1, <3>1
    <3>3. Len(w) \in Nat
      BY DEF Words
    <3> QED BY <3>2, <3>3
  <2>4. a.prev # 0
    <3> SUFFICES ASSUME a.prev = 0 PROVE FALSE
      OBVIOUS
    <3>1. PICK p : Along(p, a.inf, 1, 0, w, 0, Len(w))
      BY <2>2 DEF Covers
    <3>2. p[1 - 1] = 0 /\ p[0] = Len(w)
      BY <3>1 DEF Along
    <3>3. 1 - 1 = 0
      OBVIOUS
    <3> QED BY <2>3, <3>2, <3>3
  <2>5. PICK L \in 1..Infos : L = a.prev
    BY <2>1, <2>4, LimitAssumption
  <2> QED BY <2>1, <2>2, <2>5, SpellsTheWord
<1> QED BY <1>2, <1>3, <1>4, <1>5

\* So is whatever SpellerImpl::check accepts.
LEMMA CheckWordSpells ==
  ASSUME ListsOK, NEW inf \in Array, NEW w \in Words, NEW o \in Options, NEW counting \in BOOLEAN
  PROVE  /\ CheckWord(inf, w, o, counting).inf \in Array
         /\ CheckWord(inf, w, o, counting).ok \in BOOLEAN
         /\ CheckWord(inf, w, o, counting).cpi \in Cpi
         /\ CheckWord(inf, w, o, counting).ok => Spells(CheckWord(inf, w, o, counting).inf, w)
<1>1. PICK whole : whole = RunTogether(w, 1, Limit(o), o.min)
  OBVIOUS
<1>2. PICK left : left = Written(whole.inf, [inf EXCEPT ![1] = Cleared])
  OBVIOUS
<1>3. left \in Array /\ whole.last \in 0..Infos /\ (whole.last # 0 => Spells(left, w))
  BY <1>1, <1>2, WholeLeft
<1>4. PICK camel \in BOOLEAN : camel = o.camel
  BY LimitAssumption
<1>5. PICK parts : parts = Parts(w, camel)
  OBVIOUS
<1>6. PICK at : PartsOf(parts, at, Len(parts), w)
  BY <1>5, PartsFacts
<1>7. PICK K \in Nat : K = Len(parts)
  BY <1>6 DEF PartsOf
<1>8. PICK r : r = CheckWord(inf, w, o, counting)
  OBVIOUS
<1>9. CASE whole.last = 0 /\ K > 1
  <2>1. r = CheckParts(left, parts, o, Limit(o), counting)
    BY <1>1, <1>2, <1>4, <1>5, <1>7, <1>8, <1>9 DEF CheckWord
  <2>2. r \in Going /\ (r.ok => Spells(r.inf, w))
    BY <1>3, <1>6, <1>7, <1>9, <2>1, PartsSpell
  <2> QED BY <1>8, <2>2 DEF Going, Checking
<1>10. CASE ~(whole.last = 0 /\ K > 1)
  <2>1. PICK ok \in BOOLEAN : ok = (whole.last # 0)
    OBVIOUS
  <2>2. r = [inf |-> left, ok |-> ok, cpi |-> NoCount]
    BY <1>1, <1>2, <1>4, <1>5, <1>7, <1>8, <1>10, <2>1 DEF CheckWord
  <2>3. r.inf = left /\ r.ok = ok /\ r.cpi = NoCount
    BY <2>2
  <2>4. NoCount \in Cpi
    BY DEF NoCount, Cpi
  <2> QED BY <1>3, <1>8, <2>1, <2>3, <2>4
<1> QED BY <1>9, <1>10

-----------------------------------------------------------------------------
(* Where there is room for all of the parts, they are found as they should. *)

\* Guessable, for a part of the word.
LEMMA GuessablePart ==
  ASSUME NEW w \in Words, NEW min \in Nat, min > 0, Guessable(w, min), NEW b \in 0..Len(w),
         NEW e \in b..Len(w)
  PROVE  Guessable(Cut(w, b, e), min)
<1>1. PICK n \in Nat : n = Len(w)
  BY DEF Words
<1>2. PICK part \in Words : part = Cut(w, b, e) /\ Len(part) = e - b
  BY CutFacts
<1>3. PICK m \in Nat : m = e - b /\ m = Len(part) /\ DOMAIN part = 1..m
  BY <1>1, <1>2 DEF Words
<1>4. ASSUME NEW i \in 1..m, NEW j \in i..m, NEW k \in i..m, j + 1 - i >= min, j <= k,
             Entry(SubSeq(part, i, j)) # Null, Entry(SubSeq(part, i, k)) # Null
      PROVE  FirstUpper(SubSeq(part, i, j)) = FirstUpper(SubSeq(part, i, k))
  <2>1. PICK a \in 0..(e - b) : a = i - 1 /\ i = a + 1
    BY <1>3
  <2>2. j \in a..(e - b) /\ k \in a..(e - b)
    BY <1>3, <2>1
  <2>3. /\ SubSeq(part, i, j) = Cut(part, a, j) /\ SubSeq(part, i, k) = Cut(part, a, k)
    BY <2>1 DEF Cut
  <2>4. Cut(part, a, j) = Cut(w, b + a, b + j)
    BY <1>2, <2>2, CutTwice
  <2>5. Cut(part, a, k) = Cut(w, b + a, b + k)
    BY <1>2, <2>2, CutTwice
  <2>6. PICK p \in 0..Len(w), x \in Nat, y \in Nat : p = b + a /\ x = b + j /\ y = b + k
    BY <1>1, <1>3, <2>1
  <2>7. x \in (p + min)..Len(w) /\ y \in (p + min)..Len(w)
    BY <1>1, <1>3, <1>4, <2>1, <2>6
  <2>8. Entry(Cut(w, p, x)) # Null /\ Entry(Cut(w, p, y)) # Null
    BY <1>4, <2>3, <2>4, <2>5, <2>6
  <2>9. FirstUpper(Cut(w, p, x)) = FirstUpper(Cut(w, p, y))
    BY <2>7, <2>8, GuessableCuts
  <2> QED BY <2>3, <2>4, <2>5, <2>6, <2>9
<1>5. Guessable(part, min)
  BY <1>3, <1>4 DEF Guessable
<1> QED BY <1>2, <1>5

\* Places are taken no faster than letters, so with more of them than letters there is
\* room for every part, and it is found if it is right.
LEMMA PartPlaced ==
  ASSUME ListsOK, NEW w \in Words, NEW o \in Options, NEW acc \in Going, ~acc.returned,
         NEW b \in 0..Len(w), NEW e \in b..Len(w), b < e, NEW part \in Words, part = Cut(w, b, e),
         o.runTogether => o.min > 0 /\ Guessable(w, o.min), Len(w) < Infos, acc.ci <= b + 1,
         NEW run, run = RunTogether(part, acc.ci, Limit(o), o.min)
  PROVE  /\ run.last # 0 <=> Right(part, o)
         /\ run.last \in 0..Infos /\ acc.ci \in 1..Infos
         /\ run.last <= e /\ acc.ci <= e /\ e < Infos
<1>1. PICK n \in Nat, m \in Nat : n = Len(w) /\ m = e - b /\ Len(part) = m /\ m > 0
  <2>1. Len(w) \in Nat
    BY DEF Words
  <2>2. Len(part) = e - b
    BY CutFacts
  <2>3. e - b \in Nat /\ e - b > 0
    BY <2>1
  <2> QED BY <2>1, <2>2, <2>3
<1>2. PICK ci \in 1..Infos : ci = acc.ci
  BY PlacesTyped
<1>3. PICK min \in Nat, together \in BOOLEAN : min = o.min /\ together = o.runTogether
  BY LimitAssumption
<1>4. together => min > 0 /\ Guessable(part, min)
  BY <1>3, GuessablePart
<1>5. Len(part) <= Infos + 1 - ci
  BY <1>1, <1>2, LimitAssumption
<1>6. run = RunTogether(part, ci, Limit(o), o.min)
  BY <1>2
<1>7. run.last # 0 <=> Right(part, o)
  <2>1. o.runTogether => o.min > 0 /\ Guessable(part, o.min)
    BY <1>3, <1>4
  <2> QED BY <1>5, <1>6, <2>1, RunRight
<1>8. run.last <= ci - 1 + Len(part)
  <2>1. part # <<>>
    BY <1>1
  <2>2. o.runTogether => o.min > 0
    BY <1>3, <1>4
  <2> QED BY <1>6, <2>1, <2>2, RunEnds
<1>9. run.last \in 0..Infos
  <2>1. run \in Result
    BY PlacesTyped
  <2> QED BY <2>1 DEF Result
<1>10. run.last <= e /\ ci <= e /\ e < Infos
  <2>1. PICK room \in Nat, x \in Nat, y \in Nat, z \in Nat :
          room = Infos /\ x = b /\ y = e /\ z = ci
    <3>1. Infos \in Nat /\ ci \in Nat /\ b \in Nat /\ e \in Nat
      BY <1>1, LimitAssumption
    <3> QED BY <3>1
  <2>2. z <= x + 1 /\ m = y - x /\ y <= n /\ n < room
    BY <1>1, <1>2, <2>1
  <2>3. PICK last0 \in Nat : last0 = run.last /\ last0 <= z - 1 + m
    <3>1. run.last \in Nat
      BY <1>9, LimitAssumption
    <3> QED BY <1>1, <1>8, <2>1, <3>1
  <2>4. last0 <= y /\ z <= y /\ y < room
    BY <1>1, <2>2, <2>3
  <2> QED BY <2>1, <2>3, <2>4
<1> QED BY <1>2, <1>7, <1>9, <1>10

\* What is so behind k parts.
RightTo(a, k, at, parts, o, counting) ==
  /\ a.ok <=> \A j \in 1..k : Right(parts[j], o)
  /\ a.returned => ~a.ok /\ ~counting
  /\ ~a.returned => a.ci <= at[k] + 1

Wrong(parts, k, o) == {j \in 1..k : ~Right(parts[j], o)}
Least(j, S) == j \in S /\ \A i \in S : j <= i
CountTo(a, k, parts, o) ==
  /\ a.cpi.count = k
  /\ a.cpi.incorrect = Cardinality(Wrong(parts, k, o))
  /\ a.cpi.first = 0 <=> Wrong(parts, k, o) = {}
  /\ a.cpi.first # 0 => /\ a.cpi.first \in 1..(a.ci - 1)
                        /\ \E j : /\ Least(j, Wrong(parts, k, o))
                                  /\ a.inf[a.cpi.first].word = <<parts[j]>>

\* The wrong parts, with one part more.
LEMMA OneMore ==
  ASSUME NEW k \in Nat, NEW parts, NEW o
  PROVE  /\ Right(parts[k + 1], o) => Wrong(parts, k + 1, o) = Wrong(parts, k, o)
         /\ ~Right(parts[k + 1], o) =>
              /\ Wrong(parts, k + 1, o) = Wrong(parts, k, o) \cup {k + 1}
              /\ Cardinality(Wrong(parts, k + 1, o)) = Cardinality(Wrong(parts, k, o)) + 1
<1>1. \A j : j \in 1..(k + 1) <=> j \in 1..k \/ j = k + 1
  OBVIOUS
<1>2. PICK old, new : old = Wrong(parts, k, o) /\ new = Wrong(parts, k + 1, o)
  OBVIOUS
<1>3. new = IF Right(parts[k + 1], o) THEN old ELSE old \cup {k + 1}
  BY <1>1, <1>2 DEF Wrong
<1>4. IsFiniteSet(old)
  <2>1. IsFiniteSet(1..k)
    BY FS_Interval
  <2>2. old \subseteq 1..k
    BY <1>2 DEF Wrong
  <2> QED BY <2>1, <2>2, FS_Subset
<1>5. k + 1 \notin old
  BY <1>2 DEF Wrong
<1>6. Cardinality(old \cup {k + 1}) = Cardinality(old) + 1
  BY <1>4, <1>5, FS_AddElement
<1> QED BY <1>2, <1>3, <1>4, <1>5, <1>6

\* One part more.
LEMMA PartRight ==
  ASSUME ListsOK, NEW w \in Words, NEW o \in Options, NEW counting \in BOOLEAN,
         NEW parts, NEW at, NEW K \in Nat, PartsOf(parts, at, K, w),
         o.runTogether => o.min > 0 /\ Guessable(w, o.min), Len(w) < Infos,
         NEW k \in Nat, k + 1 \in 1..K, NEW acc \in Going, RightTo(acc, k, at, parts, o, counting),
         counting => CountTo(acc, k, parts, o),
         NEW part \in Words, part = parts[k + 1],
         NEW r, r = CheckPart(acc, part, RunTogether(part, acc.ci, Limit(o), o.min), counting)
  PROVE  /\ RightTo(r, k + 1, at, parts, o, counting)
         /\ counting => CountTo(r, k + 1, parts, o)
<1>1. PICK run : run = RunTogether(part, acc.ci, Limit(o), o.min)
  OBVIOUS
<1>2. ~acc.returned => run \in Result /\ (run.last # 0 => run.last \in acc.ci..Infos)
  BY <1>1, PlacesTyped
<1>3. PICK left, marked, linked, end :
        PartStep(r, acc, part, run, counting, left, marked, linked, end)
  BY <1>1, <1>2, CheckPartFacts
<1>4. /\ acc.inf \in Array /\ acc.ci \in 1..(Infos + 1) /\ acc.prev \in 0..Infos
      /\ acc.returned \in BOOLEAN /\ acc.ok \in BOOLEAN /\ acc.cpi \in Cpi
  BY DEF Going, Checking
<1>5. PICK b \in 0..Len(w), e \in 0..Len(w) :
        b = at[k] /\ e = at[k + 1] /\ b < e /\ e \in b..Len(w) /\ part = Cut(w, b, e)
  <2>1. k \in 0..K /\ k + 1 \in 0..K /\ (k + 1) - 1 = k
    OBVIOUS
  <2>2. at[k] \in 0..Len(w) /\ at[k + 1] \in 0..Len(w) /\ at[k] < at[k + 1]
        /\ part = Cut(w, at[k], at[k + 1])
    BY <2>1 DEF PartsOf
  <2>3. Len(w) \in Nat
    BY DEF Words
  <2> QED BY <2>2, <2>3
<1>6. \A j : j \in 1..(k + 1) <=> j \in 1..k \/ j = k + 1
  OBVIOUS
<1>7. CASE acc.returned
  <2>1. r = acc
    BY <1>3, <1>7 DEF PartStep
  <2>2. ~acc.ok /\ ~counting /\ ~(\A j \in 1..k : Right(parts[j], o))
    BY <1>7 DEF RightTo
  <2>3. ~(\A j \in 1..(k + 1) : Right(parts[j], o))
    BY <1>6, <2>2
  <2> QED BY <1>7, <2>1, <2>2, <2>3 DEF RightTo
<1>8. CASE ~acc.returned
  <2>1. acc.ci <= b + 1
    BY <1>5, <1>8 DEF RightTo
  <2>2. PICK c \in 1..Infos : c = acc.ci
    BY <1>1, <1>5, <1>8, <2>1, PartPlaced
  <2>3. PICK found \in BOOLEAN : found = (run.last # 0)
    OBVIOUS
  <2>4. (found <=> Right(part, o)) /\ run.last \in 0..Infos /\ run.last <= e /\ c <= e /\ e < Infos
    <3>1. /\ run.last # 0 <=> Right(part, o)
          /\ run.last \in 0..Infos /\ acc.ci \in 1..Infos
          /\ run.last <= e /\ acc.ci <= e /\ e < Infos
      BY <1>1, <1>5, <1>8, <2>1, PartPlaced
    <3> QED BY <2>2, <2>3, <3>1
  <2>5. acc.ok <=> \A j \in 1..k : Right(parts[j], o)
    BY DEF RightTo
  <2>6. (\A j \in 1..(k + 1) : Right(parts[j], o)) <=> acc.ok /\ found
    BY <1>6, <2>4, <2>5
  <2>7. CASE ~found /\ ~counting
    <3>1. r.ok = FALSE /\ r.returned = TRUE
      BY <1>3, <1>8, <2>3, <2>7 DEF PartStep
    <3> QED BY <2>6, <2>7, <3>1 DEF RightTo
  <2>8. CASE found \/ counting
    <3>1. /\ left = Written(run.inf, acc.inf) /\ left \in Array
          /\ marked = (IF found THEN left ELSE Marked(left, c, part)) /\ marked \in Array
          /\ linked = Link(marked, acc.prev, c) /\ linked \in Array
          /\ end = (IF found THEN run.last ELSE c) /\ end \in c..Infos
          /\ r.inf = linked /\ r.ci = end + 1
      BY <1>3, <1>8, <2>2, <2>3, <2>8 DEF PartStep
    <3>2. end <= e /\ end \in Nat /\ end + 1 <= e + 1
      BY <2>4, <3>1, LimitAssumption DEF Words
    <3>3. ~Full(end)
      BY <2>4, <3>2, LimitAssumption DEF Full, Words
    <3>4. r.returned = FALSE /\ (r.ok <=> acc.ok /\ found) /\ (counting => r.cpi = Count(acc.cpi, c, found))
      BY <1>3, <1>8, <2>2, <2>3, <2>8, <3>3 DEF PartStep
    <3>5. RightTo(r, k + 1, at, parts, o, counting)
      <4>1. r.ci <= at[k + 1] + 1
        BY <1>5, <3>1, <3>2
      <4> QED BY <2>6, <3>4, <4>1 DEF RightTo
    <3>6. ASSUME counting PROVE CountTo(r, k + 1, parts, o)
      <4>1. PICK old, new : old = Wrong(parts, k, o) /\ new = Wrong(parts, k + 1, o)
        OBVIOUS
      <4>2. /\ acc.cpi.count = k /\ acc.cpi.incorrect = Cardinality(old)
            /\ acc.cpi.first = 0 <=> old = {}
            /\ acc.cpi.first # 0 => /\ acc.cpi.first \in 1..(c - 1)
                                    /\ \E j : Least(j, old) /\ acc.inf[acc.cpi.first].word = <<parts[j]>>
        BY <2>2, <3>6, <4>1 DEF CountTo
      <4>3. /\ new = (IF found THEN old ELSE old \cup {k + 1})
            /\ Cardinality(new) = (IF found THEN Cardinality(old) ELSE Cardinality(old) + 1)
        <5>1. /\ Right(parts[k + 1], o) => Wrong(parts, k + 1, o) = Wrong(parts, k, o)
              /\ ~Right(parts[k + 1], o) =>
                   /\ Wrong(parts, k + 1, o) = Wrong(parts, k, o) \cup {k + 1}
                   /\ Cardinality(Wrong(parts, k + 1, o)) = Cardinality(Wrong(parts, k, o)) + 1
          BY OneMore
        <5>2. CASE found
          BY <2>4, <4>1, <5>1, <5>2
        <5>3. CASE ~found
          BY <2>4, <4>1, <5>1, <5>3
        <5> QED BY <5>2, <5>3
      <4>4. PICK cpi \in Cpi : cpi = acc.cpi
        BY <1>4
      <4>5. c \in Nat /\ c > 0
        BY LimitAssumption
      <4>6. /\ r.cpi.count = cpi.count + 1
            /\ r.cpi.incorrect = (IF found THEN cpi.incorrect ELSE cpi.incorrect + 1)
            /\ r.cpi.first = (IF found \/ cpi.first # 0 THEN cpi.first ELSE c)
        <5>1. r.cpi = Count(cpi, c, found)
          BY <3>4, <3>6, <4>4
        <5>2. /\ Count(cpi, c, found).count = cpi.count + 1
              /\ Count(cpi, c, found).incorrect = IF found THEN cpi.incorrect ELSE cpi.incorrect + 1
              /\ Count(cpi, c, found).first = IF found \/ cpi.first # 0 THEN cpi.first ELSE c
          BY <4>5, CountFacts
        <5> QED BY <5>1, <5>2
      <4>7. r.cpi.count = k + 1 /\ r.cpi.incorrect = Cardinality(new)
        BY <4>2, <4>3, <4>4, <4>6
      <4>8. old \subseteq 1..k
        BY <4>1 DEF Wrong
      <4>9. \A i \in 1..Infos : i < c => linked[i].word = acc.inf[i].word
        <5> SUFFICES ASSUME NEW i \in 1..Infos, i < c PROVE linked[i].word = acc.inf[i].word
          OBVIOUS
        <5>1. linked[i].word = marked[i].word
          <6>1. PICK p \in 0..Infos : p = acc.prev
            BY <1>4
          <6>3. marked \in Array
            BY <3>1
          <6>4. \A j \in 1..Infos : /\ Link(marked, p, c)[j].word = marked[j].word
                                    /\ Link(marked, p, c)[j].incorrect = marked[j].incorrect
                                    /\ j # p => Link(marked, p, c)[j] = marked[j]
            BY <4>5, <6>3, LinkFacts
          <6>2. Link(marked, p, c)[i].word = marked[i].word
            BY <6>4
          <6> QED BY <3>1, <6>1, <6>2
        <5>2. marked[i] = left[i]
          <6>1. i # c
            BY <4>5, LimitAssumption
          <6>2. Marked(left, c, part)[i] = left[i]
            <7>1. left \in Array
              BY <3>1
            <7>2. \A j \in 1..Infos : j # c => Marked(left, c, part)[j] = left[j]
              BY <7>1, MarkedFacts
            <7> QED BY <6>1, <7>2
          <6> QED BY <3>1, <6>2
        <5>3. left[i] = acc.inf[i]
          <6>1. PICK f \in Writings : f = run.inf
            BY <1>2, <1>8 DEF Result
          <6>2. Sound(run, c, o.min, part, 0)
            BY <1>1, <1>8, <2>2, PlacesTyped
          <6>3. i \notin DOMAIN f
            BY <4>5, <6>1, <6>2, LimitAssumption DEF Sound
          <6>4. Written(f, acc.inf)[i] = acc.inf[i]
            BY <1>4, <6>3, ArrayWritten
          <6> QED BY <3>1, <6>1, <6>4
        <5> QED BY <5>1, <5>2, <5>3
      <4>10. ~found => linked[c].word = <<part>>
        <5> SUFFICES ASSUME ~found PROVE linked[c].word = <<part>>
          OBVIOUS
        <5>1. Marked(left, c, part)[c].word = <<part>>
          BY <3>1, MarkedFacts
        <5>2. PICK p \in 0..Infos : p = acc.prev
          BY <1>4
        <5>4. marked \in Array
          BY <3>1
        <5>5. \A j \in 1..Infos : /\ Link(marked, p, c)[j].word = marked[j].word
                                  /\ Link(marked, p, c)[j].incorrect = marked[j].incorrect
                                  /\ j # p => Link(marked, p, c)[j] = marked[j]
          BY <4>5, <5>4, LinkFacts
        <5>3. Link(marked, p, c)[c].word = marked[c].word
          BY <5>5
        <5> QED BY <3>1, <5>1, <5>2, <5>3
      <4>11. CASE cpi.first # 0
        <5>1. PICK q \in Nat : q = cpi.first /\ q \in 1..(c - 1) /\ q # 0
          BY <4>2, <4>4, <4>11
        <5>2. PICK j : Least(j, old) /\ acc.inf[q].word = <<parts[j]>>
          BY <4>2, <4>4, <4>11, <5>1
        <5>3. Least(j, new)
          <6>1. j \in old /\ j \in 1..k /\ j <= k + 1
            BY <4>8, <5>2 DEF Least
          <6> QED BY <4>3, <5>2, <6>1 DEF Least
        <5>4. new # {}
          BY <5>3 DEF Least
        <5>5. r.cpi.first = q
          BY <4>6, <5>1
        <5>6. q \in 1..Infos /\ q < c /\ q \in 1..(r.ci - 1)
          <6>1. q < c /\ c <= end /\ c <= Infos
            BY <3>1, <4>5, <5>1, LimitAssumption
          <6>2. r.ci - 1 = end
            BY <3>1, <3>2
          <6> QED BY <3>2, <4>5, <5>1, <6>1, <6>2, LimitAssumption
        <5>7. r.inf[q].word = <<parts[j]>>
          BY <3>1, <4>9, <5>2, <5>6
        <5> QED BY <4>1, <4>7, <5>1, <5>3, <5>4, <5>5, <5>6, <5>7 DEF CountTo
      <4>12. CASE cpi.first = 0 /\ found
        <5>1. new = {} /\ r.cpi.first = 0
          BY <4>2, <4>3, <4>4, <4>6, <4>12
        <5> QED BY <4>1, <4>7, <5>1 DEF CountTo
      <4>13. CASE cpi.first = 0 /\ ~found
        <5>1. new = {k + 1} /\ r.cpi.first = c
          BY <4>2, <4>3, <4>4, <4>6, <4>13
        <5>2. Least(k + 1, new) /\ new # {}
          BY <5>1 DEF Least
        <5>3. r.inf[c].word = <<parts[k + 1]>>
          BY <3>1, <4>10, <4>13
        <5>4. c \in 1..(r.ci - 1) /\ c # 0
          <6>1. r.ci - 1 = end /\ c <= end
            BY <3>1, <3>2, <4>5
          <6> QED BY <3>2, <4>5, <6>1
        <5> QED BY <4>1, <4>7, <5>1, <5>2, <5>3, <5>4 DEF CountTo
      <4> QED BY <4>11, <4>12, <4>13
    <3> QED BY <3>5, <3>6
  <2> QED BY <2>7, <2>8
<1> QED BY <1>4, <1>7, <1>8

\* So behind every part.
LEMMA PartsRight ==
  ASSUME ListsOK, NEW w \in Words, NEW o \in Options, NEW counting \in BOOLEAN, NEW inf \in Array,
         NEW parts, NEW at, NEW K \in Nat, PartsOf(parts, at, K, w),
         o.runTogether => o.min > 0 /\ Guessable(w, o.min), Len(w) < Infos,
         NEW h, Steps(h, K, o, counting, inf, parts)
  PROVE  \A k \in 0..K : /\ RightTo(h[k], k, at, parts, o, counting)
                         /\ counting => CountTo(h[k], k, parts, o)
<1>1. parts \in Seq(Words) /\ Len(parts) = K /\ at[0] = 0
  BY DEF PartsOf
<1>2. /\ h \in [0..K -> Going] /\ h[0] = Start(inf)
      /\ \A k \in 1..K : h[k] = CheckPart(h[k - 1], parts[k],
                                          RunTogether(parts[k], h[k - 1].ci, Limit(o), o.min), counting)
  BY DEF Steps
<1> DEFINE H == {k \in Nat : k \in 0..K => /\ RightTo(h[k], k, at, parts, o, counting)
                                           /\ counting => CountTo(h[k], k, parts, o)}
<1>3. 0 \in H
  <2>1. PICK a : a = h[0]
    OBVIOUS
  <2>2. a.ci = 1 /\ a.ok = TRUE /\ a.returned = FALSE /\ a.cpi = NoCount
    BY <1>2, <2>1, StartTyped
  <2>3. \A j : j \notin 1..0
    OBVIOUS
  <2>4. RightTo(a, 0, at, parts, o, counting)
    BY <1>1, <2>2, <2>3 DEF RightTo
  <2>5. Wrong(parts, 0, o) = {}
    BY <2>3 DEF Wrong
  <2>6. Cardinality({}) = 0
    BY FS_EmptySet
  <2>7. CountTo(a, 0, parts, o)
    <3>1. a.cpi.count = 0 /\ a.cpi.incorrect = 0 /\ a.cpi.first = 0
      BY <2>2 DEF NoCount
    <3> QED BY <2>5, <2>6, <3>1 DEF CountTo
  <2> QED BY <2>1, <2>4, <2>7
<1>4. ASSUME NEW k \in Nat, k \in H PROVE k + 1 \in H
  <2> SUFFICES ASSUME k + 1 \in 0..K
               PROVE  /\ RightTo(h[k + 1], k + 1, at, parts, o, counting)
                      /\ counting => CountTo(h[k + 1], k + 1, parts, o)
    OBVIOUS
  <2>1. k \in 0..K /\ k + 1 \in 1..K /\ (k + 1) - 1 = k
    OBVIOUS
  <2>2. /\ RightTo(h[k], k, at, parts, o, counting)
        /\ counting => CountTo(h[k], k, parts, o)
    BY <1>4, <2>1
  <2>3. PICK acc \in Going, part \in Words : acc = h[k] /\ part = parts[k + 1]
    BY <1>1, <1>2, <2>1, ElementOfSeq
  <2>4. PICK r : r = CheckPart(acc, part, RunTogether(part, acc.ci, Limit(o), o.min), counting)
    OBVIOUS
  <2>5. RightTo(acc, k, at, parts, o, counting) /\ (counting => CountTo(acc, k, parts, o))
    BY <2>2, <2>3
  <2>6. /\ RightTo(r, k + 1, at, parts, o, counting)
        /\ counting => CountTo(r, k + 1, parts, o)
    BY <2>1, <2>3, <2>4, <2>5, PartRight
  <2>7. h[k + 1] = r
    BY <1>2, <2>1, <2>3, <2>4
  <2> QED BY <2>6, <2>7
<1>5. Nat \subseteq H
  <2> HIDE DEF H
  <2> QED BY <1>3, <1>4, NatSetInduction
<1> QED BY <1>5

\* What is said of a check.
Accepts(check) ==
  Ordinary(check.word, check.options) =>
    /\ ~check.counting => (check.ok <=> RightCompound(check.word, check.options))
    /\ check.counting /\ check.cpi.count > 0 => CountsRight(check)

\* A word that is not found is one part, its own, or none of its parts is.
LEMMA CheckWordAccepts ==
  ASSUME ListsOK, NEW inf \in Array, NEW w \in Words, NEW o \in Options, NEW counting \in BOOLEAN
  PROVE  Accepts(Outcome(w, o, counting, CheckWord(inf, w, o, counting)))
<1>1. PICK r : r = CheckWord(inf, w, o, counting)
  OBVIOUS
<1>2. PICK check : check = Outcome(w, o, counting, r)
  OBVIOUS
<1>3. /\ check.word = w /\ check.options = o /\ check.counting = counting /\ check.ok = r.ok
      /\ check.inf = r.inf /\ check.cpi = r.cpi
  BY <1>2 DEF Outcome
<1> SUFFICES ASSUME Ordinary(w, o)
             PROVE  /\ ~counting => (r.ok <=> RightCompound(w, o))
                    /\ counting /\ r.cpi.count > 0 => CountsRight(check)
  BY <1>1, <1>2, <1>3 DEF Accepts
<1>4. PICK whole : whole = RunTogether(w, 1, Limit(o), o.min)
  OBVIOUS
<1>5. PICK left : left = Written(whole.inf, [inf EXCEPT ![1] = Cleared])
  OBVIOUS
<1>6. left \in Array /\ whole.last \in 0..Infos
  BY <1>4, <1>5, WholeLeft
<1>7. PICK camel \in BOOLEAN : camel = o.camel
  BY LimitAssumption
<1>8. PICK parts : parts = Parts(w, camel)
  OBVIOUS
<1>9. PICK at : PartsOf(parts, at, Len(parts), w)
  BY <1>8, PartsFacts
<1>10. PICK K \in Nat : K = Len(parts) /\ DOMAIN parts = 1..K
  BY <1>9 DEF PartsOf
<1>11. /\ parts \in Seq(Words) /\ at \in [0..K -> 0..Len(w)] /\ at[0] = 0 /\ at[K] = Len(w)
       /\ \A k \in 1..K : at[k - 1] < at[k] /\ parts[k] = Cut(w, at[k - 1], at[k])
  BY <1>9, <1>10 DEF PartsOf
<1>12. (o.runTogether => o.min > 0 /\ Guessable(w, o.min)) /\ (K = 1 \/ Len(w) < Infos)
  BY <1>7, <1>8, <1>10 DEF Ordinary, HasRoom
<1>13. whole.last # 0 <=> Right(w, o)
  <2>1. PICK one \in 1..Infos : one = 1
    BY LimitAssumption
  <2>2. o.runTogether \in BOOLEAN /\ o.limit \in 0..Infos
    BY LimitAssumption
  <2>3. Limit(o) <= Infos + 1 - one
    BY <2>1, <2>2, LimitAssumption DEF Limit
  <2>4. RunTogether(w, one, Limit(o), o.min).last # 0 <=> Right(w, o)
    BY <1>12, <2>3, RunRight
  <2> QED BY <1>4, <2>1, <2>4
<1>14. RightCompound(w, o) <=> Right(w, o) \/ \A j \in 1..K : Right(parts[j], o)
  BY <1>7, <1>8, <1>10 DEF RightCompound
<1>15. CASE whole.last = 0 /\ K > 1
  <2>1. r = CheckParts(left, parts, o, Limit(o), counting)
    BY <1>1, <1>4, <1>5, <1>7, <1>8, <1>10, <1>15 DEF CheckWord
  <2>2. PICK h : /\ Steps(h, K, o, counting, left, parts)
                 /\ CheckParts(left, parts, o, Limit(o), counting) = h[K]
    BY <1>6, <1>10, <1>11, CheckPartsSteps
  <2>3. Len(w) < Infos
    BY <1>12, <1>15
  <2>4. /\ RightTo(r, K, at, parts, o, counting)
        /\ counting => CountTo(r, K, parts, o)
    <3>1. K \in 0..K /\ r = h[K]
      BY <2>1, <2>2
    <3>2. PartsOf(parts, at, K, w)
      BY <1>9, <1>10
    <3>3. \A k \in 0..K : /\ RightTo(h[k], k, at, parts, o, counting)
                          /\ counting => CountTo(h[k], k, parts, o)
      BY <1>6, <1>12, <2>2, <2>3, <3>2, PartsRight
    <3> QED BY <3>1, <3>3
  <2>5. r.ok <=> \A j \in 1..K : Right(parts[j], o)
    BY <2>4 DEF RightTo
  <2>6. ~Right(w, o)
    BY <1>13, <1>15
  <2>7. ASSUME counting PROVE CountsRight(check)
    <3>1. PICK wrong : wrong = Wrong(parts, K, o)
      OBVIOUS
    <3>2. wrong = {j \in DOMAIN parts : ~Right(parts[j], o)}
      BY <1>10, <3>1 DEF Wrong
    <3>3. /\ r.cpi.count = K /\ r.cpi.incorrect = Cardinality(wrong)
          /\ r.cpi.first = 0 <=> wrong = {}
          /\ r.cpi.first # 0 => \E j : Least(j, wrong) /\ r.inf[r.cpi.first].word = <<parts[j]>>
      BY <2>4, <2>7, <3>1 DEF CountTo
    <3>4. r.ok <=> wrong = {}
      BY <2>5, <3>1 DEF Wrong
    <3>5. ASSUME wrong # {}
          PROVE  r.inf[r.cpi.first].word = <<parts[CHOOSE j \in wrong : \A k \in wrong : j <= k]>>
      <4>1. PICK j : Least(j, wrong) /\ r.inf[r.cpi.first].word = <<parts[j]>>
        BY <3>3, <3>5
      <4>2. PICK l : l = CHOOSE j0 \in wrong : \A k \in wrong : j0 <= k
        OBVIOUS
      <4>3. l \in wrong /\ \A k \in wrong : l <= k
        BY <4>1, <4>2 DEF Least
      <4>4. l = j
        <5>1. l \in Nat /\ j \in Nat /\ l <= j /\ j <= l
          BY <3>1, <4>1, <4>3 DEF Least, Wrong
        <5> QED BY <5>1
      <4> QED BY <4>1, <4>2, <4>4
    <3>6. parts = Parts(check.word, check.options.camel)
          /\ wrong = {j \in DOMAIN parts : ~Right(parts[j], check.options)}
      BY <1>3, <1>7, <1>8, <3>2
    <3> QED BY <1>3, <1>10, <3>3, <3>4, <3>5, <3>6 DEF CountsRight
  <2> QED BY <1>14, <2>5, <2>6, <2>7
<1>16. CASE ~(whole.last = 0 /\ K > 1)
  <2>1. PICK ok \in BOOLEAN : ok = (whole.last # 0)
    OBVIOUS
  <2>2. r = [inf |-> left, ok |-> ok, cpi |-> NoCount]
    BY <1>1, <1>4, <1>5, <1>7, <1>8, <1>10, <1>16, <2>1 DEF CheckWord
  <2>3. r.ok = ok /\ r.cpi.count = 0
    BY <2>2 DEF NoCount
  <2>4. RightCompound(w, o) => Right(w, o)
    <3> SUFFICES ASSUME \A j \in 1..K : Right(parts[j], o), ~Right(w, o) PROVE FALSE
      BY <1>14
    <3>1. K = 0 \/ K = 1
      BY <1>6, <1>13, <1>16
    <3>2. CASE K = 0
      <4>1. Len(w) = 0
        BY <1>11, <3>2
      <4>2. Entry(w) = <<w>>
        BY <4>1, WordAssumption DEF Entry
      <4>3. Entry(w) # Null
        BY <4>2 DEF Null
      <4> QED BY <4>3 DEF Right
    <3>3. CASE K = 1
      <4>1. 1 \in 1..K /\ 1 - 1 = 0
        BY <3>3
      <4>2. parts[1] = Cut(w, 0, Len(w))
        BY <1>11, <3>3, <4>1
      <4>3. parts[1] = w
        BY <4>2, CutAll
      <4> QED BY <4>1, <4>3
    <3> QED BY <3>1, <3>2, <3>3
  <2>5. r.ok <=> RightCompound(w, o)
    <3>1. ok <=> Right(w, o)
      BY <1>13, <2>1
    <3>2. RightCompound(w, o) <=> Right(w, o)
      BY <1>14, <2>4
    <3> QED BY <2>3, <3>1, <3>2
  <2>6. ~(r.cpi.count > 0)
    BY <2>3
  <2> QED BY <2>5, <2>6
<1> QED BY <1>15, <1>16

-----------------------------------------------------------------------------
(* One check after the other.                                               *)

Checks == [word : Words, options : Options, counting : BOOLEAN, ok : BOOLEAN, inf : Array, cpi : Cpi]
IInv ==
  /\ ListsOK /\ checkInf \in Array /\ last \in Seq(Checks)
  /\ \A i \in DOMAIN last : (last[i].ok => Spells(last[i].inf, last[i].word)) /\ Accepts(last[i])

\* Accepts reads nothing of the state but the user's words.
LEMMA Same ==
  ASSUME UNCHANGED <<personal, session>>
  PROVE  \A check : Accepts(check)' <=> Accepts(check)
<1>1. personal' = personal /\ session' = session
  OBVIOUS
<1> QED BY <1>1 DEF Accepts, Ordinary, Guessable, RightCompound, CountsRight, Right, Strung,
           Single, Entry, Entries, HasRoom, PieceTo

\* What a check leaves behind.
LEMMA OutcomeGood ==
  ASSUME ListsOK, NEW inf \in Array, NEW w \in Words, NEW o \in Options, NEW counting \in BOOLEAN,
         NEW check, check = Outcome(w, o, counting, CheckWord(inf, w, o, counting))
  PROVE  check \in Checks /\ (check.ok => Spells(check.inf, check.word)) /\ Accepts(check)
<1>1. PICK r : r = CheckWord(inf, w, o, counting)
  OBVIOUS
<1>2. r.inf \in Array /\ r.ok \in BOOLEAN /\ r.cpi \in Cpi /\ (r.ok => Spells(r.inf, w))
  BY <1>1, CheckWordSpells
<1>3. check = [word |-> w, options |-> o, counting |-> counting, ok |-> r.ok, inf |-> r.inf, cpi |-> r.cpi]
  BY <1>1 DEF Outcome
<1>4. PICK a \in Array, ok \in BOOLEAN, c \in Cpi : a = r.inf /\ ok = r.ok /\ c = r.cpi
  BY <1>2
<1>5. check = [word |-> w, options |-> o, counting |-> counting, ok |-> ok, inf |-> a, cpi |-> c]
  BY <1>3, <1>4
<1>6. check \in Checks /\ check.ok = ok /\ check.inf = a /\ check.word = w
  BY <1>5 DEF Checks
<1> QED BY <1>2, <1>4, <1>6, CheckWordAccepts

\* A check more.
LEMMA Appended ==
  ASSUME NEW check \in Checks, check.ok => Spells(check.inf, check.word), Accepts(check)', IInv,
         last' = Append(last, check), UNCHANGED <<personal, session>>, checkInf' \in Array
  PROVE  IInv'
<1>1. PICK n \in Nat : n = Len(last) /\ DOMAIN last = 1..n
  BY DEF IInv
<1>2. /\ last' \in Seq(Checks) /\ DOMAIN last' = 1..(n + 1) /\ last'[n + 1] = check
      /\ \A i \in 1..n : last'[i] = last[i]
  BY <1>1 DEF IInv
<1>3. ASSUME NEW i \in DOMAIN last'
      PROVE  (last[i].ok => Spells(last[i].inf, last[i].word))' /\ Accepts(last[i])'
  <2>1. PICK c : c = last'[i]
    OBVIOUS
  <2>2. (c.ok => Spells(c.inf, c.word)) /\ Accepts(c)'
    <3>1. CASE i = n + 1
      <4>1. c = check
        BY <1>2, <2>1, <3>1
      <4> QED BY <4>1
    <3>2. CASE i # n + 1
      <4>1. i \in DOMAIN last /\ c = last[i]
        BY <1>1, <1>2, <2>1, <3>2
      <4>2. (c.ok => Spells(c.inf, c.word)) /\ Accepts(c)
        BY <4>1 DEF IInv
      <4> QED BY <4>2, Same
    <3> QED BY <3>1, <3>2
  <2> QED BY <2>1, <2>2
<1>4. ListsOK'
  BY DEF IInv, ListsOK
<1> QED BY <1>2, <1>3, <1>4 DEF IInv

\* It holds of the behaviour when it starts,
LEMMA ChecksInitIInv ==
  ASSUME ChecksInit
  PROVE  IInv
<1>1. OwnArray \in Array
  BY ClearedTyped DEF OwnArray, Array
<1>2. last \in Seq(Checks) /\ DOMAIN last = {}
  BY DEF ChecksInit
<1> QED BY <1>1, <1>2 DEF ChecksInit, IInv, ListsOK

\* and every step keeps it.
LEMMA ChecksNextIInv ==
  ASSUME IInv, [ChecksNext]_checksVars
  PROVE  IInv'
<1>1. ListsOK /\ checkInf \in Array
  BY DEF IInv
<1>2. CASE \E w \in Words, o \in Options : Check(w, o) \/ CheckCounting(w, o)
  <2>1. PICK w \in Words, o \in Options : Check(w, o) \/ CheckCounting(w, o)
    BY <1>2
  <2>2. PICK yes \in BOOLEAN, no \in BOOLEAN : yes = TRUE /\ no = FALSE
    OBVIOUS
  <2>3. UNCHANGED <<personal, session>>
    BY <2>1 DEF Check, CheckCounting
  <2>4. CASE Check(w, o)
    <3>1. PICK check : check = Outcome(w, o, no, CheckWord(checkInf, w, o, no))
      OBVIOUS
    <3>2. check \in Checks /\ (check.ok => Spells(check.inf, check.word)) /\ Accepts(check)
      BY <1>1, <3>1, OutcomeGood
    <3>3. last' = Append(last, check) /\ checkInf' = CheckWord(checkInf, w, o, no).inf
      BY <2>2, <2>4, <3>1 DEF Check
    <3>4. checkInf' \in Array
      BY <1>1, <3>3, CheckWordSpells
    <3>5. Accepts(check)'
      BY <2>3, <3>2, Same
    <3> QED BY <2>3, <3>2, <3>3, <3>4, <3>5, Appended
  <2>5. CASE CheckCounting(w, o)
    <3>0. OwnArray \in Array
      BY ClearedTyped DEF OwnArray, Array
    <3>1. PICK check : check = Outcome(w, o, yes, CheckWord(OwnArray, w, o, yes))
      OBVIOUS
    <3>2. check \in Checks /\ (check.ok => Spells(check.inf, check.word)) /\ Accepts(check)
      BY <1>1, <3>0, <3>1, OutcomeGood
    <3>3. last' = Append(last, check) /\ checkInf' \in Array
      BY <1>1, <2>2, <2>5, <3>1 DEF CheckCounting
    <3>5. Accepts(check)'
      BY <2>3, <3>2, Same
    <3> QED BY <2>3, <3>2, <3>3, <3>5, Appended
  <2> QED BY <2>1, <2>4, <2>5
<1>3. CASE ChangeLists
  <2>1. ListsOK' /\ checkInf' \in Array /\ last' = <<>>
    BY <1>1, <1>3 DEF ChangeLists, ListsOK
  <2>2. last' \in Seq(Checks) /\ DOMAIN last' = {}
    BY <2>1
  <2> QED BY <2>1, <2>2 DEF IInv
<1>4. CASE UNCHANGED checksVars
  <2>1. UNCHANGED <<personal, session>> /\ last' = last /\ checkInf' = checkInf
    BY <1>4 DEF checksVars
  <2>2. ASSUME NEW i \in DOMAIN last'
        PROVE  (last[i].ok => Spells(last[i].inf, last[i].word))' /\ Accepts(last[i])'
    <3>1. PICK c : c = last[i]
      OBVIOUS
    <3>2. c = last'[i] /\ (c.ok => Spells(c.inf, c.word)) /\ Accepts(c)
      BY <2>1, <2>2, <3>1 DEF IInv
    <3>3. Accepts(c)'
      BY <2>1, <3>2, Same
    <3> QED BY <3>2, <3>3
  <2> QED BY <1>1, <2>1, <2>2 DEF IInv, ListsOK
<1> QED BY <1>2, <1>3, <1>4 DEF ChecksNext

\* It has the chains spell their words,
LEMMA IInvSpells ==
  ASSUME IInv
  PROVE  ChainSpellsTheWord
  BY DEF IInv, ChainSpellsTheWord, Spells

\* and the checks accept what they should.
LEMMA IInvAccepts ==
  ASSUME IInv
  PROVE  AcceptsWhatItShould
  BY DEF IInv, AcceptsWhatItShould, Accepts

\* The inductive invariant of the checks: the array and the outcomes are what they
\* should be, and every outcome says of its word what it should.
THEOREM ChecksIInv == ChecksSpec => []IInv
<1>1. ChecksInit => IInv
  BY ChecksInitIInv
<1>2. IInv /\ [ChecksNext]_checksVars => IInv'
  BY ChecksNextIInv
<1> QED BY <1>1, <1>2, PTL DEF ChecksSpec

\* Whatever checks came before and left in the array, and however the user's words changed
\* in between: the chain of a word that was accepted spells it in pieces that are right.
THEOREM ChecksSpell == ChecksSpec => []ChainSpellsTheWord
<1>1. IInv => ChainSpellsTheWord
  BY IInvSpells
<1> QED BY <1>1, ChecksIInv, PTL

\* A check accepts exactly what the manual says it should, and one that counts the parts
\* of a word counts the wrong ones and names the first.
THEOREM ChecksAccept == ChecksSpec => []AcceptsWhatItShould
<1>1. IInv => AcceptsWhatItShould
  BY IInvAccepts
<1> QED BY <1>1, ChecksIInv, PTL
===============================================================================
