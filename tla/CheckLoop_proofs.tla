-------------------------- MODULE CheckLoop_proofs --------------------------
(***************************************************************************)
(* That checking a file loses nothing of it: the lines written, those of   *)
(* the ring and those not read yet are the document with the replacements  *)
(* in their places, the word that is shown is the one the tokenizer found, *)
(* and one of the files always has the whole text.                         *)
(*                                                                         *)
(* The ring is looked at from its oldest line: Place(t, k) is where the    *)
(* k-th oldest line stands, AgeIn its inverse.  Line k of the ring is line *)
(* GoneIn + k of the document.  In the line itself the replacements all    *)
(* lie before the tokenizer's place, so that what follows is as it was,    *)
(* and diff is what they have made the line longer.                        *)
(***************************************************************************)
EXTENDS CheckLoop, NatInduction, SequenceTheorems

Words == Seq(Char) \ {<<>>}

Text == [lines : Seq(Seq(Char)), end : Nat, in : Seq(Words), out : Seq(Words),
         torn : BOOLEAN]

Edit == [line : Nat \ {0}, word : Nat \ {0}, by : Words]

LoopPhases == {"next", "scan", "found", "prompt"}
SavePhases == {"removeBackup", "renameFile", "removeFile", "renameNew"}

TypeOK ==
  /\ phase \in LoopPhases \cup SavePhases \cup {"exit", "drain", "discard", "done"}
  /\ \A w \in DOMAIN replaceList : replaceList[w] \in Words
  /\ changed \in BOOLEAN /\ backup \in BOOLEAN
  /\ learnt \subseteq Seq(Char)
  /\ text \in Text /\ text.end \in 1..Len(text.lines) /\ cur \in 1..Len(text.lines)
  /\ copy \in Seq(Char)
  /\ pos \in Nat \ {0}
  /\ tok \in [offset : Nat \ {0}, len : Nat]
  /\ diff \in Int /\ begin \in Nat \ {0} /\ size \in Nat
  /\ hasRepl \in BOOLEAN
  /\ {file, new, bak} \subseteq {"original", "written", "other", "none"}
  /\ doc \in Documents
  /\ edits \subseteq Edit
  /\ failed \in BOOLEAN

-----------------------------------------------------------------------------
(* The ring                                                                *)

Capacity(t) == Len(t.lines) - 1

Place(t, k) == IF t.end + k <= Len(t.lines) THEN t.end + k ELSE t.end + k - Len(t.lines)

AgeIn(t, i) == IF i > t.end THEN i - t.end ELSE i - t.end + Len(t.lines)

\* Lines of a text of n lines that have left the ring.
GoneIn(t, n) == n - Len(t.in) - Capacity(t)

\* The ring and the two files have the text fix; the first d lines of the ring are
\* empty because they have been written too.
Carries(t, d, fix) ==
  LET gone == GoneIn(t, Len(fix))
  IN  /\ gone \in Nat
      /\ Capacity(t) = 0 => t.in = <<>>
      /\ \A k \in 1..Capacity(t) :
           t.lines[Place(t, k)] = IF k <= d THEN <<>> ELSE fix[gone + k]
      /\ t.lines[t.end] = <<>>
      /\ t.in = SubSeq(fix, gone + Capacity(t) + 1, Len(fix))
      /\ t.torn \/ t.out = SubSeq(fix, 1, gone + d)

RingInv ==
  \E d \in 0..Capacity(text) :
    /\ Carries(text, d, Corrected)
    /\ phase \in LoopPhases \cup {"exit"} => d = 0
    /\ phase = "drain" => /\ d = AgeIn(text, cur) - 1
                          /\ cur = text.end => text.in = <<>>

\* Nothing is torn unless the disk may be full; once saving begins everything is
\* written.
SavedInv ==
  /\ ~DiskFull => ~text.torn
  /\ phase \in SavePhases \/ file # "original" => text.torn \/ text.out = Corrected

-----------------------------------------------------------------------------
(* The line                                                                *)

EndsAt(line, w) == w + TokenAt(line, w).len

\* These replacements of words of the line all end before place p.
Settled(line, made, p) ==
  \A e \in made : Starts(line, e.word) /\ EndsAt(line, e.word) <= p

\* What stands in the line for the word at w.
InPlaceOf(line, made, w) ==
  IF EditsAt(made, w) = {} THEN SubSeq(line, w, EndsAt(line, w) - 1)
  ELSE (CHOOSE e \in EditsAt(made, w) : TRUE).by

\* The other replacements end before the word at w.
Before(line, made, w) == Settled(line, {e \in made : e.word # w}, w)

Working == phase \in LoopPhases /\ cur # text.end

Grown == IF hasRepl THEN size - tok.len ELSE 0

LineInv ==
  /\ phase \in LoopPhases /\ cur = text.end => phase = "next" /\ ~hasRepl
  /\ hasRepl => phase = "next"
  /\ Working =>
       /\ copy = doc[LineNo]
       /\ \A e \in edits : e.line <= LineNo
       /\ pos <= Len(copy) + 1
       /\ Settled(copy, EditsOf(LineNo), pos)
       /\ Len(PatchedTo(copy, EditsOf(LineNo))[pos - 1]) = pos + diff - 1 + Grown

AtWord == phase \in {"found", "prompt"} \/ (phase = "next" /\ hasRepl)

WordInv ==
  Working /\ AtWord =>
    /\ Starts(copy, tok.offset)
    /\ pos = EndsAt(copy, tok.offset)
    /\ Before(copy, EditsOf(LineNo), tok.offset)
    /\ Len(PatchedTo(copy, EditsOf(LineNo))[tok.offset - 1]) = begin - 1
    /\ Len(InPlaceOf(copy, EditsOf(LineNo), tok.offset)) = size
    /\ phase \in {"found", "prompt"} => tok.len = size

-----------------------------------------------------------------------------
(* The files                                                               *)

DiskInv ==
  /\ phase \in LoopPhases \cup {"exit", "drain", "removeBackup", "renameFile", "discard"}
       => file = "original"
  /\ phase = "removeFile" =>
       \/ file = "original" /\ (~backup \/ failed)
       \/ file = "none" /\ bak = "original"
  /\ phase = "renameNew" /\ backup => bak = "original" \/ failed
  /\ phase # "done" => new = "written"
  /\ phase = "done" =>
       \/ file = "original" /\ (new = "none" \/ failed)
       \/ file = "written" /\ new = "none" /\ (backup => bak = "original" \/ failed)
       \/ file # "original" /\ new = "written" /\ failed

Inv == TypeOK /\ RingInv /\ SavedInv /\ LineInv /\ WordInv /\ DiskInv

-----------------------------------------------------------------------------
(* Arithmetic                                                              *)

\* The place after place i.
LEMMA AfterIs ==
  ASSUME NEW t \in Text, NEW i \in 1..Len(t.lines)
  PROVE  After(t, i) = IF i = Len(t.lines) THEN 1 ELSE i + 1
<1>1. Len(t.lines) \in Nat
  BY DEF Text
<1>2. PICK n \in Nat : n = Len(t.lines)
  BY <1>1
<1>3. i \in 1..n
  BY <1>2
<1>4. PICK r : r = i % n
  OBVIOUS
<1>5. After(t, i) = r + 1
  BY <1>2, <1>4 DEF After
<1>6. r = IF i = n THEN 0 ELSE i
  <2>1. i \in Nat /\ n \in Nat \ {0} /\ i <= n
    BY <1>3
  <2>2. i < n => i % n = i
    BY <2>1
  <2>3. n % n = 0
    BY <2>1
  <2> QED BY <1>4, <2>1, <2>2, <2>3
<1> QED BY <1>2, <1>3, <1>5, <1>6

\* A line has as many lines of the ring behind it as are older.
LEMMA BehindIs ==
  ASSUME NEW t \in Text, t.end \in 1..Len(t.lines), NEW i \in 1..Len(t.lines)
  PROVE  Behind(t, i) = AgeIn(t, i) - 1
<1>1. Len(t.lines) \in Nat /\ t.end \in Nat
  BY DEF Text
<1>2. PICK n \in Nat, e \in Nat : n = Len(t.lines) /\ e = t.end
  BY <1>1
<1>3. i \in 1..n /\ e \in 1..n
  BY <1>2
<1>4. PICK a : a = i - e - 1 + n
  OBVIOUS
<1>7. PICK r : r = a % n
  OBVIOUS
<1>5. Behind(t, i) = r
  BY <1>2, <1>4, <1>7 DEF Behind
<1>6. i \in Nat /\ e \in Nat /\ a \in Nat /\ n \in Nat \ {0} /\ a < 2 * n
  BY <1>3, <1>4
<1>8. CASE i > e
  <2>1. n <= a
    BY <1>3, <1>4, <1>8
  <2>2. a % n = a - n
    BY <1>6, <2>1
  <2>3. r = a - n
    BY <1>7, <2>2
  <2>4. r = (i - e) - 1
    BY <1>3, <1>4, <1>6, <2>3
  <2>5. AgeIn(t, i) = i - e
    BY <1>2, <1>8 DEF AgeIn
  <2> QED BY <1>5, <2>4, <2>5
<1>9. CASE ~ (i > e)
  <2>1. a < n
    BY <1>3, <1>4, <1>9
  <2>2. a % n = a
    BY <1>6, <2>1
  <2>3. r = a
    BY <1>7, <2>2
  <2> QED BY <1>2, <1>3, <1>4, <1>5, <1>9, <2>3 DEF AgeIn
<1> QED BY <1>8, <1>9

\* Place and AgeIn are inverse to each other, and the free place is the oldest.
LEMMA PlaceAge ==
  ASSUME NEW t \in Text, t.end \in 1..Len(t.lines)
  PROVE  /\ \A i \in 1..Len(t.lines) :
              /\ AgeIn(t, i) \in 1..Len(t.lines) /\ Place(t, AgeIn(t, i)) = i
              /\ AgeIn(t, i) = Len(t.lines) => i = t.end
              /\ i = t.end => AgeIn(t, i) = Len(t.lines)
         /\ \A k \in 1..Len(t.lines) :
              Place(t, k) \in 1..Len(t.lines) /\ AgeIn(t, Place(t, k)) = k
         /\ Place(t, Len(t.lines)) = t.end
         /\ \A k \in 1..Len(t.lines) :
              After(t, Place(t, k)) = IF k = Len(t.lines) THEN Place(t, 1)
                                      ELSE Place(t, k + 1)
         /\ Capacity(t) \in Nat /\ Len(t.lines) = Capacity(t) + 1
<1>1. Len(t.lines) \in Nat /\ t.end \in Nat
  BY DEF Text
<1>2. PICK n \in Nat, e \in Nat : n = Len(t.lines) /\ e = t.end
  BY <1>1
<1>3. e \in 1..n
  BY <1>2
<1>4. \A k : Place(t, k) = IF e + k <= n THEN e + k ELSE e + k - n
  BY <1>2 DEF Place
<1>5. \A i : AgeIn(t, i) = IF i > e THEN i - e ELSE i - e + n
  BY <1>2 DEF AgeIn
<1>6. \A i \in 1..n :
        /\ AgeIn(t, i) \in 1..n
        /\ Place(t, AgeIn(t, i)) = i
        /\ AgeIn(t, i) = n => i = e
        /\ i = e => AgeIn(t, i) = n
  BY <1>3, <1>4, <1>5
<1>7. \A k \in 1..n : Place(t, k) \in 1..n /\ AgeIn(t, Place(t, k)) = k
  BY <1>3, <1>4, <1>5
<1>8. ASSUME NEW k \in 1..n
      PROVE  After(t, Place(t, k)) = IF k = n THEN Place(t, 1) ELSE Place(t, k + 1)
  <2>1. After(t, Place(t, k)) = IF Place(t, k) = n THEN 1 ELSE Place(t, k) + 1
    BY <1>2, <1>7, AfterIs
  <2> QED BY <1>3, <1>4, <2>1
<1>9. Place(t, n) = e /\ Capacity(t) = n - 1
  BY <1>2, <1>3, <1>4 DEF Capacity
<1>10. \A i \in 1..Len(t.lines) :
         /\ AgeIn(t, i) \in 1..Len(t.lines) /\ Place(t, AgeIn(t, i)) = i
         /\ AgeIn(t, i) = Len(t.lines) => i = t.end
         /\ i = t.end => AgeIn(t, i) = Len(t.lines)
  <2> TAKE i \in 1..Len(t.lines)
  <2>1. i \in 1..n
    BY <1>2
  <2>2. /\ AgeIn(t, i) \in 1..n
        /\ Place(t, AgeIn(t, i)) = i
        /\ AgeIn(t, i) = n => i = e
        /\ i = e => AgeIn(t, i) = n
    BY <1>6, <2>1
  <2> QED BY <1>2, <2>2
<1>11. \A k \in 1..Len(t.lines) :
         Place(t, k) \in 1..Len(t.lines) /\ AgeIn(t, Place(t, k)) = k
  BY <1>2, <1>7
<1>12. \A k \in 1..Len(t.lines) :
         After(t, Place(t, k)) = IF k = Len(t.lines) THEN Place(t, 1)
                                 ELSE Place(t, k + 1)
  BY <1>2, <1>8
<1>13. Place(t, Len(t.lines)) = t.end /\ Capacity(t) \in Nat
       /\ Len(t.lines) = Capacity(t) + 1
  BY <1>2, <1>3, <1>9
<1> QED BY <1>10, <1>11, <1>12, <1>13

\* What writing a line leaves alone, and what it writes.
LEMMA Writing ==
  ASSUME NEW s \in Text, NEW line \in Seq(Char), NEW u \in Written(s, line)
  PROVE  /\ u \in Text /\ u.lines = s.lines /\ u.end = s.end /\ u.in = s.in
         /\ ~DiskFull => u.torn = s.torn
         /\ line = <<>> => u.out = s.out /\ u.torn = s.torn
         /\ line # <<>> => u.torn \/ (u.out = Append(s.out, line) /\ u.torn = s.torn)
         /\ s.torn => u.torn
<1>1. /\ s.lines \in Seq(Seq(Char)) /\ s.end \in Nat /\ s.in \in Seq(Words)
      /\ s.out \in Seq(Words) /\ s.torn \in BOOLEAN
  BY DEF Text
<1>2. CASE u = s /\ line = <<>>
  BY <1>2
<1>3. CASE u = [s EXCEPT !.out = Append(@, line)] /\ line # <<>>
  <2>1. line \in Words
    BY <1>3 DEF Words
  <2>2. Append(s.out, line) \in Seq(Words)
    BY <1>1, <2>1
  <2>3. /\ u.lines = s.lines /\ u.end = s.end /\ u.in = s.in
        /\ u.out = Append(s.out, line) /\ u.torn = s.torn
    BY <1>3 DEF Text
  <2>4. u \in Text
    BY <1>3, <2>2 DEF Text
  <2> QED BY <1>3, <2>3, <2>4
<1>4. CASE u = [s EXCEPT !.torn = TRUE] /\ DiskFull /\ line # <<>>
  <2>1. /\ u.lines = s.lines /\ u.end = s.end /\ u.in = s.in
        /\ u.out = s.out /\ u.torn = TRUE
    BY <1>4 DEF Text
  <2>2. u \in Text
    BY <1>4 DEF Text
  <2> QED BY <1>4, <2>1, <2>2
<1>5. \/ u = s /\ line = <<>>
      \/ u = [s EXCEPT !.out = Append(@, line)] /\ line # <<>>
      \/ u = [s EXCEPT !.torn = TRUE] /\ DiskFull /\ line # <<>>
  BY DEF Written
<1> QED BY <1>2, <1>3, <1>4, <1>5

\* The record when the next line has been put in the free place and the place
\* after it has been freed.
Shifted(t) ==
  [t EXCEPT !.lines = [@ EXCEPT ![t.end] = Head(t.in), ![Place(t, 1)] = <<>>],
            !.end = Place(t, 1), !.in = Tail(@)]

\* The free place has taken the line, the next is free, and the rest has moved on by
\* one.
LEMMA Shifting ==
  ASSUME NEW t \in Text, t.end \in 1..Len(t.lines), Capacity(t) # 0, t.in # <<>>
  PROVE  LET s == Shifted(t)
         IN  /\ s \in Text /\ Len(s.lines) = Len(t.lines)
             /\ s.end = Place(t, 1) /\ s.end \in 1..Len(t.lines) /\ s.end # t.end
             /\ s.in = Tail(t.in) /\ s.out = t.out /\ s.torn = t.torn
             /\ s.lines[t.end] = Head(t.in) /\ s.lines[s.end] = <<>>
             /\ \A i \in 1..Len(t.lines) :
                  i # t.end /\ i # s.end => s.lines[i] = t.lines[i]
             /\ \A k \in 1..Capacity(t) : Place(s, k) = Place(t, k + 1)
             /\ \A i \in 1..Len(t.lines) : i # s.end => AgeIn(s, i) = AgeIn(t, i) - 1
<1> DEFINE s == Shifted(t)
<1>1. /\ t.lines \in Seq(Seq(Char)) /\ t.end \in Nat /\ t.in \in Seq(Words)
      /\ t.out \in Seq(Words) /\ t.torn \in BOOLEAN
  BY DEF Text
<1>2. PICK n \in Nat, e \in Nat : n = Len(t.lines) /\ e = t.end
  BY <1>1
<1>3. e \in 1..n /\ n >= 2
  <2>1. e \in 1..n
    BY <1>2
  <2>2. Capacity(t) = n - 1
    BY <1>2 DEF Capacity
  <2> QED BY <2>1, <2>2
<1>4. Place(t, 1) = IF e + 1 <= n THEN e + 1 ELSE 1
  BY <1>2, <1>3 DEF Place
<1>5. PICK f : f = Place(t, 1)
  OBVIOUS
<1>6. f \in 1..n /\ f # e /\ f \in Nat
  BY <1>3, <1>4, <1>5
<1>7. Head(t.in) \in Words /\ Tail(t.in) \in Seq(Words)
  BY <1>1
<1>8. Head(t.in) \in Seq(Char) /\ <<>> \in Seq(Char)
  BY <1>7 DEF Words
<1>9. PICK ls : ls = [t.lines EXCEPT ![e] = Head(t.in), ![f] = <<>>]
  OBVIOUS
<1>10. /\ ls \in Seq(Seq(Char)) /\ Len(ls) = n
       /\ ls[e] = Head(t.in) /\ ls[f] = <<>>
       /\ \A i \in 1..n : i # e /\ i # f => ls[i] = t.lines[i]
  <2>1. PICK ms : ms = [t.lines EXCEPT ![e] = Head(t.in)]
    OBVIOUS
  <2>2. /\ ms \in Seq(Seq(Char)) /\ Len(ms) = n
        /\ ms[e] = Head(t.in)
        /\ \A i \in 1..n : i # e => ms[i] = t.lines[i]
    BY <1>1, <1>2, <1>3, <1>8, <2>1, ExceptSeq
  <2>3. ls = [ms EXCEPT ![f] = <<>>]
    BY <1>9, <2>1
  <2>4. /\ ls \in Seq(Seq(Char)) /\ Len(ls) = n
        /\ ls[f] = <<>>
        /\ \A i \in 1..n : i # f => ls[i] = ms[i]
    BY <1>6, <1>8, <2>2, <2>3, ExceptSeq
  <2> QED BY <1>3, <1>6, <2>2, <2>4
<1>11. s = [t EXCEPT !.lines = ls, !.end = f, !.in = Tail(t.in)]
  BY <1>2, <1>5, <1>9 DEF Shifted, Text
<1> HIDE DEF s
<1>12. /\ s \in Text /\ s.lines = ls /\ s.end = f /\ s.in = Tail(t.in)
       /\ s.out = t.out /\ s.torn = t.torn
  BY <1>6, <1>7, <1>10, <1>11 DEF Text
<1>13. \A k \in 1..Capacity(t) : Place(s, k) = Place(t, k + 1)
  <2> TAKE k \in 1..Capacity(t)
  <2>1. k \in 1..(n - 1)
    BY <1>2 DEF Capacity
  <2>2. Place(s, k) = IF f + k <= n THEN f + k ELSE f + k - n
    BY <1>10, <1>12 DEF Place
  <2>3. Place(t, k + 1) = IF e + (k + 1) <= n THEN e + (k + 1) ELSE e + (k + 1) - n
    BY <1>2 DEF Place
  <2> QED BY <1>3, <1>4, <1>5, <2>1, <2>2, <2>3
<1>14. \A i \in 1..Len(t.lines) : i # f => AgeIn(s, i) = AgeIn(t, i) - 1
  <2> TAKE i \in 1..Len(t.lines)
  <2>1. i \in 1..n
    BY <1>2
  <2>2. AgeIn(s, i) = IF i > f THEN i - f ELSE i - f + n
    BY <1>10, <1>12 DEF AgeIn
  <2>3. AgeIn(t, i) = IF i > e THEN i - e ELSE i - e + n
    BY <1>2 DEF AgeIn
  <2> QED BY <1>3, <1>4, <1>5, <2>1, <2>2, <2>3
<1> QED
  <2>1. s.end = Place(t, 1) /\ s.end \in 1..Len(t.lines) /\ s.end # t.end
    BY <1>2, <1>5, <1>6, <1>12
  <2>2. /\ s.lines[t.end] = Head(t.in) /\ s.lines[s.end] = <<>>
        /\ \A i \in 1..Len(t.lines) :
             i # t.end /\ i # s.end => s.lines[i] = t.lines[i]
    BY <1>2, <1>10, <1>12
  <2>3. Len(s.lines) = Len(t.lines)
    BY <1>2, <1>10, <1>12
  <2> QED BY <1>12, <1>13, <1>14, <2>1, <2>2, <2>3 DEF s

\* Reading the next line moves the ring on by one line of the text: what falls out
\* is written, unless it was emptied before.
LEMMA Reading ==
  ASSUME NEW t \in Text, t.end \in 1..Len(t.lines), NEW fix \in Seq(Words),
         NEW d \in 0..Capacity(t), Carries(t, d, fix), t.in # <<>>,
         NEW u \in ReadNextLine(t)
  PROVE  /\ u \in Text /\ Len(u.lines) = Len(t.lines)
         /\ u.end = Place(t, 1) /\ u.end \in 1..Len(u.lines) /\ Len(u.in) = Len(t.in) - 1
         /\ Carries(u, IF d = 0 THEN 0 ELSE d - 1, fix)
         /\ \A i \in 1..Len(t.lines) :
              /\ i # t.end /\ i # u.end => u.lines[i] = t.lines[i]
              /\ i # u.end => AgeIn(u, i) = AgeIn(t, i) - 1
         /\ ~DiskFull => u.torn = t.torn
<1> DEFINE s == Shifted(t)
<1>1. /\ t.lines \in Seq(Seq(Char)) /\ t.end \in Nat /\ t.in \in Seq(Words)
      /\ t.out \in Seq(Words) /\ t.torn \in BOOLEAN
  BY DEF Text
<1>2. /\ Capacity(t) \in Nat /\ GoneIn(t, Len(fix)) \in Nat /\ Len(fix) \in Nat
      /\ Len(t.lines) \in Nat
  <2>1. Capacity(t) \in Nat /\ GoneIn(t, Len(fix)) \in Nat
    BY PlaceAge DEF Carries
  <2> QED BY <1>1, <2>1
<1>3. PICK n \in Nat, e \in Nat, c \in Nat, g \in Nat, m \in Nat :
        /\ n = Len(t.lines) /\ e = t.end /\ c = Capacity(t)
        /\ g = GoneIn(t, Len(fix)) /\ m = Len(fix)
  BY <1>1, <1>2
<1>4. /\ c = 0 => t.in = <<>>
      /\ \A k \in 1..c : t.lines[Place(t, k)] = IF k <= d THEN <<>> ELSE fix[g + k]
      /\ t.in = SubSeq(fix, g + c + 1, m)
      /\ t.torn \/ t.out = SubSeq(fix, 1, g + d)
  BY <1>3 DEF Carries
<1>5. c # 0 /\ n = c + 1 /\ e \in 1..n /\ d \in 0..c
  <2>1. n = c + 1
    BY <1>3, PlaceAge
  <2> QED BY <1>3, <1>4, <2>1
<1>6. PICK b \in Nat : b = IF d = 0 THEN 0 ELSE d - 1
  BY <1>5
<1>7. PICK f : f = Place(t, 1)
  OBVIOUS
<1>8. f \in 1..n /\ Place(t, n) = e /\ After(t, e) = f
  <2>1. 1 \in 1..n /\ n \in 1..n
    BY <1>5
  <2>2. Place(t, 1) \in 1..n /\ Place(t, n) = e
    BY <1>3, <2>1, PlaceAge
  <2>3. After(t, Place(t, n)) = Place(t, 1)
    BY <1>3, <2>1, PlaceAge
  <2> QED BY <1>7, <2>2, <2>3
<1>9. /\ s \in Text /\ Len(s.lines) = n
      /\ s.end = f /\ f # e
      /\ s.in = Tail(t.in) /\ s.out = t.out /\ s.torn = t.torn
      /\ s.lines[e] = Head(t.in) /\ s.lines[f] = <<>>
      /\ \A i \in 1..n : i # e /\ i # f => s.lines[i] = t.lines[i]
      /\ \A k \in 1..c : Place(s, k) = Place(t, k + 1)
      /\ \A i \in 1..n : i # f => AgeIn(s, i) = AgeIn(t, i) - 1
  <2>1. Capacity(t) # 0
    BY <1>3, <1>5
  <2> HIDE DEF s
  <2>2. /\ s \in Text /\ Len(s.lines) = Len(t.lines)
        /\ s.end = Place(t, 1) /\ s.end # t.end
        /\ s.in = Tail(t.in) /\ s.out = t.out /\ s.torn = t.torn
        /\ s.lines[t.end] = Head(t.in) /\ s.lines[s.end] = <<>>
        /\ \A i \in 1..Len(t.lines) :
             i # t.end /\ i # s.end => s.lines[i] = t.lines[i]
        /\ \A k \in 1..Capacity(t) : Place(s, k) = Place(t, k + 1)
        /\ \A i \in 1..Len(t.lines) : i # s.end => AgeIn(s, i) = AgeIn(t, i) - 1
    BY <2>1, Shifting DEF s
  <2> QED BY <1>3, <1>7, <2>2
<1>10. PICK line : line = t.lines[f]
  OBVIOUS
<1>11. u \in Written(s, line)
  BY <1>3, <1>7, <1>8, <1>10 DEF ReadNextLine, Shifted
<1> HIDE DEF s
<1>12. line \in Seq(Char)
  BY <1>1, <1>3, <1>8, <1>10
<1>13. /\ u \in Text /\ u.lines = s.lines /\ u.end = s.end /\ u.in = s.in
       /\ ~DiskFull => u.torn = s.torn
       /\ line = <<>> => u.out = s.out /\ u.torn = s.torn
       /\ line # <<>> => u.torn \/ (u.out = Append(s.out, line) /\ u.torn = s.torn)
       /\ s.torn => u.torn
  <2>1. s \in Text
    BY <1>9
  <2> QED BY <1>11, <1>12, <2>1, Writing
<1>14. /\ u.lines[e] = Head(t.in) /\ u.lines[f] = <<>> /\ u.end = f
       /\ u.in = Tail(t.in) /\ Len(u.lines) = n
       /\ \A i \in 1..n : i # e /\ i # f => u.lines[i] = t.lines[i]
       /\ \A k \in 1..c : Place(u, k) = Place(t, k + 1)
       /\ \A i \in 1..n : i # f => AgeIn(u, i) = AgeIn(t, i) - 1
  <2>1. \A i : AgeIn(u, i) = AgeIn(s, i) /\ Place(u, i) = Place(s, i)
    BY <1>13 DEF AgeIn, Place
  <2> QED BY <1>9, <1>13, <2>1
<1>15. /\ Len(t.in) = (m - g) - c /\ Len(t.in) \in Nat \ {0} /\ g + c + 1 \in 1..m
       /\ Head(t.in) = fix[g + c + 1] /\ Tail(t.in) = SubSeq(fix, g + c + 2, m)
       /\ Len(Tail(t.in)) = Len(t.in) - 1
  <2>1. PICK l \in Nat \ {0} : l = Len(t.in)
    BY <1>1
  <2>2. g = (m - l) - c
    BY <1>3, <2>1 DEF GoneIn
  <2>3. l = (m - g) - c /\ g + c + 1 \in 1..m
    BY <2>2
  <2>4. PICK a \in 1..m : a = g + c + 1
    BY <2>3
  <2>5. t.in = SubSeq(fix, a, m) /\ m \in a..m
    BY <1>4, <2>4
  <2>6. Head(t.in) = fix[a] /\ Tail(t.in) = SubSeq(fix, a + 1, m)
    BY <1>3, <2>5, HeadTailOfSubSeq
  <2>7. a + 1 = g + c + 2
    BY <2>4
  <2>8. Len(Tail(t.in)) = Len(t.in) - 1
    BY <1>1, HeadTailProperties
  <2> QED BY <2>1, <2>3, <2>4, <2>6, <2>7, <2>8
<1>16. GoneIn(u, m) = g + 1 /\ Capacity(u) = c
  <2>1. PICK l \in Nat : l = Len(t.in)
    BY <1>15
  <2>2. Len(u.in) = l - 1 /\ Len(u.lines) = n /\ l = (m - g) - c
    BY <1>14, <1>15, <2>1
  <2>3. Capacity(u) = c
    BY <1>5, <2>2 DEF Capacity
  <2>4. GoneIn(u, m) = m - (l - 1) - c
    BY <2>2, <2>3 DEF GoneIn
  <2> QED BY <2>2, <2>3, <2>4
<1>17. \A k \in 1..c : u.lines[Place(u, k)] = IF k <= b THEN <<>> ELSE fix[(g + 1) + k]
  <2> TAKE k \in 1..c
  <2>1. Place(u, k) = Place(t, k + 1)
    BY <1>14
  <2>2. CASE k = c
    <3>1. Place(t, k + 1) = e
      BY <1>5, <1>8, <2>2
    <3>2. u.lines[e] = fix[g + c + 1]
      BY <1>14, <1>15
    <3>3. ~(k <= b) /\ (g + 1) + k = g + c + 1
      BY <1>5, <1>6, <2>2
    <3> QED BY <2>1, <3>1, <3>2, <3>3
  <2>3. CASE k # c
    <3>1. k + 1 \in 1..c /\ k + 1 # n /\ k + 1 # 1 /\ k + 1 \in 1..n
      BY <1>5, <2>3
    <3>2. AgeIn(t, Place(t, k + 1)) = k + 1 /\ Place(t, k + 1) \in 1..n
      BY <1>3, <3>1, PlaceAge
    <3>3. AgeIn(t, e) = n /\ AgeIn(t, f) = 1
      <4>1. 1 \in 1..n /\ n \in 1..n
        BY <1>5
      <4>2. AgeIn(t, Place(t, 1)) = 1 /\ AgeIn(t, Place(t, n)) = n
        BY <1>3, <4>1, PlaceAge
      <4> QED BY <1>7, <1>8, <4>2
    <3>4. Place(t, k + 1) # e /\ Place(t, k + 1) # f
      BY <3>1, <3>2, <3>3
    <3>5. u.lines[Place(t, k + 1)] = t.lines[Place(t, k + 1)]
      BY <1>14, <3>2, <3>4
    <3>6. t.lines[Place(t, k + 1)] = IF k + 1 <= d THEN <<>> ELSE fix[g + (k + 1)]
      BY <1>4, <3>1
    <3>7. /\ k + 1 <= d => k <= b
          /\ k <= b => k + 1 <= d
          /\ g + (k + 1) = (g + 1) + k
      BY <1>5, <1>6
    <3> QED BY <2>1, <3>5, <3>6, <3>7
  <2> QED BY <2>2, <2>3
<1>18. u.torn \/ u.out = SubSeq(fix, 1, (g + 1) + b)
  <2>1. CASE d = 0
    <3>1. 1 \in 1..c /\ ~(1 <= d)
      BY <1>5, <2>1
    <3>2. line = fix[g + 1]
      BY <1>4, <1>7, <1>10, <3>1
    <3>3. PICK a \in 1..m : a = g + 1
      BY <1>5, <1>15
    <3>4. line \in Words /\ line # <<>> /\ line = fix[a]
      BY <1>3, <3>2, <3>3 DEF Words
    <3> SUFFICES ASSUME ~u.torn PROVE u.out = SubSeq(fix, 1, (g + 1) + b)
      OBVIOUS
    <3>5. u.out = Append(t.out, line) /\ ~t.torn
      BY <1>9, <1>13, <3>4
    <3>6. 1 \in 1..m /\ a \in 1..m /\ a - 1 = g /\ (g + 1) + b = a /\ g + d = g
      BY <1>6, <2>1, <3>3
    <3>7. t.out = SubSeq(fix, 1, a - 1)
      BY <1>4, <3>5, <3>6
    <3>8. SubSeq(fix, 1, a) = SubSeq(fix, 1, a - 1) \o <<fix[a]>>
      BY <1>3, <3>6, SubSeqRecursiveSecond
    <3>9. Append(t.out, line) = t.out \o <<line>>
      BY <1>1, <3>4, AppendIsConcat
    <3> QED BY <3>4, <3>5, <3>6, <3>7, <3>8, <3>9
  <2>2. CASE d # 0
    <3>1. 1 \in 1..c /\ 1 <= d
      BY <1>5, <2>2
    <3>2. line = <<>>
      BY <1>4, <1>7, <1>10, <3>1
    <3>3. u.out = t.out /\ u.torn = t.torn
      BY <1>9, <1>13, <3>2
    <3>4. (g + 1) + b = g + d
      BY <1>5, <1>6, <2>2
    <3> QED BY <1>4, <3>3, <3>4
  <2> QED BY <2>1, <2>2
<1>19. Carries(u, b, fix)
  <2>1. u.in = SubSeq(fix, (g + 1) + c + 1, m)
    <3>1. (g + 1) + c + 1 = g + c + 2
      OBVIOUS
    <3> QED BY <1>14, <1>15, <3>1
  <2>2. u.lines[u.end] = <<>>
    BY <1>14
  <2>3. GoneIn(u, Len(fix)) = g + 1 /\ g + 1 \in Nat /\ Capacity(u) = c /\ c # 0
    BY <1>3, <1>5, <1>16
  <2> QED BY <1>3, <1>17, <1>18, <2>1, <2>2, <2>3 DEF Carries
<1>20. \A i \in 1..Len(t.lines) :
         /\ i # t.end /\ i # u.end => u.lines[i] = t.lines[i]
         /\ i # u.end => AgeIn(u, i) = AgeIn(t, i) - 1
  BY <1>3, <1>14
<1>21. u.end = Place(t, 1) /\ u.end \in 1..Len(u.lines) /\ Len(u.lines) = Len(t.lines)
  BY <1>3, <1>7, <1>8, <1>14
<1>22. Len(u.in) = Len(t.in) - 1 /\ (~DiskFull => u.torn = t.torn)
  BY <1>9, <1>13, <1>14, <1>15
<1> QED BY <1>6, <1>13, <1>19, <1>20, <1>21, <1>22

\* One line of the ring set to x.
WithLine(t, i, x) == [t EXCEPT !.lines[i] = x]

\* Only that line changes.
LEMMA Setting ==
  ASSUME NEW t \in Text, t.end \in 1..Len(t.lines), NEW i \in 1..Len(t.lines),
         NEW x \in Seq(Char)
  PROVE  LET u == WithLine(t, i, x)
         IN  /\ u \in Text /\ Len(u.lines) = Len(t.lines)
             /\ u.end = t.end /\ u.in = t.in /\ u.out = t.out /\ u.torn = t.torn
             /\ u.lines[i] = x
             /\ \A j \in 1..Len(t.lines) : j # i => u.lines[j] = t.lines[j]
<1> DEFINE u == WithLine(t, i, x)
<1>1. t.lines \in Seq(Seq(Char))
  BY DEF Text
<1>2. PICK ls : ls = [t.lines EXCEPT ![i] = x]
  OBVIOUS
<1>3. /\ ls \in Seq(Seq(Char)) /\ Len(ls) = Len(t.lines)
      /\ ls[i] = x
      /\ \A j \in 1..Len(t.lines) : j # i => ls[j] = t.lines[j]
  BY <1>1, <1>2, ExceptSeq
<1>4. u = [t EXCEPT !.lines = ls]
  BY <1>2 DEF WithLine, Text
<1> HIDE DEF u
<1>5. /\ u \in Text /\ u.lines = ls
      /\ u.end = t.end /\ u.in = t.in /\ u.out = t.out /\ u.torn = t.torn
  BY <1>3, <1>4 DEF Text
<1>6. /\ u \in Text /\ Len(u.lines) = Len(t.lines)
      /\ u.end = t.end /\ u.in = t.in /\ u.out = t.out /\ u.torn = t.torn
      /\ u.lines[i] = x
      /\ \A j \in 1..Len(t.lines) : j # i => u.lines[j] = t.lines[j]
  BY <1>3, <1>5
<1> QED BY <1>6 DEF u

\* Writing the oldest line that is not written yet, and emptying its place.
LEMMA Emptying ==
  ASSUME NEW t \in Text, t.end \in 1..Len(t.lines), NEW fix \in Seq(Words),
         NEW d \in 0..Capacity(t), Carries(t, d, fix), d # Capacity(t),
         NEW i \in 1..Len(t.lines), AgeIn(t, i) = d + 1,
         NEW u \in Written(WithLine(t, i, <<>>), t.lines[i])
  PROVE  /\ u \in Text /\ Len(u.lines) = Len(t.lines) /\ u.end = t.end /\ u.in = t.in
         /\ Carries(u, d + 1, fix)
         /\ ~DiskFull => u.torn = t.torn
<1>1. /\ t.lines \in Seq(Seq(Char)) /\ t.end \in Nat /\ t.in \in Seq(Words)
      /\ t.out \in Seq(Words) /\ t.torn \in BOOLEAN
  BY DEF Text
<1>2. /\ Capacity(t) \in Nat /\ GoneIn(t, Len(fix)) \in Nat /\ Len(fix) \in Nat
      /\ Len(t.lines) \in Nat /\ Len(t.in) \in Nat
  <2>1. Capacity(t) \in Nat /\ GoneIn(t, Len(fix)) \in Nat
    BY PlaceAge DEF Carries
  <2> QED BY SMTT(30), <1>1, <2>1
<1>3. PICK n \in Nat, e \in Nat, c \in Nat, g \in Nat, m \in Nat, l \in Nat :
        /\ n = Len(t.lines) /\ e = t.end /\ c = Capacity(t) /\ l = Len(t.in)
        /\ g = GoneIn(t, Len(fix)) /\ m = Len(fix)
  BY <1>1, <1>2
<1>4. /\ c = 0 => t.in = <<>>
      /\ \A k \in 1..c : t.lines[Place(t, k)] = IF k <= d THEN <<>> ELSE fix[g + k]
      /\ t.lines[e] = <<>>
      /\ t.in = SubSeq(fix, g + c + 1, m)
      /\ t.torn \/ t.out = SubSeq(fix, 1, g + d)
  BY <1>3 DEF Carries
<1>5. n = c + 1 /\ e \in 1..n /\ d \in Nat /\ d < c /\ i \in 1..n
  <2>1. n = c + 1
    BY <1>3, PlaceAge
  <2> QED BY <1>3, <2>1
<1>6. Place(t, d + 1) = i /\ i # e
  <2>1. Place(t, AgeIn(t, i)) = i /\ (i = e => AgeIn(t, i) = n)
    BY <1>3, PlaceAge
  <2> QED BY <1>5, <2>1
<1>7. PICK s : s = WithLine(t, i, <<>>)
  OBVIOUS
<1>8. <<>> \in Seq(Char)
  OBVIOUS
<1>9. /\ s \in Text /\ Len(s.lines) = n
      /\ s.end = e /\ s.in = t.in /\ s.out = t.out /\ s.torn = t.torn
      /\ s.lines[i] = <<>>
      /\ \A j \in 1..n : j # i => s.lines[j] = t.lines[j]
  <2>1. LET w == WithLine(t, i, <<>>)
        IN  /\ w \in Text /\ Len(w.lines) = Len(t.lines)
            /\ w.end = t.end /\ w.in = t.in /\ w.out = t.out /\ w.torn = t.torn
            /\ w.lines[i] = <<>>
            /\ \A j \in 1..Len(t.lines) : j # i => w.lines[j] = t.lines[j]
    BY <1>8, Setting
  <2> QED BY <1>3, <1>7, <2>1
<1>10. PICK line \in Seq(Char) : line = t.lines[i]
  BY <1>1
<1>11. /\ u \in Text /\ u.lines = s.lines /\ u.end = s.end /\ u.in = s.in
       /\ ~DiskFull => u.torn = s.torn
       /\ line # <<>> => u.torn \/ (u.out = Append(s.out, line) /\ u.torn = s.torn)
       /\ s.torn => u.torn
  <2>1. s \in Text /\ u \in Written(s, line)
    BY <1>7, <1>9, <1>10
  <2> QED BY <2>1, Writing
<1>12. g = m - l - c
  BY <1>3 DEF GoneIn
<1>13. GoneIn(u, m) = g /\ Capacity(u) = c
  <2>1. u.in = t.in /\ Len(u.lines) = n
    BY <1>9, <1>11
  <2>2. Capacity(u) = c
    BY <1>5, <2>1 DEF Capacity
  <2> QED BY <1>3, <1>12, <2>1, <2>2 DEF GoneIn
<1>14. ASSUME NEW k \in 1..c
       PROVE  u.lines[Place(u, k)] = IF k <= d + 1 THEN <<>> ELSE fix[g + k]
  <2>1. Place(u, k) = Place(t, k)
    BY <1>3, <1>9, <1>11 DEF Place
  <2>5. k \in 1..n
    BY <1>5
  <2>2. AgeIn(t, Place(t, k)) = k /\ Place(t, k) \in 1..n
    BY <1>3, <2>5, PlaceAge
  <2>3. CASE k = d + 1
    BY <1>5, <1>6, <1>9, <1>11, <2>1, <2>3
  <2>4. CASE k # d + 1
    <3>1. Place(t, k) # i
      BY <2>2, <2>4
    <3>2. u.lines[Place(t, k)] = IF k <= d THEN <<>> ELSE fix[g + k]
      BY <1>4, <1>9, <1>11, <2>2, <3>1
    <3>3. /\ k <= d => k <= d + 1
          /\ k <= d + 1 => k <= d
      BY <1>5, <2>4
    <3> QED BY <2>1, <3>2, <3>3
  <2> QED BY <2>3, <2>4
<1>15. u.torn \/ u.out = SubSeq(fix, 1, g + (d + 1))
  <2> SUFFICES ASSUME ~u.torn PROVE u.out = SubSeq(fix, 1, g + (d + 1))
    OBVIOUS
  <2>1. d + 1 \in 1..c /\ ~(d + 1 <= d)
    BY <1>5
  <2>2. line = fix[g + (d + 1)]
    BY <1>4, <1>6, <1>10, <2>1
  <2>3. g + (d + 1) \in 1..m
    BY <1>5, <1>12
  <2>4. PICK a \in 1..m : a = g + (d + 1)
    BY <2>3
  <2>5. line \in Words /\ line # <<>> /\ line = fix[a]
    BY <1>3, <2>2, <2>4 DEF Words
  <2>6. u.out = Append(t.out, line) /\ ~t.torn
    BY <1>9, <1>11, <2>5
  <2>7. 1 \in 1..m /\ a \in 1..m /\ a - 1 = g + d
    BY <1>5, <2>4
  <2>8. t.out = SubSeq(fix, 1, a - 1)
    BY <1>4, <2>6, <2>7
  <2>9. SubSeq(fix, 1, a) = SubSeq(fix, 1, a - 1) \o <<fix[a]>>
    BY <1>3, <2>7, SubSeqRecursiveSecond
  <2>10. Append(t.out, line) = t.out \o <<line>>
    BY <1>1, <2>5, AppendIsConcat
  <2> QED BY <2>4, <2>5, <2>6, <2>8, <2>9, <2>10
<1>16. Carries(u, d + 1, fix)
  <2>1. u.in = SubSeq(fix, g + c + 1, m) /\ (c = 0 => u.in = <<>>)
    BY <1>4, <1>9, <1>11
  <2>2. u.lines[u.end] = <<>>
    BY <1>4, <1>5, <1>6, <1>9, <1>11
  <2>3. GoneIn(u, Len(fix)) = g /\ Capacity(u) = c /\ m = Len(fix)
    BY <1>3, <1>13
  <2> QED BY <1>14, <1>15, <2>1, <2>2, <2>3 DEF Carries
<1> QED BY <1>3, <1>9, <1>11, <1>16

\* A line of the ring is replaced, and the same line of the text with it.
LEMMA Changing ==
  ASSUME NEW t \in Text, t.end \in 1..Len(t.lines), NEW fix \in Seq(Words),
         NEW fix2 \in Seq(Words), Len(fix2) = Len(fix), Carries(t, 0, fix),
         NEW i \in 1..Len(t.lines), i # t.end,
         NEW line \in 1..Len(fix), line = GoneIn(t, Len(fix)) + AgeIn(t, i),
         \A k \in 1..Len(fix) : k # line => fix2[k] = fix[k]
  PROVE  LET u == WithLine(t, i, fix2[line])
         IN  /\ u \in Text /\ Len(u.lines) = Len(t.lines) /\ u.end = t.end
             /\ u.in = t.in /\ u.out = t.out /\ u.torn = t.torn
             /\ Carries(u, 0, fix2)
<1>1. /\ t.lines \in Seq(Seq(Char)) /\ t.end \in Nat /\ t.in \in Seq(Words)
      /\ t.out \in Seq(Words) /\ t.torn \in BOOLEAN
  BY DEF Text
<1>2. /\ Capacity(t) \in Nat /\ GoneIn(t, Len(fix)) \in Nat /\ Len(fix) \in Nat
      /\ Len(t.lines) \in Nat /\ Len(t.in) \in Nat
  <2>1. Capacity(t) \in Nat /\ GoneIn(t, Len(fix)) \in Nat
    BY PlaceAge DEF Carries
  <2> QED BY <1>1, <2>1
<1>3. PICK n \in Nat, e \in Nat, c \in Nat, g \in Nat, m \in Nat, l \in Nat :
        /\ n = Len(t.lines) /\ e = t.end /\ c = Capacity(t) /\ l = Len(t.in)
        /\ g = GoneIn(t, Len(fix)) /\ m = Len(fix)
  BY <1>1, <1>2
<1>4. /\ c = 0 => t.in = <<>>
      /\ \A k \in 1..c : t.lines[Place(t, k)] = IF k <= 0 THEN <<>> ELSE fix[g + k]
      /\ t.lines[e] = <<>>
      /\ t.in = SubSeq(fix, g + c + 1, m)
      /\ t.torn \/ t.out = SubSeq(fix, 1, g + 0)
  BY <1>3 DEF Carries
<1>5. n = c + 1 /\ e \in 1..n /\ i \in 1..n /\ i # e
  <2>1. n = c + 1
    BY <1>3, PlaceAge
  <2> QED BY <1>3, <2>1
<1>6. PICK a \in 1..n : a = AgeIn(t, i)
  BY <1>3, PlaceAge
<1>7. Place(t, a) = i /\ a # n /\ line = g + a
  BY <1>3, <1>6, PlaceAge
<1>8. PICK x : x = fix2[line]
  OBVIOUS
<1>9. x \in Seq(Char)
  BY <1>8 DEF Words
<1>10. PICK u : u = WithLine(t, i, x)
  OBVIOUS
<1>11. /\ u \in Text /\ Len(u.lines) = n
       /\ u.end = e /\ u.in = t.in /\ u.out = t.out /\ u.torn = t.torn
       /\ u.lines[i] = x
       /\ \A j \in 1..n : j # i => u.lines[j] = t.lines[j]
  <2>1. LET w == WithLine(t, i, x)
        IN  /\ w \in Text /\ Len(w.lines) = Len(t.lines)
            /\ w.end = t.end /\ w.in = t.in /\ w.out = t.out /\ w.torn = t.torn
            /\ w.lines[i] = x
            /\ \A j \in 1..Len(t.lines) : j # i => w.lines[j] = t.lines[j]
    BY <1>9, Setting
  <2> QED BY <1>3, <1>9, <1>10, <2>1
<1>12. g = m - l - c
  BY <1>3 DEF GoneIn
<1>13. GoneIn(u, m) = g /\ Capacity(u) = c
  <2>1. Capacity(u) = c
    BY <1>5, <1>11 DEF Capacity
  <2> QED BY <1>3, <1>11, <1>12, <2>1 DEF GoneIn
<1>14. ASSUME NEW k \in 1..c
       PROVE  u.lines[Place(u, k)] = IF k <= 0 THEN <<>> ELSE fix2[g + k]
  <2>1. Place(u, k) = Place(t, k)
    BY <1>3, <1>11 DEF Place
  <2>5. k \in 1..n
    BY <1>5
  <2>2. AgeIn(t, Place(t, k)) = k /\ Place(t, k) \in 1..n
    BY <1>3, <2>5, PlaceAge
  <2>3. CASE k = a
    BY <1>7, <1>8, <1>11, <2>1, <2>3
  <2>4. CASE k # a
    <3>1. Place(t, k) # i
      BY <1>6, <2>2, <2>4
    <3>2. u.lines[Place(t, k)] = fix[g + k]
      <4>1. ~(k <= 0)
        OBVIOUS
      <4>2. t.lines[Place(t, k)] = fix[g + k]
        BY <1>4, <4>1
      <4> QED BY <1>11, <2>2, <3>1, <4>2
    <3>3. g + k \in 1..m /\ g + k # line
      <4>1. g + k \in 1..m
        BY <1>5, <1>12
      <4> QED BY <1>6, <1>7, <2>4, <4>1
    <3>4. fix2[g + k] = fix[g + k]
      BY <1>3, <3>3
    <3> QED BY <2>1, <3>2, <3>4
  <2> QED BY <2>3, <2>4
<1>15. ASSUME NEW p \in 1..(m + 1), NEW q \in 0..m, ~(p <= line /\ line <= q)
       PROVE  SubSeq(fix2, p, q) = SubSeq(fix, p, q)
  <2>1. PICK s1, s2 : s1 = SubSeq(fix, p, q) /\ s2 = SubSeq(fix2, p, q)
    OBVIOUS
  <2>2. /\ s1 \in Seq(Words) /\ Len(s1) = IF p <= q THEN q - p + 1 ELSE 0
        /\ \A k \in 1..(q - p + 1) : s1[k] = fix[p + k - 1]
    BY <1>3, <2>1, SubSeqProperties
  <2>3. /\ s2 \in Seq(Words) /\ Len(s2) = IF p <= q THEN q - p + 1 ELSE 0
        /\ \A k \in 1..(q - p + 1) : s2[k] = fix2[p + k - 1]
    BY SMTT(30), <1>3, <2>1, SubSeqProperties
  <2>4. Len(s1) = Len(s2)
    BY <2>2, <2>3
  <2>5. \A k \in 1..Len(s1) : s1[k] = s2[k]
    <3> TAKE k \in 1..Len(s1)
    <3>1. k \in 1..(q - p + 1)
      BY <2>2
    <3>3. p + k - 1 \in 1..m /\ p + k - 1 >= p /\ p + k - 1 <= q
      BY <3>1
    <3>2. p + k - 1 # line
      BY <1>15, <3>3
    <3> QED BY <1>3, <2>2, <2>3, <3>1, <3>2, <3>3
  <2> QED BY <2>1, <2>2, <2>3, <2>4, <2>5, SeqEqual
<1>16. Carries(u, 0, fix2)
  <2>1. g + c <= m /\ a <= c /\ a >= 1
    BY <1>5, <1>7, <1>12
  <2>2. /\ g + c + 1 \in 1..(m + 1) /\ m \in 0..m /\ ~(g + c + 1 <= line)
        /\ 1 \in 1..(m + 1) /\ g + 0 \in 0..m /\ ~(line <= g + 0)
    BY <1>7, <2>1
  <2>3. SubSeq(fix2, g + c + 1, m) = SubSeq(fix, g + c + 1, m)
    BY <1>15, <2>2
  <2>4. SubSeq(fix2, 1, g + 0) = SubSeq(fix, 1, g + 0)
    BY <1>15, <2>2
  <2>5. u.lines[u.end] = <<>>
    BY <1>4, <1>5, <1>11
  <2>6. GoneIn(u, Len(fix2)) = g /\ Capacity(u) = c /\ m = Len(fix2)
    BY <1>3, <1>13
  <2>7. u.in = SubSeq(fix2, g + c + 1, m) /\ (c = 0 => u.in = <<>>)
        /\ (u.torn \/ u.out = SubSeq(fix2, 1, g + 0))
    BY <1>4, <1>11, <2>3, <2>4
  <2> QED BY <1>14, <2>5, <2>6, <2>7 DEF Carries
<1> QED BY <1>3, <1>8, <1>10, <1>11, <1>16

\* Going on to the line after i, which may make room for another one: that line has
\* the next number, and nothing is left to be read when the ring is at its end.
LEMMA Advancing ==
  ASSUME NEW t \in Text, t.end \in 1..Len(t.lines), NEW fix \in Seq(Words),
         NEW d \in 0..Capacity(t), Carries(t, d, fix),
         NEW i \in 1..Len(t.lines), i # t.end, NEW j, j = After(t, i),
         NEW u \in IF j = t.end /\ MayRead(t, j) THEN ReadNextLine(t) ELSE {t}
  PROVE  /\ u \in Text /\ Len(u.lines) = Len(t.lines) /\ u.end \in 1..Len(u.lines)
         /\ j \in 1..Len(u.lines)
         /\ GoneIn(u, Len(fix)) + AgeIn(u, j) = GoneIn(t, Len(fix)) + AgeIn(t, i) + 1
         /\ \E e \in 0..Capacity(u) :
              /\ Carries(u, e, fix)
              /\ d = 0 => e = 0
              /\ d = AgeIn(t, i) => e = AgeIn(u, j) - 1
         /\ j = u.end => u.in = <<>>
         /\ ~DiskFull => u.torn = t.torn
<1>1. PICK a \in Nat, c \in Nat : a = AgeIn(t, i) /\ c = Capacity(t)
  BY PlaceAge
<1>2. a \in 1..c /\ Place(t, a) = i /\ Len(t.lines) = c + 1 /\ Place(t, c + 1) = t.end
  <2>1. /\ a \in 1..Len(t.lines) /\ Place(t, a) = i
        /\ a = Len(t.lines) => i = t.end
        /\ Len(t.lines) = c + 1
        /\ Place(t, Len(t.lines)) = t.end
    BY <1>1, PlaceAge
  <2> QED BY <2>1
<1>3. j = Place(t, a + 1) /\ j \in 1..(c + 1) /\ AgeIn(t, j) = a + 1
  <2>1. a \in 1..Len(t.lines) /\ a + 1 \in 1..Len(t.lines) /\ a # Len(t.lines)
    BY <1>1, <1>2
  <2>2. After(t, Place(t, a)) = Place(t, a + 1)
    BY <2>1, PlaceAge
  <2>3. Place(t, a + 1) \in 1..Len(t.lines) /\ AgeIn(t, Place(t, a + 1)) = a + 1
    BY <2>1, PlaceAge
  <2> QED BY <1>2, <2>2, <2>3
<1>4. PICK g \in Nat, m \in Nat, l \in Nat :
        g = GoneIn(t, Len(fix)) /\ m = Len(fix) /\ l = Len(t.in)
  <2>1. GoneIn(t, Len(fix)) \in Nat
    BY DEF Carries
  <2>2. Len(t.in) \in Nat
    BY DEF Text
  <2> QED BY <2>1, <2>2
<1>5. CASE j = t.end /\ MayRead(t, j)
  <2>1. t.in # <<>> /\ After(t, t.end) # t.end /\ u \in ReadNextLine(t)
    BY <1>5 DEF MayRead
  <2>2. /\ u \in Text /\ Len(u.lines) = Len(t.lines)
        /\ u.end = Place(t, 1) /\ u.end \in 1..Len(u.lines) /\ Len(u.in) = l - 1
        /\ Carries(u, IF d = 0 THEN 0 ELSE d - 1, fix)
        /\ j # u.end => AgeIn(u, j) = AgeIn(t, j) - 1
        /\ ~DiskFull => u.torn = t.torn
    BY SMTT(30), <1>2, <1>3, <1>4, <2>1, Reading
  <2>3. a = c
    <3>1. a + 1 \in 1..Len(t.lines) /\ c + 1 \in 1..Len(t.lines)
      BY <1>1, <1>2
    <3>2. AgeIn(t, Place(t, c + 1)) = c + 1
      BY <3>1, PlaceAge
    <3>3. a + 1 = c + 1
      BY <1>2, <1>3, <1>5, <3>2
    <3> QED BY <1>1, <3>3
  <2>4. j # u.end
    <3>1. c + 1 \in 1..Len(t.lines)
      BY <1>2
    <3>2. After(t, Place(t, c + 1)) = Place(t, 1)
      BY <1>2, <3>1, PlaceAge
    <3> QED BY <1>2, <1>5, <2>1, <2>2, <3>2
  <2>5. AgeIn(u, j) = a
    <3>1. AgeIn(u, j) = (a + 1) - 1
      BY <1>3, <2>2, <2>4
    <3> QED BY <1>1, <3>1
  <2>6. Capacity(u) = c
    BY <1>1, <2>2 DEF Capacity
  <2>7. GoneIn(u, Len(fix)) = g + 1
    <3>1. GoneIn(u, Len(fix)) = m - (l - 1) - c
      BY <1>4, <2>2, <2>6 DEF GoneIn
    <3>2. g = m - l - c
      BY <1>1, <1>4 DEF GoneIn
    <3>3. m - (l - 1) - c = (m - l - c) + 1
      OBVIOUS
    <3> QED BY <3>1, <3>2, <3>3
  <2>8. GoneIn(u, Len(fix)) + AgeIn(u, j) = GoneIn(t, Len(fix)) + AgeIn(t, i) + 1
    BY <1>1, <1>4, <2>5, <2>7
  <2>9. PICK e : e = IF d = 0 THEN 0 ELSE d - 1
    OBVIOUS
  <2>10. /\ e \in 0..c
         /\ d = 0 => e = 0
         /\ d = a => e = a - 1
    BY <1>1, <1>2, <2>9
  <2>11. \E x \in 0..Capacity(u) :
           /\ Carries(u, x, fix)
           /\ d = 0 => x = 0
           /\ d = AgeIn(t, i) => x = AgeIn(u, j) - 1
    BY <1>1, <2>2, <2>5, <2>6, <2>9, <2>10
  <2>12. j \in 1..Len(u.lines)
    BY <1>2, <1>3, <2>2
  <2> QED BY <2>2, <2>4, <2>8, <2>11, <2>12
<1>6. CASE ~(j = t.end /\ MayRead(t, j))
  <2>1. u = t
    BY <1>6
  <2>2. j = t.end => t.in = <<>>
    <3>1. SUFFICES ASSUME j = t.end, t.in # <<>> PROVE FALSE
      OBVIOUS
    <3>2. After(t, t.end) = t.end
      BY <1>6, <3>1 DEF MayRead
    <3>3. c + 1 \in 1..Len(t.lines) /\ 1 \in 1..Len(t.lines)
      BY <1>2
    <3>4. After(t, t.end) = Place(t, 1)
      BY <1>2, <3>3, PlaceAge
    <3>5. AgeIn(t, Place(t, 1)) = 1 /\ AgeIn(t, Place(t, c + 1)) = c + 1
      BY <3>3, PlaceAge
    <3>6. c + 1 = 1
      BY <1>2, <3>2, <3>4, <3>5
    <3> QED BY <1>1, <1>2, <3>6
  <2>3. d \in 0..Capacity(u) /\ Carries(u, d, fix) /\ (d = AgeIn(t, i) => d = AgeIn(u, j) - 1)
    BY <1>1, <1>3, <2>1
  <2>4. GoneIn(u, Len(fix)) + AgeIn(u, j) = GoneIn(t, Len(fix)) + AgeIn(t, i) + 1
    BY <1>1, <1>3, <1>4, <2>1
  <2> QED BY <1>2, <1>3, <2>1, <2>2, <2>3, <2>4
<1> QED BY <1>5, <1>6

-----------------------------------------------------------------------------
(* Tokens                                                                  *)

\* A set of natural numbers has a least one.
LEMMA LeastOf ==
  ASSUME NEW S, S \subseteq Nat, S # {}
  PROVE  Least(S) \in S /\ \A j \in S : Least(S) <= j
<1>1. \E i \in S : \A j \in S : i <= j
  BY LeastNatural
<1> QED BY <1>1 DEF Least

\* A token lies in its line and is not empty.
LEMMA TokenLies ==
  ASSUME NEW line \in Seq(Char), NEW i, Starts(line, i)
  PROVE  /\ i \in 1..Len(line)
         /\ TokenAt(line, i).offset = i
         /\ TokenAt(line, i).len \in Nat \ {0}
         /\ EndsAt(line, i) \in (i + 1)..(Len(line) + 1)
<1> DEFINE n == Len(line)
           first == IF Is(BeginChars, line, i) /\ Is(WordChars, line, i + 1) THEN i + 1 ELSE i
           S == {j \in first..(Len(line) + 1) : ~Inside(line, j)}
           stop == Least(S)
           end == IF Is(EndChars, line, stop) THEN stop ELSE stop - 1
<1>1. n \in Nat /\ DOMAIN line = 1..n
  OBVIOUS
<1>2. i \in 1..n
  BY <1>1 DEF Starts, Is
<1>3. Is(WordChars, line, first)
  BY DEF Starts
<1>4. first \in 1..n /\ (first = i \/ first = i + 1)
  BY <1>1, <1>3 DEF Is
<1>5. ~Inside(line, n + 1)
  BY <1>1 DEF Inside, Is
<1>6. S \subseteq Nat /\ n + 1 \in S
  BY <1>1, <1>4, <1>5
<1>7. first \notin S
  BY <1>3 DEF Inside
<1>8. stop \in S
  <2> HIDE DEF S
  <2> QED BY <1>6, LeastOf
<1>9. stop \in Nat /\ stop > first /\ stop <= n + 1
  <2> HIDE DEF first
  <2> QED BY <1>1, <1>4, <1>7, <1>8
<1> HIDE DEF stop
<1>10. Is(EndChars, line, stop) => stop <= n
  BY <1>1 DEF Is
<1>11. end \in Nat /\ i <= end /\ end <= n
  <2> HIDE DEF first
  <2> QED BY <1>1, <1>2, <1>4, <1>9, <1>10
<1>12. TokenAt(line, i) = [offset |-> i, len |-> end - i + 1, word |-> SubSeq(line, first, end)]
  BY DEF TokenAt, stop
<1> HIDE DEF end, first, n
<1>13. TokenAt(line, i).offset = i /\ TokenAt(line, i).len = end - i + 1
  BY <1>12
<1>14. end - i + 1 \in Nat \ {0} /\ i + (end - i + 1) \in (i + 1)..(n + 1)
  BY <1>1, <1>2, <1>11
<1> QED BY <1>1, <1>2, <1>13, <1>14 DEF EndsAt, n

-----------------------------------------------------------------------------
(* Lines with replacements                                                 *)

\* Character i is in a word that was replaced and is not its first.
Covered(line, made, i) == \E e \in made : e.word < i /\ i < EndsAt(line, e.word)

\* What stands in the place of a character: the replacement of the word that begins
\* with it, nothing if it is in a word that was replaced, and else itself.
LEMMA PieceIs ==
  ASSUME NEW line \in Seq(Char), NEW made, made \subseteq Edit, NEW i \in 1..Len(line)
  PROVE  /\ Piece(line, made, i) \in Seq(Char)
         /\ EditsAt(made, i) # {} =>
              /\ Piece(line, made, i) = (CHOOSE e \in EditsAt(made, i) : TRUE).by
              /\ Piece(line, made, i) \in Words
         /\ EditsAt(made, i) = {} /\ Covered(line, made, i) => Piece(line, made, i) = <<>>
         /\ EditsAt(made, i) = {} /\ ~Covered(line, made, i) =>
              Piece(line, made, i) = <<line[i]>>
<1>1. line[i] \in Char /\ <<line[i]>> \in Seq(Char) /\ <<>> \in Seq(Char)
  OBVIOUS
<1>2. CASE EditsAt(made, i) # {}
  <2>1. PICK e : e = CHOOSE x \in EditsAt(made, i) : TRUE
    OBVIOUS
  <2>2. e \in EditsAt(made, i)
    BY <1>2, <2>1
  <2>3. e \in Edit
    BY <2>2 DEF EditsAt
  <2>4. Piece(line, made, i) = e.by
    BY <1>2, <2>1 DEF Piece
  <2>5. e.by \in Words
    BY <2>3 DEF Edit
  <2> QED BY <1>2, <2>1, <2>4, <2>5 DEF Words
<1>3. CASE EditsAt(made, i) = {}
  <2>1. Piece(line, made, i)
          = IF Covered(line, made, i) THEN <<>> ELSE <<line[i]>>
    BY <1>3 DEF Piece, EndsAt, Covered
  <2> QED BY <1>1, <1>3, <2>1
<1> QED BY <1>2, <1>3

\* P is the start of the line with the replacements, up to each of its places.
Patches(P, line, made) ==
  /\ P \in [0..Len(line) -> Seq(Char)]
  /\ P[0] = <<>>
  /\ \A i \in 1..Len(line) : P[i] = P[i - 1] \o Piece(line, made, i)

\* PatchedTo satisfies its equation.
LEMMA Patched ==
  ASSUME NEW line \in Seq(Char), NEW made, made \subseteq Edit
  PROVE  Patches(PatchedTo(line, made), line, made)
<1> DEFINE Eq(g) == g = [i \in 0..Len(line) |->
                          IF i = 0 THEN <<>> ELSE g[i - 1] \o Piece(line, made, i)]
<1>1. PICK n \in Nat : n = Len(line)
  OBVIOUS
<1>2. PICK S : S = Seq(Char)
  OBVIOUS
<1>0. <<>> \in Seq(Char)
  OBVIOUS
<1>3. PICK a \in S : a = <<>>
  BY <1>0, <1>2
<1>4. PICK d : d = [i \in Nat |-> [x \in S |-> IF i \in 1..n THEN x \o Piece(line, made, i)
                                              ELSE x]]
  OBVIOUS
<1>5. d \in [Nat -> [S -> S]]
  <2>1. ASSUME NEW i \in Nat, NEW x \in S, i \in 1..n PROVE x \o Piece(line, made, i) \in S
    <3>1. Piece(line, made, i) \in Seq(Char)
      BY <1>1, <2>1, PieceIs
    <3> QED BY <1>2, <3>1
  <2> QED BY <1>4, <2>1
<1>6. PICK f : Recurses(f, S, a, d)
  BY <1>5, NatRecursion
<1>7. PICK g : g = [i \in 0..n |-> f[i]]
  OBVIOUS
<1>8. g \in [0..n -> S] /\ g[0] = <<>>
  BY <1>3, <1>6, <1>7 DEF Recurses
<1>9. ASSUME NEW i \in 1..n PROVE g[i] = g[i - 1] \o Piece(line, made, i)
  <2>1. i \in Nat \ {0} /\ i - 1 \in Nat /\ i \in 0..n /\ i - 1 \in 0..n
    OBVIOUS
  <2>2. f[i] = d[i][f[i - 1]] /\ f[i - 1] \in S
    BY <1>6, <2>1 DEF Recurses
  <2>3. d[i][f[i - 1]] = f[i - 1] \o Piece(line, made, i)
    BY <1>4, <2>1, <2>2
  <2> QED BY <1>7, <2>1, <2>2, <2>3
<1>10. Eq(g)
  <2>1. ASSUME NEW i \in 0..n, i # 0 PROVE i \in 1..n
    BY <2>1
  <2>2. \A i \in 0..n : g[i] = IF i = 0 THEN <<>> ELSE g[i - 1] \o Piece(line, made, i)
    BY <1>8, <1>9, <2>1
  <2>3. g = [i \in 0..n |-> g[i]]
    BY <1>8
  <2> QED BY <1>1, <2>2, <2>3
<1>11. PatchedTo(line, made) = CHOOSE h : Eq(h)
  BY DEF PatchedTo
<1>12. Eq(PatchedTo(line, made))
  <2> HIDE DEF Eq
  <2> QED BY <1>10, <1>11
<1>13. PICK P : P = PatchedTo(line, made)
  OBVIOUS
<1>14. P = [i \in 0..n |-> IF i = 0 THEN <<>> ELSE P[i - 1] \o Piece(line, made, i)]
  BY <1>1, <1>12, <1>13
<1>15. P[0] = <<>> /\ \A i \in 1..n : P[i] = P[i - 1] \o Piece(line, made, i)
  <2>1. 0 \in 0..n /\ \A i \in 1..n : i \in 0..n /\ i # 0
    OBVIOUS
  <2> QED BY <1>14, <2>1
<1>16. \A i \in Nat : i \in 0..n => P[i] \in Seq(Char)
  <2> DEFINE H == {i \in Nat : i \in 0..n => P[i] \in Seq(Char)}
  <2>1. 0 \in H
    BY <1>0, <1>15
  <2>2. ASSUME NEW i \in Nat, i \in H PROVE i + 1 \in H
    <3> SUFFICES ASSUME i + 1 \in 0..n PROVE P[i + 1] \in Seq(Char)
      OBVIOUS
    <3>1. i \in 0..n /\ i + 1 \in 1..n /\ (i + 1) - 1 = i
      OBVIOUS
    <3>2. P[i] \in Seq(Char)
      BY <2>2, <3>1
    <3>3. P[i + 1] = P[i] \o Piece(line, made, i + 1)
      BY <1>15, <3>1
    <3>4. Piece(line, made, i + 1) \in Seq(Char)
      BY <1>1, <3>1, PieceIs
    <3> QED BY <3>2, <3>3, <3>4
  <2>3. Nat \subseteq H
    <3> HIDE DEF H
    <3> QED BY <2>1, <2>2, NatSetInduction
  <2> QED BY <2>3
<1>17. P \in [0..n -> Seq(Char)]
  <2>1. DOMAIN P = 0..n /\ P = [i \in 0..n |-> P[i]]
    BY <1>14
  <2> QED BY <1>16, <2>1
<1> QED BY <1>1, <1>13, <1>15, <1>17 DEF Patches

\* From a to j the line is as it was.
IsPlain(P, line, a, j) == P[j] = P[a] \o SubSeq(line, a + 1, j)

\* A stretch without replacements is as it was.
LEMMA PlainStretch ==
  ASSUME NEW line \in Seq(Char), NEW made, NEW P, Patches(P, line, made),
         NEW a \in 0..Len(line), NEW b \in a..Len(line),
         \A i \in (a + 1)..b : Piece(line, made, i) = <<line[i]>>
  PROVE  P[b] = P[a] \o SubSeq(line, a + 1, b)
<1>1. PICK n \in Nat : n = Len(line)
  OBVIOUS
<1>2. P \in [0..n -> Seq(Char)] /\ a \in 0..n /\ b \in a..n
  BY <1>1 DEF Patches
<1>9. \A i \in 1..n : P[i] = P[i - 1] \o Piece(line, made, i)
  BY <1>1 DEF Patches
<1> DEFINE H == {j \in Nat : j \in a..b => IsPlain(P, line, a, j)}
<1>3. IsPlain(P, line, a, a)
  <2>1. a < a + 1 /\ a \in Int /\ a + 1 \in Int
    BY <1>2
  <2>2. SubSeq(line, a + 1, a) = <<>>
    BY <2>1, SubSeqEmpty
  <2>3. P[a] \in Seq(Char)
    BY <1>2
  <2> QED BY <2>2, <2>3, ConcatEmptySeq DEF IsPlain
<1>4. 0 \in H
  <2>1. 0 \in a..b => a = 0
    BY <1>2
  <2> QED BY <1>3, <2>1
<1>5. ASSUME NEW j \in Nat, j \in H PROVE j + 1 \in H
  <2> SUFFICES ASSUME j + 1 \in a..b
               PROVE  IsPlain(P, line, a, j + 1)
    OBVIOUS
  <2>1. CASE j + 1 = a
    BY <1>3, <2>1
  <2>2. CASE j + 1 # a
    <3>1. PICK k \in 1..n, m \in 1..n : k = j + 1 /\ m = a + 1
      BY <1>2, <2>2
    <3>2. /\ k - 1 = j /\ j \in a..b /\ k \in (a + 1)..b /\ k \in m..n
      BY <1>2, <2>2, <3>1
    <3>3. P[k - 1] = P[a] \o SubSeq(line, m, k - 1)
      BY <1>5, <3>1, <3>2 DEF IsPlain
    <3>4. P[k] = P[k - 1] \o <<line[k]>>
      BY <1>9, <3>2
    <3>5. SubSeq(line, m, k) = SubSeq(line, m, k - 1) \o <<line[k]>>
      <4>1. m \in 1..Len(line) /\ k \in m..Len(line)
        BY <1>1, <3>2
      <4> QED BY <4>1, SubSeqRecursiveSecond
    <3>6. P[a] \in Seq(Char) /\ line[k] \in Char
      BY <1>1, <1>2
    <3>10. PICK x : x = <<line[k]>>
      OBVIOUS
    <3>11. x \in Seq(Char)
      BY <3>6, <3>10
    <3>7. PICK s : s = SubSeq(line, m, k - 1)
      OBVIOUS
    <3>8. s \in Seq(Char)
      <4>1. \A i \in m..(k - 1) : line[i] \in Char
        BY <1>1, <3>2
      <4> QED BY <3>2, <3>7, <4>1, SubSeqProperties
    <3>12. PICK r : r = P[a]
      OBVIOUS
    <3>13. r \in Seq(Char)
      BY <3>6, <3>12
    <3>9. (r \o s) \o x = r \o (s \o x)
      BY SMTT(30), <3>8, <3>11, <3>13, ConcatAssociative
    <3> QED BY <3>1, <3>3, <3>4, <3>5, <3>7, <3>9, <3>10, <3>12 DEF IsPlain
  <2> QED BY <2>1, <2>2
<1>6. Nat \subseteq H
  <2> HIDE DEF H
  <2> QED BY <1>4, <1>5, NatSetInduction
<1>7. b \in Nat /\ b \in a..b
  BY <1>2
<1>8. b \in H
  BY <1>6, <1>7
<1> QED BY <1>7, <1>8 DEF IsPlain

\* In what is replaced nothing follows its replacement.
LEMMA EmptyStretch ==
  ASSUME NEW line \in Seq(Char), NEW made, NEW P, Patches(P, line, made),
         NEW a \in 0..Len(line), NEW b \in a..Len(line),
         \A i \in (a + 1)..b : Piece(line, made, i) = <<>>
  PROVE  P[b] = P[a]
<1>1. PICK n \in Nat : n = Len(line)
  OBVIOUS
<1>2. /\ P \in [0..n -> Seq(Char)]
      /\ \A i \in 1..n : P[i] = P[i - 1] \o Piece(line, made, i)
      /\ a \in 0..n /\ b \in a..n
  BY <1>1 DEF Patches
<1> DEFINE H == {j \in Nat : a + j <= b => P[a + j] = P[a]}
<1>3. 0 \in H
  BY <1>2
<1>4. ASSUME NEW j \in Nat, j \in H PROVE j + 1 \in H
  <2> SUFFICES ASSUME a + (j + 1) <= b PROVE P[a + (j + 1)] = P[a]
    OBVIOUS
  <2>1. PICK k \in 1..n : k = a + (j + 1)
    BY <1>2
  <2>2. k - 1 = a + j /\ a + j <= b /\ k \in (a + 1)..b /\ k - 1 \in 0..n
    BY <1>2, <2>1
  <2>3. P[k] = P[k - 1] \o <<>> /\ P[k - 1] = P[a]
    BY <1>2, <1>4, <2>2
  <2>4. P[k - 1] \in Seq(Char)
    BY <1>2, <2>2
  <2> QED BY <2>1, <2>3, <2>4, ConcatEmptySeq
<1>5. Nat \subseteq H
  <2> HIDE DEF H
  <2> QED BY <1>3, <1>4, NatSetInduction
<1>6. b - a \in Nat /\ a + (b - a) = b
  BY <1>2
<1>7. b - a \in H
  BY <1>5, <1>6
<1> QED BY <1>6, <1>7

\* Where the same is replaced the line starts in the same way.
LEMMA SameStart ==
  ASSUME NEW line \in Seq(Char), NEW made, NEW made2, NEW P, NEW Q,
         Patches(P, line, made), Patches(Q, line, made2), NEW b \in 0..Len(line),
         \A i \in 1..b : Piece(line, made, i) = Piece(line, made2, i)
  PROVE  P[b] = Q[b]
<1>1. PICK n \in Nat : n = Len(line)
  OBVIOUS
<1>2. /\ P[0] = <<>> /\ Q[0] = <<>> /\ b \in 0..n
      /\ \A i \in 1..n : P[i] = P[i - 1] \o Piece(line, made, i)
      /\ \A i \in 1..n : Q[i] = Q[i - 1] \o Piece(line, made2, i)
  BY <1>1 DEF Patches
<1> DEFINE H == {j \in Nat : j <= b => P[j] = Q[j]}
<1>3. 0 \in H
  BY <1>2
<1>4. ASSUME NEW j \in Nat, j \in H PROVE j + 1 \in H
  <2> SUFFICES ASSUME j + 1 <= b PROVE P[j + 1] = Q[j + 1]
    OBVIOUS
  <2>1. j + 1 \in 1..n /\ j + 1 \in 1..b /\ (j + 1) - 1 = j /\ j <= b
    BY <1>2
  <2>2. P[j] = Q[j]
    BY <1>4, <2>1
  <2>3. P[j + 1] = P[j] \o Piece(line, made, j + 1)
    BY <1>2, <2>1
  <2>4. Q[j + 1] = Q[j] \o Piece(line, made2, j + 1)
    BY <1>2, <2>1
  <2> QED BY <2>1, <2>2, <2>3, <2>4
<1>5. Nat \subseteq H
  <2> HIDE DEF H
  <2> QED BY <1>3, <1>4, NatSetInduction
<1>6. b \in Nat /\ b \in H
  BY <1>2, <1>5
<1> QED BY <1>6

\* A line with replacements is a line: nothing is replaced by nothing.
LEMMA NotEmptied ==
  ASSUME NEW line \in Words, NEW made, made \subseteq Edit
  PROVE  PatchedTo(line, made)[Len(line)] \in Words
<1>1. line \in Seq(Char) /\ Len(line) \in Nat \ {0}
  BY DEF Words
<1>2. PICK n \in Nat \ {0} : n = Len(line)
  BY <1>1
<1>3. PICK P : P = PatchedTo(line, made)
  OBVIOUS
<1>4. /\ P \in [0..n -> Seq(Char)] /\ P[0] = <<>>
      /\ \A i \in 1..n : P[i] = P[i - 1] \o Piece(line, made, i)
  BY <1>1, <1>2, <1>3, Patched DEF Patches
<1>5. 1 \in 1..n /\ 1 - 1 = 0 /\ n \in 0..n
  BY <1>2
<1>6. Piece(line, made, 1) \in Seq(Char) /\ Piece(line, made, 1) # <<>>
  <2>1. CASE EditsAt(made, 1) # {}
    BY <1>1, <1>2, <1>5, <2>1, PieceIs DEF Words
  <2>2. CASE EditsAt(made, 1) = {}
    <3>1. \A e \in made : ~(e.word < 1)
      BY DEF Edit
    <3>3. ~Covered(line, made, 1)
      BY <3>1 DEF Covered
    <3>4. 1 \in 1..Len(line)
      BY <1>2, <1>5
    <3>2. Piece(line, made, 1) = <<line[1]>>
      BY <1>1, <2>2, <3>3, <3>4, PieceIs
    <3>5. line[1] \in Char
      BY <1>1, <3>4
    <3>6. <<line[1]>> \in Seq(Char) /\ <<line[1]>> # <<>>
      BY <3>5
    <3> QED BY <3>2, <3>6
  <2> QED BY <2>1, <2>2
<1>7. P[1] # <<>>
  BY <1>4, <1>5, <1>6, ConcatEmptySeq
<1> DEFINE H == {j \in Nat : j + 1 <= n => P[j + 1] # <<>>}
<1>8. 0 \in H
  BY <1>7
<1>9. ASSUME NEW j \in Nat, j \in H PROVE j + 1 \in H
  <2> SUFFICES ASSUME (j + 1) + 1 <= n PROVE P[(j + 1) + 1] # <<>>
    OBVIOUS
  <2>1. PICK k \in 1..n : k = (j + 1) + 1
    OBVIOUS
  <2>2. k - 1 = j + 1 /\ j + 1 <= n /\ k - 1 \in 0..n
    BY <2>1
  <2>3. P[k - 1] # <<>> /\ P[k - 1] \in Seq(Char)
    BY <1>4, <1>9, <2>2
  <2>4. P[k] = P[k - 1] \o Piece(line, made, k) /\ Piece(line, made, k) \in Seq(Char)
    BY <1>1, <1>2, <1>4, PieceIs
  <2>5. P[k] # <<>>
    BY <2>3, <2>4, ConcatEqualIffEmpty
  <2> QED BY <2>1, <2>5
<1>10. Nat \subseteq H
  <2> HIDE DEF H
  <2> QED BY <1>8, <1>9, NatSetInduction
<1>11. n - 1 \in Nat /\ (n - 1) + 1 = n
  BY <1>2
<1>12. P[n] # <<>>
  BY <1>10, <1>11
<1> QED BY <1>2, <1>3, <1>4, <1>5, <1>12 DEF Words

\* Behind all replacements the line is as it was.
LEMMA PlainAfter ==
  ASSUME NEW line \in Seq(Char), NEW made, made \subseteq Edit,
         NEW p \in 1..(Len(line) + 1), Settled(line, made, p),
         NEW q \in p..(Len(line) + 1)
  PROVE  /\ PatchedTo(line, made)[q - 1]
              = PatchedTo(line, made)[p - 1] \o SubSeq(line, p, q - 1)
         /\ Len(PatchedTo(line, made)[q - 1])
              = Len(PatchedTo(line, made)[p - 1]) + (q - p)
<1>1. PICK n \in Nat : n = Len(line)
  OBVIOUS
<1>2. PICK P : P = PatchedTo(line, made)
  OBVIOUS
<1>3. Patches(P, line, made)
  BY <1>2, Patched
<1>4. p \in 1..(n + 1) /\ q \in p..(n + 1)
  BY <1>1
<1>5. PICK a \in 0..n, b \in 0..n : a = p - 1 /\ b = q - 1
  BY <1>4
<1>6. b \in a..n /\ a + 1 = p
  BY <1>4, <1>5
<1>7. ASSUME NEW i \in p..b PROVE Piece(line, made, i) = <<line[i]>>
  <2>1. i \in 1..n /\ p <= i
    BY <1>4, <1>5
  <2>2. ASSUME NEW e \in made PROVE e.word # i /\ ~(i < EndsAt(line, e.word))
    <3>1. Starts(line, e.word) /\ EndsAt(line, e.word) <= p
      BY DEF Settled
    <3>2. EndsAt(line, e.word) \in (e.word + 1)..(n + 1) /\ e.word \in 1..n
      BY <1>1, <3>1, TokenLies
    <3> QED BY <1>4, <2>1, <3>1, <3>2
  <2>3. EditsAt(made, i) = {} /\ ~Covered(line, made, i)
    BY SMTT(30), <2>2 DEF EditsAt, Covered
  <2> QED BY <1>1, <2>1, <2>3, PieceIs
<1>8. P[b] = P[a] \o SubSeq(line, p, b)
  <2>1. a \in 0..Len(line) /\ b \in a..Len(line)
    BY <1>1, <1>6
  <2>2. \A i \in (a + 1)..b : Piece(line, made, i) = <<line[i]>>
    BY <1>6, <1>7
  <2>3. P[b] = P[a] \o SubSeq(line, a + 1, b)
    BY ZenonT(40), <1>3, <2>1, <2>2, PlainStretch
  <2> QED BY <1>6, <2>3
<1>9. PICK s : s = SubSeq(line, p, b)
  OBVIOUS
<1>10. s \in Seq(Char) /\ Len(s) = q - p
  <2>1. \A i \in p..b : line[i] \in Char
    BY <1>1, <1>4, <1>5
  <2>2. s \in Seq(Char) /\ Len(s) = IF p <= b THEN b - p + 1 ELSE 0
    BY <1>4, <1>9, <2>1, SubSeqProperties
  <2> QED BY <1>4, <1>5, <2>2
<1>11. PICK r : r = P[a]
  OBVIOUS
<1>12. r \in Seq(Char)
  BY <1>1, <1>3, <1>11 DEF Patches
<1>13. Len(r \o s) = Len(r) + Len(s)
  BY <1>10, <1>12, ConcatProperties
<1> QED BY <1>2, <1>5, <1>8, <1>9, <1>10, <1>11, <1>13

\* The line with its replacements, at the word at w.
LEMMA AtTheWord ==
  ASSUME NEW line \in Seq(Char), NEW made, made \subseteq Edit, NEW w,
         Starts(line, w), Before(line, made, w)
  PROVE  /\ PatchedTo(line, made)[EndsAt(line, w) - 1]
              = PatchedTo(line, made)[w - 1] \o InPlaceOf(line, made, w)
         /\ InPlaceOf(line, made, w) \in Seq(Char)
         /\ Settled(line, made, EndsAt(line, w))
<1>1. PICK n \in Nat : n = Len(line)
  OBVIOUS
<1>2. PICK P : P = PatchedTo(line, made)
  OBVIOUS
<1>3. Patches(P, line, made)
  BY <1>2, Patched
<1>4. w \in 1..n /\ EndsAt(line, w) \in (w + 1)..(n + 1)
  BY <1>1, TokenLies
<1>5. PICK b \in w..n : b = EndsAt(line, w) - 1
  BY <1>4
<1>6. \A e \in made : e.word # w => Starts(line, e.word) /\ EndsAt(line, e.word) <= w
  BY DEF Before, Settled
<1>7. Settled(line, made, EndsAt(line, w))
  <2> SUFFICES ASSUME NEW e \in made
               PROVE  Starts(line, e.word) /\ EndsAt(line, e.word) <= EndsAt(line, w)
    BY DEF Settled
  <2>1. CASE e.word = w
    BY <1>4, <2>1
  <2>2. CASE e.word # w
    <3>1. Starts(line, e.word) /\ EndsAt(line, e.word) <= w
      BY <1>6, <2>2
    <3>2. EndsAt(line, e.word) \in (e.word + 1)..(n + 1) /\ e.word \in 1..n
      BY <1>1, <3>1, TokenLies
    <3> QED BY <1>4, <3>1, <3>2
  <2> QED BY <2>1, <2>2
<1>8. CASE EditsAt(made, w) = {}
  <2>1. Settled(line, made, w)
    BY <1>6, <1>8 DEF EditsAt, Settled
  <2>2. w \in 1..(Len(line) + 1) /\ EndsAt(line, w) \in w..(Len(line) + 1)
    BY <1>1, <1>4
  <2>3. P[EndsAt(line, w) - 1] = P[w - 1] \o SubSeq(line, w, EndsAt(line, w) - 1)
    BY <1>2, <2>1, <2>2, PlainAfter
  <2>4. SubSeq(line, w, b) \in Seq(Char)
    <3>1. \A i \in w..b : line[i] \in Char
      BY <1>1, <1>4
    <3> QED BY <1>4, <3>1, SubSeqProperties
  <2> QED BY <1>2, <1>5, <1>7, <1>8, <2>3, <2>4 DEF InPlaceOf
<1>9. CASE EditsAt(made, w) # {}
  <2>1. PICK x : x = InPlaceOf(line, made, w)
    OBVIOUS
  <2>2. Piece(line, made, w) = x /\ x \in Words
    BY <1>1, <1>4, <1>9, <2>1, PieceIs DEF InPlaceOf
  <2>3. P[w] = P[w - 1] \o x
    BY <1>1, <1>3, <1>4, <2>2 DEF Patches
  <2>4. ASSUME NEW i \in (w + 1)..b PROVE Piece(line, made, i) = <<>>
    <3>1. i \in 1..n /\ w < i /\ i < EndsAt(line, w)
      BY <1>4, <1>5
    <3>2. ASSUME NEW e \in made, e.word = i PROVE FALSE
      <4>1. Starts(line, e.word) /\ EndsAt(line, e.word) <= w
        BY <1>4, <1>6, <3>1, <3>2
      <4>2. EndsAt(line, e.word) \in (e.word + 1)..(n + 1) /\ e.word \in 1..n
        BY <1>1, <4>1, TokenLies
      <4> QED BY <1>4, <3>1, <3>2, <4>1, <4>2
    <3>3. EditsAt(made, i) = {}
      BY <3>2 DEF EditsAt
    <3>4. Covered(line, made, i)
      BY <1>9, <3>1 DEF EditsAt, Covered
    <3> QED BY <1>1, <3>1, <3>3, <3>4, PieceIs
  <2>5. P[b] = P[w]
    <3>1. w \in 0..Len(line) /\ b \in w..Len(line)
      BY <1>1, <1>4
    <3> QED BY <1>3, <2>4, <3>1, EmptyStretch
  <2> QED BY <1>2, <1>5, <1>7, <2>1, <2>2, <2>3, <2>5 DEF Words
<1> QED BY <1>8, <1>9

\* The replacements of a line after the word at w is replaced by x.
Redone(made, n, w, x) ==
  {e \in made : e.word # w} \cup {[line |-> n, word |-> w, by |-> x]}

\* Replacing it changes the line only there.
LEMMA Redoing ==
  ASSUME NEW line \in Seq(Char), NEW made, made \subseteq Edit, NEW w,
         Starts(line, w), Before(line, made, w),
         NEW n \in Nat \ {0}, NEW x \in Words
  PROVE  LET made2 == Redone(made, n, w, x)
         IN  /\ made2 \subseteq Edit
             /\ Before(line, made2, w)
             /\ InPlaceOf(line, made2, w) = x
             /\ PatchedTo(line, made2)[w - 1] = PatchedTo(line, made)[w - 1]
<1>1. PICK d \in Edit : d = [line |-> n, word |-> w, by |-> x]
  <2>1. w \in Nat \ {0}
    BY TokenLies
  <2>2. [line |-> n, word |-> w, by |-> x] \in Edit
    BY <2>1 DEF Edit
  <2> QED BY <2>2
<1>2. PICK made2 : made2 = Redone(made, n, w, x)
  OBVIOUS
<1>3. made2 = {e \in made : e.word # w} \cup {d} /\ d.word = w /\ d.by = x
  BY <1>1, <1>2 DEF Redone
<1>4. made2 \subseteq Edit
  BY <1>3
<1>5. {e \in made2 : e.word # w} = {e \in made : e.word # w}
  BY <1>3
<1>6. Before(line, made2, w)
  BY <1>5 DEF Before
<1>7. EditsAt(made2, w) = {d}
  BY <1>3 DEF EditsAt
<1>8. InPlaceOf(line, made2, w) = x
  BY <1>3, <1>7 DEF InPlaceOf
<1>9. w \in 1..Len(line)
  BY TokenLies
<1>10. ASSUME NEW i \in 1..(w - 1) PROVE Piece(line, made, i) = Piece(line, made2, i)
  <2>1. i # w /\ i < w /\ i \in 1..Len(line)
    BY <1>9
  <2>2. EditsAt(made, i) = EditsAt(made2, i)
    BY <1>3, <2>1 DEF EditsAt
  <2>3. ASSUME NEW e \in Edit, e.word < i PROVE e.word # w
    <3>1. e.word \in Nat /\ w \in Nat /\ i \in Nat
      BY <1>9, <2>1 DEF Edit
    <3> QED BY <2>1, <2>3, <3>1
  <2>4. Covered(line, made, i) <=> Covered(line, made2, i)
    <3>1. \A e \in Edit : e.word < i => (e \in made <=> e \in made2)
      BY <1>3, <2>3
    <3> QED BY <1>4, <3>1 DEF Covered
  <2> QED BY <2>2, <2>4 DEF Piece, Covered, EndsAt
<1>11. PICK P, Q : P = PatchedTo(line, made) /\ Q = PatchedTo(line, made2)
  OBVIOUS
<1>12. Patches(P, line, made) /\ Patches(Q, line, made2)
  BY <1>4, <1>11, Patched
<1>13. w - 1 \in 0..Len(line)
  BY <1>9
<1>14. P[w - 1] = Q[w - 1]
  BY <1>10, <1>12, <1>13, SameStart
<1> QED BY <1>2, <1>4, <1>6, <1>8, <1>11, <1>14

\* With nothing replaced the line is as it was.
LEMMA NoEdits ==
  ASSUME NEW line \in Seq(Char)
  PROVE  PatchedTo(line, {})[Len(line)] = line /\ PatchedTo(line, {})[0] = <<>>
<1>1. PICK n \in Nat : n = Len(line)
  OBVIOUS
<1>2. PICK q \in Nat : q = n + 1
  OBVIOUS
<1>3. Settled(line, {}, 1)
  BY DEF Settled
<1>4. 1 \in 1..(Len(line) + 1) /\ q \in 1..(Len(line) + 1) /\ q - 1 = n /\ 1 - 1 = 0
  BY <1>1, <1>2
<1>5. PatchedTo(line, {})[q - 1] = PatchedTo(line, {})[1 - 1] \o SubSeq(line, 1, q - 1)
  BY <1>3, <1>4, PlainAfter
<1>6. PatchedTo(line, {})[0] = <<>>
  <2>1. {} \subseteq Edit
    OBVIOUS
  <2> QED BY <2>1, Patched DEF Patches
<1>7. PatchedTo(line, {})[n] = <<>> \o SubSeq(line, 1, n)
  BY <1>4, <1>5, <1>6
<1>8. SubSeq(line, 1, n) = line
  BY <1>1, SubSeqFull
<1>9. <<>> \o line = line
  BY ConcatEmptySeq
<1> QED BY <1>1, <1>6, <1>7, <1>8, <1>9

-----------------------------------------------------------------------------
(* The state                                                               *)

\* Corrected for any document and replacements.
Fixed(d, made) == [n \in DOMAIN d |-> PatchedTo(d[n], {e \in made : e.line = n})[Len(d[n])]]

\* It has as many lines as the document, and each is a line.
LEMMA FixedType ==
  ASSUME NEW d \in Seq(Words), NEW made, made \subseteq Edit
  PROVE  /\ Fixed(d, made) \in Seq(Words) /\ Len(Fixed(d, made)) = Len(d)
         /\ \A n \in 1..Len(d) :
              Fixed(d, made)[n] = PatchedTo(d[n], {e \in made : e.line = n})[Len(d[n])]
<1>1. PICK n \in Nat : n = Len(d)
  OBVIOUS
<1>2. DOMAIN d = 1..n
  BY <1>1
<1>3. PICK f : f = Fixed(d, made)
  OBVIOUS
<1>4. /\ f = [k \in 1..n |-> f[k]]
      /\ \A k \in 1..n : f[k] = PatchedTo(d[k], {e \in made : e.line = k})[Len(d[k])]
  BY <1>2, <1>3 DEF Fixed
<1>5. ASSUME NEW k \in 1..n PROVE f[k] \in Words
  <2>1. d[k] \in Words /\ {e \in made : e.line = k} \subseteq Edit
    BY <1>1
  <2>2. PatchedTo(d[k], {e \in made : e.line = k})[Len(d[k])] \in Words
    BY <2>1, NotEmptied
  <2> QED BY <1>4, <2>2
<1>6. f \in [1..n -> Words]
  BY <1>4, <1>5
<1>7. f \in Seq(Words) /\ Len(f) = n
  BY <1>6
<1> QED BY <1>1, <1>3, <1>4, <1>7

\* Corrected is that of the document and the replacements made.
LEMMA CorrectedIs == Corrected = Fixed(doc, edits)
BY DEF Corrected, CorrectedLine, EditsOf, Fixed

\* And so is of its kind.
LEMMA CorrectedType ==
  ASSUME TypeOK
  PROVE  /\ doc \in Seq(Words) /\ Corrected \in Seq(Words) /\ Len(Corrected) = Len(doc)
         /\ \A n \in 1..Len(doc) : Corrected[n] = CorrectedLine(n)
         /\ \A n : EditsOf(n) \subseteq Edit
<1>1. doc \in Seq(Words) /\ edits \subseteq Edit
  BY TextAssumption DEF TypeOK, Words
<1>2. \A n : EditsOf(n) \subseteq Edit
  BY <1>1 DEF EditsOf
<1>3. Corrected \in Seq(Words) /\ Len(Corrected) = Len(doc)
  BY <1>1, FixedType, CorrectedIs
<1>4. \A n \in 1..Len(doc) : Corrected[n] = CorrectedLine(n)
  BY <1>1 DEF Corrected
<1> QED BY <1>1, <1>2, <1>3, <1>4

\* The number of a line in the document is its age after those that have left the ring.
NumberOf(t, i, n) == n - Len(t.in) - (Len(t.lines) - 1) + Behind(t, i) + 1

\* This is what the model counts.
LEMMA NumberIs ==
  ASSUME NEW t \in Text, t.end \in 1..Len(t.lines), NEW i \in 1..Len(t.lines), NEW n \in Nat
  PROVE  NumberOf(t, i, n) = GoneIn(t, n) + AgeIn(t, i)
<1>1. PICK l \in Nat, c \in Nat : l = Len(t.in) /\ c = Capacity(t)
  <2>1. Len(t.in) \in Nat /\ Capacity(t) \in Nat
    BY PlaceAge DEF Text
  <2> QED BY <2>1
<1>2. PICK a \in Nat : a = AgeIn(t, i)
  BY PlaceAge
<1>3. Behind(t, i) = a - 1
  BY <1>2, BehindIs
<1>4. NumberOf(t, i, n) = n - l - c + (a - 1) + 1
  BY <1>1, <1>3 DEF NumberOf, Capacity
<1>5. GoneIn(t, n) = n - l - c
  BY <1>1 DEF GoneIn
<1> QED BY <1>2, <1>4, <1>5

\* LineNo is that of the current line.
LEMMA LineNoIs == LineNo = NumberOf(text, cur, Len(doc))
BY DEF LineNo, NumberOf

\* A place of the ring that is not free has the line of its number.
LEMMA InTheRing ==
  ASSUME NEW t \in Text, t.end \in 1..Len(t.lines), NEW fix \in Seq(Words),
         Carries(t, 0, fix), NEW i \in 1..Len(t.lines), i # t.end
  PROVE  /\ GoneIn(t, Len(fix)) + AgeIn(t, i) \in 1..Len(fix)
         /\ AgeIn(t, i) \in 1..Capacity(t)
         /\ t.lines[i] = fix[GoneIn(t, Len(fix)) + AgeIn(t, i)]
<1>1. PICK a : a = AgeIn(t, i)
  OBVIOUS
<1>2. a \in 1..Capacity(t) /\ Place(t, a) = i
  <2>1. /\ a \in 1..Len(t.lines) /\ Place(t, a) = i
        /\ a = Len(t.lines) => i = t.end
        /\ Capacity(t) \in Nat /\ Len(t.lines) = Capacity(t) + 1
    BY <1>1, PlaceAge
  <2> QED BY <2>1
<1>3. PICK g, m, c : g = GoneIn(t, Len(fix)) /\ m = Len(fix) /\ c = Capacity(t)
  OBVIOUS
<1>4. PICK l \in Nat : l = Len(t.in)
  BY DEF Text
<1>5. g \in Nat /\ m \in Nat /\ c \in Nat /\ g = m - l - c
  <2>1. g \in Nat
    BY <1>3 DEF Carries
  <2>2. c \in Nat
    BY <1>3, PlaceAge
  <2>3. g = m - l - c
    BY <1>3, <1>4 DEF GoneIn
  <2> QED BY <1>3, <2>1, <2>2, <2>3
<1>6. g + a \in 1..m
  BY <1>2, <1>3, <1>5
<1>7. t.lines[Place(t, a)] = fix[g + a]
  <2>1. ~(a <= 0)
    BY <1>2, <1>3, <1>5
  <2> QED BY <1>2, <1>3, <2>1 DEF Carries
<1> QED BY <1>1, <1>2, <1>3, <1>6, <1>7

\* The current line stands in the ring as it should be.
LEMMA TheLine ==
  ASSUME Inv, Working
  PROVE  /\ LineNo \in 1..Len(doc)
         /\ LineNo = GoneIn(text, Len(doc)) + AgeIn(text, cur)
         /\ AgeIn(text, cur) \in 1..Capacity(text)
         /\ copy \in Words /\ copy = doc[LineNo] /\ pos \in 1..(Len(copy) + 1)
         /\ EditsOf(LineNo) \subseteq Edit
         /\ Settled(copy, EditsOf(LineNo), pos)
         /\ Carries(text, 0, Corrected)
         /\ Line = Corrected[LineNo]
         /\ Line = PatchedTo(copy, EditsOf(LineNo))[Len(copy)]
<1>1. TypeOK /\ RingInv /\ LineInv
  BY DEF Inv
<1>2. PICK t \in Text, i \in Nat : t = text /\ i = cur
  BY <1>1 DEF TypeOK
<1>3. t.end \in 1..Len(t.lines) /\ i \in 1..Len(t.lines) /\ i # t.end
  BY <1>1, <1>2 DEF TypeOK, Working
<1>4. PICK fix \in Seq(Words) : fix = Corrected
  BY <1>1, CorrectedType
<1>5. Len(fix) = Len(doc) /\ Carries(t, 0, fix)
  BY <1>1, <1>2, <1>4, CorrectedType DEF RingInv, Working
<1>6. LineNo = GoneIn(t, Len(fix)) + AgeIn(t, i)
  <2>1. Len(fix) \in Nat
    OBVIOUS
  <2> QED BY <1>2, <1>3, <1>5, <2>1, NumberIs, LineNoIs
<1>7. /\ LineNo \in 1..Len(doc) /\ AgeIn(t, i) \in 1..Capacity(t)
      /\ Line = fix[LineNo]
  BY <1>2, <1>3, <1>5, <1>6, InTheRing DEF Line
<1>8. /\ copy = doc[LineNo] /\ pos <= Len(copy) + 1
      /\ Settled(copy, EditsOf(LineNo), pos)
  BY <1>1 DEF LineInv, Working
<1>9. copy \in Words
  BY <1>1, <1>7, <1>8, CorrectedType
<1>10. pos \in 1..(Len(copy) + 1)
  BY <1>1, <1>8, <1>9 DEF TypeOK, Words
<1>11. Line = PatchedTo(copy, EditsOf(LineNo))[Len(copy)]
  BY <1>1, <1>4, <1>7, <1>8, CorrectedType DEF CorrectedLine
<1>12. EditsOf(LineNo) \subseteq Edit
  BY <1>1, CorrectedType
<1> QED BY <1>2, <1>4, <1>5, <1>6, <1>7, <1>8, <1>9, <1>10, <1>11, <1>12

\* s is put together from x, y and z.
IsJoined(s, x, y, z) == s = (x \o y) \o z

\* The parts of such a sequence.
LEMMA Parts ==
  ASSUME NEW S, NEW x \in Seq(S), NEW y \in Seq(S), NEW z \in Seq(S),
         NEW s, IsJoined(s, x, y, z)
  PROVE  /\ s \in Seq(S)
         /\ SubSeq(s, 1, Len(x)) = x
         /\ SubSeq(s, Len(x) + 1, Len(x) + Len(y)) = y
         /\ SubSeq(s, Len(x) + Len(y) + 1, Len(s)) = z
<1>1. PICK a \in Nat, b \in Nat, c \in Nat : a = Len(x) /\ b = Len(y) /\ c = Len(z)
  OBVIOUS
<1>2. PICK xy : xy = x \o y
  OBVIOUS
<1>3. /\ xy \in Seq(S) /\ Len(xy) = a + b
      /\ \A j \in 1..(a + b) : xy[j] = IF j <= a THEN x[j] ELSE y[j - a]
  BY <1>1, <1>2, ConcatProperties
<1>4. s = xy \o z
  BY <1>2 DEF IsJoined
<1>5. /\ s \in Seq(S) /\ Len(s) = a + b + c
      /\ \A j \in 1..(a + b + c) : s[j] = IF j <= a + b THEN xy[j] ELSE z[j - (a + b)]
  <2>1. PICK ab \in Nat : ab = a + b
    OBVIOUS
  <2>2. xy \in Seq(S) /\ Len(xy) = ab
    BY <1>3, <2>1
  <2>3. /\ s \in Seq(S) /\ Len(s) = ab + c
        /\ \A j \in 1..(ab + c) : s[j] = IF j <= ab THEN xy[j] ELSE z[j - ab]
    BY <1>1, <1>4, <2>2, ConcatProperties
  <2> QED BY <2>1, <2>3
<1>6. \A j \in 1..(a + b + c) : s[j] \in S
  BY <1>5, ElementOfSeq
<1>7. SubSeq(s, 1, a) = x
  <2>1. PICK r : r = SubSeq(s, 1, a)
    OBVIOUS
  <2>2. \A j \in 1..a : s[j] \in S
    BY <1>1, <1>6
  <2>3. /\ r \in Seq(S) /\ Len(r) = IF 1 <= a THEN a - 1 + 1 ELSE 0
        /\ \A j \in 1..(a - 1 + 1) : r[j] = s[1 + j - 1]
    BY <2>1, <2>2, SubSeqProperties
  <2>4. Len(r) = a
    BY <2>3
  <2>5. ASSUME NEW j \in 1..a PROVE r[j] = x[j]
    <3>1. 1 + j - 1 = j /\ j \in 1..(a - 1 + 1) /\ j \in 1..(a + b + c) /\ j \in 1..(a + b)
          /\ j <= a + b
      OBVIOUS
    <3>2. r[j] = s[j] /\ s[j] = xy[j] /\ xy[j] = x[j]
      BY SMTT(20), <1>3, <1>5, <2>3, <3>1
    <3> QED BY <3>2
  <2> QED BY <1>1, <2>1, <2>3, <2>4, <2>5, SeqEqual
<1>8. SubSeq(s, a + 1, a + b) = y
  <2>1. PICK r : r = SubSeq(s, a + 1, a + b)
    OBVIOUS
  <2>2. \A j \in (a + 1)..(a + b) : s[j] \in S
    BY <1>1, <1>6
  <2>3. /\ r \in Seq(S) /\ Len(r) = IF a + 1 <= a + b THEN (a + b) - (a + 1) + 1 ELSE 0
        /\ \A j \in 1..((a + b) - (a + 1) + 1) : r[j] = s[(a + 1) + j - 1]
    BY <2>1, <2>2, SubSeqProperties
  <2>4. Len(r) = b
    BY <2>3
  <2>5. ASSUME NEW j \in 1..b PROVE r[j] = y[j]
    <3>1. /\ (a + 1) + j - 1 = a + j /\ j \in 1..((a + b) - (a + 1) + 1)
          /\ a + j \in 1..(a + b + c) /\ a + j \in 1..(a + b) /\ a + j <= a + b
          /\ ~(a + j <= a) /\ (a + j) - a = j
      OBVIOUS
    <3>2. r[j] = s[a + j] /\ s[a + j] = xy[a + j]
      BY <1>5, <2>3, <3>1
    <3>3. xy[a + j] = y[j]
      BY <1>3, <3>1
    <3> QED BY <3>2, <3>3
  <2> QED BY <1>1, <2>1, <2>3, <2>4, <2>5, SeqEqual
<1>9. SubSeq(s, a + b + 1, a + b + c) = z
  <2>1. PICK r : r = SubSeq(s, a + b + 1, a + b + c)
    OBVIOUS
  <2>2. \A j \in (a + b + 1)..(a + b + c) : s[j] \in S
    BY <1>1, <1>6
  <2>3. /\ r \in Seq(S)
        /\ Len(r) = IF a + b + 1 <= a + b + c THEN (a + b + c) - (a + b + 1) + 1 ELSE 0
        /\ \A j \in 1..((a + b + c) - (a + b + 1) + 1) : r[j] = s[(a + b + 1) + j - 1]
    BY <2>1, <2>2, SubSeqProperties
  <2>4. Len(r) = c
    BY <2>3
  <2>5. ASSUME NEW j \in 1..c PROVE r[j] = z[j]
    <3>1. /\ (a + b + 1) + j - 1 = a + b + j /\ j \in 1..((a + b + c) - (a + b + 1) + 1)
          /\ a + b + j \in 1..(a + b + c) /\ ~(a + b + j <= a + b)
          /\ (a + b + j) - (a + b) = j
      OBVIOUS
    <3>2. r[j] = s[a + b + j] /\ s[a + b + j] = z[j]
      BY <1>5, <2>3, <3>1
    <3> QED BY <3>2
  <2> QED BY <1>1, <2>1, <2>3, <2>4, <2>5, SeqEqual
<1> QED BY <1>1, <1>5, <1>7, <1>8, <1>9

\* What stands for the word is where begin and size say, in front of it is the line
\* up to the word, and behind it what the tokenizer has not come to.
LEMMA TheWord ==
  ASSUME Inv, phase \in {"found", "prompt"}
  PROVE  LET made == EditsOf(LineNo)
             w == tok.offset
             rest == SubSeq(copy, pos, Len(copy))
         IN  /\ Working /\ Starts(copy, w) /\ Before(copy, made, w)
             /\ pos = EndsAt(copy, w) /\ tok.len = size
             /\ PatchedTo(copy, made)[w - 1] \in Seq(Char)
             /\ Len(PatchedTo(copy, made)[w - 1]) = begin - 1
             /\ rest \in Seq(Char)
             /\ RealWord = InPlaceOf(copy, made, w) /\ RealWord \in Seq(Char)
             /\ SubSeq(Line, 1, begin - 1) = PatchedTo(copy, made)[w - 1]
             /\ SubSeq(Line, begin + size, Len(Line)) = rest
<1>1. TypeOK /\ LineInv /\ WordInv
  BY DEF Inv
<1>2. Working /\ AtWord
  BY <1>1 DEF LineInv, Working, AtWord, LoopPhases
<1>0. /\ copy \in Words /\ EditsOf(LineNo) \in SUBSET Edit /\ tok.offset \in Nat
      /\ pos \in Nat /\ Len(copy) \in Nat
  <2>1. copy \in Words /\ EditsOf(LineNo) \subseteq Edit
    BY <1>2, TheLine
  <2>2. tok.offset \in Nat /\ pos \in Nat
    BY <1>1 DEF TypeOK
  <2> QED BY <2>1, <2>2 DEF Words
<1>3. PICK line \in Words, made \in SUBSET Edit, w \in Nat, p \in Nat, n \in Nat :
        /\ line = copy /\ made = EditsOf(LineNo) /\ w = tok.offset /\ p = pos /\ n = Len(line)
  BY <1>0
<1>4. line \in Seq(Char)
  BY DEF Words
<1>5. /\ Starts(line, w) /\ p = EndsAt(line, w) /\ Before(line, made, w)
      /\ Len(PatchedTo(line, made)[w - 1]) = begin - 1
      /\ Len(InPlaceOf(line, made, w)) = size
      /\ tok.len = size
  BY <1>1, <1>2, <1>3 DEF WordInv
<1>6. w \in 1..n /\ p \in (w + 1)..(n + 1)
  BY <1>3, <1>4, <1>5, TokenLies
<1>7. PICK x, y, z : /\ x = PatchedTo(line, made)[w - 1]
                     /\ y = InPlaceOf(line, made, w)
                     /\ z = SubSeq(line, p, n)
  OBVIOUS
<1>8. PatchedTo(line, made)[p - 1] = x \o y /\ y \in Seq(Char) /\ Settled(line, made, p)
  BY <1>4, <1>5, <1>7, AtTheWord
<1>9. x \in Seq(Char)
  <2>1. Patches(PatchedTo(line, made), line, made)
    BY <1>4, Patched
  <2>2. w - 1 \in 0..Len(line)
    BY <1>3, <1>6
  <2> QED BY <1>7, <2>1, <2>2 DEF Patches
<1>10. Line = (x \o y) \o z
  <2>1. Line = PatchedTo(line, made)[n]
    BY <1>2, <1>3, TheLine
  <2>4. PICK q \in Nat : q = n + 1
    OBVIOUS
  <2>2. p \in 1..(Len(line) + 1) /\ q \in p..(Len(line) + 1) /\ q - 1 = n
    BY <1>3, <1>6, <2>4
  <2>5. PatchedTo(line, made)[q - 1] = PatchedTo(line, made)[p - 1] \o SubSeq(line, p, q - 1)
    BY <1>4, <1>8, <2>2, PlainAfter
  <2>3. PatchedTo(line, made)[n] = PatchedTo(line, made)[p - 1] \o SubSeq(line, p, n)
    BY <2>2, <2>5
  <2> QED BY <1>7, <1>8, <2>1, <2>3
<1>11. z \in Seq(Char)
  <2>1. \A i \in p..n : line[i] \in Char
    BY <1>3, <1>4, <1>6
  <2> QED BY <1>6, <1>7, <2>1, SubSeqProperties
<1>12. PICK b \in Int, k \in Int : b = begin /\ k = size
  BY <1>1 DEF TypeOK
<1>13. b = Len(x) + 1 /\ k = Len(y)
  <2>1. Len(x) \in Nat
    BY <1>9
  <2>2. Len(x) = b - 1 /\ Len(y) = k
    BY <1>5, <1>7, <1>12
  <2> QED BY <2>1, <2>2
<1>14. /\ SubSeq(Line, 1, b - 1) = x
       /\ SubSeq(Line, b, b + k - 1) = y
       /\ SubSeq(Line, b + k, Len(Line)) = z
  <2>1. y \in Seq(Char)
    BY <1>8
  <2>2. PICK s : s = Line
    OBVIOUS
  <2>3. IsJoined(s, x, y, z)
    BY <1>10, <2>2 DEF IsJoined
  <2>4. /\ SubSeq(s, 1, Len(x)) = x
        /\ SubSeq(s, Len(x) + 1, Len(x) + Len(y)) = y
        /\ SubSeq(s, Len(x) + Len(y) + 1, Len(s)) = z
    BY <1>9, <1>11, <2>1, <2>3, Parts
  <2>5. Len(x) \in Nat /\ Len(y) \in Nat
    BY <1>9, <2>1
  <2>6. Len(x) = b - 1 /\ Len(x) + 1 = b /\ Len(x) + Len(y) = b + k - 1
        /\ Len(x) + Len(y) + 1 = b + k
    BY <1>13, <2>5
  <2> QED BY <2>2, <2>4, <2>6
<1>15. RealWord = y
  BY <1>12, <1>14 DEF RealWord
<1> QED BY <1>2, <1>3, <1>5, <1>7, <1>8, <1>9, <1>11, <1>12, <1>14, <1>15

-----------------------------------------------------------------------------
(* The steps                                                               *)

\* The corrected text changes only with the replacements.
LEMMA SameText ==
  ASSUME UNCHANGED <<doc, edits>>
  PROVE  Corrected' = Corrected
BY DEF Corrected, CorrectedLine, EditsOf

\* A step that leaves the text and the current line alone keeps the ring,
LEMMA RingKept ==
  ASSUME RingInv, UNCHANGED <<text, cur, doc, edits>>,
         phase' \in LoopPhases \cup {"exit"} => phase \in LoopPhases \cup {"exit"},
         phase' = "drain" => phase = "drain"
  PROVE  RingInv'
<1>1. PICK d \in 0..Capacity(text) :
        /\ Carries(text, d, Corrected)
        /\ phase \in LoopPhases \cup {"exit"} => d = 0
        /\ phase = "drain" => /\ d = AgeIn(text, cur) - 1
                              /\ cur = text.end => text.in = <<>>
  BY DEF RingInv
<1>2. PICK t, i, fix : t = text /\ i = cur /\ fix = Corrected
  OBVIOUS
<1>3. text' = t /\ cur' = i /\ Corrected' = fix
  BY <1>2, SameText
<1>4. /\ d \in 0..Capacity(t) /\ Carries(t, d, fix)
      /\ phase' \in LoopPhases \cup {"exit"} => d = 0
      /\ phase' = "drain" => /\ d = AgeIn(t, i) - 1
                             /\ i = t.end => t.in = <<>>
  BY <1>1, <1>2
<1> QED BY <1>3, <1>4 DEF RingInv

\* what is known of the written file,
LEMMA SavedKept ==
  ASSUME SavedInv, UNCHANGED <<text, doc, edits, file>>,
         phase' \in SavePhases => phase \in SavePhases
  PROVE  SavedInv'
BY SameText DEF SavedInv

\* and the number of the current line.
LEMMA LineKept ==
  ASSUME UNCHANGED <<text, cur, doc, edits>>
  PROVE  LineNo' = LineNo /\ EditsOf(LineNo)' = EditsOf(LineNo)
<1>1. LineNo' = LineNo
  BY DEF LineNo, Behind
<1> QED BY <1>1 DEF EditsOf

\* Steps of the loop that only go on to another phase, and may learn a word.
LEMMA OnlyPhase ==
  ASSUME Inv,
         UNCHANGED <<replaceList, changed, backup, text, cur, wordVars, diskVars, doc, edits>>,
         learnt' \subseteq Seq(Char),
         \/ phase = "next" /\ ~hasRepl /\ phase' = IF cur = text.end THEN "exit" ELSE "scan"
         \/ phase = "found" /\ phase' = "prompt"
         \/ phase = "prompt" /\ phase' \in {"next", "exit", "discard"}
  PROVE  Inv'
<1>1. TypeOK /\ RingInv /\ SavedInv /\ LineInv /\ WordInv /\ DiskInv
  BY DEF Inv
<1>2. /\ text' = text /\ cur' = cur /\ copy' = copy /\ pos' = pos /\ tok' = tok
      /\ diff' = diff /\ begin' = begin /\ size' = size /\ hasRepl' = hasRepl
      /\ file' = file /\ new' = new /\ bak' = bak /\ failed' = failed
      /\ doc' = doc /\ edits' = edits
  BY DEF wordVars, diskVars
<1>3. phase \in LoopPhases /\ phase' \in LoopPhases \cup {"exit", "discard"}
  BY DEF LoopPhases
<1>4. TypeOK'
  BY <1>1, <1>2, <1>3 DEF TypeOK
<1>5. RingInv'
  <2>1. phase' # "drain"
    BY <1>3 DEF LoopPhases
  <2> QED BY <1>1, <1>2, <1>3, <2>1, RingKept
<1>6. SavedInv'
  <2>1. phase' \notin SavePhases
    BY <1>3 DEF LoopPhases, SavePhases
  <2> QED BY <1>1, <1>2, <2>1, SavedKept
<1>7. LineNo' = LineNo /\ EditsOf(LineNo)' = EditsOf(LineNo)
  BY <1>2, LineKept
<1>8. ~hasRepl
  BY <1>1 DEF LineInv
<1>9. phase' \in LoopPhases => Working /\ cur # text.end
  BY <1>1, <1>3 DEF LineInv, Working, LoopPhases
<1>10. LineInv'
  <2>1. Working =>
          /\ copy = doc[LineNo]
          /\ \A e \in edits : e.line <= LineNo
          /\ pos <= Len(copy) + 1
          /\ Settled(copy, EditsOf(LineNo), pos)
          /\ Len(PatchedTo(copy, EditsOf(LineNo))[pos - 1]) = pos + diff - 1 + Grown
    BY <1>1 DEF LineInv
  <2>2. Grown' = Grown
    BY <1>2 DEF Grown
  <2>3. Working' => Working
    BY <1>9 DEF Working
  <2> QED BY <1>2, <1>7, <1>8, <1>9, <2>1, <2>2, <2>3 DEF LineInv
<1>11. WordInv'
  <2>1. AtWord' => phase = "found" /\ AtWord /\ phase' = "prompt"
    BY <1>2, <1>8 DEF AtWord
  <2>2. Working' => Working
    BY <1>9 DEF Working
  <2> QED BY <1>1, <1>2, <1>7, <2>1, <2>2 DEF WordInv
<1>12. DiskInv'
  BY <1>1, <1>2, <1>3 DEF DiskInv, LoopPhases
<1> QED BY <1>4, <1>5, <1>6, <1>10, <1>11, <1>12 DEF Inv

-----------------------------------------------------------------------------
(* The beginning                                                           *)

\* The ring as the constructor fills it.
FilledRing(d, ahead) ==
  [lines |-> SubSeq(d, 1, ahead) \o << <<>> >>, end |-> ahead + 1,
   in |-> SubSeq(d, ahead + 1, Len(d)), out |-> <<>>, torn |-> FALSE]

\* It carries the document.
LEMMA Filling ==
  ASSUME NEW d \in Seq(Words), NEW ahead \in 0..Len(d), ahead = 0 => Len(d) = 0
  PROVE  LET t == FilledRing(d, ahead)
         IN  /\ t \in Text /\ Len(t.lines) = ahead + 1 /\ Carries(t, 0, d)
             /\ GoneIn(t, Len(d)) = 0 /\ Capacity(t) = ahead
             /\ ahead > 0 => t.lines[1] = d[1]
<1>1. PICK n \in Nat : n = Len(d)
  OBVIOUS
<1>2. ahead \in Nat /\ ahead <= n
  BY <1>1
<1>3. PICK x, y : x = SubSeq(d, 1, ahead) /\ y = SubSeq(d, ahead + 1, n)
  OBVIOUS
<1>4. /\ x \in Seq(Words) /\ Len(x) = ahead
      /\ \A k \in 1..ahead : x[k] = d[k]
  <2>1. \A k \in 1..ahead : d[k] \in Words
    BY <1>1, <1>2
  <2>2. /\ x \in Seq(Words) /\ Len(x) = IF 1 <= ahead THEN ahead - 1 + 1 ELSE 0
        /\ \A k \in 1..(ahead - 1 + 1) : x[k] = d[1 + k - 1]
    BY <1>3, <2>1, SubSeqProperties
  <2>3. Len(x) = ahead
    BY <1>2, <2>2
  <2>4. ASSUME NEW k \in 1..ahead PROVE x[k] = d[k]
    <3>1. k \in 1..(ahead - 1 + 1) /\ 1 + k - 1 = k
      BY <1>2
    <3> QED BY <2>2, <3>1
  <2> QED BY <2>2, <2>3, <2>4
<1>5. y \in Seq(Words) /\ Len(y) = n - ahead
  <2>1. \A k \in (ahead + 1)..n : d[k] \in Words
    BY <1>1, <1>2
  <2>2. y \in Seq(Words) /\ Len(y) = IF ahead + 1 <= n THEN n - (ahead + 1) + 1 ELSE 0
    BY <1>2, <1>3, <2>1, SubSeqProperties
  <2> QED BY <1>2, <2>2
<1>6. PICK ls : ls = x \o << <<>> >>
  OBVIOUS
<1>7. /\ ls \in Seq(Seq(Char)) /\ Len(ls) = ahead + 1 /\ ls[ahead + 1] = <<>>
      /\ \A k \in 1..ahead : ls[k] = d[k]
  <2>1. x \in Seq(Seq(Char))
    BY <1>4 DEF Words
  <2>2. PICK z : z = << <<>> >>
    OBVIOUS
  <2>3. z \in Seq(Seq(Char)) /\ Len(z) = 1 /\ z[1] = <<>>
    <3>1. <<>> \in Seq(Char)
      OBVIOUS
    <3> QED BY <2>2, <3>1
  <2>4. /\ ls \in Seq(Seq(Char)) /\ Len(ls) = ahead + 1
        /\ \A k \in 1..(ahead + 1) : ls[k] = IF k <= ahead THEN x[k] ELSE z[k - ahead]
    BY <1>4, <1>6, <2>1, <2>2, <2>3, ConcatProperties
  <2>5. ls[ahead + 1] = z[1]
    <3>1. ahead + 1 \in 1..(ahead + 1) /\ ~(ahead + 1 <= ahead) /\ ahead + 1 - ahead = 1
      BY <1>2
    <3> QED BY <2>4, <3>1
  <2>6. ASSUME NEW k \in 1..ahead PROVE ls[k] = d[k]
    <3>1. k \in 1..(ahead + 1) /\ k <= ahead
      BY <1>2
    <3> QED BY <1>4, <2>4, <3>1
  <2> QED BY <2>3, <2>4, <2>5, <2>6
<1>8. PICK t : t = FilledRing(d, ahead)
  OBVIOUS
<1>9. t = [lines |-> ls, end |-> ahead + 1, in |-> y, out |-> <<>>, torn |-> FALSE]
  BY <1>1, <1>3, <1>6, <1>8 DEF FilledRing
<1>10. t \in Text
  <2>1. ahead + 1 \in Nat /\ <<>> \in Seq(Words)
    BY <1>2
  <2> QED BY <1>5, <1>7, <1>9, <2>1 DEF Text
<1>11. /\ t.lines = ls /\ t.end = ahead + 1 /\ t.in = y /\ t.out = <<>> /\ t.torn = FALSE
  BY <1>9
<1>12. Capacity(t) = ahead
  BY <1>2, <1>7, <1>11 DEF Capacity
<1>13. GoneIn(t, n) = 0
  <2>1. PICK l \in Nat : l = Len(y)
    BY <1>5
  <2>2. GoneIn(t, n) = n - l - ahead
    BY <1>11, <1>12, <2>1 DEF GoneIn
  <2>3. l = n - ahead
    BY <1>5, <2>1
  <2> QED BY <1>2, <2>2, <2>3
<1>14. Carries(t, 0, d)
  <2>1. ahead = 0 => y = <<>>
    <3>1. SUFFICES ASSUME ahead = 0 PROVE y = <<>>
      OBVIOUS
    <3>2. Len(y) = 0
      BY <1>1, <1>2, <1>5, <3>1
    <3> QED BY <1>5, <3>2, EmptySeq
  <2>2. ASSUME NEW k \in 1..ahead
        PROVE  t.lines[Place(t, k)] = IF k <= 0 THEN <<>> ELSE d[0 + k]
    <3>1. Place(t, k) = k
      <4>1. Place(t, k) = IF ahead + 1 + k <= ahead + 1 THEN ahead + 1 + k
                          ELSE ahead + 1 + k - (ahead + 1)
        BY <1>7, <1>11 DEF Place
      <4> QED BY <1>2, <4>1
    <3>2. ~(k <= 0) /\ 0 + k = k
      BY <1>2
    <3> QED BY <1>7, <1>11, <3>1, <3>2
  <2>3. y = SubSeq(d, 0 + ahead + 1, n)
    BY <1>2, <1>3
  <2>4. SubSeq(d, 1, 0 + 0) = <<>>
    OBVIOUS
  <2> QED BY <1>1, <1>7, <1>11, <1>12, <1>13, <2>1, <2>2, <2>3, <2>4 DEF Carries
<1>15. ahead > 0 => t.lines[1] = d[1]
  BY <1>2, <1>7, <1>11
<1> QED BY <1>1, <1>7, <1>8, <1>10, <1>11, <1>12, <1>13, <1>14, <1>15

\* A line to which the tokenizer has not come, and in which nothing is replaced.
LEMMA FreshLine ==
  ASSUME NEW line \in Seq(Char)
  PROVE  /\ 1 <= Len(line) + 1 /\ Settled(line, {}, 1)
         /\ Len(PatchedTo(line, {})[1 - 1]) = 1 + 0 - 1 + 0
<1>1. Len(line) \in Nat
  OBVIOUS
<1>2. PatchedTo(line, {})[1 - 1] = <<>>
  BY NoEdits
<1> QED BY <1>1, <1>2 DEF Settled

\* The constructor and the beginning of check() establish the invariant.
LEMMA InitInv == Init => Inv
<1> SUFFICES ASSUME Init PROVE Inv
  OBVIOUS
<1>1. doc \in Seq(Words) /\ doc \in Documents /\ edits = {}
  BY TextAssumption DEF Init, Words
<1>2. PICK d \in Seq(Words), n \in Nat : d = doc /\ n = Len(d)
  BY <1>1
<1>3. PICK ahead \in Nat : ahead = IF n < NumLines THEN n ELSE NumLines
  BY SizeAssumption
<1>4. ahead \in 0..Len(d) /\ (ahead = 0 => n = 0)
  BY <1>2, <1>3, SizeAssumption
<1>5. PICK t : t = FilledRing(d, ahead)
  OBVIOUS
<1>6. text = t /\ copy = t.lines[1]
  BY <1>2, <1>3, <1>5 DEF Init, FilledRing
<1>7. /\ t \in Text /\ Len(t.lines) = ahead + 1 /\ Carries(t, 0, d)
      /\ GoneIn(t, n) = 0 /\ Capacity(t) = ahead
      /\ ahead > 0 => t.lines[1] = d[1]
  BY <1>2, <1>4, <1>5, Filling
<1>8. t.end = ahead + 1 /\ t.out = <<>> /\ t.torn = FALSE
  BY <1>5 DEF FilledRing
<1>9. /\ phase = "next" /\ replaceList = <<>> /\ changed = FALSE /\ backup \in BOOLEAN
      /\ learnt = {} /\ cur = 1 /\ pos = 1 /\ tok = [offset |-> 1, len |-> 0] /\ diff = 0
      /\ begin = 1 /\ size = 0 /\ hasRepl = FALSE
      /\ file = "original" /\ new = "written" /\ bak = "other" /\ failed = FALSE
  BY DEF Init
<1>10. TypeOK
  <2>1. text \in Text /\ text.end \in 1..Len(text.lines) /\ cur \in 1..Len(text.lines)
    BY <1>6, <1>7, <1>8, <1>9
  <2>2. copy \in Seq(Char)
    <3>1. t.lines \in Seq(Seq(Char)) /\ 1 \in 1..Len(t.lines)
      BY <1>7 DEF Text
    <3> QED BY <1>6, <3>1
  <2>3. \A w \in DOMAIN replaceList : replaceList[w] \in Words
    BY <1>9
  <2>4. tok \in [offset : Nat \ {0}, len : Nat]
    BY <1>9
  <2>5. phase \in LoopPhases
    BY <1>9 DEF LoopPhases
  <2>6. {file, new, bak} \subseteq {"original", "written", "other", "none"}
    BY <1>9
  <2>7. pos \in Nat \ {0} /\ diff \in Int /\ begin \in Nat \ {0} /\ size \in Nat
    BY <1>9
  <2>9. hasRepl \in BOOLEAN /\ changed \in BOOLEAN /\ failed \in BOOLEAN
    BY <1>9, Zenon
  <2>8. edits \subseteq Edit /\ learnt \subseteq Seq(Char)
    BY <1>1, <1>9
  <2> QED BY <1>1, <1>9, <2>1, <2>2, <2>3, <2>4, <2>5, <2>6, <2>7, <2>8, <2>9 DEF TypeOK
<1>11. \A k : EditsOf(k) = {}
  BY <1>1 DEF EditsOf
<1>12. Corrected = doc
  <2>1. Corrected \in Seq(Words) /\ Len(Corrected) = Len(doc)
    BY <1>10, CorrectedType
  <2>2. ASSUME NEW k \in 1..Len(doc) PROVE Corrected[k] = doc[k]
    <3>1. Corrected[k] = PatchedTo(doc[k], {})[Len(doc[k])]
      BY <1>10, <1>11, CorrectedType DEF CorrectedLine
    <3>2. doc[k] \in Seq(Char)
      BY <1>1 DEF Words
    <3> QED BY <3>1, <3>2, NoEdits
  <2> QED BY <1>1, <2>1, <2>2, SeqEqual
<1>13. RingInv
  <2>1. Carries(text, 0, Corrected)
    BY <1>2, <1>6, <1>7, <1>12
  <2>2. 0 \in 0..Capacity(text)
    BY <1>6, <1>7
  <2>3. phase # "drain"
    BY <1>9
  <2> QED BY <2>1, <2>2, <2>3 DEF RingInv
<1>14. SavedInv
  BY <1>6, <1>8, <1>9 DEF SavedInv, SavePhases
<1>15. LineInv
  <2>1. SUFFICES ASSUME Working
        PROVE  /\ copy = doc[LineNo]
               /\ \A e \in edits : e.line <= LineNo
               /\ pos <= Len(copy) + 1
               /\ Settled(copy, EditsOf(LineNo), pos)
               /\ Len(PatchedTo(copy, EditsOf(LineNo))[pos - 1]) = pos + diff - 1 + Grown
    BY <1>9 DEF LineInv
  <2>2. ahead > 0
    BY <1>6, <1>8, <1>9, <2>1 DEF Working
  <2>3. LineNo = 1
    <3>1. LineNo = NumberOf(t, 1, n)
      BY <1>2, <1>6, <1>9, LineNoIs
    <3>2. NumberOf(t, 1, n) = GoneIn(t, n) + AgeIn(t, 1)
      BY <1>7, <1>8, NumberIs
    <3>3. AgeIn(t, 1) = 1
      <4>1. AgeIn(t, 1) = IF 1 > ahead + 1 THEN 1 - (ahead + 1) ELSE 1 - (ahead + 1) + (ahead + 1)
        BY <1>7, <1>8 DEF AgeIn
      <4> QED BY <4>1
    <3> QED BY <1>7, <3>1, <3>2, <3>3
  <2>4. copy = doc[LineNo] /\ copy \in Seq(Char)
    BY <1>2, <1>6, <1>7, <1>10, <2>2, <2>3 DEF TypeOK
  <2>5. Grown = 0
    BY <1>9 DEF Grown
  <2> QED BY <1>1, <1>9, <1>11, <2>4, <2>5, FreshLine
<1>16. WordInv
  BY <1>9 DEF WordInv, AtWord
<1>17. DiskInv
  BY <1>9 DEF DiskInv
<1> QED BY <1>10, <1>13, <1>14, <1>15, <1>16, <1>17 DEF Inv

-----------------------------------------------------------------------------
(* next_misspelling                                                        *)

\* After a replacement diff absorbs what the line has grown.
LEMMA AfterReplacementStep ==
  ASSUME Inv, AfterReplacement
  PROVE  Inv'
<1>1. TypeOK /\ RingInv /\ SavedInv /\ LineInv /\ WordInv /\ DiskInv
  BY DEF Inv
<1>2. /\ text' = text /\ cur' = cur /\ copy' = copy /\ pos' = pos
      /\ begin' = begin /\ size' = size /\ replaceList' = replaceList
      /\ changed' = changed /\ backup' = backup /\ learnt' = learnt
      /\ file' = file /\ new' = new /\ bak' = bak /\ failed' = failed
      /\ doc' = doc /\ edits' = edits
  BY DEF AfterReplacement, loopVars, diskVars
<1>3. /\ phase = "next" /\ hasRepl /\ ~hasRepl'
      /\ diff' = diff + size - tok.len
      /\ tok' = [tok EXCEPT !.len = size]
      /\ phase' \in {"scan", "found"}
  BY DEF AfterReplacement
<1>4. tok'.offset = tok.offset /\ tok'.len = size /\ tok' \in [offset : Nat \ {0}, len : Nat]
  BY <1>1, <1>3 DEF TypeOK
<1>5. diff' \in Int
  BY <1>1, <1>3 DEF TypeOK
<1>6. phase \in LoopPhases /\ phase' \in LoopPhases
  BY <1>3 DEF LoopPhases
<1>7. TypeOK'
  <2>1. hasRepl' \in BOOLEAN
    BY DEF AfterReplacement
  <2> QED BY <1>1, <1>2, <1>4, <1>5, <1>6, <2>1 DEF TypeOK
<1>8. RingInv'
  <2>1. phase' # "drain"
    BY <1>3
  <2> QED BY <1>1, <1>2, <1>6, <2>1, RingKept
<1>9. SavedInv'
  <2>1. phase' \notin SavePhases
    BY <1>3 DEF SavePhases
  <2> QED BY <1>1, <1>2, <2>1, SavedKept
<1>10. LineNo' = LineNo /\ EditsOf(LineNo)' = EditsOf(LineNo)
  BY <1>2, LineKept
<1>11. Working /\ AtWord /\ cur # text.end
  BY <1>1, <1>3, <1>6 DEF LineInv, Working, AtWord
<1>12. LineInv'
  <2>1. /\ copy = doc[LineNo]
        /\ \A e \in edits : e.line <= LineNo
        /\ pos <= Len(copy) + 1
        /\ Settled(copy, EditsOf(LineNo), pos)
        /\ Len(PatchedTo(copy, EditsOf(LineNo))[pos - 1]) = pos + diff - 1 + Grown
    BY <1>1, <1>11 DEF LineInv
  <2>2. Grown = size - tok.len /\ Grown' = 0
    BY <1>3 DEF Grown
  <2>3. pos + diff - 1 + Grown = pos + diff' - 1 + Grown'
    <3>1. PICK l \in Int : l = tok.len
      BY <1>1 DEF TypeOK
    <3> QED BY <1>1, <1>3, <2>2, <3>1 DEF TypeOK
  <2> QED BY <1>2, <1>3, <1>10, <1>11, <2>1, <2>3 DEF LineInv
<1>13. WordInv'
  BY <1>1, <1>2, <1>4, <1>10, <1>11 DEF WordInv
<1>14. DiskInv'
  BY <1>1, <1>2, <1>3 DEF DiskInv, LoopPhases
<1> QED BY <1>7, <1>8, <1>9, <1>12, <1>13, <1>14 DEF Inv

\* The next word in the line lies behind every replacement, and diff says how far
\* it has moved.
LEMMA NextWord ==
  ASSUME Inv, phase = "scan", TokenStarts # {}
  PROVE  LET w == Token.offset
             made == EditsOf(LineNo)
         IN  /\ Working /\ w \in Nat \ {0} /\ Token.len \in Nat \ {0}
             /\ Starts(copy, w) /\ Before(copy, made, w)
             /\ w + Token.len = EndsAt(copy, w) /\ w + Token.len <= Len(copy) + 1
             /\ Settled(copy, made, w + Token.len)
             /\ Len(PatchedTo(copy, made)[w + Token.len - 1]) = w + Token.len + diff - 1
             /\ Len(PatchedTo(copy, made)[w - 1]) = w + diff - 1
             /\ w + diff \in Nat \ {0}
             /\ Len(InPlaceOf(copy, made, w)) = Token.len
<1>1. TypeOK /\ LineInv
  BY DEF Inv
<1>2. Working /\ ~hasRepl
  BY <1>1 DEF LineInv, Working, LoopPhases
<1>3. /\ copy \in Words /\ EditsOf(LineNo) \subseteq Edit /\ pos \in 1..(Len(copy) + 1)
      /\ Settled(copy, EditsOf(LineNo), pos)
      /\ Len(PatchedTo(copy, EditsOf(LineNo))[pos - 1]) = pos + diff - 1
  <2>1. Len(PatchedTo(copy, EditsOf(LineNo))[pos - 1]) = pos + diff - 1 + Grown
    BY <1>1, <1>2 DEF LineInv
  <2>2. Grown = 0
    BY <1>2 DEF Grown
  <2>3. pos + diff - 1 + 0 = pos + diff - 1
    BY <1>1 DEF TypeOK
  <2> QED BY <1>2, <2>1, <2>2, <2>3, TheLine
<1>4. PICK line \in Words, made \in SUBSET Edit, n \in Nat, p \in Nat, df \in Int :
        /\ line = copy /\ made = EditsOf(LineNo) /\ n = Len(line) /\ p = pos /\ df = diff
  <2>1. Len(copy) \in Nat /\ pos \in Nat /\ diff \in Int
    BY <1>1, <1>3 DEF TypeOK, Words
  <2> QED BY <1>3, <2>1
<1>5. /\ line \in Seq(Char) /\ p \in 1..(n + 1) /\ Settled(line, made, p)
      /\ Len(PatchedTo(line, made)[p - 1]) = p + df - 1
  BY <1>3, <1>4 DEF Words
<1>6. PICK w : w = Least(TokenStarts)
  OBVIOUS
<1>7. w \in p..n /\ Starts(line, w)
  <2>1. TokenStarts \subseteq Nat
    BY <1>4 DEF TokenStarts
  <2>2. w \in TokenStarts
    BY <1>6, <2>1, LeastOf
  <2> QED BY <1>4, <2>2 DEF TokenStarts
<1>8. Token = TokenAt(line, w)
  BY <1>4, <1>6 DEF Token
<1>9. PICK len \in Nat \ {0} : len = TokenAt(line, w).len
  BY <1>5, <1>7, TokenLies
<1>10. /\ Token.offset = w /\ Token.len = len /\ w \in Nat \ {0}
       /\ EndsAt(line, w) = w + len /\ w + len \in (w + 1)..(n + 1)
  <2>1. TokenAt(line, w).offset = w /\ EndsAt(line, w) \in (w + 1)..(n + 1)
    BY <1>4, <1>5, <1>7, TokenLies
  <2>2. EndsAt(line, w) = w + len
    BY <1>9 DEF EndsAt
  <2> QED BY <1>5, <1>7, <1>8, <1>9, <2>1, <2>2
<1>11. ASSUME NEW e \in made PROVE e.word # w /\ Starts(line, e.word) /\ EndsAt(line, e.word) <= w
  <2>1. Starts(line, e.word) /\ EndsAt(line, e.word) <= p
    BY <1>5 DEF Settled
  <2>2. EndsAt(line, e.word) \in (e.word + 1)..(n + 1) /\ e.word \in 1..n
    BY <1>4, <1>5, <2>1, TokenLies
  <2>3. EndsAt(line, e.word) <= w /\ e.word < w
    BY <1>5, <1>7, <1>10, <2>1, <2>2
  <2>4. e.word # w
    BY <1>10, <2>2, <2>3
  <2> QED BY <2>1, <2>3, <2>4
<1>12. Before(line, made, w)
  BY <1>11 DEF Before, Settled
<1>13. Settled(line, made, w + len)
  BY <1>5, <1>7, <1>10, <1>12, AtTheWord
<1>14. Len(PatchedTo(line, made)[w - 1]) = w + df - 1
  <2>1. /\ p \in 1..(Len(line) + 1) /\ w \in p..(Len(line) + 1)
    BY <1>4, <1>5, <1>7
  <2>2. Len(PatchedTo(line, made)[w - 1]) = Len(PatchedTo(line, made)[p - 1]) + (w - p)
    BY ZenonT(30), <1>5, <2>1, PlainAfter
  <2> QED BY <1>5, <1>10, <2>2
<1>15. PICK q \in Nat : q = w + len
  BY <1>10
<1>16. Len(PatchedTo(line, made)[q - 1]) = q + df - 1
  <2>1. /\ p \in 1..(Len(line) + 1) /\ q \in p..(Len(line) + 1)
    BY <1>4, <1>5, <1>7, <1>9, <1>10, <1>15
  <2>2. Len(PatchedTo(line, made)[q - 1]) = Len(PatchedTo(line, made)[p - 1]) + (q - p)
    BY ZenonT(30), <1>5, <2>1, PlainAfter
  <2> QED BY <1>5, <1>15, <2>2
<1>17. w + df \in Nat \ {0}
  <2>1. Patches(PatchedTo(line, made), line, made)
    BY <1>5, Patched
  <2>2. w - 1 \in 0..Len(line)
    BY <1>4, <1>5, <1>7
  <2>3. PatchedTo(line, made)[w - 1] \in Seq(Char)
    BY <2>1, <2>2 DEF Patches
  <2>4. Len(PatchedTo(line, made)[w - 1]) \in Nat
    BY <2>3
  <2> QED BY <1>10, <1>14, <2>4
<1>18. Len(InPlaceOf(line, made, w)) = len
  <2>1. EditsAt(made, w) = {}
    BY <1>11 DEF EditsAt
  <2>2. InPlaceOf(line, made, w) = SubSeq(line, w, q - 1)
    BY <1>10, <1>15, <2>1 DEF InPlaceOf
  <2>3. \A k \in w..(q - 1) : line[k] \in Char
    BY <1>4, <1>5, <1>7, <1>10, <1>15
  <2>4. Len(SubSeq(line, w, q - 1)) = IF w <= q - 1 THEN (q - 1) - w + 1 ELSE 0
    BY <1>10, <1>15, <2>3, SubSeqProperties
  <2>5. Len(SubSeq(line, w, q - 1)) = len
    BY <1>9, <1>10, <1>15, <2>4
  <2> QED BY <2>2, <2>5
<1>19. /\ Len(PatchedTo(line, made)[w + len - 1]) = w + len + df - 1
       /\ w + len <= Len(line) + 1
  BY <1>4, <1>10, <1>15, <1>16
<1> QED BY <1>2, <1>4, <1>7, <1>9, <1>10, <1>12, <1>13, <1>14, <1>17, <1>18, <1>19

\* Steps within a line leave the ring and the files alone.
LEMMA WithinLine ==
  ASSUME Inv, UNCHANGED <<text, cur, doc, edits, diskVars>>,
         phase \in LoopPhases, phase' \in LoopPhases
  PROVE  /\ RingInv' /\ SavedInv' /\ DiskInv'
         /\ LineNo' = LineNo /\ EditsOf(LineNo)' = EditsOf(LineNo)
<1>1. RingInv /\ SavedInv /\ DiskInv
  BY DEF Inv
<1>2. file' = file /\ new' = new /\ bak' = bak /\ failed' = failed
  BY DEF diskVars
<1>3. phase' # "drain" /\ phase' \notin SavePhases
  BY DEF LoopPhases, SavePhases
<1>4. RingInv'
  BY <1>1, <1>3, RingKept
<1>5. SavedInv'
  BY <1>1, <1>2, <1>3, SavedKept
<1>6. DiskInv'
  BY <1>1, <1>2 DEF DiskInv, LoopPhases
<1> QED BY <1>4, <1>5, <1>6, LineKept

\* A word that is right is passed over.
LEMMA PassWordStep ==
  ASSUME Inv, PassWord
  PROVE  Inv'
<1>1. TypeOK /\ LineInv
  BY DEF Inv
<1>2. /\ text' = text /\ cur' = cur /\ copy' = copy /\ tok' = tok /\ diff' = diff
      /\ begin' = begin /\ size' = size /\ hasRepl' = hasRepl /\ replaceList' = replaceList
      /\ changed' = changed /\ backup' = backup /\ learnt' = learnt
      /\ diskVars' = diskVars /\ doc' = doc /\ edits' = edits
      /\ phase = "scan" /\ phase' = "scan"
      /\ pos' = Token.offset + Token.len /\ TokenStarts # {}
  BY DEF PassWord, loopVars
<1>3. file' = file /\ new' = new /\ bak' = bak /\ failed' = failed
  BY <1>2 DEF diskVars
<1>4. PICK w \in Nat \ {0}, len \in Nat \ {0}, made \in SUBSET Edit :
        w = Token.offset /\ len = Token.len /\ made = EditsOf(LineNo)
  <2>1. EditsOf(LineNo) \subseteq Edit
    BY <1>1, CorrectedType
  <2> QED BY <1>2, <2>1, NextWord
<1>5. /\ Working /\ Settled(copy, made, w + len) /\ w + len <= Len(copy) + 1
      /\ Len(PatchedTo(copy, made)[w + len - 1]) = w + len + diff - 1
  BY <1>2, <1>4, NextWord
<1>6. pos' = w + len /\ w + len \in Nat \ {0}
  BY <1>2, <1>4
<1>7. TypeOK'
  BY <1>1, <1>2, <1>3, <1>6 DEF TypeOK
<1>8. /\ RingInv' /\ SavedInv' /\ DiskInv'
      /\ LineNo' = LineNo /\ EditsOf(LineNo)' = EditsOf(LineNo)
  BY <1>2, WithinLine DEF LoopPhases
<1>9. LineInv'
  <2>1. ~hasRepl
    BY <1>1, <1>2 DEF LineInv
  <2>2. Grown' = 0
    BY <1>2, <2>1 DEF Grown
  <2>3. copy = doc[LineNo] /\ \A e \in edits : e.line <= LineNo
    BY <1>1, <1>5 DEF LineInv
  <2>4. Len(PatchedTo(copy', made)[pos' - 1]) = pos' + diff' - 1 + Grown'
    <3>1. w + len + diff - 1 = w + len + diff - 1 + 0
      BY <1>1 DEF TypeOK
    <3> QED BY <1>2, <1>5, <1>6, <2>2, <3>1
  <2>5. EditsOf(LineNo)' = made
    BY <1>4, <1>8
  <2>6. cur' # text'.end
    BY <1>2, <1>5 DEF Working
  <2>7. Settled(copy', EditsOf(LineNo)', pos') /\ pos' <= Len(copy') + 1
    BY <1>2, <1>5, <1>6, <2>5
  <2>8. Len(PatchedTo(copy', EditsOf(LineNo)')[pos' - 1]) = pos' + diff' - 1 + Grown'
    BY <2>4, <2>5
  <2> QED BY <1>2, <1>8, <2>1, <2>3, <2>6, <2>7, <2>8 DEF LineInv
<1>10. WordInv'
  BY <1>2 DEF WordInv, AtWord
<1> QED BY <1>7, <1>8, <1>9, <1>10 DEF Inv

\* A wrong one is found, and is where diff says.
LEMMA FindWordStep ==
  ASSUME Inv, FindWord
  PROVE  Inv'
<1>1. TypeOK /\ LineInv
  BY DEF Inv
<1>2. /\ text' = text /\ cur' = cur /\ copy' = copy /\ diff' = diff
      /\ hasRepl' = hasRepl /\ replaceList' = replaceList
      /\ changed' = changed /\ backup' = backup /\ learnt' = learnt
      /\ diskVars' = diskVars /\ doc' = doc /\ edits' = edits
      /\ phase = "scan" /\ phase' = "found"
      /\ pos' = Token.offset + Token.len /\ TokenStarts # {}
      /\ tok' = [offset |-> Token.offset, len |-> Token.len]
      /\ begin' = Token.offset + diff /\ size' = Token.len
  BY DEF FindWord, loopVars
<1>3. file' = file /\ new' = new /\ bak' = bak /\ failed' = failed
  BY <1>2 DEF diskVars
<1>4. PICK w \in Nat \ {0}, len \in Nat \ {0}, made \in SUBSET Edit :
        w = Token.offset /\ len = Token.len /\ made = EditsOf(LineNo)
  <2>1. EditsOf(LineNo) \subseteq Edit
    BY <1>1, CorrectedType
  <2> QED BY <1>2, <2>1, NextWord
<1>5. /\ Working /\ Settled(copy, made, w + len) /\ w + len <= Len(copy) + 1
      /\ Len(PatchedTo(copy, made)[w + len - 1]) = w + len + diff - 1
      /\ Starts(copy, w) /\ Before(copy, made, w) /\ w + len = EndsAt(copy, w)
      /\ Len(PatchedTo(copy, made)[w - 1]) = w + diff - 1
      /\ Len(InPlaceOf(copy, made, w)) = len
      /\ w + diff \in Nat \ {0}
  BY <1>2, <1>4, NextWord
<1>6. pos' = w + len /\ w + len \in Nat \ {0}
  BY <1>2, <1>4
<1>7. tok' = [offset |-> w, len |-> len] /\ begin' = w + diff /\ size' = len
  BY <1>2, <1>4
<1>8. TypeOK'
  <2>1. tok' \in [offset : Nat \ {0}, len : Nat]
    BY <1>7
  <2>2. phase' \in LoopPhases
    BY <1>2 DEF LoopPhases
  <2> QED BY <1>1, <1>2, <1>3, <1>5, <1>6, <1>7, <2>1, <2>2 DEF TypeOK
<1>9. /\ RingInv' /\ SavedInv' /\ DiskInv'
      /\ LineNo' = LineNo /\ EditsOf(LineNo)' = EditsOf(LineNo)
  BY <1>2, WithinLine DEF LoopPhases
<1>10. EditsOf(LineNo)' = made
  BY <1>4, <1>9
<1>11. cur' # text'.end
  BY <1>2, <1>5 DEF Working
<1>12. LineInv'
  <2>1. ~hasRepl
    BY <1>1, <1>2 DEF LineInv
  <2>2. Grown' = 0
    BY <1>2, <2>1 DEF Grown
  <2>3. copy = doc[LineNo] /\ \A e \in edits : e.line <= LineNo
    BY <1>1, <1>5 DEF LineInv
  <2>4. Len(PatchedTo(copy', made)[pos' - 1]) = pos' + diff' - 1 + Grown'
    <3>1. w + len + diff - 1 = w + len + diff - 1 + 0
      BY <1>1 DEF TypeOK
    <3> QED BY SMTT(20), <1>2, <1>5, <1>6, <2>2, <3>1
  <2>7. Settled(copy', EditsOf(LineNo)', pos') /\ pos' <= Len(copy') + 1
    BY <1>2, <1>5, <1>6, <1>10
  <2>8. Len(PatchedTo(copy', EditsOf(LineNo)')[pos' - 1]) = pos' + diff' - 1 + Grown'
    BY <1>10, <2>4
  <2> QED BY <1>2, <1>9, <1>11, <2>1, <2>3, <2>7, <2>8 DEF LineInv
<1>13. WordInv'
  <2>1. tok'.offset = w /\ tok'.len = len
    BY <1>7
  <2>2. begin' - 1 = w + diff - 1
    BY <1>1, <1>7 DEF TypeOK
  <2>3. /\ Starts(copy', tok'.offset) /\ pos' = EndsAt(copy', tok'.offset)
        /\ Before(copy', EditsOf(LineNo)', tok'.offset)
        /\ tok'.len = size'
    BY <1>2, <1>5, <1>6, <1>7, <1>10, <2>1
  <2>4. Len(PatchedTo(copy', EditsOf(LineNo)')[tok'.offset - 1]) = begin' - 1
    BY <1>2, <1>5, <1>10, <2>1, <2>2
  <2>5. Len(InPlaceOf(copy', EditsOf(LineNo)', tok'.offset)) = size'
    BY <1>2, <1>5, <1>7, <1>10, <2>1
  <2> QED BY <2>3, <2>4, <2>5 DEF WordInv
<1> QED BY <1>8, <1>9, <1>12, <1>13 DEF Inv

\* After the last word comes the next line, in which nothing is replaced yet.
LEMMA GoToNextLineStep ==
  ASSUME Inv, GoToNextLine
  PROVE  Inv'
<1>1. TypeOK /\ RingInv /\ SavedInv /\ LineInv /\ DiskInv
  BY DEF Inv
<1>2. /\ text' \in NextLine(text, cur, Inc(cur)) /\ cur' = Inc(cur) /\ diff' = 0
      /\ copy' = text'.lines[Inc(cur)] /\ pos' = 1 /\ tok' = tok
      /\ begin' = begin /\ size' = size /\ hasRepl' = hasRepl
      /\ replaceList' = replaceList
      /\ changed' = changed /\ backup' = backup /\ learnt' = learnt
      /\ file' = file /\ new' = new /\ bak' = bak /\ failed' = failed
      /\ doc' = doc /\ edits' = edits
      /\ phase = "scan" /\ phase' = IF cur' = text'.end THEN "exit" ELSE "scan"
  BY DEF GoToNextLine, loopVars, diskVars
<1>3. Working /\ ~hasRepl /\ phase \in LoopPhases
  BY <1>1, <1>2 DEF LineInv, Working, LoopPhases
<1>4. PICK t \in Text, i \in Nat, fix \in Seq(Words), ed \in SUBSET Edit :
        t = text /\ i = cur /\ fix = Corrected /\ ed = edits
  BY <1>1, CorrectedType DEF TypeOK
<1>5. PICK u, j : u = text' /\ j = cur'
  OBVIOUS
<1>6. /\ t.end \in 1..Len(t.lines) /\ i \in 1..Len(t.lines) /\ i # t.end
      /\ Carries(t, 0, fix) /\ 0 \in 0..Capacity(t) /\ Len(fix) = Len(doc)
  <2>1. t.end \in 1..Len(t.lines) /\ i \in 1..Len(t.lines) /\ i # t.end
    BY <1>1, <1>3, <1>4 DEF TypeOK, Working
  <2>2. Carries(t, 0, fix)
    BY <1>3, <1>4, TheLine
  <2>3. 0 \in 0..Capacity(t)
    BY <2>1, PlaceAge
  <2>4. Len(fix) = Len(doc)
    BY <1>1, <1>4, CorrectedType
  <2> QED BY <2>1, <2>2, <2>3, <2>4
<1>7. j = After(t, i) /\ u \in IF j = t.end /\ MayRead(t, j) THEN ReadNextLine(t) ELSE {t}
  BY <1>2, <1>4, <1>5 DEF NextLine, Inc
<1>8. /\ u \in Text /\ Len(u.lines) = Len(t.lines) /\ u.end \in 1..Len(u.lines)
      /\ j \in 1..Len(u.lines)
      /\ GoneIn(u, Len(fix)) + AgeIn(u, j) = GoneIn(t, Len(fix)) + AgeIn(t, i) + 1
      /\ Carries(u, 0, fix) /\ 0 \in 0..Capacity(u)
      /\ ~DiskFull => u.torn = t.torn
  BY <1>6, <1>7, Advancing
<1>9. Corrected' = fix
  BY <1>2, <1>4, SameText
<1>10. TypeOK'
  <2>1. copy' \in Seq(Char)
    <3>1. u.lines \in Seq(Seq(Char))
      BY <1>8 DEF Text
    <3> QED BY <1>2, <1>5, <1>8, <3>1
  <2>2. phase' \in LoopPhases \cup {"exit"}
    BY <1>2 DEF LoopPhases
  <2>3. pos' \in Nat \ {0} /\ diff' \in Int
    BY <1>2
  <2> QED BY <1>1, <1>2, <1>5, <1>8, <2>1, <2>2, <2>3 DEF TypeOK
<1>11. RingInv'
  <2>1. phase' # "drain"
    BY <1>2
  <2> QED BY <1>5, <1>8, <1>9, <2>1 DEF RingInv
<1>12. SavedInv'
  <2>1. phase' \notin SavePhases /\ file' = "original"
    BY <1>1, <1>2, <1>3 DEF SavePhases, DiskInv
  <2> QED BY <1>1, <1>4, <1>5, <1>8, <2>1 DEF SavedInv
<1>13. DiskInv'
  BY <1>1, <1>2 DEF DiskInv, LoopPhases
<1>14. LineInv'
  <2>1. SUFFICES ASSUME cur' # text'.end
        PROVE  /\ copy' = doc'[LineNo']
               /\ \A e \in edits' : e.line <= LineNo'
               /\ pos' <= Len(copy') + 1
               /\ Settled(copy', EditsOf(LineNo)', pos')
               /\ Len(PatchedTo(copy', EditsOf(LineNo)')[pos' - 1])
                    = pos' + diff' - 1 + Grown'
    BY <1>2, <1>3 DEF LineInv, Working, LoopPhases
  <2>2. PICK no \in Nat : no = LineNo /\ no = GoneIn(t, Len(fix)) + AgeIn(t, i)
    BY <1>3, <1>4, <1>6, TheLine
  <2>3. LineNo' = NumberOf(u, j, Len(doc'))
    BY <1>5 DEF LineNo, NumberOf
  <2>4. LineNo' = no + 1 /\ no + 1 = GoneIn(u, Len(fix)) + AgeIn(u, j)
    <3>1. Len(fix) \in Nat /\ Len(doc') = Len(fix)
      BY <1>2, <1>6
    <3> QED BY <1>8, <2>2, <2>3, <3>1, NumberIs
  <2>5. no + 1 \in 1..Len(fix) /\ u.lines[j] = fix[no + 1]
    BY <1>5, <1>8, <2>1, <2>4, InTheRing
  <2>6. \A e \in edits : e.line <= no
    BY <1>1, <1>3, <2>2 DEF LineInv
  <2>7. {e \in edits : e.line = no + 1} = {}
    <3>1. ASSUME NEW e \in ed PROVE e.line # no + 1
      <4>1. e.line \in Nat /\ e.line <= no
        BY <1>4, <2>6 DEF Edit
      <4> QED BY <4>1
    <3> QED BY <1>4, <3>1
  <2>8. EditsOf(LineNo)' = {}
    BY <1>2, <2>4, <2>7 DEF EditsOf
  <2>9. copy' = doc[no + 1] /\ doc[no + 1] \in Seq(Char)
    <3>1. /\ doc[no + 1] \in Seq(Char) /\ no + 1 \in 1..Len(doc)
          /\ Corrected[no + 1] = CorrectedLine(no + 1)
      BY <1>1, <1>6, <2>5, CorrectedType DEF Words
    <3>2. EditsOf(no + 1) = {}
      BY <2>7 DEF EditsOf
    <3>3. CorrectedLine(no + 1) = doc[no + 1]
      BY <3>1, <3>2, NoEdits DEF CorrectedLine
    <3> QED BY <1>2, <1>4, <1>5, <2>5, <3>1, <3>3
  <2>10. copy' = doc'[LineNo']
    BY <1>2, <2>4, <2>9
  <2>11. \A e \in edits' : e.line <= LineNo'
    <3>1. ASSUME NEW e \in ed PROVE e.line <= no + 1
      <4>1. e.line \in Nat /\ e.line <= no
        BY <1>4, <2>6 DEF Edit
      <4> QED BY <4>1
    <3> QED BY <1>2, <1>4, <2>4, <3>1
  <2>12. Grown' = 0
    BY <1>2, <1>3 DEF Grown
  <2>13. copy' \in Seq(Char)
    BY <2>9
  <2> QED BY <1>2, <2>8, <2>10, <2>11, <2>12, <2>13, FreshLine
<1>15. WordInv'
  BY <1>2, <1>3 DEF WordInv, AtWord
<1> QED BY <1>10, <1>11, <1>12, <1>13, <1>14, <1>15 DEF Inv

-----------------------------------------------------------------------------
(* What is done about a misspelling                                        *)

\* With made2 x stands in place of the word at w, and the parts of the line before and
\* behind it are those of the line with made.
IsReplaced(line, made, made2, w, x) ==
  /\ PatchedTo(line, made2)[EndsAt(line, w) - 1] = PatchedTo(line, made)[w - 1] \o x
  /\ Settled(line, made2, EndsAt(line, w))
  /\ PatchedTo(line, made2)[Len(line)]
       = (PatchedTo(line, made)[w - 1] \o x) \o SubSeq(line, EndsAt(line, w), Len(line))

\* So it is when the word is replaced.
LEMMA RedoneLine ==
  ASSUME NEW line \in Seq(Char), NEW made, made \subseteq Edit, NEW w,
         Starts(line, w), Before(line, made, w), NEW n \in Nat \ {0}, NEW x \in Words
  PROVE  IsReplaced(line, made, Redone(made, n, w, x), w, x)
<1>1. PICK made2 : made2 = Redone(made, n, w, x)
  OBVIOUS
<1>2. /\ made2 \subseteq Edit /\ Before(line, made2, w) /\ InPlaceOf(line, made2, w) = x
      /\ PatchedTo(line, made2)[w - 1] = PatchedTo(line, made)[w - 1]
  BY <1>1, Redoing
<1>3. PICK y : y = PatchedTo(line, made)[w - 1] \o x
  OBVIOUS
<1>4. PICK p : p = EndsAt(line, w)
  OBVIOUS
<1>5. PatchedTo(line, made2)[p - 1] = y /\ Settled(line, made2, p)
  BY <1>2, <1>3, <1>4, AtTheWord
<1>6. PICK m \in Nat : m = Len(line)
  OBVIOUS
<1>7. p \in 1..(m + 1)
  <2>1. w \in 1..Len(line) /\ p \in (w + 1)..(Len(line) + 1)
    BY <1>4, TokenLies
  <2> QED BY <1>6, <2>1
<1>8. PICK q \in Nat : q = m + 1
  OBVIOUS
<1>9. p \in 1..(Len(line) + 1) /\ q \in p..(Len(line) + 1) /\ q - 1 = m
  BY <1>6, <1>7, <1>8
<1>10. PatchedTo(line, made2)[q - 1]
         = PatchedTo(line, made2)[p - 1] \o SubSeq(line, p, q - 1)
  BY <1>2, <1>5, <1>9, PlainAfter
<1>11. PatchedTo(line, made2)[m] = y \o SubSeq(line, p, m)
  BY <1>5, <1>9, <1>10
<1> QED BY <1>1, <1>3, <1>4, <1>5, <1>6, <1>11 DEF IsReplaced

\* A replacement lands on its word.
LEMMA ReplaceStep ==
  ASSUME Inv, phase \in {"found", "prompt"}, NEW word \in Words, Replace(word),
         \A w \in DOMAIN replaceList' : replaceList'[w] \in Words, changed' \in BOOLEAN
  PROVE  Inv'
<1>1. TypeOK /\ SavedInv /\ LineInv /\ DiskInv
  BY DEF Inv
<1>2. /\ cur' = cur /\ copy' = copy /\ pos' = pos /\ tok' = tok /\ diff' = diff
      /\ begin' = begin /\ backup' = backup /\ learnt' = learnt
      /\ file' = file /\ new' = new /\ bak' = bak /\ failed' = failed
      /\ doc' = doc
      /\ size' = Len(word) /\ hasRepl' = TRUE /\ phase' = "next"
  BY DEF Replace, diskVars
<1>3. Working /\ ~hasRepl /\ phase \in LoopPhases
  BY <1>1, TheWord DEF LineInv, LoopPhases
<1>4. PICK t \in Text, i \in Nat, fix \in Seq(Words), ed \in SUBSET Edit, d \in Seq(Words) :
        t = text /\ i = cur /\ fix = Corrected /\ ed = edits /\ d = doc
  BY <1>1, CorrectedType DEF TypeOK
<1>5. PICK no \in Nat, n \in Nat : no = LineNo /\ n = Len(d)
  <2>1. LineNo \in 1..Len(doc) /\ Len(doc) \in Nat
    BY <1>3, <1>4, TheLine
  <2> QED BY <1>4, <2>1
<1>6. /\ no \in 1..n /\ no = GoneIn(t, n) + AgeIn(t, i) /\ Len(fix) = n
      /\ Carries(t, 0, fix) /\ t.end \in 1..Len(t.lines) /\ i \in 1..Len(t.lines)
      /\ i # t.end
  <2>1. /\ LineNo \in 1..Len(doc) /\ LineNo = GoneIn(text, Len(doc)) + AgeIn(text, cur)
        /\ Carries(text, 0, Corrected)
    BY <1>3, TheLine
  <2>2. Len(fix) = n
    BY <1>1, <1>4, <1>5, CorrectedType
  <2>3. t.end \in 1..Len(t.lines) /\ i \in 1..Len(t.lines) /\ i # t.end
    BY <1>1, <1>3, <1>4 DEF TypeOK, Working
  <2> QED BY <1>4, <1>5, <2>1, <2>2, <2>3
<1>7. PICK line, made, w :
        line = copy /\ made = EditsOf(LineNo) /\ w = tok.offset
  OBVIOUS
<1>8. line \in Words /\ made \subseteq Edit /\ w \in Nat \ {0}
  BY <1>1, <1>3, <1>7, TheLine DEF TypeOK
<1>9. line \in Seq(Char) /\ line = d[no]
  <2>1. line = d[no]
    BY <1>3, <1>4, <1>5, <1>7, TheLine
  <2> QED BY <1>8, <2>1 DEF Words
<1>10. PICK x, z : /\ x = PatchedTo(line, made)[w - 1]
                  /\ z = SubSeq(line, pos, Len(line))
  OBVIOUS
<1>11. /\ Starts(line, w) /\ Before(line, made, w) /\ pos = EndsAt(line, w)
       /\ tok.len = size /\ x \in Seq(Char) /\ Len(x) = begin - 1
       /\ SubSeq(Line, 1, begin - 1) = x
       /\ SubSeq(Line, begin + size, Len(Line)) = z
  BY <1>7, <1>10, TheWord
<1>12. PICK made2 : made2 = Redone(made, no, w, word)
  OBVIOUS
<1>13. /\ made2 \subseteq Edit /\ Before(line, made2, w) /\ InPlaceOf(line, made2, w) = word
       /\ PatchedTo(line, made2)[w - 1] = x
       /\ PatchedTo(line, made2)[pos - 1] = x \o word
       /\ Settled(line, made2, pos)
       /\ PatchedTo(line, made2)[Len(line)] = (x \o word) \o z
  <2>1. no \in Nat \ {0}
    BY <1>6
  <2>2. /\ made \subseteq Edit /\ Starts(line, w) /\ Before(line, made, w)
        /\ line \in Seq(Char)
    BY <1>9, <1>11, <1>8
  <2>3. /\ made2 \subseteq Edit /\ Before(line, made2, w)
        /\ InPlaceOf(line, made2, w) = word
        /\ PatchedTo(line, made2)[w - 1] = PatchedTo(line, made)[w - 1]
    BY <1>12, <2>1, <2>2, Redoing
  <2>4. IsReplaced(line, made, Redone(made, no, w, word), w, word)
    BY <2>1, <2>2, RedoneLine
  <2>5. IsReplaced(line, made, made2, w, word)
    BY <1>12, <2>4
  <2> QED BY <1>10, <1>11, <2>3, <2>5 DEF IsReplaced
<1>14. PICK ed2 : ed2 = {e \in ed : e.line # no \/ e.word # w}
                          \cup {[line |-> no, word |-> w, by |-> word]}
  OBVIOUS
<1>15. edits' = ed2
  BY <1>4, <1>5, <1>7, <1>14 DEF Replace
<1>16. made = {e \in ed : e.line = no}
  BY <1>4, <1>5, <1>7 DEF EditsOf
<1>17. {e \in ed2 : e.line = no} = made2
  BY <1>12, <1>14, <1>16 DEF Redone
<1>18. \A k : k # no => {e \in ed2 : e.line = k} = {e \in ed : e.line = k}
  BY <1>14
<1>19. ed2 \subseteq Edit
  <2>1. [line |-> no, word |-> w, by |-> word] \in Edit
    BY <1>6, <1>8 DEF Edit, Words
  <2> QED BY <1>14, <2>1
<1>20. PICK fix2 : fix2 = Fixed(d, ed2)
  OBVIOUS
<1>21. /\ fix2 \in Seq(Words) /\ Len(fix2) = n
       /\ \A k \in 1..n : k # no => fix2[k] = fix[k]
       /\ fix2[no] = (x \o word) \o z
  <2>1. /\ fix2 \in Seq(Words) /\ Len(fix2) = Len(d)
        /\ \A k \in 1..Len(d) :
             fix2[k] = PatchedTo(d[k], {e \in ed2 : e.line = k})[Len(d[k])]
    BY <1>19, <1>20, FixedType
  <2>2. fix = Fixed(d, ed)
    BY <1>4, CorrectedIs
  <2>3. \A k \in 1..Len(d) : fix[k] = PatchedTo(d[k], {e \in ed : e.line = k})[Len(d[k])]
    BY <2>2, FixedType
  <2>4. fix2[no] = PatchedTo(line, made2)[Len(line)]
    BY <1>5, <1>6, <1>9, <1>17, <2>1
  <2>5. ASSUME NEW k \in 1..n, k # no PROVE fix2[k] = fix[k]
    <3>1. k \in 1..Len(d)
      BY <1>5
    <3>2. PICK e, e2 : e = {x_ \in ed : x_.line = k} /\ e2 = {x_ \in ed2 : x_.line = k}
      OBVIOUS
    <3>3. e = e2
      BY <1>18, <2>5, <3>2
    <3>4. fix[k] = PatchedTo(d[k], e)[Len(d[k])]
      BY <2>3, <3>1, <3>2
    <3>5. fix2[k] = PatchedTo(d[k], e2)[Len(d[k])]
      BY <2>1, <3>1, <3>2
    <3> QED BY <3>3, <3>4, <3>5
  <2>6. Len(fix2) = n
    BY <1>5, <2>1
  <2>7. fix2[no] = (x \o word) \o z
    BY <1>13, <2>4
  <2> QED BY <2>1, <2>5, <2>6, <2>7
<1>22. Corrected' = fix2
  BY <1>2, <1>4, <1>15, <1>20 DEF Corrected, CorrectedLine, EditsOf, Fixed
<1>23. PICK u : u = WithLine(t, i, fix2[no])
  OBVIOUS
<1>24. text' = u
  <2>1. t.lines[i] = Line
    BY <1>4 DEF Line
  <2>2. text' = [t EXCEPT !.lines[i] = (SubSeq(t.lines[i], 1, begin - 1) \o word)
                             \o SubSeq(t.lines[i], begin + size, Len(t.lines[i]))]
    BY <1>4 DEF Replace
  <2>3. (SubSeq(t.lines[i], 1, begin - 1) \o word)
           \o SubSeq(t.lines[i], begin + size, Len(t.lines[i])) = fix2[no]
    BY <1>11, <1>21, <2>1
  <2> QED BY <1>23, <2>2, <2>3 DEF WithLine
<1>25. /\ u \in Text /\ Len(u.lines) = Len(t.lines) /\ u.end = t.end
       /\ u.in = t.in /\ u.torn = t.torn /\ Carries(u, 0, fix2)
  <2>1. Len(fix2) = Len(fix) /\ no \in 1..Len(fix) /\ no = GoneIn(t, Len(fix)) + AgeIn(t, i)
    BY <1>6, <1>21
  <2>2. \A k \in 1..Len(fix) : k # no => fix2[k] = fix[k]
    BY <1>6, <1>21
  <2>3. fix2 \in Seq(Words)
    BY <1>21
  <2>4. /\ t.end \in 1..Len(t.lines) /\ i \in 1..Len(t.lines) /\ i # t.end
        /\ Carries(t, 0, fix)
    BY <1>6
  <2>5. LET v == WithLine(t, i, fix2[no])
        IN  /\ v \in Text /\ Len(v.lines) = Len(t.lines) /\ v.end = t.end
            /\ v.in = t.in /\ v.out = t.out /\ v.torn = t.torn
            /\ Carries(v, 0, fix2)
    BY <2>1, <2>2, <2>3, <2>4, Changing
  <2> QED BY <1>23, <2>5
<1>26. LineNo' = no
  <2>1. LineNo' = NumberOf(u, i, n)
    BY <1>2, <1>4, <1>5, <1>24 DEF LineNo, NumberOf
  <2>2. NumberOf(u, i, n) = NumberOf(t, i, n)
    BY <1>25 DEF NumberOf, Behind
  <2>3. NumberOf(t, i, n) = no
    BY <1>4, <1>5, LineNoIs
  <2> QED BY <2>1, <2>2, <2>3
<1>27. EditsOf(LineNo)' = made2
  BY <1>15, <1>17, <1>26 DEF EditsOf
<1>28. Len(word) \in Nat /\ word \in Seq(Char)
  BY DEF Words
<1>29. TypeOK'
  <2>1. text' \in Text /\ text'.end \in 1..Len(text'.lines) /\ cur' \in 1..Len(text'.lines)
    BY <1>2, <1>4, <1>6, <1>24, <1>25
  <2>2. phase' \in LoopPhases
    BY <1>2 DEF LoopPhases
  <2>3. hasRepl' \in BOOLEAN
    BY <1>2, Zenon
  <2> QED BY <1>1, <1>2, <1>15, <1>19, <1>28, <2>1, <2>2, <2>3 DEF TypeOK
<1>30. RingInv'
  <2>1. phase' # "drain"
    BY <1>2
  <2>2. 0 \in 0..Capacity(u)
    BY <1>6, <1>25, PlaceAge
  <2> QED BY <1>22, <1>24, <1>25, <2>1, <2>2 DEF RingInv
<1>31. SavedInv'
  <2>1. phase' \notin SavePhases /\ file' = "original"
    BY <1>1, <1>2, <1>3 DEF SavePhases, DiskInv
  <2> QED BY <1>1, <1>4, <1>24, <1>25, <2>1 DEF SavedInv
<1>32. DiskInv'
  BY <1>1, <1>2, <1>3 DEF DiskInv, LoopPhases
<1>33. cur' # text'.end /\ phase' \in LoopPhases
  BY <1>2, <1>4, <1>6, <1>24, <1>25 DEF LoopPhases
<1>34. LineInv'
  <2>1. /\ copy = doc[LineNo]
        /\ \A e \in edits : e.line <= LineNo
        /\ pos <= Len(copy) + 1
    BY <1>1, <1>3 DEF LineInv
  <2>2. copy' = doc'[LineNo'] /\ pos' <= Len(copy') + 1
    BY <1>2, <1>5, <1>26, <2>1
  <2>3. \A e \in edits' : e.line <= LineNo'
    <3>1. ASSUME NEW e \in ed2 PROVE e.line <= no
      <4>1. e \in ed \/ e.line = no
        BY <1>14
      <4>2. e \in ed => e.line <= no
        BY <1>4, <1>5, <2>1
      <4>3. no <= no
        OBVIOUS
      <4> QED BY <4>1, <4>2, <4>3
    <3> QED BY <1>15, <1>26, <3>1
  <2>4. Settled(copy', EditsOf(LineNo)', pos')
    BY <1>2, <1>7, <1>13, <1>27
  <2>5. Len(PatchedTo(line, made2)[pos - 1]) = pos + diff - 1 + (Len(word) - tok.len)
    <3>1. PICK y : y = InPlaceOf(line, made, w)
      OBVIOUS
    <3>2. PatchedTo(line, made)[pos - 1] = x \o y /\ y \in Seq(Char) /\ Len(y) = size
      <4>1. PatchedTo(line, made)[pos - 1] = x \o y /\ y \in Seq(Char)
        <5>1. made \subseteq Edit /\ Starts(line, w) /\ Before(line, made, w)
          BY <1>11, <1>8
        <5>2. PICK p : p = EndsAt(line, w)
          OBVIOUS
        <5>3. /\ PatchedTo(line, made)[p - 1]
                   = PatchedTo(line, made)[w - 1] \o InPlaceOf(line, made, w)
              /\ InPlaceOf(line, made, w) \in Seq(Char)
          BY <1>9, <5>1, <5>2, AtTheWord
        <5>4. p = pos
          BY <1>11, <5>2
        <5> QED BY <1>10, <3>1, <5>3, <5>4
      <4>2. AtWord
        BY DEF AtWord
      <4>3. Len(y) = size
        BY <1>3, <1>7, <3>1, <4>2 DEF Inv, WordInv
      <4> QED BY <4>1, <4>3
    <3>3. Len(PatchedTo(line, made)[pos - 1]) = pos + diff - 1 + Grown /\ Grown = 0
      BY <1>1, <1>3, <1>7 DEF LineInv, Grown
    <3>4. Len(x \o y) = Len(x) + Len(y) /\ Len(x \o word) = Len(x) + Len(word)
      BY <1>11, <1>28, <3>2, ConcatProperties
    <3>5. PICK lx \in Nat, lw \in Nat, sz \in Nat, p \in Nat, df \in Int :
            lx = Len(x) /\ lw = Len(word) /\ sz = size /\ p = pos /\ df = diff
      <4>1. Len(x) \in Nat
        BY <1>11
      <4>2. size \in Nat /\ pos \in Nat /\ diff \in Int
        BY <1>1 DEF TypeOK
      <4> QED BY <1>28, <4>1, <4>2
    <3>6. lx + sz = p + df - 1 + 0
      BY <3>2, <3>3, <3>4, <3>5
    <3>7. Len(PatchedTo(line, made2)[pos - 1]) = lx + lw
      BY <1>13, <3>4, <3>5
    <3>8. lx + lw = p + df - 1 + (lw - sz)
      BY <3>6
    <3> QED BY <1>11, <3>5, <3>7, <3>8
  <2>6. Grown' = Len(word) - tok.len
    BY <1>2 DEF Grown
  <2>7. Len(PatchedTo(copy', EditsOf(LineNo)')[pos' - 1]) = pos' + diff' - 1 + Grown'
    BY <1>2, <1>7, <1>27, <2>5, <2>6
  <2> QED BY <1>2, <1>33, <2>2, <2>3, <2>4, <2>7 DEF LineInv
<1>35. WordInv'
  <2>1. /\ Starts(copy', tok'.offset) /\ pos' = EndsAt(copy', tok'.offset)
        /\ Before(copy', EditsOf(LineNo)', tok'.offset)
    BY <1>2, <1>7, <1>11, <1>13, <1>27
  <2>2. Len(PatchedTo(copy', EditsOf(LineNo)')[tok'.offset - 1]) = begin' - 1
    BY <1>2, <1>7, <1>11, <1>13, <1>27
  <2>3. Len(InPlaceOf(copy', EditsOf(LineNo)', tok'.offset)) = size'
    BY <1>2, <1>7, <1>13, <1>27
  <2> QED BY <1>2, <2>1, <2>2, <2>3 DEF WordInv
<1> QED BY <1>29, <1>30, <1>31, <1>32, <1>34, <1>35 DEF Inv

\* The word is listed to be replaced.
LEMMA ReplaceListedStep ==
  ASSUME Inv, ReplaceListed
  PROVE  Inv'
<1>1. TypeOK
  BY DEF Inv
<1>2. /\ phase = "found" /\ RealWord \in DOMAIN replaceList /\ Replace(replaceList[RealWord])
      /\ replaceList' = replaceList /\ changed' = changed
  BY DEF ReplaceListed
<1>3. PICK word \in Words : word = replaceList[RealWord]
  BY <1>1, <1>2 DEF TypeOK
<1>4. \A w \in DOMAIN replaceList' : replaceList'[w] \in Words
  BY <1>1, <1>2 DEF TypeOK
<1>5. changed' \in BOOLEAN
  BY <1>1, <1>2 DEF TypeOK
<1>6. Replace(word)
  BY <1>2, <1>3
<1>7. phase \in {"found", "prompt"}
  BY <1>2
<1> QED BY <1>4, <1>5, <1>6, <1>7, ReplaceStep

\* Replace, and the choice of a suggestion.
LEMMA ReplaceOneStep ==
  ASSUME Inv, NEW word \in Words, ReplaceOne(word)
  PROVE  Inv'
<1>1. phase = "prompt" /\ Replace(word) /\ changed' \in BOOLEAN /\ replaceList' = replaceList
  BY DEF ReplaceOne
<1>2. \A w \in DOMAIN replaceList' : replaceList'[w] \in Words
  BY <1>1 DEF Inv, TypeOK
<1>3. phase \in {"found", "prompt"}
  BY <1>1
<1> QED BY <1>1, <1>2, <1>3, ReplaceStep

\* Replace all.
LEMMA ReplaceAndListStep ==
  ASSUME Inv, NEW word \in Words, ReplaceAndList(word)
  PROVE  Inv'
<1>1. phase = "prompt" /\ Replace(word) /\ changed' \in BOOLEAN
  BY DEF ReplaceAndList
<1>2. \A w \in DOMAIN replaceList' : replaceList'[w] \in Words
  BY DEF Inv, TypeOK, ReplaceAndList
<1>3. phase \in {"found", "prompt"}
  BY <1>1
<1> QED BY <1>1, <1>2, <1>3, ReplaceStep

\* The display reads lines, and what the loop holds on to stays.
LEMMA LookAheadStep ==
  ASSUME Inv, LookAhead
  PROVE  Inv'
<1>1. TypeOK /\ RingInv /\ SavedInv /\ LineInv /\ WordInv /\ DiskInv
  BY DEF Inv
<1>2. /\ phase = "prompt" /\ phase' = "prompt" /\ MayRead(text, cur)
      /\ text' \in ReadNextLine(text)
      /\ cur' = cur /\ copy' = copy /\ pos' = pos /\ tok' = tok /\ diff' = diff
      /\ begin' = begin /\ size' = size /\ hasRepl' = hasRepl
      /\ replaceList' = replaceList /\ changed' = changed /\ backup' = backup
      /\ learnt' = learnt /\ file' = file /\ new' = new /\ bak' = bak /\ failed' = failed
      /\ doc' = doc /\ edits' = edits
  BY DEF LookAhead, loopVars, wordVars, diskVars
<1>3. Working /\ phase \in LoopPhases
  BY <1>1, <1>2 DEF LineInv, Working, LoopPhases
<1>4. PICK t \in Text, i \in Nat, fix \in Seq(Words), n \in Nat :
        t = text /\ i = cur /\ fix = Corrected /\ n = Len(fix)
  <2>1. text \in Text /\ cur \in Nat /\ Corrected \in Seq(Words)
    BY <1>1, CorrectedType DEF TypeOK
  <2>2. Len(Corrected) \in Nat
    BY <2>1
  <2> QED BY <2>1, <2>2
<1>5. /\ t.end \in 1..Len(t.lines) /\ i \in 1..Len(t.lines) /\ i # t.end
      /\ Carries(t, 0, fix) /\ 0 \in 0..Capacity(t) /\ n = Len(doc)
      /\ t.in # <<>> /\ After(t, t.end) # i
  <2>1. t.end \in 1..Len(t.lines) /\ i \in 1..Len(t.lines) /\ i # t.end
    BY <1>1, <1>3, <1>4 DEF TypeOK, Working
  <2>2. Carries(t, 0, fix)
    BY <1>3, <1>4, TheLine
  <2>3. 0 \in 0..Capacity(t)
    BY <2>1, PlaceAge
  <2>4. n = Len(doc)
    BY <1>1, <1>4, CorrectedType
  <2>5. t.in # <<>> /\ After(t, t.end) # i
    BY <1>2, <1>4 DEF MayRead
  <2> QED BY <2>1, <2>2, <2>3, <2>4, <2>5
<1>6. PICK u : u = text'
  OBVIOUS
<1>7. /\ u \in Text /\ Len(u.lines) = Len(t.lines) /\ u.end \in 1..Len(u.lines)
      /\ u.end = Place(t, 1) /\ Len(u.in) = Len(t.in) - 1
      /\ Carries(u, 0, fix)
      /\ i # u.end => AgeIn(u, i) = AgeIn(t, i) - 1
      /\ ~DiskFull => u.torn = t.torn
  BY <1>2, <1>4, <1>5, <1>6, Reading
<1>8. i # u.end
  <2>1. After(t, t.end) = Place(t, 1)
    <3>1. Len(t.lines) \in 1..Len(t.lines)
      BY <1>5 DEF Text
    <3> QED BY <1>5, <3>1, PlaceAge
  <2> QED BY <1>5, <1>7, <2>1
<1>9. LineNo' = LineNo
  <2>1. LineNo' = NumberOf(u, i, n) /\ LineNo = NumberOf(t, i, n)
    BY <1>2, <1>4, <1>5, <1>6 DEF LineNo, NumberOf
  <2>2. NumberOf(u, i, n) = GoneIn(u, n) + AgeIn(u, i)
    BY <1>5, <1>7, NumberIs
  <2>3. NumberOf(t, i, n) = GoneIn(t, n) + AgeIn(t, i)
    BY <1>5, NumberIs
  <2>4. PICK l \in Nat, c \in Nat, a \in Nat : l = Len(t.in) /\ c = Capacity(t) /\ a = AgeIn(t, i)
    <3>1. Len(t.in) \in Nat
      BY DEF Text
    <3>2. Capacity(t) \in Nat /\ AgeIn(t, i) \in Nat
      BY <1>5, PlaceAge
    <3> QED BY <3>1, <3>2
  <2>5. Capacity(u) = c
    BY <1>7, <2>4 DEF Capacity
  <2>6. GoneIn(u, n) = n - (l - 1) - c /\ GoneIn(t, n) = n - l - c
    BY <1>7, <2>4, <2>5 DEF GoneIn
  <2>7. (n - (l - 1) - c) + (a - 1) = (n - l - c) + a
    OBVIOUS
  <2>8. AgeIn(u, i) = a - 1
    BY <1>7, <1>8, <2>4
  <2> QED BY <2>1, <2>2, <2>3, <2>4, <2>6, <2>7, <2>8
<1>10. EditsOf(LineNo)' = EditsOf(LineNo)
  BY <1>2, <1>9 DEF EditsOf
<1>11. Corrected' = fix
  BY <1>2, <1>4, SameText
<1>12. TypeOK'
  <2>1. text' \in Text /\ text'.end \in 1..Len(text'.lines) /\ cur' \in 1..Len(text'.lines)
    BY <1>2, <1>4, <1>5, <1>6, <1>7
  <2> QED BY <1>1, <1>2, <2>1 DEF TypeOK
<1>13. RingInv'
  <2>1. phase' # "drain"
    BY <1>2
  <2>2. 0 \in 0..Capacity(u)
    BY <1>5, <1>7 DEF Capacity
  <2> QED BY <1>6, <1>7, <1>11, <2>1, <2>2 DEF RingInv
<1>14. SavedInv'
  <2>1. phase' \notin SavePhases /\ file' = "original"
    BY <1>1, <1>2, <1>3 DEF SavePhases, DiskInv
  <2> QED BY <1>1, <1>4, <1>6, <1>7, <2>1 DEF SavedInv
<1>15. DiskInv'
  BY <1>1, <1>2 DEF DiskInv
<1>16. LineInv'
  <2>1. /\ copy = doc[LineNo]
        /\ \A e \in edits : e.line <= LineNo
        /\ pos <= Len(copy) + 1
        /\ Settled(copy, EditsOf(LineNo), pos)
        /\ Len(PatchedTo(copy, EditsOf(LineNo))[pos - 1]) = pos + diff - 1 + Grown
    BY <1>1, <1>3 DEF LineInv
  <2>2. Grown' = Grown
    BY <1>2 DEF Grown
  <2>3. cur' # text'.end /\ ~hasRepl
    BY <1>1, <1>2, <1>4, <1>6, <1>8 DEF LineInv
  <2> QED BY <1>2, <1>9, <1>10, <2>1, <2>2, <2>3 DEF LineInv
<1>17. WordInv'
  <2>1. AtWord
    BY <1>2 DEF AtWord
  <2> QED BY <1>1, <1>2, <1>3, <1>10, <2>1 DEF WordInv
<1> QED BY <1>12, <1>13, <1>14, <1>15, <1>16, <1>17 DEF Inv

-----------------------------------------------------------------------------
(* The end of check()                                                      *)

\* Out of the loop nothing is said of the line.
LEMMA OutOfTheLoop ==
  ASSUME LineInv, phase # "next", hasRepl' = hasRepl, phase' \notin LoopPhases
  PROVE  LineInv' /\ WordInv'
<1>1. ~hasRepl
  BY DEF LineInv
<1> QED BY <1>1 DEF LineInv, WordInv, Working

\* The types of what At leaves alone.
LEMMA AtType ==
  ASSUME TypeOK, NEW here, NEW next, At(here, next), next \in SavePhases \cup {"drain", "discard", "done"},
         text' \in Text, text'.end \in 1..Len(text'.lines), cur' \in 1..Len(text'.lines),
         {file', new', bak'} \subseteq {"original", "written", "other", "none"},
         failed' \in BOOLEAN
  PROVE  TypeOK'
BY DEF TypeOK, At, loopVars, wordVars

\* What is left to be done begins with the oldest line of the ring.
LEMMA SaveListsStep ==
  ASSUME Inv, SaveLists
  PROVE  Inv'
<1>1. TypeOK /\ RingInv /\ SavedInv /\ LineInv /\ DiskInv
  BY DEF Inv
<1>2. /\ At("exit", "drain") /\ cur' = After(text, text.end) /\ text' = text
      /\ file' = file /\ new' = new /\ bak' = bak /\ failed' = failed
  BY DEF SaveLists, FirstLine, diskVars
<1>3. /\ phase = "exit" /\ phase' = "drain" /\ hasRepl' = hasRepl
      /\ doc' = doc /\ edits' = edits /\ backup' = backup
  BY <1>2 DEF At, loopVars, wordVars
<1>4. PICK t, j, fix : t = text /\ j = cur' /\ fix = Corrected
  OBVIOUS
<1>5. t \in Text
  BY <1>1, <1>4 DEF TypeOK
<1>6. t.end \in 1..Len(t.lines) /\ Carries(t, 0, fix) /\ 0 \in 0..Capacity(t)
  BY <1>1, <1>3, <1>4 DEF TypeOK, RingInv
<1>7. PICK n \in Nat : n = Len(t.lines) /\ n # 0 /\ Capacity(t) = n - 1
  BY <1>6, <1>5 DEF Text, Capacity
<1>8. j \in 1..n /\ AgeIn(t, j) = 1 /\ (j = t.end => n = 1)
  <2>1. j = After(t, t.end)
    BY <1>2, <1>4
  <2>2. 1 \in 1..Len(t.lines) /\ n \in 1..Len(t.lines)
    BY <1>7
  <2>3. After(t, Place(t, n)) = Place(t, 1) /\ Place(t, n) = t.end
    BY <1>6, <1>7, <1>5, <2>2, PlaceAge
  <2>4. Place(t, 1) \in 1..Len(t.lines) /\ AgeIn(t, Place(t, 1)) = 1
    BY <1>6, <1>5, <2>2, PlaceAge
  <2>5. j \in 1..n /\ AgeIn(t, j) = 1
    BY <1>7, <2>1, <2>3, <2>4
  <2>6. j = t.end => AgeIn(t, j) = n
    BY <1>6, <1>7, <1>5, PlaceAge
  <2> QED BY <2>5, <2>6
<1>9. TypeOK'
  <2>1. text' \in Text /\ text'.end \in 1..Len(text'.lines) /\ cur' \in 1..Len(text'.lines)
    BY <1>2, <1>4, <1>6, <1>7, <1>8, <1>5
  <2>2. /\ {file', new', bak'} \subseteq {"original", "written", "other", "none"}
        /\ failed' \in BOOLEAN
    BY <1>1, <1>2 DEF TypeOK
  <2> QED BY <1>1, <1>2, <2>1, <2>2, AtType
<1>10. RingInv'
  <2>1. Corrected' = fix
    BY <1>3, <1>4, SameText
  <2>2. 0 = AgeIn(t, j) - 1
    BY <1>8
  <2>3. j = t.end => t.in = <<>>
    BY <1>6, <1>7, <1>8 DEF Carries
  <2>4. text' = t /\ cur' = j
    BY <1>2, <1>4
  <2> QED BY <1>6, <2>1, <2>2, <2>3, <2>4 DEF RingInv
<1>11. SavedInv'
  <2>1. phase' \notin SavePhases
    BY <1>3 DEF SavePhases
  <2> QED BY <1>1, <1>2, <1>3, <2>1, SavedKept
<1>12. LineInv' /\ WordInv'
  BY <1>1, <1>3, OutOfTheLoop DEF LoopPhases
<1>13. DiskInv'
  BY <1>1, <1>2, <1>3 DEF DiskInv, LoopPhases
<1> QED BY <1>9, <1>10, <1>11, <1>12, <1>13 DEF Inv

\* Its loop writes a line and goes on to the next, for which it may have to make room.
LEMMA DrainStep ==
  ASSUME Inv, Drain
  PROVE  Inv'
<1>1. TypeOK /\ RingInv /\ SavedInv /\ LineInv /\ DiskInv
  BY DEF Inv
<1>2. PICK s : /\ s \in Written([text EXCEPT !.lines[cur] = <<>>], Line)
               /\ text' \in NextLine(s, cur, Inc(cur))
  BY DEF Drain
<1>3. /\ phase = "drain" /\ phase' = "drain" /\ hasRepl' = hasRepl
      /\ doc' = doc /\ edits' = edits /\ backup' = backup /\ At("drain", "drain")
      /\ file' = file /\ new' = new /\ bak' = bak /\ failed' = failed
      /\ cur' = Inc(cur) /\ cur # text.end
  BY DEF Drain, At, loopVars, wordVars, diskVars
<1>4. PICK t \in Text, i \in Nat, fix \in Seq(Words) : t = text /\ i = cur /\ fix = Corrected
  BY <1>1, CorrectedType DEF TypeOK
<1>5. t.end \in 1..Len(t.lines) /\ i \in 1..Len(t.lines) /\ i # t.end
  BY <1>1, <1>3, <1>4 DEF TypeOK
<1>6. PICK d \in 0..Capacity(t) : Carries(t, d, fix) /\ d = AgeIn(t, i) - 1
  BY <1>1, <1>3, <1>4 DEF RingInv
<1>7. PICK c \in Nat, a \in Nat : c = Capacity(t) /\ a = AgeIn(t, i) /\ a \in 1..c
  <2>1. /\ Capacity(t) \in Nat /\ Len(t.lines) = Capacity(t) + 1
        /\ AgeIn(t, i) \in 1..Len(t.lines)
        /\ AgeIn(t, i) = Len(t.lines) => i = t.end
    BY <1>5, PlaceAge
  <2>2. AgeIn(t, i) \in 1..Capacity(t)
    BY <1>5, <2>1
  <2> QED BY <2>1, <2>2
<1>8. s \in Written(WithLine(t, i, <<>>), t.lines[i])
  BY <1>2, <1>4 DEF WithLine, Line
<1>9. /\ s \in Text /\ Len(s.lines) = Len(t.lines) /\ s.end = t.end /\ s.in = t.in
      /\ Carries(s, a, fix)
      /\ ~DiskFull => s.torn = t.torn
  <2>1. d # Capacity(t) /\ AgeIn(t, i) = d + 1 /\ d + 1 = a
    BY <1>6, <1>7
  <2>2. /\ s \in Text /\ Len(s.lines) = Len(t.lines) /\ s.end = t.end /\ s.in = t.in
        /\ Carries(s, d + 1, fix)
        /\ ~DiskFull => s.torn = t.torn
    <3>1. /\ t.end \in 1..Len(t.lines) /\ i \in 1..Len(t.lines) /\ Carries(t, d, fix)
          /\ d # Capacity(t) /\ AgeIn(t, i) = d + 1
      BY <1>5, <1>6, <2>1
    <3> QED BY <1>8, <3>1, Emptying
  <2> QED BY <2>1, <2>2
<1>10. AgeIn(s, i) = a /\ Capacity(s) = c
  BY <1>7, <1>9 DEF AgeIn, Capacity
<1>11. PICK u, j : u = text' /\ j = cur'
  OBVIOUS
<1>12. j = After(s, i) /\ u \in IF j = s.end /\ MayRead(s, j) THEN ReadNextLine(s) ELSE {s}
  <2>1. j = After(t, i)
    BY <1>3, <1>4, <1>11 DEF Inc
  <2>2. After(s, i) = After(t, i)
    BY <1>9 DEF After
  <2>3. text' \in IF Inc(i) = s.end /\ MayRead(s, Inc(i)) THEN ReadNextLine(s) ELSE {s}
    BY <1>2, <1>4 DEF NextLine
  <2>4. Inc(i) = j
    BY <1>3, <1>4, <1>11
  <2> QED BY <1>11, <2>1, <2>2, <2>3, <2>4
<1>13. /\ u \in Text /\ Len(u.lines) = Len(t.lines) /\ u.end \in 1..Len(u.lines)
       /\ j \in 1..Len(u.lines)
       /\ \E e \in 0..Capacity(u) : Carries(u, e, fix) /\ e = AgeIn(u, j) - 1
       /\ j = u.end => u.in = <<>>
       /\ ~DiskFull => u.torn = t.torn
  <2>1. s.end \in 1..Len(s.lines) /\ i \in 1..Len(s.lines) /\ i # s.end
        /\ a \in 0..Capacity(s) /\ a = AgeIn(s, i)
    BY <1>5, <1>7, <1>9, <1>10
  <2>2. /\ u \in Text /\ Len(u.lines) = Len(s.lines) /\ u.end \in 1..Len(u.lines)
        /\ j \in 1..Len(u.lines)
        /\ \E e \in 0..Capacity(u) :
             /\ Carries(u, e, fix)
             /\ a = 0 => e = 0
             /\ a = AgeIn(s, i) => e = AgeIn(u, j) - 1
        /\ j = u.end => u.in = <<>>
        /\ ~DiskFull => u.torn = s.torn
    BY <1>9, <1>12, <2>1, Advancing
  <2> QED BY <1>9, <2>1, <2>2
<1>14. TypeOK'
  <2>1. text' \in Text /\ text'.end \in 1..Len(text'.lines) /\ cur' \in 1..Len(text'.lines)
    BY <1>11, <1>13
  <2>2. /\ {file', new', bak'} \subseteq {"original", "written", "other", "none"}
        /\ failed' \in BOOLEAN
    BY <1>1, <1>3 DEF TypeOK
  <2> QED BY <1>1, <1>3, <2>1, <2>2, AtType
<1>15. RingInv'
  <2>1. Corrected' = fix
    BY <1>3, <1>4, SameText
  <2>2. phase' \notin LoopPhases \cup {"exit"}
    BY <1>3 DEF LoopPhases
  <2> QED BY <1>11, <1>13, <2>1, <2>2 DEF RingInv
<1>16. SavedInv'
  <2>1. phase' \notin SavePhases /\ file' = "original"
    BY <1>1, <1>3 DEF SavePhases, DiskInv
  <2> QED BY <1>1, <1>4, <1>11, <1>13, <2>1 DEF SavedInv
<1>17. LineInv' /\ WordInv'
  BY <1>1, <1>3, OutOfTheLoop DEF LoopPhases
<1>18. DiskInv'
  BY <1>1, <1>3 DEF DiskInv, LoopPhases
<1> QED BY <1>14, <1>15, <1>16, <1>17, <1>18 DEF Inv

\* A text that is written to its end.
LEMMA AllWritten ==
  ASSUME NEW t \in Text, t.end \in 1..Len(t.lines), NEW fix \in Seq(Words),
         Carries(t, Capacity(t), fix), t.in = <<>>
  PROVE  t.torn \/ t.out = fix
<1>1. PICK c \in Nat, n \in Nat : c = Capacity(t) /\ n = Len(fix)
  BY PlaceAge
<1>2. GoneIn(t, n) = n - 0 - c
  BY <1>1 DEF GoneIn
<1>3. PICK g : g = GoneIn(t, n)
  OBVIOUS
<1>4. g + c = n
  BY <1>2, <1>3
<1>5. t.torn \/ t.out = SubSeq(fix, 1, g + c)
  BY <1>1, <1>3 DEF Carries
<1>6. SubSeq(fix, 1, n) = fix
  BY <1>1, SubSeqFull
<1> QED BY <1>4, <1>5, <1>6

\* When the loop ends at the free place everything is written.
LEMMA DrainedStep ==
  ASSUME Inv, Drained
  PROVE  Inv'
<1>1. TypeOK /\ RingInv /\ SavedInv /\ LineInv /\ DiskInv
  BY DEF Inv
<1>2. PICK next : /\ next = IF ~changed THEN "discard"
                            ELSE IF backup THEN "removeBackup" ELSE "removeFile"
                  /\ At("drain", next)
  BY DEF Drained
<1>3. /\ phase = "drain" /\ phase' = next /\ hasRepl' = hasRepl
      /\ doc' = doc /\ edits' = edits /\ backup' = backup
  BY <1>2 DEF At, loopVars, wordVars
<1>4. /\ text' = text /\ cur' = cur /\ file' = file /\ new' = new /\ bak' = bak /\ failed' = failed
      /\ cur = text.end
  BY DEF Drained, diskVars
<1>5. /\ next \in SavePhases \cup {"discard"} /\ next \notin LoopPhases
      /\ next \notin {"exit", "drain", "done", "renameNew"}
      /\ next = "removeFile" => ~backup
  BY <1>2 DEF SavePhases, LoopPhases
<1>6. TypeOK'
  <2>1. text' \in Text /\ text'.end \in 1..Len(text'.lines) /\ cur' \in 1..Len(text'.lines)
    BY <1>1, <1>4 DEF TypeOK
  <2>2. /\ {file', new', bak'} \subseteq {"original", "written", "other", "none"}
        /\ failed' \in BOOLEAN
    BY <1>1, <1>4 DEF TypeOK
  <2> QED BY <1>1, <1>2, <1>5, <2>1, <2>2, AtType
<1>7. RingInv'
  BY <1>1, <1>3, <1>4, <1>5, RingKept DEF LoopPhases
<1>8. text.torn \/ text.out = Corrected
  <2>1. PICK t \in Text, fix \in Seq(Words) : t = text /\ fix = Corrected
    BY <1>1, CorrectedType DEF TypeOK
  <2>2. t.end \in 1..Len(t.lines)
    BY <1>1, <2>1 DEF TypeOK
  <2>3. PICK d \in 0..Capacity(t) : /\ Carries(t, d, fix) /\ d = AgeIn(t, t.end) - 1
                                    /\ t.in = <<>>
    BY <1>1, <1>3, <1>4, <2>1 DEF RingInv
  <2>4. d = Capacity(t)
    <3>1. AgeIn(t, t.end) = Len(t.lines) /\ Capacity(t) \in Nat
          /\ Len(t.lines) = Capacity(t) + 1
      BY <2>2, PlaceAge
    <3> QED BY <2>3, <3>1
  <2>5. t.torn \/ t.out = fix
    BY <2>2, <2>3, <2>4, AllWritten
  <2> QED BY <2>1, <2>5
<1>9. SavedInv'
  <2>1. Corrected' = Corrected
    BY <1>3, SameText
  <2> QED BY <1>1, <1>4, <1>8, <2>1 DEF SavedInv
<1>10. LineInv' /\ WordInv'
  BY <1>1, <1>3, <1>5, OutOfTheLoop
<1>11. DiskInv'
  BY <1>1, <1>3, <1>4, <1>5 DEF DiskInv
<1> QED BY <1>6, <1>7, <1>9, <1>10, <1>11 DEF Inv

\* The steps that put the new file in place of the old one.
LEMMA FileSteps ==
  ASSUME Inv, RemoveBackup \/ RenameFile \/ RemoveFile \/ RenameNew \/ Discard
  PROVE  Inv'
<1>1. TypeOK /\ RingInv /\ SavedInv /\ LineInv /\ DiskInv
  BY DEF Inv
<1>2. PICK next :
        /\ At(phase, next)
        /\ \/ phase = "removeBackup" /\ next = "renameFile"
           \/ phase = "renameFile" /\ next = "removeFile"
           \/ phase = "removeFile" /\ next = "renameNew"
           \/ phase = "renameNew" /\ next = "done"
           \/ phase = "discard" /\ next = "done"
        /\ \/ failed' = TRUE /\ file' = file /\ new' = new /\ bak' = bak
           \/ /\ failed' = failed
              /\ \/ phase = "removeBackup" /\ bak' = "none" /\ file' = file /\ new' = new
                 \/ phase = "renameFile" /\ bak' = file /\ file' = "none" /\ new' = new
                 \/ phase = "removeFile" /\ file' = "none" /\ new' = new /\ bak' = bak
                 \/ phase = "renameNew" /\ file' = new /\ new' = "none" /\ bak' = bak
                 \/ phase = "discard" /\ new' = "none" /\ file' = file /\ bak' = bak
  BY DEF RemoveBackup, RenameFile, RemoveFile, RenameNew, Discard, Fails, At
<1>3. text' = text /\ cur' = cur
  BY DEF RemoveBackup, RenameFile, RemoveFile, RenameNew, Discard
<1>4. /\ phase \in SavePhases \cup {"discard"} /\ At(phase, next) /\ phase' = next
      /\ hasRepl' = hasRepl /\ doc' = doc /\ edits' = edits /\ backup' = backup
  BY <1>2 DEF At, loopVars, wordVars, SavePhases
<1>5. /\ phase \notin LoopPhases \cup {"exit"} /\ phase # "next"
      /\ next \in SavePhases \cup {"done"} /\ next \notin LoopPhases \cup {"exit", "drain"}
      /\ next \in SavePhases => phase \in SavePhases
      /\ file' # "original" => file # "original" \/ phase \in SavePhases
  BY <1>1, <1>2, <1>4 DEF SavePhases, LoopPhases, At, DiskInv
<1>6. TypeOK'
  <2>1. text' \in Text /\ text'.end \in 1..Len(text'.lines) /\ cur' \in 1..Len(text'.lines)
    BY <1>1, <1>3 DEF TypeOK
  <2>2. /\ {file', new', bak'} \subseteq {"original", "written", "other", "none"}
        /\ failed' \in BOOLEAN
    BY <1>1, <1>2 DEF TypeOK
  <2> QED BY <1>1, <1>4, <1>5, <2>1, <2>2, AtType
<1>7. RingInv'
  BY <1>1, <1>3, <1>4, <1>5, RingKept
<1>8. SavedInv'
  <2>1. Corrected' = Corrected
    BY <1>4, SameText
  <2> QED BY <1>1, <1>3, <1>4, <1>5, <2>1 DEF SavedInv
<1>9. LineInv' /\ WordInv'
  BY <1>1, <1>4, <1>5, OutOfTheLoop
<1>10. DiskInv'
  BY <1>1, <1>2, <1>4 DEF DiskInv, At, LoopPhases
<1> QED BY <1>6, <1>7, <1>8, <1>9, <1>10 DEF Inv

-----------------------------------------------------------------------------
(* The theorems                                                            *)

\* The steps of the menu and of the display that only go on to another phase.
LEMMA PhaseSteps ==
  ASSUME Inv, NoReplacement \/ Prompt \/ Ignore \/ Learn \/ Exit \/ Abort
  PROVE  Inv'
<1>1. TypeOK
  BY DEF Inv
<1>2. UNCHANGED <<replaceList, changed, backup, text, cur, wordVars, diskVars, doc, edits>>
  BY DEF NoReplacement, Prompt, Ignore, Learn, Exit, Abort, loopVars
<1>3. learnt' \subseteq Seq(Char)
  <2>1. CASE Learn
    <3>1. phase \in {"found", "prompt"} /\ learnt' = learnt \cup {RealWord}
      BY <2>1 DEF Learn
    <3>2. RealWord \in Seq(Char)
      BY <3>1, TheWord
    <3> QED BY <1>1, <3>1, <3>2 DEF TypeOK
  <2>2. CASE ~Learn
    BY <1>1, <2>2 DEF TypeOK, NoReplacement, Prompt, Ignore, Exit, Abort
  <2> QED BY <2>1, <2>2
<1>4. \/ phase = "next" /\ ~hasRepl /\ phase' = IF cur = text.end THEN "exit" ELSE "scan"
      \/ phase = "found" /\ phase' = "prompt"
      \/ phase = "prompt" /\ phase' \in {"next", "exit", "discard"}
  BY DEF NoReplacement, Prompt, Ignore, Learn, Exit, Abort
<1> QED BY <1>2, <1>3, <1>4, OnlyPhase

\* A step that changes nothing.
LEMMA Stuttering ==
  ASSUME Inv, UNCHANGED vars
  PROVE  Inv'
<1>1. TypeOK /\ RingInv /\ SavedInv /\ LineInv /\ WordInv /\ DiskInv
  BY DEF Inv
<1>2. /\ phase' = phase /\ replaceList' = replaceList /\ changed' = changed
      /\ backup' = backup /\ learnt' = learnt /\ text' = text /\ cur' = cur
      /\ copy' = copy /\ pos' = pos /\ tok' = tok /\ diff' = diff /\ begin' = begin
      /\ size' = size /\ hasRepl' = hasRepl /\ file' = file /\ new' = new /\ bak' = bak /\ failed' = failed
      /\ doc' = doc /\ edits' = edits
  BY DEF vars
<1>3. LineNo' = LineNo /\ EditsOf(LineNo)' = EditsOf(LineNo)
  BY <1>2, LineKept
<1>4. TypeOK'
  BY <1>1, <1>2 DEF TypeOK
<1>5. RingInv'
  BY <1>1, <1>2, RingKept
<1>6. SavedInv'
  BY <1>1, <1>2, SavedKept
<1>7. LineInv'
  BY <1>1, <1>2, <1>3 DEF LineInv, Working, Grown
<1>8. WordInv'
  BY <1>1, <1>2, <1>3 DEF WordInv, Working, AtWord
<1>9. DiskInv'
  BY <1>1, <1>2 DEF DiskInv
<1> QED BY <1>4, <1>5, <1>6, <1>7, <1>8, <1>9 DEF Inv

\* Every step keeps the invariant.
LEMMA Preserved == Inv /\ [Next]_vars => Inv'
<1> SUFFICES ASSUME Inv, [Next]_vars PROVE Inv'
  OBVIOUS
<1>1. CASE UNCHANGED vars
  BY <1>1, Stuttering
<1>2. CASE NextMisspelling
  BY <1>2, AfterReplacementStep, PhaseSteps, PassWordStep, FindWordStep, GoToNextLineStep
     DEF NextMisspelling
<1>3. CASE ReplaceListed
  BY <1>3, ReplaceListedStep
<1>4. CASE Prompt
  BY <1>4, PhaseSteps
<1>5. CASE LookAhead
  BY <1>5, LookAheadStep
<1>6. CASE User
  <2>1. CASE Ignore \/ Learn \/ Exit \/ Abort
    BY <2>1, PhaseSteps
  <2>2. ASSUME NEW word \in Corrections, ReplaceOne(word) \/ ReplaceAndList(word)
        PROVE  Inv'
    <3>1. word \in Words
      BY TextAssumption DEF Words
    <3> QED BY <2>2, <3>1, ReplaceOneStep, ReplaceAndListStep
  <2> QED BY <1>6, <2>1, <2>2 DEF User
<1>7. CASE Finish
  BY <1>7, SaveListsStep, DrainStep, DrainedStep, FileSteps DEF Finish
<1> QED BY <1>1, <1>2, <1>3, <1>4, <1>5, <1>6, <1>7 DEF Next, Program

\* The ring, the line and the files are always as Inv says (the loop of check() in
\* prog/aspell.cpp with CheckerString).
THEOREM Invariant == Spec => []Inv
BY InitInv, Preserved, PTL DEF Spec

\* The variables always have their types; the current line and the free one are places
\* of the ring.
THEOREM TypeCorrect == Spec => []TypeOK
<1>1. Inv => TypeOK
  BY DEF Inv
<1> QED BY <1>1, Invariant, PTL

\* The ring, from its oldest line.
LEMMA RingIs ==
  ASSUME TypeOK
  PROVE  /\ InRing = [k \in 1..Capacity(text) |-> text.lines[Place(text, k)]]
         /\ InRing \in Seq(Seq(Char)) /\ Len(InRing) = Capacity(text)
<1>1. PICK t \in Text : t = text
  BY DEF TypeOK
<1>2. t.end \in 1..Len(t.lines)
  BY <1>1 DEF TypeOK
<1>3. PICK n \in Nat, e \in Nat : n = Len(t.lines) /\ e = t.end /\ e \in 1..n
  BY <1>2 DEF Text
<1>4. ASSUME NEW k \in 1..(n - 1) PROVE ((e + k - 1) % n) + 1 = Place(t, k)
  <2>1. PICK a \in Nat : a = e + k - 1
    BY <1>3
  <2>5. PICK r : r = a % n
    OBVIOUS
  <2>6. ((e + k - 1) % n) + 1 = r + 1
    BY <2>1, <2>5
  <2>2. Place(t, k) = IF e + k <= n THEN e + k ELSE e + k - n
    BY <1>3 DEF Place
  <2>3. CASE e + k <= n
    <3>1. a < n /\ n \in Nat \ {0}
      BY <1>3, <2>1, <2>3
    <3>2. a % n = a
      BY <3>1
    <3>3. r = e + k - 1
      BY <2>1, <2>5, <3>2
    <3> QED BY <1>3, <2>2, <2>3, <2>6, <3>3
  <2>4. CASE ~(e + k <= n)
    <3>1. n <= a /\ a < 2 * n /\ n \in Nat \ {0}
      BY <1>3, <2>1, <2>4
    <3>2. a % n = a - n
      BY <3>1
    <3>3. r = e + k - 1 - n
      BY <2>1, <2>5, <3>2
    <3>4. r + 1 = e + k - n
      BY <3>3
    <3> QED BY <2>2, <2>4, <2>6, <3>4
  <2> QED BY <2>3, <2>4
<1>5. Capacity(t) = n - 1
  BY <1>3 DEF Capacity
<1>6. InRing = [k \in 1..(n - 1) |-> t.lines[((e + k - 1) % n) + 1]]
  BY <1>1, <1>3 DEF InRing
<1>7. InRing = [k \in 1..(n - 1) |-> t.lines[Place(t, k)]]
  BY <1>4, <1>6
<1>8. ASSUME NEW k \in 1..(n - 1) PROVE t.lines[Place(t, k)] \in Seq(Char)
  <2>1. k \in 1..Len(t.lines)
    BY <1>3
  <2>2. Place(t, k) \in 1..Len(t.lines)
    BY <1>2, <2>1, PlaceAge
  <2> QED BY <2>2 DEF Text
<1>9. n - 1 \in Nat
  BY <1>3
<1>10. InRing \in Seq(Seq(Char)) /\ Len(InRing) = n - 1
  <2>1. InRing \in [1..(n - 1) -> Seq(Char)]
    BY <1>7, <1>8
  <2> QED BY <1>9, <2>1
<1> QED BY <1>1, <1>5, <1>7, <1>10

\* What a ring carries is the text.
LEMMA CarriesAll ==
  ASSUME NEW fix \in Seq(Words), NEW g \in Nat, NEW c \in Nat, NEW d \in 0..c,
         g + c <= Len(fix), NEW ring \in Seq(Seq(Char)), Len(ring) = c,
         \A k \in 1..c : ring[k] = IF k <= d THEN <<>> ELSE fix[g + k]
  PROVE  (SubSeq(fix, 1, g + d) \o SubSeq(ring, d + 1, c)) \o SubSeq(fix, g + c + 1, Len(fix))
           = fix
<1>1. PICK n \in Nat : n = Len(fix)
  OBVIOUS
<1>2. PICK a \in Nat, b \in Nat : a = g + d /\ b = g + c /\ a <= b /\ b <= n
  BY <1>1
<1>3. \A k \in 1..n : fix[k] \in Words
  BY <1>1
<1>4. PICK x : x = SubSeq(ring, d + 1, c)
  OBVIOUS
<1>5. PICK y : y = SubSeq(fix, a + 1, b)
  OBVIOUS
<1>6. /\ y \in Seq(Words) /\ Len(y) = b - a
      /\ \A k \in 1..(b - a) : y[k] = fix[a + k]
  <2>1. \A k \in (a + 1)..b : fix[k] \in Words
    BY <1>2, <1>3
  <2>2. /\ y \in Seq(Words) /\ Len(y) = IF a + 1 <= b THEN b - (a + 1) + 1 ELSE 0
        /\ \A k \in 1..(b - (a + 1) + 1) : y[k] = fix[(a + 1) + k - 1]
    BY <1>5, <2>1, SubSeqProperties
  <2>3. Len(y) = b - a
    BY <1>2, <2>2
  <2>4. ASSUME NEW k \in 1..(b - a) PROVE y[k] = fix[a + k]
    <3>1. k \in 1..(b - (a + 1) + 1) /\ (a + 1) + k - 1 = a + k
      BY <1>2
    <3> QED BY <2>2, <3>1
  <2> QED BY <2>2, <2>3, <2>4
<1>7. /\ Len(x) = b - a /\ \A k \in 1..(b - a) : x[k] = fix[a + k]
      /\ x \in Seq(Seq(Char))
  <2>1. \A k \in (d + 1)..c : ring[k] \in Seq(Char)
    OBVIOUS
  <2>2. /\ x \in Seq(Seq(Char)) /\ Len(x) = IF d + 1 <= c THEN c - (d + 1) + 1 ELSE 0
        /\ \A k \in 1..(c - (d + 1) + 1) : x[k] = ring[(d + 1) + k - 1]
    BY <1>4, <2>1, SubSeqProperties
  <2>3. b - a = c - d
    BY <1>2
  <2>4. Len(x) = b - a
    BY <2>2, <2>3
  <2>5. ASSUME NEW k \in 1..(b - a) PROVE x[k] = fix[a + k]
    <3>1. /\ k \in 1..(c - (d + 1) + 1) /\ (d + 1) + k - 1 = d + k /\ d + k \in 1..c
          /\ ~(d + k <= d) /\ g + (d + k) = a + k
      BY <1>2, <2>3
    <3>2. x[k] = ring[d + k]
      BY <2>2, <3>1
    <3>3. ring[d + k] = fix[g + (d + k)]
      BY <3>1
    <3> QED BY <3>1, <3>2, <3>3
  <2> QED BY <2>2, <2>4, <2>5
<1>8. x = y
  <2>1. y \in Seq(Seq(Char))
    BY <1>6 DEF Words
  <2>2. Len(x) = Len(y) /\ \A k \in 1..Len(x) : x[k] = y[k]
    BY <1>6, <1>7
  <2> QED BY <1>7, <2>1, <2>2, SeqEqual
<1>9. SubSeq(fix, 1, a) \o SubSeq(fix, a + 1, b) = SubSeq(fix, 1, b)
  <2>1. 1 \in 1..(Len(fix) + 1) /\ a \in (1 - 1)..Len(fix) /\ b \in a..Len(fix)
    BY <1>1, <1>2
  <2> QED BY <2>1, ConcatAdjacentSubSeq
<1>10. SubSeq(fix, 1, b) \o SubSeq(fix, b + 1, n) = SubSeq(fix, 1, n)
  <2>1. 1 \in 1..(Len(fix) + 1) /\ b \in (1 - 1)..Len(fix) /\ n \in b..Len(fix)
    BY <1>1, <1>2
  <2> QED BY <2>1, ConcatAdjacentSubSeq
<1>11. SubSeq(fix, 1, n) = fix
  BY <1>1, SubSeqFull
<1> QED BY <1>1, <1>2, <1>4, <1>5, <1>8, <1>9, <1>10, <1>11

\* At every moment the lines written, those of the ring and those not read yet are the
\* document with the replacements in their places (CheckerString: read_next_line,
\* replace and the destructor): for every document, ring and order of reading ahead.
THEOREM TextKept == Spec => []TextIsTheDocument
<1>1. Inv => TextIsTheDocument
  <2> SUFFICES ASSUME Inv PROVE TextIsTheDocument
    OBVIOUS
  <2>1. TypeOK /\ RingInv
    BY DEF Inv
  <2>2. PICK t \in Text, fix \in Seq(Words) : t = text /\ fix = Corrected
    BY <2>1, CorrectedType DEF TypeOK
  <2>3. PICK d \in 0..Capacity(t) : Carries(t, d, fix)
    BY <2>1, <2>2 DEF RingInv
  <2>4. PICK ring : ring = InRing
    OBVIOUS
  <2>5. PICK c \in Nat : c = Capacity(t)
    <3>1. t.end \in 1..Len(t.lines)
      BY <2>1, <2>2 DEF TypeOK
    <3> QED BY <3>1, PlaceAge
  <2>6. /\ ring = [k \in 1..c |-> t.lines[Place(t, k)]]
        /\ ring \in Seq(Seq(Char)) /\ Len(ring) = c
    BY <2>1, <2>2, <2>4, <2>5, RingIs
  <2>7. PICK g, n : g = GoneIn(t, Len(fix)) /\ n = Len(fix)
    OBVIOUS
  <2>8. PICK l \in Nat : l = Len(t.in)
    BY DEF Text
  <2>9. g \in Nat /\ n \in Nat /\ g + c <= n
    <3>1. g \in Nat
      BY <2>3, <2>7 DEF Carries
    <3>2. g = n - l - c
      BY <2>5, <2>7, <2>8 DEF GoneIn
    <3> QED BY <2>7, <3>1, <3>2
  <2>10. \A k \in 1..c : ring[k] = IF k <= d THEN <<>> ELSE fix[g + k]
    BY <2>3, <2>5, <2>6, <2>7 DEF Carries
  <2>11. /\ t.in = SubSeq(fix, g + c + 1, n)
         /\ t.torn \/ t.out = SubSeq(fix, 1, g + d)
    BY <2>3, <2>5, <2>7 DEF Carries
  <2>12. t.torn \/ (t.out \o SubSeq(ring, d + 1, Len(ring))) \o t.in = fix
    <3>1. (SubSeq(fix, 1, g + d) \o SubSeq(ring, d + 1, c))
             \o SubSeq(fix, g + c + 1, Len(fix)) = fix
      <4>1. d \in 0..c /\ g \in Nat /\ g + c <= Len(fix)
        BY <2>5, <2>7, <2>9
      <4>2. ring \in Seq(Seq(Char)) /\ Len(ring) = c
        BY <2>6
      <4> QED BY <2>10, <4>1, <4>2, CarriesAll
    <3> QED BY <2>6, <2>7, <2>11, <3>1
  <2>13. \A k \in DOMAIN ring : ring[k] = <<>> <=> k <= d
    <3> TAKE k \in DOMAIN ring
    <3>1. k \in 1..c
      BY <2>6
    <3>2. k <= d => ring[k] = <<>>
      BY <2>10, <3>1
    <3>3. ~(k <= d) => ring[k] = fix[g + k] /\ fix[g + k] \in Words
      <4>1. g + k \in 1..n
        BY <2>9, <3>1
      <4>2. fix[g + k] \in Words
        BY <2>7, <4>1
      <4> QED BY <2>10, <3>1, <4>2
    <3> QED BY <3>2, <3>3 DEF Words
  <2>14. d \in 0..Len(ring)
    BY <2>5, <2>6
  <2> QED BY <2>2, <2>4, <2>12, <2>13, <2>14 DEF TextIsTheDocument
<1> QED BY <1>1, Invariant, PTL

\* The word that is shown, replaced and stored as misspelt is the one the tokenizer
\* found, or what it was replaced by (next_misspelling, its diff_ and
\* real_word_begin_).
THEOREM ShownIsFound == Spec => []HighlightedIsTheWord
<1>1. Inv => HighlightedIsTheWord
  <2> SUFFICES ASSUME Inv, phase \in {"found", "prompt"}
               PROVE  LET found == TokenAt(doc[LineNo], tok.offset)
                          made == EditsAt(EditsOf(LineNo), tok.offset)
                      IN  RealWord = IF made = {}
                                     THEN SubSeq(doc[LineNo], found.offset,
                                                 found.offset + found.len - 1)
                                     ELSE (CHOOSE e \in made : TRUE).by
    BY DEF HighlightedIsTheWord
  <2>1. PICK line, w, made : line = copy /\ w = tok.offset /\ made = EditsOf(LineNo)
    OBVIOUS
  <2>2. Working /\ Starts(line, w) /\ RealWord = InPlaceOf(line, made, w)
    BY <2>1, TheWord
  <2>3. line \in Words /\ line = doc[LineNo]
    BY <2>1, <2>2, TheLine
  <2>4. line \in Seq(Char)
    BY <2>3 DEF Words
  <2>5. TokenAt(line, w).offset = w
    BY <2>2, <2>4, TokenLies
  <2>6. RealWord = IF EditsAt(made, w) = {}
                   THEN SubSeq(line, w, EndsAt(line, w) - 1)
                   ELSE (CHOOSE e \in EditsAt(made, w) : TRUE).by
    BY <2>2, Zenon DEF InPlaceOf
  <2>7. EndsAt(line, w) - 1 = w + TokenAt(line, w).len - 1
    <3>1. w \in 1..Len(line) /\ TokenAt(line, w).len \in Nat \ {0}
      BY <2>2, <2>4, TokenLies
    <3> QED BY <3>1 DEF EndsAt
  <2> QED BY <2>1, <2>3, <2>5, <2>6, <2>7
<1> QED BY <1>1, Invariant, PTL

\* One of the three files always has the whole text, the original or the corrected
\* one, whichever of the files cannot be removed or renamed, and in the end the file
\* itself has if nothing failed (the end of check() and common/file_util.cpp): unless
\* a full disk has cut off the text and no backup was made.
THEOREM SomeFileIsWhole == Spec => []TextSurvives
<1>1. Inv => TextSurvives
  <2> SUFFICES ASSUME Inv PROVE TextSurvives
    OBVIOUS
  <2>1. TypeOK /\ SavedInv /\ DiskInv
    BY DEF Inv
  <2>2. phase \in LoopPhases \cup SavePhases \cup {"exit", "drain", "discard", "done"}
    BY <2>1 DEF TypeOK
  <2>3. phase = "done" /\ ~text.torn /\ ~failed => Whole(file) /\ new = "none"
    BY <2>1 DEF DiskInv, SavedInv, Whole
  <2>4. ASSUME ~text.torn \/ (backup /\ ~failed)
        PROVE  Whole(file) \/ Whole(new) \/ Whole(bak)
    <3>1. CASE phase \in LoopPhases \cup {"exit", "drain", "removeBackup", "renameFile",
                                          "discard"}
      BY <2>1, <3>1 DEF DiskInv, Whole
    <3>2. CASE phase = "removeFile"
      BY <2>1, <3>2 DEF DiskInv, Whole
    <3>3. CASE phase = "renameNew"
      <4>1. backup => bak = "original" \/ failed
        BY <2>1, <3>3 DEF DiskInv
      <4>2. new = "written" /\ (text.torn \/ text.out = Corrected)
        BY <2>1, <3>3 DEF DiskInv, SavedInv, SavePhases
      <4> QED BY <2>4, <4>1, <4>2 DEF Whole
    <3>4. CASE phase = "done"
      <4>1. \/ file = "original"
            \/ file = "written" /\ (backup => bak = "original" \/ failed)
            \/ file # "original" /\ new = "written" /\ failed
        BY <2>1, <3>4 DEF DiskInv
      <4>2. file # "original" => text.torn \/ text.out = Corrected
        BY <2>1 DEF SavedInv
      <4> QED BY <2>4, <4>1, <4>2 DEF Whole
    <3> QED BY <2>2, <3>1, <3>2, <3>3, <3>4 DEF SavePhases
  <2> QED BY <2>3, <2>4 DEF TextSurvives
<1> QED BY <1>1, Invariant, PTL
=============================================================================
