---------------------------- MODULE EditDistance ----------------------------
(***************************************************************************)
(* The distances between two words (modules/speller/default/editdist.cpp,  *)
(* leditdist.cpp, editdist2.hpp, typo_editdist.cpp): the full one, filled  *)
(* in row by row; the limited ones, that give up after some edits and say  *)
(* how far into the first word they have looked; and the one between keys  *)
(* of a keyboard, with the tables it is made from.                         *)
(*                                                                         *)
(* A word is a sequence of characters; what ends one is the character "".  *)
(***************************************************************************)
EXTENDS Language

LargeNum == 1048575
\* SuggestParms::init: what an edit costs, in hundredths.
Weights == [del1 |-> 95, del2 |-> 95, swap |-> 90, sub |-> 100, max |-> 100, min |-> 90]

Least(S) == CHOOSE x \in S : \A y \in S : x <= y
Most(S) == CHOOSE x \in S : \A y \in S : x >= y
At(s, i) == IF i \in DOMAIN s THEN s[i] ELSE ""

-----------------------------------------------------------------------------
\* edit_distance.  rows are the rows filled in, row the one at work; e(i, j) is
\* rows[i + 1][j + 1].  The first row and column have their weights the other way round.

Swapped(a, b, i, j) == i > 1 /\ j > 1 /\ a[i] = b[j - 1] /\ a[i - 1] = b[j]
Cell(rows, row, a, b, i, j, w) ==
    IF a[i] = b[j] THEN rows[i][j]
    ELSE Least({w.sub + rows[i][j], w.del1 + rows[i][j + 1], w.del2 + row[j]}
               \cup (IF Swapped(a, b, i, j) THEN {w.swap + rows[i - 1][j - 1]} ELSE {}))
RECURSIVE FillRow(_, _, _, _, _, _), FillRows(_, _, _, _)
FillRow(rows, row, a, b, i, w) ==
    IF Len(row) > Len(b) THEN row
    ELSE FillRow(rows, Append(row, Cell(rows, row, a, b, i, Len(row), w)), a, b, i, w)
FillRows(rows, a, b, w) ==
    IF Len(rows) > Len(a) THEN rows
    ELSE FillRows(Append(rows, FillRow(rows, <<Len(rows) * w.del2>>, a, b, Len(rows), w)),
                  a, b, w)
FullDistance(a, b, w) ==
    Last(Last(FillRows(<<[j \in 1..(Len(b) + 1) |-> (j - 1) * w.del1]>>, a, b, w)))

-----------------------------------------------------------------------------
\* The limited distances.  A place is a pair of positions in the two words.

\* Where the words first differ, or both end.
Meet(a, b, i, j) ==
    Least({k \in 0..(Len(a) + 1) : At(a, i + k) # At(b, j + k) \/ At(a, i + k) = ""})
BothEnd(a, b, i, j) == At(a, i) = "" /\ At(b, j) = ""

\* The edits of a place where the words differ: a swap that matches takes the place of
\* the substitution.
HalfSwaps(a, b, i, j, w) ==
    {[i |-> i + 1, j |-> j, cost |-> w.del1], [i |-> i, j |-> j + 1, cost |-> w.del2],
     IF At(a, i) = At(b, j + 1)
     THEN [i |-> i + 2, j |-> j + 2, cost |-> w.swap]
     ELSE [i |-> i + 1, j |-> j + 1, cost |-> w.sub]}
Edits(a, b, i, j, w) ==
    {[i |-> i + 1, j |-> j, cost |-> w.del1], [i |-> i, j |-> j + 1, cost |-> w.del2],
     IF At(a, i) = At(b, j + 1) /\ At(b, j) = At(a, i + 1)
     THEN [i |-> i + 2, j |-> j + 2, cost |-> w.swap]
     ELSE [i |-> i + 1, j |-> j + 1, cost |-> w.sub]}

\* check_rest: only what matches to the end counts.  stop is the character of a, from
\* 0, looked at last.
CheckRest(a, b, i, j, cost) ==
    LET k == Meet(a, b, i, j)
    IN  [score |-> IF BothEnd(a, b, i + k, j + k) THEN cost ELSE LargeNum, stop |-> i + k - 1]
RestOf(a, b, edits, cost) == {CheckRest(a, b, e.i, e.j, cost + e.cost) : e \in edits}
Best(tries) == [score |-> Least({t.score : t \in tries}), stop |-> Most({t.stop : t \in tries})]

\* The words match up to i and j, where one of them ends: what is left of the other
\* is within n edits or not.
Tail1(a, i, n, each) ==
    LET left == Len(a) - i + 1
    IN  [score |-> IF left <= n THEN left * each ELSE LargeNum,
         stop |-> i - 1 + (IF left <= n THEN left ELSE n)]
Tail2(b, i, j, n, each) ==
    LET left == Len(b) - j + 1
    IN  [score |-> IF left <= n THEN left * each ELSE LargeNum, stop |-> i - 1]

Limit0(a, b, w) == CheckRest(a, b, 1, 1, 0)
Limit1At(a, b, i, j, w) ==
    IF BothEnd(a, b, i, j) THEN [score |-> 0, stop |-> i - 1]
    ELSE IF At(a, i) = "" THEN Tail2(b, i, j, 1, w.del2)
    ELSE IF At(b, j) = "" THEN Tail1(a, i, 1, w.del1)
    ELSE Best(RestOf(a, b, Edits(a, b, i, j, w), 0))
Limit1(a, b, w) == LET k == Meet(a, b, 1, 1) IN Limit1At(a, b, 1 + k, 1 + k, w)

\* check2: one edit is done, and one more may follow where the words differ again.
SecondAt(a, b, i, j, cost, w) ==
    IF BothEnd(a, b, i, j) THEN {[score |-> cost, stop |-> i - 1]}
    ELSE IF At(a, i) = "" THEN
         {[score |-> IF j = Len(b) THEN cost + w.del2 ELSE LargeNum, stop |-> i - 1]}
    ELSE IF At(b, j) = "" THEN
         {[score |-> IF i = Len(a) THEN cost + w.del1 ELSE LargeNum, stop |-> i]}
    ELSE RestOf(a, b, Edits(a, b, i, j, w), cost)
Second(a, b, e, w) ==
    LET k == Meet(a, b, e.i, e.j) IN SecondAt(a, b, e.i + k, e.j + k, e.cost, w)
Limit2At(a, b, i, j, w) ==
    IF BothEnd(a, b, i, j) THEN [score |-> 0, stop |-> i - 1]
    ELSE IF At(a, i) = "" THEN Tail2(b, i, j, 2, w.del2)
    ELSE IF At(b, j) = "" THEN Tail1(a, i, 2, w.del1)
    ELSE Best(UNION {Second(a, b, e, w) : e \in Edits(a, b, i, j, w)})
Limit2(a, b, w) == LET k == Meet(a, b, 1, 1) IN Limit2At(a, b, 1 + k, 1 + k, w)

LimitN(a, b, n, w) ==
    IF n = 0 THEN Limit0(a, b, w) ELSE IF n = 1 THEN Limit1(a, b, w) ELSE Limit2(a, b, w)

\* limit_edit_distance: the stack of places still to try is the recursion; the last edit
\* that fits is only good when the rest matches.
RECURSIVE LimitedFrom(_, _, _, _, _, _, _)
LimitedEdits(a, b, i, j, score, limit, w) ==
    IF score + w.max > limit THEN LargeNum
    ELSE IF limit * w.min <= w.max * (w.min + score)
         THEN Least({t.score : t \in RestOf(a, b, Edits(a, b, i, j, w), score)})
    ELSE Least({LimitedFrom(a, b, e.i, e.j, score + e.cost, limit, w) :
                   e \in Edits(a, b, i, j, w)})
LimitedAt(a, b, i, j, score, limit, w) ==
    IF BothEnd(a, b, i, j) THEN score
    ELSE IF At(a, i) = "" THEN score + w.del2 * (Len(b) - j + 1)
    ELSE IF At(b, j) = "" THEN score + w.del1 * (Len(a) - i + 1)
    ELSE LimitedEdits(a, b, i, j, score, limit, w)
LimitedFrom(a, b, i, j, score, limit, w) ==
    LET k == Meet(a, b, i, j) IN LimitedAt(a, b, i + k, j + k, score, limit, w)
Limited(a, b, n, w) == LimitedFrom(a, b, 1, 1, 0, n * w.max, w)

\* edit_distance of editdist2.hpp: level by level, up to the limit.
DistanceAtLevel(a, b, level, w) ==
    IF level = 2 THEN Limit2(a, b, w).score
    ELSE IF level < 5 THEN Limited(a, b, level, w)
    ELSE FullDistance(a, b, w)
RECURSIVE DistanceBetween(_, _, _, _, _)
DistanceBetween(a, b, level, limit, w) ==
    LET score == DistanceAtLevel(a, b, level, w)
    IN  IF score >= LargeNum /\ level < limit THEN DistanceBetween(a, b, level + 1, limit, w)
        ELSE score

-----------------------------------------------------------------------------
\* TypoEditDistanceInfo: keys that are neighbours, keys that bear several letters.

TypoCost == [missing |-> 85, swap |-> 60, repl1 |-> 70, repl2 |-> 110, extra1 |-> 70,
             extra2 |-> 100, max |-> 110]

\* to_stripped after the lines of the keyboard file: the letters of a key are its first,
\* the letters of a pair themselves.
StripLine(strip, line) ==
    IF line.kind = "key" THEN [c \in DOMAIN strip |->
        IF c \in ToSet(line.chars) THEN line.chars[1] ELSE strip[c]]
    ELSE [c \in DOMAIN strip |-> IF c \in ToSet(line.chars) THEN c ELSE strip[c]]
StrippedBy(keyboard) ==
    FoldLeft(StripLine, [c \in ToSet(Chars) |-> ToPlain(ToLower(c))], keyboard)

\* to_normalized_: a number for each letter that is not another's, in the order of their
\* codes, and one for all that is no letter.
Numbered(acc, c, strip) ==
    IF ~IsAlpha(c) THEN acc
    ELSE IF strip[c] \notin DOMAIN acc.norm
         THEN [norm |-> (c :> acc.next) @@ (strip[c] :> acc.next) @@ acc.norm,
               next |-> acc.next + 1]
    ELSE [acc EXCEPT !.norm = (c :> acc.norm[strip[c]]) @@ acc.norm]
Normalized(strip) ==
    LET acc == FoldLeft(LAMBDA r, c : Numbered(r, c, strip), [norm |-> <<>>, next |-> 1], Chars)
    IN  [c \in ToSet(Chars) |-> IF c \in DOMAIN acc.norm THEN acc.norm[c] ELSE acc.next]

TypoTable(norm, pairs, same, near, far) ==
    LET codes == 0..Most({norm[c] : c \in DOMAIN norm})
        close == {{norm[p[1]], norm[p[2]]} : p \in pairs}
    IN  [x \in codes |-> [y \in codes |->
            IF x = y THEN same ELSE IF {x, y} \in close THEN near ELSE far]]
TypoInfoOf(norm, pairs) ==
    [norm |-> norm, repl |-> TypoTable(norm, pairs, 0, TypoCost.repl1, TypoCost.repl2),
     extra |-> TypoTable(norm, pairs, TypoCost.extra1, TypoCost.extra1, TypoCost.extra2)]
\* get_new; a line that is no pair of letters is an error.
TypoInfo(keyboard) ==
    LET paired == {l \in ToSet(keyboard) : l.kind = "pair"}
    IN  IF \E l \in paired : Len(l.chars) # 2 THEN [err |-> TRUE]
        ELSE [err |-> FALSE] @@ TypoInfoOf(Normalized(StrippedBy(keyboard)),
                                           {l.chars : l \in paired})

\* typo_edit_distance of two words of numbers.
TypoCell(rows, row, a, b, i, j, t) ==
    LET extra == t.extra[a[i - 1]][b[j]]
        removed == IF i = 1 THEN {rows[i][j + 1] + TypoCost.extra2}
                   ELSE {rows[i][j + 1] + extra,
                         rows[i - 1][j] + extra + t.repl[a[i]][b[j]]}
        swapped == IF i = 1 \/ j = 1 THEN {}
                   ELSE {rows[i - 1][j - 1] + TypoCost.swap + t.repl[a[i]][b[j - 1]]
                            + t.repl[a[i - 1]][b[j]]}
    IN  IF a[i] = b[j] THEN rows[i][j]
        ELSE Least({rows[i][j] + t.repl[a[i]][b[j]], row[j] + TypoCost.missing}
                   \cup removed \cup swapped)
RECURSIVE TypoRow(_, _, _, _, _, _), TypoRows(_, _, _, _)
TypoRow(rows, row, a, b, i, t) ==
    IF Len(row) > Len(b) THEN row
    ELSE TypoRow(rows, Append(row, TypoCell(rows, row, a, b, i, Len(row), t)), a, b, i, t)
TypoRows(rows, a, b, t) ==
    IF Len(rows) > Len(a) THEN rows
    ELSE TypoRows(Append(rows, TypoRow(rows, <<Len(rows) * TypoCost.extra2>>, a, b,
                                       Len(rows), t)), a, b, t)
TypoDistance(word, target, t) ==
    LET a == [i \in DOMAIN word |-> t.norm[word[i]]]
        b == [i \in DOMAIN target |-> t.norm[target[i]]]
        first == [j \in 1..(Len(b) + 1) |-> (j - 1) * TypoCost.missing]
    IN  Last(Last(TypoRows(<<first>>, a, b, t)))
=============================================================================
