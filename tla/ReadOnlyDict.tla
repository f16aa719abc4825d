---------------------------- MODULE ReadOnlyDict ----------------------------
(***************************************************************************)
(* A compiled dictionary (modules/speller/default/readonly_ws.cpp): how    *)
(* create() makes one from a list, how words are looked up in it, and how  *)
(* its soundslikes are gone through, the distance of the last one saying   *)
(* what may be left out.                                                   *)
(*                                                                         *)
(* The data block is a sequence of items, each a soundslike with its words *)
(* or, when the soundslikes are invisible, a word.  The sizes a byte of    *)
(* the block bounds are kept; the offsets it holds are what they lead to.  *)
(***************************************************************************)
EXTENDS Soundslike, Affix

CONSTANTS EntryLimit,     \* the most bytes an entry may have (240)
          ItemLimit       \* the bytes an item of several words stays below (255)

FullSoundslike(sl) == sl.name \notin {"none", "stripped", "simple"}
\* What create() makes of the options: [sl, storeAs, aff, compress, partly, invisible].
AffixCompress(o) == o.aff # <<>> /\ o.compress
PartiallyExpand(o) == AffixCompress(o) /\ ~FullSoundslike(o.sl) /\ o.partly
Invisible(o) ==
    \/ PartiallyExpand(o)
    \/ IF o.invisible # "unset" THEN o.invisible = "true" ELSE ~FullSoundslike(o.sl)
RootOnly(o) == AffixCompress(o) /\ ~PartiallyExpand(o)

-----------------------------------------------------------------------------
\* create(): the entries of the list, expanded as the options say.

ExpandLine(line, o) ==
    IF line.aff # <<>> /\ ~AffixCompress(o) THEN Expand(o.aff, line.word, line.aff, NoLimit)
    ELSE IF line.aff # <<>> /\ PartiallyExpand(o) THEN Expand(o.aff, line.word, line.aff, 3)
    ELSE <<line>>
DataSize(e) == Len(e.word) + 1 + (IF e.aff = <<>> THEN 0 ELSE Len(e.aff) + 1)
TotalSize(e) == DataSize(e) + (IF e.sl = e.word THEN 0 ELSE Len(e.sl) + 1)
NewEntry(x, o) ==
    [word |-> x.word, aff |-> x.aff, sl |-> ToSoundslike(o.sl, x.word, o.storeAs),
     clean |-> Clean(x.word, o.storeAs), dup |-> FALSE]
NewEntries(line, o) ==
    LET forms == ExpandLine(line, o) IN [j \in DOMAIN forms |-> NewEntry(forms[j], o)]
ReadLines(lines, o) == FlattenSeq([i \in DOMAIN lines |-> NewEntries(lines[i], o)])
LineError(line, o) ==
    IF line.aff # <<>> /\ o.aff = <<>> THEN "other_error"
    ELSE IF \E e \in ToSet(NewEntries(line, o)) : TotalSize(e) > EntryLimit THEN "invalid_word"
    ELSE "none"

\* SoundslikeLess
EntryLess(x, y) ==
    IF x.sl # y.sl THEN WordLess(x.sl, y.sl)
    ELSE IF x.clean # y.clean THEN WordLess(x.clean, y.clean)
    ELSE WordLess(x.word, y.word)

\* The duplicate check: flags of one word are joined, words of one clean form chained.
Joined(e, f) ==
    [e EXCEPT !.aff = @ \o SelectSeq(f.aff, LAMBDA x : x \notin ToSet(e.aff))]
RECURSIVE DuplicateCheck(_, _)
DuplicateCheck(prev, rest) ==
    IF rest = <<>> THEN <<prev>>
    ELSE IF prev.word = rest[1].word THEN DuplicateCheck(Joined(prev, rest[1]), Tail(rest))
    ELSE <<[prev EXCEPT !.dup = prev.clean = rest[1].clean]>>
         \o DuplicateCheck(rest[1], Tail(rest))
Sorted(entries) == SortSeq(entries, EntryLess)
Unique(sorted) == IF sorted = <<>> THEN <<>> ELSE DuplicateCheck(sorted[1], Tail(sorted))

\* The words of one soundslike make an item while its size is below the limit.
ItemSize(item) == 2 + Len(item.sl) + 1
                  + FoldLeft(LAMBDA n, e : n + 3 + DataSize(e), 0, item.words)
AddToItems(items, e) ==
    IF items # <<>> /\ Last(items).sl = e.sl /\ ItemSize(Last(items)) + 3 + DataSize(e) < ItemLimit
    THEN [items EXCEPT ![Len(items)].words = Append(@, e)]
    ELSE Append(items, [sl |-> e.sl, words |-> <<e>>])
Items(entries, o) ==
    IF Invisible(o) THEN [i \in DOMAIN entries |-> [sl |-> entries[i].sl, words |-> <<entries[i]>>]]
    ELSE FoldLeft(AddToItems, <<>>, entries)

\* The jump tables: where the first three letters change, and the first two.
First(s, n) == SubSeq(s, 1, Least({n, Len(s)}))
Changes(items, n) ==
    SelectSeq([i \in DOMAIN items |-> i],
              LAMBDA i : First(items[i].sl, n) # (IF i = 1 THEN <<>> ELSE First(items[i - 1].sl, n)))
Jumps2(items) ==
    [k \in DOMAIN Changes(items, 3) |->
        [sl |-> First(items[Changes(items, 3)[k]].sl, 3), loc |-> Changes(items, 3)[k]]]
Jumps1(jump2) ==
    LET c == Changes(jump2, 2) IN [k \in DOMAIN c |-> [sl |-> First(jump2[c[k]].sl, 2), loc |-> c[k]]]
WithJumps(d, jump2) == d @@ [jump1 |-> Jumps1(jump2), jump2 |-> jump2]

\* The dictionary as it is written, and read again.  The counts begin at the second entry.
Compiled(entries, items, o) ==
    WithJumps([err |-> "none", kind |-> "readonly", entries |-> entries, items |-> items,
               invisible |-> Invisible(o), rootOnly |-> RootOnly(o), compressed |-> AffixCompress(o),
               count |-> Most({0, Len(entries) - 1}), sl |-> o.sl.name, storeAs |-> o.storeAs],
              Jumps2(items))
CompiledOf(entries, o) == Compiled(entries, Items(entries, o), o)

\* The first line that is wrong ends it.
Create(lines, o) ==
    LET wrong == {i \in DOMAIN lines : LineError(lines[i], o) # "none"}
    IN  IF wrong # {} THEN [err |-> LineError(lines[Least(wrong)], o)]
        ELSE CompiledOf(Unique(Sorted(ReadLines(lines, o))), o)

-----------------------------------------------------------------------------
\* Looking up.  The hash table holds the first of the entries of a clean form; the others
\* follow it.

RECURSIVE Chain(_, _)
Chain(d, i) == <<d.entries[i]>> \o (IF d.entries[i].dup THEN Chain(d, i + 1) ELSE <<>>)
Found(d, clean) ==
    LET at == {i \in DOMAIN d.entries : d.entries[i].clean = clean}
    IN  IF at = {} THEN <<>> ELSE Chain(d, Least(at))
CleanLookup(d, word) == Found(d, Clean(word, d.storeAs))
LookupAll(d, word, special, cmp) ==
    SelectSeq(CleanLookup(d, word), LAMBDA e : Sensitive(word, e.word, special, cmp))

-----------------------------------------------------------------------------
\* SoundslikeElements: at level 1 and 2 the entries of the jump tables, at level 3 the
\* items of one group.  cur is the item to come, 0 after the last of a group; prev the
\* text of the one before, absent after a jump.

StartScan == [level |-> 1, j1 |-> 1, j2 |-> 1, cur |-> 0, prev |-> <<>>, some |-> FALSE]
Jump(table, i) == IF i \in DOMAIN table THEN table[i] ELSE [sl |-> <<>>, loc |-> 0]
ItemText(d, i) == IF d.invisible THEN d.items[i].words[1].word ELSE d.items[i].sl
AfterItem(d, i) ==
    IF i = Len(d.items) \/ First(d.items[i + 1].sl, 3) # First(d.items[i].sl, 3)
    THEN 0 ELSE i + 1
\* Whether the text agrees with the one before as far as the distance had looked.
AlikeBefore(p, t, stop) ==
    stop \in 3..5 /\ \A n \in 4..stop : At(p, n) = At(t, n) /\ At(t, n) # ""
Alike(p, t, stop) ==
    /\ stop \in 3..5
    /\ \A n \in 4..(stop + 1) : At(p, n) = At(t, n) /\ (n <= stop => At(t, n) # "")

\* What next() gives: [text, item], item 0 for a jump, and the place it has come to.
AtJump(s, text) == [scan |-> [s EXCEPT !.some = FALSE], text |-> text, item |-> 0]
\* A change of the second letter alone is taken for one of the first two.
NextJump(d, s) ==
    LET old == Jump(d.jump2, s.j2).sl
        new == Jump(d.jump2, s.j2 + 1).sl
    IN  IF At(old, 2) # At(new, 2)
        THEN AtJump([s EXCEPT !.level = 1, !.j2 = @ + 1, !.j1 = @ + 1], Jump(d.jump1, s.j1 + 1).sl)
        ELSE AtJump([s EXCEPT !.level = 2, !.j2 = @ + 1], new)
RECURSIVE TakeItem(_, _, _, _)
TakeItem(d, s, i, stop) ==
    LET text == ItemText(d, i)
        after == [s EXCEPT !.level = 3, !.cur = AfterItem(d, i), !.prev = text, !.some = TRUE]
    IN  IF s.some /\ Alike(s.prev, text, stop)
        THEN IF after.cur = 0 THEN NextJump(d, after) ELSE TakeItem(d, after, after.cur, stop)
        ELSE [scan |-> after, text |-> text, item |-> i]
ScanNext(d, s, stop) ==
    IF s.level = 1 /\ stop < 2
    THEN AtJump([s EXCEPT !.j1 = @ + 1], Jump(d.jump1, s.j1 + 1).sl)
    ELSE IF s.level = 2 /\ stop < 3 THEN NextJump(d, s)
    ELSE IF s.level = 1
    THEN LET j == Jump(d.jump1, s.j1).loc
         IN  AtJump([s EXCEPT !.level = 2, !.j2 = j], Jump(d.jump2, j).sl)
    ELSE IF s.level = 2 THEN TakeItem(d, s, Jump(d.jump2, s.j2).loc, stop)
    ELSE IF s.cur = 0 THEN NextJump(d, s)
    ELSE TakeItem(d, s, s.cur, stop)

\* soundslike_lookup: the words of an item.  The end of the last one of a group is one
\* byte short, so that a last word of one letter that is not alone is missed.
ShortEnd(d, i) ==
    /\ ~d.invisible /\ AfterItem(d, i) = 0 /\ i < Len(d.items)
    /\ Len(d.items[i].words) > 1 /\ DataSize(Last(d.items[i].words)) = 2
ItemWords(d, i) ==
    IF i = 0 THEN <<>>
    ELSE IF ShortEnd(d, i) THEN Front(d.items[i].words) ELSE d.items[i].words
=============================================================================
