----------------------------- MODULE MunchList -----------------------------
(***************************************************************************)
(* Affix compression of a word list: aspell munch-list, its simple and its *)
(* complete algorithm, aspell combine (prog/aspell.cpp), and the munching  *)
(* of MySpell.                                                             *)
(*                                                                         *)
(* The words of the input, expanded, are kept in a hash table; order is    *)
(* the order it is gone through.  A line of the result is [word, aff].     *)
(***************************************************************************)
EXTENDS Affix

Flag(f) == IF f = "" THEN <<>> ELSE <<f>>
AddFlag(flags, f) == IF f = "" \/ f \in ToSet(flags) THEN flags ELSE Append(flags, f)
TableOf(aff, lines) == UNION {Forms(aff, l.word, l.aff) : l \in ToSet(lines)}

-----------------------------------------------------------------------------
\* munch_list_simple: every word is given to the shortest base that can take it, that
\* is whose forms, with the flags it has and the new ones, are all words.

Takes(aff, table, affs, g) ==
    /\ g.word \in table
    /\ Forms(aff, g.word, affs[g.word] \o Flag(g.pre) \o Flag(g.suf)) \subseteq table
Shortest(best, g) == IF best = <<>> THEN <<g>>
                     ELSE IF Len(g.word) < Len(best[1].word) THEN <<g>> ELSE best
SimpleGive(st, w, best) ==
    IF best = <<>> THEN [st EXCEPT !.keep = @ \cup {w}]
    ELSE [keep |-> st.keep \cup {best[1].word},
          affs |-> [st.affs EXCEPT ![best[1].word] =
                        AddFlag(AddFlag(@, best[1].pre), best[1].suf)]]
SimpleStep(st, w, aff, table) ==
    SimpleGive(st, w, FoldLeft(LAMBDA b, g : IF Takes(aff, table, st.affs, g)
                                             THEN Shortest(b, g) ELSE b,
                               <<>>, Munch(aff, w, TRUE)))
KeptLines(order, st) ==
    LET kept == SelectSeq(order, LAMBDA w : w \in st.keep)
    IN  [i \in DOMAIN kept |-> [word |-> kept[i], aff |-> st.affs[kept[i]]]]
MunchSimple(aff, order) ==
    KeptLines(order, FoldLeft(LAMBDA st, w : SimpleStep(st, w, aff, ToSet(order)),
                              [keep |-> {}, affs |-> [w \in ToSet(order) |-> <<>>]], order))

-----------------------------------------------------------------------------
\* The complete version.  A forest [parent, rank] joins the words that are forms of the
\* same bases; a word without a parent stands for its set.

NoWord == <<>>
RECURSIVE FindSet(_, _), Compressed(_, _)
FindSet(parent, w) == IF parent[w] = NoWord THEN w ELSE FindSet(parent, parent[w])
Compressed(parent, w) ==
    IF parent[w] = NoWord THEN parent
    ELSE Compressed([parent EXCEPT ![w] = FindSet(parent, w)], parent[w])
Find(st, w) == [st EXCEPT !.parent = Compressed(@, w)]
\* x was the root of its set when it was found; it may not be one any more.
Link(st, x, y) ==
    IF x = y THEN st
    ELSE IF st.rank[x] > st.rank[y] THEN [st EXCEPT !.parent[y] = x]
    ELSE [st EXCEPT !.parent[x] = y,
                    !.rank[y] = IF st.rank[x] = st.rank[y] THEN @ + 1 ELSE @]
LinkForm(st, root, w) == Link(Find(st, w), root, FindSet(st.parent, w))
LinkForms(st, root, forms) ==
    FoldLeft(LAMBDA s, x : LinkForm(s, root, x.word), st, forms)

\* add_affix: prefixes and suffixes are kept apart.
AddAffix(st, g) ==
    LET has == ToSet(st.flags[g.word].pre \o st.flags[g.word].suf)
    IN  IF g.pre # "" /\ g.pre \notin has
        THEN [st EXCEPT !.flags[g.word].pre = Append(@, g.pre)]
        ELSE IF g.pre = "" /\ g.suf \notin has
        THEN [st EXCEPT !.flags[g.word].suf = Append(@, g.suf)]
        ELSE st

\* One guess for a word: assert(!(ci->pre_flag && ci->suf_flag)).
JoinForms(st, g, forms) ==
    LET flagged == AddAffix(Find(st, g.word), g)
    IN  LinkForms(flagged, FindSet(st.parent, g.word), forms)
TryGuess(st, g, aff, table) ==
    LET flag == IF g.pre # "" THEN g.pre ELSE g.suf
    IN  IF g.word \notin table THEN st
        ELSE IF g.pre # "" /\ g.suf # "" THEN [st EXCEPT !.aborted = TRUE]
        ELSE IF ~(Forms(aff, g.word, <<flag>>) \subseteq table) THEN st
        ELSE JoinForms(st, g, Expand(aff, g.word, <<flag>>, NoLimit))
MunchWord(st, w, aff, table) ==
    FoldLeft(LAMBDA s, g : IF s.aborted THEN s ELSE TryGuess(s, g, aff, table),
             st, Munch(aff, w, FALSE))
MunchAll(aff, order) ==
    FoldLeft(LAMBDA st, w : MunchWord(st, w, aff, ToSet(order)),
             [flags   |-> [w \in ToSet(order) |-> [pre |-> <<>>, suf |-> <<>>]],
              parent  |-> [w \in ToSet(order) |-> NoWord],
              rank    |-> [w \in ToSet(order) |-> 0],
              aborted |-> FALSE],
             order)

-----------------------------------------------------------------------------
\* The prefixes and suffixes of a base, [pre, suf]: all pairs whose forms are words,
\* joined where one side is the same.

Get(ps, which) == IF which = 0 THEN ps.pre ELSE ps.suf
AddFlags(flags, more) == FoldLeft(LAMBDA a, f : AddFlag(a, f), flags, more)
WithSame(in, i, which) ==
    SelectSeq(SubSeq(in, i, Len(in)), LAMBDA j : Get(j, which) = Get(in[i], which))
JoinSame(in, i, which) ==
    FoldLeft(LAMBDA a, j : IF which = 0 THEN [a EXCEPT !.suf = AddFlags(@, j.suf)]
                           ELSE [a EXCEPT !.pre = AddFlags(@, j.pre)],
             in[i], WithSame(in, i, which))
FirstOfSame(in, which) ==
    SelectSeq([i \in DOMAIN in |-> i],
              LAMBDA i : \A j \in 1..(i - 1) : Get(in[j], which) # Get(in[i], which))
CombinePairs(in, which) ==
    LET firsts == FirstOfSame(in, which)
    IN  Reverse([k \in DOMAIN firsts |-> JoinSame(in, firsts[k], which)])

AllPairs(aff, table, w, fl) ==
    Reverse(FlattenSeq([p \in DOMAIN fl.pre |-> [s \in DOMAIN fl.suf |->
                [pre |-> <<fl.pre[p]>>, suf |-> <<fl.suf[s]>>]]]))
LegalPairs(aff, table, w, fl) ==
    LET pairs == FlattenSeq([p \in DOMAIN fl.pre |-> [s \in DOMAIN fl.suf |->
                    [pre |-> <<fl.pre[p]>>, suf |-> <<fl.suf[s]>>]]])
    IN  Reverse(SelectSeq(pairs, LAMBDA ps : Forms(aff, w, ps.pre \o ps.suf) \subseteq table))
JoinAll(cross, fl) ==
    CombinePairs(CombinePairs(
        <<[pre |-> <<>>, suf |-> fl.suf], [pre |-> fl.pre, suf |-> <<>>]>>
        \o CombinePairs(CombinePairs(cross, 1), 0)
        \o CombinePairs(CombinePairs(cross, 0), 1), 0), 1)
MostForms(aff, w, pairs) ==
    FoldLeft(LAMBDA best, ps :
                IF Len(Expand(aff, w, ps.pre \o ps.suf, NoLimit)) >
                   (IF best = <<>> THEN 0
                    ELSE Len(Expand(aff, w, best[1].pre \o best[1].suf, NoLimit)))
                THEN <<ps>> ELSE best,
             <<>>, pairs)

\* The entries [word, aff] of a base, none for a word without flags.
BothSides(aff, table, w, fl, multi) ==
    LET pairs == JoinAll(LegalPairs(aff, table, w, fl), fl)
    IN  IF multi THEN pairs ELSE MostForms(aff, w, pairs)
BaseEntries(aff, table, w, fl, multi) ==
    LET pairs == IF fl.pre = <<>> /\ fl.suf = <<>> THEN <<>>
                 ELSE IF fl.pre = <<>> \/ fl.suf = <<>> THEN <<fl>>
                 ELSE BothSides(aff, table, w, fl, multi)
    IN  [i \in DOMAIN pairs |-> [word |-> w, aff |-> pairs[i].pre \o pairs[i].suf]]

-----------------------------------------------------------------------------
\* One disjoint set.  numbers gives every word of it a number, in the order it is met;
\* an expansion [word, aff, exp, orig] covers the numbers exp.

RECURSIVE Numbered(_, _)
Numbered(words, found) ==
    IF words = <<>> THEN found
    ELSE Numbered(Tail(words), IF words[1] \in ToSet(found) THEN found
                               ELSE Append(found, words[1]))
\* The words of a set: the one that stands for it, then the latest first.
Members(order, parent, root) ==
    <<root>> \o Reverse(SelectSeq(order, LAMBDA w : w # root /\ FindSet(parent, w) = root))

\* assert(0 <= e->rank && e->rank < entries.size()), with the numbers all sets have so far.
InRange(forms, numbers, size) ==
    \A w \in forms : w \in DOMAIN numbers /\ numbers[w] \in 1..size
ExpansionOf(e, aff, numbers) ==
    LET exp == {numbers[w] : w \in Forms(aff, e.word, e.aff)}
    IN  [word |-> e.word, aff |-> e.aff, exp |-> exp, orig |-> exp]

\* WorkingLt: most expansions, then the shortest word, the longest flags.
FlagsLess(f, g) == WordLess(f, g)
WorkingLess(x, y) ==
    LET nx == Cardinality(x.exp)
        ny == Cardinality(y.exp)
    IN  IF nx # ny THEN nx > ny
        ELSE IF Len(x.word) # Len(y.word) THEN Len(x.word) < Len(y.word)
        ELSE IF Len(x.aff) # Len(y.aff) THEN Len(x.aff) > Len(y.aff)
        ELSE IF x.word # y.word THEN WordLess(x.word, y.word)
        ELSE FlagsLess(x.aff, y.aff)
Covered(es) == UNION {e.exp : e \in ToSet(es)}
AllBut(es, out) == SelectSeq(es, LAMBDA e : e \notin out)

\* (1) no element within another; (2) those that alone cover an entry are kept, in the
\* order of the entries; (3) what the kept ones cover goes; (4) if that changed nothing
\* the first is kept; (5) the rest no longer counts what is kept.
Maximal(es) ==
    LET at == {i \in DOMAIN es : \A j \in 1..(i - 1) : ~(es[i].exp \subseteq es[j].exp)}
    IN  SelectSeq([i \in DOMAIN es |-> i], LAMBDA i : i \in at)
Only(es, n) == {e \in ToSet(es) : n \in e.exp}
Unique(es, size) ==
    LET alone == SelectSeq([n \in 1..size |-> n], LAMBDA n : Cardinality(Only(es, n)) = 1)
    IN  Numbered([k \in DOMAIN alone |-> CHOOSE e \in Only(es, alone[k]) : TRUE], <<>>)
Greedy(working, size, keep) ==
    IF working # <<>> /\ Len(working) = size
    THEN [keep |-> Append(keep, working[1]), working |-> Tail(working)]
    ELSE [keep |-> keep, working |-> working]
Purge(working, covered) ==
    [i \in DOMAIN working |-> [working[i] EXCEPT !.exp = @ \ covered]]
RECURSIVE Choose(_, _, _, _)
FinishRound(r, covered, entries) ==
    IF r.working = <<>> THEN [keep |-> r.keep, covered |-> covered]
    ELSE Choose(Purge(r.working, covered), r.keep, covered, entries)
KeepUnique(maximal, unique, keep, covered, size, entries) ==
    LET now == covered \cup Covered(unique)
        left == SelectSeq(AllBut(maximal, ToSet(unique)), LAMBDA e : ~(e.exp \subseteq now))
        r == Greedy(left, size, keep \o unique)
    IN  FinishRound(r, now \cup Covered(r.keep), entries)
ChooseSorted(sorted, keep, covered, entries) ==
    LET at == Maximal(sorted)
        maximal == [i \in DOMAIN at |-> sorted[at[i]]]
    IN  KeepUnique(maximal, Unique(maximal, entries), keep, covered, Len(sorted), entries)
Choose(working, keep, covered, entries) ==
    ChooseSorted(SortSeq(working, WorkingLess), keep, covered, entries)

\* Taking away the flags whose forms come with the entries before.
Without(flags, j) == SubSeq(flags, 1, j - 1) \o SubSeq(flags, j + 1, Len(flags))
Needless(e, flags, j, before, aff, numbers) ==
    before \cup {numbers[w] : w \in Forms(aff, e.word, Without(flags, j))} = before \cup e.exp
RECURSIVE FewerFlags(_, _, _, _, _)
FewerFlags(e, flags, before, aff, numbers) ==
    LET needless == {j \in DOMAIN flags : Needless(e, flags, j, before, aff, numbers)}
    IN  IF needless = {} THEN flags
        ELSE FewerFlags(e, Without(flags, CHOOSE j \in needless : \A k \in needless : j <= k),
                        before, aff, numbers)
SimplifyOne(acc, e, aff, numbers) ==
    [before |-> acc.before \cup e.exp,
     keep |-> Append(acc.keep, [e EXCEPT !.aff = FewerFlags(e, e.aff, acc.before, aff, numbers)])]
Simplified(keep, aff, numbers) ==
    FoldLeft(LAMBDA acc, e : SimplifyOne(acc, e, aff, numbers), [before |-> {}, keep |-> <<>>],
             SortSeq([i \in DOMAIN keep |-> [keep[i] EXCEPT !.exp = keep[i].orig]],
                     WorkingLess)).keep

\* The lines of a set: what is kept, then the words nothing kept expands to.
SetLines(chosen, keep, words) ==
    LET rest == SelectSeq([n \in DOMAIN words |-> n], LAMBDA n : n \notin chosen.covered)
    IN  [i \in DOMAIN keep |-> [word |-> keep[i].word, aff |-> keep[i].aff]]
        \o [i \in DOMAIN rest |-> [word |-> words[rest[i]], aff |-> <<>>]]
ChosenLines(chosen, words, aff, numbers, simplify) ==
    SetLines(chosen, IF simplify THEN Simplified(chosen.keep, aff, numbers) ELSE chosen.keep,
             words)
LinesOfSet(words, entries, aff, numbers, simplify) ==
    ChosenLines(Choose([i \in DOMAIN entries |-> ExpansionOf(entries[i], aff, numbers)],
                       <<>>, {}, Len(words)),
                words, aff, numbers, simplify)

\* All sets, in the order of the words that stand for them.
Renumber(numbers, words) ==
    [w \in DOMAIN numbers |-> IF w \in ToSet(words)
                              THEN CHOOSE n \in DOMAIN words : words[n] = w ELSE numbers[w]]
AddSet(acc, words, entries, numbers, aff, simplify) ==
    IF \E e \in ToSet(entries) : ~InRange(Forms(aff, e.word, e.aff), numbers, Len(words))
    THEN [acc EXCEPT !.aborted = TRUE]
    ELSE [acc EXCEPT !.lines = @ \o LinesOfSet(words, entries, aff, numbers, simplify),
                     !.numbers = numbers]
SetStep(acc, words, bases, aff, simplify) ==
    AddSet(acc, words, FlattenSeq([n \in DOMAIN words |-> bases[words[n]]]),
           Renumber(acc.numbers, words), aff, simplify)
CompleteSets(st, order, bases, aff, simplify) ==
    FoldLeft(LAMBDA acc, root : IF acc.aborted THEN acc
                                ELSE SetStep(acc, Members(order, st.parent, root), bases, aff, simplify),
             [lines |-> <<>>, numbers |-> [w \in ToSet(order) |-> 0], aborted |-> st.aborted],
             SelectSeq(order, LAMBDA w : st.parent[w] = NoWord))
CompleteOf(st, aff, order, multi, simplify) ==
    CompleteSets(st, order,
                 [w \in ToSet(order) |-> BaseEntries(aff, ToSet(order), w, st.flags[w], multi)],
                 aff, simplify)
MunchComplete(aff, order, multi, simplify) ==
    CompleteOf(MunchAll(aff, order), aff, order, multi, simplify)

-----------------------------------------------------------------------------
\* combine: lines that follow each other and have the same base, but for the case of
\* its first letter, become one.
LowerEqual(a, b) ==
    /\ Len(a) = Len(b) /\ a # <<>>
    /\ ToLower(a[1]) = ToLower(b[1]) /\ Tail(a) = Tail(b)
CombineLine(lines, l) ==
    IF lines # <<>> /\ LowerEqual(Last(lines).word, l.word)
    THEN Front(lines) \o
         <<[word |-> IF LowerWord(Last(lines).word) = Last(lines).word THEN Last(lines).word
                     ELSE l.word,
            aff |-> AddFlags(Last(lines).aff, l.aff)]>>
    ELSE Append(lines, l)
CombineLines(lines) == FoldLeft(LAMBDA acc, l : CombineLine(acc, l), <<>>, lines)

-----------------------------------------------------------------------------
\* The munch program that comes from MySpell (myspell/munch.c) reads the same affix
\* files, trusting them, and gives every word of a list to the shortest base in the
\* list that can take it.  A prefix and a suffix are only crossed when the word
\* without the prefix is in the list, and prefixes are added to the words that have
\* their suffix already.

\* parse_aff_file: the entries of a header take what is read, the last line again when
\* the file ends.
LineAt(lines, n) == lines[IF n > Len(lines) THEN Len(lines) ELSE n]
TrustedEntry(header, line) ==
    [kind |-> header[1][1], flag |-> header[2][1], cross |-> header[3][1] = "Y",
     strip |-> OrNothing(line[3]), add |-> OrNothing(line[4]), conds |-> Conds(line[5])]
RECURSIVE ParseTrusting(_, _)
ParseTrusting(lines, n) ==
    IF n > Len(lines) THEN <<>>
    ELSE IF lines[n][1] \notin {<<"P", "F", "X">>, <<"S", "F", "X">>}
         THEN ParseTrusting(lines, n + 1)
    ELSE [k \in 1..Count[lines[n][4]] |-> TrustedEntry(lines[n], LineAt(lines, n + k))]
         \o ParseTrusting(lines, n + 1 + Count[lines[n][4]])

\* load_tables, mychomp: the last character of a line is cut off, a newline or not.
ChompAll(words, newlineAtEnd) ==
    [i \in DOMAIN words |-> IF i < Len(words) \/ newlineAtEnd THEN words[i]
                            ELSE Front(words[i])]

\* A condition past the bits of an unsigned char never holds.
TrustedRoots(e, w) == IF Len(e.conds) > CondBits THEN {} ELSE Roots(e, w)
HasAffix(e, w) == IF e.kind = "S" THEN IsSuffix(e.add, w) ELSE IsPrefix(e.add, w)
RootsIn(aff, kind, w, table, crossedOnly, prefix) ==
    LET found == SelectSeq(aff, LAMBDA e :
                    /\ e.kind = kind /\ HasAffix(e, w)
                    /\ ~crossedOnly \/ e.cross
                    /\ TrustedRoots(e, w) \cap table # {})
    IN  [i \in DOMAIN found |->
           [word |-> CHOOSE r \in TrustedRoots(found[i], w) : TRUE,
            pre |-> IF kind = "P" THEN found[i].flag ELSE prefix,
            suf |-> IF kind = "S" THEN found[i].flag ELSE "",
            cross |-> found[i].cross]]
\* aff_chk: short words are left alone.
MinMunched == 4
WithSuffixes(prefixed, aff, w, table) ==
    LET crossed == SelectSeq(prefixed, LAMBDA r : r.cross)
    IN  prefixed
        \o FlattenSeq([i \in DOMAIN crossed |->
               RootsIn(aff, "S", crossed[i].word, table, TRUE, crossed[i].pre)])
        \o RootsIn(aff, "S", w, table, FALSE, "")
RootsOf(aff, w, table) ==
    IF Len(w) < MinMunched THEN <<>>
    ELSE WithSuffixes(RootsIn(aff, "P", w, table, FALSE, ""), aff, w, table)

\* pfx_add, suf_add and expand_rootword.
TrustedApplies(e, w) == Len(e.conds) <= CondBits /\ Applicable(e, w)
OfFlags(aff, kind, flags) ==
    SelectSeq(aff, LAMBDA e : e.kind = kind /\ e.flag \in ToSet(flags))
Suffixed(aff, w, flags) ==
    SelectSeq(OfFlags(aff, "S", flags), LAMBDA e : TrustedApplies(e, w))
PrefixAll(entries, w) == {AddPrefix(e, w) : e \in {d \in ToSet(entries) : TrustedApplies(d, w)}}
CrossForms(entries, suffixed, w) ==
    UNION {PrefixAll(SelectSeq(entries, LAMBDA e : e.cross), AddSuffix(s, w)) :
             s \in {d \in ToSet(suffixed) : d.cross}}
TrustedForms(aff, w, flags) ==
    LET suffixed == Suffixed(aff, w, flags)
        prefixes == OfFlags(aff, "P", flags)
    IN  {w} \cup {AddSuffix(s, w) : s \in ToSet(suffixed)}
        \cup CrossForms(prefixes, suffixed, w) \cup PrefixAll(prefixes, w)

\* main: the loop over the table and the words it keeps.
TrustedTakes(aff, table, affs, r) ==
    TrustedForms(aff, r.word, Flag(r.pre) \o Flag(r.suf) \o affs[r.word]) \subseteq table
TrustedStep(st, w, aff, table) ==
    SimpleGive(st, w, FoldLeft(LAMBDA b, r : IF TrustedTakes(aff, table, st.affs, r)
                                             THEN Shortest(b, r) ELSE b,
                               <<>>, RootsOf(aff, w, table)))
MySpell(aff, order) ==
    KeptLines(order, FoldLeft(LAMBDA st, w : TrustedStep(st, w, aff, ToSet(order)),
                              [keep |-> {}, affs |-> [w \in ToSet(order) |-> <<>>]], order))
=============================================================================
