------------------------------- MODULE Affix -------------------------------
(***************************************************************************)
(* Affix compression (modules/speller/default/affix.cpp): the affix file   *)
(* is read into entries [flag, strip, add, conds, cross], which are kept   *)
(* in lists by flag (to add them to a word) and by the letter they begin  *)
(* or end with (to find them in one).  A list of the second kind is sorted *)
(* and has two links for each entry, so that a search only meets the       *)
(* entries that can still match.                                           *)
(***************************************************************************)
EXTENDS Language

NoLimit == 1000
CondBits == 8                  \* the positions a byte of Conds can tell apart

\* AffEntry::conds, from its text: [abc], [^abc], a letter, or a full stop for any.
CondGroup(cs) ==
    LET close == CHOOSE i \in DOMAIN cs : cs[i] = "]" /\ \A j \in 1..(i - 1) : cs[j] # "]"
        set == ToSet(SubSeq(cs, 2, close - 1))
    IN  [set |-> IF "^" \in set THEN ToSet(Chars) \ set ELSE set, size |-> close]
RECURSIVE CondSets(_)
CondSets(cs) ==
    IF cs = <<>> THEN <<>>
    ELSE IF cs[1] = "[" THEN <<CondGroup(cs).set>>
                             \o CondSets(SubSeq(cs, CondGroup(cs).size + 1, Len(cs)))
    ELSE <<IF cs[1] = "." THEN ToSet(Chars) ELSE {cs[1]}>> \o CondSets(Tail(cs))
Conds(cs) == IF cs = <<".">> THEN <<>> ELSE CondSets(cs)

\* normalize_cond_str: "invalid", or the text with a group of one letter written as
\* that letter (a group's letters are also sorted, which is of no matter here).
RECURSIVE NormalizeCond(_)
NormalizeCond(cs) ==
    LET closes == {i \in DOMAIN cs : cs[i] = "]"}
        close == CHOOSE i \in closes : \A j \in closes : i <= j
        rest(n) == NormalizeCond(SubSeq(cs, n, Len(cs)))
        join(part, tail) == IF tail = <<"invalid">> THEN tail ELSE part \o tail
    IN  IF cs = <<>> THEN <<>>
        ELSE IF cs[1] # "[" THEN join(<<cs[1]>>, rest(2))
        ELSE IF closes = {} THEN <<"invalid">>
        ELSE IF close = 3 THEN join(<<cs[2]>>, rest(4))
        ELSE IF close = 2 \/ \E i \in 2..close : cs[i] = "[" THEN <<"invalid">>
        ELSE join(SubSeq(cs, 1, close), rest(close + 1))

-----------------------------------------------------------------------------
\* Reading the affix file.  A line is a sequence of fields, a field a sequence of
\* characters; a line past the end of the file has none.

Field(lines, n, k) == IF n > Len(lines) \/ Len(lines[n]) < k THEN <<>> ELSE lines[n][k]
OrNothing(text) == IF text = <<"0">> THEN <<>> ELSE text
Count == [t \in {<<"0">>, <<"1">>, <<"2">>, <<"3">>} |->
            CASE t = <<"0">> -> 0 [] t = <<"1">> -> 1 [] t = <<"2">> -> 2 [] OTHER -> 3]

\* The condition of an entry that strips letters must hold those very letters.
StripInCond(kind, strip, cond) ==
    \/ strip = <<>>
    \/ kind = "P" /\ IsPrefix(strip, cond)
    \/ kind = "S" /\ IsSuffix(strip, cond)
AffixLine(lines, n, kind, flag, cross) ==
    LET strip == OrNothing(Field(lines, n, 3))
        cond == NormalizeCond(Field(lines, n, 5))
    IN  IF Field(lines, n, 2) = <<>> THEN [err |-> "corrupt_affix"]
        ELSE IF Field(lines, n, 2)[1] # flag THEN [err |-> "incorrect_count"]
        ELSE IF Field(lines, n, 5) = <<>> THEN [err |-> "corrupt_affix"]
        ELSE IF cond = <<"invalid">> THEN [err |-> "invalid_cond"]
        ELSE IF ~StripInCond(kind, strip, cond) THEN [err |-> "invalid_cond_strip"]
        ELSE [err |-> "none", kind |-> kind, flag |-> flag, strip |-> strip, cross |-> cross,
              add |-> OrNothing(Field(lines, n, 4)), conds |-> Conds(cond),
              key |-> IF kind = "S" THEN Reverse(OrNothing(Field(lines, n, 4)))
                      ELSE OrNothing(Field(lines, n, 4))]

\* A header: its flag and how many entries follow; or an error.
AffixHeader(lines, n, previous) ==
    LET flag == Field(lines, n, 2)
    IN  IF Len(flag) # 1 THEN "corrupt_affix"
        ELSE IF flag[1] = previous THEN "incorrect_count"
        ELSE IF Field(lines, n, 3) \notin {<<"Y">>, <<"N">>} \/ Field(lines, n, 4) = <<>>
             THEN "corrupt_affix"
        ELSE "none"

RECURSIVE ParseFrom(_, _, _, _), ParseEntries(_, _, _, _, _)
ParseFrom(lines, n, previous, entries) ==
    IF n > Len(lines) THEN [err |-> "none", entries |-> entries]
    ELSE IF lines[n][1] \notin {<<"P", "F", "X">>, <<"S", "F", "X">>}
         THEN ParseFrom(lines, n + 1, previous, entries)
    ELSE IF AffixHeader(lines, n, previous) # "none"
         THEN [err |-> AffixHeader(lines, n, previous), entries |-> entries]
    ELSE ParseEntries(lines, n + 1, n, Count[lines[n][4]], entries)
ParseEntries(lines, n, header, left, entries) ==
    IF left = 0 THEN ParseFrom(lines, n, lines[header][2][1], entries)
    ELSE LET e == AffixLine(lines, n, lines[header][1][1], lines[header][2][1],
                            lines[header][3] = <<"Y">>)
         IN  IF e.err # "none" THEN [err |-> e.err, entries |-> entries]
             ELSE ParseEntries(lines, n + 1, header, left - 1, Append(entries, e))
ParseFile(lines) == ParseFrom(lines, 1, "", <<>>)

-----------------------------------------------------------------------------
\* The lists.  An entry is put before those of its list.

ByFlag(aff, kind, flag) ==
    Reverse(SelectSeq(aff, LAMBDA e : e.kind = kind /\ e.flag = flag))
MaxStrip(aff, flag) ==
    LET lens == {Len(e.strip) : e \in {d \in ToSet(aff) : d.flag = flag}}
    IN  IF lens = {} THEN 0 ELSE CHOOSE n \in lens : \A m \in lens : m <= n
MaxStripAll(aff) ==
    LET lens == {Len(e.strip) : e \in ToSet(aff)}
    IN  IF lens = {} THEN 0 ELSE CHOOSE n \in lens : \A m \in lens : m <= n

\* lsort.hpp, on records with a key: runs of one, two, four... are merged as they fill.
\* Each of y is put before the first of what is left of x that is greater; x goes first.
RECURSIVE MergeInto(_, _)
MergeInto(x, y) ==
    IF y = <<>> THEN x
    ELSE IF Len(x) = 1 THEN x \o y
    ELSE IF WordLess(y[1].key, x[2].key)
         THEN <<x[1]>> \o MergeInto(<<y[1]>> \o Tail(x), Tail(y))
    ELSE <<x[1]>> \o MergeInto(Tail(x), y)
Merge(x, y) == IF WordLess(y[1].key, x[1].key) THEN MergeInto(y, x) ELSE MergeInto(x, y)
RECURSIVE Carry(_, _), CollectRuns(_, _), SortRuns(_, _)
Carry(runs, c) ==
    IF runs = <<>> THEN <<c>>
    ELSE IF runs[1] = <<>> THEN <<c>> \o Tail(runs)
    ELSE <<<<>>>> \o Carry(Tail(runs), Merge(runs[1], c))
CollectRuns(s, runs) ==
    IF s = <<>> THEN runs ELSE CollectRuns(Tail(s), Carry(runs, <<s[1]>>))
SortRuns(runs, below) ==
    IF runs = <<>> THEN below
    ELSE SortRuns(Tail(runs),
                  IF runs[1] = <<>> THEN below
                  ELSE IF below = <<>> THEN runs[1] ELSE Merge(runs[1], below))
ListSort(s) == SortRuns(CollectRuns(s, <<>>), <<>>)

\* build_pfxlist, build_sfxlist and the sorting: the entries whose key begins with c.
Start(aff, kind, c) ==
    ListSort(Reverse(SelectSeq(aff, LAMBDA e : e.kind = kind /\ e.key # <<>> /\ e.key[1] = c)))
StartEmpty(aff, kind) ==
    Reverse(SelectSeq(aff, LAMBDA e : e.kind = kind /\ e.key = <<>>))

\* The end of the run of entries after i whose keys i's key begins.
RunEnd(list, i) ==
    CHOOSE j \in i..Len(list) :
        /\ \A k \in (i + 1)..j : IsPrefix(list[i].key, list[k].key)
        /\ j < Len(list) => ~IsPrefix(list[i].key, list[j + 1].key)
\* next_eq and next_ne; 0 is the end of the search.
NextEq(list, i) == IF RunEnd(list, i) > i THEN i + 1 ELSE 0
NextNeUncut(list, i) == IF RunEnd(list, i) = Len(list) THEN 0 ELSE RunEnd(list, i) + 1
NextNeAfterAny(list, i) ==
    IF \E k \in 1..i : RunEnd(list, k) = i THEN 0 ELSE NextNeUncut(list, i)
NextNe(list, i) ==
    IF \E k \in 1..(i - 1) : RunEnd(list, k) = i THEN 0 ELSE NextNeUncut(list, i)

\* The entries a search in the list meets that match, in order.
RECURSIVE Walk(_, _, _)
Walk(list, i, backwards) ==
    IF i = 0 THEN <<>>
    ELSE IF IsPrefix(list[i].key, backwards)
         THEN <<list[i]>> \o Walk(list, NextEq(list, i), backwards)
         ELSE Walk(list, NextNe(list, i), backwards)
Search(list, word) == IF list = <<>> THEN <<>> ELSE Walk(list, 1, word)
Candidates(aff, kind, word) ==
    LET w == IF kind = "S" THEN Reverse(word) ELSE word
    IN  StartEmpty(aff, kind) \o Search(Start(aff, kind, w[1]), w)

-----------------------------------------------------------------------------
\* Adding an affix to a word.

CondHolds(e, n, c) == c \in e.conds[IF n <= CondBits THEN n ELSE CondBits]
CondsHold(e, w) ==
    /\ Len(w) >= Len(e.conds)
    /\ LET from == IF e.kind = "S" THEN Len(w) - Len(e.conds) ELSE 0
       IN  \A n \in DOMAIN e.conds : CondHolds(e, n, w[from + n])
Applicable(e, w) == Len(w) > Len(e.strip) /\ CondsHold(e, w)
AddPrefix(e, w) == e.add \o SubSeq(w, Len(e.strip) + 1, Len(w))
AddSuffix(e, w) == SubSeq(w, 1, Len(w) - Len(e.strip)) \o e.add

CheckAffix(aff, w, flag) ==
    LET entries == {e \in ToSet(aff) : e.flag = flag}
    IN  IF entries = {} THEN "InvalidAffix"
        ELSE IF \E e \in entries : Applicable(e, w) THEN "ValidAffix"
        ELSE "InapplicableAffix"

\* expand_suffix: the forms of word, a form of orig, under the suffixes of the flags;
\* left are the flags that stay on the word, a form no shorter than limit before the
\* suffix being left out.
TryEntry(acc, e, word, orig, limit) ==
    IF ~Applicable(e, orig) THEN acc
    ELSE IF Len(word) - Len(e.strip) >= limit THEN [acc EXCEPT !.notExpanded = TRUE]
    ELSE [acc EXCEPT !.words = Append(@, [word |-> AddSuffix(e, word), aff |-> <<>>]),
                     !.expanded = TRUE]
KeepFlag(acc, flag) ==
    IF ~acc.expanded \/ acc.notExpanded THEN [acc EXCEPT !.left = Append(@, flag)] ELSE acc
TryFlag(acc, flag, aff, word, orig, limit) ==
    KeepFlag(IF Len(word) - MaxStrip(aff, flag) < limit
             THEN FoldLeft(LAMBDA a, e : TryEntry(a, e, word, orig, limit), acc,
                           ByFlag(aff, "S", flag))
             ELSE acc, flag)
ExpandSuffix(aff, word, flags, orig, limit) ==
    FoldLeft(LAMBDA a, f : TryFlag(a, f, aff, word, orig, limit),
             [words |-> <<>>, left |-> <<>>, expanded |-> FALSE, notExpanded |-> FALSE], flags)

\* The word and its forms with a prefix, each with the suffix flags it may still take.
ExpandPrefix(aff, w, flags) ==
    LET sufs == SelectSeq(flags, LAMBDA f : ByFlag(aff, "S", f) # <<>>)
        crossed == SelectSeq(sufs, LAMBDA f : ByFlag(aff, "S", f)[1].cross)
        prefixes == FlattenSeq([i \in DOMAIN flags |->
                        SelectSeq(ByFlag(aff, "P", flags[i]), LAMBDA e : Applicable(e, w))])
    IN  <<[word |-> w, aff |-> sufs]>>
        \o [i \in DOMAIN prefixes |->
              [word |-> AddPrefix(prefixes[i], w),
               aff |-> IF prefixes[i].cross THEN crossed ELSE <<>>]]

\* expand: the words of an entry, its prefixed forms first; below a limit a word may
\* keep flags.
ExpandOne(p, aff, w, limit) ==
    IF Len(p.word) - MaxStripAll(aff) >= limit
    THEN [words |-> <<>>, left |-> p.aff]
    ELSE ExpandSuffix(aff, p.word, p.aff, w, limit)
Expand(aff, w, flags, limit) ==
    LET prefixed == ExpandPrefix(aff, w, flags)
        more == [i \in DOMAIN prefixed |-> ExpandOne(prefixed[i], aff, w, limit)]
    IN  IF limit = 0 THEN prefixed
        ELSE [i \in DOMAIN prefixed |-> [word |-> prefixed[i].word, aff |-> more[i].left]]
             \o FlattenSeq([i \in DOMAIN more |-> more[i].words])
Forms(aff, w, flags) == {x.word : x \in ToSet(Expand(aff, w, flags, NoLimit))}

-----------------------------------------------------------------------------
\* Finding the affixes of a word.  roots(e, w) is empty or holds the word without e.

Roots(e, w) ==
    LET rest == Len(w) - Len(e.add)
        root == IF e.kind = "S" THEN SubSeq(w, 1, rest) \o e.strip
                ELSE e.strip \o SubSeq(w, Len(e.add) + 1, Len(w))
    IN  {r \in {root} : rest > 0 /\ CondsHold(e, r)}

\* LookupInfo::lookup in a dictionary [entries, special]: the first entry that is the
\* word and has the flag.
Lookup(dict, w, cmp, flag) ==
    SelectSeq(dict.entries, LAMBDA d : Sensitive(w, d.word, dict.special, cmp)
                                       /\ flag \in ToSet(d.aff))
Whole(begin, end) == [begin |-> begin, end |-> end, caseInsensitive |-> FALSE]

\* SfxEntry::check; pre is the flag of the prefix it is crossed with, or "".
FitsAnyPrefix(found, pre) == found # <<>>
FitsPrefix(found, pre) == found # <<>> /\ (pre = "" \/ pre \in ToSet(found[1].aff))
SuffixHit(e, w, dict, pre) ==
    /\ pre = "" \/ e.cross
    /\ \E root \in Roots(e, w) :
          FitsPrefix(Lookup(dict, root, Whole(pre = "", FALSE), e.flag), pre)
SuffixCheck(aff, w, dict, pre) ==
    w # <<>> /\ \E e \in ToSet(Candidates(aff, "S", w)) : SuffixHit(e, w, dict, pre)
\* PfxEntry::check
PrefixHit(e, aff, w, dict) ==
    \E root \in Roots(e, w) :
       \/ Lookup(dict, root, Whole(FALSE, TRUE), e.flag) # <<>>
       \/ e.cross /\ SuffixCheck(aff, root, dict, e.flag)
PrefixCheck(aff, w, dict) ==
    w # <<>> /\ \E e \in ToSet(Candidates(aff, "P", w)) : PrefixHit(e, aff, w, dict)

\* affix_check
Decapitalised(w) == [w EXCEPT ![1] = ToLower(@)]
AffixCheckAs(case, aff, w, dict) ==
    LET lower == IF case = "FirstUpper" THEN Decapitalised(w) ELSE LowerWord(w)
        prefixed == IF case \in {"FirstUpper", "AllUpper"} THEN lower ELSE w
    IN  \/ PrefixCheck(aff, prefixed, dict)
        \/ SuffixCheck(aff, IF case = "AllUpper" THEN lower ELSE w, dict, "")
        \/ case = "FirstUpper" /\ SuffixCheck(aff, lower, dict, "")
AffixCheck(aff, w, dict) == w # <<>> /\ AffixCheckAs(CasePattern(w), aff, w, dict)

\* munch: every root and flag the word could be made of, the latest guess first.  With
\* the empty prefixes the search is always crossed.
SuffixGuesses(aff, w, pre) ==
    IF w = <<>> THEN <<>>
    ELSE LET found == SelectSeq(Candidates(aff, "S", w),
                                LAMBDA e : (pre = "" \/ e.cross) /\ Roots(e, w) # {})
         IN  Reverse([i \in DOMAIN found |->
                        [word |-> CHOOSE r \in Roots(found[i], w) : TRUE,
                         pre |-> pre, suf |-> found[i].flag]])
PrefixGuesses(e, root, aff, cross) ==
    (IF e.cross /\ (cross \/ e.key = <<>>) THEN SuffixGuesses(aff, root, e.flag) ELSE <<>>)
    \o <<[word |-> root, pre |-> e.flag, suf |-> ""]>>
AllPrefixGuesses(aff, w, cross) ==
    LET found == SelectSeq(Candidates(aff, "P", w), LAMBDA e : Roots(e, w) # {})
    IN  FlattenSeq(Reverse([i \in DOMAIN found |->
            PrefixGuesses(found[i], CHOOSE r \in Roots(found[i], w) : TRUE, aff, cross)]))
Munch(aff, w, cross) ==
    IF w = <<>> \/ CasePattern(w) = "AllUpper" THEN <<>>
    ELSE SuffixGuesses(aff, w, "")
         \o (IF CasePattern(w) = "FirstUpper" THEN <<>> ELSE AllPrefixGuesses(aff, w, cross))
=============================================================================
