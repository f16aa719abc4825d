------------------------------ MODULE Suggest ------------------------------
(***************************************************************************)
(* Suggestions for a misspelled word (modules/speller/default/suggest.cpp).*)
(* Near misses are collected from the word split in two, the table of      *)
(* replacements, the words one edit away, the dictionaries gone through by *)
(* soundslike, and n-grams; they are scored, some of them kept, put in     *)
(* order and made into a list.                                             *)
(*                                                                         *)
(* A speller is [dicts, aff, sl, storeAs, repl, splitChars, special, typo, *)
(* ignore, sug]: its dictionaries, one of each kind, in the order of       *)
(* suggest_ws, the data of its language, the letters of a word that is not *)
(* looked up, and the options of its suggestions.  Run-together words and  *)
(* camelCase, which have edits of their own, are left out.                 *)
(***************************************************************************)
EXTENDS ReadOnlyDict

CONSTANTS NgramKeep,         \* ngram_keep (10)
          MaxSuggestions,    \* limit (100)
          MaxSlowSuggestions \* limit of the slow modes (1000)

Overflow == 32768            \* the scores of a longer word could pass 2^15
TooLong(word) == Len(word) * Weights.max >= Overflow

-----------------------------------------------------------------------------
\* SuggestParms::init; known says that the language has soundslikes.  What the mode says
\* of typing errors, and the language of replacements, an option may say otherwise.

Modes == {"ultra", "fast", "normal", "slow", "bad-spellers"}
Skip == 2
Chosen(option, otherwise) == IF option = "unset" THEN otherwise ELSE option = "true"
ParmsOf(mode, known, haveRepl, o) ==
    [scan0 |-> mode = "ultra" /\ known,
     scan1 |-> mode \in {"fast", "normal"} /\ known,
     scan2 |-> mode \in {"normal", "slow", "bad-spellers"},
     ngram |-> mode \in {"slow", "bad-spellers"},
     \* Without soundslikes these would find no more than the words one edit away.
     stopEarly |-> mode \in {"ultra", "fast", "normal"} /\ ~known,
     typo |-> Chosen(o.typo, mode # "bad-spellers"),
     repl |-> Chosen(o.repl, haveRepl),
     limit |-> IF mode \in {"slow", "bad-spellers"} THEN MaxSlowSuggestions ELSE MaxSuggestions,
     slWeight |-> IF mode = "bad-spellers" THEN 55 ELSE 50,
     wordWeight |-> IF mode = "bad-spellers" THEN 45 ELSE 50,
     span |-> IF mode = "bad-spellers" THEN 125 ELSE 50,
     ngramThreshold |-> IF mode = "bad-spellers" \/ (mode = "slow" /\ known) THEN 1 ELSE 2]

-----------------------------------------------------------------------------
\* The dictionaries.  suggest_ws begins with the largest, then the others of its kind,
\* and so on; some properties of the speller are those of the first.

DictSize(d) == IF d.kind = "readonly" THEN d.count ELSE Len(d.words)
RECURSIVE SuggestOrder(_, _)
SuggestOrder(all, kind) ==
    LET own == {i \in DOMAIN all : kind \in {"", all[i].kind}}
        largest == Least({i \in own : \A j \in own : DictSize(all[j]) <= DictSize(all[i])})
    IN  IF all = <<>> THEN <<>>
        ELSE IF own = {} THEN SuggestOrder(all, "")
        ELSE <<all[largest]>> \o SuggestOrder(RemoveAt(all, largest), all[largest].kind)
FastScan(sp) == sp.dicts[1].kind = "readonly"
ScanRootOnly(sp) == sp.dicts[1].kind = "readonly" /\ sp.dicts[1].rootOnly
WithAffixes(sp) ==
    SelectSeq(sp.dicts, LAMBDA d : d.kind = "readonly" /\ d.compressed)

\* clean_lookup: a writable dictionary gives one of the words of a clean form.
FirstOnly(s) == IF s = <<>> THEN <<>> ELSE <<s[1]>>
CleanEntries(d, str, storeAs) ==
    IF d.kind = "readonly" THEN CleanLookup(d, str)
    ELSE FirstOnly(SelectSeq(d.words, LAMBDA e : SameWord(e.word, str, storeAs)))
Corrections(d, e) == IF d.kind = "repl" THEN e.repls ELSE <<>>

\* WritableDict::lookup.  The corrections of a word found by its soundslike are looked up
\* by the word, and may be those of another of its clean form.
Compare == [begin |-> TRUE, end |-> TRUE, caseInsensitive |-> FALSE]
WritableLookup(sp, d, w) ==
    SelectSeq(d.words, LAMBDA e : /\ SameWord(e.word, w, sp.storeAs)
                                  /\ Sensitive(w, e.word, sp.special, Compare))
SoundCorrections(sp, d, e) ==
    IF d.kind = "repl" THEN WritableLookup(sp, d, e.word)[1].repls ELSE <<>>

\* affix_check with LookupInfo::Clean, of a clean word: the first root that is found,
\* with the affixes, in the case it is listed in.
RootEntries(sp, root, flag) ==
    SelectSeq(FlattenSeq([i \in DOMAIN WithAffixes(sp) |-> CleanLookup(WithAffixes(sp)[i], root)]),
              LAMBDA e : flag \in ToSet(e.aff))
SuffixFound(sp, e, w, pre) ==
    IF (pre # "" /\ ~e.cross) \/ Roots(e, w) = {} THEN <<>>
    ELSE LET found == RootEntries(sp, CHOOSE r \in Roots(e, w) : TRUE, e.flag)
         IN  IF FitsPrefix(found, pre) THEN <<AddSuffix(e, found[1].word)>> ELSE <<>>
SuffixWords(sp, w, pre) ==
    LET all == IF w = <<>> THEN <<>> ELSE Candidates(sp.aff, "S", w)
    IN  FlattenSeq([i \in DOMAIN all |-> SuffixFound(sp, all[i], w, pre)])
PrefixFound(sp, e, root) ==
    LET found == FirstOnly(RootEntries(sp, root, e.flag))
        words == [i \in DOMAIN found |-> found[i].word]
                 \o (IF e.cross THEN SuffixWords(sp, root, e.flag) ELSE <<>>)
    IN  [i \in DOMAIN words |-> AddPrefix(e, words[i])]
PrefixWords(sp, w) ==
    LET all == SelectSeq(IF w = <<>> THEN <<>> ELSE Candidates(sp.aff, "P", w),
                         LAMBDA e : Roots(e, w) # {})
    IN  FlattenSeq([i \in DOMAIN all |->
            PrefixFound(sp, all[i], CHOOSE r \in Roots(all[i], w) : TRUE)])
AffixWord(sp, w) ==
    IF WithAffixes(sp) = <<>> THEN <<>>
    ELSE FirstOnly(PrefixWords(sp, w) \o SuffixWords(sp, w, ""))

\* SpellerImpl::check of a whole word; the replacements are not looked at, and a short
\* word is not looked up.
AffixEntries(sp) ==
    FlattenSeq([i \in DOMAIN WithAffixes(sp) |-> WithAffixes(sp)[i].entries])
CheckedIn(sp, d, w) ==
    IF d.kind = "readonly" THEN LookupAll(d, w, sp.special, Compare) # <<>>
    ELSE d.kind = "writable" /\ WritableLookup(sp, d, w) # <<>>
Checked(sp, w) ==
    \/ Len(w) <= sp.ignore
    \/ \E d \in ToSet(sp.dicts) : CheckedIn(sp, d, w)
    \/ /\ WithAffixes(sp) # <<>>
       /\ AffixCheck(sp.aff, w, [entries |-> AffixEntries(sp), special |-> sp.special])

-----------------------------------------------------------------------------
\* Near misses.  A score that is not known yet is LargeNum; what is found first stands
\* last.  A soundslike may be known, and at says which text of a dictionary it is then, if
\* it has not been made anew.

NewText == <<"new", 0>>
NoInfo == [known |-> FALSE, sl |-> <<>>, at |-> NewText, ws |-> LargeNum, ss |-> LargeNum,
           count |-> TRUE, special |-> FALSE, table |-> FALSE]
NearMiss(sp, word, repls, inf) ==
    LET lone == ~HaveSoundslike(sp.sl)
    IN  [word |-> word, repls |-> repls, clean |-> Clean(word, sp.storeAs),
         sl |-> IF inf.known THEN inf.sl ELSE ToSoundslike(sp.sl, word, sp.storeAs),
         at |-> inf.at,
         ws |-> IF lone /\ inf.ws >= LargeNum THEN inf.ss ELSE inf.ws,
         ss |-> IF lone /\ inf.ss >= LargeNum THEN inf.ws ELSE inf.ss,
         count |-> inf.count, special |-> inf.special, table |-> inf.table,
         score |-> LargeNum, adj |-> LargeNum]
AddNearMiss(sp, near, word, repls, inf) ==
    IF TooLong(word) THEN near ELSE <<NearMiss(sp, word, repls, inf)>> \o near
\* Words with their corrections, one after the other.
AddEntries(sp, near, entries, inf) ==
    LET short == SelectSeq(entries, LAMBDA e : ~TooLong(e.word))
    IN  Reverse([i \in DOMAIN short |-> NearMiss(sp, short[i].word, short[i].repls, inf)]) \o near
Uncorrected(words) == [i \in DOMAIN words |-> [word |-> words[i], repls |-> <<>>]]
AddWords(sp, near, words, inf) == AddEntries(sp, near, Uncorrected(words), inf)

\* try_word_n: the words of the dictionaries, and a word with an affix.
FoundIn(d, entries) ==
    [i \in DOMAIN entries |-> [word |-> entries[i].word, repls |-> Corrections(d, entries[i])]]
TryWord(sp, str) ==
    FlattenSeq([k \in DOMAIN sp.dicts |->
        FoundIn(sp.dicts[k], CleanEntries(sp.dicts[k], str, sp.storeAs))])
    \o Uncorrected(AffixWord(sp, str))

\* try_split: the word in two of two letters at least, the last place first.
SplitScore == Weights.max + 2
SplitInfo == [NoInfo EXCEPT !.known = TRUE, !.ws = SplitScore, !.ss = SplitScore,
                            !.count = FALSE, !.special = TRUE]
Halves(w, i) == <<SubSeq(w, 1, i), SubSeq(w, i + 1, Len(w))>>
SplitAfter(sp, w, i) ==
    IF Checked(sp, Halves(w, i)[1])
    THEN [k \in DOMAIN sp.splitChars |-> Halves(w, i)[1] \o <<sp.splitChars[k]>> \o Halves(w, i)[2]]
    ELSE <<>>
SplitAt(sp, w, i) ==
    IF \A h \in ToSet(Halves(w, i)) : Checked(sp, h)
    THEN [k \in DOMAIN sp.splitChars |-> Halves(w, i)[1] \o <<sp.splitChars[k]>> \o Halves(w, i)[2]]
    ELSE <<>>
TrySplit(sp, near, w) ==
    IF Len(w) < 4 THEN near
    ELSE AddWords(sp, near, FlattenSeq([n \in 1..(Len(w) - 3) |-> SplitAt(sp, w, Len(w) - 1 - n)]),
                  SplitInfo)

\* try_repl: every place where the first text of a pair stands takes the second.
ReplInfo == [NoInfo EXCEPT !.ws = (Weights.sub * 3) \div 2, !.table = TRUE]
RECURSIVE ReplacedFrom(_, _, _)
ReplacedFrom(w, i, r) ==
    LET at == {j \in i..(Len(w) - Len(r.sub) + 1) : SubSeq(w, j, j + Len(r.sub) - 1) = r.sub}
        j == Least(at)
    IN  IF at = {} THEN <<>>
        ELSE <<SubSeq(w, 1, j - 1) \o r.repl \o SubSeq(w, j + Len(r.sub), Len(w))>>
             \o ReplacedFrom(w, j + Len(r.sub), r)
TryAll(sp, near, words, inf) ==
    AddEntries(sp, near, FlattenSeq([i \in DOMAIN words |-> TryWord(sp, words[i])]), inf)
TryRepl(sp, near, clean) ==
    TryAll(sp, near, FlattenSeq([k \in DOMAIN sp.repl |-> ReplacedFrom(clean, 1, sp.repl[k])]),
           ReplInfo)

\* try_one_edit_word.  All of its words are made in one buffer, a letter at a time;
\* an edit is the buffer and the words tried in it so far.
Buffer(w) == [buf |-> w, tried |-> <<>>]
Put(e, i, c) == [e EXCEPT !.buf[i] = c]
TryBuffer(e) == [e EXCEPT !.tried = Append(@, e.buf)]
Forwards(n) == [i \in 1..n |-> i]
Backwards(n) == [i \in 1..n |-> n + 1 - i]

\* Every character at place i that is not there in the word.
SubstituteAt(e, w, i, cs) ==
    LET others == SelectSeq(cs, LAMBDA c : c # w[i])
    IN  Put(FoldLeft(LAMBDA d, c : TryBuffer(Put(d, i, c)), e, others), i, w[i])
Substitutions(e, w, cs) ==
    FoldLeft(LAMBDA d, i : SubstituteAt(d, w, i, cs), e, Forwards(Len(w)))

\* Mutant: the letters are not put back.
InterchangesLeft(e, w) ==
    FoldLeft(LAMBDA d, i : TryBuffer(Put(Put(d, i, d.buf[i + 1]), i + 1, d.buf[i])),
             e, Forwards(Len(w) - 1))
InterchangeAt(e, i) ==
    LET swapped == TryBuffer(Put(Put(e, i, e.buf[i + 1]), i + 1, e.buf[i]))
    IN  Put(Put(swapped, i, e.buf[i]), i + 1, e.buf[i + 1])
Interchanges(e, w) == FoldLeft(InterchangeAt, e, Forwards(Len(w) - 1))

\* A place more at the end, which then moves to the front.
AddAt(e, i, cs) ==
    LET tried == FoldLeft(LAMBDA d, c : TryBuffer(Put(d, i, c)), e, cs)
    IN  IF i = 1 THEN tried ELSE Put(tried, i, tried.buf[i - 1])
Additions(e, w, cs) ==
    FoldLeft(LAMBDA d, i : AddAt(d, i, cs), [e EXCEPT !.buf = Append(@, " ")],
             Backwards(Len(w) + 1))

\* The word anew, without its last letter; the missing letter then moves to the front.
DropAt(e, i) ==
    TryBuffer([e EXCEPT !.buf[i] = e.missing, !.missing = e.buf[i]])
Deletions(w) ==
    LET start == [buf |-> Front(w), tried |-> <<>>, missing |-> Last(w)]
    IN  IF Len(w) < 2 THEN <<>>
        ELSE FoldLeft(DropAt, TryBuffer(start), Backwards(Len(w) - 1)).tried

WordScore(score) == [NoInfo EXCEPT !.ws = score]
TryOneEdit(sp, near, w, cs) ==
    LET changed == Substitutions(Buffer(w), w, cs)
        swapped == Interchanges(Buffer(changed.buf), w)
        longer == Additions(Buffer(swapped.buf), w, cs)
        try(now, words, score) == TryAll(sp, now, words, WordScore(score))
        with1 == try(try(near, <<w>>, 0), changed.tried, Weights.sub)
        with2 == try(try(with1, swapped.tried, Weights.swap), longer.tried, Weights.del1)
    IN  try(with2, Deletions(w), Weights.del2)

-----------------------------------------------------------------------------
\* Going through the dictionaries.  An element is [sl, at, word, words]: a soundslike with
\* its words, or (word) a word that stands for its soundslike; a jump has no words.

ReadOnlyElement(sp, d, got) ==
    IF got.item = 0 \/ ~d.invisible
    THEN [sl |-> got.text, word |-> FALSE, words |-> ItemWords(d, got.item),
          at |-> IF got.item = 0 THEN NewText ELSE <<d.kind, got.item>>]
    ELSE [sl |-> ToSoundslike(sp.sl, got.text, sp.storeAs), at |-> NewText, word |-> TRUE,
          words |-> ItemWords(d, got.item)]
\* The elements of a writable dictionary, which takes no hint.
Grouped(sp, kind, words) ==
    LET slOf(e) == ToSoundslike(sp.sl, e.word, sp.storeAs)
        firsts == SelectSeq([i \in DOMAIN words |-> i],
                            LAMBDA i : \A j \in 1..(i - 1) : slOf(words[j]) # slOf(words[i]))
    IN  [k \in DOMAIN firsts |->
            [sl |-> slOf(words[firsts[k]]), at |-> <<kind, k>>, word |-> FALSE,
             words |-> SelectSeq(words, LAMBDA e : slOf(e) = slOf(words[firsts[k]]))]]
WritableElements(sp, d) ==
    IF HaveSoundslike(sp.sl) THEN Grouped(sp, d.kind, d.words)
    ELSE [i \in DOMAIN d.words |-> [sl |-> ToSoundslike(sp.sl, d.words[i].word, sp.storeAs),
                                   at |-> NewText, word |-> TRUE, words |-> <<d.words[i]>>]]

\* add_sound: the words of an element, and their forms, of which nothing is known.
SoundInfo(sl, at, score) ==
    [NoInfo EXCEPT !.known = TRUE, !.sl = sl, !.at = at, !.ss = score]
FormsOf(sp, e) ==
    IF e.aff = <<>> THEN <<>>
    ELSE LET all == Tail(Expand(sp.aff, e.word, e.aff, NoLimit))
         IN  [i \in DOMAIN all |-> all[i].word]
AddSound(sp, near, d, el, score) ==
    FoldLeft(LAMBDA acc, e :
                 AddWords(sp, AddNearMiss(sp, acc, e.word, SoundCorrections(sp, d, e),
                                          SoundInfo(el.sl, el.at, score)),
                          FormsOf(sp, e), NoInfo),
             near, el.words)

\* An element against the soundslikes looked for; stop says how much of it had to be
\* looked at, LargeNum that it was close enough.
TrySound(sp, d, el, tries, acc) ==
    LET fits == {k \in DOMAIN tries : tries[k].score < LargeNum}
    IN  IF fits = {} THEN [acc EXCEPT !.stop = Least({t.stop : t \in ToSet(tries)})]
        ELSE [near |-> AddSound(sp, acc.near, d, el, tries[Least(fits)].score),
              stop |-> LargeNum]

\* An entry with affix flags: the word, then its suffixed forms when what was looked at
\* reaches where they differ.
AddIfNear(sp, near, word, sl, score) ==
    IF score >= LargeNum THEN near
    ELSE AddNearMiss(sp, near, word, <<>>, SoundInfo(sl, NewText, score))
TryForm(sp, near, word, target, n) ==
    LET sl == ToSoundslike(sp.sl, word, sp.storeAs)
    IN  AddIfNear(sp, near, word, sl, LimitN(sl, target, n, Weights).score)
\* An unsigned difference: a word shorter than the longest strip is past any place.
SuffixesMatter(sp, word, stop) ==
    Len(word) >= MaxStripAll(sp.aff) /\ Len(word) - MaxStripAll(sp.aff) <= stop
TryRootAs(sp, acc, p, sl, r, target, n) ==
    LET stop == r.stop + Len(p.word) - Len(sl)
        forms == IF SuffixesMatter(sp, p.word, stop)
                 THEN ExpandSuffix(sp.aff, p.word, p.aff, p.word, stop + 1).words ELSE <<>>
    IN  [near |-> FoldLeft(LAMBDA near, f : TryForm(sp, near, f.word, target, n),
                           AddIfNear(sp, acc.near, p.word, sl, r.score), forms),
         stop |-> IF r.score < LargeNum THEN LargeNum ELSE stop]
TryRoot(sp, acc, p, target, n) ==
    LET sl == ToSoundslike(sp.sl, p.word, sp.storeAs)
    IN  TryRootAs(sp, acc, p, sl, LimitN(sl, target, n, Weights), target, n)
TryAffixed(sp, e, target, n, acc) ==
    FoldLeft(LAMBDA a, p : TryRoot(sp, a, p, target, n), acc,
             IF FastScan(sp) THEN <<[word |-> e.word, aff |-> e.aff]>>
             ELSE ExpandPrefix(sp.aff, e.word, e.aff))

\* targets: the soundslike of the word and, where only roots are listed, of the roots it
\* could be a form of.
TryElement(sp, d, el, targets, n, acc) ==
    IF el.word /\ el.words[1].aff # <<>> /\ ~ScanRootOnly(sp)
    THEN TryAffixed(sp, el.words[1], targets[1], n, acc)
    ELSE TrySound(sp, d, el, [k \in DOMAIN targets |-> LimitN(el.sl, targets[k], n, Weights)], acc)
RECURSIVE ScanPlace(_, _, _, _, _, _)
ScanPlace(sp, d, got, targets, n, acc) ==
    IF got.text = <<>> THEN acc
    ELSE LET next == TryElement(sp, d, ReadOnlyElement(sp, d, got), targets, n, acc)
         IN  ScanPlace(sp, d, ScanNext(d, got.scan, next.stop), targets, n, next)
\* What was looked at of the last element of a dictionary is still there for the next.
ScanDict(sp, d, targets, n, acc) ==
    IF d.kind = "readonly"
    THEN ScanPlace(sp, d, ScanNext(d, StartScan, acc.stop), targets, n, acc)
    ELSE FoldLeft(LAMBDA a, el : TryElement(sp, d, el, targets, n, a), acc, WritableElements(sp, d))
RootTargets(sp, word) ==
    LET guesses == Munch(sp.aff, word, TRUE)
        sls == [i \in DOMAIN guesses |-> ToSoundslike(sp.sl, guesses[i].word, sp.storeAs)]
    IN  FoldLeft(LAMBDA acc, s : IF s \in ToSet(acc) THEN acc ELSE Append(acc, s),
                 <<ToSoundslike(sp.sl, word, sp.storeAs)>>, sls)
Targets(sp, orig) == IF ScanRootOnly(sp) THEN RootTargets(sp, orig.word) ELSE <<orig.sl>>
TryScan(sp, near, orig, n) ==
    FoldLeft(LAMBDA acc, d : ScanDict(sp, d, Targets(sp, orig), n, acc),
             [near |-> near, stop |-> LargeNum], sp.dicts).near

-----------------------------------------------------------------------------
\* try_ngram: the elements, jumps among them, that share most pieces with the soundslike.
\* Those are left out whose text is the very one of a scored near miss: already_have
\* compares addresses, so an equal soundslike that was made anew is not left out.

RECURSIVE AllPlaces(_, _, _), NgramFrom(_, _, _)
AllPlaces(sp, d, got) ==
    IF got.text = <<>> THEN <<>>
    ELSE <<[dict |-> d, el |-> ReadOnlyElement(sp, d, got)]>>
         \o AllPlaces(sp, d, ScanNext(d, got.scan, LargeNum))
ElementsOf(sp, d) ==
    IF d.kind = "readonly" THEN AllPlaces(sp, d, ScanNext(d, StartScan, LargeNum))
    ELSE LET els == WritableElements(sp, d) IN [i \in DOMAIN els |-> [dict |-> d, el |-> els[i]]]
HasPiece(s, piece) ==
    \E i \in 0..(Len(s) - Len(piece)) : SubSeq(s, i + 1, i + Len(piece)) = piece
Pieces(s, t, j) == Cardinality({i \in 1..(Len(s) - j + 1) : HasPiece(t, SubSeq(s, i, i + j - 1))})
NgramFrom(s, t, j) ==
    Pieces(s, t, j) + (IF j = 3 \/ Pieces(s, t, j) < 2 THEN 0 ELSE NgramFrom(s, t, j + 1))
Ngram(s, t) == NgramFrom(s, t, 1) - Most({0, Len(t) - Len(s) - 2})

\* Of the candidates those with the least score go when enough others are there.
DropLeast(acc) ==
    LET kept == SelectSeq(acc.list, LAMBDA c : c.score # acc.min)
        least == Least({c.score : c \in ToSet(kept)})
    IN  [list |-> kept, min |-> least,
         count |-> Len(SelectSeq(kept, LAMBDA c : c.score # least))]
Weigh(acc, c) ==
    LET more == [acc EXCEPT !.list = Append(@, c),
                            !.count = IF c.score > acc.min THEN @ + 1 ELSE @]
    IN  IF c.score <= 0 \/ c.score < acc.min THEN acc
        ELSE IF more.count >= NgramKeep THEN DropLeast(more)
        ELSE more
NgramCandidates(sp, orig, have) ==
    LET all == FlattenSeq([i \in DOMAIN sp.dicts |-> ElementsOf(sp, sp.dicts[i])])
        new == SelectSeq(all, LAMBDA x : x.el.at \notin have)
    IN  FoldLeft(LAMBDA acc, x : Weigh(acc, x @@ [score |-> Ngram(orig.sl, x.el.sl)]),
                 [list |-> <<>>, min |-> 0, count |-> 0], new).list
TryNgram(sp, near, scored, orig) ==
    FoldLeft(LAMBDA acc, c : AddSound(sp, acc, c.dict, c.el, LargeNum), near,
             NgramCandidates(sp, orig, {m.at : m \in ToSet(scored)} \ {NewText}))

-----------------------------------------------------------------------------
\* score_list

Average(p, ss, ws) == (p.wordWeight * ws + p.slWeight * ss) \div 100
NeededLevel(p, want, ss) ==
    LET n == 100 * want - p.slWeight * ss
    IN  IF n <= 0 THEN 0 ELSE (n - 1) \div (p.wordWeight * Weights.min) + 1
KnownSound(m) == IF m.ss < LargeNum THEN m.ss ELSE 0

\* A near miss with the scores that could be told, and whether it is kept; worth is the
\* score up to which the soundslikes are compared.
RateSound(m, p, orig, worth) ==
    IF m.ws >= LargeNum \/ m.ss < LargeNum \/ Average(p, 0, m.ws) > worth THEN m
    ELSE [m EXCEPT !.ss = FullDistance(orig.sl, m.sl, Weights)]
RateAs(m, p, worth) ==
    IF m.ws >= LargeNum \/ m.ss >= LargeNum THEN [m |-> m, kept |-> FALSE]
    ELSE [m |-> [m EXCEPT !.score = Average(p, m.ss, m.ws)],
          kept |-> Average(p, m.ss, m.ws) <= worth + p.span]
RateWord(m, orig, from, to) ==
    [m EXCEPT !.ws = DistanceBetween(orig.clean, m.clean, from, to, Weights)]
RateFirst(m, p, orig, tryFor) ==
    LET level == NeededLevel(p, tryFor, KnownSound(m))
        known == IF m.ws < LargeNum \/ level < KnownSound(m) \div Weights.min THEN m
                 ELSE RateWord(m, orig, level, level)
    IN  RateAs(RateSound(known, p, orig, tryFor), p, tryFor)
RateMore(m, p, orig, tryFor, threshold) ==
    LET from == NeededLevel(p, tryFor, KnownSound(m))
        to == NeededLevel(p, threshold, KnownSound(m))
        known == IF m.ws < LargeNum \/ from >= to THEN m ELSE RateWord(m, orig, from + 1, to)
    IN  RateAs(RateSound(known, p, orig, threshold), p, threshold)

\* What is kept moves to the front of the scored ones, which are then sorted.
Lower(x, y) == x.score < y.score \/ (x.score = y.score /\ WordLess(x.word, y.word))
Moved(scored, rated) ==
    LET kept == Reverse(SelectSeq(rated, LAMBDA r : r.kept))
    IN  SortSeq([i \in DOMAIN kept |-> kept[i].m] \o scored, Lower)
Left(rated) ==
    LET left == SelectSeq(rated, LAMBDA r : ~r.kept) IN [i \in DOMAIN left |-> left[i].m]

\* skip_first_couple: the first different words do not count for the threshold.
RECURSIVE SkipFrom(_, _, _, _, _)
SkipFrom(list, i, k, prev, storeAs) ==
    IF i = Len(list) THEN [k |-> k, i |-> i]
    ELSE IF ~list[i].count \/ SameWord(prev, list[i].word, storeAs)
         THEN SkipFrom(list, i + 1, k, prev, storeAs)
    ELSE IF k = Skip THEN [k |-> k, i |-> i]
    ELSE SkipFrom(list, i + 1, k + 1, list[i].word, storeAs)
SkipFirstCouple(list, storeAs) == SkipFrom(list, 1, 0, <<>>, storeAs)

\* The state of it all: [near, scored, threshold, tryHarder].
TryHarder(near, scored, storeAs) ==
    IF near = <<>> THEN 1
    ELSE IF SkipFirstCouple(scored, storeAs).i = Len(scored) THEN 2 ELSE 0
LastRound(near, scored, threshold, storeAs) ==
    [near |-> near, scored |-> scored, threshold |-> threshold,
     tryHarder |-> TryHarder(near, scored, storeAs)]
MoreRated(near, scored, p, orig, tryFor, threshold) ==
    LET rated == [i \in DOMAIN near |-> RateMore(near[i], p, orig, tryFor, threshold)]
    IN  LastRound(Left(rated), Moved(scored, rated), threshold, orig.storeAs)
RECURSIVE ScoreRound(_, _, _, _, _)
AfterRound(near, scored, p, orig, tryFor, skipped) ==
    IF near = <<>> \/ (skipped.k = Skip /\ scored[skipped.i].score <= tryFor)
    THEN MoreRated(near, scored, p, orig, tryFor,
                   Most({Weights.max, scored[skipped.i].score + p.span}))
    ELSE ScoreRound(near, scored, p, orig, tryFor)
Rated(near, scored, p, orig, tryFor) ==
    IF scored = <<>> THEN ScoreRound(near, scored, p, orig, tryFor)
    ELSE AfterRound(near, scored, p, orig, tryFor, SkipFirstCouple(scored, orig.storeAs))
ScoreRound(near, scored, p, orig, previous) ==
    LET tryFor == previous + (p.wordWeight * Weights.max) \div 100
        rated == [i \in DOMAIN near |-> RateFirst(near[i], p, orig, tryFor)]
    IN  Rated(Left(rated), Moved(scored, rated), p, orig, tryFor)
ScoreList(w, p, orig) ==
    IF w.near = <<>> THEN [w EXCEPT !.tryHarder = 3]
    ELSE ScoreRound(w.near, w.scored, p, orig, (p.wordWeight * Weights.max) \div 100)

-----------------------------------------------------------------------------
\* fine_tune_score

AdjAverage(p, ss, ws) ==
    LET factor == IF ws < 100 THEN 8 ELSE 2
        slWeight == IF ws <= TypoCost.max THEN (p.slWeight + factor - 1) \div factor ELSE p.slWeight
    IN  (p.wordWeight * ws + slWeight * ss) \div 100
TypoScore(m, new) == IF m.table /\ new >= m.ws THEN m.ws ELSE new
SplitTypoScore == TypoCost.max + 2
Tuned(m, p, orig, typo) ==
    IF m.special THEN [m EXCEPT !.ws = SplitTypoScore, !.ss = SplitTypoScore, !.adj = SplitTypoScore]
    ELSE IF m.adj < LargeNum THEN m
    ELSE LET ws == TypoScore(m, TypoDistance(m.word, orig.word, typo))
         IN  [m EXCEPT !.ws = ws, !.adj = AdjAverage(p, m.ss, ws)]
\* The scored ones up to a score are tuned; of the others those go that have an adjusted
\* score above all of these.
TunedCount(scored, thres) ==
    LET over == {i \in DOMAIN scored : scored[i].score > thres}
    IN  IF over = {} THEN Len(scored) ELSE Least(over) - 1
CutAbove(m, most) == IF m.adj > most THEN [m EXCEPT !.adj = LargeNum] ELSE m
TuneFirst(scored, n, p, orig, typo) ==
    [i \in DOMAIN scored |->
        IF i > n THEN scored[i]
        ELSE IF p.typo THEN Tuned(scored[i], p, orig, typo)
        ELSE [scored[i] EXCEPT !.adj = scored[i].score]]
CutRest(scored, n, most) == [i \in DOMAIN scored |-> IF i > n THEN CutAbove(scored[i], most) ELSE scored[i]]
CutTuned(tuned, n, p, threshold) ==
    CutRest(tuned, n, IF p.typo THEN Most({0} \cup {tuned[i].adj : i \in 1..n}) ELSE threshold)
FineTune(scored, thres, threshold, p, orig, typo) ==
    LET n == TunedCount(scored, thres)
    IN  CutTuned(TuneFirst(scored, n, p, orig, typo), n, p, threshold)

-----------------------------------------------------------------------------
\* transfer

AdjLower(x, y) == x.adj < y.adj \/ (x.adj = y.adj /\ WordLess(x.word, y.word))
Words(w) ==
    LET at == {i \in DOMAIN w : w[i] = " "}
    IN  IF at = {} THEN <<w>> ELSE <<SubSeq(w, 1, Least(at) - 1), SubSeq(w, Least(at) + 1, Len(w))>>
\* A correction of the user's is checked again.
PutCorrection(sp, acc, w) ==
    IF w \in acc.seen THEN acc
    ELSE [seen |-> acc.seen \cup {w},
          list |-> IF \A v \in ToSet(Words(w)) : Checked(sp, v) THEN Append(acc.list, w)
                   ELSE acc.list]
PutWord(acc, w) ==
    IF w \in acc.seen THEN acc ELSE [seen |-> acc.seen \cup {w}, list |-> Append(acc.list, w)]
PutNearMiss(sp, acc, m, orig, limit) ==
    IF Len(acc.list) >= limit \/ (m.adj >= LargeNum /\ Len(acc.list) >= 3) THEN acc
    ELSE IF m.repls = <<>> THEN PutWord(acc, FixCase(orig.case, m.word))
    ELSE FoldLeft(LAMBDA a, r : PutCorrection(sp, a, FixCase(orig.case, r)), acc, m.repls)
Transferred(sp, scored, orig, limit) ==
    FoldLeft(LAMBDA acc, m : PutNearMiss(sp, acc, m, orig, limit), [seen |-> {}, list |-> <<>>],
             SortSeq(scored, AdjLower)).list
=============================================================================
