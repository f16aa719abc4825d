---------------------------- MODULE SuggestWords ----------------------------
(***************************************************************************)
(* A speller asked for suggestions, stage by stage (Working::suggestions   *)
(* and SuggestImpl::suggest of suggest.cpp).  Every stage adds near misses *)
(* and scores them; a mode leaves out some, and the rest is left out when  *)
(* enough was found.                                                       *)
(***************************************************************************)
EXTENDS Suggest

CONSTANTS Spellers,       \* [lines, options, personal, repls, ignore, sug] and the data of a language
          Asked           \* the words asked about

VARIABLES speller,        \* the speller
          request,        \* [orig, parms]: the word and the parameters of the mode
          stage,          \* the stage to come; "idle" before the first request
          work,           \* the near misses: [near, scored, threshold, tryHarder]
          scanned,        \* how many edits the last scan of the request allowed, or -1
          list            \* the suggestions
vars == <<speller, request, stage, work, scanned, list>>

\* The dictionaries of a speller: the compiled list, the words of the user, and the
\* corrections of the user.
Entry(w, repls) == [word |-> w, aff |-> <<>>, repls |-> repls]
OwnDict(words) ==
    [kind |-> "writable", words |-> [i \in DOMAIN words |-> Entry(words[i], <<>>)]]
ReplDict(pairs) ==
    [kind |-> "repl", words |-> [i \in DOMAIN pairs |-> Entry(pairs[i].word, pairs[i].repls)]]
Loaded(s) ==
    [dicts |-> SuggestOrder(<<Create(s.lines, s.options), OwnDict(s.personal), ReplDict(s.repls)>>, ""),
     aff |-> s.options.aff, sl |-> s.options.sl, storeAs |-> s.options.storeAs,
     repl |-> s.table, splitChars |-> <<" ", "-">>, special |-> s.special,
     typo |-> TypoInfo(s.keyboard), ignore |-> s.ignore, sug |-> s.sug]

NothingYet == [near |-> <<>>, scored |-> <<>>, threshold |-> 1, tryHarder |-> 0]
NoRequest == [orig |-> [word |-> <<>>], parms |-> [stopEarly |-> FALSE]]
Init == /\ speller \in {Loaded(s) : s \in Spellers}
        /\ request = NoRequest /\ stage = "idle" /\ work = NothingYet /\ scanned = -1
        /\ list = <<>>

\* Working::Working
Original(sp, w) ==
    [word |-> w, clean |-> Clean(w, sp.storeAs), sl |-> ToSoundslike(sp.sl, w, sp.storeAs),
     case |-> CasePattern(w), storeAs |-> sp.storeAs]
\* Nothing is suggested for a word that is too long.
Ask(w, mode) ==
    /\ stage \in {"idle", "listed"}
    /\ request' = [orig |-> Original(speller, w),
                   parms |-> ParmsOf(mode, HaveSoundslike(speller.sl), speller.repl # <<>>,
                                     speller.sug)]
    /\ stage' = (IF TooLong(w) THEN "listed" ELSE "split") /\ work' = NothingYet /\ scanned' = -1 /\ list' = <<>>
    /\ UNCHANGED speller

SplitWord ==
    /\ stage = "split"
    /\ work' = [work EXCEPT !.near = TrySplit(speller, @, request.orig.word)]
    /\ stage' = "repl"
    /\ UNCHANGED <<speller, request, scanned, list>>

UseReplTable ==
    /\ stage = "repl"
    /\ work' = IF request.parms.repl
               THEN [work EXCEPT !.near = TryRepl(speller, @, request.orig.clean)] ELSE work
    /\ stage' = "one_edit"
    /\ UNCHANGED <<speller, request, scanned, list>>

\* The scans of the mode that are still to come, then the n-grams.
Stages(parms) ==
    SelectSeq(<<"scan0", "scan1", "scan2", "ngram">>, LAMBDA s : parms[s]) \o <<"finish">>
FirstStage(parms) == Stages(parms)[1]
StageAfter(parms, s) == Stages(parms)[IndexFirstSubSeq(<<s>>, Stages(parms)) + 1]

FineTuned(w, thres, threshold) ==
    [w EXCEPT !.scored = FineTune(@, thres, threshold, request.parms, request.orig, speller.typo)]
AfterOneEdit(r) ==
    IF request.parms.stopEarly /\ r.tryHarder <= 0
    THEN work' = r /\ stage' = "finish"
    ELSE work' = FineTuned(r, LargeNum, r.threshold) /\ stage' = FirstStage(request.parms)
OneEditWord ==
    /\ stage = "one_edit"
    /\ \E near \in {TryOneEdit(speller, work.near, request.orig.clean,
                               CleanChars(speller.storeAs))} :
       \E r \in {ScoreList([work EXCEPT !.near = near], request.parms, request.orig)} :
          AfterOneEdit(r)
    /\ UNCHANGED <<speller, request, scanned, list>>

\* What is left to be tried harder for: nothing, after a scan that found enough.
Enough(n, r) == \/ n = 1 /\ r.tryHarder <= 0
                \/ n = 2 /\ r.tryHarder < request.parms.ngramThreshold
Scan(s, n) ==
    /\ stage = s
    /\ \E near \in {TryScan(speller, work.near, request.orig, n)} :
       \E r \in {ScoreList([work EXCEPT !.near = near], request.parms, request.orig)} :
          /\ work' = r
          /\ stage' = IF Enough(n, r) THEN "finish" ELSE StageAfter(request.parms, s)
    /\ scanned' = n
    /\ UNCHANGED <<speller, request, list>>

Ngrams ==
    /\ stage = "ngram"
    /\ \E near \in {TryNgram(speller, work.near, work.scored, request.orig)} :
          work' = ScoreList([work EXCEPT !.near = near], request.parms, request.orig)
    /\ stage' = "finish"
    /\ UNCHANGED <<speller, request, scanned, list>>

Finish ==
    /\ stage = "finish"
    /\ \E r \in {FineTuned(work, work.threshold, work.threshold)} :
          list' = Transferred(speller, r.scored, request.orig, request.parms.limit)
    /\ work' = NothingYet /\ stage' = "listed"
    /\ UNCHANGED <<speller, request, scanned>>

Next == \/ \E w \in Asked, mode \in Modes : Ask(w, mode)
        \/ SplitWord \/ UseReplTable \/ OneEditWord
        \/ Scan("scan0", 0) \/ Scan("scan1", 1) \/ Scan("scan2", 2)
        \/ Ngrams \/ Finish
Spec == Init /\ [][Next]_vars

-----------------------------------------------------------------------------
\* The least cost of a script of at most n edits that makes one word of the other.
RECURSIVE ScriptCost(_, _, _)
Same1(a, b) == a # <<>> /\ b # <<>> /\ a[1] = b[1]
Swap1(a, b) == Len(a) > 1 /\ Len(b) > 1 /\ a[1] = b[2] /\ a[2] = b[1]
ScriptCost(a, b, n) ==
    LET then(cost, s, t) == LET c == ScriptCost(s, t, n - 1)
                            IN  IF c >= LargeNum THEN LargeNum ELSE cost + c
        unedited == IF Same1(a, b) THEN {ScriptCost(Tail(a), Tail(b), n)} ELSE {}
        edited == (IF a # <<>> THEN {then(Weights.del1, Tail(a), b)} ELSE {})
                  \cup (IF b # <<>> THEN {then(Weights.del2, a, Tail(b))} ELSE {})
                  \cup (IF a # <<>> /\ b # <<>> THEN {then(Weights.sub, Tail(a), Tail(b))} ELSE {})
                  \cup (IF Swap1(a, b) THEN {then(Weights.swap, Tail(Tail(a)), Tail(Tail(b)))} ELSE {})
    IN  IF a = <<>> /\ b = <<>> THEN 0
        ELSE Least({LargeNum} \cup unedited \cup (IF n = 0 THEN {} ELSE edited))

\* The entries of the compiled list.
Listed == UNION {ToSet(d.entries) : d \in {e \in ToSet(speller.dicts) : e.kind = "readonly"}}

\* limit_edit_distance "finds the shortest edit distance but will stop and return a number
\* at least as large as LARGE_NUM if it has to do more edits than a set limit"
\* (leditdist.hpp), and so do the faster ones for no edit, one and two, to which the full
\* distance has to agree: for every listed word and the word asked about.
DistancesAgree(a, b, n, cost) ==
    /\ LimitN(a, b, n, Weights).score = cost
    /\ cost < LargeNum => /\ FullDistance(a, b, Weights) = cost
                          /\ Limited(a, b, n, Weights) = cost
DistancesAreExact ==
    stage = "split" =>
        \A e \in Listed, n \in 0..2 :
            DistancesAgree(e.sl, request.orig.sl, n, ScriptCost(e.sl, request.orig.sl, n))

\* "Find words that have similar soundslike patterns" (suggest.cpp): after a scan every
\* listed word whose soundslike is within so many edits is a near miss, although the
\* dictionary is gone through by jumps and by what the last distance had looked at.
NearMisses == {m.word : m \in ToSet(work.near) \cup ToSet(work.scored)}
ScanFindsAll ==
    scanned >= 0 /\ stage # "listed" =>
        \A e \in Listed :
            (\E t \in ToSet(Targets(speller, request.orig)) : ScriptCost(e.sl, t, scanned) < LargeNum)
                => e.word \in NearMisses

\* "inserting a space or hyphen, interchanging two adjacent letters, changing one letter,
\* deleting a letter, or adding a letter" (suggest.cpp): a listed word whose clean form
\* is one such edit away is a near miss once these have been tried.
OneEditWordsAreFound ==
    stage \in {"scan0", "scan1", "scan2", "ngram", "finish"} =>
        \A e \in Listed :
            ScriptCost(e.clean, request.orig.clean, 1) < LargeNum => e.word \in NearMisses

\* Whatever is suggested, in the case of the word asked about, the speller would accept.
Accepts(s) ==
    \/ Checked(speller, s)
    \/ \E i \in DOMAIN s : /\ s[i] \in ToSet(speller.splitChars)
                          /\ Checked(speller, SubSeq(s, 1, i - 1))
                          /\ Checked(speller, SubSeq(s, i + 1, Len(s)))
SuggestionsAreAccepted ==
    \A i \in DOMAIN list :
        /\ Accepts(list[i])
        /\ \A j \in 1..(i - 1) : list[i] # list[j]
=============================================================================
