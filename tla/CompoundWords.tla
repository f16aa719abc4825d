--------------------------- MODULE CompoundWords ---------------------------
(***************************************************************************)
(* Checking a word that may be several (SpellerImpl::check,                *)
(* check_runtogether, Language::split_word).  The pieces found are left in *)
(* an array of CheckInfo that belongs to the speller and is used again by  *)
(* the next check; check_info() hands it out as the explanation of the     *)
(* last check.  Suggestions run the same code over an array of their own,  *)
(* counting the parts that are wrong.                                      *)
(*                                                                         *)
(* A word is a sequence of letters; affixes are left out: a piece is right *)
(* if a dictionary has it, one of the user's included.  The behaviour at    *)
(* the end has the checks alone, in any order; Pipe composes them with the  *)
(* rest of a session.                                                       *)
(***************************************************************************)
EXTENDS Naturals, Sequences, SequencesExt, FiniteSets, FiniteSetsExt

CONSTANTS LowerLetters, UpperOf, \* the alphabet and its upper case letters
          MiddleChars, BeginChars, EndChars,  \* what else may stand in words
          Dictionary,    \* the words of the installed dictionaries
          Ignore,        \* the option ignore: so short a word is not checked
          Infos,         \* the size of check_inf (8 in the code)
          Options        \* the settings that are tried

Letters == LowerLetters \cup {UpperOf[c] : c \in LowerLetters}
WordChars == Letters \cup MiddleChars \cup BeginChars \cup EndChars
Words == Seq(WordChars)

ASSUME AlphabetAssumption ==
    /\ DOMAIN UpperOf = LowerLetters
    /\ \A c \in LowerLetters : UpperOf[c] \notin LowerLetters
ASSUME WordAssumption == Dictionary \subseteq Seq(Letters) /\ Ignore \in Nat
\* The callback of run-together-limit keeps it within check_inf.
ASSUME LimitAssumption ==
    /\ Infos \in Nat \ {0}
    /\ Options \subseteq [runTogether : BOOLEAN, limit : 0..Infos, min : Nat, camel : BOOLEAN]

VARIABLES personal, session, \* the user's words in check_ws
          checkInf,      \* the array of the speller
          last           \* history: the last checks and their outcomes

\* The word of a CheckInfo is that of an entry, or Null.
Null == <<>>
CheckInfo(word, compound, next) ==
    [word |-> word, compound |-> compound, next |-> next, incorrect |-> FALSE]
Cleared == CheckInfo(Null, FALSE, 0)
NoCount == [count |-> 0, incorrect |-> 0, first |-> 0]

\* What is no letter is of both cases.
IsUpper(c) == c \notin LowerLetters
IsLower(c) == \A l \in LowerLetters : UpperOf[l] # c
Lower(w) == [i \in DOMAIN w |-> IF ~IsLower(w[i])
                                THEN CHOOSE c \in LowerLetters : UpperOf[c] = w[i]
                                ELSE w[i]]
Upper(w) == [i \in DOMAIN w |-> IF ~IsUpper(w[i]) THEN UpperOf[w[i]] ELSE w[i]]
Title(w) == [i \in DOMAIN w |-> IF i = 1 THEN Upper(w)[1] ELSE w[i]]

\* Language::case_pattern is FirstUpper.
FirstUpper(w) ==
    LET letters == {i \in DOMAIN w : w[i] \in Letters}
    IN  /\ \E i \in letters : IsUpper(w[i]) /\ \A j \in letters : i <= j
        /\ \E i \in letters : IsLower(w[i])

-----------------------------------------------------------------------------

\* check_simple with SensitiveCompare: as it is listed, capitalised, all upper.
Entries(w) ==
    {d \in Dictionary \cup personal \cup session : w \in {d, Title(d), Upper(d)}}
Entry(w) == IF Len(w) <= Ignore THEN <<w>>
            ELSE IF Entries(w) = {} THEN Null ELSE <<CHOOSE d \in Entries(w) : TRUE>>

\* check_single: what is found, or Null.
Single(w, title) ==
    IF Entry(w) # Null \/ ~title THEN Entry(w)
    ELSE IF w = <<>> THEN Null ELSE Entry(Title(w))

\* The prefixes check_runtogether tries: neither piece shorter than min.
CutsAtWill(w, min) == [j \in 1..(Len(w) - 1) |-> j]
Cuts(w, min) ==
    IF Len(w) < 2 * min THEN <<>>
    ELSE [j \in 1..(Len(w) - 2 * min + 1) |-> min + j - 1]

\* What is written later counts.
Written(new, old) ==
    [i \in DOMAIN new \cup DOMAIN old |-> IF i \in DOMAIN new THEN new[i] ELSE old[i]]
Entered(ci, info) == [i \in {ci} |-> info]

\* check_runtogether at place ci of the array: what it writes there and behind it, the
\* place of the last piece (0 if there is none), and what is known of the case of the
\* first one.  This is one turn of its loop, over the first n letters of w; deeper is
\* what the places behind make of a rest, and the first prefix that fits decides.
TryCut(acc, w, n, title, limit, ci, deeper) ==
    LET prefix == SubSeq(w, 1, n)
        found == Single(prefix, title)
        known == IF acc.title = <<>> THEN <<FirstUpper(prefix)>> ELSE acc.title
        rest == deeper[SubSeq(w, n + 1, Len(w))][known[1]][limit - 1]
        piece == CheckInfo(found, rest.last # 0, IF rest.last # 0 THEN ci + 1 ELSE 0)
    IN  CASE acc.last # 0 -> acc
          [] acc.last = 0 /\ found = Null -> [acc EXCEPT !.inf = Written(Entered(ci, Cleared), @)]
          [] OTHER -> [inf |-> Written(rest.inf, Written(Entered(ci, piece), acc.inf)),
                       last |-> rest.last, title |-> known]

Whole(w, title, ci) ==
    LET found == Single(w, title)
    IN  [inf |-> Entered(ci, CheckInfo(found, FALSE, 0)),
         last |-> IF found # Null THEN ci ELSE 0,
         title |-> IF title THEN <<TRUE>> ELSE <<>>]
Attempt(w, title, limit, min, ci, deeper) ==
    LET cuts == Cuts(w, min)
        tried[n \in 0..Len(cuts)] ==
            IF n = 0 THEN Whole(w, title, ci)
            ELSE TryCut(tried[n - 1], w, cuts[n], title, limit, ci, deeper)
    IN  IF limit <= 1 THEN Whole(w, title, ci) ELSE tried[Len(cuts)]

\* From the last place of the array to the first, for every end of the word.
Ends(w) == {SubSeq(w, i, Len(w)) : i \in 1..(Len(w) + 1)}
NoRoom(w) ==
    [v \in Ends(w) |-> [title \in BOOLEAN |-> [limit \in 0..Infos |->
        [inf |-> <<>>, last |-> 0, title |-> <<>>]]]]
AtPlace(w, ci, min, deeper) ==
    [v \in Ends(w) |-> [title \in BOOLEAN |-> [limit \in 0..Infos |->
        Attempt(v, title, limit, min, ci, deeper)]]]
Attempts(w, min) ==
    LET run[room \in 0..Infos] ==
            IF room = 0 THEN NoRoom(w)
            ELSE AtPlace(w, Infos + 1 - room, min, run[room - 1])
    IN  run
RunTogether(w, ci, limit, min) == Attempts(w, min)[Infos + 1 - ci][w][FALSE][limit]

\* Language::split_word: the length of the first part of a camelCase word.
RunFrom(w, i, upper) ==
    LET ends == {j \in i..Len(w) : ~(IF upper THEN IsUpper(w[j]) ELSE IsLower(w[j]))}
    IN  IF ends = {} THEN Len(w) ELSE (CHOOSE j \in ends : \A k \in ends : j <= k) - 1
FirstPart(w, camel) ==
    IF ~camel \/ Len(w) <= 1 THEN Len(w)
    ELSE IF ~IsUpper(w[1]) \/ IsLower(w[2]) THEN RunFrom(w, 2, FALSE)
    ELSE IF RunFrom(w, 2, TRUE) = Len(w) THEN Len(w)
    ELSE RunFrom(w, 2, TRUE) - 1

\* Where its parts end.
PartEnds(w, camel) ==
    LET ends[n \in 0..Len(w)] ==
            IF n = 0 THEN 0
            ELSE LET begin == ends[n - 1]
                 IN  begin + FirstPart(SubSeq(w, begin + 1, Len(w)), camel)
    IN  ends
Parts(w, camel) ==
    LET ends == PartEnds(w, camel)
    IN  [k \in 1..Cardinality({n \in 0..Len(w) : ends[n] < Len(w)}) |->
            SubSeq(w, ends[k - 1] + 1, ends[k])]

\* Linking a part to the one before, at prev (0: it is the first).
LinkNothing(inf, prev, ci) == inf
Link(inf, prev, ci) ==
    IF prev = 0 THEN inf
    ELSE [inf EXCEPT ![prev].compound = TRUE, ![prev].next = ci]

\* CompoundInfo, with a part at ci.
Count(cpi, ci, found) ==
    [count |-> cpi.count + 1,
     incorrect |-> IF found THEN cpi.incorrect ELSE cpi.incorrect + 1,
     first |-> IF found \/ cpi.first # 0 THEN cpi.first ELSE ci]

\* No room is left: checked after every part, the last one too.
Full(end) == end + 1 > Infos

\* One part of a camelCase word: linked to the last one, or given up; with counting
\* a wrong part takes one place.  run is what check_runtogether made of it.
Reached(inf, ci, prev, ok, returned, cpi) ==
    [inf |-> inf, ci |-> ci, prev |-> prev, ok |-> ok, returned |-> returned, cpi |-> cpi]
CheckPart(acc, part, run, counting) ==
    LET found == run.last # 0
        end == IF found THEN run.last ELSE acc.ci
        left == Written(run.inf, acc.inf)
        marked == IF found THEN left
                  ELSE [left EXCEPT ![acc.ci].word = <<part>>, ![acc.ci].incorrect = TRUE]
        linked == Link(marked, acc.prev, acc.ci)
        counted == IF counting THEN Count(acc.cpi, acc.ci, found) ELSE acc.cpi
    IN  CASE acc.returned -> acc
          [] ~acc.returned /\ ~found /\ ~counting ->
                Reached(left, acc.ci, acc.prev, FALSE, TRUE, acc.cpi)
          [] ~acc.returned /\ (found \/ counting) /\ Full(end) ->
                Reached(linked, end + 1, end, FALSE, TRUE, [counted EXCEPT !.count = 0])
          [] OTHER -> Reached(linked, end + 1, end, acc.ok /\ found, FALSE, counted)

\* SpellerImpl::check: the whole word, else its parts.
CheckParts(inf, parts, o, limit, counting) ==
    FoldLeft(LAMBDA acc, part :
                CheckPart(acc, part, RunTogether(part, acc.ci, limit, o.min), counting),
             Reached(inf, 1, 0, TRUE, FALSE, NoCount), parts)
Limit(o) == IF o.runTogether THEN o.limit ELSE 0
CheckWord(inf, w, o, counting) ==
    LET whole == RunTogether(w, 1, Limit(o), o.min)
        left == Written(whole.inf, [inf EXCEPT ![1] = Cleared])
        parts == Parts(w, o.camel)
    IN  IF whole.last = 0 /\ Len(parts) > 1 THEN CheckParts(left, parts, o, Limit(o), counting)
        ELSE [inf |-> left, ok |-> whole.last # 0, cpi |-> NoCount]

-----------------------------------------------------------------------------

\* What a check leaves for whoever asks about it.
Outcome(w, o, counting, result) ==
    [word |-> w, options |-> o, counting |-> counting, ok |-> result.ok,
     inf |-> result.inf, cpi |-> result.cpi]

-----------------------------------------------------------------------------
(* What the manual promises, without the array and without backtracking.   *)

\* The piece of w that ends at e, of those that end at the places ends.
PieceTo(w, ends, e) == SubSeq(w, Max({0} \cup {b \in ends : b < e}) + 1, e)

\* At most limit pieces, none shorter than min, each in a dictionary; those behind one
\* with a capital may have lost their own.
Strung(w, limit, min) ==
    \E ends \in SUBSET (1..Len(w)) :
        /\ Len(w) \in ends /\ Cardinality(ends) \in 2..limit
        /\ \A e \in ends :
              /\ Len(PieceTo(w, ends, e)) >= min
              /\ Single(PieceTo(w, ends, e),
                        \E b \in ends : b < e /\ FirstUpper(PieceTo(w, ends, b))) # Null

Right(w, o) == Entry(w) # Null \/ (o.runTogether /\ Strung(w, o.limit, o.min))

RightCompound(w, o) ==
    LET parts == Parts(w, o.camel)
    IN  Right(w, o) \/ \A i \in DOMAIN parts : Right(parts[i], o)

-----------------------------------------------------------------------------

\* The chain of next from place 1, as check_info() hands it out.
Chain(inf) ==
    LET at[n \in 0..Infos] ==
            IF n = 0 THEN 1
            ELSE LET before == at[n - 1] IN IF before = 0 THEN 0 ELSE inf[before].next
    IN  [k \in 1..Cardinality({n \in 0..Infos : at[n] # 0}) |-> inf[at[k - 1]]]
\* The letters its words stand for.
Spelled(chain) == FoldLeft(LAMBDA word, info : word \o info.word[1], <<>>, chain)

\* Counting, as for suggestions: every part of a camelCase word is counted once, the
\* wrong ones as wrong, and the first wrong one is the one suggestions are made for.
CountsRight(check) ==
    LET parts == Parts(check.word, check.options.camel)
        wrong == {j \in DOMAIN parts : ~Right(parts[j], check.options)}
        cpi == check.cpi
    IN  /\ cpi.count = Len(parts)
        /\ cpi.incorrect = Cardinality(wrong)
        /\ check.ok <=> wrong = {}
        /\ wrong # {} => check.inf[cpi.first].word
                            = <<parts[CHOOSE j \in wrong : \A k \in wrong : j <= k]>>

\* Where the code differs from that.  The case of the first piece is guessed from the
\* first prefix that fits, which is wrong if a longer one fits that has a lower case letter
\* only then, as with "A" and "Ab" (speller_impl.cpp:203); pieces may be empty if the
\* minimum is 0; and parts of a camelCase word do not have all of the array.
Guessable(w, min) ==
    \A i \in DOMAIN w :
        LET fit == {j \in i..Len(w) : Entry(SubSeq(w, i, j)) # Null}
        IN  \A j, k \in fit : j + 1 - i >= min /\ j <= k
                => FirstUpper(SubSeq(w, i, j)) = FirstUpper(SubSeq(w, i, k))
HasRoom(w, o) == Len(Parts(w, o.camel)) = 1 \/ Len(w) < Infos
Ordinary(w, o) ==
    /\ o.runTogether => o.min > 0 /\ Guessable(w, o.min)
    /\ HasRoom(w, o)

\* A word is accepted exactly when the manual says so: the backtracking and the sharing
\* of the array between its levels neither lose a word nor let one in.
AcceptsWhatItShould ==
    \A i \in DOMAIN last : Ordinary(last[i].word, last[i].options) =>
        /\ ~last[i].counting => (last[i].ok <=> RightCompound(last[i].word, last[i].options))
        /\ last[i].counting /\ last[i].cpi.count > 0 => CountsRight(last[i])

\* After a word was accepted, the chain that check_info() returns spells exactly
\* that word in pieces that are right, and is marked compound if it has several
\* (what pipe mode prints "-" for), whatever earlier checks left in the array.
ChainSpellsTheWord ==
    \A i \in DOMAIN last : last[i].ok =>
        LET chain == Chain(last[i].inf)
        IN  /\ Upper(Spelled(chain)) = Upper(last[i].word)
            /\ \A j \in DOMAIN chain :
                  /\ ~chain[j].incorrect
                  /\ chain[j].compound <=> j < Len(chain)

-----------------------------------------------------------------------------
(* The checks of a speller and of its suggestions, as they may follow one  *)
(* another, and the user's dictionaries as they may change in between.     *)

OwnArray == [i \in 1..Infos |-> Cleared]
Check(w, o) ==
    LET result == CheckWord(checkInf, w, o, FALSE)
    IN  /\ checkInf' = result.inf
        /\ last' = Append(last, Outcome(w, o, FALSE, result))
        /\ UNCHANGED <<personal, session>>
CheckCounting(w, o) ==
    /\ last' = Append(last, Outcome(w, o, TRUE, CheckWord(OwnArray, w, o, TRUE)))
    /\ UNCHANGED <<personal, session, checkInf>>
ChangeLists ==
    /\ personal' \in SUBSET Words /\ session' \in SUBSET Words
    /\ last' = <<>>
    /\ UNCHANGED checkInf

checksVars == <<personal, session, checkInf, last>>
ChecksInit == personal = {} /\ session = {} /\ checkInf = OwnArray /\ last = <<>>
ChecksNext == \/ \E w \in Words, o \in Options : Check(w, o) \/ CheckCounting(w, o)
              \/ ChangeLists
ChecksSpec == ChecksInit /\ [][ChecksNext]_checksVars

=============================================================================
