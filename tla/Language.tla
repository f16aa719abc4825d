------------------------------ MODULE Language ------------------------------
(***************************************************************************)
(* What a language knows of its letters (modules/speller/default/          *)
(* language.cpp): their case and accents, the clean form a word is indexed *)
(* by, the special characters a word may hold, how the case of a word is   *)
(* read and given to another, when a checked word is a listed one, and how *)
(* a list of words with affix flags is read.                               *)
(*                                                                         *)
(* A word is a sequence of characters; a few of each kind stand for the    *)
(* 256 of a .cset table.                                                   *)
(***************************************************************************)
EXTENDS Integers, Sequences, SequencesExt, FiniteSets

\* The characters, in the order of their codes: the space, which no word holds but a
\* suggestion may, two kinds that are no letters, plain letters, and an accented one.
Chars == <<" ", "'", "-", "1", "A", "B", "C", "E", "a", "b", "c", "e", "E'", "e'">>
Code == [c \in ToSet(Chars) |-> CHOOSE i \in DOMAIN Chars : Chars[i] = c]
Case == [lower |-> <<"a", "b", "c", "e", "e'">>, upper |-> <<"A", "B", "C", "E", "E'">>]
Accented == [c \in {"E'", "e'"} |-> IF c = "E'" THEN "E" ELSE "e"]

IsAlpha(c) == c \in ToSet(Case.lower) \cup ToSet(Case.upper)
Convert(c, from, to) ==
    IF c \in ToSet(from) THEN to[CHOOSE i \in DOMAIN from : from[i] = c] ELSE c
ToLower(c) == Convert(c, Case.upper, Case.lower)
ToUpper(c) == Convert(c, Case.lower, Case.upper)
ToTitle(c) == ToUpper(c)
ToPlain(c) == IF c \in DOMAIN Accented THEN Accented[c] ELSE c
IsLower(c) == ToLower(c) = c
IsUpper(c) == ToUpper(c) = c
LowerWord(w) == [i \in DOMAIN w |-> ToLower(w[i])]
UpperWord(w) == [i \in DOMAIN w |-> ToUpper(w[i])]

\* The clean form leaves out what is no letter; lists store their words "stripped" of
\* accents, or in "lower" case.
ToClean(c, storeAs) == IF storeAs = "stripped" THEN ToPlain(ToLower(c)) ELSE ToLower(c)
Clean(w, storeAs) ==
    LET letters == SelectSeq(w, IsAlpha)
    IN  [i \in DOMAIN letters |-> ToClean(letters[i], storeAs)]
Stripped(w) == [i \in DOMAIN w |-> ToPlain(ToLower(w[i]))]

\* InsensitiveCompare is zero.
SameWord(v, w, storeAs) == Clean(v, storeAs) = Clean(w, storeAs)

\* strcmp(v, w) < 0
WordLess(v, w) ==
    LET differ == {i \in DOMAIN v \cap DOMAIN w : v[i] # w[i]}
        first == CHOOSE i \in differ : \A j \in differ : i <= j
    IN  IF differ = {} THEN Len(v) < Len(w) ELSE Code[v[first]] < Code[w[first]]

-----------------------------------------------------------------------------

\* The case of a word is that of its characters; of what comes after the first letter
\* for a capitalised one.
FirstLetter(w) ==
    LET letters == {i \in DOMAIN w : IsAlpha(w[i])}
    IN  IF letters = {} THEN Len(w) ELSE CHOOSE i \in letters : \A j \in letters : i <= j
CasePattern(w) ==
    IF \A i \in DOMAIN w : IsLower(w[i]) THEN "AllLower"
    ELSE IF \A i \in DOMAIN w : IsUpper(w[i]) THEN "AllUpper"
    ELSE IF ToTitle(w[FirstLetter(w)]) = w[FirstLetter(w)] THEN "FirstUpper"
    ELSE "Other"

\* fix_case: a case pattern given to a word.
FixCase(pattern, w) ==
    IF pattern = "AllUpper" THEN UpperWord(w)
    ELSE IF pattern = "FirstUpper" /\ w # <<>> /\ IsLower(w[1])
         THEN [w EXCEPT ![1] = ToTitle(@)]
    ELSE w

\* get_word_info: what the index may leave out.
WordInfo(w, storeAs) ==
    [case  |-> CasePattern(w),
     plain |-> \A i \in DOMAIN w : ToPlain(w[i]) = w[i],
     clean |-> \A i \in DOMAIN w : IsAlpha(w[i]) /\ ToClean(w[i], storeAs) = w[i]]

-----------------------------------------------------------------------------

\* SensitiveCompare: a checked word against a listed one.  cmp.begin and cmp.end say
\* which ends of a word it is, special where a character that is no letter may stand.
Ends(w, inlist, special, end) ==
    \/ w = inlist
    \/ end /\ Len(w) = Len(inlist) + 1 /\ special[w[Len(w)]].end /\ Front(w) = inlist
Titled(w, inlist) ==
    IF w[1] = ToTitle(inlist[1]) THEN [inlist EXCEPT ![1] = w[1]] ELSE inlist
SensitiveMatch(w, inlist, special, cmp) ==
    IF cmp.caseInsensitive THEN Ends(UpperWord(w), UpperWord(inlist), special, cmp.end)
    ELSE \/ Ends(w, IF cmp.begin THEN Titled(w, inlist) ELSE inlist, special, cmp.end)
         \/ Ends(w, UpperWord(inlist), special, cmp.end)
RECURSIVE Sensitive(_, _, _, _)
Sensitive(w, inlist, special, cmp) ==
    \/ SensitiveMatch(w, inlist, special, cmp)
    \/ /\ cmp.begin /\ Len(w) > 1 /\ special[w[1]].begin
       /\ Sensitive(Tail(w), inlist, special, cmp)

\* check_if_valid: a word a list may hold.  The first character is also tried as one
\* of the middle, so that what may only begin a word never does.
Allowed(w, i, special) ==
    \/ IsAlpha(w[i])
    \/ /\ i = 1 => special[w[i]].begin /\ Len(w) > 1 /\ IsAlpha(w[2])
       /\ i < Len(w) => special[w[i]].middle /\ IsAlpha(w[i + 1])
       /\ i = Len(w) => special[w[i]].end
IsValid(w, special) == w # <<>> /\ \A i \in DOMAIN w : Allowed(w, i, special)

-----------------------------------------------------------------------------

\* WordListIterator, one entry [word, aff] of a list: with clean-words the characters
\* that cannot begin or end a word are cut off; with clean-affixes, the flags that do
\* not apply.
RECURSIVE CutBegin(_, _), CutEnd(_, _)
CutBegin(w, special) ==
    IF w = <<>> \/ IsAlpha(w[1]) \/ special[w[1]].begin THEN w ELSE CutBegin(Tail(w), special)
CutEnd(w, special) ==
    IF w = <<>> \/ IsAlpha(Last(w)) \/ special[Last(w)].end THEN w
    ELSE CutEnd(Front(w), special)
CleanWord(w, special) == CutEnd(CutBegin(w, special), special)

\* The fate of an entry: read, skipped, or the end of the reading.
ReadWord(word, aff, special, opts) ==
    IF word = <<>> \/ ~opts.validateWords \/ IsValid(word, special)
    THEN [words |-> IF word = <<>> THEN <<>> ELSE <<[word |-> word, aff |-> aff]>>,
          err |-> FALSE]
    ELSE [words |-> <<>>, err |-> ~opts.skipInvalid]
\* valid: those of the flags of the entry that are known and apply (check_affix).
ReadEntry(e, valid, special, opts) ==
    LET checked == opts.haveAffix /\ opts.validateAffixes
        word == IF e.aff = <<>> /\ opts.validateWords /\ opts.cleanWords
                THEN CleanWord(e.word, special) ELSE e.word
    IN  IF checked /\ ~opts.cleanAffixes /\ valid # e.aff
        THEN [words |-> <<>>, err |-> TRUE]
        ELSE ReadWord(word, IF checked THEN valid ELSE e.aff, special, opts)

\* get_clean_chars, in the order of their codes.
CleanChars(storeAs) ==
    LET used == {ToClean(c, storeAs) : c \in {d \in ToSet(Chars) : IsAlpha(d)}}
    IN  SelectSeq(Chars, LAMBDA c : c \in used)
=============================================================================
