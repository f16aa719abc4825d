----------------------------- MODULE WordLists -----------------------------
(***************************************************************************)
(* The utilities for word lists at work: an affix file is read, a list of  *)
(* words is cleaned, expanded and munched by one of the programs that do   *)
(* it, lines of the same base may be combined, and the outcome is used as  *)
(* a dictionary that words are checked against, or put into a file that is *)
(* compressed, perhaps cut off on its way, and read again.                 *)
(***************************************************************************)
EXTENDS MunchList, Prezip

CONSTANTS AffixFiles,     \* the affix files, as sequences of lines of fields
          Lists,          \* the lists of lines [word, aff] that are munched with a file
          Special,        \* where a character that is no letter may stand
          CheckedWords,   \* the words checked against the outcome
          Texts,          \* word lists that come from elsewhere, as bytes
          Missing         \* how many bytes may be cut off a file

VARIABLES affixes,        \* the file and what AffixMgr::setup made of it
          order,          \* the words of the list in the order of the hash table
          outcome,        \* [how, lines]: what the munching gave
          file            \* [by, text, data, cut, read]: it, compressed and read again
vars == <<affixes, order, outcome, file>>

Nothing == [how |-> "nothing", lines |-> <<>>, aborted |-> FALSE]
NoFile == [by |-> "nobody", text |-> <<>>, data |-> <<>>, cut |-> FALSE, read |-> <<>>]
\* The options of an ordinary run: words and flags are checked and cleaned.
ListOptions == [haveAffix |-> TRUE, validateWords |-> TRUE, validateAffixes |-> TRUE,
                cleanWords |-> TRUE, cleanAffixes |-> TRUE, skipInvalid |-> TRUE]

Init == /\ affixes \in {[file |-> f] @@ ParseFile(f) : f \in AffixFiles}
        /\ order = <<>>
        /\ outcome = Nothing
        /\ file = NoFile

\* The words of the list as WordListIterator gives them, expanded.
Cleaned(aff, lines) ==
    FlattenSeq([i \in DOMAIN lines |->
        ReadEntry(lines[i],
                  SelectSeq(lines[i].aff, LAMBDA f : CheckAffix(aff, lines[i].word, f) = "ValidAffix"),
                  Special, ListOptions).words])
\* The hash table is gone through in one order or in its reverse.
RECURSIVE InOrder(_)
InOrder(words) ==
    IF words = {} THEN <<>>
    ELSE LET least == CHOOSE w \in words : \A v \in words : v = w \/ WordLess(w, v)
         IN  <<least>> \o InOrder(words \ {least})
ReadList(lines) ==
    /\ affixes.err = "none" /\ order = <<>>
    /\ \E table \in {TableOf(affixes.entries, Cleaned(affixes.entries, lines))} :
          /\ table # {}
          /\ \E forwards \in BOOLEAN :
                order' = IF forwards THEN InOrder(table) ELSE Reverse(InOrder(table))
    /\ UNCHANGED <<affixes, outcome, file>>

MunchListSimple ==
    /\ order # <<>> /\ outcome.how = "nothing"
    /\ outcome' = [Nothing EXCEPT !.how = "simple", !.lines = MunchSimple(affixes.entries, order)]
    /\ UNCHANGED <<affixes, order, file>>

MunchListComplete(multi, simplify) ==
    /\ order # <<>> /\ outcome.how = "nothing"
    /\ \E r \in {MunchComplete(affixes.entries, order, multi, simplify)} :
          outcome' = [how |-> IF multi THEN "multi" ELSE IF simplify THEN "single" ELSE "keep",
                      lines |-> r.lines, aborted |-> r.aborted]
    /\ UNCHANGED <<affixes, order, file>>

MySpellMunchList ==
    /\ order # <<>> /\ outcome.how = "nothing"
    /\ outcome' = [Nothing EXCEPT !.how = "myspell",
                                  !.lines = MySpell(ParseTrusting(affixes.file, 1), order)]
    /\ UNCHANGED <<affixes, order, file>>

Combine ==
    /\ outcome.how = "multi" /\ file = NoFile
    /\ outcome' = [outcome EXCEPT !.how = "combined", !.lines = CombineLines(@)]
    /\ UNCHANGED <<affixes, order, file>>

\* munch-list writes a word, "/" and its flags; the list is compressed by prezip or by
\* word-list-compress, which ends at a word that is too long.
Bytes(chars) == [i \in DOMAIN chars |-> 64 + Code[chars[i]]]
Line(l) == Bytes(l.word) \o (IF l.aff = <<>> THEN <<>> ELSE <<47>> \o Bytes(l.aff))
           \o <<Newline>>
TextOf(lines) == FlattenSeq([i \in DOMAIN lines |-> Line(lines[i])])
Compress(text, by) ==
    /\ file = NoFile
    /\ file' = [NoFile EXCEPT !.by = by, !.text = text,
                               !.data = IF by = "prezip" THEN Zipped(text)
                                        ELSE ListCompressed(text).data,
                               !.cut = by # "prezip" /\ ListCompressed(text).ret # 0]
    /\ UNCHANGED <<affixes, order, outcome>>

\* A disk is full, or a copy is not finished.
CutOff(n) ==
    /\ file # NoFile /\ file.read = <<>> /\ ~file.cut
    /\ n \in 1..Len(file.data)
    /\ file' = [file EXCEPT !.data = SubSeq(@, 1, Len(@) - n), !.cut = TRUE]
    /\ UNCHANGED <<affixes, order, outcome>>

\* prezip reads both formats.
Decompress(Reading(_)) ==
    /\ file # NoFile /\ file.read = <<>>
    /\ file' = [file EXCEPT !.read = <<Reading(file.data)>>]
    /\ UNCHANGED <<affixes, order, outcome>>

Next == \/ \E lines \in Lists : ReadList(lines)
        \/ MunchListSimple
        \/ \E multi, simplify \in BOOLEAN : MunchListComplete(multi, simplify)
        \/ MySpellMunchList
        \/ Combine
        \/ \E by \in {"prezip", "word-list-compress"} :
              \/ order = <<>> /\ \E text \in Texts : Compress(text, by)
              \/ outcome # Nothing /\ Compress(TextOf(outcome.lines), by)
        \/ \E n \in Missing : CutOff(n)
        \/ Decompress(Unzipped)
        \/ file.by = "word-list-compress" /\ Decompress(ListDecompressed)
Spec == Init /\ [][Next]_vars

-----------------------------------------------------------------------------
\* The links of the sorted lists lose nothing: for every word the search meets exactly
\* the affixes the word begins or ends with (process_pfx_order, process_sfx_order).
SearchFindsAll ==
    affixes.err = "none" /\ order = <<>> /\ file = NoFile =>
        \A w \in CheckedWords, kind \in {"P", "S"} :
            ToSet(Candidates(affixes.entries, kind, w))
            = {e \in ToSet(affixes.entries) : e.kind = kind /\ HasAffix(e, w)}

\* "It will reduce a list of words to a minimal (or close to it) set of roots and
\* affixes that will match the same list of words" (munch-list in the manual): the
\* forms of the lines are the words of the list, none lost and none made up.  So it is
\* for whoever gets the list compressed: a file is read as it was written, and what is
\* left of one that prezip made and that was cut off is never taken for the whole.
\* (word-list-compress makes nothing of a list without words, and nothing is no list to
\* either program.)
OwnForms(line) ==
    IF outcome.how = "myspell"
    THEN TrustedForms(ParseTrusting(affixes.file, 1), line.word, line.aff)
    ELSE Forms(affixes.entries, line.word, line.aff)
WordsOf(lines) == UNION {OwnForms(l) : l \in ToSet(lines)}
Separated(text) ==
    LET lines == LinesOf([i \in DOMAIN text |-> IF text[i] <= 32 THEN Newline ELSE text[i]])
        words == SelectSeq(lines, LAMBDA l : l # <<>>)
    IN  FlattenSeq([k \in DOMAIN words |-> Append(words[k], Newline)])
Written == IF file.by = "prezip" THEN file.text ELSE Separated(file.text)
ReadAsWritten(read) ==
    IF file.cut THEN file.by = "prezip" => read.ret # 0
    ELSE file.data # <<>> => read = [out |-> Written, ret |-> 0]
MunchedListIsTheList ==
    /\ outcome # Nothing /\ file = NoFile =>
          /\ ~outcome.aborted
          /\ IF outcome.how = "combined" THEN ToSet(order) \subseteq WordsOf(outcome.lines)
             ELSE WordsOf(outcome.lines) = ToSet(order)
    /\ \A i \in DOMAIN file.read : ReadAsWritten(file.read[i])

\* Checking a word undoes what expanding an entry does: with the lines as a dictionary
\* affix_check or the plain lookup takes exactly the words of the list.
Dictionary == [entries |-> outcome.lines, special |-> Special]
Accepted(w) == \/ \E l \in ToSet(outcome.lines) : l.word = w
               \/ AffixCheck(affixes.entries, w, Dictionary)
CheckingIsExpanding ==
    outcome.how \in {"simple", "single", "keep"} /\ file = NoFile =>
        \A w \in CheckedWords : Accepted(w) <=> w \in ToSet(order)

\* "If a base word is not completely expanded for a given affix flag that flag will be
\* left on the word" (the expand command in the manual; a dictionary made with
\* partially-expand holds such words): what expanding up to a limit gives stands for
\* the same words as the entry.
PartialForms(aff, l, limit) ==
    UNION {Forms(aff, p.word, p.aff) : p \in ToSet(Expand(aff, l.word, l.aff, limit))}
PartialExpansionLosesNothing ==
    affixes.err = "none" =>
        \A l \in UNION {ToSet(lines) : lines \in Lists}, limit \in 1..4 :
            Forms(affixes.entries, l.word, l.aff)
            \subseteq PartialForms(affixes.entries, l, limit)
=============================================================================
