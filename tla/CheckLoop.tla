----------------------------- MODULE CheckLoop -----------------------------
(***************************************************************************)
(* Checking a file interactively (aspell check).                           *)
(*                                                                         *)
(*   prog/aspell.cpp            check: the loop over the misspellings      *)
(*   prog/checker_string.cpp    the ring of lines between the two files    *)
(*   common/document_checker.cpp, modules/tokenizer/basic.cpp  the words   *)
(*   common/file_util.cpp       renaming and removing files                *)
(*                                                                         *)
(* The text goes through a ring of lines: a line is read at one end when   *)
(* the loop or the display needs it, and what falls out at the other end   *)
(* is written.  Words are found in a copy of the current line, made before *)
(* anything in it was replaced, so that their places in the line have to   *)
(* be corrected by the lengths of the replacements so far.                 *)
(*                                                                         *)
(* A line is a sequence of characters.  The terminal is left out: the user *)
(* is a choice, and the display a reader of further lines.                 *)
(***************************************************************************)
EXTENDS Integers, Sequences, SequencesExt, FiniteSets

CONSTANTS
  Char,          \* the characters of lines and words
  WordChars,     \* the letters
  MiddleChars,   \* characters that a word may have inside, like an apostrophe
  BeginChars,    \* characters that may be in front of a word
  EndChars,      \* characters that a word may end in
  Documents,     \* the files, as sequences of lines
  NumLines,      \* lines read ahead by the constructor (64 in the code)
  Dictionary,    \* the words of the dictionaries
  Corrections,   \* what the user may type
  MaxLearnt,     \* bound on the words the user adds
  MaxListed,     \* bound on the words listed to be replaced
  DiskFull       \* whether the disk may be full

ASSUME SizeAssumption == NumLines \in Nat \ {0} /\ MaxLearnt \in Nat /\ MaxListed \in Nat
ASSUME FaultAssumption == DiskFull \in BOOLEAN
\* A line has at least its newline, and nothing is replaced by no word.
ASSUME TextAssumption == /\ Documents \subseteq Seq(Seq(Char) \ {<<>>})
                         /\ Corrections \subseteq Seq(Char) \ {<<>>}

VARIABLES
  \* check()
  phase,         \* where it is
  replaceList,   \* replace_list: a function from words
  changed,
  backup,        \* the option backup
  \* the speller
  learnt,        \* the words added to it
  \* CheckerString
  text,          \* the ring and the two open files
  cur,           \* cur_line_
  copy,          \* the line as the document checker got it
  pos,           \* the place in it that the tokenizer has come to
  tok,           \* tok_: offset (from 1) and length in the copy
  diff,          \* diff_
  begin, size,   \* real_word_begin_, real_word_size_: the word in the line
  hasRepl,       \* has_repl_
  \* the file system: "original", "written" (what was written), "other" or "none"
  file, new, bak,
  \* history
  doc,           \* the document
  edits,         \* the replacements made: [line, word, by]
  failed         \* whether a file could not be renamed or removed

loopVars == <<replaceList, changed, backup>>
wordVars == <<copy, pos, tok, diff, begin, size, hasRepl>>
diskVars == <<file, new, bak, failed>>
vars == <<phase, replaceList, changed, backup, learnt, text, cur, copy, pos, tok,
          diff, begin, size, hasRepl, file, new, bak, doc, edits, failed>>

-----------------------------------------------------------------------------
(* TokenizerBasic::advance                                                  *)

Is(class, line, i) == i \in DOMAIN line /\ line[i] \in class

Starts(line, i) == \/ Is(WordChars, line, i)
                   \/ Is(BeginChars, line, i) /\ Is(WordChars, line, i + 1)

Inside(line, i) == \/ Is(WordChars, line, i)
                   \/ /\ Is(MiddleChars, line, i)
                      /\ Is(WordChars, line, i - 1) /\ Is(WordChars, line, i + 1)

Least(S) == CHOOSE i \in S : \A j \in S : i <= j

\* The token at i: a character of BeginChars belongs to it but not to the word.
TokenAt(line, i) ==
  LET first == IF Is(BeginChars, line, i) /\ Is(WordChars, line, i + 1) THEN i + 1 ELSE i
      stop == Least({j \in first..(Len(line) + 1) : ~Inside(line, j)})
      end == IF Is(EndChars, line, stop) THEN stop ELSE stop - 1
  IN  [offset |-> i, len |-> end - i + 1, word |-> SubSeq(line, first, end)]

\* speller_->check
Correct(word) == word \in Dictionary \cup learnt

\* What the tokenizer finds next in the copy.
TokenStarts == {j \in pos..Len(copy) : Starts(copy, j)}
Token == TokenAt(copy, Least(TokenStarts))

-----------------------------------------------------------------------------
(* The ring: text.lines, whose place text.end is free and has the oldest    *)
(* line behind it; text.in is what has not been read yet, text.out what was *)
(* written, and text.torn whether a line was lost in writing.               *)

After(t, i) == (i % Len(t.lines)) + 1
Inc(i) == After(text, i)

\* fwrite; on a full disk the line is gone, and nobody looks.
Written(t, line) ==
  {IF line = <<>> THEN t ELSE [t EXCEPT !.out = Append(@, line)]}
  \cup (IF DiskFull /\ line # <<>> THEN {[t EXCEPT !.torn = TRUE]} ELSE {})

\* read_next_line does something
MayRead(t, at) == t.in # <<>> /\ After(t, t.end) # at

\* Mutant: the line that falls out is not written.
ReadNextLineDrops(t) ==
  LET next == After(t, t.end)
  IN  {[t EXCEPT !.lines = [@ EXCEPT ![t.end] = Head(t.in), ![next] = <<>>],
                 !.end = next, !.in = Tail(@)]}

ReadNextLine(t) ==
  LET next == After(t, t.end)
  IN  Written([t EXCEPT !.lines = [@ EXCEPT ![t.end] = Head(t.in), ![next] = <<>>],
                        !.end = next, !.in = Tail(@)],
              t.lines[next])

\* next_line: the line after i, and what it does to the ring.
NextLine(t, i, at) ==
  IF Inc(i) = t.end /\ MayRead(t, at) THEN ReadNextLine(t) ELSE {t}

FirstLine(t) == After(t, t.end)

-----------------------------------------------------------------------------

\* The constructor, and check() up to the loop.
Init ==
  /\ doc \in Documents
  /\ backup \in BOOLEAN
  /\ LET ahead == IF Len(doc) < NumLines THEN Len(doc) ELSE NumLines
     IN  /\ text = [lines |-> SubSeq(doc, 1, ahead) \o << <<>> >>, end |-> ahead + 1,
                    in |-> SubSeq(doc, ahead + 1, Len(doc)), out |-> <<>>, torn |-> FALSE]
         /\ copy = text.lines[1]
  /\ phase = "next" /\ replaceList = <<>> /\ changed = FALSE
  /\ learnt = {}
  /\ cur = 1 /\ pos = 1 /\ tok = [offset |-> 1, len |-> 0] /\ diff = 0
  /\ begin = 1 /\ size = 0 /\ hasRepl = FALSE
  /\ file = "original" /\ new = "written" /\ bak = "other"
  /\ edits = {} /\ failed = FALSE

Line == text.lines[cur]
RealWord == SubSeq(Line, begin, begin + size - 1)

\* Mutant: the place of a word is not corrected for its replacement.
AfterReplacementSamePlace ==
  LET correct == " " \in ToSet(RealWord) \/ Correct(RealWord)
  IN  /\ phase = "next" /\ hasRepl
      /\ tok' = [tok EXCEPT !.len = size]
      /\ hasRepl' = FALSE
      /\ phase' = IF correct THEN "scan" ELSE "found"
      /\ UNCHANGED <<loopVars, learnt, text, cur, copy, pos, diff, begin, size,
                     diskVars, doc, edits>>

\* next_misspelling, after a replacement: it is checked as one word unless it
\* has a space in it, and is a misspelling again if it is wrong.
AfterReplacement ==
  LET correct == " " \in ToSet(RealWord) \/ Correct(RealWord)
  IN  /\ phase = "next" /\ hasRepl
      /\ diff' = diff + size - tok.len
      /\ tok' = [tok EXCEPT !.len = size]
      /\ hasRepl' = FALSE
      /\ phase' = IF correct THEN "scan" ELSE "found"
      /\ UNCHANGED <<loopVars, learnt, text, cur, copy, pos, begin, size,
                     diskVars, doc, edits>>

NoReplacement ==
  /\ phase = "next" /\ ~hasRepl
  /\ phase' = IF cur = text.end THEN "exit" ELSE "scan"
  /\ UNCHANGED <<loopVars, learnt, text, cur, wordVars, diskVars, doc, edits>>

\* The loops of next_misspelling: a word that is right is passed over,
PassWord ==
  /\ phase = "scan" /\ TokenStarts # {} /\ Correct(Token.word)
  /\ pos' = Token.offset + Token.len
  /\ UNCHANGED <<phase, loopVars, learnt, text, cur, copy, tok, diff, begin, size,
                 hasRepl, diskVars, doc, edits>>

\* a wrong one is found,
FindWord ==
  /\ phase = "scan" /\ TokenStarts # {} /\ ~Correct(Token.word)
  /\ tok' = [offset |-> Token.offset, len |-> Token.len]
  /\ pos' = Token.offset + Token.len
  /\ begin' = Token.offset + diff
  /\ size' = Token.len
  /\ phase' = "found"
  /\ UNCHANGED <<loopVars, learnt, text, cur, copy, diff, hasRepl, diskVars,
                 doc, edits>>

\* and after the last one comes the next line.
GoToNextLine ==
  /\ phase = "scan" /\ TokenStarts = {}
  /\ text' \in NextLine(text, cur, Inc(cur))
  /\ cur' = Inc(cur)
  /\ diff' = 0
  /\ copy' = text'.lines[Inc(cur)] /\ pos' = 1
  /\ phase' = IF cur' = text'.end THEN "exit" ELSE "scan"
  /\ UNCHANGED <<loopVars, learnt, tok, begin, size, hasRepl, diskVars, doc, edits>>

-----------------------------------------------------------------------------
(* What is done about a misspelling.                                        *)

\* The number of a line in the document: those written and those in the ring.
Behind(t, i) == (i - t.end - 1 + Len(t.lines)) % Len(t.lines)
LineNo == Len(doc) - Len(text.in) - (Len(text.lines) - 1) + Behind(text, cur) + 1

\* CheckerString::replace; the pair goes to the speller (see Replacements).
Replace(word) ==
  /\ text' = [text EXCEPT !.lines[cur] =
                SubSeq(@, 1, begin - 1) \o word \o SubSeq(@, begin + size, Len(@))]
  /\ size' = Len(word)
  /\ hasRepl' = TRUE
  /\ phase' = "next"
  /\ edits' = {e \in edits : e.line # LineNo \/ e.word # tok.offset}
              \cup {[line |-> LineNo, word |-> tok.offset, by |-> word]}
  /\ UNCHANGED <<cur, copy, pos, tok, diff, begin, backup, learnt, diskVars, doc>>

\* The word is in the list of those to be replaced wherever they are.
ReplaceListed ==
  /\ phase = "found" /\ RealWord \in DOMAIN replaceList
  /\ Replace(replaceList[RealWord])
  /\ UNCHANGED <<replaceList, changed>>

\* display_misspelled_word and the menu
Prompt ==
  /\ phase = "found" /\ RealWord \notin DOMAIN replaceList
  /\ phase' = "prompt"
  /\ UNCHANGED <<loopVars, learnt, text, cur, wordVars, diskVars, doc, edits>>

\* The display, drawn again on every signal, reads lines to fill the screen.
LookAhead ==
  /\ phase = "prompt" /\ MayRead(text, cur)
  /\ text' \in ReadNextLine(text)
  /\ UNCHANGED <<phase, loopVars, learnt, cur, wordVars, diskVars, doc, edits>>

Ignore ==
  /\ phase = "prompt"
  /\ phase' = "next"
  /\ UNCHANGED <<loopVars, learnt, text, cur, wordVars, diskVars, doc, edits>>

\* Ignore all, add and add in lower case: the word as it stands in the line, with
\* the character in front of it that the check leaves out.
Learn ==
  /\ phase = "prompt" /\ Cardinality(learnt) < MaxLearnt
  /\ learnt' = learnt \cup {RealWord}
  /\ phase' = "next"
  /\ UNCHANGED <<loopVars, text, cur, wordVars, diskVars, doc, edits>>

\* Replace, and the choice of a suggestion
ReplaceOne(word) ==
  /\ phase = "prompt"
  /\ Replace(word)
  /\ changed' = TRUE
  /\ UNCHANGED replaceList

\* Mutant: it may be.
ReplaceAndListAlways(word) ==
  /\ phase = "prompt" /\ Cardinality(DOMAIN replaceList) < MaxListed
  /\ replaceList' = [w \in DOMAIN replaceList \cup {RealWord} |->
                       IF w = RealWord THEN word ELSE replaceList[w]]
  /\ Replace(word)
  /\ changed' = TRUE

\* Replace all: a word is never listed to be replaced by itself.
ReplaceAndList(word) ==
  /\ phase = "prompt" /\ Cardinality(DOMAIN replaceList) < MaxListed
  /\ replaceList' = IF word = RealWord THEN replaceList
                    ELSE [w \in DOMAIN replaceList \cup {RealWord} |->
                             IF w = RealWord THEN word ELSE replaceList[w]]
  /\ Replace(word)
  /\ changed' = TRUE

Exit ==
  /\ phase = "prompt"
  /\ phase' = "exit"
  /\ UNCHANGED <<loopVars, learnt, text, cur, wordVars, diskVars, doc, edits>>

Abort ==
  /\ phase = "prompt"
  /\ phase' = "discard"
  /\ UNCHANGED <<loopVars, learnt, text, cur, wordVars, diskVars, doc, edits>>

-----------------------------------------------------------------------------
(* The end of check().                                                      *)

At(here, next) ==
  /\ phase = here /\ phase' = next
  /\ UNCHANGED <<loopVars, learnt, wordVars, doc, edits>>

\* save_all_word_lists, whose errors are not looked at; then ~CheckerString
SaveLists ==
  /\ At("exit", "drain")
  /\ cur' = FirstLine(text)
  /\ UNCHANGED <<text, diskVars>>

\* Mutant: only what is in the ring.
DrainRing ==
  /\ cur # text.end
  /\ At("drain", "drain")
  /\ text' \in Written([text EXCEPT !.lines[cur] = <<>>], Line)
  /\ cur' = Inc(cur)
  /\ UNCHANGED diskVars

\* Its loop writes what is in the ring, and what has not been read yet.
Drain ==
  /\ cur # text.end
  /\ At("drain", "drain")
  /\ \E t \in Written([text EXCEPT !.lines[cur] = <<>>], Line) :
       text' \in NextLine(t, cur, Inc(cur))
  /\ cur' = Inc(cur)
  /\ UNCHANGED diskVars

Drained ==
  /\ cur = text.end
  /\ At("drain", IF ~changed THEN "discard"
                 ELSE IF backup THEN "removeBackup" ELSE "removeFile")
  /\ UNCHANGED <<text, cur, diskVars>>

\* remove and rename may fail, for a directory that may not be written, say; then
\* the files are as they were, and check() goes on: it looks at no result.
Fails == failed' = TRUE /\ UNCHANGED <<file, new, bak>>

\* rename_file removes its target first.
RemoveBackup ==
  /\ At("removeBackup", "renameFile")
  /\ \/ Fails
     \/ bak' = "none" /\ UNCHANGED <<file, new, failed>>
  /\ UNCHANGED <<text, cur>>

RenameFile ==
  /\ At("renameFile", "removeFile")
  /\ \/ Fails
     \/ bak' = file /\ file' = "none" /\ UNCHANGED <<new, failed>>
  /\ UNCHANGED <<text, cur>>

RemoveFile ==
  /\ At("removeFile", "renameNew")
  /\ \/ Fails
     \/ file' = "none" /\ UNCHANGED <<new, bak, failed>>
  /\ UNCHANGED <<text, cur>>

RenameNew ==
  /\ At("renameNew", "done")
  /\ \/ Fails
     \/ file' = new /\ new' = "none" /\ UNCHANGED <<bak, failed>>
  /\ UNCHANGED <<text, cur>>

\* Nothing was changed, or the user does not want it.
Discard ==
  /\ At("discard", "done")
  /\ \/ Fails
     \/ new' = "none" /\ UNCHANGED <<file, bak, failed>>
  /\ UNCHANGED <<text, cur>>

-----------------------------------------------------------------------------
NextMisspelling == AfterReplacement \/ NoReplacement \/ PassWord \/ FindWord
                   \/ GoToNextLine

User == \/ Ignore \/ Learn \/ Exit \/ Abort
        \/ \E word \in Corrections : ReplaceOne(word) \/ ReplaceAndList(word)

Finish == \/ SaveLists \/ Drain \/ Drained \/ RemoveBackup \/ RenameFile
          \/ RemoveFile \/ RenameNew \/ Discard

Program == NextMisspelling \/ ReplaceListed \/ Prompt \/ Finish

Next == Program \/ LookAhead \/ User

Spec == Init /\ [][Next]_vars

\* The program runs on when it does not wait for the user.
FairSpec == Spec /\ WF_vars(Program)

-----------------------------------------------------------------------------
(* What the text should be.                                                *)

EditsOf(n) == {e \in edits : e.line = n}

EditsAt(made, i) == {e \in made : e.word = i}

\* What stands in the place of character i of a line in which these replacements
\* were made.
Piece(line, made, i) ==
  CASE EditsAt(made, i) # {} -> (CHOOSE e \in EditsAt(made, i) : TRUE).by
    [] /\ EditsAt(made, i) = {}
       /\ \E e \in made : e.word < i /\ i < e.word + TokenAt(line, e.word).len -> <<>>
    [] OTHER -> <<line[i]>>

\* The line up to place i with the replacements made in it.
PatchedTo(line, made) ==
  LET upTo[i \in 0..Len(line)] ==
        IF i = 0 THEN <<>> ELSE upTo[i - 1] \o Piece(line, made, i)
  IN  upTo

CorrectedLine(n) == PatchedTo(doc[n], EditsOf(n))[Len(doc[n])]

Corrected == [n \in DOMAIN doc |-> CorrectedLine(n)]

\* The lines of the ring, the oldest first.
InRing == LET size_ == Len(text.lines)
          IN  [k \in 1..(size_ - 1) |-> text.lines[((text.end + k - 1) % size_) + 1]]

-----------------------------------------------------------------------------
(* Properties                                                              *)

\* At every moment the lines that were written, those of the ring and those not
\* read yet are the document, in its order, with the replacements the user asked
\* for in their places: no line is lost, repeated or overtaken however far the
\* display reads ahead, and no replacement lands beside its word although the
\* words are found in a copy of the line that has none of them.
TextIsTheDocument ==
  \E emptied \in 0..Len(InRing) :
    /\ \A k \in DOMAIN InRing : InRing[k] = <<>> <=> k <= emptied
    /\ text.torn \/ text.out \o SubSeq(InRing, emptied + 1, Len(InRing)) \o text.in
                       = Corrected

\* The word that is shown, replaced and stored as misspelt is the one the tokenizer
\* found, or what it was replaced by.
HighlightedIsTheWord ==
  phase \in {"found", "prompt"} =>
    LET found == TokenAt(doc[LineNo], tok.offset)
        made == EditsAt(EditsOf(LineNo), tok.offset)
    IN  RealWord = IF made = {} THEN SubSeq(doc[LineNo], found.offset,
                                            found.offset + found.len - 1)
                   ELSE (CHOOSE e \in made : TRUE).by

\* A file is whole if it is the original or has the whole corrected text.
Whole(f) == \/ f = "original"
            \/ f = "written" /\ ~text.torn /\ text.out = Corrected

\* At every moment, and so whenever the program is killed or a file cannot be removed
\* or renamed, one of the three files has the whole text, the original or the
\* corrected one; if nothing failed the file itself has in the end.  The errors of
\* writing are not looked at either: a text that a full disk has cut off takes the
\* place of the original, and then it takes a backup that could be made.
TextSurvives ==
  /\ ~text.torn \/ (backup /\ ~failed) => Whole(file) \/ Whole(new) \/ Whole(bak)
  /\ phase = "done" /\ ~text.torn /\ ~failed => Whole(file) /\ new = "none"

\* Words that are listed to be replaced by one another.
Circular == \E S \in (SUBSET DOMAIN replaceList) \ {{}} :
               \A w \in S : replaceList[w] \in S \ {w}

\* The program always comes to ask the user or to its end, unless the user lists
\* words to be replaced by one another.
AsksOrEnds ==
  phase \notin {"prompt", "done"} ~> (phase \in {"prompt", "done"} \/ Circular)
=============================================================================
