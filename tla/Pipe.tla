-------------------------------- MODULE Pipe --------------------------------
(***************************************************************************)
(* aspell pipe: one line in, its replies out (prog/aspell.cpp, pipe).      *)
(*                                                                         *)
(*   prog/aspell.cpp             the commands and the replies              *)
(*   common/document_checker.cpp, tokenizer.cpp, modules/tokenizer/basic   *)
(*                               from a line to the words of the language  *)
(*   Convert                     the encodings, and the width of characters*)
(*   CompoundWords               the check of a word and what it leaves    *)
(*   PipeModes                   the mode and the filters of the speller   *)
(*                                                                         *)
(* The caller has to know how many lines it may read: each text line ends  *)
(* in an empty one.  Words are reported at their places in the line, which *)
(* the loop overwrites in the meantime to print the words.                 *)
(*                                                                         *)
(* A line of text is given by the pieces it was made of, so that what is   *)
(* found in its bytes can be held against them.  A filter hides what it    *)
(* finds between its mark and the next blank; module Filters has the real  *)
(* ones.  The dictionary of replacement pairs is in module Replacements,   *)
(* saving in WritableDict; affixes, and the guesses they give, are left    *)
(* out.                                                                    *)
(***************************************************************************)
EXTENDS CompoundWords, PipeModes, Convert

CONSTANTS
  Mark,          \* for every filter, the character after which it hides text
  Sessions,      \* how pipe is started: [filter, mode, settings, normalize, byteOffsets]
  Lines,         \* text lines [ignored, pieces], without and with normalize
  Typed,         \* what may come behind a command, as bytes
  Suggested,     \* the misspelled words there are suggestions for
  MaxLines       \* bound on the lines of a session; a text counts for two

\* A piece [bytes, chars, word, hiddenBy]: its text, how many characters that is, the
\* word of the language it is (none: a separator), and the filters that hide it.
ASSUME LineAssumption ==
  \A l \in Lines[TRUE] \cup Lines[FALSE] : /\ l.ignored \in 0..1
                   /\ \A i \in DOMAIN l.pieces : l.pieces[i].hiddenBy \subseteq DOMAIN Mark
ASSUME MarkAssumption == \A m \in DOMAIN ModeFilters : ToSet(ModeFilters[m]) \subseteq DOMAIN Mark
ASSUME SessionAssumption == \A s \in Sessions : /\ s.settings \in Options
                                               /\ s.mode \in GoodModes \cup {""}
                                               /\ s.filter \in DOMAIN Mark \cup {""}

VARIABLES
  start,         \* the options that do not change
  settings,      \* the options that the check of a word looks at
  printStar, suggest, guess,
  saved,         \* the personal dictionary as it was last saved
  reading,       \* whether lines are still read
  line,          \* the last line, if it was text
  replies,       \* the answers to it
  lines          \* history: how many there were, as MaxLines counts them

wordLists == <<personal, session, saved>>
checkVars == <<checkInf, last>>
flags == <<settings, printStar, suggest, guess>>
vars == <<wordLists, checkVars, modeVars, flags, start, reading, line, replies, lines>>

-----------------------------------------------------------------------------
(* From bytes to words.                                                     *)

CaretSign == 94
LineBytes(l) == (IF l.ignored = 1 THEN <<CaretSign>> ELSE <<>>)
                \o FlattenSeq([i \in DOMAIN l.pieces |-> l.pieces[i].bytes]) \o <<10>>

\* The filters: what is hidden becomes a blank of the same width.
Hides(f, chars, i) ==
  \E j \in 1..i : /\ chars[j].chr = Mark[f]
                  /\ \A k \in j..i : chars[k].chr \notin {32, 10}
Filtered(filters, chars) ==
  [i \in DOMAIN chars |->
     IF \E n \in DOMAIN filters : Hides(filters[n], chars, i)
     THEN FilterChar(32, chars[i].width) ELSE chars[i]]

\* TokenizerBasic::advance: the tokens from i on, up to a character that is zero.
At(chars, i) == IF i \in DOMAIN chars THEN chars[i].chr ELSE 0
IsWord(chars, i) == At(chars, i) \in Letters
Begins(chars, i) == At(chars, i) \in BeginChars /\ IsWord(chars, i + 1)
InsideAnyMiddle(chars, i) ==
  IsWord(chars, i) \/ (At(chars, i) \in MiddleChars /\ IsWord(chars, i - 1))
Inside(chars, i) == \/ IsWord(chars, i)
                    \/ /\ At(chars, i) \in MiddleChars
                       /\ IsWord(chars, i - 1) /\ IsWord(chars, i + 1)

Tokens(chars) ==
  LET from[i \in 1..(Len(chars) + 1)] ==
        LET next == Min({j \in i..(Len(chars) + 1) :
                           At(chars, j) = 0 \/ IsWord(chars, j) \/ Begins(chars, j)})
            first == IF Begins(chars, next) THEN next + 1 ELSE next
            stop == Min({j \in first..(Len(chars) + 1) : ~Inside(chars, j)})
            end == IF At(chars, stop) \in EndChars THEN stop ELSE stop - 1
        IN  IF At(chars, next) = 0 THEN <<>>
            ELSE <<[offset |-> Width(SubSeq(chars, 1, next - 1)),
                    len |-> Width(SubSeq(chars, next, end)),
                    word |-> Chars(SubSeq(chars, first, end))]>> \o from[end + 1]
  IN  from[1]

\* DocumentChecker::process.
Process(s) == Tokens(Encode(Filtered(inForce, Decode(s)), start.normalize))

-----------------------------------------------------------------------------
(* The replies to a line.                                                   *)

Reply(kind, word, offset, guesses) ==
  [kind |-> kind, word |-> word, offset |-> offset, guesses |-> guesses]
EmptyLine == Reply("", <<>>, 0, <<>>)

\* status_fun
Status(inf) == Reply(IF inf[1].compound THEN "-" ELSE "*", <<>>, 0, <<>>)

\* check_info() as a list: of a wrong word, what the attempts to make it out left over
\* (its letter case is then made that of the word, which is left out).
LeftOver(inf) ==
  IF inf[1].word = Null THEN <<>>
  ELSE LET chain == Chain(inf)
       IN  [i \in DOMAIN chain |-> FromInternal(chain[i].word[1], start.normalize)]

\* Where the word begins: the number is made after the end of it, and of every word
\* before it, was overwritten.
PlaceInText(s, n, ignored) == IF start.byteOffsets THEN n ELSE MBLen(s, n)
Place(s, n, ignored) ==
  IF start.byteOffsets THEN n + ignored ELSE MBLen(s, n + ignored)

Misspelled(s, ignored, t, inf) ==
  LET word == SubSeq(s, ignored + t.offset + 1, ignored + t.offset + t.len)
      place == Place(s, t.offset, ignored)
  IN  IF suggest /\ t.word \in Suggested
      THEN Reply("&", word, place, IF guess THEN LeftOver(inf) ELSE <<>>)
      ELSE Reply(IF LeftOver(inf) = <<>> THEN "#" ELSE "?", word, place, LeftOver(inf))

\* One token.  The suggestions check the word again, on an array of their own.
Answered(acc, ignored, t, check, own) ==
  LET checked == Append(acc.checked, Outcome(t.word, settings, FALSE, check))
      cut == [acc.bytes EXCEPT ![ignored + t.offset + t.len + 1] = 0]
      answer == IF check.ok THEN (IF printStar THEN <<Status(check.inf)>> ELSE <<>>)
                ELSE <<Misspelled(cut, ignored, t, check.inf)>>
  IN  [bytes |-> IF check.ok THEN acc.bytes ELSE cut,
       inf |-> check.inf,
       out |-> acc.out \o answer,
       checked |-> IF check.ok \/ ~suggest THEN checked
                   ELSE Append(checked, Outcome(t.word, settings, TRUE, own))]

Answers(l) ==
  LET bytes == LineBytes(l)
      Step(acc, t) == Answered(acc, l.ignored, t,
                               CheckWord(acc.inf, t.word, settings, FALSE),
                               CheckWord(OwnArray, t.word, settings, TRUE))
  IN  FoldLeft(Step, [bytes |-> bytes, inf |-> checkInf, out |-> <<>>, checked |-> <<>>],
               Process(SubSeq(bytes, l.ignored + 1, Len(bytes))))

-----------------------------------------------------------------------------

Init ==
  /\ start \in Sessions
  /\ InitModes(start.filter, start.mode)
  /\ settings = start.settings
  /\ printStar = TRUE /\ suggest = TRUE /\ guess = FALSE
  /\ personal = {} /\ session = {} /\ saved = {}
  /\ checkInf = OwnArray /\ last = <<>>
  /\ reading = TRUE /\ line = <<>> /\ replies = <<>> /\ lines = 0

\* A line is read; a command is answered, if at all, by one line.
ReadLine(n) == reading /\ lines + n <= MaxLines /\ lines' = lines + n /\ UNCHANGED start
Command == ReadLine(1) /\ line' = <<>> /\ last' = <<>> /\ UNCHANGED checkInf
Silently == replies' = <<>> /\ UNCHANGED reading

\* check_if_valid
Valid(w) ==
  LET In(i, class) == i \in DOMAIN w /\ w[i] \in class
  IN  /\ In(1, Letters) \/ (In(1, BeginChars) /\ In(2, Letters))
      /\ \A i \in 1..(Len(w) - 1) : In(i, Letters) \/ (In(i, MiddleChars) /\ In(i + 1, Letters))
      /\ In(Len(w), Letters \cup EndChars)

\* WritableDict::add of a word that is neither refused nor there.
Added(list, w) ==
  IF ~Valid(w) \/ \E d \in list : w \in {d, Title(d), Upper(d)} THEN list ELSE list \cup {w}

Word(bytes) == ToInternal(bytes, start.normalize)

\* "*", "&", "@": what is wrong with the word is said elsewhere (stderr).  "&" takes
\* the bytes of the user for letters of the language.
AddPersonal(bytes) ==
  /\ Command /\ Silently
  /\ personal' = Added(personal, Word(bytes))
  /\ UNCHANGED <<session, saved, modeVars, flags>>
AddLower(bytes) ==
  /\ Command /\ Silently
  /\ personal' = Added(personal, Word(Lower(bytes)))
  /\ UNCHANGED <<session, saved, modeVars, flags>>
AddSession(bytes) ==
  /\ Command /\ Silently
  /\ session' = Added(session, Word(bytes))
  /\ UNCHANGED <<personal, saved, modeVars, flags>>

\* "#"
SaveAll == /\ Command /\ Silently
           /\ saved' = personal
           /\ UNCHANGED <<personal, session, modeVars, flags>>

\* "+" and "-"
EnterMode(m) == Command /\ Silently /\ ChangeMode(m) /\ UNCHANGED <<wordLists, flags>>
DefaultMode == Command /\ Silently /\ ResetFilters /\ UNCHANGED <<wordLists, flags>>

\* "!" and "%"
Terse(value) == /\ Command /\ Silently
                /\ printStar' = ~value
                /\ UNCHANGED <<wordLists, modeVars, settings, suggest, guess>>

\* "$$cs": options of the check, of pipe itself, and others.
SetOption ==
  /\ Command /\ Silently
  /\ \/ /\ \E o \in Options, f \in DOMAIN settings :
              /\ o = [settings EXCEPT ![f] = o[f]]
              /\ settings' = o
        /\ UNCHANGED <<modeVars, suggest, guess>>
     \/ suggest' = ~suggest /\ UNCHANGED <<modeVars, settings, guess>>
     \/ guess' = ~guess /\ UNCHANGED <<modeVars, settings, suggest>>
     \/ \E r \in CsRequests : ChangeConfig(r) /\ UNCHANGED <<settings, suggest, guess>>
  /\ UNCHANGED <<wordLists, printStar>>

\* "$$cs" without a comma: the name that is compared is that of an earlier line, or
\* nothing at all if there was none.
SetNothing == /\ Command
              /\ replies' = <<>>
              /\ reading' \in BOOLEAN
              /\ UNCHANGED <<wordLists, modeVars, flags>>

\* "$$cr mode", "$$pp" and "$$ps".
Printed(list) == {FromInternal(w, start.normalize) : w \in list}
PrintMode == /\ Command
             /\ replies' = <<[kind |-> "value", value |-> Retrieve(config, "mode")]>>
             /\ UNCHANGED <<wordLists, modeVars, flags, reading>>
PrintPersonal == /\ Command
                 /\ replies' = <<[kind |-> "personal", words |-> Printed(personal)]>>
                 /\ UNCHANGED <<wordLists, modeVars, flags, reading>>
PrintSession == /\ Command
                /\ replies' = <<[kind |-> "session", words |-> Printed(session)]>>
                /\ UNCHANGED <<wordLists, modeVars, flags, reading>>

\* An empty line, "~" and the other "$$" commands: nothing here changes ("$$ra" hands
\* its pair to store_replacement).
Nothing == /\ Command /\ Silently
           /\ UNCHANGED <<wordLists, modeVars, flags>>

\* Everything else is text.
Text(l) ==
  /\ ReadLine(2)
  /\ line' = <<l>>
  /\ \E done \in {Answers(l)} :
        /\ checkInf' = done.inf
        /\ last' = done.checked
        /\ replies' = Append(done.out, EmptyLine)
  /\ UNCHANGED <<wordLists, modeVars, flags, reading>>

\* The end of the input: what was not saved is gone.
EndOfInput == /\ reading /\ reading' = FALSE
              /\ personal' = saved /\ session' = {}
              /\ line' = <<>> /\ last' = <<>> /\ replies' = <<>>
              /\ UNCHANGED <<saved, checkInf, modeVars, flags, start, lines>>

Next ==
  \/ \E bytes \in Typed : AddPersonal(bytes) \/ AddLower(bytes) \/ AddSession(bytes)
  \/ SaveAll
  \/ \E m \in Modes : EnterMode(m)
  \/ DefaultMode
  \/ \E value \in BOOLEAN : Terse(value)
  \/ SetOption \/ SetNothing
  \/ PrintMode \/ PrintPersonal \/ PrintSession
  \/ Nothing
  \/ \E l \in Lines[start.normalize] : Text(l)
  \/ EndOfInput

Spec == Init /\ [][Next]_vars

-----------------------------------------------------------------------------

Visible(l) ==
  SelectSeq([i \in DOMAIN l.pieces |-> i],
            LAMBDA i : l.pieces[i].word # <<>> /\ l.pieces[i].hiddenBy \cap ToSet(inForce) = {})
Wrong(l, i) == ~RightCompound(l.pieces[i].word, settings)

\* The pieces of the line that a reply is due for.
Due(l) == SelectSeq(Visible(l), LAMBDA i : printStar \/ Wrong(l, i))

\* The caller keeps in step: to every line of text there are as many replies as it has
\* words (in terse mode wrong words), in their order, each of the right kind and with
\* the word as it was typed, and an empty line; whatever the encoding did to the
\* words, whatever the filters hid, and whichever words were learnt on the way.
RepliesFollowTheLine ==
  \A l \in ToSet(line) :
    /\ Len(replies) = Len(Due(l)) + 1
    /\ Last(replies) = EmptyLine
    /\ \A n \in DOMAIN Due(l) :
         LET piece == l.pieces[Due(l)[n]]
         IN  IF Wrong(l, Due(l)[n])
             THEN replies[n].kind \in {"&", "#", "?"} /\ replies[n].word = piece.bytes
             ELSE replies[n].kind = (IF Entry(piece.word) = Null THEN "-" ELSE "*")

\* The place of a reported word is the number of characters (with byte-offsets, of
\* bytes) in front of it in the line as it was typed, the "^" included: normalization
\* makes one byte of several characters or several of one, the filters and the
\* tokenizer count bytes, and the line is overwritten while it is counted.
CharsBefore(l, i) ==
  FoldLeft(LAMBDA n, p : n + (IF start.byteOffsets THEN Len(p.bytes) ELSE p.chars),
           l.ignored, SubSeq(l.pieces, 1, i - 1))
OffsetsCountCharacters ==
  \A l \in ToSet(line) :
    LET wrong == SelectSeq(Visible(l), LAMBDA i : Wrong(l, i))
        reports == SelectSeq(replies, LAMBDA r : r.kind \in {"&", "#", "?"})
    IN  \A n \in DOMAIN wrong \cap DOMAIN reports :
           reports[n].offset = CharsBefore(l, wrong[n])

\* The tree of tables finds what the .cmap says: a text is cut from the left into the
\* longest sequences that have an entry, and what has none is one "?".
EncodesTheLongest ==
  \A l \in ToSet(line) :
    LET chars == Decode(LineBytes(l))
    IN  /\ EncodeNormLookup(chars) = Longest(chars)
        /\ Width(EncodeNormLookup(chars)) = Len(LineBytes(l))
=============================================================================
