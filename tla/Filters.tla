------------------------------- MODULE Filters -------------------------------
(***************************************************************************)
(* common/filter.cpp with the filters of modules/filter: the chain of      *)
(* filters a mode asks for, through which the checker sends a document     *)
(* line by line.  What comes out is what is checked; every character knows *)
(* how many characters of the document it stands for.                      *)
(***************************************************************************)
EXTENDS FiniteSets, TexFilters, NroffFilter, SgmlFilter, MarkdownFilter

CONSTANTS Modes,      \* the set of filters of every mode
          Lines,      \* the lines a document of a mode is made of
          MaxLines    \* bound: lines of a document

VARIABLES mode, chain, states, doc, seen,
          first       \* whether this is the first document, or the filters were reset

vars == <<mode, chain, states, doc, seen, first>>

(* order_num_ of the filters, in hundredths.                               *)
OrderNum == ("nroff" :> 20) @@ ("markdown" :> 30) @@ ("tex" :> 35) @@ ("sgml" :> 35)
         @@ ("texinfo" :> 35) @@ ("context" :> 50) @@ ("decoder" :> 65)
         @@ ("email" :> 85) @@ ("url" :> 95)

Fresh(f) == CASE f = "tex" -> TexReset [] f = "nroff" -> NroffReset [] f = "sgml" -> SgmlReset
              [] f = "texinfo" -> TexinfoReset [] f = "email" -> EmailReset
              [] f = "markdown" -> MarkdownInit [] f = "context" -> ContextSetup
              [] f \in {"decoder", "url"} -> "stateless"

(* What reset() of each filter leaves as it was.                           *)
ResetOf(f, st) ==
  CASE f = "markdown" -> MarkdownReset(st)
    [] f = "context"  -> ContextReset(st)
    [] f = "sgml"     -> [SgmlReset EXCEPT !.tag = st.tag, !.attr = st.attr, !.endskip = st.endskip]
    [] f = "texinfo"  -> [TexinfoReset EXCEPT !.last = st.last]
    [] OTHER -> Fresh(f)

(* The filters that keep the number of characters see only these.          *)
Filtered(f, st, text) ==
  CASE f = "tex"      -> TexProcess(st, text)
    [] f = "nroff"    -> NroffProcess(st, text)
    [] f = "sgml"     -> SgmlProcess(st, text)
    [] f = "texinfo"  -> TexinfoProcess(st, text)
    [] f = "markdown" -> MarkdownProcess(st, text)
    [] f = "context"  -> ContextProcess(st, text)
    [] f = "email"    -> EmailProcess(st, text)
    [] f = "url"      -> UrlProcess(st, text)

(* Filter::process: all filters of the chain, one after the other.         *)
WithText(words, text) == [i \in DOMAIN words |-> [words[i] EXCEPT !.chr = text[i]]]
Replace(f, r, new) ==
  [states |-> [r.states EXCEPT ![f] = new.st], words |-> WithText(r.words, new.text)]
Apply(f, r) ==
  IF f = "decoder" THEN [r EXCEPT !.words = SgmlDecode(@)]
  ELSE Replace(f, r, Filtered(f, r.states[f], [i \in DOMAIN r.words |-> r.words[i].chr]))
Chain(filters, sts, line) ==
  FoldLeft(LAMBDA r, f : Apply(f, r),
           [states |-> sts, words |-> [i \in DOMAIN line |-> [chr |-> line[i], width |-> 1]]],
           filters)

Init == /\ mode \in DOMAIN Modes
        /\ chain = <<>>
        /\ states = [f \in Modes[mode] |-> Fresh(f)]
        /\ doc = <<>>
        /\ seen = <<>>
        /\ first = TRUE

(* Filter::add_filter: before the first filter that does not come earlier. *)
AddFilter(f) ==
  LET k == CHOOSE i \in 1 .. Len(chain) + 1 :
             /\ \A j \in 1 .. i - 1 : OrderNum[chain[j]] < OrderNum[f]
             /\ i <= Len(chain) => OrderNum[f] <= OrderNum[chain[i]]
  IN  /\ f \in Modes[mode] \ ToSet(chain)
      /\ chain' = InsertAt(chain, k, f)
      /\ UNCHANGED <<mode, states, doc, seen, first>>

(* DocumentChecker::process with the next line.                            *)
ProcessLine(line) ==
  /\ ToSet(chain) = Modes[mode]
  /\ Len(doc) < MaxLines
  /\ \E r \in {Chain(chain, states, line)} :
       /\ states' = r.states
       /\ seen' = Append(seen, r.words)
  /\ doc' = Append(doc, line)
  /\ UNCHANGED <<mode, chain, first>>

(* DocumentChecker::reset before the next document; here there are two.    *)
NextDocument ==
  /\ doc # <<>> /\ first
  /\ states' = [f \in DOMAIN states |-> ResetOf(f, states[f])]
  /\ doc' = <<>>
  /\ seen' = <<>>
  /\ first' = FALSE
  /\ UNCHANGED <<mode, chain>>

Next == \/ \E f \in Modes[mode] : AddFilter(f)
        \/ \E line \in Lines[mode] : ProcessLine(line)
        \/ NextDocument

Spec == Init /\ [][Next]_vars

-----------------------------------------------------------------------------
(* What the properties say about a document.                               *)
Text == FlattenSeq(doc)
Words(lines) == [i \in DOMAIN lines |-> lines[i].chr]
Whitespaced(words) == [i \in DOMAIN words |->
                         IF words[i].chr \in Spaces THEN " " ELSE words[i].chr]
Begins(text, i, with) ==
  i + Len(with) - 1 <= Len(text) /\ SubSeq(text, i, i + Len(with) - 1) = with
Occurs(text, c) == Cardinality({i \in DOMAIN text : text[i] = c})
Plain == <<"a", "b", " ", "c", "\n">>

(* What becomes of a plain line that comes next: "seen", "hidden" or less. *)
Fate(words) == CASE Words(words) = Plain -> "seen"
                 [] \A w \in ToSet(words) : w.chr \in Spaces -> "hidden"
                 [] OTHER -> "mangled"
Should(seeing) == IF seeing THEN {"seen"} ELSE {"hidden"}
Either == {"seen", "hidden", "mangled"}

(* After(text, i, open, close): the first position after the close that    *)
(* ends what opens at i, or 0 when nothing does.                           *)
After(text, i, open, close) ==
  LET ends == {j \in i + Len(open) .. Len(text) :
                 Begins(text, j, close) /\ text[j - 1] # "\\"}
  IN  IF ends = {} THEN 0 ELSE Len(close) + CHOOSE j \in ends : \A k \in ends : j <= k

(* How deep the end of the text is in skipped tags; -1 in open markup.     *)
SkipDepth(text) ==
  LET RECURSIVE Scan(_, _)
      Scan(i, depth) ==
        LET comment == Begins(text, i, <<"<", "!", "-", "-">>)
            next == IF comment THEN After(text, i, <<"<", "!", "-", "-">>, <<"-", "-", ">">>)
                               ELSE After(text, i, <<"<">>, <<">">>)
            tag == SubSeq(text, i + 1, next - 2)
        IN  CASE i > Len(text) -> depth
              [] i <= Len(text) /\ text[i] # "<" -> Scan(i + 1, depth)
              [] OTHER -> IF next = 0 THEN -1
                          ELSE Scan(next, CASE comment -> depth
                                            [] ~comment /\ tag = <<"s">> -> depth + 1
                                            [] ~comment /\ tag = <<"/", "s">> /\ depth > 0 -> depth - 1
                                            [] OTHER -> depth)
  IN  Scan(1, 0)

(* Open groups and environments: closing more than was opened is ignored.  *)
Depth(items, Opens(_), Closes(_)) ==
  FoldLeft(LAMBDA n, x : IF Opens(x) THEN n + 1
                         ELSE IF Closes(x) /\ n > 0 THEN n - 1 ELSE n, 0, items)
BraceDepth(text) == Depth(text, LAMBDA c : c = "{", LAMBDA c : c = "}")
(* The first @end ends an environment, also one in an environment of the   *)
(* same name: the code that would count them is never reached.             *)
EnvOpen(lines) ==
  \E k \in DOMAIN lines :
    /\ Begins(lines[k], 1, <<"@", "i", "g">>)
    /\ \A j \in k + 1 .. Len(lines) : ~Begins(lines[j], 1, <<"@", "e", "n", "d", " ", "i", "g">>)

TexUncommented(line) ==
  LET marks == {i \in DOMAIN line : line[i] = "%" /\ (i = 1 \/ line[i - 1] # "\\")}
  IN  IF marks = {} THEN line
      ELSE SubSeq(line, 1, (CHOOSE i \in marks : \A j \in marks : i <= j) - 1)
TexDepth(lines) ==
  LET text == FlattenSeq([i \in DOMAIN lines |-> TexUncommented(lines[i])])
  IN  BraceDepth(text)

(* A request that has its name, and its argument if that is hidden.        *)
NroffWhole(line) ==
  line[1] = "." => /\ Len(line) > 3
                   /\ line[2] \in Letters /\ line[3] \in Letters
                   /\ line[2] \o line[3] \in IgnoredArgument \cup {"if"} => Len(line) > 4

(* A fence is a line of three ticks, a code span ends at the next tick or  *)
(* at an empty line.                                                       *)
MarkdownOpen(lines) ==
  FoldLeft(LAMBDA open, line :
             LET fence == Begins(line, 1, <<Tick, Tick, Tick>>)
                 odd == Occurs(line, Tick) % 2 = 1
             IN  CASE open = "fence" -> IF fence /\ Len(line) = 4 THEN "text" ELSE "fence"
                   [] open = "span"  -> CASE fence -> "unclear"
                                          [] ~fence /\ (odd \/ Len(line) = 1) -> "text"
                                          [] OTHER -> "span"
                   [] open = "unclear" \/ Occurs(line, "\"") = 1 -> "unclear"
                   [] open = "text"  -> IF fence THEN "fence" ELSE IF odd THEN "span" ELSE "text",
           "text", lines)

ContextOpen(text) ==
  LET RECURSIVE Scan(_)
      Scan(i) ==
        LET hits == {k \in DOMAIN ContextDelimiters : Begins(text, i, ContextDelimiters[k][1])}
            pair == ContextDelimiters[CHOOSE k \in hits : TRUE]
            next == After(text, i, pair[1], IF pair[2] = <<>> THEN <<"\n">> ELSE pair[2])
        IN  CASE i > Len(text) -> FALSE
              [] i <= Len(text) /\ text[i] = "\\" -> Scan(i + 2)
              [] OTHER -> IF hits = {} THEN Scan(i + 1)
                          ELSE IF next = 0 THEN TRUE ELSE Scan(next)
  IN  Scan(1)

-----------------------------------------------------------------------------
(* common/indiv_filter.hpp:56 wants reset() to make a filter ready for a   *)
(* new document.  After it the context filter has no delimiters and the    *)
(* Markdown filter is still in the code or link it was in.                 *)
StartedAnew == first \/ mode \notin {"ccpp", "markdown"}

(* Whether a document reaches the filters line by line, as aspell sends    *)
(* it, or at once, as a program that uses the library may, the same words  *)
(* are checked at the same places.  Two filters need lines: the context    *)
(* filter ends a comment where its text ends, and the URL filter looks for *)
(* the URL that follows a word of one letter across the end of a line.     *)
LinesOrDocument ==
  Modes[mode] \cap {"context", "url"} = {} /\ StartedAnew =>
    Whitespaced(Chain(chain, [f \in ToSet(chain) |-> Fresh(f)], Text).words)
      = Whitespaced(FlattenSeq(seen))

(* The widths of what comes out of a line add up to the line: the offset   *)
(* of a misspelling, counted in them, is one into the document.  No line   *)
(* loses its end, whatever is hidden in it.                                *)
WidthsAddUp ==
  \A k \in DOMAIN seen :
    /\ FoldLeft(LAMBDA n, w : n + w.width, 0, seen[k]) = Len(doc[k])
    /\ Last(seen[k]).chr \in Spaces

(* A filter finds its way back: a plain line is checked if and only if the *)
(* markup before it, by a reading of the document as a whole, leaves it in *)
(* text.                                                                   *)
PlainTextIsChecked ==
  ToSet(chain) = Modes[mode] /\ StartedAnew =>
    Fate(Chain(chain, states, Plain).words) \in
      CASE mode = "tex" -> IF TexDepth(doc) = 0 THEN {"seen"} ELSE Either
        [] mode = "nroff" -> IF \A k \in DOMAIN doc : NroffWhole(doc[k]) THEN {"seen"} ELSE Either
        [] mode = "html" -> IF SkipDepth(Text) < 0 THEN Either ELSE Should(SkipDepth(Text) = 0)
        [] mode = "texinfo" -> IF ~EnvOpen(doc) /\ BraceDepth(Text) > 0 THEN Either
                               ELSE Should(~EnvOpen(doc))
        [] mode = "ccpp" -> Should(ContextOpen(Text))
        [] mode = "markdown" -> IF MarkdownOpen(doc) = "unclear" THEN Either
                                ELSE Should(MarkdownOpen(doc) = "text")
        [] mode \in {"email", "url"} -> {"seen"}

(* The counters that stand for nested markup agree with what is open: a    *)
(* counter left behind would hide, or show, the rest of the document.      *)
NestingIsCounted ==
  \A f \in Modes[mode] :
    LET st == states[f]
    IN  CASE f = "texinfo" -> /\ st.ignore = Cardinality({k \in DOMAIN st.stack : st.stack[k]})
                              /\ (st.env_ignore > 0) = (st.env # "")
          [] f = "tex" -> \A k \in DOMAIN st.stack : st.stack[k].in \in {"Name", "Swallow"}
                                                       => k = Len(st.stack)
          [] f = "markdown" -> \A k \in DOMAIN st.chain : Leaf(st.chain[k]) => k = Len(st.chain)
          [] OTHER -> TRUE
=============================================================================
