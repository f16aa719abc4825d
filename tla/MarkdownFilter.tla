--------------------------- MODULE MarkdownFilter ---------------------------
(***************************************************************************)
(* modules/filter/markdown.cpp.  First the iterator over one line and what *)
(* can stand inside of a line: code, comments, tags and links.  Each of    *)
(* them may be left open at the end of the line and is then closed by a    *)
(* later one.  Lines end with "\n"; the tag filter's cache of its last    *)
(* result is left out, reading a tag twice gives the same.                 *)
(*                                                                         *)
(* Then the blocks of a document.  The open blocks form a chain; a line    *)
(* may keep a block open (YES), close it (NEVER) or leave that to the      *)
(* blocks after it (MAYBE).                                                *)
(***************************************************************************)
EXTENDS FilterText

CONSTANTS SkipRefLabels,   \* f-markdown-skip-ref-labels
          MultilineTags,   \* f-markdown-multiline-tags
          RawStartTags,    \* f-markdown-raw-start-tags
          BlockStartTags   \* f-markdown-block-start-tags

(* The iterator: line, position, column and the indent just passed.        *)
LineStart(line) == [line |-> line, i |-> 1, col |-> 0, indent |-> 0]
LineEnd(t) == IF t.line # <<>> /\ Last(t.line) = "\n" THEN Len(t.line) ELSE Len(t.line) + 1
Eol(t) == t.i >= LineEnd(t)
CharAt(t, k) ==
  LET j == t.i + k
  IN  IF (Eol(t) /\ k >= 0) \/ j \notin DOMAIN t.line THEN "" ELSE t.line[j]
Cur(t) == CharAt(t, 0)
Unescaped(t, j) == j = 1 \/ t.line[j - 1] # "\\"
UEq(t, c) == Cur(t) = c /\ Unescaped(t, t.i)
LooksAt(t, str) == \A k \in DOMAIN str : CharAt(t, k - 1) = str[k]
RunLength(t) ==            \* how often the current character is repeated
  CHOOSE n \in 1 .. LineEnd(t) :
    /\ \A k \in 0 .. n - 1 : CharAt(t, k) = Cur(t)
    /\ CharAt(t, n) # Cur(t)

(* inc(), eat_space(), adv(), blank_adv(), blank_rest()                    *)
MoveTo(t, j) ==
  [t EXCEPT !.i = j, !.indent = 0,
     !.col = FoldLeft(LAMBDA col, c : col + (IF c = "\t" THEN 4 - (col % 4) ELSE 1),
                      @, SubSeq(t.line, t.i, j - 1))]
FirstFrom(t, Stop(_)) ==
  CHOOSE j \in t.i .. LineEnd(t) :
    /\ \A k \in t.i .. j - 1 : ~Stop(k)
    /\ j = LineEnd(t) \/ Stop(j)
Indented(t, m) == [m EXCEPT !.indent = m.col - t.col]
EatSpace(t) ==
  IF Eol(t) THEN [t EXCEPT !.indent = 0]
            ELSE Indented(t, MoveTo(t, FirstFrom(t, LAMBDA j : t.line[j] \notin Blanks)))
Inc(t, n) ==
  IF Eol(t) THEN [t EXCEPT !.indent = 0]
  ELSE MoveTo(t, IF t.i + n <= LineEnd(t) THEN t.i + n ELSE LineEnd(t))
Adv(t, n) == EatSpace(Inc(t, n))
Blanked(t, i, j) ==
  [t EXCEPT !.line = [k \in DOMAIN @ |-> IF k \in i .. j - 1 /\ @[k] \notin Spaces
                                         THEN " " ELSE @[k]]]
BlankedTo(t, m) == EatSpace(Blanked(m, t.i, m.i))
BlankAdv(t, n) == BlankedTo(t, Inc(t, n))
ToEnd(t) == IF Eol(t) THEN t ELSE MoveTo(t, LineEnd(t))
BlankRest(t) == Blanked(ToEnd(t), t.i, LineEnd(t))
Find(t, c) ==              \* to the next c that is not escaped
  IF Eol(t) THEN t ELSE MoveTo(t, FirstFrom(t, LAMBDA j : t.line[j] = c /\ Unescaped(t, j)))
Skip(t, set) == IF Eol(t) THEN t ELSE MoveTo(t, FirstFrom(t, LAMBDA j : t.line[j] \notin set))
BackTo(t0, t) == [t0 EXCEPT !.line = t.line]

(* What is open at the end of a line; "none" is the null pointer.          *)
NoInline == [kind |-> "none"]
Result(inline, t) == [inline |-> inline, t |-> t]

(***************************************************************************)
(* InlineCode and HtmlComment                                              *)
(***************************************************************************)
RECURSIVE CodeClose(_, _)
CodeClose(len, t) ==
  CASE Eol(t) -> Result([kind |-> "code", len |-> len], t)
    [] ~Eol(t) /\ Cur(t) = Tick /\ RunLength(t) >= len -> Result(NoInline, BlankAdv(t, len))
    [] OTHER -> CodeClose(len, BlankAdv(t, 1))
CodeOpen(t) ==
  IF UEq(t, Tick) THEN CodeClose(RunLength(t), BlankAdv(t, RunLength(t)))
                 ELSE Result(NoInline, t)

RECURSIVE CommentClose(_)
CommentClose(t) ==
  CASE Eol(t) -> Result([kind |-> "comment"], t)
    [] ~Eol(t) /\ LooksAt(t, <<"-", "-", ">">>) -> Result(NoInline, Adv(t, 3))
    [] OTHER -> CommentClose(Inc(t, 1))
CommentOpen(t) ==
  IF LooksAt(t, <<"<", "!", "-", "-">>) THEN CommentClose(Adv(t, 4)) ELSE Result(NoInline, t)

(***************************************************************************)
(* HtmlTag.  A tag is [name, closing, state]; its attributes are read by   *)
(* parse_attribute(), which is resumed in the state it stopped in.         *)
(***************************************************************************)
NoTag == [name |-> "", closing |-> FALSE, state |-> "Invalid"]
AttrStart == Letters \cup {"_", ":"}
AttrChars == AttrStart \cup Digits \cup {".", "-"}
ValueStops == Spaces \cup {"\"", "'", "=", "<", ">", Tick}

AttrAt(state, t) == [state |-> state, t |-> t]
QuoteEnds(end, state) ==
  IF Eol(end) THEN AttrAt(state, end) ELSE AttrAt("Between", Inc(end, 1))
Quoted(t, q, state) ==
  QuoteEnds(IF Eol(t) THEN t ELSE MoveTo(t, FirstFrom(t, LAMBDA j : t.line[j] = q)), state)
BareValue(t, end) == AttrAt(IF end.i = t.i THEN "Invalid" ELSE "Between", end)
AttrAfterEq(t) ==
  CASE Eol(t) -> AttrAt("AfterEq", t)
    [] Cur(t) = "'"  -> Quoted(Inc(t, 1), "'", "InSingleQ")
    [] Cur(t) = "\"" -> Quoted(Inc(t, 1), "\"", "InDoubleQ")
    [] OTHER -> BareValue(t, MoveTo(t, FirstFrom(t, LAMBDA j : t.line[j] \in ValueStops)))
AttrAfterName(t) ==
  CASE Eol(t) -> AttrAt("AfterName", t)
    [] ~Eol(t) /\ Cur(t) = "=" -> AttrAfterEq(EatSpace(Inc(t, 1)))
    [] OTHER -> AttrAt("Invalid", t)
Attribute(t, state) ==
  CASE state = "Between" /\ Cur(t) \in AttrStart -> AttrAfterName(EatSpace(Skip(t, AttrChars)))
    [] state = "AfterName" -> AttrAfterName(EatSpace(t))
    [] state = "AfterEq" -> AttrAfterEq(EatSpace(t))
    [] state = "InSingleQ" -> Quoted(t, "'", state)
    [] state = "InDoubleQ" -> Quoted(t, "\"", state)
    [] OTHER -> AttrAt("BeforeClose", t)

TagEndLength(t) ==         \* parse_tag_close
  IF Cur(t) = ">" THEN 1 ELSE IF LooksAt(t, <<"/", ">">>) THEN 2 ELSE 0
TagResult(tag, t) == [tag |-> tag, t |-> t, open |-> FALSE]
TagValid(tag, t) == TagResult([tag EXCEPT !.state = "Valid"], t)
TagInvalid(tag, t0) == TagResult([tag EXCEPT !.state = "Invalid"], t0)
TagIncomplete(tag, t0, t, multi) ==
  IF multi THEN [tag |-> tag, t |-> t, open |-> TRUE] ELSE TagInvalid(tag, t0)

(* One round of close(): between attributes a tag may end.                 *)
TagEndsAt(tag, t) == tag.state \in {"Between", "BeforeClose"} /\ TagEndLength(t) > 0
TagBroken(tag, t) ==
  /\ tag.state \in {"Between", "BeforeClose"}
  /\ \/ tag.state = "BeforeClose" /\ ~Eol(t)
     \/ t.col # 0 /\ t.i # 1 /\ t.line[t.i - 1] \notin Spaces

RECURSIVE TagClose(_, _, _, _)
TagAttribute(tag, start, attr, multi) ==
  IF attr.state = "Invalid" THEN TagInvalid(tag, start)
                            ELSE TagClose([tag EXCEPT !.state = attr.state], start, attr.t, multi)
TagRound(tag, start, t, multi) ==
  CASE TagEndsAt(tag, t) -> TagValid(tag, Adv(t, TagEndLength(t)))
    [] ~TagEndsAt(tag, t) /\ TagBroken(tag, t) -> TagInvalid(tag, start)
    [] OTHER -> TagAttribute(tag, start, Attribute(t, tag.state), multi)
TagClose(tag, start, t, multi) ==
  IF Eol(t) THEN TagIncomplete(tag, start, t, multi)
  ELSE TagRound(tag, start, IF tag.state \in {"Between", "BeforeClose"} THEN EatSpace(t) ELSE t,
                multi)

TagName(from, t, closing) ==
  [name |-> FoldLeft(LAMBDA a, c : a \o Lower(c), "", SubSeq(t.line, from.i, t.i - 1)),
   closing |-> closing, state |-> "Between"]
TagNamed(tag, start, t, multi) ==
  CASE Eol(t) -> TagIncomplete(tag, start, t, multi)
    [] ~Eol(t) /\ TagEndLength(t) > 0 -> TagValid(tag, Adv(t, TagEndLength(t)))
    [] ~Eol(t) /\ Cur(t) \in Blanks -> TagClose(tag, start, t, multi)
    [] OTHER -> TagInvalid(tag, start)
TagAt(start, from, t, closing, multi) ==
  IF Cur(from) \in Letters THEN TagNamed(TagName(from, t, closing), start, t, multi)
                           ELSE TagInvalid([NoTag EXCEPT !.closing = closing], start)
TagFrom(start, from, closing, multi) ==
  TagAt(start, from, Skip(from, Alnum \cup {"-"}), closing, multi)
TagOpen(start, multi) ==
  CASE Cur(start) # "<" -> TagInvalid(NoTag, start)
    [] LooksAt(start, <<"<", "/">>) -> TagFrom(start, Inc(start, 2), TRUE, multi)
    [] OTHER -> TagFrom(start, Inc(start, 1), FALSE, multi)

(***************************************************************************)
(* Link: the part after "](", or after "[name]:" with closing character    *)
(* "".  A URL and a reference label are hidden, a title is not.  Of the    *)
(* states a line can end in, InParanQ has no case in the switch that       *)
(* resumes it: the title in parentheses is read as a URL again.            *)
(***************************************************************************)
LinkDone(t0, close) == IF close = "" THEN Eol(t0) ELSE UEq(t0, close)
LinkValid(t, from, to) ==
  [state |-> "Valid", t |-> Blanked(Adv(t, 1), from, to), open |-> FALSE]
LinkInvalid(start, t) == [state |-> "Invalid", t |-> BackTo(start, t), open |-> FALSE]
LinkOpenEnded(state, t, from, to) ==
  [state |-> state, t |-> Blanked(t, from, to), open |-> TRUE]

(* parse_url: the new state, the iterator and the part to hide.            *)
Url(state, t, from, to) == [state |-> state, t |-> t, from |-> from, to |-> to]
BracketUrl(t, gt) == IF Eol(gt) THEN Url("Invalid", gt, 1, 1)
                                ELSE Url("AfterUrl", Adv(gt, 1), t.i, Adv(gt, 1).i)
BareUrl(t, end) == Url("AfterUrl", EatSpace(end), t.i, end.i)
ParseUrl(t, close) ==
  LET stops(j) == t.line[j] \in Spaces \/ (t.line[j] = close /\ Unescaped(t, j))
  IN  CASE Eol(t) -> Url("BeforeUrl", t, 1, 1)
        [] ~Eol(t) /\ UEq(t, "<") -> BracketUrl(t, Find(Adv(t, 1), ">"))
        [] OTHER -> BareUrl(t, MoveTo(t, FirstFrom(t, stops)))

(* parse_label: the title in quotes or parentheses.                        *)
LabelEnds(state, end) ==
  IF Eol(end) THEN AttrAt(state, end) ELSE AttrAt("AfterQuote", Adv(end, 1))
ParseLabel(state, t) ==
  CASE state = "InSingleQ" -> LabelEnds(state, Find(t, "'"))
    [] state = "InDoubleQ" -> LabelEnds(state, Find(t, "\""))
    [] OTHER -> CASE UEq(t, "'")  -> LabelEnds("InSingleQ", Find(Inc(t, 1), "'"))
                  [] UEq(t, "\"") -> LabelEnds("InDoubleQ", Find(Inc(t, 1), "\""))
                  [] UEq(t, "(")  -> LabelEnds("InParanQ", Find(t, ")"))
                  [] OTHER -> AttrAt(state, t)

AfterLabel(start, url, label, close) ==
  CASE url.state # "AfterQuote" /\ Eol(label.t) ->
         LinkOpenEnded(label.state, label.t, url.from, url.to)
    [] (url.state = "AfterQuote" \/ ~Eol(label.t)) /\ LinkDone(label.t, close) ->
         LinkValid(label.t, url.from, url.to)
    [] OTHER -> LinkInvalid(start, label.t)
AfterUrl(start, resumed, url, close) ==
  CASE url.state = "Invalid" -> LinkInvalid(start, url.t)
    [] ~resumed /\ url.state # "Invalid" /\ Eol(url.t) ->
         LinkOpenEnded(url.state, url.t, url.from, url.to)
    [] url.state = "AfterUrl" /\ (resumed \/ ~Eol(url.t)) /\ LinkDone(url.t, close) ->
         LinkValid(url.t, url.from, url.to)
    [] OTHER -> AfterLabel(start, url, IF url.state = "AfterQuote" THEN url
                                       ELSE ParseLabel(url.state, url.t), close)
ResumedStates == {"AfterUrl", "InSingleQ", "InDoubleQ", "AfterQuote"}
ParseUrlLabel(state, start, close) ==
  IF state \in ResumedStates
  THEN AfterUrl(start, TRUE, Url(state, EatSpace(start), 1, 1), close)
  ELSE AfterUrl(start, FALSE, ParseUrl(EatSpace(start), close), close)

RefLabel(t, label, end) == IF Eol(end) THEN LinkInvalid(t, t) ELSE LinkValid(end, label.i, end.i)
LinkOpen(t) ==
  CASE UEq(t, "]") /\ CharAt(t, 1) = "(" -> ParseUrlLabel("Invalid", Adv(t, 2), ")")
    [] UEq(t, "]") /\ CharAt(t, 1) = "[" /\ SkipRefLabels ->
         RefLabel(t, Adv(t, 2), Find(Adv(t, 2), "]"))
    [] OTHER -> [state |-> "Invalid", t |-> t, open |-> FALSE]

(***************************************************************************)
(* MarkdownFilter::process: the rest of a line, and what an earlier line   *)
(* left open.                                                              *)
(***************************************************************************)
TagInline(r) == Result(IF r.open THEN [kind |-> "tag", tag |-> r.tag] ELSE NoInline, r.t)
LinkInline(r) == Result(IF r.open THEN [kind |-> "link", state |-> r.state] ELSE NoInline, r.t)

CloseInline(inline, t) ==
  CASE inline.kind = "code"    -> CodeClose(inline.len, t)
    [] inline.kind = "comment" -> CommentClose(t)
    [] inline.kind = "tag"     -> TagInline(TagClose(inline.tag, t, t, MultilineTags))
    [] inline.kind = "link"    -> LinkInline(ParseUrlLabel(inline.state, t, ")"))

(* The first of the four that opens or moves on is taken.                  *)
Taken(t, tries) == {k \in DOMAIN tries : tries[k].inline # NoInline \/ tries[k].t.i # t.i}
First(tries, taken) == tries[CHOOSE k \in taken : \A j \in taken : k <= j]
Plainly(t) == Result(NoInline, IF Cur(t) \in {"<", ">"} THEN BlankAdv(t, 1) ELSE Adv(t, 1))
FirstTaken(t, tries) == IF Taken(t, tries) = {} THEN Plainly(t) ELSE First(tries, Taken(t, tries))

RECURSIVE RestOfLine(_)
RestOfLine(from) ==        \* from: what is open, and the iterator
  IF from.inline # NoInline \/ Eol(from.t) THEN from
  ELSE RestOfLine(FirstTaken(from.t,
         <<CodeOpen(from.t), CommentOpen(from.t), TagInline(TagOpen(from.t, MultilineTags)),
           LinkInline(LinkOpen(from.t))>>))

-----------------------------------------------------------------------------
(* The blocks of a document.                                               *)

MarkdownInit  == [chain |-> <<>>, prev_blank |-> TRUE, inline |-> NoInline]
(* reset() does not forget the code, comment, tag or link left open.       *)
MarkdownReset(s) == [MarkdownInit EXCEPT !.inline = s.inline]

Leaf(block) == block.kind \notin {"root", "quote", "item"}
Back(chain) == IF chain = <<>> THEN [kind |-> "root"] ELSE Last(chain)
Keep(keep, block, t) == [keep |-> keep, block |-> block, t |-> t]
NoBlock == [kind |-> "none"]
Started(block, t) == [block |-> block, t |-> t]

(***************************************************************************)
(* proc_line() of every kind of block.                                     *)
(***************************************************************************)
FenceEnds(b, n, after) ==
  IF n >= b.len /\ Eol(after) THEN Keep("NEVER", b, after) ELSE Keep("YES", b, BlankRest(after))
FenceLine(b, t) ==
  IF Cur(t) \in {Tick, "~"} THEN FenceEnds(b, RunLength(t), BlankAdv(t, RunLength(t)))
                            ELSE Keep("YES", b, BlankRest(t))

RECURSIVE RawHtmlLine(_, _)
RawHtmlTag(b, r) ==
  IF r.tag.state = "Valid" /\ r.tag.closing /\ r.tag.name = b.tag
  THEN Keep("NEVER", [b EXCEPT !.done = TRUE], ToEnd(r.t))
  ELSE RawHtmlLine(b, Adv(r.t, 1))
RawHtmlLine(b, t) ==       \* also when the block starts
  CASE b.done -> Keep("NEVER", b, t)
    [] ~b.done /\ Eol(t) -> Keep("YES", b, t)
    [] OTHER -> RawHtmlTag(b, TagOpen(t, FALSE))

RefKeep(b, r) == Keep(IF r.open THEN "MAYBE" ELSE "NEVER",
                      [b EXCEPT !.open = r.open, !.state = r.state], r.t)
RefLine(b, t) ==
  IF b.open THEN RefKeep(b, ParseUrlLabel(b.state, t, "")) ELSE Keep("NEVER", b, t)

ProcLine(b, t) ==
  CASE b.kind = "quote" ->
         IF Cur(t) = ">" THEN Keep("YES", b, BlankAdv(t, 1))
                         ELSE Keep(IF Eol(t) THEN "NEVER" ELSE "MAYBE", b, t)
    [] b.kind = "item" ->
         IF ~Eol(t) /\ t.indent >= b.indent
         THEN Keep("YES", b, [t EXCEPT !.indent = @ - b.indent]) ELSE Keep("MAYBE", b, t)
    [] b.kind = "code" ->
         IF t.indent >= 4 THEN Keep("YES", b, BlankRest(t))
                          ELSE Keep(IF Eol(t) THEN "YES" ELSE "NEVER", b, t)
    [] b.kind = "fence"  -> FenceLine(b, t)
    [] b.kind = "single" -> Keep("NEVER", b, t)
    [] b.kind = "html"   -> IF Eol(t) THEN Keep("NEVER", b, t) ELSE Keep("YES", b, ToEnd(t))
    [] b.kind = "raw"    -> RawHtmlLine(b, t)
    [] b.kind = "ref"    -> RefLine(b, t)

(***************************************************************************)
(* start_block(): the kinds in the order they are tried.                   *)
(***************************************************************************)
ItemFrom(width, m) ==
  IF m.indent <= 4 THEN Started([kind |-> "item", indent |-> width + m.indent],
                                [m EXCEPT !.indent = 0])
                   ELSE Started([kind |-> "item", indent |-> 1 + m.indent],
                                [m EXCEPT !.indent = @ - 1])
NumberLength(t) == Skip(t, Digits).i - t.i
StartItem(t) ==
  CASE Cur(t) \in {"-", "+", "*"} -> ItemFrom(1, Adv(t, 1))
    [] Cur(t) \in Digits /\ CharAt(t, NumberLength(t)) \in {".", ")"} ->
         ItemFrom(NumberLength(t) + 1, Adv(t, NumberLength(t) + 1))
    [] OTHER -> Started(NoBlock, t)

StartFence(t) ==
  IF Cur(t) \in {Tick, "~"} /\ RunLength(t) >= 3
  THEN Started([kind |-> "fence", len |-> RunLength(t)], BlankRest(BlankAdv(t, RunLength(t))))
  ELSE Started(NoBlock, t)

RefFrom(t, name, end, r) ==
  IF r.state = "Invalid" THEN Started(NoBlock, t)
  ELSE Started([kind |-> "ref", open |-> r.open, state |-> r.state],
               IF SkipRefLabels THEN Blanked(r.t, name.i, end.i) ELSE r.t)
RefNamed(t, name, end) ==
  IF Cur(Inc(end, 1)) = ":"
  THEN RefFrom(t, name, end, ParseUrlLabel("Invalid", Adv(Inc(end, 1), 1), ""))
  ELSE Started(NoBlock, t)
StartRef(t) ==
  IF Cur(t) = "[" /\ Cur(Adv(t, 1)) # "]" THEN RefNamed(t, Adv(t, 1), Find(Adv(t, 1), "]"))
                                          ELSE Started(NoBlock, t)

(* A rule of -, _ or *, spaces allowed; a heading's underline; a heading.  *)
StartSingle(t) ==
  LET only(set) == \A j \in t.i .. LineEnd(t) - 1 : t.line[j] \in set
      tail(j) == \A k \in j .. LineEnd(t) - 1 : t.line[k] \in Blanks
      rule  == Cur(t) \in {"-", "_", "*"} /\ only({Cur(t)} \cup Blanks)
      under == Cur(t) \in {"-", "="} /\ tail(t.i + RunLength(t))
  IN  CASE rule \/ under -> Started([kind |-> "single"], EatSpace(ToEnd(t)))
        [] Cur(t) = "#"  -> Started([kind |-> "single"], t)
        [] OTHER -> Started(NoBlock, t)

RawFrom(raw) == Started(raw.block, raw.t)
HtmlFrom(t, r) ==
  LET raw == ~r.tag.closing /\ r.tag.name \in RawStartTags
  IN  CASE raw -> RawFrom(RawHtmlLine([kind |-> "raw", tag |-> r.tag.name, done |-> FALSE], r.t))
        [] ~raw /\ ((r.tag.state = "Valid" /\ Eol(r.t)) \/ r.tag.name \in BlockStartTags) ->
             Started([kind |-> "html"], ToEnd(r.t))
        [] OTHER -> Started(NoBlock, t)
StartHtml(t) == HtmlFrom(t, TagOpen(t, MultilineTags))

FirstStarted(t, tries) ==
  LET taken == {k \in DOMAIN tries : tries[k].block # NoBlock}
  IN  IF taken = {} THEN Started(NoBlock, t) ELSE First(tries, taken)
StartBlock(prev_blank, t) ==
  FirstStarted(t, <<IF prev_blank /\ ~Eol(t) /\ t.indent >= 4
                    THEN Started([kind |-> "code"], BlankRest(t)) ELSE Started(NoBlock, t),
                    StartFence(t),
                    IF Cur(t) = ">" THEN Started([kind |-> "quote"], BlankAdv(t, 1))
                                    ELSE Started(NoBlock, t),
                    StartItem(t), StartRef(t), StartSingle(t), StartHtml(t)>>)

(***************************************************************************)
(* MarkdownFilter::process for one line.                                   *)
(***************************************************************************)
(* The blocks up to the first that does not say YES, and where it is.      *)
RECURSIVE KeepOpen(_, _, _)
KeptOpen(chain, k, r) ==
  IF r.keep = "YES" THEN KeepOpen([chain EXCEPT ![k] = r.block], k + 1, r.t)
  ELSE [keep |-> r.keep, at |-> k, chain |-> [chain EXCEPT ![k] = r.block], t |-> r.t]
KeepOpen(chain, k, t) ==
  IF k > Len(chain) THEN [keep |-> "YES", at |-> k, chain |-> chain, t |-> t]
                    ELSE KeptOpen(chain, k, ProcLine(chain[k], t))

(* A lazy line: all blocks from the undecided one on see it (again) until  *)
(* one of them ends.                                                       *)
RECURSIVE LazyLine(_, _, _)
LazyBlock(chain, k, r) ==
  IF r.keep = "NEVER" THEN [chain |-> SubSeq(chain, 1, k - 1), t |-> r.t]
                      ELSE LazyLine([chain EXCEPT ![k] = r.block], k + 1, r.t)
LazyLine(chain, k, t) ==
  IF k > Len(chain) THEN [chain |-> chain, t |-> t]
                    ELSE LazyBlock(chain, k, ProcLine(chain[k], t))

(* The new block, and those that start inside of it.                       *)
RECURSIVE StartBlocks(_, _)
StartBlocks(chain, r) ==
  CASE r.block = NoBlock -> [chain |-> chain, t |-> r.t]
    [] r.block # NoBlock /\ Leaf(r.block) -> [chain |-> Append(chain, r.block), t |-> r.t]
    [] OTHER -> StartBlocks(Append(chain, r.block), StartBlock(TRUE, r.t))

Continued(new, rest) == StartBlocks(rest.chain, [new EXCEPT !.t = rest.t])
BlocksAfter(s, open, new) ==
  IF \/ new.block # NoBlock
     \/ open.keep = "NEVER"
     \/ s.prev_blank /\ ~Eol(open.t)
  THEN Continued(new, [chain |-> SubSeq(open.chain, 1, open.at - 1), t |-> new.t])
  ELSE Continued(new, LazyLine(open.chain, open.at, new.t))
BlocksFrom(s, open) ==
  BlocksAfter(s, open, IF Eol(open.t) \/ (open.keep = "YES" /\ Leaf(Back(open.chain)))
                       THEN Started(NoBlock, open.t) ELSE StartBlock(s.prev_blank, open.t))

LineDone(chain, prev_blank, rest) ==
  [st |-> [chain |-> chain, prev_blank |-> prev_blank, inline |-> rest.inline],
   text |-> rest.t.line]
BlockLine(open, blocks) ==
  LineDone(blocks.chain, Eol(open.t), RestOfLine(Result(NoInline, blocks.t)))
OutsideLine(s, open) == BlockLine(open, BlocksFrom(s, open))
InsideLine(s, t) ==
  LineDone(s.chain, FALSE, RestOfLine(IF Eol(t) THEN Result(NoInline, t)
                                      ELSE CloseInline(s.inline, t)))
MarkdownLineStep(s, t) ==
  IF s.inline # NoInline THEN InsideLine(s, t) ELSE OutsideLine(s, KeepOpen(s.chain, 1, t))

(* The lines of a text, each with its newline.                             *)
LinesOf(text) ==
  LET ends == {0, Len(text)} \cup {i \in DOMAIN text : text[i] = "\n"}
      end(i) == CHOOSE j \in ends : j > i /\ \A k \in ends : k > i => j <= k
      from[i \in 0 .. Len(text)] ==
        IF i = Len(text) THEN <<>> ELSE <<SubSeq(text, i + 1, end(i))>> \o from[end(i)]
  IN  from[0]

Joined(before, n) == [st |-> n.st, text |-> before \o n.text]
(* Mutant: every call begins outside of code, comments, tags and links.    *)
MarkdownProcessForgetful(st, text) ==
  FoldLeft(LAMBDA r, line : Joined(r.text, MarkdownLineStep(r.st, EatSpace(LineStart(line)))),
           [st |-> [st EXCEPT !.inline = NoInline], text |-> <<>>], LinesOf(text))
MarkdownProcess(st, text) ==
  FoldLeft(LAMBDA r, line : Joined(r.text, MarkdownLineStep(r.st, EatSpace(LineStart(line)))),
           [st |-> st, text |-> <<>>], LinesOf(text))
=============================================================================
