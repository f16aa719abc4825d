----------------------------- MODULE SgmlFilter -----------------------------
(***************************************************************************)
(* modules/filter/sgml.cpp: the filter that hides markup and the decoder   *)
(* that replaces character references.  SgmlSkipTags (f-sgml-skip) are the *)
(* tags whose content is hidden, SgmlCheckAttribs (f-sgml-check) the       *)
(* attributes whose value is text.                                         *)
(***************************************************************************)
EXTENDS FilterText

CONSTANTS SgmlSkipTags, SgmlCheckAttribs

(* reset() as it leaves a filter that has never read anything.             *)
SgmlReset == [in |-> "text", quote |-> "", behind |-> "", tag |-> "", attr |-> "",
              include |-> FALSE, skip |-> 0, endskip |-> ""]

To(s, in) == [s EXCEPT !.in = in]
SgmlAttr(s, c) == [s EXCEPT !.in = "attr", !.attr = Lower(c)]

(* Mutant: every tag in skipped content is counted.                        *)
SgmlTagEndsAnySkip(s) ==
  LET tag == IF s.behind = "/" THEN "" ELSE s.tag
      starts == s.skip = 0 /\ tag \in SgmlSkipTags
  IN  [s EXCEPT !.in = "text", !.tag = tag,
         !.skip = IF starts \/ s.skip > 0 THEN @ + 1 ELSE @,
         !.endskip = IF starts THEN tag ELSE @]
(* all_end_tags: the ">" of an opening tag.  A tag closed by "/>" opens    *)
(* nothing; in skipped content only the tag that ends it is counted.       *)
SgmlTagEnds(s) ==
  LET tag == IF s.behind = "/" THEN "" ELSE s.tag
      starts == s.skip = 0 /\ tag \in SgmlSkipTags
  IN  [s EXCEPT !.in = "text", !.tag = tag,
         !.skip = IF starts \/ (s.skip > 0 /\ tag = s.endskip) THEN @ + 1 ELSE @,
         !.endskip = IF starts THEN tag ELSE @]

SgmlText(s, c) ==
  CASE c = "&" -> Hide(To(s, "ero"))
    [] c = "<" -> Hide([s EXCEPT !.in = "tag", !.tag = ""])
    [] OTHER   -> If(s, s.skip > 0)

SgmlGap(s, c) ==
  CASE c = ">" -> SgmlTagEnds(s)
    [] c = "=" -> To(s, "attr_gap")
    [] c \in Spaces -> s
    [] OTHER   -> SgmlAttr(s, c)

SgmlTag(s, c) ==
  CASE c = ">" -> SgmlTagEnds(s)
    [] c = "/" -> [s EXCEPT !.in = "end", !.tag = ""]
    [] c = "!" -> To(s, "md")
    [] c \in Alnum -> [s EXCEPT !.tag = @ \o Lower(c)]
    [] OTHER   -> SgmlGap(To(s, "tag_gap"), c)

(* The end of </tag>: it may leave one level of skipped content.           *)
SgmlEndTag(s, c) ==
  IF c \in Alnum THEN [s EXCEPT !.tag = @ \o Lower(c)]
  ELSE [s EXCEPT !.skip = IF @ > 0 /\ s.tag = s.endskip THEN @ - 1 ELSE @,
                 !.in = IF c = ">" THEN "text" ELSE "ignore_junk"]

SgmlAttrName(s, c) ==
  CASE c \in Spaces -> To(s, "attr_gap")
    [] c = "=" -> To(s, "equals")
    [] c = ">" -> SgmlTagEnds(s)
    [] OTHER   -> IF s.in = "attr" THEN [s EXCEPT !.attr = @ \o Lower(c)]
                                   ELSE [s EXCEPT !.attr = Lower(c)]

SgmlValue(s, c) ==
  CASE c = ">" -> Hide(SgmlTagEnds(s))
    [] c \in Spaces -> Hide(To(s, "tag_gap"))
    [] OTHER   -> If(s, ~s.include)

SgmlEquals(s, c) ==
  LET known == [s EXCEPT !.include = s.attr \in SgmlCheckAttribs]
  IN  CASE c \in Spaces -> Hide(s)
        [] c = ">" -> Hide(SgmlTagEnds(s))
        [] c \in {"'", "\""} -> Hide([known EXCEPT !.in = "quoted", !.quote = c])
        [] OTHER -> SgmlValue(To(known, "value"), c)

SgmlQuoted(s, c) ==
  IF c = s.quote /\ s.behind # "\\" THEN Hide(To(s, "tag_gap"))
                                    ELSE If(s, ~s.include)

SgmlEntity(s, c) ==
  CASE s.in = "ero" /\ c = "#" -> Hide(To(s, "cro"))
    [] c \in Alnum -> Hide(s)
    [] c = ";" -> Hide(To(s, "text"))
    [] OTHER -> SgmlText(To(s, "text"), c)

SgmlDeclaration(s, c) ==
  CASE s.in = "md" /\ c = "-" /\ s.behind = "!" -> To(s, "com_1")
    [] s.in = "md" /\ c \in {"'", "\""} -> [s EXCEPT !.in = "mdq", !.quote = c]
    [] s.in = "mdq" /\ c = s.quote -> To(s, "md")
    [] s.in = "com_1" /\ c = "-" -> To(s, "com")
    [] s.in \in {"md", "mdq", "com_1", "com_e"} /\ c = ">" -> To(s, "text")
    [] s.in = "com_1" /\ c \notin {"-", ">"} -> To(s, "md")
    [] s.in = "com" /\ c = "-" /\ s.behind = "-" -> To(s, "com_e")
    [] s.in = "com_e" /\ c \notin {"-", ">"} -> To(s, "com")
    [] OTHER -> s

(* process_char(); a backslash that is itself escaped escapes nothing.     *)
SgmlStep(s, c) ==
  LET r == CASE s.in = "text"   -> SgmlText(s, c)
             [] s.in = "tag"    -> Hide(SgmlTag(s, c))
             [] s.in = "tag_gap" -> Hide(SgmlGap(s, c))
             [] s.in = "end"    -> Hide(SgmlEndTag(s, c))
             [] s.in = "ignore_junk" -> Hide(IF c = ">" THEN To(s, "text") ELSE s)
             [] s.in = "attr" \/ (s.in = "attr_gap" /\ c \notin Spaces) ->
                  Hide(SgmlAttrName(s, c))
             [] s.in = "attr_gap" /\ c \in Spaces -> Hide(s)
             [] s.in = "equals" -> SgmlEquals(s, c)
             [] s.in = "value"  -> SgmlValue(s, c)
             [] s.in = "quoted" -> SgmlQuoted(s, c)
             [] s.in \in {"ero", "cro"} -> SgmlEntity(s, c)
             [] OTHER -> Hide(SgmlDeclaration(s, c))
      escaped == s.in = "quoted" /\ c = "\\" /\ s.behind = "\\"
  IN  [r EXCEPT !.st.behind = IF escaped THEN "" ELSE c]

SgmlProcess(st, text) == CharByChar(SgmlStep, st, text)

(***************************************************************************)
(* SgmlDecoder::process: a reference becomes one character as wide as what *)
(* it replaces.  Text is a sequence of [chr, width]; Chr(n) names the      *)
(* character with code n.                                                  *)
(***************************************************************************)
Chr(n) == "&#" \o ToString(n)

RunOf(text, i, set) ==        \* the first position at or after i not in the set
  CHOOSE j \in i .. Len(text) + 1 :
     /\ \A k \in i .. j - 1 : text[k].chr \in set
     /\ j > Len(text) \/ text[j].chr \notin set

DigitsValue(text, i, j) ==    \* chr *= 10, chr += digit; the texts read have few digits
  FoldLeft(LAMBDA n, w : n * 10 + DigitValue[w.chr], 0, SubSeq(text, i, j - 1))

(* Mutant: the character that replaces a reference is one wide.            *)
ReferenceOneWide(text, i) ==
  LET numeric == i < Len(text) /\ text[i + 1].chr = "#"
      first == IF numeric THEN i + 2 ELSE i + 1
      last  == RunOf(text, first, IF numeric THEN Digits ELSE Alnum)
      end   == IF last <= Len(text) /\ text[last].chr = ";" THEN last + 1 ELSE last
  IN  [char |-> [chr |-> "?", width |-> 1], end |-> end]
Reference(text, i) ==         \* what the "&" at i stands for, and where it ends
  LET numeric == i < Len(text) /\ text[i + 1].chr = "#"
      first == IF numeric THEN i + 2 ELSE i + 1
      last  == RunOf(text, first, IF numeric THEN Digits ELSE Alnum)
      end   == IF last <= Len(text) /\ text[last].chr = ";" THEN last + 1 ELSE last
      width == FoldLeft(LAMBDA n, w : n + w.width, 0, SubSeq(text, i, end - 1))
  IN  [char |-> [chr |-> IF numeric THEN Chr(DigitsValue(text, first, last)) ELSE "?",
                 width |-> width],
       end  |-> end]

SgmlDecode(text) ==
  LET from[i \in 1 .. Len(text) + 1] ==
        IF i > Len(text) THEN <<>>
        ELSE IF text[i].chr = "&"
             THEN <<Reference(text, i).char>> \o from[Reference(text, i).end]
             ELSE <<text[i]>> \o from[i + 1]
  IN  from[1]
=============================================================================
