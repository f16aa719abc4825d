----------------------------- MODULE FilterText -----------------------------
(***************************************************************************)
(* What the filters of modules/filter share: the characters they tell      *)
(* apart (common/asc_ctype.hpp) and the way a filter that decides one      *)
(* character after the other goes through a piece of text.  A character is *)
(* a string of length one, a text a sequence of them.                      *)
(*                                                                         *)
(* And the filters that hide whole stretches of a line: quoted mail        *)
(* (email.cpp), URLs (url.cpp) and everything outside of given delimiters  *)
(* (context.cpp).                                                          *)
(***************************************************************************)
EXTENDS Integers, Sequences, SequencesExt

CONSTANTS EmailQuotes, EmailMargin,   \* f-email-quote, f-email-margin
          ContextDelimiters,          \* f-context-delimiters: <<opening, closing>> pairs
          ContextVisibleFirst         \* f-context-visible-first

Lowers == <<"a","b","c","d","e","f","g","h","i","j","k","l","m",
            "n","o","p","q","r","s","t","u","v","w","x","y","z">>
Uppers == <<"A","B","C","D","E","F","G","H","I","J","K","L","M",
            "N","O","P","Q","R","S","T","U","V","W","X","Y","Z">>
Letters == ToSet(Lowers) \cup ToSet(Uppers)
DigitValue == [c \in {"0","1","2","3","4","5","6","7","8","9"} |->
                 CHOOSE n \in 0..9 : ToString(n) = c]
Digits == DOMAIN DigitValue
Tick   == "^"                   \* stands for the backtick, which no string can hold
Alnum  == Letters \cup Digits
Spaces == {" ", "\t", "\n", "\r"}
Blanks == {" ", "\t"}

LowerOf == [c \in ToSet(Uppers) |-> Lowers[CHOOSE i \in DOMAIN Uppers : Uppers[i] = c]]
Lower(c) == IF c \in DOMAIN LowerOf THEN LowerOf[c] ELSE c

(* What one step of a filter answers: its new state and whether the        *)
(* character is hidden from the checker.                                   *)
Hide(st) == [st |-> st, hide |-> TRUE]
Show(st) == [st |-> st, hide |-> FALSE]
If(st, hidden) == [st |-> st, hide |-> hidden]

(* The loop of process(): every hidden character becomes a space.          *)
Masked(before, r, c) ==
  [text |-> Append(before.text, IF r.hide THEN " " ELSE c), st |-> r.st]
CharByChar(Step(_, _), st, text) ==
  LET run[i \in 0 .. Len(text)] ==
        IF i = 0 THEN [text |-> <<>>, st |-> st]
        ELSE LET before == run[i - 1]
             IN  Masked(before, Step(before.st, text[i]), text[i])
  IN  run[Len(text)]

-----------------------------------------------------------------------------
Spaced(text, i, j) == [k \in DOMAIN text |-> IF k \in i .. j - 1 THEN " " ELSE text[k]]

EmailReset == [newline |-> TRUE, quote |-> FALSE, n |-> 0]

(* A line is hidden from where it, or the text passed in, begins; the      *)
(* newline before it counts as its beginning.                              *)
EmailProcess(st, text) ==
  LET EmailStep(s, i) ==
        LET c == text[i]
            quote == s.quote \/ (s.newline /\ c \in EmailQuotes)
        IN  CASE c = "\n" -> [newline |-> TRUE, quote |-> FALSE, n |-> 0, begin |-> i,
                              text |-> IF quote THEN Spaced(s.text, s.begin, i) ELSE s.text]
              [] c # "\n" /\ s.n < EmailMargin -> [s EXCEPT !.quote = quote, !.n = @ + 1]
              [] OTHER -> [s EXCEPT !.quote = quote, !.newline = FALSE]
      run[i \in 0 .. Len(text)] ==
        IF i = 0 THEN [newline |-> st.newline, quote |-> st.quote, n |-> st.n,
                       begin |-> 1, text |-> text]
                 ELSE EmailStep(run[i - 1], i)
      end == run[Len(text)]
  IN  [st |-> [newline |-> end.newline, quote |-> end.quote, n |-> end.n],
       text |-> IF end.quote THEN Spaced(end.text, end.begin, Len(text) + 1) ELSE end.text]

(***************************************************************************)
(* UrlFilter::process has no state.  Only the characters between the first *)
(* and the last one of a word are looked at, and the loop never looks at   *)
(* the character after a word's first one before it steps over it.         *)
(***************************************************************************)
UrlChar(c) == c \notin {"\"", " ", "\n", "\t"}

WordEnd(text, i) ==           \* the last position of the word that starts at i
  CHOOSE j \in i + 1 .. Len(text) + 1 :
     /\ \A k \in i + 2 .. j : k <= Len(text) => UrlChar(text[k])
     /\ j >= Len(text) \/ ~UrlChar(text[j + 1])

LooksLikeUrl(text, i, end) ==
  LET at(k, c) == text[k] = c
      point(k) == at(k, ".") /\ ~at(k + 1, ".")
  IN  \E k \in i + 1 .. end - 1 :
        \/ at(k, "@")
        \/ at(k, "/") /\ (at(k + 1, "/") \/ \E j \in i + 1 .. k - 1 : point(j))
        \/ point(k) /\ \E j \in i + 1 .. k - 1 : point(j)

UrlProcess(st, text) ==
  LET from[i \in 1 .. Len(text) + 2] ==
        IF i > Len(text) THEN {}
        ELSE IF ~UrlChar(text[i]) THEN from[i + 1]
        ELSE LET end == WordEnd(text, i)
             IN  (IF LooksLikeUrl(text, i, end) THEN i .. end ELSE {})
                   \cup (IF end >= Len(text) THEN {} ELSE from[end + 2])
      hidden == from[1]
  IN  [st |-> st, text |-> [k \in DOMAIN text |-> IF k \in hidden THEN " " ELSE text[k]]]

(***************************************************************************)
(* ContextFilter.  setup() swaps the delimiters when the text is visible   *)
(* first.  reset() forgets the delimiters and the setting, so that nothing *)
(* is visible any more.                                                    *)
(***************************************************************************)
Swapped(pairs) == [k \in DOMAIN pairs |-> <<pairs[k][2], pairs[k][1]>>]
ContextSetup ==
  [visible |-> ContextVisibleFirst, correspond |-> 0,
   pairs |-> IF ContextVisibleFirst THEN Swapped(ContextDelimiters) ELSE ContextDelimiters]
ContextReset(s) == [s EXCEPT !.visible = FALSE, !.pairs = <<>>]

(* A delimiter is only seen when a character follows it.                   *)
DelimiterAt(text, i, delimiter) ==
  /\ delimiter # <<>>
  /\ i + Len(delimiter) <= Len(text)
  /\ SubSeq(text, i, i + Len(delimiter) - 1) = delimiter

FirstDelimiter(text, i, delimiters) ==
  LET found == {k \in DOMAIN delimiters : DelimiterAt(text, i, delimiters[k])}
  IN  IF found = {} THEN 0 ELSE CHOOSE k \in found : \A j \in found : k <= j

ContextHide(text, i, j) ==
  [k \in DOMAIN text |-> IF k \in i .. j - 1 /\ text[k] \notin {"\t", "\n", "\r"}
                         THEN " " ELSE text[k]]

(* odd says whether an odd number of backslashes came before position i;   *)
(* begin is where the hidden part began, and end where it will end.        *)
ContextProcess(st, text) ==
  LET stop == Len(text) + 1
      opening == [k \in DOMAIN st.pairs |-> st.pairs[k][1]]
      closing == [k \in DOMAIN st.pairs |-> st.pairs[k][2]]
      ContextStep(w, i) ==
        LET hits == FirstDelimiter(text, i, closing)
            due  == IF w.correspond > 0 THEN w.correspond ELSE hits
            opens == FirstDelimiter(text, i, opening)
            after == i + Len(opening[opens])
        IN  CASE i < w.next -> w
              [] i >= w.next /\ text[i] = "\\" -> [w EXCEPT !.odd = ~@]
              [] i >= w.next /\ text[i] # "\\" /\ w.odd -> [w EXCEPT !.odd = FALSE]
              [] i >= w.next /\ text[i] # "\\" /\ ~w.odd /\ w.visible ->
                   IF due > 0 /\ DelimiterAt(text, i, closing[due])
                   THEN [w EXCEPT !.visible = FALSE, !.correspond = 0,
                                  !.begin = i, !.end = stop]
                   ELSE [w EXCEPT !.correspond = due]
              [] OTHER ->
                   IF opens = 0 THEN w
                   ELSE [w EXCEPT !.visible = TRUE, !.correspond = opens,
                                  !.text = ContextHide(@, w.begin, after),
                                  !.begin = stop, !.end = stop, !.next = after]
      run[i \in 0 .. Len(text)] ==
        IF i = 0 THEN [visible |-> st.visible, correspond |-> st.correspond, odd |-> FALSE,
                       begin |-> IF st.visible THEN stop ELSE 1, end |-> stop,
                       next |-> 1, text |-> text]
                 ELSE ContextStep(run[i - 1], i)
      w == run[Len(text)]
      lineEnds == w.visible /\ w.correspond > 0 /\ closing[w.correspond] = <<>> /\ ~w.odd
  IN  [st |-> IF lineEnds THEN [st EXCEPT !.visible = FALSE, !.correspond = 0]
              ELSE [st EXCEPT !.visible = w.visible, !.correspond = w.correspond],
       text |-> ContextHide(w.text, w.begin, w.end)]
=============================================================================
