------------------------------- MODULE MCPipe -------------------------------
(* The words of a small language with accents, the same word written in several *)
(* ways, marks of the filters, and characters of one to four bytes.              *)
EXTENDS Pipe

\* a, e, f, s with caron, e with acute; their codes in the language, in Unicode and
\* in UTF-8.
MCUpper == [c \in {97, 101, 102, 225, 233} |-> c - 32]
MCCharset ==
  [b \in {10, 32, 39, 45, 46, 63, 64, 92, 97, 101, 102, 65, 69, 70, 128, 193, 225, 201, 233} |->
     CASE b = 128 -> 8364 [] b = 225 -> 353 [] b = 193 -> 352 [] OTHER -> b]
Utf8(c) == CASE c = 233 -> <<195, 169>> [] c = 201 -> <<195, 137>>
             [] c = 225 -> <<197, 161>> [] c = 193 -> <<197, 160>> [] OTHER -> <<c>>

\* The accents may stand alone; a dot below is only known with another one above; a
\* ligature is two letters.
E(from, to) == [from |-> from, to |-> to, sub |-> <<>>]
AccentsOn(to) == <<E(769, <<to>>),
                   [from |-> 803, to |-> <<>>, sub |-> <<E(769, <<to, to>>)>>]>>
MCFromUni ==
  <<E(10, <<10>>), E(32, <<32>>), E(39, <<39>>), E(45, <<45>>), E(46, <<46>>), E(63, <<63>>),
    E(64, <<64>>), E(92, <<92>>), E(97, <<97>>), [E(101, <<101>>) EXCEPT !.sub = AccentsOn(233)],
    E(102, <<102>>), E(65, <<65>>), [E(69, <<69>>) EXCEPT !.sub = AccentsOn(201)],
    E(70, <<70>>), E(201, <<201>>), E(233, <<233>>), E(353, <<225>>), E(352, <<193>>),
    E(64256, <<102, 102>>)>>
MCToUni ==
  <<E(10, <<10>>), E(32, <<32>>), E(39, <<39>>), E(45, <<45>>), E(46, <<46>>), E(63, <<63>>),
    E(97, <<97>>), E(101, <<101>>), E(102, <<102>>), E(65, <<65>>), E(69, <<69>>), E(70, <<70>>),
    E(193, <<352>>), E(225, <<353>>), E(201, <<69, 769>>), E(233, <<101, 769>>)>>

-----------------------------------------------------------------------------

MCModeFilters == [url |-> <<"url">>, nroff |-> <<"url", "nroff">>, tex |-> <<"url", "tex">>,
                  none |-> <<>>, broken |-> <<"nroff">>]
MCMark == [url |-> 64, nroff |-> 46, tex |-> 92]

MCDictionary == {<<97, 102>>, <<70, 97>>, <<97, 102, 102>>, <<102, 225>>}
MCSuggested == {<<102, 97>>, <<102, 233>>, <<101>>}

O(together, limit, min, camel) ==
  [runTogether |-> together, limit |-> limit, min |-> min, camel |-> camel]
MCOptions == {O(TRUE, 3, 3, FALSE), O(TRUE, 3, 1, FALSE), O(TRUE, 3, 1, TRUE),
              O(TRUE, 2, 1, TRUE), O(FALSE, 3, 1, TRUE)}

Session(filter, mode, o, normalize, byteOffsets) ==
  [filter |-> filter, mode |-> mode, settings |-> o, normalize |-> normalize, byteOffsets |-> byteOffsets]
MCSessions == {Session("", "", O(TRUE, 3, 3, FALSE), TRUE, FALSE),
               Session("nroff", "none", O(TRUE, 3, 1, TRUE), TRUE, TRUE),
               Session("tex", "", O(TRUE, 2, 1, TRUE), FALSE, FALSE)}

-----------------------------------------------------------------------------

P(bytes, chars, word, hiddenBy) ==
  [bytes |-> bytes, chars |-> chars, word |-> word, hiddenBy |-> hiddenBy]
W(word) == P(FlattenSeq([i \in DOMAIN word |-> Utf8(word[i])]), Len(word), word, {})
Sep(bytes) == P(bytes, 1, <<>>, {})
Blank == Sep(<<32>>)
Euro == Sep(<<226, 130, 172>>)
Script == Sep(<<240, 157, 146, 156>>)
L(ignored, pieces) == [ignored |-> ignored, pieces |-> pieces]

\* Words made of pieces of others, alone on their lines.
Part == {<<97, 102>>, <<102, 97>>, <<65, 102>>, <<70, 97>>, <<102>>}
Alone == Part \cup {p \o q : p, q \in Part}
         \cup {<<65, 102>> \o p \o q : p, q \in {<<97, 102>>, <<70, 97>>, <<102>>}}
         \cup {<<102, 70, 97, 70, 97, 70, 97, 70, 97>>, <<102, 70, 102, 65, 102>>}

Hidden(word, filter) == [W(word) EXCEPT !.hiddenBy = {filter}]
Marked == <<Sep(<<92>>), Hidden(<<97, 102>>, "tex"), Blank,
            Sep(<<64>>), Hidden(<<102, 97>>, "url"), Blank,
            Sep(<<46>>), Hidden(<<102, 102>>, "nroff"), Blank, W(<<102, 97>>)>>
Special == <<P(<<39, 102, 97>>, 3, <<102, 97>>, {}), Script, P(<<97, 39, 102>>, 3, <<97, 39, 102>>, {}),
             Sep(<<39>>), Blank, P(<<97, 102, 45>>, 3, <<97, 102, 45>>, {}), Blank, W(<<102, 97>>)>>
Acute == <<204, 129>>
Dot == <<204, 163>>
Composed == <<W(<<102, 97, 225>>), Euro, W(<<102, 233>>), Blank, W(<<70, 201>>)>>

Common == {L(0, <<W(w)>>) : w \in Alone}
          \cup {L(1, Marked), L(0, <<Blank>> \o Marked), L(1, Special), L(1, Composed),
                L(0, <<Euro, W(<<102, 97>>), Blank, W(<<97, 102>>), Blank, W(<<102, 97>>)>>)}

\* The same bytes with and without normalization: "f", e, acute; e, dot, acute; e, dot,
\* "a"; the ligature twice.
MCLines ==
  [normalize \in BOOLEAN |-> Common \cup
     IF normalize
     THEN {L(1, <<P(<<102, 101>> \o Acute, 3, <<102, 233>>, {}), Blank,
                  P(<<101>> \o Dot \o Acute, 3, <<233, 233>>, {}), Blank, W(<<102, 97>>)>>),
           L(0, <<W(<<101>>), Sep(Dot), W(<<97>>), Blank,
                  P(<<97, 239, 172, 128>>, 2, <<97, 102, 102>>, {}), Blank,
                  P(<<239, 172, 128, 97>>, 2, <<102, 102, 97>>, {}), Blank, W(<<102, 97>>)>>)}
     ELSE {L(1, <<P(<<102, 101>>, 2, <<102, 101>>, {}), Sep(Acute), Blank,
                  W(<<101>>), Sep(Dot), Sep(Acute), Blank, W(<<102, 97>>)>>),
           L(0, <<W(<<101>>), Sep(Dot), W(<<97>>), Blank,
                  W(<<97>>), Sep(<<239, 172, 128>>), Blank,
                  Sep(<<239, 172, 128>>), W(<<97>>), Blank, W(<<102, 97>>)>>)}]

\* A word, its capitals, one with a decomposed accent, one that is refused, and one
\* whose first byte is also a capital of the language.
MCTyped == {<<102, 97>>, <<70, 65>>, <<102, 101>> \o Acute, <<97, 63>>, <<201, 144>>}
MCModes == {"tex", "none", "latin", "broken"}

\* A mode that is known, one that is not, and the filters themselves.
MCCsRequests == {Asking("", "mode", "tex"), Asking("", "mode", "latin"),
                 Asking("add", "filter", "nroff"), Asking("reset", "filter", "")}
=============================================================================
