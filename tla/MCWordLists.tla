---------------------------- MODULE MCWordLists ----------------------------
(***************************************************************************)
(* WordLists for TLC: affix files with a suffix that replaces a letter,    *)
(* suffixes that end in each other, and prefixes that are crossed; three   *)
(* files the reader refuses; lists made of the forms of two bases.         *)
(***************************************************************************)
EXTENDS WordLists

Pfx == <<"P", "F", "X">>
Sfx == <<"S", "F", "X">>
Yes == <<"Y">>
No  == <<"N">>
Zero == <<"0">>
AnyCond == <<".">>
One == <<"1">>
Two == <<"2">>
NotB == <<"[", "^", "b", "]">>

Plural == << <<Sfx, <<"A">>, Yes, Two>>,
             <<Sfx, <<"A">>, Zero, <<"c">>, NotB>>,
             <<Sfx, <<"A">>, <<"b">>, <<"a", "c">>, <<"[", "b", "]">>>>,
             <<Pfx, <<"B">>, Yes, One>>,
             <<Pfx, <<"B">>, Zero, <<"c">>, AnyCond>> >>
Nested == << <<Sfx, <<"A">>, Yes, One>>, <<Sfx, <<"A">>, Zero, <<"a">>, AnyCond>>,
             <<Sfx, <<"B">>, Yes, One>>, <<Sfx, <<"B">>, Zero, <<"c", "a">>, AnyCond>>,
             <<Sfx, <<"C">>, No, One>>, <<Sfx, <<"C">>, Zero, <<"b", "a">>, NotB>>,
             <<Pfx, <<"E">>, Yes, One>>, <<Pfx, <<"E">>, <<"a">>, <<"c", "b">>, <<"a">>>> >>
BadCount == << <<Sfx, <<"A">>, Yes, Two>>, <<Sfx, <<"A">>, Zero, <<"a">>, AnyCond>>,
               <<Sfx, <<"B">>, Yes, One>>, <<Sfx, <<"B">>, Zero, <<"c">>, AnyCond>> >>
BadStrip == << <<Sfx, <<"A">>, Yes, One>>, <<Sfx, <<"A">>, <<"b">>, <<"a">>, <<"a", "c">>>> >>
BadCond  == << <<Sfx, <<"A">>, Yes, One>>, <<Sfx, <<"A">>, Zero, <<"a">>, <<"[", "[", "b", "]">>>> >>
Mixed == Plural \o << <<Sfx, <<"C">>, Yes, One>>, <<Sfx, <<"C">>, Zero, <<"e">>, AnyCond>> >>
MCAffixFiles == {Plural, Nested, BadCount, BadStrip, BadCond}

Entry(w, f) == [word |-> w, aff |-> f]
MCLists ==
    {<<Entry(b1, f1), Entry(b2, f2)>> :
        b1 \in {<<"a", "b">>, <<"c", "a">>}, f1 \in {<<>>, <<"A">>, <<"A", "B">>},
        b2 \in {<<"a">>, <<"b", "a", "c">>, <<"1", "a", "b", "b">>},
        f2 \in {<<>>, <<"B", "A">>, <<"A", "C", "E">>}}
MCMixedFiles == {Mixed}
MCMixedLists == MCLists \cup {<<Entry(<<"a", "b">>, <<"A", "C">>)>>}
MCSpecial == [c \in ToSet(Chars) |->
                [begin |-> FALSE, middle |-> c = "'", end |-> c = "-"]]
\* Bytes that are escaped or look like the end, empty lines and blanks; words that share
\* as much as one, two and three bytes can say, and one too long for word-list-compress.
Run(n) == [i \in 1..n |-> 97]
MCTexts ==
    {<<10>>, <<1, 31, 10, 1, 30, 0, 10, 31, 255, 10, 10, 97, 32, 98, 10>>,
     FlattenSeq([k \in 1..6 |-> Run(<<29, 30, 31, 32, 254, 255>>[k]) \o <<Newline>>]),
     FlattenSeq([k \in 1..3 |-> Run(<<284, 285, 285>>[k]) \o <<Newline>>])}
MCNoTexts == {}
MCMissing == {1, 2, 9, 60}
MCCheckedWords == UNION {[1..n -> {"a", "b", "c"}] : n \in 1..5}
=============================================================================
