--------------------------- MODULE MCSuggestWords ---------------------------
(***************************************************************************)
(* SuggestWords for TLC: spellers without soundslikes and with affixes,    *)
(* with simple and with phonet soundslikes, with words of the user.        *)
(***************************************************************************)
EXTENDS SuggestWords

Line(w, f) == [word |-> w, aff |-> f]
Plain(ws) == [i \in DOMAIN ws |-> Line(ws[i], <<>>)]
MCSpecial == [c \in ToSet(Chars) |-> [begin |-> FALSE, middle |-> c = "'", end |-> c = "-"]]
Pair(a, b) == [kind |-> "pair", chars |-> <<a, b>>]
Keyboard == <<Pair("a", "b"), Pair("b", "c"), [kind |-> "key", chars |-> <<"e", "e'">>]>>

Sfx(flag, strip, add, conds) ==
    [err |-> "none", kind |-> "S", flag |-> flag, strip |-> strip, add |-> add, conds |-> conds,
     cross |-> TRUE, key |-> Reverse(add)]
Pfx(flag, strip, add, conds) ==
    [err |-> "none", kind |-> "P", flag |-> flag, strip |-> strip, add |-> add, conds |-> conds,
     cross |-> TRUE, key |-> add]
Affixes == <<Sfx("A", <<>>, <<"c">>, <<ToSet(Chars) \ {"b"}>>), Sfx("A", <<"b">>, <<"a", "c">>, <<{"b"}>>),
             Pfx("B", <<>>, <<"c">>, <<>>)>>

NoSl == [name |-> "none"]
Options(sl, aff, compress, partly) ==
    [sl |-> sl, storeAs |-> "stripped", aff |-> aff, compress |-> compress, partly |-> partly,
     invisible |-> "unset"]
Base == [lines |-> <<>>, options |-> Options(NoSl, <<>>, FALSE, FALSE), personal |-> <<>>,
         repls |-> <<>>, table |-> <<>>, special |-> MCSpecial, keyboard |-> Keyboard, ignore |-> 1,
         sug |-> [typo |-> "unset", repl |-> "unset"]]

RECURSIVE InOrder(_)
InOrder(words) ==
    IF words = {} THEN <<>>
    ELSE LET least == CHOOSE w \in words : \A v \in words : v = w \/ WordLess(w, v)
         IN  <<least>> \o InOrder(words \ {least})
Long == {<<"a", "b", "c">> \o w : w \in UNION {[1..n -> {"a", "b"}] : n \in 0..3}}
        \cup {<<"a", "c", "b">> \o w : w \in [1..2 -> {"b", "c"}]}
        \cup {<<"b", "b", "c">> \o w : w \in [1..2 -> {"a", "c"}]}
        \cup {<<"a", "b", "a">>, <<"a", "b", "a", "c">>, <<"a", "c", "b">>, <<"b", "a", "c">>, <<"b">>,
              <<"b", "a">>}
PlainSpeller == [Base EXCEPT !.lines = Plain(InOrder(Long)), !.personal = <<<<"A", "c">>>>,
                             !.table = <<[sub |-> <<"e">>, repl |-> <<"a", "b">>]>>]
AffixSpeller(partly, sl) ==
    [Base EXCEPT !.lines = <<Line(<<"a", "b", "c", "a">>, <<"A">>), Line(<<"a", "b", "c", "b">>, <<"A", "B">>),
                             Line(<<"a", "b">>, <<"A">>), Line(<<"b", "c">>, <<"B">>),
                             Line(<<"b", "a", "c", "c", "a">>, <<"A", "B">>)>>,
                 !.options = Options(sl, Affixes, TRUE, partly)]
Mode0 == [first |-> [c \in ToSet(Chars) |-> IF IsAlpha(c) THEN ToPlain(ToLower(c)) ELSE ""],
          rest |-> [c \in ToSet(Chars) |-> IF ToPlain(ToLower(c)) \in {"b", "c"} THEN ToPlain(ToLower(c)) ELSE ""]]
Simple == [name |-> "simple"] @@ Mode0
Rule(letters, text) == [letters |-> letters, group |-> {}, minus |-> 0, less |-> FALSE, prio |-> 5,
                        begin |-> "", end |-> FALSE, text |-> text]
PhonetRules == [err |-> FALSE, version |-> TRUE, followup |-> TRUE, collapse |-> FALSE, accents |-> TRUE,
                rules |-> <<Rule(<<"A">>, <<>>), Rule(<<"B", "B">>, <<"B">>), Rule(<<"B">>, <<"B">>),
                          Rule(<<"C", "E">>, <<"B">>), Rule(<<"C">>, <<"C">>), Rule(<<"E">>, <<>>)>>]
Phon == [name |-> "phonet", rules |-> PhonetRules]
PhonetSpeller == [Base EXCEPT !.lines = Plain(InOrder(Long)), !.options = Options(Phon, <<>>, FALSE, FALSE),
                              !.personal = <<<<"c", "e", "a">>>>,
                              !.repls = <<[word |-> <<"e", "b">>, repls |-> <<<<"a", "b", "c">>, <<"e", "e">>>>],
                                           [word |-> <<"E", "b">>, repls |-> <<<<"b", " ", "a", "b", "a">>>>]>>]
OtherSpeller(sl, invisible) ==
    [Base EXCEPT !.lines = Plain(InOrder(Long)),
                 !.table = <<[sub |-> <<"c">>, repl |-> <<"b">>]>>, !.sug = [typo |-> "false", repl |-> "false"],
                 !.options = [Options(sl, <<>>, FALSE, FALSE) EXCEPT !.invisible = invisible]]
MCSpellers == {OtherSpeller(Simple, "false"), OtherSpeller([name |-> "stripped"], "unset"), PlainSpeller,
               PhonetSpeller, AffixSpeller(TRUE, NoSl), AffixSpeller(FALSE, Phon)}
MCAsked == [1..3 -> {"a", "b", "c"}]
           \cup {<<"b", "b", "c", "a", "b">>, <<"A", "c", "b", "a">>, <<"e", "b">>, <<"a", "b", "c", "a", "b", "c">>,
                 <<"C", "A", "B">>, <<"a", "b", "c", "e", "a", "b">>, <<"b", "c", "c", "a", "c", "b">>}
=============================================================================
