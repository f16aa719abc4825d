--------------------------- MODULE MCSpellerDicts ---------------------------
(* A few dictionary files for SpellerDicts. *)
EXTENDS SpellerDicts, TLC

CONSTANTS en, fr, common, names, acro, pws, foreign, enMulti, outer, twice, mixed, hollow, o1, o2, o3, o4, o5, o6, o7, o8, o9, o10, o11, o12

Types == [f \in File |-> IF f \in {enMulti, outer, twice, mixed, hollow} THEN "multi"
                         ELSE IF f = pws THEN "writable" ELSE "readonly"]

Langs_ == [f \in File |-> IF f = foreign THEN fr ELSE en]

Lines == [f \in File |-> CASE f = enMulti -> <<common, names>>
                           [] f = outer -> <<enMulti, acro>>
                           [] f = twice -> <<common, names, common>>
                           [] f = mixed -> <<common, foreign>>
                           [] OTHER -> <<>>]

Option(m, e, u, w, r) == [master |-> m, extra |-> e, use_other_dicts |-> u,
                          wordlists |-> w, save_repl |-> r]

\* Nothing is named twice by files that are loaded together.
Tidy == {Option(m, e, u, w, r) :
           m \in {enMulti, outer}, e \in {<<>>, <<names, pws>>, <<acro, enMulti>>},
           u, w, r \in BOOLEAN}

\* Dictionaries named twice, and of a second language.
Untidy == {Option(m, e, u, TRUE, TRUE) :
             m \in {common, twice, mixed, outer}, e \in {<<>>, <<twice, hollow>>, <<pws, foreign>>},
             u \in BOOLEAN}

AllOptions == Tidy \cup Untidy
=============================================================================
