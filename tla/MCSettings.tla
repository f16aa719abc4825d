----------------------------- MODULE MCSettings -----------------------------
(* Requests of every kind: those that are refused and those that undo others. *)
EXTENDS Settings

R(prefix, key, value) == [prefix |-> prefix, key |-> key, value |-> value]

MCModeFilters == [url |-> <<"url">>, tex |-> <<"tex", "url">>, none |-> <<>>,
                  broken |-> <<"a">>]

L(magic, ext, remove) == [magic |-> magic, ext |-> ext, remove |-> remove]

\* The last line takes an extension back, from one of the keys that have it.
MCModeMagic ==
    <<[mode |-> "none", magic |-> <<L("", <<"txt">>, FALSE), L("perl", <<"tex">>, FALSE),
                                    L("perl", <<"tex">>, TRUE)>>],
      [mode |-> "tex", magic |-> <<L("class", <<"tex">>, FALSE), L("", <<"tar", "gz">>, FALSE),
                                   L("class", <<"gz">>, TRUE)>>]>>
MCNames == {<<"a">>, <<"a", "tex">>, <<"a", "tar", "gz">>}

MCUserRequests ==
    {R("", "mode", "tex"), R("", "mode", "none"), R("reset", "mode", ""),
     R("", "mode", "unknown"), R("", "mode", "broken"),
     R("add", "filter", "a"), R("rem", "filter", "url"), R("clear", "filter", ""),
     R("lset", "filter", <<"a", "b", "a">>), R("", "filter", "a"),
     R("", "run-together-limit", "9"), R("", "run-together-limit", "two"),
     R("enable", "ignore-case", ""), R("", "ignore-case", ""),
     R("", "ignore-case", "maybe"), R("reset", "ignore-case", "true"),
     R("add", "keyboard", "a"), R("lset", "keyboard", <<"a">>),
     R("", "no-such-option", "a"), R("add", "extra-dicts", "a")}

MCLaterRequests ==
    {R("", "mode", "tex"), R("", "mode", "unknown"), R("rem", "filter", "a"),
     R("", "run-together-limit", "9"), R("", "run-together-limit", "0x3"),
     R("reset", "run-together-limit", ""), R("disable", "ignore-case", ""),
     R("", "ignore-case", ""), R("", "ignore-case", "maybe")}

MainFile == <<R("", "mode", "tex"), R("", "run-together-limit", "9"),
              R("add", "filter", "b")>>
OwnFile == <<R("enable", "ignore-case", ""), R("rem", "filter", "url"),
             R("lset", "extra-dicts", <<"a", "b">>)>>
Environment == <<R("", "mode", "none"), R("", "run-together-limit", "2")>>
BadFile == <<R("reset", "mode", "tex"), R("add", "filter", "c")>>

MCFiles ==
    {<< <<>>, <<>>, <<>> >>, << <<>>, OwnFile, MainFile >>,
     <<Environment, <<>>, OwnFile>>, << <<>>, MainFile, Environment>>,
     << OwnFile, BadFile, <<>> >>}

=============================================================================
