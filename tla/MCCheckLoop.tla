---------------------------- MODULE MCCheckLoop -----------------------------
(* Small documents for CheckLoop.                                            *)
EXTENDS CheckLoop

\* Words with an apostrophe, a leading dash and a final stop; lines without words.
MCDocuments ==
  {<< <<"a", "'", "a", ".", " ", "b", "/">>, <<"-", "b", "/">>, <<"/">>, <<"c", "/">> >>,
   << <<"a", " ", "c", " ", "b">> >>,
   <<>> }
MCDictionary == {<<"c">>}
MCCorrections == {<<"b">>, <<"a">>, <<"c", " ", "c">>}
=============================================================================
