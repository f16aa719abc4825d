--------------------------- MODULE MCReplacements ---------------------------
(* Two misspellings, one word and one that the user may add. *)
EXTENDS Replacements

CONSTANTS sico, psyco, word, other

MCCorrections ==
    {<<>>, <<sico>>, <<psyco>>, <<word>>, <<other>>, <<word, other>>}
=============================================================================
