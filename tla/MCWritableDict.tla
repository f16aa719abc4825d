--------------------------- MODULE MCWritableDict ---------------------------
(* Small instances of WritableDict for TLC. *)
EXTENDS WritableDict

CONSTANTS p1, p2, p3, w1, w2, w3

\* Every process accepts every word.
AcceptAll == [p \in Proc |-> Words]

\* One process validates words, the others do not.
AcceptSome == [p \in Proc |-> IF p = p1 THEN Words \ {w2} ELSE Words]
=============================================================================
