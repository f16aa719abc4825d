--------------------------- MODULE SharedWordList ---------------------------
(***************************************************************************)
(* What the personal dictionary promises to the processes that share it.   *)
(* Every process works on a private view of one shared list of words.  A   *)
(* view is refreshed from the list and published back to it; publishing    *)
(* may add words, it never drops one that another process put there.       *)
(*                                                                         *)
(* This is the manual's "multiprocess intelligent" personal dictionary     *)
(* (manual/aspell.texi:210).  WritableDict.tla shows which of the code's   *)
(* circumstances implement it.                                             *)
(***************************************************************************)
CONSTANTS Proc, Words

VARIABLES store,    \* the words any process may count on finding later
          view      \* view[p]: the words process p holds in memory

vars == <<store, view>>

TypeOK == /\ store \in SUBSET Words
          /\ view \in [Proc -> SUBSET Words]

Init == /\ store \in SUBSET Words
        /\ view = [p \in Proc |-> {}]

Learn(p, w) == /\ view' = [view EXCEPT ![p] = @ \cup {w}]
               /\ UNCHANGED store

Refresh(p) == /\ view' = [view EXCEPT ![p] = @ \cup store]
              /\ UNCHANGED store

\* A process publishes only a view that already includes the store.
Publish(p) == /\ store \subseteq view[p]
              /\ store' = view[p]
              /\ UNCHANGED view

\* The process ends, or an error made it give up its view.
Leave(p) == /\ view' = [view EXCEPT ![p] = {}]
            /\ UNCHANGED store

Next == \E p \in Proc : \/ \E w \in Words : Learn(p, w)
                        \/ Refresh(p)
                        \/ Publish(p)
                        \/ Leave(p)

Spec == Init /\ [][Next]_vars
=============================================================================
