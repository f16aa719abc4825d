---------------------------- MODULE Replacements ----------------------------
(***************************************************************************)
(* The memory of replacement pairs (SpellerImpl::store_replacement and     *)
(* WritableReplDict::add_repl).  A user who corrects a misspelling with    *)
(* another misspelling, and that one with a word, has told the speller how *)
(* to spell the first one as well; store_replacement keeps the pending     *)
(* half of such a chain in prev_mis_repl_ and prev_cor_repl_.              *)
(*                                                                         *)
(* A misspelling is a text of one token, a replacement a text of up to two *)
(* tokens (the code checks each part of a replacement that has a blank).   *)
(* Letter case is left out: to_lower of the misspelling is not modelled.   *)
(* Whether suggest() already puts the replacement first is not modelled    *)
(* either, it may.                                                         *)
(***************************************************************************)
EXTENDS Naturals, Sequences

CONSTANTS Tokens,        \* what the user may type
          Corrections,   \* the texts the user may replace a token with
          Dictionary,    \* the tokens the installed dictionaries accept
          Personal,      \* the tokens the user may add to the session
          MaxCalls       \* bound on calls of store_replacement

Blank == <<>>
Misspellings == {<<t>> : t \in Tokens}
Texts == {Blank} \cup Misspellings \cup {<<t, u>> : t, u \in Tokens}
Pairs == [mis : Misspellings, cor : Texts]

ASSUME InputAssumption == /\ Corrections \subseteq Texts
                          /\ Dictionary \subseteq Tokens
                          /\ Personal \subseteq Tokens
                          /\ MaxCalls \in Nat

VARIABLES session,       \* words add_to_session accepted
          ignoreRepl,    \* the option ignore-repl
          repls,         \* the pairs of the replacement dictionary, in order
          prevMis,       \* prev_mis_repl_
          prevCor,       \* prev_cor_repl_
          calls,         \* history: the calls that were not ignored, and
                         \* whether the replacement was correct
          offered        \* history: pairs suggest() made superfluous

vars == <<session, ignoreRepl, repls, prevMis, prevCor, calls, offered>>

\* check_affix of every part.
Correct(text) == \A i \in DOMAIN text : text[i] \in Dictionary \cup session

Elements(list) == {list[i] : i \in DOMAIN list}
Pair(mis, cor) == [mis |-> mis, cor |-> cor]

-----------------------------------------------------------------------------

Init == /\ session = {}
        /\ ignoreRepl \in BOOLEAN
        /\ repls = <<>>
        /\ prevMis = Blank
        /\ prevCor = Blank
        /\ calls = <<>>
        /\ offered = {}

\* WritableReplDict::add_repl: each correction of a misspelling once.
AddRepl(list, pair) ==
    IF pair \in Elements(list) THEN list ELSE Append(list, pair)

\* The pairs a correct replacement yields: the user's, and that of the start of
\* the pending chain (the recursive call, which has no memory of its own).
ToLearnForgetful(mis, cor) == <<Pair(mis, cor)>>
ToLearnAnyChain(mis, cor) ==
    IF prevCor # Blank THEN <<Pair(mis, cor), Pair(prevMis, cor)>>
    ELSE <<Pair(mis, cor)>>
ToLearn(mis, cor) ==
    IF prevCor = mis THEN <<Pair(mis, cor), Pair(prevMis, cor)>>
    ELSE <<Pair(mis, cor)>>

AddUnlessOffered(list, pair, known) ==
    IF pair \in known THEN list ELSE AddRepl(list, pair)

\* known: those of the pairs whose correction suggest() already puts first.
StoreCorrect(mis, cor) ==
    /\ Correct(cor)
    /\ cor # Blank
    /\ LET pairs == ToLearn(mis, cor)
           first(known) == AddUnlessOffered(repls, pairs[1], known)
       IN  \E known \in SUBSET Elements(pairs) :
              /\ repls' = IF Len(pairs) = 1 THEN first(known)
                          ELSE AddUnlessOffered(first(known), pairs[2], known)
              /\ offered' = offered \cup known
    /\ UNCHANGED <<prevMis, prevCor>>

StoreBlank(mis, cor) == /\ cor = Blank
                        /\ UNCHANGED <<repls, prevMis, prevCor, offered>>

\* The replacement is itself misspelt: it continues the pending chain or begins
\* another one.
ChainStart(mis) == IF prevCor # mis THEN mis ELSE prevMis

StoreMisspelt(mis, cor) == /\ ~Correct(cor)
                           /\ prevMis' = ChainStart(mis)
                           /\ prevCor' = cor
                           /\ UNCHANGED <<repls, offered>>

StoreReplacement(mis, cor) ==
    /\ ~ignoreRepl
    /\ Len(calls) < MaxCalls
    /\ calls' = Append(calls, [pair |-> Pair(mis, cor), correct |-> Correct(cor)])
    /\ StoreCorrect(mis, cor) \/ StoreBlank(mis, cor) \/ StoreMisspelt(mis, cor)
    /\ UNCHANGED <<session, ignoreRepl>>

\* The option ignore-repl: nothing is stored and nothing remembered.
StoreIgnored == ignoreRepl /\ UNCHANGED vars

AddToSession(t) ==
    /\ session' = session \cup {t}
    /\ UNCHANGED <<ignoreRepl, repls, prevMis, prevCor, calls, offered>>

ClearSession ==
    /\ session' = {}
    /\ UNCHANGED <<ignoreRepl, repls, prevMis, prevCor, calls, offered>>

SetIgnoreRepl(value) ==
    /\ ignoreRepl' = value
    /\ UNCHANGED <<session, repls, prevMis, prevCor, calls, offered>>

Next == \/ \E mis \in Misspellings, cor \in Corrections : StoreReplacement(mis, cor)
        \/ StoreIgnored
        \/ \E t \in Personal : AddToSession(t)
        \/ ClearSession
        \/ \E value \in BOOLEAN : SetIgnoreRepl(value)

Spec == Init /\ [][Next]_vars

-----------------------------------------------------------------------------

\* Types: the list of add_repl holds each pair once, and the two halves of the
\* memory are set together.
TypeOK == /\ session \subseteq Personal
          /\ ignoreRepl \in BOOLEAN
          /\ repls \in Seq(Pairs)
          /\ \A i, j \in DOMAIN repls : repls[i] = repls[j] => i = j
          /\ prevMis \in Misspellings \cup {Blank}
          /\ prevCor \in Texts
          /\ prevMis = Blank <=> prevCor = Blank
          /\ calls \in Seq([pair : Pairs, correct : BOOLEAN])
          /\ offered \subseteq Pairs

\* The pairs <<mis, cor>> such that the user went from mis to cor in calls 1..n,
\* each step correcting what an earlier one typed.
Led[n \in Nat] ==
    IF n = 0 THEN {}
    ELSE LET last == calls[n].pair
         IN  Led[n - 1] \cup {last}
             \cup {Pair(p.mis, last.cor) : p \in {q \in Led[n - 1] : q.cor = last.mis}}

\* Every stored pair is the two ends of a chain of the user's replacements in the
\* order they were made, and so is what is pending: store_replacement never joins
\* one misspelling to the correction of another, whatever was stored, ignored or
\* added to the session in between.
PairsComeFromTheUser ==
    LET led == Led[Len(calls)]
    IN  /\ Elements(repls) \subseteq led
        /\ prevCor # Blank => Pair(prevMis, prevCor) \in led

\* Call i typed a misspelling and call i + 1 corrected it.
CorrectsTheLast(i) ==
    /\ ~calls[i].correct
    /\ calls[i].pair.cor = calls[i + 1].pair.mis
    /\ calls[i + 1].correct
    /\ calls[i + 1].pair.cor # Blank

Learnt(i) ==
    Pair(calls[i].pair.mis, calls[i + 1].pair.cor) \in Elements(repls) \cup offered

\* The memory works: a misspelling that was replaced by another one, which the
\* next call corrected, is stored with the correction (or suggest() puts it first
\* anyway), when it had not itself been typed as a replacement before.
FirstMisspellingIsLearnt ==
    \A i \in 1..(Len(calls) - 1) :
        (/\ CorrectsTheLast(i)
         /\ \A j \in 1..(i - 1) : calls[j].pair.cor # calls[i].pair.mis)
        => Learnt(i)

=============================================================================
