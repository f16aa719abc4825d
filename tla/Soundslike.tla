----------------------------- MODULE Soundslike -----------------------------
(***************************************************************************)
(* How a word sounds (modules/speller/default/phonetic.cpp, phonet.cpp):   *)
(* the simple, stripped and empty forms, and the rules of a phonet file    *)
(* with their follow-up rules, priorities and rewriting of the word.       *)
(*                                                                         *)
(* A rule is taken apart into the letters it begins with, the group of     *)
(* letters in brackets, the number of "-", whether it has "<", the digit   *)
(* of its priority or 5, "^" or "^^" and "$", and the text that replaces   *)
(* what it matches.                                                        *)
(***************************************************************************)
EXTENDS EditDistance

-----------------------------------------------------------------------------
\* new_phonet: lines [key, value], a rule's key being the record that stands for its text.

Settings0 == [version |-> FALSE, followup |-> TRUE, collapse |-> FALSE, accents |-> TRUE,
              rules |-> <<>>]
ReadLine(p, line) ==
    CASE line.key = "version" -> [p EXCEPT !.version = TRUE]
      [] line.key = "followup" -> [p EXCEPT !.followup = line.value]
      [] line.key = "collapse_result" -> [p EXCEPT !.collapse = line.value]
      [] line.key = "remove_accents" -> [p EXCEPT !.accents = line.value]
      [] OTHER -> [p EXCEPT !.rules = Append(@, line.value)]
NewPhonet(lines) ==
    LET p == FoldLeft(ReadLine, Settings0, lines)
    IN  IF p.version THEN [err |-> FALSE] @@ p ELSE [err |-> TRUE]

\* to_clean of the rules, "" for what is no letter.
PhonetLetter(p, c) ==
    IF ~IsAlpha(c) THEN "" ELSE IF p.accents THEN ToUpper(ToPlain(c)) ELSE ToUpper(c)
\* The rules for a letter stand together, from the first one that begins with it.
RECURSIVE RulesFrom(_, _, _)
RulesFrom(rules, n, c) ==
    IF n \in DOMAIN rules /\ rules[n].letters[1] = c
    THEN <<rules[n]>> \o RulesFrom(rules, n + 1, c) ELSE <<>>
RulesOf(p, c) ==
    LET firsts == {n \in DOMAIN p.rules : p.rules[n].letters[1] = c}
    IN  IF firsts = {} THEN <<>> ELSE RulesFrom(p.rules, Least(firsts), c)

-----------------------------------------------------------------------------
\* A rule at place i of the word.  found is the number of characters of its letters and
\* group; text says that it has matched them.

Matching(r, w, i) ==
    Least({k \in 1..Len(r.letters) : k = Len(r.letters) \/ At(w, i + k) # r.letters[k + 1]})
Match(r, w, i) ==
    LET k == Matching(r, w, i)
        whole == k = Len(r.letters)
        grouped == whole /\ r.group # {} /\ At(w, i + k) \in r.group
    IN  [found |-> IF grouped THEN k + 1 ELSE k,
         text |-> whole /\ (r.group # {} => grouped)]
\* What "-" leaves of it; never less than one letter, the "-" that is left making the rule
\* fail.
Kept(r, found) == IF r.minus < found THEN found - r.minus ELSE 1
Letter(w, i) == At(w, i) # "" /\ IsAlpha(At(w, i))
AtEnds(r, w, i, found) ==
    \/ r.begin = "" /\ ~r.end
    \/ /\ r.begin # "" /\ ~Letter(w, i - 1)
       /\ r.end => ~Letter(w, i + found)
    \/ /\ r.begin = "" /\ r.end /\ i > 1 /\ Letter(w, i - 1)
       /\ ~Letter(w, i + found)
Fits(r, w, i, m) == m.text /\ r.minus < m.found /\ AtEnds(r, w, i, m.found)

\* A follow-up rule begins with the last letter kept and takes more of the word, with a
\* priority that is not lower.  "^" cuts it off.
FollowText(r, w, i, k) == Match(r, w, i + k - 1)
Follows(r, w, i, k, prio) ==
    LET m == FollowText(r, w, i, k)
        k0 == m.found + k - 1
    IN  /\ m.text /\ r.begin = ""
        /\ r.end => ~Letter(w, i + k0)
        /\ k0 # k /\ r.prio >= prio
\* Whether a rule that fits asks for follow-up rules.
AsksFollowUp(p, r, w, i, k) ==
    p.followup /\ k > 1 /\ r.minus = 0 /\ At(w, i + k) # ""
GivesWay(p, r, w, i, k) ==
    /\ AsksFollowUp(p, r, w, i, k)
    /\ \E f \in ToSet(RulesOf(p, w[i + k - 1])) : Follows(f, w, i, k, r.prio)

\* The first rule that is used; k is what the search leaves in the variable of that name,
\* tried says that there were rules for the letter.  (No priority is 0.)
NoRule(k) == [skip |-> TRUE, k |-> k, tried |-> FALSE]
RECURSIVE UseRule(_, _, _, _, _)
RuleAt(p, rules, w, i, m) ==
    LET k == Kept(rules[1], m.found)
    IN  IF Fits(rules[1], w, i, m) /\ ~GivesWay(p, rules[1], w, i, k)
        THEN [skip |-> FALSE, rule |-> rules[1], k |-> k]
        ELSE UseRule(p, Tail(rules), w, i, [NoRule(k) EXCEPT !.tried = TRUE])
UseRule(p, rules, w, i, none) ==
    IF rules = <<>> THEN none ELSE RuleAt(p, rules, w, i, Match(rules[1], w, i))

-----------------------------------------------------------------------------
\* One turn of the loop of phonet.  s: the word as rewritten so far, the place i in it,
\* the target, whether a "<" rule was just used (z), and what is left of k and of p0.

Keep(s, p, c, len) ==
    IF s.k > 0 /\ s.p0 = 0 /\ Len(s.target) < len /\ c # ""
       /\ (p.collapse => s.target = <<>> \/ Last(s.target) # c)
    THEN Append(s.target, c) ELSE s.target
Step(s, p, c, len) ==
    [s EXCEPT !.target = Keep(s, p, c, len), !.i = @ + 1, !.z = FALSE, !.k = 0]

\* "<": the text takes the place of the match in the word, which is gone through again.
Rewrite(s, r, k) ==
    LET w == s.word
        n == Least({Len(r.text), Len(w) - s.i + 1})
        old == s.target
        again == old # <<>> /\ r.text # <<>> /\ Last(old) \in {w[s.i], r.text[1]}
    IN  [s EXCEPT !.word = SubSeq(w, 1, s.i - 1) \o SubSeq(r.text, 1, n)
                             \o SubSeq(w, s.i + Most({n, k}), Len(w)),
                  !.target = IF again THEN Front(old) ELSE old,
                  !.z = TRUE, !.k = k, !.p0 = 1]
\* The text goes to the target but for its last letter, doubled letters once.
RECURSIVE PutAllButLast(_, _, _)
PutAllButLast(target, text, len) ==
    IF Len(text) < 2 \/ Len(target) >= len THEN [target |-> target, last |-> At(text, 1)]
    ELSE PutAllButLast(IF target = <<>> \/ Last(target) # text[1] THEN Append(target, text[1])
                       ELSE target, Tail(text), len)
Replace(s, p, r, k, len) ==
    LET put == PutAllButLast(s.target, r.text, len)
        i == s.i + k - 1
        after == [s EXCEPT !.target = put.target, !.i = i, !.z = FALSE, !.k = k,
                           !.p0 = IF r.less THEN 1 ELSE 0]
    IN  IF r.begin # "^^" THEN Step(after, p, put.last, len)
        ELSE [after EXCEPT !.target = IF put.last = "" THEN @ ELSE Append(@, put.last),
                           !.word = SubSeq(@, i + 1, Len(@)), !.i = 1]
Turn(s, p, u, len) ==
    IF u.skip THEN Step([s EXCEPT !.k = u.k, !.p0 = IF u.tried THEN 1 ELSE @], p,
                        s.word[s.i], len)
    ELSE IF u.rule.less /\ ~s.z THEN Rewrite(s, u.rule, u.k)
    ELSE Replace(s, p, u.rule, u.k, len)

RECURSIVE PhonetFrom(_, _, _)
PhonetFrom(s, p, len) ==
    IF At(s.word, s.i) = "" THEN s.target
    ELSE PhonetFrom(Turn(s, p, UseRule(p, RulesOf(p, s.word[s.i]), s.word, s.i, NoRule(s.k)), len),
                     p, len)
Phonet(p, word) ==
    PhonetFrom([word |-> SelectSeq([i \in DOMAIN word |-> PhonetLetter(p, word[i])],
                                   LAMBDA c : c # ""),
                i |-> 1, target |-> <<>>, z |-> FALSE, k |-> 0, p0 |-> 1], p, Len(word))

-----------------------------------------------------------------------------
\* The other forms.  SimpileSoundslike: the first character that has a sound, and of the
\* rest those that have one, a sound that follows itself once; "" is no sound.
RECURSIVE SimpleFirst(_, _), SimpleRest(_, _, _)
SimpleRest(word, rest, prev) ==
    IF word = <<>> THEN <<>>
    ELSE LET c == rest[word[1]]
         IN  (IF c # "" /\ c # prev THEN <<c>> ELSE <<>>) \o SimpleRest(Tail(word), rest, c)
SimpleFirst(word, sl) ==
    IF word = <<>> THEN <<>>
    ELSE IF sl.first[word[1]] = "" THEN SimpleFirst(Tail(word), sl)
    ELSE <<sl.first[word[1]]>> \o SimpleRest(Tail(word), sl.rest, sl.first[word[1]])

\* to_soundslike of the soundslike of a language: [name, data].
ToSoundslike(sl, word, storeAs) ==
    CASE sl.name = "simple" -> SimpleFirst(word, sl)
      [] sl.name = "stripped" -> Stripped(SelectSeq(word, IsAlpha))
      [] sl.name = "none" -> Clean(word, storeAs)
      [] OTHER -> Phonet(sl.rules, word)
HaveSoundslike(sl) == sl.name # "none"
=============================================================================
