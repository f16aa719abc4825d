--------------------------- MODULE Settings_proofs --------------------------
(***************************************************************************)
(* Proofs about the settings, for any requests, files, modes and names:    *)
(* what the operations of Config do; where every configuration is (Inv),   *)
(* and that a speller follows its own; that the filters of aspell pipe     *)
(* follow its mode; and that what is looked up is what was asked for       *)
(* (OptionsMean).                                                          *)
(*                                                                         *)
(* One configuration that is still being collected is in Open: nothing is  *)
(* known of its entries.  One that was committed is in Done(attached):     *)
(* every entry that is in force is one commit allows, the insertion point  *)
(* is at the end, and if a speller is attached, it has been told what the  *)
(* configuration shows.  Every operation leads from one of these sets to   *)
(* one of them.  What an entry put at the end of a list means for the      *)
(* options is said by AppendedRetrieved and AppendedListed, what the       *)
(* entries of a filter mode mean by ModeExpanded.                          *)
(*                                                                         *)
(* For OptionsMean, three readings of a list of entries or requests are    *)
(* compared, each of which goes from the first to the last: Wrote, which   *)
(* takes entries as they are written down and is what a lookup finds       *)
(* (EntriesShow); Meant, which takes them as commit would; and Asked,      *)
(* which takes requests and is the Meaning of the property                 *)
(* (AskedMeaning).  Every operation of Config keeps two of them together.  *)
(***************************************************************************)
EXTENDS Settings, PipeModes, NatInduction

\* The texts of entries.  The provers know of a literal only that it differs from
\* the others, not that it is a string, so those the definitions use are named.
Texts == STRING \cup {"mode", "filter", "run-together-limit", "Set", "Reset", "ListAdd",
                       "ListRemove", "ListClear", "NoOp", "", "true", "false", "8", "2",
                       "keyboard", "ignore-case", "extra-dicts", "standard",
                       "url", "nroff", "tex"}

Entry == [key : Texts, action : Texts, value : Texts]

\* What a speller is told of an option, "nothing" before there is one.
Told == Nat \cup BOOLEAN \cup {"nothing"}

Configuration ==
  [entries : Seq(Entry), insertPoint : Nat, committed : BOOLEAN, settingsRead : BOOLEAN,
   attached : BOOLEAN, told : [Followed -> Told], failed : BOOLEAN]

\* The insertion point is a place of the list, or its end.
Placed == {c \in Configuration : c.insertPoint <= Len(c.entries)}

\* An entry as a commit leaves it.
Sound(e) ==
  e.action # "NoOp" =>
    /\ Legal(e)
    /\ e.key = "ignore-case" /\ e.action = "Set" => e.value \in {"true", "false"}

\* What a speller was told of an option agrees with the text of the option.
Agrees(k, v, text) ==
  /\ k = "run-together-limit" => v \in {Atoi[text], Scanned[text]} /\ v <= LimitMax
  /\ k = "ignore-case" => v = (text = "true")

\* The speller that is attached has been told what the configuration shows.
Follows(c) ==
  c.attached => \A k \in Followed : Agrees(k, c.told[k], Retrieve(c, k))

\* Configurations being collected, and committed ones with a speller attached or not.
Open == {c \in Placed : ~c.committed /\ ~c.attached}
Clean(attached) ==
  {c \in Placed : /\ c.committed /\ c.attached = attached
                  /\ c.insertPoint = Len(c.entries)
                  /\ \A i \in 1..Len(c.entries) : Sound(c.entries[i])}
Done(attached) == {c \in Clean(attached) : Follows(c)}

-----------------------------------------------------------------------------
(* Folds, as functions of one item and what there is before it.  The lemmas  *)
(* have one proof: a lemma that takes the step as an operator is out of the  *)
(* provers' reach.                                                           *)

\* RemoveFrom, one item after the other.
RemoveOp(T, G, v) == [f \in T |-> [d \in G |-> (IF f = v THEN d ELSE Append(d, f))]]
LEMMA RemoveLeads ==
  ASSUME NEW T, NEW G, NEW seq \in Seq(T), NEW v,
         RemoveOp(T, G, v) \in [T -> [G -> G]], <<>> \in G
  PROVE  RemoveFrom(seq, v) = Through(RemoveOp(T, G, v), <<>>, seq)
<1> DEFINE base == <<>>
           next(d, f) == (IF f = v THEN d ELSE Append(d, f))
           value(it) == [p \in SUBSET DOMAIN seq |->
                           IF p = {} THEN base ELSE next(it[p \ {Max(p)}], seq[Max(p)])]
<1>1. PICK n \in Nat : n = Len(seq) /\ DOMAIN seq = 1..n
  BY LenProperties
<1>2. RemoveFrom(seq, v) = (CHOOSE it : it = value(it))[1..n]
  <2>1. RemoveFrom(seq, v) = FoldLeft(next, base, seq)
    BY DEF RemoveFrom
  <2>2. FoldLeft(next, base, seq) = (CHOOSE it : it = value(it))[DOMAIN seq]
    BY DEF FoldLeft, MapThenFoldSet
  <2> QED BY <1>1, <2>1, <2>2
<1>3. PICK op \in [T -> [G -> G]] : /\ op = RemoveOp(T, G, v)
                                   /\ \A f \in T : \A d \in G : op[f][d] = next(d, f)
  BY DEF RemoveOp
<1>4. PICK a \in G : a = base
  OBVIOUS
<1> HIDE DEF base, next
<1>5. PICK it : it = value(it) /\ (CHOOSE i : i = value(i)) = it
  <2>1. PICK it : FoldAlong(it, n, G, op, a, seq)
    <3>1. \E it : FoldAlong(it, n, G, op, a, seq)
      BY <1>1, AlongExists
    <3> QED BY <3>1
  <2>2. ASSUME NEW p \in SUBSET (1..n)
        PROVE  it[p] = IF p = {} THEN base ELSE next(it[p \ {Max(p)}], seq[Max(p)])
    <3>1. CASE p # {}
      <4>1. Max(p) \in 1..n
        BY <3>1, MaxOf
      <4>2. seq[Max(p)] \in T
        BY <1>1, <4>1, ElementOfSeq
      <4>3. it[p \ {Max(p)}] \in G /\ it[p] = op[seq[Max(p)]][it[p \ {Max(p)}]]
        BY <2>1, <3>1 DEF FoldAlong
      <4> QED BY <1>3, <3>1, <4>2, <4>3
    <3> QED BY <1>4, <2>1, <3>1 DEF FoldAlong
  <2>3. it = value(it)
    BY <1>1, <2>1, <2>2 DEF FoldAlong
  <2> HIDE DEF value
  <2> QED BY <2>3
<1>6. StepsAlong(it, n, G, op, a, seq)
  <2>1. it[{}] = a
    BY <1>4, <1>5
  <2>2. ASSUME NEW p \in SUBSET (1..n), p # {}, it[p \ {Max(p)}] \in G
        PROVE  it[p] = op[seq[Max(p)]][it[p \ {Max(p)}]]
    <3>1. Max(p) \in 1..n
      BY <2>2, MaxOf
    <3>2. seq[Max(p)] \in T
      BY <1>1, <3>1, ElementOfSeq
    <3>3. it[p] = next(it[p \ {Max(p)}], seq[Max(p)])
      BY <1>1, <1>5, <2>2
    <3> QED BY <1>3, <2>2, <3>2, <3>3
  <2> HIDE DEF value
  <2> QED BY <2>1, <2>2 DEF StepsAlong
<1> HIDE DEF value
<1>7. it[1..n] = Through(op, a, seq)
  BY <1>1, <1>6, AlongLeads
<1> QED BY <1>2, <1>3, <1>4, <1>5, <1>7 DEF base

\* AddTo of several items.
AddOp(T, G) == [f \in T |-> [d \in G |-> AddTo(d, f)]]
LEMMA AddLeads ==
  ASSUME NEW T, NEW G, NEW seq \in Seq(T),
         AddOp(T, G) \in [T -> [G -> G]], <<>> \in G
  PROVE  AddAll(seq) = Through(AddOp(T, G), <<>>, seq)
<1> DEFINE base == <<>>
           next(d, f) == AddTo(d, f)
           value(it) == [p \in SUBSET DOMAIN seq |->
                           IF p = {} THEN base ELSE next(it[p \ {Max(p)}], seq[Max(p)])]
<1>1. PICK n \in Nat : n = Len(seq) /\ DOMAIN seq = 1..n
  BY LenProperties
<1>2. AddAll(seq) = (CHOOSE it : it = value(it))[1..n]
  <2>1. AddAll(seq) = FoldLeft(next, base, seq)
    BY DEF AddAll
  <2>2. FoldLeft(next, base, seq) = (CHOOSE it : it = value(it))[DOMAIN seq]
    BY DEF FoldLeft, MapThenFoldSet
  <2> QED BY <1>1, <2>1, <2>2
<1>3. PICK op \in [T -> [G -> G]] : /\ op = AddOp(T, G)
                                   /\ \A f \in T : \A d \in G : op[f][d] = next(d, f)
  BY DEF AddOp
<1>4. PICK a \in G : a = base
  OBVIOUS
<1> HIDE DEF base, next
<1>5. PICK it : it = value(it) /\ (CHOOSE i : i = value(i)) = it
  <2>1. PICK it : FoldAlong(it, n, G, op, a, seq)
    <3>1. \E it : FoldAlong(it, n, G, op, a, seq)
      BY <1>1, AlongExists
    <3> QED BY <3>1
  <2>2. ASSUME NEW p \in SUBSET (1..n)
        PROVE  it[p] = IF p = {} THEN base ELSE next(it[p \ {Max(p)}], seq[Max(p)])
    <3>1. CASE p # {}
      <4>1. Max(p) \in 1..n
        BY <3>1, MaxOf
      <4>2. seq[Max(p)] \in T
        BY <1>1, <4>1, ElementOfSeq
      <4>3. it[p \ {Max(p)}] \in G /\ it[p] = op[seq[Max(p)]][it[p \ {Max(p)}]]
        BY <2>1, <3>1 DEF FoldAlong
      <4> QED BY <1>3, <3>1, <4>2, <4>3
    <3> QED BY <1>4, <2>1, <3>1 DEF FoldAlong
  <2>3. it = value(it)
    BY <1>1, <2>1, <2>2 DEF FoldAlong
  <2> HIDE DEF value
  <2> QED BY <2>3
<1>6. StepsAlong(it, n, G, op, a, seq)
  <2>1. it[{}] = a
    BY <1>4, <1>5
  <2>2. ASSUME NEW p \in SUBSET (1..n), p # {}, it[p \ {Max(p)}] \in G
        PROVE  it[p] = op[seq[Max(p)]][it[p \ {Max(p)}]]
    <3>1. Max(p) \in 1..n
      BY <2>2, MaxOf
    <3>2. seq[Max(p)] \in T
      BY <1>1, <3>1, ElementOfSeq
    <3>3. it[p] = next(it[p \ {Max(p)}], seq[Max(p)])
      BY <1>1, <1>5, <2>2
    <3> QED BY <1>3, <2>2, <3>2, <3>3
  <2> HIDE DEF value
  <2> QED BY <2>1, <2>2 DEF StepsAlong
<1> HIDE DEF value
<1>7. it[1..n] = Through(op, a, seq)
  BY <1>1, <1>6, AlongLeads
<1> QED BY <1>2, <1>3, <1>4, <1>5, <1>7 DEF base

\* The entries of a list, one after the other.
EditOp(T, G, k) == [f \in T |-> [d \in G |-> Edit(d, f, k)]]
LEMMA EditLeads ==
  ASSUME NEW T, NEW G, NEW seq \in Seq(T), NEW k, NEW list,
         EditOp(T, G, k) \in [T -> [G -> G]], list \in G
  PROVE  Edits(list, seq, k) = Through(EditOp(T, G, k), list, seq)
<1> DEFINE base == list
           next(d, f) == Edit(d, f, k)
           value(it) == [p \in SUBSET DOMAIN seq |->
                           IF p = {} THEN base ELSE next(it[p \ {Max(p)}], seq[Max(p)])]
<1>1. PICK n \in Nat : n = Len(seq) /\ DOMAIN seq = 1..n
  BY LenProperties
<1>2. Edits(list, seq, k) = (CHOOSE it : it = value(it))[1..n]
  <2>1. Edits(list, seq, k) = FoldLeft(next, base, seq)
    BY DEF Edits
  <2>2. FoldLeft(next, base, seq) = (CHOOSE it : it = value(it))[DOMAIN seq]
    BY DEF FoldLeft, MapThenFoldSet
  <2> QED BY <1>1, <2>1, <2>2
<1>3. PICK op \in [T -> [G -> G]] : /\ op = EditOp(T, G, k)
                                   /\ \A f \in T : \A d \in G : op[f][d] = next(d, f)
  BY DEF EditOp
<1>4. PICK a \in G : a = base
  OBVIOUS
<1> HIDE DEF base, next
<1>5. PICK it : it = value(it) /\ (CHOOSE i : i = value(i)) = it
  <2>1. PICK it : FoldAlong(it, n, G, op, a, seq)
    <3>1. \E it : FoldAlong(it, n, G, op, a, seq)
      BY <1>1, AlongExists
    <3> QED BY <3>1
  <2>2. ASSUME NEW p \in SUBSET (1..n)
        PROVE  it[p] = IF p = {} THEN base ELSE next(it[p \ {Max(p)}], seq[Max(p)])
    <3>1. CASE p # {}
      <4>1. Max(p) \in 1..n
        BY <3>1, MaxOf
      <4>2. seq[Max(p)] \in T
        BY <1>1, <4>1, ElementOfSeq
      <4>3. it[p \ {Max(p)}] \in G /\ it[p] = op[seq[Max(p)]][it[p \ {Max(p)}]]
        BY <2>1, <3>1 DEF FoldAlong
      <4> QED BY <1>3, <3>1, <4>2, <4>3
    <3> QED BY <1>4, <2>1, <3>1 DEF FoldAlong
  <2>3. it = value(it)
    BY <1>1, <2>1, <2>2 DEF FoldAlong
  <2> HIDE DEF value
  <2> QED BY <2>3
<1>6. StepsAlong(it, n, G, op, a, seq)
  <2>1. it[{}] = a
    BY <1>4, <1>5
  <2>2. ASSUME NEW p \in SUBSET (1..n), p # {}, it[p \ {Max(p)}] \in G
        PROVE  it[p] = op[seq[Max(p)]][it[p \ {Max(p)}]]
    <3>1. Max(p) \in 1..n
      BY <2>2, MaxOf
    <3>2. seq[Max(p)] \in T
      BY <1>1, <3>1, ElementOfSeq
    <3>3. it[p] = next(it[p \ {Max(p)}], seq[Max(p)])
      BY <1>1, <1>5, <2>2
    <3> QED BY <1>3, <2>2, <3>2, <3>3
  <2> HIDE DEF value
  <2> QED BY <2>1, <2>2 DEF StepsAlong
<1> HIDE DEF value
<1>7. it[1..n] = Through(op, a, seq)
  BY <1>1, <1>6, AlongLeads
<1> QED BY <1>2, <1>3, <1>4, <1>5, <1>7 DEF base

\* The filters of a mode, one after the other.
FilterOp(T, G) == [f \in T |-> [d \in G |-> Insert(d, NewEntry("filter", "ListAdd", f))]]
LEMMA FilterLeads ==
  ASSUME NEW T, NEW G, NEW seq \in Seq(T), NEW c,
         FilterOp(T, G) \in [T -> [G -> G]], c \in G
  PROVE  AddFilters(c, seq) = Through(FilterOp(T, G), c, seq)
<1> DEFINE base == c
           next(d, f) == Insert(d, NewEntry("filter", "ListAdd", f))
           value(it) == [p \in SUBSET DOMAIN seq |->
                           IF p = {} THEN base ELSE next(it[p \ {Max(p)}], seq[Max(p)])]
<1>1. PICK n \in Nat : n = Len(seq) /\ DOMAIN seq = 1..n
  BY LenProperties
<1>2. AddFilters(c, seq) = (CHOOSE it : it = value(it))[1..n]
  <2>1. AddFilters(c, seq) = FoldLeft(next, base, seq)
    BY DEF AddFilters
  <2>2. FoldLeft(next, base, seq) = (CHOOSE it : it = value(it))[DOMAIN seq]
    BY DEF FoldLeft, MapThenFoldSet
  <2> QED BY <1>1, <2>1, <2>2
<1>3. PICK op \in [T -> [G -> G]] : /\ op = FilterOp(T, G)
                                   /\ \A f \in T : \A d \in G : op[f][d] = next(d, f)
  BY DEF FilterOp
<1>4. PICK a \in G : a = base
  OBVIOUS
<1> HIDE DEF base, next
<1>5. PICK it : it = value(it) /\ (CHOOSE i : i = value(i)) = it
  <2>1. PICK it : FoldAlong(it, n, G, op, a, seq)
    <3>1. \E it : FoldAlong(it, n, G, op, a, seq)
      BY <1>1, AlongExists
    <3> QED BY <3>1
  <2>2. ASSUME NEW p \in SUBSET (1..n)
        PROVE  it[p] = IF p = {} THEN base ELSE next(it[p \ {Max(p)}], seq[Max(p)])
    <3>1. CASE p # {}
      <4>1. Max(p) \in 1..n
        BY <3>1, MaxOf
      <4>2. seq[Max(p)] \in T
        BY <1>1, <4>1, ElementOfSeq
      <4>3. it[p \ {Max(p)}] \in G /\ it[p] = op[seq[Max(p)]][it[p \ {Max(p)}]]
        BY <2>1, <3>1 DEF FoldAlong
      <4> QED BY <1>3, <3>1, <4>2, <4>3
    <3> QED BY <1>4, <2>1, <3>1 DEF FoldAlong
  <2>3. it = value(it)
    BY <1>1, <2>1, <2>2 DEF FoldAlong
  <2> HIDE DEF value
  <2> QED BY <2>3
<1>6. StepsAlong(it, n, G, op, a, seq)
  <2>1. it[{}] = a
    BY <1>4, <1>5
  <2>2. ASSUME NEW p \in SUBSET (1..n), p # {}, it[p \ {Max(p)}] \in G
        PROVE  it[p] = op[seq[Max(p)]][it[p \ {Max(p)}]]
    <3>1. Max(p) \in 1..n
      BY <2>2, MaxOf
    <3>2. seq[Max(p)] \in T
      BY <1>1, <3>1, ElementOfSeq
    <3>3. it[p] = next(it[p \ {Max(p)}], seq[Max(p)])
      BY <1>1, <1>5, <2>2
    <3> QED BY <1>3, <2>2, <3>2, <3>3
  <2> HIDE DEF value
  <2> QED BY <2>1, <2>2 DEF StepsAlong
<1> HIDE DEF value
<1>7. it[1..n] = Through(op, a, seq)
  BY <1>1, <1>6, AlongLeads
<1> QED BY <1>2, <1>3, <1>4, <1>5, <1>7 DEF base

\* The items lset adds.
ItemOp(T, G, k) == [f \in T |-> [d \in G |-> InsertAndCommit(d, NewEntry(k, "ListAdd", f))]]
LEMMA ItemLeads ==
  ASSUME NEW T, NEW G, NEW seq \in Seq(T), NEW c, NEW k,
         ItemOp(T, G, k) \in [T -> [G -> G]], c \in G
  PROVE  AddItems(c, k, seq) = Through(ItemOp(T, G, k), c, seq)
<1> DEFINE base == c
           next(d, f) == InsertAndCommit(d, NewEntry(k, "ListAdd", f))
           value(it) == [p \in SUBSET DOMAIN seq |->
                           IF p = {} THEN base ELSE next(it[p \ {Max(p)}], seq[Max(p)])]
<1>1. PICK n \in Nat : n = Len(seq) /\ DOMAIN seq = 1..n
  BY LenProperties
<1>2. AddItems(c, k, seq) = (CHOOSE it : it = value(it))[1..n]
  <2>1. AddItems(c, k, seq) = FoldLeft(next, base, seq)
    BY DEF AddItems
  <2>2. FoldLeft(next, base, seq) = (CHOOSE it : it = value(it))[DOMAIN seq]
    BY DEF FoldLeft, MapThenFoldSet
  <2> QED BY <1>1, <2>1, <2>2
<1>3. PICK op \in [T -> [G -> G]] : /\ op = ItemOp(T, G, k)
                                   /\ \A f \in T : \A d \in G : op[f][d] = next(d, f)
  BY DEF ItemOp
<1>4. PICK a \in G : a = base
  OBVIOUS
<1> HIDE DEF base, next
<1>5. PICK it : it = value(it) /\ (CHOOSE i : i = value(i)) = it
  <2>1. PICK it : FoldAlong(it, n, G, op, a, seq)
    <3>1. \E it : FoldAlong(it, n, G, op, a, seq)
      BY <1>1, AlongExists
    <3> QED BY <3>1
  <2>2. ASSUME NEW p \in SUBSET (1..n)
        PROVE  it[p] = IF p = {} THEN base ELSE next(it[p \ {Max(p)}], seq[Max(p)])
    <3>1. CASE p # {}
      <4>1. Max(p) \in 1..n
        BY <3>1, MaxOf
      <4>2. seq[Max(p)] \in T
        BY <1>1, <4>1, ElementOfSeq
      <4>3. it[p \ {Max(p)}] \in G /\ it[p] = op[seq[Max(p)]][it[p \ {Max(p)}]]
        BY <2>1, <3>1 DEF FoldAlong
      <4> QED BY <1>3, <3>1, <4>2, <4>3
    <3> QED BY <1>4, <2>1, <3>1 DEF FoldAlong
  <2>3. it = value(it)
    BY <1>1, <2>1, <2>2 DEF FoldAlong
  <2> HIDE DEF value
  <2> QED BY <2>3
<1>6. StepsAlong(it, n, G, op, a, seq)
  <2>1. it[{}] = a
    BY <1>4, <1>5
  <2>2. ASSUME NEW p \in SUBSET (1..n), p # {}, it[p \ {Max(p)}] \in G
        PROVE  it[p] = op[seq[Max(p)]][it[p \ {Max(p)}]]
    <3>1. Max(p) \in 1..n
      BY <2>2, MaxOf
    <3>2. seq[Max(p)] \in T
      BY <1>1, <3>1, ElementOfSeq
    <3>3. it[p] = next(it[p \ {Max(p)}], seq[Max(p)])
      BY <1>1, <1>5, <2>2
    <3> QED BY <1>3, <2>2, <3>2, <3>3
  <2> HIDE DEF value
  <2> QED BY <2>1, <2>2 DEF StepsAlong
<1> HIDE DEF value
<1>7. it[1..n] = Through(op, a, seq)
  BY <1>1, <1>6, AlongLeads
<1> QED BY <1>2, <1>3, <1>4, <1>5, <1>7 DEF base

\* The entries commit_all commits.
RecommitOp(T, G) == [f \in T |-> [d \in G |-> Recommit(d, f)]]
LEMMA RecommitLeads ==
  ASSUME NEW T, NEW G, NEW seq \in Seq(T), NEW c,
         RecommitOp(T, G) \in [T -> [G -> G]], c \in G
  PROVE  RecommitAll(c, seq) = Through(RecommitOp(T, G), c, seq)
<1> DEFINE base == c
           next(d, f) == Recommit(d, f)
           value(it) == [p \in SUBSET DOMAIN seq |->
                           IF p = {} THEN base ELSE next(it[p \ {Max(p)}], seq[Max(p)])]
<1>1. PICK n \in Nat : n = Len(seq) /\ DOMAIN seq = 1..n
  BY LenProperties
<1>2. RecommitAll(c, seq) = (CHOOSE it : it = value(it))[1..n]
  <2>1. RecommitAll(c, seq) = FoldLeft(next, base, seq)
    BY DEF RecommitAll
  <2>2. FoldLeft(next, base, seq) = (CHOOSE it : it = value(it))[DOMAIN seq]
    BY DEF FoldLeft, MapThenFoldSet
  <2> QED BY <1>1, <2>1, <2>2
<1>3. PICK op \in [T -> [G -> G]] : /\ op = RecommitOp(T, G)
                                   /\ \A f \in T : \A d \in G : op[f][d] = next(d, f)
  BY DEF RecommitOp
<1>4. PICK a \in G : a = base
  OBVIOUS
<1> HIDE DEF base, next
<1>5. PICK it : it = value(it) /\ (CHOOSE i : i = value(i)) = it
  <2>1. PICK it : FoldAlong(it, n, G, op, a, seq)
    <3>1. \E it : FoldAlong(it, n, G, op, a, seq)
      BY <1>1, AlongExists
    <3> QED BY <3>1
  <2>2. ASSUME NEW p \in SUBSET (1..n)
        PROVE  it[p] = IF p = {} THEN base ELSE next(it[p \ {Max(p)}], seq[Max(p)])
    <3>1. CASE p # {}
      <4>1. Max(p) \in 1..n
        BY <3>1, MaxOf
      <4>2. seq[Max(p)] \in T
        BY <1>1, <4>1, ElementOfSeq
      <4>3. it[p \ {Max(p)}] \in G /\ it[p] = op[seq[Max(p)]][it[p \ {Max(p)}]]
        BY <2>1, <3>1 DEF FoldAlong
      <4> QED BY <1>3, <3>1, <4>2, <4>3
    <3> QED BY <1>4, <2>1, <3>1 DEF FoldAlong
  <2>3. it = value(it)
    BY <1>1, <2>1, <2>2 DEF FoldAlong
  <2> HIDE DEF value
  <2> QED BY <2>3
<1>6. StepsAlong(it, n, G, op, a, seq)
  <2>1. it[{}] = a
    BY <1>4, <1>5
  <2>2. ASSUME NEW p \in SUBSET (1..n), p # {}, it[p \ {Max(p)}] \in G
        PROVE  it[p] = op[seq[Max(p)]][it[p \ {Max(p)}]]
    <3>1. Max(p) \in 1..n
      BY <2>2, MaxOf
    <3>2. seq[Max(p)] \in T
      BY <1>1, <3>1, ElementOfSeq
    <3>3. it[p] = next(it[p \ {Max(p)}], seq[Max(p)])
      BY <1>1, <1>5, <2>2
    <3> QED BY <1>3, <2>2, <3>2, <3>3
  <2> HIDE DEF value
  <2> QED BY <2>1, <2>2 DEF StepsAlong
<1> HIDE DEF value
<1>7. it[1..n] = Through(op, a, seq)
  BY <1>1, <1>6, AlongLeads
<1> QED BY <1>2, <1>3, <1>4, <1>5, <1>7 DEF base

\* The entries of a configuration that is merged.
MergeOp(T, G) == [f \in T |-> [d \in G |-> IF f.action = "NoOp" THEN d ELSE Insert(d, f)]]
LEMMA MergeLeads ==
  ASSUME NEW T, NEW G, NEW seq \in Seq(T), NEW c,
         MergeOp(T, G) \in [T -> [G -> G]], c \in G
  PROVE  MergeEntries(c, seq) = Through(MergeOp(T, G), c, seq)
<1> DEFINE base == c
           next(d, f) == IF f.action = "NoOp" THEN d ELSE Insert(d, f)
           value(it) == [p \in SUBSET DOMAIN seq |->
                           IF p = {} THEN base ELSE next(it[p \ {Max(p)}], seq[Max(p)])]
<1>1. PICK n \in Nat : n = Len(seq) /\ DOMAIN seq = 1..n
  BY LenProperties
<1>2. MergeEntries(c, seq) = (CHOOSE it : it = value(it))[1..n]
  <2>1. MergeEntries(c, seq) = FoldLeft(next, base, seq)
    BY DEF MergeEntries
  <2>2. FoldLeft(next, base, seq) = (CHOOSE it : it = value(it))[DOMAIN seq]
    BY DEF FoldLeft, MapThenFoldSet
  <2> QED BY <1>1, <2>1, <2>2
<1>3. PICK op \in [T -> [G -> G]] : /\ op = MergeOp(T, G)
                                   /\ \A f \in T : \A d \in G : op[f][d] = next(d, f)
  BY DEF MergeOp
<1>4. PICK a \in G : a = base
  OBVIOUS
<1> HIDE DEF base, next
<1>5. PICK it : it = value(it) /\ (CHOOSE i : i = value(i)) = it
  <2>1. PICK it : FoldAlong(it, n, G, op, a, seq)
    <3>1. \E it : FoldAlong(it, n, G, op, a, seq)
      BY <1>1, AlongExists
    <3> QED BY <3>1
  <2>2. ASSUME NEW p \in SUBSET (1..n)
        PROVE  it[p] = IF p = {} THEN base ELSE next(it[p \ {Max(p)}], seq[Max(p)])
    <3>1. CASE p # {}
      <4>1. Max(p) \in 1..n
        BY <3>1, MaxOf
      <4>2. seq[Max(p)] \in T
        BY <1>1, <4>1, ElementOfSeq
      <4>3. it[p \ {Max(p)}] \in G /\ it[p] = op[seq[Max(p)]][it[p \ {Max(p)}]]
        BY <2>1, <3>1 DEF FoldAlong
      <4> QED BY <1>3, <3>1, <4>2, <4>3
    <3> QED BY <1>4, <2>1, <3>1 DEF FoldAlong
  <2>3. it = value(it)
    BY <1>1, <2>1, <2>2 DEF FoldAlong
  <2> HIDE DEF value
  <2> QED BY <2>3
<1>6. StepsAlong(it, n, G, op, a, seq)
  <2>1. it[{}] = a
    BY <1>4, <1>5
  <2>2. ASSUME NEW p \in SUBSET (1..n), p # {}, it[p \ {Max(p)}] \in G
        PROVE  it[p] = op[seq[Max(p)]][it[p \ {Max(p)}]]
    <3>1. Max(p) \in 1..n
      BY <2>2, MaxOf
    <3>2. seq[Max(p)] \in T
      BY <1>1, <3>1, ElementOfSeq
    <3>3. it[p] = next(it[p \ {Max(p)}], seq[Max(p)])
      BY <1>1, <1>5, <2>2
    <3> QED BY <1>3, <2>2, <3>2, <3>3
  <2> HIDE DEF value
  <2> QED BY <2>1, <2>2 DEF StepsAlong
<1> HIDE DEF value
<1>7. it[1..n] = Through(op, a, seq)
  BY <1>1, <1>6, AlongLeads
<1> QED BY <1>2, <1>3, <1>4, <1>5, <1>7 DEF base

\* The configurations that are merged.
MergeAllOp(T, G) == [f \in T |-> [d \in G |-> MergeEntries(d, f.entries)]]
LEMMA MergeAllLeads ==
  ASSUME NEW T, NEW G, NEW seq \in Seq(T), NEW c,
         MergeAllOp(T, G) \in [T -> [G -> G]], c \in G
  PROVE  Merge(c, seq) = Through(MergeAllOp(T, G), c, seq)
<1> DEFINE base == c
           next(d, f) == MergeEntries(d, f.entries)
           value(it) == [p \in SUBSET DOMAIN seq |->
                           IF p = {} THEN base ELSE next(it[p \ {Max(p)}], seq[Max(p)])]
<1>1. PICK n \in Nat : n = Len(seq) /\ DOMAIN seq = 1..n
  BY LenProperties
<1>2. Merge(c, seq) = (CHOOSE it : it = value(it))[1..n]
  <2>1. Merge(c, seq) = FoldLeft(next, base, seq)
    BY DEF Merge
  <2>2. FoldLeft(next, base, seq) = (CHOOSE it : it = value(it))[DOMAIN seq]
    BY DEF FoldLeft, MapThenFoldSet
  <2> QED BY <1>1, <2>1, <2>2
<1>3. PICK op \in [T -> [G -> G]] : /\ op = MergeAllOp(T, G)
                                   /\ \A f \in T : \A d \in G : op[f][d] = next(d, f)
  BY DEF MergeAllOp
<1>4. PICK a \in G : a = base
  OBVIOUS
<1> HIDE DEF base, next
<1>5. PICK it : it = value(it) /\ (CHOOSE i : i = value(i)) = it
  <2>1. PICK it : FoldAlong(it, n, G, op, a, seq)
    <3>1. \E it : FoldAlong(it, n, G, op, a, seq)
      BY <1>1, AlongExists
    <3> QED BY <3>1
  <2>2. ASSUME NEW p \in SUBSET (1..n)
        PROVE  it[p] = IF p = {} THEN base ELSE next(it[p \ {Max(p)}], seq[Max(p)])
    <3>1. CASE p # {}
      <4>1. Max(p) \in 1..n
        BY <3>1, MaxOf
      <4>2. seq[Max(p)] \in T
        BY <1>1, <4>1, ElementOfSeq
      <4>3. it[p \ {Max(p)}] \in G /\ it[p] = op[seq[Max(p)]][it[p \ {Max(p)}]]
        BY <2>1, <3>1 DEF FoldAlong
      <4> QED BY <1>3, <3>1, <4>2, <4>3
    <3> QED BY <1>4, <2>1, <3>1 DEF FoldAlong
  <2>3. it = value(it)
    BY <1>1, <2>1, <2>2 DEF FoldAlong
  <2> HIDE DEF value
  <2> QED BY <2>3
<1>6. StepsAlong(it, n, G, op, a, seq)
  <2>1. it[{}] = a
    BY <1>4, <1>5
  <2>2. ASSUME NEW p \in SUBSET (1..n), p # {}, it[p \ {Max(p)}] \in G
        PROVE  it[p] = op[seq[Max(p)]][it[p \ {Max(p)}]]
    <3>1. Max(p) \in 1..n
      BY <2>2, MaxOf
    <3>2. seq[Max(p)] \in T
      BY <1>1, <3>1, ElementOfSeq
    <3>3. it[p] = next(it[p \ {Max(p)}], seq[Max(p)])
      BY <1>1, <1>5, <2>2
    <3> QED BY <1>3, <2>2, <3>2, <3>3
  <2> HIDE DEF value
  <2> QED BY <2>1, <2>2 DEF StepsAlong
<1> HIDE DEF value
<1>7. it[1..n] = Through(op, a, seq)
  BY <1>1, <1>6, AlongLeads
<1> QED BY <1>2, <1>3, <1>4, <1>5, <1>7 DEF base

\* The requests of a file.
ReadOp(T, G) == [f \in T |-> [d \in G |-> IF d.failed THEN d ELSE SetEntry(d, f)]]
LEMMA ReadLeads ==
  ASSUME NEW T, NEW G, NEW seq \in Seq(T), NEW c,
         ReadOp(T, G) \in [T -> [G -> G]], c \in G
  PROVE  ReadAtEnd(c, seq) = Through(ReadOp(T, G), c, seq)
<1> DEFINE base == c
           next(d, f) == IF d.failed THEN d ELSE SetEntry(d, f)
           value(it) == [p \in SUBSET DOMAIN seq |->
                           IF p = {} THEN base ELSE next(it[p \ {Max(p)}], seq[Max(p)])]
<1>1. PICK n \in Nat : n = Len(seq) /\ DOMAIN seq = 1..n
  BY LenProperties
<1>2. ReadAtEnd(c, seq) = (CHOOSE it : it = value(it))[1..n]
  <2>1. ReadAtEnd(c, seq) = FoldLeft(next, base, seq)
    BY DEF ReadAtEnd
  <2>2. FoldLeft(next, base, seq) = (CHOOSE it : it = value(it))[DOMAIN seq]
    BY DEF FoldLeft, MapThenFoldSet
  <2> QED BY <1>1, <2>1, <2>2
<1>3. PICK op \in [T -> [G -> G]] : /\ op = ReadOp(T, G)
                                   /\ \A f \in T : \A d \in G : op[f][d] = next(d, f)
  BY DEF ReadOp
<1>4. PICK a \in G : a = base
  OBVIOUS
<1> HIDE DEF base, next
<1>5. PICK it : it = value(it) /\ (CHOOSE i : i = value(i)) = it
  <2>1. PICK it : FoldAlong(it, n, G, op, a, seq)
    <3>1. \E it : FoldAlong(it, n, G, op, a, seq)
      BY <1>1, AlongExists
    <3> QED BY <3>1
  <2>2. ASSUME NEW p \in SUBSET (1..n)
        PROVE  it[p] = IF p = {} THEN base ELSE next(it[p \ {Max(p)}], seq[Max(p)])
    <3>1. CASE p # {}
      <4>1. Max(p) \in 1..n
        BY <3>1, MaxOf
      <4>2. seq[Max(p)] \in T
        BY <1>1, <4>1, ElementOfSeq
      <4>3. it[p \ {Max(p)}] \in G /\ it[p] = op[seq[Max(p)]][it[p \ {Max(p)}]]
        BY <2>1, <3>1 DEF FoldAlong
      <4> QED BY <1>3, <3>1, <4>2, <4>3
    <3> QED BY <1>4, <2>1, <3>1 DEF FoldAlong
  <2>3. it = value(it)
    BY <1>1, <2>1, <2>2 DEF FoldAlong
  <2> HIDE DEF value
  <2> QED BY <2>3
<1>6. StepsAlong(it, n, G, op, a, seq)
  <2>1. it[{}] = a
    BY <1>4, <1>5
  <2>2. ASSUME NEW p \in SUBSET (1..n), p # {}, it[p \ {Max(p)}] \in G
        PROVE  it[p] = op[seq[Max(p)]][it[p \ {Max(p)}]]
    <3>1. Max(p) \in 1..n
      BY <2>2, MaxOf
    <3>2. seq[Max(p)] \in T
      BY <1>1, <3>1, ElementOfSeq
    <3>3. it[p] = next(it[p \ {Max(p)}], seq[Max(p)])
      BY <1>1, <1>5, <2>2
    <3> QED BY <1>3, <2>2, <3>2, <3>3
  <2> HIDE DEF value
  <2> QED BY <2>1, <2>2 DEF StepsAlong
<1> HIDE DEF value
<1>7. it[1..n] = Through(op, a, seq)
  BY <1>1, <1>6, AlongLeads
<1> QED BY <1>2, <1>3, <1>4, <1>5, <1>7 DEF base

\* The files.
FileOp(T, G) == [f \in T |-> [d \in G |-> IF d.failed THEN d ELSE ReadIn(d, f)]]
LEMMA FileLeads ==
  ASSUME NEW T, NEW G, NEW seq \in Seq(T), NEW c,
         FileOp(T, G) \in [T -> [G -> G]], c \in G
  PROVE  ReadFiles(c, seq) = Through(FileOp(T, G), c, seq)
<1> DEFINE base == c
           next(d, f) == IF d.failed THEN d ELSE ReadIn(d, f)
           value(it) == [p \in SUBSET DOMAIN seq |->
                           IF p = {} THEN base ELSE next(it[p \ {Max(p)}], seq[Max(p)])]
<1>1. PICK n \in Nat : n = Len(seq) /\ DOMAIN seq = 1..n
  BY LenProperties
<1>2. ReadFiles(c, seq) = (CHOOSE it : it = value(it))[1..n]
  <2>1. ReadFiles(c, seq) = FoldLeft(next, base, seq)
    BY DEF ReadFiles
  <2>2. FoldLeft(next, base, seq) = (CHOOSE it : it = value(it))[DOMAIN seq]
    BY DEF FoldLeft, MapThenFoldSet
  <2> QED BY <1>1, <2>1, <2>2
<1>3. PICK op \in [T -> [G -> G]] : /\ op = FileOp(T, G)
                                   /\ \A f \in T : \A d \in G : op[f][d] = next(d, f)
  BY DEF FileOp
<1>4. PICK a \in G : a = base
  OBVIOUS
<1> HIDE DEF base, next
<1>5. PICK it : it = value(it) /\ (CHOOSE i : i = value(i)) = it
  <2>1. PICK it : FoldAlong(it, n, G, op, a, seq)
    <3>1. \E it : FoldAlong(it, n, G, op, a, seq)
      BY <1>1, AlongExists
    <3> QED BY <3>1
  <2>2. ASSUME NEW p \in SUBSET (1..n)
        PROVE  it[p] = IF p = {} THEN base ELSE next(it[p \ {Max(p)}], seq[Max(p)])
    <3>1. CASE p # {}
      <4>1. Max(p) \in 1..n
        BY <3>1, MaxOf
      <4>2. seq[Max(p)] \in T
        BY <1>1, <4>1, ElementOfSeq
      <4>3. it[p \ {Max(p)}] \in G /\ it[p] = op[seq[Max(p)]][it[p \ {Max(p)}]]
        BY <2>1, <3>1 DEF FoldAlong
      <4> QED BY <1>3, <3>1, <4>2, <4>3
    <3> QED BY <1>4, <2>1, <3>1 DEF FoldAlong
  <2>3. it = value(it)
    BY <1>1, <2>1, <2>2 DEF FoldAlong
  <2> HIDE DEF value
  <2> QED BY <2>3
<1>6. StepsAlong(it, n, G, op, a, seq)
  <2>1. it[{}] = a
    BY <1>4, <1>5
  <2>2. ASSUME NEW p \in SUBSET (1..n), p # {}, it[p \ {Max(p)}] \in G
        PROVE  it[p] = op[seq[Max(p)]][it[p \ {Max(p)}]]
    <3>1. Max(p) \in 1..n
      BY <2>2, MaxOf
    <3>2. seq[Max(p)] \in T
      BY <1>1, <3>1, ElementOfSeq
    <3>3. it[p] = next(it[p \ {Max(p)}], seq[Max(p)])
      BY <1>1, <1>5, <2>2
    <3> QED BY <1>3, <2>2, <3>2, <3>3
  <2> HIDE DEF value
  <2> QED BY <2>1, <2>2 DEF StepsAlong
<1> HIDE DEF value
<1>7. it[1..n] = Through(op, a, seq)
  BY <1>1, <1>6, AlongLeads
<1> QED BY <1>2, <1>3, <1>4, <1>5, <1>7 DEF base

-----------------------------------------------------------------------------
(* The list of entries.                                                     *)

\* Inserting puts the entry behind the others if the insertion point is there.
LEMMA Inserted ==
  ASSUME NEW c \in Placed, NEW e \in Entry
  PROVE  /\ Insert(c, e) \in Placed
         /\ Insert(c, e) = [c EXCEPT !.entries = Insert(c, e).entries,
                                     !.insertPoint = c.insertPoint + 1]
         /\ c.insertPoint = Len(c.entries) => Insert(c, e).entries = Append(c.entries, e)
<1>1. PICK d : d = Insert(c, e)
  OBVIOUS
<1>2. PICK s \in Seq(Entry), n \in Nat, k \in Nat :
        s = c.entries /\ n = Len(s) /\ k = c.insertPoint /\ k <= n
  BY DEF Placed, Configuration
<1>3. PICK front, back : front = SubSeq(s, 1, k) /\ back = SubSeq(s, k + 1, n)
  OBVIOUS
<1>4. front \in Seq(Entry) /\ Len(front) = k /\ back \in Seq(Entry) /\ Len(back) = n - k
  <2>1. front \in Seq(Entry) /\ Len(front) = k
    BY <1>2, <1>3, SubSeqProperties
  <2>2. k + 1 \in 1..(n + 1)
    BY <1>2
  <2>3. /\ back \in Seq(Entry)
        /\ Len(back) = IF k + 1 <= n THEN n - (k + 1) + 1 ELSE 0
    BY <1>2, <1>3, <2>2, SubSeqProperties
  <2>4. (IF k + 1 <= n THEN n - (k + 1) + 1 ELSE 0) = n - k
    BY <1>2
  <2> QED BY <2>1, <2>3, <2>4
<1>5. PICK t : t = front \o <<e>> \o back
  OBVIOUS
<1>6. t \in Seq(Entry) /\ Len(t) = n + 1
  <2>1. <<e>> \in Seq(Entry) /\ Len(<<e>>) = 1
    OBVIOUS
  <2>2. PICK x : x = front \o <<e>>
    OBVIOUS
  <2>3. x \in Seq(Entry) /\ Len(x) = k + 1
    BY <1>4, <2>1, <2>2, ConcatProperties
  <2>4. t = x \o back
    BY <1>5, <2>2
  <2>5. x \o back \in Seq(Entry) /\ Len(x \o back) = Len(x) + Len(back)
    BY <1>4, <2>3, ConcatProperties
  <2>6. Len(x) + Len(back) = n + 1
    BY <1>2, <1>4, <2>3
  <2> QED BY <2>4, <2>5, <2>6
<1>7. d = [c EXCEPT !.entries = t, !.insertPoint = k + 1]
  <2>1. c.insertPoint = k /\ c.entries = s /\ Len(s) = n
    BY <1>2
  <2>2. t = SubSeq(s, 1, k) \o <<e>> \o SubSeq(s, k + 1, n)
    BY <1>3, <1>5
  <2>3. d = [c EXCEPT !.entries = SubSeq(c.entries, 1, c.insertPoint) \o <<e>>
                          \o SubSeq(c.entries, c.insertPoint + 1, Len(c.entries)),
                      !.insertPoint = c.insertPoint + 1]
    BY <1>1, Zenon DEF Insert
  <2> QED BY <2>1, <2>2, <2>3
<1>8. d \in Configuration /\ d.entries = t /\ d.insertPoint = k + 1
  <2>1. c \in Configuration /\ k + 1 \in Nat /\ t \in Seq(Entry)
    BY <1>2, <1>6 DEF Placed
  <2> QED BY <1>7, <2>1 DEF Configuration
<1>9. d \in Placed
  BY <1>2, <1>6, <1>8 DEF Placed
<1>10. k = n => t = Append(s, e)
  <2> SUFFICES ASSUME k = n PROVE t = Append(s, e)
    OBVIOUS
  <2>1. front = s
    BY <1>2, <1>3, SubSeqFull
  <2>2. back = <<>>
    BY <1>4, EmptySeq
  <2>3. s \o <<e>> = Append(s, e) /\ Append(s, e) \in Seq(Entry)
    BY AppendIsConcat, AppendProperties
  <2>4. Append(s, e) \o <<>> = Append(s, e)
    BY <2>3, ConcatEmptySeq
  <2> QED BY <1>5, <2>1, <2>2, <2>3, <2>4
<1> QED BY <1>1, <1>2, <1>7, <1>8, <1>9, <1>10

\* The entries of an option that a lookup takes notice of.
Heeded(s, k) == {i \in DOMAIN s : s[i].key = k /\ s[i].action # "NoOp"}

\* What is found in a list of entries.
Found(s, k) == IF Heeded(s, k) = {} \/ s[Max(Heeded(s, k))].action = "Reset" THEN {}
               ELSE {s[Max(Heeded(s, k))]}

\* Config::lookup looks at nothing but the entries.
LEMMA LookupFinds ==
  ASSUME NEW c, NEW k
  PROVE  Lookup(c, k) = Found(c.entries, k)
<1>1. {i \in EntriesOf(c, k) : c.entries[i].action # "NoOp"} = Heeded(c.entries, k)
  BY DEF EntriesOf, Heeded
<1> QED BY <1>1 DEF Lookup, Found

\* An entry at the end prevails if it is one of the option, and decides nothing
\* otherwise.
LEMMA AppendedFound ==
  ASSUME NEW s \in Seq(Entry), NEW e \in Entry, NEW k
  PROVE  Found(Append(s, e), k) =
           IF e.key = k /\ e.action # "NoOp"
           THEN IF e.action = "Reset" THEN {} ELSE {e}
           ELSE Found(s, k)
<1>1. PICK t \in Seq(Entry) : t = Append(s, e)
  BY AppendProperties
<1>2. PICK n \in Nat : n = Len(s) /\ DOMAIN s = 1..n
  BY LenProperties
<1>3. DOMAIN t = 1..(n + 1) /\ t[n + 1] = e /\ \A i \in 1..n : t[i] = s[i]
  BY <1>1, <1>2, AppendProperties
<1>4. PICK H : H = Heeded(t, k)
  OBVIOUS
<1>5. CASE e.key = k /\ e.action # "NoOp"
  <2>1. n + 1 \in H /\ H \in SUBSET (1..(n + 1)) /\ H # {}
    BY <1>3, <1>4, <1>5 DEF Heeded
  <2>2. n + 1 \in Nat
    OBVIOUS
  <2>3. Max(H) \in H /\ \A y \in H : y <= Max(H)
    BY <2>1, <2>2, MaxOf
  <2>4. Max(H) = n + 1
    <3>1. PICK x : x = Max(H)
      OBVIOUS
    <3>2. x \in 1..(n + 1) /\ n + 1 <= x
      BY <2>1, <2>3, <3>1
    <3> QED BY <3>1, <3>2
  <2>5. Found(t, k) = IF e.action = "Reset" THEN {} ELSE {e}
    BY <1>3, <1>4, <2>1, <2>4 DEF Found
  <2> QED BY <1>1, <1>5, <2>5
<1>6. CASE ~(e.key = k /\ e.action # "NoOp")
  <2>1. n + 1 \notin DOMAIN s
    BY <1>2
  <2>2. H = Heeded(s, k)
    <3>1. \A i \in 1..(n + 1) : i \in H <=> i \in Heeded(s, k)
      <4> TAKE i \in 1..(n + 1)
      <4>1. CASE i = n + 1
        BY <1>3, <1>4, <1>6, <2>1, <4>1 DEF Heeded
      <4>2. CASE i # n + 1
        <5>1. i \in 1..n
          BY <4>2
        <5> QED BY <1>2, <1>3, <1>4, <5>1 DEF Heeded
      <4> QED BY <4>1, <4>2
    <3>2. H \subseteq 1..(n + 1) /\ Heeded(s, k) \subseteq 1..(n + 1)
      BY <1>2, <1>3, <1>4 DEF Heeded
    <3> QED BY <3>1, <3>2
  <2>3. CASE H = {}
    BY <1>1, <1>4, <1>6, <2>2, <2>3 DEF Found
  <2>4. CASE H # {}
    <3>1. H \in SUBSET (1..n)
      BY <1>2, <2>2 DEF Heeded
    <3>2. Max(H) \in 1..n
      BY <2>4, <3>1, MaxOf
    <3>3. t[Max(H)] = s[Max(H)]
      BY <1>3, <3>2
    <3> QED BY <1>1, <1>4, <1>6, <2>2, <3>3 DEF Found
  <2> QED BY <2>3, <2>4
<1> QED BY <1>5, <1>6

\* What is retrieved after an entry was put at the end.
LEMMA AppendedRetrieved ==
  ASSUME NEW c, NEW d, c.entries \in Seq(Entry), NEW e \in Entry,
         d.entries = Append(c.entries, e), NEW k
  PROVE  Retrieve(d, k) = IF e.key = k /\ e.action # "NoOp"
                          THEN IF e.action = "Reset" THEN Default(k) ELSE e.value
                          ELSE Retrieve(c, k)
<1>1. Lookup(d, k) = Found(d.entries, k) /\ Lookup(c, k) = Found(c.entries, k)
  BY LookupFinds
<1>2. Found(d.entries, k) =
        IF e.key = k /\ e.action # "NoOp"
        THEN IF e.action = "Reset" THEN {} ELSE {e}
        ELSE Found(c.entries, k)
  BY AppendedFound
<1>3. CASE e.key = k /\ e.action # "NoOp" /\ e.action # "Reset"
  <2>1. Lookup(d, k) = {e}
    BY <1>1, <1>2, <1>3
  <2>2. (CHOOSE x \in {e} : TRUE) = e
    OBVIOUS
  <2>3. Retrieve(d, k) = e.value
    BY <2>1, <2>2 DEF Retrieve
  <2> QED BY <1>3, <2>3
<1>4. CASE e.key = k /\ e.action # "NoOp" /\ e.action = "Reset"
  <2>1. Lookup(d, k) = {}
    BY <1>1, <1>2, <1>4
  <2>2. Retrieve(d, k) = Default(k)
    BY <2>1 DEF Retrieve
  <2> QED BY <1>4, <2>2
<1>5. CASE ~(e.key = k /\ e.action # "NoOp")
  <2>1. Lookup(d, k) = Lookup(c, k)
    BY <1>1, <1>2, <1>5
  <2>2. Retrieve(d, k) = Retrieve(c, k)
    BY <2>1 DEF Retrieve
  <2> QED BY <1>5, <2>2
<1> QED BY <1>3, <1>4, <1>5

\* In a committed configuration the options the speller follows have values that
\* its commits allow.
LEMMA DoneRetrieved ==
  ASSUME NEW a, NEW c \in Done(a)
  PROVE  /\ Retrieve(c, "run-together-limit") \in IntTexts
         /\ Retrieve(c, "ignore-case") \in {"true", "false"}
<1>1. c.entries \in Seq(Entry) /\ \A i \in 1..Len(c.entries) : Sound(c.entries[i])
  BY DEF Done, Clean, Placed, Configuration
<1>2. PICK n \in Nat : n = Len(c.entries) /\ DOMAIN c.entries = 1..n
  BY <1>1, LenProperties
<1>3. ASSUME NEW k
      PROVE  \/ Retrieve(c, k) = Default(k)
             \/ \E i \in 1..n : /\ c.entries[i].key = k
                                /\ c.entries[i].action \notin {"NoOp", "Reset"}
                                /\ Retrieve(c, k) = c.entries[i].value
  <2>1. PICK H : H = Heeded(c.entries, k)
    OBVIOUS
  <2>2. Lookup(c, k) = Found(c.entries, k)
    BY LookupFinds
  <2>3. CASE Lookup(c, k) = {}
    BY <2>3 DEF Retrieve
  <2>4. CASE Lookup(c, k) # {}
    <3>1. /\ H # {} /\ c.entries[Max(H)].action # "Reset"
          /\ Lookup(c, k) = {c.entries[Max(H)]}
      BY <2>1, <2>2, <2>4 DEF Found
    <3>2. H \in SUBSET (1..n)
      BY <1>2, <2>1 DEF Heeded
    <3>3. Max(H) \in H
      BY <3>1, <3>2, MaxOf
    <3>4. Max(H) \in 1..n /\ c.entries[Max(H)].key = k /\ c.entries[Max(H)].action # "NoOp"
      BY <1>2, <2>1, <3>3 DEF Heeded
    <3>5. (CHOOSE x \in {c.entries[Max(H)]} : TRUE) = c.entries[Max(H)]
      OBVIOUS
    <3>6. Retrieve(c, k) = c.entries[Max(H)].value
      BY <2>4, <3>1, <3>5 DEF Retrieve
    <3> QED BY <3>1, <3>4, <3>6
  <2> QED BY <2>3, <2>4
<1>4. ASSUME NEW k, NEW i \in 1..n, k \in {"run-together-limit", "ignore-case"},
             c.entries[i].key = k, c.entries[i].action \notin {"NoOp", "Reset"}
      PROVE  /\ c.entries[i].action = "Set"
             /\ k = "run-together-limit" => c.entries[i].value \in IntTexts
             /\ k = "ignore-case" => c.entries[i].value \in {"true", "false"}
  BY <1>1, <1>2, <1>4 DEF Sound, Legal, Lists
<1>5. Retrieve(c, "run-together-limit") \in IntTexts
  BY <1>3, <1>4 DEF Default, IntTexts
<1>6. Retrieve(c, "ignore-case") \in {"true", "false"}
  BY <1>3, <1>4 DEF Default
<1> QED BY <1>5, <1>6

\* The filters of a mode lead nowhere that a single entry of the option does not.
LEMMA ExpandKeeps ==
  ASSUME NEW G, NEW mode \in DOMAIN ModeFilters, NEW c,
         Insert(c, NewEntry("filter", "ListClear", "")) \in G,
         \A d \in G : \A f \in STRING : Insert(d, NewEntry("filter", "ListAdd", f)) \in G
  PROVE  SwitchFilters(c, mode) \in G
<1>1. PICK seq \in Seq(STRING), b \in G :
        seq = ModeFilters[mode] /\ b = Insert(c, NewEntry("filter", "ListClear", ""))
  BY ModesAssumption
<1>2. FilterOp(STRING, G) \in [STRING -> [G -> G]]
  BY DEF FilterOp
<1>3. AddFilters(b, seq) = Through(FilterOp(STRING, G), b, seq)
  BY ZenonT(30), <1>2, FilterLeads
<1>4. Through(FilterOp(STRING, G), b, seq) \in G
  BY <1>2, ThroughStays
<1> QED BY <1>1, <1>3, <1>4 DEF SwitchFilters

-----------------------------------------------------------------------------
(* Committing.                                                              *)

\* A sound entry at the end of the list leaves it sound.
LEMMA CleanInsert ==
  ASSUME NEW a \in BOOLEAN, NEW c \in Clean(a), NEW e \in Entry, Sound(e)
  PROVE  /\ Insert(c, e) \in Clean(a)
         /\ Insert(c, e).entries = Append(c.entries, e)
         /\ Insert(c, e).told = c.told
<1>1. c \in Placed /\ c \in Configuration /\ c.entries \in Seq(Entry)
      /\ c.insertPoint = Len(c.entries)
  BY DEF Clean, Placed, Configuration
<1>2. PICK d : d = Insert(c, e)
  OBVIOUS
<1>3. /\ d \in Placed /\ d.entries = Append(c.entries, e)
      /\ d = [c EXCEPT !.entries = d.entries, !.insertPoint = c.insertPoint + 1]
  BY <1>1, <1>2, Inserted
<1>4. /\ d.told = c.told /\ d.committed = c.committed /\ d.attached = c.attached
      /\ d.insertPoint = c.insertPoint + 1
  BY <1>1, <1>3 DEF Configuration
<1>5. PICK n \in Nat : n = Len(c.entries) /\ DOMAIN c.entries = 1..n
  BY <1>1, LenProperties
<1>6. /\ Len(d.entries) = n + 1 /\ d.entries[n + 1] = e
      /\ \A i \in 1..n : d.entries[i] = c.entries[i]
  BY <1>1, <1>3, <1>5, AppendProperties
<1>7. \A i \in 1..Len(d.entries) : Sound(d.entries[i])
  <2> TAKE i \in 1..Len(d.entries)
  <2>1. CASE i = n + 1
    BY <1>6, <2>1
  <2>2. CASE i # n + 1
    <3>1. i \in 1..n
      BY <1>6, <2>2
    <3> QED BY <1>5, <1>6, <3>1 DEF Clean
  <2> QED BY <2>1, <2>2
<1>8. d.insertPoint = Len(d.entries)
  BY <1>1, <1>4, <1>5, <1>6
<1>9. d \in Clean(a)
  BY <1>3, <1>4, <1>7, <1>8 DEF Clean
<1> QED BY <1>2, <1>3, <1>4, <1>9

\* Telling the speller changes nothing in the list.
LEMMA CleanTell ==
  ASSUME NEW a \in BOOLEAN, NEW c \in Clean(a), NEW k \in Followed, NEW v \in Told
  PROVE  /\ Tell(c, k, v) \in Clean(a)
         /\ Tell(c, k, v).entries = c.entries
         /\ a => Tell(c, k, v).told = [c.told EXCEPT ![k] = v]
<1>1. c \in Configuration /\ c.attached = a
  BY DEF Clean, Placed
<1>2. CASE ~a
  BY <1>1, <1>2 DEF Tell
<1>3. CASE a
  <2>1. PICK d : d = Tell(c, k, v)
    OBVIOUS
  <2>2. d = [c EXCEPT !.told = [c.told EXCEPT ![k] = v]]
    BY <1>1, <1>3, <2>1 DEF Tell
  <2>3. c.told \in [Followed -> Told]
    BY <1>1 DEF Configuration
  <2>4. [c.told EXCEPT ![k] = v] \in [Followed -> Told]
    BY <2>3
  <2>5. /\ d \in Configuration /\ d.told = [c.told EXCEPT ![k] = v]
        /\ d.entries = c.entries /\ d.insertPoint = c.insertPoint
        /\ d.committed = c.committed /\ d.attached = c.attached
    BY <1>1, <2>2, <2>4 DEF Configuration
  <2>6. d \in Clean(a)
    BY <2>5 DEF Clean, Placed
  <2> QED BY <2>1, <2>5, <2>6
<1> QED BY <1>2, <1>3

\* Whether the last operation failed is not looked at.
LEMMA FailedKeeps ==
  ASSUME NEW a \in BOOLEAN, NEW c \in Done(a), NEW b \in BOOLEAN
  PROVE  [c EXCEPT !.failed = b] \in Done(a)
<1>1. PICK d : d = [c EXCEPT !.failed = b]
  OBVIOUS
<1>2. c \in Configuration /\ c \in Clean(a) /\ c \in Placed
  BY DEF Done, Clean, Placed
<1>3. /\ d \in Configuration /\ d.entries = c.entries /\ d.insertPoint = c.insertPoint
      /\ d.committed = c.committed /\ d.attached = c.attached /\ d.told = c.told
  BY <1>1, <1>2 DEF Configuration
<1>4. d \in Clean(a)
  BY <1>2, <1>3 DEF Clean, Placed
<1>5. \A k : Retrieve(d, k) = Retrieve(c, k)
  <2> TAKE k
  <2>1. Lookup(d, k) = Lookup(c, k)
    BY <1>3, LookupFinds
  <2> QED BY <2>1 DEF Retrieve
<1>6. Follows(d)
  BY <1>3, <1>5 DEF Follows, Done
<1> QED BY <1>1, <1>4, <1>6 DEF Done

\* An entry of an option that the speller does not follow, or one that does nothing.
LEMMA DoneInsert ==
  ASSUME NEW a \in BOOLEAN, NEW c \in Done(a), NEW e \in Entry, Sound(e),
         e.key \notin Followed \/ e.action = "NoOp"
  PROVE  Insert(c, e) \in Done(a)
<1>1. PICK d : d = Insert(c, e)
  OBVIOUS
<1>2. c \in Clean(a) /\ c.entries \in Seq(Entry) /\ c.attached = a
  BY DEF Done, Clean, Placed, Configuration
<1>3. d \in Clean(a) /\ d.entries = Append(c.entries, e) /\ d.told = c.told
  BY <1>1, <1>2, CleanInsert
<1>4. \A k \in Followed : Retrieve(d, k) = Retrieve(c, k)
  <2> TAKE k \in Followed
  <2>1. ~(e.key = k /\ e.action # "NoOp")
    OBVIOUS
  <2> QED BY <1>2, <1>3, <2>1, AppendedRetrieved
<1>5. d.attached = a
  BY <1>3 DEF Clean
<1>6. Follows(d)
  BY <1>2, <1>3, <1>4, <1>5 DEF Follows, Done, Followed
<1> QED BY <1>1, <1>3, <1>6 DEF Done

\* The entries a filter mode adds.
LEMMA ListInsert ==
  ASSUME NEW a \in BOOLEAN, NEW c \in Done(a), NEW v \in Texts,
         NEW action \in {"ListAdd", "ListClear"}
  PROVE  Insert(c, NewEntry("filter", action, v)) \in Done(a)
<1>1. PICK e : e = NewEntry("filter", action, v)
  OBVIOUS
<1>2. e \in Entry /\ e.key = "filter"
  <2>1. "filter" \in Texts /\ action \in Texts /\ v \in Texts
    BY DEF Texts
  <2> QED BY <1>1, <2>1 DEF NewEntry, Entry
<1>3. Sound(e)
  BY <1>2 DEF Sound, Legal, Keys, Lists
<1> QED BY <1>1, <1>2, <1>3, DoneInsert DEF Followed

\* A list whose entry i was changed.
WithAction(s, i, x) == [s EXCEPT ![i].action = x]
WithValue(s, i, x) == [s EXCEPT ![i].value = x]

\* Changing the entry that was put at the end last.
LEMMA AmendLast ==
  ASSUME NEW s \in Seq(Entry), NEW e \in Entry, NEW x
  PROVE  /\ WithAction(Append(s, e), Len(s) + 1, x) = Append(s, [e EXCEPT !.action = x])
         /\ WithValue(Append(s, e), Len(s) + 1, x) = Append(s, [e EXCEPT !.value = x])
<1>1. PICK n \in Nat : n = Len(s) /\ DOMAIN s = 1..n
  BY LenProperties
<1>2. \A y : Append(s, y) = [i \in 1..(n + 1) |-> IF i = n + 1 THEN y ELSE s[i]]
  <2> TAKE y
  <2>1. PICK S : S = Entry \cup {y}
    OBVIOUS
  <2>2. s \in Seq(S) /\ y \in S
    BY <1>1, <2>1
  <2>3. PICK t : t = Append(s, y)
    OBVIOUS
  <2>4. /\ t \in Seq(S) /\ Len(t) = n + 1 /\ t[n + 1] = y
        /\ \A i \in 1..n : t[i] = s[i]
    BY <1>1, <2>2, <2>3, AppendProperties
  <2>5. t \in [1..(n + 1) -> S]
    BY <2>4
  <2>6. \A i \in 1..(n + 1) : t[i] = IF i = n + 1 THEN y ELSE s[i]
    <3> TAKE i \in 1..(n + 1)
    <3>1. i = n + 1 \/ i \in 1..n
      BY <1>1
    <3> QED BY <2>4, <3>1
  <2> QED BY <2>3, <2>5, <2>6
<1>3. Append(s, e)[n + 1] = e
  BY <1>1
<1> QED BY <1>1, <1>2, <1>3 DEF WithAction, WithValue

\* The text of the option is what the speller is told of it, and it is told so.
LEMMA TellFollows ==
  ASSUME NEW a \in BOOLEAN, NEW c \in Clean(a), NEW k \in Followed, NEW v \in Told,
         a => Agrees(k, v, Retrieve(c, k)),
         a => \A j \in Followed \ {k} : Agrees(j, c.told[j], Retrieve(c, j))
  PROVE  Tell(c, k, v) \in Done(a)
<1>1. PICK d : d = Tell(c, k, v)
  OBVIOUS
<1>2. d \in Clean(a) /\ d.entries = c.entries /\ (a => d.told = [c.told EXCEPT ![k] = v])
  BY <1>1, CleanTell
<1>3. d.attached = a /\ c.told \in [Followed -> Told]
  BY <1>2 DEF Clean, Placed, Configuration
<1>4. \A j : Retrieve(d, j) = Retrieve(c, j)
  <2> TAKE j
  <2>1. Lookup(d, j) = Lookup(c, j)
    BY <1>2, LookupFinds
  <2> QED BY <2>1 DEF Retrieve
<1>5. ASSUME a, NEW j \in Followed PROVE Agrees(j, d.told[j], Retrieve(d, j))
  <2>1. CASE j = k
    <3>1. d.told[j] = v
      BY <1>2, <1>3, <1>5, <2>1
    <3> QED BY <1>4, <1>5, <2>1, <3>1
  <2>2. CASE j # k
    <3>1. d.told[j] = c.told[j]
      BY <1>2, <1>3, <1>5, <2>2
    <3> QED BY <1>4, <1>5, <2>2, <3>1
  <2> QED BY <2>1, <2>2
<1>6. Follows(d)
  BY <1>3, <1>5 DEF Follows
<1> QED BY <1>1, <1>2, <1>6 DEF Done

\* An entry that is refused stays in the list and does nothing.
LEMMA RefusedIs ==
  ASSUME NEW a \in BOOLEAN, NEW c \in Done(a), NEW e \in Entry, ~Legal(e),
         NEW f, f = [e EXCEPT !.action = "NoOp"]
  PROVE  /\ f \in Entry /\ f.action = "NoOp" /\ Sound(f)
         /\ Commit(Insert(c, e)) = [Insert(c, f) EXCEPT !.failed = TRUE]
<1>1. PICK s \in Seq(Entry), n \in Nat : s = c.entries /\ n = Len(s) /\ c.insertPoint = n
  BY DEF Done, Clean, Placed, Configuration
<1>3. f \in Entry /\ f.action = "NoOp" /\ Sound(f)
  <2>1. "NoOp" \in Texts
    BY DEF Texts
  <2> QED BY <2>1 DEF Entry, Sound
<1>4. PICK d, b : d = Insert(c, e) /\ b = Insert(c, f)
  OBVIOUS
<1>5. c \in Placed /\ c \in Configuration
  BY DEF Done, Clean, Placed
<1>6. /\ d = [c EXCEPT !.entries = Append(s, e), !.insertPoint = n + 1]
      /\ b = [c EXCEPT !.entries = Append(s, f), !.insertPoint = n + 1]
  <2>1. /\ Insert(c, e) = [c EXCEPT !.entries = Insert(c, e).entries,
                                    !.insertPoint = c.insertPoint + 1]
        /\ Insert(c, e).entries = Append(c.entries, e)
    BY <1>1, <1>5, Inserted
  <2>2. /\ Insert(c, f) = [c EXCEPT !.entries = Insert(c, f).entries,
                                    !.insertPoint = c.insertPoint + 1]
        /\ Insert(c, f).entries = Append(c.entries, f)
    BY <1>1, <1>3, <1>5, Inserted
  <2> QED BY <1>1, <1>4, <2>1, <2>2
<1>7. d.entries = Append(s, e) /\ d.insertPoint = n + 1
  BY <1>5, <1>6 DEF Configuration
<1>8. d.entries[d.insertPoint] = e
  BY <1>1, <1>7, AppendProperties
<1>9. Commit(d) = [d EXCEPT !.entries[d.insertPoint].action = "NoOp", !.failed = TRUE]
  BY <1>8 DEF Commit
<1>10. [d.entries EXCEPT ![d.insertPoint].action = "NoOp"] = Append(s, f)
  <2>1. WithAction(Append(s, e), Len(s) + 1, "NoOp") = Append(s, [e EXCEPT !.action = "NoOp"])
    BY AmendLast
  <2>2. d.entries = Append(s, e) /\ d.insertPoint = Len(s) + 1
    BY <1>1, <1>7
  <2>3. [d.entries EXCEPT ![d.insertPoint].action = "NoOp"]
          = WithAction(d.entries, d.insertPoint, "NoOp")
    BY DEF WithAction
  <2> QED BY <2>1, <2>2, <2>3
<1>11. Commit(d) = [d EXCEPT !.entries = Append(s, f), !.failed = TRUE]
  BY <1>9, <1>10
<1>12. [d EXCEPT !.entries = Append(s, f), !.failed = TRUE] = [b EXCEPT !.failed = TRUE]
  BY <1>5, <1>6 DEF Configuration
<1> QED BY <1>3, <1>4, <1>11, <1>12

LEMMA RefusedKeeps ==
  ASSUME NEW a \in BOOLEAN, NEW c \in Done(a), NEW e \in Entry, ~Legal(e)
  PROVE  Commit(Insert(c, e)) \in Done(a)
<1>1. PICK f : f = [e EXCEPT !.action = "NoOp"]
  OBVIOUS
<1>2. /\ f \in Entry /\ f.action = "NoOp" /\ Sound(f)
      /\ Commit(Insert(c, e)) = [Insert(c, f) EXCEPT !.failed = TRUE]
  BY <1>1, RefusedIs
<1>3. Insert(c, f) \in Done(a)
  BY <1>2, DoneInsert
<1> QED BY <1>2, <1>3, FailedKeeps

\* An entry of the option mode is followed by those of its filters.
LEMMA ModeKeeps ==
  ASSUME NEW a \in BOOLEAN, NEW c \in Done(a), NEW m
  PROVE  NotifyMode(c, m) \in Done(a)
<1>1. CASE m \in DOMAIN ModeFilters
  <2>1. PICK G : G = Done(a)
    OBVIOUS
  <2>2. Insert(c, NewEntry("filter", "ListClear", "")) \in G
    BY <2>1, ListInsert DEF Texts
  <2>3. \A d \in G : \A f \in STRING : Insert(d, NewEntry("filter", "ListAdd", f)) \in G
    BY <2>1, ListInsert DEF Texts
  <2>4. SwitchFilters(c, m) \in G
    BY <1>1, <2>2, <2>3, ExpandKeeps
  <2>5. (SwitchFilters(c, m).failed \/ m \in BrokenModes) \in BOOLEAN
    OBVIOUS
  <2>6. Expand(c, m) \in Done(a)
    BY <2>1, <2>4, <2>5, FailedKeeps DEF Expand
  <2> QED BY <1>1, <2>6 DEF NotifyMode
<1>2. CASE m \notin DOMAIN ModeFilters
  BY <1>2, FailedKeeps DEF NotifyMode
<1> QED BY <1>1, <1>2

\* An entry of the limit on words run together: the speller takes its value, or puts
\* the largest behind it.
LEMMA LimitIs ==
  ASSUME NEW a \in BOOLEAN, NEW c \in Done(a), NEW e \in Entry, Legal(e),
         e.key = "run-together-limit", NEW d, d = Insert(c, e),
         NEW text, text = IF e.action = "Reset" THEN Default(e.key) ELSE e.value
  PROVE  /\ e.action \in {"Set", "Reset"} /\ Sound(e) /\ text \in IntTexts
         /\ d \in Clean(a) /\ d.entries = Append(c.entries, e) /\ d.told = c.told
         /\ Commit(d) = NotifyLimit(d, text)
<1>2. e \in Entry /\ e.action \in {"Set", "Reset"} /\ Sound(e)
  BY DEF Legal, Lists, Sound
<1>3. text \in IntTexts
  BY <1>2 DEF Legal, Default, IntTexts
<1>5. c \in Clean(a) /\ c.attached = a /\ c.entries \in Seq(Entry)
      /\ c.insertPoint = Len(c.entries)
  BY DEF Done, Clean, Placed, Configuration
<1>6. d \in Clean(a) /\ d.entries = Append(c.entries, e) /\ d.told = c.told
  BY <1>2, <1>5, CleanInsert
<1>7. d.insertPoint = Len(d.entries)
  BY <1>6 DEF Clean, Placed, Configuration
<1>8. d.entries[d.insertPoint] = e
  BY <1>5, <1>6, <1>7, <1>2, AppendProperties
<1>9. Commit(d) = NotifyLimit(d, text)
  BY <1>8 DEF Commit
<1> QED BY <1>2, <1>3, <1>6, <1>9

LEMMA LimitKeeps ==
  ASSUME NEW a \in BOOLEAN, NEW c \in Done(a), NEW e \in Entry, Legal(e),
         e.key = "run-together-limit"
  PROVE  Commit(Insert(c, e)) \in Done(a)
<1>1. PICK text : text = IF e.action = "Reset" THEN Default(e.key) ELSE e.value
  OBVIOUS
<1>4. PICK d : d = Insert(c, e)
  OBVIOUS
<1>2. /\ e \in Entry /\ e.action \in {"Set", "Reset"} /\ Sound(e) /\ text \in IntTexts
      /\ d \in Clean(a) /\ d.entries = Append(c.entries, e) /\ d.told = c.told
      /\ Commit(d) = NotifyLimit(d, text)
  BY <1>1, <1>4, LimitIs
<1>3. text \in IntTexts
  BY <1>2
<1>5. c \in Clean(a) /\ c.attached = a /\ c.entries \in Seq(Entry)
  BY DEF Done, Clean, Placed, Configuration
<1>6. d \in Clean(a) /\ d.entries = Append(c.entries, e) /\ d.told = c.told
  BY <1>2
<1>7. d.attached = a /\ d.entries \in Seq(Entry)
  BY <1>6 DEF Clean, Placed, Configuration
<1>9. Commit(d) = NotifyLimit(d, text)
  BY <1>2
<1>10. /\ Retrieve(d, "run-together-limit") = text
       /\ Retrieve(d, "ignore-case") = Retrieve(c, "ignore-case")
  BY SMTT(20), <1>1, <1>2, <1>5, <1>6, AppendedRetrieved
<1>11. a => Agrees("ignore-case", d.told["ignore-case"], Retrieve(d, "ignore-case"))
  BY <1>5, <1>6, <1>10 DEF Done, Follows, Followed
<1>12. /\ "run-together-limit" \in Followed
       /\ Followed \ {"run-together-limit"} = {"ignore-case"}
  BY DEF Followed
<1>13. CASE ~(a /\ Scanned[text] > LimitMax)
  <2>1. Scanned[text] \in Told
    BY <1>3 DEF Scanned, IntTexts, Told
  <2>2. a => Agrees("run-together-limit", Scanned[text], Retrieve(d, "run-together-limit"))
    BY <1>3, <1>10, <1>13 DEF Agrees, Atoi, Scanned, IntTexts, LimitMax
  <2>3. Tell(d, "run-together-limit", Scanned[text]) \in Done(a)
    BY <1>6, <1>11, <1>12, <2>1, <2>2, TellFollows
  <2> QED BY <1>4, <1>7, <1>9, <1>13, <2>3 DEF NotifyLimit
<1>14. CASE a /\ Scanned[text] > LimitMax
  <2>1. PICK f : f = NewEntry("run-together-limit", "Set", "8")
    OBVIOUS
  <2>2. f \in Entry /\ f.key = "run-together-limit" /\ f.action = "Set" /\ f.value = "8"
    BY <2>1 DEF NewEntry, Entry, Texts
  <2>3. Sound(f)
    BY <2>2 DEF Sound, Legal, Keys, Scalars, Lists, IntTexts
  <2>4. PICK b : b = Insert(d, f)
    OBVIOUS
  <2>5. b \in Clean(a) /\ b.entries = Append(d.entries, f) /\ b.told = d.told
    BY <1>6, <2>2, <2>3, <2>4, CleanInsert
  <2>6. /\ Retrieve(b, "run-together-limit") = "8"
        /\ Retrieve(b, "ignore-case") = Retrieve(d, "ignore-case")
    <3>1. \A k : Retrieve(b, k) = IF f.key = k /\ f.action # "NoOp"
                                  THEN IF f.action = "Reset" THEN Default(k) ELSE f.value
                                  ELSE Retrieve(d, k)
      <4>1. d.entries \in Seq(Entry) /\ f \in Entry /\ b.entries = Append(d.entries, f)
        BY <1>7, <2>2, <2>5
      <4> QED BY <4>1, AppendedRetrieved
    <3>2. f.key = "run-together-limit" /\ f.action = "Set" /\ f.value = "8"
      BY <2>2
    <3> QED BY <3>1, <3>2
  <2>7. LimitMax \in Told
    BY DEF LimitMax, Told
  <2>8. Agrees("run-together-limit", LimitMax, Retrieve(b, "run-together-limit"))
    BY <2>6 DEF Agrees, Atoi, Scanned, IntTexts, LimitMax
  <2>9. Agrees("ignore-case", b.told["ignore-case"], Retrieve(b, "ignore-case"))
    BY <1>11, <1>14, <2>5, <2>6
  <2>10. Tell(b, "run-together-limit", LimitMax) \in Done(a)
    BY <1>12, <2>5, <2>7, <2>8, <2>9, TellFollows
  <2> QED BY <1>4, <1>7, <1>9, <1>14, <2>1, <2>4, <2>10 DEF NotifyLimit
<1> QED BY <1>13, <1>14

\* What an entry is committed with, and an entry that says so.
TextOf(e) == IF e.action = "Reset" THEN Default(e.key) ELSE e.value
Spelt(e) == [e EXCEPT !.value = IF TextOf(e) = "" THEN "true" ELSE e.value]

\* An entry of the option ignore-case: a missing value is understood to be true, by
\* the list and by the speller.
LEMMA CaseIs ==
  ASSUME NEW a \in BOOLEAN, NEW c \in Done(a), NEW e \in Entry, Legal(e),
         e.key = "ignore-case"
  PROVE  /\ Spelt(e) \in Entry /\ Spelt(e).key = "ignore-case" /\ Spelt(e).action = e.action
         /\ Spelt(e).value = IF TextOf(e) = "" THEN "true" ELSE e.value
         /\ e.action \in {"Set", "Reset"} /\ Sound(Spelt(e))
         /\ Insert(c, Spelt(e)) \in Clean(a)
         /\ Insert(c, Spelt(e)).entries = Append(c.entries, Spelt(e))
         /\ Insert(c, Spelt(e)).told = c.told
         /\ Commit(Insert(c, e)) = NotifyCase(Insert(c, Spelt(e)), TextOf(e))
<1>1. PICK text : text = TextOf(e) /\ text = IF e.action = "Reset" THEN Default(e.key) ELSE e.value
  BY DEF TextOf
<1>2. e.action \in {"Set", "Reset"}
  BY DEF Legal, Lists
<1>3. PICK value : value = IF text = "" THEN "true" ELSE e.value
  OBVIOUS
<1>4. PICK f : f = [e EXCEPT !.value = value]
  OBVIOUS
<1>s. f = Spelt(e)
  BY <1>1, <1>3, <1>4 DEF Spelt
<1>5. /\ f \in Entry /\ f.key = "ignore-case" /\ f.action = e.action /\ f.value = value
      /\ Sound(f)
  <2>1. value \in Texts
    BY <1>3 DEF Entry, Texts
  <2>2. f \in Entry /\ f.key = "ignore-case" /\ f.action = e.action /\ f.value = value
    BY <1>4, <2>1 DEF Entry
  <2>3. f.action = "Set" => value \in {"true", "false"}
    BY <1>1, <1>2, <1>3, <2>2 DEF Legal
  <2> QED BY <1>2, <2>2, <2>3 DEF Sound, Legal, Keys, Scalars, Lists
<1>6. PICK s \in Seq(Entry), n \in Nat : s = c.entries /\ n = Len(s) /\ c.insertPoint = n
  BY DEF Done, Clean, Placed, Configuration
<1>7. PICK d, b : d = Insert(c, e) /\ b = Insert(c, f)
  OBVIOUS
<1>8. c \in Placed /\ c \in Configuration /\ c \in Clean(a) /\ c.attached = a
  BY DEF Done, Clean, Placed
<1>9. /\ d = [c EXCEPT !.entries = Append(s, e), !.insertPoint = n + 1]
      /\ b = [c EXCEPT !.entries = Append(s, f), !.insertPoint = n + 1]
  <2>1. /\ Insert(c, e) = [c EXCEPT !.entries = Insert(c, e).entries,
                                    !.insertPoint = c.insertPoint + 1]
        /\ Insert(c, e).entries = Append(c.entries, e)
    BY <1>6, <1>8, Inserted
  <2>2. /\ Insert(c, f) = [c EXCEPT !.entries = Insert(c, f).entries,
                                    !.insertPoint = c.insertPoint + 1]
        /\ Insert(c, f).entries = Append(c.entries, f)
    BY <1>5, <1>6, <1>8, Inserted
  <2> QED BY <1>6, <1>7, <2>1, <2>2
<1>10. d.entries = Append(s, e) /\ d.insertPoint = n + 1
  BY <1>8, <1>9 DEF Configuration
<1>11. d.entries[d.insertPoint] = e
  BY <1>6, <1>10, AppendProperties
<1>12. Commit(d) = NotifyCase([d EXCEPT !.entries[d.insertPoint].value = value], text)
  BY <1>1, <1>3, <1>11 DEF Commit
<1>13. [d EXCEPT !.entries[d.insertPoint].value = value] = b
  <2>1. WithValue(Append(s, e), Len(s) + 1, value) = Append(s, f)
    BY <1>4, AmendLast
  <2>2. [d EXCEPT !.entries[d.insertPoint].value = value]
          = [d EXCEPT !.entries = WithValue(d.entries, d.insertPoint, value)]
    BY DEF WithValue
  <2>3. WithValue(d.entries, d.insertPoint, value) = Append(s, f)
    BY <1>6, <1>10, <2>1
  <2>4. [d EXCEPT !.entries = Append(s, f)] = b
    BY <1>8, <1>9 DEF Configuration
  <2> QED BY <2>2, <2>3, <2>4
<1>14. b \in Clean(a) /\ b.entries = Append(c.entries, f) /\ b.told = c.told
  BY <1>5, <1>7, <1>8, CleanInsert
<1> QED BY <1>1, <1>2, <1>3, <1>s, <1>5, <1>7, <1>12, <1>13, <1>14

LEMMA CaseKeeps ==
  ASSUME NEW a \in BOOLEAN, NEW c \in Done(a), NEW e \in Entry, Legal(e),
         e.key = "ignore-case"
  PROVE  Commit(Insert(c, e)) \in Done(a)
<1>1. PICK text : text = TextOf(e) /\ text = IF e.action = "Reset" THEN Default(e.key) ELSE e.value
  BY DEF TextOf
<1>3. PICK value : value = IF text = "" THEN "true" ELSE e.value
  OBVIOUS
<1>4. PICK f, b : f = Spelt(e) /\ b = Insert(c, f)
  OBVIOUS
<1>5. /\ f \in Entry /\ f.key = "ignore-case" /\ f.action = e.action /\ f.value = value
      /\ e.action \in {"Set", "Reset"} /\ Sound(f)
      /\ b \in Clean(a) /\ b.entries = Append(c.entries, f) /\ b.told = c.told
      /\ Commit(Insert(c, e)) = NotifyCase(b, text)
  <2>1. /\ Spelt(e) \in Entry /\ Spelt(e).key = "ignore-case" /\ Spelt(e).action = e.action
        /\ Spelt(e).value = IF TextOf(e) = "" THEN "true" ELSE e.value
        /\ e.action \in {"Set", "Reset"} /\ Sound(Spelt(e))
        /\ Insert(c, Spelt(e)) \in Clean(a)
        /\ Insert(c, Spelt(e)).entries = Append(c.entries, Spelt(e))
        /\ Insert(c, Spelt(e)).told = c.told
        /\ Commit(Insert(c, e)) = NotifyCase(Insert(c, Spelt(e)), TextOf(e))
    BY CaseIs
  <2> QED BY <1>1, <1>3, <1>4, <2>1
<1>6. c.entries \in Seq(Entry) /\ c.attached = a
  BY DEF Done, Clean, Placed, Configuration
<1>15. /\ Retrieve(b, "ignore-case") = IF f.action = "Reset" THEN Default("ignore-case")
                                       ELSE f.value
       /\ Retrieve(b, "run-together-limit") = Retrieve(c, "run-together-limit")
  BY <1>5, <1>6, AppendedRetrieved
<1>16. Agrees("ignore-case", text # "false", Retrieve(b, "ignore-case"))
  BY <1>1, <1>3, <1>5, <1>15 DEF Agrees, Legal, Default
<1>17. a => Agrees("run-together-limit", b.told["run-together-limit"],
                   Retrieve(b, "run-together-limit"))
  BY <1>5, <1>6, <1>15 DEF Done, Follows, Followed
<1>18. /\ "ignore-case" \in Followed
       /\ Followed \ {"ignore-case"} = {"run-together-limit"}
       /\ (text # "false") \in Told
  BY DEF Followed, Told
<1>19. Tell(b, "ignore-case", text # "false") \in Done(a)
  BY <1>5, <1>16, <1>17, <1>18, TellFollows
<1> QED BY <1>5, <1>19 DEF NotifyCase

\* Committing an entry keeps the list sound and the speller told.
LEMMA CommitKeeps ==
  ASSUME NEW a \in BOOLEAN, NEW c \in Done(a), NEW e \in Entry
  PROVE  Commit(Insert(c, e)) \in Done(a)
<1>1. CASE ~Legal(e)
  BY <1>1, RefusedKeeps
<1>2. CASE Legal(e) /\ e.key = "run-together-limit"
  BY <1>2, LimitKeeps
<1>3. CASE Legal(e) /\ e.key = "ignore-case"
  BY <1>3, CaseKeeps
<1>4. CASE Legal(e) /\ e.key \notin Followed
  <2>1. PICK d : d = Insert(c, e)
    OBVIOUS
  <2>2. Sound(e)
    BY <1>4 DEF Sound, Followed
  <2>3. d \in Done(a)
    BY <1>4, <2>1, <2>2, DoneInsert
  <2>4. d.entries[d.insertPoint] = e
    <3>1. c \in Clean(a) /\ c.entries \in Seq(Entry)
      BY DEF Done, Clean, Placed, Configuration
    <3>2. d.entries = Append(c.entries, e) /\ d.insertPoint = Len(d.entries)
      <4>1. d.entries = Append(c.entries, e)
        BY <2>1, <2>2, <3>1, CleanInsert
      <4> QED BY <2>3, <4>1 DEF Done, Clean
    <3> QED BY <3>1, <3>2, AppendProperties
  <2>5. CASE e.key = "mode"
    <3>1. Commit(d) = NotifyMode(d, IF e.action = "Reset" THEN Default(e.key) ELSE e.value)
      BY <1>4, <2>4, <2>5 DEF Commit
    <3> QED BY <2>1, <2>3, <3>1, ModeKeeps
  <2>6. CASE e.key # "mode"
    <3>1. Commit(d) = d
      BY <1>4, <2>4, <2>6 DEF Commit, Followed
    <3> QED BY <2>1, <2>3, <3>1
  <2> QED BY <2>5, <2>6
<1> QED BY <1>1, <1>2, <1>3, <1>4 DEF Followed

-----------------------------------------------------------------------------
(* The operations.                                                          *)

\* The configurations of G are those of G again after any entry was set.
Keeps(G) ==
  \A c \in G : /\ \A e \in Entry : InsertAndCommit(c, e) \in G
              /\ \A b \in BOOLEAN : [c EXCEPT !.failed = b] \in G
              /\ c.failed \in BOOLEAN

\* Committed configurations stay that way.
LEMMA DoneKeeps ==
  ASSUME NEW a \in BOOLEAN
  PROVE  Keeps(Done(a))
<1> SUFFICES ASSUME NEW c \in Done(a)
             PROVE  /\ \A e \in Entry : InsertAndCommit(c, e) \in Done(a)
                    /\ \A b \in BOOLEAN : [c EXCEPT !.failed = b] \in Done(a)
                    /\ c.failed \in BOOLEAN
  BY DEF Keeps
<1>1. c \in Placed /\ c \in Configuration /\ c.committed
  BY DEF Done, Clean, Placed
<1>2. ASSUME NEW e \in Entry PROVE InsertAndCommit(c, e) \in Done(a)
  <2>1. PICK d : d = Insert(c, e)
    OBVIOUS
  <2>2. d = [c EXCEPT !.entries = d.entries, !.insertPoint = c.insertPoint + 1]
    BY <1>1, <2>1, Inserted
  <2>3. d.committed
    BY <1>1, <2>2 DEF Configuration
  <2>4. Commit(d) \in Done(a)
    BY <2>1, CommitKeeps
  <2> QED BY <2>1, <2>3, <2>4 DEF InsertAndCommit
<1> QED BY <1>1, <1>2, FailedKeeps DEF Configuration

\* So do those that are being collected: nothing is committed.
LEMMA OpenKeeps == Keeps(Open)
<1> SUFFICES ASSUME NEW c \in Open
             PROVE  /\ \A e \in Entry : InsertAndCommit(c, e) \in Open
                    /\ \A b \in BOOLEAN : [c EXCEPT !.failed = b] \in Open
                    /\ c.failed \in BOOLEAN
  BY DEF Keeps
<1>1. c \in Placed /\ c \in Configuration /\ ~c.committed /\ ~c.attached
  BY DEF Open, Placed
<1>2. ASSUME NEW e \in Entry PROVE InsertAndCommit(c, e) \in Open
  <2>1. PICK d : d = Insert(c, e)
    OBVIOUS
  <2>2. /\ d \in Placed
        /\ d = [c EXCEPT !.entries = d.entries, !.insertPoint = c.insertPoint + 1]
    BY <1>1, <2>1, Inserted
  <2>3. ~d.committed /\ ~d.attached
    BY <1>1, <2>2 DEF Configuration
  <2> QED BY <2>1, <2>2, <2>3 DEF InsertAndCommit, Open
<1>3. ASSUME NEW b \in BOOLEAN PROVE [c EXCEPT !.failed = b] \in Open
  BY <1>1 DEF Open, Placed, Configuration
<1> QED BY <1>1, <1>2, <1>3 DEF Configuration

\* What may be requested.
Requests ==
  [prefix : OptionPrefixes, key : Texts, value : Texts]
  \cup [prefix : {"lset"}, key : Texts, value : Seq(STRING)]

\* lset: clear, then an entry for each item.
LEMMA SetAllKeeps ==
  ASSUME NEW G, Keeps(G), NEW c \in G, NEW r \in Requests, r.prefix = "lset"
  PROVE  SetAll(c, r) \in G
<1>1. PICK T : T = STRING
  OBVIOUS
<1>2. PICK seq \in Seq(T), k \in Texts : seq = r.value /\ k = r.key
  BY <1>1 DEF Requests, OptionPrefixes
<1>3. \A v \in T : NewEntry(k, "ListAdd", v) \in Entry
  BY <1>1 DEF NewEntry, Entry, Texts
<1>4. PICK b \in G : b = InsertAndCommit(c, NewEntry(k, "ListClear", ""))
  <2>1. NewEntry(k, "ListClear", "") \in Entry
    BY DEF NewEntry, Entry, Texts
  <2> QED BY <2>1 DEF Keeps
<1>5. ItemOp(T, G, k) \in [T -> [G -> G]]
  BY <1>3 DEF ItemOp, Keeps
<1>6. AddItems(b, k, seq) = Through(ItemOp(T, G, k), b, seq)
  BY <1>5, ItemLeads
<1>7. Through(ItemOp(T, G, k), b, seq) \in G
  BY <1>5, ThroughStays
<1> QED BY <1>2, <1>4, <1>6, <1>7 DEF SetAll

\* Setting an option, whatever the outcome.
LEMMA SetEntryKeeps ==
  ASSUME NEW G, Keeps(G), NEW c \in G, NEW r \in Requests
  PROVE  SetEntry(c, r) \in G
<1>1. CASE r.prefix = "lset"
  BY <1>1, SetAllKeeps DEF SetEntry
<1>2. CASE r.prefix # "lset" /\ r.prefix \in NoValuePrefixes /\ r.value # ""
  BY <1>2 DEF SetEntry, SetOne, Keeps
<1>3. CASE r.prefix # "lset" /\ ~(r.prefix \in NoValuePrefixes /\ r.value # "")
  <2>1. r.prefix \in OptionPrefixes /\ r.key \in Texts /\ r.value \in Texts
    BY <1>3 DEF Requests
  <2>2. Action(r.prefix) \in Texts
    BY <2>1 DEF Action, OptionPrefixes, Texts
  <2>3. ValueOf(r) \in {"true", "false", r.value} /\ ValueOf(r) \in Texts
    BY <2>1 DEF ValueOf, Texts
  <2>4. NewEntry(r.key, Action(r.prefix), ValueOf(r)) \in Entry
    BY <2>1, <2>2, <2>3 DEF NewEntry, Entry, Requests
  <2> QED BY <1>3, <2>4 DEF SetEntry, SetOne, Keeps
<1> QED BY <1>1, <1>2, <1>3

\* The same with the outcome of the operation before forgotten.
LEMMA SetKeeps ==
  ASSUME NEW G, Keeps(G), NEW c \in G, NEW r \in Requests
  PROVE  Set(c, r) \in G
<1>1. [c EXCEPT !.failed = FALSE] \in G
  BY DEF Keeps
<1> QED BY <1>1, SetEntryKeeps DEF Set

\* A configuration without entries is a committed one.
LEMMA EmptyDone ==
  ASSUME NEW c \in Placed, ~c.attached
  PROVE  [c EXCEPT !.entries = <<>>, !.insertPoint = 0, !.committed = TRUE] \in Done(FALSE)
<1>1. PICK d : d = [c EXCEPT !.entries = <<>>, !.insertPoint = 0, !.committed = TRUE]
  OBVIOUS
<1>2. <<>> \in Seq(Entry) /\ Len(<<>>) = 0
  OBVIOUS
<1>3. d \in Configuration /\ d.entries = <<>> /\ d.insertPoint = 0 /\ d.committed
      /\ d.attached = FALSE
  BY <1>1, <1>2 DEF Placed, Configuration
<1>4. d \in Placed
  BY <1>2, <1>3 DEF Placed
<1>5. \A i \in 1..Len(d.entries) : Sound(d.entries[i])
  BY <1>2, <1>3
<1>6. d \in Clean(FALSE)
  BY <1>2, <1>3, <1>4, <1>5 DEF Clean
<1> QED BY <1>1, <1>3, <1>6 DEF Done, Follows

\* Committing an entry again.
LEMMA RecommitKeeps ==
  ASSUME NEW d \in Done(FALSE), NEW e \in Entry
  PROVE  Recommit(d, e) \in Done(FALSE)
<1>1. d.failed \in BOOLEAN /\ [d EXCEPT !.failed = FALSE] \in Done(FALSE)
  BY DoneKeeps DEF Keeps
<1>2. PICK b : b = Commit(Insert([d EXCEPT !.failed = FALSE], e))
  OBVIOUS
<1>3. b \in Done(FALSE)
  BY <1>1, <1>2, CommitKeeps
<1>4. b.failed \in BOOLEAN
  BY <1>3, DoneKeeps DEF Keeps
<1>5. (b.failed \/ d.failed) \in BOOLEAN
  BY <1>1, <1>4
<1>6. [b EXCEPT !.failed = b.failed \/ d.failed] \in Done(FALSE)
  BY <1>3, <1>5, FailedKeeps
<1> QED BY <1>2, <1>6 DEF Recommit

\* Committing everything again makes a sound list of any.
LEMMA CommitAllKeeps ==
  ASSUME NEW c \in Placed, ~c.attached
  PROVE  CommitAll(c) \in Done(FALSE)
<1>1. PICK seq \in Seq(Entry) : seq = c.entries
  BY DEF Placed, Configuration
<1>2. PICK G : G = Done(FALSE)
  OBVIOUS
<1>3. PICK b \in G : b = [c EXCEPT !.entries = <<>>, !.insertPoint = 0, !.committed = TRUE]
  BY <1>2, EmptyDone
<1>4. RecommitOp(Entry, G) \in [Entry -> [G -> G]]
  BY <1>2, RecommitKeeps DEF RecommitOp
<1>5. RecommitAll(b, seq) = Through(RecommitOp(Entry, G), b, seq)
  BY <1>4, RecommitLeads
<1>6. Through(RecommitOp(Entry, G), b, seq) \in G
  BY <1>4, ThroughStays
<1> QED BY <1>1, <1>2, <1>3, <1>5, <1>6 DEF CommitAll

\* Merging copies entries and commits none.
LEMMA MergeKeeps ==
  ASSUME NEW c \in Open, NEW entries \in Seq(Entry)
  PROVE  MergeEntries(c, entries) \in Open
<1>1. ASSUME NEW d \in Open, NEW e \in Entry PROVE Insert(d, e) \in Open
  <2>1. d \in Placed /\ d \in Configuration /\ ~d.committed /\ ~d.attached
    BY DEF Open, Placed
  <2>2. PICK b : b = Insert(d, e)
    OBVIOUS
  <2>3. /\ b \in Placed
        /\ b = [d EXCEPT !.entries = b.entries, !.insertPoint = d.insertPoint + 1]
    BY <2>1, <2>2, Inserted
  <2>4. ~b.committed /\ ~b.attached
    BY <2>1, <2>3 DEF Configuration
  <2> QED BY <2>2, <2>3, <2>4 DEF Open
<1>2. MergeOp(Entry, Open) \in [Entry -> [Open -> Open]]
  BY <1>1 DEF MergeOp
<1>3. MergeEntries(c, entries) = Through(MergeOp(Entry, Open), c, entries)
  BY <1>2, MergeLeads
<1> QED BY <1>2, <1>3, ThroughStays

\* All configurations to start from.
LEMMA OthersKeep ==
  ASSUME NEW c \in Open, NEW others \in Seq(Placed)
  PROVE  Merge(c, others) \in Open
<1>1. MergeAllOp(Placed, Open) \in [Placed -> [Open -> Open]]
  <2>1. \A o \in Placed : o.entries \in Seq(Entry)
    BY DEF Placed, Configuration
  <2> QED BY <2>1, MergeKeeps DEF MergeAllOp
<1>2. Merge(c, others) = Through(MergeAllOp(Placed, Open), c, others)
  BY <1>1, MergeAllLeads
<1> QED BY <1>1, <1>2, ThroughStays

\* Every request may be made of a configuration no speller is attached to.
LEMMA RequestsOpen == Request \subseteq Requests
  BY DEF Request, Requests, Texts

\* Reading a file.
LEMMA ReadKeeps ==
  ASSUME NEW G, Keeps(G), NEW c \in G, NEW requests \in Seq(Request)
  PROVE  ReadAtEnd(c, requests) \in G
<1>1. ReadOp(Request, G) \in [Request -> [G -> G]]
  BY RequestsOpen, SetEntryKeeps DEF ReadOp
<1>2. ReadAtEnd(c, requests) = Through(ReadOp(Request, G), c, requests)
  BY <1>1, ReadLeads
<1> QED BY <1>1, <1>2, ThroughStays

\* A file is read in front of what there is.
LEMMA ReadInKeeps ==
  ASSUME NEW c \in Open, NEW requests \in Seq(Request)
  PROVE  ReadIn(c, requests) \in Open
<1>1. [c EXCEPT !.insertPoint = 0] \in Open
  <2>1. PICK d : d = [c EXCEPT !.insertPoint = 0]
    OBVIOUS
  <2>2. c \in Configuration /\ ~c.committed /\ ~c.attached
    BY DEF Open, Placed
  <2>3. /\ d \in Configuration /\ ~d.committed /\ ~d.attached /\ d.insertPoint = 0
        /\ d.entries \in Seq(Entry)
    BY <2>1, <2>2 DEF Configuration
  <2>4. 0 <= Len(d.entries)
    BY <2>3, LenProperties
  <2> QED BY <2>1, <2>3, <2>4 DEF Open, Placed
<1> QED BY <1>1, OpenKeeps, ReadKeeps DEF ReadIn

\* All files.
LEMMA FilesKeep ==
  ASSUME NEW c \in Open, NEW texts \in Seq(Seq(Request))
  PROVE  ReadFiles(c, texts) \in Open
<1>1. PICK T : T = Seq(Request)
  OBVIOUS
<1>2. FileOp(T, Open) \in [T -> [Open -> Open]]
  BY <1>1, ReadInKeeps DEF FileOp
<1>3. ReadFiles(c, texts) = Through(FileOp(T, Open), c, texts)
  BY <1>1, <1>2, FileLeads
<1> QED BY <1>1, <1>2, <1>3, ThroughStays

\* A configuration that read its settings: it is committed if it was before and
\* nothing failed.
LEMMA SettingsRead ==
  ASSUME NEW c \in Open \cup Done(FALSE), NEW others \in Seq(Done(FALSE)),
         NEW texts \in Seq(Seq(Request))
  PROVE  /\ ReadInSettings(c, others, texts) \in Open \cup Done(FALSE)
         /\ c.committed /\ ~ReadInSettings(c, others, texts).failed
              => ReadInSettings(c, others, texts) \in Done(FALSE)
<1>1. c \in Placed /\ c \in Configuration /\ c.attached = FALSE /\ c.committed \in BOOLEAN
      /\ (c \in Open <=> ~c.committed) /\ (c \in Done(FALSE) <=> c.committed)
  BY DEF Open, Done, Clean, Placed, Configuration
<1>2. PICK open : open = [c EXCEPT !.committed = FALSE, !.failed = FALSE]
  OBVIOUS
<1>3. open \in Open
  BY <1>1, <1>2 DEF Open, Placed, Configuration
<1>4. PICK merged : merged = Merge(open, others)
  OBVIOUS
<1>5. merged \in Open
  <2>1. others \in Seq(Placed)
    BY DEF Done, Clean
  <2> QED BY <1>3, <1>4, <2>1, OthersKeep
<1>6. PICK read : read = ReadFiles(merged, texts)
  OBVIOUS
<1>7. read \in Open
  BY <1>5, <1>6, FilesKeep
<1>8. PICK done : done = IF c.committed /\ ~read.failed THEN CommitAll(read) ELSE read
  OBVIOUS
<1>9. /\ done \in Open \cup Done(FALSE)
      /\ c.committed /\ ~done.failed => done \in Done(FALSE)
  <2>1. read \in Placed /\ ~read.attached
    BY <1>7 DEF Open
  <2>2. CommitAll(read) \in Done(FALSE)
    BY <2>1, CommitAllKeeps
  <2> QED BY <1>7, <1>8, <2>2
<1>10. PICK result : result = ReadInSettings(c, others, texts)
  OBVIOUS
<1>11. \/ c.settingsRead /\ result = c
       \/ ~c.settingsRead /\ others # <<>> /\ result = Copy(others[1])
       \/ ~c.settingsRead /\ result = [done EXCEPT !.settingsRead = ~done.failed]
  <2>1. CASE c.settingsRead
    BY <1>10, <2>1 DEF ReadInSettings
  <2>2. CASE ~c.settingsRead /\ \E i \in DOMAIN others : others[i].settingsRead
    <3>1. result = Copy(others[1])
      BY <1>10, <2>2 DEF ReadInSettings
    <3>2. others # <<>>
      BY <2>2
    <3> QED BY <2>2, <3>1, <3>2
  <2>3. CASE ~c.settingsRead /\ ~\E i \in DOMAIN others : others[i].settingsRead
    <3>1. result = [done EXCEPT !.settingsRead = ~done.failed]
      BY <1>2, <1>4, <1>6, <1>8, <1>10, <2>3 DEF ReadInSettings
    <3> QED BY <2>3, <3>1
  <2> QED BY <2>1, <2>2, <2>3
<1>12. CASE c.settingsRead /\ result = c
  BY <1>1, <1>10, <1>12
<1>13. CASE others # <<>> /\ result = Copy(others[1])
  <2>1. PICK other \in Done(FALSE) : other = others[1]
    <3>1. Len(others) \in Nat /\ Len(others) # 0
      BY <1>13, EmptySeq, LenProperties
    <3>2. 1 \in 1..Len(others)
      BY <3>1
    <3> QED BY <3>2, ElementOfSeq
  <2>2. other \in Configuration /\ other.insertPoint = Len(other.entries)
        /\ other.attached = FALSE
    BY DEF Done, Clean, Placed
  <2>3. Copy(other) = other
    BY <2>2 DEF Copy, Configuration
  <2> QED BY <1>10, <1>13, <2>1, <2>3
<1>14. CASE result = [done EXCEPT !.settingsRead = ~done.failed]
  <2>1. result \in Configuration /\ result.entries = done.entries
        /\ result.insertPoint = done.insertPoint /\ result.committed = done.committed
        /\ result.attached = done.attached /\ result.told = done.told
        /\ result.failed = done.failed
    BY <1>9, <1>14 DEF Open, Done, Clean, Placed, Configuration
  <2>2. done \in Open => result \in Open
    BY <2>1 DEF Open, Placed
  <2>3. done \in Done(FALSE) => result \in Done(FALSE)
    BY <2>1 DEF Done, Clean, Placed, Follows
  <2> QED BY <1>9, <1>10, <2>1, <2>2, <2>3
<1> QED BY <1>11, <1>12, <1>13, <1>14
\* The speller that is attached last is told what the options are.
LEMMA SetupFollows ==
  ASSUME NEW c \in Done(FALSE)
  PROVE  SetupSpeller(c) \in Done(TRUE)
<1>1. PICK limit : limit = Atoi[Retrieve(c, "run-together-limit")]
  OBVIOUS
<1>2. limit \in Nat
  BY <1>1, DoneRetrieved DEF Atoi, Scanned, IntTexts
<1>3. PICK d : d = IF limit > LimitMax
                   THEN Set(c, [prefix |-> "", key |-> "run-together-limit", value |-> "8"])
                   ELSE c
  OBVIOUS
<1>4. PICK shown : shown = IF limit > LimitMax THEN LimitMax ELSE limit
  OBVIOUS
<1>5. shown \in Nat /\ shown <= LimitMax
  BY <1>2, <1>4 DEF LimitMax
<1>6. /\ d \in Done(FALSE)
      /\ Atoi[Retrieve(d, "run-together-limit")] = shown
      /\ Retrieve(d, "ignore-case") = Retrieve(c, "ignore-case")
  <2>1. CASE limit > LimitMax
    <3>1. PICK o, e : /\ o = [c EXCEPT !.failed = FALSE]
                      /\ e = NewEntry("run-together-limit", "Set", "8")
      OBVIOUS
    <3>2. o \in Done(FALSE)
      BY <3>1, FailedKeeps
    <3>3. e \in Entry /\ e.key = "run-together-limit" /\ e.action = "Set" /\ e.value = "8"
      BY <3>1 DEF NewEntry, Entry, Texts
    <3>4. Legal(e) /\ Sound(e)
      BY <3>3 DEF Sound, Legal, Keys, Scalars, Lists, IntTexts
    <3>5. PICK b : b = Insert(o, e)
      OBVIOUS
    <3>6. o \in Clean(FALSE) /\ o.entries \in Seq(Entry) /\ o.entries = c.entries
      BY <3>1, <3>2 DEF Done, Clean, Placed, Configuration
    <3>7. b \in Clean(FALSE) /\ b.entries = Append(o.entries, e)
      BY <3>3, <3>4, <3>5, <3>6, CleanInsert
    <3>8. b.committed /\ ~b.attached /\ b.entries[b.insertPoint] = e
      <4>1. b.committed /\ b.attached = FALSE /\ b.insertPoint = Len(b.entries)
        BY <3>7 DEF Clean
      <4> QED BY <3>3, <3>6, <3>7, <4>1, AppendProperties
    <3>9. Commit(b) = NotifyLimit(b, "8")
      BY <3>3, <3>4, <3>8 DEF Commit
    <3>10. NotifyLimit(b, "8") = b
      BY <3>8 DEF NotifyLimit, Tell
    <3>11. d = InsertAndCommit(o, e)
      BY <1>3, <2>1, <3>1 DEF Set, SetEntry, SetOne, NoValuePrefixes, Action, ValueOf
    <3>12. d = b
      BY <3>5, <3>8, <3>9, <3>10, <3>11 DEF InsertAndCommit
    <3>13. b \in Done(FALSE)
      BY <3>7, <3>8 DEF Done, Follows
    <3>14. \A k : Retrieve(b, k) = IF e.key = k /\ e.action # "NoOp"
                                   THEN IF e.action = "Reset" THEN Default(k) ELSE e.value
                                   ELSE Retrieve(o, k)
      BY ZenonT(30), <3>3, <3>6, <3>7, AppendedRetrieved
    <3>15. Retrieve(b, "run-together-limit") = "8" /\ Atoi["8"] = LimitMax
      BY <3>3, <3>14 DEF Atoi, Scanned, IntTexts, LimitMax
    <3>16. Retrieve(b, "ignore-case") = Retrieve(c, "ignore-case")
      <4>1. Retrieve(b, "ignore-case") = Retrieve(o, "ignore-case")
        BY <3>3, <3>14
      <4>2. Lookup(o, "ignore-case") = Lookup(c, "ignore-case")
        BY <3>6, LookupFinds
      <4> QED BY <4>1, <4>2 DEF Retrieve
    <3> QED BY <1>4, <2>1, <3>12, <3>13, <3>15, <3>16
  <2>2. CASE ~(limit > LimitMax)
    BY <1>1, <1>3, <1>4, <2>2
  <2> QED BY <2>1, <2>2
<1>7. PICK t : t = [k \in Followed |-> IF k = "ignore-case" THEN Retrieve(c, k) = "true"
                                       ELSE IF limit > LimitMax THEN LimitMax ELSE limit]
  OBVIOUS
<1>8. /\ t \in [Followed -> Told] /\ t["run-together-limit"] = shown
      /\ t["ignore-case"] = (Retrieve(c, "ignore-case") = "true")
  BY <1>4, <1>5, <1>7 DEF Followed, Told
<1>9. PICK s : s = SetupSpeller(c)
  OBVIOUS
<1>10. s = [d EXCEPT !.attached = TRUE, !.told = t]
  BY <1>1, <1>3, <1>7, <1>9 DEF SetupSpeller
<1>11. d \in Configuration /\ d \in Clean(FALSE) /\ d \in Placed
  BY <1>6 DEF Done, Clean, Placed
<1>12. s \in Configuration /\ s.entries = d.entries /\ s.insertPoint = d.insertPoint
       /\ s.committed = d.committed /\ s.attached = TRUE /\ s.told = t
  BY <1>8, <1>10, <1>11 DEF Configuration
<1>13. s \in Clean(TRUE)
  BY <1>11, <1>12 DEF Clean, Placed
<1>14. \A k : Retrieve(s, k) = Retrieve(d, k)
  <2> TAKE k
  <2>1. Lookup(s, k) = Lookup(d, k)
    BY <1>12, LookupFinds
  <2> QED BY <2>1 DEF Retrieve
<1>15. Agrees("run-together-limit", t["run-together-limit"], Retrieve(s, "run-together-limit"))
  BY <1>5, <1>6, <1>8, <1>14 DEF Agrees
<1>16. Agrees("ignore-case", t["ignore-case"], Retrieve(s, "ignore-case"))
  BY <1>6, <1>8, <1>14 DEF Agrees
<1>17. Follows(s)
  BY <1>12, <1>15, <1>16 DEF Follows, Followed
<1> QED BY <1>9, <1>13, <1>17 DEF Done
\* new_config.
LEMMA NewIsDone == NewConfig \in Done(FALSE)
<1>1. NewConfig \in Configuration
  BY DEF NewConfig, Configuration, Told
<1>2. /\ NewConfig.entries = <<>> /\ NewConfig.insertPoint = 0 /\ NewConfig.committed = TRUE
      /\ NewConfig.attached = FALSE
  BY DEF NewConfig
<1>3. NewConfig \in Placed
  BY <1>1, <1>2 DEF Placed
<1>4. \A i \in 1..Len(NewConfig.entries) : Sound(NewConfig.entries[i])
  BY <1>2
<1> QED BY <1>2, <1>3, <1>4 DEF Done, Clean, Follows
\* A sequence of one.
LEMMA Single ==
  ASSUME NEW S, NEW x \in S
  PROVE  <<x>> \in Seq(S)
  OBVIOUS
-----------------------------------------------------------------------------
(* The lists of entries, looked up for a list.                              *)

\* The default lists, and what single entries make of a list.
LEMMA ListTypes ==
  ASSUME NEW list \in Seq(Texts), NEW v \in Texts
  PROVE  /\ AddTo(list, v) \in Seq(Texts)
         /\ RemoveFrom(list, v) \in Seq(Texts)
         /\ \A e \in Entry : \A k : Edit(list, e, k) \in Seq(Texts)
         /\ \A k \in Lists : Default(k) \in Seq(Texts)
<1>1. \A w \in Texts : AddTo(list, w) \in Seq(Texts)
  BY AppendProperties DEF AddTo
<1>2. ASSUME NEW w PROVE RemoveFrom(list, w) \in Seq(Texts)
  <2>1. PICK G : G = Seq(Texts)
    OBVIOUS
  <2>2. <<>> \in G /\ \A d \in G : \A f \in Texts : (IF f = w THEN d ELSE Append(d, f)) \in G
    BY <2>1, AppendProperties
  <2>3. RemoveOp(Texts, G, w) \in [Texts -> [G -> G]]
    BY <2>2 DEF RemoveOp
  <2>4. RemoveFrom(list, w) = Through(RemoveOp(Texts, G, w), <<>>, list)
    BY <2>2, <2>3, RemoveLeads
  <2>5. Through(RemoveOp(Texts, G, w), <<>>, list) \in G
    BY <2>2, <2>3, ThroughStays
  <2> QED BY <2>1, <2>4, <2>5
<1>3. \A e \in Entry : \A k : Edit(list, e, k) \in Seq(Texts)
  BY <1>1, <1>2 DEF Edit, Entry
<1>4. \A k \in Lists : Default(k) \in Seq(Texts)
  <2>1. "url" \in Texts
    BY DEF Texts
  <2>2. <<"url">> \in Seq(Texts) /\ <<>> \in Seq(Texts)
    BY <2>1
  <2> QED BY <2>2 DEF Lists, Default
<1> QED BY <1>1, <1>2, <1>3, <1>4

\* The changes the entries of s make to a list, one after the other.
LEMMA EditsLead ==
  ASSUME NEW k
  PROVE  /\ EditOp(Entry, Seq(Texts), k) \in [Entry -> [Seq(Texts) -> Seq(Texts)]]
         /\ \A s \in Seq(Entry) : \A list \in Seq(Texts) :
              Edits(list, s, k) = Through(EditOp(Entry, Seq(Texts), k), list, s)
<1>1. PICK G : G = Seq(Texts)
  OBVIOUS
<1>2. "" \in Texts
  BY DEF Texts
<1>3. EditOp(Entry, G, k) \in [Entry -> [G -> G]]
  BY <1>1, <1>2, ListTypes DEF EditOp
<1>4. ASSUME NEW s \in Seq(Entry), NEW list \in G
      PROVE  Edits(list, s, k) = Through(EditOp(Entry, G, k), list, s)
  BY <1>3, EditLeads
<1> QED BY <1>1, <1>3, <1>4

LEMMA EditsEmpty ==
  ASSUME NEW list \in Seq(Texts), NEW k
  PROVE  Edits(list, <<>>, k) = list
<1>1. <<>> \in Seq(Entry)
  OBVIOUS
<1>2. Edits(list, <<>>, k) = Through(EditOp(Entry, Seq(Texts), k), list, <<>>)
  BY <1>1, EditsLead
<1> QED BY <1>2, ThroughEmpty

LEMMA EditsAppend ==
  ASSUME NEW s \in Seq(Entry), NEW e \in Entry, NEW list \in Seq(Texts), NEW k
  PROVE  /\ Edits(list, s, k) \in Seq(Texts)
         /\ Edits(list, Append(s, e), k) = Edit(Edits(list, s, k), e, k)
<1>1. PICK G : G = Seq(Texts)
  OBVIOUS
<1>2. PICK op \in [Entry -> [G -> G]] : op = EditOp(Entry, G, k)
  BY <1>1, EditsLead
<1>3. Append(s, e) \in Seq(Entry)
  BY AppendProperties
<1>4. Edits(list, s, k) = Through(op, list, s)
      /\ Edits(list, Append(s, e), k) = Through(op, list, Append(s, e))
  BY <1>1, <1>2, <1>3, EditsLead
<1>5. PICK x \in G : x = Through(op, list, s) /\ Through(op, list, Append(s, e)) = op[e][x]
  <2>1. PICK a \in G : a = list
    BY <1>1
  <2>2. /\ Through(op, a, s) \in G
        /\ Through(op, a, Append(s, e)) = op[e][Through(op, a, s)]
    BY ThroughAppend
  <2> QED BY <2>1, <2>2
<1>6. op[e][x] = Edit(x, e, k)
  BY <1>2 DEF EditOp
<1> QED BY <1>1, <1>4, <1>5, <1>6

\* What an entry makes of a list, and whether it decides the whole list.
Decides(e, k) == e.key = k /\ e.action \in {"Reset", "Set", "ListClear"}
Heed(list, e, k) ==
  IF e.key # k THEN list
  ELSE CASE e.action = "Reset" -> Default(k)
         [] e.action = "Set" -> AddTo(<<>>, e.value)
         [] e.action = "ListClear" -> <<>>
         [] OTHER -> Edit(list, e, k)

\* The last entry that decides the list resets it: what follows may be misread.
ResetLast(c, k) ==
  Deciding(c, k) # {} /\ c.entries[Max(Deciding(c, k))].action = "Reset"

\* A least element is the minimum.
LEMMA MinIs ==
  ASSUME NEW T, T \subseteq Nat, NEW m \in T, \A y \in T : m <= y
  PROVE  Min(T) = m
<1>1. PICK x : x = Min(T)
  OBVIOUS
<1>2. x \in T /\ \A y \in T : x <= y
  BY <1>1 DEF Min
<1>3. x \in Nat /\ m \in Nat /\ x <= m /\ m <= x
  BY <1>2
<1> QED BY <1>1, <1>3

\* The end of a list, with one more item.
LEMMA SubSeqOfAppend ==
  ASSUME NEW S, NEW s \in Seq(S), NEW e \in S, NEW n \in Nat, n = Len(s), NEW i \in 1..(n + 1)
  PROVE  /\ SubSeq(s, i, n) \in Seq(S)
         /\ SubSeq(Append(s, e), i, n + 1) = Append(SubSeq(s, i, n), e)
<1>1. PICK t \in Seq(S) : t = Append(s, e)
  BY AppendProperties
<1>2. Len(t) = n + 1 /\ t[n + 1] = e /\ \A j \in 1..n : t[j] = s[j]
  BY <1>1, AppendProperties
<1>3. (\A j \in i..n : s[j] \in S) /\ (\A j \in i..(n + 1) : t[j] \in S)
  BY <1>2, ElementOfSeq
<1>4. PICK u : u = SubSeq(s, i, n)
  OBVIOUS
<1>5. PICK v : v = SubSeq(t, i, n + 1)
  OBVIOUS
<1>6. u \in Seq(S) /\ Len(u) = n - i + 1 /\ \A j \in 1..(n - i + 1) : u[j] = s[i + j - 1]
  <2>1. /\ u \in Seq(S) /\ Len(u) = IF i <= n THEN n - i + 1 ELSE 0
        /\ \A j \in 1..(n - i + 1) : u[j] = s[i + j - 1]
    BY <1>3, <1>4, SubSeqProperties
  <2> QED BY <2>1
<1>7. v \in Seq(S) /\ Len(v) = n - i + 2 /\ \A j \in 1..(n - i + 2) : v[j] = t[i + j - 1]
  <2>1. n + 1 \in Int /\ i <= n + 1 /\ (n + 1) - i + 1 = n - i + 2
    OBVIOUS
  <2>2. /\ v \in Seq(S) /\ Len(v) = IF i <= n + 1 THEN (n + 1) - i + 1 ELSE 0
        /\ \A j \in 1..((n + 1) - i + 1) : v[j] = t[i + j - 1]
    BY <1>3, <1>5, <2>1, SubSeqProperties
  <2> QED BY <2>1, <2>2
<1>8. PICK w \in Seq(S) : w = Append(u, e)
  BY <1>6, AppendProperties
<1>9. PICK m \in Nat : m = n - i + 1
  BY SMTT(20)
<1>10. Len(w) = m + 1 /\ w[m + 1] = e /\ \A j \in 1..m : w[j] = u[j]
  BY <1>6, <1>8, <1>9, AppendProperties
<1>11. \A j \in 1..(m + 1) : v[j] = w[j]
  <2> TAKE j \in 1..(m + 1)
  <2>1. CASE j = m + 1
    <3>1. j \in 1..(n - i + 2) /\ i + j - 1 = n + 1
      BY <1>9, <2>1
    <3>2. v[j] = t[n + 1]
      BY <1>7, <3>1
    <3> QED BY <1>2, <1>10, <2>1, <3>2
  <2>2. CASE j # m + 1
    <3>1. j \in 1..m /\ j \in 1..(n - i + 1) /\ j \in 1..(n - i + 2) /\ i + j - 1 \in 1..n
      BY SMTT(20), <1>9, <2>2
    <3> QED BY <1>2, <1>6, <1>7, <1>10, <3>1
  <2> QED BY <2>1, <2>2
<1>12. Len(v) = m + 1
  BY <1>7, <1>9
<1>13. v = w
  BY <1>7, <1>8, <1>10, <1>11, <1>12, SeqEqual
<1> QED BY <1>1, <1>4, <1>5, <1>6, <1>8, <1>13

\* d has the entries of c and one more at the end.
Longer(d, c, e) ==
  c.entries \in Seq(Entry) /\ e \in Entry /\ d.entries = Append(c.entries, e)

\* Reading on from place i, with one more entry at the end.
LEMMA EditFromAppended ==
  ASSUME NEW c, NEW d, NEW e, Longer(d, c, e), NEW k, NEW base \in Seq(Texts),
         NEW i \in 1..(Len(c.entries) + 1), i = Len(c.entries) + 1 => e.action # "Set"
  PROVE  EditFrom(d, k, i, base) = Edit(EditFrom(c, k, i, base), e, k)
<1>0. PICK s \in Seq(Entry) : s = c.entries /\ d.entries = Append(s, e) /\ e \in Entry
  BY DEF Longer
<1>1. PICK t \in Seq(Entry) : t = Append(s, e)
  BY <1>0, AppendProperties
<1>2. PICK n \in Nat : n = Len(s) /\ DOMAIN s = 1..n
  BY LenProperties
<1>3. Len(t) = n + 1 /\ DOMAIN t = 1..(n + 1) /\ t[n + 1] = e /\ \A j \in 1..n : t[j] = s[j]
  BY <1>0, <1>1, <1>2, AppendProperties, LenProperties
<1>i. i \in 1..(n + 1) /\ (i = n + 1 => e.action # "Set")
  BY <1>0, <1>2
<1>4. PICK u \in Seq(Entry) : u = SubSeq(s, i, n) /\ Append(u, e) = SubSeq(t, i, n + 1)
  <2>1. i \in 1..(n + 1)
    BY <1>i
  <2>2. /\ SubSeq(s, i, n) \in Seq(Entry)
        /\ SubSeq(Append(s, e), i, n + 1) = Append(SubSeq(s, i, n), e)
    BY <1>2, <2>1, SubSeqOfAppend
  <2> QED BY <1>0, <1>1, <2>2
<1>5. PICK from \in Seq(Texts) :
        /\ from = IF ActionAt(c, i) = "Set" THEN AddTo(base, s[i].value) ELSE base
        /\ from = IF ActionAt(d, i) = "Set" THEN AddTo(base, t[i].value) ELSE base
  <2>1. CASE i = n + 1
    <3>1. ActionAt(c, i) = "NoOp" /\ ActionAt(d, i) = e.action
      BY <1>0, <1>1, <1>2, <1>3, <2>1 DEF ActionAt
    <3> QED BY <1>i, <2>1, <3>1
  <2>2. CASE i # n + 1
    <3>1. i \in 1..n /\ i \in 1..(n + 1)
      BY <1>i, <2>2
    <3>2. ActionAt(c, i) = ActionAt(d, i) /\ s[i] = t[i]
      BY <1>0, <1>1, <1>2, <1>3, <3>1 DEF ActionAt
    <3>3. s[i].value \in Texts
      <4>1. s[i] \in Entry
        BY <1>2, <3>1, ElementOfSeq
      <4> QED BY <4>1 DEF Entry
    <3>4. AddTo(base, s[i].value) \in Seq(Texts)
      BY <3>3, ListTypes
    <3> QED BY <3>2, <3>4
  <2> QED BY <2>1, <2>2
<1>6. EditFrom(c, k, i, base) = Edits(from, u, k)
  BY <1>0, <1>2, <1>4, <1>5 DEF EditFrom
<1>7. EditFrom(d, k, i, base) = Edits(from, Append(u, e), k)
  BY <1>0, <1>1, <1>3, <1>4, <1>5 DEF EditFrom
<1> QED BY <1>0, <1>6, <1>7, EditsAppend

\* An entry at the end counts for the lists as it should, unless the one that decided
\* the list so far reset it and this one does not decide it anew.
LEMMA AppendedListed ==
  ASSUME NEW c, NEW d, NEW e, Longer(d, c, e), NEW k \in Lists,
         Decides(e, k) \/ ~ResetLast(c, k)
  PROVE  /\ LookupList(d, k) = Heed(LookupList(c, k), e, k)
         /\ ResetLast(d, k) <=> IF Decides(e, k) THEN e.action = "Reset" ELSE ResetLast(c, k)
<1>0. PICK s \in Seq(Entry) : s = c.entries /\ d.entries = Append(s, e) /\ e \in Entry
  BY DEF Longer
<1>1. PICK t \in Seq(Entry) : t = Append(s, e)
  BY <1>0, AppendProperties
<1>2. PICK n \in Nat : n = Len(s) /\ DOMAIN s = 1..n
  BY LenProperties
<1>3. Len(t) = n + 1 /\ DOMAIN t = 1..(n + 1) /\ t[n + 1] = e /\ \A j \in 1..n : t[j] = s[j]
  BY <1>0, <1>1, <1>2, AppendProperties, LenProperties
<1>4. PICK D, D1, M, M1 : /\ D = Deciding(c, k) /\ D1 = Deciding(d, k)
                          /\ M = EntriesOf(c, k) /\ M1 = EntriesOf(d, k)
  OBVIOUS
<1>5. D \in SUBSET (1..n) /\ M \in SUBSET (1..n) /\ D \subseteq M
  BY <1>0, <1>2, <1>4 DEF Deciding, EntriesOf
<1>6. /\ M1 = IF e.key = k THEN M \cup {n + 1} ELSE M
      /\ D1 = IF Decides(e, k) THEN D \cup {n + 1} ELSE D
  <2>1. \A i \in 1..(n + 1) : i \in 1..n \/ i = n + 1
    BY <1>2
  <2>2. n + 1 \notin 1..n /\ 1..n \subseteq 1..(n + 1) /\ n + 1 \in 1..(n + 1)
    BY <1>2
  <2>3. M1 = IF e.key = k THEN M \cup {n + 1} ELSE M
    BY <1>0, <1>1, <1>2, <1>3, <1>4, <2>1, <2>2 DEF EntriesOf
  <2>4. D = {i \in M : s[i].action \in {"Reset", "Set", "ListClear"}}
        /\ D1 = {i \in M1 : t[i].action \in {"Reset", "Set", "ListClear"}}
    BY <1>0, <1>1, <1>4 DEF Deciding
  <2> QED BY <1>3, <1>5, <2>2, <2>3, <2>4 DEF Decides
<1>7. ASSUME NEW i \in 1..(n + 1), NEW base \in Seq(Texts), i = n + 1 => e.action # "Set"
      PROVE  EditFrom(d, k, i, base) = Edit(EditFrom(c, k, i, base), e, k)
  <2>1. i \in 1..(Len(c.entries) + 1) /\ (i = Len(c.entries) + 1 => e.action # "Set")
    BY <1>0, <1>2, <1>7
  <2> QED BY <2>1, EditFromAppended
<1>8. Default(k) \in Seq(Texts) /\ <<>> \in Seq(Texts)
  <2>1. <<>> \in Seq(Texts) /\ "" \in Texts
    BY DEF Texts
  <2> QED BY <2>1, ListTypes
<1>9. CASE Decides(e, k)
  <2>1. D1 \in SUBSET (1..(n + 1)) /\ n + 1 \in D1
    BY <1>5, <1>6, <1>9
  <2>2. Max(D1) = n + 1
    <3>1. PICK x, m : x = Max(D1) /\ m = n + 1
      OBVIOUS
    <3>2. m \in Nat /\ D1 \in SUBSET (1..m) /\ D1 # {}
      BY <1>2, <2>1, <3>1
    <3>3. x \in D1 /\ \A y \in D1 : y <= x
      BY <3>1, <3>2, MaxOf
    <3>4. x \in 1..m /\ m <= x
      BY <2>1, <3>1, <3>2, <3>3
    <3> QED BY <3>1, <3>2, <3>4
  <2>3. ResetLast(d, k) <=> e.action = "Reset"
    BY <1>0, <1>1, <1>3, <1>4, <2>1, <2>2 DEF ResetLast
  <2>4. LookupList(d, k) = ListFrom(d, k, n + 1)
    BY <1>4, <2>1, <2>2 DEF LookupList, StartOf
  <2>5. ActionAt(d, n + 1) = e.action /\ ActionAt(d, n + 2) = "NoOp"
    BY <1>0, <1>1, <1>2, <1>3 DEF ActionAt
  <2>6. \A base \in Seq(Texts) : EditFrom(d, k, n + 2, base) = base
    <3> SUFFICES ASSUME NEW base \in Seq(Texts) PROVE EditFrom(d, k, n + 2, base) = base
      OBVIOUS
    <3>1. SubSeq(t, n + 2, n + 1) = <<>>
      BY <1>2, SubSeqEmpty
    <3>2. Edits(base, <<>>, k) = base
      BY EditsEmpty
    <3> QED BY <1>0, <1>1, <1>3, <2>5, <3>1, <3>2 DEF EditFrom
  <2>7. CASE e.action = "Reset"
    <3>1. LookupList(d, k) = EditFrom(d, k, n + 2, Default(k))
      BY <1>2, <2>4, <2>5, <2>7 DEF ListFrom
    <3> QED BY <1>8, <1>9, <2>3, <2>6, <2>7, <3>1 DEF Heed, Decides
  <2>8. CASE e.action # "Reset"
    <3>1. LookupList(d, k) = EditFrom(d, k, n + 1, <<>>)
      BY <1>9, <2>4, <2>5, <2>8 DEF ListFrom, Decides
    <3>2. PICK base \in Seq(Texts) : base = IF e.action = "Set" THEN AddTo(<<>>, e.value) ELSE <<>>
      <4>1. e.value \in Texts
        BY <1>0 DEF Entry
      <4> QED BY <1>8, <4>1, ListTypes
    <3>3. SubSeq(t, n + 1, n + 1) = Append(<<>>, e)
      <4>1. SubSeq(s, n + 1, n) = <<>>
        BY <1>2, SubSeqEmpty
      <4>2. n + 1 \in 1..(n + 1)
        BY <1>2
      <4>3. SubSeq(Append(s, e), n + 1, n + 1) = Append(SubSeq(s, n + 1, n), e)
        BY <1>0, <1>2, <4>2, SubSeqOfAppend
      <4> QED BY <1>1, <4>1, <4>3
    <3>4. EditFrom(d, k, n + 1, <<>>) = Edits(base, Append(<<>>, e), k)
      BY <1>0, <1>1, <1>3, <2>5, <3>2, <3>3 DEF EditFrom
    <3>5. Edits(base, Append(<<>>, e), k) = Edit(Edits(base, <<>>, k), e, k)
      <4>1. <<>> \in Seq(Entry)
        OBVIOUS
      <4> QED BY ZenonT(30), <1>0, <4>1, EditsAppend
    <3>6. Edits(base, <<>>, k) = base
      BY EditsEmpty
    <3>7. Edit(base, e, k) = base
      BY <1>9, <2>8 DEF Edit, Decides
    <3>8. LookupList(d, k) = base
      BY <3>1, <3>4, <3>5, <3>6, <3>7
    <3> QED BY <1>9, <2>3, <2>8, <3>2, <3>8 DEF Heed, Decides
  <2> QED BY <2>7, <2>8
<1>10. CASE ~Decides(e, k)
  <2>1. D1 = D /\ Heed(LookupList(c, k), e, k) = Edit(LookupList(c, k), e, k)
    BY <1>6, <1>10 DEF Heed, Decides, Edit
  <2>2. CASE D # {}
    <3>1. PICK m \in 1..n : m = Max(D)
      <4>1. Max(D) \in D
        BY <1>5, <2>2, MaxOf
      <4> QED BY <1>5, <4>1
    <3>2. LookupList(c, k) = ListFrom(c, k, m) /\ LookupList(d, k) = ListFrom(d, k, m)
      BY <1>4, <2>1, <2>2, <3>1 DEF LookupList, StartOf
    <3>3. ActionAt(c, m) = s[m].action /\ ActionAt(d, m) = s[m].action
      BY <1>0, <1>1, <1>2, <1>3, <3>1 DEF ActionAt
    <3>4. s[m].action # "Reset"
      BY <1>0, <1>4, <1>10, <2>2, <3>1 DEF ResetLast
    <3>5. PICK base \in Seq(Texts) :
            base = IF s[m].action \in {"Set", "ListClear"} THEN <<>> ELSE Default(k)
      BY <1>8
    <3>6. LookupList(c, k) = EditFrom(c, k, m, base) /\ LookupList(d, k) = EditFrom(d, k, m, base)
      BY <3>2, <3>3, <3>4, <3>5 DEF ListFrom
    <3>7. EditFrom(d, k, m, base) = Edit(EditFrom(c, k, m, base), e, k)
      <4>1. m \in 1..(n + 1) /\ m # n + 1
        BY <1>2, <3>1
      <4> QED BY <1>7, <4>1
    <3>8. ResetLast(d, k) <=> ResetLast(c, k)
      BY <1>0, <1>1, <1>3, <1>4, <2>1, <3>1 DEF ResetLast
    <3> QED BY <1>10, <2>1, <3>6, <3>7, <3>8
  <2>3. CASE D = {}
    <3>1. ResetLast(d, k) <=> ResetLast(c, k)
      BY <1>4, <2>1, <2>3 DEF ResetLast
    <3>2. ASSUME NEW i \in 1..(n + 1), i \in 1..n => i \in M, i = n + 1 => e.key = k
          PROVE  /\ ListFrom(c, k, i) = EditFrom(c, k, i, Default(k))
                 /\ ListFrom(d, k, i) = Edit(ListFrom(c, k, i), e, k)
      <4>1. i = n + 1 => e.action \notin {"Reset", "Set", "ListClear"}
        BY <1>10, <3>2 DEF Decides
      <4>2. i \in 1..n => s[i].action \notin {"Reset", "Set", "ListClear"}
        BY <1>0, <1>2, <1>4, <2>3, <3>2 DEF Deciding
      <4>3. /\ ActionAt(c, i) \notin {"Reset", "Set", "ListClear"}
            /\ ActionAt(d, i) \notin {"Reset", "Set", "ListClear"}
        <5>1. CASE i = n + 1
          BY <1>0, <1>1, <1>2, <1>3, <4>1, <5>1 DEF ActionAt
        <5>2. CASE i # n + 1
          <6>1. i \in 1..n
            BY <1>2, <5>2
          <6> QED BY <1>0, <1>1, <1>2, <1>3, <4>2, <6>1 DEF ActionAt
        <5> QED BY <5>1, <5>2
      <4>4. /\ ListFrom(c, k, i) = EditFrom(c, k, i, Default(k))
            /\ ListFrom(d, k, i) = EditFrom(d, k, i, Default(k))
        BY <4>3 DEF ListFrom
      <4>5. EditFrom(d, k, i, Default(k)) = Edit(EditFrom(c, k, i, Default(k)), e, k)
        BY <1>7, <1>8, <4>1
      <4> QED BY <4>4, <4>5
    <3>3. CASE M # {}
      <4>1. PICK m \in M : m = Min(M) /\ m = Min(M1)
        <5>1. M \subseteq Nat /\ M1 \subseteq Nat /\ M # {} /\ \A y \in M : y <= n + 1
          <6>1. 1..n \subseteq Nat /\ n + 1 \in Nat /\ \A y \in 1..n : y <= n + 1
            BY <1>2
          <6> QED BY <1>5, <1>6, <3>3, <6>1
        <5>2. PICK m \in M : \A y \in M : m <= y
          BY <5>1, LeastNatural
        <5>3. m \in M1 /\ \A y \in M1 : m <= y
          BY <1>6, <5>1, <5>2
        <5> QED BY <5>1, <5>2, <5>3, MinIs
      <4>2. m \in 1..n /\ m \in 1..(n + 1)
        BY <1>2, <1>5
      <4>3. LookupList(c, k) = ListFrom(c, k, m) /\ LookupList(d, k) = ListFrom(d, k, m)
        BY <1>4, <1>6, <2>1, <2>3, <3>3, <4>1 DEF LookupList, StartOf
      <4>4. m # n + 1
        BY <1>2, <4>2
      <4> QED BY <1>10, <2>1, <3>1, <3>2, <4>2, <4>3, <4>4
    <3>4. CASE M = {} /\ e.key = k
      <4>1. Min({n + 1}) = n + 1
        <5>1. {n + 1} \subseteq Nat /\ \A y \in {n + 1} : n + 1 <= y
          BY <1>2
        <5> QED BY <5>1, MinIs
      <4>2. LookupList(c, k) = ListFrom(c, k, n + 1) /\ LookupList(d, k) = ListFrom(d, k, n + 1)
        BY <1>0, <1>2, <1>4, <1>6, <2>1, <2>3, <3>4, <4>1 DEF LookupList, StartOf
      <4>3. n + 1 \in 1..(n + 1) /\ n + 1 \notin 1..n
        BY <1>2
      <4> QED BY <1>10, <2>1, <3>1, <3>2, <3>4, <4>2, <4>3
    <3>5. CASE M = {} /\ e.key # k
      <4>0. (n + 1) + 1 = n + 2 /\ Len(c.entries) = n /\ Len(d.entries) = n + 1
        BY <1>0, <1>1, <1>2, <1>3
      <4>1. LookupList(c, k) = ListFrom(c, k, n + 1) /\ LookupList(d, k) = ListFrom(d, k, n + 2)
        BY <4>0, <1>0, <1>1, <1>2, <1>3, <1>4, <1>6, <2>1, <2>3, <3>5 DEF LookupList, StartOf
      <4>2. ActionAt(c, n + 1) = "NoOp" /\ ActionAt(d, n + 2) = "NoOp"
        BY <1>0, <1>1, <1>2, <1>3 DEF ActionAt
      <4>3. SubSeq(s, n + 1, n) = <<>> /\ SubSeq(t, n + 2, n + 1) = <<>>
        BY <1>2, SubSeqEmpty
      <4>4. Edits(Default(k), <<>>, k) = Default(k)
        BY <1>8, EditsEmpty
      <4>5. LookupList(c, k) = Default(k) /\ LookupList(d, k) = Default(k)
        BY <1>0, <1>1, <1>2, <1>3, <4>1, <4>2, <4>3, <4>4 DEF ListFrom, EditFrom
      <4> QED BY <1>10, <2>1, <3>1, <3>5, <4>5 DEF Edit
    <3> QED BY <3>3, <3>4, <3>5
  <2> QED BY <2>2, <2>3
<1> QED BY <1>9, <1>10

-----------------------------------------------------------------------------
(* The filters of a mode.                                                   *)

\* What one more entry means for the option k.
LEMMA LongerRetrieved ==
  ASSUME NEW c, NEW d, NEW e, Longer(d, c, e), NEW k
  PROVE  Retrieve(d, k) = IF e.key = k /\ e.action # "NoOp"
                          THEN IF e.action = "Reset" THEN Default(k) ELSE e.value
                          ELSE Retrieve(c, k)
BY AppendedRetrieved DEF Longer

\* Adding an entry for a filter at the end of a committed configuration.
LEMMA FilterInserted ==
  ASSUME NEW a \in BOOLEAN, NEW c \in Done(a), NEW action \in {"ListAdd", "ListClear"},
         NEW v \in Texts, NEW e, e = NewEntry("filter", action, v)
  PROVE  /\ Insert(c, e) \in Done(a)
         /\ Longer(Insert(c, e), c, e)
         /\ Insert(c, e).failed = c.failed
         /\ \A k \in Scalars : Retrieve(Insert(c, e), k) = Retrieve(c, k)
<1>1. c \in Placed /\ c \in Configuration /\ c.insertPoint = Len(c.entries)
      /\ c.entries \in Seq(Entry)
  BY DEF Done, Clean, Placed, Configuration
<1>2. e \in Entry /\ e.key = "filter"
  <2>1. "filter" \in Texts /\ action \in Texts
    BY DEF Texts
  <2> QED BY <2>1 DEF NewEntry, Entry
<1>3. PICK d : d = Insert(c, e)
  OBVIOUS
<1>4. /\ d.entries = Append(c.entries, e)
      /\ d = [c EXCEPT !.entries = d.entries, !.insertPoint = c.insertPoint + 1]
  BY <1>1, <1>2, <1>3, Inserted
<1>5. d.failed = c.failed
  BY <1>1, <1>4 DEF Configuration
<1>6. d \in Done(a)
  BY <1>3, ListInsert
<1>7. ASSUME NEW k \in Scalars PROVE Retrieve(d, k) = Retrieve(c, k)
  <2>1. e.key # k
    BY <1>2 DEF Scalars
  <2>2. Longer(d, c, e)
    BY <1>1, <1>2, <1>4 DEF Longer
  <2>3. Retrieve(d, k) = IF e.key = k /\ e.action # "NoOp"
                         THEN IF e.action = "Reset" THEN Default(k) ELSE e.value
                         ELSE Retrieve(c, k)
    BY <2>2, LongerRetrieved
  <2> QED BY <2>1, <2>3
<1>8. Longer(d, c, e)
  BY <1>1, <1>2, <1>4 DEF Longer
<1> QED BY <1>3, <1>5, <1>6, <1>7, <1>8

\* What no filter entry touches.
SameButFilters(d, c) ==
  /\ d.failed = c.failed
  /\ \A k \in Scalars : Retrieve(d, k) = Retrieve(c, k)
  /\ ~ResetLast(c, "extra-dicts") =>
        /\ ~ResetLast(d, "extra-dicts")
        /\ LookupList(d, "extra-dicts") = LookupList(c, "extra-dicts")

LEMMA FilterEntry ==
  ASSUME NEW a \in BOOLEAN, NEW b, NEW c \in Done(a), SameButFilters(c, b),
         NEW action \in {"ListAdd", "ListClear"}, NEW v \in Texts,
         action = "ListClear" \/ ~ResetLast(c, "filter"), NEW d,
         d = Insert(c, NewEntry("filter", action, v))
  PROVE  /\ d \in Done(a)
         /\ SameButFilters(d, b)
         /\ ~ResetLast(d, "filter")
         /\ LookupList(d, "filter") = IF action = "ListClear" THEN <<>>
                                      ELSE AddTo(LookupList(c, "filter"), v)
<1>1. PICK e : e = NewEntry("filter", action, v)
  OBVIOUS
<1>2. /\ d \in Done(a) /\ Longer(d, c, e) /\ d.failed = c.failed
      /\ \A k \in Scalars : Retrieve(d, k) = Retrieve(c, k)
  BY <1>1, FilterInserted
<1>3. e.key = "filter" /\ e.action = action /\ e.value = v
  BY <1>1 DEF NewEntry
<1>4. Decides(e, "filter") <=> action = "ListClear"
  BY <1>3 DEF Decides
<1>5. "filter" \in Lists /\ "extra-dicts" \in Lists
  BY DEF Lists
<1>6. /\ LookupList(d, "filter") = Heed(LookupList(c, "filter"), e, "filter")
      /\ ResetLast(d, "filter") <=> IF Decides(e, "filter") THEN e.action = "Reset"
                                    ELSE ResetLast(c, "filter")
  BY <1>2, <1>4, <1>5, AppendedListed
<1>7. ~ResetLast(d, "filter")
  BY <1>3, <1>4, <1>6
<1>8. LookupList(d, "filter") = IF action = "ListClear" THEN <<>>
                                ELSE AddTo(LookupList(c, "filter"), v)
  BY <1>3, <1>6 DEF Heed, Edit
<1>9. ~ResetLast(c, "extra-dicts") =>
        /\ ~ResetLast(d, "extra-dicts")
        /\ LookupList(d, "extra-dicts") = LookupList(c, "extra-dicts")
  <2>1. e.key # "extra-dicts" /\ ~Decides(e, "extra-dicts")
    BY <1>3 DEF Decides
  <2>2. ~ResetLast(c, "extra-dicts") =>
          /\ LookupList(d, "extra-dicts") = Heed(LookupList(c, "extra-dicts"), e, "extra-dicts")
          /\ ResetLast(d, "extra-dicts") <=> ResetLast(c, "extra-dicts")
    BY <1>2, <1>5, <2>1, AppendedListed
  <2> QED BY <2>1, <2>2 DEF Heed
<1>10. SameButFilters(d, b)
  BY <1>2, <1>9 DEF SameButFilters
<1> QED BY <1>2, <1>7, <1>8, <1>10

\* After the entries of a mode the filters are those of the mode, whatever they were.
LEMMA ModeExpanded ==
  ASSUME NEW a \in BOOLEAN, NEW c \in Done(a), NEW m \in DOMAIN ModeFilters
  PROVE  /\ SwitchFilters(c, m) \in Done(a)
         /\ SameButFilters(SwitchFilters(c, m), c)
         /\ ~ResetLast(SwitchFilters(c, m), "filter")
         /\ LookupList(SwitchFilters(c, m), "filter") = AddAll(ModeFilters[m])
<1>1. PICK seq \in Seq(Texts) : seq = ModeFilters[m]
  <2>1. ModeFilters[m] \in Seq(STRING)
    BY ModesAssumption
  <2>2. STRING \subseteq Texts
    BY DEF Texts
  <2>3. ModeFilters[m] \in Seq(Texts)
    BY <2>1, <2>2, SeqMonotonic
  <2> QED BY <2>3
<1>2. PICK n \in Nat : n = Len(seq) /\ DOMAIN seq = 1..n
  BY LenProperties
<1>3. PICK G : G = {d \in Done(a) : SameButFilters(d, c) /\ ~ResetLast(d, "filter")}
  OBVIOUS
<1>4. SameButFilters(c, c)
  BY DEF SameButFilters
<1>5. PICK base : base = Insert(c, NewEntry("filter", "ListClear", ""))
  OBVIOUS
<1>6. base \in G /\ LookupList(base, "filter") = <<>>
  <2>1. "" \in Texts
    BY DEF Texts
  <2>2. PICK t \in Texts, action \in {"ListAdd", "ListClear"} : t = "" /\ action = "ListClear"
    BY <2>1
  <2>3. base = Insert(c, NewEntry("filter", action, t))
    BY <1>5, <2>2
  <2>4. /\ base \in Done(a) /\ SameButFilters(base, c) /\ ~ResetLast(base, "filter")
        /\ LookupList(base, "filter") = IF action = "ListClear" THEN <<>>
                                        ELSE AddTo(LookupList(c, "filter"), t)
    <3>1. PICK b : b = c
      OBVIOUS
    <3>2. SameButFilters(c, b) /\ (action = "ListClear" \/ ~ResetLast(c, "filter"))
      BY <1>4, <2>2, <3>1
    <3>3. /\ base \in Done(a) /\ SameButFilters(base, b) /\ ~ResetLast(base, "filter")
          /\ LookupList(base, "filter") = IF action = "ListClear" THEN <<>>
                                          ELSE AddTo(LookupList(c, "filter"), t)
      BY <2>3, <3>2, FilterEntry
    <3> QED BY <3>1, <3>3
  <2> QED BY <1>3, <2>2, <2>4
<1>7. ASSUME NEW d \in G, NEW f \in Texts
      PROVE  /\ Insert(d, NewEntry("filter", "ListAdd", f)) \in G
             /\ LookupList(Insert(d, NewEntry("filter", "ListAdd", f)), "filter")
                  = AddTo(LookupList(d, "filter"), f)
  <2>1. d \in Done(a) /\ SameButFilters(d, c) /\ ~ResetLast(d, "filter")
    BY <1>3
  <2>2. PICK x : x = Insert(d, NewEntry("filter", "ListAdd", f))
    OBVIOUS
  <2>3. /\ x \in Done(a) /\ SameButFilters(x, c) /\ ~ResetLast(x, "filter")
        /\ LookupList(x, "filter") = AddTo(LookupList(d, "filter"), f)
    BY <2>1, <2>2, FilterEntry
  <2> QED BY <1>3, <2>2, <2>3
<1>8. PICK A : A = Seq(Texts)
  OBVIOUS
<1>9. FilterOp(Texts, G) \in [Texts -> [G -> G]] /\ AddOp(Texts, A) \in [Texts -> [A -> A]]
  BY <1>7, <1>8, ListTypes DEF FilterOp, AddOp
<1>10. <<>> \in A
  BY <1>8
<1>11. AddFilters(base, seq) = Through(FilterOp(Texts, G), base, seq)
  BY <1>6, <1>9, FilterLeads
<1>12. AddAll(seq) = Through(AddOp(Texts, A), <<>>, seq)
  BY <1>9, <1>10, AddLeads
<1>13. PICK R : R = {p \in G \X A : LookupList(p[1], "filter") = p[2]}
  OBVIOUS
<1>14. Related(R, Texts, FilterOp(Texts, G), AddOp(Texts, A))
  <2> SUFFICES ASSUME NEW f \in Texts, NEW d, NEW l, <<d, l>> \in R
               PROVE  <<FilterOp(Texts, G)[f][d], AddOp(Texts, A)[f][l]>> \in R
    BY DEF Related
  <2>1. d \in G /\ l \in A /\ LookupList(d, "filter") = l
    BY <1>13
  <2>2. PICK x : x = Insert(d, NewEntry("filter", "ListAdd", f))
    OBVIOUS
  <2>3. PICK y : y = AddTo(l, f)
    OBVIOUS
  <2>4. x \in G /\ LookupList(x, "filter") = y /\ y \in A
    BY <1>7, <1>8, <2>1, <2>2, <2>3, ListTypes
  <2>5. FilterOp(Texts, G)[f][d] = x /\ AddOp(Texts, A)[f][l] = y
    BY <2>1, <2>2, <2>3 DEF FilterOp, AddOp
  <2>6. <<x, y>> \in R
    BY <1>13, <2>4
  <2> QED BY <2>5, <2>6
<1>15. <<base, <<>> >> \in R
  BY <1>6, <1>10, <1>13
<1>16. PICK z : z = <<>> /\ z \in A
  BY <1>10
<1>17. <<Through(FilterOp(Texts, G), base, seq), Through(AddOp(Texts, A), z, seq)>> \in R
  <2>1. <<base, z>> \in R
    BY <1>15, <1>16
  <2> QED BY <1>6, <1>9, <1>14, <1>16, <2>1, ThroughBoth
<1>18. PICK x, l : x = SwitchFilters(c, m) /\ l = AddAll(ModeFilters[m]) /\ <<x, l>> \in R
  BY <1>1, <1>5, <1>11, <1>12, <1>16, <1>17 DEF SwitchFilters
<1>19. x \in G /\ LookupList(x, "filter") = l
  BY <1>13, <1>18
<1> QED BY <1>3, <1>18, <1>19

-----------------------------------------------------------------------------
(* What entries mean.                                                       *)

\* The values of all options, and whether the mode was left to be found.
Views == {v \in [Keys -> Texts \cup Seq(Texts)] :
            /\ \A k \in Scalars : v[k] \in Texts
            /\ \A k \in Lists : v[k] \in Seq(Texts)
            /\ v["run-together-limit"] \in IntTexts}
States == [view : Views, none : BOOLEAN]
Start == [view |-> [k \in Keys |-> Default(k)], none |-> TRUE]

\* An entry that resets a list hides the ones that follow (config.cpp:416-424).
Plain == {e \in Entry : ~(e.key \in Lists /\ e.action = "Reset")}

\* An entry as a commit leaves it.
Amended(e) ==
  IF ~Legal(e) THEN [e EXCEPT !.action = "NoOp"]
  ELSE IF e.key = "ignore-case" /\ e.action = "Set" /\ e.value = "" THEN [e EXCEPT !.value = "true"]
  ELSE e

\* What an entry that is written down makes of the option k.
Says(old, e, k) ==
  IF e.key # k \/ e.action = "NoOp" THEN old
  ELSE IF k \in Lists THEN Heed(old, e, k)
  ELSE IF e.action = "Reset" THEN Default(k) ELSE e.value
SaysNone(old, e) == IF e.key = "mode" /\ e.action # "NoOp" THEN e.action = "Reset" ELSE old
Written(x, e) == [view |-> [k \in Keys |-> Says(x.view[k], e, k)], none |-> SaysNone(x.none, e)]

\* And what committing it does: a known mode brings its filters.
WithFilters(x, list) == [view |-> [x.view EXCEPT !["filter"] = list], none |-> x.none]
Mode(e) == IF e.action = "Reset" THEN Default("mode") ELSE e.value
Expands(e) == Legal(e) /\ e.key = "mode" /\ Mode(e) \in DOMAIN ModeFilters
Means(x, e) ==
  IF Expands(e) THEN WithFilters(Written(x, e), AddAll(ModeFilters[Mode(e)]))
  ELSE Written(x, Amended(e))

\* The kinds of options and their defaults.
LEMMA KeyFacts ==
  /\ Keys = Scalars \cup Lists
  /\ \A k \in Scalars : k \notin Lists
  /\ Scalars \subseteq Texts /\ Lists \subseteq Texts
  /\ \A k \in Scalars : Default(k) \in Texts
  /\ Default("run-together-limit") \in IntTexts
  /\ \A k \in Lists : Default(k) \in Seq(Texts)
  /\ "filter" \in Lists /\ "mode" \in Scalars
<1>1. \A k \in Lists : Default(k) \in Seq(Texts)
  <2>1. "" \in Texts
    BY DEF Texts
  <2>2. PICK l \in Seq(Texts) : l = <<>>
    <3>1. <<>> \in Seq(Texts)
      OBVIOUS
    <3> QED BY <3>1
  <2>3. PICK v \in Texts : v = ""
    BY <2>1
  <2> QED BY <2>2, <2>3, ListTypes
<1>2. \A k \in Scalars : Default(k) \in Texts
  BY DEF Scalars, Default, Texts
<1>3. Default("run-together-limit") \in IntTexts
  BY DEF Default, IntTexts
<1> QED BY <1>1, <1>2, <1>3 DEF Keys, Scalars, Lists, Texts

\* Without requests there are the defaults.
LEMMA StartTyped == Start \in States
<1>1. [k \in Keys |-> Default(k)] \in Views
  BY KeyFacts DEF Views, Scalars
<1> QED BY <1>1 DEF Start, States

\* The filters of a mode are a list of texts.
LEMMA FiltersTyped ==
  ASSUME NEW m \in DOMAIN ModeFilters
  PROVE  AddAll(ModeFilters[m]) \in Seq(Texts) /\ ModeFilters[m] \in Seq(Texts)
<1>1. PICK seq \in Seq(Texts) : seq = ModeFilters[m]
  <2>1. ModeFilters[m] \in Seq(STRING)
    BY ModesAssumption
  <2>2. STRING \subseteq Texts
    BY DEF Texts
  <2>3. ModeFilters[m] \in Seq(Texts)
    BY <2>1, <2>2, SeqMonotonic
  <2> QED BY <2>3
<1>2. PICK A : A = Seq(Texts)
  OBVIOUS
<1>3. <<>> \in A /\ AddOp(Texts, A) \in [Texts -> [A -> A]]
  BY <1>2, ListTypes DEF AddOp
<1>4. AddAll(seq) = Through(AddOp(Texts, A), <<>>, seq)
  BY <1>3, AddLeads
<1>5. Through(AddOp(Texts, A), <<>>, seq) \in A
  BY <1>3, ThroughStays
<1> QED BY <1>1, <1>2, <1>4, <1>5

\* Amending an entry.
LEMMA AmendedTyped ==
  ASSUME NEW e \in Plain
  PROVE  /\ Amended(e) \in Plain /\ Amended(e).key = e.key
         /\ Legal(e) => Amended(e).action = e.action
         /\ ~Legal(e) => Amended(e).action = "NoOp"
         /\ e.key = "run-together-limit" /\ Amended(e).action = "Set" => Amended(e).value \in IntTexts
         /\ e.key \notin Lists => Amended(e).action \in {"Set", "Reset", "NoOp"}
         /\ e.key # "ignore-case" /\ Legal(e) => Amended(e) = e
         /\ Legal(Amended(e)) \/ Amended(e).action = "NoOp"
<1>1. PICK f : f = Amended(e)
  OBVIOUS
<1>2. CASE ~Legal(e)
  <2>1. f = [e EXCEPT !.action = "NoOp"]
    BY <1>1, <1>2 DEF Amended
  <2>2. f \in Entry /\ f.key = e.key /\ f.action = "NoOp"
    BY <2>1 DEF Plain, Entry, Texts
  <2> QED BY <1>1, <1>2, <2>2 DEF Plain
<1>3. CASE Legal(e) /\ e.key = "ignore-case" /\ e.action = "Set" /\ e.value = ""
  <2>1. f = [e EXCEPT !.value = "true"]
    BY <1>1, <1>3 DEF Amended
  <2>2. f \in Entry /\ f.key = e.key /\ f.action = "Set" /\ f.value = "true"
    BY <1>3, <2>1 DEF Plain, Entry, Texts
  <2> QED BY <1>1, <1>3, <2>2 DEF Plain, Lists, Legal, Keys, Scalars
<1>4. CASE Legal(e) /\ ~(e.key = "ignore-case" /\ e.action = "Set" /\ e.value = "")
  <2>1. f = e
    BY <1>1, <1>4 DEF Amended
  <2> QED BY <1>1, <1>4, <2>1 DEF Legal
<1> QED BY <1>2, <1>3, <1>4

\* An entry a commit would leave makes values of the right kinds.
LEMMA WrittenTyped ==
  ASSUME NEW x \in States, NEW e \in Plain,
         e.key = "run-together-limit" /\ e.action = "Set" => e.value \in IntTexts,
         e.key \notin Lists => e.action \in {"Set", "Reset", "NoOp"}
  PROVE  Written(x, e) \in States
<1>1. e.value \in Texts /\ e \in Entry
  BY DEF Plain, Entry
<1>2. x.view \in Views /\ x.none \in BOOLEAN
  BY DEF States
<1>3. ASSUME NEW k \in Scalars PROVE Says(x.view[k], e, k) \in Texts
  BY <1>1, <1>2, KeyFacts DEF Says, Views
<1>4. ASSUME NEW k \in Lists PROVE Says(x.view[k], e, k) \in Seq(Texts)
  <2>1. PICK l \in Seq(Texts) : l = x.view[k]
    BY <1>2 DEF Views
  <2>2. Edit(l, e, k) \in Seq(Texts) /\ Default(k) \in Seq(Texts)
    <3>1. PICK v \in Texts : v = e.value
      BY <1>1
    <3>2. \A f \in Entry : \A j : Edit(l, f, j) \in Seq(Texts)
      BY <3>1, ListTypes
    <3> QED BY <1>1, <3>2, KeyFacts
  <2>3. PICK z \in Seq(Texts) : z = <<>>
    <3>1. <<>> \in Seq(Texts)
      OBVIOUS
    <3> QED BY <3>1
  <2>4. AddTo(z, e.value) \in Seq(Texts)
    BY <1>1, ListTypes
  <2> QED BY <2>1, <2>2, <2>3, <2>4 DEF Says, Heed
<1>5. Says(x.view["run-together-limit"], e, "run-together-limit") \in IntTexts
  BY <1>2, KeyFacts DEF Says, Views, Lists
<1>6. SaysNone(x.none, e) \in BOOLEAN
  BY <1>2 DEF SaysNone
<1>7. [k \in Keys |-> Says(x.view[k], e, k)] \in Views
  BY <1>3, <1>4, <1>5, KeyFacts DEF Views, Scalars
<1> QED BY <1>6, <1>7 DEF Written, States

\* And so does a list of filters.
LEMMA WithFiltersTyped ==
  ASSUME NEW x \in States, NEW list \in Seq(Texts)
  PROVE  WithFilters(x, list) \in States
<1>1. x.view \in Views /\ x.none \in BOOLEAN
  BY DEF States
<1>2. PICK v : v = [x.view EXCEPT !["filter"] = list]
  OBVIOUS
<1>3. /\ v \in [Keys -> Texts \cup Seq(Texts)] /\ v["filter"] = list
      /\ \A k \in Keys : k # "filter" => v[k] = x.view[k]
  BY <1>1, <1>2, KeyFacts DEF Views
<1>4. v \in Views
  BY <1>1, <1>3, KeyFacts DEF Views, Scalars, Lists, Keys
<1> QED BY <1>1, <1>2, <1>4 DEF WithFilters, States

\* And the commit of any entry.
LEMMA MeansTyped ==
  ASSUME NEW x \in States, NEW e \in Plain
  PROVE  Means(x, e) \in States
<1>1. CASE Expands(e)
  <2>1. e = Amended(e)
    BY <1>1, AmendedTyped DEF Expands
  <2>2. Written(x, e) \in States
    BY <2>1, AmendedTyped, WrittenTyped
  <2> QED BY <1>1, <2>2, FiltersTyped, WithFiltersTyped DEF Means, Expands
<1>2. CASE ~Expands(e)
  <2>1. PICK f \in Plain : /\ f = Amended(e)
                           /\ f.key = "run-together-limit" /\ f.action = "Set" => f.value \in IntTexts
                           /\ f.key \notin Lists => f.action \in {"Set", "Reset", "NoOp"}
    BY AmendedTyped
  <2>2. Written(x, f) \in States
    BY <2>1, WrittenTyped
  <2> QED BY <1>2, <2>1, <2>2 DEF Means
<1> QED BY <1>1, <1>2

\* The function that goes through a list of entries.
MeansOp == [e \in Plain |-> [x \in States |-> Means(x, e)]]

\* The same, as a function.
LEMMA MeansOpTyped == MeansOp \in [Plain -> [States -> States]]
  BY MeansTyped DEF MeansOp

-----------------------------------------------------------------------------
(* What is looked up.                                                       *)

\* The entries of a committed configuration.
Kept == {e \in Plain : Sound(e)}

\* They are entries that reset no list.
LEMMA KeptFacts ==
  /\ Kept \subseteq Plain /\ Plain \subseteq Entry
  /\ Seq(Kept) \subseteq Seq(Plain) /\ Seq(Plain) \subseteq Seq(Entry)
<1>1. Kept \subseteq Plain /\ Plain \subseteq Entry
  BY DEF Kept, Plain
<1> QED BY <1>1, SeqMonotonic

\* Such an entry is committed again as it is written.
LEMMA KeptMeans ==
  ASSUME NEW x \in States, NEW e \in Kept
  PROVE  /\ Written(x, e) \in States
         /\ ~Expands(e) => Means(x, e) = Written(x, e)
<1>1. e \in Plain /\ Sound(e)
  BY DEF Kept
<1>2. /\ e.key = "run-together-limit" /\ e.action = "Set" => e.value \in IntTexts
      /\ e.key \notin Lists => e.action \in {"Set", "Reset", "NoOp"}
  BY <1>1 DEF Sound, Legal
<1>3. Written(x, e) \in States
  BY <1>1, <1>2, WrittenTyped
<1>4. ASSUME ~Expands(e) PROVE Means(x, e) = Written(x, e)
  <2>1. Means(x, e) = Written(x, Amended(e))
    BY <1>4 DEF Means
  <2>2. CASE Legal(e)
    <3>1. Amended(e) = e
      BY <1>1, <2>2 DEF Amended, Sound
    <3> QED BY <2>1, <3>1
  <2>3. CASE ~Legal(e)
    <3>1. e.action = "NoOp"
      BY <1>1, <2>3 DEF Sound
    <3>2. Amended(e) = e
      <4>1. Amended(e) = [e EXCEPT !.action = "NoOp"]
        BY <2>3 DEF Amended
      <4> QED BY <1>1, <3>1, <4>1 DEF Plain, Entry
    <3> QED BY <2>1, <3>2
  <2> QED BY <2>2, <2>3
<1> QED BY <1>3, <1>4

\* The function that goes through the entries as a lookup does.
WrittenOp == [e \in Kept |-> [x \in States |-> Written(x, e)]]

\* The function goes from values to values.
LEMMA WrittenOpTyped == WrittenOp \in [Kept -> [States -> States]]
  BY KeptMeans DEF WrittenOp

\* What a configuration shows of its options.
Shows(c, x) ==
  /\ \A k \in Keys : Value(c, k) = x.view[k]
  /\ (Lookup(c, "mode") = {}) <=> x.none
ShowsAll(s) ==
  \A c : c.entries = s => /\ Shows(c, Through(WrittenOp, Start, s))
                          /\ \A k \in Lists : ~ResetLast(c, k)

\* Without entries there are the defaults.
LEMMA EmptyShows == ShowsAll(<<>>)
<1> SUFFICES ASSUME NEW c, c.entries = <<>>
             PROVE  Shows(c, Start) /\ \A k \in Lists : ~ResetLast(c, k)
  BY ThroughEmpty DEF ShowsAll
<1>1. DOMAIN c.entries = {} /\ Len(c.entries) = 0
  OBVIOUS
<1>2. \A k : Lookup(c, k) = {} /\ Deciding(c, k) = {} /\ EntriesOf(c, k) = {}
  BY <1>1 DEF Lookup, Deciding, EntriesOf
<1>3. ASSUME NEW k \in Lists PROVE LookupList(c, k) = Default(k)
  <2>1. LookupList(c, k) = ListFrom(c, k, 1)
    BY <1>1, <1>2 DEF LookupList, StartOf
  <2>2. ActionAt(c, 1) = "NoOp"
    BY <1>1 DEF ActionAt
  <2>3. SubSeq(c.entries, 1, 0) = <<>>
    OBVIOUS
  <2>4. LookupList(c, k) = Edits(Default(k), <<>>, k)
    BY <1>1, <2>1, <2>2, <2>3 DEF ListFrom, EditFrom
  <2> QED BY <2>4, EditsEmpty, KeyFacts
<1>4. ASSUME NEW k \in Keys PROVE Value(c, k) = Start.view[k]
  <2>1. Start.view[k] = Default(k)
    BY DEF Start
  <2>2. k \notin Lists => Retrieve(c, k) = Default(k)
    BY <1>2 DEF Retrieve
  <2> QED BY <1>3, <2>1, <2>2 DEF Value
<1>5. \A k \in Lists : ~ResetLast(c, k)
  BY <1>2 DEF ResetLast
<1> QED BY <1>2, <1>4, <1>5 DEF Shows, Start

\* One more entry.
LEMMA WrittenShown ==
  ASSUME NEW c, NEW d, NEW e \in Plain, Longer(d, c, e), NEW x, Shows(c, x),
         \A k \in Lists : ~ResetLast(c, k)
  PROVE  Shows(d, Written(x, e)) /\ \A k \in Lists : ~ResetLast(d, k)
<1>1. PICK y : y = Written(x, e)
  OBVIOUS
<1>2. /\ \A k \in Keys : y.view[k] = Says(x.view[k], e, k)
      /\ y.none = SaysNone(x.none, e)
  BY <1>1 DEF Written
<1>3. ASSUME NEW k \in Lists
      PROVE  LookupList(d, k) = Heed(LookupList(c, k), e, k) /\ ~ResetLast(d, k)
  <2>1. Decides(e, k) => e.action # "Reset"
    BY DEF Decides, Plain
  <2> QED BY <2>1, AppendedListed
<1>4. ASSUME NEW k \in Keys PROVE Value(d, k) = y.view[k]
  <2>1. CASE k \in Lists
    <3>1. LookupList(c, k) = x.view[k]
      BY <1>4, <2>1 DEF Shows, Value
    <3>2. Heed(x.view[k], e, k) = Says(x.view[k], e, k)
      BY <2>1 DEF Says, Heed, Edit
    <3> QED BY <1>2, <1>3, <2>1, <3>1, <3>2 DEF Value
  <2>2. CASE k \notin Lists
    <3>1. Retrieve(c, k) = x.view[k]
      BY <1>4, <2>2 DEF Shows, Value
    <3>2. Retrieve(d, k) = IF e.key = k /\ e.action # "NoOp"
                           THEN IF e.action = "Reset" THEN Default(k) ELSE e.value
                           ELSE Retrieve(c, k)
      BY LongerRetrieved
    <3> QED BY <1>2, <2>2, <3>1, <3>2 DEF Value, Says
  <2> QED BY <2>1, <2>2
<1>5. (Lookup(d, "mode") = {}) <=> y.none
  <2>1. PICK s \in Seq(Entry) : s = c.entries /\ d.entries = Append(s, e) /\ e \in Entry
    BY DEF Longer
  <2>2. Lookup(d, "mode") = Found(Append(s, e), "mode") /\ Lookup(c, "mode") = Found(s, "mode")
    BY <2>1, LookupFinds
  <2>3. Found(Append(s, e), "mode") =
          IF e.key = "mode" /\ e.action # "NoOp"
          THEN IF e.action = "Reset" THEN {} ELSE {e}
          ELSE Found(s, "mode")
    BY <2>1, AppendedFound
  <2>4. (Lookup(c, "mode") = {}) <=> x.none
    BY DEF Shows
  <2> QED BY <1>2, <2>2, <2>3, <2>4 DEF SaysNone
<1> QED BY <1>1, <1>3, <1>4, <1>5 DEF Shows

\* A lookup comes to going through the entries from the first to the last.
LEMMA EntriesShow ==
  ASSUME NEW s \in Seq(Kept)
  PROVE  ShowsAll(s)
<1>1. PICK S : S = {t \in Seq(Kept) : ShowsAll(t)}
  OBVIOUS
<1>2. <<>> \in S
  BY <1>1, EmptyShows
<1>3. ASSUME NEW t \in Seq(Kept), t \in S, NEW e \in Kept PROVE Append(t, e) \in S
  <2>1. ShowsAll(t) /\ Append(t, e) \in Seq(Kept)
    BY <1>1, <1>3, AppendProperties
  <2>2. PICK c : c = [entries |-> t]
    OBVIOUS
  <2>3. c.entries = t
    BY <2>2
  <2>4. PICK x : x = Through(WrittenOp, Start, t)
    OBVIOUS
  <2>5. Shows(c, x) /\ \A k \in Lists : ~ResetLast(c, k)
    BY <2>1, <2>3, <2>4 DEF ShowsAll
  <2>6. x \in States /\ Through(WrittenOp, Start, Append(t, e)) = Written(x, e)
    <3>1. PICK op \in [Kept -> [States -> States]], a \in States : op = WrittenOp /\ a = Start
      BY WrittenOpTyped, StartTyped
    <3>2. Through(op, a, t) \in States /\ Through(op, a, Append(t, e)) = op[e][Through(op, a, t)]
      BY ThroughAppend
    <3>3. x \in States /\ Through(WrittenOp, Start, Append(t, e)) = WrittenOp[e][x]
      BY <2>4, <3>1, <3>2
    <3> QED BY <3>3 DEF WrittenOp
  <2>7. ASSUME NEW d, d.entries = Append(t, e)
        PROVE  Shows(d, Written(x, e)) /\ \A k \in Lists : ~ResetLast(d, k)
    <3>1. Longer(d, c, e) /\ e \in Plain
      BY <2>3, <2>7, KeptFacts DEF Longer
    <3> QED BY <2>5, <3>1, WrittenShown
  <2>8. ShowsAll(Append(t, e))
    BY <2>6, <2>7 DEF ShowsAll
  <2> QED BY <1>1, <2>1, <2>8
<1>4. Seq(Kept) \subseteq S
  BY <1>2, <1>3, SeqSetInduction
<1> QED BY <1>1, <1>4

-----------------------------------------------------------------------------
(* Lists of entries: what a lookup makes of them, and what commits would.    *)

Wrote(x, s) == Through(WrittenOp, x, s)
Meant(x, s) == Through(MeansOp, x, s)

\* One more entry, and a list behind another.
LEMMA WroteFacts ==
  ASSUME NEW x \in States, NEW s \in Seq(Kept)
  PROVE  /\ Wrote(x, s) \in States
         /\ \A e \in Kept : Wrote(x, Append(s, e)) = Written(Wrote(x, s), e)
         /\ \A t \in Seq(Kept) : Wrote(x, s \o t) = Wrote(Wrote(x, s), t)
<1>1. PICK op \in [Kept -> [States -> States]] : op = WrittenOp
  BY WrittenOpTyped
<1>2. Wrote(x, s) \in States /\ Wrote(x, s) = Through(op, x, s)
  BY <1>1, ThroughStays DEF Wrote
<1>3. ASSUME NEW e \in Kept PROVE Wrote(x, Append(s, e)) = Written(Wrote(x, s), e)
  <2>1. Through(op, x, Append(s, e)) = op[e][Through(op, x, s)]
    BY ThroughAppend
  <2>2. PICK y \in States : y = Wrote(x, s)
    BY <1>2
  <2>3. op[e][y] = Written(y, e)
    BY <1>1 DEF WrittenOp
  <2>4. Wrote(x, Append(s, e)) = op[e][y]
    BY <1>1, <1>2, <2>1, <2>2 DEF Wrote
  <2> QED BY <2>2, <2>3, <2>4
<1>4. ASSUME NEW t \in Seq(Kept) PROVE Wrote(x, s \o t) = Wrote(Wrote(x, s), t)
  <2>1. PICK y \in States : y = Through(op, x, s)
    BY <1>2
  <2>2. Through(op, x, s \o t) = Through(op, y, t)
    BY <2>1, ThroughConcat
  <2> QED BY <1>1, <2>1, <2>2 DEF Wrote
<1> QED BY <1>2, <1>3, <1>4

\* The same for entries that are committed again.
LEMMA MeantFacts ==
  ASSUME NEW x \in States, NEW s \in Seq(Plain)
  PROVE  /\ Meant(x, s) \in States
         /\ \A e \in Plain : Meant(x, Append(s, e)) = Means(Meant(x, s), e)
         /\ \A t \in Seq(Plain) : Meant(x, s \o t) = Meant(Meant(x, s), t)
<1>1. PICK op \in [Plain -> [States -> States]] : op = MeansOp
  BY MeansOpTyped
<1>2. Meant(x, s) \in States /\ Meant(x, s) = Through(op, x, s)
  BY <1>1, ThroughStays DEF Meant
<1>3. ASSUME NEW e \in Plain PROVE Meant(x, Append(s, e)) = Means(Meant(x, s), e)
  <2>1. Through(op, x, Append(s, e)) = op[e][Through(op, x, s)]
    BY ThroughAppend
  <2>2. PICK y \in States : y = Meant(x, s)
    BY <1>2
  <2>3. op[e][y] = Means(y, e)
    BY <1>1 DEF MeansOp
  <2>4. Meant(x, Append(s, e)) = op[e][y]
    BY <1>1, <1>2, <2>1, <2>2 DEF Meant
  <2> QED BY <2>2, <2>3, <2>4
<1>4. ASSUME NEW t \in Seq(Plain) PROVE Meant(x, s \o t) = Meant(Meant(x, s), t)
  <2>1. PICK y \in States : y = Through(op, x, s)
    BY <1>2
  <2>2. Through(op, x, s \o t) = Through(op, y, t)
    BY <2>1, ThroughConcat
  <2> QED BY <1>1, <2>1, <2>2 DEF Meant
<1> QED BY <1>2, <1>3, <1>4

\* No entry changes nothing.
LEMMA NoneWritten ==
  ASSUME NEW x
  PROVE  Wrote(x, <<>>) = x /\ Meant(x, <<>>) = x
  BY ThroughEmpty DEF Wrote, Meant

\* One entry.
LEMMA OneWritten ==
  ASSUME NEW x \in States
  PROVE  /\ \A e \in Kept : <<e>> \in Seq(Kept) /\ Wrote(x, <<e>>) = Written(x, e)
         /\ \A e \in Plain : <<e>> \in Seq(Plain) /\ Meant(x, <<e>>) = Means(x, e)
<1>1. ASSUME NEW e \in Kept PROVE <<e>> \in Seq(Kept) /\ Wrote(x, <<e>>) = Written(x, e)
  <2>1. PICK op \in [Kept -> [States -> States]] : op = WrittenOp
    BY WrittenOpTyped
  <2>2. Through(op, x, <<e>>) = op[e][x]
    BY ThroughOne
  <2> QED BY <2>1, <2>2 DEF Wrote, WrittenOp
<1>2. ASSUME NEW e \in Plain PROVE <<e>> \in Seq(Plain) /\ Meant(x, <<e>>) = Means(x, e)
  <2>1. PICK op \in [Plain -> [States -> States]] : op = MeansOp
    BY MeansOpTyped
  <2>2. Through(op, x, <<e>>) = op[e][x]
    BY ThroughOne
  <2> QED BY <2>1, <2>2 DEF Meant, MeansOp
<1> QED BY <1>1, <1>2

\* An entry that a filter mode adds.
LEMMA FilterWritten ==
  ASSUME NEW action \in {"ListAdd", "ListClear"}, NEW v \in Texts, NEW e,
         e = NewEntry("filter", action, v)
  PROVE  /\ e \in Kept /\ ~Expands(e)
         /\ \A x \in States : \A l :
              Written(WithFilters(x, l), e)
                = WithFilters(x, IF action = "ListClear" THEN <<>> ELSE AddTo(l, v))
<1>1. e.key = "filter" /\ e.action = action /\ e.value = v
  BY DEF NewEntry
<1>2. e \in Entry
  <2>1. "filter" \in Texts /\ action \in Texts
    BY DEF Texts
  <2> QED BY <2>1 DEF NewEntry, Entry
<1>3. e \in Kept /\ ~Expands(e)
  BY <1>1, <1>2 DEF Kept, Plain, Sound, Legal, Expands, Keys, Lists
<1>4. ASSUME NEW x \in States, NEW l
      PROVE  Written(WithFilters(x, l), e)
               = WithFilters(x, IF action = "ListClear" THEN <<>> ELSE AddTo(l, v))
  <2>1. PICK new : new = IF action = "ListClear" THEN <<>> ELSE AddTo(l, v)
    OBVIOUS
  <2>2. DOMAIN x.view = Keys
    BY DEF States, Views
  <2>3. x.view = [k \in Keys |-> x.view[k]]
    BY <2>2 DEF States, Views
  <2>4. PICK w : w = [x.view EXCEPT !["filter"] = l]
    OBVIOUS
  <2>5. Says(w["filter"], e, "filter") = new
    <3>1. w["filter"] = l
      BY <2>2, <2>4, KeyFacts
    <3> QED BY <1>1, <2>1, <3>1, KeyFacts DEF Says, Heed, Edit
  <2>6. \A k \in Keys : k # "filter" => Says(w[k], e, k) = x.view[k]
    BY <1>1, <2>2, <2>4 DEF Says
  <2>7. [k \in Keys |-> Says(w[k], e, k)] = [x.view EXCEPT !["filter"] = new]
    BY <2>2, <2>3, <2>5, <2>6
  <2>8. SaysNone(x.none, e) = x.none
    BY <1>1 DEF SaysNone
  <2>9. WithFilters(x, l).view = w /\ WithFilters(x, l).none = x.none
    BY <2>4 DEF WithFilters
  <2> QED BY <2>1, <2>7, <2>8, <2>9 DEF Written, WithFilters
<1> QED BY <1>3, <1>4

\* Entries after which the filters are those of the list, and nothing else is changed.
Brings(s, l) ==
  /\ s \in Seq(Kept)
  /\ \A x \in States : Wrote(x, s) = WithFilters(x, l) /\ Meant(x, s) = WithFilters(x, l)

\* A filter more.
LEMMA BringsMore ==
  ASSUME NEW s, NEW l \in Seq(Texts), Brings(s, l), NEW v \in Texts
  PROVE  Brings(Append(s, NewEntry("filter", "ListAdd", v)), AddTo(l, v))
<1>1. PICK e : e = NewEntry("filter", "ListAdd", v)
  OBVIOUS
<1>2. /\ e \in Kept /\ ~Expands(e)
      /\ \A x \in States : Written(WithFilters(x, l), e) = WithFilters(x, AddTo(l, v))
  BY <1>1, FilterWritten
<1>3. s \in Seq(Kept) /\ s \in Seq(Plain) /\ e \in Plain
  BY <1>2, KeptFacts DEF Brings
<1>4. Append(s, e) \in Seq(Kept)
  BY <1>2, <1>3, AppendProperties
<1>5. ASSUME NEW x \in States
      PROVE  /\ Wrote(x, Append(s, e)) = WithFilters(x, AddTo(l, v))
             /\ Meant(x, Append(s, e)) = WithFilters(x, AddTo(l, v))
  <2>1. PICK y \in States : y = WithFilters(x, l)
    BY WithFiltersTyped
  <2>2. Wrote(x, s) = y /\ Meant(x, s) = y
    BY <2>1 DEF Brings
  <2>3. Wrote(x, Append(s, e)) = Written(y, e)
    BY <1>2, <1>3, <2>2, WroteFacts
  <2>4. Meant(x, Append(s, e)) = Means(y, e)
    BY <1>3, <2>2, MeantFacts
  <2>5. Means(y, e) = Written(y, e)
    BY <1>2, KeptMeans
  <2> QED BY <1>2, <2>1, <2>3, <2>4, <2>5
<1> QED BY <1>1, <1>4, <1>5 DEF Brings

\* The list is cleared before the filters of a mode are added.
LEMMA BringsNone == Brings(<<NewEntry("filter", "ListClear", "")>>, <<>>)
<1>1. PICK v \in Texts, action \in {"ListAdd", "ListClear"} : v = "" /\ action = "ListClear"
  BY DEF Texts
<1>e. PICK e : e = NewEntry("filter", action, v)
  OBVIOUS
<1>2. /\ e \in Kept /\ ~Expands(e)
      /\ \A x \in States : \A l : Written(WithFilters(x, l), e) = WithFilters(x, <<>>)
  <2>1. /\ e \in Kept /\ ~Expands(e)
        /\ \A x \in States : \A l :
              Written(WithFilters(x, l), e)
                = WithFilters(x, IF action = "ListClear" THEN <<>> ELSE AddTo(l, v))
    BY <1>e, FilterWritten
  <2> QED BY <1>1, <2>1
<1>3. ASSUME NEW x \in States
      PROVE  Wrote(x, <<e>>) = WithFilters(x, <<>>) /\ Meant(x, <<e>>) = WithFilters(x, <<>>)
  <2>1. WithFilters(x, x.view["filter"]) = x
    <3>1. x.view = [x.view EXCEPT !["filter"] = x.view["filter"]]
      BY KeyFacts DEF States, Views
    <3>2. x = [view |-> x.view, none |-> x.none]
      BY DEF States
    <3> QED BY <3>1, <3>2 DEF WithFilters
  <2>2. Written(x, e) = WithFilters(x, <<>>)
    BY <1>2, <2>1
  <2>3. e \in Plain
    BY <1>2, KeptFacts
  <2> QED BY <1>2, <2>2, <2>3, OneWritten, KeptMeans
<1>4. <<e>> \in Seq(Kept)
  BY <1>2
<1> QED BY <1>1, <1>e, <1>3, <1>4 DEF Brings

-----------------------------------------------------------------------------
(* The entries a commit adds.                                               *)

\* An entry is put at the end of a committed configuration.
LEMMA DoneInserted ==
  ASSUME NEW a, NEW c \in Done(a), NEW e \in Entry, NEW d, d = Insert(c, e)
  PROVE  /\ d.entries = Append(c.entries, e) /\ Longer(d, c, e)
         /\ d.settingsRead = c.settingsRead /\ d.failed = c.failed
         /\ d.committed /\ c.committed
         /\ c \in Configuration /\ d \in Configuration
<1>1. c \in Placed /\ c \in Configuration /\ c.insertPoint = Len(c.entries) /\ c.committed
      /\ c.entries \in Seq(Entry)
  BY DEF Done, Clean, Placed, Configuration
<1>2. /\ d \in Placed /\ d.entries = Append(c.entries, e)
      /\ d = [c EXCEPT !.entries = d.entries, !.insertPoint = c.insertPoint + 1]
  BY <1>1, Inserted
<1>3. d.settingsRead = c.settingsRead /\ d.failed = c.failed /\ d.committed = c.committed
  BY <1>1, <1>2 DEF Configuration
<1>4. Longer(d, c, e)
  BY <1>1, <1>2 DEF Longer
<1> QED BY <1>1, <1>2, <1>3, <1>4 DEF Placed

\* d has more entries than c, that bring the filters l.
Expanded(d, c, l) ==
  /\ d.settingsRead = c.settingsRead
  /\ \E s \in Seq(Kept) : d.entries = c.entries \o s /\ Brings(s, l)

\* FilterMode::expand.
LEMMA ExpandAdds ==
  ASSUME NEW a \in BOOLEAN, NEW c \in Done(a), c.entries \in Seq(Kept),
         NEW m \in DOMAIN ModeFilters
  PROVE  Expanded(SwitchFilters(c, m), c, AddAll(ModeFilters[m]))
<1>1. PICK seq \in Seq(Texts) : seq = ModeFilters[m]
  BY FiltersTyped
<1>2. PICK A : A = Seq(Texts)
  OBVIOUS
<1>3. PICK G : G = Done(a)
  OBVIOUS
<1>4. PICK base : base = Insert(c, NewEntry("filter", "ListClear", ""))
  OBVIOUS
<1>5. PICK z \in A : z = <<>>
  <2>1. <<>> \in Seq(Texts)
    OBVIOUS
  <2> QED BY <1>2, <2>1
<1>6. base \in G /\ Expanded(base, c, z)
  <2>1. PICK e : e = NewEntry("filter", "ListClear", "")
    OBVIOUS
  <2>2. "" \in Texts
    BY DEF Texts
  <2>3. base \in G
    BY <1>3, <1>4, <2>2, ListInsert
  <2>4. e \in Kept
    BY <2>1, <2>2, FilterWritten
  <2>5. e \in Entry
    BY <2>4, KeptFacts
  <2>6. base.entries = Append(c.entries, e) /\ base.settingsRead = c.settingsRead
    BY <1>4, <2>1, <2>5, DoneInserted
  <2>7. Append(c.entries, e) = c.entries \o <<e>>
    BY <2>4, AppendIsConcat
  <2>8. Brings(<<e>>, z)
    BY <1>5, <2>1, BringsNone
  <2>9. <<e>> \in Seq(Kept)
    BY <2>4
  <2> QED BY <2>3, <2>6, <2>7, <2>8, <2>9 DEF Expanded
<1>7. ASSUME NEW d \in G, NEW l \in A, Expanded(d, c, l), NEW f \in Texts
      PROVE  /\ Insert(d, NewEntry("filter", "ListAdd", f)) \in G
             /\ Expanded(Insert(d, NewEntry("filter", "ListAdd", f)), c, AddTo(l, f))
  <2>1. PICK e : e = NewEntry("filter", "ListAdd", f)
    OBVIOUS
  <2>2. PICK x : x = Insert(d, e)
    OBVIOUS
  <2>3. e \in Kept /\ e \in Entry
    BY <2>1, KeptFacts, FilterWritten
  <2>4. x \in G
    BY <1>3, <2>1, <2>2, ListInsert
  <2>5. x.entries = Append(d.entries, e) /\ x.settingsRead = d.settingsRead
    BY <1>3, <2>2, <2>3, DoneInserted
  <2>6. PICK s \in Seq(Kept) : d.entries = c.entries \o s /\ Brings(s, l)
    BY <1>7 DEF Expanded
  <2>7. Append(c.entries \o s, e) = c.entries \o Append(s, e) /\ Append(s, e) \in Seq(Kept)
    <3>1. PICK u \in Seq(Kept), one \in Seq(Kept) : u = c.entries /\ one = <<e>>
      <4>1. <<e>> \in Seq(Kept)
        BY <2>3
      <4> QED BY <4>1
    <3>2. u \o s \in Seq(Kept)
      BY ConcatProperties
    <3>3. Append(u \o s, e) = (u \o s) \o one /\ Append(s, e) = s \o one
      BY <2>3, <3>1, <3>2, AppendIsConcat
    <3>4. (u \o s) \o one = u \o (s \o one)
      BY SMTT(20), ConcatAssociative
    <3> QED BY <2>3, <3>1, <3>3, <3>4, AppendProperties
  <2>8. Brings(Append(s, e), AddTo(l, f))
    BY <1>2, <2>1, <2>6, BringsMore
  <2>9. Expanded(x, c, AddTo(l, f))
    BY <1>7, <2>5, <2>6, <2>7, <2>8 DEF Expanded
  <2> QED BY <2>1, <2>2, <2>4, <2>9
<1>8. FilterOp(Texts, G) \in [Texts -> [G -> G]] /\ AddOp(Texts, A) \in [Texts -> [A -> A]]
  <2>1. \A d \in G : \A f \in Texts : Insert(d, NewEntry("filter", "ListAdd", f)) \in G
    BY <1>3, ListInsert
  <2> QED BY <1>2, <2>1, ListTypes DEF FilterOp, AddOp
<1>9. AddFilters(base, seq) = Through(FilterOp(Texts, G), base, seq)
  BY <1>6, <1>8, FilterLeads
<1>10. AddAll(seq) = Through(AddOp(Texts, A), <<>>, seq)
  BY <1>5, <1>8, AddLeads
<1>11. PICK R : R = {p \in G \X A : Expanded(p[1], c, p[2])}
  OBVIOUS
<1>12. Related(R, Texts, FilterOp(Texts, G), AddOp(Texts, A))
  <2> SUFFICES ASSUME NEW f \in Texts, NEW d, NEW l, <<d, l>> \in R
               PROVE  <<FilterOp(Texts, G)[f][d], AddOp(Texts, A)[f][l]>> \in R
    BY DEF Related
  <2>1. d \in G /\ l \in A /\ Expanded(d, c, l)
    BY <1>11
  <2>2. PICK x, y : x = Insert(d, NewEntry("filter", "ListAdd", f)) /\ y = AddTo(l, f)
    OBVIOUS
  <2>3. x \in G /\ Expanded(x, c, y) /\ y \in A
    BY <1>2, <1>7, <2>1, <2>2, ListTypes
  <2>4. FilterOp(Texts, G)[f][d] = x /\ AddOp(Texts, A)[f][l] = y
    BY <2>1, <2>2 DEF FilterOp, AddOp
  <2>5. <<x, y>> \in R
    BY <1>11, <2>3
  <2> QED BY <2>4, <2>5
<1>13. <<Through(FilterOp(Texts, G), base, seq), Through(AddOp(Texts, A), z, seq)>> \in R
  <2>1. <<base, z>> \in R
    BY <1>5, <1>6, <1>11
  <2> QED BY <1>6, <1>8, <1>12, <2>1, ThroughBoth
<1>14. PICK x, l : x = SwitchFilters(c, m) /\ l = AddAll(ModeFilters[m]) /\ <<x, l>> \in R
  BY <1>1, <1>4, <1>5, <1>9, <1>10, <1>13 DEF SwitchFilters
<1>15. Expanded(x, c, l)
  BY <1>11, <1>14
<1> QED BY <1>14, <1>15

-----------------------------------------------------------------------------
(* Where every configuration is.                                           *)

\* The inductive invariant.
Inv ==
  /\ user \in Open \cup Done(FALSE)
  /\ speller \in Seq(Done(TRUE))
  /\ files \in FileContents

-----------------------------------------------------------------------------
(* The steps.                                                               *)

\* Taking the mode from the name of a file.
LEMMA ModeOfFileKeeps ==
  ASSUME NEW c \in Done(FALSE), NEW name
  PROVE  SetModeFromExtension(c, name) \in Done(FALSE)
<1>1. PICK modes : modes = {i \in DOMAIN ModeMagic : LocksTo(MagicKeys(ModeMagic[i].magic), name)}
  OBVIOUS
<1>2. CASE modes = {} \/ Lookup(c, "mode") # {}
  BY <1>1, <1>2 DEF SetModeFromExtension
<1>3. CASE ~(modes = {} \/ Lookup(c, "mode") # {})
  <2>1. PICK n \in Nat : DOMAIN ModeMagic = 1..n
    BY MagicAssumption
  <2>2. modes \subseteq Nat /\ modes # {} /\ modes \subseteq DOMAIN ModeMagic
    BY <1>1, <1>3, <2>1
  <2>3. \E x \in modes : \A y \in modes : x <= y
    BY <2>2, LeastNatural
  <2>4. Min(modes) \in modes
    BY <2>3 DEF Min
  <2>5. ModeMagic[Min(modes)].mode \in Texts
    <3>1. PICK i \in DOMAIN ModeMagic : i = Min(modes)
      BY <2>2, <2>4
    <3>2. ModeMagic[i].mode \in DOMAIN ModeFilters
      <4>1. PICK T : T = [mode : DOMAIN ModeFilters,
                          magic : Seq([magic : STRING, ext : Seq(STRING), remove : BOOLEAN])]
        OBVIOUS
      <4>2. ModeMagic \in Seq(T) /\ i \in 1..Len(ModeMagic)
        BY <4>1, MagicAssumption, LenProperties
      <4>3. ModeMagic[i] \in T
        BY <4>2, ElementOfSeq
      <4> QED BY <4>1, <4>3
    <3> QED BY <3>1, <3>2, ModesAssumption DEF Texts
  <2>6. PICK r : r = [prefix |-> "", key |-> "mode", value |-> ModeMagic[Min(modes)].mode]
    OBVIOUS
  <2>7. r \in Requests
    BY <2>5, <2>6 DEF Requests, OptionPrefixes, Texts
  <2>8. SetModeFromExtension(c, name) = Set(c, r)
    BY <1>1, <1>3, <2>6 DEF SetModeFromExtension
  <2> QED BY <2>7, <2>8, DoneKeeps, SetKeeps
<1> QED BY <1>2, <1>3
\* A new configuration, of a program or of the utility.
LEMMA InitInv == Init => Inv
<1> SUFFICES ASSUME Init PROVE Inv
  OBVIOUS
<1>1. PICK utility \in BOOLEAN : user = [NewConfig EXCEPT !.committed = ~utility]
  BY DEF Init
<1>2. NewConfig \in Done(FALSE)
  BY NewIsDone
<1>3. PICK c : c = user
  OBVIOUS
<1>4. /\ c.entries = <<>> /\ c.insertPoint = 0 /\ c.committed = ~utility
      /\ c.attached = FALSE /\ c \in Configuration
  <2>1. NewConfig \in Configuration /\ NewConfig.entries = <<>> /\ NewConfig.insertPoint = 0
        /\ NewConfig.attached = FALSE
    BY <1>2 DEF Done, Clean, Placed, NewConfig
  <2> QED BY <1>1, <1>3, <2>1 DEF Configuration
<1>5. c \in Placed
  BY <1>4 DEF Placed
<1>6. c \in Open \cup Done(FALSE)
  <2>1. CASE utility
    <3>1. c.committed = FALSE
      BY <1>4, <2>1
    <3> QED BY <1>4, <1>5, <3>1 DEF Open
  <2>2. CASE ~utility
    <3>1. \A i \in 1..Len(c.entries) : Sound(c.entries[i])
      BY <1>4
    <3>2. c.committed = TRUE /\ c.insertPoint = Len(c.entries)
      BY <1>4, <2>2
    <3>3. c \in Clean(FALSE)
      BY <1>4, <1>5, <3>1, <3>2 DEF Clean
    <3> QED BY <1>4, <3>3 DEF Done, Follows
  <2> QED BY <2>1, <2>2
<1>7. user \in Open \cup Done(FALSE)
  BY <1>3, <1>6
<1>8. speller \in Seq(Done(TRUE)) /\ files \in FileContents
  BY DEF Init
<1> QED BY <1>7, <1>8 DEF Inv

\* Every step keeps the invariant.
LEMMA NextInv == Inv /\ [Next]_vars => Inv'
<1> SUFFICES ASSUME Inv, [Next]_vars PROVE Inv'
  OBVIOUS
<1> USE DEF Inv
<1>1. ASSUME NEW r \in UserRequests, UserAsks(r) PROVE Inv'
  <2>1. r \in Requests
    BY RequestAssumption, RequestsOpen
  <2>2. CASE user \in Open
    <3>1. Set(user, r) \in Open
      BY <2>1, <2>2, OpenKeeps, SetKeeps
    <3> QED BY <1>1, <3>1 DEF UserAsks
  <2>3. CASE user \in Done(FALSE)
    <3>1. Set(user, r) \in Done(FALSE)
      BY <2>1, <2>3, DoneKeeps, SetKeeps
    <3> QED BY <1>1, <3>1 DEF UserAsks
  <2> QED BY <2>2, <2>3
<1>2. ASSUME NEW name \in Names, UtilityStarts(name) PROVE Inv'
  <2>1. PICK read : read = ReadInSettings(user, <<>>, files)
    OBVIOUS
  <2>2. read \in Open \cup Done(FALSE)
    <3>1. <<>> \in Seq(Done(FALSE)) /\ files \in Seq(Seq(Request))
      BY RequestAssumption
    <3> QED BY <2>1, <3>1, SettingsRead
  <2>3. PICK x : x = [read EXCEPT !.failed = FALSE]
    OBVIOUS
  <2>4. x \in Placed /\ ~x.attached
    BY <2>2, <2>3 DEF Open, Done, Clean, Placed, Configuration
  <2>5. PICK done : done = CommitAll(x)
    OBVIOUS
  <2>6. done \in Done(FALSE)
    BY <2>4, <2>5, CommitAllKeeps
  <2>7. SetModeFromExtension(done, name) \in Done(FALSE)
    BY <2>6, ModeOfFileKeeps
  <2>8. user' = SetModeFromExtension(done, name) /\ speller' = speller /\ files' = files
    BY <1>2, <2>1, <2>3, <2>5 DEF UtilityStarts
  <2> QED BY <2>7, <2>8
<1>3. ASSUME NewSpeller PROVE Inv'
  <2>1. user \in Done(FALSE)
    BY <1>3 DEF NewSpeller, Open
  <2>2. PICK read : read = ReadInSettings(NewConfig, <<user>>, files)
    OBVIOUS
  <2>3. ~read.failed /\ speller' = <<SetupSpeller(read)>> /\ user' = user /\ files' = files
    BY <1>3, <2>2 DEF NewSpeller
  <2>4. read \in Done(FALSE)
    <3>1. <<user>> \in Seq(Done(FALSE)) /\ files \in Seq(Seq(Request))
      BY <2>1, RequestAssumption, Single
    <3>2. NewConfig \in Done(FALSE) /\ NewConfig.committed
      BY NewIsDone DEF NewConfig
    <3> QED BY <2>2, <2>3, <3>1, <3>2, SettingsRead
  <2>5. SetupSpeller(read) \in Done(TRUE)
    BY <2>4, SetupFollows
  <2>6. <<SetupSpeller(read)>> \in Seq(Done(TRUE))
    BY <2>5, Single
  <2> QED BY <2>3, <2>6
<1>4. ASSUME NEW r \in LaterRequests, SpellerAsks(r) PROVE Inv'
  <2>1. r \in Requests
    BY RequestAssumption, RequestsOpen DEF Requests
  <2>2. PICK c \in Done(TRUE) : c = speller[1]
    <3>1. Len(speller) \in Nat /\ Len(speller) # 0
      BY <1>4, EmptySeq, LenProperties DEF SpellerAsks
    <3>2. 1 \in 1..Len(speller)
      BY <3>1
    <3> QED BY <3>2, ElementOfSeq
  <2>3. Set(c, r) \in Done(TRUE)
    BY <2>1, DoneKeeps, SetKeeps
  <2>4. speller' = <<Set(c, r)>> /\ user' = user /\ files' = files
    BY <1>4, <2>2 DEF SpellerAsks
  <2>5. <<Set(c, r)>> \in Seq(Done(TRUE))
    BY <2>3, Single
  <2> QED BY <2>4, <2>5
<1>5. CASE DeleteSpeller
  <2>1. user' = user /\ speller' = <<>> /\ files' = files
    BY <1>5 DEF DeleteSpeller
  <2>2. <<>> \in Seq(Done(TRUE))
    OBVIOUS
  <2> QED BY <2>1, <2>2
<1>6. CASE UNCHANGED vars
  BY <1>6 DEF vars
<1> QED BY <1>1, <1>2, <1>3, <1>4, <1>5, <1>6 DEF Next

-----------------------------------------------------------------------------
(* The theorems.                                                            *)

\* Every configuration is at all times one that is being collected, or a committed
\* one whose entries commit allowed, with a speller that follows it or none
\* (Config::commit, commit_all, merge and read_in_settings leave nothing between).
THEOREM Invariant == Spec => []Inv
  BY InitInv, NextInv, PTL DEF Spec

\* What the type invariant says of a configuration.
LEMMA InvTypes == Inv => TypeOK
<1>1. ASSUME NEW c \in Open PROVE Consistent(c)
  BY DEF Open, Placed, Configuration, Consistent
<1>2. ASSUME NEW a, NEW c \in Done(a) PROVE Consistent(c)
  <2>1. /\ c.entries \in Seq(Entry) /\ c.insertPoint = Len(c.entries)
        /\ \A i \in 1..Len(c.entries) : Sound(c.entries[i])
    BY DEF Done, Clean, Placed, Configuration
  <2>2. Len(c.entries) \in Nat /\ DOMAIN c.entries = 1..Len(c.entries)
    BY <2>1, LenProperties
  <2>3. Retrieve(c, "ignore-case") \in {"true", "false"}
    BY DoneRetrieved
  <2> QED BY <2>1, <2>2, <2>3 DEF Consistent, Sound
<1> SUFFICES ASSUME Inv PROVE TypeOK
  OBVIOUS
<1>3. Consistent(user)
  BY <1>1, <1>2 DEF Inv
<1>4. \A i \in DOMAIN speller : Consistent(speller[i])
  <2> TAKE i \in DOMAIN speller
  <2>1. speller[i] \in Done(TRUE)
    BY ElementOfSeq, LenProperties DEF Inv
  <2> QED BY <1>2, <2>1
<1> QED BY <1>3, <1>4 DEF TypeOK

\* TypeOK of Settings: of a committed configuration every entry that is in force is
\* legal and the next one is put behind all of them.
THEOREM TypeCorrect == Spec => []TypeOK
  BY Invariant, InvTypes, PTL

\* SpellerFollowsItsConfig: for any requests, files and modes, the speller has the
\* limit and the indifference to case that its configuration shows, and no larger
\* limit than eight words (SpellerImpl::setup, run_together_limit, ignore_case).
THEOREM SpellerFollows == Spec => []SpellerFollowsItsConfig
<1>1. Inv => SpellerFollowsItsConfig
  <2> SUFFICES ASSUME Inv, NEW i \in DOMAIN speller, NEW c, c = speller[i]
               PROVE  /\ c.told["run-together-limit"] \in {Atoi[Retrieve(c, "run-together-limit")],
                                                       Scanned[Retrieve(c, "run-together-limit")]}
                      /\ c.told["run-together-limit"] <= LimitMax
                      /\ c.told["ignore-case"] = (Retrieve(c, "ignore-case") = "true")
    BY DEF SpellerFollowsItsConfig
  <2>1. c \in Done(TRUE)
    BY ElementOfSeq, LenProperties DEF Inv
  <2>2. \A k \in Followed : Agrees(k, c.told[k], Retrieve(c, k))
    BY <2>1 DEF Done, Clean, Follows
  <2> QED BY <2>2 DEF Agrees, Followed
<1> QED BY <1>1, Invariant, PTL

-----------------------------------------------------------------------------
(* The filters of aspell pipe.                                              *)

\* An entry that commit allows and no speller follows.
LEMMA Taken ==
  ASSUME NEW a \in BOOLEAN, NEW c \in Done(a), NEW e \in Entry, Legal(e),
         e.key \notin Followed, NEW d, d = Insert(c, e)
  PROVE  /\ d \in Done(a) /\ Longer(d, c, e) /\ d.failed = c.failed
         /\ InsertAndCommit(c, e) =
              IF e.key = "mode"
              THEN NotifyMode(d, IF e.action = "Reset" THEN Default("mode") ELSE e.value)
              ELSE d
<1>1. c \in Placed /\ c \in Configuration /\ c \in Clean(a) /\ c.committed
      /\ c.entries \in Seq(Entry)
  BY DEF Done, Clean, Placed, Configuration
<1>2. Sound(e)
  BY DEF Sound, Followed
<1>3. d \in Done(a)
  BY <1>2, DoneInsert
<1>4. d.entries = Append(c.entries, e) /\ d.insertPoint = Len(d.entries)
  <2>1. d.entries = Append(c.entries, e)
    BY <1>1, <1>2, CleanInsert
  <2> QED BY <1>3, <2>1 DEF Done, Clean
<1>5. d.failed = c.failed /\ d.committed
  <2>1. d = [c EXCEPT !.entries = d.entries, !.insertPoint = c.insertPoint + 1]
    BY <1>1, Inserted
  <2> QED BY <1>1, <2>1 DEF Configuration
<1>6. Longer(d, c, e)
  BY <1>1, <1>4 DEF Longer
<1>7. d.entries[d.insertPoint] = e
  BY <1>1, <1>4, AppendProperties
<1>8. Commit(d) = IF e.key = "mode"
                  THEN NotifyMode(d, IF e.action = "Reset" THEN Default("mode") ELSE e.value)
                  ELSE d
  BY <1>7 DEF Commit, Followed
<1> QED BY <1>3, <1>5, <1>6, <1>8 DEF InsertAndCommit

\* Only the entries are looked up.
LEMMA ListOfEntries ==
  ASSUME NEW c, NEW d, NEW k, d.entries = c.entries
  PROVE  LookupList(d, k) = LookupList(c, k)
<1>1. EntriesOf(d, k) = EntriesOf(c, k) /\ Len(d.entries) = Len(c.entries)
  BY DEF EntriesOf
<1>2. Deciding(d, k) = Deciding(c, k)
  BY <1>1 DEF Deciding
<1>3. \A i : ActionAt(d, i) = ActionAt(c, i)
  BY DEF ActionAt
<1>4. \A i, base : EditFrom(d, k, i, base) = EditFrom(c, k, i, base)
  BY <1>3 DEF EditFrom
<1>5. \A i : ListFrom(d, k, i) = ListFrom(c, k, i)
  BY <1>3, <1>4 DEF ListFrom
<1> QED BY <1>1, <1>2, <1>5 DEF LookupList

\* The option mode: the filters are those of the mode then, if there is one of that name.
LEMMA ModeSet ==
  ASSUME NEW c \in Done(FALSE), NEW m \in Texts, NEW d, d = SetMode(c, m)
  PROVE  /\ d \in Done(FALSE)
         /\ d.failed <=> m \notin DOMAIN ModeFilters \/ m \in BrokenModes
         /\ m \in DOMAIN ModeFilters => LookupList(d, "filter") = AddAll(ModeFilters[m])
<1>1. PICK b : b = [c EXCEPT !.failed = FALSE]
  OBVIOUS
<1>2. b \in Done(FALSE) /\ b.failed = FALSE
  <2>1. FALSE \in BOOLEAN /\ c \in Configuration
    BY DEF Done, Clean, Placed
  <2>2. b \in Done(FALSE)
    BY <1>1, <2>1, FailedKeeps
  <2> QED BY <1>1, <2>1, <2>2 DEF Configuration
<1>3. PICK e \in Entry : e = NewEntry("mode", "Set", m)
  <2>1. "mode" \in Texts /\ "Set" \in Texts
    BY DEF Texts
  <2> QED BY <2>1 DEF NewEntry, Entry
<1>4. d = InsertAndCommit(b, e)
  <2>1. Action("") = "Set" /\ ValueOf(Asking("", "mode", m)) = m
    BY DEF Action, ValueOf, Asking
  <2>2. d = SetEntry(b, Asking("", "mode", m))
    BY <1>1 DEF SetMode, Set
  <2> QED BY <1>3, <2>1, <2>2 DEF SetEntry, SetOne, Asking, NoValuePrefixes
<1>5. Legal(e) /\ e.key = "mode" /\ e.key \notin Followed /\ e.action = "Set" /\ e.value = m
  BY <1>3 DEF NewEntry, Legal, Keys, Scalars, Lists, Followed
<1>6. PICK x : x = Insert(b, e)
  OBVIOUS
<1>7. x \in Done(FALSE) /\ x.failed = FALSE /\ d = NotifyMode(x, m)
  BY <1>2, <1>4, <1>5, <1>6, Taken
<1>8. CASE m \in DOMAIN ModeFilters
  <2>1. PICK y : y = SwitchFilters(x, m)
    OBVIOUS
  <2>2. y \in Done(FALSE) /\ LookupList(y, "filter") = AddAll(ModeFilters[m])
        /\ y.failed = FALSE
    BY <1>7, <1>8, <2>1, ModeExpanded DEF SameButFilters
  <2>3. PICK b1 \in BOOLEAN : b1 = (y.failed \/ m \in BrokenModes)
    OBVIOUS
  <2>4. d = [y EXCEPT !.failed = b1]
    BY <1>7, <1>8, <2>1, <2>3 DEF NotifyMode, Expand
  <2>5. d \in Done(FALSE)
    BY <2>2, <2>3, <2>4, FailedKeeps
  <2>6. y \in Configuration
    BY <2>2 DEF Done, Clean, Placed
  <2>7. d.failed = b1 /\ d.entries = y.entries
    BY <2>4, <2>6 DEF Configuration
  <2>8. LookupList(d, "filter") = LookupList(y, "filter")
    BY <2>7, ListOfEntries
  <2> QED BY <1>8, <2>2, <2>3, <2>5, <2>7, <2>8
<1>9. CASE m \notin DOMAIN ModeFilters
  <2>1. d = [x EXCEPT !.failed = TRUE]
    BY <1>7, <1>9 DEF NotifyMode
  <2>2. TRUE \in BOOLEAN /\ x \in Configuration
    BY <1>7 DEF Done, Clean, Placed
  <2>3. d \in Done(FALSE)
    BY <1>7, <2>1, <2>2, FailedKeeps
  <2> QED BY <1>9, <2>1, <2>2, <2>3 DEF Configuration
<1> QED BY <1>8, <1>9

\* Resetting the option filter gives its default, whatever the entries before.
LEMMA FiltersReset ==
  ASSUME NEW c \in Done(FALSE), NEW d, d = Set(c, Asking("reset", "filter", ""))
  PROVE  d \in Done(FALSE) /\ LookupList(d, "filter") = Default("filter")
<1>1. PICK b : b = [c EXCEPT !.failed = FALSE]
  OBVIOUS
<1>2. b \in Done(FALSE)
  BY <1>1, FailedKeeps
<1>3. PICK e \in Entry : e = NewEntry("filter", "Reset", "")
  <2>1. "filter" \in Texts /\ "Reset" \in Texts /\ "" \in Texts
    BY DEF Texts
  <2> QED BY <2>1 DEF NewEntry, Entry
<1>4. d = InsertAndCommit(b, e)
  <2>1. Action("reset") = "Reset" /\ ValueOf(Asking("reset", "filter", "")) = ""
    BY DEF Action, ValueOf, Asking
  <2>2. d = SetEntry(b, Asking("reset", "filter", ""))
    BY <1>1 DEF Set
  <2> QED BY <1>3, <2>1, <2>2 DEF SetEntry, SetOne, Asking, NoValuePrefixes
<1>5. Legal(e) /\ e.key = "filter" /\ e.key \notin Followed /\ e.action = "Reset"
  BY <1>3 DEF NewEntry, Legal, Keys, Lists, Followed
<1>6. d = Insert(b, e) /\ d \in Done(FALSE) /\ Longer(d, b, e)
  <2>1. PICK x : x = Insert(b, e)
    OBVIOUS
  <2>2. x \in Done(FALSE) /\ Longer(x, b, e) /\ d = x
    BY <1>2, <1>4, <1>5, <2>1, Taken
  <2> QED BY <2>1, <2>2
<1>7. Decides(e, "filter") /\ "filter" \in Lists
  BY <1>5 DEF Decides, Lists
<1>8. LookupList(d, "filter") = Heed(LookupList(b, "filter"), e, "filter")
  BY <1>6, <1>7, AppendedListed
<1> QED BY <1>5, <1>6, <1>8 DEF Heed

\* The speller's copy has the entries of the original.
LEMMA Copied ==
  ASSUME NEW c \in Done(FALSE), NEW d, d = Copy(c)
  PROVE  d = c
<1>1. c \in Configuration /\ c.insertPoint = Len(c.entries) /\ c.attached = FALSE
  BY DEF Done, Clean, Placed
<1> QED BY <1>1 DEF Copy, Configuration

\* The invariant: commit has seen every entry of the speller's configuration.
ModesInv == config \in Done(FALSE) /\ FiltersFollowTheMode

\* A filter that the user adds comes to the default ones.
LEMMA FilterAdded ==
  ASSUME NEW f \in Texts, NEW d, d = Set(NewConfig, Asking("add", "filter", f))
  PROVE  d \in Done(FALSE) /\ LookupList(d, "filter") = AddTo(Default("filter"), f)
<1>1. PICK b : b = [NewConfig EXCEPT !.failed = FALSE]
  OBVIOUS
<1>2. b \in Done(FALSE) /\ b.entries = <<>>
  <2>1. FALSE \in BOOLEAN
    OBVIOUS
  <2>2. b \in Done(FALSE)
    BY <1>1, <2>1, NewIsDone, FailedKeeps
  <2> QED BY <1>1, <2>2 DEF NewConfig
<1>3. PICK e \in Entry : e = NewEntry("filter", "ListAdd", f)
  <2>1. "filter" \in Texts /\ "ListAdd" \in Texts
    BY DEF Texts
  <2> QED BY <2>1 DEF NewEntry, Entry
<1>4. d = InsertAndCommit(b, e)
  <2>1. Action("add") = "ListAdd" /\ ValueOf(Asking("add", "filter", f)) = f
    BY DEF Action, ValueOf, Asking
  <2>2. d = SetEntry(b, Asking("add", "filter", f))
    BY <1>1 DEF Set
  <2> QED BY <1>3, <2>1, <2>2 DEF SetEntry, SetOne, Asking, NoValuePrefixes
<1>5. Legal(e) /\ e.key = "filter" /\ e.key \notin Followed /\ e.action = "ListAdd"
      /\ e.value = f
  BY <1>3 DEF NewEntry, Legal, Keys, Lists, Followed
<1>6. d = Insert(b, e) /\ d \in Done(FALSE) /\ Longer(d, b, e)
  <2>1. PICK x : x = Insert(b, e)
    OBVIOUS
  <2>2. x \in Done(FALSE) /\ Longer(x, b, e) /\ d = x
    BY <1>2, <1>4, <1>5, <2>1, Taken
  <2> QED BY <2>1, <2>2
<1>7. /\ ~ResetLast(b, "filter") /\ "filter" \in Lists
      /\ LookupList(b, "filter") = Default("filter")
  <2>1. "filter" \in Lists /\ "filter" \in Keys
    BY DEF Lists, Keys
  <2>2. Through(WrittenOp, Start, <<>>) = Start
    BY ThroughEmpty
  <2>3. Shows(b, Start) /\ ~ResetLast(b, "filter")
    BY <1>2, <2>1, <2>2, EmptyShows DEF ShowsAll
  <2>4. Start.view["filter"] = Default("filter")
    BY <2>1 DEF Start
  <2> QED BY <2>1, <2>3, <2>4 DEF Shows, Value
<1>8. LookupList(d, "filter") = Heed(LookupList(b, "filter"), e, "filter")
  BY <1>6, <1>7, AppendedListed
<1> QED BY <1>5, <1>6, <1>7, <1>8 DEF Heed, Edit

\* What the history of one mode is not.
LEMMA OneMode ==
  ASSUME NEW m, NEW s, s = <<m>>
  PROVE  s # <<>> /\ Len(s) # 2 /\ s[1] = m
OBVIOUS

\* At the start the user has given filters, a mode or nothing.
LEMMA InitModesInv ==
  ASSUME NEW filter \in STRING,
         NEW mode \in GoodModes \cup {""},
         InitModes(filter, mode)
  PROVE  ModesInv
<1>1. PICK m \in GoodModes \cup {""} :
        m = IF filter = "" /\ mode = "" THEN "nroff" ELSE mode
  BY PipeModesAssumption
<1>2. PICK given : given = IF filter = "" THEN NewConfig
                           ELSE Set(NewConfig, Asking("add", "filter", filter))
  OBVIOUS
<1>3. /\ config = Copy(IF m = "" THEN given ELSE SetMode(given, m))
      /\ inForce = Value(config, "filter")
      /\ askedMode = IF m = "" THEN <<"", filter>> ELSE <<m>>
  BY <1>1, <1>2 DEF InitModes
<1>4. filter \in Texts /\ "filter" \in Lists
  BY DEF Texts, Lists
<1>5. /\ given \in Done(FALSE)
      /\ filter # "" => LookupList(given, "filter") = AddTo(Default("filter"), filter)
  BY <1>2, <1>4, NewIsDone, FilterAdded
<1>6. CASE m = ""
  <2>1. config = given /\ filter # ""
    BY <1>1, <1>3, <1>5, <1>6, Copied
  <2> QED BY <1>3, <1>4, <1>5, <1>6, <2>1 DEF ModesInv, FiltersFollowTheMode, Value
<1>7. CASE m # ""
  <2>1. PICK d : d = SetMode(given, m)
    OBVIOUS
  <2>2. m \in DOMAIN ModeFilters /\ m \in GoodModes /\ m \in Texts
    BY <1>7, ModesAssumption DEF Texts, GoodModes
  <2>3. d \in Done(FALSE) /\ LookupList(d, "filter") = AddAll(ModeFilters[m])
    BY <1>5, <2>1, <2>2, ModeSet
  <2>4. config = d
    BY <1>3, <1>7, <2>1, <2>3, Copied
  <2>5. inForce = HiddenBy(m)
    BY <1>3, <1>4, <2>3, <2>4 DEF Value, HiddenBy
  <2>6. askedMode # <<>> /\ Len(askedMode) # 2 /\ askedMode[1] = m
    BY <1>3, <1>7, OneMode
  <2> QED BY <2>2, <2>3, <2>4, <2>5, <2>6 DEF ModesInv, FiltersFollowTheMode
<1> QED BY <1>6, <1>7

\* Every step keeps the invariant.
LEMMA NextModesInv == ModesInv /\ [ModesNext]_modeVars => ModesInv'
<1> SUFFICES ASSUME ModesInv, [ModesNext]_modeVars PROVE ModesInv'
  OBVIOUS
<1>1. config \in Done(FALSE) /\ FiltersFollowTheMode
  BY DEF ModesInv
<1>2. ASSUME NEW m \in Modes, ChangeMode(m) PROVE ModesInv'
  <2>1. PICK done : done = SetMode(config, m)
    OBVIOUS
  <2>2. /\ config' = IF done.failed THEN SetMode(done, "tex") ELSE done
        /\ inForce' = Value(config', "filter") /\ askedMode' = <<m>>
    BY <1>2, <2>1 DEF ChangeMode, Reload
  <2>3. "filter" \in Lists /\ m \in Texts /\ "tex" \in Texts /\ "tex" \in DOMAIN ModeFilters
    BY PipeModesAssumption DEF Lists, Texts, GoodModes
  <2>4. /\ done \in Done(FALSE)
        /\ done.failed <=> m \notin DOMAIN ModeFilters \/ m \in BrokenModes
        /\ m \in DOMAIN ModeFilters => LookupList(done, "filter") = HiddenBy(m)
    BY <1>1, <2>1, <2>3, ModeSet DEF HiddenBy
  <2>7. askedMode' # <<>> /\ Len(askedMode') # 2 /\ askedMode'[1] = m
    BY <2>2, OneMode
  <2>5. CASE m \in GoodModes
    BY <2>2, <2>3, <2>4, <2>5, <2>7 DEF ModesInv, FiltersFollowTheMode, GoodModes, Value
  <2>6. CASE m \notin GoodModes
    <3>1. config' = SetMode(done, "tex")
      BY <2>2, <2>4, <2>6 DEF GoodModes
    <3>2. config' \in Done(FALSE) /\ LookupList(config', "filter") = HiddenBy("tex")
      BY <2>3, <2>4, <3>1, ModeSet DEF HiddenBy
    <3> QED BY <2>2, <2>3, <2>6, <2>7, <3>2 DEF ModesInv, FiltersFollowTheMode, Value
  <2> QED BY <2>5, <2>6
<1>3. CASE ResetFilters
  <2>1. /\ config' = Set(config, Asking("reset", "filter", ""))
        /\ inForce' = Value(config', "filter") /\ askedMode' = <<>>
    BY <1>3 DEF ResetFilters, Reload
  <2>2. config' \in Done(FALSE) /\ LookupList(config', "filter") = Default("filter")
    BY <1>1, <2>1, FiltersReset
  <2> QED BY <2>1, <2>2 DEF ModesInv, FiltersFollowTheMode, Value, Lists
<1>4. ASSUME NEW r \in CsRequests, ChangeConfig(r) PROVE ModesInv'
  <2>1. config' = Set(config, r) /\ UNCHANGED <<inForce, askedMode>>
    BY <1>4 DEF ChangeConfig
  <2>2. r \in Requests
    BY PipeModesAssumption, RequestsOpen
  <2>3. Keeps(Done(FALSE))
    BY DoneKeeps
  <2>4. config' \in Done(FALSE)
    BY <1>1, <2>1, <2>2, <2>3, SetKeeps
  <2> QED BY <1>1, <2>1, <2>4 DEF ModesInv, FiltersFollowTheMode
<1>5. CASE UNCHANGED modeVars
  BY <1>1, <1>5 DEF modeVars, ModesInv, FiltersFollowTheMode
<1> QED BY <1>2, <1>3, <1>4, <1>5 DEF ModesNext

\* aspell pipe, in whatever order modes, "-" and options come: the checker hides what
\* the mode asked for last hides (prog/aspell.cpp, pipe).
THEOREM ModesFollowed == ModesSpec => []FiltersFollowTheMode
<1>1. (\E filter \in STRING, mode \in GoodModes \cup {""} :
         InitModes(filter, mode)) => ModesInv
  BY InitModesInv
<1>2. ModesInv => FiltersFollowTheMode
  BY DEF ModesInv
<1> QED BY <1>1, <1>2, NextModesInv, PTL DEF ModesSpec

-----------------------------------------------------------------------------
(* What committing an entry writes down.                                    *)

\* What is shown of x: a speller that is attached shows a limit it can work with.
Seen(a, x) == IF a THEN [view |-> Capped(x.view), none |-> x.none] ELSE x

\* Only the limit may be shown otherwise than it is.
LEMMA SeenFacts ==
  ASSUME NEW a \in BOOLEAN, NEW x \in States, NEW y, y = Seen(a, x)
  PROVE  /\ y \in States
         /\ y.none = x.none
         /\ \A k \in Keys : k # "run-together-limit" => y.view[k] = x.view[k]
         /\ y.view["run-together-limit"]
              = IF a /\ Scanned[x.view["run-together-limit"]] > LimitMax THEN "8"
                ELSE x.view["run-together-limit"]
<1>1. x.view \in Views /\ x.none \in BOOLEAN
  BY DEF States
<1>2. CASE ~a
  BY <1>2 DEF Seen
<1>3. CASE a
  <2>1. PICK v : v = Capped(x.view)
    OBVIOUS
  <2>2. y = [view |-> v, none |-> x.none]
    BY <1>3, <2>1 DEF Seen
  <2>3. /\ v \in [Keys -> Texts \cup Seq(Texts)]
        /\ v["run-together-limit"]
             = IF Scanned[x.view["run-together-limit"]] > LimitMax THEN "8"
               ELSE x.view["run-together-limit"]
        /\ \A k \in Keys : k # "run-together-limit" => v[k] = x.view[k]
    <3>1. "8" \in Texts /\ "run-together-limit" \in Keys
      BY DEF Texts, Keys, Scalars
    <3>2. x.view["run-together-limit"] \in Texts
      BY <1>1, KeyFacts DEF Views, Scalars
    <3> QED BY <1>1, <2>1, <3>1, <3>2 DEF Capped, Views
  <2>4. "8" \in IntTexts /\ "8" \in Texts /\ "run-together-limit" \notin Lists
    BY DEF IntTexts, Texts, Lists
  <2>5. v \in Views
    <3>1. Scalars \subseteq Keys /\ Lists \subseteq Keys
      BY KeyFacts
    <3>2. \A k \in Scalars : v[k] \in Texts
      BY <1>1, <2>3, <2>4, <3>1 DEF Views
    <3>3. \A k \in Lists : v[k] \in Seq(Texts)
      BY <1>1, <2>3, <2>4, <3>1 DEF Views
    <3>4. v["run-together-limit"] \in IntTexts
      BY <1>1, <2>3, <2>4 DEF Views
    <3> QED BY <2>3, <3>2, <3>3, <3>4 DEF Views
  <2>6. y.view = v /\ y.none = x.none /\ y \in States
    BY <1>1, <2>2, <2>5 DEF States
  <2> QED BY <1>3, <2>3, <2>6
<1> QED BY <1>2, <1>3

\* Two states of the options are the same if they show the same.
LEMMA SameState ==
  ASSUME NEW x \in States, NEW y \in States, x.none = y.none,
         \A k \in Keys : x.view[k] = y.view[k]
  PROVE  x = y
<1>1. x.view \in [Keys -> Texts \cup Seq(Texts)] /\ y.view \in [Keys -> Texts \cup Seq(Texts)]
  BY DEF States, Views
<1>2. x.view = y.view
  BY <1>1
<1> QED BY <1>2 DEF States

\* An entry that sets a limit the speller does not have room for.
Over(e) == e.key = "run-together-limit" /\ e.action = "Set" /\ Scanned[e.value] > LimitMax

\* What is shown after an entry follows from what is shown before it.
LEMMA SeenWritten ==
  ASSUME NEW a \in BOOLEAN, NEW x \in States, NEW f \in Kept, ~(a /\ Over(f))
  PROVE  Written(Seen(a, x), f) = Seen(a, Written(x, f))
<1>1. PICK y \in States : y = Seen(a, x)
  BY SeenFacts
<1>2. PICK z \in States : z = Written(x, f)
  BY KeptMeans
<1>3. PICK w \in States : w = Written(y, f)
  BY KeptMeans
<1>4. PICK u \in States : u = Seen(a, z)
  BY SeenFacts
<1>5. /\ y.none = x.none /\ \A k \in Keys : k # "run-together-limit" => y.view[k] = x.view[k]
      /\ y.view["run-together-limit"]
              = IF a /\ Scanned[x.view["run-together-limit"]] > LimitMax THEN "8"
                ELSE x.view["run-together-limit"]
  BY <1>1, SeenFacts
<1>6. /\ u.none = z.none /\ \A k \in Keys : k # "run-together-limit" => u.view[k] = z.view[k]
      /\ u.view["run-together-limit"]
              = IF a /\ Scanned[z.view["run-together-limit"]] > LimitMax THEN "8"
                ELSE z.view["run-together-limit"]
  BY <1>4, SeenFacts
<1>7. /\ z.none = SaysNone(x.none, f) /\ \A k \in Keys : z.view[k] = Says(x.view[k], f, k)
      /\ w.none = SaysNone(y.none, f) /\ \A k \in Keys : w.view[k] = Says(y.view[k], f, k)
  BY <1>2, <1>3 DEF Written
<1>8. w.none = u.none
  BY <1>5, <1>6, <1>7
<1>9. ASSUME NEW k \in Keys PROVE w.view[k] = u.view[k]
  <2>1. CASE k # "run-together-limit"
    BY <1>5, <1>6, <1>7, <2>1
  <2>2. CASE k = "run-together-limit"
    <3>1. k \notin Lists /\ Default(k) = "2" /\ ~(Scanned["2"] > LimitMax)
      BY <2>2 DEF Lists, Default, Scanned, IntTexts, LimitMax
    <3>2. CASE f.key # k \/ f.action = "NoOp"
      BY <1>5, <1>6, <1>7, <1>9, <2>2, <3>2 DEF Says
    <3>3. CASE f.key = k /\ f.action # "NoOp"
      <4>1. f.action \in {"Set", "Reset"}
        BY <3>1, <3>3 DEF Kept, Sound, Legal
      <4>2. CASE f.action = "Reset"
        <5>1. w.view[k] = "2" /\ z.view[k] = "2"
          BY <1>7, <1>9, <3>1, <3>3, <4>2 DEF Says
        <5> QED BY <1>6, <2>2, <3>1, <5>1
      <4>3. CASE f.action = "Set"
        <5>1. w.view[k] = f.value /\ z.view[k] = f.value
          BY <1>7, <1>9, <3>1, <3>3, <4>3 DEF Says
        <5>2. ~(a /\ Scanned[f.value] > LimitMax)
          BY <2>2, <3>3, <4>3 DEF Over
        <5> QED BY <1>6, <2>2, <5>1, <5>2
      <4> QED BY <4>1, <4>2, <4>3
    <3> QED BY <3>2, <3>3
  <2> QED BY <2>1, <2>2
<1>10. w = u
  BY <1>8, <1>9, SameState
<1> QED BY <1>1, <1>2, <1>3, <1>4, <1>10

\* So it does after the filters of a mode.
LEMMA SeenFilters ==
  ASSUME NEW a \in BOOLEAN, NEW x \in States, NEW l \in Seq(Texts)
  PROVE  WithFilters(Seen(a, x), l) = Seen(a, WithFilters(x, l))
<1>1. PICK y \in States : y = Seen(a, x)
  BY SeenFacts
<1>2. PICK z \in States : z = WithFilters(x, l)
  BY WithFiltersTyped
<1>3. PICK w \in States : w = WithFilters(y, l)
  BY WithFiltersTyped
<1>4. PICK u \in States : u = Seen(a, z)
  BY SeenFacts
<1>5. /\ y.none = x.none /\ \A k \in Keys : k # "run-together-limit" => y.view[k] = x.view[k]
      /\ y.view["run-together-limit"]
              = IF a /\ Scanned[x.view["run-together-limit"]] > LimitMax THEN "8"
                ELSE x.view["run-together-limit"]
  BY <1>1, SeenFacts
<1>6. /\ u.none = z.none /\ \A k \in Keys : k # "run-together-limit" => u.view[k] = z.view[k]
      /\ u.view["run-together-limit"]
              = IF a /\ Scanned[z.view["run-together-limit"]] > LimitMax THEN "8"
                ELSE z.view["run-together-limit"]
  BY <1>4, SeenFacts
<1>7. /\ z.none = x.none /\ z.view["filter"] = l
      /\ \A k \in Keys : k # "filter" => z.view[k] = x.view[k]
      /\ w.none = y.none /\ w.view["filter"] = l
      /\ \A k \in Keys : k # "filter" => w.view[k] = y.view[k]
  <2>1. "filter" \in Keys
    BY KeyFacts
  <2>2. DOMAIN x.view = Keys /\ DOMAIN y.view = Keys
    BY DEF States, Views
  <2> QED BY <1>2, <1>3, <2>1, <2>2 DEF WithFilters
<1>8. \A k \in Keys : w.view[k] = u.view[k]
  BY <1>5, <1>6, <1>7
<1>9. w = u
  BY <1>5, <1>6, <1>7, <1>8, SameState
<1> QED BY <1>1, <1>2, <1>3, <1>4, <1>9

\* Filters set twice are set once.
LEMMA FiltersTwice ==
  ASSUME NEW x \in States, NEW l
  PROVE  WithFilters(WithFilters(x, l), l) = WithFilters(x, l)
<1>1. x.view \in [Keys -> Texts \cup Seq(Texts)]
  BY DEF States, Views
<1>2. PICK v : v = [x.view EXCEPT !["filter"] = l]
  OBVIOUS
<1>3. v["filter"] = l /\ [v EXCEPT !["filter"] = l] = v
  BY <1>1, <1>2, KeyFacts
<1> QED BY <1>2, <1>3 DEF WithFilters

\* The entries s come to what committing e means.
Adds(a, e, s) ==
  /\ s \in Seq(Kept)
  /\ \A x \in States : /\ Wrote(Seen(a, x), s) = Seen(a, Means(x, e))
                       /\ ~a => Meant(x, s) = Means(x, e)

\* An entry that brings no others.
LEMMA KeptAdds ==
  ASSUME NEW a \in BOOLEAN, NEW e \in Plain, ~Expands(e), NEW f \in Kept, f = Amended(e),
         ~Expands(f), ~(a /\ Over(f))
  PROVE  Adds(a, e, <<f>>)
<1>1. <<f>> \in Seq(Kept)
  OBVIOUS
<1>2. ASSUME NEW x \in States
      PROVE  /\ Wrote(Seen(a, x), <<f>>) = Seen(a, Means(x, e))
             /\ Meant(x, <<f>>) = Means(x, e)
  <2>1. PICK y \in States : y = Seen(a, x)
    BY SeenFacts
  <2>2. Wrote(y, <<f>>) = Written(y, f)
    BY OneWritten
  <2>3. Written(y, f) = Seen(a, Written(x, f))
    BY <2>1, SeenWritten
  <2>4. Means(x, e) = Written(x, f)
    BY DEF Means
  <2>5. Meant(x, <<f>>) = Means(x, f) /\ Means(x, f) = Written(x, f)
    BY OneWritten, KeptMeans, KeptFacts
  <2> QED BY <2>1, <2>2, <2>3, <2>4, <2>5
<1> QED BY <1>1, <1>2 DEF Adds

\* One that brings the filters of a mode.
LEMMA ModeAdds ==
  ASSUME NEW a \in BOOLEAN, NEW e \in Kept, Expands(e), NEW l \in Seq(Texts),
         l = AddAll(ModeFilters[Mode(e)]), NEW g, Brings(g, l)
  PROVE  Adds(a, e, <<e>> \o g)
<1>1. PICK s \in Seq(Kept), t \in Seq(Kept) : s = <<e>> /\ t = g
  <2>1. <<e>> \in Seq(Kept)
    OBVIOUS
  <2> QED BY <2>1 DEF Brings
<1>2. s \o t \in Seq(Kept) /\ s \in Seq(Plain) /\ t \in Seq(Plain) /\ e \in Plain
  BY <1>1, ConcatProperties, KeptFacts
<1>3. ~Over(e)
  BY DEF Over, Expands
<1>4. ASSUME NEW x \in States
      PROVE  /\ Wrote(Seen(a, x), s \o t) = Seen(a, Means(x, e))
             /\ Meant(x, s \o t) = Means(x, e)
  <2>1. PICK y \in States : y = Seen(a, x)
    BY SeenFacts
  <2>2. PICK w \in States : w = Written(x, e)
    BY KeptMeans
  <2>3. PICK z \in States : z = Means(x, e)
    BY <1>2, MeansTyped
  <2>4. PICK u \in States : u = Seen(a, w)
    BY SeenFacts
  <2>5. z = WithFilters(w, l)
    BY <2>2, <2>3 DEF Means
  <2>6. Wrote(y, s) = u
    BY <1>1, <1>3, <2>1, <2>2, <2>4, OneWritten, SeenWritten
  <2>7. Wrote(y, s \o t) = Wrote(u, t)
    BY <2>6, WroteFacts
  <2>8. Wrote(u, t) = WithFilters(u, l)
    BY <1>1 DEF Brings
  <2>9. WithFilters(u, l) = Seen(a, z)
    BY <2>4, <2>5, SeenFilters
  <2>10. Meant(x, s) = z
    BY <1>1, <1>2, <2>3, OneWritten
  <2>11. Meant(x, s \o t) = Meant(z, t)
    BY <1>2, <2>10, MeantFacts
  <2>12. Meant(z, t) = WithFilters(z, l)
    BY <1>1 DEF Brings
  <2>13. WithFilters(z, l) = z
    BY <2>5, FiltersTwice
  <2> QED BY <2>1, <2>3, <2>7, <2>8, <2>9, <2>11, <2>12, <2>13
<1> QED BY <1>1, <1>2, <1>4 DEF Adds

\* One that the speller answers with a limit of eight.
Eight == NewEntry("run-together-limit", "Set", "8")

\* It is an entry that commit allows.
LEMMA EightKept ==
  /\ Eight \in Kept /\ ~Over(Eight) /\ ~Expands(Eight)
  /\ Eight.key = "run-together-limit" /\ Eight.action = "Set" /\ Eight.value = "8"
<1>1. PICK f : f = Eight
  OBVIOUS
<1>2. f.key = "run-together-limit" /\ f.action = "Set" /\ f.value = "8"
  BY <1>1 DEF Eight, NewEntry
<1>3. f \in Entry
  <2>1. "run-together-limit" \in Texts /\ "Set" \in Texts /\ "8" \in Texts
    BY DEF Texts
  <2> QED BY <1>1, <2>1 DEF Eight, NewEntry, Entry
<1>4. Legal(f) /\ Sound(f)
  BY <1>2 DEF Legal, Sound, Keys, Scalars, Lists, IntTexts
<1>5. f \in Kept
  BY <1>2, <1>3, <1>4 DEF Kept, Plain
<1>6. ~Over(f) /\ ~Expands(f)
  <2>1. Scanned["8"] = 8
    BY DEF Scanned, IntTexts
  <2> QED BY <1>2, <2>1 DEF Over, Expands, LimitMax
<1> QED BY <1>1, <1>2, <1>5, <1>6

\* With it the configuration shows what the speller works with.
LEMMA EightShows ==
  ASSUME NEW x \in States, Scanned[x.view["run-together-limit"]] > LimitMax,
         NEW y \in States, y = x \/ y = Seen(TRUE, x)
  PROVE  Written(y, Eight) = Seen(TRUE, x)
<1>a. PICK a \in BOOLEAN : a = TRUE
  OBVIOUS
<1>1. PICK u \in States : u = Seen(a, x)
  BY SeenFacts
<1>2. PICK w \in States : w = Written(y, Eight)
  BY KeptMeans, EightKept
<1>3. /\ u.none = x.none /\ \A k \in Keys : k # "run-together-limit" => u.view[k] = x.view[k]
      /\ u.view["run-together-limit"] = "8"
  <2>1. /\ u.none = x.none
        /\ \A k \in Keys : k # "run-together-limit" => u.view[k] = x.view[k]
        /\ u.view["run-together-limit"]
              = IF a /\ Scanned[x.view["run-together-limit"]] > LimitMax THEN "8"
                ELSE x.view["run-together-limit"]
    BY <1>1, SeenFacts
  <2> QED BY <1>a, <2>1
<1>4. w.none = y.none /\ \A k \in Keys : w.view[k] = Says(y.view[k], Eight, k)
  BY <1>2, EightKept DEF Written, SaysNone
<1>5. y.none = u.none
  BY <1>a, <1>1, <1>3
<1>6. ASSUME NEW k \in Keys PROVE w.view[k] = u.view[k]
  <2>1. CASE k # "run-together-limit"
    BY ZenonT(30), <1>a, <1>1, <1>3, <1>4, <2>1, EightKept DEF Says
  <2>2. CASE k = "run-together-limit"
    <3>1. k \notin Lists
      BY <2>2 DEF Lists
    <3> QED BY <1>3, <1>4, <2>2, <3>1, EightKept DEF Says
  <2> QED BY <2>1, <2>2
<1>7. w = u
  BY <1>4, <1>5, <1>6, SameState
<1> QED BY <1>a, <1>1, <1>2, <1>7

\* The notification of a limit, which may insert a limit of its own.
LEMMA LimitAdds ==
  ASSUME NEW e \in Kept, Over(e)
  PROVE  Adds(TRUE, e, <<e, Eight>>)
<1>1. PICK s \in Seq(Kept) : s = <<e>>
  <2>1. <<e>> \in Seq(Kept)
    OBVIOUS
  <2> QED BY <2>1
<1>2. <<e, Eight>> = Append(s, Eight) /\ Append(s, Eight) \in Seq(Kept) /\ Eight \in Kept
  BY <1>1, EightKept, AppendProperties
<1>3. ~Expands(e) /\ e \in Plain
  BY KeptFacts DEF Over, Expands
<1>4. ASSUME NEW x \in States
      PROVE  Wrote(Seen(TRUE, x), Append(s, Eight)) = Seen(TRUE, Means(x, e))
  <2>a. PICK a \in BOOLEAN : a = TRUE
    OBVIOUS
  <2>1. PICK y \in States : y = Seen(a, x)
    BY SeenFacts
  <2>2. PICK w \in States : w = Written(x, e)
    BY KeptMeans
  <2>3. PICK z \in States : z = Written(y, e)
    BY KeptMeans
  <2>4. Means(x, e) = w
    BY <1>3, <2>2, KeptMeans
  <2>5. Wrote(y, s) = z
    BY <1>1, <2>3, OneWritten
  <2>6. Wrote(y, Append(s, Eight)) = Written(z, Eight)
    BY <1>2, <2>5, WroteFacts
  <2>7. z = Seen(TRUE, w) \/ z = w
    <3>1. PICK u \in States : u = Seen(TRUE, w)
      BY SeenFacts
    <3>2. "run-together-limit" \notin Lists /\ "run-together-limit" \in Keys
      BY DEF Lists, Keys, Scalars
    <3>3. /\ \A k \in Keys : w.view[k] = Says(x.view[k], e, k)
          /\ \A k \in Keys : z.view[k] = Says(y.view[k], e, k)
          /\ w.none = SaysNone(x.none, e) /\ z.none = SaysNone(y.none, e)
      BY <2>2, <2>3 DEF Written
    <3>4. y.none = x.none /\ \A k \in Keys : k # "run-together-limit" => y.view[k] = x.view[k]
      BY <2>1, SeenFacts
    <3>5. ASSUME NEW k \in Keys PROVE z.view[k] = w.view[k]
      <4>1. CASE k # "run-together-limit"
        BY <3>3, <3>4, <4>1
      <4>2. CASE k = "run-together-limit"
        BY <3>2, <3>3, <4>2 DEF Says, Over
      <4> QED BY <4>1, <4>2
    <3>6. z.none = w.none
      BY <3>3, <3>4
    <3>7. z = w
      BY <3>5, <3>6, SameState
    <3> QED BY <3>7
  <2>8. Scanned[w.view["run-together-limit"]] > LimitMax
    <3>1. w.view["run-together-limit"] = e.value
      <4>1. "run-together-limit" \notin Lists /\ "run-together-limit" \in Keys
        BY DEF Lists, Keys, Scalars
      <4> QED BY <2>2, <4>1 DEF Written, Says, Over
    <3> QED BY <3>1 DEF Over
  <2>9. Written(z, Eight) = Seen(TRUE, w)
    BY <2>7, <2>8, EightShows
  <2> QED BY <2>a, <2>1, <2>4, <2>6, <2>9
<1> QED BY <1>2, <1>4 DEF Adds

\* d has the entries that committing e adds to those of c.
Added(a, e, d, c) ==
  /\ d \in Done(a) /\ d.settingsRead = c.settingsRead
  /\ \E s : d.entries = c.entries \o s /\ Adds(a, e, s)
  /\ Legal(e) /\ e.key \in Lists => d.failed = c.failed

\* What telling and failing leave alone.
LEMMA SameEntries ==
  ASSUME NEW a \in BOOLEAN, NEW c \in Done(a), NEW d \in Clean(a)
  PROVE  /\ \A k \in Followed : \A v : /\ Tell(d, k, v).entries = d.entries
                                       /\ Tell(d, k, v).settingsRead = d.settingsRead
         /\ \A b \in BOOLEAN : /\ [d EXCEPT !.failed = b].entries = d.entries
                               /\ [d EXCEPT !.failed = b].settingsRead = d.settingsRead
<1>1. d \in Configuration
  BY DEF Clean, Placed
<1> QED BY <1>1 DEF Configuration, Tell

\* An entry as it is left is kept.
LEMMA AmendedKept ==
  ASSUME NEW e \in Plain, e.key # "ignore-case", Legal(e)
  PROVE  e \in Kept /\ Amended(e) = e
<1>1. Sound(e)
  BY DEF Sound
<1> QED BY <1>1, AmendedTyped DEF Kept

\* An entry that is only amended.
LEMMA OneAdded ==
  ASSUME NEW a \in BOOLEAN, NEW c \in Done(a), NEW e \in Plain, ~Expands(e), NEW f \in Kept,
         f = Amended(e), ~Expands(f), ~(a /\ Over(f)), NEW d \in Done(a),
         d.entries = Append(c.entries, f), d.settingsRead = c.settingsRead,
         Legal(e) /\ e.key \in Lists => d.failed = c.failed,
         c.entries \in Seq(Kept)
  PROVE  Added(a, e, d, c)
<1>1. Append(c.entries, f) = c.entries \o <<f>>
  BY AppendIsConcat
<1>2. Adds(a, e, <<f>>)
  BY KeptAdds
<1> QED BY <1>1, <1>2 DEF Added

\* Whether the last operation failed is not looked at.
LEMMA FailedSame ==
  ASSUME NEW c \in Configuration, NEW b \in BOOLEAN, NEW d, d = [c EXCEPT !.failed = b]
  PROVE  /\ d \in Configuration /\ d.entries = c.entries /\ d.insertPoint = c.insertPoint
         /\ d.settingsRead = c.settingsRead /\ d.committed = c.committed
         /\ d.attached = c.attached /\ d.failed = b
  BY DEF Configuration

\* Config::commit of a new entry adds entries that show what the entry means.
LEMMA CommitAdds ==
  ASSUME NEW a \in BOOLEAN, NEW c \in Done(a), c.entries \in Seq(Kept), NEW e \in Plain,
         NEW d, d = InsertAndCommit(c, e)
  PROVE  Added(a, e, d, c)
<1>1. e \in Entry
  BY DEF Plain
<1>2. PICK b : b = Insert(c, e)
  OBVIOUS
<1>3. /\ b.entries = Append(c.entries, e) /\ b.settingsRead = c.settingsRead
      /\ b.failed = c.failed /\ b.committed
  BY <1>1, <1>2, DoneInserted
<1>4. d = Commit(b)
  BY <1>2, <1>3 DEF InsertAndCommit
<1>5. d \in Done(a) /\ d \in Clean(a)
  <2>1. d \in Done(a)
    BY <1>1, <1>2, <1>4, CommitKeeps
  <2> QED BY <2>1 DEF Done
<1>6. CASE ~Legal(e)
  <2>1. PICK f : f = [e EXCEPT !.action = "NoOp"]
    OBVIOUS
  <2>2. f \in Entry /\ f.action = "NoOp" /\ Sound(f) /\ d = [Insert(c, f) EXCEPT !.failed = TRUE]
    BY <1>1, <1>2, <1>4, <1>6, <2>1, RefusedIs
  <2>3. f = Amended(e) /\ f \in Kept /\ ~Expands(f) /\ ~Over(f) /\ ~Expands(e)
    <3>1. f = Amended(e)
      BY <1>6, <2>1 DEF Amended
    <3>2. f \in Kept /\ ~Over(f) /\ ~Expands(e)
      BY <1>6, <2>2 DEF Kept, Plain, Over, Expands
    <3>3. ~Expands(f)
      BY <2>2 DEF Expands, Legal, Lists
    <3> QED BY <3>1, <3>2, <3>3
  <2>4. PICK g : g = Insert(c, f)
    OBVIOUS
  <2>5. g.entries = Append(c.entries, f) /\ g.settingsRead = c.settingsRead /\ g \in Configuration
    BY <2>2, <2>4, DoneInserted
  <2>6. d.entries = g.entries /\ d.settingsRead = g.settingsRead
    BY <2>2, <2>4, <2>5 DEF Configuration
  <2> QED BY <1>5, <1>6, <2>3, <2>5, <2>6, OneAdded
<1>7. CASE Expands(e)
  <2>1. /\ Legal(e) /\ e.key = "mode" /\ Mode(e) \in DOMAIN ModeFilters
        /\ e.key # "ignore-case" /\ e.key \notin Followed /\ e.key \notin Lists
    BY <1>7 DEF Expands, Followed, Lists
  <2>2. e \in Kept
    BY <2>1, AmendedKept
  <2>3. PICK m \in DOMAIN ModeFilters : m = Mode(e)
    BY <2>1
  <2>4. PICK y \in Configuration, b1 \in BOOLEAN :
           b \in Done(a) /\ y = SwitchFilters(b, m) /\ d = [y EXCEPT !.failed = b1]
    <3>1. d = NotifyMode(b, m) /\ b \in Done(a)
      BY <1>1, <1>2, <1>3, <1>4, <2>1, <2>3, Taken DEF Mode, InsertAndCommit
    <3>2. PICK y \in Configuration : y = SwitchFilters(b, m)
      BY <3>1, ModeExpanded DEF Done, Clean, Placed
    <3>3. PICK b1 \in BOOLEAN : b1 = (y.failed \/ m \in BrokenModes)
      OBVIOUS
    <3> QED BY <3>1, <3>2, <3>3 DEF NotifyMode, Expand
  <2>5. PICK l \in Seq(Texts) : l = AddAll(ModeFilters[m])
    BY FiltersTyped
  <2>6. b.entries \in Seq(Kept)
    BY <1>3, <2>2, AppendProperties
  <2>7. Expanded(d, b, l)
    <3>1. Expanded(y, b, l) /\ y \in Configuration
      BY <2>4, <2>5, <2>6, ExpandAdds DEF Expanded, Done, Clean, Placed
    <3> QED BY <2>4, <3>1, FailedSame DEF Expanded
  <2>8. PICK g \in Seq(Kept) : d.entries = b.entries \o g /\ Brings(g, l)
    BY <2>7 DEF Expanded
  <2>9. Adds(a, e, <<e>> \o g)
    BY <1>7, <2>2, <2>3, <2>5, <2>8, ModeAdds
  <2>10. b.entries \o g = c.entries \o (<<e>> \o g)
    <3>1. PICK u \in Seq(Kept), one \in Seq(Kept) : u = c.entries /\ one = <<e>>
      <4>1. <<e>> \in Seq(Kept)
        BY <2>2
      <4> QED BY <4>1
    <3>2. Append(u, e) = u \o one
      BY <2>2, <3>1, AppendIsConcat
    <3>3. (u \o one) \o g = u \o (one \o g)
      BY SMTT(20), ConcatAssociative
    <3> QED BY <1>3, <3>1, <3>2, <3>3
  <2> QED BY <1>3, <1>5, <2>1, <2>7, <2>8, <2>9, <2>10 DEF Added, Expanded
<1>8. CASE Legal(e) /\ e.key = "mode" /\ ~Expands(e)
  <2>1. e.key # "ignore-case" /\ e.key \notin Followed /\ e.key \notin Lists /\ ~Over(e)
    BY <1>8 DEF Followed, Lists, Over
  <2>2. e \in Kept /\ e = Amended(e)
    BY <1>8, <2>1, AmendedKept
  <2>3. b \in Done(a) /\ d = NotifyMode(b, Mode(e))
    BY <1>1, <1>2, <1>3, <1>4, <1>8, <2>1, Taken DEF Mode, InsertAndCommit
  <2>4. d = [b EXCEPT !.failed = TRUE]
    BY <1>8, <2>3 DEF NotifyMode, Expands
  <2>5. d.entries = b.entries /\ d.settingsRead = b.settingsRead
    BY <2>3, <2>4 DEF Done, Clean, Placed, Configuration
  <2> QED BY <1>3, <1>5, <1>8, <2>1, <2>2, <2>5, OneAdded
<1>9. CASE Legal(e) /\ e.key = "run-together-limit"
  <2>1. PICK text : text = TextOf(e)
    OBVIOUS
  <2>2. /\ e.action \in {"Set", "Reset"} /\ Sound(e) /\ text \in IntTexts
        /\ b \in Clean(a) /\ d = NotifyLimit(b, text)
    BY <1>1, <1>2, <1>4, <1>9, <2>1, LimitIs DEF TextOf
  <2>3. e.key # "ignore-case" /\ e.key \notin Lists /\ ~Expands(e)
    BY <1>9 DEF Lists, Expands
  <2>4. e \in Kept /\ e = Amended(e)
    BY <1>9, <2>3, AmendedKept
  <2>5. b.attached = a /\ b \in Configuration
    BY <2>2 DEF Clean, Placed
  <2>6. CASE a /\ Scanned[text] > LimitMax
    <3>1. e.action = "Set" /\ e.value = text
      <4>1. Scanned["2"] = 2
        BY DEF Scanned, IntTexts
      <4> QED BY <1>9, <2>1, <2>2, <2>6, <4>1 DEF TextOf, Default, LimitMax
    <3>2. Over(e)
      BY <1>9, <2>6, <3>1 DEF Over
    <3>3. PICK g : g = Insert(b, Eight)
      OBVIOUS
    <3>4. g \in Clean(a) /\ g.entries = Append(b.entries, Eight)
      BY <2>2, <3>3, EightKept, KeptFacts, CleanInsert DEF Kept
    <3>5. g.settingsRead = b.settingsRead
      <4>1. b \in Placed /\ Eight \in Entry
        BY <2>2, EightKept, KeptFacts DEF Clean
      <4>2. g = [b EXCEPT !.entries = g.entries, !.insertPoint = b.insertPoint + 1]
        BY <3>3, <4>1, Inserted
      <4> QED BY <2>5, <4>2 DEF Configuration
    <3>6. d = Tell(g, "run-together-limit", LimitMax)
      BY <2>2, <2>5, <2>6, <3>3 DEF NotifyLimit, Eight
    <3>7. d.entries = g.entries /\ d.settingsRead = g.settingsRead
      BY <3>4, <3>6, SameEntries DEF Followed
    <3>8. Adds(a, e, <<e, Eight>>)
      BY <2>4, <2>6, <3>2, LimitAdds
    <3>9. Append(Append(c.entries, e), Eight) = c.entries \o <<e, Eight>>
      BY SMTT(20), <2>4, EightKept
    <3> QED BY <1>3, <1>5, <2>3, <3>4, <3>5, <3>7, <3>8, <3>9 DEF Added
  <2>7. CASE ~(a /\ Scanned[text] > LimitMax)
    <3>1. ~(a /\ Over(e))
      BY <2>1, <2>7 DEF Over, TextOf
    <3>2. d = Tell(b, "run-together-limit", Scanned[text])
      BY <2>2, <2>5, <2>7 DEF NotifyLimit
    <3>3. d.entries = b.entries /\ d.settingsRead = b.settingsRead
      BY <2>2, <3>2, SameEntries DEF Followed
    <3> QED BY <1>3, <1>5, <2>3, <2>4, <3>1, <3>3, OneAdded
  <2> QED BY <2>6, <2>7
<1>10. CASE Legal(e) /\ e.key = "ignore-case"
  <2>1. PICK f : f = Spelt(e)
    OBVIOUS
  <2>2. PICK text : text = TextOf(e)
    OBVIOUS
  <2>3. /\ Spelt(e) \in Entry /\ Spelt(e).key = "ignore-case" /\ Spelt(e).action = e.action
        /\ Spelt(e).value = IF TextOf(e) = "" THEN "true" ELSE e.value
        /\ e.action \in {"Set", "Reset"} /\ Sound(Spelt(e))
        /\ Insert(c, Spelt(e)) \in Clean(a)
        /\ Insert(c, Spelt(e)).entries = Append(c.entries, Spelt(e))
        /\ Insert(c, Spelt(e)).told = c.told
        /\ Commit(Insert(c, e)) = NotifyCase(Insert(c, Spelt(e)), TextOf(e))
    BY <1>1, <1>10, CaseIs
  <2>4. PICK g : g = Insert(c, f)
    OBVIOUS
  <2>5. /\ f \in Entry /\ f.key = "ignore-case" /\ f.action = e.action
        /\ f.value = IF text = "" THEN "true" ELSE e.value
        /\ e.action \in {"Set", "Reset"} /\ Sound(f)
        /\ g \in Clean(a) /\ g.entries = Append(c.entries, f)
        /\ d = NotifyCase(g, text)
    BY <1>2, <1>4, <2>1, <2>2, <2>3, <2>4
  <2>6. f = Amended(e)
    <3>1. e \in [key : Texts, action : Texts, value : Texts]
      BY <1>1 DEF Entry
    <3>2. CASE e.action = "Set" /\ e.value = ""
      <4>1. f = [e EXCEPT !.value = "true"]
        BY <2>1, <3>2 DEF Spelt, TextOf
      <4> QED BY <1>10, <3>2, <4>1 DEF Amended
    <3>3. CASE ~(e.action = "Set" /\ e.value = "")
      <4>1. text # ""
        BY <1>10, <2>2, <2>5, <3>3 DEF TextOf, Default
      <4>2. f = [e EXCEPT !.value = e.value]
        BY <2>1, <2>2, <4>1 DEF Spelt
      <4>3. f = e
        BY <3>1, <4>2
      <4> QED BY <1>10, <3>3, <4>3 DEF Amended
    <3> QED BY <3>2, <3>3
  <2>7. f \in Kept /\ ~Expands(f) /\ ~Expands(e) /\ ~Over(f) /\ e.key \notin Lists
    BY <1>10, <2>5 DEF Kept, Plain, Expands, Over, Lists
  <2>8. g.settingsRead = c.settingsRead
    BY <2>4, <2>5, DoneInserted
  <2>10. d.entries = g.entries /\ d.settingsRead = g.settingsRead
    <3>1. g \in Configuration
      BY <2>5 DEF Clean, Placed
    <3>2. d = IF g.attached THEN [g EXCEPT !.told["ignore-case"] = text # "false"] ELSE g
      BY <2>5 DEF NotifyCase, Tell
    <3> QED BY <3>1, <3>2 DEF Configuration
  <2> QED BY <1>5, <2>5, <2>6, <2>7, <2>8, <2>10, OneAdded
<1>11. CASE Legal(e) /\ e.key \notin {"mode", "run-together-limit", "ignore-case"}
  <2>1. e.key \notin Followed /\ ~Expands(e) /\ ~Over(e)
    BY <1>11 DEF Followed, Expands, Over
  <2>2. e \in Kept /\ e = Amended(e)
    BY <1>11, AmendedKept
  <2>3. d = b
    BY <1>1, <1>2, <1>3, <1>4, <1>11, <2>1, Taken DEF InsertAndCommit
  <2> QED BY <1>3, <1>5, <2>1, <2>2, <2>3, OneAdded
<1> QED BY <1>6, <1>7, <1>8, <1>9, <1>10, <1>11

-----------------------------------------------------------------------------
(* What a configuration says of its options, as a relation that every entry  *)
(* set in it keeps.                                                          *)

Understands(R) ==
  \A c, x : <<c, x>> \in R =>
     /\ c \in Configuration /\ x \in States
     /\ \A b \in BOOLEAN : <<[c EXCEPT !.failed = b], x>> \in R
     /\ \A e \in Plain : /\ <<InsertAndCommit(c, e), Means(x, e)>> \in R
                         /\ Legal(e) /\ e.key \in Lists => InsertAndCommit(c, e).failed = c.failed

\* A committed configuration shows x.
Showing(a, b) == {p \in Done(a) \X States : /\ p[1].settingsRead = b
                                            /\ p[1].entries \in Seq(Kept)
                                            /\ Wrote(Start, p[1].entries) = Seen(a, p[2])}
\* Its entries would make x of the options, if all were committed again.
Recording(from) == {p \in Done(FALSE) \X States : /\ p[1].entries \in Seq(Kept)
                                                  /\ Meant(from, p[1].entries) = p[2]}
\* So would the entries that were put in front of others and are not committed yet.
Ahead(new, from, old, c, x) == /\ new \in Seq(Plain) /\ c.entries = new \o old
                               /\ c.insertPoint = Len(new) /\ Meant(from, new) = x
Collecting(b, from, old) ==
  {p \in Open \X States : /\ p[1].settingsRead = b
                          /\ \E new : Ahead(new, from, old, p[1], p[2])}

\* What a committed configuration shows is kept by every entry.
LEMMA ShowingUnderstands ==
  ASSUME NEW a \in BOOLEAN, NEW b
  PROVE  Understands(Showing(a, b))
<1>1. PICK R : R = Showing(a, b)
  OBVIOUS
<1>2. \A c, x : <<c, x>> \in R <=> /\ c \in Done(a) /\ x \in States /\ c.settingsRead = b
                                   /\ c.entries \in Seq(Kept)
                                   /\ Wrote(Start, c.entries) = Seen(a, x)
  BY <1>1 DEF Showing
<1>3. SUFFICES ASSUME NEW c, NEW x, <<c, x>> \in R
               PROVE  /\ c \in Configuration /\ x \in States
                      /\ \A f \in BOOLEAN : <<[c EXCEPT !.failed = f], x>> \in R
                      /\ \A e \in Plain :
                           /\ <<InsertAndCommit(c, e), Means(x, e)>> \in R
                           /\ Legal(e) /\ e.key \in Lists
                                => InsertAndCommit(c, e).failed = c.failed
  BY <1>1 DEF Understands
<1>4. /\ c \in Done(a) /\ x \in States /\ c.settingsRead = b
      /\ c.entries \in Seq(Kept) /\ Wrote(Start, c.entries) = Seen(a, x)
  BY <1>2, <1>3
<1>5. c \in Configuration
  BY <1>4 DEF Done, Clean, Placed
<1>6. ASSUME NEW f \in BOOLEAN PROVE <<[c EXCEPT !.failed = f], x>> \in R
  <2>1. PICK d : d = [c EXCEPT !.failed = f]
    OBVIOUS
  <2>2. d \in Done(a)
    BY <1>4, <2>1, FailedKeeps
  <2>3. d.entries = c.entries /\ d.settingsRead = c.settingsRead
    BY <1>5, <2>1, FailedSame
  <2> QED BY <1>2, <1>4, <2>1, <2>2, <2>3
<1>7. ASSUME NEW e \in Plain
      PROVE  /\ <<InsertAndCommit(c, e), Means(x, e)>> \in R
             /\ Legal(e) /\ e.key \in Lists => InsertAndCommit(c, e).failed = c.failed
  <2>1. PICK d : d = InsertAndCommit(c, e)
    OBVIOUS
  <2>2. Added(a, e, d, c)
    BY <1>4, <2>1, CommitAdds
  <2>3. PICK s : d.entries = c.entries \o s /\ Adds(a, e, s)
    BY <2>2 DEF Added
  <2>4. s \in Seq(Kept) /\ Wrote(Seen(a, x), s) = Seen(a, Means(x, e))
    BY <1>4, <2>3 DEF Adds
  <2>5. Start \in States
    BY StartTyped
  <2>6. Wrote(Start, c.entries \o s) = Wrote(Seen(a, x), s)
    <3>1. PICK u \in Seq(Kept), st \in States : u = c.entries /\ st = Start
      BY <1>4, <2>5
    <3>2. Wrote(st, u \o s) = Wrote(Wrote(st, u), s)
      BY <2>4, WroteFacts
    <3> QED BY <1>4, <3>1, <3>2
  <2>7. c.entries \o s \in Seq(Kept)
    BY <1>4, <2>4, ConcatProperties
  <2>8. Means(x, e) \in States
    BY <1>4, MeansTyped
  <2>9. d \in Done(a) /\ d.settingsRead = b
    BY <1>4, <2>2 DEF Added
  <2>10. <<d, Means(x, e)>> \in R
    BY <1>2, <2>3, <2>4, <2>6, <2>7, <2>8, <2>9
  <2> QED BY <2>1, <2>2, <2>10 DEF Added
<1> QED BY <1>4, <1>5, <1>6, <1>7

\* So is what its entries would mean if they were committed again.
LEMMA RecordingUnderstands ==
  ASSUME NEW from \in States
  PROVE  Understands(Recording(from))
<1>1. PICK R : R = Recording(from)
  OBVIOUS
<1>a. PICK a \in BOOLEAN : a = FALSE
  OBVIOUS
<1>2. \A c, x : <<c, x>> \in R <=> /\ c \in Done(a) /\ x \in States
                                   /\ c.entries \in Seq(Kept) /\ Meant(from, c.entries) = x
  BY <1>1, <1>a DEF Recording
<1>3. SUFFICES ASSUME NEW c, NEW x, <<c, x>> \in R
               PROVE  /\ c \in Configuration /\ x \in States
                      /\ \A f \in BOOLEAN : <<[c EXCEPT !.failed = f], x>> \in R
                      /\ \A e \in Plain :
                           /\ <<InsertAndCommit(c, e), Means(x, e)>> \in R
                           /\ Legal(e) /\ e.key \in Lists
                                => InsertAndCommit(c, e).failed = c.failed
  BY <1>1 DEF Understands
<1>4. /\ c \in Done(a) /\ x \in States
      /\ c.entries \in Seq(Kept) /\ Meant(from, c.entries) = x
  BY <1>2, <1>3
<1>5. c \in Configuration
  BY <1>4 DEF Done, Clean, Placed
<1>6. ASSUME NEW f \in BOOLEAN PROVE <<[c EXCEPT !.failed = f], x>> \in R
  <2>1. PICK d : d = [c EXCEPT !.failed = f]
    OBVIOUS
  <2>2. d \in Done(a)
    BY <1>4, <2>1, FailedKeeps
  <2>3. d.entries = c.entries
    BY <1>5, <2>1, FailedSame
  <2> QED BY <1>2, <1>4, <2>1, <2>2, <2>3
<1>7. ASSUME NEW e \in Plain
      PROVE  /\ <<InsertAndCommit(c, e), Means(x, e)>> \in R
             /\ Legal(e) /\ e.key \in Lists => InsertAndCommit(c, e).failed = c.failed
  <2>1. PICK d : d = InsertAndCommit(c, e)
    OBVIOUS
  <2>2. Added(a, e, d, c)
    BY <1>4, <2>1, CommitAdds
  <2>3. PICK s : d.entries = c.entries \o s /\ Adds(a, e, s)
    BY <2>2 DEF Added
  <2>4. s \in Seq(Kept) /\ Meant(x, s) = Means(x, e) /\ s \in Seq(Plain)
    BY <1>4, <1>a, <2>3, KeptFacts DEF Adds
  <2>6. Meant(from, c.entries \o s) = Means(x, e)
    <3>1. PICK u \in Seq(Plain) : u = c.entries
      BY <1>4, KeptFacts
    <3>2. Meant(from, u \o s) = Meant(Meant(from, u), s)
      BY <2>4, MeantFacts
    <3> QED BY <1>4, <2>4, <3>1, <3>2
  <2>7. c.entries \o s \in Seq(Kept)
    BY <1>4, <2>4, ConcatProperties
  <2>8. Means(x, e) \in States
    BY <1>4, MeansTyped
  <2>9. d \in Done(a)
    BY <1>4, <2>2 DEF Added
  <2>10. <<d, Means(x, e)>> \in R
    BY <1>2, <2>3, <2>6, <2>7, <2>8, <2>9
  <2> QED BY <2>1, <2>2, <2>10 DEF Added
<1> QED BY <1>4, <1>5, <1>6, <1>7

\* Where something is put between two lists.
Put(u, n, e) == SubSeq(u, 1, n) \o <<e>> \o SubSeq(u, n + 1, Len(u))

\* The first list is longer by the item then.
LEMMA Between ==
  ASSUME NEW S, NEW s \in Seq(S), NEW t \in Seq(S), NEW e \in S, NEW u, u = s \o t,
         NEW n \in Nat, n = Len(s)
  PROVE  Put(u, n, e) = Append(s, e) \o t
<1>1. PICK m \in Nat : m = Len(t)
  BY LenProperties
<1>2. /\ u \in Seq(S) /\ Len(u) = n + m
      /\ \A i \in 1..n : u[i] = s[i]
      /\ \A i \in 1..m : u[n + i] = t[i]
  BY <1>1, ConcatProperties
<1>3. SubSeq(u, 1, n) = s
  <2>1. PICK v : v = SubSeq(u, 1, n)
    OBVIOUS
  <2>2. v \in Seq(S) /\ Len(v) = n /\ \A i \in 1..n : v[i] = u[i]
    BY <1>2, <2>1
  <2> QED BY <1>2, <2>1, <2>2
<1>4. SubSeq(u, n + 1, n + m) = t
  <2>1. PICK v : v = SubSeq(u, n + 1, n + m)
    OBVIOUS
  <2>2. v \in Seq(S) /\ Len(v) = m /\ \A i \in 1..m : v[i] = u[n + i]
    BY <1>2, <2>1
  <2>3. \A i \in 1..m : v[i] = t[i]
    BY <1>2, <2>2
  <2>4. v = t
    BY <1>1, <2>2, <2>3
  <2> QED BY <2>1, <2>4
<1>5. Append(s, e) = s \o <<e>>
  OBVIOUS
<1> QED BY <1>2, <1>3, <1>4, <1>5 DEF Put

\* So is what the entries in front mean, of a configuration that is not committed.
LEMMA CollectingUnderstands ==
  ASSUME NEW b, NEW from \in States, NEW old \in Seq(Plain)
  PROVE  Understands(Collecting(b, from, old))
<1>1. PICK R : R = Collecting(b, from, old)
  OBVIOUS
<1>2. \A c, x : <<c, x>> \in R <=> /\ c \in Open /\ x \in States /\ c.settingsRead = b
                                   /\ \E new : Ahead(new, from, old, c, x)
  BY <1>1 DEF Collecting
<1>3. SUFFICES ASSUME NEW c, NEW x, <<c, x>> \in R
               PROVE  /\ c \in Configuration /\ x \in States
                      /\ \A f \in BOOLEAN : <<[c EXCEPT !.failed = f], x>> \in R
                      /\ \A e \in Plain :
                           /\ <<InsertAndCommit(c, e), Means(x, e)>> \in R
                           /\ Legal(e) /\ e.key \in Lists
                                => InsertAndCommit(c, e).failed = c.failed
  BY <1>1 DEF Understands
<1>4. c \in Open /\ x \in States /\ c.settingsRead = b
  BY <1>2, <1>3
<1>5. PICK new \in Seq(Plain) : /\ c.entries = new \o old
                                /\ c.insertPoint = Len(new) /\ Meant(from, new) = x
  BY <1>2, <1>3 DEF Ahead
<1>6. c \in Placed /\ c \in Configuration /\ ~c.committed /\ ~c.attached
  BY <1>4 DEF Open, Placed
<1>7. ASSUME NEW f \in BOOLEAN PROVE <<[c EXCEPT !.failed = f], x>> \in R
  <2>1. PICK d : d = [c EXCEPT !.failed = f]
    OBVIOUS
  <2>2. /\ d \in Configuration /\ d.entries = c.entries /\ d.insertPoint = c.insertPoint
        /\ d.settingsRead = c.settingsRead /\ d.committed = c.committed
        /\ d.attached = c.attached
    BY <1>6, <2>1, FailedSame
  <2>3. d \in Open
    BY <1>6, <2>2 DEF Open, Placed
  <2>4. Ahead(new, from, old, d, x)
    BY <1>5, <2>2 DEF Ahead
  <2> QED BY <1>2, <1>4, <2>1, <2>2, <2>3, <2>4
<1>8. ASSUME NEW e \in Plain
      PROVE  /\ <<InsertAndCommit(c, e), Means(x, e)>> \in R
             /\ InsertAndCommit(c, e).failed = c.failed
  <2>1. PICK d : d = Insert(c, e)
    OBVIOUS
  <2>2. e \in Entry
    BY DEF Plain
  <2>3. d \in Placed /\ d = [c EXCEPT !.entries = d.entries, !.insertPoint = c.insertPoint + 1]
    BY <1>6, <2>1, <2>2, Inserted
  <2>4. /\ d.insertPoint = c.insertPoint + 1 /\ d.settingsRead = c.settingsRead
        /\ d.committed = c.committed /\ d.attached = c.attached /\ d.failed = c.failed
    BY <1>6, <2>3 DEF Configuration
  <2>5. d.entries = Append(new, e) \o old
    <3>n. PICK n \in Nat : n = Len(new)
      BY <1>5, LenProperties
    <3>1. PICK u : u = c.entries /\ u = new \o old
      BY <1>5
    <3>P. PICK S : S = Plain
      OBVIOUS
    <3>s. new \in Seq(S) /\ old \in Seq(S) /\ e \in S
      BY <1>5, <3>P
    <3>2. Put(u, n, e) = Append(new, e) \o old
      BY <3>n, <3>1, <3>s, Between
    <3>3. d.entries = SubSeq(c.entries, 1, c.insertPoint) \o <<e>>
                      \o SubSeq(c.entries, c.insertPoint + 1, Len(c.entries))
      BY <1>6, <2>1 DEF Insert, Configuration
    <3> QED BY <1>5, <3>n, <3>1, <3>2, <3>3 DEF Put
  <2>6. d \in Open
    BY <1>6, <2>3, <2>4 DEF Open
  <2>7. InsertAndCommit(c, e) = d
    BY <1>6, <2>1, <2>4 DEF InsertAndCommit
  <2>8. /\ Append(new, e) \in Seq(Plain) /\ Len(Append(new, e)) = Len(new) + 1
        /\ Meant(from, Append(new, e)) = Means(x, e)
    BY <1>5, AppendProperties, MeantFacts
  <2>9. Ahead(Append(new, e), from, old, d, Means(x, e))
    BY <1>5, <2>4, <2>5, <2>8 DEF Ahead
  <2>10. Means(x, e) \in States
    BY <1>4, MeansTyped
  <2>11. <<d, Means(x, e)>> \in R
    BY <1>2, <1>4, <2>4, <2>6, <2>9, <2>10
  <2> QED BY <2>4, <2>7, <2>11
<1> QED BY <1>4, <1>6, <1>7, <1>8

-----------------------------------------------------------------------------
(* What a request means.                                                     *)

\* Requests that reset no list (after those lookup_list reads on, config.cpp:416-424).
PlainRequests == {r \in Requests : ~(r.key \in Lists /\ r.prefix = "reset")}
Asks(x, r) ==
  [view |-> Understand(x.view, r),
   none |-> IF r.key = "mode" /\ LegalRequest(r) THEN r.prefix = "reset" ELSE x.none]

\* An entry that does nothing.
LEMMA NothingMeant ==
  ASSUME NEW x \in States, NEW e \in Plain, ~Legal(e)
  PROVE  Means(x, e) = x
<1>1. PICK f : f = Amended(e)
  OBVIOUS
<1>2. f.action = "NoOp"
  BY <1>1, AmendedTyped
<1>3. Means(x, e) = Written(x, f)
  BY <1>1 DEF Means, Expands
<1>4. \A k \in Keys : Says(x.view[k], f, k) = x.view[k]
  BY <1>2 DEF Says
<1>5. SaysNone(x.none, f) = x.none
  BY <1>2 DEF SaysNone
<1>6. x.view = [k \in Keys |-> x.view[k]] /\ x = [view |-> x.view, none |-> x.none]
  BY DEF States, Views
<1>7. [k \in Keys |-> Says(x.view[k], f, k)] = x.view
  BY <1>4, <1>6
<1> QED BY <1>3, <1>5, <1>6, <1>7 DEF Written

\* The entry of a request with one value.
EntryOf(r) == NewEntry(r.key, Action(r.prefix), ValueOf(r))

\* It resets no list if the request does not.
LEMMA EntryTyped ==
  ASSUME NEW r \in PlainRequests, r.prefix # "lset"
  PROVE  /\ EntryOf(r) \in Plain /\ EntryOf(r).key = r.key
         /\ EntryOf(r).action = Action(r.prefix) /\ EntryOf(r).value = ValueOf(r)
         /\ ValueOf(r) \in Texts /\ r.prefix \in OptionPrefixes
         /\ r.prefix \in {"add", "rem"} => ValueOf(r) = r.value
         /\ Action(r.prefix) =
              CASE r.prefix \in {"", "enable", "disable"} -> "Set"
                [] r.prefix = "reset" -> "Reset"
                [] r.prefix = "add" -> "ListAdd"
                [] r.prefix = "rem" -> "ListRemove"
                [] r.prefix = "clear" -> "ListClear"
<1>1. r \in [prefix : OptionPrefixes, key : Texts, value : Texts]
  BY DEF PlainRequests, Requests
<1>2. r.prefix \in OptionPrefixes /\ r.key \in Texts /\ r.value \in Texts
  BY <1>1
<1>3. Action(r.prefix) \in Texts
  BY <1>2 DEF OptionPrefixes, Action, Texts
<1>4. ValueOf(r) \in Texts /\ (r.prefix \in {"add", "rem"} => ValueOf(r) = r.value)
  BY <1>2 DEF ValueOf, Texts
<1>5. PICK e : e = EntryOf(r)
  OBVIOUS
<1>6. e \in Entry /\ e.key = r.key /\ e.action = Action(r.prefix) /\ e.value = ValueOf(r)
  BY <1>2, <1>3, <1>4, <1>5 DEF EntryOf, NewEntry, Entry
<1>7. Action(r.prefix) = "Reset" <=> r.prefix = "reset"
  BY <1>2 DEF OptionPrefixes, Action
<1>8. e \in Plain
  BY <1>6, <1>7 DEF Plain, PlainRequests
<1> QED BY <1>2, <1>4, <1>5, <1>6, <1>8 DEF Action

\* It is legal if the request is.
LEMMA EntryLegal ==
  ASSUME NEW r \in PlainRequests, r.prefix # "lset", ~(r.prefix \in NoValuePrefixes /\ r.value # "")
  PROVE  Legal(EntryOf(r)) <=> LegalRequest(r)
<1>1. PICK e : e = EntryOf(r)
  OBVIOUS
<1>2. PICK p : p = r.prefix
  OBVIOUS
<1>3. PICK v : v = ValueOf(r)
  OBVIOUS
<1>4. e.key = r.key /\ e.action = Action(p) /\ e.value = v /\ p \in OptionPrefixes
  BY <1>1, <1>2, <1>3, EntryTyped
<1>5. /\ Action(p) = "Set" <=> p \in {"", "enable", "disable"}
      /\ Action(p) = "Reset" <=> p = "reset"
  BY <1>4 DEF Action, OptionPrefixes
<1>6. LegalRequest(r) <=>
        /\ r.key \in Keys
        /\ r.key \in Scalars => /\ p \notin {"add", "rem", "clear"}
                                /\ p = "reset" \/ /\ r.key = "ignore-case" => v \in {"", "true", "false"}
                                                  /\ r.key = "run-together-limit" => v \in IntTexts
  <2>1. r.key \in Scalars =>
          ((v \in CASE r.key \in {"mode", "keyboard"} -> {v}
                    [] r.key = "ignore-case" -> {"", "true", "false"}
                    [] r.key = "run-together-limit" -> IntTexts)
           <=> /\ r.key = "ignore-case" => v \in {"", "true", "false"}
               /\ r.key = "run-together-limit" => v \in IntTexts)
    BY DEF Scalars
  <2> QED BY <1>2, <1>3, <2>1 DEF LegalRequest
<1>7. Legal(e) <=>
        /\ r.key \in Keys
        /\ r.key \notin Lists => p \in {"", "enable", "disable", "reset"}
        /\ r.key = "ignore-case" /\ p \in {"", "enable", "disable"} => v \in {"", "true", "false"}
        /\ r.key = "run-together-limit" /\ p \in {"", "enable", "disable"} => v \in IntTexts
  BY <1>4, <1>5 DEF Legal
<1>8. p \in {"", "enable", "disable", "reset", "add", "rem", "clear"}
  BY <1>4 DEF OptionPrefixes
<1>9. CASE r.key \in Scalars
  <2>1. r.key \in Keys /\ r.key \notin Lists
    BY <1>9, KeyFacts
  <2> QED BY <1>1, <1>6, <1>7, <1>8, <1>9, <2>1
<1>10. CASE r.key \notin Scalars
  <2>1. r.key \in Keys => r.key \in Lists
    BY <1>10, KeyFacts
  <2>2. r.key # "ignore-case" /\ r.key # "run-together-limit"
    BY <1>10 DEF Scalars
  <2> QED BY <1>1, <1>6, <1>7, <1>10, <2>1, <2>2
<1> QED BY <1>9, <1>10

\* What it makes of its option.
LEMMA EntrySays ==
  ASSUME NEW r \in PlainRequests, r.prefix # "lset", LegalRequest(r), NEW old
  PROVE  NewValue(r, old) = Says(old, Amended(EntryOf(r)), r.key)
<1>1. PICK e : e = EntryOf(r)
  OBVIOUS
<1>2. PICK p : p = r.prefix
  OBVIOUS
<1>3. PICK v \in Texts : v = ValueOf(r)
  BY EntryTyped
<1>4. PICK f : f = Amended(e)
  OBVIOUS
<1>5. /\ e \in Plain /\ e.key = r.key /\ e.action = Action(p) /\ e.value = v
      /\ p \in OptionPrefixes /\ (p \in {"add", "rem"} => v = r.value)
      /\ Action(p) =
              CASE p \in {"", "enable", "disable"} -> "Set"
                [] p = "reset" -> "Reset"
                [] p = "add" -> "ListAdd"
                [] p = "rem" -> "ListRemove"
                [] p = "clear" -> "ListClear"
  BY <1>1, <1>2, <1>3, EntryTyped
<1>6. Legal(e)
  BY <1>1, EntryLegal DEF LegalRequest
<1>7. e \in [key : Texts, action : Texts, value : Texts]
  BY <1>5 DEF Plain, Entry
<1>8. /\ f.key = r.key /\ f.action = Action(p)
      /\ f.value = IF r.key = "ignore-case" /\ Action(p) = "Set" /\ v = "" THEN "true" ELSE v
  BY <1>4, <1>5, <1>6, <1>7 DEF Amended
<1>9. p \in {"", "enable", "disable", "reset", "add", "rem", "clear"}
  BY <1>5 DEF OptionPrefixes
<1>10. CASE r.key \in Scalars
  <2>1. r.key \notin Lists /\ e.action \in {"Set", "Reset"}
    BY <1>5, <1>6, <1>10, KeyFacts DEF Legal
  <2>2. CASE p = "reset"
    <3>1. f.action = "Reset"
      BY <1>5, <1>8, <2>2
    <3>2. NewValue(r, old) = Default(r.key)
      BY <1>2, <2>1, <2>2 DEF NewValue
    <3> QED BY <1>1, <1>4, <1>8, <2>1, <3>1, <3>2 DEF Says
  <2>3. CASE p # "reset"
    <3>1. p \in {"", "enable", "disable"} /\ Action(p) = "Set"
      BY <1>5, <1>9, <2>1, <2>3
    <3>2. NewValue(r, old) = IF r.key = "ignore-case" /\ v = "" THEN "true" ELSE v
      BY <1>2, <1>3, <1>10, <2>1, <2>3, <3>1 DEF NewValue
    <3> QED BY <1>1, <1>4, <1>8, <2>1, <3>1, <3>2 DEF Says
  <2> QED BY <2>2, <2>3
<1>11. CASE r.key \in Lists
  <2>1. r.key \notin Scalars /\ r.key # "ignore-case" /\ p # "reset"
    BY <1>2, <1>11, KeyFacts DEF PlainRequests, Lists
  <2>2. f.value = v
    BY <1>8, <2>1
  <2>3. CASE p \in {"", "enable", "disable"}
    <3>1. NewValue(r, old) = <<v>>
      BY <1>2, <1>3, <1>11, <2>1, <2>3 DEF NewValue
    <3>2. f.action = "Set"
      BY <1>5, <1>8, <2>3
    <3>3. AddTo(<<>>, v) = <<v>>
      BY DEF AddTo, Contains
    <3> QED BY <1>1, <1>4, <1>8, <1>11, <2>2, <3>1, <3>2, <3>3 DEF Says, Heed
  <2>4. CASE p = "add"
    <3>1. NewValue(r, old) = AddTo(old, v)
      BY <1>2, <1>5, <2>1, <2>4 DEF NewValue
    <3>2. f.action = "ListAdd"
      BY <1>5, <1>8, <2>4
    <3> QED BY <1>1, <1>4, <1>8, <1>11, <2>2, <3>1, <3>2 DEF Says, Heed, Edit
  <2>5. CASE p = "rem"
    <3>1. NewValue(r, old) = RemoveFrom(old, v)
      BY <1>2, <1>5, <2>1, <2>5 DEF NewValue
    <3>2. f.action = "ListRemove"
      BY <1>5, <1>8, <2>5
    <3> QED BY <1>1, <1>4, <1>8, <1>11, <2>2, <3>1, <3>2 DEF Says, Heed, Edit
  <2>6. CASE p = "clear"
    <3>1. NewValue(r, old) = <<>>
      BY <1>2, <2>1, <2>6 DEF NewValue
    <3>2. f.action = "ListClear"
      BY <1>5, <1>8, <2>6
    <3> QED BY <1>1, <1>4, <1>8, <1>11, <2>2, <3>1, <3>2 DEF Says, Heed
  <2> QED BY <1>9, <2>1, <2>3, <2>4, <2>5, <2>6
<1> QED BY <1>10, <1>11, KeyFacts DEF LegalRequest

\* A request that is refused.
LEMMA AsksNothing ==
  ASSUME NEW x \in States, NEW r, ~LegalRequest(r)
  PROVE  Asks(x, r) = x
<1>1. x = [view |-> x.view, none |-> x.none]
  BY DEF States
<1> QED BY <1>1 DEF Asks, Understand

\* A request with one value asks for what its entry means.
LEMMA OneMeans ==
  ASSUME NEW x \in States, NEW r \in PlainRequests, r.prefix # "lset",
         ~(r.prefix \in NoValuePrefixes /\ r.value # "")
  PROVE  Asks(x, r) = Means(x, EntryOf(r))
<1>1. PICK e \in Plain : e = EntryOf(r)
  BY EntryTyped
<1>2. e.key = r.key /\ e.action = Action(r.prefix) /\ e.value = ValueOf(r)
  BY <1>1, EntryTyped
<1>3. Legal(e) <=> LegalRequest(r)
  BY <1>1, EntryLegal
<1>4. CASE ~Legal(e)
  BY <1>1, <1>3, <1>4, AsksNothing, NothingMeant
<1>5. CASE Legal(e)
  <2>1. PICK k \in Keys : k = r.key
    BY <1>2, <1>5 DEF Legal
  <2>2. PICK f : f = Amended(e)
    OBVIOUS
  <2>3. f.key = k /\ f.action = e.action /\ f.action # "NoOp"
    <3>1. e.action # "NoOp"
      BY <1>2, EntryTyped DEF OptionPrefixes
    <3> QED BY <1>2, <1>5, <2>1, <2>2, <3>1, AmendedTyped
  <2>4. PICK new : new = NewValue(r, x.view[k])
    OBVIOUS
  <2>5. new = Says(x.view[k], f, k)
    BY <1>1, <1>3, <1>5, <2>1, <2>2, <2>4, EntrySays
  <2>6. x.view \in [Keys -> Texts \cup Seq(Texts)]
    BY DEF States, Views
  <2>7. Written(x, f) = [view |-> [x.view EXCEPT ![k] = new],
                         none |-> IF k = "mode" THEN e.action = "Reset" ELSE x.none]
    <3>1. \A j \in Keys : Says(x.view[j], f, j) = IF j = k THEN new ELSE x.view[j]
      BY <2>3, <2>5 DEF Says
    <3>2. [j \in Keys |-> Says(x.view[j], f, j)] = [x.view EXCEPT ![k] = new]
      BY <2>6, <3>1
    <3>3. SaysNone(x.none, f) = IF k = "mode" THEN e.action = "Reset" ELSE x.none
      BY <2>3 DEF SaysNone
    <3> QED BY <3>2, <3>3 DEF Written
  <2>8. e.action = "Reset" <=> r.prefix = "reset"
    BY <1>2, EntryTyped DEF OptionPrefixes
  <2>9. CASE k = "mode"
    <3>1. f = e
      BY <1>2, <1>5, <2>1, <2>2, <2>9 DEF Amended
    <3>2. new = Mode(e)
      BY <1>2, <2>1, <2>3, <2>5, <2>9, <3>1, KeyFacts DEF Says, Mode
    <3>3. PICK t : t = [x.view EXCEPT !["mode"] = new]
      OBVIOUS
    <3>4. PICK none \in BOOLEAN : none = (r.prefix = "reset")
      OBVIOUS
    <3>5. Written(x, e) = [view |-> t, none |-> none]
      BY <2>7, <2>8, <2>9, <3>1, <3>3, <3>4
    <3>6. Asks(x, r) = [view |-> Understand(x.view, r), none |-> none]
      BY <1>3, <1>5, <2>1, <2>9, <3>4 DEF Asks
    <3>7. CASE new \in DOMAIN ModeFilters
      <4>1. PICK l : l = AddAll(ModeFilters[new])
        OBVIOUS
      <4>2. Expands(e)
        BY <1>2, <1>5, <2>1, <2>9, <3>2, <3>7 DEF Expands
      <4>3. Means(x, e) = WithFilters(Written(x, e), l)
        BY <3>2, <4>1, <4>2 DEF Means
      <4>4. Means(x, e) = [view |-> [t EXCEPT !["filter"] = l], none |-> none]
        <5>1. PICK w : w = Written(x, e)
          OBVIOUS
        <5>2. w = [view |-> t, none |-> none]
          BY <3>5, <5>1
        <5>3. w.view = t
          BY <5>2
        <5>4. w.none = none
          BY <5>2
        <5> QED BY <4>3, <5>1, <5>3, <5>4 DEF WithFilters
      <4>5. Understand(x.view, r) = [x.view EXCEPT !["mode"] = new, !["filter"] = l]
        BY <1>3, <1>5, <2>1, <2>4, <2>9, <3>7, <4>1 DEF Understand
      <4>6. [x.view EXCEPT !["mode"] = new, !["filter"] = l] = [t EXCEPT !["filter"] = l]
        BY <3>3
      <4> QED BY <1>1, <3>6, <4>4, <4>5, <4>6
    <3>8. CASE new \notin DOMAIN ModeFilters
      <4>1. Means(x, e) = Written(x, e)
        BY <2>2, <3>1, <3>2, <3>8 DEF Means, Expands
      <4>2. Understand(x.view, r) = t
        BY <1>3, <1>5, <2>1, <2>4, <2>9, <3>3, <3>8 DEF Understand
      <4> QED BY <1>1, <3>5, <3>6, <4>1, <4>2
    <3> QED BY <3>7, <3>8
  <2>10. CASE k # "mode"
    <3>1. Means(x, e) = Written(x, f)
      BY <1>2, <2>1, <2>2, <2>10 DEF Means, Expands
    <3>2. Understand(x.view, r) = [x.view EXCEPT ![k] = new]
      BY <1>3, <1>5, <2>1, <2>4, <2>10 DEF Understand
    <3> QED BY <1>1, <2>1, <2>7, <2>10, <3>1, <3>2 DEF Asks
  <2> QED BY <2>9, <2>10
<1> QED BY <1>4, <1>5

\* A list, and what its items make of it.
WithList(x, k, l) == [view |-> [x.view EXCEPT ![k] = l], none |-> x.none]

\* The items of a list, one after the other.
LEMMA ListMeans ==
  ASSUME NEW x \in States, NEW k \in Lists, NEW l \in Seq(Texts), NEW v \in Texts,
         NEW action \in {"ListAdd", "ListClear"}, NEW e, e = NewEntry(k, action, v)
  PROVE  /\ e \in Plain /\ Legal(e) /\ e.key = k /\ WithList(x, k, l) \in States
         /\ Means(WithList(x, k, l), e)
              = WithList(x, k, IF action = "ListClear" THEN <<>> ELSE AddTo(l, v))
<1>1. e.key = k /\ e.action = action /\ e.value = v
  BY DEF NewEntry
<1>2. e \in Plain
  <2>1. k \in Texts /\ action \in Texts
    BY KeyFacts DEF Texts
  <2> QED BY <1>1, <2>1 DEF NewEntry, Plain, Entry
<1>3. Legal(e) /\ ~Expands(e) /\ Amended(e) = e
  BY <1>1 DEF Legal, Keys, Lists, Expands, Amended
<1>4. x.view \in Views /\ x.view \in [Keys -> Texts \cup Seq(Texts)] /\ x.none \in BOOLEAN
      /\ k \in Keys
  BY KeyFacts DEF States, Views
<1>5. PICK w : w = [x.view EXCEPT ![k] = l]
  OBVIOUS
<1>6. w \in [Keys -> Texts \cup Seq(Texts)] /\ w[k] = l
      /\ \A j \in Keys : j # k => w[j] = x.view[j]
  BY <1>4, <1>5
<1>7. w \in Views
  <2>1. \A j \in Scalars : j # k /\ j \in Keys
    BY KeyFacts
  <2>2. "run-together-limit" \in Scalars
    BY DEF Scalars
  <2>3. \A j \in Scalars : w[j] \in Texts
    BY <1>4, <1>6, <2>1 DEF Views
  <2>4. w["run-together-limit"] \in IntTexts
    BY <1>4, <1>6, <2>1, <2>2 DEF Views
  <2>5. \A j \in Lists : w[j] \in Seq(Texts)
    BY <1>4, <1>6, KeyFacts DEF Views
  <2> QED BY <1>6, <2>3, <2>4, <2>5 DEF Views
<1>8. PICK y \in States : y = WithList(x, k, l) /\ y.view = w /\ y.none = x.none
  <2>1. PICK y : y = WithList(x, k, l)
    OBVIOUS
  <2>2. y = [view |-> w, none |-> x.none]
    BY <1>5, <2>1 DEF WithList
  <2>3. y \in States
    BY <1>4, <1>7, <2>2 DEF States
  <2> QED BY <2>1, <2>2, <2>3
<1>9. PICK new : new = IF action = "ListClear" THEN <<>> ELSE AddTo(l, v)
  OBVIOUS
<1>10. \A j \in Keys : Says(w[j], e, j) = IF j = k THEN new ELSE x.view[j]
  BY <1>1, <1>6, <1>9 DEF Says, Heed, Edit
<1>11. [j \in Keys |-> Says(w[j], e, j)] = [x.view EXCEPT ![k] = new]
  BY <1>4, <1>10
<1>12. SaysNone(y.none, e) = x.none
  BY <1>1, <1>8 DEF SaysNone, Lists
<1>13. Means(y, e) = Written(y, e)
  BY <1>3 DEF Means
<1> QED BY <1>1, <1>2, <1>3, <1>8, <1>9, <1>11, <1>12, <1>13 DEF Written, WithList

\* An entry for a list item, of any option.
LEMMA ItemPlain ==
  ASSUME NEW k \in Texts, NEW v \in Texts, NEW action \in {"ListAdd", "ListClear"}, NEW e,
         e = NewEntry(k, action, v)
  PROVE  e \in Plain /\ (Legal(e) <=> k \in Lists)
<1>1. e.key = k /\ e.action = action /\ e.value = v
  BY DEF NewEntry
<1>2. action \in Texts
  BY DEF Texts
<1>3. e \in Plain
  BY <1>1, <1>2 DEF NewEntry, Plain, Entry
<1>4. Legal(e) => k \in Lists
  BY <1>1 DEF Legal
<1>5. k \in Lists => Legal(e)
  BY <1>1 DEF Legal, Keys, Lists
<1> QED BY <1>3, <1>4, <1>5

\* lset of a list.
LEMMA ListSetMeans ==
  ASSUME NEW R, Understands(R), NEW c, NEW x, <<c, x>> \in R, ~c.failed,
         NEW r \in PlainRequests, r.prefix = "lset", r.key \in Lists
  PROVE  <<SetAll(c, r), Asks(x, r)>> \in R
<1>1. PICK k \in Lists : k = r.key
  OBVIOUS
<1>2. PICK T : T = STRING
  OBVIOUS
<1>3. PICK items \in Seq(T) : items = r.value
  <2>1. "lset" \notin OptionPrefixes
    BY DEF OptionPrefixes
  <2>2. r.value \in Seq(STRING)
    BY <2>1 DEF PlainRequests, Requests
  <2> QED BY <1>2, <2>2
<1>4. T \subseteq Texts /\ k \in Texts /\ "" \in Texts
  BY <1>2, KeyFacts DEF Texts
<1>5. PICK A : A = Seq(Texts)
  OBVIOUS
<1>6. PICK z \in A : z = <<>>
  <2>1. <<>> \in Seq(Texts)
    OBVIOUS
  <2> QED BY <1>5, <2>1
<1>7. x \in States /\ c \in Configuration
  BY DEF Understands
<1>8. PICK e : e = NewEntry(k, "ListClear", "")
  OBVIOUS
<1>9. PICK cleared : cleared = InsertAndCommit(c, e)
  OBVIOUS
<1>10. /\ <<cleared, WithList(x, k, z)>> \in R /\ ~cleared.failed
  <2>1. PICK l \in Seq(Texts) : l = x.view[k]
    BY <1>7 DEF States, Views
  <2>2. PICK action \in {"ListAdd", "ListClear"}, v \in Texts : action = "ListClear" /\ v = ""
    BY <1>4
  <2>3. e = NewEntry(k, action, v)
    BY <1>8, <2>2
  <2>4. /\ e \in Plain /\ Legal(e) /\ e.key = k
        /\ Means(WithList(x, k, l), e)
              = WithList(x, k, IF action = "ListClear" THEN <<>> ELSE AddTo(l, v))
    BY <1>7, <2>3, ListMeans
  <2>5. WithList(x, k, l) = x
    <3>1. x.view = [x.view EXCEPT ![k] = x.view[k]]
      BY <1>7 DEF States, Views
    <3>2. x = [view |-> x.view, none |-> x.none]
      BY <1>7 DEF States
    <3> QED BY <2>1, <3>1, <3>2 DEF WithList
  <2>6. Means(x, e) = WithList(x, k, z)
    BY <1>6, <2>2, <2>4, <2>5
  <2> QED BY <1>9, <2>4, <2>6 DEF Understands
<1>11. PICK G : G = {d \in Configuration : \E y : <<d, y>> \in R}
  OBVIOUS
<1>12. \A d, y : <<d, y>> \in R => d \in G
  BY <1>11 DEF Understands
<1>13. ASSUME NEW f \in T, NEW d \in G
       PROVE  InsertAndCommit(d, NewEntry(k, "ListAdd", f)) \in G
  <2>1. PICK y : <<d, y>> \in R
    BY <1>11
  <2>2. PICK u : u = NewEntry(k, "ListAdd", f)
    OBVIOUS
  <2>3. u \in Plain
    BY <1>4, <2>2, ItemPlain
  <2> QED BY <1>12, <2>1, <2>2, <2>3 DEF Understands
<1>14. ItemOp(T, G, k) \in [T -> [G -> G]] /\ AddOp(T, A) \in [T -> [A -> A]]
  <2>1. \A f \in T : \A l \in A : AddTo(l, f) \in A
    BY <1>4, <1>5, ListTypes
  <2> QED BY <1>13, <2>1 DEF ItemOp, AddOp
<1>15. PICK P : P = {p \in G \X A : <<p[1], WithList(x, k, p[2])>> \in R}
  OBVIOUS
<1>16. \A d, l : <<d, l>> \in P <=> d \in G /\ l \in A /\ <<d, WithList(x, k, l)>> \in R
  BY <1>15
<1>17. Related(P, T, ItemOp(T, G, k), AddOp(T, A))
  <2> SUFFICES ASSUME NEW f \in T, NEW d, NEW l, <<d, l>> \in P
               PROVE  <<ItemOp(T, G, k)[f][d], AddOp(T, A)[f][l]>> \in P
    BY DEF Related
  <2>1. d \in G /\ l \in A /\ <<d, WithList(x, k, l)>> \in R /\ l \in Seq(Texts) /\ f \in Texts
    BY <1>4, <1>5, <1>16
  <2>2. PICK u : u = NewEntry(k, "ListAdd", f)
    OBVIOUS
  <2>3. PICK action \in {"ListAdd", "ListClear"} : action = "ListAdd"
    OBVIOUS
  <2>4. /\ u \in Plain /\ Legal(u)
        /\ Means(WithList(x, k, l), u)
              = WithList(x, k, IF action = "ListClear" THEN <<>> ELSE AddTo(l, f))
    BY <1>7, <2>1, <2>2, <2>3, ListMeans
  <2>5. Means(WithList(x, k, l), u) = WithList(x, k, AddTo(l, f))
    BY <2>3, <2>4
  <2>6. <<InsertAndCommit(d, u), WithList(x, k, AddTo(l, f))>> \in R
    BY <2>1, <2>4, <2>5 DEF Understands
  <2>7. ItemOp(T, G, k)[f][d] = InsertAndCommit(d, u) /\ AddOp(T, A)[f][l] = AddTo(l, f)
    BY <2>1, <2>2 DEF ItemOp, AddOp
  <2>8. AddTo(l, f) \in A
    BY <1>5, <2>1, ListTypes
  <2>9. <<InsertAndCommit(d, u), AddTo(l, f)>> \in P
    BY <1>12, <1>16, <2>6, <2>8
  <2> QED BY <2>7, <2>9
<1>18. <<Through(ItemOp(T, G, k), cleared, items), Through(AddOp(T, A), z, items)>> \in P
  <2>1. cleared \in G /\ <<cleared, z>> \in P
    BY <1>10, <1>12, <1>16
  <2> QED BY <1>14, <1>17, <2>1, ThroughBoth
<1>19. AddItems(cleared, k, items) = Through(ItemOp(T, G, k), cleared, items)
  <2>1. cleared \in G
    BY <1>10, <1>12
  <2> QED BY <1>14, <2>1, ItemLeads
<1>20. AddAll(items) = Through(AddOp(T, A), z, items)
  BY <1>6, <1>14, AddLeads
<1>21. SetAll(c, r) = AddItems(cleared, k, items)
  BY <1>1, <1>3, <1>8, <1>9, <1>10 DEF SetAll
<1>22. Asks(x, r) = WithList(x, k, AddAll(items))
  <2>1. LegalRequest(r)
    <3>1. r.key \in Keys /\ r.key \notin Scalars
      BY KeyFacts
    <3> QED BY <3>1 DEF LegalRequest, NoValuePrefixes
  <2>2. k # "mode" /\ k \notin Scalars
    BY KeyFacts
  <2>3. NewValue(r, x.view[k]) = AddAll(items)
    BY <1>1, <1>3, <2>2 DEF NewValue
  <2> QED BY <1>1, <2>1, <2>2, <2>3 DEF Asks, Understand, WithList
<1>23. PICK d, l : d = AddItems(cleared, k, items) /\ l = AddAll(items) /\ <<d, l>> \in P
  BY <1>18, <1>19, <1>20
<1> QED BY <1>16, <1>21, <1>22, <1>23

\* lset of anything else.
LEMMA NoListSetMeans ==
  ASSUME NEW R, Understands(R), NEW c, NEW x, <<c, x>> \in R, ~c.failed,
         NEW r \in PlainRequests, r.prefix = "lset", r.key \notin Lists
  PROVE  <<SetAll(c, r), Asks(x, r)>> \in R
<1>1. PICK k \in Texts : k = r.key /\ k \notin Lists
  BY DEF PlainRequests, Requests
<1>2. PICK T : T = STRING
  OBVIOUS
<1>3. PICK items \in Seq(T) : items = r.value
  <2>1. "lset" \notin OptionPrefixes
    BY DEF OptionPrefixes
  <2>2. r.value \in Seq(STRING)
    BY <2>1 DEF PlainRequests, Requests
  <2> QED BY <1>2, <2>2
<1>4. T \subseteq Texts /\ "" \in Texts
  BY <1>2 DEF Texts
<1>5. x \in States /\ c \in Configuration
  BY DEF Understands
<1>6. PICK G : G = {d \in Configuration : <<d, x>> \in R}
  OBVIOUS
<1>7. ASSUME NEW f \in Texts, NEW action \in {"ListAdd", "ListClear"}, NEW d \in G
      PROVE  InsertAndCommit(d, NewEntry(k, action, f)) \in G
  <2>1. PICK u : u = NewEntry(k, action, f)
    OBVIOUS
  <2>2. u \in Plain /\ ~Legal(u)
    BY <1>1, <2>1, ItemPlain
  <2>3. Means(x, u) = x
    BY <1>5, <2>2, NothingMeant
  <2>4. <<InsertAndCommit(d, u), x>> \in R
    BY <1>6, <2>2, <2>3 DEF Understands
  <2> QED BY <1>6, <2>1, <2>4 DEF Understands
<1>8. PICK cleared \in G : cleared = InsertAndCommit(c, NewEntry(k, "ListClear", ""))
  <2>1. c \in G
    BY <1>5, <1>6
  <2> QED BY <1>4, <1>7, <2>1
<1>9. AddItems(cleared, k, items) \in G
  <2>1. ItemOp(T, G, k) \in [T -> [G -> G]]
    <3>1. \A f \in T : \A d \in G : InsertAndCommit(d, NewEntry(k, "ListAdd", f)) \in G
      BY <1>4, <1>7
    <3> QED BY <3>1 DEF ItemOp
  <2>2. AddItems(cleared, k, items) = Through(ItemOp(T, G, k), cleared, items)
    BY <2>1, ItemLeads
  <2> QED BY <2>1, <2>2, ThroughStays
<1>10. SetAll(c, r) \in G
  BY <1>1, <1>3, <1>8, <1>9 DEF SetAll
<1>11. ~LegalRequest(r)
  BY <1>1, KeyFacts DEF LegalRequest
<1> QED BY <1>5, <1>6, <1>10, <1>11, AsksNothing

\* Config::set, without the check for an earlier error.
LEMMA SetMeans ==
  ASSUME NEW R, Understands(R), NEW c, NEW x, <<c, x>> \in R, ~c.failed,
         NEW r \in PlainRequests
  PROVE  <<SetEntry(c, r), Asks(x, r)>> \in R
<1>1. x \in States
  BY DEF Understands
<1>2. CASE r.prefix = "lset"
  BY <1>2, ListSetMeans, NoListSetMeans DEF SetEntry
<1>3. CASE r.prefix # "lset" /\ r.prefix \in NoValuePrefixes /\ r.value # ""
  <2>1. SetEntry(c, r) = [c EXCEPT !.failed = TRUE]
    BY <1>3 DEF SetEntry, SetOne
  <2>2. Asks(x, r) = x
    BY <1>1, <1>3, AsksNothing DEF LegalRequest
  <2> QED BY <2>1, <2>2 DEF Understands
<1>4. CASE r.prefix # "lset" /\ ~(r.prefix \in NoValuePrefixes /\ r.value # "")
  <2>1. PICK e \in Plain : e = EntryOf(r)
    BY <1>4, EntryTyped
  <2>2. SetEntry(c, r) = InsertAndCommit(c, e)
    BY <1>4, <2>1 DEF SetEntry, SetOne, EntryOf
  <2>3. Asks(x, r) = Means(x, e)
    BY <1>1, <1>4, <2>1, OneMeans
  <2> QED BY <2>1, <2>2, <2>3 DEF Understands
<1> QED BY <1>2, <1>3, <1>4

\* Config::set.
LEMMA SetAsks ==
  ASSUME NEW R, Understands(R), NEW c, NEW x, <<c, x>> \in R, NEW r \in PlainRequests
  PROVE  <<Set(c, r), Asks(x, r)>> \in R
<1>1. PICK d : d = [c EXCEPT !.failed = FALSE]
  OBVIOUS
<1>2. <<d, x>> \in R
  BY <1>1 DEF Understands
<1>3. ~d.failed
  <2>1. c \in Configuration
    BY DEF Understands
  <2> QED BY <1>1, <2>1 DEF Configuration
<1> QED BY <1>1, <1>2, <1>3, SetMeans DEF Set

\* What a list of requests means, one after the other.
MeaningOp(T, G) == [f \in T |-> [d \in G |-> Understand(d, f)]]

\* The fold of Meaning.
LEMMA MeaningLeads ==
  ASSUME NEW T, NEW G, NEW seq \in Seq(T),
         MeaningOp(T, G) \in [T -> [G -> G]], [k \in Keys |-> Default(k)] \in G
  PROVE  Meaning(seq) = Through(MeaningOp(T, G), [k \in Keys |-> Default(k)], seq)
<1> DEFINE base == [k \in Keys |-> Default(k)]
           next(d, f) == Understand(d, f)
           value(it) == [p \in SUBSET DOMAIN seq |->
                           IF p = {} THEN base ELSE next(it[p \ {Max(p)}], seq[Max(p)])]
<1>1. PICK n \in Nat : n = Len(seq) /\ DOMAIN seq = 1..n
  BY LenProperties
<1>2. Meaning(seq) = (CHOOSE it : it = value(it))[1..n]
  <2>1. Meaning(seq) = FoldLeft(next, base, seq)
    BY DEF Meaning
  <2>2. FoldLeft(next, base, seq) = (CHOOSE it : it = value(it))[DOMAIN seq]
    BY DEF FoldLeft, MapThenFoldSet
  <2> QED BY <1>1, <2>1, <2>2
<1>3. PICK op \in [T -> [G -> G]] : /\ op = MeaningOp(T, G)
                                   /\ \A f \in T : \A d \in G : op[f][d] = next(d, f)
  BY DEF MeaningOp
<1>4. PICK a \in G : a = base
  OBVIOUS
<1> HIDE DEF base, next
<1>5. PICK it : it = value(it) /\ (CHOOSE i : i = value(i)) = it
  <2>1. PICK it : FoldAlong(it, n, G, op, a, seq)
    <3>1. \E it : FoldAlong(it, n, G, op, a, seq)
      BY <1>1, AlongExists
    <3> QED BY <3>1
  <2>2. ASSUME NEW p \in SUBSET (1..n)
        PROVE  it[p] = IF p = {} THEN base ELSE next(it[p \ {Max(p)}], seq[Max(p)])
    <3>1. CASE p # {}
      <4>1. Max(p) \in 1..n
        BY <3>1, MaxOf
      <4>2. seq[Max(p)] \in T
        BY <1>1, <4>1, ElementOfSeq
      <4>3. it[p \ {Max(p)}] \in G /\ it[p] = op[seq[Max(p)]][it[p \ {Max(p)}]]
        BY <2>1, <3>1 DEF FoldAlong
      <4> QED BY <1>3, <3>1, <4>2, <4>3
    <3> QED BY <1>4, <2>1, <3>1 DEF FoldAlong
  <2>3. it = value(it)
    BY <1>1, <2>1, <2>2 DEF FoldAlong
  <2> HIDE DEF value
  <2> QED BY <2>3
<1>6. StepsAlong(it, n, G, op, a, seq)
  <2>1. it[{}] = a
    BY <1>4, <1>5
  <2>2. ASSUME NEW p \in SUBSET (1..n), p # {}, it[p \ {Max(p)}] \in G
        PROVE  it[p] = op[seq[Max(p)]][it[p \ {Max(p)}]]
    <3>1. Max(p) \in 1..n
      BY <2>2, MaxOf
    <3>2. seq[Max(p)] \in T
      BY <1>1, <3>1, ElementOfSeq
    <3>3. it[p] = next(it[p \ {Max(p)}], seq[Max(p)])
      BY <1>1, <1>5, <2>2
    <3> QED BY <1>3, <2>2, <3>2, <3>3
  <2> HIDE DEF value
  <2> QED BY <2>1, <2>2 DEF StepsAlong
<1> HIDE DEF value
<1>7. it[1..n] = Through(op, a, seq)
  BY <1>1, <1>6, AlongLeads
<1> QED BY <1>2, <1>3, <1>4, <1>5, <1>7 DEF base

\* Whether the mode was left to be found, after every request.
NoModeOp(T, G) == [f \in T |-> [d \in G |-> (IF f.key = "mode" /\ LegalRequest(f) THEN f.prefix = "reset" ELSE d)]]

\* The fold of NoMode.
LEMMA NoModeLeads ==
  ASSUME NEW T, NEW G, NEW seq \in Seq(T),
         NoModeOp(T, G) \in [T -> [G -> G]], TRUE \in G
  PROVE  NoMode(seq) = Through(NoModeOp(T, G), TRUE, seq)
<1> DEFINE base == TRUE
           next(d, f) == (IF f.key = "mode" /\ LegalRequest(f) THEN f.prefix = "reset" ELSE d)
           value(it) == [p \in SUBSET DOMAIN seq |->
                           IF p = {} THEN base ELSE next(it[p \ {Max(p)}], seq[Max(p)])]
<1>1. PICK n \in Nat : n = Len(seq) /\ DOMAIN seq = 1..n
  BY LenProperties
<1>2. NoMode(seq) = (CHOOSE it : it = value(it))[1..n]
  <2>1. NoMode(seq) = FoldLeft(next, base, seq)
    BY DEF NoMode
  <2>2. FoldLeft(next, base, seq) = (CHOOSE it : it = value(it))[DOMAIN seq]
    BY DEF FoldLeft, MapThenFoldSet
  <2> QED BY <1>1, <2>1, <2>2
<1>3. PICK op \in [T -> [G -> G]] : /\ op = NoModeOp(T, G)
                                   /\ \A f \in T : \A d \in G : op[f][d] = next(d, f)
  BY DEF NoModeOp
<1>4. PICK a \in G : a = base
  OBVIOUS
<1> HIDE DEF base, next
<1>5. PICK it : it = value(it) /\ (CHOOSE i : i = value(i)) = it
  <2>1. PICK it : FoldAlong(it, n, G, op, a, seq)
    <3>1. \E it : FoldAlong(it, n, G, op, a, seq)
      BY <1>1, AlongExists
    <3> QED BY <3>1
  <2>2. ASSUME NEW p \in SUBSET (1..n)
        PROVE  it[p] = IF p = {} THEN base ELSE next(it[p \ {Max(p)}], seq[Max(p)])
    <3>1. CASE p # {}
      <4>1. Max(p) \in 1..n
        BY <3>1, MaxOf
      <4>2. seq[Max(p)] \in T
        BY <1>1, <4>1, ElementOfSeq
      <4>3. it[p \ {Max(p)}] \in G /\ it[p] = op[seq[Max(p)]][it[p \ {Max(p)}]]
        BY <2>1, <3>1 DEF FoldAlong
      <4> QED BY <1>3, <3>1, <4>2, <4>3
    <3> QED BY <1>4, <2>1, <3>1 DEF FoldAlong
  <2>3. it = value(it)
    BY <1>1, <2>1, <2>2 DEF FoldAlong
  <2> HIDE DEF value
  <2> QED BY <2>3
<1>6. StepsAlong(it, n, G, op, a, seq)
  <2>1. it[{}] = a
    BY <1>4, <1>5
  <2>2. ASSUME NEW p \in SUBSET (1..n), p # {}, it[p \ {Max(p)}] \in G
        PROVE  it[p] = op[seq[Max(p)]][it[p \ {Max(p)}]]
    <3>1. Max(p) \in 1..n
      BY <2>2, MaxOf
    <3>2. seq[Max(p)] \in T
      BY <1>1, <3>1, ElementOfSeq
    <3>3. it[p] = next(it[p \ {Max(p)}], seq[Max(p)])
      BY <1>1, <1>5, <2>2
    <3> QED BY <1>3, <2>2, <3>2, <3>3
  <2> HIDE DEF value
  <2> QED BY <2>1, <2>2 DEF StepsAlong
<1> HIDE DEF value
<1>7. it[1..n] = Through(op, a, seq)
  BY <1>1, <1>6, AlongLeads
<1> QED BY <1>2, <1>3, <1>4, <1>5, <1>7 DEF base

\* The lines of a mode, one after the other.
MagicOp(T, G) == [f \in T |-> [d \in G |-> Update(d, f)]]

\* The fold of MagicKeys.
LEMMA MagicLeads ==
  ASSUME NEW T, NEW G, NEW seq \in Seq(T),
         MagicOp(T, G) \in [T -> [G -> G]], <<>> \in G
  PROVE  MagicKeys(seq) = Through(MagicOp(T, G), <<>>, seq)
<1> DEFINE base == <<>>
           next(d, f) == Update(d, f)
           value(it) == [p \in SUBSET DOMAIN seq |->
                           IF p = {} THEN base ELSE next(it[p \ {Max(p)}], seq[Max(p)])]
<1>1. PICK n \in Nat : n = Len(seq) /\ DOMAIN seq = 1..n
  BY LenProperties
<1>2. MagicKeys(seq) = (CHOOSE it : it = value(it))[1..n]
  <2>1. MagicKeys(seq) = FoldLeft(next, base, seq)
    BY DEF MagicKeys
  <2>2. FoldLeft(next, base, seq) = (CHOOSE it : it = value(it))[DOMAIN seq]
    BY DEF FoldLeft, MapThenFoldSet
  <2> QED BY <1>1, <2>1, <2>2
<1>3. PICK op \in [T -> [G -> G]] : /\ op = MagicOp(T, G)
                                   /\ \A f \in T : \A d \in G : op[f][d] = next(d, f)
  BY DEF MagicOp
<1>4. PICK a \in G : a = base
  OBVIOUS
<1> HIDE DEF base, next
<1>5. PICK it : it = value(it) /\ (CHOOSE i : i = value(i)) = it
  <2>1. PICK it : FoldAlong(it, n, G, op, a, seq)
    <3>1. \E it : FoldAlong(it, n, G, op, a, seq)
      BY <1>1, AlongExists
    <3> QED BY <3>1
  <2>2. ASSUME NEW p \in SUBSET (1..n)
        PROVE  it[p] = IF p = {} THEN base ELSE next(it[p \ {Max(p)}], seq[Max(p)])
    <3>1. CASE p # {}
      <4>1. Max(p) \in 1..n
        BY <3>1, MaxOf
      <4>2. seq[Max(p)] \in T
        BY <1>1, <4>1, ElementOfSeq
      <4>3. it[p \ {Max(p)}] \in G /\ it[p] = op[seq[Max(p)]][it[p \ {Max(p)}]]
        BY <2>1, <3>1 DEF FoldAlong
      <4> QED BY <1>3, <3>1, <4>2, <4>3
    <3> QED BY <1>4, <2>1, <3>1 DEF FoldAlong
  <2>3. it = value(it)
    BY <1>1, <2>1, <2>2 DEF FoldAlong
  <2> HIDE DEF value
  <2> QED BY <2>3
<1>6. StepsAlong(it, n, G, op, a, seq)
  <2>1. it[{}] = a
    BY <1>4, <1>5
  <2>2. ASSUME NEW p \in SUBSET (1..n), p # {}, it[p \ {Max(p)}] \in G
        PROVE  it[p] = op[seq[Max(p)]][it[p \ {Max(p)}]]
    <3>1. Max(p) \in 1..n
      BY <2>2, MaxOf
    <3>2. seq[Max(p)] \in T
      BY <1>1, <3>1, ElementOfSeq
    <3>3. it[p] = next(it[p \ {Max(p)}], seq[Max(p)])
      BY <1>1, <1>5, <2>2
    <3> QED BY <1>3, <2>2, <3>2, <3>3
  <2> HIDE DEF value
  <2> QED BY <2>1, <2>2 DEF StepsAlong
<1> HIDE DEF value
<1>7. it[1..n] = Through(op, a, seq)
  BY <1>1, <1>6, AlongLeads
<1> QED BY <1>2, <1>3, <1>4, <1>5, <1>7 DEF base

-----------------------------------------------------------------------------
(* Lists of requests.                                                        *)

AsksOp == [r \in PlainRequests |-> [x \in States |-> Asks(x, r)]]
Asked(x, rs) == Through(AsksOp, x, rs)

\* A request makes values of the right kinds.
LEMMA AsksTyped ==
  ASSUME NEW x \in States, NEW r \in PlainRequests
  PROVE  Asks(x, r) \in States
<1>1. PICK R : R = Recording(x)
  OBVIOUS
<1>2. Understands(R)
  BY <1>1, RecordingUnderstands
<1>3. <<NewConfig, x>> \in R
  <2>1. NewConfig.entries = <<>> /\ <<>> \in Seq(Kept)
    BY DEF NewConfig
  <2>2. NewConfig \in Done(FALSE)
    BY NewIsDone
  <2>3. Meant(x, <<>>) = x
    BY NoneWritten
  <2> QED BY <1>1, <2>1, <2>2, <2>3 DEF Recording
<1>4. <<Set(NewConfig, r), Asks(x, r)>> \in R
  BY <1>2, <1>3, SetAsks
<1> QED BY <1>2, <1>4 DEF Understands

\* One more request, and a list behind another.
LEMMA AskedFacts ==
  ASSUME NEW x \in States, NEW rs \in Seq(PlainRequests)
  PROVE  /\ Asked(x, rs) \in States
         /\ \A r \in PlainRequests : Asked(x, Append(rs, r)) = Asks(Asked(x, rs), r)
         /\ \A ss \in Seq(PlainRequests) : Asked(x, rs \o ss) = Asked(Asked(x, rs), ss)
<1>1. PICK op \in [PlainRequests -> [States -> States]] : op = AsksOp
  BY AsksTyped DEF AsksOp
<1>2. Asked(x, rs) \in States /\ Asked(x, rs) = Through(op, x, rs)
  BY <1>1, ThroughStays DEF Asked
<1>3. ASSUME NEW r \in PlainRequests PROVE Asked(x, Append(rs, r)) = Asks(Asked(x, rs), r)
  <2>1. Through(op, x, Append(rs, r)) = op[r][Through(op, x, rs)]
    BY ThroughAppend
  <2>2. PICK y \in States : y = Asked(x, rs)
    BY <1>2
  <2>3. op[r][y] = Asks(y, r)
    BY <1>1 DEF AsksOp
  <2>4. Asked(x, Append(rs, r)) = op[r][y]
    BY <1>1, <1>2, <2>1, <2>2 DEF Asked
  <2> QED BY <2>2, <2>3, <2>4
<1>4. ASSUME NEW ss \in Seq(PlainRequests)
      PROVE  Asked(x, rs \o ss) = Asked(Asked(x, rs), ss)
  <2>1. PICK y \in States : y = Through(op, x, rs)
    BY <1>2
  <2>2. Through(op, x, rs \o ss) = Through(op, y, ss)
    BY <2>1, ThroughConcat
  <2> QED BY <1>1, <2>1, <2>2 DEF Asked
<1> QED BY <1>2, <1>3, <1>4

\* No request changes nothing.
LEMMA AskedNone ==
  ASSUME NEW x
  PROVE  Asked(x, <<>>) = x
  BY ThroughEmpty DEF Asked

\* They come to what the properties say they mean.
LEMMA AskedMeaning ==
  ASSUME NEW rs \in Seq(PlainRequests)
  PROVE  Asked(Start, rs).view = Meaning(rs) /\ Asked(Start, rs).none = NoMode(rs)
<1>1. PICK T : T = PlainRequests
  OBVIOUS
<1>2. PICK first \in Views : first = [k \in Keys |-> Default(k)]
  BY StartTyped DEF Start, States
<1>3. PICK st \in States : st = Start /\ st.view = first /\ st.none = TRUE
  BY <1>2, StartTyped DEF Start
<1>4. AsksOp \in [T -> [States -> States]]
  BY <1>1, AsksTyped DEF AsksOp
<1>5. Asked(Start, rs).view = Meaning(rs)
  <2>1. ASSUME NEW r \in T, NEW v \in Views PROVE Understand(v, r) \in Views
    <3>1. PICK x : x = [view |-> v, none |-> TRUE]
      OBVIOUS
    <3>2. x \in States /\ x.view = v
      BY <3>1 DEF States
    <3>3. Asks(x, r) \in States
      BY <1>1, <3>2, AsksTyped
    <3> QED BY <3>2, <3>3 DEF Asks, States
  <2>2. MeaningOp(T, Views) \in [T -> [Views -> Views]]
    BY <2>1 DEF MeaningOp
  <2>3. Meaning(rs) = Through(MeaningOp(T, Views), first, rs)
    BY <1>1, <1>2, <2>2, MeaningLeads
  <2>4. PICK R : R = {p \in States \X Views : p[1].view = p[2]}
    OBVIOUS
  <2>5. Related(R, T, AsksOp, MeaningOp(T, Views))
    <3> SUFFICES ASSUME NEW r \in T, NEW x, NEW v, <<x, v>> \in R
                 PROVE  <<AsksOp[r][x], MeaningOp(T, Views)[r][v]>> \in R
      BY DEF Related
    <3>1. x \in States /\ v \in Views /\ x.view = v
      BY <2>4
    <3>2. PICK y \in States : y = Asks(x, r)
      BY <1>1, <3>1, AsksTyped
    <3>3. PICK w \in Views : w = Understand(v, r)
      BY <2>1, <3>1
    <3>4. y.view = w
      BY <3>1, <3>2, <3>3 DEF Asks
    <3>5. AsksOp[r][x] = y /\ MeaningOp(T, Views)[r][v] = w
      BY <1>1, <3>1, <3>2, <3>3 DEF AsksOp, MeaningOp
    <3> QED BY <2>4, <3>4, <3>5
  <2>6. <<st, first>> \in R
    BY <1>3, <2>4
  <2>7. <<Through(AsksOp, st, rs), Through(MeaningOp(T, Views), first, rs)>> \in R
    BY <1>1, <1>4, <2>2, <2>5, <2>6, ThroughBoth
  <2> QED BY <1>3, <2>3, <2>4, <2>7 DEF Asked
<1>6. Asked(Start, rs).none = NoMode(rs)
  <2>1. PICK Booleans : Booleans = BOOLEAN
    OBVIOUS
  <2>a. PICK yes \in Booleans : yes = TRUE
    BY <2>1
  <2>2. NoModeOp(T, Booleans) \in [T -> [Booleans -> Booleans]]
    <3>1. ASSUME NEW r \in T, NEW b \in Booleans
          PROVE  (IF r.key = "mode" /\ LegalRequest(r) THEN r.prefix = "reset" ELSE b) \in Booleans
      <4>1. (r.prefix = "reset") \in Booleans
        BY <2>1
      <4>2. CASE r.key = "mode" /\ LegalRequest(r)
        BY <4>1, <4>2
      <4>3. CASE ~(r.key = "mode" /\ LegalRequest(r))
        BY <4>3
      <4> QED BY <4>2, <4>3
    <3> QED BY <3>1, Zenon DEF NoModeOp
  <2>3. NoMode(rs) = Through(NoModeOp(T, Booleans), yes, rs)
    <3>1. TRUE \in Booleans /\ rs \in Seq(T)
      BY <1>1, <2>1
    <3>2. NoMode(rs) = Through(NoModeOp(T, Booleans), TRUE, rs)
      BY <2>2, <3>1, NoModeLeads, Zenon
    <3> QED BY <2>a, <3>2, Zenon
  <2>4. PICK R : R = {p \in States \X Booleans : p[1].none = p[2]}
    OBVIOUS
  <2>5. Related(R, T, AsksOp, NoModeOp(T, Booleans))
    <3> SUFFICES ASSUME NEW r \in T, NEW x, NEW v, <<x, v>> \in R
                 PROVE  <<AsksOp[r][x], NoModeOp(T, Booleans)[r][v]>> \in R
      BY DEF Related
    <3>1. x \in States /\ v \in Booleans /\ x.none = v
      BY <2>4
    <3>2. PICK y \in States : y = Asks(x, r)
      BY <1>1, <3>1, AsksTyped
    <3>3. PICK w \in Booleans : w = NoModeOp(T, Booleans)[r][v]
      BY <2>2, <3>1
    <3>4. y.none = w
      BY <3>1, <3>2, <3>3 DEF Asks, NoModeOp
    <3>5. AsksOp[r][x] = y
      BY <1>1, <3>1, <3>2 DEF AsksOp
    <3> QED BY <2>4, <3>3, <3>4, <3>5
  <2>6. <<st, yes>> \in R
    BY <1>3, <2>a, <2>4
  <2>7. <<Through(AsksOp, st, rs), Through(NoModeOp(T, Booleans), yes, rs)>> \in R
    BY <1>1, <1>4, <2>2, <2>5, <2>6, ThroughBoth
  <2> QED BY <1>3, <2>3, <2>4, <2>7 DEF Asked
<1> QED BY <1>5, <1>6

-----------------------------------------------------------------------------
(* The mode a file's name asks for.                                          *)

Line == [magic : STRING, ext : Seq(STRING), remove : BOOLEAN]
KeyLists == {keys \in Seq([magic : STRING, exts : SUBSET Seq(STRING)]) :
               \A i, j \in 1..Len(keys) : keys[i].magic = keys[j].magic => i = j}

\* The extension x of the magic text m, in the keys of a mode and in its lines.
Has(keys, m, x) == \E i \in 1..Len(keys) : keys[i].magic = m /\ x \in keys[i].exts
InForce(lines, m, x) ==
  \E i \in 1..Len(lines) : /\ lines[i].magic = m /\ lines[i].ext = x /\ ~lines[i].remove
                           /\ \A j \in i + 1..Len(lines) :
                                lines[j].remove => <<lines[j].magic, lines[j].ext>> # <<m, x>>

\* One more line.
LEMMA LineInForce ==
  ASSUME NEW lines \in Seq(Line), NEW l \in Line, NEW m, NEW x
  PROVE  InForce(Append(lines, l), m, x) <=>
           IF l.magic = m /\ l.ext = x THEN ~l.remove ELSE InForce(lines, m, x)
<1>1. PICK n \in Nat : n = Len(lines)
  BY LenProperties
<1>2. PICK more : more = Append(lines, l)
  OBVIOUS
<1>3. /\ Len(more) = n + 1 /\ more[n + 1] = l
      /\ \A i \in 1..n : more[i] = lines[i] /\ i \in 1..(n + 1)
  BY <1>1, <1>2, AppendProperties
<1>4. CASE l.magic = m /\ l.ext = x /\ ~l.remove
  <2>1. n + 1 \in 1..Len(more) /\ \A j \in (n + 1) + 1..Len(more) : FALSE
    BY <1>3
  <2> QED BY <1>2, <1>3, <1>4, <2>1 DEF InForce
<1>5. CASE l.magic = m /\ l.ext = x /\ l.remove
  <2> SUFFICES ASSUME InForce(more, m, x) PROVE FALSE
    BY <1>2, <1>5
  <2>1. PICK i \in 1..(n + 1) : /\ ~more[i].remove
                                /\ \A j \in i + 1..(n + 1) :
                                     more[j].remove => <<more[j].magic, more[j].ext>> # <<m, x>>
    BY <1>3 DEF InForce
  <2>2. i # n + 1
    BY <1>3, <1>5, <2>1
  <2>3. n + 1 \in i + 1..(n + 1)
    BY <2>1, <2>2
  <2> QED BY <1>3, <1>5, <2>1, <2>3
<1>6. CASE ~(l.magic = m /\ l.ext = x)
  <2>1. ASSUME InForce(more, m, x) PROVE InForce(lines, m, x)
    <3>1. PICK i \in 1..(n + 1) : /\ more[i].magic = m /\ more[i].ext = x /\ ~more[i].remove
                                  /\ \A j \in i + 1..(n + 1) :
                                     more[j].remove => <<more[j].magic, more[j].ext>> # <<m, x>>
      BY <1>3, <2>1 DEF InForce
    <3>2. i # n + 1
      BY <1>3, <1>6, <3>1
    <3>3. i \in 1..n
      BY <3>1, <3>2
    <3>4. \A j \in i + 1..n : lines[j] = more[j] /\ j \in i + 1..(n + 1)
      BY <1>3, <3>3
    <3> QED BY <1>1, <1>3, <3>1, <3>3, <3>4 DEF InForce
  <2>2. ASSUME InForce(lines, m, x) PROVE InForce(more, m, x)
    <3>1. PICK i \in 1..n : /\ lines[i].magic = m /\ lines[i].ext = x /\ ~lines[i].remove
                            /\ \A j \in i + 1..n :
                                lines[j].remove => <<lines[j].magic, lines[j].ext>> # <<m, x>>
      BY <1>1, <2>2 DEF InForce
    <3>2. ASSUME NEW j \in i + 1..(n + 1), more[j].remove
          PROVE  <<more[j].magic, more[j].ext>> # <<m, x>>
      <4>1. CASE j = n + 1
        BY <1>3, <1>6, <4>1
      <4>2. CASE j # n + 1
        <5>1. j \in i + 1..n /\ j \in 1..n
          BY <3>1, <3>2, <4>2
        <5> QED BY <1>3, <3>1, <3>2, <5>1
      <4> QED BY <4>1, <4>2
    <3>3. i \in 1..(n + 1) /\ more[i] = lines[i]
      BY <1>3, <3>1
    <3> QED BY <1>3, <3>1, <3>2, <3>3 DEF InForce
  <2> QED BY <1>2, <1>6, <2>1, <2>2
<1> QED BY <1>4, <1>5, <1>6

\* One more line in the keys.
LEMMA LineInKeys ==
  ASSUME NEW keys \in KeyLists, NEW l \in Line
  PROVE  /\ Update(keys, l) \in KeyLists
         /\ \A m, x : Has(Update(keys, l), m, x) <=>
              IF l.magic = m /\ l.ext = x THEN ~l.remove ELSE Has(keys, m, x)
<1>1. PICK T : T = [magic : STRING, exts : SUBSET Seq(STRING)]
  OBVIOUS
<1>2. keys \in Seq(T) /\ \A i, j \in 1..Len(keys) : keys[i].magic = keys[j].magic => i = j
  BY <1>1 DEF KeyLists
<1>3. PICK n \in Nat : n = Len(keys) /\ DOMAIN keys = 1..n
  BY <1>2, LenProperties
<1>4. PICK at : at = KeyAt(keys, l.magic)
  OBVIOUS
<1>5. at = {i \in 1..n : keys[i].magic = l.magic}
  BY <1>3, <1>4 DEF KeyAt
<1>6. l.magic \in STRING /\ l.ext \in Seq(STRING) /\ l.remove \in BOOLEAN
  BY DEF Line
<1>7. PICK new : new = Update(keys, l)
  OBVIOUS
<1>8. CASE at = {}
  <2>1. CASE l.remove
    <3>1. new = keys
      BY <1>4, <1>7, <1>8, <2>1 DEF Update, RemExtension
    <3>2. \A x : ~Has(keys, l.magic, x)
      BY <1>3, <1>5, <1>8 DEF Has
    <3> QED BY <1>7, <2>1, <3>1, <3>2
  <2>2. CASE ~l.remove
    <3>1. PICK e : e = [magic |-> l.magic, exts |-> {l.ext}]
      OBVIOUS
    <3>2. new = Append(keys, e)
      BY <1>4, <1>7, <1>8, <2>2, <3>1 DEF Update, AddExtension
    <3>3. e \in T /\ e.magic = l.magic /\ e.exts = {l.ext}
      BY <1>1, <1>6, <3>1
    <3>4. /\ new \in Seq(T) /\ Len(new) = n + 1 /\ new[n + 1] = e
          /\ \A i \in 1..n : new[i] = keys[i]
      BY <1>2, <1>3, <3>2, <3>3, AppendProperties
    <3>5. \A i \in 1..n : new[i].magic # l.magic
      BY <1>5, <1>8, <3>4
    <3>6. \A i, j \in 1..Len(new) : new[i].magic = new[j].magic => i = j
      <4> TAKE i, j \in 1..Len(new)
      <4>1. (i \in 1..n \/ i = n + 1) /\ (j \in 1..n \/ j = n + 1)
        BY <3>4
      <4> QED BY <1>2, <1>3, <3>3, <3>4, <3>5, <4>1
    <3>7. ASSUME NEW m, NEW x
          PROVE  Has(new, m, x) <=>
                   IF l.magic = m /\ l.ext = x THEN ~l.remove ELSE Has(keys, m, x)
      <4>1. 1..Len(new) = (1..n) \cup {n + 1}
        BY <3>4
      <4>2. Has(new, m, x) <=> Has(keys, m, x) \/ (e.magic = m /\ x \in e.exts)
        BY <1>3, <3>4, <4>1 DEF Has
      <4> QED BY <2>2, <3>3, <4>2
    <3> QED BY <1>1, <1>7, <3>4, <3>6, <3>7 DEF KeyLists
  <2> QED BY <2>1, <2>2
<1>9. CASE at # {}
  <2>1. PICK p \in 1..n : p = Min(at) /\ keys[p].magic = l.magic
    <3>1. at \subseteq Nat
      BY <1>5
    <3>2. \E y \in at : \A z \in at : y <= z
      BY <1>9, <3>1, LeastNatural
    <3>3. Min(at) \in at
      BY <3>2 DEF Min
    <3> QED BY <1>5, <3>3
  <2>2. PICK set : set = IF l.remove THEN keys[p].exts \ {l.ext} ELSE keys[p].exts \cup {l.ext}
    OBVIOUS
  <2>3. new = [keys EXCEPT ![p].exts = set]
    <3>1. CASE l.remove
      BY <1>4, <1>7, <1>9, <2>1, <2>2, <3>1 DEF Update, RemExtension
    <3>2. CASE ~l.remove
      BY <1>4, <1>7, <1>9, <2>1, <2>2, <3>2 DEF Update, AddExtension
    <3> QED BY <3>1, <3>2
  <2>4. keys[p] \in T
    BY <1>2, <1>3, ElementOfSeq
  <2>5. PICK e : e = [keys[p] EXCEPT !.exts = set]
    OBVIOUS
  <2>6. e \in T /\ e.magic = l.magic /\ e.exts = set
    <3>1. set \in SUBSET Seq(STRING)
      BY <1>1, <1>6, <2>2, <2>4
    <3> QED BY <1>1, <2>1, <2>4, <2>5, <3>1
  <2>7. new = [keys EXCEPT ![p] = e]
    BY <2>3, <2>5
  <2>8. /\ new \in Seq(T) /\ Len(new) = n /\ new[p] = e
        /\ \A i \in 1..n : i # p => new[i] = keys[i]
    BY <1>2, <1>3, <2>6, <2>7, ExceptSeq
  <2>9. \A i \in 1..n : new[i].magic = keys[i].magic
    BY <2>1, <2>6, <2>8
  <2>10. \A i, j \in 1..Len(new) : new[i].magic = new[j].magic => i = j
    BY <1>2, <1>3, <2>8, <2>9
  <2>11. ASSUME NEW m, NEW x
         PROVE  Has(new, m, x) <=>
                   IF l.magic = m /\ l.ext = x THEN ~l.remove ELSE Has(keys, m, x)
    <3>1. CASE m = l.magic
      <4>1. \A i \in 1..n : keys[i].magic = m <=> i = p
        BY <1>2, <1>3, <2>1, <3>1
      <4>2. Has(keys, m, x) <=> x \in keys[p].exts
        BY <1>3, <4>1 DEF Has
      <4>3. Has(new, m, x) <=> x \in set
        BY <2>6, <2>8, <2>9, <4>1 DEF Has
      <4> QED BY <2>2, <3>1, <4>2, <4>3
    <3>2. CASE m # l.magic
      <4>1. \A i \in 1..n : keys[i].magic = m => new[i] = keys[i]
        BY <2>1, <2>8, <3>2
      <4>2. \A i \in 1..n : new[i].magic = m => new[i] = keys[i]
        BY <2>9, <4>1
      <4> QED BY <1>3, <2>8, <3>2, <4>1, <4>2 DEF Has
    <3> QED BY <3>1, <3>2
  <2> QED BY <1>1, <1>7, <2>8, <2>10, <2>11 DEF KeyLists
<1> QED BY <1>8, <1>9

\* The keys that the lines of a mode leave it with.
Tells(keys, lines) == \A m, x : Has(keys, m, x) <=> InForce(lines, m, x)

\* The keys of a mode have the extensions that are in force.
LEMMA KeysTell ==
  ASSUME NEW lines \in Seq(Line)
  PROVE  MagicKeys(lines) \in KeyLists /\ Tells(MagicKeys(lines), lines)
<1>1. PICK T : T = Line
  OBVIOUS
<1>2. PICK op \in [T -> [KeyLists -> KeyLists]] : op = MagicOp(T, KeyLists)
  BY <1>1, LineInKeys DEF MagicOp
<1>3. PICK z \in KeyLists : z = <<>>
  <2>1. PICK z : z = <<>>
    OBVIOUS
  <2>2. Len(z) = 0 /\ z \in Seq([magic : STRING, exts : SUBSET Seq(STRING)])
    BY <2>1
  <2>3. z \in KeyLists
    BY <2>2 DEF KeyLists
  <2> QED BY <2>1, <2>3
<1>4. ASSUME NEW ls \in Seq(T) PROVE MagicKeys(ls) = Through(op, z, ls)
  BY <1>2, <1>3, MagicLeads
<1>5. PICK S : S = {ls \in Seq(T) : Tells(Through(op, z, ls), ls)}
  OBVIOUS
<1>6. <<>> \in S
  <2>1. Through(op, z, <<>>) = <<>>
    BY <1>3, ThroughEmpty
  <2>2. Tells(<<>>, <<>>)
    BY DEF Tells, Has, InForce
  <2> QED BY <1>5, <2>1, <2>2
<1>7. ASSUME NEW ls \in Seq(T), ls \in S, NEW l \in T PROVE Append(ls, l) \in S
  <2>1. PICK keys \in KeyLists : keys = Through(op, z, ls)
    BY ThroughStays
  <2>2. Through(op, z, Append(ls, l)) = op[l][keys]
    BY <2>1, ThroughAppend
  <2>3. op[l][keys] = Update(keys, l)
    BY <1>2 DEF MagicOp
  <2>4. Tells(keys, ls)
    BY <1>5, <1>7, <2>1
  <2>5. Tells(Update(keys, l), Append(ls, l))
    BY <1>1, <2>4, LineInKeys, LineInForce DEF Tells
  <2>6. Append(ls, l) \in Seq(T)
    BY AppendProperties
  <2> QED BY <1>5, <2>2, <2>3, <2>5, <2>6
<1>8. Seq(T) \subseteq S
  BY <1>6, <1>7, SeqSetInduction
<1>9. lines \in Seq(T) /\ lines \in S
  BY <1>1, <1>8
<1> QED BY <1>4, <1>5, <1>9, ThroughStays

\* lockFileToMode and what the manual says of it.
LEMMA LocksNamed ==
  ASSUME NEW lines \in Seq(Line), NEW name
  PROVE  LocksTo(MagicKeys(lines), name) <=> Named(lines, name)
<1>1. PICK keys \in KeyLists : keys = MagicKeys(lines) /\ Tells(keys, lines)
  BY KeysTell
<1>2. PICK E : E = Extensions(name)
  OBVIOUS
<1>3. DOMAIN keys = 1..Len(keys) /\ DOMAIN lines = 1..Len(lines)
  BY LenProperties DEF KeyLists
<1>4. LocksTo(keys, name) <=> \E m : \E x \in E : Has(keys, m, x)
  BY <1>2, <1>3 DEF LocksTo, Has
<1>5. Named(lines, name) <=> \E m : \E x \in E : InForce(lines, m, x)
  <2>1. ASSUME Named(lines, name) PROVE \E m : \E x \in E : InForce(lines, m, x)
    <3>1. PICK i \in 1..Len(lines) :
             /\ lines[i].ext \in E /\ ~lines[i].remove
             /\ \A j \in i + 1..Len(lines) :
                  lines[j].remove => <<lines[j].magic, lines[j].ext>>
                                        # <<lines[i].magic, lines[i].ext>>
      BY <1>2, <1>3, <2>1 DEF Named
    <3>2. PICK m, x : m = lines[i].magic /\ x = lines[i].ext
      OBVIOUS
    <3>3. InForce(lines, m, x)
      BY <3>1, <3>2 DEF InForce
    <3> QED BY <3>1, <3>2, <3>3
  <2>2. ASSUME NEW m, NEW x \in E, InForce(lines, m, x) PROVE Named(lines, name)
    BY <1>2, <1>3, <2>2 DEF InForce, Named
  <2> QED BY <2>1, <2>2
<1> QED BY <1>1, <1>4, <1>5 DEF Tells

-----------------------------------------------------------------------------
(* Reading.                                                                  *)

\* d has what was read before the entries of c.
Reads(d, c, rs) ==
  /\ d \in Open /\ d.settingsRead = c.settingsRead /\ d.entries \in Seq(Plain)
  /\ \A v \in States : Meant(v, d.entries) = Meant(Asked(v, rs), c.entries)

\* What is known when new entries were put in front of others.
LEMMA AheadMeans ==
  ASSUME NEW new, NEW from \in States, NEW old \in Seq(Plain), NEW c, NEW x,
         Ahead(new, from, old, c, x)
  PROVE  c.entries \in Seq(Plain) /\ Meant(from, c.entries) = Meant(x, old)
<1>1. PICK s \in Seq(Plain) : s = new /\ c.entries = s \o old /\ Meant(from, s) = x
  BY DEF Ahead
<1>2. s \o old \in Seq(Plain)
  BY ConcatProperties
<1>3. Meant(from, s \o old) = Meant(Meant(from, s), old)
  BY MeantFacts
<1> QED BY <1>1, <1>2, <1>3

\* Config::read_in_file.
LEMMA ReadInReads ==
  ASSUME NEW c \in Open, c.entries \in Seq(Plain), NEW rs \in Seq(PlainRequests),
         NEW d, d = ReadIn(c, rs), ~d.failed
  PROVE  Reads(d, c, rs)
<1>1. PICK old \in Seq(Plain) : old = c.entries
  OBVIOUS
<1>2. PICK b : b = c.settingsRead
  OBVIOUS
<1>3. PICK front : front = [c EXCEPT !.insertPoint = 0]
  OBVIOUS
<1>4. PICK T : T = PlainRequests
  OBVIOUS
<1>5. c \in Placed /\ c \in Configuration /\ ~c.committed /\ ~c.attached
  BY DEF Open, Placed
<1>6. /\ front \in Open /\ front.entries = c.entries /\ front.settingsRead = c.settingsRead
      /\ front.insertPoint = 0
  BY <1>5, <1>3 DEF Open, Placed, Configuration
<1>7. PICK op \in [T -> [Open -> Open]] : op = ReadOp(T, Open)
  <2>1. T \subseteq Requests
    BY <1>4 DEF PlainRequests
  <2>2. \A r \in T : \A e \in Open : SetEntry(e, r) \in Open
    BY <2>1, OpenKeeps, SetEntryKeeps
  <2> QED BY <2>2 DEF ReadOp
<1>8. d = Through(op, front, rs) /\ d \in Open
  <2>1. ReadAtEnd(front, rs) = Through(ReadOp(T, Open), front, rs)
    BY <1>4, <1>6, <1>7, ReadLeads
  <2>2. Through(op, front, rs) \in Open
    BY <1>4, <1>6, <1>7, ThroughStays
  <2> QED BY <1>3, <1>7, <2>1, <2>2 DEF ReadIn
<1>9. PICK asks \in [T -> [States -> States]] : asks = AsksOp
  BY <1>4, AsksTyped DEF AsksOp
<1>10. ASSUME NEW v \in States
       PROVE  <<d, Asked(v, rs)>> \in Collecting(b, v, old)
  <2>1. PICK R : R = Collecting(b, v, old)
    OBVIOUS
  <2>2. Understands(R)
    BY <2>1, CollectingUnderstands
  <2>3. PICK P : P = {p \in Open \X States : p[1].failed \/ p \in R}
    OBVIOUS
  <2>4. <<front, v>> \in P
    <3>1. <<>> \in Seq(Plain)
      OBVIOUS
    <3>2. front.entries = <<>> \o old /\ Len(<<>>) = 0 /\ Meant(v, <<>>) = v
      BY <1>1, <1>6, NoneWritten
    <3>3. Ahead(<<>>, v, old, front, v)
      BY <1>6, <3>1, <3>2 DEF Ahead
    <3>4. <<front, v>> \in R
      BY <1>2, <1>6, <2>1, <3>3 DEF Collecting
    <3> QED BY <1>6, <2>3, <3>4
  <2>5. Related(P, T, op, asks)
    <3> SUFFICES ASSUME NEW r \in T, NEW e, NEW x, <<e, x>> \in P
                 PROVE  <<op[r][e], asks[r][x]>> \in P
      BY DEF Related
    <3>1. e \in Open /\ x \in States /\ (e.failed \/ <<e, x>> \in R)
      BY <2>3
    <3>2. /\ op[r][e] = (IF e.failed THEN e ELSE SetEntry(e, r)) /\ op[r][e] \in Open
          /\ asks[r][x] = Asks(x, r) /\ asks[r][x] \in States
      BY <1>4, <1>7, <1>9, <3>1 DEF ReadOp, AsksOp
    <3>3. CASE e.failed
      BY <2>3, <3>2, <3>3
    <3>4. CASE ~e.failed
      <4>1. <<SetEntry(e, r), Asks(x, r)>> \in R
        BY <1>4, <2>2, <3>1, <3>4, SetMeans
      <4> QED BY <2>3, <3>2, <3>4, <4>1
    <3> QED BY <3>3, <3>4
  <2>6. <<Through(op, front, rs), Through(asks, v, rs)>> \in P
    BY <1>4, <1>6, <2>4, <2>5, ThroughBoth
  <2>7. <<d, Asked(v, rs)>> \in P
    BY <1>8, <1>9, <2>6 DEF Asked
  <2> QED BY <2>1, <2>3, <2>7
<1>11. ASSUME NEW v \in States
       PROVE  /\ d.settingsRead = b /\ d.entries \in Seq(Plain)
              /\ Meant(v, d.entries) = Meant(Asked(v, rs), old)
  <2>1. d.settingsRead = b /\ \E new : Ahead(new, v, old, d, Asked(v, rs))
    BY <1>10 DEF Collecting
  <2>2. PICK new : Ahead(new, v, old, d, Asked(v, rs))
    BY <2>1
  <2> QED BY <2>1, <2>2, AheadMeans
<1>12. d.settingsRead = b /\ d.entries \in Seq(Plain)
  BY <1>11, StartTyped
<1> QED BY <1>1, <1>2, <1>8, <1>11, <1>12 DEF Reads

\* The three files, the strongest first.
LEMMA FilesRead ==
  ASSUME NEW c \in Open, ~c.failed, c.entries \in Seq(Plain), NEW texts \in FileContents,
         texts \in Seq(Seq(PlainRequests)), NEW d, d = ReadFiles(c, texts), ~d.failed
  PROVE  Reads(d, c, texts[3] \o texts[2] \o texts[1])
<1>1. texts \in Seq(Seq(Request)) /\ Len(texts) = 3
  BY RequestAssumption
<1>2. PICK F : F = Seq(Request)
  OBVIOUS
<1>3. PICK f1 \in F, f2 \in F, f3 \in F :
         /\ f1 = texts[1] /\ f2 = texts[2] /\ f3 = texts[3]
         /\ f1 \in Seq(PlainRequests) /\ f2 \in Seq(PlainRequests) /\ f3 \in Seq(PlainRequests)
  <2>1. \A i \in 1..3 : texts[i] \in F /\ texts[i] \in Seq(PlainRequests)
    BY <1>1, <1>2, ElementOfSeq
  <2> QED BY <2>1
<1>4. PICK op \in [F -> [Open -> Open]] : op = FileOp(F, Open)
  BY <1>2, ReadInKeeps DEF FileOp
<1>5. PICK d1, d2, d3 : d1 = op[f1][c] /\ d2 = op[f2][d1] /\ d3 = op[f3][d2]
  OBVIOUS
<1>6. d1 \in Open /\ d2 \in Open /\ d3 \in Open
  <2>1. d1 \in Open
    BY <1>5
  <2>2. d2 \in Open
    BY <1>5, <2>1
  <2> QED BY <1>5, <2>1, <2>2
<1>7. d = d3
  <2>1. d = Through(op, c, texts)
    BY <1>1, <1>2, <1>4, FileLeads
  <2>2. texts = Append(Append(<<f1>>, f2), f3)
    BY <1>1, <1>3
  <2>3. PICK s1 \in Seq(F), s2 \in Seq(F) : s1 = <<f1>> /\ s2 = Append(s1, f2)
    <3>1. <<f1>> \in Seq(F)
      OBVIOUS
    <3> QED BY <3>1, AppendProperties
  <2>4. Through(op, c, s1) = d1
    <3>1. PICK G : G = Open
      OBVIOUS
    <3>2. PICK g \in G : g = c
      BY <3>1
    <3>3. op \in [F -> [G -> G]]
      BY <3>1
    <3>4. Through(op, g, <<f1>>) = op[f1][g]
      BY <3>3, ThroughOne
    <3>5. s1 = <<f1>> /\ d1 = op[f1][c]
      BY <1>5, <2>3
    <3>6. Through(op, c, s1) = Through(op, g, <<f1>>)
      BY <3>2, <3>5, Zenon
    <3> QED BY <3>2, <3>4, <3>5, <3>6, Zenon
  <2>5. Through(op, c, s2) = d2
    <3>1. Through(op, c, Append(s1, f2)) = op[f2][Through(op, c, s1)]
      BY ThroughAppend
    <3> QED BY <1>5, <2>3, <2>4, <3>1
  <2>6. Through(op, c, Append(s2, f3)) = d3
    <3>1. Through(op, c, Append(s2, f3)) = op[f3][Through(op, c, s2)]
      BY ThroughAppend
    <3> QED BY <1>5, <2>5, <3>1
  <2> QED BY <2>1, <2>2, <2>3, <2>6
<1>8. \A e \in Open : \A f \in F : op[f][e] = IF e.failed THEN e ELSE ReadIn(e, f)
  BY <1>4 DEF FileOp
<1>9. ~d1.failed /\ ~d2.failed /\ ~d3.failed
  BY <1>5, <1>6, <1>7, <1>8
<1>10. d1 = ReadIn(c, f1) /\ d2 = ReadIn(d1, f2) /\ d3 = ReadIn(d2, f3)
  BY <1>5, <1>6, <1>8, <1>9
<1>11. Reads(d1, c, f1)
  BY <1>3, <1>9, <1>10, ReadInReads
<1>12. Reads(d2, d1, f2)
  <2>1. d1.entries \in Seq(Plain)
    BY <1>11 DEF Reads
  <2> QED BY <1>3, <1>6, <1>9, <1>10, <2>1, ReadInReads
<1>13. Reads(d3, d2, f3)
  <2>1. d2.entries \in Seq(Plain)
    BY <1>12 DEF Reads
  <2> QED BY <1>3, <1>6, <1>9, <1>10, <2>1, ReadInReads
<1>14. PICK g1 \in Seq(PlainRequests), g2 \in Seq(PlainRequests), g3 \in Seq(PlainRequests) :
         g1 = f1 /\ g2 = f2 /\ g3 = f3 /\ g3 \o g2 \in Seq(PlainRequests)
  BY <1>3, ConcatProperties
<1>15. ASSUME NEW v \in States
       PROVE  Meant(v, d3.entries) = Meant(Asked(v, (g3 \o g2) \o g1), c.entries)
  <2>1. PICK v3 \in States : v3 = Asked(v, g3)
    BY AskedFacts
  <2>2. PICK v2 \in States : v2 = Asked(v3, g2)
    BY AskedFacts
  <2>3. PICK v1 \in States : v1 = Asked(v2, g1)
    BY AskedFacts
  <2>4. Meant(v, d3.entries) = Meant(v3, d2.entries)
    BY <1>13, <1>14, <2>1 DEF Reads
  <2>5. Meant(v3, d2.entries) = Meant(v2, d1.entries)
    BY <1>12, <1>14, <2>2 DEF Reads
  <2>6. Meant(v2, d1.entries) = Meant(v1, c.entries)
    BY <1>11, <1>14, <2>3 DEF Reads
  <2>7. Asked(v, g3 \o g2) = v2
    <3>1. Asked(v, g3 \o g2) = Asked(Asked(v, g3), g2)
      BY AskedFacts
    <3> QED BY <2>1, <2>2, <3>1
  <2>8. Asked(v, (g3 \o g2) \o g1) = v1
    <3>1. PICK g \in Seq(PlainRequests) : g = g3 \o g2
      BY <1>14
    <3>2. Asked(v, g \o g1) = Asked(Asked(v, g), g1)
      BY AskedFacts
    <3> QED BY <2>3, <2>7, <3>1, <3>2
  <2> QED BY <2>4, <2>5, <2>6, <2>8
<1> QED BY <1>3, <1>7, <1>11, <1>12, <1>13, <1>14, <1>15 DEF Reads

-----------------------------------------------------------------------------
(* Merging and committing.                                                   *)

\* An entry that does nothing.
LEMMA NoOpMeans ==
  ASSUME NEW x \in States, NEW e \in Plain, e.action = "NoOp"
  PROVE  Means(x, e) = x
<1>1. CASE ~Legal(e)
  BY <1>1, NothingMeant
<1>2. CASE Legal(e)
  <2>1. e.key \in Lists /\ ~Expands(e) /\ Amended(e) = e
    BY <1>2 DEF Legal, Expands, Amended, Lists
  <2>2. \A k \in Keys : Says(x.view[k], e, k) = x.view[k]
    BY DEF Says
  <2>3. x.view = [k \in Keys |-> x.view[k]] /\ x = [view |-> x.view, none |-> x.none]
    BY DEF States, Views
  <2>4. [k \in Keys |-> Says(x.view[k], e, k)] = x.view
    BY <2>2, <2>3
  <2> QED BY <2>1, <2>3, <2>4 DEF Means, Written, SaysNone
<1> QED BY <1>1, <1>2

\* Config::merge.
LEMMA Merged ==
  ASSUME NEW c \in Open, c.entries = <<>>, c.insertPoint = 0, NEW s \in Seq(Plain),
         NEW d, d = MergeEntries(c, s)
  PROVE  /\ d \in Open /\ d.settingsRead = c.settingsRead /\ d.failed = c.failed
         /\ d.entries \in Seq(Plain)
         /\ \A v \in States : Meant(v, d.entries) = Meant(v, s)
<1>1. PICK b : b = c.settingsRead
  OBVIOUS
<1>2. PICK z \in Seq(Plain) : z = <<>>
  <2>1. <<>> \in Seq(Plain)
    OBVIOUS
  <2> QED BY <2>1
<1>3. PICK T : T = Plain
  OBVIOUS
<1>4. \A e \in T : e \in Entry
  BY <1>3 DEF Plain
<1>5. \A g \in Open : \A e \in T : /\ Insert(g, e) = InsertAndCommit(g, e)
                                   /\ Insert(g, e) \in Open /\ Insert(g, e).failed = g.failed
  <2> SUFFICES ASSUME NEW g \in Open, NEW e \in T
               PROVE  /\ Insert(g, e) = InsertAndCommit(g, e)
                      /\ Insert(g, e) \in Open /\ Insert(g, e).failed = g.failed
    OBVIOUS
  <2>1. g \in Placed /\ g \in Configuration /\ ~g.committed
    BY DEF Open, Placed
  <2>2. PICK f : f = Insert(g, e)
    OBVIOUS
  <2>3. f = [g EXCEPT !.entries = f.entries, !.insertPoint = g.insertPoint + 1]
    BY <1>4, <2>1, <2>2, Inserted
  <2>4. ~f.committed /\ f.failed = g.failed
    BY <2>1, <2>3 DEF Configuration
  <2>5. f = InsertAndCommit(g, e)
    BY <2>2, <2>4 DEF InsertAndCommit
  <2>6. InsertAndCommit(g, e) \in Open
    BY <1>4, OpenKeeps DEF Keeps
  <2> QED BY <2>2, <2>4, <2>5, <2>6
<1>6. PICK op \in [T -> [Open -> Open]] : op = MergeOp(T, Open)
  BY <1>5 DEF MergeOp
<1>7. d = Through(op, c, s) /\ d \in Open
  BY <1>3, <1>6, MergeLeads, ThroughStays
<1>8. d.failed = c.failed
  <2>1. PICK G : G = {g \in Open : g.failed = c.failed}
    OBVIOUS
  <2>2. \A e \in T : \A g \in Open : g \in G => op[e][g] \in G
    BY <1>5, <1>6, <2>1 DEF MergeOp
  <2>3. c \in G /\ s \in Seq(T)
    BY <1>3, <2>1
  <2>4. Through(op, c, s) \in G
    BY <2>2, <2>3, ThroughKeeps
  <2> QED BY <1>7, <2>1, <2>4
<1>9. PICK means \in [T -> [States -> States]] : means = MeansOp
  BY <1>3, MeansOpTyped
<1>10. ASSUME NEW v \in States PROVE <<d, Meant(v, s)>> \in Collecting(b, v, z)
  <2>1. PICK R : R = Collecting(b, v, z)
    OBVIOUS
  <2>2. Understands(R)
    BY <2>1, CollectingUnderstands
  <2>3. <<c, v>> \in R
    <3>1. c.entries = z \o z /\ Len(z) = 0 /\ Meant(v, z) = v
      BY <1>2, NoneWritten
    <3>2. Ahead(z, v, z, c, v)
      BY <3>1 DEF Ahead
    <3> QED BY <1>1, <2>1, <3>2 DEF Collecting
  <2>4. Related(R, T, op, means)
    <3> SUFFICES ASSUME NEW e \in T, NEW g, NEW x, <<g, x>> \in R
                 PROVE  <<op[e][g], means[e][x]>> \in R
      BY DEF Related
    <3>1. g \in Open /\ x \in States
      BY <2>1 DEF Collecting
    <3>2. /\ op[e][g] = (IF e.action = "NoOp" THEN g ELSE Insert(g, e))
          /\ means[e][x] = Means(x, e)
      BY <1>3, <1>6, <1>9, <3>1 DEF MergeOp, MeansOp
    <3>3. CASE e.action = "NoOp"
      BY <1>3, <3>1, <3>2, <3>3, NoOpMeans
    <3>4. CASE e.action # "NoOp"
      <4>1. <<InsertAndCommit(g, e), Means(x, e)>> \in R
        BY <1>3, <2>2 DEF Understands
      <4> QED BY <1>5, <3>1, <3>2, <3>4, <4>1
    <3> QED BY <3>3, <3>4
  <2>5. <<Through(op, c, s), Through(means, v, s)>> \in R
    BY <1>3, <2>3, <2>4, ThroughBoth
  <2> QED BY <1>7, <1>9, <2>1, <2>5 DEF Meant
<1>11. ASSUME NEW v \in States
       PROVE  /\ d.settingsRead = b /\ d.entries \in Seq(Plain)
              /\ Meant(v, d.entries) = Meant(v, s)
  <2>1. d.settingsRead = b /\ \E new : Ahead(new, v, z, d, Meant(v, s))
    BY <1>10 DEF Collecting
  <2>2. PICK new : Ahead(new, v, z, d, Meant(v, s))
    BY <2>1
  <2>3. Meant(Meant(v, s), z) = Meant(v, s)
    BY <1>2, NoneWritten
  <2> QED BY <2>1, <2>2, <2>3, AheadMeans
<1>12. d.settingsRead = b /\ d.entries \in Seq(Plain)
  BY <1>11, StartTyped
<1> QED BY <1>1, <1>7, <1>8, <1>11, <1>12

\* Config::commit_all: the configuration shows then what its entries mean.
LEMMA AllCommitted ==
  ASSUME NEW c \in Placed, ~c.attached, c.entries \in Seq(Plain), NEW d, d = CommitAll(c)
  PROVE  <<d, Meant(Start, c.entries)>> \in Showing(FALSE, c.settingsRead)
<1>a. PICK a \in BOOLEAN : a = FALSE
  OBVIOUS
<1>1. PICK b : b = c.settingsRead
  OBVIOUS
<1>2. PICK R : R = Showing(a, b)
  OBVIOUS
<1>3. Understands(R)
  BY <1>2, ShowingUnderstands
<1>4. PICK T : T = Plain
  OBVIOUS
<1>5. PICK G : G = Done(a)
  OBVIOUS
<1>6. PICK first : first = [c EXCEPT !.entries = <<>>, !.insertPoint = 0, !.committed = TRUE]
  OBVIOUS
<1>7. first \in G /\ first.entries = <<>> /\ first.settingsRead = b
  <2>1. first \in Done(FALSE)
    BY <1>6, EmptyDone
  <2>2. c \in Configuration
    BY DEF Placed
  <2> QED BY <1>a, <1>1, <1>5, <1>6, <2>1, <2>2 DEF Configuration
<1>8. PICK st \in States : st = Start
  BY StartTyped
<1>9. <<first, st>> \in R
  <2>1. <<>> \in Seq(Kept)
    OBVIOUS
  <2>2. Wrote(Start, <<>>) = Start /\ Seen(a, Start) = Start
    BY <1>a, NoneWritten DEF Seen
  <2> QED BY <1>2, <1>5, <1>7, <1>8, <2>1, <2>2 DEF Showing
<1>10. PICK op \in [T -> [G -> G]] : op = RecommitOp(T, G)
  <2>1. \A e \in T : e \in Entry
    BY <1>4 DEF Plain
  <2>2. \A e \in T : \A g \in G : Recommit(g, e) \in G
    BY <1>a, <1>5, <2>1, RecommitKeeps
  <2> QED BY <2>2 DEF RecommitOp
<1>11. PICK means \in [T -> [States -> States]] : means = MeansOp
  BY <1>4, MeansOpTyped
<1>12. PICK s \in Seq(T) : s = c.entries
  BY <1>4
<1>13. d = Through(op, first, s)
  <2>1. RecommitAll(first, s) = Through(RecommitOp(T, G), first, s)
    BY <1>7, <1>10, RecommitLeads
  <2> QED BY <1>6, <1>10, <1>12, <2>1 DEF CommitAll
<1>14. Related(R, T, op, means)
  <2> SUFFICES ASSUME NEW e \in T, NEW g, NEW x, <<g, x>> \in R
               PROVE  <<op[e][g], means[e][x]>> \in R
    BY DEF Related
  <2>1. g \in G /\ x \in States
    BY <1>2, <1>5 DEF Showing
  <2>2. op[e][g] = Recommit(g, e) /\ means[e][x] = Means(x, e)
    BY <1>4, <1>10, <1>11, <2>1 DEF RecommitOp, MeansOp
  <2>3. PICK h : h = [g EXCEPT !.failed = FALSE]
    OBVIOUS
  <2>4. <<h, x>> \in R
    BY <1>3, <2>3 DEF Understands
  <2>5. h \in Done(a) /\ e \in Entry /\ e \in Plain
    BY <1>2, <1>4, <2>4 DEF Showing, Plain
  <2>6. InsertAndCommit(h, e) = Commit(Insert(h, e))
    BY <2>5, DoneInserted DEF InsertAndCommit
  <2>7. PICK done : done = Commit(Insert(h, e))
    OBVIOUS
  <2>8. <<done, Means(x, e)>> \in R
    BY <1>3, <2>4, <2>5, <2>6, <2>7 DEF Understands
  <2>9. PICK bad \in BOOLEAN : bad = (done.failed \/ g.failed)
    OBVIOUS
  <2>10. <<[done EXCEPT !.failed = bad], Means(x, e)>> \in R
    BY <1>3, <2>8 DEF Understands
  <2>11. Recommit(g, e) = [done EXCEPT !.failed = bad]
    BY <2>3, <2>7, <2>9, Zenon DEF Recommit
  <2> QED BY <2>2, <2>10, <2>11
<1>15. <<Through(op, first, s), Through(means, st, s)>> \in R
  BY <1>7, <1>9, <1>14, ThroughBoth
<1> QED BY <1>a, <1>1, <1>2, <1>8, <1>11, <1>12, <1>13, <1>15 DEF Meant

\* Merging one configuration, or none.
LEMMA MergeOne ==
  ASSUME NEW c \in Open
  PROVE  /\ Merge(c, <<>>) = c
         /\ \A u \in Done(FALSE) : Merge(c, <<u>>) = MergeEntries(c, u.entries)
<1>1. PICK T : T = Placed
  OBVIOUS
<1>2. PICK G : G = Open
  OBVIOUS
<1>3. PICK g \in G : g = c
  BY <1>2
<1>4. PICK op \in [T -> [G -> G]] : op = MergeAllOp(T, G)
  <2>1. \A o \in T : o.entries \in Seq(Entry)
    BY <1>1 DEF Placed, Configuration
  <2> QED BY <1>2, <2>1, MergeKeeps DEF MergeAllOp
<1>5. Merge(c, <<>>) = c
  <2>1. PICK z \in Seq(T) : z = <<>>
    <3>1. <<>> \in Seq(T)
      OBVIOUS
    <3> QED BY <3>1
  <2>2. Merge(g, z) = Through(MergeAllOp(T, G), g, z)
    BY <1>4, MergeAllLeads
  <2>3. Through(op, g, <<>>) = g
    BY ThroughEmpty
  <2> QED BY <1>3, <1>4, <2>1, <2>2, <2>3
<1>6. ASSUME NEW u \in Done(FALSE) PROVE Merge(c, <<u>>) = MergeEntries(c, u.entries)
  <2>1. PICK v \in T : v = u
    BY <1>1 DEF Done, Clean
  <2>2. PICK z \in Seq(T) : z = <<v>>
    <3>1. <<v>> \in Seq(T)
      OBVIOUS
    <3> QED BY <3>1
  <2>3. Merge(g, z) = Through(MergeAllOp(T, G), g, z)
    BY <1>4, MergeAllLeads
  <2>4. Through(op, g, <<v>>) = op[v][g]
    BY ThroughOne
  <2>5. op[v][g] = MergeEntries(g, v.entries)
    BY <1>4 DEF MergeAllOp
  <2>6. Merge(g, z) = op[v][g]
    BY <1>4, <2>2, <2>3, <2>4
  <2> QED BY <1>3, <2>1, <2>2, <2>5, <2>6
<1> QED BY <1>5, <1>6

\* The requests of the files, from the weakest to the strongest.
OfFiles(texts) == texts[3] \o texts[2] \o texts[1]

\* They reset no list.
LEMMA OfFilesTyped ==
  ASSUME NEW texts \in FileContents, texts \in Seq(Seq(PlainRequests))
  PROVE  OfFiles(texts) \in Seq(PlainRequests)
<1>1. Len(texts) = 3
  BY RequestAssumption
<1>2. PICK F : F = Seq(PlainRequests)
  OBVIOUS
<1>3. \A i \in 1..3 : texts[i] \in F
  BY <1>1, <1>2, ElementOfSeq
<1>4. PICK g1 \in Seq(PlainRequests), g2 \in Seq(PlainRequests), g3 \in Seq(PlainRequests) :
        g1 = texts[1] /\ g2 = texts[2] /\ g3 = texts[3]
  BY <1>2, <1>3
<1>5. (g3 \o g2) \o g1 \in Seq(PlainRequests)
  BY ConcatProperties
<1> QED BY <1>4, <1>5 DEF OfFiles

\* Two configurations in which the same is found.
LEMMA SameRetrieved ==
  ASSUME NEW c, NEW d, NEW k, Lookup(d, k) = Lookup(c, k)
  PROVE  Retrieve(d, k) = Retrieve(c, k)
  BY DEF Retrieve

\* What is known of a configuration does not depend on whether the settings were read.
LEMMA ReadShows ==
  ASSUME NEW a \in BOOLEAN, NEW b, NEW c, NEW x, <<c, x>> \in Showing(a, b), NEW n \in BOOLEAN,
         NEW d, d = [c EXCEPT !.settingsRead = n]
  PROVE  <<d, x>> \in Showing(a, n)
<1>1. /\ c \in Done(a) /\ x \in States /\ c.entries \in Seq(Kept)
      /\ Wrote(Start, c.entries) = Seen(a, x)
  BY DEF Showing
<1>2. c \in Configuration
  BY <1>1 DEF Done, Clean, Placed
<1>3. /\ d \in Configuration /\ d.entries = c.entries /\ d.insertPoint = c.insertPoint
      /\ d.committed = c.committed /\ d.attached = c.attached /\ d.told = c.told
      /\ d.settingsRead = n
  BY <1>2 DEF Configuration
<1>4. d \in Clean(a)
  BY <1>1, <1>3 DEF Done, Clean, Placed
<1>5. \A k : Retrieve(d, k) = Retrieve(c, k)
  <2> TAKE k
  <2>1. Lookup(d, k) = Lookup(c, k)
    BY <1>3, LookupFinds
  <2> QED BY <2>1, SameRetrieved
<1>6. d \in Done(a)
  BY <1>1, <1>3, <1>4, <1>5 DEF Done, Follows
<1> QED BY <1>1, <1>3, <1>6 DEF Showing

\* Config::read_in_settings, of a configuration that did not before, with others that
\* did not.
Unread(others) == ~ \E i \in DOMAIN others : others[i].settingsRead
Ready(c, others, merged) ==
  /\ c \in Open \cup Done(FALSE) /\ ~c.settingsRead /\ Unread(others)
  /\ merged = Merge([c EXCEPT !.committed = FALSE, !.failed = FALSE], others)
  /\ merged \in Open /\ ~merged.failed /\ merged.entries \in Seq(Plain)
Settled(c, merged, texts, read, d) ==
  /\ read = ReadFiles(merged, texts) /\ ~read.failed /\ Reads(read, merged, OfFiles(texts))
  /\ d = [(IF c.committed THEN CommitAll(read) ELSE read) EXCEPT !.settingsRead = TRUE]

\* Such a configuration has then what the files say, and it is committed if it was.
LEMMA SettingsOf ==
  ASSUME NEW c, NEW others, NEW merged, Ready(c, others, merged),
         NEW texts \in FileContents, texts \in Seq(Seq(PlainRequests)),
         NEW d, d = ReadInSettings(c, others, texts), ~d.failed
  PROVE  Settled(c, merged, texts, ReadFiles(merged, texts), d)
<1>a. /\ c \in Open \cup Done(FALSE) /\ ~c.settingsRead /\ Unread(others)
      /\ merged \in Open /\ ~merged.failed /\ merged.entries \in Seq(Plain)
  BY DEF Ready
<1>b. PICK read : read = ReadFiles(merged, texts)
  OBVIOUS
<1>1. PICK done : done = IF c.committed /\ ~read.failed THEN CommitAll(read) ELSE read
  OBVIOUS
<1>2. d = [done EXCEPT !.settingsRead = ~done.failed]
  BY <1>a, <1>b, <1>1 DEF ReadInSettings, Ready, Unread
<1>3. read \in Open /\ read \in Placed /\ ~read.attached
  BY <1>a, <1>b, RequestAssumption, FilesKeep DEF Open
<1>4. done \in Open \cup Done(FALSE)
  BY <1>1, <1>3, CommitAllKeeps
<1>5. done \in Configuration
  BY <1>4 DEF Open, Done, Clean, Placed
<1>6. d.failed = done.failed
  BY <1>2, <1>5 DEF Configuration
<1>7. ~done.failed /\ d = [done EXCEPT !.settingsRead = TRUE]
  BY <1>2, <1>5, <1>6 DEF Configuration
<1>8. ~read.failed
  BY <1>1, <1>7
<1>9. Reads(read, merged, texts[3] \o texts[2] \o texts[1])
  BY <1>a, <1>b, <1>8, FilesRead
<1> QED BY <1>1, <1>b, <1>7, <1>8, <1>9 DEF OfFiles, Settled

\* new_speller of a program: the configuration of its own that it makes.
LEMMA SpellerReads ==
  ASSUME NEW u \in Done(FALSE), u.entries \in Seq(Kept), ~u.settingsRead, NEW rs \in Seq(PlainRequests),
         \A v \in States : Meant(v, u.entries) = Asked(v, rs),
         NEW texts \in FileContents, texts \in Seq(Seq(PlainRequests)),
         NEW d, d = ReadInSettings(NewConfig, <<u>>, texts), ~d.failed
  PROVE  <<d, Asked(Start, OfFiles(texts) \o rs)>> \in Showing(FALSE, TRUE)
<1>a. PICK a \in BOOLEAN : a = FALSE
  OBVIOUS
<1>1. PICK c \in Done(FALSE) : c = NewConfig
  BY NewIsDone
<1>2. /\ c.entries = <<>> /\ c.insertPoint = 0 /\ c.committed = TRUE /\ c.attached = FALSE
      /\ c.settingsRead = FALSE /\ c \in Configuration /\ ~c.settingsRead
  BY <1>1 DEF NewConfig, Done, Clean, Placed
<1>3. PICK open : open = [c EXCEPT !.committed = FALSE, !.failed = FALSE]
  OBVIOUS
<1>4. /\ open \in Configuration /\ open.entries = <<>> /\ open.insertPoint = 0
      /\ open.settingsRead = FALSE /\ open.committed = FALSE /\ open.attached = FALSE
      /\ open.failed = FALSE
  BY <1>2, <1>3 DEF Configuration
<1>5. open \in Open
  BY <1>4 DEF Open, Placed
<1>6. PICK s \in Seq(Plain) : s = u.entries
  BY KeptFacts
<1>7. PICK merged : merged = MergeEntries(open, s)
  OBVIOUS
<1>8. /\ merged \in Open /\ merged.settingsRead = FALSE /\ merged.failed = FALSE
      /\ merged.entries \in Seq(Plain)
      /\ \A v \in States : Meant(v, merged.entries) = Meant(v, s)
  BY <1>4, <1>5, <1>7, Merged
<1>9. merged = Merge(open, <<u>>)
  BY <1>5, <1>6, <1>7, MergeOne
<1>10. ~ \E i \in DOMAIN <<u>> : <<u>>[i].settingsRead
  OBVIOUS
<1>11. PICK read : read = ReadFiles(merged, texts)
  OBVIOUS
<1>12. /\ Reads(read, merged, OfFiles(texts)) /\ ~read.failed
       /\ d = [(IF c.committed THEN CommitAll(read) ELSE read) EXCEPT !.settingsRead = TRUE]
  <2>1. PICK others : others = <<u>>
    OBVIOUS
  <2>2. Unread(others)
    BY <1>10, <2>1 DEF Unread
  <2>3. d = ReadInSettings(c, others, texts)
    BY <1>1, <2>1
  <2>4. Ready(c, others, merged)
    BY <1>2, <1>3, <1>8, <1>9, <2>1, <2>2 DEF Ready
  <2>5. Settled(c, merged, texts, ReadFiles(merged, texts), d)
    BY <2>3, <2>4, SettingsOf
  <2> QED BY <1>11, <2>5 DEF Settled
<1>13. /\ read \in Open /\ read.settingsRead = FALSE /\ read.entries \in Seq(Plain)
       /\ \A v \in States : Meant(v, read.entries) = Meant(Asked(v, OfFiles(texts)), merged.entries)
  BY <1>8, <1>12 DEF Reads
<1>14. PICK done : done = CommitAll(read)
  OBVIOUS
<1>15. read \in Placed /\ ~read.attached
  BY <1>13 DEF Open
<1>16. <<done, Meant(Start, read.entries)>> \in Showing(FALSE, read.settingsRead)
  BY <1>13, <1>14, <1>15, AllCommitted
<1>17. PICK x : x = Meant(Start, read.entries)
  OBVIOUS
<1>18. d = [done EXCEPT !.settingsRead = TRUE]
  BY <1>2, <1>12, <1>14
<1>19. <<d, x>> \in Showing(FALSE, TRUE)
  <2>1. PICK n \in BOOLEAN : n = TRUE
    OBVIOUS
  <2>2. <<done, x>> \in Showing(a, read.settingsRead)
    BY <1>a, <1>16, <1>17
  <2>3. d = [done EXCEPT !.settingsRead = n]
    BY <1>18, <2>1
  <2>4. <<d, x>> \in Showing(a, n)
    BY <2>2, <2>3, ReadShows
  <2> QED BY <1>a, <2>1, <2>4
<1>20. x = Asked(Start, OfFiles(texts) \o rs)
  <2>1. PICK st \in States : st = Start
    BY StartTyped
  <2>2. PICK fs \in Seq(PlainRequests) : fs = OfFiles(texts)
    BY OfFilesTyped
  <2>3. PICK v \in States : v = Asked(st, fs)
    BY AskedFacts
  <2>4. Asked(st, fs \o rs) = Asked(Asked(st, fs), rs)
    BY AskedFacts
  <2>5. Meant(st, read.entries) = Meant(v, merged.entries)
    BY <1>13, <2>2, <2>3
  <2>6. Meant(v, merged.entries) = Meant(v, s)
    BY <1>8
  <2>7. Meant(v, s) = Asked(v, rs)
    BY <1>6
  <2> QED BY <1>17, <2>1, <2>2, <2>3, <2>4, <2>5, <2>6, <2>7
<1> QED BY <1>19, <1>20

\* And the start of the utility, which commits then what it collected.
LEMMA UtilityReads ==
  ASSUME NEW u \in Open, u.entries \in Seq(Plain), ~u.settingsRead, NEW rs \in Seq(PlainRequests),
         \A v \in States : Meant(v, u.entries) = Asked(v, rs),
         NEW texts \in FileContents, texts \in Seq(Seq(PlainRequests)),
         NEW d, d = ReadInSettings(u, <<>>, texts), ~d.failed
  PROVE  <<CommitAll([d EXCEPT !.failed = FALSE]), Asked(Start, OfFiles(texts) \o rs)>>
            \in Showing(FALSE, TRUE)
<1>2. /\ u.committed = FALSE /\ u.attached = FALSE /\ u.settingsRead = FALSE
      /\ u \in Configuration /\ u \in Placed
  BY DEF Open, Placed, Configuration
<1>3. PICK open : open = [u EXCEPT !.committed = FALSE, !.failed = FALSE]
  OBVIOUS
<1>4. /\ open \in Configuration /\ open.entries = u.entries /\ open.insertPoint = u.insertPoint
      /\ open.settingsRead = FALSE /\ open.committed = FALSE /\ open.attached = FALSE
      /\ open.failed = FALSE
  BY <1>2, <1>3 DEF Configuration
<1>5. open \in Open
  BY <1>2, <1>4 DEF Open, Placed
<1>6. open = Merge(open, <<>>)
  BY <1>5, MergeOne
<1>7. PICK read : read = ReadFiles(open, texts)
  OBVIOUS
<1>8. /\ Reads(read, open, OfFiles(texts)) /\ ~read.failed
      /\ d = [(IF u.committed THEN CommitAll(read) ELSE read) EXCEPT !.settingsRead = TRUE]
  <2>1. PICK others : others = <<>>
    OBVIOUS
  <2>2. Unread(others)
    BY <2>1 DEF Unread
  <2>3. d = ReadInSettings(u, others, texts)
    BY <2>1
  <2>4. Ready(u, others, open)
    BY <1>2, <1>3, <1>4, <1>5, <1>6, <2>1, <2>2 DEF Ready
  <2>5. Settled(u, open, texts, ReadFiles(open, texts), d)
    BY <2>3, <2>4, SettingsOf
  <2> QED BY <1>7, <2>5 DEF Settled
<1>9. /\ read \in Open /\ read.settingsRead = FALSE /\ read.entries \in Seq(Plain)
      /\ \A v \in States : Meant(v, read.entries) = Meant(Asked(v, OfFiles(texts)), open.entries)
  BY <1>4, <1>8 DEF Reads
<1>10. PICK e : e = [d EXCEPT !.failed = FALSE]
  OBVIOUS
<1>11. /\ e \in Placed /\ ~e.attached /\ e.entries = read.entries /\ e.settingsRead = TRUE
  <2>1. d = [read EXCEPT !.settingsRead = TRUE]
    BY <1>2, <1>8
  <2>2. read \in Configuration /\ read \in Placed /\ ~read.attached
    BY <1>9 DEF Open, Placed
  <2>3. /\ e \in Configuration /\ e.entries = read.entries /\ e.settingsRead = TRUE
        /\ e.insertPoint = read.insertPoint /\ e.attached = read.attached
    BY <1>10, <2>1, <2>2 DEF Configuration
  <2> QED BY <2>2, <2>3 DEF Placed
<1>12. PICK done : done = CommitAll(e)
  OBVIOUS
<1>13. <<done, Meant(Start, e.entries)>> \in Showing(FALSE, e.settingsRead)
  BY <1>9, <1>11, <1>12, AllCommitted
<1>14. Meant(Start, e.entries) = Asked(Start, OfFiles(texts) \o rs)
  <2>1. PICK st \in States : st = Start
    BY StartTyped
  <2>2. PICK fs \in Seq(PlainRequests) : fs = OfFiles(texts)
    BY OfFilesTyped
  <2>3. PICK v \in States : v = Asked(st, fs)
    BY AskedFacts
  <2>4. Asked(st, fs \o rs) = Asked(Asked(st, fs), rs)
    BY AskedFacts
  <2>5. Meant(st, read.entries) = Meant(v, open.entries)
    BY <1>9, <2>2, <2>3
  <2>6. Meant(v, u.entries) = Asked(v, rs)
    OBVIOUS
  <2> QED BY <1>4, <1>11, <2>1, <2>2, <2>3, <2>4, <2>5, <2>6
<1> QED BY <1>10, <1>11, <1>12, <1>13, <1>14

-----------------------------------------------------------------------------
(* The speller, and the mode of a file.                                      *)

\* What a configuration shows.
LEMMA ShowingShows ==
  ASSUME NEW a, NEW b, NEW c, NEW x, <<c, x>> \in Showing(a, b)
  PROVE  Shows(c, Seen(a, x))
<1>1. c.entries \in Seq(Kept) /\ Wrote(Start, c.entries) = Seen(a, x)
  BY DEF Showing
<1>2. PICK s \in Seq(Kept) : s = c.entries
  BY <1>1
<1>3. ShowsAll(s)
  BY EntriesShow
<1> QED BY <1>1, <1>2, <1>3 DEF ShowsAll, Wrote

\* The limit a speller is set up with when it gets one it has no room for.
EightAsked == [prefix |-> "", key |-> "run-together-limit", value |-> "8"]

\* It leaves what the speller shows anyway.
LEMMA EightMeans ==
  ASSUME NEW x \in States, Scanned[x.view["run-together-limit"]] > LimitMax
  PROVE  EightAsked \in PlainRequests /\ Asks(x, EightAsked) = Seen(TRUE, x)
<1>1. PICK r : r = EightAsked
  OBVIOUS
<1>2. r.prefix = "" /\ r.key = "run-together-limit" /\ r.value = "8"
  BY <1>1 DEF EightAsked
<1>3. r \in Requests
  BY <1>1 DEF EightAsked, Requests, OptionPrefixes, Texts
<1>4. r \in PlainRequests
  BY <1>2, <1>3 DEF PlainRequests
<1>5. EntryOf(r) = Eight
  BY <1>2 DEF EntryOf, Eight, Action, ValueOf
<1>6. Asks(x, r) = Means(x, EntryOf(r))
  BY <1>2, <1>4, OneMeans DEF NoValuePrefixes
<1>7. Means(x, Eight) = Written(x, Eight)
  <2>1. Amended(Eight) = Eight
    BY EightKept DEF Amended, Kept, Sound
  <2> QED BY <2>1, EightKept DEF Means
<1>8. Written(x, Eight) = Seen(TRUE, x)
  BY EightShows
<1> QED BY <1>1, <1>4, <1>5, <1>6, <1>7, <1>8

\* SpellerImpl::setup: it shows what was shown, with a limit the speller has room for.
LEMMA SetupShows ==
  ASSUME NEW b, NEW c, NEW x, <<c, x>> \in Showing(FALSE, b)
  PROVE  <<SetupSpeller(c), x>> \in Showing(TRUE, b)
<1>a. PICK a \in BOOLEAN : a = TRUE
  OBVIOUS
<1>f. PICK f \in BOOLEAN : f = FALSE
  OBVIOUS
<1>1. /\ c \in Done(FALSE) /\ x \in States /\ c.settingsRead = b
      /\ c.entries \in Seq(Kept) /\ Wrote(Start, c.entries) = x
  BY DEF Showing, Seen
<1>2. PICK text \in IntTexts : text = x.view["run-together-limit"]
  BY <1>1 DEF States, Views
<1>3. Retrieve(c, "run-together-limit") = text
  <2>1. Shows(c, x)
    BY ShowingShows DEF Seen
  <2> QED BY <1>2, <2>1, KeyFacts DEF Shows, Value, Keys, Scalars, Lists
<1>4. PICK limit : limit = Atoi[text]
  OBVIOUS
<1>5. limit > LimitMax <=> Scanned[text] > LimitMax
  BY <1>4 DEF Atoi, Scanned, IntTexts, LimitMax
<1>6. PICK d : d = IF limit > LimitMax THEN Set(c, EightAsked) ELSE c
  OBVIOUS
<1>7. PICK y \in States : y = Seen(a, x)
  BY <1>1, SeenFacts
<1>8. <<d, y>> \in Showing(f, b)
  <2>1. CASE limit > LimitMax
    <3>1. EightAsked \in PlainRequests /\ Asks(x, EightAsked) = y
      BY <1>a, <1>1, <1>2, <1>5, <1>7, <2>1, EightMeans
    <3>2. PICK R : R = Showing(f, b)
      OBVIOUS
    <3>3. Understands(R) /\ <<c, x>> \in R
      BY <1>f, <3>2, ShowingUnderstands
    <3>4. <<Set(c, EightAsked), Asks(x, EightAsked)>> \in R
      BY <3>1, <3>3, SetAsks
    <3> QED BY <1>6, <2>1, <3>1, <3>2, <3>4
  <2>2. CASE ~(limit > LimitMax)
    <3>1. \A k \in Keys : y.view[k] = x.view[k]
      BY <1>1, <1>2, <1>5, <1>7, <2>2, SeenFacts
    <3>2. y.none = x.none
      BY <1>1, <1>7, SeenFacts
    <3>3. y = x
      BY <1>1, <3>1, <3>2, SameState
    <3> QED BY <1>f, <1>6, <2>2, <3>3
  <2> QED BY <2>1, <2>2
<1>9. /\ d \in Done(FALSE) /\ d.settingsRead = b
      /\ d.entries \in Seq(Kept) /\ Wrote(Start, d.entries) = y
  BY <1>f, <1>8 DEF Showing, Seen
<1>10. PICK s : s = SetupSpeller(c)
  OBVIOUS
<1>11. s \in Done(TRUE)
  BY <1>1, <1>10, SetupFollows
<1>12. PICK t : s = [d EXCEPT !.attached = TRUE, !.told = t]
  BY <1>3, <1>4, <1>6, <1>10 DEF SetupSpeller, EightAsked
<1>13. s.entries = d.entries /\ s.settingsRead = b
  <2>1. d \in Configuration
    BY <1>9 DEF Done, Clean, Placed
  <2> QED BY <1>9, <1>12, <2>1 DEF Configuration
<1>14. Wrote(Start, s.entries) = Seen(TRUE, x)
  BY <1>a, <1>7, <1>9, <1>13
<1> QED BY <1>1, <1>9, <1>10, <1>11, <1>13, <1>14 DEF Showing

\* The mode the name of a file asks for.
ModeAsked(name) == [prefix |-> "", key |-> "mode", value |-> ModeMagic[Min(NamedModes(name))].mode]

\* It is a request that resets no list.
LEMMA ModeAskedTyped ==
  ASSUME NEW name, NamedModes(name) # {}
  PROVE  ModeAsked(name) \in PlainRequests
<1>1. PICK modes : modes = NamedModes(name)
  OBVIOUS
<1>2. PICK n \in Nat : DOMAIN ModeMagic = 1..n
  BY MagicAssumption
<1>3. modes \subseteq Nat /\ modes # {} /\ modes \subseteq DOMAIN ModeMagic
  BY <1>1, <1>2 DEF NamedModes
<1>4. \E x \in modes : \A y \in modes : x <= y
  BY <1>3, LeastNatural
<1>5. Min(modes) \in modes
  BY <1>4 DEF Min
<1>6. PICK i \in DOMAIN ModeMagic : i = Min(modes)
  BY <1>3, <1>5
<1>7. PICK T : T = [mode : DOMAIN ModeFilters,
                    magic : Seq([magic : STRING, ext : Seq(STRING), remove : BOOLEAN])]
  OBVIOUS
<1>8. ModeMagic \in Seq(T) /\ i \in 1..Len(ModeMagic)
  BY <1>7, MagicAssumption, LenProperties
<1>9. ModeMagic[i] \in T
  BY <1>8, ElementOfSeq
<1>10. ModeMagic[i].mode \in Texts
  BY <1>7, <1>9, ModesAssumption DEF Texts
<1>11. PICK r : r = ModeAsked(name)
  OBVIOUS
<1>12. r.prefix = "" /\ r.key = "mode" /\ r.value \in Texts /\ r \in Requests
  BY <1>1, <1>6, <1>10, <1>11 DEF ModeAsked, Requests, OptionPrefixes, Texts
<1> QED BY <1>11, <1>12 DEF PlainRequests

\* Every mode is locked to by the names that its magic lines name.
LEMMA SameModes ==
  ASSUME NEW name
  PROVE  {i \in DOMAIN ModeMagic : LocksTo(MagicKeys(ModeMagic[i].magic), name)} = NamedModes(name)
<1>1. ASSUME NEW i \in DOMAIN ModeMagic
      PROVE  LocksTo(MagicKeys(ModeMagic[i].magic), name) <=> Named(ModeMagic[i].magic, name)
  <2>1. PICK T : T = [mode : DOMAIN ModeFilters,
                      magic : Seq([magic : STRING, ext : Seq(STRING), remove : BOOLEAN])]
    OBVIOUS
  <2>2. ModeMagic \in Seq(T) /\ i \in 1..Len(ModeMagic)
    BY <2>1, MagicAssumption, LenProperties
  <2>3. ModeMagic[i] \in T
    BY <2>2, ElementOfSeq
  <2>4. PICK lines \in Seq(Line) : lines = ModeMagic[i].magic
    BY <2>1, <2>3 DEF Line
  <2>5. LocksTo(MagicKeys(lines), name) <=> Named(lines, name)
    BY LocksNamed
  <2> QED BY <2>4, <2>5
<1> QED BY <1>1 DEF NamedModes

\* setModeFromExtension: a name only says what nobody asked for.
LEMMA ModeOfFile ==
  ASSUME NEW b, NEW c, NEW all \in Seq(PlainRequests), <<c, Asked(Start, all)>> \in Showing(FALSE, b),
         NEW name,
         NEW more, more = IF NamedModes(name) # {} /\ NoMode(all) THEN all \o ModeRequest(name)
                          ELSE all
  PROVE  /\ more \in Seq(PlainRequests)
         /\ <<SetModeFromExtension(c, name), Asked(Start, more)>> \in Showing(FALSE, b)
<1>1. PICK st \in States : st = Start
  BY StartTyped
<1>2. PICK x \in States : x = Asked(st, all)
  BY AskedFacts
<1>3. Lookup(c, "mode") = {} <=> NoMode(all)
  <2>1. Shows(c, x)
    BY <1>1, <1>2, ShowingShows DEF Seen
  <2>2. x.none = NoMode(all)
    BY <1>1, <1>2, AskedMeaning
  <2> QED BY <2>1, <2>2 DEF Shows
<1>4. PICK modes : modes = NamedModes(name)
  OBVIOUS
<1>5. SetModeFromExtension(c, name) =
        IF modes = {} \/ Lookup(c, "mode") # {} THEN c ELSE Set(c, ModeAsked(name))
  BY <1>4, SameModes DEF SetModeFromExtension, ModeAsked
<1>6. CASE modes # {} /\ NoMode(all)
  <2>1. PICK r \in PlainRequests : r = ModeAsked(name)
    BY <1>4, <1>6, ModeAskedTyped
  <2>2. more = Append(all, r)
    <3>1. more = all \o <<r>>
      BY <1>4, <1>6, <2>1 DEF ModeRequest, ModeAsked
    <3>2. all \o <<r>> = Append(all, r)
      OBVIOUS
    <3> QED BY <3>1, <3>2
  <2>3. Asked(st, Append(all, r)) = Asks(Asked(st, all), r)
    BY AskedFacts
  <2>4. PICK f \in BOOLEAN : f = FALSE
    OBVIOUS
  <2>5. PICK R : R = Showing(f, b)
    OBVIOUS
  <2>6. Understands(R) /\ <<c, x>> \in R
    BY <1>1, <1>2, <2>4, <2>5, ShowingUnderstands
  <2>7. <<Set(c, r), Asks(x, r)>> \in R
    BY <2>6, SetAsks
  <2>8. Append(all, r) \in Seq(PlainRequests)
    BY AppendProperties
  <2>9. SetModeFromExtension(c, name) = Set(c, r)
    BY <1>3, <1>5, <1>6, <2>1
  <2> QED BY <1>1, <1>2, <2>2, <2>3, <2>4, <2>5, <2>7, <2>8, <2>9
<1>7. CASE ~(modes # {} /\ NoMode(all))
  <2>1. more = all
    BY <1>4, <1>7
  <2>2. SetModeFromExtension(c, name) = c
    BY <1>3, <1>5, <1>7
  <2> QED BY <2>1, <2>2
<1> QED BY <1>6, <1>7

-----------------------------------------------------------------------------
(* What the settings mean.                                                   *)

\* Nobody resets a list: after a reset lookup_list takes the entry that follows for one of
\* the same list, whatever its option is (config.cpp:416-424), so that SettingsMean does not
\* hold without this.
NoListResets == /\ UserRequests \cup LaterRequests \subseteq PlainRequests
                /\ FileContents \subseteq Seq(Seq(PlainRequests))

\* What the user's configuration has of the requests, before and after its commit.
UserMeans(c, rs) ==
  \/ \A v \in States : <<c, Asked(v, rs)>> \in Collecting(FALSE, v, <<>>)
  \/ \E b \in BOOLEAN : /\ <<c, Asked(Start, rs)>> \in Showing(FALSE, b)
                        /\ ~b => \A v \in States : <<c, Asked(v, rs)>> \in Recording(v)
\* And the speller's configuration, of those it follows from.
SpellerMeans(list, rs) ==
  list # <<>> => /\ list = <<list[1]>> /\ <<list[1], Asked(Start, rs)>> \in Showing(TRUE, TRUE)
\* The invariant.
MeansInv == /\ files \in FileContents
            /\ asked \in Seq(PlainRequests) /\ askedSpeller \in Seq(PlainRequests)
            /\ UserMeans(user, asked) /\ SpellerMeans(speller, askedSpeller)

\* A configuration that is being collected, and a committed one.
LEMMA CollectingFacts ==
  ASSUME NEW c, NEW rs, \A v \in States : <<c, Asked(v, rs)>> \in Collecting(FALSE, v, <<>>)
  PROVE  /\ c \in Open /\ ~c.settingsRead /\ c.entries \in Seq(Plain)
         /\ \A v \in States : Meant(v, c.entries) = Asked(v, rs)
<1>1. PICK z \in Seq(Plain) : z = <<>>
  <2>1. <<>> \in Seq(Plain)
    OBVIOUS
  <2> QED BY <2>1
<1>2. ASSUME NEW v \in States
      PROVE  /\ c \in Open /\ ~c.settingsRead /\ c.entries \in Seq(Plain)
             /\ Meant(v, c.entries) = Asked(v, rs)
  <2>1. PICK x : x = Asked(v, rs)
    OBVIOUS
  <2>2. <<c, x>> \in Collecting(FALSE, v, z)
    BY <1>1, <2>1
  <2>3. c \in Open /\ x \in States /\ c.settingsRead = FALSE /\ \E new : Ahead(new, v, z, c, x)
    BY <2>2 DEF Collecting
  <2>4. PICK new : Ahead(new, v, z, c, x)
    BY <2>3
  <2>5. c.entries \in Seq(Plain) /\ Meant(v, c.entries) = Meant(x, z)
    BY <2>4, AheadMeans
  <2>6. Meant(x, z) = x
    BY <1>1, <2>3, NoneWritten
  <2> QED BY <2>1, <2>3, <2>5, <2>6
<1> QED BY <1>2, StartTyped

\* It is committed, and not being collected.
LEMMA ShowingFacts ==
  ASSUME NEW a, NEW b, NEW c, NEW x, <<c, x>> \in Showing(a, b)
  PROVE  /\ c \in Done(a) /\ c.committed /\ c.settingsRead = b
         /\ c.entries \in Seq(Kept) /\ x \in States
  BY DEF Showing, Done, Clean

\* new_config.
LEMMA InitMeans ==
  ASSUME NoListResets
  PROVE  Init => MeansInv
<1> SUFFICES ASSUME Init PROVE MeansInv
  OBVIOUS
<1>1. PICK utility \in BOOLEAN : user = [NewConfig EXCEPT !.committed = ~utility]
  BY DEF Init
<1>2. PICK c : c = user
  OBVIOUS
<1>3. NewConfig \in Done(FALSE) /\ NewConfig \in Configuration
  BY NewIsDone DEF Done, Clean, Placed
<1>4. /\ c.entries = <<>> /\ c.insertPoint = 0 /\ c.committed = ~utility
      /\ c.attached = FALSE /\ c \in Configuration /\ c.settingsRead = FALSE
  <2>1. /\ NewConfig.entries = <<>> /\ NewConfig.insertPoint = 0
        /\ NewConfig.attached = FALSE /\ NewConfig.settingsRead = FALSE
    BY DEF NewConfig
  <2> QED BY <1>1, <1>2, <1>3, <2>1 DEF Configuration
<1>5. \A v \in States : Asked(v, <<>>) = v /\ Meant(v, <<>>) = v
  BY AskedNone, NoneWritten
<1>6. <<>> \in Seq(Plain) /\ <<>> \in Seq(Kept) /\ <<>> \in Seq(PlainRequests)
  OBVIOUS
<1>7. UserMeans(c, <<>>)
  <2>1. CASE utility
    <3>1. c \in Open
      <4>1. c.committed = FALSE
        BY <1>4, <2>1
      <4>2. c \in Placed
        BY <1>4 DEF Placed
      <4> QED BY <1>4, <4>1, <4>2 DEF Open
    <3>2. ASSUME NEW v \in States PROVE <<c, Asked(v, <<>>)>> \in Collecting(FALSE, v, <<>>)
      <4>1. c.entries = <<>> \o <<>> /\ Len(<<>>) = 0
        BY <1>4
      <4>2. Ahead(<<>>, v, <<>>, c, v)
        BY <1>4, <1>5, <1>6, <4>1 DEF Ahead
      <4>3. <<c, v>> \in Collecting(FALSE, v, <<>>)
        BY <1>4, <3>1, <4>2 DEF Collecting
      <4> QED BY <1>5, <4>3
    <3> QED BY <3>2 DEF UserMeans
  <2>2. CASE ~utility
    <3>1. c = NewConfig
      BY <1>1, <1>2, <1>3, <2>2 DEF NewConfig, Configuration
    <3>2. c \in Done(FALSE)
      BY <1>3, <3>1
    <3>3. PICK st \in States : st = Start
      BY StartTyped
    <3>4. <<c, st>> \in Showing(FALSE, FALSE)
      <4>1. Wrote(st, <<>>) = st /\ Seen(FALSE, st) = st
        BY NoneWritten DEF Seen
      <4> QED BY <1>4, <1>6, <3>2, <3>3, <4>1 DEF Showing
    <3>5. ASSUME NEW v \in States PROVE <<c, Asked(v, <<>>)>> \in Recording(v)
      BY <1>4, <1>5, <1>6, <3>2 DEF Recording
    <3>6. PICK b \in BOOLEAN : b = FALSE
      OBVIOUS
    <3>7. <<c, Asked(Start, <<>>)>> \in Showing(FALSE, b)
      BY <1>5, <3>3, <3>4, <3>6
    <3> QED BY <3>5, <3>6, <3>7 DEF UserMeans
  <2> QED BY <2>1, <2>2
<1>8. SpellerMeans(speller, <<>>)
  BY DEF Init, SpellerMeans
<1>9. files \in FileContents /\ asked = <<>> /\ askedSpeller = <<>>
  BY DEF Init
<1> QED BY <1>2, <1>6, <1>7, <1>8, <1>9 DEF MeansInv

\* A request of the user's configuration.
LEMMA UserAsksMeans ==
  ASSUME NEW c, NEW rs \in Seq(PlainRequests), UserMeans(c, rs), NEW r \in PlainRequests
  PROVE  UserMeans(Set(c, r), Append(rs, r))
<1>1. \A v \in States : Asked(v, Append(rs, r)) = Asks(Asked(v, rs), r)
  BY AskedFacts
<1>2. CASE \A v \in States : <<c, Asked(v, rs)>> \in Collecting(FALSE, v, <<>>)
  <2>1. PICK z \in Seq(Plain) : z = <<>>
    <3>1. <<>> \in Seq(Plain)
      OBVIOUS
    <3> QED BY <3>1
  <2>2. ASSUME NEW v \in States
        PROVE  <<Set(c, r), Asked(v, Append(rs, r))>> \in Collecting(FALSE, v, <<>>)
    <3>1. PICK R : R = Collecting(FALSE, v, z)
      OBVIOUS
    <3>2. Understands(R)
      BY <3>1, CollectingUnderstands
    <3>3. PICK x : x = Asked(v, rs)
      OBVIOUS
    <3>4. <<c, x>> \in R
      BY <1>2, <2>1, <3>1, <3>3
    <3>5. <<Set(c, r), Asks(x, r)>> \in R
      BY <3>2, <3>4, SetAsks
    <3> QED BY <1>1, <2>1, <3>1, <3>3, <3>5
  <2> QED BY <2>2 DEF UserMeans
<1>3. ASSUME NEW b \in BOOLEAN, <<c, Asked(Start, rs)>> \in Showing(FALSE, b),
             ~b => \A v \in States : <<c, Asked(v, rs)>> \in Recording(v)
      PROVE  UserMeans(Set(c, r), Append(rs, r))
  <2>1. <<Set(c, r), Asked(Start, Append(rs, r))>> \in Showing(FALSE, b)
    <3>1. PICK f \in BOOLEAN : f = FALSE
      OBVIOUS
    <3>2. PICK R : R = Showing(f, b)
      OBVIOUS
    <3>3. PICK x : x = Asked(Start, rs)
      OBVIOUS
    <3>4. Understands(R) /\ <<c, x>> \in R
      BY <1>3, <3>1, <3>2, <3>3, ShowingUnderstands
    <3>5. <<Set(c, r), Asks(x, r)>> \in R
      BY <3>4, SetAsks
    <3>6. Asked(Start, Append(rs, r)) = Asks(x, r)
      BY <1>1, <3>3, StartTyped
    <3> QED BY <3>1, <3>2, <3>5, <3>6
  <2>2. ASSUME ~b, NEW v \in States
        PROVE  <<Set(c, r), Asked(v, Append(rs, r))>> \in Recording(v)
    <3>1. PICK R : R = Recording(v)
      OBVIOUS
    <3>2. PICK x : x = Asked(v, rs)
      OBVIOUS
    <3>3. Understands(R) /\ <<c, x>> \in R
      BY <1>3, <2>2, <3>1, <3>2, RecordingUnderstands
    <3>4. <<Set(c, r), Asks(x, r)>> \in R
      BY <3>3, SetAsks
    <3> QED BY <1>1, <3>1, <3>2, <3>4
  <2> QED BY <2>1, <2>2 DEF UserMeans
<1> QED BY <1>2, <1>3 DEF UserMeans

\* Every step.
LEMMA NextMeans ==
  ASSUME NoListResets
  PROVE  MeansInv /\ [Next]_vars => MeansInv'
<1> SUFFICES ASSUME MeansInv, [Next]_vars PROVE MeansInv'
  OBVIOUS
<1>1. /\ files \in FileContents /\ files \in Seq(Seq(PlainRequests))
      /\ asked \in Seq(PlainRequests) /\ askedSpeller \in Seq(PlainRequests)
      /\ UserMeans(user, asked) /\ SpellerMeans(speller, askedSpeller)
  BY DEF MeansInv, NoListResets
<1>2. ASSUME NEW r \in UserRequests, UserAsks(r) PROVE MeansInv'
  <2>1. r \in PlainRequests
    BY DEF NoListResets
  <2>2. /\ user' = Set(user, r) /\ asked' = Append(asked, r)
        /\ UNCHANGED <<speller, files, askedSpeller>>
    BY <1>2 DEF UserAsks
  <2>3. UserMeans(user', asked') /\ asked' \in Seq(PlainRequests)
    BY <1>1, <2>1, <2>2, UserAsksMeans, AppendProperties
  <2>4. SpellerMeans(speller', askedSpeller')
    BY <1>1, <2>2
  <2> QED BY <1>1, <2>2, <2>3, <2>4 DEF MeansInv
<1>3. ASSUME NEW name \in Names, UtilityStarts(name) PROVE MeansInv'
  <2>1. PICK read : read = ReadInSettings(user, <<>>, files)
    OBVIOUS
  <2>2. PICK done : done = CommitAll([read EXCEPT !.failed = FALSE])
    OBVIOUS
  <2>3. PICK all : all = OfFiles(files) \o asked
    OBVIOUS
  <2>4. PICK more : more = IF NamedModes(name) # {} /\ NoMode(all) THEN all \o ModeRequest(name)
                           ELSE all
    OBVIOUS
  <2>5. /\ ~user.committed /\ ~read.failed
        /\ user' = SetModeFromExtension(done, name) /\ asked' = more
        /\ UNCHANGED <<speller, files, askedSpeller>>
    BY <1>3, <2>1, <2>2, <2>3, <2>4 DEF UtilityStarts, FileRequests, OfFiles
  <2>6. /\ user \in Open /\ ~user.settingsRead /\ user.entries \in Seq(Plain)
        /\ \A v \in States : Meant(v, user.entries) = Asked(v, asked)
    <3>1. CASE \A v \in States : <<user, Asked(v, asked)>> \in Collecting(FALSE, v, <<>>)
      BY <3>1, CollectingFacts
    <3>2. CASE \E b \in BOOLEAN : <<user, Asked(Start, asked)>> \in Showing(FALSE, b)
      BY <2>5, <3>2, ShowingFacts
    <3> QED BY <1>1, <3>1, <3>2 DEF UserMeans
  <2>7. <<done, Asked(Start, all)>> \in Showing(FALSE, TRUE)
    BY <1>1, <2>1, <2>2, <2>3, <2>5, <2>6, UtilityReads
  <2>8. all \in Seq(PlainRequests)
    <3>1. PICK fs \in Seq(PlainRequests) : fs = OfFiles(files)
      BY <1>1, OfFilesTyped
    <3>2. fs \o asked \in Seq(PlainRequests)
      BY <1>1, ConcatProperties
    <3> QED BY <2>3, <3>1, <3>2
  <2>9. /\ more \in Seq(PlainRequests)
        /\ <<SetModeFromExtension(done, name), Asked(Start, more)>> \in Showing(FALSE, TRUE)
    BY <2>4, <2>7, <2>8, ModeOfFile
  <2>10. UserMeans(user', asked')
    <3>1. PICK b \in BOOLEAN : b = TRUE
      OBVIOUS
    <3>2. <<user', Asked(Start, asked')>> \in Showing(FALSE, b)
      BY <2>5, <2>9, <3>1
    <3> QED BY <3>1, <3>2 DEF UserMeans
  <2>11. SpellerMeans(speller', askedSpeller')
    BY <1>1, <2>5
  <2> QED BY <1>1, <2>5, <2>9, <2>10, <2>11 DEF MeansInv
<1>4. ASSUME NewSpeller PROVE MeansInv'
  <2>1. PICK read : read = ReadInSettings(NewConfig, <<user>>, files)
    OBVIOUS
  <2>2. PICK rs : rs = IF user.settingsRead THEN asked ELSE OfFiles(files) \o asked
    OBVIOUS
  <2>3. /\ user.committed /\ ~read.failed
        /\ speller' = <<SetupSpeller(read)>> /\ askedSpeller' = rs
        /\ UNCHANGED <<user, files, asked>>
    BY <1>4, <2>1, <2>2 DEF NewSpeller, FileRequests, OfFiles
  <2>4. PICK b \in BOOLEAN : /\ <<user, Asked(Start, asked)>> \in Showing(FALSE, b)
                             /\ ~b => \A v \in States : <<user, Asked(v, asked)>> \in Recording(v)
    <3>1. ~ \A v \in States : <<user, Asked(v, asked)>> \in Collecting(FALSE, v, <<>>)
      <4> SUFFICES ASSUME \A v \in States : <<user, Asked(v, asked)>> \in Collecting(FALSE, v, <<>>)
                   PROVE  FALSE
        OBVIOUS
      <4>1. user \in Open
        BY CollectingFacts
      <4> QED BY <2>3, <4>1 DEF Open
    <3> QED BY <1>1, <3>1 DEF UserMeans
  <2>5. user \in Done(FALSE) /\ user.settingsRead = b /\ user.entries \in Seq(Kept)
    BY <2>4, ShowingFacts
  <2>6. <<read, Asked(Start, rs)>> \in Showing(FALSE, TRUE) /\ rs \in Seq(PlainRequests)
    <3>1. CASE b
      <4>1. PICK others : others = <<user>>
        OBVIOUS
      <4>2. \E i \in DOMAIN others : others[i].settingsRead
        <5>1. 1 \in DOMAIN others /\ others[1] = user
          BY <4>1
        <5>2. user.settingsRead
          BY <2>5, <3>1
        <5> QED BY <5>1, <5>2
      <4>3. ~NewConfig.settingsRead
        BY DEF NewConfig
      <4>4. read = Copy(others[1])
        BY <2>1, <4>1, <4>2, <4>3 DEF ReadInSettings
      <4>5. read = user
        BY <2>5, <4>1, <4>4, Copied
      <4> QED BY <1>1, <2>2, <2>4, <2>5, <3>1, <4>5
    <3>2. CASE ~b
      <4>1. \A v \in States : Meant(v, user.entries) = Asked(v, asked)
        BY <2>4, <3>2 DEF Recording
      <4>2. <<read, Asked(Start, OfFiles(files) \o asked)>> \in Showing(FALSE, TRUE)
        BY <1>1, <2>1, <2>3, <2>5, <3>2, <4>1, SpellerReads
      <4>3. PICK fs \in Seq(PlainRequests) : fs = OfFiles(files)
        BY <1>1, OfFilesTyped
      <4>4. fs \o asked \in Seq(PlainRequests)
        BY <1>1, ConcatProperties
      <4> QED BY <2>2, <2>5, <3>2, <4>2, <4>3, <4>4
    <3> QED BY <3>1, <3>2
  <2>7. <<SetupSpeller(read), Asked(Start, rs)>> \in Showing(TRUE, TRUE)
    BY <2>6, SetupShows
  <2>8. SpellerMeans(speller', askedSpeller')
    BY <2>3, <2>7 DEF SpellerMeans
  <2>9. UserMeans(user', asked')
    BY <1>1, <2>3
  <2> QED BY <1>1, <2>3, <2>6, <2>8, <2>9 DEF MeansInv
<1>5. ASSUME NEW r \in LaterRequests, SpellerAsks(r) PROVE MeansInv'
  <2>1. PICK c : c = speller[1]
    OBVIOUS
  <2>2. /\ speller # <<>> /\ speller' = <<Set(c, r)>> /\ askedSpeller' = Append(askedSpeller, r)
        /\ UNCHANGED <<user, files, asked>>
    BY <1>5, <2>1 DEF SpellerAsks
  <2>3. PICK x : x = Asked(Start, askedSpeller)
    OBVIOUS
  <2>4. PICK t \in BOOLEAN : t = TRUE
    OBVIOUS
  <2>5. PICK R : R = Showing(t, TRUE)
    OBVIOUS
  <2>6. Understands(R) /\ <<c, x>> \in R
    BY <1>1, <2>1, <2>2, <2>3, <2>4, <2>5, ShowingUnderstands DEF SpellerMeans
  <2>7. r \in PlainRequests
    BY DEF NoListResets
  <2>8. <<Set(c, r), Asks(x, r)>> \in R
    BY <2>6, <2>7, SetAsks
  <2>9. Asked(Start, Append(askedSpeller, r)) = Asks(x, r)
    <3>1. PICK st \in States : st = Start
      BY StartTyped
    <3>2. Asked(st, Append(askedSpeller, r)) = Asks(Asked(st, askedSpeller), r)
      BY <1>1, <2>7, AskedFacts
    <3> QED BY <2>3, <3>1, <3>2
  <2>10. SpellerMeans(speller', askedSpeller') /\ askedSpeller' \in Seq(PlainRequests)
    <3>1. askedSpeller' \in Seq(PlainRequests)
      BY <1>1, <2>2, <2>7, AppendProperties
    <3>2. <<Set(c, r), Asked(Start, askedSpeller')>> \in Showing(TRUE, TRUE)
      BY <2>2, <2>4, <2>5, <2>8, <2>9
    <3> QED BY <2>2, <3>1, <3>2 DEF SpellerMeans
  <2>11. UserMeans(user', asked')
    BY <1>1, <2>2
  <2> QED BY <1>1, <2>2, <2>10, <2>11 DEF MeansInv
<1>6. CASE DeleteSpeller
  <2>1. speller' = <<>> /\ askedSpeller' = <<>> /\ UNCHANGED <<user, files, asked>>
    BY <1>6 DEF DeleteSpeller
  <2>2. <<>> \in Seq(PlainRequests) /\ SpellerMeans(<<>>, <<>>)
    BY DEF SpellerMeans
  <2>3. SpellerMeans(speller', askedSpeller') /\ UserMeans(user', asked')
    BY <1>1, <2>1, <2>2
  <2> QED BY <1>1, <2>1, <2>2, <2>3 DEF MeansInv
<1>7. CASE UNCHANGED vars
  <2>1. UNCHANGED <<user, speller, files, asked, askedSpeller>>
    BY <1>7 DEF vars
  <2>2. SpellerMeans(speller', askedSpeller') /\ UserMeans(user', asked')
    BY <1>1, <2>1
  <2> QED BY <1>1, <2>1, <2>2 DEF MeansInv
<1> QED BY <1>2, <1>3, <1>4, <1>5, <1>6, <1>7 DEF Next

\* What the invariant says of the values that are looked up.
LEMMA MeansShown ==
  ASSUME MeansInv
  PROVE  SettingsMean
<1>1. ASSUME user.committed, NEW k \in Keys PROVE Value(user, k) = Meaning(asked)[k]
  <2>1. PICK b \in BOOLEAN : <<user, Asked(Start, asked)>> \in Showing(FALSE, b)
    <3>1. ~ \A v \in States : <<user, Asked(v, asked)>> \in Collecting(FALSE, v, <<>>)
      <4> SUFFICES ASSUME \A v \in States : <<user, Asked(v, asked)>> \in Collecting(FALSE, v, <<>>)
                   PROVE  FALSE
        OBVIOUS
      <4>1. user \in Open
        BY CollectingFacts
      <4> QED BY <1>1, <4>1 DEF Open
    <3> QED BY <3>1 DEF MeansInv, UserMeans
  <2>2. PICK x : x = Asked(Start, asked)
    OBVIOUS
  <2>3. Shows(user, x)
    BY <2>1, <2>2, ShowingShows DEF Seen
  <2>4. x.view = Meaning(asked)
    BY <2>2, AskedMeaning DEF MeansInv
  <2> QED BY <1>1, <2>3, <2>4 DEF Shows
<1>2. ASSUME NEW i \in DOMAIN speller, NEW k \in Keys
      PROVE  Value(speller[i], k) = Capped(Meaning(askedSpeller))[k]
  <2>1. speller # <<>>
    BY <1>2
  <2>2. PICK c : c = speller[1] /\ speller = <<c>>
    BY <2>1 DEF MeansInv, SpellerMeans
  <2>3. i = 1
    BY <1>2, <2>2
  <2>4. PICK x : x = Asked(Start, askedSpeller)
    OBVIOUS
  <2>5. <<c, x>> \in Showing(TRUE, TRUE)
    BY <2>1, <2>2, <2>4 DEF MeansInv, SpellerMeans
  <2>6. Shows(c, Seen(TRUE, x))
    BY <2>5, ShowingShows
  <2>7. x.view = Meaning(askedSpeller)
    BY <2>4, AskedMeaning DEF MeansInv
  <2>8. Seen(TRUE, x).view = Capped(Meaning(askedSpeller))
    BY <2>7 DEF Seen
  <2> QED BY <1>2, <2>2, <2>3, <2>6, <2>8 DEF Shows
<1> QED BY <1>1, <1>2 DEF SettingsMean

\* SettingsMean: for any requests, files, modes and names of files, what is looked up in a
\* committed configuration is what was asked for, read from the first request to the last,
\* however it came there (Config::set, merge, read_in_settings, commit_all, the entries of
\* a filter mode and of SpellerImpl's notifier).
THEOREM OptionsMean == NoListResets => (Spec => []SettingsMean)
<1> SUFFICES ASSUME NoListResets PROVE Spec => []SettingsMean
  OBVIOUS
<1>1. Init => MeansInv
  BY InitMeans
<1>2. MeansInv /\ [Next]_vars => MeansInv'
  BY NextMeans
<1>3. MeansInv => SettingsMean
  BY MeansShown
<1> QED BY <1>1, <1>2, <1>3, PTL DEF Spec
=============================================================================
