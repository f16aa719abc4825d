------------------------- MODULE SpellerDicts_proofs ------------------------
(***************************************************************************)
(* Proofs about SpellerDicts for any dictionary files, however they name   *)
(* one another, any configurations and any number of spellers.             *)
(*                                                                         *)
(* The counts of EveryReferenceOwned are inductive together with           *)
(*   ShapeInv  what each phase may rely on: which lists are empty, what    *)
(*             the call about to run is given, what add_data_set returned; *)
(*   FilesInv  which objects are multi dictionaries in the making, and     *)
(*             that what is in the cache is not one;                       *)
(*   PartsInv  what a multi dictionary points to is in the list of the     *)
(*             speller or still on to_add, below the multi dictionary.     *)
(* SavedInv is what SaveAllIsComplete needs besides.                       *)
(***************************************************************************)
EXTENDS SpellerDicts, FiniteSetTheorems, SequenceTheorems, TLAPS

\* The objects of a list of SpellerDict, and of the multi dictionaries being loaded.
DictObjs(ds) == [i \in DOMAIN ds |-> ds[i].dict]
FrameObjs(fs) == [i \in DOMAIN fs |-> fs[i].obj]

\* How often x is in s, and what is in s.
Occ(s, x) == Cardinality({i \in DOMAIN s : s[i] = x})
InSeq(s) == {s[i] : i \in DOMAIN s}

Known == InSeq(DictObjs(dicts)) \cup InSeq(toAdd)
Held == Known \cup InSeq(FrameObjs(loading))

Busy == phase \notin {"unwind", "delete", "idle"}

ShapeInv ==
  /\ phase = "load" => want \in File
  /\ phase = "got" => got \in Known
  /\ phase = "lines" => loading # <<>>
  /\ phase \in {"add", "personal", "session", "repl", "wordlists", "ready", "save",
                "delete", "idle"} => loading = <<>>
  /\ phase \in {"personal", "session", "repl", "wordlists", "ready", "save",
                "delete", "idle"} => toAdd = <<>>
  /\ phase = "idle" => dicts = <<>> /\ extras = 0

FilesInv ==
  /\ \A i \in DOMAIN loading : /\ loading[i].line \in Nat \ {0}
                               /\ source[loading[i].obj] \in File
                               /\ TypeOf[source[loading[i].obj]] = "multi"
  /\ \A o \in cached : /\ source[o] \in File
                       /\ TypeOf[source[o]] = "readonly"
                       /\ parts[o] = <<>>

\* How often o is in the lists.
Total(o) == Occ(DictObjs(dicts), o) + Occ(toAdd, o) + Occ(FrameObjs(loading), o)

CountInv == \A o \in Obj : IF o \in Live THEN refs[o] = Total(o) + lost[o]
                                         ELSE Total(o) + lost[o] = 0

PartsInv == Busy => \A o \in Held : InSeq(parts[o]) \subseteq Known

SavedInv ==
  /\ \A i \in DOMAIN dicts :
       /\ dicts[i].special = "personal" => dicts[i].save_on_saveall
       /\ dicts[i].special = "repl" => dicts[i].save_on_saveall = opt.save_repl
  /\ phase = "save" => \A i \in 1..saveAt : dicts[i].save_on_saveall => dicts[i].dict \in synced

Inv == TypeOK /\ ShapeInv /\ FilesInv /\ CountInv /\ PartsInv /\ SavedInv

-----------------------------------------------------------------------------
(* How often an object is in a list.                                        *)

\* The places of x in a list are finitely many, and none if x is not in it.
LEMMA OccFacts ==
  ASSUME NEW s, NEW n \in Nat, DOMAIN s = 1..n, NEW x
  PROVE  /\ IsFiniteSet({i \in DOMAIN s : s[i] = x})
         /\ Occ(s, x) \in Nat
         /\ Occ(s, x) = 0 <=> x \notin InSeq(s)
<1> DEFINE I == {i \in DOMAIN s : s[i] = x}
<1>1. IsFiniteSet(1..n)
  BY FS_Interval
<1>2. IsFiniteSet(I)
  BY <1>1, FS_Subset
<1>3. Cardinality(I) \in Nat /\ (Cardinality(I) = 0 <=> I = {})
  BY <1>2, FS_CardinalityType, FS_EmptySet
<1>4. I = {} <=> x \notin InSeq(s)
  BY DEF InSeq
<1> QED BY <1>2, <1>3, <1>4 DEF Occ

\* A list that is longer by one element at its end.
LEMMA OccAtEnd ==
  ASSUME NEW s, NEW t, NEW n \in Nat, DOMAIN s = 1..n, DOMAIN t = 1..(n + 1),
         \A i \in 1..n : t[i] = s[i], NEW x
  PROVE  Occ(t, x) = Occ(s, x) + (IF t[n + 1] = x THEN 1 ELSE 0)
<1>0. Occ(s, x) \in Nat /\ IsFiniteSet({i \in DOMAIN s : s[i] = x})
  BY OccFacts
<1> DEFINE I == {i \in DOMAIN s : s[i] = x}
           J == {i \in DOMAIN t : t[i] = x}
<1>1. IsFiniteSet(I) /\ n + 1 \notin I
  BY <1>0
<1>2. CASE t[n + 1] = x
  <2>1. J = I \cup {n + 1}
    BY <1>2
  <2>2. Cardinality(J) = Cardinality(I) + 1
    BY <1>1, <2>1, FS_AddElement
  <2> QED BY <1>2, <2>2 DEF Occ
<1>3. CASE t[n + 1] # x
  <2>1. J = I
    BY <1>3
  <2>2. Occ(t, x) = Occ(s, x)
    BY <2>1 DEF Occ
  <2> QED BY <1>0, <1>3, <2>2
<1> QED BY <1>2, <1>3

\* A list that is longer by one element at its head.
LEMMA OccAtHead ==
  ASSUME NEW s, NEW t, NEW n \in Nat, DOMAIN s = 1..n, DOMAIN t = 1..(n + 1),
         \A i \in 1..n : t[i + 1] = s[i], NEW x
  PROVE  Occ(t, x) = Occ(s, x) + (IF t[1] = x THEN 1 ELSE 0)
<1>0. Occ(s, x) \in Nat /\ IsFiniteSet({i \in DOMAIN s : s[i] = x})
  BY OccFacts
<1> DEFINE I == {i \in DOMAIN s : s[i] = x}
           J == {i \in DOMAIN t : t[i] = x}
           K == {i \in 2..(n + 1) : t[i] = x}
           next == [i \in I |-> i + 1]
<1>1. IsFiniteSet(I)
  BY <1>0
<1>2. next \in Bijection(I, K)
  <2>1. ASSUME NEW i \in I PROVE i + 1 \in K
    OBVIOUS
  <2>2. ASSUME NEW k \in K PROVE k - 1 \in I /\ next[k - 1] = k
    <3>1. k - 1 \in 1..n /\ (k - 1) + 1 = k
      OBVIOUS
    <3>2. t[(k - 1) + 1] = s[k - 1]
      BY <3>1
    <3> QED BY <3>1, <3>2
  <2>3. \A i, j \in I : next[i] = next[j] => i = j
    OBVIOUS
  <2> HIDE DEF I, K
  <2>4. next \in [I -> K]
    BY <2>1
  <2> QED BY <2>2, <2>3, <2>4 DEF Bijection, Injection, Surjection, IsInjective
<1>3. IsFiniteSet(K) /\ Cardinality(K) = Cardinality(I)
  BY <1>1, <1>2, FS_Bijection DEF ExistsBijection
<1>4. CASE t[1] = x
  <2>1. J = K \cup {1} /\ 1 \notin K
    BY <1>4
  <2>2. Cardinality(J) = Cardinality(K) + 1
    BY <1>3, <2>1, FS_AddElement
  <2> QED BY <1>3, <1>4, <2>2 DEF Occ
<1>5. CASE t[1] # x
  <2>1. J = K
    BY <1>5
  <2>2. Occ(t, x) = Occ(s, x)
    BY <1>3, <2>1 DEF Occ
  <2> QED BY <1>0, <1>5, <2>2
<1> QED BY <1>4, <1>5

\* Who releases an object, counted in the lists of objects.
LEMMA OwnersCount ==
  ASSUME NEW o
  PROVE  Owners(o) = Total(o)
<1>1. {i \in DOMAIN DictObjs(dicts) : DictObjs(dicts)[i] = o}
        = {i \in DOMAIN dicts : dicts[i].dict = o}
  BY DEF DictObjs
<1>2. {i \in DOMAIN FrameObjs(loading) : FrameObjs(loading)[i] = o}
        = {i \in DOMAIN loading : loading[i].obj = o}
  BY DEF FrameObjs
<1> QED BY <1>1, <1>2 DEF Owners, Count, Occ, Total

One(x, o) == IF x = o THEN 1 ELSE 0

\* t is s with x at its end.
Extends(t, s, x) == t = Append(s, x)

\* A list of objects has what it had, and what was appended.
LEMMA ObjAppend ==
  ASSUME NEW S, NEW s \in Seq(S), NEW x \in S, NEW t, Extends(t, s, x)
  PROVE  /\ t \in Seq(S)
         /\ InSeq(t) = InSeq(s) \cup {x}
         /\ \A o : Occ(t, o) = Occ(s, o) + One(x, o)
<1>1. PICK n \in Nat : n = Len(s)
  OBVIOUS
<1>2. /\ t \in Seq(S) /\ DOMAIN s = 1..n /\ DOMAIN t = 1..(n + 1)
      /\ t[n + 1] = x /\ \A i \in 1..n : t[i] = s[i]
  BY <1>1 DEF Extends
<1>3. \A o : Occ(t, o) = Occ(s, o) + One(x, o)
  <2> TAKE o
  <2> QED BY <1>2, OccAtEnd DEF One
<1>4. InSeq(t) = InSeq(s) \cup {x}
  <2>1. 1..(n + 1) = 1..n \cup {n + 1}
    OBVIOUS
  <2> QED BY <1>2, <2>1 DEF InSeq
<1> QED BY <1>2, <1>3, <1>4

\* A list of objects, and what it has before its last is taken off.
LEMMA ObjList ==
  ASSUME NEW S, NEW s \in Seq(S)
  PROVE  /\ \A o : Occ(s, o) \in Nat /\ (Occ(s, o) = 0 <=> o \notin InSeq(s))
         /\ s # <<>> => /\ Front(s) \in Seq(S) /\ Last(s) \in S
                        /\ InSeq(s) = InSeq(Front(s)) \cup {Last(s)}
                        /\ \A o : Occ(s, o) = Occ(Front(s), o) + One(Last(s), o)
<1> DEFINE n == Len(s)
<1>1. n \in Nat /\ DOMAIN s = 1..n
  OBVIOUS
<1>2. ASSUME NEW o PROVE Occ(s, o) \in Nat /\ (Occ(s, o) = 0 <=> o \notin InSeq(s))
  <2> HIDE DEF n
  <2> QED BY <1>1, OccFacts
<1>3. ASSUME s # <<>>
      PROVE  /\ Front(s) \in Seq(S) /\ Last(s) \in S
             /\ InSeq(s) = InSeq(Front(s)) \cup {Last(s)}
             /\ \A o : Occ(s, o) = Occ(Front(s), o) + One(Last(s), o)
  <2>1. PICK t : t = Front(s)
    OBVIOUS
  <2>2. PICK m \in Nat : n = m + 1
    <3>1. n - 1 \in Nat /\ n = (n - 1) + 1
      BY <1>3
    <3> QED BY <3>1
  <2>3. t \in Seq(S) /\ DOMAIN t = 1..m /\ \A i \in 1..m : t[i] = s[i]
    BY <2>1, <2>2 DEF Front
  <2>4. Last(s) = s[m + 1] /\ Last(s) \in S
    BY <2>2 DEF Last
  <2>5. DOMAIN s = 1..(m + 1)
    BY <2>2
  <2>6. \A o : Occ(s, o) = Occ(t, o) + One(Last(s), o)
    <3> TAKE o
    <3>1. Occ(s, o) = Occ(t, o) + (IF s[m + 1] = o THEN 1 ELSE 0)
      BY <2>2, <2>3, <2>5, OccAtEnd
    <3> QED BY <2>4, <3>1 DEF One
  <2>7. InSeq(s) = InSeq(t) \cup {Last(s)}
    <3>1. 1..(m + 1) = 1..m \cup {m + 1}
      OBVIOUS
    <3> QED BY <2>3, <2>4, <2>5, <3>1 DEF InSeq
  <2> QED BY <2>1, <2>3, <2>4, <2>6, <2>7
<1> QED BY <1>2, <1>3

\* The list of a speller: what it has after add_dict, and before its head is deleted.
LEMMA DictList ==
  ASSUME NEW ds \in Seq(SpellerDict)
  PROVE  /\ DictObjs(ds) \in Seq(Obj) /\ DOMAIN DictObjs(ds) = DOMAIN ds
         /\ \A i \in DOMAIN ds : DictObjs(ds)[i] = ds[i].dict
         /\ \A d \in SpellerDict :
              /\ <<d>> \o ds \in Seq(SpellerDict)
              /\ InSeq(DictObjs(<<d>> \o ds)) = InSeq(DictObjs(ds)) \cup {d.dict}
              /\ \A o : Occ(DictObjs(<<d>> \o ds), o) = Occ(DictObjs(ds), o) + One(d.dict, o)
         /\ ds # <<>> =>
              /\ Tail(ds) \in Seq(SpellerDict) /\ Head(ds) \in SpellerDict
              /\ Head(ds).dict \in Obj
              /\ InSeq(DictObjs(ds)) = InSeq(DictObjs(Tail(ds))) \cup {Head(ds).dict}
              /\ \A o : Occ(DictObjs(ds), o) = Occ(DictObjs(Tail(ds)), o) + One(Head(ds).dict, o)
<1>0. \A d \in SpellerDict : d.dict \in Obj
  BY DEF SpellerDict
<1>1. ASSUME NEW es \in Seq(SpellerDict)
      PROVE  /\ DictObjs(es) \in Seq(Obj) /\ DOMAIN DictObjs(es) = 1..Len(es)
             /\ \A i \in 1..Len(es) : DictObjs(es)[i] = es[i].dict
  <2>1. DOMAIN es = 1..Len(es) /\ Len(es) \in Nat /\ \A i \in 1..Len(es) : es[i].dict \in Obj
    BY <1>0
  <2> QED BY <2>1 DEF DictObjs
<1>2. ASSUME NEW es \in Seq(SpellerDict), NEW fs \in Seq(SpellerDict), NEW d \in SpellerDict,
             Len(fs) = Len(es) + 1, fs[1] = d, \A i \in 1..Len(es) : fs[i + 1] = es[i]
      PROVE  /\ InSeq(DictObjs(fs)) = InSeq(DictObjs(es)) \cup {d.dict}
             /\ \A o : Occ(DictObjs(fs), o) = Occ(DictObjs(es), o) + One(d.dict, o)
  <2>0. PICK n \in Nat : n = Len(es)
    OBVIOUS
  <2>1. PICK s, t : n = Len(es) /\ s = DictObjs(es) /\ t = DictObjs(fs)
    BY <2>0
  <2>2. /\ DOMAIN s = 1..n /\ DOMAIN t = 1..(n + 1)
        /\ \A i \in 1..n : t[i + 1] = s[i]
        /\ t[1] = d.dict
    <3>1. Len(fs) = n + 1
      BY <1>2, <2>1
    <3>2. /\ DOMAIN s = 1..n /\ \A i \in 1..n : s[i] = es[i].dict
          /\ DOMAIN t = 1..(n + 1) /\ \A i \in 1..(n + 1) : t[i] = fs[i].dict
      BY <1>1, <2>1, <3>1
    <3>3. \A i \in 1..n : i + 1 \in 1..(n + 1) /\ fs[i + 1] = es[i]
      BY <1>2, <2>1
    <3>4. 1 \in 1..(n + 1)
      OBVIOUS
    <3> QED BY <1>2, <3>2, <3>3, <3>4
  <2>3. \A o : Occ(t, o) = Occ(s, o) + One(d.dict, o)
    <3> TAKE o
    <3>1. Occ(t, o) = Occ(s, o) + (IF t[1] = o THEN 1 ELSE 0)
      BY <2>2, OccAtHead
    <3> QED BY <2>2, <3>1 DEF One
  <2>4. InSeq(t) = InSeq(s) \cup {d.dict}
    <3>1. ASSUME NEW i \in 1..(n + 1) PROVE t[i] \in InSeq(s) \cup {d.dict}
      <4>1. CASE i = 1
        BY <2>2, <4>1
      <4>2. CASE i # 1
        <5>1. i - 1 \in 1..n /\ (i - 1) + 1 = i
          BY <4>2
        <5>2. t[(i - 1) + 1] = s[i - 1]
          BY <2>2, <5>1
        <5>3. s[i - 1] \in InSeq(s)
          BY <2>2, <5>1 DEF InSeq
        <5> QED BY <5>1, <5>2, <5>3
      <4> QED BY <4>1, <4>2
    <3>2. ASSUME NEW i \in 1..n PROVE s[i] \in InSeq(t)
      <4>1. i + 1 \in 1..(n + 1)
        OBVIOUS
      <4> QED BY <2>2, <4>1 DEF InSeq
    <3>3. d.dict \in InSeq(t)
      <4>1. 1 \in 1..(n + 1)
        OBVIOUS
      <4> QED BY <2>2, <4>1 DEF InSeq
    <3> QED BY <2>2, <3>1, <3>2, <3>3 DEF InSeq
  <2> QED BY <2>1, <2>3, <2>4
<1>3. ASSUME NEW d \in SpellerDict
      PROVE  /\ <<d>> \o ds \in Seq(SpellerDict)
             /\ InSeq(DictObjs(<<d>> \o ds)) = InSeq(DictObjs(ds)) \cup {d.dict}
             /\ \A o : Occ(DictObjs(<<d>> \o ds), o) = Occ(DictObjs(ds), o) + One(d.dict, o)
  <2>1. PICK fs : fs = <<d>> \o ds
    OBVIOUS
  <2>2. /\ fs \in Seq(SpellerDict) /\ Len(fs) = Len(ds) + 1
        /\ fs[1] = d /\ \A i \in 1..Len(ds) : fs[i + 1] = ds[i]
    BY <2>1
  <2> QED BY <1>2, <2>1, <2>2
<1>4. ASSUME ds # <<>>
      PROVE  /\ Tail(ds) \in Seq(SpellerDict) /\ Head(ds) \in SpellerDict
             /\ Head(ds).dict \in Obj
             /\ InSeq(DictObjs(ds)) = InSeq(DictObjs(Tail(ds))) \cup {Head(ds).dict}
             /\ \A o : Occ(DictObjs(ds), o) = Occ(DictObjs(Tail(ds)), o) + One(Head(ds).dict, o)
  <2>1. PICK es, d : es = Tail(ds) /\ d = Head(ds)
    OBVIOUS
  <2>2. /\ es \in Seq(SpellerDict) /\ Len(ds) = Len(es) + 1 /\ d \in SpellerDict
        /\ ds[1] = d /\ \A i \in 1..Len(es) : ds[i + 1] = es[i]
    BY <1>4, <2>1
  <2>3. d.dict \in Obj
    BY <1>0, <2>2
  <2>4. /\ InSeq(DictObjs(ds)) = InSeq(DictObjs(es)) \cup {d.dict}
        /\ \A o : Occ(DictObjs(ds), o) = Occ(DictObjs(es), o) + One(d.dict, o)
    BY <1>2, <2>2
  <2> QED BY <2>1, <2>2, <2>3, <2>4
<1> QED BY <1>1, <1>3, <1>4

LoadFrame == [obj : Obj, line : Nat]

\* The multi dictionaries being loaded, as a list of objects.
LEMMA FrameList ==
  ASSUME NEW fs \in Seq(LoadFrame)
  PROVE  /\ FrameObjs(fs) \in Seq(Obj) /\ DOMAIN FrameObjs(fs) = DOMAIN fs
         /\ \A i \in DOMAIN fs : FrameObjs(fs)[i] = fs[i].obj
         /\ \A f \in LoadFrame : /\ Append(fs, f) \in Seq(LoadFrame)
                                 /\ FrameObjs(Append(fs, f)) = Append(FrameObjs(fs), f.obj)
         /\ fs # <<>> => /\ Front(fs) \in Seq(LoadFrame) /\ Last(fs) \in LoadFrame
                         /\ Last(fs).obj \in Obj
                         /\ FrameObjs(fs) # <<>>
                         /\ FrameObjs(Front(fs)) = Front(FrameObjs(fs))
                         /\ Last(FrameObjs(fs)) = Last(fs).obj
<1>0. \A f \in LoadFrame : f.obj \in Obj
  BY DEF LoadFrame
<1>1. ASSUME NEW gs \in Seq(LoadFrame)
      PROVE  /\ FrameObjs(gs) \in Seq(Obj) /\ DOMAIN FrameObjs(gs) = 1..Len(gs)
             /\ Len(FrameObjs(gs)) = Len(gs)
             /\ \A i \in 1..Len(gs) : FrameObjs(gs)[i] = gs[i].obj
  <2>1. DOMAIN gs = 1..Len(gs) /\ Len(gs) \in Nat /\ \A i \in 1..Len(gs) : gs[i].obj \in Obj
    BY <1>0
  <2>2. /\ FrameObjs(gs) \in Seq(Obj) /\ DOMAIN FrameObjs(gs) = 1..Len(gs)
        /\ \A i \in 1..Len(gs) : FrameObjs(gs)[i] = gs[i].obj
    BY <2>1 DEF FrameObjs
  <2> QED BY <2>1, <2>2
<1>2. ASSUME NEW f \in LoadFrame
      PROVE  /\ Append(fs, f) \in Seq(LoadFrame)
             /\ FrameObjs(Append(fs, f)) = Append(FrameObjs(fs), f.obj)
  <2>1. PICK gs : gs = Append(fs, f)
    OBVIOUS
  <2>2. /\ gs \in Seq(LoadFrame) /\ Len(gs) = Len(fs) + 1 /\ Len(fs) \in Nat
        /\ gs[Len(fs) + 1] = f /\ \A i \in 1..Len(fs) : gs[i] = fs[i]
    BY <2>1
  <2>3. f.obj \in Obj
    BY <1>0
  <2>4. PICK s, t : s = FrameObjs(gs) /\ t = Append(FrameObjs(fs), f.obj)
    OBVIOUS
  <2>5. /\ t \in Seq(Obj) /\ Len(t) = Len(fs) + 1 /\ t[Len(fs) + 1] = f.obj
        /\ \A i \in 1..Len(fs) : t[i] = FrameObjs(fs)[i]
    BY <1>1, <2>3, <2>4
  <2>6. \A i \in 1..(Len(fs) + 1) : s[i] = t[i]
    <3> TAKE i \in 1..(Len(fs) + 1)
    <3>1. s[i] = gs[i].obj
      BY <1>1, <2>2, <2>4
    <3>2. i \in 1..Len(fs) \/ i = Len(fs) + 1
      BY <2>2
    <3> QED BY <1>1, <2>2, <2>5, <3>1, <3>2
  <2>7. s \in Seq(Obj) /\ Len(s) = Len(fs) + 1
    BY <1>1, <2>2, <2>4
  <2>8. s = t
    BY <2>5, <2>6, <2>7, SeqEqual
  <2> QED BY <2>1, <2>2, <2>4, <2>8
<1>3. ASSUME fs # <<>>
      PROVE  /\ Front(fs) \in Seq(LoadFrame) /\ Last(fs) \in LoadFrame
             /\ Last(fs).obj \in Obj
             /\ FrameObjs(fs) # <<>>
             /\ FrameObjs(Front(fs)) = Front(FrameObjs(fs))
             /\ Last(FrameObjs(fs)) = Last(fs).obj
  <2>1. PICK m \in Nat : Len(fs) = m + 1
    <3>1. Len(fs) - 1 \in Nat /\ Len(fs) = (Len(fs) - 1) + 1
      BY <1>3
    <3> QED BY <3>1
  <2>2. Last(fs) \in LoadFrame /\ Last(fs) = fs[m + 1]
    BY <2>1 DEF Last
  <2>3. PICK s : s = FrameObjs(fs)
    OBVIOUS
  <2>4. s \in Seq(Obj) /\ Len(s) = m + 1 /\ \A i \in 1..(m + 1) : s[i] = fs[i].obj
    BY <1>1, <2>1, <2>3
  <2>5. s # <<>> /\ Last(s) = Last(fs).obj
    <3>1. m + 1 \in 1..(m + 1) /\ m + 1 # 0
      OBVIOUS
    <3> QED BY <2>2, <2>4, <3>1 DEF Last
  <2>6. PICK gs, t : gs = Front(fs) /\ t = Front(s)
    OBVIOUS
  <2>7. gs \in Seq(LoadFrame) /\ Len(gs) = m /\ \A i \in 1..m : gs[i] = fs[i]
    BY <2>1, <2>6 DEF Front
  <2>8. t \in Seq(Obj) /\ Len(t) = m /\ \A i \in 1..m : t[i] = s[i]
    BY <2>4, <2>6 DEF Front
  <2>9. PICK r : r = FrameObjs(gs)
    OBVIOUS
  <2>10. r \in Seq(Obj) /\ Len(r) = m /\ \A i \in 1..m : r[i] = gs[i].obj
    BY <1>1, <2>7, <2>9
  <2>11. \A i \in 1..m : r[i] = t[i]
    <3> TAKE i \in 1..m
    <3>1. i \in 1..(m + 1)
      OBVIOUS
    <3> QED BY <2>4, <2>7, <2>8, <2>10, <3>1
  <2>12. r = t
    BY <2>8, <2>10, <2>11, SeqEqual
  <2>13. Last(fs).obj \in Obj
    BY <1>0, <2>2
  <2>14. FrameObjs(Front(fs)) = Front(FrameObjs(fs))
    BY <2>3, <2>6, <2>9, <2>12
  <2>15. FrameObjs(fs) # <<>> /\ Last(FrameObjs(fs)) = Last(fs).obj
    BY <2>3, <2>5
  <2>16. Front(fs) \in Seq(LoadFrame)
    BY <2>6, <2>7
  <2> QED BY <2>2, <2>13, <2>14, <2>15, <2>16
<1>4. /\ FrameObjs(fs) \in Seq(Obj) /\ DOMAIN FrameObjs(fs) = DOMAIN fs
      /\ \A i \in DOMAIN fs : FrameObjs(fs)[i] = fs[i].obj
  <2>1. DOMAIN fs = 1..Len(fs)
    OBVIOUS
  <2> QED BY <1>1, <2>1
<1> QED BY <1>2, <1>3, <1>4

-----------------------------------------------------------------------------
(* What a step does to the lists.                                           *)

Same == \A o : Total(o)' = Total(o)
Gains(x) == \A o : Total(o)' = Total(o) + One(x, o)
Loses(x) == \A o : Total(o) = Total(o)' + One(x, o)

\* The three lists, as lists of objects; who is in none of them is counted 0.
LEMMA Lists ==
  ASSUME TypeOK
  PROVE  /\ dicts \in Seq(SpellerDict) /\ loading \in Seq(LoadFrame) /\ toAdd \in Seq(Obj)
         /\ DictObjs(dicts) \in Seq(Obj) /\ FrameObjs(loading) \in Seq(Obj)
         /\ \A o : /\ Occ(DictObjs(dicts), o) \in Nat /\ Occ(toAdd, o) \in Nat
                   /\ Occ(FrameObjs(loading), o) \in Nat
                   /\ Total(o) \in Nat
                   /\ Total(o) = 0 <=> o \notin Held
         /\ Held \subseteq Obj
<1>1. dicts \in Seq(SpellerDict) /\ loading \in Seq(LoadFrame) /\ toAdd \in Seq(Obj)
  BY DEF TypeOK, LoadFrame
<1>2. DictObjs(dicts) \in Seq(Obj)
  BY <1>1, DictList
<1>3. FrameObjs(loading) \in Seq(Obj)
  BY <1>1, FrameList
<1>4. ASSUME NEW o
      PROVE  /\ Occ(DictObjs(dicts), o) \in Nat /\ Occ(toAdd, o) \in Nat
             /\ Occ(FrameObjs(loading), o) \in Nat
             /\ Total(o) \in Nat
             /\ Total(o) = 0 <=> o \notin Held
  <2>1. /\ Occ(DictObjs(dicts), o) \in Nat
        /\ Occ(DictObjs(dicts), o) = 0 <=> o \notin InSeq(DictObjs(dicts))
    BY <1>2, ObjList
  <2>2. Occ(toAdd, o) \in Nat /\ (Occ(toAdd, o) = 0 <=> o \notin InSeq(toAdd))
    BY <1>1, ObjList
  <2>3. /\ Occ(FrameObjs(loading), o) \in Nat
        /\ Occ(FrameObjs(loading), o) = 0 <=> o \notin InSeq(FrameObjs(loading))
    BY <1>3, ObjList
  <2>4. Total(o) \in Nat
        /\ (Total(o) = 0 <=> /\ Occ(DictObjs(dicts), o) = 0 /\ Occ(toAdd, o) = 0
                             /\ Occ(FrameObjs(loading), o) = 0)
    BY <2>1, <2>2, <2>3 DEF Total
  <2> QED BY <2>1, <2>2, <2>3, <2>4 DEF Held, Known
<1>5. Held \subseteq Obj
  <2>1. \A s \in Seq(Obj) : InSeq(s) \subseteq Obj
    BY DEF InSeq
  <2> QED BY <1>1, <1>2, <1>3, <2>1 DEF Held, Known
<1> QED BY <1>1, <1>2, <1>3, <1>4, <1>5

\* Nothing moves.
LEMMA ListsKept ==
  ASSUME UNCHANGED <<dicts, toAdd, loading>>
  PROVE  Same /\ Known' = Known /\ Held' = Held
BY DEF Same, Total, Known, Held

\* add_data_set puts a dictionary on to_add.
LEMMA ToAddGrows ==
  ASSUME TypeOK, NEW x \in Obj, toAdd' = Append(toAdd, x), UNCHANGED <<dicts, loading>>
  PROVE  /\ toAdd' \in Seq(Obj) /\ Gains(x)
         /\ Known' = Known \cup {x} /\ Held' = Held \cup {x}
<1>1. toAdd \in Seq(Obj)
  BY DEF TypeOK
<1>2. /\ toAdd' \in Seq(Obj) /\ InSeq(toAdd') = InSeq(toAdd) \cup {x}
      /\ \A o : Occ(toAdd', o) = Occ(toAdd, o) + One(x, o)
  <2>1. Extends(toAdd', toAdd, x)
    BY DEF Extends
  <2>2. PICK t : t = toAdd'
    OBVIOUS
  <2>3. /\ t \in Seq(Obj) /\ InSeq(t) = InSeq(toAdd) \cup {x}
        /\ \A o : Occ(t, o) = Occ(toAdd, o) + One(x, o)
    BY <1>1, <2>1, <2>2, ObjAppend
  <2> QED BY <2>2, <2>3
<1>3. Gains(x)
  <2> SUFFICES ASSUME NEW o PROVE Total(o)' = Total(o) + One(x, o)
    BY DEF Gains
  <2>1. /\ Occ(DictObjs(dicts), o) \in Nat /\ Occ(toAdd, o) \in Nat
        /\ Occ(FrameObjs(loading), o) \in Nat /\ One(x, o) \in Nat
    BY Lists DEF One
  <2> QED BY <1>2, <2>1 DEF Total
<1> QED BY <1>2, <1>3 DEF Known, Held

\* A multi dictionary begins to be loaded.
LEMMA LoadingGrows ==
  ASSUME TypeOK, NEW f \in LoadFrame, loading' = Append(loading, f), UNCHANGED <<dicts, toAdd>>
  PROVE  /\ loading' \in Seq(LoadFrame) /\ Gains(f.obj)
         /\ Known' = Known /\ Held' = Held \cup {f.obj}
<1>1. loading \in Seq(LoadFrame) /\ FrameObjs(loading) \in Seq(Obj) /\ f.obj \in Obj
  BY Lists DEF LoadFrame
<1>2. loading' \in Seq(LoadFrame) /\ FrameObjs(loading') = Append(FrameObjs(loading), f.obj)
  BY <1>1, FrameList
<1>3. /\ InSeq(FrameObjs(loading')) = InSeq(FrameObjs(loading)) \cup {f.obj}
      /\ \A o : Occ(FrameObjs(loading'), o) = Occ(FrameObjs(loading), o) + One(f.obj, o)
  <2>1. PICK s, x : s = FrameObjs(loading) /\ x = f.obj
    OBVIOUS
  <2>2. PICK t : t = FrameObjs(loading')
    OBVIOUS
  <2>3. Extends(t, s, x) /\ s \in Seq(Obj) /\ x \in Obj
    BY <1>1, <1>2, <2>1, <2>2 DEF Extends
  <2>4. InSeq(t) = InSeq(s) \cup {x} /\ \A o : Occ(t, o) = Occ(s, o) + One(x, o)
    BY <2>3, ObjAppend
  <2> QED BY <2>1, <2>2, <2>4
<1>4. Gains(f.obj)
  <2> SUFFICES ASSUME NEW o PROVE Total(o)' = Total(o) + One(f.obj, o)
    BY DEF Gains
  <2>1. /\ Occ(DictObjs(dicts), o) \in Nat /\ Occ(toAdd, o) \in Nat
        /\ Occ(FrameObjs(loading), o) \in Nat /\ One(f.obj, o) \in Nat
    BY Lists DEF One
  <2> QED BY <1>3, <2>1 DEF Total
<1> QED BY <1>2, <1>3, <1>4 DEF Known, Held

\* setup adds one of the speller's own dictionaries.
LEMMA DictsGrow ==
  ASSUME TypeOK, NEW d \in SpellerDict, dicts' = <<d>> \o dicts, UNCHANGED <<loading, toAdd>>
  PROVE  /\ dicts' \in Seq(SpellerDict) /\ Gains(d.dict)
         /\ Known' = Known \cup {d.dict} /\ Held' = Held \cup {d.dict}
<1>1. dicts \in Seq(SpellerDict)
  BY DEF TypeOK
<1>2. /\ dicts' \in Seq(SpellerDict)
      /\ InSeq(DictObjs(dicts')) = InSeq(DictObjs(dicts)) \cup {d.dict}
      /\ \A o : Occ(DictObjs(dicts'), o) = Occ(DictObjs(dicts), o) + One(d.dict, o)
  BY <1>1, DictList
<1>3. Gains(d.dict)
  <2> SUFFICES ASSUME NEW o PROVE Total(o)' = Total(o) + One(d.dict, o)
    BY DEF Gains
  <2>1. /\ Occ(DictObjs(dicts), o) \in Nat /\ Occ(toAdd, o) \in Nat
        /\ Occ(FrameObjs(loading), o) \in Nat /\ One(d.dict, o) \in Nat
    BY Lists DEF One
  <2>2. Occ(DictObjs(dicts'), o) = Occ(DictObjs(dicts), o) + One(d.dict, o)
    BY <1>2
  <2>3. /\ Total(o) = Occ(DictObjs(dicts), o) + Occ(toAdd, o) + Occ(FrameObjs(loading), o)
        /\ Total(o)' = Occ(DictObjs(dicts'), o) + Occ(toAdd, o) + Occ(FrameObjs(loading), o)
    BY DEF Total
  <2> HIDE DEF Total
  <2> QED BY <2>1, <2>2, <2>3
<1> QED BY <1>2, <1>3 DEF Known, Held

\* The last of to_add is taken off.
LEMMA ToAddShrinks ==
  ASSUME TypeOK, toAdd # <<>>, toAdd' = Front(toAdd), UNCHANGED <<dicts, loading>>
  PROVE  /\ toAdd' \in Seq(Obj) /\ Last(toAdd) \in Obj /\ Loses(Last(toAdd))
         /\ Known = Known' \cup {Last(toAdd)} /\ Held = Held' \cup {Last(toAdd)}
<1>1. toAdd \in Seq(Obj)
  BY DEF TypeOK
<1>2. /\ toAdd' \in Seq(Obj) /\ Last(toAdd) \in Obj
      /\ InSeq(toAdd) = InSeq(toAdd') \cup {Last(toAdd)}
      /\ \A o : Occ(toAdd, o) = Occ(toAdd', o) + One(Last(toAdd), o)
  BY <1>1, ObjList
<1>3. \A o : Occ(toAdd', o) \in Nat
  BY <1>2, ObjList
<1>4. Loses(Last(toAdd))
  <2> SUFFICES ASSUME NEW o PROVE Total(o) = Total(o)' + One(Last(toAdd), o)
    BY DEF Loses
  <2>1. /\ Occ(DictObjs(dicts), o) \in Nat /\ Occ(toAdd', o) \in Nat
        /\ Occ(FrameObjs(loading), o) \in Nat /\ One(Last(toAdd), o) \in Nat
    BY <1>3, Lists DEF One
  <2> QED BY <1>2, <2>1 DEF Total
<1> QED BY <1>2, <1>4 DEF Known, Held

\* The innermost load ends.
LEMMA LoadingShrinks ==
  ASSUME TypeOK, loading # <<>>, loading' = Front(loading), UNCHANGED <<dicts, toAdd>>
  PROVE  /\ loading' \in Seq(LoadFrame) /\ Last(loading).obj \in Obj
         /\ Loses(Last(loading).obj)
         /\ Known' = Known /\ Held = Held' \cup {Last(loading).obj}
<1> DEFINE x == Last(loading).obj
<1>1. loading \in Seq(LoadFrame) /\ FrameObjs(loading) \in Seq(Obj)
  BY Lists
<1>2. /\ loading' \in Seq(LoadFrame) /\ x \in Obj /\ FrameObjs(loading) # <<>>
      /\ FrameObjs(loading') = Front(FrameObjs(loading)) /\ Last(FrameObjs(loading)) = x
  BY <1>1, FrameList
<1> HIDE DEF x
<1>3. /\ FrameObjs(loading') \in Seq(Obj)
      /\ InSeq(FrameObjs(loading)) = InSeq(FrameObjs(loading')) \cup {x}
      /\ \A o : Occ(FrameObjs(loading), o) = Occ(FrameObjs(loading'), o) + One(x, o)
  BY <1>1, <1>2, ObjList
<1>4. \A o : Occ(FrameObjs(loading'), o) \in Nat
  BY <1>3, ObjList
<1>5. Loses(x)
  <2> SUFFICES ASSUME NEW o PROVE Total(o) = Total(o)' + One(x, o)
    BY DEF Loses, x
  <2>1. /\ Occ(DictObjs(dicts), o) \in Nat /\ Occ(toAdd, o) \in Nat
        /\ Occ(FrameObjs(loading'), o) \in Nat /\ One(x, o) \in Nat
    BY <1>4, Lists DEF One
  <2> QED BY <1>3, <2>1 DEF Total
<1> QED BY <1>2, <1>3, <1>5 DEF Known, Held, x

\* The head of the speller's list is deleted.
LEMMA DictsShrink ==
  ASSUME TypeOK, dicts # <<>>, dicts' = Tail(dicts), UNCHANGED <<toAdd, loading>>
  PROVE  /\ dicts' \in Seq(SpellerDict) /\ Head(dicts).dict \in Obj
         /\ Loses(Head(dicts).dict)
         /\ Known = Known' \cup {Head(dicts).dict} /\ Held = Held' \cup {Head(dicts).dict}
<1>1. dicts \in Seq(SpellerDict)
  BY Lists
<1>2. /\ dicts' \in Seq(SpellerDict) /\ Head(dicts).dict \in Obj
      /\ InSeq(DictObjs(dicts)) = InSeq(DictObjs(dicts')) \cup {Head(dicts).dict}
      /\ \A o : Occ(DictObjs(dicts), o) = Occ(DictObjs(dicts'), o) + One(Head(dicts).dict, o)
  BY <1>1, DictList
<1>3. \A o : Occ(DictObjs(dicts'), o) \in Nat
  <2>1. DictObjs(dicts') \in Seq(Obj)
    BY <1>2, DictList
  <2> QED BY <2>1, ObjList
<1>4. Loses(Head(dicts).dict)
  <2> SUFFICES ASSUME NEW o PROVE Total(o) = Total(o)' + One(Head(dicts).dict, o)
    BY DEF Loses
  <2>1. /\ Occ(DictObjs(dicts'), o) \in Nat /\ Occ(toAdd, o) \in Nat
        /\ Occ(FrameObjs(loading), o) \in Nat /\ One(Head(dicts).dict, o) \in Nat
    BY <1>3, Lists DEF One
  <2> QED BY <1>2, <2>1 DEF Total
<1> QED BY <1>2, <1>4 DEF Known, Held

-----------------------------------------------------------------------------
(* What a step does to the objects.                                         *)

HeapTypeOK ==
  /\ langs \in [Obj -> Langs]
  /\ source \in [Obj -> File \cup Special \cup {None}]
  /\ refs \in [Obj -> Nat] /\ lost \in [Obj -> Nat]
  /\ parts \in [Obj -> Seq(Obj)]
  /\ cached \in SUBSET Obj

\* The lists pass an object on, and nothing is counted.
LEMMA CountKept ==
  ASSUME CountInv, UNCHANGED <<source, refs, lost>>, Same
  PROVE  CountInv'
BY DEF CountInv, Same, Live

\* The address of a new object is one of the free ones.
LEMMA FreshIsFree ==
  ASSUME TypeOK, Live # Obj
  PROVE  Fresh \in Obj /\ source[Fresh] = None
<1>1. \E o \in Obj : source[o] = None
  BY DEF Live
<1> QED BY <1>1 DEF Fresh

\* No list and no cache knows a free address, and nothing was lost there.
LEMMA FreeIsUnknown ==
  ASSUME TypeOK, FilesInv, CountInv, NEW x \in Obj, source[x] = None
  PROVE  /\ Total(x) = 0 /\ lost[x] = 0 /\ x \notin Held /\ x \notin cached
         /\ \A i \in DOMAIN loading : loading[i].obj # x
<1>1. Total(x) \in Nat /\ lost[x] \in Nat /\ (Total(x) = 0 <=> x \notin Held)
  BY Lists DEF TypeOK
<1>2. Total(x) + lost[x] = 0
  BY DEF CountInv, Live
<1>3. Total(x) = 0 /\ lost[x] = 0
  BY <1>1, <1>2
<1>4. None \notin File
  BY BoundAssumption
<1> QED BY <1>1, <1>3, <1>4 DEF FilesInv

\* What new does, to the object and to the others.
LEMMA NewObject ==
  ASSUME TypeOK, NEW x \in Obj, NEW what \in File \cup Special, NEW l \in Langs, New(x, what, l)
  PROVE  /\ langs' \in [Obj -> Langs]
         /\ source' \in [Obj -> File \cup Special \cup {None}]
         /\ refs' \in [Obj -> Nat] /\ parts' \in [Obj -> Seq(Obj)]
         /\ source'[x] = what /\ refs'[x] = 1 /\ parts'[x] = <<>>
         /\ \A o \in Obj \ {x} : /\ source'[o] = source[o] /\ refs'[o] = refs[o]
                                 /\ parts'[o] = parts[o]
<1>1. /\ langs' = [langs EXCEPT ![x] = l] /\ source' = [source EXCEPT ![x] = what]
      /\ refs' = [refs EXCEPT ![x] = 1] /\ parts' = [parts EXCEPT ![x] = <<>>]
  BY DEF New
<1>2. langs' \in [Obj -> Langs] /\ source' \in [Obj -> File \cup Special \cup {None}]
  BY <1>1 DEF TypeOK
<1>3. refs' \in [Obj -> Nat]
  BY <1>1 DEF TypeOK
<1>4. parts' \in [Obj -> Seq(Obj)]
  <2>1. <<>> \in Seq(Obj)
    OBVIOUS
  <2> QED BY <1>1, <2>1 DEF TypeOK
<1> QED BY <1>1, <1>2, <1>3, <1>4 DEF TypeOK

\* A new object has one reference, that of the list it goes to.
LEMMA CountNew ==
  ASSUME TypeOK, FilesInv, CountInv, NEW x \in Obj, source[x] = None,
         NEW what \in File \cup Special, NEW l \in Langs, New(x, what, l),
         lost' = lost, Gains(x)
  PROVE  CountInv'
<1> SUFFICES ASSUME NEW o \in Obj
             PROVE  IF source'[o] # None THEN refs'[o] = Total(o)' + lost'[o]
                    ELSE Total(o)' + lost'[o] = 0
  BY DEF CountInv, Live
<1>1. Total(o)' = Total(o) + One(x, o)
  BY DEF Gains
<1>2. Total(o) \in Nat /\ lost[o] \in Nat
  BY Lists DEF TypeOK
<1>3. CASE o = x
  <2>1. Total(o) = 0 /\ lost[o] = 0
    BY <1>3, FreeIsUnknown
  <2>2. source'[o] = what /\ refs'[o] = 1 /\ what # None
    BY <1>3, NewObject, BoundAssumption
  <2> QED BY <1>1, <1>3, <2>1, <2>2 DEF One
<1>4. CASE o # x
  <2>1. source'[o] = source[o] /\ refs'[o] = refs[o]
    BY <1>4, NewObject
  <2>2. Total(o)' = Total(o)
    BY <1>1, <1>2, <1>4 DEF One
  <2> QED BY <2>1, <2>2 DEF CountInv, Live
<1> QED BY <1>3, <1>4

\* What release does, to the object and to the others.
LEMMA ReleasedObject ==
  ASSUME TypeOK, FilesInv, CountInv, NEW x \in Held, ReleaseObj(x)
  PROVE  /\ HeapTypeOK' /\ x \in Obj /\ source[x] # None
         /\ refs[x] # 0 /\ refs'[x] = refs[x] - 1
         /\ cached' \subseteq cached
         /\ source'[x] = IF refs[x] = 1 THEN None ELSE source[x]
         /\ refs[x] = 1 => x \notin cached'
         /\ \A o \in Obj \ {x} : refs'[o] = refs[o] /\ source'[o] = source[o] /\ parts'[o] = parts[o]
         /\ refs[x] # 1 => parts'[x] = parts[x]
<1>1. x \in Obj
  BY Lists
<1>2. Total(x) \in Nat /\ Total(x) # 0 /\ lost[x] \in Nat /\ refs[x] \in Nat
  BY <1>1, Lists DEF TypeOK
<1>3. source[x] # None /\ refs[x] = Total(x) + lost[x]
  BY <1>1, <1>2 DEF CountInv, Live
<1>4. refs[x] # 0 /\ refs[x] - 1 \in Nat
  BY <1>2, <1>3
<1>5. refs' = [refs EXCEPT ![x] = @ - 1] /\ lost' = lost
  BY DEF ReleaseObj
<1>6. refs' \in [Obj -> Nat] /\ lost' \in [Obj -> Nat]
  BY <1>1, <1>4, <1>5 DEF TypeOK
<1>7. refs'[x] = refs[x] - 1 /\ \A o \in Obj \ {x} : refs'[o] = refs[o]
  BY <1>1, <1>5 DEF TypeOK
<1>8. CASE refs[x] = 1
  <2>1. /\ source' = [source EXCEPT ![x] = None] /\ langs' = [langs EXCEPT ![x] = None]
        /\ parts' = [parts EXCEPT ![x] = <<>>] /\ cached' = cached \ {x}
    BY <1>8 DEF ReleaseObj
  <2>2. langs' \in [Obj -> Langs] /\ source' \in [Obj -> File \cup Special \cup {None}]
        /\ cached' \in SUBSET Obj
    <3>1. None \in Langs
      BY DEF Langs
    <3> QED BY <2>1, <3>1 DEF TypeOK
  <2>3. parts' \in [Obj -> Seq(Obj)]
    <3>1. <<>> \in Seq(Obj)
      OBVIOUS
    <3> QED BY <2>1, <3>1 DEF TypeOK
  <2>4. source'[x] = None /\ \A o \in Obj \ {x} : source'[o] = source[o] /\ parts'[o] = parts[o]
    BY <1>1, <2>1 DEF TypeOK
  <2> QED BY <1>1, <1>3, <1>4, <1>6, <1>7, <1>8, <2>1, <2>2, <2>3, <2>4 DEF HeapTypeOK
<1>9. CASE refs[x] # 1
  <2>1. UNCHANGED <<source, langs, parts, cached>>
    BY <1>9 DEF ReleaseObj
  <2>2. HeapTypeOK'
    BY <1>6, <2>1 DEF TypeOK, HeapTypeOK
  <2> QED BY <1>1, <1>3, <1>4, <1>7, <1>9, <2>1, <2>2
<1> QED BY <1>8, <1>9

\* A list gives up an object and its reference; the last one frees it.
LEMMA CountReleased ==
  ASSUME TypeOK, FilesInv, CountInv, NEW x \in Held, ReleaseObj(x), Loses(x),
         \A o : Total(o)' \in Nat
  PROVE  CountInv'
<1>0. x \in Obj /\ lost' = lost
  BY Lists DEF ReleaseObj
<1> SUFFICES ASSUME NEW o \in Obj
             PROVE  IF source'[o] # None THEN refs'[o] = Total(o)' + lost'[o]
                    ELSE Total(o)' + lost'[o] = 0
  BY DEF CountInv, Live
<1>1. Total(o) = Total(o)' + One(x, o) /\ Total(o)' \in Nat
  BY DEF Loses
<1>2. lost[o] \in Nat /\ refs[o] \in Nat
  BY DEF TypeOK
<1>3. CASE o = x
  <2>1. source[x] # None /\ refs'[x] = refs[x] - 1
        /\ source'[x] = IF refs[x] = 1 THEN None ELSE source[x]
    BY ReleasedObject
  <2>2. refs[x] = Total(x) + lost[x]
    BY <1>0, <2>1 DEF CountInv, Live
  <2>3. Total(x) = Total(x)' + 1
    BY <1>1, <1>3 DEF One
  <2> HIDE DEF Total
  <2> QED BY <1>0, <1>1, <1>2, <1>3, <2>1, <2>2, <2>3
<1>4. CASE o # x
  <2>1. source'[o] = source[o] /\ refs'[o] = refs[o]
    BY <1>4, ReleasedObject
  <2>2. Total(o)' = Total(o)
    BY <1>1, <1>4 DEF One
  <2> QED BY <1>0, <2>1, <2>2 DEF CountInv, Live
<1> QED BY <1>3, <1>4

\* Neither the lists nor the objects change.
LEMMA Quiet ==
  ASSUME TypeOK, FilesInv, CountInv, UNCHANGED <<dicts, toAdd, loading, heapVars>>
  PROVE  /\ FilesInv' /\ CountInv' /\ Known' = Known /\ Held' = Held /\ parts' = parts
         /\ HeapTypeOK'
<1>1. /\ UNCHANGED <<dicts, toAdd, loading>>
      /\ UNCHANGED <<source, langs, refs, lost, parts, cached>>
  BY DEF heapVars
<1>2. Same /\ Known' = Known /\ Held' = Held
  BY <1>1, ListsKept
<1>3. CountInv'
  BY <1>1, <1>2, CountKept
<1>4. FilesInv'
  BY <1>1 DEF FilesInv
<1>5. HeapTypeOK'
  BY <1>1 DEF HeapTypeOK, TypeOK
<1> QED BY <1>1, <1>2, <1>3, <1>4, <1>5

\* The list of the speller and the configuration stay, and nothing is being saved.
LEMMA SavedKept ==
  ASSUME SavedInv, UNCHANGED <<dicts, opt>>, phase' # "save"
  PROVE  SavedInv'
BY DEF SavedInv

\* A new dictionary is put on the list of the speller.
LEMMA SavedEnlisted ==
  ASSUME TypeOK, SavedInv, NEW d \in SpellerDict, dicts' = <<d>> \o dicts, opt' = opt,
         phase' # "save",
         d.special = "personal" => d.save_on_saveall,
         d.special = "repl" => d.save_on_saveall = opt.save_repl
  PROVE  SavedInv'
<1>1. dicts \in Seq(SpellerDict)
  BY DEF TypeOK
<1> SUFFICES ASSUME NEW i \in DOMAIN dicts'
             PROVE  /\ dicts'[i].special = "personal" => dicts'[i].save_on_saveall
                    /\ dicts'[i].special = "repl" => dicts'[i].save_on_saveall = opt.save_repl
  BY DEF SavedInv
<1>2. DOMAIN dicts = 1..Len(dicts) /\ Len(dicts) \in Nat /\ DOMAIN dicts' = 1..(Len(dicts) + 1)
  BY <1>1
<1>3. CASE i = 1
  <2>1. dicts'[i] = d
    BY <1>1, <1>3
  <2> QED BY <2>1
<1>4. CASE i # 1
  <2>1. i - 1 \in DOMAIN dicts /\ dicts'[i] = dicts[i - 1]
    BY <1>1, <1>2, <1>4
  <2> QED BY <2>1 DEF SavedInv
<1> QED BY <1>3, <1>4

\* An error: setup turns to giving back what it has taken.
LEMMA FailStep ==
  ASSUME Inv, Fail, UNCHANGED heapVars
  PROVE  Inv'
<1> USE DEF Inv, Fail
<1>1. FilesInv' /\ CountInv' /\ HeapTypeOK'
  BY Quiet
<1>2. TypeOK'
  BY <1>1 DEF TypeOK, HeapTypeOK, saveVars
<1>3. ShapeInv'
  BY DEF ShapeInv
<1>4. PartsInv'
  BY DEF PartsInv, Busy
<1>5. SavedInv'
  BY SavedKept
<1> QED BY <1>1, <1>2, <1>3, <1>4, <1>5

\* A file cannot be read: set-up fails, and what is under construction is unwound.
LEMMA LoadFailsStep ==
  ASSUME Inv, LoadFails
  PROVE  Inv'
BY FailStep DEF LoadFails

\* The speller has the file: the result is one of its dictionaries.
LEMMA LoadLocatedStep ==
  ASSUME Inv, LoadLocated
  PROVE  Inv'
<1> USE DEF Inv
<1>1. PICK i \in LocateFile(want) : Result(dicts[i].dict)
  BY DEF LoadLocated
<1>2. phase' = "got" /\ got' = dicts[i].dict /\ want' = None /\ opt' = opt /\ phase = "load"
  BY <1>1 DEF Result, LoadLocated
<1>3. FilesInv' /\ CountInv' /\ HeapTypeOK' /\ Known' = Known /\ Held' = Held /\ parts' = parts
  BY Quiet DEF LoadLocated
<1>4. dicts[i].dict \in Known /\ dicts[i].dict \in Obj
  <2>1. i \in DOMAIN dicts
    BY DEF LocateFile
  <2>2. /\ i \in DOMAIN DictObjs(dicts) /\ DictObjs(dicts)[i] = dicts[i].dict
        /\ DictObjs(dicts) \in Seq(Obj)
    BY <2>1, Lists, DictList
  <2>3. dicts[i].dict \in InSeq(DictObjs(dicts))
    BY <2>2 DEF InSeq
  <2>4. dicts[i].dict \in Held
    BY <2>3 DEF Held, Known
  <2> QED BY <2>3, <2>4, Lists DEF Known
<1>5. TypeOK'
  BY <1>2, <1>3, <1>4 DEF TypeOK, HeapTypeOK, LoadLocated, saveVars
<1>6. ShapeInv'
  BY <1>2, <1>3, <1>4 DEF ShapeInv
<1>7. PartsInv'
  BY <1>2, <1>3 DEF PartsInv, Busy
<1>8. SavedInv'
  BY <1>2, SavedKept DEF LoadLocated
<1> QED BY <1>3, <1>5, <1>6, <1>7, <1>8

\* A dictionary from the cache goes on to_add with a reference of its own.
LEMMA LoadCachedStep ==
  ASSUME Inv, LoadCached
  PROVE  Inv'
<1> USE DEF Inv
<1>1. PICK x \in CachedFor(want) : /\ refs' = [refs EXCEPT ![x] = @ + 1]
                                   /\ toAdd' = Append(toAdd, x)
                                   /\ Result(x)
  BY DEF LoadCached
<1>2. /\ phase' = "got" /\ got' = x /\ want' = None /\ opt' = opt /\ phase = "load"
      /\ UNCHANGED <<loading, extras, dicts, lang, source, langs, lost, parts, cached,
                     saveAt, synced, spellers>>
  BY <1>1 DEF Result, LoadCached, saveVars
<1>3. x \in Obj /\ source[x] # None /\ parts[x] = <<>>
  BY BoundAssumption DEF CachedFor, FilesInv, TypeOK
<1>4. toAdd' \in Seq(Obj) /\ Gains(x) /\ Known' = Known \cup {x} /\ Held' = Held \cup {x}
  BY <1>1, <1>2, <1>3, ToAddGrows
<1>5. refs' \in [Obj -> Nat] /\ refs'[x] = refs[x] + 1 /\ \A o \in Obj \ {x} : refs'[o] = refs[o]
  <2>1. refs \in [Obj -> Nat] /\ refs[x] \in Nat /\ refs[x] + 1 \in Nat
    BY <1>3 DEF TypeOK
  <2>2. refs' = [refs EXCEPT ![x] = refs[x] + 1]
    BY <1>1
  <2> QED BY <1>3, <2>1, <2>2
<1>6. CountInv'
  <2> SUFFICES ASSUME NEW o \in Obj
               PROVE  IF source'[o] # None THEN refs'[o] = Total(o)' + lost'[o]
                      ELSE Total(o)' + lost'[o] = 0
    BY DEF CountInv, Live
  <2>1. Total(o)' = Total(o) + One(x, o) /\ Total(o) \in Nat /\ lost[o] \in Nat
    BY <1>4, Lists DEF Gains, TypeOK
  <2>2. IF source[o] # None THEN refs[o] = Total(o) + lost[o] ELSE Total(o) + lost[o] = 0
    BY DEF CountInv, Live
  <2>3. CASE o = x
    <3>1. Total(o)' = Total(o) + 1 /\ refs'[o] = refs[o] + 1
      BY <1>5, <2>1, <2>3 DEF One
    <3> HIDE DEF Total
    <3> QED BY <1>2, <1>3, <2>1, <2>2, <2>3, <3>1
  <2>4. CASE o # x
    <3>1. Total(o)' = Total(o) /\ refs'[o] = refs[o]
      BY <1>5, <2>1, <2>4 DEF One
    <3> QED BY <1>2, <2>2, <3>1
  <2> QED BY <2>3, <2>4
<1>7. TypeOK'
  BY <1>2, <1>3, <1>4, <1>5 DEF TypeOK
<1>8. ShapeInv'
  BY <1>2, <1>4 DEF ShapeInv
<1>9. FilesInv'
  BY <1>2 DEF FilesInv
<1>10. PartsInv'
  <2>1. InSeq(parts[x]) = {}
    BY <1>3 DEF InSeq
  <2> QED BY <1>2, <1>4, <2>1 DEF PartsInv, Busy
<1>11. SavedInv'
  BY <1>2, SavedKept
<1> QED BY <1>6, <1>7, <1>8, <1>9, <1>10, <1>11

\* A new object that has no parts leaves what the others point to known.
LEMMA PartsNew ==
  ASSUME PartsInv, Busy, NEW x \in Obj, Held \subseteq Obj, x \notin Held, parts'[x] = <<>>,
         \A o \in Obj \ {x} : parts'[o] = parts[o],
         Held' \subseteq Held \cup {x}, Known \subseteq Known'
  PROVE  PartsInv'
<1> SUFFICES ASSUME NEW o \in Held' PROVE InSeq(parts'[o]) \subseteq Known'
  BY DEF PartsInv
<1>1. CASE o = x
  <2>1. InSeq(parts'[x]) = {}
    BY DEF InSeq
  <2> QED BY <1>1, <2>1
<1>2. CASE o # x
  <2>1. o \in Held /\ parts'[o] = parts[o]
    BY <1>2
  <2> QED BY <2>1 DEF PartsInv
<1> QED BY <1>1, <1>2

\* What FilesInv says of the loads and the cache stays true beside a new object.
LEMMA FilesNew ==
  ASSUME TypeOK, FilesInv, CountInv, NEW x \in Obj, source[x] = None,
         NEW what \in File \cup Special, NEW l \in Langs, New(x, what, l)
  PROVE  /\ \A i \in DOMAIN loading : /\ loading[i].line \in Nat \ {0}
                                      /\ source'[loading[i].obj] \in File
                                      /\ TypeOf[source'[loading[i].obj]] = "multi"
         /\ \A o \in cached : /\ source'[o] \in File
                              /\ TypeOf[source'[o]] = "readonly"
                              /\ parts'[o] = <<>>
<1>1. \A i \in DOMAIN loading : loading[i].obj \in Obj
  <2>1. loading \in Seq(LoadFrame) /\ \A f \in LoadFrame : f.obj \in Obj
    BY Lists DEF LoadFrame
  <2> HIDE DEF LoadFrame
  <2> QED BY <2>1
<1>2. \A i \in DOMAIN loading : source'[loading[i].obj] = source[loading[i].obj]
  BY <1>1, FreeIsUnknown, NewObject
<1>3. \A o \in cached : o \in Obj /\ o # x
  BY FreeIsUnknown DEF TypeOK
<1>4. \A o \in cached : source'[o] = source[o] /\ parts'[o] = parts[o]
  BY <1>3, NewObject
<1> QED BY <1>2, <1>4 DEF FilesInv

\* A dictionary that has to be read is a new object on to_add.
LEMMA LoadNewStep ==
  ASSUME Inv, LoadNew
  PROVE  Inv'
<1> USE DEF Inv
<1>0. PICK x : x = Fresh
  OBVIOUS
<1>1. /\ phase = "load" /\ want \in File /\ TypeOf[want] # "multi" /\ Live # Obj
      /\ New(x, want, LangOf[want])
      /\ cached' = IF TypeOf[want] = "readonly" THEN cached \cup {x} ELSE cached
      /\ toAdd' = Append(toAdd, x)
      /\ phase' = "got" /\ got' = x /\ want' = None /\ opt' = opt
      /\ UNCHANGED <<loading, extras, dicts, lang, lost, saveAt, synced, spellers>>
  BY <1>0 DEF LoadNew, Result, New, ShapeInv, saveVars
<1>2. x \in Obj /\ source[x] = None
  BY <1>0, <1>1, FreshIsFree
<1>3. PICK what \in File \cup Special, l \in Langs : what = want /\ l = LangOf[want]
  BY <1>1 DEF Langs
<1>4. New(x, what, l)
  BY <1>1, <1>3
<1>5. toAdd' \in Seq(Obj) /\ Gains(x) /\ Known' = Known \cup {x} /\ Held' = Held \cup {x}
  BY <1>1, <1>2, ToAddGrows
<1>6. /\ langs' \in [Obj -> Langs]
      /\ source' \in [Obj -> File \cup Special \cup {None}]
      /\ refs' \in [Obj -> Nat] /\ parts' \in [Obj -> Seq(Obj)]
      /\ source'[x] = want /\ parts'[x] = <<>>
      /\ \A o \in Obj \ {x} : parts'[o] = parts[o]
  BY <1>2, <1>3, <1>4, NewObject
<1>7. CountInv'
  BY <1>1, <1>2, <1>4, <1>5, CountNew
<1>8. TypeOK'
  <2>1. cached' \in SUBSET Obj
    BY <1>1, <1>2 DEF TypeOK
  <2> QED BY <1>1, <1>2, <1>5, <1>6, <2>1 DEF TypeOK
<1>9. ShapeInv'
  BY <1>1, <1>5 DEF ShapeInv
<1>10. FilesInv'
  BY <1>1, <1>2, <1>4, <1>6, FilesNew DEF FilesInv
<1>11. PartsInv'
  <2>1. x \notin Held /\ Held \subseteq Obj
    BY <1>2, FreeIsUnknown, Lists
  <2> QED BY <1>1, <1>2, <1>5, <1>6, <2>1, PartsNew DEF Busy
<1>12. SavedInv'
  BY <1>1, SavedKept
<1> QED BY <1>7, <1>8, <1>9, <1>10, <1>11, <1>12

\* A multi dictionary begins to be loaded, as a new object.
LEMMA LoadMultiStep ==
  ASSUME Inv, LoadMulti
  PROVE  Inv'
<1> USE DEF Inv
<1>0. PICK x : x = Fresh
  OBVIOUS
<1> DEFINE f == [obj |-> x, line |-> 1]
<1>1. /\ phase = "load" /\ want \in File /\ TypeOf[want] = "multi" /\ Live # Obj
      /\ New(x, want, None)
      /\ loading' = Append(loading, f)
      /\ phase' = "lines" /\ want' = None
      /\ UNCHANGED <<opt, got, extras, toAdd, dicts, lang, lost, cached, saveAt, synced, spellers>>
  BY <1>0 DEF LoadMulti, New, ShapeInv, saveVars
<1>2. x \in Obj /\ source[x] = None
  BY <1>0, <1>1, FreshIsFree
<1>3. PICK what \in File \cup Special, l \in Langs : what = want /\ l = None
  BY <1>1 DEF Langs
<1>4. New(x, what, l)
  BY <1>1, <1>3
<1>f. f \in LoadFrame /\ f.obj = x /\ f.line = 1
  BY <1>2 DEF LoadFrame
<1> HIDE DEF f
<1>5. loading' \in Seq(LoadFrame) /\ Gains(x) /\ Known' = Known /\ Held' = Held \cup {x}
  BY <1>1, <1>f, LoadingGrows
<1>6. /\ langs' \in [Obj -> Langs]
      /\ source' \in [Obj -> File \cup Special \cup {None}]
      /\ refs' \in [Obj -> Nat] /\ parts' \in [Obj -> Seq(Obj)]
      /\ source'[x] = want /\ parts'[x] = <<>>
      /\ \A o \in Obj \ {x} : parts'[o] = parts[o]
  BY <1>2, <1>3, <1>4, NewObject
<1>7. CountInv'
  BY <1>1, <1>2, <1>4, <1>5, CountNew
<1>8. TypeOK'
  BY <1>1, <1>5, <1>6 DEF TypeOK, LoadFrame
<1>9. loading \in Seq(LoadFrame)
  BY Lists
<1>10. ShapeInv'
  <2>1. loading' # <<>>
    BY <1>1, <1>9, <1>f
  <2> QED BY <1>1, <2>1 DEF ShapeInv
<1>11. FilesInv'
  <2>1. \A i \in DOMAIN loading' :
           (i \in DOMAIN loading /\ loading'[i] = loading[i]) \/ loading'[i] = f
    BY <1>1, <1>9, <1>f
  <2>2. /\ \A i \in DOMAIN loading : /\ loading[i].line \in Nat \ {0}
                                     /\ source'[loading[i].obj] \in File
                                     /\ TypeOf[source'[loading[i].obj]] = "multi"
        /\ \A o \in cached : /\ source'[o] \in File
                             /\ TypeOf[source'[o]] = "readonly"
                             /\ parts'[o] = <<>>
    BY <1>2, <1>4, FilesNew
  <2>3. f.line \in Nat \ {0} /\ source'[f.obj] \in File /\ TypeOf[source'[f.obj]] = "multi"
    BY <1>1, <1>6, <1>f
  <2> HIDE DEF Inv
  <2> QED BY <1>1, <2>1, <2>2, <2>3 DEF FilesInv
<1>12. PartsInv'
  <2>1. x \notin Held /\ Held \subseteq Obj
    BY <1>2, FreeIsUnknown, Lists
  <2> QED BY <1>1, <1>2, <1>5, <1>6, <2>1, PartsNew DEF Busy
<1>13. SavedInv'
  BY <1>1, SavedKept
<1> QED BY <1>7, <1>8, <1>10, <1>11, <1>12, <1>13

\* An "add" line names a file.
LEMMA MultiLineStep ==
  ASSUME Inv, MultiLine
  PROVE  Inv'
<1> USE DEF Inv
<1>1. /\ phase = "lines" /\ phase' = "load"
      /\ want' = Adds[source[Last(loading).obj]][Last(loading).line]
      /\ Last(loading).line <= Len(Adds[source[Last(loading).obj]])
      /\ UNCHANGED <<opt, got, loading, extras, toAdd, dicts, lang, heapVars, saveAt, synced,
                     spellers>>
  BY DEF MultiLine, saveVars
<1>2. want' \in File
  <2>1. loading \in Seq(LoadFrame) /\ loading # <<>>
    BY <1>1, Lists DEF ShapeInv
  <2>2. Len(loading) \in DOMAIN loading /\ Last(loading) = loading[Len(loading)]
    BY <2>1 DEF Last
  <2>3. Last(loading).line \in Nat \ {0} /\ source[Last(loading).obj] \in File
    BY <2>2 DEF FilesInv
  <2>4. Adds[source[Last(loading).obj]] \in Seq(File)
    BY <2>3, FileAssumption
  <2> QED BY <1>1, <2>3, <2>4
<1>3. FilesInv' /\ CountInv' /\ HeapTypeOK' /\ Known' = Known /\ Held' = Held /\ parts' = parts
  BY <1>1, Quiet
<1>4. TypeOK'
  BY <1>1, <1>2, <1>3 DEF TypeOK, HeapTypeOK
<1>5. ShapeInv'
  BY <1>1, <1>2 DEF ShapeInv
<1>6. PartsInv'
  BY <1>1, <1>3 DEF PartsInv, Busy
<1>7. SavedInv'
  BY <1>1, SavedKept
<1> QED BY <1>3, <1>4, <1>5, <1>6, <1>7

\* The innermost load ends, and its object goes on to_add.
LEMMA LoadedToAdd ==
  ASSUME TypeOK, loading # <<>>, NEW x, x = Last(loading).obj,
         loading' = Front(loading), toAdd' = Append(toAdd, x), dicts' = dicts
  PROVE  /\ loading' \in Seq(LoadFrame) /\ toAdd' \in Seq(Obj) /\ x \in Obj
         /\ Same /\ Known' = Known \cup {x} /\ Held' = Held
<1>1. loading \in Seq(LoadFrame) /\ FrameObjs(loading) \in Seq(Obj) /\ toAdd \in Seq(Obj)
  BY Lists
<1>2. /\ loading' \in Seq(LoadFrame) /\ x \in Obj /\ FrameObjs(loading) # <<>>
      /\ FrameObjs(loading') = Front(FrameObjs(loading)) /\ Last(FrameObjs(loading)) = x
  BY <1>1, FrameList
<1>3. /\ FrameObjs(loading') \in Seq(Obj)
      /\ InSeq(FrameObjs(loading)) = InSeq(FrameObjs(loading')) \cup {x}
      /\ \A o : Occ(FrameObjs(loading), o) = Occ(FrameObjs(loading'), o) + One(x, o)
  BY <1>1, <1>2, ObjList
<1>4. PICK t : t = toAdd'
  OBVIOUS
<1>5. Extends(t, toAdd, x)
  BY <1>4 DEF Extends
<1>6. /\ t \in Seq(Obj) /\ InSeq(t) = InSeq(toAdd) \cup {x}
      /\ \A o : Occ(t, o) = Occ(toAdd, o) + One(x, o)
  BY <1>1, <1>2, <1>5, ObjAppend
<1>7. Same
  <2> SUFFICES ASSUME NEW o PROVE Total(o)' = Total(o)
    BY DEF Same
  <2>1. /\ Occ(DictObjs(dicts), o) \in Nat /\ Occ(toAdd, o) \in Nat
        /\ One(x, o) \in Nat
    BY Lists DEF One
  <2>2. Occ(FrameObjs(loading'), o) \in Nat
    BY <1>3, ObjList
  <2>3. /\ Total(o) = Occ(DictObjs(dicts), o) + Occ(toAdd, o) + Occ(FrameObjs(loading), o)
        /\ Total(o)' = Occ(DictObjs(dicts), o) + Occ(t, o) + Occ(FrameObjs(loading'), o)
    BY <1>4 DEF Total
  <2> QED BY <1>3, <1>6, <2>1, <2>2, <2>3
<1> QED BY <1>2, <1>3, <1>4, <1>6, <1>7 DEF Known, Held

\* The end of a multi dictionary's file.
LEMMA MultiEndStep ==
  ASSUME Inv, MultiEnd
  PROVE  Inv'
<1> USE DEF Inv
<1>0. PICK x : x = Last(loading).obj
  OBVIOUS
<1>1. CASE parts[x] = <<>>
  BY <1>0, <1>1, FailStep DEF MultiEnd
<1>2. CASE parts[x] # <<>>
  <2>1. /\ phase = "lines" /\ toAdd' = Append(toAdd, x) /\ loading' = Front(loading)
        /\ phase' = "got" /\ got' = x /\ want' = None /\ opt' = opt
        /\ UNCHANGED <<extras, dicts, lang, saveAt, synced, spellers, heapVars>>
    BY <1>0, <1>2 DEF MultiEnd, Result, saveVars
  <2>2. loading # <<>> /\ loading \in Seq(LoadFrame)
    BY <2>1, Lists DEF ShapeInv
  <2>3. /\ loading' \in Seq(LoadFrame) /\ toAdd' \in Seq(Obj) /\ x \in Obj
        /\ Same /\ Known' = Known \cup {x} /\ Held' = Held
    BY <1>0, <2>1, <2>2, LoadedToAdd
  <2>4. UNCHANGED <<source, langs, refs, lost, parts, cached>>
    BY <2>1 DEF heapVars
  <2>5. CountInv'
    BY <2>3, <2>4, CountKept
  <2>6. TypeOK'
    BY <2>1, <2>3, <2>4 DEF TypeOK, LoadFrame
  <2>7. ShapeInv'
    BY <2>1, <2>3 DEF ShapeInv
  <2>8. FilesInv'
    <3>1. \A i \in DOMAIN loading' : i \in DOMAIN loading /\ loading'[i] = loading[i]
      BY <2>1, <2>2 DEF Front
    <3> QED BY <2>4, <3>1 DEF FilesInv
  <2>9. PartsInv'
    BY <2>1, <2>3, <2>4 DEF PartsInv, Busy
  <2>10. SavedInv'
    BY <2>1, SavedKept
  <2> QED BY <2>5, <2>6, <2>7, <2>8, <2>9, <2>10
<1> QED BY <1>1, <1>2

\* The result of a line goes to the multi dictionary whose line it was.
LEMMA GotPartStep ==
  ASSUME Inv, GotPart
  PROVE  Inv'
<1> USE DEF Inv
<1>0. PICK f : f = Last(loading)
  OBVIOUS
<1> DEFINE g == [f EXCEPT !.line = @ + 1]
<1>1. CASE langs[f.obj] \notin {None, langs[got]}
  <2>1. Fail /\ UNCHANGED <<source, langs, refs, lost, parts, cached>>
    BY <1>0, <1>1 DEF GotPart
  <2> QED BY <2>1, FailStep DEF heapVars
<1>2. CASE langs[f.obj] \in {None, langs[got]}
  <2>1. /\ phase = "got" /\ loading # <<>>
        /\ parts' = [parts EXCEPT ![f.obj] = Append(@, got)]
        /\ langs' = [langs EXCEPT ![f.obj] = langs[got]]
        /\ loading' = Append(Front(loading), g)
        /\ phase' = "lines" /\ got' = None
        /\ UNCHANGED <<opt, want, extras, toAdd, dicts, lang, saveAt, synced, spellers,
                       source, refs, lost, cached>>
    BY <1>0, <1>2 DEF GotPart, saveVars
  <2>2. loading \in Seq(LoadFrame) /\ got \in Known /\ Known \subseteq Held /\ Held \subseteq Obj
    BY <2>1, Lists DEF ShapeInv, Held
  <2>3. PICK m \in Nat : Len(loading) = m + 1
    <3>1. Len(loading) - 1 \in Nat /\ Len(loading) = (Len(loading) - 1) + 1
      BY <2>1, <2>2
    <3> QED BY <3>1
  <2>4. f = loading[m + 1] /\ f \in LoadFrame /\ m + 1 \in DOMAIN loading
    BY <1>0, <2>2, <2>3 DEF Last
  <2>5. g \in LoadFrame /\ g.obj = f.obj /\ g.line = f.line + 1 /\ f.line \in Nat /\ f.obj \in Obj
    <3> HIDE DEF Inv
    <3> QED BY <2>4 DEF LoadFrame
  <2> HIDE DEF g
  <2>6. /\ loading' \in Seq(LoadFrame) /\ Len(loading') = m + 1
        /\ loading'[m + 1] = g /\ \A i \in 1..m : loading'[i] = loading[i]
    BY <2>1, <2>2, <2>3, <2>5 DEF Front
  <2>7. FrameObjs(loading') = FrameObjs(loading)
    <3>1. DOMAIN loading = 1..(m + 1) /\ DOMAIN loading' = 1..(m + 1)
      BY <2>2, <2>3, <2>6
    <3>2. \A i \in 1..(m + 1) : loading'[i].obj = loading[i].obj
      BY <2>4, <2>5, <2>6
    <3> QED BY <3>1, <3>2 DEF FrameObjs
  <2>8. Same /\ Known' = Known /\ Held' = Held
    BY <2>1, <2>7 DEF Same, Total, Known, Held
  <2>9. CountInv'
    BY <2>1, <2>8, CountKept
  <2>10. PICK p : p = Append(parts[f.obj], got)
    OBVIOUS
  <2>11. Extends(p, parts[f.obj], got) /\ parts[f.obj] \in Seq(Obj) /\ got \in Obj
    BY <2>2, <2>5, <2>10 DEF Extends, TypeOK
  <2>12. p \in Seq(Obj) /\ InSeq(p) = InSeq(parts[f.obj]) \cup {got}
    BY <2>11, ObjAppend
  <2>13. /\ parts' \in [Obj -> Seq(Obj)] /\ parts'[f.obj] = p
         /\ \A o \in Obj \ {f.obj} : parts'[o] = parts[o]
    <3>1. parts' = [parts EXCEPT ![f.obj] = p]
      BY <2>1, <2>10
    <3> QED BY <2>5, <2>12, <3>1 DEF TypeOK
  <2>14. langs' \in [Obj -> Langs]
    BY <2>1, <2>2, <2>5 DEF TypeOK
  <2>15. TypeOK'
    BY <2>1, <2>6, <2>13, <2>14 DEF TypeOK, LoadFrame
  <2>16. ShapeInv'
    <3>1. loading' # <<>>
      BY <2>6
    <3> QED BY <2>1, <3>1 DEF ShapeInv
  <2>17. FilesInv'
    <3>1. DOMAIN loading = 1..(m + 1) /\ DOMAIN loading' = 1..(m + 1)
      BY <2>2, <2>3, <2>6
    <3>2. \A i \in 1..(m + 1) : loading'[i].obj = loading[i].obj /\ loading'[i].line \in Nat \ {0}
      <4> TAKE i \in 1..(m + 1)
      <4>1. CASE i = m + 1
        BY <2>4, <2>5, <2>6, <4>1
      <4>2. CASE i # m + 1
        <5>1. i \in 1..m /\ i \in DOMAIN loading
          BY <3>1, <4>2
        <5> QED BY <2>6, <5>1 DEF FilesInv
      <4> QED BY <4>1, <4>2
    <3>3. \A i \in DOMAIN loading' : /\ loading'[i].line \in Nat \ {0}
                                     /\ source'[loading'[i].obj] \in File
                                     /\ TypeOf[source'[loading'[i].obj]] = "multi"
      BY <2>1, <3>1, <3>2 DEF FilesInv
    <3>4. TypeOf[source[f.obj]] = "multi"
      BY <2>4 DEF FilesInv
    <3>5. \A o \in cached : o \in Obj /\ o # f.obj
      BY <3>4 DEF FilesInv, TypeOK
    <3> QED BY <2>1, <2>13, <3>3, <3>5 DEF FilesInv
  <2>18. PartsInv'
    <3> SUFFICES ASSUME NEW o \in Held PROVE InSeq(parts'[o]) \subseteq Known
      BY <2>8 DEF PartsInv
    <3>1. InSeq(parts[o]) \subseteq Known
      BY <2>1 DEF PartsInv, Busy
    <3> QED BY <2>2, <2>12, <2>13, <3>1
  <2>19. SavedInv'
    BY <2>1, SavedKept
  <2> QED BY <2>9, <2>15, <2>16, <2>17, <2>18, <2>19
<1> QED BY <1>1, <1>2

\* The result of setup's own call ends the call.
LEMMA GotWholeStep ==
  ASSUME Inv, GotWhole
  PROVE  Inv'
<1> USE DEF Inv
<1>1. /\ phase = "got" /\ loading = <<>> /\ phase' = "add" /\ got' = None
      /\ UNCHANGED <<opt, want, loading, extras, toAdd, dicts, lang, heapVars, saveAt, synced,
                     spellers>>
  BY DEF GotWhole, saveVars
<1>2. FilesInv' /\ CountInv' /\ HeapTypeOK' /\ Known' = Known /\ Held' = Held /\ parts' = parts
  BY <1>1, Quiet
<1>3. TypeOK'
  BY <1>1, <1>2 DEF TypeOK, HeapTypeOK
<1>4. ShapeInv'
  BY <1>1 DEF ShapeInv
<1>5. PartsInv'
  BY <1>1, <1>2 DEF PartsInv, Busy
<1>6. SavedInv'
  BY <1>1, SavedKept
<1> QED BY <1>2, <1>3, <1>4, <1>5, <1>6

\* add_dict: the last of to_add goes to the head of the speller's list.
LEMMA ToAddToDicts ==
  ASSUME TypeOK, toAdd # <<>>, NEW d \in SpellerDict, d.dict = Last(toAdd),
         dicts' = <<d>> \o dicts, toAdd' = Front(toAdd), loading' = loading
  PROVE  /\ dicts' \in Seq(SpellerDict) /\ toAdd' \in Seq(Obj)
         /\ Same /\ Known' = Known /\ Held' = Held
<1>1. dicts \in Seq(SpellerDict) /\ toAdd \in Seq(Obj)
  BY Lists
<1>2. PICK x : x = d.dict
  OBVIOUS
<1>3. /\ dicts' \in Seq(SpellerDict)
      /\ InSeq(DictObjs(dicts')) = InSeq(DictObjs(dicts)) \cup {x}
      /\ \A o : Occ(DictObjs(dicts'), o) = Occ(DictObjs(dicts), o) + One(x, o)
  BY <1>1, <1>2, DictList
<1>4. /\ toAdd' \in Seq(Obj)
      /\ InSeq(toAdd) = InSeq(toAdd') \cup {x}
      /\ \A o : Occ(toAdd, o) = Occ(toAdd', o) + One(x, o)
  BY <1>1, <1>2, ObjList
<1>5. Same
  <2> SUFFICES ASSUME NEW o PROVE Total(o)' = Total(o)
    BY DEF Same
  <2>1. /\ Occ(DictObjs(dicts), o) \in Nat /\ Occ(FrameObjs(loading), o) \in Nat
        /\ One(x, o) \in Nat
    BY Lists DEF One
  <2>2. Occ(toAdd', o) \in Nat
    BY <1>4, ObjList
  <2>3. /\ Total(o) = Occ(DictObjs(dicts), o) + Occ(toAdd, o) + Occ(FrameObjs(loading), o)
        /\ Total(o)' = Occ(DictObjs(dicts'), o) + Occ(toAdd', o) + Occ(FrameObjs(loading), o)
    BY DEF Total
  <2>4. /\ Occ(DictObjs(dicts'), o) = Occ(DictObjs(dicts), o) + One(x, o)
        /\ Occ(toAdd, o) = Occ(toAdd', o) + One(x, o)
    BY <1>3, <1>4
  <2> QED BY <2>1, <2>2, <2>3, <2>4
<1> QED BY <1>3, <1>4, <1>5 DEF Known, Held

\* A dictionary that add_dicts has not seen is taken onto the list.
LEMMA AddNewStep ==
  ASSUME Inv, AddNew
  PROVE  Inv'
<1> USE DEF Inv
<1>0. PICK x : x = Last(toAdd)
  OBVIOUS
<1>1. PICK check \in BOOLEAN : Enlist(Listed(x, "none", check, FALSE), langs[x])
  BY <1>0 DEF AddNew
<1> DEFINE d == Listed(x, "none", check, FALSE)
<1>2. /\ phase = "add" /\ phase' = phase /\ toAdd # <<>> /\ toAdd' = Front(toAdd)
      /\ dicts' = <<d>> \o dicts /\ lang' = langs[x]
      /\ UNCHANGED <<opt, want, got, loading, extras, source, langs, refs, lost, parts, cached,
                     saveAt, synced, spellers>>
  BY <1>0, <1>1 DEF AddNew, Enlist, setupVars, heapVars, saveVars
<1>3. x \in Obj
  BY <1>0, <1>2, ObjList, Lists
<1>4. d \in SpellerDict /\ d.dict = x /\ d.special = "none"
  BY <1>3 DEF Listed, SpellerDict
<1> HIDE DEF d
<1>5. /\ dicts' \in Seq(SpellerDict) /\ toAdd' \in Seq(Obj)
      /\ Same /\ Known' = Known /\ Held' = Held
  BY <1>0, <1>2, <1>4, ToAddToDicts
<1>6. CountInv'
  BY <1>2, <1>5, CountKept
<1>7. TypeOK'
  <2>1. saveAt \in 0..Len(dicts')
    <3>1. dicts \in Seq(SpellerDict) /\ Len(dicts) \in Nat
      BY Lists
    <3>2. Len(dicts') = Len(dicts) + 1
      BY <1>2, <1>4, <3>1
    <3> QED BY <3>1, <3>2 DEF TypeOK
  <2> QED BY <1>2, <1>3, <1>5, <2>1 DEF TypeOK
<1>8. ShapeInv'
  BY <1>2, <1>5 DEF ShapeInv
<1>9. FilesInv'
  BY <1>2 DEF FilesInv
<1>10. PartsInv'
  BY <1>2, <1>5 DEF PartsInv, Busy
<1>11. SavedInv'
  BY <1>2, <1>4, SavedEnlisted
<1> QED BY <1>6, <1>7, <1>8, <1>9, <1>10, <1>11

\* A duplicate is taken off to_add, and its reference is lost.
LEMMA AddDuplicateStep ==
  ASSUME Inv, AddDuplicate
  PROVE  Inv'
<1> USE DEF Inv
<1>0. PICK x : x = Last(toAdd)
  OBVIOUS
<1>1. /\ phase = "add" /\ phase' = phase /\ toAdd # <<>> /\ Located(x) /\ toAdd' = Front(toAdd)
      /\ lost' = [lost EXCEPT ![x] = @ + 1]
      /\ UNCHANGED <<opt, want, got, loading, extras, dicts, lang, source, langs, refs, parts,
                     cached, saveAt, synced, spellers>>
  BY <1>0 DEF AddDuplicate, setupVars, saveVars
<1>2. /\ toAdd' \in Seq(Obj) /\ x \in Obj /\ Loses(x)
      /\ Known = Known' \cup {x} /\ Held = Held' \cup {x}
  BY <1>0, <1>1, ToAddShrinks
<1>3. x \in Known'
  <2>1. PICK i \in DOMAIN dicts : dicts[i].dict = x
    BY <1>1 DEF Located
  <2>2. i \in DOMAIN DictObjs(dicts) /\ DictObjs(dicts)[i] = x
    BY <2>1, Lists, DictList
  <2>3. x \in InSeq(DictObjs(dicts))
    BY <2>2 DEF InSeq
  <2> QED BY <1>1, <2>3 DEF Known
<1>4. Known' = Known /\ Held' = Held
  BY <1>2, <1>3 DEF Held
<1>5. lost' \in [Obj -> Nat] /\ lost'[x] = lost[x] + 1 /\ \A o \in Obj \ {x} : lost'[o] = lost[o]
  <2>3. lost \in [Obj -> Nat]
    BY DEF TypeOK
  <2>4. x \in Obj
    BY <1>2
  <2>1. lost[x] \in Nat /\ lost[x] + 1 \in Nat
    BY <2>3, <2>4
  <2>2. lost' = [lost EXCEPT ![x] = lost[x] + 1]
    BY <1>1
  <2> QED BY <2>1, <2>2, <2>3, <2>4
<1>6. CountInv'
  <2> SUFFICES ASSUME NEW o \in Obj
               PROVE  IF source[o] # None THEN refs[o] = Total(o)' + lost'[o]
                      ELSE Total(o)' + lost'[o] = 0
    BY <1>1 DEF CountInv, Live
  <2>1. Total(o) = Total(o)' + One(x, o) /\ lost[o] \in Nat
    BY <1>2 DEF Loses, TypeOK
  <2>2. IF source[o] # None THEN refs[o] = Total(o) + lost[o] ELSE Total(o) + lost[o] = 0
    BY DEF CountInv, Live
  <2>3. PICK n : n = Total(o)'
    OBVIOUS
  <2>4. n \in Nat
    <3>1. /\ Occ(DictObjs(dicts), o) \in Nat /\ Occ(FrameObjs(loading), o) \in Nat
      BY Lists
    <3>2. Occ(toAdd', o) \in Nat
      BY <1>2, ObjList
    <3> QED BY <1>1, <2>3, <3>1, <3>2 DEF Total
  <2>5. CASE o = x
    <3>1. Total(o) = n + 1 /\ lost'[o] = lost[o] + 1
      BY <1>5, <2>1, <2>3, <2>5 DEF One
    <3>2. Total(o) + lost[o] = n + lost'[o]
      BY <2>1, <2>4, <3>1
    <3> QED BY <2>2, <2>3, <3>2
  <2>6. CASE o # x
    <3>1. Total(o) = n /\ lost'[o] = lost[o]
      BY <1>5, <2>1, <2>3, <2>4, <2>6 DEF One
    <3> QED BY <2>2, <2>3, <3>1
  <2> QED BY <2>5, <2>6
<1>7. TypeOK'
  BY <1>1, <1>2, <1>5 DEF TypeOK
<1>8. ShapeInv'
  BY <1>1 DEF ShapeInv
<1>9. FilesInv'
  BY <1>1 DEF FilesInv
<1>10. PartsInv'
  BY <1>1, <1>4 DEF PartsInv, Busy
<1>11. SavedInv'
  BY <1>1, SavedKept
<1> QED BY <1>6, <1>7, <1>8, <1>9, <1>10, <1>11

\* A dictionary of another language is refused, and set-up fails.
LEMMA AddMismatchStep ==
  ASSUME Inv, AddMismatch
  PROVE  Inv'
BY FailStep DEF AddMismatch

\* All of to_add is added: the next of extra-dicts, or the speller's own ones.
LEMMA AddDoneStep ==
  ASSUME Inv, AddDone
  PROVE  Inv'
<1> USE DEF Inv
<1>1. /\ phase = "add" /\ toAdd = <<>>
      /\ UNCHANGED <<opt, got, loading, toAdd, dicts, lang, heapVars, saveAt, synced, spellers>>
  BY DEF AddDone, saveVars
<1>2. FilesInv' /\ CountInv' /\ HeapTypeOK' /\ Known' = Known /\ Held' = Held /\ parts' = parts
  BY <1>1, Quiet
<1>3. opt.extra \in Seq(File) /\ extras \in 0..Len(opt.extra)
  BY OptionAssumption DEF TypeOK
<1>4. \/ phase' = "load" /\ want' \in File /\ extras' \in 0..Len(opt.extra)
      \/ phase' = "personal" /\ UNCHANGED <<want, extras>>
  <2>1. CASE extras < Len(opt.extra)
    <3>1. phase' = "load" /\ want' = opt.extra[extras + 1] /\ extras' = extras + 1
      BY <2>1 DEF AddDone
    <3>2. extras + 1 \in 1..Len(opt.extra) /\ extras + 1 \in 0..Len(opt.extra)
      BY <1>3, <2>1
    <3> QED BY <1>3, <3>1, <3>2
  <2>2. CASE ~(extras < Len(opt.extra))
    BY <2>2 DEF AddDone
  <2> QED BY <2>1, <2>2
<1>5. TypeOK'
  BY <1>1, <1>2, <1>3, <1>4 DEF TypeOK, HeapTypeOK
<1>6. ShapeInv'
  BY <1>1, <1>4 DEF ShapeInv
<1>7. PartsInv'
  BY <1>1, <1>2 DEF PartsInv, Busy
<1>8. SavedInv'
  BY <1>1, <1>4, SavedKept
<1> QED BY <1>2, <1>5, <1>6, <1>7, <1>8

\* setup makes a dictionary of the speller's own and enlists it.
LEMMA OwnStep ==
  ASSUME Inv, phase \in {"personal", "session", "repl", "wordlists"},
         NEW what \in Special, NEW d \in SpellerDict, d.dict = Fresh,
         New(Fresh, what, lang), dicts' = <<d>> \o dicts, lang' = lang,
         phase' \in {"session", "repl", "wordlists", "ready", "unwind"},
         UNCHANGED <<setupVars, toAdd, lost, cached, saveVars, spellers>>,
         d.special = "personal" => d.save_on_saveall,
         d.special = "repl" => d.save_on_saveall = opt.save_repl
  PROVE  Inv'
<1> USE DEF Inv
<1>0. PICK x : x = Fresh
  OBVIOUS
<1>1. /\ loading = <<>> /\ toAdd = <<>>
      /\ New(x, what, lang) /\ Live # Obj /\ d.dict = x
      /\ UNCHANGED <<opt, want, got, loading, extras, toAdd, lost, cached, saveAt, synced,
                     spellers>>
  BY <1>0 DEF New, ShapeInv, setupVars, saveVars
<1>2. x \in Obj /\ source[x] = None
  BY <1>0, <1>1, FreshIsFree
<1>3. PICK w \in File \cup Special, l \in Langs : w = what /\ l = lang
  BY DEF TypeOK
<1>4. New(x, w, l)
  BY <1>1, <1>3
<1>5. dicts' \in Seq(SpellerDict) /\ Gains(x) /\ Known' = Known \cup {x} /\ Held' = Held \cup {x}
  BY <1>1, DictsGrow
<1>6. /\ langs' \in [Obj -> Langs]
      /\ source' \in [Obj -> File \cup Special \cup {None}]
      /\ refs' \in [Obj -> Nat] /\ parts' \in [Obj -> Seq(Obj)]
      /\ parts'[x] = <<>>
      /\ \A o \in Obj \ {x} : parts'[o] = parts[o]
  BY <1>2, <1>4, NewObject
<1>7. CountInv'
  BY <1>1, <1>2, <1>4, <1>5, CountNew
<1>8. TypeOK'
  <2>1. saveAt \in 0..Len(dicts')
    <3>1. dicts \in Seq(SpellerDict) /\ Len(dicts) \in Nat
      BY Lists
    <3>2. Len(dicts') = Len(dicts) + 1
      BY <3>1
    <3> QED BY <3>1, <3>2 DEF TypeOK
  <2>2. phase' \in {"idle", "load", "lines", "got", "add", "personal", "session", "repl",
                    "wordlists", "ready", "save", "unwind", "delete"}
    OBVIOUS
  <2> QED BY <1>1, <1>5, <1>6, <2>1, <2>2 DEF TypeOK
<1>9. ShapeInv'
  BY <1>1 DEF ShapeInv
<1>10. FilesInv'
  BY <1>1, <1>2, <1>4, FilesNew DEF FilesInv
<1>11. PartsInv'
  <2>1. x \notin Held /\ Held \subseteq Obj
    BY <1>2, FreeIsUnknown, Lists
  <2> QED BY <1>2, <1>5, <1>6, <2>1, PartsNew DEF Busy
<1>12. SavedInv'
  BY <1>1, SavedEnlisted
<1> QED BY <1>7, <1>8, <1>9, <1>10, <1>11, <1>12

\* The personal dictionary goes onto the list with the reference it was made with.
LEMMA AddPersonalStep ==
  ASSUME Inv, AddPersonal
  PROVE  Inv'
<1> DEFINE d == Listed(Fresh, "personal", TRUE, TRUE)
<1>1. /\ phase = "personal" /\ phase' = "session" /\ New(Fresh, "personal", lang)
      /\ dicts' = <<d>> \o dicts /\ lang' = lang
      /\ UNCHANGED <<setupVars, toAdd, lost, cached, saveVars, spellers>>
  BY DEF AddPersonal, Own, Enlist, Listed
<1>2. Fresh \in Obj
  BY <1>1, FreshIsFree DEF New, Inv
<1>3. d \in SpellerDict /\ d.dict = Fresh /\ d.special = "personal" /\ d.save_on_saveall
  BY <1>2 DEF Listed, SpellerDict, Special
<1>4. "personal" \in Special
  BY DEF Special
<1> HIDE DEF d
<1> QED BY <1>1, <1>3, <1>4, OwnStep

\* So does the session dictionary, which is never saved.
LEMMA AddSessionStep ==
  ASSUME Inv, AddSession
  PROVE  Inv'
<1> DEFINE d == Listed(Fresh, "session", TRUE, FALSE)
<1>1. /\ phase = "session" /\ phase' = "repl" /\ New(Fresh, "session", lang)
      /\ dicts' = <<d>> \o dicts /\ lang' = lang
      /\ UNCHANGED <<setupVars, toAdd, lost, cached, saveVars, spellers>>
  BY DEF AddSession, Own, Enlist, Listed
<1>2. Fresh \in Obj
  BY <1>1, FreshIsFree DEF New, Inv
<1>3. d \in SpellerDict /\ d.dict = Fresh /\ d.special = "session"
  BY <1>2 DEF Listed, SpellerDict, Special
<1>4. "session" \in Special
  BY DEF Special
<1> HIDE DEF d
<1> QED BY <1>1, <1>3, <1>4, OwnStep

\* And the replacements, which are saved if the option save-repl is set.
LEMMA AddReplStep ==
  ASSUME Inv, AddRepl
  PROVE  Inv'
<1> DEFINE d == Listed(Fresh, "repl", FALSE, opt.save_repl)
<1>1. /\ phase = "repl" /\ phase' = "wordlists" /\ New(Fresh, "repl", lang)
      /\ dicts' = <<d>> \o dicts /\ lang' = lang
      /\ UNCHANGED <<setupVars, toAdd, lost, cached, saveVars, spellers>>
  BY DEF AddRepl, Own, Enlist, Listed
<1>2. Fresh \in Obj
  BY <1>1, FreshIsFree DEF New, Inv
<1>3. opt.save_repl \in BOOLEAN
  BY OptionAssumption DEF Inv, TypeOK
<1>4. d \in SpellerDict /\ d.dict = Fresh /\ d.special = "repl" /\ d.save_on_saveall = opt.save_repl
  BY <1>2, <1>3 DEF Listed, SpellerDict, Special
<1>5. "repl" \in Special
  BY DEF Special
<1> HIDE DEF d
<1> QED BY <1>1, <1>4, <1>5, OwnStep

\* A personal or replacement list that cannot be loaded: its object is lost.
LEMMA AddOwnFailsStep ==
  ASSUME Inv, AddOwnFails
  PROVE  Inv'
<1> USE DEF Inv
<1>0. PICK x : x = Fresh
  OBVIOUS
<1>1. /\ phase \in {"personal", "repl"} /\ Live # Obj /\ New(x, phase, lang)
      /\ lost' = [lost EXCEPT ![x] = 1] /\ cached' = cached
      /\ Fail
  BY <1>0 DEF AddOwnFails, New
<1>2. x \in Obj /\ source[x] = None
  BY <1>0, <1>1, FreshIsFree
<1>3. PICK what \in File \cup Special, l \in Langs : what = phase /\ l = lang
  BY <1>1 DEF TypeOK, Special
<1>4. New(x, what, l)
  BY <1>1, <1>3
<1>5. /\ langs' \in [Obj -> Langs]
      /\ source' \in [Obj -> File \cup Special \cup {None}]
      /\ refs' \in [Obj -> Nat] /\ parts' \in [Obj -> Seq(Obj)]
      /\ source'[x] = what /\ refs'[x] = 1 /\ what # None
      /\ \A o \in Obj \ {x} : source'[o] = source[o] /\ refs'[o] = refs[o]
  BY <1>2, <1>4, NewObject, BoundAssumption
<1>6. Same
  BY <1>1, ListsKept DEF Fail
<1>7. lost' \in [Obj -> Nat] /\ lost'[x] = 1 /\ \A o \in Obj \ {x} : lost'[o] = lost[o]
  BY <1>1, <1>2 DEF TypeOK
<1>8. CountInv'
  <2> SUFFICES ASSUME NEW o \in Obj
               PROVE  IF source'[o] # None THEN refs'[o] = Total(o)' + lost'[o]
                      ELSE Total(o)' + lost'[o] = 0
    BY DEF CountInv, Live
  <2>1. Total(o)' = Total(o)
    BY <1>6 DEF Same
  <2>2. CASE o = x
    <3>1. Total(o) = 0
      BY <1>2, <2>2, FreeIsUnknown
    <3> QED BY <1>5, <1>7, <2>1, <2>2, <3>1
  <2>3. CASE o # x
    BY <1>5, <1>7, <2>1, <2>3 DEF CountInv, Live
  <2> QED BY <2>2, <2>3
<1>9. TypeOK'
  BY <1>1, <1>5, <1>7 DEF TypeOK, Fail, saveVars
<1>10. ShapeInv'
  BY <1>1 DEF ShapeInv, Fail
<1>11. FilesInv'
  BY <1>1, <1>2, <1>4, FilesNew DEF FilesInv, Fail
<1>12. PartsInv'
  BY <1>1 DEF PartsInv, Busy, Fail
<1>13. SavedInv'
  BY <1>1, SavedKept DEF Fail
<1> QED BY <1>8, <1>9, <1>10, <1>11, <1>12, <1>13

\* A step that only moves on between phases that rely on the same.
LEMMA PhaseStep ==
  ASSUME Inv,
         UNCHANGED <<opt, want, got, loading, extras, toAdd, dicts, lang, heapVars, spellers>>,
         phase \in {"personal", "session", "repl", "wordlists", "ready", "save"},
         phase' \in {"wordlists", "ready", "save", "unwind"},
         saveAt' \in 0..Len(dicts), synced' \in SUBSET Obj,
         phase' = "save" =>
           \A i \in 1..saveAt' : dicts[i].save_on_saveall => dicts[i].dict \in synced'
  PROVE  Inv'
<1> USE DEF Inv
<1>1. FilesInv' /\ CountInv' /\ HeapTypeOK' /\ Known' = Known /\ Held' = Held /\ parts' = parts
  BY Quiet
<1>2. TypeOK'
  <2>1. phase' \in {"idle", "load", "lines", "got", "add", "personal", "session", "repl",
                    "wordlists", "ready", "save", "unwind", "delete"}
    OBVIOUS
  <2> QED BY <1>1, <2>1 DEF TypeOK, HeapTypeOK
<1>3. ShapeInv'
  BY DEF ShapeInv
<1>4. PartsInv'
  BY <1>1 DEF PartsInv, Busy
<1>5. SavedInv'
  BY DEF SavedInv
<1> QED BY <1>1, <1>2, <1>3, <1>4, <1>5

\* Without use-other-dicts none of the three is made.
LEMMA SkipOwnStep ==
  ASSUME Inv, SkipOwn
  PROVE  Inv'
<1>1. /\ phase = "personal" /\ phase' = "wordlists"
      /\ UNCHANGED <<opt, want, got, loading, extras, toAdd, dicts, lang, heapVars, spellers>>
      /\ saveAt' = saveAt /\ synced' = synced
  BY DEF SkipOwn, setupVars, saveVars
<1>2. saveAt' \in 0..Len(dicts) /\ synced' \in SUBSET Obj
  BY <1>1 DEF Inv, TypeOK
<1> QED BY <1>1, <1>2, PhaseStep

\* The words of the option wordlists: a dictionary of their own, or none.
LEMMA AddWordlistsStep ==
  ASSUME Inv, AddWordlists
  PROVE  Inv'
<1>1. /\ phase = "wordlists" /\ phase' \in {"ready", "unwind"}
      /\ UNCHANGED <<setupVars, toAdd, lost, cached, saveVars, spellers>>
  BY DEF AddWordlists
<1>2. CASE opt.wordlists /\ ~opt.use_other_dicts
  <2>1. PICK check \in BOOLEAN, save \in BOOLEAN :
           /\ New(Fresh, "words", lang)
           /\ Enlist(Listed(Fresh, "none", check, save), lang)
    BY <1>2 DEF AddWordlists
  <2> DEFINE d == Listed(Fresh, "none", check, save)
  <2>2. dicts' = <<d>> \o dicts /\ lang' = lang
    BY <2>1 DEF Enlist
  <2>3. Fresh \in Obj
    BY <2>1, FreshIsFree DEF New, Inv
  <2>4. d \in SpellerDict /\ d.dict = Fresh /\ d.special = "none"
    BY <2>3 DEF Listed, SpellerDict
  <2>5. "words" \in Special
    BY DEF Special
  <2> HIDE DEF d
  <2> QED BY <1>1, <2>1, <2>2, <2>4, <2>5, OwnStep
<1>3. CASE ~(opt.wordlists /\ ~opt.use_other_dicts)
  <2>1. /\ UNCHANGED <<source, langs, refs, parts, dicts, lang>>
    BY <1>3 DEF AddWordlists
  <2>2. /\ UNCHANGED <<opt, want, got, loading, extras, toAdd, dicts, lang, heapVars, spellers>>
        /\ saveAt' = saveAt /\ synced' = synced
    BY <1>1, <2>1 DEF setupVars, saveVars, heapVars
  <2>3. saveAt' \in 0..Len(dicts) /\ synced' \in SUBSET Obj
    BY <2>2 DEF Inv, TypeOK
  <2> QED BY <1>1, <2>2, <2>3, PhaseStep
<1> QED BY <1>2, <1>3

\* save_all_word_lists starts at the head of the list, with nothing saved.
LEMMA SaveAllStep ==
  ASSUME Inv, SaveAll
  PROVE  Inv'
<1>1. /\ phase = "ready" /\ phase' = "save" /\ saveAt' = 0 /\ synced' = {}
      /\ UNCHANGED <<opt, want, got, loading, extras, toAdd, dicts, lang, heapVars, spellers>>
  BY DEF SaveAll, setupVars
<1>2. saveAt' \in 0..Len(dicts) /\ synced' \in SUBSET Obj
  <2>1. Len(dicts) \in Nat
    BY Lists DEF Inv
  <2> QED BY <1>1, <2>1
<1> QED BY <1>1, <1>2, PhaseStep

\* One dictionary is saved, or is not to be, or cannot be.
LEMMA SaveNextStep ==
  ASSUME Inv, SaveNext
  PROVE  Inv'
<1>0. PICK d : d = dicts[saveAt + 1]
  OBVIOUS
<1>1. /\ phase = "save" /\ saveAt < Len(dicts)
      /\ UNCHANGED <<opt, want, got, loading, extras, toAdd, dicts, lang, heapVars, spellers>>
  BY DEF SaveNext, setupVars
<1>2. dicts \in Seq(SpellerDict) /\ Len(dicts) \in Nat /\ saveAt \in 0..Len(dicts)
      /\ synced \in SUBSET Obj
  BY Lists DEF Inv, TypeOK
<1>3. d \in SpellerDict /\ d.dict \in Obj /\ saveAt + 1 \in 0..Len(dicts)
  <2>1. saveAt + 1 \in 1..Len(dicts)
    BY <1>1, <1>2
  <2>2. d \in SpellerDict
    BY <1>0, <1>2, <2>1
  <2> QED BY <2>1, <2>2 DEF SpellerDict
<1>4. \A i \in 1..saveAt : dicts[i].save_on_saveall => dicts[i].dict \in synced
  BY <1>1 DEF Inv, SavedInv
<1>5. \A i \in 1..(saveAt + 1) : i \in 1..saveAt \/ dicts[i] = d
  BY <1>0, <1>2
<1>6. CASE ~d.save_on_saveall /\ saveAt' = saveAt + 1 /\ UNCHANGED <<phase, synced>>
  <2>1. \A i \in 1..(saveAt + 1) : dicts[i].save_on_saveall => dicts[i].dict \in synced
    BY <1>4, <1>5, <1>6
  <2> QED BY <1>1, <1>2, <1>3, <1>6, <2>1, PhaseStep
<1>7. CASE /\ d.save_on_saveall /\ synced' = synced \cup {d.dict} /\ saveAt' = saveAt + 1
           /\ phase' = phase
  <2>1. \A i \in 1..(saveAt + 1) : dicts[i].save_on_saveall => dicts[i].dict \in synced'
    BY <1>4, <1>5, <1>7
  <2>2. synced' \in SUBSET Obj
    BY <1>2, <1>3, <1>7
  <2> QED BY <1>1, <1>3, <1>7, <2>1, <2>2, PhaseStep
<1>8. CASE d.save_on_saveall /\ phase' = "ready" /\ saveAt' = 0 /\ synced' = synced
  <2>1. 0 \in 0..Len(dicts)
    BY <1>2
  <2> QED BY <1>1, <1>2, <1>8, <2>1, PhaseStep
<1> QED BY <1>0, <1>6, <1>7, <1>8 DEF SaveNext

\* It ends when no dictionary is left.
LEMMA SaveDoneStep ==
  ASSUME Inv, SaveDone
  PROVE  Inv'
<1>1. /\ phase = "save" /\ phase' = "ready" /\ saveAt' = saveAt /\ synced' = synced
      /\ UNCHANGED <<opt, want, got, loading, extras, toAdd, dicts, lang, heapVars, spellers>>
  BY DEF SaveDone, setupVars, saveVars
<1>2. saveAt' \in 0..Len(dicts) /\ synced' \in SUBSET Obj
  BY <1>1 DEF Inv, TypeOK
<1> QED BY <1>1, <1>2, PhaseStep

ListFacts == \A o : Total(o) \in Nat /\ (Total(o) = 0 <=> o \notin Held)

\* What is known of the lists holds in the next state, too.
LEMMA ListFactsNext == TypeOK' => ListFacts'
<1>1. TypeOK => ListFacts
  BY Lists DEF ListFacts
<1> QED BY <1>1, PTL

\* While the speller is taken apart, a list gives up one object.
LEMMA ReleaseStep ==
  ASSUME Inv, phase \in {"unwind", "delete"}, phase' = phase,
         NEW x \in Held, ReleaseObj(x), Loses(x),
         dicts' \in Seq(SpellerDict), loading' \in Seq(LoadFrame), toAdd' \in Seq(Obj),
         \A i \in DOMAIN loading' : i \in DOMAIN loading /\ loading'[i] = loading[i],
         saveAt' \in 0..Len(dicts'), synced' \in SUBSET Obj,
         UNCHANGED <<opt, want, got, extras, lang, spellers>>,
         ShapeInv', SavedInv'
  PROVE  Inv'
<1> USE DEF Inv
<1>1. /\ HeapTypeOK' /\ x \in Obj /\ source[x] # None
      /\ cached' \subseteq cached
      /\ source'[x] = IF refs[x] = 1 THEN None ELSE source[x]
      /\ refs[x] = 1 => x \notin cached'
      /\ \A o \in Obj \ {x} : source'[o] = source[o] /\ parts'[o] = parts[o]
      /\ refs[x] # 1 => parts'[x] = parts[x]
  BY ReleasedObject
<1>2. TypeOK'
  BY <1>1 DEF TypeOK, HeapTypeOK, LoadFrame
<1>3. \A o : Total(o)' \in Nat /\ (Total(o)' = 0 <=> o \notin Held')
  BY <1>2, ListFactsNext DEF ListFacts
<1>4. CountInv'
  BY <1>3, CountReleased
<1>5. ASSUME refs[x] = 1 PROVE x \notin Held'
  <2>1. refs[x] = Total(x) + lost[x] /\ lost[x] \in Nat
    BY <1>1 DEF CountInv, Live, TypeOK
  <2>2. Total(x) = Total(x)' + 1 /\ Total(x)' \in Nat
    BY <1>3 DEF Loses, One
  <2>3. PICK m, n \in Nat : m = Total(x) /\ n = Total(x)'
    BY <2>2, Lists
  <2>4. n = 0
    BY <1>5, <2>1, <2>2, <2>3
  <2> QED BY <1>3, <2>3, <2>4
<1>6. FilesInv'
  <2>1. ASSUME NEW i \in DOMAIN loading' PROVE source'[loading'[i].obj] = source[loading'[i].obj]
    <3>1. PICK y : y = loading'[i].obj
      OBVIOUS
    <3>2. y \in Held'
      <4>1. i \in DOMAIN FrameObjs(loading') /\ FrameObjs(loading')[i] = y
        BY <2>1, <3>1, FrameList
      <4>2. y \in InSeq(FrameObjs(loading'))
        BY <4>1 DEF InSeq
      <4> QED BY <4>2 DEF Held
    <3>3. y \in Obj
      <4>1. loading'[i] \in LoadFrame
        BY <2>1
      <4> QED BY <3>1, <4>1 DEF LoadFrame
    <3> QED BY <1>1, <1>5, <3>1, <3>2, <3>3
  <2>2. ASSUME NEW o \in cached' PROVE source'[o] = source[o] /\ parts'[o] = parts[o] /\ o \in cached
    <3>1. o \in cached /\ o \in Obj
      BY <1>1 DEF TypeOK
    <3> QED BY <1>1, <3>1
  <2> QED BY <2>1, <2>2 DEF FilesInv
<1>7. PartsInv'
  BY DEF PartsInv, Busy
<1> QED BY <1>2, <1>4, <1>6, <1>7

\* A failed load releases what the dictionary under construction held.
LEMMA UnwindLoadingStep ==
  ASSUME Inv, UnwindLoading
  PROVE  Inv'
<1>0. PICK x : x = Last(loading).obj
  OBVIOUS
<1>1. /\ phase = "unwind" /\ phase' = phase /\ loading # <<>> /\ loading' = Front(loading)
      /\ ReleaseObj(x)
      /\ UNCHANGED <<opt, want, got, extras, toAdd, dicts, lang, saveAt, synced, spellers>>
  BY <1>0 DEF UnwindLoading, saveVars
<1>2. /\ loading' \in Seq(LoadFrame) /\ Loses(x) /\ x \in Held
  BY <1>0, <1>1, LoadingShrinks DEF Inv
<1>3. dicts' \in Seq(SpellerDict) /\ toAdd' \in Seq(Obj) /\ loading \in Seq(LoadFrame)
  BY <1>1, Lists DEF Inv
<1>4. \A i \in DOMAIN loading' : i \in DOMAIN loading /\ loading'[i] = loading[i]
  BY <1>1, <1>3 DEF Front
<1>5. saveAt' \in 0..Len(dicts') /\ synced' \in SUBSET Obj
  BY <1>1 DEF Inv, TypeOK
<1>6. ShapeInv'
  BY <1>1 DEF Inv, ShapeInv
<1>7. SavedInv'
  BY <1>1, SavedKept DEF Inv
<1> QED BY <1>1, <1>2, <1>3, <1>4, <1>5, <1>6, <1>7, ReleaseStep

\* A failed set-up leaves no reference behind in the list still to be added.
LEMMA UnwindToAddStep ==
  ASSUME Inv, UnwindToAdd
  PROVE  Inv'
<1>0. PICK x : x = Last(toAdd)
  OBVIOUS
<1>1. /\ phase = "unwind" /\ phase' = phase /\ toAdd # <<>> /\ toAdd' = Front(toAdd)
      /\ ReleaseObj(x)
      /\ UNCHANGED <<opt, want, got, loading, extras, dicts, lang, saveAt, synced, spellers>>
  BY <1>0 DEF UnwindToAdd, setupVars, saveVars
<1>2. toAdd' \in Seq(Obj) /\ Loses(x) /\ x \in Held
  BY <1>0, <1>1, ToAddShrinks DEF Inv
<1>3. dicts' \in Seq(SpellerDict) /\ loading' \in Seq(LoadFrame)
  BY <1>1, Lists DEF Inv
<1>4. \A i \in DOMAIN loading' : i \in DOMAIN loading /\ loading'[i] = loading[i]
  BY <1>1
<1>5. saveAt' \in 0..Len(dicts') /\ synced' \in SUBSET Obj
  BY <1>1 DEF Inv, TypeOK
<1>6. ShapeInv'
  BY <1>1 DEF Inv, ShapeInv
<1>7. SavedInv'
  BY <1>1, SavedKept DEF Inv
<1> QED BY <1>1, <1>2, <1>3, <1>4, <1>5, <1>6, <1>7, ReleaseStep

\* The destructor of the speller starts, with a set-up that failed all unwound.
LEMMA DeleteStep ==
  ASSUME Inv, Delete
  PROVE  Inv'
<1> USE DEF Inv
<1>1. /\ phase = "ready" \/ (phase = "unwind" /\ loading = <<>> /\ toAdd = <<>>)
      /\ phase' = "delete"
      /\ UNCHANGED <<opt, want, got, loading, extras, toAdd, dicts, lang, heapVars, saveAt, synced,
                     spellers>>
  BY DEF Delete, setupVars, saveVars
<1>2. FilesInv' /\ CountInv' /\ HeapTypeOK'
  BY <1>1, Quiet
<1>3. TypeOK'
  BY <1>1, <1>2 DEF TypeOK, HeapTypeOK
<1>4. ShapeInv'
  BY <1>1 DEF ShapeInv
<1>5. PartsInv'
  BY <1>1 DEF PartsInv, Busy
<1>6. SavedInv'
  BY <1>1, SavedKept
<1> QED BY <1>2, <1>3, <1>4, <1>5, <1>6

\* It takes the first dictionary off the list and releases it.
LEMMA DeleteDictStep ==
  ASSUME Inv, DeleteDict
  PROVE  Inv'
<1>0. PICK x : x = Head(dicts).dict
  OBVIOUS
<1>1. /\ phase = "delete" /\ phase' = phase /\ dicts # <<>> /\ dicts' = Tail(dicts)
      /\ saveAt' = 0 /\ ReleaseObj(x)
      /\ UNCHANGED <<opt, want, got, loading, extras, toAdd, lang, synced, spellers>>
  BY <1>0 DEF DeleteDict, setupVars
<1>2. dicts' \in Seq(SpellerDict) /\ Loses(x) /\ x \in Held
  BY <1>0, <1>1, DictsShrink DEF Inv
<1>3. toAdd' \in Seq(Obj) /\ loading' \in Seq(LoadFrame) /\ dicts \in Seq(SpellerDict)
  BY <1>1, Lists DEF Inv
<1>4. \A i \in DOMAIN loading' : i \in DOMAIN loading /\ loading'[i] = loading[i]
  BY <1>1
<1>5. saveAt' \in 0..Len(dicts') /\ synced' \in SUBSET Obj
  <2>1. Len(dicts') \in Nat
    BY <1>2
  <2> QED BY <1>1, <2>1 DEF Inv, TypeOK
<1>6. ShapeInv'
  BY <1>1 DEF Inv, ShapeInv
<1>7. SavedInv'
  <2>1. ASSUME NEW i \in DOMAIN dicts' PROVE i + 1 \in DOMAIN dicts /\ dicts'[i] = dicts[i + 1]
    BY <1>1, <1>3
  <2> QED BY <1>1, <2>1 DEF Inv, SavedInv
<1> QED BY <1>1, <1>2, <1>3, <1>4, <1>5, <1>6, <1>7, ReleaseStep

\* It ends when the list is empty.
LEMMA DeletedStep ==
  ASSUME Inv, Deleted
  PROVE  Inv'
<1> USE DEF Inv
<1>1. /\ phase = "delete" /\ dicts = <<>> /\ phase' = "idle" /\ extras' = 0 /\ lang' = None
      /\ UNCHANGED <<opt, want, got, loading, toAdd, dicts, heapVars, saveAt, synced, spellers>>
  BY DEF Deleted, saveVars
<1>2. FilesInv' /\ CountInv' /\ HeapTypeOK'
  BY <1>1, Quiet
<1>3. TypeOK'
  <2>1. 0 \in 0..Len(opt.extra)
    BY OptionAssumption DEF TypeOK
  <2>2. None \in Langs
    BY DEF Langs
  <2> QED BY <1>1, <1>2, <2>1, <2>2 DEF TypeOK, HeapTypeOK
<1>4. ShapeInv'
  BY <1>1 DEF ShapeInv
<1>5. PartsInv'
  BY <1>1 DEF PartsInv, Busy
<1>6. SavedInv'
  BY <1>1, SavedKept
<1> QED BY <1>2, <1>3, <1>4, <1>5, <1>6

\* A new speller has no dictionaries.
LEMMA CreateStep ==
  ASSUME Inv, Create
  PROVE  Inv'
<1> USE DEF Inv
<1>1. /\ phase = "idle" /\ spellers < MaxSpellers /\ spellers' = spellers + 1
      /\ opt' \in Options /\ phase' = "load" /\ want' = opt'.master
      /\ UNCHANGED <<got, loading, extras, toAdd, dicts, lang, heapVars, saveAt, synced>>
  BY DEF Create, saveVars
<1>2. loading = <<>> /\ toAdd = <<>> /\ dicts = <<>> /\ extras = 0
  BY <1>1 DEF ShapeInv
<1>3. FilesInv' /\ CountInv' /\ HeapTypeOK' /\ Known' = Known /\ Held' = Held /\ parts' = parts
  BY <1>1, Quiet
<1>4. TypeOK'
  <2>1. want' \in File /\ 0 \in 0..Len(opt'.extra)
    BY <1>1, OptionAssumption
  <2>2. spellers' \in 0..MaxSpellers
    BY <1>1, BoundAssumption DEF TypeOK
  <2> QED BY <1>1, <1>2, <1>3, <2>1, <2>2 DEF TypeOK, HeapTypeOK
<1>5. ShapeInv'
  BY <1>1, OptionAssumption DEF ShapeInv
<1>6. PartsInv'
  <2>1. Held = {}
    BY <1>2 DEF Held, Known, InSeq, DictObjs, FrameObjs
  <2> QED BY <1>3, <2>1 DEF PartsInv
<1>7. SavedInv'
  BY <1>1, <1>2 DEF SavedInv
<1> QED BY <1>3, <1>4, <1>5, <1>6, <1>7

-----------------------------------------------------------------------------
(* The invariant and the theorems.                                          *)

LEMMA InitInv == Init => Inv
<1> SUFFICES ASSUME Init PROVE Inv
  OBVIOUS
<1> USE DEF Init
<1>1. dicts \in Seq(SpellerDict) /\ Len(dicts) = 0 /\ toAdd \in Seq(Obj)
      /\ loading \in Seq([obj : Obj, line : Nat])
  OBVIOUS
<1>2. parts \in [Obj -> Seq(Obj)]
  <2>1. <<>> \in Seq(Obj)
    OBVIOUS
  <2> QED BY <2>1
<1>3. TypeOK
  <2>1. extras \in 0..Len(opt.extra)
    BY OptionAssumption
  <2>2. spellers \in 0..MaxSpellers
    BY BoundAssumption
  <2>3. lang \in Langs /\ langs \in [Obj -> Langs]
    BY DEF Langs
  <2>4. refs \in [Obj -> Nat] /\ lost \in [Obj -> Nat]
    OBVIOUS
  <2> QED BY <1>1, <1>2, <2>1, <2>2, <2>3, <2>4 DEF TypeOK
<1>4. Held = {}
  BY DEF Held, Known, InSeq, DictObjs, FrameObjs
<1>5. CountInv
  <2>1. \A o : Total(o) = 0
    BY <1>3, <1>4, Lists
  <2> QED BY <2>1 DEF CountInv, Live
<1> QED BY <1>3, <1>4, <1>5 DEF Inv, ShapeInv, FilesInv, PartsInv, SavedInv

\* Every step of the speller preserves the invariant.
LEMMA NextInv == Inv /\ [Next]_vars => Inv'
<1> SUFFICES ASSUME Inv, [Next]_vars PROVE Inv'
  OBVIOUS
<1>1. CASE Create
  BY <1>1, CreateStep
<1>2. CASE Setup
  BY <1>2, LoadFailsStep, LoadLocatedStep, LoadCachedStep, LoadNewStep, LoadMultiStep,
     MultiLineStep, MultiEndStep, GotPartStep, GotWholeStep, AddNewStep, AddDuplicateStep,
     AddMismatchStep, AddDoneStep, AddPersonalStep, AddSessionStep, AddReplStep,
     AddOwnFailsStep, SkipOwnStep, AddWordlistsStep DEF Setup
<1>3. CASE Save
  BY <1>3, SaveAllStep, SaveNextStep, SaveDoneStep DEF Save
<1>4. CASE End
  BY <1>4, UnwindLoadingStep, UnwindToAddStep, DeleteStep, DeleteDictStep, DeletedStep DEF End
<1>5. CASE UNCHANGED vars
  <2>1. /\ UNCHANGED <<opt, phase, want, got, loading, extras, toAdd, dicts, lang, heapVars,
                       saveAt, synced, spellers>>
    BY <1>5 DEF vars, heapVars
  <2>2. FilesInv' /\ CountInv' /\ HeapTypeOK' /\ Known' = Known /\ Held' = Held /\ parts' = parts
    BY <2>1, Quiet DEF Inv
  <2>3. TypeOK'
    BY <2>1, <2>2 DEF Inv, TypeOK, HeapTypeOK
  <2>4. ShapeInv' /\ PartsInv' /\ SavedInv'
    BY <2>1, <2>2 DEF Inv, ShapeInv, PartsInv, SavedInv, Busy
  <2> QED BY <2>2, <2>3, <2>4 DEF Inv
<1> QED BY <1>1, <1>2, <1>3, <1>4, <1>5 DEF Next

\* The strengthening of EveryReferenceOwned and SaveAllIsComplete holds in every
\* state of every speller's life (setup, add_dicts, save_all_word_lists,
\* ~SpellerImpl).
THEOREM Invariant == Spec => []Inv
<1>1. Init => Inv
  BY InitInv
<1>2. Inv /\ [Next]_vars => Inv'
  BY NextInv
<1> QED BY <1>1, <1>2, PTL DEF Spec

\* The variables are well typed: no count ever falls below 0, saveAt never leaves
\* the list, the next file to load is one.
THEOREM TypeCorrect == Spec => []TypeOK
<1>1. Inv => TypeOK
  BY DEF Inv
<1> QED BY <1>1, Invariant, PTL

\* The reference count of every dictionary is the number of lists that will release
\* it, plus the references that add_dicts and setup are known to drop: nothing is
\* freed while a list has it, and nothing else stays loaded, however the multi
\* dictionaries name one another and wherever setup fails.  And when the speller
\* is ready, each dictionary that a multi dictionary points to is its own.
THEOREM ReferencesOwned == Spec => []EveryReferenceOwned
<1>1. Inv => EveryReferenceOwned
  <2> SUFFICES ASSUME Inv PROVE EveryReferenceOwned
    OBVIOUS
  <2>1. \A o \in Obj : IF o \in Live THEN refs[o] = Owners(o) + lost[o]
                                     ELSE Owners(o) + lost[o] = 0
    BY OwnersCount DEF Inv, CountInv
  <2>2. ASSUME phase \in {"ready", "save"}, NEW i \in DOMAIN dicts,
               NEW j \in DOMAIN parts[dicts[i].dict]
        PROVE  Located(parts[dicts[i].dict][j])
    <3>1. PICK x, p : x = dicts[i].dict /\ p = parts[x][j]
      OBVIOUS
    <3>2. x \in InSeq(DictObjs(dicts))
      <4>1. i \in DOMAIN DictObjs(dicts) /\ DictObjs(dicts)[i] = x
        BY <3>1, Lists, DictList DEF Inv
      <4> QED BY <4>1 DEF InSeq
    <3>3. InSeq(parts[x]) \subseteq Known
      BY <2>2, <3>2 DEF Inv, PartsInv, Busy, Held, Known
    <3>4. p \in Known
      BY <3>1, <3>3 DEF InSeq
    <3>5. InSeq(toAdd) = {}
      BY <2>2 DEF Inv, ShapeInv, InSeq
    <3>6. p \in InSeq(DictObjs(dicts))
      BY <3>4, <3>5 DEF Known
    <3>7. PICK k \in DOMAIN DictObjs(dicts) : DictObjs(dicts)[k] = p
      BY <3>6 DEF InSeq
    <3>8. k \in DOMAIN dicts /\ dicts[k].dict = p
      BY <3>7, Lists, DictList DEF Inv
    <3> QED BY <3>1, <3>8 DEF Located
  <2> QED BY <2>1, <2>2 DEF EveryReferenceOwned
<1> QED BY <1>1, Invariant, PTL

\* save_all_word_lists reports success only when it has saved the personal
\* dictionary, and the replacements if they are to be: an error on the way never
\* ends in success.
THEOREM SavingIsComplete == Spec => SaveAllIsComplete
<1>1. Inv /\ [Next]_vars =>
        ((phase = "save" /\ saveAt = Len(dicts) /\ phase' = "ready") =>
           \A i \in DOMAIN dicts :
             (dicts[i].special = "personal" \/ (dicts[i].special = "repl" /\ opt.save_repl))
               => dicts[i].dict \in synced)
  <2> SUFFICES ASSUME Inv, phase = "save", saveAt = Len(dicts), NEW i \in DOMAIN dicts,
                      dicts[i].special = "personal" \/ (dicts[i].special = "repl" /\ opt.save_repl)
               PROVE  dicts[i].dict \in synced
    OBVIOUS
  <2>1. dicts[i].save_on_saveall
    BY DEF Inv, SavedInv
  <2>2. i \in 1..saveAt
    BY Lists DEF Inv
  <2> QED BY <2>1, <2>2 DEF Inv, SavedInv
<1> QED BY <1>1, Invariant, PTL DEF Spec, SaveAllIsComplete
=============================================================================
