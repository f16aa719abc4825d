------------------------- MODULE GlobalCache_proofs -------------------------
(***************************************************************************)
(* Proofs about GlobalCache for any number of threads, caches, keys,       *)
(* objects and pointers, however deep the data nests.                      *)
(*                                                                         *)
(* Three things are true of the calls in progress and of nothing else:     *)
(*   MutexInv  two frames past their lock never share a cache;             *)
(*   ShapeInv  who called whom: an inner frame works on the member of the  *)
(*             object that its caller builds or deletes, an outermost one  *)
(*             on a pointer of its own thread;                             *)
(*   FrameInv  what a frame may rely on while other threads run.           *)
(* With them the counts are exact (CountInv), whatever is looked at.       *)
(***************************************************************************)
EXTENDS GlobalCache, FiniteSetTheorems, SequenceTheorems, TLAPS

Holding(f)  == f.at \notin {"global", "lock"}
Building(f) == f.op = "get" /\ f.at \in {"load", "built", "fail", "failed"}
Freeing(f)  == f.op = "release" /\ f.at = "free"
Owning(f)   == Building(f) \/ Freeing(f)

Pointers(o) == {h \in Holder : ptr[h] = o}

MutexInv ==
  /\ \A t \in Thread : \A i \in DOMAIN stack[t] :
       Holding(stack[t][i]) => lock[stack[t][i].cache] = t
  /\ \A t \in Thread : \A i, j \in DOMAIN stack[t] :
       /\ Holding(stack[t][i]) /\ Holding(stack[t][j])
       /\ stack[t][i].cache = stack[t][j].cache
       => i = j

\* f was called by g.
Link(f, g) ==
  /\ f.holder = g.obj
  /\ \/ f.op = "get" /\ g.op = "get" /\ g.at = "built"
     \/ f.op = "release" /\ g.op = "get" /\ g.at = "failed"
     \/ f.op = "release" /\ g.op = "release" /\ g.at = "free"

ShapeInv ==
  \A t \in Thread : \A i \in DOMAIN stack[t] :
    IF i = Len(stack[t])
    THEN stack[t][i].op # "reset" => stack[t][i].holder \in Slots(t)
    ELSE Link(stack[t][i], stack[t][i + 1])

GetOK(f) ==
  /\ f.at \in {"lock", "find", "load", "built", "fail", "failed"}
  /\ f.key \in Key /\ f.cache = CacheOf[f.key]
  /\ f.at \in {"lock", "find"} => ptr[f.holder] = None
  /\ Building(f) => /\ f.obj \in live \ attached
                    /\ key[f.obj] = f.key
                    /\ \A h \in Holder : ptr[h] = f.obj <=> h = f.holder
                    /\ \A o \in attached : key[o] # f.key
CopyOK(f) ==
  /\ f.at \in {"lock", "bump"}
  /\ f.obj \in live /\ f.cache = CacheOf[key[f.obj]]
  /\ ptr[f.holder] = None
ReleaseOK(f) ==
  /\ f.at \in {"lock", "drop", "test", "free"}
  /\ f.obj \in live /\ f.cache = CacheOf[key[f.obj]]
  /\ ptr[f.holder] = IF f.at \in {"lock", "drop"} THEN f.obj ELSE None
  /\ f.at = "free" => f.obj \notin attached /\ refs[f.obj] = 0
ResetOK(f) == f.at \in {"global", "lock", "detach"}

FrameOK(f) ==
  /\ f.op # "reset" => f.holder \in Holder
  /\ f.op = "get" => GetOK(f)
  /\ f.op = "copy" => CopyOK(f)
  /\ f.op = "release" => ReleaseOK(f)
  /\ f.op = "reset" => ResetOK(f)

FrameInv == \A t \in Thread : \A i \in DOMAIN stack[t] : \A f \in Frame :
              f = stack[t][i] => FrameOK(f)

\* What the innermost frame knows besides.
TopOK(t) ==
  stack[t] # <<>> =>
    /\ Top(t).at \in {"load", "failed", "free"} => ptr[Top(t).obj] = None
    /\ Top(t).op = "copy" => Top(t).obj \in Reachable(t)
TopInv == \A t \in Thread : TopOK(t)

Dying(o) == \E t \in Thread : \E i \in DOMAIN stack[t] :
              /\ stack[t][i].op = "release" /\ stack[t][i].at \in {"test", "free"}
              /\ stack[t][i].obj = o

ObjInv ==
  /\ \A h \in Holder : ptr[h] # None => ptr[h] \in live
  /\ attached \subseteq live
  /\ \A o \in live : key[o] \in Key
  /\ \A o \in Obj \ live : ptr[o] = None

CountInv == \A o \in live : IsFiniteSet(Pointers(o)) /\ refs[o] = Cardinality(Pointers(o))

DyingInv == \A o \in live : refs[o] = 0 => Dying(o)

Inv == TypeOK /\ MutexInv /\ ShapeInv /\ FrameInv /\ TopInv /\ ObjInv /\ CountInv
       /\ DyingInv /\ OneObjectPerKey

-----------------------------------------------------------------------------
\* The innermost frame of t becomes g; the other frames and threads stay as they are.
LEMMA Replaced ==
  ASSUME TypeOK, NEW t \in Thread, stack[t] # <<>>, NEW g \in Frame,
         stack' = [stack EXCEPT ![t] = <<g>> \o Tail(@)]
  PROVE  /\ stack' \in [Thread -> Seq(Frame)]
         /\ \A u \in Thread \ {t} : stack'[u] = stack[u]
         /\ Len(stack[t]) \in Nat \ {0} /\ DOMAIN stack[t] = 1 .. Len(stack[t])
         /\ Len(stack'[t]) = Len(stack[t]) /\ DOMAIN stack'[t] = 1 .. Len(stack[t])
         /\ stack'[t][1] = g /\ stack'[t] # <<>> /\ Head(stack'[t]) = g
         /\ \A i \in 2 .. Len(stack[t]) : stack'[t][i] = stack[t][i]
<1> DEFINE s == stack[t]
           r == <<g>> \o Tail(s)
<1>1. s \in Seq(Frame) /\ s # <<>>
  BY DEF TypeOK
<1>2. Tail(s) \in Seq(Frame) /\ Len(Tail(s)) = Len(s) - 1
      /\ \A i \in 1 .. Len(s) - 1 : Tail(s)[i] = s[i + 1]
  BY <1>1, HeadTailProperties
<1>3. Len(s) \in Nat \ {0} /\ DOMAIN s = 1 .. Len(s)
  BY <1>1, EmptySeq, LenProperties
<1>4. <<g>> \in Seq(Frame) /\ Len(<<g>>) = 1 /\ <<g>>[1] = g
  OBVIOUS
<1>5. /\ r \in Seq(Frame) /\ Len(r) = Len(s)
      /\ \A i \in 1 .. Len(s) : r[i] = IF i <= 1 THEN g ELSE Tail(s)[i - 1]
  BY <1>2, <1>3, <1>4, ConcatProperties
<1>6. stack'[t] = r /\ \A u \in Thread \ {t} : stack'[u] = stack[u]
  BY DEF TypeOK
<1>7. r # <<>> /\ Head(r) = r[1] /\ r[1] = g
  BY <1>3, <1>5, EmptySeq
<1>8. \A i \in 2 .. Len(s) : r[i] = s[i]
  BY <1>2, <1>3, <1>5
<1>9. stack' \in [Thread -> Seq(Frame)]
  BY <1>5 DEF TypeOK
<1> QED BY <1>3, <1>5, <1>6, <1>7, <1>8, <1>9, LenProperties

\* The innermost frame of t becomes g and calls f.
Pushes(t, f, g) == stack' = [stack EXCEPT ![t] = <<f, g>> \o Tail(@)]

\* The innermost frame of t becomes g and calls f: the frames below g move down by one.
LEMMA Pushed ==
  ASSUME TypeOK, NEW t \in Thread, stack[t] # <<>>, NEW f \in Frame, NEW g \in Frame,
         stack' = [stack EXCEPT ![t] = <<f, g>> \o Tail(@)]
  PROVE  /\ stack' \in [Thread -> Seq(Frame)]
         /\ \A u \in Thread \ {t} : stack'[u] = stack[u]
         /\ Len(stack[t]) \in Nat \ {0} /\ DOMAIN stack[t] = 1 .. Len(stack[t])
         /\ Len(stack'[t]) = Len(stack[t]) + 1 /\ DOMAIN stack'[t] = 1 .. Len(stack[t]) + 1
         /\ stack'[t][1] = f /\ stack'[t] # <<>> /\ Head(stack'[t]) = f
         /\ stack'[t][2] = g
         /\ \A i \in 2 .. Len(stack[t]) : stack'[t][i + 1] = stack[t][i]
<1> DEFINE s == stack[t]
           r == <<f, g>> \o Tail(s)
<1>1. s \in Seq(Frame) /\ s # <<>>
  BY DEF TypeOK
<1>2. Tail(s) \in Seq(Frame) /\ Len(Tail(s)) = Len(s) - 1
      /\ \A i \in 1 .. Len(s) - 1 : Tail(s)[i] = s[i + 1]
  BY <1>1, HeadTailProperties
<1>3. Len(s) \in Nat \ {0} /\ DOMAIN s = 1 .. Len(s)
  BY <1>1, EmptySeq, LenProperties
<1>4. /\ <<f, g>> \in Seq(Frame) /\ Len(<<f, g>>) = 2
      /\ <<f, g>>[1] = f /\ <<f, g>>[2] = g
  OBVIOUS
<1>5. /\ r \in Seq(Frame) /\ Len(r) = Len(s) + 1
      /\ \A i \in 1 .. Len(s) + 1 : r[i] = IF i <= 2 THEN <<f, g>>[i] ELSE Tail(s)[i - 2]
  BY <1>2, <1>3, <1>4, ConcatProperties
<1>6. stack'[t] = r /\ \A u \in Thread \ {t} : stack'[u] = stack[u]
  BY DEF TypeOK
<1>7. r # <<>> /\ Head(r) = r[1] /\ r[1] = f /\ r[2] = g
  BY <1>3, <1>4, <1>5, EmptySeq
<1>8. \A i \in 2 .. Len(s) : r[i + 1] = s[i]
  <2> TAKE i \in 2 .. Len(s)
  <2>1. i + 1 \in 1 .. Len(s) + 1 /\ ~(i + 1 <= 2) /\ (i + 1) - 2 = i - 1 /\ i - 1 \in 1 .. Len(s) - 1
    BY <1>3
  <2>2. r[i + 1] = Tail(s)[i - 1]
    BY <2>1, <1>5
  <2> QED BY <2>1, <2>2, <1>2
<1>9. stack' \in [Thread -> Seq(Frame)]
  BY <1>5 DEF TypeOK
<1> QED BY <1>3, <1>5, <1>6, <1>7, <1>8, <1>9, LenProperties

\* The innermost call of t returns: the frames below it move up by one.
LEMMA Popped ==
  ASSUME TypeOK, NEW t \in Thread, stack[t] # <<>>,
         stack' = [stack EXCEPT ![t] = Tail(@)]
  PROVE  /\ stack' \in [Thread -> Seq(Frame)]
         /\ \A u \in Thread \ {t} : stack'[u] = stack[u]
         /\ Len(stack[t]) \in Nat \ {0} /\ DOMAIN stack[t] = 1 .. Len(stack[t])
         /\ Len(stack'[t]) = Len(stack[t]) - 1 /\ DOMAIN stack'[t] = 1 .. Len(stack[t]) - 1
         /\ \A i \in 1 .. Len(stack[t]) - 1 : stack'[t][i] = stack[t][i + 1]
         /\ stack'[t] # <<>> => Len(stack[t]) > 1 /\ Head(stack'[t]) = stack[t][2]
<1> DEFINE s == stack[t]
<1>1. s \in Seq(Frame) /\ s # <<>>
  BY DEF TypeOK
<1>2. Tail(s) \in Seq(Frame) /\ Len(Tail(s)) = Len(s) - 1
      /\ \A i \in 1 .. Len(s) - 1 : Tail(s)[i] = s[i + 1]
  BY <1>1, HeadTailProperties
<1>3. Len(s) \in Nat \ {0} /\ DOMAIN s = 1 .. Len(s)
  BY <1>1, EmptySeq, LenProperties
<1>4. stack'[t] = Tail(s) /\ \A u \in Thread \ {t} : stack'[u] = stack[u]
  BY DEF TypeOK
<1>5. Tail(s) # <<>> => Len(s) > 1 /\ Head(Tail(s)) = s[2]
  <2> SUFFICES ASSUME Tail(s) # <<>> PROVE Len(s) > 1 /\ Head(Tail(s)) = s[2]
    OBVIOUS
  <2>1. Len(Tail(s)) \in Nat \ {0}
    BY <1>2, EmptySeq
  <2>2. Len(s) > 1 /\ Head(Tail(s)) = Tail(s)[1]
    BY <2>1, <1>2, <1>3
  <2> QED BY <2>2, <1>2, <1>3
<1>6. stack' \in [Thread -> Seq(Frame)]
  BY <1>2 DEF TypeOK
<1> QED BY <1>2, <1>3, <1>4, <1>5, <1>6, LenProperties

-----------------------------------------------------------------------------
\* Who works on what.

\* f is a call in progress, and not the innermost of t.
Other(t, f) == \E u \in Thread : \E i \in DOMAIN stack[u] : f = stack[u][i] /\ (u # t \/ i # 1)

\* A thread inside a call has an innermost frame, the first of its stack.
LEMMA TopIsFirst ==
  ASSUME TypeOK, NEW t \in Thread, stack[t] # <<>>
  PROVE  /\ Len(stack[t]) \in Nat \ {0} /\ DOMAIN stack[t] = 1 .. Len(stack[t])
         /\ Top(t) = stack[t][1] /\ Top(t) \in Frame
<1>1. stack[t] \in Seq(Frame)
  BY DEF TypeOK
<1>2. Len(stack[t]) \in Nat \ {0} /\ DOMAIN stack[t] = 1 .. Len(stack[t])
  BY <1>1, EmptySeq, LenProperties
<1>3. Top(t) = stack[t][1]
  BY <1>1 DEF Top
<1> QED BY <1>1, <1>2, <1>3, ElementOfSeq

\* What a stack holds are frames, and it is not empty when it holds one.
LEMMA InFrame ==
  ASSUME TypeOK, NEW t \in Thread, NEW i \in DOMAIN stack[t]
  PROVE  /\ stack[t][i] \in Frame /\ stack[t] # <<>>
         /\ Len(stack[t]) \in Nat /\ i \in 1 .. Len(stack[t]) /\ DOMAIN stack[t] = 1 .. Len(stack[t])
<1>1. stack[t] \in Seq(Frame)
  BY DEF TypeOK
<1>2. Len(stack[t]) \in Nat /\ DOMAIN stack[t] = 1 .. Len(stack[t])
  BY <1>1, LenProperties
<1>3. stack[t] # <<>>
  BY <1>2, EmptySeq
<1> QED BY <1>1, <1>2, <1>3, ElementOfSeq

\* An object being built or deleted is allocated, and its cache is locked.
LEMMA Owned ==
  ASSUME TypeOK, NEW f \in Frame, FrameOK(f), Owning(f)
  PROVE  f.obj \in live /\ f.obj \in Obj /\ f.cache = CacheOf[key[f.obj]] /\ Holding(f)
BY DEF TypeOK, FrameOK, GetOK, ReleaseOK, Owning, Building, Freeing, Holding

\* Nothing points to an object whose count is 0.
LEMMA NoPointers ==
  ASSUME CountInv, NEW o \in live, refs[o] = 0, NEW h \in Holder
  PROVE  ptr[h] # o
<1>1. Pointers(o) = {}
  BY FS_EmptySet DEF CountInv
<1> QED BY <1>1 DEF Pointers

\* Two frames past the lock of one cache are the same.
LEMMA SameFrame ==
  ASSUME MutexInv, NEW t \in Thread, NEW i \in DOMAIN stack[t],
         NEW u \in Thread, NEW j \in DOMAIN stack[u],
         Holding(stack[t][i]), Holding(stack[u][j]), stack[t][i].cache = stack[u][j].cache
  PROVE  t = u /\ i = j
<1>1. t = u
  BY DEF MutexInv
<1> QED BY <1>1 DEF MutexInv

\* The holder of an outermost frame is a pointer of the thread, that of an inner one the
\* member of the object that the caller owns.
LEMMA HolderOf ==
  ASSUME Inv, NEW t \in Thread, NEW i \in DOMAIN stack[t], stack[t][i].op # "reset"
  PROVE  \/ /\ i = Len(stack[t])
            /\ stack[t][i].holder \in Slot /\ OwnerOf[stack[t][i].holder] = t
         \/ /\ i + 1 \in DOMAIN stack[t]
            /\ Link(stack[t][i], stack[t][i + 1])
            /\ stack[t][i + 1] \in Frame /\ FrameOK(stack[t][i + 1]) /\ Owning(stack[t][i + 1])
            /\ stack[t][i].holder = stack[t][i + 1].obj
            /\ stack[t][i].holder \in Obj
<1>1. /\ Len(stack[t]) \in Nat /\ i \in 1 .. Len(stack[t]) /\ DOMAIN stack[t] = 1 .. Len(stack[t])
  BY InFrame DEF Inv
<1>2. CASE i = Len(stack[t])
  BY <1>2 DEF Inv, ShapeInv, Slots
<1>3. CASE i # Len(stack[t])
  <2>1. i + 1 \in DOMAIN stack[t] /\ Link(stack[t][i], stack[t][i + 1])
    BY <1>1, <1>3 DEF Inv, ShapeInv
  <2>2. stack[t][i + 1] \in Frame /\ FrameOK(stack[t][i + 1])
    BY <2>1, InFrame DEF Inv, FrameInv
  <2>3. Owning(stack[t][i + 1]) /\ stack[t][i].holder = stack[t][i + 1].obj
    BY <2>1 DEF Link, Owning, Building, Freeing
  <2> QED BY <2>1, <2>2, <2>3, Owned DEF Inv
<1> QED BY <1>2, <1>3

\* No two calls in progress work on the same pointer.
LEMMA HoldersDiffer ==
  ASSUME Inv, NEW t \in Thread, NEW i \in DOMAIN stack[t],
         NEW u \in Thread, NEW j \in DOMAIN stack[u], t # u \/ i # j,
         stack[t][i].op # "reset", stack[u][j].op # "reset"
  PROVE  stack[t][i].holder # stack[u][j].holder
<1> SUFFICES ASSUME stack[t][i].holder = stack[u][j].holder PROVE FALSE
  OBVIOUS
<1> DEFINE f == stack[t][i]
           g == stack[u][j]
<1>1. CASE i = Len(stack[t]) /\ f.holder \in Slot /\ OwnerOf[f.holder] = t
  <2>1. j = Len(stack[u]) /\ OwnerOf[g.holder] = u
    BY <1>1, HolderOf, NamesAssumption
  <2> QED BY <1>1, <2>1
<1>2. CASE /\ i + 1 \in DOMAIN stack[t]
           /\ stack[t][i + 1] \in Frame /\ FrameOK(stack[t][i + 1]) /\ Owning(stack[t][i + 1])
           /\ f.holder = stack[t][i + 1].obj
           /\ f.holder \in Obj
  <2>1. /\ j + 1 \in DOMAIN stack[u]
        /\ stack[u][j + 1] \in Frame /\ FrameOK(stack[u][j + 1]) /\ Owning(stack[u][j + 1])
        /\ g.holder = stack[u][j + 1].obj
    BY <1>2, HolderOf, NamesAssumption
  <2>2. /\ Holding(stack[t][i + 1]) /\ Holding(stack[u][j + 1])
        /\ stack[t][i + 1].cache = stack[u][j + 1].cache
    BY <1>2, <2>1, Owned DEF Inv
  <2>3. t = u /\ i + 1 = j + 1
    BY <1>2, <2>1, <2>2, SameFrame DEF Inv
  <2>4. i \in Int /\ j \in Int
    BY InFrame DEF Inv
  <2> QED BY <2>3, <2>4
<1> QED BY <1>1, <1>2, HolderOf

\* The other calls keep their promises, share no lock with t and work on other pointers.
LEMMA OtherFacts ==
  ASSUME Inv, NEW t \in Thread, stack[t] # <<>>, NEW f, Other(t, f)
  PROVE  /\ f \in Frame /\ FrameOK(f)
         /\ Holding(f) /\ Holding(Top(t)) => f.cache # Top(t).cache
         /\ f.op # "reset" /\ Top(t).op # "reset" => f.holder # Top(t).holder
<1> PICK u \in Thread : \E i \in DOMAIN stack[u] : f = stack[u][i] /\ (u # t \/ i # 1)
  BY DEF Other
<1> PICK i \in DOMAIN stack[u] : f = stack[u][i] /\ (u # t \/ i # 1)
  OBVIOUS
<1>1. 1 \in DOMAIN stack[t] /\ Top(t) = stack[t][1]
  BY TopIsFirst DEF Inv
<1>2. f \in Frame /\ FrameOK(f)
  BY InFrame DEF Inv, FrameInv
<1>3. Holding(f) /\ Holding(Top(t)) => f.cache # Top(t).cache
  BY <1>1, SameFrame DEF Inv
<1>4. f.op # "reset" /\ Top(t).op # "reset" => f.holder # Top(t).holder
  BY <1>1, HoldersDiffer
<1> QED BY <1>2, <1>3, <1>4

\* The pointers of other threads are neither what a call changes nor lead to it.
LEMMA OwnPointersStay ==
  ASSUME Inv, NEW t \in Thread, stack[t] # <<>>, Top(t).op # "reset",
         NEW u \in Thread, u # t, NEW s \in Slots(u)
  PROVE  s # Top(t).holder /\ ptr[s] # Top(t).holder
<1> DEFINE f == stack[t][1]
<1>1. 1 \in DOMAIN stack[t] /\ Top(t) = f
  BY TopIsFirst DEF Inv
<1>2. s \in Slot /\ OwnerOf[s] = u /\ s \in Holder /\ ptr[s] \in Obj \cup {None}
  BY DEF Slots, Holder, Inv, TypeOK
<1>3. CASE f.holder \in Slot /\ OwnerOf[f.holder] = t
  BY <1>1, <1>2, <1>3, NamesAssumption, NoneAssumption
<1>4. CASE /\ 1 + 1 \in DOMAIN stack[t]
           /\ stack[t][1 + 1] \in Frame /\ FrameOK(stack[t][1 + 1]) /\ Owning(stack[t][1 + 1])
           /\ f.holder = stack[t][1 + 1].obj
           /\ f.holder \in Obj
  <2> DEFINE g == stack[t][1 + 1]
  <2>1. s # f.holder
    BY <1>2, <1>4, NamesAssumption
  <2>2. ASSUME Building(g), ptr[s] = g.obj PROVE FALSE
    <3>1. s = g.holder /\ g.op # "reset"
      BY <1>2, <1>4, <2>2 DEF FrameOK, GetOK, Building
    <3> QED BY <1>2, <1>4, <3>1, HolderOf, NamesAssumption
  <2>3. ASSUME Freeing(g), ptr[s] = g.obj PROVE FALSE
    <3>1. g.obj \in live /\ refs[g.obj] = 0
      BY <1>4, <2>3 DEF FrameOK, ReleaseOK, Freeing
    <3> QED BY <1>2, <2>3, <3>1, NoPointers DEF Inv
  <2> QED BY <1>1, <1>4, <2>1, <2>2, <2>3 DEF Owning
<1> QED BY <1>1, <1>3, <1>4, HolderOf

\* What t does to its pointer changes nothing that another thread can reach.
LEMMA ReachableKept ==
  ASSUME Inv, NEW t \in Thread, stack[t] # <<>>, Top(t).op # "reset",
         NEW u \in Thread, u # t, NEW x,
         ptr' = [ptr EXCEPT ![Top(t).holder] = x]
  PROVE  Reachable(u)' = Reachable(u)
<1> DEFINE own == {ptr[s] : s \in Slots(u)} \ {None}
<1>1. \A s \in Slots(u) : ptr'[s] = ptr[s] /\ s \in Holder
  BY OwnPointersStay DEF Inv, TypeOK, Slots, Holder
<1>2. own' = own
  BY <1>1 DEF Slots
<1>3. \A o \in own : o # Top(t).holder /\ o \in Obj
  BY <1>1, OwnPointersStay DEF Inv, TypeOK, Holder
<1>4. \A o \in own : ptr'[o] = ptr[o]
  BY <1>3 DEF Inv, TypeOK, Holder
<1>5. ({ptr[o] : o \in own} \ {None})' = {ptr[o] : o \in own} \ {None}
  BY <1>2, <1>4
<1> QED BY <1>2, <1>5 DEF Reachable

\* So what the innermost frames of other threads know stays true.
LEMMA TopKept ==
  ASSUME Inv, NEW t \in Thread, stack[t] # <<>>, Top(t).op # "reset",
         NEW u \in Thread, u # t, NEW x,
         ptr' = [ptr EXCEPT ![Top(t).holder] = x], stack'[u] = stack[u]
  PROVE  TopOK(u)'
<1> SUFFICES ASSUME stack[u] # <<>>
             PROVE  /\ Top(u).at \in {"load", "failed", "free"} => ptr'[Top(u).obj] = None
                    /\ Top(u).op = "copy" => Top(u).obj \in Reachable(u)'
  BY DEF TopOK, Top
<1>1. TopOK(u)
  BY DEF Inv, TopInv
<1>2. ASSUME Top(u).at \in {"load", "failed", "free"} PROVE ptr'[Top(u).obj] = None
  <2>1. /\ 1 \in DOMAIN stack[u] /\ Top(u) = stack[u][1] /\ Top(u) \in Frame
        /\ 1 \in DOMAIN stack[t] /\ Top(t) = stack[t][1]
    BY TopIsFirst DEF Inv
  <2>2. FrameOK(Top(u))
    BY <2>1 DEF Inv, FrameInv
  <2>3. Owning(Top(u))
    BY <1>2, <2>1, <2>2 DEF FrameOK, GetOK, CopyOK, ReleaseOK, ResetOK, Owning, Building, Freeing, Frame
  <2>4. Top(u).obj \in Obj /\ Holding(Top(u)) /\ Top(u).cache = CacheOf[key[Top(u).obj]]
    BY <2>1, <2>2, <2>3, Owned DEF Inv
  <2>5. Top(u).obj # Top(t).holder
    <3> SUFFICES ASSUME Top(u).obj = Top(t).holder PROVE FALSE
      OBVIOUS
    <3>1. /\ 1 + 1 \in DOMAIN stack[t]
          /\ stack[t][1 + 1] \in Frame /\ FrameOK(stack[t][1 + 1]) /\ Owning(stack[t][1 + 1])
          /\ Top(t).holder = stack[t][1 + 1].obj
      BY <2>1, <2>4, HolderOf, NamesAssumption
    <3>2. Holding(stack[t][1 + 1]) /\ stack[t][1 + 1].cache = Top(u).cache
      BY <2>4, <3>1, Owned DEF Inv
    <3> QED BY <2>1, <2>4, <3>1, <3>2, SameFrame DEF Inv
  <2>6. ptr[Top(u).obj] = None
    BY <1>1, <1>2 DEF TopOK
  <2> QED BY <2>4, <2>5, <2>6 DEF Inv, TypeOK, Holder
<1>3. ASSUME Top(u).op = "copy" PROVE Top(u).obj \in Reachable(u)'
  BY <1>1, <1>3, ReachableKept DEF TopOK
<1> QED BY <1>2, <1>3

\* What a thread copies is not being built or deleted by another.
LEMMA CopiedNotOwned ==
  ASSUME Inv, NEW t \in Thread, NEW o \in Reachable(t),
         NEW u \in Thread, u # t, NEW i \in DOMAIN stack[u], Owning(stack[u][i])
  PROVE  stack[u][i].obj # o
<1> DEFINE f == stack[u][i]
<1> SUFFICES ASSUME f.obj = o PROVE FALSE
  OBVIOUS
<1>1. f \in Frame /\ FrameOK(f)
  BY InFrame DEF Inv, FrameInv
<1>2. f.obj \in live /\ f.obj \in Obj
  BY <1>1, Owned DEF Inv
<1>3. PICK h \in Holder : ptr[h] = o /\ (h \in Slots(t) \/ (h \in Obj /\ \E s \in Slots(t) : ptr[s] = h))
  BY DEF Reachable, Slots, Holder, Inv, TypeOK
<1>4. Building(f)
  <2> SUFFICES ASSUME Freeing(f) PROVE FALSE
    BY DEF Owning
  <2>1. refs[o] = 0
    BY <1>1 DEF Freeing, FrameOK, ReleaseOK
  <2> QED BY <1>2, <1>3, <2>1, NoPointers DEF Inv
<1>5. h = f.holder /\ f.op # "reset"
  BY <1>1, <1>3, <1>4 DEF FrameOK, GetOK, Building
<1>6. CASE h \in Slots(t)
  BY <1>5, <1>6, HolderOf, NamesAssumption DEF Slots
<1>7. CASE h \in Obj /\ \E s \in Slots(t) : ptr[s] = h
  <2> PICK s \in Slots(t) : ptr[s] = h
    BY <1>7
  <2>1. /\ i + 1 \in DOMAIN stack[u]
        /\ Link(f, stack[u][i + 1]) /\ FrameOK(stack[u][i + 1]) /\ h = stack[u][i + 1].obj
    BY <1>5, <1>7, HolderOf, NamesAssumption
  <2>2. Building(stack[u][i + 1])
    BY <1>4, <2>1 DEF Link, Building
  <2>3. s = stack[u][i + 1].holder /\ stack[u][i + 1].op # "reset" /\ s \in Slot /\ OwnerOf[s] = t
    BY <2>1, <2>2 DEF FrameOK, GetOK, Building, Slots, Holder
  <2> QED BY <2>1, <2>3, HolderOf, NamesAssumption
<1> QED BY <1>3, <1>6, <1>7

-----------------------------------------------------------------------------
\* The invariants of the calls, along the three moves.  The innermost frame becomes g,
\* calls f, or returns.

\* Every frame, whatever it does, names a cache.
LEMMA CacheOfFrame ==
  ASSUME Inv
  PROVE  \A u \in Thread : \A i \in DOMAIN stack[u] : stack[u][i].cache \in Cache
<1> SUFFICES ASSUME NEW u \in Thread, NEW i \in DOMAIN stack[u] PROVE stack[u][i].cache \in Cache
  OBVIOUS
<1>1. stack[u][i] \in Frame
  BY InFrame DEF Inv
<1> QED BY <1>1 DEF Frame

\* When the innermost frame of t moves on in place, who called whom, what the frames rely on
\* and, unless a lock was taken, the mutual exclusion stay as they are.
LEMMA GoesOn ==
  ASSUME Inv, NEW t \in Thread, stack[t] # <<>>, NEW g \in Frame,
         stack' = [stack EXCEPT ![t] = <<g>> \o Tail(@)],
         g.op = Top(t).op, g.holder = Top(t).holder, g.cache = Top(t).cache,
         FrameOK(g)', \A f \in Frame : Other(t, f) => FrameOK(f)'
  PROVE  /\ ShapeInv' /\ FrameInv'
         /\ (\A k \in Cache : lock'[k] = lock[k]) /\ (Holding(g) => Holding(Top(t)))
            => MutexInv'
         /\ \A o : Dying(o) => Dying(o)' \/ (Top(t).op = "release" /\ Top(t).obj = o)
         /\ \A u \in Thread \ {t} : stack'[u] = stack[u]
         /\ stack' \in [Thread -> Seq(Frame)]
         /\ Top(t)' = g /\ stack'[t] # <<>> /\ 1 \in DOMAIN stack'[t] /\ stack'[t][1] = g
<1>1. /\ stack' \in [Thread -> Seq(Frame)]
      /\ \A u \in Thread \ {t} : stack'[u] = stack[u]
      /\ Len(stack[t]) \in Nat \ {0} /\ DOMAIN stack[t] = 1 .. Len(stack[t])
      /\ Len(stack'[t]) = Len(stack[t]) /\ DOMAIN stack'[t] = 1 .. Len(stack[t])
      /\ stack'[t][1] = g /\ stack'[t] # <<>> /\ Head(stack'[t]) = g
      /\ \A i \in 2 .. Len(stack[t]) : stack'[t][i] = stack[t][i]
  BY Replaced DEF Inv
<1>2. Top(t) = stack[t][1]
  BY TopIsFirst DEF Inv
<1>3. Top(t)' = g
  BY <1>1 DEF Top
<1>4. FrameInv'
  <2> SUFFICES ASSUME NEW u \in Thread, NEW i \in DOMAIN stack'[u], NEW f \in Frame,
                      f = stack'[u][i]
               PROVE  FrameOK(f)'
    BY DEF FrameInv
  <2>1. CASE u = t /\ i = 1
    BY <1>1, <2>1
  <2>2. CASE u # t \/ i # 1
    <3>1. i \in DOMAIN stack[u] /\ stack'[u][i] = stack[u][i]
      BY <1>1, <2>2
    <3>2. Other(t, f)
      BY <2>2, <3>1 DEF Other
    <3> QED BY <3>2
  <2> QED BY <2>1, <2>2
<1>5. ShapeInv'
  <2> SUFFICES ASSUME NEW u \in Thread, NEW i \in DOMAIN stack'[u]
               PROVE  IF i = Len(stack'[u])
                      THEN stack'[u][i].op # "reset" => stack'[u][i].holder \in Slots(u)
                      ELSE Link(stack'[u][i], stack'[u][i + 1])
    BY DEF ShapeInv, Slots, Link
  <2>1. i \in DOMAIN stack[u] /\ (i = Len(stack'[u]) <=> i = Len(stack[u]))
    BY <1>1
  <2>2. stack'[u][i].op = stack[u][i].op /\ stack'[u][i].holder = stack[u][i].holder
    BY <1>1, <1>2, <2>1
  <2>3. i # Len(stack[u]) => stack'[u][i + 1] = stack[u][i + 1]
    BY <1>1, <2>1, InFrame DEF Inv
  <2>4. IF i = Len(stack[u])
        THEN stack[u][i].op # "reset" => stack[u][i].holder \in Slots(u)
        ELSE Link(stack[u][i], stack[u][i + 1])
    BY <2>1 DEF Inv, ShapeInv
  <2>5. CASE i = Len(stack[u])
    BY <2>1, <2>2, <2>4, <2>5
  <2>6. CASE i # Len(stack[u])
    <3>1. Link(stack[u][i], stack[u][i + 1]) /\ stack'[u][i + 1] = stack[u][i + 1]
      BY <2>3, <2>4, <2>6
    <3>2. Link(stack'[u][i], stack'[u][i + 1])
      BY <2>2, <3>1 DEF Link
    <3> QED BY <2>1, <2>6, <3>2
  <2> QED BY <2>5, <2>6
<1>6. ASSUME \A k \in Cache : lock'[k] = lock[k], Holding(g) => Holding(Top(t)) PROVE MutexInv'
  <2>1. \A u \in Thread : \A i \in DOMAIN stack'[u] :
          /\ i \in DOMAIN stack[u]
          /\ Holding(stack'[u][i]) => Holding(stack[u][i])
          /\ stack'[u][i].cache = stack[u][i].cache
    BY <1>1, <1>2, <1>6
  <2>2. \A u \in Thread : \A i \in DOMAIN stack[u] : stack[u][i].cache \in Cache
    BY CacheOfFrame
  <2> QED BY SMTT(30), <1>6, <2>1, <2>2 DEF Inv, MutexInv, Holding
<1>7. ASSUME NEW o, Dying(o), ~(Top(t).op = "release" /\ Top(t).obj = o) PROVE Dying(o)'
  <2> PICK u \in Thread : \E i \in DOMAIN stack[u] :
              /\ stack[u][i].op = "release" /\ stack[u][i].at \in {"test", "free"}
              /\ stack[u][i].obj = o
    BY <1>7 DEF Dying
  <2> PICK i \in DOMAIN stack[u] :
              /\ stack[u][i].op = "release" /\ stack[u][i].at \in {"test", "free"}
              /\ stack[u][i].obj = o
    OBVIOUS
  <2>1. i \in DOMAIN stack'[u] /\ stack'[u][i] = stack[u][i]
    BY <1>1, <1>2, <1>7
  <2> QED BY <2>1 DEF Dying
<1> QED BY <1>1, <1>3, <1>4, <1>5, <1>6, <1>7

\* The same when it calls f, which has no lock yet.
LEMMA Calls ==
  ASSUME Inv, NEW t \in Thread, stack[t] # <<>>, NEW f \in Frame, NEW g \in Frame,
         Pushes(t, f, g),
         g.op = Top(t).op, g.holder = Top(t).holder, g.cache = Top(t).cache,
         Link(f, g), ~Holding(f), f.at # "test",
         FrameOK(f)', FrameOK(g)', \A e \in Frame : Other(t, e) => FrameOK(e)'
  PROVE  /\ ShapeInv' /\ FrameInv'
         /\ lock' = lock /\ (Holding(g) => Holding(Top(t))) => MutexInv'
         /\ \A o : Dying(o) => Dying(o)' \/ (Top(t).op = "release" /\ Top(t).obj = o)
         /\ \A u \in Thread \ {t} : stack'[u] = stack[u]
         /\ stack' \in [Thread -> Seq(Frame)]
         /\ Top(t)' = f /\ stack'[t] # <<>> /\ 2 \in DOMAIN stack'[t] /\ stack'[t][2] = g
<1> USE DEF Pushes
<1>1. /\ stack' \in [Thread -> Seq(Frame)]
      /\ \A u \in Thread \ {t} : stack'[u] = stack[u]
      /\ Len(stack[t]) \in Nat \ {0} /\ DOMAIN stack[t] = 1 .. Len(stack[t])
      /\ Len(stack'[t]) = Len(stack[t]) + 1 /\ DOMAIN stack'[t] = 1 .. Len(stack[t]) + 1
      /\ stack'[t][1] = f /\ stack'[t] # <<>> /\ Head(stack'[t]) = f
      /\ stack'[t][2] = g
      /\ \A i \in 2 .. Len(stack[t]) : stack'[t][i + 1] = stack[t][i]
  BY Pushed DEF Inv
<1>2. Top(t) = stack[t][1]
  BY TopIsFirst DEF Inv
<1>3. Top(t)' = f /\ 2 \in DOMAIN stack'[t]
  BY <1>1 DEF Top
\* The frame that frame i of t was before the call.
<1>4. ASSUME NEW i \in DOMAIN stack'[t], i # 1, i # 2
      PROVE  i - 1 \in DOMAIN stack[t] /\ i - 1 # 1 /\ stack'[t][i] = stack[t][i - 1]
  <2>1. i - 1 \in 2 .. Len(stack[t]) /\ (i - 1) + 1 = i
    BY <1>1, <1>4
  <2> QED BY <1>1, <2>1
<1>5. FrameInv'
  <2> SUFFICES ASSUME NEW u \in Thread, NEW i \in DOMAIN stack'[u], NEW e \in Frame,
                      e = stack'[u][i]
               PROVE  FrameOK(e)'
    BY DEF FrameInv
  <2>1. CASE u = t /\ i \in {1, 2}
    <3>1. e = f \/ e = g
      BY <1>1, <2>1
    <3>2. CASE e = f
      BY <3>2
    <3>3. CASE e = g
      BY <3>3
    <3> QED BY <3>1, <3>2, <3>3
  <2>2. CASE u # t \/ i \notin {1, 2}
    <3>1. CASE u # t
      <4>1. Other(t, e)
        BY <1>1, <3>1 DEF Other
      <4> QED BY <4>1
    <3>2. CASE u = t
      <4>1. i - 1 \in DOMAIN stack[t] /\ i - 1 # 1 /\ e = stack[t][i - 1]
        BY <1>4, <2>2, <3>2
      <4>2. Other(t, e)
        BY <4>1 DEF Other
      <4> QED BY <4>2
    <3> QED BY <3>1, <3>2
  <2> QED BY <2>1, <2>2
<1>6. ShapeInv'
  <2> SUFFICES ASSUME NEW u \in Thread, NEW i \in DOMAIN stack'[u]
               PROVE  IF i = Len(stack'[u])
                      THEN stack'[u][i].op # "reset" => stack'[u][i].holder \in Slots(u)
                      ELSE Link(stack'[u][i], stack'[u][i + 1])
    BY DEF ShapeInv, Slots, Link
  <2>1. CASE u # t
    <3>1. stack'[u] = stack[u] /\ i \in DOMAIN stack[u]
      BY <1>1, <2>1
    <3> QED BY <3>1 DEF Inv, ShapeInv
  <2>2. CASE u = t /\ i = 1
    BY SMTT(30), <1>1, <2>2
  <2>3. CASE u = t /\ i = 2
    <3>1. IF 1 = Len(stack[t])
          THEN stack[t][1].op # "reset" => stack[t][1].holder \in Slots(t)
          ELSE Link(stack[t][1], stack[t][1 + 1])
      BY SMTT(30), <1>1 DEF Inv, ShapeInv
    <3>2. CASE Len(stack[t]) = 1
      BY <1>1, <1>2, <2>3, <3>1, <3>2
    <3>3. CASE Len(stack[t]) # 1
      <4>1. stack'[t][3] = stack[t][2]
        BY <1>1, <3>3
      <4>2. Link(g, stack[t][2])
        BY <1>2, <3>1, <3>3 DEF Link
      <4> QED BY <1>1, <2>3, <3>3, <4>1, <4>2
    <3> QED BY <3>2, <3>3
  <2>4. CASE u = t /\ i \notin {1, 2}
    <3>1. i - 1 \in DOMAIN stack[t] /\ stack'[t][i] = stack[t][i - 1]
      BY <1>4, <2>4
    <3>2. IF i - 1 = Len(stack[t])
          THEN stack[t][i - 1].op # "reset" => stack[t][i - 1].holder \in Slots(t)
          ELSE Link(stack[t][i - 1], stack[t][(i - 1) + 1])
      BY <3>1 DEF Inv, ShapeInv
    <3>3. CASE i = Len(stack'[t])
      BY <1>1, <2>4, <3>1, <3>2, <3>3
    <3>4. CASE i # Len(stack'[t])
      <4>1. i - 1 # Len(stack[t]) /\ (i - 1) + 1 = i /\ i \in 2 .. Len(stack[t])
        BY <1>1, <2>4, <3>4
      <4> QED BY <1>1, <2>4, <3>1, <3>2, <3>4, <4>1
    <3> QED BY <3>3, <3>4
  <2> QED BY <2>1, <2>2, <2>3, <2>4
<1>7. ASSUME lock' = lock, Holding(g) => Holding(Top(t)) PROVE MutexInv'
  \* Where the frame was, and that it held no more than it does now.
  <2> DEFINE was(u, i) == IF u = t /\ i # 1 THEN i - 1 ELSE i
  <2>1. \A u \in Thread : \A i \in DOMAIN stack'[u] : Holding(stack'[u][i]) =>
          /\ was(u, i) \in DOMAIN stack[u]
          /\ Holding(stack[u][was(u, i)])
          /\ stack'[u][i].cache = stack[u][was(u, i)].cache
          /\ u = t => i # 1
    <3> TAKE u \in Thread
    <3> TAKE i \in DOMAIN stack'[u]
    <3> HAVE Holding(stack'[u][i])
    <3>1. CASE u # t
      <4>1. stack'[u] = stack[u]
        BY <1>1, <3>1
      <4> QED BY <3>1, <4>1
    <3>2. CASE u = t
      BY <1>1, <1>2, <1>4, <1>7, <3>2
    <3> QED BY <3>1, <3>2
  <2> HIDE DEF was
  <2>2. \A u \in Thread : \A i \in DOMAIN stack'[u] : Holding(stack'[u][i]) =>
          lock'[stack'[u][i].cache] = u
    BY SMTT(30), <1>7, <2>1 DEF Inv, MutexInv
  <2>3. ASSUME NEW u \in Thread, NEW i \in DOMAIN stack'[u], NEW j \in DOMAIN stack'[u],
               Holding(stack'[u][i]), Holding(stack'[u][j]),
               stack'[u][i].cache = stack'[u][j].cache
        PROVE  i = j
    <3>1. was(u, i) = was(u, j)
      BY <2>1, <2>3 DEF Inv, MutexInv
    <3>2. i \in Int /\ j \in Int /\ (u = t => i # 1 /\ j # 1)
      BY <1>1, <2>1, <2>3, InFrame DEF Inv
    <3> QED BY <3>1, <3>2 DEF was
  <2> QED BY <2>2, <2>3 DEF MutexInv, Holding
<1>8. ASSUME NEW o, Dying(o), ~(Top(t).op = "release" /\ Top(t).obj = o) PROVE Dying(o)'
  <2> PICK u \in Thread : \E i \in DOMAIN stack[u] :
              /\ stack[u][i].op = "release" /\ stack[u][i].at \in {"test", "free"}
              /\ stack[u][i].obj = o
    BY <1>8 DEF Dying
  <2> PICK i \in DOMAIN stack[u] :
              /\ stack[u][i].op = "release" /\ stack[u][i].at \in {"test", "free"}
              /\ stack[u][i].obj = o
    OBVIOUS
  <2>1. CASE u # t
    <3>1. i \in DOMAIN stack'[u] /\ stack'[u][i] = stack[u][i]
      BY <1>1, <2>1
    <3> QED BY <3>1 DEF Dying
  <2>2. CASE u = t
    <3>1. CASE i = 1
      BY <1>2, <1>8, <2>2, <3>1
    <3>2. CASE i # 1
      <4>1. i \in 2 .. Len(stack[t])
        BY <1>1, <2>2, <3>2
      <4>2. i + 1 \in DOMAIN stack'[u] /\ stack'[u][i + 1] = stack[u][i]
        BY <1>1, <2>2, <4>1
      <4> QED BY <4>2 DEF Dying
    <3> QED BY <3>1, <3>2
  <2> QED BY <2>1, <2>2
<1> QED BY <1>1, <1>3, <1>5, <1>6, <1>7, <1>8

\* The same when it returns, having unlocked its cache: the caller finds its member as it
\* left it, or empty after a release.
LEMMA Returns ==
  ASSUME Inv, NEW t \in Thread, stack[t] # <<>>,
         stack' = [stack EXCEPT ![t] = Tail(@)],
         Holding(Top(t)), \A c \in Cache : c # Top(t).cache => lock'[c] = lock[c],
         Top(t).op = "release" => ptr'[Top(t).holder] = None,
         \A e \in Frame : Other(t, e) => FrameOK(e)'
  PROVE  /\ ShapeInv' /\ FrameInv' /\ MutexInv' /\ TopOK(t)'
         /\ \A o : Dying(o) => Dying(o)' \/ (Top(t).op = "release" /\ Top(t).obj = o)
         /\ \A u \in Thread \ {t} : stack'[u] = stack[u]
         /\ stack' \in [Thread -> Seq(Frame)]
<1>1. /\ stack' \in [Thread -> Seq(Frame)]
      /\ \A u \in Thread \ {t} : stack'[u] = stack[u]
      /\ Len(stack[t]) \in Nat \ {0} /\ DOMAIN stack[t] = 1 .. Len(stack[t])
      /\ Len(stack'[t]) = Len(stack[t]) - 1 /\ DOMAIN stack'[t] = 1 .. Len(stack[t]) - 1
      /\ \A i \in 1 .. Len(stack[t]) - 1 : stack'[t][i] = stack[t][i + 1]
      /\ stack'[t] # <<>> => Len(stack[t]) > 1 /\ Head(stack'[t]) = stack[t][2]
  BY Popped DEF Inv
<1>2. Top(t) = stack[t][1]
  BY TopIsFirst DEF Inv
\* The frame that frame i of t was before the return.
<1>3. ASSUME NEW i \in DOMAIN stack'[t]
      PROVE  i + 1 \in DOMAIN stack[t] /\ i + 1 # 1 /\ stack'[t][i] = stack[t][i + 1]
  BY <1>1
<1>4. FrameInv'
  <2> SUFFICES ASSUME NEW u \in Thread, NEW i \in DOMAIN stack'[u], NEW e \in Frame,
                      e = stack'[u][i]
               PROVE  FrameOK(e)'
    BY DEF FrameInv
  <2>1. Other(t, e)
    <3>1. CASE u # t
      BY <1>1, <3>1 DEF Other
    <3>2. CASE u = t
      <4>1. i + 1 \in DOMAIN stack[t] /\ i + 1 # 1 /\ e = stack[t][i + 1]
        BY <1>3, <3>2
      <4> QED BY <4>1 DEF Other
    <3> QED BY <3>1, <3>2
  <2> QED BY <2>1
<1>5. ShapeInv'
  <2> SUFFICES ASSUME NEW u \in Thread, NEW i \in DOMAIN stack'[u]
               PROVE  IF i = Len(stack'[u])
                      THEN stack'[u][i].op # "reset" => stack'[u][i].holder \in Slots(u)
                      ELSE Link(stack'[u][i], stack'[u][i + 1])
    BY DEF ShapeInv, Slots, Link
  <2>1. CASE u # t
    <3>1. stack'[u] = stack[u] /\ i \in DOMAIN stack[u]
      BY <1>1, <2>1
    <3> QED BY <3>1 DEF Inv, ShapeInv
  <2>2. CASE u = t
    <3>1. i + 1 \in DOMAIN stack[t] /\ stack'[t][i] = stack[t][i + 1]
      BY <1>3, <2>2
    <3>2. IF i + 1 = Len(stack[t])
          THEN stack[t][i + 1].op # "reset" => stack[t][i + 1].holder \in Slots(t)
          ELSE Link(stack[t][i + 1], stack[t][(i + 1) + 1])
      BY <3>1 DEF Inv, ShapeInv
    <3>3. CASE i = Len(stack'[t])
      BY <1>1, <2>2, <3>1, <3>2, <3>3
    <3>4. CASE i # Len(stack'[t])
      <4>1. i + 1 # Len(stack[t]) /\ i + 1 \in 1 .. Len(stack[t]) - 1
        BY <1>1, <2>2, <3>4
      <4> QED BY <1>1, <2>2, <3>1, <3>2, <3>4, <4>1
    <3> QED BY <3>3, <3>4
  <2> QED BY <2>1, <2>2
<1>6. MutexInv'
  <2> DEFINE was(u, i) == IF u = t THEN i + 1 ELSE i
  <2>1. \A u \in Thread : \A i \in DOMAIN stack'[u] :
          /\ was(u, i) \in DOMAIN stack[u]
          /\ stack'[u][i] = stack[u][was(u, i)]
          /\ i \in Int
          /\ u = t => was(u, i) # 1
    <3> SUFFICES ASSUME NEW u \in Thread, NEW i \in DOMAIN stack'[u]
                 PROVE  /\ was(u, i) \in DOMAIN stack[u]
                        /\ stack'[u][i] = stack[u][was(u, i)]
                        /\ i \in Int
                        /\ u = t => was(u, i) # 1
      OBVIOUS
    <3>1. CASE u = t
      BY <1>1, <1>3, <3>1
    <3>2. CASE u # t
      BY <1>1, <3>2, InFrame DEF Inv
    <3> QED BY <3>1, <3>2
  <2>2. \A u \in Thread : \A i \in DOMAIN stack'[u] : stack[u][was(u, i)].cache \in Cache
    BY <2>1, CacheOfFrame
  <2>3. \A u \in Thread : \A i, j \in DOMAIN stack'[u] : was(u, i) = was(u, j) => i = j
    BY <2>1
  <2> HIDE DEF was
  <2>4. \A u \in Thread : \A i \in DOMAIN stack'[u] :
          Holding(stack'[u][i]) => stack'[u][i].cache # Top(t).cache
    <3> SUFFICES ASSUME NEW u \in Thread, NEW i \in DOMAIN stack'[u], Holding(stack'[u][i]),
                        stack'[u][i].cache = Top(t).cache
                 PROVE  FALSE
      OBVIOUS
    <3>1. u = t /\ was(u, i) = 1
      BY <1>1, <1>2, <2>1, SameFrame DEF Inv
    <3> QED BY <2>1, <3>1
  <2>5. \A u \in Thread : \A i \in DOMAIN stack'[u] :
          Holding(stack'[u][i]) => lock'[stack'[u][i].cache] = u
    BY <2>1, <2>2, <2>4 DEF Inv, MutexInv
  <2>6. \A u \in Thread : \A i, j \in DOMAIN stack'[u] :
          /\ Holding(stack'[u][i]) /\ Holding(stack'[u][j])
          /\ stack'[u][i].cache = stack'[u][j].cache
          => i = j
    BY <2>1, <2>3 DEF Inv, MutexInv
  <2> QED BY <2>5, <2>6 DEF MutexInv, Holding
<1>7. ASSUME NEW o, Dying(o), ~(Top(t).op = "release" /\ Top(t).obj = o) PROVE Dying(o)'
  <2> PICK u \in Thread : \E i \in DOMAIN stack[u] :
              /\ stack[u][i].op = "release" /\ stack[u][i].at \in {"test", "free"}
              /\ stack[u][i].obj = o
    BY <1>7 DEF Dying
  <2> PICK i \in DOMAIN stack[u] :
              /\ stack[u][i].op = "release" /\ stack[u][i].at \in {"test", "free"}
              /\ stack[u][i].obj = o
    OBVIOUS
  <2>1. CASE u # t
    <3>1. i \in DOMAIN stack'[u] /\ stack'[u][i] = stack[u][i]
      BY <1>1, <2>1
    <3> QED BY <3>1 DEF Dying
  <2>2. CASE u = t
    <3>1. i # 1
      BY <1>2, <1>7, <2>2
    <3>2. i - 1 \in DOMAIN stack'[t] /\ i - 1 \in 1 .. Len(stack[t]) - 1 /\ (i - 1) + 1 = i
      BY <1>1, <2>2, <3>1
    <3>3. stack'[t][i - 1] = stack[t][i]
      BY <1>1, <3>2
    <3> QED BY <2>2, <3>2, <3>3 DEF Dying
  <2> QED BY <2>1, <2>2
<1>8. TopOK(t)'
  <2> SUFFICES ASSUME stack'[t] # <<>>
               PROVE  /\ Head(stack'[t]).at \in {"load", "failed", "free"}
                            => ptr'[Head(stack'[t]).obj] = None
                      /\ Head(stack'[t]).op = "copy" => FALSE
    BY DEF TopOK, Top
  <2>1. Link(Top(t), Head(stack'[t]))
    <3>1. 1 \in DOMAIN stack[t] /\ 1 # Len(stack[t])
      BY <1>1
    <3>2. Link(stack[t][1], stack[t][1 + 1])
      BY <3>1 DEF Inv, ShapeInv
    <3> QED BY <1>1, <1>2, <3>2
  <2> QED BY <2>1 DEF Link
<1> QED BY <1>1, <1>4, <1>5, <1>6, <1>7, <1>8

-----------------------------------------------------------------------------
\* The counts, when one pointer is set or cleared.

\* Setting a pointer that was empty adds it to those of its object and to no other's.
LEMMA PointerSet ==
  ASSUME TypeOK, NEW h \in Holder, NEW o \in Obj, ptr[h] = None,
         ptr' = [ptr EXCEPT ![h] = o]
  PROVE  /\ Pointers(o)' = Pointers(o) \cup {h} /\ h \notin Pointers(o)
         /\ \A p \in Obj \ {o} : Pointers(p)' = Pointers(p)
BY NoneAssumption DEF TypeOK, Pointers

\* Clearing a pointer takes it from those of its object and from no other's.
LEMMA PointerCleared ==
  ASSUME TypeOK, NEW h \in Holder, NEW o \in Obj, ptr[h] = o,
         ptr' = [ptr EXCEPT ![h] = None]
  PROVE  /\ Pointers(o)' = Pointers(o) \ {h} /\ h \in Pointers(o)
         /\ \A p \in Obj \ {o} : Pointers(p)' = Pointers(p)
BY NoneAssumption DEF TypeOK, Pointers

\* A step that touches no object and no pointer.
LEMMA DataSame ==
  ASSUME Inv, UNCHANGED <<objVars, ptr>>
  PROVE  /\ ObjInv' /\ CountInv' /\ OneObjectPerKey'
         /\ \A f : FrameOK(f)' <=> FrameOK(f)
         /\ \A u \in Thread : stack'[u] = stack[u] => TopOK(u)'
<1> USE DEF objVars
<1>1. ObjInv' /\ CountInv' /\ OneObjectPerKey'
  BY DEF Inv, ObjInv, CountInv, OneObjectPerKey, Pointers
<1>2. \A f : FrameOK(f)' <=> FrameOK(f)
  BY DEF FrameOK, GetOK, CopyOK, ReleaseOK, ResetOK, Building
<1>3. ASSUME NEW u \in Thread, stack'[u] = stack[u] PROVE TopOK(u)'
  BY <1>3 DEF Inv, TopInv, TopOK, Top, Reachable, Slots
<1> QED BY <1>1, <1>2, <1>3

\* If nothing is allocated or counted, what was on its way out stays so.
LEMMA DyingKept ==
  ASSUME DyingInv, live' \subseteq live, refs' = refs,
         \A o \in live' : refs[o] = 0 /\ Dying(o) => Dying(o)'
  PROVE  DyingInv'
BY DEF DyingInv

\* A new call starts outside every lock, with the pointer it works on as it must be.
LEMMA BeginInv ==
  ASSUME Inv, NEW t \in Thread, Begin(t)
  PROVE  Inv'
<1> USE DEF Get, Copy, Release, Reset, Call
<1>1. UNCHANGED <<lock, objVars, ptr>> /\ stack[t] = <<>>
  BY DEF Begin
\* The call that is made, and what its only frame may rely on.
<1>2. \E f \in Frame :
        /\ stack' = [stack EXCEPT ![t] = <<f>>] /\ ~Holding(f) /\ FrameOK(f)
        /\ f.op # "reset" => f.holder \in Slots(t)
        /\ f.at \in {"global", "lock"}
        /\ f.op = "copy" => f.obj \in Reachable(t)
  <2>1. \A s \in Slots(t) : s \in Holder /\ ptr[s] \in Obj \cup {None}
    BY DEF Slots, Holder, Inv, TypeOK
  <2>2. \A o \in Reachable(t) : o \in live /\ o \in Obj
    BY <2>1 DEF Reachable, Holder, Inv, TypeOK, ObjInv
  <2>3. ASSUME NEW s \in Slots(t), NEW k \in Key, ptr[s] = None
        PROVE  Get(s, k) \in Frame /\ FrameOK(Get(s, k))
    BY <2>1, <2>3, KeyAssumption DEF Frame, FrameOK, GetOK, Building
  <2>4. ASSUME NEW s \in Slots(t), NEW o \in live, o \in Obj
        PROVE  Copy(s, o) \in Frame /\ Release(s, o) \in Frame
    BY <2>1, <2>4, KeyAssumption DEF Frame, Inv, ObjInv
  <2>5. ASSUME NEW s \in Slots(t), NEW o \in live, o \in Obj, ptr[s] = None
        PROVE  FrameOK(Copy(s, o))
    BY <2>1, <2>5 DEF FrameOK, CopyOK
  <2>6. ASSUME NEW s \in Slots(t), ptr[s] # None
        PROVE  ptr[s] \in live /\ ptr[s] \in Obj /\ FrameOK(Release(s, ptr[s]))
    BY <2>1, <2>6 DEF FrameOK, ReleaseOK, Inv, ObjInv
  <2>7. ASSUME NEW c \in Resettable PROVE Reset(c) \in Frame /\ FrameOK(Reset(c))
    BY ResetAssumption DEF Frame, FrameOK, ResetOK
  <2>8. CASE \E s \in Slots(t), k \in Key :
               ptr[s] = None /\ stack' = [stack EXCEPT ![t] = <<Get(s, k)>>]
    <3> PICK s \in Slots(t), k \in Key :
               ptr[s] = None /\ stack' = [stack EXCEPT ![t] = <<Get(s, k)>>]
      BY <2>8
    <3> Get(s, k) \in Frame /\ FrameOK(Get(s, k))
      BY <2>3
    <3> WITNESS Get(s, k) \in Frame
    <3> QED BY DEF Holding
  <2>9. CASE \E s \in Slots(t), o \in Reachable(t) :
               ptr[s] = None /\ stack' = [stack EXCEPT ![t] = <<Copy(s, o)>>]
    <3> PICK s \in Slots(t), o \in Reachable(t) :
               ptr[s] = None /\ stack' = [stack EXCEPT ![t] = <<Copy(s, o)>>]
      BY <2>9
    <3> Copy(s, o) \in Frame /\ FrameOK(Copy(s, o))
      BY <2>2, <2>4, <2>5
    <3> WITNESS Copy(s, o) \in Frame
    <3> QED BY DEF Holding
  <2>10. CASE \E s \in Slots(t) :
               ptr[s] # None /\ stack' = [stack EXCEPT ![t] = <<Release(s, ptr[s])>>]
    <3> PICK s \in Slots(t) :
               ptr[s] # None /\ stack' = [stack EXCEPT ![t] = <<Release(s, ptr[s])>>]
      BY <2>10
    <3> Release(s, ptr[s]) \in Frame /\ FrameOK(Release(s, ptr[s]))
      BY <2>4, <2>6
    <3> WITNESS Release(s, ptr[s]) \in Frame
    <3> QED BY DEF Holding
  <2>11. CASE \E c \in Resettable : stack' = [stack EXCEPT ![t] = <<Reset(c)>>]
    <3> PICK c \in Resettable : stack' = [stack EXCEPT ![t] = <<Reset(c)>>]
      BY <2>11
    <3> Reset(c) \in Frame /\ FrameOK(Reset(c))
      BY <2>7
    <3> WITNESS Reset(c) \in Frame
    <3> QED BY DEF Holding
  <2> QED BY <2>8, <2>9, <2>10, <2>11 DEF Begin
<1> PICK f \in Frame :
        /\ stack' = [stack EXCEPT ![t] = <<f>>] /\ ~Holding(f) /\ FrameOK(f)
        /\ f.op # "reset" => f.holder \in Slots(t)
        /\ f.at \in {"global", "lock"}
        /\ f.op = "copy" => f.obj \in Reachable(t)
  BY <1>2
<1>3. /\ stack' \in [Thread -> Seq(Frame)]
      /\ \A u \in Thread \ {t} : stack'[u] = stack[u]
      /\ stack'[t] = <<f>> /\ Len(stack'[t]) = 1 /\ DOMAIN stack'[t] = {1} /\ stack'[t][1] = f
      /\ Head(stack'[t]) = f
  BY DEF Inv, TypeOK
<1>4. DOMAIN stack[t] = {}
  BY <1>1
<1>5. TypeOK'
  BY <1>1, <1>3 DEF Inv, TypeOK, objVars
<1>6. MutexInv'
  <2>1. \A u \in Thread : \A i \in DOMAIN stack'[u] : Holding(stack'[u][i]) => u # t
    BY <1>3
  <2> QED BY <1>1, <1>3, <2>1 DEF Inv, MutexInv, Holding
<1>7. ShapeInv'
  <2> SUFFICES ASSUME NEW u \in Thread, NEW i \in DOMAIN stack'[u]
               PROVE  IF i = Len(stack'[u])
                      THEN stack'[u][i].op # "reset" => stack'[u][i].holder \in Slots(u)
                      ELSE Link(stack'[u][i], stack'[u][i + 1])
    BY DEF ShapeInv, Slots, Link
  <2>1. CASE u = t
    BY <1>3, <2>1
  <2>2. CASE u # t
    <3>1. stack'[u] = stack[u] /\ i \in DOMAIN stack[u]
      BY <1>3, <2>2
    <3> QED BY <3>1 DEF Inv, ShapeInv
  <2> QED BY <2>1, <2>2
<1>8. FrameInv'
  <2> SUFFICES ASSUME NEW u \in Thread, NEW i \in DOMAIN stack'[u], NEW e \in Frame,
                      e = stack'[u][i]
               PROVE  FrameOK(e)'
    BY DEF FrameInv
  <2>1. FrameOK(e)
    <3>1. CASE u = t
      BY <1>3, <3>1
    <3>2. CASE u # t
      <4>1. stack'[u] = stack[u] /\ i \in DOMAIN stack[u]
        BY <1>3, <3>2
      <4> QED BY <4>1 DEF Inv, FrameInv
    <3> QED BY <3>1, <3>2
  <2> QED BY <1>1, <2>1, DataSame
<1>9. TopInv'
  <2> SUFFICES ASSUME NEW u \in Thread PROVE TopOK(u)'
    BY DEF TopInv
  <2>1. CASE u # t
    BY <1>1, <1>3, <2>1, DataSame
  <2>2. CASE u = t
    <3>1. Reachable(t)' = Reachable(t)
      BY <1>1 DEF Reachable, Slots
    <3> QED BY <1>3, <2>2, <3>1 DEF TopOK, Top
  <2> QED BY <2>1, <2>2
<1>10. DyingInv'
  <2>1. \A o : Dying(o) => Dying(o)'
    <3> SUFFICES ASSUME NEW o, NEW u \in Thread, NEW i \in DOMAIN stack[u],
                        /\ stack[u][i].op = "release" /\ stack[u][i].at \in {"test", "free"}
                        /\ stack[u][i].obj = o
                 PROVE  Dying(o)'
      BY DEF Dying
    <3>1. u # t
      BY <1>4
    <3>2. stack'[u] = stack[u]
      BY <1>3, <3>1
    <3> QED BY <3>2 DEF Dying
  <2> QED BY <1>1, <2>1, DyingKept DEF Inv, objVars
<1> QED BY <1>1, <1>5, <1>6, <1>7, <1>8, <1>9, <1>10, DataSame DEF Inv

\* What the innermost frame of t may rely on.
LEMMA Acting ==
  ASSUME Inv, NEW t \in Thread, stack[t] # <<>>
  PROVE  Top(t) \in Frame /\ FrameOK(Top(t)) /\ TopOK(t)
<1>1. Top(t) \in Frame /\ 1 \in DOMAIN stack[t] /\ Top(t) = stack[t][1]
  BY TopIsFirst DEF Inv
<1> QED BY <1>1 DEF Inv, FrameInv, TopInv

Label == {"global", "lock", "find", "load", "built", "fail", "failed",
          "bump", "drop", "test", "free", "detach"}

\* The frame f with its thread at x.
Relabelled(f, x, g) ==
  /\ g \in Frame /\ g.at = x /\ g.op = f.op /\ g.holder = f.holder
  /\ g.obj = f.obj /\ g.key = f.key /\ g.cache = f.cache

\* The same, with the equation kept out of sight of the provers until it is needed.
Stepped(f, x, g) == g = [f EXCEPT !.at = x]

\* Moving a frame to another label changes that label and nothing else.
LEMMA Relabel ==
  ASSUME NEW f \in Frame, NEW x \in Label
  PROVE  \E g : g = [f EXCEPT !.at = x] /\ Relabelled(f, x, g)
<1> DEFINE g == [f EXCEPT !.at = x]
<1>1. g \in Frame
  BY DEF Frame, Label
<1>2. /\ g.at = x /\ g.op = f.op /\ g.holder = f.holder
      /\ g.obj = f.obj /\ g.key = f.key /\ g.cache = f.cache
  BY DEF Frame
<1> QED BY <1>1, <1>2 DEF Relabelled

\* A step of t that changes no object and no pointer, but puts its innermost frame at x.
LEMMA MovesOn ==
  ASSUME Inv, NEW t \in Thread, stack[t] # <<>>, UNCHANGED <<objVars, ptr>>,
         NEW x \in Label,
         Goto(t, x),
         \A g : Relabelled(Top(t), x, g) => FrameOK(g),
         x \in {"load", "failed", "free"} => ptr[Top(t).obj] = None,
         ~(Top(t).op = "release" /\ Top(t).at \in {"test", "free"}),
         lock' \in [Cache \cup {Global} -> Thread \cup {None}]
  PROVE  /\ TypeOK' /\ ShapeInv' /\ FrameInv' /\ TopInv' /\ ObjInv' /\ CountInv' /\ DyingInv'
         /\ OneObjectPerKey'
         /\ (\A k \in Cache : lock'[k] = lock[k]) /\ (x \in {"global", "lock"} \/ Holding(Top(t)))
            => MutexInv'
<1>1. Top(t) \in Frame /\ FrameOK(Top(t)) /\ TopOK(t)
  BY Acting
<1> PICK g : g = [Top(t) EXCEPT !.at = x] /\ Relabelled(Top(t), x, g)
  BY <1>1, Relabel
<1>2. /\ g \in Frame /\ g.at = x /\ g.op = Top(t).op /\ g.holder = Top(t).holder
      /\ g.obj = Top(t).obj /\ g.key = Top(t).key /\ g.cache = Top(t).cache
  BY DEF Relabelled
<1>3. stack' = [stack EXCEPT ![t] = <<g>> \o Tail(@)]
  BY DEF Goto
<1>4. FrameOK(g)
  OBVIOUS
<1>5. FrameOK(g)'
  BY <1>4, DataSame
<1>51. \A f \in Frame : Other(t, f) => FrameOK(f)'
  <2> TAKE f \in Frame
  <2> HAVE Other(t, f)
  <2>1. FrameOK(f)
    BY OtherFacts
  <2> QED BY <2>1, DataSame
<1>6. /\ ShapeInv' /\ FrameInv'
      /\ (\A k \in Cache : lock'[k] = lock[k]) /\ (Holding(g) => Holding(Top(t)))
         => MutexInv'
      /\ \A o : Dying(o) => Dying(o)' \/ (Top(t).op = "release" /\ Top(t).obj = o)
      /\ \A u \in Thread \ {t} : stack'[u] = stack[u]
      /\ stack' \in [Thread -> Seq(Frame)]
      /\ Top(t)' = g /\ stack'[t] # <<>>
  BY <1>2, <1>3, <1>5, <1>51, GoesOn
<1>7. TypeOK'
  BY <1>6 DEF Inv, TypeOK, objVars
<1>8. TopInv'
  <2> SUFFICES ASSUME NEW u \in Thread PROVE TopOK(u)'
    BY DEF TopInv
  <2>1. CASE u # t
    BY <1>6, <2>1, DataSame
  <2>2. CASE u = t
    <3>1. Reachable(t)' = Reachable(t)
      BY DEF Reachable, Slots
    <3> QED BY <1>1, <1>2, <1>6, <2>2, <3>1 DEF TopOK
  <2> QED BY <2>1, <2>2
<1>9. \A o : Dying(o) => Dying(o)'
  <2> SUFFICES ASSUME NEW o, Dying(o) PROVE Dying(o)'
    OBVIOUS
  <2> PICK u \in Thread : \E i \in DOMAIN stack[u] :
              /\ stack[u][i].op = "release" /\ stack[u][i].at \in {"test", "free"}
              /\ stack[u][i].obj = o
    BY DEF Dying
  <2> PICK i \in DOMAIN stack[u] :
              /\ stack[u][i].op = "release" /\ stack[u][i].at \in {"test", "free"}
              /\ stack[u][i].obj = o
    OBVIOUS
  <2>1. u # t \/ i # 1
    BY TopIsFirst DEF Inv
  <2>2. i \in DOMAIN stack'[u] /\ stack'[u][i] = stack[u][i]
    <3>1. CASE u # t
      BY <1>6, <3>1
    <3>2. CASE u = t
      <4>1. i \in 2 .. Len(stack[t]) /\ i \in 1 .. Len(stack[t])
        BY <2>1, <3>2, InFrame DEF Inv
      <4> QED BY <1>2, <1>3, <3>2, <4>1, Replaced DEF Inv
    <3> QED BY <3>1, <3>2
  <2> QED BY <2>2 DEF Dying
<1>10. DyingInv'
  BY <1>9, DyingKept DEF Inv, objVars
<1>11. ASSUME \A k \in Cache : lock'[k] = lock[k], x \in {"global", "lock"} \/ Holding(Top(t))
       PROVE  MutexInv'
  BY <1>2, <1>6, <1>11 DEF Holding
<1> QED BY <1>6, <1>7, <1>8, <1>10, <1>11, DataSame

\* Where a call of each kind goes on when it has its lock.
Locks(op, next) ==
  \/ op = "get" /\ next = "find"
  \/ op = "copy" /\ next = "bump"
  \/ op = "release" /\ next = "drop"
  \/ op = "reset" /\ next = "detach"

\* Taking the mutex of a cache: nobody was past it.
LEMMA AcquireInv ==
  ASSUME Inv, NEW t \in Thread, NEW op, NEW next, Acquire(t, op, next), Locks(op, next)
  PROVE  Inv'
<1> DEFINE c == Top(t).cache
<1>1. /\ stack[t] # <<>> /\ Top(t).op = op /\ Top(t).at = "lock" /\ lock[c] = None
      /\ lock' = [lock EXCEPT ![c] = t] /\ Goto(t, next) /\ UNCHANGED <<objVars, ptr>>
  BY DEF Acquire, At
<1>2. Top(t) \in Frame /\ FrameOK(Top(t))
  BY <1>1, Acting
<1>3. lock' \in [Cache \cup {Global} -> Thread \cup {None}] /\ c \in Cache
  BY <1>1, <1>2 DEF Inv, TypeOK, Frame
<1>4. \A g : Relabelled(Top(t), next, g) => FrameOK(g)
  BY <1>1, <1>2 DEF Locks, Relabelled, FrameOK, GetOK, CopyOK, ReleaseOK, ResetOK, Building
<1>5. /\ TypeOK' /\ ShapeInv' /\ FrameInv' /\ TopInv' /\ ObjInv' /\ CountInv' /\ DyingInv'
      /\ OneObjectPerKey'
  BY <1>1, <1>3, <1>4, MovesOn DEF Label, Locks
\* Nobody is past the lock of c, so t is alone there.
<1>6. \A u \in Thread : \A i \in DOMAIN stack[u] : Holding(stack[u][i]) => stack[u][i].cache # c
  BY <1>1, NoneAssumption DEF Inv, MutexInv
<1>7. \A u \in Thread : \A i \in DOMAIN stack'[u] :
        \/ u = t /\ i = 1 /\ stack'[u][i].cache = c
        \/ i \in DOMAIN stack[u] /\ stack'[u][i] = stack[u][i] /\ stack[u][i].cache \in Cache
  <2> SUFFICES ASSUME NEW u \in Thread, NEW i \in DOMAIN stack'[u]
               PROVE  \/ u = t /\ i = 1 /\ stack'[u][i].cache = c
                      \/ /\ i \in DOMAIN stack[u] /\ stack'[u][i] = stack[u][i]
                         /\ stack[u][i].cache \in Cache
    OBVIOUS
  <2> PICK g : g = [Top(t) EXCEPT !.at = next] /\ Relabelled(Top(t), next, g)
    BY <1>2, Relabel DEF Label, Locks
  <2>1. g \in Frame /\ g.cache = c
    BY DEF Relabelled
  <2>2. stack' = [stack EXCEPT ![t] = <<g>> \o Tail(@)]
    BY <1>1 DEF Goto
  <2>3. /\ \A w \in Thread \ {t} : stack'[w] = stack[w]
        /\ Len(stack[t]) \in Nat \ {0} /\ DOMAIN stack[t] = 1 .. Len(stack[t])
        /\ DOMAIN stack'[t] = 1 .. Len(stack[t])
        /\ stack'[t][1] = g
        /\ \A j \in 2 .. Len(stack[t]) : stack'[t][j] = stack[t][j]
    BY <1>1, <2>1, <2>2, Replaced DEF Inv
  <2>4. (u = t /\ i = 1) \/ (i \in DOMAIN stack[u] /\ stack'[u][i] = stack[u][i])
    BY <2>3
  <2>5. \A w \in Thread : \A j \in DOMAIN stack[w] : stack[w][j].cache \in Cache
    BY CacheOfFrame
  <2> QED BY <2>1, <2>3, <2>4, <2>5
<1>8. MutexInv'
  <2>1. \A u \in Thread : \A i \in DOMAIN stack'[u] :
          Holding(stack'[u][i]) => lock'[stack'[u][i].cache] = u
    BY <1>1, <1>3, <1>6, <1>7 DEF Inv, MutexInv, TypeOK
  <2>2. \A u \in Thread : \A i, j \in DOMAIN stack'[u] :
          /\ Holding(stack'[u][i]) /\ Holding(stack'[u][j])
          /\ stack'[u][i].cache = stack'[u][j].cache
          => i = j
    BY <1>6, <1>7 DEF Inv, MutexInv
  <2> QED BY <2>1, <2>2 DEF MutexInv, Holding
<1> QED BY <1>5, <1>8 DEF Inv

\* A step of t that changes no object and no pointer, but calls f from x.
LEMMA CallsOn ==
  ASSUME Inv, NEW t \in Thread, stack[t] # <<>>, UNCHANGED <<lock, objVars, ptr>>,
         NEW x \in Label, NEW f \in Frame,
         CallFrom(t, x, f),
         \A g : Relabelled(Top(t), x, g) => FrameOK(g) /\ Link(f, g),
         FrameOK(f), f.at = "lock", f.op # "copy",
         Top(t).op = "get", Holding(Top(t))
  PROVE  Inv'
<1>1. Top(t) \in Frame
  BY Acting
<1> PICK g : g = [Top(t) EXCEPT !.at = x] /\ Relabelled(Top(t), x, g)
  BY <1>1, Relabel
<1>2. /\ g \in Frame /\ g.op = Top(t).op /\ g.holder = Top(t).holder
      /\ g.cache = Top(t).cache
  BY DEF Relabelled
<1>3. Pushes(t, f, g)
  BY DEF CallFrom, Pushes
<1>4. FrameOK(f)' /\ FrameOK(g)'
  BY DataSame
<1>5. \A e \in Frame : Other(t, e) => FrameOK(e)'
  <2> TAKE e \in Frame
  <2> HAVE Other(t, e)
  <2>1. FrameOK(e)
    BY OtherFacts
  <2> QED BY <2>1, DataSame
<1>6. /\ ShapeInv' /\ FrameInv'
      /\ lock' = lock /\ (Holding(g) => Holding(Top(t))) => MutexInv'
      /\ \A o : Dying(o) => Dying(o)' \/ (Top(t).op = "release" /\ Top(t).obj = o)
      /\ \A u \in Thread \ {t} : stack'[u] = stack[u]
      /\ stack' \in [Thread -> Seq(Frame)]
      /\ Top(t)' = f /\ stack'[t] # <<>>
  <2>1. ~Holding(f) /\ f.at # "test" /\ Link(f, g)
    BY DEF Holding
  <2> QED BY <1>2, <1>3, <1>4, <1>5, <2>1, Calls
<1>7. TypeOK'
  BY <1>6 DEF Inv, TypeOK, objVars
<1>8. TopInv'
  <2> SUFFICES ASSUME NEW u \in Thread PROVE TopOK(u)'
    BY DEF TopInv
  <2>1. CASE u # t
    BY <1>6, <2>1, DataSame
  <2>2. CASE u = t
    BY <1>6, <2>2 DEF TopOK
  <2> QED BY <2>1, <2>2
<1>9. DyingInv'
  BY <1>6, DyingKept DEF Inv, objVars
<1> QED BY <1>6, <1>7, <1>8, <1>9, DataSame DEF Inv

\* Taking global_cache_lock, which is not the mutex of a cache.
LEMMA ResetGlobalInv ==
  ASSUME Inv, NEW t \in Thread, ResetGlobal(t)
  PROVE  Inv'
<1>1. /\ stack[t] # <<>> /\ Top(t).op = "reset" /\ Top(t).at = "global"
      /\ lock' = [lock EXCEPT ![Global] = t] /\ Goto(t, "lock") /\ UNCHANGED <<objVars, ptr>>
  BY DEF ResetGlobal, At
<1>2. lock' \in [Cache \cup {Global} -> Thread \cup {None}] /\ \A k \in Cache : lock'[k] = lock[k]
  BY <1>1, NamesAssumption DEF Inv, TypeOK
<1>3. \A g : Relabelled(Top(t), "lock", g) => FrameOK(g)
  BY <1>1 DEF Relabelled, FrameOK, ResetOK
<1> QED BY <1>1, <1>2, <1>3, MovesOn DEF Label, Inv

\* get_new or load starts: the new object's own member is still empty.
LEMMA GetLoadInv ==
  ASSUME Inv, NEW t \in Thread, GetLoad(t)
  PROVE  Inv'
<1> DEFINE f == Top(t)
<1>1. /\ stack[t] # <<>> /\ f.op = "get" /\ f.at = "load" /\ UNCHANGED <<lock, objVars, ptr>>
  BY DEF GetLoad, At
<1>2. f \in Frame /\ FrameOK(f) /\ TopOK(t)
  BY <1>1, Acting
<1>3. Holding(f) /\ Building(f) /\ f.obj \in Obj /\ f.key \in Key /\ ptr[f.obj] = None
  BY <1>1, <1>2 DEF Holding, Building, FrameOK, GetOK, TopOK, Inv, TypeOK
<1>4. \A g : Relabelled(f, "built", g) => FrameOK(g) /\ g.obj = f.obj /\ g.op = "get" /\ g.at = "built"
  BY <1>1, <1>2 DEF Relabelled, FrameOK, GetOK, Building
<1>5. CASE Part[f.key] = None
  <2>1. Goto(t, "built")
    BY <1>5 DEF GetLoad
  <2>2. lock' = lock /\ lock' \in [Cache \cup {Global} -> Thread \cup {None}]
    BY <1>1 DEF Inv, TypeOK
  <2> QED BY <1>1, <1>3, <1>4, <2>1, <2>2, MovesOn DEF Label, Inv
<1>6. CASE Part[f.key] # None
  <2> PICK e : e = Get(f.obj, Part[f.key])
    OBVIOUS
  <2>1. CallFrom(t, "built", e)
    BY <1>6 DEF GetLoad
  <2>2. Part[f.key] \in Key /\ CacheOf[Part[f.key]] \in Cache
    BY <1>3, <1>6, KeyAssumption
  <2>3. /\ e \in Frame /\ e.op = "get" /\ e.at = "lock" /\ e.holder = f.obj
        /\ e.key = Part[f.key] /\ e.cache = CacheOf[Part[f.key]]
    BY <1>3, <2>2 DEF Get, Call, Frame, Holder
  <2>4. FrameOK(e)
    BY <1>3, <2>2, <2>3 DEF FrameOK, GetOK, Building, Holder
  <2>5. \A g : Relabelled(f, "built", g) => FrameOK(g) /\ Link(e, g)
    BY <1>4, <2>3 DEF Link
  <2> QED BY <1>1, <1>3, <2>1, <2>3, <2>4, <2>5, CallsOn DEF Label
<1> QED BY <1>5, <1>6

\* The load fails: the object stays as half-built as it was.
LEMMA GetLoadFailsInv ==
  ASSUME Inv, NEW t \in Thread, GetLoadFails(t)
  PROVE  Inv'
<1>1. /\ stack[t] # <<>> /\ Top(t).op = "get" /\ Top(t).at = "built"
      /\ UNCHANGED <<lock, objVars, ptr>> /\ Goto(t, "fail")
  BY DEF GetLoadFails, At
<1>2. FrameOK(Top(t)) /\ Holding(Top(t))
  BY <1>1, Acting DEF Holding
<1>3. \A g : Relabelled(Top(t), "fail", g) => FrameOK(g)
  BY <1>1, <1>2 DEF Relabelled, FrameOK, GetOK, Building
<1>4. lock' = lock /\ lock' \in [Cache \cup {Global} -> Thread \cup {None}]
  BY <1>1 DEF Inv, TypeOK
<1> QED BY <1>1, <1>2, <1>3, <1>4, MovesOn DEF Label, Inv

\* The error path lets go of the member of the half-built object, if it has one.
LEMMA GetFailInv ==
  ASSUME Inv, NEW t \in Thread, GetFail(t)
  PROVE  Inv'
<1> DEFINE f == Top(t)
<1>1. /\ stack[t] # <<>> /\ f.op = "get" /\ f.at = "fail" /\ UNCHANGED <<lock, objVars, ptr>>
  BY DEF GetFail, At
<1>2. f \in Frame /\ FrameOK(f)
  BY <1>1, Acting
<1>3. Holding(f) /\ Building(f) /\ f.obj \in Obj
  BY <1>1, <1>2 DEF Holding, Building, FrameOK, GetOK, Inv, TypeOK
<1>4. \A g : Relabelled(f, "failed", g) => FrameOK(g) /\ g.obj = f.obj /\ g.op = "get" /\ g.at = "failed"
  BY <1>1, <1>2 DEF Relabelled, FrameOK, GetOK, Building
<1>5. CASE ptr[f.obj] = None
  <2>1. Goto(t, "failed")
    BY <1>5 DEF GetFail
  <2>2. lock' = lock /\ lock' \in [Cache \cup {Global} -> Thread \cup {None}]
    BY <1>1 DEF Inv, TypeOK
  <2> QED BY <1>1, <1>3, <1>4, <1>5, <2>1, <2>2, MovesOn DEF Label, Inv
<1>6. CASE ptr[f.obj] # None
  <2> PICK e : e = Release(f.obj, ptr[f.obj])
    OBVIOUS
  <2>1. CallFrom(t, "failed", e)
    BY <1>6 DEF GetFail
  <2>2. f.obj \in Holder /\ ptr[f.obj] \in live /\ ptr[f.obj] \in Obj /\ CacheOf[key[ptr[f.obj]]] \in Cache
    BY <1>3, <1>6, KeyAssumption DEF Holder, Inv, TypeOK, ObjInv
  <2>3. /\ e \in Frame /\ e.op = "release" /\ e.at = "lock" /\ e.holder = f.obj
        /\ e.obj = ptr[f.obj] /\ e.cache = CacheOf[key[ptr[f.obj]]]
    BY <2>2 DEF Release, Call, Frame
  <2>4. FrameOK(e)
    BY <2>2, <2>3 DEF FrameOK, ReleaseOK
  <2>5. \A g : Relabelled(f, "failed", g) => FrameOK(g) /\ Link(e, g)
    BY <1>4, <2>3 DEF Link
  <2> QED BY <1>1, <1>3, <2>1, <2>3, <2>4, <2>5, CallsOn DEF Label
<1> QED BY <1>5, <1>6

-----------------------------------------------------------------------------
\* The steps that set a pointer to an object in use, or clear one.

\* One more pointer to an object that nobody builds or deletes disturbs no other call.
LEMMA OthersAfterSet ==
  ASSUME Inv, NEW t \in Thread, stack[t] # <<>>, Top(t).op # "reset", NEW o \in live,
         ptr[Top(t).holder] = None,
         ptr' = [ptr EXCEPT ![Top(t).holder] = o],
         refs' = [refs EXCEPT ![o] = @ + 1],
         UNCHANGED <<attached, live, key>>,
         \A e \in Frame : Other(t, e) /\ Owning(e) => e.obj # o
  PROVE  /\ \A e \in Frame : Other(t, e) => FrameOK(e)'
         /\ refs' \in [Obj -> Nat] /\ ptr' \in [Holder -> Obj \cup {None}]
         /\ ObjInv' /\ CountInv' /\ OneObjectPerKey'
         /\ \A p \in live : refs'[p] = 0 => refs[p] = 0
<1> DEFINE h == Top(t).holder
<1>1. h \in Holder /\ o \in Obj
  BY Acting DEF FrameOK, Inv, TypeOK
<1>2. /\ ptr \in [Holder -> Obj \cup {None}] /\ refs \in [Obj -> Nat]
      /\ live \subseteq Obj /\ attached \subseteq Obj
  BY DEF Inv, TypeOK
<1>3. ASSUME NEW e \in Frame, Other(t, e) PROVE FrameOK(e)'
  <2>1. FrameOK(e) /\ (e.op # "reset" => e.holder # h) /\ (Owning(e) => e.obj # o)
    BY <1>3, OtherFacts
  <2>2. e.op = "get" => GetOK(e)'
    BY <1>1, <1>2, <2>1 DEF FrameOK, GetOK, Owning, Building
  <2>3. e.op = "copy" => CopyOK(e)'
    BY <1>1, <1>2, <2>1 DEF FrameOK, CopyOK
  <2>4. e.op = "release" => ReleaseOK(e)'
    BY <1>1, <1>2, <2>1 DEF FrameOK, ReleaseOK, Owning, Freeing
  <2> QED BY <2>1, <2>2, <2>3, <2>4 DEF FrameOK, ResetOK
<1>4. refs' \in [Obj -> Nat] /\ ptr' \in [Holder -> Obj \cup {None}]
  BY <1>1, <1>2
<1>5. ObjInv'
  <2>1. o \in live /\ o # None /\ h \in Holder
    BY <1>1, NoneAssumption
  <2>2. \A p \in Obj \ live : p # h
    <3> SUFFICES ASSUME h \in Obj PROVE h \in live
      OBVIOUS
    <3>1. 1 \in DOMAIN stack[t] /\ Top(t) = stack[t][1]
      BY TopIsFirst DEF Inv
    <3> QED BY <3>1, HolderOf, Owned, NamesAssumption DEF Inv
  <2> QED BY <1>2, <2>1, <2>2 DEF Inv, ObjInv, Holder
<1>6. CountInv'
  <2> SUFFICES ASSUME NEW p \in live
               PROVE  IsFiniteSet(Pointers(p)') /\ refs'[p] = Cardinality(Pointers(p)')
    BY DEF CountInv
  <2>1. IsFiniteSet(Pointers(p)) /\ refs[p] = Cardinality(Pointers(p)) /\ p \in Obj
    BY <1>2 DEF Inv, CountInv
  <2>2. /\ Pointers(o)' = Pointers(o) \cup {h} /\ h \notin Pointers(o)
        /\ p # o => Pointers(p)' = Pointers(p)
    BY <1>1, <2>1, PointerSet DEF Inv
  <2>3. CASE p = o
    BY <1>1, <1>2, <2>1, <2>2, <2>3, FS_AddElement
  <2>4. CASE p # o
    BY <1>1, <1>2, <2>1, <2>2, <2>4
  <2> QED BY <2>3, <2>4
<1>7. OneObjectPerKey'
  BY DEF Inv, OneObjectPerKey
<1>8. \A p \in live : refs'[p] = 0 => refs[p] = 0
  BY <1>1, <1>2
<1> QED BY <1>3, <1>4, <1>5, <1>6, <1>7, <1>8

\* An object found in the list is not on its way out: release would need this lock.
LEMMA GetHitInv ==
  ASSUME Inv, NEW t \in Thread, GetHit(t)
  PROVE  Inv'
<1> DEFINE f == Top(t)
<1> PICK o \in Found(f.cache, f.key) :
        refs' = [refs EXCEPT ![o] = @ + 1] /\ ptr' = [ptr EXCEPT ![f.holder] = o]
  BY DEF GetHit
<1>1. /\ stack[t] # <<>> /\ f.op = "get" /\ f.at = "find"
      /\ lock' = [lock EXCEPT ![f.cache] = None] /\ stack' = [stack EXCEPT ![t] = Tail(@)]
      /\ UNCHANGED <<attached, live, key>>
  BY DEF GetHit, At, Unlock, Return
<1>2. f \in Frame /\ FrameOK(f)
  BY <1>1, Acting
<1>3. o \in attached /\ o \in live /\ ptr[f.holder] = None /\ Holding(f)
  BY <1>1, <1>2 DEF Found, Inv, ObjInv, FrameOK, GetOK, Holding
<1>4. \A e \in Frame : Other(t, e) /\ Owning(e) => e.obj # o
  <2> TAKE e \in Frame
  <2> HAVE Other(t, e) /\ Owning(e)
  <2>1. FrameOK(e)
    BY <1>1, OtherFacts
  <2> QED BY <1>3, <2>1 DEF FrameOK, GetOK, ReleaseOK, Owning, Building, Freeing
<1>5. /\ \A e \in Frame : Other(t, e) => FrameOK(e)'
      /\ refs' \in [Obj -> Nat] /\ ptr' \in [Holder -> Obj \cup {None}]
      /\ ObjInv' /\ CountInv' /\ OneObjectPerKey'
      /\ \A p \in live : refs'[p] = 0 => refs[p] = 0
  BY <1>1, <1>3, <1>4, OthersAfterSet
<1>6. \A c \in Cache : c # f.cache => lock'[c] = lock[c]
  BY <1>1 DEF Inv, TypeOK
<1>7. /\ ShapeInv' /\ FrameInv' /\ MutexInv' /\ TopOK(t)'
      /\ \A p : Dying(p) => Dying(p)'
      /\ \A u \in Thread \ {t} : stack'[u] = stack[u]
      /\ stack' \in [Thread -> Seq(Frame)]
  BY <1>1, <1>3, <1>5, <1>6, Returns
<1>8. TopInv'
  BY <1>1, <1>7, TopKept DEF TopInv
<1>9. DyingInv'
  BY <1>1, <1>5, <1>7 DEF Inv, DyingInv
<1>10. TypeOK'
  BY <1>1, <1>2, <1>5, <1>7 DEF Inv, TypeOK, Frame
<1> QED BY <1>5, <1>7, <1>8, <1>9, <1>10 DEF Inv

\* What a thread copies is held by a pointer it can reach, so it is not being deleted.
LEMMA CopyBumpInv ==
  ASSUME Inv, NEW t \in Thread, CopyBump(t)
  PROVE  Inv'
<1> DEFINE f == Top(t)
           o == Top(t).obj
<1>1. /\ stack[t] # <<>> /\ f.op = "copy" /\ f.at = "bump"
      /\ refs' = [refs EXCEPT ![o] = @ + 1] /\ ptr' = [ptr EXCEPT ![f.holder] = o]
      /\ lock' = [lock EXCEPT ![f.cache] = None] /\ stack' = [stack EXCEPT ![t] = Tail(@)]
      /\ UNCHANGED <<attached, live, key>>
  BY DEF CopyBump, At, Unlock, Return
<1>2. f \in Frame /\ FrameOK(f) /\ o \in Reachable(t)
  BY <1>1, Acting DEF TopOK
<1>3. o \in live /\ ptr[f.holder] = None /\ Holding(f)
  BY <1>1, <1>2 DEF FrameOK, CopyOK, Holding
\* Nothing calls a copy, so it is the only frame of its thread.
<1>4. Len(stack[t]) = 1 /\ DOMAIN stack[t] = {1}
  <2>1. /\ Len(stack[t]) \in Nat \ {0} /\ DOMAIN stack[t] = 1 .. Len(stack[t])
        /\ f = stack[t][1]
    BY <1>1, TopIsFirst DEF Inv
  <2>2. ASSUME 1 # Len(stack[t]) PROVE FALSE
    <3>1. 1 \in DOMAIN stack[t]
      BY <2>1
    <3>2. Link(stack[t][1], stack[t][1 + 1])
      BY <2>2, <3>1 DEF Inv, ShapeInv
    <3>3. stack[t][1].op \in {"get", "release"}
      BY <3>2 DEF Link
    <3> QED BY <1>1, <2>1, <3>3
  <2>3. Len(stack[t]) = 1
    BY <2>2
  <2>4. 1 .. 1 = {1}
    OBVIOUS
  <2> QED BY <2>1, <2>3, <2>4
<1>5. \A e \in Frame : Other(t, e) /\ Owning(e) => e.obj # o
  <2> TAKE e \in Frame
  <2> HAVE Other(t, e) /\ Owning(e)
  <2> PICK u \in Thread : \E i \in DOMAIN stack[u] : e = stack[u][i] /\ (u # t \/ i # 1)
    BY DEF Other
  <2> PICK i \in DOMAIN stack[u] : e = stack[u][i] /\ (u # t \/ i # 1)
    OBVIOUS
  <2>1. u # t
    BY <1>4
  <2> QED BY <1>2, <2>1, CopiedNotOwned
<1>6. /\ \A e \in Frame : Other(t, e) => FrameOK(e)'
      /\ refs' \in [Obj -> Nat] /\ ptr' \in [Holder -> Obj \cup {None}]
      /\ ObjInv' /\ CountInv' /\ OneObjectPerKey'
      /\ \A p \in live : refs'[p] = 0 => refs[p] = 0
  BY <1>1, <1>3, <1>5, OthersAfterSet
<1>7. \A c \in Cache : c # f.cache => lock'[c] = lock[c]
  BY <1>1 DEF Inv, TypeOK
<1>8. /\ ShapeInv' /\ FrameInv' /\ MutexInv' /\ TopOK(t)'
      /\ \A p : Dying(p) => Dying(p)'
      /\ \A u \in Thread \ {t} : stack'[u] = stack[u]
      /\ stack' \in [Thread -> Seq(Frame)]
  BY <1>1, <1>3, <1>6, <1>7, Returns
<1>9. TopInv'
  BY <1>1, <1>8, TopKept DEF TopInv
<1>10. DyingInv'
  BY <1>1, <1>6, <1>8 DEF Inv, DyingInv
<1>11. TypeOK'
  BY <1>1, <1>2, <1>6, <1>8 DEF Inv, TypeOK, Frame
<1> QED BY <1>6, <1>8, <1>9, <1>10, <1>11 DEF Inv

\* The count goes down together with the pointer, under the lock.
LEMMA ReleaseDropInv ==
  ASSUME Inv, NEW t \in Thread, ReleaseDrop(t)
  PROVE  Inv'
<1> PICK f, h, o : f = Top(t) /\ h = f.holder /\ o = f.obj
  OBVIOUS
<1>1. /\ stack[t] # <<>> /\ f.op = "release" /\ f.at = "drop"
      /\ refs' = [refs EXCEPT ![o] = @ - 1] /\ ptr' = [ptr EXCEPT ![h] = None]
      /\ stack' = [stack EXCEPT ![t] = <<[f EXCEPT !.at = "test"]>> \o Tail(@)]
      /\ UNCHANGED <<lock, attached, live, key>>
  BY DEF ReleaseDrop, At, Goto
<1>2. f \in Frame /\ FrameOK(f) /\ Holding(f)
  BY <1>1, Acting DEF Holding
<1>3. h \in Holder /\ o \in live /\ o \in Obj /\ ptr[h] = o /\ f.cache = CacheOf[key[o]]
  BY <1>1, <1>2 DEF FrameOK, ReleaseOK, Inv, TypeOK
<1>4. /\ ptr \in [Holder -> Obj \cup {None}] /\ refs \in [Obj -> Nat]
      /\ live \subseteq Obj /\ attached \subseteq Obj
  BY DEF Inv, TypeOK
<1> PICK g : g = [f EXCEPT !.at = "test"] /\ Relabelled(f, "test", g)
  BY <1>2, Relabel DEF Label
<1>5. /\ g \in Frame /\ g.at = "test" /\ g.op = "release" /\ g.holder = h /\ g.obj = o
      /\ g.cache = f.cache
  BY <1>1 DEF Relabelled
<1>6. FrameOK(g)'
  BY <1>1, <1>3, <1>4, <1>5 DEF FrameOK, ReleaseOK
<1>7. refs[o] \in Nat \ {0} /\ CountInv' /\ refs' \in [Obj -> Nat]
  <2>1. /\ Pointers(o)' = Pointers(o) \ {h} /\ h \in Pointers(o)
        /\ \A p \in Obj \ {o} : Pointers(p)' = Pointers(p)
    BY <1>1, <1>3, PointerCleared DEF Inv
  <2>2. \A p \in live : IsFiniteSet(Pointers(p)) /\ refs[p] = Cardinality(Pointers(p)) /\ p \in Obj
    BY <1>4 DEF Inv, CountInv
  <2>3. refs[o] \in Nat \ {0}
    BY <1>3, <1>4, <2>1, <2>2, FS_EmptySet
  <2>4. IsFiniteSet(Pointers(o)') /\ refs'[o] = Cardinality(Pointers(o)')
    BY <1>1, <1>3, <1>4, <2>1, <2>2, FS_RemoveElement
  <2>5. ASSUME NEW p \in live, p # o
        PROVE  IsFiniteSet(Pointers(p)') /\ refs'[p] = Cardinality(Pointers(p)')
    BY <1>1, <1>3, <1>4, <2>1, <2>2, <2>5
  <2>6. CountInv'
    BY <1>1, <2>4, <2>5 DEF CountInv
  <2>7. refs' \in [Obj -> Nat]
    BY <1>1, <1>3, <1>4, <2>3
  <2> QED BY <2>3, <2>6, <2>7
<1>8. ASSUME NEW e \in Frame, Other(t, e) PROVE FrameOK(e)'
  <2>1. FrameOK(e) /\ (e.op # "reset" => e.holder # h)
    BY <1>1, <1>8, OtherFacts
  <2>2. e.op = "get" => GetOK(e)'
    <3> SUFFICES ASSUME e.op = "get" PROVE GetOK(e)'
      OBVIOUS
    <3>1. GetOK(e) /\ e.holder # h /\ e.holder \in Holder
      BY <2>1 DEF FrameOK
    <3>2. ASSUME Building(e) PROVE \A x \in Holder : ptr'[x] = e.obj <=> x = e.holder
      <4>1. e.obj \in Obj /\ \A x \in Holder : ptr[x] = e.obj <=> x = e.holder
        BY <1>4, <3>1, <3>2 DEF GetOK
      <4>2. e.obj # o
        BY <1>3, <3>1, <4>1
      <4> QED BY <1>1, <1>3, <1>4, <4>1, <4>2, NoneAssumption
    <3>3. ptr'[e.holder] = ptr[e.holder]
      BY <1>1, <1>3, <1>4, <3>1
    <3> QED BY <1>1, <3>1, <3>2, <3>3 DEF GetOK, Building
  <2>3. e.op = "copy" => CopyOK(e)'
    BY <1>1, <1>3, <1>4, <2>1 DEF FrameOK, CopyOK
  <2>4. e.op = "release" => ReleaseOK(e)'
    BY <1>1, <1>3, <1>4, <1>7, <2>1 DEF FrameOK, ReleaseOK
  <2> QED BY <2>1, <2>2, <2>3, <2>4 DEF FrameOK, ResetOK
<1>9. /\ ShapeInv' /\ FrameInv' /\ MutexInv'
      /\ \A p : Dying(p) => Dying(p)' \/ p = o
      /\ \A u \in Thread \ {t} : stack'[u] = stack[u]
      /\ stack' \in [Thread -> Seq(Frame)]
      /\ Top(t)' = g /\ stack'[t] # <<>> /\ 1 \in DOMAIN stack'[t] /\ stack'[t][1] = g
  <2>1. stack' = [stack EXCEPT ![t] = <<g>> \o Tail(@)]
    BY <1>1
  <2>2. g.op = Top(t).op /\ g.holder = Top(t).holder /\ g.cache = Top(t).cache /\ g \in Frame
    BY <1>1, <1>5
  <2>3. \A e \in Frame : Other(t, e) => FrameOK(e)'
    BY <1>8
  <2>4. /\ ShapeInv' /\ FrameInv'
        /\ (\A k \in Cache : lock'[k] = lock[k]) /\ (Holding(g) => Holding(Top(t)))
            => MutexInv'
        /\ \A p : Dying(p) => Dying(p)' \/ (Top(t).op = "release" /\ Top(t).obj = p)
        /\ \A u \in Thread \ {t} : stack'[u] = stack[u]
        /\ stack' \in [Thread -> Seq(Frame)]
        /\ Top(t)' = g /\ stack'[t] # <<>> /\ 1 \in DOMAIN stack'[t] /\ stack'[t][1] = g
    <3>1. stack[t] # <<>> /\ FrameOK(g)' /\ g \in Frame
      BY <1>1, <1>5, <1>6
    <3>2. g.op = Top(t).op /\ g.holder = Top(t).holder /\ g.cache = Top(t).cache
      BY <2>2
    <3> QED BY ZenonT(40), <2>1, <2>3, <3>1, <3>2, GoesOn
  <2> QED BY <1>1, <1>2, <2>4
<1>10. TopInv'
  <2>1. TopOK(t)'
    BY <1>5, <1>9 DEF TopOK
  <2> QED BY <1>1, <1>9, <2>1, TopKept DEF TopInv
<1>11. ObjInv'
  BY <1>1, <1>3, <1>4 DEF Inv, ObjInv, Holder
<1>12. DyingInv'
  <2>1. Dying(o)'
    <3>1. /\ 1 \in DOMAIN stack'[t] /\ stack'[t][1].op = "release"
          /\ stack'[t][1].at = "test" /\ stack'[t][1].obj = o
      BY <1>5, <1>9
    <3> QED BY <3>1 DEF Dying
  <2> QED BY <1>1, <1>3, <1>4, <1>9, <2>1 DEF Inv, DyingInv
<1>13. OneObjectPerKey'
  BY <1>1 DEF Inv, OneObjectPerKey
<1>14. TypeOK'
  BY <1>1, <1>3, <1>4, <1>7, <1>9 DEF Inv, TypeOK
<1> QED BY <1>7, <1>9, <1>10, <1>11, <1>12, <1>13, <1>14 DEF Inv

\* The count is not 0, so others still hold the object, and the lock goes back.
LEMMA ReleaseKeepInv ==
  ASSUME Inv, NEW t \in Thread, ReleaseKeep(t)
  PROVE  Inv'
<1>1. /\ stack[t] # <<>> /\ Top(t).op = "release" /\ Top(t).at = "test"
      /\ refs[Top(t).obj] # 0
      /\ lock' = [lock EXCEPT ![Top(t).cache] = None] /\ stack' = [stack EXCEPT ![t] = Tail(@)]
      /\ UNCHANGED <<objVars, ptr>>
  BY DEF ReleaseKeep, At, Unlock, Return
<1>2. Top(t) \in Frame /\ FrameOK(Top(t)) /\ Holding(Top(t))
  BY <1>1, Acting DEF Holding
<1>3. Top(t).op = "release" => ptr'[Top(t).holder] = None
  BY <1>1, <1>2 DEF FrameOK, ReleaseOK
<1>4. \A e \in Frame : Other(t, e) => FrameOK(e)'
  <2> TAKE e \in Frame
  <2> HAVE Other(t, e)
  <2>1. FrameOK(e)
    BY <1>1, OtherFacts
  <2> QED BY <1>1, <2>1, DataSame
<1>5. \A c \in Cache : c # Top(t).cache => lock'[c] = lock[c]
  BY <1>1 DEF Inv, TypeOK
<1>6. /\ ShapeInv' /\ FrameInv' /\ MutexInv' /\ TopOK(t)'
      /\ \A p : Dying(p) => Dying(p)' \/ (Top(t).op = "release" /\ Top(t).obj = p)
      /\ \A u \in Thread \ {t} : stack'[u] = stack[u]
      /\ stack' \in [Thread -> Seq(Frame)]
  BY <1>1, <1>2, <1>3, <1>4, <1>5, Returns
<1>7. TopInv'
  BY <1>1, <1>6, DataSame DEF TopInv
<1>8. DyingInv'
  BY <1>1, <1>6, DyingKept DEF Inv, objVars
<1>9. TypeOK'
  BY <1>1, <1>2, <1>6 DEF Inv, TypeOK, Frame, objVars
<1> QED BY <1>1, <1>6, <1>7, <1>8, <1>9, DataSame DEF Inv

-----------------------------------------------------------------------------
\* The steps that add an object to the lists or take some off.

\* The new object joins the list: none of its key is there, since find looked.
LEMMA GetAddInv ==
  ASSUME Inv, NEW t \in Thread, GetAdd(t)
  PROVE  Inv'
<1> PICK f, o : f = Top(t) /\ o = f.obj
  OBVIOUS
<1>1. /\ stack[t] # <<>> /\ f.op = "get" /\ f.at = "built" /\ attached' = attached \cup {o}
      /\ lock' = [lock EXCEPT ![f.cache] = None] /\ stack' = [stack EXCEPT ![t] = Tail(@)]
      /\ UNCHANGED <<live, key, refs, ptr>>
  BY DEF GetAdd, At, Unlock, Return
<1>2. f \in Frame /\ FrameOK(f) /\ Holding(f)
  BY <1>1, Acting DEF Holding
<1>3. /\ o \in live /\ o \in Obj /\ o \notin attached /\ key[o] = f.key /\ f.cache = CacheOf[f.key]
      /\ \A a \in attached : key[a] # f.key
  BY <1>1, <1>2 DEF FrameOK, GetOK, Building, Inv, TypeOK
<1>4. ASSUME NEW e \in Frame, Other(t, e) PROVE FrameOK(e)'
  <2>1. FrameOK(e) /\ (Holding(e) => e.cache # f.cache)
    BY <1>1, <1>2, <1>4, OtherFacts
  <2>2. e.op = "get" => GetOK(e)'
    <3> SUFFICES ASSUME e.op = "get" PROVE GetOK(e)'
      OBVIOUS
    <3>1. GetOK(e)
      BY <2>1 DEF FrameOK
    <3>2. ASSUME Building(e)
          PROVE  e.obj \notin attached' /\ \A a \in attached' : key[a] # e.key
      <4>1. Holding(e) /\ e.cache = CacheOf[e.key] /\ key[e.obj] = e.key
        BY <3>1, <3>2 DEF GetOK, Building, Holding
      <4>2. e.key # f.key
        BY <1>3, <2>1, <4>1
      <4> QED BY <1>1, <1>3, <3>1, <3>2, <4>1, <4>2 DEF GetOK
    <3> QED BY <1>1, <3>1, <3>2 DEF GetOK, Building
  <2>3. e.op = "copy" => CopyOK(e)'
    BY <1>1, <2>1 DEF FrameOK, CopyOK
  <2>4. e.op = "release" => ReleaseOK(e)'
    BY <1>1, <1>3, <2>1 DEF FrameOK, ReleaseOK, Holding
  <2> QED BY <2>1, <2>2, <2>3, <2>4 DEF FrameOK, ResetOK
<1>5. \A c \in Cache : c # f.cache => lock'[c] = lock[c]
  BY <1>1 DEF Inv, TypeOK
<1>6. /\ ShapeInv' /\ FrameInv' /\ MutexInv' /\ TopOK(t)'
      /\ \A p : Dying(p) => Dying(p)'
      /\ \A u \in Thread \ {t} : stack'[u] = stack[u]
      /\ stack' \in [Thread -> Seq(Frame)]
  <2>1. \A e \in Frame : Other(t, e) => FrameOK(e)'
    BY <1>4
  <2>2. Holding(Top(t)) /\ Top(t).op = "get" /\ \A c \in Cache : c # Top(t).cache => lock'[c] = lock[c]
    BY <1>1, <1>2, <1>5
  <2> QED BY <1>1, <2>1, <2>2, Returns
<1>7. TopInv'
  <2> SUFFICES ASSUME NEW u \in Thread PROVE TopOK(u)'
    BY DEF TopInv
  <2>1. CASE u # t
    BY <1>1, <1>6, <2>1 DEF Inv, TopInv, TopOK, Top, Reachable, Slots
  <2> QED BY <1>6, <2>1
<1>8. DyingInv'
  BY <1>1, <1>6, DyingKept DEF Inv
<1>9. TypeOK'
  BY <1>1, <1>2, <1>3, <1>6 DEF Inv, TypeOK, Frame
<1>10. ObjInv' /\ CountInv'
  BY <1>1, <1>3 DEF Inv, ObjInv, CountInv, Pointers
<1>11. OneObjectPerKey'
  BY <1>1, <1>3 DEF Inv, OneObjectPerKey
<1> QED BY <1>6, <1>7, <1>8, <1>9, <1>10, <1>11 DEF Inv

\* A reset takes objects off the list; none that is held is lost.
LEMMA ResetDetachInv ==
  ASSUME Inv, NEW t \in Thread, ResetDetach(t)
  PROVE  Inv'
<1> PICK f : f = Top(t)
  OBVIOUS
<1>1. /\ stack[t] # <<>> /\ f.op = "reset" /\ f.at = "detach"
      /\ attached' = {o \in attached : CacheOf[key[o]] # f.cache}
      /\ lock' = [lock EXCEPT ![f.cache] = None, ![Global] = None]
      /\ stack' = [stack EXCEPT ![t] = Tail(@)]
      /\ UNCHANGED <<live, key, refs, ptr>>
  BY DEF ResetDetach, At, Return
<1>2. f \in Frame /\ Holding(f)
  BY <1>1, Acting DEF Holding
<1>3. ASSUME NEW e \in Frame, Other(t, e) PROVE FrameOK(e)'
  <2>1. FrameOK(e)
    BY <1>1, <1>3, OtherFacts
  <2> QED BY <1>1, <2>1 DEF FrameOK, GetOK, CopyOK, ReleaseOK, ResetOK, Building
<1>4. \A c \in Cache : c # f.cache => lock'[c] = lock[c]
  BY <1>1, NamesAssumption DEF Inv, TypeOK
<1>5. /\ ShapeInv' /\ FrameInv' /\ MutexInv' /\ TopOK(t)'
      /\ \A p : Dying(p) => Dying(p)'
      /\ \A u \in Thread \ {t} : stack'[u] = stack[u]
      /\ stack' \in [Thread -> Seq(Frame)]
  <2>1. \A e \in Frame : Other(t, e) => FrameOK(e)'
    BY <1>3
  <2>2. /\ Holding(Top(t)) /\ Top(t).op = "reset"
        /\ \A c \in Cache : c # Top(t).cache => lock'[c] = lock[c]
    BY <1>1, <1>2, <1>4
  <2> QED BY <1>1, <2>1, <2>2, Returns
<1>6. TopInv'
  <2> SUFFICES ASSUME NEW u \in Thread PROVE TopOK(u)'
    BY DEF TopInv
  <2>1. CASE u # t
    BY <1>1, <1>5, <2>1 DEF Inv, TopInv, TopOK, Top, Reachable, Slots
  <2> QED BY <1>5, <2>1
<1>7. DyingInv'
  BY <1>1, <1>5, DyingKept DEF Inv
<1>8. TypeOK'
  BY <1>1, <1>2, <1>5 DEF Inv, TypeOK, Frame
<1>9. ObjInv' /\ CountInv' /\ OneObjectPerKey'
  BY <1>1 DEF Inv, ObjInv, CountInv, Pointers, OneObjectPerKey
<1> QED BY <1>5, <1>6, <1>7, <1>8, <1>9 DEF Inv

\* The count is 0 under the lock: the object leaves the list and can be found no more.
LEMMA ReleaseLastInv ==
  ASSUME Inv, NEW t \in Thread, ReleaseLast(t)
  PROVE  Inv'
<1> PICK f, o : f = Top(t) /\ o = f.obj
  OBVIOUS
<1>1. /\ stack[t] # <<>> /\ f.op = "release" /\ f.at = "test" /\ refs[o] = 0
      /\ attached' = attached \ {o} /\ UNCHANGED <<lock, live, key, refs, ptr>>
  BY DEF ReleaseLast, At
<1>2. f \in Frame /\ FrameOK(f) /\ Holding(f)
  BY <1>1, Acting DEF Holding
<1>3. o \in live /\ o \in Obj /\ f.cache = CacheOf[key[o]] /\ ptr[f.holder] = None /\ f.holder \in Holder
  BY <1>1, <1>2 DEF FrameOK, ReleaseOK, Inv, TypeOK
<1> PICK g \in Frame : Stepped(f, "free", g) /\ Relabelled(f, "free", g)
  <2>1. \E g : Stepped(f, "free", g) /\ Relabelled(f, "free", g)
    BY <1>2, Relabel DEF Label, Stepped
  <2> QED BY <2>1 DEF Relabelled
<1>4. /\ g \in Frame /\ g.op = "release" /\ g.at = "free" /\ g.holder = f.holder /\ g.obj = o
      /\ g.cache = f.cache
  BY <1>1 DEF Relabelled
<1>5. FrameOK(g)'
  BY <1>1, <1>3, <1>4 DEF FrameOK, ReleaseOK
<1>6. \A e \in Frame : Other(t, e) => FrameOK(e)'
  <2> TAKE e \in Frame
  <2> HAVE Other(t, e)
  <2>1. FrameOK(e)
    BY <1>1, OtherFacts
  <2> QED BY <1>1, <2>1 DEF FrameOK, GetOK, CopyOK, ReleaseOK, ResetOK, Building
<1>7. g.op = Top(t).op /\ g.holder = Top(t).holder /\ g.cache = Top(t).cache
  BY <1>1, <1>4
<1>8. /\ ShapeInv' /\ FrameInv' /\ MutexInv' /\ TopOK(t)'
      /\ \A p : Dying(p) => Dying(p)' \/ p = o
      /\ \A u \in Thread \ {t} : stack'[u] = stack[u]
      /\ stack' \in [Thread -> Seq(Frame)]
      /\ Dying(o)'
  <2>1. CASE ptr[o] = None
    <3>1. stack' = [stack EXCEPT ![t] = <<g>> \o Tail(@)]
      BY <2>1 DEF ReleaseLast, Goto, Stepped
    <3>2. /\ ShapeInv' /\ FrameInv'
          /\ (\A k \in Cache : lock'[k] = lock[k]) /\ (Holding(g) => Holding(Top(t)))
              => MutexInv'
          /\ \A p : Dying(p) => Dying(p)' \/ (Top(t).op = "release" /\ Top(t).obj = p)
          /\ \A u \in Thread \ {t} : stack'[u] = stack[u]
          /\ stack' \in [Thread -> Seq(Frame)]
          /\ Top(t)' = g /\ stack'[t] # <<>> /\ 1 \in DOMAIN stack'[t] /\ stack'[t][1] = g
      BY <1>1, <1>4, <1>5, <1>6, <1>7, <3>1, GoesOn
    <3>3. Dying(o)'
      <4>1. /\ 1 \in DOMAIN stack'[t] /\ stack'[t][1].op = "release"
            /\ stack'[t][1].at = "free" /\ stack'[t][1].obj = o
        BY <1>4, <3>2
      <4> QED BY <4>1 DEF Dying
    <3>4. TopOK(t)'
      BY <1>1, <1>4, <2>1, <3>2 DEF TopOK
    <3> QED BY <1>1, <1>2, <3>2, <3>3, <3>4
  <2>2. CASE ptr[o] # None
    <3>1. o \in Holder /\ ptr[o] \in live /\ ptr[o] \in Obj /\ CacheOf[key[ptr[o]]] \in Cache
      BY <1>3, <2>2, KeyAssumption DEF Holder, Inv, TypeOK, ObjInv
    <3>2. Release(o, ptr[o]) \in Frame
      BY <3>1 DEF Release, Call, Frame
    <3> PICK d \in Frame : d = Release(o, ptr[o])
      BY <3>2
    <3>3. Pushes(t, d, g)
      BY <2>2 DEF ReleaseLast, CallFrom, Stepped, Pushes
    <3>4. /\ d \in Frame /\ d.op = "release" /\ d.at = "lock" /\ d.holder = o
          /\ d.obj = ptr[o] /\ d.cache = CacheOf[key[ptr[o]]]
      BY DEF Release, Call
    <3>5. FrameOK(d)'
      BY <1>1, <3>1, <3>4 DEF FrameOK, ReleaseOK
    <3>6. Link(d, g) /\ ~Holding(d) /\ d.at # "test"
      BY <1>4, <3>4 DEF Link, Holding
    <3>7. /\ ShapeInv' /\ FrameInv'
          /\ lock' = lock /\ (Holding(g) => Holding(Top(t))) => MutexInv'
          /\ \A p : Dying(p) => Dying(p)' \/ (Top(t).op = "release" /\ Top(t).obj = p)
          /\ \A u \in Thread \ {t} : stack'[u] = stack[u]
          /\ stack' \in [Thread -> Seq(Frame)]
          /\ Top(t)' = d /\ stack'[t] # <<>> /\ 2 \in DOMAIN stack'[t] /\ stack'[t][2] = g
      <4>1. stack[t] # <<>> /\ d \in Frame /\ g \in Frame
        BY <1>1, <1>4, <3>4
      <4>2. \A e \in Frame : Other(t, e) => FrameOK(e)'
        BY <1>6
      <4> QED BY <1>5, <1>7, <3>3, <3>5, <3>6, <4>1, <4>2, Calls
    <3>8. Dying(o)'
      <4>1. /\ 2 \in DOMAIN stack'[t] /\ stack'[t][2].op = "release"
            /\ stack'[t][2].at = "free" /\ stack'[t][2].obj = o
        BY <1>4, <3>7
      <4> QED BY <4>1 DEF Dying
    <3>9. TopOK(t)'
      BY <3>4, <3>7 DEF TopOK
    <3> QED BY <1>1, <1>2, <3>7, <3>8, <3>9
  <2> QED BY <2>1, <2>2
<1>9. TopInv'
  <2> SUFFICES ASSUME NEW u \in Thread PROVE TopOK(u)'
    BY DEF TopInv
  <2>1. CASE u # t
    BY <1>1, <1>8, <2>1 DEF Inv, TopInv, TopOK, Top, Reachable, Slots
  <2> QED BY <1>8, <2>1
<1>10. DyingInv'
  <2>1. \A p : Dying(p) => Dying(p)'
    BY <1>8
  <2> QED BY <1>1, <2>1, DyingKept DEF Inv
<1>11. TypeOK'
  BY SMTT(30), <1>1, <1>8 DEF Inv, TypeOK
<1>12. ObjInv' /\ CountInv' /\ OneObjectPerKey'
  <2>1. ObjInv'
    BY <1>1 DEF Inv, ObjInv
  <2>2. CountInv'
    BY <1>1 DEF Inv, CountInv, Pointers
  <2>3. OneObjectPerKey'
    BY <1>1 DEF Inv, OneObjectPerKey
  <2> QED BY <2>1, <2>2, <2>3
<1> QED BY <1>8, <1>9, <1>10, <1>11, <1>12 DEF Inv

-----------------------------------------------------------------------------
\* The steps that allocate an object or delete one.

\* A call to copy in another thread copies what that thread can reach.
LEMMA OtherCopy ==
  ASSUME Inv, NEW t \in Thread, NEW e, Other(t, e), e.op = "copy"
  PROVE  \E u \in Thread \ {t} : e.obj \in Reachable(u)
<1> PICK u \in Thread : \E i \in DOMAIN stack[u] : e = stack[u][i] /\ (u # t \/ i # 1)
  BY DEF Other
<1> PICK i \in DOMAIN stack[u] : e = stack[u][i] /\ (u # t \/ i # 1)
  OBVIOUS
<1>1. /\ Len(stack[u]) \in Nat /\ i \in 1 .. Len(stack[u]) /\ DOMAIN stack[u] = 1 .. Len(stack[u])
      /\ stack[u] # <<>>
  BY InFrame DEF Inv
<1>2. i = 1
  <2> SUFFICES ASSUME i # 1 PROVE FALSE
    OBVIOUS
  <2>1. i - 1 \in DOMAIN stack[u] /\ i - 1 # Len(stack[u]) /\ (i - 1) + 1 = i
    BY <1>1
  <2>2. Link(stack[u][i - 1], stack[u][(i - 1) + 1])
    BY <2>1 DEF Inv, ShapeInv
  <2>3. stack[u][(i - 1) + 1].op \in {"get", "release"}
    BY <2>2 DEF Link
  <2> QED BY <2>1, <2>3
<1>3. Top(u) = e
  BY <1>1, <1>2, TopIsFirst DEF Inv
<1>4. e.obj \in Reachable(u)
  BY <1>1, <1>3 DEF Inv, TopInv, TopOK
<1> QED BY <1>2, <1>4

\* Deleting the object that the innermost frame of t owns disturbs no other call: what still
\* pointed to it is the pointer that this frame works on.
LEMMA OthersAfterDelete ==
  ASSUME Inv, NEW t \in Thread, stack[t] # <<>>, NEW f, f = Top(t), NEW o, o = f.obj, Owning(f),
         f.at \in {"failed", "free"},
         live' = live \ {o}, key' = [key EXCEPT ![o] = None], attached' = attached,
         \A p \in Obj \ {o} : refs'[p] = refs[p],
         ptr' = [ptr EXCEPT ![f.holder] = None]
  PROVE  /\ \A e \in Frame : Other(t, e) => FrameOK(e)'
         /\ ObjInv' /\ CountInv' /\ OneObjectPerKey'
         /\ key' \in [Obj -> Key \cup {None}] /\ ptr' \in [Holder -> Obj \cup {None}]
<1> PICK h : h = f.holder
  OBVIOUS
<1>1. /\ f \in Frame /\ FrameOK(f) /\ ptr[o] = None /\ 1 \in DOMAIN stack[t] /\ f = stack[t][1]
  BY Acting, TopIsFirst DEF TopOK, Inv
<1>2. o \in live /\ o \in Obj /\ f.cache = CacheOf[key[o]] /\ Holding(f) /\ h \in Holder /\ f.op # "reset"
  BY <1>1, Owned DEF Inv, FrameOK, Owning, Building, Freeing
<1>3. /\ ptr \in [Holder -> Obj \cup {None}] /\ refs \in [Obj -> Nat] /\ key \in [Obj -> Key \cup {None}]
      /\ live \subseteq Obj /\ attached \subseteq Obj
  BY DEF Inv, TypeOK
\* What still pointed to o is the holder.
<1>4. (\A x \in Holder : ptr[x] = o => x = h) /\ o \notin attached /\ ptr[h] \in {o, None}
  <2>1. CASE Building(f)
    BY <1>1, <1>2, <2>1 DEF FrameOK, GetOK, Building
  <2>2. CASE Freeing(f)
    <3>1. refs[o] = 0 /\ o \notin attached /\ ptr[h] = None
      BY <1>1, <2>2 DEF FrameOK, ReleaseOK, Freeing
    <3> QED BY <1>2, <3>1, NoPointers DEF Inv
  <2> QED BY <2>1, <2>2 DEF Owning
<1>5. \A x \in Holder : /\ ptr'[x] = IF x = h THEN None ELSE ptr[x]
                        /\ ptr'[x] # o
  BY <1>2, <1>3, <1>4, NoneAssumption
<1>6. \A p \in Obj \ {o} : key'[p] = key[p]
  BY <1>3
<1>7. ASSUME NEW e \in Frame, Other(t, e) PROVE FrameOK(e)'
  <2>1. /\ FrameOK(e) /\ (e.op # "reset" => e.holder # h /\ e.holder \in Holder)
        /\ (Holding(e) => e.cache # f.cache)
    BY <1>2, <1>7, OtherFacts DEF FrameOK
  <2>2. e.op \in {"copy", "release"} \/ Building(e) => e.obj \in live /\ e.obj \in Obj
    BY <1>3, <2>1 DEF FrameOK, GetOK, CopyOK, ReleaseOK, Building
  <2>3. e.op \in {"copy", "release"} \/ Building(e) => e.obj # o
    <3>1. CASE Building(e)
      BY <1>2, <2>1, <3>1 DEF FrameOK, GetOK, Building, Holding
    <3>2. CASE e.op = "copy"
      <4> PICK u \in Thread \ {t} : e.obj \in Reachable(u)
        BY <1>7, <3>2, OtherCopy
      <4> QED BY <1>1, CopiedNotOwned
    <3>3. CASE e.op = "release" /\ e.at \in {"lock", "drop"}
      BY <1>4, <2>1, <3>3 DEF FrameOK, ReleaseOK
    <3>4. CASE e.op = "release" /\ e.at \in {"test", "free"}
      BY <1>2, <2>1, <3>4 DEF FrameOK, ReleaseOK, Holding
    <3> QED BY <2>1, <3>1, <3>2, <3>3, <3>4 DEF FrameOK, ReleaseOK
  <2>4. e.op = "get" => GetOK(e)'
    <3> SUFFICES ASSUME e.op = "get" PROVE GetOK(e)'
      OBVIOUS
    <3>1. GetOK(e) /\ ptr'[e.holder] = ptr[e.holder]
      BY <1>5, <2>1 DEF FrameOK
    <3>2. ASSUME Building(e)
          PROVE  /\ e.obj \in live' \ attached' /\ key'[e.obj] = e.key
                 /\ \A x \in Holder : ptr'[x] = e.obj <=> x = e.holder
                 /\ \A a \in attached' : key'[a] # e.key
      <4>1. /\ e.obj \in live \ attached /\ key[e.obj] = e.key
            /\ \A x \in Holder : ptr[x] = e.obj <=> x = e.holder
            /\ \A a \in attached : key[a] # e.key
        BY <3>1, <3>2 DEF GetOK
      <4>2. e.obj \in Obj \ {o} /\ e.obj # None
        BY <2>2, <2>3, <3>2, NoneAssumption
      <4>3. \A x \in Holder : ptr'[x] = e.obj <=> x = e.holder
        BY <1>5, <2>1, <4>1, <4>2
      <4>4. \A a \in attached : key'[a] # e.key
        BY <1>3, <1>4, <1>6, <4>1
      <4> QED BY <1>6, <4>1, <4>2, <4>3, <4>4
    <3> QED BY <3>1, <3>2 DEF GetOK, Building
  <2>5. e.op = "copy" => CopyOK(e)'
    BY <1>5, <1>6, <2>1, <2>2, <2>3 DEF FrameOK, CopyOK
  <2>6. e.op = "release" => ReleaseOK(e)'
    BY <1>5, <1>6, <2>1, <2>2, <2>3 DEF FrameOK, ReleaseOK
  <2> QED BY <2>1, <2>4, <2>5, <2>6 DEF FrameOK, ResetOK
<1>8. ObjInv'
  <2>1. \A x \in Holder : ptr'[x] # None => ptr'[x] \in live'
    BY <1>3, <1>5 DEF Inv, ObjInv
  <2>2. attached' \subseteq live' /\ \A p \in live' : key'[p] \in Key
    BY <1>3, <1>4, <1>6 DEF Inv, ObjInv
  <2>3. \A p \in Obj \ live' : ptr'[p] = None
    BY <1>1, <1>3, <1>5 DEF Inv, ObjInv, Holder
  <2> QED BY <2>1, <2>2, <2>3 DEF ObjInv
<1>9. CountInv'
  <2> SUFFICES ASSUME NEW p \in live'
               PROVE  IsFiniteSet(Pointers(p)') /\ refs'[p] = Cardinality(Pointers(p)')
    BY DEF CountInv
  <2>1. p \in live /\ p \in Obj \ {o} /\ p # None
    BY <1>3, NoneAssumption
  <2>2. Pointers(p)' = Pointers(p)
    BY <1>4, <1>5, <2>1 DEF Pointers
  <2> QED BY <2>1, <2>2 DEF Inv, CountInv
<1>10. OneObjectPerKey'
  BY <1>3, <1>4, <1>6 DEF Inv, OneObjectPerKey
<1>11. key' \in [Obj -> Key \cup {None}] /\ ptr' \in [Holder -> Obj \cup {None}]
  BY <1>3
<1> QED BY <1>7, <1>8, <1>9, <1>10, <1>11

\* The object is deleted when nothing points to it any more.
LEMMA ReleaseFreeInv ==
  ASSUME Inv, NEW t \in Thread, ReleaseFree(t)
  PROVE  Inv'
<1> PICK f, o : f = Top(t) /\ o = f.obj
  OBVIOUS
<1>1. /\ stack[t] # <<>> /\ f.op = "release" /\ f.at = "free"
      /\ live' = live \ {o} /\ key' = [key EXCEPT ![o] = None]
      /\ lock' = [lock EXCEPT ![f.cache] = None] /\ stack' = [stack EXCEPT ![t] = Tail(@)]
      /\ UNCHANGED <<attached, refs, ptr>>
  BY DEF ReleaseFree, At, Unlock, Return
<1>2. f \in Frame /\ FrameOK(f) /\ Holding(f) /\ Owning(f)
  BY <1>1, Acting DEF Holding, Owning, Freeing
<1>3. f.holder \in Holder /\ ptr[f.holder] = None
  BY <1>1, <1>2 DEF FrameOK, ReleaseOK
<1>4. ptr' = [ptr EXCEPT ![f.holder] = None]
  BY <1>1, <1>3 DEF Inv, TypeOK
<1>5. /\ \A e \in Frame : Other(t, e) => FrameOK(e)'
      /\ ObjInv' /\ CountInv' /\ OneObjectPerKey'
      /\ key' \in [Obj -> Key \cup {None}] /\ ptr' \in [Holder -> Obj \cup {None}]
  <2>1. \A p \in Obj \ {o} : refs'[p] = refs[p]
    BY <1>1
  <2> QED BY <1>1, <1>2, <1>4, <2>1, OthersAfterDelete
<1>6. /\ ShapeInv' /\ FrameInv' /\ MutexInv' /\ TopOK(t)'
      /\ \A p : Dying(p) => Dying(p)' \/ p = o
      /\ \A u \in Thread \ {t} : stack'[u] = stack[u]
      /\ stack' \in [Thread -> Seq(Frame)]
  <2>1. \A c \in Cache : c # Top(t).cache => lock'[c] = lock[c]
    BY <1>1 DEF Inv, TypeOK
  <2>2. Holding(Top(t)) /\ ptr'[Top(t).holder] = None
    BY <1>1, <1>2, <1>3
  <2>3. \A e \in Frame : Other(t, e) => FrameOK(e)'
    BY <1>5
  <2>4. /\ ShapeInv' /\ FrameInv' /\ MutexInv' /\ TopOK(t)'
        /\ \A p : Dying(p) => Dying(p)' \/ (Top(t).op = "release" /\ Top(t).obj = p)
        /\ \A u \in Thread \ {t} : stack'[u] = stack[u]
        /\ stack' \in [Thread -> Seq(Frame)]
    BY <1>1, <2>1, <2>2, <2>3, Returns
  <2> QED BY <2>4
<1>7. TopInv'
  <2> SUFFICES ASSUME NEW u \in Thread, u # t PROVE TopOK(u)'
    BY <1>6 DEF TopInv
  <2> QED BY <1>1, <1>4, <1>6, TopKept
<1>8. DyingInv'
  BY <1>1, <1>6 DEF Inv, DyingInv
<1>9. TypeOK'
  BY <1>1, <1>2, <1>5, <1>6 DEF Inv, TypeOK, Frame
<1> QED BY <1>5, <1>6, <1>7, <1>8, <1>9 DEF Inv

\* The half-built object is deleted, and the pointer that would have had it is empty again.
LEMMA GetFailedInv ==
  ASSUME Inv, NEW t \in Thread, GetFailed(t)
  PROVE  Inv'
<1> PICK f, o : f = Top(t) /\ o = f.obj
  OBVIOUS
<1>1. /\ stack[t] # <<>> /\ f.op = "get" /\ f.at = "failed"
      /\ live' = live \ {o} /\ key' = [key EXCEPT ![o] = None]
      /\ refs' = [refs EXCEPT ![o] = 0] /\ ptr' = [ptr EXCEPT ![f.holder] = None]
      /\ lock' = [lock EXCEPT ![f.cache] = None] /\ stack' = [stack EXCEPT ![t] = Tail(@)]
      /\ UNCHANGED attached
  BY DEF GetFailed, At, Unlock, Return
<1>2. f \in Frame /\ FrameOK(f) /\ Holding(f) /\ Owning(f)
  BY <1>1, Acting DEF Holding, Owning, Building
<1>3. refs' \in [Obj -> Nat] /\ \A p \in Obj \ {o} : refs'[p] = refs[p]
  BY <1>1 DEF Inv, TypeOK
<1>4. /\ \A e \in Frame : Other(t, e) => FrameOK(e)'
      /\ ObjInv' /\ CountInv' /\ OneObjectPerKey'
      /\ key' \in [Obj -> Key \cup {None}] /\ ptr' \in [Holder -> Obj \cup {None}]
  BY <1>1, <1>2, <1>3, OthersAfterDelete
<1>5. /\ ShapeInv' /\ FrameInv' /\ MutexInv' /\ TopOK(t)'
      /\ \A p : Dying(p) => Dying(p)'
      /\ \A u \in Thread \ {t} : stack'[u] = stack[u]
      /\ stack' \in [Thread -> Seq(Frame)]
  <2>1. \A c \in Cache : c # Top(t).cache => lock'[c] = lock[c]
    BY <1>1 DEF Inv, TypeOK
  <2>2. Holding(Top(t)) /\ Top(t).op = "get"
    BY <1>1, <1>2
  <2>3. \A e \in Frame : Other(t, e) => FrameOK(e)'
    BY <1>4
  <2>4. /\ ShapeInv' /\ FrameInv' /\ MutexInv' /\ TopOK(t)'
        /\ \A p : Dying(p) => Dying(p)' \/ (Top(t).op = "release" /\ Top(t).obj = p)
        /\ \A u \in Thread \ {t} : stack'[u] = stack[u]
        /\ stack' \in [Thread -> Seq(Frame)]
    BY <1>1, <2>1, <2>2, <2>3, Returns
  <2> QED BY <2>2, <2>4
<1>6. TopInv'
  <2> SUFFICES ASSUME NEW u \in Thread, u # t PROVE TopOK(u)'
    BY <1>5 DEF TopInv
  <2> QED BY <1>1, <1>5, TopKept
<1>7. DyingInv'
  <2> SUFFICES ASSUME NEW p \in live', refs'[p] = 0 PROVE Dying(p)'
    BY DEF DyingInv
  <2>1. p \in live /\ p \in Obj \ {o}
    BY <1>1 DEF Inv, TypeOK
  <2> QED BY <1>3, <1>5, <2>1 DEF Inv, DyingInv
<1>8. TypeOK'
  BY <1>1, <1>2, <1>3, <1>4, <1>5 DEF Inv, TypeOK, Frame
<1> QED BY <1>4, <1>5, <1>6, <1>7, <1>8 DEF Inv

\* The new object is at a free address; its count of 1 is the pointer it is made for.
LEMMA GetMissInv ==
  ASSUME Inv, NEW t \in Thread, GetMiss(t)
  PROVE  Inv'
<1> PICK f, h, o : f = Top(t) /\ h = f.holder /\ o = Fresh
  OBVIOUS
<1>1. /\ stack[t] # <<>> /\ f.op = "get" /\ f.at = "find" /\ Found(f.cache, f.key) = {}
      /\ live # Obj
      /\ live' = live \cup {o} /\ key' = [key EXCEPT ![o] = f.key]
      /\ refs' = [refs EXCEPT ![o] = 1] /\ ptr' = [ptr EXCEPT ![h] = o]
      /\ stack' = [stack EXCEPT ![t] = <<[f EXCEPT !.at = "load", !.obj = o]>> \o Tail(@)]
      /\ UNCHANGED <<lock, attached>>
  BY DEF GetMiss, At
<1>2. f \in Frame /\ FrameOK(f) /\ Holding(f)
  BY <1>1, Acting DEF Holding
<1>3. h \in Holder /\ ptr[h] = None /\ f.key \in Key /\ f.cache = CacheOf[f.key]
  BY <1>1, <1>2 DEF FrameOK, GetOK
<1>4. o \in Obj \ live /\ o # None
  <2>1. \E x \in Obj : x \notin live
    BY <1>1 DEF Inv, TypeOK
  <2> QED BY <2>1, NoneAssumption DEF Fresh
<1>5. /\ ptr \in [Holder -> Obj \cup {None}] /\ refs \in [Obj -> Nat] /\ key \in [Obj -> Key \cup {None}]
      /\ live \subseteq Obj /\ attached \subseteq live
  BY DEF Inv, TypeOK, ObjInv
<1>6. h # o /\ ptr[o] = None /\ \A x \in Holder : ptr[x] # o
  <2>1. \A x \in Holder : ptr[x] # o
    BY <1>4 DEF Inv, ObjInv
  <2>2. h # o
    <3> SUFFICES ASSUME h \in Obj PROVE h \in live
      BY <1>4
    <3>1. 1 \in DOMAIN stack[t] /\ f = stack[t][1]
      BY <1>1, TopIsFirst DEF Inv
    <3> QED BY <1>1, <3>1, HolderOf, Owned, NamesAssumption DEF Inv
  <2> QED BY <1>4, <2>1, <2>2 DEF Inv, ObjInv
<1>7. \A a \in attached : key[a] # f.key
  BY <1>1, <1>3 DEF Found
\* What changes is the data of o, to which nothing pointed, and the holder.
<1>8. /\ \A x \in Holder : ptr'[x] = IF x = h THEN o ELSE ptr[x]
      /\ \A p \in Obj \ {o} : key'[p] = key[p] /\ refs'[p] = refs[p]
      /\ key'[o] = f.key /\ refs'[o] = 1
      /\ refs' \in [Obj -> Nat] /\ ptr' \in [Holder -> Obj \cup {None}]
      /\ key' \in [Obj -> Key \cup {None}]
  BY <1>1, <1>3, <1>4, <1>5
<1> PICK g : g = [f EXCEPT !.at = "load", !.obj = o]
  OBVIOUS
<1>9. /\ g \in Frame /\ g.op = "get" /\ g.at = "load" /\ g.obj = o /\ g.holder = h
      /\ g.key = f.key /\ g.cache = f.cache
  BY <1>1, <1>2, <1>4 DEF Frame
<1>10. FrameOK(g)'
  <2>1. o \in live' \ attached'
    BY <1>1, <1>4, <1>5
  <2>2. \A x \in Holder : ptr'[x] = o <=> x = h
    BY <1>6, <1>8
  <2>3. \A a \in attached' : key'[a] # f.key
    BY <1>1, <1>4, <1>5, <1>7, <1>8
  <2>4. GetOK(g)'
    BY <1>3, <1>8, <1>9, <2>1, <2>2, <2>3 DEF GetOK, Building
  <2> QED BY <1>3, <1>9, <2>4 DEF FrameOK
<1>11. ASSUME NEW e \in Frame, Other(t, e) PROVE FrameOK(e)'
  <2>1. FrameOK(e) /\ (e.op # "reset" => e.holder # h /\ e.holder \in Holder)
    BY <1>1, <1>11, OtherFacts DEF FrameOK
  <2>2. e.op = "get" => GetOK(e)'
    <3> SUFFICES ASSUME e.op = "get" PROVE GetOK(e)'
      OBVIOUS
    <3>1. GetOK(e) /\ ptr'[e.holder] = ptr[e.holder]
      BY <1>8, <2>1 DEF FrameOK
    <3>2. ASSUME Building(e)
          PROVE  /\ e.obj \in live' \ attached' /\ key'[e.obj] = e.key
                 /\ \A x \in Holder : ptr'[x] = e.obj <=> x = e.holder
                 /\ \A a \in attached' : key'[a] # e.key
      <4>1. /\ e.obj \in live \ attached /\ key[e.obj] = e.key
            /\ \A x \in Holder : ptr[x] = e.obj <=> x = e.holder
            /\ \A a \in attached : key[a] # e.key
        BY <3>1, <3>2 DEF GetOK
      <4>2. e.obj \in Obj \ {o}
        BY <1>4, <1>5, <4>1
      <4>3. \A x \in Holder : ptr'[x] = e.obj <=> x = e.holder
        BY <1>8, <2>1, <4>1, <4>2
      <4>4. \A a \in attached : key'[a] # e.key
        BY <1>4, <1>5, <1>8, <4>1
      <4> QED BY <1>1, <1>8, <4>1, <4>2, <4>3, <4>4
    <3> QED BY <3>1, <3>2 DEF GetOK, Building
  <2>3. e.op = "copy" => CopyOK(e)'
    BY <1>1, <1>4, <1>5, <1>8, <2>1 DEF FrameOK, CopyOK
  <2>4. e.op = "release" => ReleaseOK(e)'
    BY <1>1, <1>4, <1>5, <1>8, <2>1 DEF FrameOK, ReleaseOK
  <2> QED BY <2>1, <2>2, <2>3, <2>4 DEF FrameOK, ResetOK
<1>12. /\ ShapeInv' /\ FrameInv' /\ MutexInv'
       /\ \A p : Dying(p) => Dying(p)'
       /\ \A u \in Thread \ {t} : stack'[u] = stack[u]
       /\ stack' \in [Thread -> Seq(Frame)]
       /\ Top(t)' = g /\ stack'[t] # <<>>
  <2>1. stack' = [stack EXCEPT ![t] = <<g>> \o Tail(@)]
    BY <1>1
  <2>2. g.op = Top(t).op /\ g.holder = Top(t).holder /\ g.cache = Top(t).cache /\ g \in Frame
    BY <1>1, <1>9
  <2>3. \A e \in Frame : Other(t, e) => FrameOK(e)'
    BY <1>11
  <2>4. /\ ShapeInv' /\ FrameInv'
        /\ (\A k \in Cache : lock'[k] = lock[k]) /\ (Holding(g) => Holding(Top(t)))
            => MutexInv'
        /\ \A p : Dying(p) => Dying(p)' \/ (Top(t).op = "release" /\ Top(t).obj = p)
        /\ \A u \in Thread \ {t} : stack'[u] = stack[u]
        /\ stack' \in [Thread -> Seq(Frame)]
        /\ Top(t)' = g /\ stack'[t] # <<>> /\ 1 \in DOMAIN stack'[t] /\ stack'[t][1] = g
    BY <1>1, <1>10, <2>1, <2>2, <2>3, GoesOn
  <2> QED BY <1>1, <1>2, <2>4
<1>13. TopInv'
  <2>1. TopOK(t)'
    <3>1. ptr'[o] = None
      BY <1>4, <1>6, <1>8 DEF Holder
    <3> QED BY <1>9, <1>12, <3>1 DEF TopOK
  <2>2. ASSUME NEW u \in Thread, u # t PROVE TopOK(u)'
    BY <1>1, <1>12, <2>2, TopKept
  <2> QED BY <2>1, <2>2 DEF TopInv
<1>14. ObjInv'
  <2>1. \A x \in Holder : ptr'[x] # None => ptr'[x] \in live'
    BY <1>1, <1>8 DEF Inv, ObjInv
  <2>2. attached' \subseteq live' /\ \A p \in live' : key'[p] \in Key
    BY <1>1, <1>3, <1>5, <1>8 DEF Inv, ObjInv
  <2>3. \A p \in Obj \ live' : ptr'[p] = None
    <3> SUFFICES ASSUME NEW p \in Obj \ live' PROVE ptr'[p] = None
      OBVIOUS
    <3>1. p \in Obj \ live /\ p \in Holder /\ ptr[p] = None
      BY <1>1 DEF Inv, ObjInv, Holder
    <3>2. p # h
      <4> SUFFICES ASSUME h \in Obj PROVE h \in live
        BY <3>1
      <4>1. 1 \in DOMAIN stack[t] /\ f = stack[t][1]
        BY <1>1, TopIsFirst DEF Inv
      <4> QED BY <1>1, <4>1, HolderOf, Owned, NamesAssumption DEF Inv
    <3> QED BY <1>8, <3>1, <3>2
  <2> QED BY <2>1, <2>2, <2>3 DEF ObjInv
<1>15. CountInv'
  <2> SUFFICES ASSUME NEW p \in live'
               PROVE  IsFiniteSet(Pointers(p)') /\ refs'[p] = Cardinality(Pointers(p)')
    BY DEF CountInv
  <2>1. CASE p = o
    <3>1. Pointers(p)' = {h}
      BY <1>3, <1>6, <1>8, <2>1 DEF Pointers
    <3>2. IsFiniteSet({h}) /\ Cardinality({h}) = 1
      BY FS_Singleton
    <3>3. refs'[p] = 1
      BY <1>8, <2>1
    <3> QED BY <3>1, <3>2, <3>3
  <2>2. CASE p # o
    <3>1. p \in live /\ p \in Obj
      BY <1>1, <1>5, <2>2
    <3>2. Pointers(p)' = Pointers(p)
      BY <1>3, <1>8, <2>2, <3>1, NoneAssumption DEF Pointers
    <3> QED BY <1>8, <2>2, <3>1, <3>2 DEF Inv, CountInv
  <2> QED BY <2>1, <2>2
<1>16. DyingInv'
  <2> SUFFICES ASSUME NEW p \in live', refs'[p] = 0 PROVE Dying(p)'
    BY DEF DyingInv
  <2>1. p \in live /\ p \in Obj \ {o}
    BY <1>1, <1>5, <1>8
  <2> QED BY <1>8, <1>12, <2>1 DEF Inv, DyingInv
<1>17. OneObjectPerKey'
  BY <1>1, <1>4, <1>5, <1>8 DEF Inv, OneObjectPerKey
<1>18. TypeOK'
  BY <1>1, <1>4, <1>5, <1>8, <1>12 DEF Inv, TypeOK
<1> QED BY <1>12, <1>13, <1>14, <1>15, <1>16, <1>17, <1>18 DEF Inv

-----------------------------------------------------------------------------
\* Nothing is locked, loaded or called at the start.
LEMMA InitInv == Init => Inv
<1> SUFFICES ASSUME Init PROVE Inv
  OBVIOUS
<1>1. <<>> \in Seq(Frame) /\ DOMAIN <<>> = {}
  OBVIOUS
<1>2. TypeOK
  BY <1>1 DEF Init, TypeOK
<1>3. \A t \in Thread : stack[t] = <<>> /\ DOMAIN stack[t] = {}
  BY <1>1 DEF Init
<1>4. MutexInv /\ ShapeInv /\ FrameInv /\ TopInv
  BY <1>3 DEF MutexInv, ShapeInv, FrameInv, TopInv, TopOK
<1>5. ObjInv /\ CountInv /\ DyingInv /\ OneObjectPerKey
  BY DEF Init, ObjInv, CountInv, DyingInv, OneObjectPerKey, Holder
<1> QED BY <1>2, <1>4, <1>5 DEF Inv

\* Every step of every thread keeps the invariant.
LEMMA NextInv == Inv /\ [Next]_vars => Inv'
<1> SUFFICES ASSUME Inv, [Next]_vars PROVE Inv'
  OBVIOUS
<1>1. CASE UNCHANGED vars
  BY <1>1 DEF vars, Inv, TypeOK, MutexInv, ShapeInv, FrameInv, TopInv, TopOK, ObjInv, CountInv,
     DyingInv, OneObjectPerKey, FrameOK, GetOK, CopyOK, ReleaseOK, ResetOK, Building, Dying,
     Pointers, Reachable, Top, Holding
<1>2. ASSUME NEW t \in Thread, Begin(t) PROVE Inv'
  BY <1>2, BeginInv
<1>3. ASSUME NEW t \in Thread, Step(t) PROVE Inv'
  <2>1. CASE \/ Acquire(t, "get", "find")     \/ Acquire(t, "copy", "bump")
             \/ Acquire(t, "release", "drop") \/ Acquire(t, "reset", "detach")
    <3>1. CASE Acquire(t, "get", "find")
      <4>1. Locks("get", "find")
        BY DEF Locks
      <4> QED BY <3>1, <4>1, AcquireInv
    <3>2. CASE Acquire(t, "copy", "bump")
      <4>1. Locks("copy", "bump")
        BY DEF Locks
      <4> QED BY <3>2, <4>1, AcquireInv
    <3>3. CASE Acquire(t, "release", "drop")
      <4>1. Locks("release", "drop")
        BY DEF Locks
      <4> QED BY <3>3, <4>1, AcquireInv
    <3>4. CASE Acquire(t, "reset", "detach")
      <4>1. Locks("reset", "detach")
        BY DEF Locks
      <4> QED BY <3>4, <4>1, AcquireInv
    <3> QED BY <2>1, <3>1, <3>2, <3>3, <3>4
  <2>2. CASE GetHit(t)
    BY <2>2, GetHitInv
  <2>3. CASE GetMiss(t)
    BY <2>3, GetMissInv
  <2>4. CASE GetLoad(t)
    BY <2>4, GetLoadInv
  <2>5. CASE GetLoadFails(t)
    BY <2>5, GetLoadFailsInv
  <2>6. CASE GetAdd(t)
    BY <2>6, GetAddInv
  <2>7. CASE GetFail(t)
    BY <2>7, GetFailInv
  <2>8. CASE GetFailed(t)
    BY <2>8, GetFailedInv
  <2>9. CASE CopyBump(t)
    BY <2>9, CopyBumpInv
  <2>10. CASE ReleaseDrop(t)
    BY <2>10, ReleaseDropInv
  <2>11. CASE ReleaseKeep(t)
    BY <2>11, ReleaseKeepInv
  <2>12. CASE ReleaseLast(t)
    BY <2>12, ReleaseLastInv
  <2>13. CASE ReleaseFree(t)
    BY <2>13, ReleaseFreeInv
  <2>14. CASE ResetGlobal(t)
    BY <2>14, ResetGlobalInv
  <2>15. CASE ResetDetach(t)
    BY <2>15, ResetDetachInv
  <2> QED BY <1>3, <2>1, <2>2, <2>3, <2>4, <2>5, <2>6, <2>7, <2>8, <2>9, <2>10, <2>11,
             <2>12, <2>13, <2>14, <2>15 DEF Step
<1> QED BY <1>1, <1>2, <1>3 DEF Next

\* The invariant holds at every moment of every execution, with or without fairness.
THEOREM Invariant == Spec => []Inv
BY InitInv, NextInv, PTL DEF Spec

\* Every variable keeps its type; above all no count goes below zero.
THEOREM TypeCorrect == Spec => []TypeOK
<1>1. Inv => TypeOK
  BY DEF Inv
<1> QED BY <1>1, Invariant, PTL

\* No two calls, of two threads or nested in one thread, are past the mutex of one cache at
\* a time, and who is past it holds it: what a lookup found, and what a release counted, is
\* still so at the next step of that call.
THEOREM MutualExclusion == Spec => []MutexInv
<1>1. Inv => MutexInv
  BY DEF Inv
<1> QED BY <1>1, Invariant, PTL

\* The count of an object is the number of pointers to it at every step of get, copy and
\* release, for any number of threads, caches and levels of nested data.
THEOREM Counts == Spec => []RefCountExact
<1>1. Inv => RefCountExact
  BY DEF Inv, CountInv, Pointers, RefCountExact
<1> QED BY <1>1, Invariant, PTL

\* No pointer outlives its object, and an object whose last pointer is gone is on its way
\* out in the hands of a thread that holds the lock of its cache.
THEOREM NothingDangles == Spec => []NothingDanglesOrLeaks
<1>1. Inv => NothingDanglesOrLeaks
  <2> SUFFICES ASSUME Inv, NEW o \in live, refs[o] = 0
               PROVE  lock[CacheOf[key[o]]] # None
    BY DEF Inv, ObjInv, NothingDanglesOrLeaks
  <2> PICK t \in Thread : \E i \in DOMAIN stack[t] :
        /\ stack[t][i].op = "release" /\ stack[t][i].at \in {"test", "free"}
        /\ stack[t][i].obj = o
    BY DEF Inv, DyingInv, Dying
  <2> PICK i \in DOMAIN stack[t] :
        /\ stack[t][i].op = "release" /\ stack[t][i].at \in {"test", "free"}
        /\ stack[t][i].obj = o
    OBVIOUS
  <2>1. stack[t][i] \in Frame /\ FrameOK(stack[t][i])
    BY InFrame DEF Inv, FrameInv
  <2>2. Holding(stack[t][i]) /\ stack[t][i].cache = CacheOf[key[o]]
    BY <2>1 DEF FrameOK, ReleaseOK, Holding
  <2>3. lock[CacheOf[key[o]]] = t
    BY <2>2 DEF Inv, MutexInv
  <2> QED BY <2>3, NoneAssumption
<1> QED BY <1>1, Invariant, PTL

\* Two objects in the lists never have one key: what a thread looks up while another
\* loads it is loaded once, because find and add share one hold of the lock.
THEOREM OneObject == Spec => []OneObjectPerKey
<1>1. Inv => OneObjectPerKey
  BY DEF Inv
<1> QED BY <1>1, Invariant, PTL
=============================================================================
