---------------------------- MODULE GlobalCache ----------------------------
(***************************************************************************)
(* The process-wide caches of reference-counted data: dictionaries,        *)
(* languages, character tables, filters.  Threads look data up, copy and   *)
(* release pointers to it (CachePtr) and reset whole caches.               *)
(*                                                                         *)
(*   common/cache.hpp, cache-t.hpp, cache.cpp, lock.hpp                    *)
(*   modules/speller/default/data.cpp      the dictionary cache            *)
(*   modules/speller/default/language.cpp  the language cache              *)
(*                                                                         *)
(* Loading one kind of data may look another kind up (a dictionary needs   *)
(* its language) while the lock of its own cache is held, and deleting it  *)
(* gives that pointer back.  A thread therefore has a call stack; each     *)
(* label of a frame is a point where other threads may run.                *)
(***************************************************************************)
EXTENDS Integers, Sequences, FiniteSets

CONSTANTS
  Thread,
  Cache,        \* the GlobalCache objects
  Key,          \* what data is looked up by (file id, language name, ...)
  CacheOf,      \* CacheOf[k]: the cache that keeps the data of key k
  Part,         \* Part[k]: the key of the data it needs in turn, or None
  Obj,          \* addresses of Cacheable objects
  Slot,         \* the CachePtr variables of the threads
  OwnerOf,      \* OwnerOf[s]: the thread that slot s belongs to
  Resettable,   \* the caches that the application resets by name
  Global,       \* stands for global_cache_lock
  None

ASSUME KeyAssumption == /\ CacheOf \in [Key -> Cache]
                        /\ Part \in [Key -> Key \cup {None}]
ASSUME ResetAssumption == Resettable \subseteq Cache
ASSUME SlotAssumption == OwnerOf \in [Slot -> Thread]
ASSUME NoneAssumption == None \notin Key \cup Obj \cup Thread \cup Slot \cup Cache
ASSUME NamesAssumption == Obj \cap Slot = {} /\ Global \notin Cache

\* A pointer to cached data is a thread's, or the member of cached data.
Holder == Slot \cup Obj

VARIABLES
  lock,       \* lock[c]: the thread that holds the mutex of c, or None
  attached,   \* the objects in the lists of the caches
  live,       \* the objects that are allocated
  key,        \* key[o]: what o was made for
  refs,       \* refcount
  ptr,        \* ptr[h]: the object h points to, or None
  stack       \* stack[t]: the calls in progress, innermost first

vars == <<lock, attached, live, key, refs, ptr, stack>>
objVars == <<attached, live, key, refs>>

Frame == [op : {"get", "copy", "release", "reset"},
          at : {"global", "lock", "find", "load", "built", "fail", "failed",
                "bump", "drop", "test", "free", "detach"},
          holder : Holder \cup {None},
          obj : Obj \cup {None},
          key : Key \cup {None},
          cache : Cache]

TypeOK == /\ lock \in [Cache \cup {Global} -> Thread \cup {None}]
          /\ attached \in SUBSET Obj
          /\ live \in SUBSET Obj
          /\ key \in [Obj -> Key \cup {None}]
          /\ refs \in [Obj -> Nat]
          /\ ptr \in [Holder -> Obj \cup {None}]
          /\ stack \in [Thread -> Seq(Frame)]

Init == /\ lock = [c \in Cache \cup {Global} |-> None]
        /\ attached = {}
        /\ live = {}
        /\ key = [o \in Obj |-> None]
        /\ refs = [o \in Obj |-> 0]
        /\ ptr = [h \in Holder |-> None]
        /\ stack = [t \in Thread |-> <<>>]

-----------------------------------------------------------------------------
(* Calls.                                                                   *)

Slots(t) == {s \in Slot : OwnerOf[s] = t}

Call(op, at, h, o, k, c) ==
  [op |-> op, at |-> at, holder |-> h, obj |-> o, key |-> k, cache |-> c]

Get(h, k)     == Call("get", "lock", h, None, k, CacheOf[k])
Copy(h, o)    == Call("copy", "lock", h, o, None, CacheOf[key[o]])
Release(h, o) == Call("release", "lock", h, o, None, CacheOf[key[o]])
Reset(c)      == Call("reset", "global", None, None, None, c)

Top(t)      == Head(stack[t])
At(t, op, at) == stack[t] # <<>> /\ Top(t).op = op /\ Top(t).at = at
Goto(t, at) == stack' = [stack EXCEPT ![t] = <<[Top(t) EXCEPT !.at = at]>> \o Tail(@)]
Return(t)   == stack' = [stack EXCEPT ![t] = Tail(@)]
\* Move the caller on to label at and call f.
CallFrom(t, at, f) ==
  stack' = [stack EXCEPT ![t] = <<f, [Top(t) EXCEPT !.at = at]>> \o Tail(@)]

Unlock(c) == lock' = [lock EXCEPT ![c] = None]

\* The functions of the public interface that a thread may call.  A pointer
\* is copied from one of the thread's own or from a member of what they
\* point to, as the speller copies the language of its first dictionary.
Reachable(t) ==
  LET own == {ptr[s] : s \in Slots(t)} \ {None}
  IN own \cup ({ptr[o] : o \in own} \ {None})

Begin(t) ==
  /\ stack[t] = <<>>
  /\ \/ \E s \in Slots(t), k \in Key :
          ptr[s] = None /\ stack' = [stack EXCEPT ![t] = <<Get(s, k)>>]
     \/ \E s \in Slots(t), o \in Reachable(t) :
          ptr[s] = None /\ stack' = [stack EXCEPT ![t] = <<Copy(s, o)>>]
     \/ \E s \in Slots(t) :
          ptr[s] # None /\ stack' = [stack EXCEPT ![t] = <<Release(s, ptr[s])>>]
     \/ \E c \in Resettable : stack' = [stack EXCEPT ![t] = <<Reset(c)>>]
  /\ UNCHANGED <<lock, objVars, ptr>>

\* Mutant: the lock is not taken (the race fixed in 0.60.6.1).
AcquireNothing(t, op, next) ==
  /\ At(t, op, "lock")
  /\ Goto(t, next)
  /\ UNCHANGED <<lock, objVars, ptr>>

\* pthread_mutex_lock on the mutex of the cache; the mutex is not recursive.
Acquire(t, op, next) ==
  LET c == Top(t).cache
  IN /\ At(t, op, "lock")
     /\ lock[c] = None
     /\ lock' = [lock EXCEPT ![c] = t]
     /\ Goto(t, next)
     /\ UNCHANGED <<objVars, ptr>>

-----------------------------------------------------------------------------
(* get_cache_data, and its open-coded form in add_data_set.                 *)

\* The objects that find() may stop at.
Found(c, k) == {o \in attached : CacheOf[key[o]] = c /\ key[o] = k}

\* Mutant: the count of an object found is not increased.
GetHitUncounted(t) ==
  LET f == Top(t)
  IN /\ At(t, "get", "find")
     /\ \E o \in Found(f.cache, f.key) : ptr' = [ptr EXCEPT ![f.holder] = o]
     /\ Unlock(f.cache)
     /\ Return(t)
     /\ UNCHANGED objVars

GetHit(t) ==
  LET f == Top(t)
  IN /\ At(t, "get", "find")
     /\ \E o \in Found(f.cache, f.key) :
          /\ refs' = [refs EXCEPT ![o] = @ + 1]
          /\ ptr' = [ptr EXCEPT ![f.holder] = o]
     /\ Unlock(f.cache)
     /\ Return(t)
     /\ UNCHANGED <<attached, live, key>>

\* The address of the next object.  Any free one would do; that of an object
\* just deleted is used again at once, so a stale pointer would not go unnoticed.
Fresh == CHOOSE o \in Obj : o \notin live

\* Not in the cache: a new object, whose constructor sets refcount to 1.
GetMiss(t) ==
  LET f == Top(t)
      o == Fresh
  IN /\ At(t, "get", "find")
     /\ Found(f.cache, f.key) = {}
     /\ live # Obj
     /\ live' = live \cup {o}
     /\ key' = [key EXCEPT ![o] = f.key]
     /\ refs' = [refs EXCEPT ![o] = 1]
     /\ ptr' = [ptr EXCEPT ![f.holder] = o]
     /\ stack' = [stack EXCEPT ![t] =
                    <<[f EXCEPT !.at = "load", !.obj = o]>> \o Tail(@)]
     /\ UNCHANGED <<lock, attached>>

\* get_new or load: looks up the data this one needs, into its own pointer.
GetLoad(t) ==
  LET f == Top(t)
  IN /\ At(t, "get", "load")
     /\ IF Part[f.key] = None
        THEN Goto(t, "built")
        ELSE CallFrom(t, "built", Get(f.obj, Part[f.key]))
     /\ UNCHANGED <<lock, objVars, ptr>>

\* The file is bad, or what it needs could not be loaded.
GetLoadFails(t) ==
  /\ At(t, "get", "built")
  /\ Goto(t, "fail")
  /\ UNCHANGED <<lock, objVars, ptr>>

\* add, and the end of the function
GetAdd(t) ==
  LET f == Top(t)
  IN /\ At(t, "get", "built")
     /\ Part[f.key] # None => ptr[f.obj] # None
     /\ attached' = attached \cup {f.obj}
     /\ Unlock(f.cache)
     /\ Return(t)
     /\ UNCHANGED <<live, key, refs, ptr>>

\* The half-built object is deleted on the error path: first its pointer,
GetFail(t) ==
  LET f == Top(t)
  IN /\ At(t, "get", "fail")
     /\ IF ptr[f.obj] = None
        THEN Goto(t, "failed")
        ELSE CallFrom(t, "failed", Release(f.obj, ptr[f.obj]))
     /\ UNCHANGED <<lock, objVars, ptr>>

\* Mutant: the error path returns without unlocking.
GetFailedLocked(t) ==
  LET f == Top(t)
  IN /\ At(t, "get", "failed")
     /\ live' = live \ {f.obj}
     /\ refs' = [refs EXCEPT ![f.obj] = 0]
     /\ key' = [key EXCEPT ![f.obj] = None]
     /\ ptr' = [ptr EXCEPT ![f.holder] = None]
     /\ Return(t)
     /\ UNCHANGED <<lock, attached>>

\* then the object, while the lock is still held.
GetFailed(t) ==
  LET f == Top(t)
  IN /\ At(t, "get", "failed")
     /\ live' = live \ {f.obj}
     /\ refs' = [refs EXCEPT ![f.obj] = 0]
     /\ key' = [key EXCEPT ![f.obj] = None]
     /\ ptr' = [ptr EXCEPT ![f.holder] = None]
     /\ Unlock(f.cache)
     /\ Return(t)
     /\ UNCHANGED attached

-----------------------------------------------------------------------------
(* Cacheable::copy                                                          *)

CopyBump(t) ==
  LET f == Top(t)
  IN /\ At(t, "copy", "bump")
     /\ refs' = [refs EXCEPT ![f.obj] = @ + 1]
     /\ ptr' = [ptr EXCEPT ![f.holder] = f.obj]
     /\ Unlock(f.cache)
     /\ Return(t)
     /\ UNCHANGED <<attached, live, key>>

-----------------------------------------------------------------------------
(* GlobalCacheBase::release, called by CachePtr::reset                      *)
ReleaseDrop(t) ==
  LET f == Top(t)
  IN /\ At(t, "release", "drop")
     /\ refs' = [refs EXCEPT ![f.obj] = @ - 1]
     /\ ptr' = [ptr EXCEPT ![f.holder] = None]
     /\ Goto(t, "test")
     /\ UNCHANGED <<lock, attached, live, key>>

ReleaseKeep(t) ==
  LET f == Top(t)
  IN /\ At(t, "release", "test")
     /\ refs[f.obj] # 0
     /\ Unlock(f.cache)
     /\ Return(t)
     /\ UNCHANGED <<objVars, ptr>>

\* Mutant: an object that was detached by a reset is not deleted.
ReleaseLastIfAttached(t) ==
  LET f == Top(t)
  IN /\ At(t, "release", "test")
     /\ refs[f.obj] = 0
     /\ attached' = attached \ {f.obj}
     /\ IF f.obj \notin attached
        THEN Return(t) /\ Unlock(f.cache)
        ELSE /\ IF ptr[f.obj] = None
                THEN Goto(t, "free")
                ELSE CallFrom(t, "free", Release(f.obj, ptr[f.obj]))
             /\ UNCHANGED lock
     /\ UNCHANGED <<live, key, refs, ptr>>

\* The last pointer is gone: off the list, and the destructor starts.
ReleaseLast(t) ==
  LET f == Top(t)
  IN /\ At(t, "release", "test")
     /\ refs[f.obj] = 0
     /\ attached' = attached \ {f.obj}
     /\ IF ptr[f.obj] = None
        THEN Goto(t, "free")
        ELSE CallFrom(t, "free", Release(f.obj, ptr[f.obj]))
     /\ UNCHANGED <<lock, live, key, refs, ptr>>

ReleaseFree(t) ==
  LET f == Top(t)
  IN /\ At(t, "release", "free")
     /\ live' = live \ {f.obj}
     /\ key' = [key EXCEPT ![f.obj] = None]
     /\ Unlock(f.cache)
     /\ Return(t)
     /\ UNCHANGED <<attached, refs, ptr>>

-----------------------------------------------------------------------------
(* reset_cache: global_cache_lock first, then the cache of that name.       *)
ResetGlobal(t) ==
  /\ At(t, "reset", "global")
  /\ lock[Global] = None
  /\ lock' = [lock EXCEPT ![Global] = t]
  /\ Goto(t, "lock")
  /\ UNCHANGED <<objVars, ptr>>

\* detach_all takes every object off the list; none is deleted, and those
\* who hold one release it later.
ResetDetach(t) ==
  LET c == Top(t).cache
  IN /\ At(t, "reset", "detach")
     /\ attached' = {o \in attached : CacheOf[key[o]] # c}
     /\ lock' = [lock EXCEPT ![c] = None, ![Global] = None]
     /\ Return(t)
     /\ UNCHANGED <<live, key, refs, ptr>>

-----------------------------------------------------------------------------
Step(t) ==
  \/ Acquire(t, "get", "find") \/ Acquire(t, "copy", "bump")
  \/ Acquire(t, "release", "drop") \/ Acquire(t, "reset", "detach")
  \/ GetHit(t) \/ GetMiss(t) \/ GetLoad(t) \/ GetLoadFails(t) \/ GetAdd(t)
  \/ GetFail(t) \/ GetFailed(t)
  \/ CopyBump(t)
  \/ ReleaseDrop(t) \/ ReleaseKeep(t) \/ ReleaseLast(t) \/ ReleaseFree(t)
  \/ ResetGlobal(t) \/ ResetDetach(t)

Next == \E t \in Thread : Begin(t) \/ Step(t)

Spec == Init /\ [][Next]_vars

\* A thread inside a call runs on, and gets a mutex that keeps coming free.
Fairness == \A t \in Thread : SF_vars(Step(t))

FairSpec == Spec /\ Fairness
-----------------------------------------------------------------------------
(* Properties                                                               *)

\* The count of an object is the number of pointers to it, at every step of
\* every get, copy and release, so that it is neither leaked nor freed early.
RefCountExact ==
  \A o \in live : refs[o] = Cardinality({h \in Holder : ptr[h] = o})

\* No pointer outlives its object: release deletes only what nobody holds, and a
\* lookup never hands out an object that is being deleted.  And an object that nobody
\* points to is either gone or on its way out in the hands of a thread that holds the
\* lock of its cache, also when no list has it any more since a reset.
NothingDanglesOrLeaks ==
  /\ \A h \in Holder : ptr[h] # None => ptr[h] \in live
  /\ attached \subseteq live
  /\ \A o \in live : refs[o] = 0 => lock[CacheOf[key[o]]] # None

\* While a cache is not reset, its data is shared: two threads that ask for
\* one key at the same time do not both load it (get_cache_data holds the
\* lock from find to add).
OneObjectPerKey ==
  \A o1, o2 \in attached : key[o1] = key[o2] => o1 = o2

\* Nested locks are taken in the order of the data they protect, so every
\* call comes back: the mutexes of the caches cannot deadlock.
CallsReturn == \A t \in Thread : stack[t] # <<>> ~> stack[t] = <<>>
=============================================================================
