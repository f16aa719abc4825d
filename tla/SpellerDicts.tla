---------------------------- MODULE SpellerDicts ----------------------------
(***************************************************************************)
(* How a speller gets, owns, saves and gives up its dictionaries.          *)
(*                                                                         *)
(*   modules/speller/default/data.cpp          add_data_set                *)
(*   modules/speller/default/multi_ws.cpp      MultiDictImpl::load         *)
(*   modules/speller/default/speller_impl.cpp  setup, add_dicts, add_dict, *)
(*                                 save_all_word_lists, ~SpellerImpl       *)
(*                                                                         *)
(* One thread creates a speller, uses it, deletes it, and starts again.    *)
(* Dictionaries are reference counted; read-only ones stay in a cache      *)
(* while anyone refers to them.  A multi dictionary names others and keeps *)
(* plain pointers to them.                                                 *)
(***************************************************************************)
EXTENDS Integers, Sequences, SequencesExt, FiniteSets

CONSTANTS
  File,        \* the dictionary files
  TypeOf,      \* TypeOf[f] \in {"readonly", "writable", "repl", "multi"}
  LangOf,      \* LangOf[f]: the language of f (unused for "multi")
  Adds,        \* Adds[f]: the files on the "add" lines of a multi file
  Bad,         \* the files, and personal lists, that may fail to load
  Options,     \* the configurations a speller may be created with
  Obj,         \* addresses of Dictionary objects
  MaxSpellers, \* bound on the number of spellers created
  None

\* The dictionaries that setup makes itself, named after their SpecialId;
\* "words" is the one made for the option wordlists if there is no session.
Special == {"personal", "session", "repl", "words"}

ASSUME FileAssumption == /\ TypeOf \in [File -> {"readonly", "writable", "repl", "multi"}]
                         /\ Adds \in [File -> Seq(File)]
ASSUME OptionAssumption ==
  \A o \in Options : /\ o.master \in File              \* master-path
                     /\ o.extra \in Seq(File)          \* extra-dicts
                     /\ {o.use_other_dicts, o.wordlists, o.save_repl} \subseteq BOOLEAN
ASSUME BoundAssumption == MaxSpellers \in Nat /\ None \notin File \cup Obj \cup Special

VARIABLES
  opt,       \* the configuration of the speller, one of Options
  phase,     \* what setup, save_all_word_lists or the destructor is doing
  want,      \* the argument of the add_data_set call about to run, or None
  got,       \* the result of the last add_data_set call, or None
  loading,   \* the multi dictionaries being loaded, outermost first
  extras,    \* how many of extra-dicts are done
  toAdd,     \* the DictList to_add of setup
  dicts,     \* dicts_: the SpellerDict list, most recently added first
  lang,      \* lang_, or None
  langs,     \* langs[o]: lang_ of dictionary o, or None
  source,    \* source[o]: the file or Special that object o is, or None
  refs,      \* refcount
  lost,      \* history: lost[o], the references to o that were dropped unreleased
  parts,     \* parts[o]: wss of a multi dictionary
  cached,    \* the objects in the dictionary cache
  saveAt,    \* save_all_word_lists: position in dicts
  synced,    \* history: who was saved since save_all_word_lists was called
  spellers   \* how many spellers have been created

setupVars == <<opt, want, got, loading, extras>>
heapVars == <<source, langs, refs, lost, parts, cached>>
saveVars == <<saveAt, synced>>
vars == <<opt, phase, want, got, loading, extras, toAdd, dicts, lang, source, langs,
          refs, lost, parts, cached, saveAt, synced, spellers>>

Live == {o \in Obj : source[o] # None}
Langs == {LangOf[f] : f \in File} \cup {None}
SpellerDict == [dict : Obj, special : Special \cup {"none"},
                use_to_check : BOOLEAN, save_on_saveall : BOOLEAN]

TypeOK ==
  /\ phase \in {"idle", "load", "lines", "got", "add", "personal", "session", "repl",
                "wordlists", "ready", "save", "unwind", "delete"}
  /\ want \in File \cup {None} /\ got \in Obj \cup {None}
  /\ loading \in Seq([obj : Obj, line : Nat])
  /\ opt \in Options
  /\ extras \in 0..Len(opt.extra)
  /\ toAdd \in Seq(Obj)
  /\ dicts \in Seq(SpellerDict)
  /\ lang \in Langs
  /\ langs \in [Obj -> Langs]
  /\ source \in [Obj -> File \cup Special \cup {None}]
  /\ refs \in [Obj -> Nat] /\ lost \in [Obj -> Nat]
  /\ parts \in [Obj -> Seq(Obj)]
  /\ cached \in SUBSET Obj
  /\ saveAt \in 0..Len(dicts) /\ synced \in SUBSET Obj
  /\ spellers \in 0..MaxSpellers

Init ==
  /\ phase = "idle" /\ opt \in Options /\ want = None /\ got = None
  /\ loading = <<>> /\ extras = 0 /\ toAdd = <<>> /\ dicts = <<>> /\ lang = None
  /\ source = [o \in Obj |-> None]
  /\ langs = [o \in Obj |-> None]
  /\ refs = [o \in Obj |-> 0] /\ lost = [o \in Obj |-> 0]
  /\ parts = [o \in Obj |-> <<>>]
  /\ cached = {}
  /\ saveAt = 0 /\ synced = {} /\ spellers = 0

-----------------------------------------------------------------------------
(* Objects.                                                                 *)

\* The address of the next object; which one it is makes no difference.
Fresh == CHOOSE o \in Obj : source[o] = None

\* new, with the reference count that the constructor of Cacheable sets
New(o, what, l) ==
  /\ Live # Obj
  /\ source' = [source EXCEPT ![o] = what]
  /\ langs' = [langs EXCEPT ![o] = l]
  /\ refs' = [refs EXCEPT ![o] = 1]
  /\ parts' = [parts EXCEPT ![o] = <<>>]

\* Cacheable::release: the last one takes the object out of the cache too.
ReleaseObj(o) ==
  /\ refs' = [refs EXCEPT ![o] = @ - 1]
  /\ UNCHANGED lost
  /\ IF refs[o] = 1
     THEN /\ source' = [source EXCEPT ![o] = None]
          /\ langs' = [langs EXCEPT ![o] = None]
          /\ parts' = [parts EXCEPT ![o] = <<>>]
          /\ cached' = cached \ {o}
     ELSE UNCHANGED <<source, langs, parts, cached>>

\* SpellerImpl::locate with the id of a file, or with that of an object
LocateFile(f) == {i \in DOMAIN dicts : source[dicts[i].dict] = f}
Located(o) == \E i \in DOMAIN dicts : dicts[i].dict = o

\* The object that dict_cache.find returns for a file.
CachedFor(f) == {o \in cached : source[o] = f}

-----------------------------------------------------------------------------
(* new_speller, and the start of setup.                                     *)
Create ==
  /\ phase = "idle"
  /\ spellers < MaxSpellers
  /\ spellers' = spellers + 1
  /\ opt' \in Options
  /\ phase' = "load" /\ want' = opt'.master
  /\ UNCHANGED <<got, loading, extras, toAdd, dicts, lang, heapVars, saveVars>>

\* Any error of setup: to_add and the unfinished dictionaries go out of
\* scope, and the speller is deleted.
Fail ==
  /\ phase' = "unwind" /\ want' = None /\ got' = None
  /\ UNCHANGED <<opt, loading, extras, toAdd, dicts, lang, saveVars, spellers>>

-----------------------------------------------------------------------------
(* add_data_set.  A multi dictionary is loaded line by line, each line a    *)
(* call of add_data_set in turn.                                            *)

Result(o) == phase' = "got" /\ got' = o /\ want' = None /\ UNCHANGED opt

\* The file cannot be opened or read, or it has the wrong format.
LoadFails ==
  /\ phase = "load" /\ want \in Bad
  /\ Fail
  /\ UNCHANGED heapVars

\* Mutant: a dictionary that the speller has is put on to_add as a new one.
LoadLocatedListed ==
  /\ phase = "load"
  /\ \E i \in LocateFile(want) : /\ Result(dicts[i].dict)
                                 /\ toAdd' = Append(toAdd, dicts[i].dict)
  /\ UNCHANGED <<loading, extras, dicts, lang, heapVars, saveVars, spellers>>

\* The speller has the file already.  This gives no new reference.
LoadLocated ==
  /\ phase = "load"
  /\ \E i \in LocateFile(want) : Result(dicts[i].dict)
  /\ UNCHANGED <<loading, extras, toAdd, dicts, lang, heapVars, saveVars, spellers>>

LoadCached ==
  /\ phase = "load"
  /\ LocateFile(want) = {}
  /\ \E o \in CachedFor(want) :
       /\ refs' = [refs EXCEPT ![o] = @ + 1]
       /\ toAdd' = Append(toAdd, o)
       /\ Result(o)
  /\ UNCHANGED <<loading, extras, dicts, lang, source, langs, lost, parts, cached,
                 saveVars, spellers>>

LoadNew ==
  /\ phase = "load"
  /\ LocateFile(want) = {} /\ CachedFor(want) = {}
  /\ TypeOf[want] # "multi"
  /\ LET o == Fresh IN
       /\ New(o, want, LangOf[want])
       /\ cached' = IF TypeOf[want] = "readonly" THEN cached \cup {o} ELSE cached
       /\ toAdd' = Append(toAdd, o)
       /\ Result(o)
  /\ UNCHANGED <<loading, extras, dicts, lang, lost, saveVars, spellers>>

LoadMulti ==
  /\ phase = "load"
  /\ LocateFile(want) = {}
  /\ TypeOf[want] = "multi"
  /\ LET o == Fresh IN
       /\ New(o, want, None)
       /\ loading' = Append(loading, [obj |-> o, line |-> 1])
  /\ phase' = "lines" /\ want' = None
  /\ UNCHANGED <<opt, got, extras, toAdd, dicts, lang, lost, cached, saveVars, spellers>>

\* The next "add" line.
MultiLine ==
  /\ phase = "lines"
  /\ LET f == Last(loading)
     IN /\ f.line <= Len(Adds[source[f.obj]])
        /\ want' = Adds[source[f.obj]][f.line]
  /\ phase' = "load"
  /\ UNCHANGED <<opt, got, loading, extras, toAdd, dicts, lang, heapVars, saveVars, spellers>>

\* The end of the file; one without an "add" line is an error.
MultiEnd ==
  /\ phase = "lines"
  /\ LET f == Last(loading)
     IN /\ f.line > Len(Adds[source[f.obj]])
        /\ IF parts[f.obj] = <<>>
           THEN Fail
           ELSE /\ toAdd' = Append(toAdd, f.obj)
                /\ loading' = Front(loading)
                /\ Result(f.obj)
                /\ UNCHANGED <<extras, dicts, lang, saveVars, spellers>>
  /\ UNCHANGED heapVars

\* The result goes to the multi dictionary whose line it was, if the
\* languages agree (set_check_lang), or else to setup.
GotPart ==
  /\ phase = "got" /\ loading # <<>>
  /\ LET f == Last(loading)
     IN IF langs[f.obj] \in {None, langs[got]}
        THEN /\ parts' = [parts EXCEPT ![f.obj] = Append(@, got)]
             /\ langs' = [langs EXCEPT ![f.obj] = langs[got]]
             /\ loading' = Append(Front(loading), [f EXCEPT !.line = @ + 1])
             /\ phase' = "lines" /\ got' = None
             /\ UNCHANGED <<opt, want, extras, toAdd, dicts, lang, saveVars, spellers>>
        ELSE /\ Fail
             /\ UNCHANGED <<parts, langs>>
  /\ UNCHANGED <<source, refs, lost, cached>>

GotWhole ==
  /\ phase = "got" /\ loading = <<>>
  /\ phase' = "add" /\ got' = None
  /\ UNCHANGED <<opt, want, loading, extras, toAdd, dicts, lang, heapVars, saveVars, spellers>>

-----------------------------------------------------------------------------
(* add_dicts and add_dict.                                                  *)

Listed(o, special, check, save) ==
  [dict |-> o, special |-> special, use_to_check |-> check, save_on_saveall |-> save]

\* add_dict puts the dictionary at the head of the list; the first one gives
\* the speller its language.
Enlist(d, l) ==
  /\ dicts' = <<d>> \o dicts
  /\ lang' = l

\* The dictionary is new to the speller, and its language fits.
AddNew ==
  /\ phase = "add" /\ toAdd # <<>>
  /\ LET o == Last(toAdd)
     IN /\ ~Located(o)
        /\ lang \in {None, langs[o]}
        /\ \E check \in IF TypeOf[source[o]] = "multi" THEN BOOLEAN
                        ELSE {TypeOf[source[o]] # "repl"} :
             Enlist(Listed(o, "none", check, FALSE), langs[o])
  /\ toAdd' = Front(toAdd)
  /\ UNCHANGED <<phase, setupVars, heapVars, saveVars, spellers>>

\* Mutant: a duplicate is skipped without taking it off to_add.
AddDuplicateStays ==
  /\ phase = "add" /\ toAdd # <<>>
  /\ Located(Last(toAdd))
  /\ UNCHANGED vars

\* The speller has it already: it is taken off to_add, and that is all; the
\* reference that came with it is lost.
AddDuplicate ==
  /\ phase = "add" /\ toAdd # <<>>
  /\ Located(Last(toAdd))
  /\ toAdd' = Front(toAdd)
  /\ lost' = [lost EXCEPT ![Last(toAdd)] = @ + 1]
  /\ UNCHANGED <<phase, setupVars, dicts, lang, source, langs, refs, parts, cached,
                 saveVars, spellers>>

\* mismatched_language; the dictionary is still on to_add.
AddMismatch ==
  /\ phase = "add" /\ toAdd # <<>>
  /\ ~Located(Last(toAdd))
  /\ lang \notin {None, langs[Last(toAdd)]}
  /\ Fail
  /\ UNCHANGED heapVars

\* On to the next of extra-dicts, or to the speller's own dictionaries.
AddDone ==
  /\ phase = "add" /\ toAdd = <<>>
  /\ IF extras < Len(opt.extra)
     THEN phase' = "load" /\ want' = opt.extra[extras + 1] /\ extras' = extras + 1
     ELSE phase' = "personal" /\ UNCHANGED <<want, extras>>
  /\ UNCHANGED <<opt, got, loading, toAdd, dicts, lang, heapVars, saveVars, spellers>>

-----------------------------------------------------------------------------
(* The rest of setup.                                                       *)

\* Make one of the speller's own dictionaries and go on to the next phase.
Own(special, d, next) ==
  /\ phase = special
  /\ opt.use_other_dicts
  /\ New(d.dict, special, lang) /\ Enlist(d, lang)
  /\ phase' = next
  /\ UNCHANGED <<setupVars, toAdd, lost, cached, saveVars, spellers>>

AddPersonal == Own("personal", Listed(Fresh, "personal", TRUE, TRUE), "session")
AddSession  == Own("session", Listed(Fresh, "session", TRUE, FALSE), "repl")
AddRepl     == Own("repl", Listed(Fresh, "repl", FALSE, opt.save_repl), "wordlists")

\* A personal or replacement list that is there but cannot be loaded ends
\* setup.  The object made for it is not deleted.
AddOwnFails ==
  /\ phase \in {"personal", "repl"}
  /\ opt.use_other_dicts /\ phase \in Bad
  /\ New(Fresh, phase, lang) /\ lost' = [lost EXCEPT ![Fresh] = 1]
  /\ Fail
  /\ UNCHANGED cached

SkipOwn ==
  /\ phase = "personal" /\ ~opt.use_other_dicts
  /\ phase' = "wordlists"
  /\ UNCHANGED <<setupVars, toAdd, dicts, lang, heapVars, saveVars, spellers>>

\* The words of the option wordlists go into the session dictionary, or into
\* one made for them, for which SpellerDict sets none of its flags.  A list that
\* cannot be read and a word that is refused end setup, and so does what comes after
\* it, the conversions and the suggestions, if it cannot be made.
AddWordlists ==
  /\ phase = "wordlists"
  /\ IF opt.wordlists /\ ~opt.use_other_dicts
     THEN \E check, save \in BOOLEAN :
            /\ New(Fresh, "words", lang)
            /\ Enlist(Listed(Fresh, "none", check, save), lang)
     ELSE UNCHANGED <<source, langs, refs, parts, dicts, lang>>
  /\ phase' \in {"ready", "unwind"}
  /\ UNCHANGED <<setupVars, toAdd, lost, cached, saveVars, spellers>>

-----------------------------------------------------------------------------
(* save_all_word_lists: synchronize() each dictionary that is to be saved,  *)
(* in the order of the list; the first error ends it.                       *)
SaveAll ==
  /\ phase = "ready"
  /\ phase' = "save" /\ saveAt' = 0 /\ synced' = {}
  /\ UNCHANGED <<setupVars, toAdd, dicts, lang, heapVars, spellers>>

\* Mutant: an error is ignored.
SaveNextIgnoresError ==
  /\ phase = "save" /\ saveAt < Len(dicts)
  /\ saveAt' = saveAt + 1
  /\ LET d == dicts[saveAt + 1]
     IN synced' \in {synced} \cup (IF d.save_on_saveall THEN {synced \cup {d.dict}} ELSE {})
  /\ UNCHANGED <<phase, setupVars, toAdd, dicts, lang, heapVars, spellers>>

SaveNext ==
  /\ phase = "save" /\ saveAt < Len(dicts)
  /\ LET d == dicts[saveAt + 1]
     IN \/ /\ ~d.save_on_saveall
           /\ saveAt' = saveAt + 1
           /\ UNCHANGED <<phase, synced>>
        \/ /\ d.save_on_saveall
           /\ synced' = synced \cup {d.dict}
           /\ saveAt' = saveAt + 1
           /\ UNCHANGED phase
        \* a disk error, or "words", which has no file name
        \/ /\ d.save_on_saveall
           /\ phase' = "ready" /\ saveAt' = 0
           /\ UNCHANGED synced
  /\ UNCHANGED <<setupVars, toAdd, dicts, lang, heapVars, spellers>>

SaveDone ==
  /\ phase = "save" /\ saveAt = Len(dicts)
  /\ phase' = "ready"
  /\ UNCHANGED <<setupVars, toAdd, dicts, lang, heapVars, saveVars, spellers>>

-----------------------------------------------------------------------------
(* The ends: DictList's destructor and those of unfinished multi            *)
(* dictionaries after an error, then SpellerImpl's.                         *)
UnwindLoading ==
  /\ phase = "unwind" /\ loading # <<>>
  /\ ReleaseObj(Last(loading).obj)
  /\ loading' = Front(loading)
  /\ UNCHANGED <<opt, phase, want, got, extras, toAdd, dicts, lang, saveVars, spellers>>

UnwindToAdd ==
  /\ phase = "unwind" /\ loading = <<>> /\ toAdd # <<>>
  /\ ReleaseObj(Last(toAdd))
  /\ toAdd' = Front(toAdd)
  /\ UNCHANGED <<phase, setupVars, dicts, lang, saveVars, spellers>>

\* delete_aspell_speller, or the end of a failed new_speller
Delete ==
  /\ \/ phase = "ready"
     \/ phase = "unwind" /\ loading = <<>> /\ toAdd = <<>>
  /\ phase' = "delete"
  /\ UNCHANGED <<setupVars, toAdd, dicts, lang, heapVars, saveVars, spellers>>

DeleteDict ==
  /\ phase = "delete" /\ dicts # <<>>
  /\ ReleaseObj(Head(dicts).dict)
  /\ dicts' = Tail(dicts)
  /\ saveAt' = 0
  /\ UNCHANGED <<phase, setupVars, toAdd, lang, synced, spellers>>

Deleted ==
  /\ phase = "delete" /\ dicts = <<>>
  /\ phase' = "idle" /\ extras' = 0 /\ lang' = None
  /\ UNCHANGED <<opt, want, got, loading, toAdd, dicts, heapVars, saveVars, spellers>>

-----------------------------------------------------------------------------
Setup == \/ LoadFails \/ LoadLocated \/ LoadCached \/ LoadNew \/ LoadMulti
         \/ MultiLine \/ MultiEnd \/ GotPart \/ GotWhole
         \/ AddNew \/ AddDuplicate \/ AddMismatch \/ AddDone
         \/ AddPersonal \/ AddSession \/ AddRepl \/ AddOwnFails \/ SkipOwn
         \/ AddWordlists

Save == SaveAll \/ SaveNext \/ SaveDone

End == UnwindLoading \/ UnwindToAdd \/ Delete \/ DeleteDict \/ Deleted

Next == Create \/ Setup \/ Save \/ End

Spec == Init /\ [][Next]_vars

\* The calls run to their end; the application need not save or delete.
FairSpec == /\ Spec
            /\ WF_vars(Setup \/ SaveNext \/ SaveDone)
            /\ WF_vars(UnwindLoading \/ UnwindToAdd \/ (phase # "ready" /\ Delete)
                       \/ DeleteDict \/ Deleted)
-----------------------------------------------------------------------------
(* Properties                                                               *)

Count(P(_), s) == Cardinality({i \in DOMAIN s : P(s[i])})

\* Who will release object o: the list of dictionaries, to_add, a load.
Owners(o) == Count(LAMBDA d : d.dict = o, dicts)
             + Count(LAMBDA x : x = o, toAdd)
             + Count(LAMBDA f : f.obj = o, loading)

\* Every reference has an owner that will release it, in every state of set-up,
\* failure and destruction, except the ones that add_dicts drops for a
\* duplicate and setup for a personal list that fails; so nothing is freed
\* while it is in use, and nothing else stays loaded (add_data_set, DictList,
\* MultiDictImpl::load, ~SpellerImpl).  Once a speller is set up, every dictionary
\* that a multi dictionary points to without owning it is owned by the speller
\* (MultiDictImpl::load keeps plain pointers, also to dictionaries that were located
\* or cached).
EveryReferenceOwned ==
  /\ \A o \in Obj : IF o \in Live THEN refs[o] = Owners(o) + lost[o]
                                  ELSE Owners(o) + lost[o] = 0
  /\ phase \in {"ready", "save"} =>
       \A i \in DOMAIN dicts :
         \A j \in DOMAIN parts[dicts[i].dict] : Located(parts[dicts[i].dict][j])

\* When save_all_word_lists reports success, the personal dictionary has been
\* saved, and the replacements too if they are to be.
SaveAllIsComplete ==
  [][ (phase = "save" /\ saveAt = Len(dicts) /\ phase' = "ready") =>
        \A i \in DOMAIN dicts :
          (dicts[i].special = "personal" \/ (dicts[i].special = "repl" /\ opt.save_repl))
            => dicts[i].dict \in synced ]_vars

\* Setting up a speller ends, in success or in an error that gives back all
\* that was taken.
SetupEnds == phase = "load" ~> phase \in {"ready", "idle"}
=============================================================================
