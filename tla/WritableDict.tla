---------------------------- MODULE WritableDict ----------------------------
(***************************************************************************)
(* One personal dictionary file shared by several processes, each of which *)
(* keeps its words in memory (WritableDict, WritableReplDict) and saves    *)
(* them with merge-then-rewrite under an fcntl lock.                       *)
(*                                                                         *)
(*   modules/speller/default/writable.cpp    load, update, save            *)
(*   common/file_util.cpp                    locks, opening, truncation    *)
(*   modules/speller/default/speller_impl.cpp  who calls them, and when    *)
(*                                                                         *)
(* A step is one call that another process can observe or overtake.  A     *)
(* lock is held exactly in the program counters of Readers and Writers; it *)
(* goes away with the FStream, on a return as on an error.                 *)
(***************************************************************************)
EXTENDS Integers, FiniteSets

CONSTANTS
  Proc,       \* the processes
  Words,      \* the words (for the replacement list: the pairs) in play
  Accepts,    \* Accepts[p]: the words p's add() lets through
  Fragments,  \* words that a torn last line of a file reads as
  FilePresent,\* does the file exist before the first process starts
  OldWords,   \* the words of the old-format file ("" suffix .per)
  Coarse,     \* can two modifications carry the same time stamp
  Faults,     \* which of "crash" and "disk_full" happen
  MaxTime     \* bound on the clock, for model checking

ASSUME AcceptsAssumption == Accepts \in [Proc -> SUBSET Words]
ASSUME WordsAssumption == Fragments \subseteq Words /\ OldWords \subseteq Words
ASSUME FlagsAssumption == /\ FilePresent \in BOOLEAN
                          /\ Coarse \in BOOLEAN
                          /\ Faults \subseteq {"crash", "disk_full"}
ASSUME MaxTimeAssumption == MaxTime \in Nat

VARIABLES
  \* the file system
  disk,       \* "absent", "empty", "bad" (a header line cut short) or "full"
  words,      \* the words in the file
  mtime,      \* its modification time
  now,        \* the time the next modification is stamped with
  oldFile,    \* is the old-format file still there
  \* one WritableBase object in each process
  pc,         \* where the process is in load() or save()
  mem,        \* word_lookup
  date,       \* cur_file_date
  existed,    \* prev_existed, the local of save()
  compat,     \* compatibility_file_name is not empty
  \* history
  acked,      \* the words whose save() returned without an error
  spoilt      \* a full disk cut the file short, or a late fopen("w+") emptied it,
              \* since it was last written whole

fileVars == <<disk, words, mtime, now, oldFile>>
procVars == <<pc, mem, date, existed, compat>>
history == <<acked, spoilt>>
vars == <<disk, words, mtime, now, oldFile, pc, mem, date, existed, compat, acked, spoilt>>

-----------------------------------------------------------------------------
\* cur_file_date before anything was assigned to it: the constructor does
\* not initialise it, so a comparison with it can come out either way.
Unset == -1

Loading == {"ldOld", "ldLock", "ldRead", "ldStamp"}
Saving  == {"svCreate", "svLock", "svUpdate", "svTruncate", "svWrite", "svStamp"}
PCs     == {"off", "ready"} \cup Loading \cup Saving

\* Who holds the fcntl lock.
Readers == {p \in Proc : pc[p] \in {"ldRead", "ldStamp"}}
Writers == {p \in Proc : pc[p] \in {"svUpdate", "svTruncate", "svWrite", "svStamp"}}

\* Mutant: a reader does not wait for a writer.
CanReadLockAlways(p) == TRUE

\* Mutant: readers take no lock that a writer would notice.
CanWriteLockOverReaders(p) == Writers = {}

\* Mutant: a shared lock where the exclusive one is meant.
CanWriteLockShared(p) == Readers = {}

CanReadLock(p) == Writers = {}
CanWriteLock(p) == Writers = {} /\ Readers = {}

\* Every modification of the file stamps it.
Touch == /\ now' = IF Coarse THEN now ELSE now + 1
         /\ mtime' = now'

Goto(p, l) == pc' = [pc EXCEPT ![p] = l]

TypeOK ==
  /\ disk \in {"absent", "empty", "bad", "full"}
  /\ words \in SUBSET Words
  /\ mtime \in Nat
  /\ now \in Nat
  /\ oldFile \in BOOLEAN
  /\ pc \in [Proc -> PCs]
  /\ mem \in [Proc -> SUBSET Words]
  /\ date \in [Proc -> Nat \cup {Unset}]
  /\ existed \in [Proc -> BOOLEAN]
  /\ compat \in [Proc -> BOOLEAN]
  /\ acked \in SUBSET Words
  /\ spoilt \in BOOLEAN

\* A file that is there at the start was written by an earlier save and its
\* words are as durable as any; the old-format file is older than all.
Init ==
  /\ IF FilePresent
     THEN disk = "full" /\ words \in SUBSET Words
     ELSE disk = "absent" /\ words = {}
  /\ mtime = 1 /\ now = 1
  /\ oldFile \in BOOLEAN
  /\ pc = [p \in Proc |-> "off"]
  /\ mem = [p \in Proc |-> {}]
  /\ date = [p \in Proc |-> Unset]
  /\ existed = [p \in Proc |-> FALSE]
  /\ compat = [p \in Proc |-> FALSE]
  /\ acked = words
  /\ spoilt = FALSE

-----------------------------------------------------------------------------
(* WritableBase::load, called by SpellerImpl::setup on a new object.        *)

\* file_exists decides between the file and its old-format predecessor.
LoadOpen(p) ==
  /\ pc[p] = "off"
  /\ Goto(p, IF disk = "absent" THEN "ldOld" ELSE "ldLock")
  /\ UNCHANGED <<fileVars, mem, date, existed, compat, history>>

\* The old-format file may have been removed since.  Failing to open it is
\* cant_read_file, with which setup goes on: an empty dictionary whose
\* cur_file_date was never set.  A word that add() refuses ends setup.
LoadOld(p) ==
  /\ pc[p] = "ldOld"
  /\ \/ /\ ~oldFile
        /\ Goto(p, "ready")
        /\ UNCHANGED <<mem, date, compat>>
     \/ /\ oldFile /\ OldWords \subseteq Accepts[p]
        /\ mem' = [mem EXCEPT ![p] = OldWords]
        /\ date' = [date EXCEPT ![p] = 0]
        /\ compat' = [compat EXCEPT ![p] = TRUE]
        /\ Goto(p, "ready")
     \/ /\ oldFile /\ ~(OldWords \subseteq Accepts[p])
        /\ Goto(p, "off")
        /\ UNCHANGED <<mem, date, compat>>
  /\ UNCHANGED <<fileVars, existed, history>>

LoadLock(p) ==
  /\ pc[p] = "ldLock"
  /\ CanReadLock(p)
  /\ Goto(p, "ldRead")
  /\ UNCHANGED <<fileVars, mem, date, existed, compat, history>>

\* Mutant: the early return for an empty file leaves the file open and locked.
LoadReadLeaks(p) ==
  /\ pc[p] = "ldRead"
  /\ \/ /\ disk = "empty"
        /\ UNCHANGED <<pc, mem>>
     \/ /\ disk = "full"
        /\ mem' = [mem EXCEPT ![p] = words]
        /\ Goto(p, "ldStamp")
     \/ /\ disk = "bad"
        /\ Goto(p, "off")
        /\ UNCHANGED mem
  /\ UNCHANGED <<fileVars, date, existed, compat, history>>

\* An empty file is cant_read_file as well; any other error, bad_file_format and
\* a refused word, ends setup.
LoadRead(p) ==
  /\ pc[p] = "ldRead"
  /\ \/ /\ disk = "empty"
        /\ Goto(p, "ready")
        /\ UNCHANGED mem
     \/ /\ disk = "full" /\ words \subseteq Accepts[p]
        /\ mem' = [mem EXCEPT ![p] = words]
        /\ Goto(p, "ldStamp")
     \/ /\ disk = "bad" \/ (disk = "full" /\ ~(words \subseteq Accepts[p]))
        /\ Goto(p, "off")
        /\ UNCHANGED mem
  /\ UNCHANGED <<fileVars, date, existed, compat, history>>

LoadStamp(p) ==
  /\ pc[p] = "ldStamp"
  /\ date' = [date EXCEPT ![p] = mtime]
  /\ Goto(p, "ready")
  /\ UNCHANGED <<fileVars, mem, existed, compat, history>>

-----------------------------------------------------------------------------
(* add() for a word the user accepts; the words of a file go through the    *)
(* same check in merge().                                                   *)
Add(p, w) ==
  /\ pc[p] = "ready"
  /\ w \in Accepts[p]
  /\ mem' = [mem EXCEPT ![p] = @ \cup {w}]
  /\ UNCHANGED <<fileVars, pc, date, existed, compat, history>>

-----------------------------------------------------------------------------
(* WritableBase::save(TRUE), called by synchronize().                       *)

\* open_file_writelock: fopen(file, "r+") fails for an absent file.  If it fails
\* for its permissions, so does "w+", and save() ends before it changed anything.
SaveOpen(p) ==
  /\ pc[p] = "ready"
  /\ now < MaxTime
  /\ Goto(p, IF disk = "absent" THEN "svCreate" ELSE "svLock")
  /\ UNCHANGED <<fileVars, mem, date, existed, compat, history>>

\* open_file_writelock: fopen(file, "w+").  It truncates whatever is there
\* by now, with no lock held.
SaveCreate(p) ==
  /\ pc[p] = "svCreate"
  /\ disk' = "empty"
  /\ words' = {}
  /\ Touch
  /\ Goto(p, "svLock")
  /\ spoilt' = (spoilt \/ disk = "full")
  /\ UNCHANGED <<oldFile, mem, date, existed, compat, acked>>

\* open_file_writelock: the lock, then prev_existed = (st_size != 0).
SaveLock(p) ==
  /\ pc[p] = "svLock"
  /\ CanWriteLock(p)
  /\ existed' = [existed EXCEPT ![p] = (disk \in {"bad", "full"})]
  /\ Goto(p, "svUpdate")
  /\ UNCHANGED <<fileVars, mem, date, compat, history>>

\* Mutant: a file system with stamps of two seconds is made allowance for.
ModifiedAllowance(p) == mtime > date[p] + 2

\* Must the file be merged first?  With cur_file_date unset it may or may not.
Modified(p) == mtime > date[p]
MayUpdate(p) == existed[p] /\ Modified(p)
MaySkipUpdate(p) == ~existed[p] \/ ~Modified(p) \/ date[p] = Unset

\* Nothing to merge.
SaveSkipUpdate(p) ==
  /\ pc[p] = "svUpdate"
  /\ MaySkipUpdate(p)
  /\ Goto(p, "svTruncate")
  /\ UNCHANGED <<fileVars, mem, date, existed, compat, history>>

\* Mutant: the list is cleared before the file is read into it.
SaveUpdateReplaces(p) ==
  /\ pc[p] = "svUpdate"
  /\ MayUpdate(p)
  /\ disk = "full" /\ words \subseteq Accepts[p]
  /\ mem' = [mem EXCEPT ![p] = words]
  /\ date' = [date EXCEPT ![p] = mtime]
  /\ Goto(p, "svTruncate")
  /\ UNCHANGED <<fileVars, existed, compat, history>>

\* Mutant: merge() inserts the words of the file without add()'s check.
SaveUpdateUnchecked(p) ==
  /\ pc[p] = "svUpdate"
  /\ MayUpdate(p)
  /\ disk = "full"
  /\ mem' = [mem EXCEPT ![p] = @ \cup words]
  /\ date' = [date EXCEPT ![p] = mtime]
  /\ Goto(p, "svTruncate")
  /\ UNCHANGED <<fileVars, existed, compat, history>>

\* update(): the words of the file are merged in.
SaveUpdate(p) ==
  /\ pc[p] = "svUpdate"
  /\ MayUpdate(p)
  /\ disk = "full" /\ words \subseteq Accepts[p]
  /\ mem' = [mem EXCEPT ![p] = @ \cup words]
  /\ date' = [date EXCEPT ![p] = mtime]
  /\ Goto(p, "svTruncate")
  /\ UNCHANGED <<fileVars, existed, compat, history>>

\* update() fails.  Without a whole header line, of which there is none in a file
\* emptied since it was measured, it is bad_file_format and nothing is merged.  A
\* refused word makes merge() clear the whole list.  The error is dropped, and the
\* save goes on, when the list came from the old-format file.
SaveUpdateFails(p) ==
  /\ pc[p] = "svUpdate"
  /\ MayUpdate(p)
  /\ \/ /\ disk # "full"
        /\ UNCHANGED mem
     \/ /\ disk = "full" /\ ~(words \subseteq Accepts[p])
        /\ mem' = [mem EXCEPT ![p] = {}]
  /\ IF compat[p]
     THEN /\ date' = [date EXCEPT ![p] = mtime]
          /\ Goto(p, "svTruncate")
     ELSE /\ Goto(p, "ready")
          /\ UNCHANGED date
  /\ UNCHANGED <<fileVars, existed, compat, history>>

\* Mutant: the old-format file is removed before the new one is written.
SaveTruncateRemoves(p) ==
  /\ pc[p] = "svTruncate"
  /\ disk' = "empty"
  /\ words' = {}
  /\ Touch
  /\ Goto(p, "svWrite")
  /\ oldFile' = (oldFile /\ ~compat[p])
  /\ UNCHANGED <<mem, date, existed, compat, history>>

\* save2: truncate_file
SaveTruncate(p) ==
  /\ pc[p] = "svTruncate"
  /\ disk' = "empty"
  /\ words' = {}
  /\ Touch
  /\ Goto(p, "svWrite")
  /\ UNCHANGED <<oldFile, mem, date, existed, compat, history>>

\* save2: the header and the words are printed and flushed
SaveWrite(p) ==
  /\ pc[p] = "svWrite"
  /\ disk' = "full"
  /\ words' = mem[p]
  /\ Touch
  /\ Goto(p, "svStamp")
  /\ spoilt' = FALSE
  /\ UNCHANGED <<oldFile, mem, date, existed, compat, acked>>

\* What reaches the disk of a list that is not written to the end: a piece of the
\* header line, or the header, whole lines and perhaps the beginning of one more.
TornLists(S) == {T \cup F : T \in SUBSET S,
                            F \in {{}} \cup {{f} : f \in Fragments}}
WriteTorn(S) == \/ disk' = "bad" /\ words' = {}
                \/ disk' = "full" /\ words' \in TornLists(S)

\* printf and flush do not report a short write, so save2 does not either.
SaveWriteShort(p) ==
  /\ pc[p] = "svWrite"
  /\ "disk_full" \in Faults
  /\ \/ disk' = "empty" /\ words' = {}
     \/ WriteTorn(mem[p])
  /\ Touch
  /\ Goto(p, "svStamp")
  /\ spoilt' = TRUE
  /\ UNCHANGED <<oldFile, mem, date, existed, compat, acked>>

\* update_file_date_info, and the end of save(): the old-format file goes.
SaveStamp(p) ==
  /\ pc[p] = "svStamp"
  /\ date' = [date EXCEPT ![p] = mtime]
  /\ oldFile' = (oldFile /\ ~compat[p])
  /\ compat' = [compat EXCEPT ![p] = FALSE]
  /\ acked' = acked \cup mem[p]
  /\ Goto(p, "ready")
  /\ UNCHANGED <<disk, words, mtime, now, mem, existed, spoilt>>

-----------------------------------------------------------------------------
\* The object is gone; nothing is saved on the way out.
Forget(p) ==
  /\ Goto(p, "off")
  /\ mem' = [mem EXCEPT ![p] = {}]
  /\ date' = [date EXCEPT ![p] = Unset]
  /\ existed' = [existed EXCEPT ![p] = FALSE]
  /\ compat' = [compat EXCEPT ![p] = FALSE]

\* delete_aspell_speller
Exit(p) == /\ pc[p] = "ready"
           /\ Forget(p)
           /\ UNCHANGED <<fileVars, history>>

\* A process dies where it is; the kernel takes its locks away.
Crash(p) ==
  /\ "crash" \in Faults
  /\ pc[p] # "off"
  /\ Forget(p)
  /\ \/ UNCHANGED fileVars
     \/ /\ pc[p] = "svWrite"
        /\ WriteTorn(mem[p])
        /\ Touch
        /\ UNCHANGED oldFile
  /\ UNCHANGED history

\* Time passes between modifications, too.
Tick == /\ now < MaxTime
        /\ now' = now + 1
        /\ UNCHANGED <<disk, words, mtime, oldFile, procVars, history>>

Load(p) == LoadOpen(p) \/ LoadOld(p) \/ LoadLock(p) \/ LoadRead(p) \/ LoadStamp(p)

Update(p) == SaveSkipUpdate(p) \/ SaveUpdate(p) \/ SaveUpdateFails(p)

Save(p) == \/ SaveCreate(p) \/ SaveLock(p) \/ Update(p)
           \/ SaveTruncate(p) \/ SaveWrite(p) \/ SaveWriteShort(p) \/ SaveStamp(p)

Next == \/ \E p \in Proc : \/ Load(p)
                           \/ \E w \in Words : Add(p, w)
                           \/ SaveOpen(p) \/ Save(p)
                           \/ Exit(p) \/ Crash(p)
        \/ Tick

Spec == Init /\ [][Next]_vars

\* A process that began to load or to save keeps running, and one that waits
\* for the lock gets it if it keeps coming free.  Nobody has to begin.
Fairness == \A p \in Proc : /\ WF_vars(Load(p) /\ pc[p] # "off")
                            /\ SF_vars(LoadLock(p))
                            /\ WF_vars(Save(p))
                            /\ SF_vars(SaveLock(p))

FairSpec == Spec /\ Fairness
-----------------------------------------------------------------------------
(* Properties                                                               *)

\* The file is there from the start, and no process or disk fails.
Intact == FilePresent /\ Faults = {}

\* The setting the save protocol was written for: moreover every process
\* accepts the same words and time stamps tell modifications apart.
Safe == Intact /\ ~Coarse /\ Accepts = [p \in Proc |-> Words]

\* The words that a process may count on: those in the file or, while a
\* writer is between truncating and writing it, those the writer holds.
Durable == words \cup UNION {mem[p] : p \in {q \in Proc : pc[q] = "svWrite"}}

\* No word is lost once a save that included it has reported success, however
\* the loads and saves of all the processes interleave (save, update, save2).
AckedWordsSurvive == acked \subseteq Durable

\* The update of a save: a process that is about to truncate the file holds
\* all of its words already, whoever wrote them (save, update before save2).
NothingOverwritten ==
  \A p \in Proc : pc[p] = "svTruncate" => words \subseteq mem[p]

\* The locks of open_file_readlock and open_file_writelock: a process that
\* reads the file never meets the empty file of a save in progress.
ReadersSeeWholeFile == \A p \in Readers : disk = "full"

\* cur_file_date stands for the contents: while it equals the file's time
\* stamp, the process has every whole word of the file, so that the next
\* save may skip update() (load, save, update_file_date_info).
CurrentMeansIncluded ==
  \A p \in Proc :
    (pc[p] = "ready" /\ date[p] = mtime) => words \ Fragments \subseteq mem[p]

\* A word refused by a process's add() is never in its list, whatever the
\* other processes wrote into the file (merge clears the list on an error).
NoRefusedWords == \A p \in Proc : mem[p] \subseteq Accepts[p]

\* The step that removes the old-format file leaves all of its words in the new
\* one, whichever saves and deaths came before (the end of save).  The code does
\* not see to it that the new file is still whole by then: a full disk
\* (writable.cpp:210-218) and another process's late fopen("w+")
\* (file_util.cpp:114) may have spoilt it.
MigrationKeepsOldWords ==
  [][(oldFile /\ ~oldFile') => (OldWords \subseteq words' \/ spoilt)]_vars

\* A save that was begun comes to an end, with success or with an error, and
\* so does a load: the lock is always given back to those who wait.
LoadsAndSavesEnd ==
  \A p \in Proc : /\ pc[p] \in Saving ~> pc[p] \notin Saving
                 /\ pc[p] \in Loading ~> pc[p] \notin Loading

\* In the intended setting the dictionary file is a shared word list: loads
\* and updates refresh the view, and a save publishes a view that includes
\* the list, at the moment it truncates the file.
Abstract == INSTANCE SharedWordList WITH store <- Durable, view <- mem
ImplementsSharedWordList == Abstract!Spec
=============================================================================
