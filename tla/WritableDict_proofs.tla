------------------------ MODULE WritableDict_proofs ------------------------
(***************************************************************************)
(* Proofs about WritableDict for any number of processes, words and saves. *)
(* The argument of the save protocol has three layers, one invariant each: *)
(*   LockInv   a writer is alone with the file (any setting at all);       *)
(*   FileInv   the file is empty only while a writer rewrites it, provided *)
(*             it existed at the start and nothing fails (Intact);         *)
(*   ListInv   a process whose cur_file_date is the file's has its words,  *)
(*             provided moreover that time stamps differ (Safe).           *)
(***************************************************************************)
EXTENDS WritableDict, TLAPS

\* A process in its critical section excludes every other one.
LockInv == \A p, q \in Proc : p \in Writers /\ q \in Writers \cup Readers => p = q

FileInv ==
  /\ disk \in {"empty", "full"}
  /\ disk = "empty" => \E p \in Proc : pc[p] = "svWrite"
  /\ \A p \in Proc : /\ pc[p] \notin {"ldOld", "svCreate"}
                     /\ pc[p] = "svWrite" => words = {}
                     /\ pc[p] = "svUpdate" => existed[p]

\* What the steps of a process may rely on between taking a stamp and using it.
ListInv ==
  /\ mtime <= now
  /\ \A p \in Proc :
       /\ date[p] <= mtime
       /\ pc[p] \in {"ready"} \cup Saving => date[p] # Unset
       /\ (pc[p] \in {"ready", "svLock", "svUpdate"} /\ date[p] = mtime)
             => words \subseteq mem[p]
       /\ pc[p] \in {"ldStamp", "svTruncate"} => words \subseteq mem[p]
       /\ pc[p] = "svStamp" => words = mem[p]

AckInv == \A w \in acked : \/ w \in words
                           \/ \E p \in Proc : pc[p] = "svWrite" /\ w \in mem[p]

-----------------------------------------------------------------------------
\* The variables keep their types in every behaviour, faults included.
THEOREM TypeCorrect == Spec => []TypeOK
<1>1. Init => TypeOK
  <2>1. Init => oldFile \in BOOLEAN /\ spoilt \in BOOLEAN
    BY Zenon DEF Init
  <2> QED BY <2>1 DEF Init, TypeOK, PCs, Unset
<1>2. TypeOK /\ [Next]_vars => TypeOK'
  <2> SUFFICES ASSUME TypeOK, [Next]_vars PROVE TypeOK'
    OBVIOUS
  <2> USE DEF TypeOK, PCs, Loading, Saving, Goto, fileVars, procVars, history, Unset
  <2>1. ASSUME NEW p \in Proc, Load(p) PROVE TypeOK'
    <3>1. CASE LoadOpen(p) \/ LoadLock(p) \/ LoadStamp(p)
      BY <3>1 DEF LoadOpen, LoadLock, LoadStamp
    <3>2. CASE LoadOld(p)
      <4>1. mem' \in [Proc -> SUBSET Words] /\ pc' \in [Proc -> PCs]
        BY <3>2, WordsAssumption DEF LoadOld
      <4>2. date' = date \/ date' = [date EXCEPT ![p] = 0]
        BY <3>2 DEF LoadOld
      <4>3. compat' \in [Proc -> BOOLEAN]
        BY <3>2 DEF LoadOld
      <4>4. date' \in [Proc -> Nat \cup {Unset}]
        BY <4>2
      <4> QED BY <3>2, <4>1, <4>3, <4>4 DEF LoadOld
    <3>3. CASE LoadRead(p)
      BY <3>3 DEF LoadRead
    <3> QED BY <2>1, <3>1, <3>2, <3>3 DEF Load
  <2>2. ASSUME NEW p \in Proc, NEW w \in Words, Add(p, w) PROVE TypeOK'
    BY <2>2 DEF Add
  <2>3. ASSUME NEW p \in Proc, SaveOpen(p) PROVE TypeOK'
    BY <2>3 DEF SaveOpen
  <2>4. ASSUME NEW p \in Proc, Save(p) PROVE TypeOK'
    <3>1. CASE SaveCreate(p) \/ SaveTruncate(p) \/ SaveWrite(p)
      <4>1. spoilt' \in BOOLEAN
        BY <3>1, Zenon DEF SaveCreate, SaveTruncate, SaveWrite
      <4> QED BY <3>1, <4>1 DEF SaveCreate, SaveTruncate, SaveWrite, Touch
    <3>2. CASE SaveLock(p)
      BY <3>2 DEF SaveLock
    <3>3. CASE SaveStamp(p)
      BY <3>3 DEF SaveStamp
    <3>4. CASE Update(p)
      BY <3>4 DEF Update, SaveSkipUpdate, SaveUpdate, SaveUpdateFails
    <3>5. CASE SaveWriteShort(p)
      BY <3>5, WordsAssumption DEF SaveWriteShort, Touch, WriteTorn, TornLists
    <3> QED BY <2>4, <3>1, <3>2, <3>3, <3>4, <3>5 DEF Save
  <2>5. ASSUME NEW p \in Proc, Exit(p) PROVE TypeOK'
    BY <2>5 DEF Exit, Forget
  <2>6. ASSUME NEW p \in Proc, Crash(p) PROVE TypeOK'
    BY <2>6, WordsAssumption DEF Crash, Forget, Touch, WriteTorn, TornLists
  <2>7. ASSUME Tick PROVE TypeOK'
    BY <2>7 DEF Tick
  <2>8. CASE UNCHANGED vars
    BY <2>8 DEF vars
  <2> QED BY <2>1, <2>2, <2>3, <2>4, <2>5, <2>6, <2>7, <2>8 DEF Next
<1> QED BY <1>1, <1>2, PTL DEF Spec

-----------------------------------------------------------------------------
\* Readers share the file, a writer has it alone, in every setting: the locks
\* taken by open_file_readlock and open_file_writelock work as such.
THEOREM LocksExclude == Spec => []LockInv
<1>1. Init => LockInv
  BY DEF Init, LockInv, Writers, Readers
<1>2. TypeOK /\ LockInv /\ [Next]_vars => LockInv'
  <2> SUFFICES ASSUME TypeOK, LockInv, [Next]_vars PROVE LockInv'
    OBVIOUS
  <2> USE DEF TypeOK, PCs, Loading, Saving, Goto, LockInv, Writers, Readers
  <2>1. ASSUME NEW p \in Proc, Load(p) PROVE LockInv'
    <3>1. CASE LoadOpen(p) \/ LoadOld(p) \/ LoadRead(p) \/ LoadStamp(p)
      BY <3>1 DEF LoadOpen, LoadOld, LoadRead, LoadStamp
    <3>2. CASE LoadLock(p)
      BY <3>2 DEF LoadLock, CanReadLock
    <3> QED BY <2>1, <3>1, <3>2 DEF Load
  <2>2. ASSUME NEW p \in Proc, NEW w \in Words, Add(p, w) PROVE LockInv'
    BY <2>2 DEF Add
  <2>3. ASSUME NEW p \in Proc, SaveOpen(p) PROVE LockInv'
    BY <2>3 DEF SaveOpen
  <2>4. ASSUME NEW p \in Proc, Save(p) PROVE LockInv'
    <3>1. CASE SaveLock(p)
      BY <3>1 DEF SaveLock, CanWriteLock
    <3>2. CASE SaveCreate(p) \/ SaveTruncate(p) \/ SaveWrite(p) \/ SaveStamp(p)
      BY <3>2 DEF SaveCreate, SaveTruncate, SaveWrite, SaveStamp
    <3>3. CASE Update(p) \/ SaveWriteShort(p)
      BY <3>3 DEF Update, SaveSkipUpdate, SaveUpdate, SaveUpdateFails, SaveWriteShort
    <3> QED BY <2>4, <3>1, <3>2, <3>3 DEF Save
  <2>5. ASSUME NEW p \in Proc, Exit(p) \/ Crash(p) PROVE LockInv'
    BY <2>5 DEF Exit, Crash, Forget
  <2>6. CASE Tick \/ UNCHANGED vars
    BY <2>6 DEF Tick, vars, procVars
  <2> QED BY <2>1, <2>2, <2>3, <2>4, <2>5, <2>6 DEF Next
<1> QED BY <1>1, <1>2, TypeCorrect, PTL DEF Spec

-----------------------------------------------------------------------------
\* The file is there and whole at the start.
LEMMA FileInvInit ==
  ASSUME Intact, Init
  PROVE  FileInv
  BY DEF Intact, Init, FileInv

\* A writer that rewrites the file is alone with it, and nobody else empties it.
LEMMA FileInvStep ==
  ASSUME Intact, TypeOK, LockInv, FileInv, [Next]_vars
  PROVE  FileInv'
<1> USE DEF TypeOK, PCs, Loading, Saving, Goto, fileVars, procVars, history, FileInv
<1>1. ASSUME NEW p \in Proc, Load(p) PROVE FileInv'
  <2>1. CASE LoadOpen(p) \/ LoadLock(p) \/ LoadStamp(p)
    BY <2>1 DEF LoadOpen, LoadLock, LoadStamp
  <2>2. CASE LoadRead(p)
    BY <2>2 DEF LoadRead
  <2> QED BY <1>1, <2>1, <2>2 DEF Load, LoadOld
<1>2. ASSUME NEW p \in Proc, NEW w \in Words, Add(p, w) PROVE FileInv'
  BY <1>2 DEF Add
<1>3. ASSUME NEW p \in Proc, SaveOpen(p) PROVE FileInv'
  BY <1>3 DEF SaveOpen
<1>4. ASSUME NEW p \in Proc, Save(p) PROVE FileInv'
  <2>1. CASE SaveLock(p)
    <3>1. disk = "full"
      BY <2>1 DEF SaveLock, CanWriteLock, Writers
    <3> QED BY <2>1, <3>1 DEF SaveLock
  <2>2. CASE Update(p)
    BY <2>2 DEF Update, SaveSkipUpdate, SaveUpdate, SaveUpdateFails
  <2>3. CASE SaveTruncate(p)
    BY <2>3 DEF SaveTruncate
  <2>4. CASE SaveWrite(p)
    <3>1. \A q \in Proc : pc[q] = "svWrite" => q = p
      BY <2>4 DEF SaveWrite, LockInv, Writers
    <3> QED BY <2>4, <3>1 DEF SaveWrite
  <2>5. CASE SaveStamp(p)
    BY <2>5 DEF SaveStamp
  <2> QED BY <1>4, <2>1, <2>2, <2>3, <2>4, <2>5
          DEF Save, SaveCreate, SaveWriteShort, Intact
<1>5. ASSUME NEW p \in Proc, Exit(p) PROVE FileInv'
  BY <1>5 DEF Exit, Forget
<1>6. CASE Tick \/ UNCHANGED vars
  BY <1>6 DEF Tick, vars
<1> QED BY <1>1, <1>2, <1>3, <1>4, <1>5, <1>6 DEF Next, Crash, Intact

\* So the file is empty only while a writer rewrites it.
LEMMA FileInvariant ==
  ASSUME Intact
  PROVE  Spec => []FileInv
<1>1. Init => FileInv
  BY FileInvInit
<1>2. TypeOK /\ LockInv /\ FileInv /\ [Next]_vars => FileInv'
  BY FileInvStep
<1> QED BY <1>1, <1>2, TypeCorrect, LocksExclude, PTL DEF Spec

\* A process never reads the file in the middle of another one's rewriting,
\* if the file existed at the start and nothing fails (load, save).
THEOREM NoPartialRead ==
  ASSUME Intact
  PROVE  Spec => []ReadersSeeWholeFile
<1>1. TypeOK /\ LockInv /\ FileInv => ReadersSeeWholeFile
  BY DEF TypeOK, LockInv, FileInv, ReadersSeeWholeFile, Readers, Writers
<1> QED BY <1>1, TypeCorrect, LocksExclude, FileInvariant, PTL

-----------------------------------------------------------------------------
\* What LockInv and FileInv give the steps that read or write the file.
LEMMA WriterAlone ==
  ASSUME LockInv, NEW p \in Writers
  PROVE  /\ \A q \in Proc \ {p} : pc[q] \notin
              {"ldRead", "ldStamp", "svUpdate", "svTruncate", "svWrite", "svStamp"}
         /\ pc[p] # "svWrite" => \A q \in Proc : pc[q] # "svWrite"
  BY DEF LockInv, Writers, Readers

\* A process whose stamp is the file's has the words, at every step of load and save.
LEMMA ListInvStep ==
  ASSUME Safe, TypeOK, LockInv, FileInv, ListInv, [Next]_vars
  PROVE  ListInv'
<1> USE DEF TypeOK, PCs, Loading, Saving, Goto, fileVars, procVars, history, ListInv, Unset
<1>1. ASSUME NEW p \in Proc, Load(p) PROVE ListInv'
  <2>1. CASE LoadOpen(p) \/ LoadLock(p) \/ LoadStamp(p)
    BY <2>1 DEF LoadOpen, LoadLock, LoadStamp
  <2>2. CASE LoadRead(p)
    <3>1. disk = "full"
      BY <2>2 DEF LoadRead, FileInv, LockInv, Readers, Writers
    <3> QED BY <2>2, <3>1 DEF LoadRead, Safe
  <2> QED BY <1>1, <2>1, <2>2 DEF Load, LoadOld, FileInv
<1>2. ASSUME NEW p \in Proc, NEW w \in Words, Add(p, w) PROVE ListInv'
  BY <1>2 DEF Add
<1>3. ASSUME NEW p \in Proc, SaveOpen(p) PROVE ListInv'
  BY <1>3 DEF SaveOpen, FileInv
<1>4. ASSUME NEW p \in Proc, Save(p) PROVE ListInv'
  <2>1. CASE SaveLock(p)
    BY <2>1 DEF SaveLock
  <2>2. CASE SaveSkipUpdate(p)
    <3>1. date[p] = mtime
      BY <2>2 DEF SaveSkipUpdate, MaySkipUpdate, Modified, FileInv
    <3> QED BY <2>2, <3>1 DEF SaveSkipUpdate
  <2>3. CASE SaveUpdate(p)
    BY <2>3 DEF SaveUpdate
  <2>4. CASE SaveTruncate(p) \/ SaveWrite(p)
    <3>1. p \in Writers
      BY <2>4 DEF SaveTruncate, SaveWrite, Writers
    <3>2. mtime' = now + 1 /\ now' = now + 1
      BY <2>4 DEF SaveTruncate, SaveWrite, Touch, Safe
    <3>3. words' = {} \/ (pc'[p] = "svStamp" /\ words' = mem[p])
      BY <2>4 DEF SaveTruncate, SaveWrite
    <3>4. \A q \in Proc : date'[q] = date[q] /\ date[q] # mtime'
      BY <2>4, <3>2 DEF SaveTruncate, SaveWrite
    <3>5. \A q \in Proc : pc'[q] \in {"ldStamp", "svTruncate", "svStamp"}
                              => q = p /\ pc[p] = "svWrite"
      BY <2>4, <3>1, WriterAlone DEF SaveTruncate, SaveWrite
    <3> QED BY <2>4, <3>2, <3>3, <3>4, <3>5 DEF SaveTruncate, SaveWrite
  <2>5. CASE SaveStamp(p)
    BY <2>5 DEF SaveStamp
  <2>6. ~SaveUpdateFails(p)
    <3>1. Accepts[p] = Words
      BY DEF Safe
    <3>2. pc[p] = "svUpdate" => disk = "full"
      BY WriterAlone DEF Writers, FileInv
    <3> QED BY <3>1, <3>2 DEF SaveUpdateFails
  <2> QED BY <1>4, <2>1, <2>2, <2>3, <2>4, <2>5, <2>6
          DEF Save, Update, SaveCreate, SaveWriteShort, FileInv, Safe, Intact
<1>5. ASSUME NEW p \in Proc, Exit(p) PROVE ListInv'
  BY <1>5 DEF Exit, Forget
<1>6. CASE UNCHANGED vars
  BY <1>6 DEF vars
<1> QED BY <1>1, <1>2, <1>3, <1>4, <1>5, <1>6 DEF Next, Crash, Tick, Safe, Intact

\* So it holds at every moment.
LEMMA ListInvariant ==
  ASSUME Safe
  PROVE  Spec => []ListInv
<1>1. Init => ListInv
  BY DEF Init, ListInv, Unset, Saving
<1>2. TypeOK /\ LockInv /\ FileInv /\ ListInv /\ [Next]_vars => ListInv'
  BY ListInvStep
<1>3. Intact
  BY DEF Safe
<1> QED BY <1>1, <1>2, <1>3, TypeCorrect, LocksExclude, FileInvariant, PTL DEF Spec

\* The merge before the rewrite really covers the file: whatever the other
\* processes saved since this one last looked is in the list it writes.
THEOREM NeverOverwrites ==
  ASSUME Safe
  PROVE  Spec => []NothingOverwritten
<1>1. ListInv => NothingOverwritten
  BY DEF ListInv, NothingOverwritten
<1> QED BY <1>1, ListInvariant, PTL

-----------------------------------------------------------------------------
\* What a stamp stands for, also when files are torn, words are refused and processes die.
StampInv ==
  /\ 1 <= mtime /\ mtime <= now
  /\ \A p \in Proc :
       /\ date[p] <= mtime
       /\ pc[p] \in {"off"} \cup Loading => date[p] = Unset
       /\ (pc[p] = "ready" /\ date[p] = mtime) => words \ Fragments \subseteq mem[p]
       /\ pc[p] \in {"ldStamp", "svStamp"} => words \ Fragments \subseteq mem[p]

\* Every modification is stamped with a time that no process has seen.
LEMMA TouchIsNew ==
  ASSUME ~Coarse, TypeOK, StampInv, Touch
  PROVE  /\ 1 <= mtime' /\ mtime' <= now'
         /\ \A p \in Proc : date[p] <= mtime' /\ date[p] # mtime'
         /\ Unset <= mtime' /\ Unset # mtime'
BY DEF Touch, TypeOK, StampInv, Unset

\* What a torn file has that its writer did not are fragments.
LEMMA TornIsHeld ==
  ASSUME NEW S, NEW T \in TornLists(S)
  PROVE  T \ Fragments \subseteq S
BY DEF TornLists

\* No step gives a process the stamp of a file whose words it has not got.
LEMMA StampInvStep ==
  ASSUME ~Coarse, TypeOK, LockInv, StampInv, [Next]_vars
  PROVE  StampInv'
<1> USE DEF TypeOK, PCs, Loading, Saving, Goto, fileVars, procVars, history, StampInv, Unset
<1>1. ASSUME NEW p \in Proc, Load(p) PROVE StampInv'
  <2>1. CASE LoadOpen(p) \/ LoadLock(p)
    BY <2>1 DEF LoadOpen, LoadLock
  <2>2. CASE LoadOld(p)
    BY <2>2 DEF LoadOld
  <2>3. CASE LoadRead(p)
    BY <2>3 DEF LoadRead
  <2>4. CASE LoadStamp(p)
    BY <2>4 DEF LoadStamp
  <2> QED BY <1>1, <2>1, <2>2, <2>3, <2>4 DEF Load
<1>2. ASSUME NEW p \in Proc, NEW w \in Words, Add(p, w) PROVE StampInv'
  BY <1>2 DEF Add
<1>3. ASSUME NEW p \in Proc, SaveOpen(p) PROVE StampInv'
  BY <1>3 DEF SaveOpen
<1>4. ASSUME NEW p \in Proc, Save(p) PROVE StampInv'
  <2>1. CASE SaveLock(p) \/ SaveSkipUpdate(p)
    BY <2>1 DEF SaveLock, SaveSkipUpdate
  <2>2. CASE SaveUpdate(p)
    BY <2>2 DEF SaveUpdate
  <2>3. CASE SaveUpdateFails(p)
    BY <2>3 DEF SaveUpdateFails, MayUpdate, Modified
  <2>4. CASE SaveStamp(p)
    BY <2>4 DEF SaveStamp
  <2>5. CASE SaveCreate(p) \/ SaveTruncate(p)
    <3>1. /\ Touch /\ words' = {} /\ UNCHANGED <<mem, date>>
          /\ \A q \in Proc : pc'[q] = pc[q] \/ pc'[q] \in {"svLock", "svWrite"}
      BY <2>5 DEF SaveCreate, SaveTruncate
    <3>2. /\ 1 <= mtime' /\ mtime' <= now'
          /\ \A q \in Proc : date[q] <= mtime' /\ date[q] # mtime'
          /\ Unset <= mtime' /\ Unset # mtime'
      BY <3>1, TouchIsNew
    <3>3. ASSUME NEW q \in Proc
          PROVE  /\ date'[q] <= mtime' /\ date'[q] # mtime'
                 /\ pc'[q] \in {"off"} \cup Loading => date'[q] = Unset
                 /\ words' \ Fragments \subseteq mem'[q]
      BY <3>1, <3>2
    <3> QED BY <3>2, <3>3
  <2>6. CASE SaveWrite(p) \/ SaveWriteShort(p)
    <3>1. /\ Touch /\ UNCHANGED <<mem, date>> /\ pc' = [pc EXCEPT ![p] = "svStamp"]
          /\ pc[p] = "svWrite"
      BY <2>6 DEF SaveWrite, SaveWriteShort
    <3>2. /\ 1 <= mtime' /\ mtime' <= now'
          /\ \A q \in Proc : date[q] <= mtime' /\ date[q] # mtime'
          /\ Unset <= mtime' /\ Unset # mtime'
      BY <3>1, TouchIsNew
    <3>3. words' \ Fragments \subseteq mem[p]
      BY <2>6, TornIsHeld DEF SaveWrite, SaveWriteShort, WriteTorn
    <3>4. \A q \in Proc \ {p} : pc[q] \notin {"ldStamp", "svStamp"}
      BY <3>1 DEF LockInv, Writers, Readers
    <3>5. ASSUME NEW q \in Proc
          PROVE  /\ date'[q] <= mtime' /\ date'[q] # mtime'
                 /\ pc'[q] \in {"off"} \cup Loading => date'[q] = Unset
      BY <3>1, <3>2
    <3>6. ASSUME NEW q \in Proc, pc'[q] \in {"ldStamp", "svStamp"}
          PROVE  words' \ Fragments \subseteq mem'[q]
      <4>1. q = p
        BY <3>1, <3>4, <3>6
      <4> QED BY <3>1, <3>3, <4>1
    <3> QED BY <3>2, <3>5, <3>6
  <2> QED BY <1>4, <2>1, <2>2, <2>3, <2>4, <2>5, <2>6 DEF Save, Update
<1>5. ASSUME NEW p \in Proc, Exit(p) PROVE StampInv'
  BY <1>5 DEF Exit, Forget
<1>6. ASSUME NEW p \in Proc, Crash(p) PROVE StampInv'
  <2>1. /\ pc' = [pc EXCEPT ![p] = "off"] /\ mem' = [mem EXCEPT ![p] = {}]
        /\ date' = [date EXCEPT ![p] = Unset]
    BY <1>6 DEF Crash, Forget
  <2>2. CASE UNCHANGED fileVars
    BY <2>1, <2>2
  <2>3. CASE pc[p] = "svWrite" /\ Touch
    <3>1. /\ 1 <= mtime' /\ mtime' <= now'
          /\ \A q \in Proc : date[q] <= mtime' /\ date[q] # mtime'
          /\ Unset <= mtime' /\ Unset # mtime'
      BY <2>3, TouchIsNew
    <3>2. \A q \in Proc \ {p} : pc[q] \notin {"ldStamp", "svStamp"}
      BY <2>3 DEF LockInv, Writers, Readers
    <3>3. ASSUME NEW q \in Proc
          PROVE  /\ date'[q] <= mtime' /\ date'[q] # mtime'
                 /\ pc'[q] \in {"off"} \cup Loading => date'[q] = Unset
                 /\ pc'[q] \notin {"ldStamp", "svStamp"}
      BY <2>1, <3>1, <3>2
    <3> QED BY <3>1, <3>3
  <2> QED BY <1>6, <2>2, <2>3 DEF Crash
<1>7. CASE Tick
  BY <1>7 DEF Tick
<1>8. CASE UNCHANGED vars
  BY <1>8 DEF vars
<1> QED BY <1>1, <1>2, <1>3, <1>4, <1>5, <1>6, <1>7, <1>8 DEF Next

\* cur_file_date stands for the contents of the file, whatever else goes wrong: it is enough
\* that the stamps of two modifications differ.
THEOREM StampStandsForContents ==
  ASSUME ~Coarse
  PROVE  Spec => []CurrentMeansIncluded
<1>1. Init => StampInv
  BY DEF Init, StampInv, Unset, Loading
<1>2. TypeOK /\ LockInv /\ StampInv /\ [Next]_vars => StampInv'
  BY StampInvStep
<1>3. StampInv => CurrentMeansIncluded
  BY DEF StampInv, CurrentMeansIncluded
<1> QED BY <1>1, <1>2, <1>3, TypeCorrect, LocksExclude, PTL DEF Spec

-----------------------------------------------------------------------------
\* A word gets into a list by add() or merge(), which both ask the process's own validation:
\* in every setting, whoever wrote the word into the file.
THEOREM RefusedStaysOut == Spec => []NoRefusedWords
<1>1. Init => NoRefusedWords
  BY DEF Init, NoRefusedWords
<1>2. TypeOK /\ NoRefusedWords /\ [Next]_vars => NoRefusedWords'
  <2> SUFFICES ASSUME TypeOK, NoRefusedWords, [Next]_vars PROVE NoRefusedWords'
    OBVIOUS
  <2> USE DEF TypeOK, NoRefusedWords
  <2>1. ASSUME NEW p \in Proc, Load(p) PROVE NoRefusedWords'
    BY <2>1 DEF Load, LoadOpen, LoadOld, LoadLock, LoadRead, LoadStamp
  <2>2. ASSUME NEW p \in Proc, NEW w \in Words, Add(p, w) PROVE NoRefusedWords'
    BY <2>2 DEF Add
  <2>3. ASSUME NEW p \in Proc, SaveOpen(p) \/ Save(p) PROVE NoRefusedWords'
    BY <2>3 DEF SaveOpen, Save, SaveCreate, SaveLock, Update, SaveSkipUpdate, SaveUpdate,
                SaveUpdateFails, SaveTruncate, SaveWrite, SaveWriteShort, SaveStamp
  <2>4. ASSUME NEW p \in Proc, Exit(p) \/ Crash(p) PROVE NoRefusedWords'
    BY <2>4 DEF Exit, Crash, Forget
  <2>5. CASE Tick \/ UNCHANGED vars
    BY <2>5 DEF Tick, vars, procVars
  <2> QED BY <2>1, <2>2, <2>3, <2>4, <2>5 DEF Next
<1> QED BY <1>1, <1>2, TypeCorrect, PTL DEF Spec

\* Whoever can read the old-format file refuses no word, so that no merge fails on one.
\* Without this the code does lose words: merge() clears the list on a refused word, and the
\* save goes on because the list came from the old file.
OldFileIsForAll == \A p \in Proc : OldWords \subseteq Accepts[p] => Accepts[p] = Words

\* What the process that removes the old-format file relies on: while
\* compatibility_file_name is set its list has the words of that file, and what it has
\* just written is still in the file, unless a full disk or a late fopen spoilt it.
MigrationInv ==
  /\ disk # "full" => words = {}
  /\ \A p \in Proc :
       /\ compat[p] => /\ OldWords \subseteq mem[p] /\ Accepts[p] = Words
                       /\ pc[p] \notin {"off"} \cup Loading
       /\ pc[p] = "svStamp" => words = mem[p] \/ spoilt

\* Nobody else writes the file between a writer's last line and its stamp, and nobody
\* takes words out of the list of a process that came from the old-format file.
LEMMA MigrationInvStep ==
  ASSUME OldFileIsForAll, TypeOK, LockInv, MigrationInv, [Next]_vars
  PROVE  MigrationInv'
<1> USE DEF TypeOK, PCs, Loading, Saving, Goto, fileVars, procVars, history, MigrationInv
<1>1. ASSUME NEW p \in Proc, Load(p) PROVE MigrationInv'
  <2>1. CASE LoadOpen(p) \/ LoadLock(p) \/ LoadStamp(p)
    BY <2>1 DEF LoadOpen, LoadLock, LoadStamp
  <2>2. CASE LoadOld(p)
    <3>1. /\ \A q \in Proc \ {p} : compat'[q] = compat[q] /\ mem'[q] = mem[q]
          /\ \A q \in Proc \ {p} : pc'[q] = pc[q]
          /\ ~compat[p] /\ pc'[p] # "svStamp" /\ UNCHANGED <<disk, words, spoilt>>
          /\ \/ compat'[p] = compat[p]
             \/ OldWords \subseteq Accepts[p] /\ mem'[p] = OldWords /\ pc'[p] = "ready"
      BY <2>2 DEF LoadOld
    <3> QED BY <3>1 DEF OldFileIsForAll
  <2>3. CASE LoadRead(p)
    BY <2>3 DEF LoadRead
  <2> QED BY <1>1, <2>1, <2>2, <2>3 DEF Load
<1>2. ASSUME NEW p \in Proc, NEW w \in Words, Add(p, w) PROVE MigrationInv'
  BY <1>2 DEF Add
<1>3. ASSUME NEW p \in Proc, SaveOpen(p) PROVE MigrationInv'
  BY <1>3 DEF SaveOpen
<1>4. ASSUME NEW p \in Proc, Save(p) PROVE MigrationInv'
  <2>1. CASE SaveLock(p) \/ SaveSkipUpdate(p) \/ SaveUpdate(p)
    BY <2>1 DEF SaveLock, SaveSkipUpdate, SaveUpdate
  <2>2. CASE SaveUpdateFails(p)
    <3>1. compat[p] => mem' = mem
      BY <2>2 DEF SaveUpdateFails
    <3>2. /\ UNCHANGED <<disk, words, spoilt, compat>>
          /\ pc'[p] \in {"svTruncate", "ready"}
          /\ \A q \in Proc \ {p} : pc'[q] = pc[q] /\ mem'[q] = mem[q]
      BY <2>2 DEF SaveUpdateFails
    <3> QED BY <3>1, <3>2
  <2>3. CASE SaveCreate(p)
    BY <2>3 DEF SaveCreate
  <2>4. CASE SaveTruncate(p)
    <3>1. \A q \in Proc : pc[q] # "svStamp"
      BY <2>4 DEF SaveTruncate, LockInv, Writers
    <3> QED BY <2>4, <3>1 DEF SaveTruncate
  <2>5. CASE SaveWrite(p)
    <3>1. \A q \in Proc : pc[q] # "svStamp"
      BY <2>5 DEF SaveWrite, LockInv, Writers
    <3> QED BY <2>5, <3>1 DEF SaveWrite
  <2>6. CASE SaveWriteShort(p)
    BY <2>6 DEF SaveWriteShort, WriteTorn
  <2>7. CASE SaveStamp(p)
    BY <2>7 DEF SaveStamp
  <2> QED BY <1>4, <2>1, <2>2, <2>3, <2>4, <2>5, <2>6, <2>7 DEF Save, Update
<1>5. ASSUME NEW p \in Proc, Exit(p) PROVE MigrationInv'
  BY <1>5 DEF Exit, Forget
<1>6. ASSUME NEW p \in Proc, Crash(p) PROVE MigrationInv'
  <2>1. pc[p] = "svWrite" => \A q \in Proc : pc[q] # "svStamp"
    BY DEF LockInv, Writers
  <2> QED BY <1>6, <2>1 DEF Crash, Forget, WriteTorn
<1>7. CASE Tick \/ UNCHANGED vars
  BY <1>7 DEF Tick, vars
<1> QED BY <1>1, <1>2, <1>3, <1>4, <1>5, <1>6, <1>7 DEF Next

\* The old-format file is only removed where its words are in the new one, or a full
\* disk or a late fopen has spoilt it: by the last step of a save, whoever dies before.
THEOREM MigrationIsSafe ==
  ASSUME OldFileIsForAll
  PROVE  Spec => MigrationKeepsOldWords
<1>1. Init => MigrationInv
  BY DEF Init, MigrationInv
<1>2. TypeOK /\ LockInv /\ MigrationInv /\ [Next]_vars => MigrationInv'
  BY MigrationInvStep
<1>3. MigrationInv /\ [Next]_vars
        => [(oldFile /\ ~oldFile') => (OldWords \subseteq words' \/ spoilt)]_vars
  <2> SUFFICES ASSUME MigrationInv, Next, oldFile, ~oldFile'
               PROVE  OldWords \subseteq words' \/ spoilt
    BY DEF vars
  <2>1. \E p \in Proc : SaveStamp(p)
    BY DEF Next, Load, LoadOpen, LoadOld, LoadLock, LoadRead, LoadStamp, Add, SaveOpen, Save,
           SaveCreate, SaveLock, Update, SaveSkipUpdate, SaveUpdate, SaveUpdateFails,
           SaveTruncate, SaveWrite, SaveWriteShort, Exit, Crash, Tick, fileVars
  <2> QED BY <2>1 DEF SaveStamp, MigrationInv
<1> QED BY <1>1, <1>2, <1>3, TypeCorrect, LocksExclude, PTL DEF Spec, MigrationKeepsOldWords

-----------------------------------------------------------------------------
\* No step of load or save takes a word out of both the file and its rewriter's list.
LEMMA AckInvStep ==
  ASSUME Safe, TypeOK, LockInv, FileInv, ListInv, AckInv, [Next]_vars
  PROVE  AckInv'
<1> USE DEF TypeOK, PCs, Loading, Saving, Goto, fileVars, procVars, history, AckInv
<1>1. ASSUME NEW p \in Proc, Load(p) PROVE AckInv'
  BY <1>1 DEF Load, LoadOpen, LoadOld, LoadLock, LoadRead, LoadStamp
<1>2. ASSUME NEW p \in Proc, NEW w \in Words, Add(p, w) PROVE AckInv'
  BY <1>2 DEF Add
<1>3. ASSUME NEW p \in Proc, SaveOpen(p) PROVE AckInv'
  BY <1>3 DEF SaveOpen
<1>4. ASSUME NEW p \in Proc, Save(p) PROVE AckInv'
  <2>1. CASE SaveLock(p) \/ Update(p)
    BY <2>1 DEF SaveLock, Update, SaveSkipUpdate, SaveUpdate, SaveUpdateFails
  <2>2. CASE SaveTruncate(p)
    <3>1. \A q \in Proc : pc[q] # "svWrite"
      BY <2>2, WriterAlone DEF SaveTruncate, Writers
    <3>2. words \subseteq mem[p]
      BY <2>2 DEF ListInv, SaveTruncate
    <3> QED BY <2>2, <3>1, <3>2 DEF SaveTruncate
  <2>3. CASE SaveWrite(p)
    <3>1. \A q \in Proc : pc[q] = "svWrite" => q = p
      BY <2>3 DEF SaveWrite, LockInv, Writers
    <3>2. words = {}
      BY <2>3 DEF SaveWrite, FileInv
    <3> QED BY <2>3, <3>1, <3>2 DEF SaveWrite
  <2>4. CASE SaveStamp(p)
    <3>1. words = mem[p]
      BY <2>4 DEF ListInv, SaveStamp
    <3> QED BY <2>4, <3>1 DEF SaveStamp
  <2> QED BY <1>4, <2>1, <2>2, <2>3, <2>4
          DEF Save, SaveCreate, SaveWriteShort, FileInv, Safe, Intact
<1>5. ASSUME NEW p \in Proc, Exit(p) PROVE AckInv'
  BY <1>5 DEF Exit, Forget
<1>6. CASE UNCHANGED vars
  BY <1>6 DEF vars
<1> QED BY <1>1, <1>2, <1>3, <1>4, <1>5, <1>6 DEF Next, Crash, Tick, Safe, Intact

\* In the intended setting no interleaving of loads and saves, by any number
\* of processes, loses a word that a successful save included.
THEOREM AckedWordsAreDurable ==
  ASSUME Safe
  PROVE  Spec => []AckedWordsSurvive
<1>1. Init => AckInv
  BY DEF Init, AckInv
<1>2. TypeOK /\ LockInv /\ FileInv /\ ListInv /\ AckInv /\ [Next]_vars => AckInv'
  BY AckInvStep
<1>3. AckInv => AckedWordsSurvive
  <2> SUFFICES ASSUME AckInv, NEW w \in acked PROVE w \in Durable
    BY DEF AckedWordsSurvive
  <2>1. CASE w \in words
    BY <2>1 DEF Durable
  <2>2. ASSUME NEW p \in Proc, pc[p] = "svWrite", w \in mem[p] PROVE w \in Durable
    BY <2>2 DEF Durable
  <2> QED BY <2>1, <2>2 DEF AckInv
<1>4. Intact
  BY DEF Safe
<1> QED BY <1>1, <1>2, <1>3, <1>4, TypeCorrect, LocksExclude, FileInvariant,
           ListInvariant, PTL DEF Spec

-----------------------------------------------------------------------------
\* Durable in the two situations a step can start from or lead to.
LEMMA DurableIdle ==
  ASSUME \A p \in Proc : pc[p] # "svWrite"
  PROVE  Durable = words
  BY DEF Durable

\* While a file is being written, what counts as saved is what its writer is about to write.
LEMMA DurableRewriting ==
  ASSUME NEW p \in Proc, pc[p] = "svWrite", words = {},
         \A q \in Proc : pc[q] = "svWrite" => q = p
  PROVE  Durable = mem[p]
  BY DEF Durable

\* A step that leaves alone the file and every list of a writer leaves Durable.
LEMMA DurableUnchanged ==
  ASSUME words' = words,
         \A p \in Proc : pc'[p] = "svWrite" <=> pc[p] = "svWrite",
         \A p \in Proc : pc[p] = "svWrite" => mem'[p] = mem[p]
  PROVE  Durable' = Durable
  BY DEF Durable

\* An object that has not been loaded yet holds no words.
FreshInv == \A p \in Proc : pc[p] \in {"off", "ldOld", "ldLock", "ldRead"} => mem[p] = {}

\* A load starts from an empty list.
LEMMA FreshInvariant == Spec => []FreshInv
<1>1. Init => FreshInv
  BY DEF Init, FreshInv
<1>2. TypeOK /\ FreshInv /\ [Next]_vars => FreshInv'
  <2> SUFFICES ASSUME TypeOK, FreshInv, [Next]_vars PROVE FreshInv'
    OBVIOUS
  <2> USE DEF TypeOK, PCs, Loading, Saving, Goto, FreshInv
  <2>1. ASSUME NEW p \in Proc, Load(p) PROVE FreshInv'
    BY <2>1 DEF Load, LoadOpen, LoadOld, LoadLock, LoadRead, LoadStamp
  <2>2. ASSUME NEW p \in Proc, NEW w \in Words, Add(p, w) PROVE FreshInv'
    BY <2>2 DEF Add
  <2>3. ASSUME NEW p \in Proc, SaveOpen(p) \/ Save(p) PROVE FreshInv'
    BY <2>3 DEF SaveOpen, Save, SaveCreate, SaveLock, Update, SaveSkipUpdate,
                SaveUpdate, SaveUpdateFails, SaveTruncate, SaveWrite,
                SaveWriteShort, SaveStamp
  <2>4. ASSUME NEW p \in Proc, Exit(p) \/ Crash(p) PROVE FreshInv'
    BY <2>4 DEF Exit, Crash, Forget
  <2>5. CASE Tick \/ UNCHANGED vars
    BY <2>5 DEF Tick, vars, procVars
  <2> QED BY <2>1, <2>2, <2>3, <2>4, <2>5 DEF Next
<1> QED BY <1>1, <1>2, TypeCorrect, PTL DEF Spec

\* Every step is one of the shared list, or invisible to it.
LEMMA RefinementStep ==
  ASSUME Safe, TypeOK, LockInv, FileInv, ListInv, FreshInv, [Next]_vars
  PROVE  [Abstract!Next]_(Abstract!vars)
<1> USE DEF TypeOK, PCs, Loading, Saving, Goto, fileVars, procVars, history, Abstract!vars
<1>1. ASSUME NEW p \in Proc, Load(p) PROVE [Abstract!Next]_(Abstract!vars)
  <2>1. Durable' = Durable
    BY <1>1, DurableUnchanged
       DEF Load, LoadOpen, LoadOld, LoadLock, LoadRead, LoadStamp
  <2>2. CASE LoadRead(p) /\ disk = "full" /\ words \subseteq Accepts[p]
    <3>1. Durable = words
      <4>1. \A q \in Proc : pc[q] # "svWrite"
        BY <2>2 DEF LoadRead, LockInv, Readers, Writers
      <4> QED BY <4>1, DurableIdle
    <3>2. mem' = [mem EXCEPT ![p] = mem[p] \cup Durable]
      BY <2>2, <3>1 DEF LoadRead, FreshInv
    <3> QED BY <2>1, <3>2 DEF Abstract!Next, Abstract!Refresh
  <2>3. CASE ~(LoadRead(p) /\ disk = "full" /\ words \subseteq Accepts[p])
    <3>1. mem' = mem
      BY <1>1, <2>3 DEF Load, LoadOpen, LoadOld, LoadLock, LoadRead, LoadStamp, FileInv
    <3> QED BY <2>1, <3>1
  <2> QED BY <2>2, <2>3
<1>2. ASSUME NEW p \in Proc, NEW w \in Words, Add(p, w)
      PROVE  [Abstract!Next]_(Abstract!vars)
  <2>1. Durable' = Durable
    BY <1>2, DurableUnchanged DEF Add
  <2> QED BY <1>2, <2>1 DEF Add, Abstract!Next, Abstract!Learn
<1>3. ASSUME NEW p \in Proc, Save(p) PROVE [Abstract!Next]_(Abstract!vars)
  <2>1. CASE SaveLock(p) \/ SaveSkipUpdate(p) \/ SaveStamp(p)
    <3>1. Durable' = Durable
      BY <2>1, DurableUnchanged DEF SaveLock, SaveSkipUpdate, SaveStamp
    <3> QED BY <2>1, <3>1 DEF SaveLock, SaveSkipUpdate, SaveStamp
  <2>2. CASE SaveUpdate(p)
    <3>1. Durable' = Durable
      BY <2>2, DurableUnchanged DEF SaveUpdate
    <3>2. Durable = words
      <4>1. \A q \in Proc : pc[q] # "svWrite"
        BY <2>2, WriterAlone DEF SaveUpdate, Writers
      <4> QED BY <4>1, DurableIdle
    <3> QED BY <2>2, <3>1, <3>2 DEF SaveUpdate, Abstract!Next, Abstract!Refresh
  <2>3. CASE SaveTruncate(p)
    <3>1. \A q \in Proc : pc[q] # "svWrite"
      BY <2>3, WriterAlone DEF SaveTruncate, Writers
    <3>2. Durable = words
      BY <3>1, DurableIdle
    <3>3. Durable' = mem'[p]
      BY <2>3, <3>1 DEF SaveTruncate, Durable
    <3>4. words \subseteq mem[p] /\ mem' = mem
      BY <2>3 DEF SaveTruncate, ListInv
    <3> QED BY <3>2, <3>3, <3>4 DEF Abstract!Next, Abstract!Publish
  <2>4. CASE SaveWrite(p)
    <3>1. \A q \in Proc : pc[q] = "svWrite" => q = p
      BY <2>4 DEF SaveWrite, LockInv, Writers
    <3>2. Durable = mem[p]
      BY <2>4, <3>1, DurableRewriting DEF SaveWrite, FileInv
    <3>3. Durable' = mem[p]
      BY <2>4, <3>1 DEF SaveWrite, Durable
    <3> QED BY <2>4, <3>2, <3>3 DEF SaveWrite
  <2>5. CASE SaveUpdateFails(p)
    <3>1. Accepts[p] = Words
      BY DEF Safe
    <3>2. pc[p] = "svUpdate" => disk = "full"
      BY WriterAlone DEF Writers, FileInv
    <3> QED BY <2>5, <3>1, <3>2 DEF SaveUpdateFails
  <2> QED BY <1>3, <2>1, <2>2, <2>3, <2>4, <2>5
          DEF Save, Update, SaveCreate, SaveWriteShort, FileInv, Safe, Intact
<1>4. ASSUME NEW p \in Proc, SaveOpen(p) PROVE [Abstract!Next]_(Abstract!vars)
  <2>1. Durable' = Durable
    BY <1>4, DurableUnchanged DEF SaveOpen
  <2> QED BY <1>4, <2>1 DEF SaveOpen
<1>5. ASSUME NEW p \in Proc, Exit(p) PROVE [Abstract!Next]_(Abstract!vars)
  <2>1. Durable' = Durable
    BY <1>5, DurableUnchanged DEF Exit, Forget
  <2> QED BY <1>5, <2>1 DEF Exit, Forget, Abstract!Next, Abstract!Leave
<1>6. CASE UNCHANGED vars
  <2>1. Durable' = Durable
    BY <1>6, DurableUnchanged DEF vars
  <2> QED BY <1>6, <2>1 DEF vars
<1>7. CASE Tick
  <2>1. Durable' = Durable
    BY <1>7, DurableUnchanged DEF Tick, procVars
  <2> QED BY <1>7, <2>1 DEF Tick, procVars
<1> QED BY <1>1, <1>2, <1>3, <1>4, <1>5, <1>6, <1>7 DEF Next, Crash, Safe, Intact

\* In the intended setting the processes that share a dictionary file behave
\* as if they shared one list of words that only ever grows: WritableDict
\* implements SharedWordList.
THEOREM Refinement ==
  ASSUME Safe
  PROVE  Spec => ImplementsSharedWordList
<1>1. Init => Abstract!Init
  <2> SUFFICES ASSUME Init PROVE Abstract!Init
    OBVIOUS
  <2>1. Durable = words
    BY DurableIdle DEF Init
  <2> QED BY <2>1 DEF Init, Abstract!Init
<1>2. TypeOK /\ LockInv /\ FileInv /\ ListInv /\ FreshInv /\ [Next]_vars
        => [Abstract!Next]_(Abstract!vars)
  BY RefinementStep
<1>3. Intact
  BY DEF Safe
<1> QED BY <1>1, <1>2, <1>3, TypeCorrect, LocksExclude, FileInvariant,
           ListInvariant, FreshInvariant, PTL
        DEF Spec, ImplementsSharedWordList, Abstract!Spec
=============================================================================
