------------------------------- MODULE Config -------------------------------
(***************************************************************************)
(* Options (common/config.cpp).  A configuration is a list of entries in   *)
(* the order they take effect, with an insertion point: configuration      *)
(* files are read last and inserted in front, because the command line     *)
(* says where they are.  A value is looked up by walking the list.         *)
(*                                                                         *)
(* Two objects follow a configuration by Notifiers: the filter modes,      *)
(* which expand the option mode into the filters of that mode, and the     *)
(* speller that owns the configuration.  Both call back into it, so a      *)
(* commit inserts entries of its own.                                      *)
(*                                                                         *)
(* Every operation is a function of the configuration: nothing runs        *)
(* between two of its steps.  Six options stand for the kinds there are.   *)
(***************************************************************************)
EXTENDS Integers, Sequences, FiniteSets, SequencesExt

CONSTANTS ModeFilters, \* the filters of every installed mode, in order
          BrokenModes  \* the modes with an option that is refused

ASSUME BrokenAssumption == BrokenModes \subseteq DOMAIN ModeFilters
ASSUME ModesAssumption == /\ DOMAIN ModeFilters \subseteq STRING
                          /\ \A m \in DOMAIN ModeFilters : ModeFilters[m] \in Seq(STRING)
                          /\ "url" \in DOMAIN ModeFilters

\* Texts sscanf("%i") reads as a number, and what atoi makes of them.
IntTexts == {"2", "8", "9", "0x3"}
Scanned == [t \in IntTexts |-> CASE t = "2" -> 2 [] t = "8" -> 8 [] t = "9" -> 9
                                 [] t = "0x3" -> 3]
Atoi == [t \in IntTexts |-> IF t = "0x3" THEN 0 ELSE Scanned[t]]
LimitMax == 8

Scalars == {"mode", "keyboard", "ignore-case", "run-together-limit"}
Lists == {"filter", "extra-dicts"}
Keys == Scalars \cup Lists

Default(k) == CASE k = "mode" -> "url"
                [] k = "keyboard" -> "standard"
                [] k = "ignore-case" -> "false"
                [] k = "run-together-limit" -> "2"
                [] k = "filter" -> <<"url">>
                [] k = "extra-dicts" -> <<>>

\* A request is an option as it is written: prefix, name and value ("" if none; of
\* lset, a list).
OptionPrefixes == {"", "enable", "disable", "reset", "add", "rem", "clear"}
Request == [prefix : OptionPrefixes, key : STRING, value : STRING]
           \cup [prefix : {"lset"}, key : STRING, value : Seq(STRING)]

NoValuePrefixes == {"reset", "enable", "disable", "clear"}

Action(prefix) == CASE prefix \in {"", "enable", "disable"} -> "Set"
                    [] prefix = "reset" -> "Reset"
                    [] prefix = "add" -> "ListAdd"
                    [] prefix = "rem" -> "ListRemove"
                    [] prefix = "clear" -> "ListClear"

ValueOf(r) == CASE r.prefix = "enable" -> "true"
                [] r.prefix = "disable" -> "false"
                [] OTHER -> r.value

NewEntry(key, action, value) == [key |-> key, action |-> action, value |-> value]

\* What a speller keeps of its options beside the configuration, the two whose
\* values are not just stored: the limit is capped, a missing truth value is true.
Followed == {"run-together-limit", "ignore-case"}

\* A configuration; "told" is what the speller attached to it was told last of the
\* options it follows, "failed" the outcome of the last operation.
NewConfig == [entries |-> <<>>, insertPoint |-> 0, committed |-> TRUE,
              settingsRead |-> FALSE, attached |-> FALSE,
              told |-> [k \in Followed |-> "nothing"], failed |-> FALSE]

-----------------------------------------------------------------------------
(* Looking values up.                                                      *)

AddTo(list, v) == IF Contains(list, v) THEN list ELSE Append(list, v)
AddAll(items) == FoldLeft(LAMBDA list, v : AddTo(list, v), <<>>, items)
RemoveFrom(list, v) ==
    FoldLeft(LAMBDA kept, w : IF w = v THEN kept ELSE Append(kept, w), <<>>, list)

EntriesOf(c, k) == {i \in DOMAIN c.entries : c.entries[i].key = k}

\* Config::lookup: the last entry, unless it resets.
Lookup(c, k) ==
    LET at == {i \in EntriesOf(c, k) : c.entries[i].action # "NoOp"}
    IN  IF at = {} \/ c.entries[Max(at)].action = "Reset" THEN {}
        ELSE {c.entries[Max(at)]}

Retrieve(c, k) == LET found == Lookup(c, k)
                  IN  IF found = {} THEN Default(k)
                      ELSE (CHOOSE e \in found : TRUE).value

\* Config::lookup_list.  The entry to start from is the last that decides the
\* whole list.
Deciding(c, k) == {i \in EntriesOf(c, k) :
                     c.entries[i].action \in {"Reset", "Set", "ListClear"}}
StartOf(deciding, mine, nowhere) ==
    IF deciding # {} THEN Max(deciding) ELSE IF mine # {} THEN Min(mine) ELSE nowhere

ActionAt(c, i) == IF i \in DOMAIN c.entries THEN c.entries[i].action ELSE "NoOp"

\* The entries of the list from place i on, whose key, at i, is not looked at.
Edit(list, e, k) ==
    CASE e.key = k /\ e.action = "ListAdd" -> AddTo(list, e.value)
      [] e.key = k /\ e.action = "ListRemove" -> RemoveFrom(list, e.value)
      [] OTHER -> list
Edits(base, entries, k) == FoldLeft(LAMBDA list, e : Edit(list, e, k), base, entries)
EditFrom(c, k, i, base) ==
    Edits(IF ActionAt(c, i) = "Set" THEN AddTo(base, c.entries[i].value) ELSE base,
          SubSeq(c.entries, i, Len(c.entries)), k)

\* After an entry that resets, the one that follows is taken for one of this option
\* (config.cpp:416-424).
ListFrom(c, k, start) ==
    EditFrom(c, k, IF ActionAt(c, start) = "Reset" THEN start + 1 ELSE start,
             IF ActionAt(c, start) \in {"Set", "ListClear"} THEN <<>> ELSE Default(k))
LookupList(c, k) ==
    ListFrom(c, k, StartOf(Deciding(c, k), EntriesOf(c, k), Len(c.entries) + 1))

Value(c, k) == IF k \in Lists THEN LookupList(c, k) ELSE Retrieve(c, k)

-----------------------------------------------------------------------------
(* Setting them.                                                           *)

Insert(c, e) ==
    [c EXCEPT !.entries = SubSeq(@, 1, c.insertPoint) \o <<e>>
                          \o SubSeq(@, c.insertPoint + 1, Len(@)),
              !.insertPoint = @ + 1]

\* What commit refuses before anyone is notified.
Legal(e) ==
    /\ e.key \in Keys
    /\ e.key \notin Lists => e.action \in {"Set", "Reset"}
    /\ (e.key = "ignore-case" /\ e.action = "Set") => e.value \in {"", "true", "false"}
    /\ (e.key = "run-together-limit" /\ e.action = "Set") => e.value \in IntTexts

\* clear-filter, then every filter of the mode.  Nobody refuses these entries.
AddFilters(c, filters) ==
    FoldLeft(LAMBDA d, f : Insert(d, NewEntry("filter", "ListAdd", f)), c, filters)
SwitchFilters(c, mode) ==
    AddFilters(Insert(c, NewEntry("filter", "ListClear", "")), ModeFilters[mode])

\* FilterMode::expand: the filters, which come first, and then options of the filters
\* themselves; one of those may be refused.
Expand(c, mode) ==
    [SwitchFilters(c, mode) EXCEPT !.failed = @ \/ mode \in BrokenModes]

\* ModeNotifierImpl::item_updated.
NotifyMode(c, mode) ==
    IF mode \in DOMAIN ModeFilters THEN Expand(c, mode)
    ELSE [c EXCEPT !.failed = TRUE]

\* ConfigNotifier: the speller, if there is one, is told of option k.
Tell(c, k, value) == IF c.attached THEN [c EXCEPT !.told[k] = value] ELSE c

NotifyCase(c, text) == Tell(c, "ignore-case", text # "false")

\* run_together_limit comes back with a replace of its own.
NotifyLimitUncapped(c, text) == Tell(c, "run-together-limit", Scanned[text])
NotifyLimit(c, text) ==
    IF c.attached /\ Scanned[text] > LimitMax
    THEN Tell(Insert(c, NewEntry("run-together-limit", "Set", "8")),
              "run-together-limit", LimitMax)
    ELSE Tell(c, "run-together-limit", Scanned[text])

\* Config::commit of the entry before the insertion point.
Commit(c) ==
    LET at == c.insertPoint
        e == c.entries[at]
        value == IF e.action = "Reset" THEN Default(e.key) ELSE e.value
    IN  CASE ~Legal(e) -> [c EXCEPT !.entries[at].action = "NoOp", !.failed = TRUE]
          [] Legal(e) /\ e.key = "mode" -> NotifyMode(c, value)
          [] Legal(e) /\ e.key = "run-together-limit" -> NotifyLimit(c, value)
          [] Legal(e) /\ e.key = "ignore-case" ->
                NotifyCase([c EXCEPT !.entries[at].value = IF value = "" THEN "true" ELSE @],
                           value)
          [] OTHER -> c

InsertAndCommit(c, e) ==
    LET d == Insert(c, e) IN IF d.committed THEN Commit(d) ELSE d

\* Config::set of a request.
SetOne(c, r) ==
    IF r.prefix \in NoValuePrefixes /\ r.value # "" THEN [c EXCEPT !.failed = TRUE]
    ELSE InsertAndCommit(c, NewEntry(r.key, Action(r.prefix), ValueOf(r)))

AddItems(c, k, items) ==
    FoldLeft(LAMBDA d, v : InsertAndCommit(d, NewEntry(k, "ListAdd", v)), c, items)
SetAll(c, r) ==
    LET cleared == InsertAndCommit(c, NewEntry(r.key, "ListClear", ""))
    IN  IF cleared.failed THEN cleared ELSE AddItems(cleared, r.key, r.value)

SetEntry(c, r) == IF r.prefix = "lset" THEN SetAll(c, r) ELSE SetOne(c, r)

Set(c, r) == SetEntry([c EXCEPT !.failed = FALSE], r)

\* Config::commit_all: every entry is committed as if it had just been set, and
\* the first error is returned after the others had their turn.
Recommit(d, e) ==
    LET done == Commit(Insert([d EXCEPT !.failed = FALSE], e))
    IN  [done EXCEPT !.failed = @ \/ d.failed]
RecommitAll(c, entries) == FoldLeft(LAMBDA d, e : Recommit(d, e), c, entries)
CommitAll(c) ==
    RecommitAll([c EXCEPT !.entries = <<>>, !.insertPoint = 0, !.committed = TRUE],
                c.entries)

\* Config::merge into a configuration that is not committed, of some others.
MergeEntries(c, entries) ==
    FoldLeft(LAMBDA d, e : IF e.action = "NoOp" THEN d ELSE Insert(d, e), c, entries)
Merge(c, others) == FoldLeft(LAMBDA d, o : MergeEntries(d, o.entries), c, others)

\* Config::copy: notifiers that do not clone themselves stay behind.
Copy(other) == [other EXCEPT !.insertPoint = Len(other.entries),
                             !.attached = FALSE]

\* read_in_file or read_in_string: in front of all there is; the rest of a file
\* is not read after a bad line.
ReadAtEnd(c, requests) ==
    FoldLeft(LAMBDA d, r : IF d.failed THEN d ELSE SetEntry(d, r), c, requests)
ReadIn(c, requests) == ReadAtEnd([c EXCEPT !.insertPoint = 0], requests)
ReadFiles(c, files) == FoldLeft(LAMBDA d, f : IF d.failed THEN d ELSE ReadIn(d, f), c, files)

\* Config::read_in_settings; files in the order they are read: environment,
\* personal and main configuration.
ReadInSettings(c, others, files) ==
    LET open == [c EXCEPT !.committed = FALSE, !.failed = FALSE]
        read == ReadFiles(Merge(open, others), files)
        done == IF c.committed /\ ~read.failed THEN CommitAll(read) ELSE read
    IN  CASE c.settingsRead -> c
          [] ~c.settingsRead /\ \E i \in DOMAIN others : others[i].settingsRead ->
                Copy(others[1])
          [] OTHER -> [done EXCEPT !.settingsRead = ~done.failed]

\* SpellerImpl::setup: what the speller follows, and the ConfigNotifier.
SetupSpeller(c) ==
    LET limit == Atoi[Retrieve(c, "run-together-limit")]
        d == IF limit > LimitMax
             THEN Set(c, [prefix |-> "", key |-> "run-together-limit", value |-> "8"])
             ELSE c
    IN  [d EXCEPT !.attached = TRUE,
                  !.told = [k \in Followed |->
                              IF k = "ignore-case" THEN Retrieve(c, k) = "true"
                              ELSE IF limit > LimitMax THEN LimitMax ELSE limit]]
=============================================================================
