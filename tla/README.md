# Verification of GNU Aspell

TLA+ models of the parts of GNU Aspell whose behaviour depends on the order of
events, on several actors or on a long history of calls, and of its algorithms
(filters, affixes, distances, dictionaries, suggestions, encodings) over bounded
inputs; TLC configurations that check them on small instances; and TLAPS proofs
about eight of them: the shared files, the caches, a speller's dictionaries, the
replacement memory, the settings, the checking of words and of a file, and the
filters of a pipe session. Line numbers are those of the repository this directory
belongs to.

Run from this directory:

    tlc -config WritableDict_safe.cfg MCWritableDict
    tlapm WritableDict_proofs.tla

`PROJECT.json` has the machine-readable side: which lines each definition
stands for (`map`), the runs, a mutant for every checked property (a plausible
bug in the code that the property notices), the hazards and the theorems.

## The system

| component | state it keeps | operations | what makes it correct |
|---|---|---|---|
| personal dictionary and replacement files (`writable.cpp`, `file_util.cpp`) | per process: word table, `cur_file_date`, old-format name; shared: the file, its time stamp, fcntl locks | load, add, save (lock, stat, merge, truncate, write, stat) | no saved word is lost; nobody reads half a file; a matching time stamp means nothing is missing |
| caches (`cache.*`, `lock.hpp`) | lists of reference-counted objects, a mutex each | get, copy, release, reset | counts equal holders; nothing dangles, leaks or is loaded twice; locks do not deadlock |
| a speller's dictionaries (`speller_impl.cpp`, `data.cpp`, `multi_ws.cpp`) | `dicts_`, `to_add`, references | setup, add_data_set, save_all_word_lists, destruction | every reference has one owner, also after errors; one language; a save that reports success is complete |
| replacement memory (`store_replacement`, `add_repl`) | list of pairs, `prev_mis_repl_`, `prev_cor_repl_` | store a replacement, change the session list | pairs mean what the user did |
| configuration (`config.cpp`, `string_list.cpp`, `new_fmode.cpp`) | entry list, insertion point, `committed_`, notifiers | set, replace, remove, read files, commit, copy, merge | values follow the documented precedence; notified objects agree with it |
| checking of words (`speller_impl.cpp`, `language.cpp`) | `check_inf[8]` | check, check_runtogether, split_word, check_info | accepted exactly if made of accepted parts; the chain explains the word |
| document checker, tokenizer | current line, token, offsets | process, next_misspelling, reset | every word reported once, at its place in the unfiltered line |
| filters (`modules/filter`) | a stack or a mode that outlives the line | process, reset | what is masked does not depend on where lines are cut; text after markup is checked again |
| pipe mode (`prog/aspell.cpp`) | terse/verbose, options, filters, the speller | one command or text line at a time | one reply per word, in order, with the right place |
| interactive checking (`check_funs`, `checker_string`) | ring of lines, cursor, replacements | replace, ignore, abort, backup | the output is the input with the chosen replacements |
| affixes and word lists (`affix.cpp`, `prog/aspell.cpp`, `myspell/munch.c`, `prog/prezip.c`, `prog/compress.c`) | lists of affix entries with links; tables of a munching | read, expand, check, munch, munch-list, combine, compress | what is munched expands to what was listed; checking undoes expanding; a list is read as it was compressed |
| suggestions (`suggest.cpp`, `*editdist*`, `phonet*`, `readonly_ws.cpp`) | near misses, limits, hints of the last distance | create a dictionary, look up, scan, score, list | nothing near is missed; only words are suggested |
| conversion (`convert.cpp`) | tables of an encoding | decode, encode, normalize | longest sequences; widths are kept |
| C interface, streams, strings, containers, scripts, data | none of interest | | |

How they interact: a program (or `prog/aspell.cpp`) makes a *configuration*,
and from it a *speller* (`new_speller` chooses a dictionary and gives the
speller a configuration of its own, which both may go on changing; notifiers
call back in both directions). The speller gets read-only dictionaries and the
language from process-wide *caches*, makes its personal, session and
replacement *dictionaries*, which are files shared with other processes, and
answers checks. Above it the *document checker* runs the *filters* and the
tokenizer over each line.

Hard to test are: several processes on one file (with crashes and coarse time
stamps); several threads on one cache, with loading nested in loading; error
exits in the middle of `setup`; a configuration whose commits insert further
entries; memory that outlives a call (`check_inf`, `prev_mis_repl_`, filter
state). `PROJECT.json` lists each with its line under `hazards`.

## Modules

`SharedWordList` is the abstract specification of a personal dictionary: every
process has a view of one list, refreshes it and publishes it back, and
publishing never drops a word. `WritableDict` is the code. A step is one call
another process can overtake (`pc` names the places between them): `LoadOpen`
... `LoadStamp` are `WritableBase::load`, `SaveOpen` ... `SaveStamp` are
`save`, with `open_file_writelock`, `update` (= `merge`), `truncate_file`,
`save2` and the final `stat`. Locks are functions of `pc` because they go away
with the `FStream` object on every path. Constants switch on what the
environment does: whether the file exists, whether two modifications can carry
the same time stamp (`Coarse`), which words a process refuses, and the faults
(`crash`, `disk_full`). An uninitialised `cur_file_date` is `Unset`, a
comparison with which goes either way. What a full disk leaves of the file is
torn: empty, cut off between two words or within one, or (`"bad"`) within the head
line, so that nobody can read it any more. An `fopen` that fails changes nothing
and ends the call: it is a step in which everything stays as it is. The history
`spoilt` says that the words of the old-format list have been lost from the new file
by what the code does not look at: a full disk, or the `fopen` with `w+` of a process
that had found no file.
`WritableDict_proofs` has the theorems.

`GlobalCache` gives every thread a stack of calls. A frame is one of
`get_cache_data` (also the open-coded form in `add_data_set`), `Cacheable::copy`,
`release`, `reset_cache`; a label in it is a point where other threads run.
`get` of a dictionary calls `get` of its language while it holds the lock of
its own cache, and so does deletion. Addresses are reused at once.

`SpellerDicts` follows one `SpellerImpl` from `setup` through saving to its
destructor, and then another. `want` and `got` are the argument and the result
of `add_data_set`; `loading` is the stack of multi dictionaries being read;
`toAdd` is the `DictList`; `refs` the reference counts. `lost` is a history of
the references that the code drops without releasing them: one per dictionary
that `add_dicts` finds to be a duplicate (speller_impl.cpp:561) and one for a
personal or replacement list that cannot be loaded (speller_impl.cpp:616).
Everything else has an owner. What may go wrong after the dictionaries are
there (a word list that cannot be read or has a word that is refused, conversions
and suggestions that cannot be made) ends `AddWordlists`, and all is given back.

`Replacements` is `store_replacement` with `add_repl`. The history `calls` has
what the user did; whether `suggest` already puts the correction first is open
and kept in `offered`.

`Config` has the operations of `Config` as functions of a configuration, since
nothing runs between two of their steps, with the callbacks of the filter modes
and of the speller. Six options stand for the kinds there are; the speller is
told of two of them, whose values are not just stored. A mode puts its filters
into the configuration and then options of those filters; the options are not
modelled, but one of them may be refused (`BrokenModes`), which is an error although
the filters are in. `Settings` has the state:
a user's configuration (of a library client or of the utility), the speller's
own, and the configuration files. `aspell check` takes the mode from the name of
the file to be checked if nobody asked for one (`SetModeFromExtension`); a name
is the sequence of its parts between dots. The properties compare every lookup
with `Meaning`, a left-to-right reading of the requests.

`CompoundWords` has `check`, `check_runtogether` and `split_word` over the
array of `CheckInfo`, which is kept from one check to the next.
`check_runtogether` calls itself for what is behind a piece, with the next place
of the array and one piece less; `Attempts` has its results for every end of the
word, place by place, from the last place to the first, and `TryCut` is one turn
of the loop over the prefixes. The reference definitions `Right` and
`RightCompound` say what is acceptable without array or backtracking: some way
to cut the word, or each of its parts, into listed pieces. `Ordinary` names where
the code is known to differ from that (see below). `ChecksSpec` is the behaviour
of a speller that only checks, for itself (`Check`) or for suggestions
(`CheckCounting`), while the user's words change. `Pipe` makes the same checks in
the course of a session, and is what TLC runs.

`CheckLoop` is the loop of `aspell check` over the ring of lines between the
two files (`text`), the tokenizer, and the end of it: saving, draining the
ring, renaming. A line is a sequence of characters. `copy` is the line as the
document checker got it, `diff` the correction of its places. The user is a
choice between the menu's entries; the display is a reader of further lines
(`LookAhead`). That the program may be killed at any moment needs no action,
since what it leaves behind is a property of every state. Each file of the end may
fail to be removed or renamed (`Fails`, noted in the history `failed`), and the next
is removed or renamed all the same, as in the code. The histories `doc`
and `edits` say what the text should be (`Corrected`); `PatchedTo` goes through a
line word by word, not through the list of replacements, so that their order
does not matter. Lines and the texts put into them have at least one character:
a line of a file has its newline, and aspell.cpp:1159 asks again for an empty
replacement.

`Filters` is the document checker's chain of filters over the lines of a
document, and over a second one after `reset`. Each filter is a function from
its state and a line to both again: `TexFilters` (TeX and Texinfo),
`NroffFilter`, `SgmlFilter` (with the decoder of character references),
`MarkdownFilter` (the blocks of a document, and the lines they read) and
`FilterText` (context, e-mail, URL, and a character, which is `[chr, width]` as
in `filter_char.hpp`). The properties compare the filters with readings of the whole
document (`TexDepth`, `SkipDepth`, `EnvOpen`, `ContextOpen`, `MarkdownOpen`).

`Language` has letters and case, stripping, the rules for special characters
and the cleaning of a list; `Affix` the affix file, its entries in linked lists,
expansion, checking and munching. `MunchList` is `aspell munch-list`, simple and
complete, and `combine`, and the program that came from MySpell. `Prezip` has the
two compressors of word lists.
`WordLists` runs them: a list is read, cleaned, expanded, munched in two orders
of the hash table, combined, and used as a dictionary.

`EditDistance` has the full, the limited and the typo distances; `Soundslike`
the four kinds of soundslike with the interpreter of phonet rules;
`ReadOnlyDict` how a compiled dictionary is made, looked up and gone through by
its two tables of jumps; `Suggest` the generators, scoring and sorting of
near misses. The words one edit away are made in one buffer that is changed in place
and put back, as in the code (`TryBuffer`). `SuggestWords` is one request after the other, stage by stage
(`Working::suggestions`). The reference for distances is `ScriptCost`, the least
cost of a sequence of edits.

`Convert` has the encodings: the lookup table, UTF-8 and the normalization
tables, all with the width of a character in the user's text. `Pipe` is the loop
of `aspell pipe`: every command is an action, `Text` is a line of text with all
its replies. It composes `Convert`, `CompoundWords` and `Config`, and has the
tokenizer with the begin, middle and end characters of words. A line is given
by its pieces, from which the properties say what the replies should be.
`PipeModes` is the part of it that changes options and filters, so that it can
be proved about. A session starts with a mode, a filter, both or neither on the
command line, the filter in front of the mode, and with the mode for nroff if it
is neither; filters given behind the mode are left out.

Which module builds on which: `Language` - `EditDistance` - `Soundslike` -
`ReadOnlyDict` (with `Affix`) - `Suggest` - `SuggestWords`; `Language` - `Affix`
- `MunchList` (with `Prezip`) - `WordLists`; `FilterText` - the filters -
`Filters`; `Config` - `PipeModes` - `Pipe` (with `CompoundWords` and `Convert`);
`Config` - `Settings`; `WritableDict` implements `SharedWordList`. The theorems of
a component are in its module of `*_proofs`; `NatInduction` is common to four
of them.

The `MC*` modules give the constants of these modules their values for TLC.

## Runs

| run | shows | bounds |
|---|---|---|
| `WritableDict_safe` | in the intended setting no acknowledged word is lost, nothing is overwritten, readers see whole files, and the file implements `SharedWordList` | 3 processes (two that conflict and one that reads between them), 2 words, 4 modifications |
| `WritableDict_faults` | with no file at first, an old-format list, crashes, a full disk and a word that one process refuses: a current stamp still means the words were read; no refused word enters a list; loads and saves end; the step that removes the old-format file leaves its words in the new one, on disk, unless a full disk or a late `w+` has taken them | 2 processes, 2 words |
| `GlobalCache_share` | exact counts, nothing dangling or leaked, one object per key, every call returns | 2 threads, 3 pointers, 2 dictionaries of one language, 4 addresses, reset of the dictionary cache |
| `SpellerDicts_setup` | every reference has an owner and parts of multi dictionaries stay alive; a reported save is complete; set-up ends | 2 spellers in a row, 10 files (nested, twice named, foreign, empty), 70 configurations, 12 addresses |
| `Replacements_memory` | only what the user meant is learnt, and the first of a chain is | 4 tokens, 6 corrections |
| `Settings_layers` | user's and speller's options are what the requests mean, the mode of a file included; the speller's limit and its indifference to case follow | 19 requests to the user's configuration, 9 to the speller's, an unknown mode and one with a refused option among them, 5 sets of files, 3 names of files and 2 modes with magic lines |
| `CheckLoop_files` | document, ring and output always make up the corrected text; the word shown is the word found; a whole copy of the text exists at every moment, whichever file cannot be removed or renamed; the loop comes back to the user | 3 documents of up to 4 lines, a ring of 3, 2 words listed, 1 learnt |
| `Filters_documents` | what is checked does not depend on how a document is cut; widths add up; a plain line is checked exactly when no markup before it hides it; counters of nested markup agree with what is open | 8 modes, 3 to 9 lines each, documents of 3 lines, one after another |
| `WordLists_munch` | the links of the affix lists lose nothing; a munched list has the words it was made from, compressed or not; checking accepts what expanding produces | 5 affix files (3 of them refused), 36 lists, both orders of the hash table, words of 1 to 5 letters checked; 4 more texts to compress, with control characters, blanks, words that share 29 to 285 bytes and one too long; files cut by 1, 2, 9 and 60 bytes |
| `WordLists_partial` (violation) | partial expansion drops a flag that was not expanded | one more affix file and list |
| `Suggest_scan` | the limited distances are exact; a scan by jumps and hints misses no word that sounds alike; no word one edit away is missed; what is suggested would be accepted | 6 spellers, 5 modes, words of 3 to 6 letters asked about, 26 listed |
| `Pipe_session` | words are accepted as documented and the array explains them; replies follow the words of a line with their places; the filters follow the mode; encoding finds the longest sequences | 4 lines of input, a text counting for two; 4 modes behind `+`, one of them unknown and one with an option that is refused, and 4 requests behind `$$cs`; words of 1 to 4 letters with accents written in two ways; an array of 5 |

Why the bounds are enough: conflicts over a file or an object need two actors,
and a third to see the state between; a lost update needs two words; a chain of
replacements needs three calls; precedence needs two layers and one request
that undoes another; the array of `check_inf` is full with as many parts as it
has places, so `Pipe_session` uses a smaller one; the ring of lines turns round
with a document longer than it is; markup that spans lines is opened, nested or
interrupted, and closed in three; prefixes and suffixes are crossed by two
flags, and the sets of the complete algorithm are joined by lists of two bases;
a scan skips by its first and its second letter and goes back in a dictionary
of some twenty words, with lists cut after 3 and 8 of them; a command changes
what the next line of text does, and a second one undoes it.

Deadlock is checked in all runs but those whose systems really stop: a
speller that was deleted for the last time, configurations after the last
request, a file that has been checked, documents, word lists and pipe sessions
that have come to their end.

### Fairness

`WritableDict!FairSpec`: a process inside load or save goes on (weak
fairness), since nothing in them waits except `F_SETLKW`; the kernel wakes
waiters in order, so a lock that keeps coming free is obtained (strong fairness
of the two lock steps). Starting a load or a save is never required.
`GlobalCache!FairSpec`: a thread inside a call takes its next step if it can
again and again; calls are never required. `SpellerDicts!FairSpec`: the single
thread runs on inside `setup`, `save_all_word_lists` and destructors; it need
not leave "ready". `CheckLoop!FairSpec`: the program runs on whenever it does
not wait for the user, who need never answer.

## Proofs

Each of the modules below proves, for every value of the constants, what the
run of its component checks on a small instance. They assume no more than the
named assumptions of the modules they are about, which TLC evaluates on the
instances: that constants have their types and that names of different things
differ. Where a theorem needs a setting, it is a hypothesis of the theorem.

### `WritableDict_proofs`

For any number of processes, words and modifications: `TypeCorrect`,
`LocksExclude` (a writer is alone) and `RefusedStaysOut`, in every setting,
crashes and a full disk included; `MigrationIsSafe` (the step that removes the
old-format file leaves its words in the new one, unless they were `spoilt`), where a
process that can read the old file refuses no word; `StampStandsForContents`, where every modification
has a time stamp of its own; `NoPartialRead`, if the file exists and nothing
fails (`Intact`); `NeverOverwrites`, `AckedWordsAreDurable` and `Refinement` (to
`SharedWordList`), in the intended setting (`Safe`: moreover time stamps differ
and every process accepts the same words).

None of the properties is inductive. The strengthening has layers: `LockInv`
(writers exclude everybody) is inductive with the types; `FileInv` (the file is
empty only between truncation and writing) needs it; `ListInv` (what a process
may rely on between taking a stamp and using it: stamps never exceed the file's,
an equal stamp means the words are there, a process about to truncate has them
all) needs both; `AckInv` (acknowledged words are in the file or in the hands of
the writer) needs all three. For the migration one needs that whoever has the old
name has the words, and that from its write to its removal of the old file the new
one has them too, since it keeps the lock. The refinement adds `FreshInv`: a process that has
not loaded holds nothing. Each assumption of `Safe` is needed: with stamps of
one second, or with no file at first, the code loses words, as the next section
says.

### `GlobalCache_proofs`

For any threads, caches, keys, objects and pointers, however deep the loading of
one object nests in that of another: `MutualExclusion`, `Counts` (the count of an
object is the number of pointers to it), `NothingDangles` (and nothing leaks) and
`OneObject` (no key is on a list twice). The invariant (`Invariant`) says what a
frame of a call may rely on at each of its labels while other threads run
(`FrameInv`), how the frames of a thread follow from one another (`ShapeInv`: an
inner call works on the member of the object its caller makes or deletes), and
that two frames past their lock never share a cache (`MutexInv`). The last one
is what makes the rest inductive: between looking a key up and adding the object
that was loaded for it (`cache-t.hpp`), and between the last decrement and the
deletion, no other thread can be in that cache. An object with a count of zero
is in the hands of a thread that has just released it (`DyingInv`).

### `SpellerDicts_proofs`

For any dictionary files, however they name one another, and any configurations:
`ReferencesOwned` and `SavingIsComplete`, an action property. The count of an
object is how often it occurs in the speller's list, on `to_add` and among the
multi dictionaries being read, plus what was lost (`CountInv`). The parts of a
multi dictionary stay alive because they are in the speller's list or still
above it on `to_add` (`PartsInv`); that fails once the speller is being deleted,
so the invariant says it of the phases before. `SavedInv` is what saving needs:
the list has the personal dictionary under the flag `save_on_saveall`, and
everything up to the iterator is saved.

### `Replacements_proofs`

For any tokens, corrections and sequence of calls: `PairsAreTheUsers` and
`ChainsAreLearnt`. What the user did is a recursive function of the history
(`Led`). Its equation comes from `NatRecursion`, that later calls do not change
earlier values from induction over the calls. `PendingInv` connects the memory
between two calls (`prev_mis_repl_`, `prev_cor_repl_`) to the history.

### `CheckLoop_proofs`

For documents of any length, rings of any size and any replacements: `TextKept`
(the text written, in the ring and still to be read is the document with the
replacements in their places), `ShownIsFound` (the characters shown are the word
the tokenizer found) and `SomeFileIsWhole` (so is one of the files at every step
of the end). The ring is seen from its oldest line: `Place(t, k)` is where the
k-th oldest line stands, `AgeIn` its inverse, and `Carries(t, d, fix)` says that
the text `fix` is in `t` when the d oldest lines have been written out. Reading a
line, writing one, replacing in one are lemmas about `Carries` (`Reading`,
`Emptying`, `Changing`). Within a line, the replacements lie before the place of
the tokenizer (`Settled`, `Before`), so what follows is as it was in the copy of
the line, and `diff` is what the replacements so far have added to its length
(`LineInv`). The word shown is found in the line by its place in the copy plus
`diff` (`WordInv`). Which files may exist, phase by phase, as removes and renames
work or fail, is `DiskInv`. The hypothesis that the disk is not full is in the
properties themselves; `SomeFileIsWhole` then needs a backup that could be made.

### `Settings_proofs`

The lemmas about the operations of `Config` come first, then the theorems, in
three parts.

For any requests, files, modes and names of files: `SpellerFollows` (the limit
and the indifference to case the speller works with are those its configuration
shows, and the limit is at most eight words) and `TypeCorrect`. The invariant
(`Invariant`) says of which set each configuration is: `Open`, collected and not
committed, of which nothing more is known; or `Done(attached)`, committed, with
every entry in force one that `commit` allows, the insertion point at the end
and, if a speller is attached, what it was told in agreement with a lookup
(`Agrees`). It is stronger than both properties: a lookup finds the last entry
of an option wherever it is, so all entries must be known to be sound
(`DoneRetrieved`), and a notification may insert an entry of its own, so the
agreement must hold of the list after that (`LimitKeeps`, `ModeKeeps`). An entry
that is refused stays in the list as one that does nothing (`RefusedKeeps`).
`set`, `merge`, `commit_all` and reading files are folds over lists of entries;
each has a lemma saying what the fold keeps.

For any modes and requests of a pipe session: `ModesFollowed`, that the filters
of the document checker are those of the mode asked for last. It is about
`ModesSpec`, the part of `aspell pipe` that `PipeModes` has; the other commands
leave its variables alone. The invariant (`ModesInv`) adds that the
configuration is in `Done(FALSE)`, so that a mode that is set takes effect
whatever entries stand before it (`ModeSet`).

`OptionsMean`: what is looked up in a committed configuration is what the
requests mean, from the first to the last (`SettingsMean`), for any requests to
the user's configuration and to the speller's, any configuration files, modes
and names of files, under one hypothesis, `NoListResets`: nobody resets a list
as a whole. Without it the property is false, since `lookup_list` takes the
entry behind a reset for one of the list (config.cpp:416-424). The instance of
`Settings_layers` satisfies it.

Three readings of entries and requests are compared, each a recursion from the
first to the last (`Through`): `Wrote` takes entries as they are written down,
`Meant` as `commit` would, and `Asked` takes requests, and is `Meaning`
(`AskedMeaning`). A lookup goes from the last entry back; that it finds what
`Wrote` gives is `EntriesShow`. Three relations between a configuration and
what was asked of it say which of the readings agree when: `Collecting`
(`Meant` of the entries that have been collected is what was asked), `Showing`
(lookups in a committed list give what was asked), and `Recording` (so does
`Meant`, of a list committed but not yet amended by files, because it is
committed a second time in the copy that the speller gets). Every operation
keeps them (`CollectingUnderstands`, `ShowingUnderstands`,
`RecordingUnderstands`, all of the form `Understands`), committing leads from
the first to the second (`CommitAdds`, `AllCommitted`), and so do reading files
and merging, whatever the values before (`FilesRead`, `Merged`, `SetupShows`).
The relations must speak of all values one could have begun with, because
`merge` puts the entries of one configuration behind those of another: what they
change must not depend on what they were collected for. So the invariant
(`MeansInv`) quantifies over all values of the options, which is why TLC checks
`SettingsMean` and not the invariant.

### `CompoundWords_proofs`

For any alphabet, dictionaries, options and words of any length, and an array of
any size: `ChecksSpell` (`ChainSpellsTheWord`) and `ChecksAccept`
(`AcceptsWhatItShould`), in any sequence of checks (`ChecksSpec`). They are
theorems of `ChecksSpec` and not of `Pipe!Spec`, because `Pipe` uses the
recursive operators of `Convert`. What `Pipe` puts into `last` is, as there, the
`Outcome` of `CheckWord` on the array as it is, and `CheckWordSpells` and
`CheckWordAccepts`, which have all of the argument, are about one such call on
any array. `ChecksAccept` says nothing of words that are not `Ordinary`: for those
the code and the manual do differ, as the section on differences says.

* An attempt at one place of the array is known from those at the place behind it
  (`AttemptIs`, `AttemptsIs`: the recursive functions exist and have the values
  their equations say).
* What it leaves is `Sound`: from its place on, pieces are linked to one another,
  marked compound but for the last, and each is right for the letters it stands
  for. The difficulty is that attempts that failed have written to the same
  places; `TryCutSound` has that what a later attempt writes covers what it uses.
* The parts of a camelCase word are put behind one another, which is `SoundTo`
  after every part. A sound array gives a chain, and folding it spells the word
  (`SpellsTheWord`).
* That nothing is missed is `CompleteAt`: with room for all the pieces that are
  allowed, or for as many as there are letters, an attempt succeeds exactly if
  there is a way to string the rest of the word together. The set of places where
  pieces end is split into the first and the others, and put together again
  (`StringSplit`, `StrungStep`); a guess of the case is right because all prefixes
  that fit have the same (`Guessable`). `RunRight` is the result.
* For parts: no part takes more places than it has letters, so that there is
  room for the next (`RightTo`); the counts of a counting check are those of the
  parts so far (`CountTo`).

The inductive invariant (`IInv`) then says that the array is one, that the user's
words are words, and that every outcome in `last` spells and accepts as it
should.

### `NatInduction`

The induction theorems of the prover's library take operators as parameters,
which its provers cannot instantiate. Stated about sets and functions they can
be cited: `NatSetInduction` (a set of numbers with 0 and closed under successor
has all), `SeqSetInduction` (the same for sequences), `NatRecursion` (a function
defined by recursion exists), `StartsAgree` (two of them with the same beginnings
agree). They rest on the well-ordering of finite sets by inclusion
(`FiniteSetTheorems`). With them `PatchedTo` and `Led`, recursive functions over
a sequence, are proved about.

`Through(op, a, s)` is where the steps `op[x]` lead from `a` along the sequence
`s`. It has its laws of concatenation (`ThroughConcat`, `ThroughAppend`); a
relation between two of them that every step keeps is kept by all
(`ThroughBoth`), and so is a set (`ThroughKeeps`). `FoldExists` and
`AlongLeads` connect it with `FoldLeft`, whose definition chooses a function on
the sets of places: there is one, and it leads where the sequence leads.

### Model-checked only

Liveness (`LoadsAndSavesEnd`, `CallsReturn`, `SetupEnds`, `AsksOrEnds`), since
fairness and ENABLED are beyond the prover. What the recursive operators of
`Convert`, the filters, `Affix`, `MunchList`, `Prezip`,
`EditDistance`, `Soundslike`, `ReadOnlyDict` and `Suggest` compute, and so the
properties of `Filters`, `WordLists` and `SuggestWords`, and of `Pipe` those about
replies, offsets and encoding: the prover has no recursive operators, and over their
bounded inputs TLC compares them with definitions that are not recursive in the
same way.

## Where code and documents differ

With a run: partial expansion (`WordLists_partial`, affix.cpp:947). Seen while
modelling, without a run of their own; the models follow the code, and where a
property would be false for it the property or the instance says so.

Dictionaries and configuration:

* writable.cpp:237: of two saves within a second the second overwrites the
  first; file_util.cpp:114: of two first saves one truncates what the other saved.
  manual/aspell.texi:210 calls the personal dictionaries "multiprocess
  intelligent". `Safe` excludes both.
* writable.cpp:210: `save2` reports success when a full disk has cut the file short,
  and line 244 then removes the old-format file: its words are in neither. The late
  `w+` of file_util.cpp:114 may empty the new file between the write and
  the removal just the same. writable.cpp:568: a refused word clears the list in
  memory, which `update` ignores for an old-format list (line 202), so that
  the cleared list is saved. `MigrationKeepsOldWords` excepts the first two by
  `spoilt`; the third is why `MigrationIsSafe` has its hypothesis.
* speller_impl.cpp:561, :616: the references `lost` counts stay for ever;
  data.hpp:187 says a `DictList` "WILL take ownership of the dict".
* speller_impl.cpp:861: the `SpellerDict` made for `wordlists` without
  `use-other-dicts` leaves its flags uninitialised, so the words that
  manual/aspell.texi:905 says are accepted may not be.
* speller_impl.cpp:121: of a chain of three misspellings only the first is
  stored with the correction; manual/aspell.texi:2588 says each is.
* speller_impl.cpp:203: the case of the first piece is guessed from the first
  prefix that fits, and kept when a longer prefix is tried: with "A", "Ab" and
  "Ba" in the dictionaries "Abba" is refused, because "A" is no capitalised word,
  although "Ba" may lose its capital behind "Ab" (`Guessable` excludes it).
* speller_impl.cpp:266: a camelCase word of as many correct parts as the array
  has places is refused. speller_impl.hpp:144: a refused word leaves the piece
  of the last failed attempt in `check_inf[0]`, which `check_info()` hands out.
  speller_impl.hpp:117: the word `check_info()` of an ignored short word points
  into is gone when `check` returns.
* multi_ws.cpp:45: a multi dictionary that names itself is loaded until the
  stack ends. typo_editdist.hpp:54: the table of typing errors is cached by the
  keyboard alone, whatever the language. cache.cpp:94: `aspell_reset_cache(NULL)`
  resets nothing.
* config.cpp:417: after the Reset entry of a list the next entry is taken for
  one of the list, whatever its key; no request of `Settings_layers` resets a
  list, and `OptionsMean` excludes it. config.cpp:803: `replace` with `<default>` stores that text;
  auto/mk-src.in:300 says it resets the option. config.cpp:1004 accepts `0x3` as
  an integer, config.cpp:384 reads it as 0. config.cpp:929: a value that a
  notifier refuses, like an unknown mode, stays in the list and is retrieved from
  then on (`Understand` has it so). config.cpp:1296: after an error in a file
  entries are no longer checked.
* new_fmode.cpp:296: what the magic of a mode finds in the file decides nothing;
  manual/aspell-dev.texi:741 has it describe the requirements a file must fulfil.
  new_fmode.cpp:184: unlike `addModeExtension`, `remModeExtension` does not take
  `<noregex>` for no magic, so such an extension is not taken back.
* aspell.cpp:1166: a word is not listed to be replaced by itself, but two
  misspellings listed for each other are replaced for ever; `AsksOrEnds`
  excepts them. checker_string.cpp:97: errors of writing are not looked at, and a
  text that a full disk has cut off takes the place of the file. Errors of
  renaming (aspell.cpp:1191) are not looked at either, so that the program goes on when
  the backup could not be made; with a full disk nothing is then left of the
  text, and `TextSurvives` excepts it.

Filters:

* `reset` of the context filter drops its delimiters (context.cpp:254), that of
  the Markdown filter keeps the pointer to the code or link it is in
  (markdown.cpp:888); indiv_filter.hpp:56 says it resets "the internal state".
  `StartedAnew` excepts both in a second document.
* The URL filter lets a word of one letter swallow the next word, also over the
  end of a line; the e-mail filter blanks from the end of the line before a
  quoted one when it gets both at once; an ignored Texinfo environment inside
  another ends both; the context filter sees a delimiter only if a character
  follows.
* Markdown: a fence of `~` may be closed by one of backquotes, a code span
  by a longer run; an attribute without a value is invalid; nroff: `.` or `.ds`
  alone on a line makes the next line a request or an argument.

Word lists (the instance of `WordLists_munch` avoids what makes munching abort):

* aspell.cpp:2372: the links of the complete algorithm are used again and lose
  a union, so that the assertion of line 2584 may fail; affix.cpp:859 crosses
  empty prefixes although not asked to (aspell.cpp:2362 asserts otherwise).
* The simple algorithm loses a word when the condition of a prefix looks at more
  letters than the root has; a strip longer than the word by prefix and suffix
  together gives a negative length; `[a^b]` is read as a negated set, and a
  condition that does not close is read past its end.
* prezip.c: an archive that ends right behind its head, or within a length, sends
  the program through memory (`Undefined`, which `MunchedListIsTheList` takes
  for a reading that fails). An empty list that
  `word-list-compress` made is no list for either program.
* munch.c: the last letter of a file without a final newline is cut, and a
  file shorter than it says repeats its last line.

Suggestions:

* suggest.cpp:976: `stopped_at` is carried over from one dictionary to the next;
  its difference from a word's length may wrap around (line 1051).
* readonly_ws.cpp:637: with hidden soundslikes the hint is applied to the word
  kept from before; the second table of jumps compares neighbours by their
  second letter only; the last item of a group is taken to be a byte shorter.
* suggest.cpp:1244: what is already listed is told by the address of its
  soundslike, not by its letters: a word found by an edit may be listed again by the
  n-grams, and the duplicates go when the list is made. A word too long to be
  scored (suggest.cpp:504) has no suggestions; the runs ask only about short ones.
* The border of the full distance uses the costs of the two deletions the other
  way round; camelCase edits of no kind call `abort`; the first dictionary
  decides for all whether there are soundslikes to scan by; a second `<` rule
  of phonet in a row drops a letter; merged flags may not fit the byte of their
  length.

Pipe mode and conversion:

* aspell.cpp:776: `&` lowers the bytes of the user's encoding as if they were
  letters of the language, which spoils UTF-8 words. aspell.cpp:826: `$$cs`
  without a value compares what an earlier command left.
* aspell.cpp:797: `-` gives the default filters, not those of the mode the utility
  starts with; `$$cs mode` has no effect until `+` or `-`; an entry refused by
  `+` stays in the configuration.
* `?` is printed when attempts at run-together parts left something in the
  array, where manual/aspell.texi:2444 has `#`; an empty line of input has
  no reply line; without `#` nothing is saved at the end of the input.
* aspell.cpp:869: the NUL behind a misspelled word takes the first byte of a word
  that follows without a gap. aspell.cpp:352: `num_parms == -1` is never true
  there.
* convert.cpp: the overflow list of a lookup table is never searched;
  `DecodeNormLookup` follows a null pointer for a byte without entry; a stray
  continuation byte of UTF-8 is one `?` but no character of `MBLen`, and a zero
  character ends the words of a line.

## Not modelled, and the plan

What is left, in order of importance:

1. The ranking of dictionaries by `find_word_list`; the edits and suggestions of
   camelCase and run-together words; several dictionaries of one process over
   one file, which fcntl locks do not exclude from each other.
2. The commands `filter`, `conv` and `soundslike`.

Left out for good: terminal and key handling, gettext, reading of the character
tables and of `.info` files, the layout of compiled dictionaries, generated C
wrappers, build files and data. `components` in `PROJECT.json` says why for each.
