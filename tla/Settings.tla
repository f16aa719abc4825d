------------------------------ MODULE Settings ------------------------------
(***************************************************************************)
(* Where a speller's options come from.  The user's configuration is that  *)
(* of a program that links the library (every request is committed at      *)
(* once) or of the aspell utility (requests are collected from the command *)
(* line, then the files are read, then all is committed).  new_speller     *)
(* makes a configuration of its own from it (find_word_list), which the    *)
(* speller owns and which both sides may go on changing.                   *)
(***************************************************************************)
EXTENDS Config

CONSTANTS UserRequests,  \* what may be asked of the user's configuration
          LaterRequests, \* what may be asked of the speller's
          FileContents,  \* what the three configuration files may hold
          ModeMagic,     \* the modes in the order of their list, with the magic
                         \* lines of their files: the extensions they add or remove
          Names,         \* names of files to be checked, as sequences of parts
          MaxRequests    \* bound on the requests of both

ASSUME RequestAssumption == /\ UserRequests \cup LaterRequests \subseteq Request
                            /\ FileContents \subseteq Seq(Seq(Request))
                            /\ \A contents \in FileContents : Len(contents) = 3
ASSUME MaxRequestsAssumption == MaxRequests \in Nat
ASSUME MagicAssumption ==
    ModeMagic \in Seq([mode : DOMAIN ModeFilters,
                       magic : Seq([magic : STRING, ext : Seq(STRING), remove : BOOLEAN])])

VARIABLES user,          \* the user's configuration
          speller,       \* the speller's: a sequence of one, or none
          files,         \* ASPELL_CONF, personal and main configuration file
          asked,         \* history: the user's requests, those of the files first
          askedSpeller   \* history: what the speller's options follow from

vars == <<user, speller, files, asked, askedSpeller>>

\* From the weakest to the strongest.
FileRequests == files[3] \o files[2] \o files[1]

\* The bound is on the user's requests; the history has those of the files too.
Spent == Len(asked) - (IF user.settingsRead THEN Len(FileRequests) ELSE 0)

-----------------------------------------------------------------------------
(* The mode of a file, by its name (lib/new_fmode.cpp).                     *)

\* What follows any dot of the name, which is a sequence of parts.
Extensions(name) == {SubSeq(name, i, Len(name)) : i \in 2..Len(name)}

\* addModeExtension and remModeExtension: a mode has a key for every magic text.
KeyAt(keys, magic) == {i \in DOMAIN keys : keys[i].magic = magic}
AddExtension(keys, line) ==
    LET at == KeyAt(keys, line.magic)
    IN  IF at = {} THEN Append(keys, [magic |-> line.magic, exts |-> {line.ext}])
        ELSE [keys EXCEPT ![Min(at)].exts = @ \cup {line.ext}]
RemExtension(keys, line) ==
    LET at == KeyAt(keys, line.magic)
    IN  IF at = {} THEN keys ELSE [keys EXCEPT ![Min(at)].exts = @ \ {line.ext}]

Update(keys, line) == IF line.remove THEN RemExtension(keys, line)
                      ELSE AddExtension(keys, line)
MagicKeys(lines) == FoldLeft(LAMBDA keys, line : Update(keys, line), <<>>, lines)

\* lockFileToMode.  The file is read, but what its magic finds there decides
\* nothing: matchFile looks only for errors in the magic text, and a mode with
\* such an error is not loaded.
LocksTo(magicKeys, name) ==
    \E i \in DOMAIN magicKeys : magicKeys[i].exts \cap Extensions(name) # {}

SetModeFromExtension(c, name) ==
    LET modes == {i \in DOMAIN ModeMagic : LocksTo(MagicKeys(ModeMagic[i].magic), name)}
    IN  IF modes = {} \/ Lookup(c, "mode") # {} THEN c
        ELSE Set(c, [prefix |-> "", key |-> "mode", value |-> ModeMagic[Min(modes)].mode])

-----------------------------------------------------------------------------

\* new_config; the utility turns committing off before it parses its arguments.
Init == /\ \E utility \in BOOLEAN : user = [NewConfig EXCEPT !.committed = ~utility]
        /\ speller = <<>>
        /\ files \in FileContents
        /\ asked = <<>>
        /\ askedSpeller = <<>>

UserAsks(r) == /\ Spent < MaxRequests
               /\ user' = Set(user, r)
               /\ asked' = Append(asked, r)
               /\ UNCHANGED <<speller, files, askedSpeller>>

\* A request that is not refused before it is written down.  An unknown mode is
\* refused by the filter modes, when it has been: it stays, and has no filters.
LegalRequest(r) ==
    /\ ~(r.prefix \in NoValuePrefixes /\ r.value # "")
    /\ r.key \in Keys
    /\ r.key \in Scalars => /\ r.prefix \notin {"add", "rem", "clear", "lset"}
                            /\ r.prefix \in {"reset"} \/ ValueOf(r) \in
                                  CASE r.key \in {"mode", "keyboard"} -> {ValueOf(r)}
                                    [] r.key = "ignore-case" -> {"", "true", "false"}
                                    [] r.key = "run-together-limit" -> IntTexts

\* What the name of a file says of it if nobody asked for a mode: that of the first
\* mode that names its extension last with no sign or with a plus.
Named(magic, name) ==
    \E i \in DOMAIN magic :
        /\ magic[i].ext \in Extensions(name) /\ ~magic[i].remove
        /\ \A j \in i + 1..Len(magic) :
              magic[j].remove => <<magic[j].magic, magic[j].ext>>
                                    # <<magic[i].magic, magic[i].ext>>
NamedModes(name) == {i \in DOMAIN ModeMagic : Named(ModeMagic[i].magic, name)}
ModeRequest(name) ==
    <<[prefix |-> "", key |-> "mode", value |-> ModeMagic[Min(NamedModes(name))].mode]>>

\* Nobody asked for a mode, or the last to do so reset it.
NoMode(requests) ==
    FoldLeft(LAMBDA none, r : IF r.key = "mode" /\ LegalRequest(r) THEN r.prefix = "reset"
                              ELSE none, TRUE, requests)

\* The utility: read_in_settings, then commit_all; it exits if either fails.  Then
\* check() with the name of a file; one without a dot stands for other commands.
UtilityStarts(name) ==
    LET read == ReadInSettings(user, <<>>, files)
        done == CommitAll([read EXCEPT !.failed = FALSE])
        all == FileRequests \o asked
    IN  /\ ~user.committed
        /\ ~read.failed
        /\ ~done.failed
        /\ user' = SetModeFromExtension(done, name)
        /\ asked' = IF NamedModes(name) # {} /\ NoMode(all) THEN all \o ModeRequest(name)
                    ELSE all
        /\ UNCHANGED <<speller, files, askedSpeller>>

\* find_word_list and SpellerImpl::setup: no speller if the settings are bad.
NewSpeller ==
    LET read == ReadInSettings(NewConfig, <<user>>, files)
    IN  /\ speller = <<>>
        /\ user.committed
        /\ ~read.failed
        /\ speller' = <<SetupSpeller(read)>>
        /\ askedSpeller' = IF user.settingsRead THEN asked ELSE FileRequests \o asked
        /\ UNCHANGED <<user, files, asked>>

\* Through speller->config(), the pipe commands and aspell_speller_config.
SpellerAsks(r) == /\ speller # <<>>
                  /\ Len(askedSpeller) < MaxRequests + Len(FileRequests)
                  /\ speller' = <<Set(speller[1], r)>>
                  /\ askedSpeller' = Append(askedSpeller, r)
                  /\ UNCHANGED <<user, files, asked>>

DeleteSpeller == /\ speller # <<>>
                 /\ speller' = <<>>
                 /\ askedSpeller' = <<>>
                 /\ UNCHANGED <<user, files, asked>>

Next == \/ \E r \in UserRequests : UserAsks(r)
        \/ \E name \in Names : UtilityStarts(name)
        \/ NewSpeller
        \/ \E r \in LaterRequests : SpellerAsks(r)
        \/ DeleteSpeller

Spec == Init /\ [][Next]_vars

-----------------------------------------------------------------------------
(* What a list of requests means, whatever it is stored in.                *)

NewValue(r, old) ==
    CASE r.prefix = "reset" -> Default(r.key)
      [] r.key \in Scalars /\ r.prefix # "reset" ->
            IF r.key = "ignore-case" /\ ValueOf(r) = "" THEN "true" ELSE ValueOf(r)
      [] r.key \in Lists /\ r.prefix \in {"", "enable", "disable"} -> <<ValueOf(r)>>
      [] r.prefix = "add" -> AddTo(old, r.value)
      [] r.prefix = "rem" -> RemoveFrom(old, r.value)
      [] r.prefix = "clear" -> <<>>
      [] r.prefix = "lset" -> AddAll(r.value)

\* A request changes the value of its option; that of a known mode, the filters too.
Understand(view, r) ==
    IF ~LegalRequest(r) THEN view
    ELSE LET new == NewValue(r, view[r.key])
         IN  IF r.key = "mode" /\ new \in DOMAIN ModeFilters
             THEN [view EXCEPT !["mode"] = new,
                               !["filter"] = AddAll(ModeFilters[new])]
             ELSE [view EXCEPT ![r.key] = new]

Meaning(requests) ==
    FoldLeft(LAMBDA view, r : Understand(view, r), [k \in Keys |-> Default(k)], requests)

\* What the speller makes of it: it strings at most eight words together.
Capped(view) ==
    [view EXCEPT !["run-together-limit"] =
        IF Scanned[@] > LimitMax THEN "8" ELSE @]

-----------------------------------------------------------------------------

\* Types: once committed, values of an option are those its kind allows, and the
\* insertion point is behind all entries, so that the next request prevails.
Consistent(c) ==
    /\ c.insertPoint \in 0..Len(c.entries)
    /\ c.committed =>
          /\ c.insertPoint = Len(c.entries)
          /\ \A i \in DOMAIN c.entries :
                c.entries[i].action # "NoOp" => Legal(c.entries[i])
          /\ Retrieve(c, "ignore-case") \in {"true", "false"}

TypeOK == Consistent(user) /\ \A i \in DOMAIN speller : Consistent(speller[i])

\* What is retrieved is what the requests so far mean, in the order the manual
\* gives them: files before the command line, the last one last, and nothing of a
\* request that was refused but the name of an unknown mode.  (The list of entries never forgets: lookup,
\* lookup_list, the insertion points of read_in_settings and the entries a filter
\* mode adds have to come to that.)  The same for the speller's own configuration,
\* which is merged or copied from the user's, read in behind its back, committed
\* again as a whole (every filter mode is expanded a second time) and changed by the
\* speller itself.
SettingsMean ==
    /\ user.committed => \A k \in Keys : Value(user, k) = Meaning(asked)[k]
    /\ \A i \in DOMAIN speller : \A k \in Keys :
          Value(speller[i], k) = Capped(Meaning(askedSpeller))[k]

\* The speller works with the limit and with the indifference to case that its
\* configuration shows, and never with a larger limit than the eight words check_inf
\* has room for: however the value arrived, by setup or by a notification that calls
\* back, whether it was written out or left to be understood, and also when it was
\* refused.  A limit in base 16 is shown as two numbers: retrieve_int (config.cpp:384)
\* reads it with atoi, commit (config.cpp:1004) with sscanf.
SpellerFollowsItsConfig ==
    \A i \in DOMAIN speller :
        LET c == speller[i]
            limit == c.told["run-together-limit"]
            text == Retrieve(c, "run-together-limit")
        IN  /\ limit \in {Atoi[text], Scanned[text]} /\ limit <= LimitMax
            /\ c.told["ignore-case"] = (Retrieve(c, "ignore-case") = "true")
=============================================================================
