------------------------------ MODULE PipeModes ------------------------------
(***************************************************************************)
(* The filters of aspell pipe (prog/aspell.cpp, pipe): the speller's       *)
(* configuration, which the commands "+", "-" and "$$cs" change, and the   *)
(* filters the document checker was made with, which only the first two    *)
(* renew.  Module Pipe has the other commands and the lines of text.       *)
(***************************************************************************)
EXTENDS Config

CONSTANTS
  Modes,         \* what may come behind "+"
  CsRequests     \* what may come behind "$$cs", flags of the check and of pipe aside

\* The modes whose filters and options are all accepted.
GoodModes == DOMAIN ModeFilters \ BrokenModes

ASSUME PipeModesAssumption == /\ {"nroff", "tex"} \subseteq GoodModes
                              /\ Modes \subseteq STRING
                              /\ CsRequests \subseteq Request

VARIABLES
  config,        \* the configuration of the speller
  inForce,       \* the filters of the document checker
  askedMode      \* history: <<the mode asked for last>>, <<>> for the default filters,
                 \* <<"", f>> for those and the filter f of the user

modeVars == <<config, inForce, askedMode>>

Asking(prefix, key, value) == [prefix |-> prefix, key |-> key, value |-> value]
SetMode(c, m) == Set(c, Asking("", "mode", m))
Reload(c) == inForce' = Value(c, "filter")

\* pipe() up to the loop: nroff is the mode, unless the user gave a mode or, in front
\* of it, a filter (--add-filter); a mode that is refused ends the program before.
\* The speller has a copy of the configuration.
InitModes(filter, mode) ==
  LET given == IF filter = "" THEN NewConfig
               ELSE Set(NewConfig, Asking("add", "filter", filter))
      m == IF filter = "" /\ mode = "" THEN "nroff" ELSE mode
  IN  /\ config = Copy(IF m = "" THEN given ELSE SetMode(given, m))
      /\ inForce = Value(config, "filter")
      /\ askedMode = IF m = "" THEN <<"", filter>> ELSE <<m>>

\* "+": TeX, if the mode is refused.  Both make a new document checker.
ChangeModeOrKeep(m) ==
  /\ config' = SetMode(config, m)
  /\ Reload(config')
  /\ askedMode' = <<m>>
ChangeMode(m) ==
  /\ config' = LET done == SetMode(config, m)
               IN  IF done.failed THEN SetMode(done, "tex") ELSE done
  /\ Reload(config')
  /\ askedMode' = <<m>>

\* "-"
ResetFilters ==
  /\ config' = Set(config, Asking("reset", "filter", ""))
  /\ Reload(config')
  /\ askedMode' = <<>>

\* "$$cs": the configuration, but no new checker.
ChangeConfig(r) == config' = Set(config, r) /\ UNCHANGED <<inForce, askedMode>>

ModesNext == \/ \E m \in Modes : ChangeMode(m)
             \/ ResetFilters
             \/ \E r \in CsRequests : ChangeConfig(r)

ModesSpec == /\ \E filter \in STRING, mode \in GoodModes \cup {""} : InitModes(filter, mode)
             /\ [][ModesNext]_modeVars

\* The document checker hides what the mode that was asked for last hides, TeX's if
\* there is no such mode or one of its options is refused, although every mode, failed
\* ones included, leaves its entries in the configuration and options may be set in
\* between.  Filters of the user come to the default ones, until a mode replaces them.
HiddenBy(m) == AddAll(ModeFilters[m])
FiltersFollowTheMode ==
  inForce = IF askedMode = <<>> THEN Default("filter")
            ELSE IF Len(askedMode) = 2 THEN AddTo(Default("filter"), askedMode[2])
            ELSE IF askedMode[1] \in GoodModes THEN HiddenBy(askedMode[1])
            ELSE HiddenBy("tex")
=============================================================================
