----------------------------- MODULE TexFilters -----------------------------
(***************************************************************************)
(* modules/filter/tex.cpp and texinfo.cpp, the filters for documents of    *)
(* TeX and of Texinfo.                                                     *)
(***************************************************************************)
EXTENDS FilterText

-----------------------------------------------------------------------------
(* tex.cpp.  The filter keeps a stack of open groups and commands.         *)
(* TexCommands (option f-tex-command) says for the name of a command what  *)
(* becomes of its arguments: "p" and "P" stand for a parameter in braces,  *)
(* "o" and "O" for an option in brackets, which is hidden (small letter)   *)
(* or checked.                                                             *)

CONSTANTS TexCommands,         \* name (a string) -> letters (a sequence)
          TexCheckComments     \* f-tex-check-comments

(* The C++ pointer do_check walks over the letters; here what is left.     *)
TexCommand(in) == [in |-> in, name |-> "", check |-> <<"P">>]
TexLookup(name) ==
  IF name \in DOMAIN TexCommands THEN TexCommands[name] ELSE <<>>

TexReset == [comment |-> FALSE, backslash |-> FALSE, stack |-> <<TexCommand("Parm")>>]

TexTop(s) == Last(s.stack)
SetTop(s, top) == [s EXCEPT !.stack = Append(Front(@), top)]
TexPush(s, in) == [s EXCEPT !.stack = Append(@, TexCommand(in))]
TexPop(s) == [s EXCEPT !.stack = IF Len(@) = 1 THEN <<TexCommand("Parm")>> ELSE Front(@)]
NextLetter(top) == IF top.check = <<>> THEN "" ELSE Head(top.check)

(* end_option(): the argument that ends here used up its letter.           *)
EndOption(s, letters) ==
  LET top == TexTop(s)
  IN  Hide(SetTop(s, [top EXCEPT !.in = "Other",
                        !.check = IF NextLetter(top) \in letters THEN Tail(@) ELSE @]))

(* A brace skips the options that were not given.                          *)
SkipOptions(check) ==
  LET past == {i \in 1 .. Len(check) + 1 :
                 \A j \in 1 .. i - 1 : check[j] \in {"o", "O"}}
  IN  SubSeq(check, CHOOSE i \in past : \A j \in past : j <= i, Len(check))

(* A character that is neither in a comment nor part of a name.            *)
TexBody(s, c) ==
  LET a == IF c = "{" THEN SetTop(s, [TexTop(s) EXCEPT !.check = SkipOptions(@)]) ELSE s
      b == IF TexTop(a).check = <<>> THEN TexPop(a) ELSE a
      d == IF TexTop(b).in = "Other" THEN TexPop(b) ELSE b
      opens == TexTop(b).in \in {"Parm", "Opt"} \/ TexTop(b).check = <<>>
      brace == IF opens THEN TexPush(b, "Parm") ELSE b
  IN  CASE c = "{" -> Hide(SetTop(brace, [TexTop(brace) EXCEPT !.in = "Parm"]))
        [] c # "{" /\ TexTop(b).in = "Other" /\ c = "[" ->
             Hide(SetTop(b, [TexTop(b) EXCEPT !.in = "Opt"]))
        [] c # "{" /\ TexTop(b).in = "Other" /\ c \in Spaces -> Hide(b)
        [] c = "\\" -> Hide([TexPush(d, "Name") EXCEPT !.backslash = TRUE])
        [] OTHER ->
             LET top == TexTop(d)
             IN  CASE top.in = "Parm" /\ c = "}" -> EndOption(d, {"p", "P"})
                   [] top.in = "Opt"  /\ c = "]" -> EndOption(d, {"o", "O"})
                   [] top.in = "Parm" /\ c # "}" -> If(d, NextLetter(top) = "p")
                   [] top.in = "Opt"  /\ c # "]" -> If(d, NextLetter(top) = "o")
                   [] OTHER -> Show(d)

(* A character after the backslash: it belongs to the name or ends it.     *)
TexName(s, c) ==
  LET top == TexTop(s)
      named(name, in) == SetTop(s, [in |-> in, name |-> name, check |-> TexLookup(name)])
  IN  CASE c \in Letters \/ (top.name = "" /\ c = "@") ->
             Hide(SetTop(s, [top EXCEPT !.name = @ \o c]))
        [] top.name = "" /\ c \notin Letters \cup {"@"} ->
             If(named(c, "Other"), c \notin Spaces)
        [] top.name # "" /\ c \in Spaces -> Hide(named(top.name, "Swallow"))
        [] top.name # "" /\ c = "*" -> Hide(named(top.name, "Other"))
        [] OTHER -> TexBody(named(top.name, "Other"), c)

TexStep(st, c) ==
  LET comment == ((c = "%" /\ ~st.backslash) \/ st.comment) /\ c # "\n"
      s == [st EXCEPT !.comment = comment, !.backslash = FALSE]
      top == TexTop(s)
  IN  CASE comment -> If(s, ~TexCheckComments)
        [] ~comment /\ top.in = "Name" -> TexName(s, c)
        [] ~comment /\ top.in = "Swallow" /\ c \in Spaces -> Hide(s)
        [] ~comment /\ top.in = "Swallow" /\ c \notin Spaces ->
             TexBody(SetTop(s, [top EXCEPT !.in = "Other"]), c)
        [] OTHER -> TexBody(s, c)

TexProcess(st, text) == CharByChar(TexStep, st, text)

-----------------------------------------------------------------------------
(* texinfo.cpp.  Commands open groups, of which some are ignored           *)
(* (TexinfoIgnore); an environment may be ignored as a whole               *)
(* (TexinfoIgnoreEnv), and a command right after a @table says how its     *)
(* items are marked up.                                                    *)

CONSTANTS TexinfoIgnore, TexinfoIgnoreEnv

Table(name) == [name |-> name, ignore_item |-> FALSE]

(* stack holds for every open group whether it is ignored.                 *)
ResetStack(s) == [s EXCEPT !.stack = <<FALSE>>, !.in_line = FALSE, !.ignore = 0]
TexinfoReset ==
  [stack |-> <<FALSE>>, in_line |-> FALSE, ignore |-> 0, seen_input |-> FALSE,
   last |-> "", env |-> "", env_ignore |-> 0, tables |-> <<Table("")>>]

PushGroup(s, ignored) ==
  [s EXCEPT !.stack = Append(@, ignored), !.ignore = IF ignored THEN @ + 1 ELSE @]
(* Mutant: the group is closed but still counted.                          *)
PopGroupUncounted(s) ==
  [s EXCEPT !.stack = IF Len(@) = 1 THEN <<FALSE>> ELSE Front(@)]
PopGroup(s) ==
  [s EXCEPT !.stack = IF Len(@) = 1 THEN <<FALSE>> ELSE Front(@),
            !.ignore = IF Last(s.stack) /\ @ > 0 THEN @ - 1 ELSE @]

EndsWithTable(name) ==
  /\ Len(name) >= 5
  /\ SubSeq(name, Len(name) - 4, Len(name)) = "table"

(* The run of letters at i: a command's name.                              *)
NameAt(text, i) ==
  LET end == CHOOSE j \in i .. Len(text) + 1 :
                /\ \A k \in i .. j - 1 : text[k] \in Letters
                /\ j > Len(text) \/ text[j] \notin Letters
  IN  [name |-> FoldLeft(LAMBDA a, b : a \o b, "", SubSeq(text, i, end - 1)), end |-> end]

(* What @name does; group is TRUE when a brace follows.                    *)
TexinfoCommand(s, name, group) ==
  LET table == Last(s.tables)
      was_table == s.last = table.name /\ s.last \in {"table", "ftable", "vtable"}
      named == [s EXCEPT !.last = name]
      ignored == \/ name \in TexinfoIgnore
                 \/ table.ignore_item /\ name \in {"item", "itemx"}
      opened == PushGroup([named EXCEPT !.in_line = @ \/ ~group], ignored)
  IN  CASE s.env_ignore # 0 -> named
        [] s.env_ignore = 0 /\ was_table ->
             IF name \in TexinfoIgnore
             THEN [named EXCEPT !.tables[Len(s.tables)].ignore_item = TRUE] ELSE named
        [] OTHER ->
             CASE name = "end" -> opened
               [] name # "end" /\ s.env = "" /\ name \in TexinfoIgnoreEnv ->
                    [opened EXCEPT !.env = name, !.env_ignore = 1]
               [] name # "end" /\ s.env = name -> [opened EXCEPT !.env_ignore = @ + 1]
               [] name # "end" /\ s.env # name /\ EndsWithTable(name)
                    /\ ~(s.env = "" /\ name \in TexinfoIgnoreEnv) ->
                    [opened EXCEPT !.tables = Append(@, Table(name))]
               [] OTHER -> opened

TexinfoEnd(s, name) ==
  LET done == [s EXCEPT !.last = ""]
  IN  CASE name = s.env ->
             [done EXCEPT !.env_ignore = IF @ > 1 THEN @ - 1 ELSE 0,
                          !.env = IF s.env_ignore > 1 THEN @ ELSE ""]
        [] name # s.env /\ name = Last(s.tables).name ->
             [done EXCEPT !.tables = IF Len(@) = 1 THEN <<Table("")>> ELSE Front(@)]
        [] OTHER -> done

TexinfoChar(s, c) ==
  LET plain == [s EXCEPT !.last = ""]
  IN  CASE c = "{" -> Show(PushGroup(plain, FALSE))
        [] c = "}" -> Show(PopGroup(plain))
        [] c = "\n" /\ s.in_line -> Show(ResetStack(plain))
        [] OTHER -> If(plain, s.ignore # 0 \/ s.env_ignore # 0)

InputCommand == <<"\\", "i", "n", "p", "u", "t">>

(* process(): commands are read at once, so position i runs over the text. *)
TexinfoProcess(st, text) ==
  LET spaces(t, i, j) == [k \in DOMAIN t |-> IF k \in i .. j - 1 THEN " " ELSE t[k]]
      RECURSIVE Go(_, _, _)
      Go(i, s, t) ==
        IF i > Len(t) THEN [st |-> s, text |-> t]
        ELSE LET c == t[i]
                 word == NameAt(t, i + 1)
                 here == NameAt(t, i)
                 group == word.end <= Len(t) /\ t[word.end] = "{"
                 command == i < Len(t) /\ t[i + 1] \in Letters
                 env == s.env_ignore # 0
                 table == s.last = Last(s.tables).name
                            /\ s.last \in {"table", "ftable", "vtable"}
                 input == /\ ~s.seen_input /\ Len(t) - i >= 5
                          /\ SubSeq(t, i, i + 5) = InputCommand
             IN  CASE c = " " -> Go(i + 1, s, t)
                   [] c = "@" /\ command ->
                        Go(IF group /\ ~env /\ ~table THEN word.end + 1 ELSE word.end,
                           TexinfoCommand(s, word.name, group), spaces(t, i, word.end))
                   [] c = "@" /\ ~command -> Go(i + 2, s, spaces(t, i, i + 2))
                   [] c = "\\" /\ input ->
                        Go(i + 6, [PushGroup([s EXCEPT !.last = ""], TRUE)
                                     EXCEPT !.in_line = TRUE, !.seen_input = TRUE],
                           spaces(t, i, i + 6))
                   [] c # " " /\ c # "@" /\ ~(c = "\\" /\ input) /\ s.last = "end" ->
                        Go(here.end, TexinfoEnd(s, here.name), spaces(t, i, here.end))
                   [] OTHER ->
                        LET r == TexinfoChar(s, c)
                        IN  Go(i + 1, r.st, IF r.hide THEN spaces(t, i, i + 1) ELSE t)
  IN  Go(1, st, text)
=============================================================================
