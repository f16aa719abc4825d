----------------------------- MODULE NroffFilter -----------------------------
(***************************************************************************)
(* modules/filter/nroff.cpp.  A request line hides the name of the request *)
(* and, for some requests, the word after it; the rest of the line is      *)
(* text.  Escapes hide themselves and their argument.                      *)
(***************************************************************************)
EXTENDS FilterText

NroffReset == [state |-> "initial", newline |-> TRUE, in_request |-> FALSE,
               req |-> "", skip |-> 0]

Go(s, state) == [s EXCEPT !.state = state]

(* ignore_request_argument(): the argument is a name.                      *)
IgnoredArgument == {"ds", "de", "nr", "do", "so"}

InitialChar(s, c) ==
  CASE c = "\\" -> Hide(Go(s, "escape"))
    [] c \in {"'", "."} /\ s.newline -> Hide(Go(s, "skip_leading_ws"))
    [] c \in {"'", "."} /\ ~s.newline /\ s.in_request ->
         Hide([Go(s, "request") EXCEPT !.req = ""])
    [] OTHER -> Show(s)

EscapeChar(s, c) ==
  CASE c = "f" -> Hide(Go(s, "font_switch"))
    [] c \in {"*", "n"} -> Hide(Go(s, "register_reference"))
    [] c = "s" -> Hide(Go(s, "size_switch"))
    [] c = "(" -> Hide([Go(s, "initial") EXCEPT !.skip = 2])
    [] c = "[" -> Hide(Go(s, "gnu_register_name"))
    [] c = "\"" -> Hide(Go(s, "initial"))
    [] c = "\\" -> Hide(s)
    [] c = "$" -> Hide(Go(s, "argument"))
    [] OTHER -> Show(Go(s, "initial"))

RegisterChar(s, c) ==
  CASE c = "(" -> Hide([Go(s, "initial") EXCEPT !.skip = 2])
    [] c = "[" -> Hide(Go(s, "gnu_register_name"))
    [] OTHER -> Show(Go(s, "initial"))

(* The two letters of a request; a newline or a second dot ends it.        *)
RequestChar(s, c) ==
  LET name == s.req \o c
  IN  Hide(CASE c \in {"\n", "."} -> Go(s, "initial")
             [] c \notin {"\n", "."} /\ s.req = "" -> [Go(s, "request") EXCEPT !.req = name]
             [] OTHER -> [s EXCEPT !.req = name,
                            !.state = CASE name \in IgnoredArgument -> "skip_space_before_ident"
                                        [] name = "if" -> "skip_cond"
                                        [] OTHER -> "skip_ident"])

(* The words a request may be followed by: a condition, a name, or, for the *)
(* escape of a macro's argument, its number.                                *)
ArgumentChar(s, c) ==
  LET condition == [Go(s, "initial") EXCEPT !.in_request = TRUE]
  IN  CASE s.state = "skip_cond" /\ c \in Spaces -> Hide(s)
        [] s.state = "skip_cond" /\ c \in {"t", "n"} -> Hide(condition)
        [] s.state = "skip_cond" /\ c \notin Spaces \cup {"t", "n"} -> InitialChar(condition, c)
        [] s.state = "skip_space_before_ident" ->
             Hide(IF c \in Spaces THEN s ELSE Go(s, "skip_ident"))
        [] s.state = "skip_ident" -> Hide(IF c \in Spaces THEN condition ELSE s)
        [] s.state = "argument" ->
             IF c \in Digits THEN Hide(s) ELSE InitialChar(Go(s, "initial"), c)

NroffChar(s, c) ==
  CASE s.skip > 0 -> Hide([s EXCEPT !.skip = @ - 1])
    [] s.skip = 0 /\ s.state = "initial" -> InitialChar(s, c)
    [] s.skip = 0 /\ s.state = "escape" -> EscapeChar(s, c)
    [] s.skip = 0 /\ s.state = "register_reference" -> RegisterChar(s, c)
    [] s.skip = 0 /\ s.state = "gnu_register_name" ->
         Hide(IF c \in {"]", "\n"} THEN Go(s, "initial") ELSE s)
    [] s.skip = 0 /\ s.state = "font_switch" ->
         Hide([Go(s, "initial") EXCEPT !.skip = IF c = "(" THEN 2 ELSE 0])
    [] s.skip = 0 /\ s.state = "size_switch" ->
         Hide(Go(s, IF c \in {"+", "-"} THEN "skip_char" ELSE "skip_digit"))
    [] s.skip = 0 /\ s.state = "skip_char" -> Hide(Go(s, "skip_digit"))
    [] s.skip = 0 /\ s.state = "skip_digit" -> If(Go(s, "initial"), c \in Digits)
    [] s.skip = 0 /\ s.state = "skip_leading_ws" ->
         IF c \in Spaces THEN Show(s) ELSE RequestChar([Go(s, "request") EXCEPT !.req = ""], c)
    [] s.skip = 0 /\ s.state = "request" -> RequestChar(s, c)
    [] OTHER -> ArgumentChar(s, c)

(* process(): a newline is never hidden, and ends the request.             *)
NroffStep(s, c) ==
  LET r == NroffChar(s, c)
  IN  IF c = "\n" THEN Show([r.st EXCEPT !.newline = TRUE, !.in_request = FALSE])
                  ELSE If([r.st EXCEPT !.newline = FALSE], r.hide)

NroffProcess(st, text) == CharByChar(NroffStep, st, text)
=============================================================================
