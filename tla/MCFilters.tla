------------------------------ MODULE MCFilters ------------------------------
(* Small documents for every mode; "^" stands for a backtick.               *)
EXTENDS Filters

Chars(str) == [i \in 1 .. Len(str) |-> SubSeq(str, i, i)]
Each(strs) == {Chars(str) : str \in strs}

MCModes == ("tex" :> {"tex"}) @@ ("nroff" :> {"nroff"}) @@ ("email" :> {"email"})
        @@ ("html" :> {"sgml", "decoder"}) @@ ("texinfo" :> {"texinfo"})
        @@ ("ccpp" :> {"context"}) @@ ("markdown" :> {"markdown"})
        @@ ("url" :> {"url", "email"})

MCLines ==
     ("tex" :> Each({"a \\emph{b} c%d{\n", "\\cite[x]{y z\n", "} {\\% k\n", "}\n", "\\foo*\n", "\\\\ [a]\n"}))
  @@ ("nroff" :> Each({"c \\fBd\\fR \\(abc\n", ".ds x y\n", ".if t .br\n", ".TH\n", ".\n", "a \\s+1b \\*[k]c\n"}))
  @@ ("html" :> Each({"<s>a<!-- b\n", "--> c</s>d\n", "<b c=d t=\"&#65;>f\">g</b>&amp;h\n", "<s>\n", "</s>k&#65;\n", "<s/>\n"}))
  @@ ("texinfo" :> Each({"@a{x} @b{y\n", "} k\n", "@ig\n", "@end ig\n", "@table @b\n", "@item z\n", "\\input k\n"}))
  @@ ("email" :> Each({"> a\n", "b\n", " | x\n", "f  > g\n", "\n"}))
  @@ ("url" :> Each({"a b@c d\n", "> a.b.c e\n", "fg h://k.\n"}))
  @@ ("ccpp" :> Each({"a /* b\n", "c */ d // e\n", "f qh\\qiq k\n", "\\q l\n"}))
  @@ ("markdown" :> Each({"^^^\n", "a ^b\n", "\n", "- c\n", "    d\n", "> e\n", "[f]: g \"h\n",
                          "<i j=\"k\n", "[l](m n\n"}))

MCTexCommands == ("emph" :> <<"P">>) @@ ("cite" :> <<"o", "p">>)
MCDelimiters == <<<<<<"/", "*">>, <<"*", "/">>>>, <<<<"/", "/">>, <<>>>>, <<<<"q">>, <<"q">>>>>>
=============================================================================
