------------------------------- MODULE Prezip -------------------------------
(***************************************************************************)
(* The two compressors of word lists, which store of every word how much   *)
(* of it the word before begins with, and the rest: prezip (prog/prezip.c, *)
(* -z and -d) and the older word-list-compress (prog/compress.c), whose    *)
(* format prezip still reads.  A text is a sequence of bytes.              *)
(*                                                                         *)
(* Reading gives [out, ret]: what was written and the exit status, or      *)
(* Undefined where the code walks through memory until it is stopped.      *)
(***************************************************************************)
EXTENDS Integers, Sequences, SequencesExt, FiniteSets, FiniteSetsExt

CONSTANT BUFSIZE       \* the buffer of word-list-compress, 256

ASSUME BufferAssumption == BUFSIZE \in 2..256

Newline == 10
EscapeSign == 31
EndMark == <<EscapeSign, 255>>
EOF == -1
Undefined == 99

ByteAt(data, i) == IF i \in DOMAIN data THEN data[i] ELSE EOF

\* The end of the bytes above least that stand from place i on.
RunOf(data, i, least) ==
    Min({j \in i..(Len(data) + 2) : ByteAt(data, j) <= least}) - 1

\* Places of a text in their order.
PlacesInOrder(places) ==
    [k \in 1..Cardinality(places) |->
        CHOOSE i \in places : Cardinality({j \in places : j <= i}) = k]

\* How much of w stands at the beginning of v too.
Shared(v, w) ==
    Max({n \in 0..Min({Len(v), Len(w)}) : SubSeq(v, 1, n) = SubSeq(w, 1, n)})
\* What is written of every word: a length, and what follows that much of the one before.
Deltas(words, Length(_)) ==
    FlattenSeq([i \in DOMAIN words |->
        LET n == Shared(IF i = 1 THEN <<>> ELSE words[i - 1], words[i])
        IN  Length(n) \o SubSeq(words[i], n + 1, Len(words[i]))])

-----------------------------------------------------------------------------
(* prezip -z                                                                *)

\* The lines of a text: what follows the last newline is one too.
LinesOf(text) ==
    LET ends == PlacesInOrder({i \in DOMAIN text : text[i] = Newline} \cup {Len(text) + 1})
    IN  [i \in DOMAIN ends |-> SubSeq(text, IF i = 1 THEN 1 ELSE ends[i - 1] + 1, ends[i] - 1)]

\* Bytes that could be taken for a length are escaped before words are compared.
Escaped(w) ==
    IF \A i \in DOMAIN w : w[i] >= 32 THEN w
    ELSE FlattenSeq([i \in DOMAIN w |-> IF w[i] < 32 THEN <<EscapeSign, w[i] + 32>> ELSE <<w[i]>>])

\* <prefix> ::= 0x00..0x1D | 0x1E 0xFF* 0x00..0xFE
LengthBytes(n) ==
    IF n < 30 THEN <<n>>
    ELSE <<30>> \o [k \in 1..((n - 30) \div 255) |-> 255] \o <<(n - 30) % 255>>

Zipped(text) ==
    LET lines == LinesOf(text)
    IN  <<2>> \o Deltas([i \in DOMAIN lines |-> Escaped(lines[i])], LengthBytes) \o EndMark

-----------------------------------------------------------------------------
(* prezip -d                                                                *)

\* The length at place i, and where its last byte is.
LengthAt(data, i) ==
    LET last == Min({j \in (i + 1)..(Len(data) + 1) : ByteAt(data, j) # 255})
    IN  IF ByteAt(data, i) # 30 THEN [n |-> ByteAt(data, i), last |-> i]
        ELSE [n |-> 30 + 255 * (last - i - 1) + ByteAt(data, last), last |-> last]

\* Writing a word out: the mark of the end is the last thing there is.
Unescape(acc, cur, i) ==
    CASE acc.escaped /\ cur[i] \in 32..63 ->
            [acc EXCEPT !.out = Append(@, cur[i] - 32), !.escaped = FALSE]
      [] acc.escaped /\ cur[i] = 255 ->
            [acc EXCEPT !.ret = IF i = Len(cur) THEN 0 ELSE 3, !.escaped = FALSE]
      [] acc.escaped /\ cur[i] \notin (32..63) \cup {255} ->
            [acc EXCEPT !.ret = 3, !.escaped = FALSE]
      [] ~acc.escaped /\ cur[i] = EscapeSign -> [acc EXCEPT !.escaped = TRUE]
      [] OTHER -> [acc EXCEPT !.out = Append(@, cur[i])]
Unescaped(cur, ret) ==
    IF \A i \in DOMAIN cur : cur[i] # EscapeSign
    THEN [out |-> cur, ret |-> ret, escaped |-> FALSE]
    ELSE FoldLeft(LAMBDA acc, i : Unescape(acc, cur, i),
                  [out |-> <<>>, ret |-> ret, escaped |-> FALSE], [i \in DOMAIN cur |-> i])

\* One line from the length at i on, with cur the word before; -1 is to go on.  With the
\* end of the file for a length the code walks on for good.  A word that ends in the
\* sign of an escape is corrupt, and what else is in the buffer is written as well.
UnzipLine(data, i, cur) ==
    LET length == LengthAt(data, i)
        end == RunOf(data, length.last + 1, 30)
        word == IF length.n > Len(cur) THEN cur
                ELSE SubSeq(cur, 1, length.n) \o SubSeq(data, length.last + 1, end)
        written == Unescaped(word, IF length.n > Len(cur) THEN 3 ELSE -1)
    IN  [next |-> end + 1, cur |-> word, out |-> written.out,
         ret |-> IF EOF \in {ByteAt(data, i), ByteAt(data, length.last)} THEN Undefined
                 ELSE IF written.escaped THEN 3
                 ELSE IF written.ret < 0 /\ ByteAt(data, end + 1) = EOF THEN 4 ELSE written.ret]

\* After the mark of the end another archive may follow.
RECURSIVE UnzipFrom(_, _, _, _)
UnzipFrom(data, i, cur, out) ==
    LET line == UnzipLine(data, i, cur)
        text == out \o line.out
    IN  CASE line.ret = -1 -> UnzipFrom(data, line.next, line.cur, Append(text, Newline))
          [] line.ret = 0 /\ ByteAt(data, line.next) = EOF -> [out |-> text, ret |-> 0]
          [] line.ret = 0 /\ ByteAt(data, line.next) = 2 ->
                UnzipFrom(data, line.next + 1, line.cur, text)
          [] line.ret = 0 /\ ByteAt(data, line.next) \notin {EOF, 2} -> [out |-> text, ret |-> 3]
          [] OTHER -> [out |-> Append(text, Newline), ret |-> line.ret]

\* The format of word-list-compress: lengths count from one, and a zero goes before
\* those that could be taken for a letter.  It has no end but that of the file.
RECURSIVE ExpandFrom(_, _, _, _, _, _)
ExpandFrom(data, i, cur, out, size, err) ==
    LET at == IF ByteAt(data, i) = 0 THEN i + 1 ELSE i
        n == ByteAt(data, at) - 1
        end == RunOf(data, at + 1, 32)
        word == SubSeq(cur, 1, n) \o SubSeq(data, at + 1, end)
    IN  CASE ByteAt(data, i) = EOF -> [out |-> out, ret |-> 0]
          [] ByteAt(data, i) # EOF /\ (n < 0 \/ n > Len(cur) \/ Len(word) >= size) ->
                [out |-> out, ret |-> err]
          [] OTHER -> ExpandFrom(data, end + 1, word, out \o word \o <<Newline>>, size, err)

Unzipped(data) ==
    CASE ByteAt(data, 1) = 2 -> UnzipFrom(data, 2, <<>>, <<>>)
      [] ByteAt(data, 1) = 1 -> ExpandFrom(data, 1, <<>>, <<>>, Len(data) + 1, 3)
      [] OTHER -> [out |-> <<>>, ret |-> 2]

-----------------------------------------------------------------------------
(* word-list-compress                                                       *)

\* get_word: what stands between the blanks.  The last word is dropped if nothing
\* follows it; one that is too long is the end, and all before it has been written.
WordEnds(text) ==
    LET blanks == {i \in DOMAIN text : text[i] <= 32}
    IN  {i \in blanks \cup {Len(text) + 1} : i > 1 /\ i - 1 \notin blanks}
WordTo(text, end) ==
    SubSeq(text, 1 + Max({0} \cup {i \in 1..(end - 1) : text[i] <= 32}), end - 1)

ListCompressed(text) ==
    LET long == {e \in WordEnds(text) : Len(WordTo(text, e)) >= BUFSIZE}
        ends == PlacesInOrder({e \in WordEnds(text) \cap DOMAIN text : \A l \in long : e < l})
        Length(n) == IF n > 31 THEN <<0, n + 1>> ELSE <<n + 1>>
    IN  [data |-> Deltas([k \in DOMAIN ends |-> WordTo(text, ends[k])], Length),
         ret |-> IF long = {} THEN 0 ELSE 2]

ListDecompressed(data) ==
    IF ByteAt(data, 1) # 1 THEN [out |-> <<>>, ret |-> 2]
    ELSE ExpandFrom(data, 1, <<>>, <<>>, BUFSIZE, 2)
=============================================================================
