------------------------------ MODULE Convert ------------------------------
(***************************************************************************)
(* Conversion between the encoding of the user and the 8-bit one of the    *)
(* language (common/convert.cpp).                                          *)
(*                                                                         *)
(* In between a text is a sequence of FilterChars: a character, and the    *)
(* number of bytes of the user's text it stands for.  The places of words  *)
(* are sums of these widths, so that every conversion has to keep them.    *)
(*                                                                         *)
(* The user's encoding is UTF-8; bytes and characters are numbers.  The    *)
(* tables of a language are its .cset (a character for every byte) and,    *)
(* with the option normalize, its .cmap (a tree of sequences of            *)
(* characters, and one of sequences of bytes), as they stand in the files. *)
(***************************************************************************)
EXTENDS Integers, Sequences, SequencesExt, FiniteSetsExt

CONSTANTS
  Charset,       \* the .cset: a function from bytes to characters
  FromUni,       \* the table INTERNAL of the .cmap: a sequence of entries
  ToUni          \* the table of the option norm-form

\* An entry [from, to, sub]: sub is the table of what may follow, to is empty ("-") if
\* from alone is nothing.
ASSUME CharsetAssumption == \A b \in DOMAIN Charset : b \in 0..255 /\ Charset[b] \in Nat

QuestionMark == 63

FilterChar(chr, width) == [chr |-> chr, width |-> width]
Width(chars) == FoldLeft(LAMBDA n, c : n + c.width, 0, chars)
Chars(chars) == [i \in DOMAIN chars |-> chars[i].chr]

-----------------------------------------------------------------------------
(* UTF-8                                                                    *)

Continues(s, i) == i \in DOMAIN s /\ s[i] \div 64 = 2

\* How many bytes are to follow the first one; 9: it is none to begin with.
Following(b) == CASE b < 128 -> 0
                  [] b \div 32 = 6 -> 1
                  [] b \div 16 = 14 -> 2
                  [] b \div 8 = 30 -> 3
                  [] OTHER -> 9
FirstBits(b) == CASE b < 128 -> b
                  [] b \div 32 = 6 -> b % 32
                  [] b \div 16 = 14 -> b % 16
                  [] OTHER -> b % 8

\* from_utf8 at i: a byte that does not fit is left for the next character, what was
\* read so far is one that cannot be told.
FromUtf8(s, i) ==
  LET wanted == Following(s[i])
      bad == {k \in 1..3 : ~Continues(s, i + k)}
      there == IF wanted > 3 THEN 0
               ELSE IF bad = {} \/ wanted < Min(bad) THEN wanted ELSE Min(bad) - 1
      value == FoldLeft(LAMBDA u, b : (u * 64) + (b % 64), FirstBits(s[i]),
                        SubSeq(s, i + 1, i + there))
  IN  FilterChar(IF there = wanted THEN value ELSE QuestionMark, there + 1)

\* DecodeUtf8
Decode(s) ==
  LET from[i \in 1..(Len(s) + 1)] ==
        IF i > Len(s) THEN <<>>
        ELSE LET c == FromUtf8(s, i) IN <<c>> \o from[i + c.width]
  IN  from[1]

\* to_utf8, and EncodeUtf8.
ToUtf8(c) ==
  CASE c < 128 -> <<c>>
    [] c >= 128 /\ c < 2048 -> <<192 + (c \div 64), 128 + (c % 64)>>
    [] c >= 2048 /\ c < 65536 ->
         <<224 + (c \div 4096), 128 + ((c \div 64) % 64), 128 + (c % 64)>>
    [] c >= 65536 /\ c < 2097152 ->
         <<240 + (c \div 262144), 128 + ((c \div 4096) % 64),
           128 + ((c \div 64) % 64), 128 + (c % 64)>>
    [] OTHER -> <<>>
EncodeUtf8(chars) == FlattenSeq([i \in DOMAIN chars |-> ToUtf8(chars[i])])

\* MBLen: the characters among the first n bytes, counted by those that begin one.
MBLen(s, n) == Cardinality({i \in 1..n : s[i] < 128 \/ s[i] >= 192})

-----------------------------------------------------------------------------
(* One byte, one character                                                  *)

\* ToUniLookup is the .cset itself.  FromUniLookup: four places for the characters
\* that agree in the low byte; the list of further ones is written and never searched,
\* since nobody moves its end.
Places == 4
InsertChar(table, uni, byte) ==
  LET row == table[uni % 256]
  IN  IF Len(row) = Places \/ \E i \in DOMAIN row : row[i].key = uni THEN table
      ELSE [table EXCEPT ![uni % 256] = Append(@, [key |-> uni, value |-> byte])]
FromUniLookup ==
  FoldFunction(LAMBDA b, table : InsertChar(table, Charset[b], b),
               [low \in 0..255 |-> <<>>], [b \in DOMAIN Charset |-> b])

LookupChar(table, uni) ==
  LET row == table[uni % 256]
      found == {i \in DOMAIN row : row[i].key = uni}
  IN  IF found = {} THEN QuestionMark ELSE row[Min(found)].value

\* DecodeLookup, and EncodeLookup: every character keeps its width.
DecodeLookup(word) == [i \in DOMAIN word |-> Charset[word[i]]]
EncodeLookup(chars) ==
  [i \in DOMAIN chars |->
     FilterChar(LookupChar(FromUniLookup, chars[i].chr), chars[i].width)]

-----------------------------------------------------------------------------
(* Sequences, one after the other                                           *)

\* Tally: how many keys share a place of a table of that size, at most.
Share(entries, size, place) ==
  SelectSeq(entries, LAMBDA e : e.from % size = place)
Tally(entries, size) == Max({Len(Share(entries, size, p)) : p \in 0..(size - 1)})

RECURSIVE PowerBelow(_)
PowerBelow(n) == IF n <= 1 THEN 1 ELSE 2 * PowerBelow(n \div 2)

\* create_norm_table: the size, of three, with the shortest columns.
TableSize(entries) ==
  LET small == PowerBelow(Len(entries) - 1)
      better == IF Tally(entries, small) > Tally(entries, 2 * small)
                THEN 2 * small ELSE small
  IN  IF Tally(entries, better) > Tally(entries, 4 * small) THEN 4 * small ELSE better

RECURSIVE NormTable(_)
NormTable(entries) ==
  LET size == TableSize(entries)
      Made(e) == [from |-> e.from, to |-> e.to,
                  sub |-> IF e.sub = <<>> THEN <<>> ELSE <<NormTable(e.sub)>>]
  IN  [size |-> size,
       column |-> [p \in 0..(size - 1) |->
                     LET share == Share(entries, size, p)
                     IN  [i \in DOMAIN share |-> Made(share[i])]]]

\* The entry of a character; zero is nobody's.
EntryOf(table, c) ==
  LET column == table.column[c % table.size]
  IN  {column[i] : i \in {i \in DOMAIN column : column[i].from = c /\ c # 0}}

\* norm_lookup in s from i on: what the longest sequence with an entry stands for and
\* where it ends; best is the longest so far.
RECURSIVE NormLookupHasty(_, _, _, _)
NormLookupHasty(table, s, i, best) ==
  LET found == IF i > Len(s) THEN {} ELSE EntryOf(table, s[i])
      e == CHOOSE e \in found : TRUE
  IN  IF found = {} THEN best
      ELSE IF e.sub = <<>> THEN [to |-> e.to, last |-> i]
      ELSE NormLookupHasty(e.sub[1], s, i + 1, best)

RECURSIVE NormLookup(_, _, _, _)
NormLookup(table, s, i, best) ==
  LET found == IF i > Len(s) THEN {} ELSE EntryOf(table, s[i])
      e == CHOOSE e \in found : TRUE
  IN  IF found = {} THEN best
      ELSE IF e.sub = <<>> THEN [to |-> e.to, last |-> i]
      ELSE NormLookup(e.sub[1], s, i + 1,
                      IF e.to = <<>> THEN best ELSE [to |-> e.to, last |-> i])

FromUniTable == NormTable(FromUni)
ToUniTable == NormTable(ToUni)

\* EncodeNormLookup: the first byte stands for all that the sequence stood for.
Stands(to, width) ==
  [k \in DOMAIN to |-> FilterChar(to[k], IF k = 1 THEN width ELSE 0)]
EncodeNormLookup(chars) ==
  LET s == Chars(chars)
      from[i \in 1..(Len(chars) + 1)] ==
        IF i > Len(chars) THEN <<>>
        ELSE IF s[i] = 0 THEN <<FilterChar(0, 1)>> \o from[i + 1]
        ELSE LET r == NormLookup(FromUniTable, s, i, [to |-> <<QuestionMark>>, last |-> i])
             IN  Stands(r.to, Width(SubSeq(chars, i, r.last))) \o from[r.last + 1]
  IN  from[1]

\* DecodeNormLookup: every byte has an entry.
DecodeNormLookup(word) ==
  LET from[i \in 1..(Len(word) + 1)] ==
        IF i > Len(word) THEN <<>>
        ELSE IF word[i] = 0 THEN <<0>> \o from[i + 1]
        ELSE LET r == NormLookup(ToUniTable, word, i, [to |-> <<>>, last |-> i])
             IN  r.to \o from[r.last + 1]
  IN  from[1]

-----------------------------------------------------------------------------

\* to_internal_ and from_internal_ of a speller, with and without normalize.
Encode(chars, normalize) ==
  IF normalize THEN EncodeNormLookup(chars) ELSE EncodeLookup(chars)
ToInternal(s, normalize) == Chars(Encode(Decode(s), normalize))
FromInternal(word, normalize) ==
  EncodeUtf8(IF normalize THEN DecodeNormLookup(word)
             ELSE DecodeLookup(word))

-----------------------------------------------------------------------------
(* What an entry of the files means, whatever the tables are hashed to.     *)

\* The sequences that have an entry, each with what it stands for.
RECURSIVE Sequences_(_)
Sequences_(entries) ==
  UNION {LET e == entries[i]
         IN  (IF e.to = <<>> THEN {} ELSE {[seq |-> <<e.from>>, to |-> e.to]})
             \cup {[seq |-> <<e.from>> \o r.seq, to |-> r.to] : r \in Sequences_(e.sub)}
         : i \in DOMAIN entries}
FromUniSequences == Sequences_(FromUni)

\* Cut from the left into the longest sequences.
RECURSIVE Longest(_)
Longest(chars) ==
  LET fit == {r \in FromUniSequences : IsPrefix(r.seq, Chars(chars))}
      r == CHOOSE r \in fit : \A q \in fit : Len(q.seq) <= Len(r.seq)
      n == IF fit = {} THEN 1 ELSE Len(r.seq)
      to == IF fit = {} THEN <<QuestionMark>> ELSE r.to
  IN  IF chars = <<>> THEN <<>>
      ELSE Stands(to, Width(SubSeq(chars, 1, n))) \o Longest(SubSeq(chars, n + 1, Len(chars)))
=============================================================================
