------------------------------- MODULE SdsText -------------------------------
(***************************************************************************)
(* The functions of sds.c that take texts apart and put them together:     *)
(* sdssplitlen and sdsjoin, sdscatrepr and sdssplitargs, numbers in        *)
(* decimal, comparison.  Texts are sequences of characters; that the       *)
(* strings behind them hold what is appended is shown in Sds.              *)
(***************************************************************************)
EXTENDS Integers, Sequences, SequencesExt, FiniteSetsExt

CONSTANTS
  TextChars,     \* characters of a text, NUL included; the order is that of Order
  TextLen,       \* bound: length of a text
  MaxNumber      \* bound: size of a number

ASSUME TextAssumption == TextLen \in Nat /\ MaxNumber \in Nat

VARIABLES
  textIn,    \* the input: two texts, a text and a separator, or a number
  textOut    \* what the functions give for it, or Untried

textVars == <<textIn, textOut>>

Nul == "NUL"
Untried == <<>>

Words(n) == UNION {[1..k -> TextChars] : k \in 0..n}

-----------------------------------------------------------------------------
(* sdssplitlen, sdsjoin, sdsjoinsds.                                        *)

\* Where the search goes on after a separator at offset j.
skip(j, sep) == j + Len(sep)

\* The tokens from offset start on, when the search is at offset j.  The program splits at
\* one character; with a longer separator len - (seplen - 1) must not be negative.
RECURSIVE tokens(_, _, _, _)
tokens(s, sep, start, j) ==
  IF j >= Len(s) - (Len(sep) - 1) THEN <<SubSeq(s, start + 1, Len(s))>>
  ELSE IF SubSeq(s, j + 1, j + Len(sep)) = sep
       THEN <<SubSeq(s, start + 1, j)>> \o tokens(s, sep, j + Len(sep), skip(j, sep))
       ELSE tokens(s, sep, start, j + 1)

sdssplitlen(s, sep) == IF s = <<>> THEN <<>> ELSE tokens(s, sep, 0, 0)

sdsjoin(argv, sep) ==
  FoldLeft(LAMBDA join, j : join \o argv[j] \o (IF j # Len(argv) THEN sep ELSE <<>>),
           <<>>, [j \in 1..Len(argv) |-> j])

-----------------------------------------------------------------------------
(* sdscatrepr, sdssplitargs.                                                *)

\* The characters with an escape of their own, and how it is written; any other character
\* that is not printable is written as two hex digits.
Escape == [c \in {"LF", "BEL"} |-> IF c = "LF" THEN "n" ELSE "a"]
Quoted == {"bs", "dq"}
Hex == [c \in {Nul, "VT"} |-> IF c = Nul THEN <<"0", "0">> ELSE <<"0", "b">>]

is_hex_digit(c) == c \in {"0", "a", "b"}

\* Mutant: a backslash is copied as it is.
repr_Bare(c) ==
  CASE c = "dq" -> <<"bs", c>>
    [] c \in DOMAIN Escape -> <<"bs", Escape[c]>>
    [] c \in DOMAIN Hex -> <<"bs", "x">> \o Hex[c]
    [] OTHER -> <<c>>

repr(c) ==
  CASE c \in Quoted -> <<"bs", c>>
    [] c \in DOMAIN Escape -> <<"bs", Escape[c]>>
    [] c \in DOMAIN Hex -> <<"bs", "x">> \o Hex[c]
    [] OTHER -> <<c>>

sdscatrepr(s, p) == s \o <<"dq">> \o FlattenSeq([i \in 1..Len(p) |-> repr(p[i])]) \o <<"dq">>

Space == {" ", "LF", "VT"}         \* isspace
TokenEnd == {" ", "LF", Nul}       \* the ends of a token without quotes

\* *p, where the text ends with NUL.
CharAt(line, p) == IF p <= Len(line) THEN line[p] ELSE Nul

\* One token from p on, inside double quotes, single quotes or none: where it ends and its
\* text, or an error.
RECURSIVE token(_, _, _, _)
token(line, p, quotes, current) ==
  LET c == CharAt(line, p)
      next == CharAt(line, p + 1)
      Go(n, q, text) == token(line, p + n, q, current \o text)
      unescaped == IF \E k \in DOMAIN Escape : Escape[k] = next
                   THEN CHOOSE k \in DOMAIN Escape : Escape[k] = next ELSE next
      hex == <<CharAt(line, p + 2), CharAt(line, p + 3)>>
      isHex == next = "x" /\ is_hex_digit(hex[1]) /\ is_hex_digit(hex[2])
      Done == [ok |-> TRUE, p |-> IF c = Nul THEN p ELSE p + 1, text |-> current]
      Closed == IF next = Nul \/ next \in Space THEN Done ELSE [ok |-> FALSE]
  IN  CASE quotes = "dq" ->
             (CASE c = "bs" /\ isHex -> Go(4, quotes, <<CHOOSE k \in DOMAIN Hex : Hex[k] = hex>>)
                [] c = "bs" /\ next # Nul /\ ~isHex -> Go(2, quotes, <<unescaped>>)
                [] c = "dq" -> Closed
                [] c = Nul -> [ok |-> FALSE]
                [] OTHER -> Go(1, quotes, <<c>>))
        [] quotes = "sq" ->
             (CASE c = "bs" /\ next = "sq" -> Go(2, quotes, <<"sq">>)
                [] c = "sq" -> Closed
                [] c = Nul -> [ok |-> FALSE]
                [] OTHER -> Go(1, quotes, <<c>>))
        [] OTHER ->
             (CASE c \in TokenEnd -> Done
                [] c \in {"dq", "sq"} -> Go(1, c, <<>>)
                [] OTHER -> Go(1, quotes, <<c>>))

\* The arguments from p on; <<Nul>> stands for the NULL that is returned for an error.
RECURSIVE arguments(_, _, _)
arguments(line, p, vector) ==
  IF CharAt(line, p) = Nul THEN vector
  ELSE IF CharAt(line, p) \in Space THEN arguments(line, p + 1, vector)
  ELSE LET t == token(line, p, "none", <<>>)
       IN  IF t.ok THEN arguments(line, t.p, Append(vector, t.text)) ELSE <<Nul>>

sdssplitargs(line) == arguments(line, 1, <<>>)

-----------------------------------------------------------------------------
(* Numbers, comparison.                                                     *)

\* The digits of v, the last one first.
RECURSIVE reversed(_)
reversed(v) == <<v % 10>> \o (IF v < 10 THEN <<>> ELSE reversed(v \div 10))

Minus == -1     \* the character -; the other characters of a number are its digits

sdsull2str(v) == Reverse(reversed(v))
sdsll2str(value) ==
  Reverse(reversed(IF value < 0 THEN -value ELSE value) \o (IF value < 0 THEN <<Minus>> ELSE <<>>))

\* memcmp of the common part, then the lengths.  Order[c] is the code of a character.
Codes == <<Nul, "BEL", "LF", "VT", " ", "dq", "sq", "0", "a", "b", "bs", "n", "x">>
Order == [c \in Range(Codes) |-> CHOOSE i \in 1..Len(Codes) : Codes[i] = c]
sdscmp(a, b) ==
  LET n == Min({Len(a), Len(b)})
      diff == {i \in 1..n : a[i] # b[i]}
      code(s) == Order[s[Min(diff)]]
  IN  IF diff # {} THEN (IF code(a) < code(b) THEN -1 ELSE 1)
      ELSE IF Len(a) > Len(b) THEN 1 ELSE IF Len(a) < Len(b) THEN -1 ELSE 0

sdscontains(s, chars) == \E i \in 1..Len(s), j \in 1..Len(chars) : s[i] = chars[j]

-----------------------------------------------------------------------------
(* One call on one input.                                                   *)

Separators == {<<" ">>, <<"a", "a">>}

TextInit ==
  /\ textIn \in [kind : {"quote", "compare"}, a : Words(TextLen), b : {<<>>, <<"a">>, <<"dq", " ">>}]
           \cup [kind : {"split"}, a : Words(TextLen), b : Separators]
           \cup [kind : {"number"}, a : (-MaxNumber)..MaxNumber]
  /\ textOut = Untried

\* Two texts are quoted on one line, and the line is split into arguments.
Quote == /\ textIn.kind = "quote"
         /\ textOut' = <<sdssplitargs(sdscatrepr(Append(sdscatrepr(<<>>, textIn.a), " "), textIn.b))>>
\* A text is split at a separator, and joined again.
Split == /\ textIn.kind = "split"
         /\ LET parts == sdssplitlen(textIn.a, textIn.b)
            IN  textOut' = <<parts, sdsjoin(parts, textIn.b)>>
Number == textIn.kind = "number" /\ textOut' = <<sdsll2str(textIn.a)>>
Compare == /\ textIn.kind = "compare"
           /\ textOut' = <<sdscmp(textIn.a, textIn.b), sdscmp(textIn.b, textIn.a),
                           sdscontains(textIn.a, textIn.b)>>

TextNext ==
  /\ textOut = Untried
  /\ Quote \/ Split \/ Number \/ Compare
  /\ UNCHANGED textIn

-----------------------------------------------------------------------------
(* Properties.                                                              *)

\* The separator occurs nowhere in a text.
Free(text, sep) == \A i \in 1..(Len(text) - Len(sep) + 1) : SubSeq(text, i, i + Len(sep) - 1) # sep

\* The number a sequence of digits stands for.
Value10(s) == FoldLeft(LAMBDA v, d : 10 * v + d, 0, s)
Value(s) == IF s[1] = Minus THEN -Value10(Tail(s)) ELSE Value10(s)

\* The conversions of sds.c lose nothing: what sdscatrepr quotes, sdssplitargs reads back as
\* the same arguments, blanks, quotes and unprintable characters included; the parts of
\* sdssplitlen are free of the separator and sdsjoin puts the text together again; the digits
\* of sdsll2str stand for the number; sdscmp is zero for equal texts only and antisymmetric.
TextKept ==
  textOut # Untried =>
    CASE textIn.kind = "quote" -> textOut[1] = <<textIn.a, textIn.b>>
      [] textIn.kind = "split" ->
           /\ textOut[2] = textIn.a
           /\ \A i \in 1..Len(textOut[1]) : Free(textOut[1][i], textIn.b)
      [] textIn.kind = "number" -> Value(textOut[1]) = textIn.a
      [] OTHER -> /\ textOut[1] = -textOut[2]
                  /\ textOut[1] = 0 <=> textIn.a = textIn.b
                  /\ textOut[3] <=> Range(textIn.a) \cap Range(textIn.b) # {}

=============================================================================
