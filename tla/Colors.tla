-------------------------------- MODULE Colors --------------------------------
(***************************************************************************)
(* Colour codes of messages (colors.c): removed before a message is        *)
(* logged, turned into [tags], and turned back.  Every function goes over  *)
(* its source twice: the first pass counts, the second one writes into as  *)
(* much memory as was counted.                                             *)
(*                                                                         *)
(* A message is a sequence of symbols <<s, fg, bg>>: a character, or the   *)
(* word of a tag, which is Width characters long.  Only the word "COLOR="  *)
(* has colours.                                                            *)
(***************************************************************************)
EXTENDS Integers, Sequences, FiniteSets, SequencesExt

CONSTANTS
  CodedGlyphs,  \* characters of a message with codes
  TaggedGlyphs, \* characters and words, other than "COLOR=", of a message with tags
  TagColours,   \* colours of the words "COLOR=" in a message with tags: <<fg, bg>>
  MessageLen    \* bound: symbols of a message

ASSUME ColorAssumption ==
  /\ MessageLen \in Nat /\ TagColours \subseteq (Int \X Int)

VARIABLES
  colorIn,      \* the function called and the message
  colorOut      \* what it counted and what it wrote, or NoOutput

colorVars == <<colorIn, colorOut>>

NoOutput == [counted |-> 0, text |-> <<>>, sound |-> FALSE]

NoColour == -1
Sym(s) == <<s, NoColour, NoColour>>
ColourWord == "COLOR="
WordsOfTags == {ColourWord, "/COLOR", "B", "/B", "U", "/U", "I", "/I"}
Digits == <<"0", "1", "2", "3", "4", "5", "6", "7", "8", "9">>
Bold == "0x02"
Colour == "0x03"
Reset == "0x0F"
Reversed == "0x16"
Underline == "0x1F"

isdigit(s) == \E d \in 1 .. 10 : Digits[d] = s
Digit(s) == (CHOOSE d \in 1 .. 10 : Digits[d] = s) - 1
Glyph(m, p) == IF p \in 1 .. Len(m) THEN m[p][1] ELSE "NUL"

MaxColors == 15
color_replacement_table ==
  <<"WHITE", "BLACK", "DARKBLUE", "DARKGREEN", "RED", "BROWN", "PURPLE", "OLIVE", "YELLOW",
    "GREEN", "TEAL", "CYAN", "BLUE", "MAGENTA", "DARKGRAY", "LIGHTGRAY">>

libirc_colorparser_colorlookup(color) == IF color \in 0 .. MaxColors THEN color ELSE -1

\* Characters of a symbol, and of a text.
NameWidth(c) == IF c \in 0 .. MaxColors THEN Len(color_replacement_table[c + 1]) ELSE 1
Width(sym) ==
  IF sym[1] = ColourWord
  THEN 6 + NameWidth(sym[2]) + (IF sym[3] = NoColour THEN 0 ELSE 1 + NameWidth(sym[3]))
  ELSE IF sym[1] \in WordsOfTags THEN Len(sym[1]) ELSE 1
strlen(text) == FoldLeft(LAMBDA n, sym : n + Width(sym), 0, text)

-----------------------------------------------------------------------------
(* libirc_colorparser_irc2code.  A pass has the mask of open tags, the      *)
(* background colour, and its output.                                       *)

Tag(word) == <<Sym("["), word, Sym("]")>>
CloseTag == [b |-> Tag(Sym("/B")), u |-> Tag(Sym("/U")), i |-> Tag(Sym("/I")), c |-> Tag(Sym("/COLOR"))]
OpenTag == [b |-> Tag(Sym("B")), u |-> Tag(Sym("U")), i |-> Tag(Sym("I"))]
Toggle == [s \in {Bold, Underline, Reversed} |-> IF s = Bold THEN "b" ELSE IF s = Underline THEN "u" ELSE "i"]

libirc_colorparser_addorcat(pass, str) == [pass EXCEPT !.out = @ \o str]

libirc_colorparser_applymask(pass, bit) ==
  IF bit \in pass.mask
  THEN libirc_colorparser_addorcat([pass EXCEPT !.mask = @ \ {bit}], CloseTag[bit])
  ELSE libirc_colorparser_addorcat([pass EXCEPT !.mask = @ \cup {bit}], OpenTag[bit])

\* Colour 0 as a background is no background.
libirc_colorparser_applycolor(pass, color) ==
  LET startbuf == Tag(<<ColourWord, color, IF pass.bg # 0 THEN pass.bg ELSE NoColour>>)
      closed == IF "c" \in pass.mask THEN libirc_colorparser_addorcat(pass, CloseTag.c) ELSE pass
  IN  libirc_colorparser_addorcat([closed EXCEPT !.mask = @ \cup {"c"}], startbuf)

\* Mutant: tags stay open.
libirc_colorparser_closetags_None(pass) == pass

libirc_colorparser_closetags(pass) ==
  FoldLeft(LAMBDA s, bit : IF bit \in s.mask THEN libirc_colorparser_applymask(s, bit) ELSE s,
           pass, <<"b", "u", "i", "c">>)

\* The colours after a code at p, one or two digits each, and the last place read.
set_color(m, p) ==
  LET two == isdigit(Glyph(m, p + 2))
      q == IF two THEN p + 2 ELSE p + 1
      bg == Glyph(m, q + 1) = "," /\ isdigit(Glyph(m, q + 2))
      bgTwo == bg /\ isdigit(Glyph(m, q + 3))
      color == IF two THEN 10 * Digit(Glyph(m, p + 1)) + Digit(Glyph(m, p + 2)) ELSE Digit(Glyph(m, p + 1))
      bgcolor == IF bgTwo THEN 10 * Digit(Glyph(m, q + 2)) + Digit(Glyph(m, q + 3))
                 ELSE IF bg THEN Digit(Glyph(m, q + 2)) ELSE -1
  IN  [color |-> color, bgcolor |-> bgcolor,
       last |-> IF bgTwo THEN q + 3 ELSE IF bg THEN q + 2 ELSE q]

\* The for loop of a pass, from place p on.
RECURSIVE scan(_, _, _, _)
scan(m, strip, p, pass) ==
  LET s == Glyph(m, p)
      on(n, next) == scan(m, strip, n, next)
      set == set_color(m, p)
      bg == IF set.bgcolor # -1 THEN [pass EXCEPT !.bg = set.bgcolor] ELSE pass
  IN  IF p > Len(m) THEN pass
      ELSE IF s \in DOMAIN Toggle
           THEN on(p + 1, IF strip THEN pass ELSE libirc_colorparser_applymask(pass, Toggle[s]))
      ELSE IF s = Reset THEN on(p + 1, IF strip THEN pass ELSE libirc_colorparser_closetags(pass))
      ELSE IF s = Colour
           THEN IF ~isdigit(Glyph(m, p + 1)) THEN on(p + 1, pass)
                ELSE on(set.last + 1,
                        IF strip \/ set.color > MaxColors \/ set.bgcolor > MaxColors THEN pass
                        ELSE libirc_colorparser_applycolor(bg, set.color))
      ELSE on(p + 1, libirc_colorparser_addorcat(pass, <<m[p]>>))

\* The background colour that the first pass ends with is that the second one starts with.
libirc_colorparser_irc2code(m, strip) ==
  LET first == libirc_colorparser_closetags(scan(m, strip, 1, [mask |-> {}, bg |-> 0, out |-> <<>>]))
      second == libirc_colorparser_closetags(scan(m, strip, 1, [first EXCEPT !.out = <<>>]))
  IN  [counted |-> strlen(first.out) + 1, text |-> second.out, sound |-> TRUE]

irc_color_strip_from_mirc(m) == libirc_colorparser_irc2code(m, TRUE)
irc_color_convert_from_mirc(m) == libirc_colorparser_irc2code(m, FALSE)

-----------------------------------------------------------------------------
(* irc_color_convert_to_mirc.                                               *)

FirstAt(m, from, s) ==
  LET at == {p \in from .. Len(m) : m[p][1] = s}
  IN  IF at = {} THEN 0 ELSE CHOOSE p \in at : \A q \in at : p <= q

Decimal(n) == <<Sym(Digits[(n \div 10) + 1]), Sym(Digits[(n % 10) + 1])>>

\* What stands for a tag, or nothing.
replacedval(content) ==
  LET word == content[1]
      color == libirc_colorparser_colorlookup(word[2])
      bgcolor == IF word[3] = NoColour THEN -2 ELSE libirc_colorparser_colorlookup(word[3])
  IN  IF Len(content) # 1 \/ strlen(content) >= 30 THEN <<>>
      ELSE CASE word[1] = "/COLOR" -> <<Sym(Reset)>>
             [] word[1] = ColourWord /\ color # -1 /\ bgcolor = -2 -> <<Sym(Colour)>> \o Decimal(color)
             [] word[1] = ColourWord /\ color # -1 /\ bgcolor >= 0 ->
                  <<Sym(Colour)>> \o Decimal(color) \o <<Sym(",")>> \o Decimal(bgcolor)
             [] word[1] \in {"B", "/B"} -> <<Sym(Bold)>>
             [] word[1] \in {"U", "/U"} -> <<Sym(Underline)>>
             [] word[1] \in {"I", "/I"} -> <<Sym(Reversed)>>
             [] OTHER -> <<>>

\* The part before a tag.
before(m, cur, p1) == SubSeq(m, cur, p1 - 1)

\* The while loop of a pass, from place cur on.  Without a closing bracket the terminator is
\* copied and the search goes on behind it: sound is FALSE from there on.
RECURSIVE replace(_, _, _)
replace(m, cur, out) ==
  LET p1 == FirstAt(m, cur, "[")
      p2 == FirstAt(m, p1, "]")
      value == IF p2 > p1 + 1 THEN replacedval(SubSeq(m, p1 + 1, p2 - 1)) ELSE <<>>
  IN  IF p1 = 0 THEN [out |-> out \o SubSeq(m, cur, Len(m)), sound |-> TRUE]
      ELSE IF p2 = 0 THEN [out |-> out, sound |-> FALSE]
      ELSE IF value # <<>> THEN replace(m, p2 + 1, out \o before(m, cur, p1) \o value)
      ELSE replace(m, p2 + 1, out \o SubSeq(m, cur, p2))

irc_color_convert_to_mirc(m) ==
  LET pass == replace(m, 1, <<>>)
  IN  [counted |-> strlen(pass.out) + 1, text |-> pass.out, sound |-> pass.sound]

-----------------------------------------------------------------------------
(* One call on one message.                                                 *)

Coded == {Sym(s) : s \in CodedGlyphs}
Tagged == {Sym(s) : s \in TaggedGlyphs} \cup {<<ColourWord, c[1], c[2]>> : c \in TagColours}

ColorInit ==
  /\ \E n \in 0 .. MessageLen :
       colorIn \in [function : {"strip", "from", "back"}, message : [1 .. n -> Coded]]
              \cup [function : {"to"}, message : [1 .. n -> Tagged]]
  /\ colorOut = NoOutput

Strip == colorIn.function = "strip" /\ colorOut' = irc_color_strip_from_mirc(colorIn.message)
FromMirc == colorIn.function = "from" /\ colorOut' = irc_color_convert_from_mirc(colorIn.message)
ToMirc == colorIn.function = "to" /\ colorOut' = irc_color_convert_to_mirc(colorIn.message)
\* Into tags and back.
Back == /\ colorIn.function = "back"
        /\ colorOut' = irc_color_convert_to_mirc(irc_color_convert_from_mirc(colorIn.message).text)

ColorNext ==
  /\ colorOut = NoOutput
  /\ Strip \/ FromMirc \/ ToMirc \/ Back
  /\ UNCHANGED colorIn

-----------------------------------------------------------------------------
(* Properties.                                                              *)

\* Reference: the places that belong to a colour code starting at p.
Number(m, p) == IF isdigit(Glyph(m, p)) /\ isdigit(Glyph(m, p + 1)) THEN 2 ELSE 1
CodeEnd(m, p) ==
  LET fg == IF isdigit(Glyph(m, p + 1)) THEN p + Number(m, p + 1) ELSE p
      comma == fg > p /\ Glyph(m, fg + 1) = "," /\ isdigit(Glyph(m, fg + 2))
  IN  IF comma THEN fg + 1 + Number(m, fg + 2) ELSE fg
InCode(m, p) ==
  \/ m[p][1] \in {Bold, Underline, Reversed, Reset}
  \/ \E q \in 1 .. p : m[q][1] = Colour /\ p \in q .. CodeEnd(m, q)
Plain(m) == SelectSeq([p \in 1 .. Len(m) |-> <<m[p], InCode(m, p)>>], LAMBDA x : ~x[2])
PlainText(m) == [i \in 1 .. Len(Plain(m)) |-> Plain(m)[i][1]]

Without(m, glyphs) == \A p \in 1 .. Len(m) : m[p][1] \notin glyphs

\* The second pass writes what the first one counted, and nobody's text is lost: a message is
\* logged without its codes and with everything else; conversion into tags leaves no tag
\* open, so the text has as many closing as opening tags; a message that is converted into
\* tags and back reads the same.  Left out are messages the functions do not convert back and
\* forth: with brackets of their own, with commas that a code could take for its own and with
\* background colours (the second pass has that of the first one), and opening brackets
\* that are never closed.
ColoursKept ==
  (colorOut # NoOutput /\ colorOut.sound) =>
    LET m == colorIn.message
        text == colorOut.text
        number(words) == Cardinality({p \in 1 .. Len(text) : text[p][1] \in words})
        own == {"[", "]", ","}
    IN  /\ (colorIn.function # "from" \/ Without(m, own)) => strlen(text) + 1 = colorOut.counted
        /\ colorIn.function = "strip" => text = PlainText(m)
        /\ (colorIn.function = "from" /\ Without(m, own \cup WordsOfTags)) =>
             number({"B", "U", "I", ColourWord}) = number({"/B", "/U", "/I", "/COLOR"})
        /\ (colorIn.function = "back" /\ Without(m, own)) => PlainText(text) = PlainText(m)
===============================================================================
