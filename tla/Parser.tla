-------------------------------- MODULE Parser --------------------------------
(***************************************************************************)
(* The parser of IRC lines: irc_parser.c, a state machine fed with the     *)
(* characters of one line after the other, and its callbacks in            *)
(* irc_line_parser.c, which build the result that handle_parser_result     *)
(* dispatches.  A result is checked against the grammar of RFC 1459 that   *)
(* irc_line_parser.c quotes.                                               *)
(*                                                                         *)
(* A line is what libirc_findcrlf cuts off: it ends with the first CR LF.  *)
(***************************************************************************)
EXTENDS Integers, Sequences, FiniteSets, SequencesExt

CONSTANTS
  Chars,          \* characters: ":", "!", "@", " ", letters, and lone "CR" and "LF"
  RawSize,        \* IRC_PARSER_RAW_BUFFER_SIZE
  MaxParams,      \* MAX_PARAMS_ALLOWED
  MaxLine,        \* bound: characters of a line
  MaxBroken,      \* bound: the same, in a line with a lone CR or LF and after it
  MaxRaw,         \* bound: characters in raw when a line follows one that did not fit
  Repeated        \* bound: characters that may follow themselves, or a full raw

ASSUME ParserAssumption ==
  /\ RawSize \in Nat /\ MaxParams \in Nat /\ MaxLine \in Nat /\ MaxBroken \in Nat
  /\ MaxRaw \in Nat
  /\ Repeated \subseteq Chars /\ "NULL" \notin Chars

VARIABLES
  line,        \* the characters of this line so far, without CR LF
  complete,    \* the line has ended
  raw, last, state,  \* struct irc_parser_s; len is the length of raw
  returned,    \* irc_parser_execute has returned before the end of the line
  nick, name, host, command, params, \* irc_parser_result_t
  dispatched,  \* the result handle_parser_result was called with, or None
  clean        \* every line before this one fitted, or an empty one came since

result == <<nick, name, host, command, params>>
vars == <<line, complete, raw, last, state, returned, result, dispatched, clean>>

\* The characters that mean something.
Space == " "
Colon == ":"
Bang == "!"
AtSign == "@"

None == <<"NULL">>
Blank == <<None, None, None, None, <<>>>>

Init ==
  /\ line = <<>> /\ complete = FALSE
  /\ raw = <<>> /\ last = 0 /\ state = "INIT" /\ returned = FALSE
  /\ nick = None /\ name = None /\ host = None /\ command = None /\ params = <<>>
  /\ dispatched = Blank /\ clean = TRUE

-----------------------------------------------------------------------------
(* Callbacks.                                                               *)

\* The parameters with one more.
on_param(text) == IF Len(params) < MaxParams THEN Append(params, text) ELSE params

\* _irc_parser_call in state s with the text from last on.
Call(s, text) ==
  /\ nick' = IF s = "NICK" THEN text ELSE nick
  /\ name' = IF s = "NAME" THEN text ELSE name
  /\ host' = IF s = "HOST" THEN text ELSE host
  /\ command' = IF s = "COMMAND" THEN text ELSE command
  /\ params' = IF s = "PARAMS" THEN on_param(text) ELSE params

\* raw without its last character, from last on.
Text(r) == SubSeq(r, last + 1, Len(r) - 1)

\* The callback of state s, and the state that follows.
CallAndGo(s, r, next) ==
  /\ Call(s, Text(r))
  /\ state' = next /\ last' = Len(r)

Stay(s) == state' = s /\ UNCHANGED <<last, result>>

-----------------------------------------------------------------------------
(* irc_parser_execute.                                                      *)

\* A character in state s, where r is raw with the character appended.
Nick(c, r) ==
  CASE c = AtSign -> CallAndGo("NICK", r, "HOST")
    [] c = Space -> CallAndGo("NICK", r, "COMMAND")
    [] c = Bang -> CallAndGo("NICK", r, "NAME")
    [] OTHER -> Stay("NICK")
Name(c, r) ==
  CASE c = Space -> CallAndGo("NAME", r, "COMMAND")
    [] c = AtSign -> CallAndGo("NAME", r, "HOST")
    [] OTHER -> Stay("NAME")
Host(c, r) == IF c = Space THEN CallAndGo("HOST", r, "COMMAND") ELSE Stay("HOST")
Command(c, r) == IF c = Space THEN CallAndGo("COMMAND", r, "PARAMS") ELSE Stay("COMMAND")

Params(c, r) ==
  CASE c = Space -> CallAndGo("PARAMS", r, "PARAMS")
    [] c = Colon /\ Len(r) = last + 1 -> state' = "TRAILING" /\ last' = Len(r) /\ UNCHANGED result
    [] OTHER -> Stay("PARAMS")

\* INIT: a ":" starts the prefix, anything else is read again as a command.
Start(c, r) ==
  IF c = Colon THEN state' = "NICK" /\ last' = 1 /\ UNCHANGED result
             ELSE Command(c, r)

\* Mutant: one character more is taken for fitting.
TooLong_Late(r) == Len(r) > RawSize + 1

\* raw with one more character is longer than it may be.
TooLong(r) == Len(r) > RawSize

\* An ordinary character.  The one that makes raw too long, one that follows a
\* CR, and every one in state ERROR ends the call.
ordinary(c) ==
  LET r == Append(raw, c)
      s == IF TooLong(r) THEN "ERROR" ELSE state
  IN  /\ raw' = r
      /\ returned' = (s \in {"ERROR", "END"})
      /\ CASE s = "INIT" -> Start(c, r)
           [] s = "NICK" -> Nick(c, r)
           [] s = "NAME" -> Name(c, r)
           [] s = "HOST" -> Host(c, r)
           [] s = "COMMAND" -> Command(c, r)
           [] s = "PARAMS" -> Params(c, r)
           [] s = "TRAILING" -> Stay("TRAILING")
           [] OTHER -> Stay("ERROR")

\* A CR or a LF that is not part of a CR LF.
lone_cr == state' = "END" /\ UNCHANGED <<raw, last, returned, result>>
lone_lf == returned' = TRUE /\ UNCHANGED <<raw, last, state, result>>

character(c) ==
  CASE c = "CR" -> lone_cr
    [] c = "LF" -> lone_lf
    [] OTHER -> ordinary(c)

\* Mutant: last is not reset.
irc_parser_reset_Last == raw' = <<>> /\ UNCHANGED last /\ state' = "INIT"

irc_parser_reset == raw' = <<>> /\ last' = 0 /\ state' = "INIT"

\* CR LF: the last parameter is read, the line dispatched and the parser reset.
end_of_line ==
  /\ dispatched' = IF command = None THEN Blank
                   ELSE <<nick, name, host, command, on_param(SubSeq(raw, last + 1, Len(raw)))>>
  /\ irc_parser_reset

-----------------------------------------------------------------------------
(* libirc_process_incoming_data, one character of the data at a time.       *)

\* A line that fits: without a lone CR or LF, and not too long for raw.
Fits(l) == Len(l) <= RawSize /\ \A i \in 1 .. Len(l) : l[i] \notin {"CR", "LF"}

\* The line that goes on, and whether all lines before it fitted.
Before == IF complete THEN <<>> ELSE line
CleanBefore == clean /\ (complete => Fits(line))

\* A character of a line; the first one of the next line comes after the result
\* has been freed.
Receive(c) ==
  /\ Len(Before) < IF CleanBefore /\ {"CR", "LF"} \cap ({c} \cup ToSet(Before)) = {}
                     THEN MaxLine ELSE MaxBroken
  /\ CleanBefore \/ Len(raw) < MaxRaw
  /\ Len(raw) < RawSize \/ c \in Repeated
  /\ Before # <<>> => /\ c = Last(Before) => c \in Repeated
                      /\ c = "LF" => Last(Before) # "CR"
  /\ line' = Append(Before, c)
  /\ complete' = FALSE /\ dispatched' = Blank
  /\ clean' = CleanBefore
  /\ IF returned THEN UNCHANGED <<raw, last, state, returned, result>> ELSE character(c)

\* The CR LF of the line, and free_parser_result.  That of an empty line finds the
\* parser at the CR, which takes it out of every state.
ReceiveEnd ==
  /\ complete' = TRUE /\ line' = Before
  /\ clean' = (clean \/ Before = <<>>)
  /\ IF returned THEN UNCHANGED <<raw, last, state, dispatched>> ELSE end_of_line
  /\ returned' = FALSE
  /\ nick' = None /\ name' = None /\ host' = None /\ command' = None /\ params' = <<>>

Next == ReceiveEnd \/ \E c \in Chars : Receive(c)

Spec == Init /\ [][Next]_vars

-----------------------------------------------------------------------------
(* The grammar at irc_line_parser.c:6-17, by positions in the line.         *)

First(S) == CHOOSE i \in S : \A j \in S : i <= j
At(l, c) == {i \in 1 .. Len(l) : l[i] = c}

\* The end of the prefix with its spaces, and the first space after the command.
HasPrefix(l) == l # <<>> /\ l[1] = Colon
PrefixEnd(l) == IF HasPrefix(l) THEN First(At(l, Space)) - 1 ELSE 0
Begins(l, i) == First({j \in i .. Len(l) : l[j] # Space})
CommandAt(l) == Begins(l, PrefixEnd(l) + 1)
CommandEnd(l) == First({j \in At(l, Space) : j > CommandAt(l)}) - 1

\* The positions where parameters begin.
TrailingAt(l) ==
  LET S == {j \in CommandEnd(l) + 2 .. Len(l) : l[j] = Colon /\ l[j - 1] = Space}
  IN  IF S = {} THEN Len(l) + 1 ELSE First(S)
Starts(l) ==
  {j \in CommandEnd(l) + 2 .. Len(l) : l[j - 1] = Space /\ l[j] # Space /\ j <= TrailingAt(l)}
ParamEnd(l, j) ==
  IF l[j] = Colon THEN Len(l)
  ELSE LET S == {k \in At(l, Space) : k > j} IN IF S = {} THEN Len(l) ELSE First(S) - 1
\* The k-th of them, in the order of the line.
Nth(S, k) == CHOOSE j \in S : Cardinality({i \in S : i <= j}) = k
ParamOf(l, j) == SubSeq(l, IF l[j] = Colon THEN j + 1 ELSE j, ParamEnd(l, j))
ParamsOf(l) == [k \in 1 .. Cardinality(Starts(l)) |-> ParamOf(l, Nth(Starts(l), k))]

\* The parts of the prefix.
PrefixOf(l) == SubSeq(l, 2, PrefixEnd(l))
BangOf(p) == IF At(p, Bang) = {} THEN Len(p) + 1 ELSE First(At(p, Bang))
AtOf(p) == IF At(p, AtSign) = {} THEN Len(p) + 1 ELSE First(At(p, AtSign))

\* A prefix with at most one of each mark, in their order.
GoodPrefix(p) ==
  /\ p # <<>> /\ p[1] \notin {Bang, AtSign}
  /\ \A c \in {Bang, AtSign} : \A i, j \in At(p, c) : i = j
  /\ BangOf(p) <= AtOf(p)

\* Lines of the grammar with a command and a parameter that is not followed by
\* spaces.  The parser does not take several spaces for one, as the grammar does.
WellFormed(l) ==
  /\ HasPrefix(l) => At(l, Space) # {} /\ GoodPrefix(PrefixOf(l))
  /\ {j \in PrefixEnd(l) + 1 .. Len(l) : l[j] # Space} # {}
  /\ {j \in At(l, Space) : j > CommandAt(l)} # {}
  /\ l[1] # Space /\ l[CommandAt(l)] # Colon
  /\ Starts(l) # {} /\ (l[Len(l)] = Space => TrailingAt(l) <= Len(l))
  /\ \A i \in At(l, Space) : i + 1 \in At(l, Space) => i > TrailingAt(l)
  /\ Len(ParamsOf(l)) <= MaxParams

\* What the grammar makes of a line.
Grammar(l) ==
  LET p == PrefixOf(l)
      b == BangOf(p)
      a == AtOf(p)
      nickEnd == IF b < a THEN b ELSE a
  IN  << IF HasPrefix(l) THEN SubSeq(p, 1, nickEnd - 1) ELSE None,
         IF HasPrefix(l) /\ b <= Len(p) THEN SubSeq(p, b + 1, a - 1) ELSE None,
         IF HasPrefix(l) /\ a <= Len(p) THEN SubSeq(p, a + 1, Len(p)) ELSE None,
         SubSeq(l, CommandAt(l), CommandEnd(l)),
         ParamsOf(l) >>

-----------------------------------------------------------------------------
(* Properties.                                                              *)

\* Every variable has its type; the parameters stay within their array.
TypeOK ==
  /\ line \in Seq(Chars) /\ raw \in Seq(Chars) /\ last \in 0 .. Len(raw)
  /\ state \in {"INIT", "NICK", "NAME", "HOST", "COMMAND", "PARAMS", "TRAILING", "END", "ERROR"}
  /\ {returned, complete, clean} \subseteq BOOLEAN
  /\ \A t \in {nick, name, host, command} : t = None \/ t \in Seq(Chars)
  /\ params \in Seq(Seq(Chars)) /\ Len(params) <= MaxParams

\* A line of the grammar that fits is dispatched with the result the grammar gives
\* it, whatever lines came before, as long as each of them fitted or an empty line
\* has come since: irc_run never resets a parser in its error state.
ParsedAsGrammar ==
  /\ TypeOK
  /\ (clean /\ complete /\ Fits(line) /\ WellFormed(line)) => dispatched = Grammar(line)

\* irc_parser.c:10 stores a character before it looks at the length, and raw has
\* one element more than the limit for it: lines that fit, one that does not and
\* an empty line never write behind raw.
RawKept == clean => Len(raw) <= RawSize + 1

\* irc_parser.c:196 "Message length exceeded the RAW_BUFFER_SIZE limit": raw never
\* holds more than the limit and the one character that exceeds it.
WithinRaw == Len(raw) <= RawSize + 1
===============================================================================
