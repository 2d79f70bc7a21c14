-------------------------------- MODULE Getopt --------------------------------
(***************************************************************************)
(* The command line of the builds without argp: getopt_long_only           *)
(* (getopt.c), which moves the operands behind the options while it reads  *)
(* them, and the loop in parseArguments (argument_parser.c) that calls it. *)
(* The program passes no short options, so every word that begins with a   *)
(* dash is looked up among the long ones.                                  *)
(*                                                                         *)
(* A word is an operand, the end mark "--", or an option: a name, perhaps  *)
(* abbreviated, with or without a value behind an equals sign.  A name is  *)
(* a sequence of syllables.                                                *)
(***************************************************************************)
EXTENDS Integers, SequencesExt

CONSTANTS
  Word,        \* the words a user may write
  MaxWords     \* bound: words of a command line

ASSUME GetoptAssumption == MaxWords \in Nat

VARIABLES
  words,          \* argv as it was given
  nargv,          \* argv now
  optind,         \* index of the next word
  nonopt_start, nonopt_end,
  seen,           \* what the program was told: options with their arguments, and errors
  operands        \* cfg->args; <<"reading">> before the loop has ended, <<"exit">> after
                  \* the usage text or the version

getoptVars == <<words, nargv, optind, nonopt_start, nonopt_end, seen, operands>>

Operand(x) == [kind |-> "operand", name |-> <<x>>, value |-> ""]
NoArg == Operand("")
DashDash == [kind |-> "end", name |-> <<>>, value |-> ""]
Option(name, value) == [kind |-> "option", name |-> name, value |-> value]

\* long_options: those with a letter return it, the others 0 and their index.  The
\* table keeps the pairs that begin alike, and one option of each kind.
long_options ==
  << [name |-> <<"ver", "bose">>, arg |-> FALSE, val |-> "v"],
     [name |-> <<"quiet">>, arg |-> FALSE, val |-> "q"],
     [name |-> <<"port">>, arg |-> TRUE, val |-> "p"],
     [name |-> <<"d", "irectory">>, arg |-> TRUE, val |-> "d"],
     [name |-> <<"accept-all-", "nicks">>, arg |-> FALSE, val |-> "0"],
     [name |-> <<"accept-all-", "certs">>, arg |-> FALSE, val |-> "0"],
     [name |-> <<"d", "elay">>, arg |-> TRUE, val |-> "0"],
     [name |-> <<"ver", "sion">>, arg |-> FALSE, val |-> "0"] >>

Indexes == 1..Len(long_options)

-----------------------------------------------------------------------------
(* permute_args.                                                            *)

\* A turn of the loop of gcd, until the remainder is 0; turns after the last change nothing.
gcd_turn(t) == IF t[1] % t[2] = 0 THEN t ELSE <<t[2], t[1] % t[2]>>
gcd(a, b) ==
  LET turn[k \in 0..b] == IF k = 0 THEN <<a, b>> ELSE gcd_turn(turn[k - 1])
  IN  turn[b][2]

\* A turn of the inner loop of permute_args: the word at the next place of the cycle and the
\* one where it began change places.
swap_turn(st, cstart, first, middle, end) ==
  LET pos == IF st.pos >= middle THEN st.pos - (middle - first) ELSE st.pos + (end - middle)
  IN  [pos |-> pos, argv |-> [st.argv EXCEPT ![pos] = st.argv[cstart], ![cstart] = st.argv[pos]]]

\* The inner loop.
cycle(argv, cstart, cyclelen, first, middle, end) ==
  LET st[j \in 0..cyclelen] ==
        IF j = 0 THEN [pos |-> cstart, argv |-> argv]
        ELSE swap_turn(st[j - 1], cstart, first, middle, end)
  IN  st[cyclelen].argv

\* Mutant: the two blocks change places one word too far.
permute_args_Far(first, middle, end, argv) ==
  [i \in 1..Len(argv) |->
     IF i < first \/ i >= end THEN argv[i]
     ELSE IF i < first + (end - middle) - 1 THEN argv[i + (middle - first)] ELSE argv[i]]

\* The blocks from first to middle and from middle to end change places, in cycles of swaps.
permute_args(first, middle, end, argv) ==
  LET ncycle == gcd(middle - first, end - middle)
      cyclelen == (end - first) \div ncycle
      moved[i \in 0..ncycle] ==
        IF i = 0 THEN argv ELSE cycle(moved[i - 1], middle + i - 1, cyclelen, first, middle, end)
  IN  moved[ncycle]

-----------------------------------------------------------------------------
(* parse_long_options.                                                      *)

Identical(i, j) == long_options[i].arg = long_options[j].arg /\ long_options[i].val = long_options[j].val

\* The option a name stands for, or 0 for an unknown and for an ambiguous one: an exact match
\* wins, then the first of the abbreviations, if the others return the same.
matched(name) ==
  LET begins == {i \in Indexes : IsPrefix(name, long_options[i].name)}
      exact == {i \in begins : long_options[i].name = name}
      least(S) == CHOOSE i \in S : \A j \in S : i <= j
  IN  CASE exact # {} -> least(exact)
        [] exact = {} /\ begins # {} /\ (\A i \in begins : Identical(i, least(begins))) -> least(begins)
        [] OTHER -> 0

\* What parseArguments calls: by letter, or by name for an option without one.
by_letter(val) ==
  CASE val = "v" -> "set_info_loglevel" [] val = "q" -> "set_quiet_loglevel"
    [] val = "p" -> "set_port" [] val = "d" -> "set_target_dir"
eval_long_option(option_name) ==
  CASE option_name = <<"accept-all-", "nicks">> -> "set_accept_all_nicks"
    [] option_name = <<"accept-all-", "certs">> -> "set_accept_all_certs"
    [] option_name = <<"d", "elay">> -> "set_delay_command"
    [] option_name = <<"ver", "sion">> -> "show_version_info"

\* An option with its argument, and an error, which is only logged.
Told(i, arg) ==
  [option |-> i, arg |-> arg,
   calls |-> IF long_options[i].val = "0" THEN eval_long_option(long_options[i].name)
             ELSE by_letter(long_options[i].val)]
Error == [option |-> 0, arg |-> NoArg, calls |-> "none"]

\* What is returned for the word at n, and optind after it.  An argument that is missing is
\* the NULL behind the last word.
parse_long_options(w, n) ==
  IF matched(w.name) = 0 THEN <<Error, n + 1>>
  ELSE IF ~long_options[matched(w.name)].arg
       THEN IF w.value # "" THEN <<Error, n + 1>> ELSE <<Told(matched(w.name), NoArg), n + 1>>
  ELSE IF w.value # "" THEN <<Told(matched(w.name), Operand(w.value)), n + 1>>
  ELSE IF n + 1 > Len(nargv) THEN <<Error, n + 1>>
  ELSE <<Told(matched(w.name), nargv[n + 1]), n + 2>>

-----------------------------------------------------------------------------
(* getopt_internal, one pass of its loop per step, and parseArguments.      *)

GetoptInit ==
  /\ words \in SeqOf(Word, MaxWords)
  /\ nargv = words /\ optind = 1 /\ nonopt_start = -1 /\ nonopt_end = -1
  /\ seen = <<>> /\ operands = <<"reading">>

\* The version was asked for, or there are not three operands: the program ends.
parseArguments_end(argv, from) ==
  operands' = IF Len(argv) - from + 1 # 3 \/ \E k \in 1..Len(seen) : seen[k].calls = "show_version_info"
              THEN <<"exit">>
              ELSE [k \in 1..3 |-> argv[from + k - 1]]

\* getopt_long_only returns -1: the operands that were skipped go behind the options.
Finish(n) ==
  LET argv == IF nonopt_end # -1 THEN permute_args(nonopt_start, nonopt_end, n, nargv) ELSE nargv
      from == IF nonopt_end # -1 THEN n - (nonopt_end - nonopt_start)
              ELSE IF nonopt_start # -1 THEN nonopt_start ELSE n
  IN  /\ nargv' = argv /\ optind' = from
      /\ nonopt_start' = -1 /\ nonopt_end' = -1
      /\ parseArguments_end(argv, from)
      /\ UNCHANGED <<words, seen>>

EndOfWords == optind > Len(nargv) /\ Finish(optind)

Current == nargv[optind]

NonOption ==
  /\ optind <= Len(nargv) /\ Current.kind = "operand"
  /\ IF nonopt_start # -1 /\ nonopt_end # -1
     THEN /\ nargv' = permute_args(nonopt_start, nonopt_end, optind, nargv)
          /\ nonopt_start' = optind - (nonopt_end - nonopt_start)
          /\ nonopt_end' = -1
     ELSE /\ nonopt_start' = IF nonopt_start = -1 THEN optind ELSE nonopt_start
          /\ UNCHANGED <<nargv, nonopt_end>>
  /\ optind' = optind + 1
  /\ UNCHANGED <<words, seen, operands>>

\* The words that were skipped so far end in front of this one.
SkippedTo == IF nonopt_start # -1 /\ nonopt_end = -1 THEN optind ELSE nonopt_end

EndMark ==
  /\ optind <= Len(nargv) /\ Current.kind = "end"
  /\ LET last == SkippedTo
         argv == IF last # -1 THEN permute_args(nonopt_start, last, optind + 1, nargv) ELSE nargv
         from == IF last # -1 THEN optind + 1 - (last - nonopt_start) ELSE optind + 1
     IN  /\ nargv' = argv /\ optind' = from
         /\ parseArguments_end(argv, from)
  /\ nonopt_start' = -1 /\ nonopt_end' = -1
  /\ UNCHANGED <<words, seen>>

LongOption ==
  /\ optind <= Len(nargv) /\ Current.kind = "option"
  /\ LET parsed == parse_long_options(Current, optind)
     IN  seen' = Append(seen, parsed[1]) /\ optind' = parsed[2]
  /\ nonopt_end' = SkippedTo
  /\ UNCHANGED <<words, nargv, nonopt_start, operands>>

GetoptNext ==
  /\ operands = <<"reading">>
  /\ EndOfWords \/ NonOption \/ EndMark \/ LongOption

GetoptSpec == GetoptInit /\ [][GetoptNext]_getoptVars

-----------------------------------------------------------------------------
(* Properties.                                                              *)

\* What the options of the table are for.
Setters ==
  <<"set_info_loglevel", "set_quiet_loglevel", "set_port", "set_target_dir", "set_accept_all_nicks",
    "set_accept_all_certs", "set_delay_command", "show_version_info">>

\* The command line read from left to right without moving anything: what the next word is,
\* and the words from it on.
read_word(ws, r) ==
  LET w == ws[r.at]
      m == matched(w.name)
      Meant(e, n) == [r EXCEPT !.options = Append(@, e), !.at = @ + n]
  IN  CASE w.kind = "operand" -> [r EXCEPT !.operands = Append(@, w), !.at = @ + 1]
        [] w.kind = "end" -> [r EXCEPT !.operands = @ \o SubSeq(ws, r.at + 1, Len(ws)), !.at = Len(ws) + 1]
        [] OTHER ->
             IF m = 0 \/ (~long_options[m].arg /\ w.value # "")
                     \/ (long_options[m].arg /\ w.value = "" /\ r.at = Len(ws))
             THEN Meant(Error, 1)
             ELSE IF long_options[m].arg /\ w.value = ""
                  THEN Meant([option |-> m, arg |-> ws[r.at + 1], calls |-> Setters[m]], 2)
                  ELSE Meant([option |-> m, arg |-> Operand(w.value), calls |-> Setters[m]], 1)

\* What was read after each turn, and what has been read at the end.
reading(ws) ==
  LET after[k \in 0..Len(ws)] ==
        IF k = 0 THEN [at |-> 1, options |-> <<>>, operands |-> <<>>]
        ELSE IF after[k - 1].at > Len(ws) THEN after[k - 1] ELSE read_word(ws, after[k - 1])
  IN  after
read(ws) == reading(ws)[Len(ws)]

\* However options and operands are mixed on the command line, the program is told the
\* options, their arguments and the errors in the order in which they were written, and the
\* operands it takes as server, channels and bots are the written ones in their order,
\* although getopt_internal has moved them around (permute_args, optind).
GetoptAsWritten ==
  operands # <<"reading">> =>
    LET meant == read(words)
    IN  /\ seen = meant.options
        /\ SubSeq(nargv, optind, Len(nargv)) = meant.operands
        /\ operands # <<"exit">> => operands = meant.operands

=============================================================================
