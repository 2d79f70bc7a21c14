------------------------------ MODULE Arguments ------------------------------
(***************************************************************************)
(* What xdccget makes of its texts: the channels and the bots of the       *)
(* command line (argument_parser.c), and the path of a file that a bot     *)
(* offers (xdccget.c).  A C string ends at the first NUL.                  *)
(***************************************************************************)
EXTENDS SdsText

CONSTANTS
  ArgChars,      \* characters of an argument: letters, blanks, commas
  ArgLen,        \* bound: length of an argument
  PathChars,     \* characters of a directory or a file name: letters, "/" and "bs"
  PathLen        \* bound: length of each

ASSUME ArgumentsAssumption == ArgLen \in Nat /\ PathLen \in Nat

VARIABLES
  argIn,     \* channels or bots of the command line, or the target directory and a file name
  argOut     \* what the program makes of it, or Untried

argVars == <<argIn, argOut>>

Strings(S, n) == UNION {[1..k -> S] : k \in 0..n}

-----------------------------------------------------------------------------
(* argument_parser.c.                                                       *)

\* sdstrim(s, " \t")
RECURSIVE trimmed(_)
trimmed(s) ==
  CASE s # <<>> /\ Head(s) \in {" ", "TAB"} -> trimmed(Tail(s))
    [] s # <<>> /\ Head(s) \notin {" ", "TAB"} /\ Last(s) \in {" ", "TAB"} -> trimmed(Front(s))
    [] OTHER -> s

\* Mutant: the parts are not trimmed.
parts_Untrimmed(s) == sdssplitlen(s, <<",">>)

\* sdssplitlen at commas, and sdstrim of every part.
parts(s) ==
  LET split == sdssplitlen(s, <<",">>)
  IN  [i \in 1..Len(split) |-> trimmed(split[i])]

parseChannels(s) == parts(s)

\* The nick and the command of one bot.  spaceFound stays 0 where there is no space, and the
\* copy of the command takes the terminator along.
parseDccDownload(s) ==
  LET spaces == {i \in 0..(Len(s) - 1) : s[i + 1] = " "}
      spaceFound == IF spaces = {} THEN 0 ELSE Min(spaces)
  IN  [botNick |-> SubSeq(s, 1, spaceFound),
       xdccCmd |-> IF s = <<>> THEN <<>> ELSE Append(SubSeq(s, spaceFound + 2, Len(s)), Nul)]

\* parseDccDownloads, newDccDownload: neither nick nor command is ever NULL.
parseDccDownloads(s) ==
  LET found == parts(s)
  IN  [i \in 1..Len(found) |-> parseDccDownload(found[i])]

-----------------------------------------------------------------------------
(* xdccget.c.                                                               *)

getAbsolutePath(targetDir, seperator) ==
  IF targetDir # <<>> /\ Last(targetDir) = seperator THEN targetDir ELSE Append(targetDir, seperator)

getCompletePath(targetDir, seperator, filename) == getAbsolutePath(targetDir, seperator) \o filename

containsIllegalChars(filename) == sdscontains(filename, <<"/", "bs">>)

-----------------------------------------------------------------------------
(* One text.                                                                *)

ArgInit ==
  /\ argIn \in [kind : {"channels", "bots"}, text : Strings(ArgChars, ArgLen)]
          \cup [kind : {"path"}, dir : Strings(PathChars, PathLen), file : Strings(PathChars, PathLen),
                seperator : {"/", "bs"}]
  /\ argOut = Untried

Channels == argIn.kind = "channels" /\ argOut' = <<parseChannels(argIn.text)>>
Bots == argIn.kind = "bots" /\ argOut' = <<parseDccDownloads(argIn.text)>>

\* prepareRecvFileRequest ends the program for a name with illegal characters.
Path == /\ argIn.kind = "path"
        /\ argOut' = IF containsIllegalChars(argIn.file) THEN <<"exit">>
                     ELSE <<"path", getCompletePath(argIn.dir, argIn.seperator, argIn.file)>>

ArgNext == argOut = Untried /\ (Channels \/ Bots \/ Path) /\ UNCHANGED argIn

-----------------------------------------------------------------------------
(* Properties.                                                              *)

\* The positions of the words between commas: maximal, without a comma, without blanks at
\* the ends.
Pieces(s) ==
  LET n == Len(s)
      cut == {0, n + 1} \cup {i \in 1..n : s[i] = ","}
      pieces == {p \in (0..n) \X (1..(n + 1)) : p[1] \in cut /\ p[2] \in cut /\ p[1] < p[2]
                                                /\ \A i \in (p[1] + 1)..(p[2] - 1) : i \notin cut}
  IN  [k \in 1..Cardinality(pieces) |-> CHOOSE p \in pieces :
         Cardinality({q \in pieces : q[1] < p[1]}) = k - 1]

\* text without blanks at its ends, by position.
Bare(s, from, to) ==
  LET ink == {i \in from..to : s[i] \notin {" ", "TAB"}}
  IN  IF ink = {} THEN <<>> ELSE SubSeq(s, Min(ink), Max(ink))

\* A C string that is read from an sds.
CString(s) == IF \E i \in 1..Len(s) : s[i] = Nul
              THEN SubSeq(s, 1, Min({i \in 1..Len(s) : s[i] = Nul}) - 1) ELSE s

\* The command line is read as the usage text says: one channel or one bot per part between
\* commas, in order; a bot with a blank in it is a nick, the blank and a command
\* (parseChannels, parseDccDownloads).  A file is stored in the target directory itself:
\* what follows the directory and one separator is the name that was offered, without any
\* separator (getCompletePath, containsIllegalChars).
ArgumentsRead ==
  argOut # Untried =>
    CASE argIn.kind = "path" ->
           argOut[1] = "path" =>
             LET p == argOut[2]
                 last == Len(p) - Len(argIn.file)
             IN  /\ SubSeq(p, last + 1, Len(p)) = argIn.file
                 /\ p[last] = argIn.seperator
                 /\ SubSeq(p, 1, last) \in {argIn.dir, Append(argIn.dir, argIn.seperator)}
                 /\ last > 1 /\ Last(argIn.dir) = argIn.seperator => last = Len(argIn.dir)
                 /\ Range(SubSeq(p, last + 1, Len(p))) \cap {"/", "bs"} = {}
      [] OTHER ->
           LET places == Pieces(argIn.text)
               want == [k \in 1..Len(places) |-> Bare(argIn.text, places[k][1] + 1, places[k][2] - 1)]
               got == argOut[1]
           IN  argIn.text # <<>> =>
                 /\ Len(got) = Len(want)
                 /\ \A k \in 1..Len(want) :
                      IF argIn.kind = "channels" THEN got[k] = want[k]
                      ELSE " " \in Range(want[k]) =>
                             /\ want[k] = got[k].botNick \o <<" ">> \o CString(got[k].xdccCmd)
                             /\ " " \notin Range(got[k].botNick)

=============================================================================
