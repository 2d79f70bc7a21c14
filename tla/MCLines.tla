------------------------------- MODULE MCLines -------------------------------
(***************************************************************************)
(* For TLC: what becomes of the lines of the server.  A behaviour is one   *)
(* of the parser, of the handlers of commands, of the colour codes or of   *)
(* the checksums that notices tell; the state of the others stands still.  *)
(***************************************************************************)
EXTENDS Parser, Commands, Colors, Checksum, TLC

VARIABLE part

linesVars == <<part, vars, cmdVars, colorVars, hashVars>>

NickNames == {<<"a">>, <<"a", "b">>, <<"b">>}
UnknownCommands == {<<"C", "A", "P">>, <<"E", "R", "R", "O", "R">>}
ColourTags == {<<4, -1>>, <<4, 0>>, <<99, -1>>}

\* Notices in the expected forms, and with a character too many.
Form(k, n, c) == [keyword |-> k, gap |-> n, case |-> c]
NoticeForms ==
  {Form("md5sum", 2, "lower"), Form("MD5", 1, "upper"), Form("md5", 2, "lower")}

\* A part that stands still is in one of its initial states.
CmdIdle == CmdInit /\ me = <<"b">> /\ listen_ip = "none"
ColorIdle == colorIn = [function |-> "strip", message |-> <<>>] /\ colorOut = NoOutput
HashIdle ==
  /\ buffer = 5 /\ numDownloads = 1 /\ size = [f \in HashFiles |-> 0]
  /\ lastDownload = NoFile /\ md5 = NoHash /\ threads = <<>>

LinesInit ==
  \/ part = "parser" /\ Init /\ CmdIdle /\ ColorIdle /\ HashIdle
  \/ part = "commands" /\ CmdInit /\ Init /\ ColorIdle /\ HashIdle
  \/ part = "colours" /\ ColorInit /\ Init /\ CmdIdle /\ HashIdle
  \/ part = "checksums" /\ HashInit /\ Init /\ CmdIdle /\ ColorIdle

LinesNext ==
  /\ \/ part = "parser" /\ Next /\ UNCHANGED <<cmdVars, colorVars, hashVars>>
     \/ part = "commands" /\ CmdNext /\ UNCHANGED <<vars, colorVars, hashVars>>
     \/ part = "colours" /\ ColorNext /\ UNCHANGED <<vars, cmdVars, hashVars>>
     \/ part = "checksums" /\ HashNext /\ UNCHANGED <<vars, cmdVars, colorVars>>
  /\ UNCHANGED part

LinesSpec == LinesInit /\ [][LinesNext]_linesVars
===============================================================================
