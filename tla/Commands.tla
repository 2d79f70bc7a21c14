------------------------------- MODULE Commands -------------------------------
(***************************************************************************)
(* What becomes of a parsed line: handle_parser_result, the table and the  *)
(* handlers of commands.c, the callbacks that xdccget installs, and the    *)
(* reply of the library to CTCP requests.  The irc_cmd_ functions, which   *)
(* send commands, are here too.                                            *)
(*                                                                         *)
(* A nickname is a sequence of letters, because the handlers compare       *)
(* prefixes; it never begins like the name of a channel.  The strings of a *)
(* line are blocks of the heap: handlers replace, drop and free some of    *)
(* them before free_parser_result frees the first num_params.  Lines have  *)
(* the parameters RFC 1459 gives them.                                     *)
(***************************************************************************)
EXTENDS Integers, Sequences, FiniteSets, SequencesExt

CONSTANTS
  Nicknames,  \* nicknames of this client and of other users
  Slots,      \* entries of params
  Unknown     \* commands that are not in the table

ASSUME CommandsAssumption ==
  /\ Slots \in Nat \ {0, 1, 2}
  /\ Nicknames # {} /\ Nicknames \subseteq Seq(STRING) \ {<<>>}
  /\ \A n \in Nicknames : n[1] # "#"

VARIABLES
  me,         \* session->nick
  real,       \* the nickname the server knows this client by
  others,     \* nicknames of other users
  mixed,      \* another user changed a nickname that begins with session->nick
  parsed,     \* irc_parser_result_t: params, num_params, and the heap
  listen_ip,  \* cfg.listen_ip
  \* of the last step
  event,      \* the callback: whether it is one for lines to this client, and
              \* whether the line was one
  reply,      \* the CTCP reply: who asked, and whom it was sent to
  sentBy      \* the irc_cmd_ function: its error, the arguments it sent

cmdVars == <<me, real, others, mixed, parsed, listen_ip, event, reply, sentBy>>

NULL == 0
Blocks == 1 .. 2 * Slots
Channel == <<"#">>
NoEvent == [private |-> FALSE, ours |-> FALSE]
NoReply == [asker |-> <<>>, to |-> <<>>]
NoCall == [error |-> "none", arguments |-> {}]

CmdInit ==
  /\ me \in Nicknames /\ real = me /\ others = {} /\ mixed = FALSE
  /\ parsed = [params |-> [k \in 1 .. Slots |-> NULL], num_params |-> 0, heap |-> {}, wrong |-> FALSE]
  /\ listen_ip \in {"none", "set"}
  /\ event = NoEvent /\ reply = NoReply /\ sentBy = NoCall

-----------------------------------------------------------------------------
(* The strings of a line.                                                   *)

\* Calloc into params[k]; what was there is lost.
Fill(r, k) ==
  LET used == r.heap \cap {r.params[i] : i \in 1 .. Slots}
      b == CHOOSE i \in Blocks \ used : \A j \in Blocks \ used : i <= j
  IN  [r EXCEPT !.params[k] = b, !.heap = used \cup {b}]

\* A use of params[k]: wrong if it is no string.
Use(r, k) == [r EXCEPT !.wrong = @ \/ r.params[k] \notin r.heap]

\* SAFE_FREE, FREE.
Release(r, k) ==
  IF r.params[k] = NULL THEN r
  ELSE [Use(r, k) EXCEPT !.heap = @ \ {r.params[k]}, !.params[k] = NULL]

\* op for the first n parameters.
Each(op(_, _), r, n) ==
  LET f[k \in 0 .. n] == IF k = 0 THEN r ELSE op(f[k - 1], k)
  IN  f[n]

on_params(r, n) == [Each(Fill, r, n) EXCEPT !.num_params = n]

free_parser_result(r) == [Each(Release, r, r.num_params) EXCEPT !.num_params = 0]

\* dump_event, and event_notice, which uses no other strings.
dump_event(r) == Each(Use, r, r.num_params)

-----------------------------------------------------------------------------
(* Dispatch.                                                                *)

\* commands[], in the order of the table.
commands ==
  << <<"P", "I", "N", "G">>, <<"N", "I", "C", "K">>, <<"Q", "U", "I", "T">>,
     <<"J", "O", "I", "N">>, <<"P", "A", "R", "T">>, <<"M", "O", "D", "E">>,
     <<"T", "O", "P", "I", "C">>, <<"K", "I", "C", "K">>,
     <<"P", "R", "I", "V", "M", "S", "G">>, <<"N", "O", "T", "I", "C", "E">>,
     <<"I", "N", "V", "I", "T", "E">>, <<"K", "I", "L", "L">> >>

unknownCommand == 0

\* The first command that begins with the text, as far as it goes.
get_command(text) ==
  LET found == {i \in 1 .. Len(commands) : IsPrefix(text, commands[i])}
  IN  IF text = <<>> \/ found = {} THEN unknownCommand
      ELSE CHOOSE i \in found : \A j \in found : i <= j

\* The result of a line with n parameters.
Received(n) == on_params(parsed, n)

\* A line of the i-th command, whose handler leaves the result r.
Line(i, r) ==
  /\ i # unknownCommand => get_command(commands[i]) = i
  /\ parsed' = free_parser_result(r)

\* Uses the k-th parameter, and all if the line is for a callback that logs them.
Shown(r, k, logged) == IF logged THEN dump_event(Use(r, k)) ELSE Use(r, k)

\* The users are as before; no callback for a message, no reply, no command.
SameUsers == UNCHANGED <<me, real, others, mixed>>
Silent == reply' = NoReply /\ sentBy' = NoCall
Quiet == event' = NoEvent /\ Silent /\ UNCHANGED listen_ip

\* Mutant: only the letters of the other nickname are compared.
BeginsWithNick_Short(text) == IsPrefix(text, me)

\* strn_equals(text, session->nick, strlen(session->nick)).
BeginsWithNick(text) == IsPrefix(me, text)

-----------------------------------------------------------------------------
(* Handlers of commands.c.                                                  *)

irc_ping_command ==
  /\ Line(1, IF Received(1).params[1] = NULL THEN Received(1) ELSE Use(Received(1), 1))
  /\ SameUsers /\ Quiet

\* A user takes a new nickname, or the server gives this client one.
irc_nick_command ==
  \E u \in others \cup {real}, v \in Nicknames \ (others \cup {real}) :
    /\ Line(2, IF BeginsWithNick(u) THEN Use(Received(1), 1) ELSE Received(1))
    /\ me' = IF BeginsWithNick(u) THEN v ELSE me
    /\ real' = IF u = real THEN v ELSE real
    /\ others' = IF u = real THEN others ELSE (others \ {u}) \cup {v}
    /\ mixed' = (mixed \/ (u # real /\ IsPrefix(me, u)))
    /\ Quiet

\* A command that no callback uses the parameters of: of the callbacks for these
\* xdccget has only event_join, which uses none.  KILL is ignored.
Ignored(codes) ==
  /\ \E i \in codes, n \in 1 .. 2 : Line(i, Received(n))
  /\ Quiet

\* QUIT, JOIN and PART: users come and go.
irc_quit_join_part_command ==
  /\ Ignored({3, 4, 5})
  /\ \/ \E u \in Nicknames \ (others \cup {real}) : others' = others \cup {u}
     \/ \E u \in others : others' = others \ {u}
  /\ UNCHANGED <<me, real, mixed>>

irc_topic_kick_command == Ignored({7, 8}) /\ SameUsers

irc_invite_kill_command == Ignored({11, 12}) /\ SameUsers

\* event_umode with a login command.
event_umode(r) == Use(r, 1)
event_mode(r) == IF r.num_params > 1 THEN Use(r, 2) ELSE r

\* Mutant: num_params is not changed.
umode_Both(r) == event_umode([r EXCEPT !.params[1] = r.params[2]])

\* A mode of this client: the first string is dropped.
umode(r) == event_umode([r EXCEPT !.params[1] = r.params[2], !.num_params = 1])

\* The target of a line as the client takes it, and as it is.
Addressed(target) == event' = [private |-> BeginsWithNick(target), ours |-> target = real]

irc_mode_command ==
  \E target \in {real, Channel}, n \in 2 .. Slots :
    /\ Line(6, IF BeginsWithNick(target) THEN umode(Received(n)) ELSE event_mode(Received(n)))
    /\ Addressed(target)
    /\ SameUsers /\ Silent /\ UNCHANGED listen_ip

\* A message to this client or to a channel: event_privmsg is dump_event, and
\* there is no event_channel.
irc_privmsg_command ==
  \E target \in {real, Channel} :
    /\ Line(9, Shown(Received(2), 2, BeginsWithNick(target)))
    /\ Addressed(target)
    /\ SameUsers /\ Silent /\ UNCHANGED listen_ip

\* CTCP ACTION: the text without the word takes the place of the second string.
ctcp_action(r) == dump_event([Fill(Use(r, 2), 2) EXCEPT !.num_params = 2])

\* Any other CTCP request but DCC: the text takes the place of the first.
ctcp_request(r) == Use([Fill(Use(r, 2), 1) EXCEPT !.num_params = 1], 1)

\* handle_ctcp_request: DCC (whose handler is in module Dcc), ACTION, or a
\* request without a reply.
handle_ctcp_request ==
  /\ \/ Line(9, Use(Received(2), 2))
     \/ Line(9, ctcp_action(Received(2)))
     \/ Line(9, ctcp_request(Received(2)))
  /\ SameUsers /\ Quiet

\* The client, or a user with a host name.
Hosts == {<<"host">>}

\* irc_target_get_nick: all of a text without "!".
irc_target_get_nick(target) == target

\* PING, VERSION, FINGER and TIME of a user with a host name are replied to.
libirc_event_ctcp_internal ==
  \E u \in others, host \in Hosts :
    /\ Line(9, ctcp_request(Received(2)))
    /\ reply' = [asker |-> u, to |-> irc_target_get_nick(host)]
    /\ event' = NoEvent /\ sentBy' = NoCall /\ SameUsers /\ UNCHANGED listen_ip

\* A CTCP reply: all strings are freed, the text is the only one.
ctcp_reply(r) ==
  dump_event([Fill(Each(Release, Use(r, 2), r.num_params), 1) EXCEPT !.num_params = 1])

irc_notice_command ==
  \E target \in {real, Channel} :
    /\ \/ Line(10, ctcp_reply(Received(2))) /\ event' = NoEvent
       \/ /\ Line(10, Shown(Received(2), 2, BeginsWithNick(target)))
          /\ Addressed(target)
    /\ SameUsers /\ Silent /\ UNCHANGED listen_ip

irc_unknown_command ==
  /\ \E text \in Unknown, n \in 1 .. Slots :
       get_command(text) = unknownCommand /\ Line(unknownCommand, dump_event(Received(n)))
  /\ SameUsers /\ Quiet

\* event_numeric: the welcome (001) ends with the host name the server sees.
event_numeric ==
  /\ \E n \in 2 .. Slots : Line(unknownCommand, Use(dump_event(Received(n)), 2))
  /\ listen_ip' \in IF listen_ip = "none" THEN {"none", "set"} ELSE {listen_ip}
  /\ event' = NoEvent /\ SameUsers /\ Silent

-----------------------------------------------------------------------------
(* Senders of commands.                                                     *)

\* The arguments an irc_cmd_ function must have.
Mandatory ==
  [ quit |-> {}, list |-> {}, user_mode |-> {},
    join |-> {"target"}, part |-> {"target"}, topic |-> {"target"}, names |-> {"target"},
    channel_mode |-> {"target"}, nick |-> {"target"}, whois |-> {"target"},
    invite |-> {"target", "nick"}, kick |-> {"target", "nick"},
    msg |-> {"target", "text"}, notice |-> {"target", "text"}, me |-> {"target", "text"},
    ctcp_request |-> {"target", "text"}, ctcp_reply |-> {"target", "text"} ]

ErrorOf(c) == IF c \in {"channel_mode", "nick", "whois"} THEN "ERR_INVAL" ELSE "ERR_STATE"

irc_cmd ==
  /\ \E c \in DOMAIN Mandatory, given \in {{}, {"target"}, {"target", "nick"}, {"target", "text"}} :
       sentBy' = IF Mandatory[c] \subseteq given THEN [error |-> "none", arguments |-> given]
                 ELSE [error |-> ErrorOf(c), arguments |-> {}]
  /\ event' = NoEvent /\ reply' = NoReply /\ SameUsers /\ UNCHANGED <<parsed, listen_ip>>

-----------------------------------------------------------------------------
CmdNext ==
  \/ irc_ping_command \/ irc_nick_command \/ irc_quit_join_part_command
  \/ irc_topic_kick_command \/ irc_invite_kill_command \/ irc_mode_command
  \/ irc_privmsg_command \/ handle_ctcp_request \/ libirc_event_ctcp_internal
  \/ irc_notice_command \/ irc_unknown_command \/ event_numeric \/ irc_cmd

CmdSpec == CmdInit /\ [][CmdNext]_cmdVars

-----------------------------------------------------------------------------
(* Properties.                                                              *)

\* However the nicknames of this client and of others change: a line to this
\* client is taken for one, and a line to a channel is not.  Until another user,
\* whose nickname begins with the client's, changes it: irc_nick_command then
\* takes that for a change of its own.
LinesRecognised == ~mixed => event.private = event.ours

\* Whatever lines come one after the other, and although handlers put one string
\* in two places, replace and drop strings: nothing but a string is used, and
\* every string is freed at most once.
StringsFreedOnce == ~parsed.wrong
===============================================================================
