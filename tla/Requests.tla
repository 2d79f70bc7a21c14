------------------------------- MODULE Requests -------------------------------
(***************************************************************************)
(* How xdccget gets from a connection to its requests: the event handlers  *)
(* of xdccget.c (connect, notice, join, mode, umode), the dispatcher of    *)
(* irc_line_parser.c and commands.c that calls them, the delay timer of    *)
(* the keep-alive callback, and the server at the other end.               *)
(*                                                                         *)
(* The connection is a Channel: commands and lines arrive in order.  The   *)
(* queue outq stands for outgoing_buf and what is on its way; a command is *)
(* dropped when Room commands are waiting.                                 *)
(***************************************************************************)
EXTENDS Integers, Sequences, FiniteSets

CONSTANTS
  NumChannels,  \* cfg.numChannels
  NumDownloads, \* entries of cfg.dccDownloadArray
  Logins,       \* values of cfg.login_command: "none", "valid", "short" (below 9 characters)
  Delays,       \* values of cfg.sendDelay: seconds, or NoDelay
  NoDelay,
  Room,         \* commands that fit into outgoing_buf
  MaxTime,      \* bound: seconds
  MaxNoise      \* bound: events caused by other users, repeated lines

ASSUME RequestsAssumption ==
  /\ NumChannels \in Nat \ {0} /\ NumDownloads \in Nat \ {0}
  /\ Logins \subseteq {"none", "valid", "short"}
  /\ Delays \subseteq Nat \cup {NoDelay} /\ NoDelay \notin Nat
  /\ Room \in Nat /\ MaxTime \in Nat /\ MaxNoise \in Nat

VARIABLES
  login, delay,   \* cfg.login_command, cfg.sendDelay
  state,          \* session->state: "CONNECTING" or "CONNECTED"
  motd,           \* SESSIONFL_MOTD_RECEIVED
  connectDone,    \* ON_CONNECT_EVENT_DONE
  sended,         \* SENDED_FLAG
  now,            \* seconds since the options were parsed
  outq,           \* commands on their way to the server
  inq,            \* lines on their way to the client
  \* the server
  registered,     \* NICK and USER have come
  identified,     \* the login command has been accepted
  joined,         \* channels the client is in
  asked,          \* how often each bot was asked
  noise           \* events of other users so far

cfg == <<login, delay>>
client == <<cfg, state, motd, connectDone, sended>>
server == <<registered, identified, joined, asked, noise>>
requestsVars == <<client, now, outq, inq, server>>

Channels == 1 .. NumChannels
Downloads == 1 .. NumDownloads
HasLogin == login # "none"

RequestsInit ==
  /\ login \in Logins /\ delay \in Delays
  /\ state = "CONNECTING" /\ motd = FALSE
  /\ connectDone = FALSE /\ sended = FALSE
  /\ now = 0 /\ outq = <<>> /\ inq = <<>>
  /\ registered = FALSE /\ identified = FALSE /\ joined = {}
  /\ asked = [d \in Downloads |-> 0] /\ noise = 0

-----------------------------------------------------------------------------
(* Commands.                                                                *)

Join(c) == <<"JOIN", c>>
Msg(d) == <<"PRIVMSG", d>>
Other(name) == <<name, 0>>

\* irc_send_raw for each of the commands: those that find no room, and all of
\* them before the session is connected, are dropped.
Sent(commands) ==
  LET free == Room - Len(outq)
      n == IF free < Len(commands) THEN free ELSE Len(commands)
  IN  IF state = "CONNECTED" THEN outq \o SubSeq(commands, 1, n) ELSE outq

join_channels == [c \in Channels |-> Join(c)]
xdcc_requests == [d \in Downloads |-> Msg(d)]

\* Mutant: SENDED_FLAG is not looked at.
send_xdcc_requests_Always(first) ==
  /\ outq' = Sent(first \o xdcc_requests)
  /\ sended' = TRUE

\* send_xdcc_requests, after the commands first: once, whether they were accepted
\* or not.
send_xdcc_requests(first) ==
  /\ outq' = Sent(IF sended THEN first ELSE first \o xdcc_requests)
  /\ sended' = TRUE

\* Only the commands first are sent.
SendOnly(first) == outq' = Sent(first) /\ UNCHANGED sended

-----------------------------------------------------------------------------
(* The main loop and its callbacks.                                         *)

handle_connecting_state ==
  /\ state = "CONNECTING"
  /\ state' = "CONNECTED"
  /\ outq' = <<Other("NICK"), Other("USER")>>
  /\ UNCHANGED <<cfg, motd, connectDone, sended, now, inq, server>>

\* print_output_callback: the delay is over.
shouldSendXdccRequests == delay # NoDelay /\ ~sended /\ delay < now

print_output_callback ==
  /\ shouldSendXdccRequests
  /\ send_xdcc_requests(<<>>)
  /\ UNCHANGED <<cfg, state, motd, connectDone, now, inq, server>>

\* send_login_command: a command that is too short is not sent.
send_login_command == IF login = "short" THEN <<>> ELSE <<Other("LOGIN")>>

\* Mutant: the channels are joined at once.
on_connect_event_Joins ==
  /\ SendOnly(IF connectDone THEN <<>> ELSE join_channels)
  /\ connectDone' = TRUE

\* on_connect_event, for the end of the MOTD or the notice of the server.
on_connect_event ==
  /\ SendOnly(CASE connectDone -> <<>>
                [] ~connectDone /\ HasLogin -> send_login_command
                [] OTHER -> join_channels)
  /\ connectDone' = TRUE

\* The handler of the first line in inq.
Receives(line) ==
  /\ state = "CONNECTED" /\ inq # <<>> /\ Head(inq) = line
  /\ inq' = Tail(inq)
  /\ UNCHANGED <<cfg, state, now, server>>

\* 376 or 422: handle_parser_result calls event_connect the first time.
event_connect ==
  /\ Receives("ENDOFMOTD")
  /\ IF motd THEN UNCHANGED <<connectDone, sended, outq>> ELSE on_connect_event
  /\ motd' = TRUE

\* event_notice with "You are connected": check_connected_event.
event_notice ==
  /\ Receives("YOU_ARE_CONNECTED")
  /\ on_connect_event
  /\ UNCHANGED motd

\* A JOIN asks the bots unless a delay or a login is to be waited for.
JoinRequests == delay = NoDelay /\ ~HasLogin

\* event_join: anybody's JOIN.
event_join ==
  /\ Receives("JOIN")
  /\ IF JoinRequests THEN send_xdcc_requests(<<Other("UMODE")>>)
                     ELSE SendOnly(<<Other("UMODE")>>)
  /\ UNCHANGED <<motd, connectDone>>

\* Mutant: the channels are joined without a login only.
event_umode_Inverted ==
  /\ Receives("UMODE +r")
  /\ SendOnly(IF HasLogin THEN <<>> ELSE join_channels)
  /\ UNCHANGED <<motd, connectDone>>

\* event_umode: +r tells that the login has been accepted.
event_umode ==
  /\ Receives("UMODE +r")
  /\ SendOnly(IF HasLogin THEN join_channels ELSE <<>>)
  /\ UNCHANGED <<motd, connectDone>>

\* event_mode: +v for anybody in a channel.
event_mode ==
  /\ Receives("MODE +v")
  /\ IF HasLogin THEN send_xdcc_requests(<<>>) ELSE SendOnly(<<>>)
  /\ UNCHANGED <<motd, connectDone>>

Client ==
  \/ handle_connecting_state \/ print_output_callback
  \/ event_connect \/ event_notice \/ event_join \/ event_umode \/ event_mode

-----------------------------------------------------------------------------
(* The server and the clock.                                                *)

Tick == now < MaxTime /\ now' = now + 1 /\ UNCHANGED <<client, outq, inq, server>>

\* The first command in outq.
Reads(command) ==
  /\ outq # <<>> /\ Head(outq) = command
  /\ outq' = Tail(outq)
  /\ UNCHANGED <<client, now, noise>>

\* USER completes the registration: the server greets with the MOTD, and some
\* servers with a notice.
ServerRegisters ==
  /\ Reads(Other("USER"))
  /\ registered' = TRUE
  /\ \E greeting \in {<<"ENDOFMOTD">>, <<"YOU_ARE_CONNECTED", "ENDOFMOTD">>,
                      <<"ENDOFMOTD", "YOU_ARE_CONNECTED">>} : inq' = inq \o greeting
  /\ UNCHANGED <<identified, joined, asked>>

\* The login is accepted.
ServerIdentifies ==
  /\ Reads(Other("LOGIN"))
  /\ identified' = registered
  /\ inq' = IF registered THEN Append(inq, "UMODE +r") ELSE inq
  /\ UNCHANGED <<registered, joined, asked>>

ServerJoins ==
  \E c \in Channels :
    /\ Reads(Join(c))
    /\ joined' = IF registered THEN joined \cup {c} ELSE joined
    /\ inq' = IF registered /\ c \notin joined THEN Append(inq, "JOIN") ELSE inq
    /\ UNCHANGED <<registered, identified, asked>>

ServerForwards ==
  \E d \in Downloads :
    /\ Reads(Msg(d))
    /\ asked' = [asked EXCEPT ![d] = @ + 1]
    /\ UNCHANGED <<inq, registered, identified, joined>>

ServerIgnores ==
  /\ Reads(Other("NICK")) \/ Reads(Other("UMODE"))
  /\ UNCHANGED <<inq, registered, identified, joined, asked>>

\* Other users join and are voiced, MOTD and modes are repeated.
Noise ==
  /\ registered /\ noise < MaxNoise
  /\ noise' = noise + 1
  /\ \E line \in {"ENDOFMOTD"} \cup (IF joined # {} THEN {"JOIN", "MODE +v"} ELSE {})
                   \cup (IF identified THEN {"UMODE +r"} ELSE {}) :
       inq' = Append(inq, line)
  /\ UNCHANGED <<client, now, outq, registered, identified, joined, asked>>

\* The client is voiced in a channel it has joined.
Voice ==
  /\ identified /\ joined # {} /\ ~sended /\ "MODE +v" \notin {inq[i] : i \in 1 .. Len(inq)}
  /\ inq' = Append(inq, "MODE +v")
  /\ UNCHANGED <<client, now, outq, server>>

Server ==
  \/ ServerRegisters \/ ServerIdentifies \/ ServerJoins \/ ServerForwards \/ ServerIgnores

RequestsNext == Client \/ Tick \/ Server \/ Noise \/ Voice

RequestsSpec == RequestsInit /\ [][RequestsNext]_requestsVars

\* The main loop runs, time passes, the server reads and voices the client.
RequestsFairSpec ==
  /\ RequestsSpec
  /\ WF_requestsVars(Client) /\ WF_requestsVars(Tick)
  /\ WF_requestsVars(Server) /\ WF_requestsVars(Voice)

-----------------------------------------------------------------------------
(* Properties.                                                              *)

\* Whatever events come, of whomever and however often, and whether the timer, a
\* JOIN or a voice mode makes the client ask: no bot is asked twice for the same
\* package.
AskedOnce == \A d \in Downloads : asked[d] <= 1

\* README.md:60 "if you also have to join #best-chat-channel in order to
\* download": without a delay the request reaches the bot when the client is in
\* all the channels, although the first JOIN it sees makes it ask.
AskedInChannels ==
  \A d \in Downloads : (delay = NoDelay /\ asked'[d] # asked[d]) => joined = Channels

\* With a login command no channel is joined and, unless the delay timer asks,
\* no bot asked before the login has been accepted.
LoginFirst ==
  (HasLogin /\ (joined' # joined \/ (delay = NoDelay /\ asked' # asked))) => identified

\* argument_parser.c:172 "Delay the sending of the xdcc send ccommand to
\* specified seconds": no event makes the client ask before the delay is over,
\* except the voice mode of anybody when a login command is set (event_mode does
\* not look at the delay).
NotBeforeDelay == (sended' # sended /\ delay # NoDelay /\ ~HasLogin) => now >= delay

\* Nothing is done before its turn: the channels, the login and the delay come
\* before the requests, in whatever order their events arrive.
EachInTurn == [][AskedInChannels /\ LoginFirst /\ NotBeforeDelay]_requestsVars

\* The client is on its way to ask: it waits for no delay and its login command
\* can be sent, or it is connected and its delay has not run out unused.
WillAsk ==
  \/ delay = NoDelay /\ login # "short"
  \/ delay # NoDelay /\ state = "CONNECTED" /\ ~sended

\* Every bot is asked in the end.  (A delay that is over before the session is
\* connected is not covered: the requests are then dropped for good.)
AskedEventually == \A d \in Downloads : WillAsk ~> (asked[d] > 0)
===============================================================================
