------------------------------- MODULE Connect --------------------------------
(***************************************************************************)
(* How xdccget finds a server: irc_connect_generic resolves the name, tries *)
(* the addresses from a random one on, waits 5 seconds for each, and the    *)
(* first round of irc_run confirms the connection.  main ends the program   *)
(* when that fails.                                                         *)
(*                                                                         *)
(* fate says what the network makes of every address:                      *)
(*   "accepts"      the connection is up within 5 seconds                  *)
(*   "refuses"      the connection is refused within 5 seconds             *)
(*   "silent"       nothing is heard for 5 seconds                         *)
(*   "unreachable"  connect fails at once                                  *)
(***************************************************************************)
EXTENDS Integers, FiniteSets

CONSTANTS
  MaxAddresses, \* bound: addresses of the host name
  Systems       \* "Linux" (poll), "Windows" (select, sockets stay blocking)
                \* and "FreeBSD" (select)

ASSUME ConnectAssumption ==
  MaxAddresses \in Nat /\ Systems \subseteq {"Linux", "Windows", "FreeBSD"}

VARIABLES
  system,      \* what the program was built for
  pc,          \* "resolve", "open", "connect", "wait", "run", "stop", "exit"
  numAddresses, fate,
  start,       \* the address chosen at random
  selectedAddress,
  tried,       \* addresses waited for
  opened,      \* sockets the process has open
  sock,        \* session->sock is open
  conn,        \* the socket: "none", "pending", "up", "failed", "reset"
  session_state, \* session->state
  lasterror

network == <<system, numAddresses, fate>>
session == <<session_state, lasterror>>
connectVars == <<pc, network, start, selectedAddress, tried, opened, sock, conn, session>>

Fates == {"accepts", "refuses", "silent", "unreachable"}
Addresses == 0 .. numAddresses - 1

Blocking == system = "Windows"
Watcher == IF system = "Linux" THEN "poll" ELSE "select"

ConnectInit ==
  /\ system \in Systems
  /\ numAddresses \in 0 .. MaxAddresses
  /\ fate \in [0 .. numAddresses - 1 -> Fates]
  /\ pc = "resolve" /\ start = 0 /\ selectedAddress = 0 /\ tried = {}
  /\ opened = 0 /\ sock = FALSE /\ conn = "none"
  /\ session_state = "INIT" /\ lasterror = "none"

\* err_out: irc_connect returns 1.
Fails(error) ==
  /\ lasterror' = error /\ pc' = "stop" /\ UNCHANGED session_state

\* The values of rand_range.
rand_range(low, high) == IF high = 0 THEN {0} ELSE {low + k : k \in 0 .. high - 1}

resolve_hostname_by_dns ==
  /\ pc = "resolve"
  /\ \/ /\ numAddresses = 0
        /\ Fails("ERR_RESOLV")
        /\ UNCHANGED <<start, selectedAddress>>
     \/ /\ numAddresses > 0
        /\ start' \in rand_range(0, numAddresses - 1)
        /\ selectedAddress' = start'
        /\ pc' = "open" /\ UNCHANGED session
  /\ UNCHANGED <<network, tried, opened, sock, conn>>

\* init_socket: socket fails.
init_socket_fails ==
  /\ pc = "open"
  /\ Fails("ERR_SOCKET")
  /\ UNCHANGED <<network, start, selectedAddress, tried, opened, sock, conn>>

\* init_socket: fcntl or ssl_init fails, the socket stays open.
init_socket_incomplete ==
  /\ pc = "open"
  /\ opened' = opened + 1 /\ sock' = TRUE
  /\ Fails("ERR_SOCKET")
  /\ UNCHANGED <<network, start, selectedAddress, tried, conn>>

init_socket ==
  /\ pc = "open"
  /\ opened' = opened + 1 /\ sock' = TRUE /\ conn' = "none"
  /\ pc' = "connect"
  /\ UNCHANGED <<network, start, selectedAddress, tried, session>>

\* connect fails at once; a blocking one fails later with the same result.
connect_error ==
  LET f == fate[selectedAddress]
  IN  f = "unreachable" \/ (Blocking /\ f # "accepts")

\* try_to_connect_ipv4, try_to_connect_ipv6.
try_to_connect ==
  /\ pc = "connect"
  /\ \/ /\ connect_error
        /\ Fails("ERR_SOCKET")
        /\ UNCHANGED conn
     \/ /\ ~connect_error
        /\ conn' = CASE ~Blocking -> "pending"
                     [] Blocking /\ fate[selectedAddress] = "accepts" -> "up"
                     [] OTHER -> "failed"
        /\ pc' = "wait" /\ UNCHANGED session
  /\ UNCHANGED <<network, start, selectedAddress, tried, opened, sock>>

\* The kernel ends the attempt.
Completes ==
  /\ pc = "wait" /\ conn = "pending" /\ fate[selectedAddress] \in {"accepts", "refuses"}
  /\ conn' = IF fate[selectedAddress] = "accepts" THEN "up" ELSE "failed"
  /\ UNCHANGED <<pc, network, start, selectedAddress, tried, opened, sock, session>>

\* fdwatch has returned: the attempt has ended or 5 seconds are over.
Waited == conn # "pending" \/ fate[selectedAddress] = "silent"

\* fdwatch_check_fd(sock, FDW_WRITE): poll hides a descriptor in error.
Writable == conn = "up" \/ (Watcher = "select" /\ conn \in {"failed", "reset"})

\* Mutant: the descriptor is not checked.
hasConnection_Unchecked == sock

\* isConnectionEstablished: getsockname succeeds for every open socket.
isConnectionEstablished == sock

hasConnection == Writable /\ isConnectionEstablished

connection_found ==
  /\ pc = "wait" /\ Waited /\ hasConnection
  /\ tried' = tried \cup {selectedAddress}
  /\ session_state' = "CONNECTING"
  /\ pc' = "run"
  /\ UNCHANGED <<network, start, selectedAddress, opened, sock, conn, lasterror>>

\* Mutant: the loop does not go on to the next address.
next_address_Same ==
  /\ pc = "wait" /\ Waited /\ ~hasConnection
  /\ tried' = tried \cup {selectedAddress}
  /\ opened' = opened - 1 /\ sock' = FALSE /\ conn' = "none"
  /\ pc' = "open"
  /\ UNCHANGED <<network, start, selectedAddress, session>>

\* No connection: the socket is closed and the next address tried.
next_address ==
  /\ pc = "wait" /\ Waited /\ ~hasConnection
  /\ tried' = tried \cup {selectedAddress}
  /\ opened' = opened - 1 /\ sock' = FALSE /\ conn' = "none"
  /\ selectedAddress' = selectedAddress + 1
  /\ IF selectedAddress + 1 = numAddresses THEN Fails("ERR_CONNECT")
                                           ELSE pc' = "open" /\ UNCHANGED session
  /\ UNCHANGED <<network, start>>

\* The server breaks the connection.
Resets ==
  /\ pc = "run" /\ session_state = "CONNECTING" /\ conn = "up" /\ conn' = "reset"
  /\ UNCHANGED <<pc, network, start, selectedAddress, tried, opened, sock, session>>

\* The first round of irc_run: the descriptor is not writable.
not_connected ==
  /\ pc = "run" /\ session_state = "CONNECTING" /\ ~Writable
  /\ session_state' = "DISCONNECTED" /\ lasterror' = "ERR_STATE"
  /\ pc' = "stop"
  /\ UNCHANGED <<network, start, selectedAddress, tried, opened, sock, conn>>

\* handle_connecting_state: getpeername tells whether there is a connection.
confirm_connection ==
  /\ pc = "run" /\ session_state = "CONNECTING" /\ Writable
  /\ \/ /\ conn = "up"
        /\ session_state' = "CONNECTED" /\ lasterror' = "none" /\ UNCHANGED pc
     \/ /\ conn # "up"
        /\ session_state' = "DISCONNECTED" /\ lasterror' = "ERR_CONNECT"
        /\ pc' = "stop"
  /\ UNCHANGED <<network, start, selectedAddress, tried, opened, sock, conn>>

\* main: exitPgm and doCleanUp, where irc_destroy_session closes the socket.
exitPgm ==
  /\ pc = "stop" /\ pc' = "exit"
  /\ opened' = IF sock THEN opened - 1 ELSE opened
  /\ sock' = FALSE
  /\ UNCHANGED <<network, start, selectedAddress, tried, conn, session>>

Program ==
  \/ resolve_hostname_by_dns \/ init_socket_fails \/ init_socket_incomplete \/ init_socket
  \/ try_to_connect \/ connection_found \/ next_address \/ not_connected
  \/ confirm_connection \/ exitPgm

ConnectNext == Program \/ Completes \/ Resets

ConnectSpec == ConnectInit /\ [][ConnectNext]_connectVars

\* The program runs, and the kernel ends the attempts that do not stay silent.
ConnectFairSpec == ConnectSpec /\ WF_connectVars(Program) /\ WF_connectVars(Completes)

-----------------------------------------------------------------------------
(* Properties.                                                              *)

\* libircclient.c:156 "Now we have to determine whether the socket is connected or
\* the connect is failed": irc_connect reports success only for an address
\* whose connection came up.
SuccessIsConnection == session_state = "CONNECTING" => conn \in {"up", "reset"}

\* LIBIRC_ERR_CONNECT, unless the server broke a connection: every address from
\* the one chosen at random on was tried, and none of them took the connection.
GaveUpAfterAll ==
  (lasterror = "ERR_CONNECT" /\ conn # "reset") =>
    \A a \in start .. numAddresses - 1 : a \in tried /\ fate[a] # "accepts"

\* The process has at most one socket, which session->sock knows of, and none
\* when it exits.
NoSocketLeft ==
  /\ opened = IF sock THEN 1 ELSE 0
  /\ pc = "exit" => opened = 0

\* What irc_connect reports is true, and it leaves no socket behind.
OutcomeTrue == SuccessIsConnection /\ GaveUpAfterAll /\ NoSocketLeft

\* Either the session is connected or the program ends.
Decides == <>(session_state = "CONNECTED" \/ pc = "exit")
===============================================================================
