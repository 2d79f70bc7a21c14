---------------------------- MODULE ConnectProofs ----------------------------
(***************************************************************************)
(* What irc_connect reports is true, for every number of addresses,        *)
(* whatever the network makes of them.                                     *)
(*                                                                         *)
(* The FreeBSD build is excluded: its sockets do not block and its select  *)
(* finds a socket writable whose connection was refused, so that            *)
(* isConnectionEstablished takes the refusal for a connection.             *)
(***************************************************************************)
EXTENDS Connect, TLAPS

\* Every variable has its type.
ConnectTypeOK ==
  /\ system \in Systems
  /\ pc \in {"resolve", "open", "connect", "wait", "run", "stop", "exit"}
  /\ numAddresses \in Nat /\ fate \in [0 .. numAddresses - 1 -> Fates]
  /\ start \in Nat /\ selectedAddress \in Nat /\ opened \in Nat
  /\ conn \in {"none", "pending", "up", "failed", "reset"}
  /\ session_state \in {"INIT", "CONNECTING", "CONNECTED", "DISCONNECTED"}
  /\ lasterror \in {"none", "ERR_RESOLV", "ERR_SOCKET", "ERR_CONNECT", "ERR_STATE"}

Trying == pc \in {"open", "connect", "wait"}

\* session->sock is the only socket, and it is open where the code takes it to be.
OneSocket ==
  /\ opened = IF sock THEN 1 ELSE 0
  /\ pc \in {"resolve", "open", "exit"} => ~sock
  /\ pc \in {"connect", "wait", "run"} => sock

\* The addresses from start to the one being tried have failed, each for its own reason.
FailedSoFar ==
  Trying => /\ start <= selectedAddress /\ selectedAddress < numAddresses
            /\ lasterror = "none"
            /\ \A a \in Nat :
                 start <= a /\ a < selectedAddress => a \in tried /\ fate[a] # "accepts"

\* What the socket says of the address being tried.
ConnTrue ==
  /\ pc \in {"resolve", "open", "connect"} => conn = "none" /\ session_state = "INIT"
  /\ pc = "wait" => /\ conn \in {"pending", "up", "failed"} /\ session_state = "INIT"
                    /\ Blocking => conn = "up"
                    /\ conn = "failed" => fate[selectedAddress] # "accepts"
  /\ pc = "run" => conn \in {"up", "reset"} /\ session_state \in {"CONNECTING", "CONNECTED"}
  /\ session_state = "CONNECTING" => pc = "run"
  /\ pc \in {"resolve", "run"} => lasterror = "none"

\* The inductive invariant.
ConnectInv == ConnectTypeOK /\ OneSocket /\ FailedSoFar /\ ConnTrue /\ GaveUpAfterAll

-----------------------------------------------------------------------------

\* Nothing is open and nothing reported when the program starts.
LEMMA InitConnect == ASSUME ConnectInit PROVE ConnectInv
<1>1. ConnectTypeOK
  BY ConnectAssumption DEF ConnectInit, ConnectTypeOK
<1>2. OneSocket
  BY DEF ConnectInit, OneSocket
<1>3. FailedSoFar /\ ConnTrue /\ GaveUpAfterAll
  BY DEF ConnectInit, FailedSoFar, Trying, ConnTrue, GaveUpAfterAll
<1> QED
  BY <1>1, <1>2, <1>3 DEF ConnectInv

\* The invariant says what irc_connect promises.
LEMMA ConnectInvImplies == ConnectInv => OutcomeTrue
BY DEF ConnectInv, ConnectTypeOK, OneSocket, ConnTrue, OutcomeTrue, SuccessIsConnection,
       NoSocketLeft

\* The address chosen at random is one of the host's.
LEMMA RandomAddress ==
  ASSUME NEW n \in Nat \ {0}, NEW r \in rand_range(0, n - 1)
  PROVE  r \in 0 .. n - 1
BY DEF rand_range

\* Resolving the name.
LEMMA ResolveKeeps ==
  ASSUME ConnectInv, resolve_hostname_by_dns PROVE ConnectInv'
<1>1. CASE numAddresses = 0 /\ Fails("ERR_RESOLV")
  BY <1>1 DEF resolve_hostname_by_dns, Fails, ConnectInv, ConnectTypeOK, Trying, OneSocket,
       FailedSoFar, ConnTrue, GaveUpAfterAll, network, session, Blocking
<1>2. CASE numAddresses > 0 /\ start' \in rand_range(0, numAddresses - 1)
             /\ selectedAddress' = start' /\ pc' = "open" /\ UNCHANGED session
  <2>1. start' \in 0 .. numAddresses - 1
    BY <1>2, RandomAddress DEF ConnectInv, ConnectTypeOK
  <2>2. ConnectTypeOK' /\ OneSocket'
    BY <1>2, <2>1 DEF resolve_hostname_by_dns, ConnectInv, ConnectTypeOK, OneSocket, network,
         session
  <2>3. FailedSoFar'
    <3>1. lasterror' = "none" /\ numAddresses' = numAddresses /\ numAddresses \in Nat
      BY <1>2 DEF resolve_hostname_by_dns, ConnectInv, ConnectTypeOK, ConnTrue, network, session
    <3>2. selectedAddress' = start' /\ start' \in Nat /\ start' < numAddresses
      BY <1>2, <2>1, <3>1
    <3> QED
      BY <3>1, <3>2 DEF FailedSoFar
  <2>4. ConnTrue' /\ GaveUpAfterAll'
    BY <1>2 DEF resolve_hostname_by_dns, ConnectInv, ConnTrue, GaveUpAfterAll, network, session
  <2> QED
    BY <2>2, <2>3, <2>4 DEF ConnectInv
<1> QED
  BY <1>1, <1>2 DEF resolve_hostname_by_dns

\* Opening a socket and connecting it: a blocking connect is over, with success, when
\* the wait begins.
LEMMA OpenKeeps ==
  ASSUME ConnectInv, init_socket_fails \/ init_socket_incomplete \/ init_socket \/ try_to_connect
  PROVE  ConnectInv'
<1>1. CASE init_socket_fails
  BY <1>1 DEF init_socket_fails, Fails, ConnectInv, ConnectTypeOK, Trying, OneSocket,
       FailedSoFar, ConnTrue, GaveUpAfterAll, network, session, Blocking
<1>2. CASE init_socket_incomplete
  BY <1>2 DEF init_socket_incomplete, Fails, ConnectInv, ConnectTypeOK, Trying, OneSocket,
       FailedSoFar, ConnTrue, GaveUpAfterAll, network, session, Blocking
<1>3. CASE init_socket
  BY <1>3 DEF init_socket, ConnectInv, ConnectTypeOK, Trying, OneSocket,
       FailedSoFar, ConnTrue, GaveUpAfterAll, network, session, Blocking
<1>4. CASE try_to_connect
  <2>1. CASE connect_error
    BY <1>4, <2>1 DEF try_to_connect, Fails, ConnectInv, ConnectTypeOK, Trying, OneSocket,
       FailedSoFar, ConnTrue, GaveUpAfterAll, network, session, Blocking
  <2>2. CASE ~connect_error
    <3>1. conn' = IF Blocking THEN "up" ELSE "pending"
      BY <1>4, <2>2 DEF try_to_connect, connect_error
    <3> QED
      BY <1>4, <2>2, <3>1 DEF try_to_connect, ConnectInv, ConnectTypeOK, Trying, OneSocket,
       FailedSoFar, ConnTrue, GaveUpAfterAll, network, session, Blocking
  <2> QED
    BY <2>1, <2>2
<1> QED
  BY <1>1, <1>2, <1>3, <1>4

\* The wait ends with a connection: on Linux poll hides a failed one, on Windows connect
\* has told of it before.
LEMMA FoundKeeps ==
  ASSUME "FreeBSD" \notin Systems, ConnectInv, connection_found PROVE ConnectInv'
<1>1. system \in {"Linux", "Windows"}
  BY ConnectAssumption DEF ConnectInv, ConnectTypeOK
<1>2. conn = "up"
  BY <1>1 DEF connection_found, hasConnection, Writable, Watcher, ConnectInv, ConnTrue, Blocking
<1> QED
  BY <1>2 DEF connection_found, ConnectInv, ConnectTypeOK, Trying, OneSocket,
       FailedSoFar, ConnTrue, GaveUpAfterAll, network, session, Blocking

\* The wait ends without one: the address did not accept, and after the last address
\* LIBIRC_ERR_CONNECT is reported.
LEMMA NextAddressKeeps ==
  ASSUME ConnectInv, next_address PROVE ConnectInv'
<1>1. sock /\ start <= selectedAddress /\ selectedAddress < numAddresses
  BY DEF next_address, ConnectInv, OneSocket, FailedSoFar, Trying
<1>2. fate[selectedAddress] # "accepts"
  BY <1>1 DEF next_address, Waited, hasConnection, isConnectionEstablished, Writable,
       ConnectInv, ConnTrue
<1>3. \A a \in Nat :
        start <= a /\ a < selectedAddress + 1 => a \in tried' /\ fate[a] # "accepts"
  <2>1. \A a \in Nat :
          start <= a /\ a < selectedAddress => a \in tried /\ fate[a] # "accepts"
    BY DEF next_address, ConnectInv, FailedSoFar, Trying
  <2> QED
    BY <1>2, <2>1 DEF next_address, ConnectInv, ConnectTypeOK
<1>4. ConnectTypeOK'
  <2>1. opened' \in Nat
    BY <1>1 DEF next_address, ConnectInv, ConnectTypeOK, OneSocket
  <2> QED
    BY <2>1 DEF next_address, Fails, ConnectInv, ConnectTypeOK, network, session
<1>5. OneSocket'
  BY <1>1 DEF next_address, Fails, ConnectInv, OneSocket
<1>6. FailedSoFar' /\ GaveUpAfterAll'
  <2>1. lasterror = "none" /\ conn' = "none"
    BY DEF next_address, ConnectInv, FailedSoFar, Trying
  <2>2. CASE selectedAddress + 1 = numAddresses
    BY <1>3, <2>2 DEF next_address, Fails, FailedSoFar, Trying, GaveUpAfterAll, network,
         ConnectInv, ConnectTypeOK
  <2>3. CASE selectedAddress + 1 # numAddresses
    BY <1>1, <1>3, <2>1, <2>3 DEF next_address, FailedSoFar, Trying, GaveUpAfterAll, network,
         session, ConnectInv, ConnectTypeOK
  <2> QED
    BY <2>2, <2>3
<1>7. ConnTrue'
  BY DEF next_address, Fails, ConnectInv, ConnTrue, FailedSoFar, Trying, network, session
<1> QED
  BY <1>4, <1>5, <1>6, <1>7 DEF ConnectInv

\* The first round of irc_run and the end of the program: LIBIRC_ERR_CONNECT there means
\* that the server broke the connection.
LEMMA RunKeeps ==
  ASSUME ConnectInv, not_connected \/ confirm_connection \/ exitPgm PROVE ConnectInv'
<1>1. CASE not_connected
  BY <1>1 DEF not_connected, ConnectInv, ConnectTypeOK, Trying, OneSocket,
       FailedSoFar, ConnTrue, GaveUpAfterAll, network, session, Blocking
<1>2. CASE confirm_connection
  BY <1>2 DEF confirm_connection, ConnectInv, ConnectTypeOK, Trying, OneSocket,
       FailedSoFar, ConnTrue, GaveUpAfterAll, network, session, Blocking
<1>3. CASE exitPgm
  <2>1. opened' = 0 /\ sock' = FALSE
    BY <1>3 DEF exitPgm, ConnectInv, OneSocket
  <2> QED
    BY <1>3, <2>1 DEF exitPgm, ConnectInv, ConnectTypeOK, Trying, OneSocket,
       FailedSoFar, ConnTrue, GaveUpAfterAll, network, session, Blocking
<1> QED
  BY <1>1, <1>2, <1>3

\* The kernel and the server.
LEMMA NetworkKeeps == ASSUME ConnectInv, Completes \/ Resets PROVE ConnectInv'
<1>1. CASE Completes
  BY <1>1 DEF Completes, ConnectInv, ConnectTypeOK, Trying, OneSocket,
       FailedSoFar, ConnTrue, GaveUpAfterAll, network, session, Blocking
<1>2. CASE Resets
  BY <1>2 DEF Resets, ConnectInv, ConnectTypeOK, Trying, OneSocket,
       FailedSoFar, ConnTrue, GaveUpAfterAll, network, session, Blocking
<1> QED
  BY <1>1, <1>2

\* libircclient.c:156 "Now we have to determine whether the socket is connected or the
\* connect is failed": in the Linux and Windows builds irc_connect reports success only for
\* a connection that came up, gives up only after every address from the chosen one on has
\* failed, and leaves no socket behind.
THEOREM Outcome ==
  ASSUME "FreeBSD" \notin Systems PROVE ConnectSpec => []OutcomeTrue
<1>1. ASSUME ConnectInv, [ConnectNext]_connectVars PROVE ConnectInv'
  <2>1. CASE UNCHANGED connectVars
    BY <1>1, <2>1 DEF connectVars, ConnectInv, ConnectTypeOK, Trying, OneSocket, FailedSoFar,
       ConnTrue, GaveUpAfterAll, network, session, Blocking
  <2> QED
    BY <1>1, <2>1, ResolveKeeps, OpenKeeps, FoundKeeps, NextAddressKeeps, RunKeeps,
       NetworkKeeps DEF ConnectNext, Program
<1> QED
  BY <1>1, InitConnect, ConnectInvImplies, PTL DEF ConnectSpec
===============================================================================
