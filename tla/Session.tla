------------------------------- MODULE Session -------------------------------
(***************************************************************************)
(* The session with the IRC server: the main loop irc_run, the incoming    *)
(* and outgoing buffers (libircclient.c), plain and TLS reads and writes   *)
(* (ssl.c), and the signal handler that queues a QUIT.                     *)
(*                                                                         *)
(* Both byte streams are cut into units.  A unit is its position in its    *)
(* stream; every command has CmdLen units and every line LineLen, the last *)
(* two of which are CR and LF.                                             *)
(***************************************************************************)
EXTENDS Integers, Sequences

CONSTANTS
  CmdLen, LineLen,
  OutCap,      \* sizeof(outgoing_buf)
  InCap,       \* sizeof(incoming_buf) - 1
  Tls,         \* session->ssl is set
  Partial,     \* TRUE: send may take a part of what it is given
  Signals,     \* where SIGINT may come: "never", in "fdwatch", or "anywhere"
  Faults,      \* TRUE: the connection may break
  Watch,       \* "poll" (Linux Makefile) or "select" (FreeBSD, Windows)
  MaxReplies,  \* bound: commands one callback sends
  MaxCommands, \* bound: commands accepted in all
  MaxLines     \* bound: lines the server sends

ASSUME SessionAssumption ==
  /\ CmdLen \in Nat /\ CmdLen >= 3 /\ LineLen \in Nat /\ LineLen >= 3
  /\ OutCap \in Nat /\ InCap \in Nat /\ LineLen <= InCap
  /\ Watch \in {"poll", "select"}
  /\ {Tls, Partial, Faults} \subseteq BOOLEAN /\ Signals \in {"never", "fdwatch", "anywhere"}
  /\ MaxReplies \in Nat /\ MaxCommands \in Nat /\ MaxLines \in Nat

VARIABLES
  state,           \* session->state
  pc,              \* where the main loop is
  back,            \* where it goes on after the commands of a callback
  todo,            \* commands the callback has still to send
  ready,           \* what fdwatch found ready
  outgoing_buf, outgoing_offset,
  length,          \* what session_socket_write returned
  incoming_buf, incoming_offset,
  flags,           \* SESSIONFL_SSL_WRITE_WANTS_READ, SESSIONFL_SSL_READ_WANTS_WRITE
  quit,            \* SIGINT has come
  link,            \* the connection: "up", "fin" or "reset"
  decrypted,       \* units taken from the connection, by OpenSSL or the client
  consumed,        \* units given to the client
  accepted, toServer, produced, handled      \* see Channel

loop == <<pc, back, todo, ready, length>>
outbuf == <<outgoing_buf, outgoing_offset>>
inbuf == <<incoming_buf, incoming_offset>>
taken == <<decrypted, consumed>>
streams == <<accepted, toServer, produced, handled>>
vars == <<state, loop, outbuf, inbuf, flags, quit, link, taken, streams>>

-----------------------------------------------------------------------------

IsCR(u, len) == u % len = len - 1
IsLF(u, len) == u % len = 0 /\ u > 0

\* Mutant: only a CR LF at the end of the data is found.
libirc_findcrlf_AtEnd(buf, n, len) ==
  IF n > 1 /\ IsCR(buf[n - 1], len) /\ IsLF(buf[n], len) THEN n ELSE 0

\* libirc_findcrlf: the offset behind the first CR LF, or 0.
libirc_findcrlf(buf, n, len) ==
  LET ends == {i \in 2 .. n : IsCR(buf[i - 1], len) /\ IsLF(buf[i], len)}
  IN  IF ends = {} THEN 0 ELSE CHOOSE i \in ends : \A j \in ends : i <= j

\* memmove of what follows the first n units, and memcpy of new units to the end.
Moved(buf, offset, n) ==
  [i \in DOMAIN buf |-> IF i <= offset - n THEN buf[i + n] ELSE buf[i]]
Copied(buf, offset, base, n) ==
  [i \in DOMAIN buf |-> IF i \in offset + 1 .. offset + n THEN base + i - offset ELSE buf[i]]
First(buf, n) == [i \in 1 .. n |-> buf[i]]

Init ==
  /\ state = "CONNECTING"
  /\ pc = "watch" /\ back = "watch" /\ todo = 0 /\ ready = {} /\ length = 0
  /\ outgoing_buf = [i \in 1 .. OutCap |-> 0] /\ outgoing_offset = 0
  /\ incoming_buf = [i \in 1 .. InCap |-> 0] /\ incoming_offset = 0
  /\ flags = {} /\ quit = FALSE /\ link = "up"
  /\ decrypted = 0 /\ consumed = 0
  /\ accepted = 0 /\ toServer = <<>> /\ produced = 0 /\ handled = <<>>

-----------------------------------------------------------------------------
(* irc_send_raw, called todo times by a callback.                           *)

\* The command, its CR LF and one more unit fit behind the others.
Fits == CmdLen < OutCap - outgoing_offset
MayAccept == accepted < MaxCommands * CmdLen

\* A callback that sends up to MaxReplies commands; the loop goes on at next.
Callback(next) ==
  /\ todo' \in 0 .. MaxReplies
  /\ pc' = "send" /\ back' = next

irc_send_raw_copy ==
  /\ pc = "send" /\ todo > 0 /\ MayAccept
  /\ state = "CONNECTED" /\ Fits
  /\ outgoing_buf' = Copied(outgoing_buf, outgoing_offset, accepted, CmdLen)
  /\ pc' = "copied"
  /\ UNCHANGED <<state, back, todo, ready, length, outgoing_offset, inbuf, flags,
                 quit, link, taken, streams>>

irc_send_raw_count ==
  /\ pc = "copied"
  /\ outgoing_offset' = outgoing_offset + CmdLen
  /\ accepted' = accepted + CmdLen
  /\ todo' = todo - 1 /\ pc' = "send"
  /\ UNCHANGED <<state, back, ready, length, outgoing_buf, inbuf, flags, quit, link,
                 taken, toServer, produced, handled>>

\* LIBIRC_ERR_STATE or LIBIRC_ERR_NOMEM: the command is dropped, and the callback
\* goes on.  (The bound MaxCommands drops commands too.)
irc_send_raw_fails ==
  /\ pc = "send" /\ todo > 0
  /\ state # "CONNECTED" \/ ~Fits \/ ~MayAccept
  /\ todo' = todo - 1
  /\ UNCHANGED <<state, pc, back, ready, length, outbuf, inbuf, flags, quit, link,
                 taken, streams>>

callback_returns ==
  /\ pc = "send" /\ todo = 0
  /\ pc' = back
  /\ UNCHANGED <<state, back, todo, ready, length, outbuf, inbuf, flags, quit, link,
                 taken, streams>>

-----------------------------------------------------------------------------
(* irc_run: one round of the main loop.                                     *)

\* Mutants: reading waits for an empty buffer; the wrong buffer is searched.
WatchRead_Empty == state = "CONNECTED" /\ incoming_offset = 0
WatchWrite_Incoming ==
  \/ state = "CONNECTING"
  \/ state = "CONNECTED" /\ libirc_findcrlf(incoming_buf, incoming_offset, LineLen) > 0

\* irc_add_select_descriptors: what is watched.
WatchRead ==
  /\ state = "CONNECTED"
  /\ incoming_offset < InCap \/ "WRITE_WANTS_READ" \in flags
WatchWrite ==
  \/ state = "CONNECTING"
  \/ /\ state = "CONNECTED"
     /\ \/ libirc_findcrlf(outgoing_buf, outgoing_offset, CmdLen) > 0
        \/ "READ_WANTS_WRITE" \in flags

\* What fdwatch finds: readable when something has come (over TLS perhaps not
\* for us; what OpenSSL has already taken does not count), writable at times.  After a reset select finds both, poll reports
\* POLLERR and fdwatch_check_fd denies both.
MayBeRead == IF decrypted < produced \/ link # "up" THEN {TRUE} ELSE {FALSE, Tls}
Seen(read, write) ==
  IF link = "reset" /\ Watch = "poll" THEN {}
  ELSE (IF WatchRead /\ read THEN {"read"} ELSE {})
         \cup (IF WatchWrite /\ write THEN {"write"} ELSE {})

fdwatch(write) ==
  /\ pc = "watch" /\ state # "DISCONNECTED"
  /\ \E read \in MayBeRead : ready' = Seen(read, write)
  /\ pc' = "keep_alive"
  /\ UNCHANGED <<state, back, todo, length, outbuf, inbuf, flags, quit, link, taken,
                 streams>>

\* keep_alive_callback and the callbacks of the DCC sessions.
keep_alive_callback ==
  /\ pc = "keep_alive"
  /\ Callback("process")
  /\ UNCHANGED <<state, ready, length, outbuf, inbuf, flags, quit, link, taken, streams>>

\* irc_process_select_descriptors fails, and irc_run returns.
Disconnect ==
  /\ state' = "DISCONNECTED" /\ pc' = "watch"
  /\ UNCHANGED <<back, todo, ready, length, outbuf, inbuf, flags, quit, link, taken,
                 streams>>

\* The first round: NICK and USER are queued.  A connection that is not ready
\* within the timeout of the round is given up.
handle_connecting_state ==
  /\ pc = "process" /\ state = "CONNECTING"
  /\ \/ /\ "write" \in ready /\ link # "reset"
        /\ state' = "CONNECTED"
        /\ todo' = 2 /\ pc' = "send" /\ back' = "watch"
        /\ UNCHANGED <<ready, length, outbuf, inbuf, flags, quit, link, taken, streams>>
     \/ /\ "write" \notin ready \/ link = "reset"
        /\ Disconnect

-----------------------------------------------------------------------------
(* Reading.                                                                 *)

\* A read of n units: a plain one takes what has come, a TLS one what is left of
\* the record, or of the next record, that OpenSSL has decrypted.
Room == InCap - incoming_offset
AtMostRoom(n) == IF n < Room THEN n ELSE Room
Reads(n) ==
  \/ /\ ~Tls /\ n \in 1 .. AtMostRoom(produced - consumed)
     /\ decrypted' = consumed + n
  \/ /\ Tls /\ consumed < decrypted /\ n = AtMostRoom(decrypted - consumed)
     /\ UNCHANGED decrypted
  \/ /\ Tls /\ consumed = decrypted
     /\ \E m \in 1 .. MaxLines :
          /\ decrypted + m * LineLen <= produced
          /\ n = AtMostRoom(m * LineLen)
          /\ decrypted' = decrypted + m * LineLen

\* n units are read into incoming_buf and counted.
Take(n) ==
  /\ Reads(n)
  /\ incoming_buf' = Copied(incoming_buf, incoming_offset, consumed, n)
  /\ incoming_offset' = incoming_offset + n
  /\ consumed' = consumed + n

\* SSL_read and SSL_write may only want to be called again.
ReadRetry(f) == Tls /\ consumed = decrypted /\ flags' \in {f, f \cup {"READ_WANTS_WRITE"}}
WriteRetry(f) == Tls /\ flags' \in {f, f \cup {"WRITE_WANTS_READ"}}

\* session_socket_read of a ready descriptor.
session_socket_read ==
  /\ pc = "process" /\ state = "CONNECTED"
  /\ "read" \in ready /\ "READ_WANTS_WRITE" \notin flags
  /\ \/ (\E n \in 1 .. Room : Take(n)) /\ UNCHANGED flags
     \/ ReadRetry(flags) /\ UNCHANGED <<inbuf, taken>>
  /\ pc' = "lines"
  /\ UNCHANGED <<state, back, todo, ready, length, outbuf, quit, link, streams>>

\* Mutant: the end of the stream is not an error.
session_socket_read_fails_Errors ==
  /\ pc = "process" /\ state = "CONNECTED"
  /\ "read" \in ready /\ "READ_WANTS_WRITE" \notin flags
  /\ \/ link = "reset" /\ Disconnect
     \/ /\ link = "fin" /\ consumed = produced
        /\ pc' = "lines"
        /\ UNCHANGED <<state, back, todo, ready, length, outbuf, inbuf, flags, quit,
                       link, taken, streams>>

\* The connection is closed or broken.
session_socket_read_fails ==
  /\ pc = "process" /\ state = "CONNECTED"
  /\ "read" \in ready /\ "READ_WANTS_WRITE" \notin flags
  /\ link = "reset" \/ (link = "fin" /\ consumed = produced)
  /\ Disconnect

nothing_to_read ==
  /\ pc = "process" /\ state = "CONNECTED" /\ "read" \notin ready
  /\ pc' = "write"
  /\ UNCHANGED <<state, back, todo, ready, length, outbuf, inbuf, flags, quit, link,
                 taken, streams>>

\* Bound on what the server reads, for runs in which commands are sent twice.
MaxWire == MaxCommands * CmdLen

\* SSL_read has wanted to write before: now ssl_send is called and its result
\* discarded, so what it sends stays in outgoing_buf.
read_wants_write ==
  /\ pc = "process" /\ state = "CONNECTED"
  /\ "read" \in ready /\ "READ_WANTS_WRITE" \in flags
  /\ \/ /\ flags' = flags \ {"READ_WANTS_WRITE"}
        /\ Len(toServer) <= MaxWire
        /\ toServer' = toServer \o First(outgoing_buf, outgoing_offset)
     \/ WriteRetry(flags \ {"READ_WANTS_WRITE"}) /\ UNCHANGED toServer
  /\ pc' = "lines"
  /\ UNCHANGED <<state, back, todo, ready, length, outbuf, inbuf, quit, link, taken,
                 accepted, produced, handled>>

\* libirc_process_incoming_data with the first line, of n units.
libirc_process_incoming_data(n) ==
  /\ handled' = handled \o First(incoming_buf, n)
  /\ incoming_buf' = Moved(incoming_buf, incoming_offset, n)
  /\ incoming_offset' = incoming_offset - n

\* Every complete line is handled; its handler may send commands.
handle_line ==
  /\ pc = "lines"
  /\ LET n == libirc_findcrlf(incoming_buf, incoming_offset, LineLen)
     IN  n > 0 /\ libirc_process_incoming_data(n)
  /\ Callback("lines")
  /\ UNCHANGED <<state, ready, length, outbuf, flags, quit, link, taken, accepted,
                 toServer, produced>>

no_more_lines ==
  /\ pc = "lines"
  /\ libirc_findcrlf(incoming_buf, incoming_offset, LineLen) = 0
  /\ pc' = "write"
  /\ UNCHANGED <<state, back, todo, ready, length, outbuf, inbuf, flags, quit, link,
                 taken, streams>>

-----------------------------------------------------------------------------
(* Writing: the send, the memmove and the new offset are steps of their own, *)
(* for the signal handler may come between them.                             *)

\* session_socket_write of a ready descriptor.
session_socket_write ==
  /\ pc = "write" /\ "write" \in ready /\ "WRITE_WANTS_READ" \notin flags
  /\ \/ /\ length' \in IF Partial THEN 1 .. outgoing_offset ELSE {outgoing_offset} \ {0}
        /\ toServer' = toServer \o First(outgoing_buf, length')
        /\ UNCHANGED flags
     \/ WriteRetry(flags) /\ length' = 0 /\ UNCHANGED toServer
  /\ pc' = "sent"
  /\ UNCHANGED <<state, back, todo, ready, outbuf, inbuf, quit, link, taken, accepted,
                 produced, handled>>

\* The connection is broken, or SSL_write was called with nothing to write.
session_socket_write_fails ==
  /\ pc = "write" /\ "write" \in ready /\ "WRITE_WANTS_READ" \notin flags
  /\ link # "up" \/ outgoing_offset = 0
  /\ Disconnect

\* SSL_write has wanted to read before: now ssl_recv is called and its result
\* discarded, so what it reads is not counted in incoming_offset.
write_wants_read ==
  /\ pc = "write" /\ "write" \in ready /\ "WRITE_WANTS_READ" \in flags
  /\ \/ /\ flags' = flags \ {"WRITE_WANTS_READ"}
        /\ \E n \in 1 .. Room :
             /\ Reads(n)
             /\ incoming_buf' = Copied(incoming_buf, incoming_offset, consumed, n)
             /\ consumed' = consumed + n
     \/ ReadRetry(flags \ {"WRITE_WANTS_READ"}) /\ UNCHANGED <<incoming_buf, taken>>
     \/ /\ flags' = flags \ {"WRITE_WANTS_READ"} /\ link # "up"
        /\ UNCHANGED <<incoming_buf, taken>>
  /\ length' = 0 /\ pc' = "sent"
  /\ UNCHANGED <<state, back, todo, ready, outbuf, incoming_offset, quit, link, streams>>

\* Mutant: what was not sent is not moved to the front.
Remainder_NotMoved == outgoing_buf

\* outgoing_buf when what was not sent has been moved to the front.
Remainder ==
  IF length > 0 /\ outgoing_offset - length > 0
    THEN Moved(outgoing_buf, outgoing_offset, length) ELSE outgoing_buf

move_outgoing ==
  /\ pc = "sent"
  /\ outgoing_buf' = Remainder
  /\ pc' = "moved"
  /\ UNCHANGED <<state, back, todo, ready, length, outgoing_offset, inbuf, flags, quit,
                 link, taken, streams>>

\* Mutant: the last unit of what was sent is kept.
count_outgoing_Short ==
  /\ pc = "moved"
  /\ outgoing_offset' = IF length > 0 THEN outgoing_offset - length + 1 ELSE outgoing_offset
  /\ pc' = "watch"
  /\ UNCHANGED <<state, back, todo, ready, length, outgoing_buf, inbuf, flags, quit,
                 link, taken, streams>>

count_outgoing ==
  /\ pc = "moved"
  /\ outgoing_offset' = outgoing_offset - length
  /\ pc' = "watch"
  /\ UNCHANGED <<state, back, todo, ready, length, outgoing_buf, inbuf, flags, quit,
                 link, taken, streams>>

nothing_to_write ==
  /\ pc = "write" /\ "write" \notin ready
  /\ pc' = "watch"
  /\ UNCHANGED <<state, back, todo, ready, length, outbuf, inbuf, flags, quit, link,
                 taken, streams>>

-----------------------------------------------------------------------------
(* The signal handler, the server and the network.                          *)

\* interrupt_handler: QUIT is queued if there is room.
interrupt_handler ==
  /\ Signals = "anywhere" \/ (Signals = "fdwatch" /\ pc = "watch")
  /\ ~quit /\ state # "DISCONNECTED"
  /\ quit' = TRUE
  /\ \/ /\ state = "CONNECTED" /\ Fits /\ MayAccept
        /\ outgoing_buf' = Copied(outgoing_buf, outgoing_offset, accepted, CmdLen)
        /\ outgoing_offset' = outgoing_offset + CmdLen
        /\ accepted' = accepted + CmdLen
     \/ /\ state # "CONNECTED" \/ ~Fits \/ ~MayAccept
        /\ UNCHANGED <<outbuf, accepted>>
  /\ UNCHANGED <<state, loop, inbuf, flags, link, taken, toServer, produced, handled>>

\* The server sends a line.
ServerSends ==
  /\ link = "up" /\ produced < MaxLines * LineLen
  /\ produced' = produced + LineLen
  /\ UNCHANGED <<state, loop, outbuf, inbuf, flags, quit, link, taken, accepted, toServer,
                 handled>>

\* The connection is closed by the server, or breaks; one that was closed may still
\* be reset, by what the client sends then.
LinkBreaks ==
  /\ Faults
  /\ \/ link = "up" /\ link' \in {"fin", "reset"}
     \/ link = "fin" /\ link' = "reset"
  /\ UNCHANGED <<state, loop, outbuf, inbuf, flags, quit, taken, streams>>

irc_send_raw == irc_send_raw_copy \/ irc_send_raw_count \/ irc_send_raw_fails

MainLoop ==
  \/ (\E write \in BOOLEAN : fdwatch(write)) \/ keep_alive_callback
  \/ irc_send_raw \/ callback_returns
  \/ handle_connecting_state
  \/ session_socket_read \/ session_socket_read_fails \/ nothing_to_read
  \/ read_wants_write \/ handle_line \/ no_more_lines
  \/ session_socket_write \/ session_socket_write_fails \/ write_wants_read
  \/ move_outgoing \/ count_outgoing \/ nothing_to_write

\* irc_run has returned.
Returned == state = "DISCONNECTED" /\ UNCHANGED vars

Next == MainLoop \/ interrupt_handler \/ ServerSends \/ LinkBreaks \/ Returned

Spec == Init /\ [][Next]_vars

\* The main loop goes on, the socket is writable again and again, and OpenSSL
\* does not want retries for ever.
Fairness ==
  /\ WF_vars(MainLoop)
  /\ SF_vars(fdwatch(TRUE))
  /\ SF_vars(session_socket_read /\ consumed' > consumed)
  /\ SF_vars(session_socket_write /\ length' > 0)

FairSpec == Spec /\ Fairness

-----------------------------------------------------------------------------
(* Properties.                                                              *)

\* Every variable has its type; the offsets stay inside the buffers.
TypeOK ==
  /\ state \in {"CONNECTING", "CONNECTED", "DISCONNECTED"}
  /\ pc \in {"watch", "keep_alive", "send", "copied", "process", "lines", "write",
             "sent", "moved"}
  /\ back \in {"watch", "process", "lines"}
  /\ todo \in Nat /\ ready \subseteq {"read", "write"} /\ length \in Nat
  /\ outgoing_buf \in [1 .. OutCap -> Nat] /\ outgoing_offset \in 0 .. OutCap
  /\ incoming_buf \in [1 .. InCap -> Nat] /\ incoming_offset \in 0 .. InCap
  /\ flags \subseteq {"WRITE_WANTS_READ", "READ_WANTS_WRITE"}
  /\ quit \in BOOLEAN /\ link \in {"up", "fin", "reset"}
  /\ decrypted \in Nat /\ consumed \in Nat
  /\ accepted \in Nat /\ produced \in Nat
  /\ toServer \in Seq(Nat) /\ handled \in Seq(Nat)

\* What the server reads is made of whole commands that were accepted, even when
\* some are sent again.
OutputWhole ==
  /\ Len(toServer) % CmdLen = 0
  /\ \A i \in 1 .. Len(toServer) :
       /\ toServer[i] \in 1 .. accepted
       /\ toServer[i] % CmdLen = i % CmdLen
       /\ i % CmdLen # 1 => toServer[i] = toServer[i - 1] + 1

\* Both offsets stay inside their buffers, and once every complete line has been
\* handled incoming_buf is never full, so the main loop goes on reading
\* (libircclient.c:449).
BuffersHaveRoom ==
  /\ TypeOK
  /\ pc = "watch" => incoming_offset < InCap

\* The session is a Channel: see that module.
Streams == INSTANCE Channel
IsChannel == Streams!Spec

\* libircclient.h:364 "sends/recvs all available data, parses received data,
\* calls your callbacks(!)": again and again everything the server has sent is
\* handled, unless the connection ends.
Ended == link # "up" \/ state = "DISCONNECTED"
InputHandled == []<>(Len(handled) = produced \/ Ended)

\* libircclient.c:453 "Add output descriptor if there is something in output
\* buffer": again and again everything accepted is written, unless the connection
\* ends.  Only a LF that a partial send has left alone in outgoing_buf may wait
\* for the next command, because libirc_findcrlf does not find it.
OutputWritten == []<>(Len(toServer) >= accepted - 1 \/ Ended)

\* libircclient.c:565 and 600: a connection that the server closes ends the session
\* in both builds, unless it is reset before that is noticed.  Of a reset nothing
\* is said here: with poll, for whose POLLERR fd_watcher.c:326 denies every event
\* of the descriptor, it ends the session only by chance (ReturnsWhenTerminated).
BreakNoticed == (link = "fin") ~> (state = "DISCONNECTED" \/ link = "reset")

\* libircclient.h:340 irc_run "will not return until the server connection is
\* terminated": when it is, irc_run does return.
ReturnsWhenTerminated == (link # "up") ~> (state = "DISCONNECTED")
===============================================================================
