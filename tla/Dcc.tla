--------------------------------- MODULE Dcc ---------------------------------
(***************************************************************************)
(* The DCC engine of xdccget: the sessions of libircclient-src/dcc.c, the  *)
(* download contexts and callbacks of xdccget.c that they call, the files  *)
(* they write (file.c) and, at the other end of every session, the bot.    *)
(*                                                                         *)
(* The program is one thread.  An action is one run of a handler for one   *)
(* session or one message; between handlers the bots, the network and the  *)
(* user act.  A file is abstracted to its length, in blocks, and to        *)
(* whether its blocks are the bot's blocks at the same positions.  A       *)
(* restart keeps the files and nothing else.                               *)
(***************************************************************************)
EXTENDS Integers, FiniteSets

CONSTANTS
  Files,        \* names of the files the bots offer
  FileLen,      \* [Files -> Nat]: the true length of each, in blocks
  Ports,        \* ports the bots listen on
  Kinds,        \* which of "send", "ssend", "reverse" the bots use
  Sizeless,     \* TRUE: a bot may send the DCC SEND form without a size
  StrictAck,    \* TRUE: bots send a block only when the last is acknowledged
  PortsShared,  \* TRUE: two live sessions may have the same remote port
  Confirm,      \* FALSE: DONT_CONFIRM_OFFSETS_FLAG is set
  Verify,       \* VERIFY_CHECKSUM_FLAG
  Watch,        \* "poll" (Linux Makefile) or "select" (FreeBSD, Windows)
  Chunk,        \* LIBIRC_DCC_BUFFER_SIZE, in blocks
  AckMod,       \* 2^32, in blocks: offsets are acknowledged in 32 bits
  ListenPort,   \* listen_port of the settings; 0 when it is not set
  QuitFits,     \* FALSE: a QUIT may find no room among the commands to be sent
  Faults,       \* TRUE: refused and broken connections, kills, disconnects
  MaxSessions,  \* bound: sessions created in one run of the program
  MaxRuns       \* bound: runs of the program

ASSUME DccAssumption ==
  /\ Files # {}
  /\ FileLen \in [Files -> Nat \ {0}]
  /\ 0 \notin Ports
  /\ Kinds \subseteq {"send", "ssend", "reverse"}
  /\ {Sizeless, StrictAck, PortsShared, Confirm, Verify, QuitFits, Faults} \subseteq BOOLEAN
  /\ ListenPort \in Nat
  /\ Watch \in {"poll", "select"}
  /\ Chunk \in Nat \ {0} /\ AckMod \in Nat \ {0}
  /\ MaxSessions \in Nat /\ MaxRuns \in Nat

VARIABLES
  \* irc_dcc_session_t, by id
  state,                \* "FREE" before the session is made, "FREED" after it
  kind,                 \* SEND, SSEND (ssl) or passive
  port,                 \* remote_addr.sin_port
  file,                 \* the name in the request
  file_confirm_offset,
  received_file_size,
  lastId,               \* session->dcc_last_id
  busy,                 \* session whose recv_dcc_file loop is under way, or 0
  \* struct dccDownloadContext of each session, with its progress
  fd,                   \* "none", "open", or "null" once closed
  mode,                 \* mode of Open: "w" or "a"
  pos,                  \* file offset of the descriptor
  sizeRcvd,
  completeFileSize,
  \* xdccget.c
  numActive,            \* numActiveDownloads
  finished,             \* finishedDownloads
  curDownload,          \* session whose progress curDownload points to, 0 = NULL
  lastDownload,         \* same for lastDownload
  quit,                 \* QUIT is on its way to the server
  run,                  \* "run", or how the program ended
  runs,                 \* runs of the program so far
  \* the files in targetDir
  len,                  \* length of each, or Absent
  damaged,              \* files with blocks that are not the bot's
  \* the bot's end of each session
  link,                 \* the connection
  resume,               \* position asked for with RESUME and not yet accepted
  sent,                 \* position up to which the bot has sent
  acked                 \* the last offset the bot was told

session == <<state, kind, port, file, file_confirm_offset, received_file_size, lastId>>
context == <<fd, mode, pos, sizeRcvd, completeFileSize>>
counters == <<numActive, finished, curDownload, lastDownload, quit>>
disk == <<len, damaged>>
bot == <<link, resume, sent, acked>>
client == <<session, busy, context, counters>>
vars == <<client, run, runs, disk, bot>>

Ids == 1 .. MaxSessions
Absent == -1
None == -1

States == {"FREE", "INIT", "WAITING_FOR_RESUME_ACK", "CONNECTING",
           "INIT_PASSIVE", "CONNECTED", "CONFIRM_SIZE", "REMOVED", "FREED"}

-----------------------------------------------------------------------------
(* State of one run of the program.                                        *)

AnyFile == CHOOSE f \in Files : TRUE
HeldLengths == {Absent} \cup UNION {0 .. FileLen[f] : f \in Files}

\* main(): no session and no download.  A file is absent or holds what an
\* earlier run received of it.
Init ==
  /\ state = [s \in Ids |-> "FREE"]
  /\ kind = [s \in Ids |-> "send"]
  /\ port = [s \in Ids |-> 0]
  /\ file = [s \in Ids |-> AnyFile]
  /\ file_confirm_offset = [s \in Ids |-> 0]
  /\ received_file_size = [s \in Ids |-> 0]
  /\ lastId = 0 /\ busy = 0
  /\ fd = [s \in Ids |-> "none"]
  /\ mode = [s \in Ids |-> "w"]
  /\ pos = [s \in Ids |-> 0]
  /\ sizeRcvd = [s \in Ids |-> 0]
  /\ completeFileSize = [s \in Ids |-> 0]
  /\ numActive = 0 /\ finished = 0
  /\ curDownload = 0 /\ lastDownload = 0
  /\ quit = FALSE /\ run = "run" /\ runs = 1
  /\ len \in [Files -> HeldLengths]
  /\ \A f \in Files : len[f] <= FileLen[f]
  /\ damaged = {}
  /\ link = [s \in Ids |-> "none"]
  /\ resume = [s \in Ids |-> None]
  /\ sent = [s \in Ids |-> 0]
  /\ acked = [s \in Ids |-> 0]

\* The main loop is between two handlers.
Idle == run = "run" /\ busy = 0

\* Sessions on the list session->dcc_sessions.  New ones are pushed at its
\* head, so a walk of the list meets the ids in decreasing order.
Listed == {s \in Ids : state[s] \notin {"FREE", "FREED"}}
FirstOf(S) == CHOOSE s \in S : \A t \in S : t <= s
libirc_find_dcc_session_by_port(p) == FirstOf({s \in Listed : port[s] = p})

Receiving(s) == state[s] \in {"CONNECTING", "INIT_PASSIVE", "CONNECTED", "CONFIRM_SIZE"}
Waiting(s) == state[s] = "WAITING_FOR_RESUME_ACK"
Live(s) == Receiving(s) \/ Waiting(s)

-----------------------------------------------------------------------------
(* Readiness of a session's socket, as fdwatch_check_fd reports it.  poll   *)
(* sets POLLERR for a refused or reset connection, and poll_check_fd then   *)
(* answers 0; select reports such a socket readable and writable.           *)

Up(s) == link[s] \in {"up", "fin"}
Failed(s) == link[s] \in {"refused", "reset", "broken"}
Ready(s) == Up(s) \/ (Failed(s) /\ Watch = "select")
\* The system call fails: an error is pending, or arrives after the watch.
Fails(s) == Faults \/ Failed(s)

-----------------------------------------------------------------------------
(* A DCC SEND or SSEND from a bot.                                          *)

\* What the bots do: no file is offered while it is being received, and unless
\* PortsShared no port while a live session uses it.
BotOffers(f, p) ==
  \A s \in Ids : Live(s) => file[s] # f /\ (PortsShared \/ p = 0 \/ port[s] # p)

OfferedSizes(f, k) ==
  {FileLen[f]} \cup (IF Sizeless /\ k = "send" THEN {0} ELSE {})

\* Mutant: a file that exists is received from the start.
RequestChoice_NoResume(f, size) ==
  IF len[f] = size THEN "already downloaded" ELSE "accept"

\* How recvFileRequest goes on once the file is open: the file is complete, is
\* resumed from its length, or is received from the start.
RequestChoice(f, size) ==
  CASE len[f] = size -> "already downloaded"
    [] len[f] \notin {Absent, 0, size} -> "resume"
    [] OTHER -> "accept"

\* Mutant: only new files count.
ActiveAfter_NewOnly(f) == IF len[f] = Absent THEN numActive + 1 ELSE numActive

\* Mutant: a file that exists is truncated.
OpenLength_Truncated(f) == 0

\* Length and offset of a file just opened; numActiveDownloads after a new context.
OpenLength(f) == IF len[f] = Absent THEN 0 ELSE len[f]
OpenPosition(f) == 0
ActiveAfter(f) == numActive + 1

\* prepareRecvFileRequest and the Open of recvFileRequest: a new context, with
\* a file opened for appending when it exists and created otherwise.
prepareRecvFileRequest(s, f, size) ==
  /\ fd' = [fd EXCEPT ![s] = "open"]
  /\ mode' = [mode EXCEPT ![s] = IF len[f] = Absent THEN "w" ELSE "a"]
  /\ pos' = [pos EXCEPT ![s] = OpenPosition(f)]
  /\ sizeRcvd' = [sizeRcvd EXCEPT ![s] = 0]
  /\ completeFileSize' = [completeFileSize EXCEPT ![s] = size]
  /\ len' = [len EXCEPT ![f] = OpenLength(f)]
  /\ numActive' = ActiveAfter(f)
  /\ curDownload' = s
  /\ UNCHANGED damaged

\* libirc_new_dcc_session: the next id, at the head of the list.
libirc_new_dcc_session(s, st, k, p, f, size) ==
  /\ lastId' = s
  /\ state' = [state EXCEPT ![s] = st]
  /\ kind' = [kind EXCEPT ![s] = k]
  /\ port' = [port EXCEPT ![s] = p]
  /\ file' = [file EXCEPT ![s] = f]
  /\ file_confirm_offset' = [file_confirm_offset EXCEPT ![s] = 0]
  /\ received_file_size' = [received_file_size EXCEPT ![s] = size]

\* Where irc_dcc_accept leaves a session: the TLS handshake is waited for, the
\* TCP connection is not.
AcceptedState(k) == IF k = "ssend" THEN "CONNECTED" ELSE "CONNECTING"
AcceptedLink(k) == IF k = "ssend" THEN "up" ELSE "syn"
\* Where it leaves one when it fails: connect destroys it, the handshake does not.
RefusedStates(k) == {"REMOVED"} \cup (IF k = "ssend" THEN {"INIT"} ELSE {})

\* accept_dcc_send with its callback recvFileRequest.  exitPgm is called when
\* the file is complete, and when irc_dcc_accept cannot connect or handshake.
accept_dcc_send(s, f, size, p, k) ==
  /\ BotOffers(f, p)
  /\ prepareRecvFileRequest(s, f, size)
  /\ \/ /\ RequestChoice(f, size) = "already downloaded"
        /\ libirc_new_dcc_session(s, "INIT", k, p, f, size)
        /\ run' = "failed"
        /\ UNCHANGED <<link, resume>>
     \/ /\ RequestChoice(f, size) = "resume"
        /\ libirc_new_dcc_session(s, "WAITING_FOR_RESUME_ACK", k, p, f, size)
        /\ resume' = [resume EXCEPT ![s] = len[f]]
        /\ UNCHANGED <<run, link>>
     \/ /\ RequestChoice(f, size) = "accept"
        /\ libirc_new_dcc_session(s, AcceptedState(k), k, p, f, size)
        /\ link' = [link EXCEPT ![s] = AcceptedLink(k)]
        /\ UNCHANGED <<run, resume>>
     \/ /\ RequestChoice(f, size) = "accept" /\ Faults
        /\ \E st \in RefusedStates(k) : libirc_new_dcc_session(s, st, k, p, f, size)
        /\ run' = "failed"
        /\ UNCHANGED <<link, resume>>
  /\ UNCHANGED <<busy, finished, lastDownload, quit, runs, sent, acked>>

\* Passive sessions listen on the port of the settings, so bind fails while another
\* holds it.  When it is not set, the kernel picks a free one for each (dcc.c:629).
ListenPortHeld == ListenPort # 0 /\ \E s \in Ids : kind[s] = "reverse" /\ Live(s)

\* accept_reverse_dcc_send when bind or listen fails: the session stays in INIT.
reverse_listen_failed(s, f) ==
  /\ BotOffers(f, 0)
  /\ ListenPortHeld \/ Faults
  /\ libirc_new_dcc_session(s, "INIT", "reverse", 0, f, 0)
  /\ UNCHANGED <<busy, context, counters, run, runs, disk, bot>>

\* accept_reverse_dcc_send with its callback recvFileRequestReverse.
\* received_file_size is not set for a passive session.
accept_reverse_dcc_send(s, f, size) ==
  /\ BotOffers(f, 0) /\ ~ListenPortHeld
  /\ prepareRecvFileRequest(s, f, size)
  /\ \/ /\ RequestChoice(f, size) = "already downloaded"
        /\ libirc_new_dcc_session(s, "INIT", "reverse", 0, f, 0)
        /\ run' = "failed"
        /\ UNCHANGED <<link, resume>>
     \/ /\ RequestChoice(f, size) = "resume"
        /\ libirc_new_dcc_session(s, "WAITING_FOR_RESUME_ACK", "reverse", 0, f, 0)
        /\ resume' = [resume EXCEPT ![s] = len[f]]
        /\ UNCHANGED <<run, link>>
     \/ /\ RequestChoice(f, size) = "accept"
        /\ libirc_new_dcc_session(s, "INIT_PASSIVE", "reverse", 0, f, 0)
        /\ link' = [link EXCEPT ![s] = "listen"]
        /\ UNCHANGED <<run, resume>>
     \/ /\ RequestChoice(f, size) = "accept" /\ Faults   \* the listen ip is not valid
        /\ libirc_new_dcc_session(s, "INIT", "reverse", 0, f, 0)
        /\ run' = "failed"
        /\ UNCHANGED <<link, resume>>
  /\ UNCHANGED <<busy, finished, lastDownload, quit, runs, sent, acked>>

\* libirc_dcc_request on one of the forms of DCC SEND.
dcc_send_request ==
  /\ Idle /\ lastId < MaxSessions
  /\ \E f \in Files, k \in Kinds :
       \E size \in OfferedSizes(f, k) :
         \/ k # "reverse" /\ \E p \in Ports : accept_dcc_send(lastId + 1, f, size, p, k)
         \/ k = "reverse" /\ reverse_listen_failed(lastId + 1, f)
         \/ k = "reverse" /\ accept_reverse_dcc_send(lastId + 1, f, size)

\* prepareRecvFileRequest refuses a name with a path separator, or Open cannot
\* open the file: exitPgm.
containsIllegalChars ==
  /\ Idle /\ Faults
  /\ run' = "failed"
  /\ UNCHANGED <<client, runs, disk, bot>>

-----------------------------------------------------------------------------
(* A DCC ACCEPT: the bot of session s answers its RESUME, and will send     *)
(* from the position it accepts.                                            *)

BotAnswers(s) ==
  /\ Idle /\ resume[s] # None /\ link[s] = "none"
  /\ sent' = [sent EXCEPT ![s] = resume[s]]
  /\ acked' = [acked EXCEPT ![s] = resume[s] % AckMod]
  /\ resume' = [resume EXCEPT ![s] = None]

\* Mutant: the received size is not set to the accepted position.
ResumedSize_Kept(t, position) == sizeRcvd[t]

\* progress->sizeRcvd once a resume has been accepted.
ResumedSize(t, position) == position

\* libirc_dcc_request sets the offset of session t; callback_dcc_resume_file
\* restarts the sizes there.  Its Seek moves the offset of a file that is open
\* for appending.
callback_dcc_resume_file(t, position) ==
  /\ file_confirm_offset' = [file_confirm_offset EXCEPT ![t] = position]
  /\ sizeRcvd' = [sizeRcvd EXCEPT ![t] = ResumedSize(t, position)]
  /\ pos' = [pos EXCEPT ![t] = position]

\* libirc_dcc_request on DCC ACCEPT <port> <position>: the session t is looked
\* up by its port alone, ignored unless it waits, and otherwise connected to.
dcc_accept(s, t) ==
  /\ BotAnswers(s) /\ kind[s] # "reverse"
  /\ t = libirc_find_dcc_session_by_port(port[s])
  /\ \/ /\ ~Waiting(t)
        /\ UNCHANGED <<state, file_confirm_offset, sizeRcvd, pos, run, link>>
     \/ /\ Waiting(t)
        /\ callback_dcc_resume_file(t, resume[s])
        /\ state' = [state EXCEPT ![t] = AcceptedState(kind[t])]
        /\ link' = [link EXCEPT ![t] = AcceptedLink(kind[t])]
        /\ UNCHANGED run
     \/ /\ Waiting(t) /\ Faults
        /\ callback_dcc_resume_file(t, resume[s])
        /\ \E st \in RefusedStates(kind[t]) : state' = [state EXCEPT ![t] = st]
        /\ run' = "failed"
        /\ UNCHANGED link
  /\ UNCHANGED <<kind, port, file, received_file_size, lastId, busy, fd, mode,
                 completeFileSize, counters, runs, disk>>

\* The same for a passive session, found by its token: the state becomes
\* INIT_PASSIVE before callback_dcc_resume_file_reverse calls
\* irc_dcc_accept_reverse, which insists on INIT, fails, and ends the program.
dcc_accept_reverse(s) ==
  /\ BotAnswers(s) /\ kind[s] = "reverse" /\ Waiting(s)
  /\ callback_dcc_resume_file(s, resume[s])
  /\ state' = [state EXCEPT ![s] = "INIT_PASSIVE"]
  /\ run' = "failed"
  /\ UNCHANGED <<kind, port, file, received_file_size, lastId, busy, fd, mode,
                 completeFileSize, counters, runs, disk, link>>

-----------------------------------------------------------------------------
(* libirc_dcc_process_descriptors, one session at a time.                   *)

\* A handler that changes the state of s and nothing else of the client.
SetState(s, st) ==
  /\ state' = [state EXCEPT ![s] = st]
  /\ UNCHANGED <<kind, port, file, file_confirm_offset, received_file_size, lastId,
                 busy, context, counters, run, runs, disk>>

libirc_dcc_destroy_nolock(s) == SetState(s, "REMOVED")

\* getpeername tells a connected socket from a failed one.
handleConnectingState(s) ==
  /\ Idle /\ state[s] = "CONNECTING" /\ Ready(s)
  /\ \/ Up(s) /\ SetState(s, "CONNECTED")
     \/ Fails(s) /\ libirc_dcc_destroy_nolock(s)
  /\ UNCHANGED bot

\* The bot has connected to the listening socket.
handleInitPassiveState(s) ==
  /\ Idle /\ state[s] = "INIT_PASSIVE" /\ link[s] = "dialled"
  /\ SetState(s, "CONNECTED")
  /\ link' = [link EXCEPT ![s] = "up"]
  /\ UNCHANGED <<resume, sent, acked>>

\* Write: an appending file takes the blocks at its end, another at its offset.
WriteAt(s) == IF mode[s] = "a" THEN len[file[s]] ELSE pos[s]

Write(s, n) ==
  /\ pos' = [pos EXCEPT ![s] = WriteAt(s) + n]
  /\ len' = [len EXCEPT ![file[s]] = IF WriteAt(s) + n > @ THEN WriteAt(s) + n ELSE @]
  /\ damaged' = IF WriteAt(s) = sent[s] THEN damaged ELSE damaged \cup {file[s]}

\* Mutants: complete too late; the first download ends the program.
Complete_Beyond(s, rcvd) == rcvd > completeFileSize[s]
AllFinished_First(count) == count >= 1

\* The download is complete with rcvd blocks; it was the last of them.
Complete(s, rcvd) == rcvd = completeFileSize[s]
AllFinished(count) == count = numActive

\* The program sends QUIT after the last download; whether irc_cmd_quit found room
\* for it is not looked at.
QuitSent(count) == ~Verify /\ AllFinished(count)

\* callback_dcc_recv_file with n blocks: write them, and when the size is
\* reached close the file, count the download and QUIT after the last one.
callback_dcc_recv_file(s, n) ==
  /\ sizeRcvd' = [sizeRcvd EXCEPT ![s] = @ + n]
  /\ Write(s, n)
  /\ IF Complete(s, sizeRcvd[s] + n)
       THEN /\ lastDownload' = curDownload
            /\ fd' = [fd EXCEPT ![s] = "null"]
            /\ finished' = finished + 1
            /\ \/ quit' = (quit \/ QuitSent(finished + 1))
               \/ ~QuitFits /\ quit' = quit
       ELSE UNCHANGED <<lastDownload, fd, finished, quit>>
  /\ UNCHANGED <<mode, completeFileSize, numActive, curDownload, run, runs>>

\* Blocks the bot has still to send, and whether it sends one now.
Remaining(s) == FileLen[file[s]] - sent[s]
BotSends(s) ==
  /\ link[s] = "up" /\ Remaining(s) > 0
  /\ StrictAck => acked[s] = sent[s] % AckMod

\* Mutant: the flag is read the wrong way round.
StateAfterData_Inverted == IF Confirm THEN "CONNECTED" ELSE "CONFIRM_SIZE"

\* DONT_CONFIRM_OFFSETS_FLAG decides what a session does after data.
StateAfterData == IF Confirm THEN "CONFIRM_SIZE" ELSE "CONNECTED"

\* recv_dcc_file reads when its session is connected; over TLS the loop goes on
\* while decrypted data is pending, whatever the state has become.
Reads(s) == (run = "run" /\ busy = s) \/ (Idle /\ state[s] = "CONNECTED")
Pending(s, n) == kind[s] = "ssend" /\ ~StrictAck /\ n < Remaining(s)

\* recv_dcc_file: n blocks of data have come.
recv_dcc_file(s, n) ==
  /\ Reads(s) /\ BotSends(s) /\ n <= Remaining(s)
  /\ fd[s] = "open"
  /\ callback_dcc_recv_file(s, n)
  /\ file_confirm_offset' = [file_confirm_offset EXCEPT ![s] = @ + n]
  /\ state' = [state EXCEPT ![s] = StateAfterData]
  /\ busy' \in IF Pending(s, n) THEN {0, s} ELSE {0}
  /\ sent' = [sent EXCEPT ![s] = @ + n]
  /\ UNCHANGED <<kind, port, file, received_file_size, lastId, link, resume, acked>>

\* Write fails after some of the n blocks, or none of them: exitPgm.
recv_dcc_file_write_failed(s, n) ==
  /\ Reads(s) /\ BotSends(s) /\ n <= Remaining(s)
  /\ fd[s] = "open" /\ Faults
  /\ \/ \E m \in 1 .. n - 1 : Write(s, m)
     \/ UNCHANGED <<pos, len, damaged>>
  /\ sizeRcvd' = [sizeRcvd EXCEPT ![s] = @ + n]
  /\ file_confirm_offset' = [file_confirm_offset EXCEPT ![s] = @ + n]
  /\ sent' = [sent EXCEPT ![s] = @ + n]
  /\ run' = "failed"
  /\ UNCHANGED <<state, kind, port, file, received_file_size, lastId, busy, fd, mode,
                 completeFileSize, counters, runs, link, resume, acked>>

\* Data has come after the file was closed: Write dereferences NULL.
recv_dcc_file_crash(s) ==
  /\ Reads(s) /\ BotSends(s) /\ fd[s] = "null"
  /\ run' = "crashed"
  /\ UNCHANGED <<client, runs, disk, bot>>

\* Mutant: the end of the stream is not an error.
recv_dcc_failed_Errors(s) ==
  /\ Idle /\ state[s] = "CONNECTED" /\ Ready(s) /\ Failed(s)
  /\ libirc_dcc_destroy_nolock(s)
  /\ UNCHANGED bot

\* recv_dcc_file: end of file or an error.  The callback ignores a call without
\* data, and the session is destroyed.
recv_dcc_failed(s) ==
  /\ Idle /\ state[s] = "CONNECTED" /\ Ready(s)
  /\ link[s] = "fin" \/ Fails(s)
  /\ libirc_dcc_destroy_nolock(s)
  /\ UNCHANGED bot

\* recv_dcc_file: SSL_read has to write first.
recv_wants_write(s) ==
  /\ Idle /\ state[s] = "CONNECTED" /\ kind[s] = "ssend" /\ Ready(s)
  /\ SetState(s, "CONFIRM_SIZE")
  /\ UNCHANGED bot

\* send_current_file_offset_to_sender: the offset goes out in 32 bits; the
\* session is over when it is the size of the offer.
send_current_file_offset_to_sender(s) ==
  /\ Idle /\ state[s] = "CONFIRM_SIZE" /\ Up(s)
  /\ acked' = [acked EXCEPT ![s] = file_confirm_offset[s] % AckMod]
  /\ IF received_file_size[s] = file_confirm_offset[s]
       THEN libirc_dcc_destroy_nolock(s)
       ELSE SetState(s, "CONNECTED")
  /\ UNCHANGED <<link, resume, sent>>

\* The send fails: the callback ignores the call and the session stays as it
\* is.  The next send on the broken connection raises SIGPIPE, which nothing
\* in the program handles.
send_offset_failed(s) ==
  /\ Idle /\ state[s] = "CONFIRM_SIZE" /\ Ready(s) /\ Fails(s)
  /\ link' = [link EXCEPT ![s] = "broken"]
  /\ run' = IF link[s] = "broken" THEN "killed" ELSE run
  /\ UNCHANGED <<client, runs, disk, resume, sent, acked>>

\* SSL_write has to read first: the offset is not sent.
send_wants_read(s) ==
  /\ Idle /\ state[s] = "CONFIRM_SIZE" /\ kind[s] = "ssend" /\ Ready(s)
  /\ SetState(s, "CONNECTED")
  /\ UNCHANGED bot

libirc_dcc_process_descriptors(s) ==
  \/ handleConnectingState(s) \/ handleInitPassiveState(s)
  \/ (\E n \in 1 .. Chunk : recv_dcc_file(s, n))
  \/ (\E n \in 1 .. Chunk : recv_dcc_file_write_failed(s, n))
  \/ recv_dcc_file_crash(s) \/ recv_dcc_failed(s) \/ recv_wants_write(s)
  \/ send_current_file_offset_to_sender(s) \/ send_offset_failed(s)
  \/ send_wants_read(s)

\* libirc_dcc_add_descriptors frees the sessions that were removed.
libirc_dcc_add_descriptors ==
  /\ Idle
  /\ \E s \in Ids : state[s] = "REMOVED"
  /\ state' = [s \in Ids |-> IF state[s] = "REMOVED" THEN "FREED" ELSE state[s]]
  /\ UNCHANGED <<kind, port, file, file_confirm_offset, received_file_size, lastId,
                 busy, context, counters, run, runs, disk, bot>>

-----------------------------------------------------------------------------
(* The network, the bots, the server and the user.                          *)

SetLink(s, from, to) ==
  /\ run = "run" /\ busy # s /\ link[s] \in from
  /\ link' = [link EXCEPT ![s] = to]
  /\ UNCHANGED <<client, run, runs, disk, resume, sent, acked>>

Connects(s) == SetLink(s, {"syn"}, "up")
Refused(s) == Faults /\ SetLink(s, {"syn"}, "refused")
\* The bot is told listen_port (dcc.c:885): when it is not set, port 0.
BotDials(s) == ListenPort # 0 /\ SetLink(s, {"listen"}, "dialled")
BotCloses(s) == (Faults \/ Remaining(s) = 0) /\ SetLink(s, {"up"}, "fin")
BotResets(s) == Faults /\ SetLink(s, {"up", "fin"}, "reset")

Environment(s) ==
  Connects(s) \/ Refused(s) \/ BotDials(s) \/ BotCloses(s) \/ BotResets(s)

\* interrupt_handler while connected to the server: QUIT.
interrupt_handler ==
  /\ run = "run" /\ (Faults \/ Verify) /\ ~quit
  /\ quit' = TRUE
  /\ UNCHANGED <<session, busy, context, numActive, finished, curDownload,
                 lastDownload, run, runs, disk, bot>>

\* The server closes the connection, after QUIT or on its own: irc_run returns
\* and the program ends, whatever is still being received.
Disconnected ==
  /\ Idle /\ (quit \/ Faults)
  /\ run' = "done"
  /\ UNCHANGED <<client, runs, disk, bot>>

Killed ==
  /\ run = "run" /\ Faults
  /\ run' = "killed"
  /\ UNCHANGED <<client, runs, disk, bot>>

\* The user runs the program again: only the files are left.
Restart ==
  /\ run # "run" /\ runs < MaxRuns
  /\ state' = [s \in Ids |-> "FREE"]
  /\ kind' = [s \in Ids |-> "send"]
  /\ port' = [s \in Ids |-> 0]
  /\ file' = [s \in Ids |-> AnyFile]
  /\ file_confirm_offset' = [s \in Ids |-> 0]
  /\ received_file_size' = [s \in Ids |-> 0]
  /\ lastId' = 0 /\ busy' = 0
  /\ fd' = [s \in Ids |-> "none"]
  /\ mode' = [s \in Ids |-> "w"]
  /\ pos' = [s \in Ids |-> 0]
  /\ sizeRcvd' = [s \in Ids |-> 0]
  /\ completeFileSize' = [s \in Ids |-> 0]
  /\ numActive' = 0 /\ finished' = 0
  /\ curDownload' = 0 /\ lastDownload' = 0
  /\ quit' = FALSE /\ run' = "run" /\ runs' = runs + 1
  /\ link' = [s \in Ids |-> "none"]
  /\ resume' = [s \in Ids |-> None]
  /\ sent' = [s \in Ids |-> 0]
  /\ acked' = [s \in Ids |-> 0]
  /\ UNCHANGED disk

\* The program has ended and is not run again.
Stopped == run # "run" /\ runs = MaxRuns /\ UNCHANGED vars

Next ==
  \/ dcc_send_request \/ containsIllegalChars
  \/ \E s, t \in Ids : dcc_accept(s, t)
  \/ \E s \in Ids : dcc_accept_reverse(s)
  \/ \E s \in Ids : libirc_dcc_process_descriptors(s)
  \/ \E s \in Ids : Environment(s)
  \/ libirc_dcc_add_descriptors
  \/ interrupt_handler \/ Disconnected \/ Killed \/ Restart \/ Stopped

Spec == Init /\ [][Next]_vars

\* What one round of the main loop does for a ready session: everything but an
\* error that might still arrive, and the TLS retries.
Served(s) ==
  \/ handleConnectingState(s) /\ (Failed(s) \/ state'[s] = "CONNECTED")
  \/ handleInitPassiveState(s)
  \/ (\E n \in 1 .. Chunk : recv_dcc_file(s, n)) \/ recv_dcc_file_crash(s)
  \/ recv_dcc_failed(s) /\ (Failed(s) \/ link[s] = "fin")
  \/ send_current_file_offset_to_sender(s)
  \/ send_offset_failed(s) /\ Failed(s)

\* The main loop serves every ready session in every round, the network
\* connects or refuses, the bots answer, dial, send and close when they have
\* sent everything, and the server closes after a QUIT.
Fairness ==
  /\ \A s \in Ids : /\ WF_vars(Served(s))
                    /\ WF_vars(\E t \in Ids : dcc_accept(s, t))
                    /\ WF_vars(dcc_accept_reverse(s))
                    /\ WF_vars(Connects(s) \/ Refused(s))
                    /\ WF_vars(BotDials(s)) /\ WF_vars(Remaining(s) = 0 /\ BotCloses(s))
  /\ WF_vars(quit /\ Disconnected)

FairSpec == Spec /\ Fairness

-----------------------------------------------------------------------------
(* Properties.                                                              *)

\* Every variable has its type.
SessionTypes ==
  /\ state \in [Ids -> States]
  /\ kind \in [Ids -> {"send", "ssend", "reverse"}]
  /\ port \in [Ids -> Ports \cup {0}]
  /\ file \in [Ids -> Files]
  /\ file_confirm_offset \in [Ids -> Nat]
  /\ received_file_size \in [Ids -> Nat]
  /\ lastId \in 0 .. MaxSessions
ContextTypes ==
  /\ fd \in [Ids -> {"none", "open", "null"}]
  /\ mode \in [Ids -> {"w", "a"}]
  /\ pos \in [Ids -> Nat]
  /\ sizeRcvd \in [Ids -> Nat]
  /\ completeFileSize \in [Ids -> Nat]
CounterTypes ==
  /\ numActive \in Nat /\ finished \in Nat
  /\ curDownload \in Ids \cup {0} /\ lastDownload \in Ids \cup {0}
  /\ quit \in BOOLEAN
ProgramTypes ==
  /\ busy \in Ids \cup {0}
  /\ run \in {"run", "failed", "crashed", "killed", "done"}
  /\ runs \in Nat
DiskTypes ==
  /\ len \in [Files -> Nat \cup {Absent}]
  /\ damaged \in SUBSET Files
BotTypes ==
  /\ link \in [Ids -> {"none", "syn", "up", "fin", "refused", "reset", "broken",
                       "listen", "dialled"}]
  /\ resume \in [Ids -> Nat \cup {None}]
  /\ sent \in [Ids -> Nat]
  /\ acked \in [Ids -> Nat]
TypeOK ==
  SessionTypes /\ ContextTypes /\ CounterTypes /\ ProgramTypes /\ DiskTypes /\ BotTypes

\* While a session receives, the offset the library acknowledges
\* (dcc->file_confirm_offset), the size the callback has counted
\* (progress->sizeRcvd) and what the bot has sent are the same number, through
\* resumes, TLS retries and reads that are cut into pieces.
OffsetsAgree ==
  \A s \in Ids : (Receiving(s) /\ run = "run") =>
    file_confirm_offset[s] = sizeRcvd[s] /\ sizeRcvd[s] = sent[s]

\* Whatever run received it, crashed in the middle of it and resumed it, a file
\* holds the bot's blocks at the bot's positions and no others.
FilesIntact == damaged = {} /\ \A f \in Files : len[f] <= FileLen[f]

\* A download that was counted as finished has its whole file on the disk.
FinishedIsWhole == \A s \in Ids : fd[s] = "null" => len[file[s]] = FileLen[file[s]]

\* callback_dcc_recv_file is never called with data after it has set
\* context->fd to NULL, so the program does not crash in Write.
NoWriteAfterClose == run # "crashed"

\* The counters that decide when to QUIT count the contexts: those that were
\* created and those whose file was closed.
Created == {s \in Ids : fd[s] # "none"}
Closed == {s \in Ids : fd[s] = "null"}
CountersAgree == numActive = Cardinality(Created) /\ finished = Cardinality(Closed)

\* The program sends QUIT of its own accord only when nothing that was offered
\* is still to be received.
QuitWhenAllFinished ==
  [][ (~quit /\ quit' /\ finished' # finished) => \A s \in Created : fd'[s] = "null" ]_vars

\* When a session without TLS goes back to reading, the bot has been told
\* of all it has sent (modulo the 32 bits of an acknowledgement).
AckCurrent ==
  \A s \in Ids : (Confirm /\ state[s] = "CONNECTED" /\ kind[s] # "ssend" /\ run = "run")
                   => acked[s] = sent[s] % AckMod

\* A session that was not begun in the shadow of a QUIT is received to its end
\* when nothing fails, even from a bot that waits for every acknowledgement,
\* unless the program refuses to go on (an offer of a complete file).
Delivered ==
  \A s \in Ids : (Live(s) /\ ~quit /\ run = "run") ~> (fd[s] = "null" \/ run = "failed")

\* Without checksum verification the program ends by itself once it has
\* received something.
EndsByItself == (numActive > 0) ~> (run # "run")

\* Whatever fails, a session without TLS that connects or receives does not do so
\* for ever: it is received, destroyed, or the program ends.  (Over TLS, retries
\* that never end would keep it alive.)
SessionsEnd ==
  \A s \in Ids : (Receiving(s) /\ kind[s] # "ssend") ~> (~Receiving(s) \/ run # "run")

\* The sessions, contexts and descriptors of the program implement Transfer, the
\* directory as its user sees it; a damaged file would hold none of the bot's file.
Spoilt == -2
T == INSTANCE Transfer WITH
       held <- [f \in Files |-> IF f \in damaged THEN Spoilt ELSE len[f]],
       done <- {file[s] : s \in Closed}
IsTransfer == T!Spec

\* config.c:118 "stay connected after downloads finished to automatically verify
\* checksums": the download whose checksum is verified (lastDownload) is one
\* that has finished.
LastDownloadFinished == lastDownload # 0 => fd[lastDownload] = "null"
===============================================================================
