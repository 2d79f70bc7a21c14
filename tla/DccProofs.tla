------------------------------ MODULE DccProofs ------------------------------
(* Theorems about Dcc, for every set of files, length, port and bound: its  *)
(* types, its safety when the bots do not share ports, and, whether or not  *)
(* they do, the counters that decide when the program quits.                *)
EXTENDS Dcc, FiniteSetTheorems, TLAPS

USE DccAssumption DEF Ids, Absent, None

-----------------------------------------------------------------------------
(* Types.                                                                   *)

\* main() starts with every variable of its type.
LEMMA InitTypes == Init => TypeOK
<1> SUFFICES ASSUME Init PROVE TypeOK
  OBVIOUS
<1>1. AnyFile \in Files
  BY DEF AnyFile
<1>2. HeldLengths \subseteq Nat \cup {Absent}
  BY DEF HeldLengths
<1>3. SessionTypes
  BY <1>1 DEF Init, SessionTypes, States
<1>4. ContextTypes
  BY DEF Init, ContextTypes
<1>5. CounterTypes /\ ProgramTypes
  BY DEF Init, CounterTypes, ProgramTypes
<1>6. DiskTypes
  BY <1>2 DEF Init, DiskTypes
<1>7. BotTypes
  BY DEF Init, BotTypes
<1> QED
  BY <1>3, <1>4, <1>5, <1>6, <1>7 DEF TypeOK

\* A step that leaves a group of variables alone keeps their types.
LEMMA UnchangedTypes ==
  /\ SessionTypes /\ UNCHANGED session => SessionTypes'
  /\ ContextTypes /\ UNCHANGED context => ContextTypes'
  /\ CounterTypes /\ UNCHANGED counters => CounterTypes'
  /\ ProgramTypes /\ UNCHANGED <<busy, run, runs>> => ProgramTypes'
  /\ DiskTypes /\ UNCHANGED disk => DiskTypes'
  /\ BotTypes /\ UNCHANGED bot => BotTypes'
<1>1. SessionTypes /\ UNCHANGED session => SessionTypes'
  BY DEF SessionTypes, session
<1>2. ContextTypes /\ UNCHANGED context => ContextTypes'
  BY DEF ContextTypes, context
<1>3. CounterTypes /\ UNCHANGED counters => CounterTypes'
  BY DEF CounterTypes, counters
<1>4. ProgramTypes /\ UNCHANGED <<busy, run, runs>> => ProgramTypes'
  BY DEF ProgramTypes
<1>5. DiskTypes /\ UNCHANGED disk => DiskTypes'
  BY DEF DiskTypes, disk
<1>6. BotTypes /\ UNCHANGED bot => BotTypes'
  BY DEF BotTypes, bot
<1> QED
  BY <1>1, <1>2, <1>3, <1>4, <1>5, <1>6

\* libirc_new_dcc_session keeps the types of the session list.
LEMMA NewSessionTypes ==
  ASSUME SessionTypes, NEW s \in Ids, NEW st \in States, NEW k \in {"send", "ssend", "reverse"},
         NEW p \in Ports \cup {0}, NEW f \in Files, NEW size \in Nat,
         libirc_new_dcc_session(s, st, k, p, f, size)
  PROVE  SessionTypes'
<1> USE DEF libirc_new_dcc_session, SessionTypes
<1>1. state' \in [Ids -> States] /\ kind' \in [Ids -> {"send", "ssend", "reverse"}]
  OBVIOUS
<1>2. port' \in [Ids -> Ports \cup {0}] /\ file' \in [Ids -> Files]
  OBVIOUS
<1>3. file_confirm_offset' \in [Ids -> Nat] /\ received_file_size' \in [Ids -> Nat]
  OBVIOUS
<1>4. lastId' \in 0 .. MaxSessions
  OBVIOUS
<1> QED
  BY <1>1, <1>2, <1>3, <1>4

\* prepareRecvFileRequest keeps the types of contexts, counters and files.
LEMMA PrepareTypes ==
  ASSUME TypeOK, NEW s \in Ids, NEW f \in Files, NEW size \in Nat,
         prepareRecvFileRequest(s, f, size), UNCHANGED <<finished, lastDownload, quit>>
  PROVE  ContextTypes' /\ CounterTypes' /\ DiskTypes'
<1> USE DEF TypeOK, prepareRecvFileRequest
<1>1. ContextTypes'
  BY DEF ContextTypes, OpenPosition
<1>2. numActive' \in Nat /\ curDownload' \in Ids \cup {0}
  BY DEF CounterTypes, ActiveAfter
<1>3. quit' \in BOOLEAN /\ finished' \in Nat /\ lastDownload' \in Ids \cup {0}
  BY DEF CounterTypes
<1>4. DiskTypes'
  BY DEF DiskTypes, OpenLength
<1> QED
  BY <1>1, <1>2, <1>3, <1>4 DEF CounterTypes

\* A DCC SEND or SSEND (accept_dcc_send, recvFileRequest) keeps the types.
LEMMA AcceptSendTypes ==
  ASSUME TypeOK, NEW s \in Ids, NEW f \in Files, NEW size \in Nat, NEW p \in Ports, NEW k \in Kinds,
         accept_dcc_send(s, f, size, p, k)
  PROVE  TypeOK'
<1>1. PICK st \in States : libirc_new_dcc_session(s, st, k, p, f, size)
  BY DEF accept_dcc_send, AcceptedState, RefusedStates, States
<1>2. SessionTypes'
  BY <1>1, NewSessionTypes DEF TypeOK
<1>3. ContextTypes' /\ CounterTypes' /\ DiskTypes'
  BY PrepareTypes DEF accept_dcc_send
<1>4. ProgramTypes'
  BY DEF accept_dcc_send, TypeOK, ProgramTypes
<1>5. BotTypes'
  <2>1. UNCHANGED <<sent, acked>>
    BY DEF accept_dcc_send
  <2>2. link' \in {link, [link EXCEPT ![s] = AcceptedLink(k)]}
    BY DEF accept_dcc_send
  <2>3. resume' = resume \/ resume' = [resume EXCEPT ![s] = len[f]]
    BY DEF accept_dcc_send
  <2>4. link' \in [Ids -> {"none", "syn", "up", "fin", "refused", "reset", "broken",
                           "listen", "dialled"}]
    BY <2>2 DEF TypeOK, BotTypes, AcceptedLink
  <2>5. len[f] \in Nat \cup {None}
    BY DEF TypeOK, DiskTypes
  <2>6. resume' \in [Ids -> Nat \cup {None}]
    BY <2>3, <2>5 DEF TypeOK, BotTypes
  <2> QED
    BY <2>1, <2>4, <2>6 DEF TypeOK, BotTypes
<1> QED
  BY <1>2, <1>3, <1>4, <1>5 DEF TypeOK

\* So does a passive offer whose bind or listen fails.
LEMMA ListenFailedTypes ==
  ASSUME TypeOK, NEW s \in Ids, NEW f \in Files, reverse_listen_failed(s, f)
  PROVE  TypeOK'
<1>1. SessionTypes'
  BY NewSessionTypes DEF reverse_listen_failed, TypeOK, States
<1>2. UNCHANGED <<busy, context, counters, run, runs, disk, bot>>
  BY DEF reverse_listen_failed
<1> QED
  BY <1>1, <1>2, UnchangedTypes DEF TypeOK

\* So does a passive offer that is listened for (recvFileRequestReverse).
LEMMA AcceptReverseTypes ==
  ASSUME TypeOK, NEW s \in Ids, NEW f \in Files, NEW size \in Nat,
         accept_reverse_dcc_send(s, f, size)
  PROVE  TypeOK'
<1>1. PICK st \in States : libirc_new_dcc_session(s, st, "reverse", 0, f, 0)
  BY DEF accept_reverse_dcc_send, States
<1>2. SessionTypes'
  BY <1>1, NewSessionTypes DEF TypeOK
<1>3. ContextTypes' /\ CounterTypes' /\ DiskTypes'
  BY PrepareTypes DEF accept_reverse_dcc_send
<1>4. ProgramTypes'
  BY DEF accept_reverse_dcc_send, TypeOK, ProgramTypes
<1>5. BotTypes'
  <2>1. UNCHANGED <<sent, acked>>
    BY DEF accept_reverse_dcc_send
  <2>2. link' \in {link, [link EXCEPT ![s] = "listen"]}
    BY DEF accept_reverse_dcc_send
  <2>3. resume' = resume \/ resume' = [resume EXCEPT ![s] = len[f]]
    BY DEF accept_reverse_dcc_send
  <2>4. link' \in [Ids -> {"none", "syn", "up", "fin", "refused", "reset", "broken",
                           "listen", "dialled"}]
    BY <2>2 DEF TypeOK, BotTypes
  <2>5. len[f] \in Nat \cup {None}
    BY DEF TypeOK, DiskTypes
  <2>6. resume' \in [Ids -> Nat \cup {None}]
    BY <2>3, <2>5 DEF TypeOK, BotTypes
  <2> QED
    BY <2>1, <2>4, <2>6 DEF TypeOK, BotTypes
<1> QED
  BY <1>2, <1>3, <1>4, <1>5 DEF TypeOK

\* The position a bot accepts is one that was asked for, hence a number.
LEMMA AnswerTypes ==
  ASSUME BotTypes, NEW s \in Ids, BotAnswers(s)
  PROVE  /\ resume[s] \in Nat
         /\ sent' \in [Ids -> Nat] /\ acked' \in [Ids -> Nat]
         /\ resume' \in [Ids -> Nat \cup {None}]
<1>1. resume[s] \in Nat
  BY DEF BotAnswers, BotTypes
<1>2. resume[s] % AckMod \in Nat
  BY <1>1
<1>3. acked' \in [Ids -> Nat]
  BY <1>2 DEF BotAnswers, BotTypes
<1> QED
  BY <1>1, <1>3 DEF BotAnswers, BotTypes

\* callback_dcc_resume_file sets sizes and offset to the accepted position.
LEMMA ResumeTypes ==
  ASSUME SessionTypes, ContextTypes, NEW t \in Ids, NEW position \in Nat,
         callback_dcc_resume_file(t, position)
  PROVE  /\ file_confirm_offset' \in [Ids -> Nat]
         /\ sizeRcvd' \in [Ids -> Nat] /\ pos' \in [Ids -> Nat]
  BY DEF SessionTypes, ContextTypes, callback_dcc_resume_file, ResumedSize

\* A DCC ACCEPT keeps the types.
LEMMA AcceptTypes ==
  ASSUME TypeOK, NEW s \in Ids, NEW t \in Ids, dcc_accept(s, t)
  PROVE  TypeOK'
<1>1. BotAnswers(s)
  BY DEF dcc_accept
<1>2. /\ file_confirm_offset' \in [Ids -> Nat]
      /\ sizeRcvd' \in [Ids -> Nat] /\ pos' \in [Ids -> Nat]
  BY <1>1, AnswerTypes, ResumeTypes DEF dcc_accept, TypeOK, SessionTypes, ContextTypes
<1>3. state' \in [Ids -> States]
  BY DEF dcc_accept, TypeOK, SessionTypes, States, AcceptedState, RefusedStates
<1>4. SessionTypes' /\ ContextTypes'
  BY <1>2, <1>3 DEF dcc_accept, TypeOK, SessionTypes, ContextTypes
<1>5. CounterTypes' /\ DiskTypes'
  BY UnchangedTypes DEF dcc_accept, TypeOK
<1>6. ProgramTypes'
  BY DEF dcc_accept, TypeOK, ProgramTypes
<1>7. link' \in {link, [link EXCEPT ![t] = AcceptedLink(kind[t])]}
  BY DEF dcc_accept
<1>8. link' \in [Ids -> {"none", "syn", "up", "fin", "refused", "reset", "broken",
                         "listen", "dialled"}]
  BY <1>7 DEF TypeOK, BotTypes, AcceptedLink
<1>9. BotTypes'
  BY <1>1, <1>8, AnswerTypes DEF TypeOK, BotTypes
<1> QED
  BY <1>4, <1>5, <1>6, <1>9 DEF TypeOK

\* So does the DCC ACCEPT of a passive session.
LEMMA AcceptPassiveTypes ==
  ASSUME TypeOK, NEW s \in Ids, dcc_accept_reverse(s)
  PROVE  TypeOK'
<1>1. BotAnswers(s)
  BY DEF dcc_accept_reverse
<1>2. /\ file_confirm_offset' \in [Ids -> Nat]
      /\ sizeRcvd' \in [Ids -> Nat] /\ pos' \in [Ids -> Nat]
  BY <1>1, AnswerTypes, ResumeTypes DEF dcc_accept_reverse, TypeOK
<1>3. state' \in [Ids -> States]
  BY DEF dcc_accept_reverse, TypeOK, SessionTypes, States
<1>4. SessionTypes' /\ ContextTypes'
  BY <1>2, <1>3 DEF dcc_accept_reverse, TypeOK, SessionTypes, ContextTypes
<1>5. CounterTypes' /\ DiskTypes'
  BY UnchangedTypes DEF dcc_accept_reverse, TypeOK
<1>6. ProgramTypes'
  BY DEF dcc_accept_reverse, TypeOK, ProgramTypes
<1>7. BotTypes'
  BY <1>1, AnswerTypes DEF dcc_accept_reverse, TypeOK, BotTypes
<1> QED
  BY <1>4, <1>5, <1>6, <1>7 DEF TypeOK

\* A handler that only moves a session to another state keeps the types.
LEMMA SetStateTypes ==
  ASSUME TypeOK, NEW s \in Ids, NEW st \in States, SetState(s, st)
  PROVE  SessionTypes' /\ ContextTypes' /\ CounterTypes' /\ ProgramTypes' /\ DiskTypes'
<1>1. state' \in [Ids -> States]
  BY DEF SetState, TypeOK, SessionTypes
<1>2. SessionTypes'
  BY <1>1 DEF SetState, TypeOK, SessionTypes
<1> QED
  BY <1>2, UnchangedTypes DEF SetState, TypeOK

\* Write moves the offset and the length forward, from an absent file too.
LEMMA WriteTypes ==
  ASSUME TypeOK, NEW s \in Ids, NEW n \in Nat \ {0}, Write(s, n)
  PROVE  pos' \in [Ids -> Nat] /\ DiskTypes'
<1>1. file[s] \in Files /\ len[file[s]] \in Nat \cup {Absent} /\ pos[s] \in Nat
  BY DEF TypeOK, SessionTypes, DiskTypes, ContextTypes
<1>2. WriteAt(s) + n \in Nat
  BY <1>1 DEF WriteAt
<1>3. pos' \in [Ids -> Nat]
  BY <1>2 DEF Write, TypeOK, ContextTypes
<1>4. len' \in [Files -> Nat \cup {Absent}]
  <2>1. PICK l \in Nat \cup {Absent} : len' = [len EXCEPT ![file[s]] = l]
    BY <1>1, <1>2 DEF Write
  <2> QED
    BY <2>1 DEF TypeOK, DiskTypes
<1>5. damaged' \in SUBSET Files
  BY <1>1 DEF Write, TypeOK, DiskTypes
<1> QED
  BY <1>3, <1>4, <1>5 DEF DiskTypes

\* recv_dcc_file with its callback keeps the types.
LEMMA ReceiveTypes ==
  ASSUME TypeOK, NEW s \in Ids, NEW n \in 1 .. Chunk, recv_dcc_file(s, n)
  PROVE  TypeOK'
<1>1. n \in Nat \ {0} /\ Write(s, n)
  BY DEF recv_dcc_file, callback_dcc_recv_file
<1>2. pos' \in [Ids -> Nat] /\ DiskTypes'
  BY <1>1, WriteTypes
<1>3. sizeRcvd' \in [Ids -> Nat]
  <2>1. sizeRcvd' = [sizeRcvd EXCEPT ![s] = @ + n]
    BY DEF recv_dcc_file, callback_dcc_recv_file
  <2> QED
    BY <1>1, <2>1 DEF TypeOK, ContextTypes
<1>4. fd' \in [Ids -> {"none", "open", "null"}]
  BY DEF recv_dcc_file, callback_dcc_recv_file, TypeOK, ContextTypes
<1>5. ContextTypes'
  BY <1>2, <1>3, <1>4 DEF recv_dcc_file, callback_dcc_recv_file, TypeOK, ContextTypes
<1>6. state' \in [Ids -> States]
  BY DEF recv_dcc_file, TypeOK, SessionTypes, States, StateAfterData
<1>7. file_confirm_offset' \in [Ids -> Nat]
  <2>1. file_confirm_offset' = [file_confirm_offset EXCEPT ![s] = @ + n]
    BY DEF recv_dcc_file
  <2>2. file_confirm_offset \in [Ids -> Nat]
    BY DEF TypeOK, SessionTypes
  <2> QED
    BY <1>1, <2>1, <2>2
<1>8. SessionTypes'
  BY <1>6, <1>7 DEF recv_dcc_file, TypeOK, SessionTypes
<1>9. quit' \in BOOLEAN
  <2>1. quit \in BOOLEAN
    BY DEF TypeOK, CounterTypes
  <2> QED
    BY <2>1, Zenon DEF recv_dcc_file, callback_dcc_recv_file
<1>10. CounterTypes'
  <2>1. /\ numActive' \in Nat /\ curDownload' \in Ids \cup {0}
        /\ lastDownload' \in Ids \cup {0}
    BY DEF recv_dcc_file, callback_dcc_recv_file, TypeOK, CounterTypes
  <2>2. finished' \in Nat
    BY DEF recv_dcc_file, callback_dcc_recv_file, TypeOK, CounterTypes
  <2> QED
    BY <1>9, <2>1, <2>2 DEF CounterTypes
<1>11. ProgramTypes'
  BY DEF recv_dcc_file, callback_dcc_recv_file, TypeOK, ProgramTypes
<1>12. sent' \in [Ids -> Nat]
  BY <1>1 DEF recv_dcc_file, TypeOK, BotTypes
<1>13. BotTypes'
  BY <1>12 DEF recv_dcc_file, TypeOK, BotTypes
<1> QED
  BY <1>2, <1>5, <1>8, <1>10, <1>11, <1>13 DEF TypeOK

\* A failed Write, which ends the program, keeps the types.
LEMMA WriteFailedTypes ==
  ASSUME TypeOK, NEW s \in Ids, NEW n \in 1 .. Chunk, recv_dcc_file_write_failed(s, n)
  PROVE  TypeOK'
<1>1. pos' \in [Ids -> Nat] /\ DiskTypes'
  <2>1. CASE UNCHANGED <<pos, len, damaged>>
    BY <2>1 DEF TypeOK, ContextTypes, DiskTypes
  <2>2. CASE \E m \in 1 .. n - 1 : Write(s, m)
    <3>1. PICK m \in 1 .. n - 1 : Write(s, m)
      BY <2>2
    <3>2. m \in Nat \ {0}
      OBVIOUS
    <3> QED
      BY <3>1, <3>2, WriteTypes
  <2> QED
    BY <2>1, <2>2 DEF recv_dcc_file_write_failed
<1>2. sizeRcvd' = [sizeRcvd EXCEPT ![s] = @ + n] /\ UNCHANGED <<fd, mode, completeFileSize>>
  BY DEF recv_dcc_file_write_failed
<1>3. sizeRcvd' \in [Ids -> Nat]
  BY <1>2 DEF TypeOK, ContextTypes
<1>4. ContextTypes'
  BY <1>1, <1>2, <1>3 DEF TypeOK, ContextTypes
<1>5. file_confirm_offset' = [file_confirm_offset EXCEPT ![s] = @ + n]
  BY DEF recv_dcc_file_write_failed
<1>6. file_confirm_offset' \in [Ids -> Nat]
  BY <1>5 DEF TypeOK, SessionTypes
<1>7. SessionTypes'
  BY <1>6 DEF recv_dcc_file_write_failed, TypeOK, SessionTypes
<1>8. sent' = [sent EXCEPT ![s] = @ + n]
  BY DEF recv_dcc_file_write_failed
<1>9. sent' \in [Ids -> Nat]
  BY <1>8 DEF TypeOK, BotTypes
<1>10. BotTypes'
  BY <1>9 DEF recv_dcc_file_write_failed, TypeOK, BotTypes
<1>11. ProgramTypes'
  BY DEF recv_dcc_file_write_failed, TypeOK, ProgramTypes
<1>12. CounterTypes'
  BY UnchangedTypes DEF recv_dcc_file_write_failed, TypeOK
<1> QED
  BY <1>1, <1>4, <1>7, <1>10, <1>11, <1>12 DEF TypeOK

\* An acknowledgement is a number below 2^32 (in blocks, AckMod).
LEMMA SendOffsetTypes ==
  ASSUME TypeOK, NEW s \in Ids, send_current_file_offset_to_sender(s)
  PROVE  TypeOK'
<1>1. file_confirm_offset[s] % AckMod \in Nat
  BY DEF TypeOK, SessionTypes
<1>2. BotTypes'
  BY <1>1 DEF send_current_file_offset_to_sender, TypeOK, BotTypes
<1> QED
  BY <1>2, SetStateTypes DEF send_current_file_offset_to_sender, libirc_dcc_destroy_nolock,
     TypeOK, States

\* Every handler of libirc_dcc_process_descriptors keeps the types.
LEMMA HandlerTypes ==
  ASSUME TypeOK, NEW s \in Ids, libirc_dcc_process_descriptors(s)
  PROVE  TypeOK'
<1>1. CASE handleConnectingState(s) \/ recv_dcc_failed(s) \/ recv_wants_write(s)
           \/ send_wants_read(s)
  <2>1. PICK st \in States : SetState(s, st)
    BY <1>1 DEF handleConnectingState, recv_dcc_failed, recv_wants_write, send_wants_read,
       libirc_dcc_destroy_nolock, States
  <2>2. UNCHANGED bot
    BY <1>1 DEF handleConnectingState, recv_dcc_failed, recv_wants_write, send_wants_read
  <2> QED
    BY <2>1, <2>2, SetStateTypes, UnchangedTypes DEF TypeOK
<1>2. CASE handleInitPassiveState(s)
  <2>1. SetState(s, "CONNECTED") /\ "CONNECTED" \in States
    BY <1>2 DEF handleInitPassiveState, States
  <2>2. BotTypes'
    BY <1>2 DEF handleInitPassiveState, TypeOK, BotTypes
  <2> QED
    BY <2>1, <2>2, SetStateTypes DEF TypeOK
<1>3. CASE \E n \in 1 .. Chunk : recv_dcc_file(s, n)
  BY <1>3, ReceiveTypes
<1>4. CASE recv_dcc_file_crash(s)
  <2>1. ProgramTypes'
    BY <1>4 DEF recv_dcc_file_crash, client, TypeOK, ProgramTypes
  <2> QED
    BY <1>4, <2>1, UnchangedTypes DEF recv_dcc_file_crash, client, TypeOK
<1>5. CASE send_current_file_offset_to_sender(s)
  BY <1>5, SendOffsetTypes
<1>6. CASE send_offset_failed(s)
  <2>1. ProgramTypes'
    BY <1>6 DEF send_offset_failed, client, TypeOK, ProgramTypes
  <2>2. BotTypes'
    BY <1>6 DEF send_offset_failed, TypeOK, BotTypes
  <2> QED
    BY <1>6, <2>1, <2>2, UnchangedTypes DEF send_offset_failed, client, TypeOK
<1>7. CASE \E n \in 1 .. Chunk : recv_dcc_file_write_failed(s, n)
  BY <1>7, WriteFailedTypes
<1> QED
  BY <1>1, <1>2, <1>3, <1>4, <1>5, <1>6, <1>7 DEF libirc_dcc_process_descriptors

\* The network and the bots keep the types.
LEMMA EnvironmentTypes ==
  ASSUME TypeOK, NEW s \in Ids, Environment(s)
  PROVE  TypeOK'
<1>1. PICK from, to \in {"syn", "up", "fin", "refused", "reset", "listen", "dialled"} :
        link' = [link EXCEPT ![s] = to]
  BY DEF Environment, Connects, Refused, BotDials, BotCloses, BotResets, SetLink
<1>2. UNCHANGED <<client, run, runs, disk, resume, sent, acked>>
  BY DEF Environment, Connects, Refused, BotDials, BotCloses, BotResets, SetLink
<1>3. BotTypes'
  BY <1>1, <1>2 DEF TypeOK, BotTypes
<1> QED
  BY <1>2, <1>3, UnchangedTypes DEF client, TypeOK

\* libirc_dcc_add_descriptors, which frees removed sessions, keeps the types.
LEMMA FreeTypes ==
  ASSUME TypeOK, libirc_dcc_add_descriptors
  PROVE  TypeOK'
<1>1. state' \in [Ids -> States]
  BY DEF libirc_dcc_add_descriptors, TypeOK, SessionTypes, States
<1>2. SessionTypes'
  BY <1>1 DEF libirc_dcc_add_descriptors, TypeOK, SessionTypes
<1> QED
  BY <1>2, UnchangedTypes DEF libirc_dcc_add_descriptors, TypeOK

\* The ends of the program keep the types.
LEMMA EndTypes ==
  ASSUME TypeOK, containsIllegalChars \/ Disconnected \/ Killed
  PROVE  TypeOK'
<1>1. ProgramTypes'
  BY DEF containsIllegalChars, Disconnected, Killed, client, TypeOK, ProgramTypes
<1> QED
  BY <1>1, UnchangedTypes DEF containsIllegalChars, Disconnected, Killed, client, TypeOK

\* interrupt_handler keeps the types.
LEMMA InterruptTypes ==
  ASSUME TypeOK, interrupt_handler
  PROVE  TypeOK'
<1>1. CounterTypes'
  <2>1. quit' \in BOOLEAN
    BY DEF interrupt_handler
  <2> QED
    BY <2>1 DEF interrupt_handler, TypeOK, CounterTypes
<1> QED
  BY <1>1, UnchangedTypes DEF interrupt_handler, TypeOK

\* A new run of main() has the types again.
LEMMA RestartTypes ==
  ASSUME TypeOK, Restart
  PROVE  TypeOK'
<1>1. AnyFile \in Files
  BY DEF AnyFile
<1>2. SessionTypes'
  BY <1>1 DEF Restart, SessionTypes, States
<1>3. ContextTypes'
  BY DEF Restart, ContextTypes
<1>4. CounterTypes' /\ ProgramTypes'
  <2>1. CounterTypes'
    <3>1. quit' \in BOOLEAN
      BY DEF Restart
    <3> QED
      BY <3>1 DEF Restart, CounterTypes
  <2>2. ProgramTypes'
    BY DEF Restart, ProgramTypes, TypeOK
  <2> QED
    BY <2>1, <2>2
<1>5. DiskTypes'
  BY UnchangedTypes DEF Restart, TypeOK
<1>6. BotTypes'
  BY DEF Restart, BotTypes
<1> QED
  BY <1>2, <1>3, <1>4, <1>5, <1>6 DEF TypeOK

\* Every step of the program, the bots and the network keeps the types.
LEMMA NextTypes == TypeOK /\ [Next]_vars => TypeOK'
<1> SUFFICES ASSUME TypeOK, [Next]_vars PROVE TypeOK'
  OBVIOUS
<1>1. CASE dcc_send_request
  <2>1. PICK f \in Files, k \in Kinds : \E size \in OfferedSizes(f, k) :
          \/ \E p \in Ports : accept_dcc_send(lastId + 1, f, size, p, k)
          \/ reverse_listen_failed(lastId + 1, f)
          \/ accept_reverse_dcc_send(lastId + 1, f, size)
    BY <1>1 DEF dcc_send_request
  <2>2. PICK size \in OfferedSizes(f, k) :
          \/ \E p \in Ports : accept_dcc_send(lastId + 1, f, size, p, k)
          \/ reverse_listen_failed(lastId + 1, f)
          \/ accept_reverse_dcc_send(lastId + 1, f, size)
    BY <2>1
  <2>3. lastId + 1 \in Ids /\ size \in Nat
    BY <1>1 DEF dcc_send_request, TypeOK, SessionTypes, OfferedSizes
  <2> QED
    BY <2>2, <2>3, AcceptSendTypes, ListenFailedTypes, AcceptReverseTypes
<1>2. CASE \E s, t \in Ids : dcc_accept(s, t)
  BY <1>2, AcceptTypes
<1>3. CASE \E s \in Ids : dcc_accept_reverse(s)
  BY <1>3, AcceptPassiveTypes
<1>4. CASE \E s \in Ids : libirc_dcc_process_descriptors(s)
  BY <1>4, HandlerTypes
<1>5. CASE \E s \in Ids : Environment(s)
  BY <1>5, EnvironmentTypes
<1>6. CASE containsIllegalChars \/ Disconnected \/ Killed
  BY <1>6, EndTypes
<1>7. CASE libirc_dcc_add_descriptors
  BY <1>7, FreeTypes
<1>8. CASE interrupt_handler
  BY <1>8, InterruptTypes
<1>9. CASE Restart
  BY <1>9, RestartTypes
<1>10. CASE Stopped \/ UNCHANGED vars
  BY <1>10, UnchangedTypes DEF Stopped, vars, client, TypeOK
<1> QED
  BY <1>1, <1>2, <1>3, <1>4, <1>5, <1>6, <1>7, <1>8, <1>9, <1>10 DEF Next

\* The variables keep their types in every behaviour of the specification.
THEOREM Types == Spec => []TypeOK
<1>1. Init => TypeOK
  BY InitTypes
<1>2. TypeOK /\ [Next]_vars => TypeOK'
  BY NextTypes
<1> QED
  BY <1>1, <1>2, PTL DEF Spec

-----------------------------------------------------------------------------
(* The inductive invariant, for bots that do not share ports.               *)

\* An id that has not been given out has no state of its own.
Fresh(s) ==
  s > lastId => /\ state[s] = "FREE" /\ fd[s] = "none" /\ resume[s] = None
                /\ sent[s] = 0 /\ acked[s] = 0

\* A session that receives: its three counts of the data agree.
Agrees(s) ==
  Receiving(s) => /\ file_confirm_offset[s] = sizeRcvd[s] /\ sizeRcvd[s] = sent[s]
                  /\ sent[s] <= FileLen[file[s]] /\ resume[s] = None

\* Its file ends where the bot goes on sending, or is whole and closed.
OnDisk(s) ==
  Receiving(s) => /\ completeFileSize[s] \in {0, FileLen[file[s]]}
                  /\ \/ /\ fd[s] = "open" /\ len[file[s]] = sent[s]
                        /\ mode[s] = "w" => pos[s] = sent[s]
                     \/ fd[s] = "null" /\ sent[s] = FileLen[file[s]]

\* The bot knows of all it has sent when a session without TLS reads.
Told(s) ==
  \/ state[s] \in {"CONNECTING", "INIT_PASSIVE"}
  \/ Confirm /\ state[s] = "CONNECTED" /\ kind[s] # "ssend"
  => acked[s] = sent[s] % AckMod

\* A session that waits for its resume has asked for the end of its file.
Waits(s) ==
  /\ Waiting(s) => /\ fd[s] = "open" /\ mode[s] = "a" /\ resume[s] = len[file[s]]
                   /\ completeFileSize[s] \in {0, FileLen[file[s]]}
                   /\ kind[s] # "reverse" => port[s] # 0
  /\ resume[s] # None => Waiting(s)

Consistent(s) == Fresh(s) /\ Agrees(s) /\ OnDisk(s) /\ Told(s) /\ Waits(s)

\* Live sessions have their files to themselves, and no session that was made
\* after a live one has its port.
Apart(s, t) ==
  /\ Live(s) /\ Live(t) /\ s # t => file[s] # file[t]
  /\ Live(s) /\ t \in Listed /\ s < t /\ port[s] # 0 => port[t] # port[s]

BusyReceives == busy # 0 => Receiving(busy)

\* While the program runs.
RunInv ==
  /\ TypeOK
  /\ FilesIntact /\ FinishedIsWhole /\ NoWriteAfterClose
  /\ \A s \in Ids : Consistent(s)
  /\ \A s, t \in Ids : Apart(s, t)
  /\ BusyReceives

\* A run that has ended leaves nothing but its files to the next one.
IInv ==
  /\ TypeOK
  /\ FilesIntact /\ FinishedIsWhole /\ NoWriteAfterClose
  /\ run = "run" => RunInv

-----------------------------------------------------------------------------
(* What a step does to the sessions it does not touch.                      *)

Same(t) ==
  /\ state'[t] = state[t] /\ kind'[t] = kind[t] /\ port'[t] = port[t] /\ file'[t] = file[t]
  /\ file_confirm_offset'[t] = file_confirm_offset[t]
  /\ fd'[t] = fd[t] /\ mode'[t] = mode[t] /\ pos'[t] = pos[t]
  /\ sizeRcvd'[t] = sizeRcvd[t] /\ completeFileSize'[t] = completeFileSize[t]
  /\ resume'[t] = resume[t] /\ sent'[t] = sent[t] /\ acked'[t] = acked[t]

\* A session stays consistent when its variables and, while it lives, the
\* length of its file do not change.
LEMMA SameConsistent ==
  ASSUME TypeOK, NEW t \in Ids, Consistent(t), Same(t), lastId' \in Nat, lastId' >= lastId,
         Live(t) => len'[file[t]] = len[file[t]]
  PROVE  Consistent(t)'
<1> USE DEF Same, Receiving, Waiting, Live, Consistent
<1>1. Fresh(t)'
  BY DEF Fresh, TypeOK, SessionTypes
<1>2. Agrees(t)'
  BY DEF Agrees
<1>3. OnDisk(t)'
  BY DEF OnDisk
<1>4. Told(t)'
  BY DEF Told
<1>5. Waits(t)'
  BY DEF Waits
<1> QED
  BY <1>1, <1>2, <1>3, <1>4, <1>5

\* A step that makes no session and wakes none keeps sessions apart.
LEMMA SameApart ==
  ASSUME NEW s \in Ids, NEW t \in Ids, Apart(s, t), UNCHANGED <<file, port>>,
         Live(s)' => Live(s), Live(t)' => Live(t), (t \in Listed)' => t \in Listed
  PROVE  Apart(s, t)'
  BY DEF Apart

\* The same for all sessions, when a step leaves the disk and the offsets alone.
LEMMA SameFiles ==
  ASSUME FilesIntact, FinishedIsWhole, UNCHANGED <<disk, file>>,
         \A s \in Ids : fd'[s] = "null" => fd[s] = "null"
  PROVE  FilesIntact' /\ FinishedIsWhole'
  BY DEF FilesIntact, FinishedIsWhole, disk

-----------------------------------------------------------------------------
(* Handlers that change the state of one session.                           *)

\* A handler that moves a receiving session to CONNECTED, CONFIRM_SIZE or REMOVED
\* keeps the invariant if the bot knows of its data when a session without TLS
\* goes back to CONNECTED.
LEMMA SetStateInv ==
  ASSUME RunInv, busy = 0, run # "crashed", NEW s \in Ids, NEW st \in {"CONNECTED", "CONFIRM_SIZE", "REMOVED"},
         SetState(s, st), Receiving(s), TypeOK', UNCHANGED <<resume, sent>>,
         \A t \in Ids \ {s} : acked'[t] = acked[t],
         st = "CONNECTED" /\ kind[s] # "ssend" /\ Confirm => acked'[s] = sent[s] % AckMod
  PROVE  RunInv'
<1>1. ASSUME NEW t \in Ids, t # s PROVE Consistent(t)'
  <2>1. Same(t)
    BY <1>1 DEF Same, SetState, context, RunInv, TypeOK, SessionTypes
  <2>2. lastId' \in Nat /\ lastId' >= lastId /\ len'[file[t]] = len[file[t]]
    BY DEF SetState, disk, RunInv, TypeOK, SessionTypes
  <2> QED
    BY <2>1, <2>2, SameConsistent DEF RunInv
<1>2. state'[s] = st
  BY DEF SetState, RunInv, TypeOK, SessionTypes
<1>3. Consistent(s)'
  <2>1. Fresh(s)'
    BY DEF Fresh, RunInv, Consistent, SetState, Receiving, TypeOK, SessionTypes
  <2>2. Agrees(s)' /\ OnDisk(s)'
    BY <1>2 DEF Agrees, OnDisk, RunInv, Consistent, SetState, Receiving, context, disk
  <2>3. Told(s)'
    BY <1>2 DEF Told, SetState
  <2>4. Waits(s)'
    BY <1>2 DEF Waits, Waiting, RunInv, Consistent, Agrees, SetState
  <2> QED
    BY <2>1, <2>2, <2>3, <2>4 DEF Consistent
<1>4. ASSUME NEW t \in Ids PROVE (Live(t)' => Live(t)) /\ ((t \in Listed)' => t \in Listed)
  BY <1>2 DEF SetState, RunInv, TypeOK, SessionTypes, Live, Receiving, Waiting, Listed
<1>5. \A t, u \in Ids : Apart(t, u)'
  BY <1>4, SameApart DEF SetState, RunInv
<1>6. FilesIntact' /\ FinishedIsWhole'
  BY SameFiles DEF SetState, RunInv, context
<1>7. NoWriteAfterClose' /\ BusyReceives'
  BY DEF SetState, RunInv, NoWriteAfterClose, BusyReceives
<1> QED
  BY <1>1, <1>3, <1>5, <1>6, <1>7 DEF RunInv

\* Steps that leave the sessions, their contexts and the disk alone.
LEMMA QuietInv ==
  ASSUME RunInv, run' # "crashed", TypeOK',
         UNCHANGED <<session, busy, context, disk, resume, sent, acked>>
  PROVE  RunInv'
<1>1. ASSUME NEW t \in Ids PROVE Consistent(t)'
  <2>1. Same(t)
    BY DEF Same, session, context
  <2>2. lastId' \in Nat /\ lastId' >= lastId /\ len'[file[t]] = len[file[t]]
    BY DEF session, disk, RunInv, TypeOK, SessionTypes
  <2> QED
    BY <2>1, <2>2, SameConsistent DEF RunInv
<1>2. ASSUME NEW t \in Ids PROVE (Live(t)' => Live(t)) /\ ((t \in Listed)' => t \in Listed)
  BY DEF session, Live, Receiving, Waiting, Listed
<1>3. \A t, u \in Ids : Apart(t, u)'
  BY <1>2, SameApart DEF session, RunInv
<1>4. FilesIntact' /\ FinishedIsWhole'
  BY SameFiles DEF session, context, RunInv
<1>5. NoWriteAfterClose' /\ BusyReceives'
  BY DEF session, RunInv, NoWriteAfterClose, BusyReceives, Receiving
<1> QED
  BY <1>1, <1>3, <1>4, <1>5 DEF RunInv

\* Freeing the removed sessions keeps the invariant.
LEMMA FreeInv ==
  ASSUME RunInv, libirc_dcc_add_descriptors, TypeOK'
  PROVE  RunInv'
<1> USE DEF libirc_dcc_add_descriptors
<1>1. ASSUME NEW t \in Ids PROVE Consistent(t)'
  <2>1. lastId' \in Nat /\ lastId' >= lastId /\ len'[file[t]] = len[file[t]]
    BY DEF disk, RunInv, TypeOK, SessionTypes
  <2>2. CASE state[t] # "REMOVED"
    <3>1. Same(t)
      BY <2>2 DEF Same, context, bot
    <3> QED
      BY <2>1, <3>1, SameConsistent DEF RunInv
  <2>3. CASE state[t] = "REMOVED"
    <3>1. state'[t] = "FREED" /\ resume'[t] = None
      BY <2>3 DEF bot, RunInv, Consistent, Waits, Waiting
    <3>2. t <= lastId
      <4>1. Fresh(t)
        BY DEF RunInv, Consistent
      <4>2. lastId \in Nat /\ t \in Nat
        BY DEF RunInv, TypeOK, SessionTypes
      <4> QED
        BY <2>3, <4>1, <4>2 DEF Fresh
    <3> QED
      BY <3>1, <3>2 DEF Consistent, Fresh, Agrees, OnDisk, Told, Waits, Receiving, Waiting,
         RunInv, TypeOK, SessionTypes
  <2> QED
    BY <2>2, <2>3
<1>2. ASSUME NEW t \in Ids PROVE (Live(t)' => Live(t)) /\ ((t \in Listed)' => t \in Listed)
  BY DEF Live, Receiving, Waiting, Listed
<1>3. \A t, u \in Ids : Apart(t, u)'
  BY <1>2, SameApart DEF RunInv
<1>4. FilesIntact' /\ FinishedIsWhole'
  BY SameFiles DEF context, RunInv
<1>5. NoWriteAfterClose' /\ BusyReceives'
  BY DEF RunInv, NoWriteAfterClose, BusyReceives, Idle
<1> QED
  BY <1>1, <1>3, <1>4, <1>5 DEF RunInv

-----------------------------------------------------------------------------
(* Data: the blocks go where the bot has them.                              *)

\* recv_dcc_file writes the blocks at the end of the bot's data, whichever mode
\* the file is open in, and closes the file only when it is whole.
LEMMA ReceiveInv ==
  ASSUME RunInv, NEW s \in Ids, NEW n \in 1 .. Chunk, recv_dcc_file(s, n), TypeOK'
  PROVE  RunInv'
<1>1. Receiving(s) /\ fd[s] = "open"
  BY DEF recv_dcc_file, Reads, Idle, RunInv, BusyReceives, Receiving
<1>2. /\ n \in Nat \ {0} /\ file[s] \in Files /\ FileLen[file[s]] \in Nat \ {0} /\ sent[s] \in Nat
      /\ sent[s] + n <= FileLen[file[s]]
  <2>1. n \in Nat \ {0} /\ file[s] \in Files /\ sent[s] \in Nat
    BY DEF RunInv, TypeOK, SessionTypes, BotTypes
  <2>2. FileLen[file[s]] \in Nat \ {0}
    BY <2>1
  <2>3. n <= FileLen[file[s]] - sent[s]
    BY DEF recv_dcc_file, Remaining
  <2> QED
    BY <2>1, <2>2, <2>3
<1>3. /\ file_confirm_offset[s] = sent[s] /\ sizeRcvd[s] = sent[s] /\ resume[s] = None
      /\ completeFileSize[s] \in {0, FileLen[file[s]]}
      /\ len[file[s]] = sent[s] /\ (mode[s] = "w" => pos[s] = sent[s])
  BY <1>1 DEF RunInv, Consistent, Agrees, OnDisk
<1>4. WriteAt(s) = sent[s]
  BY <1>3 DEF WriteAt, RunInv, TypeOK, ContextTypes
<1>5. /\ len' = [len EXCEPT ![file[s]] = sent[s] + n] /\ damaged' = damaged
      /\ pos' = [pos EXCEPT ![s] = sent[s] + n]
  <2>1. Write(s, n)
    BY DEF recv_dcc_file, callback_dcc_recv_file
  <2>2. pos' = [pos EXCEPT ![s] = sent[s] + n] /\ damaged' = damaged
    BY <1>4, <2>1 DEF Write
  <2>3. len' = [len EXCEPT ![file[s]] = IF sent[s] + n > len[file[s]] THEN sent[s] + n ELSE len[file[s]]]
    BY <1>4, <2>1 DEF Write
  <2>4. sent[s] + n > len[file[s]]
    BY <1>2, <1>3
  <2> QED
    BY <2>2, <2>3, <2>4
<1>6. /\ file_confirm_offset' = [file_confirm_offset EXCEPT ![s] = sent[s] + n]
      /\ sizeRcvd' = [sizeRcvd EXCEPT ![s] = sent[s] + n]
      /\ sent' = [sent EXCEPT ![s] = sent[s] + n]
      /\ state' = [state EXCEPT ![s] = StateAfterData]
      /\ UNCHANGED <<kind, port, file, lastId, mode, completeFileSize, resume, acked, run>>
  BY <1>3 DEF recv_dcc_file, callback_dcc_recv_file
<1>7. \/ fd' = fd
      \/ fd' = [fd EXCEPT ![s] = "null"] /\ sent[s] + n = FileLen[file[s]]
  BY <1>2, <1>3 DEF recv_dcc_file, callback_dcc_recv_file, Complete
<1>8. state'[s] \in {"CONNECTED", "CONFIRM_SIZE"} /\ (Confirm => state'[s] = "CONFIRM_SIZE")
  BY <1>6 DEF StateAfterData, RunInv, TypeOK, SessionTypes
<1>9. len'[file[s]] = sent[s] + n /\ pos'[s] = sent[s] + n /\ sent'[s] = sent[s] + n
      /\ sizeRcvd'[s] = sent[s] + n /\ file_confirm_offset'[s] = sent[s] + n
  BY <1>2, <1>5, <1>6 DEF RunInv, TypeOK, SessionTypes, ContextTypes, DiskTypes, BotTypes
<1>10. ASSUME NEW t \in Ids, t # s PROVE Consistent(t)'
  <2>1. Same(t)
    <3>1. TypeOK
      BY DEF RunInv
    <3>2. /\ state'[t] = state[t] /\ file_confirm_offset'[t] = file_confirm_offset[t]
          /\ kind'[t] = kind[t] /\ port'[t] = port[t] /\ file'[t] = file[t]
      BY <1>6, <1>10, <3>1 DEF TypeOK, SessionTypes
    <3>3. /\ fd'[t] = fd[t] /\ mode'[t] = mode[t] /\ pos'[t] = pos[t]
          /\ sizeRcvd'[t] = sizeRcvd[t] /\ completeFileSize'[t] = completeFileSize[t]
      BY <1>5, <1>6, <1>7, <1>10, <3>1 DEF TypeOK, ContextTypes
    <3>4. resume'[t] = resume[t] /\ sent'[t] = sent[t] /\ acked'[t] = acked[t]
      BY <1>6, <1>10, <3>1 DEF TypeOK, BotTypes
    <3> QED
      BY <3>2, <3>3, <3>4 DEF Same
  <2>2. lastId' \in Nat /\ lastId' >= lastId
    BY <1>6 DEF RunInv, TypeOK, SessionTypes
  <2>3. Live(t) => len'[file[t]] = len[file[t]]
    BY <1>1, <1>5, <1>10 DEF RunInv, Apart, Live, TypeOK, DiskTypes, SessionTypes
  <2> QED
    BY <2>1, <2>2, <2>3, SameConsistent DEF RunInv
<1>11. Consistent(s)'
  <2>1. Fresh(s)'
    BY <1>1, <1>6 DEF Fresh, RunInv, Consistent, Receiving
  <2>2. Agrees(s)'
    BY <1>2, <1>3, <1>6, <1>9 DEF Agrees
  <2>3. OnDisk(s)'
    BY <1>1, <1>3, <1>6, <1>7, <1>9 DEF OnDisk, RunInv, TypeOK, ContextTypes
  <2>4. Told(s)'
    BY <1>8 DEF Told
  <2>5. Waits(s)'
    BY <1>3, <1>6, <1>8 DEF Waits, Waiting
  <2> QED
    BY <2>1, <2>2, <2>3, <2>4, <2>5 DEF Consistent
<1>12. ASSUME NEW t \in Ids PROVE (Live(t)' => Live(t)) /\ ((t \in Listed)' => t \in Listed)
  BY <1>1, <1>6, <1>8 DEF RunInv, TypeOK, SessionTypes, Live, Receiving, Waiting, Listed
<1>13. \A t, u \in Ids : Apart(t, u)'
  BY <1>6, <1>12, SameApart DEF RunInv
<1>14. FilesIntact'
  BY <1>2, <1>5 DEF RunInv, FilesIntact, TypeOK, DiskTypes
<1>15. FinishedIsWhole'
  <2> SUFFICES ASSUME NEW t \in Ids, fd'[t] = "null" PROVE len'[file'[t]] = FileLen[file'[t]]
    BY DEF FinishedIsWhole
  <2>1. file[t] \in Files /\ file'[t] = file[t]
    BY <1>6 DEF RunInv, TypeOK, SessionTypes
  <2>2. CASE fd[t] = "null"
    <3>1. len[file[t]] = FileLen[file[t]]
      BY <2>2 DEF RunInv, FinishedIsWhole
    <3>2. file[t] # file[s]
      BY <1>2, <1>3, <3>1
    <3> QED
      BY <1>5, <2>1, <3>1, <3>2 DEF RunInv, TypeOK, DiskTypes
  <2>3. CASE fd[t] # "null"
    <3>1. t = s /\ sent[s] + n = FileLen[file[s]]
      BY <1>7, <2>3 DEF RunInv, TypeOK, ContextTypes
    <3> QED
      BY <1>9, <2>1, <3>1
  <2> QED
    BY <2>2, <2>3
<1>16. NoWriteAfterClose'
  BY <1>6 DEF RunInv, NoWriteAfterClose
<1>17. BusyReceives'
  <2>1. busy' \in {0, s}
    BY DEF recv_dcc_file
  <2> QED
    BY <1>8, <2>1 DEF BusyReceives, Receiving
<1> QED
  BY <1>10, <1>11, <1>13, <1>14, <1>15, <1>16, <1>17 DEF RunInv

\* The write through the closed file does not happen.
LEMMA NoCrash ==
  ASSUME RunInv, NEW s \in Ids
  PROVE  ~recv_dcc_file_crash(s)
<1> SUFFICES ASSUME recv_dcc_file_crash(s) PROVE FALSE
  OBVIOUS
<1>1. Receiving(s) /\ fd[s] = "null"
  BY DEF recv_dcc_file_crash, Reads, Idle, RunInv, BusyReceives, Receiving
<1>2. sent[s] = FileLen[file[s]] /\ sent[s] \in Nat
  BY <1>1 DEF RunInv, Consistent, OnDisk, TypeOK, BotTypes
<1> QED
  BY <1>2 DEF recv_dcc_file_crash, BotSends, Remaining

-----------------------------------------------------------------------------
(* The handlers of libirc_dcc_process_descriptors.                          *)

\* Every handler of libirc_dcc_process_descriptors keeps the invariant.
LEMMA HandlerInv ==
  ASSUME RunInv, NEW s \in Ids, libirc_dcc_process_descriptors(s), TypeOK'
  PROVE  RunInv' \/ \E n \in 1 .. Chunk : recv_dcc_file_write_failed(s, n)
<1>0. run # "crashed" /\ Consistent(s) /\ TypeOK
  BY DEF RunInv, NoWriteAfterClose
<1>1. CASE handleConnectingState(s) \/ recv_dcc_failed(s) \/ recv_wants_write(s)
           \/ send_wants_read(s)
  <2> USE DEF handleConnectingState, recv_dcc_failed, recv_wants_write, send_wants_read
  <2>1. Receiving(s) /\ busy = 0 /\ UNCHANGED <<resume, sent, acked>>
    BY <1>1 DEF Receiving, Idle, bot
  <2>2. PICK st \in {"CONNECTED", "CONFIRM_SIZE", "REMOVED"} :
          /\ SetState(s, st)
          /\ st = "CONNECTED" => state[s] = "CONNECTING" \/ kind[s] = "ssend"
    BY <1>1 DEF libirc_dcc_destroy_nolock
  <2>3. st = "CONNECTED" /\ kind[s] # "ssend" /\ Confirm => acked'[s] = sent[s] % AckMod
    BY <1>0, <2>1, <2>2 DEF Consistent, Told
  <2>4. \A t \in Ids \ {s} : acked'[t] = acked[t]
    BY <2>1
  <2> QED
    BY <1>0, <2>1, <2>2, <2>3, <2>4, SetStateInv
<1>2. CASE handleInitPassiveState(s)
  <2>1. Receiving(s) /\ busy = 0 /\ UNCHANGED <<resume, sent, acked>> /\ SetState(s, "CONNECTED")
    BY <1>2 DEF handleInitPassiveState, Receiving, Idle
  <2>2. acked'[s] = sent[s] % AckMod
    BY <1>0, <1>2, <2>1 DEF handleInitPassiveState, Consistent, Told
  <2>3. \A t \in Ids \ {s} : acked'[t] = acked[t]
    BY <2>1
  <2> QED
    BY <1>0, <2>1, <2>2, <2>3, SetStateInv
<1>3. CASE \E n \in 1 .. Chunk : recv_dcc_file(s, n)
  BY <1>3, ReceiveInv
<1>4. CASE recv_dcc_file_crash(s)
  BY <1>4, NoCrash
<1>5. CASE send_current_file_offset_to_sender(s)
  <2>1. Receiving(s) /\ busy = 0 /\ UNCHANGED <<resume, sent>>
    BY <1>5 DEF send_current_file_offset_to_sender, Receiving, Idle
  <2>2. PICK st \in {"CONNECTED", "REMOVED"} : SetState(s, st)
    BY <1>5 DEF send_current_file_offset_to_sender, libirc_dcc_destroy_nolock
  <2>3. acked' = [acked EXCEPT ![s] = file_confirm_offset[s] % AckMod]
    BY <1>5 DEF send_current_file_offset_to_sender
  <2>4. file_confirm_offset[s] = sent[s]
    BY <1>0, <2>1 DEF Consistent, Agrees
  <2>5. acked'[s] = sent[s] % AckMod /\ \A t \in Ids \ {s} : acked'[t] = acked[t]
    BY <1>0, <2>3, <2>4 DEF TypeOK, BotTypes
  <2> QED
    BY <1>0, <2>1, <2>2, <2>5, SetStateInv
<1>6. CASE send_offset_failed(s)
  <2>1. run' # "crashed"
    BY <1>0, <1>6 DEF send_offset_failed
  <2>2. UNCHANGED <<session, busy, context, disk, resume, sent, acked>>
    BY <1>6 DEF send_offset_failed, client
  <2> QED
    BY <2>1, <2>2, QuietInv
<1> QED
  BY <1>1, <1>2, <1>3, <1>4, <1>5, <1>6 DEF libirc_dcc_process_descriptors

-----------------------------------------------------------------------------
(* A resume that is accepted.                                               *)

\* An accepted resume starts the three counts at the length of the file.
LEMMA ResumedInv ==
  ASSUME RunInv, TypeOK', run' # "crashed", NEW s \in Ids, Waiting(s), BotAnswers(s),
         callback_dcc_resume_file(s, resume[s]),
         NEW st \in {"CONNECTED", "CONNECTING", "INIT_PASSIVE", "REMOVED", "INIT"},
         st = "CONNECTED" => kind[s] = "ssend",
         state' = [state EXCEPT ![s] = st],
         UNCHANGED <<kind, port, file, lastId, busy, fd, mode, completeFileSize, disk>>
  PROVE  RunInv'
<1>1. TypeOK /\ Consistent(s) /\ Fresh(s) /\ Waits(s)
  BY DEF RunInv, Consistent
<1>2. /\ fd[s] = "open" /\ mode[s] = "a" /\ resume[s] = len[file[s]]
      /\ completeFileSize[s] \in {0, FileLen[file[s]]}
  BY <1>1 DEF Waits
<1>3. resume[s] \in Nat /\ file[s] \in Files /\ len[file[s]] <= FileLen[file[s]]
  BY <1>1 DEF BotAnswers, TypeOK, BotTypes, SessionTypes, RunInv, FilesIntact
<1>4. /\ state'[s] = st /\ sent'[s] = resume[s] /\ acked'[s] = resume[s] % AckMod
      /\ resume'[s] = None
  BY <1>1 DEF BotAnswers, TypeOK, SessionTypes, BotTypes
<1>5. file_confirm_offset'[s] = resume[s] /\ sizeRcvd'[s] = resume[s] /\ pos'[s] = resume[s]
  BY <1>1 DEF callback_dcc_resume_file, ResumedSize, TypeOK, SessionTypes, ContextTypes
<1>6. ASSUME NEW t \in Ids, t # s PROVE Consistent(t)'
  <2>1. Same(t)
    <3>1. /\ state'[t] = state[t] /\ file_confirm_offset'[t] = file_confirm_offset[t]
          /\ kind'[t] = kind[t] /\ port'[t] = port[t] /\ file'[t] = file[t]
      BY <1>1, <1>6 DEF callback_dcc_resume_file, TypeOK, SessionTypes
    <3>2. /\ fd'[t] = fd[t] /\ mode'[t] = mode[t] /\ pos'[t] = pos[t]
          /\ sizeRcvd'[t] = sizeRcvd[t] /\ completeFileSize'[t] = completeFileSize[t]
      BY <1>1, <1>6 DEF callback_dcc_resume_file, TypeOK, ContextTypes
    <3>3. resume'[t] = resume[t] /\ sent'[t] = sent[t] /\ acked'[t] = acked[t]
      BY <1>1, <1>6 DEF BotAnswers, TypeOK, BotTypes
    <3> QED
      BY <3>1, <3>2, <3>3 DEF Same
  <2>2. lastId' \in Nat /\ lastId' >= lastId /\ len'[file[t]] = len[file[t]]
    BY <1>1 DEF TypeOK, SessionTypes, disk
  <2> QED
    BY <1>1, <2>1, <2>2, SameConsistent DEF RunInv
<1>7. Consistent(s)'
  <2>1. Fresh(s)'
    BY <1>1 DEF Fresh, Waiting
  <2>2. Agrees(s)'
    BY <1>2, <1>3, <1>4, <1>5 DEF Agrees
  <2>3. OnDisk(s)'
    BY <1>2, <1>4 DEF OnDisk, disk
  <2>4. Told(s)'
    BY <1>4 DEF Told
  <2>5. Waits(s)'
    BY <1>4 DEF Waits, Waiting
  <2> QED
    BY <2>1, <2>2, <2>3, <2>4, <2>5 DEF Consistent
<1>8. ASSUME NEW t \in Ids PROVE (Live(t)' => Live(t)) /\ ((t \in Listed)' => t \in Listed)
  BY <1>1, <1>4 DEF TypeOK, SessionTypes, Live, Receiving, Waiting, Listed
<1>9. \A t, u \in Ids : Apart(t, u)'
  BY <1>8, SameApart DEF RunInv
<1>10. FilesIntact' /\ FinishedIsWhole'
  BY SameFiles DEF RunInv
<1>11. NoWriteAfterClose' /\ BusyReceives'
  BY DEF NoWriteAfterClose, BusyReceives, BotAnswers, Idle
<1> QED
  BY <1>6, <1>7, <1>9, <1>10, <1>11 DEF RunInv

\* The port of a session that waits leads to that session: of the sessions on
\* the list that have it, it is the last that was made.
LEMMA PortFindsSession ==
  ASSUME RunInv, NEW s \in Ids, Waiting(s), kind[s] # "reverse"
  PROVE  libirc_find_dcc_session_by_port(port[s]) = s
<1> DEFINE S == {u \in Listed : port[u] = port[s]}
<1>1. port[s] # 0 /\ Live(s) /\ s \in S
  BY DEF RunInv, Consistent, Waits, Waiting, Live, Listed
<1>2. ASSUME NEW u \in S PROVE u <= s
  <2>1. u \in Ids /\ u \in Listed /\ port[u] = port[s]
    BY DEF Listed
  <2>2. Apart(s, u)
    BY <2>1 DEF RunInv
  <2> QED
    BY <1>1, <2>1, <2>2 DEF Apart
<1>3. S \subseteq Ids
  BY DEF Listed
<1>4. FirstOf(S) \in S /\ \A u \in S : u <= FirstOf(S)
  BY <1>1, <1>2 DEF FirstOf
<1>5. FirstOf(S) = s
  BY <1>1, <1>2, <1>3, <1>4
<1> QED
  BY <1>5 DEF libirc_find_dcc_session_by_port

\* A DCC ACCEPT reaches the session that asked (libirc_dcc_request), and keeps
\* the invariant.
LEMMA AcceptInv ==
  ASSUME RunInv, NEW s \in Ids, NEW t \in Ids, dcc_accept(s, t), TypeOK'
  PROVE  RunInv'
<1>1. BotAnswers(s) /\ kind[s] # "reverse" /\ t = libirc_find_dcc_session_by_port(port[s])
  BY DEF dcc_accept
<1>2. Waiting(s) /\ run # "crashed"
  BY <1>1 DEF BotAnswers, RunInv, Consistent, Waits, NoWriteAfterClose
<1>3. t = s
  BY <1>1, <1>2, PortFindsSession
<1>4. callback_dcc_resume_file(s, resume[s]) /\ run' # "crashed"
  BY <1>2, <1>3 DEF dcc_accept
<1>5. PICK st \in {"CONNECTED", "CONNECTING", "REMOVED", "INIT"} :
        state' = [state EXCEPT ![s] = st] /\ (st = "CONNECTED" => kind[s] = "ssend")
  BY <1>2, <1>3 DEF dcc_accept, AcceptedState, RefusedStates
<1>6. UNCHANGED <<kind, port, file, lastId, busy, fd, mode, completeFileSize, disk>>
  BY DEF dcc_accept
<1> QED
  BY <1>1, <1>2, <1>4, <1>5, <1>6, ResumedInv

\* So does the DCC ACCEPT of a passive session.
LEMMA AcceptPassiveInv ==
  ASSUME RunInv, NEW s \in Ids, dcc_accept_reverse(s), TypeOK'
  PROVE  RunInv'
<1>1. /\ BotAnswers(s) /\ Waiting(s) /\ callback_dcc_resume_file(s, resume[s]) /\ run' # "crashed"
      /\ state' = [state EXCEPT ![s] = "INIT_PASSIVE"]
      /\ UNCHANGED <<kind, port, file, lastId, busy, fd, mode, completeFileSize, disk>>
  BY DEF dcc_accept_reverse
<1> QED
  BY <1>1, ResumedInv

-----------------------------------------------------------------------------
(* A new session.                                                           *)

\* A new session that is consistent keeps the others consistent and apart.
LEMMA NewSessionInv ==
  ASSUME RunInv, TypeOK', ~PortsShared, run' # "crashed", NEW s \in Ids, s = lastId + 1, busy = 0,
         NEW st, NEW k, NEW p, NEW f \in Files, NEW size, BotOffers(f, p),
         libirc_new_dcc_session(s, st, k, p, f, size), Consistent(s)', fd'[s] # "null",
         \A t \in Ids \ {s} :
           /\ fd'[t] = fd[t] /\ mode'[t] = mode[t] /\ pos'[t] = pos[t]
           /\ sizeRcvd'[t] = sizeRcvd[t] /\ completeFileSize'[t] = completeFileSize[t]
           /\ resume'[t] = resume[t],
         UNCHANGED <<busy, sent, acked, damaged>>,
         \/ len' = len
         \/ len[f] = Absent /\ len' = [len EXCEPT ![f] = 0]
  PROVE  RunInv'
<1>1. TypeOK /\ lastId \in Nat /\ lastId' = lastId + 1
  <2>1. TypeOK
    BY DEF RunInv
  <2>2. lastId \in Nat
    BY <2>1 DEF TypeOK, SessionTypes
  <2>3. lastId' = lastId + 1
    BY DEF libirc_new_dcc_session
  <2> QED
    BY <2>1, <2>2, <2>3
<1>2. /\ file'[s] = f /\ port'[s] = p
      /\ \A t \in Ids \ {s} : /\ state'[t] = state[t] /\ kind'[t] = kind[t] /\ port'[t] = port[t]
                              /\ file'[t] = file[t]
                              /\ file_confirm_offset'[t] = file_confirm_offset[t]
  BY <1>1 DEF libirc_new_dcc_session, TypeOK, SessionTypes
<1>3. \A g \in Files : g # f \/ len[f] # Absent => len'[g] = len[g]
  BY <1>1 DEF TypeOK, DiskTypes
<1>4. ASSUME NEW t \in Ids, t # s PROVE Consistent(t)'
  <2>1. Same(t)
    BY <1>2, <1>4 DEF Same
  <2>2. Live(t) => len'[file[t]] = len[file[t]]
    BY <1>1, <1>3 DEF BotOffers, TypeOK, SessionTypes
  <2>3. lastId' \in Nat /\ lastId' >= lastId
    BY <1>1
  <2> QED
    BY <1>1, <2>1, <2>2, <2>3, SameConsistent DEF RunInv
<1>5. ASSUME NEW t \in Ids, NEW u \in Ids PROVE Apart(t, u)'
  <2>1. \A w \in Ids \ {s} : /\ Live(w)' => Live(w)
                             /\ (w \in Listed)' => w \in Listed
                             /\ w \in Listed => w < s
    <3> SUFFICES ASSUME NEW w \in Ids \ {s}
                 PROVE  (Live(w)' => Live(w)) /\ ((w \in Listed)' => w \in Listed)
                        /\ (w \in Listed => w < s)
      OBVIOUS
    <3>1. Fresh(w)
      BY DEF RunInv, Consistent
    <3>2. w \in Listed => w < s
      BY <1>1, <3>1 DEF Fresh, Listed
    <3> QED
      BY <1>2, <3>2 DEF Live, Receiving, Waiting, Listed
  <2>2. CASE t # s /\ u # s
    BY <1>2, <2>1, <2>2 DEF RunInv, Apart
  <2>3. CASE t = s
    BY <1>2, <2>1, <2>3 DEF Apart, BotOffers
  <2>4. CASE t # s /\ u = s
    BY <1>2, <2>1, <2>4 DEF Apart, BotOffers
  <2> QED
    BY <2>2, <2>3, <2>4
<1>6. FilesIntact'
  BY <1>1, <1>3 DEF RunInv, FilesIntact, TypeOK, DiskTypes
<1>7. FinishedIsWhole'
  <2> SUFFICES ASSUME NEW t \in Ids, fd'[t] = "null" PROVE len'[file'[t]] = FileLen[file'[t]]
    BY DEF FinishedIsWhole
  <2>1. t # s /\ fd[t] = "null" /\ file'[t] = file[t] /\ file[t] \in Files
    BY <1>1, <1>2 DEF TypeOK, SessionTypes
  <2>2. len[file[t]] = FileLen[file[t]] /\ len[file[t]] # Absent
    BY <2>1 DEF RunInv, FinishedIsWhole
  <2> QED
    BY <1>3, <2>1, <2>2
<1>8. NoWriteAfterClose' /\ BusyReceives'
  BY DEF NoWriteAfterClose, BusyReceives
<1> QED
  BY <1>4, <1>5, <1>6, <1>7, <1>8 DEF RunInv

\* What prepareRecvFileRequest makes, for the session and for the others.
LEMMA PrepareEffect ==
  ASSUME TypeOK, NEW s \in Ids, NEW f \in Files, NEW size, prepareRecvFileRequest(s, f, size)
  PROVE  /\ fd'[s] = "open" /\ pos'[s] = 0 /\ sizeRcvd'[s] = 0 /\ completeFileSize'[s] = size
         /\ mode'[s] = IF len[f] = Absent THEN "w" ELSE "a"
         /\ \A t \in Ids \ {s} :
              /\ fd'[t] = fd[t] /\ mode'[t] = mode[t] /\ pos'[t] = pos[t]
              /\ sizeRcvd'[t] = sizeRcvd[t] /\ completeFileSize'[t] = completeFileSize[t]
         /\ \/ len' = len /\ len[f] # Absent
            \/ len[f] = Absent /\ len' = [len EXCEPT ![f] = 0] /\ len'[f] = 0
         /\ damaged' = damaged
<1>1. /\ fd'[s] = "open" /\ pos'[s] = 0 /\ sizeRcvd'[s] = 0 /\ completeFileSize'[s] = size
      /\ mode'[s] = IF len[f] = Absent THEN "w" ELSE "a"
  BY DEF prepareRecvFileRequest, OpenPosition, TypeOK, ContextTypes
<1>2. ASSUME NEW t \in Ids \ {s}
      PROVE  /\ fd'[t] = fd[t] /\ mode'[t] = mode[t] /\ pos'[t] = pos[t]
             /\ sizeRcvd'[t] = sizeRcvd[t] /\ completeFileSize'[t] = completeFileSize[t]
  BY DEF prepareRecvFileRequest, TypeOK, ContextTypes
<1>3. \/ len' = len /\ len[f] # Absent
      \/ len[f] = Absent /\ len' = [len EXCEPT ![f] = 0] /\ len'[f] = 0
  BY DEF prepareRecvFileRequest, OpenLength, TypeOK, DiskTypes
<1> QED
  BY <1>1, <1>2, <1>3 DEF prepareRecvFileRequest

\* The three ways a request can go leave the new session consistent.
LEMMA NewConsistent ==
  ASSUME TypeOK, NEW s \in Ids, s = lastId + 1, Fresh(s), NEW f \in Files, len[f] <= FileLen[f],
         NEW size \in {0, FileLen[f]}, NEW offered, NEW k, NEW p,
         k # "reverse" => p # 0,
         NEW st \in {"INIT", "REMOVED", "WAITING_FOR_RESUME_ACK", "CONNECTED", "CONNECTING",
                     "INIT_PASSIVE"},
         libirc_new_dcc_session(s, st, k, p, f, offered), prepareRecvFileRequest(s, f, size),
         UNCHANGED <<sent, acked>>,
         st = "WAITING_FOR_RESUME_ACK" =>
           RequestChoice(f, size) = "resume" /\ resume'[s] = len[f],
         st # "WAITING_FOR_RESUME_ACK" => resume'[s] = resume[s],
         st \in {"CONNECTED", "CONNECTING", "INIT_PASSIVE"} => RequestChoice(f, size) = "accept",
         st = "CONNECTED" => k = "ssend"
  PROVE  Consistent(s)'
<1>1. /\ state'[s] = st /\ file'[s] = f /\ kind'[s] = k /\ port'[s] = p
      /\ file_confirm_offset'[s] = 0 /\ lastId' = s
  BY DEF libirc_new_dcc_session, TypeOK, SessionTypes
<1>2. sent'[s] = 0 /\ acked'[s] = 0 /\ resume[s] = None
  BY DEF Fresh, TypeOK, SessionTypes
<1>3. /\ fd'[s] = "open" /\ pos'[s] = 0 /\ sizeRcvd'[s] = 0 /\ completeFileSize'[s] = size
      /\ mode'[s] = IF len[f] = Absent THEN "w" ELSE "a"
      /\ \/ len' = len /\ len[f] # Absent
         \/ len[f] = Absent /\ len'[f] = 0
  BY PrepareEffect
<1>4. RequestChoice(f, size) = "accept" => len'[f] = 0
  BY <1>3 DEF RequestChoice
<1>5. RequestChoice(f, size) = "resume" => len[f] # Absent /\ len'[f] = len[f]
  BY <1>3 DEF RequestChoice
<1>6. Fresh(s)'
  BY <1>1 DEF Fresh
<1>7. Agrees(s)'
  BY <1>1, <1>2, <1>3 DEF Agrees, Receiving
<1>8. OnDisk(s)'
  BY <1>1, <1>2, <1>3, <1>4 DEF OnDisk, Receiving
<1>9. Told(s)'
  BY <1>1, <1>2 DEF Told
<1>10. Waits(s)'
  BY <1>1, <1>2, <1>3, <1>5 DEF Waits, Waiting
<1> QED
  BY <1>6, <1>7, <1>8, <1>9, <1>10 DEF Consistent

\* accept_dcc_send with recvFileRequest keeps the invariant.
LEMMA AcceptSendInv ==
  ASSUME RunInv, TypeOK', ~PortsShared, Idle, NEW s \in Ids, s = lastId + 1, NEW f \in Files,
         NEW k \in Kinds, NEW size \in {0, FileLen[f]}, NEW p \in Ports,
         accept_dcc_send(s, f, size, p, k)
  PROVE  RunInv'
<1>1. TypeOK /\ Fresh(s) /\ len[f] <= FileLen[f] /\ p # 0 /\ busy = 0 /\ run = "run"
  BY DEF RunInv, Consistent, FilesIntact, Idle
<1>2. /\ prepareRecvFileRequest(s, f, size) /\ BotOffers(f, p) /\ run' # "crashed"
      /\ UNCHANGED <<busy, sent, acked>>
  BY <1>1 DEF accept_dcc_send
<1>3. PICK st \in {"INIT", "REMOVED", "WAITING_FOR_RESUME_ACK", "CONNECTED", "CONNECTING"} :
        /\ libirc_new_dcc_session(s, st, k, p, f, size)
        /\ st = "WAITING_FOR_RESUME_ACK" =>
             RequestChoice(f, size) = "resume" /\ resume' = [resume EXCEPT ![s] = len[f]]
        /\ st # "WAITING_FOR_RESUME_ACK" => resume' = resume
        /\ st \in {"CONNECTED", "CONNECTING"} => RequestChoice(f, size) = "accept"
        /\ st = "CONNECTED" => k = "ssend"
  BY DEF accept_dcc_send, AcceptedState, RefusedStates
<1>4. /\ \A t \in Ids \ {s} : resume'[t] = resume[t]
      /\ st = "WAITING_FOR_RESUME_ACK" => resume'[s] = len[f]
  BY <1>1, <1>3 DEF TypeOK, BotTypes
<1>5. Consistent(s)'
  BY <1>1, <1>2, <1>3, <1>4, NewConsistent
<1>6. /\ fd'[s] # "null" /\ damaged' = damaged
      /\ \A t \in Ids \ {s} :
           /\ fd'[t] = fd[t] /\ mode'[t] = mode[t] /\ pos'[t] = pos[t]
           /\ sizeRcvd'[t] = sizeRcvd[t] /\ completeFileSize'[t] = completeFileSize[t]
           /\ resume'[t] = resume[t]
      /\ \/ len' = len
         \/ len[f] = Absent /\ len' = [len EXCEPT ![f] = 0]
  BY <1>1, <1>2, <1>4, PrepareEffect
<1> QED
  BY <1>1, <1>2, <1>3, <1>5, <1>6, NewSessionInv

\* accept_reverse_dcc_send with recvFileRequestReverse keeps the invariant.
LEMMA AcceptReverseInv ==
  ASSUME RunInv, TypeOK', ~PortsShared, Idle, NEW s \in Ids, s = lastId + 1, NEW f \in Files,
         NEW size \in {0, FileLen[f]}, accept_reverse_dcc_send(s, f, size)
  PROVE  RunInv'
<1>1. TypeOK /\ Fresh(s) /\ len[f] <= FileLen[f] /\ busy = 0 /\ run = "run"
  BY DEF RunInv, Consistent, FilesIntact, Idle
<1>2. /\ prepareRecvFileRequest(s, f, size) /\ BotOffers(f, 0) /\ run' # "crashed"
      /\ UNCHANGED <<busy, sent, acked>>
  BY <1>1 DEF accept_reverse_dcc_send
<1>3. PICK st \in {"INIT", "WAITING_FOR_RESUME_ACK", "INIT_PASSIVE"} :
        /\ libirc_new_dcc_session(s, st, "reverse", 0, f, 0)
        /\ st = "WAITING_FOR_RESUME_ACK" =>
             RequestChoice(f, size) = "resume" /\ resume' = [resume EXCEPT ![s] = len[f]]
        /\ st # "WAITING_FOR_RESUME_ACK" => resume' = resume
        /\ st = "INIT_PASSIVE" => RequestChoice(f, size) = "accept"
  BY DEF accept_reverse_dcc_send
<1>4. /\ \A t \in Ids \ {s} : resume'[t] = resume[t]
      /\ st = "WAITING_FOR_RESUME_ACK" => resume'[s] = len[f]
  BY <1>1, <1>3 DEF TypeOK, BotTypes
<1>5. Consistent(s)'
  BY <1>1, <1>2, <1>3, <1>4, NewConsistent
<1>6. /\ fd'[s] # "null" /\ damaged' = damaged
      /\ \A t \in Ids \ {s} :
           /\ fd'[t] = fd[t] /\ mode'[t] = mode[t] /\ pos'[t] = pos[t]
           /\ sizeRcvd'[t] = sizeRcvd[t] /\ completeFileSize'[t] = completeFileSize[t]
           /\ resume'[t] = resume[t]
      /\ \/ len' = len
         \/ len[f] = Absent /\ len' = [len EXCEPT ![f] = 0]
  BY <1>1, <1>2, <1>4, PrepareEffect
<1> QED
  BY <1>1, <1>2, <1>3, <1>5, <1>6, NewSessionInv

\* A passive offer that cannot be listened for keeps the invariant.
LEMMA ListenFailedInv ==
  ASSUME RunInv, TypeOK', ~PortsShared, Idle, NEW s \in Ids, s = lastId + 1, NEW f \in Files,
         reverse_listen_failed(s, f)
  PROVE  RunInv'
<1>1. TypeOK /\ Fresh(s) /\ busy = 0 /\ run = "run"
  BY DEF RunInv, Consistent, Idle
<1>2. /\ libirc_new_dcc_session(s, "INIT", "reverse", 0, f, 0) /\ BotOffers(f, 0)
      /\ UNCHANGED <<busy, run, context, disk, bot>>
  BY DEF reverse_listen_failed
<1>3. state'[s] = "INIT" /\ lastId' = s
  BY <1>1, <1>2 DEF libirc_new_dcc_session, TypeOK, SessionTypes
<1>4. fd[s] = "none" /\ resume[s] = None
  BY <1>1 DEF Fresh, TypeOK, SessionTypes
<1>5. Consistent(s)'
  BY <1>2, <1>3, <1>4 DEF Consistent, Fresh, Agrees, OnDisk, Told, Waits, Receiving, Waiting, bot
<1>6. /\ fd'[s] # "null" /\ UNCHANGED <<busy, sent, acked, damaged, len>>
      /\ \A t \in Ids \ {s} :
           /\ fd'[t] = fd[t] /\ mode'[t] = mode[t] /\ pos'[t] = pos[t]
           /\ sizeRcvd'[t] = sizeRcvd[t] /\ completeFileSize'[t] = completeFileSize[t]
           /\ resume'[t] = resume[t]
  BY <1>2, <1>4 DEF context, disk, bot
<1> QED
  BY <1>1, <1>2, <1>5, <1>6, NewSessionInv

-----------------------------------------------------------------------------
(* Start and restart.                                                       *)

\* The invariant holds when main() starts, with whatever an earlier run left.
LEMMA InitInv == Init => RunInv
<1> SUFFICES ASSUME Init PROVE RunInv
  OBVIOUS
<1>1. TypeOK
  BY InitTypes
<1>2. ASSUME NEW s \in Ids
      PROVE  state[s] = "FREE" /\ fd[s] = "none" /\ resume[s] = None /\ sent[s] = 0 /\ acked[s] = 0
  BY DEF Init
<1>3. \A s \in Ids : Consistent(s)
  BY <1>2 DEF Consistent, Fresh, Agrees, OnDisk, Told, Waits, Receiving, Waiting
<1>4. \A s, t \in Ids : Apart(s, t)
  BY <1>2 DEF Apart, Live, Receiving, Waiting
<1>5. FilesIntact /\ FinishedIsWhole /\ NoWriteAfterClose /\ BusyReceives
  BY <1>2 DEF Init, FilesIntact, FinishedIsWhole, NoWriteAfterClose, BusyReceives
<1> QED
  BY <1>1, <1>3, <1>4, <1>5 DEF RunInv

\* It holds again after a restart, which keeps only the files.
LEMMA RestartInv ==
  ASSUME FilesIntact, Restart, TypeOK'
  PROVE  RunInv'
<1>1. ASSUME NEW s \in Ids
      PROVE  /\ state'[s] = "FREE" /\ fd'[s] = "none" /\ resume'[s] = None
             /\ sent'[s] = 0 /\ acked'[s] = 0
  BY DEF Restart
<1>2. \A s \in Ids : Consistent(s)'
  BY <1>1 DEF Consistent, Fresh, Agrees, OnDisk, Told, Waits, Receiving, Waiting
<1>3. \A s, t \in Ids : Apart(s, t)'
  BY <1>1 DEF Apart, Live, Receiving, Waiting
<1>4. FilesIntact'
  BY DEF Restart, FilesIntact, disk
<1>5. FinishedIsWhole' /\ NoWriteAfterClose' /\ BusyReceives'
  BY <1>1 DEF Restart, FinishedIsWhole, NoWriteAfterClose, BusyReceives
<1> QED
  BY <1>2, <1>3, <1>4, <1>5 DEF RunInv

-----------------------------------------------------------------------------
(* The theorems.                                                            *)

\* Every step of a run keeps its invariant, but for a failed Write.
LEMMA StepInv ==
  ASSUME ~PortsShared, RunInv, Next, TypeOK'
  PROVE  \/ RunInv'
         \/ \E s \in Ids, n \in 1 .. Chunk : recv_dcc_file_write_failed(s, n)
<1>0. run # "crashed" /\ FilesIntact
  BY DEF RunInv, NoWriteAfterClose
<1>1. CASE dcc_send_request
  <2>1. PICK f \in Files, k \in Kinds : \E size \in OfferedSizes(f, k) :
          \/ \E p \in Ports : accept_dcc_send(lastId + 1, f, size, p, k)
          \/ reverse_listen_failed(lastId + 1, f)
          \/ accept_reverse_dcc_send(lastId + 1, f, size)
    BY <1>1 DEF dcc_send_request
  <2>2. PICK size \in OfferedSizes(f, k) :
          \/ \E p \in Ports : accept_dcc_send(lastId + 1, f, size, p, k)
          \/ reverse_listen_failed(lastId + 1, f)
          \/ accept_reverse_dcc_send(lastId + 1, f, size)
    BY <2>1
  <2>3. lastId + 1 \in Ids /\ Idle
    BY <1>1 DEF dcc_send_request, RunInv, TypeOK, SessionTypes
  <2>4. size \in {0, FileLen[f]}
    BY DEF OfferedSizes
  <2>5. ASSUME NEW p \in Ports, accept_dcc_send(lastId + 1, f, size, p, k) PROVE RunInv'
    BY <2>3, <2>4, <2>5, AcceptSendInv
  <2>6. CASE reverse_listen_failed(lastId + 1, f)
    BY <2>3, <2>6, ListenFailedInv
  <2>7. CASE accept_reverse_dcc_send(lastId + 1, f, size)
    BY <2>3, <2>4, <2>7, AcceptReverseInv
  <2> QED
    BY <2>2, <2>5, <2>6, <2>7
<1>2. CASE \E s, t \in Ids : dcc_accept(s, t)
  BY <1>2, AcceptInv
<1>3. CASE \E s \in Ids : dcc_accept_reverse(s)
  BY <1>3, AcceptPassiveInv
<1>4. CASE \E s \in Ids : libirc_dcc_process_descriptors(s)
  BY <1>4, HandlerInv
<1>5. CASE \/ \E s \in Ids : Environment(s)
           \/ containsIllegalChars \/ Disconnected \/ Killed \/ interrupt_handler \/ Stopped
  <2>1. /\ run' # "crashed"
        /\ UNCHANGED <<session, busy, context, disk, resume, sent, acked>>
    BY <1>0, <1>5 DEF Environment, Connects, Refused, BotDials, BotCloses, BotResets, SetLink,
       containsIllegalChars, Disconnected, Killed, interrupt_handler, Stopped, vars, client, bot
  <2> QED
    BY <2>1, QuietInv
<1>6. CASE libirc_dcc_add_descriptors
  BY <1>6, FreeInv
<1>7. CASE Restart
  BY <1>0, <1>7, RestartInv
<1> QED
  BY <1>1, <1>2, <1>3, <1>4, <1>5, <1>6, <1>7 DEF Next

\* A failed Write leaves a prefix of the blocks in the file and ends the run.
LEMMA WriteFailedInv ==
  ASSUME RunInv, NEW s \in Ids, NEW n \in 1 .. Chunk, recv_dcc_file_write_failed(s, n), TypeOK'
  PROVE  FilesIntact' /\ FinishedIsWhole' /\ run' = "failed"
<1>1. Receiving(s) /\ fd[s] = "open" /\ run' = "failed" /\ UNCHANGED <<fd, file>>
  BY DEF recv_dcc_file_write_failed, Reads, Idle, RunInv, BusyReceives, Receiving
<1>2. CASE UNCHANGED <<len, damaged>>
  BY <1>1, <1>2 DEF RunInv, FilesIntact, FinishedIsWhole
<1>3. ASSUME NEW m \in 1 .. n - 1, Write(s, m)
      PROVE  FilesIntact' /\ FinishedIsWhole'
  <2>1. /\ m \in Nat \ {0} /\ file[s] \in Files /\ FileLen[file[s]] \in Nat /\ sent[s] \in Nat
        /\ sent[s] + m < FileLen[file[s]]
    <3>1. n \in Nat /\ m \in Nat \ {0} /\ m < n /\ file[s] \in Files /\ sent[s] \in Nat
      BY <1>3 DEF RunInv, TypeOK, SessionTypes, BotTypes
    <3>2. FileLen[file[s]] \in Nat
      BY <3>1
    <3>3. n <= FileLen[file[s]] - sent[s]
      BY DEF recv_dcc_file_write_failed, Remaining
    <3> QED
      BY <3>1, <3>2, <3>3
  <2>2. len[file[s]] = sent[s] /\ (mode[s] = "w" => pos[s] = sent[s])
    BY <1>1 DEF RunInv, Consistent, OnDisk
  <2>3. WriteAt(s) = sent[s]
    BY <2>2 DEF WriteAt, RunInv, TypeOK, ContextTypes
  <2>4. damaged' = damaged
    BY <1>3, <2>3 DEF Write
  <2>5. len' = [len EXCEPT ![file[s]] = IF sent[s] + m > len[file[s]] THEN sent[s] + m ELSE len[file[s]]]
    BY <1>3, <2>3 DEF Write
  <2>6. len' = [len EXCEPT ![file[s]] = sent[s] + m]
    <3>1. sent[s] + m > len[file[s]]
      BY <2>1, <2>2
    <3> QED
      BY <2>5, <3>1
  <2>7. FilesIntact'
    BY <2>1, <2>4, <2>6 DEF RunInv, FilesIntact, TypeOK, DiskTypes
  <2>8. ASSUME NEW t \in Ids, fd[t] = "null" PROVE len'[file[t]] = FileLen[file[t]]
    <3>1. len[file[t]] = FileLen[file[t]] /\ file[t] \in Files
      BY <2>8 DEF RunInv, FinishedIsWhole, TypeOK, SessionTypes
    <3>2. file[t] # file[s]
      BY <2>1, <2>2, <3>1
    <3> QED
      BY <2>6, <3>1, <3>2 DEF RunInv, TypeOK, DiskTypes
  <2>9. FinishedIsWhole'
    BY <1>1, <2>8 DEF FinishedIsWhole
  <2> QED
    BY <2>7, <2>9
<1> QED
  BY <1>1, <1>2, <1>3 DEF recv_dcc_file_write_failed

\* When the program has ended it can only be run again.
LEMMA EndedStep ==
  ASSUME IInv, [Next]_vars, TypeOK', run # "run"
  PROVE  UNCHANGED vars \/ Restart
  BY DEF Next, dcc_send_request, containsIllegalChars, dcc_accept, dcc_accept_reverse, BotAnswers,
     libirc_dcc_process_descriptors, handleConnectingState, handleInitPassiveState, recv_dcc_file,
     recv_dcc_file_write_failed, recv_dcc_file_crash, Reads, recv_dcc_failed, recv_wants_write,
     send_current_file_offset_to_sender, send_offset_failed, send_wants_read, Environment, Connects,
     Refused, BotDials, BotCloses, BotResets, SetLink, libirc_dcc_add_descriptors,
     interrupt_handler, Disconnected, Killed, Stopped, Idle

\* The invariant is inductive when the bots do not share ports.
LEMMA NextInv == ~PortsShared /\ IInv /\ [Next]_vars => IInv'
<1> SUFFICES ASSUME ~PortsShared, IInv, [Next]_vars PROVE IInv'
  OBVIOUS
<1>0. TypeOK' /\ FilesIntact
  BY NextTypes DEF IInv
<1>1. CASE UNCHANGED vars
  <2>1. UNCHANGED <<session, busy, context, disk, resume, sent, acked, run>>
    BY <1>1 DEF vars, client, bot
  <2>2. FilesIntact' /\ FinishedIsWhole' /\ NoWriteAfterClose'
    BY <2>1 DEF IInv, FilesIntact, FinishedIsWhole, NoWriteAfterClose, session, context, disk
  <2>3. run' = "run" => RunInv'
    BY <1>0, <2>1, QuietInv DEF IInv
  <2> QED
    BY <1>0, <2>2, <2>3 DEF IInv
<1>2. CASE Restart
  BY <1>0, <1>2, RestartInv DEF IInv, RunInv
<1>3. CASE run = "run" /\ ~UNCHANGED vars
  <2>1. CASE RunInv'
    BY <2>1 DEF IInv, RunInv
  <2>2. CASE \E s \in Ids, n \in 1 .. Chunk : recv_dcc_file_write_failed(s, n)
    BY <1>0, <1>3, <2>2, WriteFailedInv DEF IInv, NoWriteAfterClose
  <2> QED
    BY <1>0, <1>3, <2>1, <2>2, StepInv DEF IInv
<1>4. CASE run # "run" /\ ~UNCHANGED vars
  BY <1>0, <1>2, <1>4, EndedStep
<1> QED
  BY <1>1, <1>3, <1>4

\* It therefore holds in every reachable state.
LEMMA Invariance ==
  ASSUME ~PortsShared
  PROVE  Spec => []IInv
<1>1. Init => IInv
  BY InitInv DEF IInv, RunInv
<1>2. IInv /\ [Next]_vars => IInv'
  BY NextInv
<1> QED
  BY <1>1, <1>2, PTL DEF Spec

\* While a session receives, the acknowledged offset, the received size and what
\* the bot has sent are one number (dcc.c, callback_dcc_recv_file).
THEOREM Offsets ==
  ASSUME ~PortsShared
  PROVE  Spec => []OffsetsAgree
<1>1. IInv => OffsetsAgree
  BY DEF IInv, RunInv, Consistent, Agrees, OffsetsAgree
<1> QED
  BY <1>1, Invariance, PTL

\* Through resumes, failed writes, crashes and restarts, a file holds the bot's
\* blocks at the bot's positions, and nothing is written through a closed file
\* (callback_dcc_recv_file, Write).
THEOREM Intact ==
  ASSUME ~PortsShared
  PROVE  Spec => [](FilesIntact /\ NoWriteAfterClose)
<1>1. IInv => FilesIntact /\ NoWriteAfterClose
  BY DEF IInv
<1> QED
  BY <1>1, Invariance, PTL

\* A download that finishedDownloads counts is whole, whatever was resumed, torn
\* or killed before (callback_dcc_recv_file).
THEOREM Whole ==
  ASSUME ~PortsShared
  PROVE  Spec => []FinishedIsWhole
<1>1. IInv => FinishedIsWhole
  BY DEF IInv
<1> QED
  BY <1>1, Invariance, PTL

\* A session without TLS reads again only when the bot has been told of all it
\* has sent (send_current_file_offset_to_sender).
THEOREM Acknowledged ==
  ASSUME ~PortsShared
  PROVE  Spec => []AckCurrent
<1>1. IInv => AckCurrent
  BY DEF IInv, RunInv, Consistent, Told, AckCurrent
<1> QED
  BY <1>1, Invariance, PTL

-----------------------------------------------------------------------------
(* The counters.  The inductive invariant: ids that have not been given out *)
(* have no context, so that a new context is one that was not counted.      *)

Counted ==
  /\ TypeOK /\ CountersAgree
  /\ \A s \in Ids : s > lastId => fd[s] = "none"

\* The contexts are finitely many.
LEMMA FiniteContexts == IsFiniteSet(Created) /\ IsFiniteSet(Closed)
<1>1. IsFiniteSet(Ids)
  <2>1. 1 \in Int /\ MaxSessions \in Int
    OBVIOUS
  <2>2. IsFiniteSet(1 .. MaxSessions)
    BY <2>1, FS_Interval, Zenon
  <2> QED
    BY <2>2
<1>2. Created \subseteq Ids /\ Closed \subseteq Ids
  BY DEF Created, Closed
<1> QED
  BY <1>1, <1>2, FS_Subset

\* A step that changes no descriptor and no counter.
LEMMA SameCounted ==
  ASSUME Counted, TypeOK', UNCHANGED <<fd, numActive, finished>>, lastId' >= lastId
  PROVE  Counted'
<1>1. Created' = Created /\ Closed' = Closed
  BY DEF Created, Closed
<1>2. CountersAgree'
  BY <1>1 DEF Counted, CountersAgree
<1>3. \A s \in Ids : s > lastId' => fd'[s] = "none"
  BY DEF Counted, TypeOK, SessionTypes
<1> QED
  BY <1>2, <1>3 DEF Counted

\* A new context is counted in numActiveDownloads.
LEMMA PrepareCounted ==
  ASSUME Counted, TypeOK', NEW s \in Ids, s = lastId + 1, NEW f, NEW size,
         prepareRecvFileRequest(s, f, size), finished' = finished, lastId' = s
  PROVE  Counted'
<1>1. TypeOK /\ lastId \in Nat /\ fd[s] = "none"
  <2>1. lastId \in Nat
    BY DEF Counted, TypeOK, SessionTypes
  <2> QED
    BY <2>1 DEF Counted
<1>2. fd' = [fd EXCEPT ![s] = "open"] /\ numActive' = numActive + 1
  BY DEF prepareRecvFileRequest, ActiveAfter
<1>3. fd'[s] = "open" /\ \A t \in Ids \ {s} : fd'[t] = fd[t]
  BY <1>1, <1>2 DEF TypeOK, ContextTypes
<1>4. s \notin Created /\ Created' = Created \cup {s} /\ Closed' = Closed
  BY <1>1, <1>3 DEF Created, Closed
<1>5. Cardinality(Created') = Cardinality(Created) + 1
  BY <1>4, FiniteContexts, FS_AddElement
<1>6. CountersAgree'
  BY <1>2, <1>4, <1>5 DEF Counted, CountersAgree
<1>7. \A t \in Ids : t > lastId' => fd'[t] = "none"
  BY <1>1, <1>3 DEF Counted
<1> QED
  BY <1>6, <1>7 DEF Counted

\* Closing the file of a complete download counts it.
LEMMA ReceiveCounted ==
  ASSUME Counted, TypeOK', NEW s \in Ids, NEW n \in 1 .. Chunk, recv_dcc_file(s, n)
  PROVE  Counted'
<1>1. TypeOK /\ fd[s] = "open" /\ numActive' = numActive /\ lastId' = lastId
  BY DEF Counted, recv_dcc_file, callback_dcc_recv_file
<1>2. CASE Complete(s, sizeRcvd[s] + n)
  <2>1. fd' = [fd EXCEPT ![s] = "null"] /\ finished' = finished + 1
    BY <1>2 DEF recv_dcc_file, callback_dcc_recv_file
  <2>2. fd'[s] = "null" /\ \A t \in Ids \ {s} : fd'[t] = fd[t]
    BY <1>1, <2>1 DEF TypeOK, ContextTypes
  <2>3. s \notin Closed /\ Closed' = Closed \cup {s} /\ Created' = Created
    BY <1>1, <2>2 DEF Created, Closed
  <2>4. Cardinality(Closed') = Cardinality(Closed) + 1
    BY <2>3, FiniteContexts, FS_AddElement
  <2>5. CountersAgree'
    BY <1>1, <2>1, <2>3, <2>4 DEF Counted, CountersAgree
  <2>6. \A t \in Ids : t > lastId' => fd'[t] = "none"
    BY <1>1, <2>2 DEF Counted
  <2> QED
    BY <2>5, <2>6 DEF Counted
<1>3. CASE ~Complete(s, sizeRcvd[s] + n)
  <2>1. UNCHANGED <<fd, numActive, finished>>
    BY <1>1, <1>3 DEF recv_dcc_file, callback_dcc_recv_file
  <2>2. lastId' >= lastId
    BY <1>1 DEF TypeOK, SessionTypes
  <2> QED
    BY <2>1, <2>2, SameCounted
<1> QED
  BY <1>2, <1>3

\* No context and no count when main() starts.
LEMMA InitCounted == Init => Counted
<1> SUFFICES ASSUME Init PROVE Counted
  OBVIOUS
<1>1. Created = {} /\ Closed = {}
  BY DEF Init, Created, Closed
<1>2. CountersAgree
  BY <1>1, FS_EmptySet DEF Init, CountersAgree
<1> QED
  BY <1>2, InitTypes DEF Counted, Init

\* Nor after a restart.
LEMMA RestartCounted ==
  ASSUME Restart, TypeOK'
  PROVE  Counted'
<1>1. Created' = {} /\ Closed' = {}
  BY DEF Restart, Created, Closed
<1>2. CountersAgree'
  BY <1>1, FS_EmptySet DEF Restart, CountersAgree
<1> QED
  BY <1>2 DEF Counted, Restart

\* An offer makes a context for the next id, or none.
LEMMA RequestCounted ==
  ASSUME Counted, TypeOK', dcc_send_request
  PROVE  Counted'
<1>1. PICK f \in Files, k \in Kinds : \E size \in OfferedSizes(f, k) :
        \/ \E p \in Ports : accept_dcc_send(lastId + 1, f, size, p, k)
        \/ reverse_listen_failed(lastId + 1, f)
        \/ accept_reverse_dcc_send(lastId + 1, f, size)
  BY DEF dcc_send_request
<1>2. PICK size \in OfferedSizes(f, k) :
        \/ \E p \in Ports : accept_dcc_send(lastId + 1, f, size, p, k)
        \/ reverse_listen_failed(lastId + 1, f)
        \/ accept_reverse_dcc_send(lastId + 1, f, size)
  BY <1>1
<1>3. lastId + 1 \in Ids /\ lastId \in Nat
  BY DEF dcc_send_request, Counted, TypeOK, SessionTypes
<1>4. CASE reverse_listen_failed(lastId + 1, f)
  <2>1. UNCHANGED <<fd, numActive, finished>> /\ lastId' >= lastId
    BY <1>3, <1>4 DEF reverse_listen_failed, libirc_new_dcc_session, context, counters
  <2> QED
    BY <2>1, SameCounted
<1>5. CASE ~reverse_listen_failed(lastId + 1, f)
  <2>1. prepareRecvFileRequest(lastId + 1, f, size) /\ finished' = finished /\ lastId' = lastId + 1
    BY <1>2, <1>5 DEF accept_dcc_send, accept_reverse_dcc_send, libirc_new_dcc_session
  <2> QED
    BY <1>3, <2>1, PrepareCounted
<1> QED
  BY <1>4, <1>5

\* Every step keeps the counters right.
LEMMA NextCounted == Counted /\ [Next]_vars => Counted'
<1> SUFFICES ASSUME Counted, [Next]_vars PROVE Counted'
  OBVIOUS
<1>0. TypeOK' /\ lastId \in Nat
  BY NextTypes DEF Counted, TypeOK, SessionTypes
<1>1. CASE dcc_send_request
  BY <1>0, <1>1, RequestCounted
<1>2. CASE \E s \in Ids, n \in 1 .. Chunk : recv_dcc_file(s, n)
  BY <1>0, <1>2, ReceiveCounted
<1>3. CASE Restart
  BY <1>0, <1>3, RestartCounted
<1>4. CASE /\ ~dcc_send_request /\ ~Restart
           /\ \A s \in Ids, n \in 1 .. Chunk : ~recv_dcc_file(s, n)
  <2>1. UNCHANGED <<fd, numActive, finished, lastId>>
    <3>1. CASE \/ \E s, t \in Ids : dcc_accept(s, t)
               \/ \E s \in Ids : dcc_accept_reverse(s)
      BY <3>1 DEF dcc_accept, dcc_accept_reverse, counters
    <3>2. CASE \E s \in Ids : libirc_dcc_process_descriptors(s)
      BY <1>4, <3>2 DEF libirc_dcc_process_descriptors, handleConnectingState,
         handleInitPassiveState, recv_dcc_file_write_failed, recv_dcc_file_crash, recv_dcc_failed, recv_wants_write,
         send_current_file_offset_to_sender, send_offset_failed, send_wants_read,
         libirc_dcc_destroy_nolock, SetState, client, session, context, counters
    <3>3. CASE \/ \E s \in Ids : Environment(s)
               \/ containsIllegalChars \/ Disconnected \/ Killed \/ interrupt_handler
               \/ libirc_dcc_add_descriptors \/ Stopped \/ UNCHANGED vars
      BY <3>3 DEF Environment, Connects, Refused, BotDials, BotCloses, BotResets, SetLink,
         containsIllegalChars, Disconnected, Killed, interrupt_handler,
         libirc_dcc_add_descriptors, Stopped, vars, client, session, context, counters
    <3> QED
      BY <1>4, <3>1, <3>2, <3>3 DEF Next
  <2> QED
    BY <1>0, <2>1, SameCounted
<1> QED
  BY <1>1, <1>2, <1>3, <1>4

-----------------------------------------------------------------------------
(* The counters.                                                            *)

\* They are right in every reachable state.
LEMMA CountedAlways == Spec => []Counted
<1>1. Init => Counted
  BY InitCounted
<1>2. Counted /\ [Next]_vars => Counted'
  BY NextCounted
<1> QED
  BY <1>1, <1>2, PTL DEF Spec

\* numActiveDownloads counts the download contexts that were made, and
\* finishedDownloads those whose file was closed.
THEOREM Counters == Spec => []CountersAgree
<1>1. Counted => CountersAgree
  BY DEF Counted
<1> QED
  BY <1>1, CountedAlways, PTL

\* Only a received block raises finishedDownloads, and QUIT goes out with it when
\* the counters are equal: then every context that was made is closed.
LEMMA QuitStep ==
  ASSUME Counted, [Next]_vars, ~quit, quit', finished' # finished
  PROVE  \A s \in Created : fd'[s] = "null"
<1>0. TypeOK' /\ Counted'
  BY NextTypes, NextCounted DEF Counted
<1>1. PICK s \in Ids, n \in 1 .. Chunk : recv_dcc_file(s, n)
  <2> SUFFICES ASSUME \A s \in Ids, n \in 1 .. Chunk : ~recv_dcc_file(s, n) PROVE FALSE
    OBVIOUS
  <2>1. CASE dcc_send_request
    <3>1. ASSUME NEW s, NEW f, NEW size, NEW p, NEW k,
                 \/ accept_dcc_send(s, f, size, p, k)
                 \/ reverse_listen_failed(s, f)
                 \/ accept_reverse_dcc_send(s, f, size)
          PROVE  finished' = finished
      BY <3>1 DEF accept_dcc_send, reverse_listen_failed, accept_reverse_dcc_send, counters
    <3> QED
      BY <2>1, <3>1 DEF dcc_send_request
  <2>2. CASE \/ \E s, t \in Ids : dcc_accept(s, t)
             \/ \E s \in Ids : dcc_accept_reverse(s)
    BY <2>2 DEF dcc_accept, dcc_accept_reverse, counters
  <2>3. CASE \E s \in Ids : libirc_dcc_process_descriptors(s)
    BY <2>3 DEF libirc_dcc_process_descriptors, handleConnectingState,
       handleInitPassiveState, recv_dcc_file_write_failed, recv_dcc_file_crash, recv_dcc_failed, recv_wants_write,
       send_current_file_offset_to_sender, send_offset_failed, send_wants_read,
       libirc_dcc_destroy_nolock, SetState, client, counters
  <2>4. CASE \/ \E s \in Ids : Environment(s)
             \/ containsIllegalChars \/ Disconnected \/ Killed \/ interrupt_handler
             \/ libirc_dcc_add_descriptors \/ Stopped \/ UNCHANGED vars
    BY <2>4 DEF Environment, Connects, Refused, BotDials, BotCloses, BotResets, SetLink,
       containsIllegalChars, Disconnected, Killed, interrupt_handler,
       libirc_dcc_add_descriptors, Stopped, vars, client, counters
  <2>5. CASE Restart
    BY <2>5 DEF Restart
  <2> QED
    BY <2>1, <2>2, <2>3, <2>4, <2>5 DEF Next
<1>2. Complete(s, sizeRcvd[s] + n)
  BY <1>1 DEF recv_dcc_file, callback_dcc_recv_file
<1>3. finished' = finished + 1 /\ numActive' = numActive /\ AllFinished(finished + 1)
      /\ fd' = [fd EXCEPT ![s] = "null"] /\ fd[s] = "open"
  BY <1>1, <1>2 DEF recv_dcc_file, callback_dcc_recv_file, QuitSent
<1>4. Closed' \subseteq Created' /\ Created' = Created
  BY <1>3 DEF Closed, Created, Counted, TypeOK, ContextTypes
<1>5. Cardinality(Closed') = Cardinality(Created')
  BY <1>0, <1>3 DEF Counted, CountersAgree, AllFinished
<1>6. IsFiniteSet(Created')
  BY <1>4, FiniteContexts
<1>7. Closed' = Created'
  BY <1>4, <1>5, <1>6, FS_Subset
<1> QED
  BY <1>4, <1>7 DEF Closed

\* The program sends QUIT of its own accord only when every download it has
\* begun is received and closed (callback_dcc_recv_file).
THEOREM Quits == Spec => QuitWhenAllFinished
<1>1. Counted /\ [Next]_vars =>
        [(~quit /\ quit' /\ finished' # finished) => \A s \in Created : fd'[s] = "null"]_vars
  BY QuitStep
<1> QED
  BY <1>1, CountedAlways, PTL DEF Spec, QuitWhenAllFinished
-----------------------------------------------------------------------------
(* The disk and the finished downloads implement Transfer.                  *)

Held == [f \in Files |-> IF f \in damaged THEN Spoilt ELSE len[f]]
Done == {file[s] : s \in Closed}

\* Files that are intact are their lengths.
LEMMA HeldIsLength ==
  ASSUME DiskTypes, FilesIntact
  PROVE  Held = len
  BY DEF DiskTypes, FilesIntact, Held

\* What Transfer allows, in terms of the lengths and of the finished files.
Allowed ==
  \/ UNCHANGED <<len, Done>>
  \/ len' = len /\ Done' = {}
  \/ \E f \in Files :
       \/ len[f] = Absent /\ len' = [len EXCEPT ![f] = 0] /\ Done' = Done
       \/ \E n \in 1 .. FileLen[f] :
            /\ len[f] >= 0 /\ len' = [len EXCEPT ![f] = len[f] + n]
            /\ \/ len[f] + n <= FileLen[f] /\ Done' = Done
               \/ len[f] + n = FileLen[f] /\ Done' = Done \cup {f}

\* Steps that leave the files and the descriptors of all sessions alone.
LEMMA SameDone ==
  ASSUME UNCHANGED <<len, fd, file>>
  PROVE  Allowed
  BY DEF Allowed, Done, Closed

\* A new session, whose id has not been given out, finishes nothing.
LEMMA NewDone ==
  ASSUME TypeOK, NEW s \in Ids, fd[s] = "none", fd'[s] # "null",
         \A t \in Ids \ {s} : fd'[t] = fd[t] /\ file'[t] = file[t]
  PROVE  Done' = Done
<1>1. Closed' = Closed /\ s \notin Closed
  BY DEF Closed
<1> QED
  BY <1>1 DEF Done, Closed

\* An offer creates its file or finds it as it is.
LEMMA RequestAllowed ==
  ASSUME RunInv, dcc_send_request
  PROVE  Allowed
<1>1. PICK f \in Files, k \in Kinds : \E size \in OfferedSizes(f, k) :
        \/ \E p \in Ports : accept_dcc_send(lastId + 1, f, size, p, k)
        \/ reverse_listen_failed(lastId + 1, f)
        \/ accept_reverse_dcc_send(lastId + 1, f, size)
  BY DEF dcc_send_request
<1>2. PICK size \in OfferedSizes(f, k) :
        \/ \E p \in Ports : accept_dcc_send(lastId + 1, f, size, p, k)
        \/ reverse_listen_failed(lastId + 1, f)
        \/ accept_reverse_dcc_send(lastId + 1, f, size)
  BY <1>1
<1>3. lastId + 1 \in Ids /\ lastId \in Nat /\ TypeOK
  BY DEF dcc_send_request, RunInv, TypeOK, SessionTypes
<1>4. fd[lastId + 1] = "none"
  BY <1>3 DEF RunInv, Consistent, Fresh
<1>5. file' = [file EXCEPT ![lastId + 1] = f]
  BY <1>2 DEF accept_dcc_send, accept_reverse_dcc_send, reverse_listen_failed,
     libirc_new_dcc_session
<1>6. \A t \in Ids \ {lastId + 1} : file'[t] = file[t]
  BY <1>3, <1>5 DEF TypeOK, SessionTypes
<1>7. CASE reverse_listen_failed(lastId + 1, f)
  <2>1. len' = len /\ fd' = fd
    BY <1>7 DEF reverse_listen_failed, context, disk
  <2>2. Done' = Done
    BY <1>3, <1>4, <1>6, <2>1, NewDone
  <2> QED
    BY <2>1, <2>2 DEF Allowed
<1>8. CASE ~reverse_listen_failed(lastId + 1, f)
  <2>1. prepareRecvFileRequest(lastId + 1, f, size)
    BY <1>2, <1>8 DEF accept_dcc_send, accept_reverse_dcc_send
  <2>2. /\ fd'[lastId + 1] = "open" /\ \A t \in Ids \ {lastId + 1} : fd'[t] = fd[t]
        /\ \/ len' = len
           \/ len[f] = Absent /\ len' = [len EXCEPT ![f] = 0]
    BY <1>3, <2>1, PrepareEffect
  <2>3. Done' = Done
    BY <1>3, <1>4, <1>6, <2>2, NewDone
  <2> QED
    BY <2>2, <2>3 DEF Allowed
<1> QED
  BY <1>7, <1>8

\* What the receiving session s has of its file, and what is left of it.
LEMMA AtItsEnd ==
  ASSUME RunInv, NEW s \in Ids, NEW n \in 1 .. Chunk,
         Reads(s), fd[s] = "open", n <= Remaining(s)
  PROVE  /\ file[s] \in Files /\ sent[s] \in Nat /\ n \in Nat \ {0}
         /\ FileLen[file[s]] \in Nat /\ sent[s] + n <= FileLen[file[s]]
         /\ len[file[s]] = sent[s] /\ sizeRcvd[s] = sent[s] /\ WriteAt(s) = sent[s]
         /\ completeFileSize[s] \in {0, FileLen[file[s]]}
<1>1. Receiving(s)
  BY DEF Reads, Idle, RunInv, BusyReceives, Receiving
<1>2. file[s] \in Files /\ sent[s] \in Nat /\ n \in Nat \ {0}
  BY DEF RunInv, TypeOK, SessionTypes, BotTypes
<1>3. FileLen[file[s]] \in Nat
  BY <1>2
<1>4. sent[s] + n <= FileLen[file[s]]
  BY <1>2, <1>3 DEF Remaining
<1>5. /\ sizeRcvd[s] = sent[s] /\ completeFileSize[s] \in {0, FileLen[file[s]]}
      /\ len[file[s]] = sent[s] /\ (mode[s] = "w" => pos[s] = sent[s])
  BY <1>1 DEF RunInv, Consistent, Agrees, OnDisk
<1>6. WriteAt(s) = sent[s]
  BY <1>5 DEF WriteAt, RunInv, TypeOK, ContextTypes
<1> QED
  BY <1>2, <1>3, <1>4, <1>5, <1>6

\* Blocks written at the end of the file lengthen it by their number.
LEMMA Lengthened ==
  ASSUME NEW s \in Ids, NEW m \in Nat \ {0}, Write(s, m),
         sent[s] \in Nat, len[file[s]] = sent[s], WriteAt(s) = sent[s]
  PROVE  len' = [len EXCEPT ![file[s]] = sent[s] + m]
<1>1. len' = [len EXCEPT ![file[s]] = IF sent[s] + m > len[file[s]] THEN sent[s] + m ELSE len[file[s]]]
  BY DEF Write
<1>2. sent[s] + m > len[file[s]]
  OBVIOUS
<1> QED
  BY <1>1, <1>2

\* Received blocks are the next ones, and the last ones when the file is closed.
LEMMA ReceiveAllowed ==
  ASSUME RunInv, NEW s \in Ids, NEW n \in 1 .. Chunk, recv_dcc_file(s, n)
  PROVE  Allowed
<1>1. Reads(s) /\ fd[s] = "open" /\ n <= Remaining(s) /\ Write(s, n) /\ file' = file
  BY DEF recv_dcc_file, callback_dcc_recv_file
<1>2. /\ file[s] \in Files /\ sent[s] \in Nat /\ n \in Nat \ {0}
      /\ FileLen[file[s]] \in Nat /\ sent[s] + n <= FileLen[file[s]]
      /\ len[file[s]] = sent[s] /\ sizeRcvd[s] = sent[s] /\ WriteAt(s) = sent[s]
      /\ completeFileSize[s] \in {0, FileLen[file[s]]}
  BY <1>1, AtItsEnd
<1>3. len' = [len EXCEPT ![file[s]] = sent[s] + n]
  BY <1>1, <1>2, Lengthened
<1>4. n \in 1 .. FileLen[file[s]] /\ len[file[s]] >= 0
  BY <1>2
<1>5. CASE Complete(s, sizeRcvd[s] + n)
  <2>1. sent[s] + n = FileLen[file[s]]
    BY <1>2, <1>5 DEF Complete
  <2>2. fd' = [fd EXCEPT ![s] = "null"]
    BY <1>5 DEF recv_dcc_file, callback_dcc_recv_file
  <2>3. Closed' = Closed \cup {s}
    BY <2>2 DEF Closed, RunInv, TypeOK, ContextTypes
  <2>4. Done' = Done \cup {file[s]}
    BY <1>1, <2>3 DEF Done
  <2> QED
    BY <1>2, <1>3, <1>4, <2>1, <2>4 DEF Allowed
<1>6. CASE ~Complete(s, sizeRcvd[s] + n)
  <2>1. fd' = fd
    BY <1>6 DEF recv_dcc_file, callback_dcc_recv_file
  <2>2. Done' = Done
    BY <1>1, <2>1 DEF Done, Closed
  <2> QED
    BY <1>2, <1>3, <1>4, <2>2 DEF Allowed
<1> QED
  BY <1>5, <1>6

\* A Write that fails leaves some of the next blocks, or none.
LEMMA WriteFailedAllowed ==
  ASSUME RunInv, NEW s \in Ids, NEW n \in 1 .. Chunk, recv_dcc_file_write_failed(s, n)
  PROVE  Allowed
<1>1. Reads(s) /\ fd[s] = "open" /\ n <= Remaining(s) /\ UNCHANGED <<fd, file>>
  BY DEF recv_dcc_file_write_failed
<1>2. /\ file[s] \in Files /\ sent[s] \in Nat /\ n \in Nat \ {0}
      /\ FileLen[file[s]] \in Nat /\ sent[s] + n <= FileLen[file[s]]
      /\ len[file[s]] = sent[s] /\ WriteAt(s) = sent[s]
  BY <1>1, AtItsEnd
<1>3. CASE UNCHANGED <<len, damaged>>
  BY <1>1, <1>3, SameDone
<1>4. ASSUME NEW m \in 1 .. n - 1, Write(s, m) PROVE Allowed
  <2>1. m \in Nat \ {0} /\ m < n
    BY <1>2
  <2>2. len' = [len EXCEPT ![file[s]] = sent[s] + m]
    BY <1>2, <1>4, <2>1, Lengthened
  <2>3. m \in 1 .. FileLen[file[s]] /\ len[file[s]] >= 0 /\ len[file[s]] + m <= FileLen[file[s]]
    BY <1>2, <2>1
  <2>4. Done' = Done
    BY <1>1 DEF Done, Closed
  <2> QED
    BY <1>2, <2>2, <2>3, <2>4 DEF Allowed
<1> QED
  BY <1>3, <1>4 DEF recv_dcc_file_write_failed

\* Every step of the program is one that Transfer allows.
LEMMA StepAllowed ==
  ASSUME IInv, [Next]_vars
  PROVE  Allowed
<1>1. CASE UNCHANGED vars
  <2>1. UNCHANGED <<len, fd, file>>
    BY <1>1 DEF vars, client, session, context, disk
  <2> QED
    BY <2>1, SameDone
<1>2. CASE Restart
  <2>1. len' = len /\ Closed' = {}
    BY <1>2 DEF Restart, disk, Closed
  <2> QED
    BY <2>1 DEF Allowed, Done
<1>3. CASE run # "run"
  BY <1>1, <1>2, <1>3, EndedStep, NextTypes DEF IInv
<1>4. CASE run = "run" /\ ~UNCHANGED vars /\ ~Restart
  <2>0. RunInv
    BY <1>4 DEF IInv
  <2>1. CASE dcc_send_request
    BY <2>0, <2>1, RequestAllowed
  <2>2. CASE \/ \E s, t \in Ids : dcc_accept(s, t)
             \/ \E s \in Ids : dcc_accept_reverse(s)
    BY <2>2, SameDone DEF dcc_accept, dcc_accept_reverse, disk
  <2>3. ASSUME NEW s \in Ids, libirc_dcc_process_descriptors(s) PROVE Allowed
    <3>1. CASE \E n \in 1 .. Chunk : recv_dcc_file(s, n)
      BY <2>0, <3>1, ReceiveAllowed
    <3>2. CASE \E n \in 1 .. Chunk : recv_dcc_file_write_failed(s, n)
      BY <2>0, <3>2, WriteFailedAllowed
    <3>3. CASE \/ handleConnectingState(s) \/ handleInitPassiveState(s)
               \/ recv_dcc_file_crash(s) \/ recv_dcc_failed(s) \/ recv_wants_write(s)
               \/ send_current_file_offset_to_sender(s) \/ send_offset_failed(s)
               \/ send_wants_read(s)
      <4>1. UNCHANGED <<len, fd, file>>
        BY <3>3 DEF handleConnectingState, handleInitPassiveState, recv_dcc_file_crash,
           recv_dcc_failed, recv_wants_write, send_current_file_offset_to_sender,
           send_offset_failed, send_wants_read, libirc_dcc_destroy_nolock, SetState,
           client, session, context, disk
      <4> QED
        BY <4>1, SameDone
    <3> QED
      BY <2>3, <3>1, <3>2, <3>3 DEF libirc_dcc_process_descriptors
  <2>4. CASE \/ \E s \in Ids : Environment(s)
             \/ containsIllegalChars \/ Disconnected \/ Killed \/ interrupt_handler
             \/ libirc_dcc_add_descriptors \/ Stopped
    <3>1. UNCHANGED <<len, fd, file>>
      BY <2>4 DEF Environment, Connects, Refused, BotDials, BotCloses, BotResets, SetLink,
         containsIllegalChars, Disconnected, Killed, interrupt_handler,
         libirc_dcc_add_descriptors, Stopped, vars, client, session, context, disk
    <3> QED
      BY <3>1, SameDone
  <2> QED
    BY <1>4, <2>1, <2>2, <2>3, <2>4 DEF Next
<1> QED
  BY <1>1, <1>2, <1>3, <1>4

\* What is allowed is a step of Transfer or changes neither of its variables.
LEMMA AllowedStep ==
  ASSUME Allowed, Held = len, Held' = len'
  PROVE  [T!Next]_(T!vars)
<1> USE DEF Absent, T!Absent
<1>1. CASE UNCHANGED <<len, Done>>
  BY <1>1 DEF T!vars, Held, Done
<1>2. CASE len' = len /\ Done' = {}
  <2>1. T!Restart
    BY <1>2 DEF T!Restart, Held, Done
  <2> QED
    BY <2>1 DEF T!Next
<1>3. ASSUME NEW f \in Files, len[f] = Absent, len' = [len EXCEPT ![f] = 0], Done' = Done
      PROVE  T!Next
  <2>1. T!Create(f)
    BY <1>3 DEF T!Create, Held, Done
  <2> QED
    BY <2>1 DEF T!Next
<1>4. ASSUME NEW f \in Files, NEW n \in 1 .. FileLen[f],
             len[f] >= 0, len' = [len EXCEPT ![f] = len[f] + n],
             len[f] + n <= FileLen[f], Done' = Done
      PROVE  T!Next
  <2>1. T!Receive(f, n)
    BY <1>4 DEF T!Receive, Held, Done
  <2> QED
    BY <2>1 DEF T!Next
<1>5. ASSUME NEW f \in Files, NEW n \in 1 .. FileLen[f],
             len[f] >= 0, len' = [len EXCEPT ![f] = len[f] + n],
             len[f] + n = FileLen[f], Done' = Done \cup {f}
      PROVE  T!Next
  <2>1. T!Finish(f, n)
    BY <1>5 DEF T!Finish, Held, Done
  <2> QED
    BY <2>1 DEF T!Next
<1> QED
  BY <1>1, <1>2, <1>3, <1>4, <1>5 DEF Allowed

\* Files found when the program starts, and none finished.
LEMMA InitTransfer == Init => T!Init
<1> SUFFICES ASSUME Init PROVE T!Init
  OBVIOUS
<1>1. DiskTypes /\ FilesIntact
  BY InitInv DEF RunInv, TypeOK
<1>2. Held = len
  BY <1>1, HeldIsLength
<1>3. Done = {}
  BY DEF Init, Done, Closed
<1>4. len \in [Files -> Nat \cup {T!Absent}] /\ \A f \in Files : len[f] <= FileLen[f]
  BY <1>1 DEF DiskTypes, FilesIntact, Absent, T!Absent
<1> QED
  BY <1>2, <1>3, <1>4 DEF T!Init, Held, Done

\* With bots that do not share ports the program implements Transfer: through
\* resumes, torn writes, lost connections, kills and restarts a file grows by
\* the bot's next blocks only, and finishedDownloads counts it with the last
\* of them (recvFileRequest, callback_dcc_recv_file).
THEOREM Transfers ==
  ASSUME ~PortsShared
  PROVE  Spec => IsTransfer
<1>1. IInv /\ IInv' /\ [Next]_vars => [T!Next]_(T!vars)
  <2> SUFFICES ASSUME IInv, IInv', [Next]_vars PROVE [T!Next]_(T!vars)
    OBVIOUS
  <2>1. Held = len
    BY HeldIsLength DEF IInv, TypeOK
  <2>2. Held' = len'
    <3>1. DiskTypes' /\ FilesIntact'
      BY DEF IInv, TypeOK
    <3> QED
      BY <3>1 DEF DiskTypes, FilesIntact, Held
  <2> QED
    BY <2>1, <2>2, StepAllowed, AllowedStep
<1> QED
  BY <1>1, Invariance, InitTransfer, PTL DEF Spec, IsTransfer, T!Spec

=============================================================================
