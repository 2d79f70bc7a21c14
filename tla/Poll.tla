--------------------------------- MODULE Poll ---------------------------------
(***************************************************************************)
(* fd_watcher.c when it is built with HAVE_POLL (Linux): the array of      *)
(* struct pollfd, the index from descriptors to its entries, and the       *)
(* rounds of irc_run and hasConnection that fill and read them.            *)
(*                                                                         *)
(* struct pollfd is kept as one array per field.  An action on a           *)
(* descriptor that is not in 0 .. nfiles - 1 changes nothing.              *)
(***************************************************************************)
EXTENDS Integers, FiniteSets

CONSTANTS nfiles   \* descriptors the process may have

ASSUME PollAssumption == nfiles \in Nat

VARIABLES
  phase,       \* where the caller is in its round
  npoll_fds,   \* entries in use
  fd_of,       \* pollfds[i].fd
  events,      \* pollfds[i].events
  revents,     \* pollfds[i].revents
  poll_fdidx,  \* descriptor -> entry, or -1
  kernel       \* what poll saw of every descriptor

pollVars == <<phase, npoll_fds, fd_of, events, revents, poll_fdidx, kernel>>

Slots == 0 .. nfiles - 1
Fd == Slots
RW == {"r", "w"}
All == RW \cup {"err"}

PollInit ==
  /\ phase = "idle" /\ npoll_fds = 0
  /\ fd_of = [i \in Slots |-> -1] /\ poll_fdidx = [i \in Fd |-> -1]
  /\ events = [i \in Slots |-> {}] /\ revents = [i \in Slots |-> {}]
  /\ kernel = [fd \in Fd |-> {}]

\* Descriptors of this round.
added == {fd_of[i] : i \in 0 .. npoll_fds - 1}

\* Mutant: the entries keep the events that were asked for.
poll_zero_out_Keeps(nf) ==
  /\ fd_of' = [i \in Slots |-> IF i < nf THEN -1 ELSE fd_of[i]]
  /\ poll_fdidx' = [i \in Slots |-> IF i < nf THEN -1 ELSE poll_fdidx[i]]
  /\ revents' = [i \in Slots |-> IF i < nf THEN {} ELSE revents[i]]
  /\ UNCHANGED events

\* poll_zero_out: poll_fdidx is cleared at the same places although its index
\* is a descriptor.
poll_zero_out(nf) ==
  /\ fd_of' = [i \in Slots |-> IF i < nf THEN -1 ELSE fd_of[i]]
  /\ poll_fdidx' = [i \in Slots |-> IF i < nf THEN -1 ELSE poll_fdidx[i]]
  /\ events' = [i \in Slots |-> IF i < nf THEN {} ELSE events[i]]
  /\ revents' = [i \in Slots |-> IF i < nf THEN {} ELSE revents[i]]

fdwatch_zero ==
  /\ poll_zero_out(npoll_fds)
  /\ npoll_fds' = 0
  /\ phase' = "collect"
  /\ kernel' = [fd \in Fd |-> {}]

\* The callers add every open socket once.
fdwatch_add_fd(fd) ==
  /\ phase = "collect" /\ fd \in Fd /\ fd \notin added
  /\ npoll_fds < nfiles
  /\ fd_of' = [fd_of EXCEPT ![npoll_fds] = fd]
  /\ poll_fdidx' = [poll_fdidx EXCEPT ![fd] = npoll_fds]
  /\ npoll_fds' = npoll_fds + 1
  /\ UNCHANGED <<phase, events, revents, kernel>>

\* The callers set events of descriptors they have added.
fdwatch_set_fd(fd, rw) ==
  /\ phase = "collect" /\ fd \in added
  /\ events' = [events EXCEPT ![poll_fdidx[fd]] = @ \cup {rw}]
  /\ UNCHANGED <<phase, npoll_fds, fd_of, revents, poll_fdidx, kernel>>

\* poll: an entry gets the events asked for that have happened, and errors.
fdwatch ==
  /\ phase = "collect" /\ phase' = "process"
  /\ kernel' \in [Fd -> SUBSET All]
  /\ \A fd \in Fd \ added : kernel'[fd] = {}
  /\ revents' = [i \in Slots |-> IF i < npoll_fds
                                 THEN kernel'[fd_of[i]] \cap (events[i] \cup {"err"})
                                 ELSE revents[i]]
  /\ UNCHANGED <<npoll_fds, fd_of, events, poll_fdidx>>

\* poll was interrupted; irc_run starts the next round.
fdwatch_fails ==
  /\ phase = "collect" /\ phase' = "idle"
  /\ UNCHANGED <<npoll_fds, fd_of, events, revents, poll_fdidx, kernel>>

\* Mutant: a descriptor in error is not left out.
poll_check_fd_Errors(fd, rw) ==
  poll_fdidx[fd] \in Slots /\ {rw, "err"} \cap revents[poll_fdidx[fd]] # {}

\* poll_check_fd.
poll_check_fd(fd, rw) ==
  LET fdidx == poll_fdidx[fd]
  IN  /\ fdidx \in Slots
      /\ "err" \notin revents[fdidx]
      /\ rw \in revents[fdidx]

PollNext ==
  \/ fdwatch_zero \/ fdwatch \/ fdwatch_fails
  \/ \E fd \in Fd : fdwatch_add_fd(fd) \/ \E rw \in RW : fdwatch_set_fd(fd, rw)

PollSpec == PollInit /\ [][PollNext]_pollVars

-----------------------------------------------------------------------------
(* Properties.                                                              *)

\* Every variable has its type.
TypeOK ==
  /\ phase \in {"idle", "collect", "process"} /\ npoll_fds \in 0 .. nfiles
  /\ fd_of \in [Slots -> Fd \cup {-1}] /\ poll_fdidx \in [Fd -> Slots \cup {-1}]
  /\ events \in [Slots -> SUBSET RW] /\ revents \in [Slots -> SUBSET All]
  /\ kernel \in [Fd -> SUBSET All]

\* The entries in use and the index agree: poll_add_fd, poll_set_fd and
\* poll_check_fd find the entry of the descriptor they are called with,
\* whatever stale indexes poll_zero leaves behind.
IndexAgrees ==
  \A i \in 0 .. npoll_fds - 1 : fd_of[i] \in Fd /\ poll_fdidx[fd_of[i]] = i

\* The entries that are not in use are blank, so that poll_add_fd, which sets
\* only the descriptor, does not inherit the events of an earlier round.
FreeBlank ==
  \A i \in npoll_fds .. nfiles - 1 :
    fd_of[i] = -1 /\ events[i] = {} /\ revents[i] = {}

\* What the checks answer about the descriptors of the round.  A descriptor that
\* was not added may have the stale index of an earlier round.
Answers(fd) ==
  IF phase = "process" /\ fd \in added
  THEN {rw \in RW : poll_check_fd(fd, rw)} ELSE {}
Interest(fd) == IF fd \in added THEN events[poll_fdidx[fd]] ELSE {}

\* fd_watcher.c with poll implements WatchSet.
W == INSTANCE WatchSet WITH
       Fd <- Fd, phase <- phase, added <- added, kernel <- kernel,
       interest <- [fd \in Fd |-> Interest(fd)], ready <- [fd \in Fd |-> Answers(fd)]
IsWatchSet == W!Spec
===============================================================================
