-------------------------------- MODULE Select --------------------------------
(***************************************************************************)
(* fd_watcher.c when it is built with HAVE_SELECT (Windows, FreeBSD): the  *)
(* master and working sets, and the greatest descriptor.                   *)
(*                                                                         *)
(* The order of select_fds and the index into it matter to fdwatch_del_fd  *)
(* only, which the program does not call: select_fds is a set, and         *)
(* nselect_fds its size.                                                   *)
(***************************************************************************)
EXTENDS Integers, FiniteSets

CONSTANTS nfiles   \* descriptors the process may have, at most FD_SETSIZE

VARIABLES
  phase,           \* where the caller is in its round
  added,           \* select_fds, the descriptors of this round
  master_rfdset, master_wfdset,
  working_rfdset, working_wfdset,
  maxfd,
  kernel           \* what select saw of every descriptor

sets == <<master_rfdset, master_wfdset, working_rfdset, working_wfdset>>
vars == <<phase, added, sets, maxfd, kernel>>

Fd == 0 .. nfiles - 1
RW == {"r", "w"}
All == RW \cup {"err"}

Init ==
  /\ phase = "idle" /\ added = {} /\ maxfd = -1
  /\ master_rfdset = {} /\ master_wfdset = {}
  /\ working_rfdset = {} /\ working_wfdset = {}
  /\ kernel = [fd \in Fd |-> {}]

\* select_zero: the working sets are left as they are.
fdwatch_zero ==
  /\ master_rfdset' = {} /\ master_wfdset' = {}
  /\ added' = {} /\ maxfd' = -1
  /\ phase' = "collect"
  /\ kernel' = [fd \in Fd |-> {}]
  /\ UNCHANGED <<working_rfdset, working_wfdset>>

\* The callers add every open socket once.
fdwatch_add_fd(fd) ==
  /\ phase = "collect" /\ fd \in Fd /\ fd \notin added
  /\ Cardinality(added) < nfiles
  /\ added' = added \cup {fd}
  /\ maxfd' = IF fd > maxfd THEN fd ELSE maxfd
  /\ UNCHANGED <<phase, sets, kernel>>

\* The callers set events of descriptors they have added.
fdwatch_set_fd(fd, rw) ==
  /\ phase = "collect" /\ fd \in added
  /\ master_rfdset' = IF rw = "r" THEN master_rfdset \cup {fd} ELSE master_rfdset
  /\ master_wfdset' = IF rw = "w" THEN master_wfdset \cup {fd} ELSE master_wfdset
  /\ UNCHANGED <<phase, added, working_rfdset,
                 working_wfdset, maxfd, kernel>>

\* Mutant: the greatest descriptor is left out.
Looked_Below == 0 .. maxfd - 1

\* The descriptors select looks at: nfds is maxfd + 1.
Looked == 0 .. maxfd

\* select: a descriptor in error is readable and writable.
fdwatch ==
  /\ phase = "collect" /\ phase' = "process"
  /\ kernel' \in [Fd -> SUBSET All]
  /\ \A fd \in Fd \ added : kernel'[fd] = {}
  /\ working_rfdset' = {fd \in master_rfdset \cap Looked : kernel'[fd] \cap {"r", "err"} # {}}
  /\ working_wfdset' = {fd \in master_wfdset \cap Looked : kernel'[fd] \cap {"w", "err"} # {}}
  /\ UNCHANGED <<added, master_rfdset, master_wfdset, maxfd>>

\* select was interrupted: the working sets are copies of the master sets;
\* irc_run starts the next round.
fdwatch_fails ==
  /\ phase = "collect" /\ phase' = "idle"
  /\ working_rfdset' = master_rfdset /\ working_wfdset' = master_wfdset
  /\ UNCHANGED <<added, master_rfdset, master_wfdset, maxfd, kernel>>

\* select_check_fd.
select_check_fd(fd, rw) ==
  IF rw = "r" THEN fd \in working_rfdset ELSE fd \in working_wfdset

Next ==
  \/ fdwatch_zero \/ fdwatch \/ fdwatch_fails
  \/ \E fd \in Fd : fdwatch_add_fd(fd) \/ \E rw \in RW : fdwatch_set_fd(fd, rw)

Spec == Init /\ [][Next]_vars

-----------------------------------------------------------------------------
(* Properties.                                                              *)

\* What the checks answer, about any descriptor.
Answers(fd) == IF phase = "process" THEN {rw \in RW : select_check_fd(fd, rw)} ELSE {}
Interest(fd) == (IF fd \in master_rfdset THEN {"r"} ELSE {})
                  \cup (IF fd \in master_wfdset THEN {"w"} ELSE {})

\* fd_watcher.c with select implements WatchSet, for descriptors that were not
\* added too.
W == INSTANCE WatchSet WITH
       Fd <- Fd, phase <- phase, added <- added, kernel <- kernel,
       interest <- [fd \in Fd |-> Interest(fd)], ready <- [fd \in Fd |-> Answers(fd)]
IsWatchSet == W!Spec
===============================================================================
