------------------------------- MODULE Watchers -------------------------------
(***************************************************************************)
(* The two builds of fd_watcher.c, poll (Poll) and select (Select), side   *)
(* by side: the same callers make the same calls, and the kernel shows     *)
(* both the same sockets.                                                  *)
(***************************************************************************)
EXTENDS Poll

VARIABLES
  master_rfdset, master_wfdset, working_rfdset, working_wfdset, maxfd  \* see Select

S == INSTANCE Select

both == <<pollVars, master_rfdset, master_wfdset, working_rfdset, working_wfdset, maxfd>>

BothInit == PollInit /\ S!Init

\* Bound: a socket in error is readable and writable too, as it is with TCP.
ErrorsAreBoth == \A fd \in Fd : "err" \in kernel'[fd] => RW \subseteq kernel'[fd]

BothNext ==
  \/ fdwatch_zero /\ S!fdwatch_zero
  \/ fdwatch /\ ErrorsAreBoth /\ S!fdwatch
  \/ fdwatch_fails /\ S!fdwatch_fails
  \/ \E fd \in Fd : fdwatch_add_fd(fd) /\ S!fdwatch_add_fd(fd)
  \/ \E fd \in Fd, rw \in RW : fdwatch_set_fd(fd, rw) /\ S!fdwatch_set_fd(fd, rw)

BothSpec == BothInit /\ [][BothNext]_both

-----------------------------------------------------------------------------
(* Properties, besides those of Poll.                                       *)

\* fd_watcher.c with select implements WatchSet, for descriptors that were not
\* added too.
SelectIsWatchSet == S!IsWatchSet

\* What fdwatch_check_fd answers in the two builds: the same, unless a socket is
\* in error.  Of such a socket poll denies everything and select grants
\* everything that was asked for.  The handlers of dcc.c and libircclient.c are
\* written for both; Dcc (Ready), Session (Seen) and Connect (Writable) rely on it.
AnswersByBuild ==
  phase = "process" =>
    \A fd \in added :
      LET seen == Interest(fd) \cap kernel[fd]
          err == "err" \in kernel[fd]
      IN  /\ Answers(fd) = IF err THEN {} ELSE seen
          /\ S!Answers(fd) = IF err THEN Interest(fd) ELSE seen
===============================================================================
