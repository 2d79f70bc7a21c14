------------------------------- MODULE WatchSet -------------------------------
(***************************************************************************)
(* What the main loop relies on when it waits for its sockets: in every    *)
(* round it names the descriptors and the events it is interested in,      *)
(* waits, and is then told exactly what the kernel has seen of them.       *)
(***************************************************************************)
CONSTANTS Fd   \* descriptors below nfiles

VARIABLES
  phase,     \* "idle", "collect" (after fdwatch_zero), "process" (after fdwatch)
  added,     \* descriptors added in this round
  interest,  \* events asked for
  kernel,    \* what the kernel saw: "r", "w" and "err"
  ready      \* what a check answers

vars == <<phase, added, interest, kernel, ready>>

RW == {"r", "w"}
Nothing == [fd \in Fd |-> {}]

Init ==
  /\ phase = "idle" /\ added = {}
  /\ interest = Nothing /\ kernel = Nothing /\ ready = Nothing

Zero ==
  /\ phase' = "collect" /\ added' = {}
  /\ interest' = Nothing /\ kernel' = Nothing /\ ready' = Nothing

Add(fd) ==
  /\ phase = "collect" /\ fd \notin added
  /\ added' = added \cup {fd}
  /\ UNCHANGED <<phase, interest, kernel, ready>>

Set(fd, rw) ==
  /\ phase = "collect" /\ fd \in added
  /\ interest' = [interest EXCEPT ![fd] = @ \cup {rw}]
  /\ UNCHANGED <<phase, added, kernel, ready>>

\* A descriptor in error may be reported as ready or not.
Watch ==
  /\ phase = "collect" /\ phase' = "process"
  /\ kernel' \in [Fd -> SUBSET (RW \cup {"err"})]
  /\ ready' \in [Fd -> SUBSET RW]
  /\ \A fd \in Fd : /\ ready'[fd] \subseteq interest[fd]
                    /\ "err" \in kernel'[fd] \/ ready'[fd] = interest[fd] \cap kernel'[fd]
  /\ UNCHANGED <<added, interest>>

\* fdwatch was interrupted: nothing is checked in this round.
Fail ==
  /\ phase = "collect" /\ phase' = "idle"
  /\ UNCHANGED <<added, interest, kernel, ready>>

Next ==
  \/ Zero \/ Watch \/ Fail
  \/ \E fd \in Fd : Add(fd) \/ \E rw \in RW : Set(fd, rw)

Spec == Init /\ [][Next]_vars
===============================================================================
