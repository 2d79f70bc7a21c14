---------------------------- MODULE WatcherProofs ----------------------------
(***************************************************************************)
(* For every number of descriptors: the poll table of fd_watcher.c keeps   *)
(* its index, and with it implements WatchSet for the descriptors that     *)
(* were added in the round; the build with select implements it for every  *)
(* descriptor; and the answers of the two differ exactly where a socket is *)
(* in error.                                                               *)
(***************************************************************************)
EXTENDS Watchers, TLAPS

-----------------------------------------------------------------------------
(* The poll table.                                                          *)

\* The inductive invariant: the entries in use are indexed and the free ones
\* are blank, so that an entry taken by poll_add_fd starts without events.
IInv == TypeOK /\ IndexAgrees /\ FreeBlank

\* The initial table is blank.
LEMMA InitInv == PollInit => IInv
  BY PollAssumption DEF PollInit, IInv, TypeOK, IndexAgrees, FreeBlank, Slots, Fd, All, RW

\* fdwatch_zero blanks the entries in use.
LEMMA ZeroInv == IInv /\ fdwatch_zero => IInv'
<1> SUFFICES ASSUME IInv, fdwatch_zero PROVE IInv'
  OBVIOUS
<1>1. TypeOK'
  BY PollAssumption DEF IInv, TypeOK, fdwatch_zero, poll_zero_out, Slots, Fd, All, RW
<1>2. IndexAgrees'
  BY DEF IInv, TypeOK, IndexAgrees, fdwatch_zero
<1>3. FreeBlank'
  BY PollAssumption DEF IInv, TypeOK, FreeBlank, fdwatch_zero, poll_zero_out, Slots
<1> QED
  BY <1>1, <1>2, <1>3 DEF IInv

\* fdwatch_add_fd indexes the entry it takes; the entries of the other
\* descriptors keep theirs, because fd is not among them.
LEMMA AddInv == ASSUME NEW fd, IInv, fdwatch_add_fd(fd) PROVE IInv'
<1>1. TypeOK'
  BY PollAssumption DEF IInv, TypeOK, fdwatch_add_fd, Slots, Fd, All, RW
<1>2. IndexAgrees'
  <2> SUFFICES ASSUME NEW i \in 0 .. npoll_fds' - 1
               PROVE fd_of'[i] \in Fd /\ poll_fdidx'[fd_of'[i]] = i
    BY DEF IndexAgrees
  <2>1. CASE i = npoll_fds
    BY <2>1, PollAssumption DEF IInv, TypeOK, fdwatch_add_fd, Slots, Fd
  <2>2. CASE i # npoll_fds
    <3>1. i \in 0 .. npoll_fds - 1 /\ fd_of'[i] = fd_of[i]
      BY <2>2, PollAssumption DEF IInv, TypeOK, fdwatch_add_fd, Slots
    <3>2. fd_of[i] # fd
      BY <3>1 DEF fdwatch_add_fd, added
    <3> QED
      BY <3>1, <3>2 DEF IInv, TypeOK, IndexAgrees, fdwatch_add_fd
  <2> QED
    BY <2>1, <2>2
<1>3. FreeBlank'
  BY PollAssumption DEF IInv, TypeOK, FreeBlank, fdwatch_add_fd, Slots
<1> QED
  BY <1>1, <1>2, <1>3 DEF IInv

\* fdwatch_set_fd changes an entry in use.
LEMMA SetInv == ASSUME NEW fd, NEW rw \in RW, IInv, fdwatch_set_fd(fd, rw) PROVE IInv'
<1>1. PICK i \in 0 .. npoll_fds - 1 : fd = fd_of[i]
  BY DEF fdwatch_set_fd, added
<1>2. poll_fdidx[fd] = i
  BY <1>1 DEF IInv, IndexAgrees
<1>3. TypeOK'
  BY <1>2, PollAssumption DEF IInv, TypeOK, fdwatch_set_fd, Slots
<1>4. IndexAgrees'
  BY DEF IInv, IndexAgrees, fdwatch_set_fd
<1>5. FreeBlank'
  BY <1>2, PollAssumption DEF IInv, TypeOK, FreeBlank, fdwatch_set_fd, Slots
<1> QED
  BY <1>3, <1>4, <1>5 DEF IInv

\* poll writes revents of the entries in use.
LEMMA WatchInv == IInv /\ fdwatch => IInv'
<1> SUFFICES ASSUME IInv, fdwatch PROVE IInv'
  OBVIOUS
<1>1. TypeOK'
  <2>1. ASSUME NEW i \in Slots, i < npoll_fds PROVE fd_of[i] \in Fd
    BY <2>1 DEF IInv, TypeOK, IndexAgrees, Slots
  <2> QED
    BY <2>1, PollAssumption DEF IInv, TypeOK, fdwatch, Slots, Fd, All
<1>2. IndexAgrees'
  BY DEF IInv, IndexAgrees, fdwatch
<1>3. FreeBlank'
  BY PollAssumption DEF IInv, TypeOK, FreeBlank, fdwatch, Slots
<1> QED
  BY <1>1, <1>2, <1>3 DEF IInv

\* Every step keeps the invariant.
LEMMA NextInv == IInv /\ [PollNext]_pollVars => IInv'
<1> SUFFICES ASSUME IInv, [PollNext]_pollVars PROVE IInv'
  OBVIOUS
<1>1. CASE fdwatch_zero
  BY <1>1, ZeroInv
<1>2. CASE fdwatch
  BY <1>2, WatchInv
<1>3. CASE fdwatch_fails \/ UNCHANGED pollVars
  BY <1>3 DEF IInv, TypeOK, IndexAgrees, FreeBlank, fdwatch_fails, pollVars
<1>4. CASE \E fd \in Fd : fdwatch_add_fd(fd)
  BY <1>4, AddInv
<1>5. CASE \E fd \in Fd, rw \in RW : fdwatch_set_fd(fd, rw)
  BY <1>5, SetInv
<1> QED
  BY <1>1, <1>2, <1>3, <1>4, <1>5 DEF PollNext

\* The index of poll_fdidx and the entries of pollfds agree in every round,
\* although poll_zero clears the index at the wrong places.
THEOREM Index == PollSpec => []IndexAgrees
<1>1. IInv => IndexAgrees
  BY DEF IInv
<1> QED
  BY <1>1, InitInv, NextInv, PTL DEF PollSpec

\* The free entries are blank in every round.
THEOREM Blank == PollSpec => []FreeBlank
<1>1. IInv => FreeBlank
  BY DEF IInv
<1> QED
  BY <1>1, InitInv, NextInv, PTL DEF PollSpec

-----------------------------------------------------------------------------
(* Refinement of WatchSet, when only descriptors of the round are checked.  *)

\* Outside "process" nothing is ready.
LEMMA NoAnswers == ASSUME phase # "process" PROVE [fd \in Fd |-> Answers(fd)] = W!Nothing
  BY DEF Answers, W!Nothing

\* An empty table is interested in nothing.
LEMMA NoInterest ==
  ASSUME npoll_fds = 0 PROVE added = {} /\ [fd \in Fd |-> Interest(fd)] = W!Nothing
<1>1. added = {}
  BY DEF added
<1> QED
  BY <1>1 DEF Interest, W!Nothing

\* The entry of a descriptor of the round.
LEMMA EntryOf ==
  ASSUME IInv, NEW fd \in added
  PROVE /\ poll_fdidx[fd] \in 0 .. npoll_fds - 1 /\ poll_fdidx[fd] \in Slots
        /\ fd_of[poll_fdidx[fd]] = fd /\ fd \in Fd
<1>1. PICK i \in 0 .. npoll_fds - 1 : fd = fd_of[i]
  BY DEF added
<1> QED
  BY <1>1, PollAssumption DEF IInv, IndexAgrees, TypeOK, Slots

\* The initial states are initial states of WatchSet.
LEMMA InitRefines == PollInit => W!Init
<1> SUFFICES ASSUME PollInit PROVE W!Init
  OBVIOUS
<1>1. phase = "idle" /\ npoll_fds = 0 /\ kernel = W!Nothing
  BY DEF PollInit, W!Nothing
<1> QED
  BY <1>1, NoAnswers, NoInterest DEF W!Init

\* fdwatch_zero is Zero.
LEMMA ZeroRefines == IInv /\ fdwatch_zero => W!Zero
<1> SUFFICES ASSUME IInv, fdwatch_zero PROVE W!Zero
  OBVIOUS
<1>1. phase' = "collect" /\ npoll_fds' = 0 /\ kernel' = W!Nothing
  BY DEF fdwatch_zero, W!Nothing
<1>2. added' = {}
  BY <1>1 DEF added
<1>3. [fd \in Fd |-> Interest(fd)]' = W!Nothing
  BY <1>2 DEF Interest, W!Nothing
<1>4. [fd \in Fd |-> Answers(fd)]' = W!Nothing
  BY <1>1 DEF Answers, W!Nothing
<1> QED
  BY <1>1, <1>2, <1>3, <1>4 DEF W!Zero

\* fdwatch_add_fd is Add: the entry it takes has no events.
LEMMA AddRefines ==
  ASSUME NEW fd \in Fd, IInv, IInv', fdwatch_add_fd(fd) PROVE W!Add(fd)
<1>1. phase = "collect" /\ phase' = "collect" /\ fd \notin added /\ kernel' = kernel
  BY DEF fdwatch_add_fd
<1>2. npoll_fds \in 0 .. nfiles - 1 /\ npoll_fds' = npoll_fds + 1
  BY PollAssumption DEF IInv, TypeOK, fdwatch_add_fd
<1>3. fd_of' = [fd_of EXCEPT ![npoll_fds] = fd] /\ poll_fdidx' = [poll_fdidx EXCEPT ![fd] = npoll_fds]
  BY DEF fdwatch_add_fd
<1>4. added' = added \cup {fd}
  <2>1. ASSUME NEW i \in 0 .. npoll_fds - 1 PROVE fd_of'[i] = fd_of[i]
    BY <1>2, <1>3, PollAssumption DEF IInv, TypeOK, Slots
  <2>2. fd_of'[npoll_fds] = fd
    BY <1>2, <1>3, PollAssumption DEF IInv, TypeOK, Slots
  <2>3. 0 .. npoll_fds' - 1 = (0 .. npoll_fds - 1) \cup {npoll_fds}
    BY <1>2, PollAssumption
  <2>4. added' = {fd_of'[i] : i \in (0 .. npoll_fds - 1) \cup {npoll_fds}}
    BY <2>3 DEF added
  <2>5. added' = {fd_of'[i] : i \in 0 .. npoll_fds - 1} \cup {fd}
    BY <2>2, <2>4
  <2>6. {fd_of'[i] : i \in 0 .. npoll_fds - 1} = added
    BY <2>1 DEF added
  <2> QED
    BY <2>5, <2>6
<1>5. events' = events
  BY DEF fdwatch_add_fd
<1>6. ASSUME NEW g \in Fd PROVE Interest(g)' = Interest(g)
  <2>1. CASE g = fd
    <3>1. Interest(g)' = events[npoll_fds]
      BY <1>3, <1>4, <1>5, <2>1 DEF Interest, IInv, TypeOK
    <3>2. events[npoll_fds] = {}
      BY <1>2, PollAssumption DEF IInv, FreeBlank
    <3> QED
      BY <3>1, <3>2, <2>1, <1>1 DEF Interest
  <2>2. CASE g # fd
    <3>1. g \in added' <=> g \in added
      BY <1>4, <2>2
    <3>2. poll_fdidx'[g] = poll_fdidx[g]
      BY <1>3, <2>2 DEF IInv, TypeOK
    <3> QED
      BY <3>1, <3>2, <1>5 DEF Interest
  <2> QED
    BY <2>1, <2>2
<1>7. [g \in Fd |-> Interest(g)]' = [g \in Fd |-> Interest(g)]
  BY <1>6
<1>8. [g \in Fd |-> Answers(g)]' = [g \in Fd |-> Answers(g)]
  BY <1>1 DEF Answers
<1> QED
  BY <1>1, <1>4, <1>7, <1>8 DEF W!Add

\* fdwatch_set_fd is Set: the index leads to the entry of fd and of no other
\* descriptor.
LEMMA SetRefines ==
  ASSUME NEW fd \in Fd, NEW rw \in RW, IInv, fdwatch_set_fd(fd, rw) PROVE W!Set(fd, rw)
<1>1. phase = "collect" /\ phase' = "collect" /\ fd \in added /\ kernel' = kernel
  BY DEF fdwatch_set_fd
<1>2. fd_of' = fd_of /\ poll_fdidx' = poll_fdidx /\ npoll_fds' = npoll_fds
  BY DEF fdwatch_set_fd
<1>3. added' = added
  BY <1>2 DEF added
<1>4. events' = [events EXCEPT ![poll_fdidx[fd]] = @ \cup {rw}]
  BY DEF fdwatch_set_fd
<1>5. ASSUME NEW g \in Fd
      PROVE Interest(g)' = IF g = fd THEN Interest(fd) \cup {rw} ELSE Interest(g)
  <2>1. CASE g \notin added
    BY <2>1, <1>1, <1>3 DEF Interest
  <2>2. CASE g \in added
    <3>1. Interest(g)' = events'[poll_fdidx[g]] /\ Interest(g) = events[poll_fdidx[g]]
      BY <2>2, <1>2, <1>3 DEF Interest
    <3>2. poll_fdidx[g] \in Slots /\ fd_of[poll_fdidx[g]] = g
      BY <2>2, EntryOf
    <3>3. poll_fdidx[fd] \in Slots /\ fd_of[poll_fdidx[fd]] = fd
      BY <1>1, EntryOf
    <3>4. events \in [Slots -> SUBSET RW]
      BY DEF IInv, TypeOK
    <3> QED
      BY <3>1, <3>2, <3>3, <3>4, <1>4
  <2> QED
    BY <2>1, <2>2
<1>6. [g \in Fd |-> Interest(g)]' = [[g \in Fd |-> Interest(g)] EXCEPT ![fd] = @ \cup {rw}]
  BY <1>5
<1>7. [g \in Fd |-> Answers(g)]' = [g \in Fd |-> Answers(g)]
  BY <1>1 DEF Answers
<1> QED
  BY <1>1, <1>3, <1>6, <1>7 DEF W!Set

\* fdwatch is Watch: the answer about a descriptor of the round is read from
\* the entry that poll filled for it.
LEMMA WatchRefines == ASSUME IInv, IInv', fdwatch PROVE W!Watch
<1>1. phase = "collect" /\ phase' = "process" /\ kernel' \in [Fd -> SUBSET All]
  BY DEF fdwatch
<1>2. fd_of' = fd_of /\ poll_fdidx' = poll_fdidx /\ npoll_fds' = npoll_fds /\ events' = events
  BY DEF fdwatch
<1>3. added' = added
  BY <1>2 DEF added
<1>4. [g \in Fd |-> Interest(g)]' = [g \in Fd |-> Interest(g)]
  BY <1>2, <1>3 DEF Interest
<1>5. ASSUME NEW g \in Fd
      PROVE /\ Answers(g)' \subseteq Interest(g)
            /\ "err" \in kernel'[g] \/ Answers(g)' = Interest(g) \cap kernel'[g]
  <2>1. CASE g \notin added
    BY <2>1, <1>3 DEF Answers, Interest
  <2>2. CASE g \in added
    <3> DEFINE i == poll_fdidx[g]
    <3>1. i \in Slots /\ i < npoll_fds /\ fd_of[i] = g
      BY <2>2, EntryOf, PollAssumption DEF IInv, TypeOK
    <3>2. revents'[i] = kernel'[g] \cap (events[i] \cup {"err"})
      BY <3>1 DEF fdwatch
    <3>3. events[i] \subseteq RW /\ Interest(g) = events[i]
      BY <2>2, <3>1 DEF Interest, IInv, TypeOK
    <3>4. Answers(g)' = {rw \in RW : poll_check_fd(g, rw)'}
      BY <2>2, <1>1, <1>3 DEF Answers
    <3>5. ASSUME NEW rw \in RW
          PROVE poll_check_fd(g, rw)' <=> ("err" \notin revents'[i] /\ rw \in revents'[i])
      BY <3>1, <1>2 DEF poll_check_fd
    <3>6. "err" \notin RW
      BY DEF RW
    <3> HIDE DEF i
    <3> QED
      BY <3>2, <3>3, <3>4, <3>5, <3>6
  <2> QED
    BY <2>1, <2>2
<1>6. [g \in Fd |-> Answers(g)]' \in [Fd -> SUBSET RW]
  BY DEF Answers
<1> QED
  BY <1>1, <1>3, <1>4, <1>5, <1>6 DEF W!Watch, W!RW, RW, All

\* Every step is a step of WatchSet or leaves its variables alone.
LEMMA NextRefines ==
  ASSUME IInv, IInv', [PollNext]_pollVars PROVE [W!Next]_(W!vars)
<1>1. CASE fdwatch_zero
  BY <1>1, ZeroRefines DEF W!Next
<1>2. CASE fdwatch
  BY <1>2, WatchRefines DEF W!Next
<1>3. CASE fdwatch_fails
  <2>1. phase = "collect" /\ phase' = "idle" /\ kernel' = kernel
    BY <1>3 DEF fdwatch_fails
  <2>2. npoll_fds' = npoll_fds /\ fd_of' = fd_of /\ poll_fdidx' = poll_fdidx /\ events' = events
    BY <1>3 DEF fdwatch_fails
  <2>3. added' = added
    BY <2>2 DEF added
  <2>4. [g \in Fd |-> Interest(g)]' = [g \in Fd |-> Interest(g)]
    BY <2>2, <2>3 DEF Interest
  <2>5. [g \in Fd |-> Answers(g)]' = [g \in Fd |-> Answers(g)]
    BY <2>1 DEF Answers
  <2> QED
    BY <2>1, <2>3, <2>4, <2>5 DEF W!Next, W!Fail
<1>4. CASE UNCHANGED pollVars
  <2>1. added' = added
    BY <1>4 DEF added, pollVars
  <2>2. [g \in Fd |-> Interest(g)]' = [g \in Fd |-> Interest(g)]
    BY <1>4, <2>1 DEF Interest, pollVars
  <2>3. [g \in Fd |-> Answers(g)]' = [g \in Fd |-> Answers(g)]
    BY <1>4, <2>1 DEF Answers, poll_check_fd, pollVars
  <2> QED
    BY <1>4, <2>1, <2>2, <2>3 DEF W!vars, pollVars
<1>5. CASE \E fd \in Fd : fdwatch_add_fd(fd)
  BY <1>5, AddRefines DEF W!Next
<1>6. CASE \E fd \in Fd, rw \in RW : fdwatch_set_fd(fd, rw)
  BY <1>6, SetRefines DEF W!Next, W!RW, RW
<1> QED
  BY <1>1, <1>2, <1>3, <1>4, <1>5, <1>6 DEF PollNext

\* fd_watcher.c with poll implements WatchSet, in what its callers learn of the
\* descriptors they added in the round.
THEOREM Refines == PollSpec => IsWatchSet
<1>1. IInv /\ IInv' /\ [PollNext]_pollVars => [W!Next]_(W!vars)
  BY NextRefines
<1> QED
  BY <1>1, InitInv, NextInv, InitRefines, PTL DEF PollSpec, IsWatchSet, W!Spec

-----------------------------------------------------------------------------
(* The build with select.                                                   *)

\* The inductive invariant: events are set for descriptors of the round only, and
\* maxfd is at least each of them, so that select looks at them all.
SelectInv ==
  /\ added \subseteq Fd /\ maxfd \in Int
  /\ master_rfdset \subseteq added /\ master_wfdset \subseteq added
  /\ \A fd \in added : fd <= maxfd

\* Every step of the build with select keeps the invariant.
LEMMA SelectNextInv ==
  ASSUME SelectInv, S!Next \/ UNCHANGED S!vars PROVE SelectInv'
<1>0. \A fd \in Fd : fd \in Int
  BY DEF Fd, Slots
<1>1. CASE S!fdwatch_zero
  BY <1>1 DEF S!fdwatch_zero, SelectInv
<1>2. CASE S!fdwatch
  BY <1>2 DEF S!fdwatch, SelectInv
<1>3. CASE S!fdwatch_fails \/ UNCHANGED S!vars
  BY <1>3 DEF S!fdwatch_fails, S!vars, S!sets, SelectInv
<1>4. ASSUME NEW fd \in Fd, S!fdwatch_add_fd(fd) PROVE SelectInv'
  <2>1. added' = added \cup {fd} /\ maxfd' = IF fd > maxfd THEN fd ELSE maxfd
    BY <1>4 DEF S!fdwatch_add_fd
  <2>2. master_rfdset' = master_rfdset /\ master_wfdset' = master_wfdset
    BY <1>4 DEF S!fdwatch_add_fd, S!sets
  <2>3. fd \in Int /\ maxfd \in Int /\ \A g \in added : g \in Int /\ g <= maxfd
    BY <1>0 DEF SelectInv
  <2>4. maxfd' \in Int /\ fd <= maxfd' /\ maxfd <= maxfd'
    BY <2>1, <2>3
  <2>5. \A g \in added' : g <= maxfd'
    BY <2>1, <2>3, <2>4
  <2> QED
    BY <2>1, <2>2, <2>4, <2>5 DEF SelectInv
<1>5. ASSUME NEW fd \in Fd, NEW rw \in RW, S!fdwatch_set_fd(fd, rw) PROVE SelectInv'
  BY <1>5 DEF S!fdwatch_set_fd, SelectInv
<1> QED
  BY <1>1, <1>2, <1>3, <1>4, <1>5 DEF S!Next, S!Fd, S!RW, Fd, RW, Slots

\* What select answers about a descriptor: everything that was asked for when the
\* socket is in error.
LEMMA SelectAnswers ==
  ASSUME SelectInv, S!fdwatch, NEW fd \in Fd
  PROVE  S!Answers(fd)' = IF "err" \in kernel'[fd] THEN S!Interest(fd) ELSE S!Interest(fd) \cap kernel'[fd]
<1>0. fd \in Int /\ 0 <= fd
  BY DEF Fd, Slots
<1>1. fd \in master_rfdset \/ fd \in master_wfdset => fd \in S!Looked
  BY <1>0 DEF SelectInv, S!Looked
<1>2. phase' = "process"
  BY DEF S!fdwatch
<1>3. /\ fd \in working_rfdset' <=> fd \in master_rfdset /\ ("r" \in kernel'[fd] \/ "err" \in kernel'[fd])
      /\ fd \in working_wfdset' <=> fd \in master_wfdset /\ ("w" \in kernel'[fd] \/ "err" \in kernel'[fd])
  BY <1>1 DEF S!fdwatch
<1>4. S!Answers(fd)' = {rw \in RW : IF rw = "r" THEN fd \in working_rfdset' ELSE fd \in working_wfdset'}
  BY <1>2 DEF S!Answers, S!select_check_fd, S!RW, RW
<1>5. /\ S!Interest(fd) \subseteq RW
      /\ "r" \in S!Interest(fd) <=> fd \in master_rfdset
      /\ "w" \in S!Interest(fd) <=> fd \in master_wfdset
  BY DEF S!Interest, RW
<1> QED
  BY <1>3, <1>4, <1>5 DEF RW

\* A step of the build with select is a step of WatchSet.
LEMMA SelectNextRefines ==
  ASSUME SelectInv, S!Next \/ UNCHANGED S!vars PROVE [S!W!Next]_(S!W!vars)
<1>0. S!Fd = Fd /\ S!W!RW = RW
  BY DEF S!Fd, Fd, Slots, S!W!RW, RW
<1>a. ASSUME phase # "process", phase' # "process"
      PROVE  [fd \in S!Fd |-> S!Answers(fd)]' = [fd \in S!Fd |-> S!Answers(fd)]
  BY <1>a DEF S!Answers
<1>1. CASE S!fdwatch_zero
  <2>1. phase' = "collect" /\ added' = {} /\ kernel' = S!W!Nothing
    BY <1>1 DEF S!fdwatch_zero, S!W!Nothing
  <2>2. [fd \in S!Fd |-> S!Interest(fd)]' = S!W!Nothing
    BY <1>1 DEF S!Interest, S!W!Nothing, S!fdwatch_zero
  <2>3. [fd \in S!Fd |-> S!Answers(fd)]' = S!W!Nothing
    BY <2>1 DEF S!Answers, S!W!Nothing
  <2> QED
    BY <2>1, <2>2, <2>3 DEF S!W!Zero, S!W!Next
<1>2. CASE S!fdwatch
  <2>1. phase = "collect" /\ phase' = "process" /\ added' = added /\ kernel' \in [Fd -> SUBSET All]
    BY <1>0, <1>2 DEF S!fdwatch, S!All, All, S!RW, RW
  <2>2. [fd \in S!Fd |-> S!Interest(fd)]' = [fd \in S!Fd |-> S!Interest(fd)]
    BY <1>2 DEF S!fdwatch, S!Interest
  <2>3. ASSUME NEW fd \in Fd
        PROVE  /\ S!Answers(fd)' \subseteq S!Interest(fd)
               /\ "err" \in kernel'[fd] \/ S!Answers(fd)' = S!Interest(fd) \cap kernel'[fd]
    BY <1>2, SelectAnswers
  <2>4. [fd \in S!Fd |-> S!Answers(fd)]' \in [Fd -> SUBSET RW]
    BY <1>0 DEF S!Answers, S!RW, RW
  <2>5. S!W!Watch
    BY <1>0, <2>1, <2>2, <2>3, <2>4 DEF S!W!Watch, All
  <2> QED
    BY <2>5 DEF S!W!Next
<1>3. CASE S!fdwatch_fails
  <2>1. /\ phase = "collect" /\ phase' = "idle" /\ added' = added /\ kernel' = kernel
        /\ master_rfdset' = master_rfdset /\ master_wfdset' = master_wfdset
    BY <1>3 DEF S!fdwatch_fails
  <2>2. [fd \in S!Fd |-> S!Interest(fd)]' = [fd \in S!Fd |-> S!Interest(fd)]
    BY <2>1 DEF S!Interest
  <2> QED
    BY <1>a, <2>1, <2>2 DEF S!W!Fail, S!W!Next
<1>4. CASE UNCHANGED S!vars
  <2>1. /\ UNCHANGED <<phase, added, kernel>>
        /\ UNCHANGED <<master_rfdset, master_wfdset, working_rfdset, working_wfdset>>
    BY <1>4 DEF S!vars, S!sets
  <2>2. [fd \in S!Fd |-> S!Interest(fd)]' = [fd \in S!Fd |-> S!Interest(fd)]
    BY <2>1 DEF S!Interest
  <2>3. [fd \in S!Fd |-> S!Answers(fd)]' = [fd \in S!Fd |-> S!Answers(fd)]
    BY <2>1 DEF S!Answers, S!select_check_fd
  <2> QED
    BY <2>1, <2>2, <2>3 DEF S!W!vars
<1>5. ASSUME NEW fd \in Fd, S!fdwatch_add_fd(fd) PROVE S!W!Next
  <2>1. /\ phase = "collect" /\ phase' = phase /\ fd \notin added /\ added' = added \cup {fd}
        /\ kernel' = kernel /\ master_rfdset' = master_rfdset /\ master_wfdset' = master_wfdset
    BY <1>5 DEF S!fdwatch_add_fd, S!sets
  <2>2. [g \in S!Fd |-> S!Interest(g)]' = [g \in S!Fd |-> S!Interest(g)]
    BY <2>1 DEF S!Interest
  <2>3. S!W!Add(fd)
    BY <1>a, <2>1, <2>2 DEF S!W!Add
  <2> QED
    BY <1>0, <2>3 DEF S!W!Next
<1>6. ASSUME NEW fd \in Fd, NEW rw \in RW, S!fdwatch_set_fd(fd, rw) PROVE S!W!Next
  <2>1. phase = "collect" /\ phase' = phase /\ fd \in added /\ added' = added /\ kernel' = kernel
    BY <1>6 DEF S!fdwatch_set_fd
  <2>2. ASSUME NEW g \in Fd
        PROVE  S!Interest(g)' = IF g = fd THEN S!Interest(fd) \cup {rw} ELSE S!Interest(g)
    BY <1>6 DEF S!fdwatch_set_fd, S!Interest, RW
  <2>3. [g \in S!Fd |-> S!Interest(g)]'
          = [[g \in S!Fd |-> S!Interest(g)] EXCEPT ![fd] = @ \cup {rw}]
    BY <1>0, <2>2
  <2>4. S!W!Set(fd, rw)
    BY <1>a, <2>1, <2>3 DEF S!W!Set
  <2> QED
    BY <1>0, <2>4 DEF S!W!Next
<1> QED
  BY <1>0, <1>1, <1>2, <1>3, <1>4, <1>5, <1>6 DEF S!Next, S!RW, RW

\* A step of both builds is a step of each.
LEMMA BothSteps ==
  ASSUME [BothNext]_both PROVE [PollNext]_pollVars /\ (S!Next \/ UNCHANGED S!vars)
<1>0. S!Fd = Fd /\ S!RW = RW
  BY DEF S!Fd, Fd, Slots, S!RW, RW
<1>1. CASE BothNext
  BY <1>0, <1>1 DEF BothNext, PollNext, S!Next
<1>2. CASE UNCHANGED both
  <2>1. added' = added
    BY <1>2 DEF both, pollVars, added
  <2> QED
    BY <1>2, <2>1 DEF both, pollVars, S!vars, S!sets
<1> QED
  BY <1>1, <1>2

\* The initial states of the build with select.
LEMMA SelectInit == ASSUME BothInit PROVE SelectInv /\ S!W!Init
<1>1. /\ phase = "idle" /\ added = {} /\ maxfd = -1 /\ master_rfdset = {} /\ master_wfdset = {}
      /\ kernel = [fd \in S!Fd |-> {}]
  BY DEF BothInit, S!Init
<1>2. [fd \in S!Fd |-> S!Interest(fd)] = S!W!Nothing
  BY <1>1 DEF S!Interest, S!W!Nothing
<1>3. [fd \in S!Fd |-> S!Answers(fd)] = S!W!Nothing
  BY <1>1 DEF S!Answers, S!W!Nothing
<1>4. kernel = S!W!Nothing
  BY <1>1 DEF S!W!Nothing
<1> QED
  BY <1>1, <1>2, <1>3, <1>4 DEF SelectInv, S!W!Init

\* fd_watcher.c with select implements WatchSet, for descriptors that were not added too,
\* because the working sets hold descriptors of the master sets only and nfds leaves none
\* of them out.
THEOREM SelectRefines == BothSpec => SelectIsWatchSet
<1>1. BothInit => SelectInv /\ S!W!Init
  BY SelectInit
<1>2. SelectInv /\ [BothNext]_both => SelectInv' /\ [S!W!Next]_(S!W!vars)
  BY BothSteps, SelectNextInv, SelectNextRefines
<1> QED
  BY <1>1, <1>2, PTL DEF BothSpec, SelectIsWatchSet, S!IsWatchSet, S!W!Spec

-----------------------------------------------------------------------------
(* The two builds side by side.                                             *)

\* The callers of both have asked for the same.
SameInterest == \A fd \in added : Interest(fd) = S!Interest(fd)

\* The inductive invariant of the two.
BothInv == IInv /\ SelectInv /\ SameInterest /\ AnswersByBuild

\* What poll answers about a descriptor of the round: nothing when the socket is in error.
LEMMA PollAnswers ==
  ASSUME IInv, fdwatch, NEW g \in added
  PROVE  /\ Answers(g)' = IF "err" \in kernel'[g] THEN {} ELSE Interest(g) \cap kernel'[g]
         /\ Interest(g)' = Interest(g)
<1>1. /\ phase' = "process" /\ fd_of' = fd_of /\ poll_fdidx' = poll_fdidx
      /\ npoll_fds' = npoll_fds /\ events' = events
  BY DEF fdwatch
<1>2. added' = added
  BY <1>1 DEF added
<1> DEFINE i == poll_fdidx[g]
<1>3. i \in Slots /\ i < npoll_fds /\ fd_of[i] = g
  BY EntryOf, PollAssumption DEF IInv, TypeOK
<1>4. revents'[i] = kernel'[g] \cap (events[i] \cup {"err"})
  BY <1>3 DEF fdwatch
<1>5. events[i] \subseteq RW /\ Interest(g) = events[i]
  BY <1>3 DEF Interest, IInv, TypeOK
<1>6. Answers(g)' = {rw \in RW : poll_check_fd(g, rw)'}
  BY <1>1, <1>2 DEF Answers
<1>7. ASSUME NEW rw \in RW
      PROVE poll_check_fd(g, rw)' <=> ("err" \notin revents'[i] /\ rw \in revents'[i])
  BY <1>1, <1>3 DEF poll_check_fd
<1>8. "err" \notin RW
  BY DEF RW
<1>9. Interest(g)' = Interest(g)
  BY <1>1, <1>2 DEF Interest
<1> HIDE DEF i
<1> QED
  BY <1>4, <1>5, <1>6, <1>7, <1>8, <1>9

\* Every step of both keeps the invariant.
LEMMA BothNextInv == ASSUME BothInv, [BothNext]_both PROVE BothInv'
<1>0. IInv /\ SelectInv /\ SameInterest /\ IInv' /\ SelectInv'
  BY BothSteps, NextInv, SelectNextInv DEF BothInv
<1>a. added \subseteq Fd
  BY <1>0 DEF SelectInv
<1>1. CASE fdwatch_zero /\ S!fdwatch_zero
  <2>1. added' = {} /\ phase' = "collect"
    BY <1>1 DEF S!fdwatch_zero
  <2> QED
    BY <1>0, <2>1 DEF BothInv, SameInterest, AnswersByBuild
<1>2. CASE fdwatch /\ S!fdwatch
  <2>1. added' = added /\ master_rfdset' = master_rfdset /\ master_wfdset' = master_wfdset
    BY <1>2 DEF S!fdwatch
  <2>2. ASSUME NEW g \in added
        PROVE  /\ Interest(g)' = Interest(g) /\ S!Interest(g)' = S!Interest(g) /\ Interest(g) = S!Interest(g)
               /\ Answers(g)' = IF "err" \in kernel'[g] THEN {} ELSE Interest(g) \cap kernel'[g]
               /\ S!Answers(g)' = IF "err" \in kernel'[g] THEN Interest(g) ELSE Interest(g) \cap kernel'[g]
    <3>1. g \in Fd /\ Interest(g) = S!Interest(g)
      BY <1>0, <1>a DEF SameInterest
    <3>2. S!Interest(g)' = S!Interest(g)
      BY <2>1 DEF S!Interest
    <3> QED
      BY <1>0, <1>2, <3>1, <3>2, PollAnswers, SelectAnswers
  <2>3. SameInterest'
    BY <2>1, <2>2 DEF SameInterest
  <2>4. AnswersByBuild'
    BY <2>1, <2>2 DEF AnswersByBuild
  <2> QED
    BY <1>0, <2>3, <2>4 DEF BothInv
<1>3. CASE fdwatch_fails /\ S!fdwatch_fails
  <2>1. /\ phase' = "idle" /\ added' = added
        /\ master_rfdset' = master_rfdset /\ master_wfdset' = master_wfdset
    BY <1>3 DEF S!fdwatch_fails
  <2>2. poll_fdidx' = poll_fdidx /\ events' = events
    BY <1>3 DEF fdwatch_fails
  <2>3. SameInterest'
    BY <1>0, <2>1, <2>2 DEF SameInterest, Interest, S!Interest
  <2> QED
    BY <1>0, <2>1, <2>3 DEF BothInv, AnswersByBuild
<1>4. ASSUME NEW fd \in Fd, fdwatch_add_fd(fd), S!fdwatch_add_fd(fd) PROVE BothInv'
  <2>1. /\ phase' = "collect" /\ added' = added \cup {fd} /\ fd \notin added
        /\ master_rfdset' = master_rfdset /\ master_wfdset' = master_wfdset
    BY <1>4 DEF S!fdwatch_add_fd, S!sets
  <2>2. [g \in Fd |-> Interest(g)]' = [g \in Fd |-> Interest(g)]
    BY <1>0, <1>4, AddRefines DEF W!Add
  <2>3. ASSUME NEW g \in Fd PROVE Interest(g)' = Interest(g)
    <3>1. [h \in Fd |-> Interest(h)]'[g] = [h \in Fd |-> Interest(h)][g]
      BY <2>2
    <3> QED
      BY <3>1
  <2>4. ASSUME NEW g \in added' PROVE Interest(g)' = S!Interest(g)'
    <3>1. CASE g \in added
      BY <1>0, <1>a, <2>1, <2>3, <3>1 DEF SameInterest, S!Interest
    <3>2. CASE g = fd
      <4>1. Interest(fd) = {}
        BY <2>1 DEF Interest
      <4>2. fd \notin master_rfdset /\ fd \notin master_wfdset
        BY <1>0, <2>1 DEF SelectInv
      <4>3. S!Interest(fd)' = {}
        BY <2>1, <4>2 DEF S!Interest
      <4> QED
        BY <2>3, <3>2, <4>1, <4>3
    <3> QED
      BY <2>1, <3>1, <3>2
  <2>5. SameInterest'
    BY <2>4 DEF SameInterest
  <2> QED
    BY <1>0, <2>1, <2>5 DEF BothInv, AnswersByBuild
<1>5. ASSUME NEW fd \in Fd, NEW rw \in RW, fdwatch_set_fd(fd, rw), S!fdwatch_set_fd(fd, rw)
      PROVE  BothInv'
  <2>1. phase' = "collect" /\ added' = added
    BY <1>5 DEF S!fdwatch_set_fd
  <2>2. [g \in Fd |-> Interest(g)]' = [[g \in Fd |-> Interest(g)] EXCEPT ![fd] = @ \cup {rw}]
    BY <1>0, <1>5, SetRefines DEF W!Set
  <2>3. ASSUME NEW g \in Fd
        PROVE  Interest(g)' = IF g = fd THEN Interest(fd) \cup {rw} ELSE Interest(g)
    <3>1. [h \in Fd |-> Interest(h)]'[g] = [[h \in Fd |-> Interest(h)] EXCEPT ![fd] = @ \cup {rw}][g]
      BY <2>2
    <3> QED
      BY <3>1
  <2>4. ASSUME NEW g \in Fd
        PROVE  S!Interest(g)' = IF g = fd THEN S!Interest(fd) \cup {rw} ELSE S!Interest(g)
    BY <1>5 DEF S!fdwatch_set_fd, S!Interest, RW
  <2>5. fd \in added
    BY <1>5 DEF S!fdwatch_set_fd
  <2>6. SameInterest'
    BY <1>0, <1>a, <2>1, <2>3, <2>4, <2>5 DEF SameInterest
  <2> QED
    BY <1>0, <2>1, <2>6 DEF BothInv, AnswersByBuild
<1>6. CASE UNCHANGED both
  <2>1. /\ UNCHANGED <<phase, npoll_fds, fd_of, events, revents, poll_fdidx, kernel>>
        /\ UNCHANGED <<master_rfdset, master_wfdset, working_rfdset, working_wfdset>>
    BY <1>6 DEF both, pollVars
  <2>2. added' = added
    BY <2>1 DEF added
  <2>3. SameInterest'
    BY <1>0, <2>1, <2>2 DEF SameInterest, Interest, S!Interest
  <2>4. AnswersByBuild'
    BY <2>1, <2>2 DEF BothInv, AnswersByBuild, Interest, Answers, poll_check_fd, S!Answers,
                      S!select_check_fd
  <2> QED
    BY <1>0, <2>3, <2>4 DEF BothInv
<1> QED
  BY <1>1, <1>2, <1>3, <1>4, <1>5, <1>6 DEF BothNext

\* AnswersByBuild: with the same calls and the same sockets the two builds answer the same,
\* except that of a socket in error poll denies and select grants all that was asked for.
THEOREM ByBuild == BothSpec => []AnswersByBuild
<1>1. BothInit => BothInv
  <2> SUFFICES ASSUME BothInit PROVE BothInv
    OBVIOUS
  <2>1. IInv /\ SelectInv
    BY InitInv, SelectInit DEF BothInit
  <2>2. added = {} /\ phase = "idle"
    BY DEF BothInit, S!Init
  <2> QED
    BY <2>1, <2>2 DEF BothInv, SameInterest, AnswersByBuild
<1>2. BothInv /\ [BothNext]_both => BothInv'
  BY BothNextInv
<1>3. BothInv => AnswersByBuild
  BY DEF BothInv
<1> QED
  BY <1>1, <1>2, <1>3, PTL DEF BothSpec
===============================================================================
