------------------------------- MODULE Throttle -------------------------------
(***************************************************************************)
(* The --throttle option: outputProgress measures every download once a    *)
(* second, and getSleepTime makes the event loop sleep longer while the     *)
(* measured speed is above cfg.maxTransferSpeed.                           *)
(*                                                                         *)
(* irc_run alternates the keep alive callback, which measures and sleeps,  *)
(* with the handlers of the sockets, each of which reads at most one        *)
(* buffer.  Time is counted in units of one such round.  Totals grow        *)
(* without end, so a download keeps sizeRcvd - sizeNow, the bytes since it  *)
(* was last measured, and not the two totals.                              *)
(***************************************************************************)
EXTENDS Integers, FiniteSetsExt

CONSTANTS
  Transfers,    \* the downloads of the program
  Limit,        \* cfg.maxTransferSpeed, in bytes per second
  Buffer,       \* LIBIRC_DCC_BUFFER_SIZE: bytes read in one round
  Second,       \* rounds in a second without sleep
  Factor,       \* factor of getSleepTime
  Window,       \* NUM_AVERAGE_SPEED_VALUES
  SleepMod,     \* range of sleeptime_t
  MaxUnmeasured,\* bound: more bytes than these are not told apart
  Garbage,      \* contents of averageSpeed in memory that malloc returns
  Completions   \* FALSE: no download completes

ASSUME ThrottleAssumption ==
  /\ Limit \in Nat \ {0} /\ Buffer \in Nat \ {0} /\ Second \in Nat \ {0}
  /\ Factor \in Nat \ {0} /\ Window \in Nat \ {0} /\ SleepMod \in Nat \ {0}
  /\ MaxUnmeasured \in Nat /\ MaxUnmeasured >= Buffer * (Second + 1)
  /\ Garbage \subseteq Nat /\ Garbage # {} /\ Completions \in BOOLEAN

VARIABLES
  turn,         \* the loop of irc_run: "keep_alive" or "process"
  stage,        \* download: "none", "open" or "completed"
  begun,        \* sizeRcvd > 0
  unmeasured,   \* sizeRcvd - sizeNow
  curSpeed, speedIndex, isSpeedArrayFilled,     \* struct dccCurrentSpeed
  averageSpeed,
  sleepTime,    \* the static variable of getSleepTime
  output,       \* OUTPUT_FLAG
  alarm,        \* an alarm is set
  \* what a clock on the wall shows
  clock,        \* time in the current second
  got,          \* bytes read in it
  rate          \* bytes read in the second before

progress == <<curSpeed, speedIndex, isSpeedArrayFilled, averageSpeed>>
wall == <<clock, got, rate>>
throttleVars == <<turn, stage, begun, unmeasured, progress, sleepTime, output, alarm, wall>>

Ring == 0 .. Window - 1
Contexts == {d \in Transfers : stage[d] # "none"}
Open == {d \in Transfers : stage[d] = "open"}

ThrottleInit ==
  /\ turn = "keep_alive"
  /\ stage = [d \in Transfers |-> "none"]
  /\ begun = [d \in Transfers |-> FALSE]
  /\ unmeasured = [d \in Transfers |-> 0]
  /\ curSpeed = [d \in Transfers |-> [i \in Ring |-> 0]]
  /\ speedIndex = [d \in Transfers |-> 0]
  /\ isSpeedArrayFilled = [d \in Transfers |-> FALSE]
  /\ averageSpeed = [d \in Transfers |-> 0]
  /\ sleepTime = 0 /\ output = FALSE /\ alarm = TRUE
  /\ clock = 0 /\ got = 0 /\ rate = 0

-----------------------------------------------------------------------------
(* Measuring: helper.c.                                                    *)

\* The slot after slot i of the ring.
saveCurrentSpeed(i) == (i + 1) % Window

\* Mutant: the first slot is halved too.
getAverageSpeed_Halved(speeds, filled, cur) ==
  LET average[i \in Ring] == IF i = 0 THEN speeds[0] \div 2
                             ELSE (average[i - 1] + speeds[i]) \div 2
  IN  IF filled THEN average[Window - 1] ELSE cur

\* Every slot is averaged with the average of the slots before it.
getAverageSpeed(speeds, filled, cur) ==
  LET average[i \in Ring] == IF i = 0 THEN speeds[0]
                             ELSE (average[i - 1] + speeds[i]) \div 2
  IN  IF filled THEN average[Window - 1] ELSE cur

\* outputProgress of the downloads in D, of which those in B have data and of
\* which size[d] bytes are not measured yet.
outputProgress(D, B, size) ==
  /\ unmeasured' = [d \in Transfers |-> IF d \in D THEN 0 ELSE size[d]]
  /\ curSpeed' = [d \in Transfers |->
       IF d \in D \cap B THEN [curSpeed[d] EXCEPT ![speedIndex[d]] = size[d]]
       ELSE curSpeed[d]]
  /\ speedIndex' = [d \in Transfers |->
       IF d \in D \cap B THEN saveCurrentSpeed(speedIndex[d]) ELSE speedIndex[d]]
  /\ isSpeedArrayFilled' = [d \in Transfers |->
       isSpeedArrayFilled[d] \/ (d \in D \cap B /\ speedIndex'[d] = 0)]
  /\ averageSpeed' = [d \in Transfers |->
       IF d \in D \cap B
       THEN getAverageSpeed(curSpeed'[d], isSpeedArrayFilled'[d], size[d])
       ELSE averageSpeed[d]]

-----------------------------------------------------------------------------
(* The sleep: xdccget.c.                                                   *)

getCurrentTransferSpeed(average) == MapThenSumSet(LAMBDA d : average[d], Contexts)

\* Mutant: no adjustment when nothing is received.
getAdjustmentValue_Zero(a, b) == IF b # 0 THEN a \div b ELSE 0

getAdjustmentValue(a, b) == IF b # 0 THEN a \div b ELSE 1

\* Mutant: the quotient the wrong way round.
getSleepTime_Swapped(speed) ==
  IF speed > Limit
  THEN (sleepTime + getAdjustmentValue(Limit, speed) * Factor) % SleepMod
  ELSE Max({0, sleepTime - getAdjustmentValue(Limit, speed) * Factor})

getSleepTime(speed) ==
  IF speed > Limit
  THEN (sleepTime + getAdjustmentValue(speed, Limit) * Factor) % SleepMod
  ELSE Max({0, sleepTime - getAdjustmentValue(Limit, speed) * Factor})

\* usleep ends early when the alarm of this second goes off.
Slept(time) == IF alarm THEN Min({time, Second - clock}) ELSE time

\* t units of time pass, with n bytes read during them; output_handler runs
\* when an alarm is set and the second is over, and sets the next alarm.
Elapses(t, n, o, a) ==
  LET over == clock + t >= Second IN
  /\ clock' = (clock + t) % Second
  /\ got' = IF over THEN 0 ELSE got + n
  /\ rate' = IF ~over THEN rate ELSE IF clock + t < 2 * Second THEN got + n ELSE 0
  /\ output' = (o \/ (over /\ a))

\* print_output_callback, the half that measures and sleeps.
measure_and_sleep ==
  /\ turn = "keep_alive" /\ turn' = "process"
  /\ outputProgress(IF output THEN Contexts ELSE {}, {d \in Transfers : begun[d]}, unmeasured)
  /\ sleepTime' = getSleepTime(getCurrentTransferSpeed(averageSpeed'))
  /\ Elapses(Slept(sleepTime'), 0, FALSE, alarm)
  /\ UNCHANGED <<stage, begun, alarm>>

-----------------------------------------------------------------------------
(* The sockets.                                                            *)

\* One round of libirc_dcc_process_descriptors: the open downloads receive,
\* and those in D are complete with it.  callback_dcc_recv_file then cancels
\* the alarm and measures the download for the last time.
process_descriptors ==
  /\ turn = "process" /\ turn' = "keep_alive"
  /\ \E n \in [Open -> 0 .. Buffer] :
       \E D \in SUBSET {d \in Open : n[d] > 0 /\ Completions} :
         LET size == [d \in Transfers |->
               IF d \in Open THEN Min({unmeasured[d] + n[d], MaxUnmeasured}) ELSE unmeasured[d]]
         IN  /\ stage' = [d \in Transfers |-> IF d \in D THEN "completed" ELSE stage[d]]
             /\ begun' = [d \in Transfers |-> begun[d] \/ (d \in Open /\ n[d] > 0)]
             /\ outputProgress(D, D, size)
             /\ alarm' = (alarm /\ D = {})
             /\ Elapses(1, MapThenSumSet(LAMBDA d : n[d], Open), output, alarm')
  /\ UNCHANGED sleepTime

\* prepareRecvFileRequest, with a file of which nothing (new) or a part
\* (resumed) is on disk.  newDccProgress does not set averageSpeed.
newDccProgress(d) ==
  /\ turn = "process" /\ stage[d] = "none"
  /\ stage' = [stage EXCEPT ![d] = "open"]
  /\ \E resumed \in BOOLEAN : begun' = [begun EXCEPT ![d] = resumed]
  /\ \E g \in Garbage : averageSpeed' = [averageSpeed EXCEPT ![d] = g]
  /\ UNCHANGED <<turn, unmeasured, curSpeed, speedIndex, isSpeedArrayFilled,
                 sleepTime, output, alarm, wall>>

ThrottleNext ==
  \/ measure_and_sleep
  \/ process_descriptors
  \/ \E d \in Transfers : newDccProgress(d)

ThrottleSpec == ThrottleInit /\ [][ThrottleNext]_throttleVars

\* irc_run goes round and round until the program ends.
ThrottleFairSpec ==
  /\ ThrottleSpec
  /\ WF_throttleVars(measure_and_sleep) /\ WF_throttleVars(process_descriptors)

-----------------------------------------------------------------------------
(* Properties.                                                             *)

\* The slots of the ring that hold a measurement.
Taken(d) == IF isSpeedArrayFilled[d] THEN Ring ELSE 0 .. speedIndex[d] - 1

\* The average speed of a download that has been measured lies between the
\* slowest and the fastest of the last measurements, however the halves of
\* getAverageSpeed are rounded and wherever its ring stands.
AverageInWindow ==
  \A d \in Contexts :
    LET speeds == {curSpeed[d][i] : i \in Taken(d)} IN
    speeds # {} => averageSpeed[d] \in Min(speeds) .. Max(speeds)

\* The throttle works: a second in which more than the limit came in is
\* followed, sooner or later, by one in which the limit was kept.
LimitKept == []<>(rate <= Limit)

\* The throttle lets go: when the measured speed stays within the limit, the
\* sleep that built up before is taken back completely.
LetsGo ==
  <>[](getCurrentTransferSpeed(averageSpeed) <= Limit) => <>[](sleepTime = 0)

====
