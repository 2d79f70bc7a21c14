---------------------------- MODULE ThrottleProofs ----------------------------
(***************************************************************************)
(* The measured speed of a download, for every number of downloads, every  *)
(* size of the ring and every limit.                                       *)
(*                                                                         *)
(* getAverageSpeed is a loop over the ring, a recursive function of the    *)
(* slots.  What it computes is proved by least counterexamples: the        *)
(* natural numbers are well ordered.                                       *)
(***************************************************************************)
EXTENDS Throttle, WellFoundedInduction, TLAPS

-----------------------------------------------------------------------------
(* The loop of getAverageSpeed.                                             *)

\* Every non-empty set of natural numbers has a least element.
LEMMA LeastElement ==
  ASSUME NEW T \in SUBSET Nat, T # {}
  PROVE  \E x \in T : \A y \in T : x <= y
<1> DEFINE R == OpToRel(<, Nat)
<1>1. IsWellFoundedOn(R, Nat)
  BY NatLessThanWellFounded
<1>2. ASSUME NEW x \in Nat, NEW y \in Nat, y < x PROVE <<y, x>> \in R
  BY <1>2 DEF OpToRel
<1> HIDE DEF R
<1>3. PICK x \in T : \A y \in T : ~(<<y, x>> \in R)
  BY <1>1, WFMin
<1>4. ASSUME NEW y \in T PROVE x <= y
  <2>1. x \in Nat /\ y \in Nat
    OBVIOUS
  <2>2. ~(y < x)
    BY <1>2, <1>3, <2>1, Zenon
  <2> QED
    BY <2>1, <2>2
<1> QED
  BY <1>4

\* f holds what the loop has computed after each slot from 0 to n.
Averages(f, speeds, n) ==
  f = [i \in 0 .. n |-> IF i = 0 THEN speeds[0] ELSE (f[i - 1] + speeds[i]) \div 2]

Reached(speeds, n) == \E f \in [0 .. n -> Nat] : Averages(f, speeds, n)

\* a lies between two of the speeds in the slots of T.
Within(speeds, T, a) == \E i, j \in T : speeds[i] <= a /\ a <= speeds[j]

\* The rounded half of a sum of two lies between the two.
LEMMA Halves ==
  ASSUME NEW a \in Nat, NEW b \in Nat
  PROVE  /\ (a + b) \div 2 \in Nat
         /\ a <= b => a <= (a + b) \div 2 /\ (a + b) \div 2 <= b
         /\ b <= a => b <= (a + b) \div 2 /\ (a + b) \div 2 <= a
OBVIOUS

\* The loop reaches every slot.
LEMMA AveragesExist ==
  ASSUME NEW n \in Nat, NEW speeds \in [0 .. n -> Nat]
  PROVE  Reached(speeds, n)
<1> DEFINE bad == {m \in 0 .. n : ~Reached(speeds, m)}
<1>1. SUFFICES ASSUME n \in bad PROVE FALSE
  OBVIOUS
<1>2. PICK m \in bad : \A k \in bad : m <= k
  <2>1. \A k \in 0 .. n : k \in Nat
    OBVIOUS
  <2>2. \A k \in bad : k \in 0 .. n
    BY Zenon
  <2> HIDE DEF bad
  <2>3. bad \in SUBSET Nat /\ bad # {}
    BY <1>1, <2>1, <2>2, Zenon
  <2> QED
    BY <2>3, LeastElement
<1>3. m \in Nat /\ m <= n /\ ~Reached(speeds, m)
  BY <1>2
<1>4. CASE m = 0
  <2> DEFINE f == [i \in 0 .. 0 |-> speeds[0]]
  <2>1. f \in [0 .. m -> Nat]
    BY <1>4
  <2>2. Averages(f, speeds, m)
    BY <1>4 DEF Averages
  <2> QED
    BY <1>3, <2>1, <2>2 DEF Reached
<1>5. CASE m > 0
  <2>1. m - 1 \in 0 .. n /\ m - 1 \notin bad
    BY <1>2, <1>3, <1>5
  <2>2. PICK g \in [0 .. (m - 1) -> Nat] : Averages(g, speeds, m - 1)
    BY <2>1 DEF Reached
  <2> DEFINE f == [i \in 0 .. m |-> IF i < m THEN g[i] ELSE (g[m - 1] + speeds[m]) \div 2]
             h == [i \in 0 .. m |-> IF i = 0 THEN speeds[0] ELSE (f[i - 1] + speeds[i]) \div 2]
  <2>3. g[m - 1] \in Nat /\ speeds[m] \in Nat
    BY <1>3, <1>5, <2>2
  <2>4. (g[m - 1] + speeds[m]) \div 2 \in Nat
    BY <2>3, Halves
  <2>5. f \in [0 .. m -> Nat]
    BY <1>3, <2>2, <2>4
  <2>6. ASSUME NEW i \in 0 .. m PROVE f[i] = h[i]
    <3>1. CASE i = m
      <4>1. f[i - 1] = g[m - 1]
        BY <1>3, <1>5, <3>1
      <4> QED
        BY <1>5, <3>1, <4>1
    <3>2. CASE i # m
      <4>1. i \in 0 .. (m - 1) /\ i \in Nat /\ i < m
        BY <1>3, <3>2
      <4>2. g[i] = IF i = 0 THEN speeds[0] ELSE (g[i - 1] + speeds[i]) \div 2
        BY <2>2, <4>1 DEF Averages
      <4>3. i # 0 => f[i - 1] = g[i - 1]
        BY <1>3, <4>1
      <4> QED
        BY <4>1, <4>2, <4>3
    <3> QED
      BY <3>1, <3>2
  <2>7. f = h
    BY <2>6
  <2>8. Averages(f, speeds, m)
    BY <2>7 DEF Averages
  <2> QED
    BY <1>3, <2>5, <2>8 DEF Reached
<1> QED
  BY <1>3, <1>4, <1>5

\* After each slot the average is between two of the speeds so far.
LEMMA AveragesWithin ==
  ASSUME NEW n \in Nat, NEW speeds \in [0 .. n -> Nat],
         NEW f \in [0 .. n -> Nat], Averages(f, speeds, n)
  PROVE  Within(speeds, 0 .. n, f[n])
<1> DEFINE bad == {m \in 0 .. n : ~Within(speeds, 0 .. m, f[m])}
<1>1. SUFFICES ASSUME n \in bad PROVE FALSE
  OBVIOUS
<1>2. PICK m \in bad : \A k \in bad : m <= k
  <2>1. \A k \in 0 .. n : k \in Nat
    OBVIOUS
  <2>2. \A k \in bad : k \in 0 .. n
    BY Zenon
  <2> HIDE DEF bad
  <2>3. bad \in SUBSET Nat /\ bad # {}
    BY <1>1, <2>1, <2>2, Zenon
  <2> QED
    BY <2>3, LeastElement
<1>3. m \in Nat /\ m <= n /\ ~Within(speeds, 0 .. m, f[m])
  BY <1>2
<1>4. f[m] = IF m = 0 THEN speeds[0] ELSE (f[m - 1] + speeds[m]) \div 2
  BY <1>3 DEF Averages
<1>5. CASE m = 0
  <2>1. 0 \in 0 .. m /\ speeds[0] \in Nat
    BY <1>3, <1>5
  <2> QED
    BY <1>3, <1>4, <1>5, <2>1 DEF Within
<1>6. CASE m > 0
  <2>1. m - 1 \in 0 .. n /\ m - 1 \notin bad
    BY <1>2, <1>3, <1>6
  <2>2. Within(speeds, 0 .. (m - 1), f[m - 1])
    BY <2>1
  <2> HIDE DEF bad
  <2>3. PICK i \in 0 .. (m - 1), j \in 0 .. (m - 1) : speeds[i] <= f[m - 1] /\ f[m - 1] <= speeds[j]
    BY <2>2 DEF Within
  <2>4. /\ i \in 0 .. m /\ j \in 0 .. m /\ m \in 0 .. m
        /\ speeds[i] \in Nat /\ speeds[j] \in Nat /\ speeds[m] \in Nat /\ f[m - 1] \in Nat
    BY <1>3, <2>1
  <2> DEFINE a == f[m - 1]
             b == speeds[m]
             c == f[m]
             x == speeds[i]
             y == speeds[j]
  <2>5. c \in Nat /\ (a <= b => a <= c /\ c <= b) /\ (b <= a => b <= c /\ c <= a)
    <3>1. c = (a + b) \div 2
      BY <1>4, <1>6
    <3> QED
      BY <2>4, <3>1, Halves
  <2>t. a \in Nat /\ b \in Nat /\ x \in Nat /\ y \in Nat /\ x <= a /\ a <= y
    BY <2>3, <2>4
  <2> HIDE DEF a, b, c, x, y
  <2>6. CASE a <= b
    <3>1. x <= c /\ c <= b
      BY <2>t, <2>5, <2>6
    <3> QED
      BY <1>3, <2>4, <3>1, Zenon DEF Within, x, b, c
  <2>7. CASE b <= a
    <3>1. b <= c /\ c <= y
      BY <2>t, <2>5, <2>7
    <3> QED
      BY <1>3, <2>4, <3>1, Zenon DEF Within, y, b, c
  <2>8. a <= b \/ b <= a
    BY <2>t
  <2> QED
    BY <2>6, <2>7, <2>8
<1> QED
  BY <1>3, <1>5, <1>6

\* The average of a filled ring.
LEMMA RingAverage ==
  ASSUME NEW speeds \in [Ring -> Nat], NEW cur
  PROVE  /\ getAverageSpeed(speeds, TRUE, cur) \in Nat
         /\ Within(speeds, Ring, getAverageSpeed(speeds, TRUE, cur))
<1> DEFINE n == Window - 1
           f == CHOOSE f : Averages(f, speeds, n)
<1>1. n \in Nat /\ Ring = 0 .. n
  BY ThrottleAssumption DEF Ring
<1>2. getAverageSpeed(speeds, TRUE, cur) = f[n]
  BY <1>1 DEF getAverageSpeed, Averages
<1>3. PICK g \in [0 .. n -> Nat] : Averages(g, speeds, n)
  BY <1>1, AveragesExist DEF Reached
<1>4. Averages(f, speeds, n)
  BY <1>3
<1> HIDE DEF n
<1>5. f \in [0 .. n -> Nat]
  <2> HIDE DEF f
  <2> DEFINE bad == {m \in 0 .. n : f[m] \notin Nat}
  <2>1. f = [i \in 0 .. n |-> IF i = 0 THEN speeds[0] ELSE (f[i - 1] + speeds[i]) \div 2]
    BY <1>4 DEF Averages
  <2>2. ASSUME bad # {} PROVE FALSE
    <3>1. PICK m \in bad : \A k \in bad : m <= k
      <4>1. bad \in SUBSET Nat
        OBVIOUS
      <4> HIDE DEF bad
      <4> QED
        BY <2>2, <4>1, LeastElement
    <3>2. m \in Nat /\ m \in 0 .. n /\ f[m] \notin Nat
      BY <1>1
    <3>3. f[m] = IF m = 0 THEN speeds[0] ELSE (f[m - 1] + speeds[m]) \div 2
      BY <2>1, <3>2
    <3>4. speeds[m] \in Nat /\ speeds[0] \in Nat
      BY <1>1, <3>2
    <3>5. m # 0 => f[m - 1] \in Nat
      BY <1>1, <3>1, <3>2
    <3> QED
      BY <3>2, <3>3, <3>4, <3>5, Halves
  <2> QED
    BY <2>1, <2>2
<1> HIDE DEF f
<1>6. Within(speeds, 0 .. n, f[n])
  BY <1>1, <1>4, <1>5, AveragesWithin
<1>7. f[n] \in Nat
  BY <1>1, <1>5
<1> QED
  BY <1>1, <1>2, <1>6, <1>7

-----------------------------------------------------------------------------
(* The least and the greatest speed.                                        *)

\* The set of speeds in slots 0 to n has both.
LEMMA Extremes ==
  ASSUME NEW n \in Nat, NEW speeds, \A i \in 0 .. n : speeds[i] \in Nat
  PROVE  LET S == {speeds[i] : i \in 0 .. n}
         IN  \A a \in S : Min(S) \in Nat /\ Max(S) \in Nat /\ Min(S) <= a /\ a <= Max(S)
<1> DEFINE S == {speeds[i] : i \in 0 .. n}
           Top(m) == \E k \in 0 .. m : \A i \in 0 .. m : speeds[i] <= speeds[k]
           bad == {m \in 0 .. n : ~Top(m)}
<1>1. S \in SUBSET Nat /\ S # {}
  <2>1. 0 \in 0 .. n
    OBVIOUS
  <2> QED
    BY <2>1
<1>2. \E x \in S : \A y \in S : x <= y
  <2> HIDE DEF S
  <2> QED
    BY <1>1, LeastElement
<1>3. bad = {}
  <2> SUFFICES ASSUME bad # {} PROVE FALSE
    OBVIOUS
  <2>1. PICK m \in bad : \A k \in bad : m <= k
    <3>1. bad \in SUBSET Nat
      OBVIOUS
    <3> HIDE DEF bad
    <3> QED
      BY <3>1, LeastElement
  <2>2. m \in Nat /\ m \in 0 .. n /\ ~Top(m)
    OBVIOUS
  <2>3. CASE m = 0
    <3>1. 0 \in 0 .. m /\ \A i \in 0 .. m : speeds[i] <= speeds[0]
      BY <2>3
    <3> QED
      BY <2>2, <3>1
  <2>4. CASE m > 0
    <3>1. m - 1 \in 0 .. n /\ ~(m - 1 \in bad)
      <4> HIDE DEF bad
      <4> QED
        BY <2>1, <2>2, <2>4
    <3>2. Top(m - 1)
      BY <3>1
    <3>3. PICK k \in 0 .. (m - 1) : \A i \in 0 .. (m - 1) : speeds[i] <= speeds[k]
      BY <3>2
    <3>4. k \in 0 .. m /\ m \in 0 .. m /\ speeds[k] \in Nat /\ speeds[m] \in Nat
      BY <2>2
    <3>5. ASSUME NEW i \in 0 .. m PROVE i = m \/ i \in 0 .. (m - 1)
      BY <2>2
    <3>6. \A i \in 0 .. m : speeds[i] \in Nat
      BY <2>2
    <3> HIDE DEF Top
    <3>7. CASE speeds[k] <= speeds[m]
      <4>1. \A i \in 0 .. m : speeds[i] <= speeds[m]
        BY <3>3, <3>4, <3>5, <3>6, <3>7
      <4> QED
        BY <2>2, <3>4, <4>1 DEF Top
    <3>8. CASE speeds[m] <= speeds[k]
      <4>1. \A i \in 0 .. m : speeds[i] <= speeds[k]
        BY <3>3, <3>4, <3>5, <3>6, <3>8
      <4> QED
        BY <2>2, <3>4, <4>1 DEF Top
    <3> QED
      BY <3>4, <3>7, <3>8
  <2> QED
    BY <2>2, <2>3, <2>4
<1>4. \E x \in S : \A y \in S : x >= y
  <2>1. n \in 0 .. n /\ n \notin bad
    BY <1>3
  <2>2. PICK k \in 0 .. n : \A i \in 0 .. n : speeds[i] <= speeds[k]
    BY <2>1
  <2>3. \A y \in S : speeds[k] >= y
    BY <2>2
  <2> QED
    BY <2>3
<1> HIDE DEF S
<1>5. Min(S) \in S /\ \A y \in S : Min(S) <= y
  BY <1>2 DEF Min
<1>6. Max(S) \in S /\ \A y \in S : Max(S) >= y
  BY <1>4 DEF Max
<1>7. \A a \in S : Min(S) \in Nat /\ Max(S) \in Nat /\ Min(S) <= a /\ a <= Max(S)
  BY <1>1, <1>5, <1>6
<1> QED
  BY <1>7 DEF S

-----------------------------------------------------------------------------
(* The inductive invariant.                                                 *)

SpeedTypes ==
  /\ stage \in [Transfers -> {"none", "open", "completed"}]
  /\ begun \in [Transfers -> BOOLEAN]
  /\ unmeasured \in [Transfers -> Nat]
  /\ curSpeed \in [Transfers -> [Ring -> Nat]]
  /\ speedIndex \in [Transfers -> Ring]
  /\ isSpeedArrayFilled \in [Transfers -> BOOLEAN]
  /\ averageSpeed \in [Transfers -> Nat]

\* The slots that hold a measurement.
TakenSlots(index, filled) == IF filled THEN Ring ELSE 0 .. index - 1

\* A ring, where it stands, and its average.
RingHolds(speeds, index, filled, average) ==
  TakenSlots(index, filled) # {} => Within(speeds, TakenSlots(index, filled), average)

\* A download that has not begun has no measurement: its average is whatever malloc left.
SpeedInv ==
  /\ SpeedTypes
  /\ \A d \in Transfers :
       /\ stage[d] = "none" => speedIndex[d] = 0 /\ ~isSpeedArrayFilled[d]
       /\ RingHolds(curSpeed[d], speedIndex[d], isSpeedArrayFilled[d], averageSpeed[d])

\* A measurement: the ring takes the speed, and the average is between two that it holds.
LEMMA Measured ==
  ASSUME NEW speeds \in [Ring -> Nat], NEW index \in Ring, NEW filled \in BOOLEAN, NEW size \in Nat,
         NEW speeds2, speeds2 = [speeds EXCEPT ![index] = size],
         NEW index2, index2 = saveCurrentSpeed(index),
         NEW filled2, filled2 = (filled \/ index2 = 0),
         NEW average2, average2 = getAverageSpeed(speeds2, filled2, size)
  PROVE  /\ speeds2 \in [Ring -> Nat] /\ index2 \in Ring /\ filled2 \in BOOLEAN /\ average2 \in Nat
         /\ RingHolds(speeds2, index2, filled2, average2)
<1>1. speeds2 \in [Ring -> Nat] /\ filled2 \in BOOLEAN /\ speeds2[index] = size
  OBVIOUS
<1>2. Window \in Nat /\ Window > 0 /\ index \in Nat /\ index < Window
  BY ThrottleAssumption DEF Ring
<1>3. index2 = IF index + 1 = Window THEN 0 ELSE index + 1
  <2>1. index2 = (index + 1) % Window
    BY DEF saveCurrentSpeed
  <2>2. CASE index + 1 = Window
    <3>1. Window % Window = 0
      BY <1>2
    <3> QED
      BY <2>1, <2>2, <3>1
  <2>3. CASE index + 1 < Window
    <3>1. (index + 1) % Window = index + 1
      BY <1>2, <2>3
    <3> QED
      BY <1>2, <2>1, <2>3, <3>1
  <2> QED
    BY <1>2, <2>2, <2>3
<1>4. index2 \in Ring
  BY <1>2, <1>3 DEF Ring
<1>5. CASE filled2
  <2>1. average2 = getAverageSpeed(speeds2, TRUE, size)
    BY <1>1, <1>5
  <2>2. average2 \in Nat /\ Within(speeds2, Ring, average2)
    BY <1>1, <2>1, RingAverage
  <2> QED
    BY <1>1, <1>4, <1>5, <2>2 DEF RingHolds, TakenSlots
<1>6. CASE ~filled2
  <2>1. average2 = size
    BY <1>6 DEF getAverageSpeed
  <2>a. index2 # 0
    BY <1>6, Zenon
  <2>2. index2 = index + 1 /\ index \in 0 .. (index2 - 1)
    BY <1>2, <1>3, <2>a
  <2>3. speeds2[index] <= average2 /\ average2 <= speeds2[index]
    BY <1>1, <2>1
  <2>4. Within(speeds2, 0 .. (index2 - 1), average2)
    BY <2>2, <2>3 DEF Within
  <2> QED
    BY <1>1, <1>4, <1>6, <2>1, <2>4 DEF RingHolds, TakenSlots
<1> QED
  BY <1>1, <1>5, <1>6

-----------------------------------------------------------------------------
(* Every step.                                                              *)

\* The least of two numbers is a number.
LEMMA MinOfTwo ==
  ASSUME NEW a \in Nat, NEW b \in Nat
  PROVE  Min({a, b}) \in Nat
<1>1. \E x \in {a, b} : \A y \in {a, b} : x <= y
  OBVIOUS
<1>2. Min({a, b}) \in {a, b}
  BY <1>1 DEF Min
<1> QED
  BY <1>2

\* outputProgress keeps the rings of the downloads it measures, and leaves the others alone.
LEMMA ProgressInv ==
  ASSUME SpeedInv, NEW D, NEW B, NEW size \in [Transfers -> Nat], outputProgress(D, B, size),
         stage' \in [Transfers -> {"none", "open", "completed"}], begun' \in [Transfers -> BOOLEAN],
         \A d \in Transfers : stage'[d] = "none" => stage[d] = "none" /\ d \notin D
  PROVE  SpeedInv'
<1>1. /\ unmeasured' \in [Transfers -> Nat]
      /\ DOMAIN curSpeed' = Transfers /\ DOMAIN speedIndex' = Transfers
      /\ DOMAIN isSpeedArrayFilled' = Transfers /\ DOMAIN averageSpeed' = Transfers
  BY DEF outputProgress
<1>2. ASSUME NEW d \in Transfers
      PROVE  /\ curSpeed'[d] \in [Ring -> Nat] /\ speedIndex'[d] \in Ring
             /\ isSpeedArrayFilled'[d] \in BOOLEAN /\ averageSpeed'[d] \in Nat
             /\ stage'[d] = "none" => speedIndex'[d] = 0 /\ ~isSpeedArrayFilled'[d]
             /\ RingHolds(curSpeed'[d], speedIndex'[d], isSpeedArrayFilled'[d], averageSpeed'[d])
  <2>1. /\ curSpeed[d] \in [Ring -> Nat] /\ speedIndex[d] \in Ring
        /\ isSpeedArrayFilled[d] \in BOOLEAN /\ averageSpeed[d] \in Nat /\ size[d] \in Nat
        /\ stage[d] = "none" => speedIndex[d] = 0 /\ ~isSpeedArrayFilled[d]
        /\ RingHolds(curSpeed[d], speedIndex[d], isSpeedArrayFilled[d], averageSpeed[d])
    BY DEF SpeedInv, SpeedTypes
  <2>2. CASE d \in D \cap B
    <3>1. /\ curSpeed'[d] = [curSpeed[d] EXCEPT ![speedIndex[d]] = size[d]]
          /\ speedIndex'[d] = saveCurrentSpeed(speedIndex[d])
          /\ averageSpeed'[d] = getAverageSpeed(curSpeed'[d], isSpeedArrayFilled'[d], size[d])
      BY <2>2 DEF outputProgress
    <3>2. isSpeedArrayFilled'[d] = (isSpeedArrayFilled[d] \/ speedIndex'[d] = 0)
      BY <2>2, Zenon DEF outputProgress
    <3>3. /\ curSpeed'[d] \in [Ring -> Nat] /\ speedIndex'[d] \in Ring
          /\ isSpeedArrayFilled'[d] \in BOOLEAN /\ averageSpeed'[d] \in Nat
          /\ RingHolds(curSpeed'[d], speedIndex'[d], isSpeedArrayFilled'[d], averageSpeed'[d])
      BY <2>1, <3>1, <3>2, Measured
    <3>4. stage'[d] # "none"
      BY <2>2
    <3> QED
      BY <3>3, <3>4
  <2>3. CASE d \notin D \cap B
    <3>1. curSpeed'[d] = curSpeed[d] /\ speedIndex'[d] = speedIndex[d] /\ averageSpeed'[d] = averageSpeed[d]
      BY <2>3 DEF outputProgress
    <3>2. isSpeedArrayFilled'[d] = isSpeedArrayFilled[d]
      <4>1. isSpeedArrayFilled'[d] = (isSpeedArrayFilled[d] \/ FALSE)
        BY <2>3, Zenon DEF outputProgress
      <4> QED
        BY <2>1, <4>1
    <3> QED
      BY <2>1, <3>1, <3>2
  <2> QED
    BY <2>2, <2>3
<1>3. /\ curSpeed' \in [Transfers -> [Ring -> Nat]] /\ speedIndex' \in [Transfers -> Ring]
      /\ isSpeedArrayFilled' \in [Transfers -> BOOLEAN] /\ averageSpeed' \in [Transfers -> Nat]
  <2>1. /\ \A d \in Transfers : curSpeed'[d] \in [Ring -> Nat]
        /\ \A d \in Transfers : speedIndex'[d] \in Ring
        /\ \A d \in Transfers : isSpeedArrayFilled'[d] \in BOOLEAN
        /\ \A d \in Transfers : averageSpeed'[d] \in Nat
    BY <1>2
  <2> QED
    BY <2>1 DEF outputProgress
<1>4. SpeedTypes'
  BY <1>1, <1>3 DEF SpeedTypes, Ring
<1>5. ASSUME NEW d \in Transfers
      PROVE (/\ stage[d] = "none" => speedIndex[d] = 0 /\ ~isSpeedArrayFilled[d]
             /\ RingHolds(curSpeed[d], speedIndex[d], isSpeedArrayFilled[d], averageSpeed[d]))'
  BY <1>2 DEF RingHolds, TakenSlots, Within, Ring
<1> QED
  BY <1>4, <1>5 DEF SpeedInv

\* print_output_callback measures the downloads that have a context.
LEMMA PrintInv ==
  ASSUME SpeedInv, measure_and_sleep
  PROVE  SpeedInv'
<1> DEFINE D == IF output THEN Contexts ELSE {}
           B == {d \in Transfers : begun[d]}
<1>1. outputProgress(D, B, unmeasured) /\ stage' = stage /\ begun' = begun
  BY DEF measure_and_sleep
<1>2. /\ unmeasured \in [Transfers -> Nat] /\ begun \in [Transfers -> BOOLEAN]
      /\ stage \in [Transfers -> {"none", "open", "completed"}]
  BY DEF SpeedInv, SpeedTypes
<1>3. \A d \in Transfers : stage[d] = "none" => d \notin D
  BY DEF Contexts
<1> HIDE DEF D, B
<1> QED
  BY <1>1, <1>2, <1>3, ProgressInv

\* The sockets: a download that is complete is measured for the last time.
LEMMA ProcessInv ==
  ASSUME SpeedInv, process_descriptors
  PROVE  SpeedInv'
<1>1. PICK n \in [Open -> 0 .. Buffer], D \in SUBSET Open :
        LET size == [d \in Transfers |->
               IF d \in Open THEN Min({unmeasured[d] + n[d], MaxUnmeasured}) ELSE unmeasured[d]]
         IN  /\ stage' = [d \in Transfers |-> IF d \in D THEN "completed" ELSE stage[d]]
             /\ begun' = [d \in Transfers |-> begun[d] \/ (d \in Open /\ n[d] > 0)]
             /\ outputProgress(D, D, size)
  BY DEF process_descriptors
<1> DEFINE size == [d \in Transfers |->
               IF d \in Open THEN Min({unmeasured[d] + n[d], MaxUnmeasured}) ELSE unmeasured[d]]
<1>2. /\ unmeasured \in [Transfers -> Nat]
      /\ stage \in [Transfers -> {"none", "open", "completed"}]
  BY DEF SpeedInv, SpeedTypes
<1>3. ASSUME NEW d \in Open PROVE Min({unmeasured[d] + n[d], MaxUnmeasured}) \in Nat
  <2>1. d \in Transfers /\ n[d] \in 0 .. Buffer
    BY DEF Open
  <2>2. unmeasured[d] + n[d] \in Nat /\ MaxUnmeasured \in Nat
    BY <1>2, <2>1, ThrottleAssumption
  <2> QED
    BY <2>2, MinOfTwo
<1>4. size \in [Transfers -> Nat]
  BY <1>2, <1>3
<1>5. outputProgress(D, D, size)
  BY <1>1
<1>6. stage' = [d \in Transfers |-> IF d \in D THEN "completed" ELSE stage[d]]
  BY <1>1
<1>7. begun' \in [Transfers -> BOOLEAN]
  BY <1>1, Zenon
<1> HIDE DEF size
<1>8. stage' \in [Transfers -> {"none", "open", "completed"}]
  BY <1>2, <1>6
<1>9. \A d \in Transfers : stage'[d] = "none" => stage[d] = "none" /\ d \notin D
  BY <1>6
<1> QED
  BY <1>4, <1>5, <1>7, <1>8, <1>9, ProgressInv

\* A new download: its average is garbage, and its ring has no measurement yet.
LEMMA NewInv ==
  ASSUME SpeedInv, NEW e \in Transfers, newDccProgress(e)
  PROVE  SpeedInv'
<1>1. /\ stage[e] = "none" /\ stage' = [stage EXCEPT ![e] = "open"]
      /\ UNCHANGED <<unmeasured, curSpeed, speedIndex, isSpeedArrayFilled>>
  BY DEF newDccProgress
<1>2. PICK g \in Garbage : averageSpeed' = [averageSpeed EXCEPT ![e] = g]
  BY DEF newDccProgress
<1>3. PICK resumed \in BOOLEAN : begun' = [begun EXCEPT ![e] = resumed]
  BY DEF newDccProgress
<1>4. g \in Nat
  BY ThrottleAssumption
<1>5. SpeedTypes
  BY DEF SpeedInv
<1>6. begun' \in [Transfers -> BOOLEAN]
  BY <1>3, <1>5, Zenon DEF SpeedTypes
<1>7. averageSpeed' \in [Transfers -> Nat] /\ stage' \in [Transfers -> {"none", "open", "completed"}]
  BY <1>1, <1>2, <1>4, <1>5 DEF SpeedTypes
<1>8. SpeedTypes'
  BY <1>1, <1>5, <1>6, <1>7 DEF SpeedTypes, Ring
<1>9. ASSUME NEW d \in Transfers
      PROVE  /\ stage'[d] = "none" => speedIndex[d] = 0 /\ ~isSpeedArrayFilled[d]
             /\ RingHolds(curSpeed[d], speedIndex[d], isSpeedArrayFilled[d], averageSpeed'[d])
  <2>1. CASE d = e
    <3>1. stage'[d] = "open"
      BY <1>1, <1>5, <2>1 DEF SpeedTypes
    <3>2. speedIndex[d] = 0 /\ ~isSpeedArrayFilled[d]
      BY <1>1, <2>1 DEF SpeedInv
    <3>3. TakenSlots(speedIndex[d], isSpeedArrayFilled[d]) = {}
      BY <3>2 DEF TakenSlots
    <3> QED
      BY <3>1, <3>3 DEF RingHolds
  <2>2. CASE d # e
    <3>1. stage'[d] = stage[d] /\ averageSpeed'[d] = averageSpeed[d]
      BY <1>1, <1>2, <1>5, <2>2 DEF SpeedTypes
    <3> QED
      BY <3>1 DEF SpeedInv
  <2> QED
    BY <2>1, <2>2
<1>10. ASSUME NEW d \in Transfers
       PROVE (/\ stage[d] = "none" => speedIndex[d] = 0 /\ ~isSpeedArrayFilled[d]
              /\ RingHolds(curSpeed[d], speedIndex[d], isSpeedArrayFilled[d], averageSpeed[d]))'
  BY <1>1, <1>9 DEF RingHolds, TakenSlots, Within, Ring
<1> QED
  BY <1>8, <1>10 DEF SpeedInv

\* Whatever the ring holds and however its halves are rounded, the average of a download that
\* has been measured is between its slowest and its fastest measurement.
THEOREM AverageIsSpeed == ThrottleSpec => []AverageInWindow
<1>1. ThrottleInit => SpeedInv
  <2> SUFFICES ASSUME ThrottleInit PROVE SpeedInv
    OBVIOUS
  <2>1. Window - 1 \in Nat /\ 0 \in Ring
    BY ThrottleAssumption DEF Ring
  <2>2. SpeedTypes
    BY <2>1 DEF ThrottleInit, SpeedTypes
  <2>3. ASSUME NEW d \in Transfers
        PROVE  /\ speedIndex[d] = 0 /\ ~isSpeedArrayFilled[d]
               /\ TakenSlots(speedIndex[d], isSpeedArrayFilled[d]) = {}
    <3>1. speedIndex[d] = 0 /\ ~isSpeedArrayFilled[d]
      BY DEF ThrottleInit
    <3> QED
      BY <3>1 DEF TakenSlots
  <2> QED
    BY <2>2, <2>3 DEF SpeedInv, RingHolds
<1>2. SpeedInv /\ [ThrottleNext]_throttleVars => SpeedInv'
  <2> SUFFICES ASSUME SpeedInv, [ThrottleNext]_throttleVars PROVE SpeedInv'
    OBVIOUS
  <2>1. CASE ThrottleNext
    BY <2>1, PrintInv, ProcessInv, NewInv DEF ThrottleNext
  <2>2. CASE UNCHANGED throttleVars
    BY <2>2 DEF throttleVars, progress, SpeedInv, SpeedTypes, RingHolds, TakenSlots, Within, Ring
  <2> QED
    BY <2>1, <2>2
<1>3. SpeedInv => AverageInWindow
  <2> SUFFICES ASSUME SpeedInv, NEW d \in Contexts, {curSpeed[d][i] : i \in Taken(d)} # {}
               PROVE  averageSpeed[d] \in Min({curSpeed[d][i] : i \in Taken(d)})
                                           .. Max({curSpeed[d][i] : i \in Taken(d)})
    BY DEF AverageInWindow
  <2> DEFINE speeds == curSpeed[d]
             T == Taken(d)
             average == averageSpeed[d]
             n == IF isSpeedArrayFilled[d] THEN Window - 1 ELSE speedIndex[d] - 1
  <2>1. d \in Transfers
    BY DEF Contexts
  <2>2. /\ speeds \in [Ring -> Nat] /\ speedIndex[d] \in Ring /\ average \in Nat
        /\ RingHolds(speeds, speedIndex[d], isSpeedArrayFilled[d], average)
    BY <2>1 DEF SpeedInv, SpeedTypes
  <2>3. T = TakenSlots(speedIndex[d], isSpeedArrayFilled[d]) /\ T = 0 .. n
    BY DEF Taken, TakenSlots, Ring
  <2>4. T # {}
    OBVIOUS
  <2>5. Window - 1 \in Nat /\ speedIndex[d] \in Nat /\ speedIndex[d] <= Window - 1
    BY <2>2, ThrottleAssumption DEF Ring
  <2>6. n \in Nat /\ n <= Window - 1
    BY <2>3, <2>4, <2>5
  <2>7. Within(speeds, T, average)
    BY <2>2, <2>3, <2>4 DEF RingHolds
  <2> HIDE DEF speeds, T, average, n
  <2>8. \A i \in 0 .. n : speeds[i] \in Nat
    BY <2>2, <2>5, <2>6 DEF Ring
  <2> DEFINE S == {speeds[i] : i \in T}
  <2>9. \A a \in S : Min(S) \in Nat /\ Max(S) \in Nat /\ Min(S) <= a /\ a <= Max(S)
    BY <2>3, <2>6, <2>8, Extremes
  <2>10. PICK i \in T, j \in T : speeds[i] <= average /\ average <= speeds[j]
    BY <2>7 DEF Within
  <2>11. speeds[i] \in S /\ speeds[j] \in S
    OBVIOUS
  <2>12. speeds[i] \in Nat /\ speeds[j] \in Nat
    BY <2>3, <2>8
  <2> HIDE DEF S
  <2>13. Min(S) \in Nat /\ Max(S) \in Nat /\ Min(S) <= speeds[i] /\ speeds[j] <= Max(S)
    BY <2>9, <2>11
  <2>14. average \in Min(S) .. Max(S)
    BY <2>2, <2>10, <2>12, <2>13
  <2> QED
    BY <2>14 DEF S, speeds, T, average
<1> QED
  BY <1>1, <1>2, <1>3, PTL DEF ThrottleSpec

===============================================================================
