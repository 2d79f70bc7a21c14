---------------------------- MODULE SessionProofs ----------------------------
(***************************************************************************)
(* Proofs about Session: the buffers keep their bounds, the plain session  *)
(* is a Channel, and over TLS whole commands reach the server.             *)
(*                                                                         *)
(* All of it is for signals that come only while fdwatch waits (or never): *)
(* a QUIT that interrupt_handler queues between the memcpy and the new     *)
(* outgoing_offset of irc_send_raw is overwritten, and the offset is then  *)
(* beyond what was checked.                                                *)
(***************************************************************************)
EXTENDS Session, WellFoundedInduction, TLAPS

-----------------------------------------------------------------------------
(* The inductive invariants.                                               *)

\* Types, with what the steps between a check and its use rely on: a command that
\* was copied fits, and what was sent is at most what was queued.
TypeInv ==
  /\ TypeOK
  /\ pc = "copied" => todo > 0 /\ Fits
  /\ pc \in {"sent", "moved"} => length <= outgoing_offset

\* The n units behind the first ones follow base in their stream.
Queued(buf, first, n, base) == \A i \in 1 .. n : buf[first + i] = base + i

\* n units that follow base.
From(base, n) == [i \in 1 .. n |-> base + i]

\* The command that was copied and not counted yet.
CopiedInv == pc = "copied" => Queued(outgoing_buf, outgoing_offset, CmdLen, accepted)

\* outgoing_buf holds what was accepted and has not reached the server: at "sent"
\* behind the units that were sent, at "moved" in front of units that are left over.
OutInv ==
  /\ CopiedInv
  /\ pc \notin {"sent", "moved"} =>
       /\ accepted = Len(toServer) + outgoing_offset
       /\ Queued(outgoing_buf, 0, outgoing_offset, Len(toServer))
  /\ pc = "sent" =>
       /\ accepted = Len(toServer) + (outgoing_offset - length)
       /\ Queued(outgoing_buf, length, outgoing_offset - length, Len(toServer))
  /\ pc = "moved" =>
       /\ accepted = Len(toServer) + (outgoing_offset - length)
       /\ Queued(outgoing_buf, 0, outgoing_offset - length, Len(toServer))

\* incoming_buf holds what was read and not handled, from the start of a line; less
\* than a line, except while lines are being handled.
Handling == pc = "lines" \/ (pc \in {"send", "copied"} /\ back = "lines")
InInv ==
  /\ consumed = Len(handled) + incoming_offset /\ consumed <= produced
  /\ Len(handled) % LineLen = 0
  /\ Queued(incoming_buf, 0, incoming_offset, Len(handled))
  /\ ~Handling => incoming_offset < LineLen

\* The invariant of a plain session.
PlainInv == TypeInv /\ flags = {} /\ OutInv /\ InInv

\* Over TLS, whole commands are queued and sent, all of outgoing_buf at a time.
WholeInv ==
  /\ TypeInv
  /\ CopiedInv
  /\ accepted % CmdLen = 0 /\ outgoing_offset % CmdLen = 0 /\ outgoing_offset <= accepted
  /\ Queued(outgoing_buf, 0, outgoing_offset, accepted - outgoing_offset)
  /\ pc \in {"sent", "moved"} => length = 0 \/ length = outgoing_offset
  /\ OutputWhole

-----------------------------------------------------------------------------
(* Remainders, for a divisor that is a constant of the specification.       *)

\* A multiple of L that is smaller than L is 0.
LEMMA SmallMultiple ==
  ASSUME NEW L \in Nat, L > 0, NEW a \in Int, L * a < L, -L < L * a
  PROVE  a = 0
OBVIOUS

\* The next multiple.
LEMMA NextMultiple == ASSUME NEW L \in Int, NEW a \in Int PROVE L * (a + 1) = L * a + L
OBVIOUS

\* The sum of two multiples.
LEMMA SumOfMultiples ==
  ASSUME NEW L \in Int, NEW a \in Int, NEW b \in Int PROVE L * (a + b) = L * a + L * b
OBVIOUS

\* Division with remainder.
LEMMA DivisionHasRemainder ==
  ASSUME NEW L \in Nat, L > 0, NEW k \in Nat
  PROVE  \E d \in Int, m \in Nat : m < L /\ k = L * d + m /\ m = k % L
<1> DEFINE d == k \div L
           m == k % L
<1>1. d \in Int /\ m \in Int
  OBVIOUS
<1>2. m >= 0 /\ m < L
  OBVIOUS
<1>3. m = k - L * d
  BY SMT
<1> HIDE DEF d, m
<1>4. L * d \in Int
  BY <1>1
<1>5. k = L * d + m
  BY <1>1, <1>3, <1>4
<1>6. d \in Int /\ m \in Nat /\ m < L /\ k = L * d + m
  BY <1>1, <1>2, <1>5
<1>7. m = k % L
  BY DEF m
<1> QED
  BY <1>6, <1>7

\* The remainder is unique.
LEMMA RemainderUnique ==
  ASSUME NEW L \in Nat, L > 0, NEW q \in Int, NEW r \in Nat, r < L, NEW k \in Nat, k = L * q + r
  PROVE  k % L = r
<1>1. PICK d \in Int, m \in Nat : m < L /\ k = L * d + m /\ m = k % L
  BY DivisionHasRemainder
<1>2. L * (q - d) = m - r
  BY <1>1
<1>3. q - d = 0
  BY <1>1, <1>2, SmallMultiple
<1> QED
  BY <1>1, <1>2, <1>3

\* A multiple does not change a remainder.
LEMMA MultipleAdded ==
  ASSUME NEW L \in Nat, L > 0, NEW k \in Nat, k % L = 0, NEW j \in Nat
  PROVE  (k + j) % L = j % L
<1>1. PICK q \in Int, r \in Nat : r < L /\ k = L * q + r /\ r = k % L
  BY DivisionHasRemainder
<1>2. r = 0
  BY <1>1
<1>3. PICK p \in Int, s \in Nat : s < L /\ j = L * p + s /\ s = j % L
  BY DivisionHasRemainder
<1>4. q + p \in Int /\ k + j \in Nat
  OBVIOUS
<1>5. L * q \in Int /\ L * p \in Int
  OBVIOUS
<1>6. k + j = (L * q + L * p) + s
  BY <1>1, <1>2, <1>3, <1>5
<1>7. k + j = L * (q + p) + s
  BY <1>6, SumOfMultiples
<1>8. (k + j) % L = s
  <2> DEFINE a == q + p
             b == k + j
  <2>1. a \in Int /\ b \in Nat /\ b = L * a + s /\ s < L
    BY <1>3, <1>4, <1>7
  <2> HIDE DEF a, b
  <2>2. b % L = s
    BY <2>1, RemainderUnique
  <2> QED
    BY <2>2 DEF b
<1> QED
  BY <1>3, <1>8

\* A number smaller than L is its own remainder, and L leaves none.
LEMMA SmallRemainders ==
  ASSUME NEW L \in Nat, L > 0
  PROVE  L % L = 0 /\ \A j \in Nat : j < L => j % L = j
<1>1. ASSUME NEW j \in Nat, j < L PROVE j % L = j
  <2>1. j = L * 0 + j
    OBVIOUS
  <2> QED
    BY <1>1, <2>1, RemainderUnique
<1>2. L % L = 0
  <2>1. L = L * 1 + 0
    OBVIOUS
  <2> QED
    BY <2>1, RemainderUnique
<1> QED
  BY <1>1, <1>2

\* Every non-empty set of natural numbers has a least element.
LEMMA LeastElement ==
  ASSUME NEW T \in SUBSET Nat, T # {}
  PROVE  \E x \in T : \A y \in T : x <= y
<1> DEFINE R == OpToRel(<, Nat)
<1>1. IsWellFoundedOn(R, Nat)
  BY NatLessThanWellFounded
<1>2. ASSUME NEW x \in Nat, NEW y \in Nat, y < x PROVE <<y, x>> \in R
  BY <1>2 DEF OpToRel
<1> HIDE DEF R
<1>3. PICK x \in T : \A y \in T : ~(<<y, x>> \in R)
  BY <1>1, WFMin
<1>4. ASSUME NEW y \in T PROVE x <= y
  <2>1. x \in Nat /\ y \in Nat
    OBVIOUS
  <2>2. ~(y < x)
    BY <1>2, <1>3, <2>1, Zenon
  <2> QED
    BY <2>1, <2>2
<1> QED
  BY <1>4

-----------------------------------------------------------------------------
(* The operators on buffers.                                                *)

\* libirc_findcrlf returns an offset inside the data, or 0.
LEMMA FindInside ==
  ASSUME NEW buf, NEW n \in Nat, NEW len
  PROVE  libirc_findcrlf(buf, n, len) \in 0 .. n
<1> DEFINE ends == {i \in 2 .. n : IsCR(buf[i - 1], len) /\ IsLF(buf[i], len)}
<1>1. ends \in SUBSET Nat /\ \A i \in ends : i \in 0 .. n
  OBVIOUS
<1>2. libirc_findcrlf(buf, n, len)
        = IF ends = {} THEN 0 ELSE CHOOSE i \in ends : \A j \in ends : i <= j
  BY DEF libirc_findcrlf
<1> HIDE DEF ends
<1>3. CASE ends = {}
  BY <1>2, <1>3
<1>4. CASE ends # {}
  <2>1. \E i \in ends : \A j \in ends : i <= j
    BY <1>1, <1>4, LeastElement
  <2> QED
    BY <1>1, <1>2, <1>4, <2>1
<1> QED
  BY <1>3, <1>4

\* In consecutive units from the start of a line libirc_findcrlf finds the end of the
\* first line, or nothing when that is not there yet.
LEMMA FindLine ==
  ASSUME NEW buf, NEW n \in Nat, NEW len \in Nat, len >= 3, NEW k \in Nat, k % len = 0,
         \A i \in 1 .. n : buf[i] = k + i
  PROVE  libirc_findcrlf(buf, n, len) = IF n < len THEN 0 ELSE len
<1> DEFINE ends == {i \in 2 .. n : IsCR(buf[i - 1], len) /\ IsLF(buf[i], len)}
<1>1. libirc_findcrlf(buf, n, len)
        = IF ends = {} THEN 0 ELSE CHOOSE i \in ends : \A j \in ends : i <= j
  BY DEF libirc_findcrlf
<1>a. len > 0
  OBVIOUS
<1>2. \A j \in Nat : (k + j) % len = j % len
  BY <1>a, MultipleAdded, Zenon
<1>3. ASSUME NEW i \in 2 .. n, i < len PROVE ~IsLF(buf[i], len)
  <2>1. i \in Nat /\ i \in 1 .. n /\ i # 0
    OBVIOUS
  <2>2. (k + i) % len = i
    BY <1>2, <1>3, <1>a, <2>1, SmallRemainders, Zenon
  <2>3. buf[i] = k + i
    BY <2>1
  <2> QED
    BY <2>1, <2>2, <2>3 DEF IsLF
<1>4. \A i \in ends : len <= i
  BY <1>3
<1>5. ASSUME n >= len PROVE len \in ends
  <2>1. len - 1 \in Nat /\ len \in Nat /\ len \in 1 .. n /\ len - 1 \in 1 .. n /\ len \in 2 .. n
    BY <1>5
  <2>2. buf[len - 1] = k + (len - 1) /\ buf[len] = k + len
    BY <2>1
  <2>3. (len - 1) % len = len - 1 /\ len % len = 0
    BY <2>1, SmallRemainders
  <2>4. (k + (len - 1)) % len = len - 1 /\ (k + len) % len = 0
    BY <1>2, <2>1, <2>3
  <2>5. k + len > 0
    OBVIOUS
  <2>6. IsCR(buf[len - 1], len) /\ IsLF(buf[len], len)
    BY <2>2, <2>4, <2>5 DEF IsCR, IsLF
  <2> QED
    BY <2>1, <2>6
<1>6. \A i \in ends : i \in Nat /\ i <= n
  OBVIOUS
<1> HIDE DEF ends
<1>7. CASE n < len
  <2>1. ends = {}
    BY <1>4, <1>6, <1>7
  <2> QED
    BY <1>1, <1>7, <2>1
<1>8. CASE n >= len
  <2>1. len \in ends
    BY <1>5, <1>8
  <2>2. \A i \in ends : (\A j \in ends : i <= j) => i = len
    BY <1>4, <1>6, <2>1
  <2>3. (CHOOSE i \in ends : \A j \in ends : i <= j) = len
    BY <1>4, <2>1, <2>2
  <2>4. ends # {} /\ ~(n < len)
    BY <1>8, <2>1
  <2> QED
    BY <1>1, <2>3, <2>4
<1> QED
  BY <1>7, <1>8

\* Buffers keep their size and hold units.
LEMMA BufferTypes ==
  ASSUME NEW cap \in Nat, NEW buf \in [1 .. cap -> Nat], NEW offset \in 0 .. cap
  PROVE  /\ \A base \in Nat, n \in Nat : Copied(buf, offset, base, n) \in [1 .. cap -> Nat]
         /\ \A n \in Nat : Moved(buf, offset, n) \in [1 .. cap -> Nat]
         /\ \A n \in 0 .. cap : First(buf, n) \in Seq(Nat) /\ Len(First(buf, n)) = n
<1>1. ASSUME NEW base \in Nat, NEW n \in Nat PROVE Copied(buf, offset, base, n) \in [1 .. cap -> Nat]
  BY DEF Copied
<1>2. ASSUME NEW n \in Nat PROVE Moved(buf, offset, n) \in [1 .. cap -> Nat]
  BY DEF Moved
<1>3. ASSUME NEW n \in 0 .. cap PROVE First(buf, n) \in Seq(Nat) /\ Len(First(buf, n)) = n
  <2>1. First(buf, n) \in [1 .. n -> Nat]
    BY DEF First
  <2> QED
    BY <2>1 DEF First
<1> QED
  BY <1>1, <1>2, <1>3

\* Units copied behind the others follow base, and the others stay.
LEMMA CopyQueues ==
  ASSUME NEW cap \in Nat, NEW buf \in [1 .. cap -> Nat], NEW offset \in Nat, NEW n \in Nat,
         offset + n <= cap, NEW base \in Nat
  PROVE  /\ Queued(Copied(buf, offset, base, n), offset, n, base)
         /\ \A b \in Nat : Queued(buf, 0, offset, b) => Queued(Copied(buf, offset, base, n), 0, offset, b)
<1>1. \A i \in 1 .. n : Copied(buf, offset, base, n)[offset + i] = base + i
  BY DEF Copied
<1>2. \A i \in 1 .. offset : Copied(buf, offset, base, n)[i] = buf[i]
  BY DEF Copied
<1> QED
  BY <1>1, <1>2 DEF Queued

\* Two parts of a buffer that follow each other.
LEMMA QueuesJoin ==
  ASSUME NEW buf, NEW m \in Nat, NEW n \in Nat, NEW b \in Nat,
         Queued(buf, 0, m, b), Queued(buf, m, n, b + m)
  PROVE  Queued(buf, 0, m + n, b)
<1> SUFFICES ASSUME NEW i \in 1 .. m + n PROVE buf[0 + i] = b + i
  BY DEF Queued
<1>1. CASE i <= m
  BY <1>1 DEF Queued
<1>2. CASE i > m
  <2>1. i - m \in 1 .. n
    BY <1>2
  <2>2. buf[m + (i - m)] = (b + m) + (i - m)
    BY <2>1 DEF Queued
  <2> QED
    BY <2>2
<1> QED
  BY <1>1, <1>2

\* The first n units and the rest.
LEMMA QueueSplits ==
  ASSUME NEW cap \in Nat, NEW buf \in [1 .. cap -> Nat], NEW m \in 0 .. cap, NEW n \in 0 .. m,
         NEW b \in Nat, Queued(buf, 0, m, b)
  PROVE  Queued(buf, n, m - n, b + n) /\ First(buf, n) = From(b, n)
<1>1. ASSUME NEW i \in 1 .. m - n PROVE buf[n + i] = (b + n) + i
  <2>1. n + i \in 1 .. m
    OBVIOUS
  <2>2. buf[0 + (n + i)] = b + (n + i)
    BY <2>1 DEF Queued
  <2> QED
    BY <2>2
<1>2. \A i \in 1 .. n : buf[i] = b + i
  BY DEF Queued
<1> QED
  BY <1>1, <1>2 DEF Queued, First, From

\* memmove brings the rest to the front.
LEMMA MoveQueues ==
  ASSUME NEW cap \in Nat, NEW buf \in [1 .. cap -> Nat], NEW m \in 0 .. cap, NEW n \in 0 .. m,
         NEW b \in Nat, Queued(buf, n, m - n, b)
  PROVE  Queued(Moved(buf, m, n), 0, m - n, b)
<1>1. ASSUME NEW i \in 1 .. m - n PROVE Moved(buf, m, n)[0 + i] = b + i
  <2>1. buf[n + i] = b + i
    BY DEF Queued
  <2> QED
    BY <2>1 DEF Moved
<1> QED
  BY <1>1 DEF Queued

-----------------------------------------------------------------------------
(* Types.                                                                   *)

\* Init gives every variable its type.
LEMMA TypeInit == ASSUME Init PROVE TypeInv
<1>1. quit \in BOOLEAN
  BY Zenon DEF Init
<1>2. outgoing_buf \in [1 .. OutCap -> Nat] /\ incoming_buf \in [1 .. InCap -> Nat]
  BY DEF Init
<1>3. outgoing_offset \in 0 .. OutCap /\ incoming_offset \in 0 .. InCap
  BY SessionAssumption DEF Init
<1>4. toServer \in Seq(Nat) /\ handled \in Seq(Nat)
  BY DEF Init
<1> QED
  BY <1>1, <1>2, <1>3, <1>4 DEF Init, TypeInv, TypeOK

\* The buffers of the session keep their types.
LEMMA SessionBuffers ==
  ASSUME TypeInv
  PROVE  /\ \A base \in Nat, n \in Nat :
              /\ Copied(outgoing_buf, outgoing_offset, base, n) \in [1 .. OutCap -> Nat]
              /\ Copied(incoming_buf, incoming_offset, base, n) \in [1 .. InCap -> Nat]
         /\ \A n \in Nat : Moved(incoming_buf, incoming_offset, n) \in [1 .. InCap -> Nat]
         /\ \A n \in 0 .. outgoing_offset :
              First(outgoing_buf, n) \in Seq(Nat) /\ Len(First(outgoing_buf, n)) = n
         /\ \A n \in 0 .. incoming_offset :
              First(incoming_buf, n) \in Seq(Nat) /\ Len(First(incoming_buf, n)) = n
<1>1. /\ OutCap \in Nat /\ outgoing_buf \in [1 .. OutCap -> Nat] /\ outgoing_offset \in 0 .. OutCap
      /\ InCap \in Nat /\ incoming_buf \in [1 .. InCap -> Nat] /\ incoming_offset \in 0 .. InCap
  BY SessionAssumption DEF TypeInv, TypeOK
<1>2. /\ \A n \in 0 .. outgoing_offset : n \in 0 .. OutCap
      /\ \A n \in 0 .. incoming_offset : n \in 0 .. InCap
  BY <1>1
<1>3. /\ \A base \in Nat, n \in Nat :
           Copied(outgoing_buf, outgoing_offset, base, n) \in [1 .. OutCap -> Nat]
      /\ \A n \in 0 .. OutCap :
           First(outgoing_buf, n) \in Seq(Nat) /\ Len(First(outgoing_buf, n)) = n
  BY <1>1, BufferTypes
<1>4. /\ \A base \in Nat, n \in Nat :
           Copied(incoming_buf, incoming_offset, base, n) \in [1 .. InCap -> Nat]
      /\ \A n \in Nat : Moved(incoming_buf, incoming_offset, n) \in [1 .. InCap -> Nat]
      /\ \A n \in 0 .. InCap :
           First(incoming_buf, n) \in Seq(Nat) /\ Len(First(incoming_buf, n)) = n
  BY <1>1, BufferTypes
<1> QED
  BY <1>2, <1>3, <1>4

\* What is in two sequences joined.
LEMMA Joined ==
  ASSUME NEW S, NEW f \in Seq(S), NEW g \in Seq(S)
  PROVE  /\ f \o g \in Seq(S) /\ Len(f \o g) = Len(f) + Len(g)
         /\ \A i \in 1 .. Len(f) : (f \o g)[i] = f[i]
         /\ \A i \in 1 .. Len(g) : (f \o g)[Len(f) + i] = g[i]
OBVIOUS

\* A read keeps the counters natural numbers.
LEMMA ReadTypes ==
  ASSUME TypeInv, NEW n \in 1 .. Room, Reads(n)
  PROVE  decrypted' \in Nat /\ consumed + n \in Nat
<1>1. n \in Nat /\ consumed \in Nat /\ decrypted \in Nat
  BY SessionAssumption DEF TypeInv, TypeOK, Room
<1>2. CASE ~Tls /\ decrypted' = consumed + n
  BY <1>1, <1>2
<1>3. CASE decrypted' = decrypted
  BY <1>1, <1>3
<1>4. ASSUME NEW m \in 1 .. MaxLines, decrypted' = decrypted + m * LineLen
      PROVE  decrypted' \in Nat
  <2>1. m * LineLen \in Nat
    BY SessionAssumption
  <2> QED
    BY <1>1, <1>4, <2>1
<1> QED
  BY <1>1, <1>2, <1>3, <1>4 DEF Reads

\* Every step of the main loop keeps the types.
LEMMA MainLoopTypes == ASSUME TypeInv, MainLoop PROVE TypeInv'
<1> USE SessionAssumption DEF TypeInv, TypeOK, loop, outbuf, inbuf, taken, streams
<1>1. CASE \E write \in BOOLEAN : fdwatch(write)
  BY <1>1 DEF fdwatch, Seen
<1>2. CASE keep_alive_callback
  BY <1>2 DEF keep_alive_callback, Callback
<1>3. CASE irc_send_raw_copy
  <2>1. outgoing_buf' \in [1 .. OutCap -> Nat]
    BY <1>3, BufferTypes DEF irc_send_raw_copy
  <2> QED
    BY <1>3, <2>1 DEF irc_send_raw_copy, Fits
<1>4. CASE irc_send_raw_count
  BY <1>4 DEF irc_send_raw_count, Fits
<1>5. CASE irc_send_raw_fails
  BY <1>5 DEF irc_send_raw_fails
<1>6. CASE callback_returns
  BY <1>6 DEF callback_returns
<1>7. CASE handle_connecting_state
  <2>1. CASE Disconnect
    BY <2>1 DEF Disconnect
  <2>2. CASE ~Disconnect
    <3>1. /\ state' = "CONNECTED" /\ todo' = 2 /\ pc' = "send" /\ back' = "watch"
          /\ UNCHANGED <<ready, length, outbuf, inbuf, flags, quit, link, taken, streams>>
      BY <1>7, <2>2 DEF handle_connecting_state
    <3> QED
      BY <3>1
  <2> QED
    BY <2>1, <2>2
<1>8. CASE session_socket_read
  <2>1. flags' \subseteq {"WRITE_WANTS_READ", "READ_WANTS_WRITE"}
    BY <1>8 DEF session_socket_read, ReadRetry
  <2>2. incoming_buf' \in [1 .. InCap -> Nat] /\ incoming_offset' \in 0 .. InCap
    <3>1. CASE UNCHANGED inbuf
      BY <3>1
    <3>2. ASSUME NEW n \in 1 .. Room, Take(n)
          PROVE  incoming_buf' \in [1 .. InCap -> Nat] /\ incoming_offset' \in 0 .. InCap
      <4>1. n \in Nat /\ consumed \in Nat
        BY DEF Room
      <4>2. incoming_buf' = Copied(incoming_buf, incoming_offset, consumed, n)
        BY <3>2 DEF Take
      <4>3. incoming_buf' \in [1 .. InCap -> Nat]
        BY <4>1, <4>2, SessionBuffers
      <4>4. incoming_offset' \in 0 .. InCap
        BY <3>2 DEF Take, Room
      <4> QED
        BY <4>3, <4>4
    <3> QED
      BY <1>8, <3>1, <3>2 DEF session_socket_read
  <2>3. decrypted' \in Nat /\ consumed' \in Nat
    BY <1>8, ReadTypes DEF session_socket_read, Take
  <2> QED
    BY <1>8, <2>1, <2>2, <2>3 DEF session_socket_read
<1>9. CASE session_socket_read_fails
  BY <1>9 DEF session_socket_read_fails, Disconnect
<1>10. CASE nothing_to_read
  BY <1>10 DEF nothing_to_read
<1>11. CASE read_wants_write
  <2>1. flags' \subseteq {"WRITE_WANTS_READ", "READ_WANTS_WRITE"}
    BY <1>11 DEF read_wants_write, WriteRetry
  <2>2. First(outgoing_buf, outgoing_offset) \in Seq(Nat)
    BY SessionBuffers
  <2>3. toServer' \in Seq(Nat)
    <3>1. toServer' = toServer \o First(outgoing_buf, outgoing_offset) \/ toServer' = toServer
      BY <1>11 DEF read_wants_write
    <3>2. toServer \in Seq(Nat)
      OBVIOUS
    <3>3. toServer \o First(outgoing_buf, outgoing_offset) \in Seq(Nat)
      BY <2>2, <3>2, Joined
    <3> QED
      BY <3>1, <3>2, <3>3
  <2> QED
    BY <1>11, <2>1, <2>3 DEF read_wants_write
<1>12. CASE handle_line
  <2>1. PICK n : /\ n = libirc_findcrlf(incoming_buf, incoming_offset, LineLen)
                 /\ n > 0 /\ libirc_process_incoming_data(n)
    BY <1>12 DEF handle_line
  <2>2. n \in 0 .. incoming_offset
    BY <2>1, FindInside
  <2>3. First(incoming_buf, n) \in Seq(Nat) /\ Moved(incoming_buf, incoming_offset, n) \in [1 .. InCap -> Nat]
    <3>1. n \in Nat
      BY <2>2
    <3> QED
      BY <2>2, <3>1, SessionBuffers, Zenon
  <2>a. handled' \in Seq(Nat)
    BY <2>1, <2>3, Joined DEF libirc_process_incoming_data
  <2>b. incoming_offset' \in 0 .. InCap
    BY <2>1, <2>2 DEF libirc_process_incoming_data
  <2>4. /\ handled' \in Seq(Nat) /\ incoming_buf' \in [1 .. InCap -> Nat]
        /\ incoming_offset' \in 0 .. InCap
    BY <2>1, <2>3, <2>a, <2>b DEF libirc_process_incoming_data
  <2> QED
    BY <1>12, <2>4, SMTT(30) DEF handle_line, Callback
<1>13. CASE no_more_lines
  BY <1>13 DEF no_more_lines
<1>14. CASE session_socket_write
  <2>1. flags' \subseteq {"WRITE_WANTS_READ", "READ_WANTS_WRITE"}
    BY <1>14 DEF session_socket_write, WriteRetry
  <2>2. length' \in 0 .. outgoing_offset
    BY <1>14 DEF session_socket_write
  <2>3. First(outgoing_buf, length') \in Seq(Nat)
    BY <2>2, SessionBuffers
  <2>4. toServer' \in Seq(Nat)
    <3>1. toServer' = toServer \o First(outgoing_buf, length') \/ toServer' = toServer
      BY <1>14 DEF session_socket_write
    <3>2. toServer \in Seq(Nat)
      OBVIOUS
    <3>3. toServer \o First(outgoing_buf, length') \in Seq(Nat)
      BY <2>3, <3>2, Joined
    <3> QED
      BY <3>1, <3>2, <3>3
  <2> QED
    BY <1>14, <2>1, <2>2, <2>4 DEF session_socket_write
<1>15. CASE session_socket_write_fails
  BY <1>15 DEF session_socket_write_fails, Disconnect
<1>16. CASE write_wants_read
  <2>1. flags' \subseteq {"WRITE_WANTS_READ", "READ_WANTS_WRITE"}
    BY <1>16 DEF write_wants_read, ReadRetry
  <2>2. incoming_buf' \in [1 .. InCap -> Nat]
    <3>1. CASE incoming_buf' = incoming_buf
      BY <3>1
    <3>2. ASSUME NEW n \in 1 .. Room, incoming_buf' = Copied(incoming_buf, incoming_offset, consumed, n)
          PROVE  incoming_buf' \in [1 .. InCap -> Nat]
      <4>1. n \in Nat /\ consumed \in Nat
        BY DEF Room
      <4> QED
        BY <3>2, <4>1, SessionBuffers
    <3> QED
      BY <1>16, <3>1, <3>2 DEF write_wants_read
  <2>3. decrypted' \in Nat /\ consumed' \in Nat
    BY <1>16, ReadTypes DEF write_wants_read
  <2> QED
    BY <1>16, <2>1, <2>2, <2>3 DEF write_wants_read
<1>17. CASE move_outgoing
  BY <1>17, BufferTypes DEF move_outgoing, Remainder
<1>18. CASE count_outgoing
  BY <1>18 DEF count_outgoing
<1>19. CASE nothing_to_write
  BY <1>19 DEF nothing_to_write
<1> QED
  BY <1>1, <1>2, <1>3, <1>4, <1>5, <1>6, <1>7, <1>8, <1>9, <1>10, <1>11, <1>12, <1>13, <1>14,
     <1>15, <1>16, <1>17, <1>18, <1>19 DEF MainLoop, irc_send_raw

\* So do the signal handler, the server and the network.
LEMMA OtherTypes ==
  ASSUME TypeInv, Signals # "anywhere",
         interrupt_handler \/ ServerSends \/ LinkBreaks \/ Returned \/ UNCHANGED vars
  PROVE  TypeInv'
<1> USE SessionAssumption DEF TypeInv, TypeOK, loop, outbuf, inbuf, taken, streams
<1>1. CASE interrupt_handler
  <2>1. pc = "watch" /\ quit' \in BOOLEAN
    BY <1>1 DEF interrupt_handler
  <2>2. outgoing_buf' \in [1 .. OutCap -> Nat]
    <3>1. accepted \in Nat /\ CmdLen \in Nat
      OBVIOUS
    <3>2. \/ outgoing_buf' = outgoing_buf
          \/ outgoing_buf' = Copied(outgoing_buf, outgoing_offset, accepted, CmdLen)
      BY <1>1 DEF interrupt_handler
    <3>3. outgoing_buf \in [1 .. OutCap -> Nat]
      OBVIOUS
    <3>4. Copied(outgoing_buf, outgoing_offset, accepted, CmdLen) \in [1 .. OutCap -> Nat]
      BY <3>1, SessionBuffers
    <3> QED
      BY <3>2, <3>3, <3>4
  <2>3. outgoing_offset' \in 0 .. OutCap /\ accepted' \in Nat
    BY <1>1 DEF interrupt_handler, Fits
  <2> QED
    BY <1>1, <2>1, <2>2, <2>3 DEF interrupt_handler
<1>2. CASE ServerSends
  BY <1>2 DEF ServerSends, Fits
<1>3. CASE LinkBreaks
  BY <1>3 DEF LinkBreaks, Fits
<1>4. CASE Returned
  BY <1>4 DEF Returned, vars, Fits
<1>5. CASE UNCHANGED vars
  BY <1>5 DEF vars, Fits
<1> QED
  BY <1>1, <1>2, <1>3, <1>4, <1>5

-----------------------------------------------------------------------------
(* The plain session.                                                       *)

\* Without TLS no call is to be repeated, so neither flag is ever set.
LEMMA NoFlags == ASSUME ~Tls, flags = {}, [Next]_vars PROVE flags' = {}
BY DEF Next, MainLoop, fdwatch, keep_alive_callback, irc_send_raw, irc_send_raw_copy,
       irc_send_raw_count, irc_send_raw_fails, callback_returns, handle_connecting_state,
       Disconnect, session_socket_read, ReadRetry, session_socket_read_fails, nothing_to_read,
       read_wants_write, WriteRetry, handle_line, no_more_lines, session_socket_write,
       session_socket_write_fails, write_wants_read, move_outgoing, count_outgoing,
       nothing_to_write, interrupt_handler, ServerSends, LinkBreaks, Returned, vars

\* The types that the proofs about the output need.
LEMMA OutTypes ==
  ASSUME TypeInv
  PROVE  /\ OutCap \in Nat /\ outgoing_buf \in [1 .. OutCap -> Nat] /\ outgoing_offset \in 0 .. OutCap
         /\ outgoing_offset \in Nat /\ length \in Nat /\ accepted \in Nat /\ CmdLen \in Nat
         /\ toServer \in Seq(Nat) /\ Len(toServer) \in Nat
BY SessionAssumption DEF TypeInv, TypeOK

\* A command is copied behind the others, and counted.
LEMMA CommandCopied ==
  ASSUME TypeInv, Fits, NEW b \in Nat, Queued(outgoing_buf, 0, outgoing_offset, b),
         outgoing_buf' = Copied(outgoing_buf, outgoing_offset, accepted, CmdLen)
  PROVE  /\ Queued(outgoing_buf', outgoing_offset, CmdLen, accepted)
         /\ Queued(outgoing_buf', 0, outgoing_offset, b)
<1>1. outgoing_offset + CmdLen <= OutCap
  BY OutTypes DEF Fits
<1> QED
  BY <1>1, OutTypes, CopyQueues

\* Steps that leave the output alone.
LEMMA OutIdle ==
  ASSUME OutInv, UNCHANGED <<outgoing_buf, outgoing_offset, accepted, toServer>>,
         \/ pc \notin {"sent", "moved"} /\ pc' \notin {"copied", "sent", "moved"}
         \/ UNCHANGED <<pc, length>>
  PROVE  OutInv'
BY DEF OutInv, CopiedInv

\* Every step keeps what outgoing_buf holds.
LEMMA OutputKept ==
  ASSUME PlainInv, TypeInv', ~Tls, Signals # "anywhere", Next
  PROVE  OutInv'
<1>0. TypeInv /\ OutInv /\ flags = {}
  BY DEF PlainInv
<1> USE DEF loop, outbuf, inbuf, taken, streams
<1>1. CASE irc_send_raw_copy
  <2>1. pc = "send" /\ Fits /\ pc' = "copied" /\ UNCHANGED <<outgoing_offset, accepted, toServer>>
    BY <1>1 DEF irc_send_raw_copy
  <2>2. /\ accepted = Len(toServer) + outgoing_offset
        /\ Queued(outgoing_buf, 0, outgoing_offset, Len(toServer))
    BY <1>0, <2>1 DEF OutInv
  <2>3. /\ Queued(outgoing_buf', outgoing_offset, CmdLen, accepted)
        /\ Queued(outgoing_buf', 0, outgoing_offset, Len(toServer))
    BY <1>0, <1>1, <2>1, <2>2, CommandCopied, OutTypes DEF irc_send_raw_copy
  <2> QED
    BY <2>1, <2>2, <2>3 DEF OutInv, CopiedInv
<1>2. CASE irc_send_raw_count
  <2>1. /\ pc = "copied" /\ pc' = "send" /\ UNCHANGED <<outgoing_buf, toServer>>
        /\ outgoing_offset' = outgoing_offset + CmdLen /\ accepted' = accepted + CmdLen
    BY <1>2 DEF irc_send_raw_count
  <2>2. /\ accepted = Len(toServer) + outgoing_offset
        /\ Queued(outgoing_buf, 0, outgoing_offset, Len(toServer))
        /\ Queued(outgoing_buf, outgoing_offset, CmdLen, accepted)
    BY <1>0, <2>1 DEF OutInv, CopiedInv
  <2>3. Queued(outgoing_buf, 0, outgoing_offset + CmdLen, Len(toServer))
    BY <1>0, <2>2, QueuesJoin, OutTypes
  <2>4. accepted' = Len(toServer) + outgoing_offset'
    BY <1>0, <2>1, <2>2, OutTypes
  <2> QED
    BY <2>1, <2>3, <2>4 DEF OutInv, CopiedInv
<1>3. CASE session_socket_write
  <2>1. /\ pc = "write" /\ pc' = "sent" /\ UNCHANGED <<outgoing_buf, outgoing_offset, accepted>>
        /\ toServer' = toServer \o First(outgoing_buf, length')
    BY <1>3 DEF session_socket_write, WriteRetry
  <2>2. length' \in 0 .. outgoing_offset
    BY <1>0, <1>3, OutTypes DEF session_socket_write
  <2>3. /\ accepted = Len(toServer) + outgoing_offset
        /\ Queued(outgoing_buf, 0, outgoing_offset, Len(toServer))
    BY <1>0, <2>1 DEF OutInv
  <2>4. Queued(outgoing_buf, length', outgoing_offset - length', Len(toServer) + length')
    BY <1>0, <2>2, <2>3, OutTypes, QueueSplits
  <2>5. Len(toServer') = Len(toServer) + length'
    <3>1. First(outgoing_buf, length') \in Seq(Nat) /\ Len(First(outgoing_buf, length')) = length'
      BY <1>0, <2>2, SessionBuffers
    <3>2. toServer \in Seq(Nat)
      BY <1>0, OutTypes
    <3> QED
      BY <2>1, <3>1, <3>2, Joined
  <2>6. accepted' = Len(toServer') + (outgoing_offset' - length')
    BY <1>0, <2>1, <2>2, <2>3, <2>5, OutTypes
  <2> QED
    BY <2>1, <2>4, <2>5, <2>6 DEF OutInv, CopiedInv
<1>4. CASE move_outgoing
  <2>1. /\ pc = "sent" /\ pc' = "moved" /\ UNCHANGED <<length, outgoing_offset, accepted, toServer>>
        /\ outgoing_buf' = Remainder
    BY <1>4 DEF move_outgoing
  <2>2. /\ accepted = Len(toServer) + (outgoing_offset - length)
        /\ Queued(outgoing_buf, length, outgoing_offset - length, Len(toServer))
    BY <1>0, <2>1 DEF OutInv
  <2>3. length \in 0 .. outgoing_offset
    BY <1>0, <2>1, OutTypes DEF TypeInv
  <2>4. Queued(outgoing_buf', 0, outgoing_offset - length, Len(toServer))
    <3>1. CASE length > 0 /\ outgoing_offset - length > 0
      BY <1>0, <2>1, <2>2, <2>3, <3>1, OutTypes, MoveQueues DEF Remainder
    <3>2. CASE length = 0
      BY <1>0, <2>1, <2>2, <3>2, OutTypes DEF Remainder
    <3>3. CASE ~(outgoing_offset - length > 0)
      <4>1. outgoing_offset - length = 0
        BY <1>0, <2>3, <3>3, OutTypes
      <4> QED
        BY <4>1 DEF Queued
    <3> QED
      BY <2>3, <3>1, <3>2, <3>3
  <2> QED
    BY <2>1, <2>2, <2>4 DEF OutInv, CopiedInv
<1>5. CASE count_outgoing
  BY <1>0, <1>5, OutTypes DEF count_outgoing, OutInv, CopiedInv
<1>6. CASE interrupt_handler
  <2>1. pc = "watch" /\ pc' = pc /\ UNCHANGED <<length, toServer>>
    BY <1>6, SessionAssumption DEF interrupt_handler
  <2>2. CASE UNCHANGED <<outbuf, accepted>>
    BY <1>0, <2>1, <2>2, OutIdle
  <2>3. CASE ~UNCHANGED <<outbuf, accepted>>
    <3>1. /\ Fits /\ outgoing_buf' = Copied(outgoing_buf, outgoing_offset, accepted, CmdLen)
          /\ outgoing_offset' = outgoing_offset + CmdLen /\ accepted' = accepted + CmdLen
      BY <1>6, <2>3 DEF interrupt_handler
    <3>2. /\ accepted = Len(toServer) + outgoing_offset
          /\ Queued(outgoing_buf, 0, outgoing_offset, Len(toServer))
      BY <1>0, <2>1 DEF OutInv
    <3>3. /\ Queued(outgoing_buf', outgoing_offset, CmdLen, accepted)
          /\ Queued(outgoing_buf', 0, outgoing_offset, Len(toServer))
      BY <1>0, <3>1, <3>2, CommandCopied, OutTypes
    <3>4. Queued(outgoing_buf', 0, outgoing_offset + CmdLen, Len(toServer))
      BY <1>0, <3>2, <3>3, QueuesJoin, OutTypes
    <3>5. accepted' = Len(toServer) + outgoing_offset'
      BY <1>0, <3>1, <3>2, OutTypes
    <3> QED
      BY <2>1, <3>1, <3>4, <3>5 DEF OutInv, CopiedInv
  <2> QED
    BY <2>2, <2>3
<1>7. CASE ServerSends \/ LinkBreaks \/ Returned
  <2>1. UNCHANGED <<pc, length, outgoing_buf, outgoing_offset, accepted, toServer>>
    BY <1>7 DEF ServerSends, LinkBreaks, Returned, vars
  <2> QED
    BY <1>0, <2>1, OutIdle
<1>8. CASE read_wants_write \/ write_wants_read
  BY <1>0, <1>8 DEF read_wants_write, write_wants_read
<1>9. CASE \/ \E write \in BOOLEAN : fdwatch(write)
           \/ keep_alive_callback \/ irc_send_raw_fails
           \/ callback_returns \/ handle_connecting_state
           \/ session_socket_read \/ session_socket_read_fails \/ nothing_to_read
           \/ handle_line \/ no_more_lines \/ session_socket_write_fails \/ nothing_to_write
  <2>1. UNCHANGED <<outgoing_buf, outgoing_offset, accepted, toServer>>
    BY <1>9 DEF fdwatch, keep_alive_callback, irc_send_raw_fails, callback_returns,
         handle_connecting_state, Disconnect, session_socket_read, session_socket_read_fails,
         nothing_to_read, handle_line, no_more_lines, session_socket_write_fails, nothing_to_write
  <2>2. back \in {"watch", "process", "lines"}
    BY <1>0 DEF TypeInv, TypeOK
  <2>3. pc \notin {"sent", "moved"} /\ pc' \notin {"copied", "sent", "moved"}
    BY <1>9, <2>2 DEF fdwatch, keep_alive_callback, Callback, irc_send_raw_fails, callback_returns,
         handle_connecting_state, Disconnect, session_socket_read, session_socket_read_fails,
         nothing_to_read, handle_line, no_more_lines, session_socket_write_fails, nothing_to_write
  <2> QED
    BY <1>0, <2>1, <2>3, OutIdle
<1> QED
  BY <1>1, <1>2, <1>3, <1>4, <1>5, <1>6, <1>7, <1>8, <1>9 DEF Next, MainLoop, irc_send_raw

\* The types that the proofs about the input need.
LEMMA InTypes ==
  ASSUME TypeInv
  PROVE  /\ InCap \in Nat /\ incoming_buf \in [1 .. InCap -> Nat] /\ incoming_offset \in 0 .. InCap
         /\ incoming_offset \in Nat /\ consumed \in Nat /\ produced \in Nat
         /\ LineLen \in Nat /\ LineLen >= 3 /\ LineLen <= InCap
         /\ handled \in Seq(Nat) /\ Len(handled) \in Nat
BY SessionAssumption DEF TypeInv, TypeOK

\* Steps that leave the input alone.
LEMMA InIdle ==
  ASSUME TypeInv, InInv, UNCHANGED <<incoming_buf, incoming_offset, consumed, handled>>,
         produced' \in Nat, produced <= produced', Handling' \/ incoming_offset < LineLen
  PROVE  InInv'
<1>1. consumed' <= produced'
  BY InTypes DEF InInv
<1> QED
  BY <1>1 DEF InInv

\* What the main loop looks for in incoming_buf: the end of its first line.
LEMMA FirstLine ==
  ASSUME TypeInv, InInv
  PROVE  libirc_findcrlf(incoming_buf, incoming_offset, LineLen)
           = IF incoming_offset < LineLen THEN 0 ELSE LineLen
<1>1. \A i \in 1 .. incoming_offset : incoming_buf[i] = Len(handled) + i
  BY InTypes DEF InInv, Queued
<1>2. Len(handled) % LineLen = 0
  BY DEF InInv
<1>3. /\ incoming_offset \in Nat /\ LineLen \in Nat /\ LineLen >= 3 /\ Len(handled) \in Nat
  BY InTypes
<1> QED
  BY <1>1, <1>2, <1>3, FindLine

\* A line that is handled is the one that follows what was handled.
LEMMA LineHandled ==
  ASSUME TypeInv, InInv, handle_line
  PROVE  /\ LineLen <= incoming_offset
         /\ handled' = handled \o From(Len(handled), LineLen)
         /\ Len(handled') = Len(handled) + LineLen
         /\ incoming_offset' = incoming_offset - LineLen
         /\ Queued(incoming_buf', 0, incoming_offset - LineLen, Len(handled) + LineLen)
<1>1. /\ libirc_findcrlf(incoming_buf, incoming_offset, LineLen) > 0
      /\ libirc_process_incoming_data(libirc_findcrlf(incoming_buf, incoming_offset, LineLen))
  BY DEF handle_line
<1>2. LineLen <= incoming_offset
  BY <1>1, FirstLine, InTypes
<1>3. libirc_process_incoming_data(LineLen)
  BY <1>1, <1>2, FirstLine, InTypes
<1>4. LineLen \in 0 .. incoming_offset
  BY <1>2, InTypes
<1>5. Queued(incoming_buf, 0, incoming_offset, Len(handled))
  BY DEF InInv
<1>6. /\ Queued(incoming_buf, LineLen, incoming_offset - LineLen, Len(handled) + LineLen)
      /\ First(incoming_buf, LineLen) = From(Len(handled), LineLen)
  <2>1. /\ InCap \in Nat /\ incoming_buf \in [1 .. InCap -> Nat] /\ incoming_offset \in 0 .. InCap
        /\ Len(handled) \in Nat
    BY InTypes
  <2> QED
    BY <1>4, <1>5, <2>1, QueueSplits
<1>7. Len(handled) + LineLen \in Nat
  BY InTypes
<1>8. Queued(Moved(incoming_buf, incoming_offset, LineLen), 0, incoming_offset - LineLen, Len(handled) + LineLen)
  BY <1>4, <1>6, <1>7, InTypes, MoveQueues
<1>9. First(incoming_buf, LineLen) \in Seq(Nat) /\ Len(First(incoming_buf, LineLen)) = LineLen
  BY <1>4, SessionBuffers
<1>10. Len(handled \o First(incoming_buf, LineLen)) = Len(handled) + LineLen
  BY <1>9, InTypes, Joined
<1> QED
  BY <1>2, <1>3, <1>6, <1>8, <1>10 DEF libirc_process_incoming_data

\* Every step keeps what incoming_buf holds.
LEMMA InputKept ==
  ASSUME PlainInv, TypeInv', ~Tls, Next
  PROVE  InInv'
<1>0. TypeInv /\ InInv /\ flags = {}
  BY DEF PlainInv
<1> USE DEF loop, outbuf, inbuf, taken, streams
<1>1. CASE session_socket_read
  <2>1. PICK n \in 1 .. Room : Take(n)
    BY <1>1 DEF session_socket_read, ReadRetry
  <2>2. n \in Nat /\ incoming_offset + n <= InCap /\ consumed + n <= produced
    BY <1>0, <2>1, InTypes DEF Room, Take, Reads, AtMostRoom
  <2>3. /\ consumed = Len(handled) + incoming_offset
        /\ Queued(incoming_buf, 0, incoming_offset, Len(handled))
    BY <1>0 DEF InInv
  <2>4. /\ incoming_buf' = Copied(incoming_buf, incoming_offset, consumed, n)
        /\ incoming_offset' = incoming_offset + n /\ consumed' = consumed + n
        /\ UNCHANGED <<handled, produced>> /\ pc' = "lines"
    BY <1>1, <2>1 DEF Take, session_socket_read
  <2>5. /\ Queued(incoming_buf', incoming_offset, n, consumed)
        /\ Queued(incoming_buf', 0, incoming_offset, Len(handled))
    BY <1>0, <2>2, <2>3, <2>4, InTypes, CopyQueues
  <2>6. Queued(incoming_buf', 0, incoming_offset + n, Len(handled))
    BY <1>0, <2>2, <2>3, <2>5, InTypes, QueuesJoin
  <2>7. consumed' = Len(handled) + incoming_offset' /\ consumed' <= produced'
    BY <1>0, <2>2, <2>3, <2>4, InTypes
  <2> QED
    BY <1>0, <2>4, <2>6, <2>7 DEF InInv, Handling
<1>2. CASE handle_line
  <2>1. /\ LineLen <= incoming_offset /\ Len(handled') = Len(handled) + LineLen
        /\ incoming_offset' = incoming_offset - LineLen
        /\ Queued(incoming_buf', 0, incoming_offset - LineLen, Len(handled) + LineLen)
    BY <1>0, <1>2, LineHandled
  <2>2. UNCHANGED <<consumed, produced>> /\ pc' = "send" /\ back' = "lines"
    BY <1>2 DEF handle_line, Callback
  <2>3. consumed' = Len(handled') + incoming_offset' /\ consumed' <= produced'
    BY <1>0, <2>1, <2>2, InTypes DEF InInv
  <2>4. (Len(handled) + LineLen) % LineLen = 0
    <3>1. LineLen \in Nat /\ LineLen > 0 /\ Len(handled) \in Nat
      BY <1>0, InTypes
    <3>2. LineLen % LineLen = 0
      BY <3>1, SmallRemainders
    <3>3. Len(handled) % LineLen = 0
      BY <1>0 DEF InInv
    <3> QED
      BY <3>1, <3>2, <3>3, MultipleAdded
  <2> QED
    BY <2>1, <2>2, <2>3, <2>4 DEF InInv, Handling
<1>3. CASE read_wants_write \/ write_wants_read
  BY <1>0, <1>3 DEF read_wants_write, write_wants_read
<1>4. CASE no_more_lines
  <2>1. incoming_offset < LineLen
    BY <1>0, <1>4, FirstLine, InTypes DEF no_more_lines
  <2>2. UNCHANGED <<incoming_buf, incoming_offset, consumed, handled, produced>>
    BY <1>4 DEF no_more_lines
  <2> QED
    BY <1>0, <2>1, <2>2, InIdle, InTypes
<1>5. CASE ServerSends
  <2>1. /\ UNCHANGED <<incoming_buf, incoming_offset, consumed, handled, pc, back>>
        /\ produced' = produced + LineLen
    BY <1>5 DEF ServerSends
  <2>2. produced' \in Nat /\ produced <= produced'
    BY <1>0, <2>1, InTypes
  <2>3. Handling' \/ incoming_offset < LineLen
    BY <1>0, <2>1 DEF InInv, Handling
  <2> QED
    BY <1>0, <2>1, <2>2, <2>3, InIdle
<1>6. CASE \/ \E write \in BOOLEAN : fdwatch(write)
           \/ keep_alive_callback \/ irc_send_raw
           \/ callback_returns \/ handle_connecting_state
           \/ session_socket_read_fails \/ nothing_to_read
           \/ session_socket_write \/ session_socket_write_fails \/ move_outgoing
           \/ count_outgoing \/ nothing_to_write
           \/ interrupt_handler \/ LinkBreaks \/ Returned
  <2>1. UNCHANGED <<incoming_buf, incoming_offset, consumed, handled, produced>>
    BY <1>6 DEF fdwatch, keep_alive_callback, irc_send_raw, irc_send_raw_copy,
         irc_send_raw_count, irc_send_raw_fails, callback_returns, handle_connecting_state,
         Disconnect, session_socket_read_fails, nothing_to_read, session_socket_write,
         session_socket_write_fails, move_outgoing, count_outgoing, nothing_to_write,
         interrupt_handler, LinkBreaks, Returned, vars
  <2>2. Handling => Handling'
    BY <1>6 DEF Handling, fdwatch, keep_alive_callback, irc_send_raw, irc_send_raw_copy,
         irc_send_raw_count, irc_send_raw_fails, callback_returns, handle_connecting_state,
         session_socket_read_fails, nothing_to_read, session_socket_write,
         session_socket_write_fails, move_outgoing, count_outgoing, nothing_to_write,
         interrupt_handler, LinkBreaks, Returned, vars
  <2>3. Handling' \/ incoming_offset < LineLen
    BY <1>0, <2>2 DEF InInv
  <2> QED
    BY <1>0, <2>1, <2>3, InIdle, InTypes
<1> QED
  BY <1>1, <1>2, <1>3, <1>4, <1>5, <1>6 DEF Next, MainLoop

\* The invariant of a plain session.
LEMMA PlainHolds ==
  ASSUME ~Tls, Signals # "anywhere"
  PROVE  Spec => []PlainInv
<1>1. ASSUME Init PROVE PlainInv
  <2>1. TypeInv /\ flags = {}
    BY <1>1, TypeInit DEF Init
  <2>2. Len(toServer) = 0 /\ Len(handled) = 0
    BY <1>1 DEF Init
  <2>3. OutInv
    BY <1>1, <2>2 DEF Init, OutInv, CopiedInv, Queued
  <2>4. 0 % LineLen = 0
    <3>1. LineLen \in Nat /\ LineLen > 0
      BY SessionAssumption
    <3> QED
      BY <3>1, SmallRemainders
  <2>5. InInv
    BY <1>1, <2>2, <2>4, SessionAssumption DEF Init, InInv, Handling, Queued
  <2> QED
    BY <2>1, <2>3, <2>5 DEF PlainInv
<1>2. ASSUME PlainInv, [Next]_vars PROVE PlainInv'
  <2>1. CASE Next
    <3>1. TypeInv'
      BY <1>2, <2>1, MainLoopTypes, OtherTypes DEF PlainInv, Next
    <3> QED
      BY <1>2, <2>1, <3>1, NoFlags, OutputKept, InputKept DEF PlainInv
  <2>2. CASE UNCHANGED vars
    <3>1. TypeInv'
      BY <1>2, <2>2, OtherTypes DEF PlainInv
    <3>2. /\ UNCHANGED <<pc, back, length, outgoing_buf, outgoing_offset, accepted, toServer>>
          /\ UNCHANGED <<incoming_buf, incoming_offset, consumed, handled, produced, flags>>
      BY <2>2 DEF vars, loop, outbuf, inbuf, taken, streams
    <3>3. OutInv'
      BY <1>2, <3>2, OutIdle DEF PlainInv
    <3>4. InInv'
      BY <1>2, <3>2 DEF PlainInv, InInv, Handling
    <3> QED
      BY <1>2, <3>1, <3>2, <3>3, <3>4 DEF PlainInv
  <2> QED
    BY <1>2, <2>1, <2>2
<1> QED
  BY <1>1, <1>2, PTL DEF Spec

\* BuffersHaveRoom: no offset leaves its buffer, and the main loop never watches with a
\* full incoming_buf, so it goes on reading.  Over TLS it may: what write_wants_read
\* discards breaks the lines of incoming_buf, and no CR LF may be left in it.
THEOREM HasRoom ==
  ASSUME ~Tls, Signals # "anywhere"
  PROVE  Spec => []BuffersHaveRoom
<1>1. PlainInv => BuffersHaveRoom
  BY InTypes, SessionAssumption DEF PlainInv, TypeInv, InInv, Handling, BuffersHaveRoom
<1> QED
  BY <1>1, PlainHolds, PTL

\* A step of the session is a step of the channel.
LEMMA StreamStep ==
  ASSUME PlainInv, PlainInv', ~Tls, Next
  PROVE  [Streams!Next]_(Streams!streams)
<1>0. TypeInv /\ OutInv /\ InInv /\ flags = {}
  BY DEF PlainInv
<1> USE DEF loop, outbuf, inbuf, taken, streams
<1>1. CASE irc_send_raw_count
  BY <1>1 DEF irc_send_raw_count, Streams!Next, Streams!Accept
<1>2. CASE interrupt_handler
  <2>1. CASE UNCHANGED accepted
    BY <1>2, <2>1 DEF interrupt_handler, Streams!streams
  <2>2. CASE accepted' = accepted + CmdLen
    BY <1>2, <2>2 DEF interrupt_handler, Streams!Next, Streams!Accept
  <2> QED
    BY <1>2, <2>1, <2>2 DEF interrupt_handler
<1>3. CASE session_socket_write
  <2>1. /\ pc = "write" /\ UNCHANGED <<accepted, produced, handled>>
        /\ toServer' = toServer \o First(outgoing_buf, length')
    BY <1>3 DEF session_socket_write, WriteRetry
  <2>2. length' \in 1 .. outgoing_offset
    BY <1>0, <1>3, OutTypes DEF session_socket_write, WriteRetry
  <2>3. /\ accepted = Len(toServer) + outgoing_offset
        /\ Queued(outgoing_buf, 0, outgoing_offset, Len(toServer))
    BY <1>0, <2>1 DEF OutInv
  <2>4. length' \in 1 .. accepted - Len(toServer) /\ length' \in 0 .. outgoing_offset
    BY <1>0, <2>2, <2>3, OutTypes
  <2>5. First(outgoing_buf, length') = From(Len(toServer), length')
    <3>1. /\ OutCap \in Nat /\ outgoing_buf \in [1 .. OutCap -> Nat] /\ outgoing_offset \in 0 .. OutCap
          /\ Len(toServer) \in Nat
      BY <1>0, OutTypes
    <3> QED
      BY <2>3, <2>4, <3>1, QueueSplits
  <2>6. toServer' = toServer \o Streams!Following(toServer, length')
    BY <2>1, <2>5 DEF Streams!Following, From
  <2> QED
    BY <2>1, <2>4, <2>6 DEF Streams!Next, Streams!Deliver
<1>4. CASE ServerSends
  BY <1>4 DEF ServerSends, Streams!Next, Streams!Produce
<1>5. CASE handle_line
  <2>1. /\ LineLen <= incoming_offset
        /\ handled' = handled \o From(Len(handled), LineLen)
    BY <1>0, <1>5, LineHandled
  <2>2. UNCHANGED <<accepted, toServer, produced>>
    BY <1>5 DEF handle_line
  <2>3. Len(handled) + LineLen <= produced
    BY <1>0, <2>1, InTypes DEF InInv
  <2> QED
    BY <2>1, <2>2, <2>3 DEF Streams!Next, Streams!Handle, Streams!Following, From
<1>6. CASE read_wants_write \/ write_wants_read
  BY <1>0, <1>6 DEF read_wants_write, write_wants_read
<1>7. CASE \/ \E write \in BOOLEAN : fdwatch(write)
           \/ keep_alive_callback \/ irc_send_raw_copy \/ irc_send_raw_fails
           \/ callback_returns \/ handle_connecting_state \/ session_socket_read
           \/ session_socket_read_fails \/ nothing_to_read \/ no_more_lines
           \/ session_socket_write_fails \/ move_outgoing
           \/ count_outgoing \/ nothing_to_write \/ LinkBreaks \/ Returned
  BY <1>7 DEF fdwatch, keep_alive_callback, irc_send_raw_copy, irc_send_raw_fails,
       callback_returns, handle_connecting_state, Disconnect, session_socket_read,
       session_socket_read_fails, nothing_to_read, no_more_lines, session_socket_write_fails,
       move_outgoing, count_outgoing, nothing_to_write, LinkBreaks, Returned, vars,
       Streams!streams
<1> QED
  BY <1>1, <1>2, <1>3, <1>4, <1>5, <1>6, <1>7 DEF Next, MainLoop, irc_send_raw

\* IsChannel: the plain session implements Channel, whatever the sizes of commands, lines
\* and buffers: what send has taken is what the server is still to get, in order, and
\* every line is handled once and whole.
THEOREM ImplementsChannel ==
  ASSUME ~Tls, Signals # "anywhere"
  PROVE  Spec => IsChannel
<1>1. Init => Streams!Init
  BY DEF Init, Streams!Init
<1>2. ASSUME PlainInv, PlainInv', [Next]_vars PROVE [Streams!Next]_(Streams!streams)
  <2>1. CASE Next
    BY <1>2, <2>1, StreamStep
  <2>2. CASE UNCHANGED vars
    BY <2>2 DEF vars, streams, Streams!streams
  <2> QED
    BY <1>2, <2>1, <2>2
<1> QED
  BY <1>1, <1>2, PlainHolds, PTL DEF Spec, IsChannel, Streams!Spec

-----------------------------------------------------------------------------
(* Whole commands, plain or over TLS.                                       *)

\* The body of OutputWhole, of any stream and counter.
Whole(s, acc) ==
  /\ Len(s) % CmdLen = 0
  /\ \A i \in 1 .. Len(s) :
       /\ s[i] \in 1 .. acc
       /\ s[i] % CmdLen = i % CmdLen
       /\ i % CmdLen # 1 => s[i] = s[i - 1] + 1

\* The difference of two multiples is one.
LEMMA MultiplesDiffer ==
  ASSUME NEW L \in Nat, L > 0, NEW a \in Nat, NEW b \in Nat, b <= a, a % L = 0, b % L = 0
  PROVE  a - b \in Nat /\ (a - b) % L = 0
<1>1. a - b \in Nat /\ b + (a - b) = a
  OBVIOUS
<1>2. (b + (a - b)) % L = (a - b) % L
  BY <1>1, MultipleAdded
<1> QED
  BY <1>1, <1>2

\* Another command is a multiple again.
LEMMA CommandAdded ==
  ASSUME NEW a \in Nat, a % CmdLen = 0
  PROVE  a + CmdLen \in Nat /\ (a + CmdLen) % CmdLen = 0
<1>1. CmdLen \in Nat /\ CmdLen > 0
  BY SessionAssumption
<1>2. CmdLen % CmdLen = 0
  BY <1>1, SmallRemainders
<1>3. (a + CmdLen) % CmdLen = CmdLen % CmdLen
  BY <1>1, MultipleAdded
<1>4. a + CmdLen \in Nat
  BY <1>1
<1> QED
  BY <1>2, <1>3, <1>4

\* Units that follow base, behind a stream.
LEMMA FromJoined ==
  ASSUME NEW s \in Seq(Nat), NEW b \in Nat, NEW n \in Nat
  PROVE  /\ Len(s \o From(b, n)) = Len(s) + n
         /\ \A i \in 1 .. Len(s) : (s \o From(b, n))[i] = s[i]
         /\ \A i \in 1 .. n : (s \o From(b, n))[Len(s) + i] = b + i
<1>1. PICK g : g = From(b, n)
  OBVIOUS
<1>2. g \in [1 .. n -> Nat] /\ \A i \in 1 .. n : g[i] = b + i
  BY <1>1 DEF From
<1>3. g \in Seq(Nat) /\ Len(g) = n
  BY <1>2
<1>4. /\ Len(s \o g) = Len(s) + Len(g)
      /\ \A i \in 1 .. Len(s) : (s \o g)[i] = s[i]
      /\ \A i \in 1 .. Len(g) : (s \o g)[Len(s) + i] = g[i]
  BY <1>3, SMTT(30)
<1> QED
  BY <1>1, <1>2, <1>3, <1>4

\* Whole commands behind whole commands.
LEMMA WholeGrows ==
  ASSUME NEW s \in Seq(Nat), NEW acc \in Nat, Whole(s, acc), NEW b \in Nat, NEW n \in Nat,
         b % CmdLen = 0, n % CmdLen = 0, b + n <= acc
  PROVE  Whole(s \o From(b, n), acc)
<1> DEFINE t == s \o From(b, n)
<1>0. CmdLen \in Nat /\ CmdLen > 1 /\ Len(s) \in Nat /\ Len(s) % CmdLen = 0
  BY SessionAssumption DEF Whole
<1>2. /\ Len(t) = Len(s) + n
      /\ \A i \in 1 .. Len(s) : t[i] = s[i]
      /\ \A i \in 1 .. n : t[Len(s) + i] = b + i
  BY FromJoined
<1> HIDE DEF t
<1>3. Len(t) % CmdLen = 0
  <2>1. CmdLen > 0
    BY <1>0
  <2>2. (Len(s) + n) % CmdLen = n % CmdLen
    BY <1>0, <2>1, MultipleAdded
  <2> QED
    BY <1>2, <2>2
<1>4. 1 % CmdLen = 1
  BY <1>0, SmallRemainders
<1>5. ASSUME NEW i \in 1 .. Len(s)
      PROVE  /\ t[i] \in 1 .. acc /\ t[i] % CmdLen = i % CmdLen
             /\ i % CmdLen # 1 => t[i] = t[i - 1] + 1
  <2>1. i % CmdLen # 1 => i # 1
    BY <1>4
  <2>2. i # 1 => i - 1 \in 1 .. Len(s)
    BY <1>0
  <2> QED
    BY <1>2, <2>1, <2>2 DEF Whole
<1>6. ASSUME NEW j \in 1 .. n, NEW i \in Nat, i = Len(s) + j
      PROVE  /\ t[i] \in 1 .. acc /\ t[i] % CmdLen = i % CmdLen
             /\ i % CmdLen # 1 => t[i] = t[i - 1] + 1
  <2>1. j \in Nat /\ CmdLen > 0
    BY <1>0
  <2>2. (b + j) % CmdLen = j % CmdLen /\ (Len(s) + j) % CmdLen = j % CmdLen
    BY <1>0, <2>1, MultipleAdded
  <2>3. t[i] = b + j
    BY <1>2, <1>6
  <2>4. i % CmdLen # 1 => j # 1
    BY <1>4, <1>6, <2>2
  <2>5. ASSUME j # 1 PROVE t[i] = t[i - 1] + 1
    <3>1. j - 1 \in 1 .. n /\ Len(s) + (j - 1) = i - 1
      BY <1>0, <1>6, <2>5
    <3>2. t[Len(s) + (j - 1)] = b + (j - 1)
      BY <1>2, <3>1
    <3> QED
      BY <2>3, <3>1, <3>2
  <2>6. b + j \in 1 .. acc
    OBVIOUS
  <2>7. t[i] % CmdLen = i % CmdLen
    BY <1>6, <2>2, <2>3
  <2> QED
    BY <2>3, <2>4, <2>5, <2>6, <2>7
<1>7. ASSUME NEW i \in 1 .. Len(t), i \notin 1 .. Len(s)
      PROVE  i - Len(s) \in 1 .. n /\ Len(s) + (i - Len(s)) = i
  BY <1>0, <1>2, <1>7
<1>8. \A i \in 1 .. Len(t) :
        /\ t[i] \in 1 .. acc /\ t[i] % CmdLen = i % CmdLen
        /\ i % CmdLen # 1 => t[i] = t[i - 1] + 1
  <2> SUFFICES ASSUME NEW i \in 1 .. Len(t)
               PROVE  /\ t[i] \in 1 .. acc /\ t[i] % CmdLen = i % CmdLen
                      /\ i % CmdLen # 1 => t[i] = t[i - 1] + 1
    OBVIOUS
  <2>1. CASE i \in 1 .. Len(s)
    BY <1>5, <2>1
  <2>2. CASE i \notin 1 .. Len(s)
    <3>1. i - Len(s) \in 1 .. n /\ i = Len(s) + (i - Len(s)) /\ i \in Nat
      BY <1>7, <2>2
    <3> QED
      BY <1>6, <3>1
  <2> QED
    BY <2>1, <2>2
<1>9. Whole(t, acc)
  BY <1>3, <1>8 DEF Whole
<1> QED
  BY <1>9 DEF t

\* Accepting more keeps what was sent whole.
LEMMA WholeLater ==
  ASSUME NEW s \in Seq(Nat), NEW acc \in Nat, Whole(s, acc), NEW more \in Nat, acc <= more
  PROVE  Whole(s, more)
<1>1. \A i \in 1 .. Len(s) : s[i] \in 1 .. acc => s[i] \in 1 .. more
  OBVIOUS
<1> QED
  BY <1>1 DEF Whole

\* Where the output is left alone WholeInv is kept.
LEMMA WholeIdle ==
  ASSUME WholeInv, TypeInv', UNCHANGED <<outgoing_buf, outgoing_offset, accepted, toServer>>,
         \/ pc' \notin {"copied", "sent", "moved"}
         \/ pc' = "sent" /\ length' = 0
         \/ UNCHANGED <<pc, length>>
         \/ pc = "sent" /\ pc' = "moved" /\ UNCHANGED length
  PROVE  WholeInv'
BY DEF WholeInv, CopiedInv, OutputWhole

\* A command is accepted: it was copied, and now it is counted.
LEMMA WholeAccepts ==
  ASSUME WholeInv, TypeInv',
         accepted' = accepted + CmdLen, outgoing_offset' = outgoing_offset + CmdLen,
         Queued(outgoing_buf', 0, outgoing_offset, accepted - outgoing_offset),
         Queued(outgoing_buf', outgoing_offset, CmdLen, accepted),
         toServer' = toServer, pc' \notin {"copied", "sent", "moved"}
  PROVE  WholeInv'
<1>0. TypeInv /\ outgoing_offset <= accepted /\ accepted % CmdLen = 0 /\ outgoing_offset % CmdLen = 0
  BY DEF WholeInv
<1>1. accepted' % CmdLen = 0 /\ outgoing_offset' % CmdLen = 0
  BY <1>0, CommandAdded, OutTypes
<1>2. /\ outgoing_offset' <= accepted' /\ accepted' - outgoing_offset' = accepted - outgoing_offset
      /\ accepted - outgoing_offset \in Nat /\ (accepted - outgoing_offset) + outgoing_offset = accepted
      /\ accepted + CmdLen \in Nat /\ accepted <= accepted + CmdLen
  BY <1>0, OutTypes
<1>3. Queued(outgoing_buf', 0, outgoing_offset + CmdLen, accepted - outgoing_offset)
  BY <1>0, <1>2, QueuesJoin, OutTypes
<1>4. Whole(toServer, accepted)
  BY DEF WholeInv, OutputWhole, Whole
<1>5. Whole(toServer, accepted + CmdLen)
  BY <1>0, <1>2, <1>4, OutTypes, WholeLater
<1>6. OutputWhole'
  BY <1>5 DEF OutputWhole, Whole
<1> QED
  BY <1>1, <1>2, <1>3, <1>6 DEF WholeInv, CopiedInv

\* All of outgoing_buf reaches the server.
LEMMA WholeSent ==
  ASSUME WholeInv, TypeInv', UNCHANGED <<outgoing_buf, outgoing_offset, accepted>>,
         toServer' = toServer \o First(outgoing_buf, outgoing_offset),
         \/ pc' = "lines"
         \/ pc' = "sent" /\ length' = outgoing_offset
  PROVE  WholeInv'
<1> DEFINE b == accepted - outgoing_offset
<1>0. /\ TypeInv /\ outgoing_offset <= accepted /\ accepted % CmdLen = 0
      /\ outgoing_offset % CmdLen = 0 /\ Queued(outgoing_buf, 0, outgoing_offset, b)
  BY DEF WholeInv
<1>1. CmdLen \in Nat /\ CmdLen > 0
  BY SessionAssumption
<1>2. b \in Nat /\ b % CmdLen = 0
  BY <1>0, <1>1, OutTypes, MultiplesDiffer
<1>3. b + outgoing_offset <= accepted
  BY <1>0, OutTypes
<1> HIDE DEF b
<1>4. outgoing_offset \in 0 .. outgoing_offset
  BY <1>0, OutTypes
<1>5. First(outgoing_buf, outgoing_offset) = From(b, outgoing_offset)
  <2>1. OutCap \in Nat /\ outgoing_buf \in [1 .. OutCap -> Nat] /\ outgoing_offset \in 0 .. OutCap
    BY <1>0, OutTypes
  <2> QED
    BY <1>0, <1>2, <1>4, <2>1, QueueSplits
<1>6. Whole(toServer, accepted)
  BY DEF WholeInv, OutputWhole, Whole
<1>7. Whole(toServer \o From(b, outgoing_offset), accepted)
  BY <1>0, <1>2, <1>3, <1>6, OutTypes, WholeGrows
<1>8. OutputWhole'
  BY <1>5, <1>7 DEF OutputWhole, Whole
<1> QED
  BY <1>8 DEF WholeInv, CopiedInv

\* Every step keeps the commands whole when send takes all or nothing.
LEMMA WholeKept ==
  ASSUME WholeInv, TypeInv', ~Partial, Signals # "anywhere", Next
  PROVE  WholeInv'
<1>0. /\ TypeInv /\ outgoing_offset <= accepted
      /\ Queued(outgoing_buf, 0, outgoing_offset, accepted - outgoing_offset)
      /\ accepted - outgoing_offset \in Nat
  BY OutTypes DEF WholeInv
<1> USE DEF loop, outbuf, inbuf, taken, streams
<1>1. CASE irc_send_raw_copy
  <2>1. Fits /\ pc' = "copied" /\ UNCHANGED <<outgoing_offset, accepted, toServer>>
    BY <1>1 DEF irc_send_raw_copy
  <2>2. /\ Queued(outgoing_buf', outgoing_offset, CmdLen, accepted)
        /\ Queued(outgoing_buf', 0, outgoing_offset, accepted - outgoing_offset)
    BY <1>0, <1>1, <2>1, CommandCopied DEF irc_send_raw_copy
  <2> QED
    BY <2>1, <2>2 DEF WholeInv, CopiedInv, OutputWhole
<1>2. CASE irc_send_raw_count
  <2>1. /\ pc = "copied" /\ pc' = "send" /\ UNCHANGED <<outgoing_buf, toServer>>
        /\ outgoing_offset' = outgoing_offset + CmdLen /\ accepted' = accepted + CmdLen
    BY <1>2 DEF irc_send_raw_count
  <2>2. Queued(outgoing_buf, outgoing_offset, CmdLen, accepted)
    BY <2>1 DEF WholeInv, CopiedInv
  <2> QED
    BY <1>0, <2>1, <2>2, WholeAccepts
<1>3. CASE interrupt_handler
  <2>1. pc = "watch" /\ UNCHANGED <<pc, length, toServer>>
    BY <1>3, SessionAssumption DEF interrupt_handler
  <2>2. CASE UNCHANGED <<outbuf, accepted>>
    BY <2>1, <2>2, WholeIdle
  <2>3. CASE ~UNCHANGED <<outbuf, accepted>>
    <3>1. /\ Fits /\ outgoing_buf' = Copied(outgoing_buf, outgoing_offset, accepted, CmdLen)
          /\ outgoing_offset' = outgoing_offset + CmdLen /\ accepted' = accepted + CmdLen
      BY <1>3, <2>3 DEF interrupt_handler
    <3>2. /\ Queued(outgoing_buf', outgoing_offset, CmdLen, accepted)
          /\ Queued(outgoing_buf', 0, outgoing_offset, accepted - outgoing_offset)
      BY <1>0, <3>1, CommandCopied
    <3> QED
      BY <2>1, <3>1, <3>2, WholeAccepts
  <2> QED
    BY <2>2, <2>3
<1>4. CASE session_socket_write
  <2>1. pc' = "sent" /\ UNCHANGED <<outgoing_buf, outgoing_offset, accepted>>
    BY <1>4 DEF session_socket_write
  <2>2. CASE length' = 0 /\ toServer' = toServer
    BY <2>1, <2>2, WholeIdle
  <2>3. CASE length' = outgoing_offset /\ toServer' = toServer \o First(outgoing_buf, length')
    BY <2>1, <2>3, WholeSent
  <2> QED
    BY <1>4, <2>2, <2>3 DEF session_socket_write
<1>5. CASE read_wants_write
  <2>1. pc' = "lines" /\ UNCHANGED <<outgoing_buf, outgoing_offset, accepted>>
    BY <1>5 DEF read_wants_write
  <2>2. CASE toServer' = toServer
    BY <2>1, <2>2, WholeIdle
  <2>3. CASE toServer' = toServer \o First(outgoing_buf, outgoing_offset)
    BY <2>1, <2>3, WholeSent
  <2> QED
    BY <1>5, <2>2, <2>3 DEF read_wants_write
<1>6. CASE write_wants_read
  <2>1. pc' = "sent" /\ length' = 0 /\ UNCHANGED <<outgoing_buf, outgoing_offset, accepted, toServer>>
    BY <1>6 DEF write_wants_read
  <2> QED
    BY <2>1, WholeIdle
<1>7. CASE move_outgoing
  <2>1. /\ pc = "sent" /\ pc' = "moved" /\ UNCHANGED <<length, outgoing_offset, accepted, toServer>>
        /\ outgoing_buf' = Remainder
    BY <1>7 DEF move_outgoing
  <2>2. length = 0 \/ length = outgoing_offset
    BY <2>1 DEF WholeInv
  <2>3. outgoing_buf' = outgoing_buf
    BY <1>0, <2>1, <2>2, OutTypes DEF Remainder
  <2> QED
    BY <2>1, <2>3, WholeIdle
<1>8. CASE count_outgoing
  <2>1. /\ pc = "moved" /\ pc' = "watch" /\ UNCHANGED <<outgoing_buf, accepted, toServer>>
        /\ outgoing_offset' = outgoing_offset - length
    BY <1>8 DEF count_outgoing
  <2>2. length = 0 \/ length = outgoing_offset
    BY <2>1 DEF WholeInv
  <2>3. CASE length = 0
    <3>1. outgoing_offset' = outgoing_offset
      BY <1>0, <2>1, <2>3, OutTypes
    <3> QED
      BY <2>1, <3>1, WholeIdle
  <2>4. CASE length = outgoing_offset
    <3>1. outgoing_offset' = 0
      BY <1>0, <2>1, <2>4, OutTypes
    <3>2. 0 % CmdLen = 0
      <4>1. CmdLen \in Nat /\ CmdLen > 0
        BY SessionAssumption
      <4> QED
        BY <4>1, SmallRemainders
    <3>3. 0 <= accepted /\ Queued(outgoing_buf', 0, 0, accepted' - 0)
      BY <1>0, OutTypes DEF Queued
    <3> QED
      BY <2>1, <3>1, <3>2, <3>3 DEF WholeInv, CopiedInv, OutputWhole
  <2> QED
    BY <2>2, <2>3, <2>4
<1>9. CASE ServerSends \/ LinkBreaks \/ Returned
  <2>1. UNCHANGED <<pc, length, outgoing_buf, outgoing_offset, accepted, toServer>>
    BY <1>9 DEF ServerSends, LinkBreaks, Returned, vars
  <2> QED
    BY <2>1, WholeIdle
<1>10. CASE \/ \E write \in BOOLEAN : fdwatch(write)
            \/ keep_alive_callback \/ irc_send_raw_fails
            \/ callback_returns \/ handle_connecting_state
            \/ session_socket_read \/ session_socket_read_fails \/ nothing_to_read
            \/ handle_line \/ no_more_lines \/ session_socket_write_fails \/ nothing_to_write
  <2>1. UNCHANGED <<outgoing_buf, outgoing_offset, accepted, toServer>>
    BY <1>10 DEF fdwatch, keep_alive_callback, irc_send_raw_fails, callback_returns,
         handle_connecting_state, Disconnect, session_socket_read, session_socket_read_fails,
         nothing_to_read, handle_line, no_more_lines, session_socket_write_fails, nothing_to_write
  <2>2. back \in {"watch", "process", "lines"}
    BY <1>0 DEF TypeInv, TypeOK
  <2>3. pc' \notin {"copied", "sent", "moved"}
    BY <1>10, <2>2 DEF fdwatch, keep_alive_callback, Callback, irc_send_raw_fails, callback_returns,
         handle_connecting_state, Disconnect, session_socket_read, session_socket_read_fails,
         nothing_to_read, handle_line, no_more_lines, session_socket_write_fails, nothing_to_write
  <2> QED
    BY <2>1, <2>3, WholeIdle
<1> QED
  BY <1>1, <1>2, <1>3, <1>4, <1>5, <1>6, <1>7, <1>8, <1>9, <1>10 DEF Next, MainLoop, irc_send_raw

\* OutputWhole: whatever OpenSSL wants to be called again for, and whatever is sent twice
\* by the call whose result read_wants_write discards, the server reads whole commands
\* that were accepted.  SSL_write takes all of outgoing_buf or nothing (~Partial).
THEOREM SendsWhole ==
  ASSUME ~Partial, Signals # "anywhere"
  PROVE  Spec => []OutputWhole
<1>1. ASSUME Init PROVE WholeInv
  <2>1. TypeInv
    BY <1>1, TypeInit
  <2>2. Len(toServer) = 0
    BY <1>1 DEF Init
  <2>3. 0 % CmdLen = 0
    <3>1. CmdLen \in Nat /\ CmdLen > 0
      BY SessionAssumption
    <3> QED
      BY <3>1, SmallRemainders
  <2>4. OutputWhole
    BY <2>2, <2>3 DEF OutputWhole
  <2> QED
    BY <1>1, <2>1, <2>3, <2>4 DEF Init, WholeInv, CopiedInv, Queued
<1>2. ASSUME WholeInv, [Next]_vars PROVE WholeInv'
  <2>1. CASE Next
    <3>1. TypeInv'
      BY <1>2, <2>1, MainLoopTypes, OtherTypes DEF WholeInv, Next
    <3> QED
      BY <1>2, <2>1, <3>1, WholeKept
  <2>2. CASE UNCHANGED vars
    <3>1. TypeInv'
      BY <1>2, <2>2, OtherTypes DEF WholeInv
    <3>2. UNCHANGED <<pc, length, outgoing_buf, outgoing_offset, accepted, toServer>>
      BY <2>2 DEF vars, loop, outbuf, streams
    <3> QED
      BY <1>2, <3>1, <3>2, WholeIdle
  <2> QED
    BY <1>2, <2>1, <2>2
<1>3. WholeInv => OutputWhole
  BY DEF WholeInv
<1> QED
  BY <1>1, <1>2, <1>3, PTL DEF Spec
===============================================================================
