--------------------------------- MODULE Sds ---------------------------------
(***************************************************************************)
(* The dynamic strings of sds.c and sds.h: one string, in the block that   *)
(* holds its header and its bytes, under every sequence of the library's   *)
(* calls.  The header's type decides how wide len and alloc are; the       *)
(* widths are parameters, so that a small instance crosses all of them.    *)
(*                                                                         *)
(* A call whose allocation fails returns NULL and leaves the string as it  *)
(* was: a stuttering step.                                                 *)
(***************************************************************************)
EXTENDS Integers, Sequences

CONSTANTS
  SdsLimit,      \* per header type, the first length it cannot hold: 2^5, 2^8, 2^16, 2^32, 2^64
  SdsHdr,        \* per header type, sizeof(struct sdshdr..): 1, 3, 5, 9, 17
  SdsWidest,     \* the widest type of the build: SDS_TYPE_64, or SDS_TYPE_32 where long is 32 bits
  SdsPrealloc,   \* SDS_MAX_PREALLOC
  SdsStatic,     \* sizeof(staticbuf) in sdscatvprintf
  SdsBytes,      \* characters other than NUL
  SdsMaxLen,     \* bound: length of a string
  SdsMaxAdd      \* bound: length of what one call adds

SdsTypes == 0..4    \* SDS_TYPE_5, SDS_TYPE_8, SDS_TYPE_16, SDS_TYPE_32, SDS_TYPE_64

ASSUME SdsAssumption ==
  /\ SdsLimit \in [SdsTypes -> Nat] /\ SdsHdr \in [SdsTypes -> Nat \ {0}]
  /\ 0 < SdsLimit[0] /\ \A t \in 1..4 : SdsLimit[t - 1] < SdsLimit[t]
  /\ SdsWidest \in {3, 4} /\ SdsPrealloc \in Nat \ {0} /\ SdsStatic \in Nat \ {0}
  /\ SdsMaxLen \in Nat /\ SdsMaxAdd \in Nat
  /\ 4 * (SdsMaxLen + SdsMaxAdd) + SdsPrealloc < SdsLimit[SdsWidest]

VARIABLES
  sds,     \* the string: its header (type, len, alloc), the size of its block, and the
           \* bytes of the block after the header; None when there is no string
  want,    \* the text it stands for
  fmt      \* sdscatfmt is running: conversions that may still come, or -1

sdsVars == <<sds, want, fmt>>

NUL == "NUL"
Garbage == "?"     \* a byte nothing has written, or that lies behind the terminator
NoString == [type |-> 1, len |-> 0, alloc |-> 0, block |-> 0, buf |-> <<>>]

SdsChars == SdsBytes \cup {NUL}
SdsTexts(S) == UNION {[1..n -> S] : n \in 0..SdsMaxAdd}

-----------------------------------------------------------------------------
(* sds.h: the header.                                                       *)

sdsReqType(n) ==
  CASE n < SdsLimit[0] -> 0
    [] n < SdsLimit[1] -> 1
    [] n < SdsLimit[2] -> 2
    [] OTHER -> IF n < SdsLimit[3] THEN 3 ELSE SdsWidest

\* What a length field of a type keeps of n.
Stored(type, n) == IF n < SdsLimit[type] THEN n ELSE n % SdsLimit[type]

\* sdsavail: type 5 has no room to remember free space.
sdsavail(s) == IF s.type = 0 THEN 0 ELSE s.alloc - s.len

\* sdssetlen, sdsinclen; alloc of type 5 is its length.
sdssetlen(s, n) ==
  LET l == Stored(s.type, n)
  IN  [type |-> s.type, len |-> l, alloc |-> IF s.type = 0 THEN l ELSE s.alloc,
       block |-> s.block, buf |-> s.buf]

sdssetalloc(s, n) ==
  [type |-> s.type, len |-> s.len, alloc |-> IF s.type = 0 THEN s.len ELSE Stored(s.type, n),
   block |-> s.block, buf |-> s.buf]

\* memcpy, memmove and memset: the bytes t at offset at.  A write that passes the end of the
\* block makes buf longer than the block.
Put(s, at, t) ==
  LET size == IF at + Len(t) > Len(s.buf) THEN at + Len(t) ELSE Len(s.buf)
  IN  [type |-> s.type, len |-> s.len, alloc |-> s.alloc, block |-> s.block,
       buf |-> [i \in 1..size |-> IF at < i /\ i <= at + Len(t) THEN t[i - at] ELSE s.buf[i]]]

\* A new header of a type in front of room for n bytes and the terminator, and the first
\* bytes of the string, terminator included, copied there.
Moved(s, type, n) ==
  [type |-> type, len |-> Stored(type, s.len), alloc |-> Stored(type, s.len),
   block |-> SdsHdr[type] + n + 1,
   buf |-> [i \in 1..(n + 1) |-> IF i <= s.len + 1 THEN s.buf[i] ELSE Garbage]]

-----------------------------------------------------------------------------
(* sds.c: creation and room.                                                *)

\* sdsnewlen; sdsempty, sdsnew, sdsdup and sdsfromlonglong call it.
sdsnewlen(t) ==
  LET n == Len(t)
      type == IF n = 0 THEN 1 ELSE sdsReqType(n)
  IN  [type |-> type, len |-> Stored(type, n), alloc |-> Stored(type, n),
       block |-> SdsHdr[type] + n + 1, buf |-> Append(t, NUL)]

Room(n) == IF n < SdsPrealloc THEN 2 * n ELSE n + SdsPrealloc

\* Either realloc or a move to a new header: both keep the first len + 1 bytes.
sdsMakeRoomFor(s, add) ==
  IF sdsavail(s) >= add THEN s
  ELSE LET n == Room(s.len + add)
           type == IF sdsReqType(n) = 0 THEN 1 ELSE sdsReqType(n)
       IN  sdssetalloc(Moved(s, type, n), n)

\* The old header stays where the string still needs more than type 8.
sdsRemoveFreeSpace(s) ==
  IF sdsavail(s) = 0 THEN s
  ELSE LET need == sdsReqType(s.len)
           type == IF need > 1 THEN s.type ELSE need
       IN  sdssetalloc(Moved(s, type, s.len), s.len)

-----------------------------------------------------------------------------
(* sds.c: changes of the content.                                           *)

\* The length is set and the terminator written behind it.
Ended(s, n) == sdssetlen(Put(s, n, <<NUL>>), n)

sdscatlen(s, t) ==
  LET r == sdsMakeRoomFor(s, Len(t))
  IN  Ended(Put(r, s.len, t), s.len + Len(t))

\* Mutant: no room is made.
sdscpylen_NoRoom(s, t) == Ended(Put(s, 0, t), Len(t))

sdscpylen(s, t) ==
  LET r == IF s.alloc < Len(t) THEN sdsMakeRoomFor(s, Len(t) - s.len) ELSE s
  IN  Ended(Put(r, 0, t), Len(t))

\* The bytes from offset first to offset end - 1, moved to the front.
Kept(s, first, end) ==
  LET n == IF first < end THEN end - first ELSE 0
  IN  Ended(Put(s, 0, [i \in 1..n |-> s.buf[first + i]]), n)

\* The loops of sdstrim: sp stops at the first byte outside cset, ep at the last one behind
\* sp, or at sp.  strchr also finds NUL.
Trimmed(s, cset, sp, ep) ==
  LET in(i) == s.buf[i + 1] \in cset \cup {NUL}
  IN  /\ \A i \in 0..(sp - 1) : in(i)
      /\ sp < s.len => ~in(sp)
      /\ ep >= sp \/ ep = s.len - 1
      /\ \A i \in (ep + 1)..(s.len - 1) : in(i)
      /\ ep > sp => ~in(ep)

\* Mutant: a negative index counts from the last character, not from behind it.
FromEnd_Last(i, len) == IF i >= 0 THEN i ELSE IF len + i < 1 THEN 0 ELSE len - 1 + i

\* A negative index counts from behind the last character.
FromEnd(i, len) == IF i >= 0 THEN i ELSE IF len + i < 0 THEN 0 ELSE len + i

sdsrange(s, start, end) ==
  LET first == FromEnd(start, s.len)
      last == IF FromEnd(end, s.len) < s.len THEN FromEnd(end, s.len) ELSE s.len - 1
  IN  IF s.len = 0 THEN s ELSE Kept(s, IF first < s.len THEN first ELSE s.len, last + 1)

\* strlen(s) = n
IsStrlen(s, n) == s.buf[n + 1] = NUL /\ \A i \in 1..n : s.buf[i] # NUL

-----------------------------------------------------------------------------
(* The calls.  Each one gives the string and the text it stands for.        *)

\* Nothing reads the bytes behind the terminator.
Forget(s) ==
  [type |-> s.type, len |-> s.len, alloc |-> s.alloc, block |-> s.block,
   buf |-> [i \in 1..Len(s.buf) |-> IF i <= s.len + 1 THEN s.buf[i] ELSE Garbage]]

Idle == fmt = -1 /\ sds.block > 0

\* A call outside sdscatfmt on an existing string.
Does(s, text) ==
  /\ Idle
  /\ s.len <= SdsMaxLen
  /\ sds' = Forget(s) /\ want' = text
  /\ UNCHANGED fmt

SdsInit == sds = NoString /\ want = <<>> /\ fmt = -1

\* sdsnewlen: a NULL text is one of NULs, and SDS_NOINIT leaves whatever text is there.
New(t) ==
  /\ sds.block = 0 /\ Len(t) <= SdsMaxLen
  /\ sds' = sdsnewlen(t) /\ want' = t
  /\ UNCHANGED fmt

sdsfree == /\ Idle
           /\ sds' = NoString /\ want' = <<>> /\ UNCHANGED fmt

sdsupdatelen == \E n \in 0..sds.len :
  /\ Idle /\ IsStrlen(sds, n)
  /\ Does(sdssetlen(sds, n),
          LET nul == {i \in 1..Len(want) : want[i] = NUL}
          IN  SubSeq(want, 1, IF nul = {} THEN Len(want)
                              ELSE CHOOSE i \in 0..Len(want) : i + 1 \in nul /\ \A j \in nul : i < j))

sdsclear == Does(Ended(sds, 0), <<>>)

MakeRoomFor(n) == Does(sdsMakeRoomFor(sds, n), want)
RemoveFreeSpace == Does(sdsRemoveFreeSpace(sds), want)

\* The use of sdsIncrLen that its comment shows: room is made, bytes are written behind the
\* end, then counted; or a negative increment cuts the end off.
IncrLen(n, t) ==
  /\ Len(t) <= n
  /\ Does(Ended(Put(sdsMakeRoomFor(sds, n), sds.len, t), sds.len + Len(t)), want \o t)
Shorten(n) == n <= sds.len /\ Does(Ended(sds, sds.len - n), SubSeq(want, 1, Len(want) - n))

sdsgrowzero(n) ==
  /\ n > sds.len
  /\ LET zeros == [i \in 1..(n - sds.len) |-> NUL]
         r == sdsMakeRoomFor(sds, n - sds.len)
     IN  Does(sdssetlen(Put(r, sds.len, Append(zeros, NUL)), n), want \o zeros)

\* sdscatlen, sdscat, sdscatsds.
Cat(t) == Does(sdscatlen(sds, t), want \o t)
\* sdscpylen, sdscpy.
Cpy(t) == Does(sdscpylen(sds, t), t)

\* vsnprintf into a buffer of size n; its second last byte tells whether the text fitted.
Printed(t, n) == [i \in 1..(IF Len(t) < n THEN Len(t) ELSE n - 1) |-> t[i]]

Fitted(t, n) == Len(t) < n - 1

\* sdscatvprintf, sdscatprintf: the buffer is doubled until the text fits.
Catprintf(t, fmtlen) == \E size \in 1..(4 * SdsMaxAdd + 2 * SdsStatic) :
  LET first == IF 2 * fmtlen > SdsStatic THEN 2 * fmtlen ELSE SdsStatic
      doubled == {first * 2^k : k \in 0..SdsMaxAdd}
  IN  /\ size \in doubled /\ Fitted(t, size)
      /\ \A n \in doubled : n < size => ~Fitted(t, n)
      /\ Does(sdscatlen(sds, Printed(t, size)), want \o t)

\* sdscatfmt: room for a format of n characters, then the characters and the conversions
\* (%s, %S, %i, %I, %u, %U), each with the room it needs, then the terminator.
catfmt_start(n) ==
  /\ Idle
  /\ sds' = sdsMakeRoomFor(sds, sds.len + 2 * n)
  /\ fmt' = n /\ UNCHANGED want
catfmt_piece(t) ==
  LET one == IF sdsavail(sds) = 0 THEN sdsMakeRoomFor(sds, 1) ELSE sds
      r == IF sdsavail(one) < Len(t) THEN sdsMakeRoomFor(one, Len(t)) ELSE one
  IN  /\ fmt > 0 /\ sds.len + Len(t) <= SdsMaxLen
      /\ sds' = sdssetlen(Put(r, sds.len, t), sds.len + Len(t))
      /\ want' = want \o t
      /\ fmt' = fmt - 1
catfmt_end ==
  /\ fmt >= 0
  /\ sds' = Forget(Put(sds, sds.len, <<NUL>>))
  /\ fmt' = -1 /\ UNCHANGED want

\* The text without the characters of cset and the NULs at its ends.
Stripped(t, cset) ==
  LET out == {i \in 1..Len(t) : t[i] \notin cset \cup {NUL}}
  IN  IF out = {} THEN <<>>
      ELSE SubSeq(t, CHOOSE i \in out : \A j \in out : i <= j,
                     CHOOSE i \in out : \A j \in out : j <= i)
sdstrim(cset) == \E sp \in 0..sds.len, ep \in -1..(sds.len - 1) :
  /\ Idle /\ Trimmed(sds, cset, sp, ep)
  /\ Does(Kept(sds, sp, ep + 1), Stripped(want, cset))

\* The characters whose position p, counted from 0, is between the two; a negative one
\* counts back from the end, and no further than to the first character.
Slice(t, start, end) ==
  LET pos(i) == IF i < 0 THEN (IF i < -Len(t) THEN 0 ELSE Len(t) + i) ELSE i
      in == {p \in 0..(Len(t) - 1) : pos(start) <= p /\ p <= pos(end)}
  IN  IF in = {} THEN <<>> ELSE SubSeq(t, 1 + pos(start),
                                          CHOOSE p \in 1..Len(t) : p - 1 \in in /\ p \notin in)
Cut(start, end) == Does(sdsrange(sds, start, end), Slice(want, start, end))

\* sdstolower, sdstoupper, sdsmapchars: f is applied to every character.
MapChars(f) == Does(Put(sds, 0, [i \in 1..sds.len |-> f[sds.buf[i]]]),
               [i \in 1..Len(want) |-> f[want[i]]])

SdsNext ==
  \/ \E t \in SdsTexts(SdsChars) : New(t)
  \/ sdsfree \/ sdsupdatelen \/ sdsclear \/ RemoveFreeSpace \/ catfmt_end
  \/ \E n \in 0..SdsMaxAdd : MakeRoomFor(n) \/ Shorten(n) \/ catfmt_start(n)
  \/ \E n \in 0..SdsMaxLen : sdsgrowzero(n)
  \/ \E t \in SdsTexts(SdsChars) : Cat(t) \/ Cpy(t)
  \/ \E t \in SdsTexts(SdsBytes), n \in 0..SdsMaxAdd : IncrLen(n, t) \/ Catprintf(t, n)
  \/ \E t \in SdsTexts(SdsChars) : catfmt_piece(t)
  \/ \E cset \in SUBSET SdsBytes : sdstrim(cset)
  \/ \E start, end \in (-SdsMaxLen)..SdsMaxLen : Cut(start, end)
  \/ \E a, b \in SdsBytes : MapChars([c \in SdsChars |-> IF c = a THEN b ELSE c])

SdsSpec == SdsInit /\ [][SdsNext]_sdsVars

-----------------------------------------------------------------------------
(* Properties.                                                              *)

\* The block of a string always holds its header, alloc bytes and the terminator, the header
\* is wide enough for both lengths, and nothing is written behind the block, whatever calls
\* come one after the other and whichever header types they pass through (sds.c).
SdsWithin ==
  sds.block > 0 =>
    /\ sds.len <= sds.alloc /\ sds.alloc < SdsLimit[sds.type]
    /\ SdsHdr[sds.type] + sds.alloc + 1 <= sds.block
    /\ SdsHdr[sds.type] + Len(sds.buf) = sds.block

\* Between two calls the bytes up to len are the text that the calls so far stand for, and
\* the byte behind them is NUL: no growth, move or change of header type loses or shifts
\* content (sds.c).
SdsIsString ==
  fmt = -1 /\ sds.block > 0 =>
    /\ SubSeq(sds.buf, 1, sds.len) = want
    /\ sds.buf[sds.len + 1] = NUL

=============================================================================
