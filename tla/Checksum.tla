------------------------------- MODULE Checksum -------------------------------
(***************************************************************************)
(* Verification of checksums: the notice of a bot that tells the MD5 hash  *)
(* of a file (checkMD5ChecksumNotice), the threads that compute the hash   *)
(* of the file on disk (os_unix.c, os_windows.c, hashing_algo.c, file.c)   *)
(* and the MD5 code that cuts the file into blocks (md_helper.c,           *)
(* sph_md5.c).  Threads read piece by piece while the main loop writes     *)
(* other files, or the same one.                                           *)
(*                                                                         *)
(* The compression function is not computed: the state of a hash is the    *)
(* sequence of blocks that went into it.  A byte of a file is its file and *)
(* its position; a digit of a hash is the hash and its position.  A bot    *)
(* that was asked for one file sends one file.                             *)
(***************************************************************************)
EXTENDS Integers, Sequences, FiniteSets, SequencesExt

CONSTANTS
  BlockLen,    \* SPH_BLEN, 64
  MaxPad,      \* SPH_MAXPAD, 56
  LengthMod,   \* 2^64: the length of the message is encoded in 64 bits
  HashSize,    \* MD5_SIZE
  ReadSizes,   \* values of FILE_READ_BUFFER_SIZE
  HashFiles,   \* files in the target directory
  Forms,       \* bound: forms of a notice, keyword, characters behind it and case
  Sizes,       \* bound: sizes a file has from time to time
  MaxThreads   \* bound: threads started

ASSUME ChecksumAssumption ==
  /\ BlockLen \in Nat /\ MaxPad \in 1 .. BlockLen - 1 /\ LengthMod \in Nat \ {0}
  /\ HashSize \in Nat \ {0} /\ ReadSizes \subseteq Nat \ {0}
  /\ Sizes \subseteq Nat /\ MaxThreads \in Nat

VARIABLES
  buffer,      \* FILE_READ_BUFFER_SIZE
  numDownloads,\* cfg.numDownloads
  size,        \* sizes of the files
  lastDownload,\* file of lastDownload, or NoFile
  md5,         \* cfg.dccDownloadArray[0]->md5, or NoHash
  threads      \* checksumThreadData of every thread, with its hash algorithm

hashVars == <<buffer, numDownloads, size, lastDownload, md5, threads>>

NoFile == "NULL"
NoHash == <<>>
Smaller(a, b) == IF a < b THEN a ELSE b
Byte(f, i) == <<f, i>>
Mark == Byte("0x80", 0)
Unset == Byte("?", 0)

-----------------------------------------------------------------------------
(* md_helper.c with the definitions of sph_md5.c.                           *)

\* The compression function adds a block to the state.
md5_round(val, block) == Append(val, block)

\* Nothing is assigned to buf.
sph_md5_init(c) == [c EXCEPT !.val = <<>>, !.count = 0]

\* memcpy(buf + at, data, Len(data)).
CopyTo(buf, at, data) ==
  [i \in 1 .. BlockLen |-> IF i \in at + 1 .. at + Len(data) THEN data[i - at] ELSE buf[i]]

\* A turn of the loop of md5_short with a context and the number of bytes that are
\* done: as many more as buf has room for, and buf is compressed when it is full.
short_turn(s, data) ==
  LET current == s.ctx.count % BlockLen
      clen == Smaller(BlockLen - current, Len(data) - s.done)
      buf == CopyTo(s.ctx.buf, current, SubSeq(data, s.done + 1, s.done + clen))
  IN  [ctx |-> [buf |-> buf, count |-> s.ctx.count + clen,
                val |-> IF current + clen = BlockLen THEN md5_round(s.ctx.val, buf) ELSE s.ctx.val],
       done |-> s.done + clen]

\* md5_short.  Turns after the last byte change nothing.
md5_short(c, data) ==
  LET turn[k \in 0 .. Len(data)] ==
        IF k = 0 THEN [ctx |-> c, done |-> 0] ELSE short_turn(turn[k - 1], data)
  IN  turn[Len(data)].ctx

\* Whole blocks straight from the data, and the rest into buf.
blocks(c, data) ==
  LET n == Len(data) \div BlockLen
      val[k \in 0 .. n] ==
        IF k = 0 THEN c.val
        ELSE md5_round(val[k - 1], SubSeq(data, (k - 1) * BlockLen + 1, k * BlockLen))
  IN  [c EXCEPT !.val = val[n], !.buf = CopyTo(@, 0, SubSeq(data, n * BlockLen + 1, Len(data)))]

\* Mutant: the bytes that wait in buf are not completed first.
sph_md5_Direct(c, data) ==
  IF Len(data) < 2 * BlockLen THEN md5_short(c, data)
  ELSE [blocks(c, data) EXCEPT !.count = @ + Len(data)]

\* sph_md5: short data byte by byte; else buf is completed first.
sph_md5(c, data) ==
  LET current == c.count % BlockLen
      t == IF current > 0 THEN BlockLen - current ELSE 0
      rest == SubSeq(data, t + 1, Len(data))
  IN  IF Len(data) < 2 * BlockLen THEN md5_short(c, data)
      ELSE [blocks(md5_short(c, SubSeq(data, 1, t)), rest) EXCEPT !.count = c.count + Len(data)]

Zeros(n) == [i \in 1 .. n |-> Byte("0x00", 0)]
LengthField(n) == [i \in 1 .. BlockLen - MaxPad |-> Byte("bits", ((8 * n) % LengthMod) * BlockLen + i)]

\* md5_addbits_and_close without bits: the mark, zeros, and the length at the end
\* of this block, or of one more.
md5_close(c) ==
  LET current == (c.count % BlockLen) + 1
      marked == CopyTo(c.buf, current - 1, <<Mark>>)
      full == CopyTo(marked, current, Zeros(BlockLen - current))
      val == IF current > MaxPad THEN md5_round(c.val, full) ELSE c.val
      zeroed == IF current > MaxPad THEN CopyTo(full, 0, Zeros(MaxPad))
                ELSE CopyTo(marked, current, Zeros(MaxPad - current))
  IN  md5_round(val, CopyTo(zeroed, MaxPad, LengthField(c.count)))

-----------------------------------------------------------------------------
(* Hashes as bytes and as text: a byte is two digits.                       *)

HashOf(val) == [i \in 1 .. HashSize |-> << <<val, i, "high">>, <<val, i, "low">> >>]

\* md5_toString, and what a bot writes, in lower or in upper case.
md5_toString(hash, case) ==
  [k \in 1 .. 2 * HashSize |-> [digit |-> hash[(k + 1) \div 2][2 - (k % 2)], case |-> case]]

\* Characters that are none of a hash: hexCharToBin takes them for 0, which is
\* here none of the digits of a hash.
NoDigit == << <<>>, 0, "none" >>
HashBlank == [digit |-> NoDigit, case |-> "blank"]
HashEnd == [digit |-> NoDigit, case |-> "NUL"]
hexCharToBin(c) == c.digit
hexToBin(c1, c2) == <<hexCharToBin(c1), hexCharToBin(c2)>>
convertHashStringToBinary(text) == [i \in 1 .. HashSize |-> hexToBin(text[2 * i - 1], text[2 * i])]

-----------------------------------------------------------------------------
(* Reference: the message with its padding (RFC 1321, 3.1 and 3.2).         *)

Message(f, n) == [i \in 1 .. n |-> Byte(f, i)]
Padded(m) ==
  LET zeros == CHOOSE z \in 0 .. BlockLen - 1 : (Len(m) + 1 + z) % BlockLen = MaxPad % BlockLen
  IN  m \o <<Mark>> \o Zeros(zeros) \o LengthField(Len(m))
Blocked(m) == [k \in 1 .. Len(m) \div BlockLen |-> SubSeq(m, (k - 1) * BlockLen + 1, k * BlockLen)]
Reference(f, n) == HashOf(Blocked(Padded(Message(f, n))))

-----------------------------------------------------------------------------
(* Threads.                                                                 *)

\* createHashAlgorithm: a context of its own, which malloc does not clear.
createHashAlgorithm == [buf |-> [i \in 1 .. BlockLen |-> Unset], val |-> <<Unset>>, count |-> 0]

HashInit ==
  /\ buffer \in ReadSizes /\ numDownloads \in 1 .. Cardinality(HashFiles)
  /\ size \in [HashFiles -> Sizes]
  /\ lastDownload = NoFile /\ md5 = NoHash /\ threads = <<>>

\* startChecksumThread for file g.  A bot told the hash of so many bytes of a file, in
\* the expected form or not.
startChecksumThread(text, g, told) ==
  /\ Len(threads) < MaxThreads
  /\ threads' = Append(threads,
       [path |-> g, expectedHash |-> text, told |-> told, ctx |-> sph_md5_init(createHashAlgorithm),
        at |-> 0, verdict |-> "none", written |-> FALSE])

\* The keywords of extractMD5, with the characters skipped behind each: md5sum + 8
\* and md5sum + 4.  At most one digit of a hash lies before these, so that no
\* more than the terminator is read behind the text.
Skipped == [md5sum |-> 2, MD5 |-> 1, md5 |-> 1]
ASSUME FormsAssumption ==
  \A w \in Forms : /\ w.keyword \in DOMAIN Skipped /\ w.case \in {"lower", "upper"}
                   /\ w.gap \in Nat /\ w.gap + 1 >= Skipped[w.keyword]

\* A notice of a bot: a keyword, some characters, the hash.  A keyword is one element.
Notice(w, hash) ==
  <<[digit |-> NoDigit, case |-> w.keyword]>> \o [i \in 1 .. w.gap |-> HashBlank]
    \o md5_toString(hash, w.case)
Expected(w) == w.gap = Skipped[w.keyword]

\* extractMD5: the characters of a hash from a fixed place behind the keyword.
extractMD5(string) ==
  LET at == CHOOSE i \in 1 .. Len(string) : string[i].case \in DOMAIN Skipped
      from == at + Skipped[string[at].case]
  IN  [i \in 1 .. 2 * HashSize |-> IF from + i <= Len(string) THEN string[from + i] ELSE HashEnd]

\* checkMD5ChecksumNotice.  Without a finished download the hash is kept, if
\* there is one download only.
checkMD5ChecksumNotice ==
  \E f \in HashFiles, n \in Sizes, w \in Forms :
    LET text == extractMD5(Notice(w, Reference(f, n)))
        told == <<f, n, Expected(w)>>
    IN  /\ \/ /\ lastDownload = NoFile
              /\ md5' = IF numDownloads = 1 THEN <<text, told>> ELSE md5
              /\ UNCHANGED threads
           \/ /\ lastDownload # NoFile
              /\ startChecksumThread(text, lastDownload, told)
              /\ UNCHANGED md5
        /\ UNCHANGED <<buffer, numDownloads, size, lastDownload>>

\* callback_dcc_recv_file with the last bytes of a file: lastDownload is that of
\* curDownload, which may be another one (see module Dcc).
download_completed ==
  /\ (lastDownload = NoFile \/ numDownloads > 1) /\ lastDownload' \in HashFiles
  /\ IF numDownloads = 1 /\ md5 # NoHash
     THEN startChecksumThread(md5[1], lastDownload', md5[2]) ELSE UNCHANGED threads
  /\ UNCHANGED <<buffer, numDownloads, size, md5>>

\* The main loop writes some bytes; threads reading the file may see it or not.
Written ==
  \E f \in HashFiles :
    /\ \E n \in Sizes : n > size[f] /\ size' = [size EXCEPT ![f] = n]
    /\ threads' = [t \in 1 .. Len(threads) |->
                     [threads[t] EXCEPT !.written = @ \/ threads[t].path = f]]
    /\ UNCHANGED <<buffer, numDownloads, lastDownload, md5>>

\* Read.
Piece(t) ==
  LET n == Smaller(buffer, size[threads[t].path] - threads[t].at)
  IN  [i \in 1 .. n |-> Byte(threads[t].path, threads[t].at + i)]

updateHash(c, piece) == sph_md5(c, piece)

\* md5_equal_sph with the hash of the file and the one the bot told.
equals(c, text) == HashOf(md5_close(c)) = convertHashStringToBinary(text)

\* readFile in a thread: a piece, and after the last one the verdict.
checksum_verification_thread ==
  \E t \in 1 .. Len(threads) :
    /\ threads[t].verdict = "none"
    /\ LET c == updateHash(threads[t].ctx, Piece(t))
           done == Len(Piece(t)) < buffer
       IN  threads' = [threads EXCEPT ![t].ctx = c, ![t].at = @ + Len(Piece(t)),
                         ![t].verdict = IF ~done THEN "none"
                                        ELSE IF equals(c, threads[t].expectedHash)
                                             THEN "succeeded" ELSE "failed"]
    /\ UNCHANGED <<buffer, numDownloads, size, lastDownload, md5>>

HashNext ==
  \/ checkMD5ChecksumNotice \/ download_completed \/ Written \/ checksum_verification_thread

HashSpec == HashInit /\ [][HashNext]_hashVars

-----------------------------------------------------------------------------
(* Properties.                                                              *)

\* README.md:126 "verify checksums": whatever pieces a thread reads the file in,
\* wherever they lie to the blocks of MD5, and whatever other threads and the main
\* loop do, the verification succeeds exactly if the bot told the hash of what the
\* file holds, with the characters before it that extractMD5 expects, unless the file
\* is written to meanwhile.  In another form also the right hash fails.
VerdictTrue ==
  \A t \in 1 .. Len(threads) :
    LET d == threads[t]
    IN  (d.verdict # "none" /\ ~d.written) =>
          (d.verdict = "succeeded") =
            (d.told[3] /\ Message(d.told[1], d.told[2]) = Message(d.path, d.at))
===============================================================================
