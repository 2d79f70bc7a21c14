# A verification project for xdccget

xdccget is a command-line client that logs in to an IRC server, joins channels,
asks bots for files with `xdcc send` and receives the files over DCC
connections. It is one process with one thread that turns in a loop around
poll or select, plus a signal handler, an alarm, and (only with checksum
verification) a thread that hashes a file. This directory models that program
in TLA+, checks the models with TLC on small instances and proves most of their safety
properties for all instances with TLAPS.

File and line references are to the repository (`xdccget.c`, `dcc.c` and so on);
`PROJECT.json` maps every definition to the lines it translates.

## 1. Inventory

| Component | Files | State | Operations | Models |
|---|---|---|---|---|
| DCC engine | `libircclient-src/dcc.c` | list of sessions: state, ports, socket, `file_confirm_offset`, `received_file_size` | offers (SEND, SSEND, passive), RESUME/ACCEPT, connect, accept, read, acknowledge, destroy, removal | `Dcc` |
| Download contexts | `xdccget.c` 360-674 | `downloadContext[]`, `curDownload`, `lastDownload`, `numActiveDownloads`, `finishedDownloads` | `recvFileRequest(Reverse)`, resume callbacks, `callback_dcc_recv_file`, QUIT | `Dcc`, `Transfer` |
| Files | `file.c`, `file.h` | descriptor, offset, length on disk | Open, Seek, Write, Close | `Dcc`, `Transfer` |
| IRC session, main loop | `libircclient.c`, `utils.c` | `state`, incoming and outgoing buffer with offsets | `irc_run`, `irc_send_raw`, read, split into lines, write | `Session`, `Channel` |
| TLS reads and writes | `ssl.c` | WANT_READ/WANT_WRITE flags | `ssl_recv`, `ssl_send`, retries | `Session` |
| Request sequence | `xdccget.c` 197-360, 727-748, `commands.c` | `ON_CONNECT_EVENT_DONE`, `SENDED_FLAG`, MOTD flag, delay | handlers of connect, notice, join, mode, umode; the delay timer | `Requests` |
| Descriptor watcher | `fd_watcher.c` | poll table and index; select sets and `maxfd` | zero, add, set, wait, check | `WatchSet`, `Poll`, `Select`, `Watchers` |
| Connection set-up | `libircclient.c` 150-360, `sockets.c` | addresses, chosen address, socket | resolve, open, connect, wait, next address | `Connect` |
| Line parser | `irc_parser.c`, `irc_line_parser.c` | raw buffer, state, result | one character; end of line; dispatch | `Parser` |
| Throttle, progress | `xdccget.c` 676-748, `helper.c` 230-312 | ring of speeds, average, sleep, alarm | measure, average, sleep | `Throttle` |
| Settings | `config.c`, `argument_parser.c`, `helper.c` 314-352 | `cfg`, config file | defaults, create and read the file, options | `Options` |
| Command dispatch, CTCP, senders | `commands.c`, `utils.c`, `irc_line_parser.c`, `libircclient.c` 655-891 | `session->nick`, the strings of a line | the table, the handlers, the uses and frees of the strings, CTCP replies, `irc_cmd_...` | `Commands` (and `Requests`, `Dcc`) |
| Colour codes | `colors.c` | none between calls | strip, convert, convert back, each in two passes | `Colors` |
| Checksum verification | `xdccget.c` 143-195, `os_*.c`, `hashing_algo.c`, `md_helper.c`, `sph_md5.c` | hash of the notice, `lastDownload`, one context for each thread | notice, thread, update, close, comparison | `Checksum` (the choice of the file: `Dcc`) |
| Certificates, TLS context | `ssl.c` 39-260, `helper.c` 370-551 | shared context, folder of trusted certificates | initialise, load, verification callback, add | `Certificates` |
| Channels, bots, paths | `argument_parser.c` 461-584, `xdccget.c` 515-564 | none | split, trim, join to a path | `Arguments` |
| Options of the Windows build | `getopt.c`, `argument_parser.c` 280-454 | `optind`, `nonopt_start`, `nonopt_end`, `argv` | one word, permutation, long options | `Getopt` |
| Strings | `sds.c`, `sds.h` | header (type, len, alloc), bytes | 20 operations that change a string; split, join, quote, compare | `Sds`, `SdsText` |
| Third-party macros | `sph_types.h` | | word sizes, byte order | not modelled |

How they interact. `irc_run` collects the descriptors of the session and of all
DCC sessions, waits (at most 750 ms), calls the keep-alive callback (timer,
measurement, sleep), then serves the server's socket and every DCC session that
the watcher reports ready. Lines from the server go through the parser and the
dispatcher to the handlers of `xdccget.c` or to `libirc_dcc_request`, which makes
DCC sessions and calls back into `xdccget.c`; that accepts, declines or resumes
them. Handlers queue commands with `irc_send_raw`. SIGINT queues a QUIT from the
signal handler. Files survive the program; everything else is lost.

What is hard here:

- a download lives over several runs of the program, each of which may end in the
  middle of a write, and the next resumes it at a position that the bot, the file
  and three counters must agree on;
- several bots and the server act between any two steps of the loop, and
  connections are refused, reset and closed at any of them;
- byte streams are cut anywhere by partial reads and writes, and TLS asks for a
  write during a read and for a read during a write;
- tables are reused from round to round and are only partly cleared; the strings of a
  line are shared, replaced and freed by handlers before they are freed for good;
- strings, digests and two-pass conversions work at the edges of blocks, headers and
  counted memory, which an input must hit exactly to show a mistake;
- a TLS context that was left half made is found by the next connection;
- events that report the same thing (end of MOTD and a notice; JOIN, voice mode and
  timer) come in any order and several times;
- the program must end by itself, and only when everything has been received.

What makes each part correct is stated by the properties of section 3.
`PROJECT.json` lists the hazards, at their lines, with the properties that cover
them.

## 2. The modules

An action is one run of a handler, and its name is that of the function in the
code. Modules `MC...` give the constants of an instance.

**Dcc** (with `MCDcc`). Variables are the fields of `irc_dcc_session_t`, of
`struct dccDownloadContext` and its progress, the globals of `xdccget.c`, the files
and, as environment, the bots' end of each session. `BotOffers` chooses file, port
and kind of an offer; `prepareRecvFileRequest`, `accept_dcc_send`,
`accept_reverse_dcc_send`, `dcc_send_request` are what the handler makes of it.
`recv_dcc_file` is one buffer, read and written by `callback_dcc_recv_file`; over
TLS the loop of `hasSocketPendingData` continues it (`busy`).
`recv_dcc_file_write_failed` is a short or failing write, after which the program
exits; `recv_dcc_file_crash` is data for a file that is closed. `Killed`,
`Disconnected` and `interrupt_handler` end a run, `Restart` begins the next, with
the files as they are.
Abstractions: a file is its length in blocks and whether all its blocks are the
bot's at the same positions; acknowledgements are modulo `AckMod`, which stands
for 2^32. Assumptions on the bots: a bot sends exactly the file it offers, from
the position that was agreed; the size it offers is the true one or is missing; a
file that is being received is not offered again, under any name that leads to the
same file. The length of the array `downloadContext` is not modelled. `ListenPort` is
the port on which offers of passive bots are answered; 0, which is no listen port, lets
the kernel pick a free one, so that two such offers are not in each other's way. `QuitFits`
says that the QUIT always finds room in `outgoing_buf`; without it the QUIT may be lost, as
`xdccget.c:460` does not look at the result of `irc_cmd_quit`.

**Transfer**. What a user relies on, without sessions, ports, counters and positions: a
file comes into being empty, grows by the next blocks of the bot's file and by nothing
else, and is counted in the step that writes its last block. `Dcc` implements it:
`held` is the length of a file, or `Spoilt`, which no step of `Transfer` allows, as soon
as a block is not the bot's; `done` are the files of the contexts that were closed because
they were complete. `Restart` of `Dcc` is the one step that empties `done`.

**Session** and **Channel**. `Channel` is the promise: commands accepted from the
client reach the server, and lines from the server reach their handlers, once
each, whole, in order. `Session` is the code: both buffers as arrays with their
offsets, `memmove`, `memcpy` and the change of the offset as separate steps
(a signal may come between them), partial reads and writes, the TLS flags. A unit
of a stream is its position, so that order and loss can be seen; every command
has `CmdLen` units, the last two are CR and LF. `Watch` is the build: with `"poll"`, which
the Makefile for Linux selects, a socket in error shows no events (`fd_watcher.c:326`),
so the loop does not notice a connection that was reset; with `"select"` it does.

**Requests**. The handlers, the delay timer in the keep-alive callback, and a server
that registers, identifies, joins, forwards and voices. The connection is taken as
a `Channel`: two queues. `outq` holds outgoing_buf and what is on its way. PING and
the CTCP replies are left out: they queue an answer and change no state.

**WatchSet**, **Poll**, **Select**, **Watchers**. `WatchSet` is what the loop relies on:
it is told what the kernel saw of the descriptors of the round. `Poll` has the table,
its index, and `poll_zero_out` with the positions it really clears; `Select` has the
two pairs of sets and `maxfd`. `Watchers` runs both in step on the same calls and
the same sockets. Callers add an open socket once in a round, as `irc_run` does.

**Connect**. Resolution, the random start, one attempt after the other, the
confirmation in the first round of `irc_run` and the exit of `main`. `fate` says what
the network makes of each address.

**Parser**. The character machine with its callbacks. The second half of the module
is a definition of the grammar quoted in `irc_line_parser.c` that does not use the
machine: prefix, command and parameters by positions in the whole line. A line that is
too long leaves the machine in its error state, since nobody calls `irc_parser_reset`:
later lines each put one more character behind the limit of `raw`, and an
empty line (a CR LF directly after a CR LF) is what brings the machine back. `clean` tells
whether every line so far fitted, or an empty one has come since the last that did not.

**Throttle**. The ring of measurements, its average, `getSleepTime`, the alarm, and a
clock on the wall that counts what was really read. `averageSpeed` starts with what
`malloc` returns.

**Options**. Defaults, the config file (created when missing, in two steps that a kill
may separate), its lines, the options, and starts with the same command line.
A conversion is what it does: `getSizeOf` with its six suffixes, the cut of a port to 16
bits, the names of log levels. What a line or an option should mean is said a second
time, from the documents and not from the code (`LineMeant`, `OptMeant`): `README.md` and the
comments of the default file for the keys and their values, the help text of
`argument_parser.c` for the options, and speeds in bytes by what their units are. Where the code reads a
value differently than the documents say, the value is listed by name (`Misread`), and the
property leaves out that value and nothing else.

**Commands**. A line becomes blocks of the heap; each handler is what it does to them
(replace, drop, free, use) and to the nicknames, and every line ends with
`free_parser_result`. Nicknames are sequences of letters because the handlers compare
prefixes. The irc_cmd_ functions are one action with their mandatory arguments.

**Colors**. A message is a sequence of characters and words of tags; a pass is a
function of the state the code keeps, so that the second pass starts with the
background colour that the first one ended with.

**Checksum**. The notice, the hash that waits for the file, and threads that read one
buffer per step beside the main loop, which may write the file meanwhile. MD5's
division into blocks, its buffer, padding and length are translated. `Forms` are the
ways in which a bot may write its notice (the keyword, how many characters stand between it and
the hash, upper or lower case); `extractMD5` skips the number of characters that the code skips
behind each keyword, whatever stands there. The compression
function appends its block to the state, so that two digests are equal if and only if
the same blocks went in. `Padded` is the reference, from RFC 1321.

**Certificates**. The context with the three places where `initSslContext` may give up,
connections to the server and to bots over several starts, the callback with the
answers of the user, and the folder with files that may be cut off. A connection to the
server has a name that OpenSSL compares with the certificate (`ssl.c:252`, which the
Makefile compiles in), one to a bot has none; a mismatch is one more problem about which the callback is
asked. OpenSSL's building and checking of a chain is external.

**Arguments**, **SdsText**, **Getopt**. Functions of their input, each against a definition
that goes another way: words by the positions of separators instead of a loop; what was
quoted is read back; the command line read from left to right without permuting it.
Getopt is one action for each word, with its three indexes.

**Sds**. One string with the header type, its lengths, the size of its block and its
bytes; `want` is the text it should stand for. The widths of the header types are
constants, so a small instance crosses all of them and the proof covers the real ones.
`sdscatfmt` is a step for each conversion.

**MCNetwork**, **MCLines**, **MCStartup**. Modules that share no state are checked together,
as a disjoint union: `part` says which component a behaviour is about, and the others
stand still in one of their initial states. `MCNetwork` joins `Connect`, `Requests` and
`Throttle`; `MCLines` the modules about lines of the server; `MCStartup` the modules about
what a user and the system give the program, the watchers among them. `MCParser` and
`MCOptions` are instances of one module for the runs that expect a violation.

## 3. The runs

All runs pass within five minutes with two workers, but for the four that are expected
to find a violation (section 6).

| Run | What it shows |
|---|---|
| `Dcc_safe` | plain, TLS and passive bots, offers with and without a size, two files, two runs of the program, all failures (6.5 million states; the two ports are symmetric): `OffsetsAgree`, `FilesIntact`, `AckCurrent`, and the refinement of `Transfer` (`IsTransfer`), which contains that a file that is counted as finished is whole |
| `Dcc_shared` | two bots with one port, with or without TLS, failures, an ACCEPT that starts the wrong session: `CountersAgree`, `QuitWhenAllFinished`, and `SessionsEnd` (no session without TLS connects or receives for ever) |
| `Dcc_live` | no failures, bots that wait for each acknowledgement: `Delivered`, `EndsByItself` |
| `Dcc_checksum` | **violation**: `LastDownloadFinished` |
| `Session_plain` | the build with poll, without TLS: partial sends and reads, full buffers, SIGINT while the loop waits, broken connections: refinement of `Channel` (`IsChannel`: order, no loss, no repetition), `BuffersHaveRoom`, `InputHandled`, `OutputWritten`, `BreakNoticed` (a connection that the server closes ends the loop, unless it is reset as well) |
| `Session_reset` | **violation**: `ReturnsWhenTerminated`, with poll |
| `Session_tls` | retries of TLS in every order: `OutputWhole`, no command is torn |
| `Network_all` | up to three addresses, Linux and Windows: `OutcomeTrue` (success is a connection, failure came after all addresses, no socket is left), `ConnectionDecides`; logins that are missing, valid and too short, with and without a delay: `AskedOnce`, `EachInTurn` (channels, login and delay before the requests), `RequestsAsked`; one download: `AverageInWindow`, `LimitKept`, `LetsGo` |
| `Lines_all` | the parser over seven characters, line after line (`ParsedAsGrammar`, `RawKept`); handlers under changing nicknames (`LinesRecognised`, `StringsFreedOnce`); all short coloured messages (`ColoursKept`); two checksum threads over two files (`VerdictTrue`) |
| `Parser_overlong` | **violation**: `WithinRaw`, the bound of `raw` |
| `Startup_all` | all files of up to two lines with all command lines of up to two options, two starts (`SettingsAsWritten`); all command lines of up to five words (`GetoptAsWritten`); all short arguments and paths (`ArgumentsRead`) and texts (`TextKept`); all sequences of string operations (`SdsWithin`, `SdsIsString`); three starts with certificates (`TrustDecided`, `TrustKept`); rounds over three descriptors: refinement of `WatchSet` by both builds (`IsWatchSet`, `SelectIsWatchSet`), and where they differ (`AnswersByBuild`) |
| `Options_speed` | **violation**: `SpeedAsDocumented` |

Every property of a passing run has a mutant: a plausible mistake in one definition (they stand before the
definition they change, with a suffix) under which TLC finds it violated.

### Bounds and why they are enough

- `Dcc`: two files and two sessions in a run, because every interaction of the code is
  between two sessions (a port, the listen port, the counters, `curDownload`) or
  between a session and a file of an earlier run (hence `MaxRuns` 2). Files of 1 to 3
  blocks with a buffer of 2: a file shorter than, as long as and longer than a buffer,
  and resumes in the middle. `AckMod` 2 in `Dcc_safe`, so that offsets wrap; 1 in `Dcc_shared`, where no property
  is about offsets. There is a listen port (`ListenPort` 1), as only then do two passive
  offers meet. A QUIT may find no room everywhere but in `Dcc_live`, whose `EndsByItself` is false
  without it (`QuitFits`, section 6).
- `Session`: commands and lines of 3 units, buffers of 7 and 5: two commands fit and
  a third does not, a line and a half fit; three commands and two lines in all.
  `MaxWire` bounds what waits at the server and `MaxCommands` what callbacks send.
- `Requests`: two channels, two bots, three events of other users.
- `Watchers`: three descriptors, so that a descriptor, its position and its stale index
  can all differ. A socket in error is readable and writable too, as with TCP.
- `Parser`: `RawSize` 8, `MaxParams` 2, so that both limits are met, and `MaxLine` 10, so that
  a line passes the first; only a letter may follow itself, and only a letter is read once
  `raw` is full. Lines with a lone CR or LF, and lines after one that did not fit, have up to
  `MaxBroken` characters. Further lines begin after a line that did not fit while `raw` holds less
  than `MaxRaw` characters, which cuts away the states of an array that only grows; `Parser_overlong`
  has `RawSize` 3 below `MaxRaw` and so sees how `raw` is left. The proofs have none of these bounds
  in their conclusions and hold for every value of them.
- `Throttle`: `Limit` equal to a buffer, 4 rounds in a second, 3 slots; amounts above
  `MaxUnmeasured` are not told apart.
- `Commands`: three nicknames of which one begins with another, three parameters.
- `Colors`: messages of up to six symbols: two codes with text between them, or a code
  with both colours.
- `Checksum`: blocks of 2 with a padding limit of 1 and a read buffer of 5, so that every
  position of a piece to a block occurs; files of 0, 5 and 11 bytes: none, exactly one
  buffer, two buffers and a rest; two threads. Notices in the form that `extractMD5` expects for two keywords,
  in lower and in upper case, and one with a character too many before the hash.
- `Certificates`: a self-signed certificate, chains that end in known, unknown and expired
  authorities, with the name of the server and with another one; three starts (add, use, add
  again), two connections in each.
- `Getopt`: five words, so that operands, options with and without arguments and the end
  mark are mixed and moved more than once; a table with the pairs that begin alike.
- `Sds`: header limits 2, 4, 7, 9 with strings of up to 4 and preallocation of 4, so that
  allocations pass through every type.
- `Options`: one line or option of every kind, two mentions, two starts; the second
  start is where a missing, created or half-created file would show. `Kilo` 4 and `SpeedMod` 4096
  stand for 1024 and 2^64: in both, one of each unit is in the range, and larger numbers are not.

### Fairness

- `Dcc`: weak fairness of serving a ready session, because `irc_run` serves every
  ready session in every round; of the network that connects or refuses; of the bots
  that answer a RESUME, dial when they are passive and close when they have sent all;
  of the server that closes after QUIT. `SessionsEnd` is checked with select: with poll
  it does not hold (section 6). A read takes what the bot sends in
  the same step, so the fairness of serving a session also says that a bot with data
  left, on a connection that stays up, goes on sending. A bot that holds its connection
  open and sends nothing is outside these properties: no timer of the code would end it.
- The parts of `MCNetwork` have each their own fairness, as long as the behaviour is about
  that part.
- `Session`: weak fairness of the loop; strong fairness of a wait that finds its
  sockets ready, and of reads and writes that make progress, because recv and send
  may return 0 or a part at any one time but not for ever.
- `Requests`: weak fairness of the client's handlers, the clock, the server and the
  services that give voice.
- `Connect`: the program runs, and attempts that are not silent end.
- `Throttle`: both halves of the loop.

## 4. The proofs

Proved for every value of the constants that satisfies the assumption named in the
module of the component (`DccAssumption`, `SessionAssumption` and so on); "under" names
a further hypothesis of the theorem, explained below.

| Theorem | Module | Statement | under |
|---|---|---|---|
| `Types` | `DccProofs` | `Spec => []TypeOK` | |
| `Offsets` | `DccProofs` | `Spec => []OffsetsAgree` | `~PortsShared` |
| `Intact` | `DccProofs` | `Spec => [](FilesIntact /\ NoWriteAfterClose)` | `~PortsShared` |
| `Whole` | `DccProofs` | `Spec => []FinishedIsWhole` | `~PortsShared` |
| `Acknowledged` | `DccProofs` | `Spec => []AckCurrent` | `~PortsShared` |
| `Transfers` | `DccProofs` | `Spec => IsTransfer`: `Dcc` implements `Transfer` | `~PortsShared` |
| `Counters` | `DccProofs` | `Spec => []CountersAgree` | |
| `Quits` | `DccProofs` | `Spec => QuitWhenAllFinished` | |
| `HasRoom` | `SessionProofs` | `Spec => []BuffersHaveRoom` | `~Tls`, `Signals # "anywhere"` |
| `ImplementsChannel` | `SessionProofs` | `Spec => IsChannel`: `Session` implements `Channel` | `~Tls`, `Signals # "anywhere"` |
| `SendsWhole` | `SessionProofs` | `Spec => []OutputWhole` | `~Partial`, `Signals # "anywhere"` |
| `AsksOnce` | `RequestsProofs` | `RequestsSpec => []AskedOnce` | |
| `InTurn` | `RequestsProofs` | `RequestsSpec => EachInTurn` | `Room >= NumChannels` |
| `Index`, `Blank` | `WatcherProofs` | the index and the free entries of the poll table | |
| `Refines` | `WatcherProofs` | `PollSpec => IsWatchSet`: `Poll` implements `WatchSet` | |
| `SelectRefines` | `WatcherProofs` | `BothSpec => SelectIsWatchSet`: so does `Select` | |
| `ByBuild` | `WatcherProofs` | `BothSpec => []AnswersByBuild` | |
| `Outcome` | `ConnectProofs` | `ConnectSpec => []OutcomeTrue` | `"FreeBSD" \notin Systems` |
| `AverageIsSpeed` | `ThrottleProofs` | `ThrottleSpec => []AverageInWindow` | |
| `ParsedAlways` | `LineProofs` | `Spec => []ParsedAsGrammar` (parser) | |
| `RawKeptAlways` | `LineProofs` | `Spec => []RawKept` (parser) | |
| `LinesRecognisedAlways` | `LineProofs` | `CmdSpec => []LinesRecognised` | |
| `StringsFreedOnceAlways` | `LineProofs` | `CmdSpec => []StringsFreedOnce` | |
| `VerdictIsTrue` | `LineProofs` | `HashSpec => []VerdictTrue` | |
| `CommandLineAsWritten` | `LineProofs` | `GetoptSpec => []GetoptAsWritten` | |
| `SettingsAsWrittenAlways` | `StartupProofs` | `Spec => []SettingsAsWritten` (options) | |
| `StringsWithin` | `StartupProofs` | `SdsSpec => []SdsWithin` | |
| `StringsHold` | `StartupProofs` | `SdsSpec => []SdsIsString` | |
| `TrustIsDecided` | `StartupProofs` | `CertSpec => []TrustDecided` | |
| `TrustIsKept` | `StartupProofs` | `CertSpec => []TrustKept` | |

*The argument for Dcc.* None of the safety properties is inductive alone: a file
is intact after a write only if the descriptor's position, the file's length and the
bot's position were the same before it. The inductive invariant `IInv`
says, for every session: an id that has not been given out is blank (`Fresh`); the
three counts agree and stay below the length of the file (`Agrees`); the file ends
where the bot goes on (`OnDisk`); the bot has been told (`Told`); a session that waits
for a DCC ACCEPT has asked for the end of its file (`Waits`). For two sessions: they
have different files, and no later session has the port of a live one (`Apart`), which
is why `libirc_find_dcc_session_by_port` finds the session that asked. All of that
while the program runs; when it has ended only the part about files is left, and
`Restart` establishes the rest again. The proof has one lemma per action and one
for the sessions that an action does not touch.
Without `~PortsShared` an ACCEPT may start another session at a wrong position, and
`OffsetsAgree` fails; the counters do not depend on it, and `Counters` and `Quits` are
proved without it.

*The argument for Transfer.* Every action of `Dcc` is a step of `Transfer` or leaves `len`,
`damaged` and the closed contexts alone. Opening a file that is not there is `Create`,
a buffer that is written is `Receive`, and the one that reaches the end of the file is
`Finish`; `IInv` says that the descriptor stands at the end of the file and the bot goes
on from there, hence the blocks are the next ones, none is `Spoilt`, and the download that
is closed has all of them (`StepAllowed`, `AllowedStep`). A write that fails half-way is
a `Receive` too. `IsTransfer` says more than `FilesIntact` and
`FinishedIsWhole` together: a file never shrinks, never jumps, and nothing is counted later
than its last block or earlier.

*The argument for Session.* `IsChannel` compares streams, so the invariant must say
where every unit is. `OutInv`: what was accepted is what reached the server followed by
what `outgoing_buf` holds. That is false between `send` and the new offset, so there are
three cases: before the send, after it (the units to keep lie behind those that were
sent) and after the `memmove` (they lie in front, and the offset is still the old one).
`CopiedInv` is the same for a command that was copied and not counted yet. `InInv`:
`incoming_buf` begins at the start of a line, holds what was read and not handled, and
less than a line of it when no line is being handled, which is why a read always has
room. Lines and commands have a constant but unknown length, so facts about remainders
by a constant are proved first. For TLS `WholeInv` says that only whole commands are
queued and that a send takes all of them or none.
The hypotheses are those without which the code does not keep the promise (section 6):
over TLS the results of retried reads and writes are discarded, so units are lost and
repeated (`~Tls`); a QUIT queued by the signal handler between the `memcpy` and the new
offset of `irc_send_raw` is overwritten and moves the offset beyond what was checked
(`Signals # "anywhere"`). `~Partial` holds for SSL_write, which takes all of its buffer
or nothing.

*The argument for Requests.* `AskedOnce` is about the server's end; `AskInv` says of the
whole queue of commands that a request is on its way or has arrived, not both, not twice,
and never before `SENDED_FLAG` is set (`Once`). `EachInTurn` needs to know what the lines that are
still on their way prove (`LinesTrue`: a JOIN was a join, +r was a login
that was accepted), that registration, login and channels come in this order (`Steps`), and, without a delay, in which steps the
client gets to the first JOIN (`Early`), and that from then on no channel was left out and every
request in the queue stands behind all JOIN commands (`InOrder`). That rests on the handlers queueing
all JOIN commands at once: without `Room >= NumChannels` some of them would be dropped
and the others would still make the client ask. The 2048 bytes of
`outgoing_buf` have that room for a usual command line; the code does not check it.

*The argument for the watchers.* For poll, `IInv` is `TypeOK`, `IndexAgrees` and
`FreeBlank`. Stale values in `poll_fdidx` are harmless because `poll_add_fd` overwrites
the one of its descriptor, and entries behind `npoll_fds` are blank because
`poll_zero_out` clears those in use. The refinement maps the answers of `poll_check_fd`
to `ready`. For select, `SelectInv` says that the master sets hold descriptors
of the round only and that `maxfd` is at least each of them; its refinement covers
descriptors that were not added too. `ByBuild` needs both invariants, and that the callers
of the two tables have asked for the same (`SameInterest`).

*The argument for Connect.* "Failure came after all addresses" is a statement about the
past. `ConnectInv` adds that every address
from the random start to the one being tried has failed (`FailedSoFar`), that the socket is open exactly where the code takes
it to be (`OneSocket`), and that `conn` is what the fate of the address made of it
(`ConnTrue`). FreeBSD is excluded: its select finds a refused socket writable, and the
refusal counts as a connection (section 6).

*The argument for Throttle and Certificates.* `getAverageSpeed` is a loop over the ring and
the calls OpenSSL makes are a loop over the chain: both are recursive functions.
Theorems about them by the library's induction rules are out of the provers' reach, so
the proofs go by least counterexamples: were there an index at which the claim fails there
would be a least one (`LeastElement`, from the well-foundedness of `<`), and the equation of
the function there contradicts it. The inductive invariant `SpeedInv` says that the average is between two
taken slots of the ring and that a download that has not begun has no slot taken, which
is what keeps `malloc`'s garbage out. `CertInv` says: a handshake
goes on only on a complete context that holds every certificate of earlier starts (`ContextInv`);
each of these is in a file that the next start loads (`FolderInv`: a random name is never
reused for another certificate and never hidden); and everything that is wrong with the chain was agreed to
or is still to be asked (`AskedInv`). `TrustDecided` alone is not inductive, since during
the handshake nothing is decided.

*The argument for Sds.* `SdsInv` says that an existing string fits (`Fits`): its header type
holds both lengths, a string of type 5 has no free space, and its block is exactly the
header and its bytes, which hold `alloc` and the terminator. `SdsWithin` alone is not
inductive: without the bound `SdsMaxLen` on the text between two calls the sum in
`sdsMakeRoomFor` could pass the widest type (the code does not check that either), and
during `sdscatfmt` the string must exist (`FmtOnString`). `TextInv` adds that the first
`len` bytes are the text, and the terminator follows, except between the
conversions of `sdscatfmt`, which writes it at its end only. There is one lemma for each
operation, resting on what `sdsMakeRoomFor`, `Put` and `sdssetlen` do to a string that fits.

*The argument for the parser.* The machine of `irc_parser.c` keeps one buffer and a state,
the grammar of `irc_line_parser.c` speaks of positions in a line. The invariant `ParserInv` joins
them: `StateRead` says of each state of the machine what the characters read so far
are in terms of positions, which of the results have been delivered and what the buffer
holds (`NickState` to `TrailingState`). There is one lemma for each state and
kind of character. At the end of a line a line of the grammar (`WellFormed`) can
have left the machine in two states only, and there the positions are those that `PrefixGrammar`,
`CommandGrammar` and `ParamsGrammar` find in the line. The property itself says nothing
between two ends of lines, so it cannot be inductive. It is about lines of the grammar;
two spaces in a row, for example, are not (section 6); and about lines that come when all before
them fitted, or an empty one has come since the last that did not. That a line which fits finds
the machine at its beginning is part of `ParserInv`, as is `RawKept`: while `clean` holds, `raw` has at most one
character beyond its limit, for which the array has room. Without `clean` there is no such bound:
that is what `Parser_overlong` shows.

*The argument for Commands.* Between two lines `LinesInv` says that nothing was used or
freed wrongly so far, and that as long as no other user was mixed up with the client
the nickname it takes for its own is its own. Within a line a result may be freed (`Whole`)
if its first `num_params` strings are allocated and no two of them are the same block; the parser
makes such a result whatever the last line left behind, each handler leaves one, and `free_parser_result`
needs one. `umode` drops a string and puts the other in both places: only with the smaller number
of parameters is that one `Whole`. The loops over the parameters are recursive functions of the
number of turns; that such a function exists and what it holds after each turn is shown by
induction over the set of turns for which it holds (`Turns`, `Recursion`), because the
induction rules of the library take an operator.

*The argument for Checksum.* `HashInv` says of every thread that its context is that of the bytes read so
far, whatever pieces they came in: the whole blocks among them are compressed, the rest
lies at the front of `buf`, and `count` tells how many there were (`Digested`). `UpdateDigests`
shows that a call of `sph_md5` keeps that: turn by turn in `md5_short` (`ShortDigests`),
and for whole blocks straight from the data once `buf` is completed (`StraightDigests`). What `malloc` left in the context is
never read. `md5_close` then yields the blocks of the padded message, one more or two
(`CloseInOne`, `CloseInTwo`). For the verdict to be true in both directions a padded
message must tell the message (`PaddedTells`, `BlockedTells`), and the text of a hash, in either case,
must be read as the hash (`TextIsHash`), which it is if the notice has it where
`extractMD5` looks; elsewhere one character that is no digit of a hash, or the end of the text, is among
those that are read, and the verdict is a failure. The length is not needed to tell two
messages apart here, as the mark is no byte of a file; and that different blocks have different
digests is the abstraction of the compression function, not a claim about MD5.

*The argument for Getopt.* `GetoptInv` says of every moment at which `getopt_internal` looks at a word that
some turn of the reference has read just as far: it has understood the same options, and
the operands it holds are the words that lie, in this order, from `nonopt_start` to
`nonopt_end`, or to `optind` while no option follows them; the words from `optind` on have
not moved (`Going`). `GetoptAsWritten` is not inductive, as it speaks of the end only. A step exchanges the skipped
operands with the options behind them (`PermutedIs`) or adds one word to them
(`LongerPart`). That `permute_args` exchanges two blocks (`PermuteIs`) is the longer part: `gcd` ends with
a number that divides both lengths and is a sum of multiples of them (`GcdIs`, whose
invariant is that a turn keeps the common divisors and the sums); so each cycle, which goes round
the places of one rest by that number, visits every one of them once (`ClassIsCyclic`) and in
`cyclelen` swaps brings every word where it goes (`CycleMoves`), and the cycles do not
touch each other (`OuterTurn`).

*The argument for Options.* `OptionsInv` says that `cfg` is, at every moment, what the lines and the options
read so far say (`SettingsOf`), that the program goes on from the file to the options only at its end, and
that a second start finds what the first one settled. `SettingsAsWritten` compares the settings with what
the documents say of the last mention. That the code's readings are those of the documents is
shown value by value (`LineRead`, `OptRead`): for a speed, that the product which the
documents mean stays below `SpeedMod` and so is the product that `getSizeOf` computes; ports are
below 2^16. The level `info` and the suffix `Mbyte` are outside the theorem, by name (`Misread`).

Proved and no longer checked in a run of their own: `TypeOK` of `Dcc` and `Poll`, `IndexAgrees` and `FreeBlank` of `Poll`,
`NoWriteAfterClose` and `FinishedIsWhole` of `Dcc`.

Only model-checked:

- all liveness: `SessionsEnd`, `Delivered`, `EndsByItself`, `InputHandled`,
  `OutputWritten`, `BreakNoticed`, `RequestsAsked`, `ConnectionDecides`, `LimitKept`, `LetsGo`.
  The prover treats neither fairness nor ENABLED;
- `ColoursKept`, `ArgumentsRead`, `TextKept`: what
  recursive operators compute, which the prover cannot reason about at all.

## 5. What is not modelled

- The TLS handshake and the building of certificate chains, which are OpenSSL's. The
  handshake with a bot is a loop inside a message handler and is one step here.
- MD5's compression function and `sph_types.h`: a digest stands for the blocks it was
  made of.
- Lines with fewer parameters than RFC 1459 gives them, CTCP texts of a single mark,
  and the wording of CTCP replies.
- What is printed: log lines, sizes, progress bars.
- Short options in `getopt.c` (460-519), POSIXLY_CORRECT and `-W`: the program passes none.
- `fdwatch_del_fd`, `fdwatch_logstats`, `irc_dcc_decline`,
  `irc_dcc_destroy`, which nobody calls; epoll, which no Makefile builds.
- Mutexes: `ENABLE_THREADS` is not defined, so they do nothing, and nothing in the
  models relies on them.
- SIGPIPE, which the program does not handle: a write on a broken connection ends
  a run like a kill.
- The timer thread and console handler of Windows; `accept` failing with -1.
- Allocation failures end the program.

## 6. Where code and documents disagree

Four of these are shown by a run.

- `Dcc_checksum`: `callback_dcc_recv_file` (`xdccget.c:449`) sets `lastDownload` to the
  download that was offered last, so that with two downloads the checksum is computed
  over a file that is still being received.
- `Session_reset`: `poll_check_fd` (`fd_watcher.c:326`) answers 0 for a socket with POLLERR,
  so `irc_run` goes on for ever when the connection was reset. `libircclient.h:340` says that it
  returns when the server connection is terminated, `libirc_errors.h:178` names the error.
- `Parser_overlong`: after a line that is too long the parser is never reset, and every later line
  that is not empty stores one more character behind the limit of `raw` (`irc_parser.c:10`) before the
  state is looked at; `irc_parser.c:196` speaks of one that exceeds the limit. The
  first one still has a place in the array.
- `Options_speed`: `1Mbyte` becomes the largest limit there is (`helper.c:326`), where
  `argument_parser.c:171` says "e.g. 1Mbyte throttles the speed to 1MByte/s".

The others were met while translating the code. The models do what the code
does; the properties say what remains true.

| Where | What the code does | What is said |
|---|---|---|
| `fd_watcher.c:326` | poll denies every event of a socket with POLLERR, so a refused DCC connection stays in CONNECTING too | `dcc.c:376` "determine whether the socket is connected or the connect is failed" |
| `dcc.c:260` | a session that cannot acknowledge is kept and sends again | `dcc.c:251` "inform the caller of failure, and destroy this session" |
| `dcc.c:161` | SSL_read that wants to write makes the session send its offset whatever `DONT_CONFIRM_OFFSETS_FLAG` says | `dcc.c:181` |
| `dcc.c:730`, `dcc.c:864` | an accepted RESUME of a passive bot ends the program: the state is INIT_PASSIVE, not INIT | `README.md:18` "connection to passive bots are supported" |
| `libircclient.c:79` | `dcc_timeout` is never read | `libirc_errors.h:157` "this timer is currently 60 seconds" |
| `libircclient.c:454` | a LF left alone by a partial send waits for the next command | `libircclient.c:453` |
| `libircclient.c:562` | decrypted data beyond the room of `incoming_buf` waits for the next record | `libircclient.h:364` "sends/recvs all available data" |
| `ssl.c:414`, `ssl.c:382` | results of the retried call are discarded: input is lost, output repeated | `ssl.c:308`, `ssl.c:337` |
| `libircclient.c:618` | SIGINT between `memmove` and the new offset garbles `outgoing_buf` | `libircclient.c:596` |
| `xdccget.c:286` | with a login any +v makes the client ask before its delay is over | `argument_parser.c:172` |
| `xdccget.c:728` | a delay that is over before the session is connected loses the requests | `argument_parser.c:172` |
| `xdccget.c:460` | a QUIT that finds no room in the buffer is not repeated, and the program stays connected | `libirc_errors.h:92` "repeat the command later" |
| `dcc.c:885` | without a listen port the reply to a passive bot carries the port 0 | `README.md:18` "connection to passive bots are supported" |
| `xdccget.c:150` | the hash is looked for a fixed number of characters behind its keyword: a right hash in another form of notice fails | `README.md:126` "verify checksums" |
| `xdccget.c:255` | requests that find no room in the buffer are not repeated | `libirc_errors.h:92` "repeat the command later" |
| `fd_watcher.c:232` | a descriptor opened after the wait may be answered with the result of another | `fd_watcher.c:203` |
| `libircclient.c:158` | with select and non-blocking sockets (FreeBSD) a refused connection counts as a connection | `libircclient.c:156` |
| `libircclient.c:223` | an unreachable address is reported as a socket error and the others are not tried | `libirc_errors.h:52` |
| `irc_parser.c:166` | two spaces in a row give an empty parameter | grammar at `irc_line_parser.c:11` |
| `libircclient.c:470` | a line that is too long leaves the parser in its error state until the server sends an empty line | `irc_parser.h:116` |
| `xdccget.c:447` | the first of several downloads to complete cancels the alarm, and the throttle with it | `argument_parser.c:171` |
| `xdccget.c:717` | the alarm ends every sleep, so a limit below one buffer a second is not kept | `argument_parser.c:171` |
| `config.c:94` | `logLevel=info` is ignored; `SettingsAsWritten` leaves it out by name | `README.md:124` |
| `xdccget.c:111` | `--quiet` prints progress | `argument_parser.c:157` |
| `getopt.c:202` | in the Windows build options without a letter all return 0, so `--accept-all` is taken for the first of two that begin so; unknown options are only logged | `argument_parser.c:280` |
| `utils.c:39` | CTCP replies go to the host name of the asker, not to the nickname | `libirc_events.h:265` "build-in handler automatically replies" |
| `commands.c:71` | a NICK of another user whose nickname begins with the client's changes `session->nick` | `libirc_events.h` on `event_nick` |
| `commands.c:101`, `commands.c:133` | strings that handlers replace are never freed | `irc_line_parser.c:33` |
| `colors.c:109` | the second pass starts with the background colour of the first and may write more than was counted | `colors.c:111` "two passes" |
| `colors.c:243` | a `[` without a `]` copies the terminator and the search goes on behind it | |
| `xdccget.c:172`, `os_unix.c:33` | the stored hash is freed by the first thread and used again if a second file completes | |
| `helper.c:512` | with `--accept-all-certs` any certificate is accepted, expired ones too | `README.md:125` "allow silently all self signed certificates" |
| `helper.c:521` | a certificate that was added counts only from the next start on | the question "add the certificate to your local trusted certificates" |
| `sds.c:617` | a format of `sdscatfmt` that ends in `%` reads behind its terminator | `sds.c:588` |

## 7. Plan

Done: the core (`Dcc`) with its safety proofs, the session and its abstract channel,
the request sequence, the watchers with the refinement proof, connection set-up,
parser, throttle, settings; then commands, colours, checksums, certificates, arguments,
getopt, and the strings with their proof.

The invariants of `Session`, `Requests`, `Watchers`, `Connect`, `Throttle`, `Sds`,
`Certificates`, `Parser`, `Commands`, `Checksum`, `Getopt` and `Options` are proved too, and that `Dcc` implements
`Transfer`.

Left, in this order:

1. A timer thread as on Windows, beside the loop, for `Throttle` and `Requests`.
2. Decrypted data that waits in OpenSSL, in `Session`.
3. The recursive operators of `Colors`, `Arguments` and `SdsText` as recursive
   functions, which the prover can reason about.
