------------------------------- MODULE Options --------------------------------
(***************************************************************************)
(* The settings of one start of xdccget: main's defaults, the file         *)
(* ~/.xdccget/config (config.c), which is written when it is missing, and   *)
(* the command line (argument_parser.c), in this order.                    *)
(*                                                                         *)
(* A line of the file is a record: its key, its value and the number of     *)
(* fields between the = signs.  An option of the command line is a record   *)
(* of the same kind.  A speed is a number and a suffix, as sscanf splits    *)
(* it; an address is valid or not.                                         *)
(***************************************************************************)
EXTENDS Integers, SequencesExt

CONSTANTS
  Lines,        \* lines a user may write into the config file
  Opts,         \* options a user may give
  Kilo,         \* 1024
  SpeedMod,     \* 2^64, the range of irc_dcc_size_t
  MaxLines,     \* bound: lines in the file
  MaxOpts,      \* bound: options on the command line
  MaxStarts     \* bound: starts of the program

ASSUME OptionsAssumption ==
  /\ Kilo \in Nat \ {0} /\ SpeedMod \in Nat \ {0}
  /\ MaxLines \in Nat /\ MaxOpts \in Nat /\ MaxStarts \in Nat

VARIABLES
  exists,       \* there is a config file
  file,         \* its lines
  argv,         \* the options of the command line
  pc,           \* main: "config", "open", "write", "read" (the file), "args",
                \* "ready", "run", "exit"
  at,           \* lines or options dealt with
  cfg,          \* struct xdccGetConfig
  starts,
  settled       \* cfg of the last start that came so far, if any: a sequence

vars == <<exists, file, argv, pc, at, cfg, starts, settled>>

\* main: memset, and the settings that are not 0.
Defaults ==
  [logLevel |-> "LOG_WARN", port |-> 6667, maxTransferSpeed |-> 0,
   targetDir |-> "home", nick |-> "", login_command |-> "", listen_ip |-> "",
   listen_port |-> 0, sendDelay |-> 0,
   ALLOW_ALL_CERTS |-> FALSE, USE_IPV4 |-> FALSE, USE_IPV6 |-> FALSE,
   VERIFY_CHECKSUM |-> FALSE, ACCEPT_ALL_NICKS |-> FALSE,
   DONT_CONFIRM_OFFSETS |-> FALSE]

Init ==
  /\ exists \in BOOLEAN
  /\ file \in (IF exists THEN SeqOf(Lines, MaxLines) ELSE {<<>>})
  /\ argv \in SeqOf(Opts, MaxOpts)
  /\ pc = "config" /\ at = 0 /\ cfg = Defaults
  /\ starts = 1 /\ settled = <<>>

-----------------------------------------------------------------------------
(* Values.                                                                 *)

\* getSizeOf returns -1, the largest irc_dcc_size_t, for a suffix it does not know.
SizeNames == <<"Byte", "KByte", "MByte", "GByte", "TByte", "PByte">>
AllOnes == SpeedMod - 1

\* pow_uint64 of 1024 and the exponents 0 to 5.
pow_uint64(exp) ==
  LET k2 == Kilo * Kilo IN <<1, Kilo, k2, k2 * Kilo, k2 * k2, k2 * k2 * Kilo>>[exp + 1]

getSizeOf(value, size) ==
  LET found == {i \in 1 .. 6 : SizeNames[i] = size}
  IN  IF found = {} THEN AllOnes
      ELSE (value * pow_uint64((CHOOSE i \in found : TRUE) - 1)) % SpeedMod

\* NO_SPEED_LIMIT is 0, as is a limit of 0 and a number without a suffix.
setMaxTransferSpeed(v) == IF v.suffix = "" THEN 0 ELSE getSizeOf(v.number, v.suffix)

\* (unsigned short) strtoul(...).
UnsignedShort(n) == n % 65536

LevelNames == [information |-> "LOG_INFO", warn |-> "LOG_WARN",
               error |-> "LOG_ERR", quiet |-> "LOG_QUIET"]

-----------------------------------------------------------------------------
(* The config file.                                                        *)

\* The setting each key is about, configLineCallbacks.
SettingOfKey ==
  [downloadDir |-> "targetDir", logLevel |-> "logLevel",
   allowAllCerts |-> "ALLOW_ALL_CERTS", verifyChecksums |-> "VERIFY_CHECKSUM",
   confirmFileOffsets |-> "DONT_CONFIRM_OFFSETS",
   maxTransferSpeed |-> "maxTransferSpeed",
   listenIp |-> "listen_ip", listenPort |-> "listen_port"]

\* A line that changes a setting: two fields, a key that is known and, for the
\* level, a name that is known.  Lines that begin with # have the key #.
Counts(l) ==
  /\ l.fields = 2
  /\ l.key \in DOMAIN SettingOfKey
  /\ l.key = "logLevel" => l.value \in DOMAIN LevelNames

\* The value that the callback of the key gives to its setting.
LineValue(l) ==
  CASE l.key = "logLevel" -> LevelNames[l.value]
    [] l.key \in {"allowAllCerts", "verifyChecksums"} -> l.value = "true"
    [] l.key = "confirmFileOffsets" -> l.value # "true"
    [] l.key = "maxTransferSpeed" -> setMaxTransferSpeed(l.value)
    [] l.key = "listenPort" -> UnsignedShort(l.value)
    [] l.key \in {"downloadDir", "listenIp"} -> l.value

\* inet_pton refuses the address and the program ends.
Invalid(v) == v = "invalid"

Line(k, v) == [key |-> k, value |-> v, fields |-> 2]

\* getDefaultConfigContent; its comments and lines that are commented out are
\* one line that does not count.
DefaultLines ==
  <<Line("downloadDir", "home"), Line("logLevel", "information"),
    [key |-> "#", value |-> "", fields |-> 1],
    Line("verifyChecksums", "false"), Line("confirmFileOffsets", "false")>>

file_exists ==
  /\ pc = "config"
  /\ pc' = IF exists THEN "read" ELSE "open"
  /\ UNCHANGED <<exists, file, argv, at, cfg, starts, settled>>

\* writeDefaultConfigFile: Open makes an empty file, or fails and the program
\* ends.
writeDefault_open ==
  /\ pc = "open"
  /\ \/ exists' = TRUE /\ pc' = "write"
     \/ exists' = FALSE /\ pc' = "exit"
  /\ UNCHANGED <<file, argv, at, cfg, starts, settled>>

writeDefault_write ==
  /\ pc = "write"
  /\ file' = DefaultLines /\ pc' = "read"
  /\ UNCHANGED <<exists, argv, at, cfg, starts, settled>>

\* parseConfigLine.
parseConfigLine ==
  /\ pc = "read" /\ at < Len(file)
  /\ at' = at + 1
  /\ LET l == file[at + 1] IN
     \/ ~Counts(l) /\ UNCHANGED <<cfg, pc>>
     \/ /\ Counts(l) /\ l.key = "listenIp" /\ Invalid(l.value)
        /\ pc' = "exit" /\ UNCHANGED cfg
     \/ /\ Counts(l) /\ ~(l.key = "listenIp" /\ Invalid(l.value))
        /\ cfg' = [cfg EXCEPT ![SettingOfKey[l.key]] = LineValue(l)]
        /\ UNCHANGED pc
  /\ UNCHANGED <<exists, file, argv, starts, settled>>

parseConfigFile_done ==
  /\ pc = "read" /\ at = Len(file)
  /\ pc' = "args" /\ at' = 0
  /\ UNCHANGED <<exists, file, argv, cfg, starts, settled>>

-----------------------------------------------------------------------------
(* The command line.                                                       *)

SettingOfOpt ==
  [quiet |-> "logLevel", verbose |-> "logLevel", warn |-> "logLevel",
   information |-> "logLevel", checksum_verify |-> "VERIFY_CHECKSUM",
   ipv4 |-> "USE_IPV4", ipv6 |-> "USE_IPV6", port |-> "port",
   directory |-> "targetDir", nick |-> "nick", login |-> "login_command",
   accept_all_nicks |-> "ACCEPT_ALL_NICKS", accept_all_certs |-> "ALLOW_ALL_CERTS",
   dont_confirm_offsets |-> "DONT_CONFIRM_OFFSETS", throttle |-> "maxTransferSpeed",
   delay |-> "sendDelay", listen_ip |-> "listen_ip", listen_port |-> "listen_port"]

\* argp and getopt pass no other options to parse_opt.
ASSUME OptsAssumption == \A o \in Opts : o.key \in DOMAIN SettingOfOpt

Flags == {"ALLOW_ALL_CERTS", "USE_IPV4", "USE_IPV6", "VERIFY_CHECKSUM",
          "ACCEPT_ALL_NICKS", "DONT_CONFIRM_OFFSETS"}

\* The value that the set_ function of the option gives to its setting.
OptValue(o) ==
  CASE o.key = "quiet" -> "LOG_QUIET"
    [] o.key = "warn" -> "LOG_WARN"
    [] o.key \in {"verbose", "information"} -> "LOG_INFO"
    [] SettingOfOpt[o.key] \in Flags -> TRUE
    [] o.key = "throttle" -> setMaxTransferSpeed(o.value)
    [] o.key \in {"port", "listen_port"} -> UnsignedShort(o.value)
    [] o.key \in {"directory", "nick", "login", "delay", "listen_ip"} -> o.value

\* Mutant: an option does not replace what the file said.
parse_opt_FileWins ==
  /\ pc = "args" /\ at < Len(argv)
  /\ at' = at + 1
  /\ LET o == argv[at + 1] IN
     \/ /\ o.key = "listen_ip" /\ Invalid(o.value)
        /\ pc' = "exit" /\ UNCHANGED cfg
     \/ /\ ~(o.key = "listen_ip" /\ Invalid(o.value))
        /\ cfg' = IF cfg[SettingOfOpt[o.key]] = Defaults[SettingOfOpt[o.key]]
                  THEN [cfg EXCEPT ![SettingOfOpt[o.key]] = OptValue(o)] ELSE cfg
        /\ UNCHANGED pc
  /\ UNCHANGED <<exists, file, argv, starts, settled>>

parse_opt ==
  /\ pc = "args" /\ at < Len(argv)
  /\ at' = at + 1
  /\ LET o == argv[at + 1] IN
     \/ /\ o.key = "listen_ip" /\ Invalid(o.value)
        /\ pc' = "exit" /\ UNCHANGED cfg
     \/ /\ ~(o.key = "listen_ip" /\ Invalid(o.value))
        /\ cfg' = [cfg EXCEPT ![SettingOfOpt[o.key]] = OptValue(o)]
        /\ UNCHANGED pc
  /\ UNCHANGED <<exists, file, argv, starts, settled>>

\* The number of other arguments is 3, or argp_usage ends the program.
parseArguments_done ==
  /\ pc = "args" /\ at = Len(argv)
  /\ pc' \in {"ready", "exit"}
  /\ UNCHANGED <<exists, file, argv, at, cfg, starts, settled>>

-----------------------------------------------------------------------------
(* The program with its settings.                                          *)

\* main connects; a failure ends the program.
main_connect ==
  /\ pc = "ready"
  /\ pc' \in {"run", "exit"}
  /\ settled' = <<cfg>>
  /\ UNCHANGED <<exists, file, argv, at, cfg, starts>>

\* The program ends, by itself or by force; started again, it gets the same
\* command line.
Restart ==
  /\ starts < MaxStarts
  /\ pc' = "config" /\ at' = 0 /\ cfg' = Defaults
  /\ starts' = starts + 1
  /\ UNCHANGED <<exists, file, argv, settled>>

Next ==
  \/ file_exists \/ writeDefault_open \/ writeDefault_write
  \/ parseConfigLine \/ parseConfigFile_done
  \/ parse_opt \/ parseArguments_done
  \/ main_connect \/ Restart

Spec == Init /\ [][Next]_vars

-----------------------------------------------------------------------------
(* Properties.                                                             *)

Settled == pc \in {"ready", "run"}

\* What the documents say a setting is.  Names of levels: README.md:124 "valid options
\* are info, warn and error", config.c:114 "information, warn, error, quiet".
LevelMeant ==
  [info |-> "LOG_INFO", information |-> "LOG_INFO", warn |-> "LOG_WARN",
   error |-> "LOG_ERR", quiet |-> "LOG_QUIET"]

\* Speeds: config.c:122 and argument_parser.c:171 "valid suffixes are KByte, MByte and
\* TByte - e.g. 1Mbyte throttles the speed to 1MByte/s".
BytesMeant ==
  [KByte |-> Kilo, MByte |-> Kilo * Kilo, Mbyte |-> Kilo * Kilo,
   TByte |-> (Kilo * Kilo) * (Kilo * Kilo)]
SpeedMeant(v) == v.number * BytesMeant[v.suffix]
SpeedDocumented(v) ==
  /\ v.suffix \in DOMAIN BytesMeant
  /\ v.number \in Nat \ {0} /\ SpeedMeant(v) < SpeedMod

Port == 0 .. 65535

\* Lines and options that a document gives a meaning (README.md:121-131, the comments
\* of getDefaultConfigContent, the help texts of argument_parser.c:154-175), and that
\* meaning for the setting they are about.  confirmFileOffsets=false sets the flag:
\* "Do not send file offsets to the bots if set to false".
LineDocumented(l) ==
  /\ l.fields = 2
  /\ l.key = "logLevel" => l.value \in DOMAIN LevelMeant
  /\ l.key \in {"allowAllCerts", "verifyChecksums", "confirmFileOffsets"} =>
       l.value \in {"true", "false"}
  /\ l.key = "maxTransferSpeed" => SpeedDocumented(l.value)
  /\ l.key = "listenPort" => l.value \in Port
LineMeant(l) ==
  CASE l.key = "logLevel" -> LevelMeant[l.value]
    [] l.key = "confirmFileOffsets" -> l.value = "false"
    [] l.key \in {"allowAllCerts", "verifyChecksums"} -> l.value = "true"
    [] l.key = "maxTransferSpeed" -> SpeedMeant(l.value)
    [] OTHER -> l.value

OptDocumented(o) ==
  /\ o.key = "throttle" => SpeedDocumented(o.value)
  /\ o.key \in {"port", "listen_port"} => o.value \in Port
OptMeant(o) ==
  CASE o.key = "quiet" -> LevelMeant["quiet"]
    [] o.key = "warn" -> LevelMeant["warn"]
    [] o.key \in {"verbose", "information"} -> LevelMeant["information"]
    [] o.key \in {"checksum_verify", "ipv4", "ipv6", "accept_all_nicks", "accept_all_certs",
                  "dont_confirm_offsets"} -> TRUE
    [] o.key = "throttle" -> SpeedMeant(o.value)
    [] OTHER -> o.value

\* What has a documented meaning and is not read so: the level info is passed over
\* (config.c:94), and a suffix in other letters is none of sizeNames (helper.c:318).
Misread(m) ==
  \/ m.key = "logLevel" /\ m.value = "info"
  \/ m.key \in {"maxTransferSpeed", "throttle"} /\ m.value.suffix = "Mbyte"

\* The mentions of setting k, and what the last of them, if it has a documented
\* meaning, makes of it: options go before lines, and what nothing mentions keeps its
\* default.  Misread mentions are looked at only if all is TRUE.
OptsAbout(k) == {i \in 1 .. Len(argv) : SettingOfOpt[argv[i].key] = k}
LinesAbout(k) ==
  {i \in 1 .. Len(file) : file[i].key \in DOMAIN SettingOfKey /\ SettingOfKey[file[i].key] = k}
AsDocumented(k, all) ==
  LET o == argv[Max(OptsAbout(k))]
      l == file[Max(LinesAbout(k))]
  IN  IF OptsAbout(k) # {} THEN OptDocumented(o) /\ (all \/ ~Misread(o)) => cfg[k] = OptMeant(o)
      ELSE IF LinesAbout(k) # {}
        THEN LineDocumented(l) /\ (all \/ ~Misread(l)) => cfg[k] = LineMeant(l)
      ELSE cfg[k] = Defaults[k]

\* Every setting is what the documents say of its last mention.
LastMentionCounts == Settled => \A k \in DOMAIN Defaults : AsDocumented(k, FALSE)

\* Two starts with the same command line have the same settings, although
\* the first may find no config file and write one.
StartsAlike == Settled /\ settled # <<>> => settled = <<cfg>>

\* The settings of parseConfigFile and parseArguments are those that were written, as
\* the documents say they are meant, at this start and at the next, but for the two ways of
\* writing them that Misread names.
SettingsAsWritten == LastMentionCounts /\ StartsAlike

\* argument_parser.c:171 "e.g. 1Mbyte throttles the speed to 1MByte/s": every documented
\* speed becomes the limit.
SpeedAsDocumented == Settled => AsDocumented("maxTransferSpeed", TRUE)

====
