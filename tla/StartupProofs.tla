----------------------------- MODULE StartupProofs -----------------------------
(***************************************************************************)
(* What the program makes of what its user gives it:                       *)
(*   - every setting is what the documents say of its last mention, for    *)
(*     every config file and command line, at every start, but for the two *)
(*     ways of writing that the code misreads;                             *)
(*   - who is trusted, and for how long, for every set of chains,          *)
(*     certificates and files, and every number of starts and connections; *)
(*   - every string of Sds stays within its block and holds the text that  *)
(*     the calls so far stand for, for every width of the headers, every   *)
(*     preallocation and every bound.                                      *)
(*                                                                         *)
(* The calls that OpenSSL makes are a recursive function of the chain.     *)
(* What they are is proved by least counterexamples: the natural numbers   *)
(* are well ordered.                                                       *)
(***************************************************************************)
EXTENDS Options, Certificates, Sds, WellFoundedInduction, TLAPS

-----------------------------------------------------------------------------
(* Settings: the config file and the command line.                          *)

\* The last of some positions, when one more is considered.
LEMMA LastPosition ==
  ASSUME NEW S \in SUBSET Nat, NEW n \in Nat, \A i \in S : i < n
  PROVE  Max(S \cup {n}) = n
<1>1. n \in S \cup {n} /\ \A y \in S \cup {n} : n >= y
  OBVIOUS
<1>2. ASSUME NEW x \in S \cup {n}, \A y \in S \cup {n} : x >= y PROVE x = n
  BY <1>2
<1> QED
  BY <1>1, <1>2 DEF Max

\* The same as in Options, of any file f and command line a.
OptsIn(a, k, n) == {i \in 1 .. n : SettingOfOpt[a[i].key] = k}
LinesIn(f, k, n) == {i \in 1 .. n : Counts(f[i]) /\ SettingOfKey[f[i].key] = k}
SaidIn(f, a, k, m, n) ==
  IF OptsIn(a, k, n) # {} THEN OptValue(a[Max(OptsIn(a, k, n))])
  ELSE IF LinesIn(f, k, m) # {} THEN LineValue(f[Max(LinesIn(f, k, m))])
  ELSE Defaults[k]

Keys == DOMAIN Defaults

\* The settings after the first m lines and the first n options.
SettingsOf(f, a, m, n) == [k \in Keys |-> SaidIn(f, a, k, m, n)]

\* One more option counts if it is about k.
LEMMA OptSaid ==
  ASSUME NEW f, NEW a, NEW k, NEW m, NEW n \in Nat
  PROVE  /\ SettingOfOpt[a[n + 1].key] = k => SaidIn(f, a, k, m, n + 1) = OptValue(a[n + 1])
         /\ SettingOfOpt[a[n + 1].key] # k => SaidIn(f, a, k, m, n + 1) = SaidIn(f, a, k, m, n)
<1>1. ASSUME SettingOfOpt[a[n + 1].key] = k PROVE SaidIn(f, a, k, m, n + 1) = OptValue(a[n + 1])
  <2>1. OptsIn(a, k, n + 1) = OptsIn(a, k, n) \cup {n + 1}
    BY <1>1 DEF OptsIn
  <2>2. OptsIn(a, k, n) \in SUBSET Nat /\ \A i \in OptsIn(a, k, n) : i < n + 1
    BY DEF OptsIn
  <2>3. Max(OptsIn(a, k, n + 1)) = n + 1 /\ OptsIn(a, k, n + 1) # {}
    BY <2>1, <2>2, LastPosition
  <2> QED
    BY <2>3, Zenon DEF SaidIn
<1>2. ASSUME SettingOfOpt[a[n + 1].key] # k
      PROVE  SaidIn(f, a, k, m, n + 1) = SaidIn(f, a, k, m, n)
  <2>1. OptsIn(a, k, n + 1) = OptsIn(a, k, n)
    BY <1>2 DEF OptsIn
  <2> QED
    BY <2>1, Zenon DEF SaidIn
<1> QED
  BY <1>1, <1>2

\* One more line counts if it counts and is about k.
LEMMA LineSaid ==
  ASSUME NEW f, NEW a, NEW k, NEW m \in Nat
  PROVE  /\ Counts(f[m + 1]) /\ SettingOfKey[f[m + 1].key] = k =>
              SaidIn(f, a, k, m + 1, 0) = LineValue(f[m + 1])
         /\ ~(Counts(f[m + 1]) /\ SettingOfKey[f[m + 1].key] = k) =>
              SaidIn(f, a, k, m + 1, 0) = SaidIn(f, a, k, m, 0)
<1>1. OptsIn(a, k, 0) = {}
  BY DEF OptsIn
<1>2. ASSUME Counts(f[m + 1]) /\ SettingOfKey[f[m + 1].key] = k
      PROVE  SaidIn(f, a, k, m + 1, 0) = LineValue(f[m + 1])
  <2>1. LinesIn(f, k, m + 1) = LinesIn(f, k, m) \cup {m + 1}
    BY <1>2 DEF LinesIn
  <2>2. LinesIn(f, k, m) \in SUBSET Nat /\ \A i \in LinesIn(f, k, m) : i < m + 1
    BY DEF LinesIn
  <2>3. Max(LinesIn(f, k, m + 1)) = m + 1 /\ LinesIn(f, k, m + 1) # {}
    BY <2>1, <2>2, LastPosition
  <2> QED
    BY <1>1, <2>3, Zenon DEF SaidIn
<1>3. ASSUME ~(Counts(f[m + 1]) /\ SettingOfKey[f[m + 1].key] = k)
      PROVE  SaidIn(f, a, k, m + 1, 0) = SaidIn(f, a, k, m, 0)
  <2>1. LinesIn(f, k, m + 1) = LinesIn(f, k, m)
    BY <1>3 DEF LinesIn
  <2> QED
    BY <2>1, Zenon DEF SaidIn
<1> QED
  BY <1>2, <1>3

\* The settings after one more option, and after one more line.
LEMMA OptSets ==
  ASSUME NEW f, NEW a, NEW m, NEW n \in Nat
  PROVE  [SettingsOf(f, a, m, n) EXCEPT ![SettingOfOpt[a[n + 1].key]] = OptValue(a[n + 1])]
           = SettingsOf(f, a, m, n + 1)
<1> DEFINE s == SettingOfOpt[a[n + 1].key]
           v == OptValue(a[n + 1])
<1>1. \A k : /\ s = k => SaidIn(f, a, k, m, n + 1) = v
             /\ s # k => SaidIn(f, a, k, m, n + 1) = SaidIn(f, a, k, m, n)
  BY OptSaid
<1> HIDE DEF s, v
<1>2. [SettingsOf(f, a, m, n) EXCEPT ![s] = v] = SettingsOf(f, a, m, n + 1)
  BY <1>1 DEF SettingsOf
<1> QED
  BY <1>2 DEF s, v

LEMMA LineSets ==
  ASSUME NEW f, NEW a, NEW m \in Nat
  PROVE  /\ Counts(f[m + 1]) =>
              [SettingsOf(f, a, m, 0) EXCEPT ![SettingOfKey[f[m + 1].key]] = LineValue(f[m + 1])]
                = SettingsOf(f, a, m + 1, 0)
         /\ ~Counts(f[m + 1]) => SettingsOf(f, a, m + 1, 0) = SettingsOf(f, a, m, 0)
<1> DEFINE s == SettingOfKey[f[m + 1].key]
           v == LineValue(f[m + 1])
           c == Counts(f[m + 1])
<1>1. \A k : /\ c /\ s = k => SaidIn(f, a, k, m + 1, 0) = v
             /\ ~(c /\ s = k) => SaidIn(f, a, k, m + 1, 0) = SaidIn(f, a, k, m, 0)
  BY LineSaid
<1> HIDE DEF s, v, c
<1>2. ASSUME c PROVE [SettingsOf(f, a, m, 0) EXCEPT ![s] = v] = SettingsOf(f, a, m + 1, 0)
  BY <1>1, <1>2 DEF SettingsOf
<1>3. ASSUME ~c PROVE SettingsOf(f, a, m + 1, 0) = SettingsOf(f, a, m, 0)
  BY <1>1, <1>3 DEF SettingsOf
<1> QED
  BY <1>2, <1>3 DEF s, v, c

\* The defaults with other texts.
ConfigWith(level, dir, text) ==
  [logLevel |-> level, port |-> 6667, maxTransferSpeed |-> 0,
   targetDir |-> dir, nick |-> text, login_command |-> text, listen_ip |-> text,
   listen_port |-> 0, sendDelay |-> 0,
   ALLOW_ALL_CERTS |-> FALSE, USE_IPV4 |-> FALSE, USE_IPV6 |-> FALSE,
   VERIFY_CHECKSUM |-> FALSE, ACCEPT_ALL_NICKS |-> FALSE,
   DONT_CONFIRM_OFFSETS |-> FALSE]

LEMMA ConfigIsFunction ==
  ASSUME NEW a, NEW b, NEW c, NEW r, r = ConfigWith(a, b, c)
  PROVE  r = [k \in DOMAIN r |-> r[k]]
BY DEF ConfigWith

\* Before the first line the settings are the defaults.
LEMMA NothingSaid ==
  ASSUME NEW f, NEW a
  PROVE  SettingsOf(f, a, 0, 0) = Defaults
<1>1. \A k : OptsIn(a, k, 0) = {} /\ LinesIn(f, k, 0) = {}
  BY DEF OptsIn, LinesIn
<1>2. \A k : SaidIn(f, a, k, 0, 0) = Defaults[k]
  BY <1>1, Zenon DEF SaidIn
<1>3. Defaults = [k \in Keys |-> Defaults[k]]
  <2>1. PICK level, dir, text : level = "LOG_WARN" /\ dir = "home" /\ text = ""
    OBVIOUS
  <2>2. Defaults = ConfigWith("LOG_WARN", "home", "")
    BY Zenon DEF Defaults, ConfigWith
  <2>3. Defaults = ConfigWith(level, dir, text)
    BY <2>1, <2>2
  <2>4. Defaults = [k \in DOMAIN Defaults |-> Defaults[k]]
    BY <2>3, ConfigIsFunction
  <2> QED
    BY <2>4, Zenon DEF Keys
<1>4. SettingsOf(f, a, 0, 0) = [k \in Keys |-> Defaults[k]]
  BY <1>2, Zenon DEF SettingsOf
<1> QED
  BY <1>3, <1>4, Zenon

\* A sequence of bounded length has a length.
LEMMA Bounded ==
  ASSUME NEW S, NEW n \in Nat, NEW s \in SeqOf(S, n)
  PROVE  Len(s) \in Nat /\ \A i \in 1 .. Len(s) : s[i] \in S
<1>1. PICK m \in 0 .. n : s \in [1 .. m -> S]
  BY DEF SeqOf
<1>2. s \in Seq(S)
  BY <1>1
<1> QED
  BY <1>2

-----------------------------------------------------------------------------
(* The inductive invariant of the settings.                                 *)

FinalOf(f, a) == SettingsOf(f, a, Len(f), Len(a))

\* cfg is what was said as far as the program has read.  Once settings were
\* settled there is a config file, which no later start writes.
OptionsInv ==
  /\ Len(file) \in Nat /\ Len(argv) \in Nat /\ at \in Nat
  /\ \A i \in 1 .. Len(argv) : argv[i].key \in DOMAIN SettingOfOpt
  /\ pc \in {"config", "open", "write"} => at = 0 /\ cfg = Defaults
  /\ pc = "read" => at <= Len(file) /\ cfg = SettingsOf(file, argv, at, 0)
  /\ pc = "args" => at <= Len(argv) /\ cfg = SettingsOf(file, argv, Len(file), at)
  /\ Settled => cfg = FinalOf(file, argv)
  /\ pc \in {"write", "read", "args", "ready", "run"} => exists
  /\ pc \in {"open", "write"} => settled = <<>>
  /\ settled = <<>> \/ (exists /\ settled = <<FinalOf(file, argv)>>)

LEMMA OptionsInitial == Init => OptionsInv
<1> SUFFICES ASSUME Init PROVE OptionsInv
  OBVIOUS
<1>1. Len(argv) \in Nat
  BY OptionsAssumption, Bounded DEF Init
<1>2. Len(file) \in Nat
  <2>1. CASE exists
    BY <2>1, OptionsAssumption, Bounded DEF Init
  <2>2. CASE ~exists
    BY <2>2 DEF Init
  <2> QED
    BY <2>1, <2>2
<1>3. pc = "config" /\ at = 0 /\ cfg = Defaults /\ settled = <<>>
  BY DEF Init
<1>4. \A i \in 1 .. Len(argv) : argv[i].key \in DOMAIN SettingOfOpt
  <2>1. \A i \in 1 .. Len(argv) : argv[i] \in Opts
    BY OptionsAssumption, Bounded DEF Init
  <2> QED
    BY <2>1, OptsAssumption
<1> QED
  BY <1>1, <1>2, <1>3, <1>4 DEF OptionsInv, Settled

LEMMA OptionsStep == OptionsInv /\ [Next]_vars => OptionsInv'
<1> SUFFICES ASSUME OptionsInv, [Next]_vars PROVE OptionsInv'
  OBVIOUS
<1>1. CASE file_exists
  <2>1. cfg = Defaults /\ at = 0 /\ pc = "config" /\ pc' = IF exists THEN "read" ELSE "open"
    BY <1>1 DEF file_exists, OptionsInv
  <2>2. UNCHANGED <<exists, file, argv, at, cfg, starts, settled>>
    BY <1>1 DEF file_exists
  <2>3. SettingsOf(file, argv, 0, 0) = Defaults
    BY NothingSaid
  <2> QED
    BY <2>1, <2>2, <2>3 DEF OptionsInv, Settled
<1>2. CASE writeDefault_open
  BY <1>2 DEF writeDefault_open, OptionsInv, Settled
<1>3. CASE writeDefault_write
  <2>1. /\ cfg = Defaults /\ at = 0 /\ pc = "write" /\ pc' = "read" /\ exists /\ settled = <<>>
        /\ file' = DefaultLines
        /\ UNCHANGED <<exists, argv, at, cfg, starts, settled>>
    BY <1>3 DEF writeDefault_write, OptionsInv
  <2>2. SettingsOf(file', argv, 0, 0) = Defaults
    BY NothingSaid
  <2>3. Len(DefaultLines) \in Nat
    BY DEF DefaultLines
  <2> QED
    BY <2>1, <2>2, <2>3 DEF OptionsInv, Settled
<1>4. CASE parseConfigLine
  <2>1. /\ pc = "read" /\ at < Len(file) /\ at' = at + 1 /\ at \in Nat /\ Len(file) \in Nat
        /\ UNCHANGED <<exists, file, argv, starts, settled>> /\ cfg = SettingsOf(file, argv, at, 0)
        /\ exists
    BY <1>4 DEF parseConfigLine, OptionsInv
  <2>2. \/ pc' = "exit"
        \/ ~Counts(file[at + 1]) /\ cfg' = cfg /\ pc' = pc
        \/ /\ Counts(file[at + 1]) /\ pc' = pc
           /\ cfg' = [cfg EXCEPT ![SettingOfKey[file[at + 1].key]] = LineValue(file[at + 1])]
    BY <1>4 DEF parseConfigLine
  <2>3. CASE pc' = "exit"
    BY <2>1, <2>3 DEF OptionsInv, Settled
  <2>4. ASSUME pc' # "exit" PROVE pc' = pc /\ cfg' = SettingsOf(file, argv, at + 1, 0)
    BY <2>1, <2>2, <2>4, LineSets
  <2>5. CASE pc' # "exit"
    <3>1. at + 1 <= Len(file) /\ at + 1 \in Nat
      BY <2>1
    <3> QED
      BY <2>1, <2>4, <2>5, <3>1 DEF OptionsInv, Settled
  <2> QED
    BY <2>3, <2>5
<1>5. CASE parseConfigFile_done
  BY <1>5 DEF parseConfigFile_done, OptionsInv, Settled
<1>6. CASE parse_opt
  <2>1. /\ pc = "args" /\ at < Len(argv) /\ at' = at + 1 /\ at \in Nat /\ Len(argv) \in Nat
        /\ UNCHANGED <<exists, file, argv, starts, settled>>
        /\ cfg = SettingsOf(file, argv, Len(file), at)
        /\ exists
    BY <1>6 DEF parse_opt, OptionsInv
  <2>2. \/ pc' = "exit"
        \/ /\ pc' = pc
           /\ cfg' = [cfg EXCEPT ![SettingOfOpt[argv[at + 1].key]] = OptValue(argv[at + 1])]
    BY <1>6 DEF parse_opt
  <2>3. CASE pc' = "exit"
    BY <2>1, <2>3 DEF OptionsInv, Settled
  <2>4. ASSUME pc' # "exit" PROVE pc' = pc /\ cfg' = SettingsOf(file, argv, Len(file), at + 1)
    <3>1. [SettingsOf(file, argv, Len(file), at) EXCEPT ![SettingOfOpt[argv[at + 1].key]] = OptValue(argv[at + 1])]
            = SettingsOf(file, argv, Len(file), at + 1)
      <4>1. at \in Nat
        BY <2>1
      <4> QED
        BY <4>1, OptSets, Zenon
    <3> QED
      BY <2>1, <2>2, <2>4, <3>1, Zenon
  <2>5. CASE pc' # "exit"
    <3>1. at + 1 <= Len(argv) /\ at + 1 \in Nat
      BY <2>1
    <3> QED
      BY <2>1, <2>4, <2>5, <3>1 DEF OptionsInv, Settled
  <2> QED
    BY <2>3, <2>5
<1>7. CASE parseArguments_done
  BY <1>7 DEF parseArguments_done, OptionsInv, Settled, FinalOf
<1>8. CASE main_connect
  BY <1>8 DEF main_connect, OptionsInv, Settled
<1>9. CASE Restart
  BY <1>9 DEF Restart, OptionsInv, Settled
<1>10. CASE UNCHANGED vars
  BY <1>10 DEF vars, OptionsInv, Settled
<1> QED
  BY <1>1, <1>2, <1>3, <1>4, <1>5, <1>6, <1>7, <1>8, <1>9, <1>10 DEF Next

-----------------------------------------------------------------------------
(* What the code reads is what the documents say.                           *)

LEMMA SmallModulus ==
  ASSUME NEW x \in Nat, NEW m \in Nat \ {0}, x < m
  PROVE  x % m = x
OBVIOUS

\* Every documented speed that is not misread, and the powers of 1024 stay in range.
LEMMA SpeedRead ==
  ASSUME NEW v, SpeedDocumented(v), v.suffix # "Mbyte"
  PROVE  setMaxTransferSpeed(v) = SpeedMeant(v)
<1> DEFINE n == v.number
           k2 == Kilo * Kilo
<1>1. n \in Nat /\ Kilo \in Nat /\ k2 \in Nat /\ SpeedMod \in Nat \ {0}
  BY OptionsAssumption DEF SpeedDocumented
<1>2. v.suffix \in {"KByte", "MByte", "TByte"} /\ SpeedMeant(v) < SpeedMod
  BY DEF SpeedDocumented, BytesMeant
<1>3. ASSUME NEW i \in 1 .. 6, SizeNames[i] = v.suffix, NEW b \in Nat, pow_uint64(i - 1) = b,
             n * b < SpeedMod
      PROVE  setMaxTransferSpeed(v) = n * b
  <2> DEFINE found == {j \in 1 .. 6 : SizeNames[j] = v.suffix}
  <2>1. found = {i}
    BY <1>3 DEF SizeNames
  <2>2. (CHOOSE j \in found : TRUE) = i /\ found # {}
    BY <2>1
  <2>3. getSizeOf(n, v.suffix) = (n * b) % SpeedMod
    BY <1>3, <2>2 DEF getSizeOf
  <2>4. n * b \in Nat
    BY <1>1
  <2>5. v.suffix # ""
    BY <1>2
  <2> QED
    BY <1>1, <1>3, <2>3, <2>4, <2>5, SmallModulus DEF setMaxTransferSpeed
<1>4. CASE v.suffix = "KByte"
  <2>1. SpeedMeant(v) = n * Kilo
    BY <1>4 DEF SpeedMeant, BytesMeant
  <2>2. SizeNames[2] = v.suffix /\ pow_uint64(2 - 1) = Kilo
    BY <1>4 DEF SizeNames, pow_uint64
  <2> QED
    BY <1>1, <1>2, <1>3, <2>1, <2>2
<1>5. CASE v.suffix = "MByte"
  <2>1. SpeedMeant(v) = n * k2
    BY <1>5 DEF SpeedMeant, BytesMeant
  <2>2. SizeNames[3] = v.suffix /\ pow_uint64(3 - 1) = k2
    BY <1>5 DEF SizeNames, pow_uint64
  <2> HIDE DEF k2
  <2> QED
    BY <1>1, <1>2, <1>3, <2>1, <2>2
<1>6. CASE v.suffix = "TByte"
  <2> DEFINE k4 == k2 * k2
  <2>1. SpeedMeant(v) = n * k4
    BY <1>6 DEF SpeedMeant, BytesMeant
  <2>2. SizeNames[5] = v.suffix /\ pow_uint64(5 - 1) = k4
    BY <1>6 DEF SizeNames, pow_uint64
  <2>3. k4 \in Nat
    BY <1>1
  <2> HIDE DEF k4
  <2> QED
    BY <1>1, <1>2, <1>3, <2>1, <2>2, <2>3
<1> QED
  BY <1>2, <1>4, <1>5, <1>6

LEMMA PortRead == ASSUME NEW n \in Port PROVE UnsignedShort(n) = n
<1>1. n \in Nat /\ n < 65536
  BY DEF Port
<1> QED
  BY <1>1, SmallModulus DEF UnsignedShort

LEMMA LineRead ==
  ASSUME NEW l, l.key \in DOMAIN SettingOfKey, LineDocumented(l), ~Misread(l)
  PROVE  Counts(l) /\ LineValue(l) = LineMeant(l)
<1>1. l.key \in {"downloadDir", "logLevel", "allowAllCerts", "verifyChecksums",
                 "confirmFileOffsets", "maxTransferSpeed", "listenIp", "listenPort"}
  BY DEF SettingOfKey
<1>2. CASE l.key = "logLevel"
  <2>1. l.value \in {"information", "warn", "error", "quiet"} /\ l.fields = 2
    BY <1>2 DEF LineDocumented, LevelMeant, Misread
  <2>2. l.value \in DOMAIN LevelNames /\ LevelNames[l.value] = LevelMeant[l.value]
    BY <2>1 DEF LevelNames, LevelMeant
  <2>3. LineValue(l) = LevelNames[l.value] /\ LineMeant(l) = LevelMeant[l.value]
    BY <1>2 DEF LineValue, LineMeant
  <2> QED
    BY <1>2, <2>1, <2>2, <2>3 DEF Counts
<1>3. CASE l.key # "logLevel"
  <2>1. Counts(l)
    BY <1>3 DEF Counts, LineDocumented
  <2>2. CASE l.key = "maxTransferSpeed"
    <3>1. SpeedDocumented(l.value) /\ l.value.suffix # "Mbyte"
      BY <2>2 DEF LineDocumented, Misread
    <3>2. LineValue(l) = setMaxTransferSpeed(l.value) /\ LineMeant(l) = SpeedMeant(l.value)
      BY <2>2 DEF LineValue, LineMeant
    <3> QED
      BY <2>1, <3>1, <3>2, SpeedRead
  <2>3. CASE l.key = "listenPort"
    <3>1. l.value \in Port /\ LineValue(l) = UnsignedShort(l.value) /\ LineMeant(l) = l.value
      BY <2>3 DEF LineDocumented, LineValue, LineMeant
    <3> QED
      BY <2>1, <3>1, PortRead
  <2>4. CASE l.key \in {"downloadDir", "listenIp"}
    BY <2>1, <2>4 DEF LineValue, LineMeant
  <2>5. CASE l.key \in {"allowAllCerts", "verifyChecksums"}
    BY <2>1, <2>5 DEF LineValue, LineMeant
  <2>6. CASE l.key = "confirmFileOffsets"
    <3>1. l.value \in {"true", "false"}
      BY <2>6 DEF LineDocumented
    <3>2. LineValue(l) = (l.value # "true") /\ LineMeant(l) = (l.value = "false")
      BY <2>6 DEF LineValue, LineMeant
    <3>3. (l.value # "true") = (l.value = "false")
      BY <3>1
    <3> QED
      BY <2>1, <3>2, <3>3
  <2> QED
    BY <1>1, <1>3, <2>2, <2>3, <2>4, <2>5, <2>6
<1> QED
  BY <1>2, <1>3

LEMMA OptRead ==
  ASSUME NEW o, o.key \in DOMAIN SettingOfOpt, OptDocumented(o), ~Misread(o)
  PROVE  OptValue(o) = OptMeant(o)
<1> DEFINE flagOpts == {"checksum_verify", "ipv4", "ipv6", "accept_all_nicks",
                        "accept_all_certs", "dont_confirm_offsets"}
           textOpts == {"directory", "nick", "login", "delay", "listen_ip"}
<1>1. o.key \in {"quiet", "verbose", "warn", "information", "throttle", "port", "listen_port"}
                  \cup flagOpts \cup textOpts
  BY DEF SettingOfOpt
<1>2. CASE o.key \in {"quiet", "verbose", "warn", "information"}
  <2>1. SettingOfOpt[o.key] \notin Flags
    BY <1>2 DEF SettingOfOpt, Flags
  <2>2. OptValue(o) = CASE o.key = "quiet" -> "LOG_QUIET" [] o.key = "warn" -> "LOG_WARN"
                        [] o.key \in {"verbose", "information"} -> "LOG_INFO"
    BY <1>2, <2>1 DEF OptValue
  <2> QED
    BY <1>2, <2>2 DEF OptMeant, LevelMeant
<1>3. CASE o.key \in flagOpts
  <2>1. SettingOfOpt[o.key] \in Flags
    BY <1>3 DEF SettingOfOpt, Flags
  <2>2. OptValue(o) = TRUE
    BY <1>3, <2>1 DEF OptValue
  <2>3. OptMeant(o) = TRUE
    BY <1>3 DEF OptMeant
  <2> QED
    BY <2>2, <2>3
<1>4. CASE o.key \notin flagOpts /\ o.key \notin {"quiet", "verbose", "warn", "information"}
  <2>1. SettingOfOpt[o.key] \notin Flags
    BY <1>1, <1>4 DEF SettingOfOpt, Flags
  <2>2. CASE o.key = "throttle"
    <3>1. SpeedDocumented(o.value) /\ o.value.suffix # "Mbyte"
      BY <2>2 DEF OptDocumented, Misread
    <3>2. OptValue(o) = setMaxTransferSpeed(o.value) /\ OptMeant(o) = SpeedMeant(o.value)
      BY <2>1, <2>2 DEF OptValue, OptMeant
    <3> QED
      BY <3>1, <3>2, SpeedRead
  <2>3. CASE o.key \in {"port", "listen_port"}
    <3>1. o.value \in Port /\ OptValue(o) = UnsignedShort(o.value) /\ OptMeant(o) = o.value
      BY <2>1, <2>3 DEF OptDocumented, OptValue, OptMeant
    <3> QED
      BY <3>1, PortRead
  <2>4. CASE o.key \in textOpts
    BY <2>1, <2>4 DEF OptValue, OptMeant
  <2> QED
    BY <1>1, <1>4, <2>2, <2>3, <2>4
<1> QED
  BY <1>2, <1>3, <1>4

\* Every non-empty set of natural numbers has a least element.
LEMMA LeastElement ==
  ASSUME NEW T \in SUBSET Nat, T # {}
  PROVE  \E x \in T : \A y \in T : x <= y
<1> DEFINE R == OpToRel(<, Nat)
<1>1. IsWellFoundedOn(R, Nat)
  BY NatLessThanWellFounded
<1>2. ASSUME NEW x \in Nat, NEW y \in Nat, y < x PROVE <<y, x>> \in R
  BY <1>2 DEF OpToRel
<1> HIDE DEF R
<1>3. PICK x \in T : \A y \in T : ~(<<y, x>> \in R)
  BY <1>1, WFMin
<1>4. ASSUME NEW y \in T PROVE x <= y
  <2>1. x \in Nat /\ y \in Nat
    OBVIOUS
  <2>2. ~(y < x)
    BY <1>2, <1>3, <2>1, Zenon
  <2> QED
    BY <2>1, <2>2
<1> QED
  BY <1>4

\* A set of positions has a last one.
LEMMA LastOf ==
  ASSUME NEW n \in Nat, NEW S \in SUBSET (1 .. n), S # {}
  PROVE  Max(S) \in S /\ \A i \in S : i <= Max(S)
<1> DEFINE T == {n - x : x \in S}
<1>1. T \in SUBSET Nat /\ T # {}
  OBVIOUS
<1>2. PICK d \in T : \A y \in T : d <= y
  BY <1>1, LeastElement
<1>3. PICK x \in S : d = n - x
  BY <1>2
<1>4. ASSUME NEW i \in S PROVE x >= i
  <2>1. n - i \in T /\ i \in Int /\ x \in Int
    OBVIOUS
  <2>2. d <= n - i
    BY <1>2, <2>1
  <2> QED
    BY <1>3, <2>1, <2>2
<1> HIDE DEF T
<1>5. Max(S) \in S /\ \A i \in S : Max(S) >= i
  BY <1>4 DEF Max
<1>6. \A i \in S : i \in Int
  OBVIOUS
<1> QED
  BY <1>5, <1>6

\* Whatever the file and the command line say, and however often the program is killed
\* and started again, before or after it has written a config file: every setting is
\* what the documents say of its last mention, but for the two that are misread, and
\* the next start has the same settings.
THEOREM SettingsAsWrittenAlways == Spec => []SettingsAsWritten
<1>1. OptionsInv => SettingsAsWritten
  <2> SUFFICES ASSUME OptionsInv PROVE LastMentionCounts /\ StartsAlike
    BY DEF SettingsAsWritten
  <2>1. StartsAlike
    BY DEF OptionsInv, StartsAlike
  <2>2. ASSUME Settled, NEW k \in Keys PROVE AsDocumented(k, FALSE)
    <3> DEFINE os == OptsAbout(k)
               ls == LinesAbout(k)
               n == Len(argv)
               m == Len(file)
    <3>1. n \in Nat /\ m \in Nat /\ cfg[k] = SaidIn(file, argv, k, m, n)
      BY <2>2 DEF OptionsInv, FinalOf, SettingsOf
    <3>2. OptsIn(argv, k, n) = os
      BY DEF OptsIn, OptsAbout
    <3>3. CASE os # {}
      <4> DEFINE o == argv[Max(os)]
      <4>1. cfg[k] = OptValue(o)
        BY <3>1, <3>2, <3>3, Zenon DEF SaidIn
      <4>2. o.key \in DOMAIN SettingOfOpt
        <5>1. os \in SUBSET (1 .. n)
          BY DEF OptsAbout
        <5>2. Max(os) \in 1 .. n
          BY <3>1, <3>3, <5>1, LastOf
        <5> QED
          BY <5>2 DEF OptionsInv
      <4>3. OptDocumented(o) /\ ~Misread(o) => cfg[k] = OptMeant(o)
        BY <4>1, <4>2, OptRead
      <4> QED
        BY <3>3, <4>3, Zenon DEF AsDocumented
    <3>4. CASE os = {} /\ ls # {}
      <4> DEFINE l == file[Max(ls)]
      <4>1. ASSUME LineDocumented(l), ~Misread(l) PROVE cfg[k] = LineMeant(l)
        <5>1. ls \in SUBSET (1 .. m)
          BY DEF LinesAbout
        <5>2. Max(ls) \in ls /\ \A i \in ls : i <= Max(ls)
          BY <3>1, <3>4, <5>1, LastOf
        <5>3. l.key \in DOMAIN SettingOfKey /\ SettingOfKey[l.key] = k
          BY <5>2 DEF LinesAbout
        <5>4. Counts(l) /\ LineValue(l) = LineMeant(l)
          BY <4>1, <5>3, LineRead
        <5> DEFINE lin == LinesIn(file, k, m)
        <5>5. Max(ls) \in lin /\ lin \subseteq ls
          BY <5>2, <5>3, <5>4 DEF LinesIn, LinesAbout, Counts
        <5>6. Max(lin) = Max(ls)
          <6>1. \A i \in lin : Max(ls) >= i
            BY <5>1, <5>2, <5>5
          <6>2. ASSUME NEW x \in lin, \A y \in lin : x >= y PROVE x = Max(ls)
            <7>1. x >= Max(ls) /\ Max(ls) >= x /\ x \in Nat /\ Max(ls) \in Nat
              BY <5>1, <5>2, <5>5, <6>1, <6>2
            <7> QED
              BY <7>1
          <6> HIDE DEF lin, ls
          <6>3. Max(lin) = CHOOSE x \in lin : \A y \in lin : x >= y
            BY DEF Max
          <6> QED
            BY <5>5, <6>1, <6>2, <6>3
        <5>7. cfg[k] = LineValue(file[Max(lin)])
          BY <3>1, <3>2, <3>4, <5>5, Zenon DEF SaidIn
        <5> QED
          BY <5>4, <5>6, <5>7, Zenon
      <4> QED
        BY <3>4, <4>1, Zenon DEF AsDocumented
    <3>5. CASE os = {} /\ ls = {}
      <4>1. LinesIn(file, k, m) = {}
        BY <3>5 DEF LinesIn, LinesAbout, Counts
      <4>2. cfg[k] = Defaults[k]
        BY <3>1, <3>2, <3>5, <4>1, Zenon DEF SaidIn
      <4> QED
        BY <3>5, <4>2, Zenon DEF AsDocumented
    <3> QED
      BY <3>3, <3>4, <3>5
  <2>3. LastMentionCounts
    BY <2>2 DEF LastMentionCounts, Keys
  <2> QED
    BY <2>1, <2>3
<1> QED
  BY <1>1, OptionsInitial, OptionsStep, PTL DEF Spec

-----------------------------------------------------------------------------
(* What OpenSSL asks about a chain.                                         *)

\* The calls for one certificate.
Own(chain, cert) ==
  IF cert \in chain.expired
  THEN <<Check(cert, "CERT_HAS_EXPIRED"), Check(cert, NoProblem)>>
  ELSE <<Check(cert, NoProblem)>>

\* f holds the calls for the lowest i certificates of built, for i from 0 to n.
Downs(f, chain, built, n) ==
  f = [i \in 0 .. n |-> IF i = 0 THEN <<>> ELSE Own(chain, built[i]) \o f[i - 1]]

OwnChecks == [cert : Certs, problem : {NoProblem, "CERT_HAS_EXPIRED"}]
AllChecks ==
  [cert : Certs, problem : {NoProblem, "CERT_HAS_EXPIRED", "HOSTNAME_MISMATCH"} \cup Untrusted]

\* x has a call for this certificate and problem.
Asks(x, cert, problem) == \E k \in 1 .. Len(x) : x[k] = Check(cert, problem)

\* The calls for one certificate are sequences of its checks.
LEMMA OwnType ==
  ASSUME NEW chain, NEW cert \in Certs
  PROVE  /\ Own(chain, cert) \in Seq(OwnChecks)
         /\ cert \in chain.expired => Asks(Own(chain, cert), cert, "CERT_HAS_EXPIRED")
<1>1. Check(cert, "CERT_HAS_EXPIRED") \in OwnChecks /\ Check(cert, NoProblem) \in OwnChecks
  BY DEF Check, OwnChecks
<1>2. CASE cert \in chain.expired
  <2> DEFINE o == <<Check(cert, "CERT_HAS_EXPIRED"), Check(cert, NoProblem)>>
  <2>1. Own(chain, cert) = o
    BY <1>2 DEF Own
  <2>2. o \in Seq(OwnChecks) /\ 1 \in 1 .. Len(o) /\ o[1] = Check(cert, "CERT_HAS_EXPIRED")
    BY <1>1
  <2> HIDE DEF o
  <2> QED
    BY <2>1, <2>2 DEF Asks
<1>3. CASE cert \notin chain.expired
  BY <1>1, <1>3 DEF Own
<1> QED
  BY <1>2, <1>3

\* A call for an element of a part is one of the whole.
LEMMA AsksPart ==
  ASSUME NEW S, NEW x \in Seq(S), NEW y \in Seq(S), NEW c, NEW p
  PROVE  /\ Asks(x, c, p) => Asks(x \o y, c, p)
         /\ Asks(y, c, p) => Asks(x \o y, c, p)
<1>1. x \o y \in Seq(S) /\ Len(x \o y) = Len(x) + Len(y) /\ Len(x) \in Nat /\ Len(y) \in Nat
  OBVIOUS
<1>2. ASSUME NEW k \in 1 .. Len(x) PROVE k \in 1 .. Len(x \o y) /\ (x \o y)[k] = x[k]
  BY <1>1
<1>3. ASSUME NEW k \in 1 .. Len(y)
      PROVE  Len(x) + k \in 1 .. Len(x \o y) /\ (x \o y)[Len(x) + k] = y[k]
  BY <1>1
<1> QED
  BY <1>2, <1>3, Zenon DEF Asks

\* There is such an f.
LEMMA DownsExist ==
  ASSUME NEW chain, NEW n \in Nat, NEW built, \A i \in 1 .. n : built[i] \in Certs
  PROVE  \E f : Downs(f, chain, built, n)
<1> DEFINE Reached(m) == \E f : DOMAIN f = 0 .. m /\ Downs(f, chain, built, m)
           bad == {m \in 0 .. n : ~Reached(m)}
<1>1. SUFFICES ASSUME n \in bad PROVE FALSE
  <2> HIDE DEF Reached
  <2>1. Reached(n)
    BY <1>1
  <2> QED
    BY <2>1 DEF Reached
<1> HIDE DEF Reached
<1>2. PICK m \in bad : \A k \in bad : m <= k
  <2>1. bad \in SUBSET Nat /\ bad # {}
    BY <1>1
  <2> HIDE DEF bad
  <2> QED
    BY <2>1, LeastElement
<1>3. m \in Nat /\ m <= n /\ ~Reached(m)
  BY <1>2
<1>4. CASE m = 0
  <2> DEFINE f == [i \in 0 .. 0 |-> <<>>]
  <2>1. DOMAIN f = 0 .. m
    BY <1>4
  <2>2. Downs(f, chain, built, m)
    BY <1>4 DEF Downs
  <2> QED
    BY <1>3, <2>1, <2>2 DEF Reached
<1>5. CASE m > 0
  <2>1. m - 1 \in 0 .. n /\ m - 1 \notin bad
    BY <1>2, <1>3, <1>5
  <2>2. PICK g : DOMAIN g = 0 .. (m - 1) /\ Downs(g, chain, built, m - 1)
    BY <2>1 DEF Reached
  <2> DEFINE last == Own(chain, built[m]) \o g[m - 1]
             f == [i \in 0 .. m |-> IF i < m THEN g[i] ELSE last]
             h == [i \in 0 .. m |-> IF i = 0 THEN <<>> ELSE Own(chain, built[i]) \o f[i - 1]]
  <2>3. ASSUME NEW i \in 0 .. m PROVE f[i] = h[i]
    <3>1. CASE i = m
      <4>1. f[i - 1] = g[m - 1]
        BY <1>3, <1>5, <3>1
      <4>2. f[i] = Own(chain, built[m]) \o g[m - 1]
        <5> HIDE DEF last
        <5>1. f[i] = last
          BY <1>3, <3>1
        <5> QED
          BY <5>1 DEF last
      <4> QED
        BY <1>5, <3>1, <4>1, <4>2
    <3>2. CASE i # m
      <4>1. i \in 0 .. (m - 1) /\ i \in Nat /\ i < m
        BY <1>3, <3>2
      <4>2. g[i] = IF i = 0 THEN <<>> ELSE Own(chain, built[i]) \o g[i - 1]
        BY <2>2, <4>1 DEF Downs
      <4>3. i # 0 => f[i - 1] = g[i - 1]
        BY <1>3, <4>1
      <4> QED
        BY <4>1, <4>2, <4>3
    <3> QED
      BY <3>1, <3>2
  <2>4. f = h
    BY <2>3
  <2>5. Downs(f, chain, built, m) /\ DOMAIN f = 0 .. m
    BY <2>4 DEF Downs
  <2> QED
    BY <1>3, <2>5 DEF Reached
<1> QED
  BY <1>3, <1>4, <1>5

\* What f holds: checks of the certificates, one for each that is out of date.
LEMMA DownsAsk ==
  ASSUME NEW chain, NEW n \in Nat, NEW built, \A i \in 1 .. n : built[i] \in Certs,
         NEW f, Downs(f, chain, built, n)
  PROVE  /\ f[n] \in Seq(OwnChecks)
         /\ \A i \in 1 .. n : built[i] \in chain.expired => Asks(f[n], built[i], "CERT_HAS_EXPIRED")
<1> DEFINE Right(m) ==
             /\ f[m] \in Seq(OwnChecks)
             /\ \A i \in 1 .. m : built[i] \in chain.expired => Asks(f[m], built[i], "CERT_HAS_EXPIRED")
           bad == {m \in 0 .. n : ~Right(m)}
<1>1. SUFFICES ASSUME n \in bad PROVE FALSE
  <2> HIDE DEF Right
  <2>1. Right(n)
    BY <1>1
  <2> QED
    BY <2>1 DEF Right
<1> HIDE DEF Right
<1>2. PICK m \in bad : \A k \in bad : m <= k
  <2>1. bad \in SUBSET Nat /\ bad # {}
    BY <1>1
  <2> HIDE DEF bad
  <2> QED
    BY <2>1, LeastElement
<1>3. m \in Nat /\ m <= n /\ ~Right(m)
  BY <1>2
<1>4. f[m] = IF m = 0 THEN <<>> ELSE Own(chain, built[m]) \o f[m - 1]
  BY <1>3 DEF Downs
<1>5. CASE m = 0
  BY <1>3, <1>4, <1>5 DEF Right
<1>6. CASE m > 0
  <2>1. m - 1 \in 0 .. n /\ m - 1 \notin bad
    BY <1>2, <1>3, <1>6
  <2>2. Right(m - 1)
    BY <2>1
  <2> DEFINE o == Own(chain, built[m])
             g == f[m - 1]
  <2>3. g \in Seq(OwnChecks)
    BY <2>2 DEF Right
  <2>4. built[m] \in Certs
    BY <1>3, <1>6
  <2>5. /\ o \in Seq(OwnChecks)
        /\ built[m] \in chain.expired => Asks(o, built[m], "CERT_HAS_EXPIRED")
    BY <2>4, OwnType
  <2>6. f[m] = o \o g
    <3>1. m # 0
      BY <1>6
    <3> QED
      BY <1>4, <3>1, Zenon
  <2>7. ASSUME NEW i \in 1 .. (m - 1), built[i] \in chain.expired PROVE Asks(g, built[i], "CERT_HAS_EXPIRED")
    BY <2>2, <2>7 DEF Right
  <2> HIDE DEF o, g
  <2>8. ASSUME NEW i \in 1 .. m, built[i] \in chain.expired PROVE Asks(f[m], built[i], "CERT_HAS_EXPIRED")
    <3>1. CASE i = m
      BY <2>3, <2>5, <2>6, <2>8, <3>1, AsksPart
    <3>2. CASE i # m
      <4>1. i \in 1 .. (m - 1)
        BY <1>3, <3>2
      <4>2. Asks(g, built[i], "CERT_HAS_EXPIRED")
        BY <2>7, <2>8, <4>1
      <4> QED
        BY <2>3, <2>5, <2>6, <4>2, AsksPart
    <3> QED
      BY <3>1, <3>2
  <2>9. f[m] \in Seq(OwnChecks)
    BY <2>3, <2>5, <2>6
  <2> QED
    BY <1>3, <2>8, <2>9 DEF Right
<1> QED
  BY <1>3, <1>5, <1>6

\* The chain that is built is a part of the one presented, and not empty.
LEMMA BuiltPart ==
  ASSUME NEW chain \in Chains, NEW store
  PROVE  /\ Built(chain, store) \in Seq(Certs) /\ Len(Built(chain, store)) > 0
         /\ Anchors(chain, store) = {} => Built(chain, store) = chain.certs
<1>1. chain.certs \in Seq(Certs) /\ Len(chain.certs) \in Nat /\ Len(chain.certs) > 0
  <2>1. chain.certs \in Seq(Certs) /\ Len(chain.certs) > 0
    BY CertificateAssumption, Zenon
  <2> QED
    BY <2>1
<1>2. CASE Anchors(chain, store) = {}
  BY <1>1, <1>2 DEF Built
<1>3. CASE Anchors(chain, store) # {}
  <2> DEFINE A == Anchors(chain, store)
             m == Min(A)
  <2>1. A \in SUBSET Nat /\ A \subseteq 1 .. Len(chain.certs)
    BY <1>1 DEF Anchors
  <2>2. \E x \in A : \A y \in A : x <= y
    <3> HIDE DEF A
    <3> QED
      BY <1>3, <2>1, LeastElement DEF A
  <2>3. m \in A
    BY <2>2 DEF Min
  <2>4. m \in 1 .. Len(chain.certs)
    BY <2>1, <2>3
  <2>5. Built(chain, store) = SubSeq(chain.certs, 1, m)
    BY <1>3 DEF Built
  <2> HIDE DEF A, m
  <2>6. SubSeq(chain.certs, 1, m) \in Seq(Certs) /\ Len(SubSeq(chain.certs, 1, m)) = m
    BY <1>1, <2>4
  <2> QED
    BY <1>1, <1>3, <2>4, <2>5, <2>6
<1> QED
  BY <1>2, <1>3

\* What is asked about the name: a check of the chain's own certificate.
LEMMA NamesAsk ==
  ASSUME NEW chain \in Chains, NEW host
  PROVE  LET own == NameChecks(chain, host)
         IN  /\ own \in Seq(AllChecks)
             /\ \A k \in 1 .. Len(own) : own[k].problem \notin Untrusted
             /\ host /\ ~chain.named => Asks(own, chain.certs[1], "HOSTNAME_MISMATCH")
<1> DEFINE c == Check(chain.certs[1], "HOSTNAME_MISMATCH")
           own == NameChecks(chain, host)
<1>1. chain.certs \in Seq(Certs) /\ Len(chain.certs) > 0
  BY CertificateAssumption, Zenon
<1>2. chain.certs[1] \in Certs
  BY <1>1
<1>3. c \in AllChecks /\ c.problem \notin Untrusted
  BY <1>2 DEF Check, AllChecks, Untrusted, SelfSigned
<1>4. CASE host /\ ~chain.named
  <2>1. own = <<c>>
    BY <1>4 DEF NameChecks
  <2> HIDE DEF c, own
  <2>2. own \in Seq(AllChecks) /\ Len(own) = 1 /\ own[1] = c
    BY <1>3, <2>1
  <2>3. Asks(own, chain.certs[1], "HOSTNAME_MISMATCH")
    BY <2>2 DEF Asks, c
  <2> QED
    BY <1>3, <2>2, <2>3 DEF own
<1>5. CASE ~(host /\ ~chain.named)
  BY <1>5 DEF NameChecks
<1> QED
  BY <1>4, <1>5

\* What OpenSSL asks: about the end of a chain that nothing anchors, and only of such a
\* one, about a name that is not the server's, and about every certificate that is out of
\* date.
LEMMA Verified ==
  ASSUME NEW chain \in Chains, NEW store, NEW host
  PROVE  LET x == X509_verify_cert(chain, store, host)
             b == Built(chain, store)
         IN  /\ x \in Seq(AllChecks)
             /\ Anchors(chain, store) = {} =>
                  Asks(x, chain.certs[Len(chain.certs)], BuildProblem(chain))
             /\ \A i \in 1 .. Len(b) : b[i] \in chain.expired => Asks(x, b[i], "CERT_HAS_EXPIRED")
             /\ host /\ ~chain.named => Asks(x, chain.certs[1], "HOSTNAME_MISMATCH")
             /\ \A k \in 1 .. Len(x) : x[k].problem \in Untrusted => Anchors(chain, store) = {}
<1> DEFINE b == Built(chain, store)
           n == Len(b)
           f == CHOOSE f : Downs(f, chain, b, n)
           top == Check(b[n], BuildProblem(chain))
           pre == IF Anchors(chain, store) = {} THEN <<top>> ELSE <<>>
           own == NameChecks(chain, host)
           x == X509_verify_cert(chain, store, host)
<1>1. b \in Seq(Certs) /\ n \in Nat /\ n > 0 /\ (Anchors(chain, store) = {} => b = chain.certs)
  BY BuiltPart
<1>2. \A i \in 1 .. n : b[i] \in Certs
  BY <1>1
<1>3. x = pre \o (own \o f[n])
  BY DEF X509_verify_cert, Downs, Own
<1> HIDE DEF b, n, x
<1>4. Downs(f, chain, b, n)
  BY <1>1, <1>2, DownsExist
<1>5. /\ f[n] \in Seq(OwnChecks)
      /\ \A i \in 1 .. n : b[i] \in chain.expired => Asks(f[n], b[i], "CERT_HAS_EXPIRED")
  BY <1>1, <1>2, <1>4, DownsAsk
<1> DEFINE d == f[n]
<1> HIDE DEF f
<1>6. d \in Seq(AllChecks) /\ \A k \in 1 .. Len(d) : d[k].problem \notin Untrusted
  <2>1. ASSUME NEW c \in OwnChecks PROVE c \in AllChecks /\ c.problem \notin Untrusted
    BY DEF OwnChecks, AllChecks, Untrusted, SelfSigned, NoProblem
  <2>2. d \in Seq(OwnChecks)
    BY <1>5
  <2> HIDE DEF d
  <2>3. \A k \in 1 .. Len(d) : d[k] \in OwnChecks
    BY <2>2
  <2>4. \A k \in 1 .. Len(d) : d[k] \in AllChecks
    BY <2>1, <2>3
  <2>5. d \in Seq(AllChecks)
    BY <2>2, <2>4
  <2> QED
    BY <2>1, <2>3, <2>5
<1>7. /\ b[n] \in Certs /\ BuildProblem(chain) \in Untrusted /\ top \in AllChecks
  <2>1. b[n] \in Certs
    BY <1>1, <1>2
  <2>2. BuildProblem(chain) \in Untrusted
    BY DEF BuildProblem, Untrusted, SelfSigned
  <2> QED
    BY <2>1, <2>2 DEF Check, AllChecks
<1>8. pre \in Seq(AllChecks)
  <2> HIDE DEF top
  <2> QED
    BY <1>7
<1>9. Anchors(chain, store) = {} => Asks(pre, b[n], BuildProblem(chain))
  <2> SUFFICES ASSUME Anchors(chain, store) = {} PROVE Asks(pre, b[n], BuildProblem(chain))
    OBVIOUS
  <2>1. pre = <<top>>
    OBVIOUS
  <2> HIDE DEF top, pre
  <2>2. 1 \in 1 .. Len(pre) /\ pre[1] = top
    BY <2>1
  <2> QED
    BY <2>2 DEF Asks, top
<1>10. Anchors(chain, store) # {} => Len(pre) = 0
  OBVIOUS
<1> HIDE DEF pre, top, d
<1>11. /\ own \in Seq(AllChecks) /\ \A k \in 1 .. Len(own) : own[k].problem \notin Untrusted
       /\ host /\ ~chain.named => Asks(own, chain.certs[1], "HOSTNAME_MISMATCH")
  BY NamesAsk
<1> HIDE DEF own
<1> DEFINE rest == own \o d
<1>12. /\ rest \in Seq(AllChecks) /\ x = pre \o rest
       /\ \A k \in 1 .. Len(rest) : rest[k].problem \notin Untrusted
  <2>1. rest \in Seq(AllChecks) /\ x = pre \o rest
    BY <1>3, <1>6, <1>8, <1>11 DEF d
  <2>2. ASSUME NEW k \in 1 .. Len(rest) PROVE rest[k].problem \notin Untrusted
    <3>1. Len(own) \in Nat /\ Len(d) \in Nat /\ Len(rest) = Len(own) + Len(d)
      BY <1>6, <1>11
    <3>2. CASE k \in 1 .. Len(own)
      BY <1>6, <1>11, <3>1, <3>2
    <3>3. CASE k \notin 1 .. Len(own)
      <4>1. k - Len(own) \in 1 .. Len(d) /\ rest[k] = d[k - Len(own)]
        BY <1>6, <1>11, <3>1, <3>3
      <4> QED
        BY <1>6, <4>1
    <3> QED
      BY <3>2, <3>3
  <2> QED
    BY <2>1, <2>2
<1>13. \A c, p : Asks(own, c, p) \/ Asks(d, c, p) => Asks(rest, c, p)
  BY <1>6, <1>11, AsksPart
<1> HIDE DEF rest
<1>14. \A c, p : Asks(pre, c, p) \/ Asks(rest, c, p) => Asks(x, c, p)
  BY <1>8, <1>12, AsksPart
<1>15. Anchors(chain, store) = {} => Asks(x, chain.certs[Len(chain.certs)], BuildProblem(chain))
  BY <1>1, <1>9, <1>14 DEF n
<1>16. \A i \in 1 .. n : b[i] \in chain.expired => Asks(x, b[i], "CERT_HAS_EXPIRED")
  BY <1>5, <1>13, <1>14 DEF d
<1>17. host /\ ~chain.named => Asks(x, chain.certs[1], "HOSTNAME_MISMATCH")
  BY <1>11, <1>13, <1>14
<1>18. ASSUME Anchors(chain, store) # {}, NEW k \in 1 .. Len(x) PROVE x[k].problem \notin Untrusted
  <2>1. Len(x) = Len(rest) /\ x[k] = rest[k] /\ k \in 1 .. Len(rest)
    BY <1>8, <1>10, <1>12, <1>18
  <2> QED
    BY <1>12, <2>1
<1>19. x \in Seq(AllChecks)
  BY <1>8, <1>12
<1> QED
  BY <1>15, <1>16, <1>17, <1>18, <1>19 DEF b, n, x

-----------------------------------------------------------------------------
(* The inductive invariant.                                                 *)

LinkTypes ==
  /\ link \in [state : {"none", "handshake", "up", "failed"}, chain : Chains \cup {<<>>},
              bot : BOOLEAN]
  /\ link.state \in {"handshake", "up"} => link.chain \in Chains
  /\ checks \in Seq(AllChecks)

\* OpenSSL asks only during a handshake, and there is one only while the program runs on a
\* complete context, into which all certificates of earlier starts were loaded.
ContextInv ==
  /\ checks # <<>> => link.state = "handshake"
  /\ link.state = "handshake" => running /\ ssl_context.made
  /\ running /\ ssl_context.made => ssl_context.verify /\ trusted \subseteq ssl_context.store
  /\ ssl_context.store \subseteq Known

\* A certificate that was added is in a file that the next start loads.
Saved(F, c) == \E f \in F : f[1] # "." /\ f[2] = ".pem" /\ f[3] = c

FolderInv ==
  /\ folder # {} => folderExists
  /\ \A c \in trusted \cup remembered : c \in Certs /\ Saved(folder, c)

\* A problem the user has said yes to, or will still be asked about.
Answered(x, said, c, p) == <<c, p>> \in said \/ Asks(x, c, p)

\* Everything that is wrong with the chain is settled.
Decided(chain, bot, store, x, said) ==
  /\ ~bot /\ ~chain.named => Answered(x, said, chain.certs[1], "HOSTNAME_MISMATCH")
  /\ Anchors(chain, store) = {} =>
       Answered(x, said, chain.certs[Len(chain.certs)], BuildProblem(chain))
  /\ \A i \in 1 .. Len(Built(chain, store)) :
       Built(chain, store)[i] \in chain.expired =>
         Answered(x, said, Built(chain, store)[i], "CERT_HAS_EXPIRED")

\* Only a chain that nothing in the store anchors is not trusted.
OnlyUntrusted(chain, store, x) ==
  \A k \in 1 .. Len(x) : x[k].problem \in Untrusted => Anchors(chain, store) = {}

AskedInv ==
  /\ OnlyUntrusted(link.chain, ssl_context.store, checks)
  /\ link.state \in {"handshake", "up"} /\ ~allowAllCerts =>
       Decided(link.chain, link.bot, ssl_context.store, checks, agreed)
  /\ link.state = "up" => checks = <<>>

CertInv == LinkTypes /\ ContextInv /\ FolderInv /\ AskedInv

-----------------------------------------------------------------------------
(* One call of the callback.                                                *)

\* What is asked after the first call was asked before.
LEMMA AsksRest ==
  ASSUME NEW x \in Seq(AllChecks), x # <<>>
  PROVE  /\ Head(x) \in AllChecks /\ Tail(x) \in Seq(AllChecks)
         /\ \A c, p : Asks(x, c, p) => Head(x) = Check(c, p) \/ Asks(Tail(x), c, p)
         /\ \A k \in 1 .. Len(Tail(x)) : \E j \in 1 .. Len(x) : Tail(x)[k] = x[j]
<1>1. /\ Len(x) \in Nat /\ Len(x) > 0 /\ Len(Tail(x)) = Len(x) - 1
      /\ Head(x) = x[1] /\ Head(x) \in AllChecks /\ Tail(x) \in Seq(AllChecks)
  OBVIOUS
<1>2. ASSUME NEW k \in 1 .. Len(Tail(x)) PROVE k + 1 \in 1 .. Len(x) /\ Tail(x)[k] = x[k + 1]
  BY <1>1
<1>3. ASSUME NEW c, NEW p, Asks(x, c, p) PROVE Head(x) = Check(c, p) \/ Asks(Tail(x), c, p)
  <2>1. PICK k \in 1 .. Len(x) : x[k] = Check(c, p)
    BY <1>3 DEF Asks
  <2>2. CASE k = 1
    BY <1>1, <2>1, <2>2
  <2>3. CASE k # 1
    <3>1. k - 1 \in 1 .. Len(Tail(x)) /\ (k - 1) + 1 = k
      BY <1>1, <2>3
    <3>2. Tail(x)[k - 1] = x[k]
      BY <1>2, <3>1
    <3> QED
      BY <2>1, <3>1, <3>2 DEF Asks
  <2> QED
    BY <2>2, <2>3
<1> QED
  BY <1>1, <1>2, <1>3

\* After a call that went well, or that the user said yes to, the rest is settled.
LEMMA DecidedNext ==
  ASSUME NEW chain, NEW bot, NEW store, NEW x \in Seq(AllChecks), x # <<>>, NEW said, NEW said2,
         Decided(chain, bot, store, x, said), said \subseteq said2,
         Head(x).problem = NoProblem \/ <<Head(x).cert, Head(x).problem>> \in said2
  PROVE  Decided(chain, bot, store, Tail(x), said2)
<1>1. ASSUME NEW c, NEW p, p # NoProblem, Answered(x, said, c, p) PROVE Answered(Tail(x), said2, c, p)
  <2>1. CASE <<c, p>> \in said
    BY <2>1 DEF Answered
  <2>2. CASE Asks(x, c, p)
    <3>1. Head(x) = Check(c, p) \/ Asks(Tail(x), c, p)
      BY <2>2, AsksRest
    <3>2. CASE Asks(Tail(x), c, p)
      BY <3>2 DEF Answered
    <3>3. CASE Head(x) = Check(c, p)
      <4>1. Head(x).cert = c /\ Head(x).problem = p
        BY <3>3 DEF Check
      <4> QED
        BY <1>1, <4>1 DEF Answered
    <3> QED
      BY <3>1, <3>2, <3>3
  <2> QED
    BY <1>1, <2>1, <2>2 DEF Answered
<1>2. /\ BuildProblem(chain) # NoProblem /\ "CERT_HAS_EXPIRED" # NoProblem
      /\ "HOSTNAME_MISMATCH" # NoProblem
  BY DEF BuildProblem, NoProblem
<1> QED
  BY <1>1, <1>2 DEF Decided

\* The rest of the calls is about the same chain.
LEMMA OnlyUntrustedNext ==
  ASSUME NEW chain, NEW store, NEW x \in Seq(AllChecks), x # <<>>, OnlyUntrusted(chain, store, x)
  PROVE  OnlyUntrusted(chain, store, Tail(x))
<1> SUFFICES ASSUME NEW k \in 1 .. Len(Tail(x)), Tail(x)[k].problem \in Untrusted
             PROVE  Anchors(chain, store) = {}
  BY DEF OnlyUntrusted
<1>1. PICK j \in 1 .. Len(x) : Tail(x)[k] = x[j]
  BY AsksRest
<1> QED
  BY <1>1 DEF OnlyUntrusted

\* A certificate is added under a name no file has: the folder only grows.
LEMMA FolderGrows ==
  ASSUME FolderInv, NEW cert \in Certs, add_x509_cert_to_local_ca_folder(cert)
  PROVE  /\ folder \subseteq folder' /\ remembered \subseteq remembered'
         /\ folder' # {} => folderExists'
         /\ \A c \in remembered' : c \in remembered \/ (c = cert /\ Saved(folder', c))
<1>1. PICK name \in RandomNames :
        /\ fresh(name)
        /\ LET others == {f \in folder : <<f[1], f[2]>> # <<name, ".pem">>}
           IN  \/ /\ folderExists' /\ folder' = others \cup {<<name, ".pem", cert>>}
                  /\ remembered' = remembered \cup {cert}
               \/ /\ folderExists' /\ folder' = others \cup {<<name, ".pem", "cut off">>}
                  /\ UNCHANGED remembered
               \/ UNCHANGED <<folder, remembered>>
  BY DEF add_x509_cert_to_local_ca_folder
<1>2. {f \in folder : <<f[1], f[2]>> # <<name, ".pem">>} = folder
  BY <1>1 DEF fresh
<1>3. name # "."
  BY CertificateAssumption
<1>4. CASE folderExists' /\ folder' = folder \cup {<<name, ".pem", cert>>} /\ remembered' = remembered \cup {cert}
  <2> DEFINE f == <<name, ".pem", cert>>
  <2>1. f \in folder' /\ f[1] # "." /\ f[2] = ".pem" /\ f[3] = cert
    BY <1>3, <1>4
  <2>2. Saved(folder', cert)
    BY <2>1 DEF Saved
  <2> QED
    BY <1>4, <2>2
<1>5. CASE folderExists' /\ folder' = folder \cup {<<name, ".pem", "cut off">>} /\ UNCHANGED remembered
  BY <1>5
<1>6. CASE UNCHANGED <<folder, remembered>>
  <2>1. folderExists => folderExists'
    BY DEF add_x509_cert_to_local_ca_folder
  <2> QED
    BY <1>6, <2>1 DEF FolderInv
<1> QED
  BY <1>1, <1>2, <1>4, <1>5, <1>6

\* What the user is asked to add is a certificate of the chain.
LEMMA OfferedCert ==
  ASSUME CertInv, link.state = "handshake", NEW check \in AllChecks, offered(check) # "NULL"
  PROVE  offered(check) \in Certs
<1> DEFINE b == Built(link.chain, ssl_context.store)
<1>1. link.chain \in Chains
  BY DEF CertInv, LinkTypes
<1>2. b \in Seq(Certs) /\ Len(b) > 0
  BY <1>1, BuiltPart
<1>3. check.cert \in Certs
  BY DEF AllChecks
<1> HIDE DEF b
<1>4. Len(b) \in Nat /\ b[Len(b)] \in Certs
  BY <1>2
<1>5. get_ca_cert_of_chain(b) # "NULL" => get_ca_cert_of_chain(b) \in Certs
  BY <1>4 DEF get_ca_cert_of_chain
<1> QED
  BY <1>3, <1>5 DEF offered, b

\* What a call of the callback may do to the folder.
Grown ==
  /\ folder \subseteq folder' /\ remembered \subseteq remembered' /\ agreed \subseteq agreed'
  /\ folder' # {} => folderExists'
  /\ \A c \in remembered' : c \in remembered \/ (c \in Certs /\ Saved(folder', c))

\* A larger folder still holds what was added.
LEMMA GrownKeeps ==
  ASSUME CertInv, Grown, trusted' = trusted, ssl_context' = ssl_context
  PROVE  FolderInv' /\ ssl_context.store \subseteq Known'
<1>1. ASSUME NEW c \in trusted \cup remembered PROVE c \in Certs /\ Saved(folder', c)
  BY DEF CertInv, FolderInv, Saved, Grown
<1>2. \A c \in trusted' \cup remembered' : c \in Certs /\ Saved(folder', c)
  BY <1>1 DEF Grown
<1>3. FolderInv'
  BY <1>2 DEF FolderInv, Grown, Saved
<1>4. Known \subseteq Known'
  BY DEF Known, Grown
<1> QED
  BY <1>3, <1>4 DEF CertInv, ContextInv

-----------------------------------------------------------------------------
(* Every step.                                                              *)

\* The parts of the invariant after a step.
LEMMA AskedAfter ==
  ASSUME OnlyUntrusted(link'.chain, ssl_context'.store, checks'),
         link'.state \in {"handshake", "up"} /\ ~allowAllCerts' =>
           Decided(link'.chain, link'.bot, ssl_context'.store, checks', agreed'),
         link'.state = "up" => checks' = <<>>
  PROVE  AskedInv'
BY DEF AskedInv, OnlyUntrusted, Decided, Answered, Asks, Check, Anchors, Built, BuildProblem, Min

\* No call is left, and no connection is made or up.
LEMMA NothingAsked ==
  ASSUME checks' = <<>>, link'.state \notin {"handshake", "up"}
  PROVE  AskedInv'
<1>1. OnlyUntrusted(link'.chain, ssl_context'.store, checks')
  BY DEF OnlyUntrusted
<1> QED
  BY <1>1, AskedAfter

\* A start forgets the context; what the last start added is trusted now.
LEMMA StartInv ==
  ASSUME CertInv, StartProgram
  PROVE  CertInv'
<1>1. /\ link' = NoLink /\ checks' = <<>> /\ ssl_context' = NoContext
      /\ trusted' = trusted \cup remembered /\ remembered' = {} /\ folder' = folder
      /\ folderExists' = folderExists
  BY DEF StartProgram
<1>2. link'.state = "none" /\ ssl_context'.made = FALSE /\ ssl_context'.store = {}
  BY <1>1 DEF NoLink, NoContext
<1>3. LinkTypes'
  BY <1>1, <1>2 DEF LinkTypes, NoLink
<1>4. ContextInv'
  BY <1>1, <1>2 DEF ContextInv
<1>5. FolderInv'
  BY <1>1 DEF CertInv, FolderInv, Saved
<1>6. AskedInv'
  BY <1>1, <1>2, NothingAsked
<1> QED
  BY <1>3, <1>4, <1>5, <1>6 DEF CertInv

\* A result of initSslContext that is no failure is the last of the four.
LEMMA OneOfFour ==
  ASSUME NEW a, NEW b, NEW c, NEW d, NEW o, NEW e,
         o \in {[ret |-> e, context |-> a], [ret |-> e, context |-> b],
                [ret |-> e, context |-> c], [ret |-> "0", context |-> d]}
  PROVE  o.ret = e \/ o.context = d
<1>1. CASE o = [ret |-> e, context |-> a]
  BY <1>1
<1>2. CASE o = [ret |-> e, context |-> b]
  BY <1>2
<1>3. CASE o = [ret |-> e, context |-> c]
  BY <1>3
<1>4. CASE o = [ret |-> "0", context |-> d]
  BY <1>4
<1> QED
  BY <1>1, <1>2, <1>3, <1>4, Zenon

\* initSslContext loads all that was added at earlier starts, or does not succeed.
LEMMA ContextMade ==
  ASSUME CertInv, running,
         NEW outcome, outcome \in IF isSslIntitialized THEN {[ret |-> "0", context |-> ssl_context]}
                                   ELSE initSslContext
  PROVE  /\ outcome.context.store \subseteq Known
         /\ usable(outcome) => /\ outcome.context.made /\ outcome.context.verify
                               /\ trusted \subseteq outcome.context.store
<1>1. CASE isSslIntitialized
  <2>1. outcome.context = ssl_context
    BY <1>1
  <2> QED
    BY <1>1, <2>1 DEF isSslIntitialized, CertInv, ContextInv
<1>2. CASE ~isSslIntitialized
  <2> DEFINE loaded == load_pems_from_dir_into_store
  <2>1. loaded \subseteq {f[3] : f \in folder}
    BY DEF load_pems_from_dir_into_store
  <2>2. trusted \subseteq loaded
    <3> SUFFICES ASSUME NEW c \in trusted PROVE c \in loaded
      OBVIOUS
    <3>1. c \in Certs /\ Saved(folder, c)
      BY DEF CertInv, FolderInv
    <3>2. PICK f \in folder : f[1] # "." /\ f[2] = ".pem" /\ f[3] = c
      BY <3>1 DEF Saved
    <3>3. folderExists /\ c # "cut off" /\ is_pem_cert_file(f)
      BY <3>1, <3>2, CertificateAssumption DEF CertInv, FolderInv, is_pem_cert_file
    <3> QED
      BY <3>2, <3>3 DEF load_pems_from_dir_into_store
  <2> HIDE DEF loaded
  <2>3. outcome.context.store \in {{}, SystemStore, SystemStore \cup loaded}
    BY <1>2 DEF initSslContext, NoContext, loaded
  <2>4. usable(outcome) => outcome.context = [made |-> TRUE, verify |-> TRUE, store |-> SystemStore \cup loaded]
    <3> DEFINE good == [made |-> TRUE, verify |-> TRUE, store |-> SystemStore \cup loaded]
    <3>0. outcome \in {[ret |-> "ERR_SSL_INIT_FAILED", context |-> NoContext],
                       [ret |-> "ERR_SSL_INIT_FAILED", context |-> [made |-> TRUE, verify |-> FALSE, store |-> {}]],
                       [ret |-> "ERR_SSL_INIT_FAILED", context |-> [made |-> TRUE, verify |-> TRUE, store |-> SystemStore]],
                       [ret |-> "0", context |-> good]}
      BY <1>2, Zenon DEF initSslContext, loaded
    <3> HIDE DEF good
    <3>1. outcome.ret = "ERR_SSL_INIT_FAILED" \/ outcome.context = good
      BY <3>0, OneOfFour
    <3>2. usable(outcome) => outcome.context = good
      BY <3>1 DEF usable
    <3> QED
      BY <3>2 DEF good
  <2>5. outcome.context.store \subseteq Known
    BY <2>1, <2>3 DEF Known
  <2> QED
    BY <2>2, <2>4, <2>5
<1> QED
  BY <1>1, <1>2

\* A connection is begun with everything OpenSSL will ask, or the program ends.
LEMMA SslInitInv ==
  ASSUME CertInv, ssl_init
  PROVE  CertInv'
<1>1. running /\ checks = <<>>
  BY DEF ssl_init
<1>2. /\ folder' = folder /\ folderExists' = folderExists /\ remembered' = remembered /\ trusted' = trusted
      /\ allowAllCerts' = allowAllCerts
  BY DEF ssl_init
<1>3. PICK outcome \in IF isSslIntitialized THEN {[ret |-> "0", context |-> ssl_context]} ELSE initSslContext :
        /\ ssl_context' = outcome.context
        /\ \/ /\ usable(outcome)
              /\ \E chain \in Chains, bot \in BOOLEAN :
                   /\ link' = [state |-> "handshake", chain |-> chain, bot |-> bot]
                   /\ checks' = IF bot \/ outcome.context.verify
                                THEN X509_verify_cert(chain, outcome.context.store, host_checked(bot))
                                ELSE <<>>
              /\ UNCHANGED running
           \/ /\ ~usable(outcome)
              /\ running' = FALSE /\ link' = NoLink /\ UNCHANGED checks
  BY DEF ssl_init
<1>4. /\ outcome.context.store \subseteq Known
      /\ usable(outcome) => /\ outcome.context.made /\ outcome.context.verify
                            /\ trusted \subseteq outcome.context.store
  BY <1>1, <1>3, ContextMade
<1>5. FolderInv'
  BY <1>2 DEF CertInv, FolderInv, Saved
<1>6. Known' = Known
  BY <1>2 DEF Known
<1>7. CASE ~usable(outcome)
  <2>1. running' = FALSE /\ link' = NoLink /\ checks' = <<>> /\ ssl_context' = outcome.context
    BY <1>1, <1>3, <1>7
  <2>2. link'.state = "none"
    BY <2>1 DEF NoLink
  <2>3. LinkTypes'
    BY <2>1, <2>2 DEF LinkTypes, NoLink
  <2>4. ContextInv'
    BY <1>4, <1>6, <2>1, <2>2 DEF ContextInv
  <2>5. AskedInv'
    BY <2>1, <2>2, NothingAsked
  <2> QED
    BY <1>5, <2>3, <2>4, <2>5 DEF CertInv
<1>8. CASE usable(outcome)
  <2>1. PICK chain \in Chains, bot \in BOOLEAN :
          /\ link' = [state |-> "handshake", chain |-> chain, bot |-> bot]
          /\ checks' = X509_verify_cert(chain, outcome.context.store, host_checked(bot))
          /\ running' = running /\ ssl_context' = outcome.context
    BY <1>3, <1>4, <1>8
  <2> DEFINE x == X509_verify_cert(chain, outcome.context.store, host_checked(bot))
             store == outcome.context.store
  <2>2. /\ link'.state = "handshake" /\ link'.chain = chain /\ link'.bot = bot
        /\ checks' = x /\ ssl_context'.store = store
    BY <2>1
  <2>3. /\ x \in Seq(AllChecks)
        /\ Anchors(chain, store) = {} => Asks(x, chain.certs[Len(chain.certs)], BuildProblem(chain))
        /\ \A i \in 1 .. Len(Built(chain, store)) : Built(chain, store)[i] \in chain.expired =>
             Asks(x, Built(chain, store)[i], "CERT_HAS_EXPIRED")
        /\ ~bot /\ ~chain.named => Asks(x, chain.certs[1], "HOSTNAME_MISMATCH")
        /\ \A k \in 1 .. Len(x) : x[k].problem \in Untrusted => Anchors(chain, store) = {}
    BY Verified DEF host_checked
  <2> HIDE DEF x
  <2>4. Decided(chain, bot, store, x, agreed') /\ OnlyUntrusted(chain, store, x)
    BY <2>3 DEF Decided, Answered, OnlyUntrusted
  <2>5. LinkTypes'
    BY <2>1, <2>2, <2>3 DEF LinkTypes, AllChecks
  <2>6. ContextInv'
    BY <1>1, <1>2, <1>4, <1>6, <1>8, <2>1, <2>2 DEF ContextInv
  <2>7. AskedInv'
    BY <2>2, <2>4, AskedAfter
  <2> QED
    BY <1>5, <2>5, <2>6, <2>7 DEF CertInv
<1> QED
  BY <1>7, <1>8

\* The callback: whatever lets the handshake go on settles the problem.
LEMMA CallbackInv ==
  ASSUME CertInv, openssl_check_certificate_callback
  PROVE  CertInv'
<1> DEFINE check == Head(checks)
<1>1. running /\ link.state = "handshake" /\ checks # <<>>
  BY DEF openssl_check_certificate_callback
<1>2. /\ running' = running /\ ssl_context' = ssl_context /\ trusted' = trusted
      /\ allowAllCerts' = allowAllCerts
  BY DEF openssl_check_certificate_callback
<1>3. /\ LinkTypes /\ checks \in Seq(AllChecks) /\ check \in AllChecks
      /\ Tail(checks) \in Seq(AllChecks) /\ link.chain \in Chains
  <2>1. LinkTypes /\ checks \in Seq(AllChecks) /\ link.chain \in Chains
    BY <1>1 DEF CertInv, LinkTypes
  <2> QED
    BY <1>1, <2>1, AsksRest
<1> HIDE DEF check
<1>4. /\ Grown
      /\ \/ /\ link' = [link EXCEPT !.state = "failed"] /\ checks' = <<>>
         \/ /\ link' = link /\ checks' = Tail(checks)
            /\ \/ check.problem = NoProblem \/ allowAllCerts
               \/ <<check.cert, check.problem>> \in agreed'
  <2>0. folder # {} => folderExists
    BY DEF CertInv, FolderInv
  <2>1. CASE check.problem = NoProblem \/ allowAllCerts
    <3>1. /\ link' = [link EXCEPT !.state = link.state] /\ checks' = Tail(checks)
          /\ UNCHANGED <<folder, folderExists, agreed, remembered>>
      BY <2>1 DEF openssl_check_certificate_callback, check
    <3>2. link' = link
      BY <1>3, <3>1 DEF LinkTypes
    <3> QED
      BY <2>0, <2>1, <3>1, <3>2 DEF Grown
  <2>2. CASE ~(check.problem = NoProblem \/ allowAllCerts)
    <3>1. \/ /\ link' = [link EXCEPT !.state = link.state] /\ checks' = Tail(checks)
             /\ agreed' = agreed \cup {<<check.cert, check.problem>>}
             /\ IF offered(check) # "NULL"
                THEN add_x509_cert_to_local_ca_folder(offered(check))
                ELSE UNCHANGED <<folder, folderExists, remembered>>
          \/ /\ link' = [link EXCEPT !.state = "failed"] /\ checks' = <<>>
             /\ UNCHANGED <<folder, folderExists, agreed, remembered>>
      BY <2>2 DEF openssl_check_certificate_callback, check
    <3>2. CASE /\ link' = [link EXCEPT !.state = link.state] /\ checks' = Tail(checks)
               /\ agreed' = agreed \cup {<<check.cert, check.problem>>}
               /\ offered(check) # "NULL" /\ add_x509_cert_to_local_ca_folder(offered(check))
      <4>1. offered(check) \in Certs
        BY <1>1, <1>3, <3>2, OfferedCert
      <4>2. Grown
        BY <3>2, <4>1, FolderGrows DEF Grown, CertInv
      <4>3. link' = link
        BY <1>3, <3>2 DEF LinkTypes
      <4> QED
        BY <3>2, <4>2, <4>3
    <3>3. CASE /\ link' = [link EXCEPT !.state = link.state] /\ checks' = Tail(checks)
               /\ agreed' = agreed \cup {<<check.cert, check.problem>>}
               /\ UNCHANGED <<folder, folderExists, remembered>>
      <4>1. link' = link
        BY <1>3, <3>3 DEF LinkTypes
      <4> QED
        BY <2>0, <3>3, <4>1 DEF Grown
    <3>4. CASE /\ link' = [link EXCEPT !.state = "failed"] /\ checks' = <<>>
               /\ UNCHANGED <<folder, folderExists, agreed, remembered>>
      BY <2>0, <3>4 DEF Grown
    <3> QED
      BY <3>1, <3>2, <3>3, <3>4
  <2> QED
    BY <2>1, <2>2
<1>5. FolderInv' /\ ssl_context.store \subseteq Known'
  BY <1>2, <1>4, GrownKeeps
<1>6. CASE link' = [link EXCEPT !.state = "failed"] /\ checks' = <<>>
  <2>1. link'.state = "failed" /\ link'.chain = link.chain
    BY <1>3, <1>6 DEF LinkTypes
  <2>2. LinkTypes'
    BY <1>3, <1>6, <2>1 DEF LinkTypes, AllChecks
  <2>3. ContextInv'
    BY <1>2, <1>5, <1>6, <2>1 DEF CertInv, ContextInv
  <2>4. AskedInv'
    BY <1>6, <2>1, NothingAsked
  <2> QED
    BY <1>5, <2>2, <2>3, <2>4 DEF CertInv
<1>7. CASE /\ link' = link /\ checks' = Tail(checks)
           /\ \/ check.problem = NoProblem \/ allowAllCerts
              \/ <<check.cert, check.problem>> \in agreed'
  <2>1. LinkTypes'
    BY <1>3, <1>7 DEF LinkTypes, AllChecks
  <2>2. ContextInv'
    BY <1>1, <1>2, <1>5, <1>7 DEF CertInv, ContextInv
  <2>3. OnlyUntrusted(link'.chain, ssl_context'.store, checks')
    BY <1>1, <1>2, <1>3, <1>7, OnlyUntrustedNext DEF CertInv, AskedInv
  <2>4. ASSUME ~allowAllCerts PROVE Decided(link'.chain, link'.bot, ssl_context'.store, checks', agreed')
    <3>1. Decided(link.chain, link.bot, ssl_context.store, checks, agreed)
      BY <1>1, <2>4 DEF CertInv, AskedInv
    <3>2. agreed \subseteq agreed'
      BY <1>4 DEF Grown
    <3>3. Head(checks).problem = NoProblem \/ <<Head(checks).cert, Head(checks).problem>> \in agreed'
      BY <1>7, <2>4 DEF check
    <3> QED
      BY <1>1, <1>2, <1>3, <1>7, <3>1, <3>2, <3>3, DecidedNext
  <2>5. AskedInv'
    BY <1>1, <1>2, <1>7, <2>3, <2>4, AskedAfter
  <2> QED
    BY <1>5, <2>1, <2>2, <2>5 DEF CertInv
<1> QED
  BY <1>4, <1>6, <1>7

\* The handshake ends when nothing is left to ask.
LEMMA EstablishedInv ==
  ASSUME CertInv, Established
  PROVE  CertInv'
<1>1. /\ link.state = "handshake" /\ checks = <<>> /\ link' = [link EXCEPT !.state = "up"]
      /\ UNCHANGED <<allowAllCerts, folder, folderExists, running, ssl_context, checks, agreed, remembered, trusted>>
  BY DEF Established
<1>2. LinkTypes /\ link.chain \in Chains
  BY <1>1 DEF CertInv, LinkTypes
<1>3. link'.state = "up" /\ link'.chain = link.chain /\ link'.bot = link.bot
  BY <1>1, <1>2 DEF LinkTypes
<1>4. LinkTypes'
  BY <1>1, <1>2, <1>3 DEF LinkTypes, AllChecks
<1>5. ContextInv'
  BY <1>1, <1>3 DEF CertInv, ContextInv, Known
<1>6. FolderInv'
  BY <1>1 DEF CertInv, FolderInv, Saved
<1>7. OnlyUntrusted(link'.chain, ssl_context'.store, checks')
  BY <1>1, <1>3 DEF CertInv, AskedInv
<1>8. ~allowAllCerts => Decided(link'.chain, link'.bot, ssl_context'.store, checks', agreed')
  BY <1>1, <1>3 DEF CertInv, AskedInv
<1>9. AskedInv'
  BY <1>1, <1>7, <1>8, AskedAfter
<1> QED
  BY <1>4, <1>5, <1>6, <1>9 DEF CertInv

\* A step that changes nothing of what the invariant is about, but that the program may end.
LEMMA EndInv ==
  ASSUME CertInv, running' => running, link.state = "handshake" /\ running => running',
         UNCHANGED <<allowAllCerts, folder, folderExists, ssl_context, link, checks, agreed, remembered, trusted>>
  PROVE  CertInv'
<1>1. LinkTypes'
  BY DEF CertInv, LinkTypes, AllChecks
<1>2. ContextInv'
  BY DEF CertInv, ContextInv, Known
<1>3. FolderInv'
  BY DEF CertInv, FolderInv, Saved
<1>4. AskedInv'
  BY AskedAfter DEF CertInv, AskedInv
<1> QED
  BY <1>1, <1>2, <1>3, <1>4 DEF CertInv

\* The invariant holds in every reachable state.
LEMMA CertAlways == CertSpec => []CertInv
<1>1. CertInit => CertInv
  <2> SUFFICES ASSUME CertInit PROVE CertInv
    OBVIOUS
  <2>1. /\ link = NoLink /\ checks = <<>> /\ ssl_context = NoContext /\ trusted = {} /\ remembered = {}
        /\ ~folderExists => folder = {}
    BY DEF CertInit
  <2>2. link.state = "none" /\ ssl_context.made = FALSE /\ ssl_context.store = {}
    BY <2>1 DEF NoLink, NoContext
  <2>3. LinkTypes
    BY <2>1, <2>2 DEF LinkTypes, NoLink
  <2>4. ContextInv /\ FolderInv
    BY <2>1, <2>2 DEF ContextInv, FolderInv
  <2>5. AskedInv
    BY <2>1, <2>2 DEF AskedInv, OnlyUntrusted
  <2> QED
    BY <2>3, <2>4, <2>5 DEF CertInv
<1>2. CertInv /\ [CertNext]_certVars => CertInv'
  <2> SUFFICES ASSUME CertInv, [CertNext]_certVars PROVE CertInv'
    OBVIOUS
  <2>1. CASE ExitProgram
    BY <2>1, EndInv DEF ExitProgram
  <2>2. CASE UNCHANGED certVars
    <3>0. running' = running
      BY <2>2 DEF certVars
    <3>1. (running' => running) /\ (link.state = "handshake" /\ running => running')
      BY <3>0
    <3>2. UNCHANGED <<allowAllCerts, folder, folderExists, ssl_context, link, checks, agreed, remembered, trusted>>
      BY <2>2 DEF certVars
    <3> QED
      BY <3>1, <3>2, EndInv, Zenon
  <2> QED
    BY <2>1, <2>2, StartInv, SslInitInv, CallbackInv, EstablishedInv DEF CertNext
<1> QED
  BY <1>1, <1>2, PTL DEF CertSpec

-----------------------------------------------------------------------------
(* The theorems.                                                            *)

\* A connection is up only if its chain ends at a known certificate, is in date and, for the
\* server, issued for its name, or the user said yes to what is wrong, or allows all
\* certificates: for all chains, whatever part of initSslContext failed.
THEOREM TrustIsDecided == CertSpec => []TrustDecided
<1>1. CertInv => TrustDecided
  <2> DEFINE chain == link.chain
             store == ssl_context.store
             used == Built(chain, store)
  <2> SUFFICES ASSUME CertInv, link.state = "up", ~allowAllCerts
               PROVE  /\ Anchors(chain, Known) = {} =>
                           \E p \in Untrusted : <<chain.certs[Len(chain.certs)], p>> \in agreed
                      /\ \A i \in 1 .. Len(used) :
                           used[i] \in chain.expired => <<used[i], "CERT_HAS_EXPIRED">> \in agreed
                      /\ ~link.bot /\ ~chain.named => <<chain.certs[1], "HOSTNAME_MISMATCH">> \in agreed
    BY DEF TrustDecided
  <2>1. checks = <<>> /\ Decided(chain, link.bot, store, checks, agreed) /\ store \subseteq Known
    BY DEF CertInv, AskedInv, ContextInv
  <2> HIDE DEF chain, store
  <2>2. \A c, p : ~Asks(checks, c, p)
    BY <2>1 DEF Asks
  <2>3. Anchors(chain, Known) = {} => Anchors(chain, store) = {}
    BY <2>1 DEF Anchors
  <2>4. BuildProblem(chain) \in Untrusted
    BY DEF BuildProblem, Untrusted, SelfSigned
  <2> QED
    BY <2>1, <2>2, <2>3, <2>4 DEF Decided, Answered
<1> QED
  BY <1>1, CertAlways, PTL

\* The user is not asked again, at a later start, to trust a chain with a certificate that
\* was written: for all names that are made up, all failures to write, and all files the user
\* keeps in the folder himself.
THEOREM TrustIsKept == CertSpec => []TrustKept
<1>1. CertInv => TrustKept
  <2> SUFFICES ASSUME CertInv, NEW i \in 1 .. Len(checks), checks[i].problem \in Untrusted,
                      NEW k \in 1 .. Len(link.chain.certs), link.chain.certs[k] \in trusted
               PROVE  FALSE
    BY DEF TrustKept
  <2>1. checks # <<>>
    OBVIOUS
  <2>2. trusted \subseteq ssl_context.store
    BY <2>1 DEF CertInv, ContextInv
  <2>3. Anchors(link.chain, ssl_context.store) = {}
    BY DEF CertInv, AskedInv, OnlyUntrusted
  <2> QED
    BY <2>2, <2>3 DEF Anchors
<1> QED
  BY <1>1, CertAlways, PTL

-----------------------------------------------------------------------------
(* Strings.                                                                 *)

\* A string that exists: its header holds its lengths, its block holds header, alloc bytes
\* and the terminator.
Fits(s) ==
  /\ s.type \in SdsTypes /\ s.len \in Nat /\ s.alloc \in Nat /\ s.block \in Nat
  /\ s.len <= s.alloc /\ s.alloc < SdsLimit[s.type]
  /\ s.type = 0 => s.alloc = s.len
  /\ Len(s.buf) \in Nat
  /\ SdsHdr[s.type] + Len(s.buf) = s.block
  /\ s.alloc + 1 <= Len(s.buf)

\* The inductive invariant.
SdsInv ==
  /\ fmt \in Int /\ fmt <= SdsMaxAdd
  /\ sds.block > 0 => Fits(sds) /\ sds.len <= SdsMaxLen
  /\ sds.block \in Nat

-----------------------------------------------------------------------------
(* Lengths of sequences given as functions.                                 *)

\* The length of a function on 1..n.
LEMMA LenOfFunction ==
  ASSUME NEW n \in Nat, NEW f, DOMAIN f = 1..n
  PROVE  Len(f) = n
OBVIOUS

\* Such a function is a sequence of its values.
LEMMA FunctionIsSequence ==
  ASSUME NEW n \in Nat, NEW S, NEW f \in [1..n -> S]
  PROVE  f \in Seq(S)
OBVIOUS

\* What a call adds is at most SdsMaxAdd long.
LEMMA TextLength ==
  ASSUME NEW S, NEW t \in SdsTexts(S)
  PROVE  Len(t) \in Nat /\ Len(t) <= SdsMaxAdd /\ DOMAIN t = 1..Len(t) /\ t \in Seq(S)
<1>1. PICK n \in 0..SdsMaxAdd : t \in [1..n -> S]
  BY DEF SdsTexts
<1>2. n \in Nat /\ n <= SdsMaxAdd
  BY SdsAssumption
<1>3. DOMAIN t = 1..n
  BY <1>1
<1>4. Len(t) = n
  BY <1>2, <1>3, LenOfFunction
<1> QED
  BY <1>1, <1>2, <1>3, <1>4

-----------------------------------------------------------------------------
(* The primitives of the header and the block.                              *)

\* The limits grow with the type.
LEMMA Limits ==
  /\ \A t \in SdsTypes : SdsLimit[t] \in Nat /\ SdsLimit[t] > 0 /\ SdsHdr[t] \in Nat /\ SdsHdr[t] > 0
  /\ SdsLimit[0] < SdsLimit[1] /\ SdsLimit[1] < SdsLimit[2]
  /\ SdsLimit[2] < SdsLimit[3] /\ SdsLimit[3] < SdsLimit[4]
  /\ SdsWidest \in {3, 4} /\ SdsWidest \in SdsTypes
<1>1. SdsWidest \in {3, 4} /\ SdsWidest \in SdsTypes
  BY SdsAssumption DEF SdsTypes
<1>2. /\ SdsLimit[0] < SdsLimit[1] /\ SdsLimit[1] < SdsLimit[2]
      /\ SdsLimit[2] < SdsLimit[3] /\ SdsLimit[3] < SdsLimit[4]
  <2>1. \A t \in 1..4 : SdsLimit[t - 1] < SdsLimit[t]
    BY SdsAssumption
  <2>2. 1 - 1 = 0 /\ 2 - 1 = 1 /\ 3 - 1 = 2 /\ 4 - 1 = 3
    OBVIOUS
  <2> QED
    BY <2>1, <2>2
<1>3. \A t \in SdsTypes : SdsLimit[t] \in Nat
  BY SdsAssumption
<1>4. 0 < SdsLimit[0]
  BY SdsAssumption
<1>5. \A t \in SdsTypes : SdsLimit[t] > 0
  BY <1>2, <1>3, <1>4 DEF SdsTypes
<1>6. \A t \in SdsTypes : SdsHdr[t] \in Nat /\ SdsHdr[t] > 0
  BY SdsAssumption
<1> QED
  BY <1>1, <1>2, <1>3, <1>5, <1>6

\* The type asked for holds the length, if any type does.
LEMMA Required ==
  ASSUME NEW n \in Nat, n < SdsLimit[SdsWidest]
  PROVE  sdsReqType(n) \in SdsTypes /\ n < SdsLimit[sdsReqType(n)]
<1>1. CASE n < SdsLimit[0]
  BY <1>1, Limits DEF sdsReqType, SdsTypes
<1>2. CASE n >= SdsLimit[0] /\ n < SdsLimit[1]
  BY <1>2, Limits DEF sdsReqType, SdsTypes
<1>3. CASE n >= SdsLimit[1] /\ n < SdsLimit[2]
  BY <1>3, Limits DEF sdsReqType, SdsTypes
<1>4. CASE n >= SdsLimit[2]
  BY <1>4, Limits DEF sdsReqType, SdsTypes
<1> QED
  BY <1>1, <1>2, <1>3, <1>4, Limits DEF SdsTypes

\* A length is set below alloc.
LEMMA SetLength ==
  ASSUME NEW s, Fits(s), NEW n \in Nat, n <= s.alloc
  PROVE  Fits(sdssetlen(s, n)) /\ sdssetlen(s, n).len = n /\ sdssetlen(s, n).block = s.block
<1> DEFINE r == sdssetlen(s, n)
<1>0. s.type \in SdsTypes /\ SdsLimit[s.type] \in Nat
  BY Limits DEF Fits
<1>a. s.alloc \in Nat /\ s.alloc < SdsLimit[s.type]
  BY DEF Fits
<1>b. n < SdsLimit[s.type]
  BY <1>0, <1>a
<1>1. Stored(s.type, n) = n
  BY <1>b DEF Stored
<1>2. /\ r.type = s.type /\ r.len = n /\ r.block = s.block /\ r.buf = s.buf
      /\ r.alloc = IF s.type = 0 THEN n ELSE s.alloc
  BY <1>1 DEF sdssetlen
<1> HIDE DEF r
<1>c. SdsHdr[r.type] = SdsHdr[s.type] /\ SdsLimit[r.type] = SdsLimit[s.type]
  BY <1>2
<1>3. Fits(r)
  <2>1. /\ s.block \in Nat /\ Len(s.buf) \in Nat /\ SdsHdr[s.type] + Len(s.buf) = s.block
        /\ s.alloc + 1 <= Len(s.buf)
    BY DEF Fits
  <2>2. /\ r.type \in SdsTypes /\ r.len \in Nat /\ r.block \in Nat /\ Len(r.buf) \in Nat
        /\ SdsHdr[r.type] + Len(r.buf) = r.block
    BY <1>0, <1>2, <1>c, <2>1
  <2>3. /\ r.alloc \in Nat /\ r.len <= r.alloc /\ r.alloc < SdsLimit[r.type]
        /\ r.type = 0 => r.alloc = r.len
        /\ r.alloc + 1 <= Len(r.buf)
    BY <1>0, <1>a, <1>b, <1>2, <1>c, <2>1
  <2> QED
    BY <2>2, <2>3 DEF Fits
<1> QED
  BY <1>2, <1>3 DEF r

\* A write within the bytes leaves the header and the size alone.
LEMMA WriteWithin ==
  ASSUME NEW s, Fits(s), NEW o \in Nat, NEW t, Len(t) \in Nat, o + Len(t) <= Len(s.buf)
  PROVE  /\ Fits(Put(s, o, t)) /\ Put(s, o, t).len = s.len /\ Put(s, o, t).alloc = s.alloc
         /\ Put(s, o, t).type = s.type /\ Put(s, o, t).block = s.block
         /\ Len(Put(s, o, t).buf) = Len(s.buf)
<1> DEFINE r == Put(s, o, t)
<1>1. /\ r.type = s.type /\ r.len = s.len /\ r.alloc = s.alloc /\ r.block = s.block
      /\ r.buf = [i \in 1..Len(s.buf) |-> IF o < i /\ i <= o + Len(t) THEN t[i - o] ELSE s.buf[i]]
  BY DEF Put, Fits
<1>2. Len(s.buf) \in Nat
  BY DEF Fits
<1>3. Len(r.buf) = Len(s.buf)
  BY <1>1, <1>2, LenOfFunction
<1>4. Fits(r)
  BY <1>1, <1>3 DEF Fits
<1> QED
  BY <1>1, <1>3, <1>4

\* A write of the terminator at n <= alloc, and the length set to n.
LEMMA EndWithin ==
  ASSUME NEW s, Fits(s), NEW n \in Nat, n <= s.alloc
  PROVE  Fits(Ended(s, n)) /\ Ended(s, n).len = n /\ Ended(s, n).block = s.block
<1>1. Len(<<NUL>>) = 1
  OBVIOUS
<1>2. n + 1 <= Len(s.buf) /\ Len(s.buf) \in Nat
  BY DEF Fits
<1>3. Fits(Put(s, n, <<NUL>>)) /\ Put(s, n, <<NUL>>).alloc = s.alloc /\ Put(s, n, <<NUL>>).block = s.block
  BY <1>1, <1>2, WriteWithin
<1> QED
  BY <1>3, SetLength DEF Ended

\* A string moved to a block with room for n bytes, under a header that holds n.
LEMMA MoveWithin ==
  ASSUME NEW s, Fits(s), NEW n \in Nat, s.len <= n,
         NEW type \in SdsTypes, n < SdsLimit[type], type = 0 => n = s.len
  PROVE  /\ Fits(sdssetalloc(Moved(s, type, n), n))
         /\ sdssetalloc(Moved(s, type, n), n).len = s.len
         /\ sdssetalloc(Moved(s, type, n), n).alloc = n
         /\ sdssetalloc(Moved(s, type, n), n).block > 0
<1> DEFINE m == Moved(s, type, n)
           r == sdssetalloc(m, n)
<1>1. Stored(type, n) = n /\ Stored(type, s.len) = s.len
  BY Limits DEF Fits, Stored
<1>2. /\ m.type = type /\ m.len = s.len /\ m.block = SdsHdr[type] + n + 1
      /\ m.buf = [i \in 1..(n + 1) |-> IF i <= s.len + 1 THEN s.buf[i] ELSE Garbage]
  BY <1>1 DEF Moved
<1>3. /\ r.type = type /\ r.len = s.len /\ r.block = SdsHdr[type] + n + 1 /\ r.buf = m.buf
      /\ r.alloc = n
  BY <1>1, <1>2 DEF sdssetalloc
<1>4. Len(r.buf) = n + 1
  BY <1>2, <1>3, LenOfFunction
<1>5. SdsHdr[type] \in Nat /\ SdsHdr[type] > 0 /\ s.len \in Nat
  BY Limits DEF Fits
<1> HIDE DEF r, m
<1>6. SdsHdr[r.type] + Len(r.buf) = r.block /\ r.block \in Nat /\ r.block > 0
  <2>1. SdsHdr[r.type] + Len(r.buf) = SdsHdr[type] + (n + 1)
    BY <1>3, <1>4
  <2>2. SdsHdr[type] + (n + 1) = SdsHdr[type] + n + 1 /\ SdsHdr[type] + n + 1 > 0
        /\ SdsHdr[type] + n + 1 \in Nat
    BY <1>5
  <2> QED
    BY <1>3, <2>1, <2>2
<1>7. /\ r.type \in SdsTypes /\ r.len \in Nat /\ r.alloc \in Nat /\ r.len <= r.alloc
      /\ r.alloc < SdsLimit[r.type]
      /\ r.type = 0 => r.alloc = r.len
      /\ Len(r.buf) \in Nat /\ r.alloc + 1 <= Len(r.buf)
  BY <1>3, <1>4, <1>5
<1>8. Fits(r)
  BY <1>6, <1>7 DEF Fits
<1> QED
  BY <1>3, <1>6, <1>8 DEF r, m

\* The size and the header that sdsMakeRoomFor asks for.
LEMMA Requested ==
  ASSUME NEW m \in Nat, m <= 2 * (SdsMaxLen + SdsMaxAdd)
  PROVE  LET n == Room(m)
             type == IF sdsReqType(n) = 0 THEN 1 ELSE sdsReqType(n)
         IN  n \in Nat /\ m <= n /\ type \in SdsTypes /\ n < SdsLimit[type] /\ type # 0
<1> DEFINE n == Room(m)
<1>1. SdsPrealloc \in Nat /\ SdsMaxLen \in Nat /\ SdsMaxAdd \in Nat
      /\ 4 * (SdsMaxLen + SdsMaxAdd) + SdsPrealloc < SdsLimit[SdsWidest]
  BY SdsAssumption
<1>2. SdsLimit[SdsWidest] \in Nat
  BY Limits
<1>3. n \in Nat /\ m <= n /\ n < SdsLimit[SdsWidest]
  BY <1>1, <1>2 DEF Room
<1>4. sdsReqType(n) \in SdsTypes /\ n < SdsLimit[sdsReqType(n)]
  BY <1>3, Required
<1> QED
  BY <1>3, <1>4, Limits DEF SdsTypes

\* After sdsMakeRoomFor there is room for the bytes it was called for.
LEMMA RoomMade ==
  ASSUME NEW s, Fits(s), NEW add \in Nat, s.len + add <= 2 * (SdsMaxLen + SdsMaxAdd)
  PROVE  /\ Fits(sdsMakeRoomFor(s, add)) /\ sdsMakeRoomFor(s, add).len = s.len
         /\ s.len + add <= sdsMakeRoomFor(s, add).alloc
         /\ s.block > 0 => sdsMakeRoomFor(s, add).block > 0
<1>1. s.len \in Nat /\ s.alloc \in Nat /\ s.len <= s.alloc
  BY DEF Fits
<1>2. CASE sdsavail(s) >= add
  <2>1. sdsMakeRoomFor(s, add) = s
    BY <1>2 DEF sdsMakeRoomFor
  <2>2. s.len + add <= s.alloc
    BY <1>1, <1>2 DEF sdsavail
  <2> QED
    BY <2>1, <2>2
<1>3. CASE ~(sdsavail(s) >= add)
  <2> DEFINE n == Room(s.len + add)
             type == IF sdsReqType(n) = 0 THEN 1 ELSE sdsReqType(n)
  <2>1. n \in Nat /\ s.len + add <= n /\ type \in SdsTypes /\ n < SdsLimit[type] /\ type # 0
    BY <1>1, Requested
  <2>2. s.len <= n
    BY <1>1, <2>1
  <2> HIDE DEF n, type
  <2>3. /\ Fits(sdssetalloc(Moved(s, type, n), n))
        /\ sdssetalloc(Moved(s, type, n), n).len = s.len
        /\ sdssetalloc(Moved(s, type, n), n).alloc = n
        /\ sdssetalloc(Moved(s, type, n), n).block > 0
    BY <2>1, <2>2, MoveWithin
  <2>4. sdsMakeRoomFor(s, add) = sdssetalloc(Moved(s, type, n), n)
    BY <1>3 DEF sdsMakeRoomFor, n, type
  <2> QED
    BY <2>1, <2>3, <2>4
<1> QED
  BY <1>2, <1>3

-----------------------------------------------------------------------------
(* The calls.                                                               *)

\* Forgetting what lies behind the terminator changes no size.
LEMMA ForgetFits ==
  ASSUME NEW s, Fits(s)
  PROVE  Fits(Forget(s)) /\ Forget(s).len = s.len /\ Forget(s).block = s.block
<1> DEFINE r == Forget(s)
<1>1. /\ r.type = s.type /\ r.len = s.len /\ r.alloc = s.alloc /\ r.block = s.block
      /\ r.buf = [i \in 1..Len(s.buf) |-> IF i <= s.len + 1 THEN s.buf[i] ELSE Garbage]
  BY DEF Forget
<1>2. Len(s.buf) \in Nat
  BY DEF Fits
<1>3. Len(r.buf) = Len(s.buf)
  BY <1>1, <1>2, LenOfFunction
<1> QED
  BY <1>1, <1>3 DEF Fits

\* A call that ends with a string that fits keeps the invariant.
LEMMA DoesFits ==
  ASSUME SdsInv, NEW s, NEW text, Fits(s), Does(s, text)
  PROVE  SdsInv'
<1>1. Fits(Forget(s)) /\ Forget(s).len = s.len /\ Forget(s).block = s.block
  BY ForgetFits
<1>2. sds' = Forget(s) /\ fmt' = fmt /\ s.len <= SdsMaxLen
  BY DEF Does
<1>3. Fits(sds')
  BY <1>1, <1>2
<1>4. Fits(sds)'
  BY <1>3 DEF Fits
<1>5. sds'.block \in Nat /\ sds'.len <= SdsMaxLen
  BY <1>1, <1>2 DEF Fits
<1>6. fmt' \in Int /\ fmt' <= SdsMaxAdd
  BY <1>2 DEF SdsInv
<1> QED
  BY <1>4, <1>5, <1>6 DEF SdsInv

\* A call on an existing string finds one that fits.
LEMMA IdleFits ==
  ASSUME SdsInv, Idle
  PROVE  /\ Fits(sds) /\ sds.len \in Nat /\ sds.len <= SdsMaxLen /\ sds.len <= sds.alloc
         /\ SdsMaxLen \in Nat /\ SdsMaxAdd \in Nat
BY SdsAssumption DEF SdsInv, Idle, Fits

\* sdscatlen.
LEMMA CatFits ==
  ASSUME SdsInv, Idle, NEW t, Len(t) \in Nat, Len(t) <= SdsMaxAdd
  PROVE  Fits(sdscatlen(sds, t))
<1>1. Fits(sds) /\ sds.len \in Nat /\ sds.len <= SdsMaxLen /\ SdsMaxLen \in Nat /\ SdsMaxAdd \in Nat
  BY IdleFits
<1>2. sds.len + Len(t) <= 2 * (SdsMaxLen + SdsMaxAdd)
  BY <1>1
<1> DEFINE r == sdsMakeRoomFor(sds, Len(t))
<1>3. Fits(r) /\ sds.len + Len(t) <= r.alloc
  BY <1>1, <1>2, RoomMade
<1> HIDE DEF r
<1>4. r.alloc \in Nat /\ Len(r.buf) \in Nat /\ r.alloc + 1 <= Len(r.buf)
  BY <1>3 DEF Fits
<1>5. sds.len + Len(t) <= Len(r.buf)
  BY <1>1, <1>3, <1>4
<1>6. Fits(Put(r, sds.len, t)) /\ Put(r, sds.len, t).alloc = r.alloc
  BY <1>1, <1>3, <1>5, WriteWithin
<1>7. sds.len + Len(t) \in Nat
  BY <1>1
<1>8. Fits(Ended(Put(r, sds.len, t), sds.len + Len(t)))
  BY <1>3, <1>6, <1>7, EndWithin
<1> QED
  BY <1>8 DEF sdscatlen, r

\* Bytes moved to the front.
LEMMA KeptFits ==
  ASSUME NEW s, Fits(s), NEW first \in Nat, NEW end \in Int, end <= s.len
  PROVE  Fits(Kept(s, first, end))
<1> DEFINE n == IF first < end THEN end - first ELSE 0
           t == [i \in 1..n |-> s.buf[first + i]]
<1>1. s.len \in Nat /\ s.alloc \in Nat /\ s.len <= s.alloc /\ Len(s.buf) \in Nat
      /\ s.alloc + 1 <= Len(s.buf)
  BY DEF Fits
<1>2. n \in Nat /\ n <= s.alloc /\ n <= Len(s.buf)
  BY <1>1
<1>3. Len(t) = n
  <2> HIDE DEF n
  <2> QED
    BY <1>2, LenOfFunction
<1> HIDE DEF n, t
<1>4. Fits(Put(s, 0, t)) /\ Put(s, 0, t).alloc = s.alloc
  BY <1>2, <1>3, <1>1, WriteWithin
<1>5. Fits(Ended(Put(s, 0, t), n))
  BY <1>2, <1>4, EndWithin
<1> QED
  BY <1>5 DEF Kept, n, t

-----------------------------------------------------------------------------
(* Every step.                                                              *)

\* Bounds are kept: sdsnewlen allocates the header that the length needs.
LEMMA NewInv ==
  ASSUME SdsInv, NEW t \in SdsTexts(SdsChars), New(t)
  PROVE  SdsInv'
<1> DEFINE n == Len(t)
           type == IF n = 0 THEN 1 ELSE sdsReqType(n)
<1>1. n \in Nat /\ n <= SdsMaxLen /\ t \in Seq(SdsChars)
  BY TextLength DEF New
<1>2. SdsLimit[SdsWidest] \in Nat /\ SdsMaxLen \in Nat
  BY Limits, SdsAssumption
<1>3. n < SdsLimit[SdsWidest]
  BY <1>1, <1>2, SdsAssumption
<1>4. sdsReqType(n) \in SdsTypes /\ n < SdsLimit[sdsReqType(n)]
  BY <1>1, <1>3, Required
<1>5. type \in SdsTypes /\ n < SdsLimit[type]
  BY <1>1, <1>4, Limits DEF SdsTypes
<1>6. Len(Append(t, NUL)) = n + 1
  BY <1>1
<1>7. sds' = sdsnewlen(t) /\ fmt' = fmt
  BY DEF New
<1>8. /\ sds'.type = type /\ sds'.len = n /\ sds'.alloc = n /\ sds'.block = SdsHdr[type] + n + 1
      /\ sds'.buf = Append(t, NUL)
  BY <1>5, <1>7 DEF sdsnewlen, Stored
<1> HIDE DEF n, type
<1>9. SdsHdr[type] \in Nat
  BY <1>5, Limits
<1>a. Len(sds'.buf) = n + 1
  BY <1>6, <1>8
<1>b. SdsHdr[sds'.type] + Len(sds'.buf) = sds'.block /\ sds'.block \in Nat
  BY <1>1, <1>8, <1>9, <1>a
<1>c. /\ sds'.type \in SdsTypes /\ sds'.len \in Nat /\ sds'.alloc \in Nat /\ sds'.len <= sds'.alloc
      /\ sds'.alloc < SdsLimit[sds'.type]
      /\ sds'.type = 0 => sds'.alloc = sds'.len
      /\ Len(sds'.buf) \in Nat /\ sds'.alloc + 1 <= Len(sds'.buf)
  BY <1>1, <1>5, <1>8, <1>a
<1>10. Fits(sds')
  BY <1>b, <1>c DEF Fits
<1>11. Fits(sds)' /\ sds'.block \in Nat
  BY <1>10 DEF Fits
<1>12. fmt' \in Int /\ fmt' <= SdsMaxAdd
  BY <1>7 DEF SdsInv
<1> QED
  BY <1>1, <1>8, <1>11, <1>12 DEF SdsInv

\* Bounds are kept: sdsfree leaves no string, so nothing to keep within bounds.
LEMMA FreeInv ==
  ASSUME SdsInv, sdsfree
  PROVE  SdsInv'
BY DEF SdsInv, sdsfree, NoString

\* Bounds are kept: sdsupdatelen sets a length that is at most the one before.
LEMMA UpdateLenInv ==
  ASSUME SdsInv, sdsupdatelen
  PROVE  SdsInv'
<1>1. PICK n \in 0..sds.len : \E text : Idle /\ Does(sdssetlen(sds, n), text)
  BY DEF sdsupdatelen
<1>2. PICK text : Does(sdssetlen(sds, n), text)
  BY <1>1
<1>3. Idle
  BY <1>1
<1>4. Fits(sds) /\ n \in Nat /\ n <= sds.alloc
  BY <1>3, IdleFits DEF Fits
<1>5. Fits(sdssetlen(sds, n))
  BY <1>4, SetLength
<1> QED
  BY <1>2, <1>5, DoesFits

\* Bounds are kept: sdsclear sets the length to 0 and keeps the allocation.
LEMMA ClearInv ==
  ASSUME SdsInv, sdsclear
  PROVE  SdsInv'
<1>1. Idle
  BY DEF sdsclear, Does
<1>2. Fits(sds) /\ 0 <= sds.alloc
  BY <1>1, IdleFits DEF Fits
<1>3. Fits(Ended(sds, 0))
  BY <1>2, EndWithin
<1> QED
  BY <1>3, DoesFits DEF sdsclear

\* Bounds are kept: sdsMakeRoomFor leaves a string whose allocation its header can hold.
LEMMA MakeRoomInv ==
  ASSUME SdsInv, NEW n \in 0..SdsMaxAdd, MakeRoomFor(n)
  PROVE  SdsInv'
<1>1. Idle
  BY DEF MakeRoomFor, Does
<1>2. Fits(sds) /\ sds.len \in Nat /\ n \in Nat /\ sds.len + n <= 2 * (SdsMaxLen + SdsMaxAdd)
  BY <1>1, IdleFits
<1>3. Fits(sdsMakeRoomFor(sds, n))
  BY <1>2, RoomMade
<1> QED
  BY <1>3, DoesFits DEF MakeRoomFor

\* The header that sdsRemoveFreeSpace moves the string to holds its length.
LEMMA Shrunk ==
  ASSUME SdsInv, Idle
  PROVE  LET need == sdsReqType(sds.len)
             type == IF need > 1 THEN sds.type ELSE need
         IN  type \in SdsTypes /\ sds.len < SdsLimit[type]
<1>1. Fits(sds) /\ sds.len \in Nat /\ sds.len <= SdsMaxLen /\ SdsMaxLen \in Nat /\ SdsMaxAdd \in Nat
  BY IdleFits
<1>2. SdsLimit[SdsWidest] \in Nat /\ SdsPrealloc \in Nat
  BY Limits, SdsAssumption
<1>3. sds.len < SdsLimit[SdsWidest]
  BY <1>1, <1>2, SdsAssumption
<1>4. sdsReqType(sds.len) \in SdsTypes /\ sds.len < SdsLimit[sdsReqType(sds.len)]
  BY <1>1, <1>3, Required
<1>5. sds.type \in SdsTypes /\ SdsLimit[sds.type] \in Nat /\ sds.alloc \in Nat
      /\ sds.len <= sds.alloc /\ sds.alloc < SdsLimit[sds.type]
  BY <1>1, Limits DEF Fits
<1>6. sds.len < SdsLimit[sds.type]
  BY <1>1, <1>5
<1> QED
  BY <1>4, <1>5, <1>6

\* Bounds are kept: sdsRemoveFreeSpace cuts the allocation down to the length, in a smaller header.
LEMMA RemoveInv ==
  ASSUME SdsInv, RemoveFreeSpace
  PROVE  SdsInv'
<1> DEFINE need == sdsReqType(sds.len)
           type == IF need > 1 THEN sds.type ELSE need
<1>1. Idle
  BY DEF RemoveFreeSpace, Does
<1>2. Fits(sds) /\ sds.len \in Nat
  BY <1>1, IdleFits
<1>3. type \in SdsTypes /\ sds.len < SdsLimit[type]
  BY <1>1, Shrunk
<1>4. Fits(sdsRemoveFreeSpace(sds))
  <2>1. CASE sdsavail(sds) = 0
    BY <1>2, <2>1 DEF sdsRemoveFreeSpace
  <2>2. CASE sdsavail(sds) # 0
    <3>1. sdsRemoveFreeSpace(sds) = sdssetalloc(Moved(sds, type, sds.len), sds.len)
      BY <2>2 DEF sdsRemoveFreeSpace
    <3> HIDE DEF type
    <3>2. Fits(sdssetalloc(Moved(sds, type, sds.len), sds.len))
      BY <1>2, <1>3, MoveWithin
    <3> QED
      BY <3>1, <3>2
  <2> QED
    BY <2>1, <2>2
<1> QED
  BY <1>4, DoesFits DEF RemoveFreeSpace

\* Bounds are kept: sdsIncrLen counts bytes that were written into room made for them.
LEMMA IncrLenInv ==
  ASSUME SdsInv, NEW n \in 0..SdsMaxAdd, NEW t \in SdsTexts(SdsBytes), IncrLen(n, t)
  PROVE  SdsInv'
<1>1. Idle /\ Len(t) <= n
  BY DEF IncrLen, Does
<1>2. Fits(sds) /\ sds.len \in Nat /\ n \in Nat /\ sds.len + n <= 2 * (SdsMaxLen + SdsMaxAdd)
  BY <1>1, IdleFits
<1>3. Len(t) \in Nat
  BY TextLength
<1> DEFINE r == sdsMakeRoomFor(sds, n)
<1>4. Fits(r) /\ sds.len + n <= r.alloc
  BY <1>2, RoomMade
<1> HIDE DEF r
<1>5. r.alloc \in Nat /\ Len(r.buf) \in Nat /\ r.alloc + 1 <= Len(r.buf)
  BY <1>4 DEF Fits
<1>6. sds.len + Len(t) \in Nat /\ sds.len + Len(t) <= r.alloc /\ sds.len + Len(t) <= Len(r.buf)
  BY <1>1, <1>2, <1>3, <1>4, <1>5
<1>7. Fits(Put(r, sds.len, t)) /\ Put(r, sds.len, t).alloc = r.alloc
  BY <1>2, <1>3, <1>4, <1>6, WriteWithin
<1>8. Fits(Ended(Put(r, sds.len, t), sds.len + Len(t)))
  BY <1>6, <1>7, EndWithin
<1> QED
  BY <1>8, DoesFits DEF IncrLen, r

\* Bounds are kept: sdsIncrLen with a negative increment stays at or above 0.
LEMMA ShortenInv ==
  ASSUME SdsInv, NEW n \in 0..SdsMaxAdd, Shorten(n)
  PROVE  SdsInv'
<1>1. Idle /\ n <= sds.len
  BY DEF Shorten, Does
<1>2. Fits(sds) /\ sds.len \in Nat /\ sds.alloc \in Nat /\ sds.len <= sds.alloc
  BY <1>1, IdleFits DEF Fits
<1>3. sds.len - n \in Nat /\ sds.len - n <= sds.alloc
  BY <1>1, <1>2
<1>4. Fits(Ended(sds, sds.len - n))
  BY <1>2, <1>3, EndWithin
<1> QED
  BY <1>4, DoesFits DEF Shorten

\* Bounds are kept: sdsgrowzero makes room before it fills up with zeros.
LEMMA GrowInv ==
  ASSUME SdsInv, NEW n \in 0..SdsMaxLen, sdsgrowzero(n)
  PROVE  SdsInv'
<1> DEFINE add == n - sds.len
           zeros == [i \in 1..add |-> NUL]
           r == sdsMakeRoomFor(sds, add)
<1>1. Idle /\ n > sds.len
  BY DEF sdsgrowzero, Does
<1>2. Fits(sds) /\ sds.len \in Nat /\ n \in Nat /\ SdsMaxLen \in Nat /\ SdsMaxAdd \in Nat
  BY <1>1, IdleFits
<1>3. add \in Nat /\ sds.len + add = n /\ n <= 2 * (SdsMaxLen + SdsMaxAdd)
  BY <1>1, <1>2
<1>4. Fits(r) /\ n <= r.alloc
  BY <1>2, <1>3, RoomMade
<1>5. Len(Append(zeros, NUL)) = add + 1
  <2>1. Len(zeros) = add
    BY <1>3, LenOfFunction
  <2>2. zeros \in Seq({NUL})
    BY <1>3
  <2> HIDE DEF zeros, add
  <2> QED
    BY <2>1, <2>2
<1> DEFINE p == Put(r, sds.len, Append(zeros, NUL))
<1>6. Does(sdssetlen(p, n), want \o zeros)
  BY DEF sdsgrowzero
<1> HIDE DEF r, zeros, add
<1>7. r.alloc \in Nat /\ Len(r.buf) \in Nat /\ r.alloc + 1 <= Len(r.buf)
  BY <1>4 DEF Fits
<1>8. sds.len + (add + 1) <= Len(r.buf) /\ add + 1 \in Nat
  BY <1>2, <1>3, <1>4, <1>7
<1>9. Fits(p) /\ p.alloc = r.alloc
  BY <1>2, <1>4, <1>5, <1>8, WriteWithin
<1> HIDE DEF p
<1>10. Fits(sdssetlen(p, n))
  BY <1>2, <1>4, <1>9, SetLength
<1> QED
  BY <1>6, <1>10, DoesFits

\* Bounds are kept: sdscatlen makes room before it appends.
LEMMA CatInv ==
  ASSUME SdsInv, NEW t \in SdsTexts(SdsChars), Cat(t)
  PROVE  SdsInv'
<1>1. Idle
  BY DEF Cat, Does
<1>2. Fits(sdscatlen(sds, t))
  BY <1>1, TextLength, CatFits
<1> QED
  BY <1>2, DoesFits DEF Cat

\* Bounds are kept: sdscatvprintf appends a text that its buffer held.
LEMMA CatprintfInv ==
  ASSUME SdsInv, NEW t \in SdsTexts(SdsBytes), NEW n \in 0..SdsMaxAdd, Catprintf(t, n)
  PROVE  SdsInv'
<1>1. PICK size \in Int : \E text : Fitted(t, size) /\ Does(sdscatlen(sds, Printed(t, size)), text)
  BY DEF Catprintf
<1>2. PICK text : Does(sdscatlen(sds, Printed(t, size)), text)
  BY <1>1
<1>3. Len(t) \in Nat /\ Len(t) <= SdsMaxAdd
  BY TextLength
<1>4. Len(Printed(t, size)) = Len(t)
  <2>1. CASE Len(t) < size
    <3>1. Printed(t, size) = [i \in 1..Len(t) |-> t[i]]
      BY <2>1 DEF Printed
    <3> QED
      BY <3>1, <1>3, LenOfFunction
  <2>2. CASE ~(Len(t) < size)
    BY <2>2, <1>1, <1>3 DEF Fitted
  <2> QED
    BY <2>1, <2>2
<1>5. Idle
  BY <1>2 DEF Does
<1>6. Fits(sdscatlen(sds, Printed(t, size)))
  BY <1>3, <1>4, <1>5, CatFits
<1> QED
  BY <1>2, <1>6, DoesFits

\* Bounds are kept: sdscpylen makes room for what the string is too short for.
LEMMA CpyInv ==
  ASSUME SdsInv, NEW t \in SdsTexts(SdsChars), Cpy(t)
  PROVE  SdsInv'
<1>1. Idle
  BY DEF Cpy, Does
<1>2. Fits(sds) /\ sds.len \in Nat /\ sds.len <= SdsMaxLen /\ SdsMaxLen \in Nat /\ SdsMaxAdd \in Nat
      /\ sds.alloc \in Nat /\ sds.len <= sds.alloc
  BY <1>1, IdleFits DEF Fits
<1>3. Len(t) \in Nat /\ Len(t) <= SdsMaxAdd
  BY TextLength
<1> DEFINE r == IF sds.alloc < Len(t) THEN sdsMakeRoomFor(sds, Len(t) - sds.len) ELSE sds
<1>4. Fits(r) /\ Len(t) <= r.alloc
  <2>1. CASE sds.alloc < Len(t)
    <3>1. Len(t) - sds.len \in Nat /\ sds.len + (Len(t) - sds.len) = Len(t)
          /\ Len(t) <= 2 * (SdsMaxLen + SdsMaxAdd)
      BY <1>2, <1>3, <2>1
    <3> QED
      BY <1>2, <2>1, <3>1, RoomMade
  <2>2. CASE ~(sds.alloc < Len(t))
    BY <1>2, <1>3, <2>2
  <2> QED
    BY <2>1, <2>2
<1> HIDE DEF r
<1>5. r.alloc \in Nat /\ Len(r.buf) \in Nat /\ r.alloc + 1 <= Len(r.buf)
  BY <1>4 DEF Fits
<1>6. 0 + Len(t) <= Len(r.buf)
  BY <1>3, <1>4, <1>5
<1>7. Fits(Put(r, 0, t)) /\ Put(r, 0, t).alloc = r.alloc
  BY <1>3, <1>4, <1>6, WriteWithin
<1>8. Fits(Ended(Put(r, 0, t), Len(t)))
  BY <1>3, <1>4, <1>7, EndWithin
<1>9. sdscpylen(sds, t) = Ended(Put(r, 0, t), Len(t))
  BY DEF sdscpylen, r
<1> QED
  BY <1>8, <1>9, DoesFits DEF Cpy

\* Bounds are kept: sdstrim keeps a part of the string.
LEMMA TrimInv ==
  ASSUME SdsInv, NEW cset, sdstrim(cset)
  PROVE  SdsInv'
<1>1. PICK sp \in 0..sds.len, ep \in -1..(sds.len - 1) :
         Idle /\ Does(Kept(sds, sp, ep + 1), Stripped(want, cset))
  BY DEF sdstrim
<1>2. Fits(sds) /\ sds.len \in Nat
  BY <1>1, IdleFits
<1>3. sp \in Nat /\ ep + 1 \in Int /\ ep + 1 <= sds.len
  BY <1>2
<1>4. Fits(Kept(sds, sp, ep + 1))
  BY <1>2, <1>3, KeptFits
<1> QED
  BY <1>1, <1>4, DoesFits

\* Bounds are kept: sdsrange keeps a part of the string, whatever its ends are.
LEMMA RangeInv ==
  ASSUME SdsInv, NEW start \in Int, NEW end \in Int, Cut(start, end)
  PROVE  SdsInv'
<1>1. Idle
  BY DEF Cut, Does
<1>2. Fits(sds) /\ sds.len \in Nat
  BY <1>1, IdleFits
<1> DEFINE first == IF FromEnd(start, sds.len) < sds.len THEN FromEnd(start, sds.len) ELSE sds.len
           last == IF FromEnd(end, sds.len) < sds.len THEN FromEnd(end, sds.len) ELSE sds.len - 1
<1>3. first \in Nat /\ last + 1 \in Int /\ last + 1 <= sds.len
  BY <1>2 DEF FromEnd
<1>4. Fits(Kept(sds, first, last + 1))
  <2> HIDE DEF first, last
  <2> QED
    BY <1>2, <1>3, KeptFits
<1>5. Fits(sdsrange(sds, start, end))
  BY <1>2, <1>4 DEF sdsrange
<1> QED
  BY <1>5, DoesFits DEF Cut

\* Bounds are kept: sdstolower and sdstoupper change bytes within the length only.
LEMMA MapInv ==
  ASSUME SdsInv, NEW f, MapChars(f)
  PROVE  SdsInv'
<1> DEFINE t == [i \in 1..sds.len |-> f[sds.buf[i]]]
<1>1. Idle
  BY DEF MapChars, Does
<1>2. Fits(sds) /\ sds.len \in Nat /\ sds.alloc \in Nat /\ sds.len <= sds.alloc
      /\ Len(sds.buf) \in Nat /\ sds.alloc + 1 <= Len(sds.buf)
  BY <1>1, IdleFits DEF Fits
<1>3. Len(t) = sds.len
  BY <1>2, LenOfFunction
<1>4. PICK text : Does(Put(sds, 0, t), text)
  BY DEF MapChars
<1> HIDE DEF t
<1>5. Fits(Put(sds, 0, t))
  BY <1>2, <1>3, WriteWithin
<1> QED
  BY <1>4, <1>5, DoesFits

\* Bounds are kept: sdscatfmt makes room for twice the format.
LEMMA FmtStartInv ==
  ASSUME SdsInv, NEW n \in 0..SdsMaxAdd, catfmt_start(n)
  PROVE  SdsInv'
<1>1. Idle /\ sds' = sdsMakeRoomFor(sds, sds.len + 2 * n) /\ fmt' = n
  BY DEF catfmt_start
<1>2. Fits(sds) /\ sds.len \in Nat /\ sds.len <= SdsMaxLen /\ SdsMaxLen \in Nat /\ SdsMaxAdd \in Nat
  BY <1>1, IdleFits
<1>3. sds.len + 2 * n \in Nat /\ sds.len + (sds.len + 2 * n) <= 2 * (SdsMaxLen + SdsMaxAdd)
  BY <1>2
<1>4. Fits(sds') /\ sds'.len = sds.len
  BY <1>1, <1>2, <1>3, RoomMade
<1>5. Fits(sds)' /\ sds'.block \in Nat
  BY <1>4 DEF Fits
<1>6. fmt' \in Int /\ fmt' <= SdsMaxAdd
  BY <1>1, <1>2
<1> QED
  BY <1>2, <1>4, <1>5, <1>6 DEF SdsInv

\* sdscatfmt has started only on a string that exists.
FmtOnString == fmt >= 0 => sds.block > 0

\* Bounds are kept: every piece sdscatfmt writes has room, and leaves room for the terminator.
LEMMA FmtPieceInv ==
  ASSUME SdsInv, FmtOnString, NEW t \in SdsTexts(SdsChars), catfmt_piece(t)
  PROVE  SdsInv' /\ sds'.block > 0
<1> DEFINE one == IF sdsavail(sds) = 0 THEN sdsMakeRoomFor(sds, 1) ELSE sds
           r == IF sdsavail(one) < Len(t) THEN sdsMakeRoomFor(one, Len(t)) ELSE one
<1>1. fmt \in Int /\ fmt > 0 /\ fmt <= SdsMaxAdd /\ fmt' = fmt - 1
      /\ sds.len + Len(t) <= SdsMaxLen
  BY DEF catfmt_piece, SdsInv
<1>2. sds' = sdssetlen(Put(r, sds.len, t), sds.len + Len(t))
  BY DEF catfmt_piece
<1>3. sds.block > 0 /\ Fits(sds) /\ sds.len \in Nat /\ sds.len <= SdsMaxLen
      /\ SdsMaxLen \in Nat /\ SdsMaxAdd \in Nat
  BY <1>1, SdsAssumption DEF SdsInv, FmtOnString, Fits
<1>4. Len(t) \in Nat /\ Len(t) <= SdsMaxAdd
  BY TextLength
<1>5. Fits(one) /\ one.len = sds.len /\ one.block > 0
  <2>1. sds.len + 1 <= 2 * (SdsMaxLen + SdsMaxAdd)
    BY <1>1, <1>3
  <2>2. Fits(sdsMakeRoomFor(sds, 1)) /\ sdsMakeRoomFor(sds, 1).len = sds.len
        /\ sdsMakeRoomFor(sds, 1).block > 0
    BY <1>3, <2>1, RoomMade
  <2> QED
    BY <1>3, <2>2
<1> HIDE DEF one
<1>6. Fits(r) /\ sds.len + Len(t) <= r.alloc /\ r.block > 0
  <2>1. CASE sdsavail(one) < Len(t)
    <3>1. one.len + Len(t) <= 2 * (SdsMaxLen + SdsMaxAdd)
      BY <1>3, <1>4, <1>5
    <3>2. Fits(sdsMakeRoomFor(one, Len(t))) /\ one.len + Len(t) <= sdsMakeRoomFor(one, Len(t)).alloc
          /\ sdsMakeRoomFor(one, Len(t)).block > 0
      BY <1>4, <1>5, <3>1, RoomMade
    <3> QED
      BY <1>5, <2>1, <3>2
  <2>2. CASE ~(sdsavail(one) < Len(t))
    <3>1. one.len \in Nat /\ one.alloc \in Nat /\ one.len <= one.alloc
      BY <1>5 DEF Fits
    <3>2. one.len + Len(t) <= one.alloc
      BY <1>4, <2>2, <3>1 DEF sdsavail
    <3> QED
      BY <1>5, <2>2, <3>2
  <2> QED
    BY <2>1, <2>2
<1> HIDE DEF r
<1>7. r.alloc \in Nat /\ Len(r.buf) \in Nat /\ r.alloc + 1 <= Len(r.buf)
  BY <1>6 DEF Fits
<1>8. sds.len + Len(t) \in Nat /\ sds.len + Len(t) <= Len(r.buf)
  BY <1>3, <1>4, <1>6, <1>7
<1>9. Fits(Put(r, sds.len, t)) /\ Put(r, sds.len, t).alloc = r.alloc /\ Put(r, sds.len, t).block = r.block
  BY <1>3, <1>4, <1>6, <1>8, WriteWithin
<1>10. Fits(sds') /\ sds'.len = sds.len + Len(t) /\ sds'.block = r.block
  BY <1>2, <1>6, <1>8, <1>9, SetLength
<1>11. Fits(sds)' /\ sds'.block \in Nat /\ sds'.block > 0
  BY <1>6, <1>10 DEF Fits
<1>12. fmt' \in Int /\ fmt' <= SdsMaxAdd
  BY <1>1, <1>3
<1> QED
  BY <1>1, <1>10, <1>11, <1>12 DEF SdsInv

\* Bounds are kept: the terminator sdscatfmt writes last is within the allocation.
LEMMA FmtEndInv ==
  ASSUME SdsInv, FmtOnString, catfmt_end
  PROVE  SdsInv'
<1>1. fmt \in Int /\ fmt >= 0 /\ sds' = Forget(Put(sds, sds.len, <<NUL>>)) /\ fmt' = -1
  BY DEF catfmt_end, SdsInv
<1>2. Fits(sds) /\ sds.len \in Nat /\ sds.len <= SdsMaxLen
  BY <1>1 DEF SdsInv, FmtOnString, Fits
<1>3. sds.len + 1 <= Len(sds.buf) /\ Len(<<NUL>>) = 1
  BY <1>2 DEF Fits
<1>4. Fits(Put(sds, sds.len, <<NUL>>)) /\ Put(sds, sds.len, <<NUL>>).len = sds.len
  BY <1>2, <1>3, WriteWithin
<1>5. Fits(sds') /\ sds'.len = sds.len
  BY <1>1, <1>4, ForgetFits
<1>6. Fits(sds)' /\ sds'.block \in Nat
  BY <1>5 DEF Fits
<1>7. fmt' \in Int /\ fmt' <= SdsMaxAdd
  BY <1>1, SdsAssumption
<1> QED
  BY <1>2, <1>5, <1>6, <1>7 DEF SdsInv

\* Only the start of sdscatfmt leaves fmt above -1, and it leaves a string.
LEMMA FmtOnStringStep ==
  ASSUME SdsInv, FmtOnString, SdsNext
  PROVE  FmtOnString'
<1>0. fmt \in Int
  BY DEF SdsInv
<1>1. ASSUME NEW n \in 0..SdsMaxAdd, catfmt_start(n) PROVE FmtOnString'
  <2>1. Idle /\ sds' = sdsMakeRoomFor(sds, sds.len + 2 * n)
    BY <1>1 DEF catfmt_start
  <2>2. Fits(sds) /\ sds.len \in Nat /\ sds.len <= SdsMaxLen /\ SdsMaxLen \in Nat
        /\ SdsMaxAdd \in Nat /\ sds.block > 0
    BY <2>1, IdleFits DEF Idle
  <2>3. sds.len + 2 * n \in Nat /\ sds.len + (sds.len + 2 * n) <= 2 * (SdsMaxLen + SdsMaxAdd)
    BY <2>2
  <2>4. sds'.block > 0
    BY <2>1, <2>2, <2>3, RoomMade
  <2> QED
    BY <2>4 DEF FmtOnString
<1>2. ASSUME NEW t \in SdsTexts(SdsChars), catfmt_piece(t) PROVE FmtOnString'
  BY <1>2, FmtPieceInv DEF FmtOnString
<1>3. ASSUME NEW s, NEW text, Does(s, text) PROVE FmtOnString'
  BY <1>3 DEF Does, Idle, FmtOnString
<1>4. ASSUME NEW t, New(t) PROVE FmtOnString'
  BY <1>0, <1>4 DEF New, FmtOnString
<1>5. CASE sdsfree \/ catfmt_end
  BY <1>5 DEF sdsfree, catfmt_end, Idle, FmtOnString
<1>6. CASE sdsupdatelen
  BY <1>3, <1>6 DEF sdsupdatelen
<1>7. CASE sdsclear \/ RemoveFreeSpace
  BY <1>3, <1>7 DEF sdsclear, RemoveFreeSpace
<1>8. ASSUME NEW n \in 0..SdsMaxAdd, MakeRoomFor(n) \/ Shorten(n) PROVE FmtOnString'
  BY <1>3, <1>8 DEF MakeRoomFor, Shorten
<1>9. ASSUME NEW n, sdsgrowzero(n) PROVE FmtOnString'
  BY <1>3, <1>9 DEF sdsgrowzero
<1>10. ASSUME NEW t, Cat(t) \/ Cpy(t) PROVE FmtOnString'
  BY <1>3, <1>10 DEF Cat, Cpy
<1>11. ASSUME NEW n, NEW t, IncrLen(n, t) PROVE FmtOnString'
  BY <1>3, <1>11 DEF IncrLen
<1>12. ASSUME NEW n, NEW t, Catprintf(t, n) PROVE FmtOnString'
  BY <1>3, <1>12 DEF Catprintf
<1>13. ASSUME NEW cset, sdstrim(cset) PROVE FmtOnString'
  BY <1>3, <1>13 DEF sdstrim
<1>14. ASSUME NEW start, NEW end, Cut(start, end) PROVE FmtOnString'
  BY <1>3, <1>14 DEF Cut
<1>15. ASSUME NEW f, MapChars(f) PROVE FmtOnString'
  BY <1>3, <1>15 DEF MapChars
<1> QED
  BY <1>1, <1>2, <1>4, <1>5, <1>6, <1>7, <1>8, <1>9, <1>10, <1>11, <1>12, <1>13, <1>14, <1>15
     DEF SdsNext

\* Every call of sds.c keeps the invariant.
LEMMA SdsStep ==
  ASSUME SdsInv, FmtOnString, SdsNext
  PROVE  SdsInv'
<1>1. CASE \E t \in SdsTexts(SdsChars) : New(t)
  BY <1>1, NewInv
<1>2. CASE sdsfree \/ sdsupdatelen \/ sdsclear
  BY <1>2, FreeInv, UpdateLenInv, ClearInv
<1>3. CASE RemoveFreeSpace \/ catfmt_end
  BY <1>3, RemoveInv, FmtEndInv
<1>4. CASE \E n \in 0..SdsMaxAdd : MakeRoomFor(n) \/ Shorten(n) \/ catfmt_start(n)
  BY <1>4, MakeRoomInv, ShortenInv, FmtStartInv
<1>5. CASE \E n \in 0..SdsMaxLen : sdsgrowzero(n)
  BY <1>5, GrowInv
<1>6. CASE \E t \in SdsTexts(SdsChars) : Cat(t) \/ Cpy(t)
  BY <1>6, CatInv, CpyInv
<1>7. CASE \E t \in SdsTexts(SdsBytes), n \in 0..SdsMaxAdd : IncrLen(n, t) \/ Catprintf(t, n)
  BY <1>7, IncrLenInv, CatprintfInv
<1>8. CASE \E t \in SdsTexts(SdsChars) : catfmt_piece(t)
  BY <1>8, FmtPieceInv
<1>9. CASE \E cset \in SUBSET SdsBytes : sdstrim(cset)
  BY <1>9, TrimInv
<1>10. CASE \E start, end \in (-SdsMaxLen)..SdsMaxLen : Cut(start, end)
  BY <1>10, RangeInv
<1>11. CASE \E a, b \in SdsBytes : MapChars([c \in SdsChars |-> IF c = a THEN b ELSE c])
  BY <1>11, MapInv
<1> QED
  BY <1>1, <1>2, <1>3, <1>4, <1>5, <1>6, <1>7, <1>8, <1>9, <1>10, <1>11 DEF SdsNext

\* Whatever calls of sds.c come one after the other, the string stays within its block and
\* its header is wide enough for its lengths: for every width of the headers.
THEOREM StringsWithin == SdsSpec => []SdsWithin
<1>1. SdsInit => SdsInv /\ FmtOnString
  BY SdsAssumption DEF SdsInit, SdsInv, FmtOnString, NoString
<1>2. SdsInv /\ FmtOnString /\ [SdsNext]_sdsVars => (SdsInv /\ FmtOnString)'
  <2> SUFFICES ASSUME SdsInv, FmtOnString, [SdsNext]_sdsVars PROVE SdsInv' /\ FmtOnString'
    OBVIOUS
  <2>1. CASE SdsNext
    BY <2>1, SdsStep, FmtOnStringStep
  <2>2. CASE UNCHANGED sdsVars
    BY <2>2 DEF sdsVars, SdsInv, FmtOnString, Fits
  <2> QED
    BY <2>1, <2>2
<1>3. SdsInv => SdsWithin
  <2> SUFFICES ASSUME SdsInv, sds.block > 0
      PROVE /\ sds.len <= sds.alloc /\ sds.alloc < SdsLimit[sds.type]
            /\ SdsHdr[sds.type] + sds.alloc + 1 <= sds.block
            /\ SdsHdr[sds.type] + Len(sds.buf) = sds.block
    BY DEF SdsWithin
  <2>1. Fits(sds)
    BY DEF SdsInv
  <2>2. SdsHdr[sds.type] \in Nat
    BY <2>1, Limits DEF Fits
  <2> QED
    BY <2>1, <2>2 DEF Fits
<1> QED
  BY <1>1, <1>2, <1>3, PTL DEF SdsSpec

-----------------------------------------------------------------------------
(* The content.                                                             *)

\* What a byte of a block can be.
BlockBytes == SdsChars \cup {Garbage}

\* The bytes of s begin with the text w.
Begins(s, w) ==
  /\ s.buf \in Seq(BlockBytes) /\ w \in Seq(SdsChars)
  /\ \A i \in 1..Len(w) : s.buf[i] = w[i]

\* The first len bytes of s are the text w.
Holds(s, w) == Begins(s, w) /\ Len(w) = s.len

Terminated(s) == s.buf[s.len + 1] = NUL

\* The inductive invariant: while sdscatfmt runs there is no terminator.
TextInv ==
  sds.block > 0 => /\ Holds(sds, want)
                   /\ fmt = -1 => Terminated(sds)

\* The bytes after a write within the block.
LEMMA Written ==
  ASSUME NEW s, Fits(s), s.buf \in Seq(BlockBytes), NEW o \in Nat, NEW t \in Seq(BlockBytes),
         o + Len(t) <= Len(s.buf)
  PROVE  /\ Put(s, o, t).buf \in Seq(BlockBytes)
         /\ \A i \in 1..Len(s.buf) :
              Put(s, o, t).buf[i] = IF o < i /\ i <= o + Len(t) THEN t[i - o] ELSE s.buf[i]
<1> DEFINE r == Put(s, o, t)
           b == [i \in 1..Len(s.buf) |-> IF o < i /\ i <= o + Len(t) THEN t[i - o] ELSE s.buf[i]]
<1>1. Len(s.buf) \in Nat /\ Len(t) \in Nat
  BY DEF Fits
<1>2. r.buf = b
  BY <1>1 DEF Put
<1>3. \A i \in 1..Len(s.buf) : b[i] \in BlockBytes
  <2> SUFFICES ASSUME NEW i \in 1..Len(s.buf) PROVE b[i] \in BlockBytes
    OBVIOUS
  <2>1. CASE o < i /\ i <= o + Len(t)
    <3>1. i - o \in 1..Len(t)
      BY <1>1, <2>1
    <3>2. t[i - o] \in BlockBytes
      BY <3>1
    <3> QED
      BY <2>1, <3>2
  <2>2. CASE ~(o < i /\ i <= o + Len(t))
    BY <2>2
  <2> QED
    BY <2>1, <2>2
<1>4. b \in [1..Len(s.buf) -> BlockBytes]
  BY <1>3
<1>6. \A i \in 1..Len(s.buf) : b[i] = IF o < i /\ i <= o + Len(t) THEN t[i - o] ELSE s.buf[i]
  OBVIOUS
<1> HIDE DEF b, r
<1>5. b \in Seq(BlockBytes)
  BY <1>1, <1>4, FunctionIsSequence
<1>7. r.buf \in Seq(BlockBytes)
  BY <1>2, <1>5
<1>8. \A i \in 1..Len(s.buf) : r.buf[i] = IF o < i /\ i <= o + Len(t) THEN t[i - o] ELSE s.buf[i]
  BY <1>2, <1>6, Zenon
<1> QED
  BY <1>7, <1>8, Zenon DEF r

\* A text of characters is one of bytes.
LEMMA CharsAreBytes ==
  ASSUME NEW t \in Seq(SdsChars)
  PROVE  t \in Seq(BlockBytes)
BY DEF BlockBytes

\* The length is set to that of the text which the bytes begin with.
LEMMA CutTo ==
  ASSUME NEW s, Fits(s), NEW w, Begins(s, w), Len(w) <= s.alloc
  PROVE  Holds(sdssetlen(s, Len(w)), w)
<1>1. Len(w) \in Nat /\ sdssetlen(s, Len(w)).buf = s.buf
  BY DEF Begins, sdssetlen
<1>2. sdssetlen(s, Len(w)).len = Len(w)
  BY <1>1, SetLength
<1> QED
  BY <1>1, <1>2 DEF Holds, Begins

\* The terminator is written behind the text which the bytes begin with.
LEMMA EndedAfter ==
  ASSUME NEW s, Fits(s), NEW w, Begins(s, w), Len(w) <= s.alloc
  PROVE  Holds(Ended(s, Len(w)), w) /\ Terminated(Ended(s, Len(w)))
<1> DEFINE n == Len(w)
           z == <<NUL>>
           q == Put(s, n, z)
<1>1. s.alloc \in Nat /\ Len(s.buf) \in Nat /\ s.alloc + 1 <= Len(s.buf)
  BY DEF Fits
<1>2. n \in Nat /\ s.buf \in Seq(BlockBytes) /\ w \in Seq(SdsChars)
      /\ \A i \in 1..n : s.buf[i] = w[i]
  BY DEF Begins
<1>3. Len(z) = 1 /\ z \in Seq(BlockBytes) /\ z[1] = NUL
  BY DEF BlockBytes, SdsChars
<1> HIDE DEF n, z
<1>4. n + Len(z) <= Len(s.buf) /\ Len(z) \in Nat
  BY <1>1, <1>2, <1>3 DEF n
<1>5. /\ q.buf \in Seq(BlockBytes)
      /\ \A i \in 1..Len(s.buf) : q.buf[i] = IF n < i /\ i <= n + Len(z) THEN z[i - n] ELSE s.buf[i]
  BY <1>2, <1>3, <1>4, Written
<1>6. Fits(q) /\ q.alloc = s.alloc
  BY <1>2, <1>4, WriteWithin
<1> HIDE DEF q
<1>7. q.buf[n + 1] = NUL
  <2>1. n + 1 \in 1..Len(s.buf) /\ n < n + 1 /\ n + 1 <= n + Len(z) /\ (n + 1) - n = 1
    BY <1>1, <1>2, <1>3, <1>4
  <2>2. q.buf[n + 1] = z[(n + 1) - n]
    BY <1>5, <2>1
  <2> QED
    BY <1>3, <2>1, <2>2
<1>8. ASSUME NEW i \in 1..n PROVE q.buf[i] = w[i]
  <2>1. i \in 1..Len(s.buf) /\ ~(n < i)
    BY <1>1, <1>2, <1>3, <1>4
  <2>2. q.buf[i] = s.buf[i]
    BY <1>5, <2>1
  <2> QED
    BY <1>2, <2>2
<1>9. Begins(q, w)
  BY <1>2, <1>5, <1>8 DEF Begins, n
<1>10. Holds(sdssetlen(q, n), w)
  BY <1>6, <1>9, CutTo DEF n
<1>11. Ended(s, n) = sdssetlen(q, n)
  BY DEF Ended, q, z
<1>12. Ended(s, n).buf = q.buf
  BY <1>11 DEF sdssetlen
<1>13. Ended(s, n).len = n
  BY <1>10, <1>11 DEF Holds, n
<1>14. Terminated(Ended(s, n))
  BY <1>7, <1>12, <1>13 DEF Terminated
<1> QED
  BY <1>10, <1>11, <1>14 DEF n

\* A text written behind the text that is there.
LEMMA Extended ==
  ASSUME NEW s, Fits(s), NEW w, Holds(s, w), NEW t \in Seq(SdsChars), s.len + Len(t) <= s.alloc
  PROVE  /\ Fits(Put(s, s.len, t)) /\ Put(s, s.len, t).alloc = s.alloc
         /\ Put(s, s.len, t).block = s.block
         /\ Begins(Put(s, s.len, t), w \o t)
         /\ Len(w \o t) = s.len + Len(t)
<1> DEFINE p == Put(s, s.len, t)
<1>1. /\ s.len \in Nat /\ s.alloc \in Nat /\ Len(s.buf) \in Nat /\ s.alloc + 1 <= Len(s.buf)
      /\ Len(t) \in Nat
  BY DEF Fits
<1>2. s.buf \in Seq(BlockBytes) /\ w \in Seq(SdsChars) /\ Len(w) = s.len
      /\ \A i \in 1..s.len : s.buf[i] = w[i]
  BY DEF Holds, Begins
<1>3. s.len + Len(t) <= Len(s.buf)
  BY <1>1
<1>4. /\ p.buf \in Seq(BlockBytes)
      /\ \A i \in 1..Len(s.buf) :
           p.buf[i] = IF s.len < i /\ i <= s.len + Len(t) THEN t[i - s.len] ELSE s.buf[i]
  BY <1>1, <1>2, <1>3, CharsAreBytes, Written
<1>5. Fits(p) /\ p.alloc = s.alloc /\ p.block = s.block
  BY <1>1, <1>3, WriteWithin
<1> HIDE DEF p
<1>6. w \o t \in Seq(SdsChars) /\ Len(w \o t) = s.len + Len(t)
  BY <1>2
<1>7. ASSUME NEW i \in 1..(s.len + Len(t)) PROVE p.buf[i] = (w \o t)[i]
  <2>0. i \in Nat /\ i >= 1 /\ i <= s.len + Len(t)
    BY <1>1
  <2>1. i \in 1..Len(s.buf)
    BY <1>1, <1>3, <2>0
  <2>2. p.buf[i] = IF s.len < i /\ i <= s.len + Len(t) THEN t[i - s.len] ELSE s.buf[i]
    BY <1>4, <2>1
  <2>3. CASE i <= s.len
    <3>1. i \in 1..s.len /\ i \in 1..Len(w)
      BY <1>1, <1>2, <2>0, <2>3
    <3>2. p.buf[i] = s.buf[i]
      BY <1>1, <2>0, <2>2, <2>3
    <3>3. (w \o t)[i] = w[i]
      BY <1>2, <3>1
    <3> QED
      BY <1>2, <3>1, <3>2, <3>3
  <2>4. CASE i > s.len
    <3>1. (w \o t)[i] = t[i - s.len]
      BY <1>1, <1>2, <2>0, <2>4
    <3> QED
      BY <2>0, <2>2, <2>4, <3>1
  <2>5. i <= s.len \/ i > s.len
    BY <1>1, <2>0
  <2> QED
    BY <2>3, <2>4, <2>5
<1> QED
  BY <1>4, <1>5, <1>6, <1>7 DEF p, Begins

\* The string with its terminator in a block of m bytes, and nothing behind it.
Lead(s, m) == [i \in 1..m |-> IF i <= s.len + 1 THEN s.buf[i] ELSE Garbage]

\* A copy of the string and its terminator holds the same text.
LEMMA Copied ==
  ASSUME NEW s, Fits(s), NEW w, Holds(s, w), NEW m \in Nat, s.len + 1 <= m,
         NEW r, r.len = s.len, r.buf = Lead(s, m)
  PROVE  Holds(r, w) /\ (Terminated(s) => Terminated(r))
<1>1. s.len \in Nat /\ Len(s.buf) \in Nat /\ s.len + 1 <= Len(s.buf)
  BY DEF Fits
<1>2. s.buf \in Seq(BlockBytes) /\ w \in Seq(SdsChars) /\ Len(w) = s.len
      /\ \A i \in 1..s.len : s.buf[i] = w[i]
  BY DEF Holds, Begins
<1>3. ASSUME NEW i \in 1..m PROVE Lead(s, m)[i] \in BlockBytes
  <2>1. CASE i <= s.len + 1
    <3>1. i \in 1..Len(s.buf)
      BY <1>1, <2>1
    <3>2. s.buf[i] \in BlockBytes
      BY <1>2, <3>1
    <3> QED
      BY <2>1, <3>2 DEF Lead
  <2>2. CASE ~(i <= s.len + 1)
    BY <2>2 DEF Lead, BlockBytes
  <2> QED
    BY <2>1, <2>2
<1>4. Lead(s, m) \in [1..m -> BlockBytes]
  BY <1>3 DEF Lead
<1>5. r.buf \in Seq(BlockBytes)
  BY <1>4
<1>6. ASSUME NEW i \in 1..(s.len + 1) PROVE r.buf[i] = s.buf[i]
  BY <1>1 DEF Lead
<1>7. ASSUME NEW i \in 1..s.len PROVE r.buf[i] = w[i]
  BY <1>1, <1>2, <1>6
<1>8. r.buf[s.len + 1] = s.buf[s.len + 1]
  BY <1>1, <1>6
<1> QED
  BY <1>2, <1>5, <1>7, <1>8 DEF Holds, Begins, Terminated

\* Nothing of the text is behind the terminator.
LEMMA Forgotten ==
  ASSUME NEW s, Fits(s), NEW w, Holds(s, w)
  PROVE  Holds(Forget(s), w) /\ (Terminated(s) => Terminated(Forget(s)))
<1>1. s.len + 1 <= Len(s.buf) /\ Len(s.buf) \in Nat
  BY DEF Fits
<1>2. Forget(s).len = s.len /\ Forget(s).buf = Lead(s, Len(s.buf))
  BY DEF Forget, Lead
<1> QED
  BY <1>1, <1>2, Copied

\* A move to another header keeps the text.
LEMMA MovedHolds ==
  ASSUME NEW s, Fits(s), NEW n \in Nat, s.len <= n,
         NEW type \in SdsTypes, n < SdsLimit[type], type = 0 => n = s.len,
         NEW w, Holds(s, w)
  PROVE  /\ Holds(sdssetalloc(Moved(s, type, n), n), w)
         /\ Terminated(s) => Terminated(sdssetalloc(Moved(s, type, n), n))
<1> DEFINE r == sdssetalloc(Moved(s, type, n), n)
<1>1. s.len \in Nat /\ n + 1 \in Nat /\ s.len + 1 <= n + 1
  BY DEF Fits
<1>2. r.len = s.len
  BY MoveWithin
<1>3. r.buf = Lead(s, n + 1)
  BY DEF Lead, sdssetalloc, Moved
<1> QED
  BY <1>1, <1>2, <1>3, Copied

\* sdsMakeRoomFor keeps the text.
LEMMA RoomHolds ==
  ASSUME NEW s, Fits(s), NEW add \in Nat, s.len + add <= 2 * (SdsMaxLen + SdsMaxAdd),
         NEW w, Holds(s, w)
  PROVE  /\ Holds(sdsMakeRoomFor(s, add), w)
         /\ Terminated(s) => Terminated(sdsMakeRoomFor(s, add))
<1>1. s.len \in Nat /\ s.alloc \in Nat /\ s.len <= s.alloc
  BY DEF Fits
<1>2. CASE sdsavail(s) >= add
  BY <1>2 DEF sdsMakeRoomFor
<1>3. CASE ~(sdsavail(s) >= add)
  <2> DEFINE n == Room(s.len + add)
             type == IF sdsReqType(n) = 0 THEN 1 ELSE sdsReqType(n)
  <2>1. n \in Nat /\ s.len <= n /\ type \in SdsTypes /\ n < SdsLimit[type] /\ type # 0
    BY <1>1, Requested
  <2>2. sdsMakeRoomFor(s, add) = sdssetalloc(Moved(s, type, n), n)
    BY <1>3 DEF sdsMakeRoomFor
  <2> HIDE DEF n, type
  <2> QED
    BY <2>1, <2>2, MovedHolds
<1> QED
  BY <1>2, <1>3

\* Bytes moved to the front are a part of the text.
LEMMA KeptHolds ==
  ASSUME NEW s, Fits(s), NEW w, Holds(s, w), NEW first \in Nat, NEW end \in Int, end <= s.len
  PROVE  /\ first < end => Holds(Kept(s, first, end), SubSeq(w, first + 1, end))
         /\ ~(first < end) => Holds(Kept(s, first, end), <<>>)
         /\ Terminated(Kept(s, first, end))
<1> DEFINE n == IF first < end THEN end - first ELSE 0
           t == [i \in 1..n |-> s.buf[first + i]]
           v == IF first < end THEN SubSeq(w, first + 1, end) ELSE <<>>
<1>1. s.len \in Nat /\ s.alloc \in Nat /\ s.len <= s.alloc /\ Len(s.buf) \in Nat
      /\ s.alloc + 1 <= Len(s.buf)
  BY DEF Fits
<1>3. s.buf \in Seq(BlockBytes) /\ w \in Seq(SdsChars) /\ Len(w) = s.len
      /\ \A i \in 1..s.len : s.buf[i] = w[i]
  BY DEF Holds, Begins
<1>4. v \in Seq(SdsChars) /\ Len(v) = n /\ \A i \in 1..n : v[i] = w[first + i]
  <2>1. CASE first < end
    <3>1. v = SubSeq(w, first + 1, end) /\ n = end - first
      BY <2>1
    <3> HIDE DEF v, n
    <3>2. v \in Seq(SdsChars) /\ Len(v) = n
      BY <1>1, <1>3, <2>1, <3>1
    <3>3. ASSUME NEW i \in 1..n PROVE v[i] = w[first + i]
      <4>1. i \in Nat /\ i >= 1 /\ i <= end - first
        BY <2>1, <3>1
      <4>2. SubSeq(w, first + 1, end)[i] = w[(first + 1) + i - 1]
        BY <1>1, <1>3, <2>1, <4>1
      <4>3. (first + 1) + i - 1 = first + i
        BY <4>1
      <4> QED
        BY <3>1, <4>2, <4>3
    <3> QED
      BY <3>2, <3>3
  <2>2. CASE ~(first < end)
    BY <2>2
  <2> QED
    BY <2>1, <2>2
<1>5. ASSUME NEW i \in 1..n PROVE t[i] = v[i] /\ v[i] \in SdsChars
  <2>0. n \in Nat /\ first + n <= s.len
    BY <1>1
  <2> HIDE DEF n
  <2>1. i \in 1..Len(v) /\ first + i \in 1..s.len
    BY <1>1, <1>4, <2>0
  <2>2. t[i] = w[first + i]
    BY <1>3, <2>1
  <2> QED
    BY <1>4, <2>1, <2>2
<1>6. n \in Nat /\ n <= s.alloc /\ n <= Len(s.buf)
  BY <1>1
<1> HIDE DEF n, v
<1>7. t \in Seq(BlockBytes) /\ Len(t) = n
  <2>1. t \in [1..n -> BlockBytes]
    BY <1>5 DEF BlockBytes
  <2> HIDE DEF t
  <2> QED
    BY <1>6, <2>1
<1>8. \A i \in 1..n : t[i] = v[i]
  BY <1>5
<1> HIDE DEF t
<1> DEFINE p == Put(s, 0, t)
<1>9. /\ p.buf \in Seq(BlockBytes)
      /\ \A i \in 1..Len(s.buf) : p.buf[i] = IF 0 < i /\ i <= 0 + Len(t) THEN t[i - 0] ELSE s.buf[i]
  BY <1>1, <1>3, <1>6, <1>7, Written
<1>10. Fits(p) /\ p.alloc = s.alloc
  BY <1>1, <1>6, <1>7, WriteWithin
<1> HIDE DEF p
<1>11. ASSUME NEW i \in 1..n PROVE p.buf[i] = v[i]
  <2>1. i \in 1..Len(s.buf) /\ 0 < i /\ i <= 0 + Len(t) /\ i - 0 = i
    BY <1>1, <1>6, <1>7
  <2>2. p.buf[i] = t[i - 0]
    BY <1>9, <2>1
  <2> QED
    BY <1>8, <2>1, <2>2
<1>12. Begins(p, v) /\ Len(v) = n
  BY <1>4, <1>9, <1>11 DEF Begins
<1>13. Holds(Ended(p, n), v) /\ Terminated(Ended(p, n))
  BY <1>6, <1>10, <1>12, EndedAfter
<1>14. Kept(s, first, end) = Ended(p, n)
  BY DEF Kept, p, t, n
<1> QED
  BY <1>13, <1>14 DEF v

-----------------------------------------------------------------------------
(* The content after every step.                                            *)

\* A call that ends with a terminated string that holds the text keeps the invariant.
LEMMA DoesHolds ==
  ASSUME NEW s, NEW text, Fits(s), Holds(s, text), Terminated(s), Does(s, text)
  PROVE  TextInv'
<1>1. Holds(Forget(s), text) /\ Terminated(Forget(s))
  BY Forgotten
<1>2. sds' = Forget(s) /\ want' = text
  BY DEF Does
<1>3. Holds(sds', want') /\ Terminated(sds')
  BY <1>1, <1>2
<1>4. Holds(sds, want)' /\ Terminated(sds)'
  BY <1>3 DEF Holds, Begins, Terminated
<1> QED
  BY <1>4 DEF TextInv

\* A call on an existing string finds its text.
LEMMA IdleHolds ==
  ASSUME SdsInv, TextInv, Idle
  PROVE  /\ Fits(sds) /\ Holds(sds, want) /\ Terminated(sds)
         /\ sds.len \in Nat /\ sds.len <= SdsMaxLen /\ sds.len <= sds.alloc /\ sds.alloc \in Nat
         /\ want \in Seq(SdsChars) /\ Len(want) = sds.len
         /\ SdsMaxLen \in Nat /\ SdsMaxAdd \in Nat
<1>1. Holds(sds, want) /\ Terminated(sds)
  BY DEF TextInv, Idle
<1> QED
  BY <1>1, IdleFits DEF Holds, Begins, Fits

\* The text is what sdsnewlen was given.
LEMMA NewText ==
  ASSUME NEW t \in SdsTexts(SdsChars), New(t), SdsInv
  PROVE  TextInv'
<1> DEFINE n == Len(t)
           type == IF n = 0 THEN 1 ELSE sdsReqType(n)
<1>1. n \in Nat /\ n <= SdsMaxLen /\ t \in Seq(SdsChars)
  BY TextLength DEF New
<1>2. n < SdsLimit[SdsWidest]
  BY <1>1, Limits, SdsAssumption
<1>3. n < SdsLimit[type]
  BY <1>1, <1>2, Required, Limits DEF SdsTypes
<1>4. sds' = sdsnewlen(t) /\ want' = t
  BY DEF New
<1>5. sds'.len = n /\ sds'.buf = Append(t, NUL)
  BY <1>3, <1>4 DEF sdsnewlen, Stored
<1> HIDE DEF type
<1>6. Append(t, NUL) \in Seq(BlockBytes)
  BY <1>1, CharsAreBytes DEF BlockBytes, SdsChars
<1>7. Append(t, NUL)[n + 1] = NUL /\ \A i \in 1..n : Append(t, NUL)[i] = t[i]
  BY <1>1
<1>8. Holds(sds', want') /\ Terminated(sds')
  BY <1>1, <1>4, <1>5, <1>6, <1>7 DEF Holds, Begins, Terminated
<1>9. Holds(sds, want)' /\ Terminated(sds)'
  BY <1>8 DEF Holds, Begins, Terminated
<1> QED
  BY <1>9 DEF TextInv

\* No string, no text.
LEMMA FreeText ==
  ASSUME sdsfree
  PROVE  TextInv'
BY DEF TextInv, sdsfree, NoString

\* sdsclear: the empty text.
LEMMA ClearText ==
  ASSUME SdsInv, TextInv, sdsclear
  PROVE  TextInv'
<1> DEFINE e == <<>>
<1>1. Idle
  BY DEF sdsclear, Does
<1>2. Fits(sds) /\ Holds(sds, want) /\ sds.alloc \in Nat
  BY <1>1, IdleHolds
<1>3. e \in Seq(SdsChars) /\ Len(e) = 0
  OBVIOUS
<1>4. Does(Ended(sds, 0), e)
  BY DEF sdsclear
<1> HIDE DEF e
<1>5. Begins(sds, e) /\ Len(e) <= sds.alloc
  BY <1>2, <1>3 DEF Holds, Begins
<1>6. Holds(Ended(sds, 0), e) /\ Terminated(Ended(sds, 0))
  BY <1>2, <1>3, <1>5, EndedAfter
<1>7. Fits(Ended(sds, 0))
  BY <1>2, EndWithin
<1> QED
  BY <1>4, <1>6, <1>7, DoesHolds

\* sdsMakeRoomFor changes no text.
LEMMA MakeRoomText ==
  ASSUME SdsInv, TextInv, NEW n \in 0..SdsMaxAdd, MakeRoomFor(n)
  PROVE  TextInv'
<1>1. Idle
  BY DEF MakeRoomFor, Does
<1>2. Fits(sds) /\ Holds(sds, want) /\ Terminated(sds) /\ n \in Nat
      /\ sds.len + n <= 2 * (SdsMaxLen + SdsMaxAdd)
  BY <1>1, IdleHolds
<1>3. Fits(sdsMakeRoomFor(sds, n))
  BY <1>2, RoomMade
<1>4. Holds(sdsMakeRoomFor(sds, n), want) /\ Terminated(sdsMakeRoomFor(sds, n))
  BY <1>2, RoomHolds
<1> QED
  BY <1>3, <1>4, DoesHolds DEF MakeRoomFor

\* sdsRemoveFreeSpace changes no text, whichever header the string ends up with.
LEMMA RemoveText ==
  ASSUME SdsInv, TextInv, RemoveFreeSpace
  PROVE  TextInv'
<1>1. Idle
  BY DEF RemoveFreeSpace, Does
<1>2. Fits(sds) /\ Holds(sds, want) /\ Terminated(sds) /\ sds.len \in Nat
  BY <1>1, IdleHolds
<1>3. CASE sdsavail(sds) = 0
  BY <1>2, <1>3, DoesHolds DEF RemoveFreeSpace, sdsRemoveFreeSpace
<1>4. CASE sdsavail(sds) # 0
  <2> DEFINE need == sdsReqType(sds.len)
             type == IF need > 1 THEN sds.type ELSE need
  <2>1. type \in SdsTypes /\ sds.len < SdsLimit[type]
    BY <1>1, Shrunk
  <2>2. sdsRemoveFreeSpace(sds) = sdssetalloc(Moved(sds, type, sds.len), sds.len)
    BY <1>4 DEF sdsRemoveFreeSpace
  <2> HIDE DEF type
  <2>3. Fits(sdsRemoveFreeSpace(sds))
    BY <1>2, <2>1, <2>2, MoveWithin
  <2>4. Holds(sdsRemoveFreeSpace(sds), want) /\ Terminated(sdsRemoveFreeSpace(sds))
    BY <1>2, <2>1, <2>2, MovedHolds
  <2> QED
    BY <2>3, <2>4, DoesHolds DEF RemoveFreeSpace
<1> QED
  BY <1>3, <1>4

\* A text behind the string, in room that was made for at least as much.
LEMMA Appended ==
  ASSUME SdsInv, TextInv, Idle, NEW n \in Nat, n <= SdsMaxAdd,
         NEW t \in Seq(SdsChars), Len(t) <= n
  PROVE  LET s == Ended(Put(sdsMakeRoomFor(sds, n), sds.len, t), sds.len + Len(t))
         IN  Fits(s) /\ Holds(s, want \o t) /\ Terminated(s)
<1> DEFINE r == sdsMakeRoomFor(sds, n)
           p == Put(r, sds.len, t)
           m == sds.len + Len(t)
<1>1. /\ Fits(sds) /\ Holds(sds, want) /\ sds.len \in Nat /\ Len(t) \in Nat /\ m \in Nat
      /\ sds.len + n <= 2 * (SdsMaxLen + SdsMaxAdd)
  BY IdleHolds
<1>2. Fits(r) /\ r.len = sds.len /\ sds.len + n <= r.alloc /\ Holds(r, want)
  BY <1>1, RoomMade, RoomHolds
<1> HIDE DEF r
<1>3. r.len + Len(t) <= r.alloc /\ m <= r.alloc
  BY <1>1, <1>2 DEF Fits
<1>4. Fits(p) /\ p.alloc = r.alloc /\ Begins(p, want \o t) /\ Len(want \o t) = m
  BY <1>2, <1>3, Extended
<1> HIDE DEF p, m
<1>5. Holds(Ended(p, m), want \o t) /\ Terminated(Ended(p, m))
  BY <1>3, <1>4, EndedAfter
<1>6. Fits(Ended(p, m))
  BY <1>1, <1>3, <1>4, EndWithin
<1> QED
  BY <1>5, <1>6 DEF p, r, m

\* sdsIncrLen counts the bytes that were written behind the end.
LEMMA IncrLenText ==
  ASSUME SdsInv, TextInv, NEW n \in 0..SdsMaxAdd, NEW t \in SdsTexts(SdsBytes), IncrLen(n, t)
  PROVE  TextInv'
<1>1. Idle /\ Len(t) <= n
  BY DEF IncrLen, Does
<1>2. n \in Nat /\ n <= SdsMaxAdd /\ t \in Seq(SdsChars)
  BY TextLength, SdsAssumption DEF SdsChars
<1> QED
  BY <1>1, <1>2, Appended, DoesHolds DEF IncrLen

\* sdscatlen: the text is longer by what was appended.
LEMMA CatText ==
  ASSUME SdsInv, TextInv, NEW t \in SdsTexts(SdsChars), Cat(t)
  PROVE  TextInv'
<1>1. Idle
  BY DEF Cat, Does
<1>2. Len(t) \in Nat /\ Len(t) <= SdsMaxAdd /\ t \in Seq(SdsChars)
  BY TextLength
<1>3. Fits(sdscatlen(sds, t)) /\ Holds(sdscatlen(sds, t), want \o t) /\ Terminated(sdscatlen(sds, t))
  BY <1>1, <1>2, Appended DEF sdscatlen
<1> QED
  BY <1>3, DoesHolds DEF Cat

\* sdscatvprintf: a buffer that is large enough holds the whole text.
LEMMA CatprintfText ==
  ASSUME SdsInv, TextInv, NEW t \in SdsTexts(SdsBytes), NEW n \in 0..SdsMaxAdd, Catprintf(t, n)
  PROVE  TextInv'
<1>1. PICK size \in Int : Fitted(t, size) /\ Does(sdscatlen(sds, Printed(t, size)), want \o t)
  BY DEF Catprintf
<1>2. Len(t) \in Nat /\ Len(t) <= SdsMaxAdd /\ t \in Seq(SdsChars)
  BY TextLength DEF SdsChars
<1>3. Printed(t, size) = t
  <2>1. Len(t) < size
    BY <1>1, <1>2 DEF Fitted
  <2>2. Printed(t, size) = [i \in 1..Len(t) |-> t[i]]
    BY <2>1 DEF Printed
  <2> QED
    BY <1>2, <2>2
<1>4. Idle
  BY <1>1 DEF Does
<1>5. Fits(sdscatlen(sds, t)) /\ Holds(sdscatlen(sds, t), want \o t) /\ Terminated(sdscatlen(sds, t))
  BY <1>2, <1>4, Appended DEF sdscatlen
<1> QED
  BY <1>1, <1>3, <1>5, DoesHolds

\* A shorter text is what a terminator further ahead leaves.
LEMMA Shortened ==
  ASSUME NEW s, NEW w, Holds(s, w), s.len \in Nat, NEW n \in Nat, n <= s.len
  PROVE  /\ Begins(s, SubSeq(w, 1, n)) /\ Len(SubSeq(w, 1, n)) = n
<1>1. s.buf \in Seq(BlockBytes) /\ w \in Seq(SdsChars) /\ Len(w) = s.len
      /\ \A i \in 1..s.len : s.buf[i] = w[i]
  BY DEF Holds, Begins
<1>2. SubSeq(w, 1, n) \in Seq(SdsChars) /\ Len(SubSeq(w, 1, n)) = n
  BY <1>1
<1>3. ASSUME NEW i \in 1..n PROVE SubSeq(w, 1, n)[i] = w[i]
  <2>1. SubSeq(w, 1, n)[i] = w[1 + i - 1]
    BY <1>1
  <2> QED
    BY <2>1
<1>4. ASSUME NEW i \in 1..n PROVE s.buf[i] = w[i]
  BY <1>1
<1> QED
  BY <1>1, <1>2, <1>3, <1>4 DEF Begins

\* sdsIncrLen with a negative increment cuts the end of the text off.
LEMMA ShortenText ==
  ASSUME SdsInv, TextInv, NEW n \in 0..SdsMaxAdd, Shorten(n)
  PROVE  TextInv'
<1> DEFINE m == sds.len - n
           v == SubSeq(want, 1, m)
<1>1. Idle /\ n <= sds.len
  BY DEF Shorten, Does
<1>2. /\ Fits(sds) /\ Holds(sds, want) /\ sds.len \in Nat /\ sds.alloc \in Nat /\ sds.len <= sds.alloc
      /\ Len(want) = sds.len
  BY <1>1, IdleHolds
<1>3. m \in Nat /\ m <= sds.len /\ m <= sds.alloc
  BY <1>1, <1>2
<1>4. Does(Ended(sds, m), v)
  BY <1>2 DEF Shorten
<1> HIDE DEF m
<1>5. Begins(sds, v) /\ Len(v) = m
  BY <1>2, <1>3, Shortened
<1> HIDE DEF v
<1>6. Holds(Ended(sds, m), v) /\ Terminated(Ended(sds, m))
  BY <1>2, <1>3, <1>5, EndedAfter
<1>7. Fits(Ended(sds, m))
  BY <1>2, <1>3, EndWithin
<1> QED
  BY <1>4, <1>6, <1>7, DoesHolds

\* sdsupdatelen: strlen finds the first NUL of the text, or its end.
LEMMA UpdateLenText ==
  ASSUME SdsInv, TextInv, sdsupdatelen
  PROVE  TextInv'
<1> DEFINE nul == {i \in 1..Len(want) : want[i] = NUL}
           P(i) == i + 1 \in nul /\ \A j \in nul : i < j
           cut == IF nul = {} THEN Len(want) ELSE CHOOSE i \in 0..Len(want) : P(i)
<1>1. PICK n \in 0..sds.len : Idle /\ IsStrlen(sds, n) /\ Does(sdssetlen(sds, n), SubSeq(want, 1, cut))
  BY DEF sdsupdatelen
<1>2. /\ Fits(sds) /\ Holds(sds, want) /\ sds.len \in Nat /\ sds.alloc \in Nat /\ sds.len <= sds.alloc
      /\ want \in Seq(SdsChars) /\ Len(want) = sds.len /\ Terminated(sds)
  BY <1>1, IdleHolds
<1>3. n \in Nat /\ n <= sds.len /\ n <= sds.alloc
  BY <1>2
<1>4. sds.buf[n + 1] = NUL /\ \A i \in 1..n : sds.buf[i] # NUL
  BY <1>1 DEF IsStrlen
<1>5. \A i \in 1..sds.len : sds.buf[i] = want[i]
  BY <1>2 DEF Holds, Begins
<1>6. \A j \in nul : n < j
  BY <1>2, <1>3, <1>4, <1>5
<1>7. cut = n
  <2>1. CASE n = sds.len
    <3>1. nul = {}
      BY <1>2, <1>6, <2>1
    <3> QED
      BY <1>2, <2>1, <3>1
  <2>2. CASE n < sds.len
    <3>1. n + 1 \in nul
      BY <1>2, <1>3, <1>4, <1>5, <2>2
    <3>2. n \in 0..Len(want) /\ P(n)
      BY <1>2, <1>3, <1>6, <3>1
    <3>3. ASSUME NEW i \in 0..Len(want), P(i) PROVE i = n
      <4>1. i + 1 \in nul /\ i < n + 1
        BY <3>1, <3>3
      <4>2. n < i + 1
        BY <1>6, <4>1
      <4> QED
        BY <1>2, <1>3, <4>1, <4>2
    <3> HIDE DEF P
    <3>4. (CHOOSE i \in 0..Len(want) : P(i)) = n
      BY <3>2, <3>3
    <3> QED
      BY <3>1, <3>4
  <2> QED
    BY <1>2, <1>3, <2>1, <2>2
<1> HIDE DEF cut
<1> DEFINE v == SubSeq(want, 1, n)
<1>8. Does(sdssetlen(sds, n), v)
  BY <1>1, <1>7
<1>9. Begins(sds, v) /\ Len(v) = n
  BY <1>2, <1>3, Shortened
<1> HIDE DEF v
<1>10. Fits(sdssetlen(sds, n)) /\ sdssetlen(sds, n).len = n /\ sdssetlen(sds, n).buf = sds.buf
  BY <1>2, <1>3, SetLength DEF sdssetlen
<1>11. Holds(sdssetlen(sds, n), v)
  BY <1>2, <1>3, <1>9, CutTo
<1>12. Terminated(sdssetlen(sds, n))
  BY <1>4, <1>10 DEF Terminated
<1> QED
  BY <1>8, <1>10, <1>11, <1>12, DoesHolds

\* sdsgrowzero: NULs up to the new length, and one behind it.
LEMMA GrowText ==
  ASSUME SdsInv, TextInv, NEW n \in 0..SdsMaxLen, sdsgrowzero(n)
  PROVE  TextInv'
<1> DEFINE add == n - sds.len
           zeros == [i \in 1..add |-> NUL]
           more == Append(zeros, NUL)
           r == sdsMakeRoomFor(sds, add)
           p == Put(r, sds.len, more)
<1>1. Idle /\ n > sds.len
  BY DEF sdsgrowzero, Does
<1>2. /\ Fits(sds) /\ Holds(sds, want) /\ sds.len \in Nat /\ n \in Nat /\ SdsMaxLen \in Nat
      /\ SdsMaxAdd \in Nat /\ want \in Seq(SdsChars) /\ Len(want) = sds.len
  BY <1>1, IdleHolds
<1>3. add \in Nat /\ sds.len + add = n /\ n <= 2 * (SdsMaxLen + SdsMaxAdd)
  BY <1>1, <1>2
<1>4. Fits(r) /\ n <= r.alloc /\ r.len = sds.len /\ Holds(r, want)
  BY <1>2, <1>3, RoomMade, RoomHolds
<1>5. Does(sdssetlen(p, n), want \o zeros)
  BY DEF sdsgrowzero
<1> HIDE DEF r, add
<1>6. zeros \in Seq(SdsChars) /\ Len(zeros) = add /\ \A i \in 1..add : zeros[i] = NUL
  <2>1. zeros \in [1..add -> SdsChars]
    BY DEF SdsChars
  <2>2. \A i \in 1..add : zeros[i] = NUL
    OBVIOUS
  <2> HIDE DEF zeros
  <2> QED
    BY <1>3, <2>1, <2>2
<1> HIDE DEF zeros
<1>7. /\ more \in Seq(SdsChars) /\ Len(more) = add + 1 /\ more[add + 1] = NUL
      /\ \A i \in 1..add : more[i] = zeros[i]
  BY <1>3, <1>6 DEF SdsChars
<1> HIDE DEF more
<1>8. r.alloc \in Nat /\ Len(r.buf) \in Nat /\ r.alloc + 1 <= Len(r.buf) /\ r.buf \in Seq(BlockBytes)
  BY <1>4 DEF Fits, Holds, Begins
<1>9. sds.len + Len(more) <= Len(r.buf) /\ Len(more) \in Nat
  <2>1. Len(more) = add + 1
    BY <1>7
  <2>2. sds.len + (add + 1) <= Len(r.buf) /\ add + 1 \in Nat
    BY <1>2, <1>3, <1>4, <1>8
  <2> QED
    BY <2>1, <2>2
<1>10. Fits(p) /\ p.alloc = r.alloc
  BY <1>2, <1>4, <1>9, WriteWithin
<1>11. /\ p.buf \in Seq(BlockBytes)
       /\ \A i \in 1..Len(r.buf) :
            p.buf[i] = IF sds.len < i /\ i <= sds.len + Len(more) THEN more[i - sds.len] ELSE r.buf[i]
  BY <1>2, <1>4, <1>7, <1>8, <1>9, CharsAreBytes, Written
<1> HIDE DEF p
<1>12. want \o zeros \in Seq(SdsChars) /\ Len(want \o zeros) = n
  BY <1>2, <1>3, <1>6
<1>13. ASSUME NEW i \in 1..n PROVE p.buf[i] = (want \o zeros)[i]
  <2>0. i \in Nat /\ i >= 1 /\ i <= n
    BY <1>2
  <2>1. i \in 1..Len(r.buf)
    BY <1>2, <1>4, <1>8, <2>0
  <2>2. p.buf[i] = IF sds.len < i /\ i <= sds.len + Len(more) THEN more[i - sds.len] ELSE r.buf[i]
    BY <1>11, <2>1
  <2>3. CASE i <= sds.len
    <3>1. p.buf[i] = r.buf[i]
      BY <1>2, <2>0, <2>2, <2>3
    <3>2. i \in 1..Len(want)
      BY <1>2, <2>0, <2>3
    <3>3. r.buf[i] = want[i]
      BY <1>4, <3>2 DEF Holds, Begins
    <3>4. (want \o zeros)[i] = want[i]
      BY <1>2, <1>6, <3>2
    <3> QED
      BY <3>1, <3>3, <3>4
  <2>4. CASE i > sds.len
    <3>1. i - sds.len \in 1..add /\ i <= sds.len + Len(more)
      BY <1>2, <1>3, <1>7, <2>0, <2>4
    <3>2. p.buf[i] = zeros[i - sds.len]
      BY <1>7, <2>2, <2>4, <3>1
    <3>3. (want \o zeros)[i] = zeros[i - sds.len]
      <4>1. i \in (Len(want) + 1)..(Len(want) + Len(zeros))
        BY <1>2, <1>3, <1>6, <2>0, <2>4
      <4> QED
        BY <1>2, <1>6, <4>1
    <3> QED
      BY <3>2, <3>3
  <2>5. i <= sds.len \/ i > sds.len
    BY <1>2, <2>0
  <2> QED
    BY <2>3, <2>4, <2>5
<1>14. p.buf[n + 1] = NUL
  <2>1. n + 1 \in 1..Len(r.buf) /\ sds.len < n + 1 /\ n + 1 <= sds.len + Len(more)
        /\ (n + 1) - sds.len = add + 1
    BY <1>1, <1>2, <1>3, <1>4, <1>7, <1>8
  <2>2. p.buf[n + 1] = more[(n + 1) - sds.len]
    BY <1>11, <2>1
  <2> QED
    BY <1>7, <2>1, <2>2
<1> DEFINE v == want \o zeros
<1>15. Begins(p, v) /\ Len(v) = n
  BY <1>11, <1>12, <1>13 DEF Begins
<1>16. Does(sdssetlen(p, n), v)
  BY <1>5
<1> HIDE DEF v
<1>17. Fits(sdssetlen(p, n)) /\ sdssetlen(p, n).len = n /\ sdssetlen(p, n).buf = p.buf
  BY <1>2, <1>4, <1>10, SetLength DEF sdssetlen
<1>18. Holds(sdssetlen(p, n), v)
  BY <1>4, <1>10, <1>15, CutTo
<1>19. Terminated(sdssetlen(p, n))
  BY <1>14, <1>17 DEF Terminated
<1> QED
  BY <1>16, <1>17, <1>18, <1>19, DoesHolds

\* A text written over the front of a string.
LEMMA Overwritten ==
  ASSUME NEW s, Fits(s), s.buf \in Seq(BlockBytes), NEW t \in Seq(SdsChars), Len(t) <= s.alloc
  PROVE  /\ Fits(Put(s, 0, t)) /\ Put(s, 0, t).alloc = s.alloc /\ Put(s, 0, t).len = s.len
         /\ Begins(Put(s, 0, t), t)
         /\ \A i \in 1..Len(s.buf) : i > Len(t) => Put(s, 0, t).buf[i] = s.buf[i]
<1> DEFINE p == Put(s, 0, t)
<1>1. s.alloc \in Nat /\ Len(s.buf) \in Nat /\ s.alloc + 1 <= Len(s.buf) /\ Len(t) \in Nat
  BY DEF Fits
<1>2. 0 + Len(t) <= Len(s.buf)
  BY <1>1
<1>3. Fits(p) /\ p.alloc = s.alloc /\ p.len = s.len
  BY <1>1, <1>2, WriteWithin
<1>4. /\ p.buf \in Seq(BlockBytes)
      /\ \A i \in 1..Len(s.buf) : p.buf[i] = IF 0 < i /\ i <= 0 + Len(t) THEN t[i - 0] ELSE s.buf[i]
  BY <1>2, CharsAreBytes, Written
<1> HIDE DEF p
<1>5. ASSUME NEW i \in 1..Len(t) PROVE p.buf[i] = t[i]
  <2>1. i \in 1..Len(s.buf) /\ 0 < i /\ i <= 0 + Len(t) /\ i - 0 = i
    BY <1>1, <1>2
  <2>2. p.buf[i] = t[i - 0]
    BY <1>4, <2>1
  <2> QED
    BY <2>1, <2>2
<1>6. \A i \in 1..Len(s.buf) : i > Len(t) => p.buf[i] = s.buf[i]
  BY <1>1, <1>4
<1> QED
  BY <1>3, <1>4, <1>5, <1>6 DEF Begins, p

\* sdscpylen: the text is the one copied.
LEMMA CpyText ==
  ASSUME SdsInv, TextInv, NEW t \in SdsTexts(SdsChars), Cpy(t)
  PROVE  TextInv'
<1>1. Idle
  BY DEF Cpy, Does
<1>2. /\ Fits(sds) /\ Holds(sds, want) /\ sds.len \in Nat /\ sds.len <= SdsMaxLen
      /\ SdsMaxLen \in Nat /\ SdsMaxAdd \in Nat /\ sds.alloc \in Nat /\ sds.len <= sds.alloc
  BY <1>1, IdleHolds
<1>3. Len(t) \in Nat /\ Len(t) <= SdsMaxAdd /\ t \in Seq(SdsChars)
  BY TextLength
<1> DEFINE r == IF sds.alloc < Len(t) THEN sdsMakeRoomFor(sds, Len(t) - sds.len) ELSE sds
           p == Put(r, 0, t)
<1>4. Fits(r) /\ Len(t) <= r.alloc /\ Holds(r, want)
  <2>1. CASE sds.alloc < Len(t)
    <3>1. Len(t) - sds.len \in Nat /\ sds.len + (Len(t) - sds.len) = Len(t)
          /\ Len(t) <= 2 * (SdsMaxLen + SdsMaxAdd)
      BY <1>2, <1>3, <2>1
    <3> QED
      BY <1>2, <2>1, <3>1, RoomMade, RoomHolds
  <2>2. CASE ~(sds.alloc < Len(t))
    BY <1>2, <1>3, <2>2
  <2> QED
    BY <2>1, <2>2
<1> HIDE DEF r
<1>5. r.buf \in Seq(BlockBytes)
  BY <1>4 DEF Holds, Begins
<1>6. Fits(p) /\ p.alloc = r.alloc /\ Begins(p, t)
  BY <1>3, <1>4, <1>5, Overwritten
<1>7. sdscpylen(sds, t) = Ended(p, Len(t))
  BY DEF sdscpylen, r
<1> HIDE DEF p
<1>8. Holds(Ended(p, Len(t)), t) /\ Terminated(Ended(p, Len(t)))
  BY <1>4, <1>6, EndedAfter
<1>9. Fits(Ended(p, Len(t)))
  BY <1>3, <1>4, <1>6, EndWithin
<1> QED
  BY <1>7, <1>8, <1>9, DoesHolds DEF Cpy

\* sdsmapchars and its like: every character of the text is mapped.
LEMMA MapText ==
  ASSUME SdsInv, TextInv, NEW f \in [SdsChars -> SdsChars], MapChars(f)
  PROVE  TextInv'
<1> DEFINE t == [i \in 1..sds.len |-> f[sds.buf[i]]]
           v == [i \in 1..Len(want) |-> f[want[i]]]
<1>1. Idle
  BY DEF MapChars, Does
<1>2. /\ Fits(sds) /\ Holds(sds, want) /\ Terminated(sds) /\ sds.len \in Nat /\ sds.alloc \in Nat
      /\ sds.len <= sds.alloc /\ want \in Seq(SdsChars) /\ Len(want) = sds.len
  BY <1>1, IdleHolds
<1>3. sds.buf \in Seq(BlockBytes) /\ \A i \in 1..sds.len : sds.buf[i] = want[i]
  BY <1>2 DEF Holds, Begins
<1>4. t = v
  BY <1>2, <1>3
<1>5. Does(Put(sds, 0, v), v)
  BY <1>4 DEF MapChars
<1>6. v \in [1..sds.len -> SdsChars]
  BY <1>2
<1> HIDE DEF t, v
<1>7. v \in Seq(SdsChars) /\ Len(v) = sds.len
  BY <1>2, <1>6
<1> DEFINE p == Put(sds, 0, v)
<1>8. /\ Fits(p) /\ p.alloc = sds.alloc /\ p.len = sds.len /\ Begins(p, v)
      /\ \A i \in 1..Len(sds.buf) : i > Len(v) => p.buf[i] = sds.buf[i]
  BY <1>2, <1>3, <1>7, Overwritten
<1> HIDE DEF p
<1>9. sds.len + 1 \in 1..Len(sds.buf) /\ sds.len + 1 > Len(v)
  BY <1>2, <1>7 DEF Fits
<1>10. p.buf[sds.len + 1] = sds.buf[sds.len + 1]
  BY <1>8, <1>9
<1>11. Terminated(p)
  BY <1>2, <1>8, <1>10 DEF Terminated
<1>12. Holds(p, v)
  BY <1>7, <1>8 DEF Holds
<1> QED
  BY <1>5, <1>8, <1>11, <1>12, DoesHolds DEF p

\* sdstrim: where its two loops stop are the ends of the stripped text.
LEMMA TrimText ==
  ASSUME SdsInv, TextInv, NEW cset, sdstrim(cset)
  PROVE  TextInv'
<1> DEFINE bad == cset \cup {NUL}
           out == {i \in 1..Len(want) : want[i] \notin bad}
<1>1. PICK sp \in 0..sds.len, ep \in -1..(sds.len - 1) :
         Idle /\ Trimmed(sds, cset, sp, ep) /\ Does(Kept(sds, sp, ep + 1), Stripped(want, cset))
  BY DEF sdstrim
<1>2. /\ Fits(sds) /\ Holds(sds, want) /\ sds.len \in Nat
      /\ want \in Seq(SdsChars) /\ Len(want) = sds.len
  BY <1>1, IdleHolds
<1>3. sp \in Nat /\ sp <= sds.len /\ ep \in Int /\ ep + 1 \in Int /\ ep + 1 <= sds.len /\ ep < sds.len
  BY <1>2
<1>4. \A i \in 1..sds.len : sds.buf[i] = want[i]
  BY <1>2 DEF Holds, Begins
<1>5. /\ \A i \in 0..(sp - 1) : sds.buf[i + 1] \in bad
      /\ sp < sds.len => sds.buf[sp + 1] \notin bad
      /\ ep >= sp \/ ep = sds.len - 1
      /\ \A i \in (ep + 1)..(sds.len - 1) : sds.buf[i + 1] \in bad
      /\ ep > sp => sds.buf[ep + 1] \notin bad
  BY <1>1 DEF Trimmed
<1>6. Stripped(want, cset) = IF out = {} THEN <<>>
                             ELSE SubSeq(want, CHOOSE i \in out : \A j \in out : i <= j,
                                               CHOOSE i \in out : \A j \in out : j <= i)
  BY DEF Stripped
<1> HIDE DEF bad
<1>7. ASSUME NEW j \in out PROVE j \in 1..sds.len /\ sp + 1 <= j
  <2>1. j \in 1..sds.len /\ want[j] \notin bad /\ j \in Nat
    BY <1>2
  <2>2. sds.buf[j] \notin bad
    BY <1>4, <2>1
  <2>3. ~(j - 1 \in 0..(sp - 1))
    <3> SUFFICES ASSUME j - 1 \in 0..(sp - 1) PROVE FALSE
      OBVIOUS
    <3>1. sds.buf[(j - 1) + 1] \in bad
      BY <1>5
    <3>2. (j - 1) + 1 = j
      BY <2>1
    <3> QED
      BY <2>2, <3>1, <3>2
  <2> QED
    BY <1>3, <2>1, <2>3
<1>8. ASSUME NEW j \in out PROVE j <= ep + 1
  <2>1. j \in 1..sds.len /\ want[j] \notin bad /\ j \in Nat
    BY <1>2
  <2>2. sds.buf[j] \notin bad
    BY <1>4, <2>1
  <2>3. ~(j - 1 \in (ep + 1)..(sds.len - 1))
    <3> SUFFICES ASSUME j - 1 \in (ep + 1)..(sds.len - 1) PROVE FALSE
      OBVIOUS
    <3>1. sds.buf[(j - 1) + 1] \in bad
      BY <1>5
    <3>2. (j - 1) + 1 = j
      BY <2>1
    <3> QED
      BY <2>2, <3>1, <3>2
  <2> QED
    BY <1>2, <1>3, <2>1, <2>3
<1>9. Holds(Kept(sds, sp, ep + 1), Stripped(want, cset))
  <2>1. CASE sp = sds.len
    <3>1. out = {}
      BY <1>2, <1>7, <2>1
    <3>2. ~(sp < ep + 1)
      BY <1>2, <1>3, <2>1
    <3> QED
      BY <1>2, <1>3, <1>6, <3>1, <3>2, KeptHolds
  <2>2. CASE sp < sds.len
    <3>1. sp <= ep
      BY <1>2, <1>3, <1>5, <2>2
    <3>2. sds.buf[sp + 1] \notin bad /\ sds.buf[ep + 1] \notin bad
      BY <1>3, <1>5, <2>2, <3>1
    <3>3. sp + 1 \in 1..sds.len /\ ep + 1 \in 1..sds.len
      BY <1>2, <1>3, <2>2, <3>1
    <3>4. sp + 1 \in out /\ ep + 1 \in out
      BY <1>2, <1>4, <3>2, <3>3
    <3>5. \A j \in out : j \in Nat /\ sp + 1 <= j /\ j <= ep + 1
      BY <1>7, <1>8
    <3> HIDE DEF out
    <3>6. (CHOOSE i \in out : \A j \in out : i <= j) = sp + 1
      <4>1. ASSUME NEW i \in out, \A j \in out : i <= j PROVE i = sp + 1
        BY <1>3, <3>4, <3>5, <4>1
      <4> QED
        BY <3>4, <3>5, <4>1
    <3>7. (CHOOSE i \in out : \A j \in out : j <= i) = ep + 1
      <4>1. ASSUME NEW i \in out, \A j \in out : j <= i PROVE i = ep + 1
        BY <1>3, <3>4, <3>5, <4>1
      <4> QED
        BY <3>4, <3>5, <4>1
    <3>8. Stripped(want, cset) = SubSeq(want, sp + 1, ep + 1)
      BY <1>6, <3>4, <3>6, <3>7
    <3>9. sp < ep + 1
      BY <1>3, <3>1
    <3>10. Holds(Kept(sds, sp, ep + 1), SubSeq(want, sp + 1, ep + 1))
      BY <1>2, <1>3, <3>9, KeptHolds
    <3> QED
      BY <3>8, <3>10
  <2> QED
    BY <1>2, <1>3, <2>1, <2>2
<1>10. Terminated(Kept(sds, sp, ep + 1)) /\ Fits(Kept(sds, sp, ep + 1))
  BY <1>2, <1>3, KeptHolds, KeptFits
<1> QED
  BY <1>1, <1>9, <1>10, DoesHolds

\* Slice with the positions that sdsrange works out.
LEMMA SliceEnds ==
  ASSUME NEW t, Len(t) \in Nat, NEW start \in Int, NEW end \in Int
  PROVE  LET from == FromEnd(start, Len(t))
             to == FromEnd(end, Len(t))
             in == {p \in 0..(Len(t) - 1) : from <= p /\ p <= to}
         IN  Slice(t, start, end) =
               IF in = {} THEN <<>>
               ELSE SubSeq(t, 1 + from, CHOOSE p \in 1..Len(t) : p - 1 \in in /\ p \notin in)
<1> DEFINE pos(i) == IF i < 0 THEN (IF i < -Len(t) THEN 0 ELSE Len(t) + i) ELSE i
<1>1. ASSUME NEW i \in Int PROVE pos(i) = FromEnd(i, Len(t))
  BY DEF FromEnd
<1>2. pos(start) = FromEnd(start, Len(t)) /\ pos(end) = FromEnd(end, Len(t))
  BY <1>1
<1> DEFINE in == {p \in 0..(Len(t) - 1) : pos(start) <= p /\ p <= pos(end)}
<1>3. Slice(t, start, end) =
        IF in = {} THEN <<>>
        ELSE SubSeq(t, 1 + pos(start), CHOOSE p \in 1..Len(t) : p - 1 \in in /\ p \notin in)
  BY DEF Slice
<1> HIDE DEF pos
<1> QED
  BY <1>2, <1>3

\* sdsrange: the bytes it moves are the slice between the two indexes.
LEMMA RangeText ==
  ASSUME SdsInv, TextInv, NEW start \in Int, NEW end \in Int, Cut(start, end)
  PROVE  TextInv'
<1>1. Idle
  BY DEF Cut, Does
<1>2. /\ Fits(sds) /\ Holds(sds, want) /\ Terminated(sds) /\ sds.len \in Nat
      /\ want \in Seq(SdsChars) /\ Len(want) = sds.len
  BY <1>1, IdleHolds
<1> DEFINE from == FromEnd(start, sds.len)
           to == FromEnd(end, sds.len)
           first == IF from < sds.len THEN from ELSE sds.len
           last == IF to < sds.len THEN to ELSE sds.len - 1
           in == {p \in 0..(Len(want) - 1) : from <= p /\ p <= to}
<1>3. from \in Nat /\ to \in Nat
  BY <1>2 DEF FromEnd
<1>4. Slice(want, start, end) =
        IF in = {} THEN <<>>
        ELSE SubSeq(want, 1 + from, CHOOSE p \in 1..Len(want) : p - 1 \in in /\ p \notin in)
  BY <1>2, SliceEnds, ZenonT(60)
<1>5. Does(sdsrange(sds, start, end), Slice(want, start, end))
  BY DEF Cut
<1>6. sdsrange(sds, start, end) = IF sds.len = 0 THEN sds ELSE Kept(sds, first, last + 1)
  BY DEF sdsrange
<1> HIDE DEF from, to
<1>7. CASE sds.len = 0
  <2>1. in = {} /\ want = <<>>
    BY <1>2, <1>7
  <2>2. Does(sds, want)
    BY <1>4, <1>5, <1>6, <1>7, <2>1
  <2> QED
    BY <1>2, <2>2, DoesHolds
<1>8. CASE sds.len # 0
  <2>1. first \in Nat /\ last + 1 \in Int /\ last + 1 <= sds.len /\ last \in Nat
    BY <1>2, <1>3, <1>8
  <2>2. Holds(Kept(sds, first, last + 1), Slice(want, start, end))
    <3>1. CASE first < last + 1
      <4>1. first = from /\ from <= last /\ from <= to
        BY <1>2, <1>3, <2>1, <3>1
      <4>2. ASSUME NEW p \in Int PROVE p \in in <=> from <= p /\ p <= last
        BY <1>2, <1>3, <2>1
      <4>3. last \in in /\ last + 1 \notin in /\ last + 1 \in 1..Len(want) /\ (last + 1) - 1 = last
        BY <1>2, <1>3, <2>1, <4>1, <4>2
      <4>4. ASSUME NEW p \in 1..Len(want), p - 1 \in in, p \notin in PROVE p = last + 1
        <5>1. p \in Int /\ p - 1 \in Int
          BY <1>2
        <5>2. from <= p - 1 /\ p - 1 <= last /\ ~(from <= p /\ p <= last)
          BY <4>2, <4>4, <5>1
        <5> QED
          BY <1>3, <2>1, <5>1, <5>2
      <4> HIDE DEF in, last, first
      <4>5. (CHOOSE p \in 1..Len(want) : p - 1 \in in /\ p \notin in) = last + 1
        BY <4>3, <4>4
      <4>6. Slice(want, start, end) = SubSeq(want, 1 + from, last + 1)
        BY <1>4, <4>3, <4>5
      <4>7. 1 + from = first + 1
        BY <1>3, <4>1
      <4>8. Holds(Kept(sds, first, last + 1), SubSeq(want, first + 1, last + 1))
        BY <1>2, <2>1, <3>1, KeptHolds
      <4> QED
        BY <4>6, <4>7, <4>8
    <3>2. CASE ~(first < last + 1)
      <4>1. in = {}
        BY <1>2, <1>3, <2>1, <3>2
      <4> HIDE DEF in, last, first
      <4>2. Slice(want, start, end) = <<>>
        BY <1>4, <4>1
      <4> QED
        BY <1>2, <2>1, <3>2, <4>2, KeptHolds
    <3> QED
      BY <3>1, <3>2
  <2> HIDE DEF first, last
  <2>3. Terminated(Kept(sds, first, last + 1)) /\ Fits(Kept(sds, first, last + 1))
    BY <1>2, <2>1, KeptHolds, KeptFits
  <2>4. Does(Kept(sds, first, last + 1), Slice(want, start, end))
    BY <1>5, <1>6, <1>8
  <2> QED
    BY <2>2, <2>3, <2>4, DoesHolds
<1> QED
  BY <1>7, <1>8

\* sdscatfmt makes room: the text stays, the terminator is no longer looked at.
LEMMA FmtStartText ==
  ASSUME SdsInv, TextInv, NEW n \in 0..SdsMaxAdd, catfmt_start(n)
  PROVE  TextInv'
<1>1. Idle /\ sds' = sdsMakeRoomFor(sds, sds.len + 2 * n) /\ fmt' = n /\ want' = want
  BY DEF catfmt_start
<1>2. /\ Fits(sds) /\ Holds(sds, want) /\ Terminated(sds) /\ sds.len \in Nat
      /\ sds.len <= SdsMaxLen /\ SdsMaxLen \in Nat /\ SdsMaxAdd \in Nat
  BY <1>1, IdleHolds
<1>3. sds.len + 2 * n \in Nat /\ sds.len + (sds.len + 2 * n) <= 2 * (SdsMaxLen + SdsMaxAdd)
  BY <1>2
<1>4. Holds(sds', want') /\ Terminated(sds')
  BY <1>1, <1>2, <1>3, RoomHolds
<1>5. Holds(sds, want)' /\ Terminated(sds)'
  BY <1>4 DEF Holds, Begins, Terminated
<1> QED
  BY <1>5 DEF TextInv

\* sdscatfmt: every piece is written behind the text, in the room made for it.
LEMMA FmtPieceText ==
  ASSUME SdsInv, TextInv, FmtOnString, NEW t \in SdsTexts(SdsChars), catfmt_piece(t)
  PROVE  TextInv'
<1> DEFINE one == IF sdsavail(sds) = 0 THEN sdsMakeRoomFor(sds, 1) ELSE sds
           r == IF sdsavail(one) < Len(t) THEN sdsMakeRoomFor(one, Len(t)) ELSE one
           v == want \o t
<1>1. /\ fmt \in Int /\ fmt > 0 /\ fmt <= SdsMaxAdd /\ fmt' = fmt - 1 /\ want' = v
      /\ sds' = sdssetlen(Put(r, sds.len, t), sds.len + Len(t))
  BY DEF catfmt_piece, SdsInv
<1>2. /\ Fits(sds) /\ Holds(sds, want) /\ sds.len \in Nat /\ sds.len <= SdsMaxLen
      /\ SdsMaxLen \in Nat /\ SdsMaxAdd \in Nat
  BY <1>1, SdsAssumption DEF SdsInv, TextInv, FmtOnString, Fits
<1>3. Len(t) \in Nat /\ Len(t) <= SdsMaxAdd /\ t \in Seq(SdsChars)
  BY TextLength
<1>4. Fits(one) /\ one.len = sds.len /\ Holds(one, want)
  <2>1. sds.len + 1 <= 2 * (SdsMaxLen + SdsMaxAdd)
    BY <1>1, <1>2
  <2>2. Fits(sdsMakeRoomFor(sds, 1)) /\ sdsMakeRoomFor(sds, 1).len = sds.len
        /\ Holds(sdsMakeRoomFor(sds, 1), want)
    BY <1>2, <2>1, RoomMade, RoomHolds
  <2> QED
    BY <1>2, <2>2
<1> HIDE DEF one
<1>5. Fits(r) /\ r.len = sds.len /\ Holds(r, want) /\ sds.len + Len(t) <= r.alloc
  <2>1. CASE sdsavail(one) < Len(t)
    <3>1. one.len + Len(t) <= 2 * (SdsMaxLen + SdsMaxAdd)
      BY <1>2, <1>3, <1>4
    <3>2. /\ Fits(sdsMakeRoomFor(one, Len(t))) /\ one.len + Len(t) <= sdsMakeRoomFor(one, Len(t)).alloc
          /\ sdsMakeRoomFor(one, Len(t)).len = one.len /\ Holds(sdsMakeRoomFor(one, Len(t)), want)
      BY <1>3, <1>4, <3>1, RoomMade, RoomHolds
    <3> QED
      BY <1>4, <2>1, <3>2
  <2>2. CASE ~(sdsavail(one) < Len(t))
    <3>1. one.len \in Nat /\ one.alloc \in Nat /\ one.len <= one.alloc
      BY <1>4 DEF Fits
    <3>2. one.len + Len(t) <= one.alloc
      BY <1>3, <2>2, <3>1 DEF sdsavail
    <3> QED
      BY <1>4, <2>2, <3>2
  <2> QED
    BY <2>1, <2>2
<1> HIDE DEF r
<1> DEFINE p == Put(r, sds.len, t)
<1>6. Fits(p) /\ p.alloc = r.alloc /\ Begins(p, v) /\ Len(v) = sds.len + Len(t)
  BY <1>3, <1>5, Extended
<1> HIDE DEF p, v
<1>7. Holds(sdssetlen(p, Len(v)), v)
  BY <1>5, <1>6, CutTo
<1>8. sds' = sdssetlen(p, Len(v))
  BY <1>1, <1>6 DEF p
<1>9. Holds(sds', want')
  BY <1>1, <1>7, <1>8
<1>10. Holds(sds, want)'
  BY <1>9 DEF Holds, Begins
<1> QED
  BY <1>1, <1>10 DEF TextInv

\* sdscatfmt ends: the terminator is back.
LEMMA FmtEndText ==
  ASSUME SdsInv, TextInv, FmtOnString, catfmt_end
  PROVE  TextInv'
<1> DEFINE q == Put(sds, sds.len, <<NUL>>)
<1>1. fmt \in Int /\ fmt >= 0 /\ sds' = Forget(q) /\ want' = want
  BY DEF catfmt_end, SdsInv
<1>2. Fits(sds) /\ Holds(sds, want) /\ sds.len \in Nat /\ sds.len <= sds.alloc /\ Len(want) = sds.len
  BY <1>1 DEF SdsInv, TextInv, FmtOnString, Fits, Holds
<1>3. Begins(sds, want) /\ Len(want) <= sds.alloc
  BY <1>2 DEF Holds
<1>4. Holds(Ended(sds, sds.len), want) /\ Terminated(Ended(sds, sds.len))
  BY <1>2, <1>3, EndedAfter
<1>5. sds.len + 1 <= Len(sds.buf) /\ Len(<<NUL>>) = 1
  BY <1>2 DEF Fits
<1>6. Fits(q) /\ q.len = sds.len
  BY <1>2, <1>5, WriteWithin
<1>7. Ended(sds, sds.len).buf = q.buf /\ Ended(sds, sds.len).len = q.len
  BY <1>2, <1>6, EndWithin DEF Ended, sdssetlen
<1> HIDE DEF q
<1>8. Holds(q, want) /\ Terminated(q)
  BY <1>4, <1>7 DEF Holds, Begins, Terminated
<1>9. Holds(sds', want') /\ Terminated(sds')
  BY <1>1, <1>6, <1>8, Forgotten
<1>10. Holds(sds, want)' /\ Terminated(sds)'
  BY <1>9 DEF Holds, Begins, Terminated
<1> QED
  BY <1>10 DEF TextInv

\* Every call of sds.c gives the text that it stands for.
LEMMA TextStep ==
  ASSUME SdsInv, TextInv, FmtOnString, SdsNext
  PROVE  TextInv'
<1>1. CASE \E t \in SdsTexts(SdsChars) : New(t)
  BY <1>1, NewText
<1>2. CASE sdsfree \/ sdsupdatelen \/ sdsclear
  BY <1>2, FreeText, UpdateLenText, ClearText
<1>3. CASE RemoveFreeSpace \/ catfmt_end
  BY <1>3, RemoveText, FmtEndText
<1>4. CASE \E n \in 0..SdsMaxAdd : MakeRoomFor(n) \/ Shorten(n) \/ catfmt_start(n)
  BY <1>4, MakeRoomText, ShortenText, FmtStartText
<1>5. CASE \E n \in 0..SdsMaxLen : sdsgrowzero(n)
  BY <1>5, GrowText
<1>6. CASE \E t \in SdsTexts(SdsChars) : Cat(t) \/ Cpy(t)
  BY <1>6, CatText, CpyText
<1>7. CASE \E t \in SdsTexts(SdsBytes), n \in 0..SdsMaxAdd : IncrLen(n, t) \/ Catprintf(t, n)
  BY <1>7, IncrLenText, CatprintfText
<1>8. CASE \E t \in SdsTexts(SdsChars) : catfmt_piece(t)
  BY <1>8, FmtPieceText
<1>9. CASE \E cset \in SUBSET SdsBytes : sdstrim(cset)
  BY <1>9, TrimText
<1>10. CASE \E start, end \in (-SdsMaxLen)..SdsMaxLen : Cut(start, end)
  BY <1>10, RangeText
<1>11. CASE \E a, b \in SdsBytes : MapChars([c \in SdsChars |-> IF c = a THEN b ELSE c])
  <2>1. PICK a \in SdsBytes, b \in SdsBytes : MapChars([c \in SdsChars |-> IF c = a THEN b ELSE c])
    BY <1>11
  <2> DEFINE f == [c \in SdsChars |-> IF c = a THEN b ELSE c]
  <2>2. f \in [SdsChars -> SdsChars]
    BY DEF SdsChars
  <2>3. MapChars(f)
    BY <2>1
  <2> HIDE DEF f
  <2> QED
    BY <2>2, <2>3, MapText
<1> QED
  BY <1>1, <1>2, <1>3, <1>4, <1>5, <1>6, <1>7, <1>8, <1>9, <1>10, <1>11 DEF SdsNext

\* Whatever calls of sds.c come one after the other, between two calls a string is the text
\* that they stand for, terminated: no growth, move or change of header loses a byte.
THEOREM StringsHold == SdsSpec => []SdsIsString
<1>1. SdsInit => SdsInv /\ FmtOnString /\ TextInv
  BY SdsAssumption DEF SdsInit, SdsInv, FmtOnString, NoString, TextInv
<1>2. SdsInv /\ FmtOnString /\ TextInv /\ [SdsNext]_sdsVars => (SdsInv /\ FmtOnString /\ TextInv)'
  <2> SUFFICES ASSUME SdsInv, FmtOnString, TextInv, [SdsNext]_sdsVars
      PROVE SdsInv' /\ FmtOnString' /\ TextInv'
    OBVIOUS
  <2>1. CASE SdsNext
    BY <2>1, SdsStep, FmtOnStringStep, TextStep
  <2>2. CASE UNCHANGED sdsVars
    BY <2>2 DEF sdsVars, SdsInv, FmtOnString, Fits, TextInv, Holds, Begins, Terminated
  <2> QED
    BY <2>1, <2>2
<1>3. SdsInv /\ TextInv => SdsIsString
  <2> SUFFICES ASSUME SdsInv, TextInv, fmt = -1, sds.block > 0
      PROVE SubSeq(sds.buf, 1, sds.len) = want /\ sds.buf[sds.len + 1] = NUL
    BY DEF SdsIsString
  <2>1. Idle
    BY DEF Idle
  <2>2. /\ Fits(sds) /\ Holds(sds, want) /\ Terminated(sds) /\ sds.len \in Nat
        /\ want \in Seq(SdsChars) /\ Len(want) = sds.len
    BY <2>1, IdleHolds
  <2>3. sds.buf \in Seq(BlockBytes) /\ \A i \in 1..sds.len : sds.buf[i] = want[i]
    BY <2>2 DEF Holds, Begins
  <2>4. sds.len <= Len(sds.buf)
    BY <2>2 DEF Fits
  <2> DEFINE u == SubSeq(sds.buf, 1, sds.len)
  <2>5. u \in Seq(BlockBytes) /\ Len(u) = sds.len
    BY <2>2, <2>3, <2>4
  <2>6. ASSUME NEW i \in 1..sds.len PROVE u[i] = want[i]
    <3>1. u[i] = sds.buf[1 + i - 1]
      BY <2>2, <2>3, <2>4
    <3>2. 1 + i - 1 = i
      BY <2>2
    <3> QED
      BY <2>3, <3>1, <3>2
  <2> HIDE DEF u
  <2>7. u = want
    BY <2>2, <2>5, <2>6
  <2> QED
    BY <2>2, <2>7 DEF u, Terminated
<1> QED
  BY <1>1, <1>2, <1>3, PTL DEF SdsSpec
===============================================================================
