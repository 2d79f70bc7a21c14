------------------------------ MODULE MCOptions ------------------------------
(***************************************************************************)
(* For TLC: the settings, with lines and options of every kind: written as *)
(* the documents say, misread, out of range and without a meaning.         *)
(***************************************************************************)
EXTENDS Options

Speed(n, s) == [number |-> n, suffix |-> s]

FileLines ==
  {Line("downloadDir", "other"), Line("logLevel", "quiet"), Line("logLevel", "info"),
   Line("allowAllCerts", "true"), Line("verifyChecksums", "true"),
   Line("confirmFileOffsets", "true"), Line("confirmFileOffsets", "false"),
   Line("maxTransferSpeed", Speed(3, "KByte")), Line("maxTransferSpeed", Speed(3, "")),
   Line("maxTransferSpeed", Speed(2, "TByte")), Line("maxTransferSpeed", Speed(1, "GByte")),
   Line("listenIp", "valid"), Line("listenIp", "invalid"), Line("listenPort", 65537),
   Line("nick", "ignored"), [key |-> "downloadDir", value |-> "a=b", fields |-> 3]}

Opt(k) == [key |-> k, value |-> ""]
OptWith(k, v) == [key |-> k, value |-> v]

CommandLine ==
  {Opt(k) : k \in {"quiet", "verbose", "warn", "checksum_verify", "ipv4", "ipv6",
                   "accept_all_nicks", "accept_all_certs", "dont_confirm_offsets"}}
  \cup {OptWith("port", 6697), OptWith("directory", "third"), OptWith("nick", "me"),
        OptWith("login", "identify"), OptWith("throttle", Speed(1, "MByte")),
        OptWith("throttle", Speed(1, "Mbyte")), OptWith("throttle", Speed(5, "PByte")),
        OptWith("delay", 70),
        OptWith("listen_ip", "valid"), OptWith("listen_ip", "invalid"),
        OptWith("listen_port", 44444)}
===============================================================================
