------------------------------ MODULE MCStartup ------------------------------
(***************************************************************************)
(* For TLC: what the program does with what its user and its system give   *)
(* it.  A behaviour is one of the settings, of getopt, of the channel and  *)
(* bot arguments, of texts, of strings, of certificates or of the watchers *)
(* of its descriptors; the state of the others stands still.               *)
(***************************************************************************)
EXTENDS MCOptions, Getopt, Arguments, Certificates, Sds, Watchers, TLC

VARIABLE part

startupVars == <<part, vars, getoptVars, argVars, textVars, sdsVars, certVars, both>>

\* Operands, the end mark, and options that are whole, abbreviated, ambiguous or wrong.
WordsWritten ==
  {Operand("a"), Operand("b"), DashDash, Option(<<"ver">>, ""), Option(<<"quiet">>, "1"),
   Option(<<"port">>, ""), Option(<<"port">>, "1"), Option(<<"accept-all-">>, "")}

\* Header types with lengths that the strings of this instance pass through.
HeaderLimits == (0 :> 2) @@ (1 :> 4) @@ (2 :> 7) @@ (3 :> 9) @@ (4 :> 40)
HeaderSizes == (0 :> 1) @@ (1 :> 3) @@ (2 :> 5) @@ (3 :> 9) @@ (4 :> 17)

Chain(certs, self, expired, named) ==
  [certs |-> certs, selfSigned |-> self, expired |-> expired, named |-> named]
ChainsPresented ==
  {Chain(<<"s">>, TRUE, {}, FALSE), Chain(<<"l", "i">>, FALSE, {}, TRUE),
   Chain(<<"m", "r">>, TRUE, {"m", "r"}, TRUE), Chain(<<"l", "o">>, FALSE, {}, TRUE),
   Chain(<<"k", "o">>, FALSE, {}, FALSE)}
FilesInFolder == {<<"mine", ".crt", "r">>, <<".", ".pem", "s">>, <<"n1", ".pem", "u">>}

\* A part that stands still is in one of its initial states.
OptionsIdle ==
  /\ exists = FALSE /\ file = <<>> /\ argv = <<>> /\ pc = "config" /\ at = 0
  /\ cfg = Defaults /\ starts = 1 /\ settled = <<>>
GetoptIdle ==
  /\ words = <<>> /\ nargv = <<>> /\ optind = 1 /\ nonopt_start = -1 /\ nonopt_end = -1
  /\ seen = <<>> /\ operands = <<"reading">>
ArgIdle == argIn = [kind |-> "bots", text |-> <<>>] /\ argOut = Untried
TextIdle == textIn = [kind |-> "number", a |-> 0] /\ textOut = Untried
CertIdle ==
  /\ windows = FALSE /\ allowAllCerts = FALSE /\ folder = {} /\ folderExists = FALSE
  /\ running = FALSE /\ sslStarts = 0 /\ links = 0 /\ ssl_context = NoContext
  /\ link = NoLink /\ checks = <<>> /\ agreed = {} /\ remembered = {} /\ trusted = {}

StartupInit ==
  /\ BothInit
  /\ \/ part = "settings" /\ Init /\ GetoptIdle /\ ArgIdle /\ TextIdle /\ SdsInit /\ CertIdle
     \/ part = "getopt" /\ GetoptInit /\ OptionsIdle /\ ArgIdle /\ TextIdle /\ SdsInit /\ CertIdle
     \/ part = "arguments" /\ ArgInit /\ OptionsIdle /\ GetoptIdle /\ TextIdle /\ SdsInit /\ CertIdle
     \/ part = "texts" /\ TextInit /\ OptionsIdle /\ GetoptIdle /\ ArgIdle /\ SdsInit /\ CertIdle
     \/ part = "certificates" /\ CertInit /\ OptionsIdle /\ GetoptIdle /\ ArgIdle /\ TextIdle /\ SdsInit
     \/ /\ part \in {"strings", "watchers"}
        /\ SdsInit /\ OptionsIdle /\ GetoptIdle /\ ArgIdle /\ TextIdle /\ CertIdle

StartupNext ==
  /\ \/ /\ part = "settings" /\ Next
        /\ UNCHANGED <<getoptVars, argVars, textVars, sdsVars, certVars, both>>
     \/ /\ part = "getopt" /\ GetoptNext
        /\ UNCHANGED <<vars, argVars, textVars, sdsVars, certVars, both>>
     \/ /\ part = "arguments" /\ ArgNext
        /\ UNCHANGED <<vars, getoptVars, textVars, sdsVars, certVars, both>>
     \/ /\ part = "texts" /\ TextNext
        /\ UNCHANGED <<vars, getoptVars, argVars, sdsVars, certVars, both>>
     \/ /\ part = "strings" /\ SdsNext
        /\ UNCHANGED <<vars, getoptVars, argVars, textVars, certVars, both>>
     \/ /\ part = "certificates" /\ CertNext
        /\ UNCHANGED <<vars, getoptVars, argVars, textVars, sdsVars, both>>
     \/ /\ part = "watchers" /\ BothNext
        /\ UNCHANGED <<vars, getoptVars, argVars, textVars, sdsVars, certVars>>
  /\ UNCHANGED part

StartupSpec == StartupInit /\ [][StartupNext]_startupVars
===============================================================================
