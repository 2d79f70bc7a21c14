----------------------------- MODULE Certificates -----------------------------
(***************************************************************************)
(* TLS connections to the server and to bots: the context all of them      *)
(* share (initSslContext, ssl_init, libirc_new_dcc_session), the callback  *)
(* that decides about certificates (openssl_check_certificate_callback)    *)
(* and the folder in which it keeps the certificates the user trusts,      *)
(* which the next start of the program loads.                              *)
(*                                                                         *)
(* OpenSSL is external: it builds the chain up to a certificate of the     *)
(* store, and calls the callback for the problem it meets in building,     *)
(* then for a name that is not the server's, and then for every            *)
(* certificate, from the top down, once for a problem with its dates and   *)
(* once when it is good.  The build has HOSTNAME_VALIDATION, as that of    *)
(* the Makefile.                                                           *)
(***************************************************************************)
EXTENDS Integers, Sequences, FiniteSetsExt

CONSTANTS
  Chains,        \* [certs, selfSigned, expired, named]: what servers and bots present, own one
                 \* first; it is named if its own one is issued for the server that is asked for
  Authorities,   \* certificates that are those of an authority
  SystemStore,   \* certificates of the default paths
  RandomNames,   \* names createRandomNick makes up
  UserFiles,     \* files the user may have put into the folder: <<name, extension, certificate>>
  MaxSslStarts,  \* bound: starts of the program
  MaxLinks       \* bound: connections of one start

\* All certificates that are presented.
Certs == UNION {{c.certs[i] : i \in 1 .. Len(c.certs)} : c \in Chains}

\* A file that was cut off holds none of them; a random nick is no hidden file.
ASSUME CertificateAssumption ==
  /\ \A c \in Chains : c.certs \in Seq(Certs) /\ Len(c.certs) > 0
  /\ "cut off" \notin Certs /\ "." \notin RandomNames
  /\ MaxSslStarts \in Nat /\ MaxLinks \in Nat

VARIABLES
  windows,       \* the build
  allowAllCerts, \* ALLOW_ALL_CERTS_FLAG
  folder,        \* the folder of certificates: a set of <<name, extension, contents>>
  folderExists,
  running,       \* the program runs
  sslStarts, links,
  ssl_context,   \* NoContext, or what initSslContext made of it
  link,          \* the connection being made or last made
  checks,        \* the calls of the callback that OpenSSL still makes
  \* history
  agreed,        \* <<certificate, problem>> the user said yes to for this connection
  remembered,    \* certificates added since the program started
  trusted        \* certificates added at earlier starts

certVars == <<windows, allowAllCerts, folder, folderExists, running, sslStarts, links, ssl_context,
              link, checks, agreed, remembered, trusted>>

NoContext == [made |-> FALSE, verify |-> FALSE, store |-> {}]
NoLink == [state |-> "none", chain |-> <<>>, bot |-> FALSE]
NoProblem == "OK"
SelfSigned == {"SELF_SIGNED_CERT_IN_CHAIN", "DEPTH_ZERO_SELF_SIGNED_CERT"}
Untrusted == SelfSigned \cup {"UNABLE_TO_GET_ISSUER_CERT_LOCALLY"}

-----------------------------------------------------------------------------
(* The context.                                                             *)

is_pem_cert_file(file) == file[2] \in {".pem", ".crt", ".cer"}

\* Hidden files are loaded on Windows only.  PEM_read_X509 fails for a file cut off.
load_pems_from_dir_into_store ==
  IF ~folderExists THEN {}
  ELSE {f[3] : f \in {g \in folder : (windows \/ g[1] # ".") /\ is_pem_cert_file(g) /\ g[3] # "cut off"}}

\* Results of initSslContext: no context, one that was left half made, or one that is complete.
initSslContext ==
  {[ret |-> "ERR_SSL_INIT_FAILED", context |-> NoContext],
   [ret |-> "ERR_SSL_INIT_FAILED", context |-> [made |-> TRUE, verify |-> FALSE, store |-> {}]],
   [ret |-> "ERR_SSL_INIT_FAILED", context |-> [made |-> TRUE, verify |-> TRUE, store |-> SystemStore]],
   [ret |-> "0", context |-> [made |-> TRUE, verify |-> TRUE,
                              store |-> SystemStore \cup load_pems_from_dir_into_store]]}

isSslIntitialized == ssl_context.made

\* Mutant: a context that exists is used, complete or not.
usable_Any(outcome) == outcome.context.made

\* A context is used only if initSslContext succeeded; else the program ends.
usable(outcome) == outcome.ret = "0"

-----------------------------------------------------------------------------
(* OpenSSL.                                                                 *)

\* X509_V_FLAG_PARTIAL_CHAIN: any certificate of the store ends the chain.
Anchors(chain, store) == {i \in 1 .. Len(chain.certs) : chain.certs[i] \in store}
Built(chain, store) ==
  IF Anchors(chain, store) = {} THEN chain.certs ELSE SubSeq(chain.certs, 1, Min(Anchors(chain, store)))
BuildProblem(chain) ==
  IF ~chain.selfSigned THEN "UNABLE_TO_GET_ISSUER_CERT_LOCALLY"
  ELSE IF Len(chain.certs) = 1 THEN "DEPTH_ZERO_SELF_SIGNED_CERT" ELSE "SELF_SIGNED_CERT_IN_CHAIN"

Check(cert, problem) == [cert |-> cert, problem |-> problem]

\* The names of the chain's own certificate, if a host is set.
NameChecks(chain, host) ==
  IF host /\ ~chain.named THEN <<Check(chain.certs[1], "HOSTNAME_MISMATCH")>> ELSE <<>>

X509_verify_cert(chain, store, host) ==
  LET built == Built(chain, store)
      top == Len(built)
      own(i) == IF built[i] \in chain.expired
                THEN <<Check(built[i], "CERT_HAS_EXPIRED"), Check(built[i], NoProblem)>>
                ELSE <<Check(built[i], NoProblem)>>
      down[i \in 0 .. top] == IF i = 0 THEN <<>> ELSE own(i) \o down[i - 1]
  IN  (IF Anchors(chain, store) = {} THEN <<Check(built[top], BuildProblem(chain))>> ELSE <<>>)
        \o (NameChecks(chain, host) \o down[top])

-----------------------------------------------------------------------------

CertInit ==
  /\ windows \in BOOLEAN /\ allowAllCerts \in BOOLEAN
  /\ folder \in SUBSET UserFiles /\ folderExists \in BOOLEAN /\ (~folderExists => folder = {})
  /\ running = FALSE /\ sslStarts = 0 /\ links = 0
  /\ ssl_context = NoContext /\ link = NoLink /\ checks = <<>>
  /\ agreed = {} /\ remembered = {} /\ trusted = {}

StartProgram ==
  /\ ~running /\ sslStarts < MaxSslStarts
  /\ running' = TRUE /\ sslStarts' = sslStarts + 1 /\ links' = 0
  /\ ssl_context' = NoContext /\ link' = NoLink /\ checks' = <<>> /\ agreed' = {}
  /\ remembered' = {} /\ trusted' = trusted \cup remembered
  /\ UNCHANGED <<windows, allowAllCerts, folder, folderExists>>

\* X509_VERIFY_PARAM_set1_host: a bot has no name that could be checked.
host_checked(bot) == ~bot

\* irc_connect with SESSIONFL_SSL_CONNECTION, or an offer with SSEND: the first one makes the
\* context.  A connection to a bot sets the callback itself.
ssl_init ==
  /\ running /\ checks = <<>> /\ link.state # "handshake" /\ links < MaxLinks
  /\ links' = links + 1 /\ agreed' = {}
  /\ \E outcome \in IF isSslIntitialized THEN {[ret |-> "0", context |-> ssl_context]} ELSE initSslContext :
       /\ ssl_context' = outcome.context
       /\ \/ /\ usable(outcome)
             /\ \E chain \in Chains, bot \in BOOLEAN :
                  /\ link' = [state |-> "handshake", chain |-> chain, bot |-> bot]
                  /\ checks' = IF bot \/ outcome.context.verify
                               THEN X509_verify_cert(chain, outcome.context.store, host_checked(bot))
                               ELSE <<>>
             /\ UNCHANGED running
          \/ /\ ~usable(outcome)
             /\ running' = FALSE /\ link' = NoLink /\ UNCHANGED checks
  /\ UNCHANGED <<windows, allowAllCerts, folder, folderExists, sslStarts, remembered, trusted>>

\* Mutant: the name is not checked.
fresh_Any(name) == TRUE

\* file_exists in the loop that makes up a name.
fresh(name) == \A f \in folder : <<f[1], f[2]>> # <<name, ".pem">>

\* add_x509_cert_to_local_ca_folder.  mkdir, fopen and PEM_write_X509 may fail; fopen with "wb"
\* replaces what the file held.
add_x509_cert_to_local_ca_folder(cert) ==
  /\ folderExists' \in {folderExists, TRUE}
  /\ \E name \in RandomNames :
       /\ fresh(name)
       /\ LET others == {f \in folder : <<f[1], f[2]>> # <<name, ".pem">>}
          IN  \/ /\ folderExists' /\ folder' = others \cup {<<name, ".pem", cert>>}
                 /\ remembered' = remembered \cup {cert}
              \/ /\ folderExists' /\ folder' = others \cup {<<name, ".pem", "cut off">>}
                 /\ UNCHANGED remembered
              \/ UNCHANGED <<folder, remembered>>

get_ca_cert_of_chain(chain) == IF Len(chain) > 1 THEN chain[Len(chain)] ELSE "NULL"

\* ask_for_yes_via_console_input: fgets may meet the end of the input.
Inputs == {"y", "Yes", "yesterday", "EOF"}
to_lowercase(str) == IF str = "Yes" THEN "yes" ELSE str
ask_for_yes_via_console_input(input) == input # "EOF" /\ to_lowercase(input) \in {"y", "yes"}

\* What the user is asked to add, or nothing.
offered(check) ==
  LET ca_cert == get_ca_cert_of_chain(Built(link.chain, ssl_context.store))
  IN  IF check.problem \in SelfSigned THEN check.cert
      ELSE IF ca_cert # "NULL" /\ check.cert \in Authorities THEN ca_cert ELSE "NULL"

\* The next call of the callback.  The handshake goes on if it returns 1.
openssl_check_certificate_callback ==
  /\ running /\ link.state = "handshake" /\ checks # <<>>
  /\ LET check == Head(checks)
         verify_result == check.problem = NoProblem
         returns(r) == /\ link' = [link EXCEPT !.state = IF r THEN @ ELSE "failed"]
                       /\ checks' = IF r THEN Tail(checks) ELSE <<>>
     IN  \/ /\ verify_result \/ allowAllCerts
            /\ returns(TRUE)
            /\ UNCHANGED <<folder, folderExists, agreed, remembered>>
         \/ /\ ~verify_result /\ ~allowAllCerts
            /\ \E input \in Inputs :
                 IF ask_for_yes_via_console_input(input)
                 THEN /\ returns(TRUE)
                      /\ agreed' = agreed \cup {<<check.cert, check.problem>>}
                      /\ IF offered(check) # "NULL"
                         THEN add_x509_cert_to_local_ca_folder(offered(check))
                         ELSE UNCHANGED <<folder, folderExists, remembered>>
                 ELSE returns(FALSE) /\ UNCHANGED <<folder, folderExists, agreed, remembered>>
  /\ UNCHANGED <<windows, allowAllCerts, running, sslStarts, links, ssl_context, trusted>>

Established ==
  /\ running /\ link.state = "handshake" /\ checks = <<>>
  /\ link' = [link EXCEPT !.state = "up"]
  /\ UNCHANGED <<windows, allowAllCerts, folder, folderExists, running, sslStarts, links, ssl_context,
                 checks, agreed, remembered, trusted>>

ExitProgram ==
  /\ running /\ link.state # "handshake" /\ running' = FALSE
  /\ UNCHANGED <<windows, allowAllCerts, folder, folderExists, sslStarts, links, ssl_context, link,
                 checks, agreed, remembered, trusted>>

CertNext ==
  \/ StartProgram \/ ssl_init \/ openssl_check_certificate_callback \/ Established \/ ExitProgram

CertSpec == CertInit /\ [][CertNext]_certVars

-----------------------------------------------------------------------------
(* Properties.                                                              *)

\* Certificates of the files a user can have put there, and of the system.
Known == SystemStore \cup trusted \cup remembered \cup {f[3] : f \in folder}

\* Who is trusted: a connection is up only if each of its certificates is in date, the chain
\* ends at a certificate of the system, of the folder or that the user has added, and that of
\* the server is issued for the server that was asked for; or the user said yes to what is
\* wrong, or allows all certificates.  That holds whatever part of initSslContext failed, and
\* but for the name for bots as for the server.
TrustDecided ==
  (link.state = "up" /\ ~allowAllCerts) =>
    LET chain == link.chain
        used == Built(chain, ssl_context.store)
    IN  /\ Anchors(chain, Known) = {} =>
             \E p \in Untrusted : <<chain.certs[Len(chain.certs)], p>> \in agreed
        /\ \A i \in 1 .. Len(used) :
             used[i] \in chain.expired => <<used[i], "CERT_HAS_EXPIRED">> \in agreed
        /\ ~link.bot /\ ~chain.named => <<chain.certs[1], "HOSTNAME_MISMATCH">> \in agreed

\* The promise of the question ("add the certificate to your local trusted certificates"):
\* the user is not asked again, at a later start, to trust a chain with a certificate that
\* was written, whatever has been added since.
TrustKept ==
  \A i \in 1 .. Len(checks) :
    checks[i].problem \in Untrusted =>
      \A k \in 1 .. Len(link.chain.certs) : link.chain.certs[k] \notin trusted
===============================================================================
