---------------------------- MODULE RequestsProofs ----------------------------
(***************************************************************************)
(* No bot is asked twice, and nothing is done before its turn, for every   *)
(* number of channels and bots, every login, delay and size of             *)
(* outgoing_buf, and however often the events come.                        *)
(*                                                                         *)
(* The parts of the invariants are predicates of a queue, so that what a   *)
(* command appended to the queue or taken from it does to them can be      *)
(* stated once for all actions.                                            *)
(***************************************************************************)
EXTENDS Requests, TLAPS

Names == {"JOIN", "PRIVMSG", "NICK", "USER", "UMODE", "LOGIN"}
Commands == Names \X Nat
Lines == {"ENDOFMOTD", "YOU_ARE_CONNECTED", "JOIN", "UMODE +r", "MODE +v"}

Has(q, x) == \E i \in 1 .. Len(q) : q[i] = x

\* r is q followed by the first n elements of m.
Grown(q, r, m, n) ==
  /\ n \in 0 .. Len(m) /\ Len(r) = Len(q) + n
  /\ \A i \in 1 .. Len(q) : r[i] = q[i]
  /\ \A i \in 1 .. n : r[Len(q) + i] = m[i]

NoRequest(m) == \A i \in 1 .. Len(m), d \in Downloads : m[i] # Msg(d)

-----------------------------------------------------------------------------
(* Commands and queues.                                                     *)

\* A command tells what it is.
LEMMA CommandsDiffer ==
  /\ \A c, d : Join(c) # Msg(d)
  /\ \A c : Join(c) # Other("NICK") /\ Join(c) # Other("USER") /\ Join(c) # Other("UMODE")
            /\ Join(c) # Other("LOGIN")
  /\ \A d : Msg(d) # Other("NICK") /\ Msg(d) # Other("USER") /\ Msg(d) # Other("UMODE")
            /\ Msg(d) # Other("LOGIN")
  /\ Other("NICK") # Other("USER") /\ Other("NICK") # Other("LOGIN")
  /\ Other("USER") # Other("LOGIN") /\ Other("UMODE") # Other("LOGIN") /\ Other("UMODE") # Other("USER")
  /\ \A c, d : Join(c) = Join(d) => c = d
  /\ \A c, d : Msg(c) = Msg(d) => c = d
BY DEF Join, Msg, Other

\* What the client sends is a sequence of commands.
LEMMA CommandTypes ==
  /\ join_channels \in Seq(Commands) /\ xdcc_requests \in Seq(Commands)
  /\ Len(join_channels) = NumChannels /\ Len(xdcc_requests) = NumDownloads
  /\ \A c \in Channels : join_channels[c] = Join(c)
  /\ \A d \in Downloads : xdcc_requests[d] = Msg(d)
  /\ Other("NICK") \in Commands /\ Other("USER") \in Commands
  /\ Other("UMODE") \in Commands /\ Other("LOGIN") \in Commands
<1>1. \A c \in Channels : Join(c) \in Commands
  BY DEF Join, Commands, Names, Channels
<1>2. \A d \in Downloads : Msg(d) \in Commands
  BY DEF Msg, Commands, Names, Downloads
<1>3. join_channels \in Seq(Commands) /\ Len(join_channels) = NumChannels
  BY <1>1, RequestsAssumption DEF join_channels, Channels
<1>4. xdcc_requests \in Seq(Commands) /\ Len(xdcc_requests) = NumDownloads
  BY <1>2, RequestsAssumption DEF xdcc_requests, Downloads
<1>5. /\ Other("NICK") \in Commands /\ Other("USER") \in Commands
      /\ Other("UMODE") \in Commands /\ Other("LOGIN") \in Commands
  BY DEF Other, Commands, Names
<1> QED
  BY <1>3, <1>4, <1>5 DEF join_channels, xdcc_requests

\* irc_send_raw appends the commands that find room.
LEMMA SentGrows ==
  ASSUME outq \in Seq(Commands), NEW m \in Seq(Commands)
  PROVE  /\ Sent(m) \in Seq(Commands)
         /\ \E n \in 0 .. Len(m) : Grown(outq, Sent(m), m, n)
<1> DEFINE free == Room - Len(outq)
           n == IF free < Len(m) THEN free ELSE Len(m)
<1>1. free \in Int /\ n \in Int /\ n <= Len(m) /\ Len(m) \in Nat /\ Len(outq) \in Nat
  BY RequestsAssumption
<1>2. CASE state # "CONNECTED"
  <2>1. Sent(m) = outq
    BY <1>2 DEF Sent
  <2>2. Grown(outq, outq, m, 0)
    BY <1>1 DEF Grown
  <2> QED
    BY <1>1, <2>1, <2>2
<1>3. CASE state = "CONNECTED" /\ n < 1
  <2>1. SubSeq(m, 1, n) = <<>>
    BY <1>1, <1>3
  <2>a. outq \o <<>> = outq
    OBVIOUS
  <2>b. Sent(m) = outq \o SubSeq(m, 1, n)
    BY <1>3 DEF Sent
  <2>2. Sent(m) = outq
    BY <2>a, <2>b, <2>1
  <2>3. Grown(outq, outq, m, 0)
    BY <1>1 DEF Grown
  <2> QED
    BY <1>1, <2>2, <2>3
<1>4. CASE state = "CONNECTED" /\ n >= 1
  <2>1. n \in 1 .. Len(m)
    BY <1>1, <1>4
  <2> DEFINE s == SubSeq(m, 1, n)
  <2>2. s \in Seq(Commands) /\ Len(s) = n /\ \A i \in 1 .. n : s[i] = m[i]
    BY <2>1
  <2>3. Sent(m) = outq \o s
    BY <1>4 DEF Sent
  <2> HIDE DEF s, n
  <2>4. Grown(outq, outq \o s, m, n)
    BY <2>1, <2>2 DEF Grown
  <2> QED
    BY <2>1, <2>2, <2>3, <2>4
<1> QED
  BY <1>1, <1>2, <1>3, <1>4

\* All of them, when nothing waits and there is room.
LEMMA SentAll ==
  ASSUME outq = <<>>, state = "CONNECTED", NEW m \in Seq(Commands), Len(m) <= Room
  PROVE  Sent(m) = m
BY RequestsAssumption DEF Sent

\* One sequence behind another.
LEMMA Joined ==
  ASSUME NEW S, NEW f \in Seq(S), NEW g \in Seq(S)
  PROVE  /\ f \o g \in Seq(S) /\ Len(f \o g) = Len(f) + Len(g)
         /\ \A i \in 1 .. Len(f) : (f \o g)[i] = f[i]
         /\ \A i \in 1 .. Len(g) : (f \o g)[Len(f) + i] = g[i]
OBVIOUS

\* Taking the first element.
LEMMA TailOf ==
  ASSUME NEW S, NEW q \in Seq(S), q # <<>>
  PROVE  /\ Tail(q) \in Seq(S) /\ Len(q) \in Nat /\ Len(q) > 0 /\ Len(Tail(q)) = Len(q) - 1
         /\ Head(q) = q[1] /\ \A i \in 1 .. Len(q) - 1 : Tail(q)[i] = q[i + 1]
OBVIOUS

-----------------------------------------------------------------------------
(* No bot is asked twice.                                                   *)

\* Of a queue of commands, of how often each bot was asked and of SENDED_FLAG: a request is
\* on its way or has arrived, not both, not twice, and not before the flag is set.
Once(q, a, s) ==
  /\ \A d \in Downloads : a[d] \in {0, 1} /\ (a[d] = 1 => s)
  /\ \A d \in Downloads, i \in 1 .. Len(q) : q[i] = Msg(d) => a[d] = 0 /\ s
  /\ \A d \in Downloads, i, j \in 1 .. Len(q) : q[i] = Msg(d) /\ q[j] = Msg(d) => i = j

\* Other commands may follow.
LEMMA OnceGrows ==
  ASSUME NEW q \in Seq(Commands), NEW r \in Seq(Commands), NEW m \in Seq(Commands),
         NEW n, Grown(q, r, m, n), NoRequest(m), NEW a, NEW s, Once(q, a, s)
  PROVE  Once(r, a, s)
<1>1. \A d \in Downloads, i \in 1 .. Len(r) : r[i] = Msg(d) => i \in 1 .. Len(q) /\ q[i] = Msg(d)
  <2> SUFFICES ASSUME NEW d \in Downloads, NEW i \in 1 .. Len(r), r[i] = Msg(d)
               PROVE i \in 1 .. Len(q) /\ q[i] = Msg(d)
    OBVIOUS
  <2>1. CASE i \in 1 .. Len(q)
    BY <2>1 DEF Grown
  <2>2. CASE i \notin 1 .. Len(q)
    <3>1. i - Len(q) \in 1 .. n /\ i - Len(q) \in 1 .. Len(m) /\ Len(q) + (i - Len(q)) = i
      BY <2>2 DEF Grown
    <3>2. r[i] = m[i - Len(q)]
      BY <3>1 DEF Grown
    <3> QED
      BY <3>1, <3>2 DEF NoRequest
  <2> QED
    BY <2>1, <2>2
<1> QED
  BY <1>1 DEF Once

\* The requests may follow, with other commands before them, if none was sent before.
LEMMA OnceAsks ==
  ASSUME NEW q \in Seq(Commands), NEW r \in Seq(Commands), NEW f \in Seq(Commands),
         NEW n, Grown(q, r, f \o xdcc_requests, n), NoRequest(f), NEW a, Once(q, a, FALSE)
  PROVE  Once(r, a, TRUE)
<1> DEFINE m == f \o xdcc_requests
<1>1. /\ Len(m) = Len(f) + NumDownloads /\ \A i \in 1 .. Len(f) : m[i] = f[i]
      /\ \A i \in 1 .. NumDownloads : m[Len(f) + i] = Msg(i)
  <2>1. xdcc_requests \in Seq(Commands) /\ Len(xdcc_requests) = NumDownloads
    BY CommandTypes
  <2>2. /\ Len(m) = Len(f) + Len(xdcc_requests)
        /\ \A i \in 1 .. Len(f) : m[i] = f[i]
        /\ \A i \in 1 .. Len(xdcc_requests) : m[Len(f) + i] = xdcc_requests[i]
    BY <2>1, Joined
  <2>3. \A i \in 1 .. NumDownloads : xdcc_requests[i] = Msg(i)
    BY CommandTypes DEF Downloads
  <2> QED
    BY <2>1, <2>2, <2>3
<1>2. \A d \in Downloads : a[d] = 0
  BY DEF Once
<1>3. ASSUME NEW d \in Downloads, NEW i \in 1 .. Len(r), r[i] = Msg(d)
      PROVE  i = Len(q) + Len(f) + d
  <2>1. CASE i \in 1 .. Len(q)
    BY <1>3, <2>1 DEF Grown, Once
  <2>2. CASE i \notin 1 .. Len(q)
    <3> DEFINE k == i - Len(q)
    <3>1. k \in 1 .. n /\ k \in 1 .. Len(m) /\ Len(q) + k = i
      BY <2>2 DEF Grown
    <3>2. m[k] = Msg(d)
      BY <1>3, <3>1 DEF Grown
    <3>3. k \notin 1 .. Len(f)
      BY <1>1, <3>2 DEF NoRequest
    <3> HIDE DEF k, m
    <3>4. k - Len(f) \in 1 .. NumDownloads /\ Len(f) + (k - Len(f)) = k
      BY <1>1, <3>1, <3>3, RequestsAssumption
    <3>5. m[k] = Msg(k - Len(f))
      BY <1>1, <3>4
    <3>6. k - Len(f) = d
      BY <3>2, <3>5, CommandsDiffer
    <3> QED
      BY <3>1, <3>4, <3>6
  <2> QED
    BY <2>1, <2>2
<1>4. \A d \in Downloads, i, j \in 1 .. Len(r) : r[i] = Msg(d) /\ r[j] = Msg(d) => i = j
  BY <1>3
<1> QED
  BY <1>2, <1>4 DEF Once

\* The server reads a command.
LEMMA OnceTail ==
  ASSUME NEW q \in Seq(Commands), q # <<>>, NEW a, NEW s, Once(q, a, s)
  PROVE  Once(Tail(q), a, s)
<1> DEFINE t == Tail(q)
<1>1. t \in Seq(Commands) /\ \A i \in 1 .. Len(t) : i + 1 \in 1 .. Len(q) /\ t[i] = q[i + 1]
  BY TailOf
<1> HIDE DEF t
<1>2. \A d \in Downloads, i \in 1 .. Len(t) : t[i] = Msg(d) => a[d] = 0 /\ s
  BY <1>1 DEF Once
<1>3. \A d \in Downloads, i, j \in 1 .. Len(t) : t[i] = Msg(d) /\ t[j] = Msg(d) => i = j
  <2> SUFFICES ASSUME NEW d \in Downloads, NEW i \in 1 .. Len(t), NEW j \in 1 .. Len(t),
                      t[i] = Msg(d), t[j] = Msg(d)
               PROVE  i = j
    OBVIOUS
  <2>1. /\ i + 1 \in 1 .. Len(q) /\ q[i + 1] = Msg(d)
        /\ j + 1 \in 1 .. Len(q) /\ q[j + 1] = Msg(d)
    BY <1>1
  <2>2. i + 1 = j + 1
    BY <2>1 DEF Once
  <2> QED
    BY <2>2, <1>1
<1> QED
  BY <1>2, <1>3 DEF Once, t

\* The server forwards a request: it does not wait any more.
LEMMA OnceForwarded ==
  ASSUME NEW q \in Seq(Commands), q # <<>>, NEW a \in [Downloads -> Nat], NEW s, Once(q, a, s),
         NEW d \in Downloads, Head(q) = Msg(d)
  PROVE  Once(Tail(q), [a EXCEPT ![d] = @ + 1], s)
<1> DEFINE t == Tail(q)
           b == [a EXCEPT ![d] = @ + 1]
<1>1. /\ t \in Seq(Commands) /\ 1 \in 1 .. Len(q) /\ q[1] = Msg(d)
      /\ \A i \in 1 .. Len(t) : i + 1 \in 1 .. Len(q) /\ t[i] = q[i + 1] /\ i + 1 # 1
  BY TailOf
<1>2. a[d] = 0 /\ s
  BY <1>1 DEF Once
<1>3. b[d] = 1 /\ \A e \in Downloads : e # d => b[e] = a[e]
  BY <1>2
<1>4. Once(t, a, s)
  BY OnceTail
<1>5. \A i \in 1 .. Len(t) : t[i] # Msg(d)
  BY <1>1 DEF Once
<1>6. \A e \in Downloads, i \in 1 .. Len(t) : t[i] = Msg(e) => e # d
  BY <1>5
<1> HIDE DEF t, b
<1> QED
  BY <1>2, <1>3, <1>4, <1>6 DEF Once, t, b

\* Every variable has its type.
RequestsTypeOK ==
  /\ login \in Logins /\ delay \in Delays
  /\ state \in {"CONNECTING", "CONNECTED"}
  /\ {motd, connectDone, sended, registered, identified} \subseteq BOOLEAN
  /\ now \in Nat /\ outq \in Seq(Commands) /\ inq \in Seq(Lines)
  /\ joined \subseteq Channels /\ asked \in [Downloads -> Nat] /\ noise \in Nat

\* The inductive invariant.
AskInv == RequestsTypeOK /\ Once(outq, asked, sended)

\* What a handler sends before the requests, or without them.
LEMMA HandlersSend ==
  /\ <<>> \in Seq(Commands) /\ NoRequest(<<>>)
  /\ join_channels \in Seq(Commands) /\ NoRequest(join_channels)
  /\ <<Other("UMODE")>> \in Seq(Commands) /\ NoRequest(<<Other("UMODE")>>)
  /\ send_login_command \in Seq(Commands) /\ NoRequest(send_login_command)
<1>1. NoRequest(<<>>)
  BY DEF NoRequest
<1>2. \A x \in {"UMODE", "LOGIN"} : <<Other(x)>> \in Seq(Commands) /\ NoRequest(<<Other(x)>>)
  BY CommandTypes, CommandsDiffer DEF NoRequest
<1>3. NoRequest(join_channels)
  BY CommandTypes, CommandsDiffer DEF NoRequest, Channels
<1>4. send_login_command \in {<<>>, <<Other("LOGIN")>>}
  BY DEF send_login_command
<1>5. <<>> \in Seq(Commands)
  OBVIOUS
<1>6. send_login_command \in Seq(Commands) /\ NoRequest(send_login_command)
  <2>1. CASE send_login_command = <<>>
    BY <2>1, <1>1, <1>5
  <2>2. CASE send_login_command = <<Other("LOGIN")>>
    BY <2>2, <1>2
  <2> QED
    BY <2>1, <2>2, <1>4
<1>7. <<Other("UMODE")>> \in Seq(Commands) /\ NoRequest(<<Other("UMODE")>>)
  BY <1>2
<1> QED
  BY <1>1, <1>3, <1>5, <1>6, <1>7, CommandTypes

\* A handler that sends only other commands.
LEMMA SendOnlyKeeps ==
  ASSUME AskInv, NEW m \in Seq(Commands), NoRequest(m), SendOnly(m), asked' = asked
  PROVE  outq' \in Seq(Commands) /\ sended' \in BOOLEAN /\ Once(outq, asked, sended)'
<1>1. outq' = Sent(m) /\ sended' = sended
  BY DEF SendOnly
<1>2. outq \in Seq(Commands) /\ sended \in BOOLEAN
  BY DEF AskInv, RequestsTypeOK
<1>3. Sent(m) \in Seq(Commands)
  BY <1>2, SentGrows
<1>4. PICK n \in 0 .. Len(m) : Grown(outq, Sent(m), m, n)
  BY <1>2, SentGrows
<1>5. Once(Sent(m), asked, sended)
  BY <1>2, <1>3, <1>4, OnceGrows DEF AskInv
<1> QED
  BY <1>1, <1>2, <1>3, <1>5

\* A handler that calls send_xdcc_requests.
LEMMA SendRequestsKeeps ==
  ASSUME AskInv, NEW m \in Seq(Commands), NoRequest(m), send_xdcc_requests(m), asked' = asked
  PROVE  outq' \in Seq(Commands) /\ sended' \in BOOLEAN /\ Once(outq, asked, sended)'
<1>2. outq \in Seq(Commands) /\ sended \in BOOLEAN
  BY DEF AskInv, RequestsTypeOK
<1>3. CASE sended = TRUE
  <2>1. SendOnly(m)
    BY <1>3 DEF send_xdcc_requests, SendOnly
  <2> QED
    BY <2>1, SendOnlyKeeps
<1>4. CASE sended = FALSE
  <2> DEFINE r == m \o xdcc_requests
  <2>1. r \in Seq(Commands)
    BY CommandTypes, Joined
  <2>2. outq' = Sent(r) /\ sended' = TRUE
    BY <1>4 DEF send_xdcc_requests
  <2> HIDE DEF r
  <2>3. Sent(r) \in Seq(Commands)
    BY <1>2, <2>1, SentGrows
  <2>4. PICK n \in 0 .. Len(r) : Grown(outq, Sent(r), r, n)
    BY <1>2, <2>1, SentGrows
  <2>5. Once(outq, asked, FALSE)
    BY <1>4 DEF AskInv
  <2>6. Once(Sent(r), asked, TRUE)
    BY <1>2, <2>3, <2>4, <2>5, OnceAsks DEF r
  <2> QED
    BY <2>2, <2>3, <2>6
<1> QED
  BY <1>2, <1>3, <1>4

\* The first command is read.
LEMMA ReadsKeeps ==
  ASSUME AskInv, NEW m, Reads(m)
  PROVE  /\ outq' \in Seq(Commands) /\ sended' = sended
         /\ asked' = asked => Once(outq, asked, sended)'
<1>1. outq \in Seq(Commands) /\ outq # <<>> /\ outq' = Tail(outq)
  BY DEF AskInv, RequestsTypeOK, Reads
<1>2. sended' = sended
  BY DEF Reads, client
<1>3. Once(Tail(outq), asked, sended)
  BY <1>1, OnceTail DEF AskInv
<1> QED
  BY <1>1, <1>2, <1>3, TailOf

\* Lines are taken from and put into inq.
LEMMA LinesKept ==
  ASSUME NEW q \in Seq(Lines)
  PROVE  /\ q # <<>> => Tail(q) \in Seq(Lines)
         /\ \A x \in Lines : Append(q, x) \in Seq(Lines)
         /\ q \o <<"ENDOFMOTD">> \in Seq(Lines)
         /\ q \o <<"YOU_ARE_CONNECTED", "ENDOFMOTD">> \in Seq(Lines)
         /\ q \o <<"ENDOFMOTD", "YOU_ARE_CONNECTED">> \in Seq(Lines)
<1>1. /\ <<"ENDOFMOTD">> \in Seq(Lines)
      /\ <<"YOU_ARE_CONNECTED", "ENDOFMOTD">> \in Seq(Lines)
      /\ <<"ENDOFMOTD", "YOU_ARE_CONNECTED">> \in Seq(Lines)
  <2>1. "ENDOFMOTD" \in Lines /\ "YOU_ARE_CONNECTED" \in Lines
    BY DEF Lines
  <2> QED
    BY <2>1
<1> QED
  BY <1>1

\* No handler sends a request twice.
LEMMA ClientAsksOnce == ASSUME AskInv, Client PROVE AskInv'
<1>1. CASE handle_connecting_state
  <2> DEFINE q == <<Other("NICK"), Other("USER")>>
  <2>1. q \in Seq(Commands) /\ NoRequest(q)
    BY CommandTypes, CommandsDiffer DEF NoRequest
  <2> HIDE DEF q
  <2>2. outq' = q /\ asked' = asked /\ sended' = sended
    BY <1>1 DEF handle_connecting_state, server, q
  <2>3. Once(q, asked, sended)
    BY <2>1 DEF AskInv, Once, NoRequest
  <2>4. RequestsTypeOK'
    BY <1>1, <2>1, <2>2 DEF handle_connecting_state, AskInv, RequestsTypeOK, cfg, server
  <2> QED
    BY <2>2, <2>3, <2>4 DEF AskInv
<1>2. CASE print_output_callback
  <2>1. outq' \in Seq(Commands) /\ sended' \in BOOLEAN /\ Once(outq, asked, sended)'
    BY <1>2, HandlersSend, SendRequestsKeeps DEF print_output_callback, server
  <2>2. RequestsTypeOK'
    BY <1>2, <2>1 DEF print_output_callback, AskInv, RequestsTypeOK, cfg, server
  <2> QED
    BY <2>1, <2>2 DEF AskInv
<1>3. ASSUME NEW line, Receives(line), motd' \in BOOLEAN, connectDone' \in BOOLEAN,
             \/ \E m \in Seq(Commands) : NoRequest(m) /\ (SendOnly(m) \/ send_xdcc_requests(m))
             \/ UNCHANGED <<outq, sended>>
      PROVE  AskInv'
  <2>1. /\ asked' = asked /\ inq # <<>> /\ inq' = Tail(inq) /\ login' = login /\ delay' = delay
        /\ state' = state /\ now' = now /\ registered' = registered /\ identified' = identified
        /\ joined' = joined /\ noise' = noise
    BY <1>3 DEF Receives, cfg, server
  <2>2. outq' \in Seq(Commands) /\ sended' \in BOOLEAN /\ Once(outq, asked, sended)'
    BY <1>3, <2>1, SendOnlyKeeps, SendRequestsKeeps DEF AskInv, RequestsTypeOK
  <2>3. inq' \in Seq(Lines)
    BY <2>1, LinesKept DEF AskInv, RequestsTypeOK
  <2>4. RequestsTypeOK'
    BY <1>3, <2>1, <2>2, <2>3 DEF AskInv, RequestsTypeOK
  <2> QED
    BY <2>2, <2>4 DEF AskInv
<1> DEFINE Sends == \E m \in Seq(Commands) : NoRequest(m) /\ (SendOnly(m) \/ send_xdcc_requests(m))
<1>4. on_connect_event => Sends /\ connectDone' \in BOOLEAN
  BY HandlersSend DEF on_connect_event
<1>5. {motd, connectDone} \subseteq BOOLEAN
  BY DEF AskInv, RequestsTypeOK
<1>6. CASE event_connect
  BY <1>3, <1>4, <1>5, <1>6 DEF event_connect
<1>7. CASE event_notice
  BY <1>3, <1>4, <1>5, <1>7 DEF event_notice
<1>8. CASE event_join
  <2>1. Sends
    BY <1>8, HandlersSend DEF event_join
  <2> QED
    BY <1>3, <1>5, <1>8, <2>1 DEF event_join
<1>9. CASE event_umode
  <2>1. Sends
    BY <1>9, HandlersSend DEF event_umode
  <2> QED
    BY <1>3, <1>5, <1>9, <2>1 DEF event_umode
<1>10. CASE event_mode
  <2>1. Sends
    BY <1>10, HandlersSend DEF event_mode
  <2> QED
    BY <1>3, <1>5, <1>10, <2>1 DEF event_mode
<1> QED
  BY <1>1, <1>2, <1>6, <1>7, <1>8, <1>9, <1>10 DEF Client

\* A request that reaches its bot has left the queue.
LEMMA ServerAsksOnce == ASSUME AskInv, Server PROVE AskInv'
<1>1. ASSUME NEW m, Reads(m), asked' = asked, inq' \in Seq(Lines), joined' \subseteq Channels,
             {registered', identified'} \subseteq BOOLEAN
      PROVE  AskInv'
  <2>1. outq' \in Seq(Commands) /\ Once(outq, asked, sended)'
    BY <1>1, ReadsKeeps
  <2>2. RequestsTypeOK'
    BY <1>1, <2>1 DEF Reads, AskInv, RequestsTypeOK, client, cfg
  <2> QED
    BY <2>1, <2>2 DEF AskInv
<1>2. /\ inq \in Seq(Lines) /\ joined \subseteq Channels
      /\ {registered, identified} \subseteq BOOLEAN /\ asked \in [Downloads -> Nat]
  BY DEF AskInv, RequestsTypeOK
<1>3. CASE ServerRegisters
  <2>1. inq' \in Seq(Lines)
    BY <1>2, <1>3, LinesKept DEF ServerRegisters
  <2> QED
    BY <1>1, <1>2, <1>3, <2>1 DEF ServerRegisters
<1>4. CASE ServerIdentifies
  <2>1. inq' \in Seq(Lines)
    BY <1>2, <1>4, LinesKept DEF ServerIdentifies, Lines
  <2> QED
    BY <1>1, <1>2, <1>4, <2>1 DEF ServerIdentifies
<1>5. CASE ServerJoins
  <2>1. PICK c \in Channels :
          /\ Reads(Join(c))
          /\ joined' = IF registered THEN joined \cup {c} ELSE joined
          /\ inq' = IF registered /\ c \notin joined THEN Append(inq, "JOIN") ELSE inq
          /\ UNCHANGED <<registered, identified, asked>>
    BY <1>5 DEF ServerJoins
  <2>2. inq' \in Seq(Lines)
    BY <1>2, <2>1, LinesKept DEF Lines
  <2>3. joined' \subseteq Channels
    BY <1>2, <2>1
  <2> QED
    BY <1>1, <1>2, <2>1, <2>2, <2>3
<1>6. CASE ServerForwards
  <2>1. PICK d \in Downloads :
          /\ Reads(Msg(d)) /\ asked' = [asked EXCEPT ![d] = @ + 1]
          /\ UNCHANGED <<inq, registered, identified, joined>>
    BY <1>6 DEF ServerForwards
  <2>2. outq \in Seq(Commands) /\ outq # <<>> /\ Head(outq) = Msg(d) /\ outq' = Tail(outq)
        /\ sended' = sended
    BY <2>1 DEF Reads, client, AskInv, RequestsTypeOK
  <2>3. Once(Tail(outq), [asked EXCEPT ![d] = @ + 1], sended)
    BY <1>2, <2>2, OnceForwarded DEF AskInv
  <2>4. outq' \in Seq(Commands) /\ asked' \in [Downloads -> Nat]
    BY <1>2, <2>1, <2>2, TailOf
  <2>5. RequestsTypeOK'
    BY <2>1, <2>4 DEF Reads, AskInv, RequestsTypeOK, client, cfg
  <2> QED
    BY <2>1, <2>2, <2>3, <2>5 DEF AskInv
<1>7. CASE ServerIgnores
  BY <1>1, <1>2, <1>7 DEF ServerIgnores
<1> QED
  BY <1>3, <1>4, <1>5, <1>6, <1>7 DEF Server

\* Time and the events of others do not ask.
LEMMA OthersAskNothing == ASSUME AskInv, Tick \/ Noise \/ Voice \/ UNCHANGED requestsVars PROVE AskInv'
<1>1. /\ outq' = outq /\ asked' = asked /\ sended' = sended
      /\ login' = login /\ delay' = delay /\ state' = state /\ motd' = motd
      /\ connectDone' = connectDone /\ registered' = registered /\ identified' = identified
      /\ joined' = joined
  BY DEF Tick, Noise, Voice, requestsVars, client, cfg, server
<1>2. now' \in Nat /\ noise' \in Nat
  <2>1. now \in Nat /\ noise \in Nat
    BY DEF AskInv, RequestsTypeOK
  <2>2. now' = now \/ now' = now + 1
    BY DEF Tick, Noise, Voice, requestsVars
  <2>3. noise' = noise \/ noise' = noise + 1
    BY DEF Tick, Noise, Voice, requestsVars, server
  <2> QED
    BY <2>1, <2>2, <2>3
<1>3. inq' \in Seq(Lines)
  <2>1. inq \in Seq(Lines)
    BY DEF AskInv, RequestsTypeOK
  <2>2. inq' = inq \/ \E x \in Lines : inq' = Append(inq, x)
    BY DEF Tick, Noise, Voice, requestsVars, Lines
  <2> QED
    BY <2>1, <2>2, LinesKept
<1> QED
  BY <1>1, <1>2, <1>3 DEF AskInv, RequestsTypeOK

\* At the start nothing is asked and nothing waits.
LEMMA InitAsk == ASSUME RequestsInit PROVE AskInv
<1>1. RequestsTypeOK
  <2>1. {motd, connectDone, sended, registered, identified} \subseteq BOOLEAN
    BY DEF RequestsInit
  <2>2. outq \in Seq(Commands) /\ inq \in Seq(Lines)
    BY DEF RequestsInit
  <2> QED
    BY <2>1, <2>2 DEF RequestsInit, RequestsTypeOK
<1>2. Once(outq, asked, sended)
  BY DEF RequestsInit, Once
<1> QED
  BY <1>1, <1>2 DEF AskInv

\* The invariant is inductive.
LEMMA NextAsk == ASSUME AskInv, [RequestsNext]_requestsVars PROVE AskInv'
BY ClientAsksOnce, ServerAsksOnce, OthersAskNothing DEF RequestsNext

\* Whatever events come, of whomever and however often, and however little of what the
\* client sends finds room: no bot is asked twice for the same package (xdccget.c,
\* send_xdcc_requests).
THEOREM AsksOnce == RequestsSpec => []AskedOnce
<1>1. AskInv => AskedOnce
  BY DEF AskInv, Once, AskedOnce
<1> QED
  BY <1>1, InitAsk, NextAsk, PTL DEF RequestsSpec
-----------------------------------------------------------------------------
(* Nothing before its turn.                                                 *)

\* Of a queue and the channels joined: channel c is joined, or will be before the server
\* reads the command at position j.
Coming(q, J, c, j) == c \in J \/ \E i \in 1 .. Len(q) : i < j /\ q[i] = Join(c)

\* The client has begun to join channels.
Started(q, J) == J # {} \/ \E i \in 1 .. Len(q), c \in Channels : q[i] = Join(c)

\* No channel was left out, and every request is behind all of them.
InOrder(q, J) ==
  /\ Started(q, J) => \A c \in Channels : Coming(q, J, c, Len(q) + 1)
  /\ \A j \in 1 .. Len(q), d \in Downloads :
       q[j] = Msg(d) => \A c \in Channels : Coming(q, J, c, j)

\* The steps before the first JOIN, without a delay.
Early ==
  \/ /\ state = "CONNECTING" /\ ~connectDone /\ outq = <<>>
  \/ /\ state = "CONNECTED" /\ ~registered /\ ~connectDone
     /\ outq \in {<<Other("NICK"), Other("USER")>>, <<Other("USER")>>}
  \/ /\ registered /\ ~connectDone /\ ~identified /\ outq = <<>>
  \/ /\ registered /\ connectDone /\ HasLogin /\ ~identified
     /\ outq \in {<<>>, <<Other("LOGIN")>>}
  \/ /\ registered /\ connectDone /\ HasLogin /\ identified /\ outq = <<>>

\* The lines on their way tell what the server has done.
LinesTrue ==
  /\ inq # <<>> => registered
  /\ Has(inq, "UMODE +r") => identified
  /\ Has(inq, "JOIN") \/ Has(inq, "MODE +v") => joined # {}

\* Registration, login and channels, in this order.
Steps ==
  /\ registered \/ outq # <<>> => state = "CONNECTED"
  /\ identified => registered /\ HasLogin
  /\ Has(outq, Other("LOGIN")) => registered /\ HasLogin
  /\ Started(outq, joined) => registered /\ (HasLogin => identified)

\* The inductive invariant.
TurnInv ==
  /\ AskInv /\ LinesTrue /\ Steps
  /\ delay = NoDelay =>
       IF Started(outq, joined) THEN InOrder(outq, joined) ELSE Early

\* Once all channels are coming, whatever follows is behind them.
LEMMA OrderGrows ==
  ASSUME NEW q \in Seq(Commands), NEW r \in Seq(Commands), NEW m \in Seq(Commands),
         NEW n, Grown(q, r, m, n), NEW J, Started(q, J), InOrder(q, J)
  PROVE  Started(r, J) /\ InOrder(r, J)
<1>1. /\ \A i \in 1 .. Len(q) : i \in 1 .. Len(r) /\ r[i] = q[i]
      /\ Len(q) \in Nat /\ Len(r) \in Nat /\ Len(q) <= Len(r)
  BY DEF Grown
<1>2. Started(r, J)
  BY <1>1 DEF Started
<1>3. ASSUME NEW c \in Channels, NEW j \in 1 .. Len(q) + 1, Coming(q, J, c, j),
             NEW k \in Nat, j <= k
      PROVE  Coming(r, J, c, k)
  BY <1>1, <1>3 DEF Coming
<1>4. \A c \in Channels : Coming(q, J, c, Len(q) + 1)
  BY DEF InOrder
<1>5. Len(q) + 1 \in 1 .. Len(q) + 1 /\ Len(r) + 1 \in Nat /\ Len(q) + 1 <= Len(r) + 1
  BY <1>1
<1>6. \A c \in Channels : Coming(r, J, c, Len(r) + 1)
  BY <1>3, <1>4, <1>5
<1>7. ASSUME NEW j \in 1 .. Len(r), NEW d \in Downloads, r[j] = Msg(d), NEW c \in Channels
      PROVE  Coming(r, J, c, j)
  <2>1. CASE j \in 1 .. Len(q)
    <3>1. Coming(q, J, c, j)
      BY <1>1, <1>7, <2>1 DEF InOrder
    <3> QED
      BY <1>1, <1>3, <2>1, <3>1
  <2>2. CASE j \notin 1 .. Len(q)
    BY <1>1, <1>3, <1>4, <1>5, <2>2
  <2> QED
    BY <2>1, <2>2
<1> QED
  BY <1>2, <1>6, <1>7 DEF InOrder

\* The server reads a command, and joins the channel if it is a JOIN.
LEMMA OrderTail ==
  ASSUME NEW q \in Seq(Commands), q # <<>>, NEW J, NEW K, J \subseteq K,
         \A c \in Channels : Head(q) = Join(c) => c \in K,
         Started(q, J), InOrder(q, J)
  PROVE  Started(Tail(q), K) /\ InOrder(Tail(q), K)
<1> DEFINE t == Tail(q)
<1>1. /\ Len(q) \in Nat /\ Len(q) > 0 /\ Len(t) = Len(q) - 1 /\ q[1] = Head(q)
      /\ \A i \in 1 .. Len(t) : t[i] = q[i + 1]
  BY TailOf
<1> HIDE DEF t
<1>2. ASSUME NEW c \in Channels, NEW i \in 1 .. Len(q), q[i] = Join(c)
      PROVE  c \in K \/ (i - 1 \in 1 .. Len(t) /\ t[i - 1] = Join(c))
  <2>1. CASE i = 1
    BY <1>1, <1>2, <2>1
  <2>2. CASE i # 1
    <3>1. i - 1 \in 1 .. Len(t) /\ (i - 1) + 1 = i
      BY <1>1, <2>2
    <3> QED
      BY <1>1, <1>2, <3>1
  <2> QED
    BY <2>1, <2>2
<1>3. Started(t, K)
  BY <1>2 DEF Started
<1>4. ASSUME NEW c \in Channels, NEW j \in Nat, Coming(q, J, c, j + 1)
      PROVE  Coming(t, K, c, j)
  <2>1. CASE c \in J
    BY <2>1 DEF Coming
  <2>2. CASE c \notin J
    <3>1. PICK i \in 1 .. Len(q) : i < j + 1 /\ q[i] = Join(c)
      BY <1>4, <2>2 DEF Coming
    <3>2. i - 1 < j
      BY <3>1, <1>1
    <3> QED
      BY <1>2, <3>1, <3>2 DEF Coming
  <2> QED
    BY <2>1, <2>2
<1>5. \A c \in Channels : Coming(t, K, c, Len(t) + 1)
  <2>1. Len(t) + 1 \in Nat /\ (Len(t) + 1) + 1 = Len(q) + 1
    BY <1>1
  <2>2. \A c \in Channels : Coming(q, J, c, Len(q) + 1)
    BY DEF InOrder
  <2> QED
    BY <1>4, <2>1, <2>2
<1>6. ASSUME NEW j \in 1 .. Len(t), NEW d \in Downloads, t[j] = Msg(d), NEW c \in Channels
      PROVE  Coming(t, K, c, j)
  <2>1. j \in Nat /\ j + 1 \in 1 .. Len(q) /\ q[j + 1] = Msg(d)
    BY <1>1, <1>6
  <2>2. Coming(q, J, c, j + 1)
    BY <2>1 DEF InOrder
  <2> QED
    BY <1>4, <2>1, <2>2
<1> QED
  BY <1>3, <1>5, <1>6 DEF InOrder, t

\* The channels alone are in order.
LEMMA OrderJoins == Started(join_channels, {}) /\ InOrder(join_channels, {})
<1>1. Len(join_channels) = NumChannels /\ \A c \in Channels : join_channels[c] = Join(c)
  BY CommandTypes
<1>2. Channels = 1 .. NumChannels /\ 1 \in Channels /\ NumChannels \in Nat
  BY RequestsAssumption DEF Channels
<1>3. Started(join_channels, {})
  BY <1>1, <1>2 DEF Started
<1>4. \A c \in Channels : Coming(join_channels, {}, c, Len(join_channels) + 1)
  BY <1>1, <1>2 DEF Coming
<1>5. \A j \in 1 .. Len(join_channels), d \in Downloads : join_channels[j] # Msg(d)
  BY <1>1, <1>2, CommandsDiffer
<1> QED
  BY <1>3, <1>4, <1>5 DEF InOrder

\* A request waits only after the channels.
LEMMA RequestStarted ==
  ASSUME NEW q \in Seq(Commands), NEW J, InOrder(q, J),
         NEW i \in 1 .. Len(q), NEW d \in Downloads, q[i] = Msg(d)
  PROVE  Started(q, J)
<1>1. 1 \in Channels
  BY RequestsAssumption DEF Channels
<1>2. Coming(q, J, 1, i)
  BY <1>1 DEF InOrder
<1> QED
  BY <1>1, <1>2 DEF Coming, Started

\* What is in a queue to which commands were appended.
LEMMA HasGrown ==
  ASSUME NEW q \in Seq(Commands), NEW r \in Seq(Commands), NEW m \in Seq(Commands),
         NEW n, Grown(q, r, m, n), NEW x, Has(r, x)
  PROVE  Has(q, x) \/ Has(m, x)
<1>1. PICK i \in 1 .. Len(r) : r[i] = x
  BY DEF Has
<1>2. CASE i \in 1 .. Len(q)
  BY <1>1, <1>2 DEF Grown, Has
<1>3. CASE i \notin 1 .. Len(q)
  <2>1. i - Len(q) \in 1 .. n /\ i - Len(q) \in 1 .. Len(m) /\ Len(q) + (i - Len(q)) = i
    BY <1>3 DEF Grown
  <2>2. r[i] = m[i - Len(q)]
    BY <2>1 DEF Grown
  <2> QED
    BY <1>1, <2>1, <2>2 DEF Has
<1> QED
  BY <1>2, <1>3

\* What is in a queue from which the first element was taken.
LEMMA HasTail ==
  ASSUME NEW S, NEW q \in Seq(S), q # <<>>
  PROVE  Has(q, Head(q)) /\ \A x : Has(Tail(q), x) => Has(q, x)
<1>1. Has(q, Head(q))
  BY TailOf DEF Has
<1>2. ASSUME NEW x, NEW i \in 1 .. Len(Tail(q)), Tail(q)[i] = x
      PROVE  i + 1 \in 1 .. Len(q) /\ q[i + 1] = x
  BY <1>2, TailOf
<1> QED
  BY <1>1, <1>2 DEF Has

\* What is in a queue to which one element was appended.
LEMMA HasAppend ==
  ASSUME NEW S, NEW q \in Seq(S), NEW y \in S, NEW x, Has(Append(q, y), x)
  PROVE  x = y \/ Has(q, x)
BY DEF Has

\* The queues of the steps before the first JOIN hold none.
LEMMA PlainQueues ==
  /\ ~Started(<<>>, {}) /\ ~Started(<<Other("USER")>>, {}) /\ ~Started(<<Other("LOGIN")>>, {})
  /\ ~Started(<<Other("NICK"), Other("USER")>>, {})
BY CommandsDiffer DEF Started

\* Before the first JOIN the queue is one of those.
LEMMA EarlyQueues ==
  ASSUME AskInv, ~Started(outq, joined), Early
  PROVE  joined = {} /\ outq \in {<<>>, <<Other("USER")>>, <<Other("LOGIN")>>,
                                   <<Other("NICK"), Other("USER")>>}
BY DEF Early, Started

\* A handler that sends the LOGIN command only with a login, and JOINs only after it.
LEMMA HandlerKeeps ==
  ASSUME TurnInv, NEW line, Receives(line), outq' \in Seq(Commands),
         NEW m \in Seq(Commands), NEW n, Grown(outq, outq', m, n),
         Has(m, Other("LOGIN")) => HasLogin,
         \A c \in Channels : Has(m, Join(c)) /\ HasLogin => identified
  PROVE  /\ LinesTrue' /\ Steps'
         /\ delay = NoDelay /\ Started(outq, joined) => Started(outq, joined)' /\ InOrder(outq, joined)'
<1>1. /\ state = "CONNECTED" /\ inq # <<>> /\ inq' = Tail(inq) /\ login' = login
      /\ delay' = delay /\ state' = state /\ registered' = registered
      /\ identified' = identified /\ joined' = joined
  BY DEF Receives, cfg, server
<1>2. outq \in Seq(Commands) /\ inq \in Seq(Lines)
  BY DEF TurnInv, AskInv, RequestsTypeOK
<1>3. LinesTrue'
  <2>1. \A x : Has(Tail(inq), x) => Has(inq, x)
    BY <1>1, <1>2, HasTail
  <2>2. \A x : Has(inq', x) => Has(inq, x)
    BY <2>1, <1>1
  <2>3. registered
    BY <1>1 DEF TurnInv, LinesTrue
  <2> QED
    BY <1>1, <2>2, <2>3 DEF TurnInv, LinesTrue
<1>4. registered
  BY <1>1 DEF TurnInv, LinesTrue
<1>5. Steps'
  <2>1. \A x : Has(outq', x) => Has(outq, x) \/ Has(m, x)
    BY <1>2, HasGrown
  <2>2. Has(outq', Other("LOGIN")) => HasLogin
    BY <2>1 DEF TurnInv, Steps
  <2>3. Started(outq', joined) => (HasLogin => identified)
    <3>1. CASE Started(outq, joined)
      BY <3>1 DEF TurnInv, Steps
    <3>2. CASE ~Started(outq, joined) /\ Started(outq', joined)
      <4>1. PICK c \in Channels : Has(outq', Join(c))
        BY <3>2 DEF Started, Has
      <4>2. ~Has(outq, Join(c))
        BY <3>2 DEF Started, Has
      <4> QED
        BY <2>1, <4>1, <4>2
    <3> QED
      BY <3>1, <3>2
  <2> QED
    BY <1>1, <1>4, <2>2, <2>3 DEF TurnInv, Steps, HasLogin
<1>6. ASSUME delay = NoDelay, Started(outq, joined)
      PROVE  Started(outq, joined)' /\ InOrder(outq, joined)'
  <2>1. InOrder(outq, joined)
    BY <1>6 DEF TurnInv
  <2>2. Started(outq', joined) /\ InOrder(outq', joined)
    BY <1>2, <1>6, <2>1, OrderGrows
  <2> QED
    BY <1>1, <2>2
<1> QED
  BY <1>3, <1>5, <1>6

\* The first handler of an end of the MOTD or of a notice: the login, or the channels.
LEMMA ConnectKeeps ==
  ASSUME Room >= NumChannels, TurnInv, AskInv', NEW line, Receives(line),
         on_connect_event \/ UNCHANGED <<connectDone, sended, outq>>
  PROVE  TurnInv'
<1>1. /\ state = "CONNECTED" /\ inq # <<>> /\ login' = login
      /\ delay' = delay /\ state' = state /\ registered' = registered
      /\ identified' = identified /\ joined' = joined
  BY DEF Receives, cfg, server
<1>2. registered
  BY <1>1 DEF TurnInv, LinesTrue
<1>3. outq \in Seq(Commands) /\ outq' \in Seq(Commands) /\ connectDone \in BOOLEAN
  BY DEF TurnInv, AskInv, RequestsTypeOK
<1>4. ASSUME NEW m \in Seq(Commands), outq' = Sent(m), Has(m, Other("LOGIN")) => HasLogin,
             \A c \in Channels : Has(m, Join(c)) /\ HasLogin => identified
      PROVE  /\ LinesTrue' /\ Steps'
             /\ delay = NoDelay /\ Started(outq, joined) =>
                  Started(outq, joined)' /\ InOrder(outq, joined)'
  <2>1. PICK n \in 0 .. Len(m) : Grown(outq, outq', m, n)
    BY <1>3, <1>4, SentGrows
  <2> QED
    BY <1>3, <1>4, <2>1, HandlerKeeps
<1>5. CASE outq' = outq /\ connectDone' = connectDone
  <2>1. Grown(outq, outq', <<>>, 0) /\ \A x : ~Has(<<>>, x)
    BY <1>3, <1>5 DEF Grown, Has
  <2>2. /\ LinesTrue' /\ Steps'
        /\ delay = NoDelay /\ Started(outq, joined) =>
             Started(outq, joined)' /\ InOrder(outq, joined)'
    BY <1>3, <2>1, HandlersSend, HandlerKeeps
  <2>3. Started(outq, joined)' <=> Started(outq, joined)
    BY <1>1, <1>5
  <2>4. Early => Early'
    BY <1>1, <1>5 DEF Early, HasLogin
  <2> QED
    BY <1>1, <2>2, <2>3, <2>4 DEF TurnInv
<1>6. CASE connectDone /\ on_connect_event
  <2>1. outq' = Sent(<<>>) /\ connectDone' = TRUE
    BY <1>6 DEF on_connect_event, SendOnly
  <2>2. Sent(<<>>) = outq
    <3>1. PICK n \in 0 .. Len(<<>>) : Grown(outq, Sent(<<>>), <<>>, n)
      BY <1>3, HandlersSend, SentGrows
    <3>2. Len(Sent(<<>>)) = Len(outq) /\ \A i \in 1 .. Len(outq) : Sent(<<>>)[i] = outq[i]
      BY <1>3, <3>1 DEF Grown
    <3> QED
      BY <1>3, <2>1, <3>2
  <2> QED
    BY <1>3, <1>5, <1>6, <2>1, <2>2
<1>7. CASE ~connectDone /\ HasLogin /\ on_connect_event
  <2> DEFINE m == send_login_command
  <2>1. outq' = Sent(m) /\ connectDone' = TRUE
    BY <1>7 DEF on_connect_event, SendOnly
  <2>2. m \in {<<>>, <<Other("LOGIN")>>} /\ m \in Seq(Commands)
    BY HandlersSend DEF send_login_command
  <2>3. \A c \in Channels : ~Has(m, Join(c))
    BY <2>2, CommandsDiffer DEF Has
  <2> HIDE DEF m
  <2>4. /\ LinesTrue' /\ Steps'
        /\ delay = NoDelay /\ Started(outq, joined) =>
             Started(outq, joined)' /\ InOrder(outq, joined)'
    BY <1>4, <1>7, <2>1, <2>2, <2>3
  <2>5. CASE delay = NoDelay /\ ~Started(outq, joined)
    <3>1. Early /\ joined = {}
      BY <2>5 DEF TurnInv, Started
    <3>2. outq = <<>> /\ ~identified
      BY <1>1, <1>2, <1>7, <3>1 DEF Early
    <3>3. Len(m) <= Room
      <4>1. Len(m) = 0 \/ Len(m) = 1
        <5>1. CASE m = <<>>
          BY <5>1
        <5>2. CASE m = <<Other("LOGIN")>>
          BY <5>2
        <5> QED
          BY <5>1, <5>2, <2>2
      <4>2. Room \in Nat /\ NumChannels \in Nat /\ NumChannels >= 1
        BY RequestsAssumption
      <4>3. 0 <= Room /\ 1 <= Room
        BY <4>2
      <4> QED
        BY <4>1, <4>3
    <3>4. outq' = m
      BY <1>1, <2>1, <2>2, <3>2, <3>3, SentAll
    <3>5. Early'
      BY <1>1, <1>2, <1>7, <2>1, <2>2, <3>2, <3>4 DEF Early, HasLogin
    <3>6. ~Started(outq, joined)'
      BY <1>1, <2>2, <3>1, <3>4, PlainQueues
    <3> QED
      BY <2>4, <3>5, <3>6 DEF TurnInv
  <2> QED
    BY <1>1, <2>4, <2>5 DEF TurnInv
<1>8. CASE ~connectDone /\ ~HasLogin /\ on_connect_event
  <2> DEFINE m == join_channels
  <2>1. outq' = Sent(m) /\ connectDone' = TRUE
    BY <1>8 DEF on_connect_event, SendOnly
  <2>2. m \in Seq(Commands) /\ Len(m) = NumChannels /\ ~Has(m, Other("LOGIN"))
    BY CommandTypes, CommandsDiffer DEF Has, Channels
  <2> HIDE DEF m
  <2>4. /\ LinesTrue' /\ Steps'
        /\ delay = NoDelay /\ Started(outq, joined) =>
             Started(outq, joined)' /\ InOrder(outq, joined)'
    BY <1>4, <1>8, <2>1, <2>2
  <2>5. CASE delay = NoDelay /\ ~Started(outq, joined)
    <3>1. Early /\ joined = {}
      BY <2>5 DEF TurnInv, Started
    <3>2. outq = <<>>
      BY <1>1, <1>2, <1>8, <3>1 DEF Early
    <3>4. outq' = m
      BY <1>1, <2>1, <2>2, <3>2, SentAll, RequestsAssumption
    <3>5. Started(outq, joined)' /\ InOrder(outq, joined)'
      BY <1>1, <3>1, <3>4, OrderJoins DEF m
    <3> QED
      BY <2>4, <3>5 DEF TurnInv
  <2> QED
    BY <1>1, <2>4, <2>5 DEF TurnInv
<1> QED
  BY <1>3, <1>5, <1>6, <1>7, <1>8

\* What event_join and event_mode send.
LEMMA UmodeOrRequest ==
  ASSUME NEW f, f = <<>> \/ f = <<Other("UMODE")>>, NEW x,
         Has(f, x) \/ Has(f \o xdcc_requests, x)
  PROVE  x # Other("LOGIN") /\ \A c \in Channels : x # Join(c)
<1>0. /\ Other("UMODE") # Other("LOGIN") /\ \A c \in Channels : Other("UMODE") # Join(c)
      /\ \A d \in Downloads : Msg(d) # Other("LOGIN") /\ \A c \in Channels : Msg(d) # Join(c)
  BY CommandsDiffer
<1>1. \A i \in 1 .. Len(f) : f[i] = Other("UMODE")
  OBVIOUS
<1>2. f \in Seq(Commands) /\ xdcc_requests \in Seq(Commands)
  BY HandlersSend, CommandTypes
<1>3. CASE Has(f, x)
  BY <1>0, <1>1, <1>3 DEF Has
<1>4. CASE Has(f \o xdcc_requests, x)
  <2> DEFINE m == f \o xdcc_requests
  <2>1. /\ Len(m) = Len(f) + Len(xdcc_requests) /\ \A i \in 1 .. Len(f) : m[i] = f[i]
        /\ \A k \in 1 .. Len(xdcc_requests) : m[Len(f) + k] = xdcc_requests[k]
    BY <1>2, Joined
  <2>2. /\ Len(f) \in Nat /\ Len(xdcc_requests) = NumDownloads /\ NumDownloads \in Nat
        /\ \A k \in 1 .. NumDownloads : k \in Downloads /\ xdcc_requests[k] = Msg(k)
    BY <1>2, CommandTypes, RequestsAssumption DEF Downloads
  <2>3. PICK i \in 1 .. Len(m) : m[i] = x
    BY <1>4 DEF Has
  <2> HIDE DEF m
  <2>4. CASE i \in 1 .. Len(f)
    BY <1>0, <1>1, <2>1, <2>3, <2>4
  <2>5. CASE i \notin 1 .. Len(f)
    <3>1. i - Len(f) \in 1 .. NumDownloads /\ Len(f) + (i - Len(f)) = i
      BY <2>1, <2>2, <2>3, <2>5
    <3>2. m[i] = Msg(i - Len(f)) /\ i - Len(f) \in Downloads
      BY <2>1, <2>2, <3>1
    <3> QED
      BY <1>0, <2>3, <3>2
  <2> QED
    BY <2>4, <2>5
<1> QED
  BY <1>3, <1>4

\* The other handlers: requests after the first JOIN or voice mode, channels after the login.
LEMMA EventsKeep ==
  ASSUME Room >= NumChannels, TurnInv, AskInv', event_join \/ event_umode \/ event_mode
  PROVE  TurnInv'
<1>0. outq \in Seq(Commands) /\ outq' \in Seq(Commands) /\ inq \in Seq(Lines)
  BY DEF TurnInv, AskInv, RequestsTypeOK
<1>1. ASSUME NEW line, Receives(line)
      PROVE  /\ state = "CONNECTED" /\ inq # <<>> /\ login' = login /\ Has(inq, line)
             /\ delay' = delay /\ state' = state /\ registered' = registered
             /\ identified' = identified /\ joined' = joined
  BY <1>0, <1>1, HasTail DEF Receives, cfg, server
<1>2. ASSUME NEW line, Receives(line), NEW m \in Seq(Commands), outq' = Sent(m),
             ~Has(m, Other("LOGIN")),
             \A c \in Channels : Has(m, Join(c)) /\ HasLogin => identified
      PROVE  /\ LinesTrue' /\ Steps'
             /\ delay = NoDelay /\ Started(outq, joined) =>
                  Started(outq, joined)' /\ InOrder(outq, joined)'
  <2>1. PICK n \in 0 .. Len(m) : Grown(outq, outq', m, n)
    BY <1>0, <1>2, SentGrows
  <2> QED
    BY <1>0, <1>2, <2>1, HandlerKeeps
<1>3. CASE event_join \/ event_mode
  <2>1. PICK line \in {"JOIN", "MODE +v"} : Receives(line)
    BY <1>3 DEF event_join, event_mode
  <2>2. PICK first : /\ first = <<>> \/ first = <<Other("UMODE")>>
                     /\ SendOnly(first) \/ send_xdcc_requests(first)
    BY <1>3 DEF event_join, event_mode
  <2>3. first \in Seq(Commands)
    BY <2>2, HandlersSend
  <2>4. PICK m : (m = first \/ m = first \o xdcc_requests) /\ outq' = Sent(m)
    BY <2>2 DEF SendOnly, send_xdcc_requests
  <2>5. m \in Seq(Commands)
    BY <2>3, <2>4, CommandTypes, Joined
  <2>6. \A x : Has(m, x) => x # Other("LOGIN") /\ \A c \in Channels : x # Join(c)
    BY <2>2, <2>4, UmodeOrRequest
  <2>7. ~Has(m, Other("LOGIN")) /\ \A c \in Channels : ~Has(m, Join(c))
    BY <2>6
  <2>8. Started(outq, joined)
    BY <1>1, <2>1 DEF TurnInv, LinesTrue, Started
  <2> QED
    BY <1>1, <1>2, <2>1, <2>4, <2>5, <2>7, <2>8 DEF TurnInv
<1>4. CASE event_umode
  <2>1. Receives("UMODE +r") /\ connectDone' = connectDone
    BY <1>4 DEF event_umode
  <2>2. identified
    BY <1>1, <2>1 DEF TurnInv, LinesTrue
  <2>3. HasLogin
    BY <2>2 DEF TurnInv, Steps
  <2> DEFINE m == join_channels
  <2>4. outq' = Sent(m)
    BY <1>4, <2>3 DEF event_umode, SendOnly
  <2>5. m \in Seq(Commands) /\ Len(m) = NumChannels /\ ~Has(m, Other("LOGIN"))
    BY CommandTypes, CommandsDiffer DEF Has, Channels
  <2> HIDE DEF m
  <2>6. /\ LinesTrue' /\ Steps'
        /\ delay = NoDelay /\ Started(outq, joined) =>
             Started(outq, joined)' /\ InOrder(outq, joined)'
    BY <1>2, <2>1, <2>2, <2>4, <2>5
  <2>7. CASE delay = NoDelay /\ ~Started(outq, joined)
    <3>1. Early /\ joined = {}
      BY <2>7 DEF TurnInv, Started
    <3>2. outq = <<>>
      <4>1. registered
        BY <2>2 DEF TurnInv, Steps
      <4> QED
        BY <1>1, <2>1, <2>2, <3>1, <4>1 DEF Early
    <3>3. outq' = m
      BY <1>1, <2>1, <2>4, <2>5, <3>2, SentAll, RequestsAssumption
    <3>4. Started(outq, joined)' /\ InOrder(outq, joined)'
      BY <1>1, <2>1, <3>1, <3>3, OrderJoins DEF m
    <3> QED
      BY <2>6, <3>4 DEF TurnInv
  <2> QED
    BY <1>1, <2>1, <2>6, <2>7 DEF TurnInv
<1> QED
  BY <1>3, <1>4

\* The session is connected, or the timer asks, which has nothing to do without a delay.
LEMMA LoopKeeps ==
  ASSUME TurnInv, AskInv', handle_connecting_state \/ print_output_callback
  PROVE  TurnInv'
<1>1. CASE handle_connecting_state
  <2>1. /\ state = "CONNECTING" /\ state' = "CONNECTED"
        /\ outq' = <<Other("NICK"), Other("USER")>> /\ connectDone' = connectDone
        /\ inq' = inq /\ registered' = registered /\ identified' = identified
        /\ joined' = joined /\ login' = login /\ delay' = delay
    BY <1>1 DEF handle_connecting_state, cfg, server
  <2>2. ~registered /\ ~Started(outq, joined) /\ ~identified
    BY <2>1 DEF TurnInv, Steps
  <2>3. joined = {}
    BY <2>2 DEF Started
  <2>4. ~Started(outq, joined)' /\ ~Has(outq', Other("LOGIN"))
    BY <2>1, <2>3, PlainQueues, CommandsDiffer DEF Has
  <2>5. LinesTrue' /\ Steps'
    BY <2>1, <2>2, <2>4 DEF TurnInv, LinesTrue, Steps
  <2>6. delay = NoDelay => Early'
    BY <2>1, <2>2 DEF TurnInv, Early
  <2> QED
    BY <2>1, <2>4, <2>5, <2>6 DEF TurnInv
<1>2. CASE print_output_callback
  <2>1. /\ state' = state /\ connectDone' = connectDone
        /\ inq' = inq /\ registered' = registered /\ identified' = identified
        /\ joined' = joined /\ login' = login /\ delay' = delay /\ delay # NoDelay
    BY <1>2 DEF print_output_callback, shouldSendXdccRequests, cfg, server
  <2>2. outq' \in Seq(Commands) /\ outq \in Seq(Commands)
    BY DEF TurnInv, AskInv, RequestsTypeOK
  <2>3. outq' = Sent(IF sended THEN <<>> ELSE <<>> \o xdcc_requests)
    BY <1>2 DEF print_output_callback, send_xdcc_requests
  <2>4. <<>> \o xdcc_requests = xdcc_requests
    BY CommandTypes
  <2>5. PICK m : (m = <<>> \/ m = <<>> \o xdcc_requests) /\ outq' = Sent(m)
    BY <2>3
  <2>6. m \in Seq(Commands)
    BY <2>4, <2>5, CommandTypes, HandlersSend
  <2>a. \A x : Has(m, x) => x # Other("LOGIN") /\ \A c \in Channels : x # Join(c)
    BY <2>5, UmodeOrRequest
  <2>7. ~Has(m, Other("LOGIN")) /\ \A c \in Channels : ~Has(m, Join(c))
    BY <2>a
  <2>8. PICK n \in 0 .. Len(m) : Grown(outq, outq', m, n)
    BY <2>2, <2>5, <2>6, SentGrows
  <2>9. \A x : Has(outq', x) => Has(outq, x) \/ Has(m, x)
    BY <2>2, <2>6, <2>8, HasGrown
  <2>10. Started(outq', joined) => Started(outq, joined)
    BY <2>7, <2>9 DEF Started, Has
  <2>11. Has(outq', Other("LOGIN")) => Has(outq, Other("LOGIN"))
    BY <2>7, <2>9
  <2>12. outq' # <<>> => state = "CONNECTED"
    BY <2>5 DEF Sent, TurnInv, Steps
  <2>13. LinesTrue' /\ Steps'
    BY <2>1, <2>10, <2>11, <2>12 DEF TurnInv, LinesTrue, Steps, HasLogin
  <2> QED
    BY <2>1, <2>13 DEF TurnInv
<1> QED
  BY <1>1, <1>2

\* The server reads a command after the first JOIN.
LEMMA ReadStarted ==
  ASSUME TurnInv, NEW m, Reads(m), delay = NoDelay, Started(outq, joined), joined \subseteq joined',
         \A c \in Channels : m = Join(c) => c \in joined'
  PROVE  Started(outq, joined)' /\ InOrder(outq, joined)'
<1>1. outq \in Seq(Commands) /\ outq # <<>> /\ Head(outq) = m /\ outq' = Tail(outq)
  BY DEF TurnInv, AskInv, RequestsTypeOK, Reads
<1>2. InOrder(outq, joined)
  BY DEF TurnInv
<1>3. Started(Tail(outq), joined') /\ InOrder(Tail(outq), joined')
  BY <1>1, <1>2, OrderTail
<1> QED
  BY <1>1, <1>3

\* What is in two queues joined.
LEMMA HasJoined ==
  ASSUME NEW S, NEW q \in Seq(S), NEW g \in Seq(S), NEW x, Has(q \o g, x)
  PROVE  Has(q, x) \/ Has(g, x)
<1> DEFINE r == q \o g
<1>1. /\ Len(r) = Len(q) + Len(g) /\ \A k \in 1 .. Len(q) : r[k] = q[k]
      /\ \A k \in 1 .. Len(g) : r[Len(q) + k] = g[k]
  BY Joined
<1>2. Len(q) \in Nat /\ Len(g) \in Nat
  OBVIOUS
<1>3. PICK i \in 1 .. Len(r) : r[i] = x
  BY DEF Has
<1> HIDE DEF r
<1>4. CASE i \in 1 .. Len(q)
  BY <1>1, <1>3, <1>4 DEF Has
<1>5. CASE i \notin 1 .. Len(q)
  <2>1. i - Len(q) \in 1 .. Len(g) /\ Len(q) + (i - Len(q)) = i
    BY <1>1, <1>2, <1>3, <1>5
  <2> QED
    BY <1>1, <1>3, <2>1 DEF Has
<1> QED
  BY <1>4, <1>5

\* What is in a queue of one or two.
LEMMA ShortQueues ==
  ASSUME NEW x, NEW a, NEW b, x # a, x # b
  PROVE  ~Has(<<a>>, x) /\ ~Has(<<a, b>>, x)
<1>1. Len(<<a>>) = 1 /\ Len(<<a, b>>) = 2 /\ <<a>>[1] = a /\ <<a, b>>[1] = a /\ <<a, b>>[2] = b
  OBVIOUS
<1>2. (\A i \in 1 .. 1 : i = 1) /\ (\A i \in 1 .. 2 : i = 1 \/ i = 2)
  OBVIOUS
<1> QED
  BY <1>1, <1>2 DEF Has

\* The greeting of the server tells of neither login nor channels.
LEMMA Greeting ==
  ASSUME NEW x, x = "UMODE +r" \/ x = "JOIN" \/ x = "MODE +v"
  PROVE  /\ ~Has(<<"ENDOFMOTD">>, x) /\ ~Has(<<"YOU_ARE_CONNECTED", "ENDOFMOTD">>, x)
         /\ ~Has(<<"ENDOFMOTD", "YOU_ARE_CONNECTED">>, x)
<1>1. x # "ENDOFMOTD" /\ x # "YOU_ARE_CONNECTED"
  OBVIOUS
<1> QED
  BY <1>1, ShortQueues

\* Lines the server has sent so far, and what it sends now.
LEMMA ServerKeeps == ASSUME TurnInv, AskInv', Server PROVE TurnInv'
<1>0. outq \in Seq(Commands) /\ inq \in Seq(Lines)
  BY DEF TurnInv, AskInv, RequestsTypeOK
<1>1. ASSUME NEW m, Reads(m)
      PROVE  /\ outq # <<>> /\ Head(outq) = m /\ outq' = Tail(outq) /\ login' = login
             /\ delay' = delay /\ state' = state /\ connectDone' = connectDone
             /\ Has(outq, m) /\ \A x : Has(outq', x) => Has(outq, x)
  BY <1>0, <1>1, HasTail DEF Reads, client, cfg
<1>2. ASSUME NEW m, Reads(m), joined' = joined PROVE Started(outq, joined)' => Started(outq, joined)
  BY <1>1, <1>2 DEF Started, Has
<1>3. ASSUME NEW m, Reads(m), delay = NoDelay, ~Started(outq, joined)
      PROVE  /\ Early /\ joined = {}
             /\ \/ m = Other("NICK") /\ outq' = <<Other("USER")>> /\ ~registered /\ ~connectDone
                    /\ state = "CONNECTED"
                \/ m = Other("USER") /\ outq' = <<>> /\ ~registered /\ ~connectDone
                    /\ state = "CONNECTED"
                \/ m = Other("LOGIN") /\ outq' = <<>> /\ registered /\ connectDone /\ HasLogin
  <2>1. Early /\ joined = {}
    BY <1>3 DEF TurnInv, Started
  <2>2. CASE outq = <<Other("NICK"), Other("USER")>>
    <3>1. m = Other("NICK") /\ outq' = <<Other("USER")>>
      BY <1>1, <1>3, <2>2
    <3>2. outq # <<>> /\ outq # <<Other("LOGIN")>>
      BY <2>2
    <3> QED
      BY <2>1, <3>1, <3>2 DEF Early
  <2>3. CASE outq = <<Other("USER")>>
    <3>1. m = Other("USER") /\ outq' = <<>>
      BY <1>1, <1>3, <2>3
    <3>2. outq # <<>> /\ outq # <<Other("LOGIN")>>
      BY <2>3, CommandsDiffer
    <3> QED
      BY <2>1, <3>1, <3>2 DEF Early
  <2>4. CASE outq = <<Other("LOGIN")>>
    <3>1. m = Other("LOGIN") /\ outq' = <<>>
      BY <1>1, <1>3, <2>4
    <3>2. outq # <<>> /\ outq # <<Other("USER")>> /\ outq # <<Other("NICK"), Other("USER")>>
      BY <2>4, CommandsDiffer
    <3> QED
      BY <2>1, <3>1, <3>2 DEF Early
  <2> QED
    BY <1>1, <1>3, <2>1, <2>2, <2>3, <2>4, EarlyQueues DEF TurnInv
<1>4. CASE ServerRegisters
  <2> DEFINE m == Other("USER")
  <2>1. Reads(m) /\ registered' = TRUE /\ identified' = identified /\ joined' = joined
    BY <1>4 DEF ServerRegisters
  <2>2. ASSUME NEW x, x = "UMODE +r" \/ x = "JOIN" \/ x = "MODE +v", Has(inq', x)
        PROVE  Has(inq, x)
    <3>1. PICK g : /\ inq' = inq \o g
                   /\ \/ g = <<"ENDOFMOTD">> \/ g = <<"YOU_ARE_CONNECTED", "ENDOFMOTD">>
                      \/ g = <<"ENDOFMOTD", "YOU_ARE_CONNECTED">>
      BY <1>4 DEF ServerRegisters
    <3>2. "ENDOFMOTD" \in Lines /\ "YOU_ARE_CONNECTED" \in Lines
      BY DEF Lines
    <3>3. /\ <<"ENDOFMOTD">> \in Seq(Lines) /\ <<"YOU_ARE_CONNECTED", "ENDOFMOTD">> \in Seq(Lines)
          /\ <<"ENDOFMOTD", "YOU_ARE_CONNECTED">> \in Seq(Lines)
      BY <3>2
    <3>4. g \in Seq(Lines)
      BY <3>1, <3>3
    <3>5. ~Has(g, x)
      BY <2>2, <3>1, Greeting
    <3> QED
      BY <1>0, <2>2, <3>1, <3>4, <3>5, HasJoined
  <2>3. LinesTrue'
    BY <2>1, <2>2 DEF TurnInv, LinesTrue
  <2>4. state' = "CONNECTED"
    BY <1>1, <2>1 DEF TurnInv, Steps
  <2>5. Steps'
    BY <1>1, <1>2, <2>1, <2>4 DEF TurnInv, Steps, HasLogin
  <2>6. CASE delay = NoDelay /\ Started(outq, joined)
    BY <1>1, <2>1, <2>3, <2>5, <2>6, ReadStarted, CommandsDiffer DEF TurnInv
  <2>7. CASE delay = NoDelay /\ ~Started(outq, joined)
    <3>1. outq' = <<>> /\ ~connectDone /\ ~registered /\ joined = {}
      BY <1>3, <2>1, <2>7, CommandsDiffer
    <3>2. ~identified
      BY <3>1 DEF TurnInv, Steps
    <3>3. Early'
      BY <1>1, <2>1, <3>1, <3>2 DEF Early
    <3>4. ~Started(outq, joined)'
      BY <2>1, <3>1, PlainQueues
    <3> QED
      BY <2>3, <2>5, <3>3, <3>4 DEF TurnInv
  <2> QED
    BY <1>1, <2>1, <2>3, <2>5, <2>6, <2>7 DEF TurnInv
<1>5. CASE ServerIdentifies
  <2> DEFINE m == Other("LOGIN")
  <2>1. Reads(m) /\ registered' = registered /\ joined' = joined
    BY <1>5 DEF ServerIdentifies
  <2>2. registered /\ HasLogin
    BY <1>1, <2>1 DEF TurnInv, Steps
  <2>3. identified' /\ inq' = Append(inq, "UMODE +r")
    BY <1>5, <2>2 DEF ServerIdentifies
  <2>a. "UMODE +r" \in Lines
    BY DEF Lines
  <2>4. \A x : Has(inq', x) => x = "UMODE +r" \/ Has(inq, x)
    BY <1>0, <2>3, <2>a, HasAppend
  <2>5. ~("UMODE +r" = "JOIN") /\ ~("UMODE +r" = "MODE +v")
    OBVIOUS
  <2>6. LinesTrue'
    BY <2>1, <2>2, <2>3, <2>4, <2>5 DEF TurnInv, LinesTrue
  <2>7. Steps'
    BY <1>1, <1>2, <2>1, <2>2, <2>3 DEF TurnInv, Steps, HasLogin
  <2>8. CASE delay = NoDelay /\ Started(outq, joined)
    BY <1>1, <2>1, <2>6, <2>7, <2>8, ReadStarted, CommandsDiffer DEF TurnInv
  <2>9. CASE delay = NoDelay /\ ~Started(outq, joined)
    <3>1. outq' = <<>> /\ connectDone /\ joined = {}
      BY <1>3, <2>1, <2>9, CommandsDiffer
    <3>2. Early'
      BY <1>1, <2>1, <2>2, <2>3, <3>1 DEF Early, HasLogin
    <3>3. ~Started(outq, joined)'
      BY <2>1, <3>1, PlainQueues
    <3> QED
      BY <2>6, <2>7, <3>2, <3>3 DEF TurnInv
  <2> QED
    BY <1>1, <2>1, <2>6, <2>7, <2>8, <2>9 DEF TurnInv
<1>6. CASE ServerJoins
  <2>1. PICK c \in Channels :
          /\ Reads(Join(c))
          /\ joined' = IF registered THEN joined \cup {c} ELSE joined
          /\ inq' = IF registered /\ c \notin joined THEN Append(inq, "JOIN") ELSE inq
          /\ UNCHANGED <<registered, identified, asked>>
    BY <1>6 DEF ServerJoins
  <2>2. Has(outq, Join(c))
    BY <1>1, <2>1
  <2>3. Started(outq, joined)
    BY <2>2 DEF Started, Has
  <2>4. registered /\ (HasLogin => identified)
    BY <2>3 DEF TurnInv, Steps
  <2>5. joined' = joined \cup {c}
    BY <2>1, <2>4
  <2>a. "JOIN" \in Lines
    BY DEF Lines
  <2>6. \A x : Has(inq', x) => x = "JOIN" \/ Has(inq, x)
    <3>1. inq' = inq \/ inq' = Append(inq, "JOIN")
      BY <2>1
    <3>2. \A x : Has(Append(inq, "JOIN"), x) => x = "JOIN" \/ Has(inq, x)
      BY <1>0, <2>a, HasAppend
    <3> QED
      BY <3>1, <3>2
  <2>7. LinesTrue'
    <3>1. joined' # {}
      BY <2>5
    <3>2. "UMODE +r" # "JOIN"
      OBVIOUS
    <3> QED
      BY <2>1, <2>4, <2>6, <3>1, <3>2 DEF TurnInv, LinesTrue
  <2>8. Steps'
    BY <1>1, <2>1, <2>4 DEF TurnInv, Steps, HasLogin
  <2>9. CASE delay = NoDelay
    <3>1. \A e \in Channels : Join(c) = Join(e) => e \in joined'
      BY <2>5, CommandsDiffer
    <3>2. joined \subseteq joined'
      BY <2>5
    <3>3. Started(outq, joined)' /\ InOrder(outq, joined)'
      BY <2>1, <2>3, <2>9, <3>1, <3>2, ReadStarted
    <3> QED
      BY <2>7, <2>8, <3>3 DEF TurnInv
  <2> QED
    BY <1>1, <2>1, <2>7, <2>8, <2>9 DEF TurnInv
<1>7. CASE ServerForwards \/ ServerIgnores
  <2>1. PICK m : /\ Reads(m)
                 /\ m = Other("NICK") \/ m = Other("UMODE") \/ \E d \in Downloads : m = Msg(d)
    BY <1>7 DEF ServerForwards, ServerIgnores
  <2>2. inq' = inq /\ registered' = registered /\ identified' = identified /\ joined' = joined
    BY <1>7 DEF ServerForwards, ServerIgnores
  <2>3. /\ \A c \in Channels : m # Join(c)
        /\ m # Other("USER") /\ m # Other("LOGIN")
    BY <2>1, CommandsDiffer
  <2>4. LinesTrue'
    BY <2>2 DEF TurnInv, LinesTrue
  <2>5. Steps'
    BY <1>1, <1>2, <2>1, <2>2 DEF TurnInv, Steps, HasLogin
  <2>6. CASE delay = NoDelay /\ Started(outq, joined)
    BY <1>1, <2>1, <2>2, <2>3, <2>4, <2>5, <2>6, ReadStarted DEF TurnInv
  <2>7. CASE delay = NoDelay /\ ~Started(outq, joined)
    <3>1. outq' = <<Other("USER")>> /\ ~connectDone /\ ~registered /\ joined = {}
          /\ state = "CONNECTED"
      BY <1>3, <2>1, <2>3, <2>7
    <3>2. Early'
      BY <1>1, <2>1, <2>2, <3>1 DEF Early
    <3>3. ~Started(outq, joined)'
      BY <2>2, <3>1, PlainQueues
    <3> QED
      BY <2>4, <2>5, <3>2, <3>3 DEF TurnInv
  <2> QED
    BY <1>1, <2>1, <2>4, <2>5, <2>6, <2>7 DEF TurnInv
<1> QED
  BY <1>4, <1>5, <1>6, <1>7 DEF Server

\* The events of others come after what the client has done.
LEMMA OthersKeep ==
  ASSUME TurnInv, AskInv', Tick \/ Noise \/ Voice \/ UNCHANGED requestsVars PROVE TurnInv'
<1>1. /\ outq' = outq /\ login' = login /\ delay' = delay /\ state' = state
      /\ connectDone' = connectDone /\ registered' = registered /\ identified' = identified
      /\ joined' = joined
  BY DEF Tick, Noise, Voice, requestsVars, client, cfg, server
<1>2. inq \in Seq(Lines)
  BY DEF TurnInv, AskInv, RequestsTypeOK
<1>3. LinesTrue'
  <2>1. CASE inq' = inq
    BY <1>1, <2>1 DEF TurnInv, LinesTrue
  <2>2. ASSUME NEW x \in Lines, inq' = Append(inq, x), registered,
               x = "UMODE +r" => identified, x = "JOIN" \/ x = "MODE +v" => joined # {}
        PROVE  LinesTrue'
    <3>1. \A y : Has(inq', y) => y = x \/ Has(inq, y)
      BY <1>2, <2>2, HasAppend
    <3> QED
      BY <1>1, <2>2, <3>1 DEF TurnInv, LinesTrue
  <2>3. CASE Noise
    <3>1. PICK x \in {"ENDOFMOTD"} \cup (IF joined # {} THEN {"JOIN", "MODE +v"} ELSE {})
                       \cup (IF identified THEN {"UMODE +r"} ELSE {}) : inq' = Append(inq, x)
      BY <2>3 DEF Noise
    <3>2. registered
      BY <2>3 DEF Noise
    <3>3. x \in Lines /\ (x = "UMODE +r" => identified) /\ (x = "JOIN" \/ x = "MODE +v" => joined # {})
      BY DEF Lines
    <3> QED
      BY <2>2, <3>1, <3>2, <3>3
  <2>4. CASE Voice
    <3>1. identified /\ joined # {} /\ inq' = Append(inq, "MODE +v")
      BY <2>4 DEF Voice
    <3>2. registered
      BY <3>1 DEF TurnInv, Steps
    <3>3. "MODE +v" \in Lines
      BY DEF Lines
    <3> QED
      BY <2>2, <3>1, <3>2, <3>3
  <2> QED
    BY <2>1, <2>3, <2>4 DEF Tick, requestsVars
<1>4. Steps'
  BY <1>1 DEF TurnInv, Steps, HasLogin
<1> QED
  BY <1>1, <1>3, <1>4 DEF TurnInv, Early, HasLogin

\* Nothing is sent yet.
LEMMA InitTurn == ASSUME RequestsInit PROVE TurnInv
<1>1. AskInv
  BY InitAsk
<1>2. ~Started(outq, joined) /\ \A x : ~Has(inq, x) /\ ~Has(outq, x)
  BY PlainQueues DEF RequestsInit, Has
<1> QED
  BY <1>1, <1>2 DEF RequestsInit, TurnInv, LinesTrue, Steps, Early

\* The invariant is inductive.
LEMMA NextTurn ==
  ASSUME Room >= NumChannels, TurnInv, [RequestsNext]_requestsVars PROVE TurnInv'
<1>1. AskInv'
  BY NextAsk DEF TurnInv
<1>2. CASE Client
  <2>1. CASE event_connect \/ event_notice
    BY <1>1, <2>1, ConnectKeeps DEF event_connect, event_notice
  <2> QED
    BY <1>1, <1>2, <2>1, EventsKeep, LoopKeeps DEF Client
<1> QED
  BY <1>1, <1>2, ServerKeeps, OthersKeep DEF RequestsNext

\* Requests reach the bots after all the channels and after the login.
LEMMA TurnsKept ==
  ASSUME TurnInv, RequestsNext
  PROVE  AskedInChannels /\ LoginFirst /\ NotBeforeDelay
<1>1. asked \in [Downloads -> Nat] /\ outq \in Seq(Commands) /\ joined \subseteq Channels
  BY DEF TurnInv, AskInv, RequestsTypeOK
<1>2. ASSUME asked' # asked PROVE ServerForwards
  BY <1>2 DEF RequestsNext, Client, handle_connecting_state, print_output_callback, event_connect,
       event_notice, event_join, event_umode, event_mode, Receives, Tick, Server, ServerRegisters,
       ServerIdentifies, ServerJoins, ServerIgnores, Noise, Voice, server
<1>3. ASSUME joined' # joined PROVE ServerJoins
  BY <1>3 DEF RequestsNext, Client, handle_connecting_state, print_output_callback, event_connect,
       event_notice, event_join, event_umode, event_mode, Receives, Tick, Server, ServerRegisters,
       ServerIdentifies, ServerForwards, ServerIgnores, Noise, Voice, server
<1>4. ASSUME asked' # asked, delay = NoDelay
      PROVE  Started(outq, joined) /\ joined = Channels
  <2>1. PICK d \in Downloads : Reads(Msg(d))
    BY <1>2, <1>4 DEF ServerForwards
  <2>2. outq # <<>> /\ Head(outq) = Msg(d)
    BY <2>1 DEF Reads
  <2>3. 1 \in 1 .. Len(outq) /\ outq[1] = Msg(d)
    BY <1>1, <2>2, TailOf
  <2>4. Started(outq, joined)
    <3>1. CASE ~Started(outq, joined)
      <4>1. outq \in {<<>>, <<Other("USER")>>, <<Other("LOGIN")>>,
                       <<Other("NICK"), Other("USER")>>}
        BY <1>4, <3>1, EarlyQueues DEF TurnInv
      <4>2. outq[1] \in {Other("USER"), Other("LOGIN"), Other("NICK")}
        BY <2>2, <4>1
      <4> QED
        BY <2>3, <4>2, CommandsDiffer
    <3> QED
      BY <3>1
  <2>5. InOrder(outq, joined)
    BY <1>4, <2>4 DEF TurnInv
  <2>6. \A c \in Channels : Coming(outq, joined, c, 1)
    BY <2>3, <2>5 DEF InOrder
  <2>7. Channels \subseteq joined
    BY <1>1, <2>6 DEF Coming
  <2> QED
    BY <1>1, <2>4, <2>7
<1>5. AskedInChannels
  BY <1>4 DEF AskedInChannels
<1>6. LoginFirst
  <2>1. ASSUME joined' # joined PROVE Started(outq, joined)
    <3>1. PICK c \in Channels : Reads(Join(c))
      BY <1>3, <2>1 DEF ServerJoins
    <3>2. outq # <<>> /\ Head(outq) = Join(c)
      BY <3>1 DEF Reads
    <3>3. Has(outq, Join(c))
      BY <1>1, <3>2, HasTail
    <3> QED
      BY <3>3 DEF Has, Started
  <2> QED
    BY <1>4, <2>1 DEF LoginFirst, TurnInv, Steps
<1>7. NotBeforeDelay
  <2>1. now \in Nat /\ delay \in Delays
    BY DEF TurnInv, AskInv, RequestsTypeOK
  <2>2. ASSUME sended' # sended
        PROVE  print_output_callback \/ (event_join /\ JoinRequests) \/ (event_mode /\ HasLogin)
    BY <2>2 DEF RequestsNext, Client, handle_connecting_state, event_connect, on_connect_event,
         event_notice, event_join, event_umode, event_mode, SendOnly, Tick, Server, ServerRegisters,
         ServerIdentifies, ServerJoins, ServerForwards, ServerIgnores, Reads, Noise, Voice, client
  <2>3. print_output_callback => delay < now
    BY DEF print_output_callback, shouldSendXdccRequests
  <2>4. JoinRequests => delay = NoDelay
    BY DEF JoinRequests
  <2>5. delay # NoDelay => delay \in Nat
    BY <2>1, RequestsAssumption
  <2> QED
    BY <2>1, <2>2, <2>3, <2>4, <2>5 DEF NotBeforeDelay
<1> QED
  BY <1>5, <1>6, <1>7

\* README.md:60 "if you also have to join #best-chat-channel in order to download": if all the
\* JOINs fit into outgoing_buf, a request reaches its bot only when the client is in all its
\* channels, no channel is joined before the login was accepted, and no request is sent
\* before the delay is over, in whatever order and however often the events come.
THEOREM InTurn ==
  ASSUME Room >= NumChannels PROVE RequestsSpec => EachInTurn
<1>1. TurnInv /\ [RequestsNext]_requestsVars => TurnInv'
  BY NextTurn
<1>2. TurnInv /\ [RequestsNext]_requestsVars => [AskedInChannels /\ LoginFirst /\ NotBeforeDelay]_requestsVars
  BY TurnsKept
<1> QED
  BY <1>1, <1>2, InitTurn, PTL DEF RequestsSpec, EachInTurn
===============================================================================
