---------------------------- MODULE TunnelProofs ----------------------------
(***************************************************************************)
(* Theorems about Tunnel, for every number of plain hosts: types, and that *)
(* nothing is left open when all goroutines of a client have ended.        *)
(*                                                                         *)
(* NothingLeftOpen is about a last state.  The invariant says of every     *)
(* state who is going to close an open connection: Owned has a clause for  *)
(* each of them.  The client's close hands the server connection over to   *)
(* wrapServerConn.Close, which any goroutine may be in: Calls says in      *)
(* whose hands a Close method can be, and Before that none of them works   *)
(* on the server of a tunnel before that is dialled.                       *)
(***************************************************************************)
EXTENDS Tunnel, TLAPS

\* handleConnect, and the requests before it, up to the end of the dial.
Early == {"serve", "do", "reply", "last", "upstream", "drain"}

\* Goroutine g is in wrapServerConn.Close and will close connection w.
WillClose(g, w) == closing[g].at \in {"s1", "s2"} /\ closing[g].srv = w

\* Who is in a Close method, and for which connection.
Calls ==
    /\ \A g \in Closers : closing[g].at \in {"s1", "s2", "s3"} => closing[g].srv \in Servers
    /\ \A g \in Closers : closing[g].at \in {"no", "c1", "c2"} => closing[g].srv = "none"
    /\ \A s \in Servers : closing[s] # NotClosing =>
         closing[s].at \in {"s1", "s2", "s3"} /\ closing[s].srv = s /\ pc[s] = "closing"
    /\ closing["H"] # NotClosing => pc["H"] \in {"closing", "ended"}
    /\ closing["up"] # NotClosing => copy["outer"]["up"].at = "closing"
    /\ pc["H"] \notin {"transfer", "closing", "ended"} => copy["outer"]["up"].at = "off"

\* Before the tunnel is there, nothing of it is.
Before ==
    pc["H"] \in Early =>
      /\ open["client"] /\ ~open["pipeC"] /\ ~open["pipeS"]
      /\ pc["I"] = "off" /\ pc["M"] = "off" /\ pc["server"] = "off"
      /\ ~closed["server"] /\ serverConn # "server"

\* The http server waits for one host at a time, and only in a request.
OneAsked ==
    \A s \in PlainHosts : pc[s] \in {"dial", "busy"} =>
      pc["H"] = "do" /\ \A t \in PlainHosts : pc[t] \in {"dial", "busy"} => t = s

\* A connection is closed once it is said to be; a plain host that was not dialled
\* has no connection that anything could refer to.
Flags ==
    /\ \A w \in Servers \cup {"client"} : closed[w] => ~open[w]
    /\ \A s \in PlainHosts :
         open[s] \/ closed[s] \/ serverConn = s \/ (\E g \in Closers : closing[g].srv = s) =>
           pc[s] \notin {"off", "dial"}

ClientOwned == open["client"] /\ pc["H"] \in {"closing", "ended"} => closing["H"].at \in {"c1", "c2"}

HostsOwned == \A s \in PlainHosts : open[s] => pc[s] \in Reading \/ WillClose(s, s)

\* The server of a tunnel: a dial that is not over, the client, or a Close method.
ServerOwned ==
    open["server"] =>
      \/ pc["H"] \in {"upstream", "drain"} /\ conn = "pipeC"
      \/ serverConn = "server" /\ open["client"]
      \/ \E g \in Closers : WillClose(g, "server")

RemoteOwned ==
    open["remote"] =>
      \/ conn = "remote" /\ pc["H"] \in {"upstream", "drain", "hijack", "write", "transfer", "closing"}
      \/ pc["I"] = "ws" \/ pc["M"] = "wss"

\* The pipe is handed over once, when intercept ends.
PipeOwned ==
    /\ pc["M"] # "off" => pc["I"] = "ended"
    /\ open["pipeC"] => conn = "pipeC" /\ pc["H"] \in {"hijack", "write", "transfer", "closing"}
    /\ open["pipeS"] => pc["I"] \notin {"off", "ended"} \/ pc["M"] \notin {"off", "ended"}

Owned == ClientOwned /\ HostsOwned /\ ServerOwned /\ RemoteOwned /\ PipeOwned

TunnelInv == TunnelTypeOK /\ Calls /\ Before /\ OneAsked /\ Flags /\ Owned

-----------------------------------------------------------------------------
\* The names of hosts, connections and goroutines are not mixed up.
LEMMA NamesDiffer ==
  /\ \A s \in Servers : s \notin {"client", "remote", "pipeC", "pipeS", "none", "H", "U", "I", "M", "up"}
  /\ \A s \in PlainHosts : s \in Servers /\ s # "server"
  /\ "server" \in Servers
BY TunnelAssumption DEF Servers

\* What the types say of single values.
LEMMA Types ==
  ASSUME TunnelTypeOK
  PROVE  /\ open \in [TCP \cup Pipe -> BOOLEAN]
         /\ closed \in [Servers \cup {"client"} -> BOOLEAN]
         /\ {"client", "remote", "pipeC", "pipeS"} \cup Servers = TCP \cup Pipe
         /\ {"H", "U", "I", "M"} \cup Servers = Goroutines /\ DOMAIN pc = Goroutines
         /\ {"H", "up"} \cup Servers = Closers
         /\ closing \in [Closers -> [at : {"no", "c1", "c2", "s1", "s2", "s3"}, srv : Servers \cup {"none"}]]
         /\ serverConn \in Servers \cup {"none"}
         /\ conn \in {"none", "pipeC", "remote"}
BY DEF TunnelTypeOK, TCP, Pipe, Goroutines, Closers

\* A goroutine other than a read loop or the http server moves from one place to
\* another: it closes the pipe when it ends, and the connection of ws and wss.
LEMMA InnerMove ==
  ASSUME TunnelInv, NEW g \in {"U", "I", "M"}, NEW to \in Places(g),
         NEW S \in SUBSET {"pipeS", "remote"},
         pc' = [pc EXCEPT ![g] = to],
         g # "U" => /\ pc[g] \notin {"off", "ended"} /\ to # "off"
                    /\ to = "ended" => "pipeS" \in S
                    /\ pc[g] \in {"ws", "wss"} => "remote" \in S,
         open' = [e \in DOMAIN open |-> open[e] /\ e \notin S],
         Tls' \in BOOLEAN, closeAfterResponse' \in BOOLEAN,
         UNCHANGED <<peer, readShut, closed, serverConn, conn, inner, waiting, copy, closing>>
  PROVE  TunnelInv'
<1>1. /\ open \in [TCP \cup Pipe -> BOOLEAN]
      /\ {"client", "remote", "pipeC", "pipeS"} \cup Servers = TCP \cup Pipe
      /\ {"H", "U", "I", "M"} \cup Servers = Goroutines /\ DOMAIN pc = Goroutines
      /\ {"H", "up"} \cup Servers = Closers
  BY Types DEF TunnelInv
<1>2. /\ \A e \in TCP \cup Pipe : open'[e] <=> open[e] /\ e \notin S
      /\ \A e \in Servers \cup {"client", "pipeC"} : open'[e] = open[e]
      /\ open' \in [TCP \cup Pipe -> BOOLEAN]
  BY <1>1, NamesDiffer
<1>3. /\ \A h \in Goroutines : h # g => pc'[h] = pc[h]
      /\ pc'[g] = to
      /\ DOMAIN pc' = Goroutines
      /\ pc'["H"] = pc["H"]
      /\ \A s \in Servers : pc'[s] = pc[s]
  BY <1>1, NamesDiffer
<1>4. TunnelTypeOK'
  <2>1. \A h \in Goroutines : pc'[h] \in Places(h)
    BY <1>1, <1>3 DEF TunnelInv, TunnelTypeOK
  <2> QED
    BY <1>2, <1>3, <2>1 DEF TunnelInv, TunnelTypeOK
<1>5. Calls'
  BY <1>1, <1>3 DEF TunnelInv, Calls
<1>6. Before' /\ OneAsked'
  BY <1>1, <1>2, <1>3, NamesDiffer DEF TunnelInv, Before, OneAsked
<1>7. Flags'
  BY <1>1, <1>2, <1>3, NamesDiffer DEF TunnelInv, Flags
<1>8. ClientOwned' /\ HostsOwned' /\ ServerOwned'
  BY <1>1, <1>2, <1>3, NamesDiffer DEF TunnelInv, Owned, ClientOwned, HostsOwned, ServerOwned, WillClose
<1>9. RemoteOwned'
  BY <1>1, <1>2, <1>3 DEF TunnelInv, Owned, RemoteOwned
<1>10. PipeOwned'
  BY <1>1, <1>2, <1>3 DEF TunnelInv, Owned, PipeOwned
<1> QED
  BY <1>4, <1>5, <1>6, <1>7, <1>8, <1>9, <1>10 DEF TunnelInv, Owned

\* Nothing is closed: a step that only moves.
LEMMA InnerJustMoves ==
  ASSUME TunnelInv, NEW g \in {"U", "I", "M"}, NEW to \in Places(g), to # "ended",
         pc' = [pc EXCEPT ![g] = to],
         g # "U" => pc[g] \notin {"off", "ended", "ws", "wss"} /\ to # "off",
         Tls' \in BOOLEAN, closeAfterResponse' \in BOOLEAN,
         UNCHANGED <<peer, open, readShut, closed, serverConn, conn, inner, waiting, copy, closing>>
  PROVE  TunnelInv'
<1>1. open' = [e \in DOMAIN open |-> open[e] /\ e \notin {}]
  BY Types DEF TunnelInv
<1>2. {} \in SUBSET {"pipeS", "remote"}
  OBVIOUS
<1> QED
  BY <1>1, <1>2, InnerMove

\* getProxyConn's goroutine.
LEMMA UpstreamKeeps ==
  ASSUME TunnelInv, UpstreamEnds \/ \E answer \in {"200", "refused"} : UpstreamAnswers(answer)
  PROVE  TunnelInv'
<1>1. PICK to \in {"200", "refused"} :
        pc' = [pc EXCEPT !["U"] = to] /\ UNCHANGED <<net, ctx, xfer, closing>>
  BY DEF UpstreamEnds, UpstreamAnswers, Move, Step
<1>2. to \in Places("U")
  BY DEF Places
<1>3. Tls \in BOOLEAN /\ closeAfterResponse \in BOOLEAN
  BY DEF TunnelInv, TunnelTypeOK
<1> QED
  BY <1>1, <1>2, <1>3, InnerJustMoves DEF net, ctx, xfer

\* Steps of intercept and of the http server on the pipe that close nothing.
LEMMA MovesKeep ==
  ASSUME TunnelInv,
         \/ NobodyAccepts \/ ClientHello \/ TlsEstablished \/ Request \/ AddonAnswers
         \/ SendFails \/ Upgrade
         \/ Peek \/ \E isTls \in BOOLEAN : Tell(isTls)
         \/ \E close, whole \in BOOLEAN : Responds(close, whole)
  PROVE  TunnelInv'
<1>1. Tls \in BOOLEAN /\ closeAfterResponse \in BOOLEAN
  BY DEF TunnelInv, TunnelTypeOK
<1>2. CASE \/ NobodyAccepts \/ ClientHello \/ TlsEstablished \/ Request \/ AddonAnswers
           \/ SendFails \/ Upgrade \/ Peek
  <2>1. PICK g \in {"I", "M"} : \E to \in Places(g) \ {"off", "ended"} :
          /\ pc' = [pc EXCEPT ![g] = to] /\ pc[g] \notin {"off", "ended", "ws", "wss"}
          /\ UNCHANGED <<net, ctx, xfer, closing>>
    BY <1>2 DEF NobodyAccepts, ClientHello, TlsEstablished, Request, AddonAnswers,
                SendFails, Upgrade, Peek, Move, Step, Places
  <2> QED
    BY <1>1, <2>1, InnerJustMoves DEF net, ctx, xfer
<1>3. ASSUME NEW isTls \in BOOLEAN, Tell(isTls) PROVE TunnelInv'
  <2>1. PICK to \in {"handoff", "dial"} :
          /\ pc' = [pc EXCEPT !["I"] = to] /\ pc["I"] = "peeked" /\ Tls' = isTls
          /\ UNCHANGED <<net, serverConn, closeAfterResponse, conn, inner, xfer, closing>>
    BY <1>3 DEF Tell, Step
  <2>2. to \in Places("I")
    BY DEF Places
  <2> QED
    BY <1>1, <2>1, <2>2, InnerJustMoves DEF net, xfer
<1>4. ASSUME NEW close \in BOOLEAN, NEW whole \in BOOLEAN, Responds(close, whole) PROVE TunnelInv'
  <2>1. PICK to \in {"close", "idle"} :
          /\ pc' = [pc EXCEPT !["M"] = to] /\ pc["M"] = "sent"
          /\ closeAfterResponse' = (closeAfterResponse \/ close)
          /\ UNCHANGED <<net, serverConn, Tls, conn, inner, xfer, closing>>
    BY <1>4 DEF Responds, Step
  <2>2. to \in Places("M")
    BY DEF Places
  <2>3. closeAfterResponse' \in BOOLEAN /\ Tls' \in BOOLEAN
    BY <1>1, <2>1
  <2> QED
    BY <2>1, <2>2, <2>3, InnerJustMoves DEF net, xfer
<1> QED
  BY <1>2, <1>3, <1>4

\* The ends of intercept, ws, wss and the http server on the pipe.
LEMMA EndsKeep ==
  ASSUME TunnelInv,
         \/ PeekFails \/ DialWsFails \/ WsReturns
         \/ HangUp \/ TlsFails \/ DialWssFails \/ WssReturns
  PROVE  TunnelInv'
<1>1. Tls \in BOOLEAN /\ closeAfterResponse \in BOOLEAN
  BY DEF TunnelInv, TunnelTypeOK
<1>2. PICK g \in {"I", "M"}, S \in {{"pipeS"}, {"remote", "pipeS"}} :
        /\ pc' = [pc EXCEPT ![g] = "ended"] /\ pc[g] \notin {"off", "ended"}
        /\ pc[g] \in {"ws", "wss"} => "remote" \in S
        /\ open' = [e \in DOMAIN open |-> open[e] /\ e \notin S]
        /\ UNCHANGED <<peer, readShut, closed, ctx, xfer, closing>>
  BY DEF PeekFails, DialWsFails, WsReturns, HangUp, TlsFails, DialWssFails, WssReturns,
         MoveAndShut, Step, Shut
<1>3. "ended" \in Places(g) /\ S \in SUBSET {"pipeS", "remote"} /\ "pipeS" \in S
  BY DEF Places
<1> QED
  BY <1>1, <1>2, <1>3, InnerMove DEF ctx, xfer

\* The connection over the pipe goes to the http server of the interceptor.
LEMMA HandoffKeeps ==
  ASSUME TunnelInv, Handoff
  PROVE  TunnelInv'
<1>1. /\ {"H", "U", "I", "M"} \cup Servers = Goroutines /\ DOMAIN pc = Goroutines
      /\ {"H", "up"} \cup Servers = Closers
  BY Types DEF TunnelInv
<1>2. /\ pc["I"] = "handoff" /\ pc' = [pc EXCEPT !["I"] = "ended", !["M"] = "hello"]
      /\ UNCHANGED <<peer, open, readShut, closed, serverConn, Tls, closeAfterResponse,
                     conn, inner, waiting, copy, closing>>
  BY DEF Handoff, net, ctx, xfer
<1>3. /\ DOMAIN pc' = Goroutines /\ pc'["I"] = "ended" /\ pc'["M"] = "hello"
      /\ pc'["H"] = pc["H"] /\ pc'["U"] = pc["U"] /\ \A s \in Servers : pc'[s] = pc[s]
  BY <1>1, <1>2, NamesDiffer
<1>4. TunnelTypeOK'
  <2>1. "ended" \in Places("I") /\ "hello" \in Places("M")
    BY DEF Places
  <2>2. \A h \in Goroutines : pc'[h] \in Places(h)
    BY <1>1, <1>3, <2>1 DEF TunnelInv, TunnelTypeOK
  <2> QED
    BY <1>2, <1>3, <2>2 DEF TunnelInv, TunnelTypeOK
<1>5. Calls' /\ Before' /\ OneAsked' /\ Flags'
  BY <1>1, <1>2, <1>3, NamesDiffer DEF TunnelInv, Calls, Before, OneAsked, Flags
<1>6. ClientOwned' /\ HostsOwned' /\ ServerOwned'
  BY <1>1, <1>2, <1>3, NamesDiffer DEF TunnelInv, Owned, ClientOwned, HostsOwned, ServerOwned, WillClose
<1>7. RemoteOwned' /\ PipeOwned'
  BY <1>2, <1>3 DEF TunnelInv, Owned, RemoteOwned, PipeOwned
<1> QED
  BY <1>4, <1>5, <1>6, <1>7 DEF TunnelInv, Owned

\* The first request on the pipe starts the read loop of the server's connection.
LEMMA SendKeeps ==
  ASSUME TunnelInv, Send
  PROVE  TunnelInv'
<1>1. /\ {"H", "U", "I", "M"} \cup Servers = Goroutines /\ DOMAIN pc = Goroutines
      /\ {"H", "up"} \cup Servers = Closers
  BY Types DEF TunnelInv
<1>2. /\ pc["M"] = "request"
      /\ pc' = [pc EXCEPT !["M"] = "sent", !["server"] = IF @ = "off" THEN "loop" ELSE @]
      /\ UNCHANGED <<peer, open, readShut, closed, serverConn, Tls, closeAfterResponse,
                     conn, inner, waiting, copy, closing>>
  BY DEF Send, net, ctx, xfer
<1>3. /\ DOMAIN pc' = Goroutines /\ pc'["M"] = "sent"
      /\ pc'["server"] = IF pc["server"] = "off" THEN "loop" ELSE pc["server"]
      /\ \A h \in {"H", "U", "I"} : pc'[h] = pc[h]
      /\ \A s \in PlainHosts : pc'[s] = pc[s]
  BY <1>1, <1>2, NamesDiffer
<1>4. TunnelTypeOK'
  <2>1. "sent" \in Places("M") /\ "loop" \in Places("server")
    BY DEF Places
  <2>2. \A h \in Goroutines : pc'[h] \in Places(h)
    BY <1>1, <1>3, <2>1, NamesDiffer DEF TunnelInv, TunnelTypeOK, Servers
  <2> QED
    BY <1>2, <1>3, <2>2 DEF TunnelInv, TunnelTypeOK
<1>5. Calls'
  <2>1. \A s \in Servers : s = "server" \/ pc'[s] = pc[s]
    BY <1>3 DEF Servers
  <2>2. \A s \in Servers : closing[s] # NotClosing => pc'[s] = "closing"
    BY <1>3, <2>1 DEF TunnelInv, Calls
  <2> QED
    BY <1>1, <1>2, <1>3, <2>2 DEF TunnelInv, Calls
<1>6. Before' /\ OneAsked' /\ Flags'
  BY <1>1, <1>2, <1>3, NamesDiffer DEF TunnelInv, Before, OneAsked, Flags
<1>7. Owned'
  BY <1>1, <1>2, <1>3, NamesDiffer
  DEF TunnelInv, Owned, ClientOwned, HostsOwned, ServerOwned, RemoteOwned, PipeOwned, WillClose
<1> QED
  BY <1>4, <1>5, <1>6, <1>7 DEF TunnelInv

\* A transfer begins with two copies.
LEMMA BeginTypes ==
  ASSUME TunnelTypeOK, NEW t \in Transfers, Begin(t)
  PROVE  /\ waiting' \in [Transfers -> 0..2]
         /\ copy' \in [Transfers -> [Directions ->
                [at : {"off", "copy", "blocked", "closing", "report", "ended"}, err : BOOLEAN]]]
         /\ copy'[t]["up"].at = "copy"
         /\ \A u \in Transfers : u # t => copy'[u] = copy[u]
BY DEF TunnelTypeOK, Begin, Copying, Directions

\* ws and wss dial their connection.
LEMMA DialAgainKeeps ==
  ASSUME TunnelInv, DialWs \/ DialWss
  PROVE  TunnelInv'
<1>1. /\ open \in [TCP \cup Pipe -> BOOLEAN]
      /\ {"client", "remote", "pipeC", "pipeS"} \cup Servers = TCP \cup Pipe
      /\ {"H", "U", "I", "M"} \cup Servers = Goroutines /\ DOMAIN pc = Goroutines
      /\ {"H", "up"} \cup Servers = Closers
  BY Types DEF TunnelInv
<1>2. PICK g \in {"I", "M"}, to \in {"ws", "wss"}, server \in {"pipeS", "remote"} :
        /\ g = "I" <=> to = "ws"
        /\ pc[g] = "dial" /\ pc' = [pc EXCEPT ![g] = to]
        /\ open' = [open EXCEPT !["remote"] = TRUE]
        /\ inner' = server
        /\ Begin("inner")
        /\ UNCHANGED <<peer, readShut, closed, serverConn, Tls, closeAfterResponse, conn, closing>>
  BY DEF DialWs, DialWss, DialAgain, Step
<1>3. /\ DOMAIN pc' = Goroutines /\ pc'[g] = to
      /\ \A h \in Goroutines : h # g => pc'[h] = pc[h]
      /\ pc'["H"] = pc["H"] /\ \A s \in Servers : pc'[s] = pc[s]
  BY <1>1, <1>2, NamesDiffer
<1>4. /\ open' \in [TCP \cup Pipe -> BOOLEAN]
      /\ \A e \in Servers \cup {"client", "pipeC", "pipeS"} : open'[e] = open[e]
  BY <1>1, <1>2, NamesDiffer
<1>5. /\ waiting' \in [Transfers -> 0..2]
      /\ copy' \in [Transfers -> [Directions ->
             [at : {"off", "copy", "blocked", "closing", "report", "ended"}, err : BOOLEAN]]]
      /\ copy'["outer"] = copy["outer"]
  BY <1>2, BeginTypes DEF TunnelInv, Transfers
<1>6. TunnelTypeOK'
  <2>1. to \in Places(g)
    BY <1>2 DEF Places
  <2>2. \A h \in Goroutines : pc'[h] \in Places(h)
    BY <1>1, <1>3, <2>1 DEF TunnelInv, TunnelTypeOK
  <2> QED
    BY <1>2, <1>3, <1>4, <1>5, <2>2 DEF TunnelInv, TunnelTypeOK
<1>7. Calls'
  BY <1>1, <1>2, <1>3, <1>5, NamesDiffer DEF TunnelInv, Calls
<1>8. pc["H"] \notin Early
  BY <1>2 DEF TunnelInv, Before
<1>9. Before' /\ OneAsked' /\ Flags'
  BY <1>1, <1>2, <1>3, <1>4, <1>8, NamesDiffer DEF TunnelInv, Before, OneAsked, Flags
<1>10. Owned'
  BY <1>1, <1>2, <1>3, <1>4, NamesDiffer
  DEF TunnelInv, Owned, ClientOwned, HostsOwned, ServerOwned, RemoteOwned, PipeOwned, WillClose
<1> QED
  BY <1>6, <1>7, <1>9, <1>10 DEF TunnelInv

\* The far end of a connection closes it or resets it.
LEMMA LeavesKeeps ==
  ASSUME TunnelInv, NEW e \in TCP, NEW how \in {"fin", "rst"}, Leaves(e, how)
  PROVE  TunnelInv'
<1>1. /\ peer' = [peer EXCEPT ![e] = how]
      /\ UNCHANGED <<open, readShut, closed, serverConn, Tls, closeAfterResponse, conn, inner,
                     pc, waiting, copy, closing>>
  BY DEF Leaves, ctx, xfer
<1>2. TunnelTypeOK'
  BY <1>1 DEF TunnelInv, TunnelTypeOK
<1>3. Calls' /\ Before' /\ OneAsked' /\ Flags' /\ Owned'
  BY <1>1 DEF TunnelInv, Calls, Before, OneAsked, Flags, WillClose,
              Owned, ClientOwned, HostsOwned, ServerOwned, RemoteOwned, PipeOwned
<1> QED
  BY <1>2, <1>3 DEF TunnelInv

-----------------------------------------------------------------------------
(* transfer                                                                 *)

CopyTypes ==
    copy \in [Transfers -> [Directions ->
                [at : {"off", "copy", "blocked", "closing", "report", "ended"}, err : BOOLEAN]]]

\* A copy goes on or ends, and closes at most an end of the pipe or the
\* connection of a websocket or of a tunnel that is not intercepted.
LEMMA CopyStep ==
  ASSUME TunnelInv, NEW e \in {"none", "pipeC", "pipeS", "remote"},
         open' = [open EXCEPT ![e] = FALSE] \/ UNCHANGED open,
         CopyTypes', waiting' \in [Transfers -> 0..2], readShut' \in BOOLEAN,
         copy["outer"]["up"].at = "off" => copy'["outer"]["up"].at = "off",
         closing["up"] # NotClosing => copy'["outer"]["up"].at = copy["outer"]["up"].at,
         UNCHANGED <<peer, closed, serverConn, Tls, closeAfterResponse, conn, inner, pc, closing>>
  PROVE  TunnelInv'
<1>1. /\ open \in [TCP \cup Pipe -> BOOLEAN]
      /\ {"client", "remote", "pipeC", "pipeS"} \cup Servers = TCP \cup Pipe
      /\ {"H", "up"} \cup Servers = Closers
  BY Types DEF TunnelInv
<1>2. /\ open' \in [TCP \cup Pipe -> BOOLEAN]
      /\ \A w \in Servers \cup {"client"} : open'[w] = open[w]
      /\ \A w \in {"pipeC", "pipeS", "remote"} : open'[w] => open[w]
  BY <1>1, NamesDiffer
<1>3. TunnelTypeOK'
  BY <1>2 DEF TunnelInv, TunnelTypeOK, CopyTypes
<1>4. Calls'
  BY DEF TunnelInv, Calls
<1>5. Before' /\ OneAsked' /\ Flags'
  BY <1>2, NamesDiffer DEF TunnelInv, Before, OneAsked, Flags
<1>6. Owned'
  BY <1>2, NamesDiffer
  DEF TunnelInv, Owned, ClientOwned, HostsOwned, ServerOwned, RemoteOwned, PipeOwned, WillClose
<1> QED
  BY <1>3, <1>4, <1>5, <1>6 DEF TunnelInv

\* The copy from the client has ended and calls Close on the client.
LEMMA CopyCallsClose ==
  ASSUME TunnelInv, CopyTypes', copy["outer"]["up"].at \in {"copy", "blocked"},
         copy'["outer"]["up"].at = "closing", CallsClose("up", "c1", "none"),
         UNCHANGED <<net, ctx, pc, waiting>>
  PROVE  TunnelInv'
<1>1. /\ closing' = [closing EXCEPT !["up"] = [at |-> "c1", srv |-> "none"]]
      /\ UNCHANGED <<peer, open, readShut, closed, serverConn, Tls, closeAfterResponse, conn, inner,
                     pc, waiting>>
  BY DEF CallsClose, net, ctx
<1>2. /\ {"H", "up"} \cup Servers = Closers
      /\ closing \in [Closers -> [at : {"no", "c1", "c2", "s1", "s2", "s3"}, srv : Servers \cup {"none"}]]
  BY Types DEF TunnelInv
<1>3. /\ closing'["up"] = [at |-> "c1", srv |-> "none"] /\ closing'["H"] = closing["H"]
      /\ \A s \in Servers : closing'[s] = closing[s]
      /\ \A g \in Closers : g # "up" => closing'[g] = closing[g]
      /\ closing' \in [Closers -> [at : {"no", "c1", "c2", "s1", "s2", "s3"}, srv : Servers \cup {"none"}]]
  BY <1>1, <1>2, NamesDiffer
<1>4. closing["up"] = NotClosing /\ pc["H"] \notin Early
  BY DEF TunnelInv, Calls, Early
<1>5. TunnelTypeOK'
  BY <1>1, <1>3 DEF TunnelInv, TunnelTypeOK, CopyTypes
<1>6. Calls'
  BY <1>1, <1>2, <1>3, <1>4 DEF TunnelInv, Calls, Early
<1>7. Before' /\ OneAsked'
  BY <1>1, <1>4 DEF TunnelInv, Before, OneAsked
<1>8. Flags'
  BY <1>1, <1>2, <1>3, NamesDiffer DEF TunnelInv, Flags
<1>9. ClientOwned' /\ HostsOwned' /\ RemoteOwned' /\ PipeOwned'
  BY <1>1, <1>2, <1>3, NamesDiffer
  DEF TunnelInv, Owned, ClientOwned, HostsOwned, RemoteOwned, PipeOwned, WillClose
<1>10. ServerOwned'
  <2>1. \A g \in Closers : WillClose(g, "server") => g # "up" /\ WillClose(g, "server")'
    BY <1>3, <1>4 DEF WillClose, NotClosing
  <2> QED
    BY <1>1, <2>1 DEF TunnelInv, Owned, ServerOwned
<1> QED
  BY <1>5, <1>6, <1>7, <1>8, <1>9, <1>10 DEF TunnelInv, Owned

\* A copy ends, for whatever reason.
LEMMA CopyEndsKeeps ==
  ASSUME TunnelInv, NEW t \in Transfers, NEW d \in Directions, NEW err \in BOOLEAN,
         copy[t][d].at \in {"copy", "blocked"}, CopyEnds(t, d, err), UNCHANGED <<ctx, pc, waiting>>
  PROVE  TunnelInv'
<1>1. /\ CopyTypes /\ waiting \in [Transfers -> 0..2] /\ readShut \in BOOLEAN
      /\ conn \in {"none", "pipeC", "remote"} /\ inner \in {"none", "pipeS", "remote"}
  BY DEF TunnelInv, TunnelTypeOK, CopyTypes
<1>2. CASE t = "outer" /\ d = "up"
  <2>1. /\ copy' = [copy EXCEPT !["outer"]["up"] = [at |-> "closing", err |-> err]]
        /\ CallsClose("up", "c1", "none") /\ UNCHANGED net
    BY <1>2 DEF CopyEnds
  <2>2. CopyTypes' /\ copy'["outer"]["up"].at = "closing"
    BY <1>1, <1>2, <2>1 DEF CopyTypes
  <2> QED
    BY <1>2, <2>1, <2>2, CopyCallsClose
<1>3. CASE ~(t = "outer" /\ d = "up")
  <2>1. /\ copy' = [copy EXCEPT ![t][d] = [at |-> "report", err |-> err]]
        /\ open' = [open EXCEPT ![Source(t, d)] = FALSE]
        /\ readShut' = (readShut \/ t = "outer")
        /\ UNCHANGED <<peer, closed, closing>>
    BY <1>3 DEF CopyEnds
  <2>2. CopyTypes' /\ copy'["outer"]["up"] = copy["outer"]["up"]
    BY <1>1, <1>3, <2>1 DEF CopyTypes, Transfers, Directions
  <2>3. Source(t, d) \in {"none", "pipeC", "pipeS", "remote"}
    BY <1>1, <1>3 DEF Source, ClientSide, ServerSide, Transfers, Directions
  <2>4. readShut' \in BOOLEAN
    BY <1>1, <2>1
  <2> QED
    BY <1>1, <2>1, <2>2, <2>3, <2>4, CopyStep DEF ctx
<1> QED
  BY <1>2, <1>3

\* The steps of the copying goroutines.
LEMMA CopiesKeep ==
  ASSUME TunnelInv,
         \/ CopyBlocks
         \/ \E t \in Transfers, d \in Directions : CopyWriteFails(t, d) \/ Copy(t, d)
  PROVE  TunnelInv'
<1>1. CopyTypes /\ waiting \in [Transfers -> 0..2] /\ readShut \in BOOLEAN
  BY DEF TunnelInv, TunnelTypeOK, CopyTypes
<1>2. "outer" \in Transfers /\ "up" \in Directions
  BY DEF Transfers, Directions
<1>3. ASSUME NEW to \in {"copy", "blocked"}, copy["outer"]["up"].at \in {"copy", "blocked"},
             copy' = [copy EXCEPT !["outer"]["up"].at = to],
             UNCHANGED <<net, ctx, pc, waiting, closing>>
      PROVE  TunnelInv'
  <2>1. CopyTypes'
    BY <1>1, <1>2, <1>3 DEF CopyTypes
  <2>2. closing["up"] = NotClosing
    BY <1>3 DEF TunnelInv, Calls
  <2>3. "none" \in {"none", "pipeC", "pipeS", "remote"}
    OBVIOUS
  <2> QED
    BY <1>1, <1>3, <2>1, <2>2, <2>3, CopyStep DEF net, ctx
<1>4. CASE CopyBlocks
  BY <1>3, <1>4 DEF CopyBlocks
<1>5. CASE CopyResumes
  <2>1. copy["outer"]["up"].at = "blocked" /\ UNCHANGED <<ctx, pc, waiting>>
    BY <1>5 DEF CopyResumes
  <2>2. CASE CopyEnds("outer", "up", TRUE)
    BY <1>2, <2>1, <2>2, CopyEndsKeeps
  <2>3. CASE copy' = [copy EXCEPT !["outer"]["up"].at = "copy"] /\ UNCHANGED <<net, closing>>
    BY <1>3, <2>1, <2>3
  <2> QED
    BY <1>5, <2>2, <2>3 DEF CopyResumes
<1>6. ASSUME NEW t \in Transfers, NEW d \in Directions, CopyWriteFails(t, d) \/ CopyReadsEnd(t, d)
      PROVE  TunnelInv'
  <2>1. PICK err \in BOOLEAN : CopyEnds(t, d, err) /\ copy[t][d].at = "copy" /\ UNCHANGED <<ctx, pc, waiting>>
    BY <1>6 DEF CopyWriteFails, CopyReadsEnd
  <2> QED
    BY <2>1, CopyEndsKeeps
<1>7. ASSUME NEW t \in Transfers, NEW d \in Directions, Report(t, d)
      PROVE  TunnelInv'
  <2>1. /\ copy[t][d].at \in {"report", "closing"}
        /\ copy[t][d].at = "closing" => closing["up"] = NotClosing
        /\ copy' = [copy EXCEPT ![t][d] = [at |-> "ended", err |-> FALSE]]
        /\ waiting' = [waiting EXCEPT ![t] = IF @ = 2 /\ ~copy[t][d].err THEN 1 ELSE 0]
        /\ UNCHANGED <<net, ctx, pc, closing>>
    BY <1>7 DEF Report
  <2>2. waiting' \in [Transfers -> 0..2]
    BY <1>1, <2>1
  <2>3. CopyTypes'
    BY <1>1, <2>1 DEF CopyTypes
  <2>4. /\ t = "outer" /\ d = "up" => copy'["outer"]["up"].at = "ended"
        /\ ~(t = "outer" /\ d = "up") => copy'["outer"]["up"] = copy["outer"]["up"]
    BY <1>1, <1>2, <2>1 DEF CopyTypes
  <2>5. closing["up"] # NotClosing => copy["outer"]["up"].at = "closing"
    BY DEF TunnelInv, Calls
  <2>6. "none" \in {"none", "pipeC", "pipeS", "remote"}
    OBVIOUS
  <2>7. UNCHANGED <<peer, open, readShut, closed, serverConn, Tls, closeAfterResponse, conn, inner, pc, closing>>
    BY <2>1 DEF net, ctx
  <2>8. CASE t = "outer" /\ d = "up"
    BY <1>1, <2>1, <2>2, <2>3, <2>4, <2>5, <2>6, <2>7, <2>8, CopyStep
  <2>9. CASE ~(t = "outer" /\ d = "up")
    BY <1>1, <2>2, <2>3, <2>4, <2>6, <2>7, <2>9, CopyStep
  <2> QED
    BY <2>8, <2>9
<1> QED
  BY <1>4, <1>5, <1>6, <1>7 DEF Copy

-----------------------------------------------------------------------------
(* The Close methods                                                        *)

\* A step of a Close method in goroutine g: what does not depend on which step.
LEMMA CloseStep ==
  ASSUME TunnelInv, NEW g \in Closers, closing[g] # NotClosing,
         NEW next \in [at : {"no", "c1", "c2", "s1", "s2", "s3"}, srv : Servers \cup {"none"}],
         closing' = [closing EXCEPT ![g] = next],
         \/ next = NotClosing
         \/ next.at = "c2" /\ closing[g].at = "c1" /\ next.srv = "none"
         \/ next.at \in {"s2", "s3"} /\ closing[g].at \in {"s1", "s2"} /\ next.srv = closing[g].srv
         \/ next.at = "s1" /\ closing[g].at = "c2" /\ next.srv = serverConn /\ serverConn \in Servers,
         UNCHANGED <<serverConn, pc, copy>>
  PROVE  /\ Calls'
         /\ closing' \in [Closers -> [at : {"no", "c1", "c2", "s1", "s2", "s3"}, srv : Servers \cup {"none"}]]
         /\ closing'[g] = next /\ \A h \in Closers : h # g => closing'[h] = closing[h]
         /\ \A s \in PlainHosts : (\E h \in Closers : closing'[h].srv = s) => pc[s] \notin {"off", "dial"}
         /\ closing[g].srv = "server" \/ closing[g].at \in {"c1", "c2"} => pc["H"] \notin Early
<1>1. /\ {"H", "up"} \cup Servers = Closers
      /\ closing \in [Closers -> [at : {"no", "c1", "c2", "s1", "s2", "s3"}, srv : Servers \cup {"none"}]]
  BY Types DEF TunnelInv
<1>2. /\ closing'[g] = next /\ \A h \in Closers : h # g => closing'[h] = closing[h]
      /\ closing' \in [Closers -> [at : {"no", "c1", "c2", "s1", "s2", "s3"}, srv : Servers \cup {"none"}]]
  BY <1>1
<1>3. /\ next.at \in {"s1", "s2", "s3"} => next.srv \in Servers
      /\ next.at \in {"no", "c1", "c2"} => next.srv = "none"
      /\ g \in Servers /\ next # NotClosing => next.at \in {"s1", "s2", "s3"} /\ next.srv = g
  BY <1>1 DEF TunnelInv, Calls, NotClosing
<1>4. Calls'
  BY <1>1, <1>2, <1>3, NamesDiffer DEF TunnelInv, Calls
<1>5. next.srv = "none" \/ next.srv = closing[g].srv \/ next.srv = serverConn
  BY DEF NotClosing
<1>6. \A s \in PlainHosts : (\E h \in Closers : closing'[h].srv = s) => pc[s] \notin {"off", "dial"}
  BY <1>2, <1>5, NamesDiffer DEF TunnelInv, Flags
<1>7. closing[g].srv = "server" \/ closing[g].at \in {"c1", "c2"} => pc["H"] \notin Early
  <2>1. CASE g = "H"
    BY <2>1 DEF TunnelInv, Calls, Early
  <2>2. CASE g = "up"
    BY <2>2 DEF TunnelInv, Calls, Early
  <2>3. CASE g \in Servers
    BY <2>3 DEF TunnelInv, Calls, Before
  <2> QED
    BY <1>1, <2>1, <2>2, <2>3
<1> QED
  BY <1>2, <1>4, <1>6, <1>7

\* closed is tested: a method that goes no further finds the connection closed.
LEMMA TestClosedKeeps ==
  ASSUME TunnelInv, NEW g \in Closers,
         \/ TestClosed(g, "c1", "client", "c2")
         \/ TestClosed(g, "s1", closing[g].srv, "s2"),
         UNCHANGED <<ctx, pc, xfer>>
  PROVE  TunnelInv'
<1>1. /\ closing \in [Closers -> [at : {"no", "c1", "c2", "s1", "s2", "s3"}, srv : Servers \cup {"none"}]]
      /\ {"H", "up"} \cup Servers = Closers
  BY Types DEF TunnelInv
<1>2. PICK at \in {"c1", "s1"}, w \in Servers \cup {"client"} :
        /\ closing[g].at = at
        /\ at = "c1" => w = "client" /\ closing[g].srv = "none"
        /\ at = "s1" => w = closing[g].srv
        /\ closing' = [closing EXCEPT ![g] =
              IF closed[w] THEN NotClosing ELSE [@ EXCEPT !.at = IF at = "c1" THEN "c2" ELSE "s2"]]
        /\ UNCHANGED <<peer, open, readShut, closed>>
  BY DEF TestClosed, net, TunnelInv, Calls
<1> DEFINE next == IF closed[w] THEN NotClosing
                   ELSE [closing[g] EXCEPT !.at = IF at = "c1" THEN "c2" ELSE "s2"]
<1>3. /\ next \in [at : {"no", "c1", "c2", "s1", "s2", "s3"}, srv : Servers \cup {"none"}]
      /\ closed[w] => next = NotClosing
      /\ ~closed[w] => next.at = (IF at = "c1" THEN "c2" ELSE "s2") /\ next.srv = closing[g].srv
      /\ closing' = [closing EXCEPT ![g] = next]
      /\ closing[g] # NotClosing
  BY <1>1, <1>2 DEF NotClosing
<1> HIDE DEF next
<1>4. UNCHANGED <<serverConn, Tls, closeAfterResponse, conn, inner, pc, waiting, copy>>
  BY DEF ctx, xfer
<1>5. /\ Calls'
      /\ closing' \in [Closers -> [at : {"no", "c1", "c2", "s1", "s2", "s3"}, srv : Servers \cup {"none"}]]
      /\ closing'[g] = next /\ \A h \in Closers : h # g => closing'[h] = closing[h]
      /\ \A s \in PlainHosts : (\E h \in Closers : closing'[h].srv = s) => pc[s] \notin {"off", "dial"}
  <2>1. \/ next = NotClosing
        \/ next.at = "c2" /\ closing[g].at = "c1" /\ next.srv = "none"
        \/ next.at \in {"s2", "s3"} /\ closing[g].at \in {"s1", "s2"} /\ next.srv = closing[g].srv
    BY <1>2, <1>3
  <2> QED
    BY <1>3, <1>4, <2>1, CloseStep
<1>6. TunnelTypeOK' /\ Before' /\ OneAsked'
  BY <1>2, <1>4, <1>5 DEF TunnelInv, TunnelTypeOK, Before, OneAsked
<1>7. Flags'
  BY <1>2, <1>4, <1>5 DEF TunnelInv, Flags
<1>8. closed[w] => ~open[w]
  BY DEF TunnelInv, Flags
<1>9. ClientOwned'
  BY <1>1, <1>2, <1>3, <1>4, <1>5, <1>8 DEF TunnelInv, Owned, ClientOwned
<1>10. ASSUME NEW h \in Closers, NEW s \in Servers, open[s], WillClose(h, s)
       PROVE  WillClose(h, s)'
  BY <1>2, <1>3, <1>5, <1>8, <1>10 DEF WillClose
<1>11. HostsOwned' /\ ServerOwned'
  BY <1>1, <1>2, <1>4, <1>10, NamesDiffer DEF TunnelInv, Owned, HostsOwned, ServerOwned
<1>12. RemoteOwned' /\ PipeOwned'
  BY <1>2, <1>4 DEF TunnelInv, Owned, RemoteOwned, PipeOwned
<1> QED
  BY <1>5, <1>6, <1>7, <1>9, <1>11, <1>12 DEF TunnelInv, Owned

\* The client is closed, and its server connection passed to wrapServerConn.Close.
LEMMA ShutClientKeeps ==
  ASSUME TunnelInv, NEW g \in Closers, ShutClient(g), UNCHANGED <<ctx, pc, xfer>>
  PROVE  TunnelInv'
<1> DEFINE next == IF serverConn = "none" THEN NotClosing ELSE [at |-> "s1", srv |-> serverConn]
<1>1. /\ open \in [TCP \cup Pipe -> BOOLEAN]
      /\ closed \in [Servers \cup {"client"} -> BOOLEAN]
      /\ {"client", "remote", "pipeC", "pipeS"} \cup Servers = TCP \cup Pipe
      /\ {"H", "up"} \cup Servers = Closers
      /\ serverConn \in Servers \cup {"none"}
  BY Types DEF TunnelInv
<1>2. /\ closing[g].at = "c2" /\ closing[g] # NotClosing
      /\ closed' = [closed EXCEPT !["client"] = TRUE]
      /\ open' = [open EXCEPT !["client"] = FALSE]
      /\ closing' = [closing EXCEPT ![g] = next]
      /\ UNCHANGED <<peer, readShut>>
      /\ UNCHANGED <<serverConn, Tls, closeAfterResponse, conn, inner, pc, waiting, copy>>
  BY DEF ShutClient, NotClosing, ctx, xfer
<1>3. /\ next \in [at : {"no", "c1", "c2", "s1", "s2", "s3"}, srv : Servers \cup {"none"}]
      /\ serverConn = "none" => next = NotClosing
      /\ serverConn # "none" => next.at = "s1" /\ next.srv = serverConn /\ serverConn \in Servers
  BY <1>1 DEF NotClosing
<1> HIDE DEF next
<1>4. /\ Calls'
      /\ closing' \in [Closers -> [at : {"no", "c1", "c2", "s1", "s2", "s3"}, srv : Servers \cup {"none"}]]
      /\ closing'[g] = next /\ \A h \in Closers : h # g => closing'[h] = closing[h]
      /\ \A s \in PlainHosts : (\E h \in Closers : closing'[h].srv = s) => pc[s] \notin {"off", "dial"}
      /\ pc["H"] \notin Early
  BY <1>2, <1>3, CloseStep
<1>5. /\ closed' \in [Servers \cup {"client"} -> BOOLEAN] /\ open' \in [TCP \cup Pipe -> BOOLEAN]
      /\ ~open'["client"]
      /\ \A e \in Servers \cup {"remote", "pipeC", "pipeS"} : open'[e] = open[e]
      /\ \A s \in Servers : closed'[s] = closed[s]
  BY <1>1, <1>2, NamesDiffer
<1>6. TunnelTypeOK' /\ Before' /\ OneAsked'
  BY <1>2, <1>4, <1>5 DEF TunnelInv, TunnelTypeOK, Before, OneAsked
<1>7. Flags'
  BY <1>2, <1>4, <1>5, NamesDiffer DEF TunnelInv, Flags
<1>8. \A h \in Closers, s \in Servers : WillClose(h, s) => WillClose(h, s)'
  BY <1>2, <1>4 DEF WillClose
<1>9. HostsOwned'
  BY <1>1, <1>2, <1>5, <1>8, NamesDiffer DEF TunnelInv, Owned, HostsOwned
<1>10. ServerOwned'
  <2>1. serverConn = "server" => WillClose(g, "server")'
    BY <1>3, <1>4, NamesDiffer DEF WillClose
  <2>2. pc["H"] \notin {"upstream", "drain"}
    BY <1>4 DEF Early
  <2> QED
    BY <1>2, <1>5, <1>8, <2>1, <2>2, NamesDiffer DEF TunnelInv, Owned, ServerOwned
<1>11. ClientOwned' /\ RemoteOwned' /\ PipeOwned'
  BY <1>2, <1>5 DEF TunnelInv, Owned, ClientOwned, RemoteOwned, PipeOwned
<1> QED
  BY <1>4, <1>6, <1>7, <1>9, <1>10, <1>11 DEF TunnelInv, Owned

\* A server connection is closed.
LEMMA ShutServerKeeps ==
  ASSUME TunnelInv, NEW g \in Closers, ShutServer(g), UNCHANGED <<ctx, pc, xfer>>
  PROVE  TunnelInv'
<1> DEFINE w == closing[g].srv
           next == [closing[g] EXCEPT !.at = "s3"]
<1>1. /\ open \in [TCP \cup Pipe -> BOOLEAN]
      /\ closed \in [Servers \cup {"client"} -> BOOLEAN]
      /\ {"client", "remote", "pipeC", "pipeS"} \cup Servers = TCP \cup Pipe
      /\ {"H", "up"} \cup Servers = Closers
      /\ closing \in [Closers -> [at : {"no", "c1", "c2", "s1", "s2", "s3"}, srv : Servers \cup {"none"}]]
  BY Types DEF TunnelInv
<1>2. /\ closing[g].at = "s2" /\ closing[g] # NotClosing /\ w \in Servers
      /\ closed' = [closed EXCEPT ![w] = TRUE]
      /\ open' = [open EXCEPT ![w] = FALSE]
      /\ closing' = [closing EXCEPT ![g] = next]
      /\ UNCHANGED <<peer, readShut>>
      /\ UNCHANGED <<serverConn, Tls, closeAfterResponse, conn, inner, pc, waiting, copy>>
  BY <1>1 DEF ShutServer, NotClosing, ctx, xfer, TunnelInv, Calls
<1>3. /\ next \in [at : {"no", "c1", "c2", "s1", "s2", "s3"}, srv : Servers \cup {"none"}]
      /\ next.at = "s3" /\ next.srv = w
  BY <1>1
<1> HIDE DEF next
<1>4. /\ Calls'
      /\ closing' \in [Closers -> [at : {"no", "c1", "c2", "s1", "s2", "s3"}, srv : Servers \cup {"none"}]]
      /\ closing'[g] = next /\ \A h \in Closers : h # g => closing'[h] = closing[h]
      /\ \A s \in PlainHosts : (\E h \in Closers : closing'[h].srv = s) => pc[s] \notin {"off", "dial"}
      /\ w = "server" => pc["H"] \notin Early
  BY <1>2, <1>3, CloseStep
<1>5. w \in PlainHosts => pc[w] \notin {"off", "dial"}
  BY <1>2 DEF TunnelInv, Flags
<1> HIDE DEF w
<1>6. /\ closed' \in [Servers \cup {"client"} -> BOOLEAN] /\ open' \in [TCP \cup Pipe -> BOOLEAN]
      /\ ~open'[w]
      /\ \A e \in TCP \cup Pipe : e # w => open'[e] = open[e]
      /\ \A e \in Servers \cup {"client"} : e # w => closed'[e] = closed[e]
      /\ \A e \in {"client", "remote", "pipeC", "pipeS"} : open'[e] = open[e]
  BY <1>1, <1>2, NamesDiffer
<1>7. TunnelTypeOK'
  BY <1>2, <1>4, <1>6 DEF TunnelInv, TunnelTypeOK
<1>8. Before' /\ OneAsked'
  BY <1>2, <1>4, <1>6, NamesDiffer DEF TunnelInv, Before, OneAsked
<1>9. Flags'
  BY <1>1, <1>2, <1>4, <1>5, <1>6, NamesDiffer DEF TunnelInv, Flags
<1>10. \A h \in Closers, s \in Servers : s # w /\ WillClose(h, s) => WillClose(h, s)'
  BY <1>2, <1>4 DEF WillClose, w
<1>11. HostsOwned'
  BY <1>1, <1>2, <1>6, <1>10, NamesDiffer DEF TunnelInv, Owned, HostsOwned
<1>12. ServerOwned'
  BY <1>1, <1>2, <1>6, <1>10, NamesDiffer DEF TunnelInv, Owned, ServerOwned
<1>13. ClientOwned'
  BY <1>1, <1>2, <1>4, <1>6 DEF TunnelInv, Owned, ClientOwned
<1>14. RemoteOwned' /\ PipeOwned'
  BY <1>2, <1>6 DEF TunnelInv, Owned, RemoteOwned, PipeOwned
<1> QED
  BY <1>4, <1>7, <1>8, <1>9, <1>11, <1>12, <1>13, <1>14 DEF TunnelInv, Owned

\* The client or the pipe is told.
LEMMA PassOnKeeps ==
  ASSUME TunnelInv, NEW g \in Closers, PassOn(g), UNCHANGED <<ctx, pc, xfer>>
  PROVE  TunnelInv'
<1>1. /\ open \in [TCP \cup Pipe -> BOOLEAN]
      /\ {"client", "remote", "pipeC", "pipeS"} \cup Servers = TCP \cup Pipe
      /\ {"H", "up"} \cup Servers = Closers
  BY Types DEF TunnelInv
<1>2. /\ closing[g].at = "s3" /\ closing[g] # NotClosing
      /\ readShut' = (readShut \/ ~Tls)
      /\ open' = [open EXCEPT !["pipeS"] = open["pipeS"] /\ (Tls => closeAfterResponse)]
      /\ closing' = [closing EXCEPT ![g] = NotClosing]
      /\ UNCHANGED <<peer, closed>>
      /\ UNCHANGED <<serverConn, Tls, closeAfterResponse, conn, inner, pc, waiting, copy>>
  BY DEF PassOn, NotClosing, ctx, xfer
<1>3. NotClosing \in [at : {"no", "c1", "c2", "s1", "s2", "s3"}, srv : Servers \cup {"none"}]
  BY DEF NotClosing
<1>4. /\ Calls'
      /\ closing' \in [Closers -> [at : {"no", "c1", "c2", "s1", "s2", "s3"}, srv : Servers \cup {"none"}]]
      /\ closing'[g] = NotClosing /\ \A h \in Closers : h # g => closing'[h] = closing[h]
      /\ \A s \in PlainHosts : (\E h \in Closers : closing'[h].srv = s) => pc[s] \notin {"off", "dial"}
  BY <1>2, <1>3, CloseStep
<1>5. readShut' \in BOOLEAN
  BY <1>2 DEF TunnelInv, TunnelTypeOK
<1>6. /\ open' \in [TCP \cup Pipe -> BOOLEAN]
      /\ open'["pipeS"] => open["pipeS"]
      /\ \A e \in Servers \cup {"client", "remote", "pipeC"} : open'[e] = open[e]
  BY <1>1, <1>2, NamesDiffer
<1>7. TunnelTypeOK'
  BY <1>2, <1>4, <1>5, <1>6 DEF TunnelInv, TunnelTypeOK
<1>8. Before' /\ OneAsked' /\ Flags'
  BY <1>2, <1>4, <1>6, NamesDiffer DEF TunnelInv, Before, OneAsked, Flags
<1>9. \A h \in Closers, s \in Servers : WillClose(h, s) => WillClose(h, s)'
  BY <1>2, <1>4 DEF WillClose
<1>10. HostsOwned' /\ ServerOwned'
  BY <1>1, <1>2, <1>6, <1>9, NamesDiffer DEF TunnelInv, Owned, HostsOwned, ServerOwned
<1>11. ClientOwned'
  BY <1>1, <1>2, <1>4, <1>6 DEF TunnelInv, Owned, ClientOwned
<1>12. RemoteOwned' /\ PipeOwned'
  BY <1>2, <1>6 DEF TunnelInv, Owned, RemoteOwned, PipeOwned
<1> QED
  BY <1>4, <1>7, <1>8, <1>10, <1>11, <1>12 DEF TunnelInv, Owned

\* The read loop of a server's connection ends in its Close method.
LEMMA ReadLoopEndsKeeps ==
  ASSUME TunnelInv, NEW s \in Servers, ReadLoopEnds(s)
  PROVE  TunnelInv'
<1>1. /\ {"H", "U", "I", "M"} \cup Servers = Goroutines /\ DOMAIN pc = Goroutines
      /\ {"H", "up"} \cup Servers = Closers
      /\ closing \in [Closers -> [at : {"no", "c1", "c2", "s1", "s2", "s3"}, srv : Servers \cup {"none"}]]
  BY Types DEF TunnelInv
<1>2. /\ pc[s] \in Reading /\ pc[s] \notin {"off", "dial", "closing"}
      /\ pc' = [pc EXCEPT ![s] = "closing"]
      /\ closing' = [closing EXCEPT ![s] = [at |-> "s1", srv |-> s]]
      /\ UNCHANGED <<peer, open, readShut, closed, serverConn, Tls, closeAfterResponse,
                     conn, inner, waiting, copy>>
  BY DEF ReadLoopEnds, MoveAndClose, Step, CallsClose, net, ctx, xfer, Reading
<1>3. /\ DOMAIN pc' = Goroutines /\ pc'[s] = "closing"
      /\ \A h \in Goroutines : h # s => pc'[h] = pc[h]
      /\ \A h \in {"H", "U", "I", "M"} : pc'[h] = pc[h]
  BY <1>1, <1>2, NamesDiffer
<1>4. /\ closing'[s] = [at |-> "s1", srv |-> s]
      /\ \A g \in Closers : g # s => closing'[g] = closing[g]
      /\ closing'["H"] = closing["H"] /\ closing'["up"] = closing["up"]
      /\ closing' \in [Closers -> [at : {"no", "c1", "c2", "s1", "s2", "s3"}, srv : Servers \cup {"none"}]]
  BY <1>1, <1>2, NamesDiffer
<1>5. closing[s] = NotClosing
  BY <1>2 DEF TunnelInv, Calls
<1>6. TunnelTypeOK'
  <2>1. "closing" \in Places(s)
    BY NamesDiffer DEF Places
  <2>2. \A h \in Goroutines : pc'[h] \in Places(h)
    BY <1>1, <1>3, <2>1 DEF TunnelInv, TunnelTypeOK
  <2> QED
    BY <1>2, <1>3, <1>4, <2>2 DEF TunnelInv, TunnelTypeOK
<1>7. Calls'
  BY <1>1, <1>2, <1>3, <1>4, NamesDiffer DEF TunnelInv, Calls
<1>8. Before' /\ OneAsked'
  BY <1>1, <1>2, <1>3, NamesDiffer DEF TunnelInv, Before, OneAsked
<1>9. Flags'
  <2>1. \A g \in Closers : closing'[g].srv = closing[g].srv \/ closing'[g].srv = s
    BY <1>4
  <2>2. \A h \in Servers : pc'[h] \in {"off", "dial"} => pc[h] \in {"off", "dial"} /\ h # s
    BY <1>1, <1>3
  <2> QED
    BY <1>2, <2>1, <2>2, NamesDiffer DEF TunnelInv, Flags
<1>10. \A h \in Closers, w \in Servers : WillClose(h, w) => WillClose(h, w)'
  BY <1>4, <1>5 DEF WillClose, NotClosing
<1>11. HostsOwned'
  <2>1. WillClose(s, s)'
    BY <1>4 DEF WillClose
  <2> QED
    BY <1>1, <1>2, <1>3, <1>10, <2>1, NamesDiffer DEF TunnelInv, Owned, HostsOwned
<1>12. ClientOwned' /\ ServerOwned'
  BY <1>1, <1>2, <1>3, <1>4, <1>10, NamesDiffer DEF TunnelInv, Owned, ClientOwned, ServerOwned
<1>13. RemoteOwned' /\ PipeOwned'
  BY <1>2, <1>3 DEF TunnelInv, Owned, RemoteOwned, PipeOwned
<1> QED
  BY <1>6, <1>7, <1>8, <1>9, <1>11, <1>12, <1>13 DEF TunnelInv, Owned

-----------------------------------------------------------------------------
(* The http server and handleConnect                                        *)

\* What is known before the dial is over.
LEMMA EarlyFacts ==
  ASSUME TunnelInv, pc["H"] \in Early
  PROVE  /\ open["client"] /\ ~open["pipeC"] /\ ~open["pipeS"]
         /\ pc["I"] = "off" /\ pc["M"] = "off" /\ pc["server"] = "off"
         /\ ~closed["server"] /\ serverConn # "server"
         /\ closing["H"] = NotClosing /\ closing["up"] = NotClosing
         /\ \A g \in Closers : closing[g].srv # "server"
         /\ copy["outer"]["up"].at = "off"
         /\ open["server"] => pc["H"] \in {"upstream", "drain"} /\ conn = "pipeC"
         /\ open["remote"] => pc["H"] \in {"upstream", "drain"} /\ conn = "remote"
<1>1. /\ open["client"] /\ ~open["pipeC"] /\ ~open["pipeS"]
      /\ pc["I"] = "off" /\ pc["M"] = "off" /\ pc["server"] = "off"
      /\ ~closed["server"] /\ serverConn # "server"
  BY DEF TunnelInv, Before
<1>2. copy["outer"]["up"].at = "off"
  BY DEF TunnelInv, Calls, Early
<1>3. closing["H"] = NotClosing /\ closing["up"] = NotClosing
  BY <1>2 DEF TunnelInv, Calls, Early
<1>4. {"H", "up"} \cup Servers = Closers
  BY Types DEF TunnelInv
<1>5. \A s \in Servers : closing[s] # NotClosing => closing[s].srv = s /\ pc[s] = "closing"
  BY DEF TunnelInv, Calls
<1>6. NotClosing.srv = "none"
  BY DEF NotClosing
<1>7. \A g \in Closers : closing[g].srv # "server"
  BY <1>1, <1>3, <1>4, <1>5, <1>6
<1>8. open["server"] => pc["H"] \in {"upstream", "drain"} /\ conn = "pipeC"
  BY <1>1, <1>7 DEF TunnelInv, Owned, ServerOwned, WillClose
<1>9. open["remote"] => pc["H"] \in {"upstream", "drain"} /\ conn = "remote"
  BY <1>1 DEF TunnelInv, Owned, RemoteOwned, Early
<1> QED
  BY <1>1, <1>2, <1>3, <1>7, <1>8, <1>9

\* The http server and the read loops of the plain hosts move on with a request,
\* and no connection is opened or closed.
LEMMA HostMove ==
  ASSUME TunnelInv, pc["H"] \in {"serve", "do", "reply"},
         pc'["H"] \in {"serve", "do", "reply", "last"}, DOMAIN pc' = Goroutines,
         \A g \in {"U", "I", "M", "server"} : pc'[g] = pc[g],
         \A s \in PlainHosts :
           /\ pc'[s] \in {"off", "dial", "busy", "loop", "done", "closing"}
           /\ pc[s] \in Reading <=> pc'[s] \in Reading
           /\ pc[s] = "closing" <=> pc'[s] = "closing",
         OneAsked', closeAfterResponse' \in BOOLEAN,
         UNCHANGED <<peer, open, readShut, closed, serverConn, Tls, conn, inner, waiting, copy, closing>>
  PROVE  TunnelInv'
<1>1. /\ {"H", "U", "I", "M", "server"} \cup PlainHosts = Goroutines
      /\ {"H", "up"} \cup Servers = Closers
  BY Types DEF TunnelInv, Servers
<1>2. TunnelTypeOK'
  <2>1. /\ \A s \in PlainHosts : pc'[s] \in Places(s)
        /\ pc'["H"] \in Places("H")
    BY NamesDiffer DEF Places
  <2>2. \A g \in Goroutines : pc'[g] \in Places(g)
    BY <1>1, <2>1 DEF TunnelInv, TunnelTypeOK
  <2> QED
    BY <2>2 DEF TunnelInv, TunnelTypeOK
<1>3. Calls'
  <2>1. \A s \in Servers : closing[s] # NotClosing => pc'[s] = "closing"
    BY DEF TunnelInv, Calls, Servers
  <2> QED
    BY <2>1 DEF TunnelInv, Calls
<1>4. pc["H"] \in Early
  BY DEF Early
<1>5. Before'
  BY <1>4 DEF TunnelInv, Before
<1>6. Flags'
  <2>1. \A s \in PlainHosts : pc[s] \notin {"off", "dial"} => pc'[s] \notin {"off", "dial"}
    BY <1>1 DEF TunnelInv, Reading, TunnelTypeOK, Places
  <2> QED
    BY <2>1 DEF TunnelInv, Flags
<1>7. HostsOwned'
  BY DEF TunnelInv, Owned, HostsOwned, WillClose
<1>8. ClientOwned' /\ ServerOwned' /\ RemoteOwned' /\ PipeOwned'
  BY DEF TunnelInv, Owned, ClientOwned, ServerOwned, RemoteOwned, PipeOwned, WillClose
<1> QED
  BY <1>2, <1>3, <1>5, <1>6, <1>7, <1>8 DEF TunnelInv, Owned

\* A plain request is made, answered, given up, and its reply is read.
LEMMA RequestKeeps ==
  ASSUME TunnelInv,
         \/ \E s \in PlainHosts :
              \/ PlainRequest(s) \/ PlainDialFails(s)
              \/ \E close, whole \in BOOLEAN : PlainAnswers(s, close, whole)
         \/ PlainFails \/ Move("H", "reply", "serve")
  PROVE  TunnelInv'
<1>1. /\ {"H", "U", "I", "M", "server"} \cup PlainHosts = Goroutines /\ DOMAIN pc = Goroutines
      /\ \A s \in PlainHosts : s \notin {"H", "U", "I", "M", "server"}
      /\ closeAfterResponse \in BOOLEAN
      /\ OneAsked
  BY Types, NamesDiffer DEF TunnelInv, Servers, TunnelTypeOK
<1>2. \A s \in PlainHosts : pc[s] \in {"off", "dial", "busy", "loop", "done", "closing"}
  BY <1>1 DEF TunnelInv, TunnelTypeOK, Places
<1>3. ASSUME NEW s \in PlainHosts, PlainRequest(s) PROVE TunnelInv'
  <2>1. /\ pc["H"] = "serve" /\ pc[s] \in {"off", "loop"}
        /\ pc' = [pc EXCEPT !["H"] = "do", ![s] = IF pc[s] = "off" THEN "dial" ELSE "busy"]
        /\ UNCHANGED <<net, ctx, xfer, closing>>
    BY <1>3 DEF PlainRequest
  <2>2. /\ DOMAIN pc' = Goroutines /\ pc'["H"] = "do"
        /\ pc'[s] = IF pc[s] = "off" THEN "dial" ELSE "busy"
        /\ \A g \in Goroutines : g \notin {"H", s} => pc'[g] = pc[g]
    BY <1>1, <2>1
  <2>3. OneAsked'
    BY <1>1, <2>1, <2>2 DEF OneAsked
  <2> QED
    BY <1>1, <1>2, <2>1, <2>2, <2>3, HostMove DEF net, ctx, xfer, Reading
<1>4. ASSUME NEW s \in PlainHosts, PlainDialFails(s) PROVE TunnelInv'
  <2>1. /\ pc[s] = "dial" /\ pc' = [pc EXCEPT ![s] = "off"] /\ UNCHANGED <<net, ctx, xfer, closing>>
    BY <1>4 DEF PlainDialFails, Move, Step
  <2>2. /\ DOMAIN pc' = Goroutines /\ pc'[s] = "off"
        /\ \A g \in Goroutines : g # s => pc'[g] = pc[g]
    BY <1>1, <2>1
  <2>3. pc["H"] = "do" /\ OneAsked'
    BY <1>1, <2>1, <2>2 DEF OneAsked
  <2> QED
    BY <1>1, <1>2, <2>1, <2>2, <2>3, HostMove DEF net, ctx, xfer, Reading
<1>5. ASSUME NEW s \in PlainHosts, NEW close \in BOOLEAN, NEW whole \in BOOLEAN,
             PlainAnswers(s, close, whole)
      PROVE  TunnelInv'
  <2>1. PICK h \in {"last", "reply"}, to \in {"done", "loop"} :
        /\ pc["H"] = "do" /\ pc[s] = "busy" /\ pc' = [pc EXCEPT !["H"] = h, ![s] = to]
        /\ closeAfterResponse' = (closeAfterResponse \/ close)
        /\ UNCHANGED <<net, serverConn, Tls, conn, inner, xfer, closing>>
    BY <1>5 DEF PlainAnswers
  <2>2. /\ DOMAIN pc' = Goroutines /\ pc'["H"] = h /\ pc'[s] = to
        /\ \A g \in Goroutines : g \notin {"H", s} => pc'[g] = pc[g]
    BY <1>1, <2>1
  <2>3. OneAsked'
    BY <1>1, <2>1, <2>2 DEF OneAsked
  <2>4. closeAfterResponse' \in BOOLEAN
    BY <1>1, <2>1
  <2> QED
    BY <1>1, <1>2, <2>1, <2>2, <2>3, <2>4, HostMove DEF net, xfer, Reading
<1>6. CASE PlainFails \/ Move("H", "reply", "serve")
  <2>1. PICK h \in {"reply", "serve"} :
        /\ pc["H"] \in {"do", "reply"} /\ pc' = [pc EXCEPT !["H"] = h]
        /\ pc["H"] = "do" => \A s \in PlainHosts : pc[s] \notin {"dial", "busy"}
        /\ UNCHANGED <<net, ctx, xfer, closing>>
    BY <1>6 DEF PlainFails, Move, Step
  <2>2. /\ DOMAIN pc' = Goroutines /\ pc'["H"] = h
        /\ \A g \in Goroutines : g # "H" => pc'[g] = pc[g]
    BY <1>1, <2>1
  <2>3. OneAsked'
    BY <1>1, <2>1, <2>2 DEF OneAsked
  <2> QED
    BY <1>1, <1>2, <2>1, <2>2, <2>3, HostMove DEF net, ctx, xfer
<1> QED
  BY <1>3, <1>4, <1>5, <1>6

\* A plain request dials its server.
LEMMA PlainDialKeeps ==
  ASSUME TunnelInv, NEW s \in PlainHosts, PlainDial(s)
  PROVE  TunnelInv'
<1>1. /\ open \in [TCP \cup Pipe -> BOOLEAN]
      /\ {"client", "remote", "pipeC", "pipeS"} \cup Servers = TCP \cup Pipe
      /\ {"H", "U", "I", "M"} \cup Servers = Goroutines /\ DOMAIN pc = Goroutines
      /\ {"H", "up"} \cup Servers = Closers
      /\ s \in Servers
  BY Types, NamesDiffer DEF TunnelInv
<1>2. /\ pc[s] = "dial" /\ pc' = [pc EXCEPT ![s] = "busy"]
      /\ open' = [open EXCEPT ![s] = TRUE]
      /\ serverConn' = s
      /\ UNCHANGED <<peer, readShut, closed, Tls, closeAfterResponse, conn, inner, waiting, copy, closing>>
  BY DEF PlainDial, Step, xfer
<1>3. /\ DOMAIN pc' = Goroutines /\ pc'[s] = "busy"
      /\ \A h \in Goroutines : h # s => pc'[h] = pc[h]
      /\ \A h \in {"H", "U", "I", "M", "server"} : pc'[h] = pc[h]
  BY <1>1, <1>2, NamesDiffer
<1>4. /\ open' \in [TCP \cup Pipe -> BOOLEAN]
      /\ \A e \in TCP \cup Pipe : e # s => open'[e] = open[e]
      /\ \A e \in {"client", "remote", "pipeC", "pipeS", "server"} : open'[e] = open[e]
  BY <1>1, <1>2, NamesDiffer
<1>5. pc["H"] = "do" /\ OneAsked'
  <2>1. \A t \in PlainHosts : pc'[t] \in {"dial", "busy"} => pc[t] \in {"dial", "busy"}
    BY <1>1, <1>2, <1>3, NamesDiffer
  <2> QED
    BY <1>2, <1>3, <2>1 DEF TunnelInv, OneAsked
<1>6. ~open["server"] /\ ~open["remote"] /\ open["client"] /\ ~open["pipeC"] /\ ~open["pipeS"]
  BY <1>5, EarlyFacts DEF Early
<1>7. TunnelTypeOK'
  <2>1. "busy" \in Places(s)
    BY <1>1, NamesDiffer DEF Places
  <2>2. \A h \in Goroutines : pc'[h] \in Places(h)
    BY <1>1, <1>3, <2>1 DEF TunnelInv, TunnelTypeOK
  <2> QED
    BY <1>1, <1>2, <1>3, <1>4, <2>2 DEF TunnelInv, TunnelTypeOK
<1>8. Calls'
  <2>1. \A h \in Servers : closing[h] # NotClosing => h # s /\ pc'[h] = "closing"
    BY <1>1, <1>2, <1>3 DEF TunnelInv, Calls
  <2> QED
    BY <1>2, <1>3, <2>1 DEF TunnelInv, Calls
<1>9. Before'
  BY <1>2, <1>3, <1>4, NamesDiffer DEF TunnelInv, Before
<1>10. Flags'
  <2>1. ~closed[s]
    BY <1>2 DEF TunnelInv, Flags
  <2> QED
    BY <1>1, <1>2, <1>3, <1>4, <2>1, NamesDiffer DEF TunnelInv, Flags
<1>11. HostsOwned'
  BY <1>1, <1>2, <1>3, <1>4, NamesDiffer DEF TunnelInv, Owned, HostsOwned, WillClose, Reading
<1>12. ClientOwned' /\ ServerOwned' /\ RemoteOwned' /\ PipeOwned'
  BY <1>2, <1>3, <1>4, <1>6 DEF TunnelInv, Owned, ClientOwned, ServerOwned, RemoteOwned, PipeOwned
<1> QED
  BY <1>5, <1>7, <1>8, <1>9, <1>10, <1>11, <1>12 DEF TunnelInv, Owned

\* handleConnect moves on after the dial, or the http server ends: it may call
\* Close on the client or begin the transfer, and closes at most the tunnel's conn.
LEMMA HMove ==
  ASSUME TunnelInv, NEW to \in Places("H") \ Early, NEW S \in SUBSET {"none", "pipeC", "remote"},
         pc["H"] \in {"serve", "last", "failed", "hijack", "write", "transfer", "closing"},
         closing["H"] = NotClosing,
         pc' = [pc EXCEPT !["H"] = to],
         open' = [e \in DOMAIN open |-> open[e] /\ e \notin S],
         \* The tunnel's connection is closed, or does not exist.
         to \in {"failed", "ended"} => conn \in S \/ pc["H"] \in {"serve", "last", "failed"},
         to \notin {"failed", "ended"} => pc["H"] \notin {"serve", "last", "failed"},
         \/ UNCHANGED closing /\ (to \in {"closing", "ended"} => pc["H"] = "closing")
         \/ CallsClose("H", "c1", "none") /\ to \in {"closing", "ended"},
         \/ /\ UNCHANGED <<waiting, copy>>
            /\ to \in {"transfer", "closing", "ended"} \/ pc["H"] \notin {"transfer", "closing"}
         \/ Begin("outer") /\ to = "transfer" /\ pc["H"] = "write",
         UNCHANGED <<peer, readShut, closed, serverConn, Tls, closeAfterResponse, conn, inner>>
  PROVE  TunnelInv'
<1>1. /\ open \in [TCP \cup Pipe -> BOOLEAN]
      /\ {"client", "remote", "pipeC", "pipeS"} \cup Servers = TCP \cup Pipe
      /\ {"H", "U", "I", "M"} \cup Servers = Goroutines /\ DOMAIN pc = Goroutines
      /\ {"H", "up"} \cup Servers = Closers
      /\ closing \in [Closers -> [at : {"no", "c1", "c2", "s1", "s2", "s3"}, srv : Servers \cup {"none"}]]
  BY Types DEF TunnelInv
<1>2. /\ DOMAIN pc' = Goroutines /\ pc'["H"] = to
      /\ \A h \in Goroutines : h # "H" => pc'[h] = pc[h]
      /\ \A s \in Servers : pc'[s] = pc[s]
  BY <1>1, NamesDiffer
<1>3. /\ open' \in [TCP \cup Pipe -> BOOLEAN]
      /\ \A e \in TCP \cup Pipe : open'[e] <=> open[e] /\ e \notin S
      /\ \A e \in Servers \cup {"client", "pipeS"} : open'[e] = open[e]
  BY <1>1, NamesDiffer
<1>4. /\ closing' \in [Closers -> [at : {"no", "c1", "c2", "s1", "s2", "s3"}, srv : Servers \cup {"none"}]]
      /\ \A g \in Closers : g # "H" => closing'[g] = closing[g]
      /\ closing'["H"] = closing["H"] \/ closing'["H"] = [at |-> "c1", srv |-> "none"]
      /\ \A s \in Servers : closing'[s] = closing[s]
  BY <1>1, NamesDiffer DEF CallsClose
<1>5. /\ waiting' \in [Transfers -> 0..2]
      /\ copy' \in [Transfers -> [Directions ->
             [at : {"off", "copy", "blocked", "closing", "report", "ended"}, err : BOOLEAN]]]
  <2>1. CASE UNCHANGED <<waiting, copy>>
    BY <2>1 DEF TunnelInv, TunnelTypeOK
  <2>2. CASE Begin("outer")
    BY <2>2, BeginTypes DEF TunnelInv, Transfers
  <2> QED
    BY <2>1, <2>2
<1>6. TunnelTypeOK'
  <2>1. \A h \in Goroutines : pc'[h] \in Places(h)
    BY <1>1, <1>2 DEF TunnelInv, TunnelTypeOK
  <2> QED
    BY <1>2, <1>3, <1>4, <1>5, <2>1 DEF TunnelInv, TunnelTypeOK
<1>7. Calls'
  <2>1. /\ closing'["up"] # NotClosing => copy'["outer"]["up"].at = "closing"
        /\ pc'["H"] \notin {"transfer", "closing", "ended"} => copy'["outer"]["up"].at = "off"
    BY <1>1, <1>2, <1>4 DEF TunnelInv, Calls
  <2>2. closing'["H"] # NotClosing => pc'["H"] \in {"closing", "ended"}
    BY <1>2 
  <2>3. \A s \in Servers : closing'[s] # NotClosing =>
          closing'[s].at \in {"s1", "s2", "s3"} /\ closing'[s].srv = s /\ pc'[s] = "closing"
    BY <1>2, <1>4 DEF TunnelInv, Calls
  <2>4. \A g \in Closers : /\ closing'[g].at \in {"s1", "s2", "s3"} => closing'[g].srv \in Servers
                           /\ closing'[g].at \in {"no", "c1", "c2"} => closing'[g].srv = "none"
    BY <1>4 DEF TunnelInv, Calls
  <2> QED
    BY <2>1, <2>2, <2>3, <2>4 DEF Calls
<1>8. Before' /\ OneAsked'
  BY <1>2, NamesDiffer DEF TunnelInv, Before, OneAsked
<1>9. Flags'
  <2>1. \A g \in Closers : closing'[g].srv = closing[g].srv \/ closing'[g].srv = "none"
    BY <1>4
  <2>2. \A w \in Servers \cup {"client"} : closed'[w] => ~open'[w]
    BY <1>3 DEF TunnelInv, Flags
  <2>3. ASSUME NEW s \in PlainHosts,
               open'[s] \/ closed'[s] \/ serverConn' = s \/ (\E g \in Closers : closing'[g].srv = s)
        PROVE  pc'[s] \notin {"off", "dial"}
    <3>1. s \in Servers /\ s # "none" /\ pc'[s] = pc[s] /\ open'[s] = open[s]
      BY <1>2, <1>3, NamesDiffer
    <3>2. (\E g \in Closers : closing'[g].srv = s) => \E g \in Closers : closing[g].srv = s
      BY <2>1, <3>1
    <3> QED
      BY <2>3, <3>1, <3>2 DEF TunnelInv, Flags
  <2> QED
    BY <2>2, <2>3 DEF Flags
<1>10. \A g \in Closers, s \in Servers : WillClose(g, s) => WillClose(g, s)'
  BY <1>4 DEF WillClose, NotClosing
<1>11. HostsOwned' /\ ServerOwned'
  BY <1>1, <1>2, <1>3, <1>10, NamesDiffer DEF TunnelInv, Owned, HostsOwned, ServerOwned
<1>12. ClientOwned'
  <2>1. CASE to \notin {"closing", "ended"}
    BY <1>2, <2>1 DEF ClientOwned
  <2>2. CASE CallsClose("H", "c1", "none")
    BY <1>1, <2>2 DEF CallsClose, ClientOwned
  <2>3. CASE pc["H"] = "closing"
    <3>1. ~open["client"]
      BY <2>3 DEF TunnelInv, Owned, ClientOwned, NotClosing
    <3> QED
      BY <1>3, <3>1 DEF ClientOwned
  <2> QED
    BY <2>1, <2>2, <2>3
<1>13. to \in {"failed", "hijack", "write", "transfer", "closing", "ended"}
  BY DEF Early, Places
<1>14. RemoteOwned'
  <2>1. open'["remote"] => open["remote"] /\ "remote" \notin S
    BY <1>1, <1>3
  <2>2. pc'["I"] = pc["I"] /\ pc'["M"] = pc["M"]
    BY <1>1, <1>2
  <2> QED
    BY <1>2, <1>13, <2>1, <2>2 DEF TunnelInv, Owned, RemoteOwned
<1>15. PipeOwned'
  <2>1. (open'["pipeC"] => open["pipeC"] /\ "pipeC" \notin S) /\ open'["pipeS"] = open["pipeS"]
    BY <1>1, <1>3
  <2>2. pc'["I"] = pc["I"] /\ pc'["M"] = pc["M"]
    BY <1>1, <1>2
  <2> QED
    BY <1>2, <1>13, <2>1, <2>2 DEF TunnelInv, Owned, PipeOwned
<1> QED
  BY <1>6, <1>7, <1>8, <1>9, <1>11, <1>12, <1>14, <1>15 DEF TunnelInv, Owned

\* The end of the http server, and handleConnect after the dial.
LEMMA HandleKeeps ==
  ASSUME TunnelInv,
         \/ ServerCloses \/ MoveAndClose("H", "last", "ended", "c1", "none")
         \/ Hijack \/ HijackFails \/ Established \/ NotEstablished
         \/ TransferReturns \/ CloseConn
  PROVE  TunnelInv'
<1>1. /\ open = [e \in DOMAIN open |-> open[e] /\ e \notin {}]
      /\ conn \in {"none", "pipeC", "remote"}
      /\ pc["H"] \notin {"closing", "ended"} => closing["H"] = NotClosing
  BY Types DEF TunnelInv, Calls
<1>2. \A to \in {"failed", "hijack", "write", "transfer", "closing", "ended"} : to \in Places("H") \ Early
  BY DEF Places, Early
<1>3. {} \in SUBSET {"none", "pipeC", "remote"} /\ {conn} \in SUBSET {"none", "pipeC", "remote"}
  BY <1>1
<1>4. CASE ServerCloses \/ MoveAndClose("H", "last", "ended", "c1", "none")
  <2>1. /\ pc["H"] \in {"serve", "last", "failed"} /\ pc' = [pc EXCEPT !["H"] = "ended"]
        /\ CallsClose("H", "c1", "none") /\ UNCHANGED <<net, ctx, xfer>>
    BY <1>4 DEF ServerCloses, MoveAndClose, Step
  <2> QED
    BY <1>1, <1>2, <1>3, <2>1, HMove DEF net, ctx, xfer
<1>5. CASE Hijack
  <2>1. /\ pc["H"] = "hijack" /\ pc' = [pc EXCEPT !["H"] = "write"]
        /\ UNCHANGED <<net, ctx, xfer, closing>>
    BY <1>5 DEF Hijack, Move, Step
  <2> QED
    BY <1>1, <1>2, <1>3, <2>1, HMove DEF net, ctx, xfer
<1>6. CASE HijackFails
  <2>1. /\ pc["H"] = "hijack" /\ pc' = [pc EXCEPT !["H"] = "failed"]
        /\ open' = [e \in DOMAIN open |-> open[e] /\ e \notin {conn}]
        /\ UNCHANGED <<peer, readShut, closed, ctx, xfer, closing>>
    BY <1>6 DEF HijackFails, MoveAndShut, Step, Shut
  <2> QED
    BY <1>1, <1>2, <1>3, <2>1, HMove DEF ctx, xfer
<1>7. CASE Established
  <2>1. /\ pc["H"] = "write" /\ pc' = [pc EXCEPT !["H"] = "transfer"]
        /\ Begin("outer") /\ UNCHANGED <<net, ctx, closing>>
    BY <1>7 DEF Established, Step
  <2> QED
    BY <1>1, <1>2, <1>3, <2>1, HMove DEF net, ctx
<1>8. CASE NotEstablished \/ TransferReturns
  <2>1. /\ pc["H"] \in {"write", "transfer"} /\ pc' = [pc EXCEPT !["H"] = "closing"]
        /\ CallsClose("H", "c1", "none") /\ UNCHANGED <<net, ctx, xfer>>
    BY <1>8 DEF NotEstablished, TransferReturns, MoveAndClose, Step
  <2> QED
    BY <1>1, <1>2, <1>3, <2>1, HMove DEF net, ctx, xfer
<1>9. CASE CloseConn
  <2>1. /\ pc["H"] = "closing" /\ pc' = [pc EXCEPT !["H"] = "ended"]
        /\ closing["H"] = NotClosing
        /\ open' = [e \in DOMAIN open |-> open[e] /\ e \notin {conn}]
        /\ UNCHANGED <<peer, readShut, closed, ctx, xfer, closing>>
    BY <1>9 DEF CloseConn, MoveAndShut, Step, Shut
  <2> QED
    BY <1>1, <1>2, <1>3, <2>1, HMove DEF ctx, xfer
<1> QED
  BY <1>4, <1>5, <1>6, <1>7, <1>8, <1>9

\* A step of the dial: from a place before its end to any place up to the hijack,
\* with the tunnel's connections opened or closed.
LEMMA DialStep ==
  ASSUME TunnelInv, pc["H"] \in {"serve", "upstream", "drain"},
         NEW h \in {"upstream", "drain", "failed", "hijack"}, NEW u \in Places("U"),
         NEW i \in {"off", "peek"},
         pc' = [pc EXCEPT !["H"] = h, !["U"] = u, !["I"] = i],
         open' \in [TCP \cup Pipe -> BOOLEAN],
         open'["client"] = open["client"], \A s \in PlainHosts : open'[s] = open[s],
         conn' \in {"none", "pipeC", "remote"}, serverConn' \in {serverConn, "none", "server"},
         h \in Early => i = "off" /\ ~open'["pipeC"] /\ ~open'["pipeS"] /\ serverConn' = serverConn,
         open'["server"] => (h \in Early /\ conn' = "pipeC") \/ serverConn' = "server",
         open'["remote"] => conn' = "remote" /\ h # "failed",
         open'["pipeC"] => conn' = "pipeC" /\ h = "hijack",
         open'["pipeS"] => i = "peek",
         UNCHANGED <<peer, readShut, closed, Tls, closeAfterResponse, inner, waiting, copy, closing>>
  PROVE  TunnelInv'
<1>1. /\ {"client", "remote", "pipeC", "pipeS"} \cup Servers = TCP \cup Pipe
      /\ {"H", "U", "I", "M"} \cup Servers = Goroutines /\ DOMAIN pc = Goroutines
      /\ {"H", "up"} \cup Servers = Closers
      /\ serverConn \in Servers \cup {"none"}
  BY Types DEF TunnelInv
<1>2. /\ open["client"] /\ pc["M"] = "off" /\ pc["server"] = "off"
      /\ ~closed["server"] /\ serverConn # "server"
      /\ closing["H"] = NotClosing /\ closing["up"] = NotClosing
      /\ copy["outer"]["up"].at = "off"
  BY EarlyFacts DEF Early
<1>3. /\ DOMAIN pc' = Goroutines
      /\ pc'["H"] = h /\ pc'["U"] = u /\ pc'["I"] = i /\ pc'["M"] = "off"
      /\ \A s \in Servers : pc'[s] = pc[s]
  BY <1>1, <1>2, NamesDiffer
<1>4. TunnelTypeOK'
  <2>1. h \in Places("H") /\ i \in Places("I")
    BY DEF Places
  <2>2. \A g \in Goroutines : pc'[g] \in Places(g)
    BY <1>1, <1>2, <1>3, <2>1 DEF TunnelInv, TunnelTypeOK
  <2>3. serverConn' \in Servers \cup {"none"}
    BY <1>1, NamesDiffer
  <2> QED
    BY <1>3, <2>2, <2>3 DEF TunnelInv, TunnelTypeOK
<1>5. Calls'
  BY <1>1, <1>2, <1>3 DEF TunnelInv, Calls
<1>6. Before' /\ OneAsked'
  BY <1>2, <1>3, NamesDiffer DEF TunnelInv, Before, OneAsked
<1>7. Flags'
  <2>1. \A w \in Servers \cup {"client"} : closed'[w] => ~open'[w]
    BY <1>2 DEF TunnelInv, Flags, Servers
  <2>2. \A s \in PlainHosts : serverConn' = s => serverConn = s
    BY NamesDiffer
  <2> QED
    BY <1>3, <2>1, <2>2, NamesDiffer DEF TunnelInv, Flags
<1>8. ClientOwned' /\ HostsOwned'
  BY <1>3, NamesDiffer DEF TunnelInv, Owned, ClientOwned, HostsOwned, WillClose
<1>9. ServerOwned'
  BY <1>2, <1>3 DEF ServerOwned, Early
<1>10. RemoteOwned' /\ PipeOwned'
  BY <1>3 DEF RemoteOwned, PipeOwned
<1> QED
  BY <1>4, <1>5, <1>6, <1>7, <1>8, <1>9, <1>10 DEF TunnelInv, Owned

\* The dial succeeds.
LEMMA DialledKeeps ==
  ASSUME TunnelInv, pc["H"] \in {"serve", "upstream", "drain"}, NEW intercept \in BOOLEAN,
         pc["H"] # "serve" => (intercept <=> conn = "pipeC"),
         Dialled(intercept), UNCHANGED dialUnchanged
  PROVE  TunnelInv'
<1>1. /\ open \in [TCP \cup Pipe -> BOOLEAN]
      /\ {"client", "remote", "pipeC", "pipeS"} \cup Servers = TCP \cup Pipe
  BY Types DEF TunnelInv
<1>2. /\ ~open["pipeC"] /\ ~open["pipeS"]
      /\ open["server"] => pc["H"] \in {"upstream", "drain"} /\ conn = "pipeC"
      /\ open["remote"] => pc["H"] \in {"upstream", "drain"} /\ conn = "remote"
  BY EarlyFacts DEF Early
<1>3. /\ pc' = [pc EXCEPT !["H"] = "hijack", !["U"] = "off", !["I"] = IF intercept THEN "peek" ELSE "off"]
      /\ open' = [e \in DOMAIN open |-> open[e] \/ e = Dialling(intercept) \/ (intercept /\ e \in Pipe)]
      /\ conn' = IF intercept THEN "pipeC" ELSE "remote"
      /\ serverConn' = IF intercept THEN "server" ELSE "none"
      /\ UNCHANGED <<peer, readShut, closed, Tls, closeAfterResponse, inner, waiting, copy, closing>>
  BY DEF Dialled, dialUnchanged, xfer
<1>4. /\ open' \in [TCP \cup Pipe -> BOOLEAN]
      /\ open'["client"] = open["client"]
      /\ \A s \in PlainHosts : open'[s] = open[s]
      /\ open'["server"] => open["server"] \/ intercept
      /\ open'["remote"] => open["remote"] \/ ~intercept
      /\ open'["pipeC"] => intercept
      /\ open'["pipeS"] => intercept
  BY <1>1, <1>2, <1>3, NamesDiffer DEF Dialling, Pipe
<1>5. "off" \in Places("U") /\ "hijack" \notin Early
  BY DEF Places, Early
<1>6. CASE intercept
  BY <1>2, <1>3, <1>4, <1>5, <1>6, DialStep
<1>7. CASE ~intercept
  BY <1>2, <1>3, <1>4, <1>5, <1>7, DialStep
<1> QED
  BY <1>6, <1>7

\* The dial fails: the connection that was made is closed.
LEMMA DialFailedKeeps ==
  ASSUME TunnelInv, pc["H"] \in {"serve", "upstream", "drain"}, NEW intercept \in BOOLEAN,
         pc["H"] # "serve" => (intercept <=> conn = "pipeC"),
         DialFailed(intercept), UNCHANGED dialUnchanged
  PROVE  TunnelInv'
<1>1. /\ open \in [TCP \cup Pipe -> BOOLEAN]
      /\ {"client", "remote", "pipeC", "pipeS"} \cup Servers = TCP \cup Pipe
      /\ {"H", "U", "I", "M"} \cup Servers = Goroutines /\ DOMAIN pc = Goroutines
  BY Types DEF TunnelInv
<1>2. /\ ~open["pipeC"] /\ ~open["pipeS"] /\ pc["I"] = "off"
      /\ open["server"] => pc["H"] \in {"upstream", "drain"} /\ conn = "pipeC"
      /\ open["remote"] => pc["H"] \in {"upstream", "drain"} /\ conn = "remote"
  BY EarlyFacts DEF Early
<1>3. /\ pc' = [pc EXCEPT !["H"] = "failed", !["U"] = "off"]
      /\ open' = [open EXCEPT ![Dialling(intercept)] = FALSE]
      /\ conn' = "none" /\ serverConn' = "none"
      /\ UNCHANGED <<peer, readShut, closed, Tls, closeAfterResponse, inner, waiting, copy, closing>>
  BY DEF DialFailed, dialUnchanged, xfer
<1>4. pc' = [pc EXCEPT !["H"] = "failed", !["U"] = "off", !["I"] = "off"]
  BY <1>1, <1>2, <1>3
<1>5. /\ open' \in [TCP \cup Pipe -> BOOLEAN]
      /\ open'["client"] = open["client"]
      /\ \A s \in PlainHosts : open'[s] = open[s]
      /\ ~open'["pipeC"] /\ ~open'["pipeS"] /\ ~open'["server"] /\ ~open'["remote"]
  BY <1>1, <1>2, <1>3, NamesDiffer DEF Dialling
<1>6. "off" \in Places("U") /\ "failed" \notin Early
  BY DEF Places, Early
<1> QED
  BY <1>3, <1>4, <1>5, <1>6, DialStep

\* The dial through an upstream proxy begins.
LEMMA ConnectUpstreamKeeps ==
  ASSUME TunnelInv, NEW intercept \in BOOLEAN, ConnectUpstream(intercept)
  PROVE  TunnelInv'
<1>1. /\ open \in [TCP \cup Pipe -> BOOLEAN]
      /\ {"client", "remote", "pipeC", "pipeS"} \cup Servers = TCP \cup Pipe
      /\ {"H", "U", "I", "M"} \cup Servers = Goroutines /\ DOMAIN pc = Goroutines
  BY Types DEF TunnelInv
<1>2. /\ pc["H"] = "serve" /\ pc["H"] \in Early
      /\ pc' = [pc EXCEPT !["H"] = "upstream", !["U"] = "asking"]
      /\ open' = [open EXCEPT ![Dialling(intercept)] = TRUE]
      /\ conn' = IF intercept THEN "pipeC" ELSE "remote"
      /\ serverConn' = serverConn
      /\ UNCHANGED <<peer, readShut, closed, Tls, closeAfterResponse, inner, waiting, copy, closing>>
  BY DEF ConnectUpstream, FirstRequest, dialUnchanged, xfer, Early
<1>3. /\ ~open["pipeC"] /\ ~open["pipeS"] /\ ~open["server"] /\ ~open["remote"] /\ pc["I"] = "off"
  BY <1>2, EarlyFacts
<1>4. pc' = [pc EXCEPT !["H"] = "upstream", !["U"] = "asking", !["I"] = "off"]
  BY <1>1, <1>2, <1>3
<1>5. /\ open' \in [TCP \cup Pipe -> BOOLEAN]
      /\ open'["client"] = open["client"]
      /\ \A s \in PlainHosts : open'[s] = open[s]
      /\ ~open'["pipeC"] /\ ~open'["pipeS"]
      /\ open'["server"] => intercept
      /\ open'["remote"] => ~intercept
  BY <1>1, <1>2, <1>3, NamesDiffer DEF Dialling
<1>6. "asking" \in Places("U") /\ "upstream" \in Early
  BY DEF Places, Early
<1>7. CASE intercept
  BY <1>2, <1>4, <1>5, <1>6, <1>7, DialStep
<1>8. CASE ~intercept
  BY <1>2, <1>4, <1>5, <1>6, <1>8, DialStep
<1> QED
  BY <1>7, <1>8

\* The minute is over: the connection to the upstream proxy is closed.
LEMMA TimeoutKeeps ==
  ASSUME TunnelInv, Timeout
  PROVE  TunnelInv'
<1>1. /\ open \in [TCP \cup Pipe -> BOOLEAN]
      /\ {"client", "remote", "pipeC", "pipeS"} \cup Servers = TCP \cup Pipe
      /\ {"H", "U", "I", "M"} \cup Servers = Goroutines /\ DOMAIN pc = Goroutines
      /\ conn \in {"none", "pipeC", "remote"}
      /\ pc["U"] \in Places("U")
  BY Types DEF TunnelInv, TunnelTypeOK, Goroutines
<1>2. /\ pc["H"] = "upstream" /\ pc["H"] \in Early
      /\ pc' = [pc EXCEPT !["H"] = "drain"]
      /\ open' = [e \in DOMAIN open |-> open[e] /\ e \notin {UpstreamConn}]
      /\ conn' = conn /\ serverConn' = serverConn
      /\ UNCHANGED <<peer, readShut, closed, Tls, closeAfterResponse, inner, waiting, copy, closing>>
  BY DEF Timeout, MoveAndShut, Step, Shut, ctx, xfer, Early
<1>3. /\ ~open["pipeC"] /\ ~open["pipeS"] /\ pc["I"] = "off"
      /\ open["server"] => conn = "pipeC"
      /\ open["remote"] => conn = "remote"
  BY <1>2, EarlyFacts
<1>4. pc' = [pc EXCEPT !["H"] = "drain", !["U"] = pc["U"], !["I"] = "off"]
  BY <1>1, <1>2, <1>3
<1>5. /\ open' \in [TCP \cup Pipe -> BOOLEAN]
      /\ open'["client"] = open["client"]
      /\ \A s \in PlainHosts : open'[s] = open[s]
      /\ ~open'["pipeC"] /\ ~open'["pipeS"]
      /\ open'["server"] => conn = "pipeC"
      /\ open'["remote"] => conn = "remote"
  BY <1>1, <1>2, <1>3, NamesDiffer DEF UpstreamConn, Dialling
<1>6. "drain" \in Early
  BY DEF Early
<1> QED
  BY <1>1, <1>2, <1>4, <1>5, <1>6, DialStep

\* All of handleConnect's dial.
LEMMA DialKeeps ==
  ASSUME TunnelInv,
         \/ \E intercept \in BOOLEAN : Connect(intercept)
         \/ TakeAnswer \/ Drained
  PROVE  TunnelInv'
<1>1. ASSUME NEW intercept \in BOOLEAN, Connect(intercept) PROVE TunnelInv'
  <2>1. pc["H"] = "serve" /\ pc["H"] \in Early /\ UNCHANGED dialUnchanged
    BY <1>1 DEF Connect, FirstRequest, Early
  <2> QED
    BY <1>1, <2>1, DialledKeeps, DialFailedKeeps DEF Connect
<1>2. CASE TakeAnswer \/ Drained
  <2>1. /\ pc["H"] \in {"upstream", "drain"} /\ pc["H"] \in Early /\ UNCHANGED dialUnchanged
        /\ Dialled(Intercepting) \/ DialFailed(Intercepting)
    BY <1>2 DEF TakeAnswer, Drained, Early
  <2>2. Intercepting \in BOOLEAN /\ (Intercepting <=> conn = "pipeC")
    BY DEF Intercepting
  <2> QED
    BY <2>1, <2>2, DialledKeeps, DialFailedKeeps
<1> QED
  BY <1>1, <1>2

-----------------------------------------------------------------------------
\* A client that was accepted and has asked for nothing.
LEMMA InitKeeps == TunnelInit => TunnelInv
<1> SUFFICES ASSUME TunnelInit PROVE TunnelInv
  OBVIOUS
<1>1. /\ "client" \in TCP \cup Pipe /\ "remote" \in TCP \cup Pipe /\ "pipeC" \in TCP \cup Pipe
      /\ "pipeS" \in TCP \cup Pipe /\ Servers \subseteq TCP \cup Pipe
      /\ {"H", "U", "I", "M"} \cup Servers = Goroutines
      /\ {"H", "up"} \cup Servers = Closers
  BY DEF TCP, Pipe, Goroutines, Closers
<1>2. /\ open \in [TCP \cup Pipe -> BOOLEAN]
      /\ \A e \in TCP \cup Pipe : open[e] <=> e = "client"
      /\ \A w \in Servers \cup {"client"} : ~closed[w]
      /\ closed \in [Servers \cup {"client"} -> BOOLEAN]
      /\ serverConn = "none" /\ conn = "none" /\ inner = "none"
  BY DEF TunnelInit
<1>3. /\ pc["H"] = "serve" /\ DOMAIN pc = Goroutines
      /\ \A g \in Goroutines : g # "H" => pc[g] = "off"
  BY <1>1 DEF TunnelInit
<1>4. /\ \A g \in Closers : closing[g] = NotClosing
      /\ NotClosing \in [at : {"no", "c1", "c2", "s1", "s2", "s3"}, srv : Servers \cup {"none"}]
      /\ NotClosing.at = "no" /\ NotClosing.srv = "none"
  BY DEF TunnelInit, NotClosing
<1>5. /\ copy \in [Transfers -> [Directions ->
             [at : {"off", "copy", "blocked", "closing", "report", "ended"}, err : BOOLEAN]]]
      /\ copy["outer"]["up"].at = "off"
  BY DEF TunnelInit, Copying, Transfers, Directions
<1>6. TunnelTypeOK
  <2>1. \A g \in Goroutines : pc[g] \in Places(g)
    BY <1>3 DEF Places
  <2>2. closing \in [Closers -> [at : {"no", "c1", "c2", "s1", "s2", "s3"}, srv : Servers \cup {"none"}]]
    BY <1>4 DEF TunnelInit
  <2>3. peer \in [TCP -> {"up", "fin", "rst"}] /\ waiting \in [Transfers -> 0..2]
    BY DEF TunnelInit
  <2>4. readShut \in BOOLEAN /\ Tls \in BOOLEAN /\ closeAfterResponse \in BOOLEAN
    BY DEF TunnelInit
  <2> QED
    BY <1>2, <1>3, <1>5, <2>1, <2>2, <2>3, <2>4 DEF TunnelTypeOK
<1>7. Calls
  BY <1>1, <1>3, <1>4, <1>5 DEF Calls
<1>8. Before
  BY <1>1, <1>2, <1>3, NamesDiffer DEF Before
<1>9. OneAsked /\ Flags
  BY <1>1, <1>2, <1>3, <1>4, NamesDiffer DEF OneAsked, Flags
<1>10. Owned
  BY <1>1, <1>2, <1>3, NamesDiffer
  DEF Owned, ClientOwned, HostsOwned, ServerOwned, RemoteOwned, PipeOwned
<1> QED
  BY <1>6, <1>7, <1>8, <1>9, <1>10 DEF TunnelInv

\* TunnelInv is inductive.
LEMMA NextKeeps == TunnelInv /\ [TunnelNext]_vars => TunnelInv'
<1> SUFFICES ASSUME TunnelInv, [TunnelNext]_vars PROVE TunnelInv'
  OBVIOUS
<1>1. CASE Environment
  <2>1. ASSUME NEW e \in {"client", "remote"} \cup Servers, NEW how \in {"fin", "rst"}, Leaves(e, how)
        PROVE  TunnelInv'
    BY <2>1, LeavesKeeps DEF TCP
  <2>2. CASE \/ \E e \in {"client", "remote"}, how \in {"fin", "rst"} : Leaves(e, how)
             \/ \E s \in Servers : Leaves(s, "fin")
    BY <2>1, <2>2
  <2>3. CASE \/ \E s \in PlainHosts :
                  PlainRequest(s) \/ \E close, whole \in BOOLEAN : PlainAnswers(s, close, whole)
             \/ Replied
    BY <2>3, RequestKeeps, HandleKeeps DEF Replied
  <2>4. CASE \E intercept \in BOOLEAN : Connect(intercept) \/ ConnectUpstream(intercept)
    BY <2>4, DialKeeps, ConnectUpstreamKeeps
  <2>5. CASE \E answer \in {"200", "refused"} : UpstreamAnswers(answer)
    BY <2>5, UpstreamKeeps
  <2>6. CASE \/ Peek \/ ClientHello \/ TlsEstablished \/ Request
             \/ \E close, whole \in BOOLEAN : Responds(close, whole)
    BY <2>6, MovesKeep
  <2>7. CASE TlsFails
    BY <2>7, EndsKeep
  <2>8. CASE CopyBlocks \/ \E t \in Transfers, d \in Directions : CopyWriteFails(t, d)
    BY <2>8, CopiesKeep
  <2> QED
    BY <1>1, <2>2, <2>3, <2>4, <2>5, <2>6, <2>7, <2>8 DEF Environment
<1>2. CASE HandleConnect
  BY <1>2, DialKeeps, TimeoutKeeps, HandleKeeps DEF HandleConnect
<1>3. CASE UpstreamEnds
  BY <1>3, UpstreamKeeps
<1>4. CASE Intercept
  BY <1>4, EndsKeep, HandoffKeeps, MovesKeep, DialAgainKeeps DEF Intercept
<1>5. CASE Middle
  BY <1>5, EndsKeep, MovesKeep, SendKeeps, DialAgainKeeps DEF Middle
<1>6. ASSUME NEW g \in Closers, Close(g) PROVE TunnelInv'
  BY <1>6, TestClosedKeeps, ShutClientKeeps, ShutServerKeeps, PassOnKeeps DEF Close
<1>7. ASSUME NEW t \in Transfers, NEW d \in Directions, Copy(t, d) PROVE TunnelInv'
  BY <1>7, CopiesKeep
<1>8. ASSUME NEW s \in Servers, ReadLoopEnds(s) PROVE TunnelInv'
  BY <1>8, ReadLoopEndsKeeps
<1>9. CASE UNCHANGED vars
  <2>1. TunnelTypeOK'
    BY <1>9 DEF vars, TunnelInv, TunnelTypeOK
  <2>2. Calls' /\ Before' /\ OneAsked' /\ Flags' /\ Owned'
    BY <1>9 DEF vars, TunnelInv, Calls, Before, OneAsked, Flags, WillClose,
                Owned, ClientOwned, HostsOwned, ServerOwned, RemoteOwned, PipeOwned
  <2> QED
    BY <2>1, <2>2 DEF TunnelInv
<1>10. CASE Plain
  BY <1>10, PlainDialKeeps, RequestKeeps, HandleKeeps DEF Plain, Replied
<1> QED
  BY <1>1, <1>2, <1>3, <1>4, <1>5, <1>6, <1>7, <1>8, <1>9, <1>10 DEF TunnelNext

\* The invariant holds in every behaviour of a client connection.
THEOREM TunnelInvariance == TunnelSpec => []TunnelInv
<1>1. TunnelInit => TunnelInv
  BY InitKeeps
<1>2. TunnelInv /\ [TunnelNext]_vars => TunnelInv'
  BY NextKeeps
<1> QED
  BY <1>1, <1>2, PTL DEF TunnelSpec

\* The type invariant of a client connection and all that hangs on it.
THEOREM TunnelTypeCorrect == TunnelSpec => []TunnelTypeOK
<1>1. TunnelInv => TunnelTypeOK
  BY DEF TunnelInv
<1> QED
  BY <1>1, TunnelInvariance, PTL

\* When all goroutines of a client connection have ended, handleConnect's, the
\* interceptor's, the copies, the read loops and the Close methods, everything they
\* had opened is closed, for any number of plain hosts and with late upgrades too.
THEOREM NothingLeaks == TunnelSpec => []NothingLeftOpen
<1>1. TunnelInv => NothingLeftOpen
  <2> SUFFICES ASSUME TunnelInv, GoroutinesEnded, NEW e \in DOMAIN open PROVE ~open[e]
    BY DEF NothingLeftOpen
  <2>1. /\ e \in {"client", "remote", "pipeC", "pipeS", "server"} \cup PlainHosts
        /\ {"H", "up"} \cup Servers = Closers
    BY Types DEF TunnelInv, Servers
  <2>2. /\ pc["H"] = "ended" /\ pc["I"] \in {"off", "ended"} /\ pc["M"] \in {"off", "ended"}
        /\ \A s \in Servers : pc[s] \notin Reading
        /\ \A g \in Closers : closing[g].at = "no"
    BY DEF GoroutinesEnded, NotClosing, Reading
  <2>3. ~open["client"]
    BY <2>1, <2>2 DEF TunnelInv, Owned, ClientOwned
  <2>4. ~open["server"]
    BY <2>2, <2>3 DEF TunnelInv, Owned, ServerOwned, WillClose
  <2>5. \A s \in PlainHosts : ~open[s]
    BY <2>1, <2>2, NamesDiffer DEF TunnelInv, Owned, HostsOwned, WillClose
  <2>6. ~open["remote"] /\ ~open["pipeC"] /\ ~open["pipeS"]
    BY <2>2 DEF TunnelInv, Owned, RemoteOwned, PipeOwned
  <2> QED
    BY <2>1, <2>3, <2>4, <2>5, <2>6
<1> QED
  BY <1>1, TunnelInvariance, PTL
=============================================================================
