------------------------------- MODULE Tunnel -------------------------------
(***************************************************************************)
(* One client connection of the proxy, from its first request to the end   *)
(* of every goroutine and connection that hangs on it: plain requests, a   *)
(* CONNECT (handleConnect), the interceptor behind its in-memory pipe, the *)
(* TLS handshakes, ws and wss, and the Close methods that call each other  *)
(* (connection.go, interceptor.go, websocket.go, helper.go, proxy.go).     *)
(*                                                                         *)
(* What is transferred is left out: what matters is which end of which     *)
(* connection is open, and who reads from it.  What a request goes through *)
(* on its way is in Flow.                                                  *)
(***************************************************************************)
EXTENDS Integers, Sequences

CONSTANTS
    PlainHosts,   \* servers of plain requests; bound: each is dialled once
    LateUpgrades  \* bound: websockets also on connections that have sent requests

ASSUME TunnelAssumption ==
    /\ PlainHosts \cap {"client", "server", "remote", "pipeC", "pipeS", "none"} = {}
    /\ PlainHosts \cap {"H", "U", "I", "M", "up"} = {}
    /\ LateUpgrades \in BOOLEAN

VARIABLES
    peer,       \* what the far end of a TCP connection has done: "up", "fin" or "rst"
    open,       \* open[e]: the proxy has not closed endpoint e
    readShut,   \* CloseRead was called on the client's TCP connection
    closed,     \* wrapClientConn.closed and wrapServerConn.closed
    serverConn, \* the wrapped connection in ConnContext.ServerConn.Conn
    Tls,        \* ClientConn.Tls
    closeAfterResponse,
    conn,       \* the server side of handleConnect's transfer
    inner,      \* the server side of the transfer behind the pipe (ws, wss)
    pc,         \* pc[g]: where goroutine g is
    waiting,    \* waiting[t]: how many copies transfer t still waits for
    copy,       \* copy[t][d]: the goroutine that copies in direction d
    closing     \* closing[g]: where goroutine g is in the Close methods

net == <<peer, open, readShut, closed>>
ctx == <<serverConn, Tls, closeAfterResponse, conn, inner>>
xfer == <<waiting, copy>>
vars == <<peer, open, readShut, closed, serverConn, Tls, closeAfterResponse, conn, inner,
          pc, waiting, copy, closing>>

\* The server of an intercepted tunnel; "remote" is dialled by ws, wss or for a
\* tunnel that is not intercepted.
Servers == PlainHosts \cup {"server"}
TCP == Servers \cup {"client", "remote"}
Pipe == {"pipeC", "pipeS"}

\* The http server of the client with handleConnect in it (H), getProxyConn's
\* goroutine (U), intercept (I), the interceptor's http server on the pipe (M),
\* and the http.Transport's read loop of each server connection.
Goroutines == {"H", "U", "I", "M"} \cup Servers
Places(g) ==
    IF g = "H" THEN {"serve", "do", "reply", "last", "upstream", "drain", "failed",
                     "hijack", "write", "transfer", "closing", "ended"}
    ELSE IF g = "U" THEN {"off", "asking", "200", "refused"}
    ELSE IF g = "I" THEN {"off", "peek", "peeked", "handoff", "stranded", "dial", "ws", "ended"}
    ELSE IF g = "M" THEN {"off", "hello", "handshake", "idle", "request", "sent", "close", "dial", "wss", "ended"}
    ELSE {"off", "dial", "busy", "loop", "done", "closing"}

\* A read loop: with a request under way, without one, after the last answer.
Reading == {"busy", "loop", "done"}

Transfers == {"outer", "inner"}
Directions == {"up", "down"}
Closers == Servers \cup {"H", "up"}

NotClosing == [at |-> "no", srv |-> "none"]
Copying == [at |-> "copy", err |-> FALSE]

TunnelTypeOK ==
    /\ peer \in [TCP -> {"up", "fin", "rst"}]
    /\ open \in [TCP \cup Pipe -> BOOLEAN]
    /\ readShut \in BOOLEAN
    /\ closed \in [Servers \cup {"client"} -> BOOLEAN]
    /\ serverConn \in Servers \cup {"none"}
    /\ Tls \in BOOLEAN
    /\ closeAfterResponse \in BOOLEAN
    /\ conn \in {"none", "pipeC", "remote"}
    /\ inner \in {"none", "pipeS", "remote"}
    /\ DOMAIN pc = Goroutines /\ \A g \in Goroutines : pc[g] \in Places(g)
    /\ waiting \in [Transfers -> 0..2]
    /\ copy \in [Transfers -> [Directions ->
                   [at : {"off", "copy", "blocked", "closing", "report", "ended"}, err : BOOLEAN]]]
    /\ closing \in [Closers -> [at : {"no", "c1", "c2", "s1", "s2", "s3"}, srv : Servers \cup {"none"}]]

\* wrapListener has accepted the client, newConnContext made its context.
TunnelInit ==
    /\ peer = [e \in TCP |-> "up"]
    /\ open = [e \in TCP \cup Pipe |-> e = "client"]
    /\ readShut = FALSE
    /\ closed = [w \in Servers \cup {"client"} |-> FALSE]
    /\ serverConn = "none"
    /\ Tls = FALSE
    /\ closeAfterResponse = FALSE
    /\ conn = "none" /\ inner = "none"
    /\ pc = [g \in Goroutines |-> IF g = "H" THEN "serve" ELSE "off"]
    /\ waiting = [t \in Transfers |-> 0]
    /\ copy = [t \in Transfers |-> [d \in Directions |-> [Copying EXCEPT !.at = "off"]]]
    /\ closing = [g \in Closers |-> NotClosing]

-----------------------------------------------------------------------------
(* Connections and steps *)

OtherEnd(e) == IF e = "pipeC" THEN "pipeS" ELSE "pipeC"

\* What a Read that finds no data returns: an error, the end (nil), or nothing yet.
ReadResult(e) ==
    CASE ~open[e] -> "error"
      [] open[e] /\ e \in Pipe -> IF open[OtherEnd(e)] THEN "none" ELSE "end"
      [] OTHER -> IF e = "client" /\ readShut THEN "end"
                  ELSE [up |-> "none", fin |-> "end", rst |-> "error"][peer[e]]

Broken(e) == ReadResult(e) # "none"

\* A Write fails, at once or after the far end has answered with a reset.
WriteBroken(e) == ~open[e] \/ (IF e \in Pipe THEN ~open[OtherEnd(e)] ELSE peer[e] # "up")

\* The two sides of a transfer, and what its goroutines read from.
ServerSide(t) == IF t = "outer" THEN conn ELSE inner
ClientSide(t) == IF t = "outer" THEN "client" ELSE IF inner = "pipeS" THEN "remote" ELSE "pipeS"
Source(t, d) == IF d = "up" THEN ClientSide(t) ELSE ServerSide(t)
Target(t, d) == IF d = "up" THEN ServerSide(t) ELSE ClientSide(t)

Step(g, from, to) == pc[g] = from /\ pc' = [pc EXCEPT ![g] = to]
Move(g, from, to) == Step(g, from, to) /\ UNCHANGED <<net, ctx, xfer, closing>>

\* The proxy closes the endpoints of S.
Shut(S) == open' = [e \in DOMAIN open |-> open[e] /\ e \notin S] /\ UNCHANGED <<peer, readShut, closed>>
MoveAndShut(g, from, to, S) == Step(g, from, to) /\ Shut(S) /\ UNCHANGED <<ctx, xfer, closing>>

\* Goroutine g calls Close on the client's or on a server's connection.
CallsClose(g, at, srv) == closing' = [closing EXCEPT ![g] = [at |-> at, srv |-> srv]]
MoveAndClose(g, from, to, at, srv) ==
    Step(g, from, to) /\ CallsClose(g, at, srv) /\ UNCHANGED <<net, ctx, xfer>>

-----------------------------------------------------------------------------
(* wrapClientConn.Close (c1, c2) and wrapServerConn.Close (s1, s2, s3), which  *)
(* any goroutine may be in at any time: closed is tested and set without a lock. *)

TestClosed(g, at, w, next) ==
    /\ closing[g].at = at
    /\ closing' = [closing EXCEPT ![g] = IF closed[w] THEN NotClosing ELSE [@ EXCEPT !.at = next]]
    /\ UNCHANGED net

\* Faulty variant: the server connection is left to whoever reads it.
ShutClientOnly(g) ==
    /\ closing[g].at = "c2"
    /\ closed' = [closed EXCEPT !["client"] = TRUE]
    /\ open' = [open EXCEPT !["client"] = FALSE]
    /\ closing' = [closing EXCEPT ![g] = NotClosing]
    /\ UNCHANGED <<peer, readShut>>

\* ClientDisconnected is called, then the server connection closed, if there is one.
ShutClient(g) ==
    /\ closing[g].at = "c2"
    /\ closed' = [closed EXCEPT !["client"] = TRUE]
    /\ open' = [open EXCEPT !["client"] = FALSE]
    /\ closing' = [closing EXCEPT ![g] =
                     IF serverConn = "none" THEN NotClosing ELSE [at |-> "s1", srv |-> serverConn]]
    /\ UNCHANGED <<peer, readShut>>

\* ServerDisconnected is called after this.
ShutServer(g) ==
    /\ closing[g].at = "s2"
    /\ closed' = [closed EXCEPT ![closing[g].srv] = TRUE]
    /\ open' = [open EXCEPT ![closing[g].srv] = FALSE]
    /\ closing' = [closing EXCEPT ![g].at = "s3"]
    /\ UNCHANGED <<peer, readShut>>

\* Faulty variant: the end of the server connection is kept from the client.
PassOnNothing(g) ==
    /\ closing[g].at = "s3"
    /\ closing' = [closing EXCEPT ![g] = NotClosing]
    /\ UNCHANGED net

\* On a plain connection the client is told by CloseRead; in a TLS tunnel the
\* pipe is closed, unless the http server is expected to do it.
PassOn(g) ==
    /\ closing[g].at = "s3"
    /\ readShut' = (readShut \/ ~Tls)
    /\ open' = [open EXCEPT !["pipeS"] = @ /\ (Tls => closeAfterResponse)]
    /\ closing' = [closing EXCEPT ![g] = NotClosing]
    /\ UNCHANGED <<peer, closed>>

Close(g) ==
    /\ \/ TestClosed(g, "c1", "client", "c2") \/ ShutClient(g)
       \/ TestClosed(g, "s1", closing[g].srv, "s2") \/ ShutServer(g) \/ PassOn(g)
    /\ UNCHANGED <<ctx, pc, xfer>>

-----------------------------------------------------------------------------
(* The http server of the proxy, and handleConnect *)

\* client.Do of a plain request, in which the handler waits without a time limit:
\* the transport takes the idle connection to the host, or dials.
PlainRequest(s) ==
    /\ pc["H"] = "serve" /\ ~Broken("client")
    /\ pc[s] \in {"off", "loop"}
    /\ pc' = [pc EXCEPT !["H"] = "do", ![s] = IF @ = "off" THEN "dial" ELSE "busy"]
    /\ UNCHANGED <<net, ctx, xfer, closing>>

\* DialContext in initHttpServerConn: the new connection replaces the previous one
\* in ServerConn.Conn.
PlainDial(s) ==
    /\ Step(s, "dial", "busy")
    /\ open' = [open EXCEPT ![s] = TRUE]
    /\ serverConn' = s
    /\ UNCHANGED <<peer, readShut, closed, Tls, closeAfterResponse, conn, inner, xfer, closing>>

PlainDialFails(s) == Move(s, "dial", "off")

\* The server answers, perhaps announcing that it closes; "last" is a reply that
\* says so to the client.  When a hook panics or the body breaks off, it does not.
PlainAnswers(s, close, whole) ==
    /\ pc["H"] = "do" /\ pc[s] = "busy" /\ ~Broken(s)
    /\ pc' = [pc EXCEPT !["H"] = IF close /\ whole THEN "last" ELSE "reply",
                        ![s] = IF close THEN "done" ELSE "loop"]
    /\ closeAfterResponse' = (closeAfterResponse \/ close)
    /\ UNCHANGED <<net, serverConn, Tls, conn, inner, xfer, closing>>

\* The dial failed, or the connection ended before the answer: 502.
PlainFails ==
    /\ \A s \in PlainHosts : pc[s] \notin {"dial", "busy"}
    /\ Move("H", "do", "reply")

\* The client has read the reply, or cannot be written to.
Replied ==
    \/ Move("H", "reply", "serve")
    \/ MoveAndClose("H", "last", "ended", "c1", "none")

\* The steps of a plain request that depend on nobody.
Plain ==
    \/ \E s \in PlainHosts : PlainDial(s) \/ PlainDialFails(s)
    \/ PlainFails
    \/ WriteBroken("client") /\ Replied

\* The connection handleConnect dials: the ServerConn's, or its own.
Dialling(intercept) == IF intercept THEN "server" ELSE "remote"

\* Faulty variant: the tunnel goes to the server and not through the pipe.
BypassPipe(intercept) ==
    /\ pc' = [pc EXCEPT !["H"] = "hijack", !["U"] = "off", !["I"] = IF intercept THEN "peek" ELSE "off"]
    /\ open' = [e \in DOMAIN open |-> open[e] \/ e = Dialling(intercept) \/ (intercept /\ e \in Pipe)]
    /\ conn' = Dialling(intercept)
    /\ serverConn' = IF intercept THEN "server" ELSE "none"

\* dial of the interceptor: newPipes and initServerTcpConn, then go intercept;
\* or the connection of a transponded tunnel.
Dialled(intercept) ==
    /\ pc' = [pc EXCEPT !["H"] = "hijack", !["U"] = "off", !["I"] = IF intercept THEN "peek" ELSE "off"]
    /\ open' = [e \in DOMAIN open |-> open[e] \/ e = Dialling(intercept) \/ (intercept /\ e \in Pipe)]
    /\ conn' = IF intercept THEN "pipeC" ELSE "remote"
    /\ serverConn' = IF intercept THEN "server" ELSE "none"

\* The dial failed: 502, and the http server goes on with the client.  The new
\* ServerConn, without a connection, is in the context already.
DialFailed(intercept) ==
    /\ pc' = [pc EXCEPT !["H"] = "failed", !["U"] = "off"]
    /\ open' = [open EXCEPT ![Dialling(intercept)] = FALSE]
    /\ conn' = "none"
    /\ serverConn' = "none"

dialUnchanged == <<peer, readShut, closed, Tls, closeAfterResponse, inner, xfer, closing>>

\* A client makes plain requests or one CONNECT, not both, on one connection.
FirstRequest == pc["H"] = "serve" /\ ~Broken("client") /\ serverConn = "none"

\* handleConnect with a server that is dialled directly (getConnFrom).
Connect(intercept) ==
    /\ FirstRequest
    /\ Dialled(intercept) \/ DialFailed(intercept)
    /\ UNCHANGED dialUnchanged

\* getProxyConn: the connection to the upstream proxy is there, a goroutine
\* writes CONNECT and waits for the answer.
ConnectUpstream(intercept) ==
    /\ FirstRequest
    /\ pc' = [pc EXCEPT !["H"] = "upstream", !["U"] = "asking"]
    /\ open' = [open EXCEPT ![Dialling(intercept)] = TRUE]
    /\ conn' = IF intercept THEN "pipeC" ELSE "remote"
    /\ UNCHANGED <<serverConn, dialUnchanged>>

Intercepting == conn = "pipeC"
UpstreamConn == Dialling(Intercepting)

\* The goroutine has an answer, or its Write or Read failed; it closes
\* didReadResponse.
UpstreamAnswers(answer) == open[UpstreamConn] /\ Move("U", "asking", answer)
UpstreamEnds == pc["U"] = "asking" /\ Broken(UpstreamConn) /\ Move("U", "asking", "refused")

\* The select of getProxyConn: an answer in time.
TakeAnswer ==
    /\ pc["H"] = "upstream" /\ pc["U"] # "asking"
    /\ IF pc["U"] = "200" THEN Dialled(Intercepting) ELSE DialFailed(Intercepting)
    /\ UNCHANGED dialUnchanged

\* Faulty variant: the goroutine is not told that nobody waits for it any longer.
TimeoutKeepsConn == Move("H", "upstream", "drain")

\* The minute is over: the connection is closed and the goroutine waited for.
Timeout == MoveAndShut("H", "upstream", "drain", {UpstreamConn})

\* Whatever the goroutine got in the meantime, the dial has failed.
Drained ==
    /\ pc["H"] = "drain" /\ pc["U"] # "asking"
    /\ DialFailed(Intercepting)
    /\ UNCHANGED dialUnchanged

\* The http server notices the end of a client it still serves, once the handler
\* of a request has returned.
ServerCloses ==
    /\ Broken("client")
    /\ \E from \in {"serve", "failed"} : MoveAndClose("H", from, "ended", "c1", "none")

Hijack == Move("H", "hijack", "write")

\* 502; the deferred conn.Close runs.
HijackFails == MoveAndShut("H", "hijack", "failed", {conn})

\* A transfer begins: two goroutines, and a loop that waits for both.
Begin(t) ==
    /\ waiting' = [waiting EXCEPT ![t] = 2]
    /\ copy' = [copy EXCEPT ![t] = [d \in Directions |-> Copying]]

\* The 200 is written, Responseheaders called.
Established == Step("H", "write", "transfer") /\ Begin("outer") /\ UNCHANGED <<net, ctx, closing>>

\* Writing fails, or a hook panics: the deferred calls run.
NotEstablished == MoveAndClose("H", "write", "closing", "c1", "none")

\* transfer has returned: the deferred cconn.Close begins, then conn.Close.
TransferReturns == waiting["outer"] = 0 /\ MoveAndClose("H", "transfer", "closing", "c1", "none")

\* Faulty variant: the deferred conn.Close is missing.
LeaveConnOpen == closing["H"] = NotClosing /\ Move("H", "closing", "ended")

CloseConn == closing["H"] = NotClosing /\ MoveAndShut("H", "closing", "ended", {conn})

HandleConnect ==
    \/ TakeAnswer \/ Timeout \/ Drained \/ ServerCloses
    \/ Hijack \/ HijackFails \/ Established \/ NotEstablished \/ TransferReturns \/ CloseConn

-----------------------------------------------------------------------------
(* transfer *)

\* Somebody reads what is written to the client's end of the pipe.
PipeIsRead ==
    \/ pc["I"] = "peek"
    \/ pc["M"] \in {"hello", "idle"}
    \/ inner # "none" /\ \E d \in Directions : copy["inner"][d].at = "copy" /\ Source("inner", d) = "pipeS"

\* Faulty variant: nobody is told that the copy has ended.
CopyEndsSilently(t, d, err) ==
    /\ copy' = [copy EXCEPT ![t][d] = [at |-> "report", err |-> err]]
    /\ UNCHANGED <<net, closing>>

\* io.Copy has returned: the connection it read from is closed.  When that is
\* the client, its Close goes on to the server connection; when the client is a
\* wrapClientConn, the end of the other direction closes its read side.
CopyEnds(t, d, err) ==
    IF <<t, d>> = <<"outer", "up">>
    THEN /\ copy' = [copy EXCEPT ![t][d] = [at |-> "closing", err |-> err]]
         /\ CallsClose("up", "c1", "none")
         /\ UNCHANGED net
    ELSE /\ copy' = [copy EXCEPT ![t][d] = [at |-> "report", err |-> err]]
         /\ open' = [open EXCEPT ![Source(t, d)] = FALSE]
         /\ readShut' = (readShut \/ t = "outer")
         /\ UNCHANGED <<peer, closed, closing>>

\* The copy finds the end, or data that cannot be passed on.
CopyReadsEnd(t, d) ==
    /\ copy[t][d].at = "copy"
    /\ Broken(Source(t, d))
    /\ CopyEnds(t, d, ReadResult(Source(t, d)) = "error")
    /\ UNCHANGED <<ctx, pc, waiting>>

CopyWriteFails(t, d) ==
    /\ copy[t][d].at = "copy"
    /\ open[Source(t, d)] /\ WriteBroken(Target(t, d))
    /\ CopyEnds(t, d, TRUE)
    /\ UNCHANGED <<ctx, pc, waiting>>

\* A Write to the pipe waits for a reader.
CopyBlocks ==
    /\ copy["outer"]["up"].at = "copy"
    /\ conn = "pipeC" /\ ~Broken("client") /\ ~WriteBroken(conn) /\ ~PipeIsRead
    /\ copy' = [copy EXCEPT !["outer"]["up"].at = "blocked"]
    /\ UNCHANGED <<net, ctx, pc, waiting, closing>>

CopyResumes ==
    /\ copy["outer"]["up"].at = "blocked"
    /\ \/ WriteBroken(conn) /\ CopyEnds("outer", "up", TRUE)
       \/ /\ ~WriteBroken(conn) /\ PipeIsRead
          /\ copy' = [copy EXCEPT !["outer"]["up"].at = "copy"]
          /\ UNCHANGED <<net, closing>>
    /\ UNCHANGED <<ctx, pc, waiting>>

\* The goroutine sends its error to the loop, which returns on the first error
\* and after both, or finds done closed.
Report(t, d) ==
    /\ \/ copy[t][d].at = "report"
       \/ copy[t][d].at = "closing" /\ closing["up"] = NotClosing
    /\ copy' = [copy EXCEPT ![t][d] = [at |-> "ended", err |-> FALSE]]
    /\ waiting' = [waiting EXCEPT ![t] = IF @ = 2 /\ ~copy[t][d].err THEN 1 ELSE 0]
    /\ UNCHANGED <<net, ctx, pc, closing>>

\* The steps a copy takes by itself.
Copy(t, d) == CopyReadsEnd(t, d) \/ Report(t, d) \/ (<<t, d>> = <<"outer", "up">> /\ CopyResumes)

-----------------------------------------------------------------------------
(* The interceptor *)

\* Peek fails: the pipe is closed.
PeekFails == Broken("pipeS") /\ MoveAndShut("I", "peek", "ended", {"pipeS"})

\* Three bytes have come.
Peek == copy["outer"]["up"].at = "copy" /\ ~Broken("client") /\ Move("I", "peek", "peeked")

\* They are a TLS record, or not.
Tell(isTls) ==
    /\ Step("I", "peeked", IF isTls THEN "handoff" ELSE "dial")
    /\ Tls' = isTls
    /\ UNCHANGED <<net, serverConn, closeAfterResponse, conn, inner, xfer, closing>>

\* connChan <- pipeServerConn meets Accept.
Handoff ==
    /\ pc["I"] = "handoff"
    /\ pc' = [pc EXCEPT !["I"] = "ended", !["M"] = "hello"]
    /\ UNCHANGED <<net, ctx, xfer, closing>>

\* The interceptor was closed (Proxy.Close, Shutdown) and Accept has returned for
\* the last time: nobody receives any more.
NobodyAccepts == Move("I", "handoff", "stranded")

\* ws and wss: their own connection to the host, then a transfer, in which ws has
\* the pipe as server and wss has it as client.
DialAgain(g, to, server) ==
    /\ Step(g, "dial", to)
    /\ open' = [open EXCEPT !["remote"] = TRUE]
    /\ inner' = server
    /\ Begin("inner")
    /\ UNCHANGED <<peer, readShut, closed, serverConn, Tls, closeAfterResponse, conn, closing>>

DialWs == DialAgain("I", "ws", "pipeS")
DialWsFails == MoveAndShut("I", "dial", "ended", {"pipeS"})

\* The deferred calls of ws.
WsReturns == waiting["inner"] = 0 /\ MoveAndShut("I", "ws", "ended", {"remote", "pipeS"})

Intercept ==
    \/ \E isTls \in BOOLEAN : Tell(isTls)
    \/ PeekFails \/ Handoff \/ NobodyAccepts \/ DialWs \/ DialWsFails \/ WsReturns

-----------------------------------------------------------------------------
(* The interceptor's http server on the pipe *)

\* It closes the pipe: the other end is closed, or the reply said so.
HangUp ==
    \/ Broken("pipeS") /\ \E from \in {"hello", "idle"} : MoveAndShut("M", from, "ended", {"pipeS"})
    \/ MoveAndShut("M", "close", "ended", {"pipeS"})

\* GetCertificate is called with a complete ClientHello.
ClientHello == Move("M", "hello", "handshake")

\* tlsHandshake succeeds, tlsHandshaked is closed, GetCert finds a certificate.
TlsEstablished == ~Broken("server") /\ Move("M", "handshake", "idle")

\* tlsHandshake or GetCert fails, and with it the handshake with the client.
TlsFails == MoveAndShut("M", "handshake", "ended", {"pipeS"})

Request == ~Broken("pipeS") /\ ~Broken("client") /\ Move("M", "idle", "request")

\* An addon answers or panics before the request is sent, or wss cannot hijack: 502.
AddonAnswers == Move("M", "request", "idle")

\* client.Do: the transport takes tlsConn from DialTLSContext and reads from it.
Send ==
    /\ pc["M"] = "request"
    /\ pc' = [pc EXCEPT !["M"] = "sent", !["server"] = IF @ = "off" THEN "loop" ELSE @]
    /\ UNCHANGED <<net, ctx, xfer, closing>>

\* The server answers, perhaps announcing that it closes.  When a hook panics or
\* the body cannot be read, the reply says nothing of that.
Responds(close, whole) ==
    /\ open["server"]
    /\ Step("M", "sent", IF close /\ whole THEN "close" ELSE "idle")
    /\ closeAfterResponse' = (closeAfterResponse \/ close)
    /\ UNCHANGED <<net, serverConn, Tls, conn, inner, xfer, closing>>

\* The server's connection is closed or broken: 502.
SendFails == Broken("server") /\ Move("M", "sent", "idle")

\* wss: Hijack, then a connection of its own, to which the upgrade is written; if
\* either fails, the deferred calls leave nothing open.
Upgrade == (pc["server"] = "off" \/ LateUpgrades) /\ Move("M", "request", "dial")
DialWss == DialAgain("M", "wss", "remote")
DialWssFails == MoveAndShut("M", "dial", "ended", {"pipeS"})
WssReturns == waiting["inner"] = 0 /\ MoveAndShut("M", "wss", "ended", {"remote", "pipeS"})

\* The steps the http server takes by itself.
Middle ==
    \/ HangUp \/ AddonAnswers \/ Send \/ SendFails
    \/ Upgrade \/ DialWss \/ DialWssFails \/ WssReturns
    \/ Broken("server") /\ TlsFails

\* The read loop of the transport closes a connection that ended, or that the
\* server announced to close.
ReadLoopEnds(s) ==
    /\ Broken(s) \/ pc[s] = "done" \/ (s = "server" /\ closeAfterResponse)
    /\ \E from \in Reading : MoveAndClose(s, from, "closing", "s1", s)

-----------------------------------------------------------------------------
\* The far end of a connection has closed or reset it, and what it sent before
\* that has been read.
Leaves(e, how) ==
    /\ peer[e] = "up" /\ open[e]
    /\ peer' = [peer EXCEPT ![e] = how]
    /\ UNCHANGED <<open, readShut, closed, ctx, pc, xfer, closing>>

GoroutinesEnded ==
    /\ pc["H"] = "ended" /\ pc["U"] # "asking"
    /\ pc["I"] \in {"off", "ended"} /\ pc["M"] \in {"off", "ended"}
    /\ \A t \in Transfers, d \in Directions : copy[t][d].at \in {"off", "ended"}
    /\ \A s \in Servers : pc[s] \in {"off", "closing"}
    /\ \A g \in Closers : closing[g] = NotClosing

\* Both ends of the pipe are read and nobody is left to write to them or close
\* them: the client was closed while Tls was not set (before or in its hello, or
\* for good in a ws tunnel), or closeAfterResponse was.
PipeDeadlock ==
    /\ open["pipeC"] /\ open["pipeS"] /\ ~open["client"]
    /\ copy["outer"]["down"].at = "copy" /\ PipeIsRead
    /\ pc["I"] \in {"peek", "ws"} \/ pc["M"] = "hello" \/ closeAfterResponse
    /\ \A g \in Closers : closing[g] = NotClosing

\* Everything has ended, or what is left waits for ever.
AtRest == GoroutinesEnded \/ PipeDeadlock \/ pc["I"] = "stranded"

Environment ==
    \/ \E e \in {"client", "remote"}, how \in {"fin", "rst"} : Leaves(e, how)
    \/ \E s \in Servers : Leaves(s, "fin")
    \/ \E s \in PlainHosts : PlainRequest(s) \/ \E close, whole \in BOOLEAN : PlainAnswers(s, close, whole)
    \/ Replied
    \/ \E intercept \in BOOLEAN : Connect(intercept) \/ ConnectUpstream(intercept)
    \/ \E answer \in {"200", "refused"} : UpstreamAnswers(answer)
    \/ Peek \/ ClientHello \/ TlsEstablished \/ TlsFails \/ Request
    \/ \E close, whole \in BOOLEAN : Responds(close, whole)
    \/ \E t \in Transfers, d \in Directions : CopyWriteFails(t, d)
    \/ CopyBlocks

TunnelNext ==
    \/ Environment
    \/ Plain \/ HandleConnect \/ UpstreamEnds \/ Intercept \/ Middle
    \/ \E g \in Closers : Close(g)
    \/ \E t \in Transfers, d \in Directions : Copy(t, d)
    \/ \E s \in Servers : ReadLoopEnds(s)
    \/ AtRest /\ UNCHANGED vars

\* Goroutines that can go on do, a dial returns, and the timer of getProxyConn
\* runs out.  That a server or the upstream proxy answers, or that a client reads
\* what is written to it, is not assumed.
TunnelFairness ==
    /\ WF_vars(Plain) /\ WF_vars(HandleConnect) /\ WF_vars(UpstreamEnds)
    /\ WF_vars(Intercept) /\ WF_vars(Middle)
    /\ \A g \in Closers : WF_vars(Close(g))
    /\ \A t \in Transfers, d \in Directions : WF_vars(Copy(t, d))
    /\ \A s \in Servers : WF_vars(ReadLoopEnds(s))

TunnelSpec == TunnelInit /\ [][TunnelNext]_vars /\ TunnelFairness

-----------------------------------------------------------------------------
\* When the last goroutine of a client connection has ended, every connection it
\* had is closed: the client's, the servers', the websocket's, the upstream
\* proxy's and both ends of the pipe, on every error path of handleConnect, ws and
\* wss and however the unsynchronized Close methods overlap.
NothingLeftOpen == GoroutinesEnded => \A e \in DOMAIN open : ~open[e]

\* The handler of a plain request waits for a server that does not answer, or for
\* a client that does not read: ServeHTTP has no time limit for either, and the
\* http server closes nothing before it returns.
HandlerWaits ==
    \/ pc["H"] = "do" /\ \E s \in PlainHosts : pc[s] = "busy" /\ ~Broken(s)
    \/ pc["H"] \in {"reply", "last"} /\ ~WriteBroken("client")

\* When a server ends a keep-alive connection, the client's connection is closed:
\* the read loop, wrapServerConn.Close, the pipe or CloseRead, both copies and
\* wrapClientConn.Close pass it on, unless the handler of a plain request waits
\* for ever.  In a TLS tunnel, after a response that announced the close, this is
\* left to the http server.
ServerEndReachesClient ==
    \A s \in Servers : (pc[s] \in Reading /\ peer[s] # "up") ~>
        (Tls /\ closeAfterResponse) \/ ~open["client"] \/ []HandlerWaits

\* When the client ends, its connection and the one in ServerConn.Conn are closed,
\* unless the copy from the client waits for ever for a reader of the pipe, or the
\* handler of a plain request for its server.
ClientEndReachesServer ==
    (peer["client"] # "up" /\ serverConn # "none") ~>
        \/ ~open["client"] /\ (serverConn = "none" \/ ~open[serverConn])
        \/ [](copy["outer"]["up"].at = "blocked")
        \/ []HandlerWaits

TunnelEnded ==
    /\ pc["H"] = "ended" /\ pc["I"] = "ended" /\ pc["M"] = "ended"
    /\ \A d \in Directions : copy["outer"][d].at = "ended"

\* A TLS tunnel whose client ends between two requests leaves no goroutine of
\* handleConnect, transfer, intercept or the interceptor's server behind, unless a
\* close was announced before.
TlsTunnelEnds == (pc["M"] = "idle" /\ peer["client"] # "up" /\ ~closeAfterResponse) ~> TunnelEnded

\* The far end of every open connection is gone.
Gone == \A e \in TCP : e = "client" \/ open[e] => peer[e] # "up"

\* Once all far ends are gone, every goroutine ends, but for two cases: both ends
\* of the pipe wait for each other (PipeDeadlock), or intercept sends to a closed
\* interceptor (connChan).
EverythingSettles == <>[]Gone => <>[]AtRest

\* A CONNECT through an upstream proxy that never answers, or answers while the
\* timer runs out, is decided, and the goroutine that asked has ended (getProxyConn).
DialReturns == pc["H"] = "upstream" ~> (pc["H"] \in {"hijack", "failed"} /\ pc["U"] # "asking")

\* "after http response, http server will close the connection", says the comment
\* on closeAfterResponse in ConnContext.
CloseAfterResponseCloses == closeAfterResponse ~> ~open["pipeS"]
=============================================================================
