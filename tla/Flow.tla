-------------------------------- MODULE Flow --------------------------------
(***************************************************************************)
(* Proxy.ServeHTTP (lib/go-mitmproxy/proxy/proxy.go): the requests of one  *)
(* client connection, one after the other, with every hook an addon may    *)
(* answer from, switch to streaming from or panic in.  What one request    *)
(* leaves behind in the ConnContext is what the next one finds.            *)
(*                                                                         *)
(* Bodies are their lengths.  readerToBuffer reads at most Limit bytes;    *)
(* a body of Limit bytes or more is streamed.  A buffered response body is *)
(* as it was sent or decoded (flowencoding.go).  The connection is plain   *)
(* until a CONNECT succeeds; from then on its requests come decrypted from *)
(* the interceptor (initHttpsServerConn has set the client by then).       *)
(***************************************************************************)
EXTENDS Integers, Sequences

CONSTANTS
    NAddons,      \* how many addons were added
    Limit,        \* Opts.StreamLargeBodies
    Sizes,        \* lengths of bodies
    MaxRequests   \* bound: requests on the connection

ASSUME FlowAssumption ==
    /\ NAddons \in Nat
    /\ Limit \in Nat \ {0}
    /\ Sizes \subseteq Nat
    /\ MaxRequests \in Nat

VARIABLES
    tls,                 \* ClientConn.Tls
    serverConn,          \* ConnContext.ServerConn: nil, without or with a client
    closeAfterResponse,  \* ConnContext.closeAfterResponse
    connection,          \* "open", or "closed" by the http server
    requests,
    step,                \* where ServeHTTP is
    hook,                \* the addon whose hook is called next
    flow,                \* the Flow and the locals of ServeHTTP
    status,              \* the statuses written to the client for this request
    culprit              \* who panicked in this request

vars == <<tls, serverConn, closeAfterResponse, connection, requests, step, hook,
          flow, status, culprit>>

\* The response's Content-Encoding: none, one that decode can handle, or one that
\* is not supported or that the body does not have.
Encodings == {"none", "readable", "unreadable"}

\* forwarded and received: the lengths the server and the client got, or -1;
\* broken: the copy to the client ended in an error.
\* enc and body: Content-Encoding and Body of the response; decoded: decodedBody
\* or decodedErr.
FlowRecord == [Stream : BOOLEAN, UseSeparateClient : BOOLEAN, reqSize : Sizes \cup {0},
               resSize : Sizes \cup {0}, close : BOOLEAN,
               forwarded : Nat \cup {-1}, received : Nat \cup {-1}, broken : BOOLEAN,
               enc : Encodings, body : {"coded", "plain"},
               decoded : {"nil", "coded", "plain", "error"}]

NewFlow(n) == [Stream |-> FALSE, UseSeparateClient |-> FALSE, reqSize |-> n,
               resSize |-> 0, close |-> FALSE, forwarded |-> -1, received |-> -1, broken |-> FALSE,
               enc |-> "none", body |-> "plain", decoded |-> "nil"]

HookSteps == {"Requestheaders", "Request", "Responseheaders", "Response"}

TypeOK ==
    /\ tls \in BOOLEAN
    /\ serverConn \in {"nil", "noClient", "client"}
    /\ closeAfterResponse \in BOOLEAN
    /\ connection \in {"open", "closed"}
    /\ requests \in 0..MaxRequests
    /\ step \in HookSteps \cup {"idle", "readRequest", "send", "readResponse"}
    /\ hook \in 1..(NAddons + 1)
    /\ flow \in FlowRecord
    /\ status \in Seq({"400", "502", "addon", "server", "200"})
    /\ culprit \in {"none", "addon", "proxy"}

Init ==
    /\ tls = FALSE /\ serverConn = "nil" /\ closeAfterResponse = FALSE
    /\ connection = "open" /\ requests = 0 /\ step = "idle" /\ hook = 1
    /\ flow = NewFlow(0) /\ status = <<>> /\ culprit = "none"

-----------------------------------------------------------------------------
(* Answers.                                                                 *)

\* WriteHeader, and the end of the handler.
Answer(s) == status' = Append(status, s) /\ step' = "idle"

\* reply: the header, then the body; Connection: close ends the connection.
Reply(s) ==
    /\ Answer(s)
    /\ connection' = IF flow.close THEN "closed" ELSE connection

\* The deferred recover; a handler that wrote nothing answers 200, empty.
Recover(who) ==
    /\ culprit' = who
    /\ status' = IF status = <<>> THEN <<"200">> ELSE status
    /\ step' = "idle"

-----------------------------------------------------------------------------
(* The beginning of a request.                                              *)

BeginRequest ==
    /\ step = "idle" /\ connection = "open" /\ requests < MaxRequests
    /\ requests' = requests + 1
    /\ culprit' = "none"

\* An absolute URL (the interceptor makes one).
ServeHTTP(n) ==
    /\ BeginRequest
    /\ step' = "Requestheaders" /\ hook' = 1 /\ flow' = NewFlow(n) /\ status' = <<>>
    /\ UNCHANGED <<tls, serverConn, closeAfterResponse, connection>>

\* A request for the proxy itself, or one in a tunnel that names no host.
NotAbsolute ==
    /\ BeginRequest
    /\ flow' = NewFlow(0) /\ status' = <<"400">>
    /\ UNCHANGED <<tls, serverConn, closeAfterResponse, connection, step, hook>>

\* handleConnect.  With interception initServerTcpConn puts a new ServerConn
\* into the context before it dials; the hooks' Response is not looked at.
ConnectFails(intercept) ==
    /\ BeginRequest /\ ~tls
    /\ serverConn' = IF intercept THEN "noClient" ELSE serverConn
    /\ flow' = NewFlow(0) /\ status' = <<"502">>
    /\ UNCHANGED <<tls, closeAfterResponse, connection, step, hook>>

\* The tunnel is up and the client speaks TLS in it: `intercept' hands the
\* connection to the interceptor's server, with a client for its requests.
ConnectSucceeds ==
    /\ BeginRequest /\ ~tls
    /\ serverConn' = "client" /\ tls' = TRUE
    /\ flow' = NewFlow(0) /\ status' = <<"200">>
    /\ UNCHANGED <<closeAfterResponse, connection, step, hook>>

\* The tunnel carries something else, and no further request is parsed here.
ConnectTransponds(intercept) ==
    /\ BeginRequest /\ ~tls
    /\ serverConn' = IF intercept THEN "noClient" ELSE serverConn
    /\ connection' = "closed"
    /\ flow' = NewFlow(0) /\ status' = <<"200">>
    /\ UNCHANGED <<tls, closeAfterResponse, step, hook>>

\* A hook panics before the tunnel is up: handleConnect has no recover, and
\* the http server closes the connection.
ConnectPanics ==
    /\ step = "idle" /\ connection = "open" /\ requests < MaxRequests /\ ~tls
    /\ requests' = requests + 1
    /\ connection' = "closed" /\ culprit' = "addon"
    /\ flow' = NewFlow(0) /\ status' = <<>>
    /\ UNCHANGED <<tls, serverConn, closeAfterResponse, step, hook>>

-----------------------------------------------------------------------------
(* Hooks: addon number `hook' is called; after the last one ServeHTTP goes  *)
(* on.                                                                      *)

\* Faulty variant: the loop over the addons runs one too far.
HookRunsPastLast(event, new) ==
    /\ step = event /\ hook <= NAddons + 1
    /\ hook' = hook + 1 /\ flow' = new
    /\ UNCHANGED <<tls, serverConn, closeAfterResponse, connection, requests, step,
                   status, culprit>>

\* The hook returns and has only changed the flow.
HookReturns(event, new) ==
    /\ step = event /\ hook <= NAddons
    /\ hook' = hook + 1 /\ flow' = new
    /\ UNCHANGED <<tls, serverConn, closeAfterResponse, connection, requests, step,
                   status, culprit>>

\* The hook has set the response (its body, in Responseheaders).
HookAnswers(event) ==
    /\ step = event /\ hook <= NAddons
    /\ Reply("addon")
    /\ UNCHANGED <<tls, serverConn, closeAfterResponse, requests, hook, flow, culprit>>

HookPanics(event) ==
    /\ step = event /\ hook <= NAddons
    /\ Recover("addon")
    /\ UNCHANGED <<tls, serverConn, closeAfterResponse, connection, requests, hook, flow>>

HooksDone(event, next) ==
    /\ step = event /\ hook > NAddons
    /\ step' = next /\ hook' = 1
    /\ UNCHANGED <<tls, serverConn, closeAfterResponse, connection, requests, flow,
                   status, culprit>>

\* What a hook before the request is sent may switch on.
Switched == {flow, [flow EXCEPT !.Stream = TRUE], [flow EXCEPT !.UseSeparateClient = TRUE]}

Requestheaders ==
    \/ \E new \in Switched : HookReturns("Requestheaders", new)
    \/ HookAnswers("Requestheaders")
    \/ HookPanics("Requestheaders")
    \/ HooksDone("Requestheaders", "readRequest")

Request ==
    \/ \E new \in Switched : HookReturns("Request", new)
    \/ HookAnswers("Request")
    \/ HookPanics("Request")
    \/ HooksDone("Request", "send")

Responseheaders ==
    \/ \E new \in {flow, [flow EXCEPT !.Stream = TRUE]} : HookReturns("Responseheaders", new)
    \/ HookAnswers("Responseheaders")
    \/ HookPanics("Responseheaders")
    \/ HooksDone("Responseheaders", "readResponse")

-----------------------------------------------------------------------------
(* Bodies.                                                                  *)

\* Faulty variant: a body cut off by the limit is taken for a short one.
TakesLimitForEnd(n) ==
    IF n > Limit + 1 THEN [buffered |-> FALSE, length |-> n]
    ELSE [buffered |-> TRUE, length |-> IF n > Limit THEN Limit ELSE n]

\* At most Limit bytes are read.  If that many came, the reader returned has
\* those bytes in front of the rest; otherwise the buffer holds them all.
readerToBuffer(n) ==
    LET got == IF n < Limit THEN n ELSE Limit
    IN  IF got = Limit THEN [buffered |-> FALSE, length |-> got + (n - got)]
                       ELSE [buffered |-> TRUE, length |-> got]

\* Faulty variant: a streamed request visits the Request hooks.
ReadRequestAlwaysHooks ==
    /\ step = "readRequest"
    /\ step' = "Request"
    /\ flow' = [flow EXCEPT !.Stream = @ \/ ~readerToBuffer(flow.reqSize).buffered,
                            !.forwarded = readerToBuffer(flow.reqSize).length]
    /\ UNCHANGED <<tls, serverConn, closeAfterResponse, connection, requests, hook,
                   status, culprit>>

\* With Stream set the body is not read here.
ReadRequest ==
    LET read == readerToBuffer(flow.reqSize)
    IN  /\ step = "readRequest"
        /\ \/ /\ flow.Stream
              /\ step' = "send"
              /\ flow' = [flow EXCEPT !.forwarded = flow.reqSize]
           \/ /\ ~flow.Stream /\ read.buffered
              /\ step' = "Request"
              /\ flow' = [flow EXCEPT !.forwarded = read.length]
           \/ /\ ~flow.Stream /\ ~read.buffered
              /\ step' = "send"
              /\ flow' = [flow EXCEPT !.Stream = TRUE, !.forwarded = read.length]
        /\ UNCHANGED <<tls, serverConn, closeAfterResponse, connection, requests, hook,
                       status, culprit>>

\* Reading the request or the response breaks off, or the request to the
\* server cannot be built.
AnswerBadGateway ==
    /\ \/ step \in {"readRequest", "readResponse"} /\ ~flow.Stream
       \/ step = "send"
    /\ Answer("502")
    /\ UNCHANGED <<tls, serverConn, closeAfterResponse, connection, requests, hook,
                   flow, culprit>>

\* A ServerConn is made for a plain connection that has none.
initHttpServerConn == IF serverConn = "nil" /\ ~tls THEN "client" ELSE serverConn

\* The server answers with a body of n bytes, and perhaps wants to close.
Send(n, close, enc) ==
    /\ step = "send"
    /\ serverConn' = initHttpServerConn
    /\ flow.UseSeparateClient \/ serverConn' = "client"
    /\ closeAfterResponse' = (closeAfterResponse \/ close)
    /\ flow' = [flow EXCEPT !.resSize = n, !.close = close, !.enc = enc,
                            !.body = IF enc = "none" \/ n = 0 THEN "plain" ELSE "coded"]
    /\ step' = "Responseheaders" /\ hook' = 1
    /\ UNCHANGED <<tls, connection, requests, status, culprit>>

\* The client's Do fails.
SendFails ==
    /\ step = "send"
    /\ serverConn' = initHttpServerConn
    /\ flow.UseSeparateClient \/ serverConn' = "client"
    /\ Answer("502")
    /\ UNCHANGED <<tls, closeAfterResponse, connection, requests, hook, flow, culprit>>

\* Do on a nil client.
SendPanics ==
    /\ step = "send"
    /\ initHttpServerConn = "noClient" /\ ~flow.UseSeparateClient
    /\ Recover("proxy")
    /\ UNCHANGED <<tls, serverConn, closeAfterResponse, connection, requests, hook, flow>>

\* A short body goes to the Response hooks; any other is copied to the client.
BufferResponse ==
    /\ step = "readResponse" /\ ~flow.Stream /\ readerToBuffer(flow.resSize).buffered
    /\ step' = "Response"
    /\ flow' = [flow EXCEPT !.received = readerToBuffer(flow.resSize).length]
    /\ UNCHANGED <<tls, serverConn, closeAfterResponse, connection, requests, hook,
                   status, culprit>>

StreamResponse ==
    /\ step = "readResponse"
    /\ \/ flow.Stream /\ flow' = [flow EXCEPT !.received = flow.resSize]
       \/ /\ ~flow.Stream /\ ~readerToBuffer(flow.resSize).buffered
          /\ flow' = [flow EXCEPT !.Stream = TRUE,
                                  !.received = readerToBuffer(flow.resSize).length]
    /\ Reply("server")
    /\ UNCHANGED <<tls, serverConn, closeAfterResponse, requests, hook, culprit>>

\* The copy of a streamed body breaks off after n bytes, which reply only logs.
StreamBreaksOff(n) ==
    /\ step = "readResponse"
    /\ flow.Stream \/ ~readerToBuffer(flow.resSize).buffered
    /\ n < flow.resSize
    /\ flow' = [flow EXCEPT !.Stream = TRUE, !.received = n, !.broken = TRUE]
    /\ Reply("server")
    /\ UNCHANGED <<tls, serverConn, closeAfterResponse, requests, hook, culprit>>

\* Faulty variant: after the last hook the flow is answered, and once more
\* when the copy of the body is over.
ReplyTwice ==
    /\ step = "Response" /\ hook > NAddons
    /\ status' = status \o <<"server", "server">> /\ step' = "idle" /\ hook' = 1
    /\ UNCHANGED <<tls, serverConn, closeAfterResponse, connection, requests, flow, culprit>>

\* After the Response hooks the buffered body is written.
ReplyBuffered ==
    /\ step = "Response" /\ hook > NAddons
    /\ Reply("server") /\ hook' = 1
    /\ UNCHANGED <<tls, serverConn, closeAfterResponse, requests, flow, culprit>>

\* gzip, br and deflate; anything else is not supported.
decode(enc) == IF enc = "readable" THEN "plain" ELSE "error"

\* The outcome is kept, an error too.  Before the body is read nothing happens.
DecodedBody(r) ==
    [r EXCEPT !.decoded = IF @ # "nil" THEN @
                          ELSE IF r.resSize = 0 \/ r.enc = "none" THEN r.body
                          ELSE decode(r.enc)]

\* Faulty variant: the header still names the encoding.
ReplaceKeepsEncoding(r) ==
    LET d == DecodedBody(r)
    IN  IF d.decoded = "error" THEN d ELSE [d EXCEPT !.body = d.decoded]

\* Body and headers are changed together, or not at all.
ReplaceToDecodedBody(r) ==
    LET d == DecodedBody(r)
    IN  IF d.decoded = "error" THEN d ELSE [d EXCEPT !.body = d.decoded, !.enc = "none"]

Response ==
    \/ \E new \in {flow, DecodedBody(flow), ReplaceToDecodedBody(flow)} : HookReturns("Response", new)
    \/ HookPanics("Response")
    \/ ReplyBuffered

Finished ==
    /\ step = "idle"
    /\ requests = MaxRequests \/ connection = "closed"
    /\ UNCHANGED vars

Next ==
    \/ \E n \in Sizes : ServeHTTP(n)
    \/ NotAbsolute \/ ConnectSucceeds \/ ConnectPanics
    \/ \E intercept \in BOOLEAN : ConnectFails(intercept) \/ ConnectTransponds(intercept)
    \/ Requestheaders \/ ReadRequest \/ Request \/ AnswerBadGateway
    \/ \E n \in Sizes, close \in BOOLEAN, enc \in Encodings : Send(n, close, enc)
    \/ SendFails \/ SendPanics
    \/ Responseheaders \/ BufferResponse \/ StreamResponse \/ Response
    \/ \E n \in Sizes : StreamBreaksOff(n)
    \/ Finished

\* The network answers or fails, and hooks return.
Spec == Init /\ [][Next]_vars

-----------------------------------------------------------------------------
(* Properties.                                                              *)

\* ServeHTTP answers a request exactly once on each of its paths, with hooks
\* that answer, stream or panic; only a closed connection leaves one unanswered.
AnsweredOnce ==
    /\ Len(status) <= 1
    /\ requests > 0 /\ step = "idle" /\ connection = "open" => Len(status) = 1
    /\ step # "idle" => status = <<>>

\* Bodies pass unshortened, also those of exactly the streaming limit: what
\* the server and the client get is what the other side sent, unless reply's
\* copy failed.
BodiesWhole ==
    /\ step = "Responseheaders" => flow.forwarded = flow.reqSize
    /\ step = "idle" /\ status = <<"server">> /\ ~flow.broken => flow.received = flow.resSize

\* The comment on Flow.Stream: a flow that is being streamed does not begin
\* the Request hooks or the Response hooks (which would see no body), whether
\* a hook or the size of a body made it a stream.
StreamSkipsHooks == flow.Stream /\ step \in {"Request", "Response"} => hook > 1

\* What the client gets can be read with the Content-Encoding it is told, however
\* often hooks call DecodedBody and ReplaceToDecodedBody, and when decoding fails.
EncodingFitsBody ==
    step = "idle" /\ status = <<"server">> /\ flow.resSize > 0 =>
        (flow.body = "coded" <=> flow.enc # "none")

\* The comment "when addons panic" on the recover of ServeHTTP: nothing else
\* panics there.
OnlyAddonsPanic == culprit # "proxy"
=============================================================================
