----------------------------- MODULE FlowProofs -----------------------------
(***************************************************************************)
(* Theorems about Flow, for every number of addons, every streaming limit, *)
(* all lengths of bodies and any number of requests on a connection.       *)
(*                                                                         *)
(* What the client gets was decided in hooks and reads long before; Whole  *)
(* and Fits carry it from the step that decides to the step that answers.  *)
(***************************************************************************)
EXTENDS Flow, TLAPS

\* The body goes on whole, to the server and to the client.
Whole ==
    /\ step \in {"Request", "send", "Responseheaders"} => flow.forwarded = flow.reqSize
    /\ step = "Response" => flow.received = flow.resSize

\* A body is coded exactly when there is one and its header says so; what hooks
\* got decoded is never the coded body.
Fits(r) ==
    /\ r.body = "coded" <=> r.enc # "none" /\ r.resSize # 0
    /\ r.decoded # "coded"

FlowInv == TypeOK /\ AnsweredOnce /\ Whole /\ BodiesWhole /\ StreamSkipsHooks /\ Fits(flow)

-----------------------------------------------------------------------------
(* Bodies and flows.                                                        *)

\* Whatever the limit is, no byte is lost between the buffer and the reader.
LEMMA ReaderToBufferWhole ==
  ASSUME NEW n \in Nat
  PROVE  /\ readerToBuffer(n).length = n
         /\ readerToBuffer(n).buffered \in BOOLEAN
         /\ readerToBuffer(n).buffered <=> n < Limit
<1>1. Limit \in Nat
  BY FlowAssumption
<1> QED
  BY <1>1 DEF readerToBuffer

\* The lengths and encodings of a flow that a hook has to leave alone.
SameBody(new) ==
    /\ new \in FlowRecord /\ Fits(new)
    /\ new.reqSize = flow.reqSize /\ new.resSize = flow.resSize
    /\ new.forwarded = flow.forwarded /\ new.received = flow.received
    /\ new.broken = flow.broken

\* A new flow has no body that could be coded.
LEMMA NewFlowFacts ==
  ASSUME NEW n \in Sizes \cup {0}
  PROVE  NewFlow(n) \in FlowRecord /\ Fits(NewFlow(n))
<1>1. NewFlow(n) \in FlowRecord
  BY DEF NewFlow, FlowRecord, Encodings
<1>2. Fits(NewFlow(n))
  BY DEF NewFlow, Fits
<1> QED
  BY <1>1, <1>2

\* The flow of a state that satisfies the invariant.
LEMMA FlowFacts ==
  ASSUME FlowInv
  PROVE  flow \in FlowRecord /\ Fits(flow) /\ flow.reqSize \in Nat /\ flow.resSize \in Nat
<1>1. flow \in FlowRecord /\ Fits(flow)
  BY DEF FlowInv, TypeOK
<1>2. flow.reqSize \in Sizes \cup {0} /\ flow.resSize \in Sizes \cup {0}
  BY <1>1 DEF FlowRecord
<1>3. Sizes \subseteq Nat
  BY FlowAssumption
<1>4. \A n \in Sizes \cup {0} : n \in Nat
  BY <1>3
<1>5. flow.reqSize \in Nat /\ flow.resSize \in Nat
  BY <1>2, <1>4
<1> QED
  BY <1>1, <1>5

\* Switching a flow to streaming or to its own client.
LEMMA SwitchedFacts ==
  ASSUME FlowInv, NEW new \in Switched
  PROVE  SameBody(new)
<1>1. flow \in FlowRecord /\ Fits(flow)
  BY DEF FlowInv, TypeOK
<1>2. CASE new = flow
  BY <1>1, <1>2 DEF SameBody
<1>3. CASE new = [flow EXCEPT !.Stream = TRUE]
  BY <1>1, <1>3 DEF SameBody, FlowRecord, Fits
<1>4. CASE new = [flow EXCEPT !.UseSeparateClient = TRUE]
  BY <1>1, <1>4 DEF SameBody, FlowRecord, Fits
<1> QED
  BY <1>2, <1>3, <1>4 DEF Switched

\* DecodedBody keeps a flow fitting.
LEMMA DecodedBodyFacts ==
  ASSUME NEW r \in FlowRecord, Fits(r)
  PROVE  LET d == DecodedBody(r)
         IN  /\ d \in FlowRecord /\ Fits(d)
             /\ d.reqSize = r.reqSize /\ d.resSize = r.resSize
             /\ d.forwarded = r.forwarded /\ d.received = r.received /\ d.broken = r.broken
             /\ d.decoded \in {"plain", "error"}
<1> DEFINE x == IF r.decoded # "nil" THEN r.decoded
                ELSE IF r.resSize = 0 \/ r.enc = "none" THEN r.body ELSE decode(r.enc)
<1>1. r.decoded \in {"nil", "plain", "error"} /\ r.body \in {"coded", "plain"}
  BY DEF FlowRecord, Fits
<1>2. x \in {"plain", "error"}
  BY <1>1 DEF Fits, decode
<1>3. DecodedBody(r) = [r EXCEPT !.decoded = x]
  BY DEF DecodedBody
<1> HIDE DEF x
<1> QED
  BY <1>2, <1>3 DEF FlowRecord, Fits

\* Body and header are replaced together.
LEMMA DecodedFacts ==
  ASSUME FlowInv, NEW new \in {flow, DecodedBody(flow), ReplaceToDecodedBody(flow)}
  PROVE  SameBody(new)
<1> DEFINE d == DecodedBody(flow)
           e == [d EXCEPT !.body = d.decoded]
           g == [e EXCEPT !.enc = "none"]
<1>1. flow \in FlowRecord /\ Fits(flow)
  BY DEF FlowInv, TypeOK
<1>2. SameBody(flow)
  BY <1>1 DEF SameBody
<1>3. SameBody(d) /\ d.decoded \in {"plain", "error"}
  BY <1>1, DecodedBodyFacts DEF SameBody
<1>4. ReplaceToDecodedBody(flow) = IF d.decoded = "error" THEN d ELSE g
  BY DEF ReplaceToDecodedBody
<1> HIDE DEF d
<1>5. ASSUME d.decoded # "error" PROVE SameBody(g)
  <2>1. d \in FlowRecord /\ d.decoded = "plain"
    BY <1>3, <1>5 DEF SameBody
  <2>2. /\ e \in FlowRecord /\ e.body = "plain" /\ e.decoded = "plain"
        /\ e.reqSize = d.reqSize /\ e.resSize = d.resSize
        /\ e.forwarded = d.forwarded /\ e.received = d.received /\ e.broken = d.broken
    BY <2>1 DEF FlowRecord
  <2> HIDE DEF e
  <2>3. /\ g \in FlowRecord /\ g.body = "plain" /\ g.decoded = "plain" /\ g.enc = "none"
        /\ g.reqSize = e.reqSize /\ g.resSize = e.resSize
        /\ g.forwarded = e.forwarded /\ g.received = e.received /\ g.broken = e.broken
    BY <2>2 DEF FlowRecord, Encodings
  <2> HIDE DEF g
  <2>4. Fits(g)
    BY <2>3 DEF Fits
  <2> QED
    BY <1>3, <2>2, <2>3, <2>4 DEF SameBody
<1> HIDE DEF g
<1> QED
  BY <1>2, <1>3, <1>4, <1>5 DEF d

-----------------------------------------------------------------------------
(* FlowInv is inductive.                                                    *)

\* A new connection.
LEMMA FlowInit == Init => FlowInv
<1> SUFFICES ASSUME Init PROVE FlowInv
  OBVIOUS
<1>1. flow \in FlowRecord /\ Fits(flow)
  BY NewFlowFacts DEF Init
<1>2. TypeOK
  <2>1. requests \in 0..MaxRequests /\ hook \in 1..(NAddons + 1)
    BY FlowAssumption DEF Init
  <2>2. status \in Seq({"400", "502", "addon", "server", "200"})
    <3>1. status = <<>>
      BY DEF Init
    <3> QED
      BY <3>1
  <2> QED
    BY <1>1, <2>1, <2>2 DEF Init, TypeOK
<1>3. AnsweredOnce
  <2>1. status = <<>> /\ Len(<<>>) = 0 /\ requests = 0
    BY DEF Init
  <2> QED
    BY <2>1 DEF Init, AnsweredOnce
<1>4. BodiesWhole
  <2>1. step = "idle" /\ status # <<"server">>
    BY DEF Init
  <2> QED
    BY <2>1 DEF BodiesWhole
<1>5. Whole /\ StreamSkipsHooks
  BY DEF Init, Whole, StreamSkipsHooks
<1> QED
  BY <1>1, <1>2, <1>3, <1>4, <1>5 DEF FlowInv

\* One status, written once.
LEMMA OneStatus ==
  ASSUME NEW s \in {"400", "502", "addon", "server", "200"}
  PROVE  /\ <<s>> \in Seq({"400", "502", "addon", "server", "200"})
         /\ Len(<<s>>) = 1 /\ Append(<<>>, s) = <<s>>
         /\ s # "server" => <<s>> # <<"server">>
OBVIOUS

\* Nothing has been written while ServeHTTP is at work.
LEMMA Unanswered ==
  ASSUME FlowInv, step # "idle"
  PROVE  /\ status = <<>>
         /\ \A s : status' = Append(status, s) => status' = Append(<<>>, s)
BY DEF FlowInv, AnsweredOnce

\* ServeHTTP ends with any answer but the server's.
LEMMA Ends ==
  ASSUME FlowInv, step' = "idle", NEW s \in {"400", "502", "addon", "200"}, status' = <<s>>,
         TypeOK', Fits(flow)'
  PROVE  FlowInv'
<1>1. AnsweredOnce'
  BY OneStatus DEF AnsweredOnce
<1>2. BodiesWhole'
  BY OneStatus DEF BodiesWhole
<1>3. Whole' /\ StreamSkipsHooks'
  BY DEF Whole, StreamSkipsHooks
<1> QED
  BY <1>1, <1>2, <1>3 DEF FlowInv

\* The counter of requests.
LEMMA BeginFacts ==
  ASSUME FlowInv, requests < MaxRequests, requests' = requests + 1
  PROVE  requests' \in 0..MaxRequests
<1>1. requests \in 0..MaxRequests /\ MaxRequests \in Nat
  BY FlowAssumption DEF FlowInv, TypeOK
<1> QED
  BY <1>1

\* A request begins, or is a CONNECT.
LEMMA BeginKeeps ==
  ASSUME FlowInv,
         \/ \E n \in Sizes : ServeHTTP(n)
         \/ NotAbsolute \/ ConnectSucceeds \/ ConnectPanics
         \/ \E intercept \in BOOLEAN : ConnectFails(intercept) \/ ConnectTransponds(intercept)
  PROVE  FlowInv'
<1>1. requests' \in 0..MaxRequests
  BY BeginFacts DEF ServeHTTP, NotAbsolute, ConnectSucceeds, ConnectPanics, ConnectFails,
                    ConnectTransponds, BeginRequest
<1>2. 1 \in 1..(NAddons + 1)
  BY FlowAssumption
<1>3. CASE \E n \in Sizes : ServeHTTP(n)
  <2>1. PICK n \in Sizes : ServeHTTP(n)
    BY <1>3
  <2>2. /\ step' = "Requestheaders" /\ hook' = 1 /\ flow' = NewFlow(n) /\ status' = <<>>
        /\ culprit' = "none" /\ UNCHANGED <<tls, serverConn, closeAfterResponse, connection>>
    BY <2>1 DEF ServeHTTP, BeginRequest
  <2>3. flow' \in FlowRecord /\ Fits(flow)'
    BY <2>2, NewFlowFacts DEF Fits
  <2>4. /\ status' \in Seq({"400", "502", "addon", "server", "200"})
        /\ Len(status') = 0
    BY <2>2
  <2>5. TypeOK'
    BY <1>1, <1>2, <2>2, <2>3, <2>4 DEF FlowInv, TypeOK, HookSteps
  <2>6. AnsweredOnce'
    BY <2>2, <2>4 DEF AnsweredOnce
  <2>7. Whole' /\ BodiesWhole' /\ StreamSkipsHooks'
    BY <2>2 DEF Whole, BodiesWhole, StreamSkipsHooks
  <2> QED
    BY <2>3, <2>5, <2>6, <2>7 DEF FlowInv
<1>4. CASE ConnectPanics
  <2>1. /\ step' = "idle" /\ flow' = NewFlow(0) /\ status' = <<>> /\ connection' = "closed"
        /\ culprit' = "addon" /\ UNCHANGED <<tls, serverConn, closeAfterResponse, hook>>
    BY <1>4 DEF ConnectPanics
  <2>2. flow' \in FlowRecord /\ Fits(flow)'
    BY <2>1, NewFlowFacts DEF Fits
  <2>3. /\ status' \in Seq({"400", "502", "addon", "server", "200"})
        /\ Len(status') = 0 /\ status' # <<"server">>
    BY <2>1
  <2>4. TypeOK'
    BY <1>1, <2>1, <2>2, <2>3 DEF FlowInv, TypeOK
  <2>5. AnsweredOnce'
    BY <2>1, <2>3 DEF AnsweredOnce
  <2>6. Whole' /\ BodiesWhole' /\ StreamSkipsHooks'
    BY <2>1, <2>3 DEF Whole, BodiesWhole, StreamSkipsHooks
  <2> QED
    BY <2>2, <2>4, <2>5, <2>6 DEF FlowInv
<1>5. CASE \/ NotAbsolute \/ ConnectSucceeds
           \/ \E intercept \in BOOLEAN : ConnectFails(intercept) \/ ConnectTransponds(intercept)
  <2>1. /\ step' = "idle" /\ flow' = NewFlow(0) /\ culprit' = "none"
        /\ UNCHANGED <<closeAfterResponse, hook>> /\ tls' \in BOOLEAN
        /\ serverConn' \in {"nil", "noClient", "client"} /\ connection' \in {"open", "closed"}
    BY <1>5 DEF NotAbsolute, ConnectSucceeds, ConnectFails, ConnectTransponds, BeginRequest,
                FlowInv, TypeOK
  <2>2. PICK s \in {"400", "502", "addon", "200"} : status' = <<s>>
    BY <1>5 DEF NotAbsolute, ConnectSucceeds, ConnectFails, ConnectTransponds
  <2>3. flow' \in FlowRecord /\ Fits(flow)'
    BY <2>1, NewFlowFacts DEF Fits
  <2>4. TypeOK'
    BY <1>1, <2>1, <2>2, <2>3, OneStatus DEF FlowInv, TypeOK
  <2> QED
    BY <2>1, <2>2, <2>3, <2>4, Ends
<1> QED
  BY <1>3, <1>4, <1>5

\* A hook returns: it was not the first one of the next round.
LEMMA HookReturnsKeeps ==
  ASSUME FlowInv, NEW event \in HookSteps, NEW new, HookReturns(event, new), SameBody(new)
  PROVE  FlowInv'
<1>1. /\ step = event /\ hook <= NAddons /\ hook' = hook + 1 /\ flow' = new
      /\ UNCHANGED <<tls, serverConn, closeAfterResponse, connection, requests, step,
                     status, culprit>>
  BY DEF HookReturns
<1>2. hook' \in 1..(NAddons + 1) /\ hook' > 1
  <2>1. hook \in 1..(NAddons + 1) /\ NAddons \in Nat
    BY FlowAssumption DEF FlowInv, TypeOK
  <2> QED
    BY <1>1, <2>1
<1>3. TypeOK'
  BY <1>1, <1>2 DEF FlowInv, TypeOK, SameBody
<1>4. AnsweredOnce' /\ StreamSkipsHooks'
  BY <1>1, <1>2 DEF FlowInv, AnsweredOnce, StreamSkipsHooks
<1>5. Whole' /\ BodiesWhole'
  BY <1>1 DEF FlowInv, Whole, BodiesWhole, SameBody
<1>6. Fits(flow)'
  BY <1>1 DEF SameBody, Fits
<1> QED
  BY <1>3, <1>4, <1>5, <1>6 DEF FlowInv

\* A hook answers, or panics.
LEMMA HookEndsKeeps ==
  ASSUME FlowInv, NEW event \in HookSteps, HookAnswers(event) \/ HookPanics(event)
  PROVE  FlowInv'
<1>1. step = event /\ step # "idle"
  BY DEF HookAnswers, HookPanics, HookSteps
<1>2. status = <<>>
  BY <1>1, Unanswered
<1>3. PICK s \in {"addon", "200"} : status' = <<s>>
  BY <1>2, OneStatus DEF HookAnswers, HookPanics, Reply, Answer, Recover
<1>4. /\ step' = "idle" /\ UNCHANGED <<tls, serverConn, closeAfterResponse, requests, hook, flow>>
      /\ connection' \in {"open", "closed"} /\ culprit' \in {"none", "addon", "proxy"}
  BY DEF HookAnswers, HookPanics, Reply, Answer, Recover, FlowInv, TypeOK
<1>5. TypeOK' /\ Fits(flow)'
  BY <1>3, <1>4, OneStatus DEF FlowInv, TypeOK, Fits
<1> QED
  BY <1>3, <1>4, <1>5, Ends

\* After the last hook ServeHTTP goes on; no hook of the next round was called.
LEMMA HooksDoneKeeps ==
  ASSUME FlowInv,
         \/ HooksDone("Requestheaders", "readRequest") \/ HooksDone("Request", "send")
         \/ HooksDone("Responseheaders", "readResponse")
  PROVE  FlowInv'
<1>1. /\ step # "idle" /\ step' \in {"readRequest", "send", "readResponse"} /\ hook' = 1
      /\ step' = "send" => step = "Request"
      /\ UNCHANGED <<tls, serverConn, closeAfterResponse, connection, requests, flow,
                     status, culprit>>
  BY DEF HooksDone
<1>2. hook' \in 1..(NAddons + 1)
  BY <1>1, FlowAssumption
<1>3. TypeOK'
  BY <1>1, <1>2 DEF FlowInv, TypeOK
<1>4. AnsweredOnce' /\ StreamSkipsHooks'
  BY <1>1 DEF FlowInv, AnsweredOnce, StreamSkipsHooks
<1>5. Whole' /\ BodiesWhole' /\ Fits(flow)'
  BY <1>1 DEF FlowInv, Whole, BodiesWhole, Fits
<1> QED
  BY <1>3, <1>4, <1>5 DEF FlowInv

\* The request's body is read, or left to be streamed.
LEMMA ReadRequestKeeps ==
  ASSUME FlowInv, ReadRequest
  PROVE  FlowInv'
<1> DEFINE n == flow.reqSize
<1>1. flow \in FlowRecord /\ n \in Nat
  BY FlowFacts
<1>2. /\ step = "readRequest" /\ step' \in {"Request", "send"}
      /\ step' = "Request" => ~flow.Stream
      /\ UNCHANGED <<tls, serverConn, closeAfterResponse, connection, requests, hook,
                     status, culprit>>
  BY DEF ReadRequest
<1>3. \/ flow' = [flow EXCEPT !.forwarded = n]
      \/ flow' = [flow EXCEPT !.Stream = TRUE, !.forwarded = n] /\ step' = "send"
  BY <1>1, ReaderToBufferWhole DEF ReadRequest
<1>4. /\ flow' \in FlowRecord /\ Fits(flow') /\ flow'.forwarded = flow'.reqSize
      /\ step' = "Request" => flow'.Stream = flow.Stream
  <2>1. Fits(flow)
    BY DEF FlowInv
  <2>2. CASE flow' = [flow EXCEPT !.forwarded = n]
    BY <1>1, <2>1, <2>2 DEF FlowRecord, Fits
  <2>3. CASE flow' = [flow EXCEPT !.Stream = TRUE, !.forwarded = n] /\ step' = "send"
    BY <1>1, <2>1, <2>3 DEF FlowRecord, Fits
  <2> QED
    BY <1>3, <2>2, <2>3
<1> HIDE DEF n
<1>5. TypeOK'
  BY <1>2, <1>4 DEF FlowInv, TypeOK, HookSteps
<1>6. AnsweredOnce' /\ StreamSkipsHooks'
  BY <1>2, <1>4 DEF FlowInv, AnsweredOnce, StreamSkipsHooks
<1>7. Whole' /\ BodiesWhole'
  BY <1>2, <1>4 DEF Whole, BodiesWhole
<1> QED
  BY <1>4, <1>5, <1>6, <1>7 DEF FlowInv, Fits

\* The server answers.
LEMMA SendKeeps ==
  ASSUME FlowInv, NEW n \in Sizes, NEW close \in BOOLEAN, NEW enc \in Encodings,
         Send(n, close, enc)
  PROVE  FlowInv'
<1> DEFINE body == IF enc = "none" \/ n = 0 THEN "plain" ELSE "coded"
           a == [flow EXCEPT !.resSize = n]
           b == [a EXCEPT !.close = close]
           c == [b EXCEPT !.enc = enc]
           d == [c EXCEPT !.body = body]
<1>1. /\ step = "send" /\ step' = "Responseheaders" /\ hook' = 1 /\ flow' = d
      /\ UNCHANGED <<tls, connection, requests, status, culprit>>
  BY DEF Send
<1>2. /\ serverConn' \in {"nil", "noClient", "client"}
      /\ closeAfterResponse' \in BOOLEAN /\ hook' \in 1..(NAddons + 1)
  <2>1. serverConn' \in {"nil", "noClient", "client"}
    BY DEF Send, initHttpServerConn, FlowInv, TypeOK
  <2>2. closeAfterResponse' \in BOOLEAN
    BY DEF Send, FlowInv, TypeOK
  <2>3. hook' \in 1..(NAddons + 1)
    BY <1>1, FlowAssumption
  <2> QED
    BY <2>1, <2>2, <2>3
<1>3. body \in {"coded", "plain"} /\ (body = "coded" <=> enc # "none" /\ n # 0)
  OBVIOUS
<1>4. /\ flow \in FlowRecord /\ flow.decoded # "coded" /\ flow.forwarded = flow.reqSize
  BY <1>1 DEF FlowInv, TypeOK, Fits, Whole
<1>5. /\ a \in FlowRecord /\ a.resSize = n /\ a.decoded = flow.decoded
      /\ a.forwarded = flow.forwarded /\ a.reqSize = flow.reqSize
  BY <1>4 DEF FlowRecord
<1> HIDE DEF a, body
<1>6. /\ b \in FlowRecord /\ b.resSize = n /\ b.decoded = a.decoded
      /\ b.forwarded = a.forwarded /\ b.reqSize = a.reqSize
  BY <1>5 DEF FlowRecord
<1> HIDE DEF b
<1>7. /\ c \in FlowRecord /\ c.resSize = n /\ c.decoded = b.decoded /\ c.enc = enc
      /\ c.forwarded = b.forwarded /\ c.reqSize = b.reqSize
  BY <1>6 DEF FlowRecord
<1> HIDE DEF c
<1>8. /\ d \in FlowRecord /\ d.resSize = n /\ d.decoded = c.decoded /\ d.enc = enc
      /\ d.body = body /\ d.forwarded = c.forwarded /\ d.reqSize = c.reqSize
  BY <1>3, <1>7 DEF FlowRecord
<1> HIDE DEF d
<1>9. flow' \in FlowRecord /\ Fits(flow') /\ flow'.forwarded = flow'.reqSize
  BY <1>1, <1>3, <1>4, <1>5, <1>6, <1>7, <1>8 DEF Fits
<1>10. TypeOK'
  BY <1>1, <1>2, <1>9 DEF FlowInv, TypeOK, HookSteps
<1>11. AnsweredOnce' /\ StreamSkipsHooks'
  BY <1>1 DEF FlowInv, AnsweredOnce, StreamSkipsHooks
<1>12. Whole' /\ BodiesWhole'
  BY <1>1, <1>9 DEF Whole, BodiesWhole
<1> QED
  BY <1>9, <1>10, <1>11, <1>12 DEF FlowInv, Fits

\* A read or the request to the server fails, or the proxy itself panics.
LEMMA FailureKeeps ==
  ASSUME FlowInv, AnswerBadGateway \/ SendFails \/ SendPanics
  PROVE  FlowInv'
<1>1. step # "idle" /\ step' = "idle"
  BY DEF AnswerBadGateway, SendFails, SendPanics, Answer, Recover
<1>2. status = <<>>
  BY <1>1, Unanswered
<1>3. PICK s \in {"502", "200"} : status' = <<s>>
  BY <1>2, OneStatus DEF AnswerBadGateway, SendFails, SendPanics, Answer, Recover
<1>4. /\ UNCHANGED <<tls, closeAfterResponse, connection, requests, hook, flow>>
      /\ serverConn' \in {"nil", "noClient", "client"} /\ culprit' \in {"none", "addon", "proxy"}
  BY DEF AnswerBadGateway, SendFails, SendPanics, Answer, Recover, initHttpServerConn,
         FlowInv, TypeOK
<1>5. TypeOK' /\ Fits(flow)'
  BY <1>1, <1>3, <1>4, OneStatus DEF FlowInv, TypeOK, Fits
<1> QED
  BY <1>1, <1>3, <1>5, Ends

\* A short response goes to the Response hooks, which find it whole.
LEMMA BufferResponseKeeps ==
  ASSUME FlowInv, BufferResponse
  PROVE  FlowInv'
<1> DEFINE n == flow.resSize
<1>1. flow \in FlowRecord /\ n \in Nat /\ Fits(flow)
  BY FlowFacts
<1>2. /\ step = "readResponse" /\ ~flow.Stream /\ step' = "Response"
      /\ flow' = [flow EXCEPT !.received = n]
      /\ UNCHANGED <<tls, serverConn, closeAfterResponse, connection, requests, hook,
                     status, culprit>>
  BY <1>1, ReaderToBufferWhole DEF BufferResponse
<1>3. /\ flow' \in FlowRecord /\ Fits(flow') /\ flow'.received = flow'.resSize
      /\ flow'.Stream = flow.Stream
  BY <1>1, <1>2 DEF FlowRecord, Fits
<1> HIDE DEF n
<1>4. TypeOK'
  BY <1>2, <1>3 DEF FlowInv, TypeOK, HookSteps
<1>5. AnsweredOnce' /\ StreamSkipsHooks'
  BY <1>2, <1>3 DEF FlowInv, AnsweredOnce, StreamSkipsHooks
<1>6. Whole' /\ BodiesWhole'
  BY <1>2, <1>3 DEF Whole, BodiesWhole
<1> QED
  BY <1>3, <1>4, <1>5, <1>6 DEF FlowInv, Fits

\* The server's answer reaches the client, whole or with the copy broken off.
LEMMA ServerAnswerKeeps ==
  ASSUME FlowInv, step # "idle", status' = Append(status, "server"), step' = "idle",
         connection' = IF flow.close THEN "closed" ELSE connection,
         flow' \in FlowRecord, Fits(flow'), ~flow'.broken => flow'.received = flow'.resSize,
         hook' \in 1..(NAddons + 1),
         UNCHANGED <<tls, serverConn, closeAfterResponse, requests, culprit>>
  PROVE  FlowInv'
<1>1. status' = <<"server">>
  BY Unanswered, OneStatus
<1>2. connection' \in {"open", "closed"}
  BY DEF FlowInv, TypeOK
<1>3. TypeOK'
  BY <1>1, <1>2, OneStatus DEF FlowInv, TypeOK
<1>4. AnsweredOnce'
  <2>1. Len(<<"server">>) = 1
    OBVIOUS
  <2>2. Len(status') = 1
    BY ONLY <1>1, <2>1
  <2> QED
    BY <2>2 DEF AnsweredOnce
<1>5. Whole' /\ BodiesWhole' /\ StreamSkipsHooks'
  BY DEF Whole, BodiesWhole, StreamSkipsHooks
<1> QED
  BY <1>3, <1>4, <1>5 DEF FlowInv, Fits

\* The three ways in which the server's answer is written.
LEMMA ReplyKeeps ==
  ASSUME FlowInv, StreamResponse \/ ReplyBuffered \/ \E n \in Sizes : StreamBreaksOff(n)
  PROVE  FlowInv'
<1>1. flow \in FlowRecord /\ flow.resSize \in Nat /\ Fits(flow)
  BY FlowFacts
<1>2. hook \in 1..(NAddons + 1) /\ 1 \in 1..(NAddons + 1)
  BY FlowAssumption DEF FlowInv, TypeOK
<1>3. CASE ReplyBuffered
  <2>1. flow.received = flow.resSize
    BY <1>3 DEF ReplyBuffered, FlowInv, Whole
  <2> QED
    BY <1>1, <1>2, <1>3, <2>1, ServerAnswerKeeps DEF ReplyBuffered, Reply, Answer
<1>4. CASE StreamResponse
  <2>1. \/ flow' = [flow EXCEPT !.received = flow.resSize]
        \/ flow' = [flow EXCEPT !.Stream = TRUE, !.received = flow.resSize]
    BY <1>1, <1>4, ReaderToBufferWhole DEF StreamResponse
  <2>2. flow' \in FlowRecord /\ Fits(flow') /\ flow'.received = flow'.resSize
    BY <1>1, <2>1 DEF FlowRecord, Fits
  <2> QED
    BY <1>2, <1>4, <2>2, ServerAnswerKeeps DEF StreamResponse, Reply, Answer
<1>5. CASE \E n \in Sizes : StreamBreaksOff(n)
  <2>1. PICK n \in Sizes : StreamBreaksOff(n)
    BY <1>5
  <2>2. n \in Nat
    BY FlowAssumption
  <2>3. flow' = [flow EXCEPT !.Stream = TRUE, !.received = n, !.broken = TRUE]
    BY <2>1 DEF StreamBreaksOff
  <2>4. flow' \in FlowRecord /\ Fits(flow') /\ flow'.broken
    BY <1>1, <2>2, <2>3 DEF FlowRecord, Fits
  <2> QED
    BY <1>2, <2>1, <2>4, ServerAnswerKeeps DEF StreamBreaksOff, Reply, Answer
<1> QED
  BY <1>3, <1>4, <1>5

\* The four hooks, each with all its outcomes.
LEMMA HooksKeep ==
  ASSUME FlowInv, Requestheaders \/ Request \/ Responseheaders \/ Response
  PROVE  FlowInv'
<1>1. HookSteps = {"Requestheaders", "Request", "Responseheaders", "Response"}
  BY DEF HookSteps
<1>2. ASSUME NEW event \in HookSteps, NEW new \in Switched, HookReturns(event, new)
      PROVE  FlowInv'
  BY <1>2, SwitchedFacts, HookReturnsKeeps
<1>3. ASSUME NEW new \in {flow, DecodedBody(flow), ReplaceToDecodedBody(flow)},
             HookReturns("Response", new)
      PROVE  FlowInv'
  BY <1>1, <1>3, DecodedFacts, HookReturnsKeeps
<1>4. CASE Requestheaders
  BY <1>1, <1>2, <1>4, HookEndsKeeps, HooksDoneKeeps DEF Requestheaders
<1>5. CASE Request
  BY <1>1, <1>2, <1>5, HookEndsKeeps, HooksDoneKeeps DEF Request
<1>6. CASE Responseheaders
  <2>1. \A new \in {flow, [flow EXCEPT !.Stream = TRUE]} : new \in Switched
    BY DEF Switched
  <2> QED
    BY <1>1, <1>2, <1>6, <2>1, HookEndsKeeps, HooksDoneKeeps DEF Responseheaders
<1>7. CASE Response
  BY <1>1, <1>3, <1>7, HookEndsKeeps, ReplyKeeps DEF Response
<1> QED
  BY <1>4, <1>5, <1>6, <1>7

\* Every step of ServeHTTP keeps FlowInv.
LEMMA FlowNext == FlowInv /\ [Next]_vars => FlowInv'
<1> SUFFICES ASSUME FlowInv, [Next]_vars PROVE FlowInv'
  OBVIOUS
<1>1. CASE UNCHANGED vars
  BY <1>1 DEF vars, FlowInv, TypeOK, AnsweredOnce, Whole, BodiesWhole, StreamSkipsHooks, Fits
<1>2. CASE \E n \in Sizes, close \in BOOLEAN, enc \in Encodings : Send(n, close, enc)
  BY <1>2, SendKeeps
<1>3. CASE Finished
  BY <1>1, <1>3 DEF Finished
<1> QED
  BY <1>1, <1>2, <1>3, BeginKeeps, HooksKeep, ReadRequestKeeps, FailureKeeps,
     BufferResponseKeeps, ReplyKeeps
  DEF Next

-----------------------------------------------------------------------------
(* The theorems.                                                            *)

\* FlowInv holds on every connection.
THEOREM FlowInvariance == Spec => []FlowInv
<1>1. Init => FlowInv
  BY FlowInit
<1>2. FlowInv /\ [Next]_vars => FlowInv'
  BY FlowNext
<1> QED
  BY <1>1, <1>2, PTL DEF Spec

\* The state of a connection keeps its types; the loop over the addons never
\* runs past the last one.
THEOREM FlowTypeCorrect == Spec => []TypeOK
<1>1. FlowInv => TypeOK
  BY DEF FlowInv
<1> QED
  BY <1>1, FlowInvariance, PTL

\* Each request is answered exactly once, with any number of addons that
\* answer, stream or panic.
THEOREM EachAnsweredOnce == Spec => []AnsweredOnce
<1>1. FlowInv => AnsweredOnce
  BY DEF FlowInv
<1> QED
  BY <1>1, FlowInvariance, PTL

\* Bodies of every length pass whole, for every streaming limit.
THEOREM BodiesPassWhole == Spec => []BodiesWhole
<1>1. FlowInv => BodiesWhole
  BY DEF FlowInv
<1> QED
  BY <1>1, FlowInvariance, PTL

\* A streamed flow does not begin the Request or the Response hooks.
THEOREM StreamsSkipHooks == Spec => []StreamSkipsHooks
<1>1. FlowInv => StreamSkipsHooks
  BY DEF FlowInv
<1> QED
  BY <1>1, FlowInvariance, PTL

\* The client can read what it gets with the Content-Encoding it is told.
THEOREM EncodingFits == Spec => []EncodingFitsBody
<1>1. FlowInv => EncodingFitsBody
  <2> SUFFICES ASSUME FlowInv, flow.resSize > 0
               PROVE  flow.body = "coded" <=> flow.enc # "none"
    BY DEF EncodingFitsBody
  <2>1. flow.resSize \in Nat /\ Fits(flow)
    BY FlowFacts
  <2>2. flow.resSize # 0
    BY <2>1
  <2> QED
    BY <2>1, <2>2 DEF Fits
<1> QED
  BY <1>1, FlowInvariance, PTL
=============================================================================
