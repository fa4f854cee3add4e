----------------------- MODULE RequestLifecycleProofs -----------------------
(***************************************************************************)
(* Proofs about RequestLifecycle, for any clients, requests, routes and    *)
(* files: that it implements OneResponse, and its safety invariants.  The  *)
(* steps of a client are first sorted by what they do: nothing that counts *)
(* (Quiet), write a response, hand a request to its route (Asked), or end  *)
(* a handler (Ends).  Inv is inductive for these four.                     *)
(***************************************************************************)
EXTENDS RequestLifecycle, TLAPS, SequenceTheorems, FiniteSetTheorems

ClientFields == {"stage", "peer", "n", "method", "path"}
Stages == {"idle", "reading", "waiting", "ended"}

\* What a client's stage says of its request: it has no answer before it is routed,
\* and one before the session goes on.
StageInv(c) ==
  /\ client[c].stage \in Stages /\ client[c].n \in 0 .. MaxRequests
  /\ client[c].stage \in {"reading", "waiting"} => client[c].n > 0
  /\ client[c].stage = "reading" => answers[InWork(c)] = <<>>
  /\ client[c].stage = "idle" /\ client[c].n > 0 => answers[InWork(c)] # <<>>
  /\ \A m \in 1 .. MaxRequests : m > client[c].n => answers[<<c, m>>] = <<>>
  /\ mode = "http2" => client[c].n \in {0, 1} /\ (client[c].stage = "idle" => client[c].n = 0)

\* A handler works on a request without an answer; a promise that is set belongs to
\* an answer of the request in work.
AnswerInv(c) ==
  /\ handler[c] => client[c].stage = "waiting" /\ answers[InWork(c)] = <<>>
  /\ promise[c] # NoResponse => client[c].stage = "waiting" /\ answers[InWork(c)] # <<>>

ReqInv ==
  /\ DOMAIN client = Clients /\ DOMAIN promise = Clients /\ DOMAIN handler = Clients
  /\ DOMAIN answers = Requests
  /\ \A c \in Clients : DOMAIN client[c] = ClientFields
  /\ \A c \in Clients : StageInv(c) /\ AnswerInv(c)

-----------------------------------------------------------------------------
(* Responses.                                                              *)

\* What is given to send_response has each header once at most.
Plain == [status : {200, 404, 500}, body : Bodies, headers : [HeaderNames -> 0 .. 1]]

LEMMA PlainResponses ==
  ASSUME NEW status \in {200, 404, 500}, NEW body \in Bodies
  PROVE  /\ Response(status, body) \in Plain
         /\ \A names \in SUBSET HeaderNames : HandlerHeaders(Response(status, body), names) \in Plain
BY DEF Plain, Response, HandlerHeaders

LEMMA HeaderAdded ==
  ASSUME NEW a \in Responses, NEW name \in HeaderNames, a.headers[name] < 2
  PROVE  /\ AddHeader(a, name) \in Responses
         /\ \A h \in HeaderNames : h # name => AddHeader(a, name).headers[h] = a.headers[h]
BY DEF AddHeader, Responses, HeaderNames

LEMMA CompletedIsResponse ==
  ASSUME NEW a \in Plain
  PROVE  Completed(a) \in Responses
<1>1. a \in Responses /\ \A h \in HeaderNames : a.headers[h] \in 0 .. 1
  BY DEF Plain, Responses
<1>2. {"server", "content-length"} \subseteq HeaderNames
  BY DEF HeaderNames
<1> QED BY <1>1, <1>2, HeaderAdded DEF Completed

\* One more answer to request n of client c, kept in its promise or not.
Sends(c, n) ==
  \E a \in Responses :
    /\ answers' = [answers EXCEPT ![<<c, n>>] = Append(@, a)]
    /\ promise' \in {promise, [promise EXCEPT ![c] = a]}

LEMMA Sending ==
  ASSUME NEW c, NEW n, NEW a \in Plain, SendResponse(c, n, a)
  PROVE  Sends(c, n)
BY CompletedIsResponse DEF SendResponse, Sends

\* A route answers, or gives the request to a handler, or crashes.
Handled(c, n) ==
  \/ Sends(c, n) /\ handler' = handler
  \/ UNCHANGED <<answers, promise>> /\ handler' \in {handler, [handler EXCEPT ![c] = TRUE]}

LEMMA Routing ==
  ASSUME NEW c, NEW n, NEW method, NEW path, Route(c, n, method, path)
  PROVE  Handled(c, n)
<1>1. <<>> \in Bodies /\ Files \subseteq Bodies
  BY DEF Bodies
<1>2. CASE DefaultRoute(c, n)
  BY <1>1, <1>2, Sending, PlainResponses DEF DefaultRoute, Handled
<1>3. CASE LuaRoute(c, n, method)
  BY <1>1, <1>3, Sending, PlainResponses DEF LuaRoute, NothingSent, Crash, Handled
<1>4. ASSUME NEW route, StaticRoute(c, n, method, route, path)
      PROVE  Sends(c, n) /\ handler' = handler
  <2>1. FindStaticFile(route, path) \in Bodies
    BY <1>1 DEF FindStaticFile
  <2> QED BY <1>1, <1>4, <2>1, Sending, PlainResponses DEF StaticRoute
<1> QED BY <1>2, <1>3, <1>4 DEF Route, Handled

-----------------------------------------------------------------------------
(* The requests that were asked.                                           *)

AskedOf(c, m) ==
  \/ m < client[c].n \/ answers[<<c, m>>] # <<>>
  \/ m = client[c].n /\ client[c].stage \in {"idle", "waiting"}

LEMMA RequestPairs ==
  /\ \A r \in Requests : r[1] \in Clients /\ r[2] \in 1 .. MaxRequests /\ r = <<r[1], r[2]>>
  /\ \A c \in Clients, m \in 1 .. MaxRequests : <<c, m>> \in Requests
BY DEF Requests

LEMMA AskedRequest ==
  ASSUME NEW r \in Requests
  PROVE  r \in AskedRequests <=> AskedOf(r[1], r[2])
BY RequestPairs DEF AskedRequests, AskedOf

\* What a step of client c leaves alone: the other clients, and the answers to all
\* requests but the one in work.
OnlyClient(c) ==
  /\ DOMAIN client' = Clients /\ DOMAIN promise' = Clients /\ DOMAIN handler' = Clients
  /\ DOMAIN client'[c] = ClientFields
  /\ DOMAIN answers' = Requests /\ mode' = mode
  /\ \A d \in Clients : d # c => /\ client'[d] = client[d] /\ promise'[d] = promise[d]
                                 /\ handler'[d] = handler[d]
  /\ \A r \in Requests : r # <<c, client'[c].n>> => answers'[r] = answers[r]

LEMMA OthersKept ==
  ASSUME ReqInv, NEW c \in Clients, OnlyClient(c), StageInv(c)', AnswerInv(c)'
  PROVE  ReqInv'
<1>1. ASSUME NEW d \in Clients, d # c, NEW m \in 1 .. MaxRequests PROVE answers'[<<d, m>>] = answers[<<d, m>>]
  BY <1>1, RequestPairs DEF OnlyClient
<1>2. ASSUME NEW d \in Clients, d # c PROVE StageInv(d)' /\ AnswerInv(d)' /\ DOMAIN client'[d] = ClientFields
  <2>1. StageInv(d) /\ AnswerInv(d) /\ DOMAIN client[d] = ClientFields
    BY DEF ReqInv
  <2>2. client'[d] = client[d] /\ promise'[d] = promise[d] /\ handler'[d] = handler[d] /\ mode' = mode
    BY <1>2 DEF OnlyClient
  <2>3. client[d].n > 0 => answers'[<<d, client[d].n>>] = answers[<<d, client[d].n>>]
    BY <1>1, <1>2, <2>1 DEF StageInv
  <2> QED BY <1>1, <1>2, <2>1, <2>2, <2>3 DEF StageInv, AnswerInv, InWork
<1> QED BY <1>2 DEF ReqInv, OnlyClient

\* A step of client c that asks and answers nothing.
LEMMA NothingAsked ==
  ASSUME ReqInv, NEW c \in Clients, OnlyClient(c), answers' = answers,
         \A m \in 1 .. MaxRequests : AskedOf(c, m)' <=> AskedOf(c, m)
  PROVE  UNCHANGED <<AskedRequests, answers>>
<1>1. ASSUME NEW r \in Requests PROVE r \in AskedRequests' <=> r \in AskedRequests
  <2>1. r[1] \in Clients /\ r[2] \in 1 .. MaxRequests
    BY RequestPairs
  <2>2. AskedOf(r[1], r[2])' <=> AskedOf(r[1], r[2])
    BY <2>1 DEF OnlyClient, AskedOf
  <2>3. r \in AskedRequests' <=> AskedOf(r[1], r[2])'
    BY RequestPairs DEF AskedRequests, AskedOf
  <2> QED BY <2>2, <2>3, AskedRequest
<1>2. AskedRequests \subseteq Requests /\ AskedRequests' \subseteq Requests
  BY DEF AskedRequests
<1> QED BY <1>1, <1>2

\* The request in work gets its answer from its handler.
LEMMA Answering ==
  ASSUME ReqInv, NEW c \in Clients, handler[c], Sends(c, client[c].n),
         handler' = [handler EXCEPT ![c] = FALSE], UNCHANGED <<client, mode>>
  PROVE  ReqInv' /\ Promised!Next
<1> DEFINE n == client[c].n
           r == <<c, n>>
<1>1. /\ client[c].stage = "waiting" /\ n \in 1 .. MaxRequests /\ r \in Requests
      /\ answers[r] = <<>> /\ StageInv(c) /\ AnswerInv(c)
  BY RequestPairs DEF ReqInv, StageInv, AnswerInv, InWork
<1>2. PICK a \in Responses : /\ answers' = [answers EXCEPT ![r] = Append(@, a)]
                             /\ promise' \in {promise, [promise EXCEPT ![c] = a]}
  BY DEF Sends
<1>3. answers' = [answers EXCEPT ![r] = <<a>>]
  BY <1>1, <1>2
<1>4. /\ OnlyClient(c) /\ answers'[r] = <<a>>
      /\ \A m \in 1 .. MaxRequests : m # n => answers'[<<c, m>>] = answers[<<c, m>>]
  <2>1. \A m \in 1 .. MaxRequests : <<c, m>> \in Requests
    BY RequestPairs
  <2> QED BY <1>1, <1>2, <1>3, <2>1 DEF OnlyClient, ReqInv
<1>5. StageInv(c)' /\ AnswerInv(c)'
  BY <1>1, <1>2, <1>4 DEF StageInv, AnswerInv, InWork, ReqInv
<1>6. ReqInv'
  BY <1>4, <1>5, OthersKept
<1>7. r \in AskedRequests /\ AskedRequests' = AskedRequests
  <2>1. \A q \in Requests : q \in AskedRequests <=> AskedOf(q[1], q[2])
    BY AskedRequest
  <2>2. \A q \in Requests : q \in AskedRequests' <=> AskedOf(q[1], q[2])'
    BY RequestPairs DEF AskedRequests, AskedOf
  <2>3. r[1] = c /\ r[2] = n /\ AskedOf(c, n)
    BY <1>1 DEF AskedOf
  <2>4. \A q \in Requests : AskedOf(q[1], q[2])' <=> AskedOf(q[1], q[2])
    <3>1. \A q \in Requests : q # r => answers'[q] = answers[q]
      BY <1>3 DEF ReqInv
    <3>2. \A q \in Requests : q = <<q[1], q[2]>>
      BY RequestPairs
    <3> QED BY <1>1, <1>4, <2>3, <3>1, <3>2 DEF AskedOf
  <2>5. AskedRequests \subseteq Requests /\ AskedRequests' \subseteq Requests
    BY DEF AskedRequests
  <2> QED BY <1>1, <2>1, <2>2, <2>3, <2>4, <2>5
<1>8. Promised!Answer(r)
  BY <1>1, <1>3, <1>7 DEF Promised!Answer
<1> QED BY <1>1, <1>6, <1>8 DEF Promised!Next

\* A request is handed to a route, which may answer it.
LEMMA Asking ==
  ASSUME ReqInv, NEW c \in Clients, NEW n \in 1 .. MaxRequests, Handled(c, n), mode' = mode,
         \/ client[c].n = n /\ client[c].stage = "reading"
         \/ client[c].n = 0 /\ n = 1 /\ client[c].stage = "idle",
         DOMAIN client' = Clients, DOMAIN client'[c] = ClientFields,
         client'[c].stage = "waiting", client'[c].n = n,
         \A d \in Clients : d # c => client'[d] = client[d]
  PROVE  ReqInv' /\ Promised!Next
<1> DEFINE r == <<c, n>>
<1>1. /\ r \in Requests /\ answers[r] = <<>> /\ promise[c] = NoResponse /\ ~handler[c]
      /\ StageInv(c) /\ AnswerInv(c) /\ n \in Nat
  BY RequestPairs DEF ReqInv, StageInv, AnswerInv, InWork
<1>2. \/ \E a \in Responses : /\ answers' = [answers EXCEPT ![r] = <<a>>]
                              /\ promise' \in {promise, [promise EXCEPT ![c] = a]}
                              /\ handler' = handler
      \/ UNCHANGED <<answers, promise>> /\ handler' \in {handler, [handler EXCEPT ![c] = TRUE]}
  <2>1. CASE Sends(c, n) /\ handler' = handler
    <3>1. PICK a \in Responses : /\ answers' = [answers EXCEPT ![r] = Append(@, a)]
                                 /\ promise' \in {promise, [promise EXCEPT ![c] = a]}
      BY <2>1 DEF Sends
    <3>2. answers' = [answers EXCEPT ![r] = <<a>>]
      BY <1>1, <3>1
    <3> QED BY <2>1, <3>1, <3>2
  <2> QED BY <2>1 DEF Handled
<1>3. /\ OnlyClient(c)
      /\ \A q \in Requests : q # r => answers'[q] = answers[q]
      /\ \A m \in 1 .. MaxRequests : m # n => answers'[<<c, m>>] = answers[<<c, m>>]
  <2>1. \A m \in 1 .. MaxRequests : <<c, m>> \in Requests
    BY RequestPairs
  <2> QED BY <1>1, <1>2, <2>1 DEF OnlyClient, ReqInv
<1>5. StageInv(c)' /\ AnswerInv(c)'
  <2>1. StageInv(c)'
    BY <1>1, <1>3 DEF StageInv, Stages
  <2>2. /\ handler'[c] => answers'[r] = <<>>
        /\ promise'[c] # NoResponse => answers'[r] # <<>>
    BY SMTT(20), <1>1, <1>2 DEF ReqInv
  <2> QED BY <2>1, <2>2 DEF AnswerInv, InWork
<1>6. ReqInv'
  BY <1>3, <1>5, OthersKept
<1>7. r \notin AskedRequests /\ AskedRequests' = AskedRequests \cup {r}
  <2>1. \A q \in Requests : q \in AskedRequests <=> AskedOf(q[1], q[2])
    BY AskedRequest
  <2>2. \A q \in Requests : q \in AskedRequests' <=> AskedOf(q[1], q[2])'
    BY RequestPairs DEF AskedRequests, AskedOf
  <2>3. r[1] = c /\ r[2] = n /\ ~AskedOf(c, n) /\ AskedOf(c, n)'
    BY <1>1 DEF AskedOf
  <2>4. \A q \in Requests : q # r => (AskedOf(q[1], q[2])' <=> AskedOf(q[1], q[2]))
    <3>1. \A q \in Requests : /\ q = <<q[1], q[2]>> /\ q[1] \in Clients /\ q[2] \in 1 .. MaxRequests
                              /\ (q[1] = c /\ q[2] = n => q = r)
      BY RequestPairs
    <3> QED BY <1>1, <1>3, <3>1 DEF AskedOf
  <2>5. AskedRequests \subseteq Requests /\ AskedRequests' \subseteq Requests
    BY DEF AskedRequests
  <2> QED BY <1>1, <2>1, <2>2, <2>3, <2>4, <2>5
<1>8. Promised!Ask(r) \/ Promised!AskAndAnswer(r)
  BY <1>1, <1>2, <1>7 DEF Promised!Ask, Promised!AskAndAnswer
<1> QED BY <1>1, <1>6, <1>8 DEF Promised!Next

-----------------------------------------------------------------------------
(* The steps.                                                              *)

\* The steps of the peer and of the session that route nothing and make no answer.
LEMMA SilentStep ==
  ASSUME ReqInv, NEW c \in Clients, ReadRequest(c) \/ ReadFails(c) \/ WriteResponse(c) \/ PeerLeaves(c)
  PROVE  ReqInv' /\ UNCHANGED <<AskedRequests, answers>>
<1>1. StageInv(c) /\ AnswerInv(c) /\ client[c].n \in Nat
  BY DEF ReqInv, StageInv
<1>2. OnlyClient(c) /\ answers' = answers /\ handler' = handler /\ mode' = mode
  BY DEF ReqInv, OnlyClient, ClientFields, ReadRequest, ReadFails, WriteResponse, PeerLeaves, routing,
     NextRequest
<1>3. CASE ReadRequest(c)
  <2>1. /\ client[c].stage = "idle" /\ client'[c].stage = "reading" /\ client'[c].n = client[c].n + 1
        /\ client[c].n + 1 \in 1 .. MaxRequests /\ mode = "http1" /\ promise' = promise
    <3>1. PICK m \in Methods, p \in Paths : client' = [client EXCEPT ![c] = NextRequest(c, "reading", m, p)]
      BY <1>3 DEF ReadRequest
    <3>4. client'[c] = NextRequest(c, "reading", m, p)
      BY <3>1 DEF ReqInv
    <3>2. client'[c].stage = "reading" /\ client'[c].n = client[c].n + 1
      BY <3>4 DEF ReqInv, ClientFields, NextRequest
    <3>3. client[c].stage = "idle" /\ client[c].n < MaxRequests /\ mode = "http1" /\ promise' = promise
      BY <1>3 DEF ReadRequest, Session
    <3> QED BY <1>1, <3>2, <3>3, RequestAssumption DEF StageInv
  <2>2. StageInv(c)' /\ AnswerInv(c)'
    BY <1>1, <1>2, <2>1 DEF StageInv, AnswerInv, InWork, Stages
  <2>3. \A m \in 1 .. MaxRequests : AskedOf(c, m)' <=> AskedOf(c, m)
    BY <1>1, <1>2, <2>1 DEF AskedOf
  <2> QED BY <1>2, <2>2, <2>3, OthersKept, NothingAsked
<1>4. CASE ReadFails(c)
  <2>1. /\ client[c].stage \in {"idle", "reading"} /\ client'[c].stage = "ended"
        /\ client'[c].n = client[c].n /\ promise' = promise
    BY <1>4 DEF ReadFails, Session, routing, ReqInv, ClientFields
  <2>2. StageInv(c)' /\ AnswerInv(c)'
    BY <1>1, <1>2, <2>1 DEF StageInv, AnswerInv, InWork, Stages
  <2>3. \A m \in 1 .. MaxRequests : AskedOf(c, m)' <=> AskedOf(c, m)
    BY <1>1, <1>2, <2>1 DEF AskedOf, StageInv, InWork
  <2> QED BY <1>2, <2>2, <2>3, OthersKept, NothingAsked
<1>5. CASE WriteResponse(c)
  <2>1. /\ client[c].stage = "waiting" /\ client'[c].stage \in {"idle", "ended"}
        /\ client'[c].n = client[c].n /\ promise'[c] = NoResponse
        /\ answers[InWork(c)] # <<>> /\ mode = "http1"
    BY <1>1, <1>5 DEF WriteResponse, ResponseReady, Session, AnswerInv, ReqInv, ClientFields
  <2>2. StageInv(c)' /\ AnswerInv(c)'
    BY <1>1, <1>2, <2>1 DEF StageInv, AnswerInv, InWork, Stages, OnlyClient
  <2>3. \A m \in 1 .. MaxRequests : AskedOf(c, m)' <=> AskedOf(c, m)
    BY <1>1, <1>2, <2>1 DEF AskedOf, InWork
  <2> QED BY <1>2, <2>2, <2>3, OthersKept, NothingAsked
<1>6. CASE PeerLeaves(c)
  <2>1. client'[c].stage = client[c].stage /\ client'[c].n = client[c].n /\ promise' = promise
    BY <1>6 DEF PeerLeaves, ReqInv, ClientFields
  <2>2. StageInv(c)' /\ AnswerInv(c)'
    BY <1>1, <1>2, <2>1 DEF StageInv, AnswerInv, InWork, OnlyClient
  <2>3. \A m \in 1 .. MaxRequests : AskedOf(c, m)' <=> AskedOf(c, m)
    BY <1>1, <1>2, <2>1 DEF AskedOf
  <2> QED BY <1>2, <2>2, <2>3, OthersKept, NothingAsked
<1> QED BY <1>3, <1>4, <1>5, <1>6

\* The steps that hand a request to its route, or wait for its content first.
LEMMA RoutingStep ==
  ASSUME ReqInv, NEW c \in Clients, RouteRequest(c) \/ Http2Request(c) \/ Http2ContentReceived(c)
  PROVE  ReqInv' /\ (Promised!Next \/ UNCHANGED <<AskedRequests, answers>>)
<1>1. StageInv(c) /\ AnswerInv(c) /\ DOMAIN client = Clients /\ DOMAIN client[c] = ClientFields
  BY DEF ReqInv
<1>2. 1 \in 1 .. MaxRequests /\ (client[c].stage = "reading" => client[c].n \in 1 .. MaxRequests)
  BY <1>1, RequestAssumption DEF StageInv
<1>3. CASE RouteRequest(c)
  <2>1. Handled(c, client[c].n) /\ client[c].stage = "reading" /\ mode' = mode
    BY <1>3, Routing DEF RouteRequest, Session, routing
  <2>2. /\ DOMAIN client' = Clients /\ DOMAIN client'[c] = ClientFields
        /\ client'[c].stage = "waiting" /\ client'[c].n = client[c].n
        /\ \A d \in Clients : d # c => client'[d] = client[d]
    BY <1>1, <1>3 DEF RouteRequest, ClientFields
  <2> QED BY <1>2, <2>1, <2>2, Asking
<1>4. CASE Http2ContentReceived(c)
  <2>1. Handled(c, 1) /\ client[c].stage = "reading" /\ client[c].n = 1 /\ mode' = mode
    BY <1>1, <1>4, Routing DEF Http2ContentReceived, Stream, routing, StageInv
  <2>2. /\ DOMAIN client' = Clients /\ DOMAIN client'[c] = ClientFields
        /\ client'[c].stage = "waiting" /\ client'[c].n = client[c].n
        /\ \A d \in Clients : d # c => client'[d] = client[d]
    BY <1>1, <1>4 DEF Http2ContentReceived, ClientFields
  <2> QED BY <1>2, <2>1, <2>2, Asking
<1>5. CASE Http2Request(c)
  <2>1. /\ client[c].stage = "idle" /\ client[c].n = 0 /\ mode = "http2" /\ mode' = mode
    BY <1>1, <1>5 DEF Http2Request, Stream, routing, StageInv
  <2>2. PICK m \in Methods, p \in Paths :
          \/ client' = [client EXCEPT ![c] = NextRequest(c, "waiting", m, p)] /\ Route(c, 1, m, p)
          \/ /\ client' = [client EXCEPT ![c] = NextRequest(c, "reading", m, p)]
             /\ NothingSent /\ UNCHANGED <<server, handler, metric>>
          \/ client' = [client EXCEPT ![c] = NextRequest(c, "waiting", m, p)] /\ Crash
    BY <1>5 DEF Http2Request
  <2>3. /\ DOMAIN client' = Clients /\ DOMAIN client'[c] = ClientFields /\ client'[c].n = 1
        /\ \A d \in Clients : d # c => client'[d] = client[d]
    <3>1. \/ client' = [client EXCEPT ![c] = NextRequest(c, "waiting", m, p)]
          \/ client' = [client EXCEPT ![c] = NextRequest(c, "reading", m, p)]
      BY <2>2
    <3>2. ASSUME NEW stage
          PROVE  /\ DOMAIN NextRequest(c, stage, m, p) = ClientFields
                 /\ NextRequest(c, stage, m, p).n = 1
      BY <1>1, <2>1 DEF ClientFields, NextRequest
    <3> QED BY <1>1, <3>1, <3>2
  <2>4. CASE client'[c].stage = "waiting" /\ Handled(c, 1)
    BY <1>2, <2>1, <2>3, <2>4, Asking
  <2>5. CASE client'[c].stage = "reading" /\ UNCHANGED <<promise, answers, handler>>
    <3>1. OnlyClient(c)
      BY <2>1, <2>3, <2>5 DEF OnlyClient, ReqInv
    <3>2. StageInv(c)' /\ AnswerInv(c)'
      BY <1>1, <1>2, <2>1, <2>3, <2>5 DEF StageInv, AnswerInv, InWork, Stages
    <3>3. \A i \in 1 .. MaxRequests : AskedOf(c, i)' <=> AskedOf(c, i)
      BY <1>1, <2>1, <2>3, <2>5 DEF AskedOf, StageInv
    <3> QED BY <2>5, <3>1, <3>2, <3>3, OthersKept, NothingAsked
  <2>6. \/ client'[c].stage = "waiting" /\ (Route(c, 1, m, p) \/ Crash)
        \/ client'[c].stage = "reading" /\ NothingSent /\ handler' = handler
    BY <1>1, <2>2 DEF ClientFields, NextRequest
  <2>7. Route(c, 1, m, p) \/ Crash => Handled(c, 1)
    BY Routing DEF Crash, NothingSent, Handled
  <2>8. NothingSent => UNCHANGED <<promise, answers>>
    BY DEF NothingSent
  <2> QED BY <2>4, <2>5, <2>6, <2>7, <2>8
<1> QED BY <1>3, <1>4, <1>5

\* A handler ends with a response or with an error.
LEMMA HandlerAnswers ==
  ASSUME ReqInv, NEW c \in Clients, HandlerStep(c)
  PROVE  ReqInv' /\ Promised!Next
<1>1. handler[c] /\ handler' = [handler EXCEPT ![c] = FALSE] /\ UNCHANGED <<client, mode>>
  BY DEF HandlerStep, HandlerReturns, HandlerThrows, HandlerRuns, routing
<1>2. PICK names \in SUBSET HeaderNames :
        \/ SendResponse(c, client[c].n, HandlerHeaders(Response(200, LuaBody), names))
        \/ SendResponse(c, client[c].n, HandlerHeaders(Response(500, <<>>), names))
  BY DEF HandlerStep, HandlerReturns, HandlerThrows
<1>3. LuaBody \in Bodies /\ <<>> \in Bodies
  BY DEF Bodies
<1>4. Sends(c, client[c].n)
  BY <1>2, <1>3, PlainResponses, Sending
<1> QED BY <1>1, <1>4, Answering

LEMMA SetupStep ==
  ASSUME ReqInv, \/ \E p \in RoutePaths, k \in {"lua", "static"} : AddRoute(p, k)
                 \/ StartServer
                 \/ UNCHANGED vars
  PROVE  ReqInv' /\ UNCHANGED <<AskedRequests, answers>>
<1>1. UNCHANGED <<client, promise, handler, answers, mode>>
  BY DEF AddRoute, StartServer, vars, routing
<1> QED BY <1>1 DEF ReqInv, StageInv, AnswerInv, InWork, AskedRequests

LEMMA EachStep ==
  ASSUME ReqInv, [Next]_vars
  PROVE  ReqInv' /\ [Promised!Next]_<<AskedRequests, answers>>
BY SetupStep, SilentStep, RoutingStep, HandlerAnswers DEF Next, SessionStep

LEMMA AtStart ==
  ASSUME Init
  PROVE  ReqInv /\ Promised!Init
<1>1. /\ \A c \in Clients : /\ client[c].stage = "idle" /\ client[c].n = 0
                            /\ DOMAIN client[c] = ClientFields
                            /\ promise[c] = NoResponse /\ ~handler[c]
      /\ DOMAIN client = Clients /\ DOMAIN promise = Clients /\ DOMAIN handler = Clients
      /\ DOMAIN answers = Requests /\ answers = [r \in Requests |-> <<>>]
  BY DEF Init, ClientFields
<1>2. ReqInv
  BY <1>1, RequestPairs, RequestAssumption DEF ReqInv, StageInv, AnswerInv, Stages
<1>3. AskedRequests = {}
  BY <1>1, RequestPairs DEF AskedRequests
<1> QED BY <1>1, <1>2, <1>3 DEF Promised!Init

-----------------------------------------------------------------------------
\* The routes, the fibers of handlers and the session together answer every
\* request at most once, and only a request that was asked (send_response).
THEOREM RequestsAnsweredOnce == Spec => AnswersOnce
<1>1. Init => ReqInv /\ Promised!Init
  BY AtStart
<1>2. ReqInv /\ [Next]_vars => ReqInv' /\ [Promised!Next]_<<AskedRequests, answers>>
  BY EachStep
<1> QED BY <1>1, <1>2, PTL DEF Spec, AnswersOnce, Promised!Spec

-----------------------------------------------------------------------------
(* Paths and the router.                                                   *)

LEMMA Least ==
  ASSUME NEW T, T \subseteq Nat, T # {}
  PROVE  \E x \in T : \A y \in T : x <= y
<1> DEFINE R == OpToRel(<, Nat)
<1>1. IsWellFoundedOn(R, Nat)
  BY NatLessThanWellFounded
<1>2. \A x, y \in Nat : <<y, x>> \in R <=> y < x
  BY DEF OpToRel
<1> HIDE DEF R
<1>3. PICK x \in T : \A y \in T : ~ (<<y, x>> \in R)
  BY <1>1, WFMin
<1>4. ASSUME NEW y \in T PROVE x <= y
  <2>1. x \in Nat /\ y \in Nat
    OBVIOUS
  <2>2. ~ (y < x)
    BY <1>2, <1>3, <2>1
  <2> QED
    BY <2>1, <2>2
<1> QED
  BY <1>4

LEMMA PrefixLength ==
  ASSUME NEW S, NEW p \in Seq(S), NEW q \in Prefixes(p)
  PROVE  q \in Seq(S) /\ Len(q) \in 0 .. Len(p) /\ q = SubSeq(p, 1, Len(q))
<1>1. PICK l \in 0 .. Len(p) : q = SubSeq(p, 1, l)
  BY DEF Prefixes
<1> QED
  BY <1>1, SubSeqProperties

LEMMA PrefixesArePrefixes ==
  ASSUME NEW S, NEW p \in Seq(S), NEW q \in Seq(S)
  PROVE  q \in Prefixes(p) <=> IsPrefix(q, p)
<1>1. SubSeq(q, 1, Len(q)) = q /\ Len(q) \in Nat /\ Len(p) \in Nat
  BY SubSeqFull
<1>2. q \in Prefixes(p) => IsPrefix(q, p)
  BY <1>1, PrefixLength DEF IsPrefix
<1>3. ASSUME IsPrefix(q, p) PROVE q \in Prefixes(p)
  <2>1. q = SubSeq(p, 1, Len(q)) /\ Len(q) \in 0 .. Len(p)
    BY <1>1, <1>3 DEF IsPrefix
  <2> QED
    BY <2>1 DEF Prefixes
<1> QED
  BY <1>2, <1>3

\* Of some prefixes of a path one is the longest.
LEMMA LongestExists ==
  ASSUME NEW S, NEW p \in Seq(S), NEW paths, paths \subseteq Prefixes(p), paths # {}
  PROVE  Longest(paths) \in paths
<1> DEFINE T == {Len(p) - Len(q) : q \in paths}
<1>1. Len(p) \in Nat /\ \A q \in paths : Len(q) \in 0 .. Len(p)
  BY PrefixLength
<1>2. T \subseteq Nat /\ T # {}
  BY <1>1
<1>3. PICK x \in T : \A y \in T : x <= y
  BY <1>2, Least
<1>4. PICK q \in paths : x = Len(p) - Len(q)
  OBVIOUS
<1>5. ASSUME NEW r \in paths PROVE Len(r) <= Len(q)
  <2>1. x <= Len(p) - Len(r)
    BY <1>3
  <2> QED
    BY <1>1, <1>4, <2>1
<1> QED
  BY <1>4, <1>5 DEF Longest

\* Every node above a route has children.
RoutesInv ==
  /\ m_set.func = added /\ DOMAIN added \subseteq RoutePaths
  /\ \A p \in DOMAIN added : added[p] \in {"lua", "static"} /\ Above(p) \subseteq m_set.next

LEMMA FindsLongest ==
  ASSUME RoutesInv, NEW path \in Paths
  PROVE  /\ FindNode(m_set, path) = LongestPrefix(DOMAIN added, path)
         /\ \A route : route = FindNode(m_set, path) /\ route # <<>> =>
              route \in DOMAIN added /\ IsPrefix(route, path) /\ route \in Prefixes(path)
<1>1. path \in Seq(STRING) /\ \A p \in DOMAIN added : p \in Seq(STRING) /\ p # <<>>
  BY RequestAssumption DEF RoutesInv
<1>2. Visited(m_set, path) \cap DOMAIN m_set.func = {p \in DOMAIN added : IsPrefix(p, path)}
  <2>1. ASSUME NEW p \in DOMAIN added PROVE p \in Visited(m_set, path) <=> IsPrefix(p, path)
    BY <1>1, <2>1, PrefixesArePrefixes DEF Visited, RoutesInv
  <2> QED
    BY <2>1 DEF RoutesInv
<1> DEFINE fits == {p \in DOMAIN added : IsPrefix(p, path)}
<1>3. FindNode(m_set, path) = Longest(fits) /\ LongestPrefix(DOMAIN added, path) = Longest(fits)
  BY <1>2 DEF FindNode, LongestPrefix
<1>4. fits \subseteq Prefixes(path)
  BY <1>1, PrefixesArePrefixes
<1>5. fits # {} => Longest(fits) \in fits
  BY <1>1, <1>4, LongestExists
<1>6. fits = {} => Longest(fits) = <<>>
  BY DEF Longest
<1> QED
  BY <1>3, <1>4, <1>5, <1>6

\* A path is its route and the rest behind it.
LEMMA RouteAndRest ==
  ASSUME NEW S, NEW path \in Seq(S), NEW route \in Prefixes(path)
  PROVE  route \o Relative(route, path) = path
<1>1. route = SubSeq(path, 1, Len(route)) /\ Len(route) \in 0 .. Len(path) /\ Len(path) \in Nat
  BY PrefixLength
<1>2. SubSeq(path, 1, Len(route)) \o SubSeq(path, Len(route) + 1, Len(path)) = SubSeq(path, 1, Len(path))
  <2>1. 1 \in 1 .. Len(path) + 1 /\ Len(route) \in 1 - 1 .. Len(path) /\ Len(path) \in Len(route) .. Len(path)
    BY <1>1
  <2> QED
    BY <2>1, ConcatAdjacentSubSeq
<1> QED
  BY <1>1, <1>2, SubSeqFull DEF Relative

-----------------------------------------------------------------------------
(* What a step of a client does.                                           *)

\* An answer has the headers it must have.
Good(a) ==
  /\ a.headers["server"] = 1
  /\ a.headers["content-length"] = 2 => mode = "http2" /\ (a.body = LuaBody \/ a.status = 500)

\* An answer with a file fits the path that was asked for.
FileFits(a, path) ==
  LET route == LongestPrefix(DOMAIN added, path) IN
  a.body \in Files => added[route] = "static" /\ route \o a.body = path

\* Request n of client c is answered by a.
Gives(c, n, a) ==
  /\ answers' = [answers EXCEPT ![<<c, n>>] = Append(@, a)]
  /\ IF mode = "http1"
       THEN promise' = [promise EXCEPT ![c] = a] /\ UNCHANGED wire
       ELSE /\ wire' = IF client[c].peer
                         THEN [wire EXCEPT ![c] = Append(@, [n |-> n, response |-> a])] ELSE wire
            /\ UNCHANGED promise

\* A route answers request n, or gives it to a handler, or crashes.
Routes(c, n, path) ==
  \/ \E a \in Responses :
       /\ Gives(c, n, a) /\ Good(a) /\ FileFits(a, path) /\ UNCHANGED <<handler, server>>
       /\ \/ a.status = 200 /\ Count({"requests"})
          \/ a.status = 404 /\ (Count({"errors"}) \/ UNCHANGED metric)
          \/ a.status = 500 /\ Count({"requests", "errors"})
  \/ /\ NothingSent /\ UNCHANGED server
     /\ handler' = [handler EXCEPT ![c] = TRUE] /\ Count({"requests"})
  \/ NothingSent /\ UNCHANGED <<handler, metric>> /\ server' = "crashed"

LEMMA HeaderFields ==
  ASSUME NEW a \in Responses, NEW name \in HeaderNames, a.headers[name] < 2
  PROVE  /\ AddHeader(a, name) \in Responses
         /\ AddHeader(a, name).status = a.status /\ AddHeader(a, name).body = a.body
         /\ \A h \in HeaderNames : AddHeader(a, name).headers[h] =
              IF h = name THEN a.headers[h] + 1 ELSE a.headers[h]
BY DEF AddHeader, Responses, HeaderNames

LEMMA CompletedGood ==
  ASSUME NEW r \in Plain, r.headers["content-length"] = 1 => r.body = LuaBody \/ r.status = 500
  PROVE  /\ Completed(r) \in Responses /\ Good(Completed(r))
         /\ Completed(r).status = r.status /\ Completed(r).body = r.body
<1>1. r \in Responses /\ \A h \in HeaderNames : r.headers[h] \in 0 .. 1
  BY DEF Plain, Responses
<1>2. "server" \in HeaderNames /\ "content-length" \in HeaderNames
  BY DEF HeaderNames
<1> DEFINE b == IF r.headers["server"] = 0 THEN AddHeader(r, "server") ELSE r
<1>3. /\ b \in Responses /\ b.status = r.status /\ b.body = r.body
      /\ b.headers["server"] = 1 /\ b.headers["content-length"] = r.headers["content-length"]
  BY <1>1, <1>2, HeaderFields
<1>4. Completed(r) = IF mode = "http2" THEN AddHeader(b, "content-length") ELSE b
  BY DEF Completed
<1> HIDE DEF b
<1>5. CASE mode = "http2"
  <2>1. /\ AddHeader(b, "content-length") \in Responses
        /\ AddHeader(b, "content-length").status = r.status
        /\ AddHeader(b, "content-length").body = r.body
        /\ AddHeader(b, "content-length").headers["server"] = 1
        /\ AddHeader(b, "content-length").headers["content-length"] = r.headers["content-length"] + 1
    BY <1>1, <1>2, <1>3, HeaderFields
  <2> QED
    BY <1>1, <1>2, <1>4, <1>5, <2>1 DEF Good
<1>6. CASE mode # "http2"
  BY <1>1, <1>2, <1>3, <1>4, <1>6 DEF Good
<1> QED
  BY <1>5, <1>6

\* What a route or a handler gives to send_response.
LEMMA Sent ==
  ASSUME NEW c, NEW n, NEW status \in {200, 404, 500}, NEW body \in Bodies
  PROVE  /\ SendResponse(c, n, Response(status, body))
              => \E a \in Responses : Gives(c, n, a) /\ Good(a) /\ a.status = status /\ a.body = body
         /\ body = LuaBody \/ status = 500 => \A names \in SUBSET HeaderNames :
              SendResponse(c, n, HandlerHeaders(Response(status, body), names))
                => \E a \in Responses : Gives(c, n, a) /\ Good(a) /\ a.status = status /\ a.body = body
<1>1. ASSUME NEW r \in Plain, r.headers["content-length"] = 1 => r.body = LuaBody \/ r.status = 500,
             SendResponse(c, n, r)
      PROVE  \E a \in Responses : Gives(c, n, a) /\ Good(a) /\ a.status = r.status /\ a.body = r.body
  <2>1. Gives(c, n, Completed(r))
    BY <1>1 DEF SendResponse, Gives
  <2> QED
    BY <1>1, <2>1, CompletedGood
<1>2. /\ Response(status, body).status = status /\ Response(status, body).body = body
      /\ Response(status, body).headers["content-length"] = 0
      /\ Response(status, body) \in Plain
  BY PlainResponses DEF Response, HeaderNames
<1>3. ASSUME NEW names \in SUBSET HeaderNames
      PROVE  /\ HandlerHeaders(Response(status, body), names) \in Plain
             /\ HandlerHeaders(Response(status, body), names).status = status
             /\ HandlerHeaders(Response(status, body), names).body = body
  BY PlainResponses DEF Response, HandlerHeaders
<1>4. SendResponse(c, n, Response(status, body))
        => \E a \in Responses : Gives(c, n, a) /\ Good(a) /\ a.status = status /\ a.body = body
  BY <1>1, <1>2
<1>5. ASSUME body = LuaBody \/ status = 500, NEW names \in SUBSET HeaderNames,
             SendResponse(c, n, HandlerHeaders(Response(status, body), names))
      PROVE  \E a \in Responses : Gives(c, n, a) /\ Good(a) /\ a.status = status /\ a.body = body
  BY <1>1, <1>3, <1>5
<1> QED
  BY <1>4, <1>5

LEMMA RouteOutcome ==
  ASSUME RoutesInv, NEW c, NEW n, NEW method, NEW path \in Paths, Route(c, n, method, path)
  PROVE  Routes(c, n, path)
<1>1. <<>> \in Bodies /\ <<>> \notin Files /\ Files \subseteq Bodies
  BY RequestAssumption DEF Bodies
<1>2. ASSUME NEW a, a.body = <<>> PROVE FileFits(a, path)
  BY <1>1, <1>2 DEF FileFits
<1>3. CASE DefaultRoute(c, n)
  <2>1. SendResponse(c, n, Response(404, <<>>)) /\ UNCHANGED <<handler, server, metric>>
    BY <1>3 DEF DefaultRoute
  <2>2. PICK a \in Responses : Gives(c, n, a) /\ Good(a) /\ a.status = 404 /\ a.body = <<>>
    BY <1>1, <2>1, Sent
  <2> QED
    BY <1>2, <2>1, <2>2 DEF Routes
<1>4. CASE LuaRoute(c, n, method)
  <2>1. CASE Count({"requests"}) /\ handler' = [handler EXCEPT ![c] = TRUE] /\ NothingSent /\ UNCHANGED server
    BY <2>1 DEF Routes
  <2>2. CASE /\ Count({"requests", "errors"}) /\ SendResponse(c, n, Response(500, <<>>))
             /\ UNCHANGED <<handler, server>>
    <3>1. PICK a \in Responses : Gives(c, n, a) /\ Good(a) /\ a.status = 500 /\ a.body = <<>>
      BY <1>1, <2>2, Sent
    <3> QED
      BY <1>2, <2>2, <3>1 DEF Routes
  <2>3. CASE Crash
    BY <2>3 DEF Crash, Routes
  <2> QED
    BY <1>4, <2>1, <2>2, <2>3 DEF LuaRoute
<1>5. ASSUME NEW route, route = FindNode(m_set, path), route # <<>>, m_set.func[route] # "lua",
             StaticRoute(c, n, method, route, path)
      PROVE  Routes(c, n, path)
  <2>1. route \in Prefixes(path) /\ route = LongestPrefix(DOMAIN added, path) /\ route \in DOMAIN added
    BY <1>5, FindsLongest
  <2>2. path \in Seq(STRING)
    BY RequestAssumption
  <2> DEFINE file == FindStaticFile(route, path)
  <2>3. (file \in Files /\ route \o file = path) \/ file = <<>>
    BY <2>1, <2>2, RouteAndRest DEF FindStaticFile
  <2>4. /\ UNCHANGED <<handler, server>>
        /\ \/ file # <<>> /\ SendResponse(c, n, Response(200, file)) /\ Count({"requests"})
           \/ SendResponse(c, n, Response(404, <<>>)) /\ Count({"errors"})
    BY <1>5 DEF StaticRoute
  <2> HIDE DEF file
  <2>5. CASE SendResponse(c, n, Response(404, <<>>)) /\ Count({"errors"})
    <3>1. PICK a \in Responses : Gives(c, n, a) /\ Good(a) /\ a.status = 404 /\ a.body = <<>>
      BY <1>1, <2>5, Sent
    <3> QED
      BY <1>2, <2>4, <2>5, <3>1 DEF Routes
  <2>6. CASE file # <<>> /\ SendResponse(c, n, Response(200, file)) /\ Count({"requests"})
    <3>1. file \in Bodies
      BY <1>1, <2>3
    <3>2. PICK a \in Responses : Gives(c, n, a) /\ Good(a) /\ a.status = 200 /\ a.body = file
      BY <2>6, <3>1, Sent
    <3>3. FileFits(a, path)
      BY <1>5, <2>1, <2>3, <2>6, <3>2 DEF FileFits, RoutesInv
    <3> QED
      BY <2>4, <2>6, <3>2, <3>3 DEF Routes
  <2> QED
    BY <2>4, <2>5, <2>6
<1> QED
  BY <1>3, <1>4, <1>5 DEF Route

\* Nothing but the client itself changes, and it waits for nothing new.
Quiet(c) ==
  /\ UNCHANGED <<promise, handler, answers, wire, metric, server>> /\ server # "setup"
  /\ \/ /\ client'[c].stage = client[c].stage /\ client'[c].n = client[c].n
        /\ client'[c].path = client[c].path
     \/ client'[c].stage = "ended" /\ client'[c].n = client[c].n
     \/ /\ client[c].stage = "idle" /\ client'[c].stage = "reading"
        /\ client'[c].n = client[c].n + 1

\* A request is handed to a route.
Asked(c) ==
  \E n \in 1 .. MaxRequests, path \in Paths :
    /\ client'[c].n = n /\ client'[c].path = path /\ client'[c].stage = "waiting"
    /\ \/ client[c].stage = "reading" /\ client[c].n = n
       \/ client[c].stage = "idle" /\ client[c].n = 0 /\ n = 1
    /\ answers[<<c, n>>] = <<>> /\ ~handler[c] /\ server # "setup"
    /\ Routes(c, n, path)

\* A handler answers the request in work.
Ends(c) ==
  \E n \in 1 .. MaxRequests, a \in Responses :
    /\ UNCHANGED <<client, server>> /\ server # "setup" /\ client[c].n = n
    /\ client[c].stage = "waiting" /\ answers[<<c, n>>] = <<>>
    /\ handler[c] /\ handler' = [handler EXCEPT ![c] = FALSE]
    /\ Gives(c, n, a) /\ Good(a) /\ a.body \notin Files
    /\ \/ a.status = 200 /\ UNCHANGED metric
       \/ a.status = 500 /\ Count({"errors"})

ClientStep(c) ==
  HandlerStep(c) \/ SessionStep(c) \/ ReadRequest(c) \/ Http2Request(c) \/ Http2ContentReceived(c) \/ PeerLeaves(c)

LEMMA ClientFieldsKept ==
  ASSUME NEW s \in ClientState
  PROVE  /\ \A stage \in Stages : [s EXCEPT !.stage = stage] \in ClientState
         /\ [s EXCEPT !.peer = FALSE] \in ClientState
BY DEF ClientState, Stages

LEMMA NextRequestType ==
  ASSUME NEW c \in Clients, client[c] \in ClientState, client[c].n < MaxRequests,
         NEW stage \in Stages, NEW m \in Methods, NEW p \in Paths
  PROVE  /\ NextRequest(c, stage, m, p) \in ClientState
         /\ NextRequest(c, stage, m, p).stage = stage /\ NextRequest(c, stage, m, p).n = client[c].n + 1
         /\ NextRequest(c, stage, m, p).path = p
<1>1. client[c].n + 1 \in 0 .. MaxRequests
  BY RequestAssumption DEF ClientState
<1> QED
  BY <1>1 DEF NextRequest, ClientState, Stages

\* The clients' steps, by what they do.
LEMMA ClientSteps ==
  ASSUME ReqInv, TypeOK, RoutesInv, NEW c \in Clients, ClientStep(c)
  PROVE  /\ UNCHANGED routing
         /\ client' \in [Clients -> ClientState] /\ \A d \in Clients \ {c} : client'[d] = client[d]
         /\ Quiet(c) \/ WriteResponse(c) \/ Asked(c) \/ Ends(c)
<1>1. /\ client \in [Clients -> ClientState] /\ StageInv(c) /\ AnswerInv(c) /\ client[c] \in ClientState
      /\ client[c].n \in 0 .. MaxRequests /\ client[c].path \in Paths
      /\ {"idle", "reading", "waiting", "ended"} = Stages
  BY DEF TypeOK, ReqInv, ClientState, Stages
<1>2. CASE HandlerStep(c)
  <2>1. /\ UNCHANGED <<routing, server, client>> /\ server # "setup" /\ handler[c]
        /\ handler' = [handler EXCEPT ![c] = FALSE]
    BY <1>2 DEF HandlerStep, HandlerReturns, HandlerThrows, HandlerRuns
  <2>2. PICK n \in 1 .. MaxRequests : n = client[c].n
    BY <1>1, <2>1 DEF StageInv, AnswerInv
  <2>3. client[c].stage = "waiting" /\ answers[<<c, n>>] = <<>>
    BY <1>1, <2>1, <2>2 DEF AnswerInv, InWork
  <2>4. LuaBody \in Bodies /\ <<>> \in Bodies /\ LuaBody \notin Files /\ <<>> \notin Files
    BY RequestAssumption DEF Bodies
  <2>5. PICK names \in SUBSET HeaderNames :
          \/ SendResponse(c, n, HandlerHeaders(Response(200, LuaBody), names)) /\ UNCHANGED metric
          \/ SendResponse(c, n, HandlerHeaders(Response(500, <<>>), names)) /\ Count({"errors"})
    BY <1>2, <2>2 DEF HandlerStep, HandlerReturns, HandlerThrows
  <2>6. \E a \in Responses : /\ Gives(c, n, a) /\ Good(a) /\ a.body \notin Files
                             /\ \/ a.status = 200 /\ UNCHANGED metric
                                \/ a.status = 500 /\ Count({"errors"})
    <3>1. CASE SendResponse(c, n, HandlerHeaders(Response(200, LuaBody), names)) /\ UNCHANGED metric
      <4>1. \E a \in Responses : Gives(c, n, a) /\ Good(a) /\ a.status = 200 /\ a.body = LuaBody
        BY <2>4, <3>1, Sent
      <4> QED
        BY <2>4, <3>1, <4>1
    <3>2. CASE SendResponse(c, n, HandlerHeaders(Response(500, <<>>), names)) /\ Count({"errors"})
      <4>1. \E a \in Responses : Gives(c, n, a) /\ Good(a) /\ a.status = 500 /\ a.body = <<>>
        BY <2>4, <3>2, Sent
      <4> QED
        BY <2>4, <3>2, <4>1
    <3> QED
      BY <2>5, <3>1, <3>2
  <2> QED
    BY <1>1, <2>1, <2>2, <2>3, <2>6 DEF Ends
<1>3. CASE WriteResponse(c)
  <2>1. client' \in {[client EXCEPT ![c].stage = "idle"], [client EXCEPT ![c].stage = "ended"]} /\ UNCHANGED routing
    BY <1>3 DEF WriteResponse
  <2> QED
    BY <1>1, <1>3, <2>1, ClientFieldsKept
<1>4. ASSUME NEW n \in 1 .. MaxRequests, client[c].stage = "reading", client[c].n = n,
             client' = [client EXCEPT ![c].stage = "waiting"], server # "setup",
             Route(c, n, client[c].method, client[c].path)
      PROVE  /\ client' \in [Clients -> ClientState] /\ \A d \in Clients \ {c} : client'[d] = client[d]
             /\ Asked(c)
  <2>1. PICK path \in Paths : path = client[c].path
    BY <1>1
  <2>2. Routes(c, n, path)
    BY <1>4, <2>1, RouteOutcome
  <2>3. answers[<<c, n>>] = <<>> /\ ~handler[c]
    BY <1>1, <1>4 DEF StageInv, AnswerInv, InWork
  <2>4. /\ client'[c].n = n /\ client'[c].path = path /\ client'[c].stage = "waiting"
        /\ client' \in [Clients -> ClientState]
    BY <1>1, <1>4, <2>1, ClientFieldsKept DEF ClientState
  <2> QED
    BY <1>4, <2>2, <2>3, <2>4 DEF Asked
<1>5. CASE RouteRequest(c)
  <2>1. /\ client[c].stage = "reading" /\ client' = [client EXCEPT ![c].stage = "waiting"]
        /\ server # "setup" /\ Route(c, client[c].n, client[c].method, client[c].path) /\ UNCHANGED routing
    BY <1>5 DEF RouteRequest, Session
  <2>2. client[c].n \in 1 .. MaxRequests
    BY <1>1, <2>1 DEF StageInv
  <2> QED
    BY <1>4, <2>1, <2>2
<1>6. CASE Http2ContentReceived(c)
  <2>1. /\ client[c].stage = "reading" /\ client' = [client EXCEPT ![c].stage = "waiting"]
        /\ server # "setup" /\ Route(c, 1, client[c].method, client[c].path) /\ UNCHANGED routing
        /\ mode = "http2"
    BY <1>6 DEF Http2ContentReceived, Stream
  <2>2. client[c].n = 1 /\ 1 \in 1 .. MaxRequests
    BY <1>1, <2>1, RequestAssumption DEF StageInv
  <2> QED
    BY <1>4, <2>1, <2>2
<1>7. CASE ReadFails(c) \/ PeerLeaves(c)
  <2>1. /\ client' \in {[client EXCEPT ![c].stage = "ended"], [client EXCEPT ![c].peer = FALSE]}
        /\ UNCHANGED <<routing, server, promise, handler, answers, wire, metric>> /\ server # "setup"
    BY <1>7 DEF ReadFails, PeerLeaves, Session
  <2>2. /\ client'[c].n = client[c].n /\ client'[c].path = client[c].path
        /\ client'[c].stage = client[c].stage \/ client'[c].stage = "ended"
        /\ client' \in [Clients -> ClientState] /\ \A d \in Clients \ {c} : client'[d] = client[d]
    BY <1>1, <2>1, ClientFieldsKept DEF ClientState
  <2> QED
    BY <2>1, <2>2 DEF Quiet
<1>8. ASSUME client[c].n < MaxRequests, client[c].stage = "idle",
             NEW stage \in {"reading", "waiting"}, NEW m \in Methods, NEW p \in Paths,
             client' = [client EXCEPT ![c] = NextRequest(c, stage, m, p)]
      PROVE  /\ client' \in [Clients -> ClientState] /\ \A d \in Clients \ {c} : client'[d] = client[d]
             /\ client'[c].stage = stage /\ client'[c].n = client[c].n + 1 /\ client'[c].path = p
  <2>1. PICK r : r = NextRequest(c, stage, m, p)
    OBVIOUS
  <2>2. stage \in Stages
    BY <1>8 DEF Stages
  <2>3. r \in ClientState /\ r.stage = stage /\ r.n = client[c].n + 1 /\ r.path = p
    BY <1>1, <1>8, <2>1, <2>2, NextRequestType
  <2> QED
    BY <1>1, <1>8, <2>1, <2>3
<1>9. CASE ReadRequest(c)
  <2>1. PICK m \in Methods, p \in Paths : client' = [client EXCEPT ![c] = NextRequest(c, "reading", m, p)]
    BY <1>9 DEF ReadRequest
  <2>2. /\ client[c].stage = "idle" /\ client[c].n < MaxRequests /\ server # "setup"
        /\ UNCHANGED <<routing, server, promise, handler, answers, wire, metric>>
    BY <1>9 DEF ReadRequest, Session
  <2>3. /\ client' \in [Clients -> ClientState] /\ \A d \in Clients \ {c} : client'[d] = client[d]
        /\ client'[c].stage = "reading" /\ client'[c].n = client[c].n + 1
    BY <1>8, <2>1, <2>2
  <2> QED
    BY <2>2, <2>3 DEF Quiet
<1>10. CASE Http2Request(c)
  <2>1. PICK m \in Methods, p \in Paths :
          \/ client' = [client EXCEPT ![c] = NextRequest(c, "waiting", m, p)] /\ Route(c, 1, m, p)
          \/ /\ client' = [client EXCEPT ![c] = NextRequest(c, "reading", m, p)]
             /\ NothingSent /\ UNCHANGED <<server, handler, metric>>
          \/ client' = [client EXCEPT ![c] = NextRequest(c, "waiting", m, p)] /\ Crash
    BY <1>10 DEF Http2Request
  <2>2. /\ client[c].stage = "idle" /\ client[c].n = 0 /\ server # "setup" /\ UNCHANGED routing
        /\ 1 \in 1 .. MaxRequests /\ client[c].n < MaxRequests
    BY <1>1, <1>10, RequestAssumption DEF Http2Request, Stream, StageInv
  <2>3. CASE /\ client' = [client EXCEPT ![c] = NextRequest(c, "reading", m, p)]
             /\ NothingSent /\ UNCHANGED <<server, handler, metric>>
    <3>1. /\ client' \in [Clients -> ClientState] /\ \A d \in Clients \ {c} : client'[d] = client[d]
          /\ client'[c].stage = "reading" /\ client'[c].n = client[c].n + 1
      BY <1>8, <2>2, <2>3
    <3> QED
      BY <2>2, <2>3, <3>1 DEF Quiet, NothingSent
  <2>4. CASE client' = [client EXCEPT ![c] = NextRequest(c, "waiting", m, p)] /\ (Route(c, 1, m, p) \/ Crash)
    <3>1. /\ client' \in [Clients -> ClientState] /\ \A d \in Clients \ {c} : client'[d] = client[d]
          /\ client'[c].stage = "waiting" /\ client'[c].n = client[c].n + 1 /\ client'[c].path = p
      BY <1>8, <2>2, <2>4
    <3>2. client'[c].n = 1
      BY <2>2, <3>1
    <3>3. Routes(c, 1, p)
      BY <2>4, RouteOutcome DEF Crash, Routes
    <3>4. answers[<<c, 1>>] = <<>> /\ ~handler[c]
      BY <1>1, <2>2 DEF StageInv, AnswerInv
    <3> QED
      BY <2>2, <3>1, <3>2, <3>3, <3>4 DEF Asked
  <2> QED
    BY <2>1, <2>3, <2>4
<1> QED
  BY <1>2, <1>3, <1>5, <1>6, <1>7, <1>9, <1>10 DEF ClientStep, SessionStep

-----------------------------------------------------------------------------
(* The invariants.                                                         *)

AnswersInv ==
  \A r \in Requests : answers[r] = <<>> \/ \E a \in Responses : answers[r] = <<a>> /\ Good(a)

\* A request in work has its handler or its answer, which fits it.
WaitInv(c) ==
  /\ server = "setup" => client[c].stage = "idle" /\ client[c].n = 0
  /\ client[c].stage = "waiting" /\ server # "crashed" => handler[c] \/ answers[InWork(c)] # <<>>
  /\ client[c].stage = "waiting" /\ answers[InWork(c)] # <<>>
       => FileFits(answers[InWork(c)][1], client[c].path)

Written == [n : 1 .. MaxRequests, response : Responses]

\* How much a session has written, and that its promise has what will be written.
WireInv(c) ==
  /\ wire[c] \in Seq(Written)
  /\ \A i \in DOMAIN wire[c] : wire[c][i].n = i /\ answers[<<c, i>>] = <<wire[c][i].response>>
  /\ mode = "http1" =>
       /\ client[c].stage = "idle" => Len(wire[c]) = client[c].n
       /\ client[c].stage \in {"reading", "waiting"} => Len(wire[c]) = client[c].n - 1
       /\ promise[c] # NoResponse => answers[InWork(c)] = <<promise[c]>>

Inv ==
  /\ ReqInv /\ TypeOK /\ RoutesInv /\ AnswersInv
  /\ \A c \in Clients : WaitInv(c)
  /\ DOMAIN wire = Clients /\ \A c \in Clients : WireInv(c)

LEMMA GivenAnswer ==
  ASSUME ReqInv, NEW c \in Clients, NEW n \in 1 .. MaxRequests, answers[<<c, n>>] = <<>>,
         NEW a, Gives(c, n, a)
  PROVE  \A r \in Requests : answers'[r] = IF r = <<c, n>> THEN <<a>> ELSE answers[r]
<1>1. <<c, n>> \in Requests /\ DOMAIN answers = Requests
  BY RequestPairs DEF ReqInv
<1>2. answers' = [answers EXCEPT ![<<c, n>>] = <<a>>]
  BY <1>1 DEF Gives
<1> QED
  BY <1>1, <1>2

\* What is written on the wire of client c when its request n is answered.
LEMMA GivenWire ==
  ASSUME DOMAIN wire = Clients, DOMAIN promise = Clients, NEW c \in Clients, NEW n, NEW a, Gives(c, n, a)
  PROVE  /\ DOMAIN wire' = Clients /\ \A d \in Clients \ {c} : wire'[d] = wire[d] /\ promise'[d] = promise[d]
         /\ mode = "http1" => wire' = wire /\ promise'[c] = a
         /\ mode # "http1" => /\ promise' = promise
                              /\ wire'[c] \in {wire[c], Append(wire[c], [n |-> n, response |-> a])}
BY DEF Gives

\* The steps that answer the request in work of client c, or none.
LEMMA WireStep ==
  ASSUME Inv, NEW c \in Clients, Quiet(c) \/ WriteResponse(c) \/ Asked(c) \/ Ends(c),
         UNCHANGED routing, \A d \in Clients \ {c} : client'[d] = client[d]
  PROVE  DOMAIN wire' = Clients /\ \A d \in Clients : WireInv(d)'
<1>1. /\ ReqInv /\ StageInv(c) /\ AnswerInv(c) /\ WireInv(c) /\ DOMAIN wire = Clients /\ mode' = mode
      /\ DOMAIN promise = Clients /\ mode \in {"http1", "http2"}
  BY DEF Inv, ReqInv, routing, TypeOK
<1>2. ASSUME NEW d \in Clients, d # c, wire'[d] = wire[d], promise'[d] = promise[d],
             \A m \in 1 .. MaxRequests : answers'[<<d, m>>] = answers[<<d, m>>]
      PROVE  WireInv(d)'
  <2>1. WireInv(d) /\ StageInv(d) /\ AnswerInv(d) /\ client'[d] = client[d]
    BY <1>2 DEF Inv, ReqInv
  <2>2. wire[d] \in Seq(Written) /\ \A i \in DOMAIN wire[d] : wire[d][i] \in Written
    BY <2>1 DEF WireInv
  <2>3. \A i \in DOMAIN wire[d] : i \in 1 .. MaxRequests
    BY <2>1, <2>2 DEF WireInv, Written
  <2>4. promise[d] # NoResponse => client[d].n \in 1 .. MaxRequests
    BY <2>1 DEF StageInv, AnswerInv
  <2> QED
    BY <1>1, <1>2, <2>1, <2>3, <2>4 DEF WireInv, InWork
<1>others. ASSUME DOMAIN wire' = Clients, UNCHANGED answers, WireInv(c)',
              \A d \in Clients \ {c} : wire'[d] = wire[d] /\ promise'[d] = promise[d]
      PROVE  DOMAIN wire' = Clients /\ \A d \in Clients : WireInv(d)'
  <2>1. ASSUME NEW d \in Clients, d # c PROVE WireInv(d)'
    BY <1>2, <1>others, <2>1
  <2> QED
    BY <1>others, <2>1
<1>3. CASE Quiet(c)
  <2>1. /\ wire' = wire /\ promise' = promise /\ answers' = answers
        /\ client[c].n \in Nat /\ wire[c] \in Seq(Written)
    BY <1>1, <1>3 DEF Quiet, StageInv, WireInv
  <2>2. ASSUME client'[c].stage \in {client[c].stage, "ended"}, client'[c].n = client[c].n
        PROVE  WireInv(c)'
    BY <1>1, <2>1, <2>2 DEF WireInv, InWork
  <2>3. ASSUME client[c].stage = "idle", client'[c].stage = "reading", client'[c].n = client[c].n + 1
        PROVE  WireInv(c)'
    <3>1. promise[c] = NoResponse
      BY <1>1, <2>3 DEF AnswerInv
    <3>2. mode = "http1" => Len(wire[c]) = client'[c].n - 1
      BY <1>1, <2>1, <2>3 DEF WireInv
    <3> QED
      BY <1>1, <2>1, <2>3, <3>1, <3>2 DEF WireInv
  <2>4. WireInv(c)'
    BY <1>3, <2>2, <2>3 DEF Quiet
  <2>5. DOMAIN wire' = Clients /\ \A d \in Clients \ {c} : wire'[d] = wire[d] /\ promise'[d] = promise[d]
    BY <1>1, <2>1
  <2> QED
    BY <1>others, <2>1, <2>4, <2>5
<1>4. CASE WriteResponse(c)
  <2>1. /\ mode = "http1" /\ client[c].stage = "waiting" /\ promise[c] # NoResponse
        /\ promise' = [promise EXCEPT ![c] = NoResponse] /\ UNCHANGED answers
        /\ client[c].n \in 1 .. MaxRequests
    BY <1>1, <1>4 DEF WriteResponse, ResponseReady, Session, StageInv
  <2>2. PICK n \in 1 .. MaxRequests : n = client[c].n
    BY <2>1
  <2>3. PICK a \in Responses : a = promise[c]
    BY <2>1 DEF Inv, TypeOK
  <2>4. answers[<<c, n>>] = <<a>> /\ Len(wire[c]) = n - 1 /\ wire[c] \in Seq(Written)
    BY <1>1, <2>1, <2>2, <2>3 DEF WireInv, InWork
  <2>5. CASE client' = [client EXCEPT ![c].stage = "ended"] /\ UNCHANGED wire
    <3>1. client'[c].stage = "ended"
      BY <1>1, <2>5 DEF ReqInv, ClientFields
    <3>2. promise'[c] = NoResponse /\ \A d \in Clients \ {c} : promise'[d] = promise[d]
      BY <1>1, <2>1
    <3>3. WireInv(c)'
      BY <1>1, <2>1, <2>5, <3>1, <3>2 DEF WireInv
    <3>4. DOMAIN wire' = Clients /\ \A d \in Clients \ {c} : wire'[d] = wire[d]
      BY <1>1, <2>5
    <3> QED
      BY <1>others, <2>1, <3>2, <3>3, <3>4
  <2>6. CASE /\ client' = [client EXCEPT ![c].stage = "idle"]
             /\ wire' = [wire EXCEPT ![c] = Append(@, [n |-> n, response |-> a])]
    <3>1. client'[c].stage = "idle" /\ client'[c].n = n
      BY <1>1, <2>2, <2>6 DEF ReqInv, ClientFields
    <3> DEFINE w == [n |-> n, response |-> a]
    <3>2. wire'[c] = Append(wire[c], w) /\ w \in Written /\ w.n = n /\ w.response = a
      BY <1>1, <2>6 DEF Written
    <3> HIDE DEF w
    <3>3. /\ wire'[c] \in Seq(Written) /\ Len(wire'[c]) = n /\ DOMAIN wire'[c] = 1 .. n
          /\ \A i \in 1 .. n : wire'[c][i] = IF i = n THEN w ELSE wire[c][i]
          /\ DOMAIN wire[c] = 1 .. n - 1
      BY <2>4, <3>2
    <3>4. promise'[c] = NoResponse /\ \A d \in Clients \ {c} : promise'[d] = promise[d]
      BY <1>1, <2>1
    <3>5. ASSUME NEW i \in 1 .. n PROVE wire'[c][i].n = i /\ answers[<<c, i>>] = <<wire'[c][i].response>>
      <4>1. CASE i = n
        BY <2>4, <3>2, <3>3, <4>1
      <4>2. CASE i # n
        <5>1. i \in DOMAIN wire[c] /\ wire'[c][i] = wire[c][i]
          BY <3>3, <4>2
        <5> QED
          BY <1>1, <5>1 DEF WireInv
      <4> QED
        BY <4>1, <4>2
    <3>6. WireInv(c)'
      BY <2>1, <3>1, <3>3, <3>4, <3>5 DEF WireInv
    <3>7. \A d \in Clients \ {c} : wire'[d] = wire[d]
      BY <1>1, <2>6
    <3>8. DOMAIN wire' = Clients
      BY <1>1, <2>6
    <3> QED
      BY <1>others, <2>1, <3>4, <3>6, <3>7, <3>8
  <2> QED
    BY <1>4, <2>1, <2>2, <2>3, <2>5, <2>6 DEF WriteResponse
<1>5. ASSUME NEW n \in 1 .. MaxRequests, NEW a \in Responses, Gives(c, n, a), answers[<<c, n>>] = <<>>,
             client[c].stage \in {"idle", "reading", "waiting"},
             client[c].stage # "idle" => client[c].n = n,
             client[c].stage = "idle" => n = 1 /\ client[c].n = 0,
             client'[c].n = n, client'[c].stage = "waiting"
      PROVE  DOMAIN wire' = Clients /\ \A d \in Clients : WireInv(d)'
  <2>1. \A r \in Requests : answers'[r] = IF r = <<c, n>> THEN <<a>> ELSE answers[r]
    BY <1>1, <1>5, GivenAnswer
  <2>2. \A d \in Clients, m \in 1 .. MaxRequests :
          answers'[<<d, m>>] = IF d = c /\ m = n THEN <<a>> ELSE answers[<<d, m>>]
    BY <2>1, RequestPairs
  <2>3. /\ wire[c] \in Seq(Written) /\ DOMAIN wire[c] = 1 .. Len(wire[c]) /\ Len(wire[c]) \in Nat
        /\ \A i \in DOMAIN wire[c] : i \in 1 .. MaxRequests /\ i # n
    <3>1. wire[c] \in Seq(Written) /\ \A i \in DOMAIN wire[c] : wire[c][i] \in Written
      BY <1>1 DEF WireInv
    <3>2. \A i \in DOMAIN wire[c] : i \in 1 .. MaxRequests
      BY <1>1, <3>1 DEF WireInv, Written
    <3>3. ASSUME NEW i \in DOMAIN wire[c] PROVE answers[<<c, i>>] # <<>>
      <4>1. PICK b : answers[<<c, i>>] = <<b>>
        BY <1>1 DEF WireInv
      <4> QED
        BY <4>1
    <3> QED
      BY <1>5, <3>1, <3>2, <3>3
  <2>4. /\ DOMAIN wire' = Clients /\ \A d \in Clients \ {c} : wire'[d] = wire[d] /\ promise'[d] = promise[d]
        /\ mode = "http1" => wire' = wire /\ promise'[c] = a
        /\ mode # "http1" => /\ promise' = promise
                             /\ wire'[c] \in {wire[c], Append(wire[c], [n |-> n, response |-> a])}
    BY <1>1, <1>5, GivenWire
  <2>5. CASE wire'[c] = wire[c]
    <3>1. mode = "http1" => wire'[c] = wire[c] /\ promise'[c] = a
      BY <2>4
    <3>2. mode' = "http1" => Len(wire'[c]) = client'[c].n - 1
      BY <1>1, <1>5, <2>5 DEF WireInv
    <3>3. mode' = "http1" => answers'[<<c, n>>] = <<promise'[c]>>
      BY <1>1, <2>2, <3>1
    <3>4. WireInv(c)'
      BY <1>1, <1>5, <2>2, <2>3, <2>5, <3>2, <3>3 DEF WireInv, InWork
    <3> QED
      BY <1>2, <2>2, <2>4, <3>4
  <2>6. CASE mode # "http1" /\ wire'[c] = Append(wire[c], [n |-> n, response |-> a])
    <3>1. n = 1
      BY <1>1, <1>5, <2>6 DEF StageInv
    <3>2. wire[c] = <<>>
      <4>1. Len(wire[c]) = 0
        <5>1. ASSUME Len(wire[c]) # 0 PROVE FALSE
          <6>1. Len(wire[c]) \in Nat /\ Len(wire[c]) # 0 /\ DOMAIN wire[c] = 1 .. Len(wire[c])
            BY <2>3, <5>1
          <6>2. 1 \in DOMAIN wire[c]
            BY <6>1
          <6> QED
            BY <2>3, <3>1, <6>2
        <5> QED
          BY <5>1
      <4> QED
        BY <2>3, <4>1
    <3> DEFINE w == [n |-> n, response |-> a]
    <3>3. wire'[c] = Append(wire[c], w) /\ w \in Written /\ w.n = n /\ w.response = a
      BY <1>5, <2>6 DEF Written
    <3> HIDE DEF w
    <3>4. wire'[c] = <<w>>
      BY <3>2, <3>3
    <3>5. wire'[c] \in Seq(Written) /\ DOMAIN wire'[c] = {1} /\ wire'[c][1] = w
      BY <3>3, <3>4
    <3>6. WireInv(c)'
      BY <1>1, <1>5, <2>2, <2>6, <3>1, <3>3, <3>5 DEF WireInv
    <3> QED
      BY <1>2, <2>2, <2>4, <3>6
  <2> QED
    BY <2>4, <2>5, <2>6
<1>6. CASE Asked(c)
  <2>1. PICK n \in 1 .. MaxRequests, path \in Paths :
          /\ client'[c].n = n /\ client'[c].stage = "waiting"
          /\ \/ client[c].stage = "reading" /\ client[c].n = n
             \/ client[c].stage = "idle" /\ client[c].n = 0 /\ n = 1
          /\ answers[<<c, n>>] = <<>>
          /\ Routes(c, n, path)
    BY <1>6 DEF Asked
  <2>2. CASE \E a \in Responses : Gives(c, n, a)
    BY <1>5, <2>1, <2>2
  <2>3. CASE NothingSent
    <3>1. wire' = wire /\ promise' = promise /\ answers' = answers
      BY <2>3 DEF NothingSent
    <3>2. promise[c] = NoResponse
      BY <1>1, <2>1 DEF AnswerInv
    <3>3. WireInv(c)'
      BY <1>1, <2>1, <3>1, <3>2 DEF WireInv
    <3> QED
      BY <1>1, <1>others, <3>1, <3>3
  <2> QED
    BY <2>1, <2>2, <2>3 DEF Routes
<1>7. CASE Ends(c)
  <2>1. PICK n \in 1 .. MaxRequests, a \in Responses :
          /\ client' = client /\ client[c].n = n /\ client[c].stage = "waiting"
          /\ answers[<<c, n>>] = <<>> /\ Gives(c, n, a)
    BY <1>7 DEF Ends
  <2> QED
    BY <1>5, <2>1
<1> QED
  BY <1>3, <1>4, <1>6, <1>7

\* The types, and that every answer is one answer with the headers it must have.
LEMMA TypesStep ==
  ASSUME Inv, NEW c \in Clients, Quiet(c) \/ WriteResponse(c) \/ Asked(c) \/ Ends(c),
         UNCHANGED routing, client' \in [Clients -> ClientState], \A d \in Clients : WireInv(d)'
  PROVE  TypeOK' /\ AnswersInv'
<1>1. /\ ReqInv /\ mode' = mode /\ UNCHANGED <<m_set, added>> /\ AnswersInv
      /\ promise \in [Clients -> Responses \cup {NoResponse}] /\ handler \in [Clients -> BOOLEAN]
      /\ answers \in [Requests -> Seq(Responses)] /\ metric \in [{"requests", "errors"} -> Nat]
      /\ server \in {"setup", "serving", "crashed"}
      /\ client' \in [Clients -> ClientState]
      /\ mode \in {"http1", "http2"} /\ DOMAIN m_set.func = DOMAIN added /\ DOMAIN added \subseteq RoutePaths
      /\ DOMAIN wire = Clients /\ DOMAIN promise = Clients
  BY DEF Inv, routing, TypeOK
<1>2. \A d \in Clients : wire'[d] \in Seq([n : 1 .. MaxRequests, response : Responses])
  BY DEF WireInv, Written
<1>3. ASSUME promise' \in [Clients -> Responses \cup {NoResponse}], handler' \in [Clients -> BOOLEAN],
             answers' \in [Requests -> Seq(Responses)], metric' \in [{"requests", "errors"} -> Nat],
             server' \in {"setup", "serving", "crashed"}
      PROVE  TypeOK'
  BY <1>1, <1>2, <1>3 DEF TypeOK
<1>4. ASSUME UNCHANGED answers PROVE AnswersInv'
  BY <1>1, <1>4 DEF AnswersInv, Good
<1>5. ASSUME NEW n \in 1 .. MaxRequests, NEW a \in Responses, Gives(c, n, a), Good(a), answers[<<c, n>>] = <<>>
      PROVE  /\ promise' \in [Clients -> Responses \cup {NoResponse}]
             /\ answers' \in [Requests -> Seq(Responses)] /\ AnswersInv'
  <2>1. \A r \in Requests : answers'[r] = IF r = <<c, n>> THEN <<a>> ELSE answers[r]
    BY <1>1, <1>5, GivenAnswer
  <2>2. answers' = [answers EXCEPT ![<<c, n>>] = Append(@, a)]
    BY <1>5 DEF Gives
  <2>3. <<a>> \in Seq(Responses) /\ DOMAIN answers' = Requests
    BY <1>1, <2>2
  <2>4. answers' = [r \in Requests |-> answers'[r]]
    BY <1>1, <2>2
  <2>5. \A r \in Requests : answers'[r] \in Seq(Responses)
    BY <1>1, <2>1, <2>3
  <2>6. AnswersInv'
    <3>1. Good(a)'
      BY <1>1, <1>5 DEF Good
    <3>2. ASSUME NEW b, Good(b) PROVE Good(b)'
      BY <1>1, <3>2 DEF Good
    <3>3. ASSUME NEW r \in Requests
          PROVE  answers'[r] = <<>> \/ \E b \in Responses : answers'[r] = <<b>> /\ Good(b)'
      <4>1. CASE r = <<c, n>>
        BY <1>5, <2>1, <3>1, <4>1
      <4>2. CASE r # <<c, n>>
        BY <1>1, <2>1, <3>2, <4>2 DEF AnswersInv
      <4> QED
        BY <4>1, <4>2
    <3> QED
      BY <3>3 DEF AnswersInv
  <2>7. promise' \in [Clients -> Responses \cup {NoResponse}]
    BY <1>1, <1>5 DEF Gives
  <2> QED
    BY <2>4, <2>5, <2>6, <2>7
<1>6. ASSUME NEW names, Count(names) PROVE metric' \in [{"requests", "errors"} -> Nat]
  BY <1>1, <1>6 DEF Count
<1>7. CASE Quiet(c)
  <2>1. UNCHANGED <<promise, handler, answers, metric, server>>
    BY <1>7 DEF Quiet
  <2> QED
    BY <1>1, <1>3, <1>4, <2>1
<1>8. CASE WriteResponse(c)
  <2>1. UNCHANGED <<server, handler, answers, metric>> /\ promise' = [promise EXCEPT ![c] = NoResponse]
    BY <1>8 DEF WriteResponse
  <2>2. promise' \in [Clients -> Responses \cup {NoResponse}]
    BY <1>1, <2>1
  <2> QED
    BY <1>1, <1>3, <1>4, <2>1, <2>2
<1>9. CASE Asked(c)
  <2>1. PICK n \in 1 .. MaxRequests, path \in Paths : answers[<<c, n>>] = <<>> /\ Routes(c, n, path)
    BY <1>9 DEF Asked
  <2>2. metric' \in [{"requests", "errors"} -> Nat] /\ server' \in {"setup", "serving", "crashed"}
    BY <1>1, <1>6, <2>1 DEF Routes
  <2>3. handler' \in [Clients -> BOOLEAN]
    BY <1>1, <2>1 DEF Routes
  <2>4. CASE \E a \in Responses : Gives(c, n, a) /\ Good(a)
    BY <1>3, <1>5, <2>1, <2>2, <2>3, <2>4
  <2>5. CASE NothingSent
    BY <1>1, <1>3, <1>4, <2>2, <2>3, <2>5 DEF NothingSent
  <2> QED
    BY <2>1, <2>4, <2>5 DEF Routes
<1>10. CASE Ends(c)
  <2>1. PICK n \in 1 .. MaxRequests, a \in Responses :
          /\ UNCHANGED server /\ answers[<<c, n>>] = <<>> /\ handler' = [handler EXCEPT ![c] = FALSE]
          /\ Gives(c, n, a) /\ Good(a) /\ (UNCHANGED metric \/ Count({"errors"}))
    BY <1>10 DEF Ends
  <2>2. metric' \in [{"requests", "errors"} -> Nat] /\ handler' \in [Clients -> BOOLEAN]
    BY <1>1, <1>6, <2>1
  <2> QED
    BY <1>1, <1>3, <1>5, <2>1, <2>2
<1> QED
  BY <1>7, <1>8, <1>9, <1>10

LEMMA WaitStep ==
  ASSUME Inv, NEW c \in Clients, Quiet(c) \/ WriteResponse(c) \/ Asked(c) \/ Ends(c),
         UNCHANGED routing, \A d \in Clients \ {c} : client'[d] = client[d]
  PROVE  \A d \in Clients : WaitInv(d)'
<1>1. /\ ReqInv /\ StageInv(c) /\ AnswerInv(c) /\ WaitInv(c) /\ UNCHANGED <<mode, added>>
      /\ DOMAIN handler = Clients
  BY DEF Inv, ReqInv, routing
<1>fits. ASSUME NEW a, NEW path, FileFits(a, path) PROVE FileFits(a, path)'
  BY <1>1, <1>fits DEF FileFits
<1>2. ASSUME server # "setup", server' # "setup", server' = "crashed" \/ server' = server, WaitInv(c)',
             \A d \in Clients \ {c} : handler'[d] = handler[d],
             \A d \in Clients \ {c}, m \in 1 .. MaxRequests : answers'[<<d, m>>] = answers[<<d, m>>]
      PROVE  \A d \in Clients : WaitInv(d)'
  <2>1. ASSUME NEW d \in Clients, d # c PROVE WaitInv(d)'
    <3>1. /\ WaitInv(d) /\ StageInv(d) /\ client'[d] = client[d] /\ handler'[d] = handler[d]
          /\ \A m \in 1 .. MaxRequests : answers'[<<d, m>>] = answers[<<d, m>>]
      BY <1>2, <2>1 DEF Inv, ReqInv
    <3>2. client[d].stage = "waiting" => client[d].n \in 1 .. MaxRequests
      BY <3>1 DEF StageInv
    <3>3. client[d].stage = "waiting" =>
            InWork(d)' = InWork(d) /\ answers'[InWork(d)] = answers[InWork(d)]
      BY <3>1, <3>2 DEF InWork
    <3>4. CASE client[d].stage = "waiting"
      <4>1. PICK b, path : b = answers[InWork(d)][1] /\ path = client[d].path
        OBVIOUS
      <4>2. answers[InWork(d)] # <<>> => FileFits(b, path)'
        BY <1>fits, <3>1, <3>4, <4>1 DEF WaitInv
      <4>3. b = (answers[InWork(d)][1])' /\ path = client'[d].path
        BY <3>1, <3>3, <3>4, <4>1
      <4> QED
        BY <1>2, <3>1, <3>3, <3>4, <4>2, <4>3 DEF WaitInv
    <3>5. CASE client[d].stage # "waiting"
      BY <1>2, <3>1, <3>5 DEF WaitInv
    <3> QED
      BY <3>4, <3>5
  <2> QED
    BY <1>2, <2>1
<1>3. CASE Quiet(c)
  <2>1. /\ UNCHANGED <<handler, answers, server>> /\ server # "setup"
        /\ client'[c].stage = "waiting" =>
             client[c].stage = "waiting" /\ client'[c].n = client[c].n /\ client'[c].path = client[c].path
    BY <1>3 DEF Quiet
  <2>2. WaitInv(c)'
    BY <1>1, <1>fits, <2>1 DEF WaitInv, InWork
  <2> QED
    BY <1>2, <2>1, <2>2
<1>4. CASE WriteResponse(c)
  <2>1. UNCHANGED <<handler, answers, server>> /\ server # "setup" /\ client'[c].stage # "waiting"
    BY <1>1, <1>4 DEF WriteResponse, ResponseReady, Session, ReqInv, ClientFields
  <2>2. WaitInv(c)'
    BY <2>1 DEF WaitInv
  <2> QED
    BY <1>2, <2>1, <2>2
<1>5. ASSUME NEW n \in 1 .. MaxRequests, NEW a, Gives(c, n, a), answers[<<c, n>>] = <<>>,
             client'[c].n = n, FileFits(a, client'[c].path), server # "setup", server' = server,
             \A d \in Clients \ {c} : handler'[d] = handler[d]
      PROVE  \A d \in Clients : WaitInv(d)'
  <2>1. \A r \in Requests : answers'[r] = IF r = <<c, n>> THEN <<a>> ELSE answers[r]
    BY <1>1, <1>5, GivenAnswer
  <2>2. answers'[<<c, n>>] = <<a>>
    BY <2>1, RequestPairs
  <2>3. \A d \in Clients \ {c}, m \in 1 .. MaxRequests : answers'[<<d, m>>] = answers[<<d, m>>]
    BY <2>1, RequestPairs
  <2>4. PICK path : path = client'[c].path
    OBVIOUS
  <2>5. FileFits(a, path)'
    BY <1>5, <1>fits, <2>4
  <2>6. WaitInv(c)'
    BY <1>5, <2>2, <2>4, <2>5 DEF WaitInv, InWork
  <2> QED
    BY <1>2, <1>5, <2>3, <2>6
<1>6. CASE Asked(c)
  <2>1. PICK n \in 1 .. MaxRequests, path \in Paths :
          /\ client'[c].n = n /\ client'[c].path = path /\ client'[c].stage = "waiting"
          /\ answers[<<c, n>>] = <<>> /\ server # "setup" /\ Routes(c, n, path)
    BY <1>6 DEF Asked
  <2>2. CASE \E a \in Responses : Gives(c, n, a) /\ FileFits(a, path) /\ UNCHANGED <<handler, server>>
    BY <1>5, <2>1, <2>2
  <2>3. CASE NothingSent /\ UNCHANGED server /\ handler' = [handler EXCEPT ![c] = TRUE]
    <3>1. UNCHANGED <<answers, server>> /\ handler'[c] /\ \A d \in Clients \ {c} : handler'[d] = handler[d]
      BY <1>1, <2>3 DEF NothingSent
    <3>2. WaitInv(c)'
      BY <2>1, <3>1 DEF WaitInv, InWork
    <3> QED
      BY <1>2, <2>1, <3>1, <3>2
  <2>4. CASE NothingSent /\ UNCHANGED handler /\ server' = "crashed"
    <3>1. UNCHANGED <<answers, handler>>
      BY <2>4 DEF NothingSent
    <3>2. WaitInv(c)'
      BY <2>1, <2>4, <3>1 DEF WaitInv, InWork
    <3> QED
      BY <1>2, <2>1, <2>4, <3>1, <3>2
  <2> QED
    BY <2>1, <2>2, <2>3, <2>4 DEF Routes
<1>7. CASE Ends(c)
  <2>1. PICK n \in 1 .. MaxRequests, a \in Responses :
          /\ UNCHANGED <<client, server>> /\ server # "setup" /\ client[c].n = n
          /\ answers[<<c, n>>] = <<>> /\ handler' = [handler EXCEPT ![c] = FALSE]
          /\ Gives(c, n, a) /\ a.body \notin Files
    BY <1>7 DEF Ends
  <2>2. FileFits(a, client'[c].path)
    BY <2>1 DEF FileFits
  <2>3. \A d \in Clients \ {c} : handler'[d] = handler[d]
    BY <1>1, <2>1
  <2>4. client'[c].n = n
    BY <2>1
  <2> QED
    BY <1>5, <2>1, <2>2, <2>3, <2>4
<1> QED
  BY <1>3, <1>4, <1>6, <1>7

-----------------------------------------------------------------------------
(* The metrics.                                                            *)

MadeWith(status) == {r \in Requests : answers[r] # <<>> /\ Last(answers[r]).status = status}
AtWork == {c \in Clients : handler[c]}

LEMMA FiniteRequests ==
  /\ IsFiniteSet(AtWork) /\ Cardinality(AtWork) \in Nat
  /\ \A status : IsFiniteSet(MadeWith(status)) /\ Cardinality(MadeWith(status)) \in Nat
<1>1. IsFiniteSet(Clients) /\ MaxRequests \in Nat
  BY RequestAssumption
<1>2. IsFiniteSet(1 .. MaxRequests)
  BY <1>1, FS_Interval
<1>3. IsFiniteSet(Requests)
  BY <1>1, <1>2, FS_Product DEF Requests
<1>4. AtWork \subseteq Clients
  BY DEF AtWork
<1>5. \A status : MadeWith(status) \subseteq Requests
  BY DEF MadeWith
<1> QED
  BY <1>1, <1>3, <1>4, <1>5, FS_Subset, FS_CardinalityType

\* One answer more is made, with its status.
LEMMA OneMoreAnswer ==
  ASSUME ReqInv, NEW c \in Clients, NEW n \in 1 .. MaxRequests, answers[<<c, n>>] = <<>>,
         NEW a, Gives(c, n, a)
  PROVE  \A status : Cardinality(MadeWith(status)') =
           IF status = a.status THEN Cardinality(MadeWith(status)) + 1 ELSE Cardinality(MadeWith(status))
<1>1. \A r \in Requests : answers'[r] = IF r = <<c, n>> THEN <<a>> ELSE answers[r]
  BY GivenAnswer
<1>2. Last(<<a>>) = a /\ <<a>> # <<>> /\ <<c, n>> \in Requests
  BY RequestPairs DEF Last
<1>3. ASSUME NEW status, status # a.status PROVE MadeWith(status)' = MadeWith(status)
  BY <1>1, <1>2, <1>3 DEF MadeWith
<1>4. MadeWith(a.status)' = MadeWith(a.status) \cup {<<c, n>>} /\ <<c, n>> \notin MadeWith(a.status)
  BY <1>1, <1>2 DEF MadeWith
<1> QED
  BY <1>3, <1>4, FiniteRequests, FS_AddElement

LEMMA HandlerMetrics ==
  ASSUME DOMAIN handler = Clients, NEW c \in Clients
  PROVE  /\ ~handler[c] /\ handler' = [handler EXCEPT ![c] = TRUE]
              => Cardinality(AtWork') = Cardinality(AtWork) + 1
         /\ handler[c] /\ handler' = [handler EXCEPT ![c] = FALSE]
              => Cardinality(AtWork') = Cardinality(AtWork) - 1
<1>1. ASSUME ~handler[c], handler' = [handler EXCEPT ![c] = TRUE]
      PROVE  Cardinality(AtWork') = Cardinality(AtWork) + 1
  <2>1. AtWork' = AtWork \cup {c} /\ c \notin AtWork
    BY <1>1 DEF AtWork
  <2> QED
    BY <2>1, FiniteRequests, FS_AddElement
<1>2. ASSUME handler[c], handler' = [handler EXCEPT ![c] = FALSE]
      PROVE  Cardinality(AtWork') = Cardinality(AtWork) - 1
  <2>1. AtWork' = AtWork \ {c} /\ c \in AtWork
    BY <1>2 DEF AtWork
  <2> QED
    BY <2>1, FiniteRequests, FS_RemoveElement
<1> QED
  BY <1>1, <1>2

MetricsInv ==
  /\ metric["requests"] = Cardinality(MadeWith(200)) + Cardinality(MadeWith(500)) + Cardinality(AtWork)
  /\ Cardinality(MadeWith(500)) <= metric["errors"]
  /\ metric["errors"] <= Cardinality(MadeWith(500)) + Cardinality(MadeWith(404))

\* MetricsInv with the numbers an unchanged part has.
LEMMA MetricsKept ==
  ASSUME MetricsInv, UNCHANGED <<answers, handler, metric>>
  PROVE  MetricsInv'
BY DEF MetricsInv, MadeWith, AtWork

LEMMA MetricsStep ==
  ASSUME ReqInv, TypeOK, MetricsInv, NEW c \in Clients, Quiet(c) \/ WriteResponse(c) \/ Asked(c) \/ Ends(c)
  PROVE  MetricsInv'
<1>1. DOMAIN handler = Clients /\ metric \in [{"requests", "errors"} -> Nat]
  BY DEF ReqInv, TypeOK
<1> DEFINE good == Cardinality(MadeWith(200))
           missed == Cardinality(MadeWith(404))
           failed == Cardinality(MadeWith(500))
           work == Cardinality(AtWork)
<1>2. /\ good \in Nat /\ missed \in Nat /\ failed \in Nat /\ work \in Nat
      /\ metric["requests"] \in Nat /\ metric["errors"] \in Nat
  BY <1>1, FiniteRequests
<1>3. /\ metric["requests"] = good + failed + work
      /\ failed <= metric["errors"] /\ metric["errors"] <= failed + missed
  BY DEF MetricsInv
<1>4. ASSUME metric'["requests"] = good' + failed' + work',
             failed' <= metric'["errors"], metric'["errors"] <= failed' + missed'
      PROVE  MetricsInv'
  BY <1>4 DEF MetricsInv
<1>5. ASSUME NEW names, Count(names)
      PROVE  \A m \in {"requests", "errors"} :
               metric'[m] = IF m \in names THEN metric[m] + 1 ELSE metric[m]
  BY <1>1, <1>5 DEF Count
<1>6. ASSUME NEW n \in 1 .. MaxRequests, answers[<<c, n>>] = <<>>, NEW a, Gives(c, n, a)
      PROVE  /\ good' = IF a.status = 200 THEN good + 1 ELSE good
             /\ missed' = IF a.status = 404 THEN missed + 1 ELSE missed
             /\ failed' = IF a.status = 500 THEN failed + 1 ELSE failed
  BY <1>6, OneMoreAnswer
<1>7. UNCHANGED handler => work' = work
  BY DEF AtWork
<1>8. UNCHANGED answers => UNCHANGED <<good, missed, failed>>
  BY DEF MadeWith
<1>9. UNCHANGED metric => metric'["requests"] = metric["requests"] /\ metric'["errors"] = metric["errors"]
  OBVIOUS
<1>work. /\ ~handler[c] /\ handler' = [handler EXCEPT ![c] = TRUE] => work' = work + 1
         /\ handler[c] /\ handler' = [handler EXCEPT ![c] = FALSE] => work' = work - 1
  BY <1>1, HandlerMetrics
<1> HIDE DEF good, missed, failed, work
<1>10. CASE Quiet(c) \/ WriteResponse(c)
  BY <1>10, MetricsKept DEF Quiet, WriteResponse
<1>11. CASE Asked(c)
  <2>1. PICK n \in 1 .. MaxRequests, path \in Paths :
          answers[<<c, n>>] = <<>> /\ ~handler[c] /\ Routes(c, n, path)
    BY <1>11 DEF Asked
  <2>2. CASE \E a \in Responses :
               /\ Gives(c, n, a) /\ UNCHANGED handler
               /\ \/ a.status = 200 /\ Count({"requests"})
                  \/ a.status = 404 /\ (Count({"errors"}) \/ UNCHANGED metric)
                  \/ a.status = 500 /\ Count({"requests", "errors"})
    <3>1. PICK a \in Responses :
               /\ Gives(c, n, a) /\ UNCHANGED handler
               /\ \/ a.status = 200 /\ Count({"requests"})
                  \/ a.status = 404 /\ (Count({"errors"}) \/ UNCHANGED metric)
                  \/ a.status = 500 /\ Count({"requests", "errors"})
      BY <2>2
    <3>2. /\ good' = IF a.status = 200 THEN good + 1 ELSE good
          /\ missed' = IF a.status = 404 THEN missed + 1 ELSE missed
          /\ failed' = IF a.status = 500 THEN failed + 1 ELSE failed
          /\ work' = work
      BY <1>6, <1>7, <2>1, <3>1
    <3>3. \/ /\ a.status = 200 /\ metric'["requests"] = metric["requests"] + 1
             /\ metric'["errors"] = metric["errors"]
          \/ /\ a.status = 404 /\ metric'["requests"] = metric["requests"]
             /\ metric'["errors"] \in {metric["errors"], metric["errors"] + 1}
          \/ /\ a.status = 500 /\ metric'["requests"] = metric["requests"] + 1
             /\ metric'["errors"] = metric["errors"] + 1
      BY <1>5, <1>9, <3>1
    <3> QED
      BY <1>2, <1>3, <1>4, <3>2, <3>3
  <2>3. CASE NothingSent /\ handler' = [handler EXCEPT ![c] = TRUE] /\ Count({"requests"})
    <3>1. UNCHANGED <<good, missed, failed>> /\ work' = work + 1
      BY <1>8, <1>work, <2>1, <2>3 DEF NothingSent
    <3>2. metric'["requests"] = metric["requests"] + 1 /\ metric'["errors"] = metric["errors"]
      BY <1>5, <2>3
    <3> QED
      BY <1>2, <1>3, <1>4, <3>1, <3>2
  <2>4. CASE NothingSent /\ UNCHANGED <<handler, metric>>
    BY <2>4, MetricsKept DEF NothingSent
  <2> QED
    BY <2>1, <2>2, <2>3, <2>4 DEF Routes
<1>12. CASE Ends(c)
  <2>1. PICK n \in 1 .. MaxRequests, a \in Responses :
          /\ answers[<<c, n>>] = <<>> /\ handler[c] /\ handler' = [handler EXCEPT ![c] = FALSE]
          /\ Gives(c, n, a)
          /\ \/ a.status = 200 /\ UNCHANGED metric
             \/ a.status = 500 /\ Count({"errors"})
    BY <1>12 DEF Ends
  <2>2. /\ good' = IF a.status = 200 THEN good + 1 ELSE good
        /\ missed' = IF a.status = 404 THEN missed + 1 ELSE missed
        /\ failed' = IF a.status = 500 THEN failed + 1 ELSE failed
        /\ work' = work - 1
    BY <1>6, <1>work, <2>1
  <2>3. /\ metric'["requests"] = metric["requests"]
        /\ metric'["errors"] = IF a.status = 500 THEN metric["errors"] + 1 ELSE metric["errors"]
    BY <1>5, <1>9, <2>1
  <2> QED
    BY <1>2, <1>3, <1>4, <2>1, <2>2, <2>3
<1> QED
  BY <1>10, <1>11, <1>12

-----------------------------------------------------------------------------
(* The specification.                                                      *)

RouteAdded == \E p \in RoutePaths, k \in {"lua", "static"} : AddRoute(p, k)

\* The bootstrap only changes the routes, and no client is there yet.
LEMMA SetupInv ==
  ASSUME Inv, MetricsInv, RouteAdded \/ StartServer \/ UNCHANGED vars
  PROVE  Inv' /\ MetricsInv'
<1>1. /\ UNCHANGED <<mode, client, promise, handler, answers, wire, metric>>
      /\ server' = server \/ (server = "setup" /\ server' = "serving")
      /\ UNCHANGED <<m_set, added>> \/ server = "setup"
  BY DEF RouteAdded, AddRoute, StartServer, vars, routing
<1>2. ReqInv'
  BY SetupStep DEF Inv, RouteAdded
<1>3. MetricsInv'
  BY <1>1, MetricsKept
<1>4. RoutesInv' /\ DOMAIN (m_set.func)' = DOMAIN added'
  <2>1. RoutesInv
    BY DEF Inv
  <2>2. CASE UNCHANGED <<m_set, added>>
    BY <2>1, <2>2 DEF RoutesInv
  <2>3. CASE RouteAdded
    <3>1. PICK p \in RoutePaths, k \in {"lua", "static"} :
            m_set' = Insert(m_set, p, k) /\ added' = Assigned(added, p, k)
      BY <2>3 DEF RouteAdded, AddRoute
    <3>2. /\ m_set'.func = Assigned(added, p, k) /\ m_set'.next = m_set.next \cup Above(p)
      BY <2>1, <3>1 DEF Insert, RoutesInv
    <3>3. /\ DOMAIN added' = DOMAIN added \cup {p}
          /\ \A q \in DOMAIN added' : added'[q] = IF q = p THEN k ELSE added[q]
      BY <3>1 DEF Assigned
    <3>4. \A q \in DOMAIN added' : Above(q) \subseteq m_set'.next /\ added'[q] \in {"lua", "static"}
      BY <2>1, <3>2, <3>3 DEF RoutesInv
    <3> QED
      BY <2>1, <3>1, <3>2, <3>3, <3>4 DEF RoutesInv
  <2> QED
    BY <2>2, <2>3 DEF StartServer, vars, routing
<1>5. TypeOK'
  <2>1. DOMAIN added' \subseteq RoutePaths
    BY <1>4 DEF RoutesInv
  <2> QED
    BY <1>1, <1>4, <2>1 DEF Inv, TypeOK
<1>6. AnswersInv'
  BY <1>1 DEF Inv, AnswersInv, Good
<1>7. ASSUME NEW c \in Clients PROVE WaitInv(c)'
  <2>1. WaitInv(c)
    BY DEF Inv
  <2>2. CASE server = "setup"
    BY <1>1, <2>1, <2>2 DEF WaitInv
  <2>3. CASE server # "setup"
    BY <1>1, <2>1, <2>3 DEF WaitInv, InWork, FileFits
  <2> QED
    BY <2>2, <2>3
<1>8. ASSUME NEW c \in Clients PROVE WireInv(c)'
  <2>1. WireInv(c)
    BY DEF Inv
  <2> QED
    BY <1>1, <2>1 DEF WireInv, InWork
<1>9. DOMAIN wire' = Clients
  BY <1>1 DEF Inv
<1> QED
  BY <1>2, <1>3, <1>4, <1>5, <1>6, <1>7, <1>8, <1>9 DEF Inv

LEMMA InvInit ==
  ASSUME Init
  PROVE  Inv /\ MetricsInv
<1>1. /\ \A c \in Clients : /\ client[c].stage = "idle" /\ client[c].n = 0
                            /\ promise[c] = NoResponse /\ ~handler[c] /\ wire[c] = <<>>
      /\ DOMAIN wire = Clients /\ \A r \in Requests : answers[r] = <<>>
      /\ metric["requests"] = 0 /\ metric["errors"] = 0
      /\ mode \in {"http1", "http2"} /\ server = "setup"
      /\ m_set = EmptyPathSet /\ added = <<>>
  BY DEF Init
<1>2. ReqInv
  BY AtStart
<1>3. m_set.func = added /\ DOMAIN added = {}
  BY <1>1 DEF EmptyPathSet
<1>4. RoutesInv
  BY <1>3 DEF RoutesInv
<1>5. TypeOK
  <2>1. (CHOOSE p \in Paths : TRUE) \in Paths
    BY RequestAssumption
  <2>2. client \in [Clients -> ClientState]
    BY <2>1, RequestAssumption DEF Init, ClientState, Methods
  <2>3. /\ promise \in [Clients -> Responses \cup {NoResponse}] /\ handler \in [Clients -> BOOLEAN]
        /\ answers \in [Requests -> Seq(Responses)] /\ metric \in [{"requests", "errors"} -> Nat]
    BY DEF Init
  <2>4. \A S : <<>> \in Seq(S)
    OBVIOUS
  <2>5. \A c \in Clients : wire[c] \in Seq([n : 1 .. MaxRequests, response : Responses])
    BY <1>1, <2>4
  <2> QED
    BY <1>1, <1>3, <2>2, <2>3, <2>5 DEF TypeOK
<1>6. AnswersInv
  BY <1>1 DEF AnswersInv
<1>7. \A c \in Clients : WaitInv(c)
  BY <1>1 DEF WaitInv
<1>8. \A c \in Clients : WireInv(c)
  <2>1. <<>> \in Seq(Written) /\ DOMAIN << >> = {} /\ Len(<<>>) = 0
    OBVIOUS
  <2> QED
    BY <1>1, <2>1 DEF WireInv
<1>9. MetricsInv
  <2>1. \A status : MadeWith(status) = {}
    BY <1>1 DEF MadeWith
  <2>2. AtWork = {}
    BY <1>1 DEF AtWork
  <2>3. Cardinality(AtWork) = 0 /\ \A status : Cardinality(MadeWith(status)) = 0
    BY <2>1, <2>2, FS_EmptySet, Zenon
  <2>4. Cardinality(MadeWith(200)) = 0 /\ Cardinality(MadeWith(404)) = 0 /\ Cardinality(MadeWith(500)) = 0
    BY <2>3
  <2> QED
    BY <1>1, <2>3, <2>4 DEF MetricsInv
<1> QED
  BY <1>1, <1>2, <1>4, <1>5, <1>6, <1>7, <1>8, <1>9 DEF Inv

LEMMA InvStep ==
  ASSUME Inv, MetricsInv, [Next]_vars
  PROVE  Inv' /\ MetricsInv'
<1>1. CASE RouteAdded \/ StartServer \/ UNCHANGED vars
  BY <1>1, SetupInv
<1>2. ASSUME NEW c \in Clients, ClientStep(c) PROVE Inv' /\ MetricsInv'
  <2>1. ReqInv /\ TypeOK /\ RoutesInv
    BY DEF Inv
  <2>2. /\ UNCHANGED routing
        /\ client' \in [Clients -> ClientState] /\ \A d \in Clients \ {c} : client'[d] = client[d]
        /\ Quiet(c) \/ WriteResponse(c) \/ Asked(c) \/ Ends(c)
    BY <1>2, <2>1, ClientSteps
  <2>3. ReqInv'
    BY <1>2, <2>1, EachStep DEF Next, ClientStep
  <2>4. DOMAIN wire' = Clients /\ \A d \in Clients : WireInv(d)'
    BY <2>2, WireStep
  <2>5. TypeOK' /\ AnswersInv'
    BY <2>2, <2>4, TypesStep
  <2>6. \A d \in Clients : WaitInv(d)'
    BY <2>2, WaitStep
  <2>7. MetricsInv'
    BY <2>1, <2>2, MetricsStep
  <2>8. RoutesInv'
    BY <2>1, <2>2 DEF RoutesInv, routing
  <2> QED
    BY <2>3, <2>4, <2>5, <2>6, <2>7, <2>8 DEF Inv
<1> QED
  BY <1>1, <1>2 DEF Next, RouteAdded, ClientStep

LEMMA InvHolds == Spec => [](Inv /\ MetricsInv)
<1>1. Init => Inv /\ MetricsInv
  BY InvInit
<1>2. Inv /\ MetricsInv /\ [Next]_vars => (Inv /\ MetricsInv)'
  BY InvStep
<1> QED
  BY <1>1, <1>2, PTL DEF Spec

\* A session that waits has its handler at work or its response, answers carry
\* their headers once, and the metrics count what was answered (add_route,
\* handle_request, send_response).
THEOREM RequestsComplete == Spec => []RequestInv
<1>1. ASSUME Inv, MetricsInv PROVE RequestInv
  <2>1. TypeOK
    BY <1>1 DEF Inv
  <2>2. SomeoneAnswers
    <3>1. ASSUME NEW c \in Clients
          PROVE  /\ handler[c] => ~Answered(c)
                 /\ Routed(c) /\ server # "crashed" => handler[c] # Answered(c)
      <4>1. AnswerInv(c) /\ WaitInv(c) /\ StageInv(c) /\ handler[c] \in BOOLEAN
        BY <1>1 DEF Inv, ReqInv, TypeOK
      <4>2. handler[c] => ~Answered(c)
        BY <4>1 DEF AnswerInv, Answered
      <4>3. Routed(c) /\ server # "crashed" => handler[c] \/ Answered(c)
        BY <4>1 DEF WaitInv, StageInv, Routed, Answered
      <4>4. Answered(c) \in BOOLEAN
        BY DEF Answered
      <4> QED
        BY <4>1, <4>2, <4>3, <4>4
    <3> QED
      BY <3>1 DEF SomeoneAnswers
  <2>3. MetricsMatchAnswers
    BY <1>1 DEF MetricsInv, MadeWith, AtWork, MetricsMatchAnswers
  <2>4. HeadersSentOnce
    <3>1. ASSUME NEW r \in Requests, NEW i \in DOMAIN answers[r] PROVE Good(answers[r][i])
      <4>1. CASE answers[r] = <<>>
        BY <4>1
      <4>2. ASSUME NEW a, answers[r] = <<a>>, Good(a) PROVE Good(answers[r][i])
        BY <4>2
      <4> QED
        BY <1>1, <4>1, <4>2 DEF Inv, AnswersInv
    <3> QED
      BY <3>1 DEF Good, HeadersSentOnce
  <2> QED
    BY <2>1, <2>2, <2>3, <2>4 DEF RequestInv
<1> QED
  BY <1>1, InvHolds, PTL

\* What a connection's peer reads is, in order, the response made for each of its
\* requests (session::start, request::send_response).
THEOREM WireInOrder == Spec => []WireFollowsAnswers
<1>1. Inv => WireFollowsAnswers
  BY DEF Inv, WireInv, WireFollowsAnswers
<1> QED
  BY <1>1, InvHolds, PTL

\* The tree of router.h finds the route with the longest path that starts the
\* request's path, whatever routes are added and in which order.
THEOREM LongestPrefixFound == Spec => []RouterFindsLongestPrefix
<1>1. Inv => RouterFindsLongestPrefix
  BY FindsLongest DEF Inv, RoutesInv, RouterFindsLongestPrefix
<1> QED
  BY <1>1, InvHolds, PTL

\* A static file that is served is the one the path names: its route and its name
\* in the directory make up the path (add_directory_route, find_static_file).
THEOREM StaticFilesMatch == Spec => []StaticFileMatchesPath
<1>1. ASSUME Inv, NEW c \in Clients, Routed(c), answers[InWork(c)] # <<>>
      PROVE  LET body  == Last(answers[InWork(c)]).body
                 route == LongestPrefix(DOMAIN added, client[c].path) IN
             /\ Len(route) <= Len(client[c].path)
             /\ body \in Files => added[route] = "static" /\ route \o body = client[c].path
  <2>1. /\ client[c].path \in Paths /\ client[c].n \in 1 .. MaxRequests
        /\ FileFits(answers[InWork(c)][1], client[c].path)
    BY <1>1 DEF Inv, ReqInv, TypeOK, ClientState, StageInv, WaitInv, Routed
  <2>2. PICK a \in Responses : answers[InWork(c)] = <<a>>
    <3>1. InWork(c) \in Requests
      BY <2>1, RequestPairs DEF InWork
    <3>2. answers[InWork(c)] \in Seq(Responses)
      BY <1>1, <3>1 DEF Inv, TypeOK
    <3>3. PICK a : answers[InWork(c)] = <<a>>
      BY <1>1, <3>1 DEF Inv, AnswersInv
    <3>4. a \in Responses
      BY <3>2, <3>3
    <3> QED
      BY <3>3, <3>4
  <2>3. Last(answers[InWork(c)]) = a /\ answers[InWork(c)][1] = a
    BY <2>2 DEF Last
  <2>4. PICK path \in Paths : path = client[c].path
    BY <2>1
  <2>route. PICK route : route = LongestPrefix(DOMAIN added, path)
    OBVIOUS
  <2>5. path \in Seq(STRING)
    BY RequestAssumption
  <2>6. Len(route) <= Len(path)
    <3>1. route = FindNode(m_set, path)
      BY <1>1, <2>route, FindsLongest DEF Inv
    <3>2. route = <<>> \/ route \in Prefixes(path)
      BY <1>1, <3>1, FindsLongest DEF Inv
    <3> QED
      BY <2>5, <3>2, PrefixLength
  <2> QED
    BY <2>1, <2>3, <2>4, <2>route, <2>6 DEF FileFits
<1>2. Inv => StaticFileMatchesPath
  BY <1>1 DEF StaticFileMatchesPath
<1> QED
  BY <1>2, InvHolds, PTL

=============================================================================
