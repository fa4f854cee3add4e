-------------------------- MODULE RequestLifecycle --------------------------
(***************************************************************************)
(* The life of requests: from the session (HTTP/1) or the stream (HTTP/2)  *)
(* through the router, the lambdas of add_route and add_directory_route,   *)
(* and the fiber of the Lua handler, to the response on the wire.          *)
(*                                                                         *)
(* With HTTP/1 a session serves one request after the other: its fiber     *)
(* reads, routes, waits for the promise of the request and writes.  With   *)
(* HTTP/2 a client stands for one stream, the route is called by a         *)
(* callback of the library and the handler writes to the stream itself.    *)
(* The peer may go away between any two steps.                             *)
(*                                                                         *)
(* server_impl's constructor never assigns m_metric_not_impl, so that the  *)
(* branches that increment it dereference a null pointer: `Crash`.         *)
(***************************************************************************)
EXTENDS Router

CONSTANTS
  Clients,      \* HTTP/1 connections, or HTTP/2 streams
  MaxRequests,  \* bound on the requests of one connection
  RoutePaths,   \* paths the bootstrap may add routes for
  MaxRoutes,    \* bound on the routes it adds
  Paths,        \* paths of requests
  Files,        \* the files of the static directory, relative to it
  NoResponse

Methods   == {"GET", "POST", "OTHER"}
Requests  == Clients \X (1 .. MaxRequests)
LuaBody   == <<"lua">>   \* what a handler put into response.content
Bodies    == Files \cup {<<>>, LuaBody}
HeaderNames == {"server", "content-length"}   \* those that send_response adds
Responses == [status : {200, 404, 500}, body : Bodies, headers : [HeaderNames -> 0 .. 2]]

ASSUME RequestAssumption ==
  /\ IsFiniteSet(Clients) /\ MaxRequests \in Nat \ {0}
  /\ RoutePaths \cup Paths \cup Files \subseteq Seq(STRING) \ {<<>>} /\ Paths # {}
  /\ LuaBody \notin Files   \* no name has "lua" for a character
  /\ NoResponse \notin Responses

VARIABLES
  mode,      \* option server.http1
  server,    \* "setup" (bootstrap adds routes), "serving" or "crashed"
  m_set,     \* the router's tree
  added,     \* history: the last function added for each path
  client,    \* per client: the request in work, and where it is
  promise,   \* HTTP/1: the response in the request, set with its promise
  handler,   \* per client: is a handler fiber at work on its request
  answers,   \* per request: responses that were made
  wire,      \* per client: responses written, with the number of the request
  metric     \* m_metric_requests and m_metric_errors

routing == <<mode, m_set, added>>
vars == <<routing, server, client, promise, handler, answers, wire, metric>>

ClientState == [stage : {"idle", "reading", "waiting", "ended"}, peer : BOOLEAN,
                n : 0 .. MaxRequests, method : Methods, path : Paths]

TypeOK ==
  /\ mode \in {"http1", "http2"} /\ server \in {"setup", "serving", "crashed"}
  /\ DOMAIN m_set.func = DOMAIN added /\ DOMAIN added \subseteq RoutePaths
  /\ client \in [Clients -> ClientState]
  /\ promise \in [Clients -> Responses \cup {NoResponse}]
  /\ handler \in [Clients -> BOOLEAN]
  /\ answers \in [Requests -> Seq(Responses)]
  /\ \A c \in Clients : wire[c] \in Seq([n : 1 .. MaxRequests, response : Responses])
  /\ metric \in [{"requests", "errors"} -> Nat]

Init ==
  /\ mode \in {"http1", "http2"} /\ server = "setup"
  /\ m_set = EmptyPathSet /\ added = <<>>
  /\ client = [c \in Clients |-> [stage |-> "idle", peer |-> TRUE, n |-> 0,
                                  method |-> "GET", path |-> CHOOSE p \in Paths : TRUE]]
  /\ promise = [c \in Clients |-> NoResponse]
  /\ handler = [c \in Clients |-> FALSE]
  /\ answers = [r \in Requests |-> <<>>]
  /\ wire = [c \in Clients |-> <<>>]
  /\ metric = [m \in {"requests", "errors"} |-> 0]

-----------------------------------------------------------------------------
(* The bootstrap script: add_route ("lua") and add_directory_route         *)
(* ("static").  Without a route the server does not start.                 *)

AddRoute(path, kind) ==
  /\ server = "setup" /\ Cardinality(DOMAIN added) < MaxRoutes
  /\ m_set' = Insert(m_set, path, kind)
  /\ added' = Assigned(added, path, kind)
  /\ UNCHANGED <<mode, server, client, promise, handler, answers, wire, metric>>

StartServer ==
  /\ server = "setup" /\ DOMAIN added # {}
  /\ server' = "serving"
  /\ UNCHANGED <<routing, client, promise, handler, answers, wire, metric>>

-----------------------------------------------------------------------------
(* Responses.                                                              *)

Response(status, body) == [status |-> status, body |-> body, headers |-> [h \in HeaderNames |-> 0]]

\* request::add_header: the headers are a multimap.
AddHeader(a, name) == [a EXCEPT !.headers[name] = @ + 1]

\* The headers of the table a handler returned, a name once.
HandlerHeaders(a, names) == [a EXCEPT !.headers = [h \in HeaderNames |-> IF h \in names THEN 1 ELSE 0]]

\* What send_response adds; HTTP/1's content-length is written by the library.
Completed(a) ==
  LET b == IF a.headers["server"] = 0 THEN AddHeader(a, "server") ELSE a
  IN IF mode = "http2" THEN AddHeader(b, "content-length") ELSE b

\* request::send_response.  HTTP/1: the response is kept in the request and its
\* promise is set.  HTTP/2: head and data go to the stream, which does not exist
\* any more when the peer has closed it: nothing of it arrives.
SendResponse(c, n, response) ==
  LET a == Completed(response) IN
  /\ answers' = [answers EXCEPT ![<<c, n>>] = Append(@, a)]
  /\ IF mode = "http1"
       THEN promise' = [promise EXCEPT ![c] = a] /\ UNCHANGED wire
       ELSE /\ wire' = IF client[c].peer
                         THEN [wire EXCEPT ![c] = Append(@, [n |-> n, response |-> a])] ELSE wire
            /\ UNCHANGED promise

NothingSent == UNCHANGED <<promise, answers, wire>>
Count(names) == metric' = [m \in DOMAIN metric |-> IF m \in names THEN metric[m] + 1 ELSE metric[m]]
Crash == server' = "crashed" /\ NothingSent /\ UNCHANGED <<handler, metric>>

-----------------------------------------------------------------------------
(* The routes; n is the number of the request.                             *)

\* The lambda of add_route.  The handler runs on a fiber; a fiber that cannot be
\* created is answered here.
LuaRoute(c, n, method) ==
  \/ /\ method \in {"GET", "POST"}
     /\ Count({"requests"})
     /\ handler' = [handler EXCEPT ![c] = TRUE]
     /\ NothingSent /\ UNCHANGED server
  \/ /\ method \in {"GET", "POST"}
     /\ Count({"requests", "errors"})
     /\ SendResponse(c, n, Response(500, <<>>))
     /\ UNCHANGED <<handler, server>>
  \/ method = "OTHER" /\ Crash

\* Slip: the substring starts after the slash that the route may end with.
BadRelative(route, path) == SubSeq(path, Len(route) + 2, Len(path))

\* req_path.substr(path.size())
Relative(route, path) == SubSeq(path, Len(route) + 1, Len(path))

\* find_static_file: no file for a directory; <<>> stands for nullptr.
FindStaticFile(route, path) ==
  IF Last(path) # "/" /\ Relative(route, path) \in Files THEN Relative(route, path) ELSE <<>>

\* Slip: without its return, a file that was found is also not found.
BadStaticRoute(c, n, method, route, path) ==
  LET file == FindStaticFile(route, path)
      sent == IF method = "GET" /\ file # <<>> THEN <<Response(200, file)>> ELSE <<>> IN
  /\ answers' = [answers EXCEPT ![<<c, n>>] = @ \o sent \o <<Response(404, <<>>)>>]
  /\ Count({"errors"})
  /\ promise' = [promise EXCEPT ![c] = Response(404, <<>>)]
  /\ UNCHANGED <<wire, handler, server>>

\* The lambda of add_directory_route.
StaticRoute(c, n, method, route, path) ==
  LET file == FindStaticFile(route, path) IN
  /\ IF method = "GET" /\ file # <<>>
       THEN SendResponse(c, n, Response(200, file)) /\ Count({"requests"})
       ELSE SendResponse(c, n, Response(404, <<>>)) /\ Count({"errors"})
  /\ UNCHANGED <<handler, server>>

DefaultRoute(c, n) ==
  /\ SendResponse(c, n, Response(404, <<>>))
  /\ UNCHANGED <<handler, server, metric>>

\* find_route, and the call of the route it returns.
Route(c, n, method, path) ==
  LET route == FindNode(m_set, path) IN
  IF route = <<>> THEN DefaultRoute(c, n)
  ELSE IF m_set.func[route] = "lua" THEN LuaRoute(c, n, method)
  ELSE StaticRoute(c, n, method, route, path)

-----------------------------------------------------------------------------
(* The fiber of a handler.  It works on after the peer is gone.            *)

HandlerRuns(c) == server = "serving" /\ handler[c]

\* Slip: the exits by log_throw are not answered.
BadHandlerThrows(c) ==
  /\ HandlerRuns(c)
  /\ handler' = [handler EXCEPT ![c] = FALSE]
  /\ Count({"errors"})
  /\ NothingSent /\ UNCHANGED <<routing, server, client>>

\* lua_engine::handle_request to its end: one response.
HandlerReturns(c) ==
  /\ HandlerRuns(c)
  /\ handler' = [handler EXCEPT ![c] = FALSE]
  /\ \E names \in SUBSET HeaderNames :
       SendResponse(c, client[c].n, HandlerHeaders(Response(200, LuaBody), names))
  /\ UNCHANGED <<routing, server, client, metric>>

\* ... or out of one of its log_throw exits, all of them before its response, the
\* last of them (content is no string) after its headers were added: they are sent
\* with the error.
HandlerThrows(c) ==
  /\ HandlerRuns(c)
  /\ handler' = [handler EXCEPT ![c] = FALSE]
  /\ \E names \in SUBSET HeaderNames :
       SendResponse(c, client[c].n, HandlerHeaders(Response(500, <<>>), names))
  /\ Count({"errors"})
  /\ UNCHANGED <<routing, server, client>>

\* What a client becomes with the headers of its next request.
NextRequest(c, stage, method, path) ==
  [client[c] EXCEPT !.stage = stage, !.n = @ + 1, !.method = method, !.path = path]

-----------------------------------------------------------------------------
(* HTTP/1: session::start.                                                 *)

Session(c, stage) == server = "serving" /\ mode = "http1" /\ client[c].stage = stage

ReadRequest(c) ==
  /\ Session(c, "idle") /\ client[c].peer /\ client[c].n < MaxRequests
  /\ \E m \in Methods, p \in Paths :
       client' = [client EXCEPT ![c] = NextRequest(c, "reading", m, p)]
  /\ UNCHANGED <<routing, server, promise, handler, answers, wire, metric>>

\* The message is complete: find_route, and a new promise for the request.
RouteRequest(c) ==
  /\ Session(c, "reading")
  /\ client' = [client EXCEPT ![c].stage = "waiting"]
  /\ Route(c, client[c].n, client[c].method, client[c].path)
  /\ UNCHANGED routing

\* async_read_... throws a system_error: the session ends.
ReadFails(c) ==
  /\ Session(c, "idle") \/ Session(c, "reading")
  /\ ~client[c].peer
  /\ client' = [client EXCEPT ![c].stage = "ended"]
  /\ UNCHANGED <<routing, server, promise, handler, answers, wire, metric>>

\* Slip: the session writes the response without req->wait().
BadResponseReady(c) == Session(c, "waiting")

ResponseReady(c) == Session(c, "waiting") /\ promise[c] # NoResponse

\* wait() returned: write the response, then the next request.
WriteResponse(c) ==
  /\ ResponseReady(c)
  /\ promise' = [promise EXCEPT ![c] = NoResponse]
  /\ \/ /\ client[c].peer
        /\ client' = [client EXCEPT ![c].stage = "idle"]
        /\ wire' = [wire EXCEPT ![c] = Append(@, [n |-> client[c].n, response |->
                      IF promise[c] = NoResponse THEN Response(200, <<>>) ELSE promise[c]])]
     \/ /\ ~client[c].peer   \* the write fails and the socket is closed
        /\ client' = [client EXCEPT ![c].stage = "ended"]
        /\ UNCHANGED wire
  /\ UNCHANGED <<routing, server, handler, answers, metric>>

-----------------------------------------------------------------------------
(* HTTP/2: the handler of start_http2.                                     *)

Stream(c, stage) == server = "serving" /\ mode = "http2" /\ client[c].stage = stage

Http2Request(c) ==
  /\ Stream(c, "idle") /\ client[c].peer
  /\ \E m \in Methods, p \in Paths :
       \/ /\ m = "GET"
          /\ client' = [client EXCEPT ![c] = NextRequest(c, "waiting", m, p)]
          /\ Route(c, 1, m, p)
       \/ /\ m = "POST"    \* on_data
          /\ client' = [client EXCEPT ![c] = NextRequest(c, "reading", m, p)]
          /\ NothingSent /\ UNCHANGED <<server, handler, metric>>
       \/ /\ m = "OTHER"
          /\ client' = [client EXCEPT ![c] = NextRequest(c, "waiting", m, p)]
          /\ Crash
  /\ UNCHANGED routing

\* The data callback with length 0.
Http2ContentReceived(c) ==
  /\ Stream(c, "reading") /\ client[c].peer
  /\ client' = [client EXCEPT ![c].stage = "waiting"]
  /\ Route(c, 1, client[c].method, client[c].path)
  /\ UNCHANGED routing

-----------------------------------------------------------------------------
\* The peer closes its connection or resets its stream.
PeerLeaves(c) ==
  /\ server = "serving" /\ client[c].peer
  /\ client' = [client EXCEPT ![c].peer = FALSE]
  /\ UNCHANGED <<routing, server, promise, handler, answers, wire, metric>>

HandlerStep(c) == HandlerReturns(c) \/ HandlerThrows(c)
SessionStep(c) == RouteRequest(c) \/ ReadFails(c) \/ WriteResponse(c)

Next ==
  \/ \E p \in RoutePaths, k \in {"lua", "static"} : AddRoute(p, k)
  \/ StartServer
  \/ \E c \in Clients : \/ HandlerStep(c) \/ SessionStep(c) \/ ReadRequest(c)
                        \/ Http2Request(c) \/ Http2ContentReceived(c) \/ PeerLeaves(c)

Spec == Init /\ [][Next]_vars

\* Fibers that can run do.  WF of HandlerStep is the assumption that every
\* handler ends; nothing is assumed of the peers.
FairSpec == Spec /\ \A c \in Clients : WF_vars(HandlerStep(c)) /\ WF_vars(SessionStep(c))

-----------------------------------------------------------------------------
(* Properties.                                                             *)

\* The request of client c that is in work, and was handed to a route.
Routed(c) == client[c].stage = "waiting"
InWork(c) == <<c, client[c].n>>
Answered(c) == client[c].n > 0 /\ answers[InWork(c)] # <<>>
AskedRequests ==
  {r \in Requests :
     LET s == client[r[1]] IN
     \/ r[2] < s.n \/ answers[r] # <<>>
     \/ r[2] = s.n /\ s.stage \in {"idle", "waiting"}}

\* Every request is answered at most once and only when it was asked.
Promised == INSTANCE OneResponse WITH asked <- AskedRequests
AnswersOnce == Promised!Spec

\* find_route returns the route with the longest path that starts the request's
\* path, whatever the order routes are added in (the tests use one order), and
\* of several functions for one path the last one.
RouterFindsLongestPrefix ==
  /\ \A p \in Paths : FindNode(m_set, p) = LongestPrefix(DOMAIN added, p)
  /\ \A p \in DOMAIN added : m_set.func[p] = added[p]

\* What is on the wire of a connection is, request by request and in their
\* order, the response that was made for that request; none is skipped.
WireFollowsAnswers ==
  \A c \in Clients : \A i \in DOMAIN wire[c] :
    /\ wire[c][i].n = i
    /\ answers[<<c, i>>] = <<wire[c][i].response>>

\* A file is served only when route and file name make up the path that was
\* asked for, and substr never starts behind the end of the path.
StaticFileMatchesPath ==
  \A c \in Clients :
    Routed(c) /\ answers[InWork(c)] # <<>> =>
      LET body  == Last(answers[InWork(c)]).body
          route == LongestPrefix(DOMAIN added, client[c].path) IN
      /\ Len(route) <= Len(client[c].path)
      /\ body \in Files => added[route] = "static" /\ route \o body = client[c].path

\* While a handler works its request has no response yet, and a session that
\* waits has a handler at work or its response: it never waits for nothing.
SomeoneAnswers ==
  \A c \in Clients :
    /\ handler[c] => ~Answered(c)
    /\ Routed(c) /\ server # "crashed" => handler[c] # Answered(c)

\* m_metric_errors counts the failures, m_metric_requests what was passed to a
\* handler or found: every answer but those of the default route is in them.
MetricsMatchAnswers ==
  LET Made(status) == Cardinality({r \in Requests : answers[r] # <<>> /\ Last(answers[r]).status = status})
      Working      == Cardinality({c \in Clients : handler[c]}) IN
  /\ metric["requests"] = Made(200) + Made(500) + Working
  /\ Made(500) <= metric["errors"] /\ metric["errors"] <= Made(500) + Made(404)

\* Every answer names the server once, also when the handler named it and when an
\* error follows.  Its content-length has two entries only with HTTP/2 and a
\* handler that set one.
HeadersSentOnce ==
  \A r \in Requests : \A i \in DOMAIN answers[r] :
    LET a == answers[r][i] IN
    /\ a.headers["server"] = 1
    /\ a.headers["content-length"] = 2 => mode = "http2" /\ (a.body = LuaBody \/ a.status = 500)

RequestInv == TypeOK /\ SomeoneAnswers /\ MetricsMatchAnswers /\ HeadersSentOnce

\* With HTTP/1 every request that reaches a route is answered and its session
\* goes on to the next request or ends; with HTTP/2 it is answered.  A crash of
\* the server is excluded here.
EveryRequestAnswered ==
  \A c \in Clients :
    /\ Routed(c) ~> Answered(c) \/ server = "crashed"
    /\ mode = "http1" /\ Routed(c) ~> client[c].stage \in {"idle", "ended"} \/ server = "crashed"

\* "we support only GET/POST" (server_impl.cpp:186): a request with another
\* method for a Lua route is answered, with 501.
OtherMethodsAnswered ==
  \A c \in Clients : Routed(c) /\ client[c].method = "OTHER" ~> Answered(c)

=============================================================================
