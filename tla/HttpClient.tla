----------------------------- MODULE HttpClient -----------------------------
(***************************************************************************)
(* One http_client object of the Lua library, the handler's fiber that     *)
(* uses it, its deadline timer and the server at the other end.            *)
(*                                                                         *)
(* The fiber calls asio with the token bfa::yield: the operation is        *)
(* started, the fiber waits in async_result_base::get, and the completion  *)
(* handler that the io service runs later makes it ready                   *)
(* (fiber/detail/yield.hpp).  Between the handler and the fiber other      *)
(* handlers of the io service run, the one of the timer among them.        *)
(*                                                                         *)
(* async_connect, async_write and the reads are made of several operations *)
(* on the socket.  One is in progress; when it ends its handler is queued, *)
(* and that handler ends the whole or starts the next one.                 *)
(*                                                                         *)
(* A response is a "head" (status line and headers, up to the empty line)  *)
(* and as many "body" pieces as its content-length says; what is in a      *)
(* buffer is a sequence of such pieces, with the number of the request.    *)
(***************************************************************************)
EXTENDS Integers, Sequences, FiniteSets, SequencesExt

CONSTANTS
  MaxCalls,     \* bound on the calls of get and post
  MaxConnects,  \* bound on the calls of connect
  MaxEndpoints, \* bound on the addresses of a host
  MaxLen,       \* bound on content-length
  SizeMax       \* values of size_t, more than the pieces that ever come in

ASSUME HttpAssumption ==
  /\ MaxCalls \in Nat \ {0} /\ MaxConnects \in Nat /\ MaxEndpoints \in Nat \ {0}
  /\ MaxLen \in Nat /\ SizeMax \in Nat /\ SizeMax > MaxCalls * (MaxLen + 1)

VARIABLES
  m_sock,       \* the socket is "open" or "closed"
  m_connected,
  m_req_buf,    \* requests in the buffer that were not written
  m_res_buf,    \* what was received and not consumed
  op,           \* the asio operation the fiber is in, and the state of its yield
  armed,        \* the timer of the running call waits
  handlers,     \* its handlers in the io service's queue, by their error code
  late,         \* waits that expired and have not cancelled anything yet
  wire,         \* what the server sent and was not received
  peer,         \* the server: [open, next response, pieces left of the last one]
  call,         \* the call: [kind, number, was the connection in step, head read]
  result,       \* what the call of get or post returned
  connects      \* calls of connect

httpBuffers == <<m_sock, m_connected, m_req_buf, m_res_buf>>
httpTimer   == <<armed, handlers, late>>
httpPeer    == <<wire, peer>>
httpCalls   == <<call, result, connects>>
httpVars    == <<httpBuffers, op, httpTimer, httpPeer, httpCalls>>

Piece == [n : 1 .. MaxCalls, kind : {"head", "body", "rest"},
          status : {"ok", "redirect", "bad"}, len : 0 .. MaxLen]
NoHead == [n |-> 0, kind |-> "head", status |-> "bad", len |-> 0]
NoResult == [n |-> 0, kind |-> "none", head |-> NoHead, content |-> <<>>,
             ec |-> "ok", inStep |-> FALSE]

Operations ==
  [kind : {"none", "resolve", "connect", "write", "head", "body", "deleted", "terminated"},
   fiber : {"active", "suspended", "ready"},
   completed_ : BOOLEAN,
   ec : {"ok", "eof", "error", "aborted"},
   queued : BOOLEAN,   \* the operation on the socket has ended with ec, its handler is queued
   left : Int]         \* endpoints to try after this one, pieces of content to read

HttpTypeOK ==
  /\ m_sock \in {"open", "closed"}
  /\ m_connected \in BOOLEAN /\ m_req_buf \in 0 .. MaxCalls
  /\ m_res_buf \in Seq(Piece) /\ wire \in Seq(Piece)
  /\ op \in Operations
  /\ armed \in BOOLEAN /\ handlers \in Seq({"expired", "aborted"})
  /\ late \in Nat
  /\ peer \in [open : BOOLEAN, next : 1 .. MaxCalls + 1, left : 0 .. MaxLen]
  /\ connects \in 0 .. MaxConnects
  /\ call.n \in 0 .. MaxCalls /\ call.inStep \in BOOLEAN /\ call.head \in Piece \cup {NoHead}

Idle == [kind |-> "none", fiber |-> "active", completed_ |-> FALSE, ec |-> "ok",
         queued |-> FALSE, left |-> 0]

HttpInit ==
  /\ m_sock = "closed" /\ m_connected = FALSE /\ m_req_buf = 0 /\ m_res_buf = <<>>
  /\ op = Idle
  /\ armed = FALSE /\ handlers = <<>> /\ late = 0
  /\ wire = <<>> /\ peer = [open |-> FALSE, next |-> 1, left |-> 0]
  /\ call = [n |-> 0, sent |-> 0, inStep |-> FALSE, head |-> NoHead]
  /\ result = NoResult /\ connects = 0

-----------------------------------------------------------------------------
(* The yield adapter.  The fiber starts an operation; its completion sets  *)
(* completed_ and wakes the fiber unless it is still active; wait() does   *)
(* not suspend when completed_ is set.                                     *)

Start(kind, left) == op' = [Idle EXCEPT !.kind = kind, !.left = left]

Suspend ==
  /\ op.kind \notin {"none", "deleted", "terminated"} /\ op.fiber = "active" /\ ~op.completed_
  /\ op' = [op EXCEPT !.fiber = "suspended"]
  /\ UNCHANGED <<httpBuffers, httpTimer, httpPeer, httpCalls>>

\* An operation on the socket (or the lookup) is in progress.
Pending(kinds) == op.kind \in kinds /\ ~op.completed_ /\ ~op.queued

\* It has ended, and its handler is in the io service's queue.
Queued(ec) == [op EXCEPT !.queued = TRUE, !.ec = ec]

\* Slip: the fiber is not woken.
BadCompleted(ec) == [op EXCEPT !.queued = FALSE, !.completed_ = TRUE, !.ec = ec]

\* The handler of the whole operation.
Completed(ec) ==
  [op EXCEPT !.queued = FALSE, !.completed_ = TRUE, !.ec = ec,
             !.fiber = IF @ = "suspended" THEN "ready" ELSE @]

\* The fiber comes back from get() of operation kind.
Resumes(kind) == op.kind = kind /\ op.completed_ /\ op.fiber # "suspended"

-----------------------------------------------------------------------------
(* The timer.  Cancelling it queues its handler with operation_aborted;    *)
(* a handler that is already queued because the timer expired stays.       *)

Abort(q) == IF armed THEN Append(q, "aborted") ELSE q
CancelTimer == armed' = FALSE /\ handlers' = Abort(handlers) /\ UNCHANGED late
ArmTimer == armed' = TRUE /\ handlers' = Abort(handlers) /\ UNCHANGED late

TimerExpires ==
  /\ armed
  /\ armed' = FALSE /\ handlers' = Append(handlers, "expired") /\ late' = late + 1
  /\ UNCHANGED <<httpBuffers, op, httpPeer, httpCalls>>

\* Slip: the error code is not looked at.
BadCancels(ec) == TRUE

\* timeout_handler: m_sock.cancel() for any error but operation_aborted.
Cancels(ec) == ec # "aborted"

\* Handlers run while the fiber does not.  What is cancelled is the operation in
\* progress on the socket.  Between two of them there is none and the cancel is
\* lost, and so it is for the resolver.  On a closed socket cancel throws, out of
\* the io service's run.  For a handler that outlives the object anything can
\* happen; that nothing does is one of the outcomes.
TimeoutHandler ==
  /\ handlers # <<>>
  /\ op.kind \in {"none", "deleted"} \/ op.fiber # "active"
  /\ handlers' = Tail(handlers)
  /\ \/ ~Cancels(Head(handlers)) /\ UNCHANGED <<op, late>>
     \/ /\ Cancels(Head(handlers)) /\ late' = late - 1
        /\ \/ Pending({"connect", "write", "head", "body"}) /\ op' = Queued("aborted")
           \/ /\ ~Pending({"connect", "write", "head", "body"})
              /\ m_sock = "open" \/ op.kind = "deleted"
              /\ op' = op
           \/ m_sock = "closed" /\ op' = [Idle EXCEPT !.kind = "terminated"]
  /\ UNCHANGED <<httpBuffers, armed, httpPeer, httpCalls>>

-----------------------------------------------------------------------------
(* The server at the other end.                                            *)

PeerSends ==
  /\ peer.open
  /\ \/ /\ peer.left > 0
        /\ wire' = Append(wire, [n |-> peer.next - 1, kind |-> "body", status |-> "ok", len |-> 0])
        /\ peer' = [peer EXCEPT !.left = @ - 1]
     \/ /\ peer.left = 0 /\ peer.next <= call.sent
        /\ \E s \in {"ok", "redirect", "bad"}, len \in 0 .. MaxLen :
             /\ wire' = Append(wire, [n |-> peer.next, kind |-> "head", status |-> s, len |-> len])
             /\ peer' = [peer EXCEPT !.next = @ + 1, !.left = len]
  /\ UNCHANGED <<httpBuffers, op, httpTimer, httpCalls>>

PeerCloses ==
  /\ peer.open /\ peer' = [peer EXCEPT !.open = FALSE]
  /\ UNCHANGED <<httpBuffers, op, httpTimer, wire, httpCalls>>

-----------------------------------------------------------------------------
(* The ends of the operations.                                             *)

\* The resolver's handler is the fiber's.
ResolveCompletes ==
  /\ Pending({"resolve"})
  /\ op' \in {Completed("ok"), Completed("error")}
  /\ UNCHANGED <<httpBuffers, httpTimer, httpPeer, httpCalls>>

\* async_connect to one endpoint.
ConnectSome ==
  /\ Pending({"connect"})
  /\ \/ op' = Queued("error") /\ UNCHANGED httpPeer
     \/ /\ op' = Queued("ok")
        /\ wire' = <<>> /\ peer' = [open |-> TRUE, next |-> call.sent + 1, left |-> 0]
  /\ UNCHANGED <<httpBuffers, httpTimer, httpCalls>>

\* async_write_some takes the last of m_req_buf, or less.
WriteSome ==
  /\ Pending({"write"})
  /\ \/ /\ op' = Queued("ok")
        /\ call' = [call EXCEPT !.sent = @ + m_req_buf] /\ m_req_buf' = 0
     \/ op' = Queued("ok") /\ UNCHANGED <<call, m_req_buf>>
     \/ ~peer.open /\ op' = Queued("error") /\ UNCHANGED <<call, m_req_buf>>
  /\ UNCHANGED <<m_sock, m_connected, m_res_buf, httpTimer, httpPeer, result, connects>>

\* async_read_some takes what is there, or a part of it, or finds the end or a
\* reset of the connection.
ReadSome ==
  /\ Pending({"head", "body"})
  /\ \/ \E k \in 1 .. Len(wire) :
          /\ op' = [Queued("ok") EXCEPT !.left = @ - k]
          /\ m_res_buf' = m_res_buf \o SubSeq(wire, 1, k)
          /\ wire' = SubSeq(wire, k + 1, Len(wire))
     \/ /\ ~peer.open
        /\ op' = Queued("error") \/ (wire = <<>> /\ op' = Queued("eof"))
        /\ UNCHANGED <<m_res_buf, wire>>
  /\ UNCHANGED <<m_sock, m_connected, m_req_buf, httpTimer, peer, httpCalls>>

EndsHead(p) == p.kind \in {"head", "rest"}
HasHead(buf) == \E i \in DOMAIN buf : EndsHead(buf[i])

\* Slip: one piece is missing.
BadEnough == IF op.kind = "head" THEN HasHead(m_res_buf) ELSE op.left <= 1

\* When async_read_until and async_read are content.
Enough == IF op.kind = "head" THEN HasHead(m_res_buf) ELSE op.left <= 0

\* What the handler of an operation on the socket does: async_connect tries the
\* next endpoint, cancelled or not; write and read go on after a success.
GoesOn ==
  \/ op.kind = "connect" /\ op.ec # "ok" /\ op.left > 0
  \/ op.kind = "write" /\ op.ec = "ok" /\ m_req_buf > 0
  \/ op.kind \in {"head", "body"} /\ op.ec = "ok" /\ ~Enough

Continues ==
  /\ op.queued
  /\ IF ~GoesOn THEN op' = Completed(op.ec)
     ELSE op' = [op EXCEPT !.queued = FALSE, !.left = IF op.kind = "connect" THEN @ - 1 ELSE @]
  /\ UNCHANGED <<httpBuffers, httpTimer, httpPeer, httpCalls>>

-----------------------------------------------------------------------------
(* connect, disconnect and the end of the object, by the handler.          *)

Connect ==
  /\ op.kind = "none" /\ connects < MaxConnects
  /\ connects' = connects + 1
  /\ Start("resolve", 0)
  /\ UNCHANGED <<httpBuffers, httpTimer, httpPeer, call, result>>

\* Before an endpoint is tried the socket is closed.
ResolveReturns ==
  /\ Resumes("resolve")
  /\ IF op.ec = "ok"
       THEN /\ \E endpoints \in 1 .. MaxEndpoints : Start("connect", endpoints - 1)
            /\ ArmTimer
            /\ m_sock' = "open" /\ wire' = <<>> /\ peer' = [peer EXCEPT !.open = FALSE]
       ELSE op' = Idle /\ UNCHANGED <<m_sock, httpTimer, httpPeer>>
  /\ UNCHANGED <<m_connected, m_req_buf, m_res_buf, httpCalls>>

\* On a failure m_connected keeps its value; the timer goes with its scope.
ConnectReturns ==
  /\ Resumes("connect")
  /\ m_connected' = (m_connected \/ op.ec = "ok")
  /\ CancelTimer /\ op' = Idle
  /\ UNCHANGED <<m_sock, m_req_buf, m_res_buf, httpPeer, httpCalls>>

Disconnect ==
  /\ op.kind = "none" /\ m_connected
  /\ m_sock' = "closed" /\ m_connected' = FALSE
  /\ wire' = <<>> /\ peer' = [peer EXCEPT !.open = FALSE]
  /\ UNCHANGED <<m_req_buf, m_res_buf, op, httpTimer, httpCalls>>

\* free_state deletes the library objects of the request, the socket with them.
Delete ==
  /\ op.kind = "none"
  /\ op' = [Idle EXCEPT !.kind = "deleted"]
  /\ m_sock' = "closed" /\ wire' = <<>> /\ peer' = [peer EXCEPT !.open = FALSE]
  /\ UNCHANGED <<m_connected, m_req_buf, m_res_buf, httpTimer, httpCalls>>

-----------------------------------------------------------------------------
(* get and post: send_recv.                                                *)

\* Nothing is left of earlier calls: not in the buffers, not on the way.
InStep ==
  /\ m_req_buf = 0 /\ m_res_buf = <<>> /\ wire = <<>>
  /\ peer.open /\ peer.next = call.sent + 1 /\ peer.left = 0

Request ==
  /\ op.kind = "none" /\ m_connected /\ call.n < MaxCalls
  /\ m_req_buf' = m_req_buf + 1
  /\ call' = [call EXCEPT !.n = @ + 1, !.inStep = InStep, !.head = NoHead]
  /\ Start("write", 0)
  /\ result' = NoResult
  /\ UNCHANGED <<m_sock, m_connected, m_res_buf, httpTimer, httpPeer, connects>>

Returns(kind, head, content) ==
  /\ result' = [n |-> call.n, kind |-> kind, head |-> head, content |-> content,
                ec |-> op.ec, inStep |-> call.inStep]
  /\ op' = Idle
Fails(kind) == Returns(kind, NoHead, <<>>)

\* async_read_until finds a head that is in the buffer without a read.
WriteReturns ==
  /\ Resumes("write")
  /\ IF op.ec = "ok"
       THEN /\ op' = [Idle EXCEPT !.kind = "head", !.queued = HasHead(m_res_buf)]
            /\ ArmTimer /\ UNCHANGED result
       ELSE Fails(op.ec) /\ UNCHANGED httpTimer
  /\ UNCHANGED <<httpBuffers, httpPeer, call, connects>>

\* getline takes the first line: what is before a head makes it no status line,
\* and the headers behind it stay, unless nothing but the line is there.
StatusLine == m_res_buf # <<>> /\ Head(m_res_buf).kind = "head"

InvalidResponse ==
  /\ ~StatusLine
  /\ LET after == SelectInSeq(m_res_buf, EndsHead) IN
       \/ after = 0 /\ m_res_buf' = <<>>
       \/ after > 0 /\ m_res_buf' = SubSeq(m_res_buf, after + 1, Len(m_res_buf))
       \/ after > 0 /\ m_res_buf' = [SubSeq(m_res_buf, after, Len(m_res_buf)) EXCEPT ![1].kind = "rest"]
  /\ CancelTimer /\ Fails("invalid") /\ UNCHANGED call

\* content_len - m_res_buf.size(), an unsigned difference.
ToRead(len, size) == IF len >= size THEN len - size ELSE len - size + SizeMax

\* The head is read: an invalid status, a redirect, no content, or the content,
\* which is in the buffer or has to be read with the timer armed again.
ValidResponse ==
  /\ StatusLine
  /\ LET head == Head(m_res_buf)
         buf  == Tail(m_res_buf) IN
       /\ m_res_buf' = buf
       /\ call' = [call EXCEPT !.head = head]
       /\ CASE head.status = "bad" -> CancelTimer /\ Fails("invalid")
            [] head.status = "redirect" -> CancelTimer /\ Returns("response", head, <<>>)
            [] head.status = "ok" /\ head.len = 0 -> CancelTimer /\ Returns("response", head, <<>>)
            [] head.status = "ok" /\ head.len > 0 /\ head.len = Len(buf) ->
                 CancelTimer /\ Returns("response", head, buf)
            [] OTHER -> Start("body", ToRead(head.len, Len(buf))) /\ ArmTimer /\ UNCHANGED result

HeadReturns ==
  /\ Resumes("head")
  /\ \/ /\ op.ec \in {"error", "aborted"}
        /\ CancelTimer /\ Fails(op.ec) /\ UNCHANGED <<call, m_res_buf>>
     \/ op.ec \in {"ok", "eof"} /\ (InvalidResponse \/ ValidResponse)
  /\ UNCHANGED <<m_sock, m_connected, m_req_buf, httpPeer, connects>>

\* All of the buffer is the content, and it stays in the buffer.
BodyReturns ==
  /\ Resumes("body")
  /\ CancelTimer
  /\ IF op.ec \in {"error", "aborted"} THEN Fails(op.ec)
     ELSE Returns("response", call.head, m_res_buf)
  /\ UNCHANGED <<httpBuffers, httpPeer, call, connects>>

-----------------------------------------------------------------------------
FiberStep ==
  \/ Suspend \/ ResolveReturns \/ ConnectReturns \/ WriteReturns \/ HeadReturns \/ BodyReturns

HttpNext ==
  \/ FiberStep \/ TimerExpires \/ TimeoutHandler
  \/ PeerSends \/ PeerCloses
  \/ ResolveCompletes \/ ConnectSome \/ WriteSome \/ ReadSome \/ Continues
  \/ Connect \/ Disconnect \/ Delete \/ Request

HttpSpec == HttpInit /\ [][HttpNext]_httpVars

\* Time passes, queued handlers and ready fibers run, and what has come in is
\* read.  The network and the server owe nothing.
HttpFairness ==
  /\ WF_httpVars(FiberStep) /\ WF_httpVars(TimerExpires) /\ WF_httpVars(TimeoutHandler)
  /\ WF_httpVars(Continues) /\ WF_httpVars(ReadSome)

-----------------------------------------------------------------------------
(* Properties.                                                             *)

\* An operation is cancelled by a deadline that has passed, never by a timer
\* that was cancelled in time: every cancel has its own expired wait.
\* (It may be the wait of an earlier operation, http_client.cpp:64.)
AbortsHaveExpiredTimers == late >= 0

\* A fiber that waits is always waiting for an operation that will wake it: it
\* never sleeps on one that has completed.
NoSleepAfterCompletion == op.completed_ => op.fiber # "suspended"

HttpInv == HttpTypeOK /\ AbortsHaveExpiredTimers /\ NoSleepAfterCompletion

\* A call that begins with nothing left of earlier calls returns the response to
\* its own request, with all of its content unless the connection ended.
ResponseBelongsToRequest ==
  result.kind = "response" /\ result.inStep =>
    /\ result.head.n = result.n
    /\ \A i \in DOMAIN result.content : result.content[i].n = result.n
    /\ result.head.status = "ok" /\ result.ec = "ok" => Len(result.content) = result.head.len

\* The operation is in progress and nothing will cancel it any more.
NoDeadline ==
  /\ Pending({"connect", "head", "body"})
  /\ ~armed /\ \A i \in DOMAIN handlers : handlers[i] # "expired"

\* connect and the reads begin with a deadline: they end, whatever the server does,
\* or they go on without one.
DeadlinesEndCalls ==
  op.kind \in {"connect", "head", "body"} ~> op.kind \notin {"connect", "head", "body"} \/ NoDeadline

\* The two ways to go on without a deadline (http_client.cpp:63, :129 and :174):
\* the next endpoint of a host after one that failed or was cancelled, and a read
\* whose cancel fell between two operations on the socket.  A deadline that passes
\* while one is in progress ends a read for good.
DeadlinesLostBetween ==
  [][~NoDeadline /\ NoDeadline' =>
       /\ op.queued
       /\ IF op.kind = "connect" THEN op.ec # "ok" ELSE op.ec = "ok"]_httpVars

\* A read of a connection that was closed ends, with a deadline or without.
ClosedConnectionsEndCalls ==
  op.kind \in {"head", "body"} /\ ~peer.open ~> op.kind \notin {"head", "body"}

=============================================================================
