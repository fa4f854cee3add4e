----------------------------- MODULE Http2Client ----------------------------
(***************************************************************************)
(* One http2_client object and the fiber that uses it.  connect and get    *)
(* put a promise on the fiber's stack, hand references to it to the        *)
(* callbacks of the session (libnghttp2) and wait for its future.  The     *)
(* callbacks run on the io service between the steps of the fiber.         *)
(*                                                                         *)
(* A promise that is set twice throws out of the io service, submit on a   *)
(* session that has failed returns no request: both end the process, and   *)
(* `crashed` says so.                                                      *)
(***************************************************************************)
EXTENDS Naturals, Sequences

CONSTANTS
  MaxGets,      \* bound on the calls of connect and get
  MaxPieces     \* bound on the data callbacks of a response

ASSUME Http2Assumption == MaxGets \in Nat /\ MaxPieces \in Nat

VARIABLES
  connected,    \* m_connected
  session,      \* m_session: "none", "connecting", "open" or "failed"
  fiber,        \* where the fiber is: [in, call], [in |-> "lua"] between calls
  promise,      \* the promise of the call: "none", "unset", "ok" or "error"
  onError,      \* the call whose promise the error handler refers to, 0 for none
  stream,       \* the response to the call: [call, left, done]
  content,      \* content_strm of the call: the calls its pieces belong to
  got,          \* what get returned last: [call, pieces, whole]
  crashed

http2Vars == <<connected, session, fiber, promise, onError, stream, content, got, crashed>>

NoStream == [call |-> 0, left |-> 0, done |-> TRUE]

Http2Init ==
  /\ connected = FALSE /\ session = "none"
  /\ fiber = [in |-> "lua", call |-> 0] /\ promise = "none" /\ onError = 0
  /\ stream = NoStream /\ content = <<>>
  /\ got = [call |-> 0, pieces |-> <<>>, whole |-> TRUE]
  /\ crashed = FALSE

Http2TypeOK ==
  /\ connected \in BOOLEAN /\ crashed \in BOOLEAN
  /\ session \in {"none", "connecting", "open", "failed"}
  /\ fiber \in [in : {"lua", "connect", "get"}, call : 0 .. MaxGets]
  /\ promise \in {"none", "unset", "ok", "error"} /\ onError \in 0 .. MaxGets
  /\ stream.left \in 0 .. MaxPieces /\ content \in Seq(1 .. MaxGets)

-----------------------------------------------------------------------------
Begin(in) ==
  /\ fiber.in = "lua" /\ fiber.call < MaxGets /\ ~crashed
  /\ fiber' = [in |-> in, call |-> fiber.call + 1]
  /\ promise' = "unset" /\ onError' = fiber.call + 1

\* connect: a new session replaces the old one; its callbacks get the promise.
Http2Connect ==
  /\ Begin("connect")
  /\ session' = "connecting" /\ stream' = NoStream
  /\ UNCHANGED <<connected, content, got, crashed>>

\* get: submit fails when the session has failed, and its result is not checked.
Get ==
  /\ connected /\ Begin("get")
  /\ content' = <<>>
  /\ IF session = "open"
       THEN /\ \E n \in 0 .. MaxPieces : stream' = [call |-> fiber'.call, left |-> n, done |-> FALSE]
            /\ UNCHANGED crashed
       ELSE crashed' = TRUE /\ UNCHANGED stream
  /\ UNCHANGED <<connected, session, got>>

\* set_value on the promise of call; a promise of an ended call is gone, which
\* may go unnoticed.
SetValue(call, value) ==
  IF fiber.in # "lua" /\ fiber.call = call /\ promise # "unset"
    THEN crashed' = TRUE /\ UNCHANGED promise
    ELSE /\ promise' = IF fiber.in # "lua" /\ fiber.call = call THEN value ELSE promise
         /\ UNCHANGED crashed

OnConnect ==
  /\ session = "connecting" /\ ~crashed
  /\ session' = "open"
  /\ SetValue(onError, "ok")
  /\ UNCHANGED <<connected, fiber, onError, stream, content, got>>

\* An error or the read timeout of the session: it is closed, once.
OnError ==
  /\ session \in {"connecting", "open"} /\ ~crashed
  /\ session' = "failed" /\ stream' = NoStream
  /\ IF onError = 0 THEN UNCHANGED <<promise, crashed>> ELSE SetValue(onError, "error")
  /\ UNCHANGED <<connected, fiber, onError, content, got>>

\* on_data with a piece of the content
OnPiece ==
  /\ session = "open" /\ stream.left > 0 /\ ~crashed
  /\ stream' = [stream EXCEPT !.left = @ - 1]
  /\ content' = IF fiber.in = "get" /\ fiber.call = stream.call
                  THEN Append(content, stream.call) ELSE content
  /\ UNCHANGED <<connected, session, fiber, promise, onError, got, crashed>>

\* on_data with length 0
LastPiece == ~stream.done /\ stream.left = 0

OnEnd ==
  /\ session = "open" /\ LastPiece /\ ~crashed
  /\ stream' = [stream EXCEPT !.done = TRUE]
  /\ SetValue(stream.call, "ok")
  /\ UNCHANGED <<connected, session, fiber, onError, content, got>>

\* Slip: the error handler stays after a call that went well.
BadHandlerAfter == onError

\* A call that went well takes its error handler away; luaL_error leaves it.
HandlerAfter == IF promise = "ok" THEN 0 ELSE onError

\* future.get() returns.
Return ==
  /\ fiber.in # "lua" /\ promise \in {"ok", "error"} /\ ~crashed
  /\ connected' = (connected \/ (fiber.in = "connect" /\ promise = "ok"))
  /\ got' = IF fiber.in = "get" /\ promise = "ok"
              THEN [call |-> fiber.call, pieces |-> content, whole |-> stream.left = 0] ELSE got
  /\ onError' = HandlerAfter
  /\ fiber' = [fiber EXCEPT !.in = "lua"] /\ promise' = "none"
  /\ UNCHANGED <<session, stream, content, crashed>>

\* disconnect: close.
Http2Disconnect ==
  /\ fiber.in = "lua" /\ connected /\ ~crashed
  /\ connected' = FALSE /\ session' = "none" /\ stream' = NoStream
  /\ UNCHANGED <<fiber, promise, onError, content, got, crashed>>

Http2Next == Http2Connect \/ Get \/ OnConnect \/ OnError \/ OnPiece \/ OnEnd \/ Return \/ Http2Disconnect

Http2Spec == Http2Init /\ [][Http2Next]_http2Vars

\* The session has a read timeout: it ends one way or the other.  The fiber
\* runs when its future is ready.
Http2Fairness == WF_http2Vars(OnError) /\ WF_http2Vars(Return)

-----------------------------------------------------------------------------
\* get returns all of the content of its own response and of no other.
ContentIsWhole == got.whole /\ \A i \in DOMAIN got.pieces : got.pieces[i] = got.call

\* Between two calls no callback of a working session refers to a promise that
\* is gone; only an error leaves one behind, and its session is over then.
NoDanglingPromise ==
  fiber.in = "lua" /\ onError # 0 /\ ~crashed => session \in {"failed", "none"}

\* The process ends only after an error of the session: a call on a session that
\* works never sets its promise twice and always gets its request.
CrashNeedsFailedSession == crashed => session = "failed"

Http2Inv == Http2TypeOK /\ ContentIsWhole /\ NoDanglingPromise /\ CrashNeedsFailedSession

\* connect and get come back, or the process ends.
CallsEnd == fiber.in # "lua" ~> fiber.in = "lua" \/ crashed

=============================================================================
