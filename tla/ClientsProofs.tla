---------------------------- MODULE ClientsProofs ---------------------------
(***************************************************************************)
(* Proofs about the clients of the Lua libraries and the DNS cache they    *)
(* use, for any number of calls, pieces, fibers, times and addresses: the  *)
(* http2_client's promise, the http_client's timer and buffers, and the    *)
(* freshness of cached answers.                                            *)
(***************************************************************************)
EXTENDS HttpClient, Http2Client, ResolverCache, SequenceTheorems, FiniteSetTheorems, TLAPS

-----------------------------------------------------------------------------
(* http2_client.  What is true while a call waits for its promise.         *)

\* A session that connects has its call waiting for it.
ConnectingInv ==
  session = "connecting" /\ ~crashed =>
    fiber.in = "connect" /\ promise = "unset" /\ onError = fiber.call

\* A call has a session, and an error in its promise comes from a failed one.
SessionInv ==
  /\ fiber.in # "lua" \/ connected => session # "none"
  /\ promise = "error" => session = "failed"
  /\ fiber.in # "lua" <=> promise # "none"
  /\ fiber.in # "lua" => fiber.call >= 1

\* A response that comes in has its call waiting for the end of it; what the
\* call collected is its own.
StreamInv ==
  /\ stream \in [call : 0 .. MaxGets, left : 0 .. MaxPieces, done : BOOLEAN]
  /\ ~stream.done /\ fiber.in # "lua" /\ ~crashed => fiber.in = "get" /\ promise = "unset"
  /\ fiber.in = "get" /\ promise = "ok" => stream.left = 0
  /\ fiber.in = "get" => \A i \in DOMAIN content : content[i] = fiber.call

CallInv == Http2Inv /\ ConnectingInv /\ SessionInv /\ StreamInv

\* One promise is set once while its call waits.
LEMMA SetOnce ==
  ASSUME NEW n, NEW value, SetValue(n, value),
         fiber.in # "lua" /\ fiber.call = n => promise = "unset"
  PROVE  /\ UNCHANGED crashed
         /\ fiber.in # "lua" /\ fiber.call = n => promise' = value
         /\ fiber.in = "lua" \/ fiber.call # n => promise' = promise
BY DEF SetValue

LEMMA Http2AtStart == ASSUME Http2Init PROVE CallInv
<1> USE Http2Assumption
<1>1. Http2TypeOK
  <2>1. <<>> \in Seq(1 .. MaxGets)
    OBVIOUS
  <2>2. /\ 0 \in 0 .. MaxGets /\ 0 \in 0 .. MaxPieces
        /\ fiber \in [in : {"lua", "connect", "get"}, call : 0 .. MaxGets]
    BY DEF Http2Init
  <2> QED
    BY <2>1, <2>2 DEF Http2Init, Http2TypeOK, NoStream
<1>2. StreamInv
  BY DEF Http2Init, StreamInv, NoStream
<1>3. ContentIsWhole
  BY DEF Http2Init, ContentIsWhole
<1> QED
  BY <1>1, <1>2, <1>3 DEF Http2Init, CallInv, Http2Inv, NoDanglingPromise, CrashNeedsFailedSession,
     ConnectingInv, SessionInv

LEMMA Http2Step == ASSUME CallInv, [Http2Next]_http2Vars PROVE CallInv'
<1> USE Http2Assumption
<1> USE DEF CallInv, Http2Inv
<1>0. NoStream \in [call : 0 .. MaxGets, left : 0 .. MaxPieces, done : BOOLEAN] /\ NoStream.done /\ NoStream.left = 0
  BY DEF NoStream
<1>1. ASSUME NEW in \in {"connect", "get"}, Begin(in)
      PROVE  /\ fiber'.in = in /\ fiber'.call = fiber.call + 1 /\ fiber'.call \in 1 .. MaxGets
             /\ fiber' \in [in : {"lua", "connect", "get"}, call : 0 .. MaxGets]
             /\ promise' = "unset" /\ onError' = fiber'.call /\ ~crashed /\ session # "connecting"
  BY <1>1 DEF Begin, Http2TypeOK, ConnectingInv
<1>2. CASE Http2Connect
  <2>1. /\ fiber'.in = "connect" /\ fiber'.call \in 1 .. MaxGets
        /\ fiber' \in [in : {"lua", "connect", "get"}, call : 0 .. MaxGets]
        /\ promise' = "unset" /\ onError' = fiber'.call /\ ~crashed
        /\ session' = "connecting" /\ stream' = NoStream /\ UNCHANGED <<connected, content, got, crashed>>
    BY <1>1, <1>2 DEF Http2Connect
  <2>2. Http2TypeOK'
    BY <1>0, <2>1 DEF Http2TypeOK
  <2> QED
    BY <1>0, <2>1, <2>2 DEF ContentIsWhole, NoDanglingPromise, CrashNeedsFailedSession, ConnectingInv, SessionInv,
       StreamInv
<1>3. CASE Get
  <2>1. /\ fiber'.in = "get" /\ fiber'.call \in 1 .. MaxGets
        /\ fiber' \in [in : {"lua", "connect", "get"}, call : 0 .. MaxGets]
        /\ promise' = "unset" /\ onError' = fiber'.call /\ ~crashed /\ session # "connecting"
        /\ content' = <<>> /\ UNCHANGED <<connected, session, got>>
    BY <1>1, <1>3 DEF Get
  <2>2. session \in {"open", "failed"}
    BY <1>3, <2>1 DEF Get, SessionInv, Http2TypeOK
  <2>3. stream' \in [call : 0 .. MaxGets, left : 0 .. MaxPieces, done : BOOLEAN]
    <3>1. CASE session = "open"
      <4>1. PICK n \in 0 .. MaxPieces : stream' = [call |-> fiber'.call, left |-> n, done |-> FALSE]
        BY <1>3, <3>1 DEF Get
      <4>2. fiber'.call \in 0 .. MaxGets
        BY <2>1
      <4> QED
        BY <4>1, <4>2
    <3>2. CASE session # "open"
      BY <1>3, <3>2 DEF Get, StreamInv
    <3> QED
      BY <3>1, <3>2
  <2>4. crashed' \in BOOLEAN /\ (crashed' => session = "failed")
    BY <1>3, <2>1, <2>2 DEF Get, Http2TypeOK
  <2>5. Http2TypeOK'
    BY <2>1, <2>3, <2>4 DEF Http2TypeOK
  <2>6. ContentIsWhole' /\ NoDanglingPromise' /\ CrashNeedsFailedSession' /\ ConnectingInv'
    BY <2>1, <2>4 DEF ContentIsWhole, NoDanglingPromise, CrashNeedsFailedSession, ConnectingInv
  <2>7. SessionInv'
    BY <2>1, <2>2 DEF SessionInv
  <2>8. StreamInv'
    BY <2>1, <2>3 DEF StreamInv
  <2> QED
    BY <2>5, <2>6, <2>7, <2>8
<1>4. CASE OnConnect
  <2>1. /\ ~crashed /\ fiber.in = "connect" /\ promise = "unset" /\ onError = fiber.call
        /\ session' = "open" /\ UNCHANGED <<connected, fiber, onError, stream, content, got>>
        /\ SetValue(onError, "ok")
    BY <1>4 DEF OnConnect, ConnectingInv
  <2>2. promise' = "ok" /\ UNCHANGED crashed
    BY <2>1, SetOnce
  <2>3. stream.done
    BY <2>1 DEF StreamInv
  <2> QED
    BY <2>1, <2>2, <2>3 DEF Http2TypeOK, ContentIsWhole, NoDanglingPromise, CrashNeedsFailedSession, ConnectingInv,
       SessionInv, StreamInv
<1>5. CASE OnError
  <2>1. /\ ~crashed /\ session' = "failed" /\ stream' = NoStream
        /\ UNCHANGED <<connected, fiber, onError, content, got>>
    BY <1>5 DEF OnError
  <2>2. crashed' \in BOOLEAN /\ promise' \in {promise, "error"} /\ (promise = "none" => promise' = "none")
    BY <1>5, <2>1 DEF OnError, SetValue, Http2TypeOK, SessionInv
  <2>3. Http2TypeOK'
    BY <1>0, <2>1, <2>2 DEF Http2TypeOK
  <2>4. ContentIsWhole' /\ NoDanglingPromise' /\ CrashNeedsFailedSession' /\ ConnectingInv'
    BY <2>1 DEF ContentIsWhole, NoDanglingPromise, CrashNeedsFailedSession, ConnectingInv
  <2>5. SessionInv'
    BY <2>1, <2>2 DEF SessionInv
  <2>6. StreamInv'
    BY <1>0, <2>1 DEF StreamInv
  <2> QED
    BY <2>3, <2>4, <2>5, <2>6
<1>6. CASE OnPiece
  <2>1. /\ ~crashed /\ stream.left > 0 /\ stream' = [stream EXCEPT !.left = @ - 1]
        /\ UNCHANGED <<connected, session, fiber, promise, onError, got, crashed>>
    BY <1>6 DEF OnPiece
  <2>2. /\ stream' \in [call : 0 .. MaxGets, left : 0 .. MaxPieces, done : BOOLEAN]
        /\ stream'.done = stream.done /\ stream'.left = stream.left - 1
    BY <2>1 DEF StreamInv
  <2>3. /\ content' \in Seq(1 .. MaxGets)
        /\ fiber.in = "get" => \A i \in DOMAIN content' : content'[i] = fiber.call
    <3>1. CASE fiber.in = "get" /\ fiber.call = stream.call
      <4>1. content' = Append(content, fiber.call) /\ fiber.call \in 1 .. MaxGets /\ content \in Seq(1 .. MaxGets)
        BY <1>6, <3>1 DEF OnPiece, SessionInv, Http2TypeOK
      <4>2. \A i \in DOMAIN content : content[i] = fiber.call
        BY <3>1 DEF StreamInv
      <4> QED
        BY <4>1, <4>2
    <3>2. CASE ~(fiber.in = "get" /\ fiber.call = stream.call)
      BY <1>6, <3>2 DEF OnPiece, Http2TypeOK, StreamInv
    <3> QED
      BY <3>1, <3>2
  <2>4. Http2TypeOK'
    BY <2>1, <2>2, <2>3 DEF Http2TypeOK
  <2>5. ContentIsWhole' /\ NoDanglingPromise' /\ CrashNeedsFailedSession' /\ ConnectingInv' /\ SessionInv'
    BY <2>1 DEF ContentIsWhole, NoDanglingPromise, CrashNeedsFailedSession, ConnectingInv, SessionInv
  <2>6. StreamInv'
    BY <2>1, <2>2, <2>3 DEF StreamInv
  <2> QED
    BY <2>4, <2>5, <2>6
<1>7. CASE OnEnd
  <2>1. /\ ~crashed /\ session = "open" /\ ~stream.done /\ stream.left = 0
        /\ stream' = [stream EXCEPT !.done = TRUE] /\ SetValue(stream.call, "ok")
        /\ UNCHANGED <<connected, session, fiber, onError, content, got>>
    BY <1>7 DEF OnEnd, LastPiece
  <2>2. fiber.in # "lua" => fiber.in = "get" /\ promise = "unset"
    BY <2>1 DEF StreamInv
  <2>3. /\ UNCHANGED crashed /\ promise' \in {promise, "ok"}
        /\ fiber.in = "lua" => promise' = promise
    BY <2>1, <2>2, SetOnce
  <2>4. /\ stream' \in [call : 0 .. MaxGets, left : 0 .. MaxPieces, done : BOOLEAN]
        /\ stream'.done /\ stream'.left = 0
    BY <2>1 DEF StreamInv
  <2>5. Http2TypeOK'
    BY <2>1, <2>3, <2>4 DEF Http2TypeOK
  <2>6. ContentIsWhole' /\ NoDanglingPromise' /\ CrashNeedsFailedSession' /\ ConnectingInv' /\ SessionInv'
    BY <2>1, <2>2, <2>3 DEF ContentIsWhole, NoDanglingPromise, CrashNeedsFailedSession, ConnectingInv, SessionInv
  <2>7. StreamInv'
    BY <2>1, <2>4 DEF StreamInv
  <2> QED
    BY <2>5, <2>6, <2>7
<1>8. CASE Return
  <2>1. /\ ~crashed /\ fiber.in # "lua" /\ promise \in {"ok", "error"}
        /\ fiber' = [fiber EXCEPT !.in = "lua"] /\ promise' = "none"
        /\ onError' = IF promise = "ok" THEN 0 ELSE onError
        /\ UNCHANGED <<session, stream, content, crashed>>
    BY <1>8 DEF Return, HandlerAfter
  <2>2. fiber'.in = "lua" /\ fiber' \in [in : {"lua", "connect", "get"}, call : 0 .. MaxGets]
    BY <2>1 DEF Http2TypeOK
  <2>3. connected' \in BOOLEAN /\ session # "none"
    BY <1>8, <2>1 DEF Return, Http2TypeOK, SessionInv
  <2>4. Http2TypeOK'
    BY <2>1, <2>2, <2>3 DEF Http2TypeOK
  <2>5. ContentIsWhole'
    <3>1. CASE fiber.in = "get" /\ promise = "ok"
      <4>1. got' = [call |-> fiber.call, pieces |-> content, whole |-> TRUE]
        BY <1>8, <3>1 DEF Return, StreamInv
      <4> QED
        BY <3>1, <4>1 DEF ContentIsWhole, StreamInv
    <3>2. CASE ~(fiber.in = "get" /\ promise = "ok")
      BY <1>8, <3>2 DEF Return, ContentIsWhole
    <3> QED
      BY <3>1, <3>2
  <2>6. NoDanglingPromise' /\ CrashNeedsFailedSession' /\ ConnectingInv'
    BY <2>1 DEF NoDanglingPromise, CrashNeedsFailedSession, ConnectingInv, SessionInv
  <2>7. SessionInv'
    BY <2>1, <2>2, <2>3 DEF SessionInv
  <2>8. StreamInv'
    BY <2>1, <2>2 DEF StreamInv
  <2> QED
    BY <2>4, <2>5, <2>6, <2>7, <2>8
<1>9. CASE Http2Disconnect
  BY <1>0, <1>9 DEF Http2Disconnect, Http2TypeOK, ContentIsWhole, NoDanglingPromise, CrashNeedsFailedSession,
     ConnectingInv, SessionInv, StreamInv
<1>10. CASE UNCHANGED http2Vars
  BY <1>10 DEF http2Vars, Http2TypeOK, ContentIsWhole, NoDanglingPromise, CrashNeedsFailedSession, ConnectingInv,
     SessionInv, StreamInv
<1> QED
  BY <1>2, <1>3, <1>4, <1>5, <1>6, <1>7, <1>8, <1>9, <1>10 DEF Http2Next

\* Whatever order the callbacks come in: get returns the whole content of its own
\* response, an error handler that is left behind belongs to a session that is
\* over, and only a call on a failed session can end the process.
THEOREM Http2CallsAreSafe == Http2Spec => []Http2Inv
<1>1. Http2Init => CallInv
  BY Http2AtStart
<1>2. CallInv /\ [Http2Next]_http2Vars => CallInv'
  BY Http2Step
<1>3. CallInv => Http2Inv
  BY DEF CallInv
<1> QED
  BY <1>1, <1>2, <1>3, PTL DEF Http2Spec

-----------------------------------------------------------------------------
(* http_client.  The timer, the buffers, and what of a response is where.  *)

CallRecord == [n : 0 .. MaxCalls, sent : 0 .. MaxCalls, inStep : BOOLEAN, head : Piece \cup {NoHead}]

\* Every expired handler in the queue has its wait among the late ones.
ExpiredIn(q) == {i \in DOMAIN q : q[i] = "expired"}
TimerInv == Cardinality(ExpiredIn(handlers)) <= late

\* Every call wrote its request or left it in m_req_buf, and the server answers
\* what was written.
SentInv ==
  /\ call \in CallRecord
  /\ call.sent + m_req_buf = call.n
  /\ peer.next <= call.sent + 1
  /\ peer.left > 0 => peer.next > 1

\* What was received and not consumed, and what is on the way.
Incoming == m_res_buf \o wire

OwnBody(p) == p.n = call.n /\ p.kind = "body"

\* For a call in step: until its response begins nothing comes in, ...
NothingYet == Incoming = <<>> /\ peer.next = call.n /\ peer.left = 0

\* ... then the head, and as many pieces as it says are here or to come, ...
HeadFirst ==
  /\ Incoming # <<>> /\ peer.next = call.n + 1
  /\ Incoming[1].n = call.n /\ Incoming[1].kind = "head"
  /\ \A i \in 2 .. Len(Incoming) : OwnBody(Incoming[i])
  /\ Len(Incoming) - 1 + peer.left = Incoming[1].len

\* ... and with the head consumed the pieces alone.
BodyOnly ==
  /\ peer.next = call.n + 1 /\ call.head.n = call.n
  /\ \A i \in 1 .. Len(Incoming) : OwnBody(Incoming[i])
  /\ Len(Incoming) + peer.left = call.head.len
  /\ op.left = call.head.len - Len(m_res_buf)
  /\ op.completed_ /\ op.ec = "ok" => op.left <= 0

InStepInv ==
  call.inStep =>
    /\ op.kind \in {"write", "head"} => NothingYet \/ HeadFirst
    /\ op.kind = "body" => BodyOnly

HttpCallInv == HttpInv /\ TimerInv /\ SentInv /\ InStepInv /\ ResponseBelongsToRequest

-----------------------------------------------------------------------------
(* Sequences of pieces and of handlers.                                    *)

\* What is in the buffer and on the way, for any buffer q and wire w.
Joined(q, w) == q \o w

LEMMA ReadSplits ==
  ASSUME NEW S, NEW q \in Seq(S), NEW w \in Seq(S), NEW k \in 0 .. Len(w)
  PROVE  /\ q \o SubSeq(w, 1, k) \in Seq(S) /\ SubSeq(w, k + 1, Len(w)) \in Seq(S)
         /\ Joined(Joined(q, SubSeq(w, 1, k)), SubSeq(w, k + 1, Len(w))) = Joined(q, w)
<1>0. PICK rest : rest = SubSeq(w, k + 1, Len(w))
  OBVIOUS
<1>1. PICK a : a = SubSeq(w, 1, k)
  OBVIOUS
<1>2. a \in Seq(S) /\ rest \in Seq(S)
  BY <1>0, <1>1, SubSeqProperties
<1>3. a \o rest = w
  <2>1. 1 \in 1 .. Len(w) + 1 /\ k \in 1 - 1 .. Len(w) /\ Len(w) \in k .. Len(w)
    OBVIOUS
  <2>2. SubSeq(w, 1, k) \o SubSeq(w, k + 1, Len(w)) = SubSeq(w, 1, Len(w)) /\ SubSeq(w, 1, Len(w)) = w
    BY <2>1, ConcatAdjacentSubSeq, SubSeqFull
  <2> QED
    BY <1>0, <1>1, <2>2
<1>4. (q \o a) \o rest = q \o (a \o rest)
  <2>1. q \in Seq(S) /\ a \in Seq(S) /\ rest \in Seq(S)
    BY <1>2
  <2> QED
    BY ONLY <2>1, ConcatAssociative
<1>5. q \o a \in Seq(S)
  BY <1>2, ConcatProperties
<1>6. Joined(Joined(q, a), rest) = Joined(q, w)
  BY <1>3, <1>4 DEF Joined
<1> QED
  BY <1>0, <1>1, <1>2, <1>5, <1>6

LEMMA TailAndMore ==
  ASSUME NEW S, NEW q \in Seq(S), NEW w \in Seq(S), q # <<>>
  PROVE  /\ q \o w \in Seq(S) /\ Tail(q) \o w \in Seq(S)
         /\ (q \o w)[1] = Head(q) /\ Len(q \o w) = Len(Tail(q) \o w) + 1
         /\ \A i \in 1 .. Len(Tail(q) \o w) : (Tail(q) \o w)[i] = (q \o w)[i + 1]
<1>1. Len(q) \in Nat \ {0} /\ Len(w) \in Nat /\ q \o w \in Seq(S) /\ Head(q) = q[1]
  OBVIOUS
<1>2. Tail(q) \in Seq(S) /\ Len(Tail(q)) = Len(q) - 1 /\ \A i \in 1 .. Len(q) - 1 : Tail(q)[i] = q[i + 1]
  OBVIOUS
<1> QED
  BY <1>1, <1>2

LEMMA ExpiredAfterAppend ==
  ASSUME NEW q \in Seq({"expired", "aborted"})
  PROVE  /\ IsFiniteSet(ExpiredIn(q)) /\ Cardinality(ExpiredIn(q)) \in Nat
         /\ Cardinality(ExpiredIn(Append(q, "aborted"))) = Cardinality(ExpiredIn(q))
         /\ Cardinality(ExpiredIn(Append(q, "expired"))) = Cardinality(ExpiredIn(q)) + 1
<1>1. IsFiniteSet(ExpiredIn(q))
  <2>1. IsFiniteSet(1 .. Len(q))
    BY FS_Interval
  <2>2. ExpiredIn(q) \subseteq 1 .. Len(q)
    BY DEF ExpiredIn
  <2> QED
    BY <2>1, <2>2, FS_Subset
<1>2. ExpiredIn(Append(q, "aborted")) = ExpiredIn(q)
  BY DEF ExpiredIn
<1>3. ExpiredIn(Append(q, "expired")) = ExpiredIn(q) \cup {Len(q) + 1}
  BY DEF ExpiredIn
<1>4. Len(q) + 1 \notin ExpiredIn(q)
  BY DEF ExpiredIn
<1> QED
  BY <1>1, <1>2, <1>3, <1>4, FS_AddElement, FS_CardinalityType

LEMMA ExpiredAfterTail ==
  ASSUME NEW q \in Seq({"expired", "aborted"}), q # <<>>
  PROVE  Cardinality(ExpiredIn(q)) = Cardinality(ExpiredIn(Tail(q))) + (IF Head(q) = "expired" THEN 1 ELSE 0)
<1> DEFINE S == ExpiredIn(Tail(q))
           T == ExpiredIn(q) \ {1}
           f == [i \in S |-> i + 1]
<1>1. /\ Len(q) \in Nat \ {0} /\ Tail(q) \in Seq({"expired", "aborted"}) /\ Len(Tail(q)) = Len(q) - 1
      /\ \A i \in 1 .. Len(q) - 1 : Tail(q)[i] = q[i + 1]
  OBVIOUS
<1>2. S \subseteq 1 .. Len(q) - 1 /\ T \subseteq 2 .. Len(q)
  BY <1>1 DEF ExpiredIn
<1>3. f \in Bijection(S, T)
  <2>1. \A i \in S : i + 1 \in T
    BY <1>1, <1>2 DEF ExpiredIn
  <2>2. \A i, j \in S : i + 1 = j + 1 => i = j
    BY <1>2
  <2>3. \A j \in T : j - 1 \in S /\ (j - 1) + 1 = j
    BY <1>1, <1>2 DEF ExpiredIn
  <2> HIDE DEF S, T
  <2>4. f \in Injection(S, T)
    <3>1. f \in [S -> T]
      BY <2>1
    <3>2. ASSUME NEW i \in S, NEW j \in S, f[i] = f[j] PROVE i = j
      BY <2>2, <3>2
    <3> QED
      BY <3>1, <3>2 DEF Injection, IsInjective
  <2>5. f \in Surjection(S, T)
    BY <2>1, <2>3 DEF Surjection
  <2> QED
    BY <2>4, <2>5 DEF Bijection
<1>4. IsFiniteSet(S) /\ Cardinality(T) = Cardinality(S) /\ Cardinality(S) \in Nat
  <2>1. IsFiniteSet(S)
    BY <1>1, ExpiredAfterAppend
  <2>2. ExistsBijection(S, T)
    BY <1>3 DEF ExistsBijection
  <2> QED
    BY <2>1, <2>2, FS_Bijection, FS_CardinalityType
<1>5. IsFiniteSet(ExpiredIn(q)) /\ Cardinality(ExpiredIn(q)) \in Nat
  BY ExpiredAfterAppend
<1>6. Cardinality(T) = IF 1 \in ExpiredIn(q) THEN Cardinality(ExpiredIn(q)) - 1 ELSE Cardinality(ExpiredIn(q))
  BY <1>5, FS_RemoveElement
<1>7. 1 \in ExpiredIn(q) <=> Head(q) = "expired"
  BY <1>1 DEF ExpiredIn
<1> QED
  BY <1>4, <1>5, <1>6, <1>7

\* SelectInSeq gives an index, or 0 when there is none.
LEMMA SelectedIsIndex ==
  ASSUME NEW q \in Seq(Piece)
  PROVE  SelectInSeq(q, EndsHead) \in 0 .. Len(q)
<1> DEFINE I == {i \in 1 .. Len(q) : EndsHead(q[i])}
<1>1. CASE I = {}
  BY <1>1 DEF SelectInSeq
<1>2. CASE I # {}
  <2> DEFINE R == OpToRel(<, Nat)
  <2>1. IsWellFoundedOn(R, Nat)
    BY NatLessThanWellFounded
  <2>2. \A x, y \in Nat : <<y, x>> \in R <=> y < x
    BY DEF OpToRel
  <2>3. I \subseteq Nat
    OBVIOUS
  <2> HIDE DEF R, I
  <2>4. PICK x \in I : \A y \in I : ~ (<<y, x>> \in R)
    BY <1>2, <2>1, <2>3, WFMin
  <2>5. ASSUME NEW y \in I PROVE x <= y
    <3>1. x \in Nat /\ y \in Nat
      BY <2>3
    <3>2. ~ (y < x)
      BY <2>2, <2>4, <3>1
    <3> QED
      BY <3>1, <3>2
  <2>6. Min(I) \in I
    BY <2>4, <2>5 DEF Min
  <2>7. Min(I) \in 1 .. Len(q)
    BY <2>6 DEF I
  <2> QED
    BY <1>2, <2>7 DEF SelectInSeq, I
<1> QED
  BY <1>1, <1>2

-----------------------------------------------------------------------------
(* The steps of a call.                                                    *)

LEMMA HttpAtStart == ASSUME HttpInit PROVE HttpCallInv
<1> USE HttpAssumption
<1>1. <<>> \in Seq(Piece) /\ <<>> \in Seq({"expired", "aborted"})
  OBVIOUS
<1>2. HttpTypeOK
  <2>1. Idle \in Operations
    BY DEF Idle, Operations
  <2>2. /\ 0 \in 0 .. MaxCalls /\ 0 \in 0 .. MaxConnects /\ 0 \in 0 .. MaxLen /\ 1 \in 1 .. MaxCalls + 1
        /\ peer \in [open : BOOLEAN, next : 1 .. MaxCalls + 1, left : 0 .. MaxLen]
    BY DEF HttpInit
  <2> QED
    BY <1>1, <2>1, <2>2 DEF HttpInit, HttpTypeOK, Operations
<1>3. NoSleepAfterCompletion /\ AbortsHaveExpiredTimers
  BY DEF HttpInit, NoSleepAfterCompletion, AbortsHaveExpiredTimers, Idle
<1>4. SentInv
  BY DEF HttpInit, SentInv, CallRecord
<1>5. TimerInv
  <2>1. ExpiredIn(handlers) = {}
    BY DEF HttpInit, ExpiredIn
  <2>2. Cardinality({}) = 0
    BY FS_EmptySet, Zenon
  <2>3. Cardinality(ExpiredIn(handlers)) = 0
    BY <2>1, <2>2, Zenon
  <2> QED
    BY <2>3 DEF TimerInv, HttpInit
<1>6. InStepInv /\ ResponseBelongsToRequest
  BY DEF HttpInit, InStepInv, ResponseBelongsToRequest, NoResult
<1> QED
  BY <1>2, <1>3, <1>4, <1>5, <1>6 DEF HttpCallInv, HttpInv

Kinds == {"none", "resolve", "connect", "write", "head", "body", "deleted", "terminated"}
Outcomes == {"ok", "eof", "error", "aborted"}

LEMMA OperationAfter ==
  ASSUME op \in Operations
  PROVE  /\ Idle \in Operations /\ Idle.kind = "none" /\ ~Idle.completed_
         /\ \A ec \in Outcomes :
              /\ Completed(ec) \in Operations /\ Completed(ec).kind = op.kind
              /\ Completed(ec).completed_ /\ Completed(ec).ec = ec /\ Completed(ec).fiber # "suspended"
              /\ Completed(ec).left = op.left
         /\ \A ec \in Outcomes :
              /\ Queued(ec) \in Operations /\ Queued(ec).kind = op.kind
              /\ Queued(ec).completed_ = op.completed_ /\ Queued(ec).fiber = op.fiber
              /\ Queued(ec).ec = ec /\ Queued(ec).left = op.left
<1>1. Idle \in Operations /\ Idle.kind = "none" /\ ~Idle.completed_
  BY DEF Operations, Idle
<1>2. ASSUME NEW ec \in Outcomes
      PROVE  /\ Completed(ec) \in Operations /\ Completed(ec).kind = op.kind
             /\ Completed(ec).completed_ /\ Completed(ec).ec = ec /\ Completed(ec).fiber # "suspended"
             /\ Completed(ec).left = op.left
  BY DEF Operations, Completed, Outcomes
<1>3. ASSUME NEW ec \in Outcomes
      PROVE  /\ Queued(ec) \in Operations /\ Queued(ec).kind = op.kind
             /\ Queued(ec).completed_ = op.completed_ /\ Queued(ec).fiber = op.fiber
             /\ Queued(ec).ec = ec /\ Queued(ec).left = op.left
  BY DEF Operations, Queued, Outcomes
<1> QED
  BY <1>1, <1>2, <1>3

\* The operations the fiber begins.
LEMMA OperationBegins ==
  ASSUME op \in Operations, NEW kind \in Kinds
  PROVE  (\/ op' = [Idle EXCEPT !.kind = kind]
          \/ \E left \in Int : op' = [Idle EXCEPT !.kind = kind, !.left = left]
          \/ \E queued \in BOOLEAN : op' = [Idle EXCEPT !.kind = kind, !.queued = queued])
         => op' \in Operations /\ op'.kind = kind /\ ~op'.completed_ /\ op'.fiber # "suspended"
<1>1. kind \in {"none", "resolve", "connect", "write", "head", "body", "deleted", "terminated"}
  BY DEF Kinds
<1>2. PICK zero \in Int : zero = 0
  OBVIOUS
<1>3. CASE op' = [Idle EXCEPT !.kind = kind]
  <2>1. op' = [kind |-> kind, fiber |-> "active", completed_ |-> FALSE, ec |-> "ok",
               queued |-> FALSE, left |-> zero]
    BY <1>3, <1>2 DEF Idle
  <2> QED
    BY <1>1, <2>1 DEF Operations
<1>4. CASE \E left \in Int : op' = [Idle EXCEPT !.kind = kind, !.left = left]
  <2>1. PICK left \in Int : op' = [Idle EXCEPT !.kind = kind, !.left = left]
    BY <1>4
  <2>2. op' = [kind |-> kind, fiber |-> "active", completed_ |-> FALSE, ec |-> "ok",
               queued |-> FALSE, left |-> left]
    BY <2>1 DEF Idle
  <2> QED
    BY <1>1, <2>2 DEF Operations
<1>5. CASE \E queued \in BOOLEAN : op' = [Idle EXCEPT !.kind = kind, !.queued = queued]
  <2>1. PICK queued \in BOOLEAN : op' = [Idle EXCEPT !.kind = kind, !.queued = queued]
    BY <1>5
  <2>2. op' = [kind |-> kind, fiber |-> "active", completed_ |-> FALSE, ec |-> "ok",
               queued |-> queued, left |-> zero]
    BY <1>2, <2>1 DEF Idle
  <2> QED
    BY <1>1, <2>2 DEF Operations
<1> QED
  BY <1>3, <1>4, <1>5

\* A step leaves the timer alone, cancels it or arms it, unless it is one of the
\* timer's own.
LEMMA OthersTimer ==
  ASSUME [HttpNext]_httpVars
  PROVE  TimerExpires \/ TimeoutHandler \/ UNCHANGED httpTimer \/ CancelTimer \/ ArmTimer
<1>1. CASE FiberStep
  <2>1. CASE HeadReturns
    BY <2>1 DEF HeadReturns, InvalidResponse, ValidResponse, httpTimer
  <2>2. CASE Suspend \/ ResolveReturns \/ ConnectReturns \/ WriteReturns \/ BodyReturns
    BY <2>2 DEF Suspend, ResolveReturns, ConnectReturns, WriteReturns, BodyReturns, httpTimer
  <2> QED
    BY <1>1, <2>1, <2>2 DEF FiberStep
<1>2. CASE PeerSends \/ PeerCloses \/ ResolveCompletes \/ ConnectSome \/ WriteSome \/ ReadSome \/ Continues
  BY <1>2 DEF PeerSends, PeerCloses, ResolveCompletes, ConnectSome, WriteSome, ReadSome, Continues, httpTimer
<1>3. CASE Connect \/ Disconnect \/ Delete \/ Request
  BY <1>3 DEF Connect, Disconnect, Delete, Request, httpTimer
<1>4. CASE UNCHANGED httpVars
  BY <1>4 DEF httpVars, httpTimer
<1> QED
  BY <1>1, <1>2, <1>3, <1>4 DEF HttpNext

LEMMA TimerKept ==
  ASSUME HttpCallInv, [HttpNext]_httpVars
  PROVE  armed' \in BOOLEAN /\ handlers' \in Seq({"expired", "aborted"}) /\ late' \in Nat /\ TimerInv'
<1>1. /\ armed \in BOOLEAN /\ handlers \in Seq({"expired", "aborted"}) /\ late \in Nat
      /\ Cardinality(ExpiredIn(handlers)) <= late /\ Cardinality(ExpiredIn(handlers)) \in Nat
  BY ExpiredAfterAppend DEF HttpCallInv, HttpInv, HttpTypeOK, TimerInv
<1>2. CASE UNCHANGED httpTimer \/ CancelTimer \/ ArmTimer
  <2>1. armed' \in BOOLEAN /\ handlers' \in {handlers, Append(handlers, "aborted")} /\ late' = late
    BY <1>1, <1>2 DEF httpTimer, CancelTimer, ArmTimer, Abort
  <2>2. Cardinality(ExpiredIn(handlers')) = Cardinality(ExpiredIn(handlers))
    <3>1. CASE handlers' = handlers
      BY <3>1
    <3>2. CASE handlers' = Append(handlers, "aborted")
      BY <1>1, <3>2, ExpiredAfterAppend
    <3> QED
      BY <2>1, <3>1, <3>2
  <2> QED
    BY <1>1, <2>1, <2>2 DEF TimerInv, ExpiredIn
<1>3. CASE TimerExpires
  <2>1. armed' = FALSE /\ handlers' = Append(handlers, "expired") /\ late' = late + 1
    BY <1>3 DEF TimerExpires
  <2>2. Cardinality(ExpiredIn(handlers')) = Cardinality(ExpiredIn(handlers)) + 1
    BY <1>1, <2>1, ExpiredAfterAppend
  <2>3. armed' \in BOOLEAN /\ handlers' \in Seq({"expired", "aborted"}) /\ late' \in Nat
    <3>1. "expired" \in {"expired", "aborted"}
      OBVIOUS
    <3>2. Append(handlers, "expired") \in Seq({"expired", "aborted"})
      BY <1>1, <3>1, AppendProperties
    <3>3. late + 1 \in Nat
      BY <1>1
    <3> QED
      BY <2>1, <3>2, <3>3
  <2>4. Cardinality(ExpiredIn(handlers')) <= late'
    BY <1>1, <2>1, <2>2
  <2> QED
    BY <2>3, <2>4 DEF TimerInv, ExpiredIn
<1>4. CASE TimeoutHandler
  <2>1. handlers # <<>> /\ handlers' = Tail(handlers) /\ armed' = armed
    BY <1>4 DEF TimeoutHandler
  <2>2. Head(handlers) \in {"expired", "aborted"} /\ handlers' \in Seq({"expired", "aborted"})
    BY <1>1, <2>1
  <2>3. late' \in {late, late - 1} /\ (late' = late \/ Head(handlers) = "expired")
    BY <1>4, <2>2 DEF TimeoutHandler, Cancels
  <2>4. /\ Cardinality(ExpiredIn(handlers))
             = Cardinality(ExpiredIn(handlers')) + (IF Head(handlers) = "expired" THEN 1 ELSE 0)
        /\ Cardinality(ExpiredIn(handlers')) \in Nat
    BY <1>1, <2>1, <2>2, ExpiredAfterTail, ExpiredAfterAppend
  <2>5. late' \in Nat /\ Cardinality(ExpiredIn(handlers')) <= late'
    BY <1>1, <2>3, <2>4
  <2> QED
    BY <1>1, <2>1, <2>2, <2>5 DEF TimerInv, ExpiredIn
<1> QED
  BY <1>2, <1>3, <1>4, OthersTimer

\* After a head the call is over, or the rest of the content is read.
LEMMA HeadBeginsBody ==
  ASSUME HttpCallInv, HeadReturns
  PROVE  op' = Idle \/ \E left \in Int : op' = [Idle EXCEPT !.kind = "body", !.left = left]
<1>1. m_res_buf \in Seq(Piece)
  BY DEF HttpCallInv, HttpInv, HttpTypeOK
<1>2. CASE ValidResponse
  <2>1. \/ op' = Idle
        \/ op' = [Idle EXCEPT !.kind = "body", !.left = ToRead(Head(m_res_buf).len, Len(Tail(m_res_buf)))]
    BY <1>2 DEF ValidResponse, Fails, Returns, Start
  <2>2. m_res_buf # <<>>
    BY <1>2 DEF ValidResponse, StatusLine
  <2>3. Head(m_res_buf) \in Piece /\ Len(Tail(m_res_buf)) \in Nat
    BY <1>1, <2>2
  <2>4. Head(m_res_buf).len \in Int /\ SizeMax \in Int
    BY <2>3, HttpAssumption DEF Piece
  <2>5. ToRead(Head(m_res_buf).len, Len(Tail(m_res_buf))) \in Int
    BY <2>3, <2>4 DEF ToRead
  <2> QED
    BY <2>1, <2>5
<1>3. CASE ~ValidResponse
  BY <1>3 DEF HeadReturns, InvalidResponse, HeadReturns, Fails, Returns
<1> QED
  BY <1>2, <1>3

\* A read that took something ends its operation on the socket.
LEMMA ReadOperation ==
  ASSUME op \in Operations, op.completed_ => op.fiber # "suspended",
         NEW k \in Nat, op' = [Queued("ok") EXCEPT !.left = @ - k]
  PROVE  /\ op' \in Operations /\ (op'.completed_ => op'.fiber # "suspended")
         /\ op'.kind = op.kind /\ op'.completed_ = op.completed_ /\ op'.left = op.left - k
<1>1. op.left - k \in Int /\ op.left \in Int
  BY DEF Operations
<1>2. PICK left \in Int : left = op.left - k
  BY <1>1
<1>3. PICK q \in Operations : q = Queued("ok") /\ q.left = op.left /\ q.kind = op.kind
                               /\ q.completed_ = op.completed_ /\ q.fiber = op.fiber
  BY OperationAfter DEF Outcomes
<1>4. op' = [q EXCEPT !.left = left]
  BY <1>2, <1>3
<1>5. /\ op' \in Operations /\ op'.kind = q.kind /\ op'.completed_ = q.completed_ /\ op'.fiber = q.fiber
      /\ op'.left = left
  BY <1>4 DEF Operations
<1> QED
  BY <1>2, <1>3, <1>5

\* The operation after a step: one the fiber begins, none, or the same, which may
\* have completed.
LEMMA OperationKept ==
  ASSUME HttpCallInv, [HttpNext]_httpVars
  PROVE  op' \in Operations /\ NoSleepAfterCompletion'
<1>1. op \in Operations /\ (op.completed_ => op.fiber # "suspended")
  BY DEF HttpCallInv, HttpInv, HttpTypeOK, NoSleepAfterCompletion, Operations
<1>2. SUFFICES op' \in Operations /\ (op'.completed_ => op'.fiber # "suspended")
  BY DEF NoSleepAfterCompletion
<1>3. ASSUME op' = op \/ op' = Idle PROVE op' \in Operations /\ (op'.completed_ => op'.fiber # "suspended")
  BY <1>1, <1>3, OperationAfter
<1>4. ASSUME NEW kind \in Kinds,
             \/ op' = [Idle EXCEPT !.kind = kind]
             \/ \E left \in Int : op' = [Idle EXCEPT !.kind = kind, !.left = left]
             \/ \E queued \in BOOLEAN : op' = [Idle EXCEPT !.kind = kind, !.queued = queued]
      PROVE  op' \in Operations /\ (op'.completed_ => op'.fiber # "suspended")
  BY <1>1, <1>4, OperationBegins
<1>5. ASSUME NEW ec \in Outcomes, op' = Completed(ec) \/ op' = Queued(ec)
      PROVE  op' \in Operations /\ (op'.completed_ => op'.fiber # "suspended")
  <2>1. op'.completed_ /\ op' = Queued(ec) => op'.fiber # "suspended"
    BY <1>1, OperationAfter
  <2> QED
    BY <1>1, <1>5, <2>1, OperationAfter
<1>6. CASE FiberStep
  <2>1. CASE Suspend
    BY <1>1, <2>1 DEF Suspend, Operations
  <2>2. CASE ResolveReturns
    <3>1. op' = Idle \/ \E left \in Int : op' = [Idle EXCEPT !.kind = "connect", !.left = left]
      <4>1. \A endpoints \in 1 .. MaxEndpoints : endpoints - 1 \in Int
        OBVIOUS
      <4> QED
        BY <2>2, <4>1 DEF ResolveReturns, Start
    <3>2. "connect" \in Kinds
      BY DEF Kinds
    <3> QED
      BY <3>1, <3>2, <1>3, <1>4
  <2>3. CASE ConnectReturns \/ BodyReturns
    BY <2>3, <1>3 DEF ConnectReturns, BodyReturns, Fails, Returns
  <2>4. CASE WriteReturns
    <3>1. op' = Idle \/ \E queued \in BOOLEAN : op' = [Idle EXCEPT !.kind = "head", !.queued = queued]
      <4>1. HasHead(m_res_buf) \in BOOLEAN
        BY DEF HasHead
      <4> QED
        BY <2>4, <4>1 DEF WriteReturns, Fails, Returns
    <3>2. "head" \in Kinds
      BY DEF Kinds
    <3> QED
      BY <3>1, <3>2, <1>3, <1>4
  <2>5. CASE HeadReturns
    <3>1. op' = Idle \/ \E left \in Int : op' = [Idle EXCEPT !.kind = "body", !.left = left]
      BY <2>5, HeadBeginsBody
    <3>2. "body" \in Kinds
      BY DEF Kinds
    <3> QED
      BY <3>1, <3>2, <1>3, <1>4
  <2> QED
    BY <1>6, <2>1, <2>2, <2>3, <2>4, <2>5 DEF FiberStep
<1>7. CASE TimerExpires \/ PeerSends \/ PeerCloses \/ Disconnect \/ UNCHANGED httpVars
  BY <1>3, <1>7 DEF TimerExpires, PeerSends, PeerCloses, Disconnect, httpVars
<1>8. CASE TimeoutHandler
  <2>1. op' = op \/ op' = Queued("aborted") \/ op' = [Idle EXCEPT !.kind = "terminated"]
    BY <1>8 DEF TimeoutHandler
  <2>2. "aborted" \in Outcomes /\ "terminated" \in Kinds
    BY DEF Outcomes, Kinds
  <2> QED
    BY <2>1, <2>2, <1>3, <1>4, <1>5
<1>9. CASE ResolveCompletes \/ ConnectSome \/ WriteSome
  <2>1. \E ec \in Outcomes : op' = Completed(ec) \/ op' = Queued(ec)
    BY <1>9 DEF ResolveCompletes, ConnectSome, WriteSome, Outcomes
  <2> QED
    BY <2>1, <1>5
<1>10. CASE ReadSome
  <2>1. CASE \E k \in 1 .. Len(wire) : op' = [Queued("ok") EXCEPT !.left = @ - k]
    BY <1>1, <1>10, <2>1, ReadOperation
  <2>2. CASE op' = Queued("error") \/ op' = Queued("eof")
    BY <1>5, <2>2 DEF Outcomes
  <2> QED
    BY <1>10, <2>1, <2>2 DEF ReadSome
<1>11. CASE Continues
  <2>1. op' = Completed(op.ec) \/ \E left \in Int : op' = [op EXCEPT !.queued = FALSE, !.left = left]
    <3>1. op.left \in Int /\ op.left - 1 \in Int
      BY <1>1 DEF Operations
    <3> QED
      BY <1>11, <3>1 DEF Continues
  <2>2. op.ec \in Outcomes
    BY <1>1 DEF Operations, Outcomes
  <2>3. ASSUME NEW left \in Int, op' = [op EXCEPT !.queued = FALSE, !.left = left]
        PROVE  op' \in Operations /\ (op'.completed_ => op'.fiber # "suspended")
    BY <1>1, <2>3 DEF Operations
  <2> QED
    BY <2>1, <2>2, <2>3, <1>5
<1>12. CASE Connect \/ Delete \/ Request
  <2>1. /\ "resolve" \in Kinds /\ "deleted" \in Kinds /\ "write" \in Kinds /\ 0 \in Int
    BY DEF Kinds
  <2>2. CASE Connect
    BY <1>4, <2>1, <2>2 DEF Connect, Start
  <2>3. CASE Delete
    BY <1>4, <2>1, <2>3 DEF Delete
  <2>4. CASE Request
    BY <1>4, <2>1, <2>4 DEF Request, Start
  <2> QED
    BY <1>12, <2>2, <2>3, <2>4
<1> QED
  BY <1>6, <1>7, <1>8, <1>9, <1>10, <1>11, <1>12 DEF HttpNext

\* The numbers of the calls, of what was written and of the server's responses.
LEMMA SentKept ==
  ASSUME HttpCallInv, [HttpNext]_httpVars
  PROVE  /\ m_req_buf' \in 0 .. MaxCalls /\ connects' \in 0 .. MaxConnects
         /\ peer' \in [open : BOOLEAN, next : 1 .. MaxCalls + 1, left : 0 .. MaxLen]
         /\ SentInv'
<1> USE HttpAssumption
<1>1. /\ m_req_buf \in 0 .. MaxCalls /\ connects \in 0 .. MaxConnects /\ call \in CallRecord
      /\ peer \in [open : BOOLEAN, next : 1 .. MaxCalls + 1, left : 0 .. MaxLen]
      /\ call.sent + m_req_buf = call.n /\ peer.next <= call.sent + 1 /\ (peer.left > 0 => peer.next > 1)
  BY DEF HttpCallInv, HttpInv, HttpTypeOK, SentInv
<1>2. ASSUME UNCHANGED <<m_req_buf, connects, peer>>, call' \in CallRecord, call'.n = call.n, call'.sent = call.sent
      PROVE  /\ m_req_buf' \in 0 .. MaxCalls /\ connects' \in 0 .. MaxConnects
             /\ peer' \in [open : BOOLEAN, next : 1 .. MaxCalls + 1, left : 0 .. MaxLen]
             /\ SentInv'
  BY <1>1, <1>2 DEF SentInv, CallRecord
<1>3. CASE FiberStep /\ ~ResolveReturns
  <2>1. CASE HeadReturns
    <3>1. UNCHANGED <<m_req_buf, connects, peer>>
      BY <2>1 DEF HeadReturns, httpPeer
    <3>2. call' = call \/ (StatusLine /\ call' = [call EXCEPT !.head = Head(m_res_buf)])
      BY <2>1 DEF HeadReturns, InvalidResponse, ValidResponse
    <3>3. StatusLine => Head(m_res_buf) \in Piece
      BY DEF StatusLine, HttpCallInv, HttpInv, HttpTypeOK
    <3>4. call' \in CallRecord /\ call'.n = call.n /\ call'.sent = call.sent
      BY <1>1, <3>2, <3>3 DEF CallRecord
    <3> QED
      BY <1>2, <3>1, <3>4
  <2>2. CASE Suspend \/ ConnectReturns \/ WriteReturns \/ BodyReturns
    <3>1. UNCHANGED <<m_req_buf, connects, peer, call>>
      BY <2>2 DEF Suspend, ConnectReturns, WriteReturns, BodyReturns, httpBuffers, httpPeer, httpCalls
    <3> QED
      BY <1>1, <1>2, <3>1
  <2> QED
    BY <1>3, <2>1, <2>2 DEF FiberStep
<1>4. CASE TimerExpires \/ TimeoutHandler \/ ResolveCompletes \/ ReadSome \/ Continues \/ UNCHANGED httpVars
  <2>1. UNCHANGED <<m_req_buf, connects, peer, call>>
    BY <1>4 DEF TimerExpires, TimeoutHandler, ResolveCompletes, ReadSome, Continues, httpVars, httpBuffers, httpPeer, httpCalls
  <2> QED
    BY <1>1, <1>2, <2>1
<1>5. CASE PeerSends
  <2>1. UNCHANGED <<m_req_buf, connects, call>>
    BY <1>5 DEF PeerSends, httpBuffers, httpCalls
  <2>2. CASE peer.left > 0 /\ peer' = [peer EXCEPT !.left = @ - 1]
    BY <1>1, <2>1, <2>2 DEF SentInv, CallRecord
  <2>3. CASE peer.next <= call.sent /\ \E len \in 0 .. MaxLen : peer' = [peer EXCEPT !.next = @ + 1, !.left = len]
    <3>1. PICK len \in 0 .. MaxLen : peer' = [peer EXCEPT !.next = @ + 1, !.left = len]
      BY <2>3
    <3>2. peer'.next = peer.next + 1 /\ peer'.left = len /\ peer.next \in Nat \ {0} /\ call.sent \in 0 .. MaxCalls
      BY <1>1, <3>1 DEF CallRecord
    <3>3. peer'.next \in 1 .. MaxCalls + 1 /\ peer'.next <= call.sent + 1 /\ peer'.next > 1
      BY <2>3, <3>2
    <3>4. peer' \in [open : BOOLEAN, next : 1 .. MaxCalls + 1, left : 0 .. MaxLen]
      BY <1>1, <3>1, <3>2, <3>3
    <3> QED
      BY <1>1, <2>1, <3>3, <3>4 DEF SentInv
  <2> QED
    BY <1>5, <2>2, <2>3 DEF PeerSends
<1>6. CASE PeerCloses \/ Disconnect \/ Delete \/ ResolveReturns
  <2>1. UNCHANGED <<m_req_buf, connects, call>> /\ peer' \in {peer, [peer EXCEPT !.open = FALSE]}
    BY <1>6 DEF PeerCloses, Disconnect, Delete, ResolveReturns, httpBuffers, httpPeer, httpCalls
  <2> QED
    BY <1>1, <2>1 DEF SentInv
<1>7. CASE ConnectSome
  <2>1. UNCHANGED <<m_req_buf, connects, call>>
    BY <1>7 DEF ConnectSome, httpBuffers, httpCalls
  <2>2. peer' = peer \/ peer' = [open |-> TRUE, next |-> call.sent + 1, left |-> 0]
    BY <1>7 DEF ConnectSome, httpPeer
  <2>3. call.sent + 1 \in 1 .. MaxCalls + 1 /\ 0 \in 0 .. MaxLen /\ call.sent + 1 <= call.sent + 1
    BY <1>1 DEF CallRecord
  <2>4. CASE peer' = [open |-> TRUE, next |-> call.sent + 1, left |-> 0]
    BY <1>1, <2>1, <2>3, <2>4 DEF SentInv
  <2>5. CASE peer' = peer
    BY <1>1, <2>1, <2>5 DEF SentInv
  <2> QED
    BY <2>2, <2>4, <2>5
<1>8. CASE WriteSome
  <2>1. CASE UNCHANGED <<call, m_req_buf>>
    BY <1>1, <1>2, <1>8, <2>1 DEF WriteSome, httpPeer
  <2>2. CASE call' = [call EXCEPT !.sent = @ + m_req_buf] /\ m_req_buf' = 0
    <3>1. call' \in CallRecord /\ call'.n = call.n /\ call'.sent = call.n /\ call.n \in Nat /\ call.sent \in Nat
      BY <1>1, <2>2 DEF CallRecord
    <3>2. UNCHANGED <<peer, connects>>
      BY <1>8 DEF WriteSome, httpPeer
    <3> QED
      BY <1>1, <2>2, <3>1, <3>2 DEF SentInv
  <2> QED
    BY <1>8, <2>1, <2>2 DEF WriteSome
<1>9. CASE Connect
  <2>1. connects < MaxConnects /\ connects' = connects + 1 /\ UNCHANGED <<m_req_buf, peer, call>>
    BY <1>9 DEF Connect, httpBuffers, httpPeer
  <2> QED
    BY <1>1, <2>1 DEF SentInv
<1>10. CASE Request
  <2>1. /\ call.n < MaxCalls /\ m_req_buf' = m_req_buf + 1 /\ UNCHANGED <<connects, peer>>
        /\ call' = [call EXCEPT !.n = @ + 1, !.inStep = InStep, !.head = NoHead]
    BY <1>10 DEF Request, httpPeer
  <2>2. InStep \in BOOLEAN
    BY DEF InStep
  <2>3. /\ call' \in CallRecord /\ call'.n = call.n + 1 /\ call'.sent = call.sent
        /\ call.n \in Nat /\ call.sent \in Nat
    <3>1. call.n \in Nat /\ call.sent \in Nat /\ call.n + 1 \in 0 .. MaxCalls /\ NoHead \in Piece \cup {NoHead}
      BY <1>1, <2>1 DEF CallRecord
    <3>2. call'.n = call.n + 1 /\ call'.sent = call.sent
      BY <1>1, <2>1 DEF CallRecord
    <3>3. PICK inStep \in BOOLEAN : inStep = InStep
      BY <2>2
    <3>4. call' = [call EXCEPT !.n = call.n + 1, !.inStep = inStep, !.head = NoHead]
      BY <2>1, <3>3
    <3>5. call' \in CallRecord
      BY <1>1, <3>1, <3>4 DEF CallRecord
    <3> QED
      BY <3>1, <3>2, <3>5
  <2> QED
    BY <1>1, <2>1, <2>3 DEF SentInv
<1> QED
  BY <1>3, <1>4, <1>5, <1>6, <1>7, <1>8, <1>9, <1>10 DEF HttpNext

\* What the server sends, and what is in the buffer.
LEMMA PiecesKept ==
  ASSUME HttpCallInv, [HttpNext]_httpVars
  PROVE  /\ m_sock' \in {"open", "closed"} /\ m_connected' \in BOOLEAN
         /\ m_res_buf' \in Seq(Piece) /\ wire' \in Seq(Piece)
<1> USE HttpAssumption
<1>1. /\ m_sock \in {"open", "closed"} /\ m_connected \in BOOLEAN
      /\ m_res_buf \in Seq(Piece) /\ wire \in Seq(Piece)
      /\ <<>> \in Seq(Piece) /\ op \in Operations
  BY DEF HttpCallInv, HttpInv, HttpTypeOK
<1>2. CASE FiberStep
  <2>1. CASE HeadReturns
    <3>1. CASE InvalidResponse
      <4> DEFINE after == SelectInSeq(m_res_buf, EndsHead)
      <4>1. after \in 0 .. Len(m_res_buf)
        BY <1>1, SelectedIsIndex
      <4>2. /\ SubSeq(m_res_buf, after + 1, Len(m_res_buf)) \in Seq(Piece)
            /\ after > 0 => /\ SubSeq(m_res_buf, after, Len(m_res_buf)) \in Seq(Piece)
                            /\ Len(SubSeq(m_res_buf, after, Len(m_res_buf))) > 0
        <5> HIDE DEF after
        <5>1. SubSeq(m_res_buf, after + 1, Len(m_res_buf)) \in Seq(Piece)
          BY <1>1, <4>1, SubSeqProperties
        <5>2. ASSUME after > 0
              PROVE  /\ SubSeq(m_res_buf, after, Len(m_res_buf)) \in Seq(Piece)
                     /\ Len(SubSeq(m_res_buf, after, Len(m_res_buf))) > 0
          BY <1>1, <4>1, <5>2, SubSeqProperties
        <5> QED
          BY <5>1, <5>2
      <4>3. \/ m_res_buf' = <<>>
            \/ m_res_buf' = SubSeq(m_res_buf, after + 1, Len(m_res_buf))
            \/ after > 0 /\ m_res_buf' = [SubSeq(m_res_buf, after, Len(m_res_buf)) EXCEPT ![1].kind = "rest"]
        BY <3>1 DEF InvalidResponse
      <4> HIDE DEF after
      <4>4. ASSUME NEW s \in Seq(Piece), Len(s) > 0
            PROVE  [s EXCEPT ![1].kind = "rest"] \in Seq(Piece)
        <5>1. 1 \in 1 .. Len(s) /\ s[1] \in Piece
          BY <4>4
        <5>2. [s[1] EXCEPT !.kind = "rest"] \in Piece
          BY <5>1 DEF Piece
        <5> QED
          BY <5>1, <5>2
      <4>5. UNCHANGED <<m_sock, m_connected, wire>>
        BY <2>1 DEF HeadReturns, httpPeer
      <4> QED
        BY <1>1, <4>2, <4>3, <4>4, <4>5
    <3>2. CASE ~InvalidResponse
      <4>1. m_res_buf' = m_res_buf \/ (m_res_buf # <<>> /\ m_res_buf' = Tail(m_res_buf))
        BY <2>1, <3>2 DEF HeadReturns, ValidResponse, StatusLine
      <4>2. UNCHANGED <<m_sock, m_connected, wire>>
        BY <2>1 DEF HeadReturns, httpPeer
      <4> QED
        BY <1>1, <4>1, <4>2
    <3> QED
      BY <3>1, <3>2
  <2>2. CASE ConnectReturns
    BY <1>1, <2>2 DEF ConnectReturns, httpPeer
  <2>3. CASE Suspend \/ ResolveReturns \/ WriteReturns \/ BodyReturns
    BY <1>1, <2>3 DEF Suspend, ResolveReturns, WriteReturns, BodyReturns, httpBuffers, httpPeer
  <2> QED
    BY <1>2, <2>1, <2>2, <2>3 DEF FiberStep
<1>3. CASE PeerSends
  <2>1. PICK p : p \in Piece /\ wire' = Append(wire, p)
    <3>1. /\ peer \in [open : BOOLEAN, next : 1 .. MaxCalls + 1, left : 0 .. MaxLen]
          /\ call.sent \in 0 .. MaxCalls /\ (peer.left > 0 => peer.next > 1)
      BY DEF HttpCallInv, HttpInv, HttpTypeOK, SentInv, CallRecord
    <3>2. CASE peer.left > 0
      <4>1. peer.next - 1 \in 1 .. MaxCalls /\ 0 \in 0 .. MaxLen
        BY <3>1, <3>2
      <4>2. [n |-> peer.next - 1, kind |-> "body", status |-> "ok", len |-> 0] \in Piece
        BY <4>1 DEF Piece
      <4>3. wire' = Append(wire, [n |-> peer.next - 1, kind |-> "body", status |-> "ok", len |-> 0])
        <5>1. peer.left # 0
          BY <3>2
        <5> QED
          BY <1>3, <5>1 DEF PeerSends
      <4> QED
        BY <4>2, <4>3
    <3>3. CASE ~(peer.left > 0)
      <4>1. PICK st \in {"ok", "redirect", "bad"}, len \in 0 .. MaxLen :
              wire' = Append(wire, [n |-> peer.next, kind |-> "head", status |-> st, len |-> len])
        BY <1>3, <3>3 DEF PeerSends
      <4>2. peer.next \in 1 .. MaxCalls
        <5>1. peer.next <= call.sent
          BY <1>3, <3>3 DEF PeerSends
        <5> QED
          BY <3>1, <5>1
      <4>3. [n |-> peer.next, kind |-> "head", status |-> st, len |-> len] \in Piece
        BY <4>1, <4>2 DEF Piece
      <4> QED
        BY <4>1, <4>3
    <3> QED
      BY <3>2, <3>3
  <2>2. UNCHANGED <<m_sock, m_connected, m_res_buf>>
    BY <1>3 DEF PeerSends, httpBuffers
  <2> QED
    BY <1>1, <2>1, <2>2, AppendProperties
<1>4. CASE ReadSome
  <2>1. CASE UNCHANGED <<m_res_buf, wire>>
    BY <1>1, <1>4, <2>1 DEF ReadSome
  <2>2. CASE ~UNCHANGED <<m_res_buf, wire>>
    <3>1. PICK k \in 1 .. Len(wire) :
            /\ m_res_buf' = m_res_buf \o SubSeq(wire, 1, k)
            /\ wire' = SubSeq(wire, k + 1, Len(wire))
      BY <1>4, <2>2 DEF ReadSome
    <3>2. m_connected' = m_connected /\ m_sock' = m_sock /\ k \in 0 .. Len(wire)
      BY <1>4, <3>1 DEF ReadSome
    <3> QED
      BY <1>1, <3>1, <3>2, ReadSplits
  <2> QED
    BY <2>1, <2>2
<1>5. CASE ConnectSome \/ Disconnect \/ Delete
  BY <1>1, <1>5 DEF ConnectSome, Disconnect, Delete, httpBuffers, httpPeer
<1>6. CASE TimerExpires \/ TimeoutHandler \/ PeerCloses \/ ResolveCompletes \/ WriteSome \/ Continues
  BY <1>1, <1>6 DEF TimerExpires, TimeoutHandler, PeerCloses, ResolveCompletes, WriteSome, Continues,
     httpBuffers, httpPeer
<1>7. CASE Connect \/ Request \/ UNCHANGED httpVars
  BY <1>1, <1>7 DEF Connect, Request, httpVars, httpBuffers, httpPeer
<1> QED
  BY <1>2, <1>3, <1>4, <1>5, <1>6, <1>7 DEF HttpNext

LEMMA HttpTypesKept ==
  ASSUME HttpCallInv, [HttpNext]_httpVars
  PROVE  HttpInv' /\ TimerInv' /\ SentInv'
<1>1. armed' \in BOOLEAN /\ handlers' \in Seq({"expired", "aborted"}) /\ late' \in Nat /\ TimerInv'
  BY TimerKept
<1>2. op' \in Operations /\ NoSleepAfterCompletion'
  BY OperationKept
<1>3. /\ m_req_buf' \in 0 .. MaxCalls /\ connects' \in 0 .. MaxConnects
      /\ peer' \in [open : BOOLEAN, next : 1 .. MaxCalls + 1, left : 0 .. MaxLen] /\ SentInv'
  BY SentKept
<1>4. /\ m_sock' \in {"open", "closed"} /\ m_connected' \in BOOLEAN
      /\ m_res_buf' \in Seq(Piece) /\ wire' \in Seq(Piece)
  BY PiecesKept
<1>5. call'.n \in 0 .. MaxCalls /\ call'.inStep \in BOOLEAN /\ call'.head \in Piece \cup {NoHead}
  BY <1>3 DEF SentInv, CallRecord
<1>6. HttpTypeOK'
  BY <1>1, <1>2, <1>3, <1>4, <1>5 DEF HttpTypeOK, Operations
<1>7. AbortsHaveExpiredTimers'
  BY <1>1 DEF AbortsHaveExpiredTimers
<1> QED
  BY <1>1, <1>2, <1>3, <1>6, <1>7 DEF HttpInv

\* The response to a call in step, until the call has read it.
LEMMA InStepKept ==
  ASSUME HttpCallInv, [HttpNext]_httpVars
  PROVE  InStepInv'
<1> USE HttpAssumption
<1>1. /\ m_res_buf \in Seq(Piece) /\ wire \in Seq(Piece) /\ Incoming \in Seq(Piece)
      /\ op \in Operations /\ InStepInv
      /\ call \in CallRecord /\ call.sent <= call.n
      /\ peer \in [open : BOOLEAN, next : 1 .. MaxCalls + 1, left : 0 .. MaxLen]
  <2>1. m_res_buf \in Seq(Piece) /\ wire \in Seq(Piece) /\ op \in Operations /\ InStepInv
    BY DEF HttpCallInv, HttpInv, HttpTypeOK, Operations
  <2>2. Incoming \in Seq(Piece)
    BY <2>1, ConcatProperties DEF Incoming
  <2>3. /\ call \in CallRecord /\ m_req_buf \in Nat /\ call.sent + m_req_buf = call.n
        /\ peer \in [open : BOOLEAN, next : 1 .. MaxCalls + 1, left : 0 .. MaxLen]
    BY DEF HttpCallInv, HttpInv, HttpTypeOK, SentInv
  <2>4. call.sent <= call.n
    BY <2>3 DEF CallRecord
  <2> QED
    BY <2>1, <2>2, <2>3, <2>4
<1>2. ASSUME Incoming' = Incoming, peer'.next = peer.next, peer'.left = peer.left,
             call'.n = call.n, call'.head = call.head, call'.inStep = call.inStep,
             op'.kind = op.kind \/ (op.kind = "write" /\ op'.kind = "head"),
             op.kind = "body" =>
               /\ op'.left + Len(m_res_buf') = op.left + Len(m_res_buf)
               /\ op'.completed_ /\ op'.ec = "ok" =>
                    op'.left <= 0 \/ (op'.left = op.left /\ op.completed_ /\ op.ec = "ok")
      PROVE  InStepInv'
  <2>1. NothingYet => NothingYet'
    BY <1>2 DEF NothingYet
  <2>2. HeadFirst => HeadFirst'
    BY <1>2 DEF HeadFirst, OwnBody
  <2>3. ASSUME BodyOnly, op.kind = "body" PROVE BodyOnly'
    <3>1. /\ Len(m_res_buf) \in Nat /\ Len(m_res_buf') \in Nat /\ op.left \in Int /\ op'.left \in Int
          /\ call.head.len \in Nat
      <4>1. m_res_buf' \in Seq(Piece) /\ op' \in Operations
        BY PiecesKept, OperationKept
      <4>2. Len(m_res_buf) \in Nat /\ Len(m_res_buf') \in Nat /\ op.left \in Int /\ op'.left \in Int
        BY <1>1, <4>1 DEF Operations
      <4>3. call.head \in Piece \cup {NoHead}
        BY <1>1 DEF CallRecord
      <4>4. call.head.len \in Nat
        BY <4>3 DEF Piece, NoHead
      <4> QED
        BY <4>2, <4>4
    <3>2. op'.left + Len(m_res_buf') = op.left + Len(m_res_buf) /\ op.left = call.head.len - Len(m_res_buf)
      BY <1>2, <2>3 DEF BodyOnly
    <3>3. op'.left = call.head.len - Len(m_res_buf')
      BY <3>1, <3>2
    <3>4. op'.completed_ /\ op'.ec = "ok" => op'.left <= 0
      BY <1>2, <2>3 DEF BodyOnly
    <3> QED
      BY <1>2, <2>3, <3>3, <3>4 DEF BodyOnly, OwnBody
  <2> QED
    BY <1>1, <1>2, <2>1, <2>2, <2>3 DEF InStepInv
<1>3. ASSUME op'.kind \notin {"write", "head", "body"} PROVE InStepInv'
  BY <1>3 DEF InStepInv
<1>4. Idle.kind = "none"
  BY DEF Idle
<1>5. CASE Suspend
  <2>1. /\ UNCHANGED <<m_res_buf, wire, peer, call>> /\ op'.kind = op.kind
        /\ op'.completed_ = op.completed_ /\ op'.ec = op.ec /\ op'.left = op.left
    BY <1>1, <1>5 DEF Suspend, httpBuffers, httpPeer, httpCalls, Operations
  <2> QED
    BY <1>2, <2>1 DEF Incoming
<1>6. CASE TimerExpires \/ PeerCloses \/ UNCHANGED httpVars
  <2>1. UNCHANGED <<m_res_buf, wire, op, call>> /\ peer'.next = peer.next /\ peer'.left = peer.left
    BY <1>1, <1>6 DEF TimerExpires, PeerCloses, httpVars, httpBuffers, httpPeer, httpCalls
  <2> QED
    BY <1>2, <2>1 DEF Incoming
<1>7. CASE TimeoutHandler
  <2>1. UNCHANGED <<m_res_buf, wire, peer, call>>
    BY <1>7 DEF TimeoutHandler, httpBuffers, httpPeer, httpCalls
  <2>2. CASE op' = op
    BY <1>2, <2>1, <2>2 DEF Incoming
  <2>3. CASE op' = [Idle EXCEPT !.kind = "terminated"]
    BY <1>3, <2>3 DEF Idle
  <2>4. CASE op' = Queued("aborted")
    <3>1. op'.kind = op.kind /\ op'.ec = "aborted" /\ op'.left = op.left
      BY <1>1, <2>4, OperationAfter DEF Outcomes
    <3> QED
      BY <1>2, <2>1, <3>1 DEF Incoming
  <2> QED
    BY <1>7, <2>2, <2>3, <2>4 DEF TimeoutHandler
<1>8. CASE WriteSome
  <2>1. UNCHANGED <<m_res_buf, wire, peer>> /\ op.kind = "write"
    BY <1>8 DEF WriteSome, httpPeer, Pending
  <2>2. call'.n = call.n /\ call'.head = call.head /\ call'.inStep = call.inStep
    BY <1>1, <1>8 DEF WriteSome, CallRecord
  <2>3. op'.kind = op.kind
    BY <1>1, <1>8, OperationAfter DEF WriteSome, Outcomes
  <2> QED
    BY <1>2, <2>1, <2>2, <2>3 DEF Incoming
<1>9. CASE ReadSome
  <2>1. UNCHANGED <<peer, call>> /\ ~op.completed_
    BY <1>9 DEF ReadSome, httpCalls, Pending
  <2>2. CASE \E k \in 1 .. Len(wire) :
               /\ op' = [Queued("ok") EXCEPT !.left = @ - k]
               /\ m_res_buf' = m_res_buf \o SubSeq(wire, 1, k)
               /\ wire' = SubSeq(wire, k + 1, Len(wire))
    <3>1. PICK k \in 1 .. Len(wire) :
            /\ op' = [Queued("ok") EXCEPT !.left = @ - k]
            /\ m_res_buf' = m_res_buf \o SubSeq(wire, 1, k)
            /\ wire' = SubSeq(wire, k + 1, Len(wire))
      BY <2>2
    <3>2. m_res_buf \in Seq(Piece) /\ wire \in Seq(Piece) /\ k \in 0 .. Len(wire) /\ k \in Nat
      BY <1>1, <3>1
    <3>3. Incoming' = Incoming
      <4>1. m_res_buf' = Joined(m_res_buf, SubSeq(wire, 1, k)) /\ wire' = SubSeq(wire, k + 1, Len(wire))
        BY <3>1 DEF Joined
      <4>2. Joined(m_res_buf', wire') = Joined(m_res_buf, wire)
        BY <3>2, <4>1, ReadSplits
      <4> QED
        BY <4>2 DEF Incoming, Joined
    <3>4. op'.kind = op.kind /\ ~op'.completed_ /\ op'.left = op.left - k
      BY <1>1, <2>1, <3>1, <3>2, ReadOperation
    <3>5. op'.left + Len(m_res_buf') = op.left + Len(m_res_buf)
      <4>1. Len(m_res_buf') = Len(m_res_buf) + Len(SubSeq(wire, 1, k)) /\ Len(SubSeq(wire, 1, k)) = k
        <5>1. SubSeq(wire, 1, k) \in Seq(Piece) /\ Len(SubSeq(wire, 1, k)) = k
          BY <3>2, SubSeqProperties
        <5> QED
          BY <3>1, <3>2, <5>1
      <4>2. op.left \in Int /\ Len(m_res_buf) \in Nat /\ k \in Nat
        BY <1>1, <3>1, <3>2 DEF Operations
      <4> QED
        BY <3>4, <4>1, <4>2
    <3> QED
      BY <1>2, <2>1, <3>3, <3>4, <3>5
  <2>3. CASE UNCHANGED <<m_res_buf, wire>> /\ (op' = Queued("error") \/ op' = Queued("eof"))
    <3>1. op'.kind = op.kind /\ op'.completed_ = op.completed_ /\ op'.left = op.left
      BY <1>1, <2>3, OperationAfter DEF Outcomes
    <3> QED
      BY <1>2, <2>1, <2>3, <3>1 DEF Incoming
  <2> QED
    BY <1>9, <2>2, <2>3 DEF ReadSome
<1>15. CASE Continues
  <2>1. UNCHANGED <<m_res_buf, wire, peer, call>> /\ op.queued
    BY <1>15 DEF Continues, httpBuffers, httpPeer, httpCalls
  <2>2. CASE GoesOn
    <3>1. /\ op'.kind = op.kind /\ op'.completed_ = op.completed_ /\ op'.ec = op.ec
          /\ op.kind = "body" => op'.left = op.left
      BY <1>1, <1>15, <2>2 DEF Continues, Operations
    <3> QED
      BY <1>2, <2>1, <3>1 DEF Incoming
  <2>3. CASE ~GoesOn
    <3>1. op'.kind = op.kind /\ op'.ec = op.ec /\ op'.left = op.left
      <4>1. op' = Completed(op.ec) /\ op.ec \in Outcomes
        BY <1>1, <1>15, <2>3 DEF Continues, Operations, Outcomes
      <4> QED
        BY <1>1, <4>1, OperationAfter
    <3>2. op.kind = "body" /\ op.ec = "ok" => op.left <= 0
      BY <2>3 DEF GoesOn, Enough
    <3> QED
      BY <1>2, <2>1, <3>1, <3>2 DEF Incoming
  <2> QED
    BY <2>2, <2>3
<1>10. CASE WriteReturns
  <2>1. UNCHANGED <<m_res_buf, wire, peer, call>>
    BY <1>10 DEF WriteReturns, httpBuffers, httpPeer
  <2>2. op.kind = "write" /\ (op'.kind = "none" \/ (op'.kind = "head" /\ ~op'.completed_))
    BY <1>4, <1>10 DEF WriteReturns, Resumes, Fails, Returns, Idle
  <2> QED
    BY <1>2, <1>3, <2>1, <2>2 DEF Incoming
<1>11. CASE \/ ResolveReturns \/ ConnectReturns \/ BodyReturns \/ Connect \/ Delete \/ Disconnect
            \/ ResolveCompletes \/ ConnectSome
  <2>1. CASE ResolveCompletes \/ ConnectSome
    BY <1>1, <1>3, <2>1, OperationAfter DEF ResolveCompletes, ConnectSome, Pending, Outcomes
  <2>2. CASE BodyReturns \/ ConnectReturns \/ Disconnect
    <3>1. op' = Idle \/ (op' = op /\ op.kind = "none")
      BY <2>2 DEF BodyReturns, ConnectReturns, Disconnect, Fails, Returns
    <3> QED
      BY <1>3, <1>4, <3>1
  <2>3. CASE ResolveReturns \/ Connect \/ Delete
    <3>1. op' = Idle \/ op'.kind \in {"resolve", "connect", "deleted"}
      BY <2>3 DEF ResolveReturns, Connect, Delete, Start, Idle
    <3> QED
      BY <1>3, <1>4, <3>1
  <2> QED
    BY <1>11, <2>1, <2>2, <2>3
<1>12. CASE PeerSends
  <2>1. UNCHANGED <<m_res_buf, op, call>>
    BY <1>12 DEF PeerSends, httpBuffers, httpCalls
  <2>2. PICK p : /\ wire' = Append(wire, p)
                 /\ \/ /\ peer.left > 0 /\ peer'.left = peer.left - 1 /\ peer'.next = peer.next
                       /\ p.n = peer.next - 1 /\ p.kind = "body"
                    \/ /\ peer.left = 0 /\ peer.next <= call.sent /\ peer'.next = peer.next + 1 /\ peer'.left = p.len
                       /\ p.n = peer.next /\ p.kind = "head"
    <3>1. CASE /\ peer.left > 0
               /\ wire' = Append(wire, [n |-> peer.next - 1, kind |-> "body", status |-> "ok", len |-> 0])
               /\ peer' = [peer EXCEPT !.left = @ - 1]
      <4>1. peer'.left = peer.left - 1 /\ peer'.next = peer.next
        BY <1>1, <3>1
      <4>2. PICK p : p = [n |-> peer.next - 1, kind |-> "body", status |-> "ok", len |-> 0]
        OBVIOUS
      <4>3. p.n = peer.next - 1 /\ p.kind = "body" /\ wire' = Append(wire, p)
        BY <3>1, <4>2
      <4> QED
        BY <3>1, <4>1, <4>3
    <3>2. CASE /\ peer.left = 0 /\ peer.next <= call.sent
               /\ \E st \in {"ok", "redirect", "bad"}, len \in 0 .. MaxLen :
                    /\ wire' = Append(wire, [n |-> peer.next, kind |-> "head", status |-> st, len |-> len])
                    /\ peer' = [peer EXCEPT !.next = @ + 1, !.left = len]
      <4>1. PICK st \in {"ok", "redirect", "bad"}, len \in 0 .. MaxLen :
              /\ wire' = Append(wire, [n |-> peer.next, kind |-> "head", status |-> st, len |-> len])
              /\ peer' = [peer EXCEPT !.next = @ + 1, !.left = len]
        BY <3>2
      <4>2. peer'.next = peer.next + 1 /\ peer'.left = len
        BY <1>1, <4>1
      <4>3. PICK p : p = [n |-> peer.next, kind |-> "head", status |-> st, len |-> len]
        OBVIOUS
      <4>4. p.n = peer.next /\ p.kind = "head" /\ p.len = len /\ wire' = Append(wire, p)
        BY <4>1, <4>3
      <4> QED
        BY <3>2, <4>2, <4>4
    <3> QED
      BY <1>12, <3>1, <3>2 DEF PeerSends
  <2>3. Incoming' = Append(Incoming, p) /\ p \in Piece
    <3>1. wire' \in Seq(Piece) /\ wire'[Len(wire) + 1] = p /\ Len(wire') = Len(wire) + 1
      BY <1>1, <2>2, PiecesKept
    <3>2. Len(wire) + 1 \in 1 .. Len(wire')
      BY <1>1, <3>1
    <3>3. p \in Piece
      BY <3>1, <3>2, ElementOfSeq
    <3>4. \A q, w \in Seq(Piece) : q \o Append(w, p) = Append(q \o w, p)
      BY <3>3
    <3>5. m_res_buf' = m_res_buf /\ wire' = Append(wire, p)
      BY <2>1, <2>2
    <3>6. m_res_buf \o Append(wire, p) = Append(m_res_buf \o wire, p)
      BY <1>1, <3>4
    <3> QED
      BY <3>3, <3>5, <3>6 DEF Incoming
  <2>4. /\ Len(Incoming') = Len(Incoming) + 1 /\ Incoming'[Len(Incoming) + 1] = p
        /\ \A i \in 1 .. Len(Incoming) : Incoming'[i] = Incoming[i]
        /\ Len(Incoming) \in Nat /\ Incoming' # <<>>
    <3>1. PICK q \in Seq(Piece) : q = Incoming
      BY <1>1
    <3>2. /\ Len(q) \in Nat /\ Len(Append(q, p)) = Len(q) + 1 /\ Append(q, p)[Len(q) + 1] = p
          /\ \A i \in 1 .. Len(q) : Append(q, p)[i] = q[i]
          /\ Append(q, p) # <<>>
      BY <2>3, AppendProperties
    <3>3. Incoming' = Append(q, p)
      BY <2>3, <3>1
    <3> QED
      BY <3>1, <3>2, <3>3
  <2>5. /\ peer.left \in Nat /\ peer.next \in Nat /\ call.n \in Nat /\ call.sent \in Nat
        /\ call' = call /\ op' = op /\ m_res_buf' = m_res_buf
    BY <1>1, <2>1 DEF CallRecord
  <2>6. ASSUME peer.next = call.n + 1
        PROVE  p.n = call.n /\ p.kind = "body" /\ peer'.left = peer.left - 1 /\ peer'.next = peer.next
    <3>1. ~(peer.next <= call.sent) /\ peer.next - 1 = call.n
      <4>1. peer.next \in Nat /\ call.n \in Nat /\ call.sent \in Nat /\ call.sent <= call.n
        BY <1>1, <2>5
      <4> QED
        BY <2>6, <4>1
    <3> QED
      BY <2>2, <3>1
  <2>11. NothingYet => HeadFirst'
    <3>1. ASSUME NothingYet PROVE HeadFirst'
      <4>1. Len(Incoming) = 0 /\ peer.left = 0 /\ peer.next = call.n
        BY <3>1 DEF NothingYet
      <4>2. p.n = call.n /\ p.kind = "head" /\ peer'.next = call.n + 1 /\ peer'.left = p.len
        BY <2>2, <2>5, <4>1
      <4>3. Len(Incoming') = 1 /\ Incoming'[1] = p /\ p.len \in Nat
        <5>1. peer'.left \in 0 .. MaxLen
          BY SentKept
        <5> QED
          BY <2>4, <4>1, <4>2, <5>1
      <4>4. \A i \in 2 .. Len(Incoming') : FALSE
        BY <4>3
      <4>5. Len(Incoming') - 1 + peer'.left = Incoming'[1].len
        BY <4>2, <4>3
      <4>6. Incoming' # <<>> /\ Incoming'[1].n = call'.n /\ Incoming'[1].kind = "head" /\ peer'.next = call'.n + 1
        BY <2>4, <2>5, <4>2, <4>3
      <4> QED
        BY <4>4, <4>5, <4>6 DEF HeadFirst
    <3> QED
      BY <3>1
  <2>7. HeadFirst => HeadFirst'
    <3>1. ASSUME HeadFirst PROVE HeadFirst'
      <4>1. /\ Incoming # <<>> /\ peer.next = call.n + 1 /\ Incoming[1].n = call.n /\ Incoming[1].kind = "head"
            /\ \A i \in 2 .. Len(Incoming) : OwnBody(Incoming[i])
            /\ Len(Incoming) - 1 + peer.left = Incoming[1].len
        BY <3>1 DEF HeadFirst
      <4>2. Len(Incoming) >= 1
        BY <1>1, <4>1
      <4>3. p.n = call.n /\ p.kind = "body" /\ peer'.left = peer.left - 1 /\ peer'.next = peer.next
        BY <2>6, <4>1
      <4>4. Incoming'[1] = Incoming[1]
        BY <2>4, <4>2
      <4>5. \A i \in 2 .. Len(Incoming') : OwnBody(Incoming'[i])
        BY <2>4, <4>1, <4>2, <4>3 DEF OwnBody
      <4>6. Len(Incoming') - 1 + peer'.left = Incoming'[1].len
        <5>1. PICK l \in Nat, left \in Nat : l = Len(Incoming) /\ left = peer.left
          BY <2>4, <2>5
        <5>2. Len(Incoming') = l + 1 /\ peer'.left = left - 1 /\ l - 1 + left = Incoming[1].len
          BY <2>4, <4>1, <4>3, <5>1
        <5>3. (l + 1) - 1 + (left - 1) = l - 1 + left
          OBVIOUS
        <5> QED
          BY <4>4, <5>2, <5>3
      <4> QED
        BY <2>4, <2>5, <4>1, <4>3, <4>4, <4>5, <4>6 DEF HeadFirst, OwnBody
    <3> QED
      BY <3>1
  <2>8. BodyOnly => BodyOnly'
    <3>1. ASSUME BodyOnly PROVE BodyOnly'
      <4>1. /\ peer.next = call.n + 1 /\ call.head.n = call.n
            /\ \A i \in 1 .. Len(Incoming) : OwnBody(Incoming[i])
            /\ Len(Incoming) + peer.left = call.head.len
            /\ op.left = call.head.len - Len(m_res_buf)
            /\ op.completed_ /\ op.ec = "ok" => op.left <= 0
        BY <3>1 DEF BodyOnly
      <4>2. p.n = call.n /\ p.kind = "body" /\ peer'.left = peer.left - 1 /\ peer'.next = peer.next
        BY <2>6, <4>1
      <4>3. \A i \in 1 .. Len(Incoming') : OwnBody(Incoming'[i])
        BY <2>4, <4>1, <4>2 DEF OwnBody
      <4>4. Len(Incoming') + peer'.left = call.head.len
        <5>1. PICK l \in Nat, left \in Nat : l = Len(Incoming) /\ left = peer.left
          BY <2>4, <2>5
        <5>2. Len(Incoming') = l + 1 /\ peer'.left = left - 1 /\ l + left = call.head.len
          BY <2>4, <4>1, <4>2, <5>1
        <5>3. (l + 1) + (left - 1) = l + left
          OBVIOUS
        <5> QED
          BY <5>2, <5>3
      <4> QED
        BY <2>5, <4>1, <4>2, <4>3, <4>4 DEF BodyOnly, OwnBody
    <3> QED
      BY <3>1
  <2> QED
    BY <1>1, <2>5, <2>11, <2>7, <2>8 DEF InStepInv
<1>13. CASE Request
  <2>1. /\ UNCHANGED <<m_res_buf, wire, peer>> /\ op'.kind = "write"
        /\ call'.n = call.n + 1 /\ call'.inStep = InStep
    BY <1>1, <1>4, <1>13 DEF Request, Start, httpPeer, CallRecord, Idle
  <2>2. ASSUME InStep PROVE NothingYet'
    <3>1. m_res_buf = <<>> /\ wire = <<>> /\ peer.next = call.sent + 1 /\ peer.left = 0 /\ m_req_buf = 0
      BY <2>2 DEF InStep
    <3>2. call.sent = call.n
      BY <3>1 DEF HttpCallInv, SentInv, CallRecord
    <3>3. <<>> \o <<>> = <<>>
      OBVIOUS
    <3> QED
      BY <2>1, <3>1, <3>2, <3>3 DEF NothingYet, Incoming
  <2> QED
    BY <2>1, <2>2 DEF InStepInv
<1>14. CASE HeadReturns
  <2>1. CASE op'.kind = "none"
    BY <1>3, <2>1
  <2>2. CASE op'.kind # "none"
    <3>1. /\ StatusLine /\ m_res_buf' = Tail(m_res_buf) /\ call' = [call EXCEPT !.head = Head(m_res_buf)]
          /\ op' = [Idle EXCEPT !.kind = "body", !.left = ToRead(Head(m_res_buf).len, Len(Tail(m_res_buf)))]
      BY <1>4, <1>14, <2>2 DEF HeadReturns, InvalidResponse, ValidResponse, Fails, Returns, Start
    <3>2. /\ op.kind = "head" /\ op'.kind = "body" /\ ~op'.completed_ /\ UNCHANGED <<wire, peer>>
          /\ op'.left = ToRead(Head(m_res_buf).len, Len(Tail(m_res_buf)))
      BY <1>1, <1>14, <3>1 DEF HeadReturns, Resumes, httpPeer, Idle
    <3>3. call'.n = call.n /\ call'.inStep = call.inStep /\ call'.head = Head(m_res_buf)
      BY <1>1, <3>1 DEF CallRecord
    <3>4. m_res_buf # <<>> /\ Incoming' = Tail(m_res_buf) \o wire
      BY <3>1, <3>2 DEF Incoming, StatusLine
    <3>5. /\ Incoming' \in Seq(Piece) /\ Incoming[1] = Head(m_res_buf) /\ Len(Incoming) = Len(Incoming') + 1
          /\ \A i \in 1 .. Len(Incoming') : Incoming'[i] = Incoming[i + 1]
      BY <1>1, <3>4, TailAndMore DEF Incoming
    <3>6. ASSUME call.inStep PROVE BodyOnly'
      <4>1. Len(Incoming) >= 1
        BY <3>5
      <4>2. HeadFirst
        BY <1>1, <3>2, <3>6, <4>1 DEF InStepInv, NothingYet
      <4>3. /\ peer.next = call.n + 1 /\ Incoming[1].n = call.n
            /\ \A i \in 2 .. Len(Incoming) : OwnBody(Incoming[i])
            /\ Len(Incoming) - 1 + peer.left = Incoming[1].len
        BY <4>2 DEF HeadFirst
      <4>4. ASSUME NEW i \in 1 .. Len(Incoming') PROVE OwnBody(Incoming'[i])
        <5>1. i + 1 \in 2 .. Len(Incoming)
          BY <3>5
        <5> QED
          BY <3>5, <4>3, <5>1
      <4>5. Len(Incoming') + peer'.left = call'.head.len
        BY <3>2, <3>3, <3>5, <4>3
      <4>6. op'.left = call'.head.len - Len(m_res_buf')
        <5>1. Tail(m_res_buf) \in Seq(Piece) /\ Len(Incoming') = Len(Tail(m_res_buf)) + Len(wire)
          BY <1>1, <3>4
        <5>2. Len(wire) \in Nat /\ Len(Tail(m_res_buf)) \in Nat /\ peer'.left \in Nat
          BY <1>1, <3>2, <5>1
        <5>3. call'.head.len = Head(m_res_buf).len /\ m_res_buf' = Tail(m_res_buf)
          BY <3>1, <3>3
        <5>4. Head(m_res_buf).len >= Len(Tail(m_res_buf))
          BY <4>5, <5>1, <5>2, <5>3
        <5> QED
          BY <3>2, <5>3, <5>4 DEF ToRead
      <4> QED
        BY <3>2, <3>3, <3>5, <4>3, <4>4, <4>5, <4>6 DEF BodyOnly, OwnBody
    <3> QED
      BY <3>2, <3>3, <3>6 DEF InStepInv
  <2> QED
    BY <2>1, <2>2
<1> QED
  BY <1>5, <1>6, <1>7, <1>8, <1>9, <1>10, <1>11, <1>12, <1>13, <1>14, <1>15 DEF HttpNext, FiberStep

\* What a call in step returns is what it read of its own response.
LEMMA ResponseKept ==
  ASSUME HttpCallInv, [HttpNext]_httpVars
  PROVE  ResponseBelongsToRequest'
<1>1. /\ m_res_buf \in Seq(Piece) /\ wire \in Seq(Piece) /\ Incoming \in Seq(Piece)
      /\ call \in CallRecord /\ InStepInv /\ ResponseBelongsToRequest
      /\ peer \in [open : BOOLEAN, next : 1 .. MaxCalls + 1, left : 0 .. MaxLen]
  BY ConcatProperties DEF HttpCallInv, HttpInv, HttpTypeOK, SentInv, Incoming
<1>2. ASSUME UNCHANGED result PROVE ResponseBelongsToRequest'
  BY <1>1, <1>2 DEF ResponseBelongsToRequest
<1>3. ASSUME NEW kind, kind # "response", Fails(kind) PROVE ResponseBelongsToRequest'
  BY <1>3 DEF Fails, Returns, ResponseBelongsToRequest
<1>4. CASE WriteReturns
  <2>1. UNCHANGED result \/ (Fails(op.ec) /\ op.ec # "response")
    BY <1>4 DEF WriteReturns, HttpCallInv, HttpInv, HttpTypeOK, Operations
  <2> QED
    BY <1>2, <1>3, <2>1
<1>5. CASE HeadReturns
  <2>1. CASE UNCHANGED result \/ Fails("aborted") \/ Fails("error") \/ Fails("invalid")
    BY <1>2, <1>3, <2>1
  <2>2. CASE StatusLine /\ op.kind = "head" /\ Returns("response", Head(m_res_buf), <<>>)
             /\ (Head(m_res_buf).status = "ok" => Head(m_res_buf).len = 0)
    <3>1. call.inStep => Head(m_res_buf).n = call.n
      <4>1. m_res_buf # <<>>
        BY <2>2 DEF StatusLine
      <4>2. Incoming # <<>> /\ Incoming[1] = Head(m_res_buf)
        <5>1. Len(Incoming) = Len(Tail(m_res_buf) \o wire) + 1 /\ Len(Tail(m_res_buf) \o wire) \in Nat
          BY <1>1, <4>1, TailAndMore DEF Incoming
        <5>2. Incoming[1] = Head(m_res_buf)
          BY <1>1, <4>1, TailAndMore DEF Incoming
        <5> QED
          BY <5>1, <5>2
      <4> QED
        BY <1>1, <2>2, <4>2 DEF InStepInv, NothingYet, HeadFirst
    <3>2. /\ result'.n = call.n /\ result'.head = Head(m_res_buf) /\ result'.content = <<>>
          /\ result'.inStep = call.inStep
      BY <2>2 DEF Returns
    <3>3. Len(<<>>) = 0 /\ DOMAIN <<>> = {}
      OBVIOUS
    <3> QED
      BY <2>2, <3>1, <3>2, <3>3 DEF ResponseBelongsToRequest
  <2>3. CASE StatusLine /\ op.kind = "head" /\ Returns("response", Head(m_res_buf), Tail(m_res_buf))
             /\ Head(m_res_buf).len = Len(Tail(m_res_buf))
    <3>1. m_res_buf # <<>>
      BY <2>3 DEF StatusLine
    <3>2. Incoming # <<>> /\ Incoming[1] = Head(m_res_buf)
      <4>1. Len(Incoming) = Len(Tail(m_res_buf) \o wire) + 1 /\ Len(Tail(m_res_buf) \o wire) \in Nat
        BY <1>1, <3>1, TailAndMore DEF Incoming
      <4>2. Incoming[1] = Head(m_res_buf)
        BY <1>1, <3>1, TailAndMore DEF Incoming
      <4> QED
        BY <4>1, <4>2
    <3>3. ASSUME call.inStep
          PROVE  /\ Head(m_res_buf).n = call.n
                 /\ \A i \in DOMAIN Tail(m_res_buf) : Tail(m_res_buf)[i].n = call.n
      <4>1. HeadFirst
        BY <1>1, <2>3, <3>2, <3>3 DEF InStepInv, NothingYet
      <4>2. Head(m_res_buf).n = call.n
        BY <3>2, <4>1 DEF HeadFirst
      <4>3. ASSUME NEW i \in DOMAIN Tail(m_res_buf) PROVE Tail(m_res_buf)[i].n = call.n
        <5>1. i \in 1 .. Len(m_res_buf) - 1 /\ Tail(m_res_buf)[i] = m_res_buf[i + 1]
          BY <1>1, <3>1
        <5>2. i + 1 \in 1 .. Len(m_res_buf) /\ i + 1 \in 2 .. Len(Incoming) /\ Incoming[i + 1] = m_res_buf[i + 1]
          BY <1>1, <5>1 DEF Incoming
        <5>3. OwnBody(Incoming[i + 1])
          BY <4>1, <5>2 DEF HeadFirst
        <5> QED
          BY <5>1, <5>2, <5>3 DEF OwnBody
      <4> QED
        BY <4>2, <4>3
    <3>4. /\ result'.n = call.n /\ result'.head = Head(m_res_buf) /\ result'.content = Tail(m_res_buf)
          /\ result'.inStep = call.inStep
      BY <2>3 DEF Returns
    <3> QED
      BY <2>3, <3>3, <3>4 DEF ResponseBelongsToRequest
  <2> QED
    <3>1. CASE InvalidResponse
      BY <2>1, <3>1 DEF InvalidResponse
    <3>2. CASE ValidResponse
      BY <1>5, <2>1, <2>2, <2>3, <3>2 DEF HeadReturns, ValidResponse, Resumes
    <3>3. CASE op.ec \in {"error", "aborted"} /\ Fails(op.ec)
      BY <2>1, <3>3
    <3> QED
      BY <1>5, <3>1, <3>2, <3>3 DEF HeadReturns
<1>6. CASE BodyReturns
  <2>1. CASE op.ec \in {"error", "aborted"} /\ Fails(op.ec)
    BY <1>3, <2>1
  <2>2. CASE Returns("response", call.head, m_res_buf)
    <3>1. /\ result'.n = call.n /\ result'.head = call.head /\ result'.content = m_res_buf
          /\ result'.inStep = call.inStep /\ result'.ec = op.ec
      BY <2>2 DEF Returns
    <3>2. ASSUME call.inStep
          PROVE  /\ call.head.n = call.n
                 /\ \A i \in DOMAIN m_res_buf : m_res_buf[i].n = call.n
                 /\ op.ec = "ok" => Len(m_res_buf) = call.head.len
      <4>1. op.kind = "body" /\ op.completed_ /\ BodyOnly
        BY <1>1, <1>6, <3>2 DEF BodyReturns, Resumes, InStepInv
      <4>2. call.head.n = call.n
        BY <4>1 DEF BodyOnly
      <4>3. ASSUME NEW i \in DOMAIN m_res_buf PROVE m_res_buf[i].n = call.n
        <5>1. i \in 1 .. Len(Incoming) /\ Incoming[i] = m_res_buf[i]
          BY <1>1 DEF Incoming
        <5> QED
          BY <4>1, <5>1 DEF BodyOnly, OwnBody
      <4>4. ASSUME op.ec = "ok" PROVE Len(m_res_buf) = call.head.len
        <5>1. Len(Incoming) = Len(m_res_buf) + Len(wire) /\ Len(m_res_buf) \in Nat /\ Len(wire) \in Nat /\ peer.left \in Nat
          BY <1>1 DEF Incoming
        <5>2. /\ Len(Incoming) + peer.left = call.head.len /\ op.left = call.head.len - Len(m_res_buf)
              /\ op.left <= 0
          BY <4>1, <4>4 DEF BodyOnly
        <5>3. PICK a \in Nat, b \in Nat, c \in Nat : a = Len(m_res_buf) /\ b = Len(wire) /\ c = peer.left
          BY <5>1
        <5>4. call.head.len = (a + b) + c /\ call.head.len - a <= 0
          BY <5>1, <5>2, <5>3
        <5>5. b = 0 /\ c = 0
          BY <5>4
        <5> QED
          BY <5>3, <5>4, <5>5
      <4> QED
        BY <4>2, <4>3, <4>4
    <3> QED
      BY <3>1, <3>2 DEF ResponseBelongsToRequest
  <2> QED
    BY <1>6, <2>1, <2>2 DEF BodyReturns
<1>7. CASE Suspend \/ ResolveReturns \/ ConnectReturns
  <2>1. UNCHANGED result
    BY <1>7 DEF Suspend, ResolveReturns, ConnectReturns, httpCalls
  <2> QED
    BY <1>2, <2>1
<1>8. CASE \/ TimerExpires \/ TimeoutHandler \/ PeerSends \/ PeerCloses
           \/ ResolveCompletes \/ ConnectSome \/ WriteSome \/ ReadSome \/ Continues
  <2>1. UNCHANGED result
    BY <1>8 DEF TimerExpires, TimeoutHandler, PeerSends, PeerCloses, ResolveCompletes, ConnectSome,
       WriteSome, ReadSome, Continues, httpCalls
  <2> QED
    BY <1>2, <2>1
<1>9. CASE Connect \/ Disconnect \/ Delete \/ UNCHANGED httpVars
  <2>1. UNCHANGED result
    BY <1>9 DEF Connect, Disconnect, Delete, httpVars, httpCalls
  <2> QED
    BY <1>2, <2>1
<1>10. CASE Request
  BY <1>10 DEF Request, NoResult, ResponseBelongsToRequest
<1> QED
  BY <1>4, <1>5, <1>6, <1>7, <1>8, <1>9, <1>10 DEF HttpNext, FiberStep

LEMMA HttpStep == ASSUME HttpCallInv, [HttpNext]_httpVars PROVE HttpCallInv'
BY HttpTypesKept, InStepKept, ResponseKept DEF HttpCallInv

\* Whatever order handlers, timers and the server's pieces come in: an operation
\* that a timeout aborts has a deadline that passed, and the fiber never waits for
\* an operation that has completed.
THEOREM HttpCallsAreSafe == HttpSpec => []HttpInv
<1>1. HttpInit => HttpCallInv
  BY HttpAtStart
<1>2. HttpCallInv /\ [HttpNext]_httpVars => HttpCallInv'
  BY HttpStep
<1>3. HttpCallInv => HttpInv
  BY DEF HttpCallInv
<1> QED
  BY <1>1, <1>2, <1>3, PTL DEF HttpSpec

\* A call of get or post that begins with nothing left of earlier ones returns the
\* head and the content of the response to its own request.
THEOREM OwnResponses == HttpSpec => []ResponseBelongsToRequest
<1>1. HttpInit => HttpCallInv
  BY HttpAtStart
<1>2. HttpCallInv /\ [HttpNext]_httpVars => HttpCallInv'
  BY HttpStep
<1>3. HttpCallInv => ResponseBelongsToRequest
  BY DEF HttpCallInv
<1> QED
  BY <1>1, <1>2, <1>3, PTL DEF HttpSpec

-----------------------------------------------------------------------------
(* resolver_cache.                                                         *)

\* What was replaced was replaced in the past; the DNS has the newest address.
HistoryInv ==
  /\ \A a \in Addresses : changed[a] <= clock
  /\ \A a \in Addresses : a >= dns => changed[a] = 0

\* Address a was right at time t or later.
RightAt(a, t) == changed[a] = 0 \/ changed[a] >= t

\* The entry was right TTL before it expires, which is when its lookup began.
EntryInv ==
  entry.address # 0 => /\ entry.expires <= clock + TTL
                       /\ changed[entry.address] = 0 \/ changed[entry.address] + TTL >= entry.expires

\* A fiber remembers a time that has passed; the DNS's answer was right after it, an
\* answer from the cache less than TTL before it.
FiberInv(f) ==
  /\ resolver[f].now <= clock
  /\ resolver[f].pc = "answered" => resolver[f].address # 0 /\ RightAt(resolver[f].address, resolver[f].now)
  /\ resolver[f].pc = "returned" =>
       /\ resolver[f].address # 0
       /\ changed[resolver[f].address] = 0 \/ changed[resolver[f].address] + TTL > resolver[f].now

CacheInv == ResolverTypeOK /\ HistoryInv /\ EntryInv /\ \A f \in Resolvers : FiberInv(f)

-----------------------------------------------------------------------------
USE ResolverAssumption

LEMMA ResolverAtStart ==
  ASSUME ResolverInit
  PROVE  CacheInv
<1>1. ResolverTypeOK
  BY DEF ResolverInit, ResolverTypeOK, Addresses, NoEntry
<1> QED
  BY <1>1 DEF ResolverInit, CacheInv, HistoryInv, EntryInv, FiberInv, Addresses, NoEntry

\* Time passes: what was right at a time still was.
LEMMA TickStep ==
  ASSUME CacheInv, Tick
  PROVE  CacheInv'
<1>1. clock' = clock + 1 /\ clock < MaxTime /\ UNCHANGED <<dns, changed, entry, resolver>>
  BY DEF Tick
<1>2. ResolverTypeOK'
  BY <1>1 DEF CacheInv, ResolverTypeOK
<1>3. HistoryInv' /\ EntryInv'
  BY <1>1 DEF CacheInv, ResolverTypeOK, HistoryInv, EntryInv, Addresses
<1>4. ASSUME NEW f \in Resolvers PROVE FiberInv(f)'
  BY <1>1 DEF CacheInv, ResolverTypeOK, FiberInv, RightAt
<1> QED BY <1>2, <1>3, <1>4 DEF CacheInv

\* The address is replaced now, later than anything a fiber or the cache remembers.
LEMMA ChangeStep ==
  ASSUME CacheInv, AddressChanges
  PROVE  CacheInv'
<1>1. /\ dns < MaxAddress /\ dns' = dns + 1 /\ dns \in Addresses /\ clock \in 1 .. MaxTime
      /\ changed' = [changed EXCEPT ![dns] = clock] /\ UNCHANGED <<clock, entry, resolver>>
      /\ changed \in [Addresses -> 0 .. MaxTime]
  BY DEF AddressChanges, CacheInv, ResolverTypeOK
<1>2. ResolverTypeOK'
  BY <1>1 DEF CacheInv, ResolverTypeOK, Addresses
<1>3. HistoryInv'
  BY <1>1 DEF CacheInv, HistoryInv, Addresses
<1>4. \A a \in Addresses : changed'[a] = changed[a] \/ changed'[a] = clock
  BY <1>1
<1>5. EntryInv'
  <2>1. entry.address # 0 => entry.address \in Addresses /\ entry.expires \in Nat
    BY DEF CacheInv, ResolverTypeOK, Addresses
  <2> QED BY <1>1, <1>4, <2>1 DEF CacheInv, EntryInv
<1>6. ASSUME NEW f \in Resolvers PROVE FiberInv(f)'
  <2>1. /\ resolver[f].address # 0 => resolver[f].address \in Addresses
        /\ resolver[f].now \in Nat /\ FiberInv(f)
    BY DEF CacheInv, ResolverTypeOK, Addresses
  <2> QED BY <1>1, <1>4, <2>1 DEF FiberInv, RightAt
<1> QED BY <1>2, <1>3, <1>5, <1>6 DEF CacheInv

\* A step of a fiber leaves the others, the time and the DNS alone.
LEMMA ResolverStep ==
  ASSUME CacheInv, NEW f \in Resolvers,
         Resolve(f) \/ LookUp(f) \/ DnsAnswers(f) \/ DnsFails(f) \/ Store(f) \/ Again(f)
  PROVE  CacheInv'
<1>1. /\ resolver[f] \in [pc : {"idle", "locking", "lookup", "answered", "returned"},
                          now : 0 .. MaxTime, address : 0 .. MaxAddress]
      /\ FiberInv(f) /\ EntryInv /\ HistoryInv /\ ResolverTypeOK
      /\ DOMAIN resolver = Resolvers /\ UNCHANGED <<clock, dns, changed>>
  BY DEF CacheInv, ResolverTypeOK, Resolve, LookUp, DnsAnswers, DnsFails, Store, Again
<1>2. /\ TTL \in Nat \ {0} /\ clock \in 1 .. MaxTime /\ dns \in Addresses
      /\ changed \in [Addresses -> 0 .. MaxTime]
      /\ entry \in [address : 0 .. MaxAddress, expires : 0 .. MaxTime + TTL]
      /\ MaxTime \in Nat \ {0} /\ MaxAddress \in Nat \ {0}
  BY <1>1 DEF ResolverTypeOK
<1>3. /\ \A g \in Resolvers : g # f => resolver'[g] = resolver[g]
      /\ DOMAIN resolver' = Resolvers
      /\ resolver' = [resolver EXCEPT ![f] = resolver'[f]]
  BY <1>1 DEF ResolverTypeOK, Resolve, LookUp, DnsAnswers, DnsFails, Store, Again
<1>4. SUFFICES
        /\ resolver'[f] \in [pc : {"idle", "locking", "lookup", "answered", "returned"},
                             now : 0 .. MaxTime, address : 0 .. MaxAddress]
        /\ entry' \in [address : 0 .. MaxAddress, expires : 0 .. MaxTime + TTL]
        /\ EntryInv' /\ FiberInv(f)'
  <2>1. ResolverTypeOK'
    BY <1>1, <1>3, <1>4 DEF ResolverTypeOK
  <2>2. HistoryInv'
    BY <1>1 DEF HistoryInv
  <2>3. \A g \in Resolvers : FiberInv(g)'
    BY <1>1, <1>3, <1>4 DEF CacheInv, FiberInv, RightAt
  <2> QED BY <1>4, <2>1, <2>2, <2>3 DEF CacheInv
<1>5. CASE Resolve(f)
  <2>1. resolver'[f] = [pc |-> "locking", now |-> clock, address |-> 0] /\ entry' = entry
    BY <1>1, <1>5 DEF Resolve
  <2> QED BY <1>1, <1>2, <2>1 DEF EntryInv, FiberInv
<1>6. CASE LookUp(f)
  <2>1. CASE Hit(resolver[f].now)
    <3>1. /\ resolver'[f] = [resolver[f] EXCEPT !.pc = "returned", !.address = entry.address]
          /\ entry' = entry /\ entry.address # 0 /\ entry.expires > resolver[f].now
      BY <1>1, <1>6, <2>1 DEF LookUp, Hit
    <3>2. entry.address \in Addresses
      BY <1>2, <3>1 DEF Addresses
    <3>3. /\ resolver'[f].pc = "returned" /\ resolver'[f].now = resolver[f].now
          /\ resolver'[f].address = entry.address /\ changed' = changed
          /\ resolver[f].now \in Nat /\ entry.expires \in Nat /\ changed[entry.address] \in Nat
      BY <1>1, <1>2, <3>1, <3>2
    <3>4. FiberInv(f)'
      BY <1>1, <1>2, <3>1, <3>3 DEF EntryInv, FiberInv
    <3> QED BY <1>1, <1>2, <3>1, <3>4 DEF EntryInv
  <2>2. CASE ~Hit(resolver[f].now)
    <3>1. resolver'[f] = [resolver[f] EXCEPT !.pc = "lookup"] /\ entry' = NoEntry
      BY <1>1, <1>6, <2>2 DEF LookUp
    <3> QED BY <1>1, <1>2, <3>1 DEF EntryInv, FiberInv, NoEntry
  <2> QED BY <2>1, <2>2
<1>7. CASE DnsAnswers(f)
  <2>1. resolver'[f] = [resolver[f] EXCEPT !.pc = "answered", !.address = dns] /\ entry' = entry
    BY <1>1, <1>7 DEF DnsAnswers
  <2>2. changed[dns] = 0 /\ dns \in 1 .. MaxAddress
    BY <1>1, <1>2 DEF HistoryInv, Addresses
  <2>3. FiberInv(f)'
    BY <1>1, <1>2, <2>1, <2>2 DEF FiberInv, RightAt
  <2>4. EntryInv' /\ entry' = entry
    BY <1>1, <2>1 DEF EntryInv
  <2>5. resolver'[f] = [pc |-> "answered", now |-> resolver[f].now, address |-> dns]
    BY <1>1, <2>1
  <2>6. dns \in 0 .. MaxAddress /\ resolver[f].now \in 0 .. MaxTime
    BY <1>1, <1>2, <2>2
  <2> QED BY <1>2, <2>3, <2>4, <2>5, <2>6
<1>8. CASE DnsFails(f) \/ Again(f)
  <2>1. resolver'[f] = [pc |-> "idle", now |-> 0, address |-> 0] /\ entry' = entry
    BY <1>1, <1>8 DEF DnsFails, Again
  <2> QED BY <1>1, <1>2, <2>1 DEF EntryInv, FiberInv
<1>9. CASE Store(f)
  <2>1. /\ resolver'[f] = [resolver[f] EXCEPT !.pc = "returned"] /\ resolver[f].pc = "answered"
        /\ entry' = [address |-> resolver[f].address, expires |-> resolver[f].now + TTL]
    BY <1>1, <1>9 DEF Store, Expires
  <2>2. resolver[f].address \in Addresses /\ RightAt(resolver[f].address, resolver[f].now)
    BY <1>1, <1>2, <2>1 DEF FiberInv, Addresses
  <2>3. /\ resolver'[f].pc = "returned" /\ resolver'[f].now = resolver[f].now
        /\ resolver'[f].address = resolver[f].address /\ changed' = changed
        /\ resolver[f].now \in 0 .. MaxTime /\ resolver[f].now <= clock
        /\ resolver[f].address \in 1 .. MaxAddress /\ changed[resolver[f].address] \in Nat
    BY <1>1, <1>2, <2>1, <2>2 DEF FiberInv, Addresses
  <2>4. FiberInv(f)'
    BY <1>1, <1>2, <2>2, <2>3 DEF FiberInv, RightAt
  <2>5. EntryInv'
    BY <1>1, <1>2, <2>1, <2>2, <2>3 DEF EntryInv, RightAt
  <2> QED BY <1>1, <1>2, <2>1, <2>3, <2>4, <2>5
<1> QED BY <1>5, <1>6, <1>7, <1>8, <1>9

LEMMA ResolverKept ==
  ASSUME CacheInv, [ResolverNext]_resolverVars
  PROVE  CacheInv'
<1>1. CASE UNCHANGED resolverVars
  BY <1>1 DEF resolverVars, CacheInv, ResolverTypeOK, HistoryInv, EntryInv, FiberInv, RightAt
<1> QED BY <1>1, TickStep, ChangeStep, ResolverStep DEF ResolverNext

-----------------------------------------------------------------------------
\* Neither what the cache would serve nor what async_resolve returns is older than the
\* TTL, whatever order the lookups of several fibers store their answers in.
THEOREM AnswersAreFresh == ResolverSpec => []ResolverInv
<1>1. ResolverInit => CacheInv
  BY ResolverAtStart
<1>2. CacheInv /\ [ResolverNext]_resolverVars => CacheInv'
  BY ResolverKept
<1>3. CacheInv => ResolverInv
  <2>1. ASSUME CacheInv PROVE CachedAnswersAreFresh
    <3>1. /\ entry.address # 0 => entry.address \in Addresses
          /\ entry.expires \in Nat /\ clock \in Nat /\ changed \in [Addresses -> Nat]
      BY <2>1 DEF CacheInv, ResolverTypeOK, Addresses
    <3> QED BY <2>1, <3>1 DEF CacheInv, EntryInv, CachedAnswersAreFresh
  <2>2. ASSUME CacheInv PROVE ReturnedAnswersAreFresh
    BY <2>2 DEF CacheInv, FiberInv, ReturnedAnswersAreFresh
  <2> QED BY <2>1, <2>2 DEF CacheInv, ResolverInv
<1> QED BY <1>1, <1>2, <1>3, PTL DEF ResolverSpec

=============================================================================
