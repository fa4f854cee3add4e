----------------------------- MODULE FiberCache -----------------------------
(***************************************************************************)
(* The thread local cache of handler fibers (fiber_cache) on one worker,   *)
(* from the registration of its io service over unregister_io_service on   *)
(* the main thread to the stop of the io service.                          *)
(*                                                                         *)
(* Fibers of the worker are cooperative: an action runs from one point     *)
(* where the fiber blocks to the next one.  A function given to the cache  *)
(* may block anywhere, so it starts and ends in two actions.  The lambdas  *)
(* of the main thread run on the worker's io service in the order they     *)
(* were posted; the last one blocks it while it joins the fibers.          *)
(***************************************************************************)
EXTENDS Naturals, Sequences, SequencesExt

CONSTANTS
  Funcs,      \* the functions (requests) that are run, each once
  MaxFibers,  \* bound on the fiber contexts
  NoFunc,     \* func == nullptr
  NoCache     \* m_cache == nullptr

ASSUME FiberAssumption ==
  /\ MaxFibers \in Nat
  /\ NoFunc \notin Funcs
  /\ NoCache \notin Seq(1 .. MaxFibers)

Contexts == 1 .. MaxFibers   \* in the order get_fiber creates them
Lambdas  == {"make", "stop", "count", "join"}

VARIABLES
  m_cache,    \* the idle fibers, used as a stack, or NoCache
  m_fib_cnt,  \* fibers created by get_fiber
  m_stop,     \* set at shutdown, never reset
  fiber,      \* per context: where its fiber is
  func,       \* per context: the function it has to run
  status,     \* per function: how far it got
  runs,       \* per function: how often it was started
  posted,     \* lambdas in the worker's io service
  joining,    \* position of the "join" lambda in m_cache, 0 when it does not run
  main        \* the main thread: which lambda it waits for, or what it does

contexts == <<m_cache, m_fib_cnt, fiber, func>>
vars == <<contexts, m_stop, status, runs, posted, joining, main>>

TypeOK ==
  /\ m_cache \in Seq(Contexts) \cup {NoCache}
  /\ m_fib_cnt \in 0 .. MaxFibers
  /\ m_cache # NoCache => Len(m_cache) <= m_fib_cnt
  /\ m_stop \in BOOLEAN
  /\ fiber \in [Contexts -> {"none", "ready", "running", "waiting", "ended"}]
  /\ func \in [Contexts -> Funcs \cup {NoFunc}]
  /\ status \in [Funcs -> {"new", "cached", "detached", "running", "done"}]
  /\ runs \in [Funcs -> Nat]
  /\ posted \in Seq(Lambdas)
  /\ joining \in 0 .. MaxFibers
  /\ main \in {"start", "serving", "stopping", "counting", "active", "idle", "joining", "stopped", "ended"}

Init ==
  /\ m_cache = NoCache /\ m_fib_cnt = 0 /\ m_stop = FALSE
  /\ fiber = [x \in Contexts |-> "none"]
  /\ func = [x \in Contexts |-> NoFunc]
  /\ status = [f \in Funcs |-> "new"]
  /\ runs = [f \in Funcs |-> 0]
  /\ posted = <<>> /\ joining = 0
  /\ main = "start"

-----------------------------------------------------------------------------
(* run, called by a session or by the HTTP/2 server on the worker.         *)

\* Slip: the stop flag is not looked at.
BadNoFiberAvailable == m_cache = NoCache

NoFiberAvailable == m_stop \/ m_cache = NoCache

\* cv.notify_one: wakes fiber x when it waits, and is forgotten when not.
Notify(x) == [fiber EXCEPT ![x] = IF @ = "waiting" THEN "ready" ELSE @]

\* Slip: the fiber stays in the cache.
BadPopFiber(x) == x = Last(m_cache) /\ UNCHANGED m_cache

\* get_fiber when the cache has a fiber: back and pop_back.
PopFiber(x) == x = Last(m_cache) /\ m_cache' = Front(m_cache)

RunCached(f) ==
  /\ ~NoFiberAvailable /\ m_cache # <<>> /\ status[f] = "new"
  /\ \E x \in Contexts :
       /\ PopFiber(x)
       /\ func' = [func EXCEPT ![x] = f]
       /\ fiber' = Notify(x)
  /\ status' = [status EXCEPT ![f] = "cached"]
  /\ UNCHANGED <<m_fib_cnt, m_stop, runs, posted, joining, main>>

\* get_fiber when the cache is empty: the new fiber is ready, and finds func
\* set when it first runs; the notification finds nobody waiting.
RunNew(f) ==
  /\ ~NoFiberAvailable /\ m_cache = <<>> /\ status[f] = "new"
  /\ m_fib_cnt < MaxFibers
  /\ LET x == m_fib_cnt + 1 IN
       /\ fiber' = [fiber EXCEPT ![x] = "ready"]
       /\ func' = [func EXCEPT ![x] = f]
       /\ m_fib_cnt' = x
  /\ status' = [status EXCEPT ![f] = "cached"]
  /\ UNCHANGED <<m_cache, m_stop, runs, posted, joining, main>>

\* No cache: a fiber of its own, detached.  Nobody waits for it in a stop, and
\* it never runs again once the io service is stopped.
RunDetached(f) ==
  /\ main # "ended"
  /\ NoFiberAvailable /\ status[f] = "new"
  /\ status' = [status EXCEPT ![f] = "detached"]
  /\ UNCHANGED <<contexts, m_stop, runs, posted, joining, main>>

-----------------------------------------------------------------------------
(* The fibers.                                                             *)

\* func is set: it starts, and may block.
StartWork(x) ==
  /\ fiber[x] = "ready" /\ func[x] # NoFunc
  /\ fiber' = [fiber EXCEPT ![x] = "running"]
  /\ status' = [status EXCEPT ![func[x]] = "running"]
  /\ runs' = [runs EXCEPT ![func[x]] = @ + 1]
  /\ UNCHANGED <<m_cache, m_fib_cnt, func, m_stop, posted, joining, main>>

\* Slip: func keeps its value.
BadFinishWork(x) ==
  /\ fiber[x] = "running"
  /\ fiber' = [fiber EXCEPT ![x] = "waiting"]
  /\ status' = [status EXCEPT ![func[x]] = "done"]
  /\ m_cache' = IF m_cache = NoCache THEN NoCache ELSE Append(m_cache, x)
  /\ UNCHANGED <<m_fib_cnt, func, m_stop, runs, posted, joining, main>>

\* Slip: the fiber is dropped when a stop is on its way.
BadBackToCache(x) == IF NoFiberAvailable THEN m_cache ELSE Append(m_cache, x)

BackToCache(x) == IF m_cache = NoCache THEN m_cache ELSE Append(m_cache, x)

\* The function returns: func = nullptr, the fiber goes back to the cache, and
\* waits on cv, all without blocking in between.
FinishWork(x) ==
  /\ fiber[x] = "running"
  /\ status' = [status EXCEPT ![func[x]] = "done"]
  /\ func' = [func EXCEPT ![x] = NoFunc]
  /\ m_cache' = BackToCache(x)
  /\ fiber' = [fiber EXCEPT ![x] = "waiting"]
  /\ UNCHANGED <<m_fib_cnt, m_stop, runs, posted, joining, main>>

\* Woken without a function: the fiber returns, and a join on it with it.
ExitFiber(x) ==
  /\ fiber[x] = "ready" /\ func[x] = NoFunc
  /\ fiber' = [fiber EXCEPT ![x] = "ended"]
  /\ UNCHANGED <<m_cache, m_fib_cnt, func, m_stop, status, runs, posted, joining, main>>

StartDetached(f) ==
  /\ main # "ended"
  /\ status[f] = "detached" /\ runs[f] = 0
  /\ runs' = [runs EXCEPT ![f] = 1]
  /\ UNCHANGED <<contexts, m_stop, status, posted, joining, main>>

FinishDetached(f) ==
  /\ main # "ended"
  /\ status[f] = "detached" /\ runs[f] > 0
  /\ status' = [status EXCEPT ![f] = "done"]
  /\ UNCHANGED <<contexts, m_stop, runs, posted, joining, main>>

-----------------------------------------------------------------------------
(* Registration, and the four steps of unregister_io_service.              *)

\* The main thread goes from a to b and posts a lambda, which it waits for in
\* io_service_post_wait unless it is "make".
Posts(a, lambda, b) ==
  /\ main = a /\ main' = b
  /\ posted' = Append(posted, lambda)
  /\ UNCHANGED <<contexts, m_stop, status, runs, joining>>

RegisterIoService   == Posts("start", "make", "serving")
UnregisterIoService == Posts("serving", "stop", "stopping")
CountFibers         == Posts("active", "count", "counting")   \* after sleep_for(100ms)
JoinFibers          == Posts("idle", "join", "joining")

\* The caches are gone; worker::stop sleeps 50ms and stops the io service.
StopIoService ==
  /\ main = "stopped" /\ main' = "ended"
  /\ UNCHANGED <<contexts, m_stop, status, runs, posted, joining>>

RunsPosted(lambda) ==
  /\ joining = 0 /\ posted # <<>> /\ Head(posted) = lambda
  /\ posted' = Tail(posted)
  /\ UNCHANGED <<m_fib_cnt, func, status, runs>>

MakeCache ==
  /\ RunsPosted("make")
  /\ m_cache' = <<>>
  /\ UNCHANGED <<m_stop, fiber, joining, main>>

SetStop ==
  /\ RunsPosted("stop")
  /\ m_stop' = TRUE /\ main' = "active"
  /\ UNCHANGED <<m_cache, fiber, joining>>

NoActiveFibers == m_fib_cnt = Len(m_cache)

Count ==
  /\ RunsPosted("count")
  /\ main' = IF NoActiveFibers THEN "idle" ELSE "active"
  /\ UNCHANGED <<m_cache, m_stop, fiber, joining>>

\* Join the i-th fiber of the cache, or reset the cache when there is none.
JoinNext(i) ==
  IF i <= Len(m_cache)
    THEN /\ fiber' = Notify(m_cache[i])
         /\ joining' = i
         /\ UNCHANGED <<m_cache, main>>
    ELSE /\ m_cache' = NoCache /\ main' = "stopped" /\ joining' = 0
         /\ UNCHANGED fiber

StartJoin == RunsPosted("join") /\ JoinNext(1) /\ UNCHANGED m_stop

ContinueJoin ==
  /\ joining > 0 /\ fiber[m_cache[joining]] = "ended"
  /\ JoinNext(joining + 1)
  /\ UNCHANGED <<m_fib_cnt, func, m_stop, status, runs, posted>>

-----------------------------------------------------------------------------
FiberStep(x) == StartWork(x) \/ FinishWork(x) \/ ExitFiber(x)
DetachedStep(f) == StartDetached(f) \/ FinishDetached(f)
WorkerStep == MakeCache \/ SetStop \/ Count \/ StartJoin \/ ContinueJoin

Next ==
  \/ \E f \in Funcs : RunCached(f) \/ RunNew(f) \/ RunDetached(f) \/ DetachedStep(f)
  \/ \E x \in Contexts : FiberStep(x)
  \/ RegisterIoService \/ UnregisterIoService \/ CountFibers \/ JoinFibers
  \/ StopIoService \/ WorkerStep

Spec == Init /\ [][Next]_vars

\* While the io service runs, ready fibers run (pick_next takes them in order)
\* and so do posted lambdas; the main thread goes on with a stop to its end,
\* whatever the detached fibers do.  FinishWork and FinishDetached are the
\* assumption that every request ends.  Nobody has to call run, or to stop.
FairSpec ==
  /\ Spec
  /\ \A x \in Contexts : WF_vars(FiberStep(x))
  /\ \A f \in Funcs : WF_vars(DetachedStep(f))
  /\ WF_vars(WorkerStep) /\ WF_vars(CountFibers) /\ WF_vars(JoinFibers)
  /\ WF_vars(StopIoService)

-----------------------------------------------------------------------------
(* Safety.                                                                 *)

Cached(x) == m_cache # NoCache /\ \E i \in DOMAIN m_cache : m_cache[i] = x

\* A fiber waits for work (cv.wait has no predicate) exactly while it is in the
\* cache once and has nothing to do: no waiting fiber is out of reach of run and
\* of the join, and run never overwrites the function of a fiber at work.
WaitingMeansCached ==
  /\ \A x \in Contexts : fiber[x] = "waiting" => Cached(x)
  /\ m_cache # NoCache => IsInjective(m_cache)
  /\ joining = 0 => \A x \in Contexts : Cached(x) => fiber[x] = "waiting" /\ func[x] = NoFunc

\* A function is started at most once, however often its fiber is woken, and is
\* not dropped: before its end it is in a fiber that is ready or at work.
RunsOnce ==
  \A f \in Funcs :
    /\ runs[f] <= 1
    /\ status[f] = "done" => runs[f] = 1
    /\ status[f] \in {"cached", "running"} =>
         \E x \in Contexts : func[x] = f /\ fiber[x] \in {"ready", "running"}

\* From the moment the main thread has seen m_fib_cnt = m_cache->size(), no
\* cached fiber works again, and when the cache is reset all fibers have ended:
\* join never waits for a request, and none refers to a cache that is gone.
NothingActiveAtReset ==
  /\ main \in {"idle", "joining"} => \A x \in Contexts : fiber[x] # "running" /\ func[x] = NoFunc
  /\ main \in {"stopped", "ended"} => \A x \in Contexts : fiber[x] \in {"none", "ended"}

(* Liveness.                                                               *)

\* What is given to a fiber of the cache is run to its end, also while the
\* server stops: a stop waits for it.  A detached function has no such promise,
\* it ends or the io service is stopped under it.  A stop that began ends: the
\* count of fibers is met and every join returns, whatever requests come.
CachedWorkEnds   == \A f \in Funcs : status[f] \in {"cached", "running"} ~> status[f] = "done"
DetachedWorkEnds == \A f \in Funcs : status[f] = "detached" ~> status[f] = "done" \/ main = "ended"
StopEnds         == main = "stopping" ~> main = "ended"
WorkAndStopEnd   == CachedWorkEnds /\ DetachedWorkEnds /\ StopEnds

=============================================================================
