--------------------------- MODULE WorkerSessions ---------------------------
(***************************************************************************)
(* How a connection gets to its session in the HTTP/1 server: the accept   *)
(* fibers (worker::do_accept), the fiber of every worker that starts new   *)
(* sessions (worker::run), and worker::stop on the main thread.            *)
(*                                                                         *)
(* An accept fiber runs on the worker that has the acceptor and hands the  *)
(* connection to the worker that get_worker picks, which may be another    *)
(* thread: it appends to that worker's m_new_sessions under its            *)
(* m_new_session_mtx and notifies its m_new_session_cv.                    *)
(*                                                                         *)
(* Fibers of one thread are cooperative: active[w] is the fiber that has   *)
(* thread w, and gives it away only where it blocks (on the mutex, on the  *)
(* condition variable, on async_accept).  Fibers of different threads      *)
(* interleave at every step.                                               *)
(***************************************************************************)
EXTENDS Integers, Sequences, FiniteSets

CONSTANTS
  NumWorkers,    \* option server.workers
  NumEndpoints,  \* the addresses server.listen resolves to, one acceptor each
  MaxSessions    \* bound on the connections

ASSUME WorkerAssumption ==
  /\ NumWorkers \in Nat \ {0}
  /\ NumEndpoints \in Nat \ {0}
  /\ MaxSessions \in Nat

Workers   == 0 .. NumWorkers - 1
Acceptors == 0 .. NumEndpoints - 1
Sessions  == 1 .. MaxSessions   \* in the order of their connections

\* add_endpoint is called on the workers that get_worker returns first.
HomeOf(a) == a % NumWorkers

NoFiber == <<"none">>
Accept(a) == <<"accept", a>>
Starter(w) == <<"starter", w>>
Fibers == {NoFiber} \cup {Accept(a) : a \in Acceptors} \cup {Starter(w) : w \in Workers}

VARIABLES
  connected,          \* how many connections were accepted
  m_next_worker,      \* the round robin counter of get_worker
  open,               \* the acceptors that are open
  acceptor,           \* per accept fiber: [pc, worker, session]
  m_new_sessions,     \* per worker: sessions to be started
  m_new_session_mtx,  \* per worker: the fiber that holds the mutex
  starter,            \* per worker: where the fiber that starts sessions is
  started,            \* per worker: the sessions it started
  active,             \* per worker: the fiber that has the thread
  running,            \* workers in io_service::run
  m_stop,             \* per worker: its stop flag
  main                \* the main thread: [pc, w]

threads == <<active, running>>
queues  == <<m_new_sessions, m_new_session_mtx, started>>
vars == <<connected, m_next_worker, open, acceptor, queues, starter, threads, m_stop, main>>

AcceptFiber == [pc : {"loop", "accepting", "add", "push", "notify", "ended"},
                worker : Workers, session : Sessions \cup {0}]

TypeOK ==
  /\ connected \in 0 .. MaxSessions
  /\ m_next_worker \in Workers
  /\ open \subseteq Acceptors
  /\ acceptor \in [Acceptors -> AcceptFiber]
  /\ m_new_sessions \in [Workers -> Seq(Sessions)]
  /\ m_new_session_mtx \in [Workers -> Fibers]
  /\ starter \in [Workers -> {"new", "check", "lock", "wait", "waiting", "woken",
                              "start", "clear", "exited"}]
  /\ started \in [Workers -> Seq(Sessions)]
  /\ active \in [Workers -> Fibers]
  /\ running \subseteq Workers
  /\ m_stop \in [Workers -> BOOLEAN]
  /\ main \in [pc : {"start", "serve", "flag", "notify", "close", "stop", "stopped"},
               w : Nat]

\* start_http has added the endpoints.
Init ==
  /\ connected = 0
  /\ m_next_worker = NumEndpoints % NumWorkers
  /\ open = Acceptors
  /\ acceptor = [a \in Acceptors |-> [pc |-> "loop", worker |-> 0, session |-> 0]]
  /\ m_new_sessions = [w \in Workers |-> <<>>]
  /\ m_new_session_mtx = [w \in Workers |-> NoFiber]
  /\ starter = [w \in Workers |-> "new"]
  /\ started = [w \in Workers |-> <<>>]
  /\ active = [w \in Workers |-> NoFiber]
  /\ running = {}
  /\ m_stop = [w \in Workers |-> FALSE]
  /\ main = [pc |-> "start", w |-> 0]

-----------------------------------------------------------------------------
(* Threads and mutexes.                                                    *)

\* Fiber f of thread w can take a step, as the active fiber or the next one.
CanRun(w, f) == w \in running /\ active[w] \in {NoFiber, f}

KeepsThread(w, f) == active' = [active EXCEPT ![w] = f] /\ UNCHANGED running
YieldsThread(w) == active' = [active EXCEPT ![w] = NoFiber] /\ UNCHANGED running

Lock(w, f) ==
  /\ m_new_session_mtx[w] = NoFiber
  /\ m_new_session_mtx' = [m_new_session_mtx EXCEPT ![w] = f]

Unlock(w) == m_new_session_mtx' = [m_new_session_mtx EXCEPT ![w] = NoFiber]

\* The active fiber f of thread w finds mutex m held and is suspended.
Suspend(w, f, m) ==
  /\ w \in running /\ active[w] = f
  /\ m_new_session_mtx[m] # NoFiber
  /\ YieldsThread(w)
  /\ UNCHANGED <<connected, m_next_worker, open, acceptor, queues, starter, m_stop, main>>

\* notify_one: wakes the starter when it waits, and is forgotten when not.
NotifyOne(w) ==
  starter' = [starter EXCEPT ![w] = IF @ = "waiting" THEN "woken" ELSE @]

-----------------------------------------------------------------------------
(* worker::do_accept, fiber a.                                             *)

AcceptorAt(a, pc) == acceptor[a].pc = pc /\ CanRun(HomeOf(a), Accept(a))

\* Slip: the counter is not reduced to an index of m_workers.
BadAcceptLoop(a) ==
  /\ AcceptorAt(a, "loop") /\ a \in open
  /\ acceptor' = [acceptor EXCEPT
       ![a] = [pc |-> "accepting", worker |-> m_next_worker, session |-> 0]]
  /\ m_next_worker' = m_next_worker + 1
  /\ YieldsThread(HomeOf(a))
  /\ UNCHANGED <<connected, open, queues, starter, m_stop, main>>

\* get_worker, a session for that worker, and async_accept, which blocks.
AcceptLoop(a) ==
  /\ AcceptorAt(a, "loop") /\ a \in open
  /\ acceptor' = [acceptor EXCEPT
       ![a] = [pc |-> "accepting", worker |-> m_next_worker, session |-> 0]]
  /\ m_next_worker' = (m_next_worker + 1) % NumWorkers
  /\ YieldsThread(HomeOf(a))
  /\ UNCHANGED <<connected, open, queues, starter, m_stop, main>>

AcceptEnds(a) ==
  /\ AcceptorAt(a, "loop") /\ a \notin open
  /\ acceptor' = [acceptor EXCEPT ![a].pc = "ended"]
  /\ YieldsThread(HomeOf(a))
  /\ UNCHANGED <<connected, m_next_worker, open, queues, starter, m_stop, main>>

\* Slip: a connection can be taken before the worker's other fibers ran.
BadAccepted(a) ==
  /\ AcceptorAt(a, "accepting")
  /\ connected < MaxSessions
  /\ connected' = connected + 1
  /\ acceptor' = [acceptor EXCEPT ![a].pc = "add", ![a].session = connected']
  /\ KeepsThread(HomeOf(a), Accept(a))
  /\ UNCHANGED <<m_next_worker, open, queues, starter, m_stop, main>>

\* async_accept completes, perhaps for a connection that came before the acceptor
\* was closed.  Fibers get their thread in the order in which they became
\* ready (pick_next), so the starter, created by run, had it before.
Accepted(a) ==
  /\ AcceptorAt(a, "accepting")
  /\ starter[HomeOf(a)] # "new"
  /\ connected < MaxSessions
  /\ connected' = connected + 1
  /\ acceptor' = [acceptor EXCEPT ![a].pc = "add", ![a].session = connected']
  /\ KeepsThread(HomeOf(a), Accept(a))
  /\ UNCHANGED <<m_next_worker, open, queues, starter, m_stop, main>>

\* async_accept fails, because the acceptor was closed or the connection is gone.
AcceptFails(a) ==
  /\ AcceptorAt(a, "accepting")
  /\ acceptor' = [acceptor EXCEPT ![a].pc = "loop"]
  /\ KeepsThread(HomeOf(a), Accept(a))
  /\ UNCHANGED <<connected, m_next_worker, open, queues, starter, m_stop, main>>

\* Slip: the mutex of the accepting worker is locked, not that of the session's.
BadAddSession(a) ==
  /\ AcceptorAt(a, "add")
  /\ m_new_session_mtx[HomeOf(a)] = NoFiber
  /\ acceptor' = [acceptor EXCEPT ![a].pc = "push"]
  /\ KeepsThread(HomeOf(a), Accept(a))
  /\ UNCHANGED <<connected, m_next_worker, open, queues, starter, m_stop, main>>

AddSession(a) ==
  /\ AcceptorAt(a, "add")
  /\ Lock(acceptor[a].worker, Accept(a))
  /\ acceptor' = [acceptor EXCEPT ![a].pc = "push"]
  /\ KeepsThread(HomeOf(a), Accept(a))
  /\ UNCHANGED <<connected, m_next_worker, open, m_new_sessions, started, starter,
                 m_stop, main>>

PushSession(a) ==
  /\ AcceptorAt(a, "push")
  /\ LET w == acceptor[a].worker
     IN /\ m_new_sessions' = [m_new_sessions EXCEPT ![w] = Append(@, acceptor[a].session)]
        /\ Unlock(w)
  /\ acceptor' = [acceptor EXCEPT ![a].pc = "notify", ![a].session = 0]
  /\ KeepsThread(HomeOf(a), Accept(a))
  /\ UNCHANGED <<connected, m_next_worker, open, started, starter, m_stop, main>>

NotifyWorker(a) ==
  /\ AcceptorAt(a, "notify")
  /\ NotifyOne(acceptor[a].worker)
  /\ acceptor' = [acceptor EXCEPT ![a].pc = "loop"]
  /\ KeepsThread(HomeOf(a), Accept(a))
  /\ UNCHANGED <<connected, m_next_worker, open, queues, m_stop, main>>

AcceptFiberStep(a) ==
  \/ AcceptLoop(a) \/ AcceptEnds(a) \/ AcceptFails(a)
  \/ AddSession(a) \/ PushSession(a) \/ NotifyWorker(a)
  \/ acceptor[a].pc = "add" /\ Suspend(HomeOf(a), Accept(a), acceptor[a].worker)

-----------------------------------------------------------------------------
(* worker::run: the fiber that starts the sessions of worker w.            *)

StarterAt(w, pc) == starter[w] = pc /\ CanRun(w, Starter(w))

\* while (!m_stop)
CheckStop(w) ==
  /\ StarterAt(w, "new") \/ StarterAt(w, "check")
  /\ \/ /\ ~m_stop[w]
        /\ starter' = [starter EXCEPT ![w] = "lock"]
        /\ KeepsThread(w, Starter(w))
     \/ /\ m_stop[w]
        /\ starter' = [starter EXCEPT ![w] = "exited"]
        /\ YieldsThread(w)
  /\ UNCHANGED <<connected, m_next_worker, open, acceptor, queues, m_stop, main>>

\* The lock before the wait, and the lock that the wait takes again.
LockSessions(w) ==
  /\ StarterAt(w, "lock") \/ StarterAt(w, "woken")
  /\ Lock(w, Starter(w))
  /\ starter' = [starter EXCEPT ![w] = IF @ = "lock" THEN "wait" ELSE "start"]
  /\ KeepsThread(w, Starter(w))
  /\ UNCHANGED <<connected, m_next_worker, open, acceptor, m_new_sessions, started,
                 m_stop, main>>

\* m_new_session_cv.wait, which does not look at m_new_sessions.
WaitForSessions(w) ==
  /\ StarterAt(w, "wait")
  /\ Unlock(w)
  /\ starter' = [starter EXCEPT ![w] = "waiting"]
  /\ YieldsThread(w)
  /\ UNCHANGED <<connected, m_next_worker, open, acceptor, m_new_sessions, started,
                 m_stop, main>>

\* A fiber per session ...
StartSessions(w) ==
  /\ StarterAt(w, "start")
  /\ started' = [started EXCEPT ![w] = @ \o m_new_sessions[w]]
  /\ starter' = [starter EXCEPT ![w] = "clear"]
  /\ KeepsThread(w, Starter(w))
  /\ UNCHANGED <<connected, m_next_worker, open, acceptor, m_new_sessions,
                 m_new_session_mtx, m_stop, main>>

\* ... and the list is cleared and the mutex unlocked.
ClearSessions(w) ==
  /\ StarterAt(w, "clear")
  /\ m_new_sessions' = [m_new_sessions EXCEPT ![w] = <<>>]
  /\ Unlock(w)
  /\ starter' = [starter EXCEPT ![w] = "check"]
  /\ KeepsThread(w, Starter(w))
  /\ UNCHANGED <<connected, m_next_worker, open, acceptor, started, m_stop, main>>

StarterStep(w) ==
  \/ CheckStop(w) \/ LockSessions(w) \/ WaitForSessions(w)
  \/ StartSessions(w) \/ ClearSessions(w)
  \/ starter[w] \in {"lock", "woken"} /\ Suspend(w, Starter(w), w)

-----------------------------------------------------------------------------
(* The main thread: start_http and the workers' stop, worker by worker.    *)

NextWorker(pc, after) ==
  main' = IF main.w + 1 \in Workers
            THEN [pc |-> pc, w |-> main.w + 1]
            ELSE [pc |-> after, w |-> 0]

StartWorker ==
  /\ main.pc = "start"
  /\ running' = running \cup {main.w}
  /\ NextWorker("start", "serve")
  /\ UNCHANGED <<connected, m_next_worker, open, acceptor, queues, starter, active, m_stop>>

\* A signal arrives; worker::stop sets the flag of the first worker ...
StopFlag ==
  /\ main.pc \in {"serve", "flag"}
  /\ m_stop' = [m_stop EXCEPT ![main.w] = TRUE]
  /\ main' = [main EXCEPT !.pc = "notify"]
  /\ UNCHANGED <<connected, m_next_worker, open, acceptor, queues, starter, threads>>

\* ... notifies its starter, without the mutex ...
StopNotify ==
  /\ main.pc = "notify"
  /\ NotifyOne(main.w)
  /\ main' = [main EXCEPT !.pc = "close"]
  /\ UNCHANGED <<connected, m_next_worker, open, acceptor, queues, threads, m_stop>>

\* ... closes its acceptors ...
CloseAcceptors ==
  /\ main.pc = "close"
  /\ open' = {a \in open : HomeOf(a) # main.w}
  /\ main' = [main EXCEPT !.pc = "stop"]
  /\ UNCHANGED <<connected, m_next_worker, acceptor, queues, starter, threads, m_stop>>

\* ... and stops its io service: run returns when no fiber has the thread.
StopIoService ==
  /\ main.pc = "stop"
  /\ active[main.w] = NoFiber
  /\ running' = running \ {main.w}
  /\ NextWorker("flag", "stopped")
  /\ UNCHANGED <<connected, m_next_worker, open, acceptor, queues, starter, active, m_stop>>

Stop == StopFlag \/ StopNotify \/ CloseAcceptors \/ StopIoService

\* The server has stopped.
Terminated == main.pc = "stopped" /\ UNCHANGED vars

Next == \/ \E a \in Acceptors : AcceptFiberStep(a) \/ Accepted(a)
        \/ \E w \in Workers : StarterStep(w)
        \/ StartWorker \/ Stop \/ Terminated

Spec == Init /\ [][Next]_vars

\* The workers are started, and a stop that began goes on.  A fiber that can run again and again gets its
\* thread and its mutex: both are first come, first served (pick_next and the
\* wait queue of bf::mutex).  Nobody has to connect, no signal has to come.
Fairness ==
  /\ WF_vars(StartWorker)
  /\ WF_vars(main.pc # "serve" /\ Stop)
  /\ \A a \in Acceptors : SF_vars(acceptor[a].pc # "accepting" /\ AcceptFiberStep(a))
  /\ \A w \in Workers : SF_vars(StarterStep(w))

FairSpec == Spec /\ Fairness

-----------------------------------------------------------------------------
(* Properties.                                                             *)

Contents(q) == {q[i] : i \in DOMAIN q}

\* Where a session is: with the fiber that accepted it, waiting, or started.
\* Between StartSessions and ClearSessions the list holds only started ones.
Places(s) ==
  {Accept(a) : a \in {b \in Acceptors : acceptor[b].session = s}}
  \cup {<<"new", w>> : w \in {v \in Workers :
          starter[v] # "clear" /\ s \in Contents(m_new_sessions[v])}}
  \cup {p \in Workers \X Sessions :
          p[2] \in DOMAIN started[p[1]] /\ started[p[1]][p[2]] = s}

\* Every accepted connection is in exactly one place, whatever the other threads
\* do: none is cleared from a list unstarted, and none is started twice.
EachSessionOnce == \A s \in 1 .. connected : Cardinality(Places(s)) = 1

\* A worker whose connections all come from accept fibers of its own thread
\* starts every session handed to it: these fibers run only while the starter
\* waits or was woken, so no notification is lost.  (One worker is the default.)
OwnSessionsStart ==
  \A w \in Workers, s \in Sessions :
    (\A a \in Acceptors : HomeOf(a) = w)
      => (s \in Contents(m_new_sessions[w]) ~> s \in Contents(started[w]) \/ m_stop[w])

\* session.h: "Each new client gets handled by a session object"; with several
\* workers this asks that a session handed to another thread is started too.
EverySessionStarts ==
  \A w \in Workers, s \in Sessions :
    s \in Contents(m_new_sessions[w]) ~> s \in Contents(started[w]) \/ m_stop[w]

=============================================================================
