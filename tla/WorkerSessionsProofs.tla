------------------------- MODULE WorkerSessionsProofs ------------------------
(***************************************************************************)
(* Proofs about WorkerSessions, for any number of workers, acceptors and   *)
(* connections: no session is lost on its way to a worker or started       *)
(* twice.                                                                  *)
(***************************************************************************)
EXTENDS WorkerSessions, FiniteSetTheorems, TLAPS

-----------------------------------------------------------------------------
(* Types.                                                                  *)

\* An accept fiber has a session exactly from its connection to push_back.
HandInv ==
  \A a \in Acceptors : acceptor[a].session # 0 <=> acceptor[a].pc \in {"add", "push"}

TypeInv == TypeOK /\ HandInv /\ main.w \in Workers

LEMMA HomeIsWorker ==
  /\ 0 \in Workers
  /\ \A a \in Acceptors : HomeOf(a) \in Workers
  /\ NumEndpoints % NumWorkers \in Workers
  /\ \A k \in Workers : (k + 1) % NumWorkers \in Workers
BY WorkerAssumption DEF Workers, Acceptors, HomeOf

LEMMA FibersDiffer ==
  /\ \A a \in Acceptors : Accept(a) \in Fibers /\ Accept(a) # NoFiber
  /\ \A w \in Workers : Starter(w) \in Fibers /\ Starter(w) # NoFiber
  /\ NoFiber \in Fibers
  /\ \A a \in Acceptors, w \in Workers : Accept(a) # Starter(w)
  /\ \A a, b \in Acceptors : Accept(a) = Accept(b) => a = b
BY DEF Fibers, Accept, Starter, NoFiber

MainPcs == {"start", "serve", "flag", "notify", "close", "stop", "stopped"}

LEMMA MainMoves ==
  ASSUME main.w \in Workers, NEW pc \in MainPcs, NEW after \in MainPcs, NextWorker(pc, after)
  PROVE  main' \in [pc : MainPcs, w : Nat] /\ main'.w \in Workers
<1>1. Workers \subseteq Nat /\ main.w + 1 \in Nat
  BY WorkerAssumption DEF Workers
<1>2. CASE main.w + 1 \in Workers
  BY <1>1, <1>2 DEF NextWorker
<1>3. CASE main.w + 1 \notin Workers
  BY <1>1, <1>3, HomeIsWorker DEF NextWorker
<1> QED
  BY <1>2, <1>3

LEMMA FiberWaits ==
  ASSUME acceptor \in [Acceptors -> AcceptFiber], HandInv, NEW a \in Acceptors,
         acceptor[a].pc \notin {"add", "push"}, NEW p \in {"loop", "ended"},
         acceptor' = [acceptor EXCEPT ![a].pc = p]
  PROVE  acceptor' \in [Acceptors -> AcceptFiber] /\ HandInv'
<1>1. PICK x \in AcceptFiber : x = acceptor[a] /\ x.session = 0
  BY DEF HandInv
<1>2. PICK y \in AcceptFiber : y = [x EXCEPT !.pc = p] /\ y.pc = p /\ y.session = 0
  BY <1>1 DEF AcceptFiber
<1>3. acceptor' = [acceptor EXCEPT ![a] = y]
  BY <1>1, <1>2
<1>4. acceptor'[a] = y /\ \A b \in Acceptors \ {a} : acceptor'[b] = acceptor[b]
  BY <1>3
<1> QED
  BY <1>2, <1>3, <1>4 DEF HandInv

LEMMA Types == Spec => []TypeInv
<1>1. Init => TypeInv
  BY HomeIsWorker, FibersDiffer, WorkerAssumption DEF Init, TypeInv, TypeOK, HandInv, AcceptFiber, Sessions
<1>2. TypeInv /\ [Next]_vars => TypeInv'
  <2> SUFFICES ASSUME TypeInv, [Next]_vars PROVE TypeInv'
    OBVIOUS
  <2> USE HomeIsWorker, FibersDiffer DEF TypeInv, TypeOK, HandInv, MainPcs
  <2> USE DEF threads, queues, CanRun, KeepsThread, YieldsThread, Lock, Unlock, NotifyOne
  <2>1. ASSUME NEW a \in Acceptors, AcceptLoop(a) PROVE TypeInv'
    <3>1. m_next_worker' \in Workers
      BY <2>1, WorkerAssumption DEF AcceptLoop, Workers
    <3>2. acceptor' = [acceptor EXCEPT ![a] = [pc |-> "accepting", worker |-> m_next_worker, session |-> 0]]
      BY <2>1 DEF AcceptLoop
    <3>3. acceptor' \in [Acceptors -> AcceptFiber] /\ HandInv'
      BY <3>2 DEF AcceptFiber
    <3>4. active' \in [Workers -> Fibers]
      BY <2>1 DEF AcceptLoop
    <3> QED
      BY <2>1, <3>1, <3>3, <3>4 DEF AcceptLoop
  <2>2. ASSUME NEW a \in Acceptors, AcceptEnds(a) PROVE TypeInv'
    <3>1. acceptor' \in [Acceptors -> AcceptFiber] /\ HandInv'
      BY <2>2, FiberWaits DEF AcceptEnds, AcceptorAt
    <3>2. active' \in [Workers -> Fibers]
      BY <2>2 DEF AcceptEnds
    <3> QED
      BY <2>2, <3>1, <3>2 DEF AcceptEnds
  <2>3. ASSUME NEW a \in Acceptors, AcceptFails(a) PROVE TypeInv'
    <3>1. acceptor' \in [Acceptors -> AcceptFiber] /\ HandInv'
      BY <2>3, FiberWaits DEF AcceptFails, AcceptorAt
    <3>2. active' \in [Workers -> Fibers]
      BY <2>3 DEF AcceptFails
    <3> QED
      BY <2>3, <3>1, <3>2 DEF AcceptFails
  <2>4. ASSUME NEW a \in Acceptors, AddSession(a) PROVE TypeInv'
    <3>1. acceptor[a].worker \in Workers /\ acceptor[a] \in AcceptFiber /\ acceptor[a].pc = "add"
      BY <2>4 DEF AddSession, AcceptorAt, AcceptFiber
    <3>2. acceptor' \in [Acceptors -> AcceptFiber] /\ HandInv'
      BY <2>4, <3>1 DEF AddSession, AcceptFiber
    <3>3. m_new_session_mtx' \in [Workers -> Fibers] /\ active' \in [Workers -> Fibers]
      BY <2>4, <3>1 DEF AddSession
    <3> QED
      BY <2>4, <3>2, <3>3 DEF AddSession
  <2>5. ASSUME NEW a \in Acceptors, PushSession(a) PROVE TypeInv'
    BY <2>5 DEF PushSession, AcceptorAt, AcceptFiber
  <2>6. ASSUME NEW a \in Acceptors, NotifyWorker(a) PROVE TypeInv'
    <3>1. acceptor' \in [Acceptors -> AcceptFiber] /\ HandInv'
      BY <2>6, FiberWaits DEF NotifyWorker, AcceptorAt
    <3>2. active' \in [Workers -> Fibers]
      BY <2>6 DEF NotifyWorker
    <3> QED
      BY <2>6, <3>1, <3>2 DEF NotifyWorker
  <2>7. ASSUME NEW w \in Workers, NEW f \in Fibers, NEW m, Suspend(w, f, m) PROVE TypeInv'
    BY <2>7 DEF Suspend
  <2>8. ASSUME NEW a \in Acceptors, Accepted(a) PROVE TypeInv'
    <3>1. connected + 1 \in Sessions /\ connected' = connected + 1 /\ connected + 1 # 0
      BY SMTT(20), <2>8, WorkerAssumption DEF Accepted, Sessions
    <3>a. acceptor[a] \in AcceptFiber
      OBVIOUS
    <3>b. acceptor' = [acceptor EXCEPT ![a] = [acceptor[a] EXCEPT !.pc = "add", !.session = connected + 1]]
      BY <2>8, <3>1 DEF Accepted
    <3>c. [acceptor[a] EXCEPT !.pc = "add", !.session = connected + 1] \in AcceptFiber
      BY <3>1, <3>a DEF AcceptFiber
    <3>2. acceptor' \in [Acceptors -> AcceptFiber] /\ HandInv'
      BY <3>1, <3>a, <3>b, <3>c DEF AcceptFiber
    <3>3. connected' \in 0 .. MaxSessions
      BY <3>1 DEF Sessions
    <3> QED
      BY <2>8, <3>2, <3>3 DEF Accepted
  <2>9. ASSUME NEW w \in Workers, CheckStop(w) PROVE TypeInv'
    <3>1. starter' \in [Workers -> {"new", "check", "lock", "wait", "waiting", "woken", "start", "clear", "exited"}]
      BY <2>9 DEF CheckStop
    <3>2. active' \in [Workers -> Fibers] /\ running' = running
      <4>1. CASE KeepsThread(w, Starter(w))
        BY <4>1
      <4>2. CASE YieldsThread(w)
        BY <4>2
      <4> QED
        BY <2>9, <4>1, <4>2 DEF CheckStop
    <3> QED
      BY <2>9, <3>1, <3>2 DEF CheckStop
  <2>10. ASSUME NEW w \in Workers, LockSessions(w) PROVE TypeInv'
    BY <2>10 DEF LockSessions, StarterAt
  <2>11. ASSUME NEW w \in Workers, WaitForSessions(w) PROVE TypeInv'
    BY <2>11 DEF WaitForSessions, StarterAt
  <2>12. ASSUME NEW w \in Workers, StartSessions(w) PROVE TypeInv'
    BY <2>12 DEF StartSessions, StarterAt
  <2>13. ASSUME NEW w \in Workers, ClearSessions(w) PROVE TypeInv'
    BY <2>13 DEF ClearSessions, StarterAt
  <2>14. CASE StartWorker
    <3>1. running' \subseteq Workers
      BY <2>14 DEF StartWorker
    <3> QED
      BY <2>14, <3>1, MainMoves DEF StartWorker
  <2>15. CASE Stop
    <3>1. CASE StopFlag
      BY <3>1 DEF StopFlag
    <3>2. CASE StopNotify
      BY <3>2 DEF StopNotify
    <3>3. CASE CloseAcceptors
      BY <3>3 DEF CloseAcceptors
    <3>4. CASE StopIoService
      BY <3>4, MainMoves DEF StopIoService
    <3> QED
      BY <2>15, <3>1, <3>2, <3>3, <3>4 DEF Stop
  <2>16. CASE UNCHANGED vars
    BY <2>16 DEF vars
  <2>17. ASSUME NEW a \in Acceptors, AcceptFiberStep(a) PROVE TypeInv'
    BY <2>1, <2>2, <2>3, <2>4, <2>5, <2>6, <2>7, <2>17 DEF AcceptFiberStep
  <2>18. ASSUME NEW w \in Workers, StarterStep(w) PROVE TypeInv'
    BY <2>7, <2>9, <2>10, <2>11, <2>12, <2>13, <2>18 DEF StarterStep
  <2> QED
    BY <2>8, <2>14, <2>15, <2>16, <2>17, <2>18 DEF Next, Terminated
<1> QED
  BY <1>1, <1>2, PTL DEF Spec
-----------------------------------------------------------------------------
(* The mutexes.                                                            *)

\* Between lock and unlock a fiber owns the mutex of the list it works on.
MutexInv ==
  /\ \A w \in Workers :
       starter[w] \in {"wait", "start", "clear"} => m_new_session_mtx[w] = Starter(w)
  /\ \A a \in Acceptors :
       acceptor[a].pc = "push" => m_new_session_mtx[acceptor[a].worker] = Accept(a)

\* What an assignment to the fields of one accept fiber changes.
LEMMA FiberMoves ==
  ASSUME acceptor \in [Acceptors -> AcceptFiber], NEW a \in Acceptors, NEW p, NEW x
  PROVE  /\ acceptor' = [acceptor EXCEPT ![a].pc = p]
              => /\ acceptor'[a].pc = p /\ acceptor'[a].worker = acceptor[a].worker
                 /\ acceptor'[a].session = acceptor[a].session
                 /\ \A b \in Acceptors \ {a} : acceptor'[b] = acceptor[b]
         /\ acceptor' = [acceptor EXCEPT ![a].pc = p, ![a].session = x]
              => /\ acceptor'[a].pc = p /\ acceptor'[a].worker = acceptor[a].worker
                 /\ acceptor'[a].session = x
                 /\ \A b \in Acceptors \ {a} : acceptor'[b] = acceptor[b]
<1>1. acceptor[a] \in AcceptFiber
  OBVIOUS
<1>2. ASSUME acceptor' = [acceptor EXCEPT ![a].pc = p]
      PROVE  /\ acceptor'[a] = [acceptor[a] EXCEPT !.pc = p]
             /\ \A b \in Acceptors \ {a} : acceptor'[b] = acceptor[b]
  BY <1>2
<1>3. ASSUME acceptor' = [acceptor EXCEPT ![a].pc = p, ![a].session = x]
      PROVE  /\ acceptor'[a] = [acceptor[a] EXCEPT !.pc = p, !.session = x]
             /\ \A b \in Acceptors \ {a} : acceptor'[b] = acceptor[b]
  BY <1>3
<1>4. /\ [acceptor[a] EXCEPT !.pc = p].pc = p
      /\ [acceptor[a] EXCEPT !.pc = p].worker = acceptor[a].worker
      /\ [acceptor[a] EXCEPT !.pc = p].session = acceptor[a].session
  BY <1>1 DEF AcceptFiber
<1>5. /\ [acceptor[a] EXCEPT !.pc = p, !.session = x].pc = p
      /\ [acceptor[a] EXCEPT !.pc = p, !.session = x].worker = acceptor[a].worker
      /\ [acceptor[a] EXCEPT !.pc = p, !.session = x].session = x
  BY <1>1 DEF AcceptFiber
<1> QED
  BY <1>2, <1>3, <1>4, <1>5

\* A step that touches no mutex and lets nobody in where one is needed.
LEMMA NobodyEnters ==
  ASSUME MutexInv, UNCHANGED m_new_session_mtx,
         \A w \in Workers : starter'[w] \in {"wait", "start", "clear"}
                            => starter[w] \in {"wait", "start", "clear"},
         \A a \in Acceptors : acceptor'[a].pc = "push"
                              => acceptor[a].pc = "push" /\ acceptor'[a].worker = acceptor[a].worker
  PROVE  MutexInv'
BY DEF MutexInv

LEMMA MutexStep == TypeInv /\ MutexInv /\ [Next]_vars => MutexInv'
<1> SUFFICES ASSUME TypeInv, MutexInv, [Next]_vars PROVE MutexInv'
  OBVIOUS
<1>0. /\ acceptor \in [Acceptors -> AcceptFiber]
      /\ m_new_session_mtx \in [Workers -> Fibers]
      /\ \A a \in Acceptors : acceptor[a].worker \in Workers
      /\ DOMAIN starter = Workers
  BY DEF TypeInv, TypeOK, AcceptFiber
<1>1. ASSUME NEW a \in Acceptors, AcceptLoop(a) PROVE MutexInv'
  <2>1. acceptor'[a].pc = "accepting" /\ \A b \in Acceptors \ {a} : acceptor'[b] = acceptor[b]
    BY <1>0, <1>1 DEF AcceptLoop
  <2> QED
    BY <1>1, <2>1, NobodyEnters DEF AcceptLoop, queues
<1>2. ASSUME NEW a \in Acceptors, AcceptEnds(a) PROVE MutexInv'
  <2>1. acceptor' = [acceptor EXCEPT ![a].pc = "ended"] /\ UNCHANGED <<m_new_session_mtx, starter>>
    BY <1>2 DEF AcceptEnds, queues
  <2>2. /\ acceptor'[a].pc = "ended"
        /\ \A b \in Acceptors \ {a} : acceptor'[b] = acceptor[b]
    BY <1>0, <2>1, FiberMoves
  <2> QED
    BY <2>1, <2>2, NobodyEnters
<1>3. ASSUME NEW a \in Acceptors, AcceptFails(a) PROVE MutexInv'
  <2>1. acceptor' = [acceptor EXCEPT ![a].pc = "loop"] /\ UNCHANGED <<m_new_session_mtx, starter>>
    BY <1>3 DEF AcceptFails, queues
  <2>2. /\ acceptor'[a].pc = "loop"
        /\ \A b \in Acceptors \ {a} : acceptor'[b] = acceptor[b]
    BY <1>0, <2>1, FiberMoves
  <2> QED
    BY <2>1, <2>2, NobodyEnters
<1>4. ASSUME NEW a \in Acceptors, AddSession(a) PROVE MutexInv'
  <2>1. /\ acceptor'[a].worker = acceptor[a].worker
        /\ \A b \in Acceptors \ {a} : acceptor'[b] = acceptor[b]
    BY <1>0, <1>4, FiberMoves DEF AddSession
  <2>2. /\ m_new_session_mtx[acceptor[a].worker] = NoFiber
        /\ m_new_session_mtx'[acceptor[a].worker] = Accept(a)
        /\ \A v \in Workers \ {acceptor[a].worker} : m_new_session_mtx'[v] = m_new_session_mtx[v]
        /\ UNCHANGED starter
    BY <1>0, <1>4 DEF AddSession, Lock
  <2> QED
    BY <1>0, <2>1, <2>2, FibersDiffer DEF MutexInv
<1>5. ASSUME NEW a \in Acceptors, PushSession(a) PROVE MutexInv'
  <2>1. /\ acceptor[a].pc = "push" /\ acceptor'[a].pc = "notify"
        /\ \A b \in Acceptors \ {a} : acceptor'[b] = acceptor[b]
    BY <1>0, <1>5, FiberMoves DEF PushSession, AcceptorAt
  <2>2. /\ m_new_session_mtx[acceptor[a].worker] = Accept(a)
        /\ \A v \in Workers \ {acceptor[a].worker} : m_new_session_mtx'[v] = m_new_session_mtx[v]
        /\ UNCHANGED starter
    BY <1>0, <1>5, <2>1 DEF PushSession, Unlock, MutexInv
  <2> QED
    BY <1>0, <2>1, <2>2, FibersDiffer DEF MutexInv
<1>6. ASSUME NEW a \in Acceptors, NotifyWorker(a) PROVE MutexInv'
  <2>1. /\ acceptor'[a].pc = "loop"
        /\ \A b \in Acceptors \ {a} : acceptor'[b] = acceptor[b]
    BY <1>0, <1>6, FiberMoves DEF NotifyWorker
  <2> QED
    BY <1>0, <1>6, <2>1, NobodyEnters DEF NotifyWorker, NotifyOne, queues
<1>7. ASSUME NEW w \in Workers, NEW f \in Fibers, NEW m, Suspend(w, f, m) PROVE MutexInv'
  BY <1>7 DEF Suspend, MutexInv, queues
<1>8. ASSUME NEW a \in Acceptors, Accepted(a) PROVE MutexInv'
  <2>1. /\ acceptor'[a].pc = "add"
        /\ \A b \in Acceptors \ {a} : acceptor'[b] = acceptor[b]
    BY <1>0, <1>8, FiberMoves DEF Accepted
  <2> QED
    BY <1>8, <2>1, NobodyEnters DEF Accepted, queues
<1>9. ASSUME NEW w \in Workers, CheckStop(w) PROVE MutexInv'
  BY <1>0, <1>9, NobodyEnters DEF CheckStop, queues
<1>10. ASSUME NEW w \in Workers, LockSessions(w) PROVE MutexInv'
  <2>1. /\ m_new_session_mtx[w] = NoFiber /\ m_new_session_mtx'[w] = Starter(w)
        /\ \A v \in Workers \ {w} : m_new_session_mtx'[v] = m_new_session_mtx[v]
        /\ \A v \in Workers \ {w} : starter'[v] = starter[v]
        /\ UNCHANGED acceptor
    BY <1>0, <1>10 DEF LockSessions, Lock
  <2> QED
    BY <1>0, <2>1, FibersDiffer DEF MutexInv
<1>11. ASSUME NEW w \in Workers, WaitForSessions(w) PROVE MutexInv'
  <2>1. /\ starter[w] = "wait" /\ starter'[w] = "waiting"
        /\ \A v \in Workers \ {w} : m_new_session_mtx'[v] = m_new_session_mtx[v]
        /\ \A v \in Workers \ {w} : starter'[v] = starter[v]
        /\ UNCHANGED acceptor
    BY <1>0, <1>11 DEF WaitForSessions, StarterAt, Unlock
  <2>2. m_new_session_mtx[w] = Starter(w)
    BY <2>1 DEF MutexInv
  <2> QED
    BY <1>0, <2>1, <2>2, FibersDiffer DEF MutexInv
<1>12. ASSUME NEW w \in Workers, StartSessions(w) PROVE MutexInv'
  BY <1>0, <1>12, NobodyEnters DEF StartSessions, StarterAt
<1>13. ASSUME NEW w \in Workers, ClearSessions(w) PROVE MutexInv'
  <2>1. /\ starter[w] = "clear" /\ starter'[w] = "check"
        /\ \A v \in Workers \ {w} : m_new_session_mtx'[v] = m_new_session_mtx[v]
        /\ \A v \in Workers \ {w} : starter'[v] = starter[v]
        /\ UNCHANGED acceptor
    BY <1>0, <1>13 DEF ClearSessions, StarterAt, Unlock
  <2>2. m_new_session_mtx[w] = Starter(w)
    BY <2>1 DEF MutexInv
  <2> QED
    BY <1>0, <2>1, <2>2, FibersDiffer DEF MutexInv
<1>14. CASE StartWorker
  BY <1>14, NobodyEnters DEF StartWorker, queues
<1>15. CASE Stop
  BY <1>0, <1>15, NobodyEnters DEF Stop, StopFlag, StopNotify, CloseAcceptors, StopIoService, NotifyOne, queues
<1>16. CASE UNCHANGED vars
  BY <1>16, NobodyEnters DEF vars, queues
<1>17. ASSUME NEW a \in Acceptors, AcceptFiberStep(a) PROVE MutexInv'
  BY <1>1, <1>2, <1>3, <1>4, <1>5, <1>6, <1>7, <1>17, HomeIsWorker, FibersDiffer DEF AcceptFiberStep
<1>18. ASSUME NEW w \in Workers, StarterStep(w) PROVE MutexInv'
  BY <1>7, <1>9, <1>10, <1>11, <1>12, <1>13, <1>18, FibersDiffer DEF StarterStep
<1> QED
  BY <1>8, <1>14, <1>15, <1>16, <1>17, <1>18 DEF Next, Terminated

-----------------------------------------------------------------------------
(* Where a session is.                                                     *)

HeldBy(a, s) == acceptor[a].session = s
NewAt(w, s) == starter[w] # "clear" /\ s \in Contents(m_new_sessions[w])
StartedAs(w, i, s) == i \in DOMAIN started[w] /\ started[w][i] = s

Held(s)    == \E a \in Acceptors : HeldBy(a, s)
New(s)     == \E w \in Workers : NewAt(w, s)
Started(s) == \E w \in Workers, i \in Nat : StartedAs(w, i, s)

\* Nowhere before its connection, and then in one place of one kind.
PlaceOf(s) ==
  /\ ~(Held(s) /\ New(s)) /\ ~(Held(s) /\ Started(s)) /\ ~(New(s) /\ Started(s))
  /\ \A a, b \in Acceptors : HeldBy(a, s) /\ HeldBy(b, s) => a = b
  /\ \A v, w \in Workers : NewAt(v, s) /\ NewAt(w, s) => v = w
  /\ \A v, w \in Workers, i, j \in Nat :
       StartedAs(v, i, s) /\ StartedAs(w, j, s) => v = w /\ i = j
  /\ Held(s) \/ New(s) \/ Started(s) <=> s <= connected

\* No list holds a session twice.
ListInv ==
  \A w \in Workers : \A i, j \in DOMAIN m_new_sessions[w] :
    m_new_sessions[w][i] = m_new_sessions[w][j] => i = j

PlaceInv == ListInv /\ \A s \in Sessions : PlaceOf(s)

\* A step that moves no session.
LEMMA NothingMoves ==
  ASSUME TypeInv, PlaceInv,
         UNCHANGED <<connected, m_new_sessions, started>>,
         \A a \in Acceptors : acceptor'[a].session = acceptor[a].session,
         \A w \in Workers : starter'[w] = "clear" <=> starter[w] = "clear"
  PROVE  PlaceInv'
<1>1. ListInv'
  BY DEF PlaceInv, ListInv
<1>2. ASSUME NEW s \in Sessions PROVE PlaceOf(s)'
  <2>1. \A a \in Acceptors : HeldBy(a, s)' <=> HeldBy(a, s)
    BY DEF HeldBy
  <2>2. \A w \in Workers : NewAt(w, s)' <=> NewAt(w, s)
    BY DEF NewAt
  <2>3. \A w \in Workers, i \in Nat : StartedAs(w, i, s)' <=> StartedAs(w, i, s)
    BY DEF StartedAs
  <2> QED
    BY <2>1, <2>2, <2>3 DEF PlaceInv, PlaceOf, Held, New, Started
<1> QED
  BY <1>1, <1>2 DEF PlaceInv

\* Accepted: a session that was nowhere is in the hands of a fiber that had none.
LEMMA Connects ==
  ASSUME TypeInv, PlaceInv, NEW a \in Acceptors, Accepted(a)
  PROVE  PlaceInv'
<1>1. /\ connected \in Nat /\ connected' = connected + 1
      /\ acceptor \in [Acceptors -> AcceptFiber]
      /\ UNCHANGED <<m_new_sessions, started, starter>>
  BY WorkerAssumption DEF TypeInv, TypeOK, Accepted, queues
<1>a. acceptor[a].session = 0
  BY DEF TypeInv, HandInv, Accepted, AcceptorAt
<1>2. /\ acceptor'[a].session = connected'
      /\ \A b \in Acceptors \ {a} : acceptor'[b] = acceptor[b]
  <2>1. acceptor' = [acceptor EXCEPT ![a] =
                       [acceptor[a] EXCEPT !.pc = "add", !.session = connected + 1]]
    BY <1>1 DEF Accepted
  <2>2. acceptor[a] \in AcceptFiber
    BY <1>1
  <2>3. [acceptor[a] EXCEPT !.pc = "add", !.session = connected + 1].session = connected + 1
    BY <2>2 DEF AcceptFiber
  <2> QED
    BY <1>1, <2>1, <2>3
<1>3. ListInv'
  BY <1>1 DEF PlaceInv, ListInv
<1>4. ASSUME NEW s \in Sessions PROVE PlaceOf(s)'
  <2>1. \A w \in Workers : NewAt(w, s)' <=> NewAt(w, s)
    BY <1>1 DEF NewAt
  <2>2. \A w \in Workers, i \in Nat : StartedAs(w, i, s)' <=> StartedAs(w, i, s)
    BY <1>1 DEF StartedAs
  <2>3. s \in Nat /\ s # 0
    BY WorkerAssumption DEF Sessions
  <2>4. /\ \A b \in Acceptors \ {a} : HeldBy(b, s)' <=> HeldBy(b, s)
        /\ ~HeldBy(a, s)
        /\ HeldBy(a, s)' <=> s = connected'
    BY <1>1, <1>a, <1>2, <2>3 DEF HeldBy
  <2>5. s <= connected' <=> s <= connected \/ s = connected'
    BY <1>1, <2>3
  <2>6. s = connected' => ~(s <= connected)
    BY <1>1
  <2> QED
    BY <2>1, <2>2, <2>4, <2>5, <2>6 DEF PlaceInv, PlaceOf, Held, New, Started
<1> QED
  BY <1>3, <1>4 DEF PlaceInv

\* What push_back adds to a list that does not hold the session.
LEMMA PushBack ==
  ASSUME NEW q \in Seq(Sessions), NEW t \in Sessions, t \notin Contents(q),
         \A i, j \in DOMAIN q : q[i] = q[j] => i = j
  PROVE  /\ Contents(Append(q, t)) = Contents(q) \cup {t}
         /\ \A i, j \in DOMAIN Append(q, t) : Append(q, t)[i] = Append(q, t)[j] => i = j
<1> DEFINE r == Append(q, t)
<1>1. /\ Len(q) \in Nat /\ DOMAIN q = 1 .. Len(q) /\ DOMAIN r = 1 .. Len(q) + 1
      /\ \A i \in 1 .. Len(q) : r[i] = q[i]
      /\ r[Len(q) + 1] = t
  OBVIOUS
<1> HIDE DEF r
<1>2. 1 .. Len(q) + 1 = (1 .. Len(q)) \cup {Len(q) + 1}
  BY <1>1
<1>3. Contents(r) = Contents(q) \cup {t}
  BY <1>1, <1>2 DEF Contents
<1>4. \A i, j \in DOMAIN r : r[i] = r[j] => i = j
  BY <1>1, <1>2 DEF Contents
<1> QED
  BY <1>3, <1>4 DEF r

\* push_back: from the fiber that holds it to the list, while no starter has it.
LEMMA Pushes ==
  ASSUME TypeInv, MutexInv, PlaceInv, NEW a \in Acceptors, PushSession(a)
  PROVE  PlaceInv'
<1>1. /\ acceptor \in [Acceptors -> AcceptFiber]
      /\ acceptor[a].pc = "push" /\ acceptor[a].worker \in Workers /\ acceptor[a].session \in Sessions
      /\ m_new_sessions \in [Workers -> Seq(Sessions)]
      /\ UNCHANGED <<connected, started, starter>>
  BY DEF TypeInv, TypeOK, HandInv, PushSession, AcceptorAt, AcceptFiber
<1>w. PICK w \in Workers : w = acceptor[a].worker
  BY <1>1
<1>t. PICK t \in Sessions : t = acceptor[a].session
  BY <1>1
<1>2. starter[w] # "clear"
  BY <1>1, <1>w, FibersDiffer DEF MutexInv
<1>3. /\ acceptor'[a].session = 0
      /\ \A b \in Acceptors \ {a} : acceptor'[b] = acceptor[b]
  BY <1>1, FiberMoves DEF PushSession
<1>4. /\ m_new_sessions'[w] = Append(m_new_sessions[w], t)
      /\ \A v \in Workers \ {w} : m_new_sessions'[v] = m_new_sessions[v]
  BY <1>1, <1>w, <1>t DEF PushSession
<1>5. HeldBy(a, t)
  BY <1>t DEF HeldBy
<1>6. t \notin Contents(m_new_sessions[w])
  <2>1. ~(Held(t) /\ New(t))
    BY <1>1 DEF PlaceInv, PlaceOf
  <2> QED
    BY <1>1, <1>2, <1>5, <2>1 DEF Held, New, NewAt
<1>7. /\ Contents(m_new_sessions'[w]) = Contents(m_new_sessions[w]) \cup {t}
      /\ \A i, j \in DOMAIN m_new_sessions'[w] :
           m_new_sessions'[w][i] = m_new_sessions'[w][j] => i = j
  BY <1>1, <1>4, <1>6, PushBack DEF PlaceInv, ListInv
<1>8. ListInv'
  BY <1>1, <1>4, <1>7 DEF PlaceInv, ListInv
<1>9. ASSUME NEW s \in Sessions PROVE PlaceOf(s)'
  <2>1. \A v \in Workers, i \in Nat : StartedAs(v, i, s)' <=> StartedAs(v, i, s)
    BY <1>1 DEF StartedAs
  <2>2. s # 0
    BY WorkerAssumption DEF Sessions
  <2>3. /\ \A b \in Acceptors \ {a} : HeldBy(b, s)' <=> HeldBy(b, s)
        /\ ~HeldBy(a, s)'
        /\ HeldBy(a, s) <=> s = t
    BY <1>3, <1>t, <2>2 DEF HeldBy
  <2>4. /\ \A v \in Workers \ {w} : NewAt(v, s)' <=> NewAt(v, s)
        /\ NewAt(w, s)' <=> NewAt(w, s) \/ s = t
    BY <1>1, <1>2, <1>4, <1>7 DEF NewAt
  <2>5. CASE s = t
    <3>1. /\ ~New(s) /\ ~Started(s) /\ s <= connected
          /\ \A b \in Acceptors : HeldBy(b, s) => b = a
      BY <1>5, <2>5 DEF PlaceInv, PlaceOf, Held
    <3>2. ~Held(s)' /\ ~Started(s)'
      BY <2>1, <2>3, <3>1 DEF Held, Started
    <3>3. \A v \in Workers : NewAt(v, s)' <=> v = w
      BY <1>1, <2>4, <2>5, <3>1 DEF New
    <3> QED
      BY <1>1, <3>1, <3>2, <3>3 DEF PlaceOf, Held, New, Started
  <2>6. CASE s # t
    <3>1. /\ \A b \in Acceptors : HeldBy(b, s)' <=> HeldBy(b, s)
          /\ \A v \in Workers : NewAt(v, s)' <=> NewAt(v, s)
      BY <2>3, <2>4, <2>6
    <3> QED
      BY <1>1, <2>1, <3>1 DEF PlaceInv, PlaceOf, Held, New, Started
  <2> QED
    BY <2>5, <2>6
<1> QED
  BY <1>8, <1>9 DEF PlaceInv

\* The sessions of the list get their fibers, each one place in started.
LEMMA Starts ==
  ASSUME TypeInv, PlaceInv, NEW w \in Workers, StartSessions(w)
  PROVE  PlaceInv'
<1> DEFINE old == started[w]
           new == m_new_sessions[w]
<1>1. /\ old \in Seq(Sessions) /\ new \in Seq(Sessions) /\ starter[w] = "start"
      /\ starter'[w] = "clear"
      /\ \A v \in Workers \ {w} : starter'[v] = starter[v]
      /\ started'[w] = old \o new
      /\ \A v \in Workers \ {w} : started'[v] = started[v]
      /\ UNCHANGED <<connected, m_new_sessions, acceptor>>
  BY DEF TypeInv, TypeOK, StartSessions, StarterAt
<1> HIDE DEF old, new
<1>2. /\ Len(old) \in Nat /\ Len(new) \in Nat
      /\ DOMAIN old = 1 .. Len(old) /\ DOMAIN new = 1 .. Len(new)
      /\ DOMAIN (old \o new) = 1 .. Len(old) + Len(new)
      /\ \A i \in 1 .. Len(old) + Len(new) :
           (old \o new)[i] = IF i <= Len(old) THEN old[i] ELSE new[i - Len(old)]
  BY <1>1
<1>3. ListInv'
  BY <1>1 DEF PlaceInv, ListInv
<1>4. ASSUME NEW s \in Sessions PROVE PlaceOf(s)'
  <2>1. \A a \in Acceptors : HeldBy(a, s)' <=> HeldBy(a, s)
    BY <1>1 DEF HeldBy
  <2>2. /\ \A v \in Workers \ {w} : NewAt(v, s)' <=> NewAt(v, s)
        /\ ~NewAt(w, s)'
        /\ NewAt(w, s) <=> \E k \in 1 .. Len(new) : new[k] = s
    BY <1>1, <1>2 DEF NewAt, Contents, new
  <2>3. \A k, l \in 1 .. Len(new) : new[k] = s /\ new[l] = s => k = l
    BY <1>2 DEF PlaceInv, ListInv, new
  <2>4. \A v \in Workers \ {w}, i \in Nat : StartedAs(v, i, s)' <=> StartedAs(v, i, s)
    BY <1>1 DEF StartedAs
  <2>5. \A i \in Nat : StartedAs(w, i, s) <=> i \in 1 .. Len(old) /\ old[i] = s
    BY <1>2 DEF StartedAs, old
  <2>6. \A i \in Nat :
          StartedAs(w, i, s)' <=> \/ i \in 1 .. Len(old) /\ old[i] = s
                                  \/ \E k \in 1 .. Len(new) : i = Len(old) + k /\ new[k] = s
    <3> SUFFICES ASSUME NEW i \in Nat
                 PROVE  (i \in 1 .. Len(old) + Len(new) /\ (old \o new)[i] = s)
                          <=> \/ i \in 1 .. Len(old) /\ old[i] = s
                              \/ \E k \in 1 .. Len(new) : i = Len(old) + k /\ new[k] = s
      BY <1>1, <1>2 DEF StartedAs
    <3>1. ASSUME NEW k \in 1 .. Len(new), i = Len(old) + k
          PROVE  i \in 1 .. Len(old) + Len(new) /\ (old \o new)[i] = new[k]
      BY <1>2, <3>1
    <3>2. ASSUME i \in 1 .. Len(old) + Len(new), ~(i <= Len(old))
          PROVE  /\ i - Len(old) \in 1 .. Len(new) /\ i = Len(old) + (i - Len(old))
                 /\ (old \o new)[i] = new[i - Len(old)]
      BY <1>2, <3>2
    <3>3. ASSUME i \in 1 .. Len(old)
          PROVE  i \in 1 .. Len(old) + Len(new) /\ (old \o new)[i] = old[i]
      BY <1>2, <3>3
    <3>4. i \in 1 .. Len(old) + Len(new) /\ i <= Len(old) => i \in 1 .. Len(old)
      BY <1>2
    <3> QED
      BY <3>1, <3>2, <3>3, <3>4
  <2>7. CASE NewAt(w, s)
    <3>1. /\ ~Held(s) /\ ~Started(s) /\ s <= connected
          /\ \A v \in Workers : NewAt(v, s) => v = w
      BY <2>7 DEF PlaceInv, PlaceOf, New
    <3>2. PICK k \in 1 .. Len(new) : new[k] = s
      BY <2>2, <2>7
    <3>3. Len(old) + k \in Nat
      BY <1>2
    <3>4. \A i \in Nat : StartedAs(w, i, s)' <=> i = Len(old) + k
      BY <2>3, <2>5, <2>6, <3>1, <3>2, <3>3 DEF Started
    <3>5. \A v \in Workers, i \in Nat : StartedAs(v, i, s)' <=> v = w /\ i = Len(old) + k
      BY <2>4, <3>1, <3>4 DEF Started
    <3>6. ~Held(s)' /\ ~New(s)'
      BY <2>1, <2>2, <3>1 DEF Held, New
    <3>7. Started(s)'
      BY <3>3, <3>5 DEF Started
    <3> QED
      BY <1>1, <3>1, <3>5, <3>6, <3>7 DEF PlaceOf, Held, New
  <2>8. CASE ~NewAt(w, s)
    <3>1. \A v \in Workers, i \in Nat : StartedAs(v, i, s)' <=> StartedAs(v, i, s)
      BY <2>2, <2>4, <2>5, <2>6, <2>8
    <3>2. \A v \in Workers : NewAt(v, s)' <=> NewAt(v, s)
      BY <2>2, <2>8
    <3> QED
      BY <1>1, <2>1, <3>1, <3>2 DEF PlaceInv, PlaceOf, Held, New, Started
  <2> QED
    BY <2>7, <2>8
<1> QED
  BY <1>3, <1>4 DEF PlaceInv

\* clear: the list holds only sessions that were started.
LEMMA Clears ==
  ASSUME TypeInv, PlaceInv, NEW w \in Workers, ClearSessions(w)
  PROVE  PlaceInv'
<1>1. /\ starter[w] = "clear" /\ starter'[w] = "check"
      /\ \A v \in Workers \ {w} : starter'[v] = starter[v]
      /\ m_new_sessions'[w] = <<>>
      /\ \A v \in Workers \ {w} : m_new_sessions'[v] = m_new_sessions[v]
      /\ UNCHANGED <<connected, started, acceptor>>
  BY DEF TypeInv, TypeOK, ClearSessions, StarterAt
<1>2. ListInv'
  BY <1>1 DEF PlaceInv, ListInv
<1>3. ASSUME NEW s \in Sessions PROVE PlaceOf(s)'
  <2>1. \A a \in Acceptors : HeldBy(a, s)' <=> HeldBy(a, s)
    BY <1>1 DEF HeldBy
  <2>2. \A v \in Workers : NewAt(v, s)' <=> NewAt(v, s)
    BY <1>1 DEF NewAt, Contents
  <2>3. \A v \in Workers, i \in Nat : StartedAs(v, i, s)' <=> StartedAs(v, i, s)
    BY <1>1 DEF StartedAs
  <2> QED
    BY <1>1, <2>1, <2>2, <2>3 DEF PlaceInv, PlaceOf, Held, New, Started
<1> QED
  BY <1>2, <1>3 DEF PlaceInv

LEMMA PlaceStep == TypeInv /\ MutexInv /\ PlaceInv /\ [Next]_vars => PlaceInv'
<1> SUFFICES ASSUME TypeInv, MutexInv, PlaceInv, [Next]_vars PROVE PlaceInv'
  OBVIOUS
<1>0. acceptor \in [Acceptors -> AcceptFiber] /\ DOMAIN starter = Workers
  BY DEF TypeInv, TypeOK
<1>1. ASSUME NEW a \in Acceptors, AcceptLoop(a) PROVE PlaceInv'
  <2>1. acceptor[a].session = 0
    BY <1>1 DEF TypeInv, HandInv, AcceptLoop, AcceptorAt
  <2>2. acceptor'[a].session = 0 /\ \A b \in Acceptors \ {a} : acceptor'[b] = acceptor[b]
    BY <1>0, <1>1 DEF AcceptLoop
  <2> QED
    BY <1>1, <2>1, <2>2, NothingMoves DEF AcceptLoop, queues
<1>2. ASSUME NEW a \in Acceptors, AcceptEnds(a) PROVE PlaceInv'
  BY <1>0, <1>2, FiberMoves, NothingMoves DEF AcceptEnds, queues
<1>3. ASSUME NEW a \in Acceptors, AcceptFails(a) PROVE PlaceInv'
  BY <1>0, <1>3, FiberMoves, NothingMoves DEF AcceptFails, queues
<1>4. ASSUME NEW a \in Acceptors, AddSession(a) PROVE PlaceInv'
  BY <1>0, <1>4, FiberMoves, NothingMoves DEF AddSession
<1>5. ASSUME NEW a \in Acceptors, NotifyWorker(a) PROVE PlaceInv'
  BY <1>0, <1>5, FiberMoves, NothingMoves DEF NotifyWorker, NotifyOne, queues
<1>6. ASSUME NEW w \in Workers, NEW f, NEW m, Suspend(w, f, m) PROVE PlaceInv'
  BY <1>6, NothingMoves DEF Suspend, queues
<1>7. ASSUME NEW w \in Workers, CheckStop(w) PROVE PlaceInv'
  BY <1>0, <1>7, NothingMoves DEF CheckStop, StarterAt, queues
<1>8. ASSUME NEW w \in Workers, LockSessions(w) PROVE PlaceInv'
  BY <1>0, <1>8, NothingMoves DEF LockSessions, StarterAt
<1>9. ASSUME NEW w \in Workers, WaitForSessions(w) PROVE PlaceInv'
  BY <1>0, <1>9, NothingMoves DEF WaitForSessions, StarterAt
<1>10. CASE StartWorker
  BY <1>10, NothingMoves DEF StartWorker, queues
<1>11. CASE Stop
  BY <1>0, <1>11, NothingMoves DEF Stop, StopFlag, StopNotify, CloseAcceptors, StopIoService, NotifyOne, queues
<1>12. CASE UNCHANGED vars
  BY <1>12, NothingMoves DEF vars, queues
<1>13. ASSUME NEW a \in Acceptors, AcceptFiberStep(a) PROVE PlaceInv'
  BY <1>1, <1>2, <1>3, <1>4, <1>5, <1>6, <1>13, HomeIsWorker, Pushes DEF AcceptFiberStep
<1>14. ASSUME NEW w \in Workers, StarterStep(w) PROVE PlaceInv'
  BY <1>6, <1>7, <1>8, <1>9, <1>14, Starts, Clears DEF StarterStep
<1> QED
  BY <1>10, <1>11, <1>12, <1>13, <1>14, Connects DEF Next, Terminated

Inv == TypeInv /\ MutexInv /\ PlaceInv

LEMMA Invariant == Spec => []Inv
<1>1. Init => MutexInv
  BY DEF Init, MutexInv
<1>2. Init => PlaceInv
  BY WorkerAssumption
  DEF Init, PlaceInv, ListInv, PlaceOf, Held, New, Started, HeldBy, NewAt, StartedAs, Contents, Sessions
<1> QED
  BY <1>1, <1>2, Types, MutexStep, PlaceStep, PTL DEF Spec, Inv

-----------------------------------------------------------------------------

\* A worker has started no session twice, so there are places for all of them.
LEMMA StartedFits ==
  ASSUME TypeInv, PlaceInv, NEW w \in Workers
  PROVE  Len(started[w]) <= MaxSessions
<1> DEFINE q == started[w]
<1>1. q \in Seq(Sessions) /\ Len(q) \in Nat /\ DOMAIN q = 1 .. Len(q) /\ MaxSessions \in Nat
  BY WorkerAssumption DEF TypeInv, TypeOK
<1>2. q \in [1 .. Len(q) -> 1 .. MaxSessions]
  BY <1>1 DEF Sessions
<1>3. \A i, j \in 1 .. Len(q) : q[i] = q[j] => i = j
  <2> SUFFICES ASSUME NEW i \in 1 .. Len(q), NEW j \in 1 .. Len(q), q[i] = q[j] PROVE i = j
    OBVIOUS
  <2>1. q[i] \in Sessions /\ StartedAs(w, i, q[i]) /\ StartedAs(w, j, q[i]) /\ i \in Nat /\ j \in Nat
    BY <1>1 DEF StartedAs
  <2> QED
    BY <2>1 DEF PlaceInv, PlaceOf
<1> HIDE DEF q
<1>4. q \in Injection(1 .. Len(q), 1 .. MaxSessions)
  BY <1>2, <1>3 DEF Injection, IsInjective
<1>5. ASSUME NEW n \in Nat PROVE IsFiniteSet(1 .. n) /\ Cardinality(1 .. n) = n
  <2>1. IsFiniteSet(1 .. n) /\ Cardinality(1 .. n) = IF 1 > n THEN 0 ELSE n - 1 + 1
    BY FS_Interval
  <2> QED
    BY <2>1
<1> QED
  BY <1>1, <1>4, <1>5, FS_Injection DEF q

\* The set of the run's property is the places of the invariant.
LEMMA PlacesAre ==
  ASSUME TypeInv, PlaceInv, NEW s \in Sessions
  PROVE  \A p : p \in Places(s) <=>
           \/ \E a \in Acceptors : p = Accept(a) /\ HeldBy(a, s)
           \/ \E w \in Workers : p = <<"new", w>> /\ NewAt(w, s)
           \/ \E w \in Workers, i \in Nat : p = <<w, i>> /\ StartedAs(w, i, s)
<1>1. Sessions \subseteq Nat
  BY WorkerAssumption DEF Sessions
<1>2. ASSUME NEW w \in Workers, NEW i \in Nat, StartedAs(w, i, s)
      PROVE  i \in Sessions
  <2>1. started[w] \in Seq(Sessions) /\ i \in 1 .. Len(started[w]) /\ Len(started[w]) \in Nat
    BY <1>2 DEF StartedAs, TypeInv, TypeOK
  <2> QED
    BY <2>1, StartedFits, WorkerAssumption DEF Sessions
<1>3. \A a \in Acceptors : HeldBy(a, s) <=> a \in {b \in Acceptors : acceptor[b].session = s}
  BY DEF HeldBy
<1>4. \A w \in Workers : NewAt(w, s) <=> w \in {v \in Workers :
                             starter[v] # "clear" /\ s \in Contents(m_new_sessions[v])}
  BY DEF NewAt
<1>5. ASSUME NEW p PROVE p \in Places(s) <=>
        \/ \E a \in Acceptors : p = Accept(a) /\ HeldBy(a, s)
        \/ \E w \in Workers : p = <<"new", w>> /\ NewAt(w, s)
        \/ \E w \in Workers, i \in Nat : p = <<w, i>> /\ StartedAs(w, i, s)
  <2>1. p \in {Accept(a) : a \in {b \in Acceptors : acceptor[b].session = s}}
          <=> \E a \in Acceptors : p = Accept(a) /\ HeldBy(a, s)
    BY <1>3
  <2>2. p \in {<<"new", w>> : w \in {v \in Workers :
                  starter[v] # "clear" /\ s \in Contents(m_new_sessions[v])}}
          <=> \E w \in Workers : p = <<"new", w>> /\ NewAt(w, s)
    BY <1>4
  <2>3. p \in {x \in Workers \X Sessions :
                  x[2] \in DOMAIN started[x[1]] /\ started[x[1]][x[2]] = s}
          <=> \E w \in Workers, i \in Nat : p = <<w, i>> /\ StartedAs(w, i, s)
    <3>1. ASSUME NEW w \in Workers, NEW i \in Sessions
          PROVE  <<w, i>> \in {x \in Workers \X Sessions :
                                 x[2] \in DOMAIN started[x[1]] /\ started[x[1]][x[2]] = s}
                   <=> StartedAs(w, i, s)
      BY DEF StartedAs
    <3>2. \A x \in Workers \X Sessions : \E w \in Workers, i \in Sessions : x = <<w, i>>
      OBVIOUS
    <3> QED
      BY <1>1, <1>2, <3>1, <3>2
  <2> QED
    BY <2>1, <2>2, <2>3 DEF Places
<1> QED
  BY <1>5

LEMMA OneCardinality ==
  ASSUME TypeInv, PlaceInv, NEW s \in Sessions, s <= connected
  PROVE  Cardinality(Places(s)) = 1
<1>1. PlaceOf(s) /\ (Held(s) \/ New(s) \/ Started(s))
  BY DEF PlaceInv, PlaceOf
<1>2. \E p : Places(s) = {p}
  <2>1. CASE Held(s)
    <3>1. PICK a \in Acceptors : HeldBy(a, s)
      BY <2>1 DEF Held
    <3>2. \A b \in Acceptors : HeldBy(b, s) => b = a
      BY <1>1, <3>1 DEF PlaceOf
    <3>3. ~New(s) /\ ~Started(s)
      BY <1>1, <2>1 DEF PlaceOf
    <3>4. \A p : p \in Places(s) <=> p \in {Accept(a)}
      BY <3>1, <3>2, <3>3, PlacesAre DEF New, Started
    <3>5. Places(s) = {Accept(a)}
      BY <3>4
    <3> QED
      BY <3>5
  <2>2. CASE New(s)
    <3>1. PICK w \in Workers : NewAt(w, s)
      BY <2>2 DEF New
    <3>2. \A v \in Workers : NewAt(v, s) => v = w
      BY <1>1, <3>1 DEF PlaceOf
    <3>3. ~Held(s) /\ ~Started(s)
      BY <1>1, <2>2 DEF PlaceOf
    <3>4. \A p : p \in Places(s) <=> p \in {<<"new", w>>}
      BY <3>1, <3>2, <3>3, PlacesAre DEF Held, Started
    <3>5. Places(s) = {<<"new", w>>}
      BY <3>4
    <3> QED
      BY <3>5
  <2>3. CASE Started(s)
    <3>1. PICK w \in Workers, i \in Nat : StartedAs(w, i, s)
      BY <2>3 DEF Started
    <3>2. \A v \in Workers, j \in Nat : StartedAs(v, j, s) => v = w /\ j = i
      BY <1>1, <3>1 DEF PlaceOf
    <3>3. ~Held(s) /\ ~New(s)
      BY <1>1, <2>3 DEF PlaceOf
    <3>4. \A p : p \in Places(s) <=> p \in {<<w, i>>}
      BY <3>1, <3>2, <3>3, PlacesAre DEF Held, New
    <3>5. Places(s) = {<<w, i>>}
      BY <3>4
    <3> QED
      BY <3>5
  <2> QED
    BY <1>1, <2>1, <2>2, <2>3
<1> QED
  BY <1>2, FS_Singleton

-----------------------------------------------------------------------------
(* The theorems.                                                           *)

\* Types: among others, the round robin of get_worker picks a worker that
\* exists, whatever the number of workers (worker.cpp, server_impl.cpp).
THEOREM TypeCorrect == Spec => []TypeOK
BY Types, PTL DEF TypeInv

\* An accepted connection is in exactly one place, whatever the interleaving of
\* do_accept, the starters and stop: none is cleared from m_new_sessions without
\* a fiber, none gets two.  The mutex is needed: without it a session pushed
\* between StartSessions and ClearSessions would be cleared unstarted.
THEOREM SessionsKept == Spec => []EachSessionOnce
<1>1. Inv => EachSessionOnce
  <2> SUFFICES ASSUME Inv, NEW s \in 1 .. connected PROVE Cardinality(Places(s)) = 1
    BY DEF EachSessionOnce
  <2>1. s \in Sessions /\ s <= connected
    BY WorkerAssumption DEF Inv, TypeInv, TypeOK, Sessions
  <2> QED
    BY <2>1, OneCardinality DEF Inv
<1> QED
  BY <1>1, Invariant, PTL

=============================================================================
