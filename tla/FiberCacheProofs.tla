-------------------------- MODULE FiberCacheProofs --------------------------
(***************************************************************************)
(* Proofs about FiberCache, for any number of fibers and functions.        *)
(***************************************************************************)
EXTENDS FiberCache, FiniteSetTheorems, SequenceTheorems, TLAPS

-----------------------------------------------------------------------------
(* The inductive invariant.                                                *)

\* Where the main thread is in the life of the cache: what it has posted, and
\* whether the cache is there.
PhaseInv ==
  /\ main = "start" => m_cache = NoCache /\ posted = <<>>
  /\ main = "serving" => posted = (IF m_cache = NoCache THEN <<"make">> ELSE <<>>)
  /\ main = "stopping" => posted = (IF m_cache = NoCache THEN <<"make", "stop">> ELSE <<"stop">>)
  /\ main = "counting" => posted = <<"count">>
  /\ main = "joining" => posted = (IF joining = 0 THEN <<"join">> ELSE <<>>)
  /\ main \in {"active", "idle", "stopped", "ended"} => posted = <<>>
  /\ main \in {"active", "counting", "idle", "joining"} => m_cache # NoCache
  /\ main \in {"stopped", "ended"} => m_cache = NoCache
  /\ m_stop <=> main \in {"active", "counting", "idle", "joining", "stopped", "ended"}
  /\ joining > 0 => main = "joining"
  /\ m_cache = NoCache /\ main \notin {"stopped", "ended"} => m_fib_cnt = 0

\* What a fiber does agrees with the function it has, and with the join.
FiberInv ==
  /\ \A x \in Contexts : fiber[x] = "none" <=> x > m_fib_cnt
  /\ \A x \in Contexts : func[x] # NoFunc => fiber[x] \in {"ready", "running"}
  /\ \A x \in Contexts : fiber[x] = "running" => func[x] # NoFunc
  /\ \A x \in Contexts :
       fiber[x] = "ready" /\ func[x] = NoFunc => joining > 0 /\ x = m_cache[joining]
  /\ \A x \in Contexts : fiber[x] = "ended" => joining > 0 \/ main \in {"stopped", "ended"}
  /\ main \in {"stopped", "ended"} => \A x \in Contexts : fiber[x] \in {"none", "ended"}

\* The cache holds each fiber once.  Those in front of the join have ended, those
\* behind it wait, and no fiber waits anywhere else.
CacheInv ==
  /\ m_cache # NoCache => IsInjective(m_cache)
  /\ \A x \in Contexts : fiber[x] = "waiting" => Cached(x)
  /\ m_cache # NoCache => \A i \in DOMAIN m_cache :
       /\ joining = 0 => fiber[m_cache[i]] = "waiting"
       /\ joining > 0 /\ i < joining => fiber[m_cache[i]] = "ended"
       /\ i = joining => fiber[m_cache[i]] \in {"ready", "ended"} /\ func[m_cache[i]] = NoFunc
       /\ joining > 0 /\ i > joining => fiber[m_cache[i]] = "waiting"
  /\ joining > 0 => joining \in DOMAIN m_cache
  /\ main \in {"idle", "joining"} =>
       \A x \in Contexts : fiber[x] # "none" => Cached(x)

\* A function is with one fiber at most, in the state of that fiber.
FuncInv ==
  /\ \A x, y \in Contexts : func[x] = func[y] /\ func[x] # NoFunc => x = y
  /\ \A x \in Contexts : func[x] # NoFunc =>
       status[func[x]] = (IF fiber[x] = "ready" THEN "cached" ELSE "running")
  /\ \A f \in Funcs :
       /\ status[f] \in {"new", "cached"} => runs[f] = 0
       /\ status[f] \in {"running", "done"} => runs[f] = 1
       /\ status[f] = "detached" => runs[f] \in {0, 1}
       /\ status[f] \in {"cached", "running"} => \E x \in Contexts : func[x] = f

\* The types, without the bound on the cache, which follows from the rest.
TypeInv ==
  /\ m_cache \in Seq(Contexts) \cup {NoCache}
  /\ m_fib_cnt \in 0 .. MaxFibers
  /\ m_stop \in BOOLEAN
  /\ fiber \in [Contexts -> {"none", "ready", "running", "waiting", "ended"}]
  /\ func \in [Contexts -> Funcs \cup {NoFunc}]
  /\ status \in [Funcs -> {"new", "cached", "detached", "running", "done"}]
  /\ runs \in [Funcs -> Nat]
  /\ posted \in Seq(Lambdas)
  /\ joining \in 0 .. MaxFibers
  /\ main \in {"start", "serving", "stopping", "counting", "active", "idle", "joining", "stopped", "ended"}

Inv == TypeInv /\ PhaseInv /\ FiberInv /\ CacheInv /\ FuncInv

-----------------------------------------------------------------------------
(* The cache as a sequence.                                                *)

LEMMA Pushed ==
  ASSUME NEW S, NEW q \in Seq(S), NEW e \in S
  PROVE  LET r == Append(q, e) IN
         /\ r \in Seq(S) /\ DOMAIN q = 1 .. Len(q) /\ Len(q) \in Nat
         /\ DOMAIN r = 1 .. Len(q) + 1 /\ Len(r) = Len(q) + 1
         /\ \A i \in 1 .. Len(q) : r[i] = q[i]
         /\ r[Len(q) + 1] = e
OBVIOUS

LEMMA Popped ==
  ASSUME NEW S, NEW q \in Seq(S), q # <<>>
  PROVE  /\ Front(q) \in Seq(S)
         /\ DOMAIN q = 1 .. Len(q) /\ Len(q) \in Nat /\ Len(q) > 0
         /\ DOMAIN Front(q) = 1 .. Len(q) - 1
         /\ \A i \in 1 .. Len(q) - 1 : Front(q)[i] = q[i]
         /\ Last(q) = q[Len(q)] /\ Last(q) \in S
<1>1. Len(q) \in Nat /\ Len(q) > 0 /\ DOMAIN q = 1 .. Len(q)
  OBVIOUS
<1>2. \A i \in 1 .. Len(q) - 1 : q[i] \in S
  BY <1>1
<1>3. /\ Front(q) \in Seq(S)
      /\ Len(Front(q)) = Len(q) - 1
      /\ \A i \in 1 .. Len(q) - 1 : Front(q)[i] = q[i]
  BY <1>1, <1>2 DEF Front
<1>4. Last(q) = q[Len(q)] /\ Last(q) \in S
  BY <1>1 DEF Last
<1> QED BY <1>1, <1>3, <1>4

\* A cache without duplicates among n fibers has at most n of them, and when it has
\* n it has them all: what the main thread concludes from m_fib_cnt =
\* m_cache->size().
LEMMA AllCached ==
  ASSUME NEW n \in Nat, NEW q \in Seq(1 .. n), IsInjective(q)
  PROVE  /\ Len(q) <= n
         /\ Len(q) = n => \A x \in 1 .. n : \E i \in DOMAIN q : q[i] = x
<1>1. Len(q) \in Nat /\ DOMAIN q = 1 .. Len(q) /\ q \in [1 .. Len(q) -> 1 .. n]
  OBVIOUS
<1>2. q \in Injection(1 .. Len(q), 1 .. n)
  BY <1>1 DEF Injection
<1>3. /\ IsFiniteSet(1 .. n) /\ Cardinality(1 .. n) = n
      /\ Cardinality(1 .. Len(q)) = Len(q)
  <2>1. ASSUME NEW k \in Nat PROVE IsFiniteSet(1 .. k) /\ Cardinality(1 .. k) = k
    <3>1. /\ IsFiniteSet(1 .. k)
          /\ Cardinality(1 .. k) = IF 1 > k THEN 0 ELSE k - 1 + 1
      BY FS_Interval
    <3> QED BY <3>1
  <2> QED BY <1>1, <2>1
<1>4. /\ Len(q) <= n
      /\ Len(q) = n => q \in Surjection(1 .. Len(q), 1 .. n)
  BY <1>2, <1>3, FS_Injection
<1> QED BY <1>1, <1>4 DEF Surjection

LEMMA CacheOrNot ==
  \A q \in Seq(Contexts) : q # NoCache
BY FiberAssumption DEF Contexts

\* The short queues of posted lambdas.
LEMMA Queues ==
  /\ \A l : Append(<<>>, l) = <<l>>
  /\ \A k, l : Append(<<k>>, l) = <<k, l>>
  /\ \A l : Head(<<l>>) = l /\ Tail(<<l>>) = <<>> /\ <<l>> # <<>>
  /\ \A k, l : Head(<<k, l>>) = k /\ Tail(<<k, l>>) = <<l>> /\ <<k, l>> # <<>>
<1>1. ASSUME NEW l PROVE Append(<<>>, l) = <<l>>
  OBVIOUS
<1>2. ASSUME NEW k, NEW l PROVE Append(<<k>>, l) = <<k, l>>
  <2> DEFINE q == Append(<<k>>, l)
  <2>1. q \in Seq({k, l}) /\ Len(q) = 2 /\ q[1] = k /\ q[2] = l
    OBVIOUS
  <2>2. /\ <<k, l>> \in Seq({k, l}) /\ Len(<<k, l>>) = 2
        /\ <<k, l>>[1] = k /\ <<k, l>>[2] = l
    OBVIOUS
  <2>3. \A i \in 1 .. 2 : q[i] = <<k, l>>[i]
    BY <2>1, <2>2
  <2> HIDE DEF q
  <2>4. q = <<k, l>>
    BY <2>1, <2>2, <2>3, SeqEqual
  <2> QED BY <2>4 DEF q
<1>3. ASSUME NEW l PROVE Head(<<l>>) = l /\ Tail(<<l>>) = <<>> /\ <<l>> # <<>>
  OBVIOUS
<1>4. ASSUME NEW k, NEW l PROVE Head(<<k, l>>) = k /\ <<k, l>> # <<>>
  OBVIOUS
<1>5. ASSUME NEW k, NEW l PROVE Tail(<<k, l>>) = <<l>>
  OBVIOUS
<1> QED BY <1>1, <1>2, <1>3, <1>4, <1>5

-----------------------------------------------------------------------------
(* What the invariant says of the fiber an action is about.                *)

LEMMA CacheSeq ==
  ASSUME TypeInv, m_cache # NoCache
  PROVE  /\ m_cache \in Seq(Contexts)
         /\ Len(m_cache) \in Nat /\ DOMAIN m_cache = 1 .. Len(m_cache)
         /\ \A i \in DOMAIN m_cache : m_cache[i] \in Contexts
<1>1. m_cache \in Seq(Contexts)
  BY DEF TypeInv
<1> QED BY <1>1

\* run only takes a fiber that waits, has nothing to do, and is not joined.
LEMMA TakenFiber ==
  ASSUME Inv, ~NoFiberAvailable, m_cache # <<>>
  PROVE  LET x == Last(m_cache) IN
         /\ x \in Contexts /\ x = m_cache[Len(m_cache)] /\ joining = 0
         /\ fiber[x] = "waiting" /\ func[x] = NoFunc
<1>1. m_cache \in Seq(Contexts) /\ m_cache # NoCache /\ ~m_stop
  BY CacheSeq DEF NoFiberAvailable, Inv
<1>2. /\ Last(m_cache) \in Contexts /\ Last(m_cache) = m_cache[Len(m_cache)]
      /\ Len(m_cache) \in DOMAIN m_cache
  BY <1>1, Popped
<1>3. joining = 0
  BY <1>1, FiberAssumption DEF Inv, PhaseInv, TypeInv
<1> QED BY <1>1, <1>2, <1>3 DEF Inv, CacheInv, FiberInv

\* A fiber that works is not in the cache, and the main thread has not met m_fib_cnt.
LEMMA WorkingFiber ==
  ASSUME Inv, NEW x \in Contexts, fiber[x] = "running"
  PROVE  /\ m_cache # NoCache /\ joining = 0 /\ ~Cached(x)
         /\ main \notin {"idle", "joining", "stopped", "ended"}
<1>1. m_cache # NoCache /\ main \notin {"stopped", "ended"}
  BY DEF Inv, PhaseInv, FiberInv, TypeInv, Contexts
<1>2. \A i \in DOMAIN m_cache : m_cache[i] # x
  BY <1>1, CacheSeq DEF Inv, CacheInv, TypeInv
<1>3. ~Cached(x) /\ main \notin {"idle", "joining"}
  BY <1>2 DEF Cached, Inv, CacheInv
<1>4. joining = 0
  BY <1>3, FiberAssumption DEF Inv, PhaseInv, TypeInv
<1> QED BY <1>1, <1>3, <1>4

\* The cached fibers are among the first m_fib_cnt, so the cache has at most so many;
\* when it has so many it has them all.
LEMMA CacheFits ==
  ASSUME Inv, m_cache # NoCache
  PROVE  /\ Len(m_cache) <= m_fib_cnt
         /\ Len(m_cache) = m_fib_cnt =>
              \A x \in Contexts : fiber[x] # "none" => Cached(x)
<1>1. m_cache \in Seq(Contexts) /\ m_fib_cnt \in Nat /\ IsInjective(m_cache)
  BY CacheSeq DEF Inv, TypeInv, CacheInv
<1>2. \A i \in DOMAIN m_cache : m_cache[i] \in 1 .. m_fib_cnt
  <2>1. ASSUME NEW i \in DOMAIN m_cache PROVE fiber[m_cache[i]] # "none" /\ m_cache[i] \in Contexts
    BY CacheSeq DEF Inv, CacheInv, TypeInv
  <2> QED BY <2>1 DEF Inv, FiberInv, TypeInv, Contexts
<1>3. m_cache \in Seq(1 .. m_fib_cnt)
  BY <1>1, <1>2
<1>4. /\ Len(m_cache) <= m_fib_cnt
      /\ Len(m_cache) = m_fib_cnt =>
           \A x \in 1 .. m_fib_cnt : \E i \in DOMAIN m_cache : m_cache[i] = x
  BY <1>1, <1>3, AllCached
<1>5. \A x \in Contexts : fiber[x] # "none" => x \in 1 .. m_fib_cnt
  BY <1>1 DEF Inv, FiberInv, TypeInv, Contexts
<1> QED BY <1>4, <1>5 DEF Cached

-----------------------------------------------------------------------------
(* The steps.                                                              *)

LEMMA TypeStep ==
  ASSUME Inv, [Next]_vars
  PROVE  TypeInv'
<1>0. TypeInv
  BY DEF Inv
<1>1. ASSUME NEW f \in Funcs, RunCached(f) PROVE TypeInv'
  <2>1. m_cache \in Seq(Contexts) /\ m_cache # <<>>
    BY <1>0, <1>1, CacheSeq DEF RunCached, NoFiberAvailable
  <2>2. Front(m_cache) \in Seq(Contexts)
    BY <2>1, Popped
  <2> QED BY <1>0, <1>1, <2>2 DEF RunCached, PopFiber, Notify, TypeInv
<1>2. ASSUME NEW f \in Funcs, RunNew(f) PROVE TypeInv'
  BY <1>0, <1>2, FiberAssumption DEF RunNew, Contexts, TypeInv
<1>3. ASSUME NEW f \in Funcs, RunDetached(f) PROVE TypeInv'
  BY <1>0, <1>3 DEF RunDetached, contexts, TypeInv
<1>4. ASSUME NEW f \in Funcs, DetachedStep(f) PROVE TypeInv'
  <2>1. CASE StartDetached(f)
    BY <1>0, <2>1 DEF StartDetached, contexts, TypeInv
  <2>2. CASE FinishDetached(f)
    BY <1>0, <2>2 DEF FinishDetached, contexts, TypeInv
  <2> QED BY <1>4, <2>1, <2>2 DEF DetachedStep
<1>5. ASSUME NEW x \in Contexts, StartWork(x) PROVE TypeInv'
  BY <1>0, <1>5 DEF StartWork, TypeInv
<1>6. ASSUME NEW x \in Contexts, FinishWork(x) PROVE TypeInv'
  <2>1. BackToCache(x) \in Seq(Contexts) \cup {NoCache}
    BY <1>0, <1>6, CacheSeq, Pushed DEF BackToCache
  <2> QED BY <1>0, <1>6, <2>1 DEF FinishWork, TypeInv
<1>7. ASSUME NEW x \in Contexts, ExitFiber(x) PROVE TypeInv'
  BY <1>0, <1>7 DEF ExitFiber, TypeInv
<1>8. ASSUME NEW a, NEW lambda \in Lambdas, NEW b, Posts(a, lambda, b),
             b \in {"serving", "stopping", "counting", "joining"}
      PROVE  TypeInv'
  <2>1. Append(posted, lambda) \in Seq(Lambdas)
    BY <1>0, Pushed DEF TypeInv
  <2> QED BY <1>0, <1>8, <2>1 DEF Posts, contexts, TypeInv
<1>9. ASSUME RegisterIoService \/ UnregisterIoService \/ CountFibers \/ JoinFibers
      PROVE  TypeInv'
  <2>1. {"make", "stop", "count", "join"} \subseteq Lambdas
    BY DEF Lambdas
  <2> QED BY <1>8, <1>9, <2>1 DEF RegisterIoService, UnregisterIoService, CountFibers, JoinFibers
<1>10. ASSUME NEW lambda, RunsPosted(lambda) PROVE posted' \in Seq(Lambdas)
  BY <1>0, <1>10 DEF RunsPosted, TypeInv
<1>11. ASSUME MakeCache PROVE TypeInv'
  BY <1>0, <1>10, <1>11 DEF MakeCache, RunsPosted, TypeInv
<1>12. ASSUME SetStop PROVE TypeInv'
  BY <1>0, <1>10, <1>12 DEF SetStop, RunsPosted, TypeInv
<1>13. ASSUME Count PROVE TypeInv'
  BY <1>0, <1>10, <1>13 DEF Count, RunsPosted, TypeInv
<1>14. ASSUME NEW i \in 1 .. MaxFibers + 1, JoinNext(i),
              i <= Len(m_cache) => i \in 1 .. MaxFibers,
              UNCHANGED <<m_fib_cnt, func, m_stop, status, runs>>, posted' \in Seq(Lambdas)
       PROVE  TypeInv'
  <2>1. CASE i <= Len(m_cache)
    BY <1>0, <1>14, <2>1 DEF JoinNext, Notify, TypeInv
  <2>2. CASE ~(i <= Len(m_cache))
    BY <1>0, <1>14, <2>2, FiberAssumption DEF JoinNext, TypeInv
  <2> QED BY <2>1, <2>2
<1>15. m_cache # NoCache => Len(m_cache) <= MaxFibers /\ Len(m_cache) \in Nat
  BY <1>0, CacheFits, CacheSeq, FiberAssumption DEF TypeInv
<1>16. ASSUME StartJoin PROVE TypeInv'
  <2>1. m_cache # NoCache /\ posted' \in Seq(Lambdas)
    BY <1>0, <1>10, <1>16 DEF StartJoin, RunsPosted, Inv, PhaseInv, TypeInv
  <2> QED BY <1>14, <1>15, <1>16, <2>1, FiberAssumption DEF StartJoin, RunsPosted
<1>17. ASSUME ContinueJoin PROVE TypeInv'
  <2>1. m_cache # NoCache /\ posted' \in Seq(Lambdas) /\ joining + 1 \in 1 .. MaxFibers + 1
    BY <1>0, <1>17, FiberAssumption DEF ContinueJoin, Inv, PhaseInv, TypeInv
  <2> QED BY <1>14, <1>15, <1>17, <2>1, FiberAssumption DEF ContinueJoin
<1>18. ASSUME StopIoService PROVE TypeInv'
  BY <1>0, <1>18 DEF StopIoService, contexts, TypeInv
<1>19. ASSUME UNCHANGED vars PROVE TypeInv'
  BY <1>0, <1>19 DEF vars, contexts, TypeInv
<1> QED BY <1>1, <1>2, <1>3, <1>4, <1>5, <1>6, <1>7, <1>9, <1>11, <1>12, <1>13, <1>16, <1>17, <1>18, <1>19
        DEF Next, FiberStep, WorkerStep

\* The order of the main thread's lambdas.
LEMMA PhaseStep ==
  ASSUME Inv, [Next]_vars
  PROVE  PhaseInv'
<1>0. /\ TypeInv /\ PhaseInv
      /\ main \in {"start", "serving", "stopping", "counting", "active", "idle", "joining", "stopped", "ended"}
  BY DEF Inv, TypeInv
<1>1. ASSUME UNCHANGED <<m_stop, posted, joining, main>>, m_fib_cnt' = m_fib_cnt,
             m_cache' = NoCache <=> m_cache = NoCache
      PROVE  PhaseInv'
  BY <1>0, <1>1 DEF PhaseInv
<1>2. ASSUME NEW f \in Funcs, RunCached(f) \/ RunNew(f) PROVE PhaseInv'
  <2>1. m_cache # NoCache /\ main \notin {"stopped", "ended"} /\ m_cache' # NoCache
    <3>1. m_cache # NoCache
      BY <1>2 DEF RunCached, RunNew, NoFiberAvailable
    <3>2. CASE RunNew(f)
      BY <1>0, <3>1, <3>2 DEF RunNew, PhaseInv
    <3>3. CASE RunCached(f)
      <4>1. m_cache' = Front(m_cache)
        BY <3>3 DEF RunCached, PopFiber
      <4>2. Front(m_cache) \in Seq(Contexts)
        BY <1>0, <3>1, <3>3, CacheSeq, Popped DEF RunCached
      <4> QED BY <1>0, <3>1, <4>1, <4>2, CacheOrNot DEF PhaseInv
    <3> QED BY <1>2, <3>2, <3>3
  <2>2. UNCHANGED <<m_stop, posted, joining, main>>
    BY <1>2 DEF RunCached, RunNew
  <2> QED BY <1>0, <2>1, <2>2 DEF PhaseInv
<1>3. ASSUME NEW f \in Funcs, RunDetached(f) \/ DetachedStep(f) PROVE PhaseInv'
  BY <1>1, <1>3 DEF RunDetached, DetachedStep, StartDetached, FinishDetached, contexts
<1>4. ASSUME NEW x \in Contexts, FiberStep(x) PROVE PhaseInv'
  <2>1. CASE StartWork(x) \/ ExitFiber(x)
    BY <1>1, <2>1 DEF StartWork, ExitFiber
  <2>2. CASE FinishWork(x)
    <3>1. m_cache # NoCache
      BY <2>2, WorkingFiber DEF FinishWork
    <3>2. m_cache' # NoCache
      BY <1>0, <2>2, <3>1, CacheSeq, Pushed, CacheOrNot DEF FinishWork, BackToCache
    <3> QED BY <1>1, <2>2, <3>1, <3>2 DEF FinishWork
  <2> QED BY <1>4, <2>1, <2>2 DEF FiberStep
<1>5. CASE RegisterIoService
  BY <1>0, <1>5, Queues DEF RegisterIoService, Posts, contexts, PhaseInv
<1>6. CASE UnregisterIoService
  BY <1>0, <1>6, Queues DEF UnregisterIoService, Posts, contexts, PhaseInv
<1>7. CASE CountFibers
  BY <1>0, <1>7, Queues DEF CountFibers, Posts, contexts, PhaseInv
<1>8. CASE JoinFibers
  <2>1. joining = 0
    BY <1>0, <1>8, FiberAssumption DEF JoinFibers, Posts, PhaseInv, TypeInv
  <2> QED BY <1>0, <1>8, <2>1, Queues DEF JoinFibers, Posts, contexts, PhaseInv
<1>9. CASE MakeCache
  <2>1. <<>> # NoCache
    <3>1. <<>> \in Seq(Contexts)
      OBVIOUS
    <3> QED BY <3>1, CacheOrNot
  <2>2. main \in {"serving", "stopping"} /\ m_cache = NoCache
    BY <1>0, <1>9, Queues DEF MakeCache, RunsPosted, PhaseInv
  <2>3. posted' = (IF main = "serving" THEN <<>> ELSE <<"stop">>)
    <3>1. posted' = Tail(posted)
      BY <1>9 DEF MakeCache, RunsPosted
    <3>2. posted = (IF main = "serving" THEN <<"make">> ELSE <<"make", "stop">>)
      BY <1>0, <2>2 DEF PhaseInv
    <3>3. Tail(<<"make">>) = <<>> /\ Tail(<<"make", "stop">>) = <<"stop">>
      BY Queues
    <3> QED BY <3>1, <3>2, <3>3
  <2> QED BY <1>0, <1>9, <2>1, <2>2, <2>3 DEF MakeCache, RunsPosted, PhaseInv
<1>10. CASE SetStop
  <2>1. main = "stopping" /\ m_cache # NoCache /\ posted = <<"stop">>
    BY <1>0, <1>10, Queues DEF SetStop, RunsPosted, PhaseInv
  <2> QED BY <1>0, <1>10, <2>1, Queues DEF SetStop, RunsPosted, PhaseInv
<1>11. CASE Count
  <2>1. main = "counting" /\ m_cache # NoCache /\ posted = <<"count">>
    BY <1>0, <1>11, Queues DEF Count, RunsPosted, PhaseInv
  <2> QED BY <1>0, <1>11, <2>1, Queues DEF Count, RunsPosted, PhaseInv
<1>12. ASSUME NEW i \in Nat, i > 0, JoinNext(i), main = "joining", posted' = <<>>,
              UNCHANGED <<m_fib_cnt, m_stop>>
       PROVE  PhaseInv'
  <2>1. CASE i <= Len(m_cache)
    BY <1>0, <1>12, <2>1 DEF JoinNext, PhaseInv
  <2>2. CASE ~(i <= Len(m_cache))
    BY <1>0, <1>12, <2>2 DEF JoinNext, PhaseInv
  <2> QED BY <2>1, <2>2
<1>13. CASE StartJoin
  <2>1. main = "joining" /\ posted = <<"join">>
    BY <1>0, <1>13, Queues DEF StartJoin, RunsPosted, PhaseInv
  <2> QED BY <1>0, <1>12, <1>13, <2>1, Queues DEF StartJoin, RunsPosted
<1>14. CASE ContinueJoin
  <2>1. joining \in Nat /\ main = "joining" /\ posted' = <<>>
    BY <1>0, <1>14, FiberAssumption DEF ContinueJoin, PhaseInv, TypeInv
  <2> QED BY <1>12, <1>14, <2>1 DEF ContinueJoin
<1>15. CASE StopIoService
  BY <1>0, <1>15 DEF StopIoService, contexts, PhaseInv
<1>16. CASE UNCHANGED vars
  BY <1>1, <1>16 DEF vars, contexts
<1> QED BY <1>2, <1>3, <1>4, <1>5, <1>6, <1>7, <1>8, <1>9, <1>10, <1>11, <1>13, <1>14, <1>15, <1>16
        DEF Next, WorkerStep

\* The join goes on with the i-th fiber: it was waiting, and is woken without a
\* function; or there is none, and all fibers have ended.
LEMMA JoinStep ==
  ASSUME Inv, NEW i \in Nat, main = "joining", i = joining + 1, JoinNext(i),
         joining > 0 => fiber[m_cache[joining]] = "ended",
         UNCHANGED <<m_fib_cnt, func>>
  PROVE  FiberInv' /\ CacheInv'
<1>0. /\ TypeInv /\ FiberInv /\ CacheInv /\ m_cache # NoCache
      /\ m_cache \in Seq(Contexts) /\ joining \in Nat
      /\ Len(m_cache) \in Nat /\ DOMAIN m_cache = 1 .. Len(m_cache)
      /\ \A k \in DOMAIN m_cache : m_cache[k] \in Contexts
  <2>1. TypeInv /\ FiberInv /\ CacheInv /\ m_cache # NoCache
    BY DEF Inv, PhaseInv
  <2>2. joining \in Nat
    BY <2>1, FiberAssumption DEF TypeInv
  <2> QED BY <2>1, <2>2, CacheSeq
<1>1. ASSUME NEW x \in Contexts, fiber[x] = "ready", func[x] = NoFunc PROVE FALSE
  BY <1>0, <1>1 DEF FiberInv
<1>2. \A k \in DOMAIN m_cache : k < i => fiber[m_cache[k]] = "ended"
  BY <1>0 DEF CacheInv
<1>3. \A k \in DOMAIN m_cache : k >= i => fiber[m_cache[k]] = "waiting"
  BY <1>0 DEF CacheInv
<1>4. CASE i <= Len(m_cache)
  <2> DEFINE x == m_cache[i]
  <2>1. i \in DOMAIN m_cache /\ x \in Contexts /\ fiber[x] = "waiting" /\ func[x] = NoFunc
    BY <1>0, <1>3, <1>4 DEF FiberInv
  <2>2. /\ fiber' = [fiber EXCEPT ![x] = "ready"] /\ joining' = i
        /\ m_cache' = m_cache /\ main' = main /\ func' = func /\ m_fib_cnt' = m_fib_cnt
    BY <1>4, <2>1 DEF JoinNext, Notify
  <2>3. \A k \in DOMAIN m_cache : k # i => m_cache[k] # x
    BY <1>0, <2>1 DEF CacheInv, IsInjective
  <2>4. \A y \in Contexts : fiber'[y] = IF y = x THEN "ready" ELSE fiber[y]
    BY <1>0, <2>1, <2>2 DEF TypeInv
  <2>5. FiberInv'
    <3> HIDE DEF x
    <3>1. \A y \in Contexts : func[y] # NoFunc => y # x
      BY <2>1
    <3>2. \A y \in Contexts : fiber'[y] = "ready" /\ func'[y] = NoFunc => y = m_cache'[joining']
      BY <1>1, <2>2, <2>4 DEF x
    <3> QED BY <1>0, <2>1, <2>2, <2>4, <3>1, <3>2 DEF FiberInv
  <2>6. CacheInv'
    <3>1. \A y : Cached(y)' <=> Cached(y)
      BY <2>2 DEF Cached
    <3>2. \A k \in DOMAIN m_cache : fiber'[m_cache[k]] = IF k = i THEN "ready" ELSE fiber[m_cache[k]]
      BY <1>0, <2>3, <2>4
    <3> HIDE DEF x
    <3>3. \A k \in DOMAIN m_cache' :
            /\ k < joining' => fiber'[m_cache'[k]] = "ended"
            /\ k = joining' => fiber'[m_cache'[k]] = "ready" /\ func'[m_cache'[k]] = NoFunc
            /\ k > joining' => fiber'[m_cache'[k]] = "waiting"
      BY <1>0, <1>2, <1>3, <2>1, <2>2, <3>2 DEF x
    <3> QED BY <1>0, <2>1, <2>2, <2>4, <3>1, <3>3 DEF CacheInv
  <2> QED BY <2>5, <2>6
<1>5. CASE ~(i <= Len(m_cache))
  <2>1. \A x \in Contexts : Cached(x) => fiber[x] = "ended"
    BY <1>0, <1>2, <1>5 DEF Cached
  <2>2. \A x \in Contexts : fiber[x] \in {"none", "ended"}
    BY <1>0, <2>1 DEF CacheInv
  <2>3. /\ m_cache' = NoCache /\ main' = "stopped" /\ joining' = 0
        /\ fiber' = fiber /\ func' = func /\ m_fib_cnt' = m_fib_cnt
    BY <1>5 DEF JoinNext
  <2>4. FiberInv'
    BY <1>0, <2>2, <2>3 DEF FiberInv
  <2>5. CacheInv'
    BY <2>2, <2>3 DEF CacheInv
  <2> QED BY <2>4, <2>5
<1> QED BY <1>4, <1>5

\* A step that moves no fiber and leaves the cache as it is.
LEMMA NothingMoves ==
  ASSUME Inv, UNCHANGED <<contexts, joining>>,
         main' \in {"stopped", "ended"} <=> main \in {"stopped", "ended"},
         main' \in {"idle", "joining"} => main \in {"idle", "joining"}
  PROVE  FiberInv' /\ CacheInv'
<1>0. FiberInv /\ CacheInv /\ UNCHANGED <<m_cache, m_fib_cnt, fiber, func, joining>>
  BY DEF Inv, contexts
<1>1. FiberInv'
  BY <1>0 DEF FiberInv
<1>2. \A x : Cached(x)' <=> Cached(x)
  BY <1>0 DEF Cached
<1>3. CacheInv'
  BY <1>0, <1>2 DEF CacheInv
<1> QED BY <1>1, <1>3

\* Fibers, their functions and the cache.
LEMMA ContextStep ==
  ASSUME Inv, [Next]_vars
  PROVE  FiberInv' /\ CacheInv'
<1>0. /\ TypeInv /\ PhaseInv /\ FiberInv /\ CacheInv
      /\ m_fib_cnt \in Nat /\ joining \in Nat
      /\ main \in {"start", "serving", "stopping", "counting", "active", "idle", "joining", "stopped", "ended"}
  BY FiberAssumption DEF Inv, TypeInv
<1>1. ASSUME NEW f \in Funcs, RunCached(f) PROVE FiberInv' /\ CacheInv'
  <2> DEFINE x == Last(m_cache)
             n == Len(m_cache)
  <2>1. /\ ~NoFiberAvailable /\ m_cache # <<>> /\ m_cache # NoCache /\ ~m_stop
        /\ m_cache' = Front(m_cache) /\ UNCHANGED <<m_fib_cnt, joining, main>>
    BY <1>1 DEF RunCached, NoFiberAvailable, PopFiber
  <2>2. /\ m_cache \in Seq(Contexts) /\ n \in Nat /\ n > 0 /\ DOMAIN m_cache = 1 .. n
        /\ DOMAIN m_cache' = 1 .. n - 1 /\ \A i \in 1 .. n - 1 : m_cache'[i] = m_cache[i]
        /\ \A i \in 1 .. n : m_cache[i] \in Contexts
        /\ m_cache' # NoCache
    BY <2>1, CacheSeq, Popped, CacheOrNot, <1>0
  <2>3. /\ x \in Contexts /\ x = m_cache[n] /\ joining = 0
        /\ fiber[x] = "waiting" /\ func[x] = NoFunc
    BY <2>1, TakenFiber
  <2>4. fiber' = [fiber EXCEPT ![x] = "ready"] /\ func' = [func EXCEPT ![x] = f]
    BY <1>1, <2>3 DEF RunCached, PopFiber, Notify
  <2>5. /\ \A y \in Contexts : fiber'[y] = IF y = x THEN "ready" ELSE fiber[y]
        /\ \A y \in Contexts : func'[y] = IF y = x THEN f ELSE func[y]
    BY <1>0, <2>3, <2>4 DEF TypeInv
  <2>6. main \notin {"idle", "joining", "stopped", "ended"}
    BY <1>0, <2>1 DEF PhaseInv
  <2>7. FiberInv'
    BY <1>0, <2>1, <2>3, <2>5, <2>6, FiberAssumption DEF FiberInv
  <2> HIDE DEF x, n
  <2>8. IsInjective(m_cache) /\ IsInjective(m_cache')
    BY <1>0, <2>1, <2>2 DEF CacheInv, IsInjective
  <2>9. \A i \in 1 .. n - 1 : m_cache[i] # x
    BY <2>2, <2>3, <2>8 DEF IsInjective
  <2>10. \A i \in 1 .. n - 1 : fiber'[m_cache'[i]] = "waiting" /\ m_cache'[i] \in Contexts
    BY <1>0, <2>1, <2>2, <2>3, <2>5, <2>9 DEF CacheInv
  <2>11. ASSUME NEW y \in Contexts, fiber'[y] = "waiting" PROVE Cached(y)'
    <3>1. y # x /\ fiber[y] = "waiting"
      BY <2>5, <2>11
    <3>2. PICK i \in 1 .. n : m_cache[i] = y
      BY <1>0, <2>2, <3>1 DEF CacheInv, Cached
    <3>3. i \in 1 .. n - 1 /\ m_cache'[i] = y
      BY <2>2, <2>3, <3>1, <3>2
    <3> QED BY <2>2, <3>3 DEF Cached
  <2>12. CacheInv'
    BY <2>1, <2>2, <2>3, <2>6, <2>8, <2>10, <2>11 DEF CacheInv
  <2> QED BY <2>7, <2>12
<1>2. ASSUME NEW f \in Funcs, RunNew(f) PROVE FiberInv' /\ CacheInv'
  <2> DEFINE x == m_fib_cnt + 1
  <2>1. /\ m_cache = <<>> /\ m_cache # NoCache /\ ~m_stop /\ x \in Contexts
        /\ fiber' = [fiber EXCEPT ![x] = "ready"] /\ func' = [func EXCEPT ![x] = f]
        /\ m_fib_cnt' = x /\ UNCHANGED <<m_cache, joining, main>>
    BY <1>0, <1>2, FiberAssumption DEF RunNew, NoFiberAvailable, Contexts
  <2>2. /\ \A y \in Contexts : fiber'[y] = IF y = x THEN "ready" ELSE fiber[y]
        /\ \A y \in Contexts : func'[y] = IF y = x THEN f ELSE func[y]
    BY <1>0, <2>1 DEF TypeInv
  <2>3. main \notin {"idle", "joining", "stopped", "ended"} /\ joining = 0
    BY <1>0, <2>1 DEF PhaseInv
  <2>4. f # NoFunc
    BY FiberAssumption
  <2>5. \A y \in Contexts : (y > x) <=> (y > m_fib_cnt /\ y # x)
    BY <1>0 DEF Contexts
  <2> HIDE DEF x
  <2>6. FiberInv'
    BY <1>0, <2>1, <2>2, <2>3, <2>4, <2>5 DEF FiberInv
  <2>7. \A y : Cached(y)' <=> Cached(y)
    BY <2>1 DEF Cached
  <2>8. CacheInv'
    BY <1>0, <2>1, <2>2, <2>3, <2>7 DEF CacheInv
  <2> QED BY <2>6, <2>8
<1>3. ASSUME NEW f \in Funcs, RunDetached(f) \/ DetachedStep(f) PROVE FiberInv' /\ CacheInv'
  <2>1. UNCHANGED <<contexts, joining, main>>
    BY <1>3 DEF RunDetached, DetachedStep, StartDetached, FinishDetached
  <2>2. /\ UNCHANGED <<m_cache, m_fib_cnt, fiber, func, joining, main>>
        /\ \A x : Cached(x)' <=> Cached(x)
    BY <2>1 DEF contexts, Cached
  <2> QED BY <1>0, <2>2 DEF FiberInv, CacheInv
<1>4. ASSUME NEW x \in Contexts, StartWork(x) PROVE FiberInv' /\ CacheInv'
  <2>1. /\ fiber[x] = "ready" /\ func[x] # NoFunc
        /\ UNCHANGED <<m_cache, m_fib_cnt, func, joining, main>>
        /\ \A y \in Contexts : fiber'[y] = IF y = x THEN "running" ELSE fiber[y]
    BY <1>0, <1>4 DEF StartWork, TypeInv
  <2>2. main \notin {"stopped", "ended"}
    BY <1>0, <2>1 DEF FiberInv
  <2>3. FiberInv'
    BY <1>0, <2>1, <2>2 DEF FiberInv
  <2>4. \A y : Cached(y)' <=> Cached(y)
    BY <2>1 DEF Cached
  <2>5. m_cache # NoCache => \A i \in DOMAIN m_cache : m_cache[i] \in Contexts /\ m_cache[i] # x
    <3>1. ASSUME m_cache # NoCache, NEW i \in DOMAIN m_cache PROVE m_cache[i] \in Contexts
      BY <1>0, <3>1, CacheSeq
    <3>2. ASSUME m_cache # NoCache, NEW i \in DOMAIN m_cache, m_cache[i] = x PROVE FALSE
      <4>1. i \in Nat
        BY <1>0, <3>2, CacheSeq
      <4> QED BY <1>0, <2>1, <3>2, <4>1 DEF CacheInv
    <3> QED BY <3>1, <3>2
  <2>6. CacheInv'
    BY <1>0, <2>1, <2>4, <2>5 DEF CacheInv
  <2> QED BY <2>3, <2>6
<1>5. ASSUME NEW x \in Contexts, FinishWork(x) PROVE FiberInv' /\ CacheInv'
  <2> DEFINE n == Len(m_cache)
  <2>1. /\ fiber[x] = "running" /\ m_cache # NoCache /\ joining = 0 /\ ~Cached(x)
        /\ main \notin {"idle", "joining", "stopped", "ended"}
    BY <1>5, WorkingFiber DEF FinishWork
  <2>2. /\ m_cache' = Append(m_cache, x) /\ UNCHANGED <<m_fib_cnt, joining, main>>
        /\ \A y \in Contexts : fiber'[y] = IF y = x THEN "waiting" ELSE fiber[y]
        /\ \A y \in Contexts : func'[y] = IF y = x THEN NoFunc ELSE func[y]
    BY <1>0, <1>5, <2>1 DEF FinishWork, BackToCache, TypeInv
  <2>3. /\ n \in Nat /\ DOMAIN m_cache = 1 .. n /\ DOMAIN m_cache' = 1 .. n + 1
        /\ \A i \in 1 .. n : m_cache'[i] = m_cache[i] /\ m_cache[i] \in Contexts
        /\ m_cache'[n + 1] = x /\ m_cache' # NoCache
    BY <1>0, <2>1, <2>2, CacheSeq, Pushed, CacheOrNot
  <2>4. FiberInv'
    BY <1>0, <2>1, <2>2 DEF FiberInv
  <2> HIDE DEF n
  <2>5. \A i \in 1 .. n : m_cache[i] # x
    BY <2>1, <2>3 DEF Cached
  <2>6. IsInjective(m_cache')
    <3>1. IsInjective(m_cache)
      BY <1>0, <2>1 DEF CacheInv
    <3> QED BY <2>3, <2>5, <3>1 DEF IsInjective
  <2>7. ASSUME NEW y \in Contexts, fiber'[y] = "waiting" PROVE Cached(y)'
    <3>1. CASE y = x
      BY <2>3, <3>1 DEF Cached
    <3>2. CASE y # x
      <4>1. PICK i \in 1 .. n : m_cache[i] = y
        BY <1>0, <2>2, <2>3, <2>7, <3>2 DEF CacheInv, Cached
      <4> QED BY <2>3, <4>1 DEF Cached
    <3> QED BY <3>1, <3>2
  <2>8. \A i \in 1 .. n + 1 : fiber'[m_cache'[i]] = "waiting"
    BY <1>0, <2>1, <2>2, <2>3, <2>5 DEF CacheInv
  <2>9. CacheInv'
    BY <2>1, <2>2, <2>3, <2>6, <2>7, <2>8 DEF CacheInv
  <2> QED BY <2>4, <2>9
<1>6. ASSUME NEW x \in Contexts, ExitFiber(x) PROVE FiberInv' /\ CacheInv'
  <2>1. /\ fiber[x] = "ready" /\ func[x] = NoFunc
        /\ UNCHANGED <<m_cache, m_fib_cnt, func, joining, main>>
        /\ \A y \in Contexts : fiber'[y] = IF y = x THEN "ended" ELSE fiber[y]
    BY <1>0, <1>6 DEF ExitFiber, TypeInv
  <2>2. joining > 0 /\ x = m_cache[joining] /\ m_cache # NoCache /\ main = "joining"
    BY <1>0, <2>1 DEF FiberInv, PhaseInv
  <2>3. FiberInv'
    BY <1>0, <2>1, <2>2 DEF FiberInv
  <2>4. \A y : Cached(y)' <=> Cached(y)
    BY <2>1 DEF Cached
  <2>5. /\ joining \in DOMAIN m_cache /\ DOMAIN m_cache \subseteq Nat
        /\ \A i \in DOMAIN m_cache : m_cache[i] \in Contexts
        /\ \A i \in DOMAIN m_cache : i # joining => m_cache[i] # x
    <3>1. joining \in DOMAIN m_cache /\ IsInjective(m_cache)
      BY <1>0, <2>2 DEF CacheInv
    <3>2. DOMAIN m_cache \subseteq Nat /\ \A i \in DOMAIN m_cache : m_cache[i] \in Contexts
      BY <1>0, <2>2, CacheSeq
    <3> QED BY <2>2, <3>1, <3>2 DEF IsInjective
  <2>6. CacheInv'
    BY <1>0, <2>1, <2>2, <2>4, <2>5 DEF CacheInv
  <2> QED BY <2>3, <2>6
<1>7. ASSUME RegisterIoService \/ UnregisterIoService \/ CountFibers \/ JoinFibers
      PROVE  FiberInv' /\ CacheInv'
  BY <1>7, NothingMoves
  DEF RegisterIoService, UnregisterIoService, CountFibers, JoinFibers, Posts
<1>8. CASE MakeCache
  <2>1. main \in {"serving", "stopping"} /\ m_cache = NoCache /\ m_fib_cnt = 0 /\ joining = 0
    BY <1>0, <1>8, Queues DEF MakeCache, RunsPosted, PhaseInv
  <2>2. m_cache' = <<>> /\ UNCHANGED <<m_fib_cnt, fiber, func, joining, main>>
    BY <1>8 DEF MakeCache, RunsPosted
  <2>3. \A x \in Contexts : fiber[x] = "none"
    BY <1>0, <2>1 DEF FiberInv, Contexts
  <2>4. FiberInv'
    BY <1>0, <2>1, <2>2, <2>3 DEF FiberInv
  <2>5. CacheInv'
    BY <2>1, <2>2, <2>3 DEF CacheInv, IsInjective
  <2> QED BY <2>4, <2>5
<1>9. CASE SetStop
  <2>1. main = "stopping" /\ main' = "active" /\ UNCHANGED <<contexts, joining>>
    BY <1>0, <1>9, Queues DEF SetStop, RunsPosted, PhaseInv, contexts
  <2> QED BY <2>1, NothingMoves
<1>10. CASE Count
  <2>1. main = "counting" /\ m_cache # NoCache /\ UNCHANGED <<contexts, joining>>
    BY <1>0, <1>10, Queues DEF Count, RunsPosted, PhaseInv, contexts
  <2>2. CASE ~NoActiveFibers
    BY <1>10, <2>1, <2>2, NothingMoves DEF Count
  <2>3. CASE NoActiveFibers
    <3>1. \A x \in Contexts : fiber[x] # "none" => Cached(x)
      BY <2>1, <2>3, CacheFits DEF NoActiveFibers
    <3>2. /\ UNCHANGED <<m_cache, m_fib_cnt, fiber, func, joining>> /\ main' = "idle"
          /\ \A x : Cached(x)' <=> Cached(x)
      BY <1>10, <2>1, <2>3 DEF Count, contexts, Cached
    <3> QED BY <1>0, <2>1, <3>1, <3>2 DEF FiberInv, CacheInv
  <2> QED BY <2>2, <2>3
<1>11. CASE StartJoin
  <2>1. main = "joining" /\ joining = 0 /\ JoinNext(1) /\ UNCHANGED <<m_fib_cnt, func>>
    BY <1>0, <1>11, Queues DEF StartJoin, RunsPosted, PhaseInv
  <2> QED BY <2>1, JoinStep
<1>12. CASE ContinueJoin
  <2>1. /\ main = "joining" /\ joining > 0 /\ fiber[m_cache[joining]] = "ended"
        /\ JoinNext(joining + 1) /\ UNCHANGED <<m_fib_cnt, func>> /\ joining + 1 \in Nat
    BY <1>0, <1>12 DEF ContinueJoin, PhaseInv
  <2> QED BY <2>1, JoinStep
<1>13. CASE StopIoService
  BY <1>13, NothingMoves DEF StopIoService
<1>14. CASE UNCHANGED vars
  <2>1. /\ UNCHANGED <<m_cache, m_fib_cnt, fiber, func, joining, main>>
        /\ \A x : Cached(x)' <=> Cached(x)
    BY <1>14 DEF vars, contexts, Cached
  <2> QED BY <1>0, <2>1 DEF FiberInv, CacheInv
<1> QED BY <1>1, <1>2, <1>3, <1>4, <1>5, <1>6, <1>7, <1>8, <1>9, <1>10, <1>11, <1>12, <1>13, <1>14
        DEF Next, FiberStep, WorkerStep

\* Functions: run gives one to a fiber that has none, and only its fiber ends it.
LEMMA FuncStep ==
  ASSUME Inv, [Next]_vars
  PROVE  FuncInv'
<1>0. TypeInv /\ FiberInv /\ CacheInv /\ FuncInv
  BY DEF Inv
<1>1. ASSUME NEW f \in Funcs, NEW x \in Contexts, status[f] = "new",
             func[x] = NoFunc, func' = [func EXCEPT ![x] = f],
             status' = [status EXCEPT ![f] = "cached"], runs' = runs, fiber'[x] = "ready",
             \A y \in Contexts : y # x => fiber'[y] = fiber[y]
      PROVE  FuncInv'
  <2>1. /\ \A y \in Contexts : func'[y] = IF y = x THEN f ELSE func[y]
        /\ \A g \in Funcs : status'[g] = IF g = f THEN "cached" ELSE status[g]
    BY <1>0, <1>1 DEF TypeInv
  <2>2. f # NoFunc /\ \A y \in Contexts : func[y] # f /\ (func[y] # NoFunc => func[y] \in Funcs)
    BY <1>0, <1>1, FiberAssumption DEF FuncInv, TypeInv
  <2>3. \A y, z \in Contexts : func'[y] = func'[z] /\ func'[y] # NoFunc => y = z
    BY <1>0, <2>1, <2>2 DEF FuncInv
  <2>4. \A y \in Contexts : func'[y] # NoFunc =>
          status'[func'[y]] = (IF fiber'[y] = "ready" THEN "cached" ELSE "running")
    BY <1>0, <1>1, <2>1, <2>2 DEF FuncInv
  <2>5. ASSUME NEW g \in Funcs, status'[g] \in {"cached", "running"}
        PROVE  \E y \in Contexts : func'[y] = g
    <3>1. CASE g = f
      BY <2>1, <3>1
    <3>2. CASE g # f
      <4>1. PICK y \in Contexts : func[y] = g
        BY <1>0, <2>1, <2>5, <3>2 DEF FuncInv
      <4>2. y # x
        BY <1>1, <4>1, FiberAssumption
      <4> QED BY <2>1, <4>1, <4>2
    <3> QED BY <3>1, <3>2
  <2>6. \A g \in Funcs :
          /\ status'[g] \in {"new", "cached"} => runs'[g] = 0
          /\ status'[g] \in {"running", "done"} => runs'[g] = 1
          /\ status'[g] = "detached" => runs'[g] \in {0, 1}
    BY <1>0, <1>1, <2>1 DEF FuncInv
  <2> QED BY <2>3, <2>4, <2>5, <2>6 DEF FuncInv
<1>2. ASSUME NEW f \in Funcs, RunCached(f) PROVE FuncInv'
  <2> DEFINE x == Last(m_cache)
  <2>1. x \in Contexts /\ fiber[x] = "waiting" /\ func[x] = NoFunc
    BY <1>2, TakenFiber DEF RunCached
  <2>2. fiber' = [fiber EXCEPT ![x] = "ready"] /\ func' = [func EXCEPT ![x] = f]
    BY <1>2, <2>1 DEF RunCached, PopFiber, Notify
  <2> HIDE DEF x
  <2>3. fiber'[x] = "ready" /\ \A y \in Contexts : y # x => fiber'[y] = fiber[y]
    BY <1>0, <2>1, <2>2 DEF TypeInv
  <2> QED BY <1>1, <1>2, <2>1, <2>2, <2>3 DEF RunCached
<1>3. ASSUME NEW f \in Funcs, RunNew(f) PROVE FuncInv'
  <2> DEFINE x == m_fib_cnt + 1
  <2>1. x \in Contexts /\ x > m_fib_cnt
    BY <1>0, <1>3, FiberAssumption DEF RunNew, Contexts, TypeInv
  <2>2. fiber[x] = "none"
    BY <1>0, <2>1 DEF FiberInv
  <2>3. func[x] = NoFunc
    BY <1>0, <2>1, <2>2 DEF FiberInv
  <2>4. fiber' = [fiber EXCEPT ![x] = "ready"] /\ func' = [func EXCEPT ![x] = f]
    BY <1>3 DEF RunNew
  <2> HIDE DEF x
  <2>5. fiber'[x] = "ready" /\ \A y \in Contexts : y # x => fiber'[y] = fiber[y]
    BY <1>0, <2>1, <2>4 DEF TypeInv
  <2> QED BY <1>1, <1>3, <2>1, <2>3, <2>4, <2>5 DEF RunNew
<1>4. ASSUME NEW f \in Funcs, RunDetached(f) \/ DetachedStep(f) PROVE FuncInv'
  <2>1. \A y \in Contexts : func[y] # f
    <3>1. \A y \in Contexts : func[y] = f => status[f] \in {"cached", "running"}
      BY <1>0, FiberAssumption DEF FuncInv
    <3> QED BY <1>4, <3>1 DEF RunDetached, DetachedStep, StartDetached, FinishDetached
  <2>2. /\ UNCHANGED <<fiber, func>>
        /\ \A g \in Funcs : g # f => status'[g] = status[g] /\ runs'[g] = runs[g]
        /\ status'[f] \in {"detached", "done"} /\ runs'[f] \in {0, 1}
        /\ status'[f] = "done" => runs'[f] = 1
    <3>1. CASE RunDetached(f)
      BY <1>0, <3>1 DEF RunDetached, contexts, TypeInv, FuncInv
    <3>2. CASE StartDetached(f)
      BY <1>0, <3>2 DEF StartDetached, contexts, TypeInv, FuncInv
    <3>3. CASE FinishDetached(f)
      BY <1>0, <3>3 DEF FinishDetached, contexts, TypeInv, FuncInv
    <3> QED BY <1>4, <3>1, <3>2, <3>3 DEF DetachedStep
  <2>3. \A y \in Contexts : func[y] # NoFunc => func[y] \in Funcs
    BY <1>0 DEF TypeInv
  <2> QED BY <1>0, <2>1, <2>2, <2>3 DEF FuncInv
<1>5. ASSUME NEW x \in Contexts, StartWork(x) PROVE FuncInv'
  <2> DEFINE f == func[x]
  <2>1. f \in Funcs /\ f # NoFunc /\ fiber[x] = "ready" /\ status[f] = "cached" /\ runs[f] = 0
    BY <1>0, <1>5 DEF StartWork, TypeInv, FuncInv
  <2>2. /\ func' = func
        /\ \A y \in Contexts : fiber'[y] = IF y = x THEN "running" ELSE fiber[y]
        /\ \A g \in Funcs : status'[g] = IF g = f THEN "running" ELSE status[g]
        /\ \A g \in Funcs : runs'[g] = IF g = f THEN 1 ELSE runs[g]
    BY <1>0, <1>5, <2>1 DEF StartWork, TypeInv
  <2>3. \A y \in Contexts : func[y] # NoFunc => func[y] \in Funcs /\ (func[y] = f => y = x)
    BY <1>0, <2>1 DEF TypeInv, FuncInv
  <2>4. f = func[x]
    OBVIOUS
  <2> HIDE DEF f
  <2> QED BY <1>0, <2>1, <2>2, <2>3, <2>4 DEF FuncInv
<1>6. ASSUME NEW x \in Contexts, FinishWork(x) PROVE FuncInv'
  <2> DEFINE f == func[x]
  <2>1. fiber[x] = "running" /\ f # NoFunc
    BY <1>0, <1>6 DEF FinishWork, FiberInv
  <2>2. f \in Funcs /\ status[f] = "running" /\ runs[f] = 1
    BY <1>0, <2>1 DEF TypeInv, FuncInv
  <2>3. /\ runs' = runs
        /\ \A y \in Contexts : func'[y] = IF y = x THEN NoFunc ELSE func[y]
        /\ \A y \in Contexts : y # x => fiber'[y] = fiber[y]
        /\ \A g \in Funcs : status'[g] = IF g = f THEN "done" ELSE status[g]
    BY <1>0, <1>6, <2>1, <2>2 DEF FinishWork, TypeInv
  <2>4. \A y \in Contexts : func[y] # NoFunc => func[y] \in Funcs /\ (func[y] = f => y = x)
    BY <1>0, <2>1 DEF TypeInv, FuncInv
  <2>5. f = func[x]
    OBVIOUS
  <2> HIDE DEF f
  <2>6. ASSUME NEW g \in Funcs, status'[g] \in {"cached", "running"}
        PROVE  \E y \in Contexts : func'[y] = g
    <3>1. g # f /\ status[g] \in {"cached", "running"}
      BY <2>3, <2>6
    <3>2. PICK y \in Contexts : func[y] = g
      BY <1>0, <3>1 DEF FuncInv
    <3> QED BY <2>3, <2>5, <3>1, <3>2
  <2>7. \A y, z \in Contexts : func'[y] = func'[z] /\ func'[y] # NoFunc => y = z
    BY <1>0, <2>3 DEF FuncInv
  <2>8. \A y \in Contexts : func'[y] # NoFunc =>
          status'[func'[y]] = (IF fiber'[y] = "ready" THEN "cached" ELSE "running")
    BY <1>0, <2>3, <2>4 DEF FuncInv
  <2>9. \A g \in Funcs :
          /\ status'[g] \in {"new", "cached"} => runs'[g] = 0
          /\ status'[g] \in {"running", "done"} => runs'[g] = 1
          /\ status'[g] = "detached" => runs'[g] \in {0, 1}
    BY <1>0, <2>2, <2>3 DEF FuncInv
  <2> QED BY <2>6, <2>7, <2>8, <2>9 DEF FuncInv
<1>7. ASSUME NEW x \in Contexts, func[x] = NoFunc, UNCHANGED <<func, status, runs>>,
             \A y \in Contexts : y # x => fiber'[y] = fiber[y]
      PROVE  FuncInv'
  BY <1>0, <1>7 DEF FuncInv
<1>8. ASSUME UNCHANGED <<fiber, func, status, runs>> PROVE FuncInv'
  BY <1>0, <1>8 DEF FuncInv
<1>9. ASSUME NEW x \in Contexts, ExitFiber(x) PROVE FuncInv'
  BY <1>0, <1>7, <1>9 DEF ExitFiber, TypeInv
<1>10. ASSUME RegisterIoService \/ UnregisterIoService \/ CountFibers \/ JoinFibers
       PROVE  FuncInv'
  BY <1>8, <1>10 DEF RegisterIoService, UnregisterIoService, CountFibers, JoinFibers, Posts, contexts
<1>11. ASSUME MakeCache \/ SetStop \/ Count PROVE FuncInv'
  BY <1>8, <1>11 DEF MakeCache, SetStop, Count, RunsPosted
<1>12. ASSUME NEW i \in Nat, i > 0, m_cache # NoCache, JoinNext(i), i = joining + 1,
              UNCHANGED <<func, status, runs>>
       PROVE  FuncInv'
  <2>1. CASE i <= Len(m_cache)
    <3> DEFINE x == m_cache[i]
    <3>1. i \in DOMAIN m_cache /\ x \in Contexts
      BY <1>0, <1>12, <2>1, CacheSeq
    <3>2. fiber[x] = "waiting" /\ func[x] = NoFunc
      BY <1>0, <1>12, <3>1, FiberAssumption DEF CacheInv, FiberInv, TypeInv
    <3>3. fiber' = Notify(x)
      BY <1>12, <2>1 DEF JoinNext
    <3> HIDE DEF x
    <3>4. \A y \in Contexts : y # x => fiber'[y] = fiber[y]
      BY <1>0, <3>1, <3>3 DEF Notify, TypeInv
    <3> QED BY <1>7, <1>12, <3>1, <3>2, <3>4
  <2>2. CASE ~(i <= Len(m_cache))
    BY <1>8, <1>12, <2>2 DEF JoinNext
  <2> QED BY <2>1, <2>2
<1>13. ASSUME StartJoin PROVE FuncInv'
  <2>1. m_cache # NoCache /\ joining = 0 /\ JoinNext(1) /\ UNCHANGED <<func, status, runs>>
    <3>1. main = "joining"
      BY <1>13, Queues, <1>0 DEF StartJoin, RunsPosted, Inv, PhaseInv, TypeInv
    <3> QED BY <1>13, <3>1 DEF StartJoin, RunsPosted, Inv, PhaseInv
  <2> QED BY <1>12, <2>1
<1>14. ASSUME ContinueJoin PROVE FuncInv'
  <2>1. /\ m_cache # NoCache /\ joining > 0 /\ joining + 1 \in Nat /\ joining + 1 > 0
        /\ JoinNext(joining + 1) /\ UNCHANGED <<func, status, runs>>
    BY <1>0, <1>14, FiberAssumption DEF ContinueJoin, Inv, PhaseInv, TypeInv
  <2> QED BY <1>12, <2>1
<1>15. ASSUME StopIoService PROVE FuncInv'
  BY <1>8, <1>15 DEF StopIoService, contexts
<1>16. ASSUME UNCHANGED vars PROVE FuncInv'
  BY <1>8, <1>16 DEF vars, contexts
<1> QED BY <1>2, <1>3, <1>4, <1>5, <1>6, <1>9, <1>10, <1>11, <1>13, <1>14, <1>15, <1>16
        DEF Next, FiberStep, WorkerStep

LEMMA InitInv ==
  ASSUME Init
  PROVE  Inv
<1>1. TypeInv
  <2>1. /\ 0 \in 0 .. MaxFibers /\ <<>> \in Seq(Lambdas) /\ NoCache \in {NoCache}
        /\ [x \in Contexts |-> NoFunc] \in [Contexts -> Funcs \cup {NoFunc}]
        /\ [f \in Funcs |-> 0] \in [Funcs -> Nat]
    BY FiberAssumption
  <2>2. [x \in Contexts |-> "none"]
          \in [Contexts -> {"none", "ready", "running", "waiting", "ended"}]
    OBVIOUS
  <2>3. [f \in Funcs |-> "new"] \in [Funcs -> {"new", "cached", "detached", "running", "done"}]
    OBVIOUS
  <2> QED BY <2>1, <2>2, <2>3 DEF Init, TypeInv
<1>2. PhaseInv /\ FiberInv /\ CacheInv
  BY FiberAssumption DEF Init, PhaseInv, FiberInv, CacheInv, Contexts
<1>3. FuncInv
  BY DEF Init, FuncInv
<1> QED BY <1>1, <1>2, <1>3 DEF Inv

LEMMA Inductive == Spec => []Inv
<1>1. Inv /\ [Next]_vars => Inv'
  BY TypeStep, PhaseStep, ContextStep, FuncStep DEF Inv
<1> QED BY InitInv, <1>1, PTL DEF Spec

-----------------------------------------------------------------------------
(* The results.                                                            *)

\* Every variable of the cache has its type, for any number of fibers and
\* functions; the cache never has more fibers than get_fiber created.
THEOREM TypeCorrect == Spec => []TypeOK
<1>1. Inv => TypeOK
  BY CacheFits DEF Inv, TypeInv, TypeOK
<1> QED BY Inductive, <1>1, PTL

\* A fiber waits for work exactly while it is in the cache once: the wait without a
\* predicate in get_fiber is never passed by for a request, nor a busy fiber taken.
THEOREM CacheIsWaiting == Spec => []WaitingMeansCached
<1>1. ASSUME Inv PROVE WaitingMeansCached
  <2>1. ASSUME joining = 0, NEW x \in Contexts, Cached(x)
        PROVE  fiber[x] = "waiting" /\ func[x] = NoFunc
    BY <1>1, <2>1 DEF Inv, CacheInv, FiberInv, Cached
  <2> QED BY <1>1, <2>1 DEF Inv, CacheInv, WaitingMeansCached
<1> QED BY Inductive, <1>1, PTL

\* A request given to run is started once, and stays with a live fiber until its end.
THEOREM EachRunsOnce == Spec => []RunsOnce
<1>1. ASSUME Inv PROVE RunsOnce
  <2>1. ASSUME NEW f \in Funcs, status[f] \in {"cached", "running"}
        PROVE  \E x \in Contexts : func[x] = f /\ fiber[x] \in {"ready", "running"}
    <3>1. PICK x \in Contexts : func[x] = f
      BY <1>1, <2>1 DEF Inv, FuncInv
    <3> QED BY <1>1, <3>1, FiberAssumption DEF Inv, FiberInv
  <2>2. \A f \in Funcs : runs[f] <= 1 /\ (status[f] = "done" => runs[f] = 1)
    BY SMTT(20), <1>1 DEF Inv, FuncInv, TypeInv
  <2> QED BY <2>1, <2>2 DEF RunsOnce
<1> QED BY Inductive, <1>1, PTL

\* unregister_io_service resets the cache only when every fiber has ended, and the
\* count of fibers it loops on is enough to know that none works any more.
THEOREM ResetIsSafe == Spec => []NothingActiveAtReset
<1>1. ASSUME Inv PROVE NothingActiveAtReset
  <2>1. ASSUME main \in {"idle", "joining"}, NEW x \in Contexts
        PROVE  fiber[x] # "running" /\ func[x] = NoFunc
    <3>1. fiber[x] # "running"
      BY <1>1, <2>1, WorkingFiber
    <3>2. ASSUME fiber[x] = "ready", func[x] # NoFunc PROVE FALSE
      <4>1. Cached(x) /\ m_cache # NoCache
        BY <1>1, <2>1, <3>2 DEF Inv, CacheInv, PhaseInv
      <4>2. PICK i \in DOMAIN m_cache : m_cache[i] = x
        BY <4>1 DEF Cached
      <4>3. i \in Nat /\ joining \in Nat
        BY <1>1, <4>1, <4>2, CacheSeq, FiberAssumption DEF Inv, TypeInv
      <4> QED BY <1>1, <3>2, <4>1, <4>2, <4>3 DEF Inv, CacheInv
    <3> QED BY <1>1, <3>1, <3>2 DEF Inv, FiberInv
  <2> QED BY <1>1, <2>1 DEF Inv, FiberInv, NothingActiveAtReset
<1> QED BY Inductive, <1>1, PTL

=============================================================================
