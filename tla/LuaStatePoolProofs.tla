------------------------- MODULE LuaStatePoolProofs -------------------------
(***************************************************************************)
(* Proofs about LuaStatePool, for any number of states, workers and fibers *)
(* and any faults: the types, the order of the posted handlers, the        *)
(* ownership of the states, the life of the local caches, what a server    *)
(* without faults keeps and closes, and the size of the pool.              *)
(***************************************************************************)
EXTENDS LuaStatePool, SequenceTheorems, FiniteSetTheorems, TLAPS

-----------------------------------------------------------------------------
(* The caches are vectors used as stacks without duplicates: what push_back *)
(* and pop_back do to the set of their elements.                           *)

\* push_back adds the element, and no duplicate when it was not there before.
LEMMA PushBack ==
  ASSUME NEW S, NEW q \in Seq(S), NEW e \in S
  PROVE  /\ Append(q, e) \in Seq(S)
         /\ Append(q, e) # <<>>
         /\ ToSet(Append(q, e)) = ToSet(q) \cup {e}
         /\ NoDuplicates(q) /\ e \notin ToSet(q) => NoDuplicates(Append(q, e))
<1> DEFINE r == Append(q, e)
<1>1. /\ r \in Seq(S)
      /\ Len(r) = Len(q) + 1
      /\ r # <<>>
      /\ \A i \in 1 .. Len(q) : r[i] = q[i]
      /\ r[Len(q) + 1] = e
  OBVIOUS
<1>2. DOMAIN r = 1 .. Len(q) + 1 /\ DOMAIN q = 1 .. Len(q) /\ Len(q) \in Nat
  BY <1>1
<1> HIDE DEF r
<1>3. ToSet(r) = ToSet(q) \cup {e}
  <2>1. ASSUME NEW x \in ToSet(r) PROVE x \in ToSet(q) \cup {e}
    BY <1>1, <1>2 DEF ToSet
  <2>2. ASSUME NEW x \in ToSet(q) PROVE x \in ToSet(r)
    BY <1>1, <1>2 DEF ToSet
  <2>3. e \in ToSet(r)
    BY <1>1, <1>2 DEF ToSet
  <2> QED BY <2>1, <2>2, <2>3
<1>4. ASSUME NoDuplicates(q), e \notin ToSet(q) PROVE NoDuplicates(r)
  BY <1>1, <1>2, <1>4 DEF NoDuplicates, ToSet
<1> QED BY <1>1, <1>3, <1>4 DEF r

\* back and pop_back take one element out, which is then not in the rest.
LEMMA PopBack ==
  ASSUME NEW S, NEW q \in Seq(S), q # <<>>
  PROVE  /\ Front(q) \in Seq(S) /\ Len(Front(q)) = Len(q) - 1
         /\ Last(q) \in S
         /\ Last(q) \in ToSet(q)
         /\ ToSet(Front(q)) \subseteq ToSet(q)
         /\ \A x \in ToSet(q) : x = Last(q) \/ x \in ToSet(Front(q))
         /\ NoDuplicates(q) => /\ NoDuplicates(Front(q))
                               /\ Last(q) \notin ToSet(Front(q))
<1> DEFINE r == Front(q)
<1>1. Len(q) \in Nat /\ Len(q) > 0
  OBVIOUS
<1>2. /\ r \in Seq(S)
      /\ Len(r) = Len(q) - 1
      /\ \A i \in 1 .. Len(q) - 1 : r[i] = q[i]
  <2>1. \A i \in 1 .. Len(q) - 1 : q[i] \in S
    BY <1>1
  <2>2. Len(q) - 1 \in Int /\ 1 \in Int
    BY <1>1
  <2> DEFINE n == Len(q) - 1
  <2>3. r = SubSeq(q, 1, n)
    BY DEF Front
  <2> HIDE DEF r
  <2>4. /\ r \in Seq(S)
        /\ Len(r) = IF 1 <= n THEN n - 1 + 1 ELSE 0
        /\ \A i \in 1 .. n - 1 + 1 : r[i] = q[1 + i - 1]
    <3> HIDE DEF n
    <3> QED BY <2>1, <2>2, <2>3, SubSeqProperties DEF n
  <2>5. ASSUME NEW i \in 1 .. n PROVE r[i] = q[i]
    <3>1. 1 + i - 1 = i /\ i \in 1 .. n - 1 + 1
      BY <1>1
    <3> QED BY <2>4, <3>1
  <2>6. n \in Nat
    BY <1>1
  <2>7. Len(r) = n
    <3> HIDE DEF n
    <3> QED BY <2>4, <2>6
  <2> QED BY <2>4, <2>5, <2>7
<1>3. Last(q) = q[Len(q)] /\ Last(q) \in S
  BY <1>1 DEF Last
<1>4. DOMAIN r = 1 .. Len(q) - 1 /\ DOMAIN q = 1 .. Len(q)
  BY <1>2
<1> HIDE DEF r
<1>5. Last(q) \in ToSet(q) /\ ToSet(r) \subseteq ToSet(q)
  BY <1>1, <1>2, <1>3, <1>4 DEF ToSet
<1>6. ASSUME NoDuplicates(q)
      PROVE  NoDuplicates(r) /\ Last(q) \notin ToSet(r)
  BY <1>1, <1>2, <1>3, <1>4, <1>6 DEF ToSet, NoDuplicates
<1>7. ASSUME NEW x \in ToSet(q) PROVE x = Last(q) \/ x \in ToSet(r)
  <2>1. PICK i \in 1 .. Len(q) : x = q[i]
    BY <1>4 DEF ToSet
  <2>2. CASE i = Len(q)
    BY <1>3, <2>1, <2>2
  <2>3. CASE i # Len(q)
    <3>1. i \in 1 .. Len(q) - 1
      BY <1>1, <2>3
    <3> QED BY <1>2, <1>4, <2>1, <3>1 DEF ToSet
  <2> QED BY <2>2, <2>3
<1> QED BY <1>2, <1>3, <1>5, <1>6, <1>7 DEF r

-----------------------------------------------------------------------------
(* Type correctness.                                                       *)

\* The watcher and the bootstrap hold a state exactly between creating it and
\* handing it on.
HoldersInv ==
  /\ watcher.Lex # NoState <=> watcher.pc = "push"
  /\ main.Lex # NoState <=> main.pc = "bootstrapping"

TypeInv == TypeOK /\ HoldersInv

\* The number of missing states is an integer whatever wraps.
LEMMA MissingIsInt ==
  ASSUME TypeOK PROVE MissingStates \in Int
<1>1. BufferSize - Len(m_state_cache) \in Int
  BY PoolAssumption DEF TypeOK
<1>2. ToUInt(BufferSize - Len(m_state_cache)) \in Int
  BY <1>1, PoolAssumption DEF ToUInt
<1> QED BY <1>2, PoolAssumption DEF MissingStates, ToInt

\* TypeInv is inductive.
LEMMA Types == Spec => []TypeInv
<1> USE PoolAssumption
<1>1. ASSUME Init PROVE TypeInv
  <2>1. main \in MainThread
    BY <1>1 DEF Init, MainThread
  <2>2. watcher \in WatcherThread
    BY <1>1 DEF Init, WatcherThread
  <2>3. HoldersInv
    BY <1>1 DEF Init, HoldersInv
  <2>4. /\ m_state_cache_local \in [Workers -> Seq(States) \cup {NoCache}]
        /\ m_state_cache \in Seq(States)
    BY <1>1 DEF Init
  <2>5. posted \in [Workers -> Seq({"make", "reset"})]
    BY <1>1 DEF Init
  <2>6. held \in [Fibers -> States \cup {NoState}]
    BY <1>1 DEF Init
  <2>7. /\ opened \subseteq States /\ objects \subseteq States
        /\ running \subseteq Workers /\ m_iosvcs \subseteq Workers
        /\ m_stop \in BOOLEAN
    BY <1>1 DEF Init
  <2> QED BY <2>1, <2>2, <2>3, <2>4, <2>5, <2>6, <2>7 DEF TypeInv, TypeOK
<1>2. TypeInv /\ [Next]_vars => TypeInv'
  <2> SUFFICES ASSUME TypeInv, [Next]_vars PROVE TypeInv'
    OBVIOUS
  <2> USE DEF TypeInv, TypeOK, HoldersInv, WatcherThread, MainThread
  <2>1. CASE WatcherCheck
    BY <2>1 DEF WatcherCheck, poolVars
  <2>2. CASE WatcherCount
    BY <2>2, MissingIsInt DEF WatcherCount, poolVars
  <2>3. CASE WatcherCreate
    BY <2>3 DEF WatcherCreate, CreateState, CreateStateThrows
  <2>4. CASE WatcherPush
    BY <2>4 DEF WatcherPush
  <2>5. CASE WatcherRoundEnds
    BY <2>5 DEF WatcherRoundEnds, poolVars
  <2>6. ASSUME NEW f \in Fibers, Request(f) PROVE TypeInv'
    <3> HomeOf[f] \in Workers
      OBVIOUS
    <3>1. CASE GetStateLocal(f)
      <4>1. LocalCache(f) \in Seq(States) /\ LocalCache(f) # <<>>
        BY <3>1 DEF GetStateLocal, HasLocalState, LocalCache
      <4>2. Front(LocalCache(f)) \in Seq(States) /\ Last(LocalCache(f)) \in States
        BY <4>1, PopBack
      <4>3. held' \in [Fibers -> States \cup {NoState}]
        BY <3>1, <4>2 DEF GetStateLocal, Borrow
      <4> QED BY <3>1, <4>2, <4>3 DEF GetStateLocal
    <3>2. CASE GetStateGlobal(f)
      <4>1. Front(m_state_cache) \in Seq(States) /\ Last(m_state_cache) \in States
        BY <3>2, PopBack DEF GetStateGlobal
      <4>2. held' \in [Fibers -> States \cup {NoState}]
        BY <3>2, <4>1 DEF GetStateGlobal, Borrow
      <4> QED BY <3>2, <4>1, <4>2 DEF GetStateGlobal
    <3>3. CASE GetStateCreates(f)
      <4>1. opened' \subseteq States
        BY <3>3 DEF GetStateCreates, CreateState, CreateStateThrows
      <4>2. held' \in [Fibers -> States \cup {NoState}]
        BY <3>3 DEF GetStateCreates, CreateState
      <4> QED BY <3>3, <4>1, <4>2 DEF GetStateCreates
    <3>4. CASE HandlerUsesLibrary(f)
      BY <3>4 DEF HandlerUsesLibrary
    <3>5. CASE FreeState(f)
      <4>1. held[f] \in States
        BY <3>5 DEF FreeState
      <4>2. CASE LocalCache(f) # NoCache
        <5>1. Append(LocalCache(f), held[f]) \in Seq(States)
          BY <4>1, <4>2, PushBack DEF LocalCache
        <5>2. m_state_cache_local' \in [Workers -> Seq(States) \cup {NoCache}]
          BY <3>5, <4>2, <5>1 DEF FreeState
        <5> QED BY <3>5, <4>2, <5>2 DEF FreeState
      <4>3. CASE LocalCache(f) = NoCache
        <5>1. Append(m_state_cache, held[f]) \in Seq(States)
          BY <4>1, PushBack
        <5> QED BY <3>5, <4>3, <5>1 DEF FreeState
      <4> QED BY <4>2, <4>3
    <3>6. CASE HandlerThrows(f)
      BY <3>6 DEF HandlerThrows, poolVars
    <3> QED BY <2>6, <3>1, <3>2, <3>3, <3>4, <3>5, <3>6 DEF Request
  <2>7. ASSUME NEW w \in Workers, RunPosted(w) PROVE TypeInv'
    <3>1. posted' \in [Workers -> Seq({"make", "reset"})]
      BY <2>7 DEF RunPosted
    <3>2. CASE MakeLocalCache(w)
      BY <2>7, <3>1, <3>2 DEF RunPosted, MakeLocalCache
    <3>3. CASE ResetLocalCache(w)
      BY <2>7, <3>1, <3>3 DEF RunPosted, ResetLocalCache, DestroyStates
    <3> QED BY <2>7, <3>2, <3>3 DEF RunPosted
  <2>8. CASE MainStarts
    <3>1. CASE BootstrapCreates
      <4>1. opened' \subseteq States
        BY <3>1 DEF BootstrapCreates, CreateState, CreateStateThrows
      <4>2. main' \in MainThread
        <5>1. \/ \E s \in States :
                   main' = [pc |-> "bootstrapping", Lex |-> s, waits |-> FALSE]
              \/ main' = [pc |-> "joining", Lex |-> NoState, waits |-> FALSE]
          BY <3>1 DEF BootstrapCreates
        <5>2. \A s \in States :
                [pc |-> "bootstrapping", Lex |-> s, waits |-> FALSE] \in MainThread
          OBVIOUS
        <5>3. [pc |-> "joining", Lex |-> NoState, waits |-> FALSE] \in MainThread
          OBVIOUS
        <5> HIDE DEF MainThread
        <5> QED BY ZenonT(30), <5>1, <5>2, <5>3
      <4>5. m_stop' \in BOOLEAN
        BY <3>1 DEF BootstrapCreates
      <4>3. main'.Lex # NoState <=> main'.pc = "bootstrapping"
        BY <3>1 DEF BootstrapCreates
      <4> QED BY <3>1, <4>1, <4>2, <4>3, <4>5 DEF BootstrapCreates
    <3>2. CASE BootstrapUsesLibrary
      BY <3>2 DEF BootstrapUsesLibrary
    <3>3. CASE BootstrapDestroys
      BY <3>3 DEF BootstrapDestroys, DestroyStates
    <3>4. CASE StartFails
      BY <3>4 DEF StartFails, poolVars
    <3>5. CASE StartWorkers
      BY <3>5 DEF StartWorkers, poolVars
    <3>6. ASSUME NEW w \in Workers, RegisterIoService(w) PROVE TypeInv'
      <4>1. posted' \in [Workers -> Seq({"make", "reset"})]
        BY <3>6 DEF RegisterIoService
      <4>2. /\ main'.Lex = main.Lex
            /\ main'.pc \in {"registering", "serving"}
            /\ main' \in [pc : {"registering", "serving"},
                         Lex : States \cup {NoState}, waits : BOOLEAN]
        BY <3>6 DEF RegisterIoService
      <4>3. main' \in MainThread
        BY <4>2
      <4> QED BY <3>6, <4>1, <4>2, <4>3 DEF RegisterIoService, poolVars
    <3> QED BY <2>8, <3>1, <3>2, <3>3, <3>4, <3>5, <3>6 DEF MainStarts
  <2>9. CASE MainStops
    <3>1. ASSUME NEW w \in Workers, UnregisterIoService(w) PROVE TypeInv'
      BY <3>1 DEF UnregisterIoService, poolVars
    <3>2. CASE StopWorkers
      BY <3>2 DEF StopWorkers, poolVars
    <3>3. CASE DestroyManager
      <4>1. main'.Lex = main.Lex /\ main'.pc = "destroyed" /\ main' \in MainThread
        BY <3>3 DEF DestroyManager
      <4>2. m_state_cache' \in Seq(States)
        BY <3>3 DEF DestroyManager
      <4>3. opened' \subseteq States /\ objects' \subseteq States
        BY <3>3 DEF DestroyManager, DestroyStates
      <4>4. HoldersInv'
        BY <3>3, <4>1 DEF DestroyManager
      <4> QED BY <3>3, <4>1, <4>2, <4>3, <4>4 DEF DestroyManager
    <3> QED BY <2>9, <3>1, <3>2, <3>3 DEF MainStops
  <2>10. CASE UNCHANGED vars
    BY <2>10 DEF vars, poolVars
  <2> QED BY <2>1, <2>2, <2>3, <2>4, <2>5, <2>6, <2>7, <2>8, <2>9, <2>10
          DEF Next, Watcher, Terminated
<1> QED BY <1>1, <1>2, PTL DEF Spec

\* Every variable keeps its type, whatever the faults: no step of the code
\* stores a null state in a cache or takes one from an empty or absent cache.
THEOREM TypeCorrect == Spec => []TypeOK
<1>1. TypeInv => TypeOK
  BY DEF TypeInv
<1> QED BY <1>1, Types, PTL

-----------------------------------------------------------------------------
(* The handlers posted to an io service run in order: a worker's "reset"   *)
(* runs after its "make".                                                  *)

PostedInv ==
  /\ \A w \in Workers :
       posted[w] \in {<<>>, <<"make">>, <<"make", "reset">>, <<"reset">>}
  /\ \A w \in Workers :
       posted[w] = <<"reset">> => m_state_cache_local[w] # NoCache
  /\ \A w \in m_iosvcs :
       \/ posted[w] = <<"make">>
       \/ posted[w] = <<>> /\ m_state_cache_local[w] # NoCache
  /\ main.pc \in {"bootstrap", "bootstrapping", "starting", "registering"}
       => \A w \in Workers \ m_iosvcs : posted[w] = <<>>
  /\ main.pc \in {"bootstrap", "bootstrapping", "starting"} => m_iosvcs = {}

\* The queues of PostedInv, as sequences.
LEMMA Queues ==
  /\ Head(<<"make">>) = "make" /\ Tail(<<"make">>) = <<>>
  /\ Head(<<"make", "reset">>) = "make" /\ Tail(<<"make", "reset">>) = <<"reset">>
  /\ Head(<<"reset">>) = "reset" /\ Tail(<<"reset">>) = <<>>
  /\ Append(<<>>, "make") = <<"make">> /\ Append(<<>>, "reset") = <<"reset">>
  /\ Append(<<"make">>, "reset") = <<"make", "reset">>
  /\ <<"make">> # <<"reset">> /\ <<"make", "reset">> # <<"reset">>
  /\ <<"make">> # <<>> /\ <<"reset">> # <<>> /\ <<"make", "reset">> # <<>>
  /\ <<"make">> # <<"make", "reset">>
<1>1. /\ Head(<<"make">>) = "make" /\ Tail(<<"make">>) = <<>>
      /\ Head(<<"make", "reset">>) = "make"
      /\ Head(<<"reset">>) = "reset" /\ Tail(<<"reset">>) = <<>>
  OBVIOUS
<1>2. Tail(<<"make", "reset">>) = <<"reset">>
  OBVIOUS
<1>3. Append(<<>>, "make") = <<"make">> /\ Append(<<>>, "reset") = <<"reset">>
  OBVIOUS
<1>4. Append(<<"make">>, "reset") = <<"make", "reset">>
  <2> DEFINE q == Append(<<"make">>, "reset")
  <2>1. /\ q \in Seq({"make", "reset"}) /\ Len(q) = 2
        /\ q[1] = "make" /\ q[2] = "reset"
    OBVIOUS
  <2>2. /\ <<"make", "reset">> \in Seq({"make", "reset"})
        /\ Len(<<"make", "reset">>) = 2
        /\ <<"make", "reset">>[1] = "make" /\ <<"make", "reset">>[2] = "reset"
    OBVIOUS
  <2>3. \A i \in 1 .. 2 : q[i] = <<"make", "reset">>[i]
    BY <2>1, <2>2
  <2> HIDE DEF q
  <2>4. q = <<"make", "reset">>
    BY <2>1, <2>2, <2>3, SeqEqual
  <2> QED BY <2>4 DEF q
<1>5. <<"make">>[1] = "make" /\ <<"reset">>[1] = "reset" /\ <<"make", "reset">>[1] = "make"
  OBVIOUS
<1>6. Len(<<"make">>) = 1 /\ Len(<<"make", "reset">>) = 2 /\ Len(<<"reset">>) = 1
      /\ Len(<<>>) = 0
  OBVIOUS
<1> QED BY <1>1, <1>2, <1>3, <1>4, <1>5, <1>6

\* A request neither creates nor removes a local cache.
LEMMA RequestKeepsCaches ==
  ASSUME TypeInv, NEW f \in Fibers, Request(f)
  PROVE  \A w \in Workers :
           m_state_cache_local'[w] = NoCache <=> m_state_cache_local[w] = NoCache
<1> USE PoolAssumption DEF TypeInv, TypeOK
<1> HomeOf[f] \in Workers
  OBVIOUS
<1>1. CASE GetStateLocal(f)
  <2>1. LocalCache(f) \in Seq(States) /\ LocalCache(f) # <<>>
    BY <1>1 DEF GetStateLocal, HasLocalState, LocalCache
  <2>2. Front(LocalCache(f)) \in Seq(States)
    BY <2>1, PopBack
  <2>3. LocalCache(f) # NoCache /\ Front(LocalCache(f)) # NoCache
    BY <2>1, <2>2
  <2> QED BY <1>1, <2>3 DEF GetStateLocal, LocalCache
<1>2. CASE FreeState(f)
  <2>1. held[f] \in States
    BY <1>2 DEF FreeState
  <2>2. CASE LocalCache(f) # NoCache
    <3>1. Append(LocalCache(f), held[f]) \in Seq(States)
      BY <2>1, <2>2, PushBack DEF LocalCache
    <3>2. Append(LocalCache(f), held[f]) # NoCache
      BY <3>1
    <3> QED BY <1>2, <2>2, <3>2 DEF FreeState, LocalCache
  <2>3. CASE LocalCache(f) = NoCache
    BY <1>2, <2>3 DEF FreeState
  <2> QED BY <2>2, <2>3
<1>3. CASE UNCHANGED m_state_cache_local
  BY <1>3
<1> QED BY <1>1, <1>2, <1>3 DEF Request, GetStateGlobal, GetStateCreates,
           HandlerUsesLibrary, HandlerThrows, poolVars

\* PostedInv is inductive, given the types.
LEMMA HandlersInOrder == Spec => []PostedInv
<1>1. Init => PostedInv
  BY DEF Init, PostedInv
<1>2. TypeInv /\ PostedInv /\ [Next]_vars => PostedInv'
  <2> SUFFICES ASSUME TypeInv, PostedInv, [Next]_vars PROVE PostedInv'
    OBVIOUS
  <2> USE DEF PostedInv
  <2>1. CASE Watcher
    BY <2>1 DEF Watcher, WatcherCheck, WatcherCount, WatcherCreate,
                WatcherPush, WatcherRoundEnds, poolVars
  <2>2. ASSUME NEW f \in Fibers, Request(f) PROVE PostedInv'
    <3>1. UNCHANGED <<posted, m_iosvcs, main>>
      BY <2>2 DEF Request, GetStateLocal, GetStateGlobal, GetStateCreates,
              HandlerUsesLibrary, FreeState, HandlerThrows
    <3> QED BY <2>2, <3>1, RequestKeepsCaches DEF TypeInv, TypeOK
  <2>3. ASSUME NEW w \in Workers, RunPosted(w) PROVE PostedInv'
    <3> USE DEF TypeInv, TypeOK
    <3>1. \A v \in Workers : v # w => /\ posted'[v] = posted[v]
                                     /\ m_state_cache_local'[v] = m_state_cache_local[v]
      BY <2>3 DEF RunPosted, MakeLocalCache, ResetLocalCache
    <3>2. m_iosvcs' = m_iosvcs /\ main'.pc = main.pc
      BY <2>3 DEF RunPosted, MakeLocalCache, ResetLocalCache, MainThread
    <3>3. posted'[w] = Tail(posted[w]) /\ posted[w] # <<>>
      BY <2>3 DEF RunPosted
    <3>4. CASE MakeLocalCache(w)
      <4>1. \/ posted[w] = <<"make">> /\ posted'[w] = <<>>
            \/ posted[w] = <<"make", "reset">> /\ posted'[w] = <<"reset">>
        BY <3>3, <3>4, Queues DEF MakeLocalCache
      <4>2. m_state_cache_local'[w] # NoCache
        <5>1. <<>> \in Seq(States)
          OBVIOUS
        <5> QED BY <3>4, <5>1, PoolAssumption DEF MakeLocalCache
      <4> QED BY <3>1, <3>2, <4>1, <4>2, Queues
    <3>5. CASE ResetLocalCache(w)
      <4>1. posted[w] = <<"reset">> /\ posted'[w] = <<>>
        BY <3>3, <3>5, Queues DEF ResetLocalCache
      <4>2. w \notin m_iosvcs
        BY <4>1, Queues
      <4> QED BY <3>1, <3>2, <4>1, <4>2, Queues
    <3> QED BY <2>3, <3>4, <3>5 DEF RunPosted
  <2>4. CASE MainStarts
    <3> USE DEF TypeInv, TypeOK, HoldersInv
    <3>1. CASE BootstrapCreates \/ BootstrapUsesLibrary \/ BootstrapDestroys
               \/ StartFails \/ StartWorkers
      <4>1. UNCHANGED <<posted, m_iosvcs, m_state_cache_local>>
        BY <3>1 DEF BootstrapCreates, BootstrapUsesLibrary, BootstrapDestroys,
                    StartFails, StartWorkers, poolVars
      <4>2. main.pc \in {"bootstrap", "bootstrapping", "starting"}
        BY <3>1 DEF BootstrapCreates, BootstrapUsesLibrary, BootstrapDestroys,
                    StartFails, StartWorkers
      <4> QED BY <4>1, <4>2
    <3>2. ASSUME NEW w \in Workers, RegisterIoService(w) PROVE PostedInv'
      <4>1. posted[w] = <<>> /\ posted'[w] = <<"make">>
        BY <3>2, Queues DEF RegisterIoService
      <4>2. \A v \in Workers : v # w => posted'[v] = posted[v]
        BY <3>2 DEF RegisterIoService
      <4>3. main'.pc \in {"registering", "serving"}
        BY <3>2 DEF RegisterIoService, MainThread
      <4> QED BY <3>2, <4>1, <4>2, <4>3 DEF RegisterIoService, poolVars
    <3> QED BY <2>4, <3>1, <3>2 DEF MainStarts
  <2>5. CASE MainStops
    <3> USE DEF TypeInv, TypeOK
    <3>1. ASSUME NEW w \in Workers, UnregisterIoService(w) PROVE PostedInv'
      <4>1. \/ posted[w] = <<"make">> /\ posted'[w] = <<"make", "reset">>
            \/ /\ posted[w] = <<>> /\ posted'[w] = <<"reset">>
               /\ m_state_cache_local[w] # NoCache
        BY <3>1, Queues DEF UnregisterIoService
      <4>2. \A v \in Workers : v # w => posted'[v] = posted[v]
        BY <3>1 DEF UnregisterIoService
      <4>3. main'.pc = "unregistering"
        BY <3>1 DEF UnregisterIoService
      <4> QED BY <3>1, <4>1, <4>2, <4>3, Queues DEF UnregisterIoService, poolVars
    <3>2. CASE StopWorkers \/ DestroyManager
      <4>1. main'.pc \in {"joining", "destroyed"}
        BY <3>2 DEF StopWorkers, DestroyManager, MainThread
      <4> QED BY <3>2, <4>1 DEF StopWorkers, DestroyManager, poolVars
    <3> QED BY <2>5, <3>1, <3>2 DEF MainStops
  <2>6. CASE UNCHANGED vars
    BY <2>6 DEF vars, poolVars
  <2> QED BY <2>1, <2>2, <2>3, <2>4, <2>5, <2>6 DEF Next, Terminated
<1> QED BY <1>1, <1>2, Types, PTL DEF Spec

\* The handlers of unregister_io_service never find a null local cache
\* (lua_state_manager.cpp:85): each io service runs its handlers in order, and
\* the main thread posts the one of register_io_service first.
THEOREM ResetFindsCache == Spec => []CacheExistsAtReset
<1>1. TypeInv /\ PostedInv => CacheExistsAtReset
  <2> SUFFICES ASSUME TypeInv, PostedInv, NEW w \in running,
                      posted[w] # <<>>, Head(posted[w]) = "reset"
               PROVE  m_state_cache_local[w] # NoCache
    BY DEF CacheExistsAtReset
  <2>1. w \in Workers
    BY DEF TypeInv, TypeOK
  <2>2. posted[w] \in {<<"make">>, <<"make", "reset">>, <<"reset">>}
    BY <2>1 DEF PostedInv
  <2>3. posted[w] = <<"reset">>
    BY <2>2
  <2> QED BY <2>1, <2>3 DEF PostedInv
<1> QED BY <1>1, Types, HandlersInOrder, PTL

-----------------------------------------------------------------------------
(* Ownership.  OwnInv says state by state what OwnedOnce, NoUseAfterClose  *)
(* and PooledStatesAreClean say of the sets, and adds what makes them      *)
(* inductive: a state that is not open has no library objects, so a new    *)
(* state is clean, and the watcher's state is clean when it is pushed.     *)

Cached(s) == s \in ToSet(m_state_cache)

CachedBy(s, w) == s \in LocalStates(w)

CachedOnce ==
  /\ NoDuplicates(m_state_cache)
  /\ \A w \in Workers :
       m_state_cache_local[w] # NoCache => NoDuplicates(m_state_cache_local[w])
  /\ \A w \in Workers, s \in States :
       CachedBy(s, w) => ~Cached(s) /\ \A v \in Workers : CachedBy(s, v) => v = w

CachedStatesOK ==
  /\ \A s \in States : Cached(s) => s \in opened \ objects
  /\ \A s \in States, w \in Workers : CachedBy(s, w) => s \in opened \ objects

NotCached(s) == ~Cached(s) /\ \A w \in Workers : ~CachedBy(s, w)

HeldStatesOK ==
  \A f \in Fibers : held[f] # NoState =>
    /\ NotCached(held[f])
    /\ held[f] \in opened
    /\ held[f] # watcher.Lex /\ held[f] # main.Lex
    /\ \A g \in Fibers : held[g] = held[f] => g = f

ThreadStatesOK ==
  /\ watcher.Lex # NoState => /\ NotCached(watcher.Lex)
                              /\ watcher.Lex \in opened \ objects
                              /\ watcher.Lex # main.Lex
  /\ main.Lex # NoState => NotCached(main.Lex) /\ main.Lex \in opened

OwnInv == /\ CachedOnce /\ CachedStatesOK /\ HeldStatesOK /\ ThreadStatesOK
          /\ objects \subseteq opened

\* What the states in the caches are, element by element.
LEMMA CacheElements ==
  ASSUME TypeInv
  PROVE  /\ \A s : Cached(s) => s \in States
         /\ \A w \in Workers : \A s : CachedBy(s, w) => s \in States
         /\ \A s : s \in PooledStates <=> Cached(s) \/ \E w \in Workers : CachedBy(s, w)
<1> USE DEF TypeInv, TypeOK
<1>1. ASSUME NEW s, Cached(s) PROVE s \in States
  BY <1>1 DEF Cached, ToSet
<1>2. ASSUME NEW w \in Workers, NEW s, CachedBy(s, w) PROVE s \in States
  BY <1>2 DEF CachedBy, LocalStates, ToSet
<1>3. \A s : s \in PooledStates <=> Cached(s) \/ \E w \in Workers : CachedBy(s, w)
  BY DEF PooledStates, Cached, CachedBy
<1> QED BY <1>1, <1>2, <1>3

\* OwnInv implies the three properties.
LEMMA OwnInvSuffices ==
  ASSUME TypeInv, OwnInv
  PROVE  OwnedOnce /\ NoUseAfterClose /\ PooledStatesAreClean
<1> USE CacheElements, PoolAssumption
<1> USE DEF OwnInv
<1>1. OwnedOnce
  <2>1. \A w \in Workers : LocalStates(w) \cap ToSet(m_state_cache) = {}
    BY DEF CachedOnce, Cached, CachedBy
  <2>2. \A v, w \in Workers : v # w => LocalStates(v) \cap LocalStates(w) = {}
    BY DEF CachedOnce, CachedBy
  <2>3. NoState \notin PooledStates
    BY DEF Cached
  <2>4. \A f \in Fibers : held[f] \notin PooledStates
    BY <2>3 DEF HeldStatesOK, NotCached
  <2>5. \A f, g \in Fibers : held[f] = held[g] /\ held[f] # NoState => f = g
    BY DEF HeldStatesOK
  <2>6. watcher.Lex \notin PooledStates \cup HeldStates
    BY <2>3 DEF ThreadStatesOK, HeldStatesOK, NotCached, HeldStates
  <2>7. main.Lex \notin PooledStates \cup HeldStates
    BY <2>3 DEF ThreadStatesOK, HeldStatesOK, NotCached, HeldStates
  <2>8. watcher.Lex = main.Lex => main.Lex = NoState
    BY DEF ThreadStatesOK
  <2> QED BY <2>1, <2>2, <2>4, <2>5, <2>6, <2>7, <2>8 DEF OwnedOnce, CachedOnce
<1>2. NoUseAfterClose
  BY DEF NoUseAfterClose, OwnedStates, CachedStatesOK, HeldStatesOK,
         ThreadStatesOK, HeldStates
<1>3. PooledStatesAreClean
  BY DEF PooledStatesAreClean, CachedStatesOK
<1> QED BY <1>1, <1>2, <1>3

\* Steps that move no state, or give one up.
LEMMA NothingTaken ==
  ASSUME TypeInv, OwnInv, UNCHANGED <<objects, m_state_cache, m_state_cache_local>>,
         opened \subseteq opened',
         \A f \in Fibers : held'[f] \in {held[f], NoState},
         watcher'.Lex \in {watcher.Lex, NoState},
         main'.Lex \in {main.Lex, NoState}
  PROVE  OwnInv'
<1>1. /\ \A s : Cached(s)' <=> Cached(s)
      /\ \A s, w : CachedBy(s, w)' <=> CachedBy(s, w)
  BY DEF Cached, CachedBy, LocalStates
<1>2. CachedOnce'
  BY <1>1 DEF OwnInv, CachedOnce
<1>3. CachedStatesOK'
  BY <1>1 DEF OwnInv, CachedStatesOK
<1>4. HeldStatesOK'
  BY <1>1 DEF OwnInv, HeldStatesOK, NotCached
<1>5. ThreadStatesOK'
  BY <1>1 DEF OwnInv, ThreadStatesOK, NotCached
<1> QED BY <1>2, <1>3, <1>4, <1>5 DEF OwnInv

\* A state that is not open is nowhere.
LEMMA NewStateIsFree ==
  ASSUME TypeInv, OwnInv, NEW s \in States \ opened
  PROVE  /\ NotCached(s) /\ s \notin objects
         /\ \A f \in Fibers : held[f] # s
         /\ watcher.Lex # s /\ main.Lex # s /\ s # NoState
BY PoolAssumption DEF OwnInv, CachedStatesOK, HeldStatesOK, ThreadStatesOK,
   NotCached

\* A state put into the global cache by the thread that owned it.
LEMMA PushedToGlobal ==
  ASSUME TypeInv, OwnInv, NEW s \in States, NotCached(s),
         m_state_cache' = Append(m_state_cache, s),
         UNCHANGED <<opened, m_state_cache_local>>,
         s \in opened, objects' = objects \ {s}
  PROVE  /\ CachedOnce' /\ CachedStatesOK'
         /\ \A x : Cached(x)' <=> Cached(x) \/ x = s
         /\ \A x, w : CachedBy(x, w)' <=> CachedBy(x, w)
<1>1. /\ ToSet(m_state_cache') = ToSet(m_state_cache) \cup {s}
      /\ NoDuplicates(m_state_cache')
  BY PushBack DEF TypeInv, TypeOK, OwnInv, CachedOnce, NotCached, Cached
<1>2. /\ \A x : Cached(x)' <=> Cached(x) \/ x = s
      /\ \A x, w : CachedBy(x, w)' <=> CachedBy(x, w)
  BY <1>1 DEF Cached, CachedBy, LocalStates
<1>3. CachedOnce'
  BY <1>1, <1>2 DEF OwnInv, CachedOnce, NotCached
<1>4. CachedStatesOK'
  BY <1>2 DEF OwnInv, CachedStatesOK
<1> QED BY <1>2, <1>3, <1>4

\* A state put into the local cache of worker w by its fiber.
LEMMA PushedToLocal ==
  ASSUME TypeInv, OwnInv, NEW s \in States, NotCached(s), NEW w \in Workers,
         m_state_cache_local[w] # NoCache,
         m_state_cache_local' = [m_state_cache_local EXCEPT
                                   ![w] = Append(m_state_cache_local[w], s)],
         UNCHANGED <<opened, m_state_cache>>,
         s \in opened, objects' = objects \ {s}
  PROVE  /\ CachedOnce' /\ CachedStatesOK'
         /\ \A x : Cached(x)' <=> Cached(x)
         /\ \A v \in Workers : \A x : CachedBy(x, v)' <=> CachedBy(x, v) \/ (x = s /\ v = w)
<1> DEFINE q == m_state_cache_local[w]
<1>1. q \in Seq(States)
  BY DEF TypeInv, TypeOK
<1>2. NoDuplicates(q) /\ s \notin ToSet(q)
  BY DEF OwnInv, CachedOnce, NotCached, CachedBy, LocalStates
<1>3. m_state_cache_local'[w] = Append(q, s)
  BY DEF TypeInv, TypeOK
<1>4. /\ ToSet(m_state_cache_local'[w]) = ToSet(q) \cup {s}
      /\ NoDuplicates(m_state_cache_local'[w])
      /\ m_state_cache_local'[w] # NoCache
  <2> HIDE DEF q
  <2>1. /\ Append(q, s) \in Seq(States)
        /\ ToSet(Append(q, s)) = ToSet(q) \cup {s}
        /\ NoDuplicates(Append(q, s))
    BY <1>1, <1>2, PushBack
  <2>2. Append(q, s) # NoCache
    BY <2>1, PoolAssumption
  <2> QED BY <1>3, <2>1, <2>2
<1>5. \A v \in Workers : v # w => m_state_cache_local'[v] = m_state_cache_local[v]
  BY DEF TypeInv, TypeOK
<1>6. \A x : Cached(x)' <=> Cached(x)
  BY DEF Cached
<1>7. \A v \in Workers : \A x : CachedBy(x, v)' <=> CachedBy(x, v) \/ (x = s /\ v = w)
  BY <1>4, <1>5 DEF CachedBy, LocalStates
<1>8. CachedOnce'
  BY <1>4, <1>5, <1>6, <1>7 DEF OwnInv, CachedOnce, NotCached
<1>9. CachedStatesOK'
  BY <1>6, <1>7 DEF OwnInv, CachedStatesOK
<1> QED BY <1>6, <1>7, <1>8, <1>9

\* Caches from which states were taken or which were destroyed.
LEMMA CachesShrink ==
  ASSUME TypeInv, OwnInv,
         \A x : Cached(x)' => Cached(x),
         \A v \in Workers : \A x : CachedBy(x, v)' => CachedBy(x, v),
         NoDuplicates(m_state_cache'),
         \A v \in Workers : m_state_cache_local'[v] # NoCache
                            => NoDuplicates(m_state_cache_local'[v]),
         \A x \in States : /\ Cached(x)' => x \in opened'
                          /\ \A v \in Workers : CachedBy(x, v)' => x \in opened',
         objects' \subseteq objects
  PROVE  CachedOnce' /\ CachedStatesOK'
<1>1. CachedOnce'
  BY DEF OwnInv, CachedOnce
<1>2. CachedStatesOK'
  BY DEF OwnInv, CachedStatesOK
<1> QED BY <1>1, <1>2

\* Every step keeps OwnInv.
LEMMA OwnStep ==
  ASSUME TypeInv, CacheExistsAtReset, OwnInv, [Next]_vars
  PROVE  OwnInv'
<1> USE PoolAssumption
<1>1. CASE WatcherCheck \/ WatcherCount \/ WatcherRoundEnds
  <2>1. watcher'.Lex = watcher.Lex
    BY <1>1 DEF WatcherCheck, WatcherCount, WatcherRoundEnds, TypeInv, TypeOK,
                HoldersInv, WatcherThread
  <2> QED BY <1>1, <2>1, NothingTaken
          DEF WatcherCheck, WatcherCount, WatcherRoundEnds, poolVars
<1>2. CASE WatcherCreate
  <2>1. ASSUME NEW s \in States, CreateState(s), watcher'.Lex = s PROVE OwnInv'
    <3>1. s \in States \ opened /\ opened' = opened \cup {s}
      BY <2>1 DEF CreateState
    <3>2. /\ \A x : Cached(x)' <=> Cached(x)
          /\ \A x, w : CachedBy(x, w)' <=> CachedBy(x, w)
      BY <1>2 DEF WatcherCreate, Cached, CachedBy, LocalStates
    <3>3. CachedOnce' /\ CachedStatesOK'
      BY <1>2, <3>1, <3>2 DEF WatcherCreate, OwnInv, CachedOnce, CachedStatesOK
    <3>4. HeldStatesOK'
      BY <1>2, <2>1, <3>1, <3>2, NewStateIsFree
         DEF WatcherCreate, OwnInv, HeldStatesOK, NotCached
    <3>5. ThreadStatesOK'
      BY <1>2, <2>1, <3>1, <3>2, NewStateIsFree
         DEF WatcherCreate, OwnInv, ThreadStatesOK, NotCached
    <3> QED BY <1>2, <3>1, <3>3, <3>4, <3>5 DEF WatcherCreate, OwnInv
  <2>2. CASE CreateStateThrows /\ watcher'.Lex = NoState
    <3>1. opened \subseteq opened'
      BY <2>2 DEF CreateStateThrows, CreateState
    <3> QED BY <1>2, <2>2, <3>1, NothingTaken DEF WatcherCreate
  <2> QED BY <1>2, <2>1, <2>2 DEF WatcherCreate
<1>3. CASE WatcherPush
  <2> DEFINE s == watcher.Lex
  <2>1. s \in States /\ watcher'.Lex = NoState
    BY <1>3 DEF WatcherPush, TypeInv, TypeOK, HoldersInv, WatcherThread
  <2>2. NotCached(s) /\ s \in opened \ objects /\ s # main.Lex
    BY <2>1 DEF OwnInv, ThreadStatesOK
  <2>3. /\ CachedOnce' /\ CachedStatesOK'
        /\ \A x : Cached(x)' <=> Cached(x) \/ x = s
        /\ \A x, w : CachedBy(x, w)' <=> CachedBy(x, w)
    BY <1>3, <2>1, <2>2, PushedToGlobal DEF WatcherPush
  <2>4. HeldStatesOK'
    BY <1>3, <2>1, <2>3 DEF WatcherPush, OwnInv, HeldStatesOK, NotCached
  <2>5. ThreadStatesOK'
    BY <1>3, <2>1, <2>2, <2>3 DEF WatcherPush, OwnInv, ThreadStatesOK, NotCached
  <2> QED BY <1>3, <2>3, <2>4, <2>5 DEF WatcherPush, OwnInv
<1>4. ASSUME NEW f \in Fibers, Request(f) PROVE OwnInv'
  <2> DEFINE w == HomeOf[f]
  <2>w. w \in Workers
    OBVIOUS
  <2>0. \A g \in Fibers : held[g] \in States \cup {NoState}
    BY DEF TypeInv, TypeOK
  <2>1. CASE GetStateLocal(f)
    <3> DEFINE q == m_state_cache_local[w]
    <3>1. q \in Seq(States) /\ q # <<>> /\ q # NoCache /\ NoDuplicates(q)
      BY <2>1 DEF GetStateLocal, HasLocalState, LocalCache, TypeInv, TypeOK,
                  OwnInv, CachedOnce
    <3>0. PICK s \in States : s = Last(q)
      BY <3>1, PopBack
    <3>2. /\ s \in ToSet(q) /\ ToSet(Front(q)) \subseteq ToSet(q)
          /\ NoDuplicates(Front(q)) /\ s \notin ToSet(Front(q))
          /\ Front(q) \in Seq(States)
      BY <3>0, <3>1, PopBack
    <3>3. Front(q) # NoCache
      BY <3>2
    <3>4. /\ m_state_cache_local'[w] = Front(q)
          /\ \A v \in Workers : v # w =>
               m_state_cache_local'[v] = m_state_cache_local[v]
      BY <2>1, <2>w DEF GetStateLocal, LocalCache, TypeInv, TypeOK
    <3>5. CachedBy(s, w) /\ ~CachedBy(s, w)'
      BY <3>1, <3>2, <3>3, <3>4 DEF CachedBy, LocalStates
    <3>6. /\ \A x : Cached(x)' <=> Cached(x)
          /\ \A v \in Workers : \A x : CachedBy(x, v)' => CachedBy(x, v)
      BY <2>1, <3>1, <3>2, <3>3, <3>4 DEF GetStateLocal, Cached, CachedBy, LocalStates
    <3>7. /\ ~Cached(s) /\ \A v \in Workers : CachedBy(s, v) => v = w
          /\ s \in opened \ objects
      BY <3>2, <3>5, <2>w DEF OwnInv, CachedOnce, CachedStatesOK
    <3>8. CachedOnce' /\ CachedStatesOK'
      <4>1. \A v \in Workers : m_state_cache_local'[v] # NoCache
                               => NoDuplicates(m_state_cache_local'[v])
        BY <3>2, <3>4 DEF OwnInv, CachedOnce
      <4>2. opened' = opened /\ objects' = objects /\ NoDuplicates(m_state_cache')
        BY <2>1 DEF GetStateLocal, OwnInv, CachedOnce
      <4>3. \A x \in States : /\ Cached(x)' => x \in opened'
                            /\ \A v \in Workers : CachedBy(x, v)' => x \in opened'
        BY <3>6, <4>2 DEF OwnInv, CachedStatesOK
      <4> QED BY <3>6, <4>1, <4>2, <4>3, CachesShrink
    <3>9. held'[f] \in {s, NoState} /\ \A g \in Fibers : g # f => held'[g] = held[g]
      BY <2>1, <2>0, <3>0 DEF GetStateLocal, Borrow, LocalCache, TypeInv, TypeOK
    <3>10. /\ watcher' = watcher /\ main' = main
           /\ opened' = opened /\ objects' = objects
      BY <2>1 DEF GetStateLocal
    <3>11. \A g \in Fibers : held[g] # s
      BY <3>5, <3>2, <2>w DEF OwnInv, HeldStatesOK, NotCached
    <3>12. watcher.Lex # s /\ main.Lex # s
      BY <3>5, <3>2, <2>w DEF OwnInv, ThreadStatesOK, NotCached
    <3>13. ~Cached(s)' /\ \A v \in Workers : ~CachedBy(s, v)'
      BY <3>5, <3>6, <3>7
    <3> HIDE DEF q, w
    <3>14. HeldStatesOK'
      BY <3>6, <3>7, <3>9, <3>10, <3>11, <3>12, <3>13 DEF OwnInv, HeldStatesOK, NotCached
    <3>15. ThreadStatesOK'
      BY <3>6, <3>10 DEF OwnInv, ThreadStatesOK, NotCached
    <3> QED BY <3>8, <3>10, <3>14, <3>15 DEF OwnInv
  <2>2. CASE GetStateGlobal(f)
    <3> DEFINE q == m_state_cache
    <3>1. q \in Seq(States) /\ q # <<>> /\ NoDuplicates(q)
      BY <2>2 DEF GetStateGlobal, TypeInv, TypeOK, OwnInv, CachedOnce
    <3>0. PICK s \in States : s = Last(q)
      BY <3>1, PopBack
    <3>2. /\ s \in ToSet(q) /\ ToSet(Front(q)) \subseteq ToSet(q)
          /\ NoDuplicates(Front(q)) /\ s \notin ToSet(Front(q))
      BY <3>0, <3>1, PopBack
    <3>3. /\ m_state_cache' = Front(q)
          /\ m_state_cache_local' = m_state_cache_local
      BY <2>2 DEF GetStateGlobal
    <3>5. Cached(s) /\ ~Cached(s)'
      BY <3>2, <3>3 DEF Cached
    <3>6. /\ \A x : Cached(x)' => Cached(x)
          /\ \A v \in Workers : \A x : CachedBy(x, v)' <=> CachedBy(x, v)
      BY <3>2, <3>3 DEF Cached, CachedBy, LocalStates
    <3>7. (\A v \in Workers : ~CachedBy(s, v)) /\ s \in opened \ objects
      BY <3>2, <3>5 DEF OwnInv, CachedOnce, CachedStatesOK
    <3>8. CachedOnce' /\ CachedStatesOK'
      <4>1. opened' = opened /\ objects' = objects /\ NoDuplicates(m_state_cache')
        BY <2>2, <3>2 DEF GetStateGlobal
      <4>2. \A v \in Workers : m_state_cache_local'[v] # NoCache
                               => NoDuplicates(m_state_cache_local'[v])
        BY <3>3 DEF OwnInv, CachedOnce
      <4>3. \A x \in States : /\ Cached(x)' => x \in opened'
                            /\ \A v \in Workers : CachedBy(x, v)' => x \in opened'
        BY <3>6, <4>1 DEF OwnInv, CachedStatesOK
      <4> QED BY <3>6, <4>1, <4>2, <4>3, CachesShrink
    <3>9. held'[f] \in {s, NoState} /\ \A g \in Fibers : g # f => held'[g] = held[g]
      BY <2>2, <2>0, <3>0 DEF GetStateGlobal, Borrow, TypeInv, TypeOK
    <3>10. /\ watcher' = watcher /\ main' = main
           /\ opened' = opened /\ objects' = objects
      BY <2>2 DEF GetStateGlobal
    <3>11. \A g \in Fibers : held[g] # s
      BY <3>5, <3>2 DEF OwnInv, HeldStatesOK, NotCached
    <3>12. watcher.Lex # s /\ main.Lex # s
      BY <3>5, <3>2 DEF OwnInv, ThreadStatesOK, NotCached
    <3> HIDE DEF q, w
    <3>13. HeldStatesOK'
      BY <3>5, <3>6, <3>7, <3>9, <3>10, <3>11, <3>12 DEF OwnInv, HeldStatesOK, NotCached
    <3>14. ThreadStatesOK'
      BY <3>6, <3>10 DEF OwnInv, ThreadStatesOK, NotCached
    <3> QED BY <3>8, <3>10, <3>13, <3>14 DEF OwnInv
  <2>3. CASE GetStateCreates(f)
    <3>1. ASSUME NEW s \in States, CreateState(s), held' = [held EXCEPT ![f] = s]
          PROVE  OwnInv'
      <4>1. s \in States \ opened /\ opened' = opened \cup {s}
        BY <3>1 DEF CreateState
      <4>2. /\ \A x : Cached(x)' <=> Cached(x)
            /\ \A x, v : CachedBy(x, v)' <=> CachedBy(x, v)
        BY <2>3 DEF GetStateCreates, Cached, CachedBy, LocalStates
      <4>3. CachedOnce' /\ CachedStatesOK'
        BY <2>3, <4>1, <4>2 DEF GetStateCreates, OwnInv, CachedOnce, CachedStatesOK
      <4>4. held'[f] = s /\ \A g \in Fibers : g # f => held'[g] = held[g]
        BY <3>1 DEF TypeInv, TypeOK
      <4>5. HeldStatesOK'
        BY <2>3, <4>1, <4>2, <4>4, NewStateIsFree
           DEF GetStateCreates, OwnInv, HeldStatesOK, NotCached
      <4>6. ThreadStatesOK'
        BY <2>3, <4>1, <4>2 DEF GetStateCreates, OwnInv, ThreadStatesOK, NotCached
      <4> QED BY <2>3, <4>1, <4>3, <4>5, <4>6 DEF GetStateCreates, OwnInv
    <3>2. CASE CreateStateThrows /\ UNCHANGED held
      <4>1. opened \subseteq opened'
        BY <3>2 DEF CreateStateThrows, CreateState
      <4> QED BY <2>3, <3>2, <4>1, NothingTaken DEF GetStateCreates
    <3> QED BY <2>3, <3>1, <3>2 DEF GetStateCreates
  <2>4. CASE HandlerUsesLibrary(f)
    <3>1. held[f] \in States /\ objects' = objects \cup {held[f]}
      BY <2>4 DEF HandlerUsesLibrary
    <3>2. NotCached(held[f]) /\ held[f] \in opened /\ held[f] # watcher.Lex
      BY <3>1 DEF OwnInv, HeldStatesOK
    <3>3. /\ \A x : Cached(x)' <=> Cached(x)
          /\ \A x, v : CachedBy(x, v)' <=> CachedBy(x, v)
      BY <2>4 DEF HandlerUsesLibrary, Cached, CachedBy, LocalStates
    <3>4. CachedOnce'
      BY <2>4, <3>3 DEF HandlerUsesLibrary, OwnInv, CachedOnce
    <3>5. CachedStatesOK'
      BY <2>4, <3>1, <3>2, <3>3 DEF HandlerUsesLibrary, OwnInv, CachedStatesOK, NotCached
    <3>6. HeldStatesOK' /\ ThreadStatesOK'
      BY <2>4, <3>1, <3>2, <3>3
         DEF HandlerUsesLibrary, OwnInv, HeldStatesOK, ThreadStatesOK, NotCached
    <3> QED BY <2>4, <3>1, <3>2, <3>4, <3>5, <3>6 DEF HandlerUsesLibrary, OwnInv
  <2>5. CASE FreeState(f)
    <3> DEFINE s == held[f]
    <3>1. s \in States /\ s # NoState
      BY <2>5, <2>0 DEF FreeState
    <3>2. /\ NotCached(s) /\ s \in opened /\ s # watcher.Lex /\ s # main.Lex
          /\ \A g \in Fibers : held[g] = s => g = f
      BY <3>1 DEF OwnInv, HeldStatesOK
    <3>3. /\ objects' = objects \ {s} /\ opened' = opened
          /\ watcher' = watcher /\ main' = main
      BY <2>5 DEF FreeState
    <3>4. held'[f] = NoState /\ \A g \in Fibers : g # f => held'[g] = held[g]
      BY <2>5 DEF FreeState, TypeInv, TypeOK
    <3>5. /\ CachedOnce' /\ CachedStatesOK'
          /\ \A x : Cached(x)' => Cached(x) \/ x = s
          /\ \A v \in Workers : \A x : CachedBy(x, v)' => CachedBy(x, v) \/ x = s
      <4>1. CASE m_state_cache_local[w] # NoCache
        <5>1. /\ m_state_cache_local' = [m_state_cache_local EXCEPT
                                           ![w] = Append(m_state_cache_local[w], s)]
              /\ m_state_cache' = m_state_cache
          BY <2>5, <4>1 DEF FreeState, LocalCache
        <5> HIDE DEF s, w
        <5> QED BY <2>w, <3>1, <3>2, <3>3, <4>1, <5>1, PushedToLocal
      <4>2. CASE m_state_cache_local[w] = NoCache
        <5>1. /\ m_state_cache' = Append(m_state_cache, s)
              /\ m_state_cache_local' = m_state_cache_local
          BY <2>5, <4>2 DEF FreeState, LocalCache
        <5> HIDE DEF s, w
        <5> QED BY <3>1, <3>2, <3>3, <5>1, PushedToGlobal
      <4> QED BY <4>1, <4>2
    <3>6. HeldStatesOK'
      BY <3>2, <3>3, <3>4, <3>5 DEF OwnInv, HeldStatesOK, NotCached
    <3>7. ThreadStatesOK'
      BY <3>2, <3>3, <3>5 DEF OwnInv, ThreadStatesOK, NotCached
    <3> QED BY <3>3, <3>5, <3>6, <3>7 DEF OwnInv
  <2>6. CASE HandlerThrows(f)
    <3>1. \A g \in Fibers : held'[g] \in {held[g], NoState}
      BY <2>6 DEF HandlerThrows, TypeInv, TypeOK
    <3> QED BY <2>6, <3>1, NothingTaken DEF HandlerThrows, poolVars
  <2> QED BY <1>4, <2>1, <2>2, <2>3, <2>4, <2>5, <2>6 DEF Request
<1>5. ASSUME NEW w \in Workers, RunPosted(w) PROVE OwnInv'
  <2>1. /\ \A v \in Workers : v # w => m_state_cache_local'[v] = m_state_cache_local[v]
        /\ m_state_cache' = m_state_cache /\ held' = held /\ watcher' = watcher
        /\ main'.Lex = main.Lex
    BY <1>5 DEF RunPosted, MakeLocalCache, ResetLocalCache, TypeInv, TypeOK, MainThread
  <2>2. \/ m_state_cache_local'[w] = <<>>
        \/ m_state_cache_local'[w] = NoCache
    BY <1>5 DEF RunPosted, MakeLocalCache, ResetLocalCache, TypeInv, TypeOK
  <2>3. NoDuplicates(<<>>) /\ ToSet(<<>>) = {}
    BY DEF NoDuplicates, ToSet
  <2>4. /\ \A x : Cached(x)' <=> Cached(x)
        /\ \A v \in Workers : \A x : CachedBy(x, v)' <=> v # w /\ CachedBy(x, v)
    BY <2>1, <2>2, <2>3 DEF Cached, CachedBy, LocalStates
  <2>5. /\ NoDuplicates(m_state_cache')
        /\ \A v \in Workers : m_state_cache_local'[v] # NoCache
                              => NoDuplicates(m_state_cache_local'[v])
    BY <2>1, <2>2, <2>3 DEF OwnInv, CachedOnce
  <2>6. PICK S : /\ opened' = opened \ S /\ objects' = objects \ S
                 /\ \A x \in S : CachedBy(x, w)
    <3>1. CASE MakeLocalCache(w)
      <4>1. PICK S : S = {}
        OBVIOUS
      <4>2. /\ opened' = opened \ S /\ objects' = objects \ S
            /\ \A x \in S : CachedBy(x, w)
        BY <3>1, <4>1 DEF MakeLocalCache
      <4> QED BY <4>2
    <3>2. CASE ResetLocalCache(w)
      <4>1. m_state_cache_local[w] # NoCache
        BY <1>5, <3>2 DEF RunPosted, ResetLocalCache, CacheExistsAtReset
      <4>2. /\ opened' = opened \ LocalStates(w) /\ objects' = objects \ LocalStates(w)
            /\ \A x \in LocalStates(w) : CachedBy(x, w)
        BY <3>2, <4>1 DEF ResetLocalCache, DestroyStates, CachedBy, LocalStates
      <4> QED BY <4>2
    <3> QED BY <1>5, <3>1, <3>2 DEF RunPosted
  <2>7. \A x \in S : /\ x \in States
                    /\ ~Cached(x) /\ \A v \in Workers : CachedBy(x, v) => v = w
    BY <2>6, CacheElements DEF OwnInv, CachedOnce
  <2>8. CachedOnce' /\ CachedStatesOK'
    <3>1. \A x \in States : /\ Cached(x)' => x \in opened'
                          /\ \A v \in Workers : CachedBy(x, v)' => x \in opened'
      BY <2>4, <2>6, <2>7 DEF OwnInv, CachedStatesOK
    <3> QED BY <2>4, <2>5, <2>6, <3>1, CachesShrink
  <2>9. HeldStatesOK'
    BY <2>1, <2>4, <2>6 DEF OwnInv, HeldStatesOK, NotCached
  <2>10. ThreadStatesOK'
    BY <2>1, <2>4, <2>6 DEF OwnInv, ThreadStatesOK, NotCached
  <2> QED BY <2>6, <2>8, <2>9, <2>10 DEF OwnInv
<1>6. CASE MainStarts
  <2>1. CASE BootstrapCreates
    <3>1. ASSUME NEW s \in States, CreateState(s), main'.Lex = s PROVE OwnInv'
      <4>1. s \in States \ opened /\ opened' = opened \cup {s}
        BY <3>1 DEF CreateState
      <4>2. /\ \A x : Cached(x)' <=> Cached(x)
            /\ \A x, v : CachedBy(x, v)' <=> CachedBy(x, v)
        BY <2>1 DEF BootstrapCreates, Cached, CachedBy, LocalStates
      <4>3. CachedOnce' /\ CachedStatesOK'
        BY <2>1, <4>1, <4>2 DEF BootstrapCreates, OwnInv, CachedOnce, CachedStatesOK
      <4>4. HeldStatesOK'
        BY <2>1, <3>1, <4>1, <4>2, NewStateIsFree
           DEF BootstrapCreates, OwnInv, HeldStatesOK, NotCached
      <4>5. ThreadStatesOK'
        BY <2>1, <3>1, <4>1, <4>2, NewStateIsFree
           DEF BootstrapCreates, OwnInv, ThreadStatesOK, NotCached
      <4> QED BY <2>1, <4>1, <4>3, <4>4, <4>5 DEF BootstrapCreates, OwnInv
    <3>2. CASE CreateStateThrows /\ main'.Lex = NoState
      <4>1. opened \subseteq opened'
        BY <3>2 DEF CreateStateThrows, CreateState
      <4> QED BY <2>1, <3>2, <4>1, NothingTaken DEF BootstrapCreates
    <3> QED BY <2>1, <3>1, <3>2 DEF BootstrapCreates
  <2>2. CASE BootstrapUsesLibrary
    <3>1. main.Lex \in States /\ main.Lex # NoState
      BY <2>2 DEF BootstrapUsesLibrary, TypeInv, TypeOK, HoldersInv, MainThread
    <3>2. NotCached(main.Lex) /\ main.Lex \in opened /\ main.Lex # watcher.Lex
      BY <3>1 DEF OwnInv, ThreadStatesOK
    <3>3. /\ \A x : Cached(x)' <=> Cached(x)
          /\ \A x, v : CachedBy(x, v)' <=> CachedBy(x, v)
      BY <2>2 DEF BootstrapUsesLibrary, Cached, CachedBy, LocalStates
    <3>4. CachedOnce' /\ CachedStatesOK'
      BY <2>2, <3>2, <3>3
         DEF BootstrapUsesLibrary, OwnInv, CachedOnce, CachedStatesOK, NotCached
    <3>5. HeldStatesOK' /\ ThreadStatesOK'
      BY <2>2, <3>2, <3>3
         DEF BootstrapUsesLibrary, OwnInv, HeldStatesOK, ThreadStatesOK, NotCached
    <3> QED BY <2>2, <3>2, <3>4, <3>5 DEF BootstrapUsesLibrary, OwnInv
  <2>3. CASE BootstrapDestroys
    <3>0. PICK s \in States : s = main.Lex /\ s # NoState
      BY <2>3 DEF BootstrapDestroys, TypeInv, TypeOK, HoldersInv, MainThread
    <3>1. /\ NotCached(s) /\ s # watcher.Lex /\ \A f \in Fibers : held[f] # s
      BY <3>0 DEF OwnInv, ThreadStatesOK, HeldStatesOK
    <3>2. /\ opened' = opened \ {s} /\ objects' = objects \ {s}
          /\ main'.Lex = NoState /\ held' = held /\ watcher' = watcher
      BY <2>3, <3>0 DEF BootstrapDestroys, DestroyStates
    <3>3. /\ \A x : Cached(x)' <=> Cached(x)
          /\ \A x, v : CachedBy(x, v)' <=> CachedBy(x, v)
      BY <2>3 DEF BootstrapDestroys, Cached, CachedBy, LocalStates
    <3>4. CachedOnce'
      BY <2>3, <3>3 DEF BootstrapDestroys, OwnInv, CachedOnce
    <3>5. CachedStatesOK'
      BY <3>1, <3>2, <3>3 DEF OwnInv, CachedStatesOK, NotCached
    <3>6. HeldStatesOK'
      BY <3>1, <3>2, <3>3 DEF OwnInv, HeldStatesOK, NotCached
    <3>7. ThreadStatesOK'
      BY <3>0, <3>1, <3>2, <3>3 DEF OwnInv, ThreadStatesOK, NotCached
    <3> QED BY <3>2, <3>4, <3>5, <3>6, <3>7 DEF OwnInv
  <2>4. CASE StartFails \/ StartWorkers \/ \E w \in Workers : RegisterIoService(w)
    <3>1. /\ UNCHANGED <<poolVars, held, watcher>>
          /\ main'.Lex \in {main.Lex, NoState}
      BY <2>4 DEF StartFails, StartWorkers, RegisterIoService, TypeInv, TypeOK, MainThread
    <3> QED BY <3>1, NothingTaken DEF poolVars
  <2> QED BY <1>6, <2>1, <2>2, <2>3, <2>4 DEF MainStarts
<1>7. CASE MainStops
  <2>1. CASE StopWorkers \/ \E w \in Workers : UnregisterIoService(w)
    <3>1. /\ UNCHANGED <<poolVars, held, watcher>>
          /\ main'.Lex \in {main.Lex, NoState}
      BY <2>1 DEF StopWorkers, UnregisterIoService, TypeInv, TypeOK, MainThread
    <3> QED BY <3>1, NothingTaken DEF poolVars
  <2>2. CASE DestroyManager
    <3>0. PICK S : S = ToSet(m_state_cache)
      OBVIOUS
    <3>1. /\ opened' = opened \ S /\ objects' = objects \ S
          /\ m_state_cache_local' = m_state_cache_local
          /\ main'.Lex = main.Lex /\ held' = held /\ watcher' = watcher
      BY <2>2, <3>0 DEF DestroyManager, DestroyStates, TypeInv, TypeOK, MainThread
    <3>2. /\ \A x \in S : x \in States /\ Cached(x)
          /\ \A x \in S, v \in Workers : ~CachedBy(x, v)
      BY <3>0, CacheElements DEF Cached, OwnInv, CachedOnce
    <3>3. m_state_cache' = <<>> /\ NoDuplicates(m_state_cache')
      BY <2>2 DEF DestroyManager, NoDuplicates
    <3>4. /\ \A x : ~Cached(x)'
          /\ \A x, v : CachedBy(x, v)' <=> CachedBy(x, v)
      BY <3>1, <3>3 DEF Cached, CachedBy, LocalStates, ToSet
    <3>5. CachedOnce'
      BY <3>1, <3>3, <3>4 DEF OwnInv, CachedOnce
    <3>6. CachedStatesOK'
      BY <3>1, <3>2, <3>4 DEF OwnInv, CachedStatesOK
    <3>7. HeldStatesOK'
      BY <3>1, <3>2, <3>4 DEF OwnInv, HeldStatesOK, NotCached
    <3>8. ThreadStatesOK'
      BY <3>1, <3>2, <3>4 DEF OwnInv, ThreadStatesOK, NotCached
    <3> QED BY <3>1, <3>5, <3>6, <3>7, <3>8 DEF OwnInv
  <2> QED BY <1>7, <2>1, <2>2 DEF MainStops
<1>8. CASE UNCHANGED vars
  BY <1>8, NothingTaken DEF vars, poolVars
<1> QED BY <1>1, <1>2, <1>3, <1>4, <1>5, <1>6, <1>7, <1>8
        DEF Next, Watcher, Terminated

LEMMA OwnInvAtStart == Init => OwnInv
<1> SUFFICES ASSUME Init PROVE OwnInv
  OBVIOUS
<1>1. \A s : ~Cached(s) /\ \A w \in Workers : ~CachedBy(s, w)
  BY DEF Init, Cached, CachedBy, LocalStates, ToSet
<1>2. NoDuplicates(<<>>)
  BY DEF NoDuplicates
<1> QED BY <1>1, <1>2 DEF Init, OwnInv, CachedOnce, CachedStatesOK,
           HeldStatesOK, ThreadStatesOK

LEMMA Owned == Spec => []OwnInv
<1>1. TypeInv /\ CacheExistsAtReset /\ OwnInv /\ [Next]_vars => OwnInv'
  BY OwnStep
<1> QED BY <1>1, OwnInvAtStart, Types, ResetFindsCache, PTL DEF Spec

\* A lua_State is in one place at a time, whatever the requests, the watcher and
\* the (un)registration of the workers do, and however requests fail.
THEOREM OneOwner == Spec => [](OwnedOnce /\ NoUseAfterClose /\ PooledStatesAreClean)
<1>1. TypeInv /\ OwnInv => OwnedOnce /\ NoUseAfterClose /\ PooledStatesAreClean
  BY OwnInvSuffices
<1> QED BY <1>1, Types, Owned, PTL

\* What a request, a thread or a cache refers to is open: neither the reset of a
\* worker's cache nor the destructor closes a state that somebody else uses.
THEOREM NothingClosedIsUsed == Spec => []NoUseAfterClose
BY OneOwner, PTL

\* A request finds no library objects of the request before it in its state.
THEOREM CleanOnReuse == Spec => []PooledStatesAreClean
BY OneOwner, PTL

-----------------------------------------------------------------------------
(* The life of the local caches: none before its "make" runs, and none     *)
(* when the workers are stopped.                                           *)

NoCacheYet ==
  \A w \in Workers :
    \/ posted[w] # <<>> /\ Head(posted[w]) = "make"
    \/ main.pc \in {"bootstrap", "bootstrapping", "starting", "registering"} /\ w \notin m_iosvcs
    => m_state_cache_local[w] = NoCache

\* The main thread waits for one "reset" at a time.
StopInv ==
  /\ main.pc = "serving" => m_iosvcs = Workers
  /\ main.pc = "unregistering" => \A w \in Workers \ m_iosvcs :
       \/ posted[w] = <<>> /\ m_state_cache_local[w] = NoCache
       \/ /\ main.waits /\ posted[w] \in {<<"make", "reset">>, <<"reset">>}
          /\ \A v \in Workers \ m_iosvcs : posted[v] # <<>> => v = w
  /\ main.pc \in {"joining", "destroyed"} => \A w \in Workers : m_state_cache_local[w] = NoCache
  /\ main.pc \in {"bootstrap", "bootstrapping", "starting", "joining", "destroyed"} => running = {}
  /\ main.pc = "destroyed" => m_state_cache = <<>> /\ watcher.pc = "exited"

CacheLife == NoCacheYet /\ StopInv

LEMMA CacheLifeStep ==
  ASSUME TypeInv, PostedInv, CacheLife, [Next]_vars
  PROVE  CacheLife'
<1>1. \A w \in Workers : posted[w] \in {<<>>, <<"make">>, <<"make", "reset">>, <<"reset">>}
  BY DEF PostedInv
<1>2. CASE Watcher
  <2>1. /\ UNCHANGED <<m_state_cache_local, posted, running, m_iosvcs, main>>
        /\ watcher.pc # "exited"
    BY <1>2 DEF Watcher, WatcherCheck, WatcherCount, WatcherCreate, WatcherPush, WatcherRoundEnds, poolVars
  <2> QED
    BY <2>1 DEF CacheLife, NoCacheYet, StopInv
<1>3. ASSUME NEW f \in Fibers, Request(f) PROVE CacheLife'
  <2>1. UNCHANGED <<posted, running, m_iosvcs, main, watcher>> /\ HomeOf[f] \in running
    BY <1>3 DEF Request, GetStateLocal, GetStateGlobal, GetStateCreates, HandlerUsesLibrary, FreeState,
       HandlerThrows, CanRun
  <2>2. \A w \in Workers : m_state_cache_local'[w] = NoCache <=> m_state_cache_local[w] = NoCache
    BY <1>3, RequestKeepsCaches
  <2>3. main.pc \notin {"joining", "destroyed"}
    BY <2>1 DEF CacheLife, StopInv
  <2> QED
    BY <2>1, <2>2, <2>3 DEF CacheLife, NoCacheYet, StopInv
<1>4. ASSUME NEW w \in Workers, RunPosted(w) PROVE CacheLife'
  <2>1. /\ w \in running /\ posted[w] # <<>> /\ posted'[w] = Tail(posted[w])
        /\ \A v \in Workers \ {w} : /\ posted'[v] = posted[v]
                                    /\ m_state_cache_local'[v] = m_state_cache_local[v]
        /\ UNCHANGED <<m_state_cache, running, m_iosvcs, watcher>> /\ main'.pc = main.pc
    BY <1>4 DEF RunPosted, MakeLocalCache, ResetLocalCache, TypeInv, TypeOK, MainThread
  <2>2. main.pc \notin {"bootstrap", "bootstrapping", "starting", "joining", "destroyed"}
    BY <2>1 DEF CacheLife, StopInv
  <2>3. main.pc = "registering" => w \in m_iosvcs
    BY <2>1 DEF PostedInv
  <2>4. CASE MakeLocalCache(w)
    <3>1. \/ posted[w] = <<"make">> /\ posted'[w] = <<>>
          \/ posted[w] = <<"make", "reset">> /\ posted'[w] = <<"reset">>
      BY <1>1, <2>1, <2>4, Queues DEF MakeLocalCache
    <3>2. main' = main
      BY <2>4 DEF MakeLocalCache
    <3>3. NoCacheYet'
      <4>1. ASSUME NEW v \in Workers, v # w,
                   \/ posted'[v] # <<>> /\ Head(posted'[v]) = "make"
                   \/ main.pc = "registering" /\ v \notin m_iosvcs
            PROVE  m_state_cache_local'[v] = NoCache
        BY <2>1, <4>1 DEF CacheLife, NoCacheYet
      <4>2. ~ (posted'[w] # <<>> /\ Head(posted'[w]) = "make")
        BY <3>1, Queues
      <4> QED
        BY <2>1, <2>2, <2>3, <3>2, <4>1, <4>2 DEF NoCacheYet
    <3>4. StopInv'
      <4>1. ASSUME main.pc = "unregistering", NEW v \in Workers \ m_iosvcs
            PROVE  \/ posted'[v] = <<>> /\ m_state_cache_local'[v] = NoCache
                   \/ /\ main.waits /\ posted'[v] \in {<<"make", "reset">>, <<"reset">>}
                      /\ \A u \in Workers \ m_iosvcs : posted'[u] # <<>> => u = v
        <5>1. CASE v = w
          BY <2>1, <3>1, <4>1, <5>1, Queues DEF CacheLife, StopInv
        <5>2. CASE v # w
          BY <2>1, <3>1, <4>1, <5>2, Queues DEF CacheLife, StopInv
        <5> QED
          BY <5>1, <5>2
      <4> QED
        BY <2>1, <2>2, <3>2, <4>1 DEF CacheLife, StopInv
    <3> QED
      BY <3>3, <3>4 DEF CacheLife
  <2>5. CASE ResetLocalCache(w)
    <3>1. posted[w] = <<"reset">> /\ posted'[w] = <<>>
      BY <1>1, <2>1, <2>5, Queues DEF ResetLocalCache
    <3>2. w \notin m_iosvcs /\ main.pc = "unregistering"
      <4>1. w \notin m_iosvcs
        BY <3>1, Queues DEF PostedInv
      <4> QED
        BY <2>2, <2>3, <4>1 DEF CacheLife, StopInv, TypeInv, TypeOK, MainThread
    <3>3. m_state_cache_local'[w] = NoCache
      BY <2>5 DEF ResetLocalCache, TypeInv, TypeOK
    <3>4. NoCacheYet'
      <4>1. ASSUME NEW v \in Workers, v # w, posted'[v] # <<>>, Head(posted'[v]) = "make"
            PROVE  m_state_cache_local'[v] = NoCache
        BY <2>1, <4>1 DEF CacheLife, NoCacheYet
      <4> QED
        BY <2>1, <3>2, <3>3, <4>1 DEF NoCacheYet
    <3>5. \A v \in Workers \ m_iosvcs : posted'[v] = <<>> /\ m_state_cache_local'[v] = NoCache
      BY <2>1, <3>1, <3>2, <3>3, Queues DEF CacheLife, StopInv
    <3>6. StopInv'
      BY <2>1, <3>2, <3>5 DEF StopInv
    <3> QED
      BY <3>4, <3>6 DEF CacheLife
  <2> QED
    BY <1>4, <2>4, <2>5 DEF RunPosted
<1>5. CASE MainStarts
  <2>1. CASE BootstrapCreates \/ BootstrapUsesLibrary \/ BootstrapDestroys \/ StartFails \/ StartWorkers
    <3>1. /\ UNCHANGED <<posted, m_iosvcs, m_state_cache_local>>
          /\ main.pc \in {"bootstrap", "bootstrapping", "starting"}
          /\ \/ main'.pc \in {"bootstrap", "bootstrapping", "starting", "joining"} /\ running' = running
             \/ main'.pc = "registering"
      BY <2>1 DEF BootstrapCreates, BootstrapUsesLibrary, BootstrapDestroys, StartFails, StartWorkers, poolVars,
         TypeInv, TypeOK, MainThread
    <3>2. m_iosvcs = {} /\ running = {} /\ \A w \in Workers : m_state_cache_local[w] = NoCache
      BY <3>1 DEF PostedInv, CacheLife, NoCacheYet, StopInv
    <3> QED
      BY <3>1, <3>2 DEF CacheLife, NoCacheYet, StopInv
  <2>2. ASSUME NEW w \in Workers, RegisterIoService(w) PROVE CacheLife'
    <3>1. /\ main.pc = "registering" /\ w \notin m_iosvcs /\ m_iosvcs' = m_iosvcs \cup {w}
          /\ UNCHANGED <<m_state_cache_local, running>>
          /\ \A v \in Workers \ {w} : posted'[v] = posted[v]
          /\ main'.pc = "registering" \/ (main'.pc = "serving" /\ m_iosvcs' = Workers)
      BY <2>2 DEF RegisterIoService, poolVars, TypeInv, TypeOK, MainThread
    <3>2. NoCacheYet'
      BY <3>1 DEF CacheLife, NoCacheYet
    <3>3. StopInv'
      BY <3>1 DEF StopInv
    <3> QED
      BY <3>2, <3>3 DEF CacheLife
  <2> QED
    BY <1>5, <2>1, <2>2 DEF MainStarts
<1>6. CASE MainStops
  <2>1. ASSUME NEW w \in Workers, UnregisterIoService(w) PROVE CacheLife'
    <3>1. /\ main.pc = "serving" \/ (main.pc = "unregistering" /\ ~main.waits)
          /\ w \in m_iosvcs /\ m_iosvcs' = m_iosvcs \ {w} /\ UNCHANGED <<m_state_cache_local, running>>
          /\ posted'[w] = Append(posted[w], "reset")
          /\ \A v \in Workers \ {w} : posted'[v] = posted[v]
          /\ main'.pc = "unregistering" /\ main'.waits
      BY <2>1 DEF UnregisterIoService, poolVars, TypeInv, TypeOK
    <3>2. \/ posted[w] = <<"make">> /\ posted'[w] = <<"make", "reset">>
          \/ posted[w] = <<>> /\ posted'[w] = <<"reset">>
      BY <3>1, Queues DEF PostedInv
    <3>3. NoCacheYet'
      <4>1. posted'[w] # <<>> /\ Head(posted'[w]) = "make" => m_state_cache_local[w] = NoCache
        BY <3>2, Queues DEF CacheLife, NoCacheYet
      <4>2. ASSUME NEW v \in Workers, v # w, posted'[v] # <<>>, Head(posted'[v]) = "make"
            PROVE  m_state_cache_local'[v] = NoCache
        BY <3>1, <4>2 DEF CacheLife, NoCacheYet
      <4> QED
        BY <3>1, <4>1, <4>2 DEF NoCacheYet
    <3>4. \A v \in Workers \ m_iosvcs : posted[v] = <<>> /\ m_state_cache_local[v] = NoCache
      BY <3>1 DEF CacheLife, StopInv
    <3>5. StopInv'
      BY ZenonT(30), <3>1, <3>2, <3>4 DEF StopInv
    <3> QED
      BY <3>3, <3>5 DEF CacheLife
  <2>2. CASE StopWorkers
    <3>1. /\ main.pc = "unregistering" /\ ~main.waits /\ m_iosvcs = {} /\ running' = {}
          /\ main'.pc = "joining" /\ UNCHANGED <<posted, m_state_cache_local, m_iosvcs>>
      BY <2>2 DEF StopWorkers, poolVars, TypeInv, TypeOK, MainThread
    <3> QED
      BY <3>1 DEF CacheLife, NoCacheYet, StopInv
  <2>3. CASE DestroyManager
    <3>1. /\ main.pc = "joining" /\ watcher.pc = "exited" /\ main'.pc = "destroyed" /\ m_state_cache' = <<>>
          /\ UNCHANGED <<posted, m_state_cache_local, m_iosvcs, running, watcher>>
      BY <2>3 DEF DestroyManager, TypeInv, TypeOK, MainThread
    <3> QED
      BY <3>1 DEF CacheLife, NoCacheYet, StopInv
  <2> QED
    BY <1>6, <2>1, <2>2, <2>3 DEF MainStops
<1>7. CASE UNCHANGED vars
  BY <1>7 DEF vars, poolVars, CacheLife, NoCacheYet, StopInv
<1> QED
  BY <1>2, <1>3, <1>4, <1>5, <1>6, <1>7 DEF Next, Terminated

LEMMA CachesLive == Spec => []CacheLife
<1>1. Init => CacheLife
  BY DEF Init, CacheLife, NoCacheYet, StopInv
<1>2. TypeInv /\ PostedInv /\ CacheLife /\ [Next]_vars => CacheLife'
  BY CacheLifeStep
<1> QED
  BY <1>1, <1>2, Types, HandlersInOrder, PTL DEF Spec

-----------------------------------------------------------------------------
(* What a server without faults keeps.                                     *)

\* A library object's state is with a request or with the bootstrap.
ObjectsKept ==
  \A s \in objects : s # NoState /\ (main.Lex = s \/ \E f \in Fibers : held[f] = s)

LEMMA ObjectsStep ==
  ASSUME TypeInv, Faults \cap {"bootstrap", "handler"} = {}, ObjectsKept, [Next]_vars
  PROVE  ObjectsKept'
<1>1. /\ DOMAIN held = Fibers /\ objects \subseteq States /\ NoState \notin States
      /\ (main.Lex # NoState => main.pc = "bootstrapping")
  BY PoolAssumption DEF TypeInv, TypeOK, HoldersInv
<1>2. ASSUME objects' \subseteq objects, main'.Lex = main.Lex, held' = held PROVE ObjectsKept'
  BY <1>2 DEF ObjectsKept
<1>3. CASE Watcher
  <2>1. UNCHANGED <<objects, main, held>>
    BY <1>3 DEF Watcher, WatcherCheck, WatcherCount, WatcherCreate, WatcherPush, WatcherRoundEnds, poolVars
  <2> QED
    BY <1>2, <2>1
<1>4. ASSUME NEW f \in Fibers, Request(f) PROVE ObjectsKept'
  <2>1. CASE GetStateLocal(f) \/ GetStateGlobal(f) \/ GetStateCreates(f)
    <3>1. held[f] = NoState /\ UNCHANGED <<objects, main>> /\ \A g \in Fibers \ {f} : held'[g] = held[g]
      BY <1>1, <2>1 DEF GetStateLocal, GetStateGlobal, GetStateCreates, Borrow
    <3> QED
      BY <3>1 DEF ObjectsKept
  <2>2. CASE HandlerUsesLibrary(f)
    BY <1>1, <2>2 DEF HandlerUsesLibrary, ObjectsKept
  <2>3. CASE FreeState(f)
    <3>1. objects' = objects \ {held[f]} /\ UNCHANGED main /\ \A g \in Fibers \ {f} : held'[g] = held[g]
      BY <1>1, <2>3 DEF FreeState
    <3> QED
      BY <3>1 DEF ObjectsKept
  <2>4. ~HandlerThrows(f)
    BY DEF HandlerThrows
  <2> QED
    BY <1>4, <2>1, <2>2, <2>3, <2>4 DEF Request
<1>5. ASSUME NEW w \in Workers, RunPosted(w) PROVE ObjectsKept'
  <2>1. objects' \subseteq objects /\ held' = held /\ main'.Lex = main.Lex
    BY <1>5 DEF RunPosted, MakeLocalCache, ResetLocalCache, DestroyStates, TypeInv, TypeOK, MainThread
  <2> QED
    BY <1>2, <2>1
<1>6. CASE MainStarts
  <2>1. CASE BootstrapCreates \/ StartFails
    <3>1. UNCHANGED <<objects, held>> /\ main.Lex = NoState
      BY <1>1, <2>1 DEF BootstrapCreates, StartFails, poolVars
    <3> QED
      BY <3>1 DEF ObjectsKept
  <2>2. CASE BootstrapUsesLibrary
    BY <1>1, <2>2 DEF BootstrapUsesLibrary, ObjectsKept, TypeInv, TypeOK, HoldersInv
  <2>3. CASE BootstrapDestroys
    BY <2>3 DEF BootstrapDestroys, DestroyStates, ObjectsKept
  <2>4. CASE StartWorkers \/ \E w \in Workers : RegisterIoService(w)
    <3>1. UNCHANGED <<objects, held>> /\ main'.Lex = main.Lex
      BY <2>4 DEF StartWorkers, RegisterIoService, poolVars, TypeInv, TypeOK, MainThread
    <3> QED
      BY <1>2, <3>1
  <2> QED
    BY <1>6, <2>1, <2>2, <2>3, <2>4 DEF MainStarts
<1>7. CASE MainStops
  <2>1. CASE StopWorkers \/ \E w \in Workers : UnregisterIoService(w)
    <3>1. UNCHANGED <<objects, held>> /\ main.Lex = NoState
      BY <1>1, <2>1 DEF StopWorkers, UnregisterIoService, poolVars
    <3> QED
      BY <3>1 DEF ObjectsKept
  <2>2. CASE DestroyManager
    <3>1. objects' \subseteq objects /\ held' = held /\ main'.Lex = main.Lex
      BY <2>2 DEF DestroyManager, DestroyStates, TypeInv, TypeOK, MainThread
    <3> QED
      BY <1>2, <3>1
  <2> QED
    BY <1>7, <2>1, <2>2 DEF MainStops
<1>8. CASE UNCHANGED vars
  BY <1>2, <1>8 DEF vars, poolVars
<1> QED
  BY <1>3, <1>4, <1>5, <1>6, <1>7, <1>8 DEF Next, Terminated

\* When neither a handler nor the bootstrap throws, the library objects of a
\* request are gone when it is finished (library.h:36), also when creating a
\* state or reloading the scripts throws.
THEOREM ObjectsEndWithRequest ==
  ASSUME Faults \cap {"bootstrap", "handler"} = {}
  PROVE  Spec => []ObjectsDeletedAfterRequest
<1>1. Init => ObjectsKept
  BY DEF Init, ObjectsKept
<1>2. TypeInv /\ ObjectsKept /\ [Next]_vars => ObjectsKept'
  BY ObjectsStep
<1>3. ObjectsKept => ObjectsDeletedAfterRequest
  BY DEF ObjectsKept, ObjectsDeletedAfterRequest, HeldStates
<1> QED
  BY <1>1, <1>2, <1>3, Types, PTL DEF Spec

\* An open state is in a cache, or with a request or a thread.
Kept(s) ==
  \/ Cached(s) \/ \E w \in Workers : CachedBy(s, w)
  \/ \E f \in Fibers : held[f] = s
  \/ watcher.Lex = s \/ main.Lex = s

AllKept == \A s \in opened : Kept(s)

LEMMA NothingCreated == Faults = {} /\ CreateStateThrows => UNCHANGED opened
BY DEF CreateStateThrows

LEMMA KeptByWatcher ==
  ASSUME TypeInv, OwnInv, Faults = {}, AllKept, Watcher
  PROVE  AllKept'
<1>1. /\ UNCHANGED <<m_state_cache_local, held, main>>
      /\ \A w, s : CachedBy(s, w)' <=> CachedBy(s, w)
  BY DEF Watcher, WatcherCheck, WatcherCount, WatcherCreate, WatcherPush, WatcherRoundEnds, poolVars,
     CachedBy, LocalStates
<1>2. CASE WatcherCheck \/ WatcherCount \/ WatcherRoundEnds
  <2>1. UNCHANGED <<opened, m_state_cache>> /\ watcher.Lex = NoState
    BY <1>2 DEF WatcherCheck, WatcherCount, WatcherRoundEnds, poolVars, TypeInv, HoldersInv
  <2>2. NoState \notin opened
    BY PoolAssumption DEF TypeInv, TypeOK
  <2> QED
    BY <1>1, <2>1, <2>2 DEF AllKept, Kept, Cached
<1>3. CASE WatcherCreate
  <2>1. UNCHANGED m_state_cache /\ watcher.Lex = NoState
    BY <1>3 DEF WatcherCreate, TypeInv, HoldersInv
  <2>2. NoState \notin opened
    BY PoolAssumption DEF TypeInv, TypeOK
  <2>3. UNCHANGED opened \/ \E s \in States : opened' = opened \cup {s} /\ watcher'.Lex = s
    BY <1>3, NothingCreated DEF WatcherCreate, CreateState
  <2> QED
    BY <1>1, <2>1, <2>2, <2>3 DEF AllKept, Kept, Cached
<1>4. CASE WatcherPush
  <2>1. PICK s \in States : s = watcher.Lex
    BY <1>4 DEF WatcherPush, TypeInv, TypeOK, HoldersInv, WatcherThread
  <2>2. UNCHANGED opened /\ m_state_cache' = Append(m_state_cache, s)
    BY <1>4, <2>1 DEF WatcherPush
  <2>3. \A x : Cached(x)' <=> Cached(x) \/ x = s
    BY <2>2, PushBack DEF Cached, TypeInv, TypeOK
  <2> QED
    BY <1>1, <2>1, <2>2, <2>3 DEF AllKept, Kept
<1> QED
  BY <1>2, <1>3, <1>4 DEF Watcher

LEMMA KeptByRequest ==
  ASSUME TypeInv, OwnInv, Faults = {}, AllKept, NEW f \in Fibers, Request(f)
  PROVE  AllKept'
<1> USE PoolAssumption
<1>0. /\ HomeOf[f] \in Workers /\ DOMAIN held = Fibers /\ NoState \notin opened
      /\ watcher' = watcher /\ main' = main
  BY DEF TypeInv, TypeOK, Request, GetStateLocal, GetStateGlobal, GetStateCreates, HandlerUsesLibrary,
     FreeState, HandlerThrows
<1>1. ASSUME held[f] = NoState, NEW s, held' = [held EXCEPT ![f] = s],
             \A x : x # s /\ Cached(x) => Cached(x)',
             \A x, w : x # s /\ CachedBy(x, w) => CachedBy(x, w)',
             \A x \in opened' : x \in opened \/ x = s
      PROVE  AllKept'
  <2>1. held'[f] = s /\ \A g \in Fibers \ {f} : held'[g] = held[g]
    BY <1>0, <1>1
  <2> QED
    BY <1>0, <1>1, <2>1 DEF AllKept, Kept
<1>2. CASE GetStateLocal(f)
  <2>1. PICK w \in Workers : w = HomeOf[f]
    BY <1>0
  <2>2. PICK q \in Seq(States) : q = m_state_cache_local[w] /\ q # <<>> /\ q # NoCache
    BY <1>2, <2>1 DEF GetStateLocal, HasLocalState, LocalCache, TypeInv, TypeOK
  <2>3. /\ held' = [held EXCEPT ![f] = Last(q)] /\ held[f] = NoState
        /\ UNCHANGED <<opened, m_state_cache>>
        /\ m_state_cache_local'[w] = Front(q)
        /\ \A v : v # w => m_state_cache_local'[v] = m_state_cache_local[v]
    BY <1>2, <2>1, <2>2 DEF GetStateLocal, LocalCache, Borrow, TypeInv, TypeOK
  <2>4. Front(q) \in Seq(States) /\ \A x \in ToSet(q) : x = Last(q) \/ x \in ToSet(Front(q))
    BY <2>2, PopBack
  <2>5. Front(q) # NoCache
    BY <2>4
  <2>6. \A x, v : x # Last(q) /\ CachedBy(x, v) => CachedBy(x, v)'
    BY <2>2, <2>3, <2>4, <2>5 DEF CachedBy, LocalStates
  <2>7. \A x : Cached(x) => Cached(x)'
    BY <2>3 DEF Cached
  <2> QED
    BY <1>1, <2>3, <2>6, <2>7
<1>3. CASE GetStateGlobal(f)
  <2>1. /\ m_state_cache \in Seq(States) /\ m_state_cache # <<>> /\ m_state_cache' = Front(m_state_cache)
        /\ held' = [held EXCEPT ![f] = Last(m_state_cache)] /\ held[f] = NoState
        /\ UNCHANGED <<opened, m_state_cache_local>>
    BY <1>3 DEF GetStateGlobal, Borrow, TypeInv, TypeOK
  <2>2. PICK q \in Seq(States) : q = m_state_cache
    BY <2>1
  <2>3. \A x \in ToSet(q) : x = Last(q) \/ x \in ToSet(Front(q))
    BY <2>1, <2>2, PopBack
  <2>4. \A x : x # Last(q) /\ Cached(x) => Cached(x)'
    BY <2>1, <2>2, <2>3 DEF Cached
  <2>5. \A x, w : CachedBy(x, w) => CachedBy(x, w)'
    BY <2>1 DEF CachedBy, LocalStates
  <2> QED
    BY <1>1, <2>1, <2>2, <2>4, <2>5
<1>4. CASE GetStateCreates(f)
  <2>1. /\ \A x : Cached(x)' <=> Cached(x)
        /\ \A x, w : CachedBy(x, w)' <=> CachedBy(x, w)
    BY <1>4 DEF GetStateCreates, Cached, CachedBy, LocalStates
  <2>2. CASE UNCHANGED <<opened, held>>
    BY <1>0, <2>1, <2>2 DEF AllKept, Kept
  <2>3. ASSUME NEW s \in States, opened' = opened \cup {s}, held' = [held EXCEPT ![f] = s]
        PROVE  AllKept'
    <3>1. held[f] = NoState
      BY <1>4 DEF GetStateCreates
    <3> QED
      BY <1>1, <2>1, <2>3, <3>1
  <2> QED
    BY <1>4, <2>2, <2>3, NothingCreated DEF GetStateCreates, CreateState
<1>5. CASE HandlerUsesLibrary(f)
  BY <1>5 DEF HandlerUsesLibrary, AllKept, Kept, Cached, CachedBy, LocalStates
<1>6. CASE FreeState(f)
  <2>1. PICK s \in States : s = held[f]
    BY <1>6 DEF FreeState, TypeInv, TypeOK
  <2>2. /\ NotCached(s) /\ s \in opened /\ UNCHANGED opened /\ objects' = objects \ {s}
        /\ \A g \in Fibers \ {f} : held'[g] = held[g]
    BY <1>6, <2>1 DEF FreeState, OwnInv, HeldStatesOK, TypeInv, TypeOK
  <2>3. PICK w \in Workers : w = HomeOf[f]
    BY <1>0
  <2>4. CASE /\ m_state_cache_local[w] # NoCache /\ UNCHANGED m_state_cache
             /\ m_state_cache_local' = [m_state_cache_local EXCEPT ![w] = Append(m_state_cache_local[w], s)]
    <3>1. /\ \A x : Cached(x)' <=> Cached(x)
          /\ \A v \in Workers : \A x : CachedBy(x, v)' <=> CachedBy(x, v) \/ (x = s /\ v = w)
      BY <2>2, <2>4, PushedToLocal
    <3> QED
      BY <1>0, <2>1, <2>2, <3>1 DEF AllKept, Kept
  <2>5. CASE m_state_cache' = Append(m_state_cache, s) /\ UNCHANGED m_state_cache_local
    <3>1. /\ \A x : Cached(x)' <=> Cached(x) \/ x = s
          /\ \A x, v : CachedBy(x, v)' <=> CachedBy(x, v)
      BY <2>2, <2>5, PushedToGlobal
    <3> QED
      BY <1>0, <2>1, <2>2, <3>1 DEF AllKept, Kept
  <2> QED
    BY <1>6, <2>1, <2>3, <2>4, <2>5 DEF FreeState, LocalCache
<1>7. ~HandlerThrows(f)
  BY DEF HandlerThrows
<1> QED
  BY <1>2, <1>3, <1>4, <1>5, <1>6, <1>7 DEF Request

LEMMA KeptByOthers ==
  ASSUME TypeInv, CacheExistsAtReset, CacheLife, Faults = {}, AllKept,
         (\E w \in Workers : RunPosted(w)) \/ MainStarts \/ MainStops \/ UNCHANGED vars
  PROVE  AllKept'
<1>0. /\ NoState \notin opened /\ DOMAIN m_state_cache_local = Workers
      /\ (main.Lex # NoState => main.pc = "bootstrapping")
  BY PoolAssumption DEF TypeInv, TypeOK, HoldersInv
<1>1. ASSUME UNCHANGED <<m_state_cache, m_state_cache_local, held, watcher>>,
             \A x \in opened' : (x \in opened /\ x # main.Lex) \/ x = main'.Lex
      PROVE  AllKept'
  <2>1. /\ \A x : Cached(x)' <=> Cached(x)
        /\ \A x, w : CachedBy(x, w)' <=> CachedBy(x, w)
    BY <1>1 DEF Cached, CachedBy, LocalStates
  <2> QED
    BY <1>1, <2>1 DEF AllKept, Kept
<1>2. ASSUME NEW w \in Workers, RunPosted(w) PROVE AllKept'
  <2>1. /\ UNCHANGED <<m_state_cache, held, watcher>> /\ main'.Lex = main.Lex
        /\ \A v \in Workers \ {w} : m_state_cache_local'[v] = m_state_cache_local[v]
    BY <1>2 DEF RunPosted, MakeLocalCache, ResetLocalCache, TypeInv, TypeOK, MainThread
  <2>2. /\ \A x : Cached(x)' <=> Cached(x)
        /\ \A v \in Workers \ {w}, x \in opened : CachedBy(x, v)' <=> CachedBy(x, v)
    BY <2>1 DEF Cached, CachedBy, LocalStates
  <2>3. CASE MakeLocalCache(w)
    <3>1. m_state_cache_local[w] = NoCache /\ UNCHANGED opened
      BY <1>2, <2>3 DEF RunPosted, MakeLocalCache, CacheLife, NoCacheYet
    <3>2. \A x : ~CachedBy(x, w)
      BY <3>1 DEF CachedBy, LocalStates
    <3> QED
      BY <2>1, <2>2, <3>1, <3>2 DEF AllKept, Kept
  <2>4. CASE ResetLocalCache(w)
    <3>1. m_state_cache_local[w] # NoCache
      BY <1>2, <2>4 DEF RunPosted, ResetLocalCache, CacheExistsAtReset
    <3>2. \A x \in opened' : x \in opened /\ ~CachedBy(x, w)
      BY <2>4, <3>1 DEF ResetLocalCache, DestroyStates, CachedBy, LocalStates
    <3> QED
      BY <2>1, <2>2, <3>2 DEF AllKept, Kept
  <2> QED
    BY <1>2, <2>3, <2>4 DEF RunPosted
<1>3. CASE MainStarts
  <2>1. CASE BootstrapCreates
    <3>1. UNCHANGED <<m_state_cache, m_state_cache_local, held, watcher>> /\ main.Lex = NoState
      BY <1>0, <2>1 DEF BootstrapCreates
    <3>2. UNCHANGED opened \/ \E s \in States : opened' = opened \cup {s} /\ main'.Lex = s
      BY <2>1, NothingCreated DEF BootstrapCreates, CreateState
    <3> QED
      BY <1>0, <1>1, <3>1, <3>2
  <2>2. CASE BootstrapUsesLibrary
    BY <1>1, <2>2 DEF BootstrapUsesLibrary
  <2>3. CASE BootstrapDestroys
    <3>1. UNCHANGED <<m_state_cache, m_state_cache_local, held, watcher>> /\ opened' = opened \ {main.Lex}
      BY <2>3 DEF BootstrapDestroys, DestroyStates
    <3> QED
      BY <1>1, <3>1
  <2>4. CASE StartFails \/ StartWorkers \/ \E w \in Workers : RegisterIoService(w)
    <3>1. UNCHANGED <<opened, m_state_cache, m_state_cache_local, held, watcher>> /\ main.pc # "bootstrapping"
      BY <2>4 DEF StartFails, StartWorkers, RegisterIoService, poolVars
    <3> QED
      BY <1>0, <1>1, <3>1
  <2> QED
    BY <1>3, <2>1, <2>2, <2>3, <2>4 DEF MainStarts
<1>4. CASE MainStops
  <2>1. CASE StopWorkers \/ \E w \in Workers : UnregisterIoService(w)
    <3>1. UNCHANGED <<opened, m_state_cache, m_state_cache_local, held, watcher>> /\ main.pc # "bootstrapping"
      BY <2>1 DEF StopWorkers, UnregisterIoService, poolVars
    <3> QED
      BY <1>0, <1>1, <3>1
  <2>2. CASE DestroyManager
    <3>1. /\ UNCHANGED <<m_state_cache_local, held, watcher>> /\ main'.Lex = main.Lex
          /\ \A x \in opened' : x \in opened /\ ~Cached(x)
      BY <2>2 DEF DestroyManager, DestroyStates, Cached, TypeInv, TypeOK, MainThread
    <3>2. \A x, w : CachedBy(x, w)' <=> CachedBy(x, w)
      BY <3>1 DEF CachedBy, LocalStates
    <3> QED
      BY <3>1, <3>2 DEF AllKept, Kept
  <2> QED
    BY <1>4, <2>1, <2>2 DEF MainStops
<1>5. CASE UNCHANGED vars
  BY <1>1, <1>5 DEF vars, poolVars, AllKept, Kept, Cached, CachedBy, LocalStates
<1> QED
  BY <1>2, <1>3, <1>4, <1>5

LEMMA StatesKept == ASSUME Faults = {} PROVE Spec => []AllKept
<1>1. Init => AllKept
  BY DEF Init, AllKept
<1>2. ASSUME TypeInv, OwnInv, CacheExistsAtReset, CacheLife, AllKept, [Next]_vars PROVE AllKept'
  BY <1>2, KeptByWatcher, KeptByRequest, KeptByOthers DEF Next, Terminated
<1> QED
  BY <1>1, <1>2, Types, Owned, ResetFindsCache, CachesLive, PTL DEF Spec

\* Without faults no state is lost: every open lua_State is in a cache, or a
\* request, the watcher or the bootstrap will give it back or close it, also when
\* the local caches are made, reset and destroyed.
THEOREM OpenIsOwned == ASSUME Faults = {} PROVE Spec => []NoStateLost
<1>1. TypeInv /\ AllKept => NoStateLost
  <2> SUFFICES ASSUME TypeInv, AllKept, NEW s \in opened PROVE s \in OwnedStates
    BY DEF NoStateLost
  <2>1. s # NoState /\ Kept(s)
    BY PoolAssumption DEF TypeInv, TypeOK, AllKept
  <2> QED
    BY <2>1 DEF Kept, OwnedStates, PooledStates, HeldStates, Cached, CachedBy
<1> QED
  BY <1>1, StatesKept, Types, PTL

\* Without faults the destructor leaves no state open but those of requests that
\* worker::stop cut off: all local caches are reset and the watcher has ended.
THEOREM ClosedAtExit == ASSUME Faults = {} PROVE Spec => []AllClosedAtExit
<1>1. TypeInv /\ AllKept /\ CacheLife => AllClosedAtExit
  <2> SUFFICES ASSUME TypeInv, AllKept, CacheLife, main.pc = "destroyed", NEW s \in opened
               PROVE  s \in HeldStates
    BY DEF AllClosedAtExit
  <2>1. s # NoState /\ Kept(s)
    BY PoolAssumption DEF TypeInv, TypeOK, AllKept
  <2>2. watcher.Lex = NoState /\ main.Lex = NoState
    BY DEF TypeInv, HoldersInv, CacheLife, StopInv
  <2>3. ~Cached(s) /\ \A w \in Workers : ~CachedBy(s, w)
    BY DEF CacheLife, StopInv, Cached, CachedBy, LocalStates, ToSet
  <2> QED
    BY <2>1, <2>2, <2>3 DEF Kept, HeldStates
<1> QED
  BY <1>1, StatesKept, CachesLive, Types, PTL

-----------------------------------------------------------------------------
(* How many states there are.  Away are the states the workers use, in     *)
(* their caches or for a request.  SlotsInv gives each a fiber of its own  *)
(* at its worker: a worker takes a state from elsewhere only when its      *)
(* cache is empty, so then only its other fibers' requests use states.     *)

Uses(s, w) == CachedBy(s, w) \/ \E f \in Fibers : HomeOf[f] = w /\ held[f] = s

Away == {s \in States : \E w \in Workers : Uses(s, w)}

OneHome == \A s \in States, v, w \in Workers : Uses(s, v) /\ Uses(s, w) => v = w

SlotsInv ==
  \E slot \in [Away -> Fibers] :
    /\ \A s, t \in Away : slot[s] = slot[t] => s = t
    /\ \A s \in Away, w \in Workers : Uses(s, w) => HomeOf[slot[s]] = w

\* The steps that give no state to a worker, and those that give one to a
\* worker whose cache is empty.
NoneTaken == \A s \in States, v \in Workers : Uses(s, v)' => Uses(s, v)

TakenAt(w) ==
  /\ \A s \in States : ~CachedBy(s, w)'
  /\ \A s \in States, v \in Workers \ {w} : Uses(s, v)' => Uses(s, v)

LEMMA OwnedAtOneHome == ASSUME TypeInv, OwnInv PROVE OneHome
<1> SUFFICES ASSUME NEW s \in States, NEW v \in Workers, NEW w \in Workers, Uses(s, v), Uses(s, w)
             PROVE  v = w
  BY DEF OneHome
<1>1. s # NoState
  BY PoolAssumption
<1>2. \A f \in Fibers : held[f] = s => \A u \in Workers : ~CachedBy(s, u)
  BY <1>1 DEF OwnInv, HeldStatesOK, NotCached
<1>3. CASE CachedBy(s, v)
  BY <1>2, <1>3 DEF Uses, OwnInv, CachedOnce
<1>4. CASE ~CachedBy(s, v)
  <2>1. PICK f \in Fibers : HomeOf[f] = v /\ held[f] = s
    BY <1>4 DEF Uses
  <2>2. PICK g \in Fibers : HomeOf[g] = w /\ held[g] = s
    BY <1>2, <2>1 DEF Uses
  <2> QED
    BY <1>1, <2>1, <2>2 DEF OwnInv, HeldStatesOK
<1> QED
  BY <1>3, <1>4

LEMMA SlotsStay == ASSUME SlotsInv, NoneTaken PROVE SlotsInv' /\ Away' \subseteq Away
<1>1. Away' \subseteq Away
  BY DEF NoneTaken, Away
<1>2. PICK slot \in [Away -> Fibers] :
        /\ \A s, t \in Away : slot[s] = slot[t] => s = t
        /\ \A s \in Away, w \in Workers : Uses(s, w) => HomeOf[slot[s]] = w
  BY DEF SlotsInv
<1> DEFINE new == [s \in Away' |-> slot[s]]
<1>3. new \in [Away' -> Fibers] /\ \A s \in Away' : new[s] = slot[s]
  BY <1>1, <1>2
<1>4. \A s \in Away' : s \in States
  BY DEF Away
<1> HIDE DEF new
<1>5. \A s, t \in Away' : new[s] = new[t] => s = t
  BY <1>1, <1>2, <1>3
<1>6. \A s \in Away', w \in Workers : Uses(s, w)' => HomeOf[new[s]] = w
  BY <1>1, <1>2, <1>3, <1>4 DEF NoneTaken
<1> QED
  BY <1>1, <1>3, <1>5, <1>6 DEF SlotsInv

LEMMA SlotsGrow ==
  ASSUME SlotsInv, OneHome', NEW w \in Workers, TakenAt(w)
  PROVE  SlotsInv'
<1> DEFINE Holder(x, g) == HomeOf[g] = w /\ held'[g] = x
           At == {x \in Away' : \E g \in Fibers : Holder(x, g)}
<1>1. PICK slot \in [Away -> Fibers] :
        /\ \A s, t \in Away : slot[s] = slot[t] => s = t
        /\ \A s \in Away, v \in Workers : Uses(s, v) => HomeOf[slot[s]] = v
  BY DEF SlotsInv
<1> DEFINE new == [x \in Away' |-> IF x \in At THEN CHOOSE g \in Fibers : Holder(x, g) ELSE slot[x]]
<1>2. ASSUME NEW x \in Away' PROVE x \in States /\ (x \in At <=> Uses(x, w)')
  BY <1>2 DEF Away, Uses, TakenAt
<1>3. ASSUME NEW x \in Away', x \notin At
      PROVE  x \in Away /\ \E v \in Workers \ {w} : Uses(x, v) /\ HomeOf[slot[x]] = v
  <2>1. PICK v \in Workers : Uses(x, v)'
    BY DEF Away
  <2>2. x \in States /\ v # w /\ Uses(x, v)
    BY <1>2, <1>3, <2>1 DEF TakenAt
  <2> QED
    BY <1>1, <2>2 DEF Away
<1>4. \A x \in At : new[x] \in Fibers /\ Holder(x, new[x])
  <2> SUFFICES ASSUME NEW x \in At PROVE new[x] \in Fibers /\ Holder(x, new[x])
    OBVIOUS
  <2>1. new[x] = CHOOSE g \in Fibers : Holder(x, g)
    OBVIOUS
  <2>2. \E g \in Fibers : Holder(x, g)
    OBVIOUS
  <2> QED
    BY <2>1, <2>2
<1>5. \A x \in Away' \ At : new[x] = slot[x]
  OBVIOUS
<1>6. DOMAIN new = Away' /\ new = [x \in Away' |-> new[x]] /\ At \subseteq Away'
  OBVIOUS
<1> HIDE DEF new, At
<1>7. new \in [Away' -> Fibers]
  <2>1. \A x \in Away' : new[x] \in Fibers
    BY <1>1, <1>3, <1>4, <1>5
  <2> QED
    BY <1>6, <2>1
<1>8. ASSUME NEW s \in Away', NEW t \in Away', new[s] = new[t] PROVE s = t
  <2>1. CASE s \in At /\ t \in At
    BY <1>4, <1>8, <2>1
  <2>2. CASE s \notin At /\ t \notin At
    BY <1>1, <1>3, <1>5, <1>8, <2>2
  <2>3. CASE s \in At /\ t \notin At
    BY <1>3, <1>4, <1>5, <1>8, <2>3
  <2>4. CASE s \notin At /\ t \in At
    BY <1>3, <1>4, <1>5, <1>8, <2>4
  <2> QED
    BY <2>1, <2>2, <2>3, <2>4
<1>9. ASSUME NEW s \in Away', NEW v \in Workers, Uses(s, v)' PROVE HomeOf[new[s]] = v
  <2>1. CASE s \in At
    BY <1>2, <1>4, <1>9, <2>1 DEF OneHome
  <2>2. CASE s \notin At
    <3>1. v # w /\ s \in Away /\ s \in States
      BY <1>2, <1>3, <1>9, <2>2
    <3> QED
      BY <1>1, <1>5, <1>9, <2>2, <3>1 DEF TakenAt
  <2> QED
    BY <2>1, <2>2
<1> QED
  BY <1>7, <1>8, <1>9 DEF SlotsInv

\* What a request does to the states its worker uses and to the global cache.
RequestMoves(f) ==
  \/ NoneTaken /\ UNCHANGED m_state_cache
  \/ /\ NoneTaken
     /\ Len(m_state_cache') = Len(m_state_cache) + 1
     /\ \E s \in Away : s \notin Away'
  \/ /\ TakenAt(HomeOf[f])
     /\ m_state_cache' = <<>> \/ /\ Len(m_state_cache') = Len(m_state_cache) - 1
                                 /\ \E s \in States : Away' \subseteq Away \cup {s}

LEMMA RequestMovesStates ==
  ASSUME TypeInv, OwnInv, NEW f \in Fibers, Request(f)
  PROVE  RequestMoves(f)
<1> USE PoolAssumption
<1>0. HomeOf[f] \in Workers /\ DOMAIN held = Fibers /\ DOMAIN m_state_cache_local = Workers
  BY DEF TypeInv, TypeOK
<1>1. PICK w \in Workers : w = HomeOf[f]
  BY <1>0
<1>2. ASSUME NEW s, \/ held' = [held EXCEPT ![f] = s]
                    \/ UNCHANGED held
      PROVE  \A g \in Fibers : held'[g] = held[g] \/ (g = f /\ held'[g] = s)
  BY <1>0, <1>2
<1>3. CASE GetStateLocal(f)
  <2>1. PICK q \in Seq(States) : q = m_state_cache_local[w] /\ q # <<>> /\ q # NoCache
    BY <1>1, <1>3 DEF GetStateLocal, HasLocalState, LocalCache, TypeInv, TypeOK
  <2>2. /\ m_state_cache_local'[w] = Front(q) /\ UNCHANGED m_state_cache
        /\ \A v : v # w => m_state_cache_local'[v] = m_state_cache_local[v]
        /\ \A g \in Fibers : held'[g] = held[g] \/ (g = f /\ held'[g] = Last(q))
    BY <1>0, <1>1, <1>2, <1>3, <2>1 DEF GetStateLocal, LocalCache, Borrow
  <2>3. Last(q) \in ToSet(q) /\ ToSet(Front(q)) \subseteq ToSet(q) /\ Front(q) # NoCache
    <3>1. Front(q) \in Seq(States)
      BY <2>1, PopBack
    <3> QED
      BY <2>1, <3>1, PopBack
  <2>4. \A s \in States, v \in Workers : CachedBy(s, v)' => CachedBy(s, v)
    BY <2>1, <2>2, <2>3 DEF CachedBy, LocalStates
  <2>5. CachedBy(Last(q), w)
    BY <2>1, <2>3 DEF CachedBy, LocalStates
  <2>6. NoneTaken
    BY <1>1, <2>2, <2>4, <2>5 DEF NoneTaken, Uses
  <2> QED
    BY <2>2, <2>6 DEF RequestMoves
<1>4. ASSUME ~HasLocalState(f), UNCHANGED m_state_cache_local, NEW s \in States,
             \A g \in Fibers : held'[g] = held[g] \/ (g = f /\ held'[g] = s)
      PROVE  TakenAt(w) /\ Away' \subseteq Away \cup {s}
  <2>1. /\ \A x \in States : ~CachedBy(x, w)
        /\ \A x, v : CachedBy(x, v)' <=> CachedBy(x, v)
    BY <1>1, <1>4 DEF CachedBy, LocalStates, HasLocalState, LocalCache, ToSet
  <2>2. \A x \in States, v \in Workers : Uses(x, v)' => Uses(x, v) \/ (x = s /\ v = w)
    BY <1>1, <1>4, <2>1 DEF Uses
  <2> QED
    BY <2>1, <2>2 DEF TakenAt, Away
<1>5. CASE GetStateGlobal(f)
  <2>1. PICK q \in Seq(States) : q = m_state_cache /\ q # <<>>
    BY <1>5 DEF GetStateGlobal, TypeInv, TypeOK
  <2>2. Last(q) \in States /\ Len(Front(q)) = Len(q) - 1
    BY <2>1, PopBack
  <2>3. \A g \in Fibers : held'[g] = held[g] \/ (g = f /\ held'[g] = Last(q))
    BY <1>2, <1>5, <2>1 DEF GetStateGlobal, Borrow
  <2>4. TakenAt(w) /\ Away' \subseteq Away \cup {Last(q)}
    BY <1>4, <1>5, <2>2, <2>3 DEF GetStateGlobal
  <2>5. Len(m_state_cache') = Len(m_state_cache) - 1
    BY <1>5, <2>1, <2>2 DEF GetStateGlobal
  <2> QED
    BY <1>1, <2>2, <2>4, <2>5 DEF RequestMoves
<1>6. CASE GetStateCreates(f)
  <2>1. \E s \in States \cup {NoState} : \/ held' = [held EXCEPT ![f] = s] /\ s \in States
                                         \/ UNCHANGED held
    BY <1>6 DEF GetStateCreates
  <2>2. m_state_cache' = <<>> /\ UNCHANGED m_state_cache /\ ~HasLocalState(f) /\ UNCHANGED m_state_cache_local
    BY <1>6 DEF GetStateCreates
  <2>3. CASE UNCHANGED held
    BY <2>2, <2>3 DEF RequestMoves, NoneTaken, Uses, CachedBy, LocalStates
  <2>4. ASSUME NEW s \in States, held' = [held EXCEPT ![f] = s] PROVE RequestMoves(f)
    <3>1. TakenAt(w)
      BY <1>2, <1>4, <2>2, <2>4
    <3> QED
      BY <1>1, <2>2, <3>1 DEF RequestMoves
  <2> QED
    BY <2>1, <2>3, <2>4
<1>7. CASE HandlerUsesLibrary(f)
  BY <1>7 DEF HandlerUsesLibrary, RequestMoves, NoneTaken, Uses, CachedBy, LocalStates
<1>8. ASSUME held' = [held EXCEPT ![f] = NoState]
      PROVE  \A x \in States, g \in Fibers : held'[g] = x => held[g] = x /\ g # f
  BY <1>0, <1>8
<1>9. CASE FreeState(f)
  <2>1. PICK s \in States : s = held[f]
    BY <1>9 DEF FreeState, TypeInv, TypeOK
  <2>2. Uses(s, w) /\ s \in Away /\ s # NoState
    BY <1>1, <2>1 DEF Uses, Away
  <2>3. \A x \in States, g \in Fibers : held'[g] = x => held[g] = x /\ g # f
    BY <1>8, <1>9 DEF FreeState
  <2>4. CASE LocalCache(f) # NoCache
    <3>1. PICK q \in Seq(States) : q = m_state_cache_local[w] /\ q # NoCache
      BY <1>1, <2>4 DEF LocalCache, TypeInv, TypeOK
    <3>2. /\ m_state_cache_local'[w] = Append(q, s) /\ UNCHANGED m_state_cache
          /\ \A v \in Workers \ {w} : m_state_cache_local'[v] = m_state_cache_local[v]
      <4>1. m_state_cache_local' = [m_state_cache_local EXCEPT ![w] = Append(q, s)]
        BY <1>1, <1>9, <2>1, <2>4, <3>1 DEF FreeState, LocalCache
      <4>2. UNCHANGED m_state_cache
        BY <1>9, <2>4 DEF FreeState
      <4> QED
        BY <1>0, <1>1, <4>1, <4>2
    <3>3. ToSet(Append(q, s)) = ToSet(q) \cup {s}
      BY <3>1, PushBack
    <3>4. \A x \in States, v \in Workers : CachedBy(x, v)' => CachedBy(x, v) \/ (x = s /\ v = w)
      BY <3>1, <3>2, <3>3 DEF CachedBy, LocalStates
    <3>5. NoneTaken
      BY <2>2, <2>3, <3>4 DEF NoneTaken, Uses
    <3> QED
      BY <3>2, <3>5 DEF RequestMoves
  <2>5. CASE LocalCache(f) = NoCache
    <3>1. m_state_cache' = Append(m_state_cache, s) /\ UNCHANGED m_state_cache_local
      BY <1>9, <2>1, <2>5 DEF FreeState
    <3>2. Len(m_state_cache') = Len(m_state_cache) + 1
      BY <3>1 DEF TypeInv, TypeOK
    <3>3. \A x, v : CachedBy(x, v)' <=> CachedBy(x, v)
      BY <3>1 DEF CachedBy, LocalStates
    <3>4. NoneTaken
      BY <2>3, <3>3 DEF NoneTaken, Uses
    <3>5. \A v \in Workers : ~Uses(s, v)'
      <4>1. \A v \in Workers : ~CachedBy(s, v)
        BY <2>1, <2>2 DEF OwnInv, HeldStatesOK, NotCached
      <4>2. \A g \in Fibers : held'[g] # s
        BY <2>1, <2>2, <2>3 DEF OwnInv, HeldStatesOK
      <4> QED
        BY <3>3, <4>1, <4>2 DEF Uses
    <3>6. s \notin Away'
      BY <3>5 DEF Away
    <3> QED
      BY <2>2, <3>2, <3>4, <3>6 DEF RequestMoves
  <2> QED
    BY <2>4, <2>5
<1>10. CASE HandlerThrows(f)
  <2>1. /\ \A x \in States, g \in Fibers : held'[g] = x => held[g] = x
        /\ UNCHANGED <<m_state_cache, m_state_cache_local>>
    BY <1>8, <1>10 DEF HandlerThrows, poolVars
  <2> QED
    BY <2>1 DEF RequestMoves, NoneTaken, Uses, CachedBy, LocalStates
<1> QED
  BY <1>3, <1>5, <1>6, <1>7, <1>9, <1>10 DEF Request

\* The other threads give the workers no state.
LEMMA OthersTakeNone ==
  ASSUME TypeInv, CacheExistsAtReset,
         Watcher \/ (\E w \in Workers : RunPosted(w)) \/ MainStarts \/ MainStops \/ UNCHANGED vars
  PROVE  /\ NoneTaken
         /\ Watcher \/ (UNCHANGED watcher /\ m_state_cache' \in {m_state_cache, <<>>})
<1>1. ASSUME UNCHANGED <<m_state_cache_local, held>> PROVE NoneTaken
  BY <1>1 DEF NoneTaken, Uses, CachedBy, LocalStates
<1>2. CASE Watcher
  <2>1. UNCHANGED <<m_state_cache_local, held>>
    BY <1>2 DEF Watcher, WatcherCheck, WatcherCount, WatcherCreate, WatcherPush, WatcherRoundEnds, poolVars
  <2> QED
    BY <1>1, <1>2, <2>1
<1>3. ASSUME NEW w \in Workers, RunPosted(w)
      PROVE  NoneTaken /\ UNCHANGED <<watcher, m_state_cache>>
  <2>1. /\ UNCHANGED <<watcher, m_state_cache, held>>
        /\ m_state_cache_local'[w] \in {NoCache, <<>>}
        /\ \A v \in Workers \ {w} : m_state_cache_local'[v] = m_state_cache_local[v]
    BY <1>3 DEF RunPosted, MakeLocalCache, ResetLocalCache, TypeInv, TypeOK
  <2>2. \A s \in States, v \in Workers : CachedBy(s, v)' => CachedBy(s, v)
    BY <2>1 DEF CachedBy, LocalStates, ToSet
  <2> QED
    BY <2>1, <2>2 DEF NoneTaken, Uses
<1>4. CASE MainStarts
  <2>1. UNCHANGED <<m_state_cache_local, held, watcher, m_state_cache>>
    BY <1>4 DEF MainStarts, BootstrapCreates, BootstrapUsesLibrary, BootstrapDestroys, StartFails,
       StartWorkers, RegisterIoService, poolVars
  <2> QED
    BY <1>1, <2>1
<1>5. CASE MainStops
  <2>1. UNCHANGED <<m_state_cache_local, held, watcher>> /\ m_state_cache' \in {m_state_cache, <<>>}
    BY <1>5 DEF MainStops, UnregisterIoService, StopWorkers, DestroyManager, poolVars
  <2> QED
    BY <1>1, <2>1
<1>6. CASE UNCHANGED vars
  BY <1>1, <1>6 DEF vars, poolVars
<1> QED
  BY <1>2, <1>3, <1>4, <1>5, <1>6

\* The states the watcher still wants count as pooled: then neither its count
\* nor anything that happens while it fills the cache exceeds the bound.
Wanted == IF BufferSize > 0 THEN BufferSize ELSE 0

TotalInv ==
  /\ Len(m_state_cache) + (IF watcher.i > 0 THEN watcher.i ELSE 0) + Cardinality(Away)
       <= Wanted + Cardinality(Fibers)
  /\ watcher.i <= Wanted
  /\ watcher.pc = "push" => watcher.i > 0

\* There are finitely many fibers, and with them the states on both sides of
\* lua.statebuffer fit half of the counter's range (2^31 in the build): the
\* watcher's difference, back in an int, is negative when it should be.
BufferFits ==
  /\ IsFiniteSet(Fibers)
  /\ 2 * BufferSize < UIntRange
  /\ 2 * (Wanted + Cardinality(Fibers) - BufferSize) <= UIntRange

LEMMA SlotsSuffice ==
  ASSUME IsFiniteSet(Fibers), NEW A, NEW slot \in [A -> Fibers],
         \A s, t \in A : slot[s] = slot[t] => s = t
  PROVE  /\ IsFiniteSet(A) /\ Cardinality(A) \in Nat
         /\ Cardinality(Fibers) \in Nat /\ Cardinality(A) <= Cardinality(Fibers)
<1>1. slot \in Injection(A, Fibers)
  BY DEF Injection, IsInjective
<1>2. IsFiniteSet(A) /\ Cardinality(A) <= Cardinality(Fibers)
  BY <1>1, FS_Injection
<1> QED
  BY <1>2, FS_CardinalityType

LEMMA AwayIsBounded ==
  ASSUME SlotsInv, IsFiniteSet(Fibers)
  PROVE  /\ IsFiniteSet(Away) /\ Cardinality(Away) \in Nat
         /\ Cardinality(Fibers) \in Nat /\ Cardinality(Away) <= Cardinality(Fibers)
BY SlotsSuffice DEF SlotsInv

\* While the pool is within its bound, nothing wraps.
LEMMA MissingIsDifference ==
  ASSUME BufferFits, NEW n \in Nat, n <= Wanted + Cardinality(Fibers)
  PROVE  ToInt(ToUInt(BufferSize - n)) = BufferSize - n
<1>1. PICK d \in Int : d = BufferSize - n
  BY PoolAssumption
<1>2. PICK F \in Nat : F = Cardinality(Fibers)
  BY FS_CardinalityType DEF BufferFits
<1>3. 2 * d < UIntRange /\ 2 * (0 - d) <= UIntRange
  BY <1>1, <1>2, PoolAssumption DEF BufferFits, Wanted
<1>4. CASE d >= 0
  <2>1. d % UIntRange = d
    BY <1>3, <1>4, PoolAssumption
  <2> QED
    BY <1>1, <1>3, <2>1 DEF ToInt, ToUInt
<1>5. CASE d < 0
  <2>1. d % UIntRange = d + UIntRange
    BY <1>3, <1>5, PoolAssumption
  <2>2. ~(2 * (d + UIntRange) < UIntRange)
    BY <1>3, PoolAssumption
  <2> QED
    BY <1>1, <2>1, <2>2, PoolAssumption DEF ToInt, ToUInt
<1> QED
  BY <1>4, <1>5

LEMMA TotalAtRequest ==
  ASSUME BufferFits, TypeInv, SlotsInv, SlotsInv', TotalInv, UNCHANGED watcher,
         NEW f \in Fibers, RequestMoves(f)
  PROVE  TotalInv'
<1>1. PICK n \in Nat, a \in Nat, b \in Nat, F \in Nat :
        /\ n = Len(m_state_cache) /\ F = Cardinality(Fibers)
        /\ a = Cardinality(Away) /\ b = Cardinality(Away)' /\ b <= F
  <2>1. Cardinality(Away)' \in Nat /\ Cardinality(Away)' <= Cardinality(Fibers)
    BY SlotsSuffice DEF SlotsInv, BufferFits
  <2> QED
    BY <2>1, AwayIsBounded DEF BufferFits, TypeInv, TypeOK
<1>2. IsFiniteSet(Away)
  BY AwayIsBounded DEF BufferFits
<1>3. Wanted \in Nat
  BY PoolAssumption DEF Wanted
<1>4. watcher.i \in Int
  BY DEF TypeInv, TypeOK, WatcherThread
<1>5. CASE NoneTaken /\ UNCHANGED m_state_cache
  <2>1. b <= a
    BY <1>1, <1>2, <1>5, SlotsStay, FS_Subset
  <2> QED
    BY <1>1, <1>3, <1>4, <1>5, <2>1 DEF TotalInv
<1>6. ASSUME NoneTaken, Len(m_state_cache') = Len(m_state_cache) + 1, NEW s \in Away, s \notin Away'
      PROVE  TotalInv'
  <2>1. Away' \subseteq Away \ {s}
    BY <1>6, SlotsStay
  <2>2. IsFiniteSet(Away \ {s}) /\ Cardinality(Away \ {s}) = a - 1
    BY <1>1, <1>2, FS_RemoveElement
  <2>3. b <= a - 1
    BY <1>1, <2>1, <2>2, FS_Subset
  <2> QED
    BY SMTT(20), <1>1, <1>3, <1>4, <1>6, <2>3 DEF TotalInv
<1>7. CASE m_state_cache' = <<>>
  <2>1. Len(m_state_cache') = 0
    BY <1>7
  <2> QED
    BY <1>1, <1>3, <1>4, <2>1 DEF TotalInv
<1>8. ASSUME Len(m_state_cache') = Len(m_state_cache) - 1,
             NEW s \in States, Away' \subseteq Away \cup {s}
      PROVE  TotalInv'
  <2>1. PICK c \in Nat : c = Cardinality(Away \cup {s}) /\ IsFiniteSet(Away \cup {s})
    BY <1>2, FS_AddElement, FS_CardinalityType
  <2>2. c \in {a, a + 1}
    BY <1>1, <1>2, <2>1, FS_AddElement
  <2>3. b <= c
    BY <1>1, <1>8, <2>1, FS_Subset
  <2>4. Len(m_state_cache') = n - 1 /\ b <= a + 1
    BY <1>1, <1>8, <2>2, <2>3
  <2> QED
    BY SMTT(20), <1>1, <1>3, <1>4, <2>4 DEF TotalInv
<1> QED
  BY <1>5, <1>6, <1>7, <1>8 DEF RequestMoves

LEMMA TotalElsewhere ==
  ASSUME BufferFits, TypeInv, SlotsInv, TotalInv, NoneTaken,
         Watcher \/ (UNCHANGED watcher /\ m_state_cache' \in {m_state_cache, <<>>})
  PROVE  TotalInv'
<1>1. PICK n \in Nat, a \in Nat, b \in Nat, F \in Nat :
        /\ n = Len(m_state_cache) /\ F = Cardinality(Fibers)
        /\ a = Cardinality(Away) /\ b = Cardinality(Away)' /\ b <= a /\ a <= F
  <2>1. IsFiniteSet(Away) /\ SlotsInv' /\ Away' \subseteq Away
    BY AwayIsBounded, SlotsStay DEF BufferFits
  <2>2. Cardinality(Away)' \in Nat /\ Cardinality(Away)' <= Cardinality(Away)
    BY <2>1, FS_Subset, FS_CardinalityType
  <2> QED
    BY <2>2, AwayIsBounded DEF BufferFits, TypeInv, TypeOK
<1>2. /\ Wanted \in Nat /\ BufferSize \in Int /\ (Wanted = BufferSize \/ (Wanted = 0 /\ BufferSize <= 0))
  BY PoolAssumption DEF Wanted
<1>3. PICK i \in Int : i = watcher.i
  BY DEF TypeInv, TypeOK, WatcherThread
<1>4. CASE UNCHANGED watcher /\ m_state_cache' \in {m_state_cache, <<>>}
  <2>1. Len(m_state_cache') \in {n, 0}
    BY <1>1, <1>4
  <2> QED
    BY SMTT(20), <1>1, <1>2, <1>3, <1>4, <2>1 DEF TotalInv
<1>5. CASE WatcherCheck
  <2>1. /\ watcher'.i = i /\ watcher'.pc # "push" /\ UNCHANGED m_state_cache
    BY <1>3, <1>5 DEF WatcherCheck, poolVars, TypeInv, TypeOK, WatcherThread
  <2> QED
    BY <1>1, <1>2, <1>3, <2>1 DEF TotalInv
<1>6. CASE WatcherCount
  <2>0. n + a <= Wanted + F
    BY SMTT(20), <1>1, <1>2, <1>3 DEF TotalInv
  <2>1. n <= Wanted + F
    BY <1>1, <1>2, <2>0
  <2>2. MissingStates = BufferSize - n
    BY <1>1, <2>1, MissingIsDifference DEF MissingStates
  <2>3. watcher'.i = BufferSize - n /\ watcher'.pc # "push" /\ UNCHANGED m_state_cache
    BY <1>6, <2>2 DEF WatcherCount, poolVars
  <2>4. Len(m_state_cache') = n
    BY <1>1, <2>3
  <2>5. BufferSize - n <= Wanted
    BY <1>1, <1>2
  <2>6. n + (IF BufferSize - n > 0 THEN BufferSize - n ELSE 0) + b <= Wanted + F
    BY SMTT(20), <1>1, <1>2, <1>3, <2>0
  <2> QED
    BY <1>1, <2>3, <2>4, <2>5, <2>6 DEF TotalInv
<1>7. CASE WatcherCreate \/ WatcherRoundEnds
  <2>1. /\ UNCHANGED m_state_cache
        /\ \/ watcher'.i = i /\ i > 0
           \/ watcher'.i = 0 /\ watcher'.pc # "push"
    BY <1>3, <1>7 DEF WatcherCreate, WatcherRoundEnds, poolVars
  <2> QED
    BY SMTT(20), <1>1, <1>2, <1>3, <2>1 DEF TotalInv
<1>8. CASE WatcherPush
  <2>1. /\ watcher'.i = i - 1 /\ watcher'.pc # "push" /\ i > 0
        /\ m_state_cache' = Append(m_state_cache, watcher.Lex)
    BY <1>3, <1>8 DEF WatcherPush, TotalInv
  <2>2. Len(m_state_cache') = n + 1
    BY <1>1, <2>1 DEF TypeInv, TypeOK
  <2>3. n + i + a <= Wanted + F /\ i <= Wanted
    BY <1>1, <1>2, <1>3, <2>1 DEF TotalInv
  <2>4. (n + 1) + (IF i - 1 > 0 THEN i - 1 ELSE 0) + b <= Wanted + F
    <3>1. i > 0 /\ (IF i - 1 > 0 THEN i - 1 ELSE 0) = i - 1
      BY <1>3, <2>1
    <3>2. \A W \in Nat : n + i + a <= W + F => (n + 1) + (i - 1) + b <= W + F
      BY <1>1
    <3>3. (n + 1) + (i - 1) + b <= Wanted + F
      BY <1>2, <2>3, <3>2
    <3> QED
      BY <3>1, <3>3
  <2>5. i - 1 <= Wanted
    BY <1>2, <1>3, <2>3
  <2> QED
    BY <1>1, <2>1, <2>2, <2>4, <2>5 DEF TotalInv
<1> QED
  BY <1>4, <1>5, <1>6, <1>7, <1>8 DEF Watcher

LEMMA BoundHolds == ASSUME BufferFits PROVE Spec => [](SlotsInv /\ TotalInv)
<1>1. ASSUME Init PROVE SlotsInv /\ TotalInv
  <2>1. Away = {}
    BY <1>1, PoolAssumption DEF Init, Away, Uses, CachedBy, LocalStates
  <2>2. SlotsInv
    <3>1. [s \in {} |-> CHOOSE f \in Fibers : TRUE] \in [{} -> Fibers]
      OBVIOUS
    <3> QED
      BY <2>1, <3>1 DEF SlotsInv
  <2>3. Cardinality(Away) = 0
    BY <2>1, FS_EmptySet, Zenon
  <2>4. Len(m_state_cache) = 0 /\ watcher.i = 0 /\ watcher.pc = "check"
    BY <1>1 DEF Init
  <2>5. Wanted \in Nat /\ Cardinality(Fibers) \in Nat
    BY PoolAssumption, FS_CardinalityType DEF Wanted, BufferFits
  <2> QED
    BY <2>2, <2>3, <2>4, <2>5 DEF TotalInv
<1>2. ASSUME TypeInv, OwnInv, OneHome', CacheExistsAtReset, SlotsInv, TotalInv, [Next]_vars
      PROVE  (SlotsInv /\ TotalInv)'
  <2>1. ASSUME NEW f \in Fibers, Request(f) PROVE (SlotsInv /\ TotalInv)'
    <3>1. RequestMoves(f)
      BY <1>2, <2>1, RequestMovesStates
    <3>2. HomeOf[f] \in Workers
      BY PoolAssumption
    <3>3. SlotsInv'
      <4>1. CASE NoneTaken
        BY <1>2, <4>1, SlotsStay
      <4>2. CASE TakenAt(HomeOf[f])
        BY <1>2, <3>2, <4>2, SlotsGrow
      <4> QED
        BY <3>1, <4>1, <4>2 DEF RequestMoves
    <3>4. UNCHANGED watcher
      BY <2>1 DEF Request, GetStateLocal, GetStateGlobal, GetStateCreates, HandlerUsesLibrary, FreeState,
         HandlerThrows
    <3> QED
      BY <1>2, <3>1, <3>3, <3>4, TotalAtRequest
  <2>2. ASSUME Watcher \/ (\E w \in Workers : RunPosted(w)) \/ MainStarts \/ MainStops \/ UNCHANGED vars
        PROVE  (SlotsInv /\ TotalInv)'
    <3>1. /\ NoneTaken
          /\ Watcher \/ (UNCHANGED watcher /\ m_state_cache' \in {m_state_cache, <<>>})
      BY <1>2, <2>2, OthersTakeNone
    <3> QED
      BY <1>2, <3>1, SlotsStay, TotalElsewhere
  <2> QED
    BY <1>2, <2>1, <2>2 DEF Next, Terminated
<1>3. TypeInv /\ OwnInv => OneHome
  BY OwnedAtOneHome
<1> QED
  BY <1>1, <1>2, <1>3, Types, Owned, ResetFindsCache, PTL DEF Spec

\* A vector has at most as many different elements as it is long.
LEMMA FewElements ==
  ASSUME NEW S, NEW q \in Seq(S)
  PROVE  IsFiniteSet(ToSet(q)) /\ Cardinality(ToSet(q)) <= Len(q) /\ Cardinality(ToSet(q)) \in Nat
<1>1. Len(q) \in Nat /\ DOMAIN q = 1 .. Len(q) /\ q \in [1 .. Len(q) -> S]
  OBVIOUS
<1>2. q \in [1 .. Len(q) -> ToSet(q)]
  BY <1>1 DEF ToSet
<1>3. q \in Surjection(1 .. Len(q), ToSet(q))
  BY <1>1, <1>2 DEF Surjection, ToSet
<1>4. IsFiniteSet(1 .. Len(q)) /\ Cardinality(1 .. Len(q)) = Len(q)
  BY <1>1, FS_Interval
<1>5. IsFiniteSet(ToSet(q)) /\ Cardinality(ToSet(q)) <= Len(q)
  BY <1>3, <1>4, FS_Surjection
<1> QED
  BY <1>5, FS_CardinalityType

\* The pool and its requests never own more states than lua.statebuffer and one
\* per fiber, and a worker never more than its fibers: while that holds the
\* watcher's unsigned difference (lua_state_manager.cpp) never wraps to a number
\* of states it would create.
THEOREM PoolStaysBounded == ASSUME BufferFits PROVE Spec => []PoolBounded
<1>1. ASSUME TypeInv, SlotsInv, TotalInv PROVE PoolBounded
  <2> USE <1>1
  <2>1. PICK n \in Nat, a \in Nat, F \in Nat :
          /\ n = Len(m_state_cache) /\ F = Cardinality(Fibers) /\ a = Cardinality(Away)
    BY AwayIsBounded DEF BufferFits, TypeInv, TypeOK
  <2> DEFINE pool == ToSet(m_state_cache)
             mine == {watcher.Lex} \ {NoState}
  <2>2. PooledStates \cup HeldStates = pool \cup Away
    <3>1. \A x : x \in PooledStates => x \in pool \cup Away
      BY CacheElements DEF Cached, Away, Uses
    <3>2. \A x : x \in HeldStates => x \in Away
      BY PoolAssumption DEF HeldStates, Away, Uses, TypeInv, TypeOK
    <3>3. \A x : x \in Away => x \in PooledStates \cup HeldStates
      BY CacheElements, PoolAssumption DEF Away, Uses, HeldStates
    <3>4. \A x : x \in pool => x \in PooledStates
      BY DEF PooledStates
    <3> QED
      BY <3>1, <3>2, <3>3, <3>4
  <2>3. IsFiniteSet(pool) /\ Cardinality(pool) <= n /\ Cardinality(pool) \in Nat
    BY <2>1, FewElements DEF TypeInv, TypeOK
  <2>4. IsFiniteSet(Away)
    BY AwayIsBounded DEF BufferFits
  <2> HIDE DEF pool
  <2>5. IsFiniteSet(pool \cup Away) /\ Cardinality(pool \cup Away) <= n + a
        /\ Cardinality(pool \cup Away) \in Nat
    <3>1. /\ IsFiniteSet(pool \cup Away)
          /\ Cardinality(pool \cup Away) = Cardinality(pool) + a - Cardinality(pool \cap Away)
      BY <2>1, <2>3, <2>4, FS_Union
    <3>2. Cardinality(pool \cap Away) \in Nat
      BY <2>3, FS_Intersection, FS_CardinalityType
    <3>3. Cardinality(pool \cup Away) \in Nat
      BY <3>1, FS_CardinalityType
    <3> QED
      BY <2>3, <3>1, <3>2, <3>3
  <2>6. Wanted \in Nat /\ watcher.i \in Int
    BY PoolAssumption DEF Wanted, TypeInv, TypeOK, WatcherThread
  <2>7. Cardinality(pool \cup Away \cup mine) <= Wanted + F
    <3>1. CASE watcher.pc = "push"
      <4>1. n + a + 1 <= Wanted + F
        BY SMTT(20), <2>1, <2>6, <3>1 DEF TotalInv
      <4>5. PICK k \in Nat : k = Cardinality(pool \cup Away) /\ k <= n + a
        BY <2>5
      <4>2. pool \cup Away \cup mine = pool \cup Away \cup {watcher.Lex}
        BY <3>1 DEF TypeInv, HoldersInv
      <4>3. Cardinality(pool \cup Away \cup {watcher.Lex}) \in {k, k + 1}
        <5> DEFINE all == pool \cup Away
        <5>1. IsFiniteSet(all) /\ Cardinality(all) = k
          BY <2>5, <4>5
        <5> HIDE DEF all
        <5>2. Cardinality(all \cup {watcher.Lex}) \in {k, k + 1}
          BY <5>1, FS_AddElement
        <5> QED
          BY <5>2 DEF all
      <4>4. Cardinality(pool \cup Away \cup mine) \in {k, k + 1}
        <5> HIDE DEF mine
        <5> QED
          BY <4>2, <4>3, Zenon
      <4> QED
        BY <2>1, <2>6, <4>1, <4>4, <4>5
    <3>2. CASE watcher.pc # "push"
      <4>1. n + a <= Wanted + F
        BY <2>1, <2>6, <3>2 DEF TotalInv
      <4>2. pool \cup Away \cup mine = pool \cup Away
        BY <3>2 DEF TypeInv, HoldersInv
      <4>3. PICK k \in Nat : k = Cardinality(pool \cup Away) /\ k <= n + a
        BY <2>5
      <4>4. Cardinality(pool \cup Away \cup mine) = k
        <5> HIDE DEF mine
        <5> QED
          BY <4>2, <4>3, Zenon
      <4> QED
        BY <2>1, <2>6, <4>1, <4>3, <4>4
    <3> QED
      BY <3>1, <3>2
  <2>8. ASSUME NEW w \in Workers
        PROVE  LET m == {f \in Fibers : HomeOf[f] = w}
               IN Cardinality(LocalStates(w) \cup ({held[f] : f \in m} \ {NoState})) <= Cardinality(m)
    <3> DEFINE m == {f \in Fibers : HomeOf[f] = w}
               used == LocalStates(w) \cup ({held[f] : f \in m} \ {NoState})
    <3>1. PICK slot \in [Away -> Fibers] :
            /\ \A s, t \in Away : slot[s] = slot[t] => s = t
            /\ \A s \in Away, v \in Workers : Uses(s, v) => HomeOf[slot[s]] = v
      BY DEF SlotsInv
    <3>2. \A s \in used : s \in States /\ Uses(s, w)
      BY CacheElements DEF CachedBy, Uses, TypeInv, TypeOK
    <3>3. \A s \in used : s \in Away /\ slot[s] \in m
      <4> HIDE DEF used
      <4> QED
        BY <3>1, <3>2 DEF Away
    <3>4. IsFiniteSet(m)
      BY FS_Subset DEF BufferFits
    <3> HIDE DEF used, m
    <3>5. [s \in used |-> slot[s]] \in Injection(used, m)
      BY <3>1, <3>3 DEF Injection, IsInjective
    <3>6. Cardinality(used) <= Cardinality(m)
      BY <3>4, <3>5, FS_Injection
    <3> QED
      BY <3>6 DEF used, m
  <2> QED
    BY <2>1, <2>2, <2>7, <2>8 DEF PoolBounded, Wanted
<1> QED
  BY <1>1, Types, BoundHolds, PTL

=============================================================================
