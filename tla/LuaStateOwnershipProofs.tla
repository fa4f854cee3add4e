----------------------- MODULE LuaStateOwnershipProofs ----------------------
(***************************************************************************)
(* Proof that LuaStatePool implements StateOwnership: every step hands a   *)
(* state over to one of the owners it may go to, or destroys one cache.    *)
(***************************************************************************)
EXTENDS LuaStatePoolProofs

\* The handler of register_io_service finds no cache that it would replace.
MakeInv ==
  /\ \A w \in Workers : posted[w] \in {<<"make">>, <<"make", "reset">>} =>
                         m_state_cache_local[w] = NoCache
  /\ main.pc \in {"bootstrap", "bootstrapping", "starting", "registering"} =>
       \A w \in Workers \ m_iosvcs : m_state_cache_local[w] = NoCache

PoolInv == TypeInv /\ OwnInv /\ PostedInv /\ MakeInv

-----------------------------------------------------------------------------
(* Who the owner of a state is.                                            *)

NoOwner(s) ==
  /\ s # watcher.Lex /\ s # main.Lex /\ NotCached(s)
  /\ \A f \in Fibers : held[f] # s

OwnerFacts(s) ==
  /\ s \notin opened => Owner(s) = <<"nobody">>
  /\ s = watcher.Lex => Owner(s) = <<"watcher">>
  /\ s = main.Lex => Owner(s) = <<"main">>
  /\ \A f \in Fibers : held[f] = s => Owner(s) = <<"fiber", f>>
  /\ Cached(s) => Owner(s) = <<"pool">>
  /\ \A w \in Workers : CachedBy(s, w) => Owner(s) = <<"worker", w>>
  /\ s \in opened /\ NoOwner(s) => Owner(s) = <<"lost">>

LEMMA OwnerKnown == PoolInv => \A s \in States : OwnerFacts(s)
<1> SUFFICES ASSUME PoolInv, NEW s \in States PROVE OwnerFacts(s)
  OBVIOUS
<1> USE PoolAssumption
<1>0. s # NoState /\ TypeInv /\ OwnInv
  BY DEF PoolInv
<1> DEFINE Free == /\ s \notin HeldStates /\ s \notin ToSet(m_state_cache)
                  /\ \A w \in Workers : s \notin LocalStates(w)
<1>1. CASE s \notin opened
  <2>1. NotCached(s) /\ (\A f \in Fibers : held[f] # s) /\ watcher.Lex # s /\ main.Lex # s
    BY <1>0, <1>1, NewStateIsFree
  <2>2. Free
    BY <2>1 DEF NotCached, Cached, CachedBy, HeldStates
  <2>3. Owner(s) = <<"nobody">>
    BY <1>1, <2>1, <2>2 DEF Owner
  <2> QED BY <1>1, <2>1, <2>3 DEF OwnerFacts, NotCached
<1>2. CASE s = watcher.Lex
  <2>1. NotCached(s) /\ (\A f \in Fibers : held[f] # s) /\ main.Lex # s /\ s \in opened
    BY <1>0, <1>2 DEF OwnInv, ThreadStatesOK, HeldStatesOK
  <2>2. Free
    BY <2>1 DEF NotCached, Cached, CachedBy, HeldStates
  <2>3. Owner(s) = <<"watcher">>
    BY <1>2, <2>1, <2>2 DEF Owner
  <2> QED BY <1>2, <2>1, <2>3 DEF OwnerFacts, NotCached, NoOwner
<1>3. CASE s = main.Lex
  <2>1. NotCached(s) /\ (\A f \in Fibers : held[f] # s) /\ watcher.Lex # s /\ s \in opened
    BY <1>0, <1>3 DEF OwnInv, ThreadStatesOK, HeldStatesOK
  <2>2. Free
    BY <2>1 DEF NotCached, Cached, CachedBy, HeldStates
  <2>3. Owner(s) = <<"main">>
    BY <1>3, <2>1, <2>2 DEF Owner
  <2> QED BY <1>3, <2>1, <2>3 DEF OwnerFacts, NotCached, NoOwner
<1>4. ASSUME NEW f \in Fibers, held[f] = s
      PROVE  OwnerFacts(s)
  <2>1. /\ s \in opened /\ NotCached(s) /\ s # watcher.Lex /\ s # main.Lex
        /\ \A g \in Fibers : held[g] = s => g = f
    BY <1>0, <1>4 DEF OwnInv, HeldStatesOK
  <2>2. (CHOOSE g \in Fibers : held[g] = s) = f
    BY <1>4, <2>1
  <2>3. s \in HeldStates
    BY <1>0, <1>4 DEF HeldStates
  <2>4. s \notin ToSet(m_state_cache) /\ \A w \in Workers : s \notin LocalStates(w)
    BY <2>1 DEF NotCached, Cached, CachedBy
  <2>5. Owner(s) = <<"fiber", f>>
    BY <2>1, <2>2, <2>3, <2>4 DEF Owner
  <2> QED BY <1>4, <2>1, <2>5 DEF OwnerFacts, NotCached, NoOwner
<1>5. ASSUME s \in opened, s # watcher.Lex, s # main.Lex, \A f \in Fibers : held[f] # s
      PROVE  OwnerFacts(s)
  <2>1. s \notin HeldStates
    BY <1>5 DEF HeldStates
  <2>2. CASE Cached(s)
    <3>1. \A w \in Workers : ~CachedBy(s, w)
      BY <1>0, <2>2 DEF OwnInv, CachedOnce
    <3>2. Owner(s) = <<"pool">>
      BY <1>5, <2>1, <2>2, <3>1 DEF Owner, Cached, CachedBy
    <3> QED BY <1>5, <2>2, <3>1, <3>2 DEF OwnerFacts, NoOwner, NotCached
  <2>3. ASSUME NEW w \in Workers, CachedBy(s, w) PROVE OwnerFacts(s)
    <3>1. ~Cached(s) /\ \A v \in Workers : CachedBy(s, v) => v = w
      BY <1>0, <2>3 DEF OwnInv, CachedOnce
    <3>2. (CHOOSE v \in Workers : s \in LocalStates(v)) = w
      BY <2>3, <3>1 DEF CachedBy
    <3>3. Owner(s) = <<"worker", w>>
      BY <1>5, <2>1, <2>3, <3>1, <3>2 DEF Owner, Cached, CachedBy
    <3> QED BY <1>5, <2>3, <3>1, <3>3 DEF OwnerFacts, NoOwner, NotCached
  <2>4. CASE NotCached(s)
    BY <1>5, <2>1, <2>4 DEF Owner, OwnerFacts, NotCached, Cached, CachedBy
  <2> QED BY <2>2, <2>3, <2>4 DEF NotCached
<1> QED BY <1>1, <1>2, <1>3, <1>4, <1>5

LEMMA OwnerKnownNext == PoolInv' => (\A s \in States : OwnerFacts(s))'
BY OwnerKnown, PTL

\* A state that keeps its place keeps its owner.
SamePlace(s) ==
  /\ s \in opened' <=> s \in opened
  /\ s = watcher'.Lex <=> s = watcher.Lex
  /\ s = main'.Lex <=> s = main.Lex
  /\ \A f \in Fibers : held'[f] = s <=> held[f] = s
  /\ Cached(s)' <=> Cached(s)
  /\ \A w \in Workers : CachedBy(s, w)' <=> CachedBy(s, w)

LEMMA OwnerKept ==
  ASSUME PoolInv, PoolInv', NEW s \in States, SamePlace(s)
  PROVE  Owner(s)' = Owner(s)
<1>1. OwnerFacts(s) /\ OwnerFacts(s)'
  BY OwnerKnown, OwnerKnownNext
<1> QED BY <1>1 DEF OwnerFacts, SamePlace, NoOwner, NotCached

-----------------------------------------------------------------------------
(* The owners.                                                             *)

LEMMA OwnersDiffer ==
  /\ \A a, b, x : <<a>> # <<b, x>>
  /\ \A a, b : <<a>> = <<b>> => a = b
  /\ \A a, b, x, y : <<a, x>> = <<b, y>> => a = b /\ x = y
<1>1. ASSUME NEW a, NEW b, NEW x PROVE <<a>> # <<b, x>>
  <2>1. Len(<<a>>) = 1 /\ Len(<<b, x>>) = 2
    OBVIOUS
  <2> QED BY <2>1
<1>2. ASSUME NEW a, NEW b, <<a>> = <<b>> PROVE a = b
  <2>1. <<a>>[1] = a /\ <<b>>[1] = b
    OBVIOUS
  <2> QED BY <1>2, <2>1
<1>3. ASSUME NEW a, NEW b, NEW x, NEW y, <<a, x>> = <<b, y>> PROVE a = b /\ x = y
  <2>1. <<a, x>>[1] = a /\ <<b, y>>[1] = b /\ <<a, x>>[2] = x /\ <<b, y>>[2] = y
    OBVIOUS
  <2> QED BY <1>3, <2>1
<1> QED BY <1>1, <1>2, <1>3

\* Where a state may go.
LEMMA MayGo ==
  /\ {<<"watcher">>, <<"main">>, <<"lost">>} \subseteq Ownership!Receivers(<<"nobody">>)
  /\ \A f \in Fibers : <<"fiber", f>> \in Ownership!Receivers(<<"nobody">>)
  /\ <<"pool">> \in Ownership!Receivers(<<"watcher">>)
  /\ {<<"nobody">>, <<"lost">>} \subseteq Ownership!Receivers(<<"main">>)
  /\ <<"lost">> \in Ownership!Receivers(<<"pool">>)
  /\ \A f \in Fibers : <<"fiber", f>> \in Ownership!Receivers(<<"pool">>)
  /\ \A w \in Workers : <<"lost">> \in Ownership!Receivers(<<"worker", w>>)
  /\ \A f \in Fibers : <<"fiber", f>> \in Ownership!Receivers(<<"worker", HomeOf[f]>>)
  /\ \A f \in Fibers : {<<"worker", HomeOf[f]>>, <<"pool">>, <<"lost">>}
                         \subseteq Ownership!Receivers(<<"fiber", f>>)
<1> USE OwnersDiffer, PoolAssumption
<1> USE DEF Ownership!Receivers, Ownership!FibersOf, Ownership!Nobody, Ownership!Lost,
           Ownership!Pool, Ownership!Watcher, Ownership!Main, Ownership!Worker, Ownership!Fiber
<1>1. \A f \in Fibers : HomeOf[f] \in Workers
  OBVIOUS
<1>2. Ownership!Receivers(<<"nobody">>) =
        {<<"watcher">>, <<"main">>, <<"lost">>} \cup Ownership!FibersOf(Workers)
  OBVIOUS
<1>3. Ownership!Receivers(<<"watcher">>) = {<<"pool">>}
  OBVIOUS
<1>4. Ownership!Receivers(<<"main">>) = {<<"nobody">>, <<"lost">>}
  OBVIOUS
<1>5. Ownership!Receivers(<<"pool">>) = {<<"lost">>} \cup Ownership!FibersOf(Workers)
  OBVIOUS
<1>6. ASSUME NEW w \in Workers
      PROVE  Ownership!Receivers(<<"worker", w>>) = {<<"lost">>} \cup Ownership!FibersOf({w})
  OBVIOUS
<1>7. ASSUME NEW f \in Fibers
      PROVE  Ownership!Receivers(<<"fiber", f>>) = {<<"worker", HomeOf[f]>>, <<"pool">>, <<"lost">>}
  OBVIOUS
<1>8. \A f \in Fibers : /\ <<"fiber", f>> \in Ownership!FibersOf(Workers)
                        /\ <<"fiber", f>> \in Ownership!FibersOf({HomeOf[f]})
  BY <1>1
<1> QED BY <1>1, <1>2, <1>3, <1>4, <1>5, <1>6, <1>7, <1>8

\* Where a state is, told from its owner.
LEMMA PlaceKnown ==
  ASSUME PoolInv, NEW s \in States
  PROVE  /\ Owner(s) = <<"watcher">> => s = watcher.Lex
         /\ Owner(s) = <<"main">> => s = main.Lex
         /\ \A f \in Fibers : Owner(s) = <<"fiber", f>> => held[f] = s
         /\ Owner(s) = <<"pool">> => Cached(s)
         /\ \A w \in Workers : Owner(s) = <<"worker", w>> => CachedBy(s, w)
<1>1. OwnerFacts(s)
  BY OwnerKnown
<1> QED BY <1>1, OwnersDiffer DEF OwnerFacts, NoOwner, NotCached

\* Requests, the watcher and the bootstrap take a state when they have none.
Vacant(o) ==
  /\ o = <<"watcher">> => watcher.Lex = NoState
  /\ o = <<"main">> => main.Lex = NoState
  /\ \A f \in Fibers : o = <<"fiber", f>> => held[f] = NoState

\* One state changes hands.
LEMMA HandedOver ==
  ASSUME PoolInv, PoolInv', NEW s \in States, \A t \in States : t # s => SamePlace(t),
         Owner(s)' \in Ownership!Receivers(Owner(s)), Vacant(Owner(s)')
  PROVE  Ownership!Next
<1> DEFINE o == Owner(s)'
<1>1. \A t \in States : t # s => Owner(t)' = Owner(t)
  BY OwnerKept
<1>2. ASSUME Ownership!TakesOne(o), NEW t \in States PROVE Owner(t) # o
  <2>1. \/ o \in {<<"watcher">>, <<"main">>}
        \/ \E f \in Fibers : o = <<"fiber", f>>
    BY <1>2 DEF Ownership!TakesOne, Ownership!FibersOf, Ownership!Watcher, Ownership!Main,
                Ownership!Fiber
  <2> QED BY <2>1, PlaceKnown, PoolAssumption DEF Vacant
<1>3. Owners' = [Owners EXCEPT ![s] = o]
  BY <1>1 DEF Owners
<1>4. Ownership!HandOver(s)
  BY <1>2, <1>3 DEF Ownership!HandOver, Owners
<1> QED BY <1>4 DEF Ownership!Next

LEMMA NothingHandedOver ==
  ASSUME PoolInv, PoolInv', \A t \in States : SamePlace(t)
  PROVE  UNCHANGED Owners
BY OwnerKept DEF Owners

\* A cache is destroyed.
LEMMA CacheDestroyed ==
  ASSUME PoolInv, PoolInv', NEW o,
         o = <<"pool">> \/ \E w \in Workers : o = <<"worker", w>>,
         \A t \in States : Owner(t) # o => SamePlace(t),
         \A t \in States : Owner(t) = o => t \notin opened'
  PROVE  Ownership!Next
<1>1. \A t \in States : Owner(t)' = IF Owner(t) = o THEN <<"nobody">> ELSE Owner(t)
  <2>1. ASSUME NEW t \in States, Owner(t) = o PROVE Owner(t)' = <<"nobody">>
    BY <2>1, OwnerKnownNext DEF OwnerFacts
  <2> QED BY <2>1, OwnerKept
<1>2. Ownership!CloseAll(o)
  BY <1>1 DEF Ownership!CloseAll, Ownership!Nobody, Owners
<1> QED BY <1>2 DEF Ownership!Next, Ownership!Pool, Ownership!Worker

-----------------------------------------------------------------------------
(* The elements of a cache, and what pop_back leaves of them.              *)

LEMMA PopBackLeaves ==
  ASSUME NEW S, NEW q \in Seq(S), q # <<>>, NoDuplicates(q)
  PROVE  ToSet(Front(q)) = ToSet(q) \ {Last(q)}
<1> DEFINE r == Front(q)
<1>1. Len(q) \in Nat /\ Len(q) > 0 /\ DOMAIN q = 1 .. Len(q) /\ Last(q) = q[Len(q)]
  BY DEF Last
<1>2. ToSet(r) \subseteq ToSet(q) /\ Last(q) \notin ToSet(r)
  BY PopBack
<1>3. ASSUME NEW i \in 1 .. Len(q) - 1 PROVE q[i] \in ToSet(r)
  <2>1. r = SubSeq(q, 1, Len(q) - 1)
    BY DEF Front
  <2>2. /\ r \in Seq(S) /\ Len(r) = Len(q) - 1
        /\ r[i] = q[i]
    BY <1>1, <2>1
  <2> HIDE DEF r
  <2>3. DOMAIN r = 1 .. Len(q) - 1
    BY <2>2
  <2> QED BY <2>2, <2>3 DEF ToSet
<1>4. ASSUME NEW x \in ToSet(q), x # Last(q) PROVE x \in ToSet(r)
  <2>1. PICK i \in 1 .. Len(q) : x = q[i]
    BY <1>1 DEF ToSet
  <2>2. i # Len(q)
    BY <1>1, <1>4, <2>1
  <2>3. i \in 1 .. Len(q) - 1
    <3> DEFINE n == Len(q)
    <3>1. n \in Nat /\ i \in 1 .. n /\ i # n
      BY <1>1, <2>2
    <3> HIDE DEF n
    <3>2. i \in 1 .. n - 1
      BY <3>1
    <3> QED BY <3>2 DEF n
  <2> QED BY <1>3, <2>1, <2>3
<1> QED BY <1>2, <1>4

-----------------------------------------------------------------------------
(* The steps of the watcher.                                               *)

LEMMA WatcherHandsOver ==
  ASSUME PoolInv, PoolInv', Watcher
  PROVE  Ownership!Next \/ UNCHANGED Owners
<1> USE PoolAssumption
<1>0. TypeInv /\ OwnInv /\ TypeInv' /\ OwnInv'
  BY DEF PoolInv
<1>1. CASE WatcherCheck \/ WatcherCount \/ WatcherRoundEnds
  <2>1. watcher'.Lex = watcher.Lex /\ UNCHANGED <<poolVars, held, main>>
    BY <1>0, <1>1 DEF WatcherCheck, WatcherCount, WatcherRoundEnds, TypeInv, TypeOK,
                      HoldersInv, WatcherThread
  <2>2. \A t \in States : SamePlace(t)
    BY <2>1 DEF SamePlace, Cached, CachedBy, LocalStates, poolVars
  <2> QED BY <2>2, NothingHandedOver
<1>2. CASE WatcherCreate
  <2>1. /\ watcher.Lex = NoState
        /\ UNCHANGED <<m_state_cache, m_state_cache_local, held, main>>
    BY <1>0, <1>2 DEF WatcherCreate, TypeInv, HoldersInv
  <2>2. ASSUME NEW s \in States, CreateState(s), watcher'.Lex \in {s, NoState}
        PROVE  Ownership!Next
    <3>1. s \notin opened /\ opened' = opened \cup {s}
      BY <2>2 DEF CreateState
    <3>2. \A t \in States : t # s => SamePlace(t)
      BY <2>1, <2>2, <3>1 DEF SamePlace, Cached, CachedBy, LocalStates
    <3>3. NoOwner(s) /\ s # NoState
      BY <1>0, <3>1, NewStateIsFree DEF NoOwner
    <3>4. Owner(s) = <<"nobody">>
      BY <3>1, OwnerKnown DEF OwnerFacts
    <3>5. \/ Owner(s)' = <<"watcher">>
          \/ Owner(s)' = <<"lost">>
      <4>1. OwnerFacts(s)' /\ s \in opened'
        BY <3>1, OwnerKnownNext
      <4>2. CASE watcher'.Lex = s
        BY <4>1, <4>2 DEF OwnerFacts
      <4>3. CASE watcher'.Lex = NoState
        <5>1. NoOwner(s)'
          BY <2>1, <3>3, <4>3 DEF NoOwner, NotCached, Cached, CachedBy, LocalStates
        <5> QED BY <4>1, <5>1 DEF OwnerFacts
      <4> QED BY <2>2, <4>2, <4>3
    <3>6. Vacant(Owner(s)')
      BY <2>1, <3>5, OwnersDiffer DEF Vacant
    <3> QED BY <3>2, <3>4, <3>5, <3>6, HandedOver, MayGo
  <2>3. CASE opened' = opened /\ watcher'.Lex = NoState
    BY <2>1, <2>3, NothingHandedOver DEF SamePlace, Cached, CachedBy, LocalStates
  <2> QED BY <1>2, <2>2, <2>3 DEF WatcherCreate, CreateStateThrows
<1>3. CASE WatcherPush
  <2>0. PICK s \in States : s = watcher.Lex
    BY <1>0, <1>3 DEF WatcherPush, TypeInv, TypeOK, HoldersInv, WatcherThread
  <2>1. /\ s # main.Lex /\ watcher'.Lex = NoState
        /\ UNCHANGED <<opened, m_state_cache_local, held, main>>
        /\ m_state_cache' = Append(m_state_cache, s)
    BY <1>0, <1>3, <2>0 DEF WatcherPush, OwnInv, ThreadStatesOK
  <2>2. ToSet(m_state_cache') = ToSet(m_state_cache) \cup {s}
    BY <1>0, <2>1, PushBack DEF TypeInv, TypeOK
  <2>3. \A t \in States : t # s => SamePlace(t)
    BY <2>0, <2>1, <2>2 DEF SamePlace, Cached, CachedBy, LocalStates
  <2>4. Owner(s) = <<"watcher">> /\ Owner(s)' = <<"pool">>
    BY <2>0, <2>2, OwnerKnown, OwnerKnownNext DEF OwnerFacts, Cached
  <2>5. Vacant(Owner(s)')
    BY <2>4, OwnersDiffer DEF Vacant
  <2> QED BY <2>3, <2>4, <2>5, HandedOver, MayGo
<1> QED BY <1>1, <1>2, <1>3 DEF Watcher

-----------------------------------------------------------------------------
(* The steps of a request.                                                 *)

\* A request takes a state out of a cache, or loses it at once.
LEMMA BorrowedFromCache ==
  ASSUME PoolInv, PoolInv', NEW f \in Fibers, NEW s \in States, held[f] = NoState, Borrow(f, s),
         UNCHANGED <<opened, watcher, main>>,
         Cached(s) \/ CachedBy(s, HomeOf[f]),
         \A t : Cached(t)' <=> Cached(t) /\ t # s,
         \A w \in Workers : \A t : CachedBy(t, w)' <=> CachedBy(t, w) /\ t # s
  PROVE  Ownership!Next
<1> USE PoolAssumption
<1>0. HomeOf[f] \in Workers /\ TypeInv /\ OwnInv
  BY DEF PoolInv
<1>1. /\ s \in opened /\ s # watcher.Lex /\ s # main.Lex /\ \A g \in Fibers : held[g] # s
  BY <1>0 DEF OwnInv, CachedStatesOK, ThreadStatesOK, HeldStatesOK, NotCached
<1>2. held' = [held EXCEPT ![f] = s] \/ held' = held
  BY DEF Borrow
<1>3. \A t \in States : t # s => SamePlace(t)
  BY <1>0, <1>2 DEF SamePlace, TypeInv, TypeOK
<1>4. Owner(s) \in {<<"pool">>, <<"worker", HomeOf[f]>>}
  BY <1>0, OwnerKnown DEF OwnerFacts
<1>5. Owner(s)' \in {<<"fiber", f>>, <<"lost">>}
  <2>1. OwnerFacts(s)'
    BY OwnerKnownNext
  <2>2. CASE held'[f] = s
    BY <2>1, <2>2 DEF OwnerFacts
  <2>3. CASE held' = held
    BY <1>1, <2>1, <2>3 DEF OwnerFacts, NoOwner, NotCached
  <2> QED BY <1>0, <1>2, <2>2, <2>3 DEF TypeInv, TypeOK
<1>6. Vacant(Owner(s)')
  BY <1>5, OwnersDiffer DEF Vacant
<1> QED BY <1>0, <1>3, <1>4, <1>5, <1>6, HandedOver, MayGo

LEMMA GetHandsOver ==
  ASSUME PoolInv, PoolInv', NEW f \in Fibers, GetStateLocal(f) \/ GetStateGlobal(f)
  PROVE  Ownership!Next
<1> USE PoolAssumption
<1>0. TypeInv /\ OwnInv /\ HomeOf[f] \in Workers
  BY DEF PoolInv
<1>1. CASE GetStateLocal(f)
  <2> DEFINE w == HomeOf[f]
  <2>0. PICK q : q = m_state_cache_local[w]
    OBVIOUS
  <2>1. q \in Seq(States) /\ q # <<>> /\ q # NoCache /\ NoDuplicates(q)
    BY <1>0, <1>1, <2>0 DEF GetStateLocal, HasLocalState, LocalCache, TypeInv, TypeOK, OwnInv, CachedOnce
  <2>2. PICK s \in States : s = Last(q)
    BY <2>1, PopBack
  <2>3. /\ ToSet(Front(q)) = ToSet(q) \ {s} /\ s \in ToSet(q) /\ Front(q) # NoCache
    <3>1. Front(q) \in Seq(States)
      BY <2>1, PopBack
    <3> QED BY <2>1, <2>2, <3>1, PopBack, PopBackLeaves
  <2>4. CachedBy(s, w) /\ ~Cached(s) /\ \A v \in Workers : CachedBy(s, v) => v = w
    BY <1>0, <2>0, <2>1, <2>3 DEF CachedBy, LocalStates, OwnInv, CachedOnce
  <2>5. /\ m_state_cache_local' = [m_state_cache_local EXCEPT ![w] = Front(q)]
        /\ held[f] = NoState /\ Borrow(f, s) /\ UNCHANGED <<opened, m_state_cache, watcher, main>>
    BY <1>1, <2>0, <2>2 DEF GetStateLocal, LocalCache
  <2>6. \A t : Cached(t)' <=> Cached(t) /\ t # s
    BY <2>4, <2>5 DEF Cached
  <2>7. ASSUME NEW v \in Workers, NEW t PROVE CachedBy(t, v)' <=> CachedBy(t, v) /\ t # s
    BY <1>0, <2>0, <2>1, <2>3, <2>4, <2>5 DEF CachedBy, LocalStates, TypeInv, TypeOK
  <2> QED BY <2>4, <2>5, <2>6, <2>7, BorrowedFromCache
<1>2. CASE GetStateGlobal(f)
  <2>0. PICK q : q = m_state_cache
    OBVIOUS
  <2>1. q \in Seq(States) /\ q # <<>> /\ NoDuplicates(q)
    BY <1>0, <1>2, <2>0 DEF GetStateGlobal, TypeInv, TypeOK, OwnInv, CachedOnce
  <2>2. PICK s \in States : s = Last(q)
    BY <2>1, PopBack
  <2>3. ToSet(Front(q)) = ToSet(q) \ {s} /\ s \in ToSet(q)
    BY <2>1, <2>2, PopBack, PopBackLeaves
  <2>4. Cached(s) /\ \A v \in Workers : ~CachedBy(s, v)
    BY <1>0, <2>0, <2>3 DEF Cached, OwnInv, CachedOnce
  <2>5. /\ m_state_cache' = Front(q) /\ held[f] = NoState /\ Borrow(f, s)
        /\ UNCHANGED <<opened, m_state_cache_local, watcher, main>>
    BY <1>2, <2>0, <2>2 DEF GetStateGlobal
  <2>6. \A t : Cached(t)' <=> Cached(t) /\ t # s
    BY <2>0, <2>3, <2>5 DEF Cached
  <2>7. \A v \in Workers : \A t : CachedBy(t, v)' <=> CachedBy(t, v) /\ t # s
    BY <2>4, <2>5 DEF CachedBy, LocalStates
  <2> QED BY <2>4, <2>5, <2>6, <2>7, BorrowedFromCache
<1> QED BY <1>1, <1>2

\* A request returns its state to a cache, or loses it.
LEMMA GivenUp ==
  ASSUME PoolInv, PoolInv', NEW f \in Fibers, NEW s \in States, held[f] = s,
         held' = [held EXCEPT ![f] = NoState], UNCHANGED <<opened, watcher, main>>,
         \A t \in States : t # s => /\ Cached(t)' <=> Cached(t)
                                   /\ \A w \in Workers : CachedBy(t, w)' <=> CachedBy(t, w),
         Cached(s)' \/ CachedBy(s, HomeOf[f])' \/ NotCached(s)'
  PROVE  Ownership!Next
<1> USE PoolAssumption
<1>0. HomeOf[f] \in Workers /\ TypeInv /\ OwnInv
  BY DEF PoolInv
<1>1. /\ s \in opened /\ s # watcher.Lex /\ s # main.Lex
      /\ \A g \in Fibers : held[g] = s => g = f
  BY <1>0 DEF OwnInv, HeldStatesOK
<1>2. \A t \in States : t # s => SamePlace(t)
  BY <1>0 DEF SamePlace, TypeInv, TypeOK
<1>3. Owner(s) = <<"fiber", f>>
  BY OwnerKnown DEF OwnerFacts
<1>4. Owner(s)' \in {<<"pool">>, <<"worker", HomeOf[f]>>, <<"lost">>}
  <2>1. OwnerFacts(s)'
    BY OwnerKnownNext
  <2>2. CASE NotCached(s)'
    BY <1>0, <1>1, <2>1, <2>2 DEF OwnerFacts, NoOwner, TypeInv, TypeOK
  <2> QED BY <1>0, <2>1, <2>2 DEF OwnerFacts
<1>5. Vacant(Owner(s)')
  BY <1>4, OwnersDiffer DEF Vacant
<1> QED BY <1>2, <1>3, <1>4, <1>5, HandedOver, MayGo

LEMMA FreeHandsOver ==
  ASSUME PoolInv, PoolInv', NEW f \in Fibers, FreeState(f) \/ HandlerThrows(f)
  PROVE  Ownership!Next
<1> USE PoolAssumption
<1>0. TypeInv /\ OwnInv /\ HomeOf[f] \in Workers
  BY DEF PoolInv
<1>1. PICK s \in States : s = held[f]
  BY <1>0 DEF FreeState, HandlerThrows, TypeInv, TypeOK
<1>2. NotCached(s)
  BY <1>0, <1>1 DEF OwnInv, HeldStatesOK
<1>3. held' = [held EXCEPT ![f] = NoState] /\ UNCHANGED <<opened, watcher, main>>
  BY DEF FreeState, HandlerThrows, poolVars
<1>4. CASE HandlerThrows(f)
  <2>1. UNCHANGED <<m_state_cache, m_state_cache_local>>
    BY <1>4 DEF HandlerThrows, poolVars
  <2>2. \A t : /\ Cached(t)' <=> Cached(t)
              /\ \A w \in Workers : CachedBy(t, w)' <=> CachedBy(t, w)
    BY <2>1 DEF Cached, CachedBy, LocalStates
  <2> QED BY <1>1, <1>2, <1>3, <2>2, GivenUp DEF NotCached
<1>5. CASE FreeState(f) /\ LocalCache(f) # NoCache
  <2> DEFINE w == HomeOf[f]
  <2>0. PICK q \in Seq(States) : q = m_state_cache_local[w] /\ q # NoCache
    BY <1>0, <1>5 DEF LocalCache, TypeInv, TypeOK
  <2>1. /\ m_state_cache_local' = [m_state_cache_local EXCEPT ![w] = Append(q, s)]
        /\ m_state_cache' = m_state_cache
    BY <1>1, <1>5, <2>0 DEF FreeState, LocalCache
  <2>2. ToSet(Append(q, s)) = ToSet(q) \cup {s} /\ Append(q, s) # NoCache
    <3>1. Append(q, s) \in Seq(States)
      BY PushBack
    <3> QED BY <3>1, PushBack
  <2>3. \A t : Cached(t)' <=> Cached(t)
    BY <2>1 DEF Cached
  <2>4. ASSUME NEW v \in Workers, NEW t PROVE CachedBy(t, v)' <=> CachedBy(t, v) \/ (v = w /\ t = s)
    BY <1>0, <2>0, <2>1, <2>2 DEF CachedBy, LocalStates, TypeInv, TypeOK
  <2> QED BY <1>0, <1>1, <1>3, <2>3, <2>4, GivenUp
<1>6. CASE FreeState(f) /\ LocalCache(f) = NoCache
  <2>1. /\ m_state_cache' = Append(m_state_cache, s)
        /\ m_state_cache_local' = m_state_cache_local
    BY <1>1, <1>6 DEF FreeState
  <2>2. \A t : Cached(t)' <=> Cached(t) \/ t = s
    BY <1>0, <2>1, PushBack DEF Cached, TypeInv, TypeOK
  <2>3. \A t : \A w \in Workers : CachedBy(t, w)' <=> CachedBy(t, w)
    BY <2>1 DEF CachedBy, LocalStates
  <2> QED BY <1>1, <1>3, <2>2, <2>3, GivenUp
<1> QED BY <1>4, <1>5, <1>6

\* A new state goes to who created it, or is lost at once.
LEMMA NewHandsOver ==
  ASSUME PoolInv, PoolInv', NEW s \in States, CreateState(s),
         UNCHANGED <<m_state_cache, m_state_cache_local, watcher>>,
         \/ /\ held' = held /\ main.Lex = NoState /\ main'.Lex \in {s, NoState}
         \/ \E f \in Fibers : /\ held[f] = NoState /\ main' = main
                             /\ held' \in {held, [held EXCEPT ![f] = s]}
  PROVE  Ownership!Next
<1> USE PoolAssumption
<1>0. TypeInv /\ OwnInv
  BY DEF PoolInv
<1>1. s \notin opened /\ opened' = opened \cup {s}
  BY DEF CreateState
<1>2. NoOwner(s) /\ s # NoState
  BY <1>0, <1>1, NewStateIsFree DEF NoOwner
<1>3. Owner(s) = <<"nobody">> /\ OwnerFacts(s)' /\ s \in opened'
  BY <1>1, OwnerKnown, OwnerKnownNext DEF OwnerFacts
<1>4. \A t : /\ Cached(t)' <=> Cached(t)
            /\ \A w \in Workers : CachedBy(t, w)' <=> CachedBy(t, w)
  BY DEF Cached, CachedBy, LocalStates
<1>5. CASE held' = held /\ main.Lex = NoState /\ main'.Lex \in {s, NoState}
  <2>1. \A t \in States : t # s => SamePlace(t)
    BY <1>1, <1>4, <1>5 DEF SamePlace
  <2>2. Owner(s)' \in {<<"main">>, <<"lost">>}
    BY <1>2, <1>3, <1>4, <1>5 DEF OwnerFacts, NoOwner, NotCached
  <2>3. Vacant(Owner(s)')
    BY <1>5, <2>2, OwnersDiffer DEF Vacant
  <2> QED BY <1>3, <2>1, <2>2, <2>3, HandedOver, MayGo
<1>6. ASSUME NEW f \in Fibers, held[f] = NoState, main' = main,
             held' \in {held, [held EXCEPT ![f] = s]}
      PROVE  Ownership!Next
  <2>1. \A t \in States : t # s => SamePlace(t)
    BY <1>0, <1>1, <1>4, <1>6 DEF SamePlace, TypeInv, TypeOK
  <2>2. Owner(s)' \in {<<"fiber", f>>, <<"lost">>}
    <3>1. CASE held'[f] = s
      BY <1>3, <3>1 DEF OwnerFacts
    <3>2. CASE held' = held
      BY <1>2, <1>3, <1>4, <1>6, <3>2 DEF OwnerFacts, NoOwner, NotCached
    <3> QED BY <1>0, <1>6, <3>1, <3>2 DEF TypeInv, TypeOK
  <2>3. Vacant(Owner(s)')
    BY <1>6, <2>2, OwnersDiffer DEF Vacant
  <2> QED BY <1>3, <2>1, <2>2, <2>3, HandedOver, MayGo
<1> QED BY <1>5, <1>6

LEMMA RequestHandsOver ==
  ASSUME PoolInv, PoolInv', NEW f \in Fibers, Request(f)
  PROVE  Ownership!Next \/ UNCHANGED Owners
<1>1. CASE GetStateCreates(f)
  <2>1. /\ UNCHANGED <<m_state_cache, m_state_cache_local, watcher, main>> /\ held[f] = NoState
        /\ \/ \E s \in States : CreateState(s) /\ held' \in {held, [held EXCEPT ![f] = s]}
           \/ UNCHANGED <<opened, held>>
    BY <1>1 DEF GetStateCreates, CreateStateThrows
  <2>2. CASE UNCHANGED <<opened, held>>
    BY <2>1, <2>2, NothingHandedOver DEF SamePlace, Cached, CachedBy, LocalStates
  <2> QED BY <2>1, <2>2, NewHandsOver
<1>2. CASE HandlerUsesLibrary(f)
  BY <1>2, NothingHandedOver DEF HandlerUsesLibrary, SamePlace, Cached, CachedBy, LocalStates
<1> QED BY <1>1, <1>2, GetHandsOver, FreeHandsOver DEF Request

-----------------------------------------------------------------------------
(* The handlers of the io services.                                        *)

\* MakeInv is inductive, given the types and the order of the handlers.
LEMMA NothingReplaced == Spec => []MakeInv
<1>1. Init => MakeInv
  BY DEF Init, MakeInv
<1>2. TypeInv /\ PostedInv /\ MakeInv /\ [Next]_vars => MakeInv'
  <2> SUFFICES ASSUME TypeInv, PostedInv, MakeInv, [Next]_vars PROVE MakeInv'
    OBVIOUS
  <2> USE DEF MakeInv
  <2>1. CASE Watcher
    BY <2>1 DEF Watcher, WatcherCheck, WatcherCount, WatcherCreate, WatcherPush, WatcherRoundEnds,
                poolVars
  <2>2. ASSUME NEW f \in Fibers, Request(f) PROVE MakeInv'
    <3>1. UNCHANGED <<posted, m_iosvcs, main>>
      BY <2>2 DEF Request, GetStateLocal, GetStateGlobal, GetStateCreates, HandlerUsesLibrary,
                  FreeState, HandlerThrows
    <3> QED BY <2>2, <3>1, RequestKeepsCaches
  <2>3. ASSUME NEW w \in Workers, RunPosted(w) PROVE MakeInv'
    <3>1. \A v \in Workers : v # w => /\ posted'[v] = posted[v]
                                     /\ m_state_cache_local'[v] = m_state_cache_local[v]
      BY <2>3 DEF RunPosted, MakeLocalCache, ResetLocalCache, TypeInv, TypeOK
    <3>2. m_iosvcs' = m_iosvcs /\ main'.pc = main.pc
      BY <2>3 DEF RunPosted, MakeLocalCache, ResetLocalCache, MainThread, TypeInv, TypeOK
    <3>3. posted'[w] \in {<<>>, <<"reset">>} /\ posted[w] # <<>>
      BY <2>3, Queues DEF RunPosted, TypeInv, TypeOK, PostedInv
    <3>4. main.pc \in {"bootstrap", "bootstrapping", "starting", "registering"} => w \in m_iosvcs
      BY <3>3 DEF PostedInv
    <3> QED BY <3>1, <3>2, <3>3, <3>4, Queues
  <2>4. CASE MainStarts
    <3>1. CASE BootstrapCreates \/ BootstrapUsesLibrary \/ BootstrapDestroys \/ StartFails \/ StartWorkers
      BY <3>1 DEF BootstrapCreates, BootstrapUsesLibrary, BootstrapDestroys, StartFails, StartWorkers,
                  poolVars
    <3>2. ASSUME NEW w \in Workers, RegisterIoService(w) PROVE MakeInv'
      BY <3>2, Queues DEF RegisterIoService, poolVars, TypeInv, TypeOK
    <3> QED BY <2>4, <3>1, <3>2 DEF MainStarts
  <2>5. CASE MainStops
    <3>1. ASSUME NEW w \in Workers, UnregisterIoService(w) PROVE MakeInv'
      <4>1. \/ posted[w] = <<"make">>
            \/ posted[w] = <<>> /\ posted'[w] = <<"reset">>
        BY <3>1, Queues DEF UnregisterIoService, PostedInv, TypeInv, TypeOK
      <4>2. /\ \A v \in Workers : v # w => posted'[v] = posted[v]
            /\ main'.pc = "unregistering" /\ m_state_cache_local' = m_state_cache_local
        BY <3>1 DEF UnregisterIoService, TypeInv, TypeOK, poolVars
      <4> QED BY <4>1, <4>2, Queues
    <3>2. CASE StopWorkers \/ DestroyManager
      BY <3>2 DEF StopWorkers, DestroyManager, poolVars, TypeInv, TypeOK, MainThread
    <3> QED BY <2>5, <3>1, <3>2 DEF MainStops
  <2>6. CASE UNCHANGED vars
    BY <2>6 DEF vars, poolVars
  <2> QED BY <2>1, <2>2, <2>3, <2>4, <2>5, <2>6 DEF Next, Terminated
<1> QED BY <1>1, <1>2, Types, HandlersInOrder, PTL DEF Spec

LEMMA PostedHandsOver ==
  ASSUME PoolInv, PoolInv', NEW w \in Workers, RunPosted(w)
  PROVE  Ownership!Next \/ UNCHANGED Owners
<1> USE PoolAssumption
<1>0. TypeInv /\ OwnInv /\ PostedInv /\ MakeInv
  BY DEF PoolInv
<1>1. /\ UNCHANGED <<m_state_cache, held, watcher>> /\ posted[w] # <<>>
      /\ main'.Lex = main.Lex
  BY <1>0 DEF RunPosted, MakeLocalCache, ResetLocalCache, TypeInv, TypeOK, MainThread
<1>2. CASE MakeLocalCache(w)
  <2>1. m_state_cache_local[w] = NoCache
    BY <1>0, <1>1, <1>2, Queues DEF MakeLocalCache, PostedInv, MakeInv
  <2>2. m_state_cache_local' = [m_state_cache_local EXCEPT ![w] = <<>>] /\ opened' = opened
    BY <1>2 DEF MakeLocalCache
  <2>3. \A v \in Workers : \A t : CachedBy(t, v)' <=> CachedBy(t, v)
    BY <1>0, <2>1, <2>2 DEF CachedBy, LocalStates, ToSet, TypeInv, TypeOK
  <2> QED BY <1>1, <2>2, <2>3, NothingHandedOver DEF SamePlace, Cached
<1>3. CASE ResetLocalCache(w)
  <2>1. m_state_cache_local[w] # NoCache
    BY <1>0, <1>1, <1>3, Queues DEF ResetLocalCache, PostedInv
  <2>2. /\ m_state_cache_local' = [m_state_cache_local EXCEPT ![w] = NoCache]
        /\ opened' = opened \ ToSet(m_state_cache_local[w])
    BY <1>3 DEF ResetLocalCache, DestroyStates
  <2>3. \A t : CachedBy(t, w) <=> t \in ToSet(m_state_cache_local[w])
    BY <2>1 DEF CachedBy, LocalStates
  <2>4. \A v \in Workers : \A t : CachedBy(t, v)' <=> CachedBy(t, v) /\ v # w
    BY <1>0, <2>2 DEF CachedBy, LocalStates, TypeInv, TypeOK
  <2>5. ASSUME NEW t \in States, Owner(t) # <<"worker", w>> PROVE SamePlace(t)
    <3>1. ~CachedBy(t, w)
      BY <2>5, OwnerKnown DEF OwnerFacts
    <3> QED BY <1>1, <2>2, <2>3, <2>4, <3>1 DEF SamePlace, Cached
  <2>6. ASSUME NEW t \in States, Owner(t) = <<"worker", w>> PROVE t \notin opened'
    BY <2>2, <2>3, <2>6, PlaceKnown
  <2> QED BY <2>5, <2>6, CacheDestroyed
<1> QED BY <1>2, <1>3 DEF RunPosted

-----------------------------------------------------------------------------
(* The steps of the main thread.                                           *)

LEMMA MainStartsHandsOver ==
  ASSUME PoolInv, PoolInv', MainStarts
  PROVE  Ownership!Next \/ UNCHANGED Owners
<1> USE PoolAssumption
<1>0. TypeInv /\ OwnInv
  BY DEF PoolInv
<1>1. CASE BootstrapCreates
  <2>1. /\ UNCHANGED <<m_state_cache, m_state_cache_local, watcher, held>> /\ main.Lex = NoState
        /\ \/ \E s \in States : CreateState(s) /\ main'.Lex \in {s, NoState}
           \/ opened' = opened /\ main'.Lex = NoState
    BY <1>0, <1>1 DEF BootstrapCreates, CreateStateThrows, TypeInv, HoldersInv
  <2>2. CASE opened' = opened /\ main'.Lex = NoState
    BY <2>1, <2>2, NothingHandedOver DEF SamePlace, Cached, CachedBy, LocalStates
  <2> QED BY <2>1, <2>2, NewHandsOver
<1>2. CASE BootstrapDestroys \/ (StartFails /\ main.pc = "bootstrapping")
  <2>0. PICK s \in States : s = main.Lex
    BY <1>0, <1>2 DEF BootstrapDestroys, TypeInv, TypeOK, HoldersInv, MainThread
  <2>1. /\ UNCHANGED <<m_state_cache, m_state_cache_local, watcher, held>>
        /\ main'.Lex = NoState
        /\ opened' \in {opened, opened \ {s}}
    BY <1>2, <2>0 DEF BootstrapDestroys, StartFails, DestroyStates, poolVars
  <2>2. s \in opened /\ NotCached(s) /\ s # watcher.Lex /\ \A f \in Fibers : held[f] # s
    BY <1>0, <2>0 DEF OwnInv, ThreadStatesOK, HeldStatesOK
  <2>3. /\ \A t : Cached(t)' <=> Cached(t)
        /\ \A w \in Workers : \A t : CachedBy(t, w)' <=> CachedBy(t, w)
    BY <2>1 DEF Cached, CachedBy, LocalStates
  <2>4. \A t \in States : t # s => SamePlace(t)
    BY <2>0, <2>1, <2>3 DEF SamePlace
  <2>5. Owner(s) = <<"main">>
    BY <2>0, OwnerKnown DEF OwnerFacts
  <2>6. Owner(s)' \in {<<"nobody">>, <<"lost">>}
    <3>1. OwnerFacts(s)' /\ NoOwner(s)'
      BY <2>1, <2>2, <2>3, OwnerKnownNext DEF NoOwner, NotCached
    <3> QED BY <3>1 DEF OwnerFacts
  <2>7. Vacant(Owner(s)')
    BY <2>6, OwnersDiffer DEF Vacant
  <2> QED BY <2>4, <2>5, <2>6, <2>7, HandedOver, MayGo
<1>3. CASE \/ BootstrapUsesLibrary \/ StartWorkers \/ (StartFails /\ main.pc = "starting")
           \/ \E w \in Workers : RegisterIoService(w)
  <2>1. /\ UNCHANGED <<opened, m_state_cache, m_state_cache_local, watcher, held>>
        /\ main'.Lex = main.Lex
    BY <1>0, <1>3 DEF BootstrapUsesLibrary, StartWorkers, StartFails, RegisterIoService, poolVars,
                      TypeInv, TypeOK, HoldersInv, MainThread
  <2> QED BY <2>1, NothingHandedOver DEF SamePlace, Cached, CachedBy, LocalStates
<1> QED BY <1>1, <1>2, <1>3 DEF MainStarts, StartFails

LEMMA MainStopsHandsOver ==
  ASSUME PoolInv, PoolInv', MainStops
  PROVE  Ownership!Next \/ UNCHANGED Owners
<1> USE PoolAssumption
<1>0. TypeInv /\ OwnInv
  BY DEF PoolInv
<1>1. CASE StopWorkers \/ \E w \in Workers : UnregisterIoService(w)
  <2>1. /\ UNCHANGED <<opened, m_state_cache, m_state_cache_local, watcher, held>>
        /\ main'.Lex = main.Lex
    BY <1>0, <1>1 DEF StopWorkers, UnregisterIoService, poolVars, TypeInv, TypeOK, HoldersInv, MainThread
  <2> QED BY <2>1, NothingHandedOver DEF SamePlace, Cached, CachedBy, LocalStates
<1>2. CASE DestroyManager
  <2>1. /\ UNCHANGED <<m_state_cache_local, watcher, held>> /\ main'.Lex = main.Lex
        /\ m_state_cache' = <<>> /\ opened' = opened \ ToSet(m_state_cache)
    BY <1>0, <1>2 DEF DestroyManager, DestroyStates, TypeInv, TypeOK, MainThread
  <2>2. ASSUME NEW t \in States, Owner(t) # <<"pool">> PROVE SamePlace(t)
    <3>1. ~Cached(t)
      BY <2>2, OwnerKnown DEF OwnerFacts
    <3> QED BY <2>1, <3>1 DEF SamePlace, Cached, CachedBy, LocalStates, ToSet
  <2>3. ASSUME NEW t \in States, Owner(t) = <<"pool">> PROVE t \notin opened'
    BY <2>1, <2>3, PlaceKnown DEF Cached
  <2> QED BY <2>2, <2>3, CacheDestroyed
<1> QED BY <1>1, <1>2 DEF MainStops

-----------------------------------------------------------------------------
LEMMA EachStepHandsOver ==
  ASSUME PoolInv, PoolInv', [Next]_vars
  PROVE  [Ownership!Next]_Owners
<1>1. CASE Terminated \/ UNCHANGED vars
  <2>1. \A t \in States : SamePlace(t)
    BY <1>1 DEF Terminated, vars, poolVars, SamePlace, Cached, CachedBy, LocalStates
  <2> QED BY <2>1, NothingHandedOver
<1> QED BY <1>1, WatcherHandsOver, RequestHandsOver, PostedHandsOver, MainStartsHandsOver,
           MainStopsHandsOver DEF Next

\* The watcher, the requests, the (un)registration of the workers, the bootstrap and
\* the destructor of lua_state_manager together keep the rules of ownership: in
\* particular a state cached by a worker goes only to that worker's requests.
THEOREM StatesHandedOver == Spec => HandsOverStates
<1>1. Init => Ownership!Init
  <2> SUFFICES ASSUME Init, NEW s \in States PROVE Owner(s) = <<"nobody">>
    BY DEF Ownership!Init, Ownership!Nobody, Owners
  <2>1. HeldStates = {} /\ ToSet(m_state_cache) = {} /\ \A w \in Workers : LocalStates(w) = {}
    BY DEF Init, HeldStates, LocalStates, ToSet
  <2>2. s \notin opened /\ watcher.Lex # s /\ main.Lex # s
    BY PoolAssumption DEF Init
  <2> QED BY <2>1, <2>2 DEF Owner
<1>2. PoolInv /\ PoolInv' /\ [Next]_vars => [Ownership!Next]_Owners
  BY EachStepHandsOver
<1>3. Spec => []PoolInv
  BY Types, Owned, HandlersInOrder, NothingReplaced, PTL DEF PoolInv
<1> QED BY <1>1, <1>2, <1>3, PTL DEF Spec, HandsOverStates, Ownership!Spec

=============================================================================
