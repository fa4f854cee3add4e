---------------------------- MODULE LuaStatePool ----------------------------
(***************************************************************************)
(* The pool of Lua states: lua_state_manager with its callers, the part of *)
(* lua_engine that borrows a state for a request and the part of           *)
(* server_impl that registers and unregisters the workers' io services.    *)
(*                                                                         *)
(* Three kinds of threads touch the pool.  The watcher thread keeps a      *)
(* global cache (m_state_cache, under m_state_mtx) filled; the fibers of   *)
(* the worker threads borrow states for requests and give them back to     *)
(* their thread's own cache (m_state_cache_local, no lock); the main       *)
(* thread creates and destroys the local caches through handlers posted to *)
(* the workers' io services, and finally destroys the manager.             *)
(*                                                                         *)
(* A fiber of a worker runs until it blocks, and get_state and free_state  *)
(* never block on anything but m_state_mtx, so each is one step.  A handler*)
(* may block anywhere in its Lua code, so a request is several steps.      *)
(***************************************************************************)
EXTENDS Integers, SequencesExt

CONSTANTS
  States,      \* the lua_State objects the process has memory for
  Workers,     \* the worker threads, one io service each
  Fibers,      \* the handler fibers, each runs one request after another
  HomeOf,      \* the worker thread a fiber belongs to
  BufferSize,  \* option lua.statebuffer
  UIntRange,   \* 2^w for the w-bit unsigned to_create (2^32 in the build)
  Faults,      \* what may throw: creating a state, reloading the scripts (devmode),
               \* the bootstrap, a handler
  NoState,     \* a lua_state_ex with L = nullptr
  NoCache      \* a worker without a local cache (nullptr)

\* The threads are distinct and "no state" and "no cache" are neither; the
\* buffer size fits the signed half of the counter that is derived from it.
ASSUME PoolAssumption ==
  /\ HomeOf \in [Fibers -> Workers]
  /\ NoState \notin States
  /\ NoCache \notin Seq(States)
  /\ UIntRange \in Nat /\ UIntRange > 1
  /\ BufferSize \in Int
  /\ Faults \subseteq {"create", "reload", "bootstrap", "handler"}

VARIABLES
  opened,               \* lua_State objects between luaL_newstate and lua_close
  objects,              \* states whose p_objects vector is not empty
  m_state_cache,        \* the global cache, a vector used as a stack
  m_state_cache_local,  \* per worker: its thread local cache, or NoCache
  posted,               \* per worker: lambdas in its io service, in order
  running,              \* workers whose io service is being run
  held,                 \* per fiber: its request's Lex, NoState when idle
  watcher,              \* the watcher thread: [pc, i, Lex]
  m_stop,               \* the manager's termination flag
  m_iosvcs,             \* the registered io services
  main                  \* the main thread: [pc, Lex, waits]

poolVars    == <<opened, objects, m_state_cache, m_state_cache_local>>
vars == <<poolVars, posted, running, held, watcher, m_stop, m_iosvcs, main>>

\* The locals of the two threads that are not workers.
WatcherThread ==
  [pc : {"check", "sleep", "fill", "push", "exited"},
   i : Int, Lex : States \cup {NoState}]

MainThread ==
  [pc : {"bootstrap", "bootstrapping", "starting", "registering",
         "serving", "unregistering", "joining", "destroyed"},
   Lex : States \cup {NoState}, waits : BOOLEAN]

TypeOK ==
  /\ opened \subseteq States
  /\ objects \subseteq States
  /\ m_state_cache \in Seq(States)
  /\ m_state_cache_local \in [Workers -> Seq(States) \cup {NoCache}]
  /\ posted \in [Workers -> Seq({"make", "reset"})]
  /\ running \subseteq Workers
  /\ held \in [Fibers -> States \cup {NoState}]
  /\ watcher \in WatcherThread
  /\ m_stop \in BOOLEAN
  /\ m_iosvcs \subseteq Workers
  /\ main \in MainThread

Init ==
  /\ opened = {}
  /\ objects = {}
  /\ m_state_cache = <<>>
  /\ m_state_cache_local = [w \in Workers |-> NoCache]
  /\ posted = [w \in Workers |-> <<>>]
  /\ running = {}
  /\ held = [f \in Fibers |-> NoState]
  /\ watcher = [pc |-> "check", i |-> 0, Lex |-> NoState]
  /\ m_stop = FALSE
  /\ m_iosvcs = {}
  /\ main = [pc |-> "bootstrap", Lex |-> NoState, waits |-> FALSE]

-----------------------------------------------------------------------------
(* create_state, destroy_state and the arithmetic of the watcher.          *)

\* create_state returns s.
CreateState(s) ==
  /\ s \in States \ opened
  /\ opened' = opened \cup {s}

\* create_state throws: luaL_newstate found no memory, or a library or script
\* failed to load and the new lua_State is dropped without lua_close.
CreateStateThrows ==
  \/ /\ opened = States
     /\ UNCHANGED opened
  \/ /\ "create" \in Faults
     /\ \E s \in States : CreateState(s)

\* destroy_state for every state of S: delete the library objects, close.
DestroyStates(S) ==
  /\ opened' = opened \ S
  /\ objects' = objects \ S

\* The conversions of "to_create = buffer_size - size" and "int i = to_create".
ToUInt(n) == n % UIntRange
BadToInt(u) == u  \* slip: the loop counter is unsigned too
ToInt(u)  == IF 2 * u < UIntRange THEN u ELSE u - UIntRange

\* Slip: off by one.
BadMissingStates == ToInt(ToUInt(BufferSize - Len(m_state_cache) - 1))

MissingStates == ToInt(ToUInt(BufferSize - Len(m_state_cache)))

-----------------------------------------------------------------------------
(* The watcher thread.                                                     *)

\* Slip: while (true).
BadWatcherCheck ==
  /\ watcher.pc = "check"
  /\ watcher' = [watcher EXCEPT !.pc = "sleep"]
  /\ UNCHANGED <<poolVars, posted, running, held, m_stop, m_iosvcs, main>>

\* while (!m_stop)
WatcherCheck ==
  /\ watcher.pc = "check"
  /\ watcher' = [watcher EXCEPT !.pc = IF m_stop THEN "exited" ELSE "sleep"]
  /\ UNCHANGED <<poolVars, posted, running, held, m_stop, m_iosvcs, main>>

\* The sleep is over: read the size under m_state_mtx.
WatcherCount ==
  /\ watcher.pc = "sleep"
  /\ watcher' = [pc |-> "fill", i |-> MissingStates, Lex |-> NoState]
  /\ UNCHANGED <<poolVars, posted, running, held, m_stop, m_iosvcs, main>>

\* Slip: the exception is logged and the null state pushed all the same.
BadWatcherCreate ==
  /\ watcher.pc = "fill"
  /\ watcher.i > 0
  /\ CreateStateThrows
  /\ watcher' = [pc |-> "push", i |-> watcher.i, Lex |-> NoState]
  /\ UNCHANGED <<objects, m_state_cache, m_state_cache_local, posted, running,
                 held, m_stop, m_iosvcs, main>>

\* The state is built without the mutex; an exception ends the round.
WatcherCreate ==
  /\ watcher.pc = "fill"
  /\ watcher.i > 0
  /\ \/ \E s \in States :
          /\ CreateState(s)
          /\ watcher' = [pc |-> "push", i |-> watcher.i, Lex |-> s]
     \/ /\ CreateStateThrows
        /\ watcher' = [pc |-> "check", i |-> 0, Lex |-> NoState]
  /\ UNCHANGED <<objects, m_state_cache, m_state_cache_local, posted, running,
                 held, m_stop, m_iosvcs, main>>

WatcherPush ==
  /\ watcher.pc = "push"
  /\ m_state_cache' = Append(m_state_cache, watcher.Lex)
  /\ watcher' = [pc |-> "fill", i |-> watcher.i - 1, Lex |-> NoState]
  /\ UNCHANGED <<opened, objects, m_state_cache_local, posted, running, held,
                 m_stop, m_iosvcs, main>>

WatcherRoundEnds ==
  /\ watcher.pc = "fill"
  /\ watcher.i <= 0
  /\ watcher' = [pc |-> "check", i |-> 0, Lex |-> NoState]
  /\ UNCHANGED <<poolVars, posted, running, held, m_stop, m_iosvcs, main>>

Watcher == \/ WatcherCheck \/ WatcherCount \/ WatcherCreate
           \/ WatcherPush \/ WatcherRoundEnds

-----------------------------------------------------------------------------
(* A request on fiber f: lua_engine::handle_request.                       *)

\* Slip: m_state_cache_local is static, not thread_local.
BadLocalCache(f) == m_state_cache_local[CHOOSE w \in Workers : TRUE]

LocalCache(f) == m_state_cache_local[HomeOf[f]]

HasLocalState(f) == LocalCache(f) \notin {NoCache, <<>>}

CanRun(f) == HomeOf[f] \in running

\* load_code_from_scripts may throw in devmode; the state, already out of the
\* cache, then belongs to nobody.
Borrow(f, s) ==
  \/ held' = [held EXCEPT ![f] = s]
  \/ "reload" \in Faults /\ UNCHANGED held

GetStateLocal(f) ==
  /\ CanRun(f)
  /\ held[f] = NoState
  /\ HasLocalState(f)
  /\ Borrow(f, Last(LocalCache(f)))
  /\ m_state_cache_local' =
       [m_state_cache_local EXCEPT ![HomeOf[f]] = Front(LocalCache(f))]
  /\ UNCHANGED <<opened, objects, m_state_cache, posted, running, watcher,
                 m_stop, m_iosvcs, main>>

\* Slip: back() without pop_back().
BadGetStateGlobal(f) ==
  /\ CanRun(f)
  /\ held[f] = NoState
  /\ ~HasLocalState(f)
  /\ m_state_cache # <<>>
  /\ Borrow(f, Last(m_state_cache))
  /\ UNCHANGED <<poolVars, posted, running, watcher, m_stop, m_iosvcs, main>>

GetStateGlobal(f) ==
  /\ CanRun(f)
  /\ held[f] = NoState
  /\ ~HasLocalState(f)
  /\ m_state_cache # <<>>
  /\ Borrow(f, Last(m_state_cache))
  /\ m_state_cache' = Front(m_state_cache)
  /\ UNCHANGED <<opened, objects, m_state_cache_local, posted, running,
                 watcher, m_stop, m_iosvcs, main>>

\* Both caches are empty: the request builds its own state or fails.
GetStateCreates(f) ==
  /\ CanRun(f)
  /\ held[f] = NoState
  /\ ~HasLocalState(f)
  /\ m_state_cache = <<>>
  /\ \/ \E s \in States :
          /\ CreateState(s)
          /\ held' = [held EXCEPT ![f] = s]
     \/ /\ CreateStateThrows
        /\ UNCHANGED held
  /\ UNCHANGED <<objects, m_state_cache, m_state_cache_local, posted, running,
                 watcher, m_stop, m_iosvcs, main>>

\* The handler's Lua code creates a library object (lib_new).
HandlerUsesLibrary(f) ==
  /\ CanRun(f)
  /\ held[f] \in States \ objects
  /\ objects' = objects \cup {held[f]}
  /\ UNCHANGED <<opened, m_state_cache, m_state_cache_local, posted, running,
                 held, watcher, m_stop, m_iosvcs, main>>

\* Slip: the library objects are kept.
BadFreeState(f) ==
  /\ CanRun(f)
  /\ held[f] # NoState
  /\ m_state_cache' = Append(m_state_cache, held[f])
  /\ held' = [held EXCEPT ![f] = NoState]
  /\ UNCHANGED <<opened, objects, m_state_cache_local, posted, running, watcher,
                 m_stop, m_iosvcs, main>>

\* The response is sent and the state goes back: free_state.
FreeState(f) ==
  /\ CanRun(f)
  /\ held[f] # NoState
  /\ objects' = objects \ {held[f]}
  /\ IF LocalCache(f) # NoCache
       THEN /\ m_state_cache_local' =
                 [m_state_cache_local EXCEPT
                    ![HomeOf[f]] = Append(LocalCache(f), held[f])]
            /\ UNCHANGED m_state_cache
       ELSE /\ m_state_cache' = Append(m_state_cache, held[f])
            /\ UNCHANGED m_state_cache_local
  /\ held' = [held EXCEPT ![f] = NoState]
  /\ UNCHANGED <<opened, posted, running, watcher, m_stop, m_iosvcs, main>>

\* One of the log_throw exits: free_state is skipped, the copy of Lex dies with
\* the stack frame.
HandlerThrows(f) ==
  /\ "handler" \in Faults
  /\ CanRun(f)
  /\ held[f] # NoState
  /\ held' = [held EXCEPT ![f] = NoState]
  /\ UNCHANGED <<poolVars, posted, running, watcher, m_stop, m_iosvcs, main>>

Request(f) == \/ GetStateLocal(f) \/ GetStateGlobal(f) \/ GetStateCreates(f)
              \/ HandlerUsesLibrary(f) \/ FreeState(f) \/ HandlerThrows(f)

-----------------------------------------------------------------------------
(* A worker runs the handlers posted to its io service, in order.          *)

\* The lambda of register_io_service.
MakeLocalCache(w) ==
  /\ Head(posted[w]) = "make"
  /\ m_state_cache_local' = [m_state_cache_local EXCEPT ![w] = <<>>]
  /\ UNCHANGED <<opened, objects, main>>

\* Slips: the closed states stay in the cache; the cache is cleared, not reset.
BadResetKeepsStates(w) ==
  /\ Head(posted[w]) = "reset"
  /\ DestroyStates(ToSet(m_state_cache_local[w]))
  /\ main' = [main EXCEPT !.waits = FALSE]
  /\ UNCHANGED m_state_cache_local

BadResetKeepsCache(w) ==
  /\ Head(posted[w]) = "reset"
  /\ DestroyStates(ToSet(m_state_cache_local[w]))
  /\ m_state_cache_local' = [m_state_cache_local EXCEPT ![w] = <<>>]
  /\ main' = [main EXCEPT !.waits = FALSE]

\* The lambda of unregister_io_service and the "done" of io_service_post_wait.
ResetLocalCache(w) ==
  /\ Head(posted[w]) = "reset"
  /\ DestroyStates(ToSet(m_state_cache_local[w]))
  /\ m_state_cache_local' = [m_state_cache_local EXCEPT ![w] = NoCache]
  /\ main' = [main EXCEPT !.waits = FALSE]

RunPosted(w) ==
  /\ w \in running
  /\ posted[w] # <<>>
  /\ MakeLocalCache(w) \/ ResetLocalCache(w)
  /\ posted' = [posted EXCEPT ![w] = Tail(posted[w])]
  /\ UNCHANGED <<m_state_cache, running, held, watcher, m_stop, m_iosvcs>>

-----------------------------------------------------------------------------
(* The main thread: server_impl::init, start, stop and the destructor.     *)

\* lua_engine::bootstrap creates a state of its own ...
BootstrapCreates ==
  /\ main.pc = "bootstrap"
  /\ \/ \E s \in States :
          /\ CreateState(s)
          /\ main' = [pc |-> "bootstrapping", Lex |-> s, waits |-> FALSE]
          /\ UNCHANGED m_stop
     \/ /\ CreateStateThrows
        /\ main' = [pc |-> "joining", Lex |-> NoState, waits |-> FALSE]
        /\ m_stop' = TRUE
  /\ UNCHANGED <<objects, m_state_cache, m_state_cache_local, posted, running,
                 held, watcher, m_iosvcs>>

\* ... whose script may create library objects ...
BootstrapUsesLibrary ==
  /\ main.pc = "bootstrapping"
  /\ main.Lex \notin objects
  /\ objects' = objects \cup {main.Lex}
  /\ UNCHANGED <<opened, m_state_cache, m_state_cache_local, posted, running,
                 held, watcher, m_stop, m_iosvcs, main>>

\* ... and destroys it.
BootstrapDestroys ==
  /\ main.pc = "bootstrapping"
  /\ DestroyStates({main.Lex})
  /\ main' = [pc |-> "starting", Lex |-> NoState, waits |-> FALSE]
  /\ UNCHANGED <<m_state_cache, m_state_cache_local, posted, running, held,
                 watcher, m_stop, m_iosvcs>>

\* bootstrap throws (its state is not destroyed), or there is no route, or no
\* endpoint can be bound: the server object, and the manager with it, goes.
StartFails ==
  /\ \/ main.pc = "bootstrapping" /\ "bootstrap" \in Faults
     \/ main.pc = "starting"
  /\ main' = [pc |-> "joining", Lex |-> NoState, waits |-> FALSE]
  /\ m_stop' = TRUE
  /\ UNCHANGED <<poolVars, posted, running, held, watcher, m_iosvcs>>

StartWorkers ==
  /\ main.pc = "starting"
  /\ running' = Workers
  /\ main' = [main EXCEPT !.pc = "registering"]
  /\ UNCHANGED <<poolVars, posted, held, watcher, m_stop, m_iosvcs>>

\* Slip: the io service is registered twice.
BadRegisterIoService(w) ==
  /\ main.pc = "registering"
  /\ w \notin m_iosvcs
  /\ m_iosvcs' = m_iosvcs \cup {w}
  /\ posted' = [posted EXCEPT ![w] = @ \o <<"make", "make">>]
  /\ main' = [main EXCEPT !.pc = IF m_iosvcs' = Workers THEN "serving" ELSE @]
  /\ UNCHANGED <<poolVars, running, held, watcher, m_stop>>

RegisterIoService(w) ==
  /\ main.pc = "registering"
  /\ w \notin m_iosvcs
  /\ m_iosvcs' = m_iosvcs \cup {w}
  /\ posted' = [posted EXCEPT ![w] = Append(@, "make")]
  /\ main' = [main EXCEPT !.pc = IF m_iosvcs' = Workers THEN "serving" ELSE @]
  /\ UNCHANGED <<poolVars, running, held, watcher, m_stop>>

\* Slip: the lambda is dispatched ahead of what the io service has queued.
BadUnregisterIoService(w) ==
  /\ \/ main.pc = "serving"
     \/ main.pc = "unregistering" /\ ~main.waits
  /\ w \in m_iosvcs
  /\ m_iosvcs' = m_iosvcs \ {w}
  /\ posted' = [posted EXCEPT ![w] = <<"reset">> \o @]
  /\ main' = [pc |-> "unregistering", Lex |-> NoState, waits |-> TRUE]
  /\ UNCHANGED <<poolVars, running, held, watcher, m_stop>>

\* A signal stops the server; unregister_io_service posts and then waits.
UnregisterIoService(w) ==
  /\ \/ main.pc = "serving"
     \/ main.pc = "unregistering" /\ ~main.waits
  /\ w \in m_iosvcs
  /\ m_iosvcs' = m_iosvcs \ {w}
  /\ posted' = [posted EXCEPT ![w] = Append(@, "reset")]
  /\ main' = [pc |-> "unregistering", Lex |-> NoState, waits |-> TRUE]
  /\ UNCHANGED <<poolVars, running, held, watcher, m_stop>>

\* worker::stop and join: what a worker has not run by now it never runs.  Then
\* the destructor sets m_stop and joins the watcher.
StopWorkers ==
  /\ main.pc = "unregistering"
  /\ ~main.waits
  /\ m_iosvcs = {}
  /\ running' = {}
  /\ m_stop' = TRUE
  /\ main' = [main EXCEPT !.pc = "joining"]
  /\ UNCHANGED <<poolVars, posted, held, watcher, m_iosvcs>>

\* ~lua_state_manager after the join.
DestroyManager ==
  /\ main.pc = "joining"
  /\ watcher.pc = "exited"
  /\ DestroyStates(ToSet(m_state_cache))
  /\ m_state_cache' = <<>>
  /\ main' = [main EXCEPT !.pc = "destroyed"]
  /\ UNCHANGED <<m_state_cache_local, posted, running, held, watcher, m_stop,
                 m_iosvcs>>

MainStarts == \/ BootstrapCreates \/ BootstrapUsesLibrary \/ BootstrapDestroys
              \/ StartFails \/ StartWorkers
              \/ \E w \in Workers : RegisterIoService(w)

MainStops == \/ \E w \in Workers : UnregisterIoService(w)
             \/ StopWorkers \/ DestroyManager

\* The process has ended.
Terminated == main.pc = "destroyed" /\ UNCHANGED vars

Next == \/ Watcher
        \/ \E f \in Fibers : Request(f)
        \/ \E w \in Workers : RunPosted(w)
        \/ MainStarts
        \/ MainStops
        \/ Terminated

Spec == Init /\ [][Next]_vars

\* The watcher sleeps and works for ever; a running worker gets to the handlers
\* posted to it; once a stop began the main thread carries it through.  Nothing
\* is assumed of the requests, nor that the server is ever stopped.
Fairness ==
  /\ WF_vars(Watcher)
  /\ \A w \in Workers : WF_vars(RunPosted(w))
  /\ WF_vars(main.pc # "serving" /\ MainStops)

FairSpec == Spec /\ Fairness

-----------------------------------------------------------------------------
(* Ownership.                                                              *)

HeldStates == {held[f] : f \in Fibers} \ {NoState}

\* The states cached by worker w.
LocalStates(w) ==
  IF m_state_cache_local[w] = NoCache THEN {} ELSE ToSet(m_state_cache_local[w])

PooledStates == ToSet(m_state_cache) \cup UNION {LocalStates(w) : w \in Workers}

OwnedStates ==
  PooledStates \cup HeldStates \cup ({watcher.Lex, main.Lex} \ {NoState})

NoDuplicates(q) == \A i, j \in 1 .. Len(q) : q[i] = q[j] => i = j

\* A lua_State is in one place: at most once in one cache, or with one request,
\* or with the watcher or the bootstrap.  Two requests on one lua_State would
\* run it from two fibers or threads at once, and no test runs them together.
OwnedOnce ==
  /\ NoDuplicates(m_state_cache)
  /\ \A w \in Workers :
       m_state_cache_local[w] # NoCache => NoDuplicates(m_state_cache_local[w])
  /\ \A w \in Workers : LocalStates(w) \cap ToSet(m_state_cache) = {}
  /\ \A v, w \in Workers : v # w => LocalStates(v) \cap LocalStates(w) = {}
  /\ \A f \in Fibers : held[f] \notin PooledStates
  /\ \A f, g \in Fibers : held[f] = held[g] /\ held[f] # NoState => f = g
  /\ watcher.Lex \notin PooledStates \cup HeldStates
  /\ main.Lex \notin PooledStates \cup HeldStates
  /\ watcher.Lex = main.Lex => main.Lex = NoState

\* No cache, request or thread refers to a state that was closed: neither the
\* reset of a local cache nor the destructor closes a state somebody else uses.
NoUseAfterClose == OwnedStates \subseteq opened

\* The lambda of unregister_io_service dereferences m_state_cache_local without
\* a check: when it runs, the lambda of register_io_service has run before it.
CacheExistsAtReset ==
  \A w \in running :
    posted[w] # <<>> /\ Head(posted[w]) = "reset"
      => m_state_cache_local[w] # NoCache

\* A state in a cache carries no library objects of the request before
\* (lua_state_manager::free_state deletes them on the way back).
PooledStatesAreClean == PooledStates \cap objects = {}

\* The states the pool and its requests own never outnumber lua.statebuffer
\* plus the fibers: the watcher, whose difference of an int and a size_t wraps
\* when states came back to the global cache, never runs away; a worker's cache
\* never exceeds the number of requests it ran at once.
PoolBounded ==
  /\ Cardinality(PooledStates \cup HeldStates \cup ({watcher.Lex} \ {NoState}))
       <= (IF BufferSize > 0 THEN BufferSize ELSE 0) + Cardinality(Fibers)
  /\ \A w \in Workers :
       LET mine == {f \in Fibers : HomeOf[f] = w}
       IN Cardinality(LocalStates(w) \cup ({held[f] : f \in mine} \ {NoState}))
            <= Cardinality(mine)

\* Every open lua_State has an owner (without faults; the error exits of
\* handle_request forfeit the state).
NoStateLost == opened \subseteq OwnedStates

\* When the manager is gone, every state was closed, wherever it was when the
\* server stopped, except those of requests cut off by worker::stop.
AllClosedAtExit == main.pc = "destroyed" => opened \subseteq HeldStates

\* library.h:36: the library objects of a request are deleted when the request
\* is finished.
ObjectsDeletedAfterRequest == objects \subseteq HeldStates \cup {main.Lex}

\* While the server runs, the watcher brings the global cache back to
\* lua.statebuffer states (lua_state_manager.h: "A thread will make sure the
\* state cache has enough state objects available").
BufferRefills ==
  []<>(main.pc = "serving" => Len(m_state_cache) >= BufferSize)

\* A stop that began ends, as far as the manager is concerned: the wait of every
\* unregister_io_service and the join of the watcher, whatever the requests do.
StopTerminates ==
  main.pc \in {"unregistering", "joining"} ~> main.pc = "destroyed"

-----------------------------------------------------------------------------
(* What the pool promises: StateOwnership.                                 *)

Owner(s) ==
  CASE s \notin opened -> <<"nobody">>
    [] s = watcher.Lex -> <<"watcher">>
    [] s = main.Lex -> <<"main">>
    [] s \in HeldStates -> <<"fiber", CHOOSE f \in Fibers : held[f] = s>>
    [] s \in ToSet(m_state_cache) -> <<"pool">>
    [] \E w \in Workers : s \in LocalStates(w) ->
         <<"worker", CHOOSE w \in Workers : s \in LocalStates(w)>>
    [] OTHER -> <<"lost">>

Owners == [s \in States |-> Owner(s)]

Ownership == INSTANCE StateOwnership WITH owner <- Owners

\* Every step hands states over only as StateOwnership allows.
HandsOverStates == Ownership!Spec

=============================================================================
