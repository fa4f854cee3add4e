--------------------------- MODULE StateOwnership ---------------------------
(***************************************************************************)
(* What the pool of Lua states promises its users: a lua_State has one     *)
(* owner at a time, and changes hands only in the ways listed here.  A     *)
(* state cached by a worker thread is used by that thread's fibers alone,  *)
(* which is why m_state_cache_local needs no lock.                         *)
(***************************************************************************)
CONSTANTS States, Workers, Fibers, HomeOf

VARIABLE owner

Nobody    == <<"nobody">>   \* not created, or closed
Lost      == <<"lost">>     \* open, and nobody refers to it any more
Pool      == <<"pool">>     \* in the global cache
Watcher   == <<"watcher">>  \* being created by the watcher thread
Main      == <<"main">>     \* used by the bootstrap
Worker(w) == <<"worker", w>>
Fiber(f)  == <<"fiber", f>>

FibersOf(W) == {Fiber(f) : f \in {g \in Fibers : HomeOf[g] \in W}}

\* Who a state may go to from owner o.
Receivers(o) ==
  CASE o = Nobody -> {Watcher, Main, Lost} \cup FibersOf(Workers)
    [] o = Watcher -> {Pool}
    [] o = Main -> {Nobody, Lost}
    [] o = Pool -> {Lost} \cup FibersOf(Workers)
    [] o \in {Worker(w) : w \in Workers} -> {Lost} \cup FibersOf({o[2]})
    [] o \in FibersOf(Workers) -> {Worker(HomeOf[o[2]]), Pool, Lost}
    [] o = Lost -> {}

\* A request, the watcher and the bootstrap work with one state at a time.
TakesOne(o) == o \in {Watcher, Main} \cup FibersOf(Workers)

Init == owner = [s \in States |-> Nobody]

HandOver(s) ==
  \E o \in Receivers(owner[s]) :
    /\ TakesOne(o) => \A t \in States : owner[t] # o
    /\ owner' = [owner EXCEPT ![s] = o]

\* A cache is destroyed with all its states.
CloseAll(o) ==
  owner' = [s \in States |-> IF owner[s] = o THEN Nobody ELSE owner[s]]

Next == \/ \E s \in States : HandOver(s)
        \/ CloseAll(Pool)
        \/ \E w \in Workers : CloseAll(Worker(w))

Spec == Init /\ [][Next]_owner

=============================================================================
