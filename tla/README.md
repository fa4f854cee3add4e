# A verification of petrel

Petrel is a web server for services written in Lua: HTTP requests are routed to
Lua functions, which run on fibers so that blocking calls block only their own
request. These modules model the parts of `src/` whose correctness depends on
what several threads and fibers do in which order, check them with TLC on small
instances, and prove the most important invariants with TLAPS for all instances.

## The system

### Threads

| thread | runs | source |
| --- | --- | --- |
| main | `init` (bootstrap script), `start`, waits for a signal, `stop`, `join`, destructors | `main.cpp:58-70`, `server_impl.cpp` |
| workers | one io service each; fibers of sessions and handlers on it | `worker.cpp`, or libnghttp2 for HTTP/2 |
| state watcher | keeps the global cache of Lua states filled | `lua_state_manager.cpp:33-54` |
| refresh thread | polls the directories of static files | `file_cache.cpp:49-87` |
| metrics | aggregates and reports once a second | `registry.cpp:68-133` |

Within a worker thread fibers are cooperative: code between two blocking calls
is atomic for the other fibers of the thread, and lambdas posted to the io
service run one after the other in the order they were posted. Three components
use this to keep a `thread_local` cache per worker without a lock
(`lua_state_manager`, `file_cache`, `fiber_cache`), created and destroyed by
lambdas the main thread posts.

### Components

| component | state | operations | interacts with | what makes it correct |
| --- | --- | --- | --- | --- |
| `lua_state_manager` | global cache under `m_state_mtx`, local cache per worker, io services, `m_stop` | get, free, create, destroy, register, unregister, watcher round, destructor | engine, workers, main | a state has one owner; nothing used after close; clean when pooled; bounded; refilled; nothing lost; stop ends |
| `lua_engine` | none of its own, a borrowed state per request | bootstrap, handle_request with nine error exits | pool, libraries, request | a state comes back on every path; its objects are deleted |
| `server_impl` | routes, stop and join functions, workers | init, start, stop, add_route, add_directory_route, (un)register_io_services | all | order of start and stop; one answer per request |
| `file_cache` | main map under `m_file_mtx`, local map per worker, directories | add_directory, add_file, remove_file, get_file, refresh round, (un)register | file system, workers | changes reach every worker; removed files vanish; no step backwards |
| `fiber_cache` | idle fibers per worker, count, `m_stop` | run, register, unregister | routes | work given to a fiber is run once; stop waits for active fibers |
| `worker`, `session` | new sessions, acceptors, `m_stop` | do_accept, add_session, run, stop, start | server_impl, request | an accepted session is started; stop ends |
| `request`, `router` | response promise or HTTP/2 stream; path tree | send_response, find_route | session, engine | exactly one response; longest prefix |
| `resolver_cache` | entries with expiry, one mutex per protocol | async_resolve | http_client, metrics | no answer that was wrong for longer than its time to live |
| `metrics` | map of metrics, queue of new ones, timer's two buffers | register, increment, update, aggregate | everything | no count lost, no buffer read while written |
| `http_client`, `http2_client` | socket, buffers, deadline timer, promise | connect, get, post | resolver, io service | a timeout only after its deadline; the response is the one to the call; calls end |
| fiber scheduler, yield adapter | ready queue, timers | awakened, pick_next, suspend | io service | a suspended fiber is resumed |
| builtin libraries, log, options, utilities | none that threads share in steps | - | - | - |

`PROJECT.json` lists the same components with their status, and under `hazards`
the places where each of them is hard to test.

## Modules

| module | what it is | its instances | its proofs |
| --- | --- | --- | --- |
| `LuaStatePool` | the pool of Lua states in detail: watcher, requests on fibers, posted lambdas, start and stop | `MCLuaStatePool` | `LuaStatePoolProofs`, `LuaStateOwnershipProofs` |
| `StateOwnership` | what the pool promises: who may own a state and to whom it may pass | | |
| `FiberCache` | the handler fibers of one worker, from registration to the stop of the io service | `MCFiberCache` | `FiberCacheProofs` |
| `FileCache` | refresh thread, posted updates and lookups of the static files, registration and stop | `MCFileCache` | `FileCacheProofs` |
| `WorkerSessions` | accept fibers, the hand-over of sessions between workers, start and stop of the workers | `MCWorkerSessions` | `WorkerSessionsProofs` |
| `RequestLifecycle` | a request from its session or stream to its response; EXTENDS `Router` | `MCRequestLifecycle` | `RequestLifecycleProofs` |
| `Router` | the tree of request paths: insert and find, as operators | | `RequestLifecycleProofs` |
| `OneResponse` | what a client is promised: at most one response, and only to what was asked | | |
| `HttpClient`, `Http2Client` | the client objects of the Lua libraries, with their timers, promises and peers | `MCClients` | `ClientsProofs` |
| `ResolverCache` | the cached DNS answers that all fibers share | `MCClients` | `ClientsProofs` |
| `TimerMetric` | a timer's two buffers and its histograms | `MCMetrics` | `MetricsProofs` |
| `MetricsRegistry` | registration of metrics, counters and meters, the registry's thread, the graphite report | `MCMetrics` | `MetricsProofs` |

`LuaStatePool` composes the pool with the engine's requests, the bootstrap and the
start and stop of the server; `RequestLifecycle` composes router, routes, engine,
session and streams. `MCClients` and `MCMetrics` only put modules side by side that
share no variable, so that a behaviour runs one of them. They EXTEND these modules,
as do `ClientsProofs` and `MetricsProofs`, so what each needs under the same name
(`Init`, `Next`, `TypeOK`, ...) begins with the module's own there: `HttpInit`,
`Http2Init`, `ResolverInit`, `TimerInit`, `RegistryInit`.

An operator named `Bad...` is not part of a specification: it is a slip somebody
could make in the definition that follows it, kept to show that the properties
notice it. `PROJECT.json` (`map`) names the source lines of every definition.

### LuaStatePool

The variables carry the names of the code: `m_state_cache` and
`m_state_cache_local` are sequences used as stacks (`back`, `pop_back`,
`push_back`), `posted` is the queue of lambdas of a worker's io service,
`held[f]` is the local variable `Lex` of `handle_request` on fiber `f`. A Lua
state is a model value; `opened` is the set of those between `luaL_newstate` and
`lua_close`, `objects` the set of those whose vector of library objects is not
empty. What the state contains is left out.

`get_state` and `free_state` are single steps: they block on nothing but
`m_state_mtx`, and a fiber gives its thread away only where it blocks. A request
is several steps, because its Lua code may block anywhere; between them fibers
of the same worker, posted lambdas, other workers, the watcher and the main
thread come in. The watcher is split at each lock and at `create_state`, which
it calls without the lock.

Failures are chosen by the constant `Faults`: `create_state` throws (with or
without having called `luaL_newstate`), a script cannot be reloaded in devmode,
the bootstrap fails, a handler leaves through one of the `log_throw` exits. When
all of `States` is open, `luaL_newstate` fails whatever `Faults` says: this is
also the bound on memory. `UIntRange` stands for 2^32, so that the wrap of
`to_create` happens with small numbers.

HTTP/2 servers run the workers inside libnghttp2; `register_io_services` and
`unregister_io_services` are the same. `StartWorkers` models the HTTP/1 path.

### FiberCache

One worker; the cache is `thread_local` and workers share nothing of it.
`m_cache` is the stack of idle fibers, `fiber[x]` where the fiber of context `x` is
(`cv.wait` is "waiting"), `func[x]` its `func`, `status` and `runs` what became of
each function. `RunCached`, `RunNew` and `RunDetached` are the three ways of `run`;
`StartWork`, `FinishWork` and `ExitFiber` the loop of `get_fiber`'s lambda
(`fiber_cache.h:49-73`), split where the function may block. `notify_one` is
forgotten when the fiber does not wait. `unregister_io_service` is four posted
lambdas or waits of the main thread: set `m_stop`, count until every fiber is back,
join them one by one (`ContinueJoin` is the return of a join), reset. The sleep
between two counts takes no time. A function that comes after `m_stop` runs on a
detached fiber (`RunDetached`), which nobody counts or joins: when the caches are gone
`worker::stop` sleeps 50 ms and stops the io service (`StopIoService`), and a detached
function that has not ended by then never does.

### FileCache

The file system changes at any moment. A file's content is its version; a cached
file carries the version its size and time were read at (`stamp`) and the
version its data was read at (`data`), because `file`'s constructor reads them
in this order and the file may change in between. One assumption about the
outside: every change gives the file a size or modification time it did not have
before (the code compares seconds, so a rewrite of equal size within a second
escapes it). A file that goes away between `exists` and `file_size` throws out of
the refresh thread, which ends the process (`StatThrows`). The worker's lookups
are steps of their own; only a lookup that copies from the main map changes
anything.

The main thread registers every worker in two steps, `RegisterIoService` (`push_back`)
and `PostMake` (the lambda that makes the map), and unregisters it in two,
`UnregisterIoService` (the erase) and `PostReset`, for which it waits. Nothing keeps
these steps away from the refresh thread, which iterates over `m_iosvcs` without a
lock: each of them may come at any moment of it. `m_iosvcs` has a memory and a size;
the loop keeps the end it started with, so after an erase it reads the pointer that was
left behind, possibly the same twice, and after a `push_back` that moved the vector
(`stale`) it reads the memory the vector had, which holds the old pointers or by now
something else (`FollowsFreedPointer`). An update that reaches a worker before its map
is made or after its reset follows a null pointer (`RunPosted` sets `crashed`).

The code does not promise anything to a worker that is being registered or unregistered
while an update is under way. The history variable `overlapped` collects these workers
(`VectorChanges`: the vector changes during an update; `UpdateStarts`: an update starts
between a worker's `push_back` and its post), and the properties are about all others:
`UpdatesFindMap` at every moment, the stop included, the others while the server serves.

### WorkerSessions

`acceptor[a]` is the accept fiber of acceptor `a` (the worker and the session it
has in hand), `starter[w]` the fiber of `worker::run` that starts sessions.
`active[w]` is the fiber that has thread `w`: it keeps the thread from step to
step and gives it away only where the code blocks, on a mutex, on the condition
variable or in `async_accept`. So fibers of one thread do not interleave between
two blocking calls, and fibers of different threads do at every step.
`notify_one` wakes a waiting fiber and is forgotten when there is none. A fiber
that finds the mutex held is suspended (`Suspend`) and tries again.

`connected` counts the connections; the session of the n-th is n. A started
session is recorded in `started`; its request loop is not part of the module.
The io service of a worker ends (`StopIoService`) when no fiber has its thread;
what Boost.Fiber does then with fibers that still wait is not modelled.
`m_next_worker` is kept reduced to an index, which the code does on use.

### Router, RequestLifecycle and OneResponse

A path is a sequence of characters and a node of the tree the path that leads to
it: `next` are the nodes with children, `func` those with a function. `path_set::find`
goes down while the node it is at has children and keeps the last node with a
function. `FindNode` says this without the loop: the nodes it visits are the prefixes
of the path above each of which every node has children (`Visited`), and the one it
keeps is the longest with a function. The bootstrap adds routes in any order
(`AddRoute`), "lua" for `add_route` and "static" for `add_directory_route`; then
requests come.

With HTTP/1 a client is a connection and its session: `ReadRequest`,
`RouteRequest`, `WriteResponse` are the pieces of `session::start` between its
blocking calls, `ReadFails` and the failed write its ends. `promise[c]` is the
response in the request object, whose promise `send_response` sets and
`req->wait()` waits for. With HTTP/2 a client is one stream: `Http2Request` and
`Http2ContentReceived` are the callbacks of `start_http2`, and `send_response`
writes to the stream, if the peer has not closed it. `LuaRoute`, `StaticRoute` and
`DefaultRoute` are what the routes do when they are called; the handler's fiber is
`HandlerReturns` or `HandlerThrows`, which stand for `handle_request` to its
normal end or to one of its `log_throw` exits. Headers are counted where
`send_response` adds them to what the handler set. `metric` are `requests` and
`errors`; the third, `m_metric_not_impl`, is never created, and the branches that
use it are `Crash`.

`OneResponse` knows requests that were asked and their responses. `AskedRequests`
maps a client's stage to it: a request is asked once it was handed to a route.

### HttpClient and Http2Client

`op` is the asio operation the handler's fiber is in, with the state of its yield
(`fiber/detail/yield.hpp`): the fiber may be suspended before or after the
completion, `get` returns when it has come. `async_connect`, `async_write` and the reads
are made of operations on the socket, of which one is in progress (`ConnectSome`,
`WriteSome`, `ReadSome`); when it has ended its handler is queued (`op.queued`), and that
handler ends the whole or starts the next operation (`Continues`): the next endpoint
after a failure, more to write, more to read.

The deadline timer is `armed` or has handlers in the io service's queue, "expired" or
"aborted". `m_sock.cancel()` (`TimeoutHandler`) ends the operation in progress and nothing
else. So a connect that is cancelled goes on with the next endpoint, without a deadline;
a cancel that comes between two operations of a read is lost; and a handler that was
queued before the timer was cancelled cancels whatever operation the socket has then. On
a closed socket `cancel` throws, and nothing catches what leaves the io service's `run`
(op "terminated"). A response is a head and body pieces with the number of their request, so
the two stream buffers can keep pieces of an earlier response. The peer sends,
stays silent or closes.

In `Http2Client` `promise` lives on the stack of the call and `onError` is the call
whose promise the session's error handler refers to. A promise set twice, and
`submit` on a session that has failed, end the process (`crashed`).

### ResolverCache

One host of one protocol. `async_resolve` reads the time (`Resolve`), waits for the
mutex and looks up (`LookUp`), waits for the DNS (`DnsAnswers`, `DnsFails`) and
stores under the mutex (`Store`). The address in the DNS changes at any moment;
`changed[a]` remembers when address `a` was replaced. `TTL` is the constant of five
minutes; the option `server.dns-cache-ttl` is read by nobody.

### TimerMetric and MetricsRegistry

`Update` and `UpdateDone` are the critical section of `timer::update`, entered by
`update` and by the destructor or `stop` of a duration; `TakeBuffer`,
`SwitchBuffers`, `SortBuffer` and `PushHistogram` are `timer::aggregate`, of which
only the switch is under the mutex. `Histogram` is what the code computes of the
buffer: `Sorted` is its `std::sort` (the time of each rank), `Sums` its loop over the
sum and `Rounds` its loop over the sorted times, of which `Place` is one round. The
property it is checked against, `HistogramsMatchSamples`, has no loop: each bin has
the times between its edges, or less than a nanosecond above them. `get_1min_histogram` adds up the windows (`Minutes`).
Loops are recursive functions of the round, which the proofs can reason about.

A time is a double that Lua or a clock gives, with fractions and possibly negative
(`metric.cpp:86`). It is modelled as a whole number of units, `Unit` of them in a
nanosecond, so that the borders of the bins, which the loop compares with `upper + 1` in
one place and with `upper` in the other (`timer.h:116`, `:122`), are met from both sides.
A time between `upper` and `upper + 1` is counted below the border, or above it when the
loop had left the bin before; `InBin` allows both. NaN and the rounding of sums are left
out.

`MetricsRegistry` has the map of names, the queue of new metrics and the fibers
that aggregate one metric each. `TakeSecond` and `AddToTotal` are the exchange and
the add of `meter::aggregate`, with increments of other threads in between.
Counters wrap at `Wrap`, which stands for 2^64. The Lua objects hold a metric and
its type; `Allows` are the type checks of their methods.

## Runs

| run | bounds | states | shows |
| --- | --- | --- | --- |
| `pool_faults` | 2 workers, 3 fibers (two on one worker), 4 states, buffer 1, all faults, symmetry | 7*10^4 | one owner, no use after close, clean states, the reset lambda finds its cache, refinement of `StateOwnership` |
| `pool_clean` | 2 workers, 2 fibers, 4 states, buffer 1, no faults | 7*10^4 | bounded, nothing lost, all closed at exit, objects deleted, buffer refilled, stop ends |
| `pool_objects` | as `pool_clean` with failing handlers | - | **violation**: objects of a failed request are never deleted |
| `fibers` | 4 functions, 4 fibers | 3*10^4 | no function run twice, none of a cached fiber dropped, no waiting fiber out of reach, the join meets no request, cached work and the stop end, detached work ends or is cut off |
| `files_fresh` | 1 file, 2 workers, 3 versions (a deletion counts as one), registration and stop at any moment of the refresh thread | 1.7*10^5 | changes detected; for the workers whose own registration or unregistration met no update: updates find their map, maps follow, no step backwards, files become fresh |
| `files_removed` | 1 file, 1 worker, 2 versions | - | **violation**: a removed file is served for ever |
| `sessions_handed` | 2 workers, 1 acceptor, 3 connections | 6*10^4 | no session lost from a list or started twice, a worker starts what its own accept fiber gives it |
| `sessions_wakeup` | 2 workers, 1 acceptor, 2 connections | - | **violation**: a session waits although its worker was notified |
| `requests` | 1 client with 2 requests, up to 3 nested routes of both kinds, both modes | 2*10^4 | one response per request and in order, longest prefix, the right file, headers and metrics once, refinement of `OneResponse`, requests are answered |
| `requests_other` | 1 client, 1 request, 1 route | - | **violation**: a method other than GET and POST is never answered |
| `clients` | 2 calls on 1 connection, 2 endpoints, content up to 2 pieces; 4 calls of connect and get, 2 pieces; 2 resolvers, 4 moments, TTL 2, 2 addresses | 2.5*10^5 | cancels have an expired deadline, a fiber never sleeps after its completion, own and complete responses, no dangling promise, fresh DNS answers, connect and reads end or have lost their deadline in one of two ways |
| `metrics` | 2 threads, one with a duration, 3 times (negative, with a fraction, whole), 3 updates, 2 windows; 1 name, 2 metrics, 1 handler, 2 calls, counters modulo 4 | 10^5 | no time and no count lost or counted twice, histograms against a reference, one aggregating fiber per metric, everything aggregated |

Why the bounds are enough.

* Pool: two fibers share a local cache and a third has another, so every pair of
  threads that can meet at a cache meets there; four states are one more than the
  fibers plus the one the watcher builds, and with buffer size 1 the global cache
  overfills (states freed to it before the local caches exist and after they were
  reset), so the watcher's difference becomes negative. `UIntRange` 16 is above
  every sum that occurs, as 2^32 is.
* Fibers: with four functions the cache holds several idle fibers when the join
  begins, while another function is on a detached fiber and one is still to come.
  The proofs cover every other number.
* Files: three versions let two updates of one file wait at a worker while it
  copies from the main map; with two workers an erase moves the second pointer
  under the refresh thread's loop, a `push_back` moves the vector under it, and one
  worker overlaps an update while the other must not suffer from it. The files are independent of each other in
  every step (two files with two versions were checked without registration, with
  the same result).
* Sessions: three connections with two workers give the worker of the acceptor two
  sessions and the other one in between, so that a session is added while another
  one is being started; more workers would only add receivers that do not touch
  each other.
* Requests: the routes "/", "/a" and "/a/" are nested and meet at a slash, where
  the prefix and the relative path could go wrong; the second request of a
  connection finds the promise and the metrics of the first. Connections share
  only routes and metrics (two clients with one request each and two routes were
  checked once: 2*10^5 states).
* Clients: two calls are needed for a handler or a piece of the first to reach the
  second; two endpoints make a connect go on after its cancel, and two pieces of content
  make a read of several operations. The calls also bound the queue of the timer's
  handlers. The resolver's two fibers store their answers
  in either order, with the address changing in between; its invariant is proved
  for every bound.
* Metrics: three updates and two windows fill both buffers, leave a window empty
  and drop one. With two units in a nanosecond and bins of 2 ns, the times are -1.5, 3.5
  and 4.5 ns: one below zero, one inside the second bin, and one half a nanosecond above
  it, which the loop counts there after a 3.5 and in the last bin without. Two metrics of one name are the change of type; two names
  were checked once (2*10^5 states), as were durations on both threads.

Fairness. The watcher and the refresh thread sleep and continue; a worker runs
what is posted to it; the main thread carries a stop through once it began
(`WF` of `MainStops` outside of "serving"). Nothing is assumed of requests: a
handler may hold its state for ever, a client may never come, the server may
never be stopped. `FilesBecomeFresh` needs only the refresh thread and
`RunPosted`; it says nothing of a file that keeps changing. In `WorkerSessions` a
fiber that can run again and again does (`SF`): threads and mutexes are first come, first served,
by `pick_next` and by the wait queue of the fiber mutex. Strong fairness is
needed because another fiber of the thread may run, or hold the mutex, in
between. `async_accept` owes nothing: nobody has to connect.

The same order justifies a guard of `Accepted`: the fiber that starts sessions was
made ready by `run` before any connection could complete, so it had the thread
first (`starter # "new"`). Without the guard the first session of a server can
miss its notification; the mutant of `OwnSessionsStart` is this.

`OwnSessionsStart` is limited to workers that get connections from accept fibers
of their own thread only, which with the default of one worker are all. With an
acceptor on each of several workers any mutex may be held by another thread, and
no worker is safe from the lost notification.

The other modules assume as little. `FiberCache` and `RequestLifecycle`: fibers that
can run do, the main thread goes on with a stop, and every handler ends (`WF` of
`FinishWork` and `HandlerStep`; a handler that never ends blocks
`unregister_io_service`, see the hazards); peers owe nothing, and what depends on
them is stated as an alternative. The fairness of detached functions ends with the io
service: `StopIoService` is fair too and takes their steps away, so `DetachedWorkEnds`
says that they end or are cut off, and only what cached fibers have is promised to be
run to its end (`CachedWorkEnds`). `FileCache`: the refresh thread, the workers and
the main thread in a registration or unregistration that began. `HttpClient`: timers
expire, queued handlers (`Continues`, `TimeoutHandler`) and ready fibers run, and what
has come in is read (`ReadSome`); neither the network nor the server owes anything,
attempts to connect and writes least of all. So `DeadlinesEndCalls` leaves out the lookup
of the host and the write, which have no deadline, and has the alternative that the
deadline is lost (`NoDeadline`). `DeadlinesLostBetween` limits the alternative to the two
ways in which the code loses it: the next endpoint of a host, and a read whose cancel came
between two of its operations. A read that has lost it still ends when the connection is
closed (`ClosedConnectionsEndCalls`). `Http2Client`: the session has a read timeout, so it fails if nothing
else happens. Metrics: the aggregating fibers wake up and get the mutex.
`ResolverCache` has only safety properties.

Findings.

* `pool_objects`. `handle_request` throws at `lua_engine.cpp:77-115` without
  `free_state`: the 500 is sent, but the Lua state is lost and its library
  objects are not deleted, whereas `library.h:36` says they are deleted after a
  request is finished.
* `files_removed`. `remove_file` posts the erase to the workers and erases the
  file from the main map after that. A worker that runs the posted erase and
  then looks the file up before the second erase copies it back for good.
  `test_file_cache.cpp:94-99` expects a removed file to be gone, and tests it
  without workers.
* `sessions_wakeup`. The accept fiber of worker 0 adds a session to worker 1 and
  notifies while worker 1 is between its loop and `wait` (at the start of the
  thread, or after it started other sessions). The wait has no predicate
  (`worker.cpp:71`), so the client gets no session until the next connection that
  is handed to worker 1; `session.h:31`: "Each new client gets handled by a
  session object".
* `requests_other`. The constructor of `server_impl` assigns `m_metric_errors` twice
  (`server_impl.cpp:50-51`) and `m_metric_not_impl` never. The branches for other
  methods than GET and POST (`:121` for HTTP/2, `:220` for a Lua route) increment it
  through a null pointer; `:186` says "we support only GET/POST" and `:221` answers
  with 501, which is never reached.

More observations contradict no text of the repository and have no run. The model has
them, and the properties say exactly how far they reach:

* An update that is under way while a worker is being registered or unregistered may
  reach the worker before its map or after its reset, and the process ends with a null
  pointer, or with a freed one when `push_back` moved the vector. `UpdatesFindMap`,
  `LocalMapsAgree`, `NeverBackwards` and the liveness of files exempt such a worker
  (`overlapped`) and no other.
* A detached function is cut off when the io service stops (`DetachedWorkEnds`).
* A connect goes on without a deadline after its first endpoint, a read after a cancel
  that was lost (`DeadlinesLostBetween`).
* A late handler of the timer cancels the next operation on the socket, or throws on a
  closed one (`http_client.cpp:64`, `:44`). `AbortsHaveExpiredTimers` says only that every
  cancel has an expired wait, not that it is its own.
* Content stays in the buffer of an `http_client`, so the call after a response with
  content begins out of step, and `ResponseBelongsToRequest` says nothing of it.
* A call of `http2_client` that ends with an error leaves its error handler in the session,
  with a reference to a promise that is gone; `NoDanglingPromise` says that such a session
  is over. A promise set twice and a null request end the process;
  `CrashNeedsFailedSession` says that nothing but a session that failed does.
* A handler's content-length stays next to the real one in an HTTP/2 error response;
  `HeadersSentOnce` exempts it.

`NeverBackwards` is stated for workers that keep up. Without this condition TLC
finds: two updates of a file wait at a worker, it looks the file up and copies
the newest version from the main map, and then runs the update to the older one.

## Proofs

`LuaStatePoolProofs` proves, for any sets of states, workers and fibers, any
buffer size and any faults, from `PoolAssumption` alone:

* `TypeCorrect`: `Spec => []TypeOK`.
* `ResetFindsCache`: `Spec => []CacheExistsAtReset`. By itself the property is
  not inductive. `PostedInv` describes what may be in a worker's queue: nothing
  before it is registered, "make" as long as it is registered and the cache may
  be missing, "make" before "reset" after that, and a second "reset" never,
  because an unregistered worker is not registered again.
* `OneOwner`: `Spec => [](OwnedOnce /\ NoUseAfterClose /\ PooledStatesAreClean)`.
  The inductive invariant `OwnInv` restates ownership per state: no state twice
  in a cache and in no two caches (`CachedOnce`), cached states open and clean
  (`CachedStatesOK`), held states open, not cached and each held once
  (`HeldStatesOK`), and the same for what the watcher and the bootstrap have in
  hand (`ThreadStatesOK`). `OwnStep` has one step per action; lemmas say what
  each kind of move does to the caches (`NewStateIsFree`, `PushedToGlobal`,
  `PushedToLocal`, `CachesShrink`, `NothingTaken`). The typing is strengthened by
  `HoldersInv`: the watcher has a state in hand exactly while it pushes it, the
  main thread while it bootstraps.

Four theorems of the module have a hypothesis more, which says for which servers the
property is meant:

* `ObjectsEndWithRequest` (`ObjectsDeletedAfterRequest`), when neither the bootstrap nor a
  handler fails; creating a state and reloading the scripts may. With failing handlers
  the property is false, as `pool_objects` shows.
* `OpenIsOwned` (`NoStateLost`) and `ClosedAtExit` (`AllClosedAtExit`), without faults: every
  fault has an exit on which the code forgets a state. `AllKept` says of every open
  state that it is in a cache or in somebody's hand. A local cache disappears only when
  its states were closed, and there is none when the workers are stopped: `CacheLife`
  (`NoCacheYet` before "make" has run, `StopInv` from the first "reset" on).
* `PoolStaysBounded` (`PoolBounded`), with any faults, under `BufferFits`: there are finitely
  many fibers, and `lua.statebuffer` with the fibers fits half of the counter's range (2^31
  states in the build), so that the watcher's unsigned difference is negative as an `int`
  when more states are pooled than it wants. `SlotsInv` gives each state that a worker
  uses a fiber of its own at this worker: a worker takes a state from elsewhere only when
  its own cache is empty, and then only its other fibers' requests use states.
  `TotalInv` counts the global cache, what the watcher still wants to create and the
  states away at workers together.

`LuaStateOwnershipProofs` proves `StatesHandedOver`: `Spec => HandsOverStates`, the
refinement of `StateOwnership`. `OwnerFacts` says who the owner of a state is from
the place it is in, which follows from `OwnInv`; a step then leaves every state
where it is (`NothingHandedOver`), moves one (`HandedOver`, with the pairs
`StateOwnership` allows in `MayGo`), or takes down one whole cache
(`CacheDestroyed`). One more invariant is needed, `MakeInv`: the lambda of
`register_io_service` never replaces a cache, which would drop its states.

`FiberCacheProofs` proves, from `FiberAssumption`, for any functions and any number of
fibers: `TypeCorrect`, `CacheIsWaiting` (`WaitingMeansCached`), `EachRunsOnce`
(`RunsOnce`) and `ResetIsSafe` (`NothingActiveAtReset`), all up to and after the stop of
the io service. The invariant has four parts:
`PhaseInv`, what the main thread has posted in each phase; `FiberInv`, that a fiber
has a function exactly while it is on its way to it or at it; `CacheInv` and
`FuncInv`. The step from "as many cached as created" to "all of them cached" is a
count: `AllCached` shows that an injective sequence of k numbers up to k has all of
them, and `CacheFits` that the cache never grows beyond the fibers there are.

`FileCacheProofs` proves, from `FileAssumption`, for any files, workers and changes:

* `ReloadsChanges`: `Spec => []ChangesAreDetected`. `LoadInv` says that whatever was
  loaded, also what the refresh thread has half loaded, is `Honest`: its data is not
  older than its stamp, and neither is newer than the file.
* `UpdatesMeetMaps`: `Spec => []FileCacheInv`, types and `UpdatesFindMap`, with no
  assumption about when the refresh thread runs. Three parts carry it.
  `VectorInv` says what the vector's memory holds, counting registrations (`Pushed`) and
  erasures (`Erasures`): the remaining workers in order, and the last one in every place
  erase has freed. While the server serves, `ServingInv`: the loop posts to the workers
  that were in the vector when the update started, and those registered since are
  `overlapped` (`VectorServes`); the lambda that makes a worker's map is the first of its
  queue as long as there is no map (`QueueServes`). During the stop, `StopInv`: an update
  that still reaches an erased worker began before the erase, so it is `overlapped`
  (`VectorStops`); the updates in the queue of any other find the map, and none is behind
  the reset (`Finds`).
* `MapsAgree`: `Spec => []LocalMapsAgree`. `AgreeInv` is about what worker w will have,
  unless it was registered during an update, when its queue has run (`WillHave`): the file in hand if it was posted to w already,
  and what the main map has otherwise, but for the moment in which a file is removed.
* `VersionsOnlyGrow`: `Spec => NeverBackwards`, an action property. `OrderInv` orders the
  data of the map, of the updates in the queue and of the file being posted.

`WorkerSessionsProofs` proves, from `WorkerAssumption`, for any workers, endpoints and
connections: `TypeCorrect`, and `SessionsKept`, `Spec => []EachSessionOnce`. `PlaceInv`
says of every session that it is nowhere before its connection and then in exactly one
place of one kind: in the hand of an accept fiber, in a list, or started. It needs
`MutexInv`: the fiber that starts the sessions of a list and the one that appends to it
own its mutex, so nothing is appended between the loop and `clear`.

`RequestLifecycleProofs` proves, from `RequestAssumption` (finitely many clients; paths
are not empty), for any clients, requests, routes and files and both modes:

* `RequestsAnsweredOnce`: `Spec => AnswersOnce`, the refinement of `OneResponse`. `ReqInv`
  ties each client's stage to the answers of its request (`StageInv`: none before it is
  routed, one before the session goes on) and the handler and the promise to both
  (`AnswerInv`). Each action is then silent, an answer, a question, or both
  (`SilentStep`, `Answering`, `Asking`).
* `RequestsComplete` (`RequestInv`), `WireInOrder` (`WireFollowsAnswers`) and
  `StaticFilesMatch` (`StaticFileMatchesPath`). The steps of a client are sorted by what
  they do (`ClientStep`: `Quiet`, `Asked`, an answer, `Ends`), and `Inv` is inductive for
  these kinds. `WireInv` counts what a session has written and says what its promise
  holds; `MetricsInv` restates the counters as the numbers of answers of each status
  and of handlers at work.
* `LongestPrefixFound` (`RouterFindsLongestPrefix`): for all sets of routes, added in any
  order, the descent finds the longest route that is a prefix. `RoutesInv` has what
  `add` keeps true: every node above a route has children.

`ClientsProofs` proves, for any number of calls, connections and pieces:

* `HttpCallsAreSafe` (`HttpInv`) and `OwnResponses` (`ResponseBelongsToRequest`), from
  `HttpAssumption`. `TimerInv` counts the expired handlers in the queue: there are never
  more of them than waits that expired and cancelled nothing yet, so `late` cannot go
  below zero. `InStepInv` follows the response of a call that began in step: nothing is in
  the buffer and on the way together until its head comes (`NothingYet`), then its head
  with as many pieces as it announces, here or still to be sent (`HeadFirst`), and once
  the head was consumed the pieces alone (`BodyOnly`). That a read moves pieces from the
  wire to the buffer changes nothing of this (`ReadSplits`).
* `Http2CallsAreSafe` (`Http2Inv`), from `Http2Assumption`. A session that connects and a
  response that comes in have their call waiting with an unset promise
  (`ConnectingInv`, `StreamInv`); an error in a promise comes from a session that has
  failed (`SessionInv`).
* `AnswersAreFresh` (`ResolverInv`), from `ResolverAssumption`, for any fibers, times and
  addresses. `EntryInv` bounds the entry by the time its lookup began; an older answer
  that is stored late comes with its older expiry, so the order of the stores does not
  matter.

`MetricsProofs` proves, from `RegistryAssumption` (`Wrap` is positive) and `TimerAssumption`
(times are integer multiples of a unit, of which a nanosecond has any positive number; a
window is kept and lasts at least one call of `aggregate`), for any
names, handlers, metrics, threads and times:

* `MetricsAreSafe` (`MetricsInv`). `InOrder` says that the metrics get their fibers in the
  order of their registration, those with a fiber first and those in the queue next, which
  makes each of them appear once.
* `MetricsLoseNothing` (`NothingLost`), both parts. For counters and meters, `TakenInv` says
  that only a meter has a total or a count with `aggregate`, so that a reset, which leaves
  them alone, cannot lose any; the sums are added modulo `Wrap`, whatever it is
  (`AddToBoth`, `AddToRemainder`). For the timer, `UpdaterInv` and `AggregatorInv`: the
  thread that holds the mutex writes to the current buffer, and the buffer that is sorted
  and cleared without the mutex is the other one, so the histogram that is pushed counts
  all the times that are cleared. `SamplesConserved` has the partial sums of the
  histograms under a quantifier instead of a fold; a step gives the new sums
  (`SumsOfLonger`, `SumsOfTail`).
* `HistogramsAreRight` (`HistogramsMatchSamples`): for any times, bins and windows the
  histograms that sorting, the loop over the sorted times and the sum of the windows
  compute are those of the times. `HistogramsInv` says of which times each is one, also
  of the one `aggregate` has computed and not pushed yet: no time gets into that buffer
  in between. The rest is about the operators, and inductive over the length of the
  data. The library's induction theorems take the property as an operator, which the
  provers cannot instantiate; here it is a set of numbers, which is all of `Nat`
  because its complement would have a least number (`Least`, `SetInduction`, from a
  theorem on well-founded relations). With it:
  * a recursive function exists and obeys its equations (`SumsExist`, `RoundsExist`,
    `MinutesExist`, `FlattenExists`);
  * the ranks are a bijection (`RankIsBijection`), so sorting permutes (`SortedPermutes`)
    and keeps how often each time is there (`CountSorted`). It keeps the sum as well
    (`SumSorted`): a sum with every time cut at `v` grows, from `v` to `v + 1`, by the
    number of times above `v` (`NextCap`), so equal counts give equal sums for every `v`;
  * the loop over the sorted times has the invariant `RoundOK`: there is an assignment of
    the times to bins they may be in (`InBin`), of which the bins before the loop's one have
    their counts and the bins after it none, and the count it carries is that of its own bin
    (`RoundStep`). The assignment is a witness that grows with the rounds, because for a
    time up to a nanosecond above a border the bin depends on the times before it. It needs
    the order of the times: a time that opens a bin is above the edge of all bins before it;
  * one window after the other (`MinuteOf`): counts, sums and bins add up, minimum
    and maximum are those of both. A window without times has minimum 0, which the
    code takes for a minimum (`timer.h:150`), and the maximum of the minute starts at 0,
    as the property says (`Shown`).

Only model-checked:

* all liveness properties, among them `OwnSessionsStart` (fairness and ENABLED are beyond
  the prover). Every invariant and every action property of a passing run is proved.

## Not modelled

* The contents of a Lua state, `lua_utils`, and the scripts the pool loads
  (`add_lua_code`, `clear_code`): they are loaded before the server starts, and
  states that exist keep what they have.
* The pool's and the fiber cache's shutdowns are two modules. They share only the
  order of `unregister_io_services` (`server_impl.cpp:351-357`): for each worker the
  pool, then the file cache, then the fiber cache, so that requests may well be
  active when their worker's states are closed. `LuaStatePool` allows any number of
  them there, and the composition would only take behaviours away.
* File cache: the tree of directories, `add_directory` after the start, and what a response does with data that does not have the length
  of its stamp.
* Metrics that a handler registers while the registry runs (the map and the queue
  change without a lock, `registry.h:44`), a meter's rates, a timer's average, NaN and
  rounding (floating point) and the log report, which only reads.
* Requests: the accessors of headers and content; a handler that uses references to
  the header of a closed HTTP/2 stream (`request.h:344`).
* What becomes of fibers when their thread ends, the start of listening, TLS.
* HTTP parsing, the HTTP/2 protocol and the context switch of fibers are libraries;
  the scheduler's back-off is floating point without a correctness condition.
* Logging, options, the hash, base64 and petrel bindings and the example library
  hold no state that threads change in steps of their own.
