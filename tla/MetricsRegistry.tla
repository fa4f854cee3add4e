--------------------------- MODULE MetricsRegistry --------------------------
(***************************************************************************)
(* The metrics registry, its thread with one fiber per metric that calls   *)
(* aggregate every second, and the metric objects of the Lua handlers.     *)
(*                                                                         *)
(* Metrics are registered by the bootstrap, on the main thread, before the *)
(* registry's thread starts; handlers then find them by name.  A handler   *)
(* that registers a name nobody has registered changes the map and the     *)
(* queue without a lock, under the eyes of other threads; that is left     *)
(* out.  A timer's times are in TimerMetric, and the fiber that logs the   *)
(* metrics only reads.                                                     *)
(***************************************************************************)
EXTENDS Integers, Sequences, FiniteSets, SequencesExt

CONSTANTS
  Names,        \* names of metrics
  Handlers,     \* Lua handlers, each with a metric object
  MaxMetrics,   \* bound on the metrics created
  Wrap,         \* 2^64: a uint_fast64_t counts modulo Wrap
  MaxCalls      \* bound on the increments and decrements

ASSUME RegistryAssumption == MaxMetrics \in Nat /\ Wrap \in Nat \ {0} /\ MaxCalls \in Nat

VARIABLES
  m_metrics,      \* per name: the metric, or 0
  type,           \* the types of the metrics, which are 1, 2, ...
  m_new_metrics,  \* the queue of those that have no fiber yet
  fibers,         \* the metrics of the aggregating fibers, in order of their start
  thread,         \* m_thread: "none", "running" or "ended"
  m_stop,
  m_val,          \* per metric: the value of a counter, the m_counter_1s of a meter
  m_counter_total,\* per metric: of a meter
  taken,          \* per metric: [in aggregate, c], what aggregate has taken
  graphite,       \* the fiber that sends the metrics to graphite: where it is
  sent,           \* the metrics of the message it sends
  object,         \* per handler: its m_metric, or 0, and its m_type
  calls,          \* history: increments and decrements made
  counted         \* history: per metric, their sum

registryVars == <<m_metrics, type, m_new_metrics, fibers, thread, m_stop, m_val,
                  m_counter_total, taken, graphite, sent, object, calls, counted>>
registered == <<m_metrics, type, m_new_metrics>>
values     == <<m_val, m_counter_total, taken, calls, counted>>
report     == <<graphite, sent>>

Types == {"counter", "meter", "timer"}
Metrics == 1 .. MaxMetrics
NoObject == [m_metric |-> 0, m_type |-> "undef"]

RegistryTypeOK ==
  /\ m_metrics \in [Names -> 0 .. Len(type)] /\ type \in Seq(Types) /\ Len(type) <= MaxMetrics
  /\ thread \in {"none", "running", "ended"} /\ m_stop \in BOOLEAN
  /\ graphite \in {"disabled", "asleep", "resolving", "connecting", "writing"}
  /\ sent \subseteq 1 .. Len(type)
  /\ m_val \in [Metrics -> 0 .. Wrap - 1] /\ m_counter_total \in [Metrics -> 0 .. Wrap - 1]
  /\ object \in [Handlers -> [m_metric : 0 .. Len(type), m_type : Types \cup {"undef"}]]

\* The constructor reads the options: graphite without host or port is disabled.
GraphiteOptions == {"disabled", "asleep"}

RegistryInit ==
  /\ m_metrics = [n \in Names |-> 0] /\ type = <<>>
  /\ m_new_metrics = <<>> /\ fibers = <<>>
  /\ thread = "none" /\ m_stop = FALSE
  /\ graphite \in GraphiteOptions /\ sent = {}
  /\ m_val = [i \in Metrics |-> 0] /\ m_counter_total = [i \in Metrics |-> 0]
  /\ taken = [i \in Metrics |-> [aggregating |-> FALSE, c |-> 0]]
  /\ object = [h \in Handlers |-> NoObject]
  /\ calls = 0 /\ counted = [i \in Metrics |-> 0]

-----------------------------------------------------------------------------
\* get_metric<T>: the entry of another type is not found.
Find(name, t) ==
  IF m_metrics[name] # 0 /\ type[m_metrics[name]] = t THEN m_metrics[name] ELSE 0

\* Slip: what is found is queued as well.
BadQueued(metric) == Append(m_new_metrics, metric)

\* Only a new metric is queued.
Queued(metric) == IF metric > Len(type) THEN Append(m_new_metrics, metric) ELSE m_new_metrics

\* register_metric<T>, of the bootstrap: a metric of the name and another type
\* loses its place in the map.
RegisterMetric(name, t) ==
  LET found  == Find(name, t)
      metric == IF found = 0 THEN Len(type) + 1 ELSE found IN
  /\ thread = "none" /\ metric \in Metrics
  /\ m_metrics' = [m_metrics EXCEPT ![name] = metric]
  /\ type' = IF found = 0 THEN Append(type, t) ELSE type
  /\ m_new_metrics' = Queued(metric)
  /\ UNCHANGED <<fibers, thread, m_stop, values, report, object>>

Start ==
  /\ thread = "none" /\ thread' = "running"
  /\ UNCHANGED <<registered, fibers, m_stop, values, report, object>>

\* stop, the second call of which (the destructor's) does nothing.
Stop ==
  /\ thread # "none" /\ ~m_stop /\ m_stop' = TRUE
  /\ UNCHANGED <<registered, fibers, thread, values, report, object>>

\* The stopped io service returns from run when the fiber at work lets go, and
\* leaves every fiber where it waits; join returns.
ThreadEnds ==
  /\ thread = "running" /\ m_stop /\ \A i \in Metrics : ~taken[i].aggregating
  /\ thread' = "ended"
  /\ UNCHANGED <<registered, fibers, m_stop, values, report, object>>

-----------------------------------------------------------------------------
(* The registry's thread.                                                  *)

Running == thread = "running" /\ ~m_stop

\* Slip: only the first of the new metrics gets its fiber.
BadStarted == SubSeq(m_new_metrics, 1, 1)

\* A fiber for each metric in the queue.
Started == m_new_metrics

CheckNewMetrics ==
  /\ Running /\ m_new_metrics # <<>>
  /\ fibers' = fibers \o Started
  /\ m_new_metrics' = <<>>
  /\ UNCHANGED <<m_metrics, type, thread, m_stop, values, report, object>>

\* What an exchange with 0 leaves.
Left(v) == 0

\* meter::aggregate: the counter of the second is taken ...
TakeSecond(i) ==
  /\ Running /\ Contains(fibers, i) /\ type[i] = "meter" /\ ~taken[i].aggregating
  /\ taken' = [taken EXCEPT ![i] = [aggregating |-> TRUE, c |-> m_val[i]]]
  /\ m_val' = [m_val EXCEPT ![i] = Left(@)]
  /\ UNCHANGED <<registered, fibers, thread, m_stop, m_counter_total, calls, counted, report, object>>

\* ... and added to the total.
AddToTotal(i) ==
  /\ taken[i].aggregating
  /\ m_counter_total' = [m_counter_total EXCEPT ![i] = (@ + taken[i].c) % Wrap]
  /\ taken' = [taken EXCEPT ![i] = [aggregating |-> FALSE, c |-> 0]]
  /\ UNCHANGED <<registered, fibers, thread, m_stop, m_val, calls, counted, report, object>>

\* The graphite fiber: sleep_for, async_resolve, async_connect, the message with
\* every metric that has a name, async_write.
GraphiteGoes(from, to, message) ==
  /\ Running /\ graphite = from
  /\ graphite' = to /\ sent' = message
  /\ UNCHANGED <<registered, fibers, thread, m_stop, values, object>>

NamedMetrics == {m_metrics[n] : n \in Names} \ {0}

GraphiteWakesUp  == GraphiteGoes("asleep", "resolving", {})
GraphiteResolved == GraphiteGoes("resolving", "connecting", {})
GraphiteConnects == GraphiteGoes("connecting", "writing", NamedMetrics)
GraphiteWritten  == GraphiteGoes("writing", "asleep", {})

\* A system_error of any of the three: the socket and the message are gone, the
\* next report is another attempt.  None of the three has a deadline.
GraphiteFails ==
  \E from \in {"resolving", "connecting", "writing"} : GraphiteGoes(from, "asleep", {})

GraphiteStep == \/ GraphiteWakesUp \/ GraphiteResolved \/ GraphiteConnects
                \/ GraphiteWritten \/ GraphiteFails

-----------------------------------------------------------------------------
(* The metric objects of handlers, on the worker threads.                  *)

\* register_* of a metric that is there, and get_*, which leaves no metric when
\* there is none of the name and the type.
Get(h, name, t) ==
  /\ thread # "none"
  /\ object' = [object EXCEPT ![h] = [m_metric |-> Find(name, t), m_type |-> t]]
  /\ UNCHANGED <<registered, fibers, thread, m_stop, values, report>>

\* luaL_error for no metric and for types that do not fit.
Allows(h, types) == object[h].m_metric # 0 /\ object[h].m_type \in types

\* fetch_add of an int: a negative one wraps around.
Add(h, types, v) ==
  LET i == object[h].m_metric IN
  /\ Allows(h, types) /\ calls < MaxCalls /\ calls' = calls + 1
  /\ m_val' = [m_val EXCEPT ![i] = (@ + v) % Wrap]
  /\ counted' = [counted EXCEPT ![i] = @ + v]
  /\ UNCHANGED <<registered, fibers, thread, m_stop, m_counter_total, taken, report, object>>

Increment(h) == \E v \in {-1, 1} : Add(h, {"counter", "meter"}, v)
Decrement(h) == Add(h, {"counter"}, -1)

Reset(h) ==
  /\ Allows(h, {"counter"})
  /\ m_val' = [m_val EXCEPT ![object[h].m_metric] = 0]
  /\ counted' = [counted EXCEPT ![object[h].m_metric] = 0]
  /\ UNCHANGED <<registered, fibers, thread, m_stop, m_counter_total, taken, calls, report, object>>

\* The object is deleted with its request.
Delete(h) ==
  /\ object' = [object EXCEPT ![h] = NoObject]
  /\ UNCHANGED <<registered, fibers, thread, m_stop, values, report>>

RegistryNext ==
  \/ Start \/ Stop \/ ThreadEnds \/ CheckNewMetrics \/ GraphiteStep
  \/ \E i \in Metrics : TakeSecond(i) \/ AddToTotal(i)
  \/ \E name \in Names, t \in Types :
       RegisterMetric(name, t) \/ \E h \in Handlers : Get(h, name, t)
  \/ \E h \in Handlers : Increment(h) \/ Decrement(h) \/ Reset(h) \/ Delete(h)

RegistryFairness ==
  /\ WF_registryVars(CheckNewMetrics)
  /\ \A i \in Metrics : WF_registryVars(TakeSecond(i)) /\ WF_registryVars(AddToTotal(i))

-----------------------------------------------------------------------------
(* Properties.                                                             *)

\* Every metric ever registered waits for its fiber or has it, and only one:
\* none is aggregated twice a second and none is forgotten, those that lost
\* their name to another type included.
AggregatedOnce ==
  \A i \in DOMAIN type :
    Cardinality({k \in DOMAIN m_new_metrics : m_new_metrics[k] = i})
      + Cardinality({k \in DOMAIN fibers : fibers[k] = i}) = 1

\* A handler's object never has a metric of another type than its own: the casts
\* of its methods find what they expect.
TypesMatch ==
  \A h \in Handlers : object[h].m_metric # 0 => type[object[h].m_metric] = object[h].m_type

RegistryInv == RegistryTypeOK /\ AggregatedOnce /\ TypesMatch

\* What the handlers counted is in the counter, in the hands of aggregate, or in
\* the total of the meter, modulo Wrap.
CountsConserved ==
  \A i \in DOMAIN type : (m_val[i] + taken[i].c + m_counter_total[i]) % Wrap = counted[i] % Wrap

\* What a meter counted gets into its total, unless the registry stops.
MetersAggregated ==
  \A i \in Metrics :
    thread = "running" /\ i <= Len(type) /\ type[i] = "meter" /\ m_val[i] # 0
      ~> m_stop \/ m_val[i] = 0

=============================================================================
