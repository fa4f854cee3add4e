----------------------------- MODULE TimerMetric ----------------------------
(***************************************************************************)
(* One timer metric: worker threads add times, through its mutex, and the  *)
(* registry's thread aggregates them.  Every tenth call of aggregate       *)
(* switches the two buffers under the mutex and then sorts and clears the  *)
(* one it took without it.                                                 *)
(*                                                                         *)
(* A time is any double that Lua or a clock gives, fractions of a          *)
(* nanosecond and negative ones included: here a whole number of units, of *)
(* which a nanosecond has Unit.  NaN and what the addition of doubles      *)
(* rounds are left out, and so is the average, which is sum / count.       *)
(***************************************************************************)
EXTENDS Integers, Sequences, FiniteSets, SequencesExt

CONSTANTS
  Threads,      \* worker threads
  Measuring,    \* those whose handler has a duration object; the others call update
  Times,        \* times they measure, in units
  Unit,         \* units in a nanosecond
  NumOfBins,    \* num_of_bins
  BinSize,      \* bin_size, in units
  Every,        \* calls of aggregate per window: 10
  Keep,         \* windows kept: 6
  MaxUpdates,   \* bound on the times added
  NoThread,
  NoUpdate

ASSUME TimerAssumption ==
  /\ Measuring \subseteq Threads /\ NoThread \notin Threads /\ Times \subseteq Int
  /\ {NumOfBins, BinSize, MaxUpdates} \subseteq Nat /\ {Unit, Every, Keep} \subseteq Nat \ {0}
  /\ NoUpdate \notin [time : Times, buffer : {0, 1}]

VARIABLES
  m_times,             \* the two buffers
  m_times_idx,
  m_aggregate_counter,
  m_1min_values,       \* the histograms of the last windows
  m_mtx,               \* the thread that holds it, or NoThread
  updater,             \* per thread: the time it adds and the buffer it reads under the mutex, or NoUpdate
  duration,            \* per thread: its duration object, if it has one
  aggregator,          \* aggregate: [pc, buffer, hist]
  recorded,            \* history: number of times added
  windows,             \* history: the times of the windows kept
  dropped              \* history: number of times in histograms not kept any more

timerVars == <<m_times, m_times_idx, m_aggregate_counter, m_1min_values, m_mtx, updater,
               duration, aggregator, recorded, windows, dropped>>

Bins == 0 .. NumOfBins

-----------------------------------------------------------------------------
(* The histogram of a window.                                              *)

EmptyHistogram == [min |-> 0, max |-> 0, sum |-> 0, count |-> 0, dist |-> [b \in Bins |-> 0]]

\* The place of each time in ascending order, equal ones as they came.
Rank(data) ==
  [k \in DOMAIN data |->
    Cardinality({j \in DOMAIN data : data[j] < data[k] \/ (data[j] = data[k] /\ j <= k)})]

Sorted(data) == [n \in DOMAIN data |-> data[CHOOSE k \in DOMAIN data : Rank(data)[k] = n]]

\* The sums of the first k times.
Sums(times) ==
  LET sum[k \in 0 .. Len(times)] == IF k = 0 THEN 0 ELSE sum[k - 1] + times[k] IN sum

SumOf(times) == Sums(times)[Len(times)]

\* The count of the bin the loop is in goes to that bin.
UpdateBin(loop) == [loop.dist EXCEPT ![loop.bin] = @ + loop.count]

\* The bin after the loop's one that time d falls into; the last takes the rest.
NextBin(loop, d) ==
  CHOOSE b \in loop.bin .. NumOfBins :
    /\ b = NumOfBins \/ d <= (b + 1) * BinSize
    /\ \A c \in loop.bin .. b - 1 : d > (c + 1) * BinSize

\* Slip: the count of the next bin starts without the time that opened it.
BadPlace(loop, d) ==
  IF d < (loop.bin + 1) * BinSize + Unit \/ loop.bin = NumOfBins
    THEN [loop EXCEPT !.count = @ + 1]
    ELSE [dist |-> UpdateBin(loop), bin |-> NextBin(loop, d), count |-> 0]

\* One round of the loop over the sorted times.  A time up to a nanosecond above
\* the bin still falls into it.
Place(loop, d) ==
  IF d < (loop.bin + 1) * BinSize + Unit \/ loop.bin = NumOfBins
    THEN [loop EXCEPT !.count = @ + 1]
    ELSE [dist |-> UpdateBin(loop), bin |-> NextBin(loop, d), count |-> 1]

\* The loop after k rounds.
Rounds(s) ==
  LET loop[k \in 0 .. Len(s)] ==
        IF k = 0 THEN [dist |-> EmptyHistogram.dist, bin |-> 0, count |-> 0]
        ELSE Place(loop[k - 1], s[k])
  IN  loop

Histogram(data) ==
  IF data = <<>> THEN EmptyHistogram
  ELSE LET s == Sorted(data) IN
       [min |-> s[1], max |-> s[Len(s)], count |-> Len(data), sum |-> SumOf(s),
        dist |-> UpdateBin(Rounds(s)[Len(s)])]

\* get_1min_histogram adds up the windows; a window without times has min 0 and
\* max 0.  It begins with a maximum of 0 and a minimum that none is above.
AddWindow(all, hist) ==
  [min |-> IF all.min > hist.min THEN hist.min ELSE all.min,
   max |-> IF all.max < hist.max THEN hist.max ELSE all.max,
   sum |-> all.sum + hist.sum, count |-> all.count + hist.count,
   dist |-> [b \in Bins |-> all.dist[b] + hist.dist[b]]]

Minutes(hists) ==
  LET all[k \in 0 .. Len(hists)] ==
        IF k = 0 THEN [EmptyHistogram EXCEPT !.min = hists[1].min]
        ELSE AddWindow(all[k - 1], hists[k])
  IN  all

get_1min_histogram ==
  IF m_1min_values = <<>> THEN EmptyHistogram ELSE Minutes(m_1min_values)[Len(m_1min_values)]

-----------------------------------------------------------------------------
TimerTypeOK ==
  /\ m_times \in [{0, 1} -> Seq(Times)] /\ m_times_idx \in {0, 1}
  /\ m_aggregate_counter \in 0 .. Every - 1 /\ Len(m_1min_values) <= Keep
  /\ m_mtx \in Threads \cup {NoThread}
  /\ updater \in [Threads -> [time : Times, buffer : {0, 1}] \cup {NoUpdate}]
  /\ duration \in [Threads -> {"none", "running", "finished"}]
  /\ aggregator.pc \in {"asleep", "taken", "switched", "sorted"} /\ aggregator.buffer \in {0, 1}

Asleep == [pc |-> "asleep", buffer |-> 0, hist |-> EmptyHistogram]

TimerInit ==
  /\ m_times = [i \in {0, 1} |-> <<>>] /\ m_times_idx = 0
  /\ m_aggregate_counter = 0 /\ m_1min_values = <<>>
  /\ m_mtx = NoThread
  /\ updater = [w \in Threads |-> NoUpdate]
  /\ duration = [w \in Threads |-> "none"]
  /\ aggregator = Asleep
  /\ recorded = 0 /\ windows = <<>> /\ dropped = 0

-----------------------------------------------------------------------------
(* The worker threads.                                                     *)

\* Slip: the mutex is forgotten.
BadLockFree == TRUE

LockFree == m_mtx = NoThread

\* The calls that add a time: update itself, and update or finish of a running
\* duration; a new duration or the end of its object destroys a running one,
\* whose destructor adds its time.
Adds(w, method) ==
  \/ method = "update"
  \/ method \in {"start_duration", "update_duration", "finish_duration", "delete"}
     /\ duration[w] = "running"

DurationAfter(w, method) ==
  CASE method = "start_duration" -> "running"
    [] method = "finish_duration" /\ duration[w] # "none" -> "finished"
    [] method = "delete" -> "none"
    [] OTHER -> duration[w]

Methods == {"update", "start_duration", "update_duration", "finish_duration", "delete"}

\* update, under the mutex: the buffer is looked up ...
Update(w, method, t) ==
  /\ updater[w] = NoUpdate /\ Adds(w, method) /\ recorded < MaxUpdates
  /\ LockFree /\ m_mtx' = w
  /\ updater' = [updater EXCEPT ![w] = [time |-> t, buffer |-> m_times_idx]]
  /\ duration' = [duration EXCEPT ![w] = DurationAfter(w, method)]
  /\ recorded' = recorded + 1
  /\ UNCHANGED <<m_times, m_times_idx, m_aggregate_counter, m_1min_values, aggregator, windows, dropped>>

\* ... and the time appended.
UpdateDone(w) ==
  /\ updater[w] # NoUpdate
  /\ m_times' = [m_times EXCEPT ![updater[w].buffer] = Append(@, updater[w].time)]
  /\ m_mtx' = NoThread
  /\ updater' = [updater EXCEPT ![w] = NoUpdate]
  /\ UNCHANGED <<m_times_idx, m_aggregate_counter, m_1min_values, duration, aggregator,
                 recorded, windows, dropped>>

\* A call that adds nothing.
DurationOnly(w, method) ==
  /\ w \in Measuring /\ updater[w] = NoUpdate /\ ~Adds(w, method)
  /\ duration' = [duration EXCEPT ![w] = DurationAfter(w, method)]
  /\ UNCHANGED <<m_times, m_times_idx, m_aggregate_counter, m_1min_values, m_mtx, updater,
                 aggregator, recorded, windows, dropped>>

-----------------------------------------------------------------------------
(* aggregate, on the registry's thread.                                    *)

Count ==
  /\ aggregator.pc = "asleep" /\ m_aggregate_counter + 1 < Every
  /\ m_aggregate_counter' = m_aggregate_counter + 1
  /\ UNCHANGED <<m_times, m_times_idx, m_1min_values, m_mtx, updater, duration, aggregator,
                 recorded, windows, dropped>>

TakeBuffer ==
  /\ aggregator.pc = "asleep" /\ m_aggregate_counter + 1 >= Every
  /\ m_aggregate_counter' = 0
  /\ aggregator' = [aggregator EXCEPT !.pc = "taken", !.buffer = m_times_idx]
  /\ UNCHANGED <<m_times, m_times_idx, m_1min_values, m_mtx, updater, duration, recorded, windows, dropped>>

\* Under the mutex.
SwitchBuffers ==
  /\ aggregator.pc = "taken" /\ LockFree
  /\ m_times_idx' = (m_times_idx + 1) % 2
  /\ aggregator' = [aggregator EXCEPT !.pc = "switched"]
  /\ UNCHANGED <<m_times, m_aggregate_counter, m_1min_values, m_mtx, updater, duration,
                 recorded, windows, dropped>>

SortBuffer ==
  /\ aggregator.pc = "switched"
  /\ aggregator' = [aggregator EXCEPT !.pc = "sorted", !.hist = Histogram(m_times[aggregator.buffer])]
  /\ UNCHANGED <<m_times, m_times_idx, m_aggregate_counter, m_1min_values, m_mtx, updater,
                 duration, recorded, windows, dropped>>

LastOf(seq) == IF Len(seq) > Keep THEN Tail(seq) ELSE seq

PushHistogram ==
  /\ aggregator.pc = "sorted"
  /\ m_times' = [m_times EXCEPT ![aggregator.buffer] = <<>>]
  /\ m_1min_values' = LastOf(Append(m_1min_values, aggregator.hist))
  /\ windows' = LastOf(Append(windows, m_times[aggregator.buffer]))
  /\ dropped' = dropped + IF Len(windows) = Keep THEN Head(m_1min_values).count ELSE 0
  /\ aggregator' = Asleep
  /\ UNCHANGED <<m_times_idx, m_aggregate_counter, m_mtx, updater, duration, recorded>>

Aggregate == Count \/ TakeBuffer \/ SwitchBuffers \/ SortBuffer \/ PushHistogram

TimerNext ==
  \/ Aggregate
  \/ \E w \in Threads : \/ UpdateDone(w)
                        \/ \E method \in Methods : DurationOnly(w, method)
                        \/ \E method \in Methods, t \in Times : Update(w, method, t)

\* A thread in update goes on; the aggregating fiber wakes up every second and
\* gets the mutex, which is held for a moment only.
TimerFairness == WF_timerVars(Aggregate) /\ \A w \in Threads : WF_timerVars(UpdateDone(w))

-----------------------------------------------------------------------------
(* Properties.                                                             *)

\* Every time added is in a buffer or counted by one histogram: the aggregation
\* and the updates, which interleave, lose none and count none twice.  reported
\* adds up the histograms, those that are not kept first.
SamplesConserved ==
  LET pending == {w \in Threads : updater[w] # NoUpdate} IN
  \E reported \in [0 .. Len(m_1min_values) -> 0 .. recorded] :
    /\ reported[0] = dropped
    /\ \A k \in DOMAIN m_1min_values : reported[k] = reported[k - 1] + m_1min_values[k].count
    /\ recorded = Cardinality(pending) + Len(m_times[0]) + Len(m_times[1])
                    + reported[Len(m_1min_values)]

\* The bins that may count a time: it is above b * BinSize, and at most less
\* than a nanosecond above (b + 1) * BinSize.  On whole nanoseconds that is one bin.
InBin(t, b) ==
  /\ b = 0 \/ t > b * BinSize
  /\ b = NumOfBins \/ t < (b + 1) * BinSize + Unit

\* dist counts every sample in one bin it belongs to.
SplitInBins(samples, dist) ==
  \E bin \in [DOMAIN samples -> Bins] :
    /\ \A k \in DOMAIN samples : InBin(samples[k], bin[k])
    /\ dist = [b \in Bins |-> Cardinality({k \in DOMAIN samples : bin[k] = b})]

\* The smallest and the largest of some times.
IsSmallest(t, times) == t \in times /\ \A u \in times : t <= u
IsLargest(t, times)  == t \in times /\ \A u \in times : t >= u

\* The times of a window, which shows a 0 when it has none.
Shown(samples) == IF samples = <<>> THEN {0} ELSE {samples[k] : k \in DOMAIN samples}

Matches(hist, samples) ==
  /\ IsSmallest(hist.min, Shown(samples)) /\ IsLargest(hist.max, Shown(samples))
  /\ hist.sum = SumOf(samples) /\ hist.count = Len(samples)
  /\ SplitInBins(samples, hist.dist)

\* The histograms are those of the times of their windows, and the one of the
\* minute is that of all their times together.  A window without times puts a 0
\* among them for the minimum (timer.h:150), and the maximum is never below 0
\* (timer.h:153).
HistogramsMatchSamples ==
  LET all    == FlattenSeq(windows)
      shown  == UNION {Shown(windows[k]) : k \in DOMAIN windows}
      minute == get_1min_histogram
  IN  /\ DOMAIN m_1min_values = DOMAIN windows
      /\ \A k \in DOMAIN windows : Matches(m_1min_values[k], windows[k])
      /\ windows # <<>> => IsSmallest(minute.min, shown)
      /\ IsLargest(minute.max, shown \cup {0})
      /\ minute.sum = SumOf(all) /\ minute.count = Len(all)
      /\ SplitInBins(all, minute.dist)

\* Every time is reported: no buffer keeps its times for ever.
BuffersDrained == \A i \in {0, 1} : m_times[i] # <<>> ~> m_times[i] = <<>>

=============================================================================
