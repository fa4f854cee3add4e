---------------------------- MODULE MetricsProofs ---------------------------
(***************************************************************************)
(* Proofs about the metrics, for any number of names, handlers, metrics,   *)
(* threads and times and any width of the counters: the registry gives     *)
(* every metric its fiber and every handler's object a metric of its type, *)
(* the timers, counters and meters lose nothing, and the histograms are    *)
(* those of the times.                                                     *)
(***************************************************************************)
EXTENDS MCMetrics, SequenceTheorems, FiniteSetTheorems, WellFoundedInduction, TLAPS

-----------------------------------------------------------------------------
(* Counting modulo W.                                                      *)

\* A number and its remainder.
LEMMA Quotient ==
  ASSUME NEW W \in Nat \ {0}, NEW a \in Int
  PROVE  (a % W) \in 0 .. W - 1 /\ \E q \in Int : a = W * q + (a % W)
<1>1. a = W * (a \div W) + (a % W) /\ a \div W \in Int /\ (a % W) \in 0 .. W - 1
  OBVIOUS
<1>2. \E q \in Int : a = W * q + (a % W)
  <2> DEFINE d == a \div W
  <2>1. a = W * d + (a % W) /\ d \in Int
    BY <1>1
  <2> HIDE DEF d
  <2> QED
    BY <2>1
<1> QED
  BY <1>1, <1>2

\* The only multiple of W between -W and W is 0.
LEMMA Small ==
  ASSUME NEW W \in Nat \ {0}, NEW k \in Int, W * k < W, -W < W * k
  PROVE  k = 0
OBVIOUS

\* A product with a sum.
LEMMA Distributes ==
  ASSUME NEW W \in Int, NEW x \in Int, NEW y \in Int, NEW z \in Int
  PROVE  W * (x + y - z) = W * x + W * y - W * z
OBVIOUS

Congruent(a, b, W) == \E q \in Int : a = b + W * q

\* Numbers a multiple of W apart have the same remainder.
LEMMA SameRemainder ==
  ASSUME NEW W \in Nat \ {0}, NEW a \in Int, NEW b \in Int, Congruent(a, b, W)
  PROVE  (a % W) = (b % W)
<1> PICK q \in Int : a = b + W * q
  BY DEF Congruent
<1>1. PICK x \in Int : a = W * x + (a % W)
  BY Quotient
<1>2. PICK y \in Int : b = W * y + (b % W)
  BY Quotient
<1>3. (a % W) \in 0 .. W - 1 /\ (b % W) \in 0 .. W - 1
  BY Quotient
<1>4. W * (y + q - x) = (a % W) - (b % W)
  <2> DEFINE r == a % W
             s == b % W
  <2>1. r \in Int /\ s \in Int /\ a = W * x + r /\ b = W * y + s
    BY <1>1, <1>2, <1>3
  <2>2. W * (y + q - x) = W * y + W * q - W * x
    BY Distributes
  <2>3. W * (y + q - x) = r - s
    <3> DEFINE wx == W * x
               wy == W * y
               wq == W * q
    <3>1. wx \in Int /\ wy \in Int /\ wq \in Int /\ b \in Int
      OBVIOUS
    <3>2. a = wx + r /\ b = wy + s /\ a = b + wq
      BY <2>1
    <3>3. W * (y + q - x) = wy + wq - wx
      BY <2>2
    <3> HIDE DEF wx, wy, wq, r, s
    <3>4. r \in Int /\ s \in Int
      BY <2>1
    <3> QED
      BY <3>1, <3>2, <3>3, <3>4
  <2> QED
    BY <2>3
<1>5. y + q - x = 0
  <2>1. (a % W) - (b % W) < W /\ -W < (a % W) - (b % W)
    BY <1>3
  <2>2. y + q - x \in Int
    OBVIOUS
  <2> QED
    BY <1>4, <2>1, <2>2, Small
<1> QED
  BY <1>3, <1>4, <1>5

SameRest(a, b, W) == (a % W) = (b % W)

\* Adding the same to both keeps remainders equal.
LEMMA AddToBoth ==
  ASSUME NEW W \in Nat \ {0}, NEW a \in Int, NEW b \in Int, SameRest(a, b, W)
  PROVE  \A v \in Int : ((a + v) % W) = ((b + v) % W)
<1> TAKE v \in Int
<1>0. (a % W) = (b % W)
  BY DEF SameRest
<1>1. PICK x \in Int : a = W * x + (a % W)
  BY Quotient
<1>2. PICK y \in Int : b = W * y + (b % W)
  BY Quotient
<1>3. (a % W) \in Int
  BY Quotient
<1>4. W * (x + 0 - y) = W * x + W * 0 - W * y
  BY Distributes
<1> DEFINE d == x + 0 - y
           m == a + v
           n == b + v
<1>5. m = n + W * d
  <2> DEFINE wx == W * x
             wy == W * y
             wd == W * d
             s  == a % W
  <2>1. wx \in Int /\ wy \in Int /\ wd = wx - wy
    BY <1>4
  <2>2. a = wx + s /\ b = wy + s /\ s \in Int
    BY <1>0, <1>1, <1>2, <1>3
  <2> HIDE DEF wx, wy, wd, s
  <2>3. m = n + wd
    BY <2>1, <2>2
  <2> QED
    BY <2>3 DEF wd
<1>6. m \in Int /\ n \in Int /\ d \in Int
  OBVIOUS
<1> HIDE DEF m, n, d
<1>7. Congruent(m, n, W)
  BY <1>5, <1>6 DEF Congruent
<1>8. (m % W) = (n % W)
  BY <1>6, <1>7, SameRemainder
<1> QED
  BY <1>8 DEF m, n

\* A remainder counts as its number.
LEMMA AddToRemainder ==
  ASSUME NEW W \in Nat \ {0}, NEW a \in Int, NEW b \in Int
  PROVE  (((a % W) + b) % W) = ((a + b) % W)
<1>1. PICK x \in Int : a = W * x + (a % W)
  BY Quotient
<1>2. (a % W) \in Int
  BY Quotient
<1> DEFINE s == a % W
           m == a + b
           n == s + b
<1>3. a = W * x + s /\ s \in Int /\ x \in Int
  BY <1>1, <1>2
<1> HIDE DEF s
<1>4. m = n + W * x /\ m \in Int /\ n \in Int /\ x \in Int
  BY <1>3
<1> HIDE DEF m, n
<1>5. Congruent(m, n, W)
  BY <1>4 DEF Congruent
<1>6. (m % W) = (n % W)
  BY <1>4, <1>5, SameRemainder
<1> QED
  BY <1>6 DEF m, n, s

-----------------------------------------------------------------------------
(* The registry.  What is true whenever no step is under way.              *)

\* The metrics get their fibers in the order of their registration: they have
\* the numbers 1, 2, ..., those with a fiber first and those in the queue next.
InOrder ==
  /\ fibers \in Seq(Nat) /\ m_new_metrics \in Seq(Nat)
  /\ Len(fibers) + Len(m_new_metrics) = Len(type)
  /\ \A k \in DOMAIN fibers : fibers[k] = k
  /\ \A k \in DOMAIN m_new_metrics : m_new_metrics[k] = Len(fibers) + k

\* Only a meter has a total, and aggregate a count of it; both are of metrics
\* that were registered.
IsMeter(i) == i \in DOMAIN type /\ type[i] = "meter"

TakenInv ==
  /\ taken \in [Metrics -> [aggregating : BOOLEAN, c : 0 .. Wrap - 1]]
  /\ counted \in [Metrics -> Int]
  /\ \A i \in Metrics :
       /\ ~taken[i].aggregating => taken[i].c = 0
       /\ ~IsMeter(i) => ~taken[i].aggregating /\ m_counter_total[i] = 0

\* CountsConserved, of all metrics there may be.
AllConserved ==
  \A i \in Metrics : (m_val[i] + taken[i].c + m_counter_total[i]) % Wrap = counted[i] % Wrap

RegistryIInv == RegistryTypeOK /\ TypesMatch /\ InOrder /\ TakenInv /\ AllConserved

LEMMA RegistryAtStart == ASSUME RegistryInit PROVE RegistryIInv
<1> USE RegistryAssumption DEF RegistryInit
<1>1. RegistryTypeOK
  <2>1. <<>> \in Seq(Types) /\ Len(type) = 0 /\ 0 \in 0 .. Wrap - 1
    OBVIOUS
  <2>2. object \in [Handlers -> [m_metric : 0 .. Len(type), m_type : Types \cup {"undef"}]]
    BY <2>1 DEF NoObject
  <2>3. /\ m_val \in [Metrics -> 0 .. Wrap - 1]
        /\ m_counter_total \in [Metrics -> 0 .. Wrap - 1]
    BY <2>1
  <2>4. m_metrics \in [Names -> 0 .. Len(type)] /\ type \in Seq(Types) /\ Len(type) <= MaxMetrics
    BY <2>1
  <2> QED
    BY <2>2, <2>3, <2>4 DEF RegistryTypeOK, GraphiteOptions
<1>2. TypesMatch
  BY DEF TypesMatch, NoObject
<1>3. InOrder
  <2>1. <<>> \in Seq(Nat) /\ Len(<<>>) = 0
    OBVIOUS
  <2> QED
    BY <2>1 DEF InOrder
<1>4. TakenInv
  BY DEF TakenInv, IsMeter
<1>5. AllConserved
  BY DEF AllConserved
<1> QED
  BY <1>1, <1>2, <1>3, <1>4, <1>5 DEF RegistryIInv

\* What register_metric finds or makes.
LEMMA Registered ==
  ASSUME RegistryIInv, NEW name \in Names, NEW t \in Types, RegisterMetric(name, t)
  PROVE  /\ type' \in Seq(Types) /\ Len(type') <= MaxMetrics /\ Len(type) <= Len(type')
         /\ m_metrics' \in [Names -> 0 .. Len(type')]
         /\ \A i \in DOMAIN type : i \in DOMAIN type' /\ type'[i] = type[i]
         /\ \/ UNCHANGED <<type, m_new_metrics>>
            \/ /\ Len(type') = Len(type) + 1
               /\ m_new_metrics' = Append(m_new_metrics, Len(type) + 1)
<1> USE RegistryAssumption
<1> DEFINE found  == Find(name, t)
           metric == IF found = 0 THEN Len(type) + 1 ELSE found
<1>1. /\ metric \in 1 .. MaxMetrics
      /\ m_metrics' = [m_metrics EXCEPT ![name] = metric]
      /\ type' = IF found = 0 THEN Append(type, t) ELSE type
      /\ m_new_metrics' = IF metric > Len(type) THEN Append(m_new_metrics, metric) ELSE m_new_metrics
  BY DEF RegisterMetric, Metrics, Queued
<1>2. /\ m_metrics \in [Names -> 0 .. Len(type)] /\ type \in Seq(Types) /\ Len(type) <= MaxMetrics
  BY DEF RegistryIInv, RegistryTypeOK
<1>3. found \in 0 .. Len(type)
  BY <1>2 DEF Find
<1> HIDE DEF found
<1>4. CASE found = 0
  <2>1. type' = Append(type, t) /\ Len(type') = Len(type) + 1 /\ type' \in Seq(Types)
    BY <1>1, <1>2, <1>4
  <2>2. m_new_metrics' = Append(m_new_metrics, Len(type) + 1)
    BY <1>1, <1>2, <1>4
  <2>3. m_metrics' \in [Names -> 0 .. Len(type')]
    BY <1>1, <1>2, <1>4, <2>1
  <2>4. Len(type') <= MaxMetrics
    BY <1>1, <1>2, <1>4, <2>1
  <2>5. \A i \in DOMAIN type : i \in DOMAIN type' /\ type'[i] = type[i]
    BY <1>2, <2>1
  <2> QED
    BY <1>2, <2>1, <2>2, <2>3, <2>4, <2>5
<1>5. CASE found # 0
  BY <1>1, <1>2, <1>3, <1>5
<1> QED
  BY <1>4, <1>5

LEMMA RegistryTypesStep ==
  ASSUME RegistryIInv, RegistryNext PROVE RegistryTypeOK'
<1> USE RegistryAssumption DEF RegistryIInv, RegistryTypeOK
<1> USE DEF registered, values, report
<1>1. CASE Start \/ Stop \/ ThreadEnds \/ CheckNewMetrics
  BY <1>1 DEF Start, Stop, ThreadEnds, CheckNewMetrics
<1>2. CASE GraphiteStep
  <2>1. NamedMetrics \subseteq 1 .. Len(type)
    BY DEF NamedMetrics
  <2>2. /\ graphite' \in {"disabled", "asleep", "resolving", "connecting", "writing"}
        /\ sent' \subseteq 1 .. Len(type)
    BY <1>2, <2>1 DEF GraphiteStep, GraphiteWakesUp, GraphiteResolved, GraphiteConnects,
       GraphiteWritten, GraphiteFails, GraphiteGoes
  <2>3. UNCHANGED <<registered, fibers, thread, m_stop, values, object>>
    BY <1>2 DEF GraphiteStep, GraphiteWakesUp, GraphiteResolved, GraphiteConnects,
       GraphiteWritten, GraphiteFails, GraphiteGoes
  <2> QED
    BY <2>2, <2>3
<1>3. ASSUME NEW i \in Metrics, TakeSecond(i) PROVE RegistryTypeOK'
  BY <1>3 DEF TakeSecond, Left
<1>4. ASSUME NEW i \in Metrics, AddToTotal(i) PROVE RegistryTypeOK'
  <2>1. taken[i].c \in Int /\ m_counter_total[i] \in Int
    BY DEF TakenInv
  <2>2. m_counter_total[i] + taken[i].c \in Int
    BY <2>1
  <2>3. ((m_counter_total[i] + taken[i].c) % Wrap) \in 0 .. Wrap - 1
    BY <2>2, Quotient
  <2> QED
    BY <1>4, <2>3 DEF AddToTotal
<1>5. ASSUME NEW name \in Names, NEW t \in Types, RegisterMetric(name, t) PROVE RegistryTypeOK'
  <2>1. UNCHANGED <<fibers, thread, m_stop, values, report, object>>
    BY <1>5 DEF RegisterMetric
  <2>2. Len(type) \in Nat /\ Len(type') \in Nat /\ Len(type) <= Len(type')
    BY <1>5, Registered
  <2> QED
    BY <1>5, <2>1, <2>2, Registered
<1>6. ASSUME NEW name \in Names, NEW t \in Types, NEW h \in Handlers, Get(h, name, t)
      PROVE  RegistryTypeOK'
  <2>1. Find(name, t) \in 0 .. Len(type)
    BY DEF Find
  <2> QED
    BY <1>6, <2>1 DEF Get
<1>7. ASSUME NEW h \in Handlers, NEW types, NEW v \in {-1, 1}, Add(h, types, v)
      PROVE  RegistryTypeOK'
  <2>1. object[h].m_metric \in Metrics
    BY <1>7 DEF Add, Allows, Metrics
  <2>2. m_val[object[h].m_metric] + v \in Int
    BY <2>1
  <2>3. ((m_val[object[h].m_metric] + v) % Wrap) \in 0 .. Wrap - 1
    BY <2>2, Quotient
  <2> QED
    BY <1>7, <2>3 DEF Add
<1>8. ASSUME NEW h \in Handlers, Reset(h) PROVE RegistryTypeOK'
  <2>1. 0 \in 0 .. Wrap - 1
    OBVIOUS
  <2>2. m_val' \in [Metrics -> 0 .. Wrap - 1]
    BY <1>8, <2>1 DEF Reset
  <2> QED
    BY <1>8, <2>2 DEF Reset
<1>9. ASSUME NEW h \in Handlers, Delete(h) PROVE RegistryTypeOK'
  BY <1>9 DEF Delete, NoObject
<1> QED
  BY <1>1, <1>2, <1>3, <1>4, <1>5, <1>6, <1>7, <1>8, <1>9 DEF RegistryNext, Increment, Decrement

\* An object keeps a metric of its type: metrics never change theirs.
LEMMA TypesMatchStep ==
  ASSUME RegistryIInv, RegistryNext PROVE TypesMatch'
<1> USE RegistryAssumption DEF RegistryIInv, TypesMatch
<1>1. CASE UNCHANGED <<type, object>>
  BY <1>1
<1>2. ASSUME NEW name \in Names, NEW t \in Types, RegisterMetric(name, t) PROVE TypesMatch'
  <2>1. UNCHANGED object /\ \A i \in DOMAIN type : type'[i] = type[i]
    BY <1>2, Registered DEF RegisterMetric
  <2>2. \A h \in Handlers : object[h].m_metric # 0 => object[h].m_metric \in DOMAIN type
    BY DEF RegistryTypeOK
  <2> QED
    BY <2>1, <2>2
<1>3. ASSUME NEW name \in Names, NEW t \in Types, NEW h \in Handlers, Get(h, name, t)
      PROVE  TypesMatch'
  BY <1>3 DEF Get, Find, RegistryTypeOK, registered
<1>4. ASSUME NEW h \in Handlers, Delete(h) PROVE TypesMatch'
  BY <1>4 DEF Delete, NoObject, RegistryTypeOK, registered
<1> QED
  <2>1. CASE Start \/ Stop \/ ThreadEnds \/ CheckNewMetrics
    BY <1>1, <2>1 DEF Start, Stop, ThreadEnds, CheckNewMetrics, registered
  <2>2. CASE GraphiteStep
    BY <1>1, <2>2 DEF GraphiteStep, GraphiteWakesUp, GraphiteResolved, GraphiteConnects,
       GraphiteWritten, GraphiteFails, GraphiteGoes, registered
  <2>3. CASE \E i \in Metrics : TakeSecond(i) \/ AddToTotal(i)
    BY <1>1, <2>3 DEF TakeSecond, AddToTotal, registered
  <2>4. CASE \E h \in Handlers : Increment(h) \/ Decrement(h) \/ Reset(h)
    BY <1>1, <2>4 DEF Increment, Decrement, Add, Reset, registered
  <2> QED
    BY <1>2, <1>3, <1>4, <2>1, <2>2, <2>3, <2>4 DEF RegistryNext

\* The queue goes to the fibers as a whole, and only new metrics get into it.
LEMMA InOrderStep ==
  ASSUME RegistryIInv, RegistryNext PROVE InOrder'
<1> USE RegistryAssumption DEF RegistryIInv, InOrder
<1>0. type \in Seq(Types)
  BY DEF RegistryTypeOK
<1>1. CASE UNCHANGED <<type, fibers, m_new_metrics>>
  BY <1>1
<1>2. ASSUME NEW name \in Names, NEW t \in Types, RegisterMetric(name, t) PROVE InOrder'
  <2>1. UNCHANGED fibers
    BY <1>2 DEF RegisterMetric
  <2>2. CASE UNCHANGED <<type, m_new_metrics>>
    BY <1>1, <2>1, <2>2
  <2>3. CASE /\ Len(type') = Len(type) + 1
             /\ m_new_metrics' = Append(m_new_metrics, Len(type) + 1)
    <3>1. Len(type) \in Nat /\ Len(fibers) \in Nat /\ Len(m_new_metrics) \in Nat
      BY <1>0
    <3>2. m_new_metrics' \in Seq(Nat) /\ Len(m_new_metrics') = Len(m_new_metrics) + 1
      BY <2>3, <3>1
    <3>3. ASSUME NEW k \in DOMAIN m_new_metrics' PROVE m_new_metrics'[k] = Len(fibers) + k
      <4>1. k \in 1 .. Len(m_new_metrics) + 1
        BY <3>2
      <4>2. CASE k <= Len(m_new_metrics)
        <5>1. k \in DOMAIN m_new_metrics
          BY <3>1, <4>1, <4>2
        <5>2. m_new_metrics'[k] = m_new_metrics[k]
          BY <2>3, <5>1
        <5> QED
          BY <5>1, <5>2
      <4>3. CASE k = Len(m_new_metrics) + 1
        <5>1. m_new_metrics'[k] = Len(type) + 1
          BY <2>3, <3>1, <4>3
        <5> QED
          BY <3>1, <4>3, <5>1
      <4> QED
        BY <3>1, <4>1, <4>2, <4>3
    <3>4. Len(fibers') + Len(m_new_metrics') = Len(type')
      <4>1. Len(fibers') = Len(fibers) /\ Len(fibers) + Len(m_new_metrics) = Len(type)
        BY <2>1
      <4> QED
        BY ONLY <2>3, <3>1, <3>2, <4>1
    <3> QED
      BY <2>1, <3>2, <3>3, <3>4
  <2> QED
    BY <1>2, <2>2, <2>3, Registered
<1>3. CASE CheckNewMetrics
  <2>1. fibers' = fibers \o m_new_metrics /\ m_new_metrics' = <<>> /\ UNCHANGED type
    BY <1>3 DEF CheckNewMetrics, Started
  <2>2. Len(fibers) \in Nat /\ Len(m_new_metrics) \in Nat
    OBVIOUS
  <2>3. fibers' \in Seq(Nat) /\ Len(fibers') = Len(fibers) + Len(m_new_metrics)
    BY <2>1
  <2>4. \A k \in DOMAIN fibers' : fibers'[k] = k
    <3> TAKE k \in DOMAIN fibers'
    <3>1. k \in 1 .. Len(fibers) + Len(m_new_metrics)
      BY <2>3
    <3>2. CASE k <= Len(fibers)
      BY <2>1, <2>2, <3>1, <3>2
    <3>3. CASE k > Len(fibers)
      <4>1. k - Len(fibers) \in DOMAIN m_new_metrics
        BY <2>2, <3>1, <3>3
      <4>2. fibers'[k] = m_new_metrics[k - Len(fibers)]
        BY <2>1, <2>2, <3>1, <3>3
      <4> QED
        BY <2>2, <3>1, <4>1, <4>2
    <3> QED
      BY <2>2, <3>1, <3>2, <3>3
  <2>5. <<>> \in Seq(Nat) /\ Len(<<>>) = 0
    OBVIOUS
  <2> QED
    BY <2>1, <2>2, <2>3, <2>4, <2>5
<1> QED
  <2>1. CASE Start \/ Stop \/ ThreadEnds
    BY <1>1, <2>1 DEF Start, Stop, ThreadEnds, registered
  <2>2. CASE GraphiteStep
    BY <1>1, <2>2 DEF GraphiteStep, GraphiteWakesUp, GraphiteResolved, GraphiteConnects,
       GraphiteWritten, GraphiteFails, GraphiteGoes, registered
  <2>3. CASE \E i \in Metrics : TakeSecond(i) \/ AddToTotal(i)
    BY <1>1, <2>3 DEF TakeSecond, AddToTotal, registered
  <2>4. CASE \E h \in Handlers : Increment(h) \/ Decrement(h) \/ Reset(h) \/ Delete(h)
    BY <1>1, <2>4 DEF Increment, Decrement, Add, Reset, Delete, registered
  <2>5. CASE \E name \in Names, t \in Types, h \in Handlers : Get(h, name, t)
    BY <1>1, <2>5 DEF Get, registered
  <2> QED
    BY <1>2, <1>3, <2>1, <2>2, <2>3, <2>4, <2>5 DEF RegistryNext

\* The order makes every metric wait for its fiber or have it, once.
LEMMA OrderMeansOnce ==
  ASSUME InOrder, type \in Seq(Types) PROVE AggregatedOnce
<1> SUFFICES ASSUME NEW i \in DOMAIN type
             PROVE  Cardinality({k \in DOMAIN m_new_metrics : m_new_metrics[k] = i})
                      + Cardinality({k \in DOMAIN fibers : fibers[k] = i}) = 1
  BY DEF AggregatedOnce
<1> DEFINE waiting == {k \in DOMAIN m_new_metrics : m_new_metrics[k] = i}
           started == {k \in DOMAIN fibers : fibers[k] = i}
           place   == i - Len(fibers)
<1>1. /\ i \in 1 .. Len(type) /\ Len(fibers) \in Nat /\ Len(m_new_metrics) \in Nat
      /\ Len(fibers) + Len(m_new_metrics) = Len(type)
  BY DEF InOrder
<1>2. CASE i <= Len(fibers)
  <2>1. started = {i} /\ waiting = {}
    BY <1>1, <1>2 DEF InOrder
  <2> HIDE DEF started, waiting
  <2>2. Cardinality(started) = 1 /\ Cardinality(waiting) = 0
    BY <2>1, FS_EmptySet, FS_Singleton, Zenon
  <2>3. Cardinality(waiting) + Cardinality(started) = 1
    BY <2>2
  <2> QED
    BY <2>3 DEF started, waiting
<1>3. CASE i > Len(fibers)
  <2>1. started = {}
    BY <1>1, <1>3 DEF InOrder
  <2>2. waiting = {place}
    BY <1>1, <1>3 DEF InOrder
  <2> HIDE DEF started, waiting, place
  <2>3. Cardinality(started) = 0 /\ Cardinality(waiting) = 1
    BY <2>1, <2>2, FS_EmptySet, FS_Singleton, Zenon
  <2>4. Cardinality(waiting) + Cardinality(started) = 1
    BY <2>3
  <2> QED
    BY <2>4 DEF started, waiting
<1> QED
  BY <1>1, <1>2, <1>3

\* A meter in the hands of its fiber was registered.
LEMMA TakesOfMeters ==
  ASSUME RegistryIInv, NEW i \in Metrics, TakeSecond(i) PROVE IsMeter(i)
<1>1. PICK k \in 1 .. Len(fibers) : fibers[k] = i
  BY DEF TakeSecond, Contains
<1>2. type \in Seq(Types) /\ Len(fibers) \in Nat /\ Len(m_new_metrics) \in Nat
  BY DEF RegistryIInv, RegistryTypeOK, InOrder
<1>3. k = i /\ Len(fibers) <= Len(type)
  BY <1>1, <1>2 DEF RegistryIInv, InOrder
<1>4. i \in DOMAIN type
  BY <1>1, <1>2, <1>3
<1> QED
  BY <1>4 DEF IsMeter, TakeSecond

LEMMA TakenStep ==
  ASSUME RegistryIInv, RegistryNext PROVE TakenInv'
<1> USE RegistryAssumption DEF RegistryIInv, values
<1>0. 0 \in 0 .. Wrap - 1
  OBVIOUS
<1>1. CASE UNCHANGED <<type, taken, m_counter_total>> /\ counted' \in [Metrics -> Int]
  BY <1>1 DEF TakenInv, IsMeter
<1>2. ASSUME NEW name \in Names, NEW t \in Types, RegisterMetric(name, t) PROVE TakenInv'
  <2>1. UNCHANGED <<taken, m_counter_total, counted>>
    BY <1>2 DEF RegisterMetric
  <2>2. \A i \in DOMAIN type : i \in DOMAIN type' /\ type'[i] = type[i]
    BY <1>2, Registered
  <2>3. \A i \in Metrics : IsMeter(i) => IsMeter(i)'
    BY <2>2 DEF IsMeter
  <2> QED
    BY <2>1, <2>3 DEF TakenInv
<1>3. ASSUME NEW i \in Metrics, TakeSecond(i) PROVE TakenInv'
  <2>1. m_val[i] \in 0 .. Wrap - 1
    BY DEF RegistryTypeOK
  <2>2. /\ taken' = [taken EXCEPT ![i] = [aggregating |-> TRUE, c |-> m_val[i]]]
        /\ UNCHANGED <<type, m_counter_total, counted>>
    BY <1>3 DEF TakeSecond, registered
  <2>3. \A j \in Metrics : IsMeter(j)' = IsMeter(j)
    BY <2>2 DEF IsMeter
  <2>4. taken' \in [Metrics -> [aggregating : BOOLEAN, c : 0 .. Wrap - 1]]
    BY <2>1, <2>2 DEF TakenInv
  <2>5. \A j \in Metrics : /\ ~taken'[j].aggregating => taken'[j].c = 0
                           /\ ~IsMeter(j) => ~taken'[j].aggregating /\ m_counter_total[j] = 0
    BY <1>3, <2>2, TakesOfMeters DEF TakenInv
  <2> QED
    BY <2>2, <2>3, <2>4, <2>5 DEF TakenInv
<1>4. ASSUME NEW i \in Metrics, AddToTotal(i) PROVE TakenInv'
  <2>1. taken' = [taken EXCEPT ![i] = [aggregating |-> FALSE, c |-> 0]] /\ UNCHANGED <<type, counted>>
    BY <1>4 DEF AddToTotal, registered
  <2>2. \A j \in Metrics : j # i => m_counter_total'[j] = m_counter_total[j]
    BY <1>4 DEF AddToTotal, RegistryTypeOK
  <2>3. IsMeter(i)
    BY <1>4 DEF AddToTotal, TakenInv
  <2>4. \A j \in Metrics : IsMeter(j)' = IsMeter(j)
    BY <2>1 DEF IsMeter
  <2>5. taken' \in [Metrics -> [aggregating : BOOLEAN, c : 0 .. Wrap - 1]]
    BY <1>0, <2>1 DEF TakenInv
  <2>6. \A j \in Metrics : /\ ~taken'[j].aggregating => taken'[j].c = 0
                           /\ ~IsMeter(j) => ~taken'[j].aggregating /\ m_counter_total'[j] = 0
    BY <2>1, <2>2, <2>3 DEF TakenInv
  <2> QED
    BY <2>1, <2>4, <2>5, <2>6 DEF TakenInv
<1> QED
  <2>1. counted \in [Metrics -> Int]
    BY DEF TakenInv
  <2>2. CASE Start \/ Stop \/ ThreadEnds \/ CheckNewMetrics
    BY <1>1, <2>1, <2>2 DEF Start, Stop, ThreadEnds, CheckNewMetrics, registered
  <2>3. CASE GraphiteStep
    BY <1>1, <2>1, <2>3 DEF GraphiteStep, GraphiteWakesUp, GraphiteResolved, GraphiteConnects,
       GraphiteWritten, GraphiteFails, GraphiteGoes, registered
  <2>4. CASE \E h \in Handlers : Increment(h) \/ Decrement(h) \/ Reset(h)
    <3>1. counted' \in [Metrics -> Int]
      BY <2>1, <2>4 DEF Increment, Decrement, Add, Reset
    <3> QED
      BY <1>1, <2>4, <3>1 DEF Increment, Decrement, Add, Reset, registered
  <2>5. CASE \E h \in Handlers : Delete(h) \/ \E name \in Names, t \in Types : Get(h, name, t)
    BY <1>1, <2>1, <2>5 DEF Delete, Get, registered
  <2> QED
    BY <1>2, <1>3, <1>4, <2>2, <2>3, <2>4, <2>5 DEF RegistryNext

\* What one metric holds, and what was counted, as numbers.
LEMMA Numbers ==
  ASSUME RegistryIInv, NEW i \in Metrics
  PROVE  {m_val[i], taken[i].c, m_counter_total[i], counted[i]} \subseteq Int
BY RegistryAssumption DEF RegistryIInv, RegistryTypeOK, TakenInv

\* Increments, the two steps of aggregate and reset keep the balance.
LEMMA ConservedStep ==
  ASSUME RegistryIInv, RegistryNext PROVE AllConserved'
<1> USE RegistryAssumption DEF RegistryIInv, values
<1>1. CASE UNCHANGED <<m_val, taken, m_counter_total, counted>>
  BY <1>1 DEF AllConserved
<1>2. ASSUME NEW i \in Metrics, TakeSecond(i) PROVE AllConserved'
  <2>1. taken[i].c = 0
    BY <1>2 DEF TakeSecond, TakenInv
  <2>2. m_val'[i] = 0 /\ taken'[i].c = m_val[i]
    BY <1>2 DEF TakeSecond, Left, RegistryTypeOK, TakenInv
  <2>3. \A j \in Metrics : j # i => m_val'[j] = m_val[j] /\ taken'[j] = taken[j]
    BY <1>2 DEF TakeSecond, RegistryTypeOK, TakenInv
  <2>4. m_val'[i] + taken'[i].c + m_counter_total[i] = m_val[i] + taken[i].c + m_counter_total[i]
    BY <2>1, <2>2, Numbers
  <2>5. UNCHANGED <<m_counter_total, counted>>
    BY <1>2 DEF TakeSecond
  <2> QED
    BY <2>3, <2>4, <2>5 DEF AllConserved
<1>3. ASSUME NEW i \in Metrics, AddToTotal(i) PROVE AllConserved'
  <2> DEFINE v == m_val[i]
             c == taken[i].c
             t == m_counter_total[i]
  <2>1. taken'[i].c = 0 /\ m_counter_total'[i] = ((t + c) % Wrap) /\ m_val'[i] = v
    BY <1>3 DEF AddToTotal, RegistryTypeOK, TakenInv
  <2>2. \A j \in Metrics : j # i => m_counter_total'[j] = m_counter_total[j] /\ taken'[j] = taken[j]
    BY <1>3 DEF AddToTotal, RegistryTypeOK, TakenInv
  <2>3. UNCHANGED <<m_val, counted>>
    BY <1>3 DEF AddToTotal
  <2>4. v \in Int /\ c \in Int /\ t \in Int
    BY Numbers
  <2>5. (m_val'[i] + taken'[i].c + m_counter_total'[i]) % Wrap = counted[i] % Wrap
    <3>1. (v + c + t) % Wrap = counted[i] % Wrap
      BY DEF AllConserved
    <3> HIDE DEF v, c, t
    <3> DEFINE s == t + c
               r == s % Wrap
    <3>2. s \in Int /\ r \in Int /\ s + v = v + c + t
      BY <2>4, Quotient
    <3>3. ((r + v) % Wrap) = ((s + v) % Wrap)
      BY <2>4, <3>2, AddToRemainder
    <3>4. v + 0 + r = r + v
      BY <2>4, <3>2
    <3>5. m_val'[i] + taken'[i].c + m_counter_total'[i] = r + v
      BY <2>1, <3>4
    <3> QED
      BY <3>1, <3>2, <3>3, <3>5
  <2> QED
    BY <2>2, <2>3, <2>5 DEF AllConserved
<1>4. ASSUME NEW h \in Handlers, NEW types, NEW a \in {-1, 1}, Add(h, types, a)
      PROVE  AllConserved'
  <2> DEFINE i == object[h].m_metric
             v == m_val[i]
             n == counted[i]
             s == taken[i].c + m_counter_total[i]
  <2>1. i \in Metrics
    BY <1>4 DEF Add, Allows, Metrics, RegistryTypeOK
  <2>2. m_val' = [m_val EXCEPT ![i] = (@ + a) % Wrap] /\ counted' = [counted EXCEPT ![i] = @ + a]
    BY <1>4 DEF Add
  <2>3. m_val'[i] = ((v + a) % Wrap) /\ counted'[i] = n + a
    BY <2>1, <2>2 DEF RegistryTypeOK, TakenInv
  <2>4. \A j \in Metrics : j # i => m_val'[j] = m_val[j] /\ counted'[j] = counted[j]
    BY <2>1, <2>2 DEF RegistryTypeOK, TakenInv
  <2>5. UNCHANGED <<taken, m_counter_total>>
    BY <1>4 DEF Add
  <2>6. v \in Int /\ n \in Int /\ s \in Int /\ a \in Int
    BY <2>1, Numbers
  <2>7. m_val'[i] + taken[i].c + m_counter_total[i] = m_val'[i] + s
    <3>1. v + a \in Int
      BY <2>6
    <3>2. m_val'[i] \in Int
      <4> DEFINE u == v + a
      <4>1. u \in Int /\ m_val'[i] = (u % Wrap)
        BY <2>3, <3>1
      <4> HIDE DEF u
      <4>2. (u % Wrap) \in Int
        BY <4>1, Quotient
      <4> QED
        BY <4>1, <4>2
    <3> QED
      BY <2>1, <3>2, Numbers
  <2>8. v + taken[i].c + m_counter_total[i] = v + s
    BY <2>1, Numbers
  <2>9. (v + s) % Wrap = n % Wrap
    BY <2>1, <2>8 DEF AllConserved
  <2>10. (m_val'[i] + s) % Wrap = counted'[i] % Wrap
    <3> HIDE DEF v, n, s
    <3> DEFINE u == v + a
               m == v + s
    <3>1. u \in Int /\ m \in Int /\ u + s = m + a
      BY <2>6
    <3>2. m_val'[i] = (u % Wrap) /\ (m % Wrap) = (n % Wrap) /\ counted'[i] = n + a
      BY <2>3, <2>9
    <3> HIDE DEF u, m
    <3>3. (((u % Wrap) + s) % Wrap) = ((u + s) % Wrap)
      BY <2>6, <3>1, AddToRemainder
    <3>4. \A x \in Int : ((m + x) % Wrap) = ((n + x) % Wrap)
      <4>1. SameRest(m, n, Wrap)
        BY <3>2 DEF SameRest
      <4> QED
        BY <2>6, <3>1, <4>1, AddToBoth
    <3>5. ((m + a) % Wrap) = ((n + a) % Wrap)
      BY <2>6, <3>4
    <3> QED
      BY <3>1, <3>2, <3>3, <3>5
  <2> QED
    BY <2>1, <2>4, <2>5, <2>7, <2>10 DEF AllConserved
<1>5. ASSUME NEW h \in Handlers, Reset(h) PROVE AllConserved'
  <2> DEFINE i == object[h].m_metric
  <2>1. i \in Metrics /\ ~IsMeter(i)
    BY <1>5 DEF Reset, Allows, Metrics, RegistryTypeOK, TypesMatch, IsMeter
  <2>2. m_val' = [m_val EXCEPT ![i] = 0] /\ counted' = [counted EXCEPT ![i] = 0]
    BY <1>5 DEF Reset
  <2>3. UNCHANGED <<taken, m_counter_total>>
    BY <1>5 DEF Reset
  <2>4. taken[i].c = 0 /\ m_counter_total[i] = 0
    BY <2>1 DEF TakenInv
  <2>5. m_val'[i] + taken'[i].c + m_counter_total'[i] = counted'[i]
    BY <2>1, <2>2, <2>3, <2>4 DEF RegistryTypeOK, TakenInv
  <2>6. \A j \in Metrics : j # i => m_val'[j] = m_val[j] /\ counted'[j] = counted[j]
    BY <2>1, <2>2 DEF RegistryTypeOK, TakenInv
  <2> QED
    BY <2>3, <2>5, <2>6 DEF AllConserved
<1> QED
  <2>1. CASE Start \/ Stop \/ ThreadEnds \/ CheckNewMetrics
    BY <1>1, <2>1 DEF Start, Stop, ThreadEnds, CheckNewMetrics
  <2>2. CASE GraphiteStep
    BY <1>1, <2>2 DEF GraphiteStep, GraphiteWakesUp, GraphiteResolved, GraphiteConnects,
       GraphiteWritten, GraphiteFails, GraphiteGoes
  <2>3. CASE \E name \in Names, t \in Types :
               RegisterMetric(name, t) \/ \E h \in Handlers : Get(h, name, t)
    BY <1>1, <2>3 DEF RegisterMetric, Get
  <2>4. CASE \E h \in Handlers : Delete(h)
    BY <1>1, <2>4 DEF Delete
  <2>5. CASE \E h \in Handlers : Increment(h) \/ Decrement(h)
    BY <1>4, <2>5 DEF Increment, Decrement
  <2> QED
    BY <1>2, <1>3, <1>5, <2>1, <2>2, <2>3, <2>4, <2>5 DEF RegistryNext

LEMMA RegistryStep ==
  ASSUME RegistryIInv, RegistryNext PROVE RegistryIInv'
BY RegistryTypesStep, TypesMatchStep, InOrderStep, TakenStep, ConservedStep DEF RegistryIInv

LEMMA RegistryRests ==
  ASSUME RegistryIInv, UNCHANGED registryVars PROVE RegistryIInv'
BY DEF registryVars, RegistryIInv, RegistryTypeOK, TypesMatch, InOrder, TakenInv, IsMeter, AllConserved

LEMMA RegistryMeans == ASSUME RegistryIInv PROVE RegistryInv /\ CountsConserved
<1>1. AggregatedOnce
  BY OrderMeansOnce DEF RegistryIInv, RegistryTypeOK
<1>2. DOMAIN type \subseteq Metrics
  BY RegistryAssumption DEF RegistryIInv, RegistryTypeOK, Metrics
<1> QED
  BY <1>1, <1>2 DEF RegistryIInv, RegistryInv, CountsConserved, AllConserved

-----------------------------------------------------------------------------
(* Induction.  The theorems on well-founded relations give every set of    *)
(* numbers a least one; a set of the numbers with a property takes the     *)
(* place of the property.                                                  *)

\* Every set of numbers has a least one.
LEMMA Least ==
  ASSUME NEW T, T \subseteq Nat, T # {}
  PROVE  \E m \in T : \A n \in T : m <= n
<1> DEFINE R == OpToRel(<, Nat)
<1>1. IsWellFoundedOn(R, Nat)
  BY NatLessThanWellFounded
<1>2. \A x, y \in Nat : y < x => <<y, x>> \in R
  BY DEF OpToRel
<1> HIDE DEF R
<1>3. PICK m \in T : \A y \in T : ~(<<y, m>> \in R)
  BY <1>1, WFMin
<1>4. \A n \in T : ~(n < m)
  BY <1>2, <1>3
<1>5. \A n \in T : m <= n
  <2> TAKE n \in T
  <2>1. m \in Nat /\ n \in Nat /\ ~(n < m)
    BY <1>4
  <2> QED
    BY <2>1
<1> QED
  BY <1>5

\* Induction, as a fact about sets.
LEMMA SetInduction ==
  ASSUME NEW S, 0 \in S, \A n \in Nat : n \in S => n + 1 \in S
  PROVE  Nat \subseteq S
<1> SUFFICES ASSUME Nat \ S # {} PROVE FALSE
  OBVIOUS
<1>1. PICK m \in Nat \ S : \A n \in Nat \ S : m <= n
  BY Least
<1>2. m # 0 /\ m - 1 \in Nat
  BY <1>1
<1>3. m - 1 \in S
  BY <1>1, <1>2
<1>4. (m - 1) + 1 = m
  BY <1>2
<1> QED
  BY <1>1, <1>2, <1>3, <1>4

\* Up to a bound.
LEMMA UpTo ==
  ASSUME NEW n \in Nat, NEW S, 0 \in S, \A k \in 0 .. n - 1 : k \in S => k + 1 \in S
  PROVE  \A k \in 0 .. n : k \in S
<1> DEFINE T == {k \in Nat : k <= n => k \in S}
<1>1. 0 \in T
  OBVIOUS
<1>2. ASSUME NEW k \in Nat, k \in T PROVE k + 1 \in T
  <2>1. CASE k + 1 <= n
    BY <1>2, <2>1
  <2>2. CASE ~(k + 1 <= n)
    BY <2>2
  <2> QED
    BY <2>1, <2>2
<1> HIDE DEF T
<1>3. Nat \subseteq T
  BY <1>1, <1>2, SetInduction
<1> QED
  BY <1>3 DEF T

-----------------------------------------------------------------------------
(* Sorting.                                                                *)

\* There are n numbers from 1 to n.
LEMMA FromOne ==
  ASSUME NEW n \in Nat PROVE IsFiniteSet(1 .. n) /\ Cardinality(1 .. n) = n
<1>1. /\ IsFiniteSet(1 .. n)
      /\ Cardinality(1 .. n) = IF 1 > n THEN 0 ELSE n - 1 + 1
  BY FS_Interval
<1> QED
  BY <1>1

Before(data, j, k) == data[j] < data[k] \/ (data[j] = data[k] /\ j <= k)

\* The ranks of the times are the numbers from 1 to how many there are, each once, and a
\* smaller time has a smaller rank.
LEMMA RankIsBijection ==
  ASSUME NEW data \in Seq(Int)
  PROVE  /\ Rank(data) \in Bijection(DOMAIN data, DOMAIN data)
         /\ \A j, k \in DOMAIN data : data[j] < data[k] => Rank(data)[j] < Rank(data)[k]
<1> DEFINE D == DOMAIN data
           Up(k) == {j \in D : Before(data, j, k)}
           rank == Rank(data)
<1>1. D = 1 .. Len(data) /\ Len(data) \in Nat /\ \A k \in D : data[k] \in Int /\ k \in Nat
  OBVIOUS
<1>2. IsFiniteSet(D) /\ Cardinality(D) = Len(data)
  <2>1. IsFiniteSet(1 .. Len(data)) /\ Cardinality(1 .. Len(data)) = Len(data)
    BY <1>1, FromOne
  <2> QED
    BY <1>1, <2>1
<1>3. rank = [k \in D |-> Cardinality(Up(k))]
  BY DEF Rank, Before
<1>4. ASSUME NEW k \in D
      PROVE  IsFiniteSet(Up(k)) /\ Cardinality(Up(k)) \in D /\ k \in Up(k)
  <2>1. k \in Up(k)
    BY <1>1 DEF Before
  <2>2. Up(k) \subseteq D
    OBVIOUS
  <2> DEFINE U == Up(k)
  <2> HIDE DEF U
  <2>3. IsFiniteSet(U) /\ Cardinality(U) <= Cardinality(D)
    BY <1>2, <2>2, FS_Subset DEF U
  <2>4. Cardinality(U) # 0
    BY <2>1, <2>3, FS_EmptySet DEF U
  <2>5. Cardinality(U) \in Nat
    BY <2>3, FS_CardinalityType
  <2> QED
    BY <1>1, <1>2, <2>1, <2>3, <2>4, <2>5 DEF U
<1>5. ASSUME NEW j \in D, NEW k \in D, Before(data, j, k), j # k
      PROVE  Cardinality(Up(j)) < Cardinality(Up(k))
  <2>1. Up(j) \subseteq Up(k)
    BY <1>1, <1>5 DEF Before
  <2>2. k \notin Up(j)
    BY <1>1, <1>5 DEF Before
  <2> DEFINE U == Up(j)
             V == Up(k)
  <2>3. U \subseteq V /\ U # V /\ IsFiniteSet(V) /\ IsFiniteSet(U)
    BY <1>4, <2>1, <2>2
  <2> HIDE DEF U, V
  <2>4. Cardinality(U) < Cardinality(V)
    <3>1. Cardinality(U) <= Cardinality(V) /\ (Cardinality(U) = Cardinality(V) => U = V)
      BY <2>3, FS_Subset
    <3>2. Cardinality(U) \in Nat /\ Cardinality(V) \in Nat
      BY <2>3, FS_CardinalityType
    <3> QED
      BY <2>3, <3>1, <3>2
  <2> QED
    BY <2>4 DEF U, V
<1> HIDE DEF rank, D, Up
<1>6. rank \in [D -> D]
  BY <1>3, <1>4
<1>7. \A j, k \in D : Before(data, j, k) /\ j # k => rank[j] < rank[k]
  BY <1>3, <1>5
<1>8. \A j, k \in D : Before(data, j, k) \/ Before(data, k, j)
  BY <1>1 DEF Before
<1>9. \A j, k \in D : rank[j] = rank[k] => j = k
  <2> SUFFICES ASSUME NEW j \in D, NEW k \in D, rank[j] = rank[k], j # k PROVE FALSE
    OBVIOUS
  <2>1. rank[j] < rank[k] \/ rank[k] < rank[j]
    BY <1>7, <1>8
  <2> QED
    BY <1>1, <1>6, <2>1
<1>10. rank \in Injection(D, D)
  BY <1>6, <1>9 DEF Injection, IsInjective
<1>11. rank \in Bijection(D, D)
  BY <1>2, <1>10, FS_Injection DEF Bijection
<1>12. \A j, k \in D : data[j] < data[k] => rank[j] < rank[k]
  BY <1>1, <1>7 DEF Before
<1> QED
  BY <1>11, <1>12 DEF rank, D

\* A function on 1 .. n is a sequence of length n.
LEMMA IsSequence ==
  ASSUME NEW S, NEW n \in Nat, NEW f \in [1 .. n -> S]
  PROVE  f \in Seq(S) /\ Len(f) = n
OBVIOUS

\* Sorted has the times of data in ascending order: p says which is where.
LEMMA SortedPermutes ==
  ASSUME NEW data \in Seq(Int)
  PROVE  /\ Sorted(data) \in Seq(Int) /\ Len(Sorted(data)) = Len(data)
         /\ \E p \in Bijection(DOMAIN data, DOMAIN data) :
              \A k \in DOMAIN data : Sorted(data)[k] = data[p[k]]
         /\ \A j, k \in DOMAIN data : j < k => Sorted(data)[j] <= Sorted(data)[k]
<1> DEFINE D == DOMAIN data
           s == Sorted(data)
           rank == Rank(data)
           p == [n \in D |-> CHOOSE k \in D : rank[k] = n]
<1>1. D = 1 .. Len(data) /\ Len(data) \in Nat /\ \A k \in D : data[k] \in Int /\ k \in Nat
  OBVIOUS
<1>2. rank \in Bijection(D, D) /\ \A j, k \in D : data[j] < data[k] => rank[j] < rank[k]
  BY RankIsBijection
<1> HIDE DEF rank
<1>3. /\ rank \in [D -> D] /\ (\A n \in D : \E k \in D : rank[k] = n)
      /\ \A j, k \in D : rank[j] = rank[k] => j = k
  BY <1>2 DEF Bijection, Injection, Surjection, IsInjective
<1>4. \A n \in D : p[n] \in D /\ rank[p[n]] = n
  BY <1>3
<1>5. s = [n \in D |-> data[p[n]]]
  BY DEF Sorted, rank
<1> HIDE DEF p, s, D
<1>6. p \in Bijection(D, D)
  <2>1. p \in [D -> D]
    BY <1>4 DEF p
  <2>2. \A m, n \in D : p[m] = p[n] => m = n
    BY <1>4
  <2>3. \A k \in D : \E n \in D : p[n] = k
    BY <1>3, <1>4
  <2> QED
    BY <2>1, <2>2, <2>3 DEF Bijection, Injection, Surjection, IsInjective
<1>7. s \in Seq(Int) /\ Len(s) = Len(data)
  <2>1. \A n \in D : data[p[n]] \in Int
    BY <1>1, <1>4
  <2>2. s \in [D -> Int]
    BY <1>5, <2>1, Zenon
  <2> QED
    BY <1>1, <2>2, IsSequence
<1>8. \A j, k \in D : j < k => s[j] <= s[k]
  <2> SUFFICES ASSUME NEW j \in D, NEW k \in D, j < k, ~(s[j] <= s[k]) PROVE FALSE
    OBVIOUS
  <2> DEFINE x == s[j]
             y == s[k]
  <2>0. x = data[p[j]] /\ y = data[p[k]]
    BY <1>5, Zenon
  <2>4. p[j] \in D /\ p[k] \in D
    BY <1>4, Zenon
  <2>3. x \in Int /\ y \in Int /\ ~(x <= y)
    BY <1>1, <2>0, <2>4, Zenon
  <2> HIDE DEF x, y
  <2>5. y < x
    BY <2>3
  <2>1. data[p[k]] < data[p[j]]
    BY <2>0, <2>5, Zenon
  <2>2. rank[p[k]] < rank[p[j]]
    BY <1>2, <1>4, <2>1
  <2> QED
    BY <1>1, <1>4, <2>2
<1> QED
  BY <1>5, <1>6, <1>7, <1>8 DEF s, D

\* The same with the numbers from 1 on for the domain.
LEMMA SortPermutation ==
  ASSUME NEW data \in Seq(Int)
  PROVE  \E p \in Bijection(1 .. Len(data), 1 .. Len(data)) :
           \A k \in 1 .. Len(data) : Sorted(data)[k] = data[p[k]]
<1>1. DOMAIN data = 1 .. Len(data)
  OBVIOUS
<1>2. \E p \in Bijection(DOMAIN data, DOMAIN data) :
         \A k \in DOMAIN data : Sorted(data)[k] = data[p[k]]
  BY SortedPermutes, Zenon
<1> QED
  BY <1>1, <1>2, Zenon

-----------------------------------------------------------------------------
(* How often a time is there, and the sums of times.                       *)

\* How many of the first n times are in V.
CountIn(times, V, n) == Cardinality({k \in 1 .. n : times[k] \in V})

Hit(t, V) == IF t \in V THEN 1 ELSE 0

\* The next time is in V or not.
LEMMA CountStep ==
  ASSUME NEW times, NEW V, NEW n \in Nat
  PROVE  /\ CountIn(times, V, n) \in Nat /\ CountIn(times, V, 0) = 0
         /\ CountIn(times, V, n + 1) = CountIn(times, V, n) + Hit(times[n + 1], V)
<1> DEFINE In(m) == {k \in 1 .. m : times[k] \in V}
           A == In(n)
           B == In(n + 1)
<1>1. IsFiniteSet(A) /\ Cardinality(A) \in Nat
  <2>1. A \subseteq 1 .. n /\ IsFiniteSet(1 .. n)
    BY FromOne
  <2> HIDE DEF A
  <2> QED
    BY <2>1, FS_Subset, FS_CardinalityType
<1>2. In(0) = {}
  OBVIOUS
<1>3. CASE times[n + 1] \in V
  <2>1. B = A \cup {n + 1} /\ n + 1 \notin A
    BY <1>3
  <2> HIDE DEF A, B
  <2>2. Cardinality(B) = Cardinality(A) + 1
    BY <1>1, <2>1, FS_AddElement
  <2> QED
    BY <1>1, <1>2, <1>3, <2>2, FS_EmptySet, Zenon DEF CountIn, Hit, A, B
<1>4. CASE times[n + 1] \notin V
  <2>1. B = A
    BY <1>4
  <2> HIDE DEF A, B
  <2>2. Cardinality(B) = Cardinality(A) + 0
    BY <1>1, <2>1
  <2> QED
    BY <1>1, <1>2, <1>4, <2>2, FS_EmptySet, Zenon DEF CountIn, Hit, A, B
<1> QED
  BY <1>3, <1>4

\* A permutation keeps how often something is there.
LEMMA CountPermuted ==
  ASSUME NEW n \in Nat, NEW p \in Bijection(1 .. n, 1 .. n), NEW f, NEW g,
         \A k \in 1 .. n : f[k] = g[p[k]], NEW V
  PROVE  CountIn(f, V, n) = CountIn(g, V, n)
<1> DEFINE A == {k \in 1 .. n : f[k] \in V}
           B == {k \in 1 .. n : g[k] \in V}
           q == [k \in A |-> p[k]]
<1>1. /\ p \in [1 .. n -> 1 .. n] /\ (\A j \in 1 .. n : \E k \in 1 .. n : p[k] = j)
      /\ \A j, k \in 1 .. n : p[j] = p[k] => j = k
  BY DEF Bijection, Injection, Surjection, IsInjective
<1>2. q \in [A -> B]
  BY <1>1
<1>3. \A j, k \in A : q[j] = q[k] => j = k
  BY <1>1
<1>4. \A j \in B : \E k \in A : q[k] = j
  <2> TAKE j \in B
  <2>1. PICK k \in 1 .. n : p[k] = j
    BY <1>1
  <2>2. k \in A /\ q[k] = j
    BY <2>1
  <2> QED
    BY <2>2
<1>5. A \subseteq 1 .. n
  OBVIOUS
<1> HIDE DEF q, A, B
<1>6. q \in Bijection(A, B)
  <2>1. DOMAIN q = A
    BY <1>2
  <2>2. q \in Injection(A, B)
    BY <1>2, <1>3, <2>1 DEF Injection, IsInjective
  <2>3. q \in Surjection(A, B)
    BY <1>2, <1>4 DEF Surjection
  <2> QED
    BY <2>2, <2>3 DEF Bijection
<1>7. IsFiniteSet(A)
  BY <1>5, FromOne, FS_Subset
<1>8. Cardinality(A) = Cardinality(B)
  BY <1>6, <1>7, FS_Bijection DEF ExistsBijection
<1> QED
  BY <1>8, Zenon DEF CountIn, A, B

\* So does sorting.
LEMMA CountSorted ==
  ASSUME NEW data \in Seq(Int), NEW V
  PROVE  CountIn(Sorted(data), V, Len(data)) = CountIn(data, V, Len(data))
<1> DEFINE n == Len(data)
           s == Sorted(data)
<1>1. n \in Nat
  OBVIOUS
<1>2. PICK p \in Bijection(1 .. n, 1 .. n) : \A k \in 1 .. n : s[k] = data[p[k]]
  BY SortPermutation, Zenon
<1> HIDE DEF n, s
<1>3. CountIn(s, V, n) = CountIn(data, V, n)
  BY <1>1, <1>2, CountPermuted
<1> QED
  BY <1>3 DEF n, s

\* The sums go on by one time.
LEMMA SumsExist ==
  ASSUME NEW times
  PROVE  \A n \in Nat :
           \E f : f = [k \in 0 .. n |-> IF k = 0 THEN 0 ELSE f[k - 1] + times[k]]
<1> DEFINE S == {n \in Nat : \E f : f = [k \in 0 .. n |-> IF k = 0 THEN 0 ELSE f[k - 1] + times[k]]}
<1>1. 0 \in S
  <2> DEFINE f == [k \in {0} |-> 0]
  <2>1. f = [k \in 0 .. 0 |-> IF k = 0 THEN 0 ELSE f[k - 1] + times[k]]
    OBVIOUS
  <2> QED
    BY <2>1
<1>2. ASSUME NEW n \in Nat, n \in S PROVE n + 1 \in S
  <2>1. PICK f : f = [k \in 0 .. n |-> IF k = 0 THEN 0 ELSE f[k - 1] + times[k]]
    BY <1>2
  <2> DEFINE g == [k \in 0 .. n + 1 |-> IF k = n + 1 THEN f[n] + times[n + 1] ELSE f[k]]
             h == [k \in 0 .. n + 1 |-> IF k = 0 THEN 0 ELSE g[k - 1] + times[k]]
  <2>2. ASSUME NEW k \in 0 .. n + 1 PROVE g[k] = h[k]
    <3>1. CASE k = 0
      <4>1. 0 \in 0 .. n /\ 0 # n + 1
        OBVIOUS
      <4>2. g[k] = f[0]
        BY <3>1, <4>1
      <4>3. f[0] = 0
        BY <2>1, <4>1
      <4> QED
        BY <3>1, <4>2, <4>3
    <3>2. CASE k = n + 1
      <4>1. k - 1 = n /\ k # 0 /\ n # n + 1 /\ n \in 0 .. n + 1
        BY <3>2
      <4>2. g[n] = f[n]
        BY <4>1
      <4> QED
        BY <3>2, <4>1, <4>2
    <3>3. CASE k # 0 /\ k # n + 1
      <4>1. k \in 0 .. n /\ k - 1 \in 0 .. n /\ k - 1 # n + 1 /\ k - 1 \in 0 .. n + 1
        BY <3>3
      <4>2. g[k - 1] = f[k - 1] /\ g[k] = f[k]
        BY <3>3, <4>1
      <4>3. f[k] = f[k - 1] + times[k]
        BY <2>1, <3>3, <4>1
      <4> QED
        BY <3>3, <4>2, <4>3
    <3> QED
      BY <3>1, <3>2, <3>3
  <2>3. DOMAIN g = 0 .. n + 1 /\ DOMAIN h = 0 .. n + 1
    OBVIOUS
  <2>4. g = h
    <3>1. g = [k \in 0 .. n + 1 |-> g[k]] /\ h = [k \in 0 .. n + 1 |-> h[k]]
      OBVIOUS
    <3> HIDE DEF g, h
    <3> QED
      BY <2>2, <3>1
  <2>5. \E e : e = [k \in 0 .. n + 1 |-> IF k = 0 THEN 0 ELSE e[k - 1] + times[k]]
    <3> HIDE DEF g
    <3> QED
      BY <2>4 DEF h
  <2> QED
    BY <2>5
<1> HIDE DEF S
<1>3. Nat \subseteq S
  BY <1>1, <1>2, SetInduction
<1> QED
  BY <1>3 DEF S

\* The sum of the first k + 1 times is that of the first k and the next one.
LEMMA SumsStep ==
  ASSUME NEW times \in Seq(Int)
  PROVE  /\ Sums(times)[0] = 0
         /\ \A k \in 0 .. Len(times) - 1 : Sums(times)[k + 1] = Sums(times)[k] + times[k + 1]
         /\ \A k \in 0 .. Len(times) : Sums(times)[k] \in Int
<1> DEFINE n == Len(times)
           f == Sums(times)
<1>1. n \in Nat /\ \A k \in 1 .. n : times[k] \in Int
  OBVIOUS
<1>2. f = CHOOSE g : g = [k \in 0 .. n |-> IF k = 0 THEN 0 ELSE g[k - 1] + times[k]]
  BY DEF Sums
<1>3. \E g : g = [k \in 0 .. n |-> IF k = 0 THEN 0 ELSE g[k - 1] + times[k]]
  BY <1>1, SumsExist
<1> HIDE DEF f, n
<1>4. f = [k \in 0 .. n |-> IF k = 0 THEN 0 ELSE f[k - 1] + times[k]]
  BY <1>2, <1>3
<1>5. f[0] = 0
  BY <1>1, <1>4
<1>6. \A k \in 0 .. n - 1 : f[k + 1] = f[k] + times[k + 1]
  <2> TAKE k \in 0 .. n - 1
  <2>1. k + 1 \in 0 .. n /\ k + 1 # 0 /\ (k + 1) - 1 = k
    BY <1>1
  <2> DEFINE j == k + 1
  <2>2. j \in 0 .. n /\ j # 0 /\ j - 1 = k
    BY <2>1
  <2> HIDE DEF j
  <2>3. f[j] = f[j - 1] + times[j]
    BY <1>4, <2>2
  <2> QED
    BY <2>2, <2>3 DEF j
<1>7. \A k \in 0 .. n : f[k] \in Int
  <2> DEFINE S == {k \in 0 .. n : f[k] \in Int}
  <2>1. 0 \in S
    BY <1>1, <1>5
  <2>2. ASSUME NEW k \in 0 .. n - 1, k \in S PROVE k + 1 \in S
    <3>1. k \in 0 .. n /\ k + 1 \in 0 .. n /\ k + 1 \in 1 .. n
      BY <1>1
    <3>2. f[k] \in Int /\ f[k + 1] = f[k] + times[k + 1] /\ times[k + 1] \in Int
      BY <1>1, <1>6, <2>2, <3>1
    <3> QED
      BY <3>1, <3>2
  <2> HIDE DEF S
  <2>3. \A k \in 0 .. n : k \in S
    BY <1>1, <2>1, <2>2, UpTo
  <2> QED
    BY <2>3 DEF S
<1> QED
  BY <1>5, <1>6, <1>7 DEF n, f

\* Times cut off at v, and those it cuts off.
Capped(times, v) == [k \in 1 .. Len(times) |-> IF times[k] <= v THEN times[k] ELSE v]
Above(v) == {t \in Int : t > v}

\* Capped times are times.
LEMMA CappedTimes ==
  ASSUME NEW times \in Seq(Int), NEW v \in Int
  PROVE  Capped(times, v) \in Seq(Int) /\ Len(Capped(times, v)) = Len(times)
<1>1. Len(times) \in Nat /\ \A k \in 1 .. Len(times) : times[k] \in Int
  OBVIOUS
<1>2. Capped(times, v) \in [1 .. Len(times) -> Int]
  BY <1>1 DEF Capped
<1> QED
  BY <1>1, <1>2

\* The next cut adds one for each time above the last.
LEMMA NextCap ==
  ASSUME NEW times \in Seq(Int), NEW v \in Int
  PROVE  SumOf(Capped(times, v + 1)) = SumOf(Capped(times, v)) + CountIn(times, Above(v), Len(times))
<1> DEFINE n == Len(times)
           more == Capped(times, v + 1)
           less == Capped(times, v)
           S == {k \in 0 .. n : Sums(more)[k] = Sums(less)[k] + CountIn(times, Above(v), k)}
<1>1. n \in Nat /\ v + 1 \in Int /\ \A k \in 1 .. n : times[k] \in Int
  OBVIOUS
<1>2. more \in Seq(Int) /\ less \in Seq(Int) /\ Len(more) = n /\ Len(less) = n
  BY <1>1, CappedTimes
<1>3. \A k \in 1 .. n : more[k] = less[k] + Hit(times[k], Above(v))
  BY <1>1 DEF Capped, Above, Hit
<1> HIDE DEF more, less, n
<1>4. 0 \in S
  <2>1. Sums(more)[0] = 0 /\ Sums(less)[0] = 0 /\ CountIn(times, Above(v), 0) = 0
    BY <1>2, SumsStep, CountStep
  <2> QED
    BY <1>1, <2>1
<1>5. ASSUME NEW k \in 0 .. n - 1, k \in S PROVE k + 1 \in S
  <2>1. k \in Nat /\ k \in 0 .. n /\ k + 1 \in 0 .. n /\ k + 1 \in 1 .. n
    BY <1>1
  <2> DEFINE c == CountIn(times, Above(v), k)
             d == CountIn(times, Above(v), k + 1)
             e == Hit(times[k + 1], Above(v))
             x == Sums(more)[k]
             y == Sums(less)[k]
  <2>2. c \in Nat /\ d = c + e
    BY <2>1, CountStep
  <2>3. Sums(more)[k + 1] = x + more[k + 1] /\ x \in Int
    BY <1>2, <2>1, SumsStep
  <2>4. Sums(less)[k + 1] = y + less[k + 1] /\ y \in Int
    BY <1>2, <2>1, SumsStep
  <2>5. more[k + 1] = less[k + 1] + e /\ less[k + 1] \in Int /\ e \in Nat
    BY <1>2, <1>3, <2>1 DEF Hit
  <2>6. x = y + c
    BY <1>5
  <2> HIDE DEF c, d, e, x, y
  <2>7. Sums(more)[k + 1] = Sums(less)[k + 1] + d
    BY <2>2, <2>3, <2>4, <2>5, <2>6
  <2> QED
    BY <2>1, <2>7 DEF d
<1> HIDE DEF S
<1>6. \A k \in 0 .. n : k \in S
  BY <1>1, <1>4, <1>5, UpTo
<1>7. Sums(more)[n] = Sums(less)[n] + CountIn(times, Above(v), n)
  BY <1>1, <1>6 DEF S
<1> QED
  BY <1>2, <1>7 DEF SumOf, more, less, n

\* What is there as often has the same sum: cut off at the least time they have, and
\* then at one more each time.
LEMMA SumByCounts ==
  ASSUME NEW s \in Seq(Int), NEW t \in Seq(Int), Len(s) = Len(t),
         \A V : CountIn(s, V, Len(s)) = CountIn(t, V, Len(t)),
         NEW min \in Int, NEW max \in Int, min <= max,
         \A k \in 1 .. Len(s) : min <= s[k] /\ s[k] <= max /\ min <= t[k] /\ t[k] <= max
  PROVE  SumOf(s) = SumOf(t)
<1> DEFINE S == {v \in Nat : SumOf(Capped(s, min + v)) = SumOf(Capped(t, min + v))}
<1>0. \A k \in 1 .. Len(s) : s[k] \in Int /\ t[k] \in Int
  OBVIOUS
<1>1. 0 \in S
  <2>1. \A k \in 1 .. Len(s) : /\ (IF s[k] <= min THEN s[k] ELSE min) = min
                               /\ (IF t[k] <= min THEN t[k] ELSE min) = min
    BY <1>0
  <2>2. Capped(s, min) = Capped(t, min)
    BY <2>1 DEF Capped
  <2>3. min + 0 = min
    OBVIOUS
  <2> QED
    BY <2>2, <2>3
<1>2. ASSUME NEW v \in Nat, v \in S PROVE v + 1 \in S
  <2> DEFINE c == min + v
  <2>1. SumOf(Capped(s, c)) = SumOf(Capped(t, c)) /\ c \in Int /\ min + (v + 1) = c + 1
    BY <1>2
  <2> HIDE DEF c
  <2>2. SumOf(Capped(s, c + 1)) = SumOf(Capped(t, c + 1))
    BY <2>1, NextCap
  <2> QED
    BY <2>1, <2>2
<1> HIDE DEF S
<1>3. SumOf(Capped(s, max)) = SumOf(Capped(t, max))
  <2>1. Nat \subseteq S
    BY <1>1, <1>2, SetInduction
  <2>2. max - min \in Nat /\ min + (max - min) = max
    OBVIOUS
  <2> DEFINE v == max - min
  <2> HIDE DEF v
  <2>3. v \in S /\ min + v = max
    BY <2>1, <2>2 DEF v
  <2> QED
    BY <2>3 DEF S
<1>4. Capped(s, max) = s /\ Capped(t, max) = t
  BY DEF Capped
<1> QED
  BY <1>3, <1>4

\* The sorted times are those of data.
LEMMA SortedTimes ==
  ASSUME NEW data \in Seq(Int)
  PROVE  /\ \A j \in 1 .. Len(data) : \E k \in 1 .. Len(data) : Sorted(data)[k] = data[j]
         /\ \A k \in 1 .. Len(data) : \E j \in 1 .. Len(data) : Sorted(data)[k] = data[j]
<1> DEFINE n == Len(data)
           s == Sorted(data)
<1>1. n \in Nat /\ DOMAIN data = 1 .. n
  OBVIOUS
<1>2. PICK p \in Bijection(1 .. n, 1 .. n) : \A k \in 1 .. n : s[k] = data[p[k]]
  BY SortPermutation, Zenon
<1>3. p \in [1 .. n -> 1 .. n] /\ \A j \in 1 .. n : \E k \in 1 .. n : p[k] = j
  BY DEF Bijection, Surjection
<1> HIDE DEF n, s
<1>4. ASSUME NEW j \in 1 .. n PROVE \E k \in 1 .. n : s[k] = data[j]
  <2>1. PICK k \in 1 .. n : p[k] = j
    BY <1>3
  <2> QED
    BY <1>2, <2>1
<1>5. ASSUME NEW k \in 1 .. n PROVE \E j \in 1 .. n : s[k] = data[j]
  BY <1>2, <1>3
<1> QED
  BY <1>4, <1>5 DEF n, s

\* Sorting keeps the sum: with every cap, and so with the largest time as cap.
LEMMA SumSorted ==
  ASSUME NEW data \in Seq(Int) PROVE SumOf(Sorted(data)) = SumOf(data)
<1> DEFINE n == Len(data)
           s == Sorted(data)
<1>1. n \in Nat /\ DOMAIN data = 1 .. n /\ \A k \in 1 .. n : data[k] \in Int
  OBVIOUS
<1>2. s \in Seq(Int) /\ Len(s) = n /\ \A j, k \in 1 .. n : j < k => s[j] <= s[k]
  BY <1>1, SortedPermutes
<1>3. \A V : CountIn(s, V, n) = CountIn(data, V, n)
  BY CountSorted
<1>4. \A j \in 1 .. n : \E k \in 1 .. n : s[k] = data[j]
  BY SortedTimes
<1> DEFINE min == IF n = 0 THEN 0 ELSE s[1]
           max == IF n = 0 THEN 0 ELSE s[n]
<1> HIDE DEF n, s
<1>5. min \in Int /\ max \in Int /\ min <= max /\ \A k \in 1 .. n : min <= s[k] /\ s[k] <= max
  <2>1. CASE n = 0
    BY <2>1
  <2>2. CASE n # 0
    <3>1. 1 \in 1 .. n /\ n \in 1 .. n /\ \A k \in 1 .. n : s[k] \in Int
      BY <1>1, <1>2, <2>2
    <3>2. ASSUME NEW k \in 1 .. n PROVE s[1] <= s[k] /\ s[k] <= s[n]
      <4>1. (k = n \/ k < n) /\ (k = 1 \/ 1 < k)
        BY <1>1
      <4> QED
        BY <1>2, <3>1, <4>1
    <3> QED
      BY <2>2, <3>1, <3>2
  <2> QED
    BY <2>1, <2>2
<1>6. \A k \in 1 .. n : min <= data[k] /\ data[k] <= max
  BY <1>4, <1>5
<1> HIDE DEF min, max
<1> QED
  BY <1>1, <1>2, <1>3, <1>5, <1>6, SumByCounts DEF n, s

-----------------------------------------------------------------------------
(* The loop over the sorted times.                                         *)

\* The upper bound of bin b - 1.
Edge(b) == b * BinSize

\* The edges of the bins ascend.
LEMMA Edges ==
  /\ \A b \in Nat : Edge(b) \in Nat
  /\ \A b, c \in Nat : b <= c => Edge(b) <= Edge(c)
<1>0. BinSize \in Nat
  BY TimerAssumption
<1>1. ASSUME NEW b \in Nat PROVE b * BinSize \in Nat
  BY <1>0
<1>2. ASSUME NEW b \in Nat, NEW c \in Nat, b <= c PROVE b * BinSize <= c * BinSize
  <2>1. c - b \in Nat
    BY <1>2
  <2>2. (c - b) * BinSize \in Nat
    BY <1>0, <2>1
  <2>3. BinSize * (c + 0 - b) = BinSize * c + BinSize * 0 - BinSize * b
    BY <1>0
  <2> QED
    BY <1>0, <2>2, <2>3
<1> QED
  BY <1>1, <1>2 DEF Edge

\* The loop over the bins stops at a bin the time is in.
LEMMA NextBinIs ==
  ASSUME NEW loop, loop.bin \in Bins, loop.bin # NumOfBins, NEW d \in Int, d > Edge(loop.bin + 1)
  PROVE  /\ NextBin(loop, d) \in Bins /\ NextBin(loop, d) > loop.bin
         /\ InBin(d, NextBin(loop, d)) /\ d > Edge(NextBin(loop, d))
<1> DEFINE i == loop.bin
           stops(b) == b = NumOfBins \/ d <= Edge(b + 1)
           T == {b \in i .. NumOfBins : stops(b)}
           next == NextBin(loop, d)
<1>1. NumOfBins \in Nat /\ i \in Nat /\ i < NumOfBins
  BY TimerAssumption DEF Bins
<1> HIDE DEF i
<1>2. NumOfBins \in T /\ T \subseteq Nat
  BY <1>1
<1>3. PICK m \in T : \A n \in T : m <= n
  BY <1>2, Least
<1>4. \A c \in i .. m - 1 : d > Edge(c + 1)
  <2> TAKE c \in i .. m - 1
  <2>1. m \in Nat /\ c \in i .. NumOfBins /\ c + 1 \in Nat /\ ~(m <= c)
    BY <1>1, <1>2, <1>3
  <2>2. ~(d <= Edge(c + 1))
    BY <1>3, <2>1
  <2> QED
    BY <2>1, <2>2, Edges
<1>5. next = CHOOSE b \in i .. NumOfBins : stops(b) /\ \A c \in i .. b - 1 : d > Edge(c + 1)
  BY DEF NextBin, Edge, i
<1> HIDE DEF next
<1>6. next \in i .. NumOfBins /\ stops(next) /\ \A c \in i .. next - 1 : d > Edge(c + 1)
  BY <1>3, <1>4, <1>5
<1>7. next # i
  <2>1. Edge(i + 1) \in Nat /\ d > Edge(i + 1)
    BY <1>1, Edges DEF i
  <2> QED
    BY <1>1, <1>6, <2>1
<1>8. d > Edge(next)
  <2>1. next - 1 \in i .. next - 1 /\ (next - 1) + 1 = next
    BY <1>1, <1>6, <1>7
  <2> DEFINE c == next - 1
  <2> HIDE DEF c
  <2>2. d > Edge(c + 1)
    BY <1>6, <2>1 DEF c
  <2> QED
    BY <2>1, <2>2 DEF c
<1>9. InBin(d, next)
  <2>1. next + 1 \in Nat
    BY <1>1, <1>6
  <2>2. Edge(next + 1) \in Nat /\ Unit \in Nat \ {0}
    BY <2>1, Edges, TimerAssumption
  <2>3. next = NumOfBins \/ d < Edge(next + 1) + Unit
    BY <1>6, <2>2
  <2> QED
    BY <1>8, <2>3 DEF InBin, Edge
<1>10. next \in Bins /\ next > i
  BY <1>1, <1>6, <1>7 DEF Bins
<1> QED
  BY <1>8, <1>9, <1>10 DEF next, i

\* bin says where the first k times are: the bins before the loop's one have
\* theirs, those after it none, and the loop has counted its own.  The loop's bin
\* was opened by a time above its lower bound.
RoundOK(loop, s, k, bin) ==
  /\ loop \in [dist : [Bins -> Nat], bin : Bins, count : Nat]
  /\ \A j \in 1 .. k : bin[j] \in Bins /\ bin[j] <= loop.bin /\ InBin(s[j], bin[j])
  /\ loop.count = CountIn(bin, {loop.bin}, k)
  /\ \A b \in Bins : loop.dist[b] = IF b < loop.bin THEN CountIn(bin, {b}, k) ELSE 0
  /\ loop.bin = 0 \/ \E j \in 1 .. k : s[j] > Edge(loop.bin)

\* A bin without times among the first k has none.
LEMMA NoneIn ==
  ASSUME NEW s, NEW V, NEW k \in Nat, \A j \in 1 .. k : s[j] \notin V
  PROVE  CountIn(s, V, k) = 0
<1>1. {j \in 1 .. k : s[j] \in V} = {}
  OBVIOUS
<1> QED
  BY <1>1, FS_EmptySet, Zenon DEF CountIn

\* What is counted among the first k depends on them only.
LEMMA SameCount ==
  ASSUME NEW f, NEW g, NEW k, \A j \in 1 .. k : f[j] = g[j], NEW V
  PROVE  CountIn(f, V, k) = CountIn(g, V, k)
<1>1. {j \in 1 .. k : f[j] \in V} = {j \in 1 .. k : g[j] \in V}
  OBVIOUS
<1> QED
  BY <1>1, Zenon DEF CountIn

\* One more time.
Then(bin, k, b) == [j \in 1 .. k + 1 |-> IF j = k + 1 THEN b ELSE bin[j]]

LEMMA ThenIs ==
  ASSUME NEW bin, NEW k \in Nat, NEW b
  PROVE  (\A j \in 1 .. k : Then(bin, k, b)[j] = bin[j]) /\ Then(bin, k, b)[k + 1] = b
BY DEF Then

LEMMA ThenCount ==
  ASSUME NEW bin, NEW k \in Nat, NEW b, NEW V
  PROVE  /\ CountIn(bin, V, k) \in Nat
         /\ CountIn(Then(bin, k, b), V, k + 1) = CountIn(bin, V, k) + Hit(b, V)
<1> DEFINE g == Then(bin, k, b)
<1>1. (\A j \in 1 .. k : g[j] = bin[j]) /\ g[k + 1] = b
  BY ThenIs
<1> HIDE DEF g
<1>2. CountIn(g, V, k + 1) = CountIn(g, V, k) + Hit(g[k + 1], V)
  BY CountStep
<1>3. CountIn(g, V, k) = CountIn(bin, V, k) /\ CountIn(bin, V, k) \in Nat
  BY <1>1, SameCount, CountStep
<1> QED
  BY <1>1, <1>2, <1>3 DEF g

\* One round of the loop keeps RoundOK, whether the time fits the bin or opens a later one.
LEMMA RoundStep ==
  ASSUME NEW s \in Seq(Int), \A j, k \in 1 .. Len(s) : j < k => s[j] <= s[k],
         NEW k \in 0 .. Len(s) - 1, NEW loop, NEW bin, RoundOK(loop, s, k, bin)
  PROVE  \E more : RoundOK(Place(loop, s[k + 1]), s, k + 1, more)
<1> DEFINE d == s[k + 1]
           i == loop.bin
           fits == d < Edge(i + 1) + Unit \/ i = NumOfBins
           C(b) == CountIn(bin, {b}, k)
           loop2 == Place(loop, d)
           more(b) == Then(bin, k, b)
<1>1. /\ k \in Nat /\ k + 1 \in 1 .. Len(s) /\ d \in Int /\ NumOfBins \in Nat /\ Unit \in Nat \ {0}
      /\ \A j \in 1 .. k : j \in 1 .. Len(s) /\ j < k + 1 /\ s[j] \in Int
      /\ \A j \in 1 .. k + 1 : j \in 1 .. k \/ j = k + 1
  <2>1. k \in Nat /\ k + 1 \in 1 .. Len(s) /\ NumOfBins \in Nat /\ Unit \in Nat \ {0}
    BY TimerAssumption
  <2>2. \A j \in 1 .. Len(s) : s[j] \in Int
    OBVIOUS
  <2>3. \A j \in 1 .. k : j \in 1 .. Len(s) /\ j < k + 1
    BY <2>1
  <2>4. \A j \in 1 .. k + 1 : j \in 1 .. k \/ j = k + 1
    BY <2>1
  <2> QED
    BY <2>1, <2>2, <2>3, <2>4, Zenon
<1>2. /\ loop = [dist |-> loop.dist, bin |-> i, count |-> loop.count]
      /\ loop.dist \in [Bins -> Nat] /\ i \in Bins /\ i \in Nat /\ i <= NumOfBins /\ loop.count \in Nat
  BY <1>1 DEF RoundOK, Bins
<1>3. /\ loop.count = C(i)
      /\ \A b \in Bins : loop.dist[b] = IF b < i THEN C(b) ELSE 0
      /\ \A j \in 1 .. k : bin[j] \in Bins /\ bin[j] <= i /\ InBin(s[j], bin[j])
  BY DEF RoundOK
<1>4. /\ \A b \in Bins : C(b) \in Nat
      /\ \A b, c \in Bins : CountIn(more(b), {c}, k + 1) = C(c) + Hit(b, {c})
  <2>1. ASSUME NEW b \in Bins, NEW c \in Bins
        PROVE  C(c) \in Nat /\ CountIn(more(b), {c}, k + 1) = C(c) + Hit(b, {c})
    <3> DEFINE V == {c}
    <3>1. k \in Nat
      BY <1>1
    <3> HIDE DEF V
    <3>2. /\ CountIn(bin, V, k) \in Nat
          /\ CountIn(Then(bin, k, b), V, k + 1) = CountIn(bin, V, k) + Hit(b, V)
      BY <3>1, ThenCount
    <3> QED
      BY <3>2 DEF V
  <2> QED
    BY <2>1
<1>5. \A b : more(b)[k + 1] = b /\ \A j \in 1 .. k : more(b)[j] = bin[j]
  BY <1>1, ThenIs
<1>6. i = 0 \/ d > Edge(i)
  <2>1. ASSUME NEW j \in 1 .. k, s[j] > Edge(i) PROVE d > Edge(i)
    <3>1. s[j] <= d /\ s[j] \in Int /\ Edge(i) \in Nat
      BY <1>1, <1>2, Edges
    <3> QED
      BY <1>1, <2>1, <3>1
  <2> QED
    BY <2>1 DEF RoundOK
<1>7. \A b \in Bins : b \in Nat
  BY <1>1 DEF Bins
<1>8. Edge(i + 1) \in Nat /\ (i + 1) * BinSize = Edge(i + 1)
  <2>1. i + 1 \in Nat
    BY <1>2
  <2>2. Edge(i + 1) \in Nat
    BY <2>1, Edges
  <2> QED
    BY <2>2 DEF Edge
<1>9. loop2 = IF fits THEN [loop EXCEPT !.count = @ + 1]
              ELSE [dist |-> UpdateBin(loop), bin |-> NextBin(loop, d), count |-> 1]
  BY <1>8 DEF Place
<1>10. Hit(i, {i}) = 1 /\ \A b, c \in Bins : b # c => Hit(b, {c}) = 0
  BY DEF Hit
<1> HIDE DEF d, i, C, loop2, more
<1>11. CASE fits
  <2>1. InBin(d, i)
    BY <1>6, <1>11 DEF InBin, Edge
  <2>2. loop2 = [dist |-> loop.dist, bin |-> i, count |-> loop.count + 1]
    <3>1. loop \in [dist : [Bins -> Nat], bin : Bins, count : Nat]
      BY DEF RoundOK
    <3>2. [loop EXCEPT !.count = @ + 1] = [dist |-> loop.dist, bin |-> i, count |-> loop.count + 1]
      BY <3>1 DEF i
    <3> QED
      BY <1>9, <1>11, <3>2
  <2>3. loop2 \in [dist : [Bins -> Nat], bin : Bins, count : Nat]
    BY <1>2, <2>2
  <2>4. loop2.count = CountIn(more(i), {i}, k + 1)
    BY <1>2, <1>3, <1>4, <1>10, <2>2
  <2>5. ASSUME NEW b \in Bins
        PROVE  loop2.dist[b] = IF b < i THEN CountIn(more(i), {b}, k + 1) ELSE 0
    <3>1. ASSUME b < i PROVE CountIn(more(i), {b}, k + 1) = C(b)
      <4>1. b # i /\ C(b) \in Nat
        BY <1>2, <1>4, <1>7, <3>1
      <4>2. CountIn(more(i), {b}, k + 1) = C(b) + Hit(i, {b}) /\ Hit(i, {b}) = 0
        BY <1>2, <1>4, <1>10, <4>1
      <4> QED
        BY <4>1, <4>2
    <3>2. loop2.dist[b] = IF b < i THEN C(b) ELSE 0
      BY <1>3, <2>2
    <3> QED
      BY <3>1, <3>2
  <2>6. ASSUME NEW j \in 1 .. k + 1
        PROVE  more(i)[j] \in Bins /\ more(i)[j] <= i /\ InBin(s[j], more(i)[j])
    <3>1. CASE j \in 1 .. k
      BY <1>3, <1>5, <3>1
    <3>2. CASE j = k + 1
      BY <1>2, <1>5, <2>1, <3>2 DEF d
    <3> QED
      BY <1>1, <3>1, <3>2
  <2>7. i = 0 \/ \E j \in 1 .. k + 1 : s[j] > Edge(i)
    BY <1>1, <1>6 DEF d
  <2>8. loop2.bin = i
    BY <2>2
  <2>9. RoundOK(loop2, s, k + 1, more(i))
    BY <2>3, <2>4, <2>5, <2>6, <2>7, <2>8 DEF RoundOK
  <2> QED
    BY <2>9 DEF loop2, d
<1>12. CASE ~fits
  <2> DEFINE next == NextBin(loop, d)
  <2>1. d > Edge(i + 1) /\ i # NumOfBins
    BY <1>1, <1>8, <1>12
  <2>2. next \in Bins /\ next > i /\ InBin(d, next) /\ d > Edge(next)
    BY <1>1, <1>2, <2>1, NextBinIs DEF i
  <2>3. loop2 = [dist |-> UpdateBin(loop), bin |-> next, count |-> 1]
    BY <1>9, <1>12
  <2> HIDE DEF next
  <2>4. UpdateBin(loop) = [loop.dist EXCEPT ![i] = @ + loop.count]
    BY DEF UpdateBin, i
  <2>5. loop2 \in [dist : [Bins -> Nat], bin : Bins, count : Nat]
    BY <1>2, <2>2, <2>3, <2>4
  <2>6. ASSUME NEW b \in Bins, b > i PROVE C(b) = 0
    <3>1. \A j \in 1 .. k : bin[j] \notin {b}
      BY <1>2, <1>3, <1>7, <2>6
    <3> QED
      BY <1>1, <3>1, NoneIn DEF C
  <2>7. loop2.count = CountIn(more(next), {next}, k + 1)
    <3>1. Hit(next, {next}) = 1
      BY DEF Hit
    <3> QED
      BY <1>4, <2>2, <2>3, <2>6, <3>1
  <2>8. ASSUME NEW b \in Bins
        PROVE  loop2.dist[b] = IF b < next THEN CountIn(more(next), {b}, k + 1) ELSE 0
    <3>1. ASSUME b # next PROVE CountIn(more(next), {b}, k + 1) = C(b)
      <4>1. C(b) \in Nat
        BY <1>4
      <4>2. CountIn(more(next), {b}, k + 1) = C(b) + Hit(next, {b}) /\ Hit(next, {b}) = 0
        BY <1>4, <1>10, <2>2, <3>1
      <4> QED
        BY <4>1, <4>2
    <3>2. CASE b = i
      <4>1. loop2.dist[b] = 0 + C(i)
        BY <1>2, <1>3, <2>3, <2>4, <3>2
      <4> QED
        BY <1>2, <1>4, <2>2, <3>1, <3>2, <4>1
    <3>3. CASE b < i
      <4>1. loop2.dist[b] = C(b)
        BY <1>2, <1>3, <2>3, <2>4, <3>3
      <4>2. b < next /\ b # next
        BY <1>2, <1>7, <2>2, <3>3
      <4> QED
        BY <3>1, <4>1, <4>2
    <3>4. CASE b > i
      <4>1. loop2.dist[b] = 0
        BY <1>2, <1>3, <1>7, <2>3, <2>4, <3>4
      <4>2. b < next => CountIn(more(next), {b}, k + 1) = 0
        BY <1>7, <2>2, <2>6, <3>1, <3>4
      <4> QED
        BY <4>1, <4>2
    <3> QED
      BY <1>2, <1>7, <3>2, <3>3, <3>4
  <2>9. ASSUME NEW j \in 1 .. k + 1
        PROVE  more(next)[j] \in Bins /\ more(next)[j] <= next /\ InBin(s[j], more(next)[j])
    <3>1. CASE j \in 1 .. k
      <4>1. more(next)[j] = bin[j] /\ bin[j] \in Bins /\ bin[j] <= i /\ InBin(s[j], bin[j])
        BY <1>3, <1>5, <3>1
      <4> DEFINE x == bin[j]
      <4>2. x \in Bins /\ x <= i
        BY <4>1
      <4> HIDE DEF x
      <4>3. x <= next
        BY <1>2, <1>7, <2>2, <4>2
      <4> QED
        BY <4>1, <4>3 DEF x
    <3>2. CASE j = k + 1
      BY <1>5, <1>7, <2>2, <3>2 DEF d
    <3> QED
      BY <1>1, <3>1, <3>2
  <2>10. \E j \in 1 .. k + 1 : s[j] > Edge(next)
    <3>1. k + 1 \in 1 .. k + 1
      BY <1>1
    <3> QED
      BY <2>2, <3>1 DEF d
  <2>11. loop2.bin = next
    BY <2>3
  <2>12. RoundOK(loop2, s, k + 1, more(next))
    BY <2>5, <2>7, <2>8, <2>9, <2>10, <2>11 DEF RoundOK
  <2> QED
    BY <2>12 DEF loop2, d
<1> QED
  BY <1>11, <1>12

RoundZero == [dist |-> EmptyHistogram.dist, bin |-> 0, count |-> 0]

\* The recursive function Rounds is defined: for every n there is one on 0 .. n.
LEMMA RoundsExist ==
  ASSUME NEW s
  PROVE  \A n \in Nat :
           \E f : f = [k \in 0 .. n |-> IF k = 0 THEN RoundZero ELSE Place(f[k - 1], s[k])]
<1> DEFINE S == {n \in Nat :
                   \E f : f = [k \in 0 .. n |-> IF k = 0 THEN RoundZero ELSE Place(f[k - 1], s[k])]}
<1>1. 0 \in S
  <2> DEFINE f == [k \in {0} |-> RoundZero]
  <2>1. f = [k \in 0 .. 0 |-> IF k = 0 THEN RoundZero ELSE Place(f[k - 1], s[k])]
    OBVIOUS
  <2> QED
    BY <2>1
<1>2. ASSUME NEW n \in Nat, n \in S PROVE n + 1 \in S
  <2>1. PICK f : f = [k \in 0 .. n |-> IF k = 0 THEN RoundZero ELSE Place(f[k - 1], s[k])]
    BY <1>2
  <2> DEFINE g == [k \in 0 .. n + 1 |-> IF k = n + 1 THEN Place(f[n], s[n + 1]) ELSE f[k]]
             h == [k \in 0 .. n + 1 |-> IF k = 0 THEN RoundZero ELSE Place(g[k - 1], s[k])]
  <2>2. ASSUME NEW k \in 0 .. n + 1 PROVE g[k] = h[k]
    <3>1. CASE k = 0
      <4>1. 0 \in 0 .. n /\ 0 # n + 1
        OBVIOUS
      <4>2. g[k] = f[0] /\ f[0] = RoundZero
        BY <2>1, <3>1, <4>1
      <4> QED
        BY <3>1, <4>2
    <3>2. CASE k = n + 1
      <4>1. k - 1 = n /\ k # 0 /\ n # n + 1 /\ n \in 0 .. n + 1
        BY <3>2
      <4>2. g[n] = f[n]
        BY <4>1
      <4> QED
        BY <3>2, <4>1, <4>2
    <3>3. CASE k # 0 /\ k # n + 1
      <4>1. k \in 0 .. n /\ k - 1 \in 0 .. n /\ k - 1 # n + 1 /\ k - 1 \in 0 .. n + 1
        BY <3>3
      <4>2. g[k - 1] = f[k - 1] /\ g[k] = f[k]
        BY <3>3, <4>1
      <4>3. f[k] = Place(f[k - 1], s[k])
        BY <2>1, <3>3, <4>1
      <4> QED
        BY <3>3, <4>2, <4>3
    <3> QED
      BY <3>1, <3>2, <3>3
  <2>3. g = [k \in 0 .. n + 1 |-> g[k]] /\ h = [k \in 0 .. n + 1 |-> h[k]]
    OBVIOUS
  <2> HIDE DEF g
  <2>4. g = h
    <3> HIDE DEF h
    <3> QED
      BY <2>2, <2>3
  <2>5. \E e : e = [k \in 0 .. n + 1 |-> IF k = 0 THEN RoundZero ELSE Place(e[k - 1], s[k])]
    BY <2>4
  <2> QED
    BY <2>5
<1> HIDE DEF S
<1>3. Nat \subseteq S
  BY <1>1, <1>2, SetInduction
<1> QED
  BY <1>3 DEF S

\* After the last round of the loop.
LEMMA RoundsAreOK ==
  ASSUME NEW s \in Seq(Int), \A j, k \in 1 .. Len(s) : j < k => s[j] <= s[k]
  PROVE  \E bin : RoundOK(Rounds(s)[Len(s)], s, Len(s), bin)
<1> DEFINE n == Len(s)
           f == Rounds(s)
<1>1. n \in Nat
  OBVIOUS
<1>2. f = CHOOSE g : g = [k \in 0 .. n |-> IF k = 0 THEN RoundZero ELSE Place(g[k - 1], s[k])]
  BY DEF Rounds, RoundZero
<1>3. \E g : g = [k \in 0 .. n |-> IF k = 0 THEN RoundZero ELSE Place(g[k - 1], s[k])]
  BY <1>1, RoundsExist
<1> HIDE DEF f
<1>4. f = [k \in 0 .. n |-> IF k = 0 THEN RoundZero ELSE Place(f[k - 1], s[k])]
  BY <1>2, <1>3
<1> DEFINE S == {k \in 0 .. n : \E bin : RoundOK(f[k], s, k, bin)}
<1>5. 0 \in S
  <2>1. f[0] = [dist |-> [b \in Bins |-> 0], bin |-> 0, count |-> 0]
    BY <1>1, <1>4 DEF RoundZero, EmptyHistogram
  <2>2. 0 \in Bins /\ \A b \in Bins : ~(b < 0)
    BY TimerAssumption DEF Bins
  <2>3. \A V : CountIn(<<>>, V, 0) = 0
    BY CountStep
  <2>4. f[0] \in [dist : [Bins -> Nat], bin : Bins, count : Nat]
    BY <2>1, <2>2
  <2>5. 1 .. 0 = {}
    OBVIOUS
  <2>6. RoundOK(f[0], s, 0, <<>>)
    BY <2>1, <2>2, <2>3, <2>4, <2>5 DEF RoundOK
  <2> QED
    BY <1>1, <2>6
<1>6. ASSUME NEW k \in 0 .. n - 1, k \in S PROVE k + 1 \in S
  <2> DEFINE j == k + 1
  <2>1. j \in 0 .. n /\ j # 0 /\ j - 1 = k
    BY <1>1
  <2> HIDE DEF j
  <2>2. f[j] = Place(f[j - 1], s[j])
    BY <1>4, <2>1
  <2>3. PICK bin : RoundOK(f[k], s, k, bin)
    BY <1>6
  <2>4. \E more : RoundOK(Place(f[k], s[k + 1]), s, k + 1, more)
    BY <2>3, RoundStep
  <2> QED
    BY <2>1, <2>2, <2>4 DEF j
<1> HIDE DEF S
<1>7. \A k \in 0 .. n : k \in S
  BY <1>1, <1>5, <1>6, UpTo
<1> QED
  BY <1>1, <1>7 DEF S, f

\* The samples in bins, with the counts of the proofs.
InBins(samples, bin, dist) ==
  /\ bin \in [1 .. Len(samples) -> Bins]
  /\ \A k \in 1 .. Len(samples) : InBin(samples[k], bin[k])
  /\ dist = [b \in Bins |-> CountIn(bin, {b}, Len(samples))]

LEMMA Split ==
  ASSUME NEW samples \in Seq(Int), NEW bin \in [1 .. Len(samples) -> Bins], NEW dist,
         \A k \in 1 .. Len(samples) : InBin(samples[k], bin[k]),
         dist = [b \in Bins |-> CountIn(bin, {b}, Len(samples))]
  PROVE  SplitInBins(samples, dist)
<1>1. DOMAIN samples = 1 .. Len(samples)
  OBVIOUS
<1>2. \A b \in Bins : CountIn(bin, {b}, Len(samples)) = Cardinality({k \in DOMAIN samples : bin[k] = b})
  <2> TAKE b \in Bins
  <2>1. {k \in 1 .. Len(samples) : bin[k] \in {b}} = {k \in DOMAIN samples : bin[k] = b}
    BY <1>1
  <2> QED
    BY <2>1, Zenon DEF CountIn
<1>3. dist = [b \in Bins |-> Cardinality({k \in DOMAIN samples : bin[k] = b})]
  BY <1>2
<1>4. bin \in [DOMAIN samples -> Bins] /\ \A k \in DOMAIN samples : InBin(samples[k], bin[k])
  BY <1>1
<1> QED
  BY <1>3, <1>4, Zenon DEF SplitInBins

LEMMA SplitMeans ==
  ASSUME NEW samples \in Seq(Int), NEW dist, SplitInBins(samples, dist)
  PROVE  \E bin : InBins(samples, bin, dist)
<1>1. DOMAIN samples = 1 .. Len(samples)
  OBVIOUS
<1>2. PICK bin \in [DOMAIN samples -> Bins] :
        /\ \A k \in DOMAIN samples : InBin(samples[k], bin[k])
        /\ dist = [b \in Bins |-> Cardinality({k \in DOMAIN samples : bin[k] = b})]
  BY DEF SplitInBins
<1>3. \A b \in Bins : CountIn(bin, {b}, Len(samples)) = Cardinality({k \in DOMAIN samples : bin[k] = b})
  <2> TAKE b \in Bins
  <2>1. {k \in 1 .. Len(samples) : bin[k] \in {b}} = {k \in DOMAIN samples : bin[k] = b}
    BY <1>1
  <2> QED
    BY <2>1, Zenon DEF CountIn
<1>4. dist = [b \in Bins |-> CountIn(bin, {b}, Len(samples))]
  BY <1>2, <1>3
<1>5. bin \in [1 .. Len(samples) -> Bins] /\ \A k \in 1 .. Len(samples) : InBin(samples[k], bin[k])
  BY <1>1, <1>2
<1> QED
  BY <1>4, <1>5, Zenon DEF InBins

\* The loop leaves the number of times of each bin.
LEMMA Distribution ==
  ASSUME NEW data \in Seq(Int)
  PROVE  SplitInBins(data, UpdateBin(Rounds(Sorted(data))[Len(data)]))
<1> DEFINE n == Len(data)
           s == Sorted(data)
           loop == Rounds(s)[n]
<1>1. n \in Nat /\ DOMAIN data = 1 .. n
  OBVIOUS
<1>2. s \in Seq(Int) /\ Len(s) = n /\ \A j, k \in 1 .. n : j < k => s[j] <= s[k]
  BY <1>1, SortedPermutes
<1>3. PICK bin : RoundOK(loop, s, n, bin)
  BY <1>2, RoundsAreOK
<1>4. PICK p \in Bijection(1 .. n, 1 .. n) : \A k \in 1 .. n : s[k] = data[p[k]]
  BY SortPermutation, Zenon
<1> HIDE DEF loop, s, n
<1>5. \A b \in Bins : b \in Nat
  BY TimerAssumption DEF Bins
<1>6. UpdateBin(loop) = [loop.dist EXCEPT ![loop.bin] = @ + loop.count]
  BY DEF UpdateBin
<1>7. /\ loop.dist \in [Bins -> Nat] /\ loop.bin \in Bins /\ loop.count \in Nat
      /\ \A k \in 1 .. n : bin[k] \in Bins /\ bin[k] <= loop.bin /\ InBin(s[k], bin[k])
  BY <1>3 DEF RoundOK
<1>8. ASSUME NEW b \in Bins PROVE UpdateBin(loop)[b] = CountIn(bin, {b}, n)
  <2>1. CASE b = loop.bin
    <3>1. loop.dist[b] = 0 /\ loop.count = CountIn(bin, {b}, n)
      BY <1>3, <1>5, <2>1 DEF RoundOK
    <3>2. UpdateBin(loop)[b] = 0 + loop.count
      BY <1>6, <1>7, <2>1, <3>1
    <3>3. loop.count \in Nat
      BY <1>7
    <3> QED
      BY <3>1, <3>2, <3>3
  <2>2. CASE b < loop.bin
    <3>1. loop.dist[b] = CountIn(bin, {b}, n)
      BY <1>3, <2>2 DEF RoundOK
    <3>2. b # loop.bin
      BY <1>5, <1>7, <2>2
    <3>3. UpdateBin(loop)[b] = loop.dist[b]
      BY <1>6, <1>7, <3>2
    <3> QED
      BY <3>1, <3>3, Zenon
  <2>3. CASE b > loop.bin
    <3>1. \A j \in 1 .. n : bin[j] \notin {b}
      BY <1>5, <1>7, <2>3
    <3>2. CountIn(bin, {b}, n) = 0
      BY <1>1, <3>1, NoneIn
    <3>3. loop.bin \in Nat /\ b \in Nat /\ ~(b < loop.bin) /\ b # loop.bin
      BY <1>5, <1>7, <2>3
    <3>4. loop.dist[b] = 0
      BY <1>3, <3>3 DEF RoundOK
    <3>5. UpdateBin(loop)[b] = loop.dist[b]
      BY <1>6, <1>7, <3>3
    <3> QED
      BY <3>2, <3>4, <3>5
  <2>4. b < loop.bin \/ b = loop.bin \/ b > loop.bin
    BY <1>5, <1>7
  <2> QED
    BY <2>1, <2>2, <2>3, <2>4, Zenon
<1>9. /\ p \in [1 .. n -> 1 .. n] /\ (\A j \in 1 .. n : \E k \in 1 .. n : p[k] = j)
      /\ \A j, k \in 1 .. n : p[j] = p[k] => j = k
  BY DEF Bijection, Injection, Surjection, IsInjective
<1>10. PICK place : \A j \in 1 .. n : \E k \in 1 .. n : p[k] = j /\ place[j] = bin[k]
  <2> DEFINE at(j) == CHOOSE k \in 1 .. n : p[k] = j
             place == [j \in 1 .. n |-> bin[at(j)]]
  <2>1. \A j \in 1 .. n : at(j) \in 1 .. n /\ p[at(j)] = j
    BY <1>9
  <2> HIDE DEF at
  <2>2. \A j \in 1 .. n : \E k \in 1 .. n : p[k] = j /\ place[j] = bin[k]
    BY <2>1
  <2> HIDE DEF place
  <2> QED
    BY <2>2
<1>11. \A k \in 1 .. n : bin[k] = place[p[k]]
  BY <1>9, <1>10
<1>12. \A j \in 1 .. n : place[j] \in Bins /\ InBin(data[j], place[j])
  <2> TAKE j \in 1 .. n
  <2>1. PICK k \in 1 .. n : p[k] = j /\ place[j] = bin[k]
    BY <1>10
  <2>2. s[k] = data[j]
    BY <1>4, <2>1
  <2> QED
    BY <1>7, <2>1, <2>2
<1>13. ASSUME NEW V PROVE CountIn(bin, V, n) = CountIn(place, V, n)
  <2>1. n \in Nat
    BY <1>1
  <2> QED
    BY <2>1, <1>11, CountPermuted
<1>14. UpdateBin(loop) = [b \in Bins |-> CountIn(place, {b}, n)]
  <2>1. UpdateBin(loop) = [b \in Bins |-> UpdateBin(loop)[b]]
    BY <1>6, <1>7
  <2> QED
    BY <1>8, <1>13, <2>1
<1> DEFINE f == [j \in 1 .. n |-> place[j]]
<1>15. \A j \in 1 .. n : f[j] = place[j]
  OBVIOUS
<1>16. f \in [1 .. n -> Bins]
  BY <1>12
<1> HIDE DEF f
<1>17. ASSUME NEW V PROVE CountIn(place, V, n) = CountIn(f, V, n)
  BY <1>15, SameCount
<1>18. UpdateBin(loop) = [b \in Bins |-> CountIn(f, {b}, n)]
  BY <1>14, <1>17
<1>19. \A j \in 1 .. n : InBin(data[j], f[j])
  BY <1>12, <1>15
<1>20. SplitInBins(data, UpdateBin(loop))
  BY <1>18, <1>19, <1>16, Split DEF n
<1> QED
  BY <1>20 DEF loop, s, n

\* A sequence that is not empty has a least and a greatest time.
LEMMA Extremes ==
  ASSUME NEW data \in Seq(Int), data # <<>>
  PROVE  \E a, z \in 1 .. Len(data) :
           /\ \A k \in 1 .. Len(data) : data[a] <= data[k] /\ data[k] <= data[z]
           /\ data[a] = Sorted(data)[1] /\ data[z] = Sorted(data)[Len(data)]
<1> DEFINE n == Len(data)
           s == Sorted(data)
<1>1. n \in Nat /\ 1 \in 1 .. n /\ n \in 1 .. n /\ DOMAIN data = 1 .. n
  OBVIOUS
<1>2. Len(s) = n /\ s \in Seq(Int) /\ \A j, k \in 1 .. n : j < k => s[j] <= s[k]
  BY <1>1, SortedPermutes
<1>3. /\ \A j \in 1 .. n : \E k \in 1 .. n : s[k] = data[j]
      /\ \A k \in 1 .. n : \E j \in 1 .. n : s[k] = data[j]
  BY SortedTimes
<1> HIDE DEF n, s
<1>4. \A k \in 1 .. n : s[1] <= s[k] /\ s[k] <= s[n] /\ s[k] \in Int
  <2>1. \A k \in 1 .. n : s[k] \in Int
    BY <1>1, <1>2
  <2> TAKE k \in 1 .. n
  <2>2. s[1] <= s[k]
    <3>1. k = 1 \/ 1 < k
      BY <1>1
    <3> QED
      BY <1>1, <1>2, <2>1, <3>1
  <2>3. s[k] <= s[n]
    <3>1. k = n \/ k < n
      BY <1>1
    <3> QED
      BY <1>1, <1>2, <2>1, <3>1
  <2> QED
    BY <2>1, <2>2, <2>3
<1>5. PICK a \in 1 .. n : s[1] = data[a]
  BY <1>1, <1>3
<1>6. PICK z \in 1 .. n : s[n] = data[z]
  BY <1>1, <1>3
<1>7. \A j \in 1 .. n : data[a] <= data[j] /\ data[j] <= data[z]
  <2> TAKE j \in 1 .. n
  <2>1. PICK k \in 1 .. n : s[k] = data[j]
    BY <1>3
  <2> QED
    BY <1>4, <1>5, <1>6, <2>1
<1> QED
  BY <1>5, <1>6, <1>7 DEF n, s

\* No times in the bins.
LEMMA SplitNone == SplitInBins(<<>>, EmptyHistogram.dist)
<1> DEFINE data == <<>>
           bin == [k \in 1 .. Len(data) |-> 0]
<1>1. data \in Seq(Int) /\ Len(data) = 0
  OBVIOUS
<1> HIDE DEF data
<1>2. bin \in [1 .. Len(data) -> Bins] /\ \A k \in 1 .. Len(data) : InBin(data[k], bin[k])
  BY <1>1
<1> HIDE DEF bin
<1>3. ASSUME NEW V PROVE CountIn(bin, V, Len(data)) = 0
  BY <1>1, CountStep
<1>4. EmptyHistogram.dist = [b \in Bins |-> CountIn(bin, {b}, Len(data))]
  BY <1>3 DEF EmptyHistogram
<1>5. SplitInBins(data, EmptyHistogram.dist)
  BY <1>1, <1>2, <1>4, Split
<1> QED
  BY <1>5 DEF data

\* The histogram of a window is that of its times.
LEMMA HistogramMatches ==
  ASSUME NEW data \in Seq(Int) PROVE Matches(Histogram(data), data)
<1>1. CASE data = <<>>
  <2>1. Len(data) = 0 /\ DOMAIN data = {} /\ Shown(data) = {0}
    BY <1>1 DEF Shown
  <2>2. SumOf(data) = 0
    BY <2>1, SumsStep DEF SumOf
  <2>3. SplitInBins(data, EmptyHistogram.dist)
    BY <1>1, SplitNone
  <2>4. /\ EmptyHistogram.min = 0 /\ EmptyHistogram.max = 0
        /\ EmptyHistogram.sum = 0 /\ EmptyHistogram.count = 0
    BY DEF EmptyHistogram
  <2>5. IsSmallest(0, {0}) /\ IsLargest(0, {0})
    BY DEF IsSmallest, IsLargest
  <2>6. Matches(EmptyHistogram, data)
    BY <2>1, <2>2, <2>3, <2>4, <2>5 DEF Matches
  <2> QED
    BY <1>1, <2>6 DEF Histogram
<1>2. CASE data # <<>>
  <2> DEFINE n == Len(data)
             s == Sorted(data)
             dist == UpdateBin(Rounds(s)[n])
             hist == Histogram(data)
  <2>1. n \in Nat /\ DOMAIN data = 1 .. n
    OBVIOUS
  <2>2. Len(s) = n
    BY <2>1, SortedPermutes
  <2>3. hist = [min |-> s[1], max |-> s[n], count |-> n, sum |-> SumOf(s), dist |-> dist]
    BY <1>2, <2>2 DEF Histogram
  <2>4. SumOf(s) = SumOf(data) /\ SplitInBins(data, dist)
    BY SumSorted, Distribution
  <2>5. PICK a, z \in 1 .. n :
          /\ \A k \in 1 .. n : data[a] <= data[k] /\ data[k] <= data[z]
          /\ data[a] = s[1] /\ data[z] = s[n]
    BY <1>2, Extremes
  <2>6. Shown(data) = {data[k] : k \in 1 .. n} /\ \A k \in 1 .. n : data[k] \in Int
    BY <1>2, <2>1 DEF Shown
  <2> HIDE DEF n, s, dist, hist
  <2>7. IsSmallest(s[1], Shown(data)) /\ IsLargest(s[n], Shown(data))
    <3>1. \A t \in Shown(data) : \E k \in 1 .. n : t = data[k]
      BY <2>6
    <3>2. s[1] \in Shown(data) /\ s[n] \in Shown(data)
      BY <2>5, <2>6
    <3>3. \A t \in Shown(data) : s[1] <= t /\ s[n] >= t
      <4> TAKE t \in Shown(data)
      <4>1. PICK k \in 1 .. n : t = data[k]
        BY <3>1
      <4> QED
        BY <2>5, <2>6, <4>1
    <3> QED
      BY <3>2, <3>3 DEF IsSmallest, IsLargest
  <2>8. Matches(hist, data)
    BY <2>3, <2>4, <2>7 DEF Matches, n
  <2> QED
    BY <2>8 DEF hist
<1> QED
  BY <1>1, <1>2

-----------------------------------------------------------------------------
(* The times of two windows.                                               *)

\* The times of one sequence after those of another.
LEMMA Joined ==
  ASSUME NEW a \in Seq(Int), NEW b \in Seq(Int)
  PROVE  /\ a \o b \in Seq(Int) /\ Len(a \o b) = Len(a) + Len(b)
         /\ \A k \in 1 .. Len(a) : (a \o b)[k] = a[k]
         /\ \A k \in 1 .. Len(b) : (a \o b)[Len(a) + k] = b[k]
         /\ SumOf(a \o b) = SumOf(a) + SumOf(b)
<1> DEFINE c == a \o b
           m == Len(a)
           n == Len(b)
<1>1. /\ m \in Nat /\ n \in Nat /\ c \in Seq(Int) /\ Len(c) = m + n
      /\ (\A k \in 1 .. m : c[k] = a[k] /\ a[k] \in Int)
      /\ \A k \in 1 .. n : c[m + k] = b[k] /\ b[k] \in Int
  OBVIOUS
<1> HIDE DEF c, m, n
<1>2. \A k \in 0 .. m : Sums(c)[k] = Sums(a)[k]
  <2> DEFINE S == {k \in 0 .. m : Sums(c)[k] = Sums(a)[k]}
  <2>1. 0 \in S
    BY <1>1, SumsStep
  <2>2. ASSUME NEW k \in 0 .. m - 1, k \in S PROVE k + 1 \in S
    <3>1. k + 1 \in 0 .. m /\ k + 1 \in 1 .. m /\ k \in 0 .. Len(c) - 1
      BY <1>1
    <3>2. Sums(c)[k + 1] = Sums(c)[k] + c[k + 1]
      BY <1>1, <3>1, SumsStep
    <3>3. Sums(a)[k + 1] = Sums(a)[k] + a[k + 1]
      BY SumsStep DEF m
    <3>4. Sums(c)[k] = Sums(a)[k] /\ c[k + 1] = a[k + 1]
      BY <1>1, <2>2, <3>1
    <3> QED
      BY <3>1, <3>2, <3>3, <3>4
  <2> HIDE DEF S
  <2>3. \A k \in 0 .. m : k \in S
    BY <1>1, <2>1, <2>2, UpTo
  <2> QED
    BY <2>3 DEF S
<1>3. \A k \in 0 .. n : Sums(c)[m + k] = SumOf(a) + Sums(b)[k]
  <2> DEFINE S == {k \in 0 .. n : Sums(c)[m + k] = SumOf(a) + Sums(b)[k]}
  <2>0. SumOf(a) \in Int /\ SumOf(a) = Sums(a)[m]
    BY <1>1, SumsStep DEF SumOf, m
  <2>1. 0 \in S
    <3>1. Sums(c)[m] = SumOf(a) /\ Sums(b)[0] = 0 /\ m + 0 = m
      BY <1>1, <1>2, <2>0, SumsStep
    <3>2. Sums(c)[m + 0] = SumOf(a) + Sums(b)[0]
      BY <2>0, <3>1
    <3> QED
      BY <1>1, <3>2
  <2>2. ASSUME NEW k \in 0 .. n - 1, k \in S PROVE k + 1 \in S
    <3> DEFINE j == m + k
    <3>1. /\ k + 1 \in 0 .. n /\ k + 1 \in 1 .. n /\ j \in 0 .. Len(c) - 1 /\ k \in 0 .. n
          /\ j + 1 = m + (k + 1)
      BY <1>1
    <3>2. Sums(c)[j] = SumOf(a) + Sums(b)[k]
      BY <2>2
    <3>3. c[j + 1] = b[k + 1] /\ b[k + 1] \in Int
      BY <1>1, <3>1
    <3> HIDE DEF j
    <3>4. Sums(c)[j + 1] = Sums(c)[j] + c[j + 1]
      BY <1>1, <3>1, SumsStep
    <3>5. Sums(b)[k + 1] = Sums(b)[k] + b[k + 1] /\ Sums(b)[k] \in Int
      BY <3>1, SumsStep DEF n
    <3>6. Sums(c)[j + 1] = SumOf(a) + Sums(b)[k + 1]
      <4> DEFINE x == SumOf(a)
                 y == Sums(b)[k]
                 z == b[k + 1]
      <4>1. x \in Int /\ y \in Int /\ z \in Int /\ Sums(c)[j + 1] = (x + y) + z
        BY <2>0, <3>2, <3>3, <3>4, <3>5
      <4>2. Sums(b)[k + 1] = y + z
        BY <3>5
      <4> HIDE DEF x, y, z
      <4> QED
        BY <4>1, <4>2 DEF x
    <3> QED
      BY <3>1, <3>6
  <2> HIDE DEF S
  <2>3. \A k \in 0 .. n : k \in S
    BY <1>1, <2>1, <2>2, UpTo
  <2> QED
    BY <2>3 DEF S
<1>4. SumOf(c) = SumOf(a) + SumOf(b)
  BY <1>1, <1>3 DEF SumOf, n
<1> QED
  BY <1>1, <1>4 DEF c, m, n

\* What is counted in one sequence and in another that goes on after it.
GoesOn(c, a, b, m, n) ==
  (\A k \in 1 .. m : c[k] = a[k]) /\ \A k \in 1 .. n : c[m + k] = b[k]

LEMMA CountJoined ==
  ASSUME NEW m \in Nat, NEW n \in Nat, NEW a, NEW b, NEW c, GoesOn(c, a, b, m, n), NEW V
  PROVE  CountIn(c, V, m + n) = CountIn(a, V, m) + CountIn(b, V, n)
<1>1. /\ m \in Nat /\ n \in Nat
      /\ (\A k \in 1 .. m : c[k] = a[k]) /\ \A k \in 1 .. n : c[m + k] = b[k]
  BY DEF GoesOn
<1>2. \A times : \A k \in Nat :
        /\ CountIn(times, V, k) \in Nat /\ CountIn(times, V, 0) = 0
        /\ CountIn(times, V, k + 1) = CountIn(times, V, k) + Hit(times[k + 1], V)
  BY CountStep
<1> DEFINE S == {k \in 0 .. m : CountIn(c, V, k) = CountIn(a, V, k)}
           T == {k \in 0 .. n : CountIn(c, V, m + k) = CountIn(a, V, m) + CountIn(b, V, k)}
<1>3. 0 \in S
  BY <1>1, <1>2
<1>4. ASSUME NEW k \in 0 .. m - 1, k \in S PROVE k + 1 \in S
  <2>1. k + 1 \in 0 .. m /\ k + 1 \in 1 .. m /\ k \in Nat
    BY <1>1
  <2>2. CountIn(c, V, k + 1) = CountIn(c, V, k) + Hit(c[k + 1], V)
    BY <1>2, <2>1
  <2>3. CountIn(a, V, k + 1) = CountIn(a, V, k) + Hit(a[k + 1], V)
    BY <1>2, <2>1
  <2>4. CountIn(c, V, k) = CountIn(a, V, k) /\ c[k + 1] = a[k + 1]
    BY <1>1, <1>4, <2>1
  <2> QED
    BY <2>1, <2>2, <2>3, <2>4
<1> HIDE DEF S
<1>5. \A k \in 0 .. m : k \in S
  BY <1>1, <1>3, <1>4, UpTo
<1>6. CountIn(c, V, m) = CountIn(a, V, m) /\ CountIn(a, V, m) \in Nat
  BY <1>1, <1>2, <1>5 DEF S
<1>7. 0 \in T
  <2>1. CountIn(b, V, 0) = 0 /\ m + 0 = m
    BY <1>1, <1>2
  <2>2. CountIn(c, V, m + 0) = CountIn(a, V, m) + CountIn(b, V, 0)
    BY <1>6, <2>1
  <2> QED
    BY <1>1, <2>2
<1>8. ASSUME NEW k \in 0 .. n - 1, k \in T PROVE k + 1 \in T
  <2> DEFINE j == m + k
  <2>1. /\ k + 1 \in 0 .. n /\ k + 1 \in 1 .. n /\ j \in Nat /\ k \in Nat
        /\ j + 1 = m + (k + 1)
    BY <1>1
  <2>2. CountIn(c, V, j) = CountIn(a, V, m) + CountIn(b, V, k)
    BY <1>8
  <2>3. c[j + 1] = b[k + 1]
    BY <1>1, <2>1
  <2> HIDE DEF j
  <2>4. CountIn(c, V, j + 1) = CountIn(c, V, j) + Hit(c[j + 1], V)
    BY <1>2, <2>1
  <2>5. /\ CountIn(b, V, k + 1) = CountIn(b, V, k) + Hit(b[k + 1], V)
        /\ CountIn(b, V, k) \in Nat
    BY <1>2, <2>1
  <2>6. CountIn(c, V, j + 1) = CountIn(a, V, m) + CountIn(b, V, k + 1)
    <3> DEFINE x == CountIn(a, V, m)
               y == CountIn(b, V, k)
               z == Hit(b[k + 1], V)
    <3>1. x \in Nat /\ y \in Nat /\ CountIn(c, V, j + 1) = (x + y) + z
      BY <1>6, <2>2, <2>3, <2>4, <2>5
    <3>2. z \in Nat /\ CountIn(b, V, k + 1) = y + z
      BY <2>5 DEF Hit
    <3> HIDE DEF x, y, z
    <3> QED
      BY <3>1, <3>2 DEF x
  <2> QED
    BY <2>1, <2>6
<1> HIDE DEF T
<1>9. \A k \in 0 .. n : k \in T
  BY <1>1, <1>7, <1>8, UpTo
<1> QED
  BY <1>1, <1>9 DEF T

\* The times of two sequences in their bins.
LEMMA SplitJoined ==
  ASSUME NEW a \in Seq(Int), NEW b \in Seq(Int), NEW d, NEW e,
         SplitInBins(a, d), SplitInBins(b, e), NEW dist, dist = [i \in Bins |-> d[i] + e[i]]
  PROVE  SplitInBins(a \o b, dist)
<1> DEFINE c == a \o b
           m == Len(a)
           n == Len(b)
<1>1. /\ c \in Seq(Int) /\ m \in Nat /\ n \in Nat /\ Len(c) = m + n
      /\ (\A k \in 1 .. m : c[k] = a[k]) /\ \A k \in 1 .. n : c[m + k] = b[k]
  BY Joined
<1>2. PICK p : InBins(a, p, d)
  BY SplitMeans, Zenon
<1>3. PICK q : InBins(b, q, e)
  BY SplitMeans, Zenon
<1> DEFINE bin == [k \in 1 .. m + n |-> IF k \in 1 .. m THEN p[k] ELSE q[k - m]]
<1>11. /\ p \in [1 .. m -> Bins] /\ (\A k \in 1 .. m : InBin(a[k], p[k]))
       /\ q \in [1 .. n -> Bins] /\ \A k \in 1 .. n : InBin(b[k], q[k])
       /\ d = [i \in Bins |-> CountIn(p, {i}, m)] /\ e = [i \in Bins |-> CountIn(q, {i}, n)]
  BY <1>2, <1>3 DEF InBins
<1> HIDE DEF c, m, n
<1>4. \A k \in 1 .. m : bin[k] = p[k]
  BY <1>1
<1>5. \A k \in 1 .. n : bin[m + k] = q[k]
  <2> TAKE k \in 1 .. n
  <2>1. m + k \in 1 .. m + n /\ m + k \notin 1 .. m /\ (m + k) - m = k
    BY <1>1
  <2> QED
    BY <2>1
<1> HIDE DEF bin
<1>6. \A k \in 1 .. m + n : bin[k] \in Bins /\ InBin(c[k], bin[k])
  <2> TAKE k \in 1 .. m + n
  <2>1. CASE k \in 1 .. m
    BY <1>1, <1>11, <1>4, <2>1
  <2>2. CASE k \notin 1 .. m
    <3> DEFINE j == k - m
    <3>1. j \in 1 .. n /\ m + j = k
      BY <1>1, <2>2
    <3> HIDE DEF j
    <3>2. c[m + j] = b[j] /\ bin[m + j] = q[j] /\ q[j] \in Bins /\ InBin(b[j], q[j])
      BY <1>1, <1>11, <1>5, <3>1
    <3> QED
      BY <3>1, <3>2
  <2> QED
    BY <2>1, <2>2
<1>7. ASSUME NEW V PROVE CountIn(bin, V, m + n) = CountIn(p, V, m) + CountIn(q, V, n)
  <2>1. m \in Nat /\ n \in Nat /\ GoesOn(bin, p, q, m, n)
    BY <1>1, <1>4, <1>5 DEF GoesOn
  <2> QED
    BY <2>1, CountJoined
<1>8. dist = [i \in Bins |-> CountIn(bin, {i}, m + n)]
  <2> SUFFICES ASSUME NEW i \in Bins PROVE dist[i] = CountIn(bin, {i}, m + n)
    OBVIOUS
  <2>1. d[i] = CountIn(p, {i}, m) /\ e[i] = CountIn(q, {i}, n)
    BY <1>11
  <2> QED
    BY <1>7, <2>1
<1>9. bin \in [1 .. Len(c) -> Bins]
  BY <1>1, <1>6 DEF bin
<1>10. SplitInBins(c, dist)
  BY <1>1, <1>6, <1>8, <1>9, Split
<1> QED
  BY <1>10 DEF c

\* The smaller minimum and the larger maximum of two sets.
LEMMA SmallestOfBoth ==
  ASSUME NEW A, NEW B, A \subseteq Int, B \subseteq Int, NEW x, NEW y, IsSmallest(x, A), IsSmallest(y, B),
         NEW z, z = IF x > y THEN y ELSE x, NEW C, C = A \cup B
  PROVE  IsSmallest(z, C)
<1>1. x \in Int /\ y \in Int /\ \A u \in A \cup B : u \in Int
  BY DEF IsSmallest
<1> QED
  BY <1>1 DEF IsSmallest

LEMMA LargestOfBoth ==
  ASSUME NEW A, NEW B, A \subseteq Int, B \subseteq Int, NEW x, NEW y, IsLargest(x, A), IsLargest(y, B),
         NEW z, z = IF x < y THEN y ELSE x, NEW C, C = A \cup B
  PROVE  IsLargest(z, C)
<1>1. x \in Int /\ y \in Int /\ \A u \in A \cup B : u \in Int
  BY DEF IsLargest
<1> QED
  BY <1>1 DEF IsLargest

-----------------------------------------------------------------------------
(* The minute.                                                             *)

\* What the histogram of the minute begins with.
FirstMinute(hists) == [EmptyHistogram EXCEPT !.min = hists[1].min]

\* The recursive function Minutes is defined: for every n there is one on 0 .. n.
LEMMA MinutesExist ==
  ASSUME NEW hists
  PROVE  \A n \in Nat :
           \E f : f = [k \in 0 .. n |-> IF k = 0 THEN FirstMinute(hists) ELSE AddWindow(f[k - 1], hists[k])]
<1> DEFINE S == {n \in Nat :
                   \E f : f = [k \in 0 .. n |-> IF k = 0 THEN FirstMinute(hists) ELSE AddWindow(f[k - 1], hists[k])]}
<1>1. 0 \in S
  <2> DEFINE f == [k \in {0} |-> FirstMinute(hists)]
  <2>1. f = [k \in 0 .. 0 |-> IF k = 0 THEN FirstMinute(hists) ELSE AddWindow(f[k - 1], hists[k])]
    OBVIOUS
  <2> QED
    BY <2>1
<1>2. ASSUME NEW n \in Nat, n \in S PROVE n + 1 \in S
  <2>1. PICK f : f = [k \in 0 .. n |-> IF k = 0 THEN FirstMinute(hists) ELSE AddWindow(f[k - 1], hists[k])]
    BY <1>2
  <2> DEFINE g == [k \in 0 .. n + 1 |-> IF k = n + 1 THEN AddWindow(f[n], hists[n + 1]) ELSE f[k]]
             h == [k \in 0 .. n + 1 |-> IF k = 0 THEN FirstMinute(hists) ELSE AddWindow(g[k - 1], hists[k])]
  <2>2. ASSUME NEW k \in 0 .. n + 1 PROVE g[k] = h[k]
    <3>1. CASE k = 0
      <4>1. 0 \in 0 .. n /\ 0 # n + 1
        OBVIOUS
      <4>2. g[k] = f[0] /\ f[0] = FirstMinute(hists)
        BY <2>1, <3>1, <4>1
      <4> QED
        BY <3>1, <4>2
    <3>2. CASE k = n + 1
      <4>1. k - 1 = n /\ k # 0 /\ n # n + 1 /\ n \in 0 .. n + 1
        BY <3>2
      <4>2. g[n] = f[n]
        BY <4>1
      <4> QED
        BY <3>2, <4>1, <4>2
    <3>3. CASE k # 0 /\ k # n + 1
      <4>1. k \in 0 .. n /\ k - 1 \in 0 .. n /\ k - 1 # n + 1 /\ k - 1 \in 0 .. n + 1
        BY <3>3
      <4>2. g[k - 1] = f[k - 1] /\ g[k] = f[k]
        BY <3>3, <4>1
      <4>3. f[k] = AddWindow(f[k - 1], hists[k])
        BY <2>1, <3>3, <4>1
      <4> QED
        BY <3>3, <4>2, <4>3
    <3> QED
      BY <3>1, <3>2, <3>3
  <2>3. g = [k \in 0 .. n + 1 |-> g[k]] /\ h = [k \in 0 .. n + 1 |-> h[k]]
    OBVIOUS
  <2> HIDE DEF g
  <2>4. g = h
    <3> HIDE DEF h
    <3> QED
      BY <2>2, <2>3
  <2>5. \E e : e = [k \in 0 .. n + 1 |-> IF k = 0 THEN FirstMinute(hists) ELSE AddWindow(e[k - 1], hists[k])]
    BY <2>4
  <2> QED
    BY <2>5
<1> HIDE DEF S
<1>3. Nat \subseteq S
  BY <1>1, <1>2, SetInduction
<1> QED
  BY <1>3 DEF S

\* The loop of get_1min_histogram.
LEMMA MinutesStep ==
  ASSUME NEW hists, Len(hists) \in Nat
  PROVE  /\ Minutes(hists)[0] = FirstMinute(hists)
         /\ \A k \in 0 .. Len(hists) - 1 :
              Minutes(hists)[k + 1] = AddWindow(Minutes(hists)[k], hists[k + 1])
<1> DEFINE n == Len(hists)
           f == Minutes(hists)
<1>1. f = CHOOSE g : g = [k \in 0 .. n |-> IF k = 0 THEN FirstMinute(hists) ELSE AddWindow(g[k - 1], hists[k])]
  BY DEF Minutes, FirstMinute
<1>2. \E g : g = [k \in 0 .. n |-> IF k = 0 THEN FirstMinute(hists) ELSE AddWindow(g[k - 1], hists[k])]
  BY MinutesExist
<1> HIDE DEF f, n
<1>3. f = [k \in 0 .. n |-> IF k = 0 THEN FirstMinute(hists) ELSE AddWindow(f[k - 1], hists[k])]
  BY <1>1, <1>2
<1>4. n \in Nat
  BY DEF n
<1>5. f[0] = FirstMinute(hists)
  BY <1>3, <1>4
<1>6. ASSUME NEW k \in 0 .. n - 1 PROVE f[k + 1] = AddWindow(f[k], hists[k + 1])
  <2> DEFINE j == k + 1
  <2>1. j \in 0 .. n /\ j # 0 /\ j - 1 = k
    BY <1>4
  <2> HIDE DEF j
  <2>2. f[j] = AddWindow(f[j - 1], hists[j])
    BY <1>3, <2>1
  <2> QED
    BY <2>1, <2>2 DEF j
<1> QED
  BY <1>5, <1>6 DEF f, n

\* The recursive function of FlattenSeq is defined.
LEMMA FlattenExists ==
  ASSUME NEW seqs
  PROVE  \A n \in Nat : \E f : f = [k \in 1 .. n |-> IF k = 1 THEN seqs[k] ELSE f[k - 1] \o seqs[k]]
<1> DEFINE S == {n \in Nat :
                   \E f : f = [k \in 1 .. n |-> IF k = 1 THEN seqs[k] ELSE f[k - 1] \o seqs[k]]}
<1>1. 0 \in S
  <2> DEFINE f == [k \in {} |-> 0]
  <2>1. f = [k \in 1 .. 0 |-> IF k = 1 THEN seqs[k] ELSE f[k - 1] \o seqs[k]]
    OBVIOUS
  <2> HIDE DEF f
  <2> QED
    BY <2>1
<1>2. ASSUME NEW n \in Nat, n \in S PROVE n + 1 \in S
  <2>1. PICK f : f = [k \in 1 .. n |-> IF k = 1 THEN seqs[k] ELSE f[k - 1] \o seqs[k]]
    BY <1>2
  <2> DEFINE last == IF n = 0 THEN seqs[1] ELSE f[n] \o seqs[n + 1]
             g == [k \in 1 .. n + 1 |-> IF k = n + 1 THEN last ELSE f[k]]
             h == [k \in 1 .. n + 1 |-> IF k = 1 THEN seqs[k] ELSE g[k - 1] \o seqs[k]]
  <2>2. ASSUME NEW k \in 1 .. n + 1 PROVE g[k] = h[k]
    <3>1. CASE k # n + 1
      <4>1. k \in 1 .. n
        BY <3>1
      <4>2. g[k] = f[k]
        BY <3>1
      <4>3. CASE k = 1
        BY <2>1, <4>1, <4>2, <4>3
      <4>4. CASE k # 1
        <5>1. k - 1 \in 1 .. n /\ k - 1 # n + 1 /\ k - 1 \in 1 .. n + 1
          BY <4>1, <4>4
        <5>2. g[k - 1] = f[k - 1]
          BY <5>1
        <5>3. f[k] = f[k - 1] \o seqs[k]
          BY <2>1, <4>1, <4>4
        <5> QED
          BY <4>2, <4>4, <5>2, <5>3
      <4> QED
        BY <4>3, <4>4
    <3>2. CASE k = n + 1
      <4>1. CASE n = 0
        BY <3>2, <4>1
      <4>2. CASE n # 0
        <5>1. k # 1 /\ k - 1 = n /\ n \in 1 .. n + 1 /\ n # n + 1
          BY <3>2, <4>2
        <5>2. g[n] = f[n] /\ g[k] = f[n] \o seqs[n + 1]
          BY <3>2, <4>2, <5>1
        <5>3. h[k] = g[k - 1] \o seqs[k]
          BY <5>1
        <5> QED
          BY <3>2, <5>1, <5>2, <5>3
      <4> QED
        BY <4>1, <4>2
    <3> QED
      BY <3>1, <3>2
  <2>3. g = [k \in 1 .. n + 1 |-> g[k]] /\ h = [k \in 1 .. n + 1 |-> h[k]]
    OBVIOUS
  <2> HIDE DEF g
  <2>4. g = h
    <3> HIDE DEF h
    <3> QED
      BY <2>2, <2>3
  <2>5. \E e : e = [k \in 1 .. n + 1 |-> IF k = 1 THEN seqs[k] ELSE e[k - 1] \o seqs[k]]
    BY <2>4
  <2>6. n + 1 \in Nat
    OBVIOUS
  <2> QED
    BY <2>5, <2>6, Zenon
<1> HIDE DEF S
<1>3. Nat \subseteq S
  BY <1>1, <1>2, SetInduction
<1> QED
  BY <1>3 DEF S

\* FlattenSeq joins one sequence after the other.
LEMMA FlattenStep ==
  ASSUME NEW seqs, Len(seqs) \in Nat \ {0}
  PROVE  \E f : /\ f[1] = seqs[1] /\ FlattenSeq(seqs) = f[Len(seqs)]
                /\ \A k \in 1 .. Len(seqs) - 1 : f[k + 1] = f[k] \o seqs[k + 1]
<1> DEFINE n == Len(seqs)
           f == CHOOSE g : g = [k \in 1 .. n |-> IF k = 1 THEN seqs[k] ELSE g[k - 1] \o seqs[k]]
<1>1. FlattenSeq(seqs) = f[n]
  BY DEF FlattenSeq
<1>2. \E g : g = [k \in 1 .. n |-> IF k = 1 THEN seqs[k] ELSE g[k - 1] \o seqs[k]]
  BY FlattenExists
<1>3. f = [k \in 1 .. n |-> IF k = 1 THEN seqs[k] ELSE f[k - 1] \o seqs[k]]
  BY <1>2
<1>4. n \in Nat \ {0}
  OBVIOUS
<1> HIDE DEF f, n
<1>5. f[1] = seqs[1]
  BY <1>3, <1>4
<1>6. ASSUME NEW k \in 1 .. n - 1 PROVE f[k + 1] = f[k] \o seqs[k + 1]
  <2> DEFINE j == k + 1
  <2>1. j \in 1 .. n /\ j # 1 /\ j - 1 = k
    BY <1>4
  <2> HIDE DEF j
  <2>2. f[j] = f[j - 1] \o seqs[j]
    BY <1>3, <2>1
  <2> QED
    BY <2>1, <2>2 DEF j
<1> QED
  BY <1>1, <1>5, <1>6 DEF n

\* The histogram of the minute, from those of its windows.
LEMMA MinuteOf ==
  ASSUME NEW seqs \in Seq(Seq(Int)), seqs # <<>>, NEW hists, Len(hists) = Len(seqs),
         \A k \in 1 .. Len(seqs) : Matches(hists[k], seqs[k])
  PROVE  LET all    == FlattenSeq(seqs)
             shown  == UNION {Shown(seqs[k]) : k \in DOMAIN seqs}
             minute == Minutes(hists)[Len(hists)]
         IN  /\ IsSmallest(minute.min, shown) /\ IsLargest(minute.max, shown \cup {0})
             /\ minute.sum = SumOf(all) /\ minute.count = Len(all) /\ SplitInBins(all, minute.dist)
<1> DEFINE n == Len(seqs)
           all == Minutes(hists)
           U(k) == UNION {Shown(seqs[j]) : j \in 1 .. k}
<1>1. n \in Nat \ {0} /\ DOMAIN seqs = 1 .. n /\ \A k \in 1 .. n : seqs[k] \in Seq(Int)
  OBVIOUS
<1>2. PICK f : /\ f[1] = seqs[1] /\ FlattenSeq(seqs) = f[n]
               /\ \A k \in 1 .. n - 1 : f[k + 1] = f[k] \o seqs[k + 1]
  BY <1>1, FlattenStep
<1>3. all[0] = FirstMinute(hists) /\ \A k \in 0 .. n - 1 : all[k + 1] = AddWindow(all[k], hists[k + 1])
  BY <1>1, MinutesStep
<1>4. \A k \in 1 .. n : Shown(seqs[k]) \subseteq Int
  <2> TAKE k \in 1 .. n
  <2>1. seqs[k] \in Seq(Int)
    BY <1>1
  <2> QED
    BY <2>1 DEF Shown
<1> HIDE DEF all, n
<1> DEFINE holds(k) ==
             /\ f[k] \in Seq(Int)
             /\ IsSmallest(all[k].min, U(k)) /\ IsLargest(all[k].max, U(k) \cup {0})
             /\ all[k].sum = SumOf(f[k]) /\ all[k].count = Len(f[k])
             /\ SplitInBins(f[k], all[k].dist)
           S == {i \in 0 .. n - 1 : holds(i + 1)}
<1>5. 0 \in S
  <2> DEFINE h == hists[1]
             w == seqs[1]
  <2>1. Matches(h, w) /\ w \in Seq(Int) /\ f[1] = w /\ Shown(w) \subseteq Int
    BY <1>1, <1>2, <1>4 DEF n
  <2>2. U(1) = Shown(w)
    <3>1. 1 .. 1 = {1}
      OBVIOUS
    <3> QED
      BY <3>1
  <2> DEFINE first == FirstMinute(hists)
             one == AddWindow(first, h)
  <2>3. all[1] = one
    <3>1. 0 \in 0 .. n - 1 /\ 0 + 1 = 1
      BY <1>1
    <3> QED
      BY <1>3, <3>1
  <2>4. /\ first.min = h.min /\ first.max = 0 /\ first.sum = 0 /\ first.count = 0
        /\ first.dist = EmptyHistogram.dist
    BY DEF FirstMinute, EmptyHistogram
  <2>5. /\ one.min = IF first.min > h.min THEN h.min ELSE first.min
        /\ one.max = IF first.max < h.max THEN h.max ELSE first.max
        /\ one.sum = first.sum + h.sum /\ one.count = first.count + h.count
        /\ one.dist = [b \in Bins |-> first.dist[b] + h.dist[b]]
    BY DEF AddWindow
  <2>6. /\ IsSmallest(h.min, Shown(w)) /\ IsLargest(h.max, Shown(w))
        /\ h.sum = SumOf(w) /\ h.count = Len(w) /\ SplitInBins(w, h.dist)
    BY <2>1 DEF Matches
  <2> HIDE DEF h, w, first, one, U
  <2>8. IsSmallest(one.min, U(1))
    BY <2>2, <2>4, <2>5, <2>6
  <2>9. IsLargest(one.max, U(1) \cup {0})
    <3>1. IsLargest(first.max, {0})
      BY <2>4 DEF IsLargest
    <3>2. U(1) \cup {0} = {0} \cup Shown(w) /\ {0} \subseteq Int
      BY <2>2
    <3> DEFINE p == first.max
               q == h.max
               z == one.max
               A == {0}
               B == Shown(w)
               C == U(1) \cup {0}
    <3>3. A \subseteq Int /\ B \subseteq Int /\ IsLargest(p, A) /\ IsLargest(q, B) /\ C = A \cup B
      BY <2>1, <2>6, <3>1, <3>2
    <3>4. z = IF p < q THEN q ELSE p
      BY <2>5
    <3> HIDE DEF p, q, z, A, B, C
    <3>5. IsLargest(z, C)
      BY <3>3, <3>4, LargestOfBoth
    <3> QED
      BY <3>5 DEF z, C
  <2>10. one.sum = SumOf(w) /\ one.count = Len(w)
    <3>1. SumOf(w) \in Int /\ Len(w) \in Nat
      BY <2>1, SumsStep DEF SumOf
    <3> QED
      BY <2>4, <2>5, <2>6, <3>1
  <2>11. SplitInBins(w, one.dist)
    <3>1. SplitInBins(<<>>, first.dist)
      BY <2>4, SplitNone
    <3>4. <<>> \in Seq(Int)
      OBVIOUS
    <3>2. SplitInBins(<<>> \o w, one.dist)
      <4> DEFINE s == <<>>
                 d == first.dist
                 e == h.dist
                 dist == one.dist
      <4>1. SplitInBins(s, d) /\ SplitInBins(w, e) /\ s \in Seq(Int) /\ w \in Seq(Int)
        BY <2>1, <2>6, <3>1, <3>4
      <4>2. dist = [b \in Bins |-> d[b] + e[b]]
        BY <2>5
      <4> HIDE DEF s, d, e, dist
      <4>3. SplitInBins(s \o w, dist)
        BY <4>1, <4>2, SplitJoined
      <4> QED
        BY <4>3 DEF s, dist
    <3>3. <<>> \o w = w
      BY <2>1
    <3> QED
      BY <3>2, <3>3
  <2>7. holds(1)
    BY <2>1, <2>3, <2>8, <2>9, <2>10, <2>11
  <2> HIDE DEF holds
  <2> QED
    BY <1>1, <2>7
<1>6. ASSUME NEW i \in 0 .. n - 2, i \in S PROVE i + 1 \in S
  <2> DEFINE k == i + 1
  <2>1. k \in 1 .. n - 1 /\ k \in 0 .. n - 1 /\ k + 1 \in 1 .. n /\ i + 1 \in 0 .. n - 1 /\ k \in 1 .. n /\ k \in Nat
    BY <1>1
  <2>2. holds(k)
    BY <1>6
  <2> HIDE DEF k
  <2> DEFINE w == seqs[k + 1]
             h == hists[k + 1]
             x == all[k]
             s == f[k]
             more == AddWindow(x, h)
  <2>3. f[k + 1] = s \o w /\ all[k + 1] = more
    BY <1>2, <1>3, <2>1
  <2>4. Matches(h, w) /\ w \in Seq(Int) /\ Shown(w) \subseteq Int
    BY <1>1, <1>4, <2>1 DEF n
  <2>5. U(k) \subseteq Int
    BY <1>1, <1>4, <2>1
  <2>6. U(k + 1) = U(k) \cup Shown(w)
    <3>1. \A j : j \in 1 .. k + 1 <=> j \in 1 .. k \/ j = k + 1
      BY <2>1
    <3> QED
      BY <3>1
  <2>7. /\ more.min = IF x.min > h.min THEN h.min ELSE x.min
        /\ more.max = IF x.max < h.max THEN h.max ELSE x.max
        /\ more.sum = x.sum + h.sum /\ more.count = x.count + h.count
        /\ more.dist = [b \in Bins |-> x.dist[b] + h.dist[b]]
    BY DEF AddWindow
  <2>8. /\ IsSmallest(h.min, Shown(w)) /\ IsLargest(h.max, Shown(w))
        /\ h.sum = SumOf(w) /\ h.count = Len(w) /\ SplitInBins(w, h.dist)
    BY <2>4 DEF Matches
  <2>14. /\ s \in Seq(Int) /\ SplitInBins(s, x.dist)
         /\ IsSmallest(x.min, U(k)) /\ IsLargest(x.max, U(k) \cup {0})
         /\ x.sum = SumOf(s) /\ x.count = Len(s)
    BY <2>2
  <2> HIDE DEF w, h, x, s, more, U
  <2>9. IsSmallest(more.min, U(k + 1))
    <3> DEFINE p == x.min
               q == h.min
               z == more.min
               A == U(k)
               B == Shown(w)
               C == U(k + 1)
    <3>1. A \subseteq Int /\ B \subseteq Int /\ IsSmallest(p, A) /\ IsSmallest(q, B) /\ C = A \cup B
      BY <2>14, <2>4, <2>5, <2>6, <2>8
    <3>2. z = IF p > q THEN q ELSE p
      BY <2>7
    <3> HIDE DEF p, q, z, A, B, C
    <3>3. IsSmallest(z, C)
      BY <3>1, <3>2, SmallestOfBoth
    <3> QED
      BY <3>3 DEF z, C
  <2>10. IsLargest(more.max, U(k + 1) \cup {0})
    <3> DEFINE p == x.max
               q == h.max
               z == more.max
               A == U(k) \cup {0}
               B == Shown(w)
               C == U(k + 1) \cup {0}
    <3>1. A \subseteq Int /\ B \subseteq Int /\ IsLargest(p, A) /\ IsLargest(q, B) /\ C = A \cup B
      BY <2>14, <2>4, <2>5, <2>6, <2>8
    <3>2. z = IF p < q THEN q ELSE p
      BY <2>7
    <3> HIDE DEF p, q, z, A, B, C
    <3>3. IsLargest(z, C)
      BY <3>1, <3>2, LargestOfBoth
    <3> QED
      BY <3>3 DEF z, C
  <2>11. s \o w \in Seq(Int) /\ more.sum = SumOf(s \o w) /\ more.count = Len(s \o w)
    BY <2>14, <2>4, <2>7, <2>8, Joined
  <2>12. SplitInBins(s \o w, more.dist)
    <3> DEFINE d == x.dist
               e == h.dist
               dist == more.dist
    <3>1. SplitInBins(s, d) /\ SplitInBins(w, e) /\ s \in Seq(Int) /\ w \in Seq(Int)
      BY <2>14, <2>4, <2>8
    <3>2. dist = [b \in Bins |-> d[b] + e[b]]
      BY <2>7
    <3> HIDE DEF d, e, dist
    <3>3. SplitInBins(s \o w, dist)
      BY <3>1, <3>2, SplitJoined
    <3> QED
      BY <3>3 DEF dist
  <2>13. holds(k + 1)
    BY <2>3, <2>9, <2>10, <2>11, <2>12
  <2> HIDE DEF holds
  <2> QED
    BY <2>1, <2>13 DEF k
<1> HIDE DEF S
<1>7. n - 1 \in S
  <2> DEFINE m == n - 1
  <2>1. m \in Nat /\ \A i \in 0 .. m - 1 : i \in 0 .. n - 2
    BY <1>1
  <2> HIDE DEF m
  <2>2. \A i \in 0 .. m : i \in S
    BY <1>5, <1>6, <2>1, UpTo
  <2> QED
    BY <2>1, <2>2 DEF m
<1>8. holds(n)
  <2> HIDE DEF holds
  <2>1. (n - 1) + 1 = n
    BY <1>1
  <2>2. holds((n - 1) + 1)
    BY <1>7 DEF S
  <2> QED
    BY <2>1, <2>2
<1>9. U(n) = UNION {Shown(seqs[k]) : k \in DOMAIN seqs}
  BY <1>1
<1> HIDE DEF U
<1> QED
  BY <1>2, <1>8, <1>9 DEF all, n

LEMMA TimesAreNumbers == Seq(Times) \subseteq Seq(Int)
<1>1. Times \subseteq Int
  BY TimerAssumption
<1> SUFFICES ASSUME NEW s \in Seq(Times) PROVE s \in Seq(Int)
  OBVIOUS
<1>2. Len(s) \in Nat /\ s \in [1 .. Len(s) -> Times]
  OBVIOUS
<1>3. s \in [1 .. Len(s) -> Int]
  BY <1>1, <1>2
<1> QED
  BY <1>2, <1>3

\* A histogram for each window, that of its times.
Paired(hists, seqs) ==
  Len(hists) = Len(seqs) /\ \A k \in 1 .. Len(seqs) : Matches(hists[k], seqs[k])

\* The histograms the timer keeps are all it takes.
LEMMA MinuteMatches ==
  ASSUME windows \in Seq(Seq(Times)), NEW S, m_1min_values \in Seq(S), Paired(m_1min_values, windows)
  PROVE  HistogramsMatchSamples
<1>4. /\ DOMAIN m_1min_values = DOMAIN windows /\ Len(m_1min_values) = Len(windows)
      /\ DOMAIN windows = 1 .. Len(windows)
      /\ \A k \in DOMAIN windows : Matches(m_1min_values[k], windows[k])
  BY DEF Paired
<1>1. windows \in Seq(Seq(Int))
  <2>1. Seq(Times) \subseteq Seq(Int)
    BY TimesAreNumbers
  <2> DEFINE A == Seq(Times)
             B == Seq(Int)
  <2> HIDE DEF A, B
  <2>2. Seq(A) \subseteq Seq(B)
    BY <2>1 DEF A, B
  <2> QED
    BY <2>2 DEF A, B
<1> DEFINE minute == get_1min_histogram
           shown == UNION {Shown(windows[k]) : k \in DOMAIN windows}
           all == FlattenSeq(windows)
<1>2. CASE windows = <<>>
  <2>1. DOMAIN windows = {} /\ DOMAIN m_1min_values = {}
    BY <1>2, <1>4
  <2>2. m_1min_values = <<>>
    BY <1>2, <1>4
  <2>3. all = <<>> /\ <<>> \in Seq(Int)
    BY <1>2 DEF FlattenSeq
  <2>4. minute = EmptyHistogram /\ Histogram(<<>>) = EmptyHistogram
    BY <2>2 DEF get_1min_histogram, Histogram
  <2>5. shown = {}
    BY <2>1
  <2> HIDE DEF minute, shown, all
  <2>6. Matches(minute, all)
    BY <2>3, <2>4, HistogramMatches
  <2>7. minute.max = 0
    BY <2>4 DEF EmptyHistogram
  <2>8. IsLargest(minute.max, shown \cup {0})
    BY <2>5, <2>7 DEF IsLargest
  <2> QED
    BY <1>2, <1>4, <2>6, <2>8 DEF HistogramsMatchSamples, Matches, minute, shown, all
<1>3. CASE windows # <<>>
  <2>1. DOMAIN windows = 1 .. Len(windows) /\ m_1min_values # <<>>
    BY <1>1, <1>3, <1>4
  <2>2. minute = Minutes(m_1min_values)[Len(m_1min_values)]
    BY <2>1 DEF get_1min_histogram
  <2>3. /\ IsSmallest(minute.min, shown) /\ IsLargest(minute.max, shown \cup {0})
        /\ minute.sum = SumOf(all) /\ minute.count = Len(all) /\ SplitInBins(all, minute.dist)
    BY <1>1, <1>3, <1>4, <2>1, <2>2, MinuteOf
  <2> HIDE DEF minute, shown, all
  <2> QED
    BY <1>4, <2>3 DEF HistogramsMatchSamples, minute, shown, all
<1> QED
  BY <1>2, <1>3

-----------------------------------------------------------------------------
(* The timer.                                                              *)

\* The mutex is held by the thread that adds a time, and the buffer that thread
\* looked up is the current one.
UpdaterInv ==
  \A w \in Threads :
    /\ updater[w] # NoUpdate <=> m_mtx = w
    /\ updater[w] # NoUpdate => updater[w].time \in Times /\ updater[w].buffer = m_times_idx

\* aggregate has the current buffer before the switch and the other one after it.
AggregatorInv ==
  /\ aggregator.pc = "taken" => aggregator.buffer = m_times_idx
  /\ aggregator.pc \in {"switched", "sorted"} => aggregator.buffer # m_times_idx
  /\ aggregator.pc = "sorted" => aggregator.hist.count = Len(m_times[aggregator.buffer])

\* A window for each histogram; aggregate's record is whole.
WindowsInv ==
  /\ Len(windows) = Len(m_1min_values) /\ {recorded, dropped} \subseteq Nat
  /\ windows \in Seq(Seq(Times))
  /\ \E Histograms :
       /\ m_1min_values \in Seq(Histograms)
       /\ aggregator \in [pc : {"asleep", "taken", "switched", "sorted"}, buffer : {0, 1},
                          hist : Histograms]

\* What the windows' histograms are, also the one that is on its way to them.
HistogramsInv ==
  /\ Paired(m_1min_values, windows)
  /\ aggregator.pc = "sorted" => Matches(aggregator.hist, m_times[aggregator.buffer])

TimerIInv == TimerTypeOK /\ UpdaterInv /\ AggregatorInv /\ WindowsInv /\ SamplesConserved

\* The times of the thread that holds the mutex: one, or none.
Held(holder) == IF holder = NoThread THEN 0 ELSE 1

LEMMA OneHolder ==
  ASSUME NEW updates, NEW holder \in Threads \cup {NoThread},
         \A w \in Threads : updates[w] # NoUpdate <=> holder = w
  PROVE  Cardinality({w \in Threads : updates[w] # NoUpdate}) = Held(holder)
<1> DEFINE pending == {w \in Threads : updates[w] # NoUpdate}
<1>1. CASE holder = NoThread
  <2>1. pending = {}
    BY <1>1, TimerAssumption
  <2> QED
    BY <1>1, <2>1, FS_EmptySet DEF Held
<1>2. CASE holder # NoThread
  <2>1. pending = {holder}
    BY <1>2
  <2> QED
    BY <1>2, <2>1, FS_Singleton DEF Held
<1> QED
  BY <1>1, <1>2

LEMMA TimerAtStart == ASSUME TimerInit PROVE TimerIInv
<1> USE TimerAssumption DEF TimerInit
<1>0. /\ <<>> \in Seq(Times) /\ <<>> \in Seq(Seq(Times)) /\ <<>> \in Seq({EmptyHistogram})
      /\ Len(<<>>) = 0
  OBVIOUS
<1>1. TimerTypeOK
  <2>1. m_times \in [{0, 1} -> Seq(Times)] /\ m_aggregate_counter \in 0 .. Every - 1
    BY <1>0
  <2>2. updater \in [Threads -> [time : Times, buffer : {0, 1}] \cup {NoUpdate}]
    OBVIOUS
  <2> QED
    BY <1>0, <2>1, <2>2 DEF TimerTypeOK, Asleep
<1>2. UpdaterInv
  BY DEF UpdaterInv
<1>3. AggregatorInv
  BY DEF AggregatorInv, Asleep
<1>4. WindowsInv
  <2>1. aggregator \in [pc : {"asleep", "taken", "switched", "sorted"}, buffer : {0, 1},
                        hist : {EmptyHistogram}]
    BY DEF Asleep
  <2>2. \E Histograms :
          /\ m_1min_values \in Seq(Histograms)
          /\ aggregator \in [pc : {"asleep", "taken", "switched", "sorted"}, buffer : {0, 1},
                             hist : Histograms]
    <3> WITNESS {EmptyHistogram}
    <3> QED
      BY <1>0, <2>1
  <2> QED
    BY <1>0, <2>2 DEF WindowsInv
<1>5. SamplesConserved
  <2>1. Cardinality({w \in Threads : updater[w] # NoUpdate}) = 0
    BY <1>1, <1>2, OneHolder DEF UpdaterInv, TimerTypeOK, Held
  <2> DEFINE reported == [k \in {0} |-> 0]
  <2>2. 0 .. Len(m_1min_values) = {0} /\ DOMAIN m_1min_values = {} /\ 0 .. recorded = {0}
    BY <1>0
  <2>3. /\ reported \in [0 .. Len(m_1min_values) -> 0 .. recorded] /\ reported[0] = dropped
        /\ \A k \in DOMAIN m_1min_values : reported[k] = reported[k - 1] + m_1min_values[k].count
        /\ reported[Len(m_1min_values)] = 0
    BY <1>0, <2>2
  <2>4. Len(m_times[0]) = 0 /\ Len(m_times[1]) = 0 /\ recorded = 0
    BY <1>0
  <2> DEFINE pending == Cardinality({w \in Threads : updater[w] # NoUpdate})
  <2> HIDE DEF reported, pending
  <2>5. recorded = pending + Len(m_times[0]) + Len(m_times[1]) + reported[Len(m_1min_values)]
    BY <2>1, <2>3, <2>4 DEF pending
  <2> SUFFICES
        \E sums \in [0 .. Len(m_1min_values) -> 0 .. recorded] :
          /\ sums[0] = dropped
          /\ \A k \in DOMAIN m_1min_values : sums[k] = sums[k - 1] + m_1min_values[k].count
          /\ recorded = pending + Len(m_times[0]) + Len(m_times[1]) + sums[Len(m_1min_values)]
    BY DEF SamplesConserved, pending
  <2> QED
    BY <2>3, <2>5
<1> QED
  BY <1>1, <1>2, <1>3, <1>4, <1>5 DEF TimerIInv

\* The steps of the timer.
LEMMA TimerSteps ==
  ASSUME TimerNext
  PROVE  \/ Count \/ TakeBuffer \/ SwitchBuffers \/ SortBuffer \/ PushHistogram
         \/ \E w \in Threads : UpdateDone(w)
         \/ \E w \in Threads, method \in Methods : DurationOnly(w, method)
         \/ \E w \in Threads, method \in Methods, t \in Times : Update(w, method, t)
BY DEF TimerNext, Aggregate

LEMMA DurationsStay ==
  ASSUME TimerTypeOK, NEW w \in Threads, NEW method,
         duration' = [duration EXCEPT ![w] = DurationAfter(w, method)]
  PROVE  duration' \in [Threads -> {"none", "running", "finished"}]
<1>1. DurationAfter(w, method) \in {"none", "running", "finished"}
  BY DEF DurationAfter, TimerTypeOK
<1> QED
  BY <1>1 DEF TimerTypeOK

\* The histogram of a window counts its times.
LEMMA HistogramCounts ==
  ASSUME NEW data \in Seq(Times) PROVE Histogram(data).count = Len(data)
<1>1. CASE data = <<>>
  BY <1>1 DEF Histogram, EmptyHistogram
<1>2. CASE data # <<>>
  BY <1>2 DEF Histogram
<1> QED
  BY <1>1, <1>2

\* The last Keep of a sequence that grows.
LEMMA LastOfKept ==
  ASSUME NEW S, NEW seq \in Seq(S), NEW e \in S, Len(seq) <= Keep
  PROVE  /\ LastOf(Append(seq, e)) \in Seq(S)
         /\ Len(LastOf(Append(seq, e))) = IF Len(seq) < Keep THEN Len(seq) + 1 ELSE Keep
<1> USE TimerAssumption
<1> DEFINE longer == Append(seq, e)
<1>1. longer \in Seq(S) /\ Len(longer) = Len(seq) + 1 /\ Len(seq) \in Nat
  OBVIOUS
<1> HIDE DEF longer
<1>2. Tail(longer) \in Seq(S) /\ Len(Tail(longer)) = Len(longer) - 1
  <2>1. longer # <<>>
    BY <1>1
  <2> QED
    BY <1>1, <2>1
<1>3. LastOf(longer) \in Seq(S)
      /\ Len(LastOf(longer)) = IF Len(seq) < Keep THEN Len(seq) + 1 ELSE Keep
  BY <1>1, <1>2 DEF LastOf
<1> QED
  BY <1>3 DEF longer

LEMMA TimerTypesStep ==
  ASSUME TimerIInv, TimerNext PROVE TimerTypeOK'
<1> USE TimerAssumption DEF TimerIInv, TimerTypeOK
<1>1. PICK Histograms :
        /\ m_1min_values \in Seq(Histograms)
        /\ aggregator \in [pc : {"asleep", "taken", "switched", "sorted"}, buffer : {0, 1},
                           hist : Histograms]
  BY DEF WindowsInv
<1>2. CASE Count
  <2>1. m_aggregate_counter' \in 0 .. Every - 1
    BY <1>2 DEF Count
  <2> QED
    BY <1>2, <2>1 DEF Count
<1>3. CASE TakeBuffer
  BY <1>1, <1>3 DEF TakeBuffer
<1>4. CASE SwitchBuffers
  <2>1. m_times_idx' \in {0, 1}
    BY <1>4 DEF SwitchBuffers
  <2> QED
    BY <1>1, <1>4, <2>1 DEF SwitchBuffers
<1>5. CASE SortBuffer
  <2>1. aggregator'.pc = "sorted" /\ aggregator'.buffer = aggregator.buffer
    BY <1>1, <1>5 DEF SortBuffer
  <2> QED
    BY <1>5, <2>1 DEF SortBuffer
<1>6. CASE PushHistogram
  <2>1. aggregator'.pc = "asleep" /\ aggregator'.buffer = 0
    BY <1>6 DEF PushHistogram, Asleep
  <2>2. m_times' \in [{0, 1} -> Seq(Times)]
    <3>1. <<>> \in Seq(Times)
      OBVIOUS
    <3> QED
      BY <1>6, <3>1 DEF PushHistogram
  <2>3. Len(m_1min_values') <= Keep
    <3>1. aggregator.hist \in Histograms
      BY <1>1
    <3>2. Len(LastOf(Append(m_1min_values, aggregator.hist))) <= Keep
      BY <1>1, <3>1, LastOfKept
    <3> QED
      BY <1>6, <3>2 DEF PushHistogram
  <2> QED
    BY <1>6, <2>1, <2>2, <2>3 DEF PushHistogram
<1>7. ASSUME NEW w \in Threads, UpdateDone(w) PROVE TimerTypeOK'
  <2>1. updater[w].buffer \in {0, 1} /\ updater[w].time \in Times
    BY <1>7 DEF UpdateDone, UpdaterInv
  <2>2. m_times' \in [{0, 1} -> Seq(Times)]
    BY <1>7, <2>1 DEF UpdateDone
  <2>3. updater' \in [Threads -> [time : Times, buffer : {0, 1}] \cup {NoUpdate}]
    BY <1>7 DEF UpdateDone
  <2> QED
    BY <1>7, <2>2, <2>3 DEF UpdateDone
<1>8. ASSUME NEW w \in Threads, NEW method \in Methods, DurationOnly(w, method) PROVE TimerTypeOK'
  <2>1. duration' \in [Threads -> {"none", "running", "finished"}]
    BY <1>8, DurationsStay DEF DurationOnly
  <2> QED
    BY <1>8, <2>1 DEF DurationOnly
<1>9. ASSUME NEW w \in Threads, NEW method \in Methods, NEW t \in Times, Update(w, method, t)
      PROVE  TimerTypeOK'
  <2>1. duration' \in [Threads -> {"none", "running", "finished"}]
    BY <1>9, DurationsStay DEF Update
  <2>2. updater' \in [Threads -> [time : Times, buffer : {0, 1}] \cup {NoUpdate}]
    BY <1>9 DEF Update
  <2> QED
    BY <1>9, <2>1, <2>2 DEF Update
<1> QED
  BY <1>2, <1>3, <1>4, <1>5, <1>6, <1>7, <1>8, <1>9, TimerSteps

\* No thread is between its two steps when the buffers are switched.
LEMMA UpdaterStep ==
  ASSUME TimerIInv, TimerNext PROVE UpdaterInv'
<1> USE TimerAssumption DEF TimerIInv, TimerTypeOK, UpdaterInv
<1>1. CASE UNCHANGED <<updater, m_mtx, m_times_idx>>
  BY <1>1
<1>2. CASE SwitchBuffers
  BY <1>2 DEF SwitchBuffers, LockFree
<1>3. ASSUME NEW w \in Threads, UpdateDone(w) PROVE UpdaterInv'
  BY <1>3 DEF UpdateDone
<1>4. ASSUME NEW w \in Threads, NEW method \in Methods, NEW t \in Times, Update(w, method, t)
      PROVE  UpdaterInv'
  <2>1. [time |-> t, buffer |-> m_times_idx] # NoUpdate
    OBVIOUS
  <2> QED
    BY <1>4, <2>1 DEF Update, LockFree
<1> QED
  <2>1. CASE Count \/ TakeBuffer \/ SortBuffer \/ PushHistogram
    BY <1>1, <2>1 DEF Count, TakeBuffer, SortBuffer, PushHistogram
  <2>2. CASE \E w \in Threads, method \in Methods : DurationOnly(w, method)
    BY <1>1, <2>2 DEF DurationOnly
  <2> QED
    BY <1>2, <1>3, <1>4, <2>1, <2>2, TimerSteps

\* The buffer that is sorted and cleared is no thread's any more.
LEMMA AggregatorStep ==
  ASSUME TimerIInv, TimerNext PROVE AggregatorInv'
<1> USE TimerAssumption DEF TimerIInv, TimerTypeOK, AggregatorInv
<1>1. PICK Histograms :
        /\ m_1min_values \in Seq(Histograms)
        /\ aggregator \in [pc : {"asleep", "taken", "switched", "sorted"}, buffer : {0, 1},
                           hist : Histograms]
  BY DEF WindowsInv
<1>2. CASE UNCHANGED <<aggregator, m_times_idx, m_times>>
  BY <1>2
<1>3. CASE TakeBuffer
  BY <1>1, <1>3 DEF TakeBuffer
<1>4. CASE SwitchBuffers
  <2>1. aggregator.buffer = m_times_idx /\ m_times_idx' # m_times_idx
    BY <1>4 DEF SwitchBuffers
  <2>2. aggregator'.pc = "switched" /\ aggregator'.buffer = aggregator.buffer
    BY <1>1, <1>4 DEF SwitchBuffers
  <2> QED
    BY <2>1, <2>2
<1>5. CASE SortBuffer
  <2>1. m_times[aggregator.buffer] \in Seq(Times)
    BY <1>1
  <2>2. /\ aggregator'.pc = "sorted" /\ aggregator'.buffer = aggregator.buffer
        /\ aggregator'.hist = Histogram(m_times[aggregator.buffer])
    BY <1>1, <1>5 DEF SortBuffer
  <2>3. aggregator'.hist.count = Len(m_times[aggregator.buffer])
    BY <2>1, <2>2, HistogramCounts
  <2> QED
    BY <1>5, <2>2, <2>3 DEF SortBuffer
<1>6. CASE PushHistogram
  BY <1>6 DEF PushHistogram, Asleep
<1>7. ASSUME NEW w \in Threads, UpdateDone(w) PROVE AggregatorInv'
  <2>1. updater[w].buffer = m_times_idx
    BY <1>7 DEF UpdateDone, UpdaterInv
  <2>2. aggregator.pc = "sorted" => m_times'[aggregator.buffer] = m_times[aggregator.buffer]
    BY <1>1, <1>7, <2>1 DEF UpdateDone
  <2> QED
    BY <1>7, <2>2 DEF UpdateDone
<1> QED
  <2>1. CASE Count
    BY <1>2, <2>1 DEF Count
  <2>2. CASE \E w \in Threads, method \in Methods : DurationOnly(w, method)
    BY <1>2, <2>2 DEF DurationOnly
  <2>3. CASE \E w \in Threads, method \in Methods, t \in Times : Update(w, method, t)
    BY <1>2, <2>3 DEF Update
  <2> QED
    BY <1>3, <1>4, <1>5, <1>6, <1>7, <2>1, <2>2, <2>3, TimerSteps

LEMMA WindowsStep ==
  ASSUME TimerIInv, TimerNext PROVE WindowsInv'
<1> USE TimerAssumption DEF TimerIInv
<1>1. PICK Histograms :
        /\ m_1min_values \in Seq(Histograms)
        /\ aggregator \in [pc : {"asleep", "taken", "switched", "sorted"}, buffer : {0, 1},
                           hist : Histograms]
  BY DEF WindowsInv
<1>2. /\ windows \in Seq(Seq(Times)) /\ Len(windows) = Len(m_1min_values)
      /\ recorded \in Nat /\ dropped \in Nat /\ Len(m_1min_values) <= Keep
  BY DEF WindowsInv, TimerTypeOK
<1>3. CASE /\ UNCHANGED <<windows, m_1min_values, aggregator, dropped>>
           /\ recorded' \in {recorded, recorded + 1}
  BY <1>2, <1>3 DEF WindowsInv
<1>4. CASE TakeBuffer \/ SwitchBuffers
  <2>1. aggregator' \in [pc : {"asleep", "taken", "switched", "sorted"}, buffer : {0, 1},
                         hist : Histograms]
    BY <1>1, <1>4 DEF TakeBuffer, SwitchBuffers, TimerTypeOK
  <2>2. UNCHANGED <<windows, m_1min_values, dropped, recorded>>
    BY <1>4 DEF TakeBuffer, SwitchBuffers
  <2> QED
    BY <1>1, <1>2, <2>1, <2>2 DEF WindowsInv
<1>5. CASE SortBuffer
  <2> DEFINE hist == Histogram(m_times[aggregator.buffer])
             More == Histograms \cup {hist}
  <2>1. aggregator' = [aggregator EXCEPT !.pc = "sorted", !.hist = hist]
    BY <1>5 DEF SortBuffer
  <2> HIDE DEF hist
  <2>2. aggregator' \in [pc : {"asleep", "taken", "switched", "sorted"}, buffer : {0, 1},
                         hist : More]
    BY <1>1, <2>1
  <2>3. UNCHANGED <<windows, m_1min_values, dropped, recorded>>
    BY <1>5 DEF SortBuffer
  <2>4. m_1min_values' \in Seq(More)
    BY <1>1, <2>3
  <2> HIDE DEF More
  <2> QED
    BY <1>2, <2>2, <2>3, <2>4 DEF WindowsInv
<1>6. CASE PushHistogram
  <2> DEFINE added == m_times[aggregator.buffer]
             More  == Histograms \cup {EmptyHistogram}
  <2>1. added \in Seq(Times) /\ aggregator.hist \in Histograms
    BY <1>1 DEF TimerTypeOK
  <2>2. /\ m_1min_values' = LastOf(Append(m_1min_values, aggregator.hist))
        /\ windows' = LastOf(Append(windows, added))
        /\ aggregator' = Asleep /\ UNCHANGED recorded
    BY <1>6 DEF PushHistogram
  <2> HIDE DEF added
  <2>3. /\ m_1min_values' \in Seq(Histograms)
        /\ Len(m_1min_values') = IF Len(m_1min_values) < Keep THEN Len(m_1min_values) + 1 ELSE Keep
    BY <1>1, <1>2, <2>1, <2>2, LastOfKept
  <2>4. /\ windows' \in Seq(Seq(Times))
        /\ Len(windows') = IF Len(windows) < Keep THEN Len(windows) + 1 ELSE Keep
    BY <1>2, <2>1, <2>2, LastOfKept
  <2>5. dropped' \in Nat
    <3>1. CASE Len(windows) < Keep
      BY <1>2, <1>6, <3>1 DEF PushHistogram
    <3>2. CASE Len(windows) = Keep
      <4>1. PICK reported \in [0 .. Len(m_1min_values) -> 0 .. recorded] :
              /\ reported[0] = dropped
              /\ \A k \in DOMAIN m_1min_values :
                   reported[k] = reported[k - 1] + m_1min_values[k].count
        BY DEF SamplesConserved
      <4>2. Keep \in Nat /\ Keep >= 1
        OBVIOUS
      <4>3. Len(m_1min_values) \in Nat /\ Len(m_1min_values) >= 1
        BY <1>2, <3>2, <4>2
      <4>4. 1 \in DOMAIN m_1min_values /\ 1 \in 0 .. Len(m_1min_values)
        BY <1>1, <4>3
      <4>5. Head(m_1min_values) = m_1min_values[1]
        BY <1>1, <4>3
      <4>6. reported[1] = reported[1 - 1] + m_1min_values[1].count
        BY <4>1, <4>4
      <4>7. reported[1] = dropped + Head(m_1min_values).count
        BY <4>1, <4>5, <4>6
      <4>8. reported[1] \in Nat
        <5>1. reported[1] \in 0 .. recorded
          BY <4>1, <4>4, Zenon
        <5> QED
          BY <1>2, <5>1
      <4> QED
        BY <1>6, <3>2, <4>7, <4>8 DEF PushHistogram
    <3> QED
      BY <1>2, <3>1, <3>2
  <2>6. aggregator' \in [pc : {"asleep", "taken", "switched", "sorted"}, buffer : {0, 1}, hist : More]
    BY <2>2 DEF Asleep
  <2>7. m_1min_values' \in Seq(More)
    BY <2>3
  <2>8. Len(windows') = Len(m_1min_values') /\ recorded' \in Nat
    BY <1>2, <2>2, <2>3, <2>4
  <2> HIDE DEF More
  <2> QED
    BY <2>4, <2>5, <2>6, <2>7, <2>8 DEF WindowsInv
<1> QED
  <2>1. CASE Count
    BY <1>3, <2>1 DEF Count
  <2>2. CASE \E w \in Threads : UpdateDone(w)
    BY <1>3, <2>2 DEF UpdateDone
  <2>3. CASE \E w \in Threads, method \in Methods : DurationOnly(w, method)
    BY <1>3, <2>3 DEF DurationOnly
  <2>4. CASE \E w \in Threads, method \in Methods, t \in Times : Update(w, method, t)
    BY <1>3, <2>4 DEF Update
  <2> QED
    BY <1>4, <1>5, <1>6, <2>1, <2>2, <2>3, <2>4, TimerSteps

\* sums[k] adds up the counts of the first k histograms to what was there first.
SumsUp(sums, hists, first, bound) ==
  /\ sums \in [0 .. Len(hists) -> 0 .. bound] /\ sums[0] = first
  /\ \A k \in 1 .. Len(hists) : sums[k] = sums[k - 1] + hists[k].count

\* One more histogram.
LEMMA SumsOfLonger ==
  ASSUME NEW S, NEW hists \in Seq(S), NEW h \in S, NEW first, NEW bound \in Nat, NEW sums,
         SumsUp(sums, hists, first, bound),
         h.count \in Nat, sums[Len(hists)] + h.count <= bound
  PROVE  \E more : /\ SumsUp(more, Append(hists, h), first, bound)
                   /\ more[Len(hists) + 1] = sums[Len(hists)] + h.count
<1> DEFINE n    == Len(hists)
           all  == Append(hists, h)
           top  == sums[n] + h.count
           more == [k \in 0 .. n + 1 |-> IF k <= n THEN sums[k] ELSE top]
<1>1. n \in Nat /\ Len(all) = n + 1
  OBVIOUS
<1>2. (\A k \in 1 .. n : all[k] = hists[k]) /\ all[n + 1] = h
  OBVIOUS
<1>3. /\ sums \in [0 .. n -> 0 .. bound] /\ sums[0] = first
      /\ \A k \in 1 .. n : sums[k] = sums[k - 1] + hists[k].count
  BY DEF SumsUp
<1> HIDE DEF n, all
<1>4. top \in 0 .. bound
  <2>1. sums[n] \in 0 .. bound
    BY <1>1, <1>3
  <2> QED
    BY <2>1 DEF n
<1> HIDE DEF top
<1>5. more \in [0 .. n + 1 -> 0 .. bound] /\ more[0] = first /\ more[n + 1] = top
  BY <1>1, <1>3, <1>4
<1>6. ASSUME NEW k \in 1 .. n + 1 PROVE more[k] = more[k - 1] + all[k].count
  <2>1. CASE k <= n
    <3>1. k \in 1 .. n /\ k - 1 \in 0 .. n + 1 /\ k \in 0 .. n + 1 /\ k - 1 <= n
      BY <1>1, <2>1
    <3>2. more[k] = sums[k] /\ more[k - 1] = sums[k - 1] /\ all[k] = hists[k]
      BY <1>2, <2>1, <3>1
    <3> QED
      BY <1>3, <3>1, <3>2
  <2>2. CASE k = n + 1
    <3>1. more[k] = top /\ more[k - 1] = sums[n] /\ all[k] = h
      BY <1>1, <1>2, <2>2
    <3> QED
      BY <3>1 DEF top
  <2> QED
    BY <1>1, <2>1, <2>2
<1> HIDE DEF more
<1>7. SumsUp(more, all, first, bound) /\ more[n + 1] = top
  BY <1>1, <1>5, <1>6 DEF SumsUp
<1> QED
  BY <1>7 DEF n, all, top

\* The first histogram let go.
LEMMA SumsOfTail ==
  ASSUME NEW S, NEW hists \in Seq(S), Len(hists) >= 1, NEW first, NEW bound \in Nat, NEW sums,
         SumsUp(sums, hists, first, bound)
  PROVE  \E rest : /\ SumsUp(rest, Tail(hists), sums[1], bound)
                   /\ rest[Len(hists) - 1] = sums[Len(hists)]
<1> DEFINE n    == Len(hists)
           tail == Tail(hists)
           rest == [k \in 0 .. n - 1 |-> sums[k + 1]]
<1>1. n \in Nat /\ n >= 1 /\ Len(tail) = n - 1 /\ \A k \in 1 .. n - 1 : tail[k] = hists[k + 1]
  <2>1. hists # <<>>
    OBVIOUS
  <2> QED
    BY <2>1
<1>2. sums \in [0 .. n -> 0 .. bound] /\ \A k \in 1 .. n : sums[k] = sums[k - 1] + hists[k].count
  BY DEF SumsUp
<1> HIDE DEF n, tail
<1>3. rest \in [0 .. n - 1 -> 0 .. bound] /\ rest[0] = sums[1] /\ rest[n - 1] = sums[n]
  BY <1>1, <1>2
<1>4. ASSUME NEW k \in 1 .. n - 1 PROVE rest[k] = rest[k - 1] + tail[k].count
  <2>1. /\ k \in 0 .. n - 1 /\ k - 1 \in 0 .. n - 1 /\ k + 1 \in 1 .. n
        /\ (k - 1) + 1 = k /\ (k + 1) - 1 = k
    BY <1>1
  <2>2. rest[k] = sums[k + 1] /\ rest[k - 1] = sums[k]
    BY <2>1
  <2>3. sums[k + 1] = sums[k] + hists[k + 1].count
    BY <1>2, <2>1
  <2> QED
    BY <1>1, <2>2, <2>3
<1> HIDE DEF rest
<1>5. SumsUp(rest, tail, sums[1], bound) /\ rest[n - 1] = sums[n]
  BY <1>1, <1>3, <1>4 DEF SumsUp
<1> QED
  BY <1>5 DEF n, tail

\* Every step of the timer keeps its times.
LEMMA SamplesStep ==
  ASSUME TimerIInv, TimerNext PROVE SamplesConserved'
<1> DEFINE kept    == Len(m_1min_values)
           pending == Cardinality({w \in Threads : updater[w] # NoUpdate})
           first   == Len(m_times[0])
           second  == Len(m_times[1])
           total   == first + second
           nextPending == Cardinality({w \in Threads : updater'[w] # NoUpdate})
           nextFirst   == Len(m_times'[0])
           nextSecond  == Len(m_times'[1])
           nextTotal   == nextFirst + nextSecond
<1>1. PICK Histograms :
        /\ m_1min_values \in Seq(Histograms)
        /\ aggregator \in [pc : {"asleep", "taken", "switched", "sorted"}, buffer : {0, 1},
                           hist : Histograms]
  BY DEF TimerIInv, WindowsInv
<1>2. /\ m_times \in [{0, 1} -> Seq(Times)] /\ m_mtx \in Threads \cup {NoThread}
      /\ kept <= Keep /\ kept \in Nat /\ Len(windows) = kept
      /\ recorded \in Nat /\ dropped \in Nat /\ DOMAIN m_1min_values = 1 .. kept
  BY <1>1 DEF TimerIInv, TimerTypeOK, WindowsInv
<1>3. PICK reported : /\ SumsUp(reported, m_1min_values, dropped, recorded)
                      /\ recorded = pending + first + second + reported[kept]
  BY <1>2 DEF TimerIInv, SamplesConserved, SumsUp
<1>4. reported[kept] \in Nat
  BY <1>2, <1>3 DEF SumsUp
<1>5. pending = Held(m_mtx)
  BY <1>2, OneHolder DEF TimerIInv, UpdaterInv
<1>6. nextPending = Held(m_mtx')
  <2>1. m_mtx' \in Threads \cup {NoThread}
    BY TimerTypesStep DEF TimerTypeOK
  <2>2. \A w \in Threads : updater'[w] # NoUpdate <=> m_mtx' = w
    BY UpdaterStep DEF UpdaterInv
  <2> QED
    BY <2>1, <2>2, OneHolder
<1> HIDE DEF pending, nextPending
<1>7. m_times' \in [{0, 1} -> Seq(Times)]
  BY TimerTypesStep DEF TimerTypeOK
<1>8. first \in Nat /\ second \in Nat /\ nextFirst \in Nat /\ nextSecond \in Nat
  BY <1>2, <1>7
<1>9. pending \in Nat /\ nextPending \in Nat
  BY <1>5, <1>6 DEF Held
<1> HIDE DEF first, second, nextFirst, nextSecond
<1>10. total \in Nat /\ nextTotal \in Nat
  BY <1>8
<1>11. recorded = pending + total + reported[kept]
  <2> DEFINE top == reported[kept]
  <2>1. top \in Nat /\ recorded = pending + first + second + top
    BY <1>3, <1>4
  <2> HIDE DEF top
  <2>2. recorded = pending + total + top
    BY <1>8, <1>9, <2>1
  <2> QED
    BY <2>2 DEF top
\* What is left to show: the new sums, and what they leave for the threads and
\* the buffers.
<1>12. SUFFICES \E sums : /\ SumsUp(sums, m_1min_values', dropped', recorded')
                          /\ sums[Len(m_1min_values')] \in Nat
                          /\ recorded' = nextPending + nextTotal + sums[Len(m_1min_values')]
  <2>1. DOMAIN m_1min_values' = 1 .. Len(m_1min_values')
    BY WindowsStep DEF WindowsInv
  <2>2. PICK sums : /\ SumsUp(sums, m_1min_values', dropped', recorded')
                    /\ sums[Len(m_1min_values')] \in Nat
                    /\ recorded' = nextPending + nextTotal + sums[Len(m_1min_values')]
    BY <1>12
  <2>3. recorded' = nextPending + nextFirst + nextSecond + sums[Len(m_1min_values')]
    <3> DEFINE top == sums[Len(m_1min_values')]
    <3>1. top \in Nat /\ recorded' = nextPending + nextTotal + top
      BY <2>2
    <3> HIDE DEF top
    <3>2. recorded' = nextPending + nextFirst + nextSecond + top
      BY <1>8, <1>9, <3>1
    <3> QED
      BY <3>2 DEF top
  <2> QED
    BY <2>1, <2>2, <2>3 DEF SamplesConserved, SumsUp, pending, nextPending, first, second,
       nextFirst, nextSecond
<1> HIDE DEF total, nextTotal
\* Of the steps that keep the histograms, those of a thread add a time.
<1>13. ASSUME UNCHANGED <<m_1min_values, dropped>>, recorded' \in {recorded, recorded + 1},
              recorded' = nextPending + nextTotal + reported[kept]
       PROVE  \E sums : /\ SumsUp(sums, m_1min_values', dropped', recorded')
                        /\ sums[Len(m_1min_values')] \in Nat
                        /\ recorded' = nextPending + nextTotal + sums[Len(m_1min_values')]
  <2>1. \A n \in 0 .. recorded : n \in 0 .. recorded'
    BY <1>2, <1>13
  <2>2. SumsUp(reported, m_1min_values', dropped', recorded')
    BY <1>3, <1>13, <2>1 DEF SumsUp
  <2> QED
    BY <1>4, <1>13, <2>2
<1>14. ASSUME UNCHANGED <<m_1min_values, dropped, recorded, m_times, m_mtx>>
       PROVE  recorded' = nextPending + nextTotal + reported[kept]
  <2>1. nextPending = pending
    BY <1>5, <1>6, <1>14
  <2>2. nextTotal = total
    BY <1>14 DEF total, nextTotal, first, second, nextFirst, nextSecond
  <2> QED
    BY <1>11, <1>14, <2>1, <2>2
<1>15. CASE Count \/ TakeBuffer \/ SwitchBuffers \/ SortBuffer
  <2>1. UNCHANGED <<m_1min_values, dropped, recorded, m_times, m_mtx>>
    BY <1>15 DEF Count, TakeBuffer, SwitchBuffers, SortBuffer
  <2> QED
    BY <1>13, <1>14, <2>1
<1>16. CASE \E w \in Threads, method \in Methods : DurationOnly(w, method)
  <2>1. UNCHANGED <<m_1min_values, dropped, recorded, m_times, m_mtx>>
    BY <1>16 DEF DurationOnly
  <2> QED
    BY <1>13, <1>14, <2>1
<1>17. CASE \E w \in Threads, method \in Methods, t \in Times : Update(w, method, t)
  <2>1. /\ UNCHANGED <<m_1min_values, dropped, m_times>> /\ recorded' = recorded + 1
        /\ m_mtx = NoThread /\ m_mtx' \in Threads
    BY <1>17 DEF Update, LockFree
  <2>2. pending = 0 /\ nextPending = 1
    BY <1>5, <1>6, <2>1, TimerAssumption DEF Held
  <2>3. nextTotal = total
    BY <2>1 DEF total, nextTotal, first, second, nextFirst, nextSecond
  <2>4. recorded' = nextPending + nextTotal + reported[kept]
    BY <1>4, <1>8, <1>9, <1>10, <1>11, <2>1, <2>2, <2>3
  <2> QED
    BY <1>13, <2>1, <2>4
<1>18. ASSUME NEW w \in Threads, UpdateDone(w)
       PROVE  recorded' = nextPending + nextTotal + reported[kept]
  <2>1. /\ UNCHANGED recorded /\ m_mtx = w /\ m_mtx' = NoThread
        /\ m_times' = [m_times EXCEPT ![updater[w].buffer] = Append(@, updater[w].time)]
    BY <1>18 DEF UpdateDone, TimerIInv, UpdaterInv
  <2>2. pending = 1 /\ nextPending = 0
    BY <1>5, <1>6, <2>1, TimerAssumption DEF Held
  <2>3. updater[w].buffer \in {0, 1} /\ updater[w].time \in Times
    BY <1>18 DEF TimerIInv, TimerTypeOK, UpdaterInv, UpdateDone
  <2>4. ASSUME NEW b \in {0, 1}, updater[w].buffer = b
        PROVE  /\ Len(m_times'[b]) = Len(m_times[b]) + 1
               /\ m_times'[1 - b] = m_times[1 - b]
    <3>1. m_times'[b] = Append(m_times[b], updater[w].time)
      BY <1>2, <2>1, <2>4
    <3>2. Len(Append(m_times[b], updater[w].time)) = Len(m_times[b]) + 1
      BY <1>2, <2>3
    <3>3. m_times'[1 - b] = m_times[1 - b]
      BY <1>2, <2>1, <2>4
    <3> QED
      BY <3>1, <3>2, <3>3
  <2>5. nextTotal = total + 1
    <3>1. CASE updater[w].buffer = 0
      <4>1. nextFirst = first + 1 /\ nextSecond = second
        BY <2>4, <3>1 DEF first, second, nextFirst, nextSecond
      <4> QED
        BY <1>8, <1>9, <1>10, <4>1 DEF total, nextTotal
    <3>2. CASE updater[w].buffer = 1
      <4>1. nextSecond = second + 1 /\ nextFirst = first
        BY <2>4, <3>2 DEF first, second, nextFirst, nextSecond
      <4> QED
        BY <1>8, <1>9, <1>10, <4>1 DEF total, nextTotal
    <3> QED
      BY <2>3, <3>1, <3>2
  <2> QED
    BY <1>4, <1>8, <1>9, <1>10, <1>11, <2>1, <2>2, <2>5
<1>19. CASE \E w \in Threads : UpdateDone(w)
  <2>1. UNCHANGED <<m_1min_values, dropped, recorded>>
    BY <1>19 DEF UpdateDone
  <2> QED
    BY <1>13, <1>18, <1>19, <2>1
<1>20. CASE PushHistogram
  <2> DEFINE h     == aggregator.hist
             all   == Append(m_1min_values, h)
             added == Len(m_times[aggregator.buffer])
  <2>1. /\ m_times' = [m_times EXCEPT ![aggregator.buffer] = <<>>]
        /\ m_1min_values' = LastOf(all) /\ UNCHANGED <<recorded, m_mtx>>
        /\ dropped' = dropped + IF kept = Keep THEN Head(m_1min_values).count ELSE 0
    BY <1>2, <1>20 DEF PushHistogram
  <2>2. h \in Histograms /\ h.count = added /\ aggregator.buffer \in {0, 1}
    BY <1>1, <1>20 DEF PushHistogram, TimerIInv, AggregatorInv
  <2>3. added \in Nat /\ total = nextTotal + added
    <3>1. Len(<<>>) = 0
      OBVIOUS
    <3>2. CASE aggregator.buffer = 0
      <4>1. nextFirst = 0 /\ nextSecond = second /\ added = first
        BY <1>2, <2>1, <3>1, <3>2 DEF first, second, nextFirst, nextSecond
      <4> QED
        BY <1>8, <1>9, <1>10, <3>2, <4>1 DEF total, nextTotal
    <3>3. CASE aggregator.buffer = 1
      <4>1. nextSecond = 0 /\ nextFirst = first /\ added = second
        BY <1>2, <2>1, <3>1, <3>3 DEF first, second, nextFirst, nextSecond
      <4> QED
        BY <1>8, <1>9, <1>10, <3>3, <4>1 DEF total, nextTotal
    <3> QED
      BY <2>2, <3>2, <3>3
  <2>4. nextPending = pending
    BY <1>5, <1>6, <2>1
  <2>5. all \in Seq(Histograms) /\ Len(all) = kept + 1
    BY <1>1, <2>2
  <2> HIDE DEF added
  <2>6. /\ reported[kept] + added <= recorded
        /\ recorded = nextPending + nextTotal + (reported[kept] + added)
    <3> DEFINE top == reported[kept]
    <3>1. top \in Nat /\ recorded = pending + total + top
      BY <1>4, <1>11
    <3> HIDE DEF top
    <3>2. top + added <= recorded /\ recorded = nextPending + nextTotal + (top + added)
      BY <1>9, <1>10, <2>3, <2>4, <3>1
    <3> QED
      BY <3>2 DEF top
  <2>7. PICK more : /\ SumsUp(more, all, dropped, recorded)
                    /\ more[kept + 1] = reported[kept] + added
    <3> HIDE DEF h
    <3>1. h.count \in Nat /\ reported[kept] + h.count <= recorded
      BY <2>2, <2>3, <2>6
    <3>2. \E more : /\ SumsUp(more, Append(m_1min_values, h), dropped, recorded)
                    /\ more[Len(m_1min_values) + 1] = reported[Len(m_1min_values)] + h.count
      BY <1>1, <1>2, <1>3, <2>2, <3>1, SumsOfLonger
    <3> QED
      BY <2>2, <3>2
  <2>8. kept = Keep => all[1] = Head(m_1min_values)
    BY <1>1, <1>2, TimerAssumption
  <2> HIDE DEF all, h
  <2>9. CASE kept < Keep
    <3>1. kept # Keep /\ m_1min_values' = all
      BY <1>2, <2>1, <2>5, <2>9, TimerAssumption DEF LastOf
    <3>2. dropped' = dropped
      BY <1>2, <2>1, <3>1
    <3>3. SumsUp(more, m_1min_values', dropped', recorded')
      BY <2>1, <2>7, <3>1, <3>2
    <3>4. Len(m_1min_values') = kept + 1 /\ more[kept + 1] \in Nat
      BY <1>4, <2>3, <2>5, <2>7, <3>1
    <3> QED
      BY <2>1, <2>6, <2>7, <3>3, <3>4
  <2>10. CASE kept = Keep
    <3>1. kept >= 1 /\ m_1min_values' = Tail(all)
      BY <1>2, <2>1, <2>5, <2>10, TimerAssumption DEF LastOf
    <3>2. Len(m_1min_values') = kept
      BY <1>2, <2>5, <3>1
    <3>3. dropped' = more[1]
      <4>1. 1 \in 1 .. Len(all)
        BY <1>2, <2>5
      <4>2. more[1] = more[1 - 1] + all[1].count /\ more[0] = dropped
        BY <2>7, <4>1 DEF SumsUp
      <4>3. more[1] = dropped + all[1].count
        BY <4>2
      <4> QED
        BY <2>1, <2>8, <2>10, <4>3
    <3>4. PICK rest : /\ SumsUp(rest, Tail(all), more[1], recorded)
                      /\ rest[Len(all) - 1] = more[Len(all)]
      <4>1. Len(all) >= 1
        BY <1>2, <2>5
      <4> QED
        BY <1>2, <2>5, <2>7, <4>1, SumsOfTail
    <3>5. rest[kept] = reported[kept] + added /\ rest[kept] \in Nat
      <4>1. Len(all) - 1 = kept
        BY <1>2, <2>5
      <4> QED
        BY <1>4, <2>3, <2>5, <2>7, <3>4, <4>1
    <3>6. SumsUp(rest, m_1min_values', dropped', recorded')
      BY <2>1, <3>1, <3>3, <3>4
    <3> QED
      BY <2>1, <2>6, <3>2, <3>5, <3>6
  <2> QED
    BY <1>2, <2>9, <2>10, TimerAssumption
<1> QED
  BY <1>15, <1>16, <1>17, <1>19, <1>20, TimerSteps

\* The last Keep histograms are those of the last Keep windows.
LEMMA LastHistograms ==
  ASSUME NEW S, NEW hists \in Seq(S), NEW hist \in S,
         NEW seqs \in Seq(Seq(Times)), NEW last \in Seq(Times),
         Paired(hists, seqs), Matches(hist, last)
  PROVE  Paired(LastOf(Append(hists, hist)), LastOf(Append(seqs, last)))
<1> DEFINE n == Len(seqs)
           longer == Append(seqs, last)
           h == Append(hists, hist)
<1>1. n \in Nat /\ Len(hists) = n /\ \A k \in 1 .. n : Matches(hists[k], seqs[k])
  BY DEF Paired
<1>2. longer \in Seq(Seq(Times)) /\ Len(longer) = n + 1 /\ longer[n + 1] = last
      /\ \A k \in 1 .. n : longer[k] = seqs[k]
  BY <1>1
<1>3. h \in Seq(S) /\ Len(h) = n + 1 /\ h[n + 1] = hist /\ \A k \in 1 .. n : h[k] = hists[k]
  BY <1>1
<1> HIDE DEF n, longer, h
<1>4. \A k \in 1 .. n + 1 : Matches(h[k], longer[k])
  <2> TAKE k \in 1 .. n + 1
  <2>1. k \in 1 .. n \/ k = n + 1
    BY <1>1
  <2> QED
    BY <1>1, <1>2, <1>3, <2>1
<1>5. CASE n + 1 > Keep
  <2> DEFINE t == Tail(longer)
             u == Tail(h)
  <2>1. longer # <<>> /\ h # <<>>
    BY <1>1, <1>2, <1>3
  <2>2. t \in Seq(Seq(Times)) /\ Len(t) = n /\ \A k \in 1 .. n : t[k] = longer[k + 1]
    BY <1>1, <1>2, <2>1
  <2>3. u \in Seq(S) /\ Len(u) = n /\ \A k \in 1 .. n : u[k] = h[k + 1]
    BY <1>1, <1>3, <2>1
  <2>4. LastOf(longer) = t /\ LastOf(h) = u
    BY <1>2, <1>3, <1>5 DEF LastOf
  <2> HIDE DEF t, u
  <2>5. \A k \in 1 .. n : Matches(u[k], t[k])
    <3> TAKE k \in 1 .. n
    <3>1. k + 1 \in 1 .. n + 1
      BY <1>1
    <3> QED
      BY <1>4, <2>2, <2>3, <3>1
  <2>6. Paired(u, t)
    BY <2>2, <2>3, <2>5 DEF Paired
  <2> QED
    BY <2>4, <2>6 DEF longer, h
<1>6. CASE ~(n + 1 > Keep)
  <2>1. LastOf(longer) = longer /\ LastOf(h) = h
    BY <1>2, <1>3, <1>6 DEF LastOf
  <2>2. Paired(h, longer)
    BY <1>2, <1>3, <1>4 DEF Paired
  <2> QED
    BY <2>1, <2>2 DEF longer, h
<1> QED
  BY <1>5, <1>6

\* No time gets into the buffer between its histogram and its window.
LEMMA HistogramsStep ==
  ASSUME TimerIInv, HistogramsInv, TimerNext PROVE HistogramsInv'
<1> USE TimerAssumption DEF TimerIInv, TimerTypeOK, HistogramsInv
<1>1. PICK Computed :
        /\ m_1min_values \in Seq(Computed)
        /\ aggregator \in [pc : {"asleep", "taken", "switched", "sorted"}, buffer : {0, 1},
                           hist : Computed]
  BY DEF WindowsInv
<1>2. CASE UNCHANGED <<aggregator, m_times, windows, m_1min_values>>
  BY <1>2
<1>3. CASE TakeBuffer \/ SwitchBuffers
  <2>1. aggregator'.pc # "sorted" /\ UNCHANGED <<windows, m_1min_values>>
    BY <1>1, <1>3 DEF TakeBuffer, SwitchBuffers
  <2> QED
    BY <2>1
<1>4. CASE SortBuffer
  <2>1. m_times[aggregator.buffer] \in Seq(Int)
    <3>1. m_times[aggregator.buffer] \in Seq(Times)
      BY <1>1
    <3> QED
      BY <3>1, TimesAreNumbers
  <2>2. aggregator'.buffer = aggregator.buffer /\ aggregator'.hist = Histogram(m_times[aggregator.buffer])
    BY <1>1, <1>4 DEF SortBuffer
  <2>3. Matches(aggregator'.hist, m_times[aggregator.buffer])
    BY <2>1, <2>2, HistogramMatches
  <2> QED
    BY <1>4, <2>2, <2>3 DEF SortBuffer
<1>5. CASE PushHistogram
  <2> DEFINE last == m_times[aggregator.buffer]
  <2>1. last \in Seq(Times) /\ windows \in Seq(Seq(Times))
    BY <1>1 DEF WindowsInv
  <2>2. /\ m_1min_values' = LastOf(Append(m_1min_values, aggregator.hist))
        /\ windows' = LastOf(Append(windows, last))
    BY <1>5 DEF PushHistogram
  <2>3. aggregator'.pc # "sorted"
    BY <1>5 DEF PushHistogram, Asleep
  <2>4. aggregator.hist \in Computed /\ Matches(aggregator.hist, last)
    BY <1>1, <1>5 DEF PushHistogram
  <2> HIDE DEF last
  <2>5. Paired(LastOf(Append(m_1min_values, aggregator.hist)), LastOf(Append(windows, last)))
    BY <1>1, <2>1, <2>4, LastHistograms
  <2>6. Paired(m_1min_values', windows')
    BY <2>2, <2>5, Zenon
  <2> QED
    BY <2>3, <2>6
<1>6. ASSUME NEW w \in Threads, UpdateDone(w) PROVE HistogramsInv'
  <2>1. updater[w].buffer = m_times_idx
    BY <1>6 DEF UpdateDone, UpdaterInv
  <2>2. aggregator.pc = "sorted" => m_times'[aggregator.buffer] = m_times[aggregator.buffer]
    BY <1>1, <1>6, <2>1 DEF UpdateDone, AggregatorInv
  <2> QED
    BY <1>6, <2>2 DEF UpdateDone
<1> QED
  <2>1. CASE Count
    BY <1>2, <2>1 DEF Count
  <2>2. CASE \E w \in Threads, method \in Methods : DurationOnly(w, method)
    BY <1>2, <2>2 DEF DurationOnly
  <2>3. CASE \E w \in Threads, method \in Methods, t \in Times : Update(w, method, t)
    BY <1>2, <2>3 DEF Update
  <2> QED
    BY <1>3, <1>4, <1>5, <1>6, <2>1, <2>2, <2>3, TimerSteps

LEMMA TimerStep ==
  ASSUME TimerIInv, TimerNext PROVE TimerIInv'
BY TimerTypesStep, UpdaterStep, AggregatorStep, WindowsStep, SamplesStep DEF TimerIInv

LEMMA TimerRests ==
  ASSUME TimerIInv, UNCHANGED timerVars PROVE TimerIInv'
<1> USE DEF timerVars
<1>1. TimerTypeOK' /\ UpdaterInv' /\ AggregatorInv'
  BY DEF TimerIInv, TimerTypeOK, UpdaterInv, AggregatorInv
<1>2. WindowsInv' /\ SamplesConserved'
  BY Zenon DEF TimerIInv, WindowsInv, SamplesConserved
<1> QED
  BY <1>1, <1>2 DEF TimerIInv

-----------------------------------------------------------------------------
(* Both.                                                                   *)

LEMMA MetricsInvariant == Spec => [](TimerIInv /\ RegistryIInv)
<1>1. Init => TimerIInv /\ RegistryIInv
  BY TimerAtStart, RegistryAtStart DEF Init
<1>2. TimerIInv /\ RegistryIInv /\ [Next]_vars => (TimerIInv /\ RegistryIInv)'
  <2> SUFFICES ASSUME TimerIInv, RegistryIInv, [Next]_vars PROVE TimerIInv' /\ RegistryIInv'
    OBVIOUS
  <2>1. CASE TimerPart
    BY <2>1, TimerStep, RegistryRests DEF TimerPart
  <2>2. CASE RegistryPart
    BY <2>2, RegistryStep, TimerRests DEF RegistryPart
  <2>3. CASE UNCHANGED vars
    BY <2>3, TimerRests, RegistryRests DEF vars
  <2> QED
    BY <2>1, <2>2, <2>3 DEF Next
<1> QED
  BY <1>1, <1>2, PTL DEF Spec

\* Every metric waits for its fiber or has it, once, and the object of a handler
\* has a metric of its own type; the buffers and windows of a timer keep their
\* bounds.
THEOREM MetricsAreSafe == Spec => []MetricsInv
<1>1. TimerIInv /\ RegistryIInv => MetricsInv
  BY RegistryMeans DEF TimerIInv, MetricsInv
<1> QED
  BY <1>1, MetricsInvariant, PTL

\* A time that was added is with its thread, in a buffer or in one histogram; what
\* was counted is in the counter, with aggregate or in the total, modulo Wrap.
THEOREM MetricsLoseNothing == Spec => []NothingLost
<1>1. TimerIInv /\ RegistryIInv => NothingLost
  BY RegistryMeans DEF TimerIInv, NothingLost
<1> QED
  BY <1>1, MetricsInvariant, PTL

\* The histogram of each window, whose times are sorted and put into bins by a
\* loop, has their minimum, maximum, sum and number, and counts each in a bin it
\* belongs to; so does the one of the minute for all times of its windows, but for
\* the 0 that an empty window shows (timer.h:150, timer.h:153).  The times are any
\* numbers, negative ones and fractions of a nanosecond included.
THEOREM HistogramsAreRight == Spec => []HistogramsMatchSamples
<1>1. Init => HistogramsInv
  <2> SUFFICES ASSUME Init PROVE HistogramsInv
    OBVIOUS
  <2>1. windows = <<>> /\ m_1min_values = <<>> /\ aggregator.pc = "asleep"
    BY DEF Init, TimerInit, Asleep
  <2>2. Len(<<>>) = 0 /\ \A k \in 1 .. 0 : FALSE
    OBVIOUS
  <2> QED
    BY <2>1, <2>2 DEF HistogramsInv, Paired
<1>2. TimerIInv /\ HistogramsInv /\ [Next]_vars => HistogramsInv'
  <2> SUFFICES ASSUME TimerIInv, HistogramsInv, [Next]_vars PROVE HistogramsInv'
    OBVIOUS
  <2>1. ASSUME UNCHANGED timerVars PROVE HistogramsInv'
    BY <2>1, Zenon DEF timerVars, HistogramsInv
  <2>2. CASE TimerPart
    BY <2>2, HistogramsStep DEF TimerPart
  <2>3. CASE RegistryPart
    BY <2>1, <2>3 DEF RegistryPart
  <2>4. CASE UNCHANGED vars
    BY <2>1, <2>4 DEF vars
  <2> QED
    BY <2>2, <2>3, <2>4 DEF Next
<1>3. TimerIInv /\ HistogramsInv => HistogramsMatchSamples
  <2> SUFFICES ASSUME TimerIInv, HistogramsInv PROVE HistogramsMatchSamples
    OBVIOUS
  <2>1. windows \in Seq(Seq(Times)) /\ Paired(m_1min_values, windows)
    BY DEF TimerIInv, WindowsInv, HistogramsInv
  <2>2. PICK S : m_1min_values \in Seq(S)
    BY DEF TimerIInv, WindowsInv
  <2> QED
    BY <2>1, <2>2, MinuteMatches
<1> QED
  BY <1>1, <1>2, <1>3, MetricsInvariant, PTL DEF Spec

=============================================================================
