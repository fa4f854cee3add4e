------------------------------ MODULE MCMetrics -----------------------------
(***************************************************************************)
(* Small instances of TimerMetric and MetricsRegistry, which share no      *)
(* state: a behaviour runs the one that part names, and the other rests.   *)
(***************************************************************************)
EXTENDS TimerMetric, MetricsRegistry

\* A negative time, one inside the second bin, and one half a nanosecond above
\* that bin.  (A configuration cannot write negative numbers.)
HalfNanoseconds == {-3, 7, 9}

VARIABLE part

vars == <<part, timerVars, registryVars>>

Init == part \in {"timer", "registry"} /\ TimerInit /\ RegistryInit

TimerPart    == part = "timer" /\ TimerNext /\ UNCHANGED <<part, registryVars>>
RegistryPart == part = "registry" /\ RegistryNext /\ UNCHANGED <<part, timerVars>>
Next == TimerPart \/ RegistryPart

Spec ==
  /\ Init /\ [][Next]_vars
  /\ part = "timer" => TimerFairness
  /\ part = "registry" => RegistryFairness

-----------------------------------------------------------------------------
\* The types, one aggregating fiber per metric, and objects that match.
MetricsInv == TimerTypeOK /\ RegistryInv

\* No time and no count is lost or counted twice.
NothingLost == SamplesConserved /\ CountsConserved

\* Times and counts are aggregated in the end.
EventuallyAggregated ==
  (part = "timer" => BuffersDrained) /\ (part = "registry" => MetersAggregated)

=============================================================================
