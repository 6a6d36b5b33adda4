---------------------------- MODULE TimeAuthority ----------------------------
(***************************************************************************)
(* evaluate_time_authority: the latency histogram of the source of time,   *)
(* held to limits on its median, its 95th percentile and its maximum.      *)
(***************************************************************************)
EXTENDS Histogram

CONSTANTS
  MinLatencies,    (* time_authority_min_samples                           *)
  LatencyLimit     (* per "p50", "p95" and "max": the limit of the policy  *)

ASSUME TimeAuthorityAssumption ==
  MinLatencies \in Nat /\ LatencyLimit \in [{"p50", "p95", "max"} -> Nat]

(* Only points observed in the window are looked at.  A cumulative series  *)
(* that began before it is never within policy: it has no baseline, or,    *)
(* with one taken right at the start, the subtraction loses its maximum.   *)
SelectedPoints ==
  {p \in HistogramPoints : WindowStart <= p.observed /\ p.observed <= WindowEnd}

(* Every one of them has to carry the minimum; the maximum has to survive  *)
(* the merge; the upper bound of a percentile is what is reported.         *)
WithinPolicy ==
  LET S == HistogramContributions(SelectedPoints)
      p50 == QuantileBounds(S, 50)
      p95 == QuantileBounds(S, 95)
  IN  /\ S # NoAggregate
      /\ Covered(WindowCoverage(S))
      /\ p50 # Unbounded /\ p95 # Unbounded /\ Largest(S) # Absent
      /\ \A p \in SelectedPoints : p.min # Absent /\ p.min >= 0
      /\ MergedCount(S) >= MinLatencies
      /\ Reported(p50) <= LatencyLimit["p50"]
      /\ Reported(p95) <= LatencyLimit["p95"]
      /\ Largest(S) <= LatencyLimit["max"]

(* A time authority within its policy really was: enough latencies, and    *)
(* those of the window itself, were measured, half of them and 95 percent  *)
(* of them within their limits and all of them below the maximum.          *)
AuthorityIsWithinPolicy ==
  (kind = "histogram" /\ WithinPolicy) =>
    LET measured == Instants(HistogramContributions(SelectedPoints))
        recorded == [v \in Values |-> Truth(v, measured)]
        latencies(limit) == SumFunctionOnSet(recorded, {v \in Values : v <= limit})
        all == SumFunction(recorded)
    IN  /\ measured \subseteq InTheWindow
        /\ temporality = "cumulative" => Cardinality(InTheWindow \ measured) <= Tolerance
        /\ all >= MinLatencies
        /\ 100 * latencies(LatencyLimit["p50"]) >= 50 * all
        /\ 100 * latencies(LatencyLimit["p95"]) >= 95 * all
        /\ latencies(LatencyLimit["max"]) = all
=============================================================================
