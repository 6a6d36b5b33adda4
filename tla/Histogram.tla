------------------------------ MODULE Histogram ------------------------------
(***************************************************************************)
(* Percentiles of a histogram over the evaluation window: its points hold  *)
(* bucket counts, and perhaps the smallest and largest value, of which     *)
(* _histogram_contributions takes those of the window, _merge_histograms   *)
(* adds them up and _histogram_quantile_evaluation judges what they prove. *)
(* The keys of the instrument are the values it recorded.                  *)
(***************************************************************************)
EXTENDS MetricWindow

CONSTANTS
  Bounds,       (* the explicit bounds of the buckets                      *)
  Summarised,   (* whether points carry min and max                        *)
  Percentiles,  (* of p50, p95 and p99, those that are asserted            *)
  Absent        (* a summary value that was not exported                   *)

Values == Keys["histogram"]
Buckets == 1 .. Len(Bounds) + 1

ASSUME HistogramAssumption ==
  /\ Values \subseteq Nat /\ IsFiniteSet(Values)
  /\ Exports["histogram"] \subseteq {Values, {}}
  /\ Absent \notin Nat /\ Percentiles \subseteq {50, 95, 99}
  /\ Bounds \in Seq(Nat) /\ \A i, j \in DOMAIN Bounds : i < j => Bounds[i] < Bounds[j]
  /\ Summarised \in BOOLEAN

(* A value belongs to the first bucket whose bound it does not exceed.     *)
Bucket(v) == Min({i \in DOMAIN Bounds : v <= Bounds[i]} \cup {Len(Bounds) + 1})

Point(p) ==
  LET occurring == {v \in Values : p.reading[v] > 0}
      known == Summarised /\ occurring # {}
  IN  [ start    |-> p.start,
        observed |-> p.observed,
        counts   |-> [i \in Buckets |-> SumFunctionOnSet(p.reading, {v \in Values : Bucket(v) = i})],
        min      |-> IF known THEN Min(occurring) ELSE Absent,
        max      |-> IF known THEN Max(occurring) ELSE Absent ]

HistogramPoints == {Point(p) : p \in points}

(* _subtract_histograms: the extremes of a difference are not known.       *)
Subtract(c) ==
  IF Len(c) = 1 THEN c[1]
  ELSE [ start    |-> c[1].observed,
         observed |-> c[2].observed,
         counts   |-> [i \in Buckets |-> c[2].counts[i] - c[1].counts[i]],
         min      |-> Absent,
         max      |-> Absent ]

(* _histogram_contributions, of the points P.                              *)
HistogramContributions(P) ==
  LET contributions == IF temporality = "delta" THEN DeltaContributions(P)
                       ELSE {Subtract(c) : c \in CumulativeContributions(P)}
  IN  IF \E c \in contributions : \E i \in Buckets : c.counts[i] < 0
      THEN NoAggregate ELSE contributions

(* histogram_window_coverage: the intervals, cut off at the window.        *)
WindowCoverage(contributions) ==
  LET clipped == {[start    |-> Max({i.start, WindowStart}),
                   observed |-> Min({i.observed, WindowEnd})] : i \in Intervals(contributions)}
  IN  {i \in clipped : i.start < i.observed}
-----------------------------------------------------------------------------
(* _merge_histograms: counts add up; the summary survives if every point   *)
(* has one.                                                                *)

Count(S, i) == SumFunction([p \in S |-> p.counts[i]])
CountUpTo(S, i) == SumFunction([j \in 1 .. i |-> Count(S, j)])
MergedCount(S) == CountUpTo(S, Len(Bounds) + 1)

Smallest(S) == IF \E p \in S : p.min = Absent THEN Absent ELSE Min({p.min : p \in S})
Largest(S) == IF \E p \in S : p.max = Absent THEN Absent ELSE Max({p.max : p \in S})

Rank(S, percent) == Max({1, (MergedCount(S) * percent + 99) \div 100})

(* The bucket of that rank, bounded by its neighbours and the summary.     *)
QuantileBucket(S, percent) ==
  Min({i \in Buckets : CountUpTo(S, i) >= Rank(S, percent)})

Unbounded == << >>

QuantileBounds(S, percent) ==
  LET i == QuantileBucket(S, percent)
      below == IF i = 1 THEN Smallest(S) ELSE Bounds[i - 1]
      above == IF i = Len(Bounds) + 1 THEN Largest(S) ELSE Bounds[i]
      lower == IF Smallest(S) = Absent THEN below ELSE Max({below, Smallest(S)})
      upper == IF Largest(S) = Absent THEN above ELSE Min({above, Largest(S)})
  IN  IF MergedCount(S) = 0 THEN Unbounded
      ELSE IF below = Absent \/ above = Absent THEN Unbounded
      ELSE IF lower > upper THEN Unbounded
      ELSE <<lower, upper>>

(* Mutation: the lower end is reported.                                    *)
LowerEnd(bounds) == bounds[1]

(* What _histogram_quantile reports of an interval.                        *)
Reported(bounds) == bounds[2]

Operators == {"lt", "lte", "eq", "gte", "gt"}

Compare(operator, value, threshold) ==
  CASE operator = "lt"  -> value < threshold
    [] operator = "lte" -> value <= threshold
    [] operator = "eq"  -> value = threshold
    [] operator = "gte" -> value >= threshold
    [] operator = "gt"  -> value > threshold

InWindowContributions == HistogramContributions(HistogramPoints)

(* What the contributions S prove of a percentile, if anything.            *)
Proved(S, percent) ==
  IF S = NoAggregate \/ ~Covered(WindowCoverage(S)) THEN Unbounded
  ELSE QuantileBounds(S, percent)

(* Mutation: the upper end decides for every operator.                     *)
UpperDecides(bounds, operator, threshold) ==
  IF bounds = Unbounded THEN "error"
  ELSE IF Compare(operator, bounds[2], threshold) THEN "passed" ELSE "failed"

(* The end of the interval that is the worse for the assertion decides,    *)
(* and equality is proved of one value only.                               *)
QuantileVerdict(bounds, operator, threshold) ==
  LET decisive == IF operator \in {"lt", "lte"} THEN bounds[2] ELSE bounds[1]
  IN  IF bounds = Unbounded \/ (operator = "eq" /\ bounds[1] # bounds[2]) THEN "error"
      ELSE IF Compare(operator, decisive, threshold) THEN "passed" ELSE "failed"
-----------------------------------------------------------------------------
(* The percentile of the values recorded in the instants: the one of its   *)
(* rank.                                                                   *)
IsQuantile(v, percent, instants) ==
  LET recorded == [w \in Values |-> Truth(w, instants)]
      rank == Max({1, (SumFunction(recorded) * percent + 99) \div 100})
      upTo(x) == SumFunctionOnSet(recorded, {w \in Values : w <= x})
  IN  upTo(v) >= rank /\ upTo(v) - recorded[v] < rank

(* An assertion about a percentile that passes is true of the values       *)
(* themselves, those recorded in the intervals its points speak of,        *)
(* although only bucket counts of a process that was restarted, and whose  *)
(* points were lost, have been seen.                                       *)
PassedQuantileIsTrue ==
  kind = "histogram" =>
    LET S == InWindowContributions IN
    \A percent \in Percentiles :
      LET bounds == Proved(S, percent)
          real == {v \in Values : IsQuantile(v, percent, Instants(S))} IN
      \A operator \in Operators, threshold \in Values :
        QuantileVerdict(bounds, operator, threshold) = "passed" =>
          \E v \in real : Compare(operator, v, threshold)

(* A percentile read off a cumulative series misses nothing of the window  *)
(* but the tolerated edges, and what it counts from before the window goes *)
(* back to the point before the window it is compared with, no further.    *)
(* (How long ago that was is not limited: histogram_window_coverage cuts   *)
(* it off.)                                                                *)
PercentileMeansWindow ==
  kind = "histogram" /\ temporality = "cumulative" =>
    LET S == InWindowContributions
        counted == Instants(S) IN
    (\E percent \in Percentiles : Proved(S, percent) # Unbounded) =>
      /\ Cardinality(InTheWindow \ counted) <= Tolerance
      /\ \A t \in counted \ InTheWindow :
           /\ t <= WindowStart
           /\ \A p \in points : p.observed = t =>
                ~\E q \in points : q.start = p.start /\ t < q.observed /\ q.observed <= WindowEnd
=============================================================================
