----------------------------- MODULE MetricWindow -----------------------------
(***************************************************************************)
(* The intervals an aggregate over the evaluation window is made of, for   *)
(* counters and histograms alike, and require_window_coverage.             *)
(***************************************************************************)
EXTENDS Instrument, Sequences

CONSTANT Tolerance   (* of the window's edges: one second or 5 percent of  *)
                     (* the window, whichever is less                      *)

ASSUME ToleranceAssumption == Tolerance \in Nat

NoAggregate == {}

Overlapping(intervals) ==
  \E i, j \in intervals : i # j /\ i.start <= j.start /\ j.start < i.observed

(* A delta point counts when it lies in the window.                        *)
DeltaContributions(P) ==
  LET selected == {p \in P : p.start >= WindowStart /\ p.observed <= WindowEnd}
  IN  IF \E p \in selected : p.start >= p.observed THEN NoAggregate
      ELSE IF Overlapping(selected) THEN NoAggregate ELSE selected

(* The incarnations of the process seen by the end of the window.          *)
Incarnations(P) == {p.start : p \in {q \in P : q.observed <= WindowEnd}}
Series(P, start) == {p \in P : p.start = start /\ p.observed <= WindowEnd}
Latest(S) == CHOOSE p \in S : \A q \in S : q.observed <= p.observed

InWindow(P) == {s \in Incarnations(P) : Latest(Series(P, s)).observed >= WindowStart}

(* Mutation: the first point of the series is its baseline.                *)
FirstPoint(P, start) ==
  {p \in Series(P, start) : \A q \in Series(P, start) :
     p.observed <= q.observed /\ p.observed <= WindowStart}

Baselines(P, start) ==
  {p \in Series(P, start) :
     p.observed <= WindowStart /\ p.observed < Latest(Series(P, start)).observed}

(* The latest point, after the baseline of an incarnation that began       *)
(* before the window.                                                      *)
Contribution(P, start) ==
  LET latest == Latest(Series(P, start))
  IN  IF start >= WindowStart THEN <<latest>>
      ELSE <<Latest(Baselines(P, start)), latest>>

CumulativeContributions(P) ==
  IF \E s \in InWindow(P) : s < WindowStart /\ Baselines(P, s) = {}
  THEN NoAggregate
  ELSE {Contribution(P, s) : s \in InWindow(P)}

Intervals(contributions) ==
  {[start |-> c.start, observed |-> c.observed] : c \in contributions}

Starts(coverage) == {i.start : i \in coverage}
Ends(coverage) == {i.observed : i \in coverage}
Distance(a, b) == IF a < b THEN b - a ELSE a - b

(* Mutation: what lies between the intervals is not looked at.             *)
EdgesOnly(coverage) ==
  /\ coverage # {}
  /\ Distance(Min(Starts(coverage)), WindowStart) <= Tolerance
  /\ Distance(Max(Ends(coverage)), WindowEnd) <= Tolerance

(* require_window_coverage: no overlap, no gap between cumulative          *)
(* intervals, and the edges of the window within the tolerance, together.  *)
Covered(coverage) ==
  /\ coverage # {}
  /\ ~Overlapping(coverage)
  /\ temporality # "delta" =>
       \A i \in coverage :
         i.observed = Max(Ends(coverage)) \/ i.observed \in Starts(coverage)
  /\ Distance(Min(Starts(coverage)), WindowStart) <= Tolerance
  /\ Distance(Max(Ends(coverage)), WindowEnd) <= Tolerance
  /\ Max({0, Min(Starts(coverage)) - WindowStart})
       + Max({0, WindowEnd - Max(Ends(coverage))}) <= Tolerance
=============================================================================
