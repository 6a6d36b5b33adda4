------------------------------ MODULE DataPlane ------------------------------
(***************************************************************************)
(* The loss verdict of evaluate_data_plane_policy: three counters of the   *)
(* system under test, read over the evaluation window by                   *)
(* counter_window_aggregate and held to require_window_coverage.           *)
(***************************************************************************)
EXTENDS MetricWindow

CONSTANT MaxLossPercent   (* max_loss_ratio of the policy                  *)

Counters == {"received", "lost", "sequence_error"}

ASSUME DataPlaneAssumption == MaxLossPercent \in Nat /\ Keys["counters"] = Counters

CounterPoints(m) ==
  {[start |-> p.start, observed |-> p.observed, value |-> p.reading[m]] :
     p \in {q \in points : m \in DOMAIN q.reading}}

(* Mutation: a counter counts from the start of its process.               *)
SinceStart(c) ==
  IF Len(c) = 1 THEN c[1]
  ELSE [start |-> c[1].observed, observed |-> c[2].observed, value |-> c[2].value]

Increase(c) ==
  IF Len(c) = 1 THEN c[1]
  ELSE [start |-> c[1].observed, observed |-> c[2].observed,
        value |-> c[2].value - c[1].value]

Decreasing(P) == \E s \in Incarnations(P) : \E p, q \in Series(P, s) :
  p.observed < q.observed /\ q.value < p.value

CumulativeIncrease(m) ==
  LET increases == {Increase(c) : c \in CumulativeContributions(CounterPoints(m))}
  IN  IF \/ Decreasing(CounterPoints(m))
         \/ \E i \in increases : i.start >= i.observed
         \/ Overlapping(increases)
      THEN NoAggregate ELSE increases

(* counter_window_aggregate                                                *)
Contributions(m) ==
  IF temporality = "delta" THEN DeltaContributions(CounterPoints(m))
  ELSE CumulativeIncrease(m)

Total(m) == SumFunction([c \in Contributions(m) |-> c.value])
Coverage(m) == Intervals(Contributions(m))

(* The counters speak about the same intervals, which cover the window.    *)
Conclusive ==
  LET coverage == [m \in Counters |-> Coverage(m)]
  IN  /\ \A m \in Counters : coverage[m] # NoAggregate /\ coverage[m] = coverage["received"]
      /\ Covered(coverage["received"])

Observations == Total("received") + Total("lost")

LossVerdict ==
  IF ~Conclusive \/ Observations = 0 THEN "error"
  ELSE IF 100 * Total("lost") <= MaxLossPercent * Observations THEN "passed"
  ELSE "failed"

SequenceVerdict ==
  IF ~Conclusive THEN "error"
  ELSE IF Total("sequence_error") = 0 THEN "passed" ELSE "failed"
-----------------------------------------------------------------------------
(* What happened to m in the instants the evidence covers.                 *)
CoveredInstants == Instants(Coverage("received"))

(* A verdict is about what really happened: over the intervals the         *)
(* evidence covers every counter is exact, and the ratio and the sequence  *)
(* are judged by it, through restarts of the process, points that were     *)
(* lost and points that reach over the start of the window.                *)
VerdictsAreTrue ==
  kind = "counters" =>
    LET loss == LossVerdict
        sequence == SequenceVerdict
        covered == CoveredInstants
        truth == [m \in Counters |-> Truth(m, covered)]
    IN  /\ sequence # "error" => \A m \in Counters : Total(m) = truth[m]
        /\ sequence # "error" => (sequence = "passed" <=> truth["sequence_error"] = 0)
        /\ loss # "error" =>
             (loss = "passed" <=>
                100 * truth["lost"] <= MaxLossPercent * (truth["received"] + truth["lost"]))

(* With cumulative counters a verdict is about the window: nothing inside  *)
(* escapes it and nothing outside enters it but the tolerated edges.  A    *)
(* restart that forgot counts, lost points, or a baseline from long before *)
(* the window, leave no verdict instead.                                   *)
CumulativeMeansWindow ==
  kind = "counters" /\ temporality = "cumulative" /\ Conclusive =>
    /\ Cardinality(InTheWindow \ CoveredInstants) <= Tolerance
    /\ Cardinality(CoveredInstants \ InTheWindow) <= Tolerance
=============================================================================
