------------------------------- MODULE Duration -------------------------------
(***************************************************************************)
(* _duration_evaluation: how long a predicate on a gauge held, or did not, *)
(* judged from samples some of which are lost.  A sample stands for the    *)
(* time until the next one; between two samples the gauge may have been    *)
(* anywhere.                                                               *)
(***************************************************************************)
EXTENDS Instrument

CONSTANTS
  MaxGap,      (* max_sample_gap_sec of the assertion                      *)
  Requirements (* duration_sec that may be required                        *)

ASSUME DurationAssumption ==
  MaxGap \in Nat \ {0} /\ Requirements \subseteq Nat /\ Keys["gauge"] = {"level"}

Samples == {p \in points : WindowStart <= p.observed /\ p.observed <= WindowEnd}
Times == {p.observed : p \in Samples}
Holds(p) == p.reading["level"] > 0

(* Mutation: only the gaps between samples count.                          *)
InnerGapsOnly ==
  /\ Times # {}
  /\ \A t \in Times : t = Max(Times) \/ \E u \in Times : t < u /\ u - t <= MaxGap

(* No gap between samples, or between a sample and the edge of the window, *)
(* exceeds the permitted one.                                              *)
Sampled ==
  /\ Times # {}
  /\ Min(Times) - WindowStart <= MaxGap
  /\ WindowEnd - Max(Times) <= MaxGap
  /\ \A t \in Times : t = Max(Times) \/ \E u \in Times : t < u /\ u - t <= MaxGap

(* A run that begins with a sample lasts until the first later one that    *)
(* says otherwise, or until the end of the window.                         *)
RunEnd(first) ==
  Min({WindowEnd} \cup {p.observed : p \in {q \in Samples :
    first.observed < q.observed /\ (Holds(q) <=> ~Holds(first))}})

Longest(truth) ==
  Max({0} \cup {RunEnd(p) - p.observed : p \in {q \in Samples : Holds(q) = truth}})

DurationVerdict(requirement, duration) ==
  IF ~Sampled THEN "error"
  ELSE IF \/ requirement = "minimum_contiguous" /\ Longest(TRUE) >= duration
          \/ requirement = "maximum_contiguous" /\ Longest(FALSE) <= duration
  THEN "passed" ELSE "failed"
-----------------------------------------------------------------------------
(* Whether the gauge really was off all the time from one instant to       *)
(* another.                                                                *)
Off(from, to) == \A t \in from + 1 .. to : history[t]["level"] = 0
Stretches == {s \in (WindowStart .. WindowEnd) \X (WindowStart .. WindowEnd) : s[1] <= s[2]}

(* What sampling can prove: a predicate whose violations were judged short *)
(* enough was never off for longer than that and one permitted gap, and    *)
(* one that was judged to have held long enough really did, but for        *)
(* interruptions no longer than a permitted gap.                           *)
PassedDurationHeld ==
  (kind = "gauge" /\ now >= WindowEnd) => \A duration \in Requirements :
    /\ DurationVerdict("maximum_contiguous", duration) = "passed" =>
         \A s \in Stretches : Off(s[1], s[2]) => s[2] - s[1] <= duration + MaxGap
    /\ DurationVerdict("minimum_contiguous", duration) = "passed" =>
         \E s \in Stretches :
           /\ s[2] - s[1] >= duration
           /\ \A r \in Stretches :
                s[1] <= r[1] /\ r[2] <= s[2] /\ Off(r[1], r[2]) => r[2] - r[1] <= MaxGap
=============================================================================
