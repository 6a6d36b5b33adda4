-------------------------------- MODULE Timing --------------------------------
(***************************************************************************)
(* What run_verification makes of the clock the observer recorded: it      *)
(* keeps the samples of the measurement window (read from the clock after  *)
(* recording starts and before it stops), derives the real time factors    *)
(* and evaluates the time policy of the mode.                              *)
(***************************************************************************)
EXTENDS RosObserver, FiniteSets, FiniteSetsExt

CONSTANTS
  MinFactor,   (* min_realtime_factor, in source time per unit of time     *)
  MinRate,     (* min_clock_hz, in messages per unit of time               *)
  Step,        (* step_size_sec, in source time                            *)
  Slack,       (* the nanosecond by which a step may be off                *)
  MaxSkipped   (* max_skipped_steps                                        *)

ASSUME TimingAssumption ==
  /\ SourceTimes \subseteq Int
  /\ MinFactor \in Nat \ {0} /\ MinRate \in Nat \ {0}
  /\ Step \in Nat \ {0} /\ MaxSkipped \in Nat
  /\ Slack \in Nat /\ 2 * Slack < Step

Modes == {"simulation_realtime", "playback_clocked", "simulation_stepped"}

(* raw_clock_samples: the samples from and to, both included, in their     *)
(* order.                                                                  *)
Measured(ss, from, to) ==
  LET kept == {i \in DOMAIN ss : ss[i].at >= from /\ ss[i].at <= to}
  IN  [n \in 1 .. Cardinality(kept) |->
         ss[CHOOSE i \in kept : Cardinality({k \in kept : k <= i}) = n]]

Gaps(ss) == {i \in DOMAIN ss : i + 1 \in DOMAIN ss}
SourceDelta(ss, i) == ss[i + 1].source - ss[i].source
WallDelta(ss, i) == ss[i + 1].at - ss[i].at

(* Mutation: only the ends of the window are compared. *)
AdvancedOverall(ss) == ss[Len(ss)].source >= ss[1].source

Monotonic(ss) == \A i \in Gaps(ss) : SourceDelta(ss, i) >= 0

Advanced(ss) == ss[Len(ss)].source > ss[1].source

(* The smallest of the factors; two samples in no time have the factor 0.  *)
(* Fewer than two samples have none, and one is required for every sample. *)
KeepsPace(ss) ==
  /\ Len(ss) >= 2
  /\ \A i \in Gaps(ss) :
       WallDelta(ss, i) > 0 /\ SourceDelta(ss, i) >= MinFactor * WallDelta(ss, i)

(* clock_hz is 0 where no time elapsed. *)
FrequentEnough(ss) ==
  LET elapsed == ss[Len(ss)].at - ss[1].at
  IN  elapsed > 0 /\ Len(ss) - 1 >= MinRate * elapsed

(* max(1, round(delta / step)); the code rounds halves to even, which only *)
(* matters where the residual is refused anyway (Slack is less than half). *)
Steps(delta) == Max({1, (2 * delta + Step) \div (2 * Step)})

InSteps(ss) ==
  \A i \in {j \in Gaps(ss) : SourceDelta(ss, j) # 0} :
    LET delta == SourceDelta(ss, i)
        residual == delta - Steps(delta) * Step
    IN  /\ delta > 0
        /\ residual \in -Slack .. Slack
        /\ Steps(delta) - 1 <= MaxSkipped

(* evaluate_timing passes.  In simulation_realtime the deadline miss ratio *)
(* is a metric, which is required as well.                                 *)
TimePolicyMet(mode, ss, deadlinesMet) ==
  /\ ss # << >>
  /\ Monotonic(ss)
  /\ mode = "simulation_realtime" => KeepsPace(ss) /\ deadlinesMet
  /\ mode = "playback_clocked" => FrequentEnough(ss) /\ Advanced(ss)
  /\ mode = "simulation_stepped" => Advanced(ss) /\ InSteps(ss)
-----------------------------------------------------------------------------
(* The messages of the window, as delivered.  A message that repeats the   *)
(* source time heard just before the window leaves no sample in it.        *)
Carried(i, from) ==
  \E k \in 1 .. i - 1 :
    /\ heard[k].at < from
    /\ \A m \in k .. i : heard[m].source = heard[i].source

DeliveredIn(from, to) ==
  {i \in DOMAIN heard : heard[i].at >= from /\ heard[i].at <= to /\ ~Carried(i, from)}

Turns(from, to) ==
  {i \in DeliveredIn(from, to) : i = 1 \/ heard[i - 1].source # heard[i].source}

(* What a time policy promises of every two messages of a window.          *)
ClockHonours(mode, from, to) ==
  LET all   == DeliveredIn(from, to)
      turns == Turns(from, to)
      Ahead(i, j) == heard[j].source - heard[i].source
      Later(i, j) == heard[j].at - heard[i].at
  IN  /\ \A i, j \in all : i < j => Ahead(i, j) >= 0
      /\ mode = "simulation_realtime" =>
           \A i, j \in turns : i < j =>
             Later(i, j) > 0 /\ Ahead(i, j) >= MinFactor * Later(i, j)
      /\ mode = "playback_clocked" =>
           /\ \E i, j \in all : Ahead(i, j) > 0
           /\ Cardinality(all) - 1 >= MinRate * Later(Min(turns), Max(turns))
      /\ mode = "simulation_stepped" =>
           /\ \E i, j \in all : Ahead(i, j) > 0
           /\ \A i, j \in all : i < j =>
                \E n \in 0 .. (j - i) * (MaxSkipped + 1) :
                  Ahead(i, j) - n * Step \in -(j - i) * Slack .. (j - i) * Slack

(* A time policy that passes on the samples, filtered, thinned and limited *)
(* as they are, is true of everything that was delivered on /clock in the  *)
(* measurement window, wherever the window begins and ends around the      *)
(* callbacks: the clock never went back, kept its pace from any change to  *)
(* any other, was frequent enough, and moved in whole steps.  (Nothing is  *)
(* said after the last change: a clock that stops there is not noticed.)   *)
PassedClockIsTrue ==
  [][returned' \notin {None, returned} /\ returned'.complete =>
       \A mode \in Modes : \A from \in windowStart .. now : \A to \in from .. now :
         TimePolicyMet(mode, Measured(returned'.samples, from, to), TRUE) =>
           ClockHonours(mode, from, to)]_vars
=============================================================================
