------------------------------ MODULE Instrument ------------------------------
(***************************************************************************)
(* A process under test whose instruments are recorded as evidence: it     *)
(* counts, is restarted and exports what it counted, as cumulative points  *)
(* or as deltas, and some points are lost.  What it counts is told apart   *)
(* by keys: the counters of a channel (DataPlane), or the values of a      *)
(* histogram, each counted (Histogram).  A gauge is read, not counted      *)
(* (Duration).  Every state is metric evidence somebody may evaluate;      *)
(* history says what really happened and is never evaluated.               *)
(***************************************************************************)
EXTENDS Integers, FiniteSets, FiniteSetsExt

CONSTANTS
  Kinds,                    (* of instruments: counters, histogram, gauge  *)
  WindowStart, WindowEnd,   (* the evaluation window                       *)
  Keys,                     (* per kind: what its instruments tell apart   *)
  Bursts,                   (* per kind: what an instant may record        *)
  Exports,                  (* per kind: keys whose points may get through *)
  MaxRestarts,              (* per kind: bound on restarts of the process  *)
  MaxTime                   (* bound: instants                             *)

ASSUME InstrumentAssumption ==
  /\ {WindowStart, WindowEnd, MaxTime} \subseteq Nat
  /\ WindowStart < WindowEnd
  /\ Kinds \subseteq {"counters", "histogram", "gauge"}
  /\ \A k \in Kinds : /\ Bursts[k] \subseteq [Keys[k] -> Nat]
                     /\ Exports[k] \subseteq SUBSET Keys[k]
                     /\ MaxRestarts[k] \in Nat

VARIABLES
  kind,          (* what is recorded                                       *)
  temporality,   (* as the exporter is configured                          *)
  now,
  history,       (* what each instant recorded since the one before        *)
  started,       (* when the process was started                           *)
  count,         (* what it counted since then, or reads                   *)
  collected,     (* when its instruments were last collected               *)
  base,          (* and what they said then                                *)
  restarts,
  points         (* the exported points                                    *)

process == <<started, count, collected, base>>
config == <<kind, temporality>>
vars == <<config, now, history, process, restarts, points>>

Zero == [k \in Keys[kind] |-> 0]

Init ==
  /\ kind \in Kinds
  /\ temporality \in IF kind = "gauge" THEN {"instantaneous"} ELSE {"cumulative", "delta"}
  /\ now = 0
  /\ history = [t \in 1 .. MaxTime |-> Zero]
  /\ started = 0 /\ count = Zero
  /\ collected = 0 /\ base = Zero
  /\ restarts = 0
  /\ points = {}

(* Time passes, and something is recorded.                                 *)
Work(burst) ==
  /\ now < MaxTime
  /\ now' = now + 1
  /\ history' = [history EXCEPT ![now + 1] = burst]
  /\ count' = IF kind = "gauge" THEN burst
              ELSE [k \in Keys[kind] |-> count[k] + burst[k]]
  /\ UNCHANGED <<config, started, collected, base, restarts, points>>

(* The instruments are collected; the points of some of them get through.  *)
Collect(exported) ==
  /\ collected < now
  /\ points' = IF exported = {} THEN points ELSE points \cup
       {IF temporality = "delta"
        THEN [start |-> collected, observed |-> now,
              reading |-> [k \in exported |-> count[k] - base[k]]]
        ELSE [start |-> started, observed |-> now,
              reading |-> [k \in exported |-> count[k]]]}
  /\ collected' = now
  /\ base' = count
  /\ UNCHANGED <<config, now, history, started, count, restarts>>

(* The process is restarted: what it counted since it was last collected   *)
(* is forgotten.                                                           *)
Restart ==
  /\ restarts < MaxRestarts[kind]
  /\ restarts' = restarts + 1
  /\ started' = now /\ count' = Zero
  /\ collected' = now /\ base' = Zero
  /\ UNCHANGED <<config, now, history, points>>

Next ==
  \/ \E burst \in Bursts[kind] : Work(burst)
  \/ \E exported \in Exports[kind] : Collect(exported)
  \/ Restart

Spec == Init /\ [][Next]_vars
-----------------------------------------------------------------------------
(* What really happened.                                                   *)

Instants(intervals) == UNION {i.start + 1 .. i.observed : i \in intervals}
InTheWindow == WindowStart + 1 .. WindowEnd

(* How often k was recorded in the given instants.                         *)
Truth(k, instants) == SumFunctionOnSet([t \in 1 .. MaxTime |-> history[t][k]], instants)
=============================================================================
