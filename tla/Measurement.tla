----------------------------- MODULE Measurement -----------------------------
(***************************************************************************)
(* What run_verification promises about one measurement-complete marker:   *)
(* it is created once, and only the process that created it may publish a  *)
(* verdict, from an evidence index that exists, each report once, the JSON *)
(* result before the JUnit report.  Verification implements this.          *)
(***************************************************************************)
CONSTANTS
  Procs,     (* harness processes started with the same marker path        *)
  None       (* nobody, nothing                                            *)

VARIABLES
  winner,      (* who created the marker: a process, None, or an earlier   *)
               (* invocation that is none of Procs                         *)
  evidence,    (* there is an evidence index                               *)
  published    (* who wrote each report                                    *)

vars == <<winner, evidence, published>>

Init ==
  /\ winner \notin Procs
  /\ evidence \in BOOLEAN
  /\ published = [f \in {"json", "junit"} |-> None]

Complete ==
  /\ winner = None
  /\ winner' \in Procs
  /\ UNCHANGED <<evidence, published>>

Finalize ==
  /\ winner # None
  /\ evidence' = TRUE
  /\ UNCHANGED <<winner, published>>

Publish(f) ==
  /\ winner \in Procs
  /\ evidence
  /\ published[f] = None
  /\ f = "junit" => published["json"] # None
  /\ published' = [published EXCEPT ![f] = winner]
  /\ UNCHANGED <<winner, evidence>>

Next == Complete \/ Finalize \/ \E f \in {"json", "junit"} : Publish(f)

Spec == Init /\ [][Next]_vars
=============================================================================
