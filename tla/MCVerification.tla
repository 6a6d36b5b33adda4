---------------------------- MODULE MCVerification ----------------------------
(* Instances of Verification for TLC: all processes are started in a quiet *)
(* domain, or one of them in a domain that changes under a wall clock that *)
(* is set back.                                                            *)
EXTENDS Verification

CONSTANT Alone   (* the process that may be the only one                   *)

VARIABLE active  (* the processes that are started                         *)

(* The order of severity the tests of the repository show.                 *)
MCWorst(S) ==
  CHOOSE s \in S : \A t \in S :
    LET rank == [error |-> 4, failed |-> 3, incomplete |-> 2, passed |-> 1, skipped |-> 0]
    IN  rank[t] <= rank[s]

MCInit == Init /\ active \in {Procs, {Alone}}

MCNext ==
  /\ \/ Tick \/ RecorderStarts \/ RecorderFinalizes
     \/ active = {Alone} /\ (WallClockSetBack \/ InterfacesChange)
     \/ \E p \in active : Progress(p) \/ Observing(p) \/ Failing(p)
  /\ UNCHANGED active

MCFairSpec ==
  /\ MCInit /\ [][MCNext]_<<vars, active>>
  /\ WF_<<vars, active>>(Tick /\ UNCHANGED active)
  /\ \A p \in Procs : WF_<<vars, active>>(p \in active /\ Progress(p) /\ UNCHANGED active)
=============================================================================
