---------------------------- MODULE MCAggregation ----------------------------
(* Aggregation of a run of two domains, with a transport qualification,    *)
(* and a campaign of that run and up to two others.                        *)
EXTENDS Campaign

CONSTANTS left, right, leftFile, rightFile

(* The order of severity the tests of the repository show. *)
MCWorst(S) ==
  CHOOSE s \in S : \A t \in S :
    LET rank == [error |-> 4, failed |-> 3, incomplete |-> 2, passed |-> 1, skipped |-> 0]
    IN  rank[t] <= rank[s]

(* The order of the files on the command line. *)
MCGiven == <<leftFile, rightFile>>

MCOtherRuns ==
  {n \in [RunStatuses -> 0 .. 2] : n["passed"] + n["failed"] + n["incomplete"] + n["error"] <= 2}

(* One failed run is tolerated. *)
MCMaxRuns == [failed |-> 1, incomplete |-> 0, error |-> 0]
=============================================================================
