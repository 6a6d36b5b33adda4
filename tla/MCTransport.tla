----------------------------- MODULE MCTransport -----------------------------
(* Two domains with a channel in either direction and one chain.           *)
EXTENDS Transport, TLC

CONSTANTS left, right, there, back

(* The order of severity the tests of the repository show. *)
MCWorst(S) ==
  CHOOSE s \in S : \A t \in S :
    LET rank == [error |-> 4, failed |-> 3, incomplete |-> 2, passed |-> 1, skipped |-> 0]
    IN  rank[t] <= rank[s]

MCDomainOrder == <<left, right>>
MCChannelOrder == <<back, there>>
MCSource == (there :> left) @@ (back :> right)
MCDestination == (there :> right) @@ (back :> left)
=============================================================================
