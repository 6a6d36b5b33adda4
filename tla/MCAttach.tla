------------------------------- MODULE MCAttach -------------------------------
(* Instances of Attach for TLC: every node has to be active. *)
EXTENDS Attach

ActiveRequired == [n \in Nodes |-> "active"]
Late == [n \in Nodes |-> MaxTime]
One == [n \in Nodes |-> 1]
=============================================================================
