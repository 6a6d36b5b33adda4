----------------------------- MODULE MCReadiness -----------------------------
(* Instances of Readiness for TLC: one topic, one endpoint, one node. *)
EXTENDS Readiness

Clean ==
  [ topics    |-> [t \in Topics |-> [typed |-> TRUE, publishers |-> 1, subscribers |-> 1,
                                     qosCompatible |-> TRUE, firstMessage |-> TRUE]],
    endpoints |-> [e \in Endpoints |-> [typed |-> TRUE, servers |-> 1]],
    nodes     |-> [n \in Nodes |-> "active"] ]

TopicDefect(field, value) ==
  [Clean EXCEPT !.topics = [t \in Topics |-> [@[t] EXCEPT ![field] = value]]]

Silent == TopicDefect("firstMessage", FALSE)
Inactive == [Clean EXCEPT !.nodes = [n \in Nodes |-> "inactive"]]
Unpublished == TopicDefect("publishers", 0)

Unserved == [Clean EXCEPT !.endpoints = [e \in Endpoints |-> [typed |-> TRUE, servers |-> 0]]]

(* One snapshot per kind of item and branch of the loop.                   *)
BranchSnapshots == {Clean, Silent, Inactive, Unpublished, Unserved}

One(S) == [x \in S |-> 1]
ActiveRequired == [n \in Nodes |-> "active"]
MCFirstMessageTimeout == [t \in Topics |-> 3]
MCNodeTimeout == [n \in Nodes |-> 4]
MCNodeStable == [n \in Nodes |-> 2]
PerTopic == One(Topics)
=============================================================================
