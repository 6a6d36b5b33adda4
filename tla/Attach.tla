-------------------------------- MODULE Attach --------------------------------
(***************************************************************************)
(* wait_for_readiness on a RosGraphObserver: the wait loop of Readiness    *)
(* polls the observer of RosObserver while the domain changes and nodes    *)
(* answer, fail to answer or disappear.  The question is what readiness    *)
(* says of the nodes themselves, not of the snapshots.                     *)
(***************************************************************************)
EXTENDS RosObserver

CONSTANTS
  RequiredState, NodeTimeout, NodeStable, StableFor, Timeout, PollInterval

(* What a snapshot under construction holds.                               *)
Views ==
  [ takenAt : 0 .. MaxTime,
    first   : [Topics \cup {"/clock"} -> 0 .. MaxTime \cup {None}],
    nodes   : [Nodes -> Answer \cup {None}] ]

(* What snapshot returns: any topic may be seen or not, any node may be in *)
(* any state or have given no answer.                                      *)
Reported ==
  [ takenAt   : 0 .. MaxTime,
    topics    : [Topics -> [typed : BOOLEAN, publishers : {0, 1}, subscribers : {1},
                            qosCompatible : {TRUE}, firstMessage : BOOLEAN]],
    endpoints : {<< >>},
    nodes     : [Nodes -> States \cup {None}] ]

ASSUME AttachAssumption ==
  /\ RequiredState \in [Nodes -> States]
  /\ NodeTimeout \in [Nodes -> Nat] /\ NodeStable \in [Nodes -> Nat]
  /\ StableFor \in Nat /\ Timeout \in Nat /\ PollInterval \in Nat \ {0}
  /\ None \notin Views

VARIABLES
  pc, snapshot, firstReady, wakeAt, polls,    (* as in Readiness           *)
  lastRequired,    (* history: when each node was last in its required     *)
                   (* state; -1 if never                                   *)
  missed           (* history: nodes that some poll found without their    *)
                   (* service, or without the answer to the call before    *)

wait == <<pc, snapshot, firstReady, wakeAt, polls>>
history == <<lastRequired, missed>>
attachVars == <<vars, wait, history>>

(* The wait loop.  The graph expects no topic or endpoint here.            *)
Wait == INSTANCE Readiness WITH
  Topics <- {}, Endpoints <- {},
  MinPublishers <- << >>, MinSubscribers <- << >>, FirstMessageTimeout <- << >>,
  Snapshots <- Reported

AttachInit ==
  /\ Init
  /\ Wait!Init
  /\ lastRequired = [n \in Nodes |-> IF actual[n] = RequiredState[n] THEN 0 ELSE -1]
  /\ missed = {}

Unanswered == {n \in Nodes : n \notin serving \/ future[n] = "pending"}

(* History only: looked at before and after every step. *)
Remember ==
  /\ lastRequired' = [n \in Nodes |->
       IF actual'[n] = RequiredState[n] THEN now'
       ELSE IF actual[n] = RequiredState[n] THEN now
       ELSE lastRequired[n]]
  /\ missed' = IF view = None /\ view' # None THEN missed \cup Unanswered ELSE missed

(* What the caller gets from the snapshot it began. *)
Delivered ==
  [ takenAt   |-> view.takenAt,
    topics    |-> [t \in Topics |-> TopicView(t)],
    endpoints |-> << >>,
    nodes     |-> [n \in Nodes |-> NodeView(n)] ]

Waiting == pc \notin Wait!Outcomes

(* The domain, its replies and the spin thread run at any time. *)
Concurrent ==
  /\ \/ Tick
     \/ DomainChanges
     \/ \E n \in Nodes : NodeReplies(n) \/ AnswerArrives(n) \/ CallFails(n)
     \/ SpinCrashes
  /\ UNCHANGED wait

SnapshotBegun ==
  /\ pc = "poll"
  /\ BeginSnapshot
  /\ UNCHANGED wait

SnapshotDelivered == FinishSnapshot /\ Wait!TakeSnapshot(Delivered)

(* _require_running raises in snapshot. *)
SnapshotRaises ==
  /\ ~Running /\ view = None
  /\ Wait!SnapshotFails
  /\ UNCHANGED <<domain, state, executor, first, clock, tracker, snap>>

LoopStep ==
  /\ Wait!Judge \/ Wait!Wake
  /\ UNCHANGED <<domain, state, executor, first, clock, tracker, snap>>

AttachNext ==
  /\ \/ Waiting /\ Concurrent
     \/ SnapshotBegun
     \/ SnapshotDelivered
     \/ SnapshotRaises
     \/ LoopStep
  /\ Remember

AttachSpec == AttachInit /\ [][AttachNext]_attachVars
-----------------------------------------------------------------------------
(* A node was in its required state at some moment of the window, counted  *)
(* from the first ready snapshot.                                          *)
RequiredInWindow(n) ==
  \A i \in 1 .. Len(polls) :
    Wait!ReadyRun(i) => lastRequired[n] >= polls[i].snapshot.takenAt

(* Readiness is about the robot: when it is granted, every lifecycle node  *)
(* that was there and answered from poll to poll really was in its         *)
(* required state at some moment of the window (wait_for_readiness and     *)
(* snapshot), whatever the other nodes do.                                 *)
RequiredIfAnswering ==
  pc = "granted" => \A n \in Nodes \ missed : RequiredInWindow(n)

(* The same of every node.  It does not hold: a node that left the state   *)
(* before the window began, and answers no more, can still pass.           *)
RequiredWithinWindow ==
  pc = "granted" => \A n \in Nodes : RequiredInWindow(n)
=============================================================================
