------------------------------ MODULE Readiness ------------------------------
(***************************************************************************)
(* wait_for_readiness: poll an observer until the expected ROS graph has   *)
(* been ready for one uninterrupted window, an item misses its own         *)
(* deadline, or the whole wait does.  Any object with a snapshot method    *)
(* can be the observer; Attach puts the real one in its place.  Time is in *)
(* ticks since the call, and passes between any two steps.                 *)
(***************************************************************************)
EXTENDS Integers, Sequences

CONSTANTS
  Topics, Endpoints, Nodes,  (* expected topics, services and actions, and *)
                             (* lifecycle nodes                            *)
  MinPublishers, MinSubscribers, FirstMessageTimeout,   (* per topic       *)
  RequiredState, NodeTimeout, NodeStable,               (* per node        *)
  StableFor, Timeout, PollInterval,      (* arguments of the wait          *)
  Snapshots,                 (* what the observer may report               *)
  None,                      (* Python's None                              *)
  MaxTime                    (* bound: the clock stops here                *)

ASSUME ReadinessTimesAssumption ==
  /\ FirstMessageTimeout \in [Topics -> Nat]
  /\ NodeTimeout \in [Nodes -> Nat]
  /\ NodeStable \in [Nodes -> Nat]
  /\ StableFor \in Nat /\ Timeout \in Nat /\ MaxTime \in Nat
  /\ PollInterval \in Nat \ {0}

ASSUME NoneAssumption == None \notin Int

VARIABLES
  now,         (* monotonic_ns                                              *)
  pc,          (* "poll", "judge", "asleep", then an outcome                *)
  snapshot,    (* the snapshot being judged                                 *)
  firstReady,  (* first_ready_at_ns                                         *)
  wakeAt,      (* end of the current sleep                                  *)
  polls        (* history: every judged snapshot and when it was judged     *)

vars == <<now, pc, snapshot, firstReady, wakeAt, polls>>

Outcomes == {"granted", "refused", "failed"}
-----------------------------------------------------------------------------
(* evaluate_graph: the items of the expected graph that have an issue.     *)

TopicReady(t, s) ==
  LET seen == s.topics[t] IN
  /\ seen.typed
  /\ seen.publishers >= MinPublishers[t]
  /\ seen.subscribers >= MinSubscribers[t]
  /\ seen.qosCompatible
  /\ seen.firstMessage

EndpointReady(e, s) == s.endpoints[e].servers >= 1 /\ s.endpoints[e].typed

NodeReady(n, s) == s.nodes[n] = RequiredState[n]

Ready(s) ==
  /\ \A t \in Topics : TopicReady(t, s)
  /\ \A e \in Endpoints : EndpointReady(e, s)
  /\ \A n \in Nodes : NodeReady(n, s)

(* _expired_readiness_issues: some item has outlived its own deadline. *)
Expired(s, elapsed) ==
  \/ \E t \in Topics :
       elapsed >= FirstMessageTimeout[t] /\ ~s.topics[t].firstMessage
  \/ \E n \in Nodes : elapsed >= NodeTimeout[n] /\ ~NodeReady(n, s)

(* required_stability is the largest of the requested windows. *)
LongEnough(span) ==
  span >= StableFor /\ \A n \in Nodes : span >= NodeStable[n]
-----------------------------------------------------------------------------
Init ==
  /\ now = 0
  /\ pc = "poll"
  /\ snapshot = None
  /\ firstReady = None
  /\ wakeAt = 0
  /\ polls = << >>

Tick ==
  /\ now < MaxTime
  /\ now' = now + 1
  /\ UNCHANGED <<pc, snapshot, firstReady, wakeAt, polls>>

TakeSnapshot(s) ==
  /\ pc = "poll"
  /\ snapshot' = s
  /\ pc' = "judge"
  /\ UNCHANGED <<now, firstReady, wakeAt, polls>>

(* observer.snapshot raises: the ROS executor has stopped. *)
SnapshotFails ==
  /\ pc = "poll"
  /\ pc' = "failed"
  /\ UNCHANGED <<now, snapshot, firstReady, wakeAt, polls>>

(* Mutation: an unready snapshot does not restart the window. *)
SinceNotReset(s) ==
  IF firstReady = None /\ Ready(s) THEN now ELSE firstReady

(* The start of the current window once s has been judged. *)
Since(s) ==
  IF ~Ready(s) THEN None ELSE IF firstReady = None THEN now ELSE firstReady

Judging ==
  /\ pc = "judge"
  /\ polls' = Append(polls, [at |-> now, snapshot |-> snapshot])
  /\ UNCHANGED <<now, snapshot>>

WindowComplete(since) == since # None /\ LongEnough(now - since)

Expire ==
  /\ Judging
  /\ Expired(snapshot, now)
  /\ pc' = "refused"
  /\ UNCHANGED <<firstReady, wakeAt>>

Grant ==
  /\ Judging
  /\ ~Expired(snapshot, now)
  /\ WindowComplete(Since(snapshot))
  /\ firstReady' = Since(snapshot)
  /\ pc' = "granted"
  /\ UNCHANGED wakeAt

(* Mutation: the deadline is looked at before the window. *)
GiveUpEarly ==
  /\ Judging
  /\ ~Expired(snapshot, now)
  /\ now >= Timeout
  /\ firstReady' = Since(snapshot)
  /\ pc' = "refused"
  /\ UNCHANGED wakeAt

GiveUp ==
  /\ Judging
  /\ ~Expired(snapshot, now)
  /\ ~WindowComplete(Since(snapshot))
  /\ now >= Timeout
  /\ firstReady' = Since(snapshot)
  /\ pc' = "refused"
  /\ UNCHANGED wakeAt

(* Mutation: no deadline for the whole wait. *)
KeepWaitingAlways ==
  /\ Judging
  /\ ~Expired(snapshot, now)
  /\ ~WindowComplete(Since(snapshot))
  /\ firstReady' = Since(snapshot)
  /\ wakeAt' = now + PollInterval
  /\ pc' = "asleep"

(* Mutation: an overdue item does not end the wait. *)
KeepWaitingOverdue ==
  /\ Judging
  /\ ~WindowComplete(Since(snapshot))
  /\ now < Timeout
  /\ firstReady' = Since(snapshot)
  /\ wakeAt' = now + PollInterval
  /\ pc' = "asleep"

KeepWaiting ==
  /\ Judging
  /\ ~Expired(snapshot, now)
  /\ ~WindowComplete(Since(snapshot))
  /\ now < Timeout
  /\ firstReady' = Since(snapshot)
  /\ wakeAt' = now + PollInterval
  /\ pc' = "asleep"

Wake ==
  /\ pc = "asleep"
  /\ now >= wakeAt
  /\ pc' = "poll"
  /\ UNCHANGED <<now, snapshot, firstReady, wakeAt, polls>>

Judge == Expire \/ Grant \/ GiveUp \/ KeepWaiting

Step ==
  \/ \E s \in Snapshots : TakeSnapshot(s)
  \/ SnapshotFails
  \/ Judge
  \/ Wake

Next == Tick \/ Step

Spec == Init /\ [][Next]_vars

(* The thread that waits is scheduled and monotonic time passes. *)
FairSpec == Spec /\ WF_vars(Step) /\ WF_vars(Tick)
-----------------------------------------------------------------------------
(* The state of one call of wait_for_readiness. *)
Poll == [at : Nat, snapshot : Snapshots]

TypeOK ==
  /\ now \in 0 .. MaxTime
  /\ pc \in {"poll", "judge", "asleep"} \cup Outcomes
  /\ snapshot \in Snapshots \cup {None}
  /\ pc = "judge" => snapshot \in Snapshots
  /\ firstReady \in Nat \cup {None}
  /\ wakeAt \in Nat
  /\ polls \in Seq(Poll)

(* Every poll from number i on found the whole graph ready, and poll i was *)
(* the first of them: the window cannot be extended to the left.           *)
ReadyRun(i) ==
  /\ \A j \in i .. Len(polls) : Ready(polls[j].snapshot)
  /\ i > 1 => ~Ready(polls[i - 1].snapshot)

(* While the wait goes on, first_ready_at_ns is when the current run of    *)
(* ready polls began (an expired item raises before it is updated).        *)
WindowTracked ==
  pc # "refused" /\ firstReady # None =>
    \E i \in 1 .. Len(polls) : polls[i].at = firstReady /\ ReadyRun(i)

(* Readiness is granted only for an unbroken run of ready polls that lasts *)
(* for every requested window, the graph's and each lifecycle node's; one  *)
(* unready poll in between starts the window anew (wait_for_readiness).    *)
GrantedAfterWindow ==
  pc = "granted" =>
    \E i \in 1 .. Len(polls) :
      /\ ReadyRun(i)
      /\ LongEnough(polls[Len(polls)].at - polls[i].at)

(* The converse: a wait that ends by a timeout, of an item or of the whole *)
(* graph, did not have a complete window in its hands, not even when the   *)
(* window completes at the poll that reaches the deadline.                 *)
NoCompleteWindowRefused ==
  pc = "refused" =>
    \A i \in 1 .. Len(polls) :
      ReadyRun(i) => ~LongEnough(polls[Len(polls)].at - polls[i].at)

(* Past an item's own deadline no lapse is forgiven: a wait that goes on   *)
(* or succeeds has never judged a snapshot where an overdue topic was      *)
(* silent or an overdue node was not in its required state.                *)
OverdueNeverForgiven ==
  pc \in {"poll", "judge", "asleep", "granted"} =>
    \A i \in 1 .. Len(polls) : ~Expired(polls[i].snapshot, polls[i].at)

(* The wait ends, however the graph flaps: graph_ready_sec bounds it. *)
WaitEnds == <>(pc \in Outcomes)
=============================================================================
