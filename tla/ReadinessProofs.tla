--------------------------- MODULE ReadinessProofs ---------------------------
(***************************************************************************)
(* Proofs about Readiness, for every expected graph, every set of          *)
(* snapshots an observer may report and every choice of the times.         *)
(***************************************************************************)
EXTENDS Readiness, TLAPS

(* While the wait goes on without a window, its last poll was not ready.   *)
NoWindowNotReady ==
  pc # "refused" /\ firstReady = None =>
    (polls # << >> => ~Ready(polls[Len(polls)].snapshot))

(* The inductive invariant.  WindowTracked and NoWindowNotReady say what   *)
(* firstReady knows about the past; without them nothing in the state says *)
(* that the window is as long as the run of ready polls, and neither       *)
(* outcome property is inductive.                                          *)
WindowInv ==
  /\ TypeOK
  /\ WindowTracked
  /\ NoWindowNotReady
  /\ GrantedAfterWindow
  /\ NoCompleteWindowRefused

-----------------------------------------------------------------------------
(* Facts about the operators.                                              *)

(* An expired item is an unready one: what overdue means, evaluate_graph   *)
(* reports as an issue as well.                                            *)
LEMMA ExpiredNotReady ==
  ASSUME NEW s, NEW elapsed, Expired(s, elapsed)
  PROVE  ~Ready(s)
BY DEF Expired, Ready, TopicReady

(* There is at most one way to start the current run of ready polls.       *)
LEMMA ReadyRunUnique ==
  ASSUME NEW ps \in Seq(Poll),
         NEW i \in 1 .. Len(ps),
         \A j \in i .. Len(ps) : Ready(ps[j].snapshot),
         i > 1 => ~Ready(ps[i - 1].snapshot),
         NEW k \in 1 .. Len(ps),
         \A j \in k .. Len(ps) : Ready(ps[j].snapshot),
         k > 1 => ~Ready(ps[k - 1].snapshot)
  PROVE  i = k
<1>1. Len(ps) \in Nat
  OBVIOUS
<1>2. ASSUME i < k PROVE FALSE
  <2>1. k - 1 \in i .. Len(ps) /\ k > 1
    BY <1>1, <1>2
  <2> QED
    BY <2>1
<1>3. ASSUME k < i PROVE FALSE
  <2>1. i - 1 \in k .. Len(ps) /\ i > 1
    BY <1>1, <1>3
  <2> QED
    BY <2>1
<1> QED
  BY <1>1, <1>2, <1>3

-----------------------------------------------------------------------------
(* Every variable keeps its shape: TypeOK is inductive on its own.         *)
LEMMA TypeStep ==
  ASSUME TypeOK, [Next]_vars
  PROVE  TypeOK'
<1> USE ReadinessTimesAssumption DEF TypeOK, Outcomes, Poll
<1>1. CASE Tick
  BY <1>1 DEF Tick
<1>2. CASE \E s \in Snapshots : TakeSnapshot(s)
  BY <1>2 DEF TakeSnapshot
<1>3. CASE SnapshotFails
  BY <1>3 DEF SnapshotFails
<1>4. CASE Judge
  <2>1. Judging
    BY <1>4 DEF Judge, Expire, Grant, GiveUp, KeepWaiting
  <2>2. polls' \in Seq(Poll)
    BY <2>1 DEF Judging
  <2>3. Since(snapshot) \in Nat \cup {None}
    BY DEF Since
  <2>4. firstReady' \in {firstReady, Since(snapshot)}
    BY <1>4 DEF Judge, Expire, Grant, GiveUp, KeepWaiting
  <2>5. wakeAt' \in Nat /\ pc' \in {"refused", "granted", "asleep"}
    BY <1>4 DEF Judge, Expire, Grant, GiveUp, KeepWaiting
  <2> QED
    BY <2>1, <2>2, <2>3, <2>4, <2>5 DEF Judging
<1>5. CASE Wake
  BY <1>5 DEF Wake
<1>6. CASE UNCHANGED vars
  BY <1>6 DEF vars
<1> QED
  BY <1>1, <1>2, <1>3, <1>4, <1>5, <1>6 DEF Next, Step

(* The type invariant of the wait.                                         *)
THEOREM Typing == Spec => []TypeOK
<1>1. Init => TypeOK
  BY ReadinessTimesAssumption DEF Init, TypeOK, Poll
<1> QED
  BY <1>1, TypeStep, PTL DEF Spec

-----------------------------------------------------------------------------
(* What one judgement does to the run of ready polls: the window it        *)
(* computes (Since) is exactly the new run, and there is no run without    *)
(* one.                                                                    *)
LEMMA SinceIsTheRun ==
  ASSUME TypeOK, WindowTracked, NoWindowNotReady, Judging
  PROVE  /\ Since(snapshot) # None =>
              \E i \in 1 .. Len(polls') : polls'[i].at = Since(snapshot) /\ ReadyRun(i)'
         /\ Since(snapshot) = None =>
              ~Ready(polls'[Len(polls')].snapshot)
         /\ polls' # << >> /\ Len(polls') \in 1 .. Len(polls')
         /\ polls'[Len(polls')] = [at |-> now, snapshot |-> snapshot]
<1> DEFINE p == [at |-> now, snapshot |-> snapshot]
<1>0. PICK n \in Nat : n = Len(polls)
  BY DEF TypeOK
<1>1. /\ polls \in Seq(Poll)
      /\ polls' = Append(polls, p) /\ p \in Poll
      /\ pc = "judge" /\ now \in Nat
  BY ReadinessTimesAssumption DEF TypeOK, Judging, Poll
<1>2. /\ Len(polls') = n + 1 /\ polls'[n + 1] = p
      /\ \A j \in 1 .. n : polls'[j] = polls[j]
  BY <1>0, <1>1
<1>3. CASE ~Ready(snapshot)
  BY <1>1, <1>2, <1>3, NoneAssumption DEF Since
<1>4. CASE Ready(snapshot) /\ firstReady = None
  <2>1. n > 0 => ~Ready(polls[n].snapshot)
    BY <1>0, <1>1, <1>4 DEF NoWindowNotReady
  <2>2. ReadyRun(n + 1)'
    BY <1>1, <1>2, <1>4, <2>1 DEF ReadyRun
  <2> QED
    BY <1>1, <1>2, <1>4, <2>2, NoneAssumption DEF Since
<1>5. CASE Ready(snapshot) /\ firstReady # None
  <2>1. PICK i \in 1 .. n : polls[i].at = firstReady /\ ReadyRun(i)
    BY <1>0, <1>1, <1>5 DEF WindowTracked
  <2>2. ReadyRun(i)'
    BY <1>1, <1>2, <1>5, <2>1 DEF ReadyRun
  <2> QED
    BY <1>1, <1>2, <1>5, <2>1, <2>2, NoneAssumption DEF Since
<1> QED
  BY <1>3, <1>4, <1>5

(* The invariant is inductive. *)
LEMMA WindowStep ==
  ASSUME WindowInv, [Next]_vars
  PROVE  WindowInv'
<1> USE DEF WindowInv
<1>1. TypeOK'
  BY TypeStep
<1>2. CASE Judge
  <2>1. Judging
    BY <1>2 DEF Judge, Expire, Grant, GiveUp, KeepWaiting
  <2>2. /\ polls' \in Seq(Poll) /\ now' = now /\ pc = "judge"
    BY <1>1, <2>1 DEF TypeOK, Judging
  <2>3. CASE Expire
    <3>1. pc' = "refused" /\ ~Ready(snapshot)
      BY <2>3, ExpiredNotReady DEF Expire
    <3>2. \A i \in 1 .. Len(polls') : ~ReadyRun(i)'
      BY <2>1, <2>2, <3>1, SinceIsTheRun DEF ReadyRun
    <3> QED
      BY <1>1, <3>1, <3>2
        DEF WindowTracked, NoWindowNotReady, GrantedAfterWindow, NoCompleteWindowRefused
  <2>4. CASE Grant
    <3>1. /\ pc' = "granted" /\ firstReady' = Since(snapshot)
          /\ Since(snapshot) # None /\ LongEnough(now - Since(snapshot))
      BY <2>4 DEF Grant, WindowComplete
    <3> QED
      BY <1>1, <2>1, <3>1, SinceIsTheRun
        DEF WindowTracked, NoWindowNotReady, GrantedAfterWindow, NoCompleteWindowRefused
  <2>5. CASE GiveUp
    <3>1. /\ pc' = "refused" /\ firstReady' = Since(snapshot)
          /\ Since(snapshot) # None => ~LongEnough(now - Since(snapshot))
      BY <2>5 DEF GiveUp, WindowComplete
    <3>2. ASSUME NEW i \in 1 .. Len(polls'), ReadyRun(i)'
          PROVE  ~LongEnough(polls'[Len(polls')].at - polls'[i].at)
      <4>1. Ready(polls'[Len(polls')].snapshot)
        BY <2>2, <3>2 DEF ReadyRun
      <4>2. PICK k \in 1 .. Len(polls') : polls'[k].at = Since(snapshot) /\ ReadyRun(k)'
        BY <2>1, <4>1, SinceIsTheRun
      <4>3. i = k
        BY <2>2, <3>2, <4>2, ReadyRunUnique DEF ReadyRun
      <4> QED
        BY <2>1, <3>1, <4>1, <4>2, <4>3, SinceIsTheRun
    <3> QED
      BY <1>1, <3>1, <3>2
        DEF WindowTracked, NoWindowNotReady, GrantedAfterWindow, NoCompleteWindowRefused
  <2>6. CASE KeepWaiting
    <3>1. pc' = "asleep" /\ firstReady' = Since(snapshot)
      BY <2>6 DEF KeepWaiting
    <3> QED
      BY <1>1, <2>1, <3>1, SinceIsTheRun
        DEF WindowTracked, NoWindowNotReady, GrantedAfterWindow, NoCompleteWindowRefused
  <2> QED
    BY <1>2, <2>3, <2>4, <2>5, <2>6 DEF Judge
<1>3. ASSUME UNCHANGED <<polls, firstReady>>,
             pc' = pc \/ (pc' \notin {"granted", "refused"} /\ pc \notin Outcomes)
      PROVE  WindowInv'
  BY <1>1, <1>3 DEF WindowTracked, NoWindowNotReady, GrantedAfterWindow,
                    NoCompleteWindowRefused, ReadyRun, Outcomes
<1>4. CASE Tick \/ (\E s \in Snapshots : TakeSnapshot(s)) \/ SnapshotFails \/ Wake
           \/ UNCHANGED vars
  <2>1. /\ UNCHANGED <<polls, firstReady>>
        /\ pc' = pc \/ (pc' \notin {"granted", "refused"} /\ pc \notin Outcomes)
    BY <1>4 DEF Tick, TakeSnapshot, SnapshotFails, Wake, vars, Outcomes
  <2> QED
    BY <1>3, <2>1
<1> QED
  BY <1>2, <1>4 DEF Next, Step

LEMMA WindowInvariant == Spec => []WindowInv
<1>1. Init => WindowInv
  BY ReadinessTimesAssumption
    DEF Init, WindowInv, TypeOK, Poll, WindowTracked, NoWindowNotReady,
        GrantedAfterWindow, NoCompleteWindowRefused
<1> QED
  BY <1>1, WindowStep, PTL DEF Spec

(* Readiness is granted only after an unbroken run of ready polls that     *)
(* lasted for every requested window, whatever the observer reports.       *)
THEOREM GrantNeedsWindow == Spec => []GrantedAfterWindow
<1>1. WindowInv => GrantedAfterWindow
  BY DEF WindowInv
<1> QED
  BY <1>1, WindowInvariant, PTL

(* No wait with a complete window in its hands ends in a timeout.          *)
THEOREM WindowNotRefused == Spec => []NoCompleteWindowRefused
<1>1. WindowInv => NoCompleteWindowRefused
  BY DEF WindowInv
<1> QED
  BY <1>1, WindowInvariant, PTL

-----------------------------------------------------------------------------
(* Past its own deadline no lapse of an item is forgiven.                  *)
THEOREM OverdueEndsTheWait == Spec => []OverdueNeverForgiven
<1> DEFINE Inv == TypeOK /\ OverdueNeverForgiven
<1>1. Init => Inv
  BY ReadinessTimesAssumption DEF Init, TypeOK, Poll, OverdueNeverForgiven
<1>2. ASSUME Inv, [Next]_vars PROVE Inv'
  <2>1. TypeOK'
    BY <1>2, TypeStep
  <2>2. CASE Expire
    BY <2>1, <2>2 DEF Expire, OverdueNeverForgiven
  <2>3. CASE Grant \/ GiveUp \/ KeepWaiting
    <3>1. /\ pc = "judge" /\ ~Expired(snapshot, now)
          /\ polls' = Append(polls, [at |-> now, snapshot |-> snapshot])
      BY <2>3 DEF Grant, GiveUp, KeepWaiting, Judging
    <3>2. \A i \in 1 .. Len(polls) : ~Expired(polls[i].snapshot, polls[i].at)
      BY <1>2, <3>1 DEF OverdueNeverForgiven
    <3>3. polls \in Seq(Poll)
      BY <1>2 DEF TypeOK
    <3>4. \A i \in 1 .. Len(polls') : ~Expired(polls'[i].snapshot, polls'[i].at)
      BY <3>1, <3>2, <3>3
    <3> QED
      BY <2>1, <3>4 DEF OverdueNeverForgiven
  <2>4. CASE Tick \/ (\E s \in Snapshots : TakeSnapshot(s)) \/ SnapshotFails \/ Wake
             \/ UNCHANGED vars
    BY <1>2, <2>1, <2>4
      DEF Tick, TakeSnapshot, SnapshotFails, Wake, vars, OverdueNeverForgiven
  <2> QED
    BY <1>2, <2>2, <2>3, <2>4 DEF Next, Step, Judge
<1> QED
  BY <1>1, <1>2, PTL DEF Spec
=============================================================================
