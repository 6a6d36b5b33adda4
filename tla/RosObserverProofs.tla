----------------------- MODULE RosObserverProofs -----------------------
(***************************************************************************)
(* Proofs about RosObserver, any topics, nodes and source times, any size  *)
(* of the sample buffer; about Attach, the wait for readiness on it; and   *)
(* about Timing, what a time policy passed on its samples says.            *)
(***************************************************************************)
EXTENDS Attach, Timing, FiniteSetTheorems, SequenceTheorems, TLAPS

(* The callback between its time stamp and the lock is the latest thing    *)
(* that happened to the clock; once a sample is there, it began after the  *)
(* window did.                                                             *)
StampIsLatest ==
  /\ windowStart <= now
  /\ stamp # None => stamp.at <= now
  /\ \A i \in 1 .. Len(samples) :
       samples[i].at <= now /\ (stamp # None => samples[i].at <= stamp.at)
  /\ record /\ samples # << >> /\ stamp # None => stamp.at >= windowStart

(* Unless the buffer overflowed, every source time heard has its sample.   *)
NothingLost == ~overflow => Sources(samples) = Sources(heard)

(* close returns only when the spin thread is gone.                        *)
ThreadJoined == state = "closed" => executor \in {"stopped", "crashed"} /\ stamp = None

ClockInv == StampIsLatest /\ SamplesInOrder /\ AtMostOneEarlySample

-----------------------------------------------------------------------------
(* What a step does to the clock: nothing but time, a message stamped, a   *)
(* message recorded, a window opened or a window closed.                   *)
ClockLeft ==
  /\ UNCHANGED <<stamp, samples, overflow, record, heard, windowStart>>
  /\ now' = now \/ (now < MaxTime /\ now' = now + 1)

ClockStamped ==
  /\ stamp = None /\ Len(heard) < MaxHeard
  /\ \E source \in SourceTimes : stamp' = [at |-> now, source |-> source]
  /\ UNCHANGED <<samples, overflow, record, heard, windowStart, now>>

ClockStopped ==
  /\ record' = FALSE
  /\ UNCHANGED <<stamp, samples, overflow, heard, windowStart, now>>

ClockStep ==
  \/ ClockLeft
  \/ ClockStamped
  \/ ClockRecorded
  \/ StartClockObservation
  \/ ClockStopped

LEMMA StepIsClockStep ==
  ASSUME [Next]_vars
  PROVE  ClockStep
<1> USE DEF ClockStep, ClockLeft
<1>1. CASE Tick
  BY <1>1 DEF Tick, clock
<1>2. CASE DomainChanges \/ \E n \in Nodes : NodeReplies(n)
  BY <1>2 DEF DomainChanges, NodeReplies, clock
<1>3. CASE SpinThread
  <2>1. ASSUME NEW n \in Nodes, AnswerArrives(n) \/ CallFails(n) PROVE ClockStep
    BY <2>1 DEF AnswerArrives, CallFails, clock
  <2>2. ASSUME NEW t \in Topics, MessageArrives(t) PROVE ClockStep
    BY <2>2 DEF MessageArrives, clock
  <2>3. ASSUME NEW source \in SourceTimes, ClockArrives(source) PROVE ClockStep
    BY <2>3 DEF ClockArrives, Idle, ClockStamped
  <2>4. ASSUME SpinCrashes \/ SpinEnds PROVE ClockStep
    BY <2>4 DEF SpinCrashes, SpinEnds, clock
  <2> QED
    BY <1>3, <2>1, <2>2, <2>3, <2>4 DEF SpinThread
<1>4. CASE Caller
  <2>1. ASSUME BeginSnapshot \/ FinishSnapshot PROVE ClockStep
    BY <2>1 DEF BeginSnapshot, FinishSnapshot, clock
  <2>2. ASSUME StopClockObservation PROVE ClockStep
    BY <2>2 DEF StopClockObservation, ClockStopped
  <2>3. ASSUME CloseTimesOut \/ CloseSucceeds PROVE ClockStep
    BY <2>3 DEF CloseTimesOut, CloseSucceeds, clock
  <2> QED
    BY <1>4, <2>1, <2>2, <2>3 DEF Caller
<1>5. CASE UNCHANGED vars
  BY <1>5 DEF vars, clock
<1> QED
  BY <1>1, <1>2, <1>3, <1>4, <1>5 DEF Next

-----------------------------------------------------------------------------
(* The types of the clock and of the rest, apart.                          *)
ClockTyped ==
  /\ now \in 0 .. MaxTime /\ windowStart \in 0 .. MaxTime
  /\ stamp \in Sample \cup {None}
  /\ samples \in Seq(Sample) /\ Len(samples) <= MaxSamples
  /\ heard \in Seq(Sample) /\ Len(heard) <= MaxHeard

FlagsTyped == record \in BOOLEAN /\ overflow \in BOOLEAN

DomainTyped ==
  /\ publishing \subseteq Topics /\ serving \subseteq Nodes
  /\ actual \in [Nodes -> States]
  /\ reply \in [Nodes -> Answer \cup {None}]

ObserverTyped ==
  /\ state \in {"open", "closing", "closed"}
  /\ executor \in {"spinning", "stopping", "stopped", "crashed"}
  /\ first \in [Topics \cup {"/clock"} -> 0 .. MaxTime \cup {None}]
  /\ future \in [Nodes -> {"none", "pending", "done", "error"}]
  /\ answer \in [Nodes -> Answer \cup {None}]
  /\ observation \in [Nodes -> Answer \cup {None}]

(* A callback under way has room in the history of the window.             *)
RoomForStamp == stamp # None => Len(heard) < MaxHeard

LEMMA TypedInParts == TypeOK <=> ClockTyped /\ FlagsTyped /\ DomainTyped /\ ObserverTyped
BY DEF TypeOK, ClockTyped, FlagsTyped, DomainTyped, ObserverTyped

LEMMA InitTyped == Init => TypeOK /\ RoomForStamp
<1> SUFFICES ASSUME Init PROVE TypeOK /\ RoomForStamp
  OBVIOUS
<1>1. ClockTyped /\ RoomForStamp
  <2>1. << >> \in Seq(Sample) /\ Len(<< >>) = 0
    OBVIOUS
  <2> QED
    BY <2>1, RosAssumption DEF Init, ClockTyped, RoomForStamp
<1>2. DomainTyped /\ ObserverTyped
  BY RosAssumption DEF Init, DomainTyped, ObserverTyped
<1>3. FlagsTyped
  BY DEF Init, FlagsTyped
<1> QED
  BY <1>1, <1>2, <1>3, TypedInParts

LEMMA ClockKeepsTypes ==
  ASSUME ClockTyped, RoomForStamp, ClockStep
  PROVE  ClockTyped' /\ RoomForStamp'
<1> USE RosAssumption DEF ClockTyped, RoomForStamp
<1>1. CASE ClockLeft
  BY <1>1 DEF ClockLeft
<1>2. CASE ClockStamped
  BY <1>2 DEF ClockStamped, Sample
<1>3. CASE ClockRecorded
  <2>1. stamp \in Sample /\ Len(heard) < MaxHeard
    BY <1>3 DEF ClockRecorded
  <2>2. heard' \in Seq(Sample) /\ Len(heard') <= MaxHeard
    <3>1. Append(heard, stamp) \in Seq(Sample) /\ Len(Append(heard, stamp)) = Len(heard) + 1
      BY <2>1
    <3>2. heard' = heard \/ heard' = Append(heard, stamp)
      BY <1>3 DEF ClockRecorded
    <3> QED
      BY <2>1, <3>1, <3>2
  <2>3. samples' \in Seq(Sample) /\ Len(samples') <= MaxSamples
    <3>1. Append(samples, stamp) \in Seq(Sample) /\ Len(Append(samples, stamp)) = Len(samples) + 1
      BY <2>1
    <3>2. \/ samples' = samples
          \/ Len(samples) < MaxSamples /\ samples' = Append(samples, stamp)
      BY <1>3 DEF ClockRecorded
    <3> QED
      BY <3>1, <3>2
  <2>4. UNCHANGED <<now, windowStart>> /\ stamp' = None
    BY <1>3 DEF ClockRecorded
  <2> QED
    BY <2>2, <2>3, <2>4
<1>4. CASE StartClockObservation
  <2>1. /\ samples' = << >> /\ heard' = << >>
        /\ windowStart' = now /\ now' = now /\ stamp' = stamp
    BY <1>4 DEF StartClockObservation
  <2>2. << >> \in Seq(Sample) /\ Len(<< >>) = 0
    OBVIOUS
  <2> QED
    BY <2>1, <2>2
<1>5. CASE ClockStopped
  <2>1. UNCHANGED <<stamp, samples, heard, windowStart, now>>
    BY <1>5 DEF ClockStopped
  <2> QED
    BY <2>1
<1> QED
  BY <1>1, <1>2, <1>3, <1>4, <1>5, Zenon DEF ClockStep

LEMMA FlagsKeepTypes ==
  ASSUME FlagsTyped, ClockStep
  PROVE  FlagsTyped'
<1>1. CASE ClockRecorded
  <2>1. overflow' \in BOOLEAN
    BY <1>1, Zenon DEF ClockRecorded
  <2>2. record' = record
    BY <1>1, Zenon DEF ClockRecorded
  <2> QED
    BY <2>1, <2>2, Zenon DEF FlagsTyped
<1>2. CASE StartClockObservation
  BY <1>2, Zenon DEF StartClockObservation, FlagsTyped
<1>3. CASE ClockLeft \/ ClockStamped
  BY <1>3 DEF ClockLeft, ClockStamped, FlagsTyped
<1>4. CASE ClockStopped
  <2>1. record' = FALSE
    BY <1>4, Zenon DEF ClockStopped
  <2>2. overflow' = overflow
    BY <1>4 DEF ClockStopped
  <2> QED
    BY <2>1, <2>2, Zenon DEF FlagsTyped
<1> QED
  BY <1>1, <1>2, <1>3, <1>4, Zenon DEF ClockStep

LEMMA DomainKeepsTypes ==
  ASSUME TypeOK, [Next]_vars
  PROVE  DomainTyped'
<1> USE DEF DomainTyped
<1>0. DomainTyped /\ now \in 0 .. MaxTime
  BY TypedInParts DEF ClockTyped
<1>1. CASE DomainChanges
  BY <1>0, <1>1 DEF DomainChanges
<1>2. ASSUME NEW n \in Nodes, NodeReplies(n) PROVE DomainTyped'
  <2>1. [state |-> actual[n], at |-> now] \in Answer
    BY <1>0 DEF Answer
  <2> QED
    BY <1>0, <1>2, <2>1 DEF NodeReplies
<1>3. ASSUME NEW n \in Nodes, AnswerArrives(n) \/ CallFails(n) PROVE DomainTyped'
  BY <1>0, <1>3 DEF AnswerArrives, CallFails
<1>4. CASE UNCHANGED domain
  BY <1>0, <1>4 DEF domain
<1>5. \/ DomainChanges \/ UNCHANGED domain
      \/ \E n \in Nodes : NodeReplies(n) \/ AnswerArrives(n) \/ CallFails(n)
  BY DEF Next, SpinThread, Caller, vars, Tick, MessageArrives,
         ClockArrives, ClockRecorded, SpinCrashes, SpinEnds, BeginSnapshot, FinishSnapshot,
         StartClockObservation, StopClockObservation, CloseTimesOut, CloseSucceeds
<1> QED
  BY <1>1, <1>2, <1>3, <1>4, <1>5

LEMMA ObserverKeepsTypes ==
  ASSUME TypeOK, [Next]_vars
  PROVE  ObserverTyped'
<1> USE DEF ObserverTyped
<1>0. ObserverTyped /\ ClockTyped /\ DomainTyped /\ FlagsTyped
  BY TypedInParts
<1>1. CASE Tick \/ DomainChanges \/ \E n \in Nodes : NodeReplies(n)
  BY <1>0, <1>1 DEF Tick, DomainChanges, NodeReplies, tracker
<1>2. CASE SpinThread
  <2>1. ASSUME NEW n \in Nodes, AnswerArrives(n) PROVE ObserverTyped'
    BY <1>0, <2>1 DEF AnswerArrives, DomainTyped
  <2>2. ASSUME NEW n \in Nodes, CallFails(n) PROVE ObserverTyped'
    BY <1>0, <2>2 DEF CallFails
  <2>3. ASSUME NEW t \in Topics, MessageArrives(t) PROVE ObserverTyped'
    BY <1>0, <2>3 DEF MessageArrives, ClockTyped, tracker
  <2>4. ASSUME NEW source \in SourceTimes, ClockArrives(source) PROVE ObserverTyped'
    BY <1>0, <2>4 DEF ClockArrives, tracker
  <2>5. CASE ClockRecorded
    <3>1. stamp.at \in 0 .. MaxTime
      BY <1>0, <2>5 DEF ClockRecorded, ClockTyped, Sample
    <3> QED
      BY <1>0, <2>5, <3>1 DEF ClockRecorded, tracker
  <2>6. CASE SpinCrashes \/ SpinEnds
    BY <1>0, <2>6 DEF SpinCrashes, SpinEnds, tracker
  <2> QED
    BY <1>2, <2>1, <2>2, <2>3, <2>4, <2>5, <2>6 DEF SpinThread
<1>3. CASE Caller
  <2>1. CASE BeginSnapshot
    <3>1. \A n \in Nodes : Observed(n) \in Answer \cup {None}
      BY <1>0 DEF Observed
    <3>2. \A n \in Nodes : Polled(n) \in {"none", "pending", "done", "error"}
      BY <1>0 DEF Polled
    <3> QED
      BY <1>0, <2>1, <3>1, <3>2 DEF BeginSnapshot
  <2>2. CASE FinishSnapshot
    BY <1>0, <2>2 DEF FinishSnapshot, tracker
  <2>3. CASE StartClockObservation \/ StopClockObservation
    BY <1>0, <2>3 DEF StartClockObservation, StopClockObservation, tracker
  <2>4. CASE CloseTimesOut \/ CloseSucceeds
    BY <1>0, <2>4 DEF CloseTimesOut, CloseSucceeds, tracker
  <2> QED
    BY <1>3, <2>1, <2>2, <2>3, <2>4 DEF Caller
<1>4. CASE UNCHANGED vars
  BY <1>0, <1>4 DEF vars, tracker
<1> QED
  BY <1>1, <1>2, <1>3, <1>4 DEF Next

LEMMA Typed == Spec => [](TypeOK /\ RoomForStamp)
<1>1. TypeOK /\ RoomForStamp /\ [Next]_vars => (TypeOK /\ RoomForStamp)'
  <2> SUFFICES ASSUME TypeOK, RoomForStamp, [Next]_vars PROVE TypeOK' /\ RoomForStamp'
    OBVIOUS
  <2>1. ClockTyped' /\ RoomForStamp'
    BY StepIsClockStep, ClockKeepsTypes, TypedInParts
  <2>2. DomainTyped' /\ ObserverTyped'
    BY DomainKeepsTypes, ObserverKeepsTypes, TypedInParts
  <2>3. FlagsTyped'
    BY StepIsClockStep, FlagsKeepTypes, TypedInParts
  <2> QED
    BY <2>1, <2>2, <2>3 DEF TypeOK, ClockTyped, FlagsTyped, DomainTyped, ObserverTyped
<1> QED
  BY <1>1, InitTyped, PTL DEF Spec

(* Whatever arrives, is answered or is closed in whatever order, what the  *)
(* observer keeps stays well formed, and within its limits.                *)
THEOREM Typing == Spec => []TypeOK
<1>1. TypeOK /\ RoomForStamp => TypeOK
  OBVIOUS
<1> QED
  BY <1>1, Typed, PTL

-----------------------------------------------------------------------------
LEMMA SampleTimes ==
  ASSUME ClockTyped
  PROVE  /\ \A i \in 1 .. Len(samples) : samples[i].at \in Int
         /\ stamp # None => stamp.at \in Int
         /\ now \in Int /\ windowStart \in Int /\ Len(samples) \in Nat
<1>1. \A i \in 1 .. Len(samples) : samples[i] \in Sample
  BY DEF ClockTyped
<1>2. \A s \in Sample : s.at \in Int
  BY RosAssumption DEF Sample
<1>3. stamp # None => stamp \in Sample
  BY DEF ClockTyped
<1> QED
  BY <1>1, <1>2, <1>3, RosAssumption DEF ClockTyped

LEMMA InitOrdered == Init => ClockInv
BY RosAssumption DEF Init, ClockInv, StampIsLatest, SamplesInOrder, AtMostOneEarlySample

(* Recording a message: it is appended after everything that is there, and *)
(* it began in the window unless it is the first.                          *)
LEMMA RecordingKeepsOrder ==
  ASSUME ClockTyped, ClockInv, ClockRecorded
  PROVE  ClockInv'
<1> USE SampleTimes DEF ClockInv, StampIsLatest
<1>1. /\ stamp # None /\ stamp' = None
      /\ UNCHANGED <<now, record, windowStart>>
      /\ \/ samples' = samples
         \/ record /\ Changed(stamp.source) /\ samples' = Append(samples, stamp)
  BY DEF ClockRecorded
<1>2. CASE samples' = samples
  BY <1>1, <1>2 DEF SamplesInOrder, AtMostOneEarlySample
<1>3. CASE record /\ Changed(stamp.source) /\ samples' = Append(samples, stamp)
  <2>1. stamp \in Sample
    BY <1>1 DEF ClockTyped
  <2>2. /\ Len(samples') = Len(samples) + 1
        /\ \A i \in 1 .. Len(samples) : samples'[i] = samples[i]
        /\ samples'[Len(samples) + 1] = stamp
        /\ Len(samples) \in Nat
    BY <1>3, <2>1 DEF ClockTyped
  <2>3. \A i \in 1 .. Len(samples') : samples'[i].at <= now
    BY <1>1, <2>1, <2>2
  <2>4. SamplesInOrder'
    <3> SUFFICES ASSUME NEW i \in 1 .. Len(samples') - 1
                 PROVE  /\ samples'[i].at <= samples'[i + 1].at
                        /\ samples'[i].source # samples'[i + 1].source
      BY DEF SamplesInOrder
    <3>1. CASE i + 1 <= Len(samples)
      <4>1. i \in 1 .. Len(samples) - 1 /\ i + 1 \in 1 .. Len(samples)
        BY <2>2, <3>1
      <4>2. samples'[i] = samples[i] /\ samples'[i + 1] = samples[i + 1]
        BY <2>2, <4>1
      <4> QED
        BY <4>1, <4>2 DEF SamplesInOrder
    <3>2. CASE i = Len(samples)
      <4>1. samples # << >> /\ samples[Len(samples)].source # stamp.source
        BY <1>3, <3>2 DEF Changed
      <4> QED
        BY <1>1, <2>2, <3>2, <4>1
    <3> QED
      BY <2>2, <3>1, <3>2
  <2>5. AtMostOneEarlySample'
    <3> SUFFICES ASSUME NEW i \in 2 .. Len(samples')
                 PROVE  samples'[i].at >= windowStart
      BY <1>1 DEF AtMostOneEarlySample
    <3>1. CASE i <= Len(samples)
      BY <1>3, <2>2, <3>1 DEF AtMostOneEarlySample
    <3>2. CASE i = Len(samples) + 1
      BY <1>1, <1>3, <2>1, <2>2, <3>2
    <3> QED
      BY <2>2, <3>1, <3>2
  <2> QED
    BY <1>1, <2>2, <2>3, <2>4, <2>5
<1> QED
  BY <1>1, <1>2, <1>3

LEMMA StepKeepsOrder ==
  ASSUME TypeOK, ClockInv, [Next]_vars
  PROVE  ClockInv'
<1>1. ClockTyped
  BY TypedInParts
<1> USE <1>1, SampleTimes DEF ClockInv, StampIsLatest
<1>2. CASE ClockLeft
  BY <1>2 DEF ClockLeft, SamplesInOrder, AtMostOneEarlySample
<1>3. CASE ClockStamped
  BY <1>3 DEF ClockStamped, SamplesInOrder, AtMostOneEarlySample
<1>4. CASE ClockRecorded
  BY <1>4, RecordingKeepsOrder
<1>5. CASE StartClockObservation
  BY <1>5 DEF StartClockObservation, SamplesInOrder, AtMostOneEarlySample
<1>6. CASE ClockStopped
  <2>1. ~record' /\ UNCHANGED <<stamp, samples, windowStart, now>>
    BY <1>6 DEF ClockStopped
  <2> QED
    BY <2>1 DEF SamplesInOrder, AtMostOneEarlySample
<1> QED
  BY <1>2, <1>3, <1>4, <1>5, <1>6, StepIsClockStep, Zenon DEF ClockStep

LEMMA Ordered == Spec => []ClockInv
<1> QED
  BY InitOrdered, StepKeepsOrder, Typed, PTL DEF Spec

(* The samples of a window come in order of observation and never repeat a *)
(* source time twice in a row, for any buffer and any callback between its *)
(* time stamp and the lock.                                                *)
THEOREM SamplesOrdered == Spec => []SamplesInOrder
<1>1. ClockInv => SamplesInOrder
  BY DEF ClockInv
<1> QED
  BY <1>1, Ordered, PTL

(* At most the first sample of a window was stamped before it opened.      *)
THEOREM OneEarlySample == Spec => []AtMostOneEarlySample
<1>1. ClockInv => AtMostOneEarlySample
  BY DEF ClockInv
<1> QED
  BY <1>1, Ordered, PTL

-----------------------------------------------------------------------------
LEMMA SourcesAppend ==
  ASSUME NEW ss \in Seq(Sample), NEW s \in Sample
  PROVE  Sources(Append(ss, s)) = Sources(ss) \cup {s.source}
<1> DEFINE tt == Append(ss, s)
<1>1. /\ Len(tt) = Len(ss) + 1 /\ Len(ss) \in Nat
      /\ \A i \in 1 .. Len(ss) : tt[i] = ss[i]
      /\ tt[Len(ss) + 1] = s
      /\ DOMAIN tt = 1 .. Len(tt) /\ DOMAIN ss = 1 .. Len(ss)
  OBVIOUS
<1> HIDE DEF tt
<1>2. DOMAIN tt = DOMAIN ss \cup {Len(ss) + 1}
  BY <1>1
<1> QED
  BY <1>1, <1>2 DEF Sources

(* A message that leaves no sample although there is room repeats the      *)
(* source time of the last one.                                            *)
LEMMA RecordingLosesNothing ==
  ASSUME ClockTyped, NothingLost, ClockRecorded
  PROVE  NothingLost'
<1> SUFFICES ASSUME ~overflow' PROVE Sources(samples') = Sources(heard')
  BY DEF NothingLost
<1> DEFINE fresh == record /\ Changed(stamp.source)
           full  == Len(samples) >= MaxSamples
<1>1. ~overflow /\ ~(fresh /\ full)
  BY Zenon DEF ClockRecorded
<1>2. Sources(samples) = Sources(heard)
  BY <1>1 DEF NothingLost
<1>3. stamp \in Sample /\ samples \in Seq(Sample) /\ heard \in Seq(Sample)
  BY DEF ClockRecorded, ClockTyped
<1>4. /\ heard' = IF record THEN Append(heard, stamp) ELSE heard
      /\ samples' = IF fresh /\ ~full THEN Append(samples, stamp) ELSE samples
  BY Zenon DEF ClockRecorded
<1>5. CASE ~record
  BY <1>2, <1>4, <1>5, Zenon
<1>6. CASE fresh
  <2>1. samples' = Append(samples, stamp) /\ heard' = Append(heard, stamp)
    BY <1>1, <1>4, <1>6, Zenon
  <2> QED
    BY <1>2, <1>3, <2>1, SourcesAppend
<1>7. CASE record /\ ~Changed(stamp.source)
  <2>1. samples' = samples /\ heard' = Append(heard, stamp)
    BY <1>4, <1>7, Zenon
  <2>2. stamp.source \in Sources(samples)
    BY <1>3, <1>7 DEF Changed, Sources
  <2>3. Sources(heard') = Sources(heard) \cup {stamp.source}
    BY <1>3, <2>1, SourcesAppend
  <2> QED
    BY <1>2, <2>1, <2>2, <2>3
<1> QED
  BY <1>5, <1>6, <1>7, Zenon

LEMMA StepLosesNothing ==
  ASSUME TypeOK, NothingLost, [Next]_vars
  PROVE  NothingLost'
<1>1. CASE ClockLeft \/ ClockStamped
  BY <1>1 DEF ClockLeft, ClockStamped, NothingLost, Sources
<1>2. CASE ClockRecorded
  BY <1>2, RecordingLosesNothing, TypedInParts
<1>3. CASE StartClockObservation
  <2>1. samples' = << >> /\ heard' = << >>
    BY <1>3 DEF StartClockObservation
  <2> QED
    BY <2>1, Zenon DEF NothingLost
<1>4. CASE ClockStopped
  <2>1. UNCHANGED <<samples, overflow, heard>>
    BY <1>4 DEF ClockStopped
  <2> QED
    BY <2>1 DEF NothingLost, Sources
<1> QED
  BY <1>1, <1>2, <1>3, <1>4, StepIsClockStep, Zenon DEF ClockStep

(* stop_clock_observation is the only step that returns anything.          *)
LEMMA OnlyStopReturns ==
  ASSUME [Next]_vars, returned' \notin {None, returned}
  PROVE  StopClockObservation
<1>1. ASSUME Tick \/ DomainChanges \/ \E n \in Nodes : NodeReplies(n)
      PROVE  returned' = returned
  BY <1>1 DEF Tick, DomainChanges, NodeReplies, clock
<1>2. ASSUME SpinThread PROVE returned' = returned
  BY <1>2 DEF SpinThread, AnswerArrives, CallFails, MessageArrives, ClockArrives, ClockRecorded,
              SpinCrashes, SpinEnds, clock
<1>3. ASSUME StartClockObservation PROVE returned' = None
  BY <1>3 DEF StartClockObservation
<1>4. ASSUME BeginSnapshot \/ FinishSnapshot \/ CloseTimesOut \/ CloseSucceeds
      PROVE  returned' = returned
  BY <1>4 DEF BeginSnapshot, FinishSnapshot, CloseTimesOut, CloseSucceeds, clock
<1>5. ASSUME UNCHANGED vars PROVE returned' = returned
  BY <1>5 DEF vars, clock
<1> QED
  BY <1>1, <1>2, <1>3, <1>4, <1>5 DEF Next, Caller

(* Nothing heard while recording is lost without an error, however small   *)
(* the buffer and whatever is delivered.                                   *)
THEOREM LossReported == Spec => LossIsReported
<1>1. Init => NothingLost
  BY DEF Init, NothingLost, Sources
<1>2. Spec => []NothingLost
  BY <1>1, StepLosesNothing, Typed, PTL DEF Spec
<1>3. NothingLost /\ [Next]_vars =>
        [returned' \notin {None, returned} /\ returned'.complete =>
           Sources(returned'.samples) = Sources(heard)]_vars
  <2> SUFFICES ASSUME NothingLost, [Next]_vars,
                      returned' \notin {None, returned}, returned'.complete
               PROVE  Sources(returned'.samples) = Sources(heard)
    OBVIOUS
  <2>1. returned' = [complete |-> ~overflow, samples |-> samples]
    BY OnlyStopReturns DEF StopClockObservation
  <2>2. returned'.samples = samples
    BY <2>1
  <2>3. ~overflow
    BY <2>1
  <2> QED
    BY <2>2, <2>3 DEF NothingLost
<1> QED
  BY <1>2, <1>3, PTL DEF Spec, LossIsReported

-----------------------------------------------------------------------------
LEMMA StepKeepsJoined ==
  ASSUME ThreadJoined, [Next]_vars
  PROVE  ThreadJoined'
<1> USE DEF ThreadJoined
<1>1. CASE Tick \/ DomainChanges \/ \E n \in Nodes : NodeReplies(n)
  BY <1>1 DEF Tick, DomainChanges, NodeReplies, clock
<1>2. CASE SpinThread
  BY <1>2 DEF SpinThread, AnswerArrives, CallFails, MessageArrives, ClockArrives, ClockRecorded,
              SpinCrashes, SpinEnds, Idle, clock
<1>3. CASE BeginSnapshot \/ FinishSnapshot \/ StartClockObservation \/ StopClockObservation
  BY <1>3 DEF BeginSnapshot, FinishSnapshot, StartClockObservation, StopClockObservation,
              Running, clock
<1>4. CASE CloseTimesOut \/ CloseSucceeds
  BY <1>4 DEF CloseTimesOut, CloseSucceeds, clock
<1>5. CASE UNCHANGED vars
  BY <1>5 DEF vars, clock
<1> QED
  BY <1>1, <1>2, <1>3, <1>4, <1>5 DEF Next, Caller

(* A closed observer is quiet: its spin thread is gone, no callback is     *)
(* under way, and nothing it holds changes any more.                       *)
THEOREM ClosedIsQuiet == Spec => QuietAfterClose
<1> DEFINE Quiet == /\ state' = "closed"
                    /\ executor \in {"stopped", "crashed"} /\ stamp' = None
                    /\ UNCHANGED <<first, samples, overflow, record, tracker>>
<1>1. Init => ThreadJoined
  BY DEF Init, ThreadJoined
<1>2. Spec => []ThreadJoined
  BY <1>1, StepKeepsJoined, PTL DEF Spec
<1>3. ThreadJoined /\ [Next]_vars => [state = "closed" => Quiet]_vars
  <2> SUFFICES ASSUME ThreadJoined, [Next]_vars, state = "closed" PROVE Quiet
    OBVIOUS
  <2>1. executor \in {"stopped", "crashed"} /\ executor # "spinning" /\ executor # "stopping"
        /\ stamp = None
    BY DEF ThreadJoined
  <2>2. ASSUME Tick \/ DomainChanges \/ \E n \in Nodes : NodeReplies(n) PROVE Quiet
    BY <2>1, <2>2 DEF Tick, DomainChanges, NodeReplies, clock, tracker
  <2>3. ~SpinThread
    BY <2>1 DEF SpinThread, AnswerArrives, CallFails, MessageArrives, ClockArrives, ClockRecorded,
                SpinCrashes, SpinEnds, Idle
  <2>4. ASSUME FinishSnapshot PROVE Quiet
    BY <2>1, <2>4 DEF FinishSnapshot, clock, tracker
  <2>5. ~(BeginSnapshot \/ StartClockObservation \/ StopClockObservation \/ CloseTimesOut
          \/ CloseSucceeds)
    BY DEF BeginSnapshot, StartClockObservation, StopClockObservation, CloseTimesOut,
           CloseSucceeds, Running
  <2>6. ASSUME UNCHANGED vars PROVE Quiet
    BY <2>1, <2>6 DEF vars, clock, tracker
  <2> QED
    BY <2>2, <2>3, <2>4, <2>5, <2>6 DEF Next, Caller
<1> QED
  BY <1>2, <1>3, PTL DEF Spec, QuietAfterClose

-----------------------------------------------------------------------------
(* A call is made when a snapshot is begun, so its reply is from after     *)
(* that.                                                                   *)
AnswersAfterCall ==
  /\ askedAt \in [Nodes -> 0 .. now]
  /\ \A n \in Nodes : reply[n] # None =>
       future[n] = "pending" /\ reply[n] \in Answer /\ reply[n].at >= askedAt[n]
  /\ \A n \in Nodes : future[n] = "done" =>
       answer[n] \in Answer /\ answer[n].at >= askedAt[n]

(* What a step does to the calls: nothing, time passes, one is replied to, *)
(* completes or fails, or all of them are polled.                          *)
CallsLeft ==
  /\ UNCHANGED <<future, reply, answer, observation, askedAt>>
  /\ now' = now \/ (now < MaxTime /\ now' = now + 1)

CallsStep ==
  \/ CallsLeft
  \/ \E n \in Nodes : NodeReplies(n) \/ AnswerArrives(n) \/ CallFails(n)
  \/ BeginSnapshot

LEMMA StepIsCallsStep ==
  ASSUME [Next]_vars
  PROVE  CallsStep
<1> USE DEF CallsStep, CallsLeft
<1>1. CASE Tick \/ DomainChanges \/ UNCHANGED vars
  BY <1>1 DEF Tick, DomainChanges, vars, domain, tracker, snap
<1>2. CASE SpinThread
  BY <1>2 DEF SpinThread, MessageArrives, ClockArrives, ClockRecorded, SpinCrashes, SpinEnds,
              domain, tracker, snap
<1>3. CASE Caller
  BY <1>3 DEF Caller, FinishSnapshot, StartClockObservation, StopClockObservation,
              CloseTimesOut, CloseSucceeds, domain, tracker, snap
<1> QED
  BY <1>1, <1>2, <1>3 DEF Next

LEMMA StepKeepsAnswers ==
  ASSUME TypeOK, AnswersAfterCall, [Next]_vars
  PROVE  AnswersAfterCall'
<1> USE RosAssumption DEF AnswersAfterCall
<1>0. now \in 0 .. MaxTime /\ actual \in [Nodes -> States]
      /\ future \in [Nodes -> {"none", "pending", "done", "error"}]
      /\ answer \in [Nodes -> Answer \cup {None}]
      /\ reply \in [Nodes -> Answer \cup {None}]
  BY DEF TypeOK
<1>1. CASE CallsLeft
  BY <1>0, <1>1 DEF CallsLeft
<1>2. ASSUME NEW n \in Nodes, NodeReplies(n) PROVE AnswersAfterCall'
  <2>1. [state |-> actual[n], at |-> now] \in Answer
    BY <1>0 DEF Answer
  <2> QED
    BY <1>0, <1>2, <2>1 DEF NodeReplies, tracker, snap
<1>3. ASSUME NEW n \in Nodes, AnswerArrives(n) PROVE AnswersAfterCall'
  BY <1>0, <1>3 DEF AnswerArrives, snap
<1>4. ASSUME NEW n \in Nodes, CallFails(n) PROVE AnswersAfterCall'
  BY <1>0, <1>4 DEF CallFails, snap
<1>5. CASE BeginSnapshot
  <2>1. /\ \A n \in Nodes : future'[n] = Polled(n)
        /\ askedAt' = [n \in Nodes |-> IF future[n] = "pending" THEN askedAt[n] ELSE now]
        /\ UNCHANGED <<now, reply>>
    BY <1>5 DEF BeginSnapshot, domain
  <2>2. \A n \in Nodes : future'[n] # "done"
    BY <1>0, <2>1 DEF Polled, Answered
  <2>3. \A n \in Nodes : future[n] = "pending" => future'[n] = "pending" /\ askedAt'[n] = askedAt[n]
    BY <2>1 DEF Polled, Answered
  <2>4. askedAt' \in [Nodes -> 0 .. now']
    BY <1>0, <2>1
  <2> QED
    BY <2>1, <2>2, <2>3, <2>4
<1> QED
  BY <1>1, <1>2, <1>3, <1>4, <1>5, StepIsCallsStep DEF CallsStep

LEMMA AnswersInOrder == Spec => []AnswersAfterCall
<1>1. Init => AnswersAfterCall
  BY DEF Init, AnswersAfterCall
<1> QED
  BY <1>1, StepKeepsAnswers, Typed, PTL DEF Spec

(* What a snapshot takes over of a node that answered is never older than  *)
(* the snapshot that could make its call, for any nodes and any delay of   *)
(* their replies.                                                          *)
THEOREM AnswersAreFresh == Spec => FreshWhenAnswered
<1>1. AnswersAfterCall /\ [Next]_vars =>
        [\A n \in Nodes : view = None /\ view' # None /\ future[n] = "done" =>
           observation'[n].at >= askedAt[n]]_vars
  <2> SUFFICES ASSUME AnswersAfterCall, [Next]_vars, NEW n \in Nodes,
                      view = None, view' # None, future[n] = "done"
               PROVE  observation'[n].at >= askedAt[n]
    OBVIOUS
  <2>1. BeginSnapshot
    BY DEF Next, SpinThread, Caller, Tick, DomainChanges, NodeReplies, AnswerArrives, CallFails,
           MessageArrives, ClockArrives, ClockRecorded, SpinCrashes, SpinEnds, FinishSnapshot,
           StartClockObservation, StopClockObservation, CloseTimesOut, CloseSucceeds, vars, snap
  <2>2. observation'[n] = answer[n]
    BY <2>1 DEF BeginSnapshot, Observed
  <2> QED
    BY <2>2 DEF AnswersAfterCall
<1> QED
  BY <1>1, AnswersInOrder, PTL DEF Spec, FreshWhenAnswered

-----------------------------------------------------------------------------
(* Attach.  What a poll has judged.                                        *)
Judged == [at : 0 .. MaxTime, snapshot : Reported]

AttachTyped ==
  /\ pc \in {"poll", "judge", "asleep"} \cup Wait!Outcomes
  /\ firstReady \in 0 .. now \cup {None}
  /\ polls \in Seq(Judged)
  /\ view \in Views \cup {None}
  /\ pc = "judge" => snapshot \in Reported
  /\ lastRequired \in [Nodes -> Int] /\ missed \subseteq Nodes

LatestPoll == polls[Len(polls)].snapshot

(* A required state that a node has replied was really there then.         *)
Remembered ==
  /\ \A n \in Nodes : lastRequired[n] <= now
  /\ \A n \in Nodes :
       reply[n] # None /\ reply[n].state = RequiredState[n] =>
         lastRequired[n] >= reply[n].at
  /\ \A n \in Nodes :
       future[n] = "done" /\ answer[n].state = RequiredState[n] =>
         lastRequired[n] >= answer[n].at

(* The node was in its required state since the latest poll was taken.     *)
SinceLatestPoll(n) == polls # << >> => lastRequired[n] >= LatestPoll.takenAt

(* The nodes that answered from poll to poll.                              *)
Answering == Nodes \ missed

(* The snapshot under way, the one being judged and the latest poll follow *)
(* each other.                                                             *)
TakenInOrder ==
  /\ view # None =>
       /\ pc = "poll" /\ view.takenAt <= now
       /\ polls # << >> => LatestPoll.takenAt <= view.takenAt
  /\ pc = "judge" =>
       /\ snapshot.takenAt <= now
       /\ polls # << >> => LatestPoll.takenAt <= snapshot.takenAt
  /\ polls # << >> => LatestPoll.takenAt <= now

(* A node that answers was called at the latest snapshot; where that finds *)
(* it ready, it was since the poll before.                                 *)
SnapshotIsLatest ==
  /\ view # None => \A n \in Answering :
       /\ askedAt[n] = view.takenAt
       /\ NodeView(n) = RequiredState[n] => SinceLatestPoll(n)
  /\ pc = "judge" => \A n \in Answering :
       /\ askedAt[n] = snapshot.takenAt
       /\ Wait!NodeReady(n, snapshot) => SinceLatestPoll(n)
  /\ pc \in {"poll", "asleep"} /\ view = None /\ polls # << >> =>
       \A n \in Answering : askedAt[n] = LatestPoll.takenAt

(* Once a snapshot was begun, every node that answers has been called.     *)
AllCalled ==
  (view # None \/ pc = "judge" \/ polls # << >>) =>
    \A n \in Answering : future[n] # "none"

PollsInOrder ==
  /\ \A i, j \in 1 .. Len(polls) :
       i <= j => polls[i].snapshot.takenAt <= polls[j].snapshot.takenAt
  /\ \A j \in 2 .. Len(polls) : \A n \in Answering :
       Wait!NodeReady(n, polls[j].snapshot) =>
         lastRequired[n] >= polls[j - 1].snapshot.takenAt

(* A window is open only after a ready poll; one that was granted had two. *)
WindowHasPolls ==
  /\ pc \in {"poll", "judge", "asleep"} /\ firstReady # None =>
       polls # << >> /\ Wait!Ready(LatestPoll)
  /\ pc = "granted" =>
       /\ Len(polls) >= 2
       /\ Wait!Ready(LatestPoll) /\ Wait!Ready(polls[Len(polls) - 1].snapshot)

AttachInv ==
  /\ Remembered
  /\ TakenInOrder /\ SnapshotIsLatest /\ AllCalled /\ PollsInOrder /\ WindowHasPolls

(* Inside the composition the observer is still the observer, whatever the *)
(* loop does with its snapshots: what is proved of RosObserver holds there.*)
THEOREM AttachedObserver == AttachSpec => Spec
<1>1. AttachInit => Init
  BY DEF AttachInit
<1>2. [AttachNext]_attachVars => [Next]_vars
  <2>1. CASE Concurrent
    BY <2>1 DEF Concurrent, Next, SpinThread
  <2>2. CASE SnapshotBegun \/ SnapshotDelivered
    BY <2>2 DEF SnapshotBegun, SnapshotDelivered, Next, Caller
  <2>3. CASE SnapshotRaises \/ LoopStep
    BY <2>3 DEF SnapshotRaises, LoopStep, vars, Wait!SnapshotFails, Wait!Judge, Wait!Expire,
                Wait!Grant, Wait!GiveUp, Wait!KeepWaiting, Wait!Judging, Wait!Wake
  <2>4. CASE UNCHANGED attachVars
    BY <2>4 DEF attachVars, vars
  <2> QED
    BY <2>1, <2>2, <2>3, <2>4 DEF AttachNext
<1> QED
  BY <1>1, <1>2, PTL DEF AttachSpec, Spec

(* Time passes in the observer only, and the history only grows.           *)
LEMMA RememberGrows ==
  ASSUME TypeOK, AttachTyped, Remembered, [Next]_vars, Remember
  PROVE  /\ now <= now' /\ lastRequired' \in [Nodes -> Int]
         /\ \A n \in Nodes :
              /\ lastRequired[n] <= lastRequired'[n] /\ lastRequired'[n] <= now'
              /\ actual[n] = RequiredState[n] => now <= lastRequired'[n]
         /\ Answering' \subseteq Answering
<1>1. now \in Int /\ now' \in Int /\ now <= now'
  <2>1. CallsLeft \/ now' = now
    BY StepIsCallsStep DEF CallsStep, NodeReplies, AnswerArrives, CallFails, BeginSnapshot
  <2> QED
    BY <2>1, RosAssumption DEF TypeOK, CallsLeft
<1>2. Answering' \subseteq Answering
  BY DEF Remember, Answering
<1> QED
  BY <1>1, <1>2 DEF Remember, Remembered, AttachTyped

(* The domain and the spin thread touch neither the snapshot nor the loop. *)
LEMMA ConcurrentLeaves ==
  ASSUME TypeOK, Concurrent
  PROVE  /\ UNCHANGED <<wait, view, askedAt>>
         /\ \A n \in Nodes : future'[n] = "none" => future[n] = "none"
         /\ \A n \in Nodes : reply'[n] # None =>
              \/ reply'[n] = reply[n]
              \/ reply'[n] = [state |-> actual[n], at |-> now] /\ now' = now
         /\ \A n \in Nodes : future'[n] = "done" =>
              \/ future[n] = "done" /\ answer'[n] = answer[n]
              \/ reply[n] # None /\ answer'[n] = reply[n]
<1>0. /\ future \in [Nodes -> {"none", "pending", "done", "error"}]
      /\ answer \in [Nodes -> Answer \cup {None}]
      /\ reply \in [Nodes -> Answer \cup {None}]
  BY DEF TypeOK
<1>1. CASE Tick \/ DomainChanges \/ SpinCrashes
  BY <1>1 DEF Concurrent, Tick, DomainChanges, SpinCrashes, domain, tracker, snap
<1>2. ASSUME NEW n \in Nodes, NodeReplies(n)
      PROVE  /\ UNCHANGED <<view, askedAt, now, future, answer>>
             /\ reply' = [reply EXCEPT ![n] = [state |-> actual[n], at |-> now]]
  BY <1>2 DEF NodeReplies, tracker, snap
<1>3. ASSUME NEW n \in Nodes, AnswerArrives(n)
      PROVE  /\ UNCHANGED <<view, askedAt>> /\ future[n] = "pending" /\ reply[n] # None
             /\ future' = [future EXCEPT ![n] = "done"]
             /\ answer' = [answer EXCEPT ![n] = reply[n]]
             /\ reply' = [reply EXCEPT ![n] = None]
  BY <1>3 DEF AnswerArrives, snap
<1>4. ASSUME NEW n \in Nodes, CallFails(n)
      PROVE  /\ UNCHANGED <<view, askedAt, answer>> /\ future[n] = "pending"
             /\ future' = [future EXCEPT ![n] = "error"]
             /\ reply' = [reply EXCEPT ![n] = None]
  BY <1>4 DEF CallFails, snap
<1> QED
  BY <1>0, <1>1, <1>2, <1>3, <1>4 DEF Concurrent

(* A snapshot begun.                                                       *)
LEMMA BegunIsView ==
  ASSUME TypeOK, SnapshotBegun
  PROVE  /\ UNCHANGED <<wait, now, answer, reply>> /\ pc = "poll" /\ view = None
         /\ view' = [takenAt |-> now, first |-> first, nodes |-> observation']
         /\ view' \in Views /\ view' # None
         /\ \A n \in Nodes : future'[n] # "done"
<1>0. /\ answer \in [Nodes -> Answer \cup {None}]
      /\ observation \in [Nodes -> Answer \cup {None}]
      /\ first \in [Topics \cup {"/clock"} -> 0 .. MaxTime \cup {None}]
      /\ now \in 0 .. MaxTime
  BY DEF TypeOK
<1>1. /\ UNCHANGED <<wait, now, answer, reply>> /\ pc = "poll" /\ view = None
      /\ view' = [takenAt |-> now, first |-> first, nodes |-> observation']
      /\ observation' = [n \in Nodes |-> Observed(n)]
      /\ future' = [n \in Nodes |-> Polled(n)]
  BY DEF SnapshotBegun, BeginSnapshot, domain
<1>2. \A n \in Nodes : Observed(n) \in Answer \cup {None}
  BY <1>0 DEF Observed
<1>3. view' \in Views
  BY <1>0, <1>1, <1>2 DEF Views
<1>4. \A n \in Nodes : Polled(n) # "done"
  BY DEF Polled, Answered
<1> QED
  BY <1>1, <1>3, <1>4, AttachAssumption

(* Where the call was completed, it takes the answer and makes a new call. *)
LEMMA BegunTakesAnswers ==
  ASSUME TypeOK, SnapshotBegun, Remember, NEW n \in Answering'
  PROVE  /\ n \in Nodes /\ n \in Answering
         /\ askedAt'[n] = now /\ future'[n] = "pending"
         /\ future[n] # "none" =>
              \/ observation'[n] = None
              \/ future[n] = "done" /\ observation'[n] = answer[n]
<1>0. future \in [Nodes -> {"none", "pending", "done", "error"}]
  BY DEF TypeOK
<1>1. /\ observation' = [m \in Nodes |-> Observed(m)]
      /\ future' = [m \in Nodes |-> Polled(m)]
      /\ askedAt' = [m \in Nodes |-> IF future[m] = "pending" THEN askedAt[m] ELSE now]
  BY DEF SnapshotBegun, BeginSnapshot
<1>2. missed' = missed \cup Unanswered
  BY BegunIsView DEF Remember
<1>3. n \in Nodes /\ n \in Answering /\ n \in serving /\ future[n] \in {"none", "done", "error"}
  BY <1>0, <1>2 DEF Answering, Unanswered
<1>4. Polled(n) = "pending"
  BY <1>3 DEF Polled, Answered
<1>5. future[n] # "none" =>
        Observed(n) = None \/ (future[n] = "done" /\ Observed(n) = answer[n])
  BY <1>3 DEF Observed
<1> QED
  BY <1>1, <1>3, <1>4, <1>5

(* A snapshot delivered to the loop.                                       *)
LEMMA DeliveredIsReported ==
  ASSUME AttachTyped, SnapshotDelivered
  PROVE  /\ pc = "poll" /\ pc' = "judge" /\ view # None /\ view' = None
         /\ UNCHANGED <<now, domain, tracker, askedAt, firstReady, wakeAt, polls>>
         /\ snapshot' \in Reported
         /\ snapshot'.takenAt = view.takenAt
         /\ \A n \in Nodes : snapshot'.nodes[n] = NodeView(n)
<1>1. /\ pc = "poll" /\ pc' = "judge" /\ view # None /\ view' = None
      /\ UNCHANGED <<now, domain, tracker, askedAt, firstReady, wakeAt, polls>>
      /\ snapshot' = Delivered
  BY DEF SnapshotDelivered, FinishSnapshot, Wait!TakeSnapshot
<1>2. view \in Views
  BY <1>1 DEF AttachTyped
<1>3. \A n \in Nodes : NodeView(n) \in States \cup {None}
  BY <1>2 DEF NodeView, Views, Answer
<1>4. \A t \in Topics :
        TopicView(t) \in [typed : BOOLEAN, publishers : {0, 1}, subscribers : {1},
                          qosCompatible : {TRUE}, firstMessage : BOOLEAN]
  BY DEF TopicView
<1>5. Delivered \in Reported
  BY <1>2, <1>3, <1>4 DEF Delivered, Reported, Views
<1> QED
  BY <1>1, <1>5 DEF Delivered

(* The snapshot judged, whatever becomes of it.                            *)
LEMMA JudgedIsAppended ==
  ASSUME TypeOK, AttachTyped, Wait!Judge
  PROVE  /\ pc = "judge" /\ pc' \in {"asleep"} \cup Wait!Outcomes
         /\ UNCHANGED now
         /\ polls' \in Seq(Judged) /\ Len(polls') = Len(polls) + 1 /\ Len(polls) \in Nat
         /\ \A i \in 1 .. Len(polls) : polls'[i] = polls[i]
         /\ polls'[Len(polls')].snapshot = snapshot
         /\ firstReady' \in 0 .. now \cup {None}
         /\ pc' = "asleep" /\ firstReady' # None => Wait!Ready(snapshot)
         /\ pc' = "granted" => Wait!Grant
<1>1. /\ pc = "judge" /\ UNCHANGED now
      /\ polls' = Append(polls, [at |-> now, snapshot |-> snapshot])
  BY DEF Wait!Judge, Wait!Expire, Wait!Grant, Wait!GiveUp, Wait!KeepWaiting, Wait!Judging
<1>2. [at |-> now, snapshot |-> snapshot] \in Judged
  BY <1>1 DEF AttachTyped, TypeOK, Judged
<1>3. now \in 0 .. now
  BY RosAssumption DEF TypeOK
<1>4. /\ pc' \in {"asleep"} \cup Wait!Outcomes
      /\ firstReady' \in {firstReady, Wait!Since(snapshot)}
      /\ pc' = "asleep" => firstReady' = Wait!Since(snapshot)
      /\ pc' = "granted" => Wait!Grant
  BY DEF Wait!Judge, Wait!Expire, Wait!Grant, Wait!GiveUp, Wait!KeepWaiting, Wait!Outcomes
<1>5. /\ Wait!Since(snapshot) \in {None, now, firstReady}
      /\ Wait!Since(snapshot) # None => Wait!Ready(snapshot)
  BY DEF Wait!Since
<1>6. polls' \in Seq(Judged) /\ Len(polls') = Len(polls) + 1 /\ Len(polls) \in Nat
      /\ (\A i \in 1 .. Len(polls) : polls'[i] = polls[i])
      /\ polls'[Len(polls')] = [at |-> now, snapshot |-> snapshot]
  BY <1>1, <1>2 DEF AttachTyped
<1> QED
  BY <1>1, <1>3, <1>4, <1>5, <1>6 DEF AttachTyped

LEMMA AttachKeepsTypes ==
  ASSUME TypeOK, AttachTyped, [AttachNext]_attachVars
  PROVE  AttachTyped'
<1>0. /\ now \in 0 .. MaxTime /\ MaxTime \in Nat
      /\ firstReady \in 0 .. now \cup {None} /\ lastRequired \in [Nodes -> Int] /\ missed \subseteq Nodes
  BY RosAssumption DEF AttachTyped, TypeOK
<1>1. CASE Concurrent /\ Remember
  <2>1. now' \in 0 .. MaxTime /\ now <= now'
    BY <1>0, <1>1 DEF Concurrent, Tick, DomainChanges, NodeReplies, AnswerArrives, CallFails, SpinCrashes
  <2>2. lastRequired' \in [Nodes -> Int] /\ missed' \subseteq Nodes
    BY <1>0, <1>1, <2>1 DEF Remember, Unanswered
  <2> QED
    BY <1>0, <1>1, <2>1, <2>2, ConcurrentLeaves DEF AttachTyped, wait
<1>2. ASSUME Remember, UNCHANGED now
      PROVE  lastRequired' \in [Nodes -> Int] /\ missed' \subseteq Nodes
  BY <1>0, <1>2 DEF Remember, Unanswered
<1>3. CASE SnapshotBegun /\ Remember
  BY <1>2, <1>3, BegunIsView DEF AttachTyped, wait
<1>4. CASE SnapshotDelivered /\ Remember
  BY <1>2, <1>4, DeliveredIsReported DEF AttachTyped
<1>5. CASE SnapshotRaises /\ Remember
  BY <1>2, <1>5 DEF AttachTyped, SnapshotRaises, Wait!SnapshotFails, Wait!Outcomes, snap
<1>6. CASE LoopStep /\ Remember
  <2>1. CASE Wait!Wake
    BY <1>2, <1>6, <2>1 DEF AttachTyped, LoopStep, Wait!Wake, snap
  <2>2. CASE Wait!Judge
    <3>1. UNCHANGED view
      BY <1>6 DEF LoopStep, snap
    <3> QED
      BY <1>2, <1>6, <2>2, <3>1, JudgedIsAppended DEF AttachTyped, Wait!Outcomes
  <2> QED
    BY <1>6, <2>1, <2>2 DEF LoopStep
<1>7. CASE UNCHANGED attachVars
  BY <1>7 DEF AttachTyped, attachVars, history, vars, wait, snap
<1> QED
  BY <1>1, <1>3, <1>4, <1>5, <1>6, <1>7 DEF AttachNext

LEMMA AttachStarts ==
  ASSUME AttachInit
  PROVE  AttachTyped /\ AttachInv
<1>1. /\ now = 0 /\ pc = "poll" /\ firstReady = None /\ polls = << >> /\ view = None
      /\ future = [n \in Nodes |-> "none"]
      /\ reply = [n \in Nodes |-> None] /\ missed = {}
      /\ lastRequired = [n \in Nodes |-> IF actual[n] = RequiredState[n] THEN 0 ELSE -1]
  BY DEF AttachInit, Init, Wait!Init
<1>2. << >> \in Seq(Judged) /\ Len(<< >>) = 0
  OBVIOUS
<1>3. AttachTyped
  BY <1>1, <1>2 DEF AttachTyped
<1> QED
  BY <1>1, <1>2, <1>3 DEF AttachInv, Remembered, TakenInOrder, SnapshotIsLatest, AllCalled,
     PollsInOrder, WindowHasPolls

(* Inside the composition the loop is still the wait of Readiness, on any  *)
(* graph and with any nodes, whether or not they answer: the snapshots the *)
(* observer delivers are among those the theorems about Readiness allow,   *)
(* so its grants and refusals keep those promises there.                   *)
THEOREM AttachedWait == AttachSpec => Wait!Spec
<1>1. AttachInit => Wait!Init /\ AttachTyped
  BY AttachStarts DEF AttachInit
<1>2. TypeOK /\ AttachTyped /\ [AttachNext]_attachVars => [Wait!Next]_(Wait!vars)
  <2> SUFFICES ASSUME TypeOK, AttachTyped, [AttachNext]_attachVars
               PROVE  [Wait!Next]_(Wait!vars)
    OBVIOUS
  <2>1. CASE Concurrent
    <3>1. UNCHANGED wait /\ (Tick \/ UNCHANGED now)
      BY <2>1 DEF Concurrent, DomainChanges, NodeReplies, AnswerArrives, CallFails, SpinCrashes
    <3> QED
      BY <3>1 DEF wait, Tick, Wait!Tick, Wait!Next, Wait!vars
  <2>2. CASE SnapshotBegun
    BY <2>2, BegunIsView DEF wait, Wait!vars
  <2>3. CASE SnapshotDelivered
    <3>1. Wait!TakeSnapshot(Delivered) /\ Delivered \in Reported
      BY <2>3, DeliveredIsReported DEF SnapshotDelivered, Wait!TakeSnapshot
    <3> QED
      BY <3>1 DEF Wait!Next, Wait!Step
  <2>4. CASE SnapshotRaises \/ LoopStep
    BY <2>4 DEF SnapshotRaises, LoopStep, Wait!Next, Wait!Step
  <2>5. CASE UNCHANGED attachVars
    BY <2>5 DEF attachVars, vars, wait, Wait!vars
  <2> QED
    BY <2>1, <2>2, <2>3, <2>4, <2>5 DEF AttachNext
<1>3. TypeOK /\ AttachTyped /\ [AttachNext]_attachVars => AttachTyped'
  BY AttachKeepsTypes
<1>4. AttachSpec => []TypeOK
  BY AttachedObserver, Typing, PTL
<1> QED
  BY <1>1, <1>2, <1>3, <1>4, PTL DEF AttachSpec, Wait!Spec

(* What was required when a node replied was remembered then.              *)
LEMMA AttachRemembers ==
  ASSUME TypeOK, AnswersAfterCall, AttachTyped, Remembered, [AttachNext]_attachVars, [Next]_vars
  PROVE  Remembered'
<1> USE DEF Remembered
<1>0. now \in Int /\ \A n \in Nodes : lastRequired[n] \in Int
  BY RosAssumption DEF TypeOK, AttachTyped
<1>1. ASSUME Remember
      PROVE  /\ \A n \in Nodes : lastRequired[n] <= lastRequired'[n] /\ lastRequired'[n] <= now'
             /\ \A n \in Nodes : lastRequired'[n] \in Int
  BY <1>1, RememberGrows
<1>2. /\ \A n \in Nodes : future[n] = "done" => answer[n].at \in Int
      /\ \A n \in Nodes : reply[n] # None => reply[n].at \in Int
  BY RosAssumption DEF AnswersAfterCall, Answer
<1>3. CASE Concurrent /\ Remember
  <2>1. ASSUME NEW n \in Nodes, reply'[n] # None, reply'[n].state = RequiredState[n]
        PROVE  lastRequired'[n] >= reply'[n].at
    <3>1. CASE reply'[n] = reply[n]
      BY <1>0, <1>1, <1>2, <1>3, <2>1, <3>1
    <3>2. CASE reply'[n] = [state |-> actual[n], at |-> now] /\ now' = now
      BY <1>0, <1>3, <2>1, <3>2, RememberGrows
    <3> QED
      BY <1>3, <2>1, <3>1, <3>2, ConcurrentLeaves
  <2>2. ASSUME NEW n \in Nodes, future'[n] = "done", answer'[n].state = RequiredState[n]
        PROVE  lastRequired'[n] >= answer'[n].at
    <3>1. CASE future[n] = "done" /\ answer'[n] = answer[n]
      BY <1>0, <1>1, <1>2, <1>3, <2>2, <3>1
    <3>2. CASE reply[n] # None /\ answer'[n] = reply[n]
      BY <1>0, <1>1, <1>2, <1>3, <2>2, <3>2
    <3> QED
      BY <1>3, <2>2, <3>1, <3>2, ConcurrentLeaves
  <2> QED
    BY <1>1, <1>3, <2>1, <2>2
<1>4. CASE SnapshotBegun /\ Remember
  BY <1>0, <1>1, <1>2, <1>4, BegunIsView
<1>5. CASE UNCHANGED <<future, answer, reply>> /\ Remember
  BY <1>0, <1>1, <1>2, <1>5
<1>6. CASE UNCHANGED attachVars
  BY <1>6 DEF attachVars, history, vars, domain, tracker
<1>7. SnapshotDelivered \/ SnapshotRaises \/ LoopStep => UNCHANGED <<future, answer, reply>>
  BY DEF SnapshotDelivered, FinishSnapshot, SnapshotRaises, LoopStep, domain, tracker
<1> QED
  BY <1>3, <1>4, <1>5, <1>6, <1>7 DEF AttachNext

LEMMA TakenAtIsTime ==
  ASSUME TypeOK, AttachTyped
  PROVE  /\ now \in Int /\ Len(polls) \in Nat
         /\ \A i \in 1 .. Len(polls) : polls[i].snapshot.takenAt \in Int
         /\ \A n \in Nodes : lastRequired[n] \in Int
         /\ view # None => view.takenAt \in Int
         /\ pc = "judge" => snapshot.takenAt \in Int
         /\ polls # << >> => LatestPoll.takenAt \in Int
<1>1. \A i \in 1 .. Len(polls) : polls[i] \in Judged
  BY DEF AttachTyped
<1>2. \A p \in Judged : p.snapshot.takenAt \in Int
  BY RosAssumption DEF Judged, Reported
<1>3. polls # << >> => Len(polls) \in 1 .. Len(polls)
  BY DEF AttachTyped
<1>4. \A v \in Views : v.takenAt \in Int
  BY RosAssumption DEF Views
<1>5. \A v \in Reported : v.takenAt \in Int
  BY RosAssumption DEF Reported
<1> QED
  BY <1>1, <1>2, <1>3, <1>4, <1>5, RosAssumption DEF AttachTyped, TypeOK, LatestPoll

(* Where the polls stay, the history still reaches them.                   *)
LEMMA PollsStay ==
  ASSUME TypeOK, AttachTyped, Remembered, PollsInOrder, [Next]_vars, Remember, UNCHANGED polls
  PROVE  /\ PollsInOrder'
         /\ \A n \in Nodes : SinceLatestPoll(n) => SinceLatestPoll(n)'
<1>0. \A n \in Answering' : n \in Answering /\ n \in Nodes
  BY RememberGrows DEF Answering
<1>1. \A n \in Nodes :
        /\ lastRequired[n] \in Int /\ lastRequired'[n] \in Int
        /\ lastRequired[n] <= lastRequired'[n]
  BY RememberGrows, TakenAtIsTime
<1>2. polls # << >> => Len(polls) \in 1 .. Len(polls)
  BY DEF AttachTyped
<1>3. \A j \in 2 .. Len(polls) : j - 1 \in 1 .. Len(polls)
  BY TakenAtIsTime
<1>4. PollsInOrder'
  <2>1. \A j \in 2 .. Len(polls) : \A n \in Answering' :
          Wait!NodeReady(n, polls[j].snapshot) =>
            lastRequired'[n] >= polls[j - 1].snapshot.takenAt
    <3> SUFFICES ASSUME NEW j \in 2 .. Len(polls), NEW n \in Answering',
                        Wait!NodeReady(n, polls[j].snapshot)
                 PROVE  lastRequired'[n] >= polls[j - 1].snapshot.takenAt
      OBVIOUS
    <3>1. lastRequired[n] >= polls[j - 1].snapshot.takenAt
      BY <1>0 DEF PollsInOrder
    <3> QED
      BY <1>0, <1>1, <1>3, <3>1, TakenAtIsTime
  <2> QED
    BY <2>1 DEF PollsInOrder, Wait!NodeReady
<1>5. \A n \in Nodes : SinceLatestPoll(n) => SinceLatestPoll(n)'
  BY <1>1, <1>2, TakenAtIsTime DEF SinceLatestPoll, LatestPoll
<1> QED
  BY <1>4, <1>5

(* What the steps of the loop keep.                                        *)
LoopInv == TakenInOrder /\ SnapshotIsLatest /\ AllCalled /\ PollsInOrder /\ WindowHasPolls

LEMMA ConcurrentKeepsAttach ==
  ASSUME TypeOK, AnswersAfterCall, AttachTyped, AttachInv, [Next]_vars, Concurrent, Remember
  PROVE  LoopInv'
<1> USE DEF AttachInv
<1>1. /\ UNCHANGED <<pc, snapshot, firstReady, polls, view, askedAt>>
      /\ \A n \in Nodes : future'[n] = "none" => future[n] = "none"
  BY ConcurrentLeaves DEF wait
<1>2. PollsInOrder' /\ \A n \in Nodes : SinceLatestPoll(n) => SinceLatestPoll(n)'
  BY <1>1, PollsStay
<1>3. \A n \in Answering' : n \in Answering /\ n \in Nodes
  BY RememberGrows DEF Answering
<1>4. SnapshotIsLatest'
  BY <1>1, <1>2, <1>3 DEF SnapshotIsLatest, LatestPoll, NodeView, Wait!NodeReady
<1>5. AllCalled'
  BY <1>1, <1>3 DEF AllCalled
<1>6. WindowHasPolls'
  BY <1>1 DEF WindowHasPolls, LatestPoll, Wait!Ready, Wait!NodeReady, Wait!TopicReady, Wait!EndpointReady
<1>7. TakenInOrder'
  <2>1. now <= now' /\ now \in Int /\ now' \in Int
    BY RememberGrows, TakenAtIsTime DEF Remember, Tick, Concurrent, DomainChanges,
       NodeReplies, AnswerArrives, CallFails, SpinCrashes
  <2> QED
    BY <1>1, <2>1, TakenAtIsTime DEF TakenInOrder, LatestPoll
<1> QED
  BY <1>2, <1>4, <1>5, <1>6, <1>7 DEF LoopInv

LEMMA BeginningKeepsAttach ==
  ASSUME TypeOK, AnswersAfterCall, AttachTyped, AttachInv, [Next]_vars,
         SnapshotBegun, Remember
  PROVE  LoopInv'
<1> USE DEF AttachInv
<1>1. /\ UNCHANGED <<snapshot, firstReady, polls, now>>
      /\ pc = "poll" /\ pc' = "poll" /\ view = None /\ view' # None
      /\ view' = [takenAt |-> now, first |-> first, nodes |-> observation']
  BY BegunIsView DEF wait
<1>2. PollsInOrder' /\ \A n \in Nodes : SinceLatestPoll(n) => SinceLatestPoll(n)'
  BY <1>1, PollsStay
<1>3. ASSUME NEW n \in Answering', NodeView(n)' = RequiredState[n]
      PROVE  SinceLatestPoll(n)'
  <2>0. n \in Nodes /\ n \in Answering
    BY BegunTakesAnswers
  <2> SUFFICES ASSUME polls # << >>
               PROVE  SinceLatestPoll(n)
    BY <1>1, <1>2, <2>0 DEF SinceLatestPoll
  <2>1. RequiredState[n] # None
    BY <2>0, AttachAssumption, RosAssumption
  <2>2. observation'[n] # None /\ observation'[n].state = RequiredState[n]
    BY <1>1, <1>3, <2>1 DEF NodeView
  <2>3. future[n] # "none"
    BY <2>0 DEF AllCalled
  <2>4. future[n] = "done" /\ answer[n].state = RequiredState[n]
    BY <2>2, <2>3, BegunTakesAnswers
  <2>5. lastRequired[n] >= answer[n].at /\ answer[n].at >= askedAt[n] /\ answer[n] \in Answer
    BY <2>0, <2>4 DEF Remembered, AnswersAfterCall
  <2>6. LatestPoll.takenAt = askedAt[n]
    BY <1>1, <2>0 DEF SnapshotIsLatest
  <2>7. answer[n].at \in Int /\ askedAt[n] \in Int /\ lastRequired[n] \in Int
    BY <2>0, <2>5, RosAssumption, TakenAtIsTime DEF Answer, AnswersAfterCall
  <2> QED
    BY <2>5, <2>6, <2>7 DEF SinceLatestPoll
<1>4. \A n \in Answering' : askedAt'[n] = view'.takenAt /\ future'[n] # "none"
  BY <1>1, BegunTakesAnswers
<1>5. SnapshotIsLatest'
  BY <1>1, <1>3, <1>4 DEF SnapshotIsLatest
<1>6. AllCalled'
  BY <1>4 DEF AllCalled
<1>7. WindowHasPolls'
  BY <1>1 DEF WindowHasPolls, LatestPoll, Wait!Ready, Wait!NodeReady, Wait!TopicReady, Wait!EndpointReady
<1>8. TakenInOrder'
  BY <1>1, TakenAtIsTime DEF TakenInOrder, LatestPoll
<1> QED
  BY <1>2, <1>5, <1>6, <1>7, <1>8 DEF LoopInv

LEMMA DeliveryKeepsAttach ==
  ASSUME TypeOK, AnswersAfterCall, AttachTyped, AttachInv, [Next]_vars,
         SnapshotDelivered, Remember
  PROVE  LoopInv'
<1> USE DEF AttachInv
<1>1. /\ UNCHANGED <<now, future, askedAt, firstReady, polls>>
      /\ pc = "poll" /\ pc' = "judge" /\ view # None /\ view' = None
      /\ snapshot'.takenAt = view.takenAt
      /\ \A n \in Nodes : snapshot'.nodes[n] = NodeView(n)
  BY DeliveredIsReported DEF tracker
<1>2. PollsInOrder' /\ \A n \in Nodes : SinceLatestPoll(n) => SinceLatestPoll(n)'
  BY <1>1, PollsStay
<1>3. \A n \in Answering' : n \in Answering /\ n \in Nodes
  BY RememberGrows DEF Answering
<1>4. SnapshotIsLatest'
  BY <1>1, <1>2, <1>3 DEF SnapshotIsLatest, LatestPoll, Wait!NodeReady
<1>5. AllCalled'
  BY <1>1, <1>3 DEF AllCalled
<1>6. WindowHasPolls'
  BY <1>1 DEF WindowHasPolls, LatestPoll, Wait!Ready, Wait!NodeReady, Wait!TopicReady, Wait!EndpointReady
<1>7. TakenInOrder'
  BY <1>1 DEF TakenInOrder, LatestPoll
<1> QED
  BY <1>2, <1>4, <1>5, <1>6, <1>7 DEF LoopInv

(* The loop sleeps, wakes up or fails.                                     *)
LEMMA PausingKeepsAttach ==
  ASSUME TypeOK, AttachTyped, AttachInv, [Next]_vars, Remember,
         SnapshotRaises \/ (LoopStep /\ Wait!Wake)
  PROVE  LoopInv'
<1> USE DEF AttachInv
<1>1. /\ UNCHANGED <<now, future, askedAt, firstReady, polls, view>>
      /\ pc \in {"poll", "asleep"} /\ pc' \in {"poll", "failed"}
      /\ view = None
  BY DEF SnapshotRaises, LoopStep, Wait!SnapshotFails, Wait!Wake, tracker, snap, TakenInOrder
<1>2. PollsInOrder'
  BY <1>1, PollsStay
<1>3. \A n \in Answering' : n \in Answering /\ n \in Nodes
  BY RememberGrows DEF Answering
<1>4. SnapshotIsLatest'
  BY <1>1, <1>3 DEF SnapshotIsLatest, LatestPoll
<1>5. AllCalled'
  BY <1>1, <1>3 DEF AllCalled
<1>6. WindowHasPolls'
  BY <1>1 DEF WindowHasPolls, LatestPoll, Wait!Ready, Wait!NodeReady, Wait!TopicReady, Wait!EndpointReady
<1>7. TakenInOrder'
  BY <1>1 DEF TakenInOrder, LatestPoll
<1> QED
  BY <1>2, <1>4, <1>5, <1>6, <1>7 DEF LoopInv

(* Some stability is required: of the graph or of a node.                  *)
WindowRequired == StableFor > 0 \/ \E n \in Nodes : NodeStable[n] > 0

LEMMA GrantNeedsWindow ==
  ASSUME TypeOK, AttachTyped, WindowRequired, Wait!Grant
  PROVE  firstReady # None /\ Wait!Ready(snapshot)
<1>1. now \in Int /\ None \notin Int
  BY RosAssumption DEF TypeOK
<1>2. Wait!Since(snapshot) # None /\ Wait!LongEnough(now - Wait!Since(snapshot))
  BY DEF Wait!Grant, Wait!WindowComplete
<1>3. Wait!Ready(snapshot)
  BY <1>2 DEF Wait!Since
<1>4. ASSUME firstReady = None PROVE FALSE
  <2>1. Wait!Since(snapshot) = now
    BY <1>3, <1>4 DEF Wait!Since
  <2>2. 0 >= StableFor /\ \A n \in Nodes : 0 >= NodeStable[n]
    BY <1>1, <1>2, <2>1 DEF Wait!LongEnough
  <2> QED
    BY <2>2, AttachAssumption DEF WindowRequired
<1> QED
  BY <1>3, <1>4

LEMMA JudgingKeepsAttach ==
  ASSUME TypeOK, AnswersAfterCall, AttachTyped, AttachInv, [Next]_vars, WindowRequired,
         LoopStep, Wait!Judge, Remember
  PROVE  LoopInv'
<1> USE DEF AttachInv
<1>1. /\ UNCHANGED <<now, future, askedAt, view>>
      /\ pc = "judge" /\ pc' \in {"asleep"} \cup Wait!Outcomes
      /\ Len(polls') = Len(polls) + 1 /\ Len(polls) \in Nat /\ polls' # << >>
      /\ \A i \in 1 .. Len(polls) : polls'[i] = polls[i]
      /\ LatestPoll' = snapshot
      /\ pc' = "asleep" /\ firstReady' # None => Wait!Ready(snapshot)
      /\ pc' = "granted" => Wait!Grant
  BY JudgedIsAppended DEF LoopStep, tracker, snap, LatestPoll
<1>2. view = None /\ view' = None
  BY <1>1 DEF TakenInOrder
<1>3. /\ snapshot.takenAt <= now /\ snapshot.takenAt \in Int
      /\ polls # << >> => LatestPoll.takenAt <= snapshot.takenAt /\ LatestPoll.takenAt \in Int
  BY <1>1, TakenAtIsTime DEF TakenInOrder
<1>4. \A n \in Answering' : n \in Answering /\ n \in Nodes
  BY RememberGrows DEF Answering
<1>5. \A n \in Answering' :
        /\ askedAt[n] = snapshot.takenAt
        /\ Wait!NodeReady(n, snapshot) => SinceLatestPoll(n)
  BY <1>1, <1>4 DEF SnapshotIsLatest
<1>6. SnapshotIsLatest'
  BY <1>1, <1>2, <1>5 DEF SnapshotIsLatest, Wait!Outcomes
<1>7. TakenInOrder'
  BY <1>1, <1>2, <1>3 DEF TakenInOrder, Wait!Outcomes
<1>8. AllCalled'
  BY <1>1, <1>4 DEF AllCalled
<1>9. PollsInOrder'
  <2>1. \A n \in Nodes :
          lastRequired[n] \in Int /\ lastRequired'[n] \in Int /\ lastRequired[n] <= lastRequired'[n]
    BY RememberGrows, TakenAtIsTime
  <2>2. \A i \in 1 .. Len(polls) : polls[i].snapshot.takenAt <= snapshot.takenAt
    <3> SUFFICES ASSUME NEW i \in 1 .. Len(polls)
                 PROVE  polls[i].snapshot.takenAt <= snapshot.takenAt
      OBVIOUS
    <3>1. polls # << >> /\ Len(polls) \in 1 .. Len(polls) /\ i <= Len(polls)
      BY <1>1 DEF AttachTyped
    <3>2. polls[i].snapshot.takenAt <= LatestPoll.takenAt
      BY <3>1 DEF PollsInOrder, LatestPoll
    <3>3. polls[i].snapshot.takenAt \in Int
      BY TakenAtIsTime
    <3> QED
      BY <1>3, <3>1, <3>2, <3>3
  <2>3. polls'[Len(polls) + 1].snapshot = snapshot
    BY <1>1 DEF LatestPoll
  <2>4. ASSUME NEW i \in 1 .. Len(polls'), NEW j \in 1 .. Len(polls'), i <= j
        PROVE  polls'[i].snapshot.takenAt <= polls'[j].snapshot.takenAt
    <3>1. CASE j <= Len(polls)
      <4>1. i \in 1 .. Len(polls) /\ j \in 1 .. Len(polls)
        BY <1>1, <2>4, <3>1
      <4> QED
        BY <1>1, <2>4, <4>1 DEF PollsInOrder
    <3>2. CASE j = Len(polls) + 1 /\ i <= Len(polls)
      <4>1. i \in 1 .. Len(polls)
        BY <1>1, <3>2
      <4> QED
        BY <1>1, <1>3, <2>2, <2>3, <3>2, <4>1
    <3>3. CASE i = j
      BY <1>3, <3>1, <3>2, <2>3, <3>3, <1>1, TakenAtIsTime
    <3> QED
      BY <1>1, <2>4, <3>1, <3>2, <3>3
  <2>5. ASSUME NEW j \in 2 .. Len(polls'), NEW n \in Answering', Wait!NodeReady(n, polls'[j].snapshot)
        PROVE  lastRequired'[n] >= polls'[j - 1].snapshot.takenAt
    <3>0. j - 1 \in 1 .. Len(polls)
      BY <1>1
    <3>1. polls'[j - 1].snapshot.takenAt \in Int /\ polls'[j - 1] = polls[j - 1]
      BY <1>1, <3>0, TakenAtIsTime
    <3>2. lastRequired[n] >= polls[j - 1].snapshot.takenAt
      <4>1. CASE j <= Len(polls)
        <5>1. j \in 2 .. Len(polls) /\ polls'[j] = polls[j]
          BY <1>1, <4>1
        <5> QED
          BY <1>4, <2>5, <5>1 DEF PollsInOrder
      <4>2. CASE j = Len(polls) + 1
        <5>1. polls # << >> /\ polls[j - 1].snapshot = LatestPoll
          BY <1>1, <4>2 DEF LatestPoll
        <5> QED
          BY <1>5, <2>3, <2>5, <4>2, <5>1 DEF SinceLatestPoll
      <4> QED
        BY <1>1, <4>1, <4>2
    <3> QED
      BY <1>4, <2>1, <3>1, <3>2
  <2> QED
    BY <2>4, <2>5 DEF PollsInOrder
<1>10. WindowHasPolls'
  <2>1. CASE pc' = "asleep"
    BY <1>1, <2>1 DEF WindowHasPolls, Wait!Outcomes, Wait!Ready, Wait!NodeReady
  <2>2. CASE pc' = "granted"
    <3>1. firstReady # None /\ Wait!Ready(snapshot)
      BY <1>1, <2>2, GrantNeedsWindow
    <3>2. polls # << >> /\ Wait!Ready(LatestPoll)
      BY <1>1, <3>1 DEF WindowHasPolls
    <3>3. Len(polls) >= 1 /\ polls'[Len(polls') - 1].snapshot = LatestPoll
      BY <1>1, <3>2 DEF LatestPoll, AttachTyped
    <3> QED
      BY <1>1, <2>2, <3>1, <3>2, <3>3 DEF WindowHasPolls, Wait!Ready, Wait!NodeReady
  <2> QED
    BY <1>1, <2>1, <2>2 DEF WindowHasPolls, Wait!Outcomes
<1> QED
  BY <1>6, <1>8, <1>9, <1>10, <1>7 DEF LoopInv

LEMMA AttachStep ==
  ASSUME TypeOK, AnswersAfterCall, AttachTyped, AttachInv, WindowRequired,
         [AttachNext]_attachVars, [Next]_vars
  PROVE  AttachInv'
<1>1. Remembered'
  BY AttachRemembers DEF AttachInv
<1>2. CASE UNCHANGED attachVars
  BY <1>2 DEF attachVars, history, vars, wait, snap, domain, tracker, AttachInv, Remembered,
              Answering, TakenInOrder, SnapshotIsLatest, AllCalled, PollsInOrder, WindowHasPolls, LatestPoll, SinceLatestPoll, NodeView,
              Wait!Ready, Wait!NodeReady, Wait!TopicReady, Wait!EndpointReady
<1>3. CASE AttachNext
  <2>1. LoopInv'
    BY <1>3, ConcurrentKeepsAttach, BeginningKeepsAttach, DeliveryKeepsAttach,
       PausingKeepsAttach, JudgingKeepsAttach DEF AttachNext, LoopStep
  <2> QED
    BY <1>1, <2>1 DEF AttachInv, LoopInv
<1> QED
  BY <1>2, <1>3

LEMMA GrantedWasRequired ==
  ASSUME TypeOK, AttachTyped, AttachInv
  PROVE  RequiredIfAnswering
<1> SUFFICES ASSUME pc = "granted", NEW i \in 1 .. Len(polls), Wait!ReadyRun(i),
                    NEW n \in Nodes \ missed
             PROVE  lastRequired[n] >= polls[i].snapshot.takenAt
  BY DEF RequiredIfAnswering, RequiredInWindow
<1> DEFINE k == Len(polls)
<1>1. /\ k >= 2 /\ k \in Nat
      /\ Wait!Ready(polls[k].snapshot) /\ Wait!Ready(polls[k - 1].snapshot)
  BY TakenAtIsTime DEF AttachInv, WindowHasPolls, LatestPoll
<1>2. i <= k - 1
  <2>1. i = k => ~Wait!Ready(polls[k - 1].snapshot)
    BY <1>1 DEF Wait!ReadyRun
  <2> QED
    BY <1>1, <2>1
<1>3. k \in 2 .. k /\ k - 1 \in 1 .. k
  BY <1>1
<1>4. Wait!NodeReady(n, polls[k].snapshot)
  BY <1>1 DEF Wait!Ready
<1>5. lastRequired[n] >= polls[k - 1].snapshot.takenAt
  BY <1>3, <1>4 DEF AttachInv, PollsInOrder, Answering
<1>6. polls[i].snapshot.takenAt <= polls[k - 1].snapshot.takenAt
  BY <1>2, <1>3 DEF AttachInv, PollsInOrder
<1>7. polls[i].snapshot.takenAt \in Int /\ polls[k - 1].snapshot.takenAt \in Int
  BY <1>3, TakenAtIsTime
<1>8. lastRequired[n] \in Int
  BY TakenAtIsTime
<1> QED
  BY <1>5, <1>6, <1>7, <1>8

(* Readiness is about the robot: where some stability is required, a graph *)
(* found ready has had every node that was there and answered from poll to *)
(* poll in its required state within the window, for any nodes, states,    *)
(* delays and polls, and whatever other nodes do.  (With no stability      *)
(* required one poll grants it, and its answers are from before the        *)
(* window.)                                                                *)
THEOREM ReadyNodesWereRequired ==
  ASSUME WindowRequired
  PROVE  AttachSpec => []RequiredIfAnswering
<1>1. AttachInit => AttachTyped /\ AttachInv
  BY AttachStarts
<1>2. TypeOK /\ AnswersAfterCall /\ AttachTyped /\ AttachInv /\ [Next]_vars
        /\ [AttachNext]_attachVars => (AttachTyped /\ AttachInv)'
  BY AttachKeepsTypes, AttachStep DEF AttachInv
<1>3. TypeOK /\ AttachTyped /\ AttachInv => RequiredIfAnswering
  BY GrantedWasRequired
<1>4. AttachSpec => Spec
  BY AttachedObserver
<1>5. Spec => []TypeOK /\ []AnswersAfterCall /\ [][Next]_vars
  BY Typing, AnswersInOrder, PTL DEF Spec
<1> QED
  BY <1>1, <1>2, <1>3, <1>4, <1>5, PTL DEF AttachSpec

-----------------------------------------------------------------------------
(* Timing.  What holds of neighbours in a sequence and carries over from   *)
(* two stretches to both holds of any two places.                          *)
(* The least of some natural numbers, and the greatest of bounded ones.    *)
LEMMA LeastIsMin ==
  ASSUME NEW S, S \subseteq Nat, S # {}
  PROVE  Min(S) \in S /\ \A y \in S : Min(S) <= y
<1> DEFINE R == {ss \in Nat \X Nat : ss[1] < ss[2]}
<1>1. IsWellFoundedOn(R, Nat)
  BY NatLessThanWellFounded DEF OpToRel
<1>2. \A x, y \in S : y < x => <<y, x>> \in R
  OBVIOUS
<1> HIDE DEF R
<1>3. PICK x \in S : \A y \in S : <<y, x>> \notin R
  BY <1>1, WFMin
<1>4. \A y \in S : ~(y < x)
  BY <1>2, <1>3
<1>5. \A y \in S : x <= y
  BY <1>4
<1> QED
  BY <1>5, Zenon DEF Min

LEMMA GreatestIsMax ==
  ASSUME NEW S, S \subseteq Nat, S # {}, NEW n \in Nat, \A y \in S : y <= n
  PROVE  Max(S) \in S /\ \A y \in S : Max(S) >= y
<1> DEFINE T == {m \in Nat : n - m \in S}
<1>1. \A y \in S : n - y \in T
  OBVIOUS
<1>2. T # {} /\ T \subseteq Nat
  BY <1>1
<1> HIDE DEF T
<1>3. Min(T) \in T /\ \A m \in T : Min(T) <= m
  BY <1>2, LeastIsMin
<1>4. n - Min(T) \in S
  BY <1>3 DEF T
<1>5. \A y \in S : n - Min(T) >= y
  <2> SUFFICES ASSUME NEW y \in S PROVE n - Min(T) >= y
    OBVIOUS
  <2>1. Min(T) <= n - y /\ Min(T) \in Nat /\ y \in Nat
    BY <1>1, <1>2, <1>3
  <2> QED
    BY <2>1
<1>6. \E x \in S : \A y \in S : x >= y
  BY <1>4, <1>5
<1> QED
  BY <1>6, Zenon DEF Max


LEMMA Chained ==
  ASSUME NEW n \in Nat, NEW R,
         \A i \in 1 .. n : i + 1 \in 1 .. n => <<i, i + 1>> \in R,
         \A i, j, k \in 1 .. n :
           i < j /\ j < k /\ <<i, j>> \in R /\ <<j, k>> \in R => <<i, k>> \in R,
         NEW a \in 1 .. n, NEW b \in 1 .. n, a < b
  PROVE  <<a, b>> \in R
<1> DEFINE bad == {d \in Nat : \E i \in 1 .. n : d >= 1 /\ i + d \in 1 .. n /\ <<i, i + d>> \notin R}
<1>1. bad = {}
  <2> SUFFICES ASSUME bad # {} PROVE FALSE
    OBVIOUS
  <2>1. bad \subseteq Nat
    OBVIOUS
  <2>2. Min(bad) \in bad /\ \A y \in bad : Min(bad) <= y
    BY <2>1, LeastIsMin
  <2>3. PICK d \in bad : \A y \in bad : d <= y
    BY <2>2
  <2>4. PICK i \in 1 .. n : d \in Nat /\ d >= 1 /\ i + d \in 1 .. n /\ <<i, i + d>> \notin R
    OBVIOUS
  <2>5. d # 1
    BY <2>4
  <2>6. d - 1 \in Nat /\ d - 1 >= 1 /\ i + (d - 1) \in 1 .. n
    BY <2>4, <2>5
  <2>7. d - 1 \notin bad
    <3> HIDE DEF bad
    <3> QED
      BY <2>3, <2>4
  <2>8. <<i, i + (d - 1)>> \in R
    BY <2>6, <2>7
  <2> HIDE DEF bad
  <2>9. PICK j \in 1 .. n : j = i + (d - 1)
    BY <2>6
  <2>10. j + 1 = i + d /\ i < j
    BY <2>4, <2>6, <2>9
  <2>11. <<j, i + d>> \in R
    BY <2>4, <2>10
  <2> QED
    BY <2>4, <2>8, <2>9, <2>10, <2>11
<1>2. b - a \in Nat /\ b - a >= 1 /\ a + (b - a) = b
  OBVIOUS
<1>3. b - a \notin bad
  BY <1>1
<1> QED
  BY <1>2, <1>3

LEMMA Distributes ==
  ASSUME NEW a \in Int, NEW b \in Int, NEW c \in Int
  PROVE  (a + b) * c = a * c + b * c /\ c * (a + b) = c * a + c * b
OBVIOUS

LEMMA Telescopes ==
  ASSUME NEW a \in Int, NEW b \in Int, NEW c \in Int
  PROVE  (b - a) + (c - b) = c - a
OBVIOUS

LEMMA ProductGrows ==
  ASSUME NEW a \in Int, NEW b \in Int, a <= b, NEW c \in Nat
  PROVE  a * c <= b * c /\ a * c \in Int /\ b * c \in Int
<1>1. (b - a) * c >= 0
  <2>1. b - a \in Nat
    OBVIOUS
  <2> DEFINE d == b - a
  <2>2. d \in Nat
    BY <2>1
  <2> HIDE DEF d
  <2>3. d * c >= 0
    BY <2>2
  <2> QED
    BY <2>3 DEF d
<1>2. b * c = a * c + (b - a) * c
  <2> DEFINE d == b - a
  <2>1. d \in Int /\ b = a + d
    OBVIOUS
  <2> HIDE DEF d
  <2>2. (a + d) * c = a * c + d * c
    BY <2>1, Distributes
  <2> QED
    BY <2>1, <2>2 DEF d
<1> DEFINE x == (b - a) * c
           y == a * c
           z == b * c
<1>3. x \in Int /\ y \in Int /\ z \in Int
  OBVIOUS
<1>4. x >= 0 /\ z = y + x
  BY <1>1, <1>2
<1> HIDE DEF x, y, z
<1>5. y <= z
  BY <1>3, <1>4
<1> QED
  BY <1>3, <1>5 DEF y, z

-----------------------------------------------------------------------------
(* delta is a number of steps that k transitions may take, as exactly as k *)
(* of them can be told.                                                    *)
WholeSteps(delta, k) ==
  \E n \in 0 .. k * (MaxSkipped + 1) : delta - n * Step \in -(k * Slack) .. k * Slack

LEMMA StepsAdd ==
  ASSUME NEW d \in Int, NEW e \in Int, NEW k \in Nat, NEW l \in Nat,
         WholeSteps(d, k), WholeSteps(e, l)
  PROVE  WholeSteps(d + e, k + l)
<1> DEFINE most == MaxSkipped + 1
<1>1. Step \in Nat /\ Slack \in Nat /\ most \in Nat
  BY TimingAssumption
<1> HIDE DEF most
<1>2. PICK n \in 0 .. k * most : d - n * Step \in -(k * Slack) .. k * Slack
  BY DEF WholeSteps, most
<1>3. PICK m \in 0 .. l * most : e - m * Step \in -(l * Slack) .. l * Slack
  BY DEF WholeSteps, most
<1>4. /\ (k + l) * most = k * most + l * most
      /\ (k + l) * Slack = k * Slack + l * Slack
      /\ (n + m) * Step = n * Step + m * Step
  BY <1>1, Distributes
<1> DEFINE km == k * most
           lm == l * most
           ks == k * Slack
           ls == l * Slack
           ns == n * Step
           ms == m * Step
<1>5. km \in Int /\ lm \in Int /\ ks \in Int /\ ls \in Int /\ ns \in Int /\ ms \in Int
  BY <1>1
<1>6. n \in 0 .. km /\ m \in 0 .. lm /\ d - ns \in -ks .. ks /\ e - ms \in -ls .. ls
  BY <1>2, <1>3
<1> HIDE DEF km, lm, ks, ls, ns, ms
<1>7. n + m \in 0 .. km + lm /\ (d + e) - (ns + ms) \in -(ks + ls) .. (ks + ls)
  BY <1>5, <1>6
<1>8. n + m \in 0 .. (k + l) * most
      /\ (d + e) - (n + m) * Step \in -((k + l) * Slack) .. (k + l) * Slack
  BY <1>4, <1>7 DEF km, lm, ks, ls, ns, ms
<1> QED
  BY <1>8 DEF WholeSteps, most

LEMMA StepsWithin ==
  ASSUME NEW d \in Int, NEW k \in Nat, NEW l \in Nat, k <= l, WholeSteps(d, k)
  PROVE  WholeSteps(d, l)
<1> DEFINE most == MaxSkipped + 1
<1>1. Step \in Nat /\ Slack \in Nat /\ most \in Nat
  BY TimingAssumption
<1> HIDE DEF most
<1>2. PICK n \in 0 .. k * most : d - n * Step \in -(k * Slack) .. k * Slack
  BY DEF WholeSteps, most
<1>3. /\ k * most <= l * most /\ k * most \in Int /\ l * most \in Int
      /\ k * Slack <= l * Slack /\ k * Slack \in Int /\ l * Slack \in Int
  BY <1>1, ProductGrows
<1> DEFINE ns == n * Step
           km == k * most
           lm == l * most
           ks == k * Slack
           ls == l * Slack
<1>4. ns \in Int /\ n \in 0 .. km /\ d - ns \in -ks .. ks
  BY <1>1, <1>2
<1>5. km <= lm /\ ks <= ls /\ km \in Int /\ lm \in Int /\ ks \in Int /\ ls \in Int
  BY <1>3
<1> HIDE DEF ns, km, lm, ks, ls
<1>6. n \in 0 .. lm /\ d - ns \in -ls .. ls
  BY <1>4, <1>5
<1> QED
  BY <1>6 DEF WholeSteps, most, ns, lm, ls

LEMMA NoSteps == ASSUME NEW k \in Nat PROVE WholeSteps(0, k)
<1> DEFINE most == MaxSkipped + 1
<1>1. Step \in Nat /\ Slack \in Nat /\ most \in Nat
  BY TimingAssumption
<1> HIDE DEF most
<1>2. 0 * most = 0 /\ 0 * Slack = 0 /\ 0 * Step = 0
  BY <1>1
<1>3. WholeSteps(0, 0)
  BY <1>1, <1>2 DEF WholeSteps, most
<1> QED
  BY <1>3, StepsWithin

LEMMA StepsType == ASSUME NEW delta \in Int PROVE Steps(delta) \in Int /\ Steps(delta) >= 1
<1> DEFINE x == (2 * delta + Step) \div (2 * Step)
<1>1. x \in Int
  <2> DEFINE u == 2 * delta + Step
             v == 2 * Step
  <2>1. u \in Int /\ v \in Nat \ {0}
    BY TimingAssumption
  <2> HIDE DEF u, v
  <2>2. u \div v \in Int
    BY <2>1
  <2> QED
    BY <2>2 DEF u, v
<1>2. Steps(delta) = Max({1, x})
  BY DEF Steps
<1> HIDE DEF x
<1>3. \E m \in {1, x} : \A y \in {1, x} : m >= y
  BY <1>1
<1>4. Max({1, x}) \in {1, x} /\ \A y \in {1, x} : Max({1, x}) >= y
  BY <1>3, Zenon DEF Max
<1> QED
  BY <1>1, <1>2, <1>4

-----------------------------------------------------------------------------
(* What a policy that passes on a sequence of samples says of any two.     *)
LEMMA SampleFields ==
  ASSUME NEW ss \in Seq(Sample)
  PROVE  /\ Len(ss) \in Nat /\ DOMAIN ss = 1 .. Len(ss)
         /\ \A i \in 1 .. Len(ss) : ss[i].at \in Int /\ ss[i].source \in Int
         /\ \A i \in 1 .. Len(ss) : i + 1 \in 1 .. Len(ss) => i \in Gaps(ss)
<1>1. \A s \in Sample : s.at \in Int /\ s.source \in Int
  <2>1. SourceTimes \subseteq Int
    BY TimingAssumption
  <2>2. 0 .. MaxTime \subseteq Int
    BY RosAssumption
  <2> QED
    BY <2>1, <2>2 DEF Sample
<1>2. Len(ss) \in Nat /\ DOMAIN ss = 1 .. Len(ss) /\ \A i \in 1 .. Len(ss) : ss[i] \in Sample
  OBVIOUS
<1> QED
  BY <1>1, <1>2 DEF Gaps

LEMMA MonotonicAll ==
  ASSUME NEW ss \in Seq(Sample), Monotonic(ss),
         NEW a \in 1 .. Len(ss), NEW b \in 1 .. Len(ss), a < b
  PROVE  ss[b].source >= ss[a].source
<1> DEFINE n == Len(ss)
           R == {p \in (1 .. n) \X (1 .. n) : ss[p[2]].source >= ss[p[1]].source}
<1>1. n \in Nat /\ \A i \in 1 .. n : ss[i].source \in Int
  BY SampleFields
<1>2. ASSUME NEW i \in 1 .. n, i + 1 \in 1 .. n PROVE <<i, i + 1>> \in R
  <2>1. i \in Gaps(ss)
    BY <1>2, SampleFields
  <2>2. ss[i + 1].source - ss[i].source >= 0
    BY <2>1 DEF Monotonic, SourceDelta
  <2> QED
    BY <1>1, <1>2, <2>2
<1>3. \A i, j, k \in 1 .. n :
        i < j /\ j < k /\ <<i, j>> \in R /\ <<j, k>> \in R => <<i, k>> \in R
  BY <1>1
<1>4. a \in 1 .. n /\ b \in 1 .. n
  OBVIOUS
<1> HIDE DEF R, n
<1>5. <<a, b>> \in R
  BY <1>1, <1>2, <1>3, <1>4, Chained
<1> QED
  BY <1>5 DEF R

LEMMA PaceAll ==
  ASSUME NEW ss \in Seq(Sample), KeepsPace(ss),
         NEW a \in 1 .. Len(ss), NEW b \in 1 .. Len(ss), a < b
  PROVE  /\ ss[b].at - ss[a].at > 0
         /\ ss[b].source - ss[a].source >= MinFactor * (ss[b].at - ss[a].at)
<1> DEFINE n == Len(ss)
           Pace(i, j) == /\ ss[j].at - ss[i].at > 0
                         /\ ss[j].source - ss[i].source >= MinFactor * (ss[j].at - ss[i].at)
           R == {p \in (1 .. n) \X (1 .. n) : Pace(p[1], p[2])}
<1>1. n \in Nat /\ \A i \in 1 .. n : ss[i].source \in Int /\ ss[i].at \in Int
  BY SampleFields
<1>2. ASSUME NEW i \in 1 .. n, i + 1 \in 1 .. n PROVE <<i, i + 1>> \in R
  <2>1. i \in Gaps(ss)
    BY <1>2, SampleFields
  <2>2. Pace(i, i + 1)
    BY <2>1 DEF KeepsPace, SourceDelta, WallDelta
  <2> QED
    BY <1>2, <2>2
<1>3. ASSUME NEW i \in 1 .. n, NEW j \in 1 .. n, NEW k \in 1 .. n, Pace(i, j), Pace(j, k)
      PROVE  Pace(i, k)
  <2>1. PICK x \in Int : x = ss[j].at - ss[i].at
    BY <1>1
  <2>2. PICK y \in Int : y = ss[k].at - ss[j].at
    BY <1>1
  <2>3. PICK u \in Int : u = ss[j].source - ss[i].source
    BY <1>1
  <2>4. PICK v \in Int : v = ss[k].source - ss[j].source
    BY <1>1
  <2>5. ss[k].at - ss[i].at = x + y /\ ss[k].source - ss[i].source = u + v
    <3>1. /\ ss[i].at \in Int /\ ss[j].at \in Int /\ ss[k].at \in Int
          /\ ss[i].source \in Int /\ ss[j].source \in Int /\ ss[k].source \in Int
      BY <1>1
    <3>2. (ss[j].at - ss[i].at) + (ss[k].at - ss[j].at) = ss[k].at - ss[i].at
      BY <3>1, Telescopes
    <3>3. (ss[j].source - ss[i].source) + (ss[k].source - ss[j].source)
             = ss[k].source - ss[i].source
      BY <3>1, Telescopes
    <3> QED
      BY <3>2, <3>3, <2>1, <2>2, <2>3, <2>4
  <2>6. x > 0 /\ y > 0 /\ u >= MinFactor * x /\ v >= MinFactor * y
    BY <1>3, <2>1, <2>2, <2>3, <2>4
  <2>7. MinFactor * (x + y) = MinFactor * x + MinFactor * y
    BY TimingAssumption, Distributes
  <2> DEFINE p == MinFactor * x
             q == MinFactor * y
  <2>8. p \in Int /\ q \in Int
    BY TimingAssumption
  <2>9. u >= p /\ v >= q
    BY <2>6
  <2> HIDE DEF p, q
  <2>10. u + v >= p + q /\ x + y > 0
    BY <2>6, <2>8, <2>9
  <2>11. u + v >= MinFactor * (x + y)
    BY <2>7, <2>10 DEF p, q
  <2> QED
    BY <2>5, <2>10, <2>11
<1> HIDE DEF Pace
<1>4. \A i, j, k \in 1 .. n :
        i < j /\ j < k /\ <<i, j>> \in R /\ <<j, k>> \in R => <<i, k>> \in R
  BY <1>3
<1>5. a \in 1 .. n /\ b \in 1 .. n
  OBVIOUS
<1> HIDE DEF R, n
<1>6. <<a, b>> \in R
  BY <1>1, <1>2, <1>4, <1>5, Chained
<1> QED
  BY <1>6 DEF R, Pace

LEMMA StepsAll ==
  ASSUME NEW ss \in Seq(Sample), InSteps(ss),
         NEW a \in 1 .. Len(ss), NEW b \in 1 .. Len(ss), a < b
  PROVE  WholeSteps(ss[b].source - ss[a].source, b - a)
<1> DEFINE n == Len(ss)
           R == {p \in (1 .. n) \X (1 .. n) :
                   p[1] < p[2] /\ WholeSteps(ss[p[2]].source - ss[p[1]].source, p[2] - p[1])}
<1>1. n \in Nat /\ \A i \in 1 .. n : ss[i].source \in Int
  BY SampleFields
<1>2. ASSUME NEW i \in 1 .. n, i + 1 \in 1 .. n PROVE <<i, i + 1>> \in R
  <2>1. i \in Gaps(ss)
    BY <1>2, SampleFields
  <2>2. PICK delta \in Int : delta = ss[i + 1].source - ss[i].source
    BY <1>1, <1>2
  <2>3. SourceDelta(ss, i) = delta
    BY <2>2 DEF SourceDelta
  <2>4. ASSUME delta = 0 PROVE WholeSteps(delta, 1)
    BY <2>4, NoSteps
  <2>5. ASSUME delta # 0 PROVE WholeSteps(delta, 1)
    <3>1. /\ delta - Steps(delta) * Step \in -Slack .. Slack
          /\ Steps(delta) - 1 <= MaxSkipped
      BY <2>1, <2>3, <2>5 DEF InSteps
    <3>2. Steps(delta) \in Int /\ Steps(delta) >= 1
      BY StepsType
    <3>3. MaxSkipped \in Nat /\ Slack \in Nat /\ Step \in Nat
      BY TimingAssumption
    <3>4. 1 * (MaxSkipped + 1) = MaxSkipped + 1 /\ 1 * Slack = Slack
      BY <3>3
    <3>5. Steps(delta) \in 0 .. 1 * (MaxSkipped + 1)
      BY <3>1, <3>2, <3>3, <3>4
    <3>6. delta - Steps(delta) * Step \in -(1 * Slack) .. 1 * Slack
      BY <3>1, <3>4
    <3> QED
      BY <3>5, <3>6 DEF WholeSteps
  <2>6. WholeSteps(delta, 1)
    BY <2>4, <2>5
  <2>7. (i + 1) - i = 1 /\ i < i + 1
    OBVIOUS
  <2> QED
    BY <1>2, <2>2, <2>6, <2>7
<1>3. ASSUME NEW i \in 1 .. n, NEW j \in 1 .. n, NEW k \in 1 .. n,
             <<i, j>> \in R, <<j, k>> \in R
      PROVE  <<i, k>> \in R
  <2>1. PICK d \in Int : d = ss[j].source - ss[i].source
    BY <1>1
  <2>2. PICK e \in Int : e = ss[k].source - ss[j].source
    BY <1>1
  <2>3. /\ i < j /\ j < k /\ WholeSteps(d, j - i) /\ WholeSteps(e, k - j)
    BY <1>3, <2>1, <2>2
  <2>4. j - i \in Nat /\ k - j \in Nat /\ (j - i) + (k - j) = k - i /\ i < k
    BY <2>3
  <2>5. WholeSteps(d + e, (j - i) + (k - j))
    BY <2>3, <2>4, StepsAdd
  <2>6. d + e = ss[k].source - ss[i].source
    <3>1. ss[i].source \in Int /\ ss[j].source \in Int /\ ss[k].source \in Int
      BY <1>1
    <3>2. (ss[j].source - ss[i].source) + (ss[k].source - ss[j].source)
             = ss[k].source - ss[i].source
      BY <3>1, Telescopes
    <3> QED
      BY <3>2, <2>1, <2>2
  <2> QED
    BY <2>4, <2>5, <2>6
<1>4. \A i, j, k \in 1 .. n :
        i < j /\ j < k /\ <<i, j>> \in R /\ <<j, k>> \in R => <<i, k>> \in R
  <2> HIDE DEF R, n
  <2> QED
    BY <1>3
<1>5. a \in 1 .. n /\ b \in 1 .. n
  OBVIOUS
<1> HIDE DEF R, n
<1>6. <<a, b>> \in R
  BY <1>1, <1>2, <1>4, <1>5, Chained
<1> QED
  BY <1>6 DEF R

-----------------------------------------------------------------------------
(* Samples in order of observation: the measured ones are neighbours.      *)
InTimeOrder(ss) == \A i, j \in 1 .. Len(ss) : i < j => ss[i].at <= ss[j].at

Kept(ss, from, to) == {i \in DOMAIN ss : ss[i].at >= from /\ ss[i].at <= to}

LEMMA KeptIsInterval ==
  ASSUME NEW ss \in Seq(Sample), InTimeOrder(ss), NEW from \in Int, NEW to \in Int,
         Kept(ss, from, to) # {}
  PROVE  \E a, b \in 1 .. Len(ss) : a <= b /\ Kept(ss, from, to) = a .. b
<1> DEFINE K == Kept(ss, from, to)
<1>1. /\ Len(ss) \in Nat /\ DOMAIN ss = 1 .. Len(ss)
      /\ \A i \in 1 .. Len(ss) : ss[i].at \in Int
  BY SampleFields
<1>2. K \subseteq 1 .. Len(ss) /\ \A i \in 1 .. Len(ss) : i \in K <=> ss[i].at >= from /\ ss[i].at <= to
  BY <1>1 DEF Kept
<1> HIDE DEF K
<1>3. K \subseteq Nat /\ K # {} /\ \A y \in K : y <= Len(ss)
  BY <1>1, <1>2 DEF K
<1>4. PICK a \in K : \A y \in K : a <= y
  BY <1>3, LeastIsMin
<1>5. PICK b \in K : \A y \in K : b >= y
  BY <1>1, <1>3, GreatestIsMax
<1>6. a \in 1 .. Len(ss) /\ b \in 1 .. Len(ss) /\ a <= b
  BY <1>2, <1>4, <1>5
<1>7. ASSUME NEW i \in a .. b PROVE i \in K
  <2>1. i \in 1 .. Len(ss) /\ a <= i /\ i <= b
    BY <1>1, <1>6
  <2>2. ss[a].at <= ss[i].at /\ ss[i].at <= ss[b].at
    BY <1>1, <1>6, <2>1 DEF InTimeOrder
  <2>3. ss[a].at >= from /\ ss[b].at <= to
    BY <1>2, <1>4, <1>5
  <2>4. ss[a].at \in Int /\ ss[b].at \in Int /\ ss[i].at \in Int
    BY <1>1, <1>6, <2>1
  <2>5. ss[i].at >= from /\ ss[i].at <= to
    <3> DEFINE x == ss[i].at
               y == ss[a].at
               z == ss[b].at
    <3>1. x \in Int /\ y \in Int /\ z \in Int /\ y <= x /\ x <= z /\ y >= from /\ z <= to
      BY <2>2, <2>3, <2>4
    <3> HIDE DEF x, y, z
    <3>2. x >= from /\ x <= to
      BY <3>1
    <3> QED
      BY <3>2 DEF x
  <2> QED
    BY <1>2, <2>1, <2>5
<1>8. \A i \in K : i \in a .. b
  BY <1>2, <1>4, <1>5, <1>6
<1>9. K = a .. b
  BY <1>7, <1>8
<1> QED
  BY <1>6, <1>9 DEF K

LEMMA MeasuredIs ==
  ASSUME NEW ss \in Seq(Sample), NEW from \in Int, NEW to \in Int,
         NEW a \in 1 .. Len(ss), NEW b \in 1 .. Len(ss), a <= b,
         Kept(ss, from, to) = a .. b
  PROVE  /\ Measured(ss, from, to) \in Seq(Sample)
         /\ Len(Measured(ss, from, to)) = b - a + 1
         /\ \A n \in 1 .. b - a + 1 : Measured(ss, from, to)[n] = ss[a + n - 1]
<1> DEFINE K == Kept(ss, from, to)
           place(n) == CHOOSE i \in K : Cardinality({k \in K : k <= i}) = n
           size == b - a + 1
<1>1. a \in Nat /\ b \in Nat /\ size \in Nat /\ a \in Int /\ b \in Int
  BY SampleFields
<1>2. Cardinality(a .. b) = size
  BY <1>1, FS_Interval
<1>3. ASSUME NEW i \in a .. b PROVE Cardinality({k \in a .. b : k <= i}) = i - a + 1
  <2>1. {k \in a .. b : k <= i} = a .. i /\ i \in Int /\ ~(a > i)
    BY <1>1
  <2> QED
    BY <1>1, <2>1, FS_Interval
<1>4. ASSUME NEW n \in 1 .. size PROVE place(n) = a + n - 1
  <2>1. a + n - 1 \in a .. b /\ (a + n - 1) - a + 1 = n
    BY <1>1
  <2>2. \A i \in a .. b : i - a + 1 = n <=> i = a + n - 1
    BY <1>1
  <2>3. \A i \in a .. b : Cardinality({k \in a .. b : k <= i}) = n <=> i = a + n - 1
    BY <1>3, <2>2
  <2>4. \A i \in K : Cardinality({k \in K : k <= i}) = n <=> i = a + n - 1
    BY <2>3
  <2>5. a + n - 1 \in K
    BY <2>1
  <2> QED
    BY <2>4, <2>5
<1>5. Measured(ss, from, to) = [n \in 1 .. size |-> ss[place(n)]]
  BY <1>2 DEF Measured, Kept
<1> DEFINE m == Measured(ss, from, to)
<1>6. m = [n \in 1 .. size |-> ss[a + n - 1]]
  BY <1>4, <1>5
<1> HIDE DEF m, place, K
<1>7. \A n \in 1 .. size : ss[a + n - 1] \in Sample
  <2>1. \A n \in 1 .. size : a + n - 1 \in 1 .. Len(ss)
    BY <1>1, SampleFields
  <2> QED
    BY <2>1
<1> HIDE DEF size
<1>8. m \in [1 .. size -> Sample] /\ \A n \in 1 .. size : m[n] = ss[a + n - 1]
  BY <1>6, <1>7
<1>9. m \in Seq(Sample) /\ Len(m) = size
  BY <1>1, <1>8
<1> QED
  BY <1>8, <1>9 DEF m, size

LEMMA MeasuredNothing ==
  ASSUME NEW ss \in Seq(Sample), NEW from, NEW to, Kept(ss, from, to) = {}
  PROVE  Measured(ss, from, to) = << >>
<1> DEFINE K == Kept(ss, from, to)
           place(n) == CHOOSE i \in K : Cardinality({k \in K : k <= i}) = n
           m == Measured(ss, from, to)
<1>1. m = [n \in 1 .. Cardinality(K) |-> ss[place(n)]]
  BY DEF Measured, Kept
<1>2. Cardinality(K) = 0
  BY FS_EmptySet
<1> HIDE DEF m, place, K
<1>3. m \in [1 .. 0 -> Sample]
  BY <1>1, <1>2
<1>4. m \in Seq(Sample) /\ Len(m) = 0
  BY <1>3
<1> QED
  BY <1>4, EmptySeq DEF m

-----------------------------------------------------------------------------
(* Samples ss are the messages hs with the repetitions left out: g says    *)
(* which sample stands for a message.                                      *)
IsTurn(hs, i) == i = 1 \/ hs[i - 1].source # hs[i].source

Thins(g, ss, hs) ==
  /\ g \in [1 .. Len(hs) -> 1 .. Len(ss)]
  /\ \A i \in 1 .. Len(hs) :
       /\ ss[g[i]].source = hs[i].source
       /\ IsTurn(hs, i) => ss[g[i]] = hs[i]
  /\ \A i, j \in 1 .. Len(hs) :
       i < j => /\ g[i] <= g[j] /\ g[j] <= g[i] + (j - i)
                /\ IsTurn(hs, j) => g[i] < g[j]
  /\ \A k \in 1 .. Len(ss) : \E i \in 1 .. Len(hs) : IsTurn(hs, i) /\ g[i] = k

(* Unless the buffer overflowed, nothing but repetitions is left out.      *)
Thinned == ~overflow => \E g : Thins(g, samples, heard)

(* Messages are heard in the order of their time stamps.                   *)
HeardInOrder ==
  /\ \A i, j \in 1 .. Len(heard) : i < j => heard[i].at <= heard[j].at
  /\ \A i \in 1 .. Len(heard) :
       heard[i].at <= now /\ (stamp # None => heard[i].at <= stamp.at)

ClockHistory == Thinned /\ HeardInOrder

LEMMA HeardTimes ==
  ASSUME ClockTyped
  PROVE  /\ Len(heard) \in Nat /\ Len(samples) \in Nat
         /\ \A i \in 1 .. Len(heard) : heard[i].at \in Int
         /\ \A i \in 1 .. Len(heard) : heard[i] \in Sample
         /\ \A i \in 1 .. Len(samples) : samples[i] \in Sample
<1>1. heard \in Seq(Sample) /\ samples \in Seq(Sample)
  BY DEF ClockTyped
<1> QED
  BY <1>1, SampleFields

LEMMA RecordingKeepsHeard ==
  ASSUME ClockTyped, StampIsLatest, HeardInOrder, ClockRecorded
  PROVE  HeardInOrder'
<1>1. /\ stamp # None /\ stamp' = None /\ now' = now /\ stamp.at <= now
      /\ heard' = heard \/ heard' = Append(heard, stamp)
  BY DEF ClockRecorded, StampIsLatest
<1>2. CASE heard' = heard
  BY <1>1, <1>2 DEF HeardInOrder
<1>3. CASE heard' = Append(heard, stamp)
  <2>1. stamp \in Sample /\ heard \in Seq(Sample)
    BY <1>1 DEF ClockTyped
  <2>2. /\ Len(heard') = Len(heard) + 1 /\ Len(heard) \in Nat
        /\ \A i \in 1 .. Len(heard) : heard'[i] = heard[i]
        /\ heard'[Len(heard) + 1] = stamp
    BY <1>3, <2>1
  <2>3. ASSUME NEW i \in 1 .. Len(heard'), NEW j \in 1 .. Len(heard'), i < j
        PROVE  heard'[i].at <= heard'[j].at
    <3>1. i \in 1 .. Len(heard) /\ heard'[i] = heard[i]
      BY <2>2, <2>3
    <3>2. CASE j = Len(heard) + 1
      BY <1>1, <2>2, <3>1, <3>2 DEF HeardInOrder
    <3>3. CASE j # Len(heard) + 1
      <4>1. j \in 1 .. Len(heard) /\ heard'[j] = heard[j]
        BY <2>2, <3>3
      <4> QED
        BY <2>3, <3>1, <4>1 DEF HeardInOrder
    <3> QED
      BY <3>2, <3>3
  <2>4. ASSUME NEW i \in 1 .. Len(heard') PROVE heard'[i].at <= now
    <3>1. CASE i = Len(heard) + 1
      BY <1>1, <2>2, <3>1
    <3>2. CASE i # Len(heard) + 1
      <4>1. i \in 1 .. Len(heard) /\ heard'[i] = heard[i]
        BY <2>2, <3>2
      <4> QED
        BY <4>1 DEF HeardInOrder
    <3> QED
      BY <3>1, <3>2
  <2> QED
    BY <1>1, <2>3, <2>4 DEF HeardInOrder
<1> QED
  BY <1>1, <1>2, <1>3

LEMMA AppendIs ==
  ASSUME NEW ss \in Seq(Sample), NEW s \in Sample
  PROVE  /\ Append(ss, s) \in Seq(Sample) /\ Len(Append(ss, s)) = Len(ss) + 1
         /\ Append(ss, s)[Len(ss) + 1] = s
         /\ \A i \in 1 .. Len(ss) : Append(ss, s)[i] = ss[i]
         /\ Len(ss) \in Nat
OBVIOUS

(* The last message is stood for by the last sample.                       *)
LEMMA LastThins ==
  ASSUME NEW ss \in Seq(Sample), NEW hs \in Seq(Sample), NEW g, Thins(g, ss, hs)
  PROVE  /\ Len(hs) > 0 <=> Len(ss) > 0
         /\ Len(hs) > 0 => g[Len(hs)] = Len(ss) /\ ss[Len(ss)].source = hs[Len(hs)].source
<1>1. Len(ss) \in Nat /\ Len(hs) \in Nat
  OBVIOUS
<1>2. ASSUME Len(hs) > 0
      PROVE  /\ Len(ss) > 0 /\ g[Len(hs)] = Len(ss)
             /\ ss[Len(ss)].source = hs[Len(hs)].source
  <2>1. Len(hs) \in 1 .. Len(hs)
    BY <1>1, <1>2
  <2>2. g[Len(hs)] \in 1 .. Len(ss) /\ ss[g[Len(hs)]].source = hs[Len(hs)].source
    BY <2>1 DEF Thins
  <2>3. Len(ss) \in 1 .. Len(ss)
    BY <1>1, <2>2
  <2>4. PICK i \in 1 .. Len(hs) : g[i] = Len(ss)
    BY <2>3 DEF Thins
  <2>5. i < Len(hs) => g[i] <= g[Len(hs)]
    BY <2>1 DEF Thins
  <2>6. i < Len(hs) \/ i = Len(hs)
    BY <1>1
  <2>7. g[Len(hs)] = Len(ss)
    BY <1>1, <2>2, <2>4, <2>5, <2>6
  <2> QED
    BY <1>1, <2>2, <2>3, <2>7
<1>3. ASSUME Len(ss) > 0 PROVE Len(hs) > 0
  <2>1. Len(ss) \in 1 .. Len(ss)
    BY <1>1, <1>3
  <2>2. PICK i \in 1 .. Len(hs) : g[i] = Len(ss)
    BY <2>1 DEF Thins
  <2> QED
    BY <1>1
<1> QED
  BY <1>1, <1>2, <1>3

(* A new source time is a turn, and has a sample of its own.               *)
LEMMA TurnThins ==
  ASSUME NEW ss \in Seq(Sample), NEW hs \in Seq(Sample), NEW g, Thins(g, ss, hs),
         NEW s \in Sample, ss = << >> \/ ss[Len(ss)].source # s.source
  PROVE  \E h : Thins(h, Append(ss, s), Append(hs, s))
<1> DEFINE n == Len(hs)
           m == Len(ss)
           h == [i \in 1 .. n + 1 |-> IF i = n + 1 THEN m + 1 ELSE g[i]]
           tt == Append(ss, s)
           is == Append(hs, s)
<1>1. /\ n \in Nat /\ m \in Nat /\ Len(tt) = m + 1 /\ Len(is) = n + 1
      /\ tt[m + 1] = s /\ is[n + 1] = s
      /\ \A i \in 1 .. m : tt[i] = ss[i]
      /\ \A i \in 1 .. n : is[i] = hs[i]
  BY AppendIs
<1>2. \A i \in 1 .. n : g[i] \in 1 .. m
  BY DEF Thins
<1>3. IsTurn(is, n + 1)
  <2>1. CASE n = 0
    BY <2>1 DEF IsTurn
  <2>2. CASE n # 0
    <3>1. n > 0 /\ n \in 1 .. n /\ (n + 1) - 1 = n
      BY <1>1, <2>2
    <3>2. m > 0 /\ ss[m].source = hs[n].source
      BY <3>1, LastThins
    <3>3. hs[n].source # s.source
      BY <3>2
    <3>4. is[n] = hs[n]
      BY <1>1, <3>1
    <3> QED
      BY <1>1, <3>1, <3>3, <3>4 DEF IsTurn
  <2> QED
    BY <2>1, <2>2
<1>4. \A i \in 1 .. n : IsTurn(is, i) <=> IsTurn(hs, i)
  <2> SUFFICES ASSUME NEW i \in 1 .. n PROVE IsTurn(is, i) <=> IsTurn(hs, i)
    OBVIOUS
  <2>1. is[i] = hs[i] /\ (i # 1 => i - 1 \in 1 .. n)
    BY <1>1
  <2>2. i # 1 => is[i - 1] = hs[i - 1]
    BY <1>1, <2>1
  <2> QED
    BY <2>1, <2>2 DEF IsTurn
<1>5. h[n + 1] = m + 1 /\ \A i \in 1 .. n : h[i] = g[i]
  BY <1>1
<1>6. h \in [1 .. n + 1 -> 1 .. m + 1]
  <2> SUFFICES ASSUME NEW i \in 1 .. n + 1 PROVE h[i] \in 1 .. m + 1
    OBVIOUS
  <2> QED
    BY <1>1, <1>2
<1> HIDE DEF h, tt, is
<1>7. ASSUME NEW i \in 1 .. n + 1
      PROVE  tt[h[i]].source = is[i].source /\ (IsTurn(is, i) => tt[h[i]] = is[i])
  <2>1. CASE i = n + 1
    BY <1>1, <1>5, <2>1
  <2>2. CASE i # n + 1
    <3>1. i \in 1 .. n
      BY <1>1, <2>2
    <3>2. h[i] = g[i] /\ tt[g[i]] = ss[g[i]] /\ is[i] = hs[i]
      BY <1>1, <1>2, <1>5, <3>1
    <3>3. ss[g[i]].source = hs[i].source /\ (IsTurn(hs, i) => ss[g[i]] = hs[i])
      BY <3>1 DEF Thins
    <3> QED
      BY <1>4, <3>1, <3>2, <3>3
  <2> QED
    BY <2>1, <2>2
<1>8. ASSUME NEW i \in 1 .. n + 1, NEW j \in 1 .. n + 1, i < j
      PROVE  /\ h[i] <= h[j] /\ h[j] <= h[i] + (j - i)
             /\ IsTurn(is, j) => h[i] < h[j]
  <2>1. i \in 1 .. n /\ h[i] = g[i] /\ g[i] \in 1 .. m
    BY <1>1, <1>2, <1>5, <1>8
  <2>2. CASE j = n + 1
    <3>1. n \in 1 .. n /\ n > 0
      BY <1>1, <2>1
    <3>2. g[n] = m
      BY <3>1, LastThins
    <3>3. i < n => g[n] <= g[i] + (n - i)
      BY <2>1, <3>1 DEF Thins
    <3>4. m <= g[i] + (n - i)
      BY <1>1, <2>1, <3>2, <3>3
    <3>5. h[j] = m + 1
      BY <1>5, <2>2
    <3> QED
      BY <1>1, <2>1, <2>2, <3>4, <3>5
  <2>3. CASE j # n + 1
    <3>1. j \in 1 .. n /\ h[j] = g[j]
      BY <1>1, <1>5, <2>3
    <3>2. /\ g[i] <= g[j] /\ g[j] <= g[i] + (j - i)
          /\ IsTurn(hs, j) => g[i] < g[j]
      BY <1>8, <2>1, <3>1 DEF Thins
    <3> QED
      BY <1>4, <2>1, <3>1, <3>2
  <2> QED
    BY <2>2, <2>3
<1>9. ASSUME NEW k \in 1 .. m + 1 PROVE \E i \in 1 .. n + 1 : IsTurn(is, i) /\ h[i] = k
  <2>1. CASE k = m + 1
    <3>1. n + 1 \in 1 .. n + 1
      BY <1>1
    <3> QED
      BY <1>3, <1>5, <2>1, <3>1
  <2>2. CASE k # m + 1
    <3>1. k \in 1 .. m
      BY <1>1, <2>2
    <3>2. PICK i \in 1 .. n : IsTurn(hs, i) /\ g[i] = k
      BY <3>1 DEF Thins
    <3>3. i \in 1 .. n + 1
      BY <1>1
    <3> QED
      BY <1>4, <1>5, <3>2, <3>3
  <2> QED
    BY <2>1, <2>2
<1>10. Thins(h, tt, is)
  BY <1>1, <1>6, <1>7, <1>8, <1>9 DEF Thins
<1> QED
  BY <1>10 DEF tt, is

(* A repetition is stood for by the sample that is there.                  *)
LEMMA RepetitionThins ==
  ASSUME NEW ss \in Seq(Sample), NEW hs \in Seq(Sample), NEW g, Thins(g, ss, hs),
         NEW s \in Sample, ss # << >>, ss[Len(ss)].source = s.source
  PROVE  \E h : Thins(h, ss, Append(hs, s))
<1> DEFINE n == Len(hs)
           m == Len(ss)
           h == [i \in 1 .. n + 1 |-> IF i = n + 1 THEN m ELSE g[i]]
           is == Append(hs, s)
<1>1. /\ n \in Nat /\ m \in Nat /\ Len(is) = n + 1 /\ is[n + 1] = s
      /\ \A i \in 1 .. n : is[i] = hs[i]
  BY AppendIs
<1>2. \A i \in 1 .. n : g[i] \in 1 .. m
  BY DEF Thins
<1>3. /\ m > 0 /\ n > 0 /\ g[n] = m /\ hs[n].source = s.source
      /\ n \in 1 .. n
  <2>1. m > 0
    BY <1>1, EmptySeq
  <2>2. n > 0 /\ g[n] = m /\ ss[m].source = hs[n].source
    BY <2>1, LastThins
  <2> QED
    BY <1>1, <2>1, <2>2
<1>4. ~IsTurn(is, n + 1)
  <2>1. (n + 1) - 1 = n /\ n + 1 # 1 /\ is[n] = hs[n]
    BY <1>1, <1>3
  <2> QED
    BY <1>1, <1>3, <2>1 DEF IsTurn
<1>5. \A i \in 1 .. n : IsTurn(is, i) <=> IsTurn(hs, i)
  <2> SUFFICES ASSUME NEW i \in 1 .. n PROVE IsTurn(is, i) <=> IsTurn(hs, i)
    OBVIOUS
  <2>1. is[i] = hs[i] /\ (i # 1 => i - 1 \in 1 .. n)
    BY <1>1
  <2>2. i # 1 => is[i - 1] = hs[i - 1]
    BY <1>1, <2>1
  <2> QED
    BY <2>1, <2>2 DEF IsTurn
<1>6. h[n + 1] = m /\ \A i \in 1 .. n : h[i] = g[i]
  BY <1>1
<1>7. h \in [1 .. n + 1 -> 1 .. m]
  <2> SUFFICES ASSUME NEW i \in 1 .. n + 1 PROVE h[i] \in 1 .. m
    OBVIOUS
  <2> QED
    BY <1>1, <1>2, <1>3
<1> HIDE DEF h, is
<1>8. ASSUME NEW i \in 1 .. n + 1
      PROVE  ss[h[i]].source = is[i].source /\ (IsTurn(is, i) => ss[h[i]] = is[i])
  <2>1. CASE i = n + 1
    BY <1>1, <1>4, <1>6, <2>1
  <2>2. CASE i # n + 1
    <3>1. i \in 1 .. n
      BY <1>1, <2>2
    <3>2. h[i] = g[i] /\ is[i] = hs[i]
      BY <1>1, <1>6, <3>1
    <3>3. ss[g[i]].source = hs[i].source /\ (IsTurn(hs, i) => ss[g[i]] = hs[i])
      BY <3>1 DEF Thins
    <3> QED
      BY <1>5, <3>1, <3>2, <3>3
  <2> QED
    BY <2>1, <2>2
<1>9. ASSUME NEW i \in 1 .. n + 1, NEW j \in 1 .. n + 1, i < j
      PROVE  /\ h[i] <= h[j] /\ h[j] <= h[i] + (j - i)
             /\ IsTurn(is, j) => h[i] < h[j]
  <2>1. i \in 1 .. n /\ h[i] = g[i] /\ g[i] \in 1 .. m
    BY <1>1, <1>2, <1>6, <1>9
  <2>2. CASE j = n + 1
    <3>1. i < n => g[n] <= g[i] + (n - i)
      BY <1>3, <2>1 DEF Thins
    <3>2. m <= g[i] + (n - i)
      BY <1>1, <1>3, <2>1, <3>1
    <3>3. h[j] = m /\ ~IsTurn(is, j)
      BY <1>4, <1>6, <2>2
    <3> QED
      BY <1>1, <2>1, <2>2, <3>2, <3>3
  <2>3. CASE j # n + 1
    <3>1. j \in 1 .. n /\ h[j] = g[j]
      BY <1>1, <1>6, <2>3
    <3>2. /\ g[i] <= g[j] /\ g[j] <= g[i] + (j - i)
          /\ IsTurn(hs, j) => g[i] < g[j]
      BY <1>9, <2>1, <3>1 DEF Thins
    <3> QED
      BY <1>5, <2>1, <3>1, <3>2
  <2> QED
    BY <2>2, <2>3
<1>10. ASSUME NEW k \in 1 .. m PROVE \E i \in 1 .. n + 1 : IsTurn(is, i) /\ h[i] = k
  <2>1. PICK i \in 1 .. n : IsTurn(hs, i) /\ g[i] = k
    BY DEF Thins
  <2>2. i \in 1 .. n + 1
    BY <1>1
  <2> QED
    BY <1>5, <1>6, <2>1, <2>2
<1>11. Thins(h, ss, is)
  BY <1>1, <1>7, <1>8, <1>9, <1>10 DEF Thins
<1> QED
  BY <1>11 DEF is

LEMMA NothingThins == \E g : Thins(g, << >>, << >>)
<1> DEFINE g == [i \in 1 .. 0 |-> 0]
<1>1. g \in [1 .. 0 -> 1 .. 0] /\ Len(<< >>) = 0
  OBVIOUS
<1>2. Thins(g, << >>, << >>)
  BY <1>1 DEF Thins
<1> QED
  BY <1>2

LEMMA RecordingThins ==
  ASSUME ClockTyped, FlagsTyped, Thinned, ClockRecorded
  PROVE  Thinned'
<1> SUFFICES ASSUME ~overflow'
             PROVE  \E h : Thins(h, samples', heard')
  BY DEF Thinned
<1> DEFINE fresh == record /\ Changed(stamp.source)
           full  == Len(samples) >= MaxSamples
<1>1. ~overflow /\ ~(fresh /\ full)
  BY Zenon DEF ClockRecorded
<1>2. PICK g : Thins(g, samples, heard)
  BY <1>1 DEF Thinned
<1>3. stamp \in Sample /\ samples \in Seq(Sample) /\ heard \in Seq(Sample)
  BY DEF ClockRecorded, ClockTyped
<1>4. /\ heard' = IF record THEN Append(heard, stamp) ELSE heard
      /\ samples' = IF fresh /\ ~full THEN Append(samples, stamp) ELSE samples
  BY Zenon DEF ClockRecorded
<1>5. CASE ~record
  <2>1. heard' = heard /\ samples' = samples
    BY <1>4, <1>5, Zenon
  <2> QED
    BY <1>2, <2>1
<1>6. CASE fresh
  <2>1. samples' = Append(samples, stamp) /\ heard' = Append(heard, stamp)
    BY <1>1, <1>4, <1>6, Zenon
  <2>2. samples = << >> \/ samples[Len(samples)].source # stamp.source
    BY <1>6 DEF Changed
  <2>3. \E h : Thins(h, Append(samples, stamp), Append(heard, stamp))
    BY <1>2, <1>3, <2>2, TurnThins
  <2> QED
    BY <2>1, <2>3
<1>7. CASE record /\ ~Changed(stamp.source)
  <2>1. samples' = samples /\ heard' = Append(heard, stamp)
    BY <1>4, <1>7, Zenon
  <2>2. samples # << >> /\ samples[Len(samples)].source = stamp.source
    BY <1>7 DEF Changed
  <2>3. \E h : Thins(h, samples, Append(heard, stamp))
    BY <1>2, <1>3, <2>2, RepetitionThins
  <2> QED
    BY <2>1, <2>3
<1> QED
  BY <1>5, <1>6, <1>7, Zenon

LEMMA StepKeepsHistory ==
  ASSUME TypeOK, ClockInv, ClockHistory, [Next]_vars
  PROVE  ClockHistory'
<1>1. ClockTyped /\ FlagsTyped /\ StampIsLatest /\ Thinned /\ HeardInOrder
  BY TypedInParts DEF ClockInv, ClockHistory
<1> USE <1>1 DEF ClockHistory
<1>2. CASE ClockLeft
  <2>1. Thinned'
    BY <1>2 DEF ClockLeft, Thinned
  <2>2. HeardInOrder'
    BY <1>2, HeardTimes, SampleTimes DEF ClockLeft, HeardInOrder
  <2> QED
    BY <2>1, <2>2
<1>3. CASE ClockStamped
  <2>1. Thinned'
    BY <1>3 DEF ClockStamped, Thinned
  <2>2. HeardInOrder'
    BY <1>3 DEF ClockStamped, HeardInOrder
  <2> QED
    BY <2>1, <2>2
<1>4. CASE ClockRecorded
  BY <1>4, RecordingThins, RecordingKeepsHeard
<1>5. CASE StartClockObservation
  <2>1. samples' = << >> /\ heard' = << >>
    BY <1>5 DEF StartClockObservation
  <2> QED
    BY <2>1, NothingThins, HeardTimes DEF Thinned, HeardInOrder
<1>6. CASE ClockStopped
  <2>1. UNCHANGED <<stamp, samples, overflow, heard, now>>
    BY <1>6 DEF ClockStopped
  <2> QED
    BY <2>1 DEF Thinned, HeardInOrder
<1> QED
  BY <1>2, <1>3, <1>4, <1>5, <1>6, StepIsClockStep, Zenon DEF ClockStep

LEMMA HistoryKept == Spec => [](TypeOK /\ ClockHistory)
<1>1. Init => ClockHistory
  <2> SUFFICES ASSUME Init PROVE ClockHistory
    OBVIOUS
  <2>1. samples = << >> /\ heard = << >> /\ Len(heard) = 0
    BY DEF Init
  <2> QED
    BY <2>1, NothingThins DEF ClockHistory, Thinned, HeardInOrder
<1>2. TypeOK /\ RoomForStamp => TypeOK
  OBVIOUS
<1> QED
  BY <1>1, <1>2, StepKeepsHistory, Typed, Ordered, PTL DEF Spec

-----------------------------------------------------------------------------
(* The measured samples m stand for the messages of the window, all, and   *)
(* each of them for a turn.                                                *)
StandsFor(h, m, all, turns) ==
  /\ all \subseteq 1 .. Len(heard) /\ turns \subseteq all
  /\ \A i \in all : h[i] \in 1 .. Len(m) /\ m[h[i]].source = heard[i].source
  /\ \A i \in turns : m[h[i]] = heard[i]
  /\ \A i, j \in all : i < j => h[i] <= h[j] /\ h[j] <= h[i] + (j - i)
  /\ \A i, j \in turns : i < j => h[i] < h[j]
  /\ \A k \in 1 .. Len(m) : \E i \in turns : h[i] = k

LEMMA SamplesInTime ==
  ASSUME ClockTyped, HeardInOrder, NEW g, Thins(g, samples, heard)
  PROVE  InTimeOrder(samples)
<1> SUFFICES ASSUME NEW k \in 1 .. Len(samples), NEW l \in 1 .. Len(samples), k < l
             PROVE  samples[k].at <= samples[l].at
  BY DEF InTimeOrder
<1>1. PICK i \in 1 .. Len(heard) : IsTurn(heard, i) /\ g[i] = k
  BY DEF Thins
<1>2. PICK j \in 1 .. Len(heard) : IsTurn(heard, j) /\ g[j] = l
  BY DEF Thins
<1>3. i < j
  <2>1. j < i => g[j] <= g[i]
    BY DEF Thins
  <2>2. ~(j < i) /\ i # j
    BY <1>1, <1>2, <2>1, HeardTimes
  <2> QED
    BY <2>2, HeardTimes
<1>4. samples[k] = heard[i] /\ samples[l] = heard[j]
  BY <1>1, <1>2 DEF Thins
<1> QED
  BY <1>3, <1>4 DEF HeardInOrder

(* A message is in the window exactly when the sample that stands for it   *)
(* is measured, and it came no later.                                      *)
LEMMA DeliveredHasSample ==
  ASSUME ClockTyped, HeardInOrder, NEW g, Thins(g, samples, heard),
         NEW from \in Int, NEW to \in Int, NEW i \in DeliveredIn(from, to)
  PROVE  i \in 1 .. Len(heard) /\ g[i] \in Kept(samples, from, to)
<1>1. /\ i \in 1 .. Len(heard) /\ heard[i].at >= from /\ heard[i].at <= to
      /\ ~Carried(i, from)
  BY DEF DeliveredIn, ClockTyped
<1>2. g[i] \in 1 .. Len(samples) /\ samples[g[i]].source = heard[i].source
  BY <1>1 DEF Thins
<1>3. PICK t \in 1 .. Len(heard) : IsTurn(heard, t) /\ g[t] = g[i]
  BY <1>2 DEF Thins
<1>4. samples[g[i]] = heard[t]
  BY <1>3 DEF Thins
<1>5. ~(i < t)
  <2>1. i < t => g[i] < g[t]
    BY <1>1, <1>3 DEF Thins
  <2> QED
    BY <1>2, <1>3, <2>1, HeardTimes
<1>6. heard[t].at >= from
  <2> SUFFICES ASSUME heard[t].at < from PROVE FALSE
    BY HeardTimes
  <2>1. t # i
    BY <1>1, HeardTimes
  <2>2. t \in 1 .. i - 1
    BY <1>1, <1>5, <2>1
  <2>3. ASSUME NEW m \in t .. i PROVE heard[m].source = heard[i].source
    <3>1. m \in 1 .. Len(heard)
      BY <1>1, HeardTimes
    <3>2. (t < m => g[t] <= g[m]) /\ (m < i => g[m] <= g[i])
      BY <1>1, <3>1 DEF Thins
    <3>3. g[m] \in 1 .. Len(samples) /\ samples[g[m]].source = heard[m].source
      BY <3>1 DEF Thins
    <3>4. g[m] = g[i]
      <4>1. (t < m \/ t = m) /\ (m < i \/ m = i)
        <5>1. t \in Int /\ i \in Int /\ m \in t .. i
          BY <1>1, <1>3, HeardTimes
        <5> QED
          BY <5>1
      <4>2. CASE t = m
        BY <1>3, <4>2
      <4>3. CASE m = i
        BY <4>3
      <4>4. CASE t < m /\ m < i
        <5>1. g[t] <= g[m] /\ g[m] <= g[i]
          BY <3>2, <4>4
        <5>2. g[m] \in Int /\ g[i] \in Int
          BY <1>2, <3>3
        <5> QED
          BY <1>3, <5>1, <5>2
      <4> QED
        BY <4>1, <4>2, <4>3, <4>4
    <3> QED
      BY <1>2, <3>3, <3>4
  <2>4. Carried(i, from)
    BY <2>2, <2>3 DEF Carried
  <2> QED
    BY <1>1, <2>4
<1>7. heard[t].at <= to
  <2>1. t < i => heard[t].at <= heard[i].at
    BY <1>1 DEF HeardInOrder
  <2>2. t < i \/ t = i
    BY <1>1, <1>5
  <2>3. heard[t].at \in Int /\ heard[i].at \in Int
    BY <1>1, HeardTimes
  <2> QED
    BY <1>1, <2>1, <2>2, <2>3
<1>8. g[i] \in DOMAIN samples
  BY <1>2 DEF ClockTyped
<1> QED
  BY <1>1, <1>4, <1>6, <1>7, <1>8 DEF Kept

LEMMA SampleIsDelivered ==
  ASSUME ClockTyped, HeardInOrder, NEW g, Thins(g, samples, heard),
         NEW from \in Int, NEW to \in Int, NEW k \in Kept(samples, from, to)
  PROVE  \E i \in Turns(from, to) : g[i] = k /\ IsTurn(heard, i)
<1>1. k \in 1 .. Len(samples) /\ samples[k].at >= from /\ samples[k].at <= to
  BY DEF Kept, ClockTyped
<1>2. PICK i \in 1 .. Len(heard) : IsTurn(heard, i) /\ g[i] = k
  BY <1>1 DEF Thins
<1>3. samples[k] = heard[i]
  BY <1>2 DEF Thins
<1>4. ~Carried(i, from)
  <2> SUFFICES ASSUME NEW l \in 1 .. i - 1,
                      \A m \in l .. i : heard[m].source = heard[i].source
               PROVE  FALSE
    BY DEF Carried
  <2>1. i - 1 \in l .. i /\ i # 1
    BY HeardTimes
  <2>2. heard[i - 1].source = heard[i].source
    BY <2>1
  <2> QED
    BY <1>2, <2>1, <2>2 DEF IsTurn
<1>5. i \in DeliveredIn(from, to)
  BY <1>1, <1>3, <1>4 DEF DeliveredIn, ClockTyped
<1> QED
  BY <1>2, <1>5 DEF Turns, IsTurn

LEMMA MeasuredStandsFor ==
  ASSUME ClockTyped, HeardInOrder, NEW g, Thins(g, samples, heard),
         NEW from \in Int, NEW to \in Int, Measured(samples, from, to) # << >>
  PROVE  /\ Measured(samples, from, to) \in Seq(Sample)
         /\ \E h : StandsFor(h, Measured(samples, from, to), DeliveredIn(from, to),
                             Turns(from, to))
<1> DEFINE K == Kept(samples, from, to)
           all == DeliveredIn(from, to)
           turns == Turns(from, to)
           m == Measured(samples, from, to)
<1>1. samples \in Seq(Sample) /\ K # {} /\ InTimeOrder(samples)
  BY MeasuredNothing, SamplesInTime DEF ClockTyped
<1>2. PICK a \in 1 .. Len(samples), b \in 1 .. Len(samples) : a <= b /\ K = a .. b
  BY <1>1, KeptIsInterval
<1>3. /\ m \in Seq(Sample) /\ Len(m) = b - a + 1
      /\ \A n \in 1 .. b - a + 1 : m[n] = samples[a + n - 1]
  BY <1>1, <1>2, MeasuredIs
<1> DEFINE h == [i \in all |-> g[i] - a + 1]
<1>4. ASSUME NEW i \in all
      PROVE  /\ i \in 1 .. Len(heard) /\ g[i] \in a .. b /\ h[i] = g[i] - a + 1
             /\ h[i] \in 1 .. Len(m) /\ m[h[i]] = samples[g[i]]
             /\ samples[g[i]].source = heard[i].source
  <2>1. i \in 1 .. Len(heard) /\ g[i] \in a .. b
    BY <1>2, DeliveredHasSample
  <2>2. h[i] = g[i] - a + 1
    OBVIOUS
  <2>3. h[i] \in 1 .. b - a + 1 /\ a + h[i] - 1 = g[i]
    BY <1>2, <2>1, <2>2, HeardTimes
  <2> QED
    BY <1>3, <2>1, <2>2, <2>3 DEF Thins
<1>5. ASSUME NEW i \in turns PROVE i \in all /\ IsTurn(heard, i)
  BY DEF Turns, IsTurn
<1>6. turns \subseteq all /\ all \subseteq 1 .. Len(heard)
  BY <1>4, <1>5
<1> HIDE DEF h, m, all, turns, K
<1>7. \A i \in turns : m[h[i]] = heard[i]
  BY <1>4, <1>5 DEF Thins
<1>8. ASSUME NEW i \in all, NEW j \in all, i < j
      PROVE  h[i] <= h[j] /\ h[j] <= h[i] + (j - i) /\ (IsTurn(heard, j) => h[i] < h[j])
  <2>1. /\ g[i] <= g[j] /\ g[j] <= g[i] + (j - i)
        /\ IsTurn(heard, j) => g[i] < g[j]
    BY <1>4, <1>8 DEF Thins
  <2>2. /\ g[i] \in Int /\ g[j] \in Int /\ i \in Int /\ j \in Int /\ a \in Int
        /\ h[i] = g[i] - a + 1 /\ h[j] = g[j] - a + 1
    BY <1>4
  <2>3. h[i] <= h[j] /\ h[j] <= h[i] + (j - i)
    BY <2>1, <2>2
  <2>4. IsTurn(heard, j) => h[i] < h[j]
    <3>1. IsTurn(heard, j) => g[i] < g[j]
      BY <2>1
    <3>2. g[i] < g[j] => h[i] < h[j]
      BY <2>2
    <3> QED
      BY <3>1, <3>2
  <2> QED
    BY <2>3, <2>4
<1>9. ASSUME NEW k \in 1 .. Len(m) PROVE \E i \in turns : h[i] = k
  <2>1. a + k - 1 \in K
    BY <1>2, <1>3, HeardTimes
  <2>2. PICK i \in turns : g[i] = a + k - 1
    BY <2>1, SampleIsDelivered DEF K, turns
  <2>3. h[i] = (a + k - 1) - a + 1
    BY <1>4, <1>5, <2>2
  <2>4. k \in Int /\ a \in Int
    OBVIOUS
  <2> QED
    BY <2>2, <2>3, <2>4
<1>10. StandsFor(h, m, all, turns)
  BY <1>4, <1>5, <1>6, <1>7, <1>8, <1>9 DEF StandsFor
<1> QED
  BY <1>3, <1>10 DEF m, all, turns

-----------------------------------------------------------------------------
LEMMA StandsForTypes ==
  ASSUME ClockTyped, NEW m \in Seq(Sample), NEW all, NEW turns, NEW h,
         StandsFor(h, m, all, turns)
  PROVE  /\ \A i \in all : i \in Nat /\ i \in 1 .. Len(heard) /\ h[i] \in 1 .. Len(m)
         /\ \A i \in all : heard[i].source \in Int /\ heard[i].at \in Int
         /\ \A k \in 1 .. Len(m) : m[k].source \in Int /\ m[k].at \in Int
         /\ turns \subseteq all /\ Len(m) \in Nat
<1>1. heard \in Seq(Sample)
  BY DEF ClockTyped
<1>2. /\ all \subseteq 1 .. Len(heard) /\ turns \subseteq all
      /\ \A i \in all : h[i] \in 1 .. Len(m)
  BY DEF StandsFor
<1>3. /\ Len(heard) \in Nat
      /\ \A i \in 1 .. Len(heard) : heard[i].at \in Int /\ heard[i].source \in Int
  BY <1>1, SampleFields
<1>4. /\ Len(m) \in Nat
      /\ \A k \in 1 .. Len(m) : m[k].source \in Int /\ m[k].at \in Int
  BY SampleFields
<1>5. \A i \in all : i \in Nat /\ i \in 1 .. Len(heard)
  BY <1>2, <1>3
<1> QED
  BY <1>2, <1>3, <1>4, <1>5

(* The clock never went back.                                              *)
LEMMA NeverBack ==
  ASSUME ClockTyped, NEW m \in Seq(Sample), NEW all, NEW turns, NEW h,
         StandsFor(h, m, all, turns), Monotonic(m),
         NEW i \in all, NEW j \in all, i < j
  PROVE  heard[j].source - heard[i].source >= 0
<1>1. h[i] <= h[j] /\ m[h[i]].source = heard[i].source /\ m[h[j]].source = heard[j].source
  BY DEF StandsFor
<1>2. h[i] \in 1 .. Len(m) /\ h[j] \in 1 .. Len(m)
  BY DEF StandsFor
<1>3. heard[i].source \in Int /\ heard[j].source \in Int
  BY StandsForTypes
<1>4. CASE h[i] = h[j]
  BY <1>1, <1>3, <1>4
<1>5. CASE h[i] # h[j]
  <2>1. h[i] < h[j]
    BY <1>1, <1>2, <1>5
  <2>2. m[h[j]].source >= m[h[i]].source
    BY <1>2, <2>1, MonotonicAll
  <2> QED
    BY <1>1, <1>3, <2>2
<1> QED
  BY <1>4, <1>5

(* It kept its pace from any turn to any other.                            *)
LEMMA PaceKept ==
  ASSUME ClockTyped, NEW m \in Seq(Sample), NEW all, NEW turns, NEW h,
         StandsFor(h, m, all, turns), KeepsPace(m),
         NEW i \in turns, NEW j \in turns, i < j
  PROVE  /\ heard[j].at - heard[i].at > 0
         /\ heard[j].source - heard[i].source >= MinFactor * (heard[j].at - heard[i].at)
<1>1. h[i] < h[j] /\ m[h[i]] = heard[i] /\ m[h[j]] = heard[j]
  BY DEF StandsFor
<1>2. h[i] \in 1 .. Len(m) /\ h[j] \in 1 .. Len(m)
  BY DEF StandsFor
<1>3. /\ m[h[j]].at - m[h[i]].at > 0
      /\ m[h[j]].source - m[h[i]].source >= MinFactor * (m[h[j]].at - m[h[i]].at)
  BY <1>1, <1>2, PaceAll
<1> QED
  BY <1>1, <1>3

(* It moved in whole steps.                                                *)
LEMMA WholeStepsTaken ==
  ASSUME ClockTyped, NEW m \in Seq(Sample), NEW all, NEW turns, NEW h,
         StandsFor(h, m, all, turns), InSteps(m),
         NEW i \in all, NEW j \in all, i < j
  PROVE  WholeSteps(heard[j].source - heard[i].source, j - i)
<1>1. /\ h[i] <= h[j] /\ h[j] <= h[i] + (j - i)
      /\ m[h[i]].source = heard[i].source /\ m[h[j]].source = heard[j].source
  BY DEF StandsFor
<1>2. h[i] \in 1 .. Len(m) /\ h[j] \in 1 .. Len(m)
  BY DEF StandsFor
<1>3. /\ heard[i].source \in Int /\ heard[j].source \in Int
      /\ i \in Nat /\ j \in Nat
  BY StandsForTypes
<1>4. CASE h[i] = h[j]
  <2>1. heard[j].source - heard[i].source = 0 /\ j - i \in Nat
    BY <1>1, <1>3, <1>4
  <2> QED
    BY <2>1, NoSteps
<1>5. CASE h[i] # h[j]
  <2>1. h[i] < h[j]
    BY <1>1, <1>2, <1>5
  <2>2. WholeSteps(m[h[j]].source - m[h[i]].source, h[j] - h[i])
    BY <1>2, <2>1, StepsAll
  <2>3. /\ h[j] - h[i] \in Nat /\ j - i \in Nat /\ h[j] - h[i] <= j - i
        /\ heard[j].source - heard[i].source \in Int
    BY <1>1, <1>2, <1>3, <2>1
  <2>4. WholeSteps(heard[j].source - heard[i].source, h[j] - h[i])
    BY <1>1, <2>2
  <2> QED
    BY <2>3, <2>4, StepsWithin
<1> QED
  BY <1>4, <1>5

(* It moved.                                                               *)
LEMMA MovedOn ==
  ASSUME ClockTyped, NEW m \in Seq(Sample), NEW all, NEW turns, NEW h,
         StandsFor(h, m, all, turns), Len(m) > 0, Advanced(m)
  PROVE  \E i, j \in all : heard[j].source - heard[i].source > 0
<1>1. Len(m) \in 1 .. Len(m) /\ 1 \in 1 .. Len(m)
  BY SampleFields
<1>2. PICK i \in turns : h[i] = 1
  BY <1>1 DEF StandsFor
<1>3. PICK j \in turns : h[j] = Len(m)
  BY <1>1 DEF StandsFor
<1>4. i \in all /\ j \in all
  BY DEF StandsFor
<1>5. m[Len(m)].source = heard[j].source /\ m[1].source = heard[i].source
  BY <1>2, <1>3, <1>4 DEF StandsFor
<1>6. heard[i].source \in Int /\ heard[j].source \in Int
  BY <1>4, StandsForTypes
<1>7. heard[j].source - heard[i].source > 0
  BY <1>5, <1>6 DEF Advanced
<1> QED
  BY <1>4, <1>7

(* How many numbers there are from 1 to n.                                 *)
LEMMA SpanSize ==
  ASSUME NEW n \in Nat, 1 \in 1 .. n
  PROVE  Cardinality(1 .. n) = n
<1>1. n \in Int /\ ~(1 > n) /\ n - 1 + 1 = n
  OBVIOUS
<1>2. Cardinality(1 .. n) = IF 1 > n THEN 0 ELSE n - 1 + 1
  BY <1>1, FS_Interval
<1> QED
  BY <1>1, <1>2

(* It was heard often enough.                                              *)
LEMMA HeardOften ==
  ASSUME ClockTyped, NEW m \in Seq(Sample), NEW all, NEW turns, NEW h,
         StandsFor(h, m, all, turns), Len(m) > 0, FrequentEnough(m)
  PROVE  Cardinality(all) - 1 >= MinRate * (heard[Max(turns)].at - heard[Min(turns)].at)
<1> DEFINE n == Len(m)
<1>1. /\ n \in Nat /\ n \in 1 .. n /\ 1 \in 1 .. n
      /\ \A i \in turns : i \in Nat /\ i \in 1 .. Len(heard) /\ h[i] \in 1 .. n
      /\ turns \subseteq all /\ all \subseteq 1 .. Len(heard)
  BY SampleFields, StandsForTypes DEF StandsFor
<1>2. PICK i \in turns : h[i] = 1
  BY <1>1 DEF StandsFor
<1>3. PICK j \in turns : h[j] = n
  BY <1>1 DEF StandsFor
<1>4. \A k, l \in turns : k < l => h[k] < h[l]
  BY DEF StandsFor
<1>5. Min(turns) = i
  <2>1. turns \subseteq Nat /\ turns # {}
    BY <1>1, <1>2
  <2>2. Min(turns) \in turns /\ Min(turns) <= i
    BY <2>1, LeastIsMin
  <2>3. Min(turns) < i => h[Min(turns)] < 1
    BY <1>2, <1>4, <2>2
  <2>4. PICK k \in turns : k = Min(turns)
    BY <2>2
  <2>5. k \in Nat /\ h[k] \in 1 .. n /\ i \in Nat
    BY <1>1
  <2>6. h[k] \in Int /\ h[k] >= 1
    BY <1>1, <2>5
  <2>7. k <= i /\ (k < i => h[k] < 1)
    BY <2>2, <2>3, <2>4
  <2>8. k = i
    BY <2>5, <2>6, <2>7
  <2> QED
    BY <2>4, <2>8
<1>6. Max(turns) = j
  <2>1. turns \subseteq Nat /\ turns # {} /\ Len(heard) \in Nat
    BY <1>1, <1>2, HeardTimes
  <2>2. \A k \in turns : k <= Len(heard)
    BY <1>1, <2>1
  <2>3. Max(turns) \in turns /\ Max(turns) >= j
    BY <2>1, <2>2, GreatestIsMax
  <2>4. j < Max(turns) => n < h[Max(turns)]
    BY <1>3, <1>4, <2>3
  <2>5. PICK k \in turns : k = Max(turns)
    BY <2>3
  <2>6. k \in Nat /\ h[k] \in 1 .. n /\ j \in Nat /\ n \in Nat
    BY <1>1
  <2>7. h[k] \in Int /\ h[k] <= n
    BY <1>1, <2>6
  <2>8. k >= j /\ (j < k => n < h[k])
    BY <2>3, <2>4, <2>5
  <2>9. k = j
    BY <2>6, <2>7, <2>8
  <2> QED
    BY <2>5, <2>9
<1>7. m[n] = heard[j] /\ m[1] = heard[i]
  BY <1>2, <1>3 DEF StandsFor
<1>8. /\ n - 1 >= MinRate * (heard[j].at - heard[i].at)
      /\ heard[j].at - heard[i].at > 0
  BY <1>7 DEF FrequentEnough
<1>9. IsFiniteSet(all)
  <2>1. IsFiniteSet(1 .. Len(heard))
    BY HeardTimes, FS_Interval
  <2> QED
    BY <1>1, <2>1, FS_Subset
<1>10. n <= Cardinality(all)
  <2> DEFINE of == [k \in 1 .. n |-> CHOOSE l \in turns : h[l] = k]
  <2>1. ASSUME NEW k \in 1 .. n PROVE of[k] \in turns /\ h[of[k]] = k
    <3>1. \E l \in turns : h[l] = k
      BY DEF StandsFor
    <3> QED
      BY <3>1
  <2>2. of \in [1 .. n -> all]
    BY <1>1, <2>1
  <2> HIDE DEF of
  <2>3. \A k, l \in 1 .. n : of[k] = of[l] => k = l
    BY <2>1
  <2>4. of \in Injection(1 .. n, all)
    BY <2>2, <2>3 DEF Injection, IsInjective
  <2>5. Cardinality(1 .. n) <= Cardinality(all)
    BY <1>9, <2>4, FS_Injection
  <2>6. Cardinality(1 .. n) = n
    BY <1>1, SpanSize
  <2> QED
    BY <2>5, <2>6
<1>11. Cardinality(all) \in Nat
  BY <1>9, FS_CardinalityType
<1>12. MinRate * (heard[j].at - heard[i].at) \in Int
  <2>1. heard[j].at \in Int /\ heard[i].at \in Int
    BY <1>1, HeardTimes
  <2>2. heard[j].at - heard[i].at \in Int
    BY <2>1
  <2> QED
    BY <2>2, TimingAssumption
<1> DEFINE rate == MinRate * (heard[j].at - heard[i].at)
<1>13. rate \in Int /\ n - 1 >= rate
  BY <1>8, <1>12
<1> HIDE DEF rate, n
<1>14. Cardinality(all) - 1 >= rate
  BY <1>1, <1>10, <1>11, <1>13
<1> QED
  BY <1>5, <1>6, <1>14 DEF rate

LEMMA PolicyIsHonoured ==
  ASSUME ClockTyped, HeardInOrder, NEW g, Thins(g, samples, heard),
         NEW mode \in Modes, NEW from \in Int, NEW to \in Int,
         TimePolicyMet(mode, Measured(samples, from, to), TRUE)
  PROVE  ClockHonours(mode, from, to)
<1> DEFINE m == Measured(samples, from, to)
           all == DeliveredIn(from, to)
           turns == Turns(from, to)
<1>1. /\ m # << >> /\ Monotonic(m)
      /\ mode = "simulation_realtime" => KeepsPace(m)
      /\ mode = "playback_clocked" => FrequentEnough(m) /\ Advanced(m)
      /\ mode = "simulation_stepped" => Advanced(m) /\ InSteps(m)
  BY DEF TimePolicyMet
<1>2. m \in Seq(Sample) /\ \E h : StandsFor(h, m, all, turns)
  BY <1>1, MeasuredStandsFor
<1> HIDE DEF m, all, turns
<1>3. PICK h : StandsFor(h, m, all, turns)
  BY <1>2
<1>4. Len(m) > 0
  BY <1>1, <1>2, EmptySeq
<1>5. \A i, j \in all : i < j => heard[j].source - heard[i].source >= 0
  BY <1>1, <1>2, <1>3, NeverBack
<1>6. ASSUME mode = "simulation_realtime", NEW i \in turns, NEW j \in turns, i < j
      PROVE  /\ heard[j].at - heard[i].at > 0
             /\ heard[j].source - heard[i].source >= MinFactor * (heard[j].at - heard[i].at)
  BY <1>1, <1>2, <1>3, <1>6, PaceKept
<1>7. ASSUME mode = "playback_clocked"
      PROVE  /\ \E i, j \in all : heard[j].source - heard[i].source > 0
             /\ Cardinality(all) - 1 >= MinRate * (heard[Max(turns)].at - heard[Min(turns)].at)
  BY <1>1, <1>2, <1>3, <1>4, <1>7, MovedOn, HeardOften
<1>8. ASSUME mode = "simulation_stepped"
      PROVE  /\ \E i, j \in all : heard[j].source - heard[i].source > 0
             /\ \A i, j \in all : i < j => WholeSteps(heard[j].source - heard[i].source, j - i)
  <2>1. \E i, j \in all : heard[j].source - heard[i].source > 0
    BY <1>1, <1>2, <1>3, <1>4, <1>8, MovedOn
  <2>2. ASSUME NEW i \in all, NEW j \in all, i < j
        PROVE  WholeSteps(heard[j].source - heard[i].source, j - i)
    BY <1>1, <1>2, <1>3, <1>8, <2>2, WholeStepsTaken
  <2> QED
    BY <2>1, <2>2
<1> QED
  BY <1>5, <1>6, <1>7, <1>8 DEF ClockHonours, WholeSteps, all, turns

(* A time policy that passes on the samples, thinned, limited and filtered *)
(* as they are, is true of every message of the measurement window, for    *)
(* any policy, any buffer and wherever the window begins and ends around   *)
(* the callbacks.                                                          *)
THEOREM ClockIsHonoured == Spec => PassedClockIsTrue
<1>1. TypeOK /\ ClockHistory /\ [Next]_vars =>
        [returned' \notin {None, returned} /\ returned'.complete =>
           \A mode \in Modes : \A from \in windowStart .. now : \A to \in from .. now :
             TimePolicyMet(mode, Measured(returned'.samples, from, to), TRUE) =>
               ClockHonours(mode, from, to)]_vars
  <2> SUFFICES ASSUME TypeOK, ClockHistory, [Next]_vars,
                      returned' \notin {None, returned}, returned'.complete,
                      NEW mode \in Modes, NEW from \in windowStart .. now,
                      NEW to \in from .. now,
                      TimePolicyMet(mode, Measured(returned'.samples, from, to), TRUE)
               PROVE  ClockHonours(mode, from, to)
    OBVIOUS
  <2>1. returned' = [complete |-> ~overflow, samples |-> samples]
    BY OnlyStopReturns DEF StopClockObservation
  <2>2. returned'.samples = samples /\ ~overflow
    BY <2>1
  <2>3. PICK g : Thins(g, samples, heard)
    BY <2>2 DEF ClockHistory, Thinned
  <2>4. ClockTyped /\ HeardInOrder
    BY TypedInParts DEF ClockHistory
  <2>5. from \in Int /\ to \in Int
    OBVIOUS
  <2> QED
    BY <2>2, <2>3, <2>4, <2>5, PolicyIsHonoured
<1> QED
  BY <1>1, HistoryKept, PTL DEF Spec, PassedClockIsTrue
=============================================================================
