-------------------------- MODULE VerificationProofs --------------------------
(***************************************************************************)
(* Proofs about Verification: any number of processes on one marker, any   *)
(* forbidden interfaces, any execution and shutdown times.                 *)
(***************************************************************************)
EXTENDS Verification, TLAPS

(* The places of a process that has created the marker, and of one that    *)
(* has an observer.                                                        *)
Marked == {"wait", "evaluate", "json", "junit", "done"}
Observer == {"readiness", "open", "measure", "close", "abort"}

(* Only the creator of the marker is past it; without this nothing relates *)
(* the reports on disk to the marker.                                      *)
Ownership ==
  /\ \A p \in Procs : pc[p] \in Marked => marker = p
  /\ \A p \in Procs : pc[p] \in Marked \ {"wait"} => index # None
  /\ \A p \in Procs : pc[p] \in {"wait", "evaluate", "json"} => disk["json"] = None
  /\ \A p \in Procs : pc[p] = "junit" => disk["json"] # None
  /\ \A p \in Procs : pc[p] \in Marked \ {"done"} => disk["junit"] = None
  /\ marker \notin Procs => \A f \in File : disk[f] = None
  /\ PublishedByMarkerOwner

-----------------------------------------------------------------------------
(* What Evaluate decides from.                                             *)
EvaluationInput(p, outcomes, steady) ==
  [ assertions      |-> outcomes,
    unevaluated     |-> {},
    forbiddenPassed |-> violations[p] = {},
    hardware        |-> "none",
    authorityWithin |-> steady /\ Covers(evidence[p], window[p]) ]

LEMMA EvaluationTyped ==
  ASSUME NEW p, NEW outcomes \in [AssertionIds -> AssertionStatus], NEW steady \in BOOLEAN
  PROVE  EvaluationInput(p, outcomes, steady) \in VerdictInputs
<1>1. outcomes \in UNION {[D -> AssertionStatus] : D \in SUBSET AssertionIds}
  OBVIOUS
<1>2. (violations[p] = {}) \in BOOLEAN /\ (steady /\ Covers(evidence[p], window[p])) \in BOOLEAN
  OBVIOUS
<1> QED
  BY <1>1, <1>2 DEF EvaluationInput, VerdictInputs, Hardware

(* The fold ends in a status a result may have, and the gates after the    *)
(* worst assertion let no observation through that is not within.          *)
LEMMA FoldTyped ==
  ASSUME NEW in \in VerdictInputs
  PROVE  VerdictStatus(in) \in ResultStatus
<1> DEFINE w == WorstAssertion(in)
           a == SkippedIsIncomplete(in, w)
           b == ObservationGate(in, a)
<1>1. w \in Status
  <2>1. Statuses(in) \in SUBSET Status
    BY DEF VerdictInputs, Statuses, Status
  <2>2. DOMAIN in.assertions # {} => Statuses(in) # {}
    BY DEF Statuses
  <2> QED
    BY <2>1, <2>2, WorstStatusAssumption DEF WorstAssertion, Status
<1>2. a \in ResultStatus
  BY <1>1 DEF SkippedIsIncomplete, ResultStatus, Status
<1>3. b \in {a, "failed"}
  BY Zenon DEF ObservationGate
<1>4. AuthorityGate(in, b) \in {b, "failed", "incomplete"}
  BY Zenon DEF AuthorityGate
<1> QED
  BY <1>2, <1>3, <1>4 DEF VerdictStatus, ResultStatus, Status, AssertionStatus

LEMMA PassedIsWithin ==
  ASSUME NEW in, VerdictStatus(in) = "passed"
  PROVE  in.forbiddenPassed /\ in.authorityWithin
BY DEF VerdictStatus, AuthorityGate, ObservationGate

(* A passed evaluation had nothing forbidden and covering evidence.        *)
LEMMA EvaluationPasses ==
  ASSUME NEW p \in Procs, Evaluate(p), TypeOK
  PROVE  /\ status' \in [Procs -> ResultStatus \cup {None}]
         /\ \A q \in Procs \ {p} : status'[q] = status[q]
         /\ status'[p] = "passed" =>
              violations[p] = {} /\ Covers(evidence[p], window[p])
<1>1. PICK outcomes \in [AssertionIds -> AssertionStatus], steady \in BOOLEAN :
        status' = [status EXCEPT ![p] = VerdictStatus(EvaluationInput(p, outcomes, steady))]
  BY DEF Evaluate, EvaluationInput
<1> DEFINE in == EvaluationInput(p, outcomes, steady)
<1>2. in \in VerdictInputs
  BY EvaluationTyped
<1>3. VerdictStatus(in) \in ResultStatus
  BY <1>2, FoldTyped
<1>4. VerdictStatus(in) = "passed" => in.forbiddenPassed /\ in.authorityWithin
  BY PassedIsWithin
<1>5. in.forbiddenPassed /\ in.authorityWithin => violations[p] = {} /\ Covers(evidence[p], window[p])
  BY DEF EvaluationInput
<1>6. status \in [Procs -> ResultStatus \cup {None}]
  BY DEF TypeOK
<1> QED
  BY <1>1, <1>3, <1>4, <1>5, <1>6

-----------------------------------------------------------------------------
(* Case analysis used by every step lemma: what a step of the system is.   *)
LEMMA StepCases ==
  ASSUME [Next]_vars
  PROVE  \/ Tick \/ WallClockSetBack \/ InterfacesChange \/ RecorderStarts \/ RecorderFinalizes
         \/ \E p \in Procs :
              \/ Start(p) \/ StartRefused(p) \/ AttachObserver(p) \/ ReadinessPoll(p)
              \/ OpenWindow(p) \/ Measure(p) \/ CloseWindow(p) \/ WallClockWentBack(p)
              \/ ObservationFails(p) \/ CloseObserver(p) \/ CloseFails(p) \/ Mark(p)
              \/ MarkRefused(p) \/ LoadEvidence(p) \/ EvidenceMissing(p) \/ Evaluate(p)
              \/ PublicationFails(p) \/ WriteJson(p) \/ WriteJUnit(p) \/ Kill(p)
         \/ UNCHANGED vars
BY DEF Next, Environment, Progress, Observing, Failing

LEMMA TypeStep ==
  ASSUME TypeOK, [Next]_vars
  PROVE  TypeOK'
<1> USE VerificationAssumption
    DEF TypeOK, env, local, Goto, Window, Instant, WallInstant, Wall, Places, Ended, File
<1>1. CASE Tick
  BY <1>1 DEF Tick
<1>2. CASE WallClockSetBack
  BY <1>2 DEF WallClockSetBack
<1>3. CASE InterfacesChange
  BY <1>3 DEF InterfacesChange
<1>4. CASE RecorderStarts
  BY <1>4 DEF RecorderStarts
<1>5. CASE RecorderFinalizes
  BY <1>5 DEF RecorderFinalizes
<1>6. CASE UNCHANGED vars
  BY <1>6 DEF vars
<1>7. ASSUME NEW p \in Procs,
             \/ Start(p) \/ StartRefused(p) \/ AttachObserver(p) \/ WallClockWentBack(p)
             \/ ObservationFails(p) \/ CloseObserver(p) \/ CloseFails(p) \/ MarkRefused(p)
             \/ EvidenceMissing(p) \/ PublicationFails(p) \/ Kill(p)
      PROVE  TypeOK'
  <2>1. pc' \in [Procs -> Places]
    BY <1>7 DEF Start, StartRefused, AttachObserver, WallClockWentBack, ObservationFails,
         CloseObserver, CloseFails, MarkRefused, EvidenceMissing, PublicationFails, Kill
  <2>2. attached' \subseteq Procs
    BY <1>7 DEF Start, StartRefused, AttachObserver, WallClockWentBack, ObservationFails,
         CloseObserver, CloseFails, MarkRefused, EvidenceMissing, PublicationFails, Kill
  <2>3. UNCHANGED <<env, violations, window, deadline, evidence, status, exposed, marker, disk>>
    BY <1>7 DEF Start, StartRefused, AttachObserver, WallClockWentBack, ObservationFails,
         CloseObserver, CloseFails, MarkRefused, EvidenceMissing, PublicationFails, Kill
  <2> QED
    BY <2>1, <2>2, <2>3
<1>8. ASSUME NEW p \in Procs, ReadinessPoll(p) \/ Measure(p) PROVE TypeOK'
  <2>1. /\ violations' \in [Procs -> SUBSET Forbidden]
        /\ exposed' \in [Procs -> SUBSET Forbidden]
    <3>1. /\ violations[p] \cup present \in SUBSET Forbidden
          /\ exposed[p] \cup present \in SUBSET Forbidden
      OBVIOUS
    <3>2. /\ violations' = [violations EXCEPT ![p] = violations[p] \cup present]
          /\ exposed' = [exposed EXCEPT ![p] = exposed[p] \cup present]
      BY <1>8 DEF ReadinessPoll, Measure, Observe
    <3> QED
      BY <3>1, <3>2
  <2>2. pc' \in {pc, [pc EXCEPT ![p] = "open"], [pc EXCEPT ![p] = "abort"]}
    BY <1>8 DEF ReadinessPoll, Measure
  <2>3. pc' \in [Procs -> Places]
    BY <2>2
  <2> QED
    BY <1>8, <2>1, <2>3 DEF ReadinessPoll, Measure
<1>0. Wall \in WallInstant /\ now \in Instant /\ now + ExecutionTime \in Nat
      /\ now + ShutdownTime \in Nat
  OBVIOUS
<1>9. ASSUME NEW p \in Procs, OpenWindow(p) PROVE TypeOK'
  <2>1. window' \in [Procs -> Window]
    <3>1. /\ window[p] \in Window
          /\ window' = [window EXCEPT ![p] = [@ EXCEPT !.start = Wall, !.from = now]]
      BY <1>9 DEF OpenWindow
    <3> QED
      BY <1>0, <3>1
  <2>2. deadline' \in [Procs -> Nat] /\ pc' = [pc EXCEPT ![p] = "measure"]
    BY <1>0, <1>9 DEF OpenWindow
  <2> QED
    BY <1>9, <2>1, <2>2 DEF OpenWindow
<1>10. ASSUME NEW p \in Procs, CloseWindow(p) PROVE TypeOK'
  <2>1. window' \in [Procs -> Window]
    <3>1. /\ window[p] \in Window
          /\ window' = [window EXCEPT ![p] = [@ EXCEPT !.finish = Wall, !.to = now]]
      BY <1>10 DEF CloseWindow
    <3> QED
      BY <1>0, <3>1
  <2>2. pc' = [pc EXCEPT ![p] = "close"]
    BY <1>10 DEF CloseWindow
  <2> QED
    BY <1>10, <2>1, <2>2 DEF CloseWindow
<1>11. ASSUME NEW p \in Procs, Mark(p) PROVE TypeOK'
  <2>1. deadline' \in [Procs -> Nat] /\ pc' = [pc EXCEPT ![p] = "wait"] /\ marker' = p
    BY <1>0, <1>11 DEF Mark
  <2> QED
    BY <1>11, <2>1 DEF Mark
<1>12. ASSUME NEW p \in Procs, LoadEvidence(p) PROVE TypeOK'
  BY <1>12 DEF LoadEvidence
<1>13. ASSUME NEW p \in Procs, Evaluate(p) PROVE TypeOK'
  <2>1. status' \in [Procs -> ResultStatus \cup {None}]
    BY <1>13, EvaluationPasses
  <2> QED
    BY <1>13, <2>1 DEF Evaluate
<1>14. ASSUME NEW p \in Procs, WriteJson(p) \/ WriteJUnit(p) PROVE TypeOK'
  BY <1>14 DEF WriteJson, WriteJUnit
<1> QED
  BY StepCases, <1>1, <1>2, <1>3, <1>4, <1>5, <1>6, <1>7, <1>8, <1>9, <1>10, <1>11, <1>12,
     <1>13, <1>14

LEMMA TypeInit == Init => TypeOK
<1>1. 0 \in Instant /\ 0 \in WallInstant /\ 0 \in 0 .. MaxSetBack
  BY VerificationAssumption DEF Instant, WallInstant
<1>2. NoWindow \in Window /\ StaleIndex \in Window
  BY <1>1 DEF NoWindow, StaleIndex, Window
<1> QED
  BY <1>1, <1>2 DEF Init, TypeOK, Places, Ended, File

(* The shapes of the state, for any number of processes.                   *)
THEOREM Typing == Spec => []TypeOK
BY TypeInit, TypeStep, PTL DEF Spec

-----------------------------------------------------------------------------
(* Steps that neither move a process among the places after the marker nor *)
(* touch the marker, the index, the reports or a verdict.                  *)
Aside(p) ==
  \/ Start(p) \/ StartRefused(p) \/ AttachObserver(p) \/ ReadinessPoll(p)
  \/ OpenWindow(p) \/ Measure(p) \/ CloseWindow(p) \/ WallClockWentBack(p)
  \/ ObservationFails(p) \/ CloseObserver(p) \/ CloseFails(p)
  \/ MarkRefused(p) \/ EvidenceMissing(p) \/ PublicationFails(p) \/ Kill(p)

LEMMA AsideMoves ==
  ASSUME TypeOK, NEW p \in Procs, Aside(p)
  PROVE  /\ UNCHANGED <<marker, index, disk, status, evidence, recording, setBack>>
         /\ pc' = pc \/ \E there \in Places \ Marked : pc' = [pc EXCEPT ![p] = there]
<1> USE DEF Goto, env, Places, Marked, Ended
<1>1. UNCHANGED <<marker, index, disk, status, evidence, recording, setBack>>
  BY DEF Aside, Start, StartRefused, AttachObserver, ReadinessPoll, OpenWindow, Measure,
         CloseWindow, WallClockWentBack, ObservationFails, CloseObserver, CloseFails,
         MarkRefused, EvidenceMissing, PublicationFails, Kill
<1>2. pc' \in {pc, [pc EXCEPT ![p] = "observe"], [pc EXCEPT ![p] = "failed"],
               [pc EXCEPT ![p] = "readiness"], [pc EXCEPT ![p] = "open"],
               [pc EXCEPT ![p] = "abort"], [pc EXCEPT ![p] = "measure"],
               [pc EXCEPT ![p] = "close"], [pc EXCEPT ![p] = "mark"],
               [pc EXCEPT ![p] = "killed"]}
  BY DEF Aside, Start, StartRefused, AttachObserver, ReadinessPoll, OpenWindow, Measure,
         CloseWindow, WallClockWentBack, ObservationFails, CloseObserver, CloseFails,
         MarkRefused, EvidenceMissing, PublicationFails, Kill
<1> QED
  BY <1>1, <1>2

LEMMA OwnershipStep ==
  ASSUME TypeOK, Ownership, [Next]_vars
  PROVE  Ownership'
<1> USE NoneAssumption, EarlierAssumption
    DEF TypeOK, Ownership, PublishedByMarkerOwner, Marked, File
<1>1. CASE Tick \/ WallClockSetBack \/ InterfacesChange \/ RecorderStarts \/ UNCHANGED vars
  <2>1. UNCHANGED <<pc, marker, index, disk>>
    BY <1>1 DEF Tick, WallClockSetBack, InterfacesChange, RecorderStarts, local, vars, env
  <2> QED
    BY <2>1
<1>2. CASE RecorderFinalizes
  <2>1. UNCHANGED <<pc, marker, disk>>
    BY <1>2 DEF RecorderFinalizes, local
  <2>2. index' # None
    BY <1>2, VerificationAssumption DEF RecorderFinalizes, Wall, Instant, WallInstant
  <2> QED
    BY <2>1, <2>2
<1>3. ASSUME NEW p \in Procs, Aside(p) PROVE Ownership'
  BY <1>3, AsideMoves
<1>4. ASSUME NEW p \in Procs, Mark(p) PROVE Ownership'
  <2>1. /\ marker = None /\ marker' = p /\ pc' = [pc EXCEPT ![p] = "wait"]
        /\ UNCHANGED <<index, disk>>
    BY <1>4 DEF Mark, Goto, env
  <2>2. \A q \in Procs : pc[q] \notin Marked
    BY <2>1
  <2> QED
    BY <2>1, <2>2
<1>5. ASSUME NEW p \in Procs, LoadEvidence(p) PROVE Ownership'
  BY <1>5 DEF LoadEvidence, Goto, env
<1>6. ASSUME NEW p \in Procs, Evaluate(p) PROVE Ownership'
  BY <1>6 DEF Evaluate, Goto, env
<1>7. ASSUME NEW p \in Procs, WriteJson(p) PROVE Ownership'
  <2>1. /\ pc[p] = "json" /\ pc' = [pc EXCEPT ![p] = "junit"]
        /\ disk' = [disk EXCEPT !["json"] = p]
        /\ UNCHANGED <<marker, index>>
    BY <1>7 DEF WriteJson, Goto, env
  <2> QED
    BY <2>1
<1>8. ASSUME NEW p \in Procs, WriteJUnit(p) PROVE Ownership'
  <2>1. /\ pc[p] = "junit" /\ pc' = [pc EXCEPT ![p] = "done"]
        /\ disk' = [disk EXCEPT !["junit"] = p]
        /\ UNCHANGED <<marker, index>>
    BY <1>8 DEF WriteJUnit, Goto, env
  <2> QED
    BY <2>1
<1> QED
  BY <1>1, <1>2, <1>3, <1>4, <1>5, <1>6, <1>7, <1>8, StepCases DEF Aside

LEMMA OwnershipInvariant == Spec => [](TypeOK /\ Ownership)
<1>1. Init => Ownership
  BY NoneAssumption DEF Init, Ownership, PublishedByMarkerOwner, Marked, File
<1> QED
  BY <1>1, TypeInit, TypeStep, OwnershipStep, PTL DEF Spec

(* However many processes are started on one marker, the reports in the    *)
(* output directory are those of the process that created it.              *)
THEOREM OneOwner == Spec => []PublishedByMarkerOwner
<1>1. Ownership => PublishedByMarkerOwner
  BY DEF Ownership
<1> QED
  BY <1>1, OwnershipInvariant, PTL

-----------------------------------------------------------------------------
(* run_verification implements the abstract protocol of one marker: every  *)
(* step is Complete, Finalize, Publish or a stutter of Measurement.        *)
LEMMA StepImplements ==
  ASSUME TypeOK, Ownership, [Next]_vars
  PROVE  [Abstract!Next]_(Abstract!vars)
<1> USE NoneAssumption, EarlierAssumption
    DEF TypeOK, Ownership, Marked, File, Abstract!Next, Abstract!vars
<1>1. CASE Tick \/ WallClockSetBack \/ InterfacesChange \/ RecorderStarts \/ UNCHANGED vars
  BY <1>1 DEF Tick, WallClockSetBack, InterfacesChange, RecorderStarts, vars, env
<1>2. CASE RecorderFinalizes
  <2>1. index' # None
    BY <1>2, VerificationAssumption DEF RecorderFinalizes, Wall, Instant, WallInstant
  <2> QED
    BY <1>2, <2>1 DEF RecorderFinalizes, Abstract!Finalize
<1>3. ASSUME NEW p \in Procs, Aside(p) PROVE UNCHANGED Abstract!vars
  BY <1>3, AsideMoves
<1>4. ASSUME NEW p \in Procs, Mark(p) PROVE Abstract!Complete
  BY <1>4 DEF Mark, Abstract!Complete, env
<1>5. ASSUME NEW p \in Procs, LoadEvidence(p) \/ Evaluate(p) PROVE UNCHANGED Abstract!vars
  BY <1>5 DEF LoadEvidence, Evaluate, env
<1>6. ASSUME NEW p \in Procs, WriteJson(p) PROVE Abstract!Publish("json")
  BY <1>6 DEF WriteJson, Goto, env, Abstract!Publish
<1>7. ASSUME NEW p \in Procs, WriteJUnit(p) PROVE Abstract!Publish("junit")
  BY <1>7 DEF WriteJUnit, Goto, env, Abstract!Publish
<1> QED
  BY <1>1, <1>2, <1>3, <1>4, <1>5, <1>6, <1>7, StepCases DEF Aside

THEOREM Refinement == Spec => ImplementsMeasurement
<1>1. Init => Abstract!Init
  BY NoneAssumption, EarlierAssumption DEF Init, Abstract!Init, File
<1> QED
  BY <1>1, OwnershipInvariant, StepImplements, PTL DEF Spec, ImplementsMeasurement, Abstract!Spec

-----------------------------------------------------------------------------
(* A process without an observer step to go has left the domain, and the   *)
(* creator of the marker is one.                                           *)
Detachment ==
  /\ \A p \in attached : pc[p] \in Observer
  /\ \A p \in Procs : marker = p => pc[p] \in Marked \cup Ended

(* The monitor holds everything that was ever exposed, and a verdict is    *)
(* formed after the last snapshot.                                         *)
Exposure ==
  /\ \A p \in Procs : exposed[p] \subseteq violations[p]
  /\ \A p \in Procs : status[p] # None => pc[p] \in {"json", "junit"} \cup Ended
  /\ \A p \in Procs : status[p] = "passed" => violations[p] = {}

(* While the wall clock was never set back, wall and monotonic stamps of   *)
(* an interval are the same, so the coverage check compares real times.    *)
SameClock(interval) ==
  interval.start = interval.from /\ interval.finish = interval.to

Recorded ==
  /\ setBack = 0 =>
       /\ recording # None => recording.start = recording.from
       /\ index # None => SameClock(index)
       /\ \A p \in Procs : SameClock(window[p])
       /\ \A p \in Procs : evidence[p] # None => SameClock(evidence[p])
  /\ \A p \in Procs : pc[p] \in Marked \ {"wait"} => evidence[p] # None
  /\ \A p \in Procs : status[p] # None => pc[p] \in {"json", "junit"} \cup Ended
  /\ PassedIsRecorded

LEMMA DetachmentStep ==
  ASSUME TypeOK, Detachment, [Next]_vars
  PROVE  Detachment'
<1> USE NoneAssumption DEF TypeOK, Detachment, Observer, Marked, Ended, Goto, env
<1>1. CASE Tick \/ WallClockSetBack \/ InterfacesChange \/ RecorderStarts \/ RecorderFinalizes
           \/ UNCHANGED vars
  <2>1. UNCHANGED <<pc, marker, attached>>
    BY <1>1 DEF Tick, WallClockSetBack, InterfacesChange, RecorderStarts, RecorderFinalizes,
         local, vars
  <2> QED
    BY <2>1
<1>2. ASSUME NEW p \in Procs,
             \/ Start(p) \/ StartRefused(p) \/ AttachObserver(p) \/ ReadinessPoll(p)
             \/ OpenWindow(p) \/ Measure(p) \/ CloseWindow(p) \/ WallClockWentBack(p)
             \/ ObservationFails(p)
      PROVE  Detachment'
  <2>1. UNCHANGED marker /\ pc[p] \in {"start", "observe"} \cup Observer
    BY <1>2 DEF Start, StartRefused, AttachObserver, ReadinessPoll, OpenWindow, Measure,
         CloseWindow, WallClockWentBack, ObservationFails
  <2>2. /\ attached' \subseteq attached \cup {p}
        /\ \A q \in Procs \ {p} : pc'[q] = pc[q]
        /\ pc'[p] \notin Observer => p \notin attached'
    BY <1>2 DEF Start, StartRefused, AttachObserver, ReadinessPoll, OpenWindow, Measure,
         CloseWindow, WallClockWentBack, ObservationFails
  <2>3. attached' \subseteq Procs
    BY <2>2
  <2> QED
    BY <2>1, <2>2, <2>3
<1>3. ASSUME NEW p \in Procs, CloseObserver(p) \/ CloseFails(p) \/ Kill(p)
      PROVE  Detachment'
  <2>1. /\ UNCHANGED marker /\ attached' = attached \ {p}
        /\ \A q \in Procs \ {p} : pc'[q] = pc[q]
        /\ pc[p] \in Marked => pc'[p] \in Ended
        /\ pc[p] \notin {"close", "abort"} => pc'[p] \in Ended
    BY <1>3 DEF CloseObserver, CloseFails, Kill
  <2> QED
    BY <2>1
<1>4. ASSUME NEW p \in Procs,
             \/ Mark(p) \/ MarkRefused(p) \/ LoadEvidence(p) \/ EvidenceMissing(p) \/ Evaluate(p)
             \/ PublicationFails(p) \/ WriteJson(p) \/ WriteJUnit(p)
      PROVE  Detachment'
  <2>1. /\ UNCHANGED attached /\ pc[p] \notin Observer
        /\ \A q \in Procs \ {p} : pc'[q] = pc[q]
        /\ pc'[p] \in Marked \cup Ended
        /\ marker' \in {marker, p}
    BY <1>4 DEF Mark, MarkRefused, LoadEvidence, EvidenceMissing, Evaluate, PublicationFails,
         WriteJson, WriteJUnit
  <2> QED
    BY <2>1
<1> QED
  BY <1>1, <1>2, <1>3, <1>4, StepCases

(* The process that created the marker has left the domain.                *)
THEOREM DetachedBeforeMarker == Spec => []MarkedMeansDetached
<1>1. Init => Detachment
  BY NoneAssumption, EarlierAssumption DEF Init, Detachment
<1>2. TypeOK /\ Detachment => MarkedMeansDetached
  BY DEF TypeOK, Detachment, MarkedMeansDetached, Marked, Observer, Ended
<1> QED
  BY <1>1, <1>2, TypeInit, TypeStep, DetachmentStep, PTL DEF Spec

LEMMA ExposureStep ==
  ASSUME TypeOK, Exposure, [Next]_vars
  PROVE  Exposure'
<1>0. None # "passed"
  BY NoneAssumption DEF Status, AssertionStatus
<1> USE <1>0 DEF TypeOK, Exposure, Ended, Goto, env
<1>1. CASE Tick \/ WallClockSetBack \/ InterfacesChange \/ RecorderStarts \/ RecorderFinalizes
           \/ UNCHANGED vars
  <2>1. UNCHANGED <<pc, violations, exposed, status>>
    BY <1>1 DEF Tick, WallClockSetBack, InterfacesChange, RecorderStarts, RecorderFinalizes,
         local, vars
  <2> QED
    BY <2>1
<1>2. ASSUME NEW p \in Procs, ReadinessPoll(p) \/ Measure(p) PROVE Exposure'
  <2>1. /\ pc[p] \in {"readiness", "measure"} /\ UNCHANGED status
        /\ violations' = [violations EXCEPT ![p] = violations[p] \cup present]
        /\ exposed' = [exposed EXCEPT ![p] = exposed[p] \cup present]
        /\ \A q \in Procs \ {p} : pc'[q] = pc[q]
    BY <1>2 DEF ReadinessPoll, Measure, Observe
  <2>2. status[p] = None
    BY <2>1
  <2>3. ASSUME NEW q \in Procs PROVE exposed'[q] \subseteq violations'[q]
    <3>1. exposed[q] \subseteq violations[q]
      OBVIOUS
    <3>2. CASE q = p
      BY <2>1, <3>1, <3>2
    <3>3. CASE q # p
      BY <2>1, <3>1, <3>3
    <3> QED
      BY <3>2, <3>3
  <2>4. (\A q \in Procs : exposed[q] \subseteq violations[q])'
    BY ONLY <2>3
  <2>5. (\A q \in Procs : status[q] # None => pc[q] \in {"json", "junit"} \cup Ended)'
    BY <2>1, <2>2
  <2>6. (\A q \in Procs : status[q] = "passed" => violations[q] = {})'
    BY <2>1, <2>2
  <2> QED
    BY ONLY <2>4, <2>5, <2>6 DEF Exposure
<1>3. ASSUME NEW p \in Procs, Evaluate(p) PROVE Exposure'
  <2>1. UNCHANGED <<violations, exposed>> /\ pc' = [pc EXCEPT ![p] = "json"]
    BY <1>3 DEF Evaluate
  <2> QED
    BY <1>3, <2>1, EvaluationPasses
<1>4. ASSUME NEW p \in Procs,
             \/ Start(p) \/ StartRefused(p) \/ AttachObserver(p) \/ OpenWindow(p)
             \/ CloseWindow(p) \/ WallClockWentBack(p) \/ ObservationFails(p)
             \/ CloseObserver(p) \/ CloseFails(p) \/ Mark(p) \/ MarkRefused(p)
             \/ LoadEvidence(p) \/ EvidenceMissing(p) \/ PublicationFails(p)
             \/ WriteJson(p) \/ WriteJUnit(p) \/ Kill(p)
      PROVE  Exposure'
  <2>1. /\ UNCHANGED <<violations, exposed, status>>
        /\ \A q \in Procs \ {p} : pc'[q] = pc[q]
        /\ pc[p] \in {"json", "junit"} \cup Ended => pc'[p] \in {"json", "junit"} \cup Ended
    BY <1>4 DEF Start, StartRefused, AttachObserver, OpenWindow, CloseWindow,
         WallClockWentBack, ObservationFails, CloseObserver, CloseFails, Mark, MarkRefused,
         LoadEvidence, EvidenceMissing, PublicationFails, WriteJson, WriteJUnit, Kill
  <2> QED
    BY <2>1
<1> QED
  BY <1>1, <1>2, <1>3, <1>4, StepCases

(* What was forbidden and present at any snapshot never passes.            *)
THEOREM ExposedNeverPasses == Spec => []ExposureNeverPasses
<1>1. Init => Exposure
  BY NoneAssumption DEF Init, Exposure, Status, AssertionStatus
<1>2. Exposure => ExposureNeverPasses
  BY DEF Exposure, ExposureNeverPasses
<1> QED
  BY <1>1, <1>2, TypeInit, TypeStep, ExposureStep, PTL DEF Spec

(* A twentieth of a whole number, rounded down. *)
LEMMA Twentieth ==
  ASSUME NEW x \in Nat, NEW m \in Int, m <= x \div 20
  PROVE  20 * m <= x
OBVIOUS

(* On one clock, what covers a window was recorded throughout it.          *)
LEMMA CoveredIsRecorded ==
  ASSUME NEW p \in Procs, evidence[p] \in Window, window[p] \in Window,
         SameClock(evidence[p]), SameClock(window[p]), Covers(evidence[p], window[p])
  PROVE  RecordedThroughout(p)
<1> DEFINE e == evidence[p]
           w == window[p]
           m == Missing(e.from, e.to, w.from, w.to)
<1>1. e.from \in Int /\ e.to \in Int /\ w.from \in Int /\ w.to \in Int
  BY VerificationAssumption DEF Window, Instant
<1>2. e.start = e.from /\ e.finish = e.to /\ w.start = w.from /\ w.finish = w.to
  BY DEF SameClock
<1>3. m <= EdgeTolerance /\ m <= (w.to - w.from) \div 20 /\ w.from < w.to
  BY <1>2 DEF Covers
<1>4. m \in Int
  BY <1>1 DEF Missing
<1>5. w.to - w.from \in Nat
  BY <1>1, <1>3
<1> HIDE DEF m
<1>6. 20 * m <= w.to - w.from
  BY <1>3, <1>4, <1>5, Twentieth
<1> QED
  BY <1>3, <1>6 DEF m, RecordedThroughout

LEMMA RecordedStep ==
  ASSUME TypeOK, Recorded, [Next]_vars
  PROVE  Recorded'
<1>0. None # "passed"
  BY NoneAssumption DEF Status, AssertionStatus
<1> USE <1>0, NoneAssumption, VerificationAssumption
    DEF TypeOK, Recorded, PassedIsRecorded, RecordedThroughout, SameClock, Marked, Ended, Goto,
        Wall, Instant
<1>1. CASE Tick \/ InterfacesChange \/ UNCHANGED vars
  <2>1. UNCHANGED <<pc, setBack, recording, index, window, evidence, status>>
    BY <1>1 DEF Tick, InterfacesChange, local, vars, env
  <2> QED
    BY <2>1
<1>2. CASE WallClockSetBack
  <2>1. setBack' # 0 /\ UNCHANGED <<pc, window, evidence, status>>
    BY <1>2 DEF WallClockSetBack, local
  <2> QED
    BY <2>1
<1>3. CASE RecorderStarts
  <2>1. UNCHANGED <<pc, setBack, index, window, evidence, status>>
    BY <1>3 DEF RecorderStarts, local
  <2>2. setBack = 0 => recording'.start = recording'.from
    BY <1>3 DEF RecorderStarts
  <2> QED
    BY <2>1, <2>2
<1>4. CASE RecorderFinalizes
  <2>1. UNCHANGED <<pc, setBack, window, evidence, status>> /\ recording' = None
    BY <1>4 DEF RecorderFinalizes, local
  <2>2. setBack = 0 => SameClock(index')
    BY <1>4 DEF RecorderFinalizes
  <2> QED
    BY <2>1, <2>2
<1>5. ASSUME NEW p \in Procs, OpenWindow(p) \/ CloseWindow(p) PROVE Recorded'
  <2>1. /\ UNCHANGED <<setBack, recording, index, evidence, status>>
        /\ pc[p] \in {"open", "measure"} /\ pc'[p] \in {"measure", "close"}
        /\ \A q \in Procs \ {p} : pc'[q] = pc[q] /\ window'[q] = window[q]
    BY <1>5 DEF OpenWindow, CloseWindow, env
  <2>2. status[p] = None
    BY <2>1
  <2>3. ASSUME setBack = 0 PROVE SameClock(window'[p])
    <3>1. Wall = now /\ SameClock(window[p]) /\ window[p] \in Window
      BY <2>3
    <3>2. CASE OpenWindow(p)
      <4>1. window' = [window EXCEPT ![p] = [window[p] EXCEPT !.start = Wall, !.from = now]]
        BY <3>2 DEF OpenWindow
      <4>2. window'[p] = [window[p] EXCEPT !.start = Wall, !.from = now]
        BY <4>1
      <4> QED
        BY <3>1, <4>2 DEF Window
    <3>3. CASE CloseWindow(p)
      <4>1. window' = [window EXCEPT ![p] = [window[p] EXCEPT !.finish = Wall, !.to = now]]
        BY <3>3 DEF CloseWindow
      <4>2. window'[p] = [window[p] EXCEPT !.finish = Wall, !.to = now]
        BY <4>1
      <4> QED
        BY <3>1, <4>2 DEF Window
    <3> QED
      BY <1>5, <3>2, <3>3
  <2> QED
    BY <2>1, <2>2, <2>3
<1>6. ASSUME NEW p \in Procs, LoadEvidence(p) PROVE Recorded'
  <2>1. /\ UNCHANGED <<setBack, recording, index, window, status>>
        /\ pc[p] = "wait" /\ pc' = [pc EXCEPT ![p] = "evaluate"]
        /\ index # None /\ evidence' = [evidence EXCEPT ![p] = index]
    BY <1>6 DEF LoadEvidence, env
  <2>2. status[p] = None
    BY <2>1
  <2>3. evidence'[p] = index /\ \A q \in Procs \ {p} : evidence'[q] = evidence[q]
    BY <2>1
  <2>4. setBack = 0 => \A q \in Procs : evidence'[q] # None => SameClock(evidence'[q])
    BY <2>1, <2>3
  <2>5. \A q \in Procs : /\ pc'[q] \in Marked \ {"wait"} => evidence'[q] # None
                         /\ status[q] # None => pc'[q] \in {"json", "junit"} \cup Ended
    BY <2>1, <2>2, <2>3
  <2>6. PassedIsRecorded'
    BY <2>1, <2>2, <2>3
  <2> QED
    BY <2>1, <2>4, <2>5, <2>6
<1>7. ASSUME NEW p \in Procs, Evaluate(p) PROVE Recorded'
  <2>1. /\ UNCHANGED <<setBack, recording, index, window, evidence>>
        /\ pc[p] = "evaluate" /\ pc' = [pc EXCEPT ![p] = "json"]
    BY <1>7 DEF Evaluate, env
  <2>2. /\ \A q \in Procs \ {p} : status'[q] = status[q]
        /\ status'[p] = "passed" => Covers(evidence[p], window[p])
    BY <1>7, EvaluationPasses
  <2>3. ASSUME setBack = 0, status'[p] = "passed" PROVE RecordedThroughout(p)
    <3>1. evidence[p] # None /\ SameClock(evidence[p]) /\ SameClock(window[p])
      BY <2>1, <2>3
    <3>2. Covers(evidence[p], window[p])
      BY <2>2, <2>3
    <3> QED
      BY <3>1, <3>2, CoveredIsRecorded
  <2>4. \A q \in Procs : RecordedThroughout(q)' <=> RecordedThroughout(q)
    BY <2>1 DEF RecordedThroughout
  <2>5. PassedIsRecorded'
    BY <2>1, <2>2, <2>3, <2>4
  <2> QED
    BY <2>1, <2>2, <2>5
<1>8. ASSUME NEW p \in Procs,
             \/ Start(p) \/ StartRefused(p) \/ AttachObserver(p) \/ ReadinessPoll(p)
             \/ Measure(p) \/ WallClockWentBack(p) \/ ObservationFails(p)
             \/ CloseObserver(p) \/ CloseFails(p) \/ Mark(p) \/ MarkRefused(p)
             \/ EvidenceMissing(p) \/ PublicationFails(p)
             \/ WriteJson(p) \/ WriteJUnit(p) \/ Kill(p)
      PROVE  Recorded'
  <2>1. UNCHANGED <<setBack, recording, index, window, evidence, status>>
    BY <1>8 DEF Start, StartRefused, AttachObserver, ReadinessPoll, Measure,
         WallClockWentBack, ObservationFails, CloseObserver, CloseFails, Mark, MarkRefused,
         EvidenceMissing, PublicationFails, WriteJson, WriteJUnit, Kill, env
  <2>2. /\ \A q \in Procs \ {p} : pc'[q] = pc[q]
        /\ pc[p] \in {"json", "junit"} \cup Ended => pc'[p] \in {"json", "junit"} \cup Ended
        /\ pc'[p] \in Marked \ {"wait"} => pc[p] \in Marked \ {"wait"}
    BY <1>8 DEF Start, StartRefused, AttachObserver, ReadinessPoll, Measure,
         WallClockWentBack, ObservationFails, CloseObserver, CloseFails, Mark, MarkRefused,
         EvidenceMissing, PublicationFails, WriteJson, WriteJUnit, Kill
  <2> QED
    BY <2>1, <2>2
<1> QED
  BY <1>1, <1>2, <1>3, <1>4, <1>5, <1>6, <1>7, <1>8, StepCases

(* A passed verdict rests on evidence recorded throughout its own window.  *)
THEOREM PassedWasRecorded == Spec => []PassedIsRecorded
<1>1. Init => Recorded
  <2>1. SameClock(NoWindow) /\ SameClock(StaleIndex)
    BY DEF SameClock, NoWindow, StaleIndex
  <2> QED
    BY <2>1, NoneAssumption
      DEF Init, Recorded, PassedIsRecorded, Marked, Status, AssertionStatus
<1>2. Recorded => PassedIsRecorded
  BY DEF Recorded
<1> QED
  BY <1>1, <1>2, TypeInit, TypeStep, RecordedStep, PTL DEF Spec
=============================================================================
