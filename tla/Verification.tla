----------------------------- MODULE Verification -----------------------------
(***************************************************************************)
(* run_verification: harness processes that were started for one run, with *)
(* the same marker path and output directory, next to the recorder and a   *)
(* domain that changes.  A process waits for readiness, measures for       *)
(* execution_sec, detaches, creates the marker, waits for the finalized    *)
(* evidence index and publishes a verdict.  It may fail at any call, or be *)
(* killed.  Readiness, RosObserver and Report look inside the calls that   *)
(* are single steps here.                                                  *)
(***************************************************************************)
EXTENDS Verdict, Integers

CONSTANTS
  Procs,          (* the processes                                         *)
  Forbidden,      (* interfaces the scenario forbids                       *)
  ExecutionTime,  (* timeouts.execution_sec                                *)
  ShutdownTime,   (* timeouts.shutdown_sec: how long evidence may take     *)
  EdgeTolerance,  (* METRIC_WINDOW_COVERAGE_TOLERANCE_NS: one second       *)
  None,           (* Python's None                                         *)
  MaxTime,        (* bound: the monotonic clock stops here                 *)
  MaxSetBack      (* bound: how far the wall clock is set back in all      *)

ASSUME VerificationAssumption ==
  /\ ExecutionTime \in Nat \ {0} /\ ShutdownTime \in Nat
  /\ EdgeTolerance \in Nat
  /\ MaxTime \in Nat /\ MaxSetBack \in Nat

VARIABLES
  now,        (* the monotonic clock                                       *)
  setBack,    (* how far the wall clock was set back                       *)
  present,    (* forbidden interfaces now in the domain                    *)
  marker,     (* who created the marker file                               *)
  recording,  (* since when the recorder records, or None                  *)
  index,      (* the finalized evidence index, or None                     *)
  pc,         (* per process: where run_verification is                    *)
  attached,   (* processes whose observer is in the domain                 *)
  violations, (* per process: ForbiddenGraphMonitor._violations            *)
  window,     (* per process: its measurement window                       *)
  deadline,   (* per process: end of the window, then of the evidence wait *)
  evidence,   (* per process: the index it loaded                          *)
  status,     (* per process: the status of its result                     *)
  disk,       (* who wrote each report in the output directory             *)
  exposed     (* history: what was forbidden and present at a snapshot     *)

env == <<now, setBack, present, recording, index>>
local == <<pc, attached, violations, window, deadline, evidence, status, exposed>>
vars == <<env, local, marker, disk>>

File == {"json", "junit"}
Ended == {"done", "failed", "killed"}
Earlier == "an earlier invocation"
Wall == now - setBack

ASSUME NoneAssumption ==
  /\ None \notin Procs \cup Status \cup {Earlier}
  /\ None \notin [start : Int, from : Int]
  /\ None \notin [start : Int, finish : Int, from : Int, to : Int]
ASSUME EarlierAssumption == Earlier \notin Procs

NoWindow == [start |-> 0, finish |-> 0, from |-> 0, to |-> 0]

(* An index left over from before: it covers nothing of this run's window. *)
StaleIndex == [start |-> 0, finish |-> 0, from |-> 0, to |-> 0]

Init ==
  /\ now = 0 /\ setBack = 0
  /\ present = {}
  /\ marker \in {None, Earlier}
  /\ recording = None
  /\ index \in {None, StaleIndex}
  /\ pc = [p \in Procs |-> "start"]
  /\ attached = {}
  /\ violations = [p \in Procs |-> {}]
  /\ window = [p \in Procs |-> NoWindow]
  /\ deadline = [p \in Procs |-> 0]
  /\ evidence = [p \in Procs |-> None]
  /\ status = [p \in Procs |-> None]
  /\ disk = [f \in File |-> None]
  /\ exposed = [p \in Procs |-> {}]
-----------------------------------------------------------------------------
(* Around the processes: time, the domain, the recorder.                   *)

Tick ==
  /\ now < MaxTime
  /\ now' = now + 1
  /\ UNCHANGED <<setBack, present, recording, index, local, marker, disk>>

WallClockSetBack ==
  /\ setBack < MaxSetBack
  /\ setBack' = setBack + 1
  /\ UNCHANGED <<now, present, recording, index, local, marker, disk>>

InterfacesChange ==
  /\ present' \in SUBSET Forbidden \ {present}
  /\ UNCHANGED <<now, setBack, recording, index, local, marker, disk>>

RecorderStarts ==
  /\ recording = None
  /\ marker = None
  /\ recording' = [start |-> Wall, from |-> now]
  /\ UNCHANGED <<now, setBack, present, index, local, marker, disk>>

(* The recorder closes when it sees the marker and finalizes the index.    *)
(* An index says when the recorded metrics start and end on the wall clock *)
(* (start, finish) and, as history, on the monotonic one (from, to).       *)
RecorderFinalizes ==
  /\ recording # None
  /\ marker # None
  /\ index' = [start |-> recording.start, finish |-> Wall,
               from |-> recording.from, to |-> now]
  /\ recording' = None
  /\ UNCHANGED <<now, setBack, present, local, marker, disk>>
-----------------------------------------------------------------------------
(* One process.                                                            *)

(* The last instant of the model stands for all later ones.                *)
Due(p) == now >= deadline[p] \/ now = MaxTime

Goto(p, here, there) == pc[p] = here /\ pc' = [pc EXCEPT ![p] = there]

(* The marker is looked at before anything else; the run context is read.  *)
Start(p) ==
  /\ marker = None
  /\ Goto(p, "start", "observe")
  /\ UNCHANGED <<env, attached, violations, window, deadline, evidence, status, exposed,
                 marker, disk>>

(* "measurement completion marker already exists", a missing directory, a  *)
(* run context of another run, an observer that cannot be created: nothing *)
(* has been acquired and the error reaches main.                           *)
StartRefused(p) ==
  /\ \/ Goto(p, "start", "failed")
     \/ Goto(p, "observe", "failed")
  /\ UNCHANGED <<env, attached, violations, window, deadline, evidence, status, exposed,
                 marker, disk>>

AttachObserver(p) ==
  /\ Goto(p, "observe", "readiness")
  /\ attached' = attached \cup {p}
  /\ UNCHANGED <<env, violations, window, deadline, evidence, status, exposed, marker, disk>>

(* Mutation: the monitor keeps the latest snapshot only. *)
ObserveLatest(p) ==
  /\ violations' = [violations EXCEPT ![p] = present]
  /\ exposed' = [exposed EXCEPT ![p] = @ \cup present]

(* A snapshot, handed to the forbidden graph monitor. *)
Observe(p) ==
  /\ violations' = [violations EXCEPT ![p] = @ \cup present]
  /\ exposed' = [exposed EXCEPT ![p] = @ \cup present]

(* A snapshot of the readiness wait: not ready or not for long enough yet, *)
(* granted, or out of time.                                                *)
ReadinessPoll(p) ==
  /\ \/ pc[p] = "readiness" /\ UNCHANGED pc
     \/ Goto(p, "readiness", "open")
     \/ Goto(p, "readiness", "abort")
  /\ Observe(p)
  /\ UNCHANGED <<env, attached, window, deadline, evidence, status, marker, disk>>

(* start_clock_observation, then the two clocks are read. *)
OpenWindow(p) ==
  /\ Goto(p, "open", "measure")
  /\ window' = [window EXCEPT ![p].start = Wall, ![p].from = now]
  /\ deadline' = [deadline EXCEPT ![p] = now + ExecutionTime]
  /\ UNCHANGED <<env, attached, violations, evidence, status, exposed, marker, disk>>

Measure(p) ==
  /\ pc[p] = "measure"
  /\ now < deadline[p]
  /\ Observe(p)
  /\ UNCHANGED <<env, pc, attached, window, deadline, evidence, status, marker, disk>>

(* The window closes unless the wall clock has moved backwards. *)
CloseWindow(p) ==
  /\ Due(p)
  /\ Wall >= window[p].start
  /\ Goto(p, "measure", "close")
  /\ window' = [window EXCEPT ![p].finish = Wall, ![p].to = now]
  /\ UNCHANGED <<env, attached, violations, deadline, evidence, status, exposed, marker, disk>>

WallClockWentBack(p) ==
  /\ Due(p)
  /\ Wall < window[p].start
  /\ Goto(p, "measure", "abort")
  /\ UNCHANGED <<env, attached, violations, window, deadline, evidence, status, exposed,
                 marker, disk>>

(* Any other exception inside the try block (the executor stopped, too     *)
(* many clock samples): close still runs.                                  *)
ObservationFails(p) ==
  /\ \E here \in {"readiness", "open", "measure"} : Goto(p, here, "abort")
  /\ UNCHANGED <<env, attached, violations, window, deadline, evidence, status, exposed,
                 marker, disk>>

CloseObserver(p) ==
  /\ \/ Goto(p, "close", "mark")
     \/ Goto(p, "abort", "failed")
  /\ attached' = attached \ {p}
  /\ UNCHANGED <<env, violations, window, deadline, evidence, status, exposed, marker, disk>>

(* Mutation: an observer that does not stop is left behind. *)
CloseFailsIgnored(p) ==
  /\ \/ Goto(p, "close", "mark")
     \/ Goto(p, "abort", "failed")
  /\ UNCHANGED <<env, attached, violations, window, deadline, evidence, status, exposed,
                 marker, disk>>

(* close raises: the spin thread did not stop.  The process ends, and with *)
(* it the observer.                                                        *)
CloseFails(p) ==
  /\ \/ Goto(p, "close", "failed")
     \/ Goto(p, "abort", "failed")
  /\ attached' = attached \ {p}
  /\ UNCHANGED <<env, violations, window, deadline, evidence, status, exposed, marker, disk>>

(* Mutation: touch(exist_ok=True). *)
MarkExistOk(p) ==
  /\ marker' = IF marker = None THEN p ELSE marker
  /\ Goto(p, "mark", "wait")
  /\ deadline' = [deadline EXCEPT ![p] = now + ShutdownTime]
  /\ UNCHANGED <<env, attached, violations, window, evidence, status, exposed, disk>>

Mark(p) ==
  /\ marker = None
  /\ marker' = p
  /\ Goto(p, "mark", "wait")
  /\ deadline' = [deadline EXCEPT ![p] = now + ShutdownTime]
  /\ UNCHANGED <<env, attached, violations, window, evidence, status, exposed, disk>>

(* "measurement completion marker appeared during the run". *)
MarkRefused(p) ==
  /\ marker # None
  /\ Goto(p, "mark", "failed")
  /\ UNCHANGED <<env, attached, violations, window, deadline, evidence, status, exposed,
                 marker, disk>>

LoadEvidence(p) ==
  /\ index # None
  /\ Goto(p, "wait", "evaluate")
  /\ evidence' = [evidence EXCEPT ![p] = index]
  /\ UNCHANGED <<env, attached, violations, window, deadline, status, exposed, marker, disk>>

(* Mutation: the wait for the index has no deadline. *)
EvidenceNeverGivenUp(p) ==
  /\ index # None
  /\ Due(p)
  /\ Goto(p, "wait", "failed")
  /\ UNCHANGED <<env, attached, violations, window, deadline, evidence, status, exposed,
                 marker, disk>>

EvidenceMissing(p) ==
  /\ index = None
  /\ Due(p)
  /\ Goto(p, "wait", "failed")
  /\ UNCHANGED <<env, attached, violations, window, deadline, evidence, status, exposed,
                 marker, disk>>

(* Mutation: any metrics will do. *)
CoversNothing(e, w) == TRUE

(* What of an interval is missing from another, before and behind it.      *)
Missing(first, last, start, finish) ==
  (IF first > start THEN first - start ELSE 0)
    + (IF finish > last THEN finish - last ELSE 0)

(* The authority metric covers a window that has some length, on the wall  *)
(* clock, but for the tolerated part of its edges: one second or 5 percent *)
(* of the window, whichever is less (require_window_coverage).             *)
Covers(e, w) ==
  LET missing == Missing(e.start, e.finish, w.start, w.finish)
  IN  /\ w.start < w.finish
      /\ missing <= EdgeTolerance
      /\ missing <= (w.finish - w.start) \div 20

Evaluate(p) ==
  /\ Goto(p, "evaluate", "json")
  /\ \E outcomes \in [AssertionIds -> AssertionStatus], steady \in BOOLEAN :
       status' = [status EXCEPT ![p] = VerdictStatus(
         [ assertions      |-> outcomes,
           unevaluated     |-> {},
           forbiddenPassed |-> violations[p] = {},
           hardware        |-> "none",
           authorityWithin |-> steady /\ Covers(evidence[p], window[p]) ])]
  /\ UNCHANGED <<env, attached, violations, window, deadline, evidence, exposed, marker, disk>>

(* Evidence of another run, metrics that are not evidence, an evaluator or *)
(* a contract that rejects, a report that cannot be written.               *)
PublicationFails(p) ==
  /\ \E here \in {"wait", "evaluate", "json", "junit"} : Goto(p, here, "failed")
  /\ UNCHANGED <<env, attached, violations, window, deadline, evidence, status, exposed,
                 marker, disk>>

WriteJson(p) ==
  /\ Goto(p, "json", "junit")
  /\ disk' = [disk EXCEPT !["json"] = p]
  /\ UNCHANGED <<env, attached, violations, window, deadline, evidence, status, exposed, marker>>

WriteJUnit(p) ==
  /\ Goto(p, "junit", "done")
  /\ disk' = [disk EXCEPT !["junit"] = p]
  /\ UNCHANGED <<env, attached, violations, window, deadline, evidence, status, exposed, marker>>

Kill(p) ==
  /\ pc[p] \notin Ended
  /\ pc' = [pc EXCEPT ![p] = "killed"]
  /\ attached' = attached \ {p}
  /\ UNCHANGED <<env, violations, window, deadline, evidence, status, exposed, marker, disk>>
-----------------------------------------------------------------------------
Environment ==
  \/ Tick
  \/ WallClockSetBack
  \/ InterfacesChange
  \/ RecorderStarts
  \/ RecorderFinalizes

(* What process p does when no call fails it; the readiness wait is over   *)
(* after finitely many polls (Readiness!WaitEnds).                         *)
Progress(p) ==
  \/ Start(p)
  \/ AttachObserver(p)
  \/ ReadinessPoll(p) /\ pc'[p] # "readiness"
  \/ OpenWindow(p)
  \/ CloseWindow(p)
  \/ WallClockWentBack(p)
  \/ CloseObserver(p)
  \/ Mark(p)
  \/ MarkRefused(p)
  \/ LoadEvidence(p)
  \/ EvidenceMissing(p)
  \/ Evaluate(p)
  \/ WriteJson(p)
  \/ WriteJUnit(p)

Observing(p) == ReadinessPoll(p) \/ Measure(p)

Failing(p) ==
  \/ StartRefused(p)
  \/ ObservationFails(p)
  \/ CloseFails(p)
  \/ PublicationFails(p)
  \/ Kill(p)

Next == Environment \/ \E p \in Procs : Progress(p) \/ Observing(p) \/ Failing(p)

Spec == Init /\ [][Next]_vars

(* Time passes, and a process that was started goes on: in the end a loop  *)
(* is left.  That a call fails or a process is killed is never assumed.    *)
FairSpec ==
  /\ Spec
  /\ WF_vars(Tick)
  /\ \A p \in Procs : WF_vars(Progress(p))
-----------------------------------------------------------------------------
(* Shapes of the state. *)
Places == {"start", "observe", "readiness", "open", "measure", "close", "abort",
           "mark", "wait", "evaluate", "json", "junit"} \cup Ended
Instant == 0 .. MaxTime
WallInstant == -MaxSetBack .. MaxTime
Window == [start : WallInstant, finish : WallInstant, from : Instant, to : Instant]

TypeOK ==
  /\ now \in Instant /\ setBack \in 0 .. MaxSetBack
  /\ present \subseteq Forbidden
  /\ marker \in Procs \cup {None, Earlier}
  /\ recording \in [start : WallInstant, from : Instant] \cup {None}
  /\ index \in Window \cup {None}
  /\ pc \in [Procs -> Places]
  /\ attached \subseteq Procs
  /\ violations \in [Procs -> SUBSET Forbidden]
  /\ window \in [Procs -> Window]
  /\ deadline \in [Procs -> Nat]
  /\ evidence \in [Procs -> Window \cup {None}]
  /\ status \in [Procs -> ResultStatus \cup {None}]
  /\ disk \in [File -> Procs \cup {None}]
  /\ exposed \in [Procs -> SUBSET Forbidden]

(* The marker means "measured and detached": when it exists, the process   *)
(* that created it has left the domain for good, so the recorder that      *)
(* closes on it never records its own verifier (observer.close comes       *)
(* before touch, and an observer that does not stop leaves no marker).     *)
MarkedMeansDetached == marker \in Procs => marker \notin attached

(* Whatever was forbidden and present at any snapshot, during the wait for *)
(* readiness or in the window, the verdict is not "passed", also when it   *)
(* had gone again by the next snapshot (ForbiddenGraphMonitor).            *)
ExposureNeverPasses ==
  \A p \in Procs : status[p] = "passed" => exposed[p] = {}

RecordedThroughout(p) ==
  LET unrecorded == Missing(evidence[p].from, evidence[p].to, window[p].from, window[p].to)
  IN  /\ unrecorded <= EdgeTolerance
      /\ 20 * unrecorded <= window[p].to - window[p].from

(* A passed verdict rests on evidence of its own window: the recorder that *)
(* finalized the index ran for all of it but at most a second and at most  *)
(* a twentieth.  An index that was there already, or a recorder started    *)
(* later, cannot produce one.  The code compares wall-clock times, so the  *)
(* promise is for hosts whose wall clock was not set back.                 *)
PassedIsRecorded ==
  setBack = 0 =>
    \A p \in Procs : status[p] = "passed" => RecordedThroughout(p)

(* The output directory holds the reports of one process, the one that     *)
(* created the marker, however many were started on it (the exclusive      *)
(* touch after the early exists check).                                    *)
PublishedByMarkerOwner == \A f \in File : disk[f] # None => disk[f] = marker

(* run_verification implements Measurement. *)
Abstract == INSTANCE Measurement WITH
  winner <- marker, evidence <- (index # None), published <- disk
ImplementsMeasurement == Abstract!Spec

(* A process that has attached ends, whatever the robot, the recorder and  *)
(* the other processes do: no recorder that never finalizes, and no robot  *)
(* that never gets ready, keeps it waiting.                                *)
EveryRunEnds == \A p \in Procs : pc[p] = "readiness" ~> pc[p] \in Ended
=============================================================================
