----------------------------- MODULE RosObserver -----------------------------
(***************************************************************************)
(* RosGraphObserver: one caller and one spin thread share the observations *)
(* of a ROS domain under a lock.  The spin thread runs the subscription    *)
(* callbacks and completes GetState calls; the caller takes snapshots,     *)
(* opens and closes the clock window and closes the observer.  The domain  *)
(* itself (nodes, publishers, services) changes at any time, and a reply   *)
(* of a node may be on its way for any time.                               *)
(***************************************************************************)
EXTENDS Integers, Sequences

CONSTANTS
  Topics,        (* expected topics other than /clock                      *)
  Nodes,         (* expected lifecycle nodes                               *)
  States,        (* lifecycle states                                       *)
  SourceTimes,   (* source times a /clock message can carry                *)
  MaxSamples,    (* max_clock_samples                                      *)
  MaxHeard,      (* bound: /clock messages while recording                 *)
  None,          (* Python's None                                          *)
  MaxTime        (* bound: the clock stops here                            *)

ASSUME RosAssumption ==
  /\ MaxSamples \in Nat \ {0}     (* the constructor rejects anything less *)
  /\ MaxTime \in Nat /\ MaxHeard \in Nat
  /\ None \notin Int /\ None \notin States

VARIABLES
  now,           (* monotonic_ns                                           *)
  publishing,    (* topics with a publisher of the expected type           *)
  actual,        (* the lifecycle state each node is really in             *)
  serving,       (* nodes whose GetState service is there                  *)
  reply,         (* per node: the response on its way, if any              *)
  state,         (* _state                                                 *)
  executor,      (* the spin thread                                        *)
  stamp,         (* the /clock callback between its time stamp and the lock*)
  first,         (* _first_messages                                        *)
  record,        (* _record_clock                                          *)
  samples,       (* _clock_samples                                         *)
  overflow,      (* _clock_sample_overflow                                 *)
  returned,      (* what stop_clock_observation returned of this recording *)
  heard,         (* history: /clock messages delivered while recording     *)
  windowStart,   (* history: when start_clock_observation was last called  *)
  future,        (* per node: the GetState call, if any                    *)
  answer,        (* per node: the response the call completed with         *)
  observation,   (* per node: tracker.observation                          *)
  view,          (* snapshot under construction, or None                   *)
  askedAt        (* history, per node: when the latest snapshot was begun  *)
                 (* that found no call open, so could make one             *)

domain == <<publishing, actual, serving, reply>>
clock == <<stamp, record, samples, overflow, returned, heard, windowStart>>
tracker == <<future, answer, observation>>
snap == <<view, askedAt>>
vars == <<now, domain, state, executor, first, clock, tracker, snap>>

Running == state = "open" /\ executor = "spinning"   (* _require_running *)
-----------------------------------------------------------------------------
Init ==
  /\ now = 0
  /\ publishing \in SUBSET Topics
  /\ actual \in [Nodes -> States]
  /\ serving \in SUBSET Nodes
  /\ reply = [n \in Nodes |-> None]
  /\ state = "open" /\ executor = "spinning"
  /\ stamp = None
  /\ first = [t \in Topics \cup {"/clock"} |-> None]
  /\ record = FALSE /\ samples = << >> /\ overflow = FALSE
  /\ returned = None /\ heard = << >> /\ windowStart = 0
  /\ future = [n \in Nodes |-> "none"]
  /\ answer = [n \in Nodes |-> None]
  /\ observation = [n \in Nodes |-> None]
  /\ view = None /\ askedAt = [n \in Nodes |-> 0]

-----------------------------------------------------------------------------
(* The domain under observation. *)

Tick ==
  /\ now < MaxTime
  /\ now' = now + 1
  /\ UNCHANGED <<domain, state, executor, first, clock, tracker, snap>>

DomainChanges ==
  /\ \/ \E t \in Topics :
          /\ publishing' = (publishing \ {t}) \cup ({t} \ publishing)
          /\ UNCHANGED <<actual, serving, reply>>
     \/ \E n \in Nodes : \E s \in States \ {actual[n]} :
          /\ actual' = [actual EXCEPT ![n] = s]
          /\ UNCHANGED <<publishing, serving, reply>>
     \/ \E n \in Nodes :
          /\ serving' = (serving \ {n}) \cup ({n} \ serving)
          /\ UNCHANGED <<publishing, actual, reply>>
  /\ UNCHANGED <<now, state, executor, first, clock, tracker, snap>>

(* A node serves a call: its response says where it is now.                *)
NodeReplies(n) ==
  /\ future[n] = "pending" /\ reply[n] = None
  /\ n \in serving
  /\ reply' = [reply EXCEPT ![n] = [state |-> actual[n], at |-> now]]
  /\ UNCHANGED <<now, publishing, actual, serving,
                 state, executor, first, clock, tracker, snap>>

-----------------------------------------------------------------------------
(* The spin thread.  SingleThreadedExecutor runs one callback at a time.   *)

Idle == executor = "spinning" /\ stamp = None

(* A GetState response arrives, however long it took.  A call whose server *)
(* has gone before it replied is never completed.                          *)
AnswerArrives(n) ==
  /\ Idle
  /\ future[n] = "pending" /\ reply[n] # None
  /\ future' = [future EXCEPT ![n] = "done"]
  /\ answer' = [answer EXCEPT ![n] = reply[n]]
  /\ reply' = [reply EXCEPT ![n] = None]
  /\ UNCHANGED <<now, publishing, actual, serving,
                 state, executor, first, clock, observation, snap>>

CallFails(n) ==
  /\ Idle
  /\ future[n] = "pending"
  /\ future' = [future EXCEPT ![n] = "error"]
  /\ reply' = [reply EXCEPT ![n] = None]
  /\ UNCHANGED <<now, publishing, actual, serving,
                 state, executor, first, clock, answer, observation, snap>>

MessageArrives(t) ==
  /\ Idle
  /\ t \in publishing
  /\ first[t] = None                 (* setdefault: later messages change nothing *)
  /\ first' = [first EXCEPT ![t] = now]
  /\ UNCHANGED <<now, domain, state, executor, clock, tracker, snap>>

(* _clock_callback reads the clock first and takes the lock afterwards. *)
ClockArrives(source) ==
  /\ Idle
  /\ Len(heard) < MaxHeard
  /\ stamp' = [at |-> now, source |-> source]
  /\ UNCHANGED <<now, domain, state, executor, first,
                 record, samples, overflow, returned, heard, windowStart, tracker, snap>>

(* Mutation: every message becomes a sample. *)
AlwaysChanged(source) == TRUE

Changed(source) == samples = << >> \/ samples[Len(samples)].source # source

(* Mutation: at the limit the oldest sample makes room, silently. *)
ClockRecordedRing ==
  LET source == stamp.source IN
  /\ stamp # None /\ executor \in {"spinning", "stopping"}
  /\ first' = [first EXCEPT !["/clock"] = IF @ = None THEN stamp.at ELSE @]
  /\ heard' = IF record THEN Append(heard, stamp) ELSE heard
  /\ samples' =
       IF ~record \/ ~Changed(source) THEN samples
       ELSE IF Len(samples) < MaxSamples THEN Append(samples, stamp)
       ELSE Append(Tail(samples), stamp)
  /\ stamp' = None
  /\ UNCHANGED <<now, domain, state, executor, record, overflow, returned, windowStart,
                 tracker, snap>>

ClockRecorded ==
  LET source == stamp.source
      fresh  == record /\ Changed(source)
      full   == Len(samples) >= MaxSamples IN
  /\ stamp # None /\ executor \in {"spinning", "stopping"}
  /\ first' = [first EXCEPT !["/clock"] = IF @ = None THEN stamp.at ELSE @]
  /\ heard' = IF record THEN Append(heard, stamp) ELSE heard
  /\ overflow' = (overflow \/ (fresh /\ full))
  /\ samples' = IF fresh /\ ~full THEN Append(samples, stamp) ELSE samples
  /\ stamp' = None
  /\ UNCHANGED <<now, domain, state, executor, record, returned, windowStart, tracker, snap>>

(* executor.spin raises: _spin keeps the error and the thread ends. *)
SpinCrashes ==
  /\ Idle
  /\ executor' = "crashed"
  /\ UNCHANGED <<now, domain, state, first, clock, tracker, snap>>

(* After a shutdown request the thread leaves spin between callbacks. *)
SpinEnds ==
  /\ executor = "stopping" /\ stamp = None
  /\ executor' = "stopped"
  /\ UNCHANGED <<now, domain, state, first, clock, tracker, snap>>

-----------------------------------------------------------------------------
(* The caller.                                                             *)

Answered(n) == future[n] \in {"done", "error"}

(* Mutation: a finished call stays in its place. *)
PolledKeepsFinished(n) ==
  IF future[n] = "none" /\ n \in serving THEN "pending" ELSE future[n]

(* Where _poll_lifecycle leaves the call of a node: a finished one is      *)
(* taken, and a new one is made if none is open and the service is there.  *)
Polled(n) ==
  IF future[n] = "none" \/ Answered(n)
  THEN IF n \in serving THEN "pending" ELSE "none"
  ELSE future[n]

Observed(n) ==
  CASE future[n] = "done"  -> answer[n]
    [] future[n] = "error" -> None
    [] OTHER               -> observation[n]

(* snapshot, first half: require a running executor, poll the lifecycle    *)
(* calls, copy the first messages.                                         *)
BeginSnapshot ==
  /\ Running
  /\ view = None
  /\ observation' = [n \in Nodes |-> Observed(n)]
  /\ future' = [n \in Nodes |-> Polled(n)]
  /\ view' = [takenAt |-> now, first |-> first, nodes |-> observation']
  /\ askedAt' = [n \in Nodes |-> IF future[n] = "pending" THEN askedAt[n] ELSE now]
  /\ UNCHANGED <<now, domain, state, executor, first, clock, answer>>

(* Second half: the graph is queried, and may have changed meanwhile. *)
FinishSnapshot ==
  /\ view # None
  /\ view' = None
  /\ UNCHANGED <<now, domain, state, executor, first, clock, tracker, askedAt>>

(* The topics the finished snapshot reports. *)
TopicView(t) ==
  [ typed         |-> t \in publishing,
    publishers    |-> IF t \in publishing THEN 1 ELSE 0,
    subscribers   |-> 1,
    qosCompatible |-> TRUE,
    firstMessage  |-> view.first[t] # None ]

NodeView(n) == IF view.nodes[n] = None THEN None ELSE view.nodes[n].state

(* Mutation: a start while recording goes on recording. *)
StartClockGoesOn ==
  /\ Running /\ view = None
  /\ samples' = IF record THEN samples ELSE << >>
  /\ overflow' = (record /\ overflow)
  /\ record' = TRUE
  /\ returned' = None /\ heard' = (IF record THEN heard ELSE << >>) /\ windowStart' = now
  /\ UNCHANGED <<now, domain, state, executor, first, stamp, tracker, snap>>

StartClockObservation ==
  /\ Running /\ view = None
  /\ samples' = << >>
  /\ overflow' = FALSE
  /\ record' = TRUE
  /\ returned' = None /\ heard' = << >> /\ windowStart' = now
  /\ UNCHANGED <<now, domain, state, executor, first, stamp, tracker, snap>>

(* stop_clock_observation returns the samples, or raises on overflow. *)
StopClockObservation ==
  /\ Running /\ view = None
  /\ record' = FALSE
  /\ returned' = [complete |-> ~overflow, samples |-> samples]
  /\ UNCHANGED <<now, domain, state, executor, first,
                 stamp, samples, overflow, heard, windowStart, tracker, snap>>

(* close: the executor is asked to stop.  If it has not, or its thread has *)
(* not, within the timeout (a callback is under way, or the host is slow), *)
(* the observer stays "closing"; the caller may call close again.          *)
CloseTimesOut ==
  /\ state # "closed" /\ view = None
  /\ state' = "closing"
  /\ executor' = IF executor = "spinning" THEN "stopping" ELSE executor
  /\ UNCHANGED <<now, domain, first, clock, tracker, snap>>

(* Mutation: an observer that is closing counts as closed. *)
CloseOnce ==
  /\ state = "open" /\ view = None
  /\ stamp = None
  /\ executor' = IF executor = "crashed" THEN executor ELSE "stopped"
  /\ state' = "closed"
  /\ UNCHANGED <<now, domain, first, clock, tracker, snap>>

(* Mutation: the spin thread is not joined. *)
CloseWithoutJoin ==
  /\ state # "closed" /\ view = None
  /\ executor' = IF executor = "spinning" THEN "stopping" ELSE executor
  /\ state' = "closed"
  /\ UNCHANGED <<now, domain, first, clock, tracker, snap>>

CloseSucceeds ==
  /\ state # "closed" /\ view = None
  /\ stamp = None
  /\ executor' = IF executor = "crashed" THEN executor ELSE "stopped"
  /\ state' = "closed"
  /\ UNCHANGED <<now, domain, first, clock, tracker, snap>>

SpinThread ==
  \/ \E n \in Nodes : AnswerArrives(n) \/ CallFails(n)
  \/ \E t \in Topics : MessageArrives(t)
  \/ \E source \in SourceTimes : ClockArrives(source)
  \/ ClockRecorded
  \/ SpinCrashes
  \/ SpinEnds

Caller ==
  \/ BeginSnapshot
  \/ FinishSnapshot
  \/ StartClockObservation
  \/ StopClockObservation
  \/ CloseTimesOut
  \/ CloseSucceeds

Next ==
  \/ Tick
  \/ DomainChanges
  \/ \E n \in Nodes : NodeReplies(n)
  \/ SpinThread
  \/ Caller

Spec == Init /\ [][Next]_vars

(* A callback that has started ends, and a caller that got an error from   *)
(* close calls it again, until it does not time out.                       *)
Retrying == WF_vars(ClockRecorded) /\ WF_vars(state = "closing" /\ CloseSucceeds)
-----------------------------------------------------------------------------
(* Shapes of the observer's state. *)
Sample == [at : 0 .. MaxTime, source : SourceTimes]
Answer == [state : States, at : 0 .. MaxTime]

TypeOK ==
  /\ now \in 0 .. MaxTime
  /\ publishing \subseteq Topics /\ serving \subseteq Nodes
  /\ actual \in [Nodes -> States]
  /\ reply \in [Nodes -> Answer \cup {None}]
  /\ state \in {"open", "closing", "closed"}
  /\ executor \in {"spinning", "stopping", "stopped", "crashed"}
  /\ stamp \in Sample \cup {None}
  /\ first \in [Topics \cup {"/clock"} -> 0 .. MaxTime \cup {None}]
  /\ record \in BOOLEAN /\ overflow \in BOOLEAN
  /\ samples \in Seq(Sample) /\ Len(samples) <= MaxSamples
  /\ heard \in Seq(Sample) /\ Len(heard) <= MaxHeard
  /\ windowStart \in 0 .. MaxTime
  /\ future \in [Nodes -> {"none", "pending", "done", "error"}]
  /\ answer \in [Nodes -> Answer \cup {None}]
  /\ observation \in [Nodes -> Answer \cup {None}]

Sources(ss) == {ss[i].source : i \in DOMAIN ss}

(* Nothing heard while recording is lost without an error: unless stop     *)
(* raises, every source time delivered in the window is among the samples. *)
LossIsReported ==
  [][returned' \notin {None, returned} /\ returned'.complete =>
       Sources(returned'.samples) = Sources(heard)]_vars

(* The samples of a window are in order of observation and never repeat a  *)
(* source time twice in a row, also across the callback that was between   *)
(* its time stamp and the lock when the window opened.                     *)
SamplesInOrder ==
  \A i \in 1 .. Len(samples) - 1 :
    /\ samples[i].at <= samples[i + 1].at
    /\ samples[i].source # samples[i + 1].source

(* Only that one callback can leave a sample stamped before the window, so *)
(* filtering by time (run_verification) removes at most the first sample.  *)
AtMostOneEarlySample ==
  record => \A i \in 2 .. Len(samples) : samples[i].at >= windowStart

(* An answer that a snapshot takes over is never older than the snapshot   *)
(* that could make its call: it is one polling round old at most if the    *)
(* node answered within the round, however long its reply took otherwise.  *)
(* (Attach shows what happens to the nodes that never answer.)             *)
FreshWhenAnswered ==
  [][\A n \in Nodes :
       view = None /\ view' # None /\ future[n] = "done" =>
         observation'[n].at >= askedAt[n]]_vars

(* A closed observer is quiet: its spin thread is gone, no callback is     *)
(* under way, and nothing it holds changes any more.                       *)
QuietAfterClose ==
  [][state = "closed" =>
       /\ state' = "closed"
       /\ executor \in {"stopped", "crashed"} /\ stamp' = None
       /\ UNCHANGED <<first, samples, overflow, record, tracker>>]_vars

(* A failed close is terminal but can be retried: an observer that is      *)
(* closing never serves again and, if close is called again, ends closed.  *)
CloseCompletes == state = "closing" ~> state = "closed"
=============================================================================
