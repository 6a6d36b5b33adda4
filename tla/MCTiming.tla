------------------------------- MODULE MCTiming -------------------------------
(* Timing for TLC: a clock that does as it likes, beside topics that are   *)
(* quiet; or topics that come and go beside a clock of one message.        *)
EXTENDS Timing

VARIABLE traffic   (* whether there is anything but the clock              *)

MCInit == Init /\ traffic \in BOOLEAN /\ (~traffic => publishing = {})

MCNext ==
  /\ \/ Tick
     \/ traffic /\ DomainChanges
     \/ traffic /\ \E t \in Topics : MessageArrives(t)
     \/ (traffic => heard = << >>) /\ \E source \in SourceTimes : ClockArrives(source)
     \/ ClockRecorded \/ SpinCrashes \/ SpinEnds
     \/ Caller
  /\ UNCHANGED traffic

MCRetryingSpec == MCInit /\ [][MCNext]_<<vars, traffic>> /\ Retrying
=============================================================================
