------------------------------ MODULE MCMetrics ------------------------------
(* Instances of the metric evaluations for TLC.  An instant receives a     *)
(* message or loses one, out of sequence; it records a value; its level is *)
(* on or off.                                                              *)
EXTENDS DataPlane, TimeAuthority, Duration

MCKeys == [counters |-> Counters, histogram |-> {3, 4, 6}, gauge |-> {"level"}]

OneOf(keys) == {[k \in keys |-> IF k = one THEN 1 ELSE 0] : one \in keys}

MCBursts ==
  [ counters  |-> {[received |-> 1, lost |-> 0, sequence_error |-> 0],
                   [received |-> 0, lost |-> 1, sequence_error |-> 1]},
    histogram |-> OneOf({3, 4, 6}),
    gauge     |-> {[level |-> 1], [level |-> 0]} ]

MCExports ==
  [ counters  |-> {Counters, Counters \ {"lost"}, {}},
    histogram |-> {{3, 4, 6}, {}},
    gauge     |-> {{"level"}, {}} ]

MCMaxRestarts == [counters |-> 2, histogram |-> 1, gauge |-> 0]

MCBounds == <<2, 5>>
MCLatencyLimit == [p50 |-> 3, p95 |-> 3, max |-> 5]
=============================================================================
