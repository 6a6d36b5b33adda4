------------------------------- MODULE Delivery -------------------------------
(***************************************************************************)
(* evaluate_channel_delivery: what is measured of one transport channel    *)
(* from the spans its two ends leave behind.  The channel itself is here   *)
(* too (Send, Receive): it may lose, repeat and reorder messages, a     *)
(* publisher may use an identifier twice and an end may forget to record   *)
(* it.  The evaluation is a pure operator of the spans recorded so far, so *)
(* that every state is a trace somebody may evaluate; the field "of" of a  *)
(* receipt says which publication it is really of, and the evaluation      *)
(* never looks at it.                                                      *)
(***************************************************************************)
EXTENDS Naturals, FiniteSets, FiniteSetsExt

CONSTANTS
  MessageIds,      (* message identifiers, as naturals (they are ordered)  *)
  NoId,            (* a span without messaging.message.id                  *)
  Durations,       (* how long a span may last                             *)
  MaxTime,         (* bound: instants                                      *)
  MaxSent,         (* bound: publications                                  *)
  MaxReceived,     (* bound: receipts                                      *)
  (* the delivery section of the channel contract                          *)
  Window, MinMessages, MaxLossPercent, MaxDuplicates, MaxOutOfOrder, MaxAge

ASSUME DeliveryAssumption ==
  /\ MessageIds \subseteq Nat /\ NoId \notin MessageIds
  /\ Durations \subseteq Nat
  /\ {MaxTime, MaxSent, MaxReceived, Window, MinMessages, MaxLossPercent,
      MaxDuplicates, MaxOutOfOrder, MaxAge} \subseteq Nat

VARIABLES
  now,        (* the instant (both ends share the clock here)              *)
  sent,       (* producer spans: key is the identity of a span, id the     *)
              (* identifier of the message                                 *)
  received    (* consumer spans                                            *)

channel == <<now, sent, received>>

ChannelInit == now = 1 /\ sent = {} /\ received = {}

Tick == now < MaxTime /\ now' = now + 1 /\ UNCHANGED <<sent, received>>

Send(id, d) ==
  /\ Cardinality(sent) < MaxSent
  /\ LET key == Cardinality(sent) + 1
     IN  sent' = sent \cup
           {[key |-> key, id |-> id, start |-> now, end |-> now + d, of |-> key]}
  /\ UNCHANGED <<now, received>>

(* A receipt of publication p, with its identifier or with none.           *)
Receive(p, id, d) ==
  /\ Cardinality(received) < MaxReceived
  /\ id \in {p.id, NoId}
  /\ received' = received \cup
       {[key |-> Cardinality(received) + 1, id |-> id,
         start |-> now, end |-> now + d, of |-> p.key]}
  /\ UNCHANGED <<now, sent>>

ChannelNext ==
  \/ Tick
  \/ \E id \in MessageIds \cup {NoId}, d \in Durations :
       \/ Send(id, d)
       \/ \E p \in sent : Receive(p, id, d)

ChannelSpec == ChannelInit /\ [][ChannelNext]_channel
-----------------------------------------------------------------------------
(* The evaluation.                                                         *)

Observed == sent \cup received

(* The window opens with the first publication, if there is one.           *)
WindowStart ==
  Min({s.start : s \in IF sent # {} THEN sent ELSE received})

InWindow(s) == s.start >= WindowStart /\ s.end <= WindowStart + Window

Producers == {s \in sent : InWindow(s)}
Consumers == {s \in received : InWindow(s)}

WithId(S, id) == {s \in S : s.id = id}

Times(id, S) == Cardinality(WithId(S, id))

(* Mutation: sorted by identifier before time.                             *)
EarlierById(s, t) ==
  \/ s.id < t.id
  \/ s.id = t.id /\ s.start < t.start
  \/ s.start = t.start /\ s.id = t.id /\ s.key < t.key

(* The sort keys of the code: start, message identifier, span identity.    *)
Earlier(s, t) ==
  \/ s.start < t.start
  \/ s.start = t.start /\ s.id < t.id
  \/ s.start = t.start /\ s.id = t.id /\ s.key < t.key

Position(S, s) == Cardinality({t \in S : Earlier(t, s)})

(* By how many S has more spans than T, message by message: the spans of a *)
(* message that come after as many as T has of it.                         *)
Excess(S, T) ==
  Cardinality({s \in S : Position(WithId(S, s.id), s) >= Times(s.id, T)})

(* Receipts are paired with the publications of their identifier in order. *)
Matched ==
  {pair \in Producers \X Consumers :
     /\ pair[1].id = pair[2].id
     /\ Position(WithId(Producers, pair[1].id), pair[1])
          = Position(WithId(Consumers, pair[2].id), pair[2])}

(* A receipt is out of order when one before it was of a later publication *)
(* (highest_seen).                                                         *)
OutOfOrder ==
  {pair \in Matched : \E before \in Matched :
     /\ Earlier(before[2], pair[2])
     /\ Position(Producers, pair[1]) < Position(Producers, before[1])}

(* Ages of matched messages; a negative one is told apart, not measured.   *)
Negative == {pair \in Matched : pair[2].start < pair[1].end}
LargestAge ==
  Max({0} \cup {pair[2].start - pair[1].end : pair \in Matched \ Negative})

(* Mutation: reuse of an identifier is not looked at.                      *)
OwnViolationsSansReuse ==
  (IF \E s \in Observed : ~InWindow(s) THEN {"observation_window_exceeded"} ELSE {})
    \cup (IF Negative # {} THEN {"invalid_observation"} ELSE {})

OwnViolations ==
  (IF \E s \in Observed : ~InWindow(s) THEN {"observation_window_exceeded"} ELSE {})
    \cup (IF \E s, t \in Producers : s # t /\ s.id = t.id
          THEN {"ambiguous_message_id"} ELSE {})
    \cup (IF Negative # {} THEN {"invalid_observation"} ELSE {})

(* derive_channel_violations of robotics_runtime_contracts: the measures   *)
(* against the contract.                                                   *)
DerivedViolations(lost, duplicates, disorder, age) ==
  (IF Cardinality(Producers) < MinMessages THEN {"insufficient_messages"} ELSE {})
    \cup (IF 100 * lost > MaxLossPercent * Cardinality(Producers)
          THEN {"loss_ratio_exceeded"} ELSE {})
    \cup (IF duplicates > MaxDuplicates THEN {"duplicate_count_exceeded"} ELSE {})
    \cup (IF disorder > MaxOutOfOrder THEN {"out_of_order_count_exceeded"} ELSE {})
    \cup (IF age > MaxAge THEN {"message_age_exceeded"} ELSE {})

(* channel_observation_status of robotics_runtime_contracts, as the tests  *)
(* of the repository show it.                                              *)
ObservationStatus(codes) ==
  CASE codes \cap {"ambiguous_message_id", "invalid_observation",
                   "observation_window_exceeded"} # {} -> "error"
    [] codes \subseteq {"insufficient_messages"} /\ codes # {} -> "incomplete"
    [] codes = {} -> "passed"
    [] OTHER -> "failed"

Observation(lost, duplicates, disorder, codes) ==
  [ status |-> ObservationStatus(codes), codes |-> codes,
    sent |-> Cardinality(Producers), received |-> Cardinality(Consumers),
    lost |-> lost, duplicates |-> duplicates, disorder |-> disorder ]

Unidentified == \E s \in Producers \cup Consumers : s.id = NoId

ChannelDelivery ==
  IF Observed = {}
  THEN [ status |-> "incomplete", codes |-> {"insufficient_messages"}, sent |-> 0,
         received |-> 0, lost |-> 0, duplicates |-> 0, disorder |-> 0 ]
  ELSE IF Unidentified
  THEN Observation(Cardinality(Producers), Cardinality(Consumers), 0,
                   {"invalid_observation"})
  ELSE LET lost == Excess(Producers, Consumers)
           duplicates == Excess(Consumers, Producers)
           disorder == Cardinality(OutOfOrder)
       IN  Observation(lost, duplicates, disorder,
             OwnViolations \cup
               DerivedViolations(lost, duplicates, disorder, LargestAge))
-----------------------------------------------------------------------------
(* What really happened to the messages.                                   *)
Receipts(p) == {c \in received : c.of = p.key}
FirstReceipt(p) == Min({c.start : c \in Receipts(p)})
Arrived == {p \in sent : Receipts(p) # {}}

(* A passed channel did what its contract asks of it in reality, and not   *)
(* merely in the pairs the evaluation forms from message identifiers:      *)
(* enough messages were sent, no more of them lost, repeated or older than *)
(* allowed.                                                                *)
PassedMeansDelivered ==
  ChannelDelivery.status = "passed" =>
    /\ Cardinality(sent) >= MinMessages
    /\ 100 * Cardinality(sent \ Arrived) <= MaxLossPercent * Cardinality(sent)
    /\ Cardinality(received) - Cardinality(Arrived) <= MaxDuplicates
    /\ \A p \in Arrived : FirstReceipt(p) <= p.end + MaxAge

Distinct(S) == \A s, t \in S : s.start = t.start => s = t
InOrder ==
  \A p, q \in Arrived : p.start < q.start => FirstReceipt(p) <= FirstReceipt(q)

(* Where timestamps and identifiers tell the messages apart, a channel is  *)
(* blamed for reordering exactly when it did reorder first receipts.       *)
DisorderIsReal ==
  (/\ Distinct(sent) /\ Distinct(received)
   /\ Observed # {} /\ ~Unidentified
   /\ OwnViolations \subseteq {"invalid_observation"})
    => (ChannelDelivery.disorder = 0 <=> InOrder)
=============================================================================
