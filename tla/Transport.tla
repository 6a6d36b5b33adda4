------------------------------ MODULE Transport ------------------------------
(***************************************************************************)
(* evaluate_transport_qualification: one invocation after another checks   *)
(* the contracts, loads the evidence index and the trace of every domain,  *)
(* reads the clock relations, writes one observation file per channel,     *)
(* evaluates the chains and writes the qualification that links all of it. *)
(* Traces and indexes are replaced meanwhile, an invocation may be refused *)
(* or die anywhere, and the next one writes to the same places.  What one  *)
(* channel or chain comes to is modelled in Delivery and Causality; here   *)
(* it is any outcome.                                                      *)
(***************************************************************************)
EXTENDS Verdict, Naturals, Sequences, FiniteSets

CONSTANTS
  DomainOrder,           (* the domains of the run, sorted                 *)
  ChannelOrder,          (* the channels, sorted                           *)
  Source, Destination,   (* the domains at the ends of a channel           *)
  Chains,                (* the causal chains                              *)
  Outcomes,              (* statuses of observations, chains and relations *)
  SpanIds,               (* identities spans may have                      *)
  None,                  (* nothing                                        *)
  MaxVersion,            (* bound: trace files written                     *)
  MaxAttempts            (* bound: invocations                             *)

SetOf(order) == {order[i] : i \in DOMAIN order}
Domains == SetOf(DomainOrder)
Channels == SetOf(ChannelOrder)

(* The contracts a run is not refused for: distinct channels that traverse *)
(* exactly the domains.                                                    *)
ASSUME TransportAssumption ==
  /\ DomainOrder \in Seq(Domains) /\ ChannelOrder \in Seq(Channels)
  /\ \A i, j \in DOMAIN ChannelOrder : ChannelOrder[i] = ChannelOrder[j] => i = j
  /\ Source \in [Channels -> Domains] /\ Destination \in [Channels -> Domains]
  /\ ChannelOrder # << >> /\ Chains # {}
  /\ Outcomes \subseteq ResultStatus
  /\ MaxVersion \in Nat /\ MaxAttempts \in Nat

(* required_clock_pairs *)
Directions == {<<Source[c], Destination[c]>> : c \in Channels}

VARIABLES
  trace,         (* the trace file of every domain                         *)
  index,         (* the trace version its evidence index lists             *)
  observations,  (* the observation file of every channel, or None         *)
  result,        (* the qualification on disk, or None                     *)
  attempt,       (* invocations so far                                     *)
  pc,            (* where the invocation is, or how the last one ended     *)
  next,          (* position in its loop over domains or channels          *)
  verified,      (* link to the trace, by position in DomainOrder          *)
  loaded,        (* the spans it evaluates, by position in DomainOrder     *)
  clock,         (* the relations it accepted: status by direction         *)
  references,    (* the observations it refers to, in ChannelOrder         *)
  torn           (* history: an invocation died between the first file and *)
                 (* the result, and none published since                   *)

files == <<trace, index>>
memory == <<next, verified, loaded, clock, references>>
vars == <<files, observations, result, attempt, pc, memory, torn>>

Traces == [version : 0 .. MaxVersion, spans : SUBSET SpanIds \ {{}}]

(* An observation is a document of its own for every attempt: uuid4.       *)
ObservationsOf(c) == [by : 1 .. MaxAttempts, channel : {c}, status : Outcomes]

Init ==
  /\ trace \in [Domains -> {t \in Traces : t.version = 0}]
  /\ index = [d \in Domains |-> 0]
  /\ observations = [c \in Channels |-> None]
  /\ result = None
  /\ attempt = 0
  /\ pc = "ended"
  /\ next = 1
  /\ verified = << >> /\ loaded = << >>
  /\ clock = << >>
  /\ references = << >>
  /\ torn = FALSE

-----------------------------------------------------------------------------
(* The collector writes another trace; the recorder publishes its index.   *)
TraceReplaced(d) ==
  /\ trace[d].version < MaxVersion
  /\ \E t \in Traces :
       t.version = trace[d].version + 1 /\ trace' = [trace EXCEPT ![d] = t]
  /\ UNCHANGED <<index, observations, result, attempt, pc, memory, torn>>

IndexPublished(d) ==
  /\ index' = [index EXCEPT ![d] = trace[d].version]
  /\ UNCHANGED <<trace, observations, result, attempt, pc, memory, torn>>

-----------------------------------------------------------------------------
Running == pc \notin {"ended", "refused", "died"}
Fresh == next' = 1 /\ verified' = << >> /\ loaded' = << >> /\ clock' = << >>

(* The contracts are in order (see TransportAssumption).                   *)
Start ==
  /\ ~Running /\ attempt < MaxAttempts
  /\ attempt' = attempt + 1
  /\ pc' = "index"
  /\ Fresh /\ references' = << >>
  /\ UNCHANGED <<files, observations, result, torn>>

(* The index is read, and the trace it lists has the digest it lists.      *)
LoadIndex ==
  /\ pc = "index"
  /\ index[DomainOrder[next]] = trace[DomainOrder[next]].version
  /\ verified' = Append(verified, index[DomainOrder[next]])
  /\ pc' = "trace"
  /\ UNCHANGED <<files, observations, result, attempt, next, loaded, clock,
                 references, torn>>

Advance(order, here, there) ==
  \/ next < Len(order) /\ next' = next + 1 /\ pc' = here
  \/ next = Len(order) /\ next' = 1 /\ pc' = there

(* Mutation: the trace is read without the digest of its link.             *)
LoadTraceUnchecked ==
  /\ pc = "trace"
  /\ loaded' = Append(loaded, trace[DomainOrder[next]])
  /\ Advance(DomainOrder, "index", "identities")
  /\ UNCHANGED <<files, observations, result, attempt, verified, clock,
                 references, torn>>

(* It is read again for its spans, if it still has the digest.             *)
LoadTrace ==
  /\ pc = "trace"
  /\ trace[DomainOrder[next]].version = verified[next]
  /\ loaded' = Append(loaded, trace[DomainOrder[next]])
  /\ Advance(DomainOrder, "index", "identities")
  /\ UNCHANGED <<files, observations, result, attempt, verified, clock,
                 references, torn>>

(* validate_trace_set *)
DistinctIdentities ==
  \A i, j \in DOMAIN loaded : i # j => loaded[i].spans \cap loaded[j].spans = {}

ValidateTraceSet ==
  /\ pc = "identities"
  /\ DistinctIdentities
  /\ pc' = "clock"
  /\ UNCHANGED <<files, observations, result, attempt, memory, torn>>

(* A relation of this run, scenario and policy, backed by the evidence, of *)
(* a direction that is required and has none yet.                          *)
AcceptRelation(direction, status) ==
  /\ pc = "clock"
  /\ direction \in Directions \ DOMAIN clock
  /\ clock' = [d \in DOMAIN clock \cup {direction} |->
                 IF d = direction THEN status ELSE clock[d]]
  /\ UNCHANGED <<files, observations, result, attempt, pc, next, verified,
                 loaded, references, torn>>

NoMoreRelations ==
  /\ pc = "clock"
  /\ pc' = "observe"
  /\ UNCHANGED <<files, observations, result, attempt, memory, torn>>

(* A document, an index, a trace or a relation is not what it has to be:   *)
(* missing, of another run, malformed, with lost or repeated spans; or one *)
(* of the guards above does not hold; or the process is killed before it   *)
(* wrote anything.                                                         *)
Refuse ==
  /\ pc \in {"index", "trace", "identities", "clock"}
  /\ pc' = "refused"
  /\ UNCHANGED <<files, observations, result, attempt, memory, torn>>

(* Mutation: an observation file that exists is left alone.                *)
ObserveOnce(status) ==
  LET c == ChannelOrder[next]
      observation == [by |-> attempt, channel |-> c, status |-> status]
  IN  /\ pc = "observe"
      /\ observations' = IF observations[c] # None THEN observations
                         ELSE [observations EXCEPT ![c] = observation]
      /\ references' = Append(references, observation)
      /\ Advance(ChannelOrder, "observe", "chains")
      /\ UNCHANGED <<files, result, attempt, verified, loaded, clock, torn>>

(* The channel is evaluated, its file written and its digest taken.        *)
Observe(status) ==
  LET c == ChannelOrder[next]
      observation == [by |-> attempt, channel |-> c, status |-> status]
  IN  /\ pc = "observe"
      /\ observations' = [observations EXCEPT ![c] = observation]
      /\ references' = Append(references, observation)
      /\ Advance(ChannelOrder, "observe", "chains")
      /\ UNCHANGED <<files, result, attempt, verified, loaded, clock, torn>>

(* Mutation: a direction without a relation is not missed.                 *)
KnownClockStatuses == {clock[d] : d \in DOMAIN clock}

ClockStatuses ==
  {clock[d] : d \in DOMAIN clock}
    \cup (IF DOMAIN clock # Directions THEN {"incomplete"} ELSE {})

ObservationStatuses == {references[i].status : i \in DOMAIN references}

(* The chains are evaluated and the result is written.                     *)
Publish(chains) ==
  /\ pc = "chains"
  /\ result' =
       [ by       |-> attempt,
         evidence |-> verified,
         spans    |-> loaded,
         clock    |-> clock,
         channels |-> references,
         chains   |-> chains,
         status   |-> WorstStatus(ObservationStatuses \cup ClockStatuses
                                    \cup {chains[c] : c \in Chains}) ]
  /\ pc' = "ended"
  /\ torn' = FALSE
  /\ UNCHANGED <<files, observations, attempt, memory>>

(* A file cannot be written, or the process is killed.                     *)
Die ==
  /\ pc \in {"observe", "chains"}
  /\ pc' = "died"
  /\ torn' = TRUE
  /\ UNCHANGED <<files, observations, result, attempt, memory>>

Next ==
  \/ \E d \in Domains : TraceReplaced(d) \/ IndexPublished(d)
  \/ Start
  \/ LoadIndex
  \/ LoadTrace
  \/ ValidateTraceSet
  \/ \E d \in Directions, s \in Outcomes : AcceptRelation(d, s)
  \/ NoMoreRelations
  \/ Refuse
  \/ \E s \in Outcomes : Observe(s)
  \/ \E chains \in [Chains -> Outcomes] : Publish(chains)
  \/ Die

Spec == Init /\ [][Next]_vars
-----------------------------------------------------------------------------
(* Types, and how far the loops of the invocation are.                     *)
TypeOK ==
  /\ trace \in [Domains -> Traces]
  /\ index \in [Domains -> 0 .. MaxVersion]
  /\ DOMAIN observations = Channels
  /\ \A c \in Channels : observations[c] \in ObservationsOf(c) \cup {None}
  /\ attempt \in 0 .. MaxAttempts
  /\ pc \in {"index", "trace", "identities", "clock", "observe", "chains",
             "ended", "refused", "died"}
  /\ next \in Nat \ {0}
  /\ verified \in Seq(0 .. MaxVersion) /\ loaded \in Seq(Traces)
  /\ DOMAIN clock \subseteq Directions /\ \A d \in DOMAIN clock : clock[d] \in Outcomes
  /\ references \in Seq(UNION {ObservationsOf(c) : c \in Channels})
  /\ Len(references) <= Len(ChannelOrder)
  /\ \A i \in 1 .. Len(references) : references[i] \in ObservationsOf(ChannelOrder[i])
  /\ torn \in BOOLEAN
  /\ pc = "index" => Len(verified) = next - 1 /\ Len(loaded) = next - 1
  /\ pc = "trace" => Len(verified) = next /\ Len(loaded) = next - 1
  /\ pc = "observe" => Len(references) = next - 1
  /\ pc \in {"chains", "ended"} /\ attempt > 0 => Len(references) = Len(ChannelOrder)

(* What the qualification links is what was evaluated: the spans of every  *)
(* domain come from the trace its verified evidence lists, though index    *)
(* and trace are read in steps while both are replaced; and no span was    *)
(* counted in two domains.                                                 *)
SpansAreEvidence ==
  result # None =>
    /\ Len(result.spans) = Len(DomainOrder) /\ Len(result.evidence) = Len(DomainOrder)
    /\ \A i \in DOMAIN DomainOrder : result.spans[i].version = result.evidence[i]
    /\ \A i, j \in DOMAIN DomainOrder :
         i # j => result.spans[i].spans \cap result.spans[j].spans = {}

(* Transport passes only with every channel and every chain passed, and a  *)
(* passed clock relation for every direction messages take.                *)
PassedMeansQualified ==
  result # None /\ result.status = "passed" =>
    /\ {o.channel : o \in SetOf(result.channels)} = Channels
    /\ \A o \in SetOf(result.channels) : o.status = "passed"
    /\ \A c \in Chains : result.chains[c] = "passed"
    /\ DOMAIN result.clock = Directions
    /\ \A d \in Directions : result.clock[d] = "passed"

(* The observations a qualification links are the ones on disk, unless an  *)
(* invocation is replacing them or died doing so: one that is refused has  *)
(* touched nothing.                                                        *)
ObservationsBackResult ==
  result # None /\ ~torn /\ pc \notin {"observe", "chains"} =>
    \A i \in DOMAIN ChannelOrder : observations[ChannelOrder[i]] = result.channels[i]
=============================================================================
