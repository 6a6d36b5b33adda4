------------------------------ MODULE Causality ------------------------------
(***************************************************************************)
(* evaluate_causal_chain: does the trace prove that a message went through *)
(* a chain of channels, each hop caused by the one before?  The domains    *)
(* that write the trace are here too: they produce, consume and work on    *)
(* messages for a cause ("cause", which the evaluation never sees), under  *)
(* clocks that differ by an offset, and record that cause as a parent, as  *)
(* a link, or not at all; what they record they do not invent.  Every      *)
(* state is a trace that may be evaluated.                                 *)
(***************************************************************************)
EXTENDS Integers, Sequences, FiniteSets

CONSTANTS
  Domains, Channels,
  Chain,                 (* the expected channels, in order                *)
  Source, Destination,   (* the domains at the ends of a channel           *)
  Relationship,          (* "parent" or "link", by channel contract        *)
  Offset,                (* how far the clock of a domain is ahead         *)
  MessageIds, NoId,      (* NoId: the attribute is absent                  *)
  MaxTime, MaxSpans,     (* bounds: instants and spans                     *)
  MaxOdd                 (* bound: spans out of the ordinary               *)

ASSUME CausalityAssumption ==
  /\ Chain \in Seq(Channels) /\ Chain # << >>
  /\ Source \in [Channels -> Domains] /\ Destination \in [Channels -> Domains]
  /\ Relationship \in [Channels -> {"parent", "link"}]
  /\ Offset \in [Domains -> Int]
  /\ NoId \notin MessageIds
  /\ {MaxTime, MaxSpans, MaxOdd} \subseteq Nat

VARIABLES
  now,     (* the instant                                                  *)
  spans    (* the spans of all domains; their position is their identity   *)

vars == <<now, spans>>

NoSpan == 0
Ids == MessageIds \cup {NoId}
Keys == 1 .. Len(spans)

(* Span names: the ends of the channels, and work of a domain's own.       *)
Producer(c) == <<"producer", c>>
Consumer(c) == <<"consumer", c>>
Work == <<"work">>
Names == {Producer(c) : c \in Channels} \cup {Consumer(c) : c \in Channels} \cup {Work}

Spans ==
  [ domain : Domains, name : Names, id : Ids, start : Int,
    parent : Nat, links : SUBSET [to : Nat, id : Ids], cause : Nat ]

Init == now = 0 /\ spans = << >>

(* Instants before the first span and after the last add no other trace.   *)
Tick ==
  /\ now < MaxTime /\ Len(spans) \in 1 .. MaxSpans - 1
  /\ now' = now + 1
  /\ UNCHANGED spans

(* A span of domain d, with a cause that is recorded in one of three ways. *)
Emit(d, name, id, cause) ==
  /\ Len(spans) < MaxSpans
  /\ \E as \in IF cause = NoSpan THEN {"nothing"} ELSE {"nothing", "parent", "link"},
        linkId \in Ids :
       /\ as # "link" => linkId = NoId
       /\ spans' = Append(spans,
            [ domain |-> d, name |-> name, id |-> id, start |-> now + Offset[d],
              parent |-> IF as = "parent" THEN cause ELSE NoSpan,
              links  |-> IF as = "link" THEN {[to |-> cause, id |-> linkId]} ELSE {},
              cause  |-> cause ])
  /\ UNCHANGED now

(* A domain produces or works because of something it did before, or of    *)
(* its own accord.                                                         *)
Produce(c) ==
  \E id \in Ids, cause \in {k \in Keys : spans[k].domain = Source[c]} \cup {NoSpan} :
    Emit(Source[c], Producer(c), id, cause)

WorkOn(d) ==
  \E cause \in {k \in Keys : spans[k].domain = d} : Emit(d, Work, NoId, cause)

(* It consumes what was produced on the channel.                           *)
Consume(c) ==
  \E p \in {k \in Keys : spans[k].name = Producer(c)} :
    \E id \in {spans[p].id, NoId} : Emit(Destination[c], Consumer(c), id, p)

(* An ordinary span is of a channel and identified; its cause is recorded  *)
(* in the way of the channel, and elsewhere as the parent.                 *)
Ordinary(s) ==
  /\ s.id # NoId
  /\ \/ s.cause = NoSpan
     \/ /\ \E c \in Channels : s.name = Consumer(c) /\ Relationship[c] = "link"
        /\ s.links = {[to |-> s.cause, id |-> s.id]}
     \/ /\ \A c \in Channels : s.name = Consumer(c) => Relationship[c] = "parent"
        /\ s.parent = s.cause

WithinBounds == Cardinality({k \in Keys' : ~Ordinary(spans'[k])}) <= MaxOdd

Next ==
  \/ Tick
  \/ /\ \/ \E c \in Channels : Produce(c) \/ Consume(c)
        \/ \E d \in Domains : WorkOn(d)
     /\ WithinBounds

Spec == Init /\ [][Next]_vars
-----------------------------------------------------------------------------
(* One channel.                                                            *)

Ends(d, name) == {k \in Keys : spans[k].domain = d /\ spans[k].name = name}
Producers(c) == Ends(Source[c], Producer(c))
Consumers(c) == Ends(Destination[c], Consumer(c))

MessagePairs(c) ==
  {pair \in Producers(c) \X Consumers(c) :
     spans[pair[1]].id # NoId /\ spans[pair[1]].id = spans[pair[2]].id}

(* Mutation: a common message identifier is relationship enough.           *)
MatchedByMessage(c, p, q) == <<p, q>> \in MessagePairs(c)

RelationshipMatches(c, p, q) ==
  \/ Relationship[c] = "parent" /\ spans[q].parent = p
  \/ /\ Relationship[c] = "link"
     /\ \E link \in spans[q].links : link.to = p /\ link.id \in {NoId, spans[p].id}

RelatedPairs(c) ==
  {pair \in MessagePairs(c) : RelationshipMatches(c, pair[1], pair[2])}
ValidPairs(c) ==
  {pair \in RelatedPairs(c) : spans[pair[2]].start >= spans[pair[1]].start}

Defect(c) ==
  IF Producers(c) = {} \/ Consumers(c) = {} THEN "missing_span"
  ELSE IF MessagePairs(c) = {} THEN "message_id_mismatch"
  ELSE IF RelatedPairs(c) = {} THEN "relationship_mismatch"
  ELSE IF ValidPairs(c) = {} THEN "temporal_order_mismatch"
  ELSE "none"

(* The order of consumer start, then producer start.                       *)
NotAfter(pair, other) ==
  \/ spans[pair[2]].start < spans[other[2]].start
  \/ /\ spans[pair[2]].start = spans[other[2]].start
     /\ spans[pair[1]].start <= spans[other[1]].start

(* Mutation: the latest pair.                                              *)
LatestPairs(c) ==
  {pair \in ValidPairs(c) : \A other \in ValidPairs(c) : NotAfter(other, pair)}

(* The pairs the code may take.  What is left of ties it breaks by span    *)
(* identifiers, which are random: every one of them may be the hop.        *)
EarliestPairs(c) ==
  {pair \in ValidPairs(c) : \A other \in ValidPairs(c) : NotAfter(pair, other)}

-----------------------------------------------------------------------------
(* The chain.                                                              *)

Edge(from, to) ==
  /\ from = spans[to].parent \/ \E link \in spans[to].links : link.to = from
  /\ spans[to].start >= spans[from].start

(* to is in every set that contains from and is closed under the edges.    *)
Reachable(from, to) ==
  \A S \in SUBSET Keys :
    from \in S /\ (\A a \in S, b \in Keys : Edge(a, b) => b \in S) => to \in S

(* One choice of a hop for every channel of the chain.                     *)
Hops ==
  {h \in [DOMAIN Chain -> Keys \X Keys] :
     \A i \in DOMAIN Chain : h[i] \in EarliestPairs(Chain[i])}

(* Between hop i and the next.                                             *)
Break(h, i) ==
  IF spans[h[i + 1][1]].start < spans[h[i][2]].start THEN "temporal_order_mismatch"
  ELSE IF \/ spans[h[i][2]].domain # spans[h[i + 1][1]].domain
          \/ ~Reachable(h[i][2], h[i + 1][1])
       THEN "relationship_mismatch"
  ELSE "none"

Gaps == 1 .. Len(Chain) - 1
Connected(h) == \A i \in Gaps : Break(h, i) = "none"

Defects == {Defect(Chain[i]) : i \in DOMAIN Chain} \ {"none"}

(* The statuses the evaluation may give this trace.                        *)
ChainStatuses ==
  IF Defects = {} THEN {IF Connected(h) THEN "passed" ELSE "failed" : h \in Hops}
  ELSE IF Defects # {"missing_span"} THEN {"failed"}
  ELSE {"incomplete"}
-----------------------------------------------------------------------------
(* A span is caused by an earlier one and records no other; causes stay in *)
(* the domain or cross a channel from its producer to its consumer.        *)
TypeOK ==
  /\ now \in 0 .. MaxTime
  /\ spans \in Seq(Spans) /\ Len(spans) <= MaxSpans
  /\ \A k \in Keys :
       /\ spans[k].cause < k
       /\ spans[k].parent \in {NoSpan, spans[k].cause}
       /\ \A link \in spans[k].links : link.to = spans[k].cause /\ link.to # NoSpan
       /\ spans[k].start <= now + Offset[spans[k].domain]

(* What really led to what.                                                *)
LedTo(from, to) ==
  \A S \in SUBSET Keys :
    from \in S /\ (\A a \in S, b \in Keys : spans[b].cause = a => b \in S) => to \in S

(* A passed chain happened: every hop of it is one message that really     *)
(* crossed the channel, and its receipt really led to the next hop,        *)
(* although hops are found by message identifiers and picked per channel   *)
(* from any number of messages, reused identifiers and skewed clocks.      *)
PassedChainHappened ==
  Defects = {} =>
    \A h \in Hops : Connected(h) =>
      /\ \A i \in DOMAIN Chain : spans[h[i][2]].cause = h[i][1]
      /\ \A i \in Gaps : LedTo(h[i][2], h[i + 1][1])

(* No two spans of a domain start at the same instant.                     *)
ToldApart ==
  \A j, k \in Keys :
    spans[j].domain = spans[k].domain /\ spans[j].start = spans[k].start => j = k

(* A chain that passed stays passed, whatever is traced afterwards: later  *)
(* messages, good or broken, do not take the verdict back as long as       *)
(* timestamps tell the spans of a domain apart.                            *)
PassIsKept ==
  [][ChainStatuses = {"passed"} /\ ToldApart' => ChainStatuses' = {"passed"}]_vars
=============================================================================
