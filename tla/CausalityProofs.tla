--------------------------- MODULE CausalityProofs ---------------------------
(* Proofs about Causality, for any domains, channels, chain and trace.      *)
EXTENDS Causality, TLAPS

-----------------------------------------------------------------------------
(* Types.                                                                  *)

(* What TypeOK says of one span.                                           *)
WellFormed(k) ==
  /\ spans[k].cause < k
  /\ spans[k].parent \in {NoSpan, spans[k].cause}
  /\ \A link \in spans[k].links : link.to = spans[k].cause /\ link.to # NoSpan
  /\ spans[k].start <= now + Offset[spans[k].domain]

LEMMA EmitTyped ==
  ASSUME TypeOK, NEW d \in Domains, NEW name \in Names, NEW id \in Ids,
         NEW cause \in Keys \cup {NoSpan}, Emit(d, name, id, cause)
  PROVE  TypeOK'
<1>1. now \in Nat /\ Offset[d] \in Int /\ NoSpan \in Nat /\ cause \in Nat
  BY CausalityAssumption DEF TypeOK, Keys, NoSpan
<1>2. PICK as \in {"nothing", "parent", "link"}, linkId \in Ids :
        /\ cause = NoSpan => as = "nothing"
        /\ spans' = Append(spans,
             [ domain |-> d, name |-> name, id |-> id, start |-> now + Offset[d],
               parent |-> IF as = "parent" THEN cause ELSE NoSpan,
               links  |-> IF as = "link" THEN {[to |-> cause, id |-> linkId]} ELSE {},
               cause  |-> cause ])
  BY DEF Emit
<1> DEFINE parent == IF as = "parent" THEN cause ELSE NoSpan
           links  == IF as = "link" THEN {[to |-> cause, id |-> linkId]} ELSE {}
           s == [ domain |-> d, name |-> name, id |-> id, start |-> now + Offset[d],
                  parent |-> parent, links |-> links, cause |-> cause ]
<1>0. /\ parent \in Nat /\ parent \in {NoSpan, cause}
      /\ links \in SUBSET [to : Nat, id : Ids]
      /\ \A link \in links : link.to = cause /\ link.to # NoSpan
  <2>1. CASE as = "link"
    <3>1. parent = NoSpan /\ links = {[to |-> cause, id |-> linkId]} /\ cause # NoSpan
      BY <1>2, <2>1
    <3>2. [to |-> cause, id |-> linkId] \in [to : Nat, id : Ids]
      BY <1>1
    <3> HIDE DEF parent, links
    <3> QED BY <1>1, <3>1, <3>2
  <2>2. CASE as # "link"
    <3>1. links = {} /\ parent \in {NoSpan, cause}
      BY <2>2
    <3> HIDE DEF parent, links
    <3> QED BY <1>1, <3>1
  <2> QED BY <2>1, <2>2
<1>3. s \in Spans
  <2> HIDE DEF parent, links
  <2>1. now + Offset[d] \in Int
    BY <1>1
  <2> QED BY <1>0, <1>1, <2>1 DEF Spans
<1>4. /\ spans \in Seq(Spans) /\ Len(spans) \in Nat /\ Len(spans) < MaxSpans
      /\ spans' = Append(spans, s) /\ now' = now
  BY <1>2 DEF TypeOK, Emit
<1> HIDE DEF s, parent, links
<1>5. /\ spans' \in Seq(Spans) /\ Len(spans') = Len(spans) + 1
      /\ \A k \in Keys : spans'[k] = spans[k]
      /\ spans'[Len(spans) + 1] = s
  BY <1>3, <1>4 DEF Keys
<1>6. ASSUME NEW k \in Keys' PROVE WellFormed(k)'
  <2>1. CASE k \in Keys
    <3>1. WellFormed(k)
      BY <2>1 DEF TypeOK, WellFormed
    <3> QED BY <1>4, <1>5, <2>1, <3>1 DEF WellFormed
  <2>2. CASE k = Len(spans) + 1
    <3>1. s.cause = cause /\ s.domain = d /\ s.start = now + Offset[d]
      BY DEF s
    <3>2. s.parent = parent /\ s.links = links
      BY DEF s
    <3>3. /\ s.parent \in {NoSpan, cause}
          /\ \A link \in s.links : link.to = cause /\ link.to # NoSpan
      BY <1>0, <3>2
    <3>4. cause < k
      BY <1>1, <1>4, <2>2 DEF Keys, NoSpan
    <3>5. now + Offset[d] <= now + Offset[d]
      BY <1>1
    <3> QED BY <1>4, <1>5, <2>2, <3>1, <3>3, <3>4, <3>5 DEF WellFormed
  <2> QED BY <1>4, <1>5, <2>1, <2>2 DEF Keys
<1>7. Len(spans') <= MaxSpans
  BY <1>4, <1>5, CausalityAssumption
<1> QED BY <1>4, <1>5, <1>6, <1>7 DEF TypeOK, WellFormed

LEMMA StepTyped == TypeOK /\ [Next]_vars => TypeOK'
<1> SUFFICES ASSUME TypeOK, [Next]_vars PROVE TypeOK'
  OBVIOUS
<1> USE CausalityAssumption
<1>1. ASSUME Tick PROVE TypeOK'
  <2>1. now' = now + 1 /\ now' \in 0 .. MaxTime /\ spans' = spans
    BY <1>1 DEF Tick, TypeOK
  <2>2. \A k \in Keys : spans[k] \in Spans
    BY DEF TypeOK, Keys
  <2>3. ASSUME NEW k \in Keys PROVE spans[k].start <= now' + Offset[spans[k].domain]
    <3>1. spans[k].start \in Int /\ Offset[spans[k].domain] \in Int /\ now \in Int
      BY <2>2 DEF Spans, TypeOK
    <3>2. spans[k].start <= now + Offset[spans[k].domain]
      BY DEF TypeOK
    <3>3. \A m, n, o, p \in Int : m <= n + o /\ p = n + 1 => m <= p + o
      OBVIOUS
    <3>4. now' \in Int
      BY <2>1
    <3> QED BY <2>1, <3>1, <3>2, <3>3, <3>4
  <2> QED BY <2>1, <2>3 DEF TypeOK, Keys
<1>2. ASSUME NEW c \in Channels, Produce(c) PROVE TypeOK'
  <2>1. Source[c] \in Domains /\ Producer(c) \in Names
    BY DEF Names
  <2> QED BY <1>2, <2>1, EmitTyped DEF Produce
<1>3. ASSUME NEW c \in Channels, Consume(c) PROVE TypeOK'
  <2>1. Destination[c] \in Domains /\ Consumer(c) \in Names
    BY DEF Names
  <2>2. \A k \in Keys : spans[k] \in Spans
    BY DEF TypeOK, Keys
  <2>3. NoId \in Ids /\ \A k \in Keys : spans[k].id \in Ids
    BY <2>2 DEF Spans, Ids
  <2> QED BY <1>3, <2>1, <2>3, EmitTyped DEF Consume
<1>4. ASSUME NEW d \in Domains, WorkOn(d) PROVE TypeOK'
  <2>1. Work \in Names /\ NoId \in Ids
    BY DEF Names, Ids
  <2> QED BY <1>4, <2>1, EmitTyped DEF WorkOn
<1>5. ASSUME UNCHANGED vars PROVE TypeOK'
  BY <1>5 DEF vars, TypeOK, Keys
<1> QED BY <1>1, <1>2, <1>3, <1>4, <1>5 DEF Next

(* However the domains work, a trace records only causes that were: this   *)
(* is what everything below rests on.                                      *)
THEOREM Typing == Spec => []TypeOK
<1>1. Init => TypeOK
  BY CausalityAssumption DEF Init, TypeOK, Keys
<1> QED BY <1>1, StepTyped, PTL DEF Spec

-----------------------------------------------------------------------------
(* What evaluate_causal_chain finds is so.                                 *)

(* An edge of the graph, and so a relationship, records a cause.           *)
LEMMA RecordedIsCause ==
  ASSUME TypeOK, NEW a \in Keys, NEW b \in Keys,
         \/ spans[b].parent = a
         \/ \E link \in spans[b].links : link.to = a
  PROVE  spans[b].cause = a
<1>1. a # NoSpan
  BY DEF Keys, NoSpan
<1> QED BY <1>1 DEF TypeOK

(* What is reachable in the graph was led to.                              *)
LEMMA ReachableIsLedTo ==
  ASSUME TypeOK, NEW from \in Keys, NEW to \in Keys, Reachable(from, to)
  PROVE  LedTo(from, to)
<1> SUFFICES ASSUME NEW S \in SUBSET Keys, from \in S,
                    \A a \in S, b \in Keys : spans[b].cause = a => b \in S
             PROVE  to \in S
  BY DEF LedTo
<1>1. ASSUME NEW a \in S, NEW b \in Keys, Edge(a, b) PROVE b \in S
  <2>1. spans[b].cause = a
    BY <1>1, RecordedIsCause DEF Edge
  <2> QED BY <2>1
<1> QED BY <1>1 DEF Reachable

(* A hop is a message that crossed the channel.                            *)
LEMMA HopCrossed ==
  ASSUME TypeOK, NEW c, NEW pair \in EarliestPairs(c)
  PROVE  /\ pair[1] \in Keys /\ pair[2] \in Keys
         /\ spans[pair[2]].cause = pair[1]
<1>1. pair \in MessagePairs(c)
  BY DEF EarliestPairs, ValidPairs, RelatedPairs
<1>2. PICK p \in Keys, q \in Keys : pair = <<p, q>>
  BY <1>1 DEF MessagePairs, Producers, Consumers, Ends
<1>3. RelationshipMatches(c, p, q)
  BY <1>2 DEF EarliestPairs, ValidPairs, RelatedPairs
<1>4. spans[q].cause = p
  BY <1>3, RecordedIsCause DEF RelationshipMatches
<1> QED BY <1>2, <1>4

(* A chain that passes happened: each hop is a message that crossed, and   *)
(* its receipt led to the next hop, for any trace whatsoever.              *)
LEMMA ConnectedHappened == TypeOK => PassedChainHappened
<1> SUFFICES ASSUME TypeOK, NEW h \in Hops, Connected(h)
             PROVE  /\ \A i \in DOMAIN Chain : spans[h[i][2]].cause = h[i][1]
                    /\ \A i \in Gaps : LedTo(h[i][2], h[i + 1][1])
  BY DEF PassedChainHappened
<1>1. \A i \in DOMAIN Chain : h[i] \in EarliestPairs(Chain[i])
  BY DEF Hops
<1>2. ASSUME NEW i \in DOMAIN Chain
      PROVE  /\ h[i][1] \in Keys /\ h[i][2] \in Keys
             /\ spans[h[i][2]].cause = h[i][1]
  BY <1>1, HopCrossed
<1>3. ASSUME NEW i \in Gaps PROVE LedTo(h[i][2], h[i + 1][1])
  <2>1. i \in DOMAIN Chain /\ i + 1 \in DOMAIN Chain
    BY CausalityAssumption DEF Gaps
  <2>2. Break(h, i) = "none"
    BY DEF Connected
  <2>3. Reachable(h[i][2], h[i + 1][1])
    BY <2>2 DEF Break
  <2> QED BY <1>2, <2>1, <2>3, ReachableIsLedTo
<1> QED BY <1>2, <1>3

(* So it is for every behaviour of the domains.                            *)
THEOREM PassedHappened == Spec => []PassedChainHappened
BY Typing, ConnectedHappened, PTL

-----------------------------------------------------------------------------
(* What a step adds to the trace.                                          *)

(* One span, the last of its domain so far.                                *)
Grown ==
  LET new == Len(spans) + 1 IN
  /\ Keys' = Keys \cup {new} /\ new \notin Keys
  /\ \A k \in Keys :
       /\ spans'[k] = spans[k]
       /\ spans[k].domain = spans'[new].domain => spans[k].start < spans'[new].start

LEMMA EmitGrows ==
  ASSUME TypeOK, ToldApart', NEW d \in Domains, NEW name, NEW id, NEW cause,
         Emit(d, name, id, cause)
  PROVE  Grown
<1> DEFINE new == Len(spans) + 1
<1>1. PICK s : spans' = Append(spans, s) /\ s.domain = d /\ s.start = now + Offset[d]
  <2>1. PICK as, linkId :
          spans' = Append(spans,
             [ domain |-> d, name |-> name, id |-> id, start |-> now + Offset[d],
               parent |-> IF as = "parent" THEN cause ELSE NoSpan,
               links  |-> IF as = "link" THEN {[to |-> cause, id |-> linkId]} ELSE {},
               cause  |-> cause ])
    BY DEF Emit
  <2> DEFINE s == [ domain |-> d, name |-> name, id |-> id, start |-> now + Offset[d],
                    parent |-> IF as = "parent" THEN cause ELSE NoSpan,
                    links  |-> IF as = "link" THEN {[to |-> cause, id |-> linkId]} ELSE {},
                    cause  |-> cause ]
  <2>2. s.domain = d /\ s.start = now + Offset[d]
    OBVIOUS
  <2>3. spans' = Append(spans, s)
    BY <2>1
  <2> HIDE DEF s
  <2> QED BY <2>2, <2>3
<1>2. spans \in Seq(Spans) /\ Len(spans) \in Nat
  BY DEF TypeOK
<1>3. /\ \A k \in Keys : spans'[k] = spans[k]
      /\ spans'[new] = s /\ Keys' = Keys \cup {new} /\ new \notin Keys
  BY <1>1, <1>2 DEF Keys
<1> HIDE DEF new
<1>4. ASSUME NEW k \in Keys, spans[k].domain = d PROVE spans[k].start < s.start
  <2>1. spans[k].start \in Int /\ spans[k].start <= s.start
    <3>1. spans[k] \in Spans /\ spans[k].start <= now + Offset[d]
      BY <1>2, <1>4 DEF TypeOK, Keys
    <3> QED BY <1>1, <3>1 DEF Spans
  <2>2. s.start \in Int
    BY <1>1, CausalityAssumption DEF TypeOK
  <2>3. spans[k].start # s.start
    <3>1. /\ k \in Keys' /\ new \in Keys' /\ k # new
          /\ spans'[k].domain = spans'[new].domain
          /\ spans'[k].start = spans[k].start /\ spans'[new].start = s.start
      BY <1>1, <1>3, <1>4
    <3> QED BY <3>1 DEF ToldApart
  <2> QED BY <2>1, <2>2, <2>3
<1> QED BY <1>1, <1>3, <1>4 DEF Grown, new

LEMMA StepGrows == TypeOK /\ [Next]_vars /\ ToldApart' => spans' = spans \/ Grown
<1> SUFFICES ASSUME TypeOK, [Next]_vars, ToldApart' PROVE spans' = spans \/ Grown
  OBVIOUS
<1>1. \A c \in Channels : Source[c] \in Domains /\ Destination[c] \in Domains
  BY CausalityAssumption
<1>2. ASSUME NEW c \in Channels, Produce(c) PROVE Grown
  BY <1>1, <1>2, EmitGrows DEF Produce
<1>3. ASSUME NEW c \in Channels, Consume(c) PROVE Grown
  BY <1>1, <1>3, EmitGrows DEF Consume
<1>4. ASSUME NEW d \in Domains, WorkOn(d) PROVE Grown
  BY <1>4, EmitGrows DEF WorkOn
<1> QED BY <1>2, <1>3, <1>4 DEF Next, Tick, vars

-----------------------------------------------------------------------------
(* A pass is kept.                                                         *)

(* What makes a valid pair of two spans.                                   *)
Pairs(c, p, q) ==
  /\ spans[p].domain = Source[c] /\ spans[p].name = Producer(c)
  /\ spans[q].domain = Destination[c] /\ spans[q].name = Consumer(c)
  /\ spans[p].id # NoId /\ spans[p].id = spans[q].id
  /\ RelationshipMatches(c, p, q)
  /\ spans[q].start >= spans[p].start

LEMMA ValidPairsAre ==
  ASSUME NEW c
  PROVE  /\ \A p, q : <<p, q>> \in ValidPairs(c) <=> p \in Keys /\ q \in Keys /\ Pairs(c, p, q)
         /\ \A pair \in ValidPairs(c) : pair = <<pair[1], pair[2]>>
BY DEF ValidPairs, RelatedPairs, MessagePairs, Producers, Consumers, Ends, Pairs

LEMMA ValidPairsWillBe ==
  ASSUME NEW c
  PROVE  /\ \A p, q : <<p, q>> \in ValidPairs(c)' <=> p \in Keys' /\ q \in Keys' /\ Pairs(c, p, q)'
         /\ \A pair \in ValidPairs(c)' : pair = <<pair[1], pair[2]>>
BY DEF ValidPairs, RelatedPairs, MessagePairs, Producers, Consumers, Ends, Pairs

LEMMA DefectIsNone ==
  /\ \A c : Defect(c) = "none" <=> ValidPairs(c) # {}
  /\ \A c : Defect(c)' = "none" <=> ValidPairs(c)' # {}
BY DEF Defect, ValidPairs, RelatedPairs, MessagePairs

(* A new span makes no earlier pair: what it may be the cause of is later. *)
LEMMA EarliestKept ==
  ASSUME TypeOK, TypeOK', Grown, NEW c, ValidPairs(c) # {}
  PROVE  EarliestPairs(c)' = EarliestPairs(c) /\ ValidPairs(c)' # {}
<1>0. PICK new : new = Len(spans) + 1
  OBVIOUS
<1>1. /\ Keys' = Keys \cup {new} /\ new \notin Keys /\ Keys \subseteq Nat /\ new \in Nat
      /\ \A k \in Keys : k < new
  BY <1>0 DEF Grown, TypeOK, Keys
<1>a. (\A k \in Keys : spans[k] \in Spans) /\ \A k \in Keys' : spans'[k] \in Spans
  BY DEF TypeOK, Keys
<1>b. \A s \in Spans : s.start \in Int /\ s.cause \in Nat
  BY DEF Spans
<1>c. \A k \in Keys : /\ spans'[k] = spans[k]
                      /\ spans[k].domain = spans'[new].domain => spans[k].start < spans'[new].start
  BY <1>0 DEF Grown
<1>2. \A k \in Keys : /\ spans'[k] = spans[k] /\ spans[k].start \in Int
                      /\ spans[k].domain = spans'[new].domain => spans[k].start < spans'[new].start
  BY <1>a, <1>b, <1>c
<1>3. spans'[new].start \in Int /\ spans'[new].cause \in Nat
  BY <1>1, <1>a, <1>b
<1>4. \A p, q \in Keys : Pairs(c, p, q)' <=> Pairs(c, p, q)
  BY <1>2 DEF Pairs, RelationshipMatches
<1>5. ASSUME NEW q \in Keys PROVE ~Pairs(c, new, q)'
  <2>1. spans[q].cause < q /\ spans[q].cause \in Nat
    BY <1>a, <1>b DEF TypeOK
  <2>2. new # spans[q].cause /\ new # NoSpan
    BY <1>1, <2>1 DEF NoSpan
  <2>3. new # spans[q].parent /\ \A link \in spans[q].links : link.to # new
    BY <2>2 DEF TypeOK
  <2>4. spans'[q] = spans[q]
    BY <1>2
  <2>5. ~RelationshipMatches(c, new, q)'
    BY <2>3, <2>4 DEF RelationshipMatches
  <2> QED BY <2>5 DEF Pairs
<1>6. ~Pairs(c, new, new)'
  <2>1. /\ spans'[new].cause < new /\ spans'[new].cause \in Nat
        /\ spans'[new].parent \in {NoSpan, spans'[new].cause}
        /\ \A link \in spans'[new].links : link.to = spans'[new].cause
    <3>1. new \in Keys'
      BY <1>1
    <3> QED BY <1>3, <3>1 DEF TypeOK
  <2>2. new # spans'[new].cause /\ new # NoSpan
    BY <1>1, <2>1 DEF NoSpan
  <2>3. ~RelationshipMatches(c, new, new)'
    BY <2>1, <2>2 DEF RelationshipMatches
  <2> QED BY <2>3 DEF Pairs
<1>7. ValidPairs(c) \subseteq ValidPairs(c)'
  BY <1>1, <1>4, ValidPairsAre, ValidPairsWillBe
<1>8. ASSUME NEW pair \in ValidPairs(c)', pair \notin ValidPairs(c)
      PROVE  /\ pair[1] \in Keys /\ pair[2] = new
             /\ spans'[new].domain = Destination[c]
  <2>1. pair = <<pair[1], pair[2]>> /\ pair[1] \in Keys' /\ pair[2] \in Keys' /\ Pairs(c, pair[1], pair[2])'
    BY ValidPairsWillBe
  <2>2. ~(pair[1] \in Keys /\ pair[2] \in Keys)
    BY <1>4, <1>8, <2>1, ValidPairsAre
  <2> DEFINE p == pair[1]
             q == pair[2]
  <2>3. /\ p \in Keys \/ p = new
        /\ q \in Keys \/ q = new
        /\ Pairs(c, p, q)' /\ ~(p \in Keys /\ q \in Keys)
    BY <1>1, <2>1, <2>2
  <2> HIDE DEF p, q
  <2>4. ~(p = new /\ q \in Keys) /\ ~(p = new /\ q = new)
    BY <1>5, <1>6, <2>3
  <2>5. p \in Keys /\ q = new
    BY <2>3, <2>4
  <2> QED BY <2>3, <2>5 DEF Pairs, p, q
<1>9. \A pair \in ValidPairs(c) : /\ pair[1] \in Keys /\ pair[2] \in Keys
                                  /\ spans[pair[2]].domain = Destination[c]
  BY ValidPairsAre DEF Pairs
<1>10. \A pair, other \in ValidPairs(c) : NotAfter(pair, other)' <=> NotAfter(pair, other)
  BY <1>2, <1>9 DEF NotAfter
<1>11. ASSUME NEW pair \in ValidPairs(c), NEW other \in ValidPairs(c)', other \notin ValidPairs(c)
       PROVE  NotAfter(pair, other)' /\ ~NotAfter(other, pair)'
  <2>1. other[2] = new /\ spans'[new].domain = Destination[c]
    BY <1>8, <1>11
  <2>2. pair[2] \in Keys /\ spans[pair[2]].domain = Destination[c]
    BY <1>9
  <2>3. spans'[pair[2]].start < spans'[new].start /\ spans'[pair[2]].start \in Int
    BY <1>2, <2>1, <2>2
  <2> QED BY <1>3, <2>1, <2>3 DEF NotAfter
<1>12. \A pair : pair \in EarliestPairs(c)' <=> pair \in EarliestPairs(c)
  <2>1. ASSUME NEW pair \in EarliestPairs(c) PROVE pair \in EarliestPairs(c)'
    BY <1>7, <1>10, <1>11 DEF EarliestPairs
  <2>2. ASSUME NEW pair \in EarliestPairs(c)' PROVE pair \in EarliestPairs(c)
    <3>1. pair \in ValidPairs(c)' /\ \A other \in ValidPairs(c)' : NotAfter(pair, other)'
      BY DEF EarliestPairs
    <3>2. pair \in ValidPairs(c)
      BY <1>7, <1>11, <3>1
    <3> QED BY <1>7, <1>10, <3>1, <3>2 DEF EarliestPairs
  <2> QED BY <2>1, <2>2
<1> QED BY <1>7, <1>12

(* What was reachable stays so.                                            *)
LEMMA ReachableKept ==
  ASSUME Grown, NEW from \in Keys, NEW to \in Keys, Reachable(from, to)
  PROVE  Reachable(from, to)'
<1>1. \A a, b \in Keys : Edge(a, b)' <=> Edge(a, b)
  BY DEF Grown, Edge
<1>2. Keys \subseteq Keys'
  BY DEF Grown
<1>3. ASSUME NEW S \in SUBSET Keys', from \in S,
             \A a \in S, b \in Keys' : Edge(a, b)' => b \in S
      PROVE  to \in S
  <2> DEFINE T == S \cap Keys
  <2>1. T \in SUBSET Keys /\ from \in T
    BY <1>3
  <2>2. \A a \in T, b \in Keys : Edge(a, b) => b \in T
    BY <1>1, <1>2, <1>3
  <2>3. to \in T
    <3> HIDE DEF T
    <3> QED BY <2>1, <2>2 DEF Reachable
  <2> QED BY <2>3
<1> QED BY <1>3 DEF Reachable

LEMMA ConnectedKept ==
  ASSUME TypeOK, Grown, NEW h \in Hops, Connected(h)
  PROVE  Connected(h)'
<1>1. ASSUME NEW i \in Gaps PROVE Break(h, i)' = "none"
  <2>1. i \in DOMAIN Chain /\ i + 1 \in DOMAIN Chain
    BY CausalityAssumption DEF Gaps
  <2>2. /\ h[i] \in EarliestPairs(Chain[i])
        /\ h[i + 1] \in EarliestPairs(Chain[i + 1])
    BY <2>1 DEF Hops
  <2>3. h[i][2] \in Keys /\ h[i + 1][1] \in Keys
    BY <2>2, HopCrossed
  <2>4. Break(h, i) = "none"
    BY DEF Connected
  <2>5. Reachable(h[i][2], h[i + 1][1])'
    BY <2>3, <2>4, ReachableKept DEF Break
  <2>6. spans'[h[i][2]] = spans[h[i][2]] /\ spans'[h[i + 1][1]] = spans[h[i + 1][1]]
    BY <2>3 DEF Grown
  <2> QED BY <2>4, <2>5, <2>6 DEF Break
<1> QED BY <1>1 DEF Connected

(* The evaluation looks at the trace only.                                 *)
LEMMA SameTrace == spans' = spans => ChainStatuses' = ChainStatuses
<1> SUFFICES ASSUME spans' = spans PROVE ChainStatuses' = ChainStatuses
  OBVIOUS
<1>1. Keys' = Keys
  BY DEF Keys
<1>2. \A c : Producers(c)' = Producers(c) /\ Consumers(c)' = Consumers(c)
  BY <1>1 DEF Producers, Consumers, Ends
<1>3. \A c : MessagePairs(c)' = MessagePairs(c)
  BY <1>2 DEF MessagePairs
<1>4. \A c : RelatedPairs(c)' = RelatedPairs(c)
  BY <1>3 DEF RelatedPairs, RelationshipMatches
<1>5. \A c : ValidPairs(c)' = ValidPairs(c)
  BY <1>4 DEF ValidPairs
<1>6. \A c : Defect(c)' = Defect(c)
  BY <1>2, <1>3, <1>4, <1>5 DEF Defect
<1>7. \A c : EarliestPairs(c)' = EarliestPairs(c)
  BY <1>5 DEF EarliestPairs, NotAfter
<1>8. \A from, to : Reachable(from, to)' <=> Reachable(from, to)
  BY <1>1 DEF Reachable, Edge
<1>9. \A h, i : Break(h, i)' = Break(h, i)
  BY <1>8 DEF Break
<1>10. \A h : Connected(h)' <=> Connected(h)
  BY <1>9 DEF Connected
<1>11. Defects' = Defects
  BY <1>6 DEF Defects
<1>12. Hops' = Hops
  BY <1>1, <1>7 DEF Hops
<1> QED BY <1>10, <1>11, <1>12 DEF ChainStatuses

(* The verdict on a chain that passed is not taken back by what is traced  *)
(* afterwards, whatever that is, as long as timestamps tell spans apart.   *)
THEOREM PassedStays == Spec => PassIsKept
<1>1. ASSUME TypeOK, TypeOK', Grown, ChainStatuses = {"passed"}
      PROVE  ChainStatuses' = {"passed"}
  <2>1. Defects = {} /\ \A h \in Hops : Connected(h)
    BY <1>1 DEF ChainStatuses
  <2>2. Hops # {}
    BY <1>1, <2>1 DEF ChainStatuses
  <2>3. \A i \in DOMAIN Chain : ValidPairs(Chain[i]) # {}
    BY <2>1, DefectIsNone DEF Defects
  <2>4. \A i \in DOMAIN Chain : /\ EarliestPairs(Chain[i])' = EarliestPairs(Chain[i])
                                /\ ValidPairs(Chain[i])' # {}
    BY <1>1, <2>3, EarliestKept
  <2>5. Defects' = {}
    BY <2>4, DefectIsNone DEF Defects
  <2>6. Hops' = Hops
    <3>1. Keys \subseteq Keys'
      BY <1>1 DEF Grown
    <3>2. \A i \in DOMAIN Chain : EarliestPairs(Chain[i]) \subseteq Keys \X Keys
      BY DEF EarliestPairs, ValidPairs, RelatedPairs, MessagePairs, Producers, Consumers, Ends
    <3>3. \A h : h \in Hops' <=> h \in Hops
      BY <2>4, <3>1, <3>2 DEF Hops
    <3> QED BY <3>3
  <2>7. \A h \in Hops : Connected(h)'
    BY <1>1, <2>1, ConnectedKept
  <2>8. ChainStatuses' = {"passed"}
    BY <2>2, <2>5, <2>6, <2>7 DEF ChainStatuses
  <2> QED BY <2>8
<1>2. ASSUME TypeOK, TypeOK', [Next]_vars, ChainStatuses = {"passed"}, ToldApart'
      PROVE  ChainStatuses' = {"passed"}
  <2>1. CASE Grown
    BY <1>1, <1>2, <2>1
  <2>2. CASE spans' = spans
    BY <1>2, <2>2, SameTrace
  <2> QED BY <1>2, <2>1, <2>2, StepGrows
<1>3. TypeOK /\ TypeOK' /\ [Next]_vars =>
        [ChainStatuses = {"passed"} /\ ToldApart' => ChainStatuses' = {"passed"}]_vars
  BY <1>2
<1> QED BY <1>3, Typing, PTL DEF Spec, PassIsKept
=============================================================================
