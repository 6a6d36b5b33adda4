--------------------------- MODULE TransportProofs ---------------------------
(* Proofs about Transport, for any domains, channels and chains, and any    *)
(* number of traces and invocations; and about Delivery, for any messages,  *)
(* any number of spans and any contract.                                    *)
EXTENDS Transport, Delivery, FiniteSetTheorems, TLAPS

(* What was loaded is what was verified.                                   *)
LoadedIsVerified ==
  /\ \A i \in 1 .. Len(loaded) : loaded[i].version = verified[i]
  /\ pc \in {"identities", "clock", "observe", "chains"} =>
       Len(loaded) = Len(DomainOrder) /\ Len(verified) = Len(DomainOrder)
  /\ pc \in {"clock", "observe", "chains"} => DistinctIdentities

(* The observation files written so far are the ones referred to.          *)
WrittenIsReferred ==
  pc \in {"observe", "chains"} =>
    \A i \in 1 .. Len(references) : observations[ChannelOrder[i]] = references[i]

(* Where the loops are, and that nothing is referred to before they begin.  *)
LoopPositions ==
  /\ pc \in {"index", "trace"} => next <= Len(DomainOrder)
  /\ pc \in {"identities", "clock"} => next = 1
  /\ pc = "observe" => next <= Len(ChannelOrder)
  /\ pc # "ended" => attempt > 0
  /\ pc \in {"index", "trace", "identities", "clock"} => references = << >>

IInv ==
  /\ TypeOK /\ LoopPositions /\ LoadedIsVerified /\ WrittenIsReferred
  /\ SpansAreEvidence /\ PassedMeansQualified /\ ObservationsBackResult

-----------------------------------------------------------------------------
LEMMA Orders ==
  /\ Len(DomainOrder) \in Nat /\ DOMAIN DomainOrder = 1 .. Len(DomainOrder)
  /\ Len(ChannelOrder) \in Nat /\ DOMAIN ChannelOrder = 1 .. Len(ChannelOrder)
  /\ \A i \in 1 .. Len(DomainOrder) : DomainOrder[i] \in Domains
  /\ \A i \in 1 .. Len(ChannelOrder) : ChannelOrder[i] \in Channels
  /\ \A c \in Channels : \E i \in 1 .. Len(ChannelOrder) : c = ChannelOrder[i]
<1>1. DomainOrder \in Seq(Domains) /\ ChannelOrder \in Seq(Channels)
  BY TransportAssumption
<1> QED BY <1>1 DEF Channels, Domains, SetOf

LEMMA NotEmpty == 1 <= Len(DomainOrder) /\ 1 <= Len(ChannelOrder)
<1>1. Len(ChannelOrder) # 0
  BY TransportAssumption
<1>2. 1 <= Len(ChannelOrder)
  BY <1>1, Orders
<1>3. Source[ChannelOrder[1]] \in Domains
  BY <1>2, Orders, TransportAssumption
<1>4. \E i \in 1 .. Len(DomainOrder) : TRUE
  BY <1>3, Orders DEF Domains, SetOf
<1> QED BY <1>2, <1>4, Orders

LEMMA InitIInv == Init => IInv
<1> SUFFICES ASSUME Init PROVE IInv
  OBVIOUS
<1> USE DEF Init
<1>1. /\ Len(verified) = 0 /\ Len(loaded) = 0 /\ Len(references) = 0
      /\ verified \in Seq(0 .. MaxVersion) /\ loaded \in Seq(Traces)
      /\ references \in Seq(UNION {ObservationsOf(c) : c \in Channels})
      /\ DOMAIN clock = {} /\ DOMAIN observations = Channels
  OBVIOUS
<1>2. trace \in [Domains -> Traces] /\ index \in [Domains -> 0 .. MaxVersion]
  BY TransportAssumption
<1>3. TypeOK
  <2>1. attempt \in 0 .. MaxAttempts /\ attempt = 0 /\ next \in Nat \ {0} /\ pc = "ended"
    BY TransportAssumption
  <2>3. \A c \in Channels : observations[c] = None
    OBVIOUS
  <2>4. torn \in BOOLEAN
    OBVIOUS
  <2>2. Len(references) <= Len(ChannelOrder) /\ 1 .. Len(references) = {}
    BY <1>1, Orders
  <2> HIDE DEF Init
  <2> QED BY <1>1, <1>2, <2>1, <2>2, <2>3, <2>4 DEF TypeOK
<1>4. LoadedIsVerified /\ WrittenIsReferred /\ LoopPositions
  BY <1>1 DEF LoadedIsVerified, WrittenIsReferred, LoopPositions
<1> QED
  BY <1>3, <1>4 DEF IInv, SpansAreEvidence, PassedMeansQualified, ObservationsBackResult

(* The result is left alone, and so is what is said of it.                 *)
LEMMA ResultKeeps ==
  ASSUME IInv, UNCHANGED result
  PROVE  SpansAreEvidence' /\ PassedMeansQualified'
BY DEF IInv, SpansAreEvidence, PassedMeansQualified

(* As long as nothing is written, the observations back what they did.     *)
LEMMA BackingKeeps ==
  ASSUME IInv, UNCHANGED <<observations, result, torn>>,
         pc' \in {"observe", "chains"} \/ pc \notin {"observe", "chains"}
  PROVE  ObservationsBackResult'
BY DEF IInv, ObservationsBackResult

LEMMA TypeKeeps ==
  ASSUME TypeOK, UNCHANGED <<trace, index, observations, attempt, torn>>
  PROVE  /\ trace' \in [Domains -> Traces] /\ index' \in [Domains -> 0 .. MaxVersion]
         /\ DOMAIN observations' = Channels
         /\ \A c \in Channels : observations'[c] \in ObservationsOf(c) \cup {None}
         /\ attempt' \in 0 .. MaxAttempts /\ torn' \in BOOLEAN
BY DEF TypeOK

LEMMA FilesKeep ==
  ASSUME IInv, UNCHANGED <<observations, result, attempt, pc, memory, torn>>,
         trace' \in [Domains -> Traces], index' \in [Domains -> 0 .. MaxVersion]
  PROVE  IInv'
<1> USE DEF memory
<1>1. TypeOK'
  BY DEF IInv, TypeOK
<1>2. LoadedIsVerified' /\ WrittenIsReferred' /\ LoopPositions'
  BY DEF IInv, LoadedIsVerified, WrittenIsReferred, DistinctIdentities, LoopPositions
<1>3. SpansAreEvidence' /\ PassedMeansQualified'
  BY ResultKeeps
<1>4. ObservationsBackResult'
  BY DEF IInv, ObservationsBackResult
<1> QED BY <1>1, <1>2, <1>3, <1>4 DEF IInv

LEMMA ReplacedKeeps ==
  ASSUME IInv, NEW d \in Domains, TraceReplaced(d) \/ IndexPublished(d) PROVE IInv'
<1>1. trace \in [Domains -> Traces] /\ index \in [Domains -> 0 .. MaxVersion]
  BY DEF IInv, TypeOK
<1>2. trace[d].version \in 0 .. MaxVersion
  BY <1>1 DEF Traces
<1>3. CASE TraceReplaced(d)
  BY <1>1, <1>3, FilesKeep DEF TraceReplaced
<1>4. CASE IndexPublished(d)
  BY <1>1, <1>2, <1>4, FilesKeep DEF IndexPublished
<1> QED BY <1>3, <1>4

LEMMA StartKeeps == IInv /\ Start => IInv'
<1> SUFFICES ASSUME IInv, Start PROVE IInv'
  OBVIOUS
<1> USE DEF Start, Fresh, files
<1>1. /\ Len(verified') = 0 /\ Len(loaded') = 0 /\ Len(references') = 0
      /\ DOMAIN clock' = {}
  OBVIOUS
<1>2. attempt' \in 0 .. MaxAttempts /\ attempt' > 0
  BY TransportAssumption DEF IInv, TypeOK
<1>3. TypeOK'
  BY <1>1, <1>2, Orders DEF IInv, TypeOK
<1>4. LoadedIsVerified' /\ WrittenIsReferred' /\ LoopPositions'
  BY <1>1, <1>2, NotEmpty DEF LoadedIsVerified, WrittenIsReferred, LoopPositions
<1>5. ObservationsBackResult'
  BY BackingKeeps DEF Running
<1> QED BY <1>3, <1>4, <1>5, ResultKeeps DEF IInv

LEMMA LoadIndexKeeps == IInv /\ LoadIndex => IInv'
<1> SUFFICES ASSUME IInv, LoadIndex PROVE IInv'
  OBVIOUS
<1> USE DEF LoadIndex, files
<1> DEFINE v == index[DomainOrder[next]]
<1>1. /\ verified \in Seq(0 .. MaxVersion) /\ Len(verified) = next - 1
      /\ Len(loaded) = next - 1 /\ next \in Nat \ {0}
      /\ next <= Len(DomainOrder)
  BY DEF IInv, TypeOK, LoopPositions
<1>2. v \in 0 .. MaxVersion
  BY <1>1, Orders DEF IInv, TypeOK
<1> HIDE DEF v
<1>3. verified' = Append(verified, v)
  BY DEF v
<1>4. /\ verified' \in Seq(0 .. MaxVersion) /\ Len(verified') = next
      /\ \A i \in 1 .. next - 1 : verified'[i] = verified[i]
  BY <1>1, <1>2, <1>3
<1>5. TypeOK'
  BY <1>1, <1>4 DEF IInv, TypeOK
<1>6. LoadedIsVerified'
  BY <1>1, <1>4 DEF IInv, LoadedIsVerified
<1>7. LoopPositions' /\ WrittenIsReferred'
  BY DEF IInv, LoopPositions, WrittenIsReferred
<1>8. ObservationsBackResult'
  BY BackingKeeps
<1> QED BY <1>5, <1>6, <1>7, <1>8, ResultKeeps DEF IInv

LEMMA LoadTraceKeeps == IInv /\ LoadTrace => IInv'
<1> SUFFICES ASSUME IInv, LoadTrace PROVE IInv'
  OBVIOUS
<1> USE DEF LoadTrace, files
<1> DEFINE t == trace[DomainOrder[next]]
<1>1. /\ loaded \in Seq(Traces) /\ Len(verified) = next
      /\ Len(loaded) = next - 1 /\ next \in Nat \ {0}
      /\ next <= Len(DomainOrder)
  BY DEF IInv, TypeOK, LoopPositions
<1>2. t \in Traces /\ t.version = verified[next]
  BY <1>1, Orders DEF IInv, TypeOK
<1> HIDE DEF t
<1>3. loaded' = Append(loaded, t)
  BY DEF t
<1>4. /\ loaded' \in Seq(Traces) /\ Len(loaded') = next
      /\ \A i \in 1 .. next - 1 : loaded'[i] = loaded[i]
      /\ loaded'[next] = t
  BY <1>1, <1>2, <1>3
<1>5. \/ next < Len(DomainOrder) /\ next' = next + 1 /\ pc' = "index"
      \/ next = Len(DomainOrder) /\ next' = 1 /\ pc' = "identities"
  BY DEF Advance
<1>6. TypeOK'
  BY <1>1, <1>4, <1>5 DEF IInv, TypeOK
<1>7. LoadedIsVerified'
  BY <1>1, <1>2, <1>4, <1>5, Orders DEF IInv, LoadedIsVerified
<1>8. LoopPositions' /\ WrittenIsReferred'
  BY <1>1, <1>5, Orders DEF IInv, LoopPositions, WrittenIsReferred
<1>9. ObservationsBackResult'
  BY <1>5, BackingKeeps
<1> QED BY <1>6, <1>7, <1>8, <1>9, ResultKeeps DEF IInv

LEMMA ValidateKeeps == IInv /\ ValidateTraceSet => IInv'
<1> SUFFICES ASSUME IInv, ValidateTraceSet PROVE IInv'
  OBVIOUS
<1> USE DEF ValidateTraceSet, files, memory
<1>1. TypeOK'
  BY DEF IInv, TypeOK
<1>2. LoadedIsVerified' /\ LoopPositions' /\ WrittenIsReferred'
  BY DEF IInv, LoadedIsVerified, LoopPositions, WrittenIsReferred, DistinctIdentities
<1>3. ObservationsBackResult'
  BY BackingKeeps
<1> QED BY <1>1, <1>2, <1>3, ResultKeeps DEF IInv

LEMMA AcceptKeeps ==
  ASSUME IInv, NEW direction \in Directions, NEW status \in Outcomes,
         AcceptRelation(direction, status)
  PROVE  IInv'
<1> USE DEF AcceptRelation, files
<1>1. /\ DOMAIN clock' = DOMAIN clock \cup {direction}
      /\ clock'[direction] = status
      /\ \A d \in DOMAIN clock : clock'[d] = clock[d]
  OBVIOUS
<1>2. DOMAIN clock' \subseteq Directions /\ \A d \in DOMAIN clock' : clock'[d] \in Outcomes
  BY <1>1 DEF IInv, TypeOK
<1>3. TypeOK'
  BY <1>2 DEF IInv, TypeOK
<1>4. LoadedIsVerified' /\ LoopPositions' /\ WrittenIsReferred'
  BY DEF IInv, LoadedIsVerified, LoopPositions, WrittenIsReferred, DistinctIdentities
<1>5. ObservationsBackResult'
  BY BackingKeeps
<1> QED BY <1>3, <1>4, <1>5, ResultKeeps DEF IInv

LEMMA NoMoreKeeps == IInv /\ NoMoreRelations => IInv'
<1> SUFFICES ASSUME IInv, NoMoreRelations PROVE IInv'
  OBVIOUS
<1> USE DEF NoMoreRelations, files, memory
<1>1. Len(references) = 0 /\ next = 1
  BY DEF IInv, LoopPositions
<1>2. TypeOK'
  BY <1>1 DEF IInv, TypeOK
<1>3. LoadedIsVerified' /\ LoopPositions' /\ WrittenIsReferred'
  BY <1>1, NotEmpty DEF IInv, LoadedIsVerified, LoopPositions, WrittenIsReferred, DistinctIdentities
<1>4. ObservationsBackResult'
  BY BackingKeeps
<1> QED BY <1>2, <1>3, <1>4, ResultKeeps DEF IInv

LEMMA StopKeeps == IInv /\ (Refuse \/ Die) => IInv'
<1> SUFFICES ASSUME IInv, Refuse \/ Die PROVE IInv'
  OBVIOUS
<1> USE DEF Refuse, Die, files, memory
<1>1. TypeOK'
  BY DEF IInv, TypeOK
<1>2. LoadedIsVerified' /\ LoopPositions' /\ WrittenIsReferred'
  BY DEF IInv, LoadedIsVerified, LoopPositions, WrittenIsReferred, DistinctIdentities
<1>3. ObservationsBackResult'
  BY DEF IInv, ObservationsBackResult
<1> QED BY <1>1, <1>2, <1>3, ResultKeeps DEF IInv

LEMMA ObserveKeeps ==
  ASSUME IInv, NEW status \in Outcomes, Observe(status)
  PROVE  IInv'
<1> USE DEF Observe, files
<1> DEFINE c == ChannelOrder[next]
           o == [by |-> attempt, channel |-> c, status |-> status]
<1>1. /\ next \in Nat \ {0} /\ next <= Len(ChannelOrder)
      /\ Len(references) = next - 1
  BY DEF IInv, TypeOK, LoopPositions
<1>2. c \in Channels
  BY <1>1, Orders
<1>3. attempt \in 1 .. MaxAttempts
  BY DEF IInv, TypeOK, LoopPositions
<1>4. o \in ObservationsOf(c)
  BY <1>3 DEF ObservationsOf
<1> HIDE DEF o, c
<1>5. /\ observations' = [observations EXCEPT ![c] = o]
      /\ references' = Append(references, o)
  BY DEF o, c
<1>6. references \in Seq(UNION {ObservationsOf(d) : d \in Channels})
  BY DEF IInv, TypeOK
<1>7. /\ references' \in Seq(UNION {ObservationsOf(d) : d \in Channels})
      /\ Len(references') = next
      /\ \A i \in 1 .. next - 1 : references'[i] = references[i]
      /\ references'[next] = o
  BY <1>1, <1>2, <1>4, <1>5, <1>6
<1>8. \/ next < Len(ChannelOrder) /\ next' = next + 1 /\ pc' = "observe"
      \/ next = Len(ChannelOrder) /\ next' = 1 /\ pc' = "chains"
  BY DEF Advance
<1>9. /\ DOMAIN observations' = Channels
      /\ \A d \in Channels : observations'[d] \in ObservationsOf(d) \cup {None}
  BY <1>2, <1>4, <1>5 DEF IInv, TypeOK
<1>10. \A i \in 1 .. Len(references') : references'[i] \in ObservationsOf(ChannelOrder[i])
  <2>1. \A i \in 1 .. next - 1 : references[i] \in ObservationsOf(ChannelOrder[i])
    BY <1>1 DEF IInv, TypeOK
  <2>2. o \in ObservationsOf(ChannelOrder[next])
    BY <1>4 DEF c
  <2> QED BY <1>1, <1>7, <2>1, <2>2
<1>11. TypeOK'
  <2>1. /\ next' \in Nat \ {0} /\ Len(references') <= Len(ChannelOrder)
        /\ pc' = "observe" => Len(references') = next' - 1
        /\ pc' = "chains" => Len(references') = Len(ChannelOrder)
        /\ pc' \in {"observe", "chains"}
    <3>0. Len(ChannelOrder) \in Nat
      BY Orders
    <3> HIDE DEF Observe
    <3>1. CASE next < Len(ChannelOrder) /\ next' = next + 1 /\ pc' = "observe"
      BY <1>1, <1>7, <3>0, <3>1
    <3>2. CASE next = Len(ChannelOrder) /\ next' = 1 /\ pc' = "chains"
      BY <1>1, <1>7, <3>0, <3>2
    <3> QED BY <1>8, <3>1, <3>2
  <2>2. UNCHANGED <<trace, index, attempt, verified, loaded, clock, torn>>
    OBVIOUS
  <2> HIDE DEF Observe
  <2> QED BY <1>7, <1>9, <1>10, <2>1, <2>2 DEF IInv, TypeOK
<1>12. WrittenIsReferred'
  <2> SUFFICES ASSUME NEW i \in 1 .. next
               PROVE  observations'[ChannelOrder[i]] = references'[i]
    BY <1>7 DEF WrittenIsReferred
  <2>1. CASE i = next
    BY <1>2, <1>5, <1>7, <2>1 DEF c, IInv, TypeOK
  <2>2. CASE i # next
    <3>1. i \in 1 .. Len(references) /\ i \in DOMAIN ChannelOrder /\ next \in DOMAIN ChannelOrder
      BY <1>1, <2>2, Orders
    <3>2. ChannelOrder[i] # c /\ ChannelOrder[i] \in Channels
      BY <2>2, <3>1, Orders, TransportAssumption DEF c
    <3>3. observations[ChannelOrder[i]] = references[i]
      BY <3>1 DEF IInv, WrittenIsReferred
    <3> QED BY <1>1, <1>5, <1>7, <3>1, <3>2, <3>3 DEF IInv, TypeOK
  <2> QED BY <2>1, <2>2
<1>13. LoadedIsVerified' /\ LoopPositions'
  <2>1. LoadedIsVerified'
    BY <1>8 DEF IInv, LoadedIsVerified, DistinctIdentities
  <2>2. LoopPositions'
    <3>0. Len(ChannelOrder) \in Nat /\ attempt' = attempt /\ attempt > 0
      BY <1>3, Orders DEF IInv, LoopPositions
    <3> HIDE DEF Observe
    <3>1. pc' \in {"observe", "chains"} /\ (pc' = "observe" => next' <= Len(ChannelOrder))
      BY <1>1, <1>8, <3>0
    <3> QED BY <3>0, <3>1 DEF LoopPositions
  <2> QED BY <2>1, <2>2
<1>14. ObservationsBackResult'
  BY <1>8 DEF ObservationsBackResult
<1> QED BY <1>11, <1>12, <1>13, <1>14, ResultKeeps DEF IInv

-----------------------------------------------------------------------------
(* The worst status is "passed" only of passed ones, if there is no        *)
(* skipped one.                                                            *)
LEMMA WorstPassed ==
  ASSUME NEW S \in SUBSET ResultStatus, S # {}, WorstStatus(S) = "passed"
  PROVE  S = {"passed"}
<1>1. S \in SUBSET Status
  BY DEF ResultStatus
<1>2. S \cap {"error", "failed", "incomplete"} = {}
  BY <1>1, WorstStatusAssumption
<1> QED BY <1>2 DEF ResultStatus, Status, AssertionStatus

LEMMA PublishKeeps ==
  ASSUME IInv, NEW chains \in [Chains -> Outcomes], Publish(chains)
  PROVE  IInv'
<1> USE DEF Publish, files, memory
<1> DEFINE S == ObservationStatuses \cup ClockStatuses \cup {chains[c] : c \in Chains}
<1>1. /\ result'.evidence = verified /\ result'.spans = loaded
      /\ result'.clock = clock /\ result'.channels = references
      /\ result'.chains = chains /\ result'.status = WorstStatus(S)
      /\ pc = "chains" /\ pc' = "ended"
  OBVIOUS
<1>2. /\ Len(references) = Len(ChannelOrder) /\ references \in Seq(UNION {ObservationsOf(c) : c \in Channels})
      /\ \A i \in 1 .. Len(ChannelOrder) : references[i] \in ObservationsOf(ChannelOrder[i])
  <2>1. attempt > 0
    BY <1>1 DEF IInv, LoopPositions
  <2> QED BY <1>1, <2>1 DEF IInv, TypeOK
<1>3. TypeOK'
  BY <1>2 DEF IInv, TypeOK
<1>4. LoadedIsVerified' /\ LoopPositions' /\ WrittenIsReferred'
  BY DEF IInv, LoadedIsVerified, LoopPositions, WrittenIsReferred, DistinctIdentities
<1>5. SpansAreEvidence'
  <2>1. /\ Len(loaded) = Len(DomainOrder) /\ Len(verified) = Len(DomainOrder)
        /\ DOMAIN loaded = 1 .. Len(DomainOrder)
        /\ \A i \in 1 .. Len(DomainOrder) : loaded[i].version = verified[i]
        /\ DistinctIdentities
    BY <1>1 DEF IInv, LoadedIsVerified, TypeOK
  <2> QED BY <1>1, <2>1, Orders DEF SpansAreEvidence, DistinctIdentities
<1>6. ObservationsBackResult'
  BY <1>1, <1>2, Orders DEF IInv, WrittenIsReferred, ObservationsBackResult
<1>7. PassedMeansQualified'
  <2> SUFFICES ASSUME WorstStatus(S) = "passed"
               PROVE  /\ {o.channel : o \in SetOf(references)} = Channels
                      /\ \A o \in SetOf(references) : o.status = "passed"
                      /\ \A c \in Chains : chains[c] = "passed"
                      /\ DOMAIN clock = Directions
                      /\ \A d \in Directions : clock[d] = "passed"
    BY <1>1 DEF PassedMeansQualified
  <2>1. DOMAIN references = 1 .. Len(ChannelOrder)
    BY <1>2
  <2>2. \A i \in 1 .. Len(ChannelOrder) :
          references[i].channel = ChannelOrder[i] /\ references[i].status \in Outcomes
    BY <1>2 DEF ObservationsOf
  <2>3. ObservationStatuses \subseteq Outcomes
    BY <2>1, <2>2 DEF ObservationStatuses
  <2>4. ClockStatuses \subseteq Outcomes \cup {"incomplete"}
    BY DEF ClockStatuses, IInv, TypeOK
  <2>5. S \in SUBSET ResultStatus /\ S # {}
    <3>1. Outcomes \cup {"incomplete"} \subseteq ResultStatus
      BY TransportAssumption DEF ResultStatus, Status
    <3>2. {chains[c] : c \in Chains} \subseteq Outcomes /\ {chains[c] : c \in Chains} # {}
      BY TransportAssumption
    <3> QED BY <2>3, <2>4, <3>1, <3>2
  <2>6. S = {"passed"}
    BY <2>5, WorstPassed
  <2>7. DOMAIN clock = Directions /\ \A d \in DOMAIN clock : clock[d] = "passed"
    BY <2>6 DEF ClockStatuses
  <2>8. \A c \in Chains : chains[c] = "passed"
    BY <2>6
  <2>9. \A i \in 1 .. Len(ChannelOrder) : references[i].status = "passed"
    BY <2>1, <2>6 DEF ObservationStatuses
  <2>10. SetOf(references) = {references[i] : i \in 1 .. Len(ChannelOrder)}
    BY <2>1 DEF SetOf
  <2>11. {o.channel : o \in SetOf(references)} = Channels
    BY <2>2, <2>10, Orders
  <2> QED BY <2>7, <2>8, <2>9, <2>10, <2>11
<1> QED BY <1>3, <1>4, <1>5, <1>6, <1>7 DEF IInv

LEMMA NextKeeps == IInv /\ [Next]_vars => IInv'
<1> SUFFICES ASSUME IInv, [Next]_vars PROVE IInv'
  OBVIOUS
<1>1. CASE UNCHANGED vars
  <2>1. /\ UNCHANGED <<observations, result, attempt, pc, memory, torn>>
        /\ trace' = trace /\ index' = index
    BY <1>1 DEF vars, files
  <2> QED BY <2>1, FilesKeep DEF IInv, TypeOK
<1>2. CASE Next
  BY <1>2, ReplacedKeeps, StartKeeps, LoadIndexKeeps, LoadTraceKeeps, ValidateKeeps,
     AcceptKeeps, NoMoreKeeps, StopKeeps, ObserveKeeps, PublishKeeps DEF Next
<1> QED BY <1>1, <1>2

LEMMA Invariant == Spec => []IInv
BY InitIInv, NextKeeps, PTL DEF Spec

-----------------------------------------------------------------------------
(* The state of an invocation stays well formed, whatever is replaced.     *)
THEOREM Typing == Spec => []TypeOK
<1>1. IInv => TypeOK
  BY DEF IInv
<1> QED BY <1>1, Invariant, PTL

(* The spans a qualification was computed from are those of the evidence   *)
(* it links, and of one domain each.                                       *)
THEOREM EvidenceIsEvaluated == Spec => []SpansAreEvidence
<1>1. IInv => SpansAreEvidence
  BY DEF IInv
<1> QED BY <1>1, Invariant, PTL

(* It passes only as a whole, for every order of severity the contracts    *)
(* package may use.                                                        *)
THEOREM PassedIsQualified == Spec => []PassedMeansQualified
<1>1. IInv => PassedMeansQualified
  BY DEF IInv
<1> QED BY <1>1, Invariant, PTL

(* Its observations are the ones on disk, unless an invocation is          *)
(* replacing them or died doing so.                                        *)
THEOREM ResultIsBacked == Spec => []ObservationsBackResult
<1>1. IInv => ObservationsBackResult
  BY DEF IInv
<1> QED BY <1>1, Invariant, PTL

-----------------------------------------------------------------------------
(* Delivery.  A span somebody recorded.                                    *)
IsSpan(s) ==
  /\ s.key \in Nat /\ s.start \in Nat /\ s.end \in Nat
  /\ s.start <= s.end /\ s.start <= now
  /\ s.id \in MessageIds \cup {NoId}

(* The spans of one end: finitely many, told apart by their keys.          *)
OneEnd(S) ==
  /\ IsFiniteSet(S)
  /\ \A s \in S : IsSpan(s) /\ s.key <= Cardinality(S)
  /\ \A s, t \in S : s.key = t.key => s = t

(* A receipt has the identifier of the publication it is of, or none.      *)
ReceiptsAreOfSent ==
  \A c \in received : \E p \in sent : c.of = p.key /\ c.id \in {p.id, NoId}

ChannelInv == now \in Nat /\ OneEnd(sent) /\ OneEnd(received) /\ ReceiptsAreOfSent

LEMMA OneEndGrows ==
  ASSUME NEW S, OneEnd(S), now \in Nat, NEW id \in MessageIds \cup {NoId},
         NEW d \in Durations, NEW of
  PROVE  OneEnd(S \cup {[key |-> Cardinality(S) + 1, id |-> id, start |-> now,
                         end |-> now + d, of |-> of]})
<1> DEFINE s == [key |-> Cardinality(S) + 1, id |-> id, start |-> now,
                 end |-> now + d, of |-> of]
<1>1. Cardinality(S) \in Nat
  BY FS_CardinalityType DEF OneEnd
<1>2. IsSpan(s)
  BY <1>1, DeliveryAssumption DEF IsSpan
<1>3. s.key = Cardinality(S) + 1
  OBVIOUS
<1> HIDE DEF s
<1>4. s \notin S
  BY <1>1, <1>3 DEF OneEnd
<1>5. IsFiniteSet(S \cup {s}) /\ Cardinality(S \cup {s}) = Cardinality(S) + 1
  BY <1>4, FS_AddElement DEF OneEnd
<1>6. \A t \in S : t.key \in Nat /\ t.key <= Cardinality(S)
  BY DEF OneEnd, IsSpan
<1>7. OneEnd(S \cup {s})
  BY <1>1, <1>2, <1>3, <1>5, <1>6 DEF OneEnd
<1> QED
  BY <1>7 DEF s

LEMMA ChannelInitInv == ChannelInit => ChannelInv
<1> SUFFICES ASSUME ChannelInit PROVE ChannelInv
  OBVIOUS
<1>1. IsFiniteSet({})
  BY FS_EmptySet
<1> QED
  BY <1>1 DEF ChannelInit, ChannelInv, OneEnd, ReceiptsAreOfSent

LEMMA ChannelNextInv == ChannelInv /\ [ChannelNext]_channel => ChannelInv'
<1> SUFFICES ASSUME ChannelInv, [ChannelNext]_channel PROVE ChannelInv'
  OBVIOUS
<1>0. now \in Nat /\ OneEnd(sent) /\ OneEnd(received) /\ ReceiptsAreOfSent
  BY DEF ChannelInv
<1>1. CASE UNCHANGED channel
  BY <1>0, <1>1 DEF channel, ChannelInv, OneEnd, IsSpan, ReceiptsAreOfSent
<1>2. CASE Tick
  BY <1>0, <1>2 DEF Tick, ChannelInv, OneEnd, IsSpan, ReceiptsAreOfSent
<1>3. ASSUME NEW id \in MessageIds \cup {NoId}, NEW d \in Durations, Send(id, d)
      PROVE  ChannelInv'
  <2>1. PICK new : new = [key |-> Cardinality(sent) + 1, id |-> id, start |-> now,
                          end |-> now + d, of |-> Cardinality(sent) + 1]
    OBVIOUS
  <2>2. sent' = sent \cup {new} /\ now' = now /\ received' = received
    BY <1>3, <2>1 DEF Send
  <2>3. OneEnd(sent \cup {new})
    BY <1>0, <2>1, OneEndGrows
  <2> QED
    BY <1>0, <2>2, <2>3 DEF ChannelInv, OneEnd, IsSpan, ReceiptsAreOfSent
<1>4. ASSUME NEW id \in MessageIds \cup {NoId}, NEW d \in Durations, NEW p \in sent,
             Receive(p, id, d)
      PROVE  ChannelInv'
  <2>1. PICK new : new = [key |-> Cardinality(received) + 1, id |-> id, start |-> now,
                          end |-> now + d, of |-> p.key]
    OBVIOUS
  <2>2. received' = received \cup {new} /\ now' = now /\ sent' = sent
    BY <1>4, <2>1 DEF Receive
  <2>3. OneEnd(received \cup {new})
    BY <1>0, <2>1, OneEndGrows
  <2>4. new.of = p.key /\ new.id \in {p.id, NoId}
    BY <1>4, <2>1 DEF Receive
  <2> QED
    BY <1>0, <2>2, <2>3, <2>4 DEF ChannelInv, OneEnd, IsSpan, ReceiptsAreOfSent
<1> QED
  BY <1>1, <1>2, <1>3, <1>4 DEF ChannelNext

LEMMA ChannelInvariant == ChannelSpec => []ChannelInv
BY ChannelInitInv, ChannelNextInv, PTL DEF ChannelSpec

(* The least of some natural numbers, and the greatest of bounded ones.    *)
LEMMA LeastIsMin ==
  ASSUME NEW S, S \subseteq Nat, S # {}
  PROVE  Min(S) \in S /\ \A y \in S : Min(S) <= y
<1> DEFINE R == {ss \in Nat \X Nat : ss[1] < ss[2]}
<1>1. IsWellFoundedOn(R, Nat)
  BY NatLessThanWellFounded DEF OpToRel
<1>2. \A x, y \in S : y < x => <<y, x>> \in R
  OBVIOUS
<1> HIDE DEF R
<1>3. PICK x \in S : \A y \in S : <<y, x>> \notin R
  BY <1>1, WFMin
<1>4. \A y \in S : ~(y < x)
  BY <1>2, <1>3
<1>5. \A y \in S : x <= y
  BY <1>4
<1> QED
  BY <1>5, Zenon DEF Min

LEMMA GreatestIsMax ==
  ASSUME NEW S, S \subseteq Nat, S # {}, NEW n \in Nat, \A y \in S : y <= n
  PROVE  Max(S) \in S /\ \A y \in S : Max(S) >= y
<1> DEFINE T == {m \in Nat : n - m \in S}
<1>1. \A y \in S : n - y \in T
  OBVIOUS
<1>2. T # {} /\ T \subseteq Nat
  BY <1>1
<1> HIDE DEF T
<1>3. Min(T) \in T /\ \A m \in T : Min(T) <= m
  BY <1>2, LeastIsMin
<1>4. n - Min(T) \in S
  BY <1>3 DEF T
<1>5. \A y \in S : n - Min(T) >= y
  <2> SUFFICES ASSUME NEW y \in S PROVE n - Min(T) >= y
    OBVIOUS
  <2>1. Min(T) <= n - y /\ Min(T) \in Nat /\ y \in Nat
    BY <1>1, <1>2, <1>3
  <2> QED
    BY <2>1
<1>6. \E x \in S : \A y \in S : x >= y
  BY <1>4, <1>5
<1> QED
  BY <1>6, Zenon DEF Max

-----------------------------------------------------------------------------
(* Spans of known messages, by their start, message and key.               *)
Ordered(S) ==
  /\ IsFiniteSet(S)
  /\ \A s \in S : s.key \in Nat /\ s.start \in Nat /\ s.id \in Nat
  /\ \A s, t \in S : s.key = t.key => s = t

LEMMA EarlierIsOrder ==
  ASSUME NEW S, Ordered(S)
  PROVE  /\ \A s \in S : ~Earlier(s, s)
         /\ \A s, t \in S : s # t => Earlier(s, t) \/ Earlier(t, s)
         /\ \A s, t, u \in S : Earlier(s, t) /\ Earlier(t, u) => Earlier(s, u)
BY DEF Ordered, Earlier

LEMMA PositionType ==
  ASSUME NEW S, Ordered(S), NEW s
  PROVE  /\ Position(S, s) \in Nat
         /\ Position(S, s) = 0 <=> \A t \in S : ~Earlier(t, s)
<1> DEFINE E == {t \in S : Earlier(t, s)}
<1>1. IsFiniteSet(E)
  BY FS_Subset DEF Ordered
<1>2. Cardinality(E) \in Nat /\ (Cardinality(E) = 0 <=> E = {})
  BY <1>1, FS_CardinalityType, FS_EmptySet
<1> QED
  BY <1>2 DEF Position

LEMMA PositionGrows ==
  ASSUME NEW S, Ordered(S), NEW s \in S, NEW t \in S, Earlier(s, t)
  PROVE  Position(S, s) < Position(S, t)
<1> DEFINE E(x) == {u \in S : Earlier(u, x)}
<1>1. IsFiniteSet(E(s)) /\ IsFiniteSet(E(t))
  BY FS_Subset DEF Ordered
<1>2. E(s) \subseteq E(t) /\ s \in E(t) /\ s \notin E(s)
  BY EarlierIsOrder
<1>3. Cardinality(E(s)) \in Nat /\ Cardinality(E(t)) \in Nat
  BY <1>1, FS_CardinalityType
<1>4. Cardinality(E(s)) <= Cardinality(E(t)) /\ Cardinality(E(s)) # Cardinality(E(t))
  BY <1>1, <1>2, FS_Subset
<1> QED
  BY <1>3, <1>4 DEF Position

LEMMA SomeIsFirst ==
  ASSUME NEW S, Ordered(S), S # {}, \A s, t \in S : s.id = t.id
  PROVE  \E s \in S : Position(S, s) = 0
<1> DEFINE starts == {s.start : s \in S}
<1>1. starts \subseteq Nat /\ starts # {}
  BY DEF Ordered
<1>2. Min(starts) \in starts /\ \A y \in starts : Min(starts) <= y
  BY <1>1, LeastIsMin
<1>3. PICK m \in Nat : (\E s \in S : s.start = m) /\ \A s \in S : m <= s.start
  BY <1>1, <1>2
<1> HIDE DEF starts
<1> DEFINE keys == {s.key : s \in {u \in S : u.start = m}}
<1>4. keys \subseteq Nat /\ keys # {}
  BY <1>3 DEF Ordered
<1>5. Min(keys) \in keys /\ \A y \in keys : Min(keys) <= y
  BY <1>4, LeastIsMin
<1>6. PICK s \in S : s.start = m /\ \A t \in S : t.start = m => s.key <= t.key
  BY <1>5
<1> HIDE DEF keys
<1>7. ASSUME NEW t \in S PROVE ~Earlier(t, s)
  <2>1. /\ t.start \in Nat /\ t.key \in Nat /\ s.key \in Nat /\ t.id \in Nat
        /\ m <= t.start /\ t.id = s.id /\ (t.start = m => s.key <= t.key)
    BY <1>3, <1>6, <1>7 DEF Ordered
  <2> QED
    BY <1>6, <2>1 DEF Earlier
<1> QED
  BY <1>7, PositionType

-----------------------------------------------------------------------------
(* What a trace tells when every span of it is in the window and has an    *)
(* identifier, and no identifier is of two publications.                   *)
Plain ==
  /\ Observed # {} /\ Producers = sent /\ Consumers = received
  /\ \A s \in Observed : s.id \in MessageIds
  /\ \A p, q \in sent : p.id = q.id => p = q

LEMMA PlainIs ==
  ASSUME ChannelInv, Observed # {}, ~Unidentified,
         OwnViolations \subseteq {"invalid_observation"}
  PROVE  Plain
<1>1. "observation_window_exceeded" \notin OwnViolations
      /\ "ambiguous_message_id" \notin OwnViolations
  OBVIOUS
<1>2. \A s \in Observed : InWindow(s)
  BY <1>1 DEF OwnViolations
<1>3. Producers = sent /\ Consumers = received
  BY <1>2 DEF Producers, Consumers, Observed
<1>4. \A p, q \in sent : p.id = q.id => p = q
  BY <1>1, <1>3 DEF OwnViolations
<1>5. \A s \in Observed : s.id \in MessageIds \cup {NoId}
  BY DEF ChannelInv, OneEnd, IsSpan, Observed
<1> QED
  BY <1>3, <1>4, <1>5 DEF Plain, Unidentified, Observed

LEMMA PlainSpans ==
  ASSUME ChannelInv, Plain
  PROVE  /\ Ordered(sent) /\ Ordered(received)
         /\ \A id : /\ Ordered(WithId(sent, id)) /\ Ordered(WithId(received, id))
                   /\ WithId(sent, id) \subseteq sent
                   /\ WithId(received, id) \subseteq received
<1>1. MessageIds \subseteq Nat
  BY DeliveryAssumption
<1>2. Ordered(sent) /\ Ordered(received)
  BY <1>1 DEF ChannelInv, OneEnd, IsSpan, Ordered, Plain, Observed
<1>3. ASSUME NEW S, Ordered(S), NEW id PROVE Ordered(WithId(S, id)) /\ WithId(S, id) \subseteq S
  <2>1. IsFiniteSet(WithId(S, id)) /\ WithId(S, id) \subseteq S
    BY <1>3, FS_Subset DEF Ordered, WithId
  <2> QED
    BY <1>3, <2>1 DEF Ordered
<1> QED
  BY <1>2, <1>3

(* The publication of a receipt is the one of its identifier.              *)
LEMMA OnePublication ==
  ASSUME ChannelInv, Plain, NEW p \in sent
  PROVE  /\ WithId(sent, p.id) = {p} /\ Times(p.id, sent) = 1
         /\ Position(WithId(sent, p.id), p) = 0
         /\ Receipts(p) = WithId(received, p.id)
<1>1. WithId(sent, p.id) = {p}
  BY DEF WithId, Plain
<1>2. Times(p.id, sent) = 1
  BY <1>1, FS_Singleton DEF Times
<1>3. Position(WithId(sent, p.id), p) = 0
  <2>1. Ordered(WithId(sent, p.id))
    BY PlainSpans
  <2>2. \A t \in WithId(sent, p.id) : ~Earlier(t, p)
    BY <1>1, <2>1, EarlierIsOrder
  <2> QED
    BY <2>1, <2>2, PositionType
<1>4. ASSUME NEW c \in received PROVE c.of = p.key <=> c.id = p.id
  <2>1. PICK q \in sent : c.of = q.key /\ c.id \in {q.id, NoId}
    BY <1>4 DEF ChannelInv, ReceiptsAreOfSent
  <2>2. c.id = q.id
    BY <1>4, <2>1, DeliveryAssumption DEF Plain, Observed
  <2>3. q.key = p.key <=> q = p
    BY DEF ChannelInv, OneEnd
  <2>4. q.id = p.id <=> q = p
    BY DEF Plain
  <2> QED
    BY <2>1, <2>2, <2>3, <2>4
<1>5. Receipts(p) = WithId(received, p.id)
  BY <1>4 DEF Receipts, WithId
<1> QED
  BY <1>1, <1>2, <1>3, <1>5

(* A publication is matched with the first of its receipts.                *)
First(p, c) == c \in Receipts(p) /\ Position(Receipts(p), c) = 0

LEMMA MatchedIs ==
  ASSUME ChannelInv, Plain, NEW p \in sent, NEW c \in received
  PROVE  <<p, c>> \in Matched <=> First(p, c)
<1>1. /\ Position(WithId(sent, p.id), p) = 0
      /\ Receipts(p) = WithId(received, p.id)
  BY OnePublication
<1>2. <<p, c>> \in Matched <=>
        /\ p.id = c.id
        /\ Position(WithId(sent, p.id), p) = Position(WithId(received, c.id), c)
  BY DEF Matched, Plain
<1>3. c \in Receipts(p) <=> p.id = c.id
  BY <1>1 DEF WithId
<1> QED
  BY <1>1, <1>2, <1>3 DEF First

LEMMA ArrivedHasFirst ==
  ASSUME ChannelInv, Plain, NEW p \in Arrived
  PROVE  /\ FirstReceipt(p) \in Nat
         /\ \E c \in received : First(p, c) /\ FirstReceipt(p) <= c.start
<1>1. p \in sent /\ Receipts(p) # {} /\ Receipts(p) \subseteq received
  BY DEF Arrived, Receipts
<1>2. Receipts(p) = WithId(received, p.id) /\ Ordered(Receipts(p))
  BY <1>1, OnePublication, PlainSpans
<1>3. \A s, t \in Receipts(p) : s.id = t.id
  BY <1>2 DEF WithId
<1>4. PICK c \in Receipts(p) : Position(Receipts(p), c) = 0
  BY <1>1, <1>2, <1>3, SomeIsFirst
<1>5. {d.start : d \in Receipts(p)} \subseteq Nat /\ c.start \in {d.start : d \in Receipts(p)}
  BY <1>2 DEF Ordered
<1>6. FirstReceipt(p) \in Nat /\ FirstReceipt(p) <= c.start
  BY <1>5, LeastIsMin DEF FirstReceipt
<1> QED
  BY <1>1, <1>4, <1>6 DEF First

LEMMA FewAreLost ==
  ASSUME ChannelInv, Plain
  PROVE  /\ Excess(sent, received) \in Nat /\ Cardinality(sent \ Arrived) \in Nat
         /\ Cardinality(sent \ Arrived) <= Excess(sent, received)
<1> DEFINE surplus == {s \in sent :
             Position(WithId(sent, s.id), s) >= Times(s.id, received)}
<1>1. ASSUME NEW p \in sent \ Arrived PROVE p \in surplus
  <2>1. WithId(received, p.id) = {} /\ Position(WithId(sent, p.id), p) = 0
    BY OnePublication DEF Arrived
  <2>2. Times(p.id, received) = 0
    BY <2>1, FS_EmptySet DEF Times
  <2> QED
    BY <2>1, <2>2
<1>2. IsFiniteSet(surplus)
  BY FS_Subset DEF ChannelInv, OneEnd
<1>3. sent \ Arrived \in SUBSET surplus
  BY <1>1
<1>4. Excess(sent, received) = Cardinality(surplus)
  BY DEF Excess
<1> HIDE DEF surplus
<1> QED
  BY <1>2, <1>3, <1>4, FS_Subset, FS_CardinalityType

LEMMA FewAreRepeated ==
  ASSUME ChannelInv, Plain
  PROVE  /\ Excess(received, sent) \in Nat
         /\ Cardinality(received) - Cardinality(Arrived) <= Excess(received, sent)
<1> DEFINE surplus == {c \in received :
             Position(WithId(received, c.id), c) >= Times(c.id, sent)}
           firsts == received \ surplus
           of == [c \in firsts |-> CHOOSE p \in sent : c.id = p.id]
<1>1. ASSUME NEW c \in firsts
      PROVE  /\ of[c] \in Arrived /\ c.id = of[c].id
             /\ Position(WithId(received, c.id), c) = 0
  <2>1. \E p \in sent : c.of = p.key /\ c.id \in {p.id, NoId}
    BY DEF ChannelInv, ReceiptsAreOfSent
  <2>2. \E p \in sent : c.id = p.id
    BY <2>1, DeliveryAssumption DEF Plain, Observed
  <2>3. of[c] \in sent /\ c.id = of[c].id
    BY <2>2
  <2> HIDE DEF of
  <2>4. Times(c.id, sent) = 1 /\ Receipts(of[c]) = WithId(received, c.id)
    BY <2>3, OnePublication
  <2>5. of[c] \in Arrived
    BY <2>3, <2>4 DEF Arrived, WithId
  <2>6. Position(WithId(received, c.id), c) \in Nat
    BY PlainSpans, PositionType
  <2>7. ~(Position(WithId(received, c.id), c) >= 1)
    BY <2>4
  <2> QED
    BY <2>3, <2>5, <2>6, <2>7
<1>2. ASSUME NEW c \in firsts, NEW d \in firsts, of[c] = of[d] PROVE c = d
  <2>0. c \in received /\ d \in received
    OBVIOUS
  <2>1. /\ c.id = d.id /\ Position(WithId(received, c.id), c) = 0
        /\ Position(WithId(received, c.id), d) = 0
    BY <1>1, <1>2
  <2> HIDE DEF firsts, of
  <2>2. c \in WithId(received, c.id) /\ d \in WithId(received, c.id)
    BY <2>0, <2>1 DEF WithId
  <2>3. Ordered(WithId(received, c.id))
    BY PlainSpans
  <2>4. ~Earlier(c, d) /\ ~Earlier(d, c)
    BY <2>1, <2>2, <2>3, PositionType
  <2> QED
    BY <2>2, <2>3, <2>4, EarlierIsOrder
<1>3. of \in [firsts -> Arrived]
  BY <1>1
<1>4. of \in Injection(firsts, Arrived)
  <2> HIDE DEF of, firsts
  <2> QED
    BY <1>2, <1>3 DEF Injection, IsInjective
<1>5. IsFiniteSet(received) /\ IsFiniteSet(Arrived)
  BY FS_Subset DEF ChannelInv, OneEnd, Arrived
<1>6. surplus \subseteq received
  OBVIOUS
<1>7. Excess(received, sent) = Cardinality(surplus)
  BY DEF Excess
<1>8. firsts = received \ surplus
  OBVIOUS
<1> HIDE DEF of, firsts, surplus
<1>9. Cardinality(firsts) <= Cardinality(Arrived)
  BY <1>4, <1>5, FS_Injection
<1>10. /\ IsFiniteSet(surplus) /\ IsFiniteSet(firsts)
       /\ Cardinality(firsts) = Cardinality(received) - Cardinality(surplus)
  <2>1. received \cap surplus = surplus
    BY <1>6
  <2>2. IsFiniteSet(surplus)
    BY <1>5, <1>6, FS_Subset
  <2>3. /\ IsFiniteSet(received \ surplus)
        /\ Cardinality(received \ surplus)
             = Cardinality(received) - Cardinality(received \cap surplus)
    BY <1>5, FS_Difference
  <2> QED
    BY <1>8, <2>1, <2>2, <2>3
<1>11. /\ Cardinality(surplus) \in Nat /\ Cardinality(received) \in Nat
       /\ Cardinality(Arrived) \in Nat
  BY <1>5, <1>10, FS_CardinalityType
<1> QED
  BY <1>7, <1>9, <1>10, <1>11

LEMMA AgesAreMeasured ==
  ASSUME ChannelInv, Plain, Negative = {}
  PROVE  /\ LargestAge \in Nat
         /\ \A pair \in Matched : pair[2].start - pair[1].end <= LargestAge
<1> DEFINE ages == {0} \cup {m[2].start - m[1].end : m \in Matched \ Negative}
<1>1. ASSUME NEW m \in Matched
      PROVE  /\ m[2].start - m[1].end \in Nat
             /\ m[2].start - m[1].end <= now
  <2>1. m[1] \in sent /\ m[2] \in received
    BY DEF Matched, Plain
  <2>2. /\ m[2].start \in Nat /\ m[1].end \in Nat /\ m[2].start <= now /\ now \in Nat
    BY <2>1 DEF ChannelInv, OneEnd, IsSpan
  <2>3. ~(m[2].start < m[1].end)
    BY DEF Negative
  <2> QED
    BY <2>2, <2>3
<1>2. now \in Nat
  BY DEF ChannelInv
<1>3. ages \subseteq Nat /\ ages # {} /\ \A y \in ages : y <= now
  BY <1>1, <1>2
<1>4. \A pair \in Matched : pair[2].start - pair[1].end \in ages
  OBVIOUS
<1>5. LargestAge = Max(ages)
  BY DEF LargestAge
<1> HIDE DEF ages
<1>6. Max(ages) \in Nat /\ \A age \in ages : age \in Nat /\ age <= Max(ages)
  BY <1>2, <1>3, GreatestIsMax
<1> QED
  BY <1>4, <1>5, <1>6

(* A channel that passed did so by its measures.                           *)
LEMMA PassedIsMeasured ==
  ASSUME ChannelInv, ChannelDelivery.status = "passed"
  PROVE  /\ Plain /\ Negative = {} /\ Cardinality(Producers) >= MinMessages
         /\ 100 * Excess(Producers, Consumers) <= MaxLossPercent * Cardinality(Producers)
         /\ Excess(Consumers, Producers) <= MaxDuplicates
         /\ LargestAge <= MaxAge
<1>1. /\ Observed # {} /\ ~Unidentified
  <2>1. ObservationStatus({"invalid_observation"}) # "passed"
    BY DEF ObservationStatus
  <2>2. CASE Observed = {}
    BY <2>2 DEF ChannelDelivery
  <2>3. CASE Observed # {} /\ Unidentified
    BY <2>1, <2>3 DEF ChannelDelivery, Observation
  <2> QED
    BY <2>2, <2>3
<1> DEFINE lost == Excess(Producers, Consumers)
           duplicates == Excess(Consumers, Producers)
           codes == OwnViolations \cup
                      DerivedViolations(lost, duplicates, Cardinality(OutOfOrder), LargestAge)
<1>2. ObservationStatus(codes) = "passed"
  BY <1>1 DEF ChannelDelivery, Observation
<1> HIDE DEF codes
<1>3. codes = {}
  BY <1>2 DEF ObservationStatus
<1>4. OwnViolations = {} /\ DerivedViolations(lost, duplicates, Cardinality(OutOfOrder), LargestAge) = {}
  BY <1>3 DEF codes
<1>5. Plain
  BY <1>1, <1>4, PlainIs
<1>6. Negative = {}
  BY <1>4 DEF OwnViolations
<1> HIDE DEF lost, duplicates
<1>7. /\ ~(Cardinality(Producers) < MinMessages)
      /\ ~(100 * lost > MaxLossPercent * Cardinality(Producers))
      /\ ~(duplicates > MaxDuplicates) /\ ~(LargestAge > MaxAge)
  BY <1>4 DEF DerivedViolations
<1>8. /\ lost \in Nat /\ duplicates \in Nat /\ LargestAge \in Nat
      /\ Cardinality(Producers) \in Nat
  <2>1. lost \in Nat /\ duplicates \in Nat
    BY <1>5, FewAreLost, FewAreRepeated DEF lost, duplicates, Plain
  <2>2. Cardinality(Producers) \in Nat
    BY <1>5, FS_CardinalityType DEF Plain, ChannelInv, OneEnd
  <2> QED
    BY <1>5, <1>6, <2>1, <2>2, AgesAreMeasured
<1> DEFINE n == Cardinality(Producers)
           allowed == MaxLossPercent * n
<1>9. allowed \in Nat /\ MinMessages \in Nat /\ MaxDuplicates \in Nat /\ MaxAge \in Nat
  BY <1>8, DeliveryAssumption
<1> HIDE DEF n, allowed
<1>10. n \in Nat /\ ~(n < MinMessages) /\ ~(100 * lost > allowed)
  BY <1>7, <1>8 DEF n, allowed
<1>11. /\ n >= MinMessages /\ 100 * lost <= allowed
       /\ duplicates <= MaxDuplicates /\ LargestAge <= MaxAge
  BY <1>7, <1>8, <1>9, <1>10
<1> QED
  BY <1>5, <1>6, <1>11 DEF lost, duplicates, n, allowed

(* What a passed observation says of the pairs it formed is true of the    *)
(* messages, for every trace the two ends can leave behind.                *)
THEOREM PassedIsDelivered == ChannelSpec => []PassedMeansDelivered
<1>1. ChannelInv => PassedMeansDelivered
  <2> SUFFICES ASSUME ChannelInv, ChannelDelivery.status = "passed"
               PROVE  /\ Cardinality(sent) >= MinMessages
                      /\ 100 * Cardinality(sent \ Arrived) <= MaxLossPercent * Cardinality(sent)
                      /\ Cardinality(received) - Cardinality(Arrived) <= MaxDuplicates
                      /\ \A p \in Arrived : FirstReceipt(p) <= p.end + MaxAge
    BY DEF PassedMeansDelivered
  <2>1. /\ Plain /\ Negative = {} /\ Cardinality(Producers) >= MinMessages
        /\ 100 * Excess(Producers, Consumers) <= MaxLossPercent * Cardinality(Producers)
        /\ Excess(Consumers, Producers) <= MaxDuplicates
        /\ LargestAge <= MaxAge
    BY PassedIsMeasured
  <2>2. Producers = sent /\ Consumers = received
    BY <2>1 DEF Plain
  <2>3. Cardinality(sent) >= MinMessages
    BY <2>1, <2>2
  <2>4. 100 * Cardinality(sent \ Arrived) <= MaxLossPercent * Cardinality(sent)
    <3> DEFINE lost == Cardinality(sent \ Arrived)
               counted == Excess(sent, received)
               allowed == MaxLossPercent * Cardinality(sent)
    <3>1. lost \in Nat /\ counted \in Nat /\ lost <= counted
      BY <2>1, FewAreLost
    <3>2. 100 * counted <= allowed
      BY <2>1, <2>2
    <3>3. allowed \in Nat
      BY FS_CardinalityType, DeliveryAssumption DEF ChannelInv, OneEnd
    <3> HIDE DEF lost, counted, allowed
    <3>4. 100 * lost <= allowed
      BY <3>1, <3>2, <3>3
    <3> QED
      BY <3>4 DEF lost, allowed
  <2>5. Cardinality(received) - Cardinality(Arrived) <= MaxDuplicates
    <3>1. /\ Excess(received, sent) \in Nat
          /\ Cardinality(received) - Cardinality(Arrived) <= Excess(received, sent)
      BY <2>1, FewAreRepeated
    <3>2. Excess(received, sent) <= MaxDuplicates /\ MaxDuplicates \in Nat
      BY <2>1, <2>2, DeliveryAssumption
    <3>3. IsFiniteSet(received) /\ IsFiniteSet(Arrived)
      BY FS_Subset DEF ChannelInv, OneEnd, Arrived
    <3>4. Cardinality(received) \in Nat /\ Cardinality(Arrived) \in Nat
      BY <3>3, FS_CardinalityType
    <3> QED
      BY <3>1, <3>2, <3>4
  <2>6. ASSUME NEW p \in Arrived PROVE FirstReceipt(p) <= p.end + MaxAge
    <3>1. PICK c \in received : First(p, c) /\ FirstReceipt(p) <= c.start
      BY <2>1, ArrivedHasFirst
    <3>2. p \in sent
      BY DEF Arrived
    <3>3. <<p, c>> \in Matched
      BY <2>1, <3>1, <3>2, MatchedIs
    <3>4. c.start - p.end <= LargestAge
      BY <2>1, <3>3, AgesAreMeasured
    <3>5. LargestAge <= MaxAge /\ MaxAge \in Nat
      BY <2>1, DeliveryAssumption
    <3>6. c.start \in Nat /\ p.end \in Nat
      BY <3>2 DEF ChannelInv, OneEnd, IsSpan
    <3>7. LargestAge \in Nat
      BY <2>1, AgesAreMeasured
    <3>8. FirstReceipt(p) \in Int
      BY <2>1, ArrivedHasFirst
    <3> QED
      BY <3>1, <3>4, <3>5, <3>6, <3>7, <3>8
  <2> QED
    BY <2>3, <2>4, <2>5, <2>6
<1> QED
  BY <1>1, ChannelInvariant, PTL

-----------------------------------------------------------------------------
(* Where starts tell spans apart, they are their order.                    *)
LEMMA DistinctOrder ==
  ASSUME NEW S, Ordered(S), Distinct(S)
  PROVE  \A s, t \in S : /\ Earlier(s, t) <=> s.start < t.start
                         /\ Position(S, s) < Position(S, t) <=> s.start < t.start
<1>1. ASSUME NEW s \in S, NEW t \in S PROVE Earlier(s, t) <=> s.start < t.start
  <2>1. CASE s = t
    BY <2>1, EarlierIsOrder DEF Ordered
  <2>2. CASE s # t
    <3>1. s.start # t.start /\ s.start \in Nat /\ t.start \in Nat
      BY <2>2 DEF Distinct, Ordered
    <3> QED
      BY <3>1 DEF Earlier
  <2> QED
    BY <2>1, <2>2
<1>2. ASSUME NEW s \in S, NEW t \in S
      PROVE  Position(S, s) < Position(S, t) <=> s.start < t.start
  <2>1. Position(S, s) \in Nat /\ Position(S, t) \in Nat
    BY PositionType
  <2>2. s.start < t.start => Position(S, s) < Position(S, t)
    BY <1>1, PositionGrows
  <2>3. t.start < s.start => Position(S, t) < Position(S, s)
    BY <1>1, PositionGrows
  <2>4. s.start = t.start => s = t
    BY DEF Distinct
  <2>5. s.start \in Nat /\ t.start \in Nat
    BY DEF Ordered
  <2> QED
    BY <2>1, <2>2, <2>3, <2>4, <2>5
<1> QED
  BY <1>1, <1>2

(* The receipt a publication is matched with is the first it really had.   *)
LEMMA FirstIsEarliest ==
  ASSUME ChannelInv, Plain, NEW p \in sent, NEW c \in received, First(p, c)
  PROVE  p \in Arrived /\ FirstReceipt(p) = c.start
<1>1. /\ Receipts(p) = WithId(received, p.id) /\ Ordered(Receipts(p))
      /\ c \in Receipts(p) /\ Position(Receipts(p), c) = 0
  BY OnePublication, PlainSpans DEF First
<1>2. \A d \in Receipts(p) : ~Earlier(d, c)
  BY <1>1, PositionType
<1>3. \A d \in Receipts(p) : d.start \in Nat /\ c.start <= d.start
  <2> SUFFICES ASSUME NEW d \in Receipts(p) PROVE d.start \in Nat /\ c.start <= d.start
    OBVIOUS
  <2>1. ~(d.start < c.start) /\ d.start \in Nat /\ c.start \in Nat
    BY <1>1, <1>2 DEF Earlier, Ordered
  <2> QED
    BY <2>1
<1> DEFINE starts == {d.start : d \in Receipts(p)}
<1>4. starts \subseteq Nat /\ c.start \in starts /\ \A x \in starts : c.start <= x
  BY <1>1, <1>3
<1> HIDE DEF starts
<1>5. Min(starts) \in starts /\ Min(starts) <= c.start
  BY <1>4, LeastIsMin
<1>6. Min(starts) = c.start
  <2>1. c.start <= Min(starts) /\ c.start \in Nat /\ Min(starts) \in Nat
    BY <1>4, <1>5
  <2> QED
    BY <1>5, <2>1
<1> QED
  BY <1>1, <1>6 DEF starts, FirstReceipt, Arrived

LEMMA DisorderIs ==
  ASSUME ChannelInv, Plain, Distinct(sent), Distinct(received)
  PROVE  OutOfOrder = {} <=> InOrder
<1>1. /\ Ordered(sent) /\ Ordered(received) /\ Arrived \subseteq sent
      /\ Producers = sent /\ Consumers = received
  BY PlainSpans DEF Arrived, Plain
<1>2. ASSUME OutOfOrder = {} PROVE InOrder
  <2> SUFFICES ASSUME NEW p \in Arrived, NEW q \in Arrived, p.start < q.start,
                      ~(FirstReceipt(p) <= FirstReceipt(q))
               PROVE  FALSE
    BY DEF InOrder
  <2>1. PICK c \in received : First(p, c)
    BY ArrivedHasFirst
  <2>2. PICK b \in received : First(q, b)
    BY ArrivedHasFirst
  <2>3. <<p, c>> \in Matched /\ <<q, b>> \in Matched
    BY <1>1, <2>1, <2>2, MatchedIs
  <2>4. FirstReceipt(p) = c.start /\ FirstReceipt(q) = b.start
    BY <1>1, <2>1, <2>2, FirstIsEarliest
  <2>5. b.start < c.start
    BY <1>1, <2>4 DEF Ordered
  <2>6. Earlier(b, c) /\ Position(Producers, p) < Position(Producers, q)
    BY <1>1, <2>5, DistinctOrder
  <2>7. <<p, c>> \in OutOfOrder
    BY <2>3, <2>6 DEF OutOfOrder
  <2> QED
    BY <1>2, <2>7
<1>3. ASSUME InOrder, NEW pair \in OutOfOrder PROVE FALSE
  <2>1. PICK p \in sent, c \in received : pair = <<p, c>> /\ <<p, c>> \in Matched
    BY <1>1 DEF OutOfOrder, Matched
  <2>2. PICK before \in Matched :
          /\ Earlier(before[2], pair[2])
          /\ Position(Producers, pair[1]) < Position(Producers, before[1])
    BY DEF OutOfOrder
  <2>3. PICK q \in sent, b \in received : before = <<q, b>> /\ <<q, b>> \in Matched
    BY <1>1 DEF Matched
  <2>4. Earlier(b, c) /\ Position(sent, p) < Position(sent, q)
    BY <1>1, <2>1, <2>2, <2>3
  <2>5. b.start < c.start /\ p.start < q.start
    BY <1>1, <2>4, DistinctOrder
  <2>6. First(p, c) /\ First(q, b)
    BY <2>1, <2>3, MatchedIs
  <2>7. /\ p \in Arrived /\ FirstReceipt(p) = c.start
        /\ q \in Arrived /\ FirstReceipt(q) = b.start
    BY <2>6, FirstIsEarliest
  <2>8. c.start <= b.start
    BY <1>3, <2>5, <2>7 DEF InOrder
  <2> QED
    BY <1>1, <2>5, <2>8 DEF Ordered
<1> QED
  BY <1>2, <1>3

(* A trace without reused identifiers, late spans or equal timestamps is   *)
(* found in disorder exactly when first receipts overtook each other.      *)
THEOREM ReorderingIsReal == ChannelSpec => []DisorderIsReal
<1>1. ChannelInv => DisorderIsReal
  <2> SUFFICES ASSUME ChannelInv, Distinct(sent), Distinct(received), Observed # {},
                      ~Unidentified, OwnViolations \subseteq {"invalid_observation"}
               PROVE  ChannelDelivery.disorder = 0 <=> InOrder
    BY DEF DisorderIsReal
  <2>1. Plain
    BY PlainIs
  <2>2. ChannelDelivery.disorder = Cardinality(OutOfOrder)
    BY DEF ChannelDelivery, Observation
  <2>3. IsFiniteSet(OutOfOrder)
    <3>1. IsFiniteSet(Producers \X Consumers)
      BY <2>1, FS_Product DEF Plain, ChannelInv, OneEnd
    <3>2. OutOfOrder \subseteq Producers \X Consumers
      BY DEF OutOfOrder, Matched
    <3> QED
      BY <3>1, <3>2, FS_Subset
  <2>4. Cardinality(OutOfOrder) = 0 <=> OutOfOrder = {}
    BY <2>3, FS_EmptySet
  <2> QED
    BY <2>1, <2>2, <2>4, DisorderIs
<1> QED
  BY <1>1, ChannelInvariant, PTL
=============================================================================
