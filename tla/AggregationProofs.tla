-------------------------- MODULE AggregationProofs --------------------------
(* Proofs about Aggregation and Campaign, for any number of files, domains,  *)
(* versions and runs, and any limits.                                        *)
EXTENDS Campaign, TLAPS

Content == UNION {Contents(f) : f \in Files}

(* What position i holds is no longer in its file.                         *)
Replaced(i) == loaded[i].version < disk[ReadOrder[i]].version

(* A version names its content.                                            *)
VersionsName ==
  \A i \in 1 .. Len(loaded) :
    loaded[i].version = disk[ReadOrder[i]].version => loaded[i] = disk[ReadOrder[i]]

(* Unless everything loaded has been on disk at once, something replaced   *)
(* is still to be read again: this is what the second pass rests on.       *)
ReplacedIsAhead ==
  /\ pc = "check" /\ ~coexisted => \E i \in 1 .. Len(ReadOrder) : Replaced(i)
  /\ pc = "reread" /\ ~coexisted => \E i \in next .. Len(ReadOrder) : Replaced(i)
  /\ pc \in {"write", "done"} => coexisted

IInv == TypeOK /\ VersionsName /\ ReplacedIsAhead /\ AggregateIsSnapshot

LEMMA ReadOrderType ==
  /\ ReadOrder \in Seq(Files)
  /\ Len(ReadOrder) \in Nat \ {0}
  /\ \A i \in 1 .. Len(ReadOrder) : ReadOrder[i] \in Files
<1>1. Context \in Files /\ Qualification \in Files /\ Given \in Seq(Files)
  BY AggregationAssumption DEF Files
<1>2. <<Context>> \o Given \in Seq(Files) /\ Len(<<Context>> \o Given) = 1 + Len(Given)
  BY <1>1
<1>3. CASE Qualified
  <2>1. ReadOrder = (<<Context>> \o Given) \o <<Qualification>>
    BY <1>1, <1>3 DEF ReadOrder
  <2> QED BY <1>1, <1>2, <2>1
<1>4. CASE ~Qualified
  <2>1. ReadOrder = (<<Context>> \o Given) \o << >>
    BY <1>1, <1>4 DEF ReadOrder
  <2>2. ReadOrder \in Seq(Files) /\ Len(ReadOrder) = 1 + Len(Given)
    BY <1>2, <2>1
  <2> QED BY <1>1, <2>2
<1> QED BY <1>3, <1>4

LEMMA InitIInv == Init => IInv
<1> SUFFICES ASSUME Init PROVE IInv
  OBVIOUS
<1>1. loaded = << >> /\ Len(loaded) = 0 /\ next = 1 /\ latest = 0 /\ pc = "load"
  BY DEF Init
<1>2. \A f \in Files : disk[f] \in Contents(f) /\ disk[f].version <= latest
  BY <1>1 DEF Init
<1>3. DOMAIN disk = Files /\ coexisted \in BOOLEAN /\ aggregate = None
  BY DEF Init
<1>4. next \in 1 .. Len(ReadOrder) /\ latest \in 0 .. MaxVersion
  BY <1>1, ReadOrderType, AggregationAssumption
<1>5. loaded \in Seq(UNION {Contents(f) : f \in Files}) /\ Len(loaded) <= Len(ReadOrder)
  BY <1>1, ReadOrderType
<1>6. TypeOK
  BY <1>1, <1>2, <1>3, <1>4, <1>5 DEF TypeOK
<1> QED BY <1>1, <1>3, <1>6 DEF IInv, VersionsName, ReplacedIsAhead, AggregateIsSnapshot

LEMMA ReplaceKeeps ==
  ASSUME IInv, NEW f \in Files, FileReplaced(f), Remember PROVE IInv'
<1> USE DEF IInv
<1>1. PICK c \in Contents(f) :
        c.version = latest + 1 /\ disk' = [disk EXCEPT ![f] = c]
  BY DEF FileReplaced
<1>2. /\ UNCHANGED <<pc, next, loaded, aggregate>>
      /\ latest' = latest + 1 /\ latest' \in 0 .. MaxVersion
  BY AggregationAssumption DEF FileReplaced, TypeOK
<1>3. \A g \in Files : /\ disk'[g] \in Contents(g)
                       /\ disk'[g].version <= latest'
                       /\ disk[g].version \in Nat /\ disk[g].version <= latest
                       /\ disk'[g] = disk[g] \/ disk'[g].version = latest + 1
  <2> SUFFICES ASSUME NEW g \in Files
               PROVE /\ disk'[g] \in Contents(g)
                     /\ disk'[g].version <= latest'
                     /\ disk[g].version \in Nat /\ disk[g].version <= latest
                     /\ disk'[g] = disk[g] \/ disk'[g].version = latest + 1
    OBVIOUS
  <2>1. disk[g] \in Contents(g) /\ disk[g].version <= latest /\ DOMAIN disk = Files
    BY DEF TypeOK
  <2>2. disk[g].version \in Nat
    BY <2>1, AggregationAssumption DEF Contents
  <2>3. CASE g = f
    BY <1>1, <1>2, <2>1, <2>2, <2>3
  <2>4. CASE g # f
    BY <1>1, <1>2, <2>1, <2>2, <2>4 DEF TypeOK
  <2> QED BY <2>3, <2>4
<1>4. \A i \in 1 .. Len(loaded) :
        /\ ReadOrder[i] \in Files
        /\ loaded[i] \in Contents(ReadOrder[i])
        /\ loaded[i].version \in Nat
        /\ loaded[i].version <= disk[ReadOrder[i]].version
  <2> SUFFICES ASSUME NEW i \in 1 .. Len(loaded)
               PROVE  /\ ReadOrder[i] \in Files
                      /\ loaded[i] \in Contents(ReadOrder[i])
                      /\ loaded[i].version \in Nat
                      /\ loaded[i].version <= disk[ReadOrder[i]].version
    OBVIOUS
  <2>1. Len(loaded) \in Nat /\ Len(loaded) <= Len(ReadOrder)
    BY DEF TypeOK
  <2>2. ReadOrder[i] \in Files
    BY <2>1, ReadOrderType
  <2>3. /\ loaded[i] \in Contents(ReadOrder[i])
        /\ loaded[i].version <= disk[ReadOrder[i]].version
    BY DEF TypeOK
  <2>4. loaded[i].version \in Nat
    BY <2>3, AggregationAssumption DEF Contents
  <2> QED BY <2>2, <2>3, <2>4
<1>5. TypeOK'
  <2>1. DOMAIN disk' = Files
    BY <1>1 DEF TypeOK
  <2>2. \A i \in 1 .. Len(loaded') :
          /\ loaded'[i] \in Contents(ReadOrder[i])
          /\ loaded'[i].version <= disk'[ReadOrder[i]].version
    <3> SUFFICES ASSUME NEW i \in 1 .. Len(loaded)
                 PROVE  loaded[i].version <= disk'[ReadOrder[i]].version
      BY <1>2, <1>4
    <3>1. /\ loaded[i].version \in Nat /\ disk[ReadOrder[i]].version \in Nat
          /\ loaded[i].version <= disk[ReadOrder[i]].version
          /\ disk[ReadOrder[i]].version <= latest /\ latest \in Nat
      BY <1>3, <1>4 DEF TypeOK
    <3>2. \/ disk'[ReadOrder[i]] = disk[ReadOrder[i]]
          \/ disk'[ReadOrder[i]].version = latest + 1
      BY <1>3, <1>4
    <3> QED BY <3>1, <3>2
  <2>3. coexisted' \in BOOLEAN
    BY DEF Remember, TypeOK
  <2> QED BY <1>2, <1>3, <2>1, <2>2, <2>3 DEF TypeOK
<1>6. VersionsName'
  BY <1>2, <1>3, <1>4 DEF TypeOK, VersionsName
<1>7. \A i \in 1 .. Len(loaded) : Replaced(i) => Replaced(i)'
  BY <1>2, <1>3, <1>4 DEF Replaced, TypeOK
<1>8. coexisted => coexisted'
  BY DEF Remember, TypeOK
<1>9. ReplacedIsAhead'
  BY <1>2, <1>7, <1>8, ReadOrderType DEF ReplacedIsAhead, TypeOK
<1>10. AggregateIsSnapshot'
  BY <1>2, <1>8 DEF AggregateIsSnapshot
<1> QED BY <1>5, <1>6, <1>9, <1>10

LEMMA LoadKeeps == ASSUME IInv, Load, Remember PROVE IInv'
<1> USE DEF IInv
<1>1. /\ next \in 1 .. Len(ReadOrder) /\ Len(loaded) = next - 1
      /\ loaded \in Seq(Content) /\ ReadOrder[next] \in Files
      /\ disk[ReadOrder[next]] \in Contents(ReadOrder[next])
      /\ disk[ReadOrder[next]] \in Content
  BY ReadOrderType DEF Load, TypeOK, Content
<1>2. /\ loaded' \in Seq(Content) /\ Len(loaded') = next
      /\ loaded'[next] = disk[ReadOrder[next]]
      /\ \A i \in 1 .. Len(loaded) : loaded'[i] = loaded[i]
  BY <1>1, ReadOrderType DEF Load
<1>3. UNCHANGED <<disk, latest, aggregate>>
  BY DEF Load
<1>4. coexisted' \in BOOLEAN /\ (coexisted => coexisted')
  BY DEF Remember, TypeOK
<1>5. \A i \in 1 .. Len(loaded') :
        /\ loaded'[i] \in Contents(ReadOrder[i])
        /\ loaded'[i].version \in Nat /\ disk'[ReadOrder[i]].version \in Nat
        /\ loaded'[i].version <= disk'[ReadOrder[i]].version
        /\ loaded'[i].version = disk'[ReadOrder[i]].version
             => loaded'[i] = disk'[ReadOrder[i]]
  <2> SUFFICES ASSUME NEW i \in 1 .. Len(loaded')
               PROVE  /\ loaded'[i] \in Contents(ReadOrder[i])
                      /\ loaded'[i].version \in Nat /\ disk'[ReadOrder[i]].version \in Nat
                      /\ loaded'[i].version <= disk'[ReadOrder[i]].version
                      /\ loaded'[i].version = disk'[ReadOrder[i]].version
                           => loaded'[i] = disk'[ReadOrder[i]]
    OBVIOUS
  <2>1. ReadOrder[i] \in Files /\ disk[ReadOrder[i]] \in Contents(ReadOrder[i])
    BY <1>1, <1>2, ReadOrderType DEF TypeOK
  <2>2. disk[ReadOrder[i]].version \in Nat
    BY <2>1, AggregationAssumption DEF Contents
  <2>3. CASE i = next
    BY <1>2, <1>3, <2>1, <2>2, <2>3
  <2>4. CASE i # next
    <3>1. i \in 1 .. Len(loaded) /\ loaded'[i] = loaded[i]
      BY <1>1, <1>2, <2>4
    <3>2. loaded[i] \in Contents(ReadOrder[i])
      BY <3>1 DEF TypeOK
    <3>3. loaded[i].version \in Nat
      BY <3>2, AggregationAssumption DEF Contents
    <3> QED BY <1>3, <2>2, <3>1, <3>2, <3>3 DEF TypeOK, VersionsName
  <2> QED BY <2>3, <2>4
<1>6. \/ next < Len(ReadOrder) /\ next' = next + 1 /\ pc' = "load"
      \/ next = Len(ReadOrder) /\ next' = 1 /\ pc' = "check"
  BY DEF Load
<1>7. TypeOK'
  <2>1. next' \in 1 .. Len(ReadOrder) /\ Len(loaded') <= Len(ReadOrder)
    BY <1>1, <1>2, <1>6, ReadOrderType
  <2>2. /\ pc' \in {"load", "check"}
        /\ pc' = "load" => Len(loaded') = next' - 1
        /\ pc' = "check" => next' = 1
        /\ pc' \notin {"load", "refused"} => Len(loaded') = Len(ReadOrder)
    BY <1>1, <1>2, <1>6, ReadOrderType
  <2> QED BY <1>2, <1>3, <1>4, <1>5, <2>1, <2>2 DEF TypeOK, Content
<1>8. VersionsName'
  BY <1>5 DEF VersionsName
<1>9. ReplacedIsAhead'
  <2>1. CASE pc' = "load"
    BY <2>1 DEF ReplacedIsAhead
  <2>2. CASE pc' = "check"
    <3> SUFFICES ASSUME ~coexisted'
                 PROVE  \E i \in 1 .. Len(ReadOrder) : Replaced(i)'
      BY <2>2 DEF ReplacedIsAhead
    <3>1. Len(loaded') = Len(ReadOrder)
      BY <1>2, <1>6, <2>2
    <3>2. PICK i \in 1 .. Len(ReadOrder) : disk'[ReadOrder[i]] # loaded'[i]
      BY <3>1 DEF Remember
    <3> QED BY <1>5, <3>1, <3>2 DEF Replaced
  <2> QED BY <1>6, <2>1, <2>2
<1>10. AggregateIsSnapshot'
  BY <1>3, <1>4 DEF AggregateIsSnapshot
<1> QED BY <1>7, <1>8, <1>9, <1>10

(* Steps of the process that leave the files and what was loaded alone.    *)
LEMMA CheckKeeps ==
  ASSUME IInv, Accept \/ Refuse \/ Reread \/ Changed \/ Publish \/ PublishFails, Remember
  PROVE  IInv'
<1> USE DEF IInv
<1>1. UNCHANGED <<disk, latest, loaded>>
  BY DEF Accept, Refuse, Reread, Changed, Publish, PublishFails
<1>2. coexisted' \in BOOLEAN /\ (coexisted => coexisted')
  BY DEF Remember, TypeOK
<1>3. VersionsName'
  BY <1>1 DEF VersionsName
<1>4. \A i \in 1 .. Len(ReadOrder) : Replaced(i) <=> Replaced(i)'
  BY <1>1 DEF Replaced
<1>5. /\ pc' \in {"reread", "write", "done", "refused"}
      /\ next' \in 1 .. Len(ReadOrder)
      /\ pc' # "check"
      /\ pc' # "refused" => Len(loaded') = Len(ReadOrder)
  BY <1>1, ReadOrderType DEF TypeOK, Accept, Refuse, Reread, Changed, Publish, PublishFails
<1>6. TypeOK'
  BY <1>1, <1>2, <1>5 DEF TypeOK
<1>7. ReplacedIsAhead' /\ AggregateIsSnapshot'
  <2>1. CASE Accept
    <3>1. next = 1
      BY <2>1 DEF Accept, TypeOK
    <3> QED BY <1>2, <1>4, <2>1, <3>1 DEF Accept, ReplacedIsAhead, AggregateIsSnapshot
  <2>2. CASE Refuse \/ Changed \/ PublishFails
    BY <1>2, <2>2 DEF Refuse, Changed, PublishFails, ReplacedIsAhead, AggregateIsSnapshot
  <2>3. CASE Reread
    <3>1. next \in 1 .. Len(ReadOrder) /\ ~Replaced(next)
      <4>1. next \in 1 .. Len(ReadOrder) /\ next \in 1 .. Len(loaded)
        BY <2>3 DEF Reread, TypeOK
      <4>2. loaded[next].version \in 0 .. MaxVersion
        BY <4>1 DEF TypeOK, Contents
      <4> QED BY <2>3, <4>1, <4>2, AggregationAssumption DEF Reread, Replaced
    <3>2. CASE coexisted
      BY <1>2, <2>3, <3>2 DEF Reread, ReplacedIsAhead, AggregateIsSnapshot
    <3>3. CASE ~coexisted
      <4>1. PICK i \in next .. Len(ReadOrder) : Replaced(i)
        BY <2>3, <3>3 DEF Reread, ReplacedIsAhead
      <4>2. i # next /\ next < Len(ReadOrder) /\ i \in next + 1 .. Len(ReadOrder)
        BY <3>1, <4>1, ReadOrderType
      <4>3. next' = next + 1 /\ pc' = "reread" /\ aggregate' = aggregate
        BY <2>3, <4>2, ReadOrderType DEF Reread
      <4>4. i \in 1 .. Len(ReadOrder)
        BY <3>1, <4>1, ReadOrderType
      <4> QED BY <1>2, <1>4, <4>1, <4>2, <4>3, <4>4 DEF ReplacedIsAhead, AggregateIsSnapshot
    <3> QED BY <3>2, <3>3
  <2>4. CASE Publish
    BY <1>2, <2>4 DEF Publish, ReplacedIsAhead, AggregateIsSnapshot
  <2> QED BY <2>1, <2>2, <2>3, <2>4
<1> QED BY <1>3, <1>6, <1>7

LEMMA StepKeeps == IInv /\ [Next]_vars => IInv'
<1> SUFFICES ASSUME IInv, [Next]_vars PROVE IInv'
  OBVIOUS
<1>1. CASE Next
  BY <1>1, ReplaceKeeps, LoadKeeps, CheckKeeps DEF Next
<1>2. CASE UNCHANGED vars
  BY <1>2 DEF vars, IInv, TypeOK, VersionsName, ReplacedIsAhead, Replaced,
              AggregateIsSnapshot
<1> QED BY <1>1, <1>2

(* Versions, positions and loaded documents stay what they should be, in   *)
(* particular no document in hand is newer than its file.                  *)
THEOREM Typing == Spec => []TypeOK
<1>1. IInv => TypeOK
  BY DEF IInv
<1> QED BY <1>1, InitIInv, StepKeeps, PTL DEF Spec

(* Whatever is replaced while aggregate_results reads its files, what it   *)
(* publishes was on disk as a whole at one instant.                        *)
THEOREM Snapshot == Spec => []AggregateIsSnapshot
<1>1. IInv => AggregateIsSnapshot
  BY DEF IInv
<1> QED BY <1>1, InitIInv, StepKeeps, PTL DEF Spec
-----------------------------------------------------------------------------
(* What was published is what was checked.                                 *)
Checked ==
  /\ TypeOK
  /\ pc \in {"reread", "write", "done"} => DomainsMatch
  /\ pc # "done" => aggregate = None
  /\ aggregate # None =>
       aggregate = [entries     |-> {loaded[i] : i \in Results},
                    perDomain   |-> PerDomain,
                    crossDomain |-> CrossDomain]

LEMMA InitChecked == Init => Checked
<1> SUFFICES ASSUME Init PROVE Checked
  OBVIOUS
<1>1. TypeOK
  BY InitIInv DEF IInv
<1> QED BY <1>1 DEF Init, Checked

LEMMA StepChecked == Checked /\ TypeOK' /\ [Next]_vars => Checked'
<1> SUFFICES ASSUME Checked, TypeOK', [Next]_vars PROVE Checked'
  OBVIOUS
<1>1. UNCHANGED loaded => (DomainsMatch <=> DomainsMatch')
  BY DEF DomainsMatch
<1>2. UNCHANGED loaded => UNCHANGED <<PerDomain, CrossDomain>>
  BY DEF PerDomain, CrossDomain
<1>3. CASE Next
  <2>1. CASE \E f \in Files : FileReplaced(f)
    BY <1>1, <1>2, <2>1 DEF FileReplaced, Checked
  <2>2. CASE Load
    BY <2>2 DEF Load, Checked
  <2>3. CASE Accept \/ Refuse \/ Reread \/ Changed \/ PublishFails
    BY <1>1, <1>2, <2>3 DEF Accept, Refuse, Reread, Changed, PublishFails, Checked
  <2>4. CASE Publish
    BY <1>1, <1>2, <2>4 DEF Publish, Checked
  <2> QED BY <1>3, <2>1, <2>2, <2>3, <2>4 DEF Next
<1>4. CASE UNCHANGED vars
  BY <1>1, <1>2, <1>4 DEF vars, Checked
<1> QED BY <1>3, <1>4

(* Only a set without anything worse has "passed" as its worst status.     *)
LEMMA WorstPassed ==
  ASSUME NEW S \in SUBSET ResultStatus, S # {}
  PROVE  /\ WorstStatus(S) \in ResultStatus
         /\ WorstStatus(S) = "passed" => \A s \in S : s = "passed"
<1>1. S \in SUBSET Status
  BY DEF ResultStatus
<1>2. /\ WorstStatus(S) \in S
      /\ "error" \in S => WorstStatus(S) = "error"
      /\ "failed" \in S => WorstStatus(S) \in {"failed", "error"}
      /\ "incomplete" \in S => WorstStatus(S) \notin {"passed", "skipped"}
  BY <1>1, WorstStatusAssumption
<1> QED BY <1>2 DEF ResultStatus, Status, AssertionStatus

LEMMA CheckedPasses == Checked => PassedMeansEveryDomain
<1> SUFFICES ASSUME Checked, aggregate # None, RunStatus(aggregate) = "passed"
             PROVE  /\ {e.domain : e \in aggregate.entries} = Domains
                    /\ \A e \in aggregate.entries : e.status = "passed"
                    /\ Qualified => loaded[Len(ReadOrder)].status = "passed"
  BY DEF PassedMeansEveryDomain
<1> DEFINE S == {loaded[i].status : i \in Results}
           last == Len(ReadOrder)
<1>1. /\ TypeOK /\ pc = "done" /\ DomainsMatch
      /\ aggregate.entries = {loaded[i] : i \in Results}
      /\ aggregate.perDomain = PerDomain /\ aggregate.crossDomain = CrossDomain
      /\ Len(loaded) = Len(ReadOrder)
  BY DEF Checked, TypeOK
<1>2. /\ \A i \in Results : i \in 1 .. Len(ReadOrder) /\ ReadOrder[i] \in ResultFiles
      /\ Results # {}
      /\ Qualified => ReadOrder[last] = Qualification
  <2>1. /\ Given \in Seq(ResultFiles) /\ Len(Given) \in Nat \ {0}
        /\ \A i \in 1 .. Len(Given) : Given[i] \in ResultFiles
    BY AggregationAssumption
  <2>2. /\ <<Context>> \o Given \in Seq(Files) /\ Len(<<Context>> \o Given) = 1 + Len(Given)
        /\ \A i \in 2 .. Len(Given) + 1 : (<<Context>> \o Given)[i] = Given[i - 1]
    BY <2>1 DEF Files
  <2>3. CASE Qualified
    <3>1. ReadOrder = (<<Context>> \o Given) \o <<Qualification>>
      BY <2>1, <2>3 DEF ReadOrder, Files
    <3>2. /\ Len(ReadOrder) = Len(Given) + 2 /\ ReadOrder[last] = Qualification
          /\ \A i \in 2 .. Len(Given) + 1 : ReadOrder[i] = Given[i - 1]
      BY <2>1, <2>2, <3>1
    <3> QED BY <2>1, <3>2 DEF Results
  <2>4. CASE ~Qualified
    <3>1. ReadOrder = (<<Context>> \o Given) \o << >>
      BY <2>1, <2>4 DEF ReadOrder, Files
    <3>2. /\ Len(ReadOrder) = Len(Given) + 1
          /\ \A i \in 2 .. Len(Given) + 1 : ReadOrder[i] = Given[i - 1]
      BY <2>1, <2>2, <3>1
    <3> QED BY <2>1, <2>4, <3>2 DEF Results
  <2> QED BY <2>3, <2>4
<1>3. S \in SUBSET ResultStatus /\ S # {}
  <2>1. ASSUME NEW i \in Results PROVE loaded[i].status \in ResultStatus
    <3>1. loaded[i] \in Contents(ReadOrder[i]) /\ ReadOrder[i] # Context
      BY <1>1, <1>2, AggregationAssumption DEF TypeOK
    <3> QED BY <3>1 DEF Contents
  <2> QED BY <1>2, <2>1
<1>4. PerDomain = WorstStatus(S) /\ PerDomain \in ResultStatus
  BY <1>3, WorstPassed DEF PerDomain
<1>5. PerDomain = "passed" /\ (Qualified => loaded[last].status = "passed")
  <2>1. CASE Qualified
    <3>1. loaded[last].status \in ResultStatus
      <4>1. last \in 1 .. Len(loaded) /\ ReadOrder[last] = Qualification
        BY <1>1, <1>2, <2>1, ReadOrderType
      <4>2. loaded[last] \in Contents(Qualification) /\ Qualification # Context
        BY <1>1, <4>1, AggregationAssumption DEF TypeOK
      <4> QED BY <4>2 DEF Contents
    <3> DEFINE both == {PerDomain, loaded[last].status}
    <3>2. both \in SUBSET ResultStatus /\ both # {}
      BY <1>4, <3>1
    <3>3. /\ WorstStatus(both) \in ResultStatus
          /\ WorstStatus(both) = "passed" => \A s \in both : s = "passed"
      <4> HIDE DEF both
      <4> QED BY <3>2, WorstPassed
    <3>4. aggregate.crossDomain = WorstStatus(both)
      BY <1>1, <2>1 DEF CrossDomain
    <3>5. WorstStatus(both) = "passed"
      <4>1. aggregate.crossDomain # "unevaluated"
        BY <3>3, <3>4 DEF ResultStatus, Status, AssertionStatus
      <4> QED BY <3>4, <4>1 DEF RunStatus
    <3> QED BY <3>3, <3>5
  <2>2. CASE ~Qualified
    BY <1>1, <2>2 DEF RunStatus, CrossDomain
  <2> QED BY <2>1, <2>2
<1>6. \A i \in Results : loaded[i].status = "passed"
  <2>1. \A s \in S : s = "passed"
    <3> HIDE DEF S
    <3> QED BY <1>3, <1>4, <1>5, WorstPassed
  <2> QED BY <2>1
<1> QED BY <1>1, <1>5, <1>6 DEF DomainsMatch

(* A run is "passed" only with a passed result of every domain, nothing    *)
(* else beside them, and a passed qualification if one was given.          *)
THEOREM PassedRunIsWhole == Spec => []PassedMeansEveryDomain
<1>1. Spec => []TypeOK
  BY Typing
<1> QED BY <1>1, InitChecked, StepChecked, CheckedPasses, PTL DEF Spec
-----------------------------------------------------------------------------
(* The campaign works on an aggregate that is there and stays as it is.    *)
CampaignInv ==
  /\ stage \in {"context", "done"} => context \in Contents(Context)
  /\ campaign # None =>
       /\ stage = "done" /\ aggregate # None /\ SameContext
       /\ \E others \in OtherRuns :
            campaign = [context |-> context, runs |-> Counts(others),
                        verdict |-> CampaignVerdict(Counts(others))]

RunInv == IInv /\ Checked

(* Once published, an aggregate and what it was computed from are fixed.   *)
LEMMA PublishedIsFixed ==
  ASSUME Checked, aggregate # None, Next
  PROVE  UNCHANGED <<loaded, aggregate>>
<1>1. pc = "done"
  BY DEF Checked
<1> QED
  BY <1>1 DEF Next, FileReplaced, Load, Accept, Refuse, Reread, Changed, Publish, PublishFails

LEMMA CampaignStep ==
  ASSUME RunInv, CampaignInv, [CampaignNext]_<<vars, campaignVars>>
  PROVE  CampaignInv'
<1> USE DEF CampaignInv
<1>1. ASSUME UNCHANGED <<loaded, aggregate, campaignVars>> PROVE CampaignInv'
  BY <1>1 DEF campaignVars, SameContext, Counts
<1>2. CASE Next /\ UNCHANGED campaignVars
  <2>1. CASE aggregate # None
    BY <1>1, <1>2, <2>1, PublishedIsFixed DEF RunInv
  <2>2. CASE aggregate = None
    <3>1. campaign = None
      BY <2>2
    <3> QED
      BY <1>2, <3>1 DEF campaignVars
  <2> QED
    BY <2>1, <2>2
<1>3. CASE LoadContext
  <2>1. disk[Context] \in Contents(Context)
    BY DEF RunInv, IInv, TypeOK, Files
  <2> QED
    BY <1>3, <2>1 DEF LoadContext, vars
<1>4. ASSUME NEW others \in OtherRuns, Summarise(others) PROVE CampaignInv'
  <2>1. /\ stage = "context" /\ stage' = "done" /\ SameContext /\ aggregate # None
        /\ UNCHANGED <<loaded, aggregate, context>>
        /\ campaign' = [context |-> context, runs |-> Counts(others),
                        verdict |-> CampaignVerdict(Counts(others))]
    BY <1>4 DEF Summarise, vars
  <2>2. Counts(others)' = Counts(others) /\ SameContext'
    BY <2>1 DEF Counts, SameContext
  <2> QED
    BY <2>1, <2>2
<1>5. CASE CampaignRefused
  BY <1>5 DEF CampaignRefused, vars
<1>6. CASE UNCHANGED <<vars, campaignVars>>
  BY <1>1, <1>6 DEF vars
<1> QED
  BY <1>2, <1>3, <1>4, <1>5, <1>6 DEF CampaignNext

LEMMA CampaignInvariant == CampaignSpec => [](RunInv /\ CampaignInv)
<1>1. CampaignInit => RunInv /\ CampaignInv
  BY InitIInv, InitChecked DEF CampaignInit, RunInv, CampaignInv
<1>2. RunInv /\ CampaignInv /\ [CampaignNext]_<<vars, campaignVars>> => (RunInv /\ CampaignInv)'
  <2> SUFFICES ASSUME RunInv, CampaignInv, [CampaignNext]_<<vars, campaignVars>>
               PROVE  RunInv' /\ CampaignInv'
    OBVIOUS
  <2>1. [Next]_vars
    BY DEF CampaignNext, LoadContext, Summarise, CampaignRefused
  <2>2. IInv'
    BY <2>1, StepKeeps DEF RunInv
  <2>3. Checked'
    BY <2>1, <2>2, StepChecked DEF RunInv, IInv
  <2> QED
    BY <2>2, <2>3, CampaignStep DEF RunInv
<1> QED
  BY <1>1, <1>2, PTL DEF CampaignSpec

(* Two contexts of one version are one context.                            *)
LEMMA ContextIsLoaded ==
  ASSUME RunInv, CampaignInv, campaign # None
  PROVE  campaign.context = loaded[1] /\ coexisted
<1>1. campaign.context = context /\ context \in Contents(Context) /\ SameContext
  BY DEF CampaignInv
<1>2. aggregate # None /\ pc = "done" /\ coexisted
  BY DEF CampaignInv, RunInv, IInv, Checked, AggregateIsSnapshot
<1>3. ReadOrder[1] = Context /\ Len(loaded) = Len(ReadOrder)
  <2>1. Given \in Seq(ResultFiles) /\ Context \in Files /\ Given \in Seq(Files)
    BY AggregationAssumption DEF Files
  <2>2. ReadOrder[1] = Context
    BY <2>1 DEF ReadOrder, Files
  <2> QED
    BY <1>2, <2>2 DEF RunInv, Checked, TypeOK
<1>4. loaded[1] \in Contents(Context)
  BY <1>3, ReadOrderType DEF RunInv, Checked, TypeOK
<1>5. \A c, d \in Contents(Context) : c.version = d.version => c = d
  BY AggregationAssumption DEF Contents
<1> QED
  BY <1>1, <1>2, <1>4, <1>5 DEF SameContext

(* Whatever is replaced between the aggregate and the campaign, the        *)
(* context a campaign links was on disk together with everything its       *)
(* aggregate was computed from.                                            *)
THEOREM CampaignIsOfOneRun == CampaignSpec => []CampaignLinksOneRun
<1>1. RunInv /\ CampaignInv => CampaignLinksOneRun
  BY ContextIsLoaded DEF CampaignLinksOneRun
<1> QED
  BY <1>1, CampaignInvariant, PTL

(* For any limits and any other runs, a campaign that passes has as many   *)
(* passed runs as it asks for, no more others than it tolerates, and the   *)
(* followed run among the passed ones only if it passed as a whole.        *)
THEOREM CampaignIsEarned == CampaignSpec => []PassedCampaignIsEarned
<1>1. ASSUME RunInv, CampaignInv PROVE PassedCampaignIsEarned
  <2> SUFFICES ASSUME campaign # None, campaign.verdict = "passed"
               PROVE  LET whole == /\ \A i \in Results : loaded[i].status = "passed"
                                   /\ Qualified => loaded[Len(ReadOrder)].status = "passed"
                          against == campaign.runs["failed"] + campaign.runs["incomplete"]
                                       + campaign.runs["error"]
                      IN  /\ campaign.runs["passed"] >= MinPassed
                          /\ whole \/ against >= 1
                          /\ against <= MaxRuns["failed"] + MaxRuns["incomplete"]
                                          + MaxRuns["error"]
    BY DEF PassedCampaignIsEarned
  <2> DEFINE status == RunStatus(aggregate)
             runs   == campaign.runs
  <2>1. PICK others \in OtherRuns :
          /\ runs = Counts(others)
          /\ campaign.verdict = CampaignVerdict(Counts(others))
    <3>1. PICK others \in OtherRuns :
            campaign = [context |-> context, runs |-> Counts(others),
                        verdict |-> CampaignVerdict(Counts(others))]
      BY <1>1 DEF CampaignInv
    <3>2. campaign.runs = Counts(others) /\ campaign.verdict = CampaignVerdict(Counts(others))
      BY <3>1
    <3> QED
      BY <3>2
  <2>2. others \in [RunStatuses -> Nat]
    BY CampaignAssumption
  <2>3. CountedAs(status) \in RunStatuses
        /\ (status # "passed" => CountedAs(status) # "passed")
    BY DEF CountedAs, RunStatuses
  <2>4. /\ runs \in [RunStatuses -> Nat]
        /\ runs[CountedAs(status)] >= 1
    BY <2>1, <2>2, <2>3 DEF Counts
  <2>5. PolicyPassed(runs)
    BY <2>1 DEF CampaignVerdict
  <2>6. /\ runs["passed"] >= MinPassed /\ runs["failed"] <= MaxRuns["failed"]
        /\ runs["incomplete"] <= MaxRuns["incomplete"] /\ runs["error"] <= MaxRuns["error"]
    BY <2>5 DEF PolicyPassed, RunStatuses
  <2>7. \A s \in RunStatuses \ {"passed"} : MaxRuns[s] \in Nat /\ runs[s] \in Nat
    BY <2>4, CampaignAssumption
  <2>8. /\ campaign.runs["passed"] >= MinPassed
         /\ campaign.runs["failed"] + campaign.runs["incomplete"] + campaign.runs["error"]
              <= MaxRuns["failed"] + MaxRuns["incomplete"] + MaxRuns["error"]
    BY <2>6, <2>7 DEF RunStatuses
  <2>9. CASE status = "passed"
    <3>1. /\ aggregate # None /\ PassedMeansEveryDomain
          /\ aggregate.entries = {loaded[i] : i \in Results}
      <4>1. aggregate # None /\ Checked
        BY <1>1 DEF CampaignInv, RunInv
      <4>2. aggregate = [entries     |-> {loaded[i] : i \in Results},
                         perDomain   |-> PerDomain,
                         crossDomain |-> CrossDomain]
        BY <4>1 DEF Checked
      <4>3. aggregate.entries = {loaded[i] : i \in Results}
        BY <4>2
      <4> QED
        BY <4>1, <4>3, CheckedPasses
    <3>2. /\ \A i \in Results : loaded[i].status = "passed"
          /\ Qualified => loaded[Len(ReadOrder)].status = "passed"
      BY <2>9, <3>1 DEF PassedMeansEveryDomain
    <3> QED
      BY <2>8, <3>2, Zenon
  <2>10. CASE status # "passed"
    <3>1. \E s \in RunStatuses \ {"passed"} : runs[s] >= 1
      BY <2>3, <2>4, <2>10
    <3>2. runs["failed"] + runs["incomplete"] + runs["error"] >= 1
      BY <2>7, <3>1 DEF RunStatuses
    <3> QED
      BY <2>6, <2>7, <3>2 DEF RunStatuses
  <2> QED
    BY <2>9, <2>10
<1> QED
  BY <1>1, CampaignInvariant, PTL

=============================================================================
