----------------------------- MODULE ReportProofs -----------------------------
(***************************************************************************)
(* Proofs about Report and the verdict fold it publishes: every set of     *)
(* verdict inputs, every severity order that keeps WorstStatusAssumption,  *)
(* any number of invocations.                                              *)
(***************************************************************************)
EXTENDS Report, TLAPS

(* The statuses folded are outcomes of assertions.                         *)
LEMMA StatusesTyped ==
  ASSUME NEW in \in VerdictInputs
  PROVE  /\ Statuses(in) \subseteq AssertionStatus
         /\ Statuses(in) \in SUBSET Status
         /\ DOMAIN in.assertions # {} => Statuses(in) # {}
         /\ Skipped(in) \subseteq AssertionIds
<1>1. PICK D \in SUBSET AssertionIds : in.assertions \in [D -> AssertionStatus]
  BY DEF VerdictInputs
<1>2. DOMAIN in.assertions = D
  BY <1>1
<1> QED
  BY <1>1, <1>2 DEF Statuses, Skipped, Status

(* "passed" exactly when nothing can be said against the input.            *)
LEMMA PassedIsClean ==
  ASSUME NEW in \in VerdictInputs
  PROVE  VerdictStatus(in) = "passed" <=> Clean(in)
<1> DEFINE S == Statuses(in)
           w == WorstAssertion(in)
<1>1. CASE DOMAIN in.assertions = {}
  <2>1. w = "incomplete"
    BY <1>1 DEF WorstAssertion
  <2>2. VerdictStatus(in) \in {"incomplete", "failed"}
    BY <2>1 DEF VerdictStatus, SkippedIsIncomplete, ObservationGate, AuthorityGate
  <2> QED
    BY <1>1, <2>2 DEF Clean
<1>2. CASE DOMAIN in.assertions # {}
  <2>1. S # {} /\ S \subseteq AssertionStatus /\ S \in SUBSET Status
    BY <1>2, StatusesTyped
  <2>2. w = WorstStatus(S)
    BY <1>2 DEF WorstAssertion
  <2>3. /\ w \in S
        /\ "error" \in S => w = "error"
        /\ "failed" \in S => w \in {"failed", "error"}
    BY <2>1, <2>2, WorstStatusAssumption
  <2>4. "skipped" \in S <=> Skipped(in) # {}
    BY DEF Statuses, Skipped
  <2>5. ASSUME VerdictStatus(in) = "passed" PROVE Clean(in)
    <3>1. /\ w = "passed" /\ Skipped(in) = {}
          /\ in.forbiddenPassed /\ in.hardware # "outside"
          /\ Gaps(in) = {}
          /\ Authority \notin Gaps(in) => in.authorityWithin
      BY <2>5 DEF VerdictStatus, SkippedIsIncomplete, ObservationGate, AuthorityGate
    <3>2. S = {"passed"}
      BY <2>1, <2>3, <2>4, <3>1 DEF AssertionStatus
    <3> QED
      BY <1>2, <3>1, <3>2 DEF Clean, Gaps
  <2>6. ASSUME Clean(in) PROVE VerdictStatus(in) = "passed"
    <3>1. S = {"passed"} /\ w = "passed" /\ Skipped(in) = {}
      BY <2>3, <2>4, <2>6 DEF Clean
    <3>2. Gaps(in) = {}
      BY <1>2, <2>6, <3>1 DEF Clean, Gaps
    <3> QED
      BY <2>6, <3>1, <3>2
        DEF Clean, VerdictStatus, SkippedIsIncomplete, ObservationGate, AuthorityGate
  <2> QED
    BY <2>5, <2>6
<1> QED
  BY <1>1, <1>2

(* A failure the input contains is never folded into "incomplete".         *)
LEMMA FailureShows ==
  ASSUME NEW in \in VerdictInputs, KnownFailure(in)
  PROVE  VerdictStatus(in) \in {"failed", "error"}
<1> DEFINE S == Statuses(in)
           w == WorstAssertion(in)
<1>1. CASE S \cap {"failed", "error"} # {}
  <2>1. DOMAIN in.assertions # {}
    BY <1>1 DEF Statuses
  <2>2. w \in {"failed", "error"}
    BY <1>1, <2>1, StatusesTyped, WorstStatusAssumption DEF WorstAssertion
  <2> QED
    BY <2>2 DEF VerdictStatus, SkippedIsIncomplete, ObservationGate, AuthorityGate
<1>2. CASE ~in.authorityWithin /\ Authority \notin in.unevaluated
  <2>1. Authority \notin AssertionIds /\ Authority # NoAssertions
    BY AssertionIdsAssumption DEF Declarations, Authority, NoAssertions
  <2>2. Authority \notin Gaps(in)
    BY <1>2, <2>1, StatusesTyped DEF Gaps
  <2> QED
    BY <1>2, <2>2 DEF VerdictStatus, AuthorityGate
<1> QED
  BY <1>1, <1>2 DEF KnownFailure

(* The JUnit report is green exactly for a clean input: both reports are   *)
(* made from one document.                                                 *)
LEMMA GreenIsClean ==
  ASSUME NEW in \in VerdictInputs
  PROVE  Green(JUnitOutcomes(ResultDocument(in))) <=> Clean(in)
<1> DEFINE doc == ResultDocument(in)
<1>1. /\ doc.assertions = in.assertions /\ doc.forbidden = in.forbiddenPassed
      /\ doc.hardware = in.hardware /\ doc.authority = in.authorityWithin
      /\ doc.unevaluated = Gaps(in)
  BY DEF ResultDocument
<1> HIDE DEF doc
<1>2. in.hardware \in {"none", "within", "outside"}
  BY DEF VerdictInputs, Hardware
<1>3. Statuses(in) = {doc.assertions[a] : a \in DOMAIN doc.assertions}
  BY <1>1 DEF Statuses
<1>4. Green(JUnitOutcomes(doc)) <=>
        /\ Statuses(in) \subseteq {"passed"}
        /\ in.forbiddenPassed /\ in.authorityWithin
        /\ in.hardware # "outside"
        /\ Gaps(in) = {}
  <2>1. /\ Outcome(in.forbiddenPassed) = "passed" <=> in.forbiddenPassed
        /\ Outcome(in.authorityWithin) = "passed" <=> in.authorityWithin
        /\ Outcome(in.hardware = "within") = "passed" <=> in.hardware = "within"
    BY DEF Outcome
  <2> QED
    BY <1>1, <1>2, <1>3, <2>1 DEF Green, JUnitOutcomes
<1>5. Statuses(in) \subseteq {"passed"} /\ DOMAIN in.assertions # {} <=>
        Statuses(in) = {"passed"} /\ DOMAIN in.assertions # {}
  BY StatusesTyped
<1>6. Gaps(in) = {} <=>
        in.unevaluated = {} /\ Skipped(in) = {} /\ DOMAIN in.assertions # {}
  BY DEF Gaps
<1>7. Statuses(in) = {"passed"} => Skipped(in) = {}
  BY DEF Statuses, Skipped
<1> QED
  BY <1>4, <1>5, <1>6, <1>7 DEF Clean, doc

(* A result never says skipped.                                            *)
LEMMA VerdictTyped ==
  ASSUME NEW in \in VerdictInputs
  PROVE  VerdictStatus(in) \in ResultStatus
<1> DEFINE w == WorstAssertion(in)
           a == SkippedIsIncomplete(in, w)
           b == ObservationGate(in, a)
<1>1. w \in Status
  <2>1. CASE DOMAIN in.assertions = {}
    BY <2>1 DEF WorstAssertion, Status
  <2>2. CASE DOMAIN in.assertions # {}
    <3>1. Statuses(in) \in SUBSET Status /\ Statuses(in) # {}
      BY <2>2, StatusesTyped
    <3>2. w = WorstStatus(Statuses(in))
      BY <2>2 DEF WorstAssertion
    <3> QED
      BY <3>1, <3>2, WorstStatusAssumption
  <2> QED
    BY <2>1, <2>2
<1>2. a \in ResultStatus
  BY <1>1 DEF SkippedIsIncomplete, ResultStatus, Status
<1>3. b = a \/ b = "failed"
  BY Zenon DEF ObservationGate
<1>4. AuthorityGate(in, b) \in {b, "failed", "incomplete"}
  BY Zenon DEF AuthorityGate
<1>5. AuthorityGate(in, b) \in ResultStatus
  BY <1>2, <1>3, <1>4 DEF ResultStatus, Status, AssertionStatus
<1> QED
  BY <1>5 DEF VerdictStatus

-----------------------------------------------------------------------------
(* The result of an invocation is the document of its own inputs.          *)
ResultIsFold ==
  /\ pc # "idle" => inputs \in Inputs
  /\ pc \in {"stage", "replace", "exit"} => result = ResultDocument(inputs)
  /\ result # NoResult => inputs \in Inputs /\ result = ResultDocument(inputs)

(* What each file holds, by how far the running invocation has come.       *)
Mine == [by |-> run, doc |-> result]

Publication ==
  /\ run \in Nat /\ file \in File
  /\ disk \in [File -> [by : Nat, doc : {NoResult} \cup Documents]]
  /\ \A f \in File : disk[f].by <= run
  /\ disk["junit"].by <= disk["json"].by
  /\ disk["junit"].by = disk["json"].by => disk["junit"].doc = disk["json"].doc
  /\ disk["json"].by # 0 => disk["json"].doc \in Documents
  /\ pc # "idle" => run > 0
  /\ pc = "build" => disk["json"].by < run
  /\ pc \in {"stage", "replace"} =>
       IF file = "json" THEN disk["json"].by < run
       ELSE disk["json"] = Mine /\ disk["junit"].by < run
  /\ pc = "exit" => \A f \in File : disk[f] = Mine
  /\ pc = "idle" /\ exit = "success" =>
       (\A f \in File : disk[f] = Mine) /\ result # NoResult /\ result.status = "passed"

(* Only the temporary file being replaced, or one of a killed invocation,  *)
(* is in the directory.                                                    *)
Temporaries ==
  /\ run \in Nat
  /\ \A t \in temps : t.by \in Nat /\ t.by <= run
  /\ pc \in {"build", "stage", "exit"} => \A t \in temps : t.by # run
  /\ pc = "replace" => \A t \in temps : t.by = run => t = [by |-> run, file |-> file]
  /\ NoLitter

ReportInv == ResultIsFold /\ Publication /\ Temporaries

-----------------------------------------------------------------------------
LEMMA InitInv == Init => ReportInv
BY DEF Init, ReportInv, ResultIsFold, Publication, Temporaries, NoLitter, Absent, File, NoResult

LEMMA FoldStep ==
  ASSUME ResultIsFold, [Next]_vars
  PROVE  ResultIsFold'
BY DEF ResultIsFold, Next, vars, Begin, Build, BuildRefused, Stage, Replace, Proceed, WriteFails,
       Exit, ExitFails, Kill

(* The document written is one of Documents and is not NoResult.           *)
LEMMA ResultTyped ==
  ASSUME ResultIsFold, pc \in {"stage", "replace", "exit"}
  PROVE  result \in Documents /\ result # NoResult
<1>1. result = ResultDocument(inputs) /\ inputs \in Inputs
  BY DEF ResultIsFold
<1>2. result \in Documents
  BY <1>1 DEF Documents
<1>3. "assertions" \in DOMAIN result /\ "assertions" \notin DOMAIN NoResult
  BY <1>1 DEF ResultDocument, NoResult
<1> QED
  BY <1>2, <1>3

LEMMA PublicationStep ==
  ASSUME ResultIsFold, Publication, [Next]_vars
  PROVE  Publication'
<1> USE DEF Publication, Mine, File
<1>1. CASE Begin
  BY <1>1 DEF Begin
<1>2. CASE Build
  BY <1>2 DEF Build
<1>3. CASE BuildRefused \/ WriteFails \/ ExitFails \/ Kill
  BY <1>3 DEF BuildRefused, WriteFails, ExitFails, Kill
<1>4. CASE Stage
  BY <1>4 DEF Stage
<1>5. CASE Replace
  <2>1. /\ pc = "replace" /\ UNCHANGED <<run, inputs, result, exit>>
        /\ disk' = [disk EXCEPT ![file] = Mine] /\ file' = "junit"
        /\ pc' = IF file = "json" THEN "stage" ELSE "exit"
    BY <1>5 DEF Replace, Proceed
  <2>2. result \in Documents
    BY <2>1, ResultTyped
  <2>3. Mine \in [by : Nat, doc : {NoResult} \cup Documents]
    BY <2>2
  <2>4. disk' \in [File -> [by : Nat, doc : {NoResult} \cup Documents]]
    BY <2>1, <2>3
  <2>5. CASE file = "json"
    <3>1. disk'["json"] = Mine /\ disk'["junit"] = disk["junit"] /\ pc' = "stage"
      BY <2>1, <2>5
    <3>2. disk["junit"].by < run /\ disk["junit"].by \in Nat
      BY <2>1, <2>5
    <3> QED
      BY <2>1, <2>2, <2>4, <3>1, <3>2
  <2>6. CASE file = "junit"
    <3>1. disk'["json"] = Mine /\ disk'["junit"] = Mine /\ pc' = "exit"
      BY <2>1, <2>6
    <3> QED
      BY <2>1, <2>2, <2>4, <3>1
  <2> QED
    BY <2>5, <2>6
<1>6. CASE Exit
  <2>1. result # NoResult
    BY <1>6, ResultTyped DEF Exit
  <2> QED
    BY <1>6, <2>1 DEF Exit, ExitCode
<1>7. CASE UNCHANGED vars
  BY <1>7 DEF vars
<1> QED
  BY <1>1, <1>2, <1>3, <1>4, <1>5, <1>6, <1>7 DEF Next

LEMMA TemporariesStep ==
  ASSUME Temporaries, [Next]_vars
  PROVE  Temporaries'
<1> USE DEF Temporaries, NoLitter
<1>1. CASE Begin
  BY <1>1 DEF Begin
<1>2. CASE Build \/ BuildRefused \/ Exit \/ ExitFails
  BY <1>2 DEF Build, BuildRefused, Exit, ExitFails, ExitCode
<1>3. CASE Stage
  BY <1>3 DEF Stage
<1>4. CASE Replace
  BY <1>4 DEF Replace, Proceed
<1>5. CASE WriteFails
  BY <1>5 DEF WriteFails
<1>6. CASE Kill
  BY <1>6 DEF Kill
<1>7. CASE UNCHANGED vars
  BY <1>7 DEF vars
<1> QED
  BY <1>1, <1>2, <1>3, <1>4, <1>5, <1>6, <1>7 DEF Next

LEMMA ReportInvariant == Spec => []ReportInv
<1>1. ReportInv /\ [Next]_vars => ReportInv'
  BY FoldStep, PublicationStep, TemporariesStep DEF ReportInv
<1> QED
  BY <1>1, InitInv, PTL DEF Spec

-----------------------------------------------------------------------------
LEMMA DocumentTyped ==
  ASSUME NEW in \in Inputs
  PROVE  ResultDocument(in) \in Documents /\ ResultDocument(in).status \in ResultStatus
<1>1. ResultDocument(in).status = VerdictStatus(in)
  BY DEF ResultDocument
<1> QED
  BY <1>1, InputsAssumption, VerdictTyped DEF Documents

LEMMA TypeStep ==
  ASSUME TypeOK, ResultIsFold, pc # "idle" => run > 0, [Next]_vars
  PROVE  TypeOK'
<1> USE MaxInvocationsAssumption DEF TypeOK, File, ExitStates
<1>1. CASE Begin
  BY <1>1 DEF Begin
<1>2. CASE Build
  <2>1. inputs \in Inputs
    BY <1>2 DEF Build, ResultIsFold
  <2>2. result' \in Documents /\ result'.status \in ResultStatus
    BY <1>2, <2>1, DocumentTyped DEF Build
  <2> QED
    BY <1>2, <2>2 DEF Build
<1>3. CASE BuildRefused \/ WriteFails \/ ExitFails \/ Kill
  BY <1>3 DEF BuildRefused, WriteFails, ExitFails, Kill
<1>4. CASE Stage
  <2>1. [by |-> run, file |-> file] \in [by : 1 .. MaxInvocations, file : File]
    BY <1>4 DEF Stage
  <2> QED
    BY <1>4, <2>1 DEF Stage
<1>5. CASE Replace
  <2>1. [by |-> run, doc |-> result] \in
          [by : 0 .. MaxInvocations, doc : {NoResult} \cup Documents]
    OBVIOUS
  <2>2. disk' \in [File -> [by : 0 .. MaxInvocations, doc : {NoResult} \cup Documents]]
    BY <1>5, <2>1 DEF Replace
  <2> QED
    BY <1>5, <2>2 DEF Replace, Proceed
<1>6. CASE Exit
  BY <1>6 DEF Exit, ExitCode
<1>7. CASE UNCHANGED vars
  BY <1>7 DEF vars
<1> QED
  BY <1>1, <1>2, <1>3, <1>4, <1>5, <1>6, <1>7 DEF Next

(* The state of any number of invocations stays well formed, and a result  *)
(* never says skipped.                                                     *)
THEOREM Typing == Spec => []TypeOK
<1>1. Init => TypeOK
  BY MaxInvocationsAssumption DEF Init, TypeOK, Absent, File, ExitStates
<1>2. ReportInv /\ TypeOK /\ [Next]_vars => TypeOK'
  BY TypeStep DEF ReportInv, Publication
<1> QED
  BY <1>1, <1>2, ReportInvariant, PTL DEF Spec

(* A verdict is "passed" exactly when nothing can be said against the run. *)
THEOREM PassedOnlyWhenClean == Spec => []PassedExactlyWhenClean
<1>1. ReportInv => PassedExactlyWhenClean
  <2> SUFFICES ASSUME ReportInv, result # NoResult
               PROVE  result.status = "passed" <=> Clean(inputs)
    BY DEF PassedExactlyWhenClean
  <2>1. inputs \in VerdictInputs /\ result.status = VerdictStatus(inputs)
    BY InputsAssumption DEF ReportInv, ResultIsFold, ResultDocument
  <2> QED
    BY <2>1, PassedIsClean
<1> QED
  BY <1>1, ReportInvariant, PTL

(* A gap in the evaluation never hides a failure the inputs contain.       *)
THEOREM FailureNeverMasked == Spec => []GapNeverMasksFailure
<1>1. ReportInv => GapNeverMasksFailure
  <2> SUFFICES ASSUME ReportInv, result # NoResult, KnownFailure(inputs)
               PROVE  result.status \in {"failed", "error"}
    BY DEF GapNeverMasksFailure
  <2>1. inputs \in VerdictInputs /\ result.status = VerdictStatus(inputs)
    BY InputsAssumption DEF ReportInv, ResultIsFold, ResultDocument
  <2> QED
    BY <2>1, FailureShows
<1> QED
  BY <1>1, ReportInvariant, PTL

(* A document's JUnit report is green exactly when its status is "passed". *)
LEMMA GreenIsPassed ==
  ASSUME NEW doc \in Documents
  PROVE  Green(JUnitOutcomes(doc)) <=> doc.status = "passed"
<1>1. PICK in \in Inputs : doc = ResultDocument(in)
  BY DEF Documents
<1>2. in \in VerdictInputs /\ doc.status = VerdictStatus(in)
  BY <1>1, InputsAssumption DEF ResultDocument
<1> QED
  BY <1>1, <1>2, PassedIsClean, GreenIsClean

(* The two reports of one invocation agree, also after failed writes and   *)
(* kills of others.                                                        *)
THEOREM ReportsAgree == Spec => []JUnitAgreesWithJson
<1>1. ReportInv => JUnitAgreesWithJson
  BY GreenIsPassed DEF ReportInv, Publication, JUnitAgreesWithJson
<1> QED
  BY <1>1, ReportInvariant, PTL

(* The JUnit report is never more recent than the JSON result.             *)
THEOREM JUnitFollowsJson == Spec => []JUnitNeverAhead
<1>1. ReportInv => JUnitNeverAhead
  BY DEF ReportInv, Publication, JUnitNeverAhead
<1> QED
  BY <1>1, ReportInvariant, PTL

(* Exit code 0 means both files are published, passed and green.           *)
THEOREM SuccessIsPublished == Spec => []ExitZeroMeansPublished
<1>1. ReportInv => ExitZeroMeansPublished
  <2> SUFFICES ASSUME ReportInv, pc = "idle", exit = "success"
               PROVE  /\ \A f \in File : disk[f] = [by |-> run, doc |-> result]
                      /\ result.status = "passed"
                      /\ Green(JUnitOutcomes(result))
    BY DEF ExitZeroMeansPublished
  <2>1. (\A f \in File : disk[f] = Mine) /\ result # NoResult /\ result.status = "passed"
    BY DEF ReportInv, Publication
  <2>2. result \in Documents
    BY <2>1 DEF ReportInv, ResultIsFold, Documents
  <2> QED
    BY <2>1, <2>2, GreenIsPassed DEF Mine
<1> QED
  BY <1>1, ReportInvariant, PTL

(* Only a killed invocation leaves a temporary file.                       *)
THEOREM NothingLeftBehind == Spec => []NoLitter
<1>1. ReportInv => NoLitter
  BY DEF ReportInv, Temporaries
<1> QED
  BY <1>1, ReportInvariant, PTL
=============================================================================
