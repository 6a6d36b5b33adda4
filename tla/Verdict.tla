------------------------------- MODULE Verdict -------------------------------
(***************************************************************************)
(* The verdict of one domain: how build_acceptance_result folds assertion  *)
(* outcomes, declared gaps, the forbidden graph, the hardware clock and    *)
(* the time authority into one status, how write_junit_xml turns the same  *)
(* result into test cases, and which exit code main derives from it.       *)
(* Everything here is a pure operator; Report and Verification run it.     *)
(***************************************************************************)

CONSTANTS
  AssertionIds,    (* identifiers an evaluator may use for its assertions  *)
  WorstStatus(_)   (* worst_status of robotics_runtime_contracts: the most *)
                   (* severe member of a non-empty set of statuses         *)

AssertionStatus == {"passed", "failed", "error", "skipped"}
Status == AssertionStatus \cup {"incomplete"}
ResultStatus == Status \ {"skipped"}    (* what a result may say            *)

(***************************************************************************)
(* The contracts package owns the order of severity.  The code relies on   *)
(* no more than this: the worst status is a member of the set, nothing     *)
(* milder than an error hides an error, nothing milder than a failure      *)
(* hides a failure.  Whether "skipped" is milder than "passed" is left     *)
(* open, as it is in the code, which handles both.                         *)
(***************************************************************************)
ASSUME WorstStatusAssumption ==
  \A S \in SUBSET Status : S # {} =>
    /\ WorstStatus(S) \in S
    /\ "error" \in S => WorstStatus(S) = "error"
    /\ "failed" \in S => WorstStatus(S) \in {"failed", "error"}
    /\ "incomplete" \in S => WorstStatus(S) \notin {"passed", "skipped"}

-----------------------------------------------------------------------------
(* Declarations a caller can mark as not evaluated.  The four offline ones *)
(* are those of evaluate_from_evidence.                                    *)

Authority == "$.time_authority_observation"
NoAssertions == "$.assertions"
OfflineGaps == {"$.clock_observation", "$.forbidden_graph_observation",
                "$.observed_ros_graph", "$.shutdown"}
Declarations == OfflineGaps \cup {Authority}

(* "$.assertions.<id>" is never one of the paths above. *)
ASSUME AssertionIdsAssumption ==
  AssertionIds \cap (Declarations \cup {NoAssertions}) = {}

Hardware == {"none", "within", "outside"}   (* simulation has no hardware clock *)

(* What build_acceptance_result receives. *)
VerdictInputs ==
  [ assertions      : UNION {[D -> AssertionStatus] : D \in SUBSET AssertionIds},
    unevaluated     : SUBSET Declarations,
    forbiddenPassed : BOOLEAN,
    hardware        : Hardware,
    authorityWithin : BOOLEAN ]

Statuses(in) == {in.assertions[a] : a \in DOMAIN in.assertions}
Skipped(in) == {a \in DOMAIN in.assertions : in.assertions[a] = "skipped"}

(* effective_unevaluated: a skipped assertion, or having none, is a gap. *)
Gaps(in) ==
  in.unevaluated \cup Skipped(in)
    \cup (IF DOMAIN in.assertions = {} THEN {NoAssertions} ELSE {})

WorstAssertion(in) ==
  IF DOMAIN in.assertions = {} THEN "incomplete" ELSE WorstStatus(Statuses(in))

SkippedIsIncomplete(in, status) ==
  IF status = "skipped" \/ (status = "passed" /\ Skipped(in) # {})
  THEN "incomplete" ELSE status

(* Mutation: the hardware clock is consulted only when the graph is clean. *)
HardwareIgnored(in, status) ==
  IF status = "passed" /\ ~in.forbiddenPassed THEN "failed" ELSE status

ObservationGate(in, status) ==
  IF status = "passed" /\ (~in.forbiddenPassed \/ in.hardware = "outside")
  THEN "failed" ELSE status

(* Mutation: gaps are looked at first, and mask what they should not. *)
GapsFirst(in, status) ==
  IF Gaps(in) # {} THEN "incomplete"
  ELSE IF status # "error" /\ ~in.authorityWithin THEN "failed"
  ELSE status

AuthorityGate(in, status) ==
  IF status # "error" /\ Authority \notin Gaps(in) /\ ~in.authorityWithin
  THEN "failed"
  ELSE IF status = "passed" /\ Gaps(in) # {} THEN "incomplete" ELSE status

(* The fold, in the order of the code. *)
VerdictStatus(in) ==
  AuthorityGate(in,
    ObservationGate(in, SkippedIsIncomplete(in, WorstAssertion(in))))

(* The parts of the result document that the reports read. *)
ResultDocument(in) ==
  [ status      |-> VerdictStatus(in),
    assertions  |-> in.assertions,
    forbidden   |-> in.forbiddenPassed,
    hardware    |-> in.hardware,
    authority   |-> in.authorityWithin,
    unevaluated |-> Gaps(in) ]

-----------------------------------------------------------------------------
(* The JUnit report: one case per assertion, then the derived cases.       *)

Outcome(ok) == IF ok THEN "passed" ELSE "failed"

(* Mutation: no coverage case for what was not evaluated. *)
JUnitWithoutCoverage(doc) ==
  {doc.assertions[a] : a \in DOMAIN doc.assertions}
    \cup {Outcome(doc.forbidden), Outcome(doc.authority)}
    \cup (IF doc.hardware = "none" THEN {} ELSE {Outcome(doc.hardware = "within")})

JUnitOutcomes(doc) ==
  {doc.assertions[a] : a \in DOMAIN doc.assertions}
    \cup {Outcome(doc.forbidden), Outcome(doc.authority)}
    \cup (IF doc.hardware = "none" THEN {} ELSE {Outcome(doc.hardware = "within")})
    \cup (IF doc.unevaluated # {} THEN {"failed"} ELSE {})

Green(outcomes) == outcomes \subseteq {"passed"}

(* 0 for a passed verdict, 1 for any other. *)
ExitCode(status) == IF status = "passed" THEN "success" ELSE "nonpassing"

-----------------------------------------------------------------------------
(* What a reader of a verdict may rely on, over every input.               *)

(* An input nothing can be said against. *)
Clean(in) ==
  /\ DOMAIN in.assertions # {}
  /\ Statuses(in) = {"passed"}
  /\ in.unevaluated = {}
  /\ in.forbiddenPassed
  /\ in.hardware # "outside"
  /\ in.authorityWithin

(* The most severe complaint the input itself contains. *)
KnownFailure(in) ==
  \/ Statuses(in) \cap {"failed", "error"} # {}
  \/ ~in.authorityWithin /\ Authority \notin in.unevaluated
=============================================================================
