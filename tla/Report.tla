-------------------------------- MODULE Report --------------------------------
(***************************************************************************)
(* How one domain's verdict reaches disk.  Invocations of verify or        *)
(* evaluate follow each other on one output directory; each builds a       *)
(* result, replaces acceptance-result.json, then replaces junit.xml, each  *)
(* through a temporary file, and exits.  A write may raise at any point    *)
(* and the process may be killed between any two steps.  The exit codes 0, *)
(* 1 and 2 are "success", "nonpassing" and "error".                        *)
(***************************************************************************)
EXTENDS Verdict, Naturals

CONSTANTS
  Inputs,           (* the verdict inputs the invocations are started with *)
  MaxInvocations    (* bound: invocations on the directory                 *)

ASSUME InputsAssumption == Inputs \subseteq VerdictInputs
ASSUME MaxInvocationsAssumption == MaxInvocations \in Nat \ {0}

VARIABLES
  pc,        (* where the running invocation is; "idle" between two        *)
  file,      (* the file it writes, while it stages or replaces one        *)
  run,       (* number of the latest invocation                            *)
  inputs,    (* its verdict inputs                                         *)
  result,    (* the document it built, or NoResult                         *)
  exit,      (* how the latest invocation ended                            *)
  disk,      (* the two published files: who wrote them, from what         *)
  temps      (* temporary files in the directory                           *)

vars == <<pc, file, run, inputs, result, exit, disk, temps>>

File == {"json", "junit"}
ExitStates == {"running", "success", "nonpassing", "error", "killed"}
NoInputs == [assertions |-> << >>]
NoResult == [status |-> "none"]
Documents == {ResultDocument(in) : in \in Inputs}
Absent == [by |-> 0, doc |-> NoResult]

Init ==
  /\ pc = "idle"
  /\ file = "json"
  /\ run = 0
  /\ inputs = NoInputs
  /\ result = NoResult
  /\ exit = "running"
  /\ disk = [f \in File |-> Absent]
  /\ temps = {}

Begin ==
  /\ pc = "idle"
  /\ run < MaxInvocations
  /\ run' = run + 1
  /\ inputs' \in Inputs
  /\ result' = NoResult
  /\ exit' = "running"
  /\ pc' = "build"
  /\ UNCHANGED <<file, disk, temps>>

(* Mutation: the JUnit report is written first. *)
BuildJUnitFirst ==
  /\ pc = "build"
  /\ result' = ResultDocument(inputs)
  /\ pc' = "stage"
  /\ file' = "junit"
  /\ UNCHANGED <<run, inputs, exit, disk, temps>>

Build ==
  /\ pc = "build"
  /\ result' = ResultDocument(inputs)
  /\ pc' = "stage"
  /\ file' = "json"
  /\ UNCHANGED <<run, inputs, exit, disk, temps>>

(* Evidence of another run, hardware timing missing or unexpected for the  *)
(* target environment, or a document the contracts reject: main exits 2.   *)
BuildRefused ==
  /\ pc = "build"
  /\ exit' = "error"
  /\ pc' = "idle"
  /\ UNCHANGED <<file, run, inputs, result, disk, temps>>

(* mkstemp and the write into it; every later step can raise. *)
Stage ==
  /\ pc = "stage"
  /\ temps' = temps \cup {[by |-> run, file |-> file]}
  /\ pc' = "replace"
  /\ UNCHANGED <<file, run, inputs, result, exit, disk>>

(* After acceptance-result.json comes junit.xml, then the exit. *)
Proceed ==
  /\ pc' = IF file = "json" THEN "stage" ELSE "exit"
  /\ file' = "junit"

(* os.replace: the destination changes in one step. *)
Replace ==
  /\ pc = "replace"
  /\ disk' = [disk EXCEPT ![file] = [by |-> run, doc |-> result]]
  /\ temps' = temps \ {[by |-> run, file |-> file]}
  /\ Proceed
  /\ UNCHANGED <<run, inputs, result, exit>>

(* Mutation: the handler forgets the temporary file. *)
WriteFailsNoUnlink ==
  /\ pc = "replace"
  /\ exit' = "error"
  /\ pc' = "idle"
  /\ UNCHANGED <<file, run, inputs, result, disk, temps>>

(* Mutation: a report that cannot be written is ignored. *)
WriteFailsIgnored ==
  /\ pc = "replace"
  /\ temps' = temps \ {[by |-> run, file |-> file]}
  /\ Proceed
  /\ UNCHANGED <<run, inputs, result, exit, disk>>

(* Creating, writing or replacing raises: the temporary file is unlinked   *)
(* and the exception reaches main.                                         *)
WriteFails ==
  /\ pc \in {"stage", "replace"}
  /\ temps' = temps \ {[by |-> run, file |-> file]}
  /\ exit' = "error"
  /\ pc' = "idle"
  /\ UNCHANGED <<file, run, inputs, result, disk>>

Exit ==
  /\ pc = "exit"
  /\ exit' = ExitCode(result.status)
  /\ pc' = "idle"
  /\ UNCHANGED <<file, run, inputs, result, disk, temps>>

(* Printing the outcome raises: the reports are there, but main exits 2.   *)
ExitFails ==
  /\ pc = "exit"
  /\ exit' = "error"
  /\ pc' = "idle"
  /\ UNCHANGED <<file, run, inputs, result, disk, temps>>

(* The process dies: no handler runs. *)
Kill ==
  /\ pc # "idle"
  /\ exit' = "killed"
  /\ pc' = "idle"
  /\ UNCHANGED <<file, run, inputs, result, disk, temps>>

Next ==
  \/ Begin
  \/ Build
  \/ BuildRefused
  \/ Stage
  \/ Replace
  \/ WriteFails
  \/ Exit
  \/ ExitFails
  \/ Kill

Spec == Init /\ [][Next]_vars
-----------------------------------------------------------------------------
(* Shapes of the state: program counter, numbering, and what a file holds. *)
TypeOK ==
  /\ pc \in {"idle", "build", "stage", "replace", "exit"}
  /\ file \in File
  /\ run \in 0 .. MaxInvocations
  /\ inputs \in {NoInputs} \cup Inputs
  /\ result \in {NoResult} \cup Documents
  /\ result # NoResult => result.status \in ResultStatus
  /\ exit \in ExitStates
  /\ disk \in [File -> [by  : 0 .. MaxInvocations,
                        doc : {NoResult} \cup Documents]]
  /\ temps \subseteq [by : 1 .. MaxInvocations, file : File]

(* A verdict is "passed" exactly when nothing can be said against the run: *)
(* some assertion exists, all passed, nothing was left unevaluated and     *)
(* every observation is within policy.  build_acceptance_result reaches    *)
(* this through four successive overrides of one status variable.          *)
PassedExactlyWhenClean ==
  result # NoResult => (result.status = "passed" <=> Clean(inputs))

(* A gap in the evaluation never hides a failed assertion, an error or an  *)
(* out-of-policy time authority behind "incomplete".                       *)
GapNeverMasksFailure ==
  result # NoResult /\ KnownFailure(inputs) => result.status \in {"failed", "error"}

(* Both files of one invocation tell the same story: the JUnit report is   *)
(* green exactly when acceptance-result.json says "passed".                *)
JUnitAgreesWithJson ==
  disk["json"].by = disk["junit"].by /\ disk["json"].by # 0 =>
    (Green(JUnitOutcomes(disk["junit"].doc)) <=> disk["json"].doc.status = "passed")

(* A JUnit report never exists without a JSON result at least as recent,   *)
(* whatever write fails and whenever the process is killed.                *)
JUnitNeverAhead == disk["junit"].by <= disk["json"].by

(* Exit code 0 is a promise about the directory: both files are those of   *)
(* this invocation, the verdict is "passed" and the report is green.       *)
ExitZeroMeansPublished ==
  pc = "idle" /\ exit = "success" =>
    /\ \A f \in File : disk[f] = [by |-> run, doc |-> result]
    /\ result.status = "passed"
    /\ Green(JUnitOutcomes(result))

(* An invocation that was not killed leaves no temporary file behind.      *)
NoLitter ==
  pc = "idle" /\ exit # "killed" => \A t \in temps : t.by # run
=============================================================================
