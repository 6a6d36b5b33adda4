------------------------------- MODULE MCReport -------------------------------
(* Instances of Report for TLC. *)
EXTENDS Report, FiniteSets

(* The order of severity the tests of the repository show: an error over a *)
(* failure over a gap; a skipped assertion is milder than a passed one.    *)
MCWorst(S) ==
  CHOOSE s \in S : \A t \in S :
    LET rank == [error |-> 4, failed |-> 3, incomplete |-> 2, passed |-> 1, skipped |-> 0]
    IN  rank[t] <= rank[s]

(* Every verdict input over two assertions and three declarations. *)
AllInputs ==
  {in \in [ assertions      : UNION {[D -> AssertionStatus] : D \in SUBSET AssertionIds},
            unevaluated     : {{}, {Authority}, OfflineGaps, Declarations},
            forbiddenPassed : BOOLEAN,
            hardware        : Hardware,
            authorityWithin : BOOLEAN ] :
     in.unevaluated \cap OfflineGaps # {} => in.hardware = "none"}

(* One input per kind of verdict.                                          *)
Live(outcome) ==
  [ assertions      |-> [a \in AssertionIds |-> outcome],
    unevaluated     |-> {},
    forbiddenPassed |-> TRUE,
    hardware        |-> "none",
    authorityWithin |-> TRUE ]

FileInputs == {Live("passed"), Live("failed"), Live("skipped")}
FileDocuments == {NoResult} \cup {ResultDocument(in) : in \in FileInputs}

(* The first invocation is started with any input; those that follow, on   *)
(* what the first has left, with one per kind of verdict.                  *)
Following ==
  run' > 1 =>
    /\ inputs' \in FileInputs
    /\ \A f \in File : disk[f].doc \in FileDocuments

MCSpec == Init /\ [][Next /\ Following]_vars
=============================================================================
