----------------------------- MODULE Aggregation -----------------------------
(***************************************************************************)
(* aggregate_results: one process reads the run context, the result of     *)
(* every domain and the transport qualification, checks that they belong   *)
(* together, folds their statuses, reads everything a second time and      *)
(* publishes the aggregate of the run.  Meanwhile any of the files may be  *)
(* replaced by another invocation: every replacement has content of its    *)
(* own (a new result_id, hence a new digest), which its version stands for.*)
(***************************************************************************)
EXTENDS Verdict, Naturals, Sequences

CONSTANTS
  Domains,        (* domains of the run context                            *)
  ResultFiles,    (* files that hold domain results                        *)
  Given,          (* the files named on the command line, in order         *)
  Context,        (* the run context file                                  *)
  Qualification,  (* the transport qualification file                      *)
  Qualified,      (* is it named on the command line?                      *)
  None,           (* nothing                                               *)
  MaxVersion      (* bound: replacements of files                          *)

ASSUME AggregationAssumption ==
  /\ Given \in Seq(ResultFiles) /\ Given # << >>
  /\ Context \notin ResultFiles /\ Qualification \notin ResultFiles \cup {Context}
  /\ Qualified \in BOOLEAN
  /\ MaxVersion \in Nat

Files == ResultFiles \cup {Context, Qualification}

(* The order in which files are loaded, and re-read at the end.            *)
ReadOrder ==
  <<Context>> \o Given \o (IF Qualified THEN <<Qualification>> ELSE << >>)

VARIABLES
  disk,       (* what each file holds                                      *)
  latest,     (* the latest version written anywhere                       *)
  pc,         (* "load", "check", "reread", "write", or how it ended       *)
  next,       (* position in ReadOrder                                     *)
  loaded,     (* what was loaded, in ReadOrder                             *)
  aggregate,  (* the published aggregate, or None                          *)
  coexisted   (* history: some instant saw all of loaded on disk at once   *)

vars == <<disk, latest, pc, next, loaded, aggregate, coexisted>>

(* What a file can say: a context nothing that is compared here, a         *)
(* qualification its status, a result its domain and status.               *)
Contents(f) ==
  [ version : 0 .. MaxVersion,
    domain  : IF f \in ResultFiles THEN Domains ELSE {None},
    status  : IF f = Context THEN {None} ELSE ResultStatus ]

Init ==
  /\ disk \in [Files -> UNION {Contents(f) : f \in Files}]
  /\ \A f \in Files : disk[f] \in Contents(f) /\ disk[f].version = 0
  /\ latest = 0
  /\ pc = "load"
  /\ next = 1
  /\ loaded = << >>
  /\ aggregate = None
  /\ coexisted = FALSE

Remember ==
  coexisted' = (coexisted \/
    (/\ Len(loaded') = Len(ReadOrder)
     /\ \A i \in 1 .. Len(ReadOrder) : disk'[ReadOrder[i]] = loaded'[i]))

(* verify, transport-evaluate or create-run replaces a file in one step    *)
(* (write_contract_json).                                                  *)
FileReplaced(f) ==
  /\ latest < MaxVersion
  /\ latest' = latest + 1
  /\ \E content \in Contents(f) :
       content.version = latest' /\ disk' = [disk EXCEPT ![f] = content]
  /\ UNCHANGED <<pc, next, loaded, aggregate>>

Load ==
  /\ pc = "load"
  /\ loaded' = Append(loaded, disk[ReadOrder[next]])
  /\ \/ next < Len(ReadOrder) /\ next' = next + 1 /\ UNCHANGED pc
     \/ next = Len(ReadOrder) /\ next' = 1 /\ pc' = "check"
  /\ UNCHANGED <<disk, latest, aggregate>>

(* Positions of the domain results.                                        *)
Results == 2 .. Len(Given) + 1

(* Mutation: the registry check looks for unexpected domains only.         *)
UnexpectedOnly == {loaded[i].domain : i \in Results} \subseteq Domains

(* observed_domains = expected_domains                                     *)
DomainsMatch == {loaded[i].domain : i \in Results} = Domains

(* A result_id is drawn for every result: it is the same only for the same *)
(* version of the same file.                                               *)
ResultIdsUnique ==
  \A i, j \in Results :
    ReadOrder[i] = ReadOrder[j] /\ loaded[i].version = loaded[j].version => i = j

Accept ==
  /\ pc = "check"
  /\ DomainsMatch /\ ResultIdsUnique
  /\ pc' = "reread"
  /\ UNCHANGED <<disk, latest, next, loaded, aggregate>>

(* Not exactly the domains of the run, one result named twice; or a file   *)
(* that is invalid or of another run, scenario, set of domains or time     *)
(* authority, which may happen to any file.                                *)
Refuse ==
  /\ pc \in {"load", "check"}
  /\ pc' = "refused"
  /\ UNCHANGED <<disk, latest, next, loaded, aggregate>>

(* Mutation: only the results are read again.                              *)
RereadResultsOnly ==
  /\ pc = "reread"
  /\ disk[ReadOrder[next]] = loaded[next] \/ next \notin Results
  /\ \/ next < Len(ReadOrder) /\ next' = next + 1 /\ UNCHANGED pc
     \/ next = Len(ReadOrder) /\ UNCHANGED next /\ pc' = "write"
  /\ UNCHANGED <<disk, latest, loaded, aggregate>>

Reread ==
  /\ pc = "reread"
  /\ disk[ReadOrder[next]] = loaded[next]
  /\ \/ next < Len(ReadOrder) /\ next' = next + 1 /\ UNCHANGED pc
     \/ next = Len(ReadOrder) /\ UNCHANGED next /\ pc' = "write"
  /\ UNCHANGED <<disk, latest, loaded, aggregate>>

(* "changed during aggregation"                                            *)
Changed ==
  /\ pc = "reread"
  /\ disk[ReadOrder[next]] # loaded[next]
  /\ pc' = "refused"
  /\ UNCHANGED <<disk, latest, next, loaded, aggregate>>

PerDomain == WorstStatus({loaded[i].status : i \in Results})

CrossDomain ==
  IF Qualified THEN WorstStatus({PerDomain, loaded[Len(ReadOrder)].status})
  ELSE "unevaluated"

Publish ==
  /\ pc = "write"
  /\ aggregate' = [entries     |-> {loaded[i] : i \in Results},
                   perDomain   |-> PerDomain,
                   crossDomain |-> CrossDomain]
  /\ pc' = "done"
  /\ UNCHANGED <<disk, latest, next, loaded>>

(* The contract or the disk refuses it.                                    *)
PublishFails ==
  /\ pc = "write"
  /\ pc' = "refused"
  /\ UNCHANGED <<disk, latest, next, loaded, aggregate>>

Next ==
  /\ \/ \E f \in Files : FileReplaced(f)
     \/ Load
     \/ Accept
     \/ Refuse
     \/ Reread
     \/ Changed
     \/ Publish
     \/ PublishFails
  /\ Remember

Spec == Init /\ [][Next]_vars
-----------------------------------------------------------------------------
(* Every file holds what its kind can say, in the versions written so far; *)
(* what was loaded is what its file can say, and never newer than the file.*)
TypeOK ==
  /\ DOMAIN disk = Files /\ \A f \in Files : disk[f] \in Contents(f)
  /\ latest \in 0 .. MaxVersion /\ \A f \in Files : disk[f].version <= latest
  /\ pc \in {"load", "check", "reread", "write", "done", "refused"}
  /\ next \in 1 .. Len(ReadOrder)
  /\ loaded \in Seq(UNION {Contents(f) : f \in Files}) /\ Len(loaded) <= Len(ReadOrder)
  /\ pc = "load" => Len(loaded) = next - 1
  /\ pc = "check" => next = 1
  /\ pc \notin {"load", "refused"} => Len(loaded) = Len(ReadOrder)
  /\ \A i \in 1 .. Len(loaded) :
       /\ loaded[i] \in Contents(ReadOrder[i])
       /\ loaded[i].version <= disk[ReadOrder[i]].version
  /\ coexisted \in BOOLEAN

(* What the aggregate links was on disk at one and the same instant,       *)
(* although its files are read one after the other while others replace    *)
(* them: everything is loaded first, then everything is hashed again.      *)
AggregateIsSnapshot == aggregate # None => coexisted

(* The status of the run as aggregate_campaign reads it.                   *)
RunStatus(a) == IF a.crossDomain = "unevaluated" THEN a.perDomain ELSE a.crossDomain

(* A run counts as passed only with a passed result for every domain of    *)
(* the run, no other result, and a passed qualification if one was given.  *)
PassedMeansEveryDomain ==
  aggregate # None /\ RunStatus(aggregate) = "passed" =>
    /\ {e.domain : e \in aggregate.entries} = Domains
    /\ \A e \in aggregate.entries : e.status = "passed"
    /\ Qualified => loaded[Len(ReadOrder)].status = "passed"
=============================================================================
