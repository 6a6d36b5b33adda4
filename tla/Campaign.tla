------------------------------- MODULE Campaign -------------------------------
(***************************************************************************)
(* aggregate_campaign on the aggregate that aggregate_results publishes:   *)
(* it loads the run context and the aggregate of every run, while the      *)
(* files may be replaced, counts the runs by status and holds the counts   *)
(* to the limits of the campaign.  One run is followed in detail; of the   *)
(* others only the numbers matter.                                         *)
(***************************************************************************)
EXTENDS Aggregation

CONSTANTS
  OtherRuns,   (* how many other runs of each status there may be          *)
  MinPassed,   (* minimum_passed_runs                                      *)
  MaxRuns      (* per other status: maximum_..._runs                       *)

RunStatuses == {"passed", "failed", "incomplete", "error"}

ASSUME CampaignAssumption ==
  /\ OtherRuns \subseteq [RunStatuses -> Nat]
  /\ MinPassed \in Nat /\ MaxRuns \in [RunStatuses \ {"passed"} -> Nat]

VARIABLES
  stage,     (* "start", "context", "done" or "refused"                    *)
  context,   (* the run context the campaign loaded                        *)
  campaign   (* the published campaign summary, or None                    *)

campaignVars == <<stage, context, campaign>>

CampaignInit == Init /\ stage = "start" /\ context = None /\ campaign = None

(* The contexts are loaded first, whether or not there is an aggregate yet.*)
LoadContext ==
  /\ stage = "start"
  /\ context' = disk[Context]
  /\ stage' = "context"
  /\ UNCHANGED <<vars, campaign>>

(* Mutation: the digest of the run context is not compared.                *)
AnyContext == TRUE

(* The aggregate links the digest of the context it was computed with.     *)
SameContext == context.version = loaded[1].version

(* A status that is none of the four counts as incomplete.                 *)
CountedAs(status) == IF status \in RunStatuses THEN status ELSE "incomplete"

Counts(others) == [others EXCEPT ![CountedAs(RunStatus(aggregate))] = @ + 1]

(* Mutation: incomplete runs are not limited.                              *)
IncompleteTolerated(counts) ==
  /\ counts["passed"] >= MinPassed
  /\ \A s \in {"failed", "error"} : counts[s] <= MaxRuns[s]

PolicyPassed(counts) ==
  /\ counts["passed"] >= MinPassed
  /\ \A s \in RunStatuses \ {"passed"} : counts[s] <= MaxRuns[s]

(* The verdict of a campaign that misses its policy: the most severe of    *)
(* the statuses its runs have.                                             *)
CampaignVerdict(counts) ==
  IF PolicyPassed(counts) THEN "passed"
  ELSE IF counts["error"] > 0 THEN "error"
  ELSE IF counts["failed"] > 0 \/ counts["incomplete"] = 0 THEN "failed"
  ELSE "incomplete"

(* Then the aggregate, which is compared and counted.                      *)
Summarise(others) ==
  /\ stage = "context" /\ aggregate # None
  /\ SameContext
  /\ campaign' = [context |-> context, runs |-> Counts(others),
                  verdict |-> CampaignVerdict(Counts(others))]
  /\ stage' = "done"
  /\ UNCHANGED <<vars, context>>

(* No aggregate, another context, or runs, identifiers or parameters that  *)
(* do not match.                                                           *)
CampaignRefused ==
  /\ stage \in {"start", "context"}
  /\ stage' = "refused"
  /\ UNCHANGED <<vars, context, campaign>>

CampaignNext ==
  \/ Next /\ UNCHANGED campaignVars
  \/ LoadContext
  \/ \E others \in OtherRuns : Summarise(others)
  \/ CampaignRefused

CampaignSpec == CampaignInit /\ [][CampaignNext]_<<vars, campaignVars>>
-----------------------------------------------------------------------------
(* What a campaign links as one run was one run: the context it links was  *)
(* on disk at the same instant as the results and the qualification the    *)
(* aggregate was computed from, whatever replaced the files since.         *)
CampaignLinksOneRun ==
  campaign # None => coexisted /\ campaign.context = loaded[1]

(* A campaign passes on runs that really passed: among those it counts as  *)
(* passed the followed one is only if every domain and the qualification   *)
(* passed, and a run that did not is counted against one of the limits, so *)
(* with the limits at their default of zero every run passed.              *)
PassedCampaignIsEarned ==
  campaign # None /\ campaign.verdict = "passed" =>
    LET whole == /\ \A i \in Results : loaded[i].status = "passed"
                 /\ Qualified => loaded[Len(ReadOrder)].status = "passed"
        against == campaign.runs["failed"] + campaign.runs["incomplete"]
                     + campaign.runs["error"]
    IN  /\ campaign.runs["passed"] >= MinPassed
        /\ whole \/ against >= 1
        /\ against <= MaxRuns["failed"] + MaxRuns["incomplete"] + MaxRuns["error"]
=============================================================================
