----------------------------- MODULE EnrichmentRun -----------------------------
(***************************************************************************)
(* acquire-data-provider-b-enrichment: a paid run posts the jobs of its    *)
(* plan one by one, keeps each reply and writes the manifest again after   *)
(* each; loadDataProviderBEnrichmentEvidence reads the result.             *)
(*                                                                         *)
(* Each start has a directory of its own, and nothing resumes one.  Any    *)
(* step may be the last, and a death while the manifest is written leaves  *)
(* it torn.  The provider may charge more than was estimated.  What the    *)
(* replies say of the keywords is left out.                                *)
(***************************************************************************)
EXTENDS Naturals, Sequences, SequencesExt

CONSTANTS
  EnrichmentRuns,
  JobCount,          \* the jobs of the plan that were selected
  EstimatedMax,      \* what the plan estimates they cost together
  Ceilings,          \* the ceilings that may be declared
  JobCosts,          \* what the provider may charge for a job
  StartBalance,      \* what the account holds at first
  NoManifest, Torn

ASSUME EnrichmentAssumption ==
  /\ JobCount \in Nat \ {0} /\ EstimatedMax \in Nat /\ StartBalance \in Nat
  /\ Ceilings \subseteq Nat /\ JobCosts \subseteq Nat

VARIABLES
  runner,            \* of each run where the script is and the ceiling it was given
  replied,           \* of each run the costs in the replies the script has read
  rawReplies,        \* of each run how many replies it has kept
  manifests,         \* of each run its manifest.json
  charged            \* of each run what the provider charged, job by job

enrichmentVars == <<runner, replied, rawReplies, manifests, charged>>

-----------------------------------------------------------------------------
Total(costs) == FoldSeq(LAMBDA cost, sum : cost + sum, 0, costs)

Balance ==
  LET spent == FoldFunction(+, 0, [run \in EnrichmentRuns |-> Total(charged[run])])
  IN IF spent > StartBalance THEN 0 ELSE StartBalance - spent

Manifest(run, status) ==
  [status |-> status, jobs |-> replied[run], ceiling |-> runner[run].ceiling]

Save(run, status) == manifests' = [manifests EXCEPT ![run] = Manifest(run, status)]

Goto(run, step) == runner' = [runner EXCEPT ![run].at = step]

-----------------------------------------------------------------------------
EnrichmentInit ==
  /\ runner = [run \in EnrichmentRuns |-> [at |-> "idle", ceiling |-> 0]]
  /\ replied = [run \in EnrichmentRuns |-> <<>>]
  /\ rawReplies = [run \in EnrichmentRuns |-> 0]
  /\ manifests = [run \in EnrichmentRuns |-> NoManifest]
  /\ charged = [run \in EnrichmentRuns |-> <<>>]

\* The ceiling has to cover the estimate, and the balance the ceiling.
StartRun(run, ceiling) ==
  /\ runner[run].at = "idle"
  /\ ceiling >= EstimatedMax
  /\ Balance >= ceiling
  /\ runner' = [runner EXCEPT ![run] = [at |-> "opening", ceiling |-> ceiling]]
  /\ UNCHANGED <<replied, rawReplies, manifests, charged>>

SaveFirst(run) ==
  /\ runner[run].at = "opening"
  /\ Save(run, "running")
  /\ Goto(run, "posting")
  /\ UNCHANGED <<replied, rawReplies, charged>>

\* The provider charges for the job and answers.
PostJob(run, cost) ==
  /\ runner[run].at = "posting"
  /\ Len(replied[run]) < JobCount
  /\ charged' = [charged EXCEPT ![run] = Append(@, cost)]
  /\ Goto(run, "answered")
  /\ UNCHANGED <<replied, rawReplies, manifests>>

\* A request that is refused, or whose answer is lost although it was charged,
\* ends the run.
LoseJob(run, costs) ==
  /\ runner[run].at = "posting"
  /\ Len(replied[run]) < JobCount
  /\ charged' = [charged EXCEPT ![run] = @ \o costs]
  /\ Goto(run, "stopped")
  /\ UNCHANGED <<replied, rawReplies, manifests>>

KeepReply(run) ==
  /\ runner[run].at = "answered"
  /\ rawReplies' = [rawReplies EXCEPT ![run] = @ + 1]
  /\ replied' = [replied EXCEPT ![run] = Append(@, Last(charged[run]))]
  /\ Goto(run, "kept")
  /\ UNCHANGED <<manifests, charged>>

\* Faulty variant: the costs are written once, at the end.
SaveAtEnd(run) == UNCHANGED manifests

SaveJob(run) == Save(run, "running")

\* The ceiling is looked at when the job is on record.
RecordJob(run) ==
  /\ runner[run].at = "kept"
  /\ SaveJob(run)
  /\ Goto(run, IF Total(replied[run]) > runner[run].ceiling THEN "exceeded" ELSE "posting")
  /\ UNCHANGED <<replied, rawReplies, charged>>

StopAboveCeiling(run) ==
  /\ runner[run].at = "exceeded"
  /\ Save(run, "cost_ceiling_exceeded")
  /\ Goto(run, "stopped")
  /\ UNCHANGED <<replied, rawReplies, charged>>

AllRecorded(run) == runner[run].at = "posting" /\ Len(replied[run]) = JobCount

CompleteRun(run) ==
  /\ AllRecorded(run)
  /\ Save(run, "complete")
  /\ Goto(run, "ended")
  /\ UNCHANGED <<replied, rawReplies, charged>>

CrashRun(run) ==
  /\ runner[run].at \notin {"idle", "stopped", "ended"}
  /\ Goto(run, "stopped")
  /\ \/ UNCHANGED manifests
     \/ /\ runner[run].at \in {"opening", "kept", "exceeded"} \/ AllRecorded(run)
        /\ manifests' = [manifests EXCEPT ![run] = Torn]
  /\ UNCHANGED <<replied, rawReplies, charged>>

EnrichmentNext ==
  \E run \in EnrichmentRuns :
    \/ \E ceiling \in Ceilings : StartRun(run, ceiling)
    \/ SaveFirst(run)
    \/ \E cost \in JobCosts : PostJob(run, cost)
    \/ \E costs \in {<<>>} \cup {<<cost>> : cost \in JobCosts} : LoseJob(run, costs)
    \/ KeepReply(run) \/ RecordJob(run) \/ StopAboveCeiling(run) \/ CompleteRun(run)
    \/ CrashRun(run)

EnrichmentSpec == EnrichmentInit /\ [][EnrichmentNext]_enrichmentVars

-----------------------------------------------------------------------------
Readable(run) == manifests[run] \notin {NoManifest, Torn}

\* The loader takes complete manifests whose replies are all there.
LoadsEnrichment(run) ==
  /\ Readable(run)
  /\ manifests[run].status = "complete"
  /\ Len(manifests[run].jobs) <= rawReplies[run]

\* A manifest that can be read reports every charge of its run but the last one
\* at most, whenever the script died; no job is posted once the charges are above
\* the ceiling, so the run exceeds it by less than one job; and evidence that
\* loads has all jobs and all charges.
ChargesAreKnownButForOneJob ==
  \A run \in EnrichmentRuns :
    /\ Readable(run) =>
         /\ IsPrefix(manifests[run].jobs, charged[run])
         /\ Len(charged[run]) <= Len(manifests[run].jobs) + 1
    /\ charged[run] # <<>> => Total(Front(charged[run])) <= runner[run].ceiling
    /\ LoadsEnrichment(run) =>
         Len(charged[run]) = JobCount /\ manifests[run].jobs = charged[run]
=============================================================================
