--------------------------- MODULE LifetimeBudget ---------------------------
(***************************************************************************)
(* The audit of paid acquisition runs, scripts/acquisition-lifetime-       *)
(* budget.mjs: what the run manifests found under the evidence root say    *)
(* has been spent, and whether one more run may be paid for.               *)
(*                                                                         *)
(* A ledger is a function from run directories to manifests; the audit     *)
(* reads the fields state, set (scope.candidate_set_digest) and cost       *)
(* (provider_reported_post_cost_usd) of each.  Money is counted in the     *)
(* smallest unit the code keeps (1e-8 USD), so it is a natural number.     *)
(***************************************************************************)
EXTENDS Naturals, FiniteSets, Functions

CONSTANTS
  Runs,              \* run directories under the evidence root
  LifetimeCap,       \* lifetimeCapUsd
  LegacyCommitted    \* cost of the legacy ledger, summed once and for all

ASSUME BudgetAssumption ==
  /\ IsFiniteSet(Runs)
  /\ LifetimeCap \in Nat \ {0}
  /\ LegacyCommitted \in Nat

\* The manifest states whose charge the audit counts.
CommittedStates ==
  {"submitted", "submitted_with_rejections", "completed", "completed_with_rejections"}

\* Directory `excluded` is the run's own output directory, which the audit skips.
CommittedRuns(ledger, excluded) ==
  {r \in Runs \ {excluded} : ledger[r].state \in CommittedStates}

\* A manifest that does not parse makes the whole audit throw.
AuditThrows(ledger, excluded) ==
  \E r \in Runs \ {excluded} : ledger[r].state = "torn"

CommittedCost(ledger, excluded) ==
  LegacyCommitted
    + SumFunction([r \in Runs |-> IF r \in CommittedRuns(ledger, excluded)
                                    THEN ledger[r].cost
                                    ELSE 0])

\* Faulty variant: what the run itself may cost is left out.
WithinLifetimeCapSoFar(ledger, excluded, planned) ==
  CommittedCost(ledger, excluded) <= LifetimeCap

WithinLifetimeCap(ledger, excluded, planned) ==
  CommittedCost(ledger, excluded) + planned <= LifetimeCap

DuplicateCandidateSet(ledger, excluded, set) ==
  \E r \in CommittedRuns(ledger, excluded) : ledger[r].set = set

\* The two refusals the executor derives from the audit, and the audit's own throw.
AuditAdmits(ledger, excluded, set, planned) ==
  /\ ~AuditThrows(ledger, excluded)
  /\ WithinLifetimeCap(ledger, excluded, planned)
  /\ ~DuplicateCandidateSet(ledger, excluded, set)
=============================================================================
