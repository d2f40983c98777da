---------------------------- MODULE SpendLedger ----------------------------
(***************************************************************************)
(* What the paid acquisition scripts promise about money, without files    *)
(* or processes: a candidate set is paid for at most once, and a run is    *)
(* paid for only while the lifetime cap still covers its planned maximum   *)
(* (the two refusals of scripts/execute-acquisition-remediation.mjs).      *)
(* A charge whose reply is lost is known to nobody: neither refusal sees   *)
(* it, so its set may be paid for again and the cap exceeded by it.        *)
(***************************************************************************)
EXTENDS Naturals, Functions

CONSTANTS
  Runs, CandidateSets, PlanMax, LifetimeCap, LegacyCommitted,
  NoSet              \* the candidate set of a run that was never paid for

VARIABLES
  paidSet,           \* the candidate set each run was paid for, or NoSet
  paidCost,          \* what the provider charged for it
  lost               \* the runs whose charge was made and its reply lost

ledgerVars == <<paidSet, paidCost, lost>>

Init ==
  /\ paidSet = [r \in Runs |-> NoSet]
  /\ paidCost = [r \in Runs |-> 0]
  /\ lost = {}

KnownSpent ==
  LegacyCommitted + SumFunction([r \in Runs |-> IF r \in lost THEN 0 ELSE paidCost[r]])

\* One run is charged: the promise is in the two guards.
Pay(r, set, cost) ==
  /\ paidSet[r] = NoSet
  /\ \A other \in Runs \ lost : paidSet[other] # set
  /\ KnownSpent + PlanMax[set] <= LifetimeCap
  /\ cost <= PlanMax[set]
  /\ paidSet' = [paidSet EXCEPT ![r] = set]
  /\ paidCost' = [paidCost EXCEPT ![r] = cost]
  /\ lost' = lost \/ lost' = lost \cup {r}

Next == \E r \in Runs, set \in CandidateSets : \E cost \in 0..PlanMax[set] : Pay(r, set, cost)

Spec == Init /\ [][Next]_ledgerVars
=============================================================================
