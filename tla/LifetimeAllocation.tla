------------------------- MODULE LifetimeAllocation -------------------------
(***************************************************************************)
(* buildAcquisitionLifetimeAllocation: the plan that spreads what is left  *)
(* of the lifetime cap over the candidates of all portfolios.              *)
(*                                                                         *)
(* Candidates with one deduplication key are reduced to one, the others    *)
(* are put in the order of their band, in band P2 of their quantile within *)
(* their source sheet, and of their value, and one pass takes each that is *)
(* priced, was not attempted and still fits.  Money is in units of the     *)
(* eighth decimal.  Among candidates that compare equal the identifiers    *)
(* decide: an identifier is its place in their order.                      *)
(***************************************************************************)
EXTENDS Integers, FiniteSets

CONSTANTS
  Portfolio,         \* the candidates there can be
  LifetimeCap,
  Committed,         \* what may have been committed of the cap already
  NoPrice

\* A candidate: its identifier, its tier and value within it, the key it is
\* deduplicated by, the sheet it comes from, its price and whether an attempt was
\* observed.
ASSUME AllocationAssumption ==
  /\ LifetimeCap \in Nat
  /\ Committed \subseteq Nat
  /\ NoPrice \notin Int
  /\ \A row \in Portfolio :
       row.unit \in Int \cup {NoPrice} /\ row.bonus \in 0..50 /\ row.id \in Nat
  /\ \A row, other \in Portfolio : row.id = other.id => row = other

VARIABLES
  committed,
  offered,           \* candidates the deduplication has not looked at
  kept, suppressed,
  allocated,         \* the cumulative selected cost
  chosen, deferred,
  planning           \* "idle", "deduplicating", "allocating" or "refused"

allocationVars ==
  <<committed, offered, kept, suppressed, allocated, chosen, deferred, planning>>

-----------------------------------------------------------------------------
Band(row) ==
  CASE row.tier \in {"payload_gap", "boundary_review_blocker"} -> 0
    [] row.tier \in {"demand_context", "topic_context", "group_proposal_evidence"} -> 1
    [] OTHER -> 2

BaseScore(row) ==
  CASE row.tier = "payload_gap"             -> 500
    [] row.tier = "boundary_review_blocker" -> 400
    [] row.tier = "demand_context"          -> 300
    [] row.tier = "group_proposal_evidence" -> 250
    [] row.tier = "topic_context"           -> 225
    [] OTHER                                -> 100

\* Faulty variant: the value within a tier outweighs the tier.
ScaledScore(row) == BaseScore(row) + 8 * row.bonus

Score(row) == BaseScore(row) + row.bonus

Remaining == LifetimeCap - committed

Priced(row) == row.unit # NoPrice /\ row.unit >= 0

\* Faulty variant: the price is compared with what was left at the start.
FitsAlone(row) == row.unit <= Remaining

Fits(row) == allocated + row.unit <= Remaining

\* The position of a row of band P2 in the order of value of its sheet, and the
\* size of the sheet: the quantile is the one over the other.
Stratum(row) == {other \in kept : Band(other) = 2 /\ other.sheet = row.sheet}
StratumRank(row) ==
  Cardinality({other \in Stratum(row) :
                 \/ Score(other) > Score(row)
                 \/ Score(other) = Score(row) /\ other.id <= row.id})

SmallerQuantile(row, other) ==
  StratumRank(row) * Cardinality(Stratum(other)) < StratumRank(other) * Cardinality(Stratum(row))

DearerThan(row, other) ==
  other.unit # NoPrice /\ (row.unit = NoPrice \/ row.unit > other.unit)

Before(row, other) ==
  \/ Band(row) < Band(other)
  \/ /\ Band(row) = Band(other)
     /\ LET alike == Score(row) = Score(other)
            byValue == \/ Score(row) > Score(other)
                       \/ alike /\ DearerThan(other, row)
                       \/ alike /\ ~DearerThan(row, other) /\ row.id < other.id
        IN IF Band(row) # 2 THEN byValue
           ELSE \/ SmallerQuantile(row, other)
                \/ ~SmallerQuantile(other, row) /\ byValue

-----------------------------------------------------------------------------
AllocationInit ==
  /\ committed = 0
  /\ offered = {} /\ kept = {} /\ suppressed = {}
  /\ allocated = 0
  /\ chosen = {} /\ deferred = {}
  /\ planning = "idle"

\* Charges above the cap make the plan throw.
StartAllocation(rows, cost) ==
  /\ planning = "idle"
  /\ committed' = cost
  /\ offered' = rows
  /\ planning' = IF LifetimeCap > 0 /\ cost <= LifetimeCap THEN "deduplicating" ELSE "refused"
  /\ UNCHANGED <<kept, suppressed, allocated, chosen, deferred>>

Deduplicate(row) ==
  /\ planning = "deduplicating"
  /\ row \in offered
  /\ offered' = offered \ {row}
  /\ LET existing == {other \in kept : other.key = row.key}
         wins == \A other \in existing : Band(row) < Band(other) \/ Score(row) > Score(other)
     IN /\ kept' = IF wins THEN (kept \ existing) \cup {row} ELSE kept
        /\ suppressed' = suppressed \cup (IF wins THEN existing ELSE {row})
  /\ planning' = IF offered' = {} THEN "allocating" ELSE planning
  /\ UNCHANGED <<committed, allocated, chosen, deferred>>

\* The first row left is selected or deferred, for good.
Allocate(row) ==
  /\ planning = "allocating"
  /\ row \in kept \ (chosen \cup deferred)
  /\ \A other \in kept \ (chosen \cup deferred) : ~Before(other, row)
  /\ IF ~row.attempted /\ Priced(row) /\ Fits(row)
     THEN /\ allocated' = allocated + row.unit
          /\ chosen' = chosen \cup {row}
          /\ UNCHANGED deferred
     ELSE /\ deferred' = deferred \cup {row}
          /\ UNCHANGED <<allocated, chosen>>
  /\ UNCHANGED <<committed, offered, kept, suppressed, planning>>

AllocationNext ==
  \/ \E rows \in (SUBSET Portfolio) \ {{}}, cost \in Committed : StartAllocation(rows, cost)
  \/ \E row \in Portfolio : Deduplicate(row) \/ Allocate(row)

AllocationSpec == AllocationInit /\ [][AllocationNext]_allocationVars

-----------------------------------------------------------------------------
\* The plan never spends more than the cap leaves, and one pass is enough: no
\* row deferred for the budget would fit in what the finished plan leaves,
\* although cheaper rows come after dearer ones.
PlanFitsTheBudget ==
  planning = "allocating" =>
    /\ allocated <= Remaining
    /\ \A row \in deferred : ~row.attempted /\ Priced(row) => ~Fits(row)

\* Of candidates with one key the one of the best band is planned, although the
\* comparison also lets a row of a worse band replace it when it scores higher:
\* the scores of the tiers leave no room for that.
BestBandIsKept ==
  \A row \in suppressed :
    \E other \in kept : other.key = row.key /\ Band(other) <= Band(row)
=============================================================================
