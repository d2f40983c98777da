-------------------------- MODULE ProjectionProofs --------------------------
(***************************************************************************)
(* Proofs about the projections that plan and audit: what is bought, what  *)
(* it is grouped into, what it cost, and what the audits say of it.        *)
(***************************************************************************)
EXTENDS KeywordClustering, LifetimeAllocation, EnrichmentRun, CapabilityAttestation,
        SerpDepthInventory, SerpDbRetention, SumProofs, SequenceTheorems

-----------------------------------------------------------------------------
(* KeywordClustering, for every set of keywords, records, scopes and         *)
(* thresholds.                                                               *)
(*                                                                           *)
(* That the clusters are complete is inductive.  That none is left to be     *)
(* merged needs what the loop leaves behind: a linked pair it has taken whose *)
(* keywords are in two clusters has shown an unlinked pair between these two, *)
(* and no later merge takes an unlinked pair away.                           *)

Disjoint == \A one, other \in clusters : one \cap other # {} => one = other

Taken(left, right) ==
  left # right /\ LikelySameIntent(left, right) /\ {left, right} \notin candidates

Unlinked(one, other) == \E l \in one, r \in other : ~LikelySameIntent(l, r)

TakenPairsAreSettled ==
  \A left, right \in Keywords : Taken(left, right) =>
    \A one, other \in clusters :
      left \in one /\ right \in other /\ one # other => Unlinked(one, other)

ClusterInv ==
  clustering = "merging" =>
    ClustersAreComplete /\ {} \notin clusters /\ TakenPairsAreSettled

-----------------------------------------------------------------------------
\* The relation the clusters are made of is symmetric.
LEMMA LikelyIsSymmetric ==
  ASSUME NEW left, NEW right, LikelySameIntent(left, right)
  PROVE  LikelySameIntent(right, left)
<1>1. Shared(left, right) = Shared(right, left)
  <2>1. results[left] \cap results[right] = results[right] \cap results[left]
    OBVIOUS
  <2> QED
    BY <2>1 DEF Shared
<1>2. Comparable(left, right) <=> Comparable(right, left)
  BY DEF Comparable
<1>3. (scopeOf[left] # scopeOf[right]) <=> (scopeOf[right] # scopeOf[left])
  OBVIOUS
<1> QED
  BY <1>1, <1>2, <1>3 DEF LikelySameIntent, IntentConfidence

\* Two keywords are a pair.
LEMMA TwoKeywordsArePair ==
  ASSUME NEW left \in Keywords, NEW right \in Keywords, left # right
  PROVE  {left, right} \in Pairs
<1>1. IsFiniteSet({left}) /\ Cardinality({left}) = 1
  BY FS_Singleton
<1>2. Cardinality({left} \cup {right}) = Cardinality({left}) + 1
  BY <1>1, FS_AddElement
<1>3. {left} \cup {right} = {left, right}
  OBVIOUS
<1> QED
  BY <1>1, <1>2, <1>3 DEF Pairs

-----------------------------------------------------------------------------
LEMMA StartKeeps ==
  ASSUME ClusterInv,
         \E records \in [Keywords -> TopResults], scoping \in Scopings :
           StartClustering(records, scoping)
  PROVE  ClusterInv'
<1>1. /\ clusters' = {{keyword} : keyword \in Keywords}
      /\ candidates' = {pair \in Pairs :
                          \E left, right \in Keywords :
                            pair = {left, right} /\ LikelySameIntent(left, right)'}
  BY DEF StartClustering
<1>2. ClustersAreComplete'
  <2>0. ASSUME NEW c \in clusters' PROVE \E keyword \in Keywords : c = {keyword}
    BY <1>1
  <2>1. (UNION clusters)' = Keywords
    <3>1. ASSUME NEW k \in Keywords PROVE {k} \in clusters'
      BY <1>1
    <3>2. ASSUME NEW c \in clusters' PROVE c \subseteq Keywords
      BY <2>0
    <3> QED
      BY <3>1, <3>2
  <2>2. \A one, other \in clusters' : one \cap other # {} => one = other
    BY <2>0
  <2>3. \A cluster \in clusters' : \A left, right \in cluster : left = right
    BY <2>0
  <2> QED
    BY <2>1, <2>2, <2>3 DEF ClustersAreComplete
<1>3. ({} \notin clusters)'
  BY <1>1
<1>4. TakenPairsAreSettled'
  <2> SUFFICES ASSUME NEW left \in Keywords, NEW right \in Keywords, Taken(left, right)'
               PROVE  FALSE
    BY DEF TakenPairsAreSettled
  <2>1. {left, right} \in Pairs /\ LikelySameIntent(left, right)'
    BY TwoKeywordsArePair DEF Taken
  <2>2. {left, right} \in candidates'
    BY <1>1, <2>1
  <2> QED
    BY <2>2 DEF Taken
<1> QED
  BY <1>2, <1>3, <1>4 DEF ClusterInv

LEMMA TakeKeeps ==
  ASSUME ClusterInv, clustering = "merging",
         NEW left \in Keywords, NEW right \in Keywords, TakeCandidate(left, right)
  PROVE  ClusterInv'
<1>1. PICK one \in clusters, other \in clusters :
        /\ left \in one
        /\ right \in other
        /\ clusters' = IF one # other /\ CompleteLink(one, other)
                       THEN (clusters \ {one, other}) \cup {one \cup other}
                       ELSE clusters
  BY DEF TakeCandidate
<1>2. \A l, r : LikelySameIntent(l, r)' <=> LikelySameIntent(l, r)
  BY DEF TakeCandidate, LikelySameIntent, IntentConfidence, Comparable, Shared
<1>3. clustering' = "merging" /\ candidates' = candidates \ {{left, right}}
  BY DEF TakeCandidate
<1>4. \A l, r : LikelySameIntent(l, r) => LikelySameIntent(r, l)
  BY LikelyIsSymmetric
<1>5. /\ UNION clusters = Keywords
      /\ Disjoint
      /\ \A cluster \in clusters :
           \A l, r \in cluster : l # r => LikelySameIntent(l, r)
      /\ {} \notin clusters
      /\ TakenPairsAreSettled
  BY DEF ClusterInv, ClustersAreComplete, Disjoint
<1>6. CASE one # other /\ CompleteLink(one, other)
  <2> DEFINE merged == one \cup other
  <2>1. clusters' = (clusters \ {one, other}) \cup {merged}
    BY <1>1, <1>6
  <2>2. UNION clusters' = Keywords
    <3>1. \A k : (\E c \in clusters' : k \in c) <=> (\E c \in clusters : k \in c)
      BY <2>1, <1>1
    <3> QED
      BY <3>1, <1>5
  <2>3. Disjoint'
    BY <2>1, <1>5 DEF Disjoint
  <2>4. \A l, r \in merged : l # r => LikelySameIntent(l, r)
    BY <1>1, <1>4, <1>5, <1>6 DEF CompleteLink
  <2>5. \A cluster \in clusters' : \A l, r \in cluster : l # r => LikelySameIntent(l, r)'
    BY <2>1, <2>4, <1>2, <1>5
  <2>6. {} \notin clusters'
    BY <2>1, <1>1, <1>5
  <2>7. TakenPairsAreSettled'
    <3> SUFFICES ASSUME NEW l \in Keywords, NEW r \in Keywords, Taken(l, r)',
                        NEW a \in clusters', NEW b \in clusters',
                        l \in a, r \in b, a # b
                 PROVE  \E x \in a, y \in b : ~LikelySameIntent(x, y)
      BY <1>2 DEF TakenPairsAreSettled, Unlinked
    <3>1. a \cap b = {}
      BY <2>3 DEF Disjoint
    <3>2. {l, r} # {left, right}
      <4>1. ASSUME NEW c \in clusters', NEW k \in c, k \in merged
            PROVE  c = merged
        <5>1. merged \in clusters' /\ k \in c \cap merged
          BY <4>1, <2>1
        <5> QED
          BY <5>1, <2>3 DEF Disjoint
      <4>2. left \in merged /\ right \in merged
        BY <1>1
      <4>3. l \in merged /\ r \in merged => a = merged /\ b = merged
        BY <4>1
      <4> QED
        BY <4>2, <4>3
    <3>3. Taken(l, r)
      BY <3>2, <1>2, <1>3 DEF Taken
    <3>4. PICK a0 \in clusters, b0 \in clusters :
            l \in a0 /\ r \in b0 /\ a0 \subseteq a /\ b0 \subseteq b
      BY <2>1, <1>1
    <3>5. a0 # b0
      BY <3>1, <3>4
    <3> QED
      BY <3>3, <3>4, <3>5, <1>5 DEF TakenPairsAreSettled, Unlinked
  <2> QED
    BY <1>3, <2>2, <2>3, <2>5, <2>6, <2>7 DEF ClusterInv, ClustersAreComplete, Disjoint
<1>7. CASE ~(one # other /\ CompleteLink(one, other))
  <2>1. clusters' = clusters
    BY <1>1, <1>7
  <2>2. ClustersAreComplete' /\ ({} \notin clusters)'
    BY <2>1, <1>2, <1>5 DEF ClustersAreComplete, Disjoint
  <2>3. TakenPairsAreSettled'
    <3> SUFFICES ASSUME NEW l \in Keywords, NEW r \in Keywords, Taken(l, r)',
                        NEW a \in clusters, NEW b \in clusters,
                        l \in a, r \in b, a # b
                 PROVE  \E x \in a, y \in b : ~LikelySameIntent(x, y)
      BY <1>2, <2>1 DEF TakenPairsAreSettled, Unlinked
    <3>1. CASE {l, r} = {left, right}
      <4>1. (a = one /\ b = other) \/ (a = other /\ b = one)
        BY <3>1, <1>1, <1>5 DEF Disjoint
      <4>2. PICK x \in one, y \in other : ~LikelySameIntent(x, y)
        BY <4>1, <1>7 DEF CompleteLink
      <4> QED
        BY <4>1, <4>2, <1>4
    <3>2. CASE {l, r} # {left, right}
      <4>1. Taken(l, r)
        BY <3>2, <1>2, <1>3 DEF Taken
      <4> QED
        BY <4>1, <1>5 DEF TakenPairsAreSettled, Unlinked
    <3> QED
      BY <3>1, <3>2
  <2> QED
    BY <2>2, <2>3 DEF ClusterInv
<1> QED
  BY <1>6, <1>7

\* Before there are records no candidate can be taken.
IdleInv == clustering \in {"idle", "merging"} /\ (clustering = "idle" => candidates = {})

LEMMA ClusterInvImplies == ASSUME ClusterInv PROVE ClustersAreMaximal
<1>1. ClustersAreComplete
  BY DEF ClusterInv, ClustersAreComplete
<1>2. ASSUME clustering = "merging", candidates = {},
             NEW one \in clusters, NEW other \in clusters, one # other,
             \A l \in one, r \in other : LikelySameIntent(l, r)
      PROVE  FALSE
  <2>1. PICK left \in one, right \in other : TRUE
    BY <1>2 DEF ClusterInv
  <2>2. left \in Keywords /\ right \in Keywords /\ left # right
    BY <1>2, <1>1, <2>1 DEF ClustersAreComplete
  <2>3. Taken(left, right)
    BY <1>2, <2>2 DEF Taken
  <2> QED
    BY <1>2, <2>2, <2>3 DEF ClusterInv, TakenPairsAreSettled, Unlinked
<1> QED
  BY <1>1, <1>2 DEF ClustersAreMaximal, NoMergeIsLeft

-----------------------------------------------------------------------------
\* At every moment of the loop every two keywords of a cluster are linked and
\* each keyword is in one cluster, and when the loop ends no two clusters could
\* be merged: one pass over the pairs, in any order, is enough.
THEOREM ClustersMaximal == ClusteringSpec => []ClustersAreMaximal
<1>1. ClusteringInit => ClusterInv /\ IdleInv
  BY DEF ClusteringInit, ClusterInv, IdleInv
<1>2. ClusterInv /\ IdleInv /\ [ClusteringNext]_clusteringVars => (ClusterInv /\ IdleInv)'
  <2> SUFFICES ASSUME ClusterInv, IdleInv, [ClusteringNext]_clusteringVars
               PROVE  (ClusterInv /\ IdleInv)'
    OBVIOUS
  <2>1. CASE \E records \in [Keywords -> TopResults], scoping \in Scopings :
               StartClustering(records, scoping)
    BY <2>1, StartKeeps DEF IdleInv, StartClustering
  <2>2. ASSUME NEW left \in Keywords, NEW right \in Keywords, TakeCandidate(left, right)
        PROVE  (ClusterInv /\ IdleInv)'
    <3>1. clustering = "merging"
      BY <2>2 DEF TakeCandidate, IdleInv
    <3> QED
      BY <2>2, <3>1, TakeKeeps DEF IdleInv, TakeCandidate
  <2>3. CASE UNCHANGED clusteringVars
    <3>1. \A l, r : LikelySameIntent(l, r)' <=> LikelySameIntent(l, r)
      BY <2>3 DEF clusteringVars, LikelySameIntent, IntentConfidence, Comparable, Shared
    <3>2. /\ clusters' = clusters /\ candidates' = candidates
          /\ clustering' = clustering
      BY <2>3 DEF clusteringVars
    <3>3. ClustersAreComplete => ClustersAreComplete'
      BY <3>1, <3>2 DEF ClustersAreComplete
    <3>4. TakenPairsAreSettled => TakenPairsAreSettled'
      BY <3>1, <3>2 DEF TakenPairsAreSettled, Taken, Unlinked
    <3> QED
      BY <3>2, <3>3, <3>4 DEF ClusterInv, IdleInv
  <2> QED
    BY <2>1, <2>2, <2>3 DEF ClusteringNext
<1> QED
  BY <1>1, <1>2, ClusterInvImplies, PTL DEF ClusteringSpec

-----------------------------------------------------------------------------
(* LifetimeAllocation, for every portfolio, cap and committed amount.        *)
(*                                                                           *)
(* The plan's cost only grows, so what did not fit when it was deferred does *)
(* not fit later.  That a better score never brings a worse band rests on the *)
(* distances between the scores of the tiers.                                *)

AllocationTypes ==
  /\ committed \in Nat /\ allocated \in Nat
  /\ offered \subseteq Portfolio /\ kept \subseteq Portfolio
  /\ suppressed \subseteq Portfolio
  /\ chosen \subseteq Portfolio /\ deferred \subseteq Portfolio
  /\ planning \in {"idle", "deduplicating", "allocating", "refused"}

NothingYet ==
  /\ planning # "allocating" => allocated = 0 /\ chosen = {} /\ deferred = {}
  /\ planning \in {"deduplicating", "allocating"} => committed <= LifetimeCap
  /\ planning = "idle" => kept = {} /\ suppressed = {}

AllocationInv ==
  AllocationTypes /\ NothingYet /\ PlanFitsTheBudget /\ BestBandIsKept

-----------------------------------------------------------------------------
\* A row that scores higher than another is of no worse band.
LEMMA BetterScoreBetterBand ==
  ASSUME NEW row \in Portfolio, NEW other \in Portfolio, Score(row) > Score(other)
  PROVE  Band(row) <= Band(other)
<1>1. row.bonus \in 0..50 /\ other.bonus \in 0..50
  BY AllocationAssumption
<1>2. \A r \in {row, other} :
        \/ Band(r) = 0 /\ BaseScore(r) \in {400, 500}
        \/ Band(r) = 1 /\ BaseScore(r) \in {225, 250, 300}
        \/ Band(r) = 2 /\ BaseScore(r) = 100
  BY DEF Band, BaseScore
<1>3. /\ Score(row) \in BaseScore(row) .. BaseScore(row) + 50
      /\ Score(other) \in BaseScore(other) .. BaseScore(other) + 50
  <2> DEFINE base == BaseScore(row)
             least == BaseScore(other)
  <2>1. base \in Nat /\ least \in Nat
    BY <1>2
  <2> HIDE DEF base, least
  <2>2. base + row.bonus \in base .. base + 50 /\ least + other.bonus \in least .. least + 50
    BY <1>1, <2>1
  <2> QED
    BY <2>2 DEF Score, base, least
<1> QED
  BY <1>2, <1>3

LEMMA BandsAreNumbers == ASSUME NEW row PROVE Band(row) \in Nat
  BY DEF Band

LEMMA UnitsOfPricedRows ==
  ASSUME NEW row \in Portfolio, Priced(row)
  PROVE  row.unit \in Nat
  BY AllocationAssumption DEF Priced

-----------------------------------------------------------------------------
LEMMA StartAllocationKeeps ==
  ASSUME AllocationInv, NEW rows \in (SUBSET Portfolio) \ {{}}, NEW cost \in Committed,
         StartAllocation(rows, cost)
  PROVE  AllocationInv'
<1> USE DEF AllocationInv, StartAllocation
<1>1. cost \in Nat /\ LifetimeCap \in Nat
  BY AllocationAssumption
<1>2. AllocationTypes'
  BY <1>1 DEF AllocationTypes
<1>3. NothingYet'
  BY <1>1 DEF NothingYet
<1>4. PlanFitsTheBudget'
  BY DEF PlanFitsTheBudget
<1>5. BestBandIsKept'
  BY DEF BestBandIsKept
<1> QED
  BY <1>2, <1>3, <1>4, <1>5

LEMMA DeduplicateKeeps ==
  ASSUME AllocationInv, NEW row \in Portfolio, Deduplicate(row)
  PROVE  AllocationInv'
<1> DEFINE existing == {other \in kept : other.key = row.key}
           wins == \A other \in existing : Band(row) < Band(other) \/ Score(row) > Score(other)
<1>1. /\ planning = "deduplicating" /\ row \in offered
      /\ offered' = offered \ {row}
      /\ kept' = IF wins THEN (kept \ existing) \cup {row} ELSE kept
      /\ suppressed' = suppressed \cup (IF wins THEN existing ELSE {row})
      /\ planning' = IF offered' = {} THEN "allocating" ELSE planning
      /\ UNCHANGED <<committed, allocated, chosen, deferred>>
  BY DEF Deduplicate
<1> HIDE DEF existing, wins
<1>2. existing \subseteq kept /\ kept \subseteq Portfolio
  BY DEF existing, AllocationInv, AllocationTypes
<1>3. AllocationTypes'
  BY <1>1, <1>2 DEF AllocationInv, AllocationTypes
<1>4. NothingYet'
  BY <1>1 DEF AllocationInv, NothingYet
<1>5. PlanFitsTheBudget'
  BY <1>1, AllocationAssumption
     DEF AllocationInv, AllocationTypes, NothingYet, PlanFitsTheBudget, Remaining
<1>6. BestBandIsKept'
  <2>1. CASE wins
    <3>1. \A other \in existing : other.key = row.key /\ Band(row) <= Band(other)
      BY <2>1, <1>2, BetterScoreBetterBand, BandsAreNumbers DEF wins, existing
    <3>2. ASSUME NEW lost \in suppressed'
          PROVE  \E other \in kept' : other.key = lost.key /\ Band(other) <= Band(lost)
      <4>1. CASE lost \in existing
        BY <4>1, <3>1, <2>1, <1>1
      <4>2. CASE lost \in suppressed
        <5>1. PICK other \in kept : other.key = lost.key /\ Band(other) <= Band(lost)
          BY <4>2 DEF AllocationInv, BestBandIsKept
        <5>2. CASE other \in existing
          BY <5>1, <5>2, <3>1, <2>1, <1>1, BandsAreNumbers
        <5>3. CASE other \notin existing
          BY <5>1, <5>3, <2>1, <1>1
        <5> QED
          BY <5>2, <5>3
      <4> QED
        BY <4>1, <4>2, <2>1, <1>1
    <3> QED
      BY <3>2 DEF BestBandIsKept
  <2>2. CASE ~wins
    <3>1. PICK other \in existing : ~(Band(row) < Band(other))
      BY <2>2 DEF wins
    <3>2. other \in kept /\ other.key = row.key /\ Band(other) <= Band(row)
      BY <3>1, BandsAreNumbers DEF existing
    <3> QED
      BY <3>2, <2>2, <1>1 DEF AllocationInv, BestBandIsKept
  <2> QED
    BY <2>1, <2>2
<1> QED
  BY <1>3, <1>4, <1>5, <1>6 DEF AllocationInv

LEMMA AllocateKeeps ==
  ASSUME AllocationInv, NEW row \in Portfolio, Allocate(row)
  PROVE  AllocationInv'
<1>1. /\ planning = "allocating"
      /\ UNCHANGED <<committed, offered, kept, suppressed, planning>>
  BY DEF Allocate
<1>2. LifetimeCap \in Nat /\ committed \in Nat /\ allocated \in Nat
  BY AllocationAssumption DEF AllocationInv, AllocationTypes
<1>3. BestBandIsKept' /\ NothingYet'
  BY <1>1 DEF AllocationInv, BestBandIsKept, NothingYet
<1>4. CASE ~row.attempted /\ Priced(row) /\ Fits(row)
  <2>1. /\ allocated' = allocated + row.unit
        /\ chosen' = chosen \cup {row}
        /\ deferred' = deferred
    BY <1>4 DEF Allocate
  <2>2. row.unit \in Nat
    BY <1>4, UnitsOfPricedRows
  <2>3. AllocationTypes'
    BY <2>1, <2>2, <1>1 DEF AllocationInv, AllocationTypes
  <2>4. (allocated <= Remaining)'
    BY <2>1, <1>1, <1>4 DEF Fits, Remaining
  <2>5. ASSUME NEW late \in deferred, ~late.attempted, Priced(late)
        PROVE  ~Fits(late)'
    <3>1. ~Fits(late)
      BY <2>5, <1>1 DEF AllocationInv, PlanFitsTheBudget
    <3>2. late.unit \in Nat
      BY <2>5, UnitsOfPricedRows DEF AllocationInv, AllocationTypes
    <3> QED
      BY <3>1, <3>2, <2>1, <2>2, <1>1, <1>2 DEF Fits, Remaining
  <2>6. PlanFitsTheBudget'
    BY <2>1, <2>4, <2>5 DEF PlanFitsTheBudget, Priced
  <2> QED
    BY <2>3, <2>6, <1>3 DEF AllocationInv
<1>5. CASE ~(~row.attempted /\ Priced(row) /\ Fits(row))
  <2>1. deferred' = deferred \cup {row} /\ UNCHANGED <<allocated, chosen>>
    BY <1>5 DEF Allocate
  <2>2. AllocationTypes'
    BY <2>1, <1>1 DEF AllocationInv, AllocationTypes
  <2>3. PlanFitsTheBudget'
    BY <2>1, <1>1, <1>5 DEF AllocationInv, PlanFitsTheBudget, Remaining, Fits, Priced
  <2> QED
    BY <2>2, <2>3, <1>3 DEF AllocationInv
<1> QED
  BY <1>4, <1>5

LEMMA AllocationInvariant == AllocationSpec => []AllocationInv
<1>1. AllocationInit => AllocationInv
  BY DEF AllocationInit, AllocationInv, AllocationTypes, NothingYet, PlanFitsTheBudget,
         BestBandIsKept
<1>2. AllocationInv /\ [AllocationNext]_allocationVars => AllocationInv'
  <2> SUFFICES ASSUME AllocationInv, [AllocationNext]_allocationVars
               PROVE  AllocationInv'
    OBVIOUS
  <2>1. CASE UNCHANGED allocationVars
    BY <2>1 DEF allocationVars, AllocationInv, AllocationTypes, NothingYet, PlanFitsTheBudget,
                BestBandIsKept, Remaining, Fits
  <2> QED
    BY <2>1, StartAllocationKeeps, DeduplicateKeeps, AllocateKeeps DEF AllocationNext
<1> QED
  BY <1>1, <1>2, PTL DEF AllocationSpec

-----------------------------------------------------------------------------
\* The plan never costs more than the cap leaves, and no row it deferred for the
\* budget would fit in what it leaves at the end.
THEOREM AllocationFits == AllocationSpec => []PlanFitsTheBudget
  BY AllocationInvariant, PTL DEF AllocationInv

\* Of the candidates with one key one of the best band is kept, although the
\* comparison also goes by the score alone.
THEOREM DeduplicationKeepsTheBest == AllocationSpec => []BestBandIsKept
  BY AllocationInvariant, PTL DEF AllocationInv

-----------------------------------------------------------------------------
(* EnrichmentRun, for every number of jobs, batches and costs.               *)
(*                                                                           *)
(* What was charged is what the batches in the files and the one under way   *)
(* cost, as sums of sequences; a prefix of the batches costs no more than all. *)

-----------------------------------------------------------------------------
(* Sequences and the sum of their elements                                 *)

LEMMA FrontOfAppend ==
  ASSUME NEW s \in Seq(Nat), NEW x \in Nat
  PROVE  /\ Append(s, x) \in Seq(Nat) /\ Append(s, x) # <<>>
         /\ Front(Append(s, x)) = s /\ Last(Append(s, x)) = x
BY DEF Front, Last

LEMMA FrontAndLast ==
  ASSUME NEW s \in Seq(Nat), s # <<>>
  PROVE  /\ Front(s) \in Seq(Nat) /\ Last(s) \in Nat
         /\ s = Append(Front(s), Last(s))
         /\ Len(s) = Len(Front(s)) + 1
         /\ IsPrefix(Front(s), s) /\ IsPrefix(s, s)
<1> DEFINE n == Len(s)
<1>1. n \in Nat /\ n # 0 /\ DOMAIN s = 1..n /\ \A i \in 1..n : s[i] \in Nat
  OBVIOUS
<1>2. /\ Front(s) \in Seq(Nat) /\ Len(Front(s)) = n - 1
      /\ \A i \in 1..(n - 1) : Front(s)[i] = s[i]
  BY <1>1 DEF Front
<1>3. Last(s) \in Nat
  BY <1>1 DEF Last
<1>4. s = Append(Front(s), Last(s))
  <2>1. PICK front \in Seq(Nat), last \in Nat : front = Front(s) /\ last = Last(s)
    BY <1>2, <1>3
  <2> HIDE DEF n
  <2>2. Len(front) + 1 = n /\ Len(front) = n - 1
    BY <1>1, <1>2, <2>1
  <2> DEFINE t == Append(front, last)
  <2>3. /\ t \in Seq(Nat) /\ Len(t) = Len(front) + 1
        /\ \A i \in 1..Len(front) : t[i] = front[i]
        /\ t[Len(front) + 1] = last
    BY <2>1, AppendProperties
  <2> HIDE DEF t
  <2>4. \A i \in 1..(n - 1) : t[i] = s[i]
    BY <1>2, <2>1, <2>2, <2>3
  <2>5. t[n] = s[n]
    BY <2>1, <2>2, <2>3 DEF Last, n
  <2>6. \A i \in 1..n : i \in 1..(n - 1) \/ i = n
    BY <1>1
  <2>7. \A i \in 1..Len(s) : s[i] = t[i]
    BY <2>4, <2>5, <2>6 DEF n
  <2>8. Len(s) = Len(t)
    BY <2>2, <2>3 DEF n
  <2>9. s = t
    BY <2>3, <2>7, <2>8, SeqEqual
  <2> QED
    BY <2>1, <2>9 DEF t
<1>5. IsPrefix(Front(s), s)
  <2>1. SubSeq(Front(s), 1, n - 1) = SubSeq(s, 1, n - 1)
    BY <1>1, <1>2
  <2> QED
    BY <1>1, <1>2, <2>1 DEF IsPrefix
<1>6. IsPrefix(s, s)
  BY <1>1 DEF IsPrefix
<1>7. Len(s) = Len(Front(s)) + 1
  BY <1>1, <1>2
<1> QED
  BY <1>2, <1>3, <1>4, <1>5, <1>6, <1>7

LEMMA TotalIsSum == \A s : Total(s) = Sum(s, DOMAIN s)
BY DEF Total, FoldSeq, FoldFunction, FoldFunctionOnSet, MapThenFoldSet, Sum, SumFunctionOnSet

LEMMA TotalOfAppend ==
  ASSUME NEW s \in Seq(Nat), NEW x \in Nat
  PROVE  Total(s) \in Nat /\ Total(Append(s, x)) = Total(s) + x
<1> DEFINE n == Len(s)
           t == Append(s, x)
<1>1. n \in Nat /\ DOMAIN s = 1..n /\ DOMAIN t = 1..(n + 1)
  OBVIOUS
<1>2. \A i \in 1..n : s[i] \in Nat /\ t[i] = s[i]
  OBVIOUS
<1>3. t[n + 1] = x /\ \A i \in 1..(n + 1) : t[i] \in Nat
  OBVIOUS
<1>4. IsFiniteSet(1..n) /\ IsFiniteSet(1..(n + 1))
  BY <1>1, FS_Interval
<1> HIDE DEF n, t
<1>5. Sum(s, 1..n) \in Nat
  BY <1>2, <1>4, SumType
<1>6. (1..(n + 1)) \ {n + 1} = 1..n /\ n + 1 \in 1..(n + 1)
  BY <1>1
<1>7. Sum(t, 1..(n + 1)) = t[n + 1] + Sum(t, 1..n)
  <2>1. PICK all : all = 1..(n + 1)
    OBVIOUS
  <2>2. IsFiniteSet(all) /\ (\A i \in all : t[i] \in Nat) /\ n + 1 \in all
    BY <1>3, <1>4, <1>6, <2>1
  <2>3. Sum(t, all) = t[n + 1] + Sum(t, all \ {n + 1})
    BY <2>2, SumRemove
  <2> QED
    BY <1>6, <2>1, <2>3
<1>8. Sum(t, 1..n) = Sum(s, 1..n)
  BY <1>2, <1>4, SumAgree
<1>9. Total(s) = Sum(s, 1..n) /\ Total(t) = Sum(t, 1..(n + 1))
  BY <1>1, TotalIsSum
<1>10. Total(t) = Total(s) + x
  BY <1>3, <1>5, <1>7, <1>8, <1>9
<1> QED
  BY <1>5, <1>9, <1>10 DEF t

LEMMA TotalOfFront ==
  ASSUME NEW s \in Seq(Nat), s # <<>>
  PROVE  Total(Front(s)) <= Total(s)
<1>1. Front(s) \in Seq(Nat) /\ Last(s) \in Nat /\ s = Append(Front(s), Last(s))
  BY FrontAndLast
<1>2. Total(Front(s)) \in Nat /\ Total(s) = Total(Front(s)) + Last(s)
  BY <1>1, TotalOfAppend
<1> QED
  BY <1>1, <1>2

LEMMA TotalOfNothing == Total(<<>>) = 0
BY TotalIsSum, SumEmpty

-----------------------------------------------------------------------------
(* The invariant: what a run was charged, has read and has on record       *)

Places == {"idle", "opening", "posting", "answered", "kept", "exceeded", "stopped", "ended"}

EnrichmentTypes ==
  /\ runner \in [EnrichmentRuns -> [at : Places, ceiling : Nat]]
  /\ replied \in [EnrichmentRuns -> Seq(Nat)]
  /\ charged \in [EnrichmentRuns -> Seq(Nat)]
  /\ DOMAIN manifests = EnrichmentRuns

\* The script knows all charges but one at most, and posts below the ceiling.
ChargesKnown(r) ==
  LET at == runner[r].at IN
  /\ at = "idle" => charged[r] = <<>>
  /\ at \in {"idle", "opening", "posting", "kept", "exceeded"} => replied[r] = charged[r]
  /\ at \in {"opening", "posting"} => Total(charged[r]) <= runner[r].ceiling
  /\ at = "answered" => charged[r] # <<>> /\ replied[r] = Front(charged[r])
  /\ charged[r] # <<>> => Total(Front(charged[r])) <= runner[r].ceiling

\* Its manifest knows what it knows, or all but the reply that was just kept.
ChargesRecorded(r) ==
  LET at == runner[r].at
      jobs == manifests[r].jobs
  IN
  /\ at \in {"idle", "opening"} => manifests[r] = NoManifest
  /\ Readable(r) =>
       /\ at \in {"posting", "exceeded"} => jobs = charged[r]
       /\ at \in {"answered", "kept"} => charged[r] # <<>> /\ jobs = Front(charged[r])
       /\ jobs = charged[r] \/ (charged[r] # <<>> /\ jobs = Front(charged[r]))
       /\ manifests[r].status = "complete" =>
            at = "ended" /\ Len(charged[r]) = JobCount /\ jobs = charged[r]

EnrichmentInv ==
  EnrichmentTypes /\ \A r \in EnrichmentRuns : ChargesKnown(r) /\ ChargesRecorded(r)

LEMMA EnrichmentFollows ==
  ASSUME EnrichmentInv
  PROVE  ChargesAreKnownButForOneJob
<1> SUFFICES ASSUME NEW r \in EnrichmentRuns
             PROVE
    /\ Readable(r) =>
         /\ IsPrefix(manifests[r].jobs, charged[r])
         /\ Len(charged[r]) <= Len(manifests[r].jobs) + 1
    /\ charged[r] # <<>> => Total(Front(charged[r])) <= runner[r].ceiling
    /\ LoadsEnrichment(r) =>
         Len(charged[r]) = JobCount /\ manifests[r].jobs = charged[r]
  BY DEF ChargesAreKnownButForOneJob
<1>1. ChargesKnown(r) /\ ChargesRecorded(r) /\ charged[r] \in Seq(Nat)
  BY DEF EnrichmentInv, EnrichmentTypes
<1>2. ASSUME Readable(r)
      PROVE  /\ IsPrefix(manifests[r].jobs, charged[r])
             /\ Len(charged[r]) <= Len(manifests[r].jobs) + 1
  <2>1. CASE charged[r] = <<>>
    BY <1>1, <1>2, <2>1 DEF ChargesRecorded, IsPrefix
  <2>2. CASE charged[r] # <<>>
    <3>1. /\ Front(charged[r]) \in Seq(Nat)
          /\ Len(charged[r]) = Len(Front(charged[r])) + 1
          /\ IsPrefix(Front(charged[r]), charged[r]) /\ IsPrefix(charged[r], charged[r])
      BY <1>1, <2>2, FrontAndLast
    <3>2. Len(Front(charged[r])) \in Nat
      BY <3>1
    <3> QED
      BY <1>1, <1>2, <3>1, <3>2 DEF ChargesRecorded
  <2> QED
    BY <2>1, <2>2
<1> QED
  BY <1>1, <1>2 DEF ChargesKnown, ChargesRecorded, LoadsEnrichment

\* The conjuncts about one run look at what is kept of this run only.
LEMMA OthersStay ==
  ASSUME NEW r \in EnrichmentRuns,
         ChargesKnown(r), ChargesRecorded(r),
         runner'[r] = runner[r], replied'[r] = replied[r],
         charged'[r] = charged[r], manifests'[r] = manifests[r]
  PROVE  ChargesKnown(r)' /\ ChargesRecorded(r)'
BY DEF ChargesKnown, ChargesRecorded, Readable

Moved(r) ==
  \A other \in EnrichmentRuns \ {r} :
    /\ runner'[other] = runner[other] /\ replied'[other] = replied[other]
    /\ charged'[other] = charged[other] /\ manifests'[other] = manifests[other]

LEMMA OneRunMoves ==
  ASSUME EnrichmentInv, NEW r \in EnrichmentRuns, Moved(r),
         EnrichmentTypes', ChargesKnown(r)', ChargesRecorded(r)'
  PROVE  EnrichmentInv'
BY OthersStay DEF EnrichmentInv, Moved

LEMMA StartRunKeeps ==
  ASSUME EnrichmentInv, NEW r \in EnrichmentRuns, NEW ceiling \in Ceilings, StartRun(r, ceiling)
  PROVE  EnrichmentInv'
<1> USE DEF StartRun
<1>1. ceiling \in Nat
  BY EnrichmentAssumption
<1>2. runner'[r] = [at |-> "opening", ceiling |-> ceiling] /\ EnrichmentTypes' /\ Moved(r)
  BY <1>1 DEF EnrichmentInv, EnrichmentTypes, Moved, Places
<1>3. charged[r] = <<>> /\ replied[r] = <<>> /\ manifests[r] = NoManifest
  BY DEF EnrichmentInv, ChargesKnown, ChargesRecorded
<1>4. ChargesKnown(r)'
  BY <1>1, <1>2, <1>3, TotalOfNothing DEF ChargesKnown
<1>5. ChargesRecorded(r)'
  BY <1>2, <1>3 DEF ChargesRecorded, Readable
<1> QED
  BY <1>2, <1>4, <1>5, OneRunMoves

LEMMA SaveFirstKeeps ==
  ASSUME EnrichmentInv, NEW r \in EnrichmentRuns, SaveFirst(r)
  PROVE  EnrichmentInv'
<1> USE DEF SaveFirst, Save, Goto
<1>1. /\ runner'[r] = [at |-> "posting", ceiling |-> runner[r].ceiling]
      /\ manifests'[r] = Manifest(r, "running")
      /\ EnrichmentTypes' /\ Moved(r)
  BY DEF EnrichmentInv, EnrichmentTypes, Moved, Places
<1>2. manifests'[r].status = "running" /\ manifests'[r].jobs = replied[r]
  BY <1>1 DEF Manifest
<1>3. ChargesKnown(r)'
  BY <1>1 DEF EnrichmentInv, ChargesKnown
<1>4. ChargesRecorded(r)'
  BY <1>1, <1>2 DEF EnrichmentInv, ChargesKnown, ChargesRecorded
<1> QED
  BY <1>1, <1>3, <1>4, OneRunMoves

\* A charge that the script has not read yet.
LEMMA OneMoreCharge ==
  ASSUME EnrichmentInv, NEW r \in EnrichmentRuns, NEW cost \in Nat,
         runner[r].at = "posting"
  PROVE  LET more == Append(charged[r], cost) IN
           /\ more \in Seq(Nat) /\ more # <<>>
           /\ Front(more) = charged[r] /\ Last(more) = cost
           /\ replied[r] = charged[r]
           /\ Total(charged[r]) <= runner[r].ceiling
           /\ Readable(r) => manifests[r].jobs = charged[r] /\ manifests[r].status # "complete"
BY FrontOfAppend DEF EnrichmentInv, EnrichmentTypes, ChargesKnown, ChargesRecorded

LEMMA PostJobKeeps ==
  ASSUME EnrichmentInv, NEW r \in EnrichmentRuns, NEW cost \in JobCosts, PostJob(r, cost)
  PROVE  EnrichmentInv'
<1>1. cost \in Nat
  BY EnrichmentAssumption
<1> DEFINE more == Append(charged[r], cost)
<1>2. /\ more \in Seq(Nat) /\ more # <<>>
      /\ Front(more) = charged[r]
      /\ replied[r] = charged[r]
      /\ Total(charged[r]) <= runner[r].ceiling
      /\ Readable(r) => manifests[r].jobs = charged[r] /\ manifests[r].status # "complete"
  BY <1>1, OneMoreCharge DEF PostJob
<1>3. charged'[r] = more
  BY DEF PostJob, EnrichmentInv, EnrichmentTypes
<1>4. \A other \in EnrichmentRuns \ {r} : charged'[other] = charged[other]
  BY DEF PostJob, EnrichmentInv, EnrichmentTypes
<1>5. charged' \in [EnrichmentRuns -> Seq(Nat)]
  BY <1>2 DEF PostJob, EnrichmentInv, EnrichmentTypes
<1> HIDE DEF more
<1>6. /\ runner'[r] = [at |-> "answered", ceiling |-> runner[r].ceiling]
      /\ replied'[r] = charged[r] /\ manifests'[r] = manifests[r]
      /\ EnrichmentTypes' /\ Moved(r)
  BY <1>2, <1>4, <1>5 DEF PostJob, Goto, EnrichmentInv, EnrichmentTypes, Moved, Places
<1>7. ChargesKnown(r)'
  BY <1>2, <1>3, <1>6 DEF ChargesKnown
<1>8. ChargesRecorded(r)'
  BY <1>2, <1>3, <1>6 DEF ChargesRecorded, Readable
<1> QED
  BY <1>6, <1>7, <1>8, OneRunMoves

LEMMA LoseJobKeeps ==
  ASSUME EnrichmentInv, NEW r \in EnrichmentRuns,
         NEW costs \in {<<>>} \cup {<<cost>> : cost \in JobCosts}, LoseJob(r, costs)
  PROVE  EnrichmentInv'
<1>1. charged[r] \in Seq(Nat) /\ replied[r] = charged[r]
  BY DEF LoseJob, EnrichmentInv, EnrichmentTypes, ChargesKnown
<1>2. CASE costs = <<>>
  <2>1. charged' = charged
    BY <1>1, <1>2 DEF LoseJob, EnrichmentInv, EnrichmentTypes
  <2>2. /\ runner[r].at = "posting"
        /\ runner'[r] = [at |-> "stopped", ceiling |-> runner[r].ceiling]
        /\ UNCHANGED <<replied, manifests>>
        /\ EnrichmentTypes' /\ Moved(r)
    BY <2>1 DEF LoseJob, Goto, EnrichmentInv, EnrichmentTypes, Moved, Places
  <2>3. ChargesKnown(r)'
    BY <2>1, <2>2 DEF EnrichmentInv, ChargesKnown
  <2>4. ChargesRecorded(r)'
    BY <2>1, <2>2 DEF EnrichmentInv, ChargesRecorded, Readable
  <2> QED
    BY <2>2, <2>3, <2>4, OneRunMoves
<1>3. ASSUME NEW cost \in JobCosts, costs = <<cost>>
      PROVE  EnrichmentInv'
  <2>1. cost \in Nat
    BY EnrichmentAssumption
  <2> DEFINE more == Append(charged[r], cost)
  <2>2. /\ more \in Seq(Nat) /\ more # <<>>
        /\ Front(more) = charged[r]
        /\ Total(charged[r]) <= runner[r].ceiling
        /\ Readable(r) => manifests[r].jobs = charged[r] /\ manifests[r].status # "complete"
    BY <2>1, OneMoreCharge DEF LoseJob
  <2>3. charged[r] \o costs = more
    BY <1>1, <1>3, <2>1, AppendIsConcat
  <2>4. charged'[r] = more
    BY <2>3 DEF LoseJob, EnrichmentInv, EnrichmentTypes
  <2>5. \A other \in EnrichmentRuns \ {r} : charged'[other] = charged[other]
    BY DEF LoseJob, EnrichmentInv, EnrichmentTypes
  <2>6. charged' \in [EnrichmentRuns -> Seq(Nat)]
    BY <2>2, <2>3 DEF LoseJob, EnrichmentInv, EnrichmentTypes
  <2> HIDE DEF more
  <2>7. /\ runner'[r] = [at |-> "stopped", ceiling |-> runner[r].ceiling]
        /\ replied'[r] = charged[r] /\ manifests'[r] = manifests[r]
        /\ EnrichmentTypes' /\ Moved(r)
    BY <1>1, <2>5, <2>6 DEF LoseJob, Goto, EnrichmentInv, EnrichmentTypes, Moved, Places
  <2>8. ChargesKnown(r)'
    BY <2>2, <2>4, <2>7 DEF ChargesKnown
  <2>9. ChargesRecorded(r)'
    BY <2>2, <2>4, <2>7 DEF ChargesRecorded, Readable
  <2> QED
    BY <2>7, <2>8, <2>9, OneRunMoves
<1> QED
  BY <1>2, <1>3

LEMMA KeepReplyKeeps ==
  ASSUME EnrichmentInv, NEW r \in EnrichmentRuns, KeepReply(r)
  PROVE  EnrichmentInv'
<1> USE DEF KeepReply, Goto
<1>1. charged[r] \in Seq(Nat) /\ charged[r] # <<>> /\ replied[r] = Front(charged[r])
  BY DEF EnrichmentInv, EnrichmentTypes, ChargesKnown
<1>2. Append(replied[r], Last(charged[r])) = charged[r]
  BY <1>1, FrontAndLast
<1>3. replied' = [replied EXCEPT ![r] = charged[r]]
  BY <1>2
<1>4. /\ runner'[r] = [at |-> "kept", ceiling |-> runner[r].ceiling]
      /\ replied'[r] = charged[r]
      /\ EnrichmentTypes' /\ Moved(r)
  BY <1>1, <1>3 DEF EnrichmentInv, EnrichmentTypes, Moved, Places
<1>5. ChargesKnown(r)'
  BY <1>1, <1>4 DEF EnrichmentInv, ChargesKnown
<1>6. ChargesRecorded(r)'
  BY <1>4 DEF EnrichmentInv, ChargesRecorded, Readable
<1> QED
  BY <1>4, <1>5, <1>6, OneRunMoves

LEMMA RecordJobKeeps ==
  ASSUME EnrichmentInv, NEW r \in EnrichmentRuns, RecordJob(r)
  PROVE  EnrichmentInv'
<1> USE DEF RecordJob, SaveJob, Save, Goto
<1> DEFINE next == IF Total(replied[r]) > runner[r].ceiling THEN "exceeded" ELSE "posting"
<1>1. /\ runner'[r] = [at |-> next, ceiling |-> runner[r].ceiling]
      /\ manifests'[r] = Manifest(r, "running")
      /\ EnrichmentTypes' /\ Moved(r)
  BY DEF EnrichmentInv, EnrichmentTypes, Moved, Places
<1>2. manifests'[r].status = "running" /\ manifests'[r].jobs = replied[r]
  BY <1>1 DEF Manifest
<1>3. replied[r] = charged[r] /\ charged[r] \in Seq(Nat) /\ runner[r].ceiling \in Nat
  BY DEF EnrichmentInv, EnrichmentTypes, ChargesKnown
<1>4. Total(charged[r]) \in Nat
  BY <1>3, TotalOfAppend
<1>5. next = "posting" => Total(charged[r]) <= runner[r].ceiling
  BY <1>3, <1>4
<1> HIDE DEF next
<1>6. next \in {"posting", "exceeded"}
  BY DEF next
<1>7. ChargesKnown(r)'
  BY <1>1, <1>3, <1>5, <1>6 DEF EnrichmentInv, ChargesKnown
<1>8. ChargesRecorded(r)'
  BY <1>1, <1>2, <1>3, <1>6 DEF EnrichmentInv, ChargesRecorded
<1> QED
  BY <1>1, <1>7, <1>8, OneRunMoves

LEMMA StopKeeps ==
  ASSUME EnrichmentInv, NEW r \in EnrichmentRuns, StopAboveCeiling(r)
  PROVE  EnrichmentInv'
<1> USE DEF StopAboveCeiling, Save, Goto
<1>1. /\ runner'[r] = [at |-> "stopped", ceiling |-> runner[r].ceiling]
      /\ manifests'[r] = Manifest(r, "cost_ceiling_exceeded")
      /\ EnrichmentTypes' /\ Moved(r)
  BY DEF EnrichmentInv, EnrichmentTypes, Moved, Places
<1>2. /\ manifests'[r].status = "cost_ceiling_exceeded"
      /\ manifests'[r].jobs = replied[r] /\ replied[r] = charged[r]
  BY <1>1 DEF Manifest, EnrichmentInv, ChargesKnown
<1>3. ChargesKnown(r)'
  BY <1>1 DEF EnrichmentInv, ChargesKnown
<1>4. ChargesRecorded(r)'
  BY <1>1, <1>2 DEF ChargesRecorded
<1> QED
  BY <1>1, <1>3, <1>4, OneRunMoves

LEMMA CompleteKeeps ==
  ASSUME EnrichmentInv, NEW r \in EnrichmentRuns, CompleteRun(r)
  PROVE  EnrichmentInv'
<1> USE DEF CompleteRun, AllRecorded, Save, Goto
<1>1. /\ runner'[r] = [at |-> "ended", ceiling |-> runner[r].ceiling]
      /\ manifests'[r] = Manifest(r, "complete")
      /\ EnrichmentTypes' /\ Moved(r)
  BY DEF EnrichmentInv, EnrichmentTypes, Moved, Places
<1>2. manifests'[r].jobs = replied[r] /\ replied[r] = charged[r]
  BY <1>1 DEF Manifest, EnrichmentInv, ChargesKnown
<1>3. ChargesKnown(r)'
  BY <1>1 DEF EnrichmentInv, ChargesKnown
<1>4. ChargesRecorded(r)'
  BY <1>1, <1>2 DEF ChargesRecorded
<1> QED
  BY <1>1, <1>3, <1>4, OneRunMoves

LEMMA CrashKeeps ==
  ASSUME EnrichmentInv, NEW r \in EnrichmentRuns, CrashRun(r)
  PROVE  EnrichmentInv'
<1> USE DEF CrashRun, Goto
<1>1. /\ runner'[r] = [at |-> "stopped", ceiling |-> runner[r].ceiling]
      /\ manifests'[r] = manifests[r] \/ manifests'[r] = Torn
      /\ EnrichmentTypes' /\ Moved(r)
  BY DEF EnrichmentInv, EnrichmentTypes, Moved, Places
<1>2. ChargesKnown(r)'
  BY <1>1 DEF EnrichmentInv, ChargesKnown
<1>3. ChargesRecorded(r)'
  BY <1>1 DEF EnrichmentInv, ChargesRecorded, Readable
<1> QED
  BY <1>1, <1>2, <1>3, OneRunMoves

\* Whenever the script dies a manifest that can be read lacks one charge of its
\* run at most, no job is posted once the charges are above the ceiling, and
\* evidence that loads has every charge, for any number of runs and jobs and any
\* prices, ceilings and balance (acquire-data-provider-b-enrichment).
THEOREM ChargesAreKnown == EnrichmentSpec => []ChargesAreKnownButForOneJob
<1>1. EnrichmentInit => EnrichmentInv
  <2> SUFFICES ASSUME EnrichmentInit PROVE EnrichmentInv
    OBVIOUS
  <2>1. EnrichmentTypes
    BY EmptySeq DEF EnrichmentInit, EnrichmentTypes, Places
  <2>2. \A r \in EnrichmentRuns : ChargesKnown(r) /\ ChargesRecorded(r)
    BY DEF EnrichmentInit, ChargesKnown, ChargesRecorded, Readable
  <2> QED
    BY <2>1, <2>2 DEF EnrichmentInv
<1>2. EnrichmentInv /\ [EnrichmentNext]_enrichmentVars => EnrichmentInv'
  <2>1. ASSUME EnrichmentInv, UNCHANGED enrichmentVars PROVE EnrichmentInv'
    BY <2>1 DEF enrichmentVars, EnrichmentInv, EnrichmentTypes, ChargesKnown, ChargesRecorded, Readable
  <2> QED
    BY <2>1, StartRunKeeps, SaveFirstKeeps, PostJobKeeps, LoseJobKeeps, KeepReplyKeeps,
       RecordJobKeeps, StopKeeps, CompleteKeeps, CrashKeeps DEF EnrichmentNext
<1> QED
  BY <1>1, <1>2, EnrichmentFollows, PTL DEF EnrichmentSpec

-----------------------------------------------------------------------------
(* CapabilityAttestation, for every set of capabilities, commands and paths. *)
(*                                                                           *)
(* What an audit saw of a file was there no later than what a command ran    *)
(* on, and that no later than what there is now.  Where the first and the    *)
(* last have one content and the second another, the file was changed and    *)
(* changed back.                                                             *)

Status == [content : Versions \cup {Absent}, edit : Nat]

\* A file was so no later than it was otherwise: it is the same or of an earlier edit.
NotAfter(s, t) == s = t \/ s.edit < t.edit
NoneAfter(seen, now) == \A path \in Paths : NotAfter(seen[path], now[path])

TreeInv ==
  /\ edits \in Nat
  /\ tree \in [Paths -> Status]
  /\ \A path \in Paths : tree[path].edit <= edits

\* The digests of a target are those of the files that the audit saw.
ArtifactsWere(artifacts, c, on) == \A path \in ArtifactsOf[c] : artifacts[path] = on[path].content
CommandWas(commands, command, on) == commands[command] = on[TargetOf[command]].content

\* What an audit read of its targets was there before a tree.
SeenBefore(seen, now) ==
  /\ seen.on \in [Paths -> Status] /\ NoneAfter(seen.on, now)
  /\ \A c \in seen.targets :
       /\ c \in Capabilities
       /\ ArtifactsWere(seen.artifacts[c], c, seen.on)
       /\ \A command \in CommandsOf[c] :
            TargetOf[command] \in Paths /\ CommandWas(seen.commands[c], command, seen.on)

AuditInv == audit # NoAudit => SeenBefore(audit, tree)

RanBefore(result) == result.on \in [Paths -> Status] /\ NoneAfter(result.on, tree)

RunInv ==
  run # NoRun =>
    /\ run = [of |-> run.of, results |-> run.results]
    /\ SeenBefore(run.of, tree)
    /\ \A result \in run.results : SeenBefore(run.of, result.on) /\ RanBefore(result)

\* A command that passed on files no older than those the audit saw.
PassedAfter(done, command, on) ==
  \E result \in done :
    /\ result.command = command /\ result.passed
    /\ RanBefore(result) /\ NoneAfter(on, result.on)

ReceiptInv ==
  receipt # NoReceipt /\ receipt.allPassed =>
    /\ receipt.auditedOn \in [Paths -> Status]
    /\ \A c \in DOMAIN receipt.rows :
         /\ ArtifactsWere(receipt.rows[c].artifacts, c, receipt.auditedOn)
         /\ \A command \in CommandsOf[c] :
              /\ TargetOf[command] \in Paths
              /\ CommandWas(receipt.rows[c].commands, command, receipt.auditedOn)
              /\ PassedAfter(receipt.results, command, receipt.auditedOn)

AttestationInv == TreeInv /\ AuditInv /\ RunInv /\ ReceiptInv

-----------------------------------------------------------------------------
LEMMA NotAfterTransitive ==
  ASSUME NEW s \in Status, NEW t \in Status, NEW u \in Status, NotAfter(s, t), NotAfter(t, u)
  PROVE  NotAfter(s, u)
BY DEF Status, NotAfter

LEMMA NoneAfterTransitive ==
  ASSUME NEW seen \in [Paths -> Status], NEW now \in [Paths -> Status],
         NEW later \in [Paths -> Status], NoneAfter(seen, now), NoneAfter(now, later)
  PROVE  NoneAfter(seen, later)
<1> SUFFICES ASSUME NEW path \in Paths PROVE NotAfter(seen[path], later[path])
  BY DEF NoneAfter
<1>1. seen[path] \in Status /\ now[path] \in Status /\ later[path] \in Status
  OBVIOUS
<1> QED
  BY <1>1, NotAfterTransitive DEF NoneAfter

\* The content in between is that of both ends, or there was an edit on each side.
LEMMA SameOrChangedAndBack ==
  ASSUME NEW s \in Status, NEW t \in Status, NEW u \in Status, NotAfter(s, t), NotAfter(t, u),
         s.content = u.content
  PROVE  t.content = u.content \/ ChangedAndBack(s, t, u)
BY DEF Status, NotAfter, ChangedAndBack

\* An edit leaves a later file.
LEMMA EditIsLater ==
  ASSUME TreeInv, NEW p \in Paths, NEW content \in Versions \cup {Absent}, Edit(p, content)
  PROVE  TreeInv' /\ NoneAfter(tree, tree')
BY DEF TreeInv, Edit, NotAfter, NoneAfter, Status

LEMMA SeenStays ==
  ASSUME NEW seen, NEW now \in [Paths -> Status], NEW later \in [Paths -> Status],
         SeenBefore(seen, now), NoneAfter(now, later)
  PROVE  SeenBefore(seen, later)
BY NoneAfterTransitive DEF SeenBefore

LEMMA EditKeeps ==
  ASSUME AttestationInv, NEW p \in Paths, NEW content \in Versions \cup {Absent},
         Edit(p, content)
  PROVE  AttestationInv'
<1>1. TreeInv' /\ NoneAfter(tree, tree')
  BY EditIsLater DEF AttestationInv
<1>2. tree \in [Paths -> Status] /\ tree' \in [Paths -> Status]
  BY <1>1 DEF AttestationInv, TreeInv
<1>3. UNCHANGED <<audit, run, receipt>>
  BY DEF Edit
<1>4. AuditInv'
  BY <1>1, <1>2, <1>3, SeenStays DEF AttestationInv, AuditInv
<1>5. \A result : RanBefore(result) => RanBefore(result)'
  BY <1>1, <1>2, NoneAfterTransitive DEF RanBefore
<1>6. RunInv'
  BY <1>1, <1>2, <1>3, <1>5, SeenStays DEF AttestationInv, RunInv
<1>7. ReceiptInv'
  BY <1>3, <1>5 DEF AttestationInv, ReceiptInv, PassedAfter
<1> QED
  BY <1>1, <1>4, <1>6, <1>7 DEF AttestationInv

LEMMA AuditKeeps ==
  ASSUME AttestationInv, BuildAudit
  PROVE  AttestationInv'
<1>1. SeenBefore(audit', tree)
  <2>1. audit'.on = tree /\ tree \in [Paths -> Status] /\ NoneAfter(tree, tree)
    BY DEF BuildAudit, AttestationInv, TreeInv, NoneAfter, NotAfter
  <2>2. ASSUME NEW c \in audit'.targets
        PROVE  /\ c \in Capabilities
               /\ ArtifactsWere(audit'.artifacts[c], c, tree)
               /\ \A command \in CommandsOf[c] :
                    TargetOf[command] \in Paths /\ CommandWas(audit'.commands[c], command, tree)
    <3>1. /\ c \in Capabilities
          /\ EvidenceIntegrity(c) = "integrity_verified_execution_not_attested"
      BY <2>2, AttestationAssumption DEF BuildAudit
    <3>2. audit'.artifacts[c] = ArtifactSet(c) /\ audit'.commands[c] = CommandSet(c)
      BY <3>1 DEF BuildAudit
    <3>3. \A command \in CommandsOf[c] : Present(TargetOf[command])
      BY <3>1 DEF EvidenceIntegrity
    <3>4. ArtifactsWere(audit'.artifacts[c], c, tree)
      BY <3>2 DEF ArtifactsWere, ArtifactSet
    <3>5. ASSUME NEW command \in CommandsOf[c]
          PROVE  TargetOf[command] \in Paths /\ CommandWas(audit'.commands[c], command, tree)
      <4>1. TargetOf[command] \in Paths
        BY <3>1, <3>3, AttestationAssumption DEF Present
      <4> QED
        BY <4>1, <3>2, <3>3 DEF CommandSet, CommandWas
    <3> QED
      BY <3>1, <3>4, <3>5
  <2> QED
    BY <2>1, <2>2 DEF SeenBefore
<1>2. UNCHANGED <<tree, inventory, edits, run, receipt>>
  BY DEF BuildAudit
<1> QED
  BY <1>1, <1>2 DEF AttestationInv, TreeInv, AuditInv, RunInv, ReceiptInv, RanBefore, PassedAfter

LEMMA StartAttestationKeeps ==
  ASSUME AttestationInv, StartAttestation
  PROVE  AttestationInv'
<1>1. UNCHANGED <<tree, inventory, edits, audit, receipt>> /\ audit # NoAudit
  BY DEF StartAttestation
<1>2. run'.of = audit /\ run'.results = {} /\ run' = [of |-> audit, results |-> {}]
  BY DEF StartAttestation
<1>3. RunInv'
  BY <1>1, <1>2 DEF AttestationInv, AuditInv, RunInv
<1> QED
  BY <1>1, <1>3 DEF AttestationInv, TreeInv, AuditInv, ReceiptInv, RanBefore, PassedAfter

LEMMA RunCommandKeeps ==
  ASSUME AttestationInv, NEW command, NEW passed, RunCommand(command, passed)
  PROVE  AttestationInv'
<1>1. UNCHANGED <<tree, inventory, edits, audit, receipt>> /\ run # NoRun
  BY DEF RunCommand
<1> DEFINE new == [command |-> command, passed |-> passed, on |-> tree]
<1>2. run = [of |-> run.of, results |-> run.results]
  BY <1>1 DEF AttestationInv, RunInv
<1>3. run' = [of |-> run.of, results |-> run.results \cup {new}]
  BY <1>2 DEF RunCommand
<1>4. run'.of = run.of /\ run'.results = run.results \cup {new}
  BY <1>3
<1>5. new.on = tree /\ tree \in [Paths -> Status]
  BY DEF AttestationInv, TreeInv
<1>6. RanBefore(new)
  BY <1>5 DEF RanBefore, NoneAfter, NotAfter
<1>7. SeenBefore(run.of, new.on)
  BY <1>1, <1>5 DEF AttestationInv, RunInv
<1> HIDE DEF new
<1>8. RunInv'
  <2>1. \A result \in run.results : SeenBefore(run.of, result.on) /\ RanBefore(result)
    BY <1>1 DEF AttestationInv, RunInv
  <2>2. \A result \in run'.results : SeenBefore(run'.of, result.on) /\ RanBefore(result)'
    BY <1>1, <1>4, <1>6, <1>7, <2>1 DEF RanBefore
  <2>3. SeenBefore(run'.of, tree')
    BY <1>1, <1>4 DEF AttestationInv, RunInv
  <2> QED
    BY <1>3, <1>4, <2>2, <2>3 DEF RunInv
<1> QED
  BY <1>1, <1>8 DEF AttestationInv, TreeInv, AuditInv, ReceiptInv, RanBefore, PassedAfter

LEMMA WriteReceiptKeeps ==
  ASSUME AttestationInv, WriteReceipt
  PROVE  AttestationInv'
<1>1. UNCHANGED <<tree, inventory, edits, audit>> /\ run # NoRun /\ run' = NoRun
  BY DEF WriteReceipt
<1>2. /\ receipt'.allPassed <=> (Ran = UniqueCommands /\ ~Stopped)
      /\ DOMAIN receipt'.rows = run.of.targets
      /\ receipt'.results = run.results /\ receipt'.auditedOn = run.of.on
      /\ \A c \in run.of.targets :
           /\ receipt'.rows[c].artifacts = run.of.artifacts[c]
           /\ receipt'.rows[c].commands = run.of.commands[c]
  BY DEF WriteReceipt, RecordedArtifacts
<1>3. /\ SeenBefore(run.of, tree)
      /\ \A result \in run.results : SeenBefore(run.of, result.on) /\ RanBefore(result)
  BY <1>1 DEF AttestationInv, RunInv
<1>4. ReceiptInv'
  <2>1. ASSUME Ran = UniqueCommands, ~Stopped, NEW c \in run.of.targets,
               NEW command \in CommandsOf[c]
        PROVE  PassedAfter(run.results, command, run.of.on)
    <3>1. command \in Ran
      BY <2>1 DEF UniqueCommands
    <3>2. PICK result \in run.results : result.command = command
      BY <3>1 DEF Ran
    <3>3. result.passed
      BY <2>1, <3>2 DEF Stopped
    <3>4. NoneAfter(run.of.on, result.on) /\ RanBefore(result)
      BY <1>3 DEF SeenBefore
    <3> QED
      BY <3>2, <3>3, <3>4 DEF PassedAfter
  <2>2. \A done, command, on :
          PassedAfter(done, command, on) => PassedAfter(done, command, on)'
    BY <1>1 DEF PassedAfter, RanBefore
  <2>3. \A c \in run.of.targets :
          /\ ArtifactsWere(run.of.artifacts[c], c, run.of.on)
          /\ \A command \in CommandsOf[c] :
               TargetOf[command] \in Paths /\ CommandWas(run.of.commands[c], command, run.of.on)
    BY <1>3 DEF SeenBefore
  <2>4. run.of.on \in [Paths -> Status]
    BY <1>3 DEF SeenBefore
  <2> QED
    BY <1>1, <1>2, <2>1, <2>2, <2>3, <2>4 DEF ReceiptInv
<1> QED
  BY <1>1, <1>4 DEF AttestationInv, TreeInv, AuditInv, RunInv

LEMMA AttestationInvariant == AttestationSpec => []AttestationInv
<1>1. AttestationInit => AttestationInv
  <2> SUFFICES ASSUME AttestationInit PROVE TreeInv
    BY DEF AttestationInit, AttestationInv, AuditInv, RunInv, ReceiptInv
  <2> QED
    BY AttestationAssumption DEF AttestationInit, TreeInv, Status
<1>2. AttestationInv /\ [AttestationNext]_attestationVars => AttestationInv'
  <2> SUFFICES ASSUME AttestationInv, [AttestationNext]_attestationVars PROVE AttestationInv'
    OBVIOUS
  <2> USE DEF AttestationInv
  <2>1. CASE \E path \in Paths, content \in Versions \cup {Absent} : Edit(path, content)
    BY <2>1, EditKeeps
  <2>2. CASE EditInventory
    <3>1. TreeInv'
      BY <2>2 DEF EditInventory, TreeInv, Status
    <3> QED
      BY <2>2, <3>1 DEF EditInventory, AuditInv, RunInv, ReceiptInv, RanBefore, PassedAfter
  <2>3. CASE BuildAudit
    BY <2>3, AuditKeeps
  <2>4. CASE StartAttestation
    BY <2>4, StartAttestationKeeps
  <2>5. CASE \E command \in DOMAIN TargetOf, passed \in BOOLEAN : RunCommand(command, passed)
    BY <2>5, RunCommandKeeps
  <2>6. CASE WriteReceipt
    BY <2>6, WriteReceiptKeeps
  <2>7. CASE AbortAttestation
    BY <2>7 DEF AbortAttestation, TreeInv, AuditInv, RunInv, ReceiptInv, RanBefore, PassedAfter
  <2>8. CASE UNCHANGED attestationVars
    BY <2>8 DEF attestationVars, TreeInv, AuditInv, RunInv, ReceiptInv, RanBefore, PassedAfter
  <2> QED
    BY <2>1, <2>2, <2>3, <2>4, <2>5, <2>6, <2>7, <2>8 DEF AttestationNext
<1> QED
  BY <1>1, <1>2, PTL DEF AttestationSpec

LEMMA ProvenFollows ==
  ASSUME AttestationInv
  PROVE  ProvenMeansPassedOnTheseFiles
<1> SUFFICES ASSUME NEW c \in Capabilities, ProvenComplete(c), NEW command \in CommandsOf[c]
             PROVE  \E result \in receipt.results :
                      /\ result.command = command
                      /\ result.passed
                      /\ \A path \in ArtifactsOf[c] \cup {TargetOf[command]} :
                           \/ result.on[path].content = tree[path].content
                           \/ ChangedAndBack(receipt.auditedOn[path], result.on[path], tree[path])
  BY DEF ProvenMeansPassedOnTheseFiles
<1>1. /\ receipt # NoReceipt /\ receipt.allPassed
      /\ c \in DOMAIN receipt.rows
      /\ receipt.rows[c].artifacts = ArtifactSet(c)
      /\ receipt.rows[c].commands = CommandSet(c)
  BY DEF ProvenComplete, MatchesCapabilityAttestation
<1>2. /\ receipt.auditedOn \in [Paths -> Status]
      /\ ArtifactsWere(receipt.rows[c].artifacts, c, receipt.auditedOn)
      /\ TargetOf[command] \in Paths
      /\ CommandWas(receipt.rows[c].commands, command, receipt.auditedOn)
      /\ PassedAfter(receipt.results, command, receipt.auditedOn)
  BY <1>1 DEF AttestationInv, ReceiptInv
<1>3. PICK result \in receipt.results :
        /\ result.command = command /\ result.passed
        /\ RanBefore(result) /\ NoneAfter(receipt.auditedOn, result.on)
  BY <1>2 DEF PassedAfter
<1>4. Present(TargetOf[command])
  BY DEF ProvenComplete, EvidenceIntegrity
<1>5. ASSUME NEW path \in Paths, receipt.auditedOn[path].content = tree[path].content
      PROVE  \/ result.on[path].content = tree[path].content
             \/ ChangedAndBack(receipt.auditedOn[path], result.on[path], tree[path])
  <2>1. /\ receipt.auditedOn[path] \in Status /\ result.on[path] \in Status
        /\ tree[path] \in Status
    BY <1>2, <1>3 DEF RanBefore, AttestationInv, TreeInv
  <2>2. /\ NotAfter(receipt.auditedOn[path], result.on[path])
        /\ NotAfter(result.on[path], tree[path])
    BY <1>3 DEF RanBefore, NoneAfter
  <2> QED
    BY <1>5, <2>1, <2>2, SameOrChangedAndBack
<1>6. \A path \in ArtifactsOf[c] :
        path \in Paths /\ receipt.auditedOn[path].content = tree[path].content
  BY <1>1, <1>2, AttestationAssumption DEF ArtifactSet, ArtifactsWere
<1>7. receipt.auditedOn[TargetOf[command]].content = tree[TargetOf[command]].content
  BY <1>1, <1>2, <1>4 DEF CommandSet, CommandWas
<1> QED
  BY <1>2, <1>3, <1>5, <1>6, <1>7

\* A capability is proven complete only when each of its commands passed, after
\* the audit the proof goes by, on the very files there are now, or on a file that
\* was changed and later changed back: for any capabilities and commands, any
\* contents, and however edits, audits and attestations are interleaved
\* (matchesCapabilityAttestation).
THEOREM ProvenIsProven == AttestationSpec => []ProvenMeansPassedOnTheseFiles
BY AttestationInvariant, ProvenFollows, PTL

-----------------------------------------------------------------------------
(* SerpDepthInventory, for every target depth and set of tasks: the ranks that *)
(* were seen of a task only come more, and what the summary counts by page and *)
(* by state are the rows that are there.                                     *)

\* The ranks that decide the depth of a task only come more.
LEMMA RanksGrow ==
  ASSUME DepthNext \/ UNCHANGED depthVars, NEW task
  PROVE  RowsOf(task) \subseteq RowsOf(task)' /\ RanksOf(task) \subseteq RanksOf(task)'
<1>1. organic \subseteq organic'
  BY DEF DepthNext, InsertFirstPages, InsertResult, InsertPage, depthVars
<1>2. RowsOf(task) \subseteq RowsOf(task)'
  BY <1>1 DEF RowsOf
<1> QED
  BY <1>2 DEF RanksOf

\* Every state of a task is a condition on its ranks, in an order.
OrderOf(task, rows, ranks) ==
  IF rows = {} THEN 0
  ELSE IF 1..TargetDepth \subseteq ranks THEN 4
  ELSE IF \E rank \in ranks : rank > TargetDepth THEN 3
  ELSE IF \E rank \in ranks : rank > TaskDepth(task) THEN 2
  ELSE 1

DepthOrders ==
  \A task : DepthOrder(DepthState(task)) = OrderOf(task, RowsOf(task), RanksOf(task))

LEMMA DepthIsAnOrder == DepthOrders
<1> SUFFICES ASSUME NEW task
             PROVE  DepthOrder(DepthState(task)) = OrderOf(task, RowsOf(task), RanksOf(task))
  BY DEF DepthOrders
<1>1. NotObserved(task, TargetDepth, 1) = {} <=> 1..TargetDepth \subseteq RanksOf(task)
  BY DEF NotObserved, ObservedSlots
<1> QED
  BY <1>1 DEF DepthState, DepthOrder, OrderOf

LEMMA DepthGrows ==
  ASSUME DepthNext \/ UNCHANGED depthVars, NEW task \in DepthTasks
  PROVE  DepthOrder(DepthState(task)) <= DepthOrder(DepthState(task)')
<1>1. RowsOf(task) \subseteq RowsOf(task)' /\ RanksOf(task) \subseteq RanksOf(task)'
  BY RanksGrow
<1>2. DepthOrders /\ DepthOrders'
  BY DepthIsAnOrder, PTL
<1>3. /\ DepthOrder(DepthState(task)) = OrderOf(task, RowsOf(task), RanksOf(task))
      /\ DepthOrder(DepthState(task)') = OrderOf(task, RowsOf(task)', RanksOf(task)')
  BY <1>2 DEF DepthOrders, OrderOf
<1>4. OrderOf(task, RowsOf(task), RanksOf(task)) <= OrderOf(task, RowsOf(task)', RanksOf(task)')
  BY <1>1 DEF OrderOf
<1> QED
  BY <1>3, <1>4

\* Retaining more rows never lowers the depth a task is said to reach, for every
\* table of results, declared depth and target (buildSerpDepthInventory).
THEOREM DepthStays == DepthSpec => DepthNeverRegresses
<1>1. [DepthNext]_depthVars =>
        [\A task \in DepthTasks :
           DepthOrder(DepthState(task)) <= DepthOrder(DepthState(task)')]_depthVars
  BY DepthGrows
<1> QED
  BY <1>1, PTL DEF DepthSpec, DepthNeverRegresses

-----------------------------------------------------------------------------
(* The content ledger                                                        *)

DepthInv == IsFiniteSet(organic) /\ IsFiniteSet(pageEvidence)

LEMMA DepthTablesAreFinite == DepthSpec => []DepthInv
<1>1. DepthInit => DepthInv
  BY FS_EmptySet DEF DepthInit, DepthInv
<1>2. DepthInv /\ [DepthNext]_depthVars => DepthInv'
  BY DepthAssumption, FS_AddElement
  DEF DepthInv, DepthNext, InsertFirstPages, InsertResult, InsertPage, depthVars
<1> QED
  BY <1>1, <1>2, PTL DEF DepthSpec

LEMMA DeepRowsAreFinite ==
  ASSUME DepthInv, NEW task
  PROVE  /\ IsFiniteSet(Rank11To20(task)) /\ IsFiniteSet(Parsed(task)) /\ IsFiniteSet(Unparsed(task))
         /\ Cardinality(Parsed(task)) \in Nat /\ Cardinality(Unparsed(task)) \in Nat
         /\ Cardinality(Rank11To20(task)) = Cardinality(Parsed(task)) + Cardinality(Unparsed(task))
<1>1. IsFiniteSet(Rank11To20(task)) /\ Parsed(task) \subseteq Rank11To20(task)
  <2>1. Rank11To20(task) \subseteq organic
    BY DEF Rank11To20, RowsOf
  <2> QED
    BY <2>1, FS_Subset DEF DepthInv, Parsed
<1>2. PICK deep, parsed : deep = Rank11To20(task) /\ parsed = Parsed(task)
  OBVIOUS
<1>3. Unparsed(task) = deep \ parsed /\ deep \cap parsed = parsed
  BY <1>1, <1>2 DEF Unparsed
<1>4. /\ IsFiniteSet(parsed) /\ IsFiniteSet(deep \ parsed)
      /\ Cardinality(deep \ parsed) = Cardinality(deep) - Cardinality(parsed)
  <2>1. /\ IsFiniteSet(deep \ parsed)
        /\ Cardinality(deep \ parsed) = Cardinality(deep) - Cardinality(deep \cap parsed)
    BY <1>1, <1>2, FS_Difference
  <2> QED
    BY <1>1, <1>2, <1>3, <2>1, FS_Subset
<1>5. Cardinality(deep) \in Nat /\ Cardinality(parsed) \in Nat /\ Cardinality(deep \ parsed) \in Nat
  BY <1>1, <1>2, <1>4, FS_CardinalityType
<1> QED
  BY <1>1, <1>2, <1>3, <1>4, <1>5

\* The sums of the ledger are sums of functions of the tasks.
DeepOf == [task \in DepthTasks |-> Cardinality(Rank11To20(task))]
ParsedOf == [task \in DepthTasks |-> Cardinality(Parsed(task))]
UnparsedOf == [task \in DepthTasks |-> Cardinality(Unparsed(task))]
PagesOfTasks == [task \in DepthTasks |-> PagesOf(Parsed(task))]
InContentState(state) == {task \in DepthTasks : ContentState(task) = state}

LEMMA SummaryFields ==
  /\ DepthSummary(DepthTasks).deep = Sum(DeepOf, DepthTasks)
  /\ ContentSummary(DepthTasks).parsed = Sum(ParsedOf, DepthTasks)
  /\ ContentSummary(DepthTasks).unparsed = Sum(UnparsedOf, DepthTasks)
  /\ ContentSummary(DepthTasks).pages = Sum(PagesOfTasks, DepthTasks)
  /\ ContentSummary(DepthTasks).deepTasks =
       Cardinality({task \in DepthTasks : Rank11To20(task) # {}})
  /\ \A state \in {"rank_11_20_serp_only", "rank_11_20_content_observed",
                   "rank_11_20_mixed_content_coverage"} :
       ContentSummary(DepthTasks).inState[state] = Cardinality(InContentState(state))
<1>1. DepthSummary(DepthTasks).deep = Sum(DeepOf, DepthTasks)
  BY DEF DepthSummary, Sum, DeepOf
<1>2. /\ ContentSummary(DepthTasks).parsed = Sum(ParsedOf, DepthTasks)
      /\ ContentSummary(DepthTasks).unparsed = Sum(UnparsedOf, DepthTasks)
      /\ ContentSummary(DepthTasks).pages = Sum(PagesOfTasks, DepthTasks)
  BY DEF ContentSummary, Sum, ParsedOf, UnparsedOf, PagesOfTasks
<1>3. ContentSummary(DepthTasks).deepTasks =
        Cardinality({task \in DepthTasks : Rank11To20(task) # {}})
  BY DEF ContentSummary
<1>4. ContentSummary(DepthTasks).inState =
        [state \in {"rank_11_20_serp_only", "rank_11_20_content_observed",
                    "rank_11_20_mixed_content_coverage"} |-> Cardinality(InContentState(state))]
  BY DEF ContentSummary, InContentState
<1> QED
  BY <1>1, <1>2, <1>3, <1>4

\* A parsed row has at least one page.
LEMMA PagesOfParsed ==
  ASSUME DepthInv, NEW task
  PROVE  PagesOf(Parsed(task)) \in Nat /\ Cardinality(Parsed(task)) <= PagesOf(Parsed(task))
<1> DEFINE pages == [row \in Parsed(task) |-> Cardinality(SuccessfulEvidence(row))]
<1>1. ASSUME NEW row \in Parsed(task) PROVE pages[row] \in Nat \ {0}
  <2>1. SuccessfulEvidence(row) \subseteq pageEvidence /\ SuccessfulEvidence(row) # {}
    BY DEF Parsed, SuccessfulEvidence, EvidenceOf
  <2>2. IsFiniteSet(SuccessfulEvidence(row))
    BY <2>1, FS_Subset DEF DepthInv
  <2>3. Cardinality(SuccessfulEvidence(row)) \in Nat /\ Cardinality(SuccessfulEvidence(row)) # 0
    BY <2>1, <2>2, FS_CardinalityType, FS_EmptySet
  <2> QED
    BY <2>3
<1>2. PagesOf(Parsed(task)) = Sum(pages, Parsed(task))
  BY DEF PagesOf, Sum
<1> HIDE DEF pages
<1> QED
  BY <1>1, <1>2, DeepRowsAreFinite, SumCounts, SumType

\* A task with deep rows is in one of three states.
LEMMA DeepTasksByState ==
  ASSUME DepthInv
  PROVE  LET serp == InContentState("rank_11_20_serp_only")
             observed == InContentState("rank_11_20_content_observed")
             mixed == InContentState("rank_11_20_mixed_content_coverage")
             deep == {task \in DepthTasks : Rank11To20(task) # {}}
         IN /\ IsFiniteSet(serp) /\ IsFiniteSet(observed \cup mixed)
            /\ Cardinality(serp) \in Nat /\ Cardinality(observed) \in Nat /\ Cardinality(mixed) \in Nat
            /\ Cardinality(deep) = Cardinality(serp) + Cardinality(observed) + Cardinality(mixed)
            /\ Cardinality(observed \cup mixed) = Cardinality(observed) + Cardinality(mixed)
            /\ observed \cup mixed = {task \in DepthTasks : Parsed(task) # {}}
<1> DEFINE serp == InContentState("rank_11_20_serp_only")
           observed == InContentState("rank_11_20_content_observed")
           mixed == InContentState("rank_11_20_mixed_content_coverage")
           deep == {task \in DepthTasks : Rank11To20(task) # {}}
<1>1. \A task : Parsed(task) # {} => Rank11To20(task) # {}
  BY DEF Parsed
<1>2. /\ deep = serp \cup (observed \cup mixed)
      /\ serp \cap (observed \cup mixed) = {} /\ observed \cap mixed = {}
      /\ observed \cup mixed = {task \in DepthTasks : Parsed(task) # {}}
  BY <1>1 DEF InContentState, ContentState
<1>3. serp \subseteq DepthTasks /\ observed \subseteq DepthTasks /\ mixed \subseteq DepthTasks
  BY DEF InContentState
<1> HIDE DEF serp, observed, mixed, deep
<1>4. IsFiniteSet(serp) /\ IsFiniteSet(observed) /\ IsFiniteSet(mixed)
  BY <1>3, DepthAssumption, FS_Subset
<1>5. PICK rest : rest = observed \cup mixed
  OBVIOUS
<1>6. IsFiniteSet(rest) /\ Cardinality(rest) = Cardinality(observed) + Cardinality(mixed)
  BY <1>2, <1>4, <1>5, DisjointUnionCounts
<1>7. Cardinality(deep) = Cardinality(serp) + Cardinality(rest)
  BY <1>2, <1>4, <1>5, <1>6, DisjointUnionCounts
<1>8. Cardinality(serp) \in Nat /\ Cardinality(observed) \in Nat /\ Cardinality(mixed) \in Nat
  BY <1>4, FS_CardinalityType
<1>9. Cardinality(deep) = Cardinality(serp) + Cardinality(observed) + Cardinality(mixed)
  BY <1>6, <1>7, <1>8
<1> QED
  BY <1>2, <1>4, <1>5, <1>6, <1>8, <1>9 DEF serp, observed, mixed, deep

\* The sums of the content ledger, its states of the tasks and the rows of the
\* depth ledger are one account, for every finite set of tasks, every table of
\* results and every evidence of pages (buildSerpDepthContentCoverage).
THEOREM DeepRowsAreAccountedFor == DepthSpec => []ContentCoverageAccountsForEveryRow
<1>1. ASSUME DepthInv PROVE ContentCoverageAccountsForEveryRow
  <2> DEFINE summary == ContentSummary(DepthTasks)
             serp == InContentState("rank_11_20_serp_only")
             observed == InContentState("rank_11_20_content_observed")
             mixed == InContentState("rank_11_20_mixed_content_coverage")
  <2>1. \A task \in DepthTasks :
          /\ ParsedOf[task] \in Nat /\ UnparsedOf[task] \in Nat
          /\ DeepOf[task] = ParsedOf[task] + UnparsedOf[task]
          /\ PagesOfTasks[task] \in Nat /\ ParsedOf[task] <= PagesOfTasks[task]
    BY <1>1, DeepRowsAreFinite, PagesOfParsed DEF ParsedOf, UnparsedOf, DeepOf, PagesOfTasks
  <2>2. summary.parsed + summary.unparsed = DepthSummary(DepthTasks).deep
    BY <2>1, DepthAssumption, SumPlus, SummaryFields
  <2>3. summary.pages >= summary.parsed
    <3>1. Sum(ParsedOf, DepthTasks) <= Sum(PagesOfTasks, DepthTasks)
      BY <2>1, DepthAssumption, SumAtLeast
    <3>2. Sum(ParsedOf, DepthTasks) \in Nat /\ Sum(PagesOfTasks, DepthTasks) \in Nat
      BY <2>1, DepthAssumption, SumType
    <3> QED
      BY <3>1, <3>2, SummaryFields
  <2>4. /\ summary.deepTasks = Cardinality({task \in DepthTasks : Rank11To20(task) # {}})
        /\ summary.inState["rank_11_20_serp_only"] = Cardinality(serp)
        /\ summary.inState["rank_11_20_content_observed"] = Cardinality(observed)
        /\ summary.inState["rank_11_20_mixed_content_coverage"] = Cardinality(mixed)
    BY SummaryFields
  <2>5. /\ IsFiniteSet(observed \cup mixed)
        /\ Cardinality(serp) \in Nat /\ Cardinality(observed) \in Nat /\ Cardinality(mixed) \in Nat
        /\ Cardinality({task \in DepthTasks : Rank11To20(task) # {}}) =
             Cardinality(serp) + Cardinality(observed) + Cardinality(mixed)
        /\ Cardinality(observed \cup mixed) = Cardinality(observed) + Cardinality(mixed)
        /\ observed \cup mixed = {task \in DepthTasks : Parsed(task) # {}}
    BY <1>1, DeepTasksByState
  <2>6. summary.parsed = 0 <=> observed \cup mixed = {}
    <3>1. \A task \in DepthTasks : ParsedOf[task] = 0 <=> Parsed(task) = {}
      BY <1>1, DeepRowsAreFinite, FS_EmptySet DEF ParsedOf
    <3>2. (\A task \in DepthTasks : ParsedOf[task] = 0) <=> Sum(ParsedOf, DepthTasks) = 0
      BY <2>1, DepthAssumption, SumZero, SumIsZero
    <3> QED
      BY <2>5, <3>1, <3>2, SummaryFields
  <2>7. observed \cup mixed = {} <=> Cardinality(observed) + Cardinality(mixed) = 0
    BY <2>5, FS_EmptySet
  <2> HIDE DEF summary, serp, observed, mixed
  <2>8. summary.parsed = 0 <=> summary.deepTasks = summary.inState["rank_11_20_serp_only"]
    <3>1. summary.deepTasks = Cardinality(serp) + Cardinality(observed) + Cardinality(mixed)
      BY <2>4, <2>5
    <3>2. (summary.deepTasks = Cardinality(serp)) <=> (Cardinality(observed) + Cardinality(mixed) = 0)
      BY <2>5, <3>1
    <3> QED
      BY <2>4, <2>6, <2>7, <3>2
  <2>9. \A row \in organic :
          (\A item \in pageEvidence : item.url = row.url => item.status # "ok")
            => row \notin Parsed(row.task)
    BY DEF Parsed, SuccessfulEvidence, EvidenceOf
  <2>10. summary.deepTasks = summary.inState["rank_11_20_serp_only"]
                             + summary.inState["rank_11_20_content_observed"]
                             + summary.inState["rank_11_20_mixed_content_coverage"]
    BY <2>4, <2>5
  <2> QED
    BY <2>2, <2>3, <2>8, <2>9, <2>10 DEF ContentCoverageAccountsForEveryRow, summary
<1> QED
  BY <1>1, DepthTablesAreFinite, PTL

-----------------------------------------------------------------------------
(* SerpDbRetention, for every set of files, contents and selections.         *)
(*                                                                           *)
(* A database is a function of the payloads it was built from, so equal payloads *)
(* are equal tables; and rows are counted in the tables as in the files.     *)

\* A database holds what the import of some contents gave.
DatabaseInv ==
  database # NoDatabase => \E contents, selected : database = Import(contents, selected)

LEMMA ImportedAgain ==
  ASSUME NEW contents, NEW selected
  PROVE  /\ Import(contents, selected).payloads = contents
         /\ Import(contents, Import(contents, selected).connected) = Import(contents, selected)
<1> DEFINE connected == {content \in contents : content.task \in selected}
           tasks == {content.task : content \in connected}
<1>1. {content \in contents : content.task \in tasks} = connected
  OBVIOUS
<1>2. Import(contents, selected).connected = tasks /\ Import(contents, selected).payloads = contents
  BY DEF Import
<1>3. Import(contents, tasks) = Import(contents, selected)
  BY <1>1 DEF Import
<1> QED
  BY <1>2, <1>3

LEMMA DatabaseIsImported == RetentionSpec => []DatabaseInv
<1>1. RetentionInit => DatabaseInv
  BY DEF RetentionInit, DatabaseInv
<1>2. DatabaseInv /\ [RetentionNext]_retentionVars => DatabaseInv'
  <2>1. ASSUME DatabaseInv, UNCHANGED database PROVE DatabaseInv'
    BY <2>1 DEF DatabaseInv
  <2>2. ASSUME NEW selected, BuildDatabase(selected) PROVE DatabaseInv'
    BY <2>2 DEF BuildDatabase, DatabaseInv
  <2> QED
    BY <2>1, <2>2 DEF RetentionNext, WriteRaw, retentionVars
<1> QED
  BY <1>1, <1>2, PTL DEF RetentionSpec

Held == {file \in AuditedFiles : Holds(files[file])}

\* The file of a task the audit reads is one of those that hold it.
LEMMA ReadFile ==
  ASSUME NEW file \in Held
  PROVE  FirstOf({other \in Held : files[other].task = files[file].task})
           \in {other \in Held : files[other].task = files[file].task}
<1> DEFINE part == {other \in Held : files[other].task = files[file].task}
<1>1. file \in part /\ part \subseteq RawFiles
  BY RetentionAssumption DEF Held
<1> QED
  BY <1>1, RetentionAssumption

LEMMA RawTasksAreHeld ==
  /\ RawTasks \subseteq OnDisk(AuditedFiles)
  /\ \A content \in RawTasks : Holds(content)
  /\ \A file \in Held : \E content \in RawTasks : content.task = files[file].task
<1>1. RawTasks = {files[FirstOf({other \in Held : files[other].task = files[file].task})] : file \in Held}
  BY DEF RawTasks, Held
<1>2. OnDisk(AuditedFiles) = {files[file] : file \in Held}
  BY DEF OnDisk, Held
<1> QED
  BY <1>1, <1>2, ReadFile DEF Held

\* As many files as tasks: no file of a task is behind another.
LEMMA NoSecondFile ==
  ASSUME Cardinality(RawTasks) = Cardinality(Held)
  PROVE  RawTasks = OnDisk(AuditedFiles)
<1>1. IsFiniteSet(Held)
  BY RetentionAssumption, FS_Subset DEF Held
<1> DEFINE content == [file \in Held |-> files[file]]
           task == [file \in Held |->
                      files[FirstOf({other \in Held : files[other].task = files[file].task})]]
<1>2. OnDisk(AuditedFiles) = {content[file] : file \in Held}
  BY DEF OnDisk, Held
<1>3. RawTasks = {task[file] : file \in Held}
  BY DEF RawTasks, Held
<1>4. IsFiniteSet(OnDisk(AuditedFiles)) /\ Cardinality(OnDisk(AuditedFiles)) <= Cardinality(Held)
  <2>1. content \in Surjection(Held, {content[file] : file \in Held})
    BY DEF Surjection
  <2> QED
    BY <1>1, <1>2, <2>1, FS_Surjection
<1>5. Cardinality(RawTasks) <= Cardinality(OnDisk(AuditedFiles))
      /\ (Cardinality(RawTasks) = Cardinality(OnDisk(AuditedFiles)) => RawTasks = OnDisk(AuditedFiles))
  BY <1>4, RawTasksAreHeld, FS_Subset
<1>6. /\ Cardinality(Held) \in Nat /\ Cardinality(OnDisk(AuditedFiles)) \in Nat
  BY <1>1, <1>4, FS_CardinalityType
<1> QED
  BY <1>4, <1>5, <1>6

\* What the audit finds clean is what an import of the files would give now, for
\* every set of files and contents and any writes and builds before.  The payloads
\* alone decide it: every row is computed from them (auditSerpDbRetention).
THEOREM CleanMeansSame == RetentionSpec => []CleanAuditMeansDatabaseMatchesFiles
<1>1. DatabaseInv => CleanAuditMeansDatabaseMatchesFiles
  <2> SUFFICES ASSUME DatabaseInv, CleanAudit, Cardinality(RawTasks) = Cardinality(Held)
               PROVE  database = Import(OnDisk(AuditedFiles), database.connected)
    BY DEF CleanAuditMeansDatabaseMatchesFiles, Held
  <2>1. PICK contents, selected : database = Import(contents, selected)
    BY DEF DatabaseInv, CleanAudit
  <2>2. database.payloads = contents /\ Import(contents, database.connected) = database
    BY <2>1, ImportedAgain
  <2>3. /\ \A content \in database.payloads : content.task \in RawTaskIds
        /\ \A content \in RawTasks : PayloadOf(content.task) = {content}
    BY DEF CleanAudit, RawPayloadMatch
  <2>4. database.payloads = RawTasks
    <3>1. RawTasks \subseteq database.payloads
      BY <2>3 DEF PayloadOf
    <3>2. ASSUME NEW stored \in database.payloads PROVE stored \in RawTasks
      <4>1. PICK content \in RawTasks : content.task = stored.task
        BY <2>3 DEF RawTaskIds
      <4>2. stored \in PayloadOf(content.task)
        BY <4>1 DEF PayloadOf
      <4> QED
        BY <2>3, <4>1, <4>2
    <3> QED
      BY <3>1, <3>2
  <2> QED
    BY <2>2, <2>4, NoSecondFile
<1> QED
  BY <1>1, DatabaseIsImported, PTL

-----------------------------------------------------------------------------
(* Features: the n-th that is imported is the one with n - 1 before it       *)

IsFeature(item) == item.type # "organic"
FeaturesBefore(items, n) == Cardinality({m \in 1..(n - 1) : IsFeature(items[m])})

LEMMA CountBefore ==
  ASSUME NEW items
  PROVE  /\ FeaturesBefore(items, 1) = 0
         /\ \A n \in Nat \ {0} :
              /\ FeaturesBefore(items, n) \in Nat
              /\ FeaturesBefore(items, n + 1) = FeaturesBefore(items, n) + (IF IsFeature(items[n]) THEN 1 ELSE 0)
         /\ \A n, m \in Nat \ {0} : n <= m => FeaturesBefore(items, n) <= FeaturesBefore(items, m)
<1> DEFINE part(n) == {m \in 1..(n - 1) : IsFeature(items[m])}
<1>1. \A n \in Nat \ {0} : IsFiniteSet(part(n))
  <2> SUFFICES ASSUME NEW n \in Nat \ {0} PROVE IsFiniteSet(part(n))
    OBVIOUS
  <2>1. IsFiniteSet(1..(n - 1))
    BY FS_Interval
  <2> QED
    BY <2>1, FS_Subset
<1>2. part(1) = {}
  OBVIOUS
<1>3. \A n \in Nat \ {0} : part(n + 1) = IF IsFeature(items[n]) THEN part(n) \cup {n} ELSE part(n)
  <2> SUFFICES ASSUME NEW n \in Nat \ {0}
               PROVE  part(n + 1) = IF IsFeature(items[n]) THEN part(n) \cup {n} ELSE part(n)
    OBVIOUS
  <2>1. 1..((n + 1) - 1) = (1..(n - 1)) \cup {n}
    OBVIOUS
  <2> QED
    BY <2>1
<1>4. \A n \in Nat \ {0} : n \notin part(n)
  OBVIOUS
<1>5. \A n, m \in Nat \ {0} : n <= m => part(n) \subseteq part(m)
  OBVIOUS
<1>6. \A n : FeaturesBefore(items, n) = Cardinality(part(n))
  BY DEF FeaturesBefore
<1> HIDE DEF part
<1>7. \A n \in Nat \ {0} : Cardinality(part(n)) \in Nat
  BY <1>1, FS_CardinalityType
<1>8. \A n \in Nat \ {0} : Cardinality(part(n) \cup {n}) = Cardinality(part(n)) + 1
  BY <1>1, <1>4, FS_AddElement
<1>9. \A n \in Nat \ {0} :
        Cardinality(part(n + 1)) = Cardinality(part(n)) + (IF IsFeature(items[n]) THEN 1 ELSE 0)
  <2> SUFFICES ASSUME NEW n \in Nat \ {0}
               PROVE  Cardinality(part(n + 1)) =
                        Cardinality(part(n)) + (IF IsFeature(items[n]) THEN 1 ELSE 0)
    OBVIOUS
  <2>1. CASE IsFeature(items[n])
    BY <1>3, <1>8, <2>1
  <2>2. CASE ~IsFeature(items[n])
    <3>1. part(n + 1) = part(n)
      BY <1>3, <2>2
    <3> QED
      BY <1>7, <2>2, <3>1
  <2> QED
    BY <2>1, <2>2
<1>10. \A n, m \in Nat \ {0} : n <= m => Cardinality(part(n)) <= Cardinality(part(m))
  BY <1>1, <1>5, FS_Subset
<1>11. Cardinality(part(1)) = 0
  BY <1>2, FS_EmptySet
<1> QED
  BY <1>6, <1>7, <1>9, <1>10, <1>11

\* No two features have the same number of features before them.
LEMMA FeaturesDiffer ==
  ASSUME NEW items, NEW n \in Nat \ {0}, NEW m \in Nat \ {0}, IsFeature(items[n]), n < m
  PROVE  FeaturesBefore(items, n) # FeaturesBefore(items, m)
<1>1. FeaturesBefore(items, n + 1) = FeaturesBefore(items, n) + 1
  BY CountBefore
<1>2. FeaturesBefore(items, n + 1) <= FeaturesBefore(items, m)
  <2>1. n + 1 \in Nat \ {0} /\ n + 1 <= m
    OBVIOUS
  <2> QED
    BY <2>1, CountBefore
<1>3. FeaturesBefore(items, n) \in Nat /\ FeaturesBefore(items, m) \in Nat
  BY CountBefore
<1> QED
  BY <1>1, <1>2, <1>3

FeatureStep(items, n, shorter) ==
  IF n = 0 THEN << >>
  ELSE IF items[n].type # "organic" THEN Append(shorter, items[n])
  ELSE shorter

LEMMA FirstFeaturesRecursion ==
  ASSUME NEW items, Len(items) \in Nat
  PROVE  \A n \in 0..Len(items) :
           FirstFeatures(items)[n] = FeatureStep(items, n, FirstFeatures(items)[n - 1])
<1> DEFINE UpTo(n) == 0..n
           Steps(f, n) == \A m \in UpTo(n) : f[m] = FeatureStep(items, m, f[m - 1])
           T == {n \in Nat : \E f : Steps(f, n)}
<1>1. 0 \in T
  <2>1. Steps([m \in {0} |-> << >>], 0)
    BY DEF FeatureStep
  <2> QED
    BY <2>1
<1>2. ASSUME NEW n \in T PROVE n + 1 \in T
  <2>1. PICK f : Steps(f, n)
    BY <1>2
  <2> DEFINE g == [m \in UpTo(n + 1) |->
                     IF m = n + 1 THEN FeatureStep(items, m, f[n]) ELSE f[m]]
  <2>2. n \in Nat /\ \A m \in UpTo(n + 1) : m \in UpTo(n) \/ m = n + 1
    BY <1>2
  <2>3. \A m \in UpTo(n) : g[m] = f[m]
    BY <2>2
  <2>4. g[n + 1] = FeatureStep(items, n + 1, g[(n + 1) - 1])
    BY <2>2, <2>3
  <2>5. ASSUME NEW m \in UpTo(n) PROVE g[m] = FeatureStep(items, m, g[m - 1])
    <3>1. CASE m = 0
      <4>1. \A shorter : FeatureStep(items, m, shorter) = << >>
        BY <3>1 DEF FeatureStep
      <4>2. f[m] = FeatureStep(items, m, f[m - 1])
        BY <2>1
      <4> QED
        BY <2>3, <4>1, <4>2
    <3>2. CASE m # 0
      <4>1. m - 1 \in UpTo(n)
        BY <2>2, <3>2
      <4> QED
        BY <2>1, <2>3, <4>1
    <3> QED
      BY <3>1, <3>2
  <2>6. Steps(g, n + 1)
    BY <2>2, <2>4, <2>5
  <2> HIDE DEF g
  <2>7. \E h : Steps(h, n + 1)
    BY <2>6
  <2> QED
    BY <2>2, <2>7
<1>3. T = Nat
  <2> HIDE DEF T
  <2>1. T \subseteq Nat
    BY DEF T
  <2> QED
    BY <1>1, <1>2, <2>1, NumberInduction
<1>4. PICK f : Steps(f, Len(items))
  BY <1>3
<1> DEFINE g == [n \in 0..Len(items) |-> f[n]]
           Solves(h) == h = [n \in 0..Len(items) |->
                               IF n = 0 THEN << >>
                               ELSE IF items[n].type # "organic" THEN Append(h[n - 1], items[n])
                               ELSE h[n - 1]]
<1>5. Solves(g)
  <2>1. ASSUME NEW n \in 0..Len(items) PROVE g[n] = FeatureStep(items, n, g[n - 1])
    <3>1. CASE n = 0
      BY <1>4, <3>1 DEF FeatureStep
    <3>2. CASE n # 0
      <4>1. n - 1 \in 0..Len(items)
        BY <3>2
      <4> QED
        BY <1>4, <4>1
    <3> QED
      BY <3>1, <3>2
  <2> QED
    BY <2>1 DEF FeatureStep
<1>6. FirstFeatures(items) = CHOOSE h : Solves(h)
  BY DEF FirstFeatures
<1>7. Solves(FirstFeatures(items))
  BY <1>5, <1>6
<1> QED
  BY <1>7 DEF FeatureStep

\* A list holds the features among the first n items.
Lists(list, items, n) ==
  /\ Len(list) = FeaturesBefore(items, n + 1)
  /\ \A m \in 1..n : IsFeature(items[m]) =>
       /\ FeaturesBefore(items, m) + 1 \in 1..Len(list)
       /\ list[FeaturesBefore(items, m) + 1] = items[m]
  /\ \A k \in 1..Len(list) : \E m \in 1..n : IsFeature(items[m]) /\ k = FeaturesBefore(items, m) + 1

LEMMA OneMoreFeature ==
  ASSUME NEW S, NEW items, NEW n \in Nat, NEW list \in Seq(S), Lists(list, items, n),
         IsFeature(items[n + 1]), items[n + 1] \in S
  PROVE  Lists(Append(list, items[n + 1]), items, n + 1)
<1> DEFINE longer == Append(list, items[n + 1])
           size == Len(list)
<1>1. /\ size \in Nat /\ Len(longer) = size + 1
      /\ \A k \in 1..size : longer[k] = list[k]
      /\ longer[size + 1] = items[n + 1]
  BY AppendProperties
<1>2. /\ size = FeaturesBefore(items, n + 1)
      /\ FeaturesBefore(items, n + 2) = size + 1
  <2>1. n + 1 \in Nat \ {0} /\ (n + 1) + 1 = n + 2
    OBVIOUS
  <2> QED
    BY <2>1, CountBefore DEF Lists
<1>3. \A m \in 1..(n + 1) : m \in 1..n \/ m = n + 1
  OBVIOUS
<1>4. (n + 1) + 1 = n + 2
  OBVIOUS
<1> HIDE DEF longer, size
<1>5. Len(longer) = FeaturesBefore(items, (n + 1) + 1)
  BY <1>1, <1>2, <1>4
<1>6. ASSUME NEW m \in 1..(n + 1), IsFeature(items[m])
      PROVE  /\ FeaturesBefore(items, m) + 1 \in 1..Len(longer)
             /\ longer[FeaturesBefore(items, m) + 1] = items[m]
  <2>1. CASE m = n + 1
    BY <1>1, <1>2, <2>1
  <2>2. CASE m \in 1..n
    <3>1. FeaturesBefore(items, m) + 1 \in 1..size /\ list[FeaturesBefore(items, m) + 1] = items[m]
      BY <1>6, <2>2 DEF Lists, size
    <3>2. 1..size \subseteq 1..Len(longer)
      BY <1>1
    <3> QED
      BY <1>1, <3>1, <3>2
  <2> QED
    BY <1>3, <2>1, <2>2
<1>7. ASSUME NEW k \in 1..Len(longer)
      PROVE  \E m \in 1..(n + 1) : IsFeature(items[m]) /\ k = FeaturesBefore(items, m) + 1
  <2>1. k \in 1..size \/ k = size + 1
    BY <1>1
  <2>2. CASE k = size + 1
    BY <1>2, <2>2
  <2>3. CASE k \in 1..size
    <3>1. PICK m \in 1..n : IsFeature(items[m]) /\ k = FeaturesBefore(items, m) + 1
      BY <2>3 DEF Lists, size
    <3> QED
      BY <3>1
  <2> QED
    BY <2>1, <2>2, <2>3
<1> QED
  BY <1>5, <1>6, <1>7 DEF Lists, longer

LEMMA NoMoreFeature ==
  ASSUME NEW items, NEW n \in Nat, NEW list, Lists(list, items, n), ~IsFeature(items[n + 1])
  PROVE  Lists(list, items, n + 1)
<1>1. FeaturesBefore(items, n + 2) = FeaturesBefore(items, n + 1)
  <2>1. n + 1 \in Nat \ {0} /\ (n + 1) + 1 = n + 2
    OBVIOUS
  <2>2. FeaturesBefore(items, n + 1) \in Nat
    BY <2>1, CountBefore
  <2> QED
    BY <2>1, <2>2, CountBefore
<1>2. (n + 1) + 1 = n + 2 /\ \A m \in 1..(n + 1) : m \in 1..n \/ m = n + 1
  OBVIOUS
<1>3. 1..n \subseteq 1..(n + 1)
  OBVIOUS
<1> QED
  BY <1>1, <1>2, <1>3 DEF Lists

LEMMA FeaturesInOrder ==
  ASSUME NEW S, NEW items \in Seq(S)
  PROVE  Features(items) \in Seq(S) /\ Lists(Features(items), items, Len(items))
<1> DEFINE N == Len(items)
           list(n) == FirstFeatures(items)[n]
           T == {n \in Nat : n <= N => list(n) \in Seq(S) /\ Lists(list(n), items, n)}
<1>1. N \in Nat /\ \A n \in 1..N : items[n] \in S
  OBVIOUS
<1>2. \A n \in 0..N : list(n) = FeatureStep(items, n, list(n - 1))
  BY <1>1, FirstFeaturesRecursion
<1> HIDE DEF N, list
<1>3. 0 \in T
  <2>1. list(0) = << >>
    BY <1>1, <1>2 DEF FeatureStep
  <2>2. Lists(<< >>, items, 0)
    BY CountBefore DEF Lists
  <2>3. << >> \in Seq(S) /\ 0 \in Nat
    BY EmptySeq
  <2> QED
    BY <2>1, <2>2, <2>3
<1>4. ASSUME NEW n \in T PROVE n + 1 \in T
  <2> SUFFICES ASSUME n + 1 <= N
               PROVE  list(n + 1) \in Seq(S) /\ Lists(list(n + 1), items, n + 1)
    BY <1>4
  <2>1. n \in Nat /\ n <= N /\ n + 1 \in 0..N /\ n + 1 \in 1..N /\ (n + 1) - 1 = n
        /\ n + 1 # 0
    BY <1>1, <1>4
  <2>2. list(n) \in Seq(S) /\ Lists(list(n), items, n)
    BY <1>4, <2>1
  <2>3. list(n + 1) = FeatureStep(items, n + 1, list(n))
    BY <1>2, <2>1
  <2>4. CASE IsFeature(items[n + 1])
    <3>1. list(n + 1) = Append(list(n), items[n + 1])
      BY <2>1, <2>3, <2>4 DEF FeatureStep, IsFeature
    <3>2. items[n + 1] \in S
      BY <1>1, <2>1
    <3>3. Append(list(n), items[n + 1]) \in Seq(S)
      BY <2>2, <3>2, AppendProperties
    <3>4. Lists(Append(list(n), items[n + 1]), items, n + 1)
      BY <2>1, <2>2, <2>4, <3>2, OneMoreFeature
    <3> QED
      BY <3>1, <3>3, <3>4
  <2>5. CASE ~IsFeature(items[n + 1])
    <3>1. list(n + 1) = list(n)
      BY <2>1, <2>3, <2>5 DEF FeatureStep, IsFeature
    <3> QED
      BY <2>1, <2>2, <2>5, <3>1, NoMoreFeature
  <2> QED
    BY <2>4, <2>5
<1>5. T = Nat
  <2> HIDE DEF T
  <2>1. T \subseteq Nat
    BY DEF T
  <2> QED
    BY <1>3, <1>4, <2>1, NumberInduction
<1>6. list(N) \in Seq(S) /\ Lists(list(N), items, N)
  BY <1>1, <1>5
<1> QED
  BY <1>6 DEF Features, list, N

\* The importer counts the features it has kept, the audit those it has met.
LEMMA SameFeatures ==
  ASSUME NEW S, NEW content, content.items \in Seq(S)
  PROVE  ImportedFeatures(content) = AuditedFeatures(content)
<1> DEFINE items == content.items
           all == Features(items)
           row(order, payload) == [task |-> content.task, order |-> order, payload |-> payload]
<1>1. all \in Seq(S) /\ Lists(all, items, Len(items)) /\ Len(items) \in Nat
      /\ DOMAIN items = 1..Len(items)
  BY FeaturesInOrder
<1>2. ImportedFeatures(content) = {row(k - 1, all[k]) : k \in 1..Len(all)}
  <2>1. DOMAIN all = 1..Len(all)
    BY <1>1
  <2> QED
    BY <2>1 DEF ImportedFeatures
<1>3. AuditedFeatures(content) =
        {row(FeaturesBefore(items, n), items[n]) : n \in {m \in 1..Len(items) : IsFeature(items[m])}}
  BY <1>1 DEF AuditedFeatures, FeaturesBefore, IsFeature
<1>4. \A n \in 1..Len(items) : FeaturesBefore(items, n) \in Nat
  <2>1. \A n \in 1..Len(items) : n \in Nat \ {0}
    BY <1>1
  <2> QED
    BY <2>1, CountBefore
<1> HIDE DEF row, all, items
<1>5. ASSUME NEW n \in 1..Len(items), IsFeature(items[n])
      PROVE  \E k \in 1..Len(all) : row(k - 1, all[k]) = row(FeaturesBefore(items, n), items[n])
  <2>1. /\ FeaturesBefore(items, n) + 1 \in 1..Len(all) /\ all[FeaturesBefore(items, n) + 1] = items[n]
        /\ (FeaturesBefore(items, n) + 1) - 1 = FeaturesBefore(items, n)
    BY <1>1, <1>4, <1>5 DEF Lists
  <2> QED
    BY <2>1
<1>6. ASSUME NEW k \in 1..Len(all)
      PROVE  \E n \in {m \in 1..Len(items) : IsFeature(items[m])} :
               row(k - 1, all[k]) = row(FeaturesBefore(items, n), items[n])
  <2>1. PICK n \in 1..Len(items) : IsFeature(items[n]) /\ k = FeaturesBefore(items, n) + 1
    BY <1>1, <1>6 DEF Lists
  <2>2. all[k] = items[n] /\ k - 1 = FeaturesBefore(items, n)
    BY <1>1, <1>4, <2>1 DEF Lists
  <2> QED
    BY <2>1, <2>2
<1>7. ImportedFeatures(content) \subseteq AuditedFeatures(content)
  <2> SUFFICES ASSUME NEW k \in 1..Len(all) PROVE row(k - 1, all[k]) \in AuditedFeatures(content)
    BY <1>2
  <2>1. PICK n \in {m \in 1..Len(items) : IsFeature(items[m])} :
          row(k - 1, all[k]) = row(FeaturesBefore(items, n), items[n])
    BY <1>6
  <2> QED
    BY <2>1, <1>3
<1>8. AuditedFeatures(content) \subseteq ImportedFeatures(content)
  <2> SUFFICES ASSUME NEW n \in 1..Len(items), IsFeature(items[n])
               PROVE  row(FeaturesBefore(items, n), items[n]) \in ImportedFeatures(content)
    BY <1>3
  <2>1. PICK k \in 1..Len(all) : row(k - 1, all[k]) = row(FeaturesBefore(items, n), items[n])
    BY <1>5
  <2> QED
    BY <2>1, <1>2
<1> QED
  BY <1>7, <1>8

-----------------------------------------------------------------------------
(* A fresh build: what the audit counts in the files are the rows            *)

\* Contents of one task each, with a rank of its own for each organic item.
Sound(contents) ==
  /\ IsFiniteSet(contents)
  /\ \A content, other \in contents : content.task = other.task => content = other
  /\ \A content \in contents :
       /\ content.items \in Seq(Range(content.items))
       /\ \A n, m \in DOMAIN content.items :
            /\ content.items[n].type = "organic" /\ content.items[m].type = "organic"
            /\ content.items[n].rank = content.items[m].rank
            => n = m
       /\ ImportedOrganic(content) = OrganicItems(content)

ItemPlaces(contents, isOrganic) ==
  UNION {{<<content, n>> :
            n \in {m \in DOMAIN content.items : (content.items[m].type = "organic") = isOrganic}} :
         content \in contents}

LEMMA PlacesAreFinite ==
  ASSUME NEW contents, Sound(contents), NEW isOrganic \in BOOLEAN
  PROVE  IsFiniteSet(ItemPlaces(contents, isOrganic))
<1> DEFINE places(content) ==
             {<<content, n>> :
                n \in {m \in DOMAIN content.items : (content.items[m].type = "organic") = isOrganic}}
           f == [content \in contents |-> places(content)]
<1>1. ASSUME NEW content \in contents PROVE IsFiniteSet(f[content])
  <2>1. content.items \in Seq(Range(content.items))
    BY DEF Sound
  <2>2. Len(content.items) \in Nat /\ DOMAIN content.items = 1..Len(content.items)
    BY <2>1
  <2>3. IsFiniteSet(DOMAIN content.items)
    BY <2>2, FS_Interval
  <2> DEFINE part == {m \in DOMAIN content.items : (content.items[m].type = "organic") = isOrganic}
             g == [n \in part |-> <<content, n>>]
  <2>4. IsFiniteSet(part)
    BY <2>3, FS_Subset
  <2>5. f[content] = {g[n] : n \in part}
    OBVIOUS
  <2> HIDE DEF g, part, f
  <2> QED
    BY <2>4, <2>5, ImageIsFinite
<1>2. ItemPlaces(contents, isOrganic) = UNION {f[content] : content \in contents}
  BY DEF ItemPlaces
<1> HIDE DEF f
<1> QED
  BY <1>1, <1>2, UnionOfImagesIsFinite DEF Sound

LEMMA OrganicRowsAreCounted ==
  ASSUME NEW contents, Sound(contents)
  PROVE  /\ IsFiniteSet(OrganicRows(contents))
         /\ CountItems(contents, TRUE) = Cardinality(OrganicRows(contents))
<1> DEFINE P == ItemPlaces(contents, TRUE)
           row(content, item) == [task |-> content.task, rank |-> item.rank, item |-> item]
           f == [p \in P |-> row(p[1], p[1].items[p[2]])]
<1>1. \A p \in P : \E content \in contents : \E n \in DOMAIN content.items :
        p = <<content, n>> /\ content.items[n].type = "organic"
  BY DEF ItemPlaces
<1>2. \A content \in contents : \A n \in DOMAIN content.items :
        content.items[n].type = "organic" => <<content, n>> \in P
  BY DEF ItemPlaces
<1>3. ASSUME NEW p \in P, NEW q \in P, f[p] = f[q] PROVE p = q
  <2>1. PICK content \in contents : \E n \in DOMAIN content.items :
          p = <<content, n>> /\ content.items[n].type = "organic"
    BY <1>1
  <2>2. PICK n \in DOMAIN content.items : p = <<content, n>> /\ content.items[n].type = "organic"
    BY <2>1
  <2>3. PICK other \in contents : \E m \in DOMAIN other.items :
          q = <<other, m>> /\ other.items[m].type = "organic"
    BY <1>1
  <2>4. PICK m \in DOMAIN other.items : q = <<other, m>> /\ other.items[m].type = "organic"
    BY <2>3
  <2>5. f[p] = row(content, content.items[n]) /\ f[q] = row(other, other.items[m])
    BY <2>2, <2>4
  <2>6. content.task = other.task /\ content.items[n].rank = other.items[m].rank
    BY <1>3, <2>5
  <2>7. content = other
    BY <2>6 DEF Sound
  <2> QED
    BY <2>2, <2>4, <2>6, <2>7 DEF Sound
<1>4. OrganicRows(contents) = {f[p] : p \in P}
  <2>1. OrganicRows(contents) =
          UNION {{row(content, item) : item \in OrganicItems(content)} : content \in contents}
    BY DEF OrganicRows, Sound
  <2>2. \A content : OrganicItems(content) =
          {content.items[n] : n \in {m \in DOMAIN content.items : content.items[m].type = "organic"}}
    BY DEF OrganicItems
  <2>3. ASSUME NEW p \in P PROVE f[p] \in OrganicRows(contents)
    <3>1. PICK content \in contents : \E n \in DOMAIN content.items :
            p = <<content, n>> /\ content.items[n].type = "organic"
      BY <1>1
    <3>2. PICK n \in DOMAIN content.items : p = <<content, n>> /\ content.items[n].type = "organic"
      BY <3>1
    <3>3. f[p] = row(content, content.items[n]) /\ content.items[n] \in OrganicItems(content)
      BY <2>2, <3>2
    <3> QED
      BY <2>1, <3>3
  <2>4. ASSUME NEW r \in OrganicRows(contents) PROVE \E p \in P : r = f[p]
    <3>1. PICK content \in contents : \E item \in OrganicItems(content) : r = row(content, item)
      BY <2>1
    <3>2. PICK item \in OrganicItems(content) : r = row(content, item)
      BY <3>1
    <3>3. PICK n \in DOMAIN content.items :
            content.items[n].type = "organic" /\ item = content.items[n]
      BY <2>2
    <3>4. <<content, n>> \in P
      BY <1>2, <3>3
    <3>5. f[<<content, n>>] = r
      BY <3>2, <3>3, <3>4
    <3> QED
      BY <3>4, <3>5
  <2> QED
    BY <2>3, <2>4
<1>5. IsFiniteSet(P)
  BY PlacesAreFinite
<1> HIDE DEF P, f
<1>6. CountItems(contents, TRUE) = Cardinality(P)
  BY DEF CountItems, ItemPlaces, P
<1> QED
  <2>1. \A p, q \in P : f[p] = f[q] => p = q
    BY <1>3
  <2>2. /\ IsFiniteSet({f[p] : p \in P})
        /\ Cardinality({f[p] : p \in P}) = Cardinality(P)
    BY <1>5, <2>1, ImageHasAsMany
  <2> QED
    BY <1>4, <1>6, <2>2

FeatureRows(contents) == UNION {ImportedFeatures(content) : content \in contents}

LEMMA FeatureRowsAreCounted ==
  ASSUME NEW contents, Sound(contents)
  PROVE  CountItems(contents, FALSE) = Cardinality(FeatureRows(contents))
<1> DEFINE P == ItemPlaces(contents, FALSE)
           row(content, n) == [task |-> content.task, payload |-> content.items[n],
                               order |-> FeaturesBefore(content.items, n)]
           f == [p \in P |-> row(p[1], p[2])]
<1>1. \A p \in P : \E content \in contents : \E n \in DOMAIN content.items :
        p = <<content, n>> /\ IsFeature(content.items[n])
  BY DEF ItemPlaces, IsFeature
<1>2. \A content \in contents : \A n \in DOMAIN content.items :
        IsFeature(content.items[n]) => <<content, n>> \in P
  BY DEF ItemPlaces, IsFeature
<1>3. \A content \in contents : ImportedFeatures(content) =
        {row(content, n) : n \in {m \in DOMAIN content.items : IsFeature(content.items[m])}}
  <2> SUFFICES ASSUME NEW content \in contents
               PROVE  ImportedFeatures(content) =
                        {row(content, n) : n \in {m \in DOMAIN content.items : IsFeature(content.items[m])}}
    OBVIOUS
  <2>1. ImportedFeatures(content) = AuditedFeatures(content)
    BY SameFeatures DEF Sound
  <2> QED
    BY <2>1 DEF AuditedFeatures, IsFeature, FeaturesBefore
<1>4. \A content \in contents : \A n \in DOMAIN content.items : n \in Nat \ {0}
  <2> SUFFICES ASSUME NEW content \in contents
               PROVE  \A n \in DOMAIN content.items : n \in Nat \ {0}
    OBVIOUS
  <2>1. content.items \in Seq(Range(content.items))
    BY DEF Sound
  <2> QED
    BY <2>1
<1>5. ASSUME NEW p \in P, NEW q \in P, f[p] = f[q] PROVE p = q
  <2>1. PICK content \in contents : \E n \in DOMAIN content.items :
          p = <<content, n>> /\ IsFeature(content.items[n])
    BY <1>1
  <2>2. PICK n \in DOMAIN content.items : p = <<content, n>> /\ IsFeature(content.items[n])
    BY <2>1
  <2>3. PICK other \in contents : \E m \in DOMAIN other.items :
          q = <<other, m>> /\ IsFeature(other.items[m])
    BY <1>1
  <2>4. PICK m \in DOMAIN other.items : q = <<other, m>> /\ IsFeature(other.items[m])
    BY <2>3
  <2>5. f[p] = row(content, n) /\ f[q] = row(other, m)
    BY <2>2, <2>4
  <2>6. content.task = other.task /\ FeaturesBefore(content.items, n) = FeaturesBefore(other.items, m)
    BY <1>5, <2>5
  <2>7. content = other
    BY <2>6 DEF Sound
  <2>8. n \in Nat \ {0} /\ m \in Nat \ {0}
    BY <1>4
  <2>9. ~(n < m) /\ ~(m < n)
    BY <2>2, <2>4, <2>6, <2>7, <2>8, FeaturesDiffer
  <2> QED
    BY <2>2, <2>4, <2>7, <2>8, <2>9
<1>6. FeatureRows(contents) = {f[p] : p \in P}
  <2>1. ASSUME NEW p \in P PROVE f[p] \in FeatureRows(contents)
    <3>1. PICK content \in contents : \E n \in DOMAIN content.items :
            p = <<content, n>> /\ IsFeature(content.items[n])
      BY <1>1
    <3>2. PICK n \in DOMAIN content.items : p = <<content, n>> /\ IsFeature(content.items[n])
      BY <3>1
    <3>3. f[p] = row(content, n) /\ row(content, n) \in ImportedFeatures(content)
      BY <1>3, <3>2
    <3> QED
      BY <3>3 DEF FeatureRows
  <2>2. ASSUME NEW r \in FeatureRows(contents) PROVE \E p \in P : r = f[p]
    <3>1. PICK content \in contents : r \in ImportedFeatures(content)
      BY DEF FeatureRows
    <3>2. PICK n \in DOMAIN content.items : IsFeature(content.items[n]) /\ r = row(content, n)
      BY <1>3, <3>1
    <3>3. <<content, n>> \in P
      BY <1>2, <3>2
    <3>4. f[<<content, n>>] = r
      BY <3>2, <3>3
    <3> QED
      BY <3>3, <3>4
  <2> QED
    BY <2>1, <2>2
<1>7. IsFiniteSet(P)
  BY PlacesAreFinite
<1> HIDE DEF P, f
<1>8. CountItems(contents, FALSE) = Cardinality(P)
  BY DEF CountItems, ItemPlaces, P
<1> QED
  <2>1. \A p, q \in P : f[p] = f[q] => p = q
    BY <1>5
  <2>2. /\ IsFiniteSet({f[p] : p \in P})
        /\ Cardinality({f[p] : p \in P}) = Cardinality(P)
    BY <1>7, <2>1, ImageHasAsMany
  <2> QED
    BY <1>6, <1>8, <2>2

-----------------------------------------------------------------------------
(* A fresh build passes the audit                                            *)

FilesInv == files \in [RawFiles -> Contents \cup {NoFile}]

LEMMA FilesHoldContents == RetentionSpec => []FilesInv
<1>1. RetentionInit => FilesInv
  BY DEF RetentionInit, FilesInv
<1>2. FilesInv /\ [RetentionNext]_retentionVars => FilesInv'
  BY DEF FilesInv, RetentionNext, WriteRaw, BuildDatabase, retentionVars
<1> QED
  BY <1>1, <1>2, PTL DEF RetentionSpec

Fresh ==
  /\ database # NoDatabase
  /\ database = Import(OnDisk(RawFiles), database.connected)
  /\ OnDisk(RawFiles \ AuditedFiles) = {}
  /\ ~TwoOfOneTask
  /\ \A content \in OnDisk(RawFiles) : OrganicItems(content) = ImportedOrganic(content)

LEMMA FreshFiles ==
  ASSUME FilesInv, Fresh
  PROVE  /\ Sound(OnDisk(RawFiles))
         /\ RawTasks = OnDisk(RawFiles)
<1> DEFINE held == {file \in RawFiles : Holds(files[file])}
           disk == OnDisk(RawFiles)
<1>1. disk = {files[file] : file \in held}
  BY DEF OnDisk
<1>2. held = Held
  <2>1. Held \subseteq held
    BY RetentionAssumption DEF Held
  <2>2. ASSUME NEW file \in held, file \notin AuditedFiles PROVE FALSE
    <3>1. files[file] \in OnDisk(RawFiles \ AuditedFiles)
      BY <2>2 DEF OnDisk
    <3> QED
      BY <3>1 DEF Fresh
  <2> QED
    BY <2>1, <2>2 DEF Held
<1>3. \A file, other \in held : files[file].task = files[other].task => file = other
  BY DEF Fresh, TwoOfOneTask
<1>4. disk \subseteq Contents
  BY <1>1 DEF FilesInv, Holds
<1>5. IsFiniteSet(disk)
  <2> DEFINE f == [file \in held |-> files[file]]
  <2>1. disk = {f[file] : file \in held}
    BY <1>1
  <2>2. IsFiniteSet(held)
    BY RetentionAssumption, FS_Subset
  <2> HIDE DEF f, held, disk
  <2> QED
    BY <2>1, <2>2, ImageIsFinite
<1>6. \A content, other \in disk : content.task = other.task => content = other
  BY <1>1, <1>3
<1>7. ASSUME NEW content \in disk
      PROVE  /\ content.items \in Seq(Range(content.items))
             /\ \A n, m \in DOMAIN content.items :
                  /\ content.items[n].type = "organic" /\ content.items[m].type = "organic"
                  /\ content.items[n].rank = content.items[m].rank
                  => n = m
             /\ ImportedOrganic(content) = OrganicItems(content)
  <2>1. ImportedOrganic(content) = OrganicItems(content)
    BY DEF Fresh
  <2>2. \A n \in DOMAIN content.items :
          content.items[n].type = "organic" => content.items[n].url
    BY <2>1 DEF ImportedOrganic, OrganicItems
  <2> QED
    BY <1>4, <2>1, <2>2, ContentsAssumption
<1>8. RawTasks = disk
  <2>1. RawTasks = {files[FirstOf({other \in Held : files[other].task = files[file].task})] : file \in Held}
    BY DEF RawTasks, Held
  <2>2. \A file \in Held :
          files[FirstOf({other \in Held : files[other].task = files[file].task})] = files[file]
    BY <1>2, <1>3, ReadFile
  <2> DEFINE read(file) == files[FirstOf({other \in Held : files[other].task = files[file].task})]
  <2>3. RawTasks = {read(file) : file \in Held} /\ \A file \in Held : read(file) = files[file]
    BY <2>1, <2>2
  <2> HIDE DEF read
  <2>4. disk = {files[file] : file \in Held}
    BY <1>1, <1>2
  <2> QED
    BY <2>3, <2>4
<1> QED
  BY <1>5, <1>6, <1>7, <1>8 DEF Sound

LEMMA ImportFields ==
  ASSUME NEW contents, NEW selected
  PROVE  LET db == Import(contents, selected) IN
         /\ db.inventory = {content.task : content \in contents}
         /\ db.metadata = db.connected
         /\ db.payloads = contents
         /\ db.organic = OrganicRows({content \in contents : content.task \in selected})
         /\ db.snapshotOrganic = OrganicRows(contents)
         /\ db.features = FeatureRows(contents)
<1> DEFINE connected == {content \in contents : content.task \in selected}
           tasks == {content.task : content \in connected}
           all == {content.task : content \in contents}
           rows == OrganicRows(connected)
           others == OrganicRows(contents)
           features == FeatureRows(contents)
<1>1. Import(contents, selected) =
        [inventory |-> all, connected |-> tasks, metadata |-> tasks, payloads |-> contents,
         organic |-> rows, snapshotOrganic |-> others, features |-> features]
  BY DEF Import, FeatureRows
<1> HIDE DEF tasks, all, rows, others, features
<1>2. LET db == Import(contents, selected) IN
      /\ db.inventory = all /\ db.metadata = db.connected /\ db.payloads = contents
      /\ db.organic = rows /\ db.snapshotOrganic = others /\ db.features = features
  BY <1>1
<1> QED
  BY <1>2 DEF all, rows, others, features

\* The rows of a fresh database, in terms of the contents it was built from.
LEMMA FreshRows ==
  ASSUME FilesInv, Fresh
  PROVE  /\ database.inventory = RawTaskIds /\ database.metadata = database.connected
         /\ database.payloads = RawTasks
         /\ database.organic = OrganicRows({content \in RawTasks : content.task \in database.connected})
         /\ database.snapshotOrganic = OrganicRows(RawTasks)
         /\ database.features = FeatureRows(RawTasks)
         /\ Sound(RawTasks)
<1>1. database = Import(RawTasks, database.connected) /\ Sound(RawTasks)
  BY FreshFiles DEF Fresh
<1> DEFINE selected == database.connected
<1>2. PICK db, some : db = database /\ some = selected /\ db = Import(RawTasks, some) /\ db.connected = some
  BY <1>1
<1>3. /\ db.inventory = RawTaskIds /\ db.metadata = db.connected
      /\ db.payloads = RawTasks
      /\ db.organic = OrganicRows({content \in RawTasks : content.task \in some})
      /\ db.snapshotOrganic = OrganicRows(RawTasks)
      /\ db.features = FeatureRows(RawTasks)
  <2>1. LET other == Import(RawTasks, some) IN
        /\ other.inventory = {content.task : content \in RawTasks}
        /\ other.metadata = other.connected
        /\ other.payloads = RawTasks
        /\ other.organic = OrganicRows({content \in RawTasks : content.task \in some})
        /\ other.snapshotOrganic = OrganicRows(RawTasks)
        /\ other.features = FeatureRows(RawTasks)
    BY ImportFields
  <2>2. /\ db.inventory = {content.task : content \in RawTasks} /\ db.metadata = db.connected
    BY <1>2, <2>1
  <2>3. db.inventory = RawTaskIds
    BY <2>2 DEF RawTaskIds
  <2> QED
    BY <1>2, <2>1, <2>2, <2>3
<1> QED
  BY <1>1, <1>2, <1>3

\* The organic rows of a task by rank are those of the items of its content.
LEMMA OrganicRowOf ==
  ASSUME FilesInv, Fresh, NEW content \in RawTasks, NEW item \in OrganicItems(content)
  PROVE  /\ content.task \in database.connected =>
              OrganicRow(database.organic, content.task, item.rank) =
                {[task |-> content.task, rank |-> item.rank, item |-> item]}
         /\ OrganicRow(database.snapshotOrganic, content.task, item.rank) # {}
<1> DEFINE row(owner, listed) == [task |-> owner.task, rank |-> listed.rank, item |-> listed]
<1>1. ASSUME NEW contents \in SUBSET RawTasks
      PROVE  OrganicRows(contents) =
               UNION {{row(owner, listed) : listed \in OrganicItems(owner)} : owner \in contents}
  BY FreshRows DEF OrganicRows, Sound
<1>2. PICK n \in DOMAIN content.items : content.items[n].type = "organic" /\ item = content.items[n]
  BY DEF OrganicItems
<1>3. ASSUME NEW owner \in RawTasks, NEW listed \in OrganicItems(owner),
             owner.task = content.task, listed.rank = item.rank
      PROVE  row(owner, listed) = row(content, item)
  <2>1. owner = content
    BY <1>3, FreshRows DEF Sound
  <2>2. PICK m \in DOMAIN content.items : content.items[m].type = "organic" /\ listed = content.items[m]
    BY <2>1 DEF OrganicItems
  <2>3. n = m
    BY <1>2, <1>3, <2>2, FreshRows DEF Sound
  <2> QED
    BY <1>2, <2>1, <2>2, <2>3
<1>4. ASSUME NEW contents \in SUBSET RawTasks, content \in contents
      PROVE  OrganicRow(OrganicRows(contents), content.task, item.rank) = {row(content, item)}
  <2>1. row(content, item) \in OrganicRows(contents)
    BY <1>1, <1>4
  <2>2. ASSUME NEW r \in OrganicRows(contents), r.task = content.task, r.rank = item.rank
        PROVE  r = row(content, item)
    <3>1. PICK owner \in contents : \E listed \in OrganicItems(owner) : r = row(owner, listed)
      BY <1>1
    <3>2. PICK listed \in OrganicItems(owner) : r = row(owner, listed)
      BY <3>1
    <3>3. owner.task = content.task /\ listed.rank = item.rank
      BY <2>2, <3>2
    <3> QED
      BY <1>3, <3>2, <3>3
  <2> QED
    BY <2>1, <2>2 DEF OrganicRow
<1> HIDE DEF row
<1>5. OrganicRow(database.snapshotOrganic, content.task, item.rank) = {row(content, item)}
  BY <1>4, FreshRows
<1>6. content.task \in database.connected =>
        OrganicRow(database.organic, content.task, item.rank) = {row(content, item)}
  <2> DEFINE some == {owner \in RawTasks : owner.task \in database.connected}
  <2>1. content.task \in database.connected => content \in some
    OBVIOUS
  <2>2. some \in SUBSET RawTasks /\ database.organic = OrganicRows(some)
    BY FreshRows
  <2> HIDE DEF some
  <2> QED
    BY <1>4, <2>1, <2>2
<1> QED
  BY <1>5, <1>6 DEF row

LEMMA FreshCounts ==
  ASSUME FilesInv, Fresh
  PROVE  OrganicRowMatch /\ CountItems(RawTasks, FALSE) = Cardinality(database.features)
<1>1. CountItems(RawTasks, FALSE) = Cardinality(database.features)
  BY FreshRows, FeatureRowsAreCounted
<1> DEFINE all == database.snapshotOrganic
           selected == {content \in RawTasks : content.task \in database.connected}
<1>2. IsFiniteSet(all) /\ CountItems(RawTasks, TRUE) = Cardinality(all)
  BY FreshRows, OrganicRowsAreCounted
<1>3. database.organic = {row \in all : row.task \in database.connected}
  <2> DEFINE row(content, item) == [task |-> content.task, rank |-> item.rank, item |-> item]
  <2>1. \A contents : OrganicRows(contents) =
          UNION {{row(content, item) : item \in ImportedOrganic(content)} : content \in contents}
    BY DEF OrganicRows
  <2>2. \A content, item : row(content, item).task = content.task
    OBVIOUS
  <2> HIDE DEF row
  <2>3. OrganicRows(selected) = {r \in OrganicRows(RawTasks) : r.task \in database.connected}
    <3>1. ASSUME NEW r \in OrganicRows(selected)
          PROVE  r \in OrganicRows(RawTasks) /\ r.task \in database.connected
      <4>1. PICK content \in selected : r \in {row(content, item) : item \in ImportedOrganic(content)}
        BY <2>1
      <4> QED
        BY <2>1, <2>2, <4>1
    <3>2. ASSUME NEW r \in OrganicRows(RawTasks), r.task \in database.connected
          PROVE  r \in OrganicRows(selected)
      <4>1. PICK content \in RawTasks : r \in {row(content, item) : item \in ImportedOrganic(content)}
        BY <2>1
      <4>2. content \in selected
        BY <2>2, <3>2, <4>1
      <4> QED
        BY <2>1, <4>1, <4>2
    <3> QED
      BY <3>1, <3>2
  <2> QED
    BY <2>3, FreshRows
<1>4. UnconnectedRows = all \ database.organic
  BY <1>3 DEF UnconnectedRows
<1> HIDE DEF all
<1>5. database.organic \subseteq all
  BY <1>3
<1>6. Cardinality(all \ database.organic) = Cardinality(all) - Cardinality(database.organic)
  <2>1. PICK part : part = database.organic /\ all \cap part = part
    BY <1>5
  <2>2. IsFiniteSet(part)
    BY <1>2, <1>5, <2>1, FS_Subset
  <2>3. Cardinality(all \ part) = Cardinality(all) - Cardinality(all \cap part)
    BY <1>2, <2>2, FS_Difference
  <2> QED
    BY <2>1, <2>3
<1>7. Cardinality(all) \in Nat /\ Cardinality(database.organic) \in Nat
  BY <1>2, <1>5, FS_Subset, FS_CardinalityType
<1> QED
  <2>1. Cardinality(UnconnectedRows) = Cardinality(all) - Cardinality(database.organic)
    BY <1>4, <1>6
  <2>2. Cardinality(all) = Cardinality(database.organic) + Cardinality(UnconnectedRows)
    BY <1>7, <2>1
  <2> QED
    BY <1>1, <1>2, <2>2, Zenon DEF OrganicRowMatch

\* The stored features of a task are the audited ones, each with its own order.
LEMMA FreshFeatures ==
  ASSUME FilesInv, Fresh, NEW content \in RawTasks, NEW feature \in AuditedFeatures(content)
  PROVE  /\ feature \in database.features /\ feature.task = content.task
         /\ \A row \in database.features :
              row.task = feature.task /\ row.order = feature.order => row = feature
<1>1. \A owner \in RawTasks : ImportedFeatures(owner) = AuditedFeatures(owner)
  <2> SUFFICES ASSUME NEW owner \in RawTasks PROVE ImportedFeatures(owner) = AuditedFeatures(owner)
    OBVIOUS
  <2>1. owner.items \in Seq(Range(owner.items))
    BY FreshRows DEF Sound
  <2> QED
    BY <2>1, SameFeatures
<1>2. \A row : row \in database.features <=> \E owner \in RawTasks : row \in AuditedFeatures(owner)
  BY <1>1, FreshRows DEF FeatureRows
<1>3. \A owner : AuditedFeatures(owner) =
        {[task |-> owner.task, payload |-> owner.items[n], order |-> FeaturesBefore(owner.items, n)] :
           n \in {m \in DOMAIN owner.items : IsFeature(owner.items[m])}}
  BY DEF AuditedFeatures, FeaturesBefore, IsFeature
<1>4. \A owner : \A row \in AuditedFeatures(owner) : row.task = owner.task
  BY <1>3
<1>5. ASSUME NEW row \in database.features, row.task = feature.task, row.order = feature.order
      PROVE  row = feature
  <2>1. PICK owner \in RawTasks : row \in AuditedFeatures(owner)
    BY <1>2
  <2>2. owner = content
    BY <1>4, <1>5, <2>1, FreshRows DEF Sound
  <2> DEFINE items == content.items
             is(r, n) == r = [task |-> content.task, payload |-> items[n], order |-> FeaturesBefore(items, n)]
  <2>3. PICK n \in DOMAIN items : IsFeature(items[n]) /\ is(row, n)
    BY <1>3, <2>1, <2>2
  <2>4. PICK m \in DOMAIN items : IsFeature(items[m]) /\ is(feature, m)
    BY <1>3
  <2>5. items \in Seq(Range(items))
    BY FreshRows DEF Sound
  <2>6. n \in Nat \ {0} /\ m \in Nat \ {0}
    BY <2>5
  <2>7. FeaturesBefore(items, n) = FeaturesBefore(items, m)
    BY <1>5, <2>3, <2>4
  <2>8. n = m
    BY <2>3, <2>4, <2>6, <2>7, FeaturesDiffer
  <2> QED
    BY <2>3, <2>4, <2>8
<1> QED
  BY <1>2, <1>4, <1>5

LEMMA FreshIsClean ==
  ASSUME FilesInv, Fresh
  PROVE  CleanAudit
<1>1. FeatureValueMatch
  BY FreshFeatures DEF FeatureValueMatch
<1>2. OrganicValueMatch
  <2>1. ASSUME NEW content \in InScope("connected"), NEW item \in OrganicItems(content),
               NEW row \in OrganicRow(database.organic, content.task, item.rank)
        PROVE  row.item = item
    <3>1. content \in RawTasks /\ content.task \in database.connected
      BY DEF InScope, Scope
    <3> QED
      BY <3>1, OrganicRowOf
  <2>2. ASSUME NEW content \in InScope("unconnected"), NEW item \in OrganicItems(content)
        PROVE  OrganicRow(database.snapshotOrganic, content.task, item.rank) # {}
    <3>1. content \in RawTasks
      BY DEF InScope
    <3> QED
      BY <3>1, OrganicRowOf
  <2> QED
    BY <2>1, <2>2 DEF OrganicValueMatch
<1>3. RawPayloadMatch
  <2>1. Cardinality(RawTaskIds) = Cardinality(RawTasks)
    <3> DEFINE f == [content \in RawTasks |-> content.task]
    <3>1. RawTaskIds = {f[content] : content \in RawTasks}
      BY DEF RawTaskIds
    <3>2. \A content, other \in RawTasks : f[content] = f[other] => content = other
      BY FreshRows DEF Sound
    <3>3. IsFiniteSet(RawTasks)
      BY FreshRows DEF Sound
    <3> HIDE DEF f
    <3> QED
      BY <3>1, <3>2, <3>3, ImageHasAsMany
  <2>2. \A content \in RawTasks : content.task \in RawTaskIds
    BY DEF RawTaskIds
  <2>3. \A content \in RawTasks : PayloadOf(content.task) = {content}
    BY FreshRows DEF PayloadOf, Sound
  <2> QED
    BY <2>1, <2>2, <2>3, FreshRows DEF RawPayloadMatch
<1> QED
  BY <1>1, <1>2, <1>3, FreshRows, FreshCounts DEF CleanAudit, Fresh

\* Wherever a field of a fresh build was seen, it is retained exactly.
LEMMA FreshIsExact ==
  ASSUME FilesInv, Fresh, NEW o \in Observations
  PROVE  o.retention \in ExactStates
<1>1. \A content \in RawTasks : \A otherwise :
        PayloadOr(content.task, otherwise) = "exact_raw_snapshot_payload"
  <2>1. \A content \in RawTasks : content \in PayloadOf(content.task)
    BY FreshRows DEF PayloadOf
  <2> QED
    BY <2>1 DEF PayloadOr
<1>2. ASSUME NEW content \in RawTasks, NEW field
      PROVE  TaskProjection(field, content.task) \in ExactStates
  BY <1>1 DEF TaskProjection, ExactStates
<1>3. ASSUME NEW content \in RawTasks, NEW item \in OrganicItems(content), NEW field
      PROVE  OrganicProjection(field, content.task, item.rank) \in ExactStates
  <2>1. PayloadOf(content.task) # {}
    BY FreshRows DEF PayloadOf
  <2>2. /\ OrganicRow(database.snapshotOrganic, content.task, item.rank) # {}
        /\ Scope(content.task) = "connected" =>
             OrganicRow(database.organic, content.task, item.rank) # {}
    BY OrganicRowOf DEF Scope
  <2> QED
    BY <1>1, <2>1, <2>2 DEF OrganicProjection, ExactStates
<1>4. ASSUME NEW content \in RawTasks, NEW feature \in AuditedFeatures(content)
      PROVE  FeatureProjection(content.task, feature.order) \in ExactStates
  BY FreshFeatures DEF FeatureProjection, ExactStates
<1> DEFINE seen(content, field, retention) ==
             [scope |-> Scope(content.task), field |-> field.field, state |-> field.state,
              retention |-> retention]
<1>5. \A content, field, retention : seen(content, field, retention).retention = retention
  OBVIOUS
<1>6. Observations =
        UNION {{seen(content, field, TaskProjection(field.field, content.task)) :
                  field \in content.fields}
               \cup (UNION {{seen(content, field,
                                  OrganicProjection(field.field, content.task, item.rank)) :
                               field \in item.fields} : item \in OrganicItems(content)})
               \cup (UNION {{seen(content, field,
                                  FeatureProjection(content.task, feature.order)) :
                               field \in feature.payload.fields} :
                               feature \in AuditedFeatures(content)}) : content \in RawTasks}
  BY DEF Observations
<1> HIDE DEF seen
<1>7. PICK content \in RawTasks :
        \/ o \in {seen(content, field, TaskProjection(field.field, content.task)) :
                    field \in content.fields}
        \/ o \in UNION {{seen(content, field,
                              OrganicProjection(field.field, content.task, item.rank)) :
                           field \in item.fields} : item \in OrganicItems(content)}
        \/ o \in UNION {{seen(content, field, FeatureProjection(content.task, feature.order)) :
                           field \in feature.payload.fields} : feature \in AuditedFeatures(content)}
  BY <1>6
<1>8. CASE o \in {seen(content, field, TaskProjection(field.field, content.task)) :
                    field \in content.fields}
  BY <1>2, <1>5, <1>8
<1>9. CASE o \in UNION {{seen(content, field,
                              OrganicProjection(field.field, content.task, item.rank)) :
                           field \in item.fields} : item \in OrganicItems(content)}
  <2>1. PICK item \in OrganicItems(content) :
          o \in {seen(content, field, OrganicProjection(field.field, content.task, item.rank)) :
                   field \in item.fields}
    BY <1>9
  <2> QED
    BY <1>3, <1>5, <2>1
<1>10. CASE o \in UNION {{seen(content, field, FeatureProjection(content.task, feature.order)) :
                           field \in feature.payload.fields} : feature \in AuditedFeatures(content)}
  <2>1. PICK feature \in AuditedFeatures(content) :
          o \in {seen(content, field, FeatureProjection(content.task, feature.order)) :
                   field \in feature.payload.fields}
    BY <1>10
  <2> QED
    BY <1>4, <1>5, <2>1
<1> QED
  BY <1>7, <1>8, <1>9, <1>10

LEMMA FreshIsRetained ==
  ASSUME FilesInv, Fresh, NEW o \in Observations
  PROVE  Severity(o.scope, o.field) = "retained"
<1> DEFINE seen == {other \in Observations : other.scope = o.scope /\ other.field = o.field}
<1>1. o \in seen /\ \A other \in seen :
        other.retention \notin {"projection_gap", "not_retained", "implicit_context"}
  BY FreshIsExact DEF ExactStates
<1> QED
  BY <1>1 DEF Severity

\* The sums over the two scopes.
LEMMA FreshSums ==
  ASSUME FilesInv, Fresh
  PROVE  AllSummary.tasks = Cardinality(RawTaskIds) /\ AllSummary.exact = AllSummary.raw
<1> DEFINE seen(scope) == {o \in Observations : o.scope = scope}
<1>1. ASSUME NEW scope
      PROVE  /\ ScopeSummary(scope).tasks = Cardinality(InScope(scope))
             /\ ScopeSummary(scope).raw = Cardinality(seen(scope))
             /\ ScopeSummary(scope).exact = Cardinality({o \in seen(scope) : o.retention \in ExactStates})
             /\ DOMAIN ScopeSummary(scope) =
                  {"tasks", "raw", "exact", "contextual", "notRetained", "gaps"}
  BY DEF ScopeSummary
<1>2. \A scope : {o \in seen(scope) : o.retention \in ExactStates} = seen(scope)
  BY FreshIsExact
<1>3. /\ AllSummary.tasks = Cardinality(InScope("connected")) + Cardinality(InScope("unconnected"))
      /\ AllSummary.exact = AllSummary.raw
  <2>1. PICK one, other : one = ScopeSummary("connected") /\ other = ScopeSummary("unconnected")
    OBVIOUS
  <2>2. AllSummary = [sum \in DOMAIN one |-> one[sum] + other[sum]]
    BY <2>1 DEF AllSummary
  <2>3. {"tasks", "raw", "exact"} \subseteq DOMAIN one
    BY <1>1, <2>1
  <2>4. /\ AllSummary.tasks = one.tasks + other.tasks
        /\ AllSummary.raw = one.raw + other.raw
        /\ AllSummary.exact = one.exact + other.exact
    BY <2>2, <2>3
  <2>5. one.exact = one.raw /\ other.exact = other.raw
    <3>1. ASSUME NEW scope PROVE ScopeSummary(scope).exact = ScopeSummary(scope).raw
      <4>1. {o \in seen(scope) : o.retention \in ExactStates} = seen(scope)
        BY <1>2
      <4>2. Cardinality({o \in seen(scope) : o.retention \in ExactStates}) = Cardinality(seen(scope))
        BY <4>1
      <4> HIDE DEF seen
      <4> QED
        BY <1>1, <4>2
    <3> QED
      BY <2>1, <3>1
  <2>6. /\ one.tasks = Cardinality(InScope("connected"))
        /\ other.tasks = Cardinality(InScope("unconnected"))
    BY <1>1, <2>1
  <2> QED
    BY <2>4, <2>5, <2>6
<1>4. IsFiniteSet(RawTasks) /\ Cardinality(RawTaskIds) = Cardinality(RawTasks)
  <2>1. CleanAudit
    BY FreshIsClean
  <2> QED
    BY <2>1, FreshRows DEF CleanAudit, RawPayloadMatch, Sound
<1>5. InScope("unconnected") = RawTasks \ InScope("connected")
      /\ RawTasks \cap InScope("connected") = InScope("connected")
  BY DEF InScope, Scope
<1>6. Cardinality(RawTasks \ InScope("connected")) =
        Cardinality(RawTasks) - Cardinality(InScope("connected"))
  BY <1>4, <1>5, FS_Difference
<1>7. Cardinality(RawTasks) \in Nat /\ Cardinality(InScope("connected")) \in Nat
  <2>1. InScope("connected") \subseteq RawTasks
    BY DEF InScope
  <2> QED
    BY <1>4, <2>1, FS_Subset, FS_CardinalityType
<1>8. Cardinality(InScope("connected")) + Cardinality(InScope("unconnected")) = Cardinality(RawTasks)
  BY <1>5, <1>6, <1>7
<1> QED
  BY <1>3, <1>4, <1>8

\* The importer and the audit agree on what is retained, for every finite set of
\* files and every content with a rank of its own for each organic item: what
\* one counts and orders among the items it keeps, the other finds as it meets
\* them (rawSnapshots, auditSerpDbRetention).
THEOREM FreshRetains == RetentionSpec => []FreshBuildRetainsEverything
<1>1. FilesInv => FreshBuildRetainsEverything
  <2> SUFFICES ASSUME FilesInv, Fresh
               PROVE  /\ CleanAudit
                      /\ \A o \in Observations : Severity(o.scope, o.field) = "retained"
                      /\ AllSummary.tasks = Cardinality(RawTaskIds)
                      /\ AllSummary.exact = AllSummary.raw
    BY DEF FreshBuildRetainsEverything, Fresh
  <2> QED
    BY FreshIsClean, FreshIsRetained, FreshSums
<1> QED
  BY <1>1, FilesHoldContents, PTL
=============================================================================
