-------------------------- MODULE KeywordClustering --------------------------
(***************************************************************************)
(* groupBySerp: keywords whose top results overlap are put into clusters,  *)
(* greedily, the pairs of the largest overlap first, and two clusters are  *)
(* merged only when every keyword of one is linked to every keyword of the *)
(* other.                                                                  *)
(*                                                                         *)
(* A record is the set of its top results.  Two records are comparable     *)
(* when both hold at least Depth results, so a ratio is the number of      *)
(* shared results out of Depth and a threshold is a number of results.     *)
(* The loop over candidates takes one per step; among pairs of one ratio   *)
(* the identifiers decide, which are data, so any of them may come first.  *)
(***************************************************************************)
EXTENDS Naturals, FiniteSets

CONSTANTS
  Keywords,
  TopResults,        \* the sets of results a record may hold
  Scopings,          \* the functions from a keyword to its context scope
  Depth,             \* comparisonDepth
  High, Possible     \* the thresholds, in shared results out of Depth

ASSUME ClusteringAssumption ==
  /\ Depth \in Nat /\ High \in Nat /\ Possible \in Nat
  /\ Possible <= High
  /\ \A scoping \in Scopings : DOMAIN scoping = Keywords

VARIABLES
  results,           \* of each keyword the results of its record
  scopeOf,           \* of each keyword its context scope
  candidates,        \* the likely pairs the loop has not taken
  clusters,
  clustering         \* "idle" until there are records, then "merging"

clusteringVars == <<results, scopeOf, candidates, clusters, clustering>>

-----------------------------------------------------------------------------
Pairs == {pair \in SUBSET Keywords : Cardinality(pair) = 2}

Shared(left, right) == Cardinality(results[left] \cap results[right])

Comparable(left, right) ==
  Cardinality(results[left]) >= Depth /\ Cardinality(results[right]) >= Depth

IntentConfidence(left, right) ==
  IF scopeOf[left] # scopeOf[right] THEN "context_separate"
  ELSE IF ~Comparable(left, right) THEN "insufficient"
  ELSE IF Shared(left, right) >= High THEN "high"
  ELSE IF Shared(left, right) >= Possible THEN "possible"
  ELSE "separate"

LikelySameIntent(left, right) == IntentConfidence(left, right) \in {"high", "possible"}

\* Faulty variant: one linked pair is enough.
SingleLink(one, other) == \E left \in one, right \in other : LikelySameIntent(left, right)

\* Faulty variant: only pairs above the upper threshold count as links.
HighLink(one, other) ==
  \A left \in one, right \in other : IntentConfidence(left, right) = "high"

CompleteLink(one, other) ==
  \A left \in one, right \in other : LikelySameIntent(left, right)

LargestOverlap(left, right) ==
  \A l, r \in Keywords : {l, r} \in candidates => Shared(l, r) <= Shared(left, right)

-----------------------------------------------------------------------------
ClusteringInit ==
  /\ results = [keyword \in Keywords |-> {}]
  /\ scopeOf = [keyword \in Keywords |-> {}]
  /\ candidates = {}
  /\ clusters = {}
  /\ clustering = "idle"

\* Every keyword starts as a cluster of its own.
StartClustering(records, scoping) ==
  /\ clustering = "idle"
  /\ clustering' = "merging"
  /\ results' = records
  /\ scopeOf' = scoping
  /\ clusters' = {{keyword} : keyword \in Keywords}
  /\ candidates' = {pair \in Pairs :
                      \E left, right \in Keywords :
                        pair = {left, right} /\ LikelySameIntent(left, right)'}

\* One turn of the loop: an edge inside a cluster, or between clusters that are
\* not completely linked, changes nothing.
TakeCandidate(left, right) ==
  /\ {left, right} \in candidates
  /\ LargestOverlap(left, right)
  /\ candidates' = candidates \ {{left, right}}
  /\ \E one, other \in clusters :
       /\ left \in one
       /\ right \in other
       /\ clusters' = IF one # other /\ CompleteLink(one, other)
                      THEN (clusters \ {one, other}) \cup {one \cup other}
                      ELSE clusters
  /\ UNCHANGED <<results, scopeOf, clustering>>

ClusteringNext ==
  \/ \E records \in [Keywords -> TopResults], scoping \in Scopings :
       StartClustering(records, scoping)
  \/ \E left, right \in Keywords : TakeCandidate(left, right)

ClusteringSpec == ClusteringInit /\ [][ClusteringNext]_clusteringVars

-----------------------------------------------------------------------------
\* Whatever the order of the merges, every two keywords of a cluster are likely
\* to have one intent, so they are comparable and of one scope, and no keyword
\* is in two clusters or in none.
ClustersAreComplete ==
  clustering = "merging" =>
    /\ UNION clusters = Keywords
    /\ \A one, other \in clusters : one \cap other # {} => one = other
    /\ \A cluster \in clusters :
         \A left, right \in cluster : left # right => LikelySameIntent(left, right)

\* When the loop ends no two clusters are completely linked: taking each edge
\* once, although a cluster may grow later, has left no merge out.
NoMergeIsLeft ==
  clustering = "merging" /\ candidates = {} =>
    \A one, other \in clusters :
      one # other => \E left \in one, right \in other : ~LikelySameIntent(left, right)

\* The clusters are complete, and when the loop ends they are maximal.
ClustersAreMaximal == ClustersAreComplete /\ NoMergeIsLeft
=============================================================================
