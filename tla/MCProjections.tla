----------------------------- MODULE MCProjections -----------------------------
(***************************************************************************)
(* Small instances of the projections a database build computes and of the *)
(* audits that read what is on disk.  They share no state: the initial     *)
(* state chooses which of them a behaviour is about, the others stand      *)
(* still.                                                                  *)
(***************************************************************************)
EXTENDS KeywordClustering, LifetimeAllocation, LatentDemandTraversal,
        PublicSemanticGraphQuery, SuggestExpansion, SerpDepthInventory,
        SerpDbRetention, CapabilityAttestation, EnrichmentRun

-----------------------------------------------------------------------------
(* Clustering: four keywords, two results compared, two scopes             *)

CONSTANTS k1, k2, k3, k4, u1, u2, u3, u4

Tops == {{u1, u2}, {u1, u3}, {u2, u3}, {u3, u4}, {u1}}

OneScopeOrTwo ==
  {[k \in Keywords |-> 1], [k \in Keywords |-> IF k = k4 THEN 2 ELSE 1]}

-----------------------------------------------------------------------------
(* Allocation: two keys with several candidates, two sheets                *)

Candidate(id, tier, key, sheet, bonus, unit, attempted) ==
  [id |-> id, tier |-> tier, key |-> key, sheet |-> sheet, bonus |-> bonus, unit |-> unit,
   attempted |-> attempted]

Candidates ==
  {Candidate(6, "payload_gap", "t1", "none", 25, 3, FALSE),
   Candidate(7, "payload_gap", "t2", "none", 25, 1, TRUE),
   Candidate(1, "boundary_review_blocker", "k1", "s1", 0, 2, FALSE),
   Candidate(2, "inventory_discovery", "k1", "s1", 50, 2, FALSE),
   Candidate(3, "group_proposal_evidence", "k1", "s2", 50, NoPrice, FALSE),
   Candidate(4, "inventory_discovery", "k2", "s1", 10, 1, FALSE),
   Candidate(5, "inventory_discovery", "k3", "s1", 10, 1, FALSE)}

-----------------------------------------------------------------------------
(* Latent demand: up to three rows, loops and several types of an edge     *)

Occurrence(group, depth, seed, parent, value, type, words) ==
  [group |-> group, recursionDepth |-> depth, hasSeed |-> seed, parent |-> parent,
   value |-> value, type |-> type, words |-> words]

Occurrences ==
  {Occurrence("g1", 1, TRUE, 1, 1, "paa", {"q"}),
   Occurrence("g1", 1, TRUE, 1, 2, "paa", {"q"}),
   Occurrence("g1", 1, TRUE, 1, 1, "related", {"q"}),
   Occurrence("g1", 2, TRUE, 1, 2, "paa", {"q"}),
   Occurrence("g1", 2, TRUE, 2, 1, "paa", {"q"}),
   Occurrence("g1", 2, TRUE, 2, 3, "related", {"q"}),
   Occurrence("g1", 2, FALSE, 2, 3, "paa", {})}

\* Of another group, or without a parent.
LeftOut ==
  {Occurrence("g2", 1, TRUE, 1, 3, "paa", {"q"}),
   Occurrence("g1", 1, TRUE, NoValue, 3, "paa", {"q"})}

OccurrenceLists ==
  (LeftOut \X Occurrences) \cup
  UNION {{rows \in [1..n -> Occurrences] : \A i, j \in 1..n : i # j => rows[i] # rows[j]} :
           n \in 1..3}

-----------------------------------------------------------------------------
(* Public graph: four synsets, six relations                               *)

Relation(type, source, target) == [type |-> type, source |-> source, target |-> target]

LexiconRelations ==
  {Relation(1, 1, 2), Relation(1, 2, 3), Relation(1, 3, 4), Relation(2, 1, 3),
   Relation(1, 4, 2), Relation(2, 3, 3)}

Lexicons == SUBSET LexiconRelations

Queries ==
  {[exact |-> senses[1], partial |-> senses[2], depth |-> depth, types |-> types,
    maxEdges |-> most, strategy |-> order] :
     senses \in {<<{1}, << >>>>, <<{}, <<4, 2, 4, 3>>>>}, depth \in {NotANumber, 2, 7},
     types \in {{}, {1}}, most \in {3, NotANumber},
     order \in {"breadth_first", "depth_first"}}

-----------------------------------------------------------------------------
(* Lineage: a keyword in two rows, one listed by groups of two sites       *)

SourceRow(id, row, keyword, site, parent) ==
  [kind |-> "source", id |-> id, row |-> row, keyword |-> keyword, site |-> site,
   parent |-> parent]

Book ==
  {SourceRow("s1", 1, "k1", "site", NoSource), SourceRow("s2", 2, "k1", "site", "s1"),
   SourceRow("s3", 3, "k2", "site", "s1"), SourceRow("s4", 4, "k3", "other", NoSource),
   [kind |-> "candidate", id |-> "c1", group |-> "g1"],
   [kind |-> "structure", group |-> "g1"],
   [kind |-> "question", id |-> "q1", group |-> "g1", topic |-> "t1"],
   [kind |-> "synonym", left |-> "w3", right |-> "w4"],
   [kind |-> "readiness", group |-> "g1", state |-> "blocked"]}

Imports ==
  {[kind |-> "proposal", source |-> "s3", group |-> "g2"],
   [kind |-> "occurrence", id |-> "o1", value |-> "d1", keyword |-> "k1", group |-> "g1"],
   [kind |-> "occurrence", id |-> "o2", value |-> "d1", keyword |-> "k3", group |-> NoGroup],
   [kind |-> "topic", id |-> "t1", group |-> "g1", occurrence |-> "o1"],
   [kind |-> "association", left |-> "w1", right |-> "w2"],
   [kind |-> "failure", keyword |-> "k2"],
   SourceRow("s5", 5, "k3", "site", NoSource)}

GroupsOfSites ==
  {[id |-> "g1", site |-> "site",
    lists |-> {[role |-> "main", keyword |-> "k2"], [role |-> "sibling", keyword |-> "k3"]}],
   [id |-> "g2", site |-> "site", lists |-> {[role |-> "main", keyword |-> "k4"]}],
   [id |-> "g3", site |-> "other", lists |-> {[role |-> "main", keyword |-> "k3"]}]}

HierarchyTerms ==
  [keyword \in {"k1", "k2", "k3"} |->
     CASE keyword = "k1" -> {"w1", "w3"} [] keyword = "k2" -> {"w1"} [] OTHER -> {"w2"}]

-----------------------------------------------------------------------------
(* Depth: a task with ten ranks, rows on both sides of the target of 12    *)

ResultRow(task, rank, url) == [task |-> task, rank |-> rank, url |-> url]

TenRanks == {ResultRow("t1", rank, "u1") : rank \in 1..10}

LaterRanks ==
  {ResultRow("t1", 11, "u2"), ResultRow("t1", 12, "u3"), ResultRow("t1", 12, "u1"),
   ResultRow("t1", 14, "u1"), ResultRow("t2", 12, "u3"), ResultRow("t2", 0, "u3"),
   ResultRow("t2", BadRank, "u1")}

Page(task, page, url, status) == [task |-> task, page |-> page, url |-> url, status |-> status]

Pages ==
  {Page("t1", "p1", "u2", "ok"), Page("t1", "p2", "u3", "failed"),
   Page("t2", "p3", "u3", "ok"), Page("t1", "p4", "u2", "failed")}

Depths == [task \in DepthTasks |-> IF task = "t1" THEN 11 ELSE 0]

-----------------------------------------------------------------------------
(* Retention: two audited files and one that is not                        *)

Seen(field, state) == [field |-> field, state |-> state]

Organic(rank, url, faq) ==
  [type |-> "organic", rank |-> rank, url |-> url,
   fields |-> {Seen("organic.type", "nonempty"), Seen("organic.url", "nonempty"),
               Seen("organic.links", "empty"), Seen("organic.faq", faq)}]

Asked(items) ==
  [type |-> "people_also_ask", rank |-> 3, url |-> FALSE,
   fields |-> {Seen("people_also_ask.items", items)}]

RawTask(task, faq, items) ==
  [task |-> task, items |-> items,
   fields |-> {Seen("task.id", "nonempty"), Seen("task.data", "nonempty"),
               Seen("result.faq", faq)}]

RawContents ==
  {RawTask("t1", "nonempty", <<Asked("empty"), Organic(1, TRUE, "nonempty")>>),
   RawTask("t1", "null", <<Organic(1, TRUE, "null"), Asked("nonempty")>>),
   RawTask("t1", "null", <<Asked("empty"), Organic(1, TRUE, "nonempty")>>),
   RawTask("t2", "null", <<Organic(1, FALSE, "zero"), Asked("nonempty")>>),
   RawTask("t2", "null", <<Organic(1, TRUE, "nonempty"), Asked("nonempty"), Asked("zero"),
                           Organic(2, TRUE, "false")>>)}

FirstByName(part) == IF "a" \in part THEN "a" ELSE IF "b" \in part THEN "b" ELSE "c"

-----------------------------------------------------------------------------
(* Attestation: a command of two capabilities, and a gap                   *)

Artifacts == [c \in Capabilities |-> IF c = "c1" THEN {"p1"} ELSE {"p2"}]

Commands ==
  [c \in Capabilities |->
     CASE c = "c1" -> {"m2"} [] c = "c2" -> {"m1", "m2"} [] OTHER -> {"m3"}]

Scripts ==
  [command \in {"m1", "m2", "m3"} |->
     CASE command = "m1" -> "p1" [] command = "m2" -> "p2" [] OTHER -> NoTarget]

-----------------------------------------------------------------------------
VARIABLE projection

ProjectionsInit ==
  /\ projection \in {"clustering", "allocation", "demand", "graph", "corpus",
                     "depth", "retention", "attestation", "enrichment"}
  /\ ClusteringInit /\ AllocationInit /\ DemandInit /\ GraphInit
  /\ CorpusInit /\ DepthInit /\ RetentionInit /\ AttestationInit /\ EnrichmentInit

ClusteringStep ==
  /\ projection = "clustering"
  /\ ClusteringNext
  /\ UNCHANGED <<projection, allocationVars, demandVars, graphVars,
                 corpusVars, depthVars, retentionVars, attestationVars, enrichmentVars>>

AllocationStep ==
  /\ projection = "allocation"
  /\ AllocationNext
  /\ UNCHANGED <<projection, clusteringVars, demandVars, graphVars,
                 corpusVars, depthVars, retentionVars, attestationVars, enrichmentVars>>

DemandStep ==
  /\ projection = "demand"
  /\ DemandNext
  /\ UNCHANGED <<projection, clusteringVars, allocationVars, graphVars,
                 corpusVars, depthVars, retentionVars, attestationVars, enrichmentVars>>

GraphStep ==
  /\ projection = "graph"
  /\ GraphNext
  /\ UNCHANGED <<projection, clusteringVars, allocationVars, demandVars,
                 corpusVars, depthVars, retentionVars, attestationVars, enrichmentVars>>

CorpusStep ==
  /\ projection = "corpus"
  /\ CorpusNext
  /\ UNCHANGED <<projection, clusteringVars, allocationVars, demandVars,
                 graphVars, depthVars, retentionVars, attestationVars, enrichmentVars>>

DepthStep ==
  /\ projection = "depth"
  /\ DepthNext
  /\ UNCHANGED <<projection, clusteringVars, allocationVars, demandVars,
                 graphVars, corpusVars, retentionVars, attestationVars, enrichmentVars>>

RetentionStep ==
  /\ projection = "retention"
  /\ RetentionNext
  /\ UNCHANGED <<projection, clusteringVars, allocationVars, demandVars,
                 graphVars, corpusVars, depthVars, attestationVars, enrichmentVars>>

AttestationStep ==
  /\ projection = "attestation"
  /\ AttestationNext
  /\ UNCHANGED <<projection, clusteringVars, allocationVars, demandVars,
                 graphVars, corpusVars, depthVars, retentionVars, enrichmentVars>>

EnrichmentStep ==
  /\ projection = "enrichment"
  /\ EnrichmentNext
  /\ UNCHANGED <<projection, clusteringVars, allocationVars, demandVars,
                 graphVars, corpusVars, depthVars, retentionVars, attestationVars>>

ProjectionsNext ==
  \/ ClusteringStep
  \/ AllocationStep
  \/ DemandStep
  \/ GraphStep
  \/ CorpusStep
  \/ DepthStep
  \/ RetentionStep
  \/ AttestationStep
  \/ EnrichmentStep

ProjectionsSpec ==
  /\ ProjectionsInit
  /\ [][ProjectionsNext]_<<projection, clusteringVars, allocationVars, demandVars, graphVars,
                           corpusVars, depthVars, retentionVars, attestationVars,
                           enrichmentVars>>
=============================================================================
