--------------------------- MODULE ResearchRoutes ---------------------------
(***************************************************************************)
(* The routes of scripts/keyword-dashboard-api.mjs, one definition each.   *)
(* A route is what decides which rows an answer may hold: where its rows   *)
(* come from, how they are tied to the site that is asked about, which     *)
(* query parameters narrow them in which view, what it refuses, and        *)
(* whether it reads the projection kept by the server or the database.     *)
(* The fields of a row, its summary and its text search are left out, and  *)
(* so is the value "all", which is the same as not giving the parameter,   *)
(* and so are the parameters that choose how rows are matched, ordered or  *)
(* shown but not whose they are: match_mode, target_domain and target of   *)
(* the search results, depth, strategy and mode of the graphs, details,    *)
(* scope, and the second names class, parity_status and blocker_class.     *)
(* The 503 of a caller without a database is left out: the server has one. *)
(***************************************************************************)
EXTENDS TLC

\* How the rows of a route are tied to the site of the request.
Ties ==
  {"corpus",      \* rows of no site: contracts, catalogues, public corpora
   "report",      \* site.<report>, built for the site by the projection
   "lineage",     \* such a report that holds the demand occurrences of all sites
   "bySite",      \* row.site_id === siteId
   "byGroup",     \* groupIds.has(row.group_id)
   "byAnyGroup",  \* row.group_ids.some(...), or a page seen for such a group
   "byTask",      \* taskIds.has(row.task_id)
   "named"}       \* rows of the group or task the request names

\* A route that takes no site, group or view, and answers in pages.
Listing(tie, filters) ==
  [tie |-> tie,
   views |-> [all |-> filters],  \* the parameters that narrow each view
   default |-> "all",            \* the view of a request that names no other
   strict |-> FALSE,             \* an unknown view is refused
   ownGroups |-> FALSE,          \* a group of another site is refused
   required |-> {},              \* parameters a request must give
   checked |-> {},               \* parameters whose malformed value is refused
   lenient |-> {},               \* parameters whose malformed value is ignored
   site |-> IF tie = "corpus" THEN "unread" ELSE "required",  \* or "checked"
   asks |-> {},                  \* parameters without which no row is answered
   leavesOut |-> {},             \* parameters whose rows are left out
   whole |-> {},                 \* views answered whole, without pages
   source |-> "projection"]      \* "projection", "database" or "file"

Report(filters) == Listing("report", filters)
Views(route, default, views) == [route EXCEPT !.default = default, !.views = views]
ReportViews(default, views) == Views(Report({}), default, views)
OwnGroups(route) == [route EXCEPT !.ownGroups = TRUE]
Whole(route) == [route EXCEPT !.whole = DOMAIN route.views]
Live(route) == [route EXCEPT !.source = "database"]
\* Rows of no site that are kept with every site, or looked up for one.
OfNoSite(filters) == [Listing("corpus", filters) EXCEPT !.site = "required"]
\* Answered from files read at start, before any site is looked up.
Kept(filters) == [Listing("corpus", filters) EXCEPT !.source = "file"]

-----------------------------------------------------------------------------
(* Contracts and catalogues                                                *)

PublicContractFreshness == Whole(Kept({}))
AcquisitionRetention == Kept({"disposition", "q"})
MarketLocations == [Kept({"locationName", "countryCode"})
                      EXCEPT !.checked = {"countryCode"}]
MarketLanguages == Kept({})
CreditsEstimate ==
  LET asked == {"operation", "keyword_count", "seo_difficulty", "depth", "url_count"}
  IN [Whole(Kept({})) EXCEPT !.checked = asked]
OperationGraph == Kept({"role", "credit", "q"})
OperationRetention == Kept({"state", "q"})
ProviderProvenance == Kept({"state", "confidence", "relation", "q"})
SerpFieldLineage ==
  [Views(Listing("corpus", {}), "fields",
         [fields |-> {"q", "projection_state", "decision_state", "value_state"},
          states |-> {"q", "value_state"}])
     EXCEPT !.checked = {"value_state"}]
RawSnapshot ==
  [Views(Live(Listing("named", {})), "summary", [summary |-> {}, payload |-> {}])
     EXCEPT !.required = {"task_id"}, !.strict = TRUE, !.site = "unread", !.whole = {"summary", "payload"}]
SerpDbRetention ==
  [Views(Listing("corpus", {}), "summary",
         [summary |-> {"scope", "q"}, fields |-> {"scope", "severity", "q"},
          drops |-> {"scope", "severity", "q"}])
     EXCEPT !.strict = TRUE, !.checked = {"scope", "severity"}]
CapabilityFilters == {"status", "helix_status", "blocker", "evidence_state", "q"}
CapabilityAudit ==
  Views(Kept({}), "capabilities",
        [capabilities |-> CapabilityFilters, integrity |-> CapabilityFilters,
         credits |-> {"q"}, freshness |-> {"q"}, crosswalk |-> {"q"}])
OpenApi == Whole(Kept({}))
OperationCoverage == Whole(Listing("corpus", {}))
SiteList == Whole(Listing("corpus", {}))

-----------------------------------------------------------------------------
(* Rank, acquisition and content reports of a site                         *)

RankStatus == Whole(Report({}))
RankMonitorPlan ==
  [Report({"state", "q"})
     EXCEPT !.checked = {"device", "location_code", "location_name", "language_name"}]
ActionQueue == OwnGroups(Report({"type", "priority", "group_id", "q"}))
KeywordAcquisitionPortfolio ==
  ReportViews("candidates",
              [candidates |-> {"tier", "q"}, batches |-> {"q"}, covered |-> {"q"}])
AcquisitionLifetimeAllocation ==
  ReportViews("rows", [rows |-> {"capability", "priority", "state", "q"},
                       coverage |-> {"q"}])
AcquisitionLifetimeApprovalManifest ==
  [ReportViews("manifest", [manifest |-> {}, batches |-> {"capability", "q"}])
     EXCEPT !.whole = {"manifest"}]
TitleRepairs == OwnGroups(Report({"state", "group_id", "q"}))
HeadingRepairs ==
  [OwnGroups(Report({"state", "level", "group_id", "q"})) EXCEPT !.lenient = {"level"}]
ContentReadiness == Report({"state", "blocker", "review", "q"})
ContentDemandStability == Report({"state", "type", "q"})
ContentCompetitiveStability == Report({"state", "type", "q"})
ContentEvidenceEnsembleSelection ==
  ReportViews("groups", [groups |-> {"state", "q"}, candidates |-> {"type", "q"}])
ContentTaskHoldout == Report({"state", "temporal_state", "type", "q"})
ContentEditorialReview == Report({"type", "q"})
ContentEditorialAdjudication == Report({"state", "type", "q"})
ContentSelectionDeltaExplanations == Report({"type", "state", "dominant_gain", "q"})
GenerationProvenance == Report({"type", "execution_state", "q"})
GenerationQualityOracle == Report({"type", "state", "q"})
GenerationExecutionManifest == Report({"blocker", "q"})
PaidTestBudgetScenarios == Report({"scenario", "q"})
ContentRichBlockPlans ==
  ReportViews("articles", [articles |-> {"q"}, blocks |-> {"format", "q"}])
GenerationChallengerManifest == Report({"capability", "q"})
SearchContractCodeMappings == Report({"state", "q"})
CompetitiveAppearanceHistory == Report({"state", "type", "domain", "q"})
ClaimVerificationQueue == Report({"priority", "requirement", "state", "q"})
ClaimDiscoveryPortfolio ==
  ReportViews("candidates", [candidates |-> {"priority", "q"}, batches |-> {"q"}])
BatchedPortfolio == ReportViews("candidates", [candidates |-> {"q"}, batches |-> {"q"}])
PaaAnswerCompletion == BatchedPortfolio
AioCompletion == BatchedPortfolio
AcquisitionContractFulfillment == Report({"state", "q"})
AcquisitionRemediationPortfolio == BatchedPortfolio
AcquisitionExecutionReadiness == Whole(Report({}))
AcquisitionApprovalManifest == Whole(Report({}))
\* Without a target the comparisons, with one the tracks of the target.
RankResults == Report({"target", "q"})


-----------------------------------------------------------------------------
(* Freshness, presentation and answers of retained searches                *)

FreshnessSignals == Listing("bySite", {"state", "q"})
PresentationIntegrity == Listing("bySite", {"state", "q"})
SearchContracts == Listing("bySite", {"state", "fingerprint", "q"})
PaaAnswers == Listing("bySite", {"state", "domain", "q"})
AioElementLineage == Listing("bySite", {"state", "review", "domain", "q"})
FeaturePlacements == Listing("bySite", {"type", "prominence", "state", "q"})
SerpFeatureItems == Listing("byTask", {"type", "q"})
AioOverviews == Listing("byTask", {"state", "q"})
SerpResults == Listing("byTask", {"feature", "q"})
SimultaneousRankings == Listing("byTask", {"q"})
SerpPages == Listing("byTask", {"q"})
SerpDepthInventory ==
  [ReportViews("tasks", [tasks |-> {"state", "q"}, summary |-> {}])
     EXCEPT !.whole = {"summary"}]
DepthStability == Report({"state", "robust", "q"})
SnapshotHistory ==
  ReportViews("comparisons",
              [comparisons |-> {"state", "q"}, reuse |-> {"state", "q"}])
\* The view "isolated" of the same path: snapshots that are of no site.
SnapshotIsolated == OfNoSite({"state", "q"})
SnapshotTargets ==  \* the view "targets" of the same path
  [Report({"state", "target", "q"}) EXCEPT !.required = {"target"}]

-----------------------------------------------------------------------------
(* Keywords, expansion and meaning                                         *)

HeadingPatterns ==
  [OwnGroups(Report({"group_id", "state", "level", "q"})) EXCEPT !.lenient = {"level"}]
KeywordLineage == Report({"state", "duplicates", "q"})
KeywordExpansionLineage ==
  Views(Listing("lineage", {}), "nodes",
    [nodes |-> {"node_type", "group_id", "disposition", "q"},
     edges |-> {"edge_type", "group_id", "disposition", "q"},
     coverage |-> {"disposition", "q"}, surfaces |-> {"disposition", "q"}])
KeywordContentLineage == Listing("byGroup", {"group_id", "q"})
LatentDemandTraversal ==
  [OwnGroups(Listing("byGroup", {"group_id", "q"})) EXCEPT !.checked = {"strategy", "max_depth"}]
RelatedKeywordBoundaries == Report({"state", "review", "q"})
AssociationEvidence == Report({"strength", "reciprocal", "q"})
VariantEvidence == Report({"state", "q"})
SemanticCandidateReviews == Report({"state", "q"})
PublicSynonyms == OfNoSite({"q"})
PublicSemanticGraph == [Live(OfNoSite({"relation", "q"})) EXCEPT !.asks = {"q"}]
GraphRelatedKeywords == Live(Listing("bySite", {"state", "boundary", "review", "q"}))
ContentSemanticCoverage ==
  LET filters == {"type", "state", "q"}
  IN OwnGroups(Views(Listing("named", {}), "coverage",
       [coverage |-> filters, expansions |-> filters,
        resolution |-> filters, tasks |-> filters]))
SemanticResolutionDecisions ==
  Report({"group_id", "progress", "readiness", "sense_readiness", "demand_readiness", "q"})
ObservedTagContentCoverage == Report({"action", "classification", "group_id", "q"})
ObservedHashtags == Report({"classification", "source", "q"})
SuggestEvidence == [Report({"q"}) EXCEPT !.asks = {"q"}]
SuggestExpansionLogic ==
  LET filters == {"suggest_class", "engine", "state", "q"}
  IN [ReportViews("seeds",
        [seeds |-> filters, frontier |-> filters, engines |-> filters,
         contract |-> filters, traces |-> filters])
        EXCEPT !.lenient = {"suggest_class"}]
QuestionLineage ==
  ReportViews("candidates",
              [candidates |-> {"kind", "coverage", "q"}, unlinked_answers |-> {"q"}])
QuestionExpansionGraph == ReportViews("nodes", [nodes |-> {"q"}, edges |-> {"q"}])
DemandOccurrenceIntegrity == Report({"type", "scope", "q"})
DemandAppearanceHistory == Report({"state", "type", "q"})
SimultaneousRankIntegrity == Report({"scope", "connection", "q"})
Keywords == Listing("bySite", {"state", "q"})
Demands == Listing("byAnyGroup", {"type", "q"})
QaSiteEvidence ==
  LET filters == {"source", "state", "q"}
  IN ReportViews("observations",
       [observations |-> filters, pages |-> filters, history |-> filters, copy |-> {}])
Questions == Report({"kind", "q"})
RelatedKeywords == Listing("byGroup", {"q"})
KeywordDecisions == Report({"kind", "decision", "review", "q"})
IntentFingerprints == Report({"decision", "review", "q"})
KeywordBoundaries == Report({"decision", "action", "q"})

-----------------------------------------------------------------------------
(* Articles: structure, drafts and their public sources                    *)

ContentTopology == Report({"decision", "review", "q"})
ConsolidationBlueprints == Report({"q"})
ConsolidationCitations == Report({"approval_state", "domain", "merged_claim_id", "q"})
Titles ==
  OwnGroups(Listing("byGroup",
    {"group_id", "state", "pattern_state", "evidence_type", "issue", "variant", "q"}))
Outlines == OwnGroups(Listing("byGroup", {"group_id", "status", "q"}))
Compositions == OwnGroups(Listing("byGroup", {"group_id", "state", "q"}))
Drafts ==
  OwnGroups(Listing("byGroup",
    {"group_id", "publication_state", "evidence_state", "citation_state", "q"}))
Headings ==
  LET filters == {"task_id", "group_id", "level", "exclude", "q"}
  IN [OwnGroups(Views(Listing("byTask", {}), "headings",
                      [headings |-> filters, pages |-> filters]))
        EXCEPT !.lenient = {"level"}, !.leavesOut = {"exclude"}]
CooccurrenceOfGroups == Live(Listing("byGroup", {"q"}))
CooccurrenceOfTasks == Live(Listing("byTask", {"q"}))
ContentEvidence == Listing("byAnyGroup", {"q"})
Brands == ReportViews("brands", [brands |-> {"review", "q"}, domains |-> {"review", "q"}])
Domains == Report({"q"})
NewArticleBriefQueue == Report({"publication_state", "source_preparation_state", "q"})
NewArticleSourceDiscoveryManifest == Report({"q"})
NewArticlePublicSourceEvidence == Report({"support_state", "q"})
PublicSourceReviewPacket == Report({"progress", "q"})
PublicSourceCitationApplicationPackets ==
  ReportViews("packets", [packets |-> {"progress", "q"}, blocked |-> {"progress", "q"}])
EvidenceSafeClaimReframes == Report({"failure_kind", "q"})
EvidenceSafeDraftRevisions == Report({"failure_kind", "progress", "q"})
EvidenceSafeManualRevisionPackets ==
  ReportViews("packets", [packets |-> {"q"}, blocked |-> {"q"}])
NewArticleCitationSuitability == Report({"suitability_state", "q"})
NewArticleTopologyGate == Report({"review_action", "q"})

-----------------------------------------------------------------------------
(* Observed sites, market data and the pages of the site itself            *)

ObservedOpportunityContentCoverage == Report({"review_action", "q"})
ObservedKeywordContentRouting == Report({"action", "q"})
ObservedSiteKeywordOpportunities == Report({"review_route", "q"})
ObservedSiteSimilarity ==
  ReportViews("edges", [edges |-> {"domain", "q"}, nodes |-> {"domain", "q"}])
ObservedSites == Report({"history_state", "q"})
ObservedRankedKeywordHistory == Report({"scope", "state", "q"})
ObservedRankedKeywords == Report({"scope", "q"})
MarketStatus == Whole(Report({}))
MarketResults == Whole(Listing("bySite", {}))
WordpressSurface == Report({"type", "state", "q"})
WordpressLinks == Listing("bySite", {"q"})
WordpressParagraphs == Live(Listing("bySite", {"article_id", "element", "q"}))
WordpressSeoMetadata == Report({"q"})
WordpressSeoAudits == Report({"state", "q"})
GroupBrief == [Whole(Listing("named", {})) EXCEPT !.site = "checked"]
Acquisition == Whole(Report({}))

-----------------------------------------------------------------------------
(* Every route the dispatcher answers.                                     *)

Routes ==
  {PublicContractFreshness, AcquisitionRetention, MarketLocations,
   MarketLanguages, CreditsEstimate, OperationGraph, OperationRetention,
   ProviderProvenance, SerpFieldLineage, RawSnapshot, SerpDbRetention,
   CapabilityAudit, OpenApi, OperationCoverage, SiteList, RankStatus,
   RankMonitorPlan, ActionQueue, KeywordAcquisitionPortfolio,
   AcquisitionLifetimeAllocation, AcquisitionLifetimeApprovalManifest,
   TitleRepairs, HeadingRepairs, ContentReadiness, ContentDemandStability,
   ContentCompetitiveStability, ContentEvidenceEnsembleSelection,
   ContentTaskHoldout, ContentEditorialReview,
   ContentEditorialAdjudication, ContentSelectionDeltaExplanations,
   GenerationProvenance, GenerationQualityOracle,
   GenerationExecutionManifest, PaidTestBudgetScenarios,
   ContentRichBlockPlans, GenerationChallengerManifest,
   SearchContractCodeMappings, CompetitiveAppearanceHistory,
   ClaimVerificationQueue, ClaimDiscoveryPortfolio, PaaAnswerCompletion,
   AioCompletion, AcquisitionContractFulfillment,
   AcquisitionRemediationPortfolio, AcquisitionExecutionReadiness,
   AcquisitionApprovalManifest, RankResults, FreshnessSignals,
   PresentationIntegrity, SearchContracts, PaaAnswers, AioElementLineage,
   FeaturePlacements, SerpFeatureItems, AioOverviews, SerpResults,
   SimultaneousRankings, SerpPages, SerpDepthInventory, DepthStability,
   SnapshotHistory, SnapshotIsolated, SnapshotTargets, HeadingPatterns, KeywordLineage,
   KeywordExpansionLineage, KeywordContentLineage, LatentDemandTraversal,
   RelatedKeywordBoundaries, AssociationEvidence, VariantEvidence,
   SemanticCandidateReviews, PublicSynonyms, PublicSemanticGraph,
   GraphRelatedKeywords, ContentSemanticCoverage,
   SemanticResolutionDecisions, ObservedTagContentCoverage,
   ObservedHashtags, SuggestEvidence, SuggestExpansionLogic,
   QuestionLineage, QuestionExpansionGraph, DemandOccurrenceIntegrity,
   DemandAppearanceHistory, SimultaneousRankIntegrity, Keywords, Demands,
   QaSiteEvidence, Questions, RelatedKeywords, KeywordDecisions,
   IntentFingerprints, KeywordBoundaries, ContentTopology,
   ConsolidationBlueprints, ConsolidationCitations, Titles, Outlines,
   Compositions, Drafts, Headings, CooccurrenceOfGroups,
   CooccurrenceOfTasks, ContentEvidence, Brands, Domains,
   NewArticleBriefQueue, NewArticleSourceDiscoveryManifest,
   NewArticlePublicSourceEvidence, PublicSourceReviewPacket,
   PublicSourceCitationApplicationPackets, EvidenceSafeClaimReframes,
   EvidenceSafeDraftRevisions, EvidenceSafeManualRevisionPackets,
   NewArticleCitationSuitability, NewArticleTopologyGate,
   ObservedOpportunityContentCoverage, ObservedKeywordContentRouting,
   ObservedSiteKeywordOpportunities, ObservedSiteSimilarity, ObservedSites,
   ObservedRankedKeywordHistory, ObservedRankedKeywords, MarketStatus,
   MarketResults, WordpressSurface, WordpressLinks, WordpressParagraphs,
   WordpressSeoMetadata, WordpressSeoAudits, GroupBrief, Acquisition}
=============================================================================
