----------------------- MODULE KeywordExpansionLineage -----------------------
(***************************************************************************)
(* The ledgers that say where a keyword came from and what it led to:      *)
(* buildKeywordLineageLedger, buildKeywordExpansionLineage and             *)
(* buildKeywordContentLineage.  All are computed from what is retained,    *)
(* which only grows: rows are imported, and rows of the workbook acquired. *)
(*                                                                         *)
(* A retained row is a record with its kind; the groups are given.  A      *)
(* keyword is its normal form.  Labels, digests, scores and the filter of  *)
(* the request are left out: what is built is the whole ledger of one      *)
(* site.                                                                   *)
(***************************************************************************)
EXTENDS Naturals, FiniteSets

CONSTANTS
  Facts,             \* the rows that can be retained
  Workbook,          \* those that are from the start
  AllGroups,         \* of each group [id, site, lists], lists holding [role, keyword]
  Site,              \* the site the ledgers are built for
  TermsOf,           \* of each keyword the terms of its hierarchy row
  NoSource, NoGroup

\* A group has an identifier of its own (group_id is the key of its table).
ASSUME CorpusAssumption ==
  /\ IsFiniteSet(Facts) /\ IsFiniteSet(Workbook) /\ IsFiniteSet(AllGroups)
  /\ \A group \in AllGroups : IsFiniteSet(group.lists)
  /\ \A group, other \in AllGroups : group.id = other.id => group = other

VARIABLES
  facts,             \* what is retained
  acquired,          \* the rows of the workbook that are not SERP未取得
  lineage            \* the nodes of the lineage built from them

corpusVars == <<facts, acquired, lineage>>

Of(kind) == {fact \in facts : fact.kind = kind}

Inventory == {fact \in Of("source") : fact.site = Site}
SiteGroups == {group \in AllGroups : group.site = Site}
GroupIds == {group.id : group \in SiteGroups}

Lists(group, keyword) == \E entry \in group.lists : entry.keyword = keyword

\* The rows of a keyword, and the first of them or NoSource.
SourcesOf(keyword) == {source \in Inventory : source.keyword = keyword}
FirstSource(keyword) ==
  IF SourcesOf(keyword) = {} THEN NoSource
  ELSE (CHOOSE source \in SourcesOf(keyword) :
          \A other \in SourcesOf(keyword) : source.row <= other.row).id

-----------------------------------------------------------------------------
\* buildKeywordLineageLedger.
\* Faulty variant: siblings are forgotten.
MainGroups(source) ==
  {group.id : group \in {g \in AllGroups :
                           \E entry \in g.lists : entry.role = "main" /\ entry.keyword = source.keyword}}

ExactGroups(source) == {group.id : group \in {g \in AllGroups : Lists(g, source.keyword)}}

ProposalGroups(source) ==
  {proposal.group : proposal \in {p \in Of("proposal") : p.source = source.id}}

LineageState(source) ==
  IF source \in acquired
  THEN IF ExactGroups(source) = {} THEN "lineage_anomaly"
       ELSE IF Cardinality(ExactGroups(source)) = 1 THEN "acquired_unique_group"
       ELSE "acquired_multi_group_review"
  ELSE IF ProposalGroups(source) # {} THEN "unacquired_recommendation_connected"
  ELSE "inventory_only_hierarchy"

-----------------------------------------------------------------------------
StateForKeyword(source) == IF source \in acquired THEN "retained" ELSE "not_acquired"

Rank(state) ==
  CASE state = "failed" -> 5 [] state = "retained" -> 4 [] state = "not_acquired" -> 3
    [] state = "zero" -> 2 [] state = "not_applicable" -> 1

\* Faulty variant: a later row weakens a node.
WeakestState(states) ==
  CHOOSE state \in states : \A other \in states : Rank(state) <= Rank(other)

\* mergeState over everything that names one node.
MergedState(states) ==
  CHOOSE state \in states : \A other \in states : Rank(other) <= Rank(state)

Node(type, key) == [type |-> type, key |-> key]
Named(type, key, state) == [node |-> Node(type, key), state |-> state]
Retained(type, key) == Named(type, key, "retained")

Edge(type, from, to, source, ref) ==
  [type |-> type, from |-> from, to |-> to, source |-> source, ref |-> ref]

ParentsOf(source) == {parent \in Inventory : parent.id = source.parent}

LexicalTerms == UNION {{row.left, row.right} : row \in Of("association")}

SurfaceState(surface) ==
  CASE surface = "retained_workbook" -> "retained"
    [] surface = "serp_demand_features" ->
         IF Of("occurrence") # {} THEN "retained" ELSE "zero"
    [] surface = "contextual_semantic_dictionary" ->
         IF LexicalTerms # {} THEN "retained" ELSE "not_applicable"
    [] OTHER -> "not_acquired"

Surfaces == {"retained_workbook", "serp_demand_features", "external_autocomplete",
             "provider_question_database", "provider_rank_database",
             "contextual_semantic_dictionary"}

\* Synonyms count when one side is a term of the site.
SynonymTerms == LexicalTerms \cup UNION {TermsOf[source.keyword] : source \in Inventory}
UsedSynonyms == {row \in Of("synonym") : row.left \in SynonymTerms \/ row.right \in SynonymTerms}

OfSiteGroups(kind) == {fact \in Of(kind) : fact.group \in GroupIds}

\* ensureNode, for everything that names a node.
NamedNodes ==
  LET sources  == {Named("source_keyword", s.id, StateForKeyword(s)) : s \in Inventory}
      keywords == {Named("normalized_keyword", s.keyword, StateForKeyword(s)) : s \in Inventory}
      rows     == {Retained("normalized_keyword", s.keyword) : s \in Inventory}
      asked    == {Retained("normalized_keyword", o.keyword) : o \in Of("occurrence")}
      groups   == {Retained("keyword_group", id) : id \in GroupIds}
      demands  == {Retained("demand", o.value) : o \in Of("occurrence")}
      edited   == {Retained(fact.kind, fact.id) :
                     fact \in UNION {OfSiteGroups(kind) : kind \in {"topic", "question", "candidate"}}}
      terms    == {Retained("lexical_term", term) : term \in LexicalTerms}
      synonyms == UNION {{Retained("lexical_term", row.left), Retained("lexical_term", row.right)} :
                           row \in UsedSynonyms}
      surfaces == UNION {{Named("evidence_surface", s, SurfaceState(s)),
                          Named("disposition_state", SurfaceState(s), SurfaceState(s))} : s \in Surfaces}
  IN sources \cup keywords \cup rows \cup asked \cup groups \cup demands \cup edited
     \cup terms \cup synonyms \cup surfaces

\* The nodes with their merged states.
Merged(named) ==
  {n \in named : n.state = MergedState({m.state : m \in {o \in named : o.node = n.node}})}

-----------------------------------------------------------------------------
SourceEdges ==
  {Edge("normalization", s.id, s.keyword, s.id, "row") : s \in Inventory}
  \cup {Edge("hierarchy_parent", s.id, s.parent, s.id, "row") :
          s \in {t \in Inventory : ParentsOf(t) # {}}}

MembershipEdges ==
  UNION {UNION {{Edge("group_membership", s.id, group.id, s.id, entry.role) :
                   s \in SourcesOf(entry.keyword)} : entry \in group.lists} : group \in SiteGroups}

BoundaryEdges ==
  {Edge("related_group_candidate", p.source, p.group, p.source, "proposal") :
     p \in {q \in OfSiteGroups("proposal") : \E s \in Inventory : s.id = q.source}}

\* Faulty variant: an occurrence is attributed to the first row of its keyword.
FirstRowOnly(occurrence) == {FirstSource(occurrence.keyword)}

\* An occurrence is attributed to every row of its keyword, or to none.
AttributedTo(occurrence) ==
  IF SourcesOf(occurrence.keyword) = {} THEN {NoSource}
  ELSE {source.id : source \in SourcesOf(occurrence.keyword)}

DemandEdges ==
  (UNION {{Edge("observed_demand", IF id = NoSource THEN o.keyword ELSE id, o.value, id, o.id) :
            id \in AttributedTo(o)} : o \in Of("occurrence")})
  \cup {Edge("group_demand", o.group, o.value, FirstSource(o.keyword), o.id) :
          o \in OfSiteGroups("occurrence")}

EditorialEdges ==
  {Edge("group_topic", t.group, t.id, NoSource, "topic") : t \in OfSiteGroups("topic")}
  \cup (UNION {{Edge("topic_evidence", o.value, t.id, NoSource, o.id) :
                 o \in {p \in Of("occurrence") : p.id = t.occurrence}} : t \in OfSiteGroups("topic")})
  \cup {Edge("group_question", q.group, q.id, NoSource, "question") : q \in OfSiteGroups("question")}
  \cup {Edge("topic_question", q.topic, q.id, NoSource, "question") :
          q \in {r \in OfSiteGroups("question") : \E t \in OfSiteGroups("topic") : t.id = r.topic}}
  \cup {Edge("group_content_candidate", c.group, c.id, NoSource, "candidate") :
          c \in OfSiteGroups("candidate")}

\* A term edge is attributed to the first row of its keyword only.
LexicalEdges ==
  (UNION {{Edge("keyword_term", s.keyword, term, FirstSource(s.keyword), "token") :
            term \in TermsOf[s.keyword] \cap LexicalTerms} : s \in Inventory})
  \cup {Edge("keyword_term", row.left, row.right, NoSource, "cooccurrence") : row \in Of("association")}
  \cup {Edge("reviewed_synonym", row.left, row.right, NoSource, "synonym") : row \in UsedSynonyms}

SurfaceEdges ==
  {Edge("surface_state", s, SurfaceState(s), NoSource, s) : s \in Surfaces}

EdgesOfLineage ==
  SourceEdges \cup MembershipEdges \cup BoundaryEdges \cup DemandEdges \cup EditorialEdges
  \cup LexicalEdges \cup SurfaceEdges

ExpansionCount(source) ==
  Cardinality({edge \in EdgesOfLineage :
                 edge.source = source.id /\ edge.type \notin {"normalization", "hierarchy_parent"}})

DispositionState(source) ==
  IF \E failure \in Of("failure") : failure.keyword = source.keyword THEN "failed"
  ELSE IF source \in acquired /\ ExpansionCount(source) = 0 THEN "zero"
  ELSE StateForKeyword(source)

DispositionStates == {"retained", "not_acquired", "failed", "not_applicable", "zero"}

ExpansionSummary ==
  LET disposition == [source \in Inventory |-> DispositionState(source)]
  IN [sources |-> Cardinality(Inventory),
      groups  |-> Cardinality(SiteGroups),
      edges   |-> Cardinality(EdgesOfLineage),
      ofState |-> [state \in DispositionStates |->
                     Cardinality({s \in Inventory : disposition[s] = state})]]

-----------------------------------------------------------------------------
\* buildKeywordContentLineage: what is shown of one group.
SourceRowsForGroup(group) ==
  LET exact == {s \in Inventory : group.id \in ExactGroups(s)}
  IN IF exact # {} THEN exact ELSE {s \in Inventory : Lists(group, s.keyword)}

ProposalRowsForGroup(group) == {s \in Inventory : group.id \in ProposalGroups(s)}

OfGroup(kind, group) == {fact \in Of(kind) : fact.group = group.id}

Stages(group) ==
  [source_keywords |-> IF SourceRowsForGroup(group) # {} THEN "retained"
                       ELSE IF ProposalRowsForGroup(group) # {} THEN "proposal_only"
                       ELSE "missing",
   demand |-> IF OfGroup("occurrence", group) \cup OfGroup("topic", group) # {}
              THEN "observed" ELSE "not_observed",
   structure |-> IF OfGroup("structure", group) # {} THEN "candidate" ELSE "missing",
   title_and_headings |-> IF OfGroup("candidate", group) # {} THEN "candidate" ELSE "missing",
   publication |-> CASE OfGroup("readiness", group) = {} -> "unknown"
                     [] \E r \in OfGroup("readiness", group) : r.state = "blocked" -> "blocked"
                     [] OTHER -> "review"]

\* How many groups are in a state of a stage.
StageCount(stage, state) ==
  Cardinality({group \in SiteGroups : Stages(group)[stage] = state})

ContentLineageSummary ==
  [groups       |-> Cardinality(SiteGroups),
   retained     |-> StageCount("source_keywords", "retained"),
   proposalOnly |-> StageCount("source_keywords", "proposal_only"),
   observed     |-> StageCount("demand", "observed"),
   structured   |-> StageCount("structure", "candidate"),
   generated    |-> StageCount("title_and_headings", "candidate"),
   blocked      |-> StageCount("publication", "blocked")]

-----------------------------------------------------------------------------
\* The lineage is built again from what is retained now.
Rebuild == \E named \in {NamedNodes'} : lineage' = Merged(named)

CorpusInit == facts = {} /\ acquired = {} /\ lineage = {}

\* The workbook is imported before anything else.
ImportWorkbook ==
  /\ facts = {}
  /\ facts' = Workbook
  /\ UNCHANGED acquired
  /\ Rebuild

\* A row is imported.
Retain(fact) ==
  /\ facts # {}
  /\ fact \in Facts \ facts
  /\ facts' = facts \cup {fact}
  /\ UNCHANGED acquired
  /\ Rebuild

\* The task of a row of the workbook is acquired.
Acquire(source) ==
  /\ source \in Of("source") \ acquired
  /\ acquired' = acquired \cup {source}
  /\ UNCHANGED facts
  /\ Rebuild

CorpusNext ==
  \/ ImportWorkbook
  \/ \E fact \in Facts : Retain(fact)
  \/ \E source \in Facts \cup Workbook : source.kind = "source" /\ Acquire(source)

CorpusSpec == CorpusInit /\ [][CorpusNext]_corpusVars

-----------------------------------------------------------------------------
\* A row said to have led to nothing really has nothing retained: no occurrence
\* of its keyword, no group that lists it, no proposal; and the ledger of the
\* lineage, which counts nothing, calls the same row an anomaly.  Keywords occur
\* in several rows, and an occurrence counts for each of them.
ZeroMeansNothingRetained ==
  \A source \in Inventory :
    DispositionState(source) = "zero" =>
      /\ \A occurrence \in Of("occurrence") : occurrence.keyword # source.keyword
      /\ \A group \in SiteGroups : ~Lists(group, source.keyword)
      /\ \A proposal \in OfSiteGroups("proposal") : proposal.source # source.id
      /\ (\A group \in AllGroups \ SiteGroups : ~Lists(group, source.keyword)) =>
           LineageState(source) = "lineage_anomaly"

\* The three ledgers agree on the members of a group: the sources its content
\* lineage shows are the rows with a membership edge to it, and an acquired one
\* of them is never an anomaly.  The sums of the content lineage are those of the
\* edges of the expansion lineage: what one of them counts the other links.
LedgersAgreeOnMembers ==
  LET edges   == EdgesOfLineage
      summary == ContentLineageSummary
      linkedTo(type)   == {edge.to : edge \in {e \in edges : e.type = type}}
      linkedFrom(type) == {edge.from : edge \in {e \in edges : e.type = type}}
  IN
  /\ summary.retained = Cardinality(linkedTo("group_membership"))
  /\ summary.proposalOnly =
       Cardinality(linkedTo("related_group_candidate") \ linkedTo("group_membership"))
  /\ summary.observed = Cardinality(linkedFrom("group_demand") \cup linkedFrom("group_topic"))
  /\ summary.generated = Cardinality(linkedFrom("group_content_candidate"))
  /\ \A group \in SiteGroups :
       /\ {source.id : source \in SourceRowsForGroup(group)} =
            {edge.source : edge \in {e \in edges : e.type = "group_membership" /\ e.to = group.id}}
       /\ \A source \in SourceRowsForGroup(group) :
            LineageState(source) # "lineage_anomaly" /\ DispositionState(source) # "zero"
       /\ Stages(group).source_keywords = "proposal_only" =>
            \E edge \in BoundaryEdges : edge.to = group.id

\* Retaining or acquiring more never takes a node from the lineage and never
\* weakens what is said of its state; only the nodes that stand for the states
\* themselves come and go.
EvidenceOnlyStrengthens ==
  [][\A named \in lineage :
       named.node.type # "disposition_state" =>
         \E later \in lineage' :
           later.node = named.node /\ Rank(named.state) <= Rank(later.state)]_lineage
=============================================================================
