---------------------------- MODULE GraphProofs -----------------------------
(***************************************************************************)
(* Proofs about the projections over graphs: the lineage of keywords, the  *)
(* search of the latent demands and the walk over the public lexicon.      *)
(***************************************************************************)
EXTENDS SuggestExpansion, LatentDemandTraversal, PublicSemanticGraphQuery,
        SumProofs, SequenceTheorems

-----------------------------------------------------------------------------
(* KeywordExpansionLineage, for every finite corpus.                         *)
(*                                                                           *)
(* A state is the strongest of a set of states, and a larger set has no weaker *)
(* one; that a node without rows is reported as zero goes through the sums.  *)

NodeStates == {"retained", "not_acquired", "zero", "not_applicable"}

LEMMA RanksOfStates ==
  /\ Rank("retained") = 4 /\ Rank("not_acquired") = 3
  /\ Rank("zero") = 2 /\ Rank("not_applicable") = 1
BY DEF Rank

\* Of the states of a node one is the strongest.
LEMMA StrongestState ==
  ASSUME NEW states \in SUBSET NodeStates, states # {}
  PROVE  /\ MergedState(states) \in states
         /\ \A other \in states : Rank(other) <= Rank(MergedState(states))
<1>1. \E state \in states : \A other \in states : Rank(other) <= Rank(state)
  <2>1. CASE "retained" \in states
    BY <2>1, RanksOfStates DEF NodeStates
  <2>2. CASE "retained" \notin states /\ "not_acquired" \in states
    BY <2>2, RanksOfStates DEF NodeStates
  <2>3. CASE states \subseteq {"zero", "not_applicable"} /\ "zero" \in states
    BY <2>3, RanksOfStates
  <2>4. CASE states \subseteq {"not_applicable"}
    <3>1. states = {"not_applicable"}
      BY <2>4
    <3> QED
      BY <3>1, RanksOfStates
  <2> QED
    BY <2>1, <2>2, <2>3, <2>4 DEF NodeStates
<1> QED
  BY <1>1 DEF MergedState

-----------------------------------------------------------------------------
\* What names a node, in the sets the ledger takes it from.
NamedBySources(n) ==
  \E s \in Inventory :
    \/ n = Named("source_keyword", s.id, StateForKeyword(s))
    \/ n = Named("normalized_keyword", s.keyword, StateForKeyword(s))
    \/ n = Retained("normalized_keyword", s.keyword)

NamedByRows(n) ==
  \/ \E o \in Of("occurrence") :
       n = Retained("normalized_keyword", o.keyword) \/ n = Retained("demand", o.value)
  \/ \E id \in GroupIds : n = Retained("keyword_group", id)
  \/ \E kind \in {"topic", "question", "candidate"} : \E fact \in OfSiteGroups(kind) :
       n = Retained(fact.kind, fact.id)

NamedByTerms(n) ==
  \/ \E term \in LexicalTerms : n = Retained("lexical_term", term)
  \/ \E row \in UsedSynonyms :
       n = Retained("lexical_term", row.left) \/ n = Retained("lexical_term", row.right)

NamedBySurfaces(n) ==
  \E s \in Surfaces :
    \/ n = Named("evidence_surface", s, SurfaceState(s))
    \/ n = Named("disposition_state", SurfaceState(s), SurfaceState(s))

NodesNamed ==
  \A n : n \in NamedNodes <=>
           NamedBySources(n) \/ NamedByRows(n) \/ NamedByTerms(n) \/ NamedBySurfaces(n)

LEMMA WhatNamesANode == NodesNamed
BY DEF NodesNamed, NamedNodes, NamedBySources, NamedByRows, NamedByTerms, NamedBySurfaces

IsNode(n) == n = [node |-> n.node, state |-> n.state] /\ n.state \in NodeStates

NodesAreTyped == \A n \in NamedNodes : IsNode(n)

LEMMA StatesOfNodes == NodesAreTyped
<1> SUFFICES ASSUME NEW n \in NamedNodes PROVE IsNode(n)
  BY DEF NodesAreTyped
<1> USE DEF IsNode
<1>1. CASE NamedBySources(n)
  BY <1>1 DEF NamedBySources, Named, Retained, StateForKeyword, NodeStates
<1>2. CASE NamedByRows(n)
  BY <1>2 DEF NamedByRows, Named, Retained, NodeStates
<1>3. CASE NamedByTerms(n)
  BY <1>3 DEF NamedByTerms, Named, Retained, NodeStates
<1>4. CASE NamedBySurfaces(n)
  <2>1. \A s \in Surfaces : SurfaceState(s) \in NodeStates
    BY DEF SurfaceState, NodeStates
  <2> QED
    BY <1>4, <2>1 DEF NamedBySurfaces, Named
<1> QED
  BY <1>1, <1>2, <1>3, <1>4, WhatNamesANode DEF NodesNamed

\* A node that is named is in the lineage in the strongest of its states.
LEMMA NamedIsMerged ==
  ASSUME NEW named, NEW n \in named,
         \A m \in named : IsNode(m)
  PROVE  \E later \in Merged(named) : later.node = n.node /\ Rank(n.state) <= Rank(later.state)
<1> DEFINE same == {o \in named : o.node = n.node}
           states == {m.state : m \in same}
<1>1. states \in SUBSET NodeStates /\ n.state \in states
  BY DEF IsNode
<1> HIDE DEF states
<1>2. /\ MergedState(states) \in states
      /\ Rank(n.state) <= Rank(MergedState(states))
  BY <1>1, StrongestState
<1>3. PICK later \in same : later.state = MergedState(states)
  BY <1>2 DEF states
<1>4. later \in Merged(named)
  BY <1>3 DEF Merged, states
<1> QED
  BY <1>2, <1>3, <1>4

-----------------------------------------------------------------------------
\* n is still named, in a state that is no weaker.
StillNamed(n, named) == \E m \in named : m.node = n.node /\ Rank(n.state) <= Rank(m.state)

LEMMA NodesGrow ==
  ASSUME facts \subseteq facts', acquired \subseteq acquired',
         NEW n \in NamedNodes, n.node.type # "disposition_state"
  PROVE  StillNamed(n, NamedNodes')
<1>1. /\ \A kind : Of(kind) \subseteq Of(kind)'
      /\ \A kind : OfSiteGroups(kind) \subseteq OfSiteGroups(kind)'
      /\ Inventory \subseteq Inventory'
  BY DEF Of, OfSiteGroups, Inventory, GroupIds, SiteGroups
<1>2. NodesNamed'
  BY WhatNamesANode, PTL
<1>3. n \in NamedNodes' => StillNamed(n, NamedNodes')
  <2>1. Rank(n.state) <= Rank(n.state)
    BY StatesOfNodes, RanksOfStates DEF NodesAreTyped, IsNode, NodeStates
  <2> QED
    BY <2>1 DEF StillNamed
<1>4. CASE NamedBySources(n)
  <2>1. PICK s \in Inventory :
          \/ n = Named("source_keyword", s.id, StateForKeyword(s))
          \/ n = Named("normalized_keyword", s.keyword, StateForKeyword(s))
          \/ n = Retained("normalized_keyword", s.keyword)
    BY <1>4 DEF NamedBySources
  <2>2. Rank(StateForKeyword(s)) <= Rank(StateForKeyword(s)')
    BY RanksOfStates DEF StateForKeyword
  <2>3. /\ Named("source_keyword", s.id, StateForKeyword(s)') \in NamedNodes'
        /\ Named("normalized_keyword", s.keyword, StateForKeyword(s)') \in NamedNodes'
        /\ Retained("normalized_keyword", s.keyword) \in NamedNodes'
    BY <1>1, <1>2 DEF NodesNamed, NamedBySources, StateForKeyword
  <2> QED
    BY <1>3, <2>1, <2>2, <2>3 DEF StillNamed, Named
<1>5. CASE NamedByRows(n)
  BY <1>1, <1>2, <1>3, <1>5 DEF NodesNamed, NamedByRows
<1>6. CASE NamedByTerms(n)
  <2>1. LexicalTerms \subseteq LexicalTerms'
    BY <1>1 DEF LexicalTerms
  <2>2. SynonymTerms \subseteq SynonymTerms'
    BY <1>1, <2>1 DEF SynonymTerms
  <2>3. UsedSynonyms \subseteq UsedSynonyms'
    BY <1>1, <2>2 DEF UsedSynonyms
  <2> QED
    BY <1>2, <1>3, <1>6, <2>1, <2>3 DEF NodesNamed, NamedByTerms
<1>7. CASE NamedBySurfaces(n)
  <2>1. PICK s \in Surfaces : n = Named("evidence_surface", s, SurfaceState(s))
    BY <1>7 DEF NamedBySurfaces, Named, Node
  <2>2. LexicalTerms \subseteq LexicalTerms'
    BY <1>1 DEF LexicalTerms
  <2>3. Rank(SurfaceState(s)) <= Rank(SurfaceState(s)')
    BY <1>1, <2>2, RanksOfStates DEF SurfaceState
  <2>4. Named("evidence_surface", s, SurfaceState(s)') \in NamedNodes'
    BY <1>2 DEF NodesNamed, NamedBySurfaces, SurfaceState
  <2> QED
    BY <2>1, <2>3, <2>4 DEF StillNamed, Named
<1> QED
  BY <1>4, <1>5, <1>6, <1>7, WhatNamesANode DEF NodesNamed

LineageInv == lineage = {} \/ lineage = Merged(NamedNodes)

LEMMA CorpusGrows ==
  ASSUME CorpusNext
  PROVE  /\ facts \subseteq facts' /\ acquired \subseteq acquired'
         /\ lineage' = Merged(NamedNodes')
BY DEF CorpusNext, ImportWorkbook, Retain, Acquire, Rebuild

LEMMA LineageInvariant == CorpusSpec => []LineageInv
<1>1. CorpusInit => LineageInv
  BY DEF CorpusInit, LineageInv
<1>2. LineageInv /\ [CorpusNext]_corpusVars => LineageInv'
  <2>1. ASSUME CorpusNext PROVE LineageInv'
    BY <2>1, CorpusGrows DEF LineageInv, Merged
  <2>2. ASSUME LineageInv, UNCHANGED corpusVars PROVE LineageInv'
    <3>1. NamedNodes' = NamedNodes
      BY <2>2 DEF corpusVars, NamedNodes, Inventory, Of, StateForKeyword, GroupIds, SiteGroups,
                  OfSiteGroups, LexicalTerms, UsedSynonyms, SynonymTerms, SurfaceState
    <3> QED
      BY <2>2, <3>1 DEF corpusVars, LineageInv, Merged
  <2> QED
    BY <2>1, <2>2
<1> QED
  BY <1>1, <1>2, PTL DEF CorpusSpec

\* Retaining or acquiring more never takes a node from the lineage or weakens
\* its state, for any rows, groups and keywords (buildKeywordExpansionLineage).
THEOREM EvidenceStrengthens == CorpusSpec => EvidenceOnlyStrengthens
<1>1. ASSUME LineageInv, CorpusNext
      PROVE  \A named \in lineage :
               named.node.type # "disposition_state" =>
                 \E later \in lineage' :
                   later.node = named.node /\ Rank(named.state) <= Rank(later.state)
  <2> SUFFICES ASSUME NEW named \in lineage, named.node.type # "disposition_state"
               PROVE  \E later \in lineage' :
                        later.node = named.node /\ Rank(named.state) <= Rank(later.state)
    OBVIOUS
  <2>1. named \in NamedNodes
    BY <1>1 DEF LineageInv, Merged
  <2>2. StillNamed(named, NamedNodes')
    BY <1>1, <2>1, CorpusGrows, NodesGrow
  <2>3. PICK m \in NamedNodes' : m.node = named.node /\ Rank(named.state) <= Rank(m.state)
    BY <2>2 DEF StillNamed
  <2>4. NodesAreTyped /\ NodesAreTyped'
    BY StatesOfNodes, PTL
  <2>5. /\ \A n \in NamedNodes : IsNode(n)
        /\ \A n \in NamedNodes' : IsNode(n)
    BY <2>4 DEF NodesAreTyped, IsNode
  <2>6. PICK later \in Merged(NamedNodes') : later.node = m.node /\ Rank(m.state) <= Rank(later.state)
    BY <2>5, NamedIsMerged
  <2>7. Rank(named.state) \in Nat /\ Rank(m.state) \in Nat /\ Rank(later.state) \in Nat
    BY <2>1, <2>5, <2>6, RanksOfStates DEF Merged, IsNode, NodeStates
  <2> QED
    BY <1>1, <2>3, <2>6, <2>7, CorpusGrows
<1>2. LineageInv /\ [CorpusNext]_corpusVars =>
        [\A named \in lineage :
           named.node.type # "disposition_state" =>
             \E later \in lineage' :
               later.node = named.node /\ Rank(named.state) <= Rank(later.state)]_lineage
  BY <1>1 DEF corpusVars
<1> QED
  BY <1>2, LineageInvariant, PTL DEF CorpusSpec, EvidenceOnlyStrengthens

-----------------------------------------------------------------------------
(* What a row said to have led to nothing has retained                     *)

CorpusTypes == facts \subseteq Facts \cup Workbook

LEMMA CorpusTypesHold == CorpusSpec => []CorpusTypes
<1>1. CorpusInit => CorpusTypes
  BY DEF CorpusInit, CorpusTypes
<1>2. CorpusTypes /\ [CorpusNext]_corpusVars => CorpusTypes'
  BY DEF CorpusTypes, CorpusNext, ImportWorkbook, Retain, Acquire, corpusVars
<1> QED
  BY <1>1, <1>2, PTL DEF CorpusSpec

LEMMA FiniteCorpus ==
  ASSUME CorpusTypes
  PROVE  /\ IsFiniteSet(facts)
         /\ \A kind : IsFiniteSet(Of(kind)) /\ IsFiniteSet(OfSiteGroups(kind))
         /\ IsFiniteSet(Inventory) /\ IsFiniteSet(SiteGroups)
         /\ \A keyword : IsFiniteSet(SourcesOf(keyword))
<1>1. IsFiniteSet(Facts \cup Workbook)
  BY CorpusAssumption, UnionIsFinite
<1>2. IsFiniteSet(facts)
  BY <1>1, FS_Subset DEF CorpusTypes
<1>3. \A kind : Of(kind) \subseteq facts /\ OfSiteGroups(kind) \subseteq facts
  BY DEF Of, OfSiteGroups
<1>4. Inventory \subseteq facts /\ \A keyword : SourcesOf(keyword) \subseteq facts
  BY <1>3 DEF Inventory, SourcesOf
<1>5. IsFiniteSet(SiteGroups)
  BY CorpusAssumption, FS_Subset DEF SiteGroups
<1> QED
  BY <1>2, <1>3, <1>4, <1>5, FS_Subset

LEMMA FiniteTerms ==
  ASSUME CorpusTypes
  PROVE  IsFiniteSet(LexicalTerms)
<1> DEFINE S == Of("association")
           f == [row \in S |-> {row.left, row.right}]
<1>1. \A row \in S : IsFiniteSet(f[row])
  BY PairIsFinite
<1>2. UNION {f[row] : row \in S} = LexicalTerms
  BY DEF LexicalTerms
<1>3. IsFiniteSet(S)
  BY FiniteCorpus
<1> HIDE DEF S, f
<1> QED
  BY <1>1, <1>2, <1>3, UnionOfImagesIsFinite

LEMMA FiniteSourceEdges == ASSUME CorpusTypes PROVE IsFiniteSet(SourceEdges)
<1> DEFINE f == [s \in Inventory |-> Edge("normalization", s.id, s.keyword, s.id, "row")]
           T == {t \in Inventory : ParentsOf(t) # {}}
           g == [s \in T |-> Edge("hierarchy_parent", s.id, s.parent, s.id, "row")]
<1>1. IsFiniteSet(Inventory) /\ IsFiniteSet(T)
  BY FiniteCorpus, FS_Subset
<1>2. SourceEdges = {f[s] : s \in Inventory} \cup {g[s] : s \in T}
  BY DEF SourceEdges
<1> HIDE DEF f, g, T
<1>3. PICK A, B : A = {f[s] : s \in Inventory} /\ B = {g[s] : s \in T}
  OBVIOUS
<1>4. IsFiniteSet(A) /\ IsFiniteSet(B)
  BY <1>1, <1>3, ImageIsFinite
<1> QED
  BY <1>2, <1>3, <1>4, UnionIsFinite

LEMMA FiniteMembershipEdges == ASSUME CorpusTypes PROVE IsFiniteSet(MembershipEdges)
<1> DEFINE OfEntry(group, entry) ==
             {Edge("group_membership", s.id, group.id, s.id, entry.role) :
                s \in SourcesOf(entry.keyword)}
           OfOne(group) == UNION {OfEntry(group, entry) : entry \in group.lists}
           h == [group \in SiteGroups |-> OfOne(group)]
<1>1. ASSUME NEW group, NEW entry PROVE IsFiniteSet(OfEntry(group, entry))
  <2> DEFINE f == [s \in SourcesOf(entry.keyword) |->
                     Edge("group_membership", s.id, group.id, s.id, entry.role)]
  <2>1. IsFiniteSet(SourcesOf(entry.keyword))
    BY FiniteCorpus
  <2>2. OfEntry(group, entry) = {f[s] : s \in SourcesOf(entry.keyword)}
    OBVIOUS
  <2> HIDE DEF f, OfEntry
  <2> QED
    BY <2>1, <2>2, ImageIsFinite
<1>2. ASSUME NEW group \in SiteGroups PROVE IsFiniteSet(OfOne(group))
  <2> DEFINE f == [entry \in group.lists |-> OfEntry(group, entry)]
  <2> HIDE DEF OfEntry
  <2>1. IsFiniteSet(group.lists)
    BY CorpusAssumption DEF SiteGroups
  <2>2. OfOne(group) = UNION {f[entry] : entry \in group.lists}
    OBVIOUS
  <2>3. \A entry \in group.lists : IsFiniteSet(f[entry])
    BY <1>1
  <2> HIDE DEF f, OfOne
  <2> QED
    BY <2>1, <2>2, <2>3, UnionOfImagesIsFinite
<1>3. MembershipEdges = UNION {h[group] : group \in SiteGroups}
  BY DEF MembershipEdges
<1>4. \A group \in SiteGroups : IsFiniteSet(h[group])
  <2> HIDE DEF OfOne
  <2> QED
    BY <1>2
<1> HIDE DEF h, OfOne
<1> QED
  BY <1>3, <1>4, FiniteCorpus, UnionOfImagesIsFinite

LEMMA FiniteBoundaryEdges == ASSUME CorpusTypes PROVE IsFiniteSet(BoundaryEdges)
<1> DEFINE S == {q \in OfSiteGroups("proposal") : \E s \in Inventory : s.id = q.source}
           f == [p \in S |-> Edge("related_group_candidate", p.source, p.group, p.source, "proposal")]
<1>1. IsFiniteSet(S)
  BY FiniteCorpus, FS_Subset
<1>2. BoundaryEdges = {f[p] : p \in S}
  BY DEF BoundaryEdges
<1> HIDE DEF S, f
<1> QED
  BY <1>1, <1>2, ImageIsFinite

LEMMA FiniteDemandEdges == ASSUME CorpusTypes PROVE IsFiniteSet(DemandEdges)
<1> DEFINE OfOne(o) ==
             {Edge("observed_demand", IF id = NoSource THEN o.keyword ELSE id, o.value, id, o.id) :
                id \in AttributedTo(o)}
           S == Of("occurrence")
           h == [o \in S |-> OfOne(o)]
           T == OfSiteGroups("occurrence")
           g == [o \in T |-> Edge("group_demand", o.group, o.value, FirstSource(o.keyword), o.id)]
<1>1. ASSUME NEW o PROVE IsFiniteSet(OfOne(o))
  <2>1. IsFiniteSet(AttributedTo(o))
    <3> DEFINE ids == [source \in SourcesOf(o.keyword) |-> source.id]
    <3>1. IsFiniteSet({ids[source] : source \in SourcesOf(o.keyword)})
      <4>1. IsFiniteSet(SourcesOf(o.keyword))
        BY FiniteCorpus
      <4> HIDE DEF ids
      <4> QED
        BY <4>1, ImageIsFinite
    <3>2. {ids[source] : source \in SourcesOf(o.keyword)} =
            {source.id : source \in SourcesOf(o.keyword)}
      OBVIOUS
    <3> QED
      BY <3>1, <3>2, FS_Singleton DEF AttributedTo
  <2> DEFINE f == [id \in AttributedTo(o) |->
                     Edge("observed_demand", IF id = NoSource THEN o.keyword ELSE id, o.value, id, o.id)]
  <2>2. OfOne(o) = {f[id] : id \in AttributedTo(o)}
    OBVIOUS
  <2> HIDE DEF f, OfOne
  <2> QED
    BY <2>1, <2>2, ImageIsFinite
<1>2. DemandEdges = (UNION {h[o] : o \in S}) \cup {g[o] : o \in T}
  BY DEF DemandEdges
<1>3. IsFiniteSet(S) /\ IsFiniteSet(T)
  BY FiniteCorpus
<1>4. \A o \in S : IsFiniteSet(h[o])
  <2> HIDE DEF OfOne
  <2> QED
    BY <1>1
<1> HIDE DEF h, g, S, T, OfOne
<1>5. PICK A, B : A = UNION {h[o] : o \in S} /\ B = {g[o] : o \in T}
  OBVIOUS
<1>6. IsFiniteSet(A) /\ IsFiniteSet(B)
  BY <1>3, <1>4, <1>5, ImageIsFinite, UnionOfImagesIsFinite
<1>7. DemandEdges = A \cup B
  BY <1>2, <1>5
<1> QED
  BY <1>6, <1>7, UnionIsFinite

LEMMA FiniteEditorialEdges == ASSUME CorpusTypes PROVE IsFiniteSet(EditorialEdges)
<1> DEFINE T == OfSiteGroups("topic")
           f1 == [t \in T |-> Edge("group_topic", t.group, t.id, NoSource, "topic")]
           O(t) == {p \in Of("occurrence") : p.id = t.occurrence}
           E(t) == {Edge("topic_evidence", o.value, t.id, NoSource, o.id) : o \in O(t)}
           f2 == [t \in T |-> E(t)]
           Q == OfSiteGroups("question")
           f3 == [q \in Q |-> Edge("group_question", q.group, q.id, NoSource, "question")]
           R == {r \in Q : \E t \in T : t.id = r.topic}
           f4 == [q \in R |-> Edge("topic_question", q.topic, q.id, NoSource, "question")]
           C == OfSiteGroups("candidate")
           f5 == [c \in C |-> Edge("group_content_candidate", c.group, c.id, NoSource, "candidate")]
<1>1. IsFiniteSet(T) /\ IsFiniteSet(Q) /\ IsFiniteSet(R) /\ IsFiniteSet(C)
  BY FiniteCorpus, FS_Subset
<1>2. ASSUME NEW t PROVE IsFiniteSet(E(t))
  <2>1. IsFiniteSet(O(t))
    BY FiniteCorpus, FS_Subset
  <2> DEFINE f == [o \in O(t) |-> Edge("topic_evidence", o.value, t.id, NoSource, o.id)]
  <2>2. E(t) = {f[o] : o \in O(t)}
    OBVIOUS
  <2> HIDE DEF f, E, O
  <2> QED
    BY <2>1, <2>2, ImageIsFinite
<1>3. EditorialEdges = {f1[t] : t \in T} \cup (UNION {f2[t] : t \in T}) \cup {f3[q] : q \in Q}
                       \cup {f4[q] : q \in R} \cup {f5[c] : c \in C}
  <2>1. /\ {f1[t] : t \in T} = {Edge("group_topic", t.group, t.id, NoSource, "topic") : t \in T}
        /\ {f2[t] : t \in T} = {E(t) : t \in T}
        /\ {f3[q] : q \in Q} =
             {Edge("group_question", q.group, q.id, NoSource, "question") : q \in Q}
        /\ {f4[q] : q \in R} =
             {Edge("topic_question", q.topic, q.id, NoSource, "question") : q \in R}
        /\ {f5[c] : c \in C} =
             {Edge("group_content_candidate", c.group, c.id, NoSource, "candidate") : c \in C}
    OBVIOUS
  <2> QED
    BY <2>1 DEF EditorialEdges
<1>4. \A t \in T : IsFiniteSet(f2[t])
  <2> HIDE DEF E
  <2> QED
    BY <1>2
<1> HIDE DEF T, f1, E, O, f2, Q, f3, R, f4, C, f5
<1>5. PICK X1, X2, X3, X4, X5 :
        /\ X1 = {f1[t] : t \in T} /\ X2 = UNION {f2[t] : t \in T}
        /\ X3 = {f3[q] : q \in Q} /\ X4 = {f4[q] : q \in R} /\ X5 = {f5[c] : c \in C}
  OBVIOUS
<1>6. /\ IsFiniteSet(X1) /\ IsFiniteSet(X2) /\ IsFiniteSet(X3)
      /\ IsFiniteSet(X4) /\ IsFiniteSet(X5)
  BY <1>1, <1>4, <1>5, ImageIsFinite, UnionOfImagesIsFinite
<1>7. IsFiniteSet(X1 \cup X2 \cup X3 \cup X4 \cup X5)
  BY <1>6, UnionIsFinite
<1>8. EditorialEdges = X1 \cup X2 \cup X3 \cup X4 \cup X5
  BY <1>3, <1>5, Zenon
<1> QED
  BY <1>7, <1>8

LEMMA FiniteLexicalEdges == ASSUME CorpusTypes PROVE IsFiniteSet(LexicalEdges)
<1> DEFINE E(s) == {Edge("keyword_term", s.keyword, term, FirstSource(s.keyword), "token") :
                      term \in TermsOf[s.keyword] \cap LexicalTerms}
           f1 == [s \in Inventory |-> E(s)]
           A == Of("association")
           f2 == [row \in A |-> Edge("keyword_term", row.left, row.right, NoSource, "cooccurrence")]
           f3 == [row \in UsedSynonyms |->
                    Edge("reviewed_synonym", row.left, row.right, NoSource, "synonym")]
<1>1. ASSUME NEW s PROVE IsFiniteSet(E(s))
  <2> DEFINE f == [term \in TermsOf[s.keyword] \cap LexicalTerms |->
                     Edge("keyword_term", s.keyword, term, FirstSource(s.keyword), "token")]
             S == TermsOf[s.keyword] \cap LexicalTerms
  <2>1. IsFiniteSet(S)
    BY FiniteTerms, FS_Intersection
  <2>2. E(s) = {f[term] : term \in S}
    OBVIOUS
  <2> HIDE DEF f, E, S
  <2> QED
    BY <2>1, <2>2, ImageIsFinite
<1>2. IsFiniteSet(Inventory) /\ IsFiniteSet(A) /\ IsFiniteSet(UsedSynonyms)
  <2>1. UsedSynonyms \subseteq Of("synonym")
    BY DEF UsedSynonyms
  <2> QED
    BY <2>1, FiniteCorpus, FS_Subset
<1>3. LexicalEdges = (UNION {f1[s] : s \in Inventory}) \cup {f2[row] : row \in A}
                     \cup {f3[row] : row \in UsedSynonyms}
  BY DEF LexicalEdges
<1>4. \A s \in Inventory : IsFiniteSet(f1[s])
  <2> HIDE DEF E
  <2> QED
    BY <1>1
<1> HIDE DEF E, f1, A, f2, f3
<1>5. PICK X1, X2, X3 :
        /\ X1 = UNION {f1[s] : s \in Inventory} /\ X2 = {f2[row] : row \in A}
        /\ X3 = {f3[row] : row \in UsedSynonyms}
  OBVIOUS
<1>6. IsFiniteSet(X1) /\ IsFiniteSet(X2) /\ IsFiniteSet(X3)
  BY <1>2, <1>4, <1>5, ImageIsFinite, UnionOfImagesIsFinite
<1>7. IsFiniteSet(X1 \cup X2 \cup X3)
  BY <1>6, UnionIsFinite
<1>8. LexicalEdges = X1 \cup X2 \cup X3
  BY <1>3, <1>5, Zenon
<1> QED
  BY <1>7, <1>8

LEMMA FiniteSurfaceEdges == IsFiniteSet(SurfaceEdges)
<1> DEFINE f == [s \in Surfaces |-> Edge("surface_state", s, SurfaceState(s), NoSource, s)]
<1>1. IsFiniteSet(Surfaces)
  <2>1. Surfaces = {"retained_workbook", "serp_demand_features"}
                    \cup {"external_autocomplete", "provider_question_database"}
                    \cup {"provider_rank_database", "contextual_semantic_dictionary"}
    BY DEF Surfaces
  <2> QED
    BY <2>1, PairIsFinite, UnionIsFinite
<1>2. SurfaceEdges = {f[s] : s \in Surfaces}
  BY DEF SurfaceEdges
<1> HIDE DEF f
<1> QED
  BY <1>1, <1>2, ImageIsFinite

LEMMA FiniteEdges == ASSUME CorpusTypes PROVE IsFiniteSet(EdgesOfLineage)
BY FiniteSourceEdges, FiniteMembershipEdges, FiniteBoundaryEdges, FiniteDemandEdges,
   FiniteEditorialEdges, FiniteLexicalEdges, FiniteSurfaceEdges, UnionIsFinite DEF EdgesOfLineage

LEMMA ZeroFollows ==
  ASSUME CorpusTypes
  PROVE  ZeroMeansNothingRetained
<1> SUFFICES ASSUME NEW source \in Inventory, DispositionState(source) = "zero"
             PROVE
      /\ \A occurrence \in Of("occurrence") : occurrence.keyword # source.keyword
      /\ \A group \in SiteGroups : ~Lists(group, source.keyword)
      /\ \A proposal \in OfSiteGroups("proposal") : proposal.source # source.id
      /\ (\A group \in AllGroups \ SiteGroups : ~Lists(group, source.keyword)) =>
           LineageState(source) = "lineage_anomaly"
  BY DEF ZeroMeansNothingRetained
<1> DEFINE Led(edge) == edge.source = source.id /\ edge.type \notin {"normalization", "hierarchy_parent"}
           found == {edge \in EdgesOfLineage : Led(edge)}
<1>1. source \in acquired /\ Cardinality(found) = 0
  BY DEF DispositionState, StateForKeyword, ExpansionCount
<1>2. found = {}
  <2>1. IsFiniteSet(found)
    BY FiniteEdges, FS_Subset
  <2> HIDE DEF found
  <2> QED
    BY <1>1, <2>1, FS_EmptySet
<1>3. \A edge \in EdgesOfLineage : ~Led(edge)
  BY <1>2
<1>4. ASSUME NEW o \in Of("occurrence"), o.keyword = source.keyword PROVE FALSE
  <2>1. source \in SourcesOf(o.keyword)
    BY <1>4 DEF SourcesOf
  <2>2. source.id \in AttributedTo(o)
    BY <2>1 DEF AttributedTo
  <2> DEFINE edge == Edge("observed_demand", IF source.id = NoSource THEN o.keyword ELSE source.id,
                          o.value, source.id, o.id)
  <2> DEFINE OfOne(p) ==
               {Edge("observed_demand", IF id = NoSource THEN p.keyword ELSE id, p.value, id, p.id) :
                  id \in AttributedTo(p)}
  <2>3. edge \in DemandEdges
    <3>1. edge \in OfOne(o)
      BY <2>2
    <3>2. OfOne(o) \subseteq UNION {OfOne(p) : p \in Of("occurrence")}
      OBVIOUS
    <3> HIDE DEF edge
    <3> QED
      BY <3>1, <3>2 DEF DemandEdges
  <2>4. edge.source = source.id /\ edge.type = "observed_demand"
    BY DEF Edge
  <2> QED
    BY <1>3, <2>3, <2>4 DEF EdgesOfLineage
<1>5. ASSUME NEW group \in SiteGroups, Lists(group, source.keyword) PROVE FALSE
  <2>1. PICK entry \in group.lists : entry.keyword = source.keyword
    BY <1>5 DEF Lists
  <2> DEFINE edge == Edge("group_membership", source.id, group.id, source.id, entry.role)
  <2>2. source \in SourcesOf(entry.keyword)
    BY <2>1 DEF SourcesOf
  <2>3. edge \in MembershipEdges
    BY <2>2 DEF MembershipEdges
  <2>4. edge.source = source.id /\ edge.type = "group_membership"
    BY DEF Edge
  <2> QED
    BY <1>3, <2>3, <2>4 DEF EdgesOfLineage
<1>6. ASSUME NEW p \in OfSiteGroups("proposal"), p.source = source.id PROVE FALSE
  <2> DEFINE edge == Edge("related_group_candidate", p.source, p.group, p.source, "proposal")
  <2>1. edge \in BoundaryEdges
    BY <1>6 DEF BoundaryEdges
  <2>2. edge.source = source.id /\ edge.type = "related_group_candidate"
    BY <1>6 DEF Edge
  <2> QED
    BY <1>3, <2>1, <2>2 DEF EdgesOfLineage
<1>7. ASSUME \A group \in AllGroups \ SiteGroups : ~Lists(group, source.keyword)
      PROVE  LineageState(source) = "lineage_anomaly"
  <2>1. ExactGroups(source) = {}
    BY <1>5, <1>7 DEF ExactGroups
  <2> QED
    BY <1>1, <2>1 DEF LineageState
<1> QED
  BY <1>4, <1>5, <1>6, <1>7

\* A row said to have led to nothing has no occurrence of its keyword, no group
\* that lists it and no proposal, for any inventory (dispositionState).
THEOREM ZeroIsNothing == CorpusSpec => []ZeroMeansNothingRetained
BY CorpusTypesHold, ZeroFollows, PTL

-----------------------------------------------------------------------------
(* SuggestExpansion, the ledgers of one inventory, for every finite corpus.  *)
(*                                                                           *)
(* The seeds divide the inventory by its keywords, the types of the edges divide *)
(* the edges, the groups are counted by their identifiers.  Each walk of the plan *)
(* is computed look by look: after VisitLimit looks nothing is left to look at. *)

-----------------------------------------------------------------------------
(* The traces of the plan                                                  *)

TraceNodes == {"seed"} \cup SuggestClasses
TraceSteps == [node : TraceNodes, parent : TraceNodes \cup {NoSource}, depth : Nat]

IsRun(run) ==
  /\ run = [left |-> run.left, steps |-> run.steps]
  /\ run.left \in Seq(TraceSteps) /\ run.steps \in Seq(TraceSteps)

FirstRun ==
  [left |-> <<[node |-> "seed", parent |-> NoSource, depth |-> 0]>>, steps |-> <<>>]

WalksBy(run, plan) ==
  run = [n \in Nat |-> IF n = 0 THEN FirstRun ELSE VisitNext(plan, run[n - 1])]

LEMMA RunIsChosen ==
  ASSUME NEW plan
  PROVE  TraceRun(plan) = (CHOOSE run : WalksBy(run, plan))[VisitLimit]
BY DEF TraceRun, WalksBy, FirstRun

\* What a node leads to, in its order.
LEMMA StepsOfNodes ==
  ASSUME NEW step \in TraceSteps
  PROVE  /\ NextSteps(step) \in Seq(TraceSteps)
         /\ \A n \in 1..Len(NextSteps(step)) : NextSteps(step)[n].parent = step.node
         /\ step.node = "seed" =>
              /\ Len(NextSteps(step)) = 2
              /\ NextSteps(step)[1].node = "direct"
              /\ NextSteps(step)[2].node = "character_expansion"
         /\ step.node = "direct" =>
              Len(NextSteps(step)) = 1 /\ NextSteps(step)[1].node = "recursive_direct"
         /\ step.node \in {"recursive_direct", "character_expansion"} =>
              Len(NextSteps(step)) = 1 /\ NextSteps(step)[1].node = "recursive_expansion"
         /\ step.node = "recursive_expansion" => Len(NextSteps(step)) = 0
<1>1. PICK following : following = ClassGraph[step.node]
  OBVIOUS
<1>2. /\ following \in Seq(TraceNodes)
      /\ step.node = "seed" => Len(following) = 2 /\ following[1] = "direct" /\ following[2] = "character_expansion"
      /\ step.node = "direct" => Len(following) = 1 /\ following[1] = "recursive_direct"
      /\ step.node \in {"recursive_direct", "character_expansion"} =>
           Len(following) = 1 /\ following[1] = "recursive_expansion"
      /\ step.node = "recursive_expansion" => Len(following) = 0
  <2>1. step.node \in {"seed", "direct", "recursive_direct", "character_expansion", "recursive_expansion"}
    BY DEF TraceSteps, TraceNodes, SuggestClasses
  <2>2. CASE step.node = "seed"
    BY <1>1, <2>2 DEF ClassGraph, TraceNodes, SuggestClasses
  <2>3. CASE step.node = "direct"
    BY <1>1, <2>3 DEF ClassGraph, TraceNodes, SuggestClasses
  <2>4. CASE step.node \in {"recursive_direct", "character_expansion"}
    BY <1>1, <2>4 DEF ClassGraph, TraceNodes, SuggestClasses
  <2>5. CASE step.node = "recursive_expansion"
    BY <1>1, <2>5 DEF ClassGraph, TraceNodes, SuggestClasses
  <2> QED
    BY <2>1, <2>2, <2>3, <2>4, <2>5
<1>3. PICK size \in Nat : size = Len(following) /\ DOMAIN following = 1..size
  BY <1>2, LenProperties
<1>4. NextSteps(step) =
        [i \in 1..size |-> [node |-> following[i], parent |-> step.node, depth |-> step.depth + 1]]
  BY <1>1, <1>3 DEF NextSteps
<1>5. \A i \in 1..size : following[i] \in TraceNodes
  BY <1>2, <1>3, ElementOfSeq
<1>6. NextSteps(step) \in [1..size -> TraceSteps]
  BY <1>4, <1>5 DEF TraceSteps
<1>7. NextSteps(step) \in Seq(TraceSteps) /\ Len(NextSteps(step)) = size
  BY <1>6
<1>8. \A i \in 1..size : NextSteps(step)[i].node = following[i] /\ NextSteps(step)[i].parent = step.node
  BY <1>4
<1> QED
  BY <1>2, <1>3, <1>7, <1>8

Seen(run, node) == \E i \in DOMAIN run.steps : run.steps[i].node = node

\* A node that was seen is passed over.
LEMMA PassOver ==
  ASSUME NEW plan, NEW run, IsRun(run), run.left # << >>, Seen(run, run.left[1].node),
         NEW next, next = VisitNext(plan, run)
  PROVE  /\ IsRun(next)
         /\ next.steps = run.steps
         /\ Len(next.left) = Len(run.left) - 1
         /\ \A i \in 1..(Len(run.left) - 1) : next.left[i] = run.left[i + 1]
<1>1. Head(run.left) = run.left[1]
  BY DEF IsRun
<1>2. next = [run EXCEPT !.left = Tail(run.left)]
  BY <1>1 DEF VisitNext, Seen
<1>3. next = [left |-> Tail(run.left), steps |-> run.steps]
  BY <1>2 DEF IsRun
<1>4. /\ Tail(run.left) \in Seq(TraceSteps) /\ Len(Tail(run.left)) = Len(run.left) - 1
      /\ \A i \in 1..Len(Tail(run.left)) : Tail(run.left)[i] = run.left[i + 1]
  BY HeadTailProperties DEF IsRun
<1> QED
  BY <1>3, <1>4 DEF IsRun

\* One was taken, and what it leads to has gone to its place.
Taken(plan, run, next, new) ==
  /\ IsRun(next)
  /\ Len(next.steps) = Len(run.steps) + 1
  /\ next.steps[Len(run.steps) + 1] = run.left[1]
  /\ \A n \in 1..Len(run.steps) : next.steps[n] = run.steps[n]
  /\ Len(next.left) = Len(run.left) - 1 + Len(new)
  /\ plan = "breadth_first" =>
       /\ \A i \in 1..(Len(run.left) - 1) : next.left[i] = run.left[i + 1]
       /\ \A i \in 1..Len(new) : next.left[Len(run.left) - 1 + i] = new[i]
  /\ plan # "breadth_first" =>
       /\ \A i \in 1..Len(new) : next.left[i] = new[Len(new) + 1 - i]
       /\ \A i \in 1..(Len(run.left) - 1) : next.left[Len(new) + i] = run.left[i + 1]

LEMMA LookAtNext ==
  ASSUME NEW plan, NEW run, IsRun(run), run.left # << >>, ~Seen(run, run.left[1].node),
         NEW next, next = VisitNext(plan, run),
         NEW new, new = NextSteps(run.left[1])
  PROVE  Taken(plan, run, next, new)
<1>1. Head(run.left) = run.left[1] /\ run.left[1] \in TraceSteps
  BY EmptySeq, ElementOfSeq DEF IsRun
<1>2. PICK rest : rest = Tail(run.left)
  OBVIOUS
<1>3. /\ rest \in Seq(TraceSteps) /\ Len(rest) = Len(run.left) - 1
      /\ \A i \in 1..Len(rest) : rest[i] = run.left[i + 1]
  BY <1>2, HeadTailProperties DEF IsRun
<1>4. new \in Seq(TraceSteps)
  BY <1>1, StepsOfNodes
<1>5. PICK reversed : reversed = Reverse(new)
  OBVIOUS
<1>6. /\ reversed \in Seq(TraceSteps) /\ Len(reversed) = Len(new)
      /\ \A i \in 1..Len(new) : reversed[i] = new[Len(new) + 1 - i]
  <2>1. PICK size \in Nat : size = Len(new)
    BY <1>4, LenProperties
  <2>2. reversed = [i \in 1..size |-> new[(size - i) + 1]]
    BY <1>5, <2>1 DEF Reverse
  <2>3. \A i \in 1..size : (size - i) + 1 \in 1..Len(new) /\ (size - i) + 1 = size + 1 - i
    BY <2>1
  <2>4. \A i \in 1..size : new[(size - i) + 1] \in TraceSteps
    BY <1>4, <2>3, ElementOfSeq
  <2>5. reversed \in [1..size -> TraceSteps]
    BY <2>2, <2>4
  <2>6. reversed \in Seq(TraceSteps) /\ Len(reversed) = size
    BY <2>5
  <2> QED
    BY <2>1, <2>2, <2>3, <2>6
<1>7. next = [left  |-> IF plan = "breadth_first" THEN rest \o new ELSE reversed \o rest,
              steps |-> Append(run.steps, run.left[1])]
  BY <1>1, <1>2, <1>5 DEF VisitNext, Seen
<1>8. /\ Append(run.steps, run.left[1]) \in Seq(TraceSteps)
      /\ Len(Append(run.steps, run.left[1])) = Len(run.steps) + 1
      /\ Append(run.steps, run.left[1])[Len(run.steps) + 1] = run.left[1]
      /\ \A n \in 1..Len(run.steps) : Append(run.steps, run.left[1])[n] = run.steps[n]
  <2>1. run.steps \in Seq(TraceSteps) /\ Len(run.steps) \in Nat
    BY LenProperties DEF IsRun
  <2> QED
    BY <1>1, <2>1
<1>9. /\ Len(rest) \in Nat /\ Len(new) \in Nat /\ Len(run.left) \in Nat
  BY <1>3, <1>4, LenProperties DEF IsRun
<1>10. CASE plan = "breadth_first"
  <2>1. next.left = rest \o new /\ next.steps = Append(run.steps, run.left[1])
        /\ next = [left |-> next.left, steps |-> next.steps]
    BY <1>7, <1>10
  <2>2. /\ rest \o new \in Seq(TraceSteps) /\ Len(rest \o new) = Len(rest) + Len(new)
        /\ \A i \in 1..(Len(rest) + Len(new)) :
             (rest \o new)[i] = IF i <= Len(rest) THEN rest[i] ELSE new[i - Len(rest)]
    BY <1>3, <1>4, ConcatProperties
  <2>3. \A i \in 1..Len(rest) : next.left[i] = run.left[i + 1]
    BY <1>3, <1>9, <2>1, <2>2
  <2>4. \A i \in 1..Len(new) : next.left[Len(rest) + i] = new[i]
    <3> SUFFICES ASSUME NEW i \in 1..Len(new) PROVE next.left[Len(rest) + i] = new[i]
      OBVIOUS
    <3>1. /\ Len(rest) + i \in 1..(Len(rest) + Len(new)) /\ ~(Len(rest) + i <= Len(rest))
          /\ Len(rest) + i - Len(rest) = i
      BY <1>9
    <3> QED
      BY <2>1, <2>2, <3>1
  <2> QED
    BY <1>3, <1>8, <1>9, <1>10, <2>1, <2>2, <2>3, <2>4 DEF IsRun, Taken
<1>11. CASE plan # "breadth_first"
  <2>1. next.left = reversed \o rest /\ next.steps = Append(run.steps, run.left[1])
        /\ next = [left |-> next.left, steps |-> next.steps]
    BY <1>7, <1>11
  <2>2. /\ reversed \o rest \in Seq(TraceSteps) /\ Len(reversed \o rest) = Len(new) + Len(rest)
        /\ \A i \in 1..(Len(new) + Len(rest)) :
             (reversed \o rest)[i] = IF i <= Len(new) THEN reversed[i] ELSE rest[i - Len(new)]
    <3>1. /\ reversed \o rest \in Seq(TraceSteps) /\ Len(reversed \o rest) = Len(reversed) + Len(rest)
          /\ \A i \in 1..(Len(reversed) + Len(rest)) :
               (reversed \o rest)[i] = IF i <= Len(reversed) THEN reversed[i] ELSE rest[i - Len(reversed)]
      <4>1. reversed \in Seq(TraceSteps) /\ rest \in Seq(TraceSteps)
        BY <1>3, <1>6
      <4> QED
        BY <4>1, ConcatProperties
    <3>2. Len(reversed) = Len(new)
      BY <1>6
    <3> QED
      BY <3>1, <3>2
  <2>3. \A i \in 1..Len(new) : next.left[i] = new[Len(new) + 1 - i]
    BY <1>6, <1>9, <2>1, <2>2
  <2>4. \A i \in 1..Len(rest) : next.left[Len(new) + i] = run.left[i + 1]
    <3> SUFFICES ASSUME NEW i \in 1..Len(rest) PROVE next.left[Len(new) + i] = run.left[i + 1]
      OBVIOUS
    <3>1. /\ Len(new) + i \in 1..(Len(new) + Len(rest)) /\ ~(Len(new) + i <= Len(new))
          /\ Len(new) + i - Len(new) = i
      BY <1>9
    <3>2. (reversed \o rest)[Len(new) + i] = rest[Len(new) + i - Len(new)]
      BY <2>2, <3>1
    <3> QED
      BY <1>3, <2>1, <3>1, <3>2
  <2> QED
    <3>1. IsRun(next) /\ Len(next.left) = Len(run.left) - 1 + Len(new)
      BY <1>3, <1>8, <1>9, <2>1, <2>2 DEF IsRun
    <3>2. \A i \in 1..(Len(run.left) - 1) : next.left[Len(new) + i] = run.left[i + 1]
      BY <1>3, <2>4
    <3> QED
      BY <1>8, <1>11, <2>1, <2>3, <3>1, <3>2 DEF Taken
<1> QED
  BY <1>10, <1>11 DEF Taken

\* Every class once, after the class its inputs come from.
WalkIsGood(run) ==
  /\ {run.steps[i].node : i \in DOMAIN run.steps} = {"seed"} \cup SuggestClasses
  /\ Len(run.steps) = 5
  /\ run.left = << >>
  /\ \A i \in 2..5 :
       /\ run.steps[i].parent \in InputRelation[run.steps[i].node]
       /\ \E j \in 1..(i - 1) : run.steps[j].node = run.steps[i].parent

\* Both following of the seed first, and the last class from the later one.
LEMMA BreadthFirstWalk ==
  ASSUME NEW run, \A n \in 0..5 : run[n + 1] = VisitNext("breadth_first", run[n]), run[0] = FirstRun
  PROVE  WalkIsGood(run[6])
<1>1. /\ IsRun(run[0])
      /\ Len(run[0].left) = 1
      /\ Len(run[0].steps) = 0
      /\ run[0].left[1].node = "seed"
  BY DEF FirstRun, IsRun, TraceSteps, TraceNodes
<1>2. /\ IsRun(run[1])
      /\ Len(run[1].left) = 2
      /\ Len(run[1].steps) = 1
      /\ run[1].left[1].node = "direct"
      /\ run[1].left[1].parent = "seed"
      /\ run[1].left[2].node = "character_expansion"
      /\ run[1].left[2].parent = "seed"
      /\ run[1].steps[1].node = "seed"
  <2>1. PICK step : step = run[0].left[1]
    OBVIOUS
  <2>2. PICK new : new = NextSteps(step)
    OBVIOUS
  <2>3. run[0].left # << >> /\ step \in TraceSteps /\ step.node = "seed"
    BY <1>1, <2>1, EmptySeq, ElementOfSeq DEF IsRun
  <2>4. ~Seen(run[0], step.node)
    <3>1. DOMAIN run[0].steps = 1..0
      BY <1>1, LenProperties DEF IsRun
    <3> QED
      BY <1>1, <2>3, <3>1 DEF Seen
  <2>5. Taken("breadth_first", run[0], run[1], new)
    <3>1. run[1] = VisitNext("breadth_first", run[0])
      OBVIOUS
    <3> QED
      BY <1>1, <2>1, <2>2, <2>3, <2>4, <3>1, LookAtNext
  <2>6. /\ Len(new) = 2
        /\ new[1].node = "direct"
        /\ new[2].node = "character_expansion"
    BY <2>2, <2>3, StepsOfNodes
  <2>7. new[1].parent = "seed" /\ new[2].parent = "seed"
    <3>1. 1 \in 1..Len(new) /\ 2 \in 1..Len(new)
      BY <2>6
    <3> QED
      BY <2>2, <2>3, <3>1, StepsOfNodes
  <2>8. /\ IsRun(run[1])
        /\ Len(run[1].steps) = 1
        /\ run[1].steps[1] = run[0].left[1]
        /\ Len(run[1].left) = 2
        /\ run[1].left[1] = new[1]
        /\ run[1].left[2] = new[2]
    BY <1>1, <2>1, <2>5, <2>6 DEF Taken
  <2> QED
    BY <1>1, <2>1, <2>3, <2>6, <2>7, <2>8
<1>3. /\ IsRun(run[2])
      /\ Len(run[2].left) = 2
      /\ Len(run[2].steps) = 2
      /\ run[2].left[1].node = "character_expansion"
      /\ run[2].left[1].parent = "seed"
      /\ run[2].left[2].node = "recursive_direct"
      /\ run[2].left[2].parent = "direct"
      /\ run[2].steps[1].node = "seed"
      /\ run[2].steps[2].node = "direct"
      /\ run[2].steps[2].parent = "seed"
  <2>1. PICK step : step = run[1].left[1]
    OBVIOUS
  <2>2. PICK new : new = NextSteps(step)
    OBVIOUS
  <2>3. run[1].left # << >> /\ step \in TraceSteps /\ step.node = "direct"
    BY <1>2, <2>1, EmptySeq, ElementOfSeq DEF IsRun
  <2>4. ~Seen(run[1], step.node)
    <3>1. DOMAIN run[1].steps = 1..1
      BY <1>2, LenProperties DEF IsRun
    <3> QED
      BY <1>2, <2>3, <3>1 DEF Seen
  <2>5. Taken("breadth_first", run[1], run[2], new)
    <3>1. run[2] = VisitNext("breadth_first", run[1])
      OBVIOUS
    <3> QED
      BY <1>2, <2>1, <2>2, <2>3, <2>4, <3>1, LookAtNext
  <2>6. /\ Len(new) = 1
        /\ new[1].node = "recursive_direct"
    BY <2>2, <2>3, StepsOfNodes
  <2>7. new[1].parent = "direct"
    <3>1. 1 \in 1..Len(new)
      BY <2>6
    <3> QED
      BY <2>2, <2>3, <3>1, StepsOfNodes
  <2>8. /\ IsRun(run[2])
        /\ Len(run[2].steps) = 2
        /\ run[2].steps[2] = run[1].left[1]
        /\ \A n \in 1..1 : run[2].steps[n] = run[1].steps[n]
        /\ Len(run[2].left) = 2
        /\ run[2].left[1] = run[1].left[2]
        /\ run[2].left[2] = new[1]
    BY <1>2, <2>1, <2>5, <2>6 DEF Taken
  <2> QED
    BY <1>2, <2>1, <2>3, <2>6, <2>7, <2>8
<1>4. /\ IsRun(run[3])
      /\ Len(run[3].left) = 2
      /\ Len(run[3].steps) = 3
      /\ run[3].left[1].node = "recursive_direct"
      /\ run[3].left[1].parent = "direct"
      /\ run[3].left[2].node = "recursive_expansion"
      /\ run[3].left[2].parent = "character_expansion"
      /\ run[3].steps[1].node = "seed"
      /\ run[3].steps[2].node = "direct"
      /\ run[3].steps[2].parent = "seed"
      /\ run[3].steps[3].node = "character_expansion"
      /\ run[3].steps[3].parent = "seed"
  <2>1. PICK step : step = run[2].left[1]
    OBVIOUS
  <2>2. PICK new : new = NextSteps(step)
    OBVIOUS
  <2>3. run[2].left # << >> /\ step \in TraceSteps /\ step.node = "character_expansion"
    BY <1>3, <2>1, EmptySeq, ElementOfSeq DEF IsRun
  <2>4. ~Seen(run[2], step.node)
    <3>1. DOMAIN run[2].steps = 1..2
      BY <1>3, LenProperties DEF IsRun
    <3> QED
      BY <1>3, <2>3, <3>1 DEF Seen
  <2>5. Taken("breadth_first", run[2], run[3], new)
    <3>1. run[3] = VisitNext("breadth_first", run[2])
      OBVIOUS
    <3> QED
      BY <1>3, <2>1, <2>2, <2>3, <2>4, <3>1, LookAtNext
  <2>6. /\ Len(new) = 1
        /\ new[1].node = "recursive_expansion"
    BY <2>2, <2>3, StepsOfNodes
  <2>7. new[1].parent = "character_expansion"
    <3>1. 1 \in 1..Len(new)
      BY <2>6
    <3> QED
      BY <2>2, <2>3, <3>1, StepsOfNodes
  <2>8. /\ IsRun(run[3])
        /\ Len(run[3].steps) = 3
        /\ run[3].steps[3] = run[2].left[1]
        /\ \A n \in 1..2 : run[3].steps[n] = run[2].steps[n]
        /\ Len(run[3].left) = 2
        /\ run[3].left[1] = run[2].left[2]
        /\ run[3].left[2] = new[1]
    BY <1>3, <2>1, <2>5, <2>6 DEF Taken
  <2> QED
    BY <1>3, <2>1, <2>3, <2>6, <2>7, <2>8
<1>5. /\ IsRun(run[4])
      /\ Len(run[4].left) = 2
      /\ Len(run[4].steps) = 4
      /\ run[4].left[1].node = "recursive_expansion"
      /\ run[4].left[1].parent = "character_expansion"
      /\ run[4].left[2].node = "recursive_expansion"
      /\ run[4].left[2].parent = "recursive_direct"
      /\ run[4].steps[1].node = "seed"
      /\ run[4].steps[2].node = "direct"
      /\ run[4].steps[2].parent = "seed"
      /\ run[4].steps[3].node = "character_expansion"
      /\ run[4].steps[3].parent = "seed"
      /\ run[4].steps[4].node = "recursive_direct"
      /\ run[4].steps[4].parent = "direct"
  <2>1. PICK step : step = run[3].left[1]
    OBVIOUS
  <2>2. PICK new : new = NextSteps(step)
    OBVIOUS
  <2>3. run[3].left # << >> /\ step \in TraceSteps /\ step.node = "recursive_direct"
    BY <1>4, <2>1, EmptySeq, ElementOfSeq DEF IsRun
  <2>4. ~Seen(run[3], step.node)
    <3>1. DOMAIN run[3].steps = 1..3
      BY <1>4, LenProperties DEF IsRun
    <3> QED
      BY <1>4, <2>3, <3>1 DEF Seen
  <2>5. Taken("breadth_first", run[3], run[4], new)
    <3>1. run[4] = VisitNext("breadth_first", run[3])
      OBVIOUS
    <3> QED
      BY <1>4, <2>1, <2>2, <2>3, <2>4, <3>1, LookAtNext
  <2>6. /\ Len(new) = 1
        /\ new[1].node = "recursive_expansion"
    BY <2>2, <2>3, StepsOfNodes
  <2>7. new[1].parent = "recursive_direct"
    <3>1. 1 \in 1..Len(new)
      BY <2>6
    <3> QED
      BY <2>2, <2>3, <3>1, StepsOfNodes
  <2>8. /\ IsRun(run[4])
        /\ Len(run[4].steps) = 4
        /\ run[4].steps[4] = run[3].left[1]
        /\ \A n \in 1..3 : run[4].steps[n] = run[3].steps[n]
        /\ Len(run[4].left) = 2
        /\ run[4].left[1] = run[3].left[2]
        /\ run[4].left[2] = new[1]
    BY <1>4, <2>1, <2>5, <2>6 DEF Taken
  <2> QED
    BY <1>4, <2>1, <2>3, <2>6, <2>7, <2>8
<1>6. /\ IsRun(run[5])
      /\ Len(run[5].left) = 1
      /\ Len(run[5].steps) = 5
      /\ run[5].left[1].node = "recursive_expansion"
      /\ run[5].left[1].parent = "recursive_direct"
      /\ run[5].steps[1].node = "seed"
      /\ run[5].steps[2].node = "direct"
      /\ run[5].steps[2].parent = "seed"
      /\ run[5].steps[3].node = "character_expansion"
      /\ run[5].steps[3].parent = "seed"
      /\ run[5].steps[4].node = "recursive_direct"
      /\ run[5].steps[4].parent = "direct"
      /\ run[5].steps[5].node = "recursive_expansion"
      /\ run[5].steps[5].parent = "character_expansion"
  <2>1. PICK step : step = run[4].left[1]
    OBVIOUS
  <2>2. PICK new : new = NextSteps(step)
    OBVIOUS
  <2>3. run[4].left # << >> /\ step \in TraceSteps /\ step.node = "recursive_expansion"
    BY <1>5, <2>1, EmptySeq, ElementOfSeq DEF IsRun
  <2>4. ~Seen(run[4], step.node)
    <3>1. DOMAIN run[4].steps = 1..4
      BY <1>5, LenProperties DEF IsRun
    <3> QED
      BY <1>5, <2>3, <3>1 DEF Seen
  <2>5. Taken("breadth_first", run[4], run[5], new)
    <3>1. run[5] = VisitNext("breadth_first", run[4])
      OBVIOUS
    <3> QED
      BY <1>5, <2>1, <2>2, <2>3, <2>4, <3>1, LookAtNext
  <2>6. /\ Len(new) = 0
    BY <2>2, <2>3, StepsOfNodes
  <2>8. /\ IsRun(run[5])
        /\ Len(run[5].steps) = 5
        /\ run[5].steps[5] = run[4].left[1]
        /\ \A n \in 1..4 : run[5].steps[n] = run[4].steps[n]
        /\ Len(run[5].left) = 1
        /\ run[5].left[1] = run[4].left[2]
    BY <1>5, <2>1, <2>5, <2>6 DEF Taken
  <2> QED
    BY <1>5, <2>1, <2>3, <2>6, <2>8
<1>7. /\ IsRun(run[6])
      /\ Len(run[6].left) = 0
      /\ Len(run[6].steps) = 5
      /\ run[6].steps[1].node = "seed"
      /\ run[6].steps[2].node = "direct"
      /\ run[6].steps[2].parent = "seed"
      /\ run[6].steps[3].node = "character_expansion"
      /\ run[6].steps[3].parent = "seed"
      /\ run[6].steps[4].node = "recursive_direct"
      /\ run[6].steps[4].parent = "direct"
      /\ run[6].steps[5].node = "recursive_expansion"
      /\ run[6].steps[5].parent = "character_expansion"
  <2>1. run[5].left # << >> /\ Seen(run[5], run[5].left[1].node)
    BY <1>6, LenProperties DEF IsRun, Seen
  <2>2. run[6] = VisitNext("breadth_first", run[5])
    OBVIOUS
  <2> QED
    BY <1>6, <2>1, <2>2, PassOver
<1>8. DOMAIN run[6].steps = 1..5 /\ run[6].left = << >>
  BY <1>7, EmptySeq, LenProperties DEF IsRun
<1>9. {run[6].steps[i].node : i \in 1..5} = {"seed"} \cup SuggestClasses
  <2>1. {run[6].steps[i].node : i \in 1..5} =
          {run[6].steps[1].node, run[6].steps[2].node, run[6].steps[3].node, run[6].steps[4].node, run[6].steps[5].node}
    OBVIOUS
  <2> QED
    BY <1>7, <2>1 DEF SuggestClasses
<1>10. ASSUME NEW i \in 2..5
       PROVE  /\ run[6].steps[i].parent \in InputRelation[run[6].steps[i].node]
              /\ \E j \in 1..(i - 1) : run[6].steps[j].node = run[6].steps[i].parent
  <2>1. CASE i = 2
    <3>1. 1 \in 1..(i - 1)
      BY <2>1
    <3> QED
      BY <1>7, <2>1, <3>1 DEF InputRelation
  <2>2. CASE i = 3
    <3>1. 1 \in 1..(i - 1)
      BY <2>2
    <3> QED
      BY <1>7, <2>2, <3>1 DEF InputRelation
  <2>3. CASE i = 4
    <3>1. 2 \in 1..(i - 1)
      BY <2>3
    <3> QED
      BY <1>7, <2>3, <3>1 DEF InputRelation
  <2>4. CASE i = 5
    <3>1. 3 \in 1..(i - 1)
      BY <2>4
    <3> QED
      BY <1>7, <2>4, <3>1 DEF InputRelation
  <2> QED
    BY <2>1, <2>2, <2>3, <2>4
<1> QED
  BY <1>7, <1>8, <1>9, <1>10 DEF WalkIsGood

\* The last child of the seed and what it leads to first.
LEMMA DepthFirstWalk ==
  ASSUME NEW run, \A n \in 0..5 : run[n + 1] = VisitNext("depth_first", run[n]), run[0] = FirstRun
  PROVE  WalkIsGood(run[6])
<1>1. /\ IsRun(run[0])
      /\ Len(run[0].left) = 1
      /\ Len(run[0].steps) = 0
      /\ run[0].left[1].node = "seed"
  BY DEF FirstRun, IsRun, TraceSteps, TraceNodes
<1>2. /\ IsRun(run[1])
      /\ Len(run[1].left) = 2
      /\ Len(run[1].steps) = 1
      /\ run[1].left[1].node = "character_expansion"
      /\ run[1].left[1].parent = "seed"
      /\ run[1].left[2].node = "direct"
      /\ run[1].left[2].parent = "seed"
      /\ run[1].steps[1].node = "seed"
  <2>1. PICK step : step = run[0].left[1]
    OBVIOUS
  <2>2. PICK new : new = NextSteps(step)
    OBVIOUS
  <2>3. run[0].left # << >> /\ step \in TraceSteps /\ step.node = "seed"
    BY <1>1, <2>1, EmptySeq, ElementOfSeq DEF IsRun
  <2>4. ~Seen(run[0], step.node)
    <3>1. DOMAIN run[0].steps = 1..0
      BY <1>1, LenProperties DEF IsRun
    <3> QED
      BY <1>1, <2>3, <3>1 DEF Seen
  <2>5. Taken("depth_first", run[0], run[1], new)
    <3>1. run[1] = VisitNext("depth_first", run[0])
      OBVIOUS
    <3> QED
      BY <1>1, <2>1, <2>2, <2>3, <2>4, <3>1, LookAtNext
  <2>6. /\ Len(new) = 2
        /\ new[1].node = "direct"
        /\ new[2].node = "character_expansion"
    BY <2>2, <2>3, StepsOfNodes
  <2>7. new[1].parent = "seed" /\ new[2].parent = "seed"
    <3>1. 1 \in 1..Len(new) /\ 2 \in 1..Len(new)
      BY <2>6
    <3> QED
      BY <2>2, <2>3, <3>1, StepsOfNodes
  <2>8. /\ IsRun(run[1])
        /\ Len(run[1].steps) = 1
        /\ run[1].steps[1] = run[0].left[1]
        /\ Len(run[1].left) = 2
        /\ run[1].left[1] = new[2]
        /\ run[1].left[2] = new[1]
    BY <1>1, <2>1, <2>5, <2>6 DEF Taken
  <2> QED
    BY <1>1, <2>1, <2>3, <2>6, <2>7, <2>8
<1>3. /\ IsRun(run[2])
      /\ Len(run[2].left) = 2
      /\ Len(run[2].steps) = 2
      /\ run[2].left[1].node = "recursive_expansion"
      /\ run[2].left[1].parent = "character_expansion"
      /\ run[2].left[2].node = "direct"
      /\ run[2].left[2].parent = "seed"
      /\ run[2].steps[1].node = "seed"
      /\ run[2].steps[2].node = "character_expansion"
      /\ run[2].steps[2].parent = "seed"
  <2>1. PICK step : step = run[1].left[1]
    OBVIOUS
  <2>2. PICK new : new = NextSteps(step)
    OBVIOUS
  <2>3. run[1].left # << >> /\ step \in TraceSteps /\ step.node = "character_expansion"
    BY <1>2, <2>1, EmptySeq, ElementOfSeq DEF IsRun
  <2>4. ~Seen(run[1], step.node)
    <3>1. DOMAIN run[1].steps = 1..1
      BY <1>2, LenProperties DEF IsRun
    <3> QED
      BY <1>2, <2>3, <3>1 DEF Seen
  <2>5. Taken("depth_first", run[1], run[2], new)
    <3>1. run[2] = VisitNext("depth_first", run[1])
      OBVIOUS
    <3> QED
      BY <1>2, <2>1, <2>2, <2>3, <2>4, <3>1, LookAtNext
  <2>6. /\ Len(new) = 1
        /\ new[1].node = "recursive_expansion"
    BY <2>2, <2>3, StepsOfNodes
  <2>7. new[1].parent = "character_expansion"
    <3>1. 1 \in 1..Len(new)
      BY <2>6
    <3> QED
      BY <2>2, <2>3, <3>1, StepsOfNodes
  <2>8. /\ IsRun(run[2])
        /\ Len(run[2].steps) = 2
        /\ run[2].steps[2] = run[1].left[1]
        /\ \A n \in 1..1 : run[2].steps[n] = run[1].steps[n]
        /\ Len(run[2].left) = 2
        /\ run[2].left[1] = new[1]
        /\ run[2].left[2] = run[1].left[2]
    BY <1>2, <2>1, <2>5, <2>6 DEF Taken
  <2> QED
    BY <1>2, <2>1, <2>3, <2>6, <2>7, <2>8
<1>4. /\ IsRun(run[3])
      /\ Len(run[3].left) = 1
      /\ Len(run[3].steps) = 3
      /\ run[3].left[1].node = "direct"
      /\ run[3].left[1].parent = "seed"
      /\ run[3].steps[1].node = "seed"
      /\ run[3].steps[2].node = "character_expansion"
      /\ run[3].steps[2].parent = "seed"
      /\ run[3].steps[3].node = "recursive_expansion"
      /\ run[3].steps[3].parent = "character_expansion"
  <2>1. PICK step : step = run[2].left[1]
    OBVIOUS
  <2>2. PICK new : new = NextSteps(step)
    OBVIOUS
  <2>3. run[2].left # << >> /\ step \in TraceSteps /\ step.node = "recursive_expansion"
    BY <1>3, <2>1, EmptySeq, ElementOfSeq DEF IsRun
  <2>4. ~Seen(run[2], step.node)
    <3>1. DOMAIN run[2].steps = 1..2
      BY <1>3, LenProperties DEF IsRun
    <3> QED
      BY <1>3, <2>3, <3>1 DEF Seen
  <2>5. Taken("depth_first", run[2], run[3], new)
    <3>1. run[3] = VisitNext("depth_first", run[2])
      OBVIOUS
    <3> QED
      BY <1>3, <2>1, <2>2, <2>3, <2>4, <3>1, LookAtNext
  <2>6. /\ Len(new) = 0
    BY <2>2, <2>3, StepsOfNodes
  <2>8. /\ IsRun(run[3])
        /\ Len(run[3].steps) = 3
        /\ run[3].steps[3] = run[2].left[1]
        /\ \A n \in 1..2 : run[3].steps[n] = run[2].steps[n]
        /\ Len(run[3].left) = 1
        /\ run[3].left[1] = run[2].left[2]
    BY <1>3, <2>1, <2>5, <2>6 DEF Taken
  <2> QED
    BY <1>3, <2>1, <2>3, <2>6, <2>8
<1>5. /\ IsRun(run[4])
      /\ Len(run[4].left) = 1
      /\ Len(run[4].steps) = 4
      /\ run[4].left[1].node = "recursive_direct"
      /\ run[4].left[1].parent = "direct"
      /\ run[4].steps[1].node = "seed"
      /\ run[4].steps[2].node = "character_expansion"
      /\ run[4].steps[2].parent = "seed"
      /\ run[4].steps[3].node = "recursive_expansion"
      /\ run[4].steps[3].parent = "character_expansion"
      /\ run[4].steps[4].node = "direct"
      /\ run[4].steps[4].parent = "seed"
  <2>1. PICK step : step = run[3].left[1]
    OBVIOUS
  <2>2. PICK new : new = NextSteps(step)
    OBVIOUS
  <2>3. run[3].left # << >> /\ step \in TraceSteps /\ step.node = "direct"
    BY <1>4, <2>1, EmptySeq, ElementOfSeq DEF IsRun
  <2>4. ~Seen(run[3], step.node)
    <3>1. DOMAIN run[3].steps = 1..3
      BY <1>4, LenProperties DEF IsRun
    <3> QED
      BY <1>4, <2>3, <3>1 DEF Seen
  <2>5. Taken("depth_first", run[3], run[4], new)
    <3>1. run[4] = VisitNext("depth_first", run[3])
      OBVIOUS
    <3> QED
      BY <1>4, <2>1, <2>2, <2>3, <2>4, <3>1, LookAtNext
  <2>6. /\ Len(new) = 1
        /\ new[1].node = "recursive_direct"
    BY <2>2, <2>3, StepsOfNodes
  <2>7. new[1].parent = "direct"
    <3>1. 1 \in 1..Len(new)
      BY <2>6
    <3> QED
      BY <2>2, <2>3, <3>1, StepsOfNodes
  <2>8. /\ IsRun(run[4])
        /\ Len(run[4].steps) = 4
        /\ run[4].steps[4] = run[3].left[1]
        /\ \A n \in 1..3 : run[4].steps[n] = run[3].steps[n]
        /\ Len(run[4].left) = 1
        /\ run[4].left[1] = new[1]
    BY <1>4, <2>1, <2>5, <2>6 DEF Taken
  <2> QED
    BY <1>4, <2>1, <2>3, <2>6, <2>7, <2>8
<1>6. /\ IsRun(run[5])
      /\ Len(run[5].left) = 1
      /\ Len(run[5].steps) = 5
      /\ run[5].left[1].node = "recursive_expansion"
      /\ run[5].left[1].parent = "recursive_direct"
      /\ run[5].steps[1].node = "seed"
      /\ run[5].steps[2].node = "character_expansion"
      /\ run[5].steps[2].parent = "seed"
      /\ run[5].steps[3].node = "recursive_expansion"
      /\ run[5].steps[3].parent = "character_expansion"
      /\ run[5].steps[4].node = "direct"
      /\ run[5].steps[4].parent = "seed"
      /\ run[5].steps[5].node = "recursive_direct"
      /\ run[5].steps[5].parent = "direct"
  <2>1. PICK step : step = run[4].left[1]
    OBVIOUS
  <2>2. PICK new : new = NextSteps(step)
    OBVIOUS
  <2>3. run[4].left # << >> /\ step \in TraceSteps /\ step.node = "recursive_direct"
    BY <1>5, <2>1, EmptySeq, ElementOfSeq DEF IsRun
  <2>4. ~Seen(run[4], step.node)
    <3>1. DOMAIN run[4].steps = 1..4
      BY <1>5, LenProperties DEF IsRun
    <3> QED
      BY <1>5, <2>3, <3>1 DEF Seen
  <2>5. Taken("depth_first", run[4], run[5], new)
    <3>1. run[5] = VisitNext("depth_first", run[4])
      OBVIOUS
    <3> QED
      BY <1>5, <2>1, <2>2, <2>3, <2>4, <3>1, LookAtNext
  <2>6. /\ Len(new) = 1
        /\ new[1].node = "recursive_expansion"
    BY <2>2, <2>3, StepsOfNodes
  <2>7. new[1].parent = "recursive_direct"
    <3>1. 1 \in 1..Len(new)
      BY <2>6
    <3> QED
      BY <2>2, <2>3, <3>1, StepsOfNodes
  <2>8. /\ IsRun(run[5])
        /\ Len(run[5].steps) = 5
        /\ run[5].steps[5] = run[4].left[1]
        /\ \A n \in 1..4 : run[5].steps[n] = run[4].steps[n]
        /\ Len(run[5].left) = 1
        /\ run[5].left[1] = new[1]
    BY <1>5, <2>1, <2>5, <2>6 DEF Taken
  <2> QED
    BY <1>5, <2>1, <2>3, <2>6, <2>7, <2>8
<1>7. /\ IsRun(run[6])
      /\ Len(run[6].left) = 0
      /\ Len(run[6].steps) = 5
      /\ run[6].steps[1].node = "seed"
      /\ run[6].steps[2].node = "character_expansion"
      /\ run[6].steps[2].parent = "seed"
      /\ run[6].steps[3].node = "recursive_expansion"
      /\ run[6].steps[3].parent = "character_expansion"
      /\ run[6].steps[4].node = "direct"
      /\ run[6].steps[4].parent = "seed"
      /\ run[6].steps[5].node = "recursive_direct"
      /\ run[6].steps[5].parent = "direct"
  <2>1. run[5].left # << >> /\ Seen(run[5], run[5].left[1].node)
    BY <1>6, LenProperties DEF IsRun, Seen
  <2>2. run[6] = VisitNext("depth_first", run[5])
    OBVIOUS
  <2> QED
    BY <1>6, <2>1, <2>2, PassOver
<1>8. DOMAIN run[6].steps = 1..5 /\ run[6].left = << >>
  BY <1>7, EmptySeq, LenProperties DEF IsRun
<1>9. {run[6].steps[i].node : i \in 1..5} = {"seed"} \cup SuggestClasses
  <2>1. {run[6].steps[i].node : i \in 1..5} =
          {run[6].steps[1].node, run[6].steps[2].node, run[6].steps[3].node, run[6].steps[4].node, run[6].steps[5].node}
    OBVIOUS
  <2> QED
    BY <1>7, <2>1 DEF SuggestClasses
<1>10. ASSUME NEW i \in 2..5
       PROVE  /\ run[6].steps[i].parent \in InputRelation[run[6].steps[i].node]
              /\ \E j \in 1..(i - 1) : run[6].steps[j].node = run[6].steps[i].parent
  <2>1. CASE i = 2
    <3>1. 1 \in 1..(i - 1)
      BY <2>1
    <3> QED
      BY <1>7, <2>1, <3>1 DEF InputRelation
  <2>2. CASE i = 3
    <3>1. 2 \in 1..(i - 1)
      BY <2>2
    <3> QED
      BY <1>7, <2>2, <3>1 DEF InputRelation
  <2>3. CASE i = 4
    <3>1. 1 \in 1..(i - 1)
      BY <2>3
    <3> QED
      BY <1>7, <2>3, <3>1 DEF InputRelation
  <2>4. CASE i = 5
    <3>1. 4 \in 1..(i - 1)
      BY <2>4
    <3> QED
      BY <1>7, <2>4, <3>1 DEF InputRelation
  <2> QED
    BY <2>1, <2>2, <2>3, <2>4
<1> QED
  BY <1>7, <1>8, <1>9, <1>10 DEF WalkIsGood

\* The recursion has a solution: six steps, and then nothing is left.
LEMMA WalkExists ==
  ASSUME NEW plan \in {"breadth_first", "depth_first"}
  PROVE  \E run : WalksBy(run, plan)
<1>1. PICK r0, r1, r2, r3, r4, r5, r6 :
        /\ r0 = FirstRun
        /\ r1 = VisitNext(plan, r0) /\ r2 = VisitNext(plan, r1)
        /\ r3 = VisitNext(plan, r2) /\ r4 = VisitNext(plan, r3)
        /\ r5 = VisitNext(plan, r4) /\ r6 = VisitNext(plan, r5)
  OBVIOUS
<1>2. PICK run : run = [n \in Nat |-> CASE n = 0 -> r0 [] n = 1 -> r1 [] n = 2 -> r2 [] n = 3 -> r3
                                        [] n = 4 -> r4 [] n = 5 -> r5 [] OTHER -> r6]
  OBVIOUS
<1>3. /\ run[0] = r0 /\ run[1] = r1 /\ run[2] = r2 /\ run[3] = r3 /\ run[4] = r4 /\ run[5] = r5
      /\ \A n \in Nat : n > 5 => run[n] = r6
  BY <1>2
<1>4. run[0] = FirstRun /\ \A n \in 0..5 : run[n + 1] = VisitNext(plan, run[n])
  <2> SUFFICES ASSUME NEW n \in 0..5 PROVE run[n + 1] = VisitNext(plan, run[n])
    BY <1>1, <1>3
  <2>1. \/ n = 0 /\ n + 1 = 1
        \/ n = 1 /\ n + 1 = 2
        \/ n = 2 /\ n + 1 = 3
        \/ n = 3 /\ n + 1 = 4
        \/ n = 4 /\ n + 1 = 5
        \/ n = 5 /\ n + 1 = 6
    OBVIOUS
  <2>2. run[6] = r6
    BY <1>3
  <2> QED
    BY <1>1, <1>3, <2>1, <2>2
<1>5. r6.left = << >> /\ VisitNext(plan, r6) = r6
  <2>1. run[6] = r6
    BY <1>3
  <2>2. WalkIsGood(run[6])
    BY <1>4, BreadthFirstWalk, DepthFirstWalk
  <2> QED
    BY <2>1, <2>2 DEF WalkIsGood, VisitNext
<1>6. \A n \in Nat : run[n] = IF n = 0 THEN FirstRun ELSE VisitNext(plan, run[n - 1])
  <2> SUFFICES ASSUME NEW n \in Nat, n # 0 PROVE run[n] = VisitNext(plan, run[n - 1])
    BY <1>4
  <2>1. CASE n <= 6
    <3>1. n - 1 \in 0..5 /\ (n - 1) + 1 = n
      BY <2>1
    <3> QED
      BY <1>4, <3>1
  <2>2. CASE n > 6
    <3>1. n - 1 \in Nat /\ n - 1 > 5 /\ n > 5
      BY <2>2
    <3>2. run[n] = r6 /\ run[n - 1] = r6
      BY <1>3, <3>1
    <3> QED
      BY <1>5, <3>2
  <2> QED
    BY <2>1, <2>2
<1>7. run = [n \in Nat |-> run[n]]
  BY <1>2
<1>8. WalksBy(run, plan)
  BY <1>6, <1>7 DEF WalksBy
<1> QED
  BY <1>8

LEMMA TracesAreGood ==
  ASSUME NEW plan \in {"breadth_first", "depth_first"}
  PROVE  WalkIsGood(TraceRun(plan))
<1>1. PICK run : run = (CHOOSE walk : WalksBy(walk, plan))
  OBVIOUS
<1>2. WalksBy(run, plan)
  BY <1>1, WalkExists
<1>3. \A n \in Nat : run[n] = IF n = 0 THEN FirstRun ELSE VisitNext(plan, run[n - 1])
  BY <1>2 DEF WalksBy
<1>4. run[0] = FirstRun /\ \A n \in 0..5 : run[n + 1] = VisitNext(plan, run[n])
  <2> SUFFICES ASSUME NEW n \in 0..5 PROVE run[n + 1] = VisitNext(plan, run[n])
    BY <1>3
  <2>1. n + 1 \in Nat /\ n + 1 # 0 /\ (n + 1) - 1 = n
    OBVIOUS
  <2> QED
    BY <1>3, <2>1
<1>5. WalkIsGood(run[6])
  BY <1>4, BreadthFirstWalk, DepthFirstWalk
<1> QED
  BY <1>1, <1>5, RunIsChosen DEF VisitLimit

-----------------------------------------------------------------------------
(* The seeds                                                               *)

SeedOf(keyword) ==
  [keyword |-> keyword, rows |-> SourcesOf(keyword), state |-> ObservedWorkbookState(SourcesOf(keyword))]
EvidenceOf(keyword) ==
  [keyword    |-> keyword,
   rows       |-> SourcesOf(keyword),
   acquired   |-> Cardinality(SourcesOf(keyword) \cap acquired),
   unacquired |-> Cardinality(SourcesOf(keyword) \ acquired)]

LEMMA SeedsAreOfKeywords ==
  /\ SuggestEvidence = {EvidenceOf(source.keyword) : source \in Inventory}
  /\ Seeds = {SeedOf(source.keyword) : source \in Inventory}
<1>1. SuggestEvidence = {EvidenceOf(source.keyword) : source \in Inventory}
  BY DEF SuggestEvidence, EvidenceOf
<1>2. \A keyword : EvidenceOf(keyword).keyword = keyword /\ EvidenceOf(keyword).rows = SourcesOf(keyword)
  BY DEF EvidenceOf
<1> QED
  BY <1>1, <1>2 DEF Seeds, SeedOf

\* One seed per keyword, and every row of the inventory is a row of one seed.
LEMMA SeedsDivideTheInventory ==
  ASSUME CorpusTypes
  PROVE  /\ IsFiniteSet(Seeds)
         /\ \A seed \in Seeds : /\ seed = SeedOf(seed.keyword)
                                /\ seed.rows = SourcesOf(seed.keyword)
                                /\ seed.rows # {} /\ seed.rows \subseteq Inventory
                                /\ IsFiniteSet(seed.rows)
         /\ \A row \in Inventory : SeedOf(row.keyword) \in Seeds /\ row \in SourcesOf(row.keyword)
         /\ \A seed \in Seeds : \A row \in seed.rows : row.keyword = seed.keyword
         /\ \A seed, other \in Seeds : seed.keyword = other.keyword => seed = other
<1>1. IsFiniteSet(Seeds)
  <2> DEFINE f == [source \in Inventory |-> SeedOf(source.keyword)]
  <2>1. Seeds = {f[source] : source \in Inventory}
    BY SeedsAreOfKeywords
  <2>2. IsFiniteSet(Inventory)
    BY FiniteCorpus
  <2> HIDE DEF f
  <2> QED
    BY <2>1, <2>2, ImageIsFinite
<1>2. ASSUME NEW seed \in Seeds
      PROVE  /\ seed = SeedOf(seed.keyword)
             /\ seed.rows = SourcesOf(seed.keyword)
             /\ seed.rows # {} /\ seed.rows \subseteq Inventory
             /\ IsFiniteSet(seed.rows)
             /\ \A row \in seed.rows : row.keyword = seed.keyword
  <2>1. PICK source \in Inventory : seed = SeedOf(source.keyword)
    BY SeedsAreOfKeywords
  <2>2. seed.keyword = source.keyword /\ seed.rows = SourcesOf(source.keyword)
    BY <2>1 DEF SeedOf
  <2>3. source \in SourcesOf(source.keyword)
    BY DEF SourcesOf
  <2>4. IsFiniteSet(SourcesOf(source.keyword))
    BY FiniteCorpus
  <2>5. \A row \in SourcesOf(source.keyword) : row \in Inventory /\ row.keyword = source.keyword
    BY DEF SourcesOf
  <2> QED
    BY <2>1, <2>2, <2>3, <2>4, <2>5
<1>3. \A row \in Inventory : SeedOf(row.keyword) \in Seeds /\ row \in SourcesOf(row.keyword)
  BY SeedsAreOfKeywords DEF SourcesOf
<1> QED
  BY <1>1, <1>2, <1>3

LEMMA RowsAreCountedOnce ==
  ASSUME CorpusTypes
  PROVE  /\ \A row \in Inventory : Cardinality({seed \in Seeds : row \in seed.rows}) = 1
         /\ SuggestSummary.sourceRows = Cardinality(Inventory)
<1>1. ASSUME NEW row \in Inventory PROVE Cardinality({seed \in Seeds : row \in seed.rows}) = 1
  <2>1. SeedOf(row.keyword).rows = SourcesOf(row.keyword) /\ SeedOf(row.keyword).keyword = row.keyword
    BY DEF SeedOf
  <2>2. {seed \in Seeds : row \in seed.rows} = {SeedOf(row.keyword)}
    BY <2>1, SeedsDivideTheInventory
  <2> QED
    BY <2>2, FS_Singleton
<1>2. SuggestSummary.sourceRows = Cardinality(Inventory)
  <2> DEFINE part  == [seed \in Seeds |-> seed.rows]
             count == [seed \in Seeds |-> Cardinality(seed.rows)]
  <2>1. \A seed \in Seeds : IsFiniteSet(part[seed]) /\ count[seed] = Cardinality(part[seed])
    BY SeedsDivideTheInventory
  <2>2. ASSUME NEW seed \in Seeds, NEW other \in Seeds, seed # other
        PROVE  part[seed] \cap part[other] = {}
    BY <2>2, SeedsDivideTheInventory
  <2>3. Inventory = UNION {part[seed] : seed \in Seeds}
    <3>1. ASSUME NEW row \in Inventory PROVE \E seed \in Seeds : row \in part[seed]
      <4>1. SeedOf(row.keyword) \in Seeds /\ row \in SeedOf(row.keyword).rows
        BY SeedsDivideTheInventory DEF SeedOf
      <4> QED
        BY <4>1
    <3>2. \A seed \in Seeds : part[seed] \subseteq Inventory
      BY SeedsDivideTheInventory
    <3> HIDE DEF part
    <3> QED
      BY <3>1, <3>2
  <2>4. SuggestSummary.sourceRows = Sum(count, Seeds)
    <3>1. SuggestSummary.sourceRows = SumFunctionOnSet(count, Seeds)
      BY DEF SuggestSummary
    <3> QED
      BY <3>1 DEF Sum
  <2> HIDE DEF part, count
  <2>5. IsFiniteSet(Seeds)
    BY SeedsDivideTheInventory
  <2>6. Sum(count, Seeds) = Cardinality(Inventory)
    BY <2>1, <2>2, <2>3, <2>5, PartsCount
  <2> QED
    BY <2>4, <2>6
<1> QED
  BY <1>1, <1>2

\* Every row of the inventory has one disposition.
LEMMA DispositionsCount ==
  ASSUME CorpusTypes
  PROVE  Cardinality(Inventory) = SumFunctionOnSet(ExpansionSummary.ofState, DispositionStates)
<1> DEFINE part  == [state \in DispositionStates |-> {s \in Inventory : DispositionState(s) = state}]
           count == [state \in DispositionStates |-> Cardinality(part[state])]
<1>1. IsFiniteSet(DispositionStates)
  <2>1. DispositionStates = {"retained", "not_acquired"} \cup {"failed", "not_applicable"} \cup {"zero"}
    BY DEF DispositionStates
  <2> QED
    BY <2>1, PairIsFinite, UnionIsFinite
<1>2. \A state \in DispositionStates : IsFiniteSet(part[state]) /\ count[state] = Cardinality(part[state])
  BY FiniteCorpus, FS_Subset
<1>3. \A state, other \in DispositionStates : state # other => part[state] \cap part[other] = {}
  OBVIOUS
<1>4. Inventory = UNION {part[state] : state \in DispositionStates}
  <2>1. \A s \in Inventory : DispositionState(s) \in DispositionStates
    BY DEF DispositionState, StateForKeyword, DispositionStates
  <2>2. ASSUME NEW s \in Inventory PROVE \E state \in DispositionStates : s \in part[state]
    BY <2>1
  <2>3. \A state \in DispositionStates : part[state] \subseteq Inventory
    OBVIOUS
  <2> HIDE DEF part
  <2> QED
    BY <2>2, <2>3
<1>5. ExpansionSummary.ofState = count
  BY DEF ExpansionSummary
<1> HIDE DEF part, count
<1>6. Sum(count, DispositionStates) = Cardinality(Inventory)
  BY <1>1, <1>2, <1>3, <1>4, PartsCount
<1> QED
  BY <1>5, <1>6 DEF Sum

LEMMA StatesOfRows ==
  ASSUME NEW rows, rows # {}
  PROVE  /\ ObservedWorkbookState(rows) = "not_acquired" <=> \A row \in rows : row \notin acquired
         /\ ObservedWorkbookState(rows) = "retained_or_unclassified" <=> \A row \in rows : row \in acquired
         /\ ObservedWorkbookState(rows) = "mixed_retained_and_not_acquired" <=>
              /\ \E row \in rows : row \in acquired
              /\ \E row \in rows : row \notin acquired
<1>1. PICK states : states = ProcessingStates(rows)
  OBVIOUS
<1>2. /\ "assigned" \in states <=> \E row \in rows : row \in acquired
      /\ "serp_not_acquired" \in states <=> \E row \in rows : row \notin acquired
      /\ states \subseteq {"assigned", "serp_not_acquired"}
  BY <1>1 DEF ProcessingStates
<1>3. Cardinality(states) > 1 <=> "assigned" \in states /\ "serp_not_acquired" \in states
  <2>1. CASE "assigned" \in states /\ "serp_not_acquired" \in states
    <3>1. states = {"assigned"} \cup {"serp_not_acquired"} /\ {"assigned"} \cap {"serp_not_acquired"} = {}
      BY <1>2, <2>1
    <3>2. /\ IsFiniteSet({"assigned"}) /\ Cardinality({"assigned"}) = 1
          /\ IsFiniteSet({"serp_not_acquired"}) /\ Cardinality({"serp_not_acquired"}) = 1
      BY FS_Singleton
    <3>3. Cardinality(states) = 1 + 1
      BY <3>1, <3>2, DisjointUnionCounts
    <3> QED
      BY <2>1, <3>3
  <2>2. CASE "assigned" \in states /\ "serp_not_acquired" \notin states
    <3>1. states = {"assigned"}
      BY <1>2, <2>2
    <3>2. Cardinality(states) = 1
      BY <3>1, FS_Singleton
    <3> QED
      BY <2>2, <3>2
  <2>3. CASE "assigned" \notin states /\ "serp_not_acquired" \in states
    <3>1. states = {"serp_not_acquired"}
      BY <1>2, <2>3
    <3>2. Cardinality(states) = 1
      BY <3>1, FS_Singleton
    <3> QED
      BY <2>3, <3>2
  <2>4. "assigned" \in states \/ "serp_not_acquired" \in states
    BY <1>2
  <2> QED
    BY <2>1, <2>2, <2>3, <2>4
<1>4. ObservedWorkbookState(rows) =
        IF "assigned" \in states /\ "serp_not_acquired" \in states THEN "mixed_retained_and_not_acquired"
        ELSE IF "serp_not_acquired" \in states THEN "not_acquired" ELSE "retained_or_unclassified"
  BY <1>1, <1>3 DEF ObservedWorkbookState
<1> QED
  BY <1>2, <1>4

\* The lineage calls a row untouched exactly if it was not acquired.
LEMMA UntouchedRows ==
  \A row : LineageState(row) \in {"unacquired_recommendation_connected", "inventory_only_hierarchy"}
             <=> row \notin acquired
BY DEF LineageState

LEMMA SeedsAgree ==
  ASSUME CorpusTypes
  PROVE  SeedsAgreeWithLineage
<1>1. ExpansionSummary.sources = Cardinality(Inventory)
  BY DEF ExpansionSummary
<1>2. ASSUME NEW seed \in Seeds
      PROVE  /\ seed.state = ObservedWorkbookState(seed.rows)
             /\ seed.rows # {}
  BY SeedsDivideTheInventory DEF SeedOf
<1>3. ASSUME NEW seed \in Seeds, NEW evidence \in SuggestEvidence, seed.keyword = evidence.keyword
      PROVE  seed.state = "mixed_retained_and_not_acquired" <=>
               evidence.acquired > 0 /\ evidence.unacquired > 0
  <2>1. PICK source \in Inventory : evidence = EvidenceOf(source.keyword)
    BY SeedsAreOfKeywords
  <2>2. /\ seed.rows = SourcesOf(source.keyword)
        /\ evidence.acquired = Cardinality(seed.rows \cap acquired)
        /\ evidence.unacquired = Cardinality(seed.rows \ acquired)
    BY <1>3, <2>1, SeedsDivideTheInventory DEF EvidenceOf
  <2>3. \A T : IsFiniteSet(T) => (Cardinality(T) > 0 <=> T # {})
    BY FS_EmptySet, FS_CardinalityType
  <2>4. IsFiniteSet(seed.rows \cap acquired) /\ IsFiniteSet(seed.rows \ acquired)
    BY SeedsDivideTheInventory, FS_Subset
  <2>5. /\ evidence.acquired > 0 <=> seed.rows \cap acquired # {}
        /\ evidence.unacquired > 0 <=> seed.rows \ acquired # {}
    BY <2>2, <2>3, <2>4
  <2> QED
    BY <1>2, <2>5, StatesOfRows
<1>4. ASSUME NEW seed \in Seeds
      PROVE  /\ seed.state = "not_acquired" <=> \A row \in seed.rows : row \notin acquired
             /\ seed.state = "retained_or_unclassified" <=> \A row \in seed.rows : row \in acquired
  BY <1>2, StatesOfRows
<1> QED
  BY <1>1, <1>3, <1>4, UntouchedRows, RowsAreCountedOnce, DispositionsCount DEF SeedsAgreeWithLineage

-----------------------------------------------------------------------------
(* The plan                                                                *)

FrontierRow(keyword, class) ==
  [keyword |-> keyword, class |-> class, families |-> AppendFamilies(class),
   state |-> "plan_only_not_acquired"]

LEMMA FrontierIsCounted ==
  ASSUME CorpusTypes
  PROVE  /\ \A seed \in Seeds, class \in SuggestClasses :
              Cardinality({row \in Frontier : row.keyword = seed.keyword /\ row.class = class}) = 1
         /\ SuggestSummary.frontier = SumFunctionOnSet(SuggestSummary.ofClass, SuggestClasses)
<1>1. Frontier = {FrontierRow(seed.keyword, class) : seed \in Seeds, class \in SuggestClasses}
  BY DEF Frontier, FrontierRow
<1>2. \A keyword, class : FrontierRow(keyword, class).keyword = keyword
                          /\ FrontierRow(keyword, class).class = class
  BY DEF FrontierRow
<1>3. ASSUME NEW seed \in Seeds, NEW class \in SuggestClasses
      PROVE  Cardinality({row \in Frontier : row.keyword = seed.keyword /\ row.class = class}) = 1
  <2>1. {row \in Frontier : row.keyword = seed.keyword /\ row.class = class} =
          {FrontierRow(seed.keyword, class)}
    BY <1>1, <1>2
  <2> QED
    BY <2>1, FS_Singleton
<1> DEFINE row   == [class \in SuggestClasses |-> [seed \in Seeds |-> FrontierRow(seed.keyword, class)]]
           part  == [class \in SuggestClasses |-> {row[class][seed] : seed \in Seeds}]
           count == [class \in SuggestClasses |-> Cardinality(Seeds)]
<1>4. ASSUME NEW class \in SuggestClasses
      PROVE  IsFiniteSet(part[class]) /\ count[class] = Cardinality(part[class])
  <2>1. PICK f : f = row[class]
    OBVIOUS
  <2>2. \A seed \in Seeds : f[seed].keyword = seed.keyword
    BY <1>2, <2>1
  <2>3. \A seed, other \in Seeds : f[seed] = f[other] => seed = other
    BY <2>2, SeedsDivideTheInventory
  <2>4. IsFiniteSet(Seeds)
    BY SeedsDivideTheInventory
  <2>5. part[class] = {f[seed] : seed \in Seeds} /\ count[class] = Cardinality(Seeds)
    BY <2>1
  <2> HIDE DEF part, count, row
  <2> QED
    BY <2>3, <2>4, <2>5, ImageHasAsMany
<1>5. \A class \in SuggestClasses : \A r \in part[class] : r.class = class
  BY <1>2
<1>6. Frontier = UNION {part[class] : class \in SuggestClasses}
  <2>1. ASSUME NEW r \in Frontier PROVE \E class \in SuggestClasses : r \in part[class]
    BY <1>1
  <2>2. \A class \in SuggestClasses : part[class] \subseteq Frontier
    BY <1>1
  <2> HIDE DEF part
  <2> QED
    BY <2>1, <2>2
<1>7. SuggestSummary.frontier = Cardinality(Frontier) /\ SuggestSummary.ofClass = count
  BY DEF SuggestSummary
<1> HIDE DEF part, count, row
<1>8. \A class, other \in SuggestClasses : class # other => part[class] \cap part[other] = {}
  BY <1>5
<1>9. IsFiniteSet(SuggestClasses)
  <2>1. SuggestClasses = {"direct", "recursive_direct"} \cup {"character_expansion", "recursive_expansion"}
    BY DEF SuggestClasses
  <2> QED
    BY <2>1, PairIsFinite, UnionIsFinite
<1>10. Sum(count, SuggestClasses) = Cardinality(Frontier)
  BY <1>4, <1>6, <1>8, <1>9, PartsCount
<1> QED
  BY <1>3, <1>7, <1>10 DEF Sum

LEMMA FourClasses == Cardinality(SuggestClasses) = 4
<1>1. /\ IsFiniteSet({"direct"}) /\ Cardinality({"direct"}) = 1
      /\ IsFiniteSet({"recursive_direct"}) /\ Cardinality({"recursive_direct"}) = 1
      /\ IsFiniteSet({"character_expansion"}) /\ Cardinality({"character_expansion"}) = 1
      /\ IsFiniteSet({"recursive_expansion"}) /\ Cardinality({"recursive_expansion"}) = 1
  BY FS_Singleton
<1>2. PICK A, B : A = {"direct"} \cup {"recursive_direct"}
                  /\ B = {"character_expansion"} \cup {"recursive_expansion"}
  OBVIOUS
<1>3. IsFiniteSet(A) /\ Cardinality(A) = 1 + 1
  <2>1. {"direct"} \cap {"recursive_direct"} = {}
    OBVIOUS
  <2> QED
    BY <1>1, <1>2, <2>1, DisjointUnionCounts
<1>4. IsFiniteSet(B) /\ Cardinality(B) = 1 + 1
  <2>1. {"character_expansion"} \cap {"recursive_expansion"} = {}
    OBVIOUS
  <2> QED
    BY <1>1, <1>2, <2>1, DisjointUnionCounts
<1>5. SuggestClasses = A \cup B /\ A \cap B = {}
  BY <1>2 DEF SuggestClasses
<1> QED
  BY <1>3, <1>4, <1>5, DisjointUnionCounts

LEMMA PlanFollows ==
  ASSUME CorpusTypes
  PROVE  PlanFollowsItsInputs
<1>1. ASSUME NEW plan \in {"breadth_first", "depth_first"}
      PROVE  LET steps == TraceFor(plan) IN
             /\ {steps[i].node : i \in DOMAIN steps} = {"seed"} \cup SuggestClasses
             /\ Len(steps) = Cardinality(SuggestClasses) + 1
             /\ TraceRun(plan).left = <<>>
             /\ \A i \in 2..Len(steps) :
                  /\ steps[i].parent \in InputRelation[steps[i].node]
                  /\ \E j \in 1..(i - 1) : steps[j].node = steps[i].parent
  <2>1. PICK run : run = TraceRun(plan)
    OBVIOUS
  <2>2. WalkIsGood(run)
    BY <2>1, TracesAreGood
  <2>3. TraceFor(plan) = run.steps
    BY <2>1 DEF TraceFor
  <2>4. Len(run.steps) = 5 /\ 5 = Cardinality(SuggestClasses) + 1
    BY <2>2, FourClasses DEF WalkIsGood
  <2> QED
    <3>1. /\ {run.steps[i].node : i \in DOMAIN run.steps} = {"seed"} \cup SuggestClasses
          /\ run.left = <<>>
      BY <2>2 DEF WalkIsGood
    <3>2. \A i \in 2..Len(run.steps) :
            /\ run.steps[i].parent \in InputRelation[run.steps[i].node]
            /\ \E j \in 1..(i - 1) : run.steps[j].node = run.steps[i].parent
      BY <2>2, <2>4 DEF WalkIsGood
    <3> HIDE DEF WalkIsGood
    <3> QED
      BY <2>1, <2>3, <2>4, <3>1, <3>2
<1> QED
  BY <1>1, FrontierIsCounted DEF PlanFollowsItsInputs

-----------------------------------------------------------------------------
(* The members of a group                                                  *)

LEMMA EdgeFields ==
  \A type, from, to, source, ref :
    /\ Edge(type, from, to, source, ref).type = type
    /\ Edge(type, from, to, source, ref).from = from
    /\ Edge(type, from, to, source, ref).to = to
    /\ Edge(type, from, to, source, ref).source = source
BY DEF Edge

\* Which edges are of which type.
LEMMA TypesOfEdges ==
  /\ \A e \in SourceEdges : e.type \in {"normalization", "hierarchy_parent"}
  /\ \A e \in MembershipEdges : e.type = "group_membership"
  /\ \A e \in BoundaryEdges : e.type = "related_group_candidate"
  /\ \A e \in DemandEdges : e.type \in {"observed_demand", "group_demand"}
  /\ \A e \in EditorialEdges : e.type \in {"group_topic", "topic_evidence", "group_question",
                                           "topic_question", "group_content_candidate"}
  /\ \A e \in LexicalEdges : e.type \in {"keyword_term", "reviewed_synonym"}
  /\ \A e \in SurfaceEdges : e.type = "surface_state"
<1>1. \A e \in SourceEdges : e.type \in {"normalization", "hierarchy_parent"}
  BY EdgeFields DEF SourceEdges
<1>2. \A e \in MembershipEdges : e.type = "group_membership"
  BY EdgeFields DEF MembershipEdges
<1>3. \A e \in BoundaryEdges : e.type = "related_group_candidate"
  BY EdgeFields DEF BoundaryEdges
<1>4. \A e \in DemandEdges : e.type \in {"observed_demand", "group_demand"}
  BY EdgeFields DEF DemandEdges
<1>5. \A e \in EditorialEdges : e.type \in {"group_topic", "topic_evidence", "group_question",
                                            "topic_question", "group_content_candidate"}
  BY EdgeFields DEF EditorialEdges
<1>6. \A e \in LexicalEdges : e.type \in {"keyword_term", "reviewed_synonym"}
  BY EdgeFields DEF LexicalEdges
<1>7. \A e \in SurfaceEdges : e.type = "surface_state"
  BY EdgeFields DEF SurfaceEdges
<1> QED
  BY <1>1, <1>2, <1>3, <1>4, <1>5, <1>6, <1>7

OfType(type) == {e \in EdgesOfLineage : e.type = type}

LEMMA EdgesByType ==
  /\ OfType("group_membership") = MembershipEdges
  /\ OfType("related_group_candidate") = BoundaryEdges
  /\ OfType("group_demand") = {e \in DemandEdges : e.type = "group_demand"}
  /\ OfType("group_topic") = {e \in EditorialEdges : e.type = "group_topic"}
  /\ OfType("group_content_candidate") = {e \in EditorialEdges : e.type = "group_content_candidate"}
BY TypesOfEdges DEF OfType, EdgesOfLineage

\* A membership edge stands for a row whose keyword the group lists.
LEMMA EdgesOfMembers ==
  /\ \A e \in MembershipEdges : \E group \in SiteGroups : \E s \in Inventory :
       Lists(group, s.keyword) /\ e.from = s.id /\ e.to = group.id /\ e.source = s.id
  /\ \A group \in SiteGroups : \A s \in Inventory : Lists(group, s.keyword) =>
       \E e \in MembershipEdges : e.from = s.id /\ e.to = group.id /\ e.source = s.id
<1>1. ASSUME NEW e \in MembershipEdges
      PROVE  \E group \in SiteGroups : \E s \in Inventory :
               Lists(group, s.keyword) /\ e.from = s.id /\ e.to = group.id /\ e.source = s.id
  <2>1. PICK group \in SiteGroups : \E entry \in group.lists : \E s \in SourcesOf(entry.keyword) :
               e = Edge("group_membership", s.id, group.id, s.id, entry.role)
    BY DEF MembershipEdges
  <2>2. PICK entry \in group.lists : \E s \in SourcesOf(entry.keyword) :
               e = Edge("group_membership", s.id, group.id, s.id, entry.role)
    BY <2>1
  <2>3. PICK s \in SourcesOf(entry.keyword) :
               e = Edge("group_membership", s.id, group.id, s.id, entry.role)
    BY <2>2
  <2>4. s \in Inventory /\ Lists(group, s.keyword)
    BY DEF SourcesOf, Lists
  <2> QED
    BY <2>3, <2>4, EdgeFields
<1>2. ASSUME NEW group \in SiteGroups, NEW s \in Inventory, Lists(group, s.keyword)
      PROVE  \E e \in MembershipEdges : e.from = s.id /\ e.to = group.id /\ e.source = s.id
  <2>1. PICK entry \in group.lists : entry.keyword = s.keyword
    BY <1>2 DEF Lists
  <2>2. s \in SourcesOf(entry.keyword)
    BY <2>1 DEF SourcesOf
  <2>3. Edge("group_membership", s.id, group.id, s.id, entry.role) \in MembershipEdges
    BY <2>2 DEF MembershipEdges
  <2> QED
    BY <2>3, EdgeFields
<1> QED
  BY <1>1, <1>2

\* The rows the content lineage shows of a group are those it lists.
LEMMA RowsOfGroups ==
  \A group \in SiteGroups :
    /\ SourceRowsForGroup(group) = {s \in Inventory : Lists(group, s.keyword)}
    /\ \A s \in Inventory : group.id \in ExactGroups(s) <=> Lists(group, s.keyword)
<1> SUFFICES ASSUME NEW group \in SiteGroups
             PROVE  /\ SourceRowsForGroup(group) = {s \in Inventory : Lists(group, s.keyword)}
                    /\ \A s \in Inventory : group.id \in ExactGroups(s) <=> Lists(group, s.keyword)
  OBVIOUS
<1>1. group \in AllGroups
  BY DEF SiteGroups
<1>2. \A s \in Inventory : group.id \in ExactGroups(s) <=> Lists(group, s.keyword)
  BY <1>1, CorpusAssumption DEF ExactGroups
<1>3. {s \in Inventory : group.id \in ExactGroups(s)} = {s \in Inventory : Lists(group, s.keyword)}
  BY <1>2
<1> QED
  BY <1>2, <1>3 DEF SourceRowsForGroup

\* A group has an identifier of its own, so groups are counted by it.
IdsOf(groups) == {group.id : group \in groups}

LEMMA GroupsAreCountedById ==
  ASSUME NEW groups \in SUBSET SiteGroups
  PROVE  Cardinality(IdsOf(groups)) = Cardinality(groups)
<1> DEFINE f == [group \in groups |-> group.id]
<1>1. IsFiniteSet(groups)
  BY CorpusAssumption, FS_Subset DEF SiteGroups
<1>2. \A group, other \in groups : f[group] = f[other] => group = other
  BY CorpusAssumption DEF SiteGroups
<1>3. IdsOf(groups) = {f[group] : group \in groups}
  BY DEF IdsOf
<1> HIDE DEF f
<1> QED
  BY <1>1, <1>2, <1>3, ImageHasAsMany

GroupsWithRows == {group \in SiteGroups : SourceRowsForGroup(group) # {}}
GroupsWithProposals == {group \in SiteGroups : ProposalRowsForGroup(group) # {}}
GroupsWith(kind) == {group \in SiteGroups : OfGroup(kind, group) # {}}

LEMMA GroupsOfMembership == {e.to : e \in MembershipEdges} = IdsOf(GroupsWithRows)
<1>1. ASSUME NEW e \in MembershipEdges PROVE e.to \in IdsOf(GroupsWithRows)
  <2>1. PICK group \in SiteGroups : \E s \in Inventory : Lists(group, s.keyword) /\ e.to = group.id
    BY EdgesOfMembers
  <2>2. group \in GroupsWithRows
    BY <2>1, RowsOfGroups DEF GroupsWithRows
  <2> QED
    BY <2>1, <2>2 DEF IdsOf
<1>2. ASSUME NEW group \in GroupsWithRows PROVE \E e \in MembershipEdges : e.to = group.id
  <2>1. group \in SiteGroups
    BY DEF GroupsWithRows
  <2>2. PICK s \in Inventory : Lists(group, s.keyword)
    BY <2>1, RowsOfGroups DEF GroupsWithRows
  <2> QED
    BY <2>1, <2>2, EdgesOfMembers
<1>3. ASSUME NEW id \in IdsOf(GroupsWithRows) PROVE id \in {e.to : e \in MembershipEdges}
  BY <1>2 DEF IdsOf
<1> QED
  BY <1>1, <1>3

LEMMA GroupsOfBoundary == {e.to : e \in BoundaryEdges} = IdsOf(GroupsWithProposals)
<1>1. ASSUME NEW e \in BoundaryEdges PROVE e.to \in IdsOf(GroupsWithProposals)
  <2>1. PICK p \in OfSiteGroups("proposal") :
               /\ \E s \in Inventory : s.id = p.source
               /\ e = Edge("related_group_candidate", p.source, p.group, p.source, "proposal")
    BY DEF BoundaryEdges
  <2>2. PICK s \in Inventory : s.id = p.source
    BY <2>1
  <2>3. PICK group \in SiteGroups : p.group = group.id
    BY DEF OfSiteGroups, GroupIds
  <2>4. p \in Of("proposal") /\ p.source = s.id
    BY <2>2 DEF OfSiteGroups
  <2>5. s \in ProposalRowsForGroup(group)
    BY <2>3, <2>4 DEF ProposalRowsForGroup, ProposalGroups
  <2>6. group \in GroupsWithProposals /\ e.to = group.id
    BY <2>1, <2>3, <2>5, EdgeFields DEF GroupsWithProposals
  <2> QED
    BY <2>6 DEF IdsOf
<1>2. ASSUME NEW group \in GroupsWithProposals PROVE \E e \in BoundaryEdges : e.to = group.id
  <2>1. group \in SiteGroups
    BY DEF GroupsWithProposals
  <2>2. PICK s \in Inventory : group.id \in ProposalGroups(s)
    BY DEF GroupsWithProposals, ProposalRowsForGroup
  <2>3. PICK p \in Of("proposal") : p.source = s.id /\ p.group = group.id
    BY <2>2 DEF ProposalGroups
  <2>4. p \in OfSiteGroups("proposal")
    BY <2>1, <2>3 DEF OfSiteGroups, GroupIds
  <2>5. Edge("related_group_candidate", p.source, p.group, p.source, "proposal") \in BoundaryEdges
    BY <2>3, <2>4 DEF BoundaryEdges
  <2> QED
    BY <2>3, <2>5, EdgeFields
<1>3. ASSUME NEW id \in IdsOf(GroupsWithProposals) PROVE id \in {e.to : e \in BoundaryEdges}
  BY <1>2 DEF IdsOf
<1> QED
  BY <1>1, <1>3

\* The demands, topics and candidates of the groups of the site.
LEMMA GroupsOfKinds ==
  /\ {e.from : e \in OfType("group_demand")} = {o.group : o \in OfSiteGroups("occurrence")}
  /\ {e.from : e \in OfType("group_topic")} = {t.group : t \in OfSiteGroups("topic")}
  /\ {e.from : e \in OfType("group_content_candidate")} = {c.group : c \in OfSiteGroups("candidate")}
<1>1. /\ \A e \in DemandEdges : e.type = "group_demand" =>
           \E o \in OfSiteGroups("occurrence") : e.from = o.group
      /\ \A o \in OfSiteGroups("occurrence") :
           \E e \in DemandEdges : e.type = "group_demand" /\ e.from = o.group
  BY EdgeFields DEF DemandEdges
<1>2. /\ \A e \in EditorialEdges : e.type = "group_topic" =>
           \E t \in OfSiteGroups("topic") : e.from = t.group
      /\ \A t \in OfSiteGroups("topic") :
           \E e \in EditorialEdges : e.type = "group_topic" /\ e.from = t.group
  BY EdgeFields DEF EditorialEdges
<1>3. /\ \A e \in EditorialEdges : e.type = "group_content_candidate" =>
           \E c \in OfSiteGroups("candidate") : e.from = c.group
      /\ \A c \in OfSiteGroups("candidate") :
           \E e \in EditorialEdges : e.type = "group_content_candidate" /\ e.from = c.group
  BY EdgeFields DEF EditorialEdges
<1>4. {e.from : e \in OfType("group_demand")} = {o.group : o \in OfSiteGroups("occurrence")}
  BY <1>1, EdgesByType
<1>5. {e.from : e \in OfType("group_topic")} = {t.group : t \in OfSiteGroups("topic")}
  BY <1>2, EdgesByType
<1>6. {e.from : e \in OfType("group_content_candidate")} = {c.group : c \in OfSiteGroups("candidate")}
  BY <1>3, EdgesByType
<1> QED
  BY <1>4, <1>5, <1>6

LEMMA GroupsOfRows ==
  ASSUME NEW kind
  PROVE  {fact.group : fact \in OfSiteGroups(kind)} = IdsOf(GroupsWith(kind))
<1>1. ASSUME NEW fact \in OfSiteGroups(kind) PROVE fact.group \in IdsOf(GroupsWith(kind))
  <2>1. PICK group \in SiteGroups : fact.group = group.id
    BY DEF OfSiteGroups, GroupIds
  <2>2. fact \in OfGroup(kind, group)
    BY <2>1 DEF OfGroup, OfSiteGroups
  <2>3. group \in GroupsWith(kind)
    BY <2>2 DEF GroupsWith
  <2> QED
    BY <2>1, <2>3 DEF IdsOf
<1>2. ASSUME NEW group \in GroupsWith(kind) PROVE \E fact \in OfSiteGroups(kind) : fact.group = group.id
  <2>1. PICK fact \in Of(kind) : fact.group = group.id
    BY DEF GroupsWith, OfGroup
  <2>2. fact \in OfSiteGroups(kind)
    BY <2>1 DEF OfSiteGroups, GroupIds, GroupsWith
  <2> QED
    BY <2>1, <2>2
<1>3. ASSUME NEW id \in IdsOf(GroupsWith(kind)) PROVE id \in {fact.group : fact \in OfSiteGroups(kind)}
  BY <1>2 DEF IdsOf
<1> QED
  BY <1>1, <1>3

\* What the content lineage counts, as sets of groups.
LEMMA StagesCount ==
  LET summary == ContentLineageSummary IN
  /\ summary.retained = Cardinality(GroupsWithRows)
  /\ summary.proposalOnly = Cardinality(GroupsWithProposals \ GroupsWithRows)
  /\ summary.observed = Cardinality(GroupsWith("occurrence") \cup GroupsWith("topic"))
  /\ summary.generated = Cardinality(GroupsWith("candidate"))
<1>1. \A group \in SiteGroups :
        /\ Stages(group)["source_keywords"] = "retained" <=> SourceRowsForGroup(group) # {}
        /\ Stages(group)["source_keywords"] = "proposal_only" <=>
             SourceRowsForGroup(group) = {} /\ ProposalRowsForGroup(group) # {}
        /\ Stages(group)["demand"] = "observed" <=>
             OfGroup("occurrence", group) # {} \/ OfGroup("topic", group) # {}
        /\ Stages(group)["title_and_headings"] = "candidate" <=> OfGroup("candidate", group) # {}
  BY DEF Stages
<1>2. {group \in SiteGroups : Stages(group)["source_keywords"] = "retained"} = GroupsWithRows
  BY <1>1 DEF GroupsWithRows
<1>3. {group \in SiteGroups : Stages(group)["source_keywords"] = "proposal_only"} =
        GroupsWithProposals \ GroupsWithRows
  BY <1>1 DEF GroupsWithRows, GroupsWithProposals
<1>4. {group \in SiteGroups : Stages(group)["demand"] = "observed"} =
        GroupsWith("occurrence") \cup GroupsWith("topic")
  BY <1>1 DEF GroupsWith
<1>5. {group \in SiteGroups : Stages(group)["title_and_headings"] = "candidate"} = GroupsWith("candidate")
  BY <1>1 DEF GroupsWith
<1> QED
  BY <1>2, <1>3, <1>4, <1>5 DEF ContentLineageSummary, StageCount

LEMMA MembersAgree ==
  ASSUME CorpusTypes
  PROVE  LedgersAgreeOnMembers
<1> DEFINE linkedTo(type)   == {edge.to : edge \in {e \in EdgesOfLineage : e.type = type}}
           linkedFrom(type) == {edge.from : edge \in {e \in EdgesOfLineage : e.type = type}}
<1>1. /\ linkedTo("group_membership") = IdsOf(GroupsWithRows)
      /\ linkedTo("related_group_candidate") = IdsOf(GroupsWithProposals)
      /\ linkedFrom("group_demand") = IdsOf(GroupsWith("occurrence"))
      /\ linkedFrom("group_topic") = IdsOf(GroupsWith("topic"))
      /\ linkedFrom("group_content_candidate") = IdsOf(GroupsWith("candidate"))
  <2>1. \A type : linkedTo(type) = {e.to : e \in OfType(type)} /\ linkedFrom(type) = {e.from : e \in OfType(type)}
    BY DEF OfType
  <2> HIDE DEF linkedTo, linkedFrom
  <2> QED
    BY <2>1, EdgesByType, GroupsOfMembership, GroupsOfBoundary, GroupsOfKinds, GroupsOfRows
<1>2. /\ IdsOf(GroupsWithProposals) \ IdsOf(GroupsWithRows) = IdsOf(GroupsWithProposals \ GroupsWithRows)
      /\ IdsOf(GroupsWith("occurrence")) \cup IdsOf(GroupsWith("topic")) =
           IdsOf(GroupsWith("occurrence") \cup GroupsWith("topic"))
  BY CorpusAssumption DEF IdsOf, GroupsWithProposals, GroupsWithRows, SiteGroups
<1>3. /\ GroupsWithRows \in SUBSET SiteGroups
      /\ GroupsWithProposals \ GroupsWithRows \in SUBSET SiteGroups
      /\ GroupsWith("occurrence") \cup GroupsWith("topic") \in SUBSET SiteGroups
      /\ GroupsWith("candidate") \in SUBSET SiteGroups
  BY DEF GroupsWithRows, GroupsWithProposals, GroupsWith
<1>4. /\ ContentLineageSummary.retained = Cardinality(linkedTo("group_membership"))
      /\ ContentLineageSummary.proposalOnly =
           Cardinality(linkedTo("related_group_candidate") \ linkedTo("group_membership"))
      /\ ContentLineageSummary.observed =
           Cardinality(linkedFrom("group_demand") \cup linkedFrom("group_topic"))
      /\ ContentLineageSummary.generated = Cardinality(linkedFrom("group_content_candidate"))
  <2> HIDE DEF linkedTo, linkedFrom
  <2> QED
    BY <1>1, <1>2, <1>3, StagesCount, GroupsAreCountedById
<1>5. ASSUME NEW group \in SiteGroups
      PROVE  {source.id : source \in SourceRowsForGroup(group)} =
               {edge.source : edge \in {e \in EdgesOfLineage : e.type = "group_membership" /\ e.to = group.id}}
  <2>1. {e \in EdgesOfLineage : e.type = "group_membership" /\ e.to = group.id} =
          {e \in MembershipEdges : e.to = group.id}
    BY EdgesByType DEF OfType
  <2>2. ASSUME NEW source \in SourceRowsForGroup(group)
        PROVE  \E e \in MembershipEdges : e.to = group.id /\ e.source = source.id
    BY RowsOfGroups, EdgesOfMembers
  <2>3. ASSUME NEW e \in MembershipEdges, e.to = group.id
        PROVE  \E source \in SourceRowsForGroup(group) : e.source = source.id
    <3>1. PICK other \in SiteGroups : \E s \in Inventory :
                 Lists(other, s.keyword) /\ e.to = other.id /\ e.source = s.id
      BY EdgesOfMembers
    <3>2. other = group
      BY <2>3, <3>1, CorpusAssumption DEF SiteGroups
    <3> QED
      BY <3>1, <3>2, RowsOfGroups
  <2> QED
    BY <2>1, <2>2, <2>3
<1>6. ASSUME NEW group \in SiteGroups, NEW source \in SourceRowsForGroup(group)
      PROVE  LineageState(source) # "lineage_anomaly" /\ DispositionState(source) # "zero"
  <2>1. source \in Inventory /\ Lists(group, source.keyword)
    BY RowsOfGroups
  <2>2. ExactGroups(source) # {}
    BY <2>1, RowsOfGroups
  <2>3. LineageState(source) # "lineage_anomaly"
    BY <2>2 DEF LineageState
  <2>4. DispositionState(source) # "zero"
    BY <2>1, ZeroFollows DEF ZeroMeansNothingRetained
  <2> QED
    BY <2>3, <2>4
<1>7. ASSUME NEW group \in SiteGroups, Stages(group).source_keywords = "proposal_only"
      PROVE  \E edge \in BoundaryEdges : edge.to = group.id
  <2>1. ProposalRowsForGroup(group) # {}
    BY <1>7 DEF Stages
  <2>2. group.id \in IdsOf(GroupsWithProposals)
    BY <2>1 DEF IdsOf, GroupsWithProposals
  <2> QED
    BY <2>2, GroupsOfBoundary
<1> QED
  BY <1>4, <1>5, <1>6, <1>7 DEF LedgersAgreeOnMembers

\* What a build derives from an inventory tells one story, for any inventory and
\* any groups: the lineage of the expansion, the lineage of the contents, the
\* lineage ledger, the evidence of the suggestions and the plan of asking for
\* them count the same rows, groups and states, and either order of the plan
\* asks for each class once, after the class its inputs come from (traceFor).
THEOREM LedgersTellOneStory == CorpusSpec => []InventoryLedgersAgree
<1>1. CorpusTypes => InventoryLedgersAgree
  BY MembersAgree, SeedsAgree, PlanFollows DEF InventoryLedgersAgree
<1> QED
  BY <1>1, CorpusTypesHold, PTL

-----------------------------------------------------------------------------
(* LatentDemandTraversal, for every graph of demands and evidence.           *)
(*                                                                           *)
(* A node that was left and closed no cycle leads only to nodes left before it, *)
(* so nodes that lead back to themselves hold one at which a cycle was reviewed. *)

\* The path leads from parent to child, over nodes that were not left.
PathInv ==
  /\ activePath \in Seq(Nodes)
  /\ \A n \in 1..Len(activePath) : activePath[n] \notin searched
  /\ \A n \in 1..(Len(activePath) - 1) : activePath[n + 1] \in DemandChildren(activePath[n])
  /\ \A n, m \in 1..Len(activePath) : activePath[n] = activePath[m] => n = m

\* A child that was looked at was left, or closed a cycle, or is gone on with.
LookedInv ==
  \A u, c : <<u, c>> \in looked =>
    \/ c \in searched
    \/ u \in cycles
    \/ \E n \in 1..(Len(activePath) - 1) : activePath[n] = u /\ activePath[n + 1] = c

\* Nodes that were left and are in no cycle lead to nodes left before them.
SearchedInv ==
  /\ searched \subseteq Nodes
  /\ \A u \in searched \ cycles : DemandChildren(u) \subseteq searched
  /\ \A part \in SUBSET (searched \ cycles) :
       part # {} => \E node \in part : DemandChildren(node) \cap part = {}

CyclesInv == \A node \in cycles : node \in Beyond(node)

DemandInv ==
  /\ PathInv /\ LookedInv /\ SearchedInv /\ CyclesInv
  /\ tracing = "idle" => activePath = << >> /\ searched = {} /\ looked = {} /\ cycles = {}
  /\ tracing \in {"tracing", "traced"} => searched = Nodes

LEMMA ChildrenAreNodes == \A node : DemandChildren(node) \subseteq Nodes
BY DEF DemandChildren, Edges, Nodes

\* The nodes of the path from the child on are on a cycle through it.
LEMMA ClosedCyclesAreCycles ==
  ASSUME PathInv, activePath # << >>, NEW child \in DemandChildren(Last(activePath)),
         NEW node \in CycleClosedBy(child)
  PROVE  node \in Beyond(node)
<1> DEFINE last == Len(activePath)
<1>1. /\ last \in Nat \ {0} /\ DOMAIN activePath = 1..last
      /\ \A n \in 1..last : activePath[n] \in Nodes
      /\ Last(activePath) = activePath[last]
  BY EmptySeq DEF PathInv, Last
<1>2. PICK at \in 1..last, start \in 1..last :
        start <= at /\ activePath[at] = node /\ activePath[start] = child
  BY <1>1 DEF CycleClosedBy
<1>3. \A n \in 1..(last - 1) : activePath[n + 1] \in DemandChildren(activePath[n])
  BY DEF PathInv
<1> HIDE DEF last
<1>4. SUFFICES ASSUME NEW part \in SUBSET Nodes, DemandChildren(node) \subseteq part, Closed(part)
               PROVE  node \in part
  BY <1>1, <1>2 DEF Beyond
<1>5. at \in Nat /\ start \in Nat /\ 1 <= start /\ start <= at /\ at <= last
  BY <1>1, <1>2
\* What lies behind a node of the path that is in the part is in it too.
<1>6. ASSUME NEW n \in 1..last, activePath[n] \in part \/ n = at
      PROVE  \A k \in Nat : n + 1 + k <= last => activePath[n + 1 + k] \in part
  <2> DEFINE T == {k \in Nat : n + 1 + k <= last => activePath[n + 1 + k] \in part}
  <2>1. 0 \in T
    <3> SUFFICES ASSUME n + 1 <= last PROVE activePath[n + 1] \in part
      BY <1>1
    <3>1. activePath[n + 1] \in DemandChildren(activePath[n])
      BY <1>1, <1>3
    <3> QED
      BY <3>1, <1>2, <1>4, <1>6 DEF Closed
  <2>2. ASSUME NEW k \in T PROVE k + 1 \in T
    <3>1. k \in Nat /\ (n + 1 + k <= last => activePath[n + 1 + k] \in part)
      OBVIOUS
    <3> SUFFICES ASSUME n + 1 + (k + 1) <= last PROVE activePath[n + 1 + (k + 1)] \in part
      BY <3>1
    <3>2. n + 1 + k \in 1..(last - 1) /\ n + 1 + (k + 1) = (n + 1 + k) + 1
      BY <1>1, <3>1
    <3>3. activePath[n + 1 + (k + 1)] \in DemandChildren(activePath[n + 1 + k])
      BY <1>3, <3>2
    <3>4. activePath[n + 1 + k] \in part
      BY <1>1, <3>1, <3>2
    <3> QED
      BY <3>3, <3>4, <1>4 DEF Closed
  <2> HIDE DEF T
  <2>3. T = Nat
    BY <2>1, <2>2, NumberInduction DEF T
  <2> QED
    BY <2>3 DEF T
<1>7. child \in part
  <2>1. CASE at = last
    BY <2>1, <1>1, <1>2, <1>4
  <2>2. CASE at < last
    <3>1. PICK k \in Nat : at + 1 + k = last
      <4>1. last - (at + 1) \in Nat /\ at + 1 + (last - (at + 1)) = last
        BY <2>2, <1>1, <1>5
      <4> QED
        BY <4>1
    <3>2. at + 1 + k <= last => activePath[at + 1 + k] \in part
      BY <1>6
    <3>3. activePath[last] \in part
      BY <3>1, <3>2, <1>1
    <3> QED
      BY <3>3, <1>1, <1>4 DEF Closed
  <2> QED
    BY <2>1, <2>2, <1>1, <1>5
<1>8. CASE start = at
  BY <1>2, <1>7, <1>8
<1>9. CASE start < at
  <2>1. start \in 1..last /\ at - (start + 1) \in Nat /\ start + 1 + (at - (start + 1)) = at
    BY <1>9, <1>1, <1>5
  <2>2. activePath[at] \in part
    BY <2>1, <1>2, <1>5, <1>6, <1>7
  <2> QED
    BY <2>2, <1>2
<1> QED
  BY <1>5, <1>8, <1>9

\* Nothing of the graph changes once it is built.
GraphKept == UNCHANGED <<retained, maxDepth, demandQuery>>

LEMMA GraphIsKept ==
  ASSUME GraphKept
  PROVE  /\ Nodes' = Nodes
         /\ \A node : DemandChildren(node)' = DemandChildren(node)
         /\ \A node : Beyond(node)' = Beyond(node)
<1>1. MatchingRows' = MatchingRows
  BY DEF GraphKept, MatchingRows, ConsideredRows, ExcludedDepthRows, MissingParentRows
<1>2. Nodes' = Nodes /\ Edges' = Edges
  BY <1>1 DEF GraphKept, Nodes, Edges
<1>3. \A node : DemandChildren(node)' = DemandChildren(node)
  BY <1>2 DEF DemandChildren
<1>4. \A node : Beyond(node)' = Beyond(node)
  BY <1>2, <1>3 DEF Beyond, Closed
<1> QED
  BY <1>2, <1>3, <1>4

\* A search starts with a path of one node, at which nothing was looked at yet.
LEMMA SearchFromKeeps ==
  ASSUME DemandInv, NEW node \in Nodes, SearchFrom(node)
  PROVE  DemandInv'
<1>1. /\ activePath = << >> /\ activePath' = <<node>> /\ node \notin searched
      /\ GraphKept /\ UNCHANGED <<searched, looked, cycles, tracing>> /\ tracing = "cycles"
  BY DEF SearchFrom, GraphKept
<1>2. /\ Nodes' = Nodes
      /\ \A u : DemandChildren(u)' = DemandChildren(u)
      /\ \A u : Beyond(u)' = Beyond(u)
  BY <1>1, GraphIsKept
<1>3. Len(activePath') = 1 /\ activePath'[1] = node
  BY <1>1
<1>4. PathInv'
  BY <1>1, <1>2, <1>3 DEF PathInv
<1>5. LookedInv'
  <2>1. Len(activePath) = 0
    BY <1>1
  <2> QED
    BY <1>1, <1>3, <2>1 DEF DemandInv, LookedInv
<1>6. SearchedInv'
  BY <1>1, <1>2 DEF DemandInv, SearchedInv
<1>7. CyclesInv'
  BY <1>1, <1>2 DEF DemandInv, CyclesInv
<1> QED
  BY <1>1, <1>4, <1>5, <1>6, <1>7 DEF DemandInv

LEMMA LookAtKeeps ==
  ASSUME DemandInv, NEW child \in Nodes, LookAt(child)
  PROVE  DemandInv'
<1> DEFINE last == Len(activePath)
           path == activePath
<1>1. /\ path # << >> /\ path \in Seq(Nodes) /\ last \in Nat \ {0} /\ Last(path) = path[last]
      /\ child \in DemandChildren(path[last])
      /\ looked' = looked \cup {<<path[last], child>>}
      /\ GraphKept /\ UNCHANGED <<searched, tracing>> /\ tracing = "cycles"
  BY EmptySeq DEF LookAt, GraphKept, Last, DemandInv, PathInv
<1>2. /\ Nodes' = Nodes
      /\ \A u : DemandChildren(u)' = DemandChildren(u)
      /\ \A u : Beyond(u)' = Beyond(u)
  BY <1>1, GraphIsKept
<1>3. CASE child \in ToSet(activePath)
  <2>1. cycles' = cycles \cup CycleClosedBy(child) /\ UNCHANGED activePath
    BY <1>3 DEF LookAt
  <2>2. path[last] \in cycles'
    <3>1. PICK start \in 1..last : path[start] = child
      BY <1>1, <1>3 DEF ToSet
    <3>2. start \in 1..last /\ last \in DOMAIN activePath
      BY <1>1
    <3> QED
      BY <2>1, <3>1, <3>2 DEF CycleClosedBy
  <2>3. PathInv'
    BY <1>1, <1>2, <2>1 DEF DemandInv, PathInv
  <2>4. LookedInv'
    BY <1>1, <2>1, <2>2 DEF DemandInv, LookedInv
  <2>5. SearchedInv'
    <3>1. searched \ cycles' \subseteq searched \ cycles
      BY <2>1
    <3> QED
      BY <1>1, <1>2, <3>1 DEF DemandInv, SearchedInv
  <2>6. CyclesInv'
    <3>1. \A node \in CycleClosedBy(child) : node \in Beyond(node)
      BY <1>1, ClosedCyclesAreCycles DEF DemandInv
    <3> QED
      BY <1>2, <2>1, <3>1 DEF DemandInv, CyclesInv
  <2> QED
    BY <1>1, <2>3, <2>4, <2>5, <2>6 DEF DemandInv
<1>4. CASE child \notin ToSet(activePath) /\ child \in searched
  <2>1. UNCHANGED <<cycles, activePath>>
    BY <1>4 DEF LookAt
  <2> QED
    BY <1>1, <1>2, <1>4, <2>1
       DEF DemandInv, PathInv, LookedInv, SearchedInv, CyclesInv
<1>5. CASE child \notin ToSet(activePath) /\ child \notin searched
  <2>1. cycles' = cycles /\ activePath' = Append(path, child)
    BY <1>5 DEF LookAt
  <2>2. /\ activePath' \in Seq(Nodes) /\ Len(activePath') = last + 1
        /\ \A n \in 1..last : activePath'[n] = path[n]
        /\ activePath'[last + 1] = child
    BY <1>1, <2>1, AppendProperties
  <2>3. \A n \in 1..last : path[n] # child
    BY <1>1, <1>5 DEF ToSet
  <2> HIDE DEF last, path
  <2>4. \A n \in 1..(last + 1) : n \in 1..last \/ n = last + 1
    BY <1>1
  <2>5. \A n \in 1..(last + 1 - 1) :
          \/ n \in 1..(last - 1) /\ n + 1 \in 1..last
          \/ n = last
    BY <1>1
  <2>6. PathInv'
    <3>1. \A n \in 1..(last + 1) : activePath'[n] \notin searched
      BY <2>2, <2>4, <1>5 DEF DemandInv, PathInv, last, path
    <3>2. \A n \in 1..(last + 1 - 1) :
            activePath'[n + 1] \in DemandChildren(activePath'[n])
      <4> SUFFICES ASSUME NEW n \in 1..(last + 1 - 1)
                   PROVE  activePath'[n + 1] \in DemandChildren(activePath'[n])
        OBVIOUS
      <4>1. CASE n \in 1..(last - 1) /\ n + 1 \in 1..last
        <5>1. n \in 1..last /\ activePath'[n] = path[n] /\ activePath'[n + 1] = path[n + 1]
          BY <1>1, <2>2, <4>1
        <5>2. path[n + 1] \in DemandChildren(path[n])
          BY <4>1 DEF DemandInv, PathInv, last, path
        <5> QED
          BY <5>1, <5>2
      <4>2. CASE n = last
        BY <4>2, <1>1, <2>2
      <4> QED
        BY <2>5, <4>1, <4>2
    <3>3. \A n, m \in 1..(last + 1) : activePath'[n] = activePath'[m] => n = m
      <4>1. \A n, m \in 1..last : path[n] = path[m] => n = m
        BY DEF DemandInv, PathInv, last, path
      <4> QED
        BY <4>1, <2>2, <2>3, <2>4
    <3> QED
      BY <1>1, <1>2, <2>2, <3>1, <3>2, <3>3 DEF PathInv
  <2>7. LookedInv'
    <3> SUFFICES ASSUME NEW u, NEW c, <<u, c>> \in looked', c \notin searched, u \notin cycles
                 PROVE  \E n \in 1..(last + 1 - 1) :
                          activePath'[n] = u /\ activePath'[n + 1] = c
      BY <1>1, <2>1, <2>2 DEF LookedInv
    <3>1. CASE <<u, c>> \in looked
      <4>1. PICK n \in 1..(last - 1) : path[n] = u /\ path[n + 1] = c
        BY <3>1 DEF DemandInv, LookedInv, last, path
      <4>2. n \in 1..last /\ n + 1 \in 1..last /\ n \in 1..(last + 1 - 1)
        BY <1>1
      <4> QED
        BY <4>1, <4>2, <2>2
    <3>2. CASE u = path[last] /\ c = child
      <4>1. last \in 1..(last + 1 - 1) /\ last \in 1..last
        BY <1>1
      <4> QED
        BY <3>2, <4>1, <2>2
    <3> QED
      BY <3>1, <3>2, <1>1
  <2>8. SearchedInv' /\ CyclesInv'
    BY <1>1, <1>2, <2>1 DEF DemandInv, SearchedInv, CyclesInv
  <2> QED
    BY <1>1, <2>6, <2>7, <2>8 DEF DemandInv
<1> QED
  BY <1>3, <1>4, <1>5


LEMMA LeaveKeeps ==
  ASSUME DemandInv, Leave
  PROVE  DemandInv'
<1> DEFINE last == Len(activePath)
           path == activePath
           left == path[last]
<1>1. /\ path # << >> /\ path \in Seq(Nodes) /\ last \in Nat \ {0} /\ Last(path) = left
      /\ \A child \in DemandChildren(left) : <<left, child>> \in looked
      /\ searched' = searched \cup {left} /\ activePath' = SubSeq(path, 1, last - 1)
      /\ GraphKept /\ UNCHANGED <<looked, cycles, tracing>> /\ tracing = "cycles"
  BY EmptySeq DEF Leave, GraphKept, Last, Front, DemandInv, PathInv
<1>2. /\ Nodes' = Nodes
      /\ \A u : DemandChildren(u)' = DemandChildren(u)
      /\ \A u : Beyond(u)' = Beyond(u)
  BY <1>1, GraphIsKept
<1>3. /\ activePath' \in Seq(Nodes) /\ Len(activePath') = last - 1
      /\ \A n \in 1..(last - 1) : activePath'[n] = path[n]
  <2>1. \A n \in 1..(last - 1) : path[n] \in Nodes
    BY <1>1
  <2>2. /\ SubSeq(path, 1, last - 1) \in Seq(Nodes)
        /\ Len(SubSeq(path, 1, last - 1)) = IF 1 <= last - 1 THEN (last - 1) - 1 + 1 ELSE 0
        /\ \A i \in 1..(last - 1) - 1 + 1 : SubSeq(path, 1, last - 1)[i] = path[1 + i - 1]
    BY <1>1, <2>1, SubSeqProperties
  <2> HIDE DEF last, path
  <2>3. \A i \in 1..(last - 1) : i \in 1..(last - 1) - 1 + 1 /\ 1 + i - 1 = i
    BY <1>1
  <2>4. (IF 1 <= last - 1 THEN (last - 1) - 1 + 1 ELSE 0) = last - 1
    BY <1>1
  <2> QED
    BY <1>1, <2>2, <2>3, <2>4
<1>4. /\ \A n \in 1..last : path[n] \notin searched
      /\ \A n \in 1..(last - 1) : path[n + 1] \in DemandChildren(path[n])
      /\ \A n, m \in 1..last : path[n] = path[m] => n = m
      /\ left \in Nodes
  BY <1>1 DEF DemandInv, PathInv
<1> HIDE DEF last, path
<1>5. /\ last \in 1..last /\ \A n \in 1..(last - 1) : n \in 1..last /\ n + 1 \in 1..last /\ n # last
      /\ \A n \in 1..(last - 1 - 1) : n \in 1..(last - 1) /\ n + 1 \in 1..(last - 1)
      /\ \A n \in 1..(last - 1) : n \in 1..(last - 1 - 1) \/ n + 1 = last
  BY <1>1
<1>6. left \in Nodes /\ left \notin searched
  BY <1>1, <1>4, <1>5
<1>7. PathInv'
  <2>1. \A n \in 1..(last - 1) : activePath'[n] \notin searched'
    BY <1>1, <1>3, <1>4, <1>5
  <2>2. \A n \in 1..(last - 1 - 1) : activePath'[n + 1] \in DemandChildren(activePath'[n])
    BY <1>3, <1>4, <1>5
  <2>3. \A n, m \in 1..(last - 1) : activePath'[n] = activePath'[m] => n = m
    BY <1>3, <1>4, <1>5
  <2> QED
    BY <1>2, <1>3, <2>1, <2>2, <2>3 DEF PathInv
<1>8. LookedInv'
  <2> SUFFICES ASSUME NEW u, NEW c, <<u, c>> \in looked, c \notin searched', u \notin cycles
               PROVE  \E n \in 1..(last - 1 - 1) :
                        activePath'[n] = u /\ activePath'[n + 1] = c
    BY <1>1, <1>3 DEF LookedInv
  <2>1. c \notin searched /\ c # left
    BY <1>1
  <2>2. PICK n \in 1..(last - 1) : path[n] = u /\ path[n + 1] = c
    BY <2>1 DEF DemandInv, LookedInv, last, path
  <2>3. n \in 1..(last - 1 - 1)
    BY <1>5, <2>1, <2>2
  <2> QED
    BY <1>3, <1>5, <2>2, <2>3
\* The children of what is left are left already, unless a cycle was flagged.
<1>9. left \notin cycles => DemandChildren(left) \subseteq searched
  <2> SUFFICES ASSUME left \notin cycles, NEW c \in DemandChildren(left), c \notin searched
               PROVE  FALSE
    OBVIOUS
  <2>1. <<left, c>> \in looked
    BY <1>1
  <2>2. PICK n \in 1..(last - 1) : path[n] = left /\ path[n + 1] = c
    BY <2>1 DEF DemandInv, LookedInv, last, path
  <2> QED
    BY <2>2, <1>4, <1>5
<1>10. SearchedInv'
  <2>1. /\ searched \subseteq Nodes
        /\ \A u \in searched \ cycles : DemandChildren(u) \subseteq searched
        /\ \A part \in SUBSET (searched \ cycles) :
             part # {} => \E node \in part : DemandChildren(node) \cap part = {}
    BY DEF DemandInv, SearchedInv
  <2>2. \A u \in searched' \ cycles : DemandChildren(u) \subseteq searched'
    BY <2>1, <1>1, <1>9
  <2>3. ASSUME NEW part \in SUBSET (searched' \ cycles), part # {}
        PROVE  \E node \in part : DemandChildren(node) \cap part = {}
    <3> DEFINE others == part \ {left}
    <3>1. others \in SUBSET (searched \ cycles)
      BY <1>1
    <3>2. CASE others # {}
      <4>1. PICK node \in others : DemandChildren(node) \cap others = {}
        BY <3>1, <3>2, <2>1
      <4>2. left \notin DemandChildren(node)
        BY <3>1, <4>1, <2>1, <1>6
      <4> QED
        BY <4>1, <4>2
    <3>3. CASE others = {}
      <4>1. part = {left} /\ left \notin cycles
        BY <3>3, <2>3
      <4> QED
        BY <4>1, <1>6, <1>9
    <3> QED
      BY <3>2, <3>3
  <2> QED
    BY <1>1, <1>2, <1>6, <2>1, <2>2, <2>3 DEF SearchedInv
<1>11. CyclesInv'
  BY <1>1, <1>2 DEF DemandInv, CyclesInv
<1> QED
  BY <1>1, <1>7, <1>8, <1>10, <1>11 DEF DemandInv

\* Once the search is over, nothing that was found changes.
LEMMA TracingKeeps ==
  ASSUME DemandInv, GraphKept, UNCHANGED <<activePath, searched, looked, cycles>>,
         tracing # "idle" /\ tracing' # "idle",
         tracing \notin {"tracing", "traced"} => searched = Nodes
  PROVE  DemandInv'
<1>1. /\ Nodes' = Nodes
      /\ \A u : DemandChildren(u)' = DemandChildren(u)
      /\ \A u : Beyond(u)' = Beyond(u)
  BY GraphIsKept
<1>2. PathInv' /\ LookedInv'
  BY <1>1 DEF DemandInv, PathInv, LookedInv
<1>3. SearchedInv' /\ CyclesInv'
  BY <1>1 DEF DemandInv, SearchedInv, CyclesInv
<1> QED
  BY <1>1, <1>2, <1>3 DEF DemandInv

LEMMA BuildingKeeps ==
  ASSUME DemandInv, NEW rows, NEW depth, NEW query,
         BuildLatentDemandTraversal(rows, depth, query)
  PROVE  DemandInv'
<1>1. /\ activePath' = << >> /\ searched' = {} /\ looked' = {} /\ cycles' = {}
      /\ tracing' = "cycles"
  BY DEF BuildLatentDemandTraversal, DemandInv
<1> QED
  BY <1>1 DEF DemandInv, PathInv, LookedInv, SearchedInv, CyclesInv

LEMMA DemandInvariant == DemandSpec => []DemandInv
<1>1. DemandInit => DemandInv
  BY DEF DemandInit, DemandInv, PathInv, LookedInv, SearchedInv, CyclesInv
<1>2. DemandInv /\ [DemandNext]_demandVars => DemandInv'
  <2> SUFFICES ASSUME DemandInv, [DemandNext]_demandVars PROVE DemandInv'
    OBVIOUS
  <2>1. ASSUME NEW rows, NEW depth, NEW query, BuildLatentDemandTraversal(rows, depth, query)
        PROVE  DemandInv'
    BY <2>1, BuildingKeeps
  <2>2. ASSUME NEW node \in Nodes, SearchFrom(node) \/ LookAt(node)
        PROVE  DemandInv'
    BY <2>2, SearchFromKeeps, LookAtKeeps
  <2>3. CASE Leave
    BY <2>3, LeaveKeeps
  <2>4. ASSUME NEW mode, BeginTrace(mode)
        PROVE  DemandInv'
    BY <2>4, TracingKeeps DEF BeginTrace, GraphKept
  <2>5. CASE Visit
    BY <2>5, TracingKeeps DEF Visit, GraphKept
  <2>6. ASSUME NEW node, AddComponent(node)
        PROVE  DemandInv'
    BY <2>6, TracingKeeps DEF AddComponent, GraphKept
  <2>7. CASE FinishTraversal
    BY <2>7, TracingKeeps DEF FinishTraversal, GraphKept
  <2>8. CASE UNCHANGED demandVars
    <3>1. GraphKept
      BY <2>8 DEF demandVars, GraphKept
    <3>2. /\ Nodes' = Nodes
          /\ \A u : DemandChildren(u)' = DemandChildren(u)
          /\ \A u : Beyond(u)' = Beyond(u)
      BY <3>1, GraphIsKept
    <3> QED
      BY <3>2, <2>8 DEF demandVars, DemandInv, PathInv, LookedInv, SearchedInv, CyclesInv
  <2> QED
    BY <2>1, <2>2, <2>3, <2>4, <2>5, <2>6, <2>7, <2>8 DEF DemandNext
<1> QED
  BY <1>1, <1>2, PTL DEF DemandSpec

\* Whatever the rows: a node flagged for a cycle is on one, and the nodes shown
\* as observed paths have no cycle among themselves, although a node that was
\* left is never looked into again (cycleNodes).
THEOREM CyclesAreReviewed == DemandSpec => []NoCycleIsUnreviewed
<1>1. DemandInv => NoCycleIsUnreviewed
  <2> SUFFICES ASSUME DemandInv, tracing \in {"tracing", "traced"},
                      NEW part \in SUBSET {node \in Nodes : ReviewState(node) = "observed_path"},
                      part # {}
               PROVE  \E node \in part : DemandChildren(node) \cap part = {}
    BY DEF NoCycleIsUnreviewed, DemandInv, CyclesInv
  <2>1. part \in SUBSET (searched \ cycles)
    BY DEF DemandInv, ReviewState
  <2> QED
    BY <2>1 DEF DemandInv, SearchedInv
<1> QED
  BY <1>1, DemandInvariant, PTL

-----------------------------------------------------------------------------
(* What the two strategies show.                                             *)
(*                                                                           *)
(* Every item that waits is led to by nodes shown before, so a trace covers what *)
(* was visited and its paths are shown node by node.  Where depth tells nothing, *)
(* all demands hang on the seed: they are pushed together, in order or reversed, *)
(* and taken from the other end.                                             *)

\* A path along retained edges, with the depth of its last node.
ShownItems ==
  {item \in [node : Nodes, depth : 0..maxDepth, path : Seq(Nodes)] :
     /\ item.path # << >>
     /\ item.node = item.path[Len(item.path)]
     /\ item.depth = NodeDepth(item.path[1]) + Len(item.path) - 1
     /\ \A m \in 1..(Len(item.path) - 1) : item.path[m + 1] \in DemandChildren(item.path[m])}

\* Every node of the path but the last was shown, at the end of the path so far.
LedTo(item, trace, last) ==
  \A m \in 1..(Len(item.path) - 1) :
    \E shown \in 1..last : trace[shown].path = SubSeq(item.path, 1, m)

SoundTrace(trace) ==
  /\ trace \in Seq(ShownItems)
  /\ \A n \in 1..Len(trace) : LedTo(trace[n], trace, n - 1)
  /\ \A n, m \in 1..Len(trace) : trace[n].node = trace[m].node => n = m

Covered(trace) == {trace[n].node : n \in DOMAIN trace}

\* All edges lead from the seed, no two to one demand.
IsStar ==
  /\ ObservedMaxDepth < 2
  /\ \A edge, other \in Edges : edge.child = other.child => edge = other

\* The seed and the first k of its demands.
StarOrder(trace, k) ==
  /\ Len(trace) = k + 1
  /\ trace[1].node = Seed
  /\ \A n \in 1..k : trace[n + 1].node = Adjacency(Seed)[n].child

WholeTrace(trace) ==
  /\ SoundTrace(trace)
  /\ Covered(trace) = Nodes
  /\ IsStar /\ Nodes # {} => StarOrder(trace, Len(Adjacency(Seed)))

\* The rest of the demands waits, depth first with the last one in front.
StarWaits(k) ==
  LET size == Len(Adjacency(Seed)) IN
  /\ Len(pending) = size - k
  /\ \A n \in 1..(size - k) :
       pending[n].node = IF strategy = "depth_first" THEN Adjacency(Seed)[size + 1 - n].child
                                                     ELSE Adjacency(Seed)[k + n].child

StarInv ==
  IsStar /\ Nodes # {} =>
    \/ traces[strategy] = << >> /\ pending = <<Start(Seed)>> /\ scheduled = {Seed}
    \/ \E k \in 0..Len(Adjacency(Seed)) : StarOrder(traces[strategy], k) /\ StarWaits(k)

WaitingInv ==
  /\ SoundTrace(traces[strategy])
  /\ visited = Covered(traces[strategy])
  /\ pending \in Seq(ShownItems)
  /\ \A n \in 1..Len(pending) : LedTo(pending[n], traces[strategy], Len(traces[strategy]))

RetainedInv ==
  /\ retained = << >> \/ retained \in RetainedLists
  /\ maxDepth \in 1..2
  /\ strategy \in Strategies
  /\ traces \in [Strategies -> Seq(ShownItems)]

TraceInv ==
  /\ RetainedInv
  /\ tracing \in {"idle", "cycles"} => \A mode \in Strategies : traces[mode] = << >>
  /\ tracing = "tracing" =>
       /\ WaitingInv /\ StarInv
       /\ strategy = "breadth_first" => traces["depth_first"] = << >>
       /\ strategy = "depth_first" => WholeTrace(traces["breadth_first"])
  /\ tracing = "traced" => \A mode \in Strategies : WholeTrace(traces[mode])

-----------------------------------------------------------------------------
(* The graph: depths, and the orders of roots and edges                    *)

LEMMA LeastIsTaken ==
  ASSUME NEW S \in SUBSET Nat, S # {}
  PROVE  Min(S) \in S /\ \A x \in S : Min(S) <= x
BY LeastNumber DEF Min

LEMMA RowsAreRead ==
  ASSUME RetainedInv
  PROVE  /\ IsFiniteSet(MatchingRows) /\ MatchingRows \subseteq Nat
         /\ \A n \in MatchingRows :
              /\ retained[n].recursionDepth \in 1..maxDepth
              /\ retained[n].value \in Nat /\ retained[n].parent \in Nat
<1>1. PICK size \in Nat : DOMAIN retained = 1..size
  <2>1. CASE retained = << >>
    <3>1. DOMAIN retained = 1..0
      BY <2>1
    <3> QED
      BY <3>1
  <2>2. CASE retained \in RetainedLists
    <3>1. retained \in Seq({retained[n] : n \in DOMAIN retained})
      BY <2>2, DemandAssumption
    <3>2. Len(retained) \in Nat /\ DOMAIN retained = 1..Len(retained)
      BY <3>1, LenProperties
    <3> QED
      BY <3>2
  <2> QED
    BY <2>1, <2>2 DEF RetainedInv
<1>2. MatchingRows \subseteq 1..size
  BY <1>1 DEF MatchingRows, ConsideredRows
<1>3. IsFiniteSet(MatchingRows)
  <2>1. IsFiniteSet(1..size)
    BY FS_Interval
  <2> HIDE DEF MatchingRows
  <2> QED
    BY <1>2, <2>1, FS_Subset
<1>4. ASSUME NEW n \in MatchingRows
      PROVE  /\ retained[n].recursionDepth \in 1..maxDepth
             /\ retained[n].value \in Nat /\ retained[n].parent \in Nat
  <2>1. n \in DOMAIN retained /\ retained # << >>
    BY DEF MatchingRows, ConsideredRows
  <2>2. /\ retained[n].recursionDepth \in Nat \ {0}
        /\ {retained[n].value, retained[n].parent} \subseteq Nat \cup {NoValue}
    BY <2>1, DemandAssumption DEF RetainedInv
  <2>3. n \in ConsideredRows /\ n \notin ExcludedDepthRows /\ n \notin MissingParentRows
    BY DEF MatchingRows
  <2>4. ~(retained[n].recursionDepth > maxDepth) /\ NoValue \notin {retained[n].value, retained[n].parent}
    BY <2>3 DEF ExcludedDepthRows, MissingParentRows
  <2>5. maxDepth \in Nat
    BY DEF RetainedInv
  <2> QED
    BY <2>2, <2>4, <2>5
<1> QED
  BY <1>2, <1>3, <1>4

LEMMA NodesHaveDepths ==
  ASSUME RetainedInv, NEW node \in Nodes
  PROVE  NodeDepth(node) \in 0..maxDepth /\ (node = Seed => NodeDepth(node) = 0)
<1> DEFINE asChild == {retained[n].recursionDepth :
                         n \in {m \in MatchingRows : ChildNode(retained[m]) = node}}
           asParent == {IF node = Seed THEN 0 ELSE retained[n].recursionDepth - 1 :
                          n \in {m \in MatchingRows : ParentNode(retained[m]) = node}}
<1>1. PICK row \in MatchingRows : node \in {ParentNode(retained[row]), ChildNode(retained[row])}
  BY DEF Nodes
<1>2. asChild \cup asParent # {}
  BY <1>1
<1>3. maxDepth \in Nat
  BY DEF RetainedInv
<1>4. asChild \subseteq 0..maxDepth /\ asParent \subseteq 0..maxDepth
  BY RowsAreRead, <1>3
<1>5. node = Seed => 0 \in asParent
  BY <1>1 DEF Seed, ChildNode, Demand
<1>6. NodeDepth(node) = Min(asChild \cup asParent)
  BY DEF NodeDepth
<1> HIDE DEF asChild, asParent
<1>7. /\ asChild \cup asParent \in SUBSET Nat
      /\ NodeDepth(node) \in asChild \cup asParent
      /\ \A x \in asChild \cup asParent : NodeDepth(node) <= x
  BY <1>2, <1>3, <1>4, <1>6, LeastIsTaken
<1>8. NodeDepth(node) \in 0..maxDepth
  BY <1>4, <1>7
<1>9. node = Seed => NodeDepth(node) <= 0
  BY <1>5, <1>7
<1> QED
  BY <1>3, <1>8, <1>9

LEMMA EdgesHaveOrders ==
  ASSUME RetainedInv, NEW edge \in Edges
  PROVE  /\ FirstOrderOfEdge(edge) \in Nat
         /\ FirstOrderOfEdge(edge) \in MatchingRows
         /\ LET row == retained[FirstOrderOfEdge(edge)] IN
              edge = [parent |-> ParentNode(row), child |-> ChildNode(row), type |-> row.type]
<1> DEFINE rows == {n \in MatchingRows : /\ ParentNode(retained[n]) = edge.parent
                                         /\ ChildNode(retained[n]) = edge.child
                                         /\ retained[n].type = edge.type}
<1>1. PICK n \in MatchingRows : edge = [parent |-> ParentNode(retained[n]),
                                        child |-> ChildNode(retained[n]),
                                        type |-> retained[n].type]
  BY DEF Edges
<1>2. n \in rows
  BY <1>1
<1>3. rows \in SUBSET Nat
  BY RowsAreRead
<1>4. FirstOrderOfEdge(edge) = Min(rows)
  BY DEF FirstOrderOfEdge
<1>5. FirstOrderOfEdge(edge) \in rows
  <2> HIDE DEF rows
  <2> QED
    BY <1>2, <1>3, <1>4, LeastIsTaken
<1> QED
  BY <1>1, <1>3, <1>5

LEMMA EdgesAreFinite ==
  ASSUME RetainedInv
  PROVE  IsFiniteSet(Edges) /\ IsFiniteSet(Nodes)
<1> DEFINE edgeOf == [n \in MatchingRows |-> [parent |-> ParentNode(retained[n]),
                                              child |-> ChildNode(retained[n]),
                                              type |-> retained[n].type]]
           endsOf == [n \in MatchingRows |-> {ParentNode(retained[n]), ChildNode(retained[n])}]
<1>1. Edges = {edgeOf[n] : n \in MatchingRows}
  BY DEF Edges
<1>2. Nodes = UNION {endsOf[n] : n \in MatchingRows}
  BY DEF Nodes
<1>3. \A n \in MatchingRows : IsFiniteSet(endsOf[n])
  BY PairIsFinite
<1> HIDE DEF edgeOf, endsOf
<1> QED
  BY <1>1, <1>2, <1>3, RowsAreRead, ImageIsFinite, UnionOfImagesIsFinite

\* The edges of a node in their order: all of them, each once.
LEMMA AdjacencyIsInOrder ==
  ASSUME RetainedInv, NEW node
  PROVE  /\ Adjacency(node) \in Seq(EdgesFrom(node))
         /\ \A edge \in EdgesFrom(node) : \E n \in DOMAIN Adjacency(node) : Adjacency(node)[n] = edge
         /\ \A n, m \in DOMAIN Adjacency(node) :
              Adjacency(node)[n] = Adjacency(node)[m] => n = m
<1> DEFINE S == EdgesFrom(node)
           R == {pair \in S \X S : FirstOrderOfEdge(pair[1]) < FirstOrderOfEdge(pair[2])}
           before == RanksUnder(R, S)
<1>1. IsFiniteSet(S)
  <2>1. S \subseteq Edges
    BY DEF EdgesFrom
  <2> HIDE DEF S
  <2> QED
    BY <2>1, EdgesAreFinite, FS_Subset
<1>2. \A edge \in S : FirstOrderOfEdge(edge) \in Nat
  BY EdgesHaveOrders DEF EdgesFrom
<1>3. \A edge, other \in S : FirstOrderOfEdge(edge) = FirstOrderOfEdge(other) => edge = other
  BY EdgesHaveOrders DEF EdgesFrom
<1>4. \A edge, other \in S : <<edge, other>> \in R <=> FirstOrderOfEdge(edge) < FirstOrderOfEdge(other)
  OBVIOUS
<1> HIDE DEF S
<1>5. before = [edge \in S |-> Cardinality({other \in S : FirstOrderOfEdge(other) < FirstOrderOfEdge(edge)})]
  <2>1. \A edge \in S : {other \in S : <<other, edge>> \in R}
                          = {other \in S : FirstOrderOfEdge(other) < FirstOrderOfEdge(edge)}
    BY <1>4
  <2> HIDE DEF R
  <2> QED
    BY <2>1 DEF RanksUnder
<1> HIDE DEF R
<1>6. TotallyOrders(R, S)
  BY <1>2, <1>3, <1>4 DEF TotallyOrders
<1>7. Adjacency(node) = InOrder(before)
  BY <1>5 DEF Adjacency, S
<1> HIDE DEF before
<1>8. before = RanksUnder(R, S)
  BY DEF before
<1>9. /\ Adjacency(node) \in Seq(S)
      /\ \A edge \in S : \E n \in DOMAIN Adjacency(node) : Adjacency(node)[n] = edge
      /\ \A n \in DOMAIN Adjacency(node) : before[Adjacency(node)[n]] = n - 1
  BY <1>1, <1>6, <1>7, <1>8, ElementsInOrder
<1>10. \A n, m \in DOMAIN Adjacency(node) : Adjacency(node)[n] = Adjacency(node)[m] => n = m
  <2>1. DOMAIN Adjacency(node) \subseteq Nat
    BY <1>9, LenProperties
  <2> SUFFICES ASSUME NEW n \in DOMAIN Adjacency(node), NEW m \in DOMAIN Adjacency(node),
                      Adjacency(node)[n] = Adjacency(node)[m]
               PROVE  n = m
    OBVIOUS
  <2>2. n - 1 = m - 1
    BY <1>9
  <2> QED
    BY <2>1, <2>2
<1> QED
  BY <1>9, <1>10 DEF S

LEMMA RootsAreNodes ==
  ASSUME RetainedInv
  PROVE  Roots \in Seq(RootNodes) /\ Len(Roots) = Cardinality(RootNodes)
<1> DEFINE S == RootNodes
           R == {pair \in S \X S : ComesFirst(pair[1], pair[2])}
           before == RanksUnder(R, S)
<1>1. IsFiniteSet(S)
  <2>1. S \subseteq Nodes
    BY DEF RootNodes
  <2> HIDE DEF S
  <2> QED
    BY <2>1, EdgesAreFinite, FS_Subset
<1>2. ASSUME NEW node \in S
      PROVE  /\ FirstOrder(node) \in Nat /\ node.value \in Nat
             /\ node = ParentNode(retained[FirstOrder(node)])
  <2> DEFINE rows == {n \in MatchingRows : node \in {ParentNode(retained[n]), ChildNode(retained[n])}}
  <2>1. rows \in SUBSET Nat
    BY RowsAreRead
  <2>2. rows # {}
    BY DEF RootNodes, Nodes
  <2>3. FirstOrder(node) = Min(rows)
    BY DEF FirstOrder
  <2>4. FirstOrder(node) \in rows
    <3> HIDE DEF rows
    <3> QED
      BY <2>1, <2>2, <2>3, LeastIsTaken
  <2>5. PICK n \in MatchingRows : /\ n = FirstOrder(node)
                                  /\ node \in {ParentNode(retained[n]), ChildNode(retained[n])}
    BY <2>4
  <2>6. node # ChildNode(retained[n])
    <3>1. DemandParents(node) = {}
      BY DEF RootNodes
    <3>2. [parent |-> ParentNode(retained[n]), child |-> ChildNode(retained[n]),
           type |-> retained[n].type] \in Edges
      BY <2>5 DEF Edges
    <3> QED
      BY <3>1, <3>2 DEF DemandParents
  <2>7. node = ParentNode(retained[n])
    BY <2>5, <2>6
  <2>8. node.value \in Nat
    BY <2>5, <2>7, RowsAreRead DEF ParentNode, Demand, Seed
  <2> QED
    BY <2>1, <2>4, <2>5, <2>7, <2>8
<1>3. \A node, other \in S : <<node, other>> \in R <=> ComesFirst(node, other)
  OBVIOUS
<1> HIDE DEF S
<1>4. before = [node \in S |-> Cardinality({other \in S : ComesFirst(other, node)})]
  <2>1. \A node \in S : {other \in S : <<other, node>> \in R} = {other \in S : ComesFirst(other, node)}
    BY <1>3
  <2> HIDE DEF R
  <2> QED
    BY <2>1 DEF RanksUnder
<1> HIDE DEF R
<1>5. TotallyOrders(R, S)
  BY <1>2, <1>3 DEF TotallyOrders, ComesFirst
<1>6. Roots = InOrder(before)
  BY <1>4 DEF Roots, S
<1> HIDE DEF before
<1>7. before = RanksUnder(R, S)
  BY DEF before
<1> QED
  BY <1>1, <1>5, <1>6, <1>7, ElementsInOrder DEF S

-----------------------------------------------------------------------------
(* What is pushed                                                          *)

IsPushOrder(before, first) ==
  before = [n \in first |-> Cardinality({m \in first : PushedBefore(m, n)})]

LEMMA PushedInOrder ==
  ASSUME NEW first \in SUBSET Nat, IsFiniteSet(first),
         NEW before, IsPushOrder(before, first)
  PROVE  /\ InOrder(before) \in Seq(first) /\ Len(InOrder(before)) = Cardinality(first)
         /\ \A n \in DOMAIN InOrder(before) : before[InOrder(before)[n]] = n - 1
<1> DEFINE R == {pair \in first \X first : PushedBefore(pair[1], pair[2])}
<1>1. \A m, n \in first : <<m, n>> \in R <=> PushedBefore(m, n)
  OBVIOUS
<1>2. TotallyOrders(R, first)
  BY <1>1 DEF TotallyOrders, PushedBefore
<1>3. before = RanksUnder(R, first)
  <2>1. \A n \in first : {m \in first : <<m, n>> \in R} = {m \in first : PushedBefore(m, n)}
    BY <1>1
  <2> HIDE DEF R
  <2> QED
    BY <2>1 DEF RanksUnder, IsPushOrder
<1> HIDE DEF R
<1>4. PICK order : order = InOrder(before)
  OBVIOUS
<1>5. /\ order \in Seq(first) /\ Len(order) = Cardinality(first)
      /\ \A n \in DOMAIN order : before[order[n]] = n - 1
  BY <1>2, <1>3, <1>4, ElementsInOrder
<1> QED
  BY <1>4, <1>5

ItemAfter(item, child) == Item(child, item.depth + 1, Append(item.path, child))

LEMMA NewItemsFollow ==
  ASSUME RetainedInv, NEW item
  PROVE  /\ NewItems(item) \in Seq({ItemAfter(item, child) : child \in DemandChildren(item.node)})
         /\ item.depth >= maxDepth => NewItems(item) = << >>
<1> DEFINE edges == Adjacency(item.node)
           first == {n \in DOMAIN edges :
                       /\ edges[n].child \notin scheduled
                       /\ \A m \in DOMAIN edges :
                            PushedBefore(m, n) => edges[m].child # edges[n].child}
           before == [n \in first |-> Cardinality({m \in first : PushedBefore(m, n)})]
           kept == InOrder(before)
           I == {ItemAfter(item, child) : child \in DemandChildren(item.node)}
<1>1. NewItems(item) = IF item.depth >= maxDepth THEN << >>
                       ELSE [n \in DOMAIN kept |-> ItemAfter(item, edges[kept[n]].child)]
  BY DEF NewItems, ItemAfter
<1>2. edges \in Seq(EdgesFrom(item.node))
  BY AdjacencyIsInOrder
<1> HIDE DEF edges
<1>3. Len(edges) \in Nat /\ DOMAIN edges = 1..Len(edges) /\ \A n \in DOMAIN edges : edges[n] \in EdgesFrom(item.node)
  BY <1>2, LenProperties
<1>4. first \in SUBSET Nat /\ IsFiniteSet(first) /\ first \subseteq DOMAIN edges
  <2>1. first \subseteq 1..Len(edges) /\ IsFiniteSet(1..Len(edges))
    BY <1>3, FS_Interval
  <2> HIDE DEF first
  <2>2. IsFiniteSet(first)
    BY <2>1, FS_Subset
  <2>3. first \subseteq Nat
    BY <2>1, <1>3
  <2> QED
    BY <2>1, <2>2, <2>3, <1>3
<1> HIDE DEF first
<1>5. kept \in Seq(first)
  <2>1. IsPushOrder(before, first)
    BY DEF IsPushOrder
  <2> HIDE DEF before
  <2> QED
    BY <2>1, <1>4, PushedInOrder
<1> HIDE DEF kept
<1>6. PICK size \in Nat : size = Len(kept) /\ DOMAIN kept = 1..size /\ \A n \in 1..size : kept[n] \in first
  BY <1>5, LenProperties
<1>7. \A n \in 1..size : edges[kept[n]].child \in DemandChildren(item.node)
  BY <1>3, <1>4, <1>6 DEF EdgesFrom, DemandChildren
<1>8. [n \in 1..size |-> ItemAfter(item, edges[kept[n]].child)] \in [1..size -> I]
  BY <1>7
<1> HIDE DEF I
<1>9. [n \in 1..size |-> ItemAfter(item, edges[kept[n]].child)] \in Seq(I)
  BY <1>8
<1>10. << >> \in Seq(I)
  BY EmptySeq
<1> QED
  BY <1>1, <1>6, <1>9, <1>10 DEF I

LEMMA LedLonger ==
  ASSUME NEW item, NEW S, NEW trace \in Seq(S), NEW e \in S, NEW last \in 0..Len(trace),
         LedTo(item, trace, last)
  PROVE  /\ LedTo(item, Append(trace, e), last)
         /\ LedTo(item, Append(trace, e), Len(trace) + 1)
<1>1. PICK size \in Nat : size = Len(trace)
  BY LenProperties
<1>2. \A n \in 1..size : Append(trace, e)[n] = trace[n]
  BY <1>1, AppendProperties
<1>3. ASSUME NEW m \in 1..(Len(item.path) - 1)
      PROVE  \E shown \in 1..last : Append(trace, e)[shown].path = SubSeq(item.path, 1, m)
  <2>1. PICK shown \in 1..last : trace[shown].path = SubSeq(item.path, 1, m)
    BY DEF LedTo
  <2>2. shown \in 1..size
    BY <1>1
  <2> QED
    BY <2>1, <2>2, <1>2
<1>4. 1..last \subseteq 1..(Len(trace) + 1)
  BY <1>1
<1> QED
  BY <1>3, <1>4 DEF LedTo

\* A child of an item that is shown can be shown, by the path of the item.
LEMMA ShownGoesOn ==
  ASSUME RetainedInv, NEW item \in ShownItems, ~(item.depth >= maxDepth),
         NEW child \in DemandChildren(item.node), NEW trace \in Seq(ShownItems),
         LedTo(item, trace, Len(trace))
  PROVE  /\ ItemAfter(item, child) \in ShownItems
         /\ LedTo(ItemAfter(item, child), Append(trace, item), Len(trace) + 1)
<1> DEFINE next == ItemAfter(item, child)
<1>1. /\ item.path \in Seq(Nodes) /\ item.path # << >>
      /\ item.node = item.path[Len(item.path)] /\ item.depth \in 0..maxDepth
      /\ item.depth = NodeDepth(item.path[1]) + Len(item.path) - 1
      /\ \A m \in 1..(Len(item.path) - 1) : item.path[m + 1] \in DemandChildren(item.path[m])
  BY DEF ShownItems
<1>2. PICK size \in Nat : size = Len(item.path) /\ size # 0
  BY <1>1, EmptySeq
<1>3. child \in Nodes
  BY ChildrenAreNodes
<1>4. /\ next.node = child /\ next.depth = item.depth + 1 /\ next.path = Append(item.path, child)
      /\ next = [node |-> next.node, depth |-> next.depth, path |-> next.path]
  BY DEF ItemAfter, Item
<1> HIDE DEF next
<1>5. /\ next.path \in Seq(Nodes) /\ next.path # << >> /\ Len(next.path) = size + 1
      /\ \A n \in 1..size : next.path[n] = item.path[n]
      /\ next.path[size + 1] = child
  BY <1>1, <1>2, <1>3, <1>4, AppendProperties
<1>6. maxDepth \in Nat
  BY DEF RetainedInv
<1>7. 1 \in 1..size /\ size \in 1..size
  BY <1>2
<1>8. next.depth \in 0..maxDepth
  BY <1>1, <1>4, <1>6
<1>9. next.path[1] = item.path[1] /\ item.path[1] \in Nodes
  BY <1>1, <1>2, <1>5, <1>7, ElementOfSeq
<1>10. next.depth = NodeDepth(next.path[1]) + Len(next.path) - 1
  <2>1. NodeDepth(item.path[1]) \in Nat
    BY <1>9, <1>6, NodesHaveDepths
  <2> QED
    BY <2>1, <1>1, <1>2, <1>4, <1>5, <1>9
<1>11. \A m \in 1..(Len(next.path) - 1) : next.path[m + 1] \in DemandChildren(next.path[m])
  <2> SUFFICES ASSUME NEW m \in 1..size PROVE next.path[m + 1] \in DemandChildren(next.path[m])
    BY <1>2, <1>5
  <2>1. CASE m = size
    BY <2>1, <1>1, <1>2, <1>5, <1>7
  <2>2. CASE m # size
    <3>1. m \in 1..(size - 1) /\ m + 1 \in 1..size /\ m \in 1..size
      BY <2>2, <1>2
    <3> QED
      BY <3>1, <1>1, <1>2, <1>5
  <2> QED
    BY <2>1, <2>2
<1>12. next \in ShownItems
  BY <1>3, <1>4, <1>5, <1>8, <1>10, <1>11 DEF ShownItems
<1>13. LedTo(next, Append(trace, item), Len(trace) + 1)
  <2>1. PICK last \in Nat : last = Len(trace)
    BY LenProperties
  <2>2. Append(trace, item)[last + 1] = item
    BY <2>1, AppendProperties
  <2>3. LedTo(item, Append(trace, item), last + 1)
    <3>1. last \in 0..Len(trace)
      BY <2>1
    <3> QED
      BY <2>1, <3>1, LedLonger
  <2>7. Len(next.path) - 1 = size
    BY <1>2, <1>5
  <2> SUFFICES ASSUME NEW m \in 1..size
               PROVE  \E shown \in 1..(last + 1) : Append(trace, item)[shown].path = SubSeq(next.path, 1, m)
    BY <2>1, <2>7 DEF LedTo
  <2>4. SubSeq(next.path, 1, m) = SubSeq(item.path, 1, m)
    <3>1. next.path = item.path \o <<child>>
      BY <1>1, <1>3, <1>4, AppendIsConcat
    <3>2. 1 \in 1..Len(item.path) /\ m \in 1..Len(item.path) /\ <<child>> \in Seq(Nodes)
      BY <1>2, <1>3, <1>7
    <3> QED
      BY <1>1, <3>1, <3>2, SubSeqOfConcat1
  <2>5. CASE m = size
    <3>1. SubSeq(item.path, 1, m) = item.path
      BY <1>1, <1>2, <2>5, SubSeqFull
    <3>2. last + 1 \in 1..(last + 1)
      BY <2>1
    <3> QED
      BY <2>2, <2>4, <3>1, <3>2
  <2>6. CASE m # size
    <3>1. m \in 1..(size - 1)
      BY <2>6, <1>2
    <3> QED
      BY <2>3, <2>4, <3>1, <1>2 DEF LedTo
  <2> QED
    BY <2>5, <2>6
<1> QED
  BY <1>12, <1>13 DEF next

\* Which item is taken, and what is left.
LEMMA TakenAndLeft ==
  ASSUME NEW S, pending \in Seq(S), pending # << >>
  PROVE  \E size \in Nat :
           /\ Len(pending) = size + 1
           /\ NextItem = pending[IF strategy = "depth_first" THEN size + 1 ELSE 1]
           /\ Rest \in Seq(S) /\ Len(Rest) = size
           /\ \A n \in 1..size : Rest[n] = pending[IF strategy = "depth_first" THEN n ELSE n + 1]
<1>1. PICK total \in Nat : total = Len(pending) /\ total # 0
  BY EmptySeq
<1>2. PICK size \in Nat : total = size + 1
  <2>1. total - 1 \in Nat /\ total = (total - 1) + 1
    BY <1>1
  <2> QED
    BY <2>1
<1>3. CASE strategy = "depth_first"
  <2>1. NextItem = pending[size + 1] /\ Rest = SubSeq(pending, 1, size)
    <3>1. total - 1 = size
      BY <1>2
    <3> QED
      BY <1>1, <1>2, <1>3, <3>1 DEF NextItem, Rest, Last, Front
  <2>2. \A i \in 1..size : pending[i] \in S
    <3>1. 1..size \subseteq 1..Len(pending)
      BY <1>1, <1>2
    <3> QED
      BY <3>1, ElementOfSeq
  <2>3. /\ SubSeq(pending, 1, size) \in Seq(S)
        /\ Len(SubSeq(pending, 1, size)) = IF 1 <= size THEN size - 1 + 1 ELSE 0
        /\ \A i \in 1..(size - 1 + 1) : SubSeq(pending, 1, size)[i] = pending[1 + i - 1]
    BY <2>2, SubSeqProperties
  <2>4. (IF 1 <= size THEN size - 1 + 1 ELSE 0) = size /\ size - 1 + 1 = size
        /\ \A i \in 1..size : 1 + i - 1 = i
    OBVIOUS
  <2>5. Len(Rest) = size /\ \A i \in 1..size : Rest[i] = pending[i]
    BY <2>1, <2>3, <2>4
  <2> QED
    BY <1>1, <1>2, <1>3, <2>1, <2>3, <2>5
<1>4. CASE strategy # "depth_first"
  <2>1. NextItem = pending[1] /\ Rest = Tail(pending)
    <3>1. Head(pending) = pending[1]
      OBVIOUS
    <3> QED
      BY <1>4, <3>1 DEF NextItem, Rest
  <2>2. /\ Tail(pending) \in Seq(S) /\ Len(Tail(pending)) = Len(pending) - 1
        /\ \A i \in 1..Len(Tail(pending)) : Tail(pending)[i] = pending[i + 1]
    BY HeadTailProperties
  <2>3. Len(pending) - 1 = size
    BY <1>1, <1>2
  <2> QED
    BY <1>1, <1>2, <1>4, <2>1, <2>2, <2>3
<1> QED
  BY <1>3, <1>4

-----------------------------------------------------------------------------
(* A trace grows                                                           *)

LEMMA TraceGraphIsKept ==
  ASSUME GraphKept
  PROVE  /\ ShownItems' = ShownItems /\ Nodes' = Nodes /\ Edges' = Edges
         /\ \A node : NodeDepth(node)' = NodeDepth(node)
         /\ \A node : Adjacency(node)' = Adjacency(node)
         /\ Roots' = Roots /\ IsStar' = IsStar
<1>1. MatchingRows' = MatchingRows
  BY DEF GraphKept, MatchingRows, ConsideredRows, ExcludedDepthRows, MissingParentRows
<1>2. Nodes' = Nodes /\ Edges' = Edges
  BY <1>1 DEF GraphKept, Nodes, Edges
<1>3. \A node : /\ DemandChildren(node)' = DemandChildren(node)
                /\ DemandParents(node)' = DemandParents(node)
                /\ EdgesFrom(node)' = EdgesFrom(node)
  BY <1>2 DEF DemandChildren, DemandParents, EdgesFrom
<1>4. \A node : /\ NodeDepth(node)' = NodeDepth(node)
                /\ FirstOrder(node)' = FirstOrder(node)
  BY <1>1 DEF GraphKept, NodeDepth, FirstOrder
<1>5. \A edge : FirstOrderOfEdge(edge)' = FirstOrderOfEdge(edge)
  BY <1>1 DEF GraphKept, FirstOrderOfEdge
<1>6. \A node : Adjacency(node)' = Adjacency(node)
  BY <1>3, <1>5 DEF Adjacency
<1>7. Roots' = Roots
  <2>1. RootNodes' = RootNodes
    BY <1>2, <1>3 DEF RootNodes
  <2>2. \A node, other : ComesFirst(other, node)' = ComesFirst(other, node)
    BY <1>4 DEF ComesFirst
  <2> QED
    BY <2>1, <2>2 DEF Roots
<1>8. IsStar' = IsStar
  BY <1>1, <1>2 DEF GraphKept, IsStar, ObservedMaxDepth
<1>9. ShownItems' = ShownItems
  BY <1>2, <1>3, <1>4 DEF GraphKept, ShownItems
<1> QED
  BY <1>2, <1>4, <1>6, <1>7, <1>8, <1>9

LEMMA StartsAreShown ==
  ASSUME RetainedInv, NEW node \in Nodes
  PROVE  Start(node) \in ShownItems /\ \A trace, last : LedTo(Start(node), trace, last)
<1>1. NodeDepth(node) \in 0..maxDepth /\ maxDepth \in Nat
  BY NodesHaveDepths DEF RetainedInv
<1>2. /\ Start(node).node = node /\ Start(node).depth = NodeDepth(node) /\ Start(node).path = <<node>>
      /\ Start(node) \in [node : Nodes, depth : 0..maxDepth, path : Seq(Nodes)]
      /\ Len(<<node>>) = 1 /\ <<node>>[1] = node /\ <<node>> # << >>
  BY <1>1 DEF Start, Item
<1> HIDE DEF Start
<1>3. NodeDepth(node) = NodeDepth(node) + 1 - 1 /\ 1 - 1 = 0
  BY <1>1
<1>4. Start(node) \in ShownItems
  <2>1. \A m \in 1..(1 - 1) : FALSE
    OBVIOUS
  <2>2. Start(node).depth = NodeDepth(Start(node).path[1]) + Len(Start(node).path) - 1
    BY <1>2, <1>3
  <2> QED
    BY <2>1, <2>2, <1>2 DEF ShownItems
<1>5. ASSUME NEW trace, NEW last PROVE LedTo(Start(node), trace, last)
  <2>1. 1..(Len(Start(node).path) - 1) = {}
    BY <1>2
  <2> QED
    BY <2>1 DEF LedTo
<1> QED
  BY <1>4, <1>5

LEMMA SoundLonger ==
  ASSUME NEW trace, SoundTrace(trace), NEW item \in ShownItems,
         LedTo(item, trace, Len(trace)), item.node \notin Covered(trace)
  PROVE  /\ SoundTrace(Append(trace, item))
         /\ Covered(Append(trace, item)) = Covered(trace) \cup {item.node}
<1> DEFINE longer == Append(trace, item)
<1>1. PICK size \in Nat : size = Len(trace)
  BY LenProperties DEF SoundTrace
<1>2. /\ trace \in Seq(ShownItems) /\ DOMAIN trace = 1..size
      /\ longer \in Seq(ShownItems) /\ Len(longer) = size + 1 /\ DOMAIN longer = 1..(size + 1)
      /\ \A n \in 1..size : longer[n] = trace[n]
      /\ longer[size + 1] = item
  BY <1>1, AppendProperties, LenProperties DEF SoundTrace
<1>3. \A n \in 1..(size + 1) : n \in 1..size \/ n = size + 1
  BY <1>1
<1>4. ASSUME NEW n \in 1..(size + 1) PROVE LedTo(longer[n], longer, n - 1)
  <2>1. CASE n \in 1..size
    <3>1. n - 1 \in 0..Len(trace) /\ LedTo(trace[n], trace, n - 1)
      BY <2>1, <1>1 DEF SoundTrace
    <3>2. LedTo(trace[n], longer, n - 1)
      BY <3>1, <1>2, LedLonger
    <3> QED
      BY <3>2, <2>1, <1>2
  <2>2. CASE n = size + 1
    <3>1. size \in 0..Len(trace) /\ n - 1 = size
      BY <2>2, <1>1
    <3>2. LedTo(item, longer, size)
      BY <3>1, <1>1, <1>2, LedLonger
    <3> QED
      BY <3>1, <3>2, <2>2, <1>2
  <2> QED
    BY <2>1, <2>2, <1>3
<1> HIDE DEF longer
<1>5. \A n \in 1..size : trace[n].node # item.node
  BY <1>2 DEF Covered
<1>6. \A n, m \in 1..(size + 1) : longer[n].node = longer[m].node => n = m
  <2>1. \A n, m \in 1..size : trace[n].node = trace[m].node => n = m
    BY <1>1 DEF SoundTrace
  <2> QED
    BY <2>1, <1>2, <1>3, <1>5
<1>7. Covered(longer) = Covered(trace) \cup {item.node}
  <2>1. Covered(longer) = {longer[n].node : n \in 1..(size + 1)}
    BY <1>2 DEF Covered
  <2>2. Covered(trace) = {trace[n].node : n \in 1..size}
    BY <1>2 DEF Covered
  <2>3. 1..(size + 1) = 1..size \cup {size + 1}
    BY <1>1
  <2> QED
    BY <2>1, <2>2, <2>3, <1>2
<1> QED
  BY <1>2, <1>4, <1>6, <1>7 DEF SoundTrace, longer

\* The state after a step, where the graph and the strategy stay.
LEMMA VisitKeepsWaiting ==
  ASSUME RetainedInv, WaitingInv, Visit
  PROVE  /\ WaitingInv'
         /\ \E trace \in Seq(ShownItems) : traces' = [traces EXCEPT ![strategy] = trace]
<1> DEFINE trace == traces[strategy]
           item == NextItem
<1>1. /\ SoundTrace(trace) /\ visited = Covered(trace) /\ pending \in Seq(ShownItems)
      /\ \A n \in 1..Len(pending) : LedTo(pending[n], trace, Len(trace))
      /\ trace \in Seq(ShownItems) /\ pending # << >>
  BY DEF WaitingInv, SoundTrace, Visit
<1>2. PICK size \in Nat :
        /\ Len(pending) = size + 1
        /\ item = pending[IF strategy = "depth_first" THEN size + 1 ELSE 1]
        /\ Rest \in Seq(ShownItems) /\ Len(Rest) = size
        /\ \A n \in 1..size : Rest[n] = pending[IF strategy = "depth_first" THEN n ELSE n + 1]
  BY <1>1, TakenAndLeft
<1>3. \E n \in 1..Len(pending) : item = pending[n]
  <2>1. size + 1 \in 1..Len(pending) /\ 1 \in 1..Len(pending)
    BY <1>2
  <2> QED
    BY <2>1, <1>2
<1>4. ASSUME NEW n \in 1..size PROVE LedTo(Rest[n], trace, Len(trace))
  <2>1. n \in 1..Len(pending) /\ n + 1 \in 1..Len(pending)
    BY <1>2
  <2> QED
    BY <2>1, <1>1, <1>2
<1>5. item \in ShownItems /\ LedTo(item, trace, Len(trace))
  BY <1>1, <1>3, ElementOfSeq
<1>6. item.depth \in 0..maxDepth /\ maxDepth \in Nat
  BY <1>5 DEF ShownItems, RetainedInv
<1>7. /\ GraphKept /\ strategy' = strategy /\ visited' = visited \cup {item.node}
      /\ IF item.node \in visited \/ item.depth > maxDepth
         THEN pending' = Rest /\ traces' = traces
         ELSE /\ traces' = [traces EXCEPT ![strategy] = Append(trace, item)]
              /\ pending' = Rest \o NewItems(item)
  BY DEF Visit, GraphKept
<1>8. ShownItems' = ShownItems
  BY <1>7, TraceGraphIsKept
<1>9. strategy \in Strategies /\ traces \in [Strategies -> Seq(ShownItems)]
  BY DEF RetainedInv
<1> HIDE DEF item
<1>10. CASE item.node \in visited
  <2>1. traces' = traces /\ pending' = Rest /\ visited' = visited
    BY <1>7, <1>10
  <2>2. WaitingInv'
    BY <2>1, <1>1, <1>2, <1>4, <1>7, <1>8 DEF WaitingInv, SoundTrace
  <2>3. traces' = [traces EXCEPT ![strategy] = trace]
    BY <2>1, <1>9
  <2> QED
    BY <2>2, <2>3, <1>1
<1>11. CASE item.node \notin visited
  <2> DEFINE longer == Append(trace, item)
             new == NewItems(item)
  <2>1. /\ traces' = [traces EXCEPT ![strategy] = longer] /\ pending' = Rest \o new
        /\ traces'[strategy] = longer
    BY <1>6, <1>7, <1>9, <1>11
  <2>2. SoundTrace(longer) /\ Covered(longer) = visited'
    BY <1>1, <1>5, <1>7, <1>11, SoundLonger
  <2>3. PICK last \in Nat : last = Len(trace)
    BY <1>1, LenProperties
  <2>4. Len(longer) = last + 1 /\ longer \in Seq(ShownItems)
    BY <2>3, <1>1, <1>5, AppendProperties
  <2>5. new \in Seq(ShownItems) /\ \A n \in 1..Len(new) : LedTo(new[n], longer, last + 1)
    <3>1. CASE item.depth >= maxDepth
      <4>1. new = << >>
        BY <3>1, NewItemsFollow
      <4> QED
        BY <4>1, EmptySeq
    <3>2. CASE ~(item.depth >= maxDepth)
      <4> DEFINE I == {ItemAfter(item, child) : child \in DemandChildren(item.node)}
      <4>1. \A i \in I : i \in ShownItems /\ LedTo(i, longer, last + 1)
        BY <3>2, <1>1, <1>5, <2>3, ShownGoesOn
      <4>2. new \in Seq(I)
        BY NewItemsFollow
      <4> HIDE DEF I, new
      <4>3. \A n \in 1..Len(new) : new[n] \in I
        BY <4>2, ElementOfSeq
      <4>4. new \in Seq(ShownItems)
        <5>1. I \subseteq ShownItems
          BY <4>1
        <5> QED
          BY <5>1, <4>2, SeqMonotonic
      <4> QED
        BY <4>1, <4>3, <4>4
    <3> QED
      BY <3>1, <3>2
  <2>6. \A n \in 1..size : LedTo(Rest[n], longer, last + 1)
    <3>1. last \in 0..Len(trace)
      BY <2>3
    <3> QED
      BY <3>1, <1>1, <1>4, <1>5, <2>3, LedLonger
  <2> HIDE DEF new, longer
  <2>7. pending' \in Seq(ShownItems)
        /\ \A n \in 1..Len(pending') : LedTo(pending'[n], longer, last + 1)
    <3>1. PICK more \in Nat : more = Len(new)
      BY <2>5, LenProperties
    <3>2. /\ Rest \o new \in Seq(ShownItems) /\ Len(Rest \o new) = size + more
          /\ \A n \in 1..(size + more) : (Rest \o new)[n] = IF n <= size THEN Rest[n] ELSE new[n - size]
      BY <1>2, <2>5, <3>1, ConcatProperties
    <3>3. \A n \in 1..(size + more) : \/ n \in 1..size /\ n <= size
                                      \/ ~(n <= size) /\ n - size \in 1..more
      BY <3>1, <1>2
    <3> QED
      BY <2>1, <2>5, <2>6, <3>1, <3>2, <3>3
  <2>8. WaitingInv'
    <3>1. traces'[strategy'] = longer
      BY <2>1, <1>7
    <3>2. SoundTrace(traces[strategy])'
      BY <3>1, <2>2, <1>8 DEF SoundTrace
    <3>3. Covered(traces[strategy])' = Covered(longer)
      BY <3>1 DEF Covered
    <3>4. (pending \in Seq(ShownItems))'
      BY <2>7, <1>8
    <3>5. (\A n \in 1..Len(pending) : LedTo(pending[n], traces[strategy], Len(traces[strategy])))'
      BY <3>1, <2>4, <2>7 DEF LedTo
    <3> QED
      BY <3>2, <3>3, <3>4, <3>5, <2>2 DEF WaitingInv
  <2> QED
    BY <2>1, <2>4, <2>8
<1> QED
  BY <1>10, <1>11

-----------------------------------------------------------------------------
(* The star                                                                *)

LEMMA GreatestIsTaken ==
  ASSUME NEW bound \in Nat, NEW S \in SUBSET (0..bound), S # {}
  PROVE  Max(S) \in S /\ \A x \in S : x <= Max(S)
<1> DEFINE T == {bound - x : x \in S}
<1>1. T \in SUBSET Nat /\ T # {}
  <2>1. \A x \in S : bound - x \in Nat
    OBVIOUS
  <2>2. \E x \in S : bound - x \in T
    OBVIOUS
  <2> QED
    BY <2>1, <2>2
<1>2. PICK t \in T : \A y \in T : t <= y
  BY <1>1, LeastNumber
<1>3. PICK g \in S : t = bound - g
  BY <1>2
<1>4. ASSUME NEW x \in S PROVE g >= x
  <2>1. bound - g <= bound - x
    BY <1>2, <1>3
  <2> QED
    BY <2>1
<1>5. \E x \in S : \A y \in S : x >= y
  BY <1>4
<1>6. Max(S) \in S /\ \A y \in S : Max(S) >= y
  BY <1>5 DEF Max
<1> QED
  BY <1>6

LEMMA StarGraph ==
  ASSUME RetainedInv, IsStar, Nodes # {}
  PROVE  /\ Nodes = {Seed} \cup {edge.child : edge \in Edges}
         /\ \A edge \in Edges : edge.parent = Seed /\ edge.child # Seed
         /\ RootNodes = {Seed}
<1>1. \A n \in MatchingRows : ParentNode(retained[n]) = Seed
  <2> DEFINE depths == {retained[n].recursionDepth : n \in MatchingRows} \cup {0}
  <2>1. maxDepth \in Nat
    BY DEF RetainedInv
  <2>2. depths \in SUBSET (0..maxDepth) /\ depths # {}
    BY <2>1, RowsAreRead
  <2>3. ObservedMaxDepth = Max(depths)
    BY DEF ObservedMaxDepth
  <2>4. \A n \in MatchingRows : retained[n].recursionDepth \in depths
    OBVIOUS
  <2> HIDE DEF depths
  <2>5. ObservedMaxDepth \in depths /\ \A x \in depths : x <= ObservedMaxDepth
    BY <2>1, <2>2, <2>3, GreatestIsTaken
  <2>6. ObservedMaxDepth \in Nat /\ ObservedMaxDepth < 2
    BY <2>1, <2>2, <2>5 DEF IsStar
  <2>7. ASSUME NEW n \in MatchingRows PROVE ~(retained[n].recursionDepth > 1)
    <3>1. retained[n].recursionDepth \in Nat /\ retained[n].recursionDepth <= ObservedMaxDepth
      BY <2>1, <2>4, <2>5, RowsAreRead
    <3> QED
      BY <3>1, <2>6
  <2> QED
    BY <2>7 DEF ParentNode
<1>2. \A n \in MatchingRows : ChildNode(retained[n]) # Seed
  BY DEF ChildNode, Demand, Seed
<1>3. \A edge \in Edges : edge.parent = Seed /\ edge.child # Seed
  BY <1>1, <1>2 DEF Edges
<1>4. MatchingRows # {}
  BY DEF Nodes
<1>5. {edge.child : edge \in Edges} = {ChildNode(retained[n]) : n \in MatchingRows}
  <2>1. ASSUME NEW edge \in Edges PROVE \E n \in MatchingRows : edge.child = ChildNode(retained[n])
    BY DEF Edges
  <2>2. ASSUME NEW n \in MatchingRows PROVE \E edge \in Edges : edge.child = ChildNode(retained[n])
    <3> DEFINE edge == [parent |-> ParentNode(retained[n]), child |-> ChildNode(retained[n]),
                        type |-> retained[n].type]
    <3>1. edge \in Edges /\ edge.child = ChildNode(retained[n])
      BY DEF Edges
    <3> HIDE DEF edge
    <3> QED
      BY <3>1
  <2> QED
    BY <2>1, <2>2
<1>6. Nodes = {Seed} \cup {ChildNode(retained[n]) : n \in MatchingRows}
  BY <1>1, <1>4 DEF Nodes
<1>7. RootNodes = {Seed}
  <2>1. DemandParents(Seed) = {}
    BY <1>3 DEF DemandParents
  <2>2. ASSUME NEW node \in Nodes, node # Seed PROVE DemandParents(node) # {}
    <3>1. PICK edge \in Edges : edge.child = node
      BY <1>5, <1>6, <2>2
    <3> QED
      BY <3>1 DEF DemandParents
  <2> QED
    BY <2>1, <2>2, <1>6 DEF RootNodes
<1> QED
  BY <1>3, <1>5, <1>6, <1>7

\* The edges of the seed lead to the other nodes, each to its own.
LEMMA StarAdjacency ==
  ASSUME RetainedInv, IsStar, Nodes # {}
  PROVE  \E size \in Nat :
           /\ Len(Adjacency(Seed)) = size /\ DOMAIN Adjacency(Seed) = 1..size
           /\ \A n \in 1..size : Adjacency(Seed)[n].child \in Nodes \ {Seed}
           /\ \A n, m \in 1..size : Adjacency(Seed)[n].child = Adjacency(Seed)[m].child => n = m
           /\ \A node \in Nodes \ {Seed} : \E n \in 1..size : Adjacency(Seed)[n].child = node
<1> DEFINE edges == Adjacency(Seed)
<1>1. /\ Nodes = {Seed} \cup {edge.child : edge \in Edges}
      /\ \A edge \in Edges : edge.parent = Seed /\ edge.child # Seed
  BY StarGraph
<1>2. EdgesFrom(Seed) = Edges
  BY <1>1 DEF EdgesFrom
<1>3. /\ edges \in Seq(Edges)
      /\ \A edge \in Edges : \E n \in DOMAIN edges : edges[n] = edge
      /\ \A n, m \in DOMAIN edges : edges[n] = edges[m] => n = m
  BY <1>2, AdjacencyIsInOrder
<1>4. PICK size \in Nat : Len(edges) = size /\ DOMAIN edges = 1..size /\ \A n \in 1..size : edges[n] \in Edges
  BY <1>3, LenProperties
<1>5. \A edge, other \in Edges : edge.child = other.child => edge = other
  BY DEF IsStar
<1> HIDE DEF edges
<1>6. \A n \in 1..size : edges[n].child \in Nodes \ {Seed}
  BY <1>1, <1>4
<1>7. \A n, m \in 1..size : edges[n].child = edges[m].child => n = m
  BY <1>3, <1>4, <1>5
<1>8. \A node \in Nodes \ {Seed} : \E n \in 1..size : edges[n].child = node
  BY <1>1, <1>3, <1>4
<1> QED
  BY <1>4, <1>6, <1>7, <1>8 DEF edges

LEMMA StarStarts ==
  ASSUME RetainedInv, IsStar, Nodes # {}
  PROVE  [n \in DOMAIN Roots |-> Start(Roots[n])] = <<Start(Seed)>> /\ ToSet(Roots) = {Seed}
<1>1. Roots \in Seq({Seed}) /\ Len(Roots) = 1
  BY StarGraph, RootsAreNodes, FS_Singleton
<1>2. DOMAIN Roots = 1..1 /\ Roots[1] = Seed
  BY <1>1
<1> QED
  BY <1>2 DEF ToSet

\* A demand of the star leads nowhere.
LEMMA StarEnds ==
  ASSUME RetainedInv, IsStar, Nodes # {}, NEW item, item.node # Seed
  PROVE  NewItems(item) = << >>
<1>1. DemandChildren(item.node) = {}
  BY StarGraph DEF DemandChildren
<1>2. NewItems(item) \in Seq({})
  <2>1. {ItemAfter(item, child) : child \in DemandChildren(item.node)} = {}
    BY <1>1
  <2> QED
    BY <2>1, NewItemsFollow
<1> QED
  BY <1>2

LEMMA PlacesCounted ==
  ASSUME NEW size \in Nat, NEW n \in 1..size
  PROVE  Cardinality({m \in 1..size : PushedBefore(m, n)})
           = IF strategy = "depth_first" THEN size - n ELSE n - 1
<1>1. CASE strategy = "depth_first"
  <2>1. {m \in 1..size : PushedBefore(m, n)} = (n + 1)..size
    BY <1>1 DEF PushedBefore
  <2>2. Cardinality((n + 1)..size) = size - n
    <3>1. n + 1 \in Int /\ size \in Int
      OBVIOUS
    <3>2. Cardinality((n + 1)..size) = IF n + 1 > size THEN 0 ELSE size - (n + 1) + 1
      BY <3>1, FS_Interval
    <3>3. (IF n + 1 > size THEN 0 ELSE size - (n + 1) + 1) = size - n
      OBVIOUS
    <3> QED
      BY <3>2, <3>3
  <2> QED
    BY <2>1, <2>2, <1>1
<1>2. CASE strategy # "depth_first"
  <2>1. {m \in 1..size : PushedBefore(m, n)} = 1..(n - 1)
    BY <1>2 DEF PushedBefore
  <2>2. Cardinality(1..(n - 1)) = n - 1
    <3>1. 1 \in Int /\ n - 1 \in Int
      OBVIOUS
    <3>2. Cardinality(1..(n - 1)) = IF 1 > n - 1 THEN 0 ELSE (n - 1) - 1 + 1
      BY <3>1, FS_Interval
    <3>3. (IF 1 > n - 1 THEN 0 ELSE (n - 1) - 1 + 1) = n - 1
      OBVIOUS
    <3> QED
      BY <3>2, <3>3
  <2> QED
    BY <2>1, <2>2, <1>2
<1> QED
  BY <1>1, <1>2

\* From the seed all demands are pushed, depth first in reverse.
LEMMA StarPushes ==
  ASSUME RetainedInv, IsStar, Nodes # {}, scheduled = {Seed},
         NEW size \in Nat, size = Len(Adjacency(Seed))
  PROVE  LET new == NewItems(Start(Seed)) IN
         /\ Len(new) = size
         /\ \A n \in 1..size :
              new[n].node = Adjacency(Seed)[IF strategy = "depth_first" THEN size + 1 - n ELSE n].child
<1> DEFINE edges == Adjacency(Seed)
           item == Start(Seed)
           first == {n \in DOMAIN edges :
                       /\ edges[n].child \notin scheduled
                       /\ \A m \in DOMAIN edges :
                            PushedBefore(m, n) => edges[m].child # edges[n].child}
           before == [n \in first |-> Cardinality({m \in first : PushedBefore(m, n)})]
           kept == InOrder(before)
<1>1. Seed \in Nodes /\ maxDepth \in 1..2
  BY StarGraph DEF RetainedInv
<1>2. item.node = Seed /\ item.depth = 0 /\ ~(item.depth >= maxDepth)
  BY <1>1, NodesHaveDepths DEF Start, Item
<1>3. NewItems(item) = [n \in DOMAIN kept |-> ItemAfter(item, edges[kept[n]].child)]
  BY <1>2 DEF NewItems, ItemAfter
<1>4. /\ DOMAIN edges = 1..size
      /\ \A n \in 1..size : edges[n].child \in Nodes \ {Seed}
      /\ \A n, m \in 1..size : edges[n].child = edges[m].child => n = m
  BY StarAdjacency
<1> HIDE DEF edges
<1>5. first = 1..size
  <2>1. \A n, m \in 1..size : PushedBefore(m, n) => m # n
    BY DEF PushedBefore
  <2> QED
    BY <2>1, <1>4
<1> HIDE DEF first
<1>6. IsPushOrder(before, first)
  BY DEF IsPushOrder
<1>7. \A n \in 1..size : before[n] = IF strategy = "depth_first" THEN size - n ELSE n - 1
  BY <1>5, PlacesCounted
<1> HIDE DEF before
<1>8. first \in SUBSET Nat /\ IsFiniteSet(first) /\ Cardinality(first) = size
  <2>1. 1 \in Int /\ size \in Int
    OBVIOUS
  <2>2. IsFiniteSet(1..size) /\ Cardinality(1..size) = IF 1 > size THEN 0 ELSE size - 1 + 1
    BY <2>1, FS_Interval
  <2>3. (IF 1 > size THEN 0 ELSE size - 1 + 1) = size
    OBVIOUS
  <2> QED
    BY <2>2, <2>3, <1>5
<1>9. /\ kept \in Seq(first) /\ Len(kept) = size
      /\ \A n \in DOMAIN kept : before[kept[n]] = n - 1
  BY <1>6, <1>8, PushedInOrder
<1> HIDE DEF kept
<1>10. DOMAIN kept = 1..size /\ \A n \in 1..size : kept[n] \in 1..size
  BY <1>5, <1>9, LenProperties
<1>11. ASSUME NEW n \in 1..size
       PROVE  kept[n] = IF strategy = "depth_first" THEN size + 1 - n ELSE n
  <2>1. kept[n] \in 1..size /\ before[kept[n]] = n - 1
    BY <1>9, <1>10
  <2>2. before[kept[n]] = IF strategy = "depth_first" THEN size - kept[n] ELSE kept[n] - 1
    BY <2>1, <1>7
  <2> QED
    BY <2>1, <2>2
<1>12. NewItems(item) = [n \in 1..size |-> ItemAfter(item, edges[kept[n]].child)]
  BY <1>3, <1>10
<1>13. Len(NewItems(item)) = size
  BY <1>12
<1>14. \A n \in 1..size : NewItems(item)[n].node = edges[kept[n]].child
  BY <1>12 DEF ItemAfter, Item
<1> QED
  BY <1>11, <1>13, <1>14 DEF edges

\* What a visit does to an item that was not visited yet.
LEMMA VisitShows ==
  ASSUME RetainedInv, WaitingInv, Visit, NextItem.node \notin visited
  PROVE  /\ traces'[strategy] = Append(traces[strategy], NextItem)
         /\ pending' = Rest \o NewItems(NextItem)
         /\ NextItem \in ShownItems
         /\ \E I : NewItems(NextItem) \in Seq(I)
<1>1. pending \in Seq(ShownItems) /\ pending # << >>
  BY DEF WaitingInv, Visit
<1>2. PICK size \in Nat :
        /\ Len(pending) = size + 1
        /\ NextItem = pending[IF strategy = "depth_first" THEN size + 1 ELSE 1]
  BY <1>1, TakenAndLeft
<1>3. size + 1 \in 1..Len(pending) /\ 1 \in 1..Len(pending)
  BY <1>2
<1>4. NextItem \in ShownItems
  BY <1>1, <1>2, <1>3, ElementOfSeq
<1>5. ~(NextItem.depth > maxDepth)
  BY <1>4 DEF ShownItems, RetainedInv
<1>6. strategy \in DOMAIN traces
  BY DEF RetainedInv
<1>7. /\ traces' = [traces EXCEPT ![strategy] = Append(traces[strategy], NextItem)]
      /\ pending' = Rest \o NewItems(NextItem)
  BY <1>5 DEF Visit
<1>8. \E I : NewItems(NextItem) \in Seq(I)
  BY NewItemsFollow
<1> QED
  BY <1>4, <1>6, <1>7, <1>8

LEMMA VisitKeepsStar ==
  ASSUME RetainedInv, WaitingInv, StarInv, Visit
  PROVE  StarInv'
<1>1. GraphKept /\ strategy' = strategy /\ pending # << >>
  BY DEF Visit, GraphKept
<1>2. IsStar' = IsStar /\ Nodes' = Nodes /\ Adjacency(Seed)' = Adjacency(Seed)
  BY <1>1, TraceGraphIsKept
<1> SUFFICES ASSUME IsStar, Nodes # {}
             PROVE  \E k \in 0..Len(Adjacency(Seed))' :
                      StarOrder(traces[strategy], k)' /\ StarWaits(k)'
  BY <1>2 DEF StarInv
<1>3. PICK outgoing : outgoing = Adjacency(Seed)
  OBVIOUS
<1>4. PICK size \in Nat :
        /\ Len(outgoing) = size
        /\ \A n \in 1..size : outgoing[n].child \in Nodes \ {Seed}
        /\ \A n, m \in 1..size : outgoing[n].child = outgoing[m].child => n = m
  BY <1>3, StarAdjacency
<1>5. PICK trace : trace = traces[strategy]
  OBVIOUS
<1>6. /\ pending \in Seq(ShownItems) /\ trace \in Seq(ShownItems)
      /\ visited = Covered(trace)
  BY <1>5 DEF WaitingInv, SoundTrace
<1>7. PICK left \in Nat :
        /\ Len(pending) = left + 1
        /\ NextItem = pending[IF strategy = "depth_first" THEN left + 1 ELSE 1]
        /\ Rest \in Seq(ShownItems) /\ Len(Rest) = left
        /\ \A n \in 1..left : Rest[n] = pending[IF strategy = "depth_first" THEN n ELSE n + 1]
  BY <1>1, <1>6, TakenAndLeft
<1>8. CASE trace = << >> /\ pending = <<Start(Seed)>> /\ scheduled = {Seed}
  <2>1. left = 0 /\ NextItem = Start(Seed) /\ Rest = << >>
    <3>1. Len(pending) = 1 /\ pending[1] = Start(Seed)
      BY <1>8
    <3>2. left = 0
      BY <3>1, <1>7
    <3> QED
      BY <3>1, <3>2, <1>7
  <2>2. NextItem.node = Seed
    BY <2>1 DEF Start, Item
  <2>3. visited = {}
    BY <1>6, <1>8 DEF Covered
  <2>4. PICK new, I :
          /\ new = NewItems(NextItem) /\ new \in Seq(I)
          /\ traces'[strategy] = Append(<< >>, NextItem) /\ pending' = << >> \o new
    BY <1>5, <1>8, <2>1, <2>3, VisitShows
  <2>5. pending' = new
    BY <2>4, ConcatEmptySeq
  <2>6. /\ Len(new) = size
        /\ \A n \in 1..size :
             new[n].node = outgoing[IF strategy = "depth_first" THEN size + 1 - n ELSE n].child
    BY <1>3, <1>4, <1>8, <2>1, <2>4, StarPushes
  <2>7. Len(traces'[strategy]) = 0 + 1 /\ traces'[strategy][1] = NextItem
    BY <2>4
  <2>8. StarOrder(traces[strategy], 0)'
    BY <1>1, <2>2, <2>7 DEF StarOrder
  <2>9. StarWaits(0)'
    <3>1. \A n \in 1..(size - 0) : n \in 1..size /\ 0 + n = n
      BY <1>4
    <3> QED
      BY <1>1, <1>2, <1>3, <1>4, <2>5, <2>6, <3>1 DEF StarWaits
  <2>10. 0 \in 0..Len(Adjacency(Seed))'
    BY <1>2, <1>3, <1>4
  <2> QED
    BY <2>8, <2>9, <2>10
<1>9. ASSUME NEW k \in 0..size, StarOrder(trace, k), StarWaits(k)
      PROVE  \E j \in 0..Len(Adjacency(Seed))' :
                      StarOrder(traces[strategy], j)' /\ StarWaits(j)'
  <2>1. /\ Len(trace) = k + 1 /\ trace[1].node = Seed
        /\ \A n \in 1..k : trace[n + 1].node = outgoing[n].child
        /\ Len(pending) = size - k
        /\ \A n \in 1..(size - k) :
             pending[n].node = IF strategy = "depth_first" THEN outgoing[size + 1 - n].child
                                                           ELSE outgoing[k + n].child
    BY <1>3, <1>4, <1>9 DEF StarOrder, StarWaits
  <2>2. size = k + left + 1 /\ k \in Nat
    <3>1. size - k = left + 1
      BY <1>7, <2>1
    <3> QED
      BY <3>1
  <2>3. NextItem.node = outgoing[k + 1].child
    <3>1. 1 \in 1..(size - k) /\ left + 1 \in 1..(size - k) /\ size + 1 - (left + 1) = k + 1
      BY <2>2
    <3> QED
      BY <1>7, <2>1, <3>1
  <2>4. k + 1 \in 1..size /\ NextItem.node \in Nodes \ {Seed}
    BY <1>4, <2>2, <2>3
  <2>5. NextItem.node \notin visited
    <3> SUFFICES ASSUME NEW n \in 1..(k + 1), trace[n].node = NextItem.node PROVE FALSE
      BY <1>6, <2>1, <2>2, LenProperties DEF Covered
    <3>1. n # 1
      BY <2>1, <2>4
    <3>2. n - 1 \in 1..k /\ (n - 1) + 1 = n
      BY <2>2, <3>1
    <3>3. trace[n].node = outgoing[n - 1].child
      BY <2>1, <3>2
    <3>4. n - 1 \in 1..size /\ n - 1 # k + 1
      BY <2>2, <3>2
    <3> QED
      BY <1>4, <2>3, <2>4, <3>3, <3>4
  <2>6. /\ traces'[strategy] = Append(trace, NextItem)
        /\ pending' = Rest \o NewItems(NextItem) /\ NextItem \in ShownItems
    BY <1>5, <2>5, VisitShows
  <2>7. pending' = Rest
    <3>1. NewItems(NextItem) = << >>
      BY <2>4, StarEnds
    <3> QED
      BY <1>7, <2>6, <3>1, ConcatEmptySeq
  <2>8. /\ Len(traces'[strategy]) = (k + 1) + 1
        /\ \A n \in 1..(k + 1) : traces'[strategy][n] = trace[n]
        /\ traces'[strategy][k + 2] = NextItem
    <3>1. (k + 1) + 1 = k + 2
      BY <2>2
    <3> QED
      BY <1>6, <2>1, <2>6, <3>1, AppendProperties
  <2>9. StarOrder(traces[strategy], k + 1)'
    <3>1. ASSUME NEW n \in 1..(k + 1) PROVE traces'[strategy][n + 1].node = outgoing[n].child
      <4>1. CASE n = k + 1
        BY <2>2, <2>3, <2>8, <4>1
      <4>2. CASE n # k + 1
        <5>1. n \in 1..k /\ n + 1 \in 1..(k + 1)
          BY <2>2, <4>2
        <5> QED
          BY <2>1, <2>8, <5>1
      <4> QED
        BY <4>1, <4>2
    <3>2. 1 \in 1..(k + 1)
      BY <2>2
    <3> QED
      BY <1>1, <1>2, <1>3, <2>1, <2>8, <3>1, <3>2 DEF StarOrder
  <2>10. StarWaits(k + 1)'
    <3>1. size - (k + 1) = left
      BY <2>2
    <3>2. ASSUME NEW n \in 1..left
          PROVE  Rest[n].node = IF strategy = "depth_first" THEN outgoing[size + 1 - n].child
                                                            ELSE outgoing[(k + 1) + n].child
      <4>1. n \in 1..(size - k) /\ n + 1 \in 1..(size - k) /\ k + (n + 1) = (k + 1) + n
        BY <2>2
      <4> QED
        BY <1>7, <2>1, <4>1
    <3> QED
      BY <1>1, <1>2, <1>3, <1>4, <1>7, <2>7, <3>1, <3>2 DEF StarWaits
  <2>11. k + 1 \in 0..Len(Adjacency(Seed))'
    BY <1>2, <1>3, <1>4, <2>2
  <2> QED
    BY <2>9, <2>10, <2>11
<1> QED
  BY <1>3, <1>4, <1>5, <1>8, <1>9 DEF StarInv

\* When nothing waits the star is shown whole.
LEMMA StarIsShown ==
  ASSUME RetainedInv, WaitingInv, StarInv, pending = << >>, IsStar, Nodes # {}
  PROVE  StarOrder(traces[strategy], Len(Adjacency(Seed))) /\ visited = Nodes
<1>1. PICK outgoing : outgoing = Adjacency(Seed)
  OBVIOUS
<1>2. PICK size \in Nat :
        /\ Len(outgoing) = size
        /\ \A n \in 1..size : outgoing[n].child \in Nodes \ {Seed}
        /\ \A node \in Nodes \ {Seed} : \E n \in 1..size : outgoing[n].child = node
  BY <1>1, StarAdjacency
<1>3. pending # <<Start(Seed)>>
  OBVIOUS
<1>4. PICK k \in 0..size : StarOrder(traces[strategy], k) /\ StarWaits(k)
  BY <1>1, <1>2, <1>3 DEF StarInv
<1>5. k = size
  <2>1. Len(pending) = size - k /\ Len(pending) = 0
    BY <1>1, <1>2, <1>4 DEF StarWaits
  <2> QED
    BY <2>1
<1>6. PICK trace : trace = traces[strategy]
  OBVIOUS
<1>7. /\ Len(trace) = size + 1 /\ trace[1].node = Seed /\ trace \in Seq(ShownItems)
      /\ \A n \in 1..size : trace[n + 1].node = outgoing[n].child
      /\ visited = Covered(trace)
  BY <1>1, <1>4, <1>5, <1>6 DEF StarOrder, WaitingInv, SoundTrace
<1>8. DOMAIN trace = 1..(size + 1)
  BY <1>7, LenProperties
<1>9. visited \subseteq Nodes
  BY <1>7, <1>8, ElementOfSeq DEF Covered, ShownItems
<1>10. Nodes \subseteq visited
  <2>1. 1 \in 1..(size + 1) /\ \A n \in 1..size : n + 1 \in 1..(size + 1)
    OBVIOUS
  <2>2. Seed \in visited
    BY <1>7, <1>8, <2>1 DEF Covered
  <2>3. \A n \in 1..size : outgoing[n].child \in visited
    BY <1>7, <1>8, <2>1 DEF Covered
  <2> QED
    BY <1>2, <2>2, <2>3
<1> QED
  BY <1>1, <1>2, <1>4, <1>5, <1>9, <1>10

LEMMA TraceIsWhole ==
  ASSUME RetainedInv, WaitingInv, StarInv, pending = << >>, visited = Nodes
  PROVE  WholeTrace(traces[strategy])
BY StarIsShown DEF WholeTrace, WaitingInv

-----------------------------------------------------------------------------
(* Two whole traces                                                        *)

LEMMA WholeStaysWhole ==
  ASSUME GraphKept
  PROVE  \A trace : WholeTrace(trace)' = WholeTrace(trace)
<1>1. /\ ShownItems' = ShownItems /\ Nodes' = Nodes
      /\ Adjacency(Seed)' = Adjacency(Seed) /\ IsStar' = IsStar
  BY TraceGraphIsKept
<1>2. \A trace : SoundTrace(trace)' = SoundTrace(trace)
  BY <1>1 DEF SoundTrace
<1>3. \A trace, k : StarOrder(trace, k)' = StarOrder(trace, k)
  BY <1>1 DEF StarOrder
<1> QED
  BY <1>1, <1>2, <1>3 DEF WholeTrace

LEMMA RetainedStays ==
  ASSUME RetainedInv, GraphKept, strategy' \in Strategies,
         traces' = traces \/ \E trace \in Seq(ShownItems) : traces' = [traces EXCEPT ![strategy] = trace]
  PROVE  RetainedInv'
<1>1. ShownItems' = ShownItems
  BY TraceGraphIsKept
<1> QED
  BY <1>1 DEF RetainedInv, GraphKept

\* The roots are shown first.
LEMMA RootsWait ==
  ASSUME RetainedInv, NEW starts, starts = [n \in DOMAIN Roots |-> Start(Roots[n])]
  PROVE  /\ starts \in Seq(ShownItems)
         /\ \A n \in 1..Len(starts) : \A trace, last : LedTo(starts[n], trace, last)
<1>1. PICK size \in Nat : size = Len(Roots) /\ DOMAIN Roots = 1..size /\ \A n \in 1..size : Roots[n] \in Nodes
  <2>1. Roots \in Seq(RootNodes) /\ RootNodes \subseteq Nodes
    BY RootsAreNodes DEF RootNodes
  <2> QED
    BY <2>1, LenProperties
<1>2. \A n \in 1..size : Start(Roots[n]) \in ShownItems /\ \A trace, last : LedTo(Start(Roots[n]), trace, last)
  BY <1>1, StartsAreShown
<1>3. \A n \in 1..size : starts[n] = Start(Roots[n])
  BY <1>1
<1>4. starts \in [1..size -> ShownItems]
  BY <1>1, <1>2, <1>3
<1>5. starts \in Seq(ShownItems) /\ Len(starts) = size
  BY <1>4
<1> QED
  BY <1>1, <1>2, <1>3, <1>5

LEMMA BeginKeeps ==
  ASSUME TraceInv, NEW mode \in Strategies, BeginTrace(mode)
  PROVE  TraceInv'
<1>1. /\ GraphKept /\ traces' = traces /\ tracing' = "tracing" /\ strategy' = mode
      /\ pending' = [n \in DOMAIN Roots |-> Start(Roots[n])]
      /\ scheduled' = ToSet(Roots) /\ visited' = {}
  BY DEF BeginTrace, GraphKept
<1>2. RetainedInv /\ RetainedInv'
  BY <1>1, RetainedStays DEF TraceInv
<1>3. /\ ShownItems' = ShownItems /\ Nodes' = Nodes /\ IsStar' = IsStar
      /\ \A node : NodeDepth(node)' = NodeDepth(node)
      /\ \A node : Adjacency(node)' = Adjacency(node)
  BY <1>1, TraceGraphIsKept
<1>4. /\ traces[mode] = << >>
      /\ mode = "breadth_first" => traces["depth_first"] = << >>
      /\ mode = "depth_first" => WholeTrace(traces["breadth_first"])
  <2>1. CASE tracing = "cycles"
    BY <2>1 DEF BeginTrace, TraceInv, Strategies
  <2>2. CASE tracing # "cycles"
    <3>1. /\ tracing = "tracing" /\ visited = Nodes /\ pending = << >>
          /\ strategy = "breadth_first" /\ mode = "depth_first"
      BY <2>2 DEF BeginTrace
    <3> QED
      BY <3>1, <1>2, TraceIsWhole DEF TraceInv
  <2> QED
    BY <2>1, <2>2
<1>5. WaitingInv'
  <2>1. SoundTrace(traces[strategy])'
    BY <1>1, <1>3, <1>4, EmptySeq DEF SoundTrace
  <2>2. visited' = Covered(traces[strategy])'
    BY <1>1, <1>4 DEF Covered
  <2>3. (pending \in Seq(ShownItems))'
    <3>1. pending' \in Seq(ShownItems)
      BY <1>1, <1>2, RootsWait
    <3> QED
      BY <1>3, <3>1
  <2>4. (\A n \in 1..Len(pending) : LedTo(pending[n], traces[strategy], Len(traces[strategy])))'
    <3>1. PICK starts : starts = [n \in DOMAIN Roots |-> Start(Roots[n])]
      OBVIOUS
    <3>2. \A n \in 1..Len(starts) : \A trace, last : LedTo(starts[n], trace, last)
      BY <3>1, <1>2, RootsWait
    <3>3. pending' = starts
      BY <1>1, <3>1
    <3>4. \A n \in 1..Len(pending') : \A trace, last : LedTo(pending'[n], trace, last)
      BY <3>2, <3>3
    <3> QED
      BY <3>4 DEF LedTo
  <2> QED
    BY <2>1, <2>2, <2>3, <2>4 DEF WaitingInv
<1>6. StarInv'
  <2> SUFFICES ASSUME IsStar, Nodes # {}
               PROVE  /\ traces'[strategy'] = << >> /\ pending' = <<Start(Seed)'>> /\ scheduled' = {Seed}
    BY <1>3 DEF StarInv
  <2>1. Start(Seed)' = Start(Seed)
    BY <1>3 DEF Start
  <2> QED
    BY <2>1, <1>1, <1>2, <1>4, StarStarts
<1>7. mode = "depth_first" => WholeTrace(traces["breadth_first"])'
  BY <1>1, <1>4, WholeStaysWhole
<1> QED
  BY <1>1, <1>2, <1>4, <1>5, <1>6, <1>7 DEF TraceInv

LEMMA VisitKeepsTraces ==
  ASSUME TraceInv, Visit
  PROVE  TraceInv'
<1>1. /\ GraphKept /\ tracing = "tracing" /\ tracing' = "tracing" /\ strategy' = strategy
  BY DEF Visit, GraphKept
<1>2. RetainedInv /\ WaitingInv /\ StarInv /\ strategy \in Strategies
  BY <1>1 DEF TraceInv, RetainedInv
<1>3. WaitingInv' /\ StarInv'
  BY <1>2, VisitKeepsWaiting, VisitKeepsStar
<1>4. PICK trace \in Seq(ShownItems) : traces' = [traces EXCEPT ![strategy] = trace]
  BY <1>2, VisitKeepsWaiting
<1>5. RetainedInv'
  BY <1>1, <1>2, <1>4, RetainedStays
<1>6. \A mode \in Strategies : mode # strategy => traces'[mode] = traces[mode]
  BY <1>2, <1>4 DEF RetainedInv
<1>7. strategy = "depth_first" => WholeTrace(traces["breadth_first"])'
  <2> SUFFICES ASSUME strategy = "depth_first" PROVE WholeTrace(traces["breadth_first"])'
    OBVIOUS
  <2>1. traces'["breadth_first"] = traces["breadth_first"]
    BY <1>6 DEF Strategies
  <2> QED
    BY <1>1, <2>1, WholeStaysWhole DEF TraceInv
<1>8. strategy = "breadth_first" => traces'["depth_first"] = << >>
  BY <1>1, <1>6 DEF TraceInv, Strategies
<1> QED
  BY <1>1, <1>3, <1>5, <1>7, <1>8 DEF TraceInv

LEMMA AddComponentKeeps ==
  ASSUME TraceInv, NEW node, AddComponent(node)
  PROVE  TraceInv'
<1>1. /\ GraphKept /\ tracing = "tracing" /\ tracing' = "tracing" /\ strategy' = strategy
      /\ traces' = traces /\ visited' = visited /\ pending = << >> /\ node \in Nodes \ visited
      /\ pending' = << >> \/ pending' = <<Start(node)>>
  BY DEF AddComponent, GraphKept
<1>2. RetainedInv /\ WaitingInv /\ StarInv
  BY <1>1 DEF TraceInv
<1>3. RetainedInv'
  BY <1>1, <1>2, RetainedStays DEF RetainedInv
<1>4. ShownItems' = ShownItems /\ Nodes' = Nodes /\ IsStar' = IsStar
  BY <1>1, TraceGraphIsKept
<1>5. WaitingInv'
  <2>1. SoundTrace(traces[strategy])'
    BY <1>1, <1>2, <1>4 DEF WaitingInv, SoundTrace
  <2>2. (visited = Covered(traces[strategy]))'
    BY <1>1, <1>2 DEF WaitingInv, Covered
  <2>3. /\ pending' \in Seq(ShownItems)
        /\ \A n \in 1..Len(pending') : \A trace, last : LedTo(pending'[n], trace, last)
    <3>1. Start(node) \in ShownItems /\ \A trace, last : LedTo(Start(node), trace, last)
      BY <1>1, <1>2, StartsAreShown
    <3> HIDE DEF Start
    <3>2. CASE pending' = << >>
      BY <3>2, EmptySeq
    <3>3. CASE pending' = <<Start(node)>>
      <4>1. Len(pending') = 1 /\ pending'[1] = Start(node) /\ pending' \in Seq(ShownItems)
        BY <3>1, <3>3
      <4> QED
        BY <3>1, <4>1
    <3> QED
      BY <1>1, <3>2, <3>3
  <2> QED
    BY <1>4, <2>1, <2>2, <2>3 DEF WaitingInv, LedTo
<1>6. StarInv'
  <2>1. ~(IsStar /\ Nodes # {})
    BY <1>1, <1>2, StarIsShown
  <2> QED
    BY <2>1, <1>4 DEF StarInv
<1>7. strategy = "depth_first" => WholeTrace(traces["breadth_first"])'
  BY <1>1, WholeStaysWhole DEF TraceInv
<1>8. strategy = "breadth_first" => traces'["depth_first"] = << >>
  BY <1>1 DEF TraceInv
<1> QED
  BY <1>1, <1>3, <1>5, <1>6, <1>7, <1>8 DEF TraceInv

LEMMA FinishKeeps ==
  ASSUME TraceInv, FinishTraversal
  PROVE  TraceInv'
<1>1. /\ GraphKept /\ tracing = "tracing" /\ tracing' = "traced" /\ strategy = "depth_first"
      /\ traces' = traces /\ visited = Nodes /\ pending = << >> /\ strategy' = strategy
  BY DEF FinishTraversal, GraphKept
<1>2. RetainedInv /\ RetainedInv'
  BY <1>1, RetainedStays DEF TraceInv, RetainedInv
<1>3. WholeTrace(traces["depth_first"]) /\ WholeTrace(traces["breadth_first"])
  BY <1>1, <1>2, TraceIsWhole DEF TraceInv
<1>4. \A mode \in Strategies : WholeTrace(traces[mode])'
  BY <1>1, <1>3, WholeStaysWhole DEF Strategies
<1> QED
  BY <1>1, <1>2, <1>4 DEF TraceInv

\* The search for cycles shows nothing yet.
LEMMA SearchKeepsTraces ==
  ASSUME TraceInv, GraphKept, tracing = "cycles", UNCHANGED <<traces, tracing, strategy>>
  PROVE  TraceInv'
<1>1. RetainedInv'
  BY RetainedStays DEF TraceInv, RetainedInv
<1> QED
  BY <1>1 DEF TraceInv

LEMMA BuildKeepsTraces ==
  ASSUME TraceInv, NEW rows \in RetainedLists, NEW depth \in 1..2, NEW query,
         BuildLatentDemandTraversal(rows, depth, query)
  PROVE  TraceInv'
<1>1. /\ retained' = rows /\ maxDepth' = depth /\ tracing = "idle" /\ tracing' = "cycles"
      /\ traces' = traces /\ strategy' = strategy
  BY DEF BuildLatentDemandTraversal
<1>2. /\ \A mode \in Strategies : traces'[mode] = << >>
      /\ DOMAIN traces' = Strategies /\ traces' = [mode \in Strategies |-> traces'[mode]]
      /\ strategy' \in Strategies
  BY <1>1 DEF TraceInv, RetainedInv
<1>3. (traces \in [Strategies -> Seq(ShownItems)])'
  <2>1. << >> \in Seq(ShownItems)'
    BY EmptySeq
  <2> QED
    BY <2>1, <1>2
<1>4. RetainedInv'
  BY <1>1, <1>2, <1>3 DEF RetainedInv
<1> QED
  BY <1>1, <1>2, <1>4 DEF TraceInv

LEMMA NothingKeepsTraces ==
  ASSUME TraceInv, UNCHANGED demandVars
  PROVE  TraceInv'
<1>1. /\ GraphKept /\ UNCHANGED <<strategy, pending, scheduled, visited, traces, tracing>>
  BY DEF demandVars, GraphKept
<1>2. /\ ShownItems' = ShownItems /\ Nodes' = Nodes /\ IsStar' = IsStar
      /\ \A node : NodeDepth(node)' = NodeDepth(node)
      /\ \A node : Adjacency(node)' = Adjacency(node)
  BY <1>1, TraceGraphIsKept
<1>3. RetainedInv'
  BY <1>1, RetainedStays DEF TraceInv, RetainedInv
<1>4. \A trace : WholeTrace(trace)' = WholeTrace(trace)
  BY <1>1, WholeStaysWhole
<1>5. WaitingInv => WaitingInv'
  <2> SUFFICES ASSUME WaitingInv PROVE WaitingInv'
    OBVIOUS
  <2>1. SoundTrace(traces[strategy])'
    <3>1. SoundTrace(traces[strategy])
      BY DEF WaitingInv
    <3> QED
      BY <1>1, <1>2, <3>1 DEF SoundTrace
  <2>2. (visited = Covered(traces[strategy]))'
    BY <1>1 DEF WaitingInv, Covered
  <2>3. (pending \in Seq(ShownItems))'
    BY <1>1, <1>2 DEF WaitingInv
  <2>4. (\A n \in 1..Len(pending) : LedTo(pending[n], traces[strategy], Len(traces[strategy])))'
    BY <1>1 DEF WaitingInv, LedTo
  <2> QED
    BY <2>1, <2>2, <2>3, <2>4 DEF WaitingInv
<1>6. StarInv => StarInv'
  BY <1>1, <1>2 DEF StarInv, StarOrder, StarWaits, Start
<1> QED
  BY <1>1, <1>3, <1>4, <1>5, <1>6 DEF TraceInv

LEMMA TraceInvariant == DemandSpec => []TraceInv
<1>1. DemandInit => TraceInv
  <2> SUFFICES ASSUME DemandInit PROVE TraceInv
    OBVIOUS
  <2>1. << >> \in Seq(ShownItems)
    BY EmptySeq
  <2> QED
    BY <2>1 DEF DemandInit, TraceInv, RetainedInv, Strategies
<1>2. TraceInv /\ [DemandNext]_demandVars => TraceInv'
  <2> SUFFICES ASSUME TraceInv, [DemandNext]_demandVars PROVE TraceInv'
    OBVIOUS
  <2>1. ASSUME NEW rows \in RetainedLists, NEW depth \in 1..2, NEW query,
               BuildLatentDemandTraversal(rows, depth, query)
        PROVE  TraceInv'
    BY <2>1, BuildKeepsTraces
  <2>2. ASSUME NEW node, SearchFrom(node) \/ LookAt(node) \/ Leave
        PROVE  TraceInv'
    BY <2>2, SearchKeepsTraces DEF SearchFrom, LookAt, Leave, GraphKept
  <2>3. ASSUME NEW node, AddComponent(node)
        PROVE  TraceInv'
    BY <2>3, AddComponentKeeps
  <2>4. ASSUME NEW mode \in Strategies, BeginTrace(mode)
        PROVE  TraceInv'
    BY <2>4, BeginKeeps
  <2>5. CASE Visit
    BY <2>5, VisitKeepsTraces
  <2>6. CASE FinishTraversal
    BY <2>6, FinishKeeps
  <2>7. CASE UNCHANGED demandVars
    BY <2>7, NothingKeepsTraces
  <2> QED
    BY <2>1, <2>2, <2>3, <2>4, <2>5, <2>6, <2>7 DEF DemandNext
<1> QED
  BY <1>1, <1>2, PTL DEF DemandSpec

LEMMA WholeTracesAreGood ==
  ASSUME RetainedInv, NEW trace, WholeTrace(trace)
  PROVE  /\ {trace[n].node : n \in DOMAIN trace} = Nodes
         /\ Len(trace) = Cardinality(Nodes)
         /\ \A n \in DOMAIN trace :
              /\ trace[n].depth = NodeDepth(trace[n].path[1]) + Len(trace[n].path) - 1
              /\ trace[n].depth <= maxDepth
              /\ \A m \in 1..(Len(trace[n].path) - 1) :
                   /\ trace[n].path[m + 1] \in DemandChildren(trace[n].path[m])
                   /\ \E shown \in 1..(n - 1) : trace[shown].path = SubSeq(trace[n].path, 1, m)
<1>1. PICK size \in Nat : size = Len(trace) /\ DOMAIN trace = 1..size
  BY LenProperties DEF WholeTrace, SoundTrace
<1>2. \A n \in 1..size : trace[n] \in ShownItems /\ LedTo(trace[n], trace, n - 1)
  BY <1>1, ElementOfSeq DEF WholeTrace, SoundTrace
<1>3. Len(trace) = Cardinality(Nodes)
  <2> DEFINE nodeAt == [n \in 1..size |-> trace[n].node]
  <2>1. Nodes = {nodeAt[n] : n \in 1..size}
    BY <1>1 DEF WholeTrace, Covered
  <2>2. \A n, m \in 1..size : nodeAt[n] = nodeAt[m] => n = m
    BY <1>1 DEF WholeTrace, SoundTrace
  <2> HIDE DEF nodeAt
  <2>3. IsFiniteSet(1..size) /\ Cardinality(1..size) = IF 1 > size THEN 0 ELSE size - 1 + 1
    <3>1. 1 \in Int /\ size \in Int
      OBVIOUS
    <3> QED
      BY <3>1, FS_Interval
  <2>4. Cardinality(1..size) = size
    BY <2>3
  <2>5. Cardinality({nodeAt[n] : n \in 1..size}) = Cardinality(1..size)
    <3>1. PICK places : places = 1..size
      OBVIOUS
    <3>2. IsFiniteSet(places) /\ \A n, m \in places : nodeAt[n] = nodeAt[m] => n = m
      BY <2>2, <2>3, <3>1
    <3>3. Cardinality({nodeAt[n] : n \in places}) = Cardinality(places)
      BY <3>2, ImageHasAsMany
    <3> QED
      BY <3>1, <3>3
  <2> QED
    BY <1>1, <2>1, <2>4, <2>5
<1>4. ASSUME NEW n \in DOMAIN trace
      PROVE  /\ trace[n].depth = NodeDepth(trace[n].path[1]) + Len(trace[n].path) - 1
             /\ trace[n].depth <= maxDepth
             /\ \A m \in 1..(Len(trace[n].path) - 1) :
                  /\ trace[n].path[m + 1] \in DemandChildren(trace[n].path[m])
                  /\ \E shown \in 1..(n - 1) : trace[shown].path = SubSeq(trace[n].path, 1, m)
  <2>1. trace[n] \in ShownItems /\ LedTo(trace[n], trace, n - 1) /\ n \in 1..size
    BY <1>1, <1>2
  <2>2. /\ trace[n].depth \in 0..maxDepth
        /\ trace[n].depth = NodeDepth(trace[n].path[1]) + Len(trace[n].path) - 1
        /\ \A m \in 1..(Len(trace[n].path) - 1) : trace[n].path[m + 1] \in DemandChildren(trace[n].path[m])
    BY <2>1 DEF ShownItems
  <2>3. trace[n].depth <= maxDepth
    BY <2>2 DEF RetainedInv
  <2>4. \A m \in 1..(Len(trace[n].path) - 1) :
          \E shown \in 1..(n - 1) : trace[shown].path = SubSeq(trace[n].path, 1, m)
    BY <2>1 DEF LedTo
  <2> QED
    BY <2>2, <2>3, <2>4
<1> QED
  BY <1>3, <1>4 DEF WholeTrace, Covered

LEMMA StarsAreShownAlike ==
  ASSUME RetainedInv, IsStar, NEW trace, NEW other, WholeTrace(trace), WholeTrace(other)
  PROVE  [n \in DOMAIN trace |-> trace[n].node] = [n \in DOMAIN other |-> other[n].node]
<1>1. PICK size \in Nat : size = Len(trace) /\ DOMAIN trace = 1..size
  BY LenProperties DEF WholeTrace, SoundTrace
<1>2. DOMAIN other = 1..Len(other) /\ Len(other) = size
  BY <1>1, WholeTracesAreGood, LenProperties DEF WholeTrace, SoundTrace
<1> SUFFICES ASSUME NEW n \in 1..size PROVE trace[n].node = other[n].node
  BY <1>1, <1>2
<1>3. Nodes # {}
  <2>1. trace[n].node \in Nodes
    BY <1>1 DEF WholeTrace, Covered
  <2> QED
    BY <2>1
<1>4. PICK k \in Nat : StarOrder(trace, k) /\ StarOrder(other, k)
  BY <1>3, StarAdjacency DEF WholeTrace
<1>5. CASE n = 1
  BY <1>4, <1>5 DEF StarOrder
<1>6. CASE n # 1
  <2>1. n - 1 \in 1..k /\ (n - 1) + 1 = n
    BY <1>1, <1>4, <1>6 DEF StarOrder
  <2>2. trace[(n - 1) + 1].node = other[(n - 1) + 1].node
    BY <1>4, <2>1 DEF StarOrder
  <2> QED
    BY <2>1, <2>2
<1> QED
  BY <1>5, <1>6

\* Both strategies show every node once, along retained paths of nodes shown
\* before and no deeper than the request allows; and where the answer says that
\* the retained depth tells them apart in nothing, they do not differ in order
\* either, unless a demand has several edges (traceGraph), for any rows, site and
\* request.
THEOREM StrategiesShowTheSame == DemandSpec => []StrategiesDifferInOrderOnly
<1>1. TraceInv => StrategiesDifferInOrderOnly
  <2> SUFFICES ASSUME TraceInv, tracing = "traced" PROVE StrategiesDifferInOrderOnly
    BY DEF StrategiesDifferInOrderOnly
  <2>1. RetainedInv /\ \A mode \in Strategies : WholeTrace(traces[mode])
    BY DEF TraceInv
  <2>2. ASSUME NEW mode \in Strategies
        PROVE  /\ ToSet(NodesTraced(mode)) = Nodes
               /\ Len(traces[mode]) = Cardinality(Nodes)
               /\ \A n \in DOMAIN traces[mode] :
                    LET item == traces[mode][n] IN
                    /\ item.depth = NodeDepth(item.path[1]) + Len(item.path) - 1
                    /\ item.depth <= maxDepth
                    /\ \A m \in 1..(Len(item.path) - 1) :
                         /\ item.path[m + 1] \in DemandChildren(item.path[m])
                         /\ \E shown \in 1..(n - 1) :
                              traces[mode][shown].path = SubSeq(item.path, 1, m)
    <3>1. ToSet(NodesTraced(mode)) = {traces[mode][n].node : n \in DOMAIN traces[mode]}
      BY DEF ToSet, NodesTraced
    <3> QED
      BY <2>1, <3>1, WholeTracesAreGood
  <2>3. ASSUME DisambiguationState = "insufficient_retained_depth",
               \A edge, other \in Edges : edge.child = other.child => edge = other
        PROVE  ~FirstDivergence
    <3>1. IsStar
      BY <2>3 DEF IsStar, DisambiguationState
    <3> QED
      BY <2>1, <3>1, StarsAreShownAlike DEF FirstDivergence, NodesTraced, Strategies
  <2> QED
    BY <2>2, <2>3 DEF StrategiesDifferInOrderOnly
<1> QED
  BY <1>1, TraceInvariant, PTL

-----------------------------------------------------------------------------
(* PublicSemanticGraphQuery, for every lexicon and request.                  *)
(*                                                                           *)
(* Breadth first the items wait in the order of their distance from the seeds, *)
(* so when one is taken all that is nearer was reached, and what it finds is *)
(* exactly one farther.                                                      *)

\* The end a row starts from, and the one it leads to.
NearEnd(edge, direction) == IF direction = "outgoing" THEN edge.source ELSE edge.target
FarEnd(edge, direction) == IF direction = "outgoing" THEN edge.target ELSE edge.source

Exactly(synset, distance) ==
  /\ synset \in Within(distance)
  /\ distance > 0 => synset \notin Within(distance - 1)

Linked(left, right) ==
  \E edge \in relations : Allowed(edge) /\ {edge.source, edge.target} = {left, right}

GoodPath(path, depth) ==
  /\ path \in Seq(Nat) /\ Len(path) = depth + 1
  /\ path[1] \in SeedSynsets(request)
  /\ \A n \in 1..depth : Linked(path[n], path[n + 1])

\* What waits, is at hand or was found: within the depth, at the end of a path,
\* and breadth first no farther than it is.
GoodItem(item) ==
  /\ item.depth < BoundedDepth
  /\ item.synset \in Within(item.depth)
  /\ ~DepthFirst => Exactly(item.synset, item.depth)
  /\ GoodPath(item.path, item.depth)
  /\ item.path[item.depth + 1] = item.synset

GoodRow(row) ==
  /\ row.edge \in relations /\ Allowed(row.edge)
  /\ row.direction = Direction(row.edge, NearEnd(row.edge, row.direction))
  /\ row.depth \in 1..BoundedDepth
  /\ NearEnd(row.edge, row.direction) \in Within(row.depth - 1)
  /\ ~DepthFirst => Exactly(NearEnd(row.edge, row.direction), row.depth - 1)
  /\ GoodPath(row.path, row.depth)

WalkItems == [synset : Nat, path : Seq(Nat), depth : Nat]

ElementsOf(list) == {list[n] : n \in DOMAIN list}

Items == ElementsOf(waiting) \cup ElementsOf(current) \cup ElementsOf(children)

Touches(edge, synset) == synset = edge.source \/ synset = edge.target

Finished(synset) ==
  \A edge \in relations :
    Touches(edge, synset) /\ Allowed(edge) => EdgeVisit(edge, synset) \in seenEdges

ListsInv ==
  /\ relations \in RelationSets \cup {{}}
  /\ walking = "walking" => request \in GraphRequests
  /\ waiting \in Seq(WalkItems) /\ current \in Seq(WalkItems) /\ children \in Seq(WalkItems)
  /\ open \in Seq(relations)
  /\ Len(current) <= 1
  /\ walking # "walking" => Items = {} /\ answer = {} /\ seenEdges = {}
  /\ current = <<>> => children = <<>> /\ open = <<>>

SoundInv ==
  /\ \A item \in Items : GoodItem(item)
  /\ \A row \in answer : GoodRow(row)
  /\ current # <<>> => \A n \in DOMAIN open : Touches(open[n], current[1].synset)

\* What was found and shown: a visit has its row, a row within the depth led to
\* a synset that was reached, and breadth first a reached synset is among the
\* items or finished.
FoundInv ==
  /\ walking = "walking" => SeedSynsets(request) \subseteq reached
  /\ \A visit \in seenEdges : \E row \in answer :
       row.edge = visit[1] /\ row.direction = visit[2]
  /\ \A row \in answer : row.depth < BoundedDepth => FarEnd(row.edge, row.direction) \in reached
  /\ ~truncated =>
       /\ \A synset \in reached : Finished(synset) \/ \E item \in Items : item.synset = synset
       /\ current # <<>> => \A edge \in relations :
            Touches(edge, current[1].synset) /\ Allowed(edge) =>
              \/ EdgeVisit(edge, current[1].synset) \in seenEdges
              \/ \E n \in DOMAIN open : open[n] = edge

\* Breadth first the items wait in the order of their depths, of which there are
\* at most two.
OrderInv ==
  ~DepthFirst =>
    /\ \A m, n \in DOMAIN waiting : m < n => waiting[m].depth <= waiting[n].depth
    /\ \A m, n \in DOMAIN waiting : waiting[n].depth <= waiting[m].depth + 1
    /\ current # <<>> =>
         /\ \A n \in DOMAIN waiting : waiting[n].depth \in current[1].depth..(current[1].depth + 1)
         /\ \A n \in DOMAIN children : children[n].depth = current[1].depth + 1

GraphInv == ListsInv /\ SoundInv /\ FoundInv /\ OrderInv

-----------------------------------------------------------------------------
LEMMA DepthIsOneToThree ==
  ASSUME NEW depth \in Nat \cup {NotANumber}
  PROVE  Clamp(depth, 1, 3, 1) \in 1..3
<1>1. CASE depth = NotANumber
  BY <1>1 DEF Clamp
<1>2. CASE depth # NotANumber
  <2>1. PICK lower \in Nat : lower = IF depth <= 3 THEN depth ELSE 3
    BY <1>2
  <2>2. Min({3, depth}) = lower
    <3>1. lower \in {3, depth} /\ \A y \in {3, depth} : lower <= y
      BY <1>2, <2>1
    <3>2. \A x \in {3, depth} : (\A y \in {3, depth} : x <= y) => x = lower
      BY <1>2, <2>1
    <3> QED
      BY <3>1, <3>2 DEF Min
  <2>3. Max({1, lower}) \in 1..3
    <3>1. PICK upper \in Nat : upper = IF lower >= 1 THEN lower ELSE 1
      OBVIOUS
    <3>2. upper \in {1, lower} /\ \A y \in {1, lower} : upper >= y
      BY <3>1
    <3>3. \A x \in {1, lower} : (\A y \in {1, lower} : x >= y) => x = upper
      BY <3>1
    <3>4. Max({1, lower}) = upper
      BY <3>2, <3>3 DEF Max
    <3> QED
      BY <3>4, <3>1, <2>1, <1>2
  <2> QED
    BY <2>2, <2>3, <1>2 DEF Clamp
<1> QED
  BY <1>1, <1>2

\* A synset of the senses has a place of its own among them, where it is first met.
LEMMA FirstPlace ==
  ASSUME NEW partial \in Seq(Nat), NEW k \in DOMAIN partial,
         NEW n, n = CHOOSE m \in DOMAIN partial :
                  partial[m] = partial[k] /\ \A j \in 1..(m - 1) : partial[j] # partial[k]
  PROVE  n \in Nat /\ partial[n] = partial[k]
<1> DEFINE M == {m \in DOMAIN partial : partial[m] = partial[k]}
<1>1. DOMAIN partial = 1..Len(partial) /\ Len(partial) \in Nat
  BY LenProperties
<1>2. M \in SUBSET Nat /\ k \in M
  BY <1>1
<1>3. \E m \in M : \A j \in M : m <= j
  <2> HIDE DEF M
  <2> QED
    BY <1>2, LeastNumber
<1>4. PICK m \in M : \A j \in M : m <= j
  BY <1>3
<1>5. m \in DOMAIN partial /\ partial[m] = partial[k]
  BY <1>4
<1>6. \A j \in 1..(m - 1) : partial[j] # partial[k]
  <2> SUFFICES ASSUME NEW j \in 1..(m - 1), partial[j] = partial[k] PROVE FALSE
    OBVIOUS
  <2>1. m \in Nat /\ m <= Len(partial)
    BY <1>1, <1>5
  <2>2. j \in DOMAIN partial /\ j < m
    BY <1>1, <2>1
  <2>3. j \in M
    BY <2>2
  <2> QED
    BY <1>4, <2>1, <2>2, <2>3
<1>7. n \in DOMAIN partial /\ partial[n] = partial[k]
  BY <1>5, <1>6
<1> QED
  BY <1>1, <1>7

LEMMA SeedPlaces ==
  ASSUME NEW asked \in GraphRequests
  PROVE  /\ \A x \in SeedSynsets(asked) : SeedPlace(asked, x) \in Nat
         /\ \A x, y \in SeedSynsets(asked) :
              SeedPlace(asked, x) = SeedPlace(asked, y) => x = y
<1>1. asked.exact \subseteq Nat /\ asked.partial \in Seq(Nat)
  BY GraphAssumption
<1>2. CASE MatchState(asked) = "exact"
  <2>1. SeedSynsets(asked) = asked.exact /\ \A x : SeedPlace(asked, x) = x
    BY <1>2 DEF SeedSynsets, SeedPlace
  <2> QED
    BY <2>1, <1>1
<1>3. CASE MatchState(asked) # "exact"
  <2>1. PICK partial \in Seq(Nat) : partial = asked.partial
    BY <1>1
  <2>2. \A x \in SeedSynsets(asked) : \E k \in DOMAIN partial : x = partial[k]
    BY <1>3, <2>1 DEF SeedSynsets
  <2>3. \A x \in SeedSynsets(asked) :
          SeedPlace(asked, x) \in Nat /\ partial[SeedPlace(asked, x)] = x
    <3> SUFFICES ASSUME NEW x \in SeedSynsets(asked)
                 PROVE  SeedPlace(asked, x) \in Nat /\ partial[SeedPlace(asked, x)] = x
      OBVIOUS
    <3>1. PICK k \in DOMAIN partial : x = partial[k]
      BY <2>2
    <3>2. SeedPlace(asked, x) =
            CHOOSE m \in DOMAIN partial :
              partial[m] = partial[k] /\ \A j \in 1..(m - 1) : partial[j] # partial[k]
      BY <1>3, <2>1, <3>1 DEF SeedPlace
    <3>3. PICK n : n = SeedPlace(asked, x)
      OBVIOUS
    <3>4. n \in Nat /\ partial[n] = partial[k]
      BY <3>2, <3>3, FirstPlace
    <3> QED
      BY <3>1, <3>3, <3>4
  <2> QED
    BY <2>3
<1> QED
  BY <1>2, <1>3

LEMMA SeedsAreFinite ==
  ASSUME NEW asked \in GraphRequests
  PROVE  SeedSynsets(asked) \in SUBSET Nat /\ IsFiniteSet(SeedSynsets(asked))
<1>1. /\ IsFiniteSet(asked.exact) /\ asked.exact \subseteq Nat
      /\ asked.partial \in Seq(Nat)
  BY GraphAssumption
<1>2. CASE MatchState(asked) = "exact"
  BY <1>1, <1>2 DEF SeedSynsets
<1>3. CASE MatchState(asked) # "exact"
  <2>1. PICK partial \in Seq(Nat) : partial = asked.partial
    BY <1>1
  <2> DEFINE T == {m \in DOMAIN partial : m <= PartialLimit}
  <2>2. SeedSynsets(asked) = {partial[m] : m \in T}
    BY <1>3, <2>1 DEF SeedSynsets
  <2>3. DOMAIN partial = 1..Len(partial) /\ Len(partial) \in Nat
    BY LenProperties
  <2>4. IsFiniteSet(1..Len(partial)) /\ T \subseteq 1..Len(partial)
    BY <2>3, FS_Interval
  <2>5. \A m \in T : partial[m] \in Nat
    BY <2>3, ElementOfSeq
  <2> HIDE DEF T
  <2>6. IsFiniteSet(T)
    BY <2>4, FS_Subset
  <2>7. IsFiniteSet({partial[m] : m \in T})
    BY <2>6, ImageIsFinite
  <2> QED
    BY <2>2, <2>5, <2>7
<1> QED
  BY <1>2, <1>3

LEMMA SynsetsInOrder ==
  ASSUME NEW asked \in GraphRequests, NEW order, order = InOrder(SeedsBefore(asked))
  PROVE  /\ order \in Seq(SeedSynsets(asked))
         /\ \A x \in SeedSynsets(asked) : \E n \in DOMAIN order : order[n] = x
<1> DEFINE S == SeedSynsets(asked)
           R == {p \in S \X S : SeedPlace(asked, p[1]) < SeedPlace(asked, p[2])}
<1>1. \A x, y \in S : <<y, x>> \in R <=> SeedPlace(asked, y) < SeedPlace(asked, x)
  OBVIOUS
<1>2. IsFiniteSet(S)
  BY SeedsAreFinite
<1>3. /\ \A x \in S : SeedPlace(asked, x) \in Nat
      /\ \A x, y \in S : SeedPlace(asked, x) = SeedPlace(asked, y) => x = y
  BY SeedPlaces
<1>4. SeedsBefore(asked) = [x \in S |-> Cardinality({y \in S : SeedPlace(asked, y) < SeedPlace(asked, x)})]
  BY DEF SeedsBefore
<1> HIDE DEF R, S
<1>5. TotallyOrders(R, S)
  BY <1>1, <1>3 DEF TotallyOrders
<1>6. \A x \in S : {y \in S : SeedPlace(asked, y) < SeedPlace(asked, x)} = {y \in S : <<y, x>> \in R}
  BY <1>1
<1>7. SeedsBefore(asked) = RanksUnder(R, S)
  BY <1>4, <1>6 DEF RanksUnder
<1>8. order \in Seq(S) /\ \A x \in S : \E n \in DOMAIN order : order[n] = x
  BY <1>2, <1>5, <1>7, ElementsInOrder
<1> QED
  BY <1>8 DEF S

LEMMA RelationsInOrder ==
  ASSUME NEW S \in SUBSET [type : Nat, source : Nat, target : Nat], IsFiniteSet(S),
         NEW order, order = InOrder(EdgesBefore(S))
  PROVE  order \in Seq(S) /\ \A x \in S : \E n \in DOMAIN order : order[n] = x
<1> DEFINE R == {p \in S \X S : EdgeBefore(p[1], p[2])}
<1>1. \A x, y \in S : <<y, x>> \in R <=> EdgeBefore(y, x)
  OBVIOUS
<1> HIDE DEF R
<1>2. \A x \in S : x.type \in Nat /\ x.source \in Nat /\ x.target \in Nat
  OBVIOUS
<1>3. \A x, y \in S :
        x.type = y.type /\ x.source = y.source /\ x.target = y.target => x = y
  OBVIOUS
<1>4. \A x \in S : <<x, x>> \notin R
  BY <1>1, <1>2 DEF EdgeBefore
<1>5. \A x, y, z \in S : <<x, y>> \in R /\ <<y, z>> \in R => <<x, z>> \in R
  BY <1>1, <1>2 DEF EdgeBefore
<1>6. \A x, y \in S : x = y \/ <<x, y>> \in R \/ <<y, x>> \in R
  <2> SUFFICES ASSUME NEW x \in S, NEW y \in S, ~ EdgeBefore(x, y), ~ EdgeBefore(y, x)
               PROVE  x = y
    BY <1>1
  <2>1. x.type = y.type /\ x.source = y.source /\ x.target = y.target
    BY <1>2 DEF EdgeBefore
  <2> QED
    BY <2>1, <1>3
<1>7. \A x \in S : {y \in S : EdgeBefore(y, x)} = {y \in S : <<y, x>> \in R}
  BY <1>1
<1>8. EdgesBefore(S) = RanksUnder(R, S)
  BY <1>7 DEF EdgesBefore, RanksUnder
<1> QED
  BY <1>4, <1>5, <1>6, <1>8, ElementsInOrder DEF TotallyOrders

-----------------------------------------------------------------------------
LEMMA EmptyHasNone == ElementsOf(<< >>) = {}
BY DEF ElementsOf

LEMMA SingleHasOne == ASSUME NEW x PROVE ElementsOf(<<x>>) = {x}
BY DEF ElementsOf

LEMMA HeadAndTail ==
  ASSUME NEW S, NEW list \in Seq(S), list # << >>
  PROVE  /\ Head(list) = list[1] /\ Head(list) \in S /\ Head(list) \in ElementsOf(list)
         /\ Tail(list) \in Seq(S)
         /\ ElementsOf(list) = {Head(list)} \cup ElementsOf(Tail(list))
         /\ \A n \in DOMAIN Tail(list) : n + 1 \in DOMAIN list /\ Tail(list)[n] = list[n + 1]
<1>1. PICK size \in Nat : size = Len(list) /\ size > 0 /\ DOMAIN list = 1..size
  BY EmptySeq, LenProperties
<1>2. /\ Head(list) = list[1] /\ list[1] \in S /\ Tail(list) \in Seq(S)
      /\ DOMAIN Tail(list) = 1..(size - 1)
      /\ \A n \in 1..(size - 1) : Tail(list)[n] = list[n + 1]
  BY <1>1, HeadTailProperties, LenProperties, ElementOfSeq
<1>3. \A n \in 1..size : n = 1 \/ (n - 1 \in 1..(size - 1) /\ n = (n - 1) + 1)
  BY <1>1
<1>4. \A n \in 1..(size - 1) : n + 1 \in 1..size
  BY <1>1
<1>5. 1 \in 1..size
  BY <1>1
<1>6. ElementsOf(list) = {list[n] : n \in 1..size}
  BY <1>1 DEF ElementsOf
<1>7. ElementsOf(Tail(list)) = {list[n + 1] : n \in 1..(size - 1)}
  BY <1>2 DEF ElementsOf
<1>8. ElementsOf(list) \subseteq {list[1]} \cup ElementsOf(Tail(list))
  BY <1>3, <1>6, <1>7
<1>9. {list[1]} \cup ElementsOf(Tail(list)) \subseteq ElementsOf(list)
  BY <1>4, <1>5, <1>6, <1>7
<1> QED
  BY <1>1, <1>2, <1>4, <1>8, <1>9

LEMMA Appended ==
  ASSUME NEW S, NEW list \in Seq(S), NEW x \in S
  PROVE  /\ Append(list, x) \in Seq(S)
         /\ ElementsOf(Append(list, x)) = ElementsOf(list) \cup {x}
<1>1. PICK size \in Nat : size = Len(list) /\ DOMAIN list = 1..size
  BY LenProperties
<1>2. /\ Append(list, x) \in Seq(S)
      /\ DOMAIN Append(list, x) = 1..(size + 1)
      /\ \A n \in 1..size : Append(list, x)[n] = list[n]
      /\ Append(list, x)[size + 1] = x
  BY <1>1, AppendProperties, LenProperties
<1>3. \A n \in 1..(size + 1) : n \in 1..size \/ n = size + 1
  BY <1>1
<1>4. size + 1 \in 1..(size + 1) /\ \A n \in 1..size : n \in 1..(size + 1)
  BY <1>1
<1> QED
  BY <1>1, <1>2, <1>3, <1>4 DEF ElementsOf

LEMMA Joined ==
  ASSUME NEW S, NEW list \in Seq(S), NEW more \in Seq(S)
  PROVE  /\ list \o more \in Seq(S)
         /\ ElementsOf(list \o more) = ElementsOf(list) \cup ElementsOf(more)
         /\ \A n \in DOMAIN (list \o more) :
              \/ n \in DOMAIN list /\ (list \o more)[n] = list[n]
              \/ /\ n - Len(list) \in DOMAIN more /\ n > Len(list)
                 /\ (list \o more)[n] = more[n - Len(list)]
<1>1. PICK size \in Nat : size = Len(list) /\ DOMAIN list = 1..size
  BY LenProperties
<1>2. PICK rest \in Nat : rest = Len(more) /\ DOMAIN more = 1..rest
  BY LenProperties
<1> DEFINE both == list \o more
<1>3. /\ both \in Seq(S)
      /\ DOMAIN both = 1..(size + rest)
      /\ \A n \in 1..(size + rest) : both[n] = IF n <= size THEN list[n] ELSE more[n - size]
  BY <1>1, <1>2, ConcatProperties, LenProperties
<1> HIDE DEF both
<1>4. \A n \in 1..(size + rest) :
        \/ n \in 1..size /\ both[n] = list[n]
        \/ n - size \in 1..rest /\ n > size /\ both[n] = more[n - size]
  BY <1>1, <1>2, <1>3
<1>5. /\ \A n \in 1..size : n \in 1..(size + rest) /\ both[n] = list[n]
      /\ \A n \in 1..rest : n + size \in 1..(size + rest) /\ both[n + size] = more[n]
  <2>1. \A n \in 1..rest : n + size \in 1..(size + rest) /\ ~ (n + size <= size) /\ (n + size) - size = n
    OBVIOUS
  <2>2. \A n \in 1..size : n \in 1..(size + rest) /\ n <= size
    OBVIOUS
  <2> QED
    BY <2>1, <2>2, <1>3
<1>6. ElementsOf(both) = ElementsOf(list) \cup ElementsOf(more)
  <2>1. ElementsOf(both) \subseteq ElementsOf(list) \cup ElementsOf(more)
    BY <1>1, <1>2, <1>3, <1>4 DEF ElementsOf
  <2>2. ElementsOf(list) \subseteq ElementsOf(both)
    BY <1>1, <1>3, <1>5 DEF ElementsOf
  <2>3. ASSUME NEW x \in ElementsOf(more) PROVE x \in ElementsOf(both)
    <3>1. PICK n \in 1..rest : x = more[n]
      BY <1>2 DEF ElementsOf
    <3>2. n + size \in DOMAIN both /\ both[n + size] = x
      BY <3>1, <1>3, <1>5
    <3> QED
      BY <3>2 DEF ElementsOf
  <2> QED
    BY <2>1, <2>2, <2>3
<1> QED
  BY <1>1, <1>2, <1>3, <1>4, <1>6 DEF both

-----------------------------------------------------------------------------
LEMMA WithinGrows ==
  ASSUME NEW near \in 0..2, NEW far \in 0..2, near <= far
  PROVE  Within(near) \subseteq Within(far)
<1>1. Within(0) \subseteq Within(1) /\ Within(1) \subseteq Within(2)
  BY DEF Within, Around
<1>2. \/ near = far
      \/ near = 0 /\ far = 1
      \/ near = 1 /\ far = 2
      \/ near = 0 /\ far = 2
  OBVIOUS
<1> QED
  BY <1>1, <1>2

LEMMA WithinIsAround ==
  ASSUME NEW distance \in 0..1
  PROVE  Within(distance + 1) = Around(Within(distance))
<1>1. distance = 0 \/ distance = 1
  OBVIOUS
<1> QED
  BY <1>1 DEF Within

LEMMA OneFarther ==
  ASSUME NEW distance \in 0..1, NEW edge \in relations, Allowed(edge),
         NEW near \in Within(distance), Touches(edge, near)
  PROVE  Neighbor(edge, near) \in Within(distance + 1)
<1>1. Neighbor(edge, near) \in {edge.source, edge.target}
  BY DEF Neighbor
<1>2. Neighbor(edge, near) \in Around(Within(distance))
  BY <1>1 DEF Around, Touches
<1> QED
  BY <1>2, WithinIsAround

LEMMA OneNearer ==
  ASSUME NEW distance \in 0..1, NEW synset \in Within(distance + 1), synset \notin Within(distance)
  PROVE  \E edge \in relations : \E near \in Within(distance) :
           Touches(edge, near) /\ Allowed(edge) /\ synset = Neighbor(edge, near)
<1>1. synset \in Around(Within(distance))
  BY WithinIsAround
<1> QED
  BY <1>1 DEF Around, Touches

LEMMA OneDistance ==
  ASSUME NEW synset, NEW near \in 0..2, NEW far \in 0..2,
         Exactly(synset, near), synset \in Within(far)
  PROVE  near <= far
<1> SUFFICES ASSUME far < near PROVE FALSE
  OBVIOUS
<1>1. near - 1 \in 0..2 /\ far <= near - 1 /\ near > 0
  OBVIOUS
<1>2. synset \in Within(near - 1)
  BY <1>1, WithinGrows
<1> QED
  BY <1>1, <1>2 DEF Exactly

\* A step that keeps the lexicon and the request keeps what they determine.
LEMMA SameGraph ==
  ASSUME UNCHANGED <<relations, request>>
  PROVE  /\ BoundedDepth' = BoundedDepth
         /\ DepthFirst' <=> DepthFirst
         /\ \A edge : Allowed(edge)' <=> Allowed(edge)
         /\ \A distance : Within(distance)' = Within(distance)
         /\ \A item : GoodItem(item)' <=> GoodItem(item)
         /\ \A row : GoodRow(row)' <=> GoodRow(row)
         /\ SeedSynsets(request)' = SeedSynsets(request)
<1>1. /\ BoundedDepth' = BoundedDepth
      /\ DepthFirst' <=> DepthFirst
      /\ \A edge : Allowed(edge)' <=> Allowed(edge)
  BY DEF BoundedDepth, DepthFirst, Allowed
<1>2. SeedSynsets(request)' = SeedSynsets(request)
  OBVIOUS
<1>3. \A part : Around(part)' = Around(part)
  BY <1>1 DEF Around
<1>4. \A distance : Within(distance)' = Within(distance)
  BY <1>2, <1>3 DEF Within
<1>5. \A synset, distance : Exactly(synset, distance)' <=> Exactly(synset, distance)
  BY <1>4 DEF Exactly
<1>6. \A left, right : Linked(left, right)' <=> Linked(left, right)
  BY <1>1 DEF Linked
<1>7. \A path, depth : GoodPath(path, depth)' <=> GoodPath(path, depth)
  BY <1>2, <1>6 DEF GoodPath
<1>8. \A item : GoodItem(item)' <=> GoodItem(item)
  BY <1>1, <1>4, <1>5, <1>7 DEF GoodItem
<1>9. \A row : GoodRow(row)' <=> GoodRow(row)
  BY <1>1, <1>4, <1>5, <1>7 DEF GoodRow
<1> QED
  BY <1>1, <1>2, <1>4, <1>8, <1>9

-----------------------------------------------------------------------------
LEMMA GraphStarts == GraphInit => GraphInv
<1> SUFFICES ASSUME GraphInit PROVE GraphInv
  OBVIOUS
<1>1. Items = {}
  BY EmptyHasNone DEF GraphInit, Items
<1>2. << >> \in Seq(WalkItems) /\ << >> \in Seq(relations) /\ Len(<< >>) = 0
  BY EmptySeq
<1>3. ListsInv
  BY <1>1, <1>2 DEF GraphInit, ListsInv
<1>4. SoundInv
  BY <1>1 DEF GraphInit, SoundInv
<1>5. FoundInv
  BY <1>1 DEF GraphInit, FoundInv
<1>6. OrderInv
  BY EmptySeq DEF GraphInit, OrderInv
<1> QED
  BY <1>3, <1>4, <1>5, <1>6 DEF GraphInv

LEMMA QueryKeeps ==
  ASSUME GraphInv, NEW lexicon \in RelationSets, NEW asked \in GraphRequests,
         QueryPublicSemanticGraph(lexicon, asked)
  PROVE  GraphInv'
<1>1. /\ walking = "idle" /\ walking' = "walking" /\ relations' = lexicon /\ request' = asked
      /\ reached' = SeedSynsets(asked)
      /\ UNCHANGED <<current, open, children, seenEdges, answer, truncated>>
  BY DEF QueryPublicSemanticGraph
<1>2. /\ Items = {} /\ answer = {} /\ seenEdges = {}
      /\ current \in Seq(WalkItems) /\ children \in Seq(WalkItems)
      /\ open \in Seq(relations)
  BY <1>1 DEF GraphInv, ListsInv
<1>3. current = << >> /\ children = << >>
  <2>1. DOMAIN current = {}
    BY <1>2 DEF Items, ElementsOf
  <2>2. current = << >>
    BY <1>2, <2>1, EmptySeq, LenProperties
  <2> QED
    BY <2>2 DEF GraphInv, ListsInv
<1>4. open = << >>
  BY <1>3 DEF GraphInv, ListsInv
<1>5. PICK order : order = InOrder(SeedsBefore(asked))
  OBVIOUS
<1>6. waiting' = [n \in DOMAIN order |-> [synset |-> order[n], path |-> <<order[n]>>, depth |-> 0]]
  BY <1>5 DEF QueryPublicSemanticGraph
<1>7. /\ order \in Seq(SeedSynsets(asked))
      /\ \A x \in SeedSynsets(asked) : \E n \in DOMAIN order : order[n] = x
  BY <1>5, SynsetsInOrder
<1>8. \A n \in DOMAIN order : order[n] \in SeedSynsets(asked) /\ order[n] \in Nat
  BY <1>7, SeedsAreFinite, ElementOfSeq, LenProperties
<1>9. \A n \in DOMAIN waiting' :
        /\ waiting'[n] \in WalkItems
        /\ waiting'[n].depth = 0
        /\ waiting'[n].synset \in SeedSynsets(asked)
        /\ waiting'[n].path = <<waiting'[n].synset>>
  BY <1>6, <1>8 DEF WalkItems
<1>10. waiting' \in Seq(WalkItems)
  <2>1. DOMAIN waiting' = 1..Len(order) /\ Len(order) \in Nat
    BY <1>6, <1>7, LenProperties
  <2>2. waiting' \in [1..Len(order) -> WalkItems]
    BY <2>1, <1>6, <1>9
  <2> QED
    BY <2>1, <2>2
<1>11. Items' = ElementsOf(waiting')
  BY <1>1, <1>3, EmptyHasNone DEF Items
<1>12. \A item \in Items' :
         /\ item \in WalkItems /\ item.depth = 0
         /\ item.synset \in SeedSynsets(asked) /\ item.path = <<item.synset>>
  BY <1>9, <1>11 DEF ElementsOf
<1>13. BoundedDepth' \in 1..3
  BY <1>1, DepthIsOneToThree, GraphAssumption DEF BoundedDepth
<1>14. ASSUME NEW item \in Items' PROVE GoodItem(item)'
  <2>1. item.synset \in Within(0)'
    BY <1>1, <1>12 DEF Within
  <2>2. Exactly(item.synset, 0)'
    BY <2>1 DEF Exactly
  <2>3. item.path = <<item.synset>> /\ item.synset \in Nat
    BY <1>12, SeedsAreFinite
  <2>4. item.path \in Seq(Nat) /\ Len(item.path) = 1 /\ item.path[1] = item.synset
    BY <2>3
  <2>5. GoodPath(item.path, 0)'
    BY <2>4, <1>12, <1>1 DEF GoodPath
  <2> QED
    BY <1>12, <1>13, <2>1, <2>2, <2>4, <2>5 DEF GoodItem
<1>15. ListsInv'
  <2>1. << >> \in Seq(lexicon) /\ Len(<< >>) = 0
    BY EmptySeq
  <2> QED
    BY <1>1, <1>2, <1>3, <1>4, <1>10, <2>1 DEF ListsInv
<1>16. SoundInv'
  BY <1>1, <1>2, <1>3, <1>14 DEF SoundInv
<1>17. FoundInv'
  <2>1. \A synset \in reached' : \E item \in Items' : item.synset = synset
    <3> SUFFICES ASSUME NEW synset \in SeedSynsets(asked)
                 PROVE  \E item \in Items' : item.synset = synset
      BY <1>1
    <3>1. PICK n \in DOMAIN order : order[n] = synset
      BY <1>7
    <3>2. n \in DOMAIN waiting' /\ waiting'[n].synset = synset
      BY <3>1, <1>6
    <3> QED
      BY <3>2, <1>11 DEF ElementsOf
  <2> QED
    BY <1>1, <1>2, <1>3, <2>1 DEF FoundInv
<1>18. OrderInv'
  BY <1>1, <1>3, <1>9 DEF OrderInv
<1> QED
  BY <1>15, <1>16, <1>17, <1>18 DEF GraphInv

\* What the invariant says of the parameters of a walk.
LEMMA WalkTypes ==
  ASSUME GraphInv, walking = "walking"
  PROVE  /\ BoundedDepth \in 1..3
         /\ IsFiniteSet(relations) /\ relations \in SUBSET [type : Nat, source : Nat, target : Nat]
<1>1. relations \in RelationSets \cup {{}} /\ request \in GraphRequests
  BY DEF GraphInv, ListsInv
<1>2. relations \in SUBSET Relations
  BY <1>1, GraphAssumption
<1> QED
  BY <1>1, <1>2, GraphAssumption, FS_Subset, DepthIsOneToThree DEF BoundedDepth

\* Breadth first, what lies as near as every item is reached.
LEMMA ReachedWithin ==
  ASSUME GraphInv, walking = "walking", ~truncated, ~DepthFirst,
         NEW depth \in 0..2, depth < BoundedDepth,
         \A item \in Items : item.depth >= depth
  PROVE  Within(depth) \subseteq reached
<1>1. Within(0) \subseteq reached
  BY DEF GraphInv, FoundInv, Within
<1>2. ASSUME NEW near \in 0..1, near < depth, Within(near) \subseteq reached
      PROVE  Within(near + 1) \subseteq reached
  <2> SUFFICES ASSUME NEW synset \in Within(near + 1), synset \notin Within(near)
               PROVE  synset \in reached
    BY <1>2
  <2>1. PICK edge \in relations, other \in Within(near) :
          Touches(edge, other) /\ Allowed(edge) /\ synset = Neighbor(edge, other)
    BY OneNearer
  <2>2. Finished(other)
    <3>1. SUFFICES ASSUME NEW item \in Items, item.synset = other PROVE FALSE
      BY <1>2 DEF GraphInv, FoundInv
    <3>2. item.depth \in 0..2 /\ Exactly(other, item.depth)
      <4>1. item \in WalkItems
        BY ElementOfSeq, LenProperties DEF GraphInv, ListsInv, Items, ElementsOf
      <4>2. GoodItem(item)
        BY DEF GraphInv, SoundInv
      <4> QED
        BY <3>1, <4>1, <4>2, WalkTypes DEF GoodItem, WalkItems
    <3>3. item.depth <= near
      BY <3>2, OneDistance
    <3> QED
      BY <3>2, <3>3, <1>2
  <2>3. PICK row \in answer : row.edge = edge /\ row.direction = Direction(edge, other)
    BY <2>1, <2>2 DEF Finished, EdgeVisit, GraphInv, FoundInv
  <2>4. NearEnd(row.edge, row.direction) = other /\ FarEnd(row.edge, row.direction) = synset
    BY <2>1, <2>3 DEF NearEnd, FarEnd, Direction, Touches, Neighbor
  <2>5. row.depth \in 1..3 /\ Exactly(other, row.depth - 1)
    BY <2>4, WalkTypes DEF GraphInv, SoundInv, GoodRow
  <2>6. row.depth - 1 <= near
    BY <2>5, OneDistance
  <2>7. row.depth < BoundedDepth
    BY <2>5, <2>6, <1>2, WalkTypes
  <2> QED
    BY <2>4, <2>7 DEF GraphInv, FoundInv
<1>3. CASE depth = 0
  BY <1>1, <1>3
<1>4. CASE depth = 1
  BY <1>1, <1>2, <1>4
<1>5. CASE depth = 2
  BY <1>1, <1>2, <1>5
<1> QED
  BY <1>3, <1>4, <1>5

LEMMA TakeNodeKeeps == ASSUME GraphInv, TakeNode PROVE GraphInv'
<1> DEFINE head == Head(waiting)
<1>1. /\ walking = "walking" /\ current = << >> /\ waiting # << >> /\ ~truncated
      /\ waiting' = Tail(waiting) /\ children' = << >>
      /\ UNCHANGED <<relations, request, reached, seenEdges, answer, truncated, walking>>
  BY DEF TakeNode
<1>2. children = << >> /\ open = << >> /\ waiting \in Seq(WalkItems)
  BY <1>1 DEF GraphInv, ListsInv
<1>3. /\ head = waiting[1] /\ head \in WalkItems /\ head \in ElementsOf(waiting)
      /\ Tail(waiting) \in Seq(WalkItems)
      /\ ElementsOf(waiting) = {head} \cup ElementsOf(Tail(waiting))
      /\ \A n \in DOMAIN Tail(waiting) :
           n + 1 \in DOMAIN waiting /\ Tail(waiting)[n] = waiting[n + 1]
  BY <1>1, <1>2, HeadAndTail
<1>4. head \in Items /\ GoodItem(head)
  BY <1>3 DEF Items, GraphInv, SoundInv
<1>5. current' = <<head>> /\ open' = EdgesOf(head.synset)
  BY <1>4 DEF GoodItem, TakeNode
<1> HIDE DEF head
<1>6. Items' = Items
  <2>1. Items' = ElementsOf(Tail(waiting)) \cup ElementsOf(<<head>>) \cup ElementsOf(<< >>)
    BY <1>1, <1>5 DEF Items
  <2>2. Items = ElementsOf(waiting) \cup ElementsOf(<< >>) \cup ElementsOf(<< >>)
    BY <1>1, <1>2 DEF Items
  <2> QED
    BY <2>1, <2>2, <1>3, EmptyHasNone, SingleHasOne
<1>7. /\ EdgesOf(head.synset) \in Seq(relations)
      /\ \A edge \in relations : Touches(edge, head.synset) =>
           \E n \in DOMAIN EdgesOf(head.synset) : EdgesOf(head.synset)[n] = edge
      /\ \A n \in DOMAIN EdgesOf(head.synset) : Touches(EdgesOf(head.synset)[n], head.synset)
  <2>1. PICK part : part = {edge \in relations : head.synset \in {edge.source, edge.target}}
    OBVIOUS
  <2>2. part \in SUBSET [type : Nat, source : Nat, target : Nat] /\ IsFiniteSet(part)
    BY <2>1, <1>1, WalkTypes, FS_Subset
  <2>3. EdgesOf(head.synset) = InOrder(EdgesBefore(part))
    BY <2>1 DEF EdgesOf
  <2>4. /\ EdgesOf(head.synset) \in Seq(part)
        /\ \A x \in part : \E n \in DOMAIN EdgesOf(head.synset) : EdgesOf(head.synset)[n] = x
    BY <2>2, <2>3, RelationsInOrder
  <2>5. \A n \in DOMAIN EdgesOf(head.synset) : EdgesOf(head.synset)[n] \in part
    BY <2>4, ElementOfSeq, LenProperties
  <2>6. EdgesOf(head.synset) \in Seq(relations)
    BY <2>1, <2>4, SeqMonotonic
  <2> QED
    BY <2>1, <2>4, <2>5, <2>6 DEF Touches
<1>8. current'[1] = head /\ current' # << >> /\ current' \in Seq(WalkItems) /\ Len(current') = 1
  BY <1>3, <1>5
<1>9. ListsInv'
  <2>1. << >> \in Seq(WalkItems)
    BY EmptySeq
  <2> QED
    BY <1>1, <1>2, <1>3, <1>5, <1>7, <1>8, <2>1 DEF GraphInv, ListsInv
<1>10. SoundInv'
  BY <1>1, <1>5, <1>6, <1>7, <1>8, SameGraph DEF GraphInv, SoundInv
<1>11. \A synset : Finished(synset)' <=> Finished(synset)
  BY <1>1, SameGraph DEF Finished, EdgeVisit, Direction
<1>12. FoundInv'
  BY <1>1, <1>5, <1>6, <1>7, <1>8, <1>11, SameGraph DEF GraphInv, FoundInv
<1>13. OrderInv'
  <2> SUFFICES ASSUME ~DepthFirst PROVE OrderInv'
    BY <1>1, SameGraph DEF OrderInv
  <2>1. \A n \in DOMAIN waiting : n \in Nat /\ 1 <= n /\ waiting[n].depth \in Nat
    <3>1. \A n \in DOMAIN waiting : n \in Nat /\ 1 <= n /\ waiting[n] \in WalkItems
      BY <1>2, LenProperties, ElementOfSeq
    <3>2. \A item \in WalkItems : item.depth \in Nat
      BY DEF WalkItems
    <3> QED
      BY <3>1, <3>2
  <2>2. 1 \in DOMAIN waiting
    BY <1>1, <1>2, LenProperties, EmptySeq
  <2>3. /\ \A m, n \in DOMAIN waiting : m < n => waiting[m].depth <= waiting[n].depth
        /\ \A m, n \in DOMAIN waiting : waiting[n].depth <= waiting[m].depth + 1
    BY DEF GraphInv, OrderInv
  <2>4. \A n \in DOMAIN waiting : waiting[n].depth \in head.depth..(head.depth + 1)
    BY <2>1, <2>2, <2>3, <1>3
  <2>5. \A n \in DOMAIN waiting' : n \in Nat /\ n + 1 \in DOMAIN waiting /\ waiting'[n] = waiting[n + 1]
    BY <1>1, <1>3, LenProperties
  <2>6. \A m, n \in DOMAIN waiting' : m < n => waiting'[m].depth <= waiting'[n].depth
    BY <2>3, <2>5
  <2>7. \A m, n \in DOMAIN waiting' : waiting'[n].depth <= waiting'[m].depth + 1
    BY <2>3, <2>5
  <2>8. DOMAIN children' = {}
    BY <1>1
  <2> QED
    BY <2>4, <2>5, <2>6, <2>7, <2>8, <1>8 DEF OrderInv
<1> QED
  BY <1>9, <1>10, <1>12, <1>13 DEF GraphInv

\* The node at hand is the only one there is.
LEMMA AtHand ==
  ASSUME GraphInv, walking = "walking", current # << >>
  PROVE  /\ ElementsOf(current) = {current[1]} /\ current[1] \in Items
         /\ current[1] \in WalkItems /\ GoodItem(current[1])
         /\ waiting \in Seq(WalkItems) /\ children \in Seq(WalkItems) /\ open \in Seq(relations)
         /\ \A n \in DOMAIN waiting : waiting[n] \in WalkItems /\ waiting[n].depth \in Nat
         /\ \A n \in DOMAIN children : children[n] \in WalkItems /\ children[n].depth \in Nat
<1>1. /\ current \in Seq(WalkItems) /\ Len(current) <= 1
      /\ waiting \in Seq(WalkItems) /\ children \in Seq(WalkItems) /\ open \in Seq(relations)
  BY DEF GraphInv, ListsInv
<1>2. DOMAIN current = {1}
  <2>1. Len(current) = 1
    <3>1. PICK size \in Nat : size = Len(current)
      BY <1>1, LenProperties
    <3>2. size # 0
      BY <1>1, <3>1, EmptySeq
    <3>3. size <= 1
      BY <1>1, <3>1
    <3>4. size = 1
      BY <3>2, <3>3
    <3> QED
      BY <3>1, <3>4
  <2> QED
    BY <1>1, <2>1, LenProperties
<1>3. ElementsOf(current) = {current[1]} /\ current[1] \in WalkItems
  BY <1>1, <1>2, ElementOfSeq, LenProperties DEF ElementsOf
<1>4. \A item \in WalkItems : item.depth \in Nat
  BY DEF WalkItems
<1>5. current[1] \in Items /\ GoodItem(current[1])
  BY <1>3 DEF Items, GraphInv, SoundInv
<1>6. /\ \A n \in DOMAIN waiting : waiting[n] \in WalkItems
      /\ \A n \in DOMAIN children : children[n] \in WalkItems
  BY <1>1, ElementOfSeq, LenProperties
<1> QED
  BY <1>1, <1>3, <1>4, <1>5, <1>6

LEMMA FinishNodeKeeps == ASSUME GraphInv, FinishNode PROVE GraphInv'
<1>1. /\ walking = "walking" /\ current # << >>
      /\ open = << >> \/ truncated
      /\ current' = << >> /\ open' = << >> /\ children' = << >>
      /\ UNCHANGED <<relations, request, reached, seenEdges, answer, truncated, walking>>
  BY DEF FinishNode
<1>2. waiting' = IF DepthFirst THEN children \o waiting ELSE waiting \o children
  BY DEF FinishNode
<1> DEFINE node == current[1]
<1>3. ElementsOf(current) = {node} /\ waiting \in Seq(WalkItems) /\ children \in Seq(WalkItems)
  BY <1>1, AtHand
<1>4. waiting' \in Seq(WalkItems) /\ ElementsOf(waiting') = ElementsOf(waiting) \cup ElementsOf(children)
  <2>1. children \o waiting \in Seq(WalkItems) /\ waiting \o children \in Seq(WalkItems)
    BY <1>3, Joined
  <2>2. /\ ElementsOf(children \o waiting) = ElementsOf(children) \cup ElementsOf(waiting)
        /\ ElementsOf(waiting \o children) = ElementsOf(waiting) \cup ElementsOf(children)
    BY <1>3, Joined
  <2> QED
    BY <1>2, <2>1, <2>2
<1>5. Items' = ElementsOf(waiting) \cup ElementsOf(children) /\ Items = Items' \cup {node}
  <2>1. Items' = ElementsOf(waiting') \cup ElementsOf(<< >>) \cup ElementsOf(<< >>)
    BY <1>1 DEF Items
  <2> QED
    BY <2>1, <1>3, <1>4, EmptyHasNone DEF Items
<1> HIDE DEF node
<1>6. ListsInv'
  <2>1. << >> \in Seq(WalkItems) /\ << >> \in Seq(relations) /\ Len(<< >>) = 0
    BY EmptySeq
  <2> QED
    BY <1>1, <1>4, <2>1 DEF GraphInv, ListsInv
<1>7. SoundInv'
  BY <1>1, <1>5, SameGraph DEF GraphInv, SoundInv
<1>8. \A synset : Finished(synset)' <=> Finished(synset)
  BY <1>1, SameGraph DEF Finished, EdgeVisit, Direction
<1>9. FoundInv'
  <2>1. ASSUME ~truncated PROVE Finished(node.synset)
    <3>1. open = << >> /\ DOMAIN open = {}
      BY <1>1, <2>1
    <3> QED
      BY <1>1, <2>1, <3>1 DEF GraphInv, FoundInv, Finished, node
  <2>2. ~truncated => \A synset \in reached :
                        Finished(synset) \/ \E item \in Items' : item.synset = synset
    BY <2>1, <1>5 DEF GraphInv, FoundInv
  <2> QED
    BY <1>1, <1>8, <2>2, SameGraph DEF GraphInv, FoundInv
<1>10. OrderInv'
  <2> SUFFICES ASSUME ~DepthFirst PROVE OrderInv'
    BY <1>1, SameGraph DEF OrderInv
  <2>1. PICK level \in Nat : level = node.depth
    BY <1>1, AtHand DEF WalkItems, node
  <2>2. /\ \A m, n \in DOMAIN waiting : m < n => waiting[m].depth <= waiting[n].depth
        /\ \A n \in DOMAIN waiting : waiting[n].depth \in level..(level + 1)
        /\ \A n \in DOMAIN children : children[n].depth = level + 1
    BY <1>1, <2>1 DEF GraphInv, OrderInv, node
  <2>3. waiting' = waiting \o children
    BY <1>2
  <2>4. PICK size \in Nat : size = Len(waiting) /\ DOMAIN waiting = 1..size
    BY <1>3, LenProperties
  <2>5. \A n \in DOMAIN waiting' :
          \/ n \in 1..size /\ waiting'[n] = waiting[n]
          \/ n > size /\ waiting'[n].depth = level + 1
    BY <1>3, <2>2, <2>3, <2>4, Joined
  <2>6. \A n \in DOMAIN waiting' : n \in Nat /\ waiting'[n].depth \in level..(level + 1)
    <3>1. \A n \in DOMAIN waiting' : n \in Nat
      BY <1>4, LenProperties
    <3> QED
      BY <3>1, <2>2, <2>4, <2>5
  <2>7. ASSUME NEW m \in DOMAIN waiting', NEW n \in DOMAIN waiting', m < n
        PROVE  waiting'[m].depth <= waiting'[n].depth
    <3>1. CASE n > size
      BY <3>1, <2>5, <2>6, <2>4
    <3>2. CASE n <= size
      <4>1. m \in 1..size /\ n \in 1..size
        BY <3>2, <2>4, <2>5, <2>6, <2>7
      <4>2. waiting'[m] = waiting[m] /\ waiting'[n] = waiting[n]
        BY <4>1, <2>5
      <4> QED
        BY <4>1, <4>2, <2>2, <2>4, <2>7
    <3> QED
      BY <3>1, <3>2, <2>4, <2>6
  <2>8. \A m, n \in DOMAIN waiting' : waiting'[n].depth <= waiting'[m].depth + 1
    BY <2>6
  <2> QED
    BY <1>1, <2>7, <2>8 DEF OrderInv
<1> QED
  BY <1>6, <1>7, <1>9, <1>10 DEF GraphInv

-----------------------------------------------------------------------------
\* The path, the row and the child a relation of the node at hand gives.
LEMMA OneStepOn ==
  ASSUME GraphInv, walking = "walking", current # << >>,
         NEW edge \in relations, Allowed(edge), Touches(edge, current[1].synset),
         NEW neighbor, neighbor = Neighbor(edge, current[1].synset),
         NEW level, level = current[1].depth + 1,
         NEW path, path = Append(current[1].path, neighbor)
  PROVE  /\ neighbor \in Nat /\ level \in 1..BoundedDepth
         /\ GoodPath(path, level) /\ path[level + 1] = neighbor
         /\ level < BoundedDepth => neighbor \in Within(level)
         /\ current[1].depth \in 0..2
<1>1. /\ current[1] \in WalkItems /\ GoodItem(current[1]) /\ BoundedDepth \in 1..3
  BY AtHand, WalkTypes
<1>2. PICK node \in WalkItems : node = current[1]
  BY <1>1
<1>3. /\ node.synset \in Nat /\ node.depth \in Nat /\ node.path \in Seq(Nat)
  BY DEF WalkItems
<1>4. edge.source \in Nat /\ edge.target \in Nat
  BY WalkTypes
<1>5. neighbor \in Nat /\ {edge.source, edge.target} = {node.synset, neighbor}
  BY <1>2, <1>4 DEF Neighbor, Touches
<1>6. /\ node.depth < BoundedDepth /\ node.synset \in Within(node.depth)
      /\ GoodPath(node.path, node.depth) /\ node.path[node.depth + 1] = node.synset
  BY <1>1, <1>2 DEF GoodItem
<1>7. level \in 1..BoundedDepth /\ level = node.depth + 1 /\ node.depth \in 0..2
  BY <1>1, <1>2, <1>3, <1>6
<1>8. Len(node.path) = level
  BY <1>6, <1>7 DEF GoodPath
<1>9. /\ path \in Seq(Nat) /\ Len(path) = level + 1 /\ path[level + 1] = neighbor
      /\ \A n \in 1..level : path[n] = node.path[n]
  BY <1>2, <1>3, <1>5, <1>8, AppendProperties
<1>10. GoodPath(path, level)
  <2>1. path[1] \in SeedSynsets(request)
    <3>1. 1 \in 1..level /\ node.path[1] \in SeedSynsets(request)
      BY <1>6, <1>7, <1>3 DEF GoodPath
    <3> QED
      BY <3>1, <1>9
  <2>2. ASSUME NEW n \in 1..level PROVE Linked(path[n], path[n + 1])
    <3>1. CASE n = level
      <4>1. path[n] = node.synset /\ path[n + 1] = neighbor
        BY <3>1, <1>6, <1>7, <1>9
      <4> QED
        BY <4>1, <1>5 DEF Linked
    <3>2. CASE n # level
      <4>1. n \in 1..node.depth /\ n \in 1..level /\ n + 1 \in 1..level
        BY <3>2, <1>7, <1>3
      <4>2. Linked(node.path[n], node.path[n + 1])
        BY <4>1, <1>6 DEF GoodPath
      <4> QED
        BY <4>1, <4>2, <1>9
    <3> QED
      BY <3>1, <3>2
  <2> QED
    BY <1>9, <2>1, <2>2 DEF GoodPath
<1>11. ASSUME level < BoundedDepth PROVE neighbor \in Within(level)
  <2>1. node.depth \in 0..1
    BY <1>11, <1>1, <1>7
  <2> QED
    BY <2>1, <1>2, <1>6, <1>7, OneFarther
<1> QED
  BY <1>5, <1>7, <1>9, <1>10, <1>11, <1>2

LEMMA VisitEdgeKeeps == ASSUME GraphInv, VisitEdge PROVE GraphInv'
<1> DEFINE node     == current[1]
           edge     == Head(open)
           neighbor == Neighbor(edge, node.synset)
           level    == node.depth + 1
           path     == Append(node.path, neighbor)
           visit    == EdgeVisit(edge, node.synset)
           row      == [edge |-> edge, direction |-> Direction(edge, node.synset),
                        depth |-> level, path |-> path]
           child    == [synset |-> neighbor, path |-> path, depth |-> level]
<1>1. /\ walking = "walking" /\ current # << >> /\ open # << >> /\ ~truncated
      /\ open' = Tail(open)
      /\ UNCHANGED <<relations, request, waiting, current, walking>>
  BY DEF VisitEdge
<1>2. \/ /\ ~Allowed(edge) \/ visit \in seenEdges
         /\ UNCHANGED <<children, reached, seenEdges, answer, truncated>>
      \/ /\ Allowed(edge) /\ visit \notin seenEdges
         /\ seenEdges' = seenEdges \cup {visit}
         /\ answer' = answer \cup {row}
         /\ \/ /\ level < BoundedDepth /\ neighbor \notin reached
               /\ reached' = reached \cup {neighbor} /\ children' = Append(children, child)
            \/ /\ ~(level < BoundedDepth /\ neighbor \notin reached)
               /\ reached' = reached /\ children' = children
  BY DEF VisitEdge
<1>3. /\ node \in Items /\ node \in WalkItems /\ GoodItem(node)
      /\ waiting \in Seq(WalkItems) /\ children \in Seq(WalkItems) /\ open \in Seq(relations)
  BY <1>1, AtHand
<1>4. /\ edge = open[1] /\ edge \in relations /\ Tail(open) \in Seq(relations)
      /\ ElementsOf(open) = {edge} \cup ElementsOf(Tail(open))
      /\ \A n \in DOMAIN Tail(open) : n + 1 \in DOMAIN open /\ Tail(open)[n] = open[n + 1]
  BY <1>1, <1>3, HeadAndTail
<1>5. Touches(edge, node.synset)
  <2>1. 1 \in DOMAIN open
    BY <1>1, <1>3, LenProperties, EmptySeq
  <2> QED
    BY <2>1, <1>1, <1>4 DEF GraphInv, SoundInv
<1> HIDE DEF edge
<1>6. \A synset : Finished(synset) => Finished(synset)'
  <2>1. seenEdges \subseteq seenEdges'
    BY <1>2
  <2> QED
    BY <2>1, <1>1, SameGraph DEF Finished, EdgeVisit, Direction
<1>7. ASSUME NEW other \in relations, Touches(other, node.synset), Allowed(other)
      PROVE  \/ EdgeVisit(other, node.synset) \in seenEdges'
             \/ \E n \in DOMAIN Tail(open) : Tail(open)[n] = other
  <2>1. CASE other = edge
    BY <2>1, <1>2, <1>7
  <2>2. CASE other # edge /\ EdgeVisit(other, node.synset) \notin seenEdges
    <3>1. other \in ElementsOf(open)
      BY <2>2, <1>1, <1>7 DEF GraphInv, FoundInv, ElementsOf
    <3>2. other \in ElementsOf(Tail(open))
      BY <3>1, <2>2, <1>4
    <3> QED
      BY <3>2 DEF ElementsOf
  <2>3. CASE EdgeVisit(other, node.synset) \in seenEdges
    BY <2>3, <1>2
  <2> QED
    BY <2>1, <2>2, <2>3
<1>8. \A n \in DOMAIN Tail(open) : Touches(Tail(open)[n], node.synset)
  BY <1>1, <1>4 DEF GraphInv, SoundInv
<1>9. CASE ~Allowed(edge) \/ visit \in seenEdges
  <2>1. UNCHANGED <<children, reached, seenEdges, answer, truncated>>
    BY <1>2, <1>9
  <2>2. Items' = Items
    BY <1>1, <2>1 DEF Items
  <2>3. ListsInv'
    BY <1>1, <1>4, <2>1, <2>2 DEF GraphInv, ListsInv
  <2>4. SoundInv'
    BY <1>1, <1>8, <2>1, <2>2, SameGraph DEF GraphInv, SoundInv
  <2>5. FoundInv'
    <3>1. \A other \in relations : Touches(other, current[1].synset) /\ Allowed(other) =>
            \/ EdgeVisit(other, current[1].synset) \in seenEdges
            \/ \E n \in DOMAIN Tail(open) : Tail(open)[n] = other
      BY <1>7, <2>1
    <3> QED
      BY <1>1, <1>6, <2>1, <2>2, <3>1, SameGraph DEF GraphInv, FoundInv
  <2>6. OrderInv'
    BY <1>1, <2>1, SameGraph DEF GraphInv, OrderInv
  <2> QED
    BY <2>3, <2>4, <2>5, <2>6 DEF GraphInv
<1>10. CASE Allowed(edge) /\ visit \notin seenEdges
  <2>1. /\ seenEdges' = seenEdges \cup {visit} /\ answer' = answer \cup {row}
        /\ \/ /\ level < BoundedDepth /\ neighbor \notin reached
              /\ reached' = reached \cup {neighbor} /\ children' = Append(children, child)
           \/ /\ ~(level < BoundedDepth /\ neighbor \notin reached)
              /\ reached' = reached /\ children' = children
    BY <1>2, <1>10
  <2>2. /\ neighbor \in Nat /\ level \in 1..BoundedDepth
        /\ GoodPath(path, level) /\ path[level + 1] = neighbor
        /\ level < BoundedDepth => neighbor \in Within(level)
        /\ node.depth \in 0..2
    BY <1>1, <1>4, <1>5, <1>10, OneStepOn
  <2>3. /\ node.depth < BoundedDepth /\ node.synset \in Within(node.depth)
        /\ ~DepthFirst => Exactly(node.synset, node.depth)
        /\ level - 1 = node.depth
    BY <1>3, <2>2 DEF GoodItem
  <2>4. /\ child \in WalkItems /\ child.synset = neighbor /\ child.path = path /\ child.depth = level
        /\ row.edge = edge /\ row.direction = Direction(edge, node.synset)
        /\ row.depth = level /\ row.path = path
    BY <2>2 DEF WalkItems, GoodPath
  <2>5. NearEnd(edge, Direction(edge, node.synset)) = node.synset
        /\ FarEnd(edge, Direction(edge, node.synset)) = neighbor
    BY <1>5 DEF NearEnd, FarEnd, Direction, Touches, Neighbor
  <2>6. visit[1] = edge /\ visit[2] = Direction(edge, node.synset)
    BY DEF EdgeVisit
  <2> HIDE DEF child, row, path, visit, neighbor, level
  <2>7. GoodRow(row)
    BY <1>4, <1>10, <2>2, <2>3, <2>4, <2>5 DEF GoodRow
  <2>8. ASSUME level < BoundedDepth, neighbor \notin reached PROVE GoodItem(child)
    <3>1. ASSUME ~DepthFirst PROVE Exactly(neighbor, level)
      <4>1. \A item \in Items : item.depth >= node.depth
        <5>1. node.depth \in Nat
          BY <2>2
        <5>2. \A n \in DOMAIN waiting : waiting[n].depth >= node.depth
          BY <1>1, <3>1, <5>1 DEF GraphInv, OrderInv
        <5>3. \A n \in DOMAIN children : children[n].depth >= node.depth
          BY <1>1, <3>1, <5>1 DEF GraphInv, OrderInv
        <5>4. ElementsOf(current) = {node}
          BY <1>1, AtHand
        <5> QED
          BY <5>1, <5>2, <5>3, <5>4 DEF Items, ElementsOf
      <4>2. Within(node.depth) \subseteq reached
        BY <1>1, <2>2, <2>3, <3>1, <4>1, ReachedWithin
      <4> QED
        BY <2>2, <2>3, <2>8, <4>2 DEF Exactly
    <3> QED
      BY <2>2, <2>4, <2>8, <3>1 DEF GoodItem
  <2>9. /\ Items \subseteq Items' /\ node \in Items'
        /\ \/ Items' = Items /\ children' = children /\ reached' = reached
              /\ ~(level < BoundedDepth /\ neighbor \notin reached)
           \/ /\ Items' = Items \cup {child} /\ children' = Append(children, child)
              /\ reached' = reached \cup {neighbor}
              /\ level < BoundedDepth /\ neighbor \notin reached
    <3>1. Items' = ElementsOf(waiting) \cup ElementsOf(current) \cup ElementsOf(children')
      BY <1>1 DEF Items
    <3>2. ElementsOf(Append(children, child)) = ElementsOf(children) \cup {child}
      BY <1>3, <2>4, Appended
    <3>3. CASE children' = Append(children, child)
      <4>1. Items' = Items \cup {child}
        BY <3>1, <3>2, <3>3 DEF Items
      <4>2. CASE level < BoundedDepth /\ neighbor \notin reached
        BY <1>3, <2>1, <3>3, <4>1, <4>2
      <4>3. CASE ~(level < BoundedDepth /\ neighbor \notin reached)
        <5>1. children' = children /\ reached' = reached
          BY <2>1, <4>3
        <5>2. Items' = Items
          BY <3>1, <5>1 DEF Items
        <5> QED
          BY <1>3, <4>3, <5>1, <5>2
      <4> QED
        BY <4>2, <4>3
    <3>4. CASE children' # Append(children, child)
      <4>1. /\ ~(level < BoundedDepth /\ neighbor \notin reached)
            /\ children' = children /\ reached' = reached
        BY <2>1, <3>4
      <4>2. Items' = Items
        BY <3>1, <4>1 DEF Items
      <4> QED
        BY <1>3, <4>1, <4>2
    <3> QED
      BY <3>3, <3>4
  <2>10. ListsInv'
    <3>1. children' \in Seq(WalkItems)
      BY <1>3, <2>4, <2>9, Appended
    <3> QED
      BY <1>1, <1>4, <3>1 DEF GraphInv, ListsInv
  <2>11. SoundInv'
    <3>1. \A item \in Items' : GoodItem(item)
      BY <2>8, <2>9 DEF GraphInv, SoundInv
    <3>2. \A other \in answer' : GoodRow(other)
      BY <2>1, <2>7 DEF GraphInv, SoundInv
    <3> QED
      BY <1>1, <1>8, <3>1, <3>2, SameGraph DEF SoundInv
  <2>12. FoundInv'
    <3>1. SeedSynsets(request) \subseteq reached'
      BY <1>1, <2>9 DEF GraphInv, FoundInv
    <3>2. \A other \in seenEdges' : \E shown \in answer' :
            shown.edge = other[1] /\ shown.direction = other[2]
      <4>1. row \in answer' /\ row.edge = visit[1] /\ row.direction = visit[2]
        BY <2>1, <2>4, <2>6
      <4> QED
        BY <4>1, <2>1 DEF GraphInv, FoundInv
    <3>3. \A shown \in answer' :
            shown.depth < BoundedDepth => FarEnd(shown.edge, shown.direction) \in reached'
      <4>1. row.depth < BoundedDepth => FarEnd(row.edge, row.direction) \in reached'
        BY <2>4, <2>5, <2>9
      <4> QED
        BY <4>1, <2>1, <2>9 DEF GraphInv, FoundInv
    <3>4. \A synset \in reached' : Finished(synset)' \/ \E item \in Items' : item.synset = synset
      BY <1>1, <1>6, <2>4, <2>9 DEF GraphInv, FoundInv
    <3>5. \A other \in relations : Touches(other, current[1].synset) /\ Allowed(other) =>
            \/ EdgeVisit(other, current[1].synset) \in seenEdges'
            \/ \E n \in DOMAIN Tail(open) : Tail(open)[n] = other
      BY <1>7
    <3> QED
      BY <1>1, <3>1, <3>2, <3>3, <3>4, <3>5, SameGraph DEF FoundInv, EdgeVisit, Direction
  <2>13. OrderInv'
    <3> SUFFICES ASSUME ~DepthFirst PROVE OrderInv'
      BY <1>1, SameGraph DEF OrderInv
    <3>1. \A n \in DOMAIN children : children[n].depth = node.depth + 1
      BY <1>1 DEF GraphInv, OrderInv
    <3>2. \A item \in ElementsOf(children') : item.depth = node.depth + 1
      <4>1. \A item \in ElementsOf(children) : item.depth = node.depth + 1
        BY <3>1 DEF ElementsOf
      <4>2. child.depth = node.depth + 1
        BY <2>4 DEF level
      <4>3. ElementsOf(Append(children, child)) = ElementsOf(children) \cup {child}
        BY <1>3, <2>4, Appended
      <4>4. children' = children \/ children' = Append(children, child)
        BY <2>9
      <4> QED
        BY <4>1, <4>2, <4>3, <4>4
    <3>3. \A n \in DOMAIN children' : children'[n].depth = node.depth + 1
      BY <3>2 DEF ElementsOf
    <3> QED
      BY <1>1, <3>3 DEF GraphInv, OrderInv
  <2> QED
    BY <2>10, <2>11, <2>12, <2>13 DEF GraphInv
<1> QED
  BY <1>9, <1>10

LEMMA GraphInvariant == GraphSpec => []GraphInv
<1>1. GraphInv /\ [GraphNext]_graphVars => GraphInv'
  <2> SUFFICES ASSUME GraphInv, [GraphNext]_graphVars PROVE GraphInv'
    OBVIOUS
  <2>1. ASSUME UNCHANGED graphVars PROVE GraphInv'
    <3>1. UNCHANGED <<relations, request, waiting, current, open, children,
                      reached, seenEdges, answer, truncated, walking>>
      BY <2>1 DEF graphVars
    <3>2. Items' = Items
      BY <3>1 DEF Items
    <3>3. \A synset : Finished(synset)' <=> Finished(synset)
      BY <3>1, SameGraph DEF Finished, EdgeVisit, Direction
    <3>4. ListsInv' /\ SoundInv'
      BY <3>1, <3>2, SameGraph DEF GraphInv, ListsInv, SoundInv
    <3>5. FoundInv'
      BY <3>1, <3>2, <3>3, SameGraph DEF GraphInv, FoundInv
    <3>6. OrderInv'
      BY <3>1, SameGraph DEF GraphInv, OrderInv
    <3> QED
      BY <3>4, <3>5, <3>6 DEF GraphInv
  <2> QED
    BY <2>1, QueryKeeps, TakeNodeKeeps, VisitEdgeKeeps, FinishNodeKeeps DEF GraphNext
<1> QED
  BY <1>1, GraphStarts, PTL DEF GraphSpec

LEMMA GraphInvImplies == ASSUME GraphInv PROVE BreadthFirstIsComplete
<1>1. ASSUME NEW row \in answer
      PROVE  /\ walking = "walking" /\ BoundedDepth \in 1..3 /\ GoodRow(row)
             /\ row.depth - 1 \in 0..(BoundedDepth - 1)
  <2>1. walking = "walking"
    BY <1>1 DEF GraphInv, ListsInv
  <2>2. BoundedDepth \in 1..3
    BY <2>1, WalkTypes
  <2>3. GoodRow(row)
    BY <1>1 DEF GraphInv, SoundInv
  <2> QED
    BY <2>1, <2>2, <2>3 DEF GoodRow
\* A row is expected at the distance of its near end.
<1>2. ASSUME BoundedDepth \in 1..3,
             NEW edge \in relations, Allowed(edge), NEW synset, Touches(edge, synset),
             NEW distance \in 0..(BoundedDepth - 1), Exactly(synset, distance)
      PROVE  <<edge, Direction(edge, synset), distance + 1>> \in ExpectedRows
  <2>1. distance \in 0..2 /\ BoundedDepth - 1 \in 0..2 /\ distance <= BoundedDepth - 1
    BY <1>2
  <2>2. synset \in Within(distance) /\ synset \in Within(BoundedDepth - 1)
    BY <1>2, <2>1, WithinGrows DEF Exactly
  <2> DEFINE t == <<edge, synset, distance>>
  <2>3. t \in relations \X Within(BoundedDepth - 1) \X (0..(BoundedDepth - 1))
    BY <2>2
  <2>4. /\ Allowed(t[1]) /\ t[2] \in {t[1].source, t[1].target} /\ t[2] \in Within(t[3])
        /\ t[3] > 0 => t[2] \notin Within(t[3] - 1)
    BY <1>2, <2>2 DEF Touches, Exactly
  <2> QED
    BY <2>3, <2>4 DEF ExpectedRows
<1>3. \A edge, direction : direction = Direction(edge, NearEnd(edge, direction))
        => Touches(edge, NearEnd(edge, direction))
  BY DEF NearEnd, Touches
<1>4. ASSUME NEW row \in answer
      PROVE  /\ \E expected \in ExpectedRows :
                  expected[1] = row.edge /\ expected[2] = row.direction /\ expected[3] <= row.depth
             /\ row.depth = Len(row.path) - 1
             /\ row.path[1] \in SeedSynsets(request)
             /\ \A n \in 1..row.depth : \E edge \in relations :
                  Allowed(edge) /\ {edge.source, edge.target} = {row.path[n], row.path[n + 1]}
  <2>1. PICK near : near = NearEnd(row.edge, row.direction)
    OBVIOUS
  <2>2. /\ BoundedDepth \in 1..3 /\ GoodRow(row) /\ row.depth - 1 \in 0..(BoundedDepth - 1)
        /\ row.depth \in 1..3
    BY <1>1, <1>4 DEF GoodRow
  <2>3. PICK distance \in 0..2 : distance <= row.depth - 1 /\ Exactly(near, distance)
    <3>1. near \in Within(row.depth - 1)
      BY <2>1, <2>2 DEF GoodRow
    <3>2. CASE near \in Within(0)
      <4>1. Exactly(near, 0) /\ 0 <= row.depth - 1
        BY <3>2, <2>2 DEF Exactly
      <4> QED
        BY <4>1
    <3>3. CASE near \notin Within(0) /\ near \in Within(1)
      <4>1. Exactly(near, 1)
        BY <3>3 DEF Exactly
      <4>2. 1 <= row.depth - 1
        BY <3>1, <3>3, <2>2
      <4> QED
        BY <4>1, <4>2
    <3>4. CASE near \notin Within(0) /\ near \notin Within(1)
      <4>1. row.depth - 1 = 2
        BY <3>1, <3>4, <2>2
      <4>2. Exactly(near, 2)
        BY <3>1, <3>4, <4>1 DEF Exactly
      <4> QED
        BY <4>1, <4>2
    <3> QED
      BY <3>2, <3>3, <3>4
  <2>4. <<row.edge, row.direction, distance + 1>> \in ExpectedRows
    <3>1. /\ row.edge \in relations /\ Allowed(row.edge)
          /\ row.direction = Direction(row.edge, near) /\ Touches(row.edge, near)
      BY <1>3, <2>1, <2>2 DEF GoodRow
    <3>2. distance \in 0..(BoundedDepth - 1)
      BY <2>2, <2>3
    <3> QED
      BY <1>2, <2>2, <2>3, <3>1, <3>2
  <2>5. distance + 1 <= row.depth
    BY <2>2, <2>3
  <2>6. GoodPath(row.path, row.depth)
    BY <2>2 DEF GoodRow
  <2>7. row.depth = Len(row.path) - 1
    BY <2>2, <2>6 DEF GoodPath
  <2>8. \E expected \in ExpectedRows :
          expected[1] = row.edge /\ expected[2] = row.direction /\ expected[3] <= row.depth
    BY <2>4, <2>5
  <2> QED
    BY <2>6, <2>7, <2>8 DEF GoodPath, Linked
<1>5. ASSUME Answered, ~truncated, ~DepthFirst
      PROVE  {<<row.edge, row.direction, row.depth>> : row \in answer} = ExpectedRows
  <2>1. walking = "walking" /\ BoundedDepth \in 1..3 /\ Items = {}
    <3>1. walking = "walking" /\ current = << >> /\ waiting = << >>
      BY <1>5 DEF Answered
    <3>2. children = << >>
      BY <3>1 DEF GraphInv, ListsInv
    <3> QED
      BY <3>1, <3>2, EmptyHasNone, WalkTypes DEF Items
  <2>2. Within(BoundedDepth - 1) \subseteq reached
    <3>1. BoundedDepth - 1 \in 0..2 /\ BoundedDepth - 1 < BoundedDepth
      BY <2>1
    <3> QED
      BY <3>1, <2>1, <1>5, ReachedWithin
  <2>3. ASSUME NEW row \in answer PROVE <<row.edge, row.direction, row.depth>> \in ExpectedRows
    <3>1. PICK near : near = NearEnd(row.edge, row.direction)
      OBVIOUS
    <3>2. /\ row.edge \in relations /\ Allowed(row.edge)
          /\ row.direction = Direction(row.edge, near) /\ Touches(row.edge, near)
          /\ Exactly(near, row.depth - 1) /\ row.depth \in 1..BoundedDepth
      BY <1>1, <1>3, <1>5, <2>3, <3>1 DEF GoodRow
    <3>3. row.depth - 1 \in 0..(BoundedDepth - 1) /\ (row.depth - 1) + 1 = row.depth
      BY <2>1, <3>2
    <3>4. <<row.edge, Direction(row.edge, near), (row.depth - 1) + 1>> \in ExpectedRows
      BY <1>2, <2>1, <3>2, <3>3
    <3> QED
      BY <3>2, <3>3, <3>4
  <2>4. ASSUME NEW expected \in ExpectedRows
        PROVE  \E row \in answer : expected = <<row.edge, row.direction, row.depth>>
    <3>1. PICK t \in relations \X Within(BoundedDepth - 1) \X (0..(BoundedDepth - 1)) :
            /\ Allowed(t[1]) /\ t[2] \in {t[1].source, t[1].target}
            /\ t[2] \in Within(t[3])
            /\ t[3] > 0 => t[2] \notin Within(t[3] - 1)
            /\ expected = <<t[1], Direction(t[1], t[2]), t[3] + 1>>
      BY DEF ExpectedRows
    <3>2. PICK edge \in relations, synset \in Within(BoundedDepth - 1), distance \in 0..(BoundedDepth - 1) :
            t = <<edge, synset, distance>>
      BY <3>1
    <3>3. /\ Allowed(edge) /\ Touches(edge, synset) /\ Exactly(synset, distance)
          /\ expected = <<edge, Direction(edge, synset), distance + 1>>
      <4>1. t[1] = edge /\ t[2] = synset /\ t[3] = distance
        BY <3>2
      <4>2. /\ Allowed(edge) /\ synset \in {edge.source, edge.target}
            /\ synset \in Within(distance)
            /\ distance > 0 => synset \notin Within(distance - 1)
            /\ expected = <<edge, Direction(edge, synset), distance + 1>>
        BY <3>1, <4>1
      <4> QED
        BY <4>2 DEF Touches, Exactly
    <3>4. Finished(synset)
      BY <2>1, <2>2, <1>5 DEF GraphInv, FoundInv
    <3>5. PICK row \in answer : row.edge = edge /\ row.direction = Direction(edge, synset)
      BY <3>3, <3>4 DEF Finished, EdgeVisit, GraphInv, FoundInv
    <3>6. NearEnd(row.edge, row.direction) = synset
      BY <3>3, <3>5 DEF NearEnd, Direction, Touches
    <3>7. Exactly(synset, row.depth - 1) /\ row.depth - 1 \in 0..(BoundedDepth - 1)
      BY <1>1, <1>5, <3>6 DEF GoodRow
    <3>8. distance \in 0..2 /\ row.depth - 1 \in 0..2
      <4>1. \A n \in 0..(BoundedDepth - 1) : n \in 0..2
        BY <2>1
      <4> QED
        BY <3>7, <4>1
    <3>9. synset \in Within(distance) /\ synset \in Within(row.depth - 1)
      BY <3>3, <3>7 DEF Exactly
    <3>10. distance <= row.depth - 1 /\ row.depth - 1 <= distance
      BY <3>3, <3>7, <3>8, <3>9, OneDistance
    <3>11. row.depth = distance + 1
      <4>1. row.depth \in Nat
        BY <1>1, <2>1 DEF GoodRow
      <4> QED
        BY <3>8, <3>10, <4>1
    <3> QED
      BY <3>3, <3>5, <3>11
  <2> QED
    BY <2>3, <2>4
<1> QED
  BY <1>4, <1>5 DEF BreadthFirstIsComplete

\* A breadth-first answer that was not cut off shows each relation within the
\* depth once in each direction, at its distance, and a depth-first one shows
\* none that is nearer than its row says (public-semantic-graph-query.mjs,
\* the loop of queryPublicSemanticGraph), for every lexicon and request.
THEOREM BreadthFirstComplete == GraphSpec => []BreadthFirstIsComplete
BY GraphInvariant, GraphInvImplies, PTL
=============================================================================
