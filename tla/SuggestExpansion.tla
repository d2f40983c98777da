--------------------------- MODULE SuggestExpansion ---------------------------
(***************************************************************************)
(* buildSuggestEvidenceOracle and buildSuggestExpansionLogic: the keywords *)
(* a site could ask suggestions for, and the plan of asking in four        *)
(* classes.  Nothing of it is ever requested.                              *)
(*                                                                         *)
(* Both are built from the inventory whose lineage KeywordExpansionLineage *)
(* builds; a keyword is its normal form here too.  The contract copied     *)
(* from the published schema, locations, prices and digests are left out.  *)
(***************************************************************************)
EXTENDS KeywordExpansionLineage, Functions, SequencesExt

-----------------------------------------------------------------------------
\* The oracle: one row per keyword, with how many of its sources were acquired.
SuggestEvidence ==
  {[keyword    |-> source.keyword,
    rows       |-> SourcesOf(source.keyword),
    acquired   |-> Cardinality(SourcesOf(source.keyword) \cap acquired),
    unacquired |-> Cardinality(SourcesOf(source.keyword) \ acquired)] : source \in Inventory}

ProcessingStates(rows) ==
  {IF row \in acquired THEN "assigned" ELSE "serp_not_acquired" : row \in rows}

\* Faulty variant: one row without results makes the keyword one.
UnacquiredFirst(rows) ==
  IF "serp_not_acquired" \in ProcessingStates(rows) THEN "not_acquired"
  ELSE IF Cardinality(ProcessingStates(rows)) > 1 THEN "mixed_retained_and_not_acquired"
  ELSE "retained_or_unclassified"

ObservedWorkbookState(rows) ==
  IF Cardinality(ProcessingStates(rows)) > 1 THEN "mixed_retained_and_not_acquired"
  ELSE IF "serp_not_acquired" \in ProcessingStates(rows) THEN "not_acquired"
  ELSE "retained_or_unclassified"

Seeds ==
  {[keyword |-> evidence.keyword, rows |-> evidence.rows,
    state |-> ObservedWorkbookState(evidence.rows)] : evidence \in SuggestEvidence}

-----------------------------------------------------------------------------
SuggestClasses == {"direct", "recursive_direct", "character_expansion", "recursive_expansion"}

\* What the suggestions of a class are asked with.
InputRelation ==
  [direct              |-> {"seed"},
   recursive_direct    |-> {"direct"},
   character_expansion |-> {"seed"},
   recursive_expansion |-> {"recursive_direct", "character_expansion"}]

\* classGraph, in its order.
ClassGraph ==
  [seed                |-> <<"direct", "character_expansion">>,
   direct              |-> <<"recursive_direct">>,
   recursive_direct    |-> <<"recursive_expansion">>,
   character_expansion |-> <<"recursive_expansion">>,
   recursive_expansion |-> <<>>]

AppendFamilies(class) ==
  IF class \in {"character_expansion", "recursive_expansion"}
  THEN {"hiragana", "latin", "digits"} ELSE {}

Frontier ==
  {[keyword |-> seed.keyword, class |-> class, families |-> AppendFamilies(class),
    state |-> "plan_only_not_acquired"] : seed \in Seeds, class \in SuggestClasses}

SuggestEngines ==
  {"google", "bing", "youtube", "googleVideo", "amazon", "rakuten", "googleShopping",
   "googleImage"}

SuggestCoverage ==
  [surface \in SuggestEngines \cup {"retained_workbook"} |->
     IF surface = "retained_workbook" THEN [state |-> "retained", seeds |-> Cardinality(Seeds)]
     ELSE [state |-> "not_acquired", seeds |-> 0]]

\* traceFor: the classes in the order they are first reached.  What is still to
\* visit is a queue, or a stack on which the children go in reverse.
NextSteps(step) ==
  [i \in DOMAIN ClassGraph[step.node] |->
     [node |-> ClassGraph[step.node][i], parent |-> step.node, depth |-> step.depth + 1]]

VisitNext(strategy, run) ==
  LET step == Head(run.left) IN
  IF run.left = <<>> THEN run
  ELSE IF \E i \in DOMAIN run.steps : run.steps[i].node = step.node
  THEN [run EXCEPT !.left = Tail(run.left)]
  ELSE [left  |-> IF strategy = "breadth_first" THEN Tail(run.left) \o NextSteps(step)
                  ELSE Reverse(NextSteps(step)) \o Tail(run.left),
        steps |-> Append(run.steps, step)]

\* The seed and the end of each of the five edges are looked at once.
VisitLimit == 6

TraceRun(strategy) ==
  LET run[n \in Nat] ==
        IF n = 0 THEN [left  |-> <<[node |-> "seed", parent |-> NoSource, depth |-> 0]>>,
                       steps |-> <<>>]
        ELSE VisitNext(strategy, run[n - 1])
  IN run[VisitLimit]

TraceFor(strategy) == TraceRun(strategy).steps

SuggestSummary ==
  [sourceRows |-> SumFunctionOnSet([seed \in Seeds |-> Cardinality(seed.rows)], Seeds),
   seeds      |-> Cardinality(Seeds),
   frontier   |-> Cardinality(Frontier),
   ofClass    |-> [class \in SuggestClasses |-> Cardinality(Seeds)],
   unasked    |-> Cardinality({e \in SuggestEngines : SuggestCoverage[e].state = "not_acquired"})]

-----------------------------------------------------------------------------
\* The seeds lose no row of the inventory and count none twice, and what a seed
\* says of its rows is what the lineage and the oracle say of them: a seed is
\* not acquired when none of its rows led to anything, mixed when some did.
SeedsAgreeWithLineage ==
  LET untouched(row) ==
        LineageState(row) \in {"unacquired_recommendation_connected", "inventory_only_hierarchy"}
      lineageOf == ExpansionSummary
  IN
  /\ \A row \in Inventory : Cardinality({seed \in Seeds : row \in seed.rows}) = 1
  /\ SuggestSummary.sourceRows = lineageOf.sources
  /\ SuggestSummary.sourceRows =
       SumFunctionOnSet(lineageOf.ofState, DispositionStates)
  /\ \A seed \in Seeds :
       /\ seed.state = "not_acquired" <=> \A row \in seed.rows : untouched(row)
       /\ seed.state = "retained_or_unclassified" <=> \A row \in seed.rows : ~untouched(row)
  /\ \A seed \in Seeds, evidence \in SuggestEvidence :
       seed.keyword = evidence.keyword =>
         (seed.state = "mixed_retained_and_not_acquired" <=>
            evidence.acquired > 0 /\ evidence.unacquired > 0)

\* Every seed is planned in every class, and either order of the traversal asks
\* for each class once, after the class its inputs come from.
PlanFollowsItsInputs ==
  /\ \A seed \in Seeds, class \in SuggestClasses :
       Cardinality({row \in Frontier : row.keyword = seed.keyword /\ row.class = class}) = 1
  /\ SuggestSummary.frontier = SumFunctionOnSet(SuggestSummary.ofClass, SuggestClasses)
  /\ \A strategy \in {"breadth_first", "depth_first"} :
       LET steps == TraceFor(strategy) IN
       /\ {steps[i].node : i \in DOMAIN steps} = {"seed"} \cup SuggestClasses
       /\ Len(steps) = Cardinality(SuggestClasses) + 1
       /\ TraceRun(strategy).left = <<>>
       /\ \A i \in 2..Len(steps) :
            /\ steps[i].parent \in InputRelation[steps[i].node]
            /\ \E j \in 1..(i - 1) : steps[j].node = steps[i].parent

\* What a build derives from the inventory tells one story: the lineage of the
\* groups, the evidence and the plan of the suggestions.
InventoryLedgersAgree == LedgersAgreeOnMembers /\ SeedsAgreeWithLineage /\ PlanFollowsItsInputs
=============================================================================
