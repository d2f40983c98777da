-------------------------- MODULE SerpDepthInventory --------------------------
(***************************************************************************)
(* buildSerpDepthInventory and buildSerpDepthContentCoverage: how deep the *)
(* retained result rows of a task reach, and for which of the rows from    *)
(* rank 11 on a page was parsed.                                           *)
(*                                                                         *)
(* The result rows and the page evidence are inserted one by one; both     *)
(* ledgers are computed from what is there.  Titles, digests and the sums  *)
(* of headings and terms are left out.                                     *)
(***************************************************************************)
EXTENDS Naturals, FiniteSets, FiniteSetsExt, Functions

CONSTANTS
  FirstPages,        \* the result rows retained at first: [task, rank, url]
  ResultRows,        \* those that can follow
  PageRows,          \* the page evidence there can be: [task, page, url, status]
  DepthTasks,
  DeclaredDepth,     \* of each task the depth its metadata declare, 0 for none
  RequestedTarget,   \* the target depth that is asked for
  BadRank            \* a rank that is not a number

ASSUME DepthAssumption ==
  /\ IsFiniteSet(DepthTasks) /\ IsFiniteSet(FirstPages)
  /\ DeclaredDepth \in [DepthTasks -> Nat]
  /\ \A row \in FirstPages \cup ResultRows : row.task \in DepthTasks /\ row.rank \in Nat \cup {BadRank}

VARIABLES
  organic,           \* the result rows retained
  pageEvidence       \* the evidence of pages retained

depthVars == <<organic, pageEvidence>>

-----------------------------------------------------------------------------
PositiveOr(value, fallback) == IF value > 0 THEN value ELSE fallback

TargetDepth == PositiveOr(RequestedTarget, 20)
TaskDepth(task) == PositiveOr(DeclaredDepth[task], 10)

\* rankRow: rows without a positive rank are not rows of the ledger.
RowsOf(task) ==
  {row \in organic : row.task = task /\ row.rank # BadRank /\ row.rank > 0}
RanksOf(task) == {row.rank : row \in RowsOf(task)}

ObservedSlots(task, upper, lower) == RanksOf(task) \cap (lower..upper)
NotObserved(task, upper, lower) == (lower..upper) \ ObservedSlots(task, upper, lower)

\* Faulty variant: a row below the target hides a complete target.
OverTargetFirst(task) ==
  IF RowsOf(task) = {} THEN "no_rows_retained"
  ELSE IF \E rank \in RanksOf(task) : rank > TargetDepth THEN "over_target_depth_observed"
  ELSE IF NotObserved(task, TargetDepth, 1) = {} THEN "target_depth_complete"
  ELSE IF \E rank \in RanksOf(task) : rank > TaskDepth(task) THEN "over_declared_depth_observed"
  ELSE "declared_depth_only"

DepthState(task) ==
  IF RowsOf(task) = {} THEN "no_rows_retained"
  ELSE IF NotObserved(task, TargetDepth, 1) = {} THEN "target_depth_complete"
  ELSE IF \E rank \in RanksOf(task) : rank > TargetDepth THEN "over_target_depth_observed"
  ELSE IF \E rank \in RanksOf(task) : rank > TaskDepth(task) THEN "over_declared_depth_observed"
  ELSE "declared_depth_only"

Rank11To20(task) == {row \in RowsOf(task) : row.rank \in 11..TargetDepth}

DeclaredCoverage(task) == ObservedSlots(task, Min({TaskDepth(task), TargetDepth}), 1)

Bands == [top_3 |-> <<3, 1>>, top_5 |-> <<5, 1>>, top_10 |-> <<10, 1>>, ranks_11_20 |-> <<20, 11>>]
BandCoverage(task, name) ==
  ObservedSlots(task, Min({Bands[name][1], TargetDepth}), Bands[name][2])

DepthSummary(tasks) ==
  [tasks    |-> Cardinality(tasks),
   inState  |-> [state \in {DepthState(task) : task \in tasks} |->
                   Cardinality({task \in tasks : DepthState(task) = state})],
   observed |-> SumFunctionOnSet([task \in tasks |-> Cardinality(RowsOf(task))], tasks),
   deep     |-> SumFunctionOnSet([task \in tasks |-> Cardinality(Rank11To20(task))], tasks)]

-----------------------------------------------------------------------------
\* Evidence is joined to a row by the task and the address.
EvidenceOf(row) == {item \in pageEvidence : item.task = row.task /\ item.url = row.url}

\* Faulty variant: a page that could not be fetched counts as evidence.
AnyEvidence(row) == EvidenceOf(row)

SuccessfulEvidence(row) == {item \in EvidenceOf(row) : item.status = "ok"}

Parsed(task) == {row \in Rank11To20(task) : SuccessfulEvidence(row) # {}}
Unparsed(task) == Rank11To20(task) \ Parsed(task)

ContentState(task) ==
  IF Rank11To20(task) = {} THEN "no_rank_11_20_retained"
  ELSE IF Parsed(task) = {} THEN "rank_11_20_serp_only"
  ELSE IF Unparsed(task) = {} THEN "rank_11_20_content_observed"
  ELSE "rank_11_20_mixed_content_coverage"

PagesOf(rows) ==
  SumFunctionOnSet([row \in rows |-> Cardinality(SuccessfulEvidence(row))], rows)

FailedOf(rows) ==
  SumFunctionOnSet([row \in rows |-> Cardinality(EvidenceOf(row) \ SuccessfulEvidence(row))], rows)

ContentSummary(tasks) ==
  LET total(counts) == SumFunctionOnSet(counts, tasks)
  IN [deepTasks |-> Cardinality({task \in tasks : Rank11To20(task) # {}}),
      inState   |-> [state \in {"rank_11_20_serp_only", "rank_11_20_content_observed",
                                "rank_11_20_mixed_content_coverage"} |->
                       Cardinality({task \in tasks : ContentState(task) = state})],
      deepRows  |-> total([task \in tasks |-> Cardinality(Rank11To20(task))]),
      parsed    |-> total([task \in tasks |-> Cardinality(Parsed(task))]),
      unparsed  |-> total([task \in tasks |-> Cardinality(Unparsed(task))]),
      pages     |-> total([task \in tasks |-> PagesOf(Parsed(task))]),
      failed    |-> total([task \in tasks |-> FailedOf(Rank11To20(task))])]

-----------------------------------------------------------------------------
DepthInit == organic = {} /\ pageEvidence = {}

\* The rows of the first pages are inserted together.
InsertFirstPages ==
  /\ organic = {}
  /\ organic' = FirstPages
  /\ UNCHANGED pageEvidence

\* The table holds one row per task and rank: a second insert of them fails.
InsertResult(row) ==
  /\ organic # {}
  /\ \A other \in organic : other.task = row.task => other.rank # row.rank
  /\ organic' = organic \cup {row}
  /\ UNCHANGED pageEvidence

InsertPage(item) ==
  /\ organic # {}
  /\ item \notin pageEvidence
  /\ pageEvidence' = pageEvidence \cup {item}
  /\ UNCHANGED organic

DepthNext ==
  \/ InsertFirstPages
  \/ \E row \in ResultRows : InsertResult(row)
  \/ \E item \in PageRows : InsertPage(item)

DepthSpec == DepthInit /\ [][DepthNext]_depthVars

-----------------------------------------------------------------------------
DepthOrder(state) ==
  CASE state = "no_rows_retained" -> 0 [] state = "declared_depth_only" -> 1
    [] state = "over_declared_depth_observed" -> 2
    [] state = "over_target_depth_observed" -> 3 [] state = "target_depth_complete" -> 4

\* Retaining one more row never lowers the depth a task is said to reach: a row
\* below the target does not take away that the target is complete, whichever of
\* them came first.
DepthNeverRegresses ==
  [][\A task \in DepthTasks : DepthOrder(DepthState(task)) <= DepthOrder(DepthState(task)')]_depthVars

\* The content ledger accounts for every deep row of every task: each is parsed
\* or not, a page that failed makes none parsed, and the states of the tasks
\* tell the same story as the sums.
ContentCoverageAccountsForEveryRow ==
  LET summary == ContentSummary(DepthTasks) IN
  /\ summary.parsed + summary.unparsed = DepthSummary(DepthTasks).deep
  /\ summary.deepTasks = summary.inState["rank_11_20_serp_only"]
                         + summary.inState["rank_11_20_content_observed"]
                         + summary.inState["rank_11_20_mixed_content_coverage"]
  /\ summary.parsed = 0 <=> summary.deepTasks = summary.inState["rank_11_20_serp_only"]
  /\ summary.pages >= summary.parsed
  /\ \A row \in organic :
       (\A item \in pageEvidence : item.url = row.url => item.status # "ok")
         => row \notin Parsed(row.task)
=============================================================================
