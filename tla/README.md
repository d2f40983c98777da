# TLA+ verification of the HELIX WordPress/SEO harness

This directory holds the TLA+ specifications kept beside the scripts of this
repository, the TLC configurations that check them on small instances, and the
theorems TLAPS proves about them. `PROJECT.json` lists the components and their
files, the runs, the faulty variants each property must catch, the source lines
behind every definition, the findings, the hazards and the theorems.

Run a check with the module and configuration of the table in section 4, for
instance `tlc -config AcqLive.cfg MCAcquisition`, and a proof with
`tlapm <module>.tla` for one of the eight modules whose name ends in `Proofs`.

## 1. The system

The harness is a set of Node scripts under `scripts/`. They do not call each
other at run time: each is started by a person (or another tool), does its
work and ends, and they meet in files and in one SQLite database. One of them
is a server; a client library and an MCP server call its routes.

| Part | State it keeps | Operations | Meets |
| --- | --- | --- | --- |
| Paid acquisition (`execute-` and `collect-acquisition-remediation.mjs`) | one directory per run: `run-manifest.json`, `task-post.json`, `task-map.json`, `raw/*.json`, `result-index.json` | execute: audit, POST, record; collect: fetch results, index, record | the provider (charges at the POST), the dashboard server (portfolio, approval), the run directories |
| Lifetime budget audit (`acquisition-lifetime-budget.mjs`) | none; reads every manifest under the evidence root | sum of the committed charges, cap, duplicate candidate set | called by the executor and by the database build |
| Evidence loader (`acquisition-remediation-evidence.mjs`) | none | newest completed run whose digests fit, or an exception | called by the database build |
| Planning and approval (`acquisition-*-portfolio/-readiness/-approval/-allocation`) | none; projections of the database | which tasks to buy again, at what maximum, approved by which digest | the database build, the dashboard |
| Keyword SERP collection (`poc-keyword-serp.mjs`) | an output directory: live response, task manifest, raw files, result | live requests by ten workers with three attempts each; or one POST and polling until a deadline; resume and recovery | the provider |
| SERP clustering (`keyword-serp-core.mjs`) | none | overlap of result lists, greedy complete-link clusters | the collection |
| Paid enrichment (`acquire-data-provider-b-enrichment.mjs`) | a manifest with the jobs done and the cost so far | one POST per job, ceiling on the cost | the provider |
| Review-decision ledgers (public-source, citation application, draft revision, semantic resolution, editorial) | two tables each: decision sets and decisions, keyed by packet digest and reviewer | validate, dry run, import | the database, the packets projected from it |
| Content readiness (`content-readiness-oracle.mjs`) | none | fourteen gates of a draft, the state of its publication | the ledgers, the database build |
| Dashboard database and server (`build-keyword-dashboard-db.mjs`, `keyword-dashboard-db.mjs`, `serve-keyword-dashboard.mjs`) | the SQLite file; one projection memoized in the server | rebuild, project, serve | everybody |
| Research API (`keyword-dashboard-api.mjs`) and MCP server | none | read-only routes and tools, pages with cursors | the projection, the database |
| Lineage, suggestion and traversal (`keyword-expansion-lineage.mjs`, `suggest-*.mjs`, `latent-demand-traversal.mjs`, `public-semantic-graph*.mjs`) | none | ledgers of where keywords come from and lead to; bounded walks | the database build, the API |
| Depth inventory and retention audit (`serp-depth-inventory.mjs`, `audit-serp-db-retention.mjs`) | none; raw files and database rows | what depth the evidence reaches; whether the database is the import of the files | raw files, database |
| Capability attestation (`build-…-completion-audit.mjs`, `run-capability-proof-attestation.mjs`) | an audit and a receipt file | hash, run commands, write the receipt | the working tree |

### What is hard here

- **Money before record.** The provider charges at the POST. Whatever happens
  between the POST and the manifest that records it (a crash, a reply that is
  refused or never arrives) is a charge nobody has written down.
- **State in files.** `writeFile` is not atomic, a script may die anywhere, and
  nothing stops two scripts from working on one directory.
- **Read-modify-write over minutes.** The collector reads the manifest when it
  starts and writes it back when it ends; the executor audits all manifests and
  posts later; an import checks first and writes afterwards; the attestation
  hashes, runs and then writes.
- **Rebuild in place.** The database is dropped and filled table by table while
  a server reads it, and a build may die at any statement.
- **Stale views.** The projection is built once per server process, and what a
  reviewer, an executor or a client saw may be out of date when it is used.
- **Workers.** Ten workers share a cursor; one failure rejects `Promise.all` and
  ends the script while the others are in the middle of something.
- **Ledgers that must agree.** Several projections count the same rows by
  different keys; greedy algorithms depend on an order; the traversals mark
  nodes at different moments.

### What makes each part correct

- Acquisition: evidence that is handed on is the whole result of one POST; an
  entry of the ledger is a real charge and names the set that was approved; a
  charge stays in the ledger; no set is paid for twice and the cap holds, as far
  as the replies arrive; an interrupted collection loses no result; scripts end
  and finished tasks are brought to a completed manifest.
- SERP collection: a resume neither loses nor buys again what was answered; a
  result is complete or not written; every execution ends.
- Enrichment: the manifest knows every charge but that of one job; the ceiling
  is exceeded by less than one job.
- Ledgers and readiness: one decision set per packet and reviewer; a gate opens
  only on the approvals of what is stored now and never on disagreement; a
  rebuild loses no decision.
- Database, server, API: a listing is whole, rows are those of the site that
  asked, what one life of the server says of a plan is of one projection,
  whoever asks is answered.
- Clustering and allocation: clusters are complete links and maximal; the plan
  fits what the cap leaves and keeps the best candidate of each key.
- Projections and audits: "nothing retained" means so; a clean audit means that
  the database is the import of the files; proven means that every command
  passed on the files there are now; more evidence never weakens a claim.

## 2. Plan

Everything of the first plan is done, in this order: acquisition and budget;
the keyword collection; the review ledgers; the enrichment run; the dashboard
database with server, API routes and executor's plan; readiness over the
ledgers; clustering and allocation; the projections and audits.

Left, in the order in which it would be worth doing:

1. The three other ledgers (editorial, semantic resolution, safe revision),
   which have the shape of the two that are modelled.
2. The refresh by a database built beside the old one and switched to.
3. The site projections whose rows the API answers (section 8).

| Module | Extends | Holds |
| --- | --- | --- |
| `LifetimeBudget`, `AcquisitionRemediation`, `AcquisitionEvidence`, `SpendLedger` | each other, in a row; `SpendLedger` is instantiated | paid acquisition and its abstract ledger |
| `KeywordSerpCollection` | - | the keyword collection |
| `ReviewLedgers`, `ContentReadiness` | the second the first | ledgers, rebuild, gates of a draft |
| `ResearchRoutes`, `ResearchApi`, `DashboardServer` | each other, in a row | routes, answers, database and server |
| `KeywordClustering`, `LifetimeAllocation`, `LatentDemandTraversal`, `PublicSemanticGraphQuery`, `KeywordExpansionLineage`, `SuggestExpansion`, `SerpDepthInventory`, `SerpDbRetention`, `CapabilityAttestation`, `EnrichmentRun` | `SuggestExpansion` extends `KeywordExpansionLineage` | one projection, audit or script each |
| `RankOrder` | - | a finite set in the order its ranks give it, for the sorted lists of two of these |
| `MCAcquisition`, `MCKeywordSerp`, `MCReviewLedgers`, `MCDashboard`, `MCProjections` | the above | instances for TLC; the last puts ten modules side by side |
| `AcquisitionProofs`, `AcquisitionSpendProofs`, `KeywordSerpProofs`, `ReviewLedgerProofs`, `DashboardProofs` | the module they are about | theorems |
| `ProjectionProofs`, `GraphProofs` | the modules of section 3.5 that plan and audit; those that walk | theorems |
| `SumProofs` | - | lemmas about sums, ranks and finite sets for the other proof modules |

## 3. The models

### 3.1 Paid acquisition

#### Modules

- `LifetimeBudget` - the audit as operators on a *ledger*, a function from run
  directories to manifests: which manifests count (`CommittedStates`), the cap
  (`WithinLifetimeCap`), the duplicate check (`DuplicateCandidateSet`) and the
  exception a manifest that does not parse causes (`AuditThrows`). Money is in
  units of 1e-8 USD, to which the code rounds, so it is a natural number. The
  legacy ledger is the constant `LegacyCommitted`.
- `AcquisitionRemediation` - executors and collectors as processes over the
  files of the run directories, and their environment.
- `AcquisitionEvidence` - the loader (`LoaderThrowsOn`, `LoadableRuns`) and all
  properties.
- `SpendLedger` - the abstract promise about money: `Pay` with the two guards
  the executor states in its error messages. They go by the charges whose reply
  arrived: one whose reply is lost is known to nobody (`lost`, `KnownSpent`).
  `AcquisitionEvidence` instantiates it (`Money`) with the charges the provider
  has made.
- `MCAcquisition` - instances and symmetry for TLC.
- `AcquisitionProofs`, `AcquisitionSpendProofs` - the theorems; the second holds
  those about money.

#### State and code

| Variable | In the code |
| --- | --- |
| `manifest[r]` | `run-manifest.json`: `state`, `set` = `scope.candidate_set_digest`, `cost` = `provider_reported_post_cost_usd`, `post` = whose tasks `task_map_digest` covers, `index` = what `result_index_digest` covers; "absent" and "torn" are files that do not exist or do not parse |
| `taskPost[r]` | `task-post.json`; the executor whose reply it holds stands for the reply |
| `raw[r][<<e, t>>]` | `raw/<acquisition_task_id>.json`; a task id is new with each POST, so it carries its executor |
| `index[r]` | `result-index.json`: whose results, their contents, and what the portfolio of that collection says of each task |
| `exec[e]` | one execution of the executor: where it is, its `outputDir`, the portfolio whose candidates it posts (`portfolio`) and the one whose approval it was given (`set`) |
| `coll[c]` | the collector: `run_manifest` is the variable `run` it read at the start, `portfolio` the one it read then, `todo` the tasks beyond the cursor, `flight` the requests in the air, `done` the array `completed` |
| `posts[e]`, `ready` | the provider: what was charged and accepted, whether its reply was lost, which tasks are finished |
| `served` | the candidate set of the projection the dashboard server keeps |

A member of `CandidateSets` is the digest of one portfolio; `Members` are its
source tasks and `TaskFields` what it says of each of them (batch, remediation
types, price), which the collector copies into every row of the index
(`IndexOf`, collect l.9-13). A body's digest is the body (`Bodies`): the checks compare digests
and nothing else. The approved scope of 98 tasks in one batch is `ScopeSize`.

| Action | In the code |
| --- | --- |
| `Ask`, `AnswerPortfolio`, `AnswerApproval`, `AuditBudget`, `Validate`, `SubmitTasks`/`LoseReply`/`SubmitFails`, `SavePost`, `RecordSubmission`/`RefuseReply` | the executor from top to bottom, cut wherever it awaits something another process can see; its four requests are answered in any order, by whatever the dashboard serves at that moment |
| `StartCollector` | collect l.8-12: reads the reply, the manifest and the portfolio; throws (is not enabled) when one is missing or an accepted task is unknown |
| `ReuseRaw`, `RequestResult`, `SaveResult`, `ResultPending`, `RequestFails` | one worker's turn (l.13); a failed request ends the script and cuts off the writes of the other workers |
| `WriteIndex`, `WriteManifest` | l.14-17 |
| `CrashExecutor`, `CrashCollector` | the process dies; the file it was writing may be torn |
| `ProviderFinishes`, `DashboardRestart` | the environment |

`Disturbances` names what the environment may do: `crash`, `concurrent`,
`reuse` of a directory, `pending` (a collection before the results are there),
`http` failures of result requests, `lostReply` (the POST is charged and its
reply never arrives: a timeout, a broken connection, an HTTP error of the
provider after the charge), `restart` of the dashboard between two answers to
one executor (a restart at any other moment is always possible), `badReply`,
`overcharge`. Each run chooses some; the proofs hold for every choice but where
they name one.

#### Abstractions

- A script that throws before it has sent or written anything is a script that
  was not started (environment variables are left out). The answers about batches
  and readiness, with the expired price, only let the executor go on or end it;
  `DashboardServer` has all four. What it compares of portfolio and approval,
  counts and maximum, is `PlanAgrees`.
- A write is one step. A reader that meets a half-written file throws, or for a
  raw file fetches again, so only a crash in the middle of a write matters, and
  that is modelled.
- `task-map.json` is written and never read, so it is not a variable.
- Times (`created_at`, `updated_at`) order the runs of the loader; which of
  several loadable runs it returns is not modelled.

### 3.2 Keyword SERP collection

`KeywordSerpCollection` is `poc-keyword-serp.mjs`: one script on one output
directory, started up to `MaxStarts` times in any of its modes. `MCKeywordSerp`
instantiates it; `KeywordSerpProofs` holds the theorems. Here the scripts do not
run side by side: the repository starts the collection by hand for one sample,
and what is hard is what one execution leaves to the next.

| Variable | In the code |
| --- | --- |
| `bought[k]` | the provider (external): its tasks for keyword `k`, in the order they were bought, each answered "live", or "queued", "finished", "collected" |
| `live_response` | `live-response.json`: per keyword which of its tasks answered, and whether with status 20000 |
| `raw` | the tasks whose file `raw/<task id>.json` is readable |
| `result` | `result.json`: the tasks it reports |
| `run` | the script: `todo` the keywords beyond `cursor`, `attempt[k]` the request in the air, `liveResponses`, `tasks` and `completed` as in the code |

| Action | In the code |
| --- | --- |
| `StartLive` | l.47-56: a live run starts with no answers, a resume with those of `live-response.json` that have status 20000 |
| `SkipAnswered`, `Ask`, `Answered` | l.57-78: a worker takes the next keyword, and asks for it up to `Attempts` times until the status is 20000; the answer overwrites the one before |
| `WriteLiveResponse` | l.82-84: the file is written first, and only then the script throws over a failed answer |
| `SaveLiveRaw` | the raw files and rows of the answers |
| `StartStandard`, `StartRecover` | l.86-113: one POST of all keywords, of which one rejection throws; or the list of ready tasks, whose number must be the number of keywords |
| `CollectResult`, `DeadlinePasses` | l.130-150: polling until every task is collected or the time is over |
| `WriteResult` | the summary, after which the script ends |
| `RequestFails`, `Crash`, `ProviderFinishes` | the environment: an HTTP error rejects `Promise.all`, a process dies and may tear the file it writes, the provider finishes a queued task |

Abstractions: the order in which the pool walks the input is any order; an
answer is its number among the keyword's tasks and whether it succeeded; costs
and dates follow the task and are not modelled, so that a property about costs
is one about which tasks are paid for and reported. The provider's list of
ready tasks is taken to be the finished tasks that nobody has fetched, which is
what the script relies on. `task-post.json` and `task-manifest.json` are never
read by the script.

### 3.3 Review ledgers and the rebuild

`ReviewLedgers` is two of the five ledgers, chosen because one feeds the other,
the scripts that import into them and the rebuild in place of the database that
holds them. `ContentReadiness` extends it with the gates of a draft.
`MCReviewLedgers` instantiates both; `ReviewLedgerProofs` holds the theorems
about both.

A source decision is about one claim and its public source. For each article
group whose claims have approved sources the projection makes a citation
application packet, whose digest covers the digests of the decisions behind it
and those of the reviews that block. Application decisions are about packets.

| Variable | In the code |
| --- | --- |
| `evidence` | the content of the database other than the decisions, `None` while a rebuild fills it; it fixes the review packet and its digest |
| `version` | whether `dashboard_metadata` holds a schema version |
| `exists`, `tables` | which of the four decision tables exist, and what they hold; a row of a set or a decision is the file it came from, and a decision also its item |
| `tx` | what an import's transaction has written and not committed |
| `file[f]`, `pc[f]` | a decision file, and where the import of it is |
| `builder` | where `buildDashboardDb` is |

| Action | In the code |
| --- | --- |
| `ExportSourceDecisions`, `ExportApplicationDecisions` | the dashboard page's exports: the digest the page has, the reviewer and decisions on some items, which may be edited before the import |
| `Validate` | the script projects the database, finds the packet with the file's digest, checks the decisions and looks for the reviewer's set |
| `InsertSet`, `InsertDecision`, `Commit` | `BEGIN` to `COMMIT`; the first insert takes the write lock and meets the primary key |
| `ImportFails` | locked, constraint, missing table or crash: the transaction is rolled back |
| `StartRebuild` | l.218-240: the schema version is checked and the first tables dropped |
| `DropDecisions`, `DropSets` | l.241-242, one table at a time, the application ledger first |
| `CreateTables`, `StampVersion`, `FinishRebuild` | l.243-379, l.380-382, l.383-601 |
| `RebuildFails` | locked, missing input or crash between any two statements |

The projection is operators: `SourceReviews` and `Approved` are the two `attach`
functions, `PacketSet` is `buildPublicSourceCitationApplicationPackets`.

Abstractions: a digest is the value it is taken of, and a decision's digest the
file the decision was in, so two files never hold the same decision.
`DecisionsAreValid` is the part of the validation that depends on the database:
the digest and the items. Files that the field checks refuse whatever is in the
database (an approval that lacks a prerequisite among them) are left out, and so
are empty ones, which the export
refuses and which an import would store without effect on any item. A reviewer who exports from a page that
was loaded earlier made the file earlier. The drafts the citations go into
belong to the content `Evidences` stands for. The projection is one step: its
statements are not one transaction, but what an import checks against it are
the rows of one of them and the key again at the insert. The new tables come
in one step, since they come empty. SQLite is external: it admits one writer at a time, and a transaction takes
effect whole or not at all.

`ContentReadiness` is `buildContentReadinessOracle`: two gates go by the ledgers
(`ReviewDecisionGate`, `CitationApplicationGate`), twelve by rows computed when
the database is built (`DraftOf`, which goes with the evidence), and the state
of the publication is the worst of them. The title gate never passes in the
code, so "ready_for_publication_review" is a state that is never reached.

### 3.4 Database, server, API and their readers

`ResearchRoutes` has one definition per route of `keyword-dashboard-api.mjs`: a
record that says where its rows come from (the projection, the database, or
files read at start), how they are tied to the site that is asked about (`tie`),
which parameters narrow which view, what is refused, and which views are
answered whole. `ResearchApi` says what `routeResearchApi` does with such a
record: `Status` (the refusals in their order), `AnsweredRows` and `Page`. The
parameters that choose how rows are matched or presented, but not whose they
are, are left out (the module's header lists them), and so are the fields of a
row: one value stands for everything a filter compares.

`DashboardServer` puts the routes over a database that is rebuilt.

| Variable | In the code |
| --- | --- |
| `db` | the SQLite file: whether it exists, whether `dashboard_metadata` holds the schema version, and which build filled the groups and the rows (0: created and empty) |
| `builder` | where `buildDashboardDb` is, and where the last one that died was |
| `server` | `serve-keyword-dashboard.mjs`: up, which life it is, what a projection in progress has read, and `dashboardCache` |
| `expired` | the builds whose price snapshot is over |
| `listing` | a client that follows `next_cursor` from one page to the next |
| `plan` | the executor's four requests for portfolio, batches, readiness and approval |

| Action | In the code |
| --- | --- |
| `StartBuild`, `DropTables`, `DropMetadata`, `CreateTables`, `Stamp`, `FillGroups`, `FillRows` | `buildDashboardDb`, cut where another connection can see the difference; the metadata is the last table dropped and the version is stamped before the first row |
| `BuildDies` | the process dies between any two statements |
| `StartServer`, `StopServer` | `openDashboardDb` refuses a file without the version; a stop takes the projection with it |
| `ReadGroups`, `ReadRows` | `dashboardCache ??= projectDashboard(db)`, which selects the groups first; a missing table is an exception, answered with a 404 |
| `AnswerPage`, `AnswerPart` | one response; a route that reads the database goes by the groups of the projection |
| `DecidePlan` | the executor's checks before it pays |
| `Unreachable` | the connection is refused while the server is down |

Abstractions: what a build writes is data (`Content`), two tables stand for 117;
a projection selects in two steps, between which a rebuild may go on, because the
first select fixes the groups and the others the rows. The dashboard's static
files and the check of the bind address at start are left out. The MCP server
calls the same routes; that two of its tools advertise a parameter their route
does not read (`progress` of `review_evidence_safe_manual_revision_packets`,
`depth` of `review_content_semantic_coverage`) is noted here and not modelled.
Three dispatcher branches can never be reached and have no record: the second
`market/locations` (l.5982) and `market/languages` (l.5992), and the second
co-occurrence route (l.5473).

### 3.5 Projections, audits and small scripts

Ten modules, each about one algorithm or script, which `MCProjections` puts side
by side: the initial state chooses one, the others stand still.

| Module | Code | A step |
| --- | --- | --- |
| `KeywordClustering` | `groupBySerp` | one candidate pair, in the order of the overlap |
| `LifetimeAllocation` | `buildAcquisitionLifetimeAllocation` | one row deduplicated, then one row selected or deferred |
| `LatentDemandTraversal` | `buildLatentDemandTraversal` | one node of the cycle search, then one item of the queue or stack |
| `PublicSemanticGraphQuery` | `queryPublicSemanticGraph` | one relation of the node at hand |
| `KeywordExpansionLineage` | lineage ledger, expansion lineage, content lineage | one row imported or acquired; the ledgers are operators over what is retained |
| `SuggestExpansion` | evidence oracle and expansion plan | the same steps; plan, frontier and traces are operators |
| `SerpDepthInventory` | depth inventory and content coverage | one result row or page inserted |
| `SerpDbRetention` | importer and retention audit | a file changes, the database is built |
| `CapabilityAttestation` | completion audit and attestation | an edit, the audit, one command, the receipt, a kill |
| `EnrichmentRun` | the paid enrichment and its loader | one await of the script; a crash, a lost answer |

A place where the code's order depends on the order of insertion is a choice
among the candidates that compare equal, so the properties hold for every such
order; an identifier that orders ties is its place in the order of identifiers.
A digest is the value it is taken of. In the attestation a file is its content
and the number of its last edit: the code compares contents only
(`ArtifactSet`), the number lets the property tell a file that was never changed
from one that was changed back.

## 4. What is checked

| Run | Module, configuration | Instance | Shows |
| --- | --- | --- | --- |
| `serial` | `MCAcquisition`, `AcqSerial.cfg` | 2 executors in the same directory, 1 collector, overlapping portfolios of 2 of 3 tasks; each with its own fields of the shared one; crash, reuse, pending, http, lostReply | `QuietRunsKeepResults`: with one script at a time index and raw files hold the results a completed manifest stands for, because a second collection finds what the first one wrote; the loader throws only where index and manifest are of two portfolios; `LedgerEntriesAreRealCharges` |
| `fresh` | `MCAcquisition`, `AcqFresh.cfg` | 2 executors, 2 directories, 2 portfolios, everything but reuse and pending | `LedgerEntriesNameTheirSet`: the entry names the approved set although the dashboard may serve another portfolio by then, and the set that was paid for unless the restart fell between the answers; `ChargesStayInLedger`, a torn manifest included |
| `spend` | `MCAcquisition`, `AcqSpend.cfg` | 3 executors, 3 directories, 2 portfolios, cap reached after two charges; failed requests and lost replies | `SpendsAsPromised`: the scripts implement `SpendLedger`, whose guards go by the charges whose reply arrived |
| `live` | `MCAcquisition`, `AcqLive.cfg` | 1 executor, 2 collectors of its directory, 2 tasks, 2 workers; concurrent, pending, overcharge, badReply; fairness | `TypeOK`; `LoadedEvidenceIsOneWholePost`: what passes the loader's checks is one whole POST although two collectors overwrite each other's files; `ReadyCollectionCompletes`; `ScriptsEnd` |
| `pending` | `MCAcquisition`, `AcqPending.cfg` | 2 executors, one disturbance | finding 1 below |
| `serp_modes` | `MCKeywordSerp`, `SerpModes.cfg` | 3 keywords, 2 workers, 3 attempts, 2 executions, each in any of the four modes; fairness | `TypeOK` (no keyword is asked for more than three times in an execution); `ResultsAreWhole`: `result.json` reports each keyword once and has all its raw files, or is not written; `ResumeKeepsWhatWasBought`; `ExecutionsEnd` |
| `serp_recover` | `MCKeywordSerp`, `SerpRecover.cfg` | 2 keywords, 3 executions, standard and recover | finding 2 below |
| `ledgers` | `MCReviewLedgers`, `Ledgers.cfg` | 2 claims of 1 group, 2 evidences (one supports both claims, one a single claim), 2 reviewers, 3 files, 2 states | `TypeOK` (no decision on an item of another packet); `SetsAreWhole`; `OneSetPerReviewer`, although imports look before they lock; `ApprovalsRestOnWhatWasReviewed`: an approved application rests on the source decisions its reviewers saw; `DisagreementStays`; `UnblockedOnlyIfReviewed`: a draft no gate blocks has every cited claim approved, and its application approved by somebody who saw these approvals |
| `ledger_rebuild` | `MCReviewLedgers`, `LedgerRebuild.cfg` | the same with 2 files | finding 3 below |
| `dashboard` | `MCDashboard`, `DashServer.cfg` | 2 sites, 3 groups, 2 builds of some ten rows, 2 lives of the server, pages of 1 to 3 rows, one route of every kind with its parameters; fairness | `TypeOK`; `OnlyTheStampWindowLocks`: only a build that died between the drop and the stamp of the version leaves a file nobody replaces; `ListingIsWhole`; `OnlyOwnRows`; `PlanIsOfOneProjection`: parts answered by one life of the server are of one projection (plans of two lives occur and may mix); `ReadersEnd` |
| `stale_price` | `MCDashboard`, `StalePrice.cfg` | the same without a listing | finding 4 below |
| `projections` | `MCProjections`, `Projections.cfg` | see below | fifteen properties of the ten modules of section 3.5 |

The properties of `projections`:

| Property | Says |
| --- | --- |
| `ClustersAreMaximal` | the clusters partition the keywords into complete links at every moment, and after one pass over the pairs no two of them could still be merged |
| `PlanFitsTheBudget`, `BestBandIsKept` | the plan fits what the cap leaves and what it deferred does not fit any more; of the candidates of one key the best band survives although the comparison also looks at scores |
| `StrategiesDifferInOrderOnly`, `NoCycleIsUnreviewed` | both traces show every node once by a retained path; what is not flagged for review has no cycle |
| `BreadthFirstIsComplete` | a breadth-first answer that is not marked truncated holds exactly the relations within the depth, each at its distance; no answer holds others |
| `ZeroMeansNothingRetained`, `EvidenceOnlyStrengthens`, `InventoryLedgersAgree` | a row that led to nothing really did, in three ledgers that count by different keys; more evidence never takes a claim back; lineage, oracle and plan tell one story |
| `DepthNeverRegresses`, `ContentCoverageAccountsForEveryRow` | the depth a task is said to reach only grows; parsed and unparsed rows add up to the deep rows |
| `CleanAuditMeansDatabaseMatchesFiles`, `FreshBuildRetainsEverything` | a clean audit means that the database is what an import would give now; a database just built passes |
| `ProvenMeansPassedOnTheseFiles` | a capability is proven only if each of its commands passed on the files there are now, or on files that were changed and changed back around it |
| `ChargesAreKnownButForOneJob` | a readable manifest lacks at most one charge, and no job is posted above the ceiling |

**Bounds.** The acquisition's properties relate at most two scripts that share a
directory, or two directories that share a candidate set: two of each are what a
counterexample needs, and a third executor in `spend` exceeds the cap. Two
tasks and two workers are enough for a collection to be complete, partial or
cut off with one request in the air. In `serial` two bodies tell a file that was
fetched again from the one before, and the fields of the shared task an index
of one portfolio from that of the other. A plan maximum of 2 with charges 1 to 3 gives
charges below, at and above the approval.

For the keyword collection, three keywords and two workers make the limit of the
pool bind; the three attempts are the code's; two executions are a first one and
the resume or recovery that builds on it, and the counterexample of
`serp_recover` takes a third.

For the ledgers, three files are a source approval, an application approval on
top of it and a later source decision that undermines it; two reviewers race
and disagree; two claims of one group make a packet that can lose or gain one.
A second group would add independent packets, and a third evidence a rebuild
that two of them already show. Files and reviewers are symmetric, and the run
checks no liveness property.

For the dashboard, `MaxBuilds` = 2 is a content and the one that replaces it (it
puts two rows before the others, so that offsets shift, and loses a group);
`MaxLives` = 2 is a server and the one after a restart. `OfEachKind` takes one
route for all those whose records differ only in which parameters they read, so
every rule of `Status`, `Tied` and `Narrowing` is exercised with a page limit
that is too small (0), and one that needs several pages. `Expiring` = {1}: the
price of the first build may expire, once the executor has asked.

For the projections, four keywords are the least with two clusters of two that
one missing link keeps apart; seven candidates of five keys have a tie of bands, a
price that is missing and one that fits only before others; three rows of
demands make a loop, a diamond and a second type of an edge; four synsets and
six relations make a relation that is out of reach depth first, and of four
partial senses, two of one synset, the last is beyond `PartialLimit`; two keywords in
several rows, groups of two sites and a proposal make the ledgers count
differently; results on both sides of rank 11 and of the target; two audited raw
files and one that is not; two capabilities that share a command and one with a
gap, two files of two contents each, `MaxEdits` = 2 (a change and the change
back); two enrichment runs of `JobCount` = 2 jobs that share a
balance.

**Fairness.** In the acquisition, `FairSpec` assumes weak fairness of each
executor's and each collector's next step: a Node process that is running goes
on with its next statement, and a request or a write that was issued settles
(`fetch` answers or fails). Nothing is assumed of who starts scripts, of the
provider or of the dashboard. `ScriptsEnd` is not trivial because the collector's
loop depends on results that need not come; `ReadyCollectionCompletes` speaks
only of collections whose results are there. In `KeywordSerpCollection` fairness
is weak for the steps of the running script (`RunStep`): a request is answered
or fails and the clock reaches the deadline. A queued task need not ever finish.
In `DashboardServer` it is weak for `Project` and `Answer`: the server is an
event loop that works on what it was asked, and a connection to a server that
is down is refused. Nothing is assumed of the builder, which may die or never
go on, nor of who starts or stops the server. The other models assume no
fairness: nothing there has to happen.

**Deadlock.** Every run has `CHECK_DEADLOCK FALSE`: when no script is running
and none can be started, a ledger's files are imported, or an algorithm has
ended, nothing is left to do.

## 5. Findings and observations

A finding is a run that refutes what the repository says of itself.

1. `pending` - `NoDuplicatePaidExecution` states what the executor's own error
   message says ("candidate set was already submitted; duplicate paid execution
   is forbidden"). `collect` l.15 writes `submitted_results_pending` when one
   result is missing; the audit does not count that state, so charge and set
   leave the ledger. The same configuration refutes it in two other ways, with
   `Disturbances = {"badReply"}` (the reply is refused after the POST was
   charged, and the manifest stays at `validated_not_submitted`) and with
   `{"reuse"}` (the audit skips the executor's own directory). `spend` shows the
   other side: without these three and with one script at a time, the promise
   holds, but for a POST whose reply is lost.
2. `serp_recover` - `verify-poc-evidence.mjs:25` asserts of the result file that
   "source keyword IDs must be unique". `poc-keyword-serp.mjs` l.113 makes sure
   only of the *number* of ready tasks. After two interrupted standard runs
   there are two tasks for a keyword; when as many tasks as keywords are ready
   they need not be one of each, and the recovery writes a result in which one
   keyword is twice and another missing. Without a keyword queued twice the
   result is whole (`ResultsAreWhole`, `UniqueWithoutRecovery`).
3. `ledger_rebuild` - `buildDashboardDb` drops every decision table (l.241-242)
   and creates it empty; nothing copies the rows over. The repository's check
   of a rebuilt database, `verify-semantic-db-refresh.mjs:21`, asserts that
   every table named `%decisions` or `%decision_sets` is unchanged. A set can be
   imported again from its file while its packet digest still fits, but its row
   then has another `imported_at` and differs all the same.
4. `stale_price` - `price_expired` is computed when the projection is built and
   kept with it. The executor stops a payment with "price snapshot expired"
   (l.29) on that flag alone: a server started before the price expired answers
   for as long as it lives that it is valid.

Observations made while modelling. No sentence of the repository contradicts
them, so they are no findings; the properties above are stated so that they hold
in spite of them, and name the exceptions.

- Acquisition, lost replies: `request` (execute l.19) throws on a timeout or an
  HTTP error although the provider may have charged. Nothing on disk tells of
  that charge, neither refusal of the executor sees it, and the set can be paid
  for again.
- Acquisition, second collections: an index row copies what the portfolio served
  now says of the task (collect l.9-13), and `result_index_digest` covers it. A
  completed run that is collected again under another portfolio and cut off
  between the two writes of l.17 has a manifest with another digest than its
  index: the loader, and with it every database build, throws until the run is
  collected once more.
- Acquisition, requests: the four answers are compared by counts and maximum
  only (execute l.30-32). A dashboard restarted between them may answer from two
  portfolios, and `candidate_set_digest` is then that of the approval and not of
  the tasks that are posted.
- `keyword-expansion-lineage` route: the lineage of a site is built of the demand
  occurrences of all sites, so it answers rows of other sites
  (`OnlyOwnRows` names them).

- `latent-demand-traversal.mjs`: `ensureNode` is called with `rowGroupId:` and
  destructures `groupId: rowGroupId`, so the group is undefined: all seeds are
  one node, and equal demands of different groups merge. With edges of several
  types to one demand the depth-first order may differ at depth 1 while the
  state says "insufficient_retained_depth". A node that reaches its cycle only
  through a node that is finished is not flagged. A trace's depth can exceed the
  node's when roots of depth 0 and 1 mix.
- `public-semantic-graph-query`: depth first may miss relations (a synset first
  found far away is not opened again); `truncated` is also said when the bound
  was reached exactly.
- `keyword-expansion-lineage.mjs`: a group's demands and terms are attributed to
  the first source row only; every normalized keyword is "retained"; a demand
  node that is met again keeps the group ids of the first time; occurrences,
  demands and synonyms are not filtered by site (`keyword-dashboard-db.mjs:754`).
- `suggest-*`: "mixed" is also said of two acquired states that differ;
  `summary.max_plan_depth` is 3 while both traces reach depth 2; the path for a
  database without oracle groups by a normal form that keeps inner spaces.
- `audit-serp-db-retention.mjs` reads the top level of three raw directories,
  the importer every one below; an organic item without an address is a gap for
  good; a second file of a task is only listed; a wrong order of features alone
  can go unnoticed.
- Attestation: hashes are of contents, so a file changed after the audit and
  changed back after the commands leaves the proof attested, although they ran
  on another content (`ChangedAndBack`).
- Enrichment: a crash while the manifest is written tears it (the raw replies
  remain); the charges are not part of the lifetime budget; nothing resumes.
- Readiness: the title gate never passes.

## 6. What is proved

| Module | Theorem | Property |
| --- | --- | --- |
| `AcquisitionProofs` | `TypeCorrect`, `LedgerIsReal`, `EvidenceIsWhole` | `TypeOK`, `LedgerEntriesAreRealCharges`, `LoadedEvidenceIsOneWholePost`, for every choice of `Disturbances` |
| | `LedgerNamesItsSets` | `LedgerEntriesNameTheirSet` (which speaks of directories used once), for every choice of `Disturbances` |
| | `SerialRunsKeepResults` | `QuietRunsKeepResults`, where scripts run one at a time |
| `AcquisitionSpendProofs` | `ChargesStay` | `ChargesStayInLedger`, where no directory is reused and no collection starts early; concurrent scripts and crashes are allowed |
| | `SpendingRefines` | `SpendsAsPromised`: the refinement of `SpendLedger`, where at most result requests fail and replies are lost |
| | `CapIsKept` | the charges whose replies arrived never exceed the lifetime cap, in the same circumstances; all charges do not, as long as no reply was lost |
| `KeywordSerpProofs` | `CollectionTypeCorrect`, `ResultsWhole`, `ResumeKeeps` | `TypeOK`, `ResultsAreWhole`, `ResumeKeepsWhatWasBought` |
| | `UniqueWithoutRecovery` | `OneResultPerKeyword` where no execution recovers: finding 2 is the recovery's alone |
| `ReviewLedgerProofs` | `LedgerTypeCorrect`, `SetsWhole`, `UniqueSets`, `ApprovalsRest`, `DisagreementIsFinal` | `TypeOK`, `SetsAreWhole`, `OneSetPerReviewer`, `ApprovalsRestOnWhatWasReviewed`, `DisagreementStays` |
| | `UnblockedWasReviewed` | `UnblockedOnlyIfReviewed` |
| `DashboardProofs` | `DashboardTypes`, `StampWindowLocks`, `ListingsAreWhole`, `PlansAreOfOneProjection`, `RowsAreOwn` | `TypeOK`, `OnlyTheStampWindowLocks`, `ListingIsWhole`, `PlanIsOfOneProjection`, `OnlyOwnRows` |
| `ProjectionProofs` | `ClustersMaximal` | `ClustersAreMaximal` |
| | `AllocationFits`, `DeduplicationKeepsTheBest` | `PlanFitsTheBudget`, `BestBandIsKept` |
| | `ChargesAreKnown` | `ChargesAreKnownButForOneJob` |
| | `ProvenIsProven` | `ProvenMeansPassedOnTheseFiles` |
| | `DepthStays`, `DeepRowsAreAccountedFor` | `DepthNeverRegresses`, `ContentCoverageAccountsForEveryRow` |
| | `CleanMeansSame`, `FreshRetains` | `CleanAuditMeansDatabaseMatchesFiles`, `FreshBuildRetainsEverything` |
| `GraphProofs` | `EvidenceStrengthens`, `ZeroIsNothing` | `EvidenceOnlyStrengthens`, `ZeroMeansNothingRetained` |
| | `LedgersTellOneStory` | `InventoryLedgersAgree` |
| | `CyclesAreReviewed` | `NoCycleIsUnreviewed` |
| | `StrategiesShowTheSame` | `StrategiesDifferInOrderOnly` |
| | `BreadthFirstComplete` | `BreadthFirstIsComplete` |
| `SumProofs` | lemmas only | what the other modules need of sums, ranks and finite sets |

Each holds for every value of the constants that meets the assumptions of its
module (`...Assumption`): naturals, functions on the sets they are about,
sentinels that are not values, and finite sets wherever the code loops over
them or adds them up (run directories, files, tasks, rows, relations). Three
are more than that: `RequestsAssumption` says that the rows of the corpus carry no
site, `ContentsAssumption` what the importer's own checks and the provider
guarantee of a raw file (one task, an organic rank used once), and
`CorpusAssumption` that a group has an identifier of its own, the key of its
table. TLC evaluates
them in every run. The theorems of the acquisition that need fewer disturbances
say so as a hypothesis on `Disturbances`; the runs `fresh`, `spend` and `serial`
are instances of these hypotheses, and the run `pending` shows that they are
needed.

None of the properties is inductive. What the invariants add:

**Acquisition.** A manifest is written from what a process holds in memory, and
evidence is judged by comparing two files. `IInv` says what the processes and
files know: an executor past its POST has a post, made from its directory
(`ExecutorInv`); a saved reply and a running collector are of a POST made from
the directory they are in (`SavedPostInv`, `CollectorInv`); a counted manifest,
also one in a collector's memory, carries the charge of such a POST
(`ChargeInv`); a completed manifest covers an index with exactly the accepted
tasks (`CompletionInv`). With the loader's comparison of the digests this gives
`EvidenceIsWhole`.

`NamesInv` adds, without reuse, that a directory is one executor's for good and
that every manifest of it, in the file or in the memory of a collector, names
the set whose approval that executor was given. `SerialInv` adds, with one script at a time, that an
executor finds its first manifest unchanged (`OwnManifest`), that a completed
manifest still fits reply, index and raw files (`CompletedFits`), and that a
collector which works on a completed run finds every raw file and requests
nothing, so that the results it indexes are those that were indexed before
(`CollectorFits`): this is why a collection that dies between index and manifest
loses none. What the portfolio says of the tasks may differ between the two, and
then, but only then, the loader throws.

**Money.** For `ChargesStay` the danger is the collector's manifest, written from
a copy that is minutes old. A collection that starts when all accepted tasks
have finished finds a result for each, whoever else works on the directory, so
what it writes is counted again (`CompleteManifest`); and a directory used once
has one POST (`OnePost`), so it is at the same charge. `SpendInv` is what makes
the scripts a refinement: without other disturbances only one executor has a
POST that is not in the ledger yet, but for those whose reply was lost, and
while it looks at the budget it has none; so the audit sees everything that was paid
(`LedgerIsComplete`, `AuditSeesEverything`), and the two guards of `Pay` are still true when the POST is
made. `CapIsKept` adds the sum: a payment changes one summand by at most the
planned maximum that was compared with the remaining budget. Its sum is of the
charges whose reply arrived, which is all of them if none was lost.

**Keyword collection.** `IInv` adds what an execution knows while it runs:
`CollectingInv` (its tasks are the provider's, one for each keyword unless it
recovers, and what it has collected has a raw file), `ResumeInv` (a resumed pool
still holds every answer it took over) and `AskingInv`. A recovery has only a
number to go by; `AsManyAnswersAsKeywords` shows by counting that as many tasks
as keywords, at most one of each, are exactly one of each.

**Ledgers and readiness.** `LedgerInv` joins the first three properties with
what a running import knows (`ImportInv`) and what its transaction holds
(`TxInv`). The insert of a set under the write lock, where the key is tested
again, keeps sets unique; the checks in `Validate` could be dropped. For
`ApprovalsRest`, `SeenInv` says that an application file's digest is the packet
set of the reviews its reviewer saw, and the lemma `PacketsKeepReviews` that two
equal packet sets of one evidence have equal reviews for every claim: approved
claims appear in placements, the others among the blocked reviews, and both
carry the decisions' digests. `DisagreementIsFinal` rests on `ReviewsGrow`: while
the content stays, no step removes a review. `UnblockedWasReviewed` follows from
`ApprovalsRest`: gates that do not block have whole approvals behind them.

**Dashboard.** A projection is kept as long as its server lives, so the
invariants compare what a client or the executor has received with what the
server keeps, and only as far as it is of the same life: `ListingInv` says that the
rows received are the first rows of the answer, as many as the cursor says, and
`PlanInv` that of the parts of the plan those this life answered are the kept
projection, and those of an earlier life are equal among themselves; `StampInv` follows the schema
version through the build. That the cursor of a page is past the last and the
page starts where the one before ended is the arithmetic of `Page`. For
`RowsAreOwn` the ties of the routes are derived from their records
(`Status`, `Tied`), so that a request that is not refused names a site wherever
the rows of the route have one; `OwnListing` says the same of the rows a client
holds from earlier pages, which may be of another build. The occurrences of the
expansion lineage are excepted by name (`OfAllSites`), and the derivation shows
that no other tie needs it.

**Clustering.** That the clusters are complete is inductive. That none is left to
be merged rests on `TakenPairsAreSettled`: a linked pair the loop has taken whose
keywords are in two clusters has shown an unlinked pair between these two, and
no later merge takes an unlinked pair away.

**Allocation.** The cost only grows, so what did not fit when it was deferred
does not fit later. `BetterScoreBetterBand` compares the scores of the tiers: the
value within a tier (0 to 50) never outweighs the distance between bands.

**Enrichment and attestation.** What a run was charged, what its script has read
and what its manifest says are prefixes of one sequence of costs, each at most
one longer than the next, and the cost of a prefix is no more than that of the
whole. For `ProvenIsProven` the edits of a file are numbered: what the audit
hashed was there no later than what a command ran on, and that no later than
what is there now. The receipt repeats the hashes of the audit, and the proof
counts only while they are those of the files there are now; so a command that
ran on another content ran between two edits, the second of which brought the
attested content back. The code cannot see these edits, which is why the theorem
names them (`ChangedAndBack`) instead of excluding them.

**Depth and retention.** A state of a task is a condition on the ranks that were
seen, and of these there are only more. The totals of the content ledger are
sums over tasks: each deep row is counted once, under the state of its task. A
database is a function of the payloads it was built from, and an audit that is
clean has found these payloads equal to the files', as many files as tasks: so
no file is hidden behind another of the same task. That a fresh build passes is
the converse and needs the two programs to count alike: the importer numbers
the features it keeps, the audit those it meets (`FreshRetains` by induction
over the items), and an organic row is found again by its rank.

**Lineage and traversal.** A state is the strongest of the states of a set of
rows, and a larger set has no weaker strongest. That a node with a zero really
has no rows goes through the sums. For `CyclesAreReviewed`: a node the search has
left without finding a cycle leads only to nodes that were left before it, so
among nodes that lead back to themselves the first one left was flagged.

**The ledgers of one inventory.** The lineage counts edges and nodes, the evidence
counts by keyword, the plan by keyword and class; `LedgersTellOneStory` says that
they count the same. A node, an edge and a seed carry what they are of (their
type, or their keyword), so the sets they are counted in are disjoint and cover
the whole, and the lemma `PartsCount` adds them up. Groups are counted by their
identifiers, which is where `CorpusAssumption` is needed. The walk of `traceFor` is a function
over the naturals: the recursion is shown to have a solution, which is then
computed for six looks in each order; after them nothing is left, so the bound
`VisitLimit` cuts no walk short.

**The two strategies.** `TraceInv` follows a trace item by item. Whatever waits is
a retained path with its depth whose nodes but the last were shown (`LedTo`), so
what is taken from either end extends the trace soundly, and what is visited is
what the trace covers. That a root is no deeper than requested comes from the
rows that match (`DemandAssumption`: a depth is at least one), for the others
from the walk's own guard. Where the answer reports `insufficient_retained_depth` and
no demand has two edges, the graph is a star around the seed (`StarInv`): all
demands are pushed at once, in order or reversed, and taken from the other end,
so the two traces agree. That the sorted lists hold each root and edge exactly
once comes from the ranks of `RankOrder`.

**The public lexicon.** Breadth first the items wait in the order of their
distance from the seeds, at most two distances at a time; when an item is taken
everything nearer was reached (`ReachedWithin`), so what it finds is exactly one
farther (`OrderInv`). `FoundInv` says what rows, visits and finished synsets say
of each other; `SoundInv` holds for depth first as well: what is shown has a
path of allowed relations from a seed and no depth below its distance.

**Sums and induction.** The models add up with `SumFunctionOnSet` of `Functions`,
a recursive function over subsets. The provers here cannot instantiate the
library's induction theorems, so `SumProofs` does without: the numbers have a
least-number principle as a fact about sets, an induction is a set of numbers
(or of subsets, by `Cardinality`) that is shown to hold every one, and the
recursion is shown to have a solution, the sum to be a number that does not
depend on the order. The same way the elements of a finite set are counted along
a strict total order, which is how the places in a sorted list are reasoned
about.

## 7. Only model-checked

- Liveness (`ReadyCollectionCompletes`, `ScriptsEnd`, `ExecutionsEnd`,
  `ReadersEnd`): out of reach of the prover, as is everything with `ENABLED`.
- The four runs that refute something (section 5): a proof would have nothing to
  show, and the theorems above say under which hypotheses the promise holds.

The hazard of two executors that audit before either has posted is what
`SpendsAsPromised` is about; it holds because the run, and the hypothesis of the
theorem, start scripts one at a time, as the repository does.

## 8. Not modelled

- The editorial, semantic-resolution and safe-revision ledgers: import scripts
  of the same shape as the two that are modelled, on packets of their own.
- The refresh by a database built beside the old one: files are moved by hand.
- The catalogue of the OpenAPI document (`keyword-dashboard-api.mjs` l.121-1169).
  Its 130 documented paths were compared with the router: they match, except for
  the document itself and the route of a group's brief, which is a pattern.
- `keyword-grouping.mjs`: rules over text; the assignment of keywords to groups
  is a constant of the lineage.
- The meaning store: one transaction that creates and fills its tables.
- The site projections (page, demand, question and competitor evidence, drafts,
  portfolios): pure functions over text and thresholds. Their rows are what the
  routes answer and what `Content` and `DraftOf` stand for.
- Fetchers, readers and importers (one request or one file each), semantic review
  and evaluation tools, inventories, contracts and validators: sequential, with
  a report as their only result.
- The tests (a third of the script lines), the browser prototypes and the static
  documents.
