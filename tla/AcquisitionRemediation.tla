----------------------- MODULE AcquisitionRemediation -----------------------
(***************************************************************************)
(* Paid acquisition runs: scripts/execute-acquisition-remediation.mjs      *)
(* (the executor: audit, POST, record), scripts/collect-acquisition-       *)
(* remediation.mjs (the collector: fetch results, index, record) and       *)
(* scripts/acquisition-remediation-evidence.mjs (what the database build   *)
(* loads).  They share nothing but the files of a run directory.           *)
(*                                                                         *)
(* An executor is one execution of its script.  A collector is a script    *)
(* that is started again and again.  A script that throws before it has    *)
(* written or paid for anything is a script that was not started.          *)
(*                                                                         *)
(* writeFile is not atomic.  A reader that meets a half-written file       *)
(* throws, or for a raw file fetches again, so a write is one step here    *)
(* and only a crash during it leaves a torn file behind.                   *)
(*                                                                         *)
(* The provider is external: it charges at the POST, whether or not its    *)
(* reply arrives, and finishes the accepted tasks in its own time.  So is  *)
(* the dashboard server, which serves one candidate portfolio until it is  *)
(* restarted.                                                              *)
(***************************************************************************)
EXTENDS LifetimeBudget

CONSTANTS
  Executors, Collectors,
  Sources,           \* source tasks a candidate may ask to acquire again
  CandidateSets,     \* digests of the portfolios the dashboard may serve
  Members,           \* the source tasks of each candidate set
  TaskFields,        \* what a portfolio says of each task besides its name
                     \* (batch, remediation types, price), told apart by a number
  PlanMax,           \* summary.maximum_cost_usd of each candidate set
  ScopeSize,         \* the approved scope: 98 tasks in one batch
  ApprovedCap,       \* WP_APPROVED_BUDGET_USD
  Charges,           \* what the provider may charge for a POST
  Bodies,            \* contents of a result as its digest tells them apart
  Workers,           \* fetches in flight at once in one collector
  Disturbances,      \* which of AllDisturbances the environment may cause
  None, Torn

AllDisturbances ==
  {"crash",          \* a script dies between or during two steps
   "concurrent",     \* scripts run at the same time
   "reuse",          \* an executor is pointed at a directory used before
   "pending",        \* a collector runs before the provider has finished
   "http",           \* a result request fails
   "lostReply",      \* the provider charges a POST and its reply is lost
   "restart",        \* the dashboard is restarted between two answers to an executor
   "badReply",       \* the POST's reply does not match what was asked
   "overcharge"}     \* the provider charges more than its public maximum

ASSUME AcquisitionAssumption ==
  /\ Members \in [CandidateSets -> SUBSET Sources]
  /\ TaskFields \in [CandidateSets -> [Sources -> Nat]]
  /\ PlanMax \in [CandidateSets -> Nat]
  /\ ApprovedCap \in Nat \ {0}
  /\ Charges \subseteq Nat
  /\ Workers \in Nat \ {0}
  /\ Disturbances \subseteq AllDisturbances

VARIABLES
  manifest,          \* run-manifest.json of each run directory
  taskPost,          \* task-post.json: the executor whose reply it holds
  raw,               \* raw/<acquisition task>.json of each run directory
  index,             \* result-index.json of each run directory
  exec,              \* the executors
  coll,              \* the collectors
  posts,             \* the provider's side of each executor's POST
  ready,             \* the acquisition tasks the provider has finished
  served             \* the candidate set the dashboard serves

files == <<manifest, taskPost, raw, index>>
provider == <<posts, ready>>
vars == <<files, exec, coll, provider, served>>

\* An acquisition task is new with every POST, so it carries its executor.
AcquisitionTasks == Executors \X Sources

CompletedStates == {"completed", "completed_with_rejections"}
ManifestStates ==
  CommittedStates \cup
    {"absent", "torn", "validated_not_submitted", "submitted_results_pending"}

Rows == [Sources -> Bodies \cup {None}]
IndexFile == [post : Executors, rows : Rows, fields : [Sources -> Nat \cup {None}]]
Manifest == [state : ManifestStates, set : CandidateSets \cup {None}, cost : Nat,
             post : Executors \cup {None},   \* whose tasks task_map_digest covers
             index : IndexFile \cup {None}]  \* what result_index_digest covers
Post == [run : Runs, set : CandidateSets, answered : SUBSET Sources,
         accepted : SUBSET Sources, cost : Nat, lost : BOOLEAN]
Executor == [pc : {"idle", "asking", "audited", "validated", "posted", "saved", "ended"},
             run : Runs \cup {None},
             portfolio : CandidateSets \cup {None},   \* whose candidates it posts
             set : CandidateSets \cup {None}]         \* whose approval it was given
Collector == [pc : {"idle", "working", "indexed"}, run : Runs \cup {None},
              run_manifest : Manifest, portfolio : CandidateSets \cup {None},
              post : Executors \cup {None},
              todo : SUBSET Sources, flight : SUBSET Sources, done : Rows]

ASSUME SentinelAssumption ==
  /\ None \notin Bodies \cup Executors \cup CandidateSets \cup Runs
  /\ None \notin Post \cup IndexFile
  /\ Torn \notin Executors

NoRows == [t \in Sources |-> None]
Found(rows) == {t \in Sources : rows[t] # None}
Unwritten(state) ==
  [state |-> state, set |-> None, cost |-> 0, post |-> None, index |-> None]
IdleCollector ==
  [pc |-> "idle", run |-> None, run_manifest |-> Unwritten("absent"),
   portfolio |-> None, post |-> None, todo |-> {}, flight |-> {}, done |-> NoRows]

Init ==
  /\ manifest = [r \in Runs |-> Unwritten("absent")]
  /\ taskPost = [r \in Runs |-> None]
  /\ raw = [r \in Runs |-> [a \in AcquisitionTasks |-> None]]
  /\ index = [r \in Runs |-> None]
  /\ exec = [e \in Executors |-> [pc |-> "idle", run |-> None, portfolio |-> None, set |-> None]]
  /\ coll = [c \in Collectors |-> IdleCollector]
  /\ posts = [e \in Executors |-> None]
  /\ ready = {}
  /\ served \in CandidateSets

Quiet ==
  /\ \A e \in Executors : exec[e].pc \in {"idle", "ended"}
  /\ \A c \in Collectors : coll[c].pc = "idle"
MayStart == "concurrent" \in Disturbances \/ Quiet
\* The default output directory is named by the time of the execution.
Fresh(r) == manifest[r].state = "absent" /\ \A e \in Executors : exec[e].run # r

-----------------------------------------------------------------------------
(* The executor                                                            *)

\* Sends its requests to the dashboard at once.
Ask(e, r) ==
  /\ exec[e].pc = "idle"
  /\ MayStart
  /\ "reuse" \in Disturbances \/ Fresh(r)
  /\ exec' = [exec EXCEPT ![e] =
                [pc |-> "asking", run |-> r, portfolio |-> None, set |-> None]]
  /\ UNCHANGED <<files, coll, provider, served>>

\* The answers come in any order.  Those about batches and readiness only let
\* the script go on or end it (DashboardServer has them).
AnswerPortfolio(e) ==
  /\ exec[e].pc = "asking"
  /\ exec[e].portfolio = None
  /\ exec' = [exec EXCEPT ![e].portfolio = served]
  /\ UNCHANGED <<files, coll, provider, served>>

AnswerApproval(e) ==
  /\ exec[e].pc = "asking"
  /\ exec[e].set = None
  /\ exec' = [exec EXCEPT ![e].set = served]
  /\ UNCHANGED <<files, coll, provider, served>>

HalfAnswered(e) ==
  exec[e].pc = "asking" /\ (exec[e].portfolio = None) # (exec[e].set = None)

\* Portfolio and approval are compared by number of tasks and maximum cost.
PlanAgrees(portfolio, set) ==
  /\ Cardinality(Members[portfolio]) = ScopeSize
  /\ PlanMax[portfolio] <= ApprovedCap
  /\ Cardinality(Members[set]) = ScopeSize
  /\ PlanMax[set] = PlanMax[portfolio]

Goes(e, pc) == exec' = [exec EXCEPT ![e].pc = pc]

\* The audit asks about the set of the approval.
AuditBudget(e) ==
  LET r == exec[e].run
      portfolio == exec[e].portfolio
      set == exec[e].set
  IN /\ exec[e].pc = "asking"
     /\ portfolio # None /\ set # None
     /\ Goes(e, IF /\ PlanAgrees(portfolio, set)
                   /\ AuditAdmits(manifest, r, set, PlanMax[portfolio])
                  THEN "audited" ELSE "ended")
     /\ UNCHANGED <<files, coll, provider, served>>

Validate(e) ==
  /\ exec[e].pc = "audited"
  /\ manifest' = [manifest EXCEPT ![exec[e].run] =
                    [Unwritten("validated_not_submitted") EXCEPT !.set = exec[e].set]]
  /\ Goes(e, "validated")
  /\ UNCHANGED <<taskPost, raw, index, coll, provider, served>>

\* What the provider may answer, and charge, for the candidates of one POST.
Replies(e, lost) ==
  {p \in [run : {exec[e].run}, set : {exec[e].portfolio}, answered : SUBSET Sources,
          accepted : SUBSET Sources, cost : Charges, lost : {lost}] :
     /\ p.accepted \subseteq p.answered
     /\ "badReply" \in Disturbances \/ (p.answered = Members[p.set] /\ p.accepted # {})
     /\ "overcharge" \in Disturbances \/ p.cost <= PlanMax[p.set]}

ProviderCharges(e, lost) ==
  \E p \in Replies(e, lost) :
    /\ posts' = [posts EXCEPT ![e] = p]
    /\ ready' = IF "pending" \in Disturbances THEN ready
                                              ELSE ready \cup ({e} \X p.accepted)

SubmitTasks(e) ==
  /\ exec[e].pc = "validated"
  /\ ProviderCharges(e, FALSE)
  /\ Goes(e, "posted")
  /\ UNCHANGED <<files, coll, served>>

\* The request fails after the charge (a timeout, an HTTP error, a broken
\* connection): the script throws and nothing on disk tells of the charge.
LoseReply(e) ==
  /\ "lostReply" \in Disturbances
  /\ exec[e].pc = "validated"
  /\ ProviderCharges(e, TRUE)
  /\ Goes(e, "ended")
  /\ UNCHANGED <<files, coll, served>>

\* The request fails without a charge.
SubmitFails(e) ==
  /\ exec[e].pc = "validated"
  /\ Goes(e, "ended")
  /\ UNCHANGED <<files, coll, provider, served>>

SavePost(e) ==
  /\ exec[e].pc = "posted"
  /\ taskPost' = [taskPost EXCEPT ![exec[e].run] = e]
  /\ Goes(e, "saved")
  /\ UNCHANGED <<manifest, raw, index, coll, provider, served>>

\* The checks the executor makes once the money is spent and the reply saved.
ReplyAccepted(p) ==
  /\ Cardinality(p.answered) = ScopeSize
  /\ p.accepted \subseteq Members[p.set]
  /\ p.accepted # {}
  /\ p.cost <= ApprovedCap

SubmittedState(p) ==
  IF p.accepted = p.answered THEN "submitted" ELSE "submitted_with_rejections"

\* Faulty variant: the candidate set is read from the dashboard once more.
SubmittedManifestReread(e) ==
  [state |-> SubmittedState(posts[e]), set |-> served, cost |-> posts[e].cost,
   post |-> e, index |-> None]

SubmittedManifest(e) ==
  [state |-> SubmittedState(posts[e]), set |-> exec[e].set, cost |-> posts[e].cost,
   post |-> e, index |-> None]

RecordSubmission(e) ==
  /\ exec[e].pc = "saved"
  /\ ReplyAccepted(posts[e])
  /\ manifest' = [manifest EXCEPT ![exec[e].run] = SubmittedManifest(e)]
  /\ Goes(e, "ended")
  /\ UNCHANGED <<taskPost, raw, index, coll, provider, served>>

RefuseReply(e) ==
  /\ exec[e].pc = "saved"
  /\ ~ReplyAccepted(posts[e])
  /\ Goes(e, "ended")
  /\ UNCHANGED <<files, coll, provider, served>>

\* The process dies; a file it was writing may stay torn.
CrashExecutor(e) ==
  /\ "crash" \in Disturbances
  /\ exec[e].pc \notin {"idle", "ended"}
  /\ Goes(e, "ended")
  /\ \/ UNCHANGED <<manifest, taskPost>>
     \/ /\ exec[e].pc \in {"audited", "saved"}
        /\ exec[e].pc = "saved" => ReplyAccepted(posts[e])
        /\ manifest' = [manifest EXCEPT ![exec[e].run] = Unwritten("torn")]
        /\ UNCHANGED taskPost
     \/ /\ exec[e].pc = "posted"
        /\ taskPost' = [taskPost EXCEPT ![exec[e].run] = Torn]
        /\ UNCHANGED manifest
  /\ UNCHANGED <<raw, index, coll, provider, served>>

ExecutorStep(e) ==
  \/ AnswerPortfolio(e) \/ AnswerApproval(e) \/ AuditBudget(e) \/ Validate(e)
  \/ SubmitTasks(e) \/ SubmitFails(e) \/ LoseReply(e)
  \/ SavePost(e) \/ RecordSubmission(e) \/ RefuseReply(e)

-----------------------------------------------------------------------------
(* The collector                                                           *)

\* Reads the saved reply, the manifest and the portfolio, whose tasks must
\* still name every accepted one.
StartCollector(c, r) ==
  LET e == taskPost[r] IN
  /\ coll[c].pc = "idle"
  /\ MayStart
  /\ e \in Executors
  /\ manifest[r].state \notin {"absent", "torn"}
  /\ posts[e].accepted \subseteq Members[served]
  /\ coll' = [coll EXCEPT ![c] =
                [pc |-> "working", run |-> r, run_manifest |-> manifest[r],
                 portfolio |-> served, post |-> e,
                 todo |-> posts[e].accepted, flight |-> {}, done |-> NoRows]]
  /\ UNCHANGED <<files, exec, provider, served>>

RawFile(c, t) == raw[coll[c].run][<<coll[c].post, t>>]

\* A free worker takes task t from the shared cursor.
TakesTask(c, t) ==
  /\ coll[c].pc = "working"
  /\ t \in coll[c].todo
  /\ Cardinality(coll[c].flight) < Workers

ReuseRaw(c, t) ==
  /\ TakesTask(c, t)
  /\ RawFile(c, t) # None
  /\ coll' = [coll EXCEPT ![c].todo = @ \ {t}, ![c].done[t] = RawFile(c, t)]
  /\ UNCHANGED <<files, exec, provider, served>>

RequestResult(c, t) ==
  /\ TakesTask(c, t)
  /\ RawFile(c, t) = None
  /\ coll' = [coll EXCEPT ![c].todo = @ \ {t}, ![c].flight = @ \cup {t}]
  /\ UNCHANGED <<files, exec, provider, served>>

\* Faulty variant: the result is indexed but its raw file is not written.
SaveResultUnwritten(c, t) ==
  /\ coll[c].pc = "working"
  /\ t \in coll[c].flight
  /\ <<coll[c].post, t>> \in ready
  /\ \E b \in Bodies : coll' = [coll EXCEPT ![c].flight = @ \ {t}, ![c].done[t] = b]
  /\ UNCHANGED <<files, exec, provider, served>>

SaveResult(c, t) ==
  /\ coll[c].pc = "working"
  /\ t \in coll[c].flight
  /\ <<coll[c].post, t>> \in ready
  /\ \E b \in Bodies :
       /\ raw' = [raw EXCEPT ![coll[c].run][<<coll[c].post, t>>] = b]
       /\ coll' = [coll EXCEPT ![c].flight = @ \ {t}, ![c].done[t] = b]
  /\ UNCHANGED <<manifest, taskPost, index, exec, provider, served>>

\* Faulty variant: a task without a result goes back to the cursor.
ResultPendingRequeued(c, t) ==
  /\ coll[c].pc = "working"
  /\ t \in coll[c].flight
  /\ <<coll[c].post, t>> \notin ready
  /\ coll' = [coll EXCEPT ![c].flight = @ \ {t}, ![c].todo = @ \cup {t}]
  /\ UNCHANGED <<files, exec, provider, served>>

\* No result yet: the worker goes on to its next task.
ResultPending(c, t) ==
  /\ coll[c].pc = "working"
  /\ t \in coll[c].flight
  /\ <<coll[c].post, t>> \notin ready
  /\ coll' = [coll EXCEPT ![c].flight = @ \ {t}]
  /\ UNCHANGED <<files, exec, provider, served>>

\* The script ends while other workers may be writing results that have come.
CutsOffWrites(c) ==
  \E cut \in SUBSET {t \in coll[c].flight : <<coll[c].post, t>> \in ready} :
    raw' = [raw EXCEPT ![coll[c].run] =
              [a \in AcquisitionTasks |->
                 IF a \in {coll[c].post} \X cut THEN None ELSE raw[coll[c].run][a]]]

\* One failed request rejects Promise.all and ends the script.
RequestFails(c) ==
  /\ "http" \in Disturbances
  /\ coll[c].pc = "working"
  /\ coll[c].flight # {}
  /\ CutsOffWrites(c)
  /\ coll' = [coll EXCEPT ![c] = IdleCollector]
  /\ UNCHANGED <<manifest, taskPost, index, exec, provider, served>>

WorkersDone(c) ==
  /\ coll[c].pc = "working"
  /\ coll[c].todo = {}
  /\ coll[c].flight = {}

\* Each row is a result and what the portfolio read at the start says of its task.
IndexOf(c) ==
  [post |-> coll[c].post,
   rows |-> coll[c].done,
   fields |-> [t \in Sources |-> IF coll[c].done[t] = None
                                   THEN None
                                   ELSE TaskFields[coll[c].portfolio][t]]]

WriteIndex(c) ==
  /\ WorkersDone(c)
  /\ index' = [index EXCEPT ![coll[c].run] = IndexOf(c)]
  /\ coll' = [coll EXCEPT ![c].pc = "indexed"]
  /\ UNCHANGED <<manifest, taskPost, raw, exec, provider, served>>

\* Faulty variants of the completion test: every answered task is waited for,
\* or one result is enough.
CollectedStateOfAnswered(p, done) ==
  IF Found(done) # p.answered THEN "submitted_results_pending" ELSE "completed"
CollectedStateOfAny(p, done) ==
  IF Found(done) = {} THEN "submitted_results_pending" ELSE "completed"
\* Faulty variant: a state that no reader of the manifest knows.
CollectedStatePartial(p, done) ==
  IF Found(done) # p.accepted THEN "partial" ELSE "completed"

CollectedState(p, done) ==
  IF Found(done) # p.accepted THEN "submitted_results_pending"
  ELSE IF p.accepted # p.answered THEN "completed_with_rejections"
  ELSE "completed"

\* Faulty variant: the cost is left as the executor recorded it.
CollectedManifestKeepingCost(c) ==
  [coll[c].run_manifest EXCEPT
     !.state = CollectedState(posts[coll[c].post], coll[c].done),
     !.post = coll[c].post,
     !.index = IndexOf(c)]

\* The manifest read at the start with the state, the reply's cost and the
\* digests of this collection.
CollectedManifest(c) ==
  [coll[c].run_manifest EXCEPT
     !.state = CollectedState(posts[coll[c].post], coll[c].done),
     !.cost = posts[coll[c].post].cost,
     !.post = coll[c].post,
     !.index = IndexOf(c)]

WriteManifest(c) ==
  /\ coll[c].pc = "indexed"
  /\ manifest' = [manifest EXCEPT ![coll[c].run] = CollectedManifest(c)]
  /\ coll' = [coll EXCEPT ![c] = IdleCollector]
  /\ UNCHANGED <<taskPost, raw, index, exec, provider, served>>

CrashCollector(c) ==
  /\ "crash" \in Disturbances
  /\ coll[c].pc # "idle"
  /\ coll' = [coll EXCEPT ![c] = IdleCollector]
  /\ \/ UNCHANGED <<manifest, raw, index>>
     \/ coll[c].pc = "working" /\ CutsOffWrites(c) /\ UNCHANGED <<manifest, index>>
     \/ /\ WorkersDone(c)
        /\ index' = [index EXCEPT ![coll[c].run] = Torn]
        /\ UNCHANGED <<manifest, raw>>
     \/ /\ coll[c].pc = "indexed"
        /\ manifest' = [manifest EXCEPT ![coll[c].run] = Unwritten("torn")]
        /\ UNCHANGED <<raw, index>>
  /\ UNCHANGED <<taskPost, exec, provider, served>>

CollectorStep(c) ==
  \/ \E t \in Sources :
       ReuseRaw(c, t) \/ RequestResult(c, t) \/ SaveResult(c, t) \/ ResultPending(c, t)
  \/ WriteIndex(c) \/ WriteManifest(c)

-----------------------------------------------------------------------------
(* The environment                                                         *)

ProviderFinishes(e, t) ==
  /\ posts[e] # None
  /\ t \in posts[e].accepted
  /\ <<e, t>> \notin ready
  /\ ready' = ready \cup {<<e, t>>}
  /\ UNCHANGED <<files, exec, coll, posts, served>>

\* The dashboard server is restarted on a rebuilt database.
DashboardRestart ==
  /\ "restart" \in Disturbances \/ \A e \in Executors : ~HalfAnswered(e)
  /\ served' \in CandidateSets \ {served}
  /\ UNCHANGED <<files, exec, coll, provider>>

Next ==
  \/ \E e \in Executors :
       (\E r \in Runs : Ask(e, r)) \/ ExecutorStep(e) \/ CrashExecutor(e)
  \/ \E c \in Collectors :
       \/ \E r \in Runs : StartCollector(c, r)
       \/ CollectorStep(c) \/ RequestFails(c) \/ CrashCollector(c)
  \/ \E e \in Executors, t \in Sources : ProviderFinishes(e, t)
  \/ DashboardRestart

Spec == Init /\ [][Next]_vars

\* A script that was started runs on until it ends; nothing starts a script.
Fairness ==
  /\ \A e \in Executors : WF_vars(ExecutorStep(e))
  /\ \A c \in Collectors : WF_vars(CollectorStep(c))

FairSpec == Spec /\ Fairness
=============================================================================
