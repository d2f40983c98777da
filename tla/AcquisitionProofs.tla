------------------------- MODULE AcquisitionProofs -------------------------
(***************************************************************************)
(* Theorems about AcquisitionEvidence, for every number of directories,    *)
(* scripts, tasks and portfolios and for every set of Disturbances.        *)
(***************************************************************************)
EXTENDS AcquisitionEvidence, TLAPS

(***************************************************************************)
(* The inductive invariant.  A POST is made once, by an executor that has  *)
(* not yet gone beyond its validation; whatever names a POST after that (a *)
(* saved reply, a collector, a manifest that carries a charge) names one   *)
(* that was made from its own directory and whose reply has arrived.       *)
(***************************************************************************)
PostedFrom(e, r) ==
  /\ e \in Executors
  /\ posts[e] # None
  /\ posts[e].run = r
  /\ ~posts[e].lost

ExecutorInv ==
  \A e \in Executors :
    /\ exec[e].pc # "idle" => exec[e].run \in Runs
    /\ exec[e].pc \notin {"idle", "asking", "ended"} =>
         exec[e].portfolio \in CandidateSets /\ exec[e].set \in CandidateSets
    /\ exec[e].pc \in {"idle", "asking", "audited", "validated"} => posts[e] = None
    /\ exec[e].pc \in {"posted", "saved"} => PostedFrom(e, exec[e].run)

SavedPostInv ==
  \A r \in Runs : taskPost[r] \in Executors => PostedFrom(taskPost[r], r)

CollectorInv ==
  \A c \in Collectors :
    coll[c].pc # "idle" =>
      /\ coll[c].run \in Runs
      /\ coll[c].portfolio \in CandidateSets
      /\ PostedFrom(coll[c].post, coll[c].run)

ChargedStates == CommittedStates \cup {"submitted_results_pending"}

ChargeInv ==
  \A r \in Runs :
    manifest[r].state \in ChargedStates =>
      /\ PostedFrom(manifest[r].post, r)
      /\ manifest[r].cost = posts[manifest[r].post].cost

CompletionInv ==
  \A r \in Runs :
    manifest[r].state \in CompletedStates =>
      /\ manifest[r].index \in IndexFile
      /\ manifest[r].index.post = manifest[r].post
      /\ Found(manifest[r].index.rows) = posts[manifest[r].post].accepted

IInv ==
  /\ TypeOK
  /\ ExecutorInv
  /\ SavedPostInv
  /\ CollectorInv
  /\ ChargeInv
  /\ CompletionInv

(***************************************************************************)
(* The inductive invariant holds initially, and each action preserves it.  *)
(***************************************************************************)
LEMMA InitIInv == Init => IInv
<1> SUFFICES ASSUME Init PROVE IInv
  OBVIOUS
<1>1. TypeOK
  BY SentinelAssumption
  DEF Init, TypeOK, Manifest, ManifestStates, Unwritten, Executor, Collector,
      IdleCollector, NoRows, Rows
<1>2. ExecutorInv /\ SavedPostInv /\ CollectorInv /\ ChargeInv /\ CompletionInv
  BY SentinelAssumption
  DEF Init, ExecutorInv, SavedPostInv, CollectorInv, ChargeInv, CompletionInv,
      ChargedStates, CommittedStates, CompletedStates, Unwritten, IdleCollector
<1> QED
  BY <1>1, <1>2 DEF IInv

\* An executor that asks, or is answered, has made no POST.
LEMMA AskIInv ==
  ASSUME IInv, NEW e \in Executors,
         (\E r \in Runs : Ask(e, r)) \/ AnswerPortfolio(e) \/ AnswerApproval(e)
  PROVE  IInv'
<1>1. UNCHANGED <<files, coll, provider, served>>
  BY DEF Ask, AnswerPortfolio, AnswerApproval
<1> DEFINE Asks(x) == /\ exec' = [exec EXCEPT ![e] = x]
                      /\ x.pc = "asking" /\ x.run \in Runs
                      /\ exec[e].pc \in {"idle", "asking"}
<1>2. PICK x \in Executor : Asks(x)
  <2>1. exec \in [Executors -> Executor] /\ served \in CandidateSets
    BY DEF IInv, TypeOK
  <2>2. ASSUME NEW r \in Runs, Ask(e, r) PROVE \E x \in Executor : Asks(x)
    <3> DEFINE x == [pc |-> "asking", run |-> r, portfolio |-> None, set |-> None]
    <3>1. x \in Executor /\ x.pc = "asking" /\ x.run = r
      BY DEF Executor
    <3> QED
      BY <2>2, <3>1 DEF Ask
  <2>3. CASE AnswerPortfolio(e)
    <3> DEFINE x == [exec[e] EXCEPT !.portfolio = served]
    <3>1. x \in Executor /\ x.pc = "asking" /\ x.run \in Runs
      BY <2>1, <2>3 DEF AnswerPortfolio, Executor, IInv, ExecutorInv
    <3> QED
      BY <2>3, <3>1 DEF AnswerPortfolio
  <2>4. CASE AnswerApproval(e)
    <3> DEFINE x == [exec[e] EXCEPT !.set = served]
    <3>1. x \in Executor /\ x.pc = "asking" /\ x.run \in Runs
      BY <2>1, <2>4 DEF AnswerApproval, Executor, IInv, ExecutorInv
    <3> QED
      BY <2>4, <3>1 DEF AnswerApproval
  <2> QED
    BY <2>2, <2>3, <2>4
<1>3. TypeOK'
  BY <1>1, <1>2 DEF IInv, TypeOK, files, provider
<1>4. ExecutorInv'
  BY <1>1, <1>2 DEF IInv, ExecutorInv, PostedFrom, TypeOK, provider
<1>5. SavedPostInv' /\ CollectorInv' /\ ChargeInv' /\ CompletionInv'
  BY <1>1
  DEF IInv, SavedPostInv, CollectorInv, ChargeInv, CompletionInv, PostedFrom, files, provider
<1> QED
  BY <1>3, <1>4, <1>5 DEF IInv

\* Steps that only move an executor on, or end it, and touch no file.
LEMMA GoesIInv ==
  ASSUME IInv, NEW e \in Executors, NEW pc,
         Goes(e, pc),
         exec[e].pc # "idle",
         \/ pc = "ended"
         \/ /\ exec[e].pc = "asking" /\ pc = "audited"
            /\ exec[e].portfolio \in CandidateSets /\ exec[e].set \in CandidateSets,
         UNCHANGED <<files, coll, provider, served>>
  PROVE  IInv'
<1> USE DEF IInv, Goes, files, provider
<1>1. TypeOK'
  BY DEF TypeOK, Executor
<1>2. ExecutorInv'
  BY DEF ExecutorInv, PostedFrom, TypeOK, Executor
<1>3. SavedPostInv' /\ CollectorInv' /\ ChargeInv' /\ CompletionInv'
  BY DEF SavedPostInv, CollectorInv, ChargeInv, CompletionInv, PostedFrom
<1> QED
  BY <1>1, <1>2, <1>3

LEMMA ValidateIInv ==
  ASSUME IInv, NEW e \in Executors, Validate(e)
  PROVE  IInv'
<1> USE DEF IInv, Validate, Goes, provider
<1> DEFINE m == [Unwritten("validated_not_submitted") EXCEPT !.set = exec[e].set]
<1>1. exec[e].run \in Runs /\ exec[e].set \in CandidateSets
  BY DEF ExecutorInv
<1>2. m \in Manifest /\ m.state = "validated_not_submitted"
  BY <1>1 DEF Unwritten, Manifest, ManifestStates
<1>3. TypeOK'
  BY <1>1, <1>2 DEF TypeOK, Executor
<1>4. ExecutorInv'
  BY DEF ExecutorInv, PostedFrom, TypeOK, Executor
<1>5. SavedPostInv' /\ CollectorInv'
  BY DEF SavedPostInv, CollectorInv, PostedFrom
<1>6. ChargeInv' /\ CompletionInv'
  BY <1>1, <1>2
  DEF ChargeInv, CompletionInv, PostedFrom, TypeOK, ChargedStates, CommittedStates,
      CompletedStates
<1> QED
  BY <1>3, <1>4, <1>5, <1>6

\* A POST is new: nothing that names a POST can have named this executor's.
LEMMA SubmitTasksIInv ==
  ASSUME IInv, NEW e \in Executors, SubmitTasks(e) \/ LoseReply(e)
  PROVE  IInv'
<1>1. PICK lost \in BOOLEAN :
        /\ ProviderCharges(e, lost)
        /\ exec' = [exec EXCEPT ![e].pc = IF lost THEN "ended" ELSE "posted"]
  BY DEF SubmitTasks, LoseReply, Goes
<1>a. /\ UNCHANGED <<manifest, taskPost, raw, index, coll, served>>
      /\ exec[e].pc = "validated"
  BY DEF SubmitTasks, LoseReply, files
<1> USE DEF IInv
<1>0. PICK p \in Replies(e, lost) :
        /\ posts' = [posts EXCEPT ![e] = p]
        /\ ready' = IF "pending" \in Disturbances THEN ready
                                                  ELSE ready \cup ({e} \X p.accepted)
  BY <1>1 DEF ProviderCharges
<1>2. exec[e].run \in Runs /\ exec[e].portfolio \in CandidateSets /\ posts[e] = None
  BY <1>a DEF ExecutorInv
<1>3. p \in Post /\ p.run = exec[e].run /\ p.accepted \subseteq Sources /\ p.lost = lost
  BY <1>2, AcquisitionAssumption DEF Replies, Post
<1>4. p # None
  BY <1>3, SentinelAssumption
<1>5. \A f \in Executors : f # e => posts'[f] = posts[f]
  BY <1>0 DEF TypeOK
<1>6. posts'[e] = p
  BY <1>0 DEF TypeOK
<1>7. \A f, r : PostedFrom(f, r) => f # e /\ PostedFrom(f, r)' /\ posts'[f] = posts[f]
  BY <1>2, <1>5 DEF PostedFrom
<1>8. TypeOK'
  <2>0. PICK pc \in {"posted", "ended"} : exec' = [exec EXCEPT ![e].pc = pc]
    BY <1>1
  <2>1. exec' \in [Executors -> Executor]
    BY <2>0 DEF TypeOK, Executor
  <2>2. ready' \subseteq AcquisitionTasks /\ posts' \in [Executors -> Post \cup {None}]
    BY <1>0, <1>3 DEF TypeOK, AcquisitionTasks
  <2> QED
    BY <1>a, <2>1, <2>2 DEF TypeOK
<1>9. ExecutorInv'
  BY <1>a, <1>1, <1>2, <1>3, <1>4, <1>5, <1>6, <1>7 DEF ExecutorInv, PostedFrom, TypeOK, Executor
<1>10. SavedPostInv' /\ CollectorInv'
  BY <1>a, <1>7 DEF SavedPostInv, CollectorInv
<1>11. ChargeInv' /\ CompletionInv'
  BY <1>a, <1>7 DEF ChargeInv, CompletionInv, ChargedStates, CompletedStates, CommittedStates
<1> QED
  BY <1>8, <1>9, <1>10, <1>11

LEMMA SavePostIInv ==
  ASSUME IInv, NEW e \in Executors, SavePost(e)
  PROVE  IInv'
<1> USE DEF IInv, SavePost, Goes, provider
<1>1. exec[e].run \in Runs /\ PostedFrom(e, exec[e].run)
  BY DEF ExecutorInv
<1>2. TypeOK'
  BY <1>1 DEF TypeOK, Executor
<1>3. ExecutorInv'
  BY DEF ExecutorInv, PostedFrom, TypeOK, Executor
<1>4. SavedPostInv'
  BY <1>1 DEF SavedPostInv, PostedFrom, TypeOK
<1>5. CollectorInv' /\ ChargeInv' /\ CompletionInv'
  BY DEF CollectorInv, ChargeInv, CompletionInv, PostedFrom
<1> QED
  BY <1>2, <1>3, <1>4, <1>5

LEMMA RecordSubmissionIInv ==
  ASSUME IInv, NEW e \in Executors, RecordSubmission(e)
  PROVE  IInv'
<1> USE DEF IInv, RecordSubmission, Goes, provider
<1>1. /\ exec[e].run \in Runs /\ exec[e].set \in CandidateSets
      /\ PostedFrom(e, exec[e].run) /\ posts[e] \in Post
  BY DEF ExecutorInv, TypeOK, PostedFrom
<1>2. /\ SubmittedManifest(e) \in Manifest
      /\ SubmittedManifest(e).post = e
      /\ SubmittedManifest(e).cost = posts[e].cost
      /\ SubmittedManifest(e).state \notin CompletedStates
  BY <1>1
  DEF SubmittedManifest, SubmittedState, Manifest, ManifestStates, CommittedStates,
      CompletedStates, Post
<1>3. TypeOK'
  BY <1>1, <1>2 DEF TypeOK, Executor
<1>4. ExecutorInv'
  BY DEF ExecutorInv, PostedFrom, TypeOK, Executor
<1>5. SavedPostInv' /\ CollectorInv'
  BY DEF SavedPostInv, CollectorInv, PostedFrom
<1>6. ChargeInv' /\ CompletionInv'
  BY <1>1, <1>2 DEF ChargeInv, CompletionInv, PostedFrom, TypeOK
<1> QED
  BY <1>3, <1>4, <1>5, <1>6

\* A torn manifest carries no charge and is not complete.
LEMMA TornManifestInv ==
  ASSUME IInv, NEW r \in Runs,
         manifest' = [manifest EXCEPT ![r] = Unwritten("torn")],
         UNCHANGED posts
  PROVE  /\ manifest' \in [Runs -> Manifest]
         /\ ChargeInv'
         /\ CompletionInv'
<1>1. Unwritten("torn") \in Manifest /\ Unwritten("torn").state = "torn"
  BY DEF Unwritten, Manifest, ManifestStates
<1>2. manifest' \in [Runs -> Manifest]
  BY <1>1 DEF IInv, TypeOK
<1>3. ChargeInv' /\ CompletionInv'
  BY <1>1
  DEF IInv, TypeOK, ChargeInv, CompletionInv, PostedFrom, ChargedStates, CommittedStates,
      CompletedStates
<1> QED
  BY <1>2, <1>3

LEMMA CrashExecutorIInv ==
  ASSUME IInv, NEW e \in Executors, CrashExecutor(e)
  PROVE  IInv'
<1> USE DEF CrashExecutor, Goes, provider
<1>1. exec[e].run \in Runs
  BY DEF IInv, ExecutorInv
<1>2. exec' \in [Executors -> Executor] /\ ExecutorInv'
  <2>1. exec' = [exec EXCEPT ![e].pc = "ended"] /\ UNCHANGED posts
    OBVIOUS
  <2>2. exec' \in [Executors -> Executor]
    BY <2>1 DEF IInv, TypeOK, Executor
  <2>3. ExecutorInv'
    BY <2>1 DEF IInv, ExecutorInv, PostedFrom, TypeOK, Executor
  <2> QED
    BY <2>2, <2>3
<1>3. CollectorInv'
  BY DEF IInv, CollectorInv, PostedFrom
<1>4. CASE UNCHANGED <<manifest, taskPost>>
  <2>1. TypeOK' /\ SavedPostInv' /\ ChargeInv' /\ CompletionInv'
    BY <1>2, <1>4 DEF IInv, TypeOK, SavedPostInv, ChargeInv, CompletionInv, PostedFrom
  <2> QED
    BY <2>1, <1>2, <1>3 DEF IInv
<1>5. CASE /\ manifest' = [manifest EXCEPT ![exec[e].run] = Unwritten("torn")]
           /\ UNCHANGED taskPost
  <2>1. manifest' \in [Runs -> Manifest] /\ ChargeInv' /\ CompletionInv'
    BY <1>1, <1>5, TornManifestInv
  <2>2. TypeOK' /\ SavedPostInv'
    BY <2>1, <1>2, <1>5 DEF IInv, TypeOK, SavedPostInv, PostedFrom
  <2> QED
    BY <2>1, <2>2, <1>2, <1>3 DEF IInv
<1>6. CASE /\ taskPost' = [taskPost EXCEPT ![exec[e].run] = Torn]
           /\ UNCHANGED manifest
  <2>1. TypeOK'
    BY <1>1, <1>2, <1>6 DEF IInv, TypeOK
  <2>2. SavedPostInv'
    BY <1>1, <1>6, SentinelAssumption DEF IInv, TypeOK, SavedPostInv, PostedFrom
  <2>3. ChargeInv' /\ CompletionInv'
    BY <1>6 DEF IInv, ChargeInv, CompletionInv, PostedFrom
  <2> QED
    BY <2>1, <2>2, <2>3, <1>2, <1>3 DEF IInv
<1> QED
  BY <1>4, <1>5, <1>6

\* Steps of a collector that leave it on the same run of the same POST, or
\* idle, and write neither manifest nor saved reply.
LEMMA CollectorMovesIInv ==
  ASSUME IInv, NEW c \in Collectors, NEW s \in Collector,
         coll' = [coll EXCEPT ![c] = s],
         s.pc # "idle" =>
           s.run \in Runs /\ s.portfolio \in CandidateSets /\ PostedFrom(s.post, s.run),
         raw' \in [Runs -> [AcquisitionTasks -> Bodies \cup {None}]],
         index' \in [Runs -> IndexFile \cup {None, Torn}],
         UNCHANGED <<manifest, taskPost, exec, provider, served>>
  PROVE  IInv'
<1> USE DEF IInv, provider
<1>1. TypeOK'
  BY DEF TypeOK
<1>2. CollectorInv'
  BY DEF CollectorInv, PostedFrom, TypeOK
<1>3. ExecutorInv' /\ SavedPostInv' /\ ChargeInv' /\ CompletionInv'
  BY DEF ExecutorInv, SavedPostInv, ChargeInv, CompletionInv, PostedFrom
<1> QED
  BY <1>1, <1>2, <1>3

LEMMA IdleCollectorType == IdleCollector \in Collector /\ IdleCollector.pc = "idle"
  BY SentinelAssumption
  DEF IdleCollector, Collector, Unwritten, Manifest, ManifestStates, NoRows, Rows

LEMMA StartCollectorIInv ==
  ASSUME IInv, NEW c \in Collectors, NEW r \in Runs, StartCollector(c, r)
  PROVE  IInv'
<1> DEFINE e == taskPost[r]
           s == [pc |-> "working", run |-> r, run_manifest |-> manifest[r],
                 portfolio |-> served, post |-> e,
                 todo |-> posts[e].accepted, flight |-> {}, done |-> NoRows]
<1>1. PostedFrom(e, r) /\ posts[e] \in Post
  BY DEF StartCollector, IInv, SavedPostInv, TypeOK, PostedFrom
<1>2. s \in Collector
  BY <1>1 DEF StartCollector, IInv, TypeOK, Collector, Post, NoRows, Rows
<1> QED
  BY <1>1, <1>2, CollectorMovesIInv DEF StartCollector, files, IInv, TypeOK

\* A worker's step: it handles task t and writes at most its raw file.
LEMMA WorkerIInv ==
  ASSUME IInv, NEW c \in Collectors, NEW t \in Sources,
         \/ ReuseRaw(c, t) \/ RequestResult(c, t) \/ SaveResult(c, t) \/ ResultPending(c, t)
  PROVE  IInv'
<1>1. coll[c] \in Collector /\ coll[c].pc = "working"
  BY DEF IInv, TypeOK, ReuseRaw, RequestResult, SaveResult, ResultPending, TakesTask
<1>2. /\ coll[c].run \in Runs /\ coll[c].portfolio \in CandidateSets
      /\ PostedFrom(coll[c].post, coll[c].run)
  BY <1>1 DEF IInv, CollectorInv
<1>3. <<coll[c].post, t>> \in AcquisitionTasks
  BY <1>2 DEF PostedFrom, AcquisitionTasks
<1>4. CASE ReuseRaw(c, t)
  <2> DEFINE s == [coll[c] EXCEPT !.todo = @ \ {t}, !.done[t] = RawFile(c, t)]
  <2>1. RawFile(c, t) \in Bodies \cup {None}
    BY <1>2, <1>3 DEF IInv, TypeOK, RawFile
  <2>2. /\ s \in Collector /\ s.run = coll[c].run /\ s.post = coll[c].post
        /\ s.portfolio = coll[c].portfolio
    BY <1>1, <2>1 DEF Collector, Rows
  <2>3. coll' = [coll EXCEPT ![c] = s]
    BY <1>4 DEF ReuseRaw
  <2> QED
    BY <1>2, <1>4, <2>2, <2>3, CollectorMovesIInv DEF ReuseRaw, files, IInv, TypeOK
<1>5. CASE RequestResult(c, t)
  <2> DEFINE s == [coll[c] EXCEPT !.todo = @ \ {t}, !.flight = @ \cup {t}]
  <2>1. /\ s \in Collector /\ s.run = coll[c].run /\ s.post = coll[c].post
        /\ s.portfolio = coll[c].portfolio
    BY <1>1 DEF Collector
  <2>2. coll' = [coll EXCEPT ![c] = s]
    BY <1>5 DEF RequestResult
  <2> QED
    BY <1>2, <1>5, <2>1, <2>2, CollectorMovesIInv DEF RequestResult, files, IInv, TypeOK
<1>6. CASE SaveResult(c, t)
  <2>1. PICK b \in Bodies :
          /\ raw' = [raw EXCEPT ![coll[c].run][<<coll[c].post, t>>] = b]
          /\ coll' = [coll EXCEPT ![c].flight = @ \ {t}, ![c].done[t] = b]
    BY <1>6 DEF SaveResult
  <2> DEFINE s == [coll[c] EXCEPT !.flight = @ \ {t}, !.done[t] = b]
  <2>2. /\ s \in Collector /\ s.run = coll[c].run /\ s.post = coll[c].post
        /\ s.portfolio = coll[c].portfolio
    BY <1>1 DEF Collector, Rows
  <2>3. coll' = [coll EXCEPT ![c] = s]
    BY <2>1
  <2>4. raw' \in [Runs -> [AcquisitionTasks -> Bodies \cup {None}]]
    BY <1>2, <1>3, <2>1 DEF IInv, TypeOK
  <2> QED
    BY <1>2, <1>6, <2>2, <2>3, <2>4, CollectorMovesIInv DEF SaveResult, IInv, TypeOK
<1>7. CASE ResultPending(c, t)
  <2> DEFINE s == [coll[c] EXCEPT !.flight = @ \ {t}]
  <2>1. /\ s \in Collector /\ s.run = coll[c].run /\ s.post = coll[c].post
        /\ s.portfolio = coll[c].portfolio
    BY <1>1 DEF Collector
  <2>2. coll' = [coll EXCEPT ![c] = s]
    BY <1>7 DEF ResultPending
  <2> QED
    BY <1>2, <1>7, <2>1, <2>2, CollectorMovesIInv DEF ResultPending, files, IInv, TypeOK
<1> QED
  BY <1>4, <1>5, <1>6, <1>7

LEMMA IndexOfFacts ==
  ASSUME IInv, NEW c \in Collectors, coll[c].pc # "idle"
  PROVE  /\ IndexOf(c) \in IndexFile
         /\ IndexOf(c).post = coll[c].post
         /\ IndexOf(c).rows = coll[c].done
<1>1. /\ coll[c] \in Collector /\ coll[c].portfolio \in CandidateSets
      /\ coll[c].post \in Executors
  BY DEF IInv, TypeOK, CollectorInv, PostedFrom
<1>2. coll[c].done \in Rows
  BY <1>1 DEF Collector
<1>3. \A t \in Sources : TaskFields[coll[c].portfolio][t] \in Nat
  BY <1>1, AcquisitionAssumption
<1> QED
  BY <1>1, <1>2, <1>3 DEF IndexOf, IndexFile

LEMMA WriteIndexIInv ==
  ASSUME IInv, NEW c \in Collectors, WriteIndex(c)
  PROVE  IInv'
<1> DEFINE s == [coll[c] EXCEPT !.pc = "indexed"]
           x == IndexOf(c)
<1>1. /\ coll[c] \in Collector /\ coll[c].run \in Runs /\ coll[c].portfolio \in CandidateSets
      /\ PostedFrom(coll[c].post, coll[c].run)
  BY DEF WriteIndex, WorkersDone, IInv, TypeOK, CollectorInv
<1>2. x \in IndexFile
  BY <1>1, IndexOfFacts DEF WriteIndex, WorkersDone
<1>3. index' \in [Runs -> IndexFile \cup {None, Torn}]
  BY <1>1, <1>2 DEF WriteIndex, IInv, TypeOK
<1>4. /\ s \in Collector /\ s.run = coll[c].run /\ s.post = coll[c].post
      /\ s.portfolio = coll[c].portfolio
  BY <1>1 DEF Collector
<1>5. coll' = [coll EXCEPT ![c] = s]
  BY DEF WriteIndex
<1> QED
  BY <1>1, <1>3, <1>4, <1>5, CollectorMovesIInv DEF WriteIndex, IInv, TypeOK

\* A manifest that is written back carries the charge of the collected POST,
\* and is complete only with a row for each of its accepted tasks.
LEMMA CollectedManifestFacts ==
  ASSUME IInv, NEW c \in Collectors, coll[c].pc = "indexed"
  PROVE  LET m == CollectedManifest(c)
             e == coll[c].post
         IN /\ m \in Manifest
            /\ m.post = e
            /\ m.cost = posts[e].cost
            /\ m.state \in CompletedStates =>
                 /\ m.index \in IndexFile
                 /\ m.index.post = e
                 /\ Found(m.index.rows) = posts[e].accepted
<1> DEFINE e == coll[c].post
           m == CollectedManifest(c)
           x == IndexOf(c)
<1>1. coll[c] \in Collector /\ PostedFrom(e, coll[c].run) /\ posts[e] \in Post
  BY DEF IInv, TypeOK, CollectorInv, PostedFrom
<1>2. x \in IndexFile /\ x.post = e /\ x.rows = coll[c].done
  BY IndexOfFacts
<1>3. CollectedState(posts[e], coll[c].done) \in ManifestStates
  BY DEF CollectedState, ManifestStates, CommittedStates
<1>4. CollectedState(posts[e], coll[c].done) \in CompletedStates
        => Found(coll[c].done) = posts[e].accepted
  BY DEF CollectedState, CompletedStates
<1>5. coll[c].run_manifest \in Manifest
  BY <1>1 DEF Collector
<1> HIDE DEF x
<1>6. m = [coll[c].run_manifest EXCEPT
             !.state = CollectedState(posts[e], coll[c].done),
             !.cost = posts[e].cost, !.post = e, !.index = x]
  BY DEF CollectedManifest, x
<1>7. posts[e].cost \in Nat /\ e \in Executors
  BY <1>1 DEF Post, PostedFrom
<1>8. /\ m \in Manifest /\ m.post = e /\ m.cost = posts[e].cost /\ m.index = x
      /\ m.state = CollectedState(posts[e], coll[c].done)
  BY <1>2, <1>3, <1>5, <1>6, <1>7 DEF Manifest
<1> QED
  BY <1>2, <1>4, <1>8

LEMMA WriteManifestIInv ==
  ASSUME IInv, NEW c \in Collectors, WriteManifest(c)
  PROVE  IInv'
<1> DEFINE r == coll[c].run
           e == coll[c].post
           m == CollectedManifest(c)
<1>1. r \in Runs /\ PostedFrom(e, r) /\ coll[c].pc = "indexed"
  BY DEF WriteManifest, IInv, CollectorInv
<1>2. manifest' = [manifest EXCEPT ![r] = m]
  BY DEF WriteManifest
<1> HIDE DEF m
<1>3. /\ m \in Manifest /\ m.post = e /\ m.cost = posts[e].cost
      /\ m.state \in CompletedStates =>
           m.index \in IndexFile /\ m.index.post = e /\ Found(m.index.rows) = posts[e].accepted
  BY <1>1, CollectedManifestFacts DEF m
<1>4. TypeOK'
  BY <1>1, <1>2, <1>3, IdleCollectorType DEF WriteManifest, provider, IInv, TypeOK
<1>5. CollectorInv'
  BY IdleCollectorType DEF WriteManifest, provider, IInv, TypeOK, CollectorInv, PostedFrom
<1>6. ExecutorInv' /\ SavedPostInv'
  BY DEF WriteManifest, provider, IInv, ExecutorInv, SavedPostInv, PostedFrom
<1>7. ChargeInv'
  BY <1>1, <1>2, <1>3 DEF WriteManifest, provider, IInv, TypeOK, ChargeInv, PostedFrom
<1>8. CompletionInv'
  BY <1>1, <1>2, <1>3 DEF WriteManifest, provider, IInv, TypeOK, CompletionInv
<1> QED
  BY <1>4, <1>5, <1>6, <1>7, <1>8 DEF IInv

LEMMA CutOffType ==
  ASSUME IInv, NEW c \in Collectors, CutsOffWrites(c)
  PROVE  raw' \in [Runs -> [AcquisitionTasks -> Bodies \cup {None}]]
<1>1. PICK cut : raw' = [raw EXCEPT ![coll[c].run] =
          [a \in AcquisitionTasks |->
             IF a \in {coll[c].post} \X cut THEN None ELSE raw[coll[c].run][a]]]
  BY DEF CutsOffWrites
<1>2. CASE coll[c].run \in Runs
  BY <1>1, <1>2 DEF IInv, TypeOK
<1>3. CASE coll[c].run \notin Runs
  BY <1>1, <1>3 DEF IInv, TypeOK
<1> QED
  BY <1>2, <1>3

LEMMA EndedCollectorIInv ==
  ASSUME IInv, NEW c \in Collectors, RequestFails(c) \/ CrashCollector(c)
  PROVE  IInv'
<1>1. coll' = [coll EXCEPT ![c] = IdleCollector]
  BY DEF RequestFails, CrashCollector
<1>2. CASE UNCHANGED manifest
  <2>1. raw' \in [Runs -> [AcquisitionTasks -> Bodies \cup {None}]]
    BY <1>2, CutOffType DEF RequestFails, CrashCollector, IInv, TypeOK
  <2>2. index' \in [Runs -> IndexFile \cup {None, Torn}]
    BY <1>2 DEF RequestFails, CrashCollector, IInv, TypeOK
  <2> QED
    BY <1>1, <1>2, <2>1, <2>2, IdleCollectorType, CollectorMovesIInv
    DEF RequestFails, CrashCollector
<1>3. CASE /\ CrashCollector(c) /\ coll[c].pc = "indexed"
           /\ manifest' = [manifest EXCEPT ![coll[c].run] = Unwritten("torn")]
           /\ UNCHANGED <<raw, index>>
  <2>1. coll[c].run \in Runs
    BY <1>3 DEF IInv, CollectorInv
  <2>2. manifest' \in [Runs -> Manifest] /\ ChargeInv' /\ CompletionInv'
    BY <1>3, <2>1, TornManifestInv DEF CrashCollector, provider
  <2>3. TypeOK'
    BY <1>1, <1>3, <2>2, IdleCollectorType DEF CrashCollector, provider, IInv, TypeOK
  <2>4. CollectorInv'
    BY <1>1, <1>3, IdleCollectorType
    DEF CrashCollector, provider, IInv, TypeOK, CollectorInv, PostedFrom
  <2>5. ExecutorInv' /\ SavedPostInv'
    BY <1>3 DEF CrashCollector, provider, IInv, ExecutorInv, SavedPostInv, PostedFrom
  <2> QED
    BY <2>2, <2>3, <2>4, <2>5 DEF IInv
<1> QED
  BY <1>2, <1>3 DEF RequestFails, CrashCollector

LEMMA EnvironmentIInv ==
  ASSUME IInv,
         \/ \E e \in Executors, t \in Sources : ProviderFinishes(e, t)
         \/ DashboardRestart
         \/ UNCHANGED vars
  PROVE  IInv'
<1>1. /\ UNCHANGED <<manifest, taskPost, raw, index, exec, coll, posts>>
      /\ ready' \subseteq AcquisitionTasks
      /\ served' \in CandidateSets
  <2>1. ASSUME NEW e \in Executors, NEW t \in Sources, ProviderFinishes(e, t)
        PROVE  <1>1
    BY <2>1 DEF ProviderFinishes, files, IInv, TypeOK, AcquisitionTasks
  <2>2. CASE DashboardRestart
    BY <2>2 DEF DashboardRestart, files, provider, IInv, TypeOK
  <2>3. CASE UNCHANGED vars
    BY <2>3 DEF vars, files, provider, IInv, TypeOK
  <2> QED
    BY <2>1, <2>2, <2>3
<1>2. TypeOK'
  BY <1>1 DEF IInv, TypeOK
<1>3. ExecutorInv' /\ SavedPostInv' /\ CollectorInv' /\ ChargeInv' /\ CompletionInv'
  BY <1>1
  DEF IInv, ExecutorInv, SavedPostInv, CollectorInv, ChargeInv, CompletionInv, PostedFrom
<1> QED
  BY <1>2, <1>3 DEF IInv

LEMMA NextIInv == IInv /\ [Next]_vars => IInv'
<1> SUFFICES ASSUME IInv, [Next]_vars PROVE IInv'
  OBVIOUS
<1>1. ASSUME NEW e \in Executors, NEW r \in Runs, Ask(e, r) PROVE IInv'
  BY <1>1, AskIInv
<1>2. ASSUME NEW e \in Executors, ExecutorStep(e) PROVE IInv'
  <2>1. CASE AuditBudget(e)
    <3>1. exec[e].portfolio \in CandidateSets /\ exec[e].set \in CandidateSets
      BY <2>1 DEF AuditBudget, IInv, TypeOK, Executor
    <3> QED
      BY <2>1, <3>1, GoesIInv DEF AuditBudget
  <2>2. CASE SubmitFails(e)
    BY <2>2, GoesIInv DEF SubmitFails
  <2>3. CASE RefuseReply(e)
    BY <2>3, GoesIInv DEF RefuseReply
  <2> QED
    BY <1>2, <2>1, <2>2, <2>3, AskIInv, ValidateIInv, SubmitTasksIInv, SavePostIInv,
       RecordSubmissionIInv DEF ExecutorStep
<1>3. ASSUME NEW e \in Executors, CrashExecutor(e) PROVE IInv'
  BY <1>3, CrashExecutorIInv
<1>4. ASSUME NEW c \in Collectors, NEW r \in Runs, StartCollector(c, r) PROVE IInv'
  BY <1>4, StartCollectorIInv
<1>5. ASSUME NEW c \in Collectors, CollectorStep(c) PROVE IInv'
  BY <1>5, WorkerIInv, WriteIndexIInv, WriteManifestIInv DEF CollectorStep
<1>6. ASSUME NEW c \in Collectors, RequestFails(c) \/ CrashCollector(c) PROVE IInv'
  BY <1>6, EndedCollectorIInv
<1> QED
  BY <1>1, <1>2, <1>3, <1>4, <1>5, <1>6, EnvironmentIInv DEF Next

LEMMA SpecIInv == Spec => []IInv
  BY InitIInv, NextIInv, PTL DEF Spec

(***************************************************************************)
(* Every file, script and reply keeps the shape the model gives it.        *)
(***************************************************************************)
THEOREM TypeCorrect == Spec => []TypeOK
<1>1. IInv => TypeOK
  BY DEF IInv
<1> QED
  BY <1>1, SpecIInv, PTL

(***************************************************************************)
(* Whatever the audit counts was charged by a POST made from that very     *)
(* directory, under every combination of Disturbances.                     *)
(***************************************************************************)
THEOREM LedgerIsReal == Spec => []LedgerEntriesAreRealCharges
<1>1. IInv => LedgerEntriesAreRealCharges
  BY DEF IInv, ChargeInv, ChargedStates, LedgerEntriesAreRealCharges, PostedFrom
<1> QED
  BY <1>1, SpecIInv, PTL

(***************************************************************************)
(* What the loader hands to the database build is one whole POST of that   *)
(* directory, under every combination of Disturbances: the completion test *)
(* binds the manifest to the POST, the index digest binds the index to the *)
(* manifest, and the raw digests bind the raw files to the index.          *)
(***************************************************************************)
THEOREM EvidenceIsWhole == Spec => []LoadedEvidenceIsOneWholePost
<1>1. IInv => LoadedEvidenceIsOneWholePost
  <2> SUFFICES ASSUME IInv, NEW r \in LoadableRuns
               PROVE  \E e \in Executors :
                        /\ posts[e] # None
                        /\ posts[e].run = r
                        /\ index[r].post = e
                        /\ Found(index[r].rows) = posts[e].accepted
                        /\ \A t \in posts[e].accepted : raw[r][<<e, t>>] # None
                        /\ manifest[r].cost = posts[e].cost
    BY DEF LoadedEvidenceIsOneWholePost
  <2>1. r \in Runs /\ manifest[r].state \in CompletedStates /\ EvidenceChecks(r)
    BY DEF LoadableRuns, LoaderThrowsOn
  <2>2. PostedFrom(manifest[r].post, r) /\ manifest[r].cost = posts[manifest[r].post].cost
    BY <2>1 DEF IInv, ChargeInv, ChargedStates, CommittedStates, CompletedStates
  <2>3. /\ index[r].post = manifest[r].post
        /\ Found(index[r].rows) = posts[manifest[r].post].accepted
    BY <2>1 DEF IInv, CompletionInv, EvidenceChecks
  <2>4. \A t \in posts[manifest[r].post].accepted : raw[r][<<manifest[r].post, t>>] # None
    BY <2>1, <2>3 DEF EvidenceChecks, Found
  <2> QED
    BY <2>2, <2>3, <2>4 DEF PostedFrom
<1> QED
  BY <1>1, SpecIInv, PTL

-----------------------------------------------------------------------------
(* What the environment leaves out.  The ledger names the right set where no *)
(* directory is used twice, and completed runs load where scripts run one at *)
(* a time.                                                                   *)

(***************************************************************************)
(* Without reuse a directory belongs to one executor for good, and every   *)
(* manifest of it, in the file or in the memory of a collector, names the  *)
(* set of that executor.                                                   *)
(***************************************************************************)
OwnDirectories ==
  \A e, f \in Executors : exec[e].run \in Runs /\ exec[e].run = exec[f].run => e = f

PostsAreTheirs ==
  \A e \in Executors :
    /\ posts[e] # None => posts[e].run = exec[e].run /\ posts[e].set = exec[e].portfolio
    /\ exec[e].pc \in {"audited", "validated"} \/ posts[e] # None =>
         PlanAgrees(exec[e].portfolio, exec[e].set)

\* An executor that has its answers keeps them.
Settled(e) == exec[e].pc \notin {"idle", "asking"}

Named(m, r) ==
  \E e \in Executors : Settled(e) /\ exec[e].run = r /\ exec[e].set = m.set

ManifestsAreNamed ==
  \A r \in Runs : manifest[r].state \notin {"absent", "torn"} => Named(manifest[r], r)

MemoriesAreNamed ==
  \A c \in Collectors :
    coll[c].pc # "idle" => Named(coll[c].run_manifest, coll[c].run)

NamesInv ==
  IInv /\ OwnDirectories /\ PostsAreTheirs /\ ManifestsAreNamed /\ MemoriesAreNamed

(***************************************************************************)
(* Where scripts run one at a time, an executor that has written its first *)
(* manifest finds it unchanged, and a completed manifest still fits the    *)
(* saved reply, the results of the index and the raw files.  A collector   *)
(* that works on a completed run finds every raw file and requests         *)
(* nothing, so the results it indexes are those indexed before.            *)
(***************************************************************************)
OneScript ==
  /\ \A e, f \in Executors :
       exec[e].pc \notin {"idle", "ended"} /\ exec[f].pc \notin {"idle", "ended"} => e = f
  /\ \A c, d \in Collectors : coll[c].pc # "idle" /\ coll[d].pc # "idle" => c = d
  /\ \A e \in Executors, c \in Collectors :
       exec[e].pc \in {"idle", "ended"} \/ coll[c].pc = "idle"

OwnManifest ==
  \A e \in Executors :
    exec[e].pc \in {"validated", "posted", "saved"} =>
      manifest[exec[e].run].state = "validated_not_submitted"

Completed(r) == manifest[r].state \in CompletedStates

SameResults(x, y) == x # None /\ x.post = y.post /\ x.rows = y.rows

CompletedFits ==
  \A r \in Runs :
    Completed(r) =>
      /\ taskPost[r] = manifest[r].post
      /\ index[r] # Torn => SameResults(index[r], manifest[r].index)
      /\ \A t \in Found(manifest[r].index.rows) :
           raw[r][<<manifest[r].post, t>>] = manifest[r].index.rows[t]

CollectorFits ==
  \A c \in Collectors :
    coll[c].pc # "idle" =>
      /\ taskPost[coll[c].run] = coll[c].post
      /\ \A t \in Found(coll[c].done) : RawFile(c, t) = coll[c].done[t]
      /\ coll[c].pc = "indexed" =>
           index[coll[c].run] = IndexOf(c)
      /\ coll[c].pc = "working" /\ Completed(coll[c].run) =>
           /\ coll[c].flight = {}
           /\ coll[c].todo \subseteq Found(manifest[coll[c].run].index.rows)
           /\ \A t \in Sources :
                coll[c].done[t] = IF t \in coll[c].todo THEN None
                                  ELSE manifest[coll[c].run].index.rows[t]

SerialInv ==
  IInv /\ OneScript /\ OwnManifest /\ CompletedFits /\ CollectorFits
-----------------------------------------------------------------------------
(* The ledger names its sets                                               *)

\* What a step leaves of the executors' directories and answers.
LEMMA ExecutorMoves ==
  ASSUME IInv, Next, NEW e \in Executors
  PROVE  /\ exec'[e].run = exec[e].run \/ \E r \in Runs : Ask(e, r)
         /\ Settled(e) =>
              /\ Settled(e)'
              /\ exec'[e].run = exec[e].run
              /\ exec'[e].portfolio = exec[e].portfolio /\ exec'[e].set = exec[e].set
         /\ exec'[e].pc \in {"asking", "audited"} =>
              exec[e].pc \in {"asking", "audited"} \/ \E r \in Runs : Ask(e, r)
         /\ exec'[e].pc \in {"audited", "validated"} =>
              /\ \/ exec[e].pc \in {"audited", "validated"}
                 \/ PlanAgrees(exec[e].portfolio, exec[e].set)
              /\ exec'[e].portfolio = exec[e].portfolio /\ exec'[e].set = exec[e].set
<1> DEFINE Goal ==
       /\ exec'[e].run = exec[e].run \/ \E r \in Runs : Ask(e, r)
       /\ Settled(e) =>
            /\ Settled(e)'
            /\ exec'[e].run = exec[e].run
            /\ exec'[e].portfolio = exec[e].portfolio /\ exec'[e].set = exec[e].set
       /\ exec'[e].pc \in {"asking", "audited"} =>
            exec[e].pc \in {"asking", "audited"} \/ \E r \in Runs : Ask(e, r)
       /\ exec'[e].pc \in {"audited", "validated"} =>
            /\ \/ exec[e].pc \in {"audited", "validated"}
               \/ PlanAgrees(exec[e].portfolio, exec[e].set)
            /\ exec'[e].portfolio = exec[e].portfolio /\ exec'[e].set = exec[e].set
<1>0. exec \in [Executors -> Executor]
  BY DEF IInv, TypeOK
<1>1. CASE exec'[e] = exec[e]
  BY <1>1 DEF Settled
<1>2. ASSUME NEW r \in Runs, Ask(e, r) PROVE Goal
  BY <1>0, <1>2 DEF Ask, Settled
<1>3. CASE AnswerPortfolio(e) \/ AnswerApproval(e)
  BY <1>0, <1>3 DEF AnswerPortfolio, AnswerApproval, Settled, Executor
<1>4. CASE AuditBudget(e)
  <2>1. PICK pc \in {"audited", "ended"} :
          Goes(e, pc) /\ (pc = "audited" => PlanAgrees(exec[e].portfolio, exec[e].set))
    BY <1>4 DEF AuditBudget
  <2> QED
    BY <1>0, <1>4, <2>1 DEF Goes, Settled, Executor, AuditBudget
<1>5. CASE \/ Validate(e) \/ SubmitTasks(e) \/ SubmitFails(e) \/ LoseReply(e) \/ SavePost(e)
           \/ RecordSubmission(e) \/ RefuseReply(e) \/ CrashExecutor(e)
  <2>1. PICK pc \in {"validated", "posted", "saved", "ended"} :
          Goes(e, pc) /\ (pc = "validated" => exec[e].pc = "audited")
    BY <1>5 DEF Validate, SubmitTasks, SubmitFails, LoseReply, SavePost, RecordSubmission,
                RefuseReply, CrashExecutor
  <2> QED
    BY <1>0, <2>1 DEF Goes, Settled, Executor
<1>6. ASSUME NEW f \in Executors \ {e},
             (\E r \in Runs : Ask(f, r)) \/ ExecutorStep(f) \/ CrashExecutor(f)
      PROVE  exec'[e] = exec[e]
  BY <1>0, <1>6
  DEF Ask, ExecutorStep, AnswerPortfolio, AnswerApproval, AuditBudget, Validate, SubmitTasks,
      SubmitFails, LoseReply, SavePost, RecordSubmission, RefuseReply, CrashExecutor, Goes
<1>7. ASSUME NEW c \in Collectors,
             \/ \E r \in Runs : StartCollector(c, r)
             \/ CollectorStep(c) \/ RequestFails(c) \/ CrashCollector(c)
      PROVE  UNCHANGED exec
  BY <1>7 DEF StartCollector, CollectorStep, ReuseRaw, RequestResult, SaveResult, ResultPending,
              WriteIndex, WriteManifest, RequestFails, CrashCollector
<1>8. ASSUME \/ \E f \in Executors, t \in Sources : ProviderFinishes(f, t)
             \/ DashboardRestart
      PROVE  UNCHANGED exec
  BY <1>8 DEF ProviderFinishes, DashboardRestart
<1> HIDE DEF Goal
<1>9. ASSUME NEW f \in Executors,
             (\E r \in Runs : Ask(f, r)) \/ ExecutorStep(f) \/ CrashExecutor(f)
      PROVE  Goal
  <2>1. CASE f = e
    BY <1>2, <1>3, <1>4, <1>5, <1>9, <2>1 DEF ExecutorStep, Goal
  <2>2. CASE f # e
    BY <1>1, <1>6, <1>9, <2>2 DEF Goal
  <2> QED
    BY <2>1, <2>2
<1>10. Goal
  BY <1>1, <1>7, <1>8, <1>9 DEF Next, Goal
<1> QED
  BY <1>10 DEF Goal

\* Where the set in a manifest that is written comes from.
LEMMA ManifestSources ==
  ASSUME IInv, Next, NEW r \in Runs
  PROVE  \/ manifest'[r] = manifest[r]
         \/ manifest'[r].state = "torn"
         \/ \E e \in Executors :
              Settled(e) /\ exec[e].run = r /\ exec[e].set = manifest'[r].set
         \/ \E c \in Collectors :
              /\ coll[c].pc # "idle" /\ coll[c].run = r
              /\ manifest'[r].set = coll[c].run_manifest.set
<1> DEFINE Goal == \/ manifest'[r] = manifest[r]
                   \/ manifest'[r].state = "torn"
                   \/ \E e \in Executors :
                        Settled(e) /\ exec[e].run = r /\ exec[e].set = manifest'[r].set
                   \/ \E c \in Collectors :
                        /\ coll[c].pc # "idle" /\ coll[c].run = r
                        /\ manifest'[r].set = coll[c].run_manifest.set
<1>1. CASE UNCHANGED manifest
  BY <1>1
<1>2. ASSUME NEW e \in Executors, Validate(e) PROVE Goal
  BY <1>2 DEF Validate, IInv, TypeOK, Unwritten, Settled
<1>3. ASSUME NEW e \in Executors, RecordSubmission(e) PROVE Goal
  BY <1>3 DEF RecordSubmission, SubmittedManifest, IInv, TypeOK, Settled
<1>4. ASSUME NEW e \in Executors, CrashExecutor(e) PROVE Goal
  BY <1>4 DEF CrashExecutor, IInv, TypeOK, Unwritten
<1>5. ASSUME NEW c \in Collectors, WriteManifest(c) PROVE Goal
  <2>1. coll[c].run_manifest \in Manifest /\ coll[c].pc # "idle"
    BY <1>5 DEF WriteManifest, IInv, TypeOK, Collector
  <2>2. CollectedManifest(c).set = coll[c].run_manifest.set
    BY <2>1 DEF CollectedManifest, Manifest
  <2> QED
    BY <1>5, <2>1, <2>2 DEF WriteManifest, IInv, TypeOK
<1>6. ASSUME NEW c \in Collectors, CrashCollector(c) PROVE Goal
  BY <1>6 DEF CrashCollector, IInv, TypeOK, Unwritten
<1>7. ASSUME NEW e \in Executors,
             \/ \E s \in Runs : Ask(e, s)
             \/ AnswerPortfolio(e) \/ AnswerApproval(e) \/ AuditBudget(e)
             \/ SubmitTasks(e) \/ SubmitFails(e) \/ LoseReply(e) \/ SavePost(e) \/ RefuseReply(e)
      PROVE  UNCHANGED manifest
  BY <1>7 DEF Ask, AnswerPortfolio, AnswerApproval, AuditBudget, SubmitTasks, SubmitFails,
              LoseReply, SavePost, RefuseReply, files
<1>8. ASSUME NEW c \in Collectors,
             \/ \E s \in Runs : StartCollector(c, s)
             \/ \E t \in Sources :
                  ReuseRaw(c, t) \/ RequestResult(c, t) \/ SaveResult(c, t) \/ ResultPending(c, t)
             \/ WriteIndex(c) \/ RequestFails(c)
      PROVE  UNCHANGED manifest
  BY <1>8 DEF StartCollector, ReuseRaw, RequestResult, SaveResult, ResultPending, WriteIndex,
              RequestFails, files
<1>9. ASSUME \/ \E e \in Executors, t \in Sources : ProviderFinishes(e, t)
             \/ DashboardRestart
      PROVE  UNCHANGED manifest
  BY <1>9 DEF ProviderFinishes, DashboardRestart, files
<1> HIDE DEF Goal
<1>10. ASSUME NEW e \in Executors,
              (\E s \in Runs : Ask(e, s)) \/ ExecutorStep(e) \/ CrashExecutor(e)
       PROVE  Goal
  BY <1>1, <1>2, <1>3, <1>4, <1>7, <1>10 DEF ExecutorStep, Goal
<1>11. ASSUME NEW c \in Collectors,
              \/ \E s \in Runs : StartCollector(c, s)
              \/ CollectorStep(c) \/ RequestFails(c) \/ CrashCollector(c)
       PROVE  Goal
  BY <1>1, <1>5, <1>6, <1>8, <1>11 DEF CollectorStep, Goal
<1>12. Goal
  BY <1>1, <1>9, <1>10, <1>11 DEF Next, Goal
<1> QED
  BY <1>12 DEF Goal

\* What a collector holds it read when it was started.
LEMMA MemorySources ==
  ASSUME IInv, Next, NEW c \in Collectors
  PROVE  \/ coll'[c].pc = "idle"
         \/ /\ coll[c].pc # "idle" /\ coll'[c].run = coll[c].run
            /\ coll'[c].run_manifest = coll[c].run_manifest
         \/ \E r \in Runs :
              /\ manifest[r].state \notin {"absent", "torn"}
              /\ coll'[c].run = r /\ coll'[c].run_manifest = manifest[r]
<1> DEFINE Goal == \/ coll'[c].pc = "idle"
                   \/ /\ coll[c].pc # "idle" /\ coll'[c].run = coll[c].run
                      /\ coll'[c].run_manifest = coll[c].run_manifest
                   \/ \E r \in Runs :
                        /\ manifest[r].state \notin {"absent", "torn"}
                        /\ coll'[c].run = r /\ coll'[c].run_manifest = manifest[r]
<1>1. CASE coll'[c] = coll[c]
  BY <1>1
<1>2. ASSUME NEW r \in Runs, StartCollector(c, r) PROVE Goal
  BY <1>2 DEF StartCollector, IInv, TypeOK
<1>3. ASSUME NEW t \in Sources,
             ReuseRaw(c, t) \/ RequestResult(c, t) \/ SaveResult(c, t) \/ ResultPending(c, t)
      PROVE  Goal
  <2>1. coll[c] \in Collector /\ coll[c].pc = "working"
    BY <1>3 DEF ReuseRaw, RequestResult, SaveResult, ResultPending, TakesTask, IInv, TypeOK
  <2>2. CASE ReuseRaw(c, t)
    BY <2>1, <2>2 DEF ReuseRaw, IInv, TypeOK, Collector
  <2>3. CASE RequestResult(c, t)
    BY <2>1, <2>3 DEF RequestResult, IInv, TypeOK, Collector
  <2>4. CASE SaveResult(c, t)
    BY <2>1, <2>4 DEF SaveResult, IInv, TypeOK, Collector
  <2>5. CASE ResultPending(c, t)
    BY <2>1, <2>5 DEF ResultPending, IInv, TypeOK, Collector
  <2> QED
    BY <1>3, <2>2, <2>3, <2>4, <2>5
<1>4. CASE WriteIndex(c)
  BY <1>4 DEF WriteIndex, WorkersDone, IInv, TypeOK, Collector
<1>5. CASE WriteManifest(c) \/ RequestFails(c) \/ CrashCollector(c)
  BY <1>5, IdleCollectorType DEF WriteManifest, RequestFails, CrashCollector, IInv, TypeOK
<1>6. ASSUME NEW d \in Collectors \ {c},
             \/ \E r \in Runs : StartCollector(d, r)
             \/ CollectorStep(d) \/ RequestFails(d) \/ CrashCollector(d)
      PROVE  coll'[c] = coll[c]
  BY <1>6 DEF StartCollector, CollectorStep, ReuseRaw, RequestResult, SaveResult, ResultPending,
              WriteIndex, WriteManifest, RequestFails, CrashCollector, IInv, TypeOK
<1>7. ASSUME \/ \E e \in Executors :
                  (\E r \in Runs : Ask(e, r)) \/ ExecutorStep(e) \/ CrashExecutor(e)
             \/ \E e \in Executors, t \in Sources : ProviderFinishes(e, t)
             \/ DashboardRestart
      PROVE  coll' = coll
  BY <1>7 DEF Ask, ExecutorStep, AnswerPortfolio, AnswerApproval, AuditBudget, Validate,
              SubmitTasks, SubmitFails, LoseReply, SavePost, RecordSubmission, RefuseReply,
              CrashExecutor, ProviderFinishes, DashboardRestart
<1> HIDE DEF Goal
<1>8. ASSUME NEW d \in Collectors,
             \/ \E r \in Runs : StartCollector(d, r)
             \/ CollectorStep(d) \/ RequestFails(d) \/ CrashCollector(d)
      PROVE  Goal
  <2>1. CASE d = c
    <3>1. \/ \E r \in Runs : StartCollector(c, r)
          \/ CollectorStep(c) \/ RequestFails(c) \/ CrashCollector(c)
      BY <1>8, <2>1
    <3> QED
      BY <1>2, <1>3, <1>4, <1>5, <3>1 DEF CollectorStep, Goal
  <2>2. CASE d # c
    BY <1>1, <1>6, <1>8, <2>2 DEF Goal
  <2> QED
    BY <2>1, <2>2
<1>9. Goal
  BY <1>1, <1>7, <1>8 DEF Next, Goal
<1> QED
  BY <1>9 DEF Goal

\* Only a POST of an executor's own changes what the provider has of it.
LEMMA PostSources ==
  ASSUME IInv, Next, NEW e \in Executors
  PROVE  \/ posts'[e] = posts[e]
         \/ /\ exec[e].pc = "validated"
            /\ posts'[e].run = exec[e].run /\ posts'[e].set = exec[e].portfolio
<1>1. ASSUME NEW f \in Executors, SubmitTasks(f) \/ LoseReply(f)
      PROVE  \/ posts'[e] = posts[e]
             \/ /\ exec[e].pc = "validated"
                /\ posts'[e].run = exec[e].run /\ posts'[e].set = exec[e].portfolio
  <2>1. PICK lost \in BOOLEAN : ProviderCharges(f, lost)
    BY <1>1 DEF SubmitTasks, LoseReply
  <2>2. PICK p \in Replies(f, lost) : posts' = [posts EXCEPT ![f] = p]
    BY <2>1 DEF ProviderCharges
  <2>3. p.run = exec[f].run /\ p.set = exec[f].portfolio /\ exec[f].pc = "validated"
    BY <1>1, <2>2 DEF Replies, SubmitTasks, LoseReply
  <2> QED
    BY <2>2, <2>3 DEF IInv, TypeOK
<1>2. ASSUME NEW f \in Executors,
             \/ \E s \in Runs : Ask(f, s)
             \/ AnswerPortfolio(f) \/ AnswerApproval(f)
             \/ AuditBudget(f) \/ Validate(f) \/ SubmitFails(f) \/ SavePost(f)
             \/ RecordSubmission(f) \/ RefuseReply(f) \/ CrashExecutor(f)
      PROVE  UNCHANGED posts
  BY <1>2 DEF Ask, AnswerPortfolio, AnswerApproval, AuditBudget, Validate, SubmitFails, SavePost,
              RecordSubmission, RefuseReply, CrashExecutor, provider
<1>3. ASSUME NEW c \in Collectors,
             \/ \E s \in Runs : StartCollector(c, s)
             \/ CollectorStep(c) \/ RequestFails(c) \/ CrashCollector(c)
      PROVE  UNCHANGED posts
  BY <1>3 DEF StartCollector, CollectorStep, ReuseRaw, RequestResult, SaveResult, ResultPending,
              WriteIndex, WriteManifest, RequestFails, CrashCollector, provider
<1>4. ASSUME \/ \E f \in Executors, t \in Sources : ProviderFinishes(f, t)
             \/ DashboardRestart
      PROVE  UNCHANGED posts
  BY <1>4 DEF ProviderFinishes, DashboardRestart, provider
<1> QED
  BY <1>1, <1>2, <1>3, <1>4 DEF Next, ExecutorStep

LEMMA NextNames ==
  ASSUME "reuse" \notin Disturbances
  PROVE  NamesInv /\ [Next]_vars => NamesInv'
<1> SUFFICES ASSUME NamesInv, [Next]_vars PROVE NamesInv'
  OBVIOUS
<1>1. IInv /\ IInv'
  BY NextIInv DEF NamesInv
<1>2. CASE UNCHANGED vars
  BY <1>1, <1>2
  DEF NamesInv, OwnDirectories, PostsAreTheirs, ManifestsAreNamed, MemoriesAreNamed, Named,
      Settled, vars, files, provider
<1>3. CASE Next
  <2>1. OwnDirectories'
    <3>1. ASSUME NEW e \in Executors, NEW r \in Runs, Ask(e, r) PROVE OwnDirectories'
      <4>1. /\ \A f \in Executors : exec[f].run # r
            /\ exec'[e].run = r
            /\ \A f \in Executors \ {e} : exec'[f] = exec[f]
        BY <1>1, <3>1 DEF Ask, Fresh, IInv, TypeOK
      <4> QED
        BY <4>1 DEF NamesInv, OwnDirectories
    <3>2. CASE ~(\E e \in Executors, r \in Runs : Ask(e, r))
      <4>1. \A e \in Executors : exec'[e].run = exec[e].run
        BY <1>1, <1>3, <3>2, ExecutorMoves
      <4> QED
        BY <4>1 DEF NamesInv, OwnDirectories
    <3> QED
      BY <3>1, <3>2
  <2>2. PostsAreTheirs'
    <3> SUFFICES ASSUME NEW e \in Executors
                 PROVE  /\ posts'[e] # None =>
                             posts'[e].run = exec'[e].run /\ posts'[e].set = exec'[e].portfolio
                        /\ exec'[e].pc \in {"audited", "validated"} \/ posts'[e] # None =>
                             PlanAgrees(exec[e].portfolio, exec[e].set)'
      BY DEF PostsAreTheirs
    <3>1. posts[e] # None \/ exec[e].pc = "validated" => Settled(e)
      BY <1>1 DEF IInv, ExecutorInv, Settled
    <3>2. posts'[e] = posts[e] \/ (/\ exec[e].pc = "validated"
                                  /\ posts'[e].run = exec[e].run
                                  /\ posts'[e].set = exec[e].portfolio)
      BY <1>1, <1>3, PostSources
    <3>3. posts'[e] # None =>
            /\ posts'[e].run = exec'[e].run /\ posts'[e].set = exec'[e].portfolio
            /\ PlanAgrees(exec'[e].portfolio, exec'[e].set)
      BY <1>1, <1>3, <3>1, <3>2, ExecutorMoves DEF NamesInv, PostsAreTheirs
    <3>4. exec'[e].pc \in {"audited", "validated"} => PlanAgrees(exec'[e].portfolio, exec'[e].set)
      BY <1>1, <1>3, ExecutorMoves DEF NamesInv, PostsAreTheirs
    <3>5. PlanAgrees(exec'[e].portfolio, exec'[e].set)
            => PlanAgrees(exec[e].portfolio, exec[e].set)'
      BY DEF PlanAgrees
    <3> QED
      BY <3>3, <3>4, <3>5
  <2>3. \A e \in Executors :
          Settled(e) => Settled(e)' /\ exec'[e].run = exec[e].run /\ exec'[e].set = exec[e].set
    BY <1>1, <1>3, ExecutorMoves
  <2>4. ManifestsAreNamed'
    <3> SUFFICES ASSUME NEW r \in Runs, manifest'[r].state \notin {"absent", "torn"}
                 PROVE  \E e \in Executors :
                          Settled(e)' /\ exec'[e].run = r /\ exec'[e].set = manifest'[r].set
      BY DEF ManifestsAreNamed, Named
    <3>1. \E e \in Executors :
            Settled(e) /\ exec[e].run = r /\ exec[e].set = manifest'[r].set
      BY <1>1, <1>3, ManifestSources
      DEF NamesInv, ManifestsAreNamed, MemoriesAreNamed, Named
    <3> QED
      BY <2>3, <3>1
  <2>5. MemoriesAreNamed'
    <3> SUFFICES ASSUME NEW c \in Collectors, coll'[c].pc # "idle"
                 PROVE  \E e \in Executors :
                          /\ Settled(e)' /\ exec'[e].run = coll'[c].run
                          /\ exec'[e].set = coll'[c].run_manifest.set
      BY DEF MemoriesAreNamed, Named
    <3>1. \E e \in Executors :
            /\ Settled(e) /\ exec[e].run = coll'[c].run
            /\ exec[e].set = coll'[c].run_manifest.set
      BY <1>1, <1>3, MemorySources
      DEF NamesInv, ManifestsAreNamed, MemoriesAreNamed, Named
    <3> QED
      BY <2>3, <3>1
  <2> QED
    BY <1>1, <2>1, <2>2, <2>4, <2>5 DEF NamesInv
<1> QED
  BY <1>2, <1>3

LEMMA InitNames == Init => NamesInv
BY InitIInv, SentinelAssumption
DEF Init, NamesInv, OwnDirectories, PostsAreTheirs, ManifestsAreNamed, MemoriesAreNamed,
    Unwritten, IdleCollector

(***************************************************************************)
(* As long as no directory is used twice, a counted entry names the set    *)
(* whose approval its executor was given, for any number of concurrent     *)
(* scripts and crashes and whatever the dashboard serves later.  That is   *)
(* the set paid for, unless the dashboard was restarted between the two    *)
(* answers; then both have as many tasks and the same maximum.             *)
(***************************************************************************)
THEOREM LedgerNamesItsSets == Spec => []LedgerEntriesNameTheirSet
<1>1. CASE "reuse" \in Disturbances
  <2>1. LedgerEntriesNameTheirSet
    BY <1>1 DEF LedgerEntriesNameTheirSet
  <2> QED
    BY <2>1, PTL
<1>2. CASE "reuse" \notin Disturbances
  <2>1. Init => NamesInv
    BY InitNames
  <2>2. NamesInv /\ [Next]_vars => NamesInv'
    BY <1>2, NextNames
  <2>3. NamesInv => LedgerEntriesNameTheirSet
    <3> SUFFICES ASSUME NamesInv, NEW r \in Runs, manifest[r].state \in CommittedStates
                 PROVE  LET e == manifest[r].post
                            paid == posts[e].set
                            named == manifest[r].set
                        IN /\ named = exec[e].set
                           /\ exec[e].portfolio = exec[e].set => named = paid
                           /\ Cardinality(Members[named]) = Cardinality(Members[paid])
                           /\ PlanMax[named] = PlanMax[paid]
      BY DEF LedgerEntriesNameTheirSet
    <3> DEFINE e == manifest[r].post
    <3>1. PostedFrom(e, r)
      BY DEF NamesInv, IInv, ChargeInv, ChargedStates
    <3>2. /\ exec[e].run = r /\ exec[e].portfolio = posts[e].set
          /\ PlanAgrees(exec[e].portfolio, exec[e].set)
      BY <3>1 DEF NamesInv, PostsAreTheirs, PostedFrom
    <3>3. PICK f \in Executors : exec[f].run = r /\ exec[f].set = manifest[r].set
      BY DEF NamesInv, ManifestsAreNamed, Named, CommittedStates
    <3>4. manifest[r].set = exec[e].set
      BY <3>1, <3>2, <3>3 DEF NamesInv, OwnDirectories, PostedFrom
    <3> QED
      BY <3>2, <3>4 DEF PlanAgrees
  <2> QED
    BY <2>1, <2>2, <2>3, PTL DEF Spec
<1> QED
  BY <1>1, <1>2
-----------------------------------------------------------------------------
(* Runs collected one at a time load                                       *)

\* A step of one script changes neither the others nor their kind.
LEMMA ExecutorAlone ==
  ASSUME "concurrent" \notin Disturbances, SerialInv, NEW e \in Executors,
         \/ \E r \in Runs : Ask(e, r)
         \/ ExecutorStep(e) \/ CrashExecutor(e)
  PROVE  /\ OneScript'
         /\ \A f \in Executors \ {e} :
              exec[f].pc \in {"idle", "ended"} /\ exec'[f] = exec[f]
         /\ \A c \in Collectors : coll[c].pc = "idle"
         /\ coll' = coll
<1>1. ASSUME NEW r \in Runs, Ask(e, r) PROVE Quiet
  BY <1>1 DEF Ask, MayStart
<1>2. ASSUME ExecutorStep(e) \/ CrashExecutor(e) PROVE exec[e].pc \notin {"idle", "ended"}
  BY <1>2 DEF ExecutorStep, AnswerPortfolio, AnswerApproval, AuditBudget, Validate, SubmitTasks,
              SubmitFails, LoseReply, SavePost, RecordSubmission, RefuseReply, CrashExecutor
<1>3. /\ \A f \in Executors \ {e} : exec[f].pc \in {"idle", "ended"}
      /\ \A c \in Collectors : coll[c].pc = "idle"
  BY <1>1, <1>2 DEF Quiet, SerialInv, OneScript
<1>4. coll' = coll /\ \A f \in Executors \ {e} : exec'[f] = exec[f]
  BY DEF Ask, ExecutorStep, AnswerPortfolio, AnswerApproval, AuditBudget, Validate, SubmitTasks,
         SubmitFails, LoseReply, SavePost, RecordSubmission, RefuseReply, CrashExecutor, Goes, SerialInv, IInv, TypeOK
<1>5. OneScript'
  BY <1>3, <1>4 DEF OneScript
<1> QED
  BY <1>3, <1>4, <1>5

LEMMA CollectorAlone ==
  ASSUME "concurrent" \notin Disturbances, SerialInv, NEW c \in Collectors,
         \/ \E r \in Runs : StartCollector(c, r)
         \/ CollectorStep(c) \/ RequestFails(c) \/ CrashCollector(c)
  PROVE  /\ OneScript'
         /\ OwnManifest'
         /\ \A d \in Collectors \ {c} : coll[d].pc = "idle" /\ coll'[d] = coll[d]
         /\ exec' = exec
<1>1. ASSUME NEW r \in Runs, StartCollector(c, r) PROVE Quiet
  BY <1>1 DEF StartCollector, MayStart
<1>2. ASSUME CollectorStep(c) \/ RequestFails(c) \/ CrashCollector(c) PROVE coll[c].pc # "idle"
  BY <1>2 DEF CollectorStep, ReuseRaw, RequestResult, SaveResult, ResultPending, TakesTask,
              WriteIndex, WorkersDone, WriteManifest, RequestFails, CrashCollector
<1>3. /\ \A d \in Collectors \ {c} : coll[d].pc = "idle"
      /\ \A e \in Executors : exec[e].pc \in {"idle", "ended"}
  BY <1>1, <1>2 DEF Quiet, SerialInv, OneScript
<1>4. exec' = exec /\ \A d \in Collectors \ {c} : coll'[d] = coll[d]
  BY DEF StartCollector, CollectorStep, ReuseRaw, RequestResult, SaveResult, ResultPending,
         WriteIndex, WriteManifest, RequestFails, CrashCollector, SerialInv, IInv, TypeOK
<1>5. OneScript' /\ OwnManifest'
  BY <1>3, <1>4 DEF OneScript, OwnManifest
<1> QED
  BY <1>3, <1>4, <1>5

\* An executor never writes to a run that is completed.
LEMMA ExecutorSerial ==
  ASSUME "concurrent" \notin Disturbances, SerialInv, NEW e \in Executors,
         \/ \E r \in Runs : Ask(e, r)
         \/ ExecutorStep(e) \/ CrashExecutor(e)
  PROVE  OneScript' /\ OwnManifest' /\ CompletedFits' /\ CollectorFits'
<1> DEFINE r == exec[e].run
<1>1. /\ OneScript'
      /\ \A f \in Executors \ {e} : exec[f].pc \in {"idle", "ended"} /\ exec'[f] = exec[f]
      /\ CollectorFits'
  BY ExecutorAlone DEF CollectorFits
<1>2. exec \in [Executors -> Executor] /\ manifest \in [Runs -> Manifest]
  BY DEF SerialInv, IInv, TypeOK
<1>3. CASE /\ UNCHANGED files
           /\ exec'[e].pc \in {"asking", "audited", "posted", "ended"}
           /\ exec'[e].pc = "posted" => exec[e].pc = "validated" /\ exec'[e].run = r
  BY <1>1, <1>3 DEF SerialInv, OwnManifest, CompletedFits, Completed, files
<1>4. CASE Validate(e)
  <2>1. manifest' = [manifest EXCEPT ![r] = [Unwritten("validated_not_submitted")
                                               EXCEPT !.set = exec[e].set]]
    BY <1>4 DEF Validate
  <2>2. r \in Runs /\ exec'[e].run = r
    BY <1>2, <1>4 DEF Validate, Goes, SerialInv, IInv, ExecutorInv
  <2>3. manifest'[r].state = "validated_not_submitted"
    BY <1>2, <2>1, <2>2 DEF Unwritten
  <2>4. OwnManifest'
    BY <1>1, <2>2, <2>3 DEF OwnManifest
  <2>5. CompletedFits'
    BY <1>2, <1>4, <2>1, <2>3
    DEF Validate, SerialInv, CompletedFits, Completed, CompletedStates
  <2> QED
    BY <1>1, <2>4, <2>5
<1>5. CASE SavePost(e) \/ (CrashExecutor(e) /\ exec[e].pc = "posted" /\ UNCHANGED manifest)
  <2>1. ~Completed(r) /\ UNCHANGED <<manifest, raw, index>>
    BY <1>5 DEF SavePost, CrashExecutor, SerialInv, OwnManifest, Completed, CompletedStates
  <2>2. \A s \in Runs \ {r} : taskPost'[s] = taskPost[s]
    BY <1>5 DEF SavePost, CrashExecutor, SerialInv, IInv, TypeOK
  <2>3. exec[e].pc = "posted" /\ exec'[e].run = r
    BY <1>2, <1>5 DEF SavePost, CrashExecutor, Goes, Executor
  <2>4. OwnManifest'
    BY <1>1, <2>1, <2>3 DEF SerialInv, OwnManifest
  <2>5. CompletedFits'
    BY <2>1, <2>2 DEF SerialInv, CompletedFits, Completed
  <2> QED
    BY <1>1, <2>4, <2>5
<1>6. CASE \/ RecordSubmission(e)
           \/ CrashExecutor(e) /\ manifest' = [manifest EXCEPT ![r] = Unwritten("torn")]
                /\ UNCHANGED taskPost
  <2>1. exec'[e].pc = "ended" /\ UNCHANGED <<taskPost, raw, index>>
    BY <1>2, <1>6 DEF RecordSubmission, CrashExecutor, Goes, Executor, files
  <2>2. \A s \in Runs :
          manifest'[s] = manifest[s] \/ manifest'[s].state \notin CompletedStates
    BY <1>2, <1>6
    DEF RecordSubmission, CrashExecutor, SubmittedManifest, SubmittedState, Unwritten,
        CompletedStates
  <2>3. OwnManifest'
    <3>1. \A f \in Executors : exec'[f].pc \in {"idle", "ended"}
      BY <1>1, <2>1
    <3> QED
      BY <3>1 DEF OwnManifest
  <2>4. CompletedFits'
    BY <2>1, <2>2 DEF SerialInv, CompletedFits, Completed
  <2> QED
    BY <1>1, <2>3, <2>4
<1>7. CASE \/ AuditBudget(e) \/ SubmitTasks(e) \/ SubmitFails(e) \/ LoseReply(e)
           \/ RefuseReply(e)
  BY <1>2, <1>3, <1>7
  DEF AuditBudget, SubmitTasks, SubmitFails, LoseReply, RefuseReply, Goes, Executor
<1>9. CASE \/ \E s \in Runs : Ask(e, s)
           \/ AnswerPortfolio(e) \/ AnswerApproval(e)
  <2>1. UNCHANGED files /\ exec'[e].pc = "asking"
    BY <1>2, <1>9 DEF Ask, AnswerPortfolio, AnswerApproval, Executor
  <2> QED
    BY <1>3, <2>1
<1>8. CASE CrashExecutor(e) /\ UNCHANGED <<manifest, taskPost>>
  BY <1>2, <1>3, <1>8 DEF CrashExecutor, Goes, files
<1> QED
  BY <1>4, <1>5, <1>6, <1>7, <1>8, <1>9 DEF ExecutorStep, CrashExecutor
\* Of a completed run that is collected again every raw file is there.
LEMMA SecondCollection ==
  ASSUME SerialInv, NEW c \in Collectors, coll[c].pc = "working", Completed(coll[c].run)
  PROVE  LET m == manifest[coll[c].run] IN
         /\ m.post = coll[c].post
         /\ m.index \in IndexFile
         /\ m.index.post = m.post
         /\ coll[c].flight = {}
         /\ coll[c].todo \subseteq Found(m.index.rows)
         /\ \A t \in Found(m.index.rows) : RawFile(c, t) = m.index.rows[t]
         /\ \A t \in Sources :
              coll[c].done[t] = IF t \in coll[c].todo THEN None ELSE m.index.rows[t]
<1> DEFINE r == coll[c].run
           m == manifest[r]
<1>1. r \in Runs
  BY DEF SerialInv, IInv, CollectorInv
<1>2. m.index \in IndexFile /\ m.index.post = m.post
  BY <1>1 DEF SerialInv, IInv, CompletionInv, Completed
<1>3. /\ taskPost[r] = m.post
      /\ \A t \in Found(m.index.rows) : raw[r][<<m.post, t>>] = m.index.rows[t]
  BY <1>1 DEF SerialInv, CompletedFits
<1>4. /\ taskPost[r] = coll[c].post
      /\ coll[c].flight = {}
      /\ coll[c].todo \subseteq Found(m.index.rows)
      /\ \A t \in Sources :
           coll[c].done[t] = IF t \in coll[c].todo THEN None ELSE m.index.rows[t]
  BY DEF SerialInv, CollectorFits
<1> QED
  BY <1>2, <1>3, <1>4 DEF RawFile

\* A worker's step on its own collector, which is left working on the same run.
LEMMA WorkerSerial ==
  ASSUME "concurrent" \notin Disturbances, SerialInv, NEW c \in Collectors, NEW t \in Sources,
         \/ ReuseRaw(c, t) \/ RequestResult(c, t) \/ SaveResult(c, t) \/ ResultPending(c, t)
  PROVE  CompletedFits' /\ CollectorFits'
<1> DEFINE r == coll[c].run
           e == coll[c].post
<1>1. /\ coll[c] \in Collector /\ coll[c].pc = "working"
      /\ coll \in [Collectors -> Collector]
      /\ raw \in [Runs -> [AcquisitionTasks -> Bodies \cup {None}]]
      /\ UNCHANGED <<manifest, taskPost, index>>
  BY DEF ReuseRaw, RequestResult, SaveResult, ResultPending, TakesTask, files, SerialInv, IInv,
         TypeOK
<1>2. r \in Runs /\ e \in Executors /\ <<e, t>> \in AcquisitionTasks
  BY <1>1 DEF SerialInv, IInv, CollectorInv, PostedFrom, AcquisitionTasks
<1>3. \A d \in Collectors \ {c} : coll'[d].pc = "idle"
  BY CollectorAlone DEF CollectorStep
<1>4. /\ taskPost[r] = e
      /\ \A s \in Found(coll[c].done) : RawFile(c, s) = coll[c].done[s]
  BY <1>1 DEF SerialInv, CollectorFits
<1>5. /\ coll'[c].pc = "working" /\ coll'[c].run = r /\ coll'[c].post = e
      /\ coll'[c].done \in Rows
      /\ \A s \in Sources \ {t} : coll'[c].done[s] = coll[c].done[s]
  BY <1>1, <1>2
  DEF ReuseRaw, RequestResult, SaveResult, ResultPending, Collector, Rows, RawFile
<1>6. CASE ~Completed(r)
  <2>1. /\ \A s \in Sources \ {t} : raw'[r][<<e, s>>] = raw[r][<<e, s>>]
        /\ \A s \in Runs \ {r} : raw'[s] = raw[s]
        /\ coll'[c].done[t] # None => raw'[r][<<e, t>>] = coll'[c].done[t]
    <3>1. CASE ReuseRaw(c, t)
      <4>1. raw' = raw /\ coll'[c].done[t] = raw[r][<<e, t>>]
        BY <1>1, <3>1 DEF ReuseRaw, Collector, Rows, RawFile, files
      <4> QED
        BY <4>1
    <3>2. CASE SaveResult(c, t)
      <4>1. PICK b \in Bodies :
              /\ raw' = [raw EXCEPT ![r][<<e, t>>] = b]
              /\ coll' = [coll EXCEPT ![c].flight = @ \ {t}, ![c].done[t] = b]
        BY <3>2 DEF SaveResult
      <4>2. coll'[c].done[t] = b
        BY <1>1, <4>1 DEF Collector, Rows
      <4>3. \A a \in AcquisitionTasks :
              raw'[r][a] = IF a = <<e, t>> THEN b ELSE raw[r][a]
        BY <1>1, <1>2, <4>1
      <4>4. \A s \in Sources \ {t} : <<e, s>> \in AcquisitionTasks /\ <<e, s>> # <<e, t>>
        BY <1>2 DEF AcquisitionTasks
      <4>5. \A s \in Runs \ {r} : raw'[s] = raw[s]
        BY <1>1, <4>1
      <4> QED
        BY <1>2, <4>2, <4>3, <4>4, <4>5
    <3>3. CASE RequestResult(c, t) \/ ResultPending(c, t)
      <4>1. raw' = raw /\ coll'[c].done = coll[c].done
        BY <1>1, <3>3 DEF RequestResult, ResultPending, Collector, files
      <4> QED
        BY <1>4, <4>1 DEF RawFile, Found
    <3> QED
      BY <3>1, <3>2, <3>3
  <2>2. CollectorFits'
    BY <1>1, <1>3, <1>4, <1>5, <1>6, <2>1
    DEF CollectorFits, Found, RawFile, Completed
  <2>3. CompletedFits'
    BY <1>1, <1>6, <2>1 DEF SerialInv, CompletedFits, Completed
  <2> QED
    BY <2>2, <2>3
<1>7. CASE Completed(r)
  <2> DEFINE rows == manifest[r].index.rows
  <2>1. /\ coll[c].flight = {} /\ coll[c].todo \subseteq Found(rows)
        /\ \A s \in Found(rows) : RawFile(c, s) = rows[s]
        /\ \A s \in Sources : coll[c].done[s] = IF s \in coll[c].todo THEN None ELSE rows[s]
    BY <1>1, <1>7, SecondCollection
  <2>2. ReuseRaw(c, t)
    BY <2>1 DEF RequestResult, SaveResult, ResultPending, TakesTask, Found
  <2>3. /\ UNCHANGED raw
        /\ coll'[c].flight = {} /\ coll'[c].todo = coll[c].todo \ {t}
        /\ coll'[c].done[t] = rows[t]
    BY <1>1, <2>1, <2>2 DEF ReuseRaw, TakesTask, Collector, Rows, files
  <2> HIDE DEF rows
  <2>4. \A s \in Sources : coll'[c].done[s] = IF s \in coll'[c].todo THEN None ELSE rows[s]
    BY <1>5, <2>1, <2>3
  <2>5. \A s \in Found(coll'[c].done) : raw[r][<<e, s>>] = coll'[c].done[s]
    BY <2>1, <2>4 DEF Found, RawFile
  <2>6. CollectorFits'
    BY <1>1, <1>3, <1>4, <1>5, <2>1, <2>3, <2>4, <2>5
    DEF CollectorFits, Found, RawFile, Completed, rows
  <2>7. CompletedFits'
    BY <1>1, <2>3 DEF SerialInv, CompletedFits, Completed
  <2> QED
    BY <2>6, <2>7
<1> QED
  BY <1>6, <1>7

LEMMA StartCollectorSerial ==
  ASSUME "concurrent" \notin Disturbances, SerialInv, NEW c \in Collectors, NEW r \in Runs,
         StartCollector(c, r)
  PROVE  CompletedFits' /\ CollectorFits'
<1> DEFINE e == taskPost[r]
<1>1. /\ \A d \in Collectors \ {c} : coll'[d].pc = "idle"
      /\ UNCHANGED files
      /\ e \in Executors
  BY CollectorAlone DEF StartCollector
<1>2. /\ coll'[c].pc = "working" /\ coll'[c].run = r /\ coll'[c].post = e
      /\ coll'[c].todo = posts[e].accepted /\ coll'[c].flight = {}
      /\ coll'[c].done = NoRows
  BY DEF StartCollector, SerialInv, IInv, TypeOK
<1>3. \A t \in Sources : coll'[c].done[t] = None
  BY <1>2 DEF NoRows
<1>4. ASSUME Completed(r)
      PROVE  posts[e].accepted = Found(manifest[r].index.rows)
  BY <1>4 DEF SerialInv, IInv, CompletionInv, CompletedFits, Completed
<1>5. CollectorFits'
  BY <1>1, <1>2, <1>3, <1>4 DEF CollectorFits, Found, Completed, files
<1>6. CompletedFits'
  BY <1>1 DEF SerialInv, CompletedFits, Completed, files
<1> QED
  BY <1>5, <1>6

LEMMA WriteIndexSerial ==
  ASSUME "concurrent" \notin Disturbances, SerialInv, NEW c \in Collectors, WriteIndex(c)
  PROVE  CompletedFits' /\ CollectorFits'
<1> DEFINE r == coll[c].run
           x == IndexOf(c)
<1>0. x \in IndexFile /\ x.post = coll[c].post /\ x.rows = coll[c].done
  BY IndexOfFacts DEF WriteIndex, WorkersDone, SerialInv
<1>1. /\ coll[c] \in Collector /\ coll[c].pc = "working" /\ coll[c].todo = {}
      /\ UNCHANGED <<manifest, taskPost, raw>>
      /\ index' = [index EXCEPT ![r] = x]
  BY DEF WriteIndex, WorkersDone, SerialInv, IInv, TypeOK
<1>2. \A d \in Collectors \ {c} : coll'[d].pc = "idle"
  BY CollectorAlone DEF CollectorStep
<1>3. r \in Runs
  BY <1>1 DEF SerialInv, IInv, CollectorInv
<1>4. index'[r] = x /\ \A s \in Runs \ {r} : index'[s] = index[s]
  BY <1>1, <1>3 DEF SerialInv, IInv, TypeOK
<1>5. coll'[c] = [coll[c] EXCEPT !.pc = "indexed"]
  BY DEF WriteIndex, SerialInv, IInv, TypeOK
<1>6. /\ coll'[c].pc = "indexed" /\ coll'[c].run = r /\ coll'[c].post = coll[c].post
      /\ coll'[c].done = coll[c].done /\ IndexOf(c)' = x
  BY <1>1, <1>5 DEF Collector, IndexOf
<1> HIDE DEF x
<1>7. CollectorFits'
  <2>1. /\ taskPost[r] = coll[c].post
        /\ \A t \in Found(coll[c].done) : raw[r][<<coll[c].post, t>>] = coll[c].done[t]
    BY <1>1 DEF SerialInv, CollectorFits, RawFile
  <2>2. /\ taskPost'[coll'[c].run] = coll'[c].post
        /\ \A t \in Found(coll'[c].done) :
             raw'[coll'[c].run][<<coll'[c].post, t>>] = coll'[c].done[t]
        /\ index'[coll'[c].run] = IndexOf(c)'
    BY <1>1, <1>4, <1>6, <2>1
  <2> QED
    BY <1>2, <1>6, <2>2 DEF CollectorFits, RawFile, Found
<1>8. ASSUME Completed(r) PROVE SameResults(x, manifest[r].index)
  <2>1. /\ manifest[r].index \in IndexFile
        /\ manifest[r].index.post = coll[c].post
        /\ \A t \in Sources : coll[c].done[t] = manifest[r].index.rows[t]
    BY <1>1, <1>8, SecondCollection
  <2>2. manifest[r].index.rows = coll[c].done
    BY <1>1, <2>1 DEF IndexFile, Collector, Rows
  <2>3. x # None
    BY <1>0, SentinelAssumption
  <2> QED
    BY <1>0, <2>1, <2>2, <2>3 DEF SameResults
<1>9. CompletedFits'
  BY <1>1, <1>4, <1>8 DEF SerialInv, CompletedFits, Completed
<1> QED
  BY <1>7, <1>9

LEMMA WriteManifestSerial ==
  ASSUME "concurrent" \notin Disturbances, SerialInv, NEW c \in Collectors, WriteManifest(c)
  PROVE  CompletedFits' /\ CollectorFits'
<1> DEFINE r == coll[c].run
           m == CollectedManifest(c)
<1>1. /\ coll[c] \in Collector /\ coll[c].pc = "indexed" /\ r \in Runs
      /\ manifest' = [manifest EXCEPT ![r] = m]
      /\ UNCHANGED <<taskPost, raw, index>>
  BY DEF WriteManifest, SerialInv, IInv, TypeOK, CollectorInv
<1>2. /\ m.post = coll[c].post /\ m.index = IndexOf(c)
      /\ m.index.rows = coll[c].done /\ m.index # None
  <2>1. IndexOf(c) # None /\ IndexOf(c).rows = coll[c].done
    BY <1>1, IndexOfFacts, SentinelAssumption DEF SerialInv
  <2> QED
    BY <1>1, <2>1 DEF CollectedManifest, Collector, Manifest
<1>3. CollectorFits'
  <2>1. \A d \in Collectors : coll'[d].pc = "idle"
    BY CollectorAlone, IdleCollectorType
    DEF WriteManifest, CollectorStep, SerialInv, IInv, TypeOK
  <2> QED
    BY <2>1 DEF CollectorFits
<1> HIDE DEF m
<1>4. /\ taskPost[r] = m.post
      /\ SameResults(index[r], m.index)
      /\ \A t \in Found(m.index.rows) : raw[r][<<m.post, t>>] = m.index.rows[t]
  BY <1>1, <1>2 DEF SerialInv, CollectorFits, RawFile, SameResults
<1>5. manifest'[r] = m /\ \A s \in Runs \ {r} : manifest'[s] = manifest[s]
  BY <1>1 DEF SerialInv, IInv, TypeOK
<1>6. CompletedFits'
  BY <1>1, <1>4, <1>5 DEF SerialInv, CompletedFits, Completed
<1> QED
  BY <1>3, <1>6

\* A collection that is cut off leaves what belongs to a completed run.
LEMMA EndedCollectorSerial ==
  ASSUME "concurrent" \notin Disturbances, SerialInv, NEW c \in Collectors,
         RequestFails(c) \/ CrashCollector(c)
  PROVE  CompletedFits' /\ CollectorFits'
<1> DEFINE r == coll[c].run
<1>1. CollectorFits'
  <2>1. \A d \in Collectors : coll'[d].pc = "idle"
    BY CollectorAlone, IdleCollectorType DEF RequestFails, CrashCollector, SerialInv, IInv, TypeOK
  <2> QED
    BY <2>1 DEF CollectorFits
<1>2. coll[c].pc # "idle" /\ r \in Runs /\ coll[c].post \in Executors /\ UNCHANGED taskPost
  BY DEF RequestFails, CrashCollector, SerialInv, IInv, CollectorInv, PostedFrom
<1>3. CASE UNCHANGED <<manifest, index>> /\ UNCHANGED raw
  BY <1>1, <1>2, <1>3 DEF SerialInv, CompletedFits, Completed
<1>4. CASE coll[c].pc = "working" /\ CutsOffWrites(c) /\ UNCHANGED <<manifest, index>>
  <2>1. PICK cut \in SUBSET coll[c].flight : raw' = [raw EXCEPT ![r] =
          [a \in AcquisitionTasks |-> IF a \in {coll[c].post} \X cut THEN None ELSE raw[r][a]]]
    BY <1>4 DEF CutsOffWrites
  <2>2. \A s \in Runs \ {r} : raw'[s] = raw[s]
    BY <2>1 DEF SerialInv, IInv, TypeOK
  <2>3. ASSUME Completed(r)
        PROVE  \A e \in Executors, t \in Sources : raw'[r][<<e, t>>] = raw[r][<<e, t>>]
    <3>1. cut = {}
      BY <1>4, <2>1, <2>3, SecondCollection
    <3> QED
      BY <1>2, <2>1, <3>1 DEF SerialInv, IInv, TypeOK, AcquisitionTasks
  <2>4. \A s \in Runs : Completed(s) => manifest[s].post \in Executors
    BY DEF SerialInv, IInv, ChargeInv, ChargedStates, CommittedStates, CompletedStates,
           Completed, PostedFrom
  <2> QED
    BY <1>1, <1>2, <1>4, <2>2, <2>3, <2>4 DEF SerialInv, CompletedFits, Completed, Found
<1>5. CASE index' = [index EXCEPT ![r] = Torn] /\ UNCHANGED <<manifest, raw>>
  BY <1>1, <1>2, <1>5 DEF SerialInv, IInv, TypeOK, CompletedFits, Completed
<1>6. CASE manifest' = [manifest EXCEPT ![r] = Unwritten("torn")] /\ UNCHANGED <<raw, index>>
  <2>1. \A s \in Runs :
          manifest'[s] = manifest[s] \/ manifest'[s].state \notin CompletedStates
    BY <1>6 DEF SerialInv, IInv, TypeOK, Unwritten, CompletedStates
  <2> QED
    BY <1>1, <1>2, <1>6, <2>1 DEF SerialInv, CompletedFits, Completed
<1> QED
  BY <1>3, <1>4, <1>5, <1>6 DEF RequestFails, CrashCollector

LEMMA NextSerial ==
  ASSUME "concurrent" \notin Disturbances
  PROVE  SerialInv /\ [Next]_vars => SerialInv'
<1> SUFFICES ASSUME SerialInv, [Next]_vars PROVE SerialInv'
  OBVIOUS
<1> DEFINE Kept == OneScript' /\ OwnManifest' /\ CompletedFits' /\ CollectorFits'
<1>1. IInv'
  BY NextIInv DEF SerialInv
<1>2. ASSUME NEW e \in Executors,
             (\E r \in Runs : Ask(e, r)) \/ ExecutorStep(e) \/ CrashExecutor(e)
      PROVE  Kept
  BY <1>2, ExecutorSerial
<1>3. ASSUME NEW c \in Collectors,
             \/ \E r \in Runs : StartCollector(c, r)
             \/ CollectorStep(c) \/ RequestFails(c) \/ CrashCollector(c)
      PROVE  Kept
  <2>1. OneScript' /\ OwnManifest'
    BY <1>3, CollectorAlone
  <2>2. CompletedFits' /\ CollectorFits'
    BY <1>3, StartCollectorSerial, WorkerSerial, WriteIndexSerial, WriteManifestSerial,
       EndedCollectorSerial DEF CollectorStep
  <2> QED
    BY <2>1, <2>2
<1>4. ASSUME \/ \E e \in Executors, t \in Sources : ProviderFinishes(e, t)
             \/ DashboardRestart
             \/ UNCHANGED vars
      PROVE  Kept
  <2>1. UNCHANGED <<files, exec, coll>>
    BY <1>4 DEF ProviderFinishes, DashboardRestart, vars
  <2> QED
    BY <2>1 DEF SerialInv, OneScript, OwnManifest, CompletedFits, CollectorFits, Completed,
                RawFile, IndexOf, files
<1> HIDE DEF Kept
<1>5. Kept
  BY <1>2, <1>3, <1>4 DEF Next
<1> QED
  BY <1>1, <1>5 DEF SerialInv, Kept

LEMMA InitSerial == Init => SerialInv
BY InitIInv
DEF Init, SerialInv, OneScript, OwnManifest, CompletedFits, CollectorFits, Completed,
    CompletedStates, Unwritten, IdleCollector

(***************************************************************************)
(* Where scripts run one at a time, a completed run keeps its results:     *)
(* once the scripts have ended, index, manifest and raw files agree on     *)
(* them unless a crash tore the index, also with directories that are used *)
(* again, collections that come too early, failed requests and crashes in  *)
(* between.  If the loader throws on such a run, then because the          *)
(* portfolios of two collections say something else of its tasks.          *)
(***************************************************************************)
THEOREM SerialRunsKeepResults ==
  ASSUME "concurrent" \notin Disturbances
  PROVE  Spec => []QuietRunsKeepResults
<1>1. Init => SerialInv
  BY InitSerial
<1>2. SerialInv /\ [Next]_vars => SerialInv'
  BY NextSerial
<1>3. SerialInv => QuietRunsKeepResults
  <2> SUFFICES ASSUME SerialInv, NEW r \in Runs, Completed(r), index[r] # Torn
               PROVE  /\ ResultsFit(r)
                      /\ (LoaderThrowsOn(r) /\ manifest[r].cost <= ApprovedCap) =>
                           index[r].fields # manifest[r].index.fields
    BY DEF QuietRunsKeepResults, Completed
  <2>1. /\ SameResults(index[r], manifest[r].index)
        /\ manifest[r].index.post = manifest[r].post
        /\ \A t \in Found(manifest[r].index.rows) :
             raw[r][<<manifest[r].post, t>>] = manifest[r].index.rows[t]
    BY DEF SerialInv, CompletedFits, IInv, CompletionInv, Completed
  <2>2. ResultsFit(r)
    BY <2>1 DEF ResultsFit, SameResults
  <2>3. ASSUME index[r].fields = manifest[r].index.fields, manifest[r].cost <= ApprovedCap
        PROVE  ~LoaderThrowsOn(r)
    <3>1. index[r] \in IndexFile /\ manifest[r].index \in IndexFile
      BY <2>1 DEF SerialInv, IInv, TypeOK, CompletionInv, Completed, SameResults
    <3>2. index[r] = manifest[r].index
      BY <2>1, <2>3, <3>1 DEF IndexFile, SameResults
    <3>3. EvidenceChecks(r)
      BY <2>2, <2>3, <3>2 DEF EvidenceChecks, ResultsFit
    <3> QED
      BY <3>3 DEF LoaderThrowsOn, Completed, CompletedStates
  <2> QED
    BY <2>2, <2>3
<1> QED
  BY <1>1, <1>2, <1>3, PTL DEF Spec
=============================================================================
