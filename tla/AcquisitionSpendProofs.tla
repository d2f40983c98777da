------------------------ MODULE AcquisitionSpendProofs ------------------------
(***************************************************************************)
(* Theorems about the money: a charge stays in the ledger where no         *)
(* directory is used twice and results are collected only when they are    *)
(* there, and scripts that then run one at a time spend as SpendLedger     *)
(* promises, which in turn keeps the lifetime cap.                         *)
(***************************************************************************)
EXTENDS AcquisitionProofs, SumProofs

(***************************************************************************)
(* A collector that is started when every accepted task has finished ends  *)
(* with a result of each, whoever else writes to the directory.            *)
(***************************************************************************)
ResultsAreReady ==
  \A e \in Executors : posts[e] # None => {e} \X posts[e].accepted \subseteq ready

CollectsAll ==
  \A c \in Collectors :
    /\ coll[c].pc = "working" =>
         posts[coll[c].post].accepted = coll[c].todo \cup coll[c].flight \cup Found(coll[c].done)
    /\ coll[c].pc = "indexed" =>
         posts[coll[c].post].accepted = Found(coll[c].done)

CollectionInv == IInv /\ ResultsAreReady /\ CollectsAll

(***************************************************************************)
(* Scripts that run one at a time without a crash, asking a dashboard that *)
(* is not restarted between two answers to one of them.  What was audited  *)
(* still holds when the POST is made, and a POST whose executor has ended  *)
(* is in the ledger, unless its reply was lost: a reply that arrived was   *)
(* accepted, and its collection was complete.                              *)
(***************************************************************************)
SameAnswers ==
  \A e \in Executors :
    /\ exec[e].portfolio # None /\ exec[e].set # None => exec[e].portfolio = exec[e].set
    /\ posts[e] # None => exec[e].portfolio = exec[e].set
    /\ HalfAnswered(e) => served \in {exec[e].portfolio, exec[e].set}

RepliesAreGood ==
  \A e \in Executors : exec[e].pc \in {"posted", "saved"} => ReplyAccepted(posts[e])

Recorded ==
  \A e \in Executors :
    exec[e].pc = "ended" /\ posts[e] # None /\ ~posts[e].lost =>
      manifest[exec[e].run].state \in CommittedStates

\* What the guards of SpendLedger's Pay say of an executor and its charge.
Covered(e) ==
  /\ \A f \in Executors : posts[f] # None /\ ~posts[f].lost => posts[f].set # exec[e].portfolio
  /\ Money!KnownSpent + PlanMax[exec[e].portfolio] <= LifetimeCap

AuditHolds == \A e \in Executors : exec[e].pc \in {"audited", "validated"} => Covered(e)

SpendInv ==
  /\ NamesInv /\ SerialInv /\ CollectionInv
  /\ SameAnswers /\ RepliesAreGood /\ Recorded /\ AuditHolds
-----------------------------------------------------------------------------
(* Complete collections                                                    *)

\* What a POST that is already made leaves of the provider's answers.
LEMMA PostsAreKept ==
  ASSUME IInv, Next, NEW e \in Executors, posts[e] # None
  PROVE  posts'[e] = posts[e]
<1>1. ASSUME NEW f \in Executors, SubmitTasks(f) \/ LoseReply(f) PROVE posts'[e] = posts[e]
  <2>1. posts[f] = None /\ \E lost \in BOOLEAN : ProviderCharges(f, lost)
    BY <1>1 DEF SubmitTasks, LoseReply, IInv, ExecutorInv
  <2> QED
    BY <2>1 DEF ProviderCharges, IInv, TypeOK
<1>2. ASSUME NEW f \in Executors,
             \/ \E s \in Runs : Ask(f, s)
             \/ AnswerPortfolio(f) \/ AnswerApproval(f)
             \/ AuditBudget(f) \/ Validate(f) \/ SubmitFails(f) \/ SavePost(f)
             \/ RecordSubmission(f) \/ RefuseReply(f) \/ CrashExecutor(f)
      PROVE  UNCHANGED posts
  BY <1>2 DEF Ask, AnswerPortfolio, AnswerApproval, AuditBudget, Validate, SubmitFails, SavePost,
              RecordSubmission, RefuseReply, CrashExecutor, provider
<1>3. ASSUME NEW c \in Collectors,
             \/ \E s \in Runs : StartCollector(c, s)
             \/ CollectorStep(c) \/ RequestFails(c) \/ CrashCollector(c)
      PROVE  UNCHANGED posts
  BY <1>3 DEF StartCollector, CollectorStep, ReuseRaw, RequestResult, SaveResult, ResultPending,
              WriteIndex, WriteManifest, RequestFails, CrashCollector, provider
<1>4. ASSUME \/ \E f \in Executors, t \in Sources : ProviderFinishes(f, t)
             \/ DashboardRestart
      PROVE  UNCHANGED posts
  BY <1>4 DEF ProviderFinishes, DashboardRestart, provider
<1> QED
  BY <1>1, <1>2, <1>3, <1>4 DEF Next, ExecutorStep

\* An executor leaves the collectors and what they may fetch as they are.
LEMMA ExecutorCollection ==
  ASSUME CollectionInv, "pending" \notin Disturbances, NEW e \in Executors,
         (\E r \in Runs : Ask(e, r)) \/ ExecutorStep(e) \/ CrashExecutor(e)
  PROVE  ResultsAreReady' /\ CollectsAll'
<1>1. coll' = coll
  BY DEF Ask, ExecutorStep, AnswerPortfolio, AnswerApproval, AuditBudget, Validate, SubmitTasks,
         SubmitFails, LoseReply, SavePost, RecordSubmission, RefuseReply, CrashExecutor
<1>2. \A f \in Executors : posts[f] # None => posts'[f] = posts[f]
  <2>1. Next
    BY DEF Next
  <2> QED
    BY <2>1, PostsAreKept DEF CollectionInv
<1>3. CollectsAll'
  <2>1. \A c \in Collectors : coll[c].pc \in {"working", "indexed"} =>
          coll[c].post \in Executors /\ posts[coll[c].post] # None
    BY DEF CollectionInv, IInv, CollectorInv, PostedFrom
  <2> QED
    BY <1>1, <1>2, <2>1 DEF CollectionInv, CollectsAll
<1>4. CASE SubmitTasks(e) \/ LoseReply(e)
  <2>0. PICK lost \in BOOLEAN : ProviderCharges(e, lost)
    BY <1>4 DEF SubmitTasks, LoseReply
  <2>1. PICK p \in Replies(e, lost) : posts' = [posts EXCEPT ![e] = p]
                                        /\ ready' = ready \cup ({e} \X p.accepted)
    BY <2>0 DEF ProviderCharges
  <2>2. \A f \in Executors : posts'[f] = IF f = e THEN p ELSE posts[f]
    BY <2>1 DEF CollectionInv, IInv, TypeOK
  <2>3. ResultsAreReady'
    BY <2>1, <2>2 DEF CollectionInv, ResultsAreReady
  <2> QED
    BY <1>3, <2>3
<1>5. CASE ~SubmitTasks(e) /\ ~LoseReply(e)
  <2>1. UNCHANGED provider
    BY <1>5 DEF Ask, ExecutorStep, AnswerPortfolio, AnswerApproval, AuditBudget, Validate,
                SubmitFails, SavePost, RecordSubmission, RefuseReply, CrashExecutor
  <2> QED
    BY <1>3, <2>1 DEF CollectionInv, ResultsAreReady, provider
<1> QED
  BY <1>4, <1>5

LEMMA WorkerCollection ==
  ASSUME CollectionInv, NEW c \in Collectors, NEW t \in Sources,
         \/ ReuseRaw(c, t) \/ RequestResult(c, t) \/ SaveResult(c, t) \/ ResultPending(c, t)
  PROVE  /\ coll'[c].pc = "working" /\ coll'[c].post = coll[c].post
         /\ posts[coll[c].post].accepted
              = coll'[c].todo \cup coll'[c].flight \cup Found(coll'[c].done)
<1> DEFINE old == coll[c]
           new == coll'[c]
           all == posts[old.post].accepted
<1>1. /\ old \in Collector /\ coll \in [Collectors -> Collector] /\ old.pc = "working"
      /\ old.done \in [Sources -> Bodies \cup {None}]
  BY DEF ReuseRaw, RequestResult, SaveResult, ResultPending, TakesTask, CollectionInv, IInv,
         TypeOK, Collector, Rows
<1>2. all = old.todo \cup old.flight \cup Found(old.done)
  BY <1>1 DEF CollectionInv, CollectsAll
<1>3. CASE RequestResult(c, t)
  <2>1. /\ new.pc = "working" /\ new.post = old.post /\ new.done = old.done
        /\ new.todo = old.todo \ {t} /\ new.flight = old.flight \cup {t} /\ t \in old.todo
    BY <1>1, <1>3 DEF RequestResult, TakesTask, Collector
  <2> QED
    BY <1>2, <2>1
<1>4. CASE ReuseRaw(c, t)
  <2>1. /\ new.pc = "working" /\ new.post = old.post /\ new.flight = old.flight
        /\ new.done = [old.done EXCEPT ![t] = RawFile(c, t)]
        /\ new.todo = old.todo \ {t} /\ t \in old.todo /\ RawFile(c, t) # None
    BY <1>1, <1>4 DEF ReuseRaw, TakesTask, Collector
  <2>2. Found(new.done) = Found(old.done) \cup {t}
    BY <1>1, <2>1 DEF Found
  <2> QED
    BY <1>2, <2>1, <2>2
<1>5. CASE SaveResult(c, t)
  <2>1. PICK b \in Bodies :
          coll' = [coll EXCEPT ![c].flight = @ \ {t}, ![c].done[t] = b]
    BY <1>5 DEF SaveResult
  <2>2. /\ new.pc = "working" /\ new.post = old.post /\ new.todo = old.todo
        /\ new.done = [old.done EXCEPT ![t] = b]
        /\ new.flight = old.flight \ {t} /\ t \in old.flight
    BY <1>1, <1>5, <2>1 DEF SaveResult, Collector
  <2>3. b # None
    BY SentinelAssumption
  <2>4. Found(new.done) = Found(old.done) \cup {t}
    BY <1>1, <2>2, <2>3 DEF Found
  <2> QED
    BY <1>2, <2>2, <2>4
<1>6. ~ResultPending(c, t)
  <2> SUFFICES ASSUME ResultPending(c, t) PROVE FALSE
    OBVIOUS
  <2>1. t \in all /\ <<old.post, t>> \notin ready
    BY <1>2 DEF ResultPending
  <2>2. old.post \in Executors /\ posts[old.post] # None
    BY <1>1 DEF CollectionInv, IInv, CollectorInv, PostedFrom
  <2> QED
    BY <2>1, <2>2 DEF CollectionInv, ResultsAreReady
<1> QED
  BY <1>3, <1>4, <1>5, <1>6

LEMMA CollectorCollection ==
  ASSUME CollectionInv, NEW c \in Collectors,
         \/ \E r \in Runs : StartCollector(c, r)
         \/ CollectorStep(c) \/ RequestFails(c) \/ CrashCollector(c)
  PROVE  ResultsAreReady' /\ CollectsAll'
<1> DEFINE Fits(s) ==
             /\ s.pc = "working" =>
                  posts[s.post].accepted = s.todo \cup s.flight \cup Found(s.done)
             /\ s.pc = "indexed" => posts[s.post].accepted = Found(s.done)
<1>1. /\ UNCHANGED provider
      /\ \A d \in Collectors \ {c} : coll'[d] = coll[d]
  BY DEF StartCollector, CollectorStep, ReuseRaw, RequestResult, SaveResult, ResultPending,
         WriteIndex, WriteManifest, RequestFails, CrashCollector, CollectionInv, IInv, TypeOK
<1>2. ResultsAreReady'
  BY <1>1 DEF CollectionInv, ResultsAreReady, provider
<1>3. coll \in [Collectors -> Collector]
  BY DEF CollectionInv, IInv, TypeOK
<1>4. ASSUME NEW r \in Runs, StartCollector(c, r) PROVE Fits(coll'[c])
  <2>1. /\ coll'[c].pc = "working" /\ coll'[c].todo = posts[coll'[c].post].accepted
        /\ coll'[c].flight = {} /\ coll'[c].done = NoRows
    BY <1>3, <1>4 DEF StartCollector
  <2>2. Found(NoRows) = {}
    BY DEF Found, NoRows
  <2> QED
    BY <2>1, <2>2
<1>5. ASSUME NEW t \in Sources,
             ReuseRaw(c, t) \/ RequestResult(c, t) \/ SaveResult(c, t) \/ ResultPending(c, t)
      PROVE  Fits(coll'[c])
  BY <1>5, WorkerCollection
<1>6. ASSUME WriteIndex(c) PROVE Fits(coll'[c])
  <2>1. /\ coll'[c].pc = "indexed" /\ coll'[c].post = coll[c].post
        /\ coll'[c].done = coll[c].done
        /\ coll[c].todo = {} /\ coll[c].flight = {} /\ coll[c].pc = "working"
    BY <1>3, <1>6 DEF WriteIndex, WorkersDone, Collector
  <2> QED
    BY <2>1 DEF CollectionInv, CollectsAll
<1>7. ASSUME WriteManifest(c) \/ RequestFails(c) \/ CrashCollector(c) PROVE Fits(coll'[c])
  BY <1>3, <1>7, IdleCollectorType DEF WriteManifest, RequestFails, CrashCollector
<1>8. Fits(coll'[c])
  BY <1>4, <1>5, <1>6, <1>7 DEF CollectorStep
<1>9. CollectsAll'
  BY <1>1, <1>8 DEF CollectionInv, CollectsAll, provider
<1> QED
  BY <1>2, <1>9

LEMMA NextCollection ==
  ASSUME "pending" \notin Disturbances
  PROVE  CollectionInv /\ [Next]_vars => CollectionInv'
<1> SUFFICES ASSUME CollectionInv, [Next]_vars PROVE CollectionInv'
  OBVIOUS
<1>1. IInv'
  BY NextIInv DEF CollectionInv
<1>2. ASSUME NEW e \in Executors, NEW t \in Sources, ProviderFinishes(e, t)
      PROVE  ResultsAreReady' /\ CollectsAll'
  BY <1>2 DEF ProviderFinishes, CollectionInv, ResultsAreReady, CollectsAll
<1>3. ASSUME DashboardRestart \/ UNCHANGED vars PROVE ResultsAreReady' /\ CollectsAll'
  BY <1>3 DEF DashboardRestart, vars, provider, CollectionInv, ResultsAreReady, CollectsAll
<1> QED
  BY <1>1, <1>2, <1>3, ExecutorCollection, CollectorCollection DEF Next, CollectionInv

LEMMA InitCollection == Init => CollectionInv
BY InitIInv DEF Init, CollectionInv, ResultsAreReady, CollectsAll, IdleCollector
-----------------------------------------------------------------------------
(* The ledger keeps its charges                                            *)

\* Who writes the manifest of a directory.
LEMMA ManifestWriters ==
  ASSUME IInv, Next, NEW r \in Runs
  PROVE  \/ manifest'[r] = manifest[r]
         \/ /\ manifest'[r].state = "torn"
            /\ \/ \E e \in Executors : exec[e].run = r /\ CrashExecutor(e)
               \/ \E c \in Collectors : coll[c].run = r /\ CrashCollector(c)
         \/ \E e \in Executors : exec[e].run = r /\ (Validate(e) \/ RecordSubmission(e))
         \/ \E c \in Collectors : coll[c].run = r /\ WriteManifest(c)
<1> DEFINE Goal == \/ manifest'[r] = manifest[r]
                   \/ /\ manifest'[r].state = "torn"
                      /\ \/ \E e \in Executors : exec[e].run = r /\ CrashExecutor(e)
                         \/ \E c \in Collectors : coll[c].run = r /\ CrashCollector(c)
                   \/ \E e \in Executors : exec[e].run = r /\ (Validate(e) \/ RecordSubmission(e))
                   \/ \E c \in Collectors : coll[c].run = r /\ WriteManifest(c)
<1>1. manifest \in [Runs -> Manifest]
  BY DEF IInv, TypeOK
<1>2. ASSUME NEW e \in Executors,
             (\E s \in Runs : Ask(e, s)) \/ ExecutorStep(e) \/ CrashExecutor(e)
      PROVE  Goal
  <2>1. CASE Validate(e) \/ RecordSubmission(e)
    BY <1>1, <2>1 DEF Validate, RecordSubmission
  <2>2. CASE CrashExecutor(e)
    BY <1>1, <2>2 DEF CrashExecutor, Unwritten
  <2>3. CASE \/ \E s \in Runs : Ask(e, s)
             \/ AnswerPortfolio(e) \/ AnswerApproval(e) \/ AuditBudget(e)
             \/ SubmitTasks(e) \/ SubmitFails(e) \/ LoseReply(e) \/ SavePost(e) \/ RefuseReply(e)
    BY <2>3 DEF Ask, AnswerPortfolio, AnswerApproval, AuditBudget, SubmitTasks, SubmitFails,
                LoseReply, SavePost, RefuseReply, files
  <2> HIDE DEF Goal
  <2> QED
    BY <1>2, <2>1, <2>2, <2>3 DEF ExecutorStep
<1>3. ASSUME NEW c \in Collectors,
             \/ \E s \in Runs : StartCollector(c, s)
             \/ CollectorStep(c) \/ RequestFails(c) \/ CrashCollector(c)
      PROVE  Goal
  <2>1. CASE WriteManifest(c)
    BY <1>1, <2>1 DEF WriteManifest
  <2>2. CASE CrashCollector(c)
    <3>1. CASE manifest' = manifest
      BY <3>1
    <3>2. CASE manifest' = [manifest EXCEPT ![coll[c].run] = Unwritten("torn")]
      BY <1>1, <2>2, <3>2 DEF Unwritten
    <3> HIDE DEF Goal
    <3> QED
      BY <2>2, <3>1, <3>2 DEF CrashCollector
  <2>3. CASE \/ \E s \in Runs : StartCollector(c, s)
             \/ \E t \in Sources :
                  ReuseRaw(c, t) \/ RequestResult(c, t) \/ SaveResult(c, t) \/ ResultPending(c, t)
             \/ WriteIndex(c) \/ RequestFails(c)
    BY <2>3 DEF StartCollector, ReuseRaw, RequestResult, SaveResult, ResultPending, WriteIndex,
                RequestFails, files
  <2> HIDE DEF Goal
  <2> QED
    BY <1>3, <2>1, <2>2, <2>3 DEF CollectorStep
<1>4. ASSUME \/ \E e \in Executors, t \in Sources : ProviderFinishes(e, t)
             \/ DashboardRestart
      PROVE  Goal
  BY <1>4 DEF ProviderFinishes, DashboardRestart, files
<1> HIDE DEF Goal
<1>5. Goal
  BY <1>2, <1>3, <1>4 DEF Next
<1> QED
  BY <1>5 DEF Goal

\* A directory that is used once has one POST.
LEMMA OnePost ==
  ASSUME NamesInv, NEW r \in Runs, NEW e \in PostsOf(r), NEW f \in PostsOf(r)
  PROVE  e = f /\ exec[e].run = r
BY DEF NamesInv, OwnDirectories, PostsAreTheirs, PostsOf

LEMMA PostedFromPosts == ASSUME NEW r, NEW e, PostedFrom(e, r) PROVE e \in PostsOf(r)
BY DEF PostedFrom, PostsOf

\* A complete collection writes a state the audit counts, at what the POST cost.
LEMMA CompleteManifest ==
  ASSUME CollectionInv, NEW c \in Collectors, WriteManifest(c)
  PROVE  /\ PostedFrom(coll[c].post, coll[c].run)
         /\ manifest'[coll[c].run].state \in CommittedStates
         /\ manifest'[coll[c].run].cost = posts[coll[c].post].cost
<1> DEFINE e == coll[c].post
           m == CollectedManifest(c)
<1>1. /\ coll[c].pc = "indexed" /\ coll[c].run \in Runs /\ coll[c] \in Collector
      /\ PostedFrom(e, coll[c].run)
  BY DEF WriteManifest, CollectionInv, IInv, CollectorInv, TypeOK
<1>2. Found(coll[c].done) = posts[e].accepted
  BY <1>1 DEF CollectionInv, CollectsAll
<1>3. CollectedState(posts[e], coll[c].done) \in CommittedStates
  BY <1>2 DEF CollectedState, CommittedStates
<1>4. m.state = CollectedState(posts[e], coll[c].done) /\ m.cost = posts[e].cost
  BY <1>1 DEF CollectedManifest, Collector, Manifest
<1>5. manifest'[coll[c].run] = m
  BY <1>1 DEF WriteManifest, CollectionInv, IInv, TypeOK
<1> QED
  BY <1>1, <1>3, <1>4, <1>5

LEMMA ChargeStays ==
  ASSUME NamesInv, CollectionInv, [Next]_vars, NEW r \in Runs,
         manifest[r].state \in CommittedStates
  PROVE  \/ manifest'[r].state = "torn" /\ "crash" \in Disturbances
         \/ /\ manifest'[r].state \in CommittedStates
            /\ manifest'[r].cost = manifest[r].cost
<1> DEFINE p == manifest[r].post
<1>1. PostedFrom(p, r) /\ manifest[r].cost = posts[p].cost
  BY DEF NamesInv, IInv, ChargeInv, ChargedStates
<1>2. manifest \in [Runs -> Manifest]
  BY DEF NamesInv, IInv, TypeOK
<1>3. ASSUME NEW e \in Executors, exec[e].run = r, Validate(e) PROVE FALSE
  <2>1. e = p
    BY <1>1, <1>3 DEF NamesInv, OwnDirectories, PostsAreTheirs, PostedFrom
  <2>2. posts[e] = None
    BY <1>3 DEF Validate, NamesInv, IInv, ExecutorInv
  <2> QED
    BY <1>1, <2>1, <2>2 DEF PostedFrom
<1>4. ASSUME NEW e \in Executors, exec[e].run = r, RecordSubmission(e)
      PROVE  manifest'[r].state \in CommittedStates /\ manifest'[r].cost = manifest[r].cost
  <2>1. PostedFrom(e, r)
    BY <1>4 DEF RecordSubmission, NamesInv, IInv, ExecutorInv
  <2>2. e = p
    BY <1>1, <2>1, OnePost, PostedFromPosts
  <2>3. manifest'[r] = SubmittedManifest(e)
    BY <1>2, <1>4 DEF RecordSubmission
  <2> QED
    BY <1>1, <2>2, <2>3 DEF SubmittedManifest, SubmittedState, CommittedStates
<1>5. ASSUME NEW c \in Collectors, coll[c].run = r, WriteManifest(c)
      PROVE  manifest'[r].state \in CommittedStates /\ manifest'[r].cost = manifest[r].cost
  <2>1. /\ PostedFrom(coll[c].post, r) /\ manifest'[r].state \in CommittedStates
        /\ manifest'[r].cost = posts[coll[c].post].cost
    BY <1>5, CompleteManifest
  <2>2. coll[c].post = p
    BY <1>1, <2>1, OnePost, PostedFromPosts
  <2> QED
    BY <1>1, <2>1, <2>2
<1>6. CASE UNCHANGED vars
  BY <1>6 DEF vars, files
<1>7. CASE Next
  BY <1>3, <1>4, <1>5, <1>7, ManifestWriters DEF NamesInv, CrashExecutor, CrashCollector
<1> QED
  BY <1>6, <1>7

(***************************************************************************)
(* A directory of its own is empty until its executor has been admitted,   *)
(* so that a torn manifest is never replaced by one that counts for        *)
(* nothing.                                                                *)
(***************************************************************************)
EmptyAtFirst ==
  \A e \in Executors :
    exec[e].pc \in {"asking", "audited"} => manifest[exec[e].run].state = "absent"

LEMMA NextEmptyAtFirst ==
  ASSUME "reuse" \notin Disturbances, NamesInv, EmptyAtFirst, [Next]_vars
  PROVE  EmptyAtFirst'
<1>1. CASE UNCHANGED vars
  BY <1>1 DEF EmptyAtFirst, vars, files
<1>2. CASE Next
  <2> SUFFICES ASSUME NEW e \in Executors, exec'[e].pc \in {"asking", "audited"}
               PROVE  manifest'[exec'[e].run].state = "absent"
    BY DEF EmptyAtFirst
  <2>1. IInv /\ IInv' /\ exec \in [Executors -> Executor]
    BY NextIInv DEF NamesInv, IInv, TypeOK
  <2>2. ASSUME NEW r \in Runs, Ask(e, r) PROVE manifest'[exec'[e].run].state = "absent"
    BY <2>1, <2>2 DEF Ask, Fresh, files
  <2>3. CASE ~(\E r \in Runs : Ask(e, r))
    <3>1. exec[e].pc \in {"asking", "audited"} /\ exec'[e].run = exec[e].run
      BY <1>2, <2>1, <2>3, ExecutorMoves
    <3>2. PICK r \in Runs : r = exec[e].run
      BY <2>1, <3>1 DEF IInv, ExecutorInv
    <3>3. posts[e] = None /\ manifest[r].state = "absent"
      BY <2>1, <3>1, <3>2 DEF IInv, ExecutorInv, EmptyAtFirst
    <3>4. ASSUME NEW f \in Executors, exec[f].run = r,
                 Validate(f) \/ RecordSubmission(f) \/ CrashExecutor(f)
          PROVE  FALSE
      <4>1. f = e
        BY <3>2, <3>4 DEF NamesInv, OwnDirectories
      <4>2. exec'[f].pc \in {"validated", "ended"}
        BY <2>1, <3>4 DEF Validate, RecordSubmission, CrashExecutor, Goes, Executor
      <4> QED
        BY <4>1, <4>2
    <3>5. ASSUME NEW c \in Collectors, coll[c].run = r, WriteManifest(c) \/ CrashCollector(c)
          PROVE  FALSE
      <4>1. PostedFrom(coll[c].post, r)
        BY <2>1, <3>5 DEF WriteManifest, CrashCollector, IInv, CollectorInv
      <4>2. coll[c].post = e
        BY <3>2, <4>1 DEF NamesInv, PostsAreTheirs, OwnDirectories, PostedFrom
      <4> QED
        BY <3>3, <4>1, <4>2 DEF PostedFrom
    <3> QED
      BY <1>2, <2>1, <3>1, <3>2, <3>3, <3>4, <3>5, ManifestWriters
  <2> QED
    BY <2>2, <2>3
<1> QED
  BY <1>1, <1>2

LEMMA TornStays ==
  ASSUME NamesInv, CollectionInv, EmptyAtFirst, [Next]_vars, NEW r \in Runs,
         manifest[r].state = "torn"
  PROVE  manifest'[r].state \in CommittedStates \cup {"torn"}
<1>1. manifest \in [Runs -> Manifest]
  BY DEF NamesInv, IInv, TypeOK
<1>2. ASSUME NEW e \in Executors, exec[e].run = r, Validate(e) PROVE FALSE
  BY <1>2 DEF Validate, EmptyAtFirst
<1>3. ASSUME NEW e \in Executors, exec[e].run = r, RecordSubmission(e)
      PROVE  manifest'[r].state \in CommittedStates
  <2>1. manifest'[r] = SubmittedManifest(e)
    BY <1>1, <1>3 DEF RecordSubmission
  <2> QED
    BY <2>1 DEF SubmittedManifest, SubmittedState, CommittedStates
<1>4. ASSUME NEW c \in Collectors, coll[c].run = r, WriteManifest(c)
      PROVE  manifest'[r].state \in CommittedStates
  BY <1>4, CompleteManifest
<1>5. CASE UNCHANGED vars
  BY <1>5 DEF vars, files
<1>6. CASE Next
  BY <1>2, <1>3, <1>4, <1>6, ManifestWriters DEF NamesInv
<1> QED
  BY <1>5, <1>6

(***************************************************************************)
(* A run that is counted, or whose torn manifest stops every audit, is     *)
(* never again one the audit passes over, and what it counts stays the     *)
(* same, where no directory is used twice and results are collected only   *)
(* when they are there: for any number of concurrent scripts, crashes and  *)
(* failed requests, and whatever the provider answers or charges.          *)
(***************************************************************************)
THEOREM ChargesStay ==
  ASSUME "reuse" \notin Disturbances, "pending" \notin Disturbances
  PROVE  Spec => ChargesStayInLedger
<1> DEFINE Inv == NamesInv /\ CollectionInv /\ EmptyAtFirst
<1>1. Init => Inv
  BY InitNames, InitCollection DEF Init, EmptyAtFirst
<1>2. Inv /\ [Next]_vars => Inv'
  BY NextNames, NextCollection, NextEmptyAtFirst
<1>3. Inv /\ [Next]_vars =>
        [\A r \in Runs :
           /\ manifest[r].state \in CommittedStates \cup {"torn"} =>
                manifest'[r].state \in CommittedStates \cup {"torn"}
           /\ (manifest[r].state \in CommittedStates /\ manifest'[r].state \in CommittedStates) =>
                manifest'[r].cost = manifest[r].cost]_vars
  <2> SUFFICES ASSUME Inv, [Next]_vars, NEW r \in Runs
               PROVE  /\ manifest[r].state \in CommittedStates \cup {"torn"} =>
                           manifest'[r].state \in CommittedStates \cup {"torn"}
                      /\ (manifest[r].state \in CommittedStates
                            /\ manifest'[r].state \in CommittedStates) =>
                           manifest'[r].cost = manifest[r].cost
    OBVIOUS
  <2>1. "torn" \notin CommittedStates
    BY DEF CommittedStates
  <2> QED
    BY <2>1, ChargeStays, TornStays
<1> QED
  BY <1>1, <1>2, <1>3, PTL DEF Spec, ChargesStayInLedger
-----------------------------------------------------------------------------
(* Spending as promised                                                    *)

\* The charges of all POSTs, and of those whose reply has arrived.
LostRuns == {r \in Runs : PostsOf(r) # {} /\ ThePost(r).lost}
PaidCost == [r \in Runs |-> IF PostsOf(r) = {} THEN 0 ELSE ThePost(r).cost]
KnownCost == [r \in Runs |-> IF r \in LostRuns THEN 0 ELSE PaidCost[r]]

\* The ledger of the instance adds up as the audit does.
LEMMA SameSum == \A f : Money!SumFunction(f) = SumFunction(f)
BY DEF Money!SumFunction, Money!SumFunctionOnSet, Money!FoldFunctionOnSet, Money!MapThenFoldSet,
       SumFunction, SumFunctionOnSet, FoldFunctionOnSet, MapThenFoldSet

LEMMA KnownSpentIs == Money!KnownSpent = LegacyCommitted + SumFunction(KnownCost)
BY SameSum DEF Money!KnownSpent, KnownCost, LostRuns, PaidCost

\* What was paid depends on the provider's side alone.
LEMMA SpentIsKept ==
  ASSUME UNCHANGED posts
  PROVE  Money!KnownSpent' = Money!KnownSpent /\ UNCHANGED Money!ledgerVars
BY DEF Money!KnownSpent, Money!ledgerVars, PostsOf, ThePost

\* The POST of a run is the one any of its executors made.
LEMMA ThePostIs ==
  ASSUME NamesInv, NEW r \in Runs, NEW e \in PostsOf(r)
  PROVE  ThePost(r) = posts[e]
<1>1. \A f \in PostsOf(r) : f = e
  BY OnePost
<1> QED
  BY <1>1 DEF ThePost

\* An executor that asks has no POST of its own, and the ledger holds every
\* charge of the others whose reply has arrived.
LEMMA LedgerIsComplete ==
  ASSUME SpendInv, NEW e \in Executors, exec[e].pc = "asking", NEW r \in Runs
  PROVE  /\ r \in CommittedRuns(manifest, exec[e].run) <=> PostsOf(r) # {} /\ r \notin LostRuns
         /\ PostsOf(r) # {} /\ r \notin LostRuns =>
              manifest[r].cost = ThePost(r).cost /\ manifest[r].set = ThePost(r).set
<1>1. \A f \in Executors \ {e} : exec[f].pc \in {"idle", "ended"}
  BY DEF SpendInv, SerialInv, OneScript
<1>2. \A f \in PostsOf(r) : f \in Executors /\ posts[f] # None /\ posts[f].run = r
                             /\ exec[f].run = r /\ exec[f].set = posts[f].set
  BY DEF PostsOf, SpendInv, NamesInv, PostsAreTheirs, SameAnswers
<1>3. posts[e] = None
  BY DEF SpendInv, NamesInv, IInv, ExecutorInv
<1>4. ASSUME NEW f \in PostsOf(r), ~posts[f].lost
      PROVE  /\ exec[e].run # r
             /\ manifest[r].state \in CommittedStates
             /\ manifest[r].cost = posts[f].cost /\ manifest[r].set = posts[f].set
  <2>1. f # e /\ f \in Executors /\ posts[f] # None
    BY <1>2, <1>3
  <2>2. exec[f].pc = "ended"
    BY <1>1, <2>1 DEF SpendInv, NamesInv, IInv, ExecutorInv
  <2>3. manifest[r].state \in CommittedStates
    BY <1>2, <1>4, <2>1, <2>2 DEF SpendInv, Recorded
  <2>4. exec[e].run # r
    BY <1>2, <2>1 DEF SpendInv, NamesInv, OwnDirectories
  <2>5. /\ manifest[r].post \in PostsOf(r)
        /\ manifest[r].cost = posts[manifest[r].post].cost
    BY <2>3, PostedFromPosts DEF SpendInv, NamesInv, IInv, ChargeInv, ChargedStates
  <2>6. manifest[r].post = f
    BY <2>5, OnePost DEF SpendInv
  <2>7. PICK g \in Executors : exec[g].run = r /\ exec[g].set = manifest[r].set
    BY <2>3 DEF SpendInv, NamesInv, ManifestsAreNamed, Named, CommittedStates
  <2>8. g = f
    BY <1>2, <2>1, <2>7 DEF SpendInv, NamesInv, OwnDirectories
  <2> QED
    BY <1>2, <2>3, <2>4, <2>5, <2>6, <2>7, <2>8
<1>5. ASSUME manifest[r].state \in CommittedStates
      PROVE  PostsOf(r) # {} /\ r \notin LostRuns
  <2>1. PostedFrom(manifest[r].post, r)
    BY <1>5 DEF SpendInv, NamesInv, IInv, ChargeInv, ChargedStates
  <2>2. manifest[r].post \in PostsOf(r) /\ ~posts[manifest[r].post].lost
    BY <2>1, PostedFromPosts DEF PostedFrom
  <2>3. ThePost(r) = posts[manifest[r].post]
    BY <2>2, ThePostIs DEF SpendInv
  <2> QED
    BY <2>2, <2>3 DEF LostRuns
<1>6. ASSUME PostsOf(r) # {}, r \notin LostRuns
      PROVE  \E f \in PostsOf(r) : ThePost(r) = posts[f] /\ ~posts[f].lost
  <2>1. PICK f \in PostsOf(r) : TRUE
    BY <1>6
  <2>2. ThePost(r) = posts[f]
    BY ThePostIs DEF SpendInv
  <2> QED
    BY <1>6, <2>2 DEF LostRuns
<1> QED
  BY <1>4, <1>5, <1>6 DEF CommittedRuns

\* The audit computes what is known to be spent.
LEMMA AuditSeesEverything ==
  ASSUME SpendInv, NEW e \in Executors, exec[e].pc = "asking",
         exec[e].portfolio # None, exec[e].set # None,
         AuditAdmits(manifest, exec[e].run, exec[e].set, PlanMax[exec[e].portfolio])
  PROVE  Covered(e)
<1> DEFINE own == exec[e].run
           counted == [r \in Runs |-> IF r \in CommittedRuns(manifest, own)
                                        THEN manifest[r].cost ELSE 0]
<1>1. counted = KnownCost
  BY LedgerIsComplete DEF KnownCost, PaidCost, LostRuns
<1>2. CommittedCost(manifest, own) = Money!KnownSpent
  BY <1>1, KnownSpentIs DEF CommittedCost
<1>3. Money!KnownSpent + PlanMax[exec[e].portfolio] <= LifetimeCap
  BY <1>2 DEF AuditAdmits, WithinLifetimeCap
<1>4. ASSUME NEW f \in Executors, posts[f] # None, ~posts[f].lost
      PROVE  posts[f].set # exec[e].portfolio
  <2> DEFINE r == posts[f].run
  <2>1. r \in Runs /\ f \in PostsOf(r)
    BY <1>4 DEF SpendInv, NamesInv, IInv, TypeOK, Post, PostsOf
  <2>2. ThePost(r) = posts[f]
    BY <2>1, ThePostIs DEF SpendInv
  <2>3. PostsOf(r) # {} /\ r \notin LostRuns
    BY <1>4, <2>1, <2>2 DEF LostRuns
  <2>4. r \in CommittedRuns(manifest, own) /\ manifest[r].set = posts[f].set
    BY <2>1, <2>2, <2>3, LedgerIsComplete
  <2>5. exec[e].set = exec[e].portfolio
    BY DEF SpendInv, SameAnswers
  <2> QED
    BY <2>4, <2>5 DEF AuditAdmits, DuplicateCandidateSet
<1> QED
  BY <1>3, <1>4 DEF Covered

\* Steps of the others leave the executors and what was paid as they are.
LEMMA OthersSpendNothing ==
  ASSUME \/ \E c \in Collectors :
              \/ \E r \in Runs : StartCollector(c, r)
              \/ CollectorStep(c) \/ RequestFails(c) \/ CrashCollector(c)
         \/ \E e \in Executors, t \in Sources : ProviderFinishes(e, t)
         \/ DashboardRestart
         \/ UNCHANGED vars
  PROVE  UNCHANGED <<exec, posts>> /\ (served' = served \/ DashboardRestart)
<1>1. ASSUME NEW c \in Collectors,
             \/ \E r \in Runs : StartCollector(c, r)
             \/ CollectorStep(c) \/ RequestFails(c) \/ CrashCollector(c)
      PROVE  UNCHANGED <<exec, posts, served>>
  BY <1>1 DEF StartCollector, CollectorStep, ReuseRaw, RequestResult, SaveResult, ResultPending,
              WriteIndex, WriteManifest, RequestFails, CrashCollector, provider
<1>2. ASSUME NEW e \in Executors, NEW t \in Sources, ProviderFinishes(e, t)
      PROVE  UNCHANGED <<exec, posts, served>>
  BY <1>2 DEF ProviderFinishes
<1>3. ASSUME DashboardRestart PROVE UNCHANGED <<exec, posts>>
  BY <1>3 DEF DashboardRestart, provider
<1>4. ASSUME UNCHANGED vars PROVE UNCHANGED <<exec, posts, served>>
  BY <1>4 DEF vars, provider
<1> QED
  BY <1>1, <1>2, <1>3, <1>4

\* No dashboard restart comes between two answers, so they are of one portfolio.
LEMMA ExecutorAnswers ==
  ASSUME Disturbances \subseteq {"http", "lostReply"}, SpendInv, NEW e \in Executors,
         (\E r \in Runs : Ask(e, r)) \/ ExecutorStep(e) \/ CrashExecutor(e)
  PROVE  SameAnswers'
<1>1. /\ \A f \in Executors \ {e} : exec[f].pc \in {"idle", "ended"} /\ exec'[f] = exec[f]
  BY ExecutorAlone DEF SpendInv
<1>2. /\ exec \in [Executors -> Executor] /\ posts \in [Executors -> Post \cup {None}]
      /\ served \in CandidateSets
  BY DEF SpendInv, NamesInv, IInv, TypeOK
<1> DEFINE Goal == /\ exec'[e].portfolio # None /\ exec'[e].set # None =>
                        exec'[e].portfolio = exec'[e].set
                   /\ posts'[e] # None => exec'[e].portfolio = exec'[e].set
                   /\ HalfAnswered(e)' => served' \in {exec'[e].portfolio, exec'[e].set}
                   /\ \A f \in Executors \ {e} : posts'[f] = posts[f]
<1>3. exec[e].pc \in {"idle", "asking"} => posts[e] = None
  BY DEF SpendInv, NamesInv, IInv, ExecutorInv
<1>4. ASSUME NEW r \in Runs, Ask(e, r) PROVE Goal
  BY <1>2, <1>3, <1>4 DEF Ask, HalfAnswered, provider
<1>5. ASSUME AnswerPortfolio(e) PROVE Goal
  <2>1. /\ exec'[e].portfolio = served /\ exec'[e].set = exec[e].set /\ exec[e].pc = "asking"
        /\ exec[e].portfolio = None /\ served' = served /\ posts' = posts
    BY <1>2, <1>5 DEF AnswerPortfolio, Executor, provider
  <2>2. exec[e].set # None => served = exec[e].set
    BY <1>2, <2>1, SentinelAssumption DEF SpendInv, SameAnswers, HalfAnswered
  <2> QED
    BY <1>3, <2>1, <2>2 DEF HalfAnswered
<1>6. ASSUME AnswerApproval(e) PROVE Goal
  <2>1. /\ exec'[e].set = served /\ exec'[e].portfolio = exec[e].portfolio /\ exec[e].pc = "asking"
        /\ exec[e].set = None /\ served' = served /\ posts' = posts
    BY <1>2, <1>6 DEF AnswerApproval, Executor, provider
  <2>2. exec[e].portfolio # None => served = exec[e].portfolio
    BY <1>2, <2>1, SentinelAssumption DEF SpendInv, SameAnswers, HalfAnswered
  <2> QED
    BY <1>3, <2>1, <2>2 DEF HalfAnswered
<1>7. ASSUME NEW pc, Goes(e, pc), pc # "asking", UNCHANGED posts PROVE Goal
  <2>1. exec'[e].set = exec[e].set /\ exec'[e].portfolio = exec[e].portfolio /\ exec'[e].pc = pc
    BY <1>2, <1>7 DEF Goes, Executor
  <2> QED
    BY <1>7, <2>1 DEF SpendInv, SameAnswers, HalfAnswered
<1>8. ASSUME SubmitTasks(e) \/ LoseReply(e) PROVE Goal
  <2>1. PICK lost \in BOOLEAN : ProviderCharges(e, lost)
    BY <1>8 DEF SubmitTasks, LoseReply
  <2>2. \A f \in Executors \ {e} : posts'[f] = posts[f]
    BY <1>2, <2>1 DEF ProviderCharges
  <2>3. PICK pc \in {"posted", "ended"} : Goes(e, pc)
    BY <1>8 DEF SubmitTasks, LoseReply
  <2>4. exec'[e].set = exec[e].set /\ exec'[e].portfolio = exec[e].portfolio /\ exec'[e].pc = pc
    BY <1>2, <2>3 DEF Goes, Executor
  <2>5. exec[e].portfolio \in CandidateSets /\ exec[e].set \in CandidateSets
    BY <1>8 DEF SubmitTasks, LoseReply, SpendInv, NamesInv, IInv, ExecutorInv
  <2>6. exec[e].portfolio = exec[e].set
    BY <2>5, SentinelAssumption DEF SpendInv, SameAnswers
  <2> QED
    BY <2>2, <2>4, <2>6 DEF HalfAnswered
<1>9. ASSUME \/ AuditBudget(e) \/ Validate(e) \/ SubmitFails(e) \/ SavePost(e)
             \/ RecordSubmission(e) \/ RefuseReply(e) \/ CrashExecutor(e)
      PROVE  Goal
  <2>1. UNCHANGED posts
    BY <1>9 DEF AuditBudget, Validate, SubmitFails, SavePost, RecordSubmission, RefuseReply,
                CrashExecutor, provider
  <2>2. PICK pc \in {"audited", "ended", "validated", "saved"} : Goes(e, pc)
    BY <1>9 DEF AuditBudget, Validate, SubmitFails, SavePost, RecordSubmission, RefuseReply,
                CrashExecutor
  <2>3. pc # "asking"
    BY <2>2
  <2> HIDE DEF Goal
  <2> QED
    BY <1>7, <2>1, <2>2, <2>3
<1> HIDE DEF Goal
<1>10. Goal
  BY <1>4, <1>5, <1>6, <1>8, <1>9 DEF ExecutorStep
<1>11. ASSUME NEW f \in Executors \ {e}
       PROVE  /\ exec'[f].portfolio # None /\ exec'[f].set # None =>
                   exec'[f].portfolio = exec'[f].set
              /\ posts'[f] # None => exec'[f].portfolio = exec'[f].set
              /\ ~HalfAnswered(f)'
  BY <1>1, <1>10 DEF Goal, SpendInv, SameAnswers, HalfAnswered
<1> QED
  BY <1>10, <1>11 DEF Goal, SameAnswers

LEMMA ExecutorSpends ==
  ASSUME Disturbances \subseteq {"http", "lostReply"}, SpendInv, NEW e \in Executors,
         (\E r \in Runs : Ask(e, r)) \/ ExecutorStep(e) \/ CrashExecutor(e)
  PROVE  /\ RepliesAreGood' /\ AuditHolds'
         /\ exec'[e].pc = "ended" =>
              posts'[e] = None \/ posts'[e].lost \/ RecordSubmission(e)
<1>1. /\ \A f \in Executors \ {e} : exec[f].pc \in {"idle", "ended"} /\ exec'[f] = exec[f]
  BY ExecutorAlone DEF SpendInv
<1>2. exec \in [Executors -> Executor] /\ exec[e] \in Executor /\ posts \in [Executors -> Post \cup {None}]
  BY DEF SpendInv, NamesInv, IInv, TypeOK
<1>3. exec[e].pc \in {"idle", "asking", "audited", "validated"} => posts[e] = None
  BY DEF SpendInv, NamesInv, IInv, ExecutorInv
<1> DEFINE Goal == /\ exec'[e].pc \in {"posted", "saved"} => ReplyAccepted(posts'[e])
                   /\ exec'[e].pc \in {"audited", "validated"} => Covered(e)'
                   /\ exec'[e].pc = "ended" =>
                        posts'[e] = None \/ posts'[e].lost \/ RecordSubmission(e)
<1>4. ASSUME (\E r \in Runs : Ask(e, r)) \/ AnswerPortfolio(e) \/ AnswerApproval(e) PROVE Goal
  <2>1. exec'[e].pc = "asking"
    BY <1>2, <1>4 DEF Ask, AnswerPortfolio, AnswerApproval, Executor
  <2> QED
    BY <2>1
<1>5. ASSUME AuditBudget(e) PROVE Goal
  <2>1. /\ exec[e].pc = "asking" /\ UNCHANGED posts
        /\ exec[e].portfolio # None /\ exec[e].set # None
        /\ exec'[e].portfolio = exec[e].portfolio
    BY <1>2, <1>5 DEF AuditBudget, Goes, provider, Executor
  <2>2. /\ exec'[e].pc \in {"audited", "ended"}
        /\ exec'[e].pc = "audited" =>
             AuditAdmits(manifest, exec[e].run, exec[e].set, PlanMax[exec[e].portfolio])
    BY <1>2, <1>5 DEF AuditBudget, Goes, Executor
  <2>3. exec'[e].pc = "audited" => Covered(e)
    BY <2>1, <2>2, AuditSeesEverything
  <2>4. Covered(e) => Covered(e)'
    BY <2>1, SpentIsKept DEF Covered
  <2> QED
    BY <1>3, <2>1, <2>2, <2>3, <2>4
<1>6. ASSUME Validate(e) PROVE Goal
  <2>1. /\ exec'[e].portfolio = exec[e].portfolio /\ exec'[e].pc = "validated"
        /\ exec[e].pc = "audited" /\ UNCHANGED posts
    BY <1>2, <1>6 DEF Validate, Goes, provider, Executor
  <2>2. Covered(e)'
    BY <2>1, SpentIsKept DEF Covered, SpendInv, AuditHolds
  <2> QED
    BY <2>1, <2>2
<1>7. ASSUME SubmitTasks(e) \/ LoseReply(e) PROVE Goal
  <2>1. PICK lost \in BOOLEAN :
          /\ ProviderCharges(e, lost)
          /\ exec'[e].pc = IF lost THEN "ended" ELSE "posted"
    BY <1>2, <1>7 DEF SubmitTasks, LoseReply, Goes, Executor
  <2>2. PICK p \in Replies(e, lost) : posts' = [posts EXCEPT ![e] = p]
    BY <2>1 DEF ProviderCharges
  <2>3. posts'[e] = p /\ exec[e].pc = "validated"
    BY <1>2, <1>7, <2>2 DEF SubmitTasks, LoseReply
  <2>4. exec[e].portfolio \in CandidateSets /\ PlanAgrees(exec[e].portfolio, exec[e].set)
    BY <2>3 DEF SpendInv, NamesInv, IInv, ExecutorInv, PostsAreTheirs
  <2>5. /\ p.set = exec[e].portfolio /\ p.answered = Members[p.set] /\ p.accepted # {}
        /\ p.accepted \subseteq p.answered /\ p.cost <= PlanMax[p.set] /\ p.cost \in Nat
        /\ p.lost = lost
    BY <2>2, AcquisitionAssumption DEF Replies
  <2>6. PlanMax[exec[e].portfolio] \in Nat /\ ApprovedCap \in Nat
    BY <2>4, AcquisitionAssumption
  <2>7. p.cost <= ApprovedCap
    BY <2>4, <2>5, <2>6 DEF PlanAgrees
  <2>8. ReplyAccepted(p)
    BY <2>4, <2>5, <2>7 DEF ReplyAccepted, PlanAgrees
  <2> QED
    BY <2>1, <2>3, <2>5, <2>8
<1>8. ASSUME SavePost(e) PROVE Goal
  <2>1. exec'[e].pc = "saved" /\ exec[e].pc = "posted" /\ UNCHANGED posts
    BY <1>2, <1>8 DEF SavePost, Goes, provider, Executor
  <2> QED
    BY <2>1 DEF SpendInv, RepliesAreGood
<1>9. ASSUME RecordSubmission(e) PROVE Goal
  BY <1>2, <1>9 DEF RecordSubmission, Goes, Executor
<1>10. ASSUME SubmitFails(e) PROVE Goal
  BY <1>2, <1>3, <1>10 DEF SubmitFails, Goes, provider, Executor
<1>11. ~RefuseReply(e) /\ ~CrashExecutor(e)
  BY DEF RefuseReply, CrashExecutor, SpendInv, RepliesAreGood
<1> HIDE DEF Goal
<1>12. Goal
  BY <1>4, <1>5, <1>6, <1>7, <1>8, <1>9, <1>10, <1>11 DEF ExecutorStep
<1>13. \A f \in Executors \ {e} : exec'[f].pc \in {"idle", "ended"}
  BY <1>1
<1> QED
  BY <1>12, <1>13 DEF Goal, RepliesAreGood, AuditHolds

LEMMA RecordedStays ==
  ASSUME Disturbances \subseteq {"http", "lostReply"}, SpendInv, [Next]_vars,
         NEW e \in Executors, exec'[e] = exec[e], posts'[e] = posts[e],
         exec[e].pc = "ended", posts[e] # None, ~posts[e].lost
  PROVE  manifest'[exec'[e].run].state \in CommittedStates
<1>1. exec[e].run \in Runs /\ manifest[exec[e].run].state \in CommittedStates
  BY DEF SpendInv, Recorded, NamesInv, IInv, ExecutorInv
<1> QED
  BY <1>1, ChargeStays DEF SpendInv

\* Executors, answers and replies as a step of an executor leaves them.
LEMMA ExecutorKeeps ==
  ASSUME Disturbances \subseteq {"http", "lostReply"}, SpendInv, [Next]_vars,
         NEW e \in Executors,
         (\E r \in Runs : Ask(e, r)) \/ ExecutorStep(e) \/ CrashExecutor(e)
  PROVE  SameAnswers' /\ RepliesAreGood' /\ AuditHolds' /\ Recorded'
<1>1. /\ SameAnswers' /\ RepliesAreGood' /\ AuditHolds'
      /\ exec'[e].pc = "ended" => posts'[e] = None \/ posts'[e].lost \/ RecordSubmission(e)
  BY ExecutorAnswers, ExecutorSpends
<1>2. ASSUME NEW f \in Executors \ {e}, exec'[f].pc = "ended", posts'[f] # None, ~posts'[f].lost
      PROVE  manifest'[exec'[f].run].state \in CommittedStates
  <2>1. exec'[f] = exec[f]
    BY ExecutorAlone DEF SpendInv
  <2>2. posts'[f] = posts[f]
    <3>1. CASE SubmitTasks(e) \/ LoseReply(e)
      <4>1. PICK lost \in BOOLEAN : ProviderCharges(e, lost)
        BY <3>1 DEF SubmitTasks, LoseReply
      <4> QED
        BY <4>1 DEF ProviderCharges, SpendInv, NamesInv, IInv, TypeOK
    <3>2. CASE ~SubmitTasks(e) /\ ~LoseReply(e)
      <4>1. UNCHANGED posts
        BY <3>2 DEF Ask, ExecutorStep, AnswerPortfolio, AnswerApproval, AuditBudget, Validate,
                    SubmitFails, SavePost, RecordSubmission, RefuseReply, CrashExecutor, provider
      <4> QED
        BY <4>1
    <3> QED
      BY <3>1, <3>2
  <2> QED
    BY <1>2, <2>1, <2>2, RecordedStays
<1>3. ASSUME RecordSubmission(e) PROVE manifest'[exec'[e].run].state \in CommittedStates
  <2>1. /\ exec'[e].run = exec[e].run /\ exec[e].run \in Runs
        /\ manifest' = [manifest EXCEPT ![exec[e].run] = SubmittedManifest(e)]
    BY <1>3 DEF RecordSubmission, Goes, SpendInv, NamesInv, IInv, ExecutorInv, TypeOK, Executor
  <2>2. manifest'[exec[e].run] = SubmittedManifest(e)
    BY <2>1 DEF SpendInv, NamesInv, IInv, TypeOK
  <2> QED
    BY <2>1, <2>2 DEF SubmittedManifest, SubmittedState, CommittedStates
<1> QED
  BY <1>1, <1>2, <1>3 DEF Recorded

LEMMA NextSpend ==
  ASSUME Disturbances \subseteq {"http", "lostReply"}
  PROVE  SpendInv /\ [Next]_vars => SpendInv'
<1> SUFFICES ASSUME SpendInv, [Next]_vars PROVE SpendInv'
  OBVIOUS
<1>1. NamesInv' /\ SerialInv' /\ CollectionInv'
  BY NextNames, NextSerial, NextCollection DEF SpendInv
<1> DEFINE Kept == SameAnswers' /\ RepliesAreGood' /\ AuditHolds' /\ Recorded'
<1>2. ASSUME NEW e \in Executors,
             (\E r \in Runs : Ask(e, r)) \/ ExecutorStep(e) \/ CrashExecutor(e)
      PROVE  Kept
  BY <1>2, ExecutorKeeps
<1>3. ASSUME UNCHANGED <<exec, posts>>, served' = served \/ DashboardRestart PROVE Kept
  <2>1. SameAnswers'
    BY <1>3 DEF SpendInv, SameAnswers, HalfAnswered, DashboardRestart
  <2>2. RepliesAreGood'
    BY <1>3 DEF SpendInv, RepliesAreGood
  <2>3. AuditHolds'
    BY <1>3, SpentIsKept DEF SpendInv, AuditHolds, Covered
  <2>4. Recorded'
    BY <1>3, RecordedStays DEF Recorded
  <2> QED
    BY <2>1, <2>2, <2>3, <2>4
<1> HIDE DEF Kept
<1>4. Kept
  BY <1>2, <1>3, OthersSpendNothing DEF Next
<1> QED
  BY <1>1, <1>4 DEF SpendInv, Kept

(***************************************************************************)
(* The refinement: a POST that is charged is a Pay of SpendLedger, whether *)
(* or not its reply arrives, and every other step leaves the abstract      *)
(* ledger as it is.                                                        *)
(***************************************************************************)
LEMMA SubmissionPays ==
  ASSUME SpendInv, NEW e \in Executors, SubmitTasks(e) \/ LoseReply(e),
         "overcharge" \notin Disturbances
  PROVE  Money!Next
<1>0. PICK r \in Runs : r = exec[e].run
  BY DEF SubmitTasks, LoseReply, SpendInv, NamesInv, IInv, ExecutorInv
<1>a. PICK reply \in BOOLEAN : ProviderCharges(e, reply)
  BY DEF SubmitTasks, LoseReply
<1>1. PICK p \in Replies(e, reply) : posts' = [posts EXCEPT ![e] = p]
  BY <1>a DEF ProviderCharges
<1>2. /\ exec[e].pc = "validated" /\ exec[e].portfolio \in CandidateSets
      /\ posts[e] = None /\ posts \in [Executors -> Post \cup {None}]
  BY DEF SubmitTasks, LoseReply, SpendInv, NamesInv, IInv, ExecutorInv, TypeOK
<1>3. /\ p.run = r /\ p.set = exec[e].portfolio /\ p.cost \in Nat
      /\ p.cost <= PlanMax[p.set] /\ p \in Post /\ p.lost = reply
  BY <1>0, <1>1, <1>2, AcquisitionAssumption DEF Replies, Post
<1>4. p # None
  BY <1>3, SentinelAssumption
<1>5. posts'[e] = p /\ \A f \in Executors \ {e} : posts'[f] = posts[f]
  BY <1>1, <1>2
<1>6. PostsOf(r) = {}
  <2> SUFFICES ASSUME NEW f \in PostsOf(r) PROVE FALSE
    OBVIOUS
  <2>1. exec[f].run = r /\ f \in Executors /\ posts[f] # None
    BY DEF PostsOf, SpendInv, NamesInv, PostsAreTheirs
  <2> QED
    BY <1>0, <1>2, <2>1 DEF SpendInv, NamesInv, OwnDirectories
<1>7. PostsOf(r)' = {e} /\ ThePost(r)' = p
  <2>1. PostsOf(r)' = {e}
    BY <1>3, <1>4, <1>5, <1>6 DEF PostsOf
  <2> QED
    BY <1>5, <2>1 DEF ThePost
<1>8. \A s \in Runs \ {r} :
        PostsOf(s)' = PostsOf(s) /\ (PostsOf(s) # {} => ThePost(s)' = ThePost(s))
  <2> TAKE s \in Runs \ {r}
  <2>1. PostsOf(s)' = PostsOf(s)
    BY <1>2, <1>3, <1>5 DEF PostsOf
  <2>2. \A f \in PostsOf(s) : posts'[f] = posts[f]
    BY <1>2, <1>5 DEF PostsOf
  <2> QED
    BY <2>1, <2>2 DEF ThePost
<1> DEFINE set == [s \in Runs |-> IF PostsOf(s) = {} THEN None ELSE ThePost(s).set]
           cost == [s \in Runs |-> IF PostsOf(s) = {} THEN 0 ELSE ThePost(s).cost]
           lost == {s \in Runs : PostsOf(s) # {} /\ ThePost(s).lost}
<1>9. Covered(e)
  BY <1>2 DEF SpendInv, AuditHolds
<1>10. set[r] = None
  BY <1>6
<1>11. \A other \in Runs \ lost : set[other] # p.set
  <2> TAKE other \in Runs \ lost
  <2>1. CASE PostsOf(other) = {}
    BY <1>2, <1>3, <2>1, SentinelAssumption
  <2>2. CASE PostsOf(other) # {}
    <3>1. PICK f \in PostsOf(other) : ThePost(other) = posts[f]
      BY <2>2 DEF ThePost
    <3>2. f \in Executors /\ posts[f] # None /\ ~posts[f].lost
      BY <2>2, <3>1 DEF PostsOf
    <3> QED
      BY <1>3, <1>9, <2>2, <3>1, <3>2 DEF Covered
  <2> QED
    BY <2>1, <2>2
<1>12. Money!KnownSpent + PlanMax[p.set] <= LifetimeCap
  BY <1>3, <1>9 DEF Covered
<1>13. set' = [set EXCEPT ![r] = p.set]
  BY <1>7, <1>8
<1>14. cost' = [cost EXCEPT ![r] = p.cost]
  BY <1>7, <1>8
<1>15. lost' = lost \/ lost' = lost \cup {r}
  <2>1. r \notin lost
    BY <1>6
  <2>2. r \in lost' <=> reply
    BY <1>3, <1>7
  <2>3. \A s \in Runs \ {r} : s \in lost' <=> s \in lost
    BY <1>8
  <2>4. lost \subseteq Runs /\ lost' \subseteq Runs
    OBVIOUS
  <2> HIDE DEF lost
  <2> QED
    BY <2>1, <2>2, <2>3, <2>4
<1> HIDE DEF set, cost, lost
<1>16. Money!Pay(r, p.set, p.cost)
  BY <1>3, <1>10, <1>11, <1>12, <1>13, <1>14, <1>15 DEF Money!Pay, set, cost, lost
<1>17. p.set \in CandidateSets /\ p.cost \in 0..PlanMax[p.set]
  BY <1>2, <1>3, AcquisitionAssumption
<1> QED
  BY <1>16, <1>17 DEF Money!Next

LEMMA StepSpends ==
  ASSUME Disturbances \subseteq {"http", "lostReply"}, SpendInv, [Next]_vars
  PROVE  [Money!Next]_Money!ledgerVars
<1>1. ASSUME NEW e \in Executors, SubmitTasks(e) \/ LoseReply(e) PROVE Money!Next
  BY <1>1, SubmissionPays
<1>2. ASSUME NEW e \in Executors, ~SubmitTasks(e), ~LoseReply(e),
             (\E r \in Runs : Ask(e, r)) \/ ExecutorStep(e) \/ CrashExecutor(e)
      PROVE  UNCHANGED posts
  BY <1>2 DEF Ask, ExecutorStep, AnswerPortfolio, AnswerApproval, AuditBudget, Validate,
              SubmitFails, SavePost, RecordSubmission, RefuseReply, CrashExecutor, provider
<1> QED
  BY <1>1, <1>2, OthersSpendNothing, SpentIsKept DEF Next

LEMMA InitSpend == Init => SpendInv /\ Money!Init
<1> SUFFICES ASSUME Init PROVE SpendInv /\ Money!Init
  OBVIOUS
<1>1. SameAnswers /\ RepliesAreGood /\ Recorded /\ AuditHolds
  BY DEF Init, SameAnswers, HalfAnswered, RepliesAreGood, Recorded, AuditHolds
<1>2. \A r \in Runs : PostsOf(r) = {}
  BY DEF Init, PostsOf
<1> QED
  BY <1>1, <1>2, InitNames, InitSerial, InitCollection DEF SpendInv, Money!Init

(***************************************************************************)
(* Scripts that run one at a time without a crash, in directories of their *)
(* own, collected when the provider has finished, and asking a dashboard   *)
(* that is not restarted between two of their answers, spend as            *)
(* SpendLedger promises: while no reply is lost a set is charged once, and *)
(* every charge is made only while the cap covers its planned maximum      *)
(* beside what is known to be spent.  A request for results may fail, a    *)
(* POST may fail before or after its charge, and the dashboard may be      *)
(* restarted at any other time.                                            *)
(***************************************************************************)
THEOREM SpendingRefines ==
  ASSUME Disturbances \subseteq {"http", "lostReply"}
  PROVE  Spec => SpendsAsPromised
<1>1. Init => SpendInv /\ Money!Init
  BY InitSpend
<1>2. SpendInv /\ [Next]_vars => SpendInv'
  BY NextSpend
<1>3. SpendInv /\ [Next]_vars => [Money!Next]_Money!ledgerVars
  BY StepSpends
<1> QED
  BY <1>1, <1>2, <1>3, PTL DEF Spec, SpendsAsPromised, Money!Spec
-----------------------------------------------------------------------------
(* The lifetime cap                                                        *)

LEMMA KnownSpentIsASum == IInv => KnownCost \in [Runs -> Nat]
                                    /\ Money!KnownSpent = LegacyCommitted + Sum(KnownCost, Runs)
<1> SUFFICES ASSUME IInv
             PROVE  /\ KnownCost \in [Runs -> Nat]
                    /\ Money!KnownSpent = LegacyCommitted + Sum(KnownCost, Runs)
  OBVIOUS
<1>1. ASSUME NEW r \in Runs, PostsOf(r) # {} PROVE ThePost(r).cost \in Nat
  <2>1. PICK e \in PostsOf(r) : ThePost(r) = posts[e]
    BY <1>1 DEF ThePost
  <2>2. posts[e] \in Post
    BY <2>1 DEF PostsOf, IInv, TypeOK
  <2> QED
    BY <2>1, <2>2 DEF Post
<1>2. KnownCost \in [Runs -> Nat]
  BY <1>1 DEF KnownCost, PaidCost
<1>3. SumFunction(KnownCost) = Sum(KnownCost, Runs)
  BY <1>2 DEF SumFunction, Sum
<1> QED
  BY <1>2, <1>3, KnownSpentIs

KnownSum == Money!KnownSpent = LegacyCommitted + Sum(KnownCost, Runs)

LEMMA KnownSpentIsASumLater == IInv' => Money!KnownSpent' = LegacyCommitted + Sum(KnownCost', Runs)
<1>1. IInv => KnownSum
  BY KnownSpentIsASum DEF KnownSum
<1>2. IInv' => KnownSum'
  BY <1>1, PTL
<1> QED
  BY <1>2 DEF KnownSum

\* Nothing was spent yet, or what is known to be spent is within the cap; and
\* it is all that was spent unless the reply to a POST was lost.
CapKept ==
  /\ Money!KnownSpent = LegacyCommitted \/ Money!KnownSpent <= LifetimeCap
  /\ (\A e \in Executors : posts[e] # None => ~posts[e].lost) =>
       Money!KnownSpent = LegacyCommitted + SumFunction(PaidCost)

\* The second part holds in every state.
LEMMA AllIsKnown ==
  ASSUME \A e \in Executors : posts[e] # None => ~posts[e].lost
  PROVE  Money!KnownSpent = LegacyCommitted + SumFunction(PaidCost)
<1>1. LostRuns = {}
  <2> SUFFICES ASSUME NEW r \in Runs, PostsOf(r) # {}, ThePost(r).lost PROVE FALSE
    BY DEF LostRuns
  <2>1. PICK e \in PostsOf(r) : ThePost(r) = posts[e]
    BY DEF ThePost
  <2> QED
    BY <2>1 DEF PostsOf
<1>2. KnownCost = PaidCost
  BY <1>1 DEF KnownCost, PaidCost
<1> QED
  BY <1>2, KnownSpentIs

LEMMA PayKeepsTheCap ==
  ASSUME IInv, IInv', Money!Next
  PROVE  Money!KnownSpent' <= LifetimeCap
<1>1. PICK r \in Runs, set \in CandidateSets, known \in Nat :
        /\ known <= PlanMax[set]
        /\ Money!KnownSpent + PlanMax[set] <= LifetimeCap
        /\ KnownCost' = [KnownCost EXCEPT ![r] = known]
  <2>1. PICK r \in Runs, set \in CandidateSets : \E cost \in 0..PlanMax[set] : Money!Pay(r, set, cost)
    BY DEF Money!Next
  <2>2. PICK cost \in 0..PlanMax[set] : Money!Pay(r, set, cost)
    BY <2>1
  <2>3. PlanMax[set] \in Nat /\ cost \in Nat /\ cost <= PlanMax[set]
    BY <2>2, AcquisitionAssumption
  <2>4. /\ Money!KnownSpent + PlanMax[set] <= LifetimeCap
        /\ PaidCost' = [PaidCost EXCEPT ![r] = cost]
        /\ LostRuns' = LostRuns \/ LostRuns' = LostRuns \cup {r}
    BY <2>2 DEF Money!Pay, PaidCost, LostRuns
  <2> DEFINE known == IF r \in LostRuns' THEN 0 ELSE cost
  <2>5. known \in Nat /\ known <= PlanMax[set]
    BY <2>3
  <2>6. PaidCost'[r] = cost /\ \A s \in Runs \ {r} : PaidCost'[s] = PaidCost[s]
    BY <2>4 DEF PaidCost
  <2>7. \A s \in Runs \ {r} : s \in LostRuns' <=> s \in LostRuns
    BY <2>4
  <2>8. KnownCost'[r] = known /\ \A s \in Runs \ {r} : KnownCost'[s] = KnownCost[s]
    BY <2>6, <2>7 DEF KnownCost
  <2>9. KnownCost' = [KnownCost EXCEPT ![r] = known]
    BY <2>8 DEF KnownCost
  <2> HIDE DEF known
  <2> QED
    BY <2>4, <2>5, <2>9
<1>2. /\ KnownCost \in [Runs -> Nat]
      /\ Money!KnownSpent = LegacyCommitted + Sum(KnownCost, Runs)
      /\ Money!KnownSpent' = LegacyCommitted + Sum(KnownCost', Runs)
  BY KnownSpentIsASum, KnownSpentIsASumLater
<1>3. /\ Sum(KnownCost, Runs) \in Nat
      /\ Sum([KnownCost EXCEPT ![r] = known], Runs) + KnownCost[r] = Sum(KnownCost, Runs) + known
  BY <1>2, BudgetAssumption, SumExcept
<1>4. /\ Sum(KnownCost', Runs) + KnownCost[r] = Sum(KnownCost, Runs) + known
      /\ Sum(KnownCost', Runs) \in Nat /\ KnownCost[r] \in Nat
  <2>1. [KnownCost EXCEPT ![r] = known] \in [Runs -> Nat]
    BY <1>2
  <2>2. Sum([KnownCost EXCEPT ![r] = known], Runs) \in Nat
    BY <2>1, BudgetAssumption, SumType
  <2> QED
    BY <1>1, <1>2, <1>3, <2>2
<1>5. PlanMax[set] \in Nat /\ LegacyCommitted \in Nat /\ LifetimeCap \in Nat
  BY AcquisitionAssumption, BudgetAssumption
<1> QED
  BY <1>1, <1>2, <1>3, <1>4, <1>5

(***************************************************************************)
(* In those circumstances no POST brings what is known to be spent beyond  *)
(* the lifetime cap.  Without a lost reply that is all the money; a charge *)
(* whose reply was lost is in no file and comes on top.                    *)
(***************************************************************************)
THEOREM CapIsKept ==
  ASSUME Disturbances \subseteq {"http", "lostReply"}
  PROVE  Spec => []CapKept
<1> DEFINE Bounded == Money!KnownSpent = LegacyCommitted \/ Money!KnownSpent <= LifetimeCap
<1>1. Init => SpendInv /\ Bounded
  <2> SUFFICES ASSUME Init PROVE Bounded
    BY InitSpend
  <2>1. \A r \in Runs : KnownCost[r] = 0
    BY DEF Init, PostsOf, PaidCost, KnownCost
  <2>2. Sum(KnownCost, Runs) = 0
    BY <2>1, BudgetAssumption, SumZero
  <2> QED
    BY <2>2, InitIInv, KnownSpentIsASum, BudgetAssumption
<1>2. SpendInv /\ Bounded /\ [Next]_vars => (SpendInv /\ Bounded)'
  <2> SUFFICES ASSUME SpendInv, Bounded, [Next]_vars PROVE SpendInv' /\ Bounded'
    OBVIOUS
  <2>1. SpendInv'
    BY NextSpend
  <2>2. CASE Money!Next
    BY <2>1, <2>2, PayKeepsTheCap DEF SpendInv, NamesInv
  <2>3. CASE UNCHANGED Money!ledgerVars
    <3>1. KnownCost' = KnownCost
      BY <2>3 DEF Money!ledgerVars, KnownCost, PaidCost, LostRuns
    <3>2. Money!KnownSpent' = Money!KnownSpent
      BY <2>1, <3>1, KnownSpentIsASum, KnownSpentIsASumLater DEF SpendInv, NamesInv
    <3> QED
      BY <2>1, <3>2
  <2> QED
    BY <2>1, <2>2, <2>3, StepSpends
<1>3. Bounded => CapKept
  BY AllIsKnown DEF CapKept
<1> QED
  BY <1>1, <1>2, <1>3, PTL DEF Spec
=============================================================================
