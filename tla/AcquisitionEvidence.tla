------------------------ MODULE AcquisitionEvidence ------------------------
(***************************************************************************)
(* What the run directories are worth to those who read them: the loader   *)
(* of scripts/acquisition-remediation-evidence.mjs, which hands completed  *)
(* runs to the database build, and the properties of the ledger, of the    *)
(* evidence and of the scripts that write both.                            *)
(***************************************************************************)
EXTENDS AcquisitionRemediation

\* A directory counts only with both files; a completed one is then checked,
\* and one that fails its checks (or does not parse) makes the loader throw.
HasBothFiles(r) == manifest[r].state # "absent" /\ index[r] # None

EvidenceChecks(r) ==
  /\ manifest[r].cost <= ApprovedCap
  /\ index[r] = manifest[r].index
  /\ \A t \in Found(index[r].rows) :
       raw[r][<<index[r].post, t>>] = index[r].rows[t]

LoaderThrowsOn(r) ==
  /\ HasBothFiles(r)
  /\ \/ manifest[r].state = "torn"
     \/ index[r] = Torn
     \/ manifest[r].state \in CompletedStates /\ ~EvidenceChecks(r)

LoadableRuns ==
  IF \E r \in Runs : LoaderThrowsOn(r)
    THEN {}
    ELSE {r \in Runs : HasBothFiles(r) /\ manifest[r].state \in CompletedStates}

-----------------------------------------------------------------------------
\* Every file, script and reply has the shape the model gives it.
TypeOK ==
  /\ manifest \in [Runs -> Manifest]
  /\ taskPost \in [Runs -> Executors \cup {None, Torn}]
  /\ raw \in [Runs -> [AcquisitionTasks -> Bodies \cup {None}]]
  /\ index \in [Runs -> IndexFile \cup {None, Torn}]
  /\ exec \in [Executors -> Executor]
  /\ coll \in [Collectors -> Collector]
  /\ posts \in [Executors -> Post \cup {None}]
  /\ ready \subseteq AcquisitionTasks
  /\ served \in CandidateSets

\* An entry the audit counts is the charge of a POST that was really made from
\* that directory, whatever crashed, was pointed at a used directory or ran at
\* the same time (execute l.54, collect l.16).
LedgerEntriesAreRealCharges ==
  \A r \in Runs :
    manifest[r].state \in CommittedStates =>
      /\ manifest[r].post \in Executors
      /\ posts[manifest[r].post] # None
      /\ posts[manifest[r].post].run = r
      /\ posts[manifest[r].post].cost = manifest[r].cost

\* As long as no directory is used twice, a counted entry names the set whose
\* approval its own executor was given before it paid, never one that is served
\* later (execute l.42, collect l.16).  That is the set paid for whenever both
\* answers were of one portfolio; after a restart between them it may be another
\* one, of as many tasks and the same maximum (execute l.30-32).
LedgerEntriesNameTheirSet ==
  "reuse" \notin Disturbances =>
    \A r \in Runs :
      manifest[r].state \in CommittedStates =>
        LET e == manifest[r].post
            paid == posts[e].set
            named == manifest[r].set
        IN /\ named = exec[e].set
           /\ exec[e].portfolio = exec[e].set => named = paid
           /\ Cardinality(Members[named]) = Cardinality(Members[paid])
           /\ PlanMax[named] = PlanMax[paid]

\* Evidence the loader hands on is the result of one whole POST: every task
\* the provider accepted, each with its raw file, charged at what the manifest
\* says.  Never a mixture of two executions or a part of one.
LoadedEvidenceIsOneWholePost ==
  \A r \in LoadableRuns :
    \E e \in Executors :
      /\ posts[e] # None
      /\ posts[e].run = r
      /\ index[r].post = e
      /\ Found(index[r].rows) = posts[e].accepted
      /\ \A t \in posts[e].accepted : raw[r][<<e, t>>] # None
      /\ manifest[r].cost = posts[e].cost

\* The index and the files hold the results the manifest stands for.
ResultsFit(r) ==
  /\ index[r] # None
  /\ index[r].post = manifest[r].index.post
  /\ index[r].rows = manifest[r].index.rows
  /\ \A t \in Found(index[r].rows) :
       raw[r][<<index[r].post, t>>] = index[r].rows[t]

\* Scripts that ran one at a time lose no result of a completed run, wherever
\* they were cut off (collect l.14, l.17).  The loader throws on such a run only
\* after a crash that tore the index, or one between the two writes of a second
\* collection, made while another portfolio was served: index and manifest then
\* differ in what the portfolios say of the tasks, and in nothing else.
QuietRunsKeepResults ==
  Quiet =>
    \A r \in Runs :
      (manifest[r].state \in CompletedStates /\ index[r] # Torn) =>
        /\ ResultsFit(r)
        /\ (LoaderThrowsOn(r) /\ manifest[r].cost <= ApprovedCap) =>
             index[r].fields # manifest[r].index.fields

\* A run that is counted, or whose torn manifest stops every audit, is never
\* again one the audit passes over, and what it counts stays the same (doc
\* 10.114: a run's cost is kept in the ledger and not erased).
ChargesStayInLedger ==
  [][\A r \in Runs :
       /\ manifest[r].state \in CommittedStates \cup {"torn"} =>
            manifest'[r].state \in CommittedStates \cup {"torn"}
       /\ (manifest[r].state \in CommittedStates /\ manifest'[r].state \in CommittedStates) =>
            manifest'[r].cost = manifest[r].cost]_vars

\* No candidate set is paid for twice (execute l.38: "candidate set was already
\* submitted; duplicate paid execution is forbidden").
NoDuplicatePaidExecution ==
  \A e, f \in Executors :
    (e # f /\ posts[e] # None /\ posts[f] # None) => posts[e].set # posts[f].set

-----------------------------------------------------------------------------
\* The charges as the abstract ledger sees them.
PostsOf(r) == {e \in Executors : posts[e] # None /\ posts[e].run = r}
ThePost(r) == posts[CHOOSE e \in PostsOf(r) : TRUE]

Money == INSTANCE SpendLedger WITH
  NoSet <- None,
  paidSet <- [r \in Runs |-> IF PostsOf(r) = {} THEN None ELSE ThePost(r).set],
  paidCost <- [r \in Runs |-> IF PostsOf(r) = {} THEN 0 ELSE ThePost(r).cost],
  lost <- {r \in Runs : PostsOf(r) # {} /\ ThePost(r).lost}

\* Scripts run one at a time, in fresh directories, collected only when the
\* provider has finished, charge a candidate set once and within the cap, as far
\* as the replies to their POSTs have arrived.
SpendsAsPromised == Money!Spec

\* A collector that starts on a run whose tasks have all finished brings the
\* run to a completed manifest, whoever else writes to the directory.
ReadyCollectionCompletes ==
  \A c \in Collectors, r \in Runs :
    (/\ coll[c].pc = "working"
     /\ coll[c].run = r
     /\ {coll[c].post} \X posts[coll[c].post].accepted \subseteq ready
     /\ coll[c].todo = posts[coll[c].post].accepted)
      ~> (manifest[r].state \in CompletedStates)

\* Every script that is started ends.
ScriptsEnd ==
  /\ \A e \in Executors : exec[e].pc # "idle" ~> exec[e].pc = "ended"
  /\ \A c \in Collectors : coll[c].pc = "working" ~> coll[c].pc = "idle"
=============================================================================
