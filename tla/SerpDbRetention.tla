--------------------------- MODULE SerpDbRetention ---------------------------
(***************************************************************************)
(* auditSerpDbRetention: the comparison of the raw task files on disk with *)
(* the database that was built from them, and the importer whose rows it   *)
(* checks.                                                                 *)
(*                                                                         *)
(* The content of a file is a record: its task, the fields of the task and *)
(* of the result, and its items in order.  A field is named by its path    *)
(* and has the state of its value.  A digest is the content itself, and    *)
(* the importer writes the digest and the size with the content.           *)
(***************************************************************************)
EXTENDS Naturals, FiniteSets, SequencesExt

CONSTANTS
  RawFiles,          \* the files of all raw directories
  AuditedFiles,      \* those in the three directories the audit reads
  FirstOf(_),        \* of a set of files the one the audit reads first
  Contents,          \* what a file may hold: [task, fields, items]
  NoFile, NoDatabase

ASSUME RetentionAssumption ==
  /\ IsFiniteSet(RawFiles)
  /\ AuditedFiles \subseteq RawFiles
  /\ \A part \in (SUBSET RawFiles) \ {{}} : FirstOf(part) \in part

\* The key of the organic rows is task and rank: a build of two organic items of
\* one rank throws.
ASSUME ContentsAssumption ==
  \A content \in Contents :
    /\ content # NoFile
    /\ content.items \in Seq(Range(content.items))
    /\ \A n, m \in DOMAIN content.items :
         /\ content.items[n].type = "organic" /\ content.items[n].url
         /\ content.items[m].type = "organic" /\ content.items[m].url
         /\ content.items[n].rank = content.items[m].rank
         => n = m

VARIABLES
  files,             \* of each file its content, or NoFile
  database           \* the rows that matter here, or NoDatabase

retentionVars == <<files, database>>

Holds(content) == content # NoFile

-----------------------------------------------------------------------------
\* rawSnapshots and the inserts of its snapshots.  An organic item without an
\* address is left out, and features are counted among themselves.
OrganicItems(content) ==
  {content.items[n] : n \in {m \in DOMAIN content.items : content.items[m].type = "organic"}}

ImportedOrganic(content) == {item \in OrganicItems(content) : item.url}

\* Faulty variant: the order of a feature is its order among all items.
OrderAmongAll(content) ==
  {[task |-> content.task, order |-> n - 1, payload |-> content.items[n]] :
     n \in {m \in DOMAIN content.items : content.items[m].type # "organic"}}

\* The features among the first n items, in their order.
FirstFeatures(items) ==
  LET first[n \in 0..Len(items)] ==
        IF n = 0 THEN << >>
        ELSE IF items[n].type # "organic" THEN Append(first[n - 1], items[n])
        ELSE first[n - 1]
  IN first

Features(items) == FirstFeatures(items)[Len(items)]

ImportedFeatures(content) ==
  {[task |-> content.task, order |-> n - 1, payload |-> Features(content.items)[n]] :
     n \in DOMAIN Features(content.items)}

OrganicRows(contents) ==
  UNION {{[task |-> content.task, rank |-> item.rank, item |-> item] :
            item \in ImportedOrganic(content)} : content \in contents}

Import(contents, selected) ==
  LET connected == {content \in contents : content.task \in selected}
      tasks     == {content.task : content \in connected}
  IN [inventory       |-> {content.task : content \in contents},
      connected       |-> tasks,
      metadata        |-> tasks,
      payloads        |-> contents,
      organic         |-> OrganicRows(connected),
      snapshotOrganic |-> OrganicRows(contents),
      features        |-> UNION {ImportedFeatures(content) : content \in contents}]

OnDisk(part) == {files[file] : file \in {f \in part : Holds(files[f])}}

TwoOfOneTask ==
  \E file, other \in RawFiles :
    /\ file # other
    /\ Holds(files[file]) /\ Holds(files[other])
    /\ files[file].task = files[other].task

-----------------------------------------------------------------------------
RetentionInit ==
  /\ files = [file \in RawFiles |-> NoFile]
  /\ database = NoDatabase

\* An acquisition writes or replaces a file.
WriteRaw(file, content) ==
  /\ files' = [files EXCEPT ![file] = content]
  /\ UNCHANGED database

\* A build replaces the rows, unless two files of one task make it throw.
BuildDatabase(selected) ==
  /\ selected \subseteq {content.task : content \in OnDisk(RawFiles)}
  /\ ~TwoOfOneTask
  /\ database' = Import(OnDisk(RawFiles), selected)
  /\ UNCHANGED files

RetentionNext ==
  \/ \E file \in RawFiles, content \in Contents \cup {NoFile} : WriteRaw(file, content)
  \/ \E selected \in SUBSET {content.task : content \in Contents} : BuildDatabase(selected)

RetentionSpec == RetentionInit /\ [][RetentionNext]_retentionVars

-----------------------------------------------------------------------------
\* parseRawTask: the first file of a task is compared, the others only listed.
RawTasks ==
  LET held == {file \in AuditedFiles : Holds(files[file])}
  IN {files[FirstOf({other \in held : files[other].task = files[file].task})] : file \in held}

RawTaskIds == {content.task : content \in RawTasks}

Scope(task) == IF task \in database.connected THEN "connected" ELSE "unconnected"
InScope(scope) == {content \in RawTasks : Scope(content.task) = scope}

PayloadOf(task) == {content \in database.payloads : content.task = task}

OrganicRow(rows, task, rank) == {row \in rows : row.task = task /\ row.rank = rank}

\* The organic items of some files, or the others, the features.
CountItems(contents, organic) ==
  Cardinality(UNION {
    {<<content, n>> :
       n \in {m \in DOMAIN content.items : (content.items[m].type = "organic") = organic}} :
    content \in contents})

\* The audit counts the features as it meets them.
AuditedFeatures(content) ==
  {[task |-> content.task, payload |-> content.items[n],
    order |-> Cardinality({m \in 1..(n - 1) : content.items[m].type # "organic"})] :
     n \in {m \in DOMAIN content.items : content.items[m].type # "organic"}}

UnconnectedRows == {row \in database.snapshotOrganic : row.task \notin database.connected}

\* Faulty variant: the stored payload is not compared with the file.
PayloadsOfKnownTasks ==
  /\ Cardinality(RawTaskIds) = Cardinality(database.payloads)
  /\ \A content \in database.payloads : content.task \in RawTaskIds

RawPayloadMatch ==
  /\ Cardinality(RawTaskIds) = Cardinality(database.payloads)
  /\ \A content \in database.payloads : content.task \in RawTaskIds
  /\ \A content \in RawTasks : PayloadOf(content.task) = {content}

OrganicRowMatch ==
  CountItems(RawTasks, TRUE) = Cardinality(database.organic) + Cardinality(UnconnectedRows)

FeatureValueMatch ==
  \A content \in RawTasks : \A feature \in AuditedFeatures(content) :
    \A row \in database.features :
      row.task = feature.task /\ row.order = feature.order => row = feature

OrganicValueMatch ==
  /\ \A content \in InScope("connected") : \A item \in OrganicItems(content) :
       \A row \in OrganicRow(database.organic, content.task, item.rank) : row.item = item
  /\ \A content \in InScope("unconnected") : \A item \in OrganicItems(content) :
       OrganicRow(database.snapshotOrganic, content.task, item.rank) # {}

CleanAudit ==
  /\ database # NoDatabase
  /\ RawTaskIds \subseteq database.inventory
  /\ database.connected \subseteq database.metadata
  /\ OrganicRowMatch
  /\ CountItems(RawTasks, FALSE) = Cardinality(database.features)
  /\ RawPayloadMatch
  /\ FeatureValueMatch
  /\ OrganicValueMatch

-----------------------------------------------------------------------------
\* The fields with columns of their own.
ConnectedTaskFields == {"task.id", "task.cost", "result.keyword"}
ConnectedJsonFields == {"task.data", "result.spell"}
ConnectedOrganicFields == {"organic.type", "organic.url", "organic.description", "organic.links"}
UnconnectedInventoryFields == {"task.id", "task.cost", "result.keyword"}
UnconnectedOrganicFields == {"organic.url"}

PayloadOr(task, otherwise) ==
  IF PayloadOf(task) # {} THEN "exact_raw_snapshot_payload" ELSE otherwise

FeatureProjection(task, order) ==
  IF \E row \in database.features : row.task = task /\ row.order = order
  THEN "exact_feature_payload" ELSE PayloadOr(task, "projection_gap")

OrganicProjection(field, task, rank) ==
  IF Scope(task) = "connected"
  THEN IF OrganicRow(database.organic, task, rank) = {} THEN "projection_gap"
       ELSE IF field = "organic.links" THEN "exact_json_column"
       ELSE IF field \in ConnectedOrganicFields THEN "exact_structured"
       ELSE PayloadOr(task, "not_retained")
  ELSE IF field \in UnconnectedOrganicFields
       THEN IF OrganicRow(database.snapshotOrganic, task, rank) = {}
            THEN "projection_gap" ELSE "exact_inventory_projection"
       ELSE IF field = "organic.type" /\ PayloadOf(task) = {} THEN "implicit_context"
       ELSE PayloadOr(task, "not_retained")

TaskProjection(field, task) ==
  IF Scope(task) = "connected"
  THEN CASE field \in ConnectedJsonFields -> "exact_json_column"
         [] field \in ConnectedTaskFields -> "exact_structured"
         [] OTHER                         -> PayloadOr(task, "not_retained")
  ELSE IF field \in UnconnectedInventoryFields THEN "exact_inventory_projection"
  ELSE PayloadOr(task, "not_retained")

\* addFieldObservation: every field seen, with where it is retained.
Observations ==
  UNION {
    {[scope |-> Scope(content.task), field |-> seen.field, state |-> seen.state,
      retention |-> TaskProjection(seen.field, content.task)] : seen \in content.fields}
    \cup (UNION {{[scope |-> Scope(content.task), field |-> seen.field, state |-> seen.state,
                  retention |-> OrganicProjection(seen.field, content.task, item.rank)] :
                   seen \in item.fields} : item \in OrganicItems(content)})
    \cup UNION {{[scope |-> Scope(content.task), field |-> seen.field, state |-> seen.state,
                  retention |-> FeatureProjection(content.task, feature.order)] :
                   seen \in feature.payload.fields} : feature \in AuditedFeatures(content)} :
    content \in RawTasks}

ExactStates == {"exact_structured", "exact_json_column", "exact_feature_payload",
                "exact_inventory_projection", "exact_raw_snapshot_payload"}

Severity(scope, field) ==
  LET seen == {o \in Observations : o.scope = scope /\ o.field = field}
      lost == {o \in seen : o.retention = "not_retained"}
  IN IF \E o \in seen : o.retention = "projection_gap" THEN "projection_gap"
     ELSE IF \E o \in lost : o.state = "nonempty" THEN "dropped_nonempty"
     ELSE IF lost # {} THEN "state_only_dropped"
     ELSE IF \A o \in seen : o.retention = "implicit_context" THEN "implicit_context_only"
     ELSE "retained"

\* What was seen of a scope, by how it is retained.  Observations that look alike
\* count once.
ScopeSummary(scope) ==
  LET seen == {o \in Observations : o.scope = scope}
      count(Kind(_)) == Cardinality({o \in seen : Kind(o)})
  IN [tasks       |-> Cardinality(InScope(scope)),
      raw         |-> Cardinality(seen),
      exact       |-> count(LAMBDA o : o.retention \in ExactStates),
      contextual  |-> count(LAMBDA o : o.retention = "implicit_context"),
      notRetained |-> count(LAMBDA o : o.retention = "not_retained"),
      gaps        |-> count(LAMBDA o : o.retention = "projection_gap")]

AllSummary ==
  LET connected == ScopeSummary("connected")
      unconnected == ScopeSummary("unconnected")
  IN [sum \in DOMAIN connected |-> connected[sum] + unconnected[sum]]

-----------------------------------------------------------------------------
\* When every flag of the audit is set, and it listed no second file of a task,
\* the database is what an import of the audited files would give now: no file
\* changed, came or went since the build without the audit telling.
CleanAuditMeansDatabaseMatchesFiles ==
  /\ CleanAudit
  /\ Cardinality(RawTasks) = Cardinality({file \in AuditedFiles : Holds(files[file])})
  => database = Import(OnDisk(AuditedFiles), database.connected)

\* The importer and the audit agree on what is to be retained: a database just
\* built from audited files alone, in which every organic item has an address,
\* passes, no field of theirs is lost in any scope, and the sums over the scopes
\* tell of every task and of exact retention only.
FreshBuildRetainsEverything ==
  /\ database # NoDatabase
  /\ database = Import(OnDisk(RawFiles), database.connected)
  /\ OnDisk(RawFiles \ AuditedFiles) = {}
  /\ ~TwoOfOneTask
  /\ \A content \in OnDisk(RawFiles) : OrganicItems(content) = ImportedOrganic(content)
  => /\ CleanAudit
     /\ \A o \in Observations : Severity(o.scope, o.field) = "retained"
     /\ LET all == AllSummary IN all.tasks = Cardinality(RawTaskIds) /\ all.exact = all.raw
=============================================================================
