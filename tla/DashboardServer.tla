--------------------------- MODULE DashboardServer ---------------------------
(***************************************************************************)
(* The dashboard database, the process that rebuilds it in place, the      *)
(* server that projects it once and keeps the projection, and its readers: *)
(* a client that follows the cursor of one listing, and the paid executor  *)
(* that reads its plan in four parallel requests.                          *)
(*   buildDashboardDb, openDashboardDb, projectDashboard                   *)
(*                           scripts/keyword-dashboard-db.mjs              *)
(*   the server              scripts/serve-keyword-dashboard.mjs           *)
(*   routeResearchApi        module ResearchApi                            *)
(*   the plan                scripts/execute-acquisition-remediation.mjs   *)
(***************************************************************************)
EXTENDS ResearchApi

CONSTANTS
  MaxBuilds,   \* bound: builds of the database
  MaxLives,    \* bound: times the server is started
  Rows,        \* the rows a snapshot may hold
  Content,     \* [0..MaxBuilds -> snapshots]: what each build writes, 0 nothing
  Files,       \* the snapshot of the contracts read from files at start
  Requests,    \* the requests a client may list
  Limits,      \* the page limits it may ask for
  Expiring,    \* bound: the builds whose price snapshot expires
  Missing      \* a table that is not there

\* The four requests of the executor.
Parts == {"portfolio", "batches", "readiness", "approval"}

ASSUME ServerAssumption ==
  /\ MaxBuilds \in Nat \ {0} /\ MaxLives \in Nat
  /\ Expiring \subseteq 1..MaxBuilds
  /\ Missing \notin 0..MaxBuilds
  /\ None \notin Nat
  /\ Content \in [0..MaxBuilds -> [groups : SUBSET Groups, rows : Seq(Rows)]]
  /\ Files \in [groups : SUBSET Groups, rows : Seq(Rows)]

\* A request is for a route of the dispatcher; a row of a contract, a catalogue
\* or a public corpus has neither site, group nor task.
ASSUME RequestsAssumption ==
  /\ \A request \in Requests : request.route \in Routes
  /\ \A row \in Rows :
       row.kind = "corpus" => row.site = None /\ row.groups = {} /\ row.task = None

VARIABLES
  db,        \* what is in the file: the stamp and the build of its tables
  builder,   \* where the build is, and how the last one that died got there
  server,    \* up, the tables a projection has read, and the one it keeps
  expired,   \* builds whose price snapshot is no longer valid
  listing,   \* the client's progress through one listing
  plan       \* the executor's progress through its four requests

vars == <<db, builder, server, expired, listing, plan>>

-----------------------------------------------------------------------------
(* The database and its builder                                            *)

Tables == {Missing} \cup 0..MaxBuilds

\* openDashboardDb and the builder accept a file that carries a stamp.
Stamped == db.stamp
\* A file that is not there, or holds a dashboard this builder may replace.
Replaceable == ~db.exists \/ Stamped

StartBuild ==
  /\ builder.pc = "idle" /\ builder.build < MaxBuilds
  /\ Replaceable
  /\ builder' = [builder EXCEPT !.pc = "opened", !.build = @ + 1, !.died = "no"]
  /\ UNCHANGED <<db, server, expired, listing, plan>>

\* The 117 drops of one exec, each on its own: the metadata is the last.
\* Faulty variant: the metadata goes with the first tables.
DropTablesAndStamp ==
  /\ builder.pc = "opened"
  /\ db' = [db EXCEPT !.groups = Missing, !.rows = Missing, !.stamp = FALSE]
  /\ builder' = [builder EXCEPT !.pc = "dropped"]
  /\ UNCHANGED <<server, expired, listing, plan>>

DropTables ==
  /\ builder.pc = "opened"
  /\ db' = [db EXCEPT !.groups = Missing, !.rows = Missing]
  /\ builder' = [builder EXCEPT !.pc = "dropped"]
  /\ UNCHANGED <<server, expired, listing, plan>>

DropMetadata ==
  /\ builder.pc = "dropped"
  /\ db' = [db EXCEPT !.stamp = FALSE]
  /\ builder' = [builder EXCEPT !.pc = "unstamped"]
  /\ UNCHANGED <<server, expired, listing, plan>>

CreateTables ==
  /\ builder.pc = "unstamped"
  /\ db' = [db EXCEPT !.exists = TRUE, !.groups = 0, !.rows = 0]
  /\ builder' = [builder EXCEPT !.pc = "created"]
  /\ UNCHANGED <<server, expired, listing, plan>>

\* The schema version is written before any row.
Stamp ==
  /\ builder.pc = "created"
  /\ db' = [db EXCEPT !.stamp = TRUE]
  /\ builder' = [builder EXCEPT !.pc = "stamped"]
  /\ UNCHANGED <<server, expired, listing, plan>>

FillGroups ==
  /\ builder.pc = "stamped"
  /\ db' = [db EXCEPT !.groups = builder.build]
  /\ builder' = [builder EXCEPT !.pc = "grouped"]
  /\ UNCHANGED <<server, expired, listing, plan>>

FillRows ==
  /\ builder.pc = "grouped"
  /\ db' = [db EXCEPT !.rows = builder.build]
  /\ builder' = [builder EXCEPT !.pc = "idle"]
  /\ UNCHANGED <<server, expired, listing, plan>>

BuildDies ==
  /\ builder.pc # "idle"
  /\ builder' = [builder EXCEPT !.pc = "idle", !.died = builder.pc]
  /\ UNCHANGED <<db, server, expired, listing, plan>>

\* The price snapshot of a build has a last day.  Bound: it passes once the
\* executor has asked; nobody else reads the price.
PriceExpires ==
  /\ plan.phase # "idle"
  /\ \E b \in Expiring \ expired : expired' = expired \cup {b}
  /\ UNCHANGED <<db, builder, server, listing, plan>>

-----------------------------------------------------------------------------
(* The server                                                              *)

Down == [up |-> FALSE, life |-> 0, read |-> None, memo |-> None]

\* openDashboardDb throws on a file without the schema version.
StartServer ==
  /\ ~server.up /\ server.life < MaxLives
  /\ Stamped
  /\ server' = [server EXCEPT !.up = TRUE, !.life = @ + 1]
  /\ UNCHANGED <<db, builder, expired, listing, plan>>

StopServer ==
  /\ server.up
  /\ server' = [server EXCEPT !.up = FALSE, !.read = None, !.memo = None]
  /\ UNCHANGED <<db, builder, expired, listing, plan>>

\* Routes answered without calling dashboard().
NeedsDashboard(request) == request.route.source # "file"

Waiting ==
  \/ listing.phase = "asking" /\ NeedsDashboard(listing.request)
  \/ plan.phase = "asking"

\* An exception in dashboard() is answered with a 404: whoever asked gives up.
Failed == [phase |-> "failed"]
Fail ==
  /\ listing' = IF listing.phase = "asking" THEN Failed ELSE listing
  /\ plan' = IF plan.phase = "asking" THEN Failed ELSE plan

\* dashboardCache ??= projectDashboard(db): the groups are selected first.
ReadGroups ==
  /\ server.up /\ server.memo = None /\ server.read = None /\ Waiting
  /\ IF db.groups = Missing
     THEN Fail /\ UNCHANGED server
     ELSE server' = [server EXCEPT !.read = db.groups] /\ UNCHANGED <<listing, plan>>
  /\ UNCHANGED <<db, builder, expired>>

\* What a projection says: what it was read from, by which life of the server,
\* and whether the price of its acquisition plan was valid when it was computed.
Projected(groups, rows) ==
  [groups |-> groups, rows |-> rows, priceExpired |-> rows \in expired,
   life |-> server.life]

\* Faulty variant: a table that is not there is read as no exception.
ReadRowsOfAny ==
  /\ server.up /\ server.read # None
  /\ server' = [server EXCEPT !.read = None, !.memo = Projected(server.read, db.rows)]
  /\ UNCHANGED <<db, builder, expired, listing, plan>>

\* The rest is selected, and the whole is kept.
ReadRows ==
  /\ server.up /\ server.read # None
  /\ IF db.rows = Missing
     THEN /\ Fail
          /\ server' = [server EXCEPT !.read = None]
     ELSE /\ server' = [server EXCEPT !.read = None,
                                      !.memo = Projected(server.read, db.rows)]
          /\ UNCHANGED <<listing, plan>>
  /\ UNCHANGED <<db, builder, expired>>

\* The rows of every request, by the builds its groups and its rows are read of.
Found ==
  [request \in Requests |-> [groups \in 0..MaxBuilds |-> [rows \in 0..MaxBuilds |->
     AnsweredRows(request, Content[groups],
                  IF NeedsDashboard(request) THEN Content[rows] ELSE Files)]]]

\* The groups are those of the projection, even for rows read from the database.
GroupsBuild(request) == IF NeedsDashboard(request) THEN server.memo.groups ELSE 0
\* Faulty variant: nothing is kept: each request reads the database again.
RowsBuildAfresh(request) ==
  IF request.route.source = "file" \/ db.rows = Missing THEN 0 ELSE db.rows

RowsBuild(request) ==
  CASE request.route.source = "file" -> 0
    [] request.route.source = "projection" -> server.memo.rows
    [] request.route.source = "database" -> db.rows
Answered(request) == Found[request][GroupsBuild(request)][RowsBuild(request)]

-----------------------------------------------------------------------------
(* The client of a listing                                                 *)

NoListing == [phase |-> "idle"]

StartListing ==
  /\ listing.phase = "idle" /\ plan.phase = "idle"
  /\ server.up
  /\ \E request \in Requests, limit \in Limits :
       listing' = [phase |-> "asking", request |-> request, limit |-> limit,
                   cursor |-> 0, got |-> << >>, life |-> server.life]
  /\ UNCHANGED <<db, builder, server, expired, plan>>

\* A live route whose table is missing throws, like the projection.
LiveTableGone(request) == request.route.source = "database" /\ db.rows = Missing

\* The listing after the answer to its next page.
Followed(request, rows) ==
  LET page == IF ViewOf(request) \in request.route.whole THEN WholePage(rows)
              ELSE Page(rows, listing.limit, listing.cursor)
  IN [listing EXCEPT !.got = @ \o page.data,
                     !.cursor = IF page.next = None THEN @ ELSE page.next,
                     !.phase = IF page.next = None THEN "done" ELSE "asking"]

AnswerPage ==
  /\ server.up /\ listing.phase = "asking"
  /\ LET request == listing.request
     IN /\ NeedsDashboard(request) => server.memo # None
        /\ listing' =
             IF LiveTableGone(request) THEN Failed
             ELSE IF Status(request, Content[GroupsBuild(request)], Answered(request)) = 200
                  THEN Followed(request, Answered(request))
                  ELSE Failed
  /\ UNCHANGED <<db, builder, server, expired, plan>>

-----------------------------------------------------------------------------
(* The executor's plan                                                     *)

NoPlan == [phase |-> "idle"]

StartPlan ==
  /\ listing.phase = "idle" /\ plan.phase = "idle"
  /\ server.up
  /\ plan' = [phase |-> "asking", parts |-> [p \in Parts |-> None]]
  /\ UNCHANGED <<db, builder, server, expired, listing>>

\* The four requests are on their way together and answered in any order.
\* Faulty variant: each request has a projection of its own.
AnswerPartAfresh ==
  /\ server.up /\ server.memo # None /\ plan.phase = "asking"
  /\ db.groups # Missing /\ db.rows # Missing
  /\ \E p \in Parts :
       /\ plan.parts[p] = None
       /\ plan' = [plan EXCEPT !.parts[p] = Projected(db.groups, db.rows)]
  /\ UNCHANGED <<db, builder, server, expired, listing>>

AnswerPart ==
  /\ server.up /\ server.memo # None /\ plan.phase = "asking"
  /\ \E p \in Parts :
       /\ plan.parts[p] = None
       /\ plan' = [plan EXCEPT !.parts[p] = server.memo]
  /\ UNCHANGED <<db, builder, server, expired, listing>>

SameBuilds(part, other) == part.groups = other.groups /\ part.rows = other.rows

\* The checks before anything is paid; counts that differ are refused, and
\* those of different builds may agree.
Admissible(parts, countsAgree) ==
  /\ \A p \in Parts : parts[p].rows # 0
  /\ ~parts["approval"].priceExpired
  /\ countsAgree \/ SameBuilds(parts["portfolio"], parts["approval"])

DecidePlan ==
  /\ plan.phase = "asking" /\ \A p \in Parts : plan.parts[p] # None
  /\ \E countsAgree \in BOOLEAN :
       plan' = IF Admissible(plan.parts, countsAgree)
               THEN [plan EXCEPT !.phase = "admitted"] ELSE Failed
  /\ UNCHANGED <<db, builder, server, expired, listing>>

\* Whoever asks while the server is down is refused the connection.
Unreachable ==
  /\ ~server.up
  /\ \/ listing.phase = "asking"
     \/ plan.phase = "asking" /\ \E p \in Parts : plan.parts[p] = None
  /\ Fail
  /\ UNCHANGED <<db, builder, server, expired>>

-----------------------------------------------------------------------------
Init ==
  /\ \/ db = [exists |-> FALSE, stamp |-> FALSE, groups |-> Missing, rows |-> Missing]
        /\ builder = [pc |-> "idle", build |-> 0, died |-> "no"]
     \/ db = [exists |-> TRUE, stamp |-> TRUE, groups |-> 1, rows |-> 1]
        /\ builder = [pc |-> "idle", build |-> 1, died |-> "no"]
  /\ server = Down
  /\ expired = {}
  /\ listing = NoListing
  /\ plan = NoPlan

Build ==
  \/ StartBuild \/ DropTables \/ DropMetadata \/ CreateTables \/ Stamp
  \/ FillGroups \/ FillRows \/ BuildDies

Project == ReadGroups \/ ReadRows
Answer == AnswerPage \/ AnswerPart \/ DecidePlan \/ Unreachable

Next ==
  \/ Build \/ PriceExpires
  \/ StartServer \/ StopServer
  \/ Project
  \/ StartListing \/ StartPlan
  \/ Answer

Spec == Init /\ [][Next]_vars

\* The server is an event loop: what it was asked is projected and answered.
FairSpec == Spec /\ WF_vars(Project) /\ WF_vars(Answer)

-----------------------------------------------------------------------------
(* Properties                                                              *)

Projections ==
  [groups : 0..MaxBuilds, rows : 0..MaxBuilds, priceExpired : BOOLEAN, life : 0..MaxLives]

\* The shape of the state.
TypeOK ==
  /\ db \in [exists : BOOLEAN, stamp : BOOLEAN, groups : Tables, rows : Tables]
  /\ builder \in [pc : {"idle", "opened", "dropped", "unstamped", "created", "stamped", "grouped"},
                  build : 0..MaxBuilds,
                  died : {"no", "opened", "dropped", "unstamped", "created", "stamped", "grouped"}]
  /\ server.up \in BOOLEAN /\ server.life \in 0..MaxLives
  /\ server.read \in {None} \cup 0..MaxBuilds
  /\ server.memo \in {None} \cup Projections
  /\ expired \subseteq Expiring
  /\ \/ listing \in {NoListing, Failed}
     \/ /\ listing.phase \in {"asking", "done"}
        /\ listing.request \in Requests /\ listing.limit \in Limits
        /\ listing.cursor \in Nat /\ listing.got \in Seq(Rows)
  /\ \/ plan \in {NoPlan, Failed}
     \/ /\ plan.phase \in {"asking", "admitted"}
        /\ \A p \in Parts : plan.parts[p] \in {None} \cup Projections

\* A database the builder refuses to replace is one whose last build died
\* between the drop of the metadata and the stamp, and no other.
OnlyTheStampWindowLocks ==
  builder.pc = "idle" /\ ~Replaceable => builder.died \in {"unstamped", "created"}

\* The client that follows next_cursor within one life of the server has, when
\* there is no next page, every row the route answers: each once, in order,
\* whatever was built meanwhile.  A live route makes no such promise.
ListingIsWhole ==
  listing.phase = "done" /\ server.memo # None /\ listing.life = server.life
    /\ listing.request.route.source = "projection"
  => listing.got = Answered(listing.request)

\* The sites a row belongs to, by itself, by its groups or by its task.
Owners(row) ==
  ({row.site} \cup {SiteOf[g] : g \in row.groups}
     \cup {SiteOf[GroupOf[t]] : t \in {row.task} \ {None}}) \ {None}

\* The keyword expansion lineage is built of the demand occurrences of all sites
\* (scripts/keyword-dashboard-db.mjs:754), and its route answers all of them.
OfAllSites(request, row) == request.route.tie = "lineage" /\ row.kind = "occurrence"

\* No row of another site is answered, on live and kept rows alike, but to a
\* request that names its group or task, and but for the occurrences in the
\* expansion lineage; rows of no site are anyone's.
OnlyOwnRows ==
  listing.phase \in {"asking", "done"} /\ listing.request.route.tie # "named"
  => \A i \in DOMAIN listing.got :
       Owners(listing.got[i]) # {} /\ ~OfAllSites(listing.request, listing.got[i])
       => listing.request.site \in Owners(listing.got[i])

\* Of the four answers an executor admits, those that one life of the server
\* gave are of one projection, although the database was rebuilt between them and
\* whichever lives gave the others: answers of two lives may differ.
PlanIsOfOneProjection ==
  plan.phase = "admitted"
  => \A p, r \in Parts :
       plan.parts[p].life = plan.parts[r].life => plan.parts[p] = plan.parts[r]

\* The approval an executor reads says of its price what is true when it is
\* answered: "price snapshot expired" stops the payment
\* (scripts/execute-acquisition-remediation.mjs:29).
PriceFlagIsCurrent ==
  [][plan.phase = "asking" /\ plan'.phase = "asking"
       /\ plan.parts["approval"] = None /\ plan'.parts["approval"] # None
     => plan'.parts["approval"].priceExpired
          = (plan'.parts["approval"].rows \in expired)]_vars

\* Whoever asks is answered or refused, page after page and part after part:
\* the cursor of a page is past the one before.
ReadersEnd ==
  /\ (listing.phase = "asking") ~> (listing.phase # "asking")
  /\ (plan.phase = "asking") ~> (plan.phase # "asking")
=============================================================================
