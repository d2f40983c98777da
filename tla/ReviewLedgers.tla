---------------------------- MODULE ReviewLedgers ----------------------------
(***************************************************************************)
(* Two of the ledgers of human review decisions and the database they are  *)
(* kept in.  A source decision is about a claim and the public source      *)
(* found for it; an application decision is about a packet, which          *)
(* collects, for one article group, the claims whose sources were          *)
(* approved.                                                               *)
(*                                                                         *)
(* Reviewers work on what the dashboard shows and export their decisions   *)
(* to files.  Later the import scripts check a file against the database   *)
(* as it is then and write it there in one transaction.  A rebuild         *)
(* replaces the content of the database meanwhile.                         *)
(*                                                                         *)
(* SQLite is external: one writer at a time, and a transaction that does   *)
(* not commit leaves nothing.  A digest is what it is taken of, so a       *)
(* decision digest is the file the decision was in.  Files the field       *)
(* checks refuse in every database, an approval whose prerequisites are    *)
(* not all confirmed among them, are left out.                             *)
(***************************************************************************)
EXTENDS Naturals, FiniteSets

CONSTANTS
  Claims, Groups,
  GroupOf,           \* the article group of a claim
  Evidences,         \* the public source evidence a database can be built from
  Eligible,          \* of each evidence the claims its sources directly support
  Reviewers, Files,
  OtherStates,       \* changes_requested, rejected, deferred
  None

Approval == "approved"

ASSUME LedgerAssumption ==
  /\ GroupOf \in [Claims -> Groups]
  /\ Eligible \in [Evidences -> SUBSET Claims]
  /\ Claims \cap Groups = {}
  /\ Approval \notin OtherStates

VARIABLES
  evidence,          \* what the database's content was built from
  version,           \* dashboard_metadata holds a schema version
  exists,            \* the decision tables that exist
  tables,            \* decision sets and decisions, committed
  tx,                \* the transaction of an import
  file, pc,          \* decision files, and where the import of each is
  builder            \* the rebuild

vars == <<evidence, version, exists, tables, tx, file, pc, builder>>

Kinds == {"source", "application"}
TableNames == Kinds \X {"decisions", "sets"}
Ids(kind) == IF kind = "source" THEN Claims ELSE Groups
Decision == OtherStates \cup {Approval}
\* At least one decision, and no item twice.
DecisionLists(kind) == UNION {[ids -> Decision] : ids \in (SUBSET Ids(kind)) \ {{}}}

\* The reviews of each claim, by the files they are in.
Reviews == [Claims -> SUBSET Files]
Review == Evidences \X Claims \X SUBSET Files
Packet == [group : Groups, placements : SUBSET Review]
PacketSets == [packets : SUBSET Packet, blocked : SUBSET Review]
DecisionFile ==
  [kind : {"source"}, digest : Evidences, reviewer : Reviewers,
   decisions : DecisionLists("source")]
    \cup
  [kind : {"application"}, digest : PacketSets, reviewer : Reviewers,
   decisions : DecisionLists("application"), seen : Reviews]

Tables == [sets : SUBSET Files, rows : SUBSET (Files \X (Claims \cup Groups))]
Transaction == [file : Files, sets : SUBSET Files, rows : SUBSET (Files \X (Claims \cup Groups))]
NoRows == [sets |-> {}, rows |-> {}]

ASSUME SentinelAssumption == None \notin Evidences \cup DecisionFile \cup Transaction

-----------------------------------------------------------------------------
(* The projection                                                          *)

IsOf(f, kind, digest) == file[f].kind = kind /\ file[f].digest = digest

\* Rows count under the digest they were decided under.
ReviewsIn(db, kind, digest, id) ==
  {f \in Files : <<f, id>> \in db.rows /\ IsOf(f, kind, digest)}

\* Faulty variant: one reviewer's approval is enough.
ApprovedByAny(reviews, id) ==
  \E f \in reviews : file[f].decisions[id] = Approval

\* Different states are a disagreement, which approves nothing.
Approved(reviews, id) ==
  /\ reviews # {}
  /\ \A f \in reviews : file[f].decisions[id] = Approval

SourceReviews(db, e) ==
  [c \in Claims |-> IF c \in Eligible[e] THEN ReviewsIn(db, "source", e, c) ELSE {}]

\* Faulty variant: placements without the decisions behind them.
PlacementWithoutDecisions(e, reviews, c) == <<e, c, {}>>

\* Placements and blocked reviews hold the digest of the review and those of
\* its decisions.
Placement(e, reviews, c) == <<e, c, reviews[c]>>

\* One packet per group with an eligible claim; the others are blocked.
PacketsOf(e, reviews, eligible) ==
  LET packet(g) ==
        [group |-> g,
         placements |-> {Placement(e, reviews, c) : c \in {d \in eligible : GroupOf[d] = g}}]
  IN [packets |-> {packet(g) : g \in {GroupOf[c] : c \in eligible}},
      blocked |-> {<<e, c, reviews[c]>> : c \in Eligible[e] \ eligible}]

PacketSet(e, reviews) ==
  PacketsOf(e, reviews, {c \in Eligible[e] : Approved(reviews[c], c)})

PacketGroups(packetSet) == {packet.group : packet \in packetSet.packets}

CurrentReviews == SourceReviews(tables, evidence)
CurrentPackets == PacketSet(evidence, CurrentReviews)
ClaimUseApproved(c) == Approved(CurrentReviews[c], c)
ManualApplicationApproved(g) ==
  /\ evidence # None
  /\ g \in PacketGroups(CurrentPackets)
  /\ Approved(ReviewsIn(tables, "application", CurrentPackets, g), g)

-----------------------------------------------------------------------------
Init ==
  /\ evidence \in Evidences
  /\ version = TRUE
  /\ exists = TableNames
  /\ tables = NoRows
  /\ tx = None
  /\ file = [f \in Files |-> None]
  /\ pc = [f \in Files |-> "none"]
  /\ builder = "idle"

\* Reviewers decide on what the page shows and may edit the file.  From a page
\* that is old the file was made earlier.
Exports(f) ==
  /\ pc[f] = "none"
  /\ evidence # None
  /\ pc' = [pc EXCEPT ![f] = "made"]
  /\ UNCHANGED <<evidence, version, exists, tables, tx, builder>>

ExportSourceDecisions(f, reviewer, decisions) ==
  /\ Exports(f)
  /\ file' = [file EXCEPT ![f] =
       [kind |-> "source", digest |-> evidence,
        reviewer |-> reviewer, decisions |-> decisions]]

\* What the reviewer has seen is kept for the properties only.
ExportApplicationDecisions(f, reviewer, decisions) ==
  /\ Exports(f)
  /\ file' = [file EXCEPT ![f] =
       [kind |-> "application", digest |-> CurrentPackets,
        reviewer |-> reviewer, decisions |-> decisions, seen |-> CurrentReviews]]

-----------------------------------------------------------------------------
(* The imports                                                             *)

Digest(kind) == IF kind = "source" THEN evidence ELSE CurrentPackets
Items(kind, digest) == IF kind = "source" THEN Eligible[digest] ELSE PacketGroups(digest)

SameKey(f, g) == IsOf(g, file[f].kind, file[f].digest) /\ file[g].reviewer = file[f].reviewer

\* Faulty variant: unknown items are not refused.
AnyItemIsValid(f) == IsOf(f, file[f].kind, Digest(file[f].kind))

\* The file is of the item set the database has now, and names nothing else.
\* That an item is named once, has a state of its ledger and, when approved,
\* all its checks, is in DecisionFile.
DecisionsAreValid(f) ==
  /\ IsOf(f, file[f].kind, Digest(file[f].kind))
  /\ DOMAIN file[f].decisions \subseteq Items(file[f].kind, file[f].digest)

\* The script projects the database, checks the file against it and asks
\* whether the reviewer's set is there.  If not all is well it throws.
Validate(f) ==
  /\ pc[f] = "made"
  /\ evidence # None
  /\ DecisionsAreValid(f)
  /\ ~ \E g \in tables.sets : SameKey(f, g)
  /\ pc' = [pc EXCEPT ![f] = "validated"]
  /\ UNCHANGED <<evidence, version, exists, tables, tx, file, builder>>

\* Faulty variant: the table has no primary key.
InsertSetWithoutKey(f) ==
  /\ pc[f] = "validated"
  /\ tx = None
  /\ <<file[f].kind, "sets">> \in exists
  /\ tx' = [file |-> f, sets |-> tables.sets \cup {f}, rows |-> tables.rows]
  /\ pc' = [pc EXCEPT ![f] = "inserting"]
  /\ UNCHANGED <<evidence, version, exists, tables, file, builder>>

\* BEGIN, and the insert that takes the write lock and meets the primary key.
InsertSet(f) ==
  /\ pc[f] = "validated"
  /\ tx = None
  /\ <<file[f].kind, "sets">> \in exists
  /\ ~ \E g \in tables.sets : SameKey(f, g)
  /\ tx' = [file |-> f, sets |-> tables.sets \cup {f}, rows |-> tables.rows]
  /\ pc' = [pc EXCEPT ![f] = "inserting"]
  /\ UNCHANGED <<evidence, version, exists, tables, file, builder>>

InsertDecision(f, id) ==
  /\ pc[f] = "inserting"
  /\ <<file[f].kind, "decisions">> \in exists
  /\ id \in DOMAIN file[f].decisions
  /\ <<f, id>> \notin tx.rows
  /\ tx' = [tx EXCEPT !.rows = @ \cup {<<f, id>>}]
  /\ UNCHANGED <<evidence, version, exists, tables, file, pc, builder>>

\* Faulty variant: the transaction ends with the insert of the set.
CommitEarly(f) ==
  /\ pc[f] = "inserting"
  /\ tables' = [sets |-> tx.sets, rows |-> tx.rows]
  /\ tx' = None
  /\ pc' = [pc EXCEPT ![f] = "made"]
  /\ UNCHANGED <<evidence, version, exists, file, builder>>

\* The file is still there and may be imported again.
Commit(f) ==
  /\ pc[f] = "inserting"
  /\ \A id \in DOMAIN file[f].decisions : <<f, id>> \in tx.rows
  /\ tables' = [sets |-> tx.sets, rows |-> tx.rows]
  /\ tx' = None
  /\ pc' = [pc EXCEPT ![f] = "made"]
  /\ UNCHANGED <<evidence, version, exists, file, builder>>

\* The database is locked, the key is there, the table is not, the process dies.
ImportFails(f) ==
  /\ pc[f] \in {"validated", "inserting"}
  /\ pc' = [pc EXCEPT ![f] = "made"]
  /\ tx' = IF pc[f] = "inserting" THEN None ELSE tx
  /\ UNCHANGED <<evidence, version, exists, tables, file, builder>>

-----------------------------------------------------------------------------
(* The rebuild in place: every statement is a transaction of its own       *)

Rebuilds(from, to) ==
  /\ builder = from
  /\ tx = None
  /\ builder' = to
  /\ UNCHANGED <<tx, file, pc>>

\* A file without a schema version is refused.
StartRebuild ==
  /\ Rebuilds("idle", "dropping")
  /\ version
  /\ evidence' = None
  /\ UNCHANGED <<version, exists, tables>>

\* The application ledger goes first, and of a ledger the decisions.
DropDecisions(kind) ==
  /\ Rebuilds("dropping", "dropping")
  /\ <<kind, "decisions">> \in exists
  /\ kind = "source" => <<"application", "sets">> \notin exists
  /\ tables' = [tables EXCEPT !.rows = {row \in @ : file[row[1]].kind # kind}]
  /\ exists' = exists \ {<<kind, "decisions">>}
  /\ UNCHANGED <<evidence, version>>

DropSets(kind) ==
  /\ Rebuilds("dropping", "dropping")
  /\ <<kind, "sets">> \in exists
  /\ <<kind, "decisions">> \notin exists
  /\ tables' = [tables EXCEPT !.sets = {f \in @ : file[f].kind # kind}]
  /\ exists' = exists \ {<<kind, "sets">>}
  /\ UNCHANGED <<evidence, version>>

CreateTables ==
  /\ Rebuilds("dropping", "stamping")
  /\ exists = {}
  /\ version' = FALSE
  /\ exists' = TableNames
  /\ UNCHANGED <<evidence, tables>>

StampVersion ==
  /\ Rebuilds("stamping", "filling")
  /\ version' = TRUE
  /\ UNCHANGED <<evidence, exists, tables>>

FinishRebuild(e) ==
  /\ Rebuilds("filling", "idle")
  /\ evidence' = e
  /\ UNCHANGED <<version, exists, tables>>

\* The database is locked, an input is missing, the process dies.
RebuildFails ==
  /\ builder # "idle"
  /\ builder' = "idle"
  /\ UNCHANGED <<evidence, version, exists, tables, tx, file, pc>>

-----------------------------------------------------------------------------
Import(f) ==
  \/ Validate(f)
  \/ InsertSet(f)
  \/ \E id \in Claims \cup Groups : InsertDecision(f, id)
  \/ Commit(f)
  \/ ImportFails(f)

Rebuild ==
  \/ StartRebuild
  \/ \E kind \in Kinds : DropDecisions(kind) \/ DropSets(kind)
  \/ CreateTables
  \/ StampVersion
  \/ \E e \in Evidences : FinishRebuild(e)
  \/ RebuildFails

Next ==
  \/ \E f \in Files, reviewer \in Reviewers :
       \/ \E decisions \in DecisionLists("source") :
            ExportSourceDecisions(f, reviewer, decisions)
       \/ \E decisions \in DecisionLists("application") :
            ExportApplicationDecisions(f, reviewer, decisions)
  \/ \E f \in Files : Import(f)
  \/ Rebuild

Spec == Init /\ [][Next]_vars

-----------------------------------------------------------------------------
\* The state has the shape the model gives it, and every decision that is
\* stored is about an item of the packet it was imported for.
TypeOK ==
  /\ evidence \in Evidences \cup {None}
  /\ version \in BOOLEAN
  /\ exists \subseteq TableNames
  /\ tables \in Tables
  /\ tx \in Transaction \cup {None}
  /\ file \in [Files -> DecisionFile \cup {None}]
  /\ pc \in [Files -> {"none", "made", "validated", "inserting"}]
  /\ builder \in {"idle", "dropping", "stamping", "filling"}
  /\ \A f \in tables.sets : file[f] # None
  /\ \A row \in tables.rows :
       row[2] \in Items(file[row[1]].kind, file[row[1]].digest)

\* A set is in the ledger with all of its decisions or not at all, whatever
\* becomes of the import or of a rebuild next to it.  Only a rebuild has dropped
\* the decisions of sets that are still there, and then with their table.
SetsAreWhole ==
  /\ \A row \in tables.rows :
       row[1] \in tables.sets /\ row[2] \in DOMAIN file[row[1]].decisions
  /\ \A f \in tables.sets :
       <<file[f].kind, "decisions">> \in exists =>
         {f} \X DOMAIN file[f].decisions \subseteq tables.rows

\* A reviewer has one set per packet, although two imports may both have
\* looked before either wrote.
OneSetPerReviewer == \A f, g \in tables.sets : SameKey(f, g) => f = g

\* While a packet counts as approved, each reviewer who approved it has seen
\* exactly the source decisions about its group that are in the ledger now: a
\* source decision imported later, or a rebuild, takes the approval back.
ApprovalsRestOnWhatWasReviewed ==
  \A g \in Groups :
    ManualApplicationApproved(g) =>
      \A f \in ReviewsIn(tables, "application", CurrentPackets, g) :
        \A c \in Eligible[evidence] :
          GroupOf[c] = g => file[f].seen[c] = CurrentReviews[c]

\* Within one packet a claim that was reviewed and not approved is never
\* approved later: disagreement fails closed.
DisagreementStays ==
  [][\A c \in Claims :
       /\ evidence # None /\ evidence' = evidence
       /\ CurrentReviews[c] # {} /\ ~ClaimUseApproved(c)
       => ~ClaimUseApproved(c)']_vars

\* No decision set is ever removed: a rebuild keeps the rows of every decision
\* table (verify-semantic-db-refresh.mjs asserts it of a rebuilt database).
DecisionsSurviveRebuild == [][tables.sets \subseteq tables'.sets]_vars
=============================================================================
