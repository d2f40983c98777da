------------------------- MODULE ReviewLedgerProofs -------------------------
(***************************************************************************)
(* Proofs about the review ledgers for every number of claims, groups,     *)
(* reviewers, files and evidences.                                         *)
(***************************************************************************)
EXTENDS ContentReadiness, TLAPS

\* What an import knows of its file, and the transaction of the tables.
ImportInv ==
  /\ \A f \in Files :
       /\ pc[f] = "none" <=> file[f] = None
       /\ pc[f] \in {"validated", "inserting"} =>
            DOMAIN file[f].decisions \subseteq Items(file[f].kind, file[f].digest)
       /\ pc[f] = "inserting" <=> tx # None /\ tx.file = f

TxInv ==
  tx # None =>
    /\ tx.sets = tables.sets \cup {tx.file}
    /\ tables.rows \subseteq tx.rows
    /\ tx.rows \subseteq tables.rows \cup ({tx.file} \X DOMAIN file[tx.file].decisions)
    /\ ~ \E g \in tables.sets : SameKey(tx.file, g)

\* What is stored, or about to be, is in a table that exists.
StoredInv ==
  /\ \A f \in tables.sets : <<file[f].kind, "sets">> \in exists
  /\ \A row \in tables.rows : <<file[row[1]].kind, "decisions">> \in exists
  /\ tx # None =>
       /\ <<file[tx.file].kind, "sets">> \in exists
       /\ \A row \in tx.rows : <<file[row[1]].kind, "decisions">> \in exists

LedgerInv ==
  TypeOK /\ ImportInv /\ TxInv /\ StoredInv /\ SetsAreWhole /\ OneSetPerReviewer

LEMMA InitLedgerInv == Init => LedgerInv
<1> SUFFICES ASSUME Init PROVE LedgerInv
  OBVIOUS
<1>1. TypeOK
  BY DEF Init, TypeOK, Tables, NoRows
<1>2. ImportInv
  BY DEF Init, ImportInv
<1> QED
  BY <1>1, <1>2 DEF Init, LedgerInv, TxInv, StoredInv, SetsAreWhole, OneSetPerReviewer, NoRows

\* A file that has been made is one, and stays what it is.
LEMMA MadeFile ==
  ASSUME TypeOK, NEW f \in Files, file[f] # None
  PROVE  /\ file[f] \in DecisionFile
         /\ file[f].kind \in Kinds
         /\ file[f].kind = "source" => file[f].digest \in Evidences
         /\ file[f].kind = "application" => file[f].digest \in PacketSets
         /\ DOMAIN file[f].decisions \subseteq Claims \cup Groups
BY DEF TypeOK, DecisionFile, DecisionLists, Ids, Kinds

LEMMA ExportKeeps ==
  ASSUME LedgerInv, NEW f \in Files, NEW new \in DecisionFile, Exports(f),
         file' = [file EXCEPT ![f] = new]
  PROVE  LedgerInv'
<1> USE DEF LedgerInv, Exports
<1>1. /\ file[f] = None
      /\ \A g \in Files : file[g] # None => file'[g] = file[g] /\ g # f
      /\ file'[f] = new /\ new # None
  BY SentinelAssumption DEF ImportInv, TypeOK
<1>2. TypeOK'
  <2>1. file' \in [Files -> DecisionFile \cup {None}]
    BY DEF TypeOK
  <2>2. \A g \in tables.sets : file'[g] = file[g] /\ file'[g] # None
    BY <1>1 DEF TypeOK, Tables
  <2>3. \A row \in tables.rows : file'[row[1]] = file[row[1]]
    BY <1>1, <2>2 DEF TypeOK, Tables, SetsAreWhole
  <2> QED
    BY <2>1, <2>2, <2>3 DEF TypeOK, Items
<1>3. ImportInv'
  BY <1>1 DEF ImportInv, TypeOK, Items
<1>4. TxInv'
  <2>1. tx # None => tx.file \in Files /\ file[tx.file] # None
    <3> SUFFICES ASSUME tx # None PROVE tx.file \in Files /\ file[tx.file] # None
      OBVIOUS
    <3>1. tx.file \in Files
      BY DEF TypeOK, Transaction
    <3>2. pc[tx.file] = "inserting"
      BY <3>1 DEF ImportInv
    <3> QED
      BY <3>1, <3>2 DEF ImportInv
  <2>2. \A g \in tables.sets : g \in Files /\ file'[g] = file[g]
    BY <1>1 DEF TypeOK, Tables
  <2> QED
    BY <1>1, <2>1, <2>2 DEF TxInv, SameKey, IsOf
<1>5. SetsAreWhole' /\ OneSetPerReviewer'
  <2>1. \A g \in tables.sets : g \in Files /\ file'[g] = file[g]
    BY <1>1 DEF TypeOK, Tables
  <2>2. SetsAreWhole'
    <3>1. \A row \in tables.rows : row[1] \in tables.sets /\ file'[row[1]] = file[row[1]]
      BY <2>1 DEF SetsAreWhole
    <3> QED
      BY <2>1, <3>1 DEF SetsAreWhole
  <2>3. OneSetPerReviewer'
    BY <2>1 DEF OneSetPerReviewer, SameKey, IsOf
  <2> QED
    BY <2>2, <2>3
<1>6. StoredInv'
  <2>1. \A g \in tables.sets : file'[g] = file[g]
    BY <1>1 DEF TypeOK, Tables
  <2>2. \A row \in tables.rows : file'[row[1]] = file[row[1]]
    BY <2>1 DEF SetsAreWhole
  <2>3. ASSUME tx # None
        PROVE  /\ file'[tx.file] = file[tx.file]
               /\ \A row \in tx.rows : file'[row[1]] = file[row[1]]
    <3>1. tx.file \in Files /\ pc[tx.file] = "inserting"
      BY <2>3 DEF TypeOK, Transaction, ImportInv
    <3>2. file'[tx.file] = file[tx.file]
      BY <1>1, <3>1 DEF ImportInv
    <3>3. \A row \in tx.rows : row \in tables.rows \/ row[1] = tx.file
      BY <2>3 DEF TxInv
    <3> QED
      BY <3>2, <3>3, <2>2
  <2> QED
    BY <2>1, <2>2, <2>3 DEF StoredInv
<1> QED
  BY <1>2, <1>3, <1>4, <1>5, <1>6

LEMMA SourceExport ==
  ASSUME LedgerInv, NEW f \in Files, NEW reviewer \in Reviewers,
         NEW decisions \in DecisionLists("source"),
         ExportSourceDecisions(f, reviewer, decisions)
  PROVE  LedgerInv'
<1> DEFINE new == [kind |-> "source", digest |-> evidence,
                   reviewer |-> reviewer, decisions |-> decisions]
<1>1. evidence \in Evidences
  BY DEF ExportSourceDecisions, Exports, LedgerInv, TypeOK
<1>2. new \in DecisionFile
  BY <1>1 DEF DecisionFile
<1> QED
  BY <1>2, ExportKeeps DEF ExportSourceDecisions

LEMMA CurrentTypes ==
  ASSUME TypeOK, evidence # None
  PROVE  /\ evidence \in Evidences
         /\ CurrentReviews \in Reviews
         /\ CurrentPackets \in PacketSets
<1>1. evidence \in Evidences /\ Eligible[evidence] \subseteq Claims
  BY LedgerAssumption DEF TypeOK
<1>2. CurrentReviews \in Reviews
  BY DEF CurrentReviews, SourceReviews, ReviewsIn, Reviews
<1>3. \A c \in Eligible[evidence] : GroupOf[c] \in Groups
  BY <1>1, LedgerAssumption
<1>4. \A c \in Eligible[evidence] : <<evidence, c, CurrentReviews[c]>> \in Review
  BY <1>1, <1>2 DEF Review, Reviews
<1> QED
  BY <1>1, <1>2, <1>3, <1>4 DEF CurrentPackets, PacketSet, PacketsOf, PacketSets, Packet, Placement

LEMMA ApplicationExport ==
  ASSUME LedgerInv, NEW f \in Files, NEW reviewer \in Reviewers,
         NEW decisions \in DecisionLists("application"),
         ExportApplicationDecisions(f, reviewer, decisions)
  PROVE  LedgerInv'
<1> DEFINE new == [kind |-> "application", digest |-> CurrentPackets, reviewer |-> reviewer,
                   decisions |-> decisions, seen |-> CurrentReviews]
<1>1. CurrentPackets \in PacketSets /\ CurrentReviews \in Reviews
  BY CurrentTypes DEF ExportApplicationDecisions, Exports, LedgerInv
<1>2. new \in DecisionFile
  BY <1>1 DEF DecisionFile
<1> QED
  BY <1>2, ExportKeeps DEF ExportApplicationDecisions

LEMMA ValidateKeeps ==
  ASSUME LedgerInv, NEW f \in Files, Validate(f)
  PROVE  LedgerInv'
<1> USE DEF LedgerInv, Validate, DecisionsAreValid
<1>1. TypeOK'
  BY DEF TypeOK, Items
<1>2. ImportInv'
  BY DEF ImportInv, TypeOK, Items
<1>3. TxInv'
  BY DEF TxInv, SameKey, IsOf
<1>4. SetsAreWhole' /\ OneSetPerReviewer'
  BY DEF SetsAreWhole, OneSetPerReviewer, SameKey, IsOf
<1>5. StoredInv'
  BY DEF StoredInv
<1> QED
  BY <1>1, <1>2, <1>3, <1>4, <1>5

LEMMA InsertSetKeeps ==
  ASSUME LedgerInv, NEW f \in Files, InsertSet(f)
  PROVE  LedgerInv'
<1> USE DEF LedgerInv, InsertSet
<1>1. TypeOK'
  BY DEF TypeOK, Tables, Transaction, Items
<1>2. ImportInv'
  <2>1. tx' \in Transaction /\ tx' # None
    BY SentinelAssumption DEF TypeOK, Tables, Transaction
  <2> QED
    BY <2>1 DEF ImportInv, TypeOK, Items
<1>3. TxInv'
  BY DEF TxInv, SameKey, IsOf
<1>4. SetsAreWhole' /\ OneSetPerReviewer'
  BY DEF SetsAreWhole, OneSetPerReviewer, SameKey, IsOf
<1>5. StoredInv'
  BY DEF StoredInv
<1> QED
  BY <1>1, <1>2, <1>3, <1>4, <1>5

LEMMA InsertDecisionKeeps ==
  ASSUME LedgerInv, NEW f \in Files, NEW id \in Claims \cup Groups, InsertDecision(f, id)
  PROVE  LedgerInv'
<1> USE DEF LedgerInv, InsertDecision
<1>1. tx # None /\ tx.file = f
  BY DEF ImportInv
<1>2. tx \in Transaction
  BY <1>1 DEF TypeOK
<1>3. /\ tx'.file = f /\ tx'.sets = tx.sets
      /\ tx'.rows = tx.rows \cup {<<f, id>>}
      /\ tx' \in Transaction
  BY <1>1, <1>2 DEF Transaction
<1>4. TypeOK'
  BY <1>3 DEF TypeOK, Items
<1>5. ImportInv'
  <2>1. tx' # None
    BY <1>3, SentinelAssumption
  <2> QED
    BY <2>1, <1>1, <1>3 DEF ImportInv, Items
<1>6. TxInv'
  BY <1>1, <1>3 DEF TxInv, SameKey, IsOf
<1>7. SetsAreWhole' /\ OneSetPerReviewer'
  BY DEF SetsAreWhole, OneSetPerReviewer, SameKey, IsOf
<1>8. StoredInv'
  BY <1>1, <1>3 DEF StoredInv
<1> QED
  BY <1>4, <1>5, <1>6, <1>7, <1>8

LEMMA CommitKeeps ==
  ASSUME LedgerInv, NEW f \in Files, Commit(f)
  PROVE  LedgerInv'
<1> USE DEF LedgerInv, Commit
<1>1. /\ tx # None /\ tx.file = f /\ tx \in Transaction
      /\ file[f] # None
  BY DEF ImportInv, TypeOK
<1>2. /\ tables'.sets = tables.sets \cup {f}
      /\ tables'.rows = tables.rows \cup ({f} \X DOMAIN file[f].decisions)
  BY <1>1 DEF TxInv
<1>3. tables' \in Tables
  BY <1>1 DEF Tables, Transaction
<1>4. DOMAIN file[f].decisions \subseteq Items(file[f].kind, file[f].digest)
  BY DEF ImportInv
<1>5. TypeOK'
  BY <1>1, <1>2, <1>3, <1>4 DEF TypeOK, Items
<1>6. ImportInv'
  BY <1>1 DEF ImportInv, TypeOK, Items
<1>7. TxInv'
  BY DEF TxInv
<1>8. SetsAreWhole'
  BY <1>2 DEF SetsAreWhole
<1>9. OneSetPerReviewer'
  BY <1>1, <1>2 DEF OneSetPerReviewer, TxInv, SameKey, IsOf
<1>10. StoredInv'
  BY <1>1, <1>2 DEF StoredInv, TxInv
<1> QED
  BY <1>5, <1>6, <1>7, <1>8, <1>9, <1>10

LEMMA ImportFailsKeeps ==
  ASSUME LedgerInv, NEW f \in Files, ImportFails(f)
  PROVE  LedgerInv'
<1> USE DEF LedgerInv, ImportFails
<1>1. TypeOK'
  BY DEF TypeOK, Items
<1>2. ImportInv'
  BY DEF ImportInv, TypeOK, Items
<1>3. TxInv'
  BY DEF TxInv, SameKey, IsOf
<1>4. SetsAreWhole' /\ OneSetPerReviewer'
  BY DEF SetsAreWhole, OneSetPerReviewer, SameKey, IsOf
<1>5. StoredInv'
  BY DEF StoredInv
<1> QED
  BY <1>1, <1>2, <1>3, <1>4, <1>5

\* The decisions go with their table, so what is left of the ledger is whole.
LEMMA DropDecisionsKeeps ==
  ASSUME LedgerInv, NEW kind \in Kinds, DropDecisions(kind)
  PROVE  LedgerInv'
<1> USE DEF LedgerInv, DropDecisions, Rebuilds
<1>1. /\ tables' \in Tables
      /\ tables'.sets = tables.sets
      /\ tables'.rows = {row \in tables.rows : file[row[1]].kind # kind}
  BY DEF TypeOK, Tables
<1>2. TypeOK'
  BY <1>1 DEF TypeOK, Items
<1>3. ImportInv' /\ TxInv'
  BY DEF ImportInv, TxInv, Items
<1>4. SetsAreWhole'
  <2>1. ASSUME NEW f \in tables.sets, <<file[f].kind, "decisions">> \in exists'
        PROVE  {f} \X DOMAIN file[f].decisions \subseteq tables'.rows
    <3>1. file[f].kind # kind
      BY <2>1
    <3>2. {f} \X DOMAIN file[f].decisions \subseteq tables.rows
      BY <2>1 DEF SetsAreWhole
    <3> QED
      BY <1>1, <3>1, <3>2
  <2> QED
    BY <1>1, <2>1 DEF SetsAreWhole
<1>5. OneSetPerReviewer'
  BY <1>1 DEF OneSetPerReviewer, SameKey, IsOf
<1>6. StoredInv'
  BY <1>1 DEF StoredInv
<1> QED
  BY <1>2, <1>3, <1>4, <1>5, <1>6

LEMMA DropSetsKeeps ==
  ASSUME LedgerInv, NEW kind \in Kinds, DropSets(kind)
  PROVE  LedgerInv'
<1> USE DEF LedgerInv, DropSets, Rebuilds
<1>1. /\ tables' \in Tables
      /\ tables'.sets = {f \in tables.sets : file[f].kind # kind}
      /\ tables'.rows = tables.rows
  BY DEF TypeOK, Tables
<1>2. TypeOK'
  BY <1>1 DEF TypeOK, Items
<1>3. ImportInv' /\ TxInv'
  BY DEF ImportInv, TxInv, Items
<1>4. SetsAreWhole'
  BY <1>1 DEF SetsAreWhole, StoredInv
<1>5. OneSetPerReviewer'
  BY <1>1 DEF OneSetPerReviewer, SameKey, IsOf
<1>6. StoredInv'
  BY <1>1 DEF StoredInv
<1> QED
  BY <1>2, <1>3, <1>4, <1>5, <1>6

\* New tables are created when all the old ones are gone.
LEMMA CreateTablesKeeps ==
  ASSUME LedgerInv, CreateTables
  PROVE  LedgerInv'
<1> USE DEF LedgerInv, CreateTables, Rebuilds
<1>1. tables.sets = {} /\ tables.rows = {}
  BY DEF StoredInv
<1>2. TypeOK'
  BY DEF TypeOK, Items
<1>3. ImportInv' /\ TxInv'
  BY DEF ImportInv, TxInv, Items
<1> QED
  BY <1>1, <1>2, <1>3 DEF StoredInv, SetsAreWhole, OneSetPerReviewer

LEMMA OtherRebuildKeeps ==
  ASSUME LedgerInv,
         \/ StartRebuild \/ StampVersion
         \/ (\E e \in Evidences : FinishRebuild(e)) \/ RebuildFails
  PROVE  LedgerInv'
<1> USE DEF LedgerInv, StartRebuild, StampVersion, FinishRebuild, RebuildFails,
            Rebuilds
<1>1. TypeOK'
  BY DEF TypeOK, Items
<1>2. ImportInv' /\ TxInv'
  BY DEF ImportInv, TxInv, Items, SameKey, IsOf
<1>3. StoredInv' /\ SetsAreWhole' /\ OneSetPerReviewer'
  BY DEF StoredInv, SetsAreWhole, OneSetPerReviewer, SameKey, IsOf
<1> QED
  BY <1>1, <1>2, <1>3

LEMMA StepKeeps ==
  ASSUME LedgerInv, [Next]_vars
  PROVE  LedgerInv'
<1>1. CASE \E f \in Files, reviewer \in Reviewers :
             \/ \E decisions \in DecisionLists("source") :
                  ExportSourceDecisions(f, reviewer, decisions)
             \/ \E decisions \in DecisionLists("application") :
                  ExportApplicationDecisions(f, reviewer, decisions)
  BY <1>1, SourceExport, ApplicationExport
<1>2. CASE \E f \in Files : Import(f)
  BY <1>2, ValidateKeeps, InsertSetKeeps, InsertDecisionKeeps, CommitKeeps, ImportFailsKeeps
     DEF Import
<1>3. CASE CreateTables \/ \E kind \in Kinds : DropDecisions(kind) \/ DropSets(kind)
  BY <1>3, CreateTablesKeeps, DropDecisionsKeeps, DropSetsKeeps
<1>4. CASE \/ StartRebuild \/ StampVersion
           \/ (\E e \in Evidences : FinishRebuild(e)) \/ RebuildFails
  BY <1>4, OtherRebuildKeeps
<1>5. CASE UNCHANGED vars
  BY <1>5 DEF vars, LedgerInv, TypeOK, ImportInv, TxInv, StoredInv, SetsAreWhole, OneSetPerReviewer, Items,
              SameKey, IsOf
<1> QED
  BY <1>1, <1>2, <1>3, <1>4, <1>5 DEF Next, Rebuild

LEMMA LedgerInvariant == Spec => []LedgerInv
BY InitLedgerInv, StepKeeps, PTL DEF Spec

\* The database, the files and the imports have their shape, and a stored
\* decision is about an item of its packet (the checks of
\* validatePublicSourceReviewDecisions and its sibling).
THEOREM LedgerTypeCorrect == Spec => []TypeOK
BY LedgerInvariant, PTL DEF LedgerInv

\* Imports are all or nothing, next to other imports and to rebuilds.
THEOREM SetsWhole == Spec => []SetsAreWhole
BY LedgerInvariant, PTL DEF LedgerInv

\* No race brings two sets of one reviewer into the ledger for one packet.
THEOREM UniqueSets == Spec => []OneSetPerReviewer
BY LedgerInvariant, PTL DEF LedgerInv

-----------------------------------------------------------------------------
(* Approvals                                                               *)

\* The digest of an application file is taken of what its reviewer has seen.
SeenInv ==
  \A f \in Files :
    file[f] # None /\ file[f].kind = "application" =>
      \E e \in Evidences : \E eligible \in SUBSET Eligible[e] :
        file[f].digest = PacketsOf(e, file[f].seen, eligible)

BuilderInv == builder # "idle" => evidence = None

LEMMA PacketsKeepReviews ==
  ASSUME NEW e1, NEW R1, NEW E1, NEW e2, NEW R2, NEW E2,
         PacketsOf(e1, R1, E1) = PacketsOf(e2, R2, E2),
         NEW c \in Eligible[e2]
  PROVE  R1[c] = R2[c]
<1> DEFINE placements(e, R, E, g) == {<<e, d, R[d]>> : d \in {b \in E : GroupOf[b] = g}}
           packets(e, R, E) == {[group |-> g, placements |-> placements(e, R, E, g)] :
                                   g \in {GroupOf[d] : d \in E}}
           blocked(e, R, E) == {<<e, d, R[d]>> : d \in Eligible[e] \ E}
<1>1. /\ packets(e1, R1, E1) = packets(e2, R2, E2)
      /\ blocked(e1, R1, E1) = blocked(e2, R2, E2)
  BY DEF PacketsOf, Placement
<1>2. CASE c \in E2
  <2>1. PICK p \in packets(e1, R1, E1) :
          p = [group |-> GroupOf[c], placements |-> placements(e2, R2, E2, GroupOf[c])]
    BY <1>1, <1>2
  <2>2. PICK g : p = [group |-> g, placements |-> placements(e1, R1, E1, g)]
    BY <2>1
  <2>3. <<e2, c, R2[c]>> \in placements(e1, R1, E1, g)
    <3>1. <<e2, c, R2[c]>> \in placements(e2, R2, E2, GroupOf[c])
      BY <1>2
    <3>2. placements(e2, R2, E2, GroupOf[c]) = placements(e1, R1, E1, g)
      <4> HIDE DEF placements
      <4> QED
        BY <2>1, <2>2
    <3> QED
      BY <3>1, <3>2
  <2>4. PICK d \in E1 : <<e2, c, R2[c]>> = <<e1, d, R1[d]>>
    BY <2>3
  <2> QED
    BY <2>4
<1>3. CASE c \notin E2
  <2>1. <<e2, c, R2[c]>> \in blocked(e1, R1, E1)
    BY <1>1, <1>3
  <2>2. PICK d : <<e2, c, R2[c]>> = <<e1, d, R1[d]>>
    BY <2>1
  <2> QED
    BY <2>2
<1> QED
  BY <1>2, <1>3

LEMMA InitApprovalInv == Init => SeenInv /\ BuilderInv
BY DEF Init, SeenInv, BuilderInv

LEMMA SeenKeeps ==
  ASSUME LedgerInv, SeenInv, [Next]_vars
  PROVE  SeenInv'
<1>1. CASE file' = file
  BY <1>1 DEF SeenInv
<1>2. ASSUME NEW f \in Files, NEW reviewer \in Reviewers,
             NEW decisions \in DecisionLists("source"),
             ExportSourceDecisions(f, reviewer, decisions)
      PROVE  SeenInv'
  BY <1>2 DEF ExportSourceDecisions, Exports, SeenInv, LedgerInv, TypeOK
<1>3. ASSUME NEW f \in Files, NEW reviewer \in Reviewers,
             NEW decisions \in DecisionLists("application"),
             ExportApplicationDecisions(f, reviewer, decisions)
      PROVE  SeenInv'
  <2>1. /\ \A g \in Files \ {f} : file'[g] = file[g]
        /\ file'[f].digest = CurrentPackets
        /\ file'[f].seen = CurrentReviews
    BY <1>3 DEF ExportApplicationDecisions, Exports, LedgerInv, TypeOK
  <2>2. evidence \in Evidences
    BY <1>3 DEF ExportApplicationDecisions, Exports, LedgerInv, TypeOK
  <2>3. \E eligible \in SUBSET Eligible[evidence] :
          CurrentPackets = PacketsOf(evidence, CurrentReviews, eligible)
    <3> DEFINE approved == {c \in Eligible[evidence] : Approved(CurrentReviews[c], c)}
    <3>1. approved \in SUBSET Eligible[evidence]
      OBVIOUS
    <3>2. CurrentPackets = PacketsOf(evidence, CurrentReviews, approved)
      BY DEF CurrentPackets, PacketSet
    <3> HIDE DEF approved
    <3> QED
      BY <3>1, <3>2
  <2> QED
    BY <2>1, <2>2, <2>3 DEF SeenInv
<1> QED
  BY <1>1, <1>2, <1>3
     DEF Next, vars, Import, Validate, InsertSet, InsertDecision, Commit, ImportFails,
         Rebuild, StartRebuild, DropDecisions, DropSets, CreateTables, StampVersion,
         FinishRebuild, RebuildFails, Rebuilds

LEMMA BuilderKeeps ==
  ASSUME BuilderInv, [Next]_vars
  PROVE  BuilderInv'
BY DEF BuilderInv, Next, vars, ExportSourceDecisions, ExportApplicationDecisions, Exports,
       Import, Validate, InsertSet, InsertDecision, Commit, ImportFails,
       Rebuild, StartRebuild, DropDecisions, DropSets, CreateTables, StampVersion,
       FinishRebuild, RebuildFails, Rebuilds

LEMMA ApprovalInvariant == Spec => []LedgerInv /\ []SeenInv /\ []BuilderInv
<1>1. Init => LedgerInv /\ SeenInv /\ BuilderInv
  BY InitLedgerInv, InitApprovalInv
<1>2. (LedgerInv /\ SeenInv /\ BuilderInv) /\ [Next]_vars
        => (LedgerInv /\ SeenInv /\ BuilderInv)'
  BY StepKeeps, SeenKeeps, BuilderKeeps
<1> QED
  BY <1>1, <1>2, PTL DEF Spec

LEMMA ApprovalsFollow == LedgerInv /\ SeenInv => ApprovalsRestOnWhatWasReviewed
<1> SUFFICES ASSUME LedgerInv, SeenInv, NEW g \in Groups, ManualApplicationApproved(g),
                    NEW f \in ReviewsIn(tables, "application", CurrentPackets, g),
                    NEW c \in Eligible[evidence]
             PROVE  file[f].seen[c] = CurrentReviews[c]
  BY DEF ApprovalsRestOnWhatWasReviewed
<1>1. /\ f \in Files
      /\ <<f, g>> \in tables.rows
      /\ file[f].kind = "application"
      /\ file[f].digest = CurrentPackets
  BY DEF ReviewsIn, IsOf
<1>2. file[f] # None
  BY <1>1 DEF LedgerInv, TypeOK, SetsAreWhole
<1>3. PICK e \in Evidences : \E eligible \in SUBSET Eligible[e] :
        CurrentPackets = PacketsOf(e, file[f].seen, eligible)
  BY <1>1, <1>2 DEF SeenInv
<1>4. PICK eligible \in SUBSET Eligible[e] :
        CurrentPackets = PacketsOf(e, file[f].seen, eligible)
  BY <1>3
<1>5. PICK current : CurrentPackets = PacketsOf(evidence, CurrentReviews, current)
  BY DEF CurrentPackets, PacketSet
<1>6. PacketsOf(e, file[f].seen, eligible) = PacketsOf(evidence, CurrentReviews, current)
  BY <1>4, <1>5
<1> QED
  BY <1>6, PacketsKeepReviews

\* An approval of a citation packet counts only while the source decisions are
\* those its reviewer has seen (packet_set_digest covers their digests).
THEOREM ApprovalsRest == Spec => []ApprovalsRestOnWhatWasReviewed
BY ApprovalInvariant, ApprovalsFollow, PTL

\* As long as the content stays, reviews only come in addition.
LEMMA ReviewsGrow ==
  ASSUME LedgerInv, BuilderInv, [Next]_vars, evidence # None, evidence' = evidence
  PROVE  /\ tables.rows \subseteq tables'.rows
         /\ \A f \in Files : file[f] # None => file'[f] = file[f]
<1>1. \A f \in Files : file[f] # None => file'[f] = file[f]
  BY SentinelAssumption
     DEF Next, vars, ExportSourceDecisions, ExportApplicationDecisions, Exports, LedgerInv,
         ImportInv, TypeOK,
         Import, Validate, InsertSet, InsertDecision, Commit, ImportFails,
         Rebuild, StartRebuild, DropDecisions, DropSets, CreateTables, StampVersion,
         FinishRebuild, RebuildFails, Rebuilds
<1>2. tables.rows \subseteq tables'.rows
  <2>1. CASE \E f \in Files : Commit(f)
    BY <2>1 DEF Commit, LedgerInv, ImportInv, TxInv
  <2>2. CASE UNCHANGED tables
    BY <2>2
  <2>3. \A kind \in Kinds : ~DropDecisions(kind) /\ ~DropSets(kind)
    BY DEF DropDecisions, DropSets, Rebuilds, BuilderInv
  <2> QED
    BY <2>1, <2>2, <2>3
       DEF Next, vars, ExportSourceDecisions, ExportApplicationDecisions, Exports,
           Import, Validate, InsertSet, InsertDecision, ImportFails,
           Rebuild, StartRebuild, CreateTables, StampVersion, FinishRebuild, RebuildFails, Rebuilds
<1> QED
  BY <1>1, <1>2

LEMMA DisagreementStep ==
  ASSUME LedgerInv, BuilderInv, [Next]_vars, evidence # None, evidence' = evidence,
         NEW c \in Claims, CurrentReviews[c] # {}, ~ClaimUseApproved(c)
  PROVE  ~ClaimUseApproved(c)'
<1>1. PICK f \in CurrentReviews[c] : file[f].decisions[c] # Approval
  BY DEF ClaimUseApproved, Approved
<1>2. c \in Eligible[evidence]
  BY <1>1 DEF CurrentReviews, SourceReviews
<1>3. f \in Files /\ <<f, c>> \in tables.rows /\ IsOf(f, "source", evidence)
  BY <1>1, <1>2 DEF CurrentReviews, SourceReviews, ReviewsIn
<1>4. file[f] # None
  BY <1>3 DEF LedgerInv, TypeOK, SetsAreWhole
<1>5. file'[f] = file[f] /\ <<f, c>> \in tables'.rows
  BY <1>3, <1>4, ReviewsGrow
<1>6. f \in CurrentReviews'[c]
  BY <1>2, <1>3, <1>5 DEF CurrentReviews, SourceReviews, ReviewsIn, IsOf
<1> QED
  BY <1>1, <1>5, <1>6 DEF ClaimUseApproved, Approved

\* Disagreement fails closed: no later import of any reviewer overrides a
\* decision that is not an approval (attachPublicSourceReviewProgress).
THEOREM DisagreementIsFinal == Spec => DisagreementStays
<1>1. LedgerInv /\ BuilderInv /\ [Next]_vars =>
        [\A c \in Claims :
           /\ evidence # None /\ evidence' = evidence
           /\ CurrentReviews[c] # {} /\ ~ClaimUseApproved(c)
           => ~ClaimUseApproved(c)']_vars
  BY DisagreementStep
<1> QED
  BY <1>1, ApprovalInvariant, PTL DEF Spec, DisagreementStays

-----------------------------------------------------------------------------
(* The readiness gates: two of the fourteen look at the ledgers, and the     *)
(* approvals they count rest on what was reviewed.                           *)

\* An approval of the ledgers is one of a stored set.
LEMMA CountedDecisionsAreStored ==
  ASSUME SetsAreWhole, NEW kind, NEW digest, NEW id, NEW f \in ReviewsIn(tables, kind, digest, id)
  PROVE  f \in tables.sets /\ id \in DOMAIN file[f].decisions /\ file[f].kind = kind
BY DEF SetsAreWhole, ReviewsIn, IsOf

\* Gates that do not block have whole approvals behind them.
LEMMA OpenGates ==
  ASSUME NEW g, PublicationState(g) # "blocked", PublicSourceReviews(g) # {}
  PROVE  /\ PublicSourceApproved(g) = PublicSourceReviews(g)
         /\ ManualApplicationApproved(g)
<1>1. "blocked" \notin GateStates(g)
  BY DEF PublicationState
<1>2. ReviewDecisionGate(g) # "blocked" /\ CitationApplicationGate(g) # "blocked"
  BY <1>1 DEF GateStates
<1> QED
  BY <1>2 DEF ReviewDecisionGate, CitationApplicationGate, Gate

LEMMA UnblockedFollows ==
  LedgerInv /\ ApprovalsRestOnWhatWasReviewed => UnblockedOnlyIfReviewed
<1> SUFFICES ASSUME LedgerInv, ApprovalsRestOnWhatWasReviewed, evidence # None,
                    NEW g \in Groups, PublicationState(g) # "blocked",
                    PublicSourceReviews(g) # {}
             PROVE  \E f \in tables.sets :
                      /\ file[f].kind = "application"
                      /\ g \in DOMAIN file[f].decisions /\ file[f].decisions[g] = Approval
                      /\ \A c \in PublicSourceReviews(g) :
                           /\ file[f].seen[c] # {}
                           /\ \A review \in file[f].seen[c] :
                                review \in tables.sets /\ file[review].decisions[c] = Approval
  BY DEF UnblockedOnlyIfReviewed
<1>1. SetsAreWhole /\ evidence \in Evidences
  BY DEF LedgerInv, TypeOK
<1>2. /\ PublicSourceApproved(g) = PublicSourceReviews(g)
      /\ ManualApplicationApproved(g)
  BY OpenGates
<1>3. PICK f \in ReviewsIn(tables, "application", CurrentPackets, g) :
        file[f].decisions[g] = Approval
  BY <1>2 DEF ManualApplicationApproved, Approved
<1>4. f \in tables.sets /\ g \in DOMAIN file[f].decisions /\ file[f].kind = "application"
  BY <1>1, <1>3, CountedDecisionsAreStored
<1>5. ASSUME NEW c \in PublicSourceReviews(g)
      PROVE  /\ file[f].seen[c] # {}
             /\ \A review \in file[f].seen[c] :
                  review \in tables.sets /\ file[review].decisions[c] = Approval
  <2>1. c \in Eligible[evidence] /\ GroupOf[c] = g /\ c \in Claims
    BY <1>1, LedgerAssumption DEF PublicSourceReviews
  <2>2. file[f].seen[c] = CurrentReviews[c]
    BY <1>2, <1>3, <2>1 DEF ApprovalsRestOnWhatWasReviewed
  <2>3. Approved(CurrentReviews[c], c)
    BY <1>2 DEF PublicSourceApproved, ClaimUseApproved
  <2>4. CurrentReviews[c] = ReviewsIn(tables, "source", evidence, c)
    BY <2>1 DEF CurrentReviews, SourceReviews
  <2> QED
    BY <1>1, <2>2, <2>3, <2>4, CountedDecisionsAreStored DEF Approved
<1> QED
  BY <1>3, <1>4, <1>5

\* No draft is out of the blocked state unless every claim of it with a public
\* source was approved and the application was approved with these approvals in
\* sight, for any ledgers, drafts, imports and rebuilds (publication_state).
THEOREM UnblockedWasReviewed == Spec => []UnblockedOnlyIfReviewed
BY UnblockedFollows, LedgerInvariant, ApprovalsRest, PTL
=============================================================================
