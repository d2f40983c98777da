--------------------------- MODULE DashboardProofs ---------------------------
(***************************************************************************)
(* Proofs about DashboardServer, for every content of the builds, every    *)
(* route and request, and any number of builds and starts of the server.   *)
(*                                                                         *)
(* A projection is kept as long as its server lives: what a client or the  *)
(* executor holds of one life is of that projection, and the next starts   *)
(* with another number.  So the invariants compare what was received with  *)
(* what the server keeps, and only while it is the same server.            *)
(***************************************************************************)
EXTENDS DashboardServer, SumProofs, SequenceTheorems

BuilderAt == {"idle", "opened", "dropped", "unstamped", "created", "stamped", "grouped"}
DiedAt == {"no", "opened", "dropped", "unstamped", "created", "stamped", "grouped"}
Memos == [groups : 0..MaxBuilds, rows : 0..MaxBuilds, priceExpired : BOOLEAN, life : Nat]

Shapes ==
  /\ db \in [exists : BOOLEAN, stamp : BOOLEAN, groups : Tables, rows : Tables]
  /\ builder \in [pc : BuilderAt, build : 0..MaxBuilds, died : DiedAt]
  /\ server \in [up : BOOLEAN, life : Nat, read : {None} \cup 0..MaxBuilds,
                 memo : {None} \cup Memos]

\* What is without a stamp died, or is, where the stamp is off.
StampInv ==
  db.exists /\ ~db.stamp =>
    \/ builder.pc \in {"unstamped", "created"}
    \/ builder.pc = "idle" /\ builder.died \in {"unstamped", "created"}

\* A projection is read once in a life, and says which.
MemoInv ==
  /\ server.read # None => server.up /\ server.memo = None
  /\ server.memo # None => server.memo.life = server.life

Asked == plan.phase \in {"asking", "admitted"}

PlanShape ==
  Asked =>
    /\ plan = [phase |-> plan.phase, parts |-> plan.parts]
    /\ plan.parts = [p \in Parts |-> plan.parts[p]]

\* What this life of the server answered is what it keeps; what any life
\* answered is of one projection.
PlanInv ==
  /\ plan.phase = "admitted" => \A p \in Parts : plan.parts[p] # None
  /\ Asked => \A p \in Parts : plan.parts[p] # None =>
       /\ plan.parts[p].life \in Nat /\ plan.parts[p].life <= server.life
       /\ server.up /\ plan.parts[p].life = server.life => plan.parts[p] = server.memo
       /\ \A r \in Parts :
            plan.parts[r] # None /\ plan.parts[p].life = plan.parts[r].life
            => plan.parts[p] = plan.parts[r]

Listed == listing.phase \in {"asking", "done"}

ListingShape ==
  Listed =>
    /\ listing = [phase |-> listing.phase, request |-> listing.request,
                  limit |-> listing.limit, cursor |-> listing.cursor,
                  got |-> listing.got, life |-> listing.life]
    /\ listing.request \in Requests
    /\ listing.life \in Nat /\ listing.life <= server.life

\* The client has the rows before its cursor.
Progress(rows) ==
  /\ listing.cursor \in 0..Len(rows)
  /\ listing.got = SubSeq(rows, 1, listing.cursor)
  /\ ViewOf(listing.request) \in listing.request.route.whole => listing.cursor = 0

ListingInv ==
  Listed /\ server.up /\ listing.life = server.life
    /\ listing.request.route.source = "projection"
  => IF server.memo = None
     THEN listing.phase = "asking" /\ listing.got = << >> /\ listing.cursor = 0
     ELSE IF listing.phase = "asking" THEN Progress(Answered(listing.request))
          ELSE listing.got = Answered(listing.request)

DownInv == ~server.up => server.memo = None

DashInv ==
  /\ Shapes /\ StampInv /\ MemoInv /\ DownInv
  /\ PlanShape /\ PlanInv /\ ListingShape /\ ListingInv

-----------------------------------------------------------------------------
(* Pages                                                                   *)

LEMMA LimitIsPositive == ASSUME NEW limit PROVE PageLimit(limit) \in Nat \ {0}
  BY ApiAssumption DEF PageLimit

\* A page goes from the cursor to some end, and names it unless it is the last.
LEMMA PageEnds ==
  ASSUME NEW S, NEW rows \in Seq(S), NEW limit, NEW cursor \in 0..Len(rows)
  PROVE  \E end \in cursor..Len(rows) :
           /\ Page(rows, limit, cursor).data = SubSeq(rows, cursor + 1, end)
           /\ Page(rows, limit, cursor).next = IF end < Len(rows) THEN end ELSE None
<1> DEFINE end == IF cursor + PageLimit(limit) < Len(rows)
                  THEN cursor + PageLimit(limit) ELSE Len(rows)
<1>1. Len(rows) \in Nat /\ cursor \in Nat /\ cursor <= Len(rows)
  OBVIOUS
<1>2. PageOffset(cursor) = cursor
  BY <1>1 DEF PageOffset
<1>3. end \in cursor..Len(rows)
  BY <1>1, LimitIsPositive
<1>4. Len(SubSeq(rows, cursor + 1, end)) = end - cursor
  <2>1. \A i \in (cursor + 1)..end : rows[i] \in S
    BY <1>1, <1>3
  <2> QED
    BY <1>1, <1>3, <2>1, SubSeqProperties
<1>5. cursor + Len(SubSeq(rows, cursor + 1, end)) = end
  BY <1>1, <1>3, <1>4
<1>6. /\ Page(rows, limit, cursor).data = SubSeq(rows, cursor + 1, end)
      /\ Page(rows, limit, cursor).next = IF end < Len(rows) THEN end ELSE None
  BY <1>2, <1>5 DEF Page
<1> QED
  BY <1>3, <1>6

\* Rows that are picked out of a sequence are a sequence of them: counting the
\* places up to k, some place is the n-th.
LEMMA SomePlaceIsNth ==
  ASSUME NEW N \in Nat, NEW at \in SUBSET (1..N), NEW n \in 1..Cardinality(at)
  PROVE  \E i \in at : Cardinality({j \in at : j <= i}) = n
<1> DEFINE UpTo(k) == {j \in at : j <= k}
           T == {k \in Nat : Cardinality(UpTo(k)) >= n}
<1>1. IsFiniteSet(at) /\ Cardinality(at) \in Nat
  <2>1. IsFiniteSet(1..N) /\ at \subseteq 1..N
    BY FS_Interval
  <2> QED
    BY <2>1, FS_Subset, FS_CardinalityType
<1>2. \A k : IsFiniteSet(UpTo(k)) /\ Cardinality(UpTo(k)) \in Nat
  BY <1>1, FS_Subset, FS_CardinalityType
<1>3. \A j \in at : j \in Nat /\ j > 0 /\ j <= N
  OBVIOUS
<1>4. N \in T
  <2>1. UpTo(N) = at
    BY <1>3
  <2> QED
    BY <1>1, <2>1
<1>5. PICK k \in T : \A y \in T : k <= y
  BY <1>4, LeastNumber
<1>6. k \in Nat /\ Cardinality(UpTo(k)) >= n
  OBVIOUS
<1>7. UpTo(0) = {}
  <2>1. \A j \in at : ~(j <= 0)
    BY <1>3
  <2> QED
    BY <2>1
<1>8. k # 0
  <2>1. Cardinality(UpTo(0)) = 0
    BY <1>7, FS_EmptySet
  <2> QED
    BY <2>1, <1>6, <1>1
<1>9. k - 1 \in Nat /\ ~(k <= k - 1)
  BY <1>6, <1>8
<1>10. Cardinality(UpTo(k - 1)) < n
  <2>1. k - 1 \notin T
    BY <1>5, <1>9
  <2>2. ~(Cardinality(UpTo(k - 1)) >= n)
    BY <2>1, <1>9
  <2>3. n \in Nat
    BY <1>1
  <2> HIDE DEF UpTo
  <2>4. Cardinality(UpTo(k - 1)) \in Nat
    BY <1>2
  <2> QED
    BY <2>2, <2>3, <2>4
<1>11. \A j \in at : j <= k <=> j <= k - 1 \/ j = k
  BY <1>3, <1>6
<1>12. k \in at
  <2> SUFFICES ASSUME k \notin at PROVE FALSE
    OBVIOUS
  <2>1. UpTo(k) = UpTo(k - 1)
    BY <1>11
  <2> QED
    BY <2>1, <1>1, <1>2, <1>6, <1>10
<1>13. UpTo(k) = UpTo(k - 1) \cup {k} /\ k \notin UpTo(k - 1)
  BY <1>9, <1>11, <1>12
<1> HIDE DEF UpTo
<1>14. Cardinality(UpTo(k)) = Cardinality(UpTo(k - 1)) + 1
  BY <1>13, <1>2, FS_AddElement
<1>15. Cardinality(UpTo(k)) = n
  BY <1>1, <1>2, <1>6, <1>10, <1>14
<1> QED
  BY <1>12, <1>15 DEF UpTo

LEMMA PickedAreRows ==
  ASSUME NEW S, NEW rows \in Seq(S), NEW at \in SUBSET DOMAIN rows
  PROVE  /\ RowsAt(rows, at) \in Seq(S)
         /\ \A n \in DOMAIN RowsAt(rows, at) :
              \E i \in at : RowsAt(rows, at)[n] = rows[i]
<1> DEFINE picked == RowsAt(rows, at)
           nth == [n \in 1..Cardinality(at) |->
                     CHOOSE i \in at : Cardinality({j \in at : j <= i}) = n]
<1>1. Len(rows) \in Nat /\ DOMAIN rows = 1..Len(rows)
  OBVIOUS
<1>2. Cardinality(at) \in Nat
  <2>1. IsFiniteSet(1..Len(rows)) /\ at \subseteq 1..Len(rows)
    BY <1>1, FS_Interval
  <2> QED
    BY <2>1, FS_Subset, FS_CardinalityType
<1>3. \A n \in 1..Cardinality(at) : nth[n] \in at
  BY <1>1, SomePlaceIsNth
<1>4. picked = [n \in 1..Cardinality(at) |-> rows[nth[n]]]
  BY DEF RowsAt
<1> HIDE DEF picked, nth
<1>5. \A n \in 1..Cardinality(at) : rows[nth[n]] \in S
  BY <1>3
<1>6. picked \in [1..Cardinality(at) -> S]
  BY <1>4, <1>5
<1>7. picked \in Seq(S)
  BY <1>2, <1>6
<1>8. \A n \in DOMAIN picked : \E i \in at : picked[n] = rows[i]
  BY <1>3, <1>4
<1> QED
  BY <1>7, <1>8 DEF picked

LEMMA AnswersOfAnyMemo ==
  ASSUME NEW request \in Requests, request.route.source = "projection", NEW memo \in Memos
  PROVE  \E T : Found[request][memo.groups][memo.rows] \in Seq(T)
<1> DEFINE g == memo.groups
           b == memo.rows
           at == {i \in DOMAIN Content[b].rows :
                    Tied(request, Content[g], Content[b].rows[i])
                      /\ Passes(request, Content[b].rows[i])}
<1>1. g \in 0..MaxBuilds /\ b \in 0..MaxBuilds
  BY DEF Memos
<1>2. Content[b].rows \in Seq(Rows)
  BY <1>1, ServerAssumption
<1>3. Found[request][g][b] = RowsAt(Content[b].rows, at)
  <2>1. NeedsDashboard(request)
    BY DEF NeedsDashboard
  <2>2. Found[request][g][b] = AnsweredRows(request, Content[g], Content[b])
    BY <1>1, <2>1 DEF Found
  <2> QED
    BY <2>2 DEF AnsweredRows
<1>4. at \in SUBSET DOMAIN Content[b].rows
  OBVIOUS
<1> HIDE DEF at
<1> QED
  BY <1>2, <1>3, <1>4, PickedAreRows

LEMMA AnswersAreSequences ==
  ASSUME server.memo \in Memos, NEW request \in Requests, request.route.source = "projection"
  PROVE  \E T : Answered(request) \in Seq(T)
BY AnswersOfAnyMemo DEF Answered, GroupsBuild, RowsBuild, NeedsDashboard

\* The same of the answers after a step.
LEMMA AnswersAreSequencesThen ==
  ASSUME server'.memo \in Memos, NEW request \in Requests,
         request.route.source = "projection"
  PROVE  \E T : Answered(request)' \in Seq(T)
BY AnswersOfAnyMemo DEF Answered, GroupsBuild, RowsBuild, NeedsDashboard

-----------------------------------------------------------------------------
(* The builder, and the clock                                              *)

\* What a projection answers is that projection's alone.
LEMMA AnswersAreKept ==
  ASSUME NEW request, request.route.source = "projection", server'.memo = server.memo
  PROVE  Answered(request)' = Answered(request)
BY DEF Answered, GroupsBuild, RowsBuild, NeedsDashboard

Readers == MemoInv /\ DownInv /\ PlanShape /\ PlanInv /\ ListingShape /\ ListingInv

LEMMA ReadersUndisturbed ==
  ASSUME Readers, UNCHANGED <<server, listing, plan>>
  PROVE  Readers'
<1>1. MemoInv' /\ DownInv' /\ PlanShape' /\ PlanInv' /\ ListingShape'
  BY DEF Readers, MemoInv, DownInv, PlanShape, PlanInv, ListingShape, Asked, Listed
<1>2. ListingInv'
  BY AnswersAreKept DEF Readers, ListingInv, Listed, Progress
<1> QED
  BY <1>1, <1>2 DEF Readers

LEMMA BuildKeeps ==
  ASSUME DashInv, Build
  PROVE  DashInv'
<1>1. UNCHANGED <<server, expired, listing, plan>>
  BY DEF Build, StartBuild, DropTables, DropMetadata, CreateTables, Stamp, FillGroups, FillRows,
         BuildDies
<1>2. Readers'
  BY <1>1, ReadersUndisturbed DEF DashInv, Readers
<1>3. /\ db \in [exists : BOOLEAN, stamp : BOOLEAN, groups : Tables, rows : Tables]
      /\ builder \in [pc : BuilderAt, build : 0..MaxBuilds, died : DiedAt]
      /\ StampInv
  BY DEF DashInv, Shapes
<1>4. Missing \in Tables /\ 0 \in Tables /\ builder.build \in Tables /\ MaxBuilds \in Nat
  BY <1>3, ServerAssumption DEF Tables
<1>5. Shapes' /\ StampInv'
  <2>1. CASE StartBuild
    <3>1. builder'.build \in 0..MaxBuilds
      BY <2>1, <1>3, <1>4 DEF StartBuild
    <3> QED
      BY <2>1, <3>1, <1>1, <1>3
         DEF StartBuild, Replaceable, Stamped, DashInv, Shapes, StampInv, BuilderAt, DiedAt
  <2>2. CASE DropTables
    BY <2>2, <1>1, <1>3, <1>4 DEF DropTables, DashInv, Shapes, StampInv, BuilderAt, DiedAt
  <2>3. CASE DropMetadata
    BY <2>3, <1>1, <1>3, <1>4 DEF DropMetadata, DashInv, Shapes, StampInv, BuilderAt, DiedAt
  <2>4. CASE CreateTables
    BY <2>4, <1>1, <1>3, <1>4 DEF CreateTables, DashInv, Shapes, StampInv, BuilderAt, DiedAt
  <2>5. CASE Stamp
    BY <2>5, <1>1, <1>3, <1>4 DEF Stamp, DashInv, Shapes, StampInv, BuilderAt, DiedAt
  <2>6. CASE FillGroups
    BY <2>6, <1>1, <1>3, <1>4 DEF FillGroups, DashInv, Shapes, StampInv, BuilderAt, DiedAt
  <2>7. CASE FillRows
    BY <2>7, <1>1, <1>3, <1>4 DEF FillRows, DashInv, Shapes, StampInv, BuilderAt, DiedAt
  <2>8. CASE BuildDies
    BY <2>8, <1>1, <1>3, <1>4 DEF BuildDies, DashInv, Shapes, StampInv, BuilderAt, DiedAt
  <2> QED
    BY <2>1, <2>2, <2>3, <2>4, <2>5, <2>6, <2>7, <2>8 DEF Build
<1> QED
  BY <1>2, <1>5 DEF DashInv, Readers

LEMMA QuietKeeps ==
  ASSUME DashInv, UNCHANGED <<db, builder, server, listing, plan>>
  PROVE  DashInv'
<1>1. Readers'
  BY ReadersUndisturbed DEF DashInv, Readers
<1>2. Shapes' /\ StampInv'
  BY DEF DashInv, Shapes, StampInv
<1> QED
  BY <1>1, <1>2 DEF DashInv, Readers

-----------------------------------------------------------------------------
(* The server                                                              *)

LEMMA StartServerKeeps ==
  ASSUME DashInv, StartServer
  PROVE  DashInv'
<1>1. /\ server \in [up : BOOLEAN, life : Nat, read : {None} \cup 0..MaxBuilds,
                     memo : {None} \cup Memos]
      /\ server' = [server EXCEPT !.up = TRUE, !.life = @ + 1]
      /\ UNCHANGED <<db, builder, expired, listing, plan>>
      /\ ~server.up
  BY DEF DashInv, Shapes, StartServer
<1>2. /\ server'.up /\ server'.life = server.life + 1 /\ server.life \in Nat
      /\ server'.read = server.read /\ server'.memo = server.memo
  BY <1>1
<1>3. Shapes' /\ StampInv'
  <2>1. server' \in [up : BOOLEAN, life : Nat, read : {None} \cup 0..MaxBuilds,
                     memo : {None} \cup Memos]
    <3>1. server.life + 1 \in Nat
      BY <1>2
    <3> QED
      BY <1>1, <3>1
  <2> QED
    BY <2>1, <1>1 DEF DashInv, Shapes, StampInv
<1>4. MemoInv' /\ DownInv'
  BY <1>1, <1>2 DEF DashInv, MemoInv, DownInv
<1>5. PlanShape' /\ PlanInv'
  BY <1>1, <1>2 DEF DashInv, PlanShape, PlanInv, Asked
<1>6. ListingShape' /\ ListingInv'
  BY <1>1, <1>2 DEF DashInv, ListingShape, ListingInv, Listed
<1> QED
  BY <1>3, <1>4, <1>5, <1>6 DEF DashInv

LEMMA StopServerKeeps ==
  ASSUME DashInv, StopServer
  PROVE  DashInv'
<1>1. /\ server \in [up : BOOLEAN, life : Nat, read : {None} \cup 0..MaxBuilds,
                     memo : {None} \cup Memos]
      /\ server' = [server EXCEPT !.up = FALSE, !.read = None, !.memo = None]
      /\ UNCHANGED <<db, builder, expired, listing, plan>>
  BY DEF DashInv, Shapes, StopServer
<1>2. /\ ~server'.up /\ server'.life = server.life
      /\ server'.read = None /\ server'.memo = None
  BY <1>1
<1>3. Shapes' /\ StampInv'
  BY <1>1, <1>2 DEF DashInv, Shapes, StampInv
<1>4. MemoInv' /\ DownInv'
  BY <1>2 DEF MemoInv, DownInv
<1>5. PlanShape' /\ PlanInv'
  BY <1>1, <1>2 DEF DashInv, PlanShape, PlanInv, Asked
<1>6. ListingShape' /\ ListingInv'
  BY <1>1, <1>2 DEF DashInv, ListingShape, ListingInv, Listed
<1> QED
  BY <1>3, <1>4, <1>5, <1>6 DEF DashInv

\* Giving up leaves nothing to be answered.
LEMMA FailKeeps ==
  ASSUME DashInv, Fail, UNCHANGED <<db, builder>>,
         server'.up = server.up, server'.life = server.life, server'.memo = server.memo
  PROVE  PlanShape' /\ PlanInv' /\ ListingShape' /\ ListingInv'
<1>1. plan' = plan \/ plan'.phase = "failed"
  BY DEF Fail, Failed
<1>2. listing' = listing \/ listing'.phase = "failed"
  BY DEF Fail, Failed
<1>3. PlanShape' /\ PlanInv'
  BY <1>1 DEF DashInv, PlanShape, PlanInv, Asked
<1>4. ListingShape' /\ ListingInv'
  BY <1>2, AnswersAreKept DEF DashInv, ListingShape, ListingInv, Listed, Progress
<1> QED
  BY <1>3, <1>4

LEMMA ReadGroupsKeeps ==
  ASSUME DashInv, ReadGroups
  PROVE  DashInv'
<1>1. /\ server \in [up : BOOLEAN, life : Nat, read : {None} \cup 0..MaxBuilds,
                     memo : {None} \cup Memos]
      /\ db \in [exists : BOOLEAN, stamp : BOOLEAN, groups : Tables, rows : Tables]
      /\ server.up /\ server.memo = None
      /\ UNCHANGED <<db, builder, expired>>
  BY DEF DashInv, Shapes, ReadGroups
<1>2. CASE db.groups = Missing
  <2>1. Fail /\ UNCHANGED server
    BY <1>2 DEF ReadGroups
  <2>2. PlanShape' /\ PlanInv' /\ ListingShape' /\ ListingInv'
    BY <2>1, <1>1, FailKeeps
  <2> QED
    BY <2>1, <2>2, <1>1 DEF DashInv, Shapes, StampInv, MemoInv, DownInv
<1>3. CASE db.groups # Missing
  <2>1. server' = [server EXCEPT !.read = db.groups] /\ UNCHANGED <<listing, plan>>
    BY <1>3 DEF ReadGroups
  <2>2. /\ server'.up = server.up /\ server'.life = server.life /\ server'.memo = server.memo
        /\ server'.read = db.groups /\ db.groups \in 0..MaxBuilds
    BY <2>1, <1>1, <1>3 DEF Tables
  <2>3. Shapes' /\ StampInv' /\ MemoInv' /\ DownInv'
    BY <2>1, <2>2, <1>1 DEF DashInv, Shapes, StampInv, MemoInv, DownInv
  <2>4. PlanShape' /\ PlanInv' /\ ListingShape'
    BY <2>1, <2>2 DEF DashInv, PlanShape, PlanInv, Asked, ListingShape, Listed
  <2>5. ListingInv'
    BY <2>1, <2>2, AnswersAreKept DEF DashInv, ListingInv, Listed, Progress
  <2> QED
    BY <2>3, <2>4, <2>5 DEF DashInv
<1> QED
  BY <1>2, <1>3

LEMMA ReadRowsKeeps ==
  ASSUME DashInv, ReadRows
  PROVE  DashInv'
<1>1. /\ server \in [up : BOOLEAN, life : Nat, read : {None} \cup 0..MaxBuilds,
                     memo : {None} \cup Memos]
      /\ db \in [exists : BOOLEAN, stamp : BOOLEAN, groups : Tables, rows : Tables]
      /\ server.up /\ server.read \in 0..MaxBuilds /\ server.memo = None
      /\ UNCHANGED <<db, builder, expired>>
  BY DEF DashInv, Shapes, MemoInv, ReadRows
<1>2. CASE db.rows = Missing
  <2>1. Fail /\ server' = [server EXCEPT !.read = None]
    BY <1>2 DEF ReadRows
  <2>2. /\ server'.up = server.up /\ server'.life = server.life /\ server'.memo = server.memo
        /\ server'.read = None
    BY <2>1, <1>1
  <2>3. PlanShape' /\ PlanInv' /\ ListingShape' /\ ListingInv'
    BY <2>1, <2>2, <1>1, FailKeeps
  <2> QED
    BY <2>1, <2>2, <2>3, <1>1 DEF DashInv, Shapes, StampInv, MemoInv, DownInv
<1>3. CASE db.rows # Missing
  <2> DEFINE memo == Projected(server.read, db.rows)
  <2>1. /\ server' = [server EXCEPT !.read = None, !.memo = memo]
        /\ UNCHANGED <<listing, plan>>
    BY <1>3 DEF ReadRows
  <2>2. memo \in Memos /\ memo.life = server.life
    BY <1>1, <1>3 DEF Projected, Memos, Tables
  <2> HIDE DEF memo
  <2>3. /\ server'.up = server.up /\ server'.life = server.life
        /\ server'.memo = memo /\ server'.read = None
    BY <2>1, <1>1
  <2>4. Shapes' /\ StampInv' /\ MemoInv' /\ DownInv'
    BY <2>1, <2>2, <2>3, <1>1 DEF DashInv, Shapes, StampInv, MemoInv, DownInv
  <2>5. PlanShape' /\ ListingShape'
    BY <2>1, <2>3 DEF DashInv, PlanShape, Asked, ListingShape, Listed
  <2>6. PlanInv'
    BY <2>1, <2>3, <1>1 DEF DashInv, PlanInv, Asked
  <2>7. ListingInv'
    <3> SUFFICES ASSUME Listed', server'.up, listing'.life = server'.life,
                        listing'.request.route.source = "projection"
                 PROVE  IF server'.memo = None
                        THEN /\ listing'.phase = "asking"
                             /\ listing'.got = << >> /\ listing'.cursor = 0
                        ELSE IF listing'.phase = "asking" THEN Progress(Answered(listing.request))'
                             ELSE listing'.got = Answered(listing.request)'
      BY DEF ListingInv
    <3>1. listing.phase = "asking" /\ listing.got = << >> /\ listing.cursor = 0
      BY <2>1, <2>3, <1>1 DEF DashInv, ListingInv, Listed
    <3>2. (server.memo \in Memos)' /\ listing'.request \in Requests
      BY <2>1, <2>2, <2>3, <3>1 DEF DashInv, ListingShape, Listed
    <3>3. PICK T : Answered(listing.request)' \in Seq(T)
      BY <3>2, <2>1, AnswersAreSequencesThen
    <3>4. ASSUME NEW rows, rows \in Seq(T) PROVE Progress(rows)'
      <4>1. SubSeq(rows, 1, 0) = << >>
        BY SubSeqEmpty
      <4>2. Len(rows) \in Nat
        BY <3>4
      <4>3. listing'.cursor = 0 /\ listing'.got = << >>
        BY <3>1, <2>1
      <4>4. 0 \in 0..Len(rows)
        BY <4>2
      <4> QED
        BY <4>1, <4>3, <4>4 DEF Progress
    <3>5. Progress(Answered(listing.request))'
      BY <3>3, <3>4, <2>1
    <3> QED
      BY <2>1, <3>1, <3>5
  <2> QED
    BY <2>4, <2>5, <2>6, <2>7 DEF DashInv
<1> QED
  BY <1>2, <1>3

-----------------------------------------------------------------------------
(* The readers                                                             *)

\* A reader leaves the database, its builder and the server alone.
LEMMA OthersUndisturbed ==
  ASSUME DashInv, UNCHANGED <<db, builder, server>>
  PROVE  Shapes' /\ StampInv' /\ MemoInv' /\ DownInv'
BY DEF DashInv, Shapes, StampInv, MemoInv, DownInv

LEMMA PlanUndisturbed ==
  ASSUME DashInv, UNCHANGED <<server, plan>>
  PROVE  PlanShape' /\ PlanInv'
BY DEF DashInv, PlanShape, PlanInv, Asked

LEMMA ListingUndisturbed ==
  ASSUME DashInv, UNCHANGED <<server, listing>>
  PROVE  ListingShape' /\ ListingInv'
BY AnswersAreKept DEF DashInv, ListingShape, ListingInv, Listed, Progress

LEMMA StartListingKeeps ==
  ASSUME DashInv, StartListing
  PROVE  DashInv'
<1>1. server.up /\ server.life \in Nat /\ UNCHANGED <<db, builder, expired, server, plan>>
  BY DEF DashInv, Shapes, StartListing
<1>2. PICK request \in Requests, limit \in Limits :
        listing' = [phase |-> "asking", request |-> request, limit |-> limit,
                    cursor |-> 0, got |-> << >>, life |-> server.life]
  BY DEF StartListing
<1>3. Shapes' /\ StampInv' /\ MemoInv' /\ DownInv' /\ PlanShape' /\ PlanInv'
  BY <1>1, OthersUndisturbed, PlanUndisturbed
<1>4. ListingShape'
  BY <1>1, <1>2 DEF ListingShape, Listed
<1>5. ListingInv'
  <2>1. CASE server'.memo = None \/ request.route.source # "projection"
    BY <2>1, <1>2 DEF ListingInv
  <2>2. CASE server'.memo # None /\ request.route.source = "projection"
    <3>1. (server.memo \in Memos)'
      BY <2>2, <1>3 DEF Shapes
    <3>2. PICK T : Answered(request)' \in Seq(T)
      BY <3>1, <2>2, AnswersAreSequencesThen
    <3>3. ASSUME NEW rows, rows \in Seq(T) PROVE Progress(rows)'
      <4>1. SubSeq(rows, 1, 0) = << >>
        BY SubSeqEmpty
      <4>2. 0 \in 0..Len(rows)
        BY <3>3
      <4>3. listing'.cursor = 0 /\ listing'.got = << >>
        BY <1>2
      <4> QED
        BY <4>1, <4>2, <4>3 DEF Progress
    <3>4. Progress(Answered(listing.request))'
      BY <3>2, <3>3, <1>2
    <3> QED
      BY <3>4, <2>2, <1>2 DEF ListingInv
  <2> QED
    BY <2>1, <2>2
<1> QED
  BY <1>3, <1>4, <1>5 DEF DashInv

\* The page after the cursor brings the client to the next one, or to the end.
LEMMA FollowedPage ==
  ASSUME NEW S, NEW rows \in Seq(S), Progress(rows), ListingShape, Listed,
         listing' = Followed(listing.request, rows)
  PROVE  /\ listing'.phase = "asking" => Progress(rows)'
         /\ listing'.phase # "asking" => listing'.phase = "done" /\ listing'.got = rows
<1> DEFINE page == IF ViewOf(listing.request) \in listing.request.route.whole
                   THEN WholePage(rows)
                   ELSE Page(rows, listing.limit, listing.cursor)
<1>1. listing = [phase |-> listing.phase, request |-> listing.request,
                 limit |-> listing.limit, cursor |-> listing.cursor,
                 got |-> listing.got, life |-> listing.life]
  BY DEF ListingShape
<1>2. listing' = [listing EXCEPT !.got = @ \o page.data,
                                 !.cursor = IF page.next = None THEN @ ELSE page.next,
                                 !.phase = IF page.next = None THEN "done" ELSE "asking"]
  BY DEF Followed
<1> HIDE DEF page
<1>3. /\ listing'.got = listing.got \o page.data
      /\ listing'.cursor = IF page.next = None THEN listing.cursor ELSE page.next
      /\ listing'.phase = IF page.next = None THEN "done" ELSE "asking"
      /\ listing'.request = listing.request
  BY <1>1, <1>2
<1>4. /\ listing.cursor \in 0..Len(rows) /\ Len(rows) \in Nat
      /\ listing.got = SubSeq(rows, 1, listing.cursor)
  BY DEF Progress
<1>5. SubSeq(rows, 1, Len(rows)) = rows
  BY SubSeqFull
<1>6. CASE ViewOf(listing.request) \in listing.request.route.whole
  <2>1. page.data = rows /\ page.next = None
    BY <1>6 DEF page, WholePage
  <2>2. listing.got = << >>
    <3>1. listing.cursor = 0
      BY <1>6 DEF Progress
    <3> QED
      BY <3>1, <1>4, SubSeqEmpty
  <2>3. << >> \o rows = rows
    BY <1>5, ConcatEmptySeq
  <2> QED
    BY <1>3, <2>1, <2>2, <2>3
<1>7. CASE ViewOf(listing.request) \notin listing.request.route.whole
  <2>1. PICK end \in listing.cursor..Len(rows) :
          /\ page.data = SubSeq(rows, listing.cursor + 1, end)
          /\ page.next = IF end < Len(rows) THEN end ELSE None
    <3>1. page = Page(rows, listing.limit, listing.cursor)
      BY <1>7 DEF page
    <3>2. \E end \in listing.cursor..Len(rows) :
            /\ Page(rows, listing.limit, listing.cursor).data
                 = SubSeq(rows, listing.cursor + 1, end)
            /\ Page(rows, listing.limit, listing.cursor).next
                 = IF end < Len(rows) THEN end ELSE None
      BY <1>4, PageEnds
    <3> QED
      BY <3>1, <3>2
  <2>2. listing'.got = SubSeq(rows, 1, end)
    <3>1. /\ 1 \in 1..(Len(rows) + 1) /\ listing.cursor \in (1 - 1)..Len(rows)
          /\ end \in listing.cursor..Len(rows)
      BY <1>4, <2>1
    <3>2. SubSeq(rows, 1, listing.cursor) \o SubSeq(rows, listing.cursor + 1, end)
            = SubSeq(rows, 1, end)
      BY <3>1, ConcatAdjacentSubSeq
    <3> QED
      BY <3>2, <2>1, <1>3, <1>4
  <2>3. end \in Nat /\ end # None
    BY <1>4, <2>1, ServerAssumption
  <2>4. CASE end < Len(rows)
    <3>1. listing'.cursor = end /\ listing'.phase = "asking"
      BY <2>1, <2>3, <2>4, <1>3
    <3>2. end \in 0..Len(rows)
      BY <1>4, <2>1
    <3> QED
      BY <3>1, <3>2, <2>2, <1>3, <1>7 DEF Progress
  <2>5. CASE ~(end < Len(rows))
    <3>1. end = Len(rows)
      BY <2>5, <2>1, <1>4
    <3> QED
      BY <3>1, <2>1, <2>2, <1>3, <1>5
  <2> QED
    BY <2>4, <2>5
<1> QED
  BY <1>6, <1>7

LEMMA AnswerPageKeeps ==
  ASSUME DashInv, AnswerPage
  PROVE  DashInv'
<1>1. /\ server.up /\ listing.phase = "asking" /\ Listed
      /\ NeedsDashboard(listing.request) => server.memo # None
      /\ UNCHANGED <<db, builder, expired, server, plan>>
  BY DEF AnswerPage, Listed
<1>2. Shapes' /\ StampInv' /\ MemoInv' /\ DownInv' /\ PlanShape' /\ PlanInv'
  BY <1>1, OthersUndisturbed, PlanUndisturbed
<1>3. listing' = Failed \/ listing' = Followed(listing.request, Answered(listing.request))
  BY DEF AnswerPage
<1>4. CASE listing' = Failed
  BY <1>4, <1>2 DEF DashInv, ListingShape, ListingInv, Listed, Failed
<1>5. CASE listing' = Followed(listing.request, Answered(listing.request))
  <2>1. ListingShape
    BY DEF DashInv
  <2>2. /\ listing'.phase \in {"asking", "done"}
        /\ listing'.request = listing.request /\ listing'.life = listing.life
        /\ listing' = [phase |-> listing'.phase, request |-> listing'.request,
                       limit |-> listing'.limit, cursor |-> listing'.cursor,
                       got |-> listing'.got, life |-> listing'.life]
    <3>1. listing = [phase |-> listing.phase, request |-> listing.request,
                     limit |-> listing.limit, cursor |-> listing.cursor,
                     got |-> listing.got, life |-> listing.life]
      BY <2>1, <1>1 DEF ListingShape
    <3> DEFINE rows == Answered(listing.request)
               page == IF ViewOf(listing.request) \in listing.request.route.whole
                       THEN WholePage(rows)
                       ELSE Page(rows, listing.limit, listing.cursor)
               next == page.next
               data == page.data
    <3>2. listing' = [listing EXCEPT !.got = @ \o data,
                                     !.cursor = IF next = None THEN @ ELSE next,
                                     !.phase = IF next = None THEN "done" ELSE "asking"]
      BY <1>5 DEF Followed
    <3> HIDE DEF next, data
    <3> QED
      BY <3>1, <3>2
  <2>3. ListingShape'
    BY <2>1, <2>2, <1>1 DEF ListingShape, Listed
  <2>4. ListingInv'
    <3> SUFFICES ASSUME listing.life = server.life,
                        listing.request.route.source = "projection"
                 PROVE  /\ server'.memo # None
                        /\ listing'.phase = "asking" => Progress(Answered(listing.request))'
                        /\ listing'.phase # "asking" => listing'.got = Answered(listing.request)'
      BY <1>1, <2>2 DEF ListingInv
    <3>1. server.memo \in Memos /\ server.memo # None
      BY <1>1 DEF NeedsDashboard, DashInv, Shapes
    <3>2. Progress(Answered(listing.request))
      BY <3>1, <1>1 DEF DashInv, ListingInv
    <3>3. listing.request \in Requests
      BY <2>1, <1>1 DEF ListingShape
    <3>4. PICK S : Answered(listing.request) \in Seq(S)
      BY <3>1, <3>3, AnswersAreSequences
    <3>5. Answered(listing.request)' = Answered(listing.request)
      <4>1. \A request : request.route.source = "projection" =>
              Answered(request)' = Answered(request)
        BY <1>1, AnswersAreKept
      <4> QED
        BY <4>1, <2>2
    <3>6. \A rows \in Seq(S) :
            Progress(rows) /\ listing' = Followed(listing.request, rows) =>
              /\ listing'.phase = "asking" => Progress(rows)'
              /\ listing'.phase # "asking" => listing'.phase = "done" /\ listing'.got = rows
      BY <2>1, <1>1, FollowedPage
    <3> QED
      BY <3>1, <3>2, <3>4, <3>5, <3>6, <1>1, <1>5
  <2> QED
    BY <1>2, <2>3, <2>4 DEF DashInv
<1> QED
  BY <1>3, <1>4, <1>5

LEMMA StartPlanKeeps ==
  ASSUME DashInv, StartPlan
  PROVE  DashInv'
<1>1. /\ server.life \in Nat /\ UNCHANGED <<db, builder, expired, server, listing>>
      /\ plan' = [phase |-> "asking", parts |-> [p \in Parts |-> None]]
  BY DEF DashInv, Shapes, StartPlan
<1>2. Shapes' /\ StampInv' /\ MemoInv' /\ DownInv' /\ ListingShape' /\ ListingInv'
  BY <1>1, OthersUndisturbed, ListingUndisturbed
<1>3. PlanShape' /\ PlanInv'
  BY <1>1 DEF PlanShape, PlanInv, Asked
<1> QED
  BY <1>2, <1>3 DEF DashInv

LEMMA AnswerPartKeeps ==
  ASSUME DashInv, AnswerPart
  PROVE  DashInv'
<1>1. /\ server.up /\ server.memo # None /\ plan.phase = "asking" /\ Asked
      /\ UNCHANGED <<db, builder, expired, server, listing>>
      /\ server.memo.life = server.life /\ server.life \in Nat
  BY DEF AnswerPart, Asked, DashInv, Shapes, MemoInv
<1>2. PICK p \in Parts :
        plan.parts[p] = None /\ plan' = [plan EXCEPT !.parts[p] = server.memo]
  BY DEF AnswerPart
<1>3. /\ plan = [phase |-> plan.phase, parts |-> plan.parts]
      /\ plan.parts = [r \in Parts |-> plan.parts[r]]
  BY <1>1 DEF DashInv, PlanShape
<1>4. /\ plan' = [phase |-> plan'.phase, parts |-> plan'.parts]
      /\ plan'.phase = "asking"
      /\ plan'.parts = [plan.parts EXCEPT ![p] = server.memo]
  BY <1>1, <1>2, <1>3
<1>5. PlanShape' /\ PlanInv'
  BY <1>1, <1>3, <1>4 DEF DashInv, PlanShape, PlanInv, Asked
<1>6. Shapes' /\ StampInv' /\ MemoInv' /\ DownInv' /\ ListingShape' /\ ListingInv'
  BY <1>1, OthersUndisturbed, ListingUndisturbed
<1> QED
  BY <1>5, <1>6 DEF DashInv

LEMMA DecidePlanKeeps ==
  ASSUME DashInv, DecidePlan
  PROVE  DashInv'
<1>1. /\ plan.phase = "asking" /\ Asked /\ \A p \in Parts : plan.parts[p] # None
      /\ plan' = [plan EXCEPT !.phase = "admitted"] \/ plan' = Failed
      /\ UNCHANGED <<db, builder, expired, server, listing>>
  BY DEF DecidePlan, Asked
<1>2. /\ plan = [phase |-> plan.phase, parts |-> plan.parts]
      /\ plan.parts = [p \in Parts |-> plan.parts[p]]
  BY <1>1 DEF DashInv, PlanShape
<1>3. CASE plan' = Failed
  BY <1>3, <1>1, OthersUndisturbed, ListingUndisturbed
     DEF DashInv, PlanShape, PlanInv, Asked, Failed
<1>4. CASE plan' = [plan EXCEPT !.phase = "admitted"]
  <2>1. /\ plan' = [phase |-> plan'.phase, parts |-> plan'.parts]
        /\ plan'.phase = "admitted" /\ plan'.parts = plan.parts
    BY <1>2, <1>4
  <2>2. PlanShape' /\ PlanInv'
    BY <1>1, <1>2, <2>1 DEF DashInv, PlanShape, PlanInv, Asked
  <2> QED
    BY <2>2, <1>1, OthersUndisturbed, ListingUndisturbed DEF DashInv
<1> QED
  BY <1>1, <1>3, <1>4

LEMMA UnreachableKeeps ==
  ASSUME DashInv, Unreachable
  PROVE  DashInv'
<1>1. Fail /\ UNCHANGED <<db, builder, server, expired>>
  BY DEF Unreachable
<1>2. PlanShape' /\ PlanInv' /\ ListingShape' /\ ListingInv'
  BY <1>1, FailKeeps
<1> QED
  BY <1>1, <1>2, OthersUndisturbed DEF DashInv

LEMMA InitDashInv == Init => DashInv
<1> SUFFICES ASSUME Init PROVE DashInv
  OBVIOUS
<1>1. db \in [exists : BOOLEAN, stamp : BOOLEAN, groups : Tables, rows : Tables]
  <2>1. CASE db = [exists |-> FALSE, stamp |-> FALSE, groups |-> Missing, rows |-> Missing]
    BY <2>1 DEF Tables
  <2>2. CASE db = [exists |-> TRUE, stamp |-> TRUE, groups |-> 1, rows |-> 1]
    BY <2>2, ServerAssumption DEF Tables
  <2> QED
    BY <2>1, <2>2 DEF Init
<1>2. builder \in [pc : BuilderAt, build : 0..MaxBuilds, died : DiedAt]
  BY ServerAssumption DEF Init, BuilderAt, DiedAt
<1>3. server \in [up : BOOLEAN, life : Nat, read : {None} \cup 0..MaxBuilds,
                 memo : {None} \cup Memos]
  BY DEF Init, Down
<1>4. StampInv /\ MemoInv /\ DownInv
  BY DEF Init, StampInv, MemoInv, DownInv, Down
<1>5. PlanShape /\ PlanInv /\ ListingShape /\ ListingInv
  BY DEF Init, PlanShape, PlanInv, ListingShape, ListingInv, Asked, Listed, NoPlan, NoListing
<1> QED
  BY <1>1, <1>2, <1>3, <1>4, <1>5 DEF DashInv, Shapes

LEMMA DashInvariant == Spec => []DashInv
<1>1. DashInv /\ [Next]_vars => DashInv'
  <2> SUFFICES ASSUME DashInv, [Next]_vars PROVE DashInv'
    OBVIOUS
  <2>1. CASE Build
    BY <2>1, BuildKeeps
  <2>2. CASE PriceExpires \/ UNCHANGED vars
    BY <2>2, QuietKeeps DEF PriceExpires, vars
  <2>3. CASE StartServer \/ StopServer
    BY <2>3, StartServerKeeps, StopServerKeeps
  <2>4. CASE Project
    BY <2>4, ReadGroupsKeeps, ReadRowsKeeps DEF Project
  <2>5. CASE StartListing \/ StartPlan
    BY <2>5, StartListingKeeps, StartPlanKeeps
  <2>6. CASE Answer
    BY <2>6, AnswerPageKeeps, AnswerPartKeeps, DecidePlanKeeps, UnreachableKeeps DEF Answer
  <2> QED
    BY <2>1, <2>2, <2>3, <2>4, <2>5, <2>6 DEF Next
<1> QED
  BY <1>1, InitDashInv, PTL DEF Spec

-----------------------------------------------------------------------------
(* Whose rows are answered                                                 *)

\* Every route ties its rows to the site in a known way and reads them from a
\* known place; unless they are of no site or named, the site is required.
RouteFields ==
  {"tie", "views", "default", "strict", "ownGroups", "required", "checked",
   "lenient", "site", "asks", "leavesOut", "whole", "source"}

WellTied(route) ==
  /\ DOMAIN route = RouteFields
  /\ route.tie \in Ties
  /\ route.source \in {"projection", "database", "file"}
  /\ route.tie \notin {"corpus", "named"} => route.site = "required"

LEMMA ListingsAreWellTied ==
  /\ \A filters : \A tie \in Ties : WellTied(Listing(tie, filters))
  /\ \A filters : WellTied(Report(filters)) /\ WellTied(Kept(filters))
  /\ \A default, views : WellTied(ReportViews(default, views))
  /\ \A route, default, views : WellTied(route) => WellTied(Views(route, default, views))
  /\ \A route : WellTied(route) =>
       WellTied(OwnGroups(route)) /\ WellTied(Whole(route)) /\ WellTied(Live(route))
BY DEF WellTied, RouteFields, Ties, Listing, Report, Kept, ReportViews, Views, OwnGroups, Whole,
       Live

LEMMA RoutesAreWellTied == \A route \in Routes : WellTied(route)
<1>1. \A route \in
        {PublicContractFreshness, AcquisitionRetention, MarketLanguages, OperationGraph,
        OperationRetention, ProviderProvenance, CapabilityAudit, OpenApi, OperationCoverage,
        SiteList, RankStatus, ActionQueue, KeywordAcquisitionPortfolio,
        AcquisitionLifetimeAllocation, TitleRepairs, ContentReadiness,
        ContentDemandStability, ContentCompetitiveStability,
        ContentEvidenceEnsembleSelection, ContentTaskHoldout, ContentEditorialReview,
        ContentEditorialAdjudication, ContentSelectionDeltaExplanations,
        GenerationProvenance, GenerationQualityOracle, GenerationExecutionManifest,
        PaidTestBudgetScenarios, ContentRichBlockPlans, GenerationChallengerManifest,
        SearchContractCodeMappings, CompetitiveAppearanceHistory, ClaimVerificationQueue,
        ClaimDiscoveryPortfolio, PaaAnswerCompletion, AioCompletion,
        AcquisitionContractFulfillment, AcquisitionRemediationPortfolio,
        AcquisitionExecutionReadiness, AcquisitionApprovalManifest, RankResults} :
        WellTied(route)
  BY ListingsAreWellTied
     DEF Ties,
       PublicContractFreshness, AcquisitionRetention, MarketLanguages, OperationGraph,
       OperationRetention, ProviderProvenance, CapabilityAudit, OpenApi, OperationCoverage,
       SiteList, RankStatus, ActionQueue, KeywordAcquisitionPortfolio,
       AcquisitionLifetimeAllocation, TitleRepairs, ContentReadiness,
       ContentDemandStability, ContentCompetitiveStability,
       ContentEvidenceEnsembleSelection, ContentTaskHoldout, ContentEditorialReview,
       ContentEditorialAdjudication, ContentSelectionDeltaExplanations,
       GenerationProvenance, GenerationQualityOracle, GenerationExecutionManifest,
       PaidTestBudgetScenarios, ContentRichBlockPlans, GenerationChallengerManifest,
       SearchContractCodeMappings, CompetitiveAppearanceHistory, ClaimVerificationQueue,
       ClaimDiscoveryPortfolio, PaaAnswerCompletion, AioCompletion,
       AcquisitionContractFulfillment, AcquisitionRemediationPortfolio,
       AcquisitionExecutionReadiness, AcquisitionApprovalManifest, RankResults,
       BatchedPortfolio, CapabilityFilters
<1>2. \A route \in
        {FreshnessSignals, PresentationIntegrity, SearchContracts, PaaAnswers,
        AioElementLineage, FeaturePlacements, SerpFeatureItems, AioOverviews, SerpResults,
        SimultaneousRankings, SerpPages, DepthStability, SnapshotHistory, KeywordLineage,
        KeywordExpansionLineage, KeywordContentLineage, RelatedKeywordBoundaries,
        AssociationEvidence, VariantEvidence, SemanticCandidateReviews,
        GraphRelatedKeywords, ContentSemanticCoverage, SemanticResolutionDecisions,
        ObservedTagContentCoverage, ObservedHashtags, QuestionLineage,
        QuestionExpansionGraph, DemandOccurrenceIntegrity, DemandAppearanceHistory,
        SimultaneousRankIntegrity, Keywords, Demands, QaSiteEvidence, Questions,
        RelatedKeywords, KeywordDecisions, IntentFingerprints, KeywordBoundaries,
        ContentTopology} :
        WellTied(route)
  BY ListingsAreWellTied
     DEF Ties,
       FreshnessSignals, PresentationIntegrity, SearchContracts, PaaAnswers,
       AioElementLineage, FeaturePlacements, SerpFeatureItems, AioOverviews, SerpResults,
       SimultaneousRankings, SerpPages, DepthStability, SnapshotHistory, KeywordLineage,
       KeywordExpansionLineage, KeywordContentLineage, RelatedKeywordBoundaries,
       AssociationEvidence, VariantEvidence, SemanticCandidateReviews,
       GraphRelatedKeywords, ContentSemanticCoverage, SemanticResolutionDecisions,
       ObservedTagContentCoverage, ObservedHashtags, QuestionLineage,
       QuestionExpansionGraph, DemandOccurrenceIntegrity, DemandAppearanceHistory,
       SimultaneousRankIntegrity, Keywords, Demands, QaSiteEvidence, Questions,
       RelatedKeywords, KeywordDecisions, IntentFingerprints, KeywordBoundaries,
       ContentTopology
<1>3. \A route \in
        {ConsolidationBlueprints, ConsolidationCitations, Titles, Outlines, Compositions,
        Drafts, CooccurrenceOfGroups, CooccurrenceOfTasks, ContentEvidence, Brands, Domains,
        NewArticleBriefQueue, NewArticleSourceDiscoveryManifest,
        NewArticlePublicSourceEvidence, PublicSourceReviewPacket,
        PublicSourceCitationApplicationPackets, EvidenceSafeClaimReframes,
        EvidenceSafeDraftRevisions, EvidenceSafeManualRevisionPackets,
        NewArticleCitationSuitability, NewArticleTopologyGate,
        ObservedOpportunityContentCoverage, ObservedKeywordContentRouting,
        ObservedSiteKeywordOpportunities, ObservedSiteSimilarity, ObservedSites,
        ObservedRankedKeywordHistory, ObservedRankedKeywords, MarketStatus, MarketResults,
        WordpressSurface, WordpressLinks, WordpressParagraphs, WordpressSeoMetadata,
        WordpressSeoAudits, Acquisition} :
        WellTied(route)
  BY ListingsAreWellTied
     DEF Ties,
       ConsolidationBlueprints, ConsolidationCitations, Titles, Outlines, Compositions,
       Drafts, CooccurrenceOfGroups, CooccurrenceOfTasks, ContentEvidence, Brands, Domains,
       NewArticleBriefQueue, NewArticleSourceDiscoveryManifest,
       NewArticlePublicSourceEvidence, PublicSourceReviewPacket,
       PublicSourceCitationApplicationPackets, EvidenceSafeClaimReframes,
       EvidenceSafeDraftRevisions, EvidenceSafeManualRevisionPackets,
       NewArticleCitationSuitability, NewArticleTopologyGate,
       ObservedOpportunityContentCoverage, ObservedKeywordContentRouting,
       ObservedSiteKeywordOpportunities, ObservedSiteSimilarity, ObservedSites,
       ObservedRankedKeywordHistory, ObservedRankedKeywords, MarketStatus, MarketResults,
       WordpressSurface, WordpressLinks, WordpressParagraphs, WordpressSeoMetadata,
       WordpressSeoAudits, Acquisition
<1>4. \A route \in
        {MarketLocations, CreditsEstimate, SerpFieldLineage} :
        WellTied(route)
  BY DEF WellTied, RouteFields, Ties, Listing, Report, Kept, ReportViews, Views, OwnGroups,
       Whole, Live,
       MarketLocations, CreditsEstimate, SerpFieldLineage
<1>5. \A route \in
        {RawSnapshot, SerpDbRetention, RankMonitorPlan} :
        WellTied(route)
  BY DEF WellTied, RouteFields, Ties, Listing, Report, Kept, ReportViews, Views, OwnGroups,
       Whole, Live,
       RawSnapshot, SerpDbRetention, RankMonitorPlan
<1>6. \A route \in
        {AcquisitionLifetimeApprovalManifest, HeadingRepairs, SerpDepthInventory} :
        WellTied(route)
  BY DEF WellTied, RouteFields, Ties, Listing, Report, Kept, ReportViews, Views, OwnGroups,
       Whole, Live,
       AcquisitionLifetimeApprovalManifest, HeadingRepairs, SerpDepthInventory
<1>7. \A route \in
        {SnapshotTargets, HeadingPatterns, LatentDemandTraversal} :
        WellTied(route)
  BY DEF WellTied, RouteFields, Ties, Listing, Report, Kept, ReportViews, Views, OwnGroups,
       Whole, Live,
       SnapshotTargets, HeadingPatterns, LatentDemandTraversal
<1>8. \A route \in
        {PublicSynonyms, PublicSemanticGraph, SnapshotIsolated, SuggestEvidence, SuggestExpansionLogic} :
        WellTied(route)
  BY DEF WellTied, RouteFields, Ties, Listing, Report, Kept, ReportViews, Views, OwnGroups,
       Whole, Live, OfNoSite,
       PublicSynonyms, PublicSemanticGraph, SnapshotIsolated, SuggestEvidence, SuggestExpansionLogic
<1>9. \A route \in
        {Headings, GroupBrief} :
        WellTied(route)
  BY DEF WellTied, RouteFields, Ties, Listing, Report, Kept, ReportViews, Views, OwnGroups,
       Whole, Live,
       Headings, GroupBrief
<1> QED
  BY <1>1, <1>2, <1>3, <1>4, <1>5, <1>6, <1>7, <1>8, <1>9 DEF Routes

\* A row tied to the site of a request that is not refused is of that site, or
\* of no site, or an occurrence in the expansion lineage.
Mine(request, row) ==
  request.route.tie # "named" =>
    (Owners(row) # {} /\ ~OfAllSites(request, row) => request.site \in Owners(row))

LEMMA TiedRowsAreMine ==
  ASSUME NEW request \in Requests, NEW known, NEW row \in Rows,
         request.route.site = "required" => request.site # None,
         Tied(request, known, row)
  PROVE  Mine(request, row)
<1> DEFINE route == request.route
           site == request.site
<1>1. WellTied(route)
  BY RequestsAssumption, RoutesAreWellTied
<1>2. /\ site = row.site /\ site # None => site \in Owners(row)
      /\ \A g \in row.groups : SiteOf[g] = site /\ site # None => site \in Owners(row)
      /\ row.task # None /\ SiteOf[GroupOf[row.task]] = site /\ site # None
           => site \in Owners(row)
  BY DEF Owners
<1>3. route.tie \in Ties /\ (route.tie \notin {"corpus", "named"} => site # None)
  BY <1>1 DEF WellTied
<1>4. CASE route.tie = "corpus"
  <2>1. row.site = None /\ row.groups = {} /\ row.task = None
    BY <1>4, RequestsAssumption DEF Tied
  <2> QED
    BY <2>1 DEF Owners, Mine
<1>5. CASE route.tie \in {"report", "lineage", "bySite"}
  BY <1>2, <1>3, <1>5 DEF Tied, Mine, OfAllSites
<1>6. CASE route.tie \in {"byGroup", "byAnyGroup"}
  <2>1. \E g \in row.groups : SiteOf[g] = site
    BY <1>6 DEF Tied, GroupIds
  <2> QED
    BY <2>1, <1>2, <1>3, <1>6 DEF Mine
<1>7. CASE route.tie = "byTask"
  <2>1. row.task \in Tasks /\ SiteOf[GroupOf[row.task]] = site
    BY <1>7 DEF Tied, TaskIds, GroupIds
  <2> QED
    BY <2>1, <1>2, <1>3, <1>7, ApiAssumption DEF Mine
<1>8. CASE route.tie = "named"
  BY <1>8 DEF Mine
<1> QED
  BY <1>3, <1>4, <1>5, <1>6, <1>7, <1>8 DEF Ties

\* A sequence of rows a request may be answered.
OwnRows(request, rows) ==
  rows \in Seq(Rows) /\ \A i \in DOMAIN rows : Mine(request, rows[i])

LEMMA FoundRowsAreOwn ==
  ASSUME NEW request \in Requests, NEW g \in 0..MaxBuilds, NEW b \in 0..MaxBuilds,
         request.route.site = "required" => request.site # None
  PROVE  OwnRows(request, Found[request][g][b])
<1> DEFINE source == IF NeedsDashboard(request) THEN Content[b] ELSE Files
           rows == source.rows
           at == {i \in DOMAIN rows : Tied(request, Content[g], rows[i])
                                        /\ Passes(request, rows[i])}
<1>1. rows \in Seq(Rows)
  BY ServerAssumption
<1>2. Found[request][g][b] = RowsAt(rows, at)
  <2>1. Found[request][g][b] = AnsweredRows(request, Content[g], source)
    BY DEF Found
  <2> QED
    BY <2>1 DEF AnsweredRows
<1>3. \A i \in at : Tied(request, Content[g], rows[i])
  OBVIOUS
<1>4. at \in SUBSET DOMAIN rows
  OBVIOUS
<1> HIDE DEF at, rows
<1>5. \A i \in at : Mine(request, rows[i])
  <2> SUFFICES ASSUME NEW i \in at PROVE Mine(request, rows[i])
    OBVIOUS
  <2>1. rows[i] \in Rows
    BY <1>1, <1>4
  <2> QED
    BY <2>1, <1>3, TiedRowsAreMine
<1>6. /\ RowsAt(rows, at) \in Seq(Rows)
      /\ \A n \in DOMAIN RowsAt(rows, at) : \E i \in at : RowsAt(rows, at)[n] = rows[i]
  BY <1>1, <1>4, PickedAreRows
<1> QED
  BY <1>2, <1>5, <1>6 DEF OwnRows

\* What is put after one's own rows, out of one's own rows.
LEMMA MoreOwnRows ==
  ASSUME NEW request, NEW got, NEW more, OwnRows(request, got), OwnRows(request, more)
  PROVE  OwnRows(request, got \o more)
<1>1. got \in Seq(Rows) /\ more \in Seq(Rows)
  BY DEF OwnRows
<1>2. /\ got \o more \in Seq(Rows)
      /\ Len(got \o more) = Len(got) + Len(more)
      /\ \A i \in 1..Len(got) : (got \o more)[i] = got[i]
      /\ \A i \in 1..Len(more) : (got \o more)[Len(got) + i] = more[i]
  BY <1>1, ConcatProperties
<1>3. \A i \in 1..Len(got) + Len(more) :
        i \in 1..Len(got) \/ i - Len(got) \in 1..Len(more)
  BY <1>1
<1>4. \A i \in 1..Len(got) + Len(more) : Mine(request, (got \o more)[i])
  <2> SUFFICES ASSUME NEW i \in 1..Len(got) + Len(more) PROVE Mine(request, (got \o more)[i])
    OBVIOUS
  <2>1. CASE i \in 1..Len(got)
    BY <2>1, <1>1, <1>2 DEF OwnRows
  <2>2. CASE i - Len(got) \in 1..Len(more)
    <3>1. (got \o more)[i] = more[i - Len(got)]
      <4>1. Len(got) + (i - Len(got)) = i
        BY <1>1
      <4> QED
        BY <4>1, <2>2, <1>2
    <3> QED
      BY <3>1, <2>2, <1>1 DEF OwnRows
  <2> QED
    BY <2>1, <2>2, <1>3
<1>5. DOMAIN (got \o more) = 1..Len(got) + Len(more)
  BY <1>2
<1> QED
  BY <1>2, <1>4, <1>5 DEF OwnRows

LEMMA PagesOfOwnRows ==
  ASSUME NEW request, NEW rows, OwnRows(request, rows), NEW limit, NEW cursor \in Nat
  PROVE  /\ OwnRows(request, Page(rows, limit, cursor).data)
         /\ Page(rows, limit, cursor).next \in Nat \cup {None}
<1> DEFINE end == IF cursor + PageLimit(limit) < Len(rows)
                  THEN cursor + PageLimit(limit) ELSE Len(rows)
           data == SubSeq(rows, cursor + 1, end)
<1>1. rows \in Seq(Rows) /\ Len(rows) \in Nat /\ DOMAIN rows = 1..Len(rows)
  BY DEF OwnRows
<1>2. PageOffset(cursor) = cursor
  BY DEF PageOffset
<1>3. end \in 0..Len(rows)
  BY <1>1, LimitIsPositive
<1>4. /\ Page(rows, limit, cursor).data = data
      /\ Page(rows, limit, cursor).next
           = IF cursor + Len(data) < Len(rows) THEN cursor + Len(data) ELSE None
  BY <1>2 DEF Page
<1> HIDE DEF end
<1>5. \A i \in (cursor + 1)..end : i \in 1..Len(rows)
  BY <1>1, <1>3
<1>6. \A i \in (cursor + 1)..end : rows[i] \in Rows
  BY <1>1, <1>5
<1>7. /\ data \in Seq(Rows)
      /\ Len(data) = IF cursor + 1 <= end THEN end - (cursor + 1) + 1 ELSE 0
      /\ \A i \in 1..end - (cursor + 1) + 1 : data[i] = rows[cursor + 1 + i - 1]
  BY <1>3, <1>6, SubSeqProperties
<1> HIDE DEF data
<1>8. \A i \in 1..Len(data) : \E j \in DOMAIN rows : data[i] = rows[j]
  <2> SUFFICES ASSUME NEW i \in 1..Len(data) PROVE \E j \in DOMAIN rows : data[i] = rows[j]
    OBVIOUS
  <2>1. i \in 1..end - (cursor + 1) + 1 /\ cursor + 1 + i - 1 \in (cursor + 1)..end
    BY <1>3, <1>7
  <2> QED
    BY <2>1, <1>1, <1>5, <1>7
<1>9. OwnRows(request, data)
  BY <1>7, <1>8 DEF OwnRows
<1>10. Len(data) \in Nat
  BY <1>7
<1> QED
  BY <1>4, <1>9, <1>10

LEMMA FollowedIsOwn ==
  ASSUME ListingShape, Listed, NEW rows, OwnRows(listing.request, rows),
         OwnRows(listing.request, listing.got), listing.cursor \in Nat,
         listing' = Followed(listing.request, rows)
  PROVE  /\ listing'.phase \in {"asking", "done"} /\ listing'.request = listing.request
         /\ listing'.limit = listing.limit /\ listing'.cursor \in Nat
         /\ OwnRows(listing.request, listing'.got)
<1> DEFINE page == IF ViewOf(listing.request) \in listing.request.route.whole
                   THEN WholePage(rows)
                   ELSE Page(rows, listing.limit, listing.cursor)
<1>1. listing = [phase |-> listing.phase, request |-> listing.request,
                 limit |-> listing.limit, cursor |-> listing.cursor,
                 got |-> listing.got, life |-> listing.life]
  BY DEF ListingShape
<1>2. listing' = [listing EXCEPT !.got = @ \o page.data,
                                 !.cursor = IF page.next = None THEN @ ELSE page.next,
                                 !.phase = IF page.next = None THEN "done" ELSE "asking"]
  BY DEF Followed
<1>3. OwnRows(listing.request, page.data) /\ page.next \in Nat \cup {None}
  <2>1. WholePage(rows).data = rows /\ WholePage(rows).next = None
    BY DEF WholePage
  <2> QED
    BY <2>1, PagesOfOwnRows
<1> HIDE DEF page
<1>4. /\ listing'.got = listing.got \o page.data
      /\ listing'.cursor = IF page.next = None THEN listing.cursor ELSE page.next
      /\ listing'.phase = IF page.next = None THEN "done" ELSE "asking"
      /\ listing'.request = listing.request /\ listing'.limit = listing.limit
  BY <1>1, <1>2
<1> QED
  BY <1>3, <1>4, MoreOwnRows

-----------------------------------------------------------------------------
(* The type of the state, and whose rows a client has                      *)

OwnListing ==
  Listed =>
    /\ listing.limit \in Limits /\ listing.cursor \in Nat
    /\ OwnRows(listing.request, listing.got)

ServedInv ==
  /\ server.life \in 0..MaxLives
  /\ expired \subseteq Expiring
  /\ listing \in {NoListing, Failed} \/ Listed
  /\ plan \in {NoPlan, Failed} \/ Asked
  /\ Asked => \A p \in Parts : plan.parts[p] \in {None} \cup Memos
  /\ OwnListing

LEMMA AnsweredIsOwn ==
  ASSUME DashInv, ServedInv, AnswerPage, listing' # Failed
  PROVE  /\ listing' = Followed(listing.request, Answered(listing.request))
         /\ OwnRows(listing.request, Answered(listing.request))
<1> DEFINE request == listing.request
<1>1. request \in Requests
  BY DEF AnswerPage, DashInv, ListingShape, Listed
<1>2. WellTied(request.route)
  BY <1>1, RequestsAssumption, RoutesAreWellTied
<1>3. /\ ~LiveTableGone(request)
      /\ Status(request, Content[GroupsBuild(request)], Answered(request)) = 200
      /\ NeedsDashboard(request) => server.memo # None
      /\ listing' = Followed(request, Answered(request))
  BY DEF AnswerPage
<1>4. request.route.site = "required" => request.site # None
  BY <1>3 DEF Status
<1>5. /\ server.memo \in {None} \cup Memos /\ db.rows \in Tables
      /\ 0 \in 0..MaxBuilds
  BY ServerAssumption DEF DashInv, Shapes
<1>6. GroupsBuild(request) \in 0..MaxBuilds
  BY <1>3, <1>5 DEF GroupsBuild, Memos
<1>7. RowsBuild(request) \in 0..MaxBuilds
  <2>1. CASE request.route.source = "file"
    BY <2>1, <1>5 DEF RowsBuild
  <2>2. CASE request.route.source = "projection"
    BY <2>2, <1>3, <1>5 DEF RowsBuild, NeedsDashboard, Memos
  <2>3. CASE request.route.source = "database"
    BY <2>3, <1>3, <1>5 DEF RowsBuild, LiveTableGone, Tables
  <2> QED
    BY <2>1, <2>2, <2>3, <1>2 DEF WellTied
<1>8. OwnRows(request, Answered(request))
  BY <1>1, <1>4, <1>6, <1>7, FoundRowsAreOwn DEF Answered
<1> QED
  BY <1>3, <1>8

LEMMA ServedInvKept == ASSUME DashInv, ServedInv, [Next]_vars PROVE ServedInv'
<1>1. CASE Build \/ UNCHANGED vars
  <2>1. UNCHANGED <<server, expired, listing, plan>>
    BY <1>1 DEF Build, StartBuild, DropTables, DropMetadata, CreateTables, Stamp, FillGroups,
                FillRows, BuildDies, vars
  <2> QED
    BY <2>1 DEF ServedInv, OwnListing, Listed, Asked
<1>2. CASE PriceExpires
  BY <1>2 DEF PriceExpires, ServedInv, OwnListing, Listed, Asked
<1>3. CASE StartServer \/ StopServer
  <2>1. /\ server.life \in Nat
        /\ server = [up |-> server.up, life |-> server.life, read |-> server.read,
                     memo |-> server.memo]
    BY DEF DashInv, Shapes
  <2>2. CASE StartServer
    <3>1. server'.life = server.life + 1 /\ server.life < MaxLives
      BY <2>1, <2>2 DEF StartServer
    <3>2. server'.life \in 0..MaxLives
      BY <2>1, <3>1, ServerAssumption
    <3> QED
      BY <2>2, <3>2 DEF StartServer, ServedInv, OwnListing, Listed, Asked
  <2>3. CASE StopServer
    <3>1. server'.life = server.life
      BY <2>1, <2>3 DEF StopServer
    <3> QED
      BY <2>3, <3>1 DEF StopServer, ServedInv, OwnListing, Listed, Asked
  <2> QED
    BY <1>3, <2>2, <2>3
<1>4. ASSUME listing' = listing \/ listing' = Failed, plan' = plan \/ plan' = Failed,
             server'.life = server.life, expired' = expired
      PROVE  ServedInv'
  <2>1. Listed' => listing' = listing /\ Listed
    BY <1>4 DEF Listed, Failed
  <2>2. Asked' => plan' = plan /\ Asked
    BY <1>4 DEF Asked, Failed
  <2>3. listing' \in {NoListing, Failed} \/ Listed'
    BY <1>4 DEF ServedInv, Listed
  <2>4. plan' \in {NoPlan, Failed} \/ Asked'
    BY <1>4 DEF ServedInv, Asked
  <2>5. OwnListing'
    BY <2>1 DEF ServedInv, OwnListing
  <2>6. Asked' => \A p \in Parts : plan'.parts[p] \in {None} \cup Memos
    BY <2>2 DEF ServedInv
  <2> QED
    BY <1>4, <2>3, <2>4, <2>5, <2>6 DEF ServedInv
<1>5. CASE Project \/ Unreachable
  <2>1. server = [up |-> server.up, life |-> server.life, read |-> server.read,
                  memo |-> server.memo]
    BY DEF DashInv, Shapes
  <2>2. server'.life = server.life /\ expired' = expired
    BY <1>5, <2>1 DEF Project, ReadGroups, ReadRows, Unreachable
  <2>3. (listing' = listing \/ listing' = Failed) /\ (plan' = plan \/ plan' = Failed)
    BY <1>5 DEF Project, ReadGroups, ReadRows, Unreachable, Fail
  <2> QED
    BY <1>4, <2>2, <2>3
<1>6. CASE StartListing
  <2>1. PICK request \in Requests, limit \in Limits :
          listing' = [phase |-> "asking", request |-> request, limit |-> limit,
                      cursor |-> 0, got |-> << >>, life |-> server.life]
    BY <1>6 DEF StartListing
  <2>2. OwnRows(request, << >>)
    BY DEF OwnRows
  <2>3. OwnListing' /\ Listed'
    BY <2>1, <2>2 DEF OwnListing, Listed
  <2> QED
    BY <1>6, <2>3 DEF StartListing, ServedInv, Asked
<1>7. CASE AnswerPage
  <2>1. /\ UNCHANGED <<server, expired, plan>> /\ Listed /\ ListingShape
        /\ listing.phase = "asking"
    BY <1>7 DEF AnswerPage, Listed, DashInv
  <2>2. CASE listing' = Failed
    BY <1>4, <2>1, <2>2
  <2>3. CASE listing' # Failed
    <3>1. /\ listing' = Followed(listing.request, Answered(listing.request))
          /\ OwnRows(listing.request, Answered(listing.request))
      BY <1>7, <2>3, AnsweredIsOwn
    <3>2. /\ listing'.phase \in {"asking", "done"} /\ listing'.request = listing.request
          /\ listing'.limit = listing.limit /\ listing'.cursor \in Nat
          /\ OwnRows(listing.request, listing'.got)
      BY <2>1, <3>1, FollowedIsOwn DEF ServedInv, OwnListing
    <3>3. OwnListing' /\ Listed'
      BY <2>1, <3>2 DEF ServedInv, OwnListing, Listed
    <3> QED
      BY <2>1, <3>3 DEF ServedInv, Asked
  <2> QED
    BY <2>2, <2>3
<1>8. CASE StartPlan
  BY <1>8 DEF StartPlan, ServedInv, OwnListing, Listed, Asked
<1>9. CASE AnswerPart
  <2>1. /\ server.memo \in Memos /\ Asked /\ UNCHANGED <<server, expired, listing>>
        /\ plan = [phase |-> plan.phase, parts |-> plan.parts]
        /\ plan.parts = [p \in Parts |-> plan.parts[p]]
    BY <1>9 DEF AnswerPart, DashInv, Shapes, PlanShape, Asked
  <2>2. PICK p \in Parts : plan' = [plan EXCEPT !.parts[p] = server.memo]
    BY <1>9 DEF AnswerPart
  <2>3. plan'.phase = plan.phase /\ plan'.parts = [plan.parts EXCEPT ![p] = server.memo]
    BY <2>1, <2>2
  <2>4. \A r \in Parts : plan'.parts[r] \in {None} \cup Memos
    BY <2>1, <2>3 DEF ServedInv
  <2> QED
    BY <2>1, <2>3, <2>4 DEF ServedInv, OwnListing, Listed, Asked
<1>10. CASE DecidePlan
  <2>1. /\ Asked /\ UNCHANGED <<server, expired, listing>>
        /\ plan = [phase |-> plan.phase, parts |-> plan.parts]
        /\ plan' = [plan EXCEPT !.phase = "admitted"] \/ plan' = Failed
    BY <1>10 DEF DecidePlan, DashInv, PlanShape, Asked
  <2>2. CASE plan' = Failed
    BY <1>4, <2>1, <2>2
  <2>3. CASE plan' = [plan EXCEPT !.phase = "admitted"]
    <3>1. plan'.phase = "admitted" /\ plan'.parts = plan.parts
      BY <2>1, <2>3
    <3> QED
      BY <2>1, <3>1 DEF ServedInv, OwnListing, Listed, Asked
  <2> QED
    BY <2>1, <2>2, <2>3
<1> QED
  BY <1>1, <1>2, <1>3, <1>5, <1>6, <1>7, <1>8, <1>9, <1>10 DEF Next, Answer

LEMMA ServedInvariant == Spec => []ServedInv
<1>1. Init => ServedInv
  BY ServerAssumption
     DEF Init, Down, ServedInv, OwnListing, NoListing, NoPlan, Listed, Asked
<1> QED
  BY <1>1, ServedInvKept, DashInvariant, PTL DEF Spec

-----------------------------------------------------------------------------
\* Only a build that died between the drop of the metadata and the stamp leaves
\* a database that no later build replaces (buildDashboardDb, l.218 and l.382).
THEOREM StampWindowLocks == Spec => []OnlyTheStampWindowLocks
<1>1. DashInv => OnlyTheStampWindowLocks
  BY DEF DashInv, StampInv, OnlyTheStampWindowLocks, Replaceable, Stamped
<1> QED
  BY <1>1, DashInvariant, PTL

\* Who follows next_cursor on rows of the projection, page by page with any
\* limit, has at the end all rows of the answer in their order, although builds
\* run in between (routeResearchApi and the kept projection).
THEOREM ListingsAreWhole == Spec => []ListingIsWhole
<1>1. DashInv => ListingIsWhole
  <2> SUFFICES ASSUME DashInv, listing.phase = "done", server.memo # None,
                      listing.life = server.life,
                      listing.request.route.source = "projection"
               PROVE  listing.got = Answered(listing.request)
    BY DEF ListingIsWhole
  <2>1. server.up
    BY DEF DashInv, Shapes, DownInv
  <2> QED
    BY <2>1 DEF DashInv, ListingInv, Listed
<1> QED
  BY <1>1, DashInvariant, PTL

\* Of the four requests of an executor, those that one life of the server answers
\* are answered from one projection, although they are not made together and other
\* lives answer the others: nothing is said of answers of two lives.
THEOREM PlansAreOfOneProjection == Spec => []PlanIsOfOneProjection
<1>1. DashInv => PlanIsOfOneProjection
  BY DEF DashInv, PlanInv, Asked, PlanIsOfOneProjection
<1> QED
  BY <1>1, DashInvariant, PTL

\* The state keeps its shape: what a projection was read from are builds, what a
\* client holds are rows, what the executor holds are projections.
THEOREM DashboardTypes == Spec => []TypeOK
<1>1. DashInv /\ ServedInv => TypeOK
  <2> SUFFICES ASSUME DashInv, ServedInv PROVE TypeOK
    OBVIOUS
  <2>1. /\ db \in [exists : BOOLEAN, stamp : BOOLEAN, groups : Tables, rows : Tables]
        /\ builder \in [pc : BuilderAt, build : 0..MaxBuilds, died : DiedAt]
        /\ server.up \in BOOLEAN /\ server.life \in 0..MaxLives
        /\ server.read \in {None} \cup 0..MaxBuilds /\ server.memo \in {None} \cup Projections
    <3>1. \A memo \in Memos : memo.life <= server.life => memo \in Projections
      BY ServerAssumption DEF ServedInv, Memos, Projections
    <3> QED
      BY <3>1 DEF DashInv, ServedInv, Shapes, MemoInv, Memos
  <2>2. \/ listing \in {NoListing, Failed}
        \/ /\ listing.phase \in {"asking", "done"}
           /\ listing.request \in Requests /\ listing.limit \in Limits
           /\ listing.cursor \in Nat /\ listing.got \in Seq(Rows)
    BY DEF DashInv, ServedInv, ListingShape, OwnListing, Listed, OwnRows
  <2>3. \/ plan \in {NoPlan, Failed}
        \/ plan.phase \in {"asking", "admitted"}
             /\ \A p \in Parts : plan.parts[p] \in {None} \cup Projections
    <3>1. \A memo \in Memos : memo.life <= server.life => memo \in Projections
      BY ServerAssumption DEF ServedInv, Memos, Projections
    <3> QED
      BY <3>1 DEF DashInv, PlanInv, ServedInv, Asked
  <2> QED
    BY <2>1, <2>2, <2>3 DEF ServedInv, BuilderAt, DiedAt, TypeOK
<1> QED
  BY <1>1, DashInvariant, ServedInvariant, PTL

\* Nobody is answered rows of a site that was not asked for, by any route, with
\* any parameters, page after page while the database is built again: but for
\* routes that answer for a group or task by its name, and for the demand
\* occurrences of all sites in the keyword expansion lineage.
THEOREM RowsAreOwn == Spec => []OnlyOwnRows
<1>1. ServedInv => OnlyOwnRows
  BY DEF ServedInv, OwnListing, Listed, OwnRows, Mine, OnlyOwnRows
<1> QED
  BY <1>1, ServedInvariant, PTL
=============================================================================
