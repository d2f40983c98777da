----------------------------- MODULE ResearchApi -----------------------------
(***************************************************************************)
(* What routeResearchApi of scripts/keyword-dashboard-api.mjs answers: the *)
(* rows a request may see, the refusal of a request that names no site, a  *)
(* foreign group or a malformed value, and the page of the rows it returns *)
(* with the cursor of the next one.                                        *)
(* A row keeps what decides whether it is answered: the site, groups and   *)
(* task it belongs to and one value that every other filter is compared    *)
(* with.  A snapshot is what a route reads: the groups and tasks that are  *)
(* known and the rows, in the order of their queries.                      *)
(***************************************************************************)
EXTENDS ResearchRoutes, Integers, Sequences, FiniteSets

CONSTANTS
  Sites,         \* the sites of the dashboard
  Groups,        \* keyword groups, by id
  Tasks,         \* search tasks, by id
  SiteOf,        \* [Groups -> Sites]
  GroupOf,       \* [Tasks -> Groups]
  None,          \* no site, no task
  Malformed,     \* a value no row has and a strict parser refuses
  DefaultLimit,  \* rows of a page when the request does not say, 25
  MaxLimit       \* rows a page never exceeds, 100

ASSUME ApiAssumption ==
  /\ SiteOf \in [Groups -> Sites]
  /\ GroupOf \in [Tasks -> Groups]
  /\ None \notin Sites \cup Tasks
  /\ DefaultLimit \in 1..MaxLimit
  /\ MaxLimit \in Nat

-----------------------------------------------------------------------------
(* Pages                                                                   *)

\* Faulty variant: a limit below one is taken as it is.
PageLimitFromZero(asked) ==
  IF asked \notin Int THEN DefaultLimit
  ELSE IF asked > MaxLimit THEN MaxLimit ELSE asked

\* The limit of a page, from a number or from what is no integer.
PageLimit(asked) ==
  IF asked \notin Int THEN DefaultLimit
  ELSE IF asked < 1 THEN 1
  ELSE IF asked > MaxLimit THEN MaxLimit ELSE asked

PageOffset(asked) == IF asked \in Int /\ asked > 0 THEN asked ELSE 0

\* slice(offset, offset + limit), and the cursor of the rows after it.
Page(rows, limit, cursor) ==
  LET offset == PageOffset(cursor)
      end == IF offset + PageLimit(limit) < Len(rows)
             THEN offset + PageLimit(limit) ELSE Len(rows)
      data == SubSeq(rows, offset + 1, end)
  IN [data |-> data,
      next |-> IF offset + Len(data) < Len(rows) THEN offset + Len(data) ELSE None]

\* The view answered whole leaves the paging parameters unread.
WholePage(rows) == [data |-> rows, next |-> None]

-----------------------------------------------------------------------------
(* Which rows                                                              *)

\* Faulty variant: the groups of every site.
GroupIdsOfAll(snapshot, site) == snapshot.groups

GroupIds(snapshot, site) == {g \in snapshot.groups : SiteOf[g] = site}
TaskIds(snapshot, site) == {t \in Tasks : GroupOf[t] \in GroupIds(snapshot, site)}

\* The value a request gives to a parameter names the row's own.
Matches(parameter, value, row) ==
  CASE parameter = "group_id" -> value \in row.groups
    [] parameter = "task_id" -> value = row.task
    [] OTHER -> value = row.value

\* The group or task in the request, or in its path.
Named(given, known, row) ==
  \E p \in DOMAIN given \cap {"group_id", "task_id"} :
    /\ p = "group_id" => given[p] \in known.groups
    /\ Matches(p, given[p], row)

\* The tie of a row to the site, resolved with the groups of the projection.
Tied(request, known, row) ==
  LET site == request.site
  IN CASE request.route.tie = "corpus" -> row.kind = "corpus"
       [] request.route.tie = "report" -> row.kind = "report" /\ row.site = site
       [] request.route.tie = "lineage" ->
            (row.kind = "report" /\ row.site = site) \/ row.kind = "occurrence"
       [] request.route.tie = "bySite" -> row.kind = "table" /\ row.site = site
       [] request.route.tie = "byGroup" ->
            row.kind = "table" /\ row.groups \in {{g} : g \in GroupIds(known, site)}
       [] request.route.tie = "byAnyGroup" ->
            row.kind = "table" /\ row.groups \cap GroupIds(known, site) # {}
       [] request.route.tie = "byTask" ->
            row.kind = "table" /\ row.task \in TaskIds(known, site)
       [] request.route.tie = "named" -> row.kind = "table" /\ Named(request.given, known, row)

\* An unknown view is the default one.
ViewOf(request) ==
  IF request.view \in DOMAIN request.route.views THEN request.view
  ELSE request.route.default

\* The parameters that narrow the view; a lenient one drops what it cannot read.
Narrowing(request) ==
  {p \in DOMAIN request.given \cap request.route.views[ViewOf(request)] :
     ~(p \in request.route.lenient /\ request.given[p] = Malformed)}

Passes(request, row) ==
  /\ request.route.asks \subseteq DOMAIN request.given
  /\ \A p \in Narrowing(request) :
       IF p \in request.route.leavesOut
       THEN ~Matches(p, request.given[p], row)
       ELSE Matches(p, request.given[p], row)

\* rows.filter(...): the rows at these positions, in their order.
RowsAt(rows, at) ==
  LET nth == [n \in 1..Cardinality(at) |->
                CHOOSE i \in at : Cardinality({j \in at : j <= i}) = n]
  IN [n \in 1..Cardinality(at) |-> rows[nth[n]]]

AnsweredRows(request, known, source) ==
  RowsAt(source.rows, {i \in DOMAIN source.rows :
           Tied(request, known, source.rows[i]) /\ Passes(request, source.rows[i])})

-----------------------------------------------------------------------------
(* Which requests                                                          *)

\* The order of the refusals: the site, its groups, the parameters, then the
\* named group or task of which nothing was found.
Status(request, known, found) ==
  LET route == request.route
      value(p) == IF p \in DOMAIN request.given THEN request.given[p] ELSE None
      foreign ==
        \/ value("group_id") \notin GroupIds(known, request.site) \cup {None}
        \/ /\ "task_id" \in route.views[ViewOf(request)]
           /\ value("task_id") \notin TaskIds(known, request.site) \cup {None}
  IN IF route.site = "required" /\ request.site = None THEN 400
     ELSE IF route.site # "unread" /\ request.site \notin Sites \cup {None} THEN 404
     ELSE IF route.ownGroups /\ foreign THEN 404
     ELSE IF route.strict /\ request.view \notin DOMAIN route.views \cup {None} THEN 400
     ELSE IF ~(route.required \subseteq DOMAIN request.given) THEN 400
     ELSE IF \E p \in route.checked : value(p) = Malformed THEN 400
     ELSE IF route.tie = "named" /\ found = << >> THEN 404
     ELSE 200
=============================================================================
