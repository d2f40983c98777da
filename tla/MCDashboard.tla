----------------------------- MODULE MCDashboard -----------------------------
\* Small instances of DashboardServer for TLC.
EXTENDS DashboardServer

CONSTANTS s1, s2, g1, g2, h1, t1, t2, v1, v2

TheSites == (g1 :> s1) @@ (g2 :> s1) @@ (h1 :> s2)
TheGroups == (t1 :> g1) @@ (t2 :> h1)

Row(id, kind, site, groups, task, value) ==
  [id |-> id, kind |-> kind, site |-> site, groups |-> groups, task |-> task, value |-> value]

\* The second build puts two rows before the others and loses a group.
First ==
  [groups |-> {g1, g2, h1},
   rows |-> << Row(1, "corpus", None, {}, None, v1),
               Row(2, "report", s1, {g1}, None, v1),
               Row(3, "report", s2, {h1}, None, v1),
               Row(4, "report", s1, {g2}, None, v2),
               Row(5, "table", s1, {g1}, t1, v1),
               Row(6, "table", s2, {h1}, t2, v1),
               Row(7, "table", s1, {g2}, None, v2),
               Row(8, "table", s1, {g1, h1}, t1, v2),
               Row(9, "corpus", None, {}, None, v2),
               Row(10, "occurrence", None, {h1}, t2, v1) >>]
Second ==
  [groups |-> {g1, h1},
   rows |-> << Row(11, "table", s1, {g1}, t1, v2),
               Row(12, "report", s1, {g1}, None, v2) >> \o First.rows]
Nothing == [groups |-> {}, rows |-> << >>]

TheContent == (0 :> Nothing) @@ (1 :> First) @@ (2 :> Second)
TheFiles == [groups |-> {}, rows |-> << First.rows[1], First.rows[9], First.rows[1] >>]

\* What decides how an answer depends on the projection, the database, the
\* groups and the parameters: one route stands for all that agree on it.
Kind(route) ==
  LET some(ps) == ps # {}
  IN [tie |-> route.tie, source |-> route.source, site |-> route.site,
      ownGroups |-> route.ownGroups, strict |-> route.strict,
      whole |-> some(route.whole), required |-> some(route.required),
      checked |-> some(route.checked), lenient |-> some(route.lenient),
      asks |-> some(route.asks), leavesOut |-> some(route.leavesOut)]

OfEachKind ==
  {CHOOSE route \in Routes : Kind(route) = k : k \in {Kind(r) : r \in Routes}}

\* No parameter, or one of those a route treats in a way of its own, or, in a
\* report, one that is compared with the value of a row.
Given(route) ==
  LET filters == route.views[route.default]
      special == route.checked \cup route.lenient \cup route.required \cup route.asks
                 \cup route.leavesOut
                 \cup (IF route.ownGroups \/ route.tie = "named"
                       THEN {"group_id", "task_id"} ELSE {})
      plain == IF route.tie \in {"report", "lineage"} THEN {"q"} \cap filters ELSE {}
      values(p) == CASE p = "group_id" -> {g2, h1}
                     [] p = "task_id" -> {t2}
                     [] p \in route.checked \cup route.lenient -> {Malformed}
                     [] OTHER -> {v1}
  IN {<< >>} \cup UNION {{p :> v : v \in values(p)} : p \in special \cup plain}

Representatives ==
  UNION {{[route |-> r, site |-> site, view |-> r.default, given |-> given] :
            site \in IF r.site = "unread" THEN {None} ELSE {s1}, given \in Given(r)}
         : r \in OfEachKind}

\* The values of the constants: TLC evaluates the definitions they name once.
MCSiteOf == TheSites
MCGroupOf == TheGroups
MCContent == TheContent
MCRows == {Second.rows[i] : i \in DOMAIN Second.rows}
MCFiles == TheFiles
MCRequests == Representatives
=============================================================================
