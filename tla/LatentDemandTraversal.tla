------------------------ MODULE LatentDemandTraversal ------------------------
(***************************************************************************)
(* buildLatentDemandTraversal: the graph of demands rebuilt from retained  *)
(* occurrence rows, searched for cycles and then traced breadth first and  *)
(* depth first.                                                            *)
(*                                                                         *)
(* `retained' is the sequence of rows in the order of the sort.  A value   *)
(* is a number, its place in the order of the texts.  The node key leaves  *)
(* out the group, which ensureNode is called without, and the value of a   *)
(* seed, so there is one seed node.  The search for cycles takes the nodes *)
(* and their children in the order of insertion, which is data: any.       *)
(***************************************************************************)
EXTENDS Naturals, FiniteSets, SequencesExt, RankOrder

CONSTANTS
  RetainedLists,     \* the sequences of occurrence rows there can be
  SelectedGroups,        \* the groups of the site the request selects
  DemandQueries,     \* what a request may search for
  NoDemandQuery, NoValue

\* asDepth: a depth is at least one.
ASSUME DemandAssumption ==
  \A rows \in RetainedLists :
    /\ rows \in Seq({rows[n] : n \in DOMAIN rows})
    /\ \A n \in DOMAIN rows :
         /\ rows[n].recursionDepth \in Nat \ {0}
         /\ {rows[n].value, rows[n].parent} \subseteq Nat \cup {NoValue}

VARIABLES
  retained, maxDepth, demandQuery,
  activePath, searched, looked, cycles,   \* the search for cycles
  strategy, pending, scheduled, visited,
  traces,                                 \* of each strategy its trace
  tracing                                 \* "idle", "cycles", "tracing" or "traced"

demandVars == <<retained, maxDepth, demandQuery, activePath, searched, looked, cycles,
                strategy, pending, scheduled, visited, traces, tracing>>

Strategies == {"breadth_first", "depth_first"}

-----------------------------------------------------------------------------
ConsideredRows == {n \in DOMAIN retained : retained[n].group \in SelectedGroups}

ExcludedDepthRows == {n \in ConsideredRows : retained[n].recursionDepth > maxDepth}

MissingParentRows ==
  {n \in ConsideredRows \ ExcludedDepthRows :
     NoValue \in {retained[n].value, retained[n].parent}}

\* Faulty variant: a row below the requested depth is kept.
EveryDepthMatches ==
  {n \in ConsideredRows \ MissingParentRows :
     demandQuery = NoDemandQuery \/ demandQuery \in retained[n].words}

MatchingRows ==
  {n \in ConsideredRows \ (ExcludedDepthRows \cup MissingParentRows) :
     demandQuery = NoDemandQuery \/ demandQuery \in retained[n].words}

-----------------------------------------------------------------------------
Seed == [kind |-> "seed", value |-> 0]
Demand(value) == [kind |-> "demand", value |-> value]

ChildNode(row) == Demand(row.value)
ParentNode(row) ==
  IF row.recursionDepth > 1 /\ row.hasSeed THEN Demand(row.parent) ELSE Seed

Nodes == UNION {{ParentNode(retained[n]), ChildNode(retained[n])} : n \in MatchingRows}

Edges ==
  {[parent |-> ParentNode(retained[n]), child |-> ChildNode(retained[n]),
    type |-> retained[n].type] : n \in MatchingRows}

DemandParents(node) == {edge.parent : edge \in {e \in Edges : e.child = node}}
DemandChildren(node) == {edge.child : edge \in {e \in Edges : e.parent = node}}

NodeDepth(node) ==
  Min({retained[n].recursionDepth : n \in {m \in MatchingRows : ChildNode(retained[m]) = node}}
      \cup {IF node = Seed THEN 0 ELSE retained[n].recursionDepth - 1 :
              n \in {m \in MatchingRows : ParentNode(retained[m]) = node}})

FirstOrder(node) ==
  Min({n \in MatchingRows : node \in {ParentNode(retained[n]), ChildNode(retained[n])}})

FirstOrderOfEdge(edge) ==
  Min({n \in MatchingRows : /\ ParentNode(retained[n]) = edge.parent
                            /\ ChildNode(retained[n]) = edge.child
                            /\ retained[n].type = edge.type})

ComesFirst(left, right) ==
  \/ FirstOrder(left) < FirstOrder(right)
  \/ FirstOrder(left) = FirstOrder(right) /\ left.value < right.value

RootNodes == {node \in Nodes : DemandParents(node) = {}}
Roots ==
  InOrder([node \in RootNodes |-> Cardinality({other \in RootNodes : ComesFirst(other, node)})])

EdgesFrom(node) == {edge \in Edges : edge.parent = node}
Adjacency(node) ==
  InOrder([edge \in EdgesFrom(node) |->
             Cardinality({other \in EdgesFrom(node) :
                            FirstOrderOfEdge(other) < FirstOrderOfEdge(edge)})])

-----------------------------------------------------------------------------
DemandInit ==
  /\ retained = <<>>
  /\ maxDepth = 2
  /\ demandQuery = NoDemandQuery
  /\ activePath = <<>> /\ searched = {} /\ looked = {} /\ cycles = {}
  /\ strategy = "breadth_first"
  /\ pending = <<>> /\ scheduled = {} /\ visited = {}
  /\ traces = [s \in Strategies |-> <<>>]
  /\ tracing = "idle"

BuildLatentDemandTraversal(rows, depth, query) ==
  /\ tracing = "idle"
  /\ retained' = rows
  /\ maxDepth' = depth
  /\ demandQuery' = query
  /\ tracing' = "cycles"
  /\ UNCHANGED <<activePath, searched, looked, cycles,
                 strategy, pending, scheduled, visited, traces>>

-----------------------------------------------------------------------------
\* cycleNodes: visit(node) of the outer loop.
SearchFrom(node) ==
  /\ tracing = "cycles"
  /\ activePath = <<>>
  /\ node \in Nodes \ searched
  /\ activePath' = <<node>>
  /\ UNCHANGED <<retained, maxDepth, demandQuery, searched, looked, cycles,
                 strategy, pending, scheduled, visited, traces, tracing>>

\* Faulty variant: the whole active path is flagged.
WholePath(child) == ToSet(activePath)

\* The nodes from the child on: path.slice(cycleStart).
CycleClosedBy(child) ==
  {activePath[n] : n \in {m \in DOMAIN activePath :
                            \E start \in 1..m : activePath[start] = child}}

LookAt(child) ==
  /\ tracing = "cycles"
  /\ activePath # <<>>
  /\ child \in DemandChildren(Last(activePath))
  /\ <<Last(activePath), child>> \notin looked
  /\ looked' = looked \cup {<<Last(activePath), child>>}
  /\ IF child \in ToSet(activePath)
     THEN cycles' = cycles \cup CycleClosedBy(child) /\ UNCHANGED activePath
     ELSE /\ UNCHANGED cycles
          /\ activePath' = IF child \in searched THEN activePath ELSE Append(activePath, child)
  /\ UNCHANGED <<retained, maxDepth, demandQuery, searched,
                 strategy, pending, scheduled, visited, traces, tracing>>

Leave ==
  /\ tracing = "cycles"
  /\ activePath # <<>>
  /\ \A child \in DemandChildren(Last(activePath)) : <<Last(activePath), child>> \in looked
  /\ searched' = searched \cup {Last(activePath)}
  /\ activePath' = Front(activePath)
  /\ UNCHANGED <<retained, maxDepth, demandQuery, looked, cycles,
                 strategy, pending, scheduled, visited, traces, tracing>>

-----------------------------------------------------------------------------
Item(node, depth, path) == [node |-> node, depth |-> depth, path |-> path]
Start(node) == Item(node, NodeDepth(node), <<node>>)

\* traceGraph begins: the roots wait, in their order.
BeginTrace(mode) ==
  /\ IF tracing = "cycles" THEN activePath = <<>> /\ searched = Nodes /\ mode = "breadth_first"
     ELSE tracing = "tracing" /\ visited = Nodes /\ pending = <<>>
          /\ strategy = "breadth_first" /\ mode = "depth_first"
  /\ tracing' = "tracing"
  /\ strategy' = mode
  /\ pending' = [n \in DOMAIN Roots |-> Start(Roots[n])]
  /\ scheduled' = ToSet(Roots)
  /\ visited' = {}
  /\ UNCHANGED <<retained, maxDepth, demandQuery, activePath, searched, looked, cycles, traces>>

NextItem == IF strategy = "depth_first" THEN Last(pending) ELSE Head(pending)
Rest == IF strategy = "depth_first" THEN Front(pending) ELSE Tail(pending)

\* pushItems: depth first the last edge goes first.
PushedBefore(m, n) == IF strategy = "depth_first" THEN m > n ELSE m < n

\* The children of an item that were not scheduled, in the order they are pushed;
\* a second edge to one child adds nothing.
NewItems(item) ==
  LET edges == Adjacency(item.node)
      first == {n \in DOMAIN edges :
                  /\ edges[n].child \notin scheduled
                  /\ \A m \in DOMAIN edges :
                       PushedBefore(m, n) => edges[m].child # edges[n].child}
      kept  == InOrder([n \in first |-> Cardinality({m \in first : PushedBefore(m, n)})])
  IN IF item.depth >= maxDepth THEN <<>>
     ELSE [n \in DOMAIN kept |->
             Item(edges[kept[n]].child, item.depth + 1,
                  Append(item.path, edges[kept[n]].child))]

Visit ==
  /\ tracing = "tracing"
  /\ pending # <<>>
  /\ LET item == NextItem
         new  == NewItems(item)
     IN /\ visited' = visited \cup {item.node}
        /\ IF item.node \in visited \/ item.depth > maxDepth
           THEN /\ pending' = Rest
                /\ UNCHANGED <<traces, scheduled>>
           ELSE /\ traces' = [traces EXCEPT ![strategy] = Append(@, item)]
                /\ pending' = Rest \o new
                /\ scheduled' = scheduled \cup {new[n].node : n \in DOMAIN new}
  /\ UNCHANGED <<retained, maxDepth, demandQuery, activePath, searched, looked, cycles,
                 strategy, tracing>>

\* addComponent: no node waits, and one that no root leads to in time is left.
AddComponent(node) ==
  /\ tracing = "tracing"
  /\ pending = <<>>
  /\ node \in Nodes \ visited
  /\ pending' = IF node \in scheduled THEN pending ELSE <<Start(node)>>
  /\ scheduled' = scheduled \cup {node}
  /\ UNCHANGED <<retained, maxDepth, demandQuery, activePath, searched, looked, cycles,
                 strategy, visited, traces, tracing>>

FinishTraversal ==
  /\ tracing = "tracing"
  /\ strategy = "depth_first"
  /\ visited = Nodes /\ pending = <<>>
  /\ tracing' = "traced"
  /\ UNCHANGED <<retained, maxDepth, demandQuery, activePath, searched, looked, cycles,
                 strategy, pending, scheduled, visited, traces>>

DemandNext ==
  \/ \E rows \in RetainedLists, depth \in 1..2, query \in DemandQueries \cup {NoDemandQuery} :
       BuildLatentDemandTraversal(rows, depth, query)
  \/ \E node \in Nodes : SearchFrom(node) \/ LookAt(node) \/ AddComponent(node)
  \/ Leave
  \/ \E mode \in Strategies : BeginTrace(mode)
  \/ Visit
  \/ FinishTraversal

DemandSpec == DemandInit /\ [][DemandNext]_demandVars

-----------------------------------------------------------------------------
MultipleParent(node) == Cardinality(DemandParents(node)) > 1
ReviewState(node) ==
  IF node \in cycles \/ MultipleParent(node) THEN "review_required" ELSE "observed_path"

ObservedMaxDepth == Max({retained[n].recursionDepth : n \in MatchingRows} \cup {0})

NodesTraced(mode) == [n \in DOMAIN traces[mode] |-> traces[mode][n].node]

FirstDivergence == NodesTraced("breadth_first") # NodesTraced("depth_first")

DisambiguationState ==
  IF ObservedMaxDepth < 2 THEN "insufficient_retained_depth"
  ELSE IF FirstDivergence THEN "local_strategies_diverge_provider_trace_required"
  ELSE "local_strategies_same_order_provider_trace_required"

\* The nodes a path of at least one edge leads to from this one: those in every
\* set that holds its children and the children of whatever it holds.
Closed(part) == \A node \in part : DemandChildren(node) \subseteq part

Beyond(node) ==
  {other \in Nodes : \A part \in SUBSET Nodes :
                       DemandChildren(node) \subseteq part /\ Closed(part) => other \in part}

\* Both strategies show every node of the graph, also of a component without a
\* root, and each once, by a path along retained edges, no longer than the depth
\* allows, of nodes shown before.  What they differ in is the order, and when the
\* answer says that retained depth is insufficient to tell them apart they do not
\* even differ in that, unless a demand has edges of several types: the second
\* edge is then the first that the depth-first order pushes.
StrategiesDifferInOrderOnly ==
  tracing = "traced" =>
    /\ \A mode \in Strategies :
         /\ ToSet(NodesTraced(mode)) = Nodes
         /\ Len(traces[mode]) = Cardinality(Nodes)
         /\ \A n \in DOMAIN traces[mode] :
              LET item == traces[mode][n] IN
              /\ item.depth = NodeDepth(item.path[1]) + Len(item.path) - 1
              /\ item.depth <= maxDepth
              /\ \A m \in 1..(Len(item.path) - 1) :
                   /\ item.path[m + 1] \in DemandChildren(item.path[m])
                   /\ \E shown \in 1..(n - 1) :
                        traces[mode][shown].path = SubSeq(item.path, 1, m)
    /\ /\ DisambiguationState = "insufficient_retained_depth"
       /\ \A edge, other \in Edges : edge.child = other.child => edge = other
       => ~FirstDivergence

\* The nodes flagged for a cycle are on one, and no cycle runs past the review:
\* the nodes shown as observed paths have no cycle among themselves.
NoCycleIsUnreviewed ==
  tracing \in {"tracing", "traced"} =>
    /\ \A node \in cycles : node \in Beyond(node)
    /\ \A part \in SUBSET {node \in Nodes : ReviewState(node) = "observed_path"} :
         part # {} => \E node \in part : DemandChildren(node) \cap part = {}
=============================================================================
