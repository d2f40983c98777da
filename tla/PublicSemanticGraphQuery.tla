----------------------- MODULE PublicSemanticGraphQuery -----------------------
(***************************************************************************)
(* queryPublicSemanticGraph: the bounded walk over the typed relations of  *)
(* the public lexicon, from the synsets of a term, breadth first or depth  *)
(* first.  A relation is followed in both directions and shown once in     *)
(* each.  One step takes one relation of the node at hand.                 *)
(*                                                                         *)
(* A synset is a number, its place in the order of their identifiers; the  *)
(* terms and definitions shown beside it are left out.  A request holds    *)
(* the synsets of its exact term, and those of the senses of the terms     *)
(* that contain it: the shorter terms first.                               *)
(***************************************************************************)
EXTENDS Naturals, FiniteSets, SequencesExt, RankOrder

CONSTANTS
  Relations,         \* the relations there can be: [type, source, target]
  RelationSets,      \* the sets of them a lexicon may hold
  GraphRequests,     \* requests: [exact, partial, depth, types, maxEdges, strategy]
  PartialLimit,      \* how many senses a partial match may give: 25
  NotANumber

ASSUME GraphAssumption ==
  /\ IsFiniteSet(Relations) /\ Relations \subseteq [type : Nat, source : Nat, target : Nat]
  /\ RelationSets \subseteq SUBSET Relations
  /\ NotANumber \notin Nat
  /\ \A asked \in GraphRequests :
       /\ asked.depth \in Nat \cup {NotANumber}
       /\ IsFiniteSet(asked.exact) /\ asked.exact \subseteq Nat
       /\ asked.partial \in Seq(Nat)

VARIABLES
  relations, request,
  waiting,           \* the stack or the queue of items
  current,           \* the item at hand, in a sequence of at most one
  open,              \* its relations that were not taken
  children,
  reached, seenEdges, answer, truncated,
  walking            \* "idle" or "walking"

graphVars == <<relations, request, waiting, current, open, children,
               reached, seenEdges, answer, truncated, walking>>

-----------------------------------------------------------------------------
Clamp(value, low, high, fallback) ==
  IF value = NotANumber THEN fallback ELSE Max({low, Min({high, value})})

BoundedDepth == Clamp(request.depth, 1, 3, 1)
BoundedEdges == Clamp(request.maxEdges, 1, 5000, 2000)

DepthFirst == request.strategy = "depth_first"

\* The synsets of the exact term, or else of the first senses of the terms that
\* contain it.
MatchState(asked) ==
  IF asked.exact # {} THEN "exact" ELSE IF asked.partial # << >> THEN "partial" ELSE "none"

SeedSynsets(asked) ==
  IF MatchState(asked) = "exact" THEN asked.exact
  ELSE {asked.partial[n] : n \in {m \in DOMAIN asked.partial : m <= PartialLimit}}

\* Exact ones in their own order, the others in that of their first senses.
SeedPlace(asked, synset) ==
  IF MatchState(asked) = "exact" THEN synset
  ELSE CHOOSE n \in DOMAIN asked.partial :
         asked.partial[n] = synset /\ \A m \in 1..(n - 1) : asked.partial[m] # synset

\* Of each seed how many come before it.
SeedsBefore(asked) ==
  [synset \in SeedSynsets(asked) |->
     Cardinality({other \in SeedSynsets(asked) :
                    SeedPlace(asked, other) < SeedPlace(asked, synset)})]

EdgeBefore(left, right) ==
  \/ left.type < right.type
  \/ left.type = right.type /\ left.source < right.source
  \/ left.type = right.type /\ left.source = right.source /\ left.target < right.target

\* Of each relation how many come before it.
EdgesBefore(part) == [edge \in part |-> Cardinality({other \in part : EdgeBefore(other, edge)})]

\* edgeQuery: the relations of a synset in their order.
EdgesOf(synset) ==
  InOrder(EdgesBefore({edge \in relations : synset \in {edge.source, edge.target}}))

Allowed(edge) == request.types = {} \/ edge.type \in request.types

Direction(edge, synset) == IF edge.source = synset THEN "outgoing" ELSE "incoming"
Neighbor(edge, synset) == IF edge.source = synset THEN edge.target ELSE edge.source

-----------------------------------------------------------------------------
GraphInit ==
  /\ relations = {}
  /\ request = [exact |-> {}, partial |-> << >>, depth |-> 1, types |-> {}, maxEdges |-> 1,
                strategy |-> "breadth_first"]
  /\ waiting = <<>> /\ current = <<>> /\ open = <<>> /\ children = <<>>
  /\ reached = {} /\ seenEdges = {} /\ answer = {} /\ truncated = FALSE
  /\ walking = "idle"

QueryPublicSemanticGraph(lexicon, asked) ==
  /\ walking = "idle"
  /\ walking' = "walking"
  /\ relations' = lexicon
  /\ request' = asked
  /\ LET order == InOrder(SeedsBefore(asked))
     IN waiting' = [n \in DOMAIN order |-> [synset |-> order[n], path |-> <<order[n]>>, depth |-> 0]]
  /\ reached' = SeedSynsets(asked)
  /\ UNCHANGED <<current, open, children, seenEdges, answer, truncated>>

TakeNode ==
  /\ walking = "walking" /\ current = <<>> /\ waiting # <<>> /\ ~truncated
  /\ waiting' = Tail(waiting)
  /\ IF Head(waiting).depth < BoundedDepth
     THEN /\ current' = <<Head(waiting)>>
          /\ open' = EdgesOf(Head(waiting).synset)
     ELSE UNCHANGED <<current, open>>
  /\ children' = <<>>
  /\ UNCHANGED <<relations, request, reached, seenEdges, answer, truncated, walking>>

\* Faulty variant: a relation is shown once, whatever the direction.
OnceInAll(edge, synset) == <<edge, "outgoing">>

EdgeVisit(edge, synset) == <<edge, Direction(edge, synset)>>

VisitEdge ==
  /\ walking = "walking" /\ current # <<>> /\ open # <<>> /\ ~truncated
  /\ open' = Tail(open)
  /\ LET node     == current[1]
         edge     == Head(open)
         neighbor == Neighbor(edge, node.synset)
         level    == node.depth + 1
         path     == Append(node.path, neighbor)
         visit    == EdgeVisit(edge, node.synset)
     IN IF ~Allowed(edge) \/ visit \in seenEdges
        THEN UNCHANGED <<children, reached, seenEdges, answer, truncated>>
        ELSE /\ seenEdges' = seenEdges \cup {visit}
             /\ answer' = answer \cup {[edge |-> edge, direction |-> Direction(edge, node.synset),
                                        depth |-> level, path |-> path]}
             /\ truncated' = (Cardinality(answer') >= BoundedEdges)
             /\ IF level < BoundedDepth /\ neighbor \notin reached
                THEN /\ reached' = reached \cup {neighbor}
                     /\ children' = Append(children, [synset |-> neighbor, path |-> path,
                                                      depth |-> level])
                ELSE UNCHANGED <<reached, children>>
  /\ UNCHANGED <<relations, request, waiting, current, walking>>

\* Depth first the children come before what waits, breadth first after it.
FinishNode ==
  /\ walking = "walking" /\ current # <<>>
  /\ open = <<>> \/ truncated
  /\ waiting' = IF DepthFirst THEN children \o waiting ELSE waiting \o children
  /\ current' = <<>> /\ open' = <<>> /\ children' = <<>>
  /\ UNCHANGED <<relations, request, reached, seenEdges, answer, truncated, walking>>

GraphNext ==
  \/ \E lexicon \in RelationSets, asked \in GraphRequests :
       QueryPublicSemanticGraph(lexicon, asked)
  \/ TakeNode
  \/ VisitEdge
  \/ FinishNode

GraphSpec == GraphInit /\ [][GraphNext]_graphVars

-----------------------------------------------------------------------------
Answered == walking = "walking" /\ current = <<>> /\ (waiting = <<>> \/ truncated)

\* Some synsets and those an allowed relation away from them.
Around(part) ==
  part \cup {synset \in UNION {{edge.source, edge.target} : edge \in relations} :
              \E edge \in relations : \E nearer \in part \cap {edge.source, edge.target} :
                Allowed(edge) /\ synset = Neighbor(edge, nearer)}

\* The synsets at most so many allowed relations away from the seeds, where a
\* walk of at most three levels can stand.
Within(distance) ==
  IF distance = 0 THEN SeedSynsets(request)
  ELSE IF distance = 1 THEN Around(SeedSynsets(request))
  ELSE Around(Around(SeedSynsets(request)))

\* What a walk of this depth should show: every allowed relation from each end
\* that is less than the depth away, at the distance of that end.
ExpectedRows ==
  {<<t[1], Direction(t[1], t[2]), t[3] + 1>> :
     t \in {u \in relations \X Within(BoundedDepth - 1) \X (0..(BoundedDepth - 1)) :
              /\ Allowed(u[1])
              /\ u[2] \in {u[1].source, u[1].target}
              /\ u[2] \in Within(u[3])
              /\ u[3] > 0 => u[2] \notin Within(u[3] - 1)}}

\* A breadth-first answer that is not marked truncated is whole: it shows exactly
\* the relations within the depth, each at its distance, although synsets are
\* marked when they are found and relations when they are first shown.  A
\* depth-first answer shows none beyond the depth and none nearer than it is,
\* but may miss some: a synset first found far away is not opened again.  And a
\* path leads from a seed along allowed relations.
BreadthFirstIsComplete ==
  /\ Answered /\ ~truncated /\ ~DepthFirst =>
       {<<row.edge, row.direction, row.depth>> : row \in answer} = ExpectedRows
  /\ \A row \in answer :
       /\ \E expected \in ExpectedRows :
            expected[1] = row.edge /\ expected[2] = row.direction /\ expected[3] <= row.depth
       /\ row.depth = Len(row.path) - 1
       /\ row.path[1] \in SeedSynsets(request)
       /\ \A n \in 1..row.depth : \E edge \in relations :
            Allowed(edge) /\ {edge.source, edge.target} = {row.path[n], row.path[n + 1]}
=============================================================================
