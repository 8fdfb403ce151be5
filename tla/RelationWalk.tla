---------------------------- MODULE RelationWalk ----------------------------
(***************************************************************************)
(* traverseRelations (src/connectors/mem/tools.js): a breadth-first walk   *)
(* over the relations between memories, along those an entity has and      *)
(* those others have to it, which must end on cycles and stop at a depth.  *)
(* Relations are stored with their source only.                            *)
(***************************************************************************)
EXTENDS Integers, Sequences, FiniteSets, SequencesExt

CONSTANTS
    Nodes,       \* entity_ids
    Start,          \* where the walk starts
    Depth           \* RELATION_TRAVERSAL_DEPTH

ASSUME WalkAssumption == Start \in Nodes /\ Depth \in Nat \ {0}

VARIABLES
    inScope,        \* entities with a memory in the scope asked for
    elsewhere,      \* entities with a memory in another scope only
    links,          \* <<from, to>>: relations stored with a memory in scope
    queue,          \* entities to expand, with their hop
    visited,
    expanded,       \* the entities expanded, in order
    edges           \* the edges found

walkVars == <<inScope, elsewhere, links, queue, visited, expanded, edges>>

Edge == [from : Nodes, to : Nodes, direction : {"outgoing", "incoming"},
         hop : 1 .. Depth, status : {"ok", "wrong_scope", "gone"}]

WalkTypeOK ==
    /\ inScope \subseteq Nodes /\ elsewhere \subseteq Nodes
    /\ links \subseteq inScope \X Nodes
    /\ queue \in Seq([entity : Nodes, hop : 0 .. Depth])
    /\ visited \subseteq Nodes /\ expanded \in Seq(Nodes) /\ edges \subseteq Edge

\* processRelations drops a relation of an entity to itself.
WalkInit ==
    /\ inScope \in SUBSET Nodes
    /\ elsewhere \in SUBSET (Nodes \ inScope)
    /\ links \in SUBSET {l \in inScope \X Nodes : l[1] # l[2]}
    /\ queue = <<[entity |-> Start, hop |-> 0]>>
    /\ visited = {Start} /\ expanded = <<>> /\ edges = {}

\* resolveRelationTarget: in scope, in another scope, or no longer (or never) there.
Resolution(e) == IF e \in inScope THEN "ok" ELSE IF e \in elsewhere THEN "wrong_scope" ELSE "gone"

\* An outgoing relation is followed when its target is in scope.
Outgoing(e) == {l[2] : l \in {k \in links : k[1] = e}}
Incoming(e) == {l[1] : l \in {k \in links : k[2] = e}}
Follows(e) == {t \in Outgoing(e) : Resolution(t) = "ok"}

EvenBeyond(q) == q.hop <= Depth
WithinDepth(q) == q.hop < Depth

Expand ==
    /\ queue # <<>>
    /\ LET q == Head(queue)
           out == Follows(q.entity) \ visited
           new == SetToSeq(out) \o SetToSeq(Incoming(q.entity) \ (visited \cup out))
           found(dir, from, to, s) == [from |-> from, to |-> to, direction |-> dir,
                                       hop |-> q.hop + 1, status |-> s]
       IN IF WithinDepth(q)
          THEN /\ expanded' = Append(expanded, q.entity)
               /\ edges' = edges \cup {found("outgoing", q.entity, t, Resolution(t)) : t \in Outgoing(q.entity)}
                                 \cup {found("incoming", f, q.entity, "ok") : f \in Incoming(q.entity)}
               /\ visited' = visited \cup Range(new)
               /\ queue' = Tail(queue) \o [i \in DOMAIN new |-> [entity |-> new[i], hop |-> q.hop + 1]]
          ELSE queue' = Tail(queue) /\ UNCHANGED <<visited, expanded, edges>>
    /\ UNCHANGED <<inScope, elsewhere, links>>

WalkNext == Expand
WalkSpec == WalkInit /\ [][WalkNext]_walkVars

-----------------------------------------------------------------------------
(* Properties.                                                             *)

\* The entities at most n hops away.
Near[n \in 0 .. Depth] ==
    IF n = 0 THEN {Start}
    ELSE Near[n - 1] \cup UNION {Follows(e) \cup Incoming(e) : e \in Near[n - 1]}

\* When the walk ends it has expanded every entity less than Depth hops away, once, on
\* cycles too and however the paths to it differ in length, and reports each relation of
\* those with the number of hops of the shortest path.
WalkExact ==
    queue = <<>> =>
        /\ Range(expanded) = Near[Depth - 1] /\ Len(expanded) = Cardinality(Range(expanded))
        /\ \A e \in Range(expanded) :
              LET hops == CHOOSE n \in 0 .. Depth : e \in Near[n] /\ (n > 0 => e \notin Near[n - 1])
              IN /\ \A t \in Outgoing(e) : \E d \in edges :
                       d.from = e /\ d.to = t /\ d.direction = "outgoing" /\ d.hop = hops + 1 /\ d.status = Resolution(t)
                 /\ \A f \in Incoming(e) : \E d \in edges :
                       d.from = f /\ d.to = e /\ d.direction = "incoming" /\ d.hop = hops + 1
        /\ \A d \in edges : <<d.from, d.to>> \in links
=============================================================================
