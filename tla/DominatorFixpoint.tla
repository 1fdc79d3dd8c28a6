-------------------------- MODULE DominatorFixpoint --------------------------
(***************************************************************************)
(* _fixed_point_sets of controlflow/dominators.py: the round-robin         *)
(* iteration that computes the dominators of the reachable blocks, or,     *)
(* with reverse, their post-dominators.  Loops, joins and the bodies of    *)
(* compound statements are all recognised from these sets, so one element  *)
(* too many or too few changes the program that is written out.            *)
(***************************************************************************)
EXTENDS FlowGraphs

VARIABLES edges,             \* graph.edges
          reverse,           \* the argument of the same name
          nodes, roots,      \* the locals of the same names
          result,            \* node -> set of nodes
          todo,              \* nodes the current pass has still to visit
          changed            \* some set was updated in the current pass

vars == <<edges, reverse, nodes, roots, result, todo, changed>>

\* `predecessor`: what a node's set is intersected over.
Feeds(node) == nodes \intersect
  (IF reverse THEN Successors(edges, node) ELSE Predecessors(edges, node))

\* The reachable nodes without a reachable successor.
Exits(E, N) == {node \in N : Successors(E, node) \intersect N = {}}

\* The nodes whose sets are fixed.
Roots(E, N, backwards) == IF backwards THEN Exits(E, N) ELSE {Entry}

\* The sets before the first pass.
FromAbove(N, R) == [node \in N |-> IF node \in R THEN {node} ELSE N]

Init == /\ edges \in Graphs
        /\ reverse \in BOOLEAN
        /\ nodes = ReachableBlocks(edges)
        /\ roots = Roots(edges, nodes, reverse)
        /\ result = FromAbove(nodes, roots)
        /\ todo = nodes
        /\ changed = FALSE

\* The common members of the sets of the incoming nodes, none if there are none.
Shared(node) ==
  {d \in nodes : Feeds(node) # {} /\ \A parent \in Feeds(node) : d \in result[parent]}

Updated(node) == {node} \union Shared(node)

\* The sorted order of a pass: node is the least one still to visit.
IsNext(node) == node \in todo /\ \A other \in todo : node <= other

SkipRoot == \E node \in roots :
              /\ IsNext(node)
              /\ todo' = todo \ {node}
              /\ UNCHANGED <<edges, reverse, nodes, roots, result, changed>>

\* Defect: `changed` reports only whether the last node of the pass changed.
VisitForgetful ==
  \E node \in nodes \ roots :
    /\ IsNext(node)
    /\ result' = [result EXCEPT ![node] = Updated(node)]
    /\ changed' = (Updated(node) # result[node])
    /\ todo' = todo \ {node}
    /\ UNCHANGED <<edges, reverse, nodes, roots>>

\* Defect: `changed` is set whether the set differs or not.
VisitAlwaysChanged ==
  \E node \in nodes \ roots :
    /\ IsNext(node)
    /\ result' = [result EXCEPT ![node] = Updated(node)]
    /\ changed' = TRUE
    /\ todo' = todo \ {node}
    /\ UNCHANGED <<edges, reverse, nodes, roots>>

\* Defect: the node itself is not added to what its predecessors share.
VisitWithoutSelf ==
  \E node \in nodes \ roots :
    /\ IsNext(node)
    /\ result' = [result EXCEPT ![node] = Shared(node)]
    /\ changed' = (changed \/ Shared(node) # result[node])
    /\ todo' = todo \ {node}
    /\ UNCHANGED <<edges, reverse, nodes, roots>>

Visit == \E node \in nodes \ roots :
           /\ IsNext(node)
           /\ result' = [result EXCEPT ![node] = Updated(node)]
           /\ changed' = (changed \/ Updated(node) # result[node])
           /\ todo' = todo \ {node}
           /\ UNCHANGED <<edges, reverse, nodes, roots>>

\* The pass is over and changed something: another pass.
NextPass == /\ todo = {} /\ changed
            /\ todo' = nodes
            /\ changed' = FALSE
            /\ UNCHANGED <<edges, reverse, nodes, roots, result>>

Next == SkipRoot \/ Visit \/ NextPass

Spec == Init /\ [][Next]_vars /\ WF_vars(Next)

Finished == todo = {} /\ ~changed
-----------------------------------------------------------------------------
(***************************************************************************)
(* The reference: d dominates n when every path from a root to n goes      *)
(* through d, that is, when without d some set with the remaining roots is *)
(* closed and leaves n out.  (A post-dominator is the same with the edges  *)
(* turned round and the exits as roots; a node from which no exit can be   *)
(* reached is post-dominated by every node, as no path contradicts it.)    *)
(***************************************************************************)
Separates(S, d, n) ==
  /\ roots \ {d} \subseteq S
  /\ n \notin S
  /\ \A y \in nodes \ {d} : (\E x \in Feeds(y) : x \in S) => y \in S

Dominates(d, n) == d = n \/ \E S \in SUBSET nodes : Separates(S, d, n)

\* Types: only reachable blocks are nodes, roots and members of the sets, though
\* the edges may touch dead code.
TypeOK == /\ edges \in SUBSET (Block \X Block)
          /\ reverse \in BOOLEAN
          /\ nodes \subseteq Block
          /\ roots \subseteq nodes
          /\ result \in [nodes -> SUBSET nodes]
          /\ todo \subseteq nodes
          /\ changed \in BOOLEAN

\* No true dominator is ever dropped, in whatever order the sets shrink.
NoDominatorLost ==
  \A n \in nodes : \A d \in nodes : Dominates(d, n) => d \in result[n]

\* A pass that has changed nothing so far has left every visited set equal to
\* what its predecessors' sets give.
VisitedAreStable ==
  ~changed => \A n \in nodes \ (roots \union todo) : result[n] = Updated(n)

\* At the end the sets are the dominator sets, no more and no less.
ComputesDominators ==
  Finished => \A n \in nodes : result[n] = {d \in nodes : Dominates(d, n)}
=============================================================================
