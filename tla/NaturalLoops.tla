---------------------------- MODULE NaturalLoops ----------------------------
(***************************************************************************)
(* analyze_control_flow of controlflow/dominators.py from the point where  *)
(* the dominators are known: the back edges are collected and _natural_loop *)
(* gathers the body of the loop of each.  The sets of dominators are those *)
(* DominatorFixpoint computes (the theorem FixpointCorrect).               *)
(***************************************************************************)
EXTENDS FlowGraphs

VARIABLES edges,             \* graph.edges
          reachable,         \* the reachable blocks
          latch, header,     \* the arguments of _natural_loop
          members,           \* its result
          pending            \* its stack; a block is pushed at most once, so a set

vars == <<edges, reachable, latch, header, members, pending>>

\* The cut of DominatorFixpoint for the forward direction.
Separates(S, d, n) ==
  /\ {Entry} \ {d} \subseteq S
  /\ n \notin S
  /\ \A y \in reachable \ {d} : (\E x \in reachable : x \in S /\ <<x, y>> \in edges) => y \in S

Dominates(d, n) == d = n \/ \E S \in SUBSET reachable : Separates(S, d, n)

\* The edges whose target dominates their source.
BackEdges == {e \in edges : e[1] \in reachable /\ Dominates(e[2], e[1])}

\* Defect: the latch is pushed even when it is the header of its own loop.
PushedAlways(from, to) == {from}

\* What is on the stack at first.
Pushed(from, to) == IF from = to THEN {} ELSE {from}

Init == /\ edges \in Graphs
        /\ reachable = ReachableBlocks(edges)
        /\ \E e \in BackEdges : latch = e[1] /\ header = e[2]
        /\ members = {header, latch}
        /\ pending = Pushed(latch, header)

\* Defect: one predecessor is followed instead of all.
ExpandFirst ==
  \E node \in pending :
    LET found == (Predecessors(edges, node) \intersect reachable) \ members
        first == {x \in found : \A y \in found : x <= y}
    IN  /\ members' = members \union first
        /\ pending' = (pending \ {node}) \union first
        /\ UNCHANGED <<edges, reachable, latch, header>>

\* One iteration: a node is popped and its new predecessors are pushed.
Expand ==
  \E node \in pending :
    LET found == (Predecessors(edges, node) \intersect reachable) \ members
    IN  /\ members' = members \union found
        /\ pending' = (pending \ {node}) \union found
        /\ UNCHANGED <<edges, reachable, latch, header>>

Next == Expand

Spec == Init /\ [][Next]_vars /\ WF_vars(Next)

Finished == pending = {}
-----------------------------------------------------------------------------
\* Types: a loop is made of reachable blocks, and the header is never expanded.
TypeOK == /\ edges \in SUBSET (Block \X Block)
          /\ reachable = ReachableBlocks(edges)
          /\ {header, latch} \subseteq members
          /\ members \subseteq reachable
          /\ pending \subseteq members \ {header}

\* The header dominates whatever has been gathered: the body of the loop is
\* entered through the header and through nothing else.
HeaderDominates == \A m \in members : Dominates(header, m)

\* Predecessors of a gathered block are gathered, except the header's and those
\* of the blocks still on the stack.
BodyClosed ==
  \A m \in members \ (pending \union {header}) :
    Predecessors(edges, m) \intersect reachable \subseteq members

\* A set of blocks closed under predecessors, but for the header's.
LoopClosed(S) ==
  /\ {header, latch} \subseteq S
  /\ \A m \in S \ {header} : Predecessors(edges, m) \intersect reachable \subseteq S

\* No block is gathered from which the latch cannot be reached without passing
\* the header: the loop is the least such set.
NothingExtra == \A S \in SUBSET reachable : LoopClosed(S) => members \subseteq S

LoopInvariant == HeaderDominates /\ BodyClosed /\ NothingExtra

\* The finished loop has one entrance: control comes into it at the header only.
SingleEntry ==
  Finished =>
    \A e \in edges : e[1] \in reachable \ members /\ e[2] \in members => e[2] = header

InLoop(e) == e[1] \in members /\ e[2] \in members

\* The finished loop is strongly connected: from the header every member is
\* reached, and every member reaches the latch, inside the loop.
LoopIsCyclic ==
  Finished =>
    \A m \in members : LET inside == {e \in edges : InLoop(e)}
                       IN  Reaches(inside, header, m) /\ Reaches(inside, m, latch)
=============================================================================
