---------------------------- MODULE Reducibility ----------------------------
(***************************************************************************)
(* _strong_components and _ensure_reducible of controlflow/dominators.py:  *)
(* an iterative Kosaraju search for the strong components of the reachable *)
(* graph, and the check that refuses a code object when a cyclic component *)
(* is entered at several blocks.  Python's own stack is not used, so the   *)
(* two searches keep explicit stacks, modelled here step by step.          *)
(***************************************************************************)
EXTENDS FlowGraphs, FiniteSets, SequencesExt

VARIABLES edges,             \* graph.edges
          reachable,         \* the reachable blocks
          phase,             \* "order", "collect", "check", "accepted", "rejected"
          visited,           \* nodes the first search has met
          stack,             \* its stack of nodes with their children to come
          finish,            \* finish_order
          assigned,          \* nodes the second search has met
          component, pending,\* the component being gathered and its stack
          components         \* the components found so far, then left to check

vars == <<edges, reachable, phase, visited, stack, finish,
          assigned, component, pending, components>>
graph  == <<edges, reachable>>
first  == <<visited, stack, finish>>
second == <<assigned, component, pending, components>>

Least(S) == CHOOSE x \in S : \A y \in S : x <= y

\* s lists S, the greatest first.
Descends(s, S) == ToSet(s) = S /\ \A i, j \in DOMAIN s : i < j => s[i] > s[j]

Children(node) == Successors(edges, node) \intersect reachable

\* Defect: predecessors in dead code are followed.
ParentsFromDead(node) == Predecessors(edges, node)

Parents(node) == Predecessors(edges, node) \intersect reachable

Init == /\ edges \in Graphs
        /\ reachable = ReachableBlocks(edges)
        /\ phase = "order"
        /\ visited = {} /\ stack = <<>> /\ finish = <<>>
        /\ assigned = {} /\ component = {} /\ pending = <<>> /\ components = <<>>

\* The next root of the first search, in sorted order.
StartRoot ==
  /\ phase = "order" /\ stack = <<>> /\ reachable \ visited # {}
  /\ LET root == Least(reachable \ visited)
     IN  /\ visited' = visited \union {root}
         /\ stack' = <<[node |-> root, children |-> Children(root)]>>
  /\ UNCHANGED <<graph, phase, finish, second>>

\* The next child of the node on top, in sorted order; a new one is descended into.
NextChild ==
  /\ phase = "order" /\ stack # <<>> /\ Last(stack).children # {}
  /\ LET child == Least(Last(stack).children)
         rest  == Append(Front(stack), [Last(stack) EXCEPT !.children = @ \ {child}])
     IN  IF child \in visited
         THEN stack' = rest /\ UNCHANGED visited
         ELSE /\ visited' = visited \union {child}
              /\ stack' = Append(rest, [node |-> child, children |-> Children(child)])
  /\ UNCHANGED <<graph, phase, finish, second>>

\* Defect: finish_order grows at the wrong end.
FinishAtFront ==
  /\ phase = "order" /\ stack # <<>> /\ Last(stack).children = {}
  /\ finish' = <<Last(stack).node>> \o finish
  /\ stack' = Front(stack)
  /\ UNCHANGED <<graph, phase, visited, second>>

FinishNode ==
  /\ phase = "order" /\ stack # <<>> /\ Last(stack).children = {}
  /\ finish' = Append(finish, Last(stack).node)
  /\ stack' = Front(stack)
  /\ UNCHANGED <<graph, phase, visited, second>>

EndOrder ==
  /\ phase = "order" /\ stack = <<>> /\ visited = reachable
  /\ phase' = "collect"
  /\ UNCHANGED <<graph, first, second>>

\* The next root of the second search: finish_order from the end.
NextRoot ==
  /\ phase = "collect" /\ component = {} /\ pending = <<>> /\ finish # <<>>
  /\ LET root == Last(finish)
     IN  IF root \in assigned
         THEN UNCHANGED <<assigned, pending>>
         ELSE assigned' = assigned \union {root} /\ pending' = <<root>>
  /\ finish' = Front(finish)
  /\ UNCHANGED <<graph, phase, visited, stack, component, components>>

\* A node is popped into the component and its unassigned predecessors are
\* pushed, the greatest first.
Collect ==
  /\ phase = "collect" /\ pending # <<>>
  /\ LET node == Last(pending)
         new  == Parents(node) \ assigned
     IN  /\ component' = component \union {node}
         /\ assigned' = assigned \union new
         /\ \E pushed \in [1 .. Cardinality(new) -> new] :
              Descends(pushed, new) /\ pending' = Front(pending) \o pushed
  /\ UNCHANGED <<graph, phase, first, components>>

EndComponent ==
  /\ phase = "collect" /\ pending = <<>> /\ component # {}
  /\ components' = Append(components, component)
  /\ component' = {}
  /\ UNCHANGED <<graph, phase, first, assigned, pending>>

EndCollect ==
  /\ phase = "collect" /\ pending = <<>> /\ component = {} /\ finish = <<>>
  /\ phase' = "check"
  /\ UNCHANGED <<graph, first, second>>

Cyclic(C) == Cardinality(C) > 1 \/ \E x \in C : <<x, x>> \in edges

\* Defect: two entries are one too few to reject.
EntriesOffByOne(C) ==
  LET targets == {e[2] : e \in {f \in edges : f[1] \in reachable \ C /\ f[2] \in C}}
  IN  IF Cardinality(targets) > 2 THEN targets ELSE {}

\* Defect: edges out of dead code count as entries.
EntriesFromDead(C) == {e[2] : e \in {f \in edges : f[1] \notin C /\ f[2] \in C}}

\* The blocks of the component that reachable edges from outside lead to.
Entries(C) == {e[2] : e \in {f \in edges : f[1] \in reachable \ C /\ f[2] \in C}}

\* One iteration of _ensure_reducible.
CheckComponent ==
  /\ phase = "check" /\ components # <<>>
  /\ IF Cyclic(Head(components)) /\ Cardinality(Entries(Head(components))) > 1
     THEN phase' = "rejected" /\ UNCHANGED components
     ELSE components' = Tail(components) /\ UNCHANGED phase
  /\ UNCHANGED <<graph, first, assigned, component, pending>>

Accept ==
  /\ phase = "check" /\ components = <<>>
  /\ phase' = "accepted"
  /\ UNCHANGED <<graph, first, second>>

Next == \/ StartRoot \/ NextChild \/ FinishNode \/ EndOrder
        \/ NextRoot \/ Collect \/ EndComponent \/ EndCollect
        \/ CheckComponent \/ Accept

Spec == Init /\ [][Next]_vars /\ WF_vars(Next)
-----------------------------------------------------------------------------
\* Types: neither search leaves the reachable blocks, and what is on the stack was met.
TypeOK ==
  /\ edges \subseteq Block \X Block
  /\ phase \in {"order", "collect", "check", "accepted", "rejected"}
  /\ visited \subseteq reachable /\ assigned \subseteq reachable
  /\ ToSet(finish) \subseteq reachable /\ component \subseteq reachable
  /\ \A i \in DOMAIN stack : stack[i].node \in visited

StrongComponent(n) == {m \in reachable : Reaches(edges, n, m) /\ Reaches(edges, m, n)}

\* Every component that is closed is one whole strong component: nothing of a
\* cycle is left out and nothing beside it is pulled in.  No component is missing.
ComponentsAreStrong ==
  phase = "collect" =>
    /\ \A i \in DOMAIN components : \A n \in components[i] : components[i] = StrongComponent(n)
    /\ (UNION ToSet(components)) \union component \union ToSet(pending) = assigned
    /\ finish = <<>> => assigned = reachable

\* The domination of DominatorFixpoint, for the forward direction.
Dominates(d, n) ==
  d = n \/ \E S \in SUBSET reachable :
             /\ {Entry} \ {d} \subseteq S
             /\ n \notin S
             /\ \A e \in edges : e[1] \in S /\ e[2] # d => e[2] \in S

\* The textbook definition: without the edges whose target dominates their
\* source, no cycle is left (every set of blocks has one without a successor in it).
Reducible ==
  LET forward == {e \in edges : e[1] \in reachable /\ ~Dominates(e[2], e[1])}
  IN  \A S \in SUBSET reachable : S # {} => \E x \in S : \A y \in S : <<x, y>> \notin forward

\* A code object is refused only for a graph that really is irreducible: no
\* dead edge and no legal loop costs the user the whole function.
RejectsOnlyIrreducible == phase = "rejected" => ~Reducible

\* Every cyclic component of an accepted graph has a block that dominates all
\* of it and is the target of a back edge: the loop recovery finds a header.
AcceptedCyclesHaveHeader ==
  phase = "accepted" =>
    \A n \in reachable : Cyclic(StrongComponent(n)) =>
      \E h \in StrongComponent(n) :
        /\ \A m \in StrongComponent(n) : Dominates(h, m)
        /\ \E m \in StrongComponent(n) : <<m, h>> \in edges

\* The docstring of analyze_control_flow: irreducible graphs are rejected.
AcceptsOnlyReducible == phase = "accepted" => Reducible
=============================================================================
