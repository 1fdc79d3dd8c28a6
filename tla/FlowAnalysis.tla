---------------------------- MODULE FlowAnalysis ----------------------------
(***************************************************************************)
(* analyze_control_flow of controlflow/dominators.py: the reducibility     *)
(* check, the dominators, the post-dominators and the natural loop of each *)
(* back edge, one after the other and each from what the ones before it    *)
(* left, on one graph.                                                     *)
(***************************************************************************)
EXTENDS FlowGraphs

VARIABLES edges, reachable,
          stage,             \* "reducible", "dominators", "postdominators", "loops",
                             \* "done", "rejected"
          \* of Reducibility
          phase, visited, stack, finish, assigned, component, pending, components,
          \* of DominatorFixpoint
          reverse, roots, result, todo, changed,
          \* of NaturalLoops
          latch, header, members, unexpanded,
          dominators,        \* the result of the first fixpoint
          immediate,         \* _immediate(dominators)
          immediatePost,     \* _immediate(post_dominators)
          backEdges          \* whose loops are not gathered yet

graph    == <<edges, reachable>>
searches == <<phase, visited, stack, finish, assigned, component, pending, components>>
fixpoint == <<reverse, roots, result, todo, changed>>
loop     == <<latch, header, members, unexpanded>>
results  == <<dominators, immediate, immediatePost, backEdges>>
vars     == <<graph, stage, searches, fixpoint, loop, results>>

Check    == INSTANCE Reducibility
Fixpoint == INSTANCE DominatorFixpoint WITH nodes <- reachable
Loop     == INSTANCE NaturalLoops WITH pending <- unexpanded

Init == /\ Check!Init
        /\ stage = "reducible"
        /\ reverse = FALSE /\ roots = {} /\ changed = FALSE
        /\ result = [node \in reachable |-> reachable] /\ todo = reachable
        /\ latch = Entry /\ header = Entry /\ members = {Entry} /\ unexpanded = {}
        /\ dominators = result /\ backEdges = {}
        /\ immediate = [node \in reachable |-> {}] /\ immediatePost = immediate

\* _ensure_reducible(graph).
EnsureReducible ==
  /\ stage = "reducible" /\ Check!Next
  /\ stage' = IF phase' = "rejected" THEN "rejected" ELSE stage
  /\ UNCHANGED <<graph, fixpoint, loop, results>>

\* _fixed_point_sets is called.
Restart(backwards) == /\ reverse' = backwards
                      /\ roots' = Fixpoint!Roots(edges, reachable, backwards)
                      /\ result' = Fixpoint!FromAbove(reachable, roots')
                      /\ todo' = reachable /\ changed' = FALSE

\* dominators = _fixed_point_sets(graph).
StartDominators ==
  /\ stage = "reducible" /\ phase = "accepted"
  /\ stage' = "dominators"
  /\ Restart(FALSE)
  /\ UNCHANGED <<graph, searches, loop, results>>

\* post_dominators = _fixed_point_sets(graph, reverse=True).
StartPostDominators ==
  /\ stage = "dominators" /\ Fixpoint!Finished
  /\ stage' = "postdominators"
  /\ dominators' = result
  /\ Restart(TRUE)
  /\ UNCHANGED <<graph, searches, loop, immediate, immediatePost, backEdges>>

Iterate ==
  /\ stage \in {"dominators", "postdominators"} /\ Fixpoint!Next
  /\ UNCHANGED <<graph, stage, searches, loop, results>>

\* Defect: the node is a candidate itself.
ImmediateOrSelf(sets, node) == {candidate \in sets[node] : sets[node] \subseteq sets[candidate]}

\* The candidates of _immediate: the strict dominators that all others dominate.
Immediate(sets, node) ==
  LET strict == sets[node] \ {node}
  IN  {candidate \in strict : strict \subseteq sets[candidate]}

\* Defect: the post-dominators are read where the dominators are meant.
StartLoopsFromPost ==
  /\ stage = "postdominators" /\ Fixpoint!Finished
  /\ stage' = "loops"
  /\ backEdges' = {e \in edges : e[1] \in reachable /\ e[2] \in result[e[1]]}
  /\ immediate' = [node \in reachable |-> Immediate(dominators, node)]
  /\ immediatePost' = [node \in reachable |-> Immediate(result, node)]
  /\ UNCHANGED <<graph, searches, fixpoint, loop, dominators>>

\* back_edges and what _immediate makes of both results; the post-dominators
\* stay in `result`.
StartLoops ==
  /\ stage = "postdominators" /\ Fixpoint!Finished
  /\ stage' = "loops"
  /\ backEdges' = {e \in edges : e[1] \in reachable /\ e[2] \in dominators[e[1]]}
  /\ immediate' = [node \in reachable |-> Immediate(dominators, node)]
  /\ immediatePost' = [node \in reachable |-> Immediate(result, node)]
  /\ UNCHANGED <<graph, searches, fixpoint, loop, dominators>>

\* The next back edge, in sorted order: _natural_loop is called.
NextLoop ==
  /\ stage = "loops" /\ unexpanded = {}
  /\ \E e \in backEdges :
       /\ \A f \in backEdges : e[1] < f[1] \/ (e[1] = f[1] /\ e[2] <= f[2])
       /\ backEdges' = backEdges \ {e}
       /\ latch' = e[1] /\ header' = e[2]
       /\ members' = {e[1], e[2]} /\ unexpanded' = Loop!Pushed(e[1], e[2])
  /\ UNCHANGED <<graph, stage, searches, fixpoint, dominators, immediate, immediatePost>>

Gather ==
  /\ stage = "loops" /\ Loop!Next
  /\ UNCHANGED <<graph, stage, searches, fixpoint, results>>

Finish ==
  /\ stage = "loops" /\ unexpanded = {} /\ backEdges = {}
  /\ stage' = "done"
  /\ UNCHANGED <<graph, searches, fixpoint, loop, results>>

Next == \/ EnsureReducible \/ StartDominators \/ StartPostDominators \/ Iterate
        \/ StartLoops \/ NextLoop \/ Gather \/ Finish

Spec == Init /\ [][Next]_vars /\ WF_vars(Next)
-----------------------------------------------------------------------------
InFixpoint == stage \in {"dominators", "postdominators"}

\* Types: every analysis stays among the reachable blocks, dead code or not.
TypeOK ==
  /\ stage \in {"reducible", "dominators", "postdominators", "loops", "done", "rejected"}
  /\ stage = "reducible" => Check!TypeOK
  /\ InFixpoint => Fixpoint!TypeOK
  /\ stage = "loops" => Loop!TypeOK

\* The two searches of _strong_components find whole strong components.
ComponentsAreStrong == stage = "reducible" => Check!ComponentsAreStrong

\* Only a graph that really is irreducible is refused.
RejectsOnlyIrreducible == Check!RejectsOnlyIrreducible

\* Every cyclic component of an accepted graph has a block that dominates it.
AcceptedCyclesHaveHeader == stage = "reducible" => Check!AcceptedCyclesHaveHeader

\* What the docstring says: a graph that is accepted is reducible.
AcceptsOnlyReducible == Check!AcceptsOnlyReducible

\* No true dominator or post-dominator is dropped at any time.
NoDominatorLost == InFixpoint => Fixpoint!NoDominatorLost

\* The fixpoints are the dominators and the post-dominators.
ComputesDominators == InFixpoint => Fixpoint!ComputesDominators

\* The candidates of _immediate lead up to the entry.
DominatorsFormTree ==
  /\ immediate[Entry] = {}
  /\ \A node \in reachable \ {Entry} :
       \E parent \in reachable \ {node} :
         /\ immediate[node] = {parent}
         /\ dominators[node] = dominators[parent] \union {node}

\* Some exit can be reached from the node.
Leaves(node) == \A S \in SUBSET reachable :
  node \in S /\ Closed(edges, S) => S \intersect Fixpoint!Exits(edges, reachable) # {}

\* Among the blocks that leave, the candidates lead to an exit or to a block whose
\* ways out have nothing else in common.  A block that never leaves has every block
\* for a post-dominator and often several candidates: there the code takes any.
PostDominatorsFormForest ==
  \A node \in reachable :
    Leaves(node) =>
      \/ immediatePost[node] = {} /\ result[node] = {node}
      \/ \E parent \in reachable \ {node} :
           /\ Leaves(parent)
           /\ immediatePost[node] = {parent}
           /\ result[node] = result[parent] \union {node}

\* _immediate has at most one candidate for a block, whatever order it tries them
\* in, and the candidates form a tree; from the post-dominators a forest, over the
\* blocks from which an exit can be reached.
DominatorTree == stage \in {"loops", "done"} => DominatorsFormTree /\ PostDominatorsFormForest

\* The target of a back edge dominates its source, and the loop of each has one
\* entrance, the header.
SingleEntry == stage = "loops" => backEdges \subseteq Loop!BackEdges /\ Loop!SingleEntry

\* Inside its loop every block is reached from the header and reaches the latch.
LoopIsCyclic == stage = "loops" => Loop!LoopIsCyclic

\* The analysis ends, with an error or with all its results.
Terminates == <>(stage \in {"done", "rejected"})
=============================================================================
