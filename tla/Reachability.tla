---------------------------- MODULE Reachability ----------------------------
(***************************************************************************)
(* _mark_reachable of controlflow/cfg.py: the work list that decides which *)
(* basic blocks the decompiler looks at.  Every later analysis restricts   *)
(* itself to the blocks marked here, so a block that is left out silently  *)
(* loses source code and a dead block that is marked adds edges that do    *)
(* not exist in any execution.                                             *)
(***************************************************************************)
EXTENDS FlowGraph, Sequences

CONSTANT AdjacencyLists      \* the adjacency lists a behaviour may start with

\* What the theorems assume of the lists.
AdjacencyAssumption == AdjacencyLists \subseteq [Block -> Seq(Block)]

VARIABLES successors,        \* block -> list of targets, duplicates allowed
          pending,           \* the deque
          seen               \* the blocks whose reachable flag is set

vars == <<successors, pending, seen>>

Elements(list) == {list[i] : i \in DOMAIN list}

\* The edges the adjacency lists stand for.
Edges == {e \in Block \X Block : e[2] \in Elements(successors[e[1]])}

Init == /\ successors \in AdjacencyLists
        /\ pending = <<Entry>>
        /\ seen = {}

\* The popped block was marked before: the body of the loop is skipped.
SkipSeen == /\ pending # <<>>
            /\ Head(pending) \in seen
            /\ pending' = Tail(pending)
            /\ UNCHANGED <<successors, seen>>

\* Defect: the successors replace the rest of the deque (= for extend).
MarkReplacing == /\ pending # <<>>
                 /\ Head(pending) \notin seen
                 /\ seen' = seen \union {Head(pending)}
                 /\ pending' = successors[Head(pending)]
                 /\ UNCHANGED successors

\* The popped block is marked and all its successors are queued.
Mark == /\ pending # <<>>
        /\ Head(pending) \notin seen
        /\ seen' = seen \union {Head(pending)}
        /\ pending' = Tail(pending) \o successors[Head(pending)]
        /\ UNCHANGED successors

Next == SkipSeen \/ Mark

Spec == Init /\ [][Next]_vars /\ WF_vars(Next)
-----------------------------------------------------------------------------
\* The deque holds blocks only, and only blocks are marked.
TypeOK == /\ successors \in [Block -> Seq(Block)]
          /\ pending \in Seq(Block)
          /\ seen \subseteq Block

\* Nothing that is queued or marked is dead code.
OnlyReachable == seen \union Elements(pending) \subseteq ReachableBlocks(Edges)

\* A successor of a marked block is marked or still queued: blocks are skipped
\* on the strength of `seen`, so one that is lost here is lost for good.
NothingForgotten ==
  /\ Entry \in seen \union Elements(pending)
  /\ \A b \in seen : Elements(successors[b]) \subseteq seen \union Elements(pending)

\* What each iteration of _mark_reachable's loop preserves.
SearchInvariant == OnlyReachable /\ NothingForgotten

\* When the deque is empty the flags are exactly the reachable blocks.
MarksExactlyReachable == pending = <<>> => seen = ReachableBlocks(Edges)

\* The loop ends on every graph, cyclic ones included.
Terminates == <>(pending = <<>>)
=============================================================================
