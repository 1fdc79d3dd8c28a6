----------------------------- MODULE FlowGraph -----------------------------
(***************************************************************************)
(* The graphs that decompyle3/controlflow builds and analyses.  A control  *)
(* flow graph has the blocks 0 .. BlockCount - 1 (BasicBlock.index), the   *)
(* entry is block 0 and an edge is a pair <<source, target>>; the label of *)
(* an edge ("jump", "exception", ...) matters to no analysis of this       *)
(* module and is left out.                                                 *)
(*                                                                         *)
(* The operators on the reachable part of a graph are the reference        *)
(* definitions the algorithms are checked against.  They are all stated    *)
(* with closed sets ("cuts") instead of paths, so that they need no        *)
(* recursion and can be reasoned about for any number of blocks.           *)
(***************************************************************************)
EXTENDS Naturals

CONSTANT BlockCount          \* number of basic blocks of the code object

ASSUME BlockCountAssumption == BlockCount \in Nat \ {0}

Block == 0 .. BlockCount - 1
Entry == 0

\* ControlFlowGraph.successors and ControlFlowGraph.predecessors.
Successors(edges, index)   == {target \in Block : <<index, target>> \in edges}
Predecessors(edges, index) == {source \in Block : <<source, index>> \in edges}

\* No edge leaves S.
Closed(edges, S) == \A e \in edges : e[1] \in S => e[2] \in S

\* The blocks a path from the entry visits: the least closed set with Entry.
ReachableBlocks(edges) ==
  {b \in Block : \A S \in SUBSET Block : Entry \in S /\ Closed(edges, S) => b \in S}

\* a reaches b: every closed set with a has b.
Reaches(edges, a, b) == \A S \in SUBSET Block : a \in S /\ Closed(edges, S) => b \in S

=============================================================================
