----------------------------- MODULE FlowGraphs -----------------------------
(***************************************************************************)
(* The control flow graphs the analyses of controlflow/dominators.py may   *)
(* be asked about.                                                         *)
(***************************************************************************)
EXTENDS FlowGraph

CONSTANT Graphs              \* the edge sets a behaviour may start with

ASSUME GraphsAssumption == Graphs \subseteq SUBSET (Block \X Block)
=============================================================================
