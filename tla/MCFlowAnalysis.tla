--------------------------- MODULE MCFlowAnalysis ---------------------------
(***************************************************************************)
(* Every directed graph on BlockCount blocks whose only possible self-loop *)
(* is on the last block.  Blocks need not be reachable, so dead code with  *)
(* edges into live loops is among them, and graphs without an exit.        *)
(***************************************************************************)
EXTENDS FlowAnalysis

MCGraphs == SUBSET {e \in Block \X Block : e[1] # e[2] \/ e[1] = BlockCount - 1}
=============================================================================
