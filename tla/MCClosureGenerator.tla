------------------------- MODULE MCClosureGenerator -------------------------
(***************************************************************************)
(* Generators with cells or free variables.  CPython 3.11 starts their     *)
(* code with MAKE_CELL and COPY_FREE_VARS, so that RETURN_GENERATOR is not *)
(* the first instruction; POP_TOP then removes the sent value.             *)
(***************************************************************************)
EXTENDS StackDepth

\* COPY_FREE_VARS n; RETURN_GENERATOR; POP_TOP; LOAD_CONST None; RETURN_VALUE.
MCClosureGenerators ==
  {[offset     |-> <<0, 2, 4, 6, 8>>,
    kind       |-> <<"plain", "generator", "plain", "plain", "stop">>,
    target     |-> <<0, 0, 0, 0, 0>>,
    effect     |-> <<0, 0, -1, 1, -1>>,
    jumpEffect |-> <<0, 0, 0, 0, 0>>,
    required   |-> <<0, 0, 1, 0, 1>>,
    regions    |-> {}]}
=============================================================================
