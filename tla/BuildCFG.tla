------------------------------ MODULE BuildCFG ------------------------------
(***************************************************************************)
(* build_cfg of controlflow/cfg.py, followed by an execution of the code   *)
(* it was built from.  The graph is what the whole decompiler reasons      *)
(* about in place of the code: an execution must never take a step the     *)
(* graph has no edge for, nor enter a block in its middle, nor run a block *)
(* that was found unreachable.                                             *)
(*                                                                         *)
(* A block is named by its first instruction instead of by its rank among  *)
(* the leaders: leader_indices is sorted, so the two orders agree.         *)
(***************************************************************************)
EXTENDS Bytecode

CONSTANT Programs            \* the programs a behaviour may start with

\* What the theorems assume of the programs.
ProgramsAssumption == \A p \in Programs : IsProgram(p)

VARIABLES program,
          outcome,           \* "building", "built" or "error"
          leaders, edges,    \* of the graph
          pc, block          \* of the execution: instruction and its block

vars == <<program, outcome, leaders, edges, pc, block>>

\* The offsets the graph needs and the instructions must have.
Referenced(p) == {p.target[i] : i \in {k \in Instructions(p) : HasTarget(p, k)}}
                   \union UNION {{r.start, r.target} : r \in p.regions}

Ends(p) == {r.end : r \in p.regions}

\* Defect: the instruction after a conditional jump continues its block.
LeadersWithoutFallthrough(p) ==
  {1} \union {i \in Instructions(p) :
                \/ p.offset[i] \in Referenced(p) \union Ends(p)
                \/ i > 1 /\ p.kind[i - 1] \in {"jump", "stop"}}

\* Defect: only the handlers of the regions start blocks, not their bounds.
LeadersWithoutBounds(p) ==
  {1} \union {i \in Instructions(p) :
                \/ \E k \in Instructions(p) : HasTarget(p, k) /\ p.target[k] = p.offset[i]
                \/ \E r \in p.regions : r.target = p.offset[i]
                \/ i > 1 /\ (HasTarget(p, i - 1) \/ p.kind[i - 1] = "stop")}

\* An instruction is a leader when an edge leads to it or when what precedes it
\* ends its block.
Leaders(p) ==
  {1} \union {i \in Instructions(p) :
                \/ p.offset[i] \in Referenced(p) \union Ends(p)
                \/ i > 1 /\ (HasTarget(p, i - 1) \/ p.kind[i - 1] = "stop")}

\* Instruction i belongs to the block that starts at b.
InBlock(p, b, i) ==
  /\ b \in Leaders(p) /\ i \in Instructions(p) /\ b <= i
  /\ \A k \in b + 1 .. i : k \notin Leaders(p)

\* i is block.last of the block that starts at b.
IsLast(p, b, i) == InBlock(p, b, i) /\ i + 1 \notin Instructions(p) \ Leaders(p)

FallEdges(p) == {e \in Leaders(p) \X Leaders(p) :
                   \E i \in Instructions(p) : IsLast(p, e[1], i) /\ FallsTo(p, i, e[2])}
JumpEdges(p) == {e \in Leaders(p) \X Leaders(p) :
                   \E i \in Instructions(p) : IsLast(p, e[1], i) /\ JumpsTo(p, i, e[2])}

\* Defect: a block is protected when its start is, the region's end included.
InclusiveEdges(p) ==
  {e \in Leaders(p) \X Leaders(p) :
     \E r \in p.regions : /\ p.offset[e[2]] = r.target
                          /\ r.start <= p.offset[e[1]] /\ p.offset[e[1]] <= r.end}

\* A block whose start a region covers has an edge to the region's handler.
ExceptionEdges(p) ==
  {e \in Leaders(p) \X Leaders(p) :
     \E r \in p.regions : Covers(r, p.offset[e[1]]) /\ p.offset[e[2]] = r.target}

Init == /\ program \in Programs
        /\ outcome = "building"
        /\ leaders = {} /\ edges = {}
        /\ pc = 1 /\ block = 1

\* A target without an instruction: ControlFlowError.
Refuse == /\ outcome = "building"
          /\ ~(Referenced(program) \subseteq OffsetSet(program))
          /\ outcome' = "error"
          /\ UNCHANGED <<program, leaders, edges, pc, block>>

Build == /\ outcome = "building"
         /\ Referenced(program) \subseteq OffsetSet(program)
         /\ outcome' = "built"
         /\ leaders' = Leaders(program)
         /\ edges' = FallEdges(program) \union JumpEdges(program)
                       \union ExceptionEdges(program)
         /\ UNCHANGED <<program, pc, block>>

\* The virtual machine executes the instruction at pc.  `block` follows it: a
\* leader starts a block, any other instruction continues the current one.
Goto(j) == /\ pc' = j
           /\ block' = IF j \in leaders THEN j ELSE block
           /\ UNCHANGED <<program, outcome, leaders, edges>>

Fall  == outcome = "built" /\ \E j \in Instructions(program) : FallsTo(program, pc, j) /\ Goto(j)
Jump  == outcome = "built" /\ \E j \in Instructions(program) : JumpsTo(program, pc, j) /\ Goto(j)
Raise == outcome = "built" /\ \E j \in Instructions(program) : RaisesTo(program, pc, j) /\ Goto(j)

Next == Refuse \/ Build \/ Fall \/ Jump \/ Raise

Spec == Init /\ [][Next]_vars
-----------------------------------------------------------------------------
\* Types: the graph's blocks start at instructions, and edges join blocks.
TypeOK == /\ IsProgram(program)
          /\ outcome \in {"building", "built", "error"}
          /\ leaders \subseteq Instructions(program)
          /\ edges \subseteq leaders \X leaders
          /\ pc \in Instructions(program)
          /\ block \in Instructions(program)

\* The executing instruction is in the block the execution last entered: no
\* jump, handler or return address lies inside a block.
StaysInBlock == outcome = "built" => InBlock(program, block, pc)

\* Control leaves a block, or comes back to its start, along an edge only, and
\* within a block it only goes to the next instruction.
StepsAlongEdges ==
  [][outcome = "built" =>
       \/ <<block, block'>> \in edges /\ pc' = block'
       \/ block' = block /\ pc' = pc + 1]_vars

\* No executed block is left out of the part of the graph that is analysed.
RunsOnlyReachable ==
  outcome = "built" =>
    \A S \in SUBSET leaders :
      1 \in S /\ (\A e \in edges : e[1] \in S => e[2] \in S) => block \in S

\* Every edge is one that some instruction of its source block can take: the
\* graph shows the decompiler no path the program does not have.
EdgesAreReal ==
  \A e \in edges : \E i \in Instructions(program) :
    /\ InBlock(program, e[1], i)
    /\ \/ FallsTo(program, i, e[2])
       \/ JumpsTo(program, i, e[2])
       \/ RaisesTo(program, i, e[2])
=============================================================================
