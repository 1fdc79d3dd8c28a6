------------------------------ MODULE Bytecode ------------------------------
(***************************************************************************)
(* Normalized CPython 3.11 instructions, as Normalizer311 hands them to    *)
(* the control-flow analyses, and the order the virtual machine executes   *)
(* them in.                                                                *)
(*                                                                         *)
(* A program p is a record:                                                *)
(*   p.offset   physical offsets, increasing.  Offsets of inline caches    *)
(*              are missing, so the numbers have gaps.                     *)
(*   p.kind     "plain"     falls through (every opcode without a target)  *)
(*              "branch"    a conditional jump, FOR_ITER or SEND           *)
(*              "jump"      UNCONDITIONAL_JUMPS                            *)
(*              "stop"      TERMINATORS of cfg.py                          *)
(*              "generator" RETURN_GENERATOR: returns the generator to the *)
(*                          caller; the frame resumes at the next opcode   *)
(*   p.target   the offset a jump or a branch goes to                      *)
(*   p.regions  the decoded exception table: [start, end, target, ...]     *)
(***************************************************************************)
EXTENDS Naturals, Sequences

Instructions(p) == 1 .. Len(p.offset)
OffsetSet(p) == {p.offset[i] : i \in Instructions(p)}

\* ExceptionRegion.contains.
Covers(region, offset) == region.start <= offset /\ offset < region.end

\* instruction_target is not None.
HasTarget(p, i) == p.kind[i] \in {"jump", "branch"}

\* What the virtual machine may execute after instruction i.
FallsTo(p, i, j) == j = i + 1 /\ p.kind[i] \in {"plain", "branch", "generator"}
JumpsTo(p, i, j) == HasTarget(p, i) /\ p.offset[j] = p.target[i]
RaisesTo(p, i, j) == \E r \in p.regions : Covers(r, p.offset[i]) /\ p.offset[j] = r.target

IsProgram(p) ==
  /\ p.offset \in Seq(Nat) /\ Len(p.offset) > 0
  /\ \A i, j \in Instructions(p) : i < j => p.offset[i] < p.offset[j]
  /\ p.kind \in [Instructions(p) -> {"plain", "branch", "jump", "stop", "generator"}]
  /\ p.target \in [Instructions(p) -> Nat]
  /\ \A r \in p.regions : {r.start, r.end, r.target} \subseteq Nat
=============================================================================
