----------------------------- MODULE StackDepth -----------------------------
(***************************************************************************)
(* Normalizer311.analyze_stack: the work list that gives every instruction *)
(* the depth of the value stack at its start and refuses code whose depth  *)
(* differs between two paths or drops below what an instruction needs.     *)
(* When it has ended, an execution of the program is followed, so that the *)
(* depths can be compared with those of a machine that runs the code.      *)
(*                                                                         *)
(* Beside the fields of Bytecode a program has, per instruction,           *)
(*   p.effect      stack_effect (of the fall-through)                      *)
(*   p.jumpEffect  jump_stack_effect                                       *)
(*   p.required    required_depth                                          *)
(* and, per region, the depth and lasti of its entry.  _stack_shape gives  *)
(* no instruction a required depth below what it pops, so the two errors   *)
(* for a negative depth cannot be raised and are no actions here.          *)
(***************************************************************************)
EXTENDS Bytecode, Integers

CONSTANT Programs            \* the programs a behaviour may start with

IsStackProgram(p) ==
  /\ IsProgram(p)
  /\ p.effect \in [Instructions(p) -> Int]
  /\ p.jumpEffect \in [Instructions(p) -> Int]
  /\ p.required \in [Instructions(p) -> Nat]
  /\ \A i \in Instructions(p) : /\ p.required[i] + p.effect[i] >= 0
                               /\ p.required[i] + p.jumpEffect[i] >= 0
  /\ \A r \in p.regions : r.depth \in Nat /\ r.lasti \in BOOLEAN
  /\ \A i \in Instructions(p) : HasTarget(p, i) => p.target[i] \in OffsetSet(p)

\* What the theorems assume of the programs.
ProgramsAssumption == \A p \in Programs : IsStackProgram(p)

VARIABLES program,
          outcome,           \* "analysing", "ok", "inconsistent", "shallow", "missing"
          depths,            \* instruction -> depth, for those reached so far
          pending,           \* <<instruction, depth>> pairs of the deque, with 0 for
                             \* an offset that no instruction has
          pc, depth          \* of the execution

vars == <<program, outcome, depths, pending, pc, depth>>

Code == Instructions(program)

\* Defect: the exception pushed on entry of a handler is forgotten.
HandlerDepthNoException(region) == region.depth + (IF region.lasti THEN 1 ELSE 0)

\* The depth at a handler's start: entry_depth of the region.
HandlerDepth(region) == region.depth + 1 + (IF region.lasti THEN 1 ELSE 0)

\* The analysis starts at the first instruction; a generator resumes behind a
\* RETURN_GENERATOR in first place, with the value sent on the stack.
InitialPending(p) ==
  {<<1, 0>>} \union
  {<<j, 1>> : j \in {k \in Instructions(p) : k = 2 /\ p.kind[1] = "generator"}}

\* The jump target, with the effect of the taken branch.
JumpItems(p, i, d) ==
  {<<j, d + p.jumpEffect[i]>> : j \in {k \in Instructions(p) : JumpsTo(p, i, k)}}

\* The following instruction, unless control cannot fall through.
FallItems(p, i, d) ==
  {<<j, d + p.effect[i]>> :
     j \in {k \in Instructions(p) : k = i + 1 /\ p.kind[i] \in {"plain", "branch"}}}

\* Defect: a handler without an instruction is passed over.
HandlerItemsFound(p, i) ==
  UNION {{<<j, HandlerDepth(r)>> : j \in {k \in Instructions(p) : p.offset[k] = r.target}} :
         r \in {s \in p.regions : Covers(s, p.offset[i])}}

\* The instruction of a handler, or 0: the entries are not validated yet, and one
\* may lead into the inline cache of an instruction.
HandlersAt(p, r) ==
  {k \in Instructions(p) : p.offset[k] = r.target}
    \union (IF r.target \in OffsetSet(p) THEN {} ELSE {0})

\* The handler of every covering exception entry.
HandlerItems(p, i) ==
  UNION {{<<j, HandlerDepth(r)>> : j \in HandlersAt(p, r)} :
         r \in {s \in p.regions : Covers(s, p.offset[i])}}

Init == /\ program \in Programs
        /\ outcome = "analysing"
        /\ depths = [i \in {} |-> 0]
        /\ pending = InitialPending(program)
        /\ pc = 1 /\ depth = 0

Analysing(item) == outcome = "analysing" /\ item \in pending

\* Defect: the item is looked at but stays queued.
AgainKeeping == \E item \in pending :
                  /\ Analysing(item)
                  /\ item[1] \in DOMAIN depths /\ depths[item[1]] = item[2]
                  /\ UNCHANGED vars

\* The instruction has its depth already, and it is this one.
Again == \E item \in pending :
           /\ Analysing(item)
           /\ item[1] \in DOMAIN depths /\ depths[item[1]] = item[2]
           /\ pending' = pending \ {item}
           /\ UNCHANGED <<program, outcome, depths, pc, depth>>

\* StackDepthError: two paths disagree.
Inconsistent == \E item \in pending :
                  /\ Analysing(item)
                  /\ item[1] \in DOMAIN depths /\ depths[item[1]] # item[2]
                  /\ outcome' = "inconsistent"
                  /\ UNCHANGED <<program, depths, pending, pc, depth>>

\* StackDepthError: the instruction needs more than there is.
Shallow == \E item \in pending :
             /\ Analysing(item)
             /\ item[1] \in Code \ DOMAIN depths /\ item[2] < program.required[item[1]]
             /\ outcome' = "shallow"
             /\ UNCHANGED <<program, depths, pending, pc, depth>>

\* KeyError: by_offset has no instruction at the offset.
Missing == \E item \in pending :
             /\ Analysing(item) /\ item[1] = 0
             /\ outcome' = "missing"
             /\ UNCHANGED <<program, depths, pending, pc, depth>>

\* Defect: the required depth is not looked at.
RecordUnchecked ==
  \E item \in pending :
    /\ Analysing(item)
    /\ item[1] \in Code \ DOMAIN depths
    /\ depths' = [k \in DOMAIN depths \union {item[1]} |->
                    IF k = item[1] THEN item[2] ELSE depths[k]]
    /\ pending' = (pending \ {item}) \union JumpItems(program, item[1], item[2])
                    \union FallItems(program, item[1], item[2])
                    \union HandlerItems(program, item[1])
    /\ UNCHANGED <<program, outcome, pc, depth>>

\* The depth is recorded and everything that may follow is queued.
Record ==
  \E item \in pending :
    /\ Analysing(item)
    /\ item[1] \in Code \ DOMAIN depths /\ item[2] >= program.required[item[1]]
    /\ depths' = [k \in DOMAIN depths \union {item[1]} |->
                    IF k = item[1] THEN item[2] ELSE depths[k]]
    /\ pending' = (pending \ {item}) \union JumpItems(program, item[1], item[2])
                    \union FallItems(program, item[1], item[2])
                    \union HandlerItems(program, item[1])
    /\ UNCHANGED <<program, outcome, pc, depth>>

Finish == /\ outcome = "analysing" /\ pending = {}
          /\ outcome' = "ok"
          /\ UNCHANGED <<program, depths, pending, pc, depth>>

Analyse == Again \/ Inconsistent \/ Shallow \/ Missing \/ Record \/ Finish

(***************************************************************************)
(* The virtual machine.  An exception cuts the stack to the depth of the   *)
(* entry and pushes, when lasti is set, the offset and then the exception. *)
(* A generator is resumed with the sent value on the stack of its frame.   *)
(***************************************************************************)
Running == outcome = "ok"

Fall == /\ Running /\ program.kind[pc] # "generator"
        /\ \E j \in Code : FallsTo(program, pc, j) /\ pc' = j
        /\ depth' = depth + program.effect[pc]
        /\ UNCHANGED <<program, outcome, depths, pending>>

Resume == /\ Running /\ program.kind[pc] = "generator"
          /\ \E j \in Code : FallsTo(program, pc, j) /\ pc' = j
          /\ depth' = depth + 1
          /\ UNCHANGED <<program, outcome, depths, pending>>

Jump == /\ Running
        /\ \E j \in Code : JumpsTo(program, pc, j) /\ pc' = j
        /\ depth' = depth + program.jumpEffect[pc]
        /\ UNCHANGED <<program, outcome, depths, pending>>

Raise == /\ Running
         /\ \E r \in program.regions :
              /\ Covers(r, program.offset[pc])
              /\ \E j \in Code : program.offset[j] = r.target /\ pc' = j
              /\ depth' = r.depth + (IF r.lasti THEN 2 ELSE 1)
         /\ UNCHANGED <<program, outcome, depths, pending>>

Next == Analyse \/ Fall \/ Resume \/ Jump \/ Raise

Spec == Init /\ [][Next]_vars /\ WF_vars(Analyse)
-----------------------------------------------------------------------------
\* Types: no depth, queued, recorded or of the machine, is ever negative.
TypeOK == /\ IsStackProgram(program)
          /\ outcome \in {"analysing", "ok", "inconsistent", "shallow", "missing"}
          /\ DOMAIN depths \subseteq Code /\ depths \in [DOMAIN depths -> Nat]
          /\ pending \subseteq (Code \union {0}) \X Nat
          /\ pc \in Code /\ depth \in Nat

\* Whatever may follow a recorded instruction is recorded with the depth the
\* path gives it, or is queued with that depth.
ItemKnown(item) == item \in pending \/ (item[1] \in DOMAIN depths /\ depths[item[1]] = item[2])

FollowersKnown ==
  outcome \in {"analysing", "ok"} =>
    /\ \A item \in InitialPending(program) : ItemKnown(item)
    /\ \A i \in DOMAIN depths :
         \A item \in JumpItems(program, i, depths[i]) \union FallItems(program, i, depths[i])
                       \union HandlerItems(program, i) : ItemKnown(item)

\* A depth was recorded only after it was compared with what is required.
RecordedAreChecked ==
  outcome \in {"analysing", "ok"} =>
    \A i \in DOMAIN depths : depths[i] >= program.required[i]

\* The analysis is right about every execution: each instruction that is
\* executed has a depth, and it is the depth of the machine's stack.
DepthsAreExact == Running => pc \in DOMAIN depths /\ depths[pc] = depth

\* Code that passed never takes more from the stack than there is.
NeverUnderflows == Running => depth >= program.required[pc]

\* Wherever code that has a depth can raise, there is a handler to go on with: one
\* that lies in an inline cache never gets past the analysis.
HandlersExist ==
  Running => \A i \in DOMAIN depths : \A r \in program.regions :
               Covers(r, program.offset[i]) => r.target \in OffsetSet(program)

\* The doc's claim: the analysis covers all reachable code, the resumption of
\* generators included.
ExecutedHasDepth == Running => pc \in DOMAIN depths

\* The analysis ends, in an error or with all depths.
Terminates == <>(outcome # "analysing")
=============================================================================
