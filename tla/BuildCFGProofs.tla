--------------------------- MODULE BuildCFGProofs ---------------------------
(***************************************************************************)
(* The graph build_cfg returns is sound for every program: whatever the    *)
(* virtual machine executes next, the graph has an edge for it, and the    *)
(* block it belongs to is reachable in the graph.  And the regions it is   *)
(* given are those of the table: reading undoes writing.                   *)
(*                                                                         *)
(* The one delicate case of the graph is an exception.  The graph has the  *)
(* edge to the handler when the region covers the start of the block, the  *)
(* machine takes it when the region covers the instruction.  The start of  *)
(* a region is a leader, so no region begins inside a block, and the two   *)
(* agree.                                                                  *)
(*                                                                         *)
(* From the bytes that CPython's assembler writes for a sequence of        *)
(* regions, decode_exception_table reads these regions, and it notices     *)
(* that a table ends inside an entry.  Both hold for offsets and depths of *)
(* any size, so for numbers of any number of bytes.  A recursive           *)
(* definition is used through the equation it stands for (ChunksOf,        *)
(* TableBuilt), which first needs that there is a function with that       *)
(* equation.  What is said of every number, or of every part of a table,   *)
(* is shown by looking at the least one it would fail for.                 *)
(***************************************************************************)
EXTENDS BuildCFG, ExceptionTable, Integers, FiniteSets, SequenceTheorems, FiniteSetTheorems,
        TLAPS

(* The graph.                                                              *)

EdgesOf(p) == FallEdges(p) \union JumpEdges(p) \union ExceptionEdges(p)

\* What Build leaves behind and what execution relies on.
GraphBuilt ==
  /\ outcome = "built" => /\ leaders = Leaders(program)
                          /\ edges = EdgesOf(program)
                          /\ Referenced(program) \subseteq OffsetSet(program)
  /\ outcome # "built" => pc = 1 /\ block = 1 /\ leaders = {} /\ edges = {}

Inv == TypeOK /\ GraphBuilt /\ StaysInBlock /\ RunsOnlyReachable

\* Leaders are instructions, the first one among them, and edges join leaders.
LEMMA LeadersInCode ==
  ASSUME NEW p, IsProgram(p)
  PROVE  /\ 1 \in Leaders(p)
         /\ Leaders(p) \subseteq Instructions(p)
         /\ EdgesOf(p) \subseteq Leaders(p) \X Leaders(p)
<1>1. 1 \in Instructions(p)
  BY DEF IsProgram, Instructions
<1> QED
  BY <1>1 DEF Leaders, EdgesOf, FallEdges, JumpEdges, ExceptionEdges

\* Offsets order the instructions.
LEMMA OffsetsIncrease ==
  ASSUME NEW p, IsProgram(p), NEW i \in Instructions(p), NEW j \in Instructions(p)
  PROVE  /\ i \in Nat /\ j \in Nat
         /\ p.offset[i] \in Nat /\ p.offset[j] \in Nat
         /\ i <= j <=> p.offset[i] <= p.offset[j]
<1>1. i \in Nat /\ j \in Nat /\ p.offset[i] \in Nat /\ p.offset[j] \in Nat
  BY DEF IsProgram, Instructions
<1>2. (i < j => p.offset[i] < p.offset[j]) /\ (j < i => p.offset[j] < p.offset[i])
  BY DEF IsProgram
<1> QED
  BY <1>1, <1>2

\* A leader starts its own block.
LEMMA LeaderInOwnBlock ==
  ASSUME NEW p, IsProgram(p), NEW j \in Leaders(p)
  PROVE  InBlock(p, j, j)
<1>1. j \in Instructions(p) /\ j \in Nat
  BY LeadersInCode DEF Instructions
<1> QED
  BY <1>1 DEF InBlock

\* Falling through stays in the block or follows an edge.
LEMMA FallHasEdge ==
  ASSUME NEW p, IsProgram(p), NEW b, NEW i, InBlock(p, b, i),
         NEW j \in Instructions(p), FallsTo(p, i, j)
  PROVE  /\ j \in Leaders(p) => <<b, j>> \in EdgesOf(p)
         /\ j \notin Leaders(p) => j = i + 1 /\ InBlock(p, b, j)
<1>1. j = i + 1 /\ b \in Leaders(p) /\ i \in Instructions(p) /\ b <= i
  BY DEF FallsTo, InBlock
<1>2. b \in Nat /\ i \in Nat /\ j \in Nat
  BY <1>1, LeadersInCode DEF Instructions
<1>3. ASSUME j \in Leaders(p) PROVE <<b, j>> \in EdgesOf(p)
  <2>1. IsLast(p, b, i)
    BY <1>1, <1>3 DEF IsLast
  <2>2. <<b, j>> \in FallEdges(p)
    BY <1>1, <1>3, <2>1 DEF FallEdges
  <2> QED
    BY <2>2 DEF EdgesOf
<1>4. ASSUME j \notin Leaders(p) PROVE InBlock(p, b, j)
  <2>1. \A k \in b + 1 .. j : k \in b + 1 .. i \/ k = j
    BY <1>1, <1>2
  <2> QED
    BY <1>1, <1>2, <1>4, <2>1 DEF InBlock
<1> QED
  BY <1>1, <1>3, <1>4

\* A jump follows an edge from the end of its block to a leader.
LEMMA JumpHasEdge ==
  ASSUME NEW p, IsProgram(p), NEW b, NEW i, InBlock(p, b, i),
         NEW j \in Instructions(p), JumpsTo(p, i, j)
  PROVE  j \in Leaders(p) /\ <<b, j>> \in EdgesOf(p)
<1>1. i \in Instructions(p) /\ b \in Leaders(p) /\ i \in Nat
  BY DEF InBlock, Instructions
<1>2. HasTarget(p, i) /\ p.offset[j] = p.target[i]
  BY DEF JumpsTo
<1>3. p.target[i] \in Referenced(p)
  BY <1>1, <1>2 DEF Referenced
<1>4. j \in Leaders(p)
  BY <1>2, <1>3 DEF Leaders
<1>5. i + 1 \in Instructions(p) => i + 1 \in Leaders(p)
  <2> SUFFICES ASSUME i + 1 \in Instructions(p) PROVE i + 1 \in Leaders(p)
    OBVIOUS
  <2>1. i + 1 > 1 /\ (i + 1) - 1 = i
    BY <1>1 DEF Instructions
  <2> QED
    BY <1>2, <2>1 DEF Leaders
<1>6. IsLast(p, b, i)
  BY <1>5 DEF IsLast
<1> QED
  BY <1>1, <1>4, <1>6 DEF EdgesOf, JumpEdges

\* A raised exception follows an edge from its block to the handler.
LEMMA RaiseHasEdge ==
  ASSUME NEW p, IsProgram(p), Referenced(p) \subseteq OffsetSet(p),
         NEW b, NEW i, InBlock(p, b, i),
         NEW j \in Instructions(p), RaisesTo(p, i, j)
  PROVE  j \in Leaders(p) /\ <<b, j>> \in EdgesOf(p)
<1>1. i \in Instructions(p) /\ b \in Leaders(p) /\ b \in Instructions(p) /\ b <= i
  BY LeadersInCode DEF InBlock
<1>2. PICK r \in p.regions : Covers(r, p.offset[i]) /\ p.offset[j] = r.target
  BY DEF RaisesTo
<1>3. r.start \in Referenced(p) /\ r.target \in Referenced(p)
  BY DEF Referenced
<1>4. j \in Leaders(p)
  BY <1>2, <1>3 DEF Leaders
<1>5. PICK k \in Instructions(p) : p.offset[k] = r.start
  BY <1>3 DEF OffsetSet
<1>6. k \in Leaders(p)
  BY <1>3, <1>5 DEF Leaders
<1>7. k <= i
  BY <1>1, <1>2, <1>5, OffsetsIncrease DEF Covers
<1>8. k <= b
  <2>1. k \notin b + 1 .. i
    BY <1>6 DEF InBlock
  <2>2. k \in Nat /\ b \in Nat /\ i \in Nat
    BY <1>1 DEF Instructions
  <2> QED
    BY <1>7, <2>1, <2>2
<1>9. Covers(r, p.offset[b])
  <2>1. p.offset[k] <= p.offset[b] /\ p.offset[b] <= p.offset[i]
    BY <1>1, <1>8, OffsetsIncrease
  <2>2. p.offset[b] \in Nat /\ p.offset[i] \in Nat /\ r.end \in Nat
    BY <1>1, OffsetsIncrease DEF IsProgram
  <2> QED
    BY <1>2, <1>5, <2>1, <2>2 DEF Covers
<1> QED
  BY <1>1, <1>2, <1>4, <1>9 DEF EdgesOf, ExceptionEdges

\* Inside a block one instruction is behind the other, and nothing jumps.
LEMMA BlocksGoOn ==
  ASSUME NEW p, IsProgram(p), NEW b, NEW i, InBlock(p, b, i), i # b
  PROVE  /\ i - 1 \in Instructions(p) /\ InBlock(p, b, i - 1)
         /\ p.kind[i - 1] \in {"plain", "generator"}
<1>1. b \in Instructions(p) /\ i \in Instructions(p) /\ b <= i
  BY LeadersInCode DEF InBlock
<1>2. b \in Nat /\ i \in Nat /\ b > 0 /\ b <= i - 1 /\ i - 1 \in Instructions(p) /\ i > 1
  BY <1>1 DEF Instructions
<1>3. InBlock(p, b, i - 1)
  BY <1>2 DEF InBlock
<1>4. i \notin Leaders(p)
  BY <1>2 DEF InBlock
<1>5. ~HasTarget(p, i - 1) /\ p.kind[i - 1] # "stop"
  BY <1>1, <1>2, <1>4 DEF Leaders
<1> QED
  BY <1>2, <1>3, <1>5 DEF HasTarget, IsProgram

\* Together: where an execution step leads.
LEMMA StepFollowsGraph ==
  ASSUME Inv, outcome = "built", Fall \/ Jump \/ Raise
  PROVE  /\ pc' \in Instructions(program)
         /\ UNCHANGED <<program, outcome, leaders, edges>>
         /\ \/ pc' \in leaders /\ block' = pc' /\ <<block, pc'>> \in edges
            \/ pc' \notin leaders /\ block' = block /\ pc' = pc + 1
               /\ InBlock(program, block, pc')
<1>1. /\ IsProgram(program) /\ InBlock(program, block, pc)
      /\ leaders = Leaders(program) /\ edges = EdgesOf(program)
      /\ Referenced(program) \subseteq OffsetSet(program)
  BY DEF Inv, TypeOK, GraphBuilt, StaysInBlock
<1>2. CASE Fall
  <2>1. PICK j \in Instructions(program) : FallsTo(program, pc, j) /\ Goto(j)
    BY <1>2 DEF Fall
  <2> QED
    BY <1>1, <2>1, FallHasEdge DEF Goto
<1>3. CASE Jump
  <2>1. PICK j \in Instructions(program) : JumpsTo(program, pc, j) /\ Goto(j)
    BY <1>3 DEF Jump
  <2> QED
    BY <1>1, <2>1, JumpHasEdge DEF Goto
<1>4. CASE Raise
  <2>1. PICK j \in Instructions(program) : RaisesTo(program, pc, j) /\ Goto(j)
    BY <1>4 DEF Raise
  <2> QED
    BY <1>1, <2>1, RaiseHasEdge DEF Goto
<1> QED
  BY <1>2, <1>3, <1>4

\* Before the graph is built.
Fresh == IsProgram(program) /\ outcome = "building" /\ leaders = {} /\ edges = {}
           /\ pc = 1 /\ block = 1

\* The execution starts in the block of the first instruction.
LEMMA FreshInv == Fresh => Inv
<1>1. Fresh => 1 \in Instructions(program)
  BY LeadersInCode DEF Fresh
<1> QED
  BY <1>1 DEF Fresh, Inv, TypeOK, GraphBuilt, StaysInBlock, RunsOnlyReachable

\* A graph that is built in the middle of a behaviour starts well.
LEMMA StartedInv == Fresh' => Inv'
BY FreshInv, PTL

\* Every behaviour starts so.
LEMMA InitInv == ASSUME ProgramsAssumption PROVE Init => Inv
BY FreshInv DEF Init, ProgramsAssumption, Fresh

\* Building establishes the invariant and every step of the machine keeps it.
LEMMA NextInv == Inv /\ [Next]_vars => Inv'
<1> SUFFICES ASSUME Inv, [Next]_vars PROVE Inv'
  OBVIOUS
<1>1. CASE Refuse
  BY <1>1 DEF Refuse, Inv, TypeOK, GraphBuilt, StaysInBlock, RunsOnlyReachable
<1>2. CASE Build
  <2>1. /\ outcome' = "built" /\ program' = program /\ pc' = 1 /\ block' = 1
        /\ leaders' = Leaders(program) /\ edges' = EdgesOf(program)
        /\ Referenced(program) \subseteq OffsetSet(program)
        /\ IsProgram(program)
    BY <1>2 DEF Build, Inv, TypeOK, GraphBuilt, EdgesOf
  <2>2. TypeOK'
    BY <2>1, LeadersInCode DEF TypeOK
  <2>3. GraphBuilt'
    BY <2>1 DEF GraphBuilt
  <2>4. StaysInBlock'
    BY <2>1, LeadersInCode, LeaderInOwnBlock DEF StaysInBlock
  <2>5. RunsOnlyReachable'
    BY <2>1 DEF RunsOnlyReachable
  <2> QED
    BY <2>2, <2>3, <2>4, <2>5 DEF Inv
<1>3. CASE Fall \/ Jump \/ Raise
  <2>1. outcome = "built"
    BY <1>3 DEF Fall, Jump, Raise
  <2>2. IsProgram(program) /\ leaders = Leaders(program)
    BY <2>1 DEF Inv, TypeOK, GraphBuilt
  <2>3. /\ pc' \in Instructions(program)
        /\ UNCHANGED <<program, outcome, leaders, edges>>
        /\ \/ pc' \in leaders /\ block' = pc' /\ <<block, pc'>> \in edges
           \/ pc' \notin leaders /\ block' = block /\ InBlock(program, block, pc')
    BY <1>3, <2>1, StepFollowsGraph
  <2>4. TypeOK'
    BY <2>3 DEF Inv, TypeOK
  <2>5. GraphBuilt'
    BY <2>1, <2>3 DEF Inv, GraphBuilt
  <2>6. StaysInBlock'
    BY <2>2, <2>3, LeaderInOwnBlock DEF StaysInBlock
  <2>7. RunsOnlyReachable'
    BY <2>1, <2>3 DEF Inv, RunsOnlyReachable
  <2> QED
    BY <2>4, <2>5, <2>6, <2>7 DEF Inv
<1>4. CASE UNCHANGED vars
  BY <1>4 DEF vars, Inv, TypeOK, GraphBuilt, StaysInBlock, RunsOnlyReachable
<1> QED
  BY <1>1, <1>2, <1>3, <1>4 DEF Next

\* The invariant of building and executing.
LEMMA InvHolds == ASSUME ProgramsAssumption PROVE Spec => []Inv
<1>1. Init => Inv
  BY InitInv
<1>2. Inv /\ [Next]_vars => Inv'
  BY NextInv
<1> QED
  BY <1>1, <1>2, PTL DEF Spec

\* Execution enters blocks at their first instruction only.
THEOREM BlocksAreSound == ASSUME ProgramsAssumption PROVE Spec => []StaysInBlock
<1>1. Inv => StaysInBlock
  BY DEF Inv
<1> QED
  BY <1>1, InvHolds, PTL

\* No executed block is classified as dead code.
THEOREM ReachableIsSound == ASSUME ProgramsAssumption PROVE Spec => []RunsOnlyReachable
<1>1. Inv => RunsOnlyReachable
  BY DEF Inv
<1> QED
  BY <1>1, InvHolds, PTL

\* A block's last instruction can take the edges that leave it, and the first one
\* of a protected block raises to its handler.
LEMMA EdgesReal == Inv /\ outcome = "built" => EdgesAreReal
<1> SUFFICES ASSUME Inv, outcome = "built", NEW e \in edges
             PROVE  \E i \in Instructions(program) :
                      /\ InBlock(program, e[1], i)
                      /\ \/ FallsTo(program, i, e[2])
                         \/ JumpsTo(program, i, e[2])
                         \/ RaisesTo(program, i, e[2])
  BY DEF EdgesAreReal
<1>1. IsProgram(program) /\ e \in EdgesOf(program)
  BY DEF Inv, TypeOK, GraphBuilt
<1>2. CASE e \in FallEdges(program) \union JumpEdges(program)
  BY <1>2 DEF FallEdges, JumpEdges, IsLast
<1>3. CASE e \in ExceptionEdges(program)
  <2>1. e[1] \in Leaders(program) /\ RaisesTo(program, e[1], e[2])
    BY <1>3 DEF ExceptionEdges, RaisesTo
  <2>2. InBlock(program, e[1], e[1]) /\ e[1] \in Instructions(program)
    BY <1>1, <2>1, LeaderInOwnBlock, LeadersInCode
  <2> QED
    BY <2>1, <2>2
<1> QED
  BY <1>1, <1>2, <1>3 DEF EdgesOf

\* Every transfer of control between blocks is an edge of the graph.
THEOREM EdgesAreComplete == ASSUME ProgramsAssumption PROVE Spec => StepsAlongEdges
<1> DEFINE Along == outcome = "built" =>
                      \/ <<block, block'>> \in edges /\ pc' = block'
                      \/ block' = block /\ pc' = pc + 1
<1>1. Inv /\ [Next]_vars => [Along]_vars
  <2> SUFFICES ASSUME Inv, Next, outcome = "built" PROVE Along
    OBVIOUS
  <2>1. Fall \/ Jump \/ Raise
    BY DEF Next, Refuse, Build
  <2> QED
    BY <2>1, StepFollowsGraph
<1>2. Spec => [][Along]_vars
  BY <1>1, InvHolds, PTL DEF Spec
<1> QED
  BY <1>2 DEF StepsAlongEdges
-----------------------------------------------------------------------------
(* The exception table.                                                    *)

\* A set of numbers that is not empty has a least element.
LEMMA FirstInstruction ==
  ASSUME NEW S, S \subseteq Nat, S # {}
  PROVE  \E m \in S : \A n \in S : m <= n
<1> DEFINE T == {0 .. n : n \in S}
<1>1. T \in SUBSET FiniteSubsetsOf(Nat) /\ T # {}
  <2>1. \A n \in S : 0 .. n \subseteq Nat /\ IsFiniteSet(0 .. n)
    BY FS_Interval
  <2> QED
    BY <2>1 DEF FiniteSubsetsOf
<1>2. IsWellFoundedOn(StrictSubsetOrdering(Nat), FiniteSubsetsOf(Nat))
  BY FS_StrictSubsetOrderingWellFounded
<1> HIDE DEF T
<1>3. PICK I \in T : \A J \in T : ~(<<J, I>> \in StrictSubsetOrdering(Nat))
  BY <1>1, <1>2, WFMin
<1>4. PICK m \in S : I = 0 .. m
  BY <1>3 DEF T
<1>5. ASSUME NEW n \in S, n < m PROVE FALSE
  <2>1. 0 .. n \in T
    BY DEF T
  <2>2. 0 .. n \subseteq 0 .. m /\ m \notin 0 .. n /\ m \in 0 .. m
    BY <1>5
  <2>3. <<0 .. n, 0 .. m>> \in (SUBSET Nat) \X (SUBSET Nat)
    OBVIOUS
  <2>4. <<0 .. n, 0 .. m>> \in StrictSubsetOrdering(Nat)
    BY <2>2, <2>3 DEF StrictSubsetOrdering
  <2> QED
    BY <1>3, <1>4, <2>1, <2>4
<1> QED
  BY <1>5

\* Dividing by 64 makes a number that takes more than one byte smaller.
LEMMA Shorter ==
  ASSUME NEW n \in Nat, n >= 64
  PROVE  n \div 64 \in Nat /\ n \div 64 < n
OBVIOUS

LEMMA Remainder ==
  ASSUME NEW n \in Nat
  PROVE  n % 64 \in 0 .. 63 /\ n \div 64 \in Nat /\ 64 * (n \div 64) + (n % 64) = n
<1>1. n % 64 \in 0 .. 63
  OBVIOUS
<1>2. n \div 64 \in Nat
  OBVIOUS
<1>3. 64 * (n \div 64) + (n % 64) = n
  OBVIOUS
<1> QED
  BY <1>1, <1>2, <1>3

Digits(g, n) == IF n < 64 THEN <<n>> ELSE Append(g[n \div 64], n % 64)
AreDigits(g, k) == \A n \in 0 .. k : g[n] = Digits(g, n)

\* Functions that the recursive definition gives up to some number agree there,
\* and there is one for every number.
LEMMA PartialDigits ==
  ASSUME NEW k \in Nat
  PROVE  \E g : \A n \in 0 .. k : g[n] = Digits(g, n)
<1> DEFINE S == {n \in Nat : ~\E g : \A m \in 0 .. n : g[m] = Digits(g, m)}
<1> SUFFICES ASSUME S # {} PROVE FALSE
  OBVIOUS
<1>1. PICK m \in S : \A n \in S : m <= n
  <2>1. S \subseteq Nat
    OBVIOUS
  <2> HIDE DEF S
  <2> QED
    BY <2>1, FirstInstruction
<1>2. CASE m = 0
  <2> DEFINE g == [n \in 0 .. 0 |-> <<n>>]
  <2>1. \A n \in 0 .. 0 : g[n] = Digits(g, n)
    BY DEF Digits
  <2> QED
    BY <1>1, <1>2, <2>1
<1>3. CASE m # 0
  <2>1. m - 1 \in Nat /\ m - 1 \notin S
    BY <1>1, <1>3
  <2>2. PICK h : \A n \in 0 .. m - 1 : h[n] = Digits(h, n)
    BY <2>1
  <2> DEFINE g == [n \in 0 .. m |-> Digits(h, n)]
  <2>3. \A n \in 0 .. m - 1 : g[n] = h[n]
    BY <2>1, <2>2
  <2>4. \A n \in 0 .. m : Digits(g, n) = Digits(h, n)
    <3> SUFFICES ASSUME NEW n \in 0 .. m PROVE Digits(g, n) = Digits(h, n)
      OBVIOUS
    <3>1. n < 64 \/ n \div 64 \in 0 .. m - 1
      BY <2>1, Shorter
    <3> HIDE DEF g
    <3> QED
      BY <2>3, <3>1 DEF Digits
  <2>5. \A n \in 0 .. m : g[n] = Digits(g, n)
    BY <2>4
  <2> QED
    BY <1>1, <2>5
<1> QED
  BY <1>2, <1>3

LEMMA DigitsAgree ==
  \A k, l, n \in Nat : \A g, h :
    AreDigits(g, k) /\ AreDigits(h, l) /\ n <= k /\ n <= l => g[n] = h[n]
<1> SUFFICES ASSUME NEW k \in Nat, NEW l \in Nat, NEW n \in Nat, NEW g, NEW h,
                    AreDigits(g, k), AreDigits(h, l), n <= k, n <= l
             PROVE  g[n] = h[n]
  OBVIOUS
<1> DEFINE S == {m \in Nat : m <= k /\ m <= l /\ g[m] # h[m]}
<1> SUFFICES ASSUME S # {} PROVE FALSE
  OBVIOUS
<1>1. PICK m \in S : \A o \in S : m <= o
  <2>1. S \subseteq Nat
    OBVIOUS
  <2> HIDE DEF S
  <2> QED
    BY <2>1, FirstInstruction
<1>2. m \in Nat /\ m <= k /\ m <= l /\ g[m] # h[m]
  OBVIOUS
<1>3. g[m] = Digits(g, m) /\ h[m] = Digits(h, m)
  BY <1>2 DEF AreDigits, Digits
<1>4. m >= 64 => g[m \div 64] = h[m \div 64]
  BY <1>1, <1>2, Shorter
<1> QED
  BY <1>2, <1>3, <1>4 DEF Digits

\* The recursive definition defines the bytes of every number.
LEMMA ChunksOf ==
  ASSUME NEW n \in Nat
  PROVE  Chunks[n] = IF n < 64 THEN <<n>> ELSE Append(Chunks[n \div 64], n % 64)
<1> DEFINE Upto(k) == CHOOSE g : \A m \in 0 .. k : g[m] = Digits(g, m)
           F == [k \in Nat |-> Upto(k)[k]]
<1>1. \A k \in Nat : \A m \in 0 .. k : Upto(k)[m] = Digits(Upto(k), m)
  <2> SUFFICES ASSUME NEW k \in Nat PROVE \A m \in 0 .. k : Upto(k)[m] = Digits(Upto(k), m)
    OBVIOUS
  <2>1. \E g : \A m \in 0 .. k : g[m] = Digits(g, m)
    BY PartialDigits
  <2> QED
    BY <2>1, Zenon
<1> HIDE DEF Upto
<1>2. \A k \in Nat : F[k] = Digits(F, k)
  <2> SUFFICES ASSUME NEW k \in Nat PROVE F[k] = Digits(F, k)
    OBVIOUS
  <2>1. F[k] = Digits(Upto(k), k)
    BY <1>1
  <2>2. k >= 64 => Upto(k)[k \div 64] = Upto(k \div 64)[k \div 64]
    <3> SUFFICES ASSUME k >= 64 PROVE Upto(k)[k \div 64] = Upto(k \div 64)[k \div 64]
      OBVIOUS
    <3> DEFINE q == k \div 64
    <3>1. q \in Nat /\ q <= k /\ q <= q
      BY Shorter
    <3> HIDE DEF q
    <3> DEFINE g == Upto(k)
               h == Upto(q)
    <3>2. AreDigits(g, k) /\ AreDigits(h, q)
      BY <1>1, <3>1 DEF AreDigits, Digits
    <3> HIDE DEF g, h
    <3>3. g[q] = h[q]
      BY <3>1, <3>2, DigitsAgree
    <3> QED
      BY <3>3 DEF g, h, q
  <2>3. k >= 64 => F[k \div 64] = Upto(k)[k \div 64]
    BY <2>2, Shorter
  <2> HIDE DEF F
  <2> QED
    BY <2>1, <2>3 DEF Digits
<1>3. F = [k \in Nat |-> IF k < 64 THEN <<k>> ELSE Append(F[k \div 64], k % 64)]
  <2>1. F = [k \in Nat |-> F[k]]
    OBVIOUS
  <2> HIDE DEF F
  <2>2. [k \in Nat |-> F[k]] = [k \in Nat |-> Digits(F, k)]
    BY <1>2, Zenon
  <2> QED
    BY <2>1, <2>2, Zenon DEF Digits
<1> HIDE DEF F
<1>4. Chunks = [k \in Nat |-> IF k < 64 THEN <<k>> ELSE Append(Chunks[k \div 64], k % 64)]
  BY <1>3, Zenon DEF Chunks
<1> QED
  BY <1>4, Zenon

\* Behind a number, and within one.
After(e, ns, v)  == [entries |-> e, numbers |-> ns, value |-> v, inside |-> FALSE]
Within(e, ns, v) == [entries |-> e, numbers |-> ns, value |-> v, inside |-> TRUE]

LEMMA ChunksShort == \A n \in Nat : n < 64 => Chunks[n] = <<n>>
BY ChunksOf, Zenon

LEMMA ChunksLong ==
  ASSUME NEW n \in Nat, n >= 64
  PROVE  Chunks[n] = Append(Chunks[n \div 64], n % 64)
<1>1. Chunks[n] = IF n < 64 THEN <<n>> ELSE Append(Chunks[n \div 64], n % 64)
  BY ChunksOf
<1>2. ~(n < 64)
  OBVIOUS
<1> QED
  BY <1>1, <1>2, Zenon

LEMMA AppendShape ==
  ASSUME NEW S, NEW s \in Seq(S), NEW x \in S
  PROVE  /\ Append(s, x) \in Seq(S) /\ Len(s) \in Nat /\ Len(Append(s, x)) = Len(s) + 1
         /\ \A i \in 1 .. Len(s) : Append(s, x)[i] = s[i]
         /\ Append(s, x)[Len(s) + 1] = x
OBVIOUS

LEMMA ChunksTyped ==
  ASSUME NEW n \in Nat
  PROVE  Chunks[n] \in Seq(0 .. 63) /\ Len(Chunks[n]) \in Nat \ {0}
<1> DEFINE Good(m) == Chunks[m] \in Seq(0 .. 63) /\ Len(Chunks[m]) \in Nat \ {0}
           S == {m \in Nat : ~Good(m)}
<1> SUFFICES ASSUME S # {} PROVE FALSE
  OBVIOUS
<1>1. PICK m \in S : \A o \in S : m <= o
  <2>1. S \subseteq Nat
    OBVIOUS
  <2> HIDE DEF S
  <2> QED
    BY <2>1, FirstInstruction
<1>2. m \in Nat /\ ~Good(m)
  OBVIOUS
<1>3. ASSUME m < 64 PROVE Good(m)
  <2>1. Chunks[m] = <<m>>
    BY <1>2, <1>3, ChunksShort
  <2> DEFINE T == 0 .. 63
  <2>2. m \in T
    BY <1>2, <1>3
  <2> HIDE DEF T
  <2>3. <<m>> \in Seq(T) /\ Len(<<m>>) = 1
    BY <2>2
  <2> QED
    BY <2>1, <2>3 DEF T
<1>4. ASSUME m >= 64 PROVE Good(m)
  <2>1. m \div 64 \in Nat /\ m \div 64 < m /\ m % 64 \in 0 .. 63
    BY <1>2, <1>4, Shorter, Remainder
  <2>2. Good(m \div 64)
    BY <1>1, <2>1
  <2> DEFINE T == 0 .. 63
             front == Chunks[m \div 64]
             last  == m % 64
  <2>4. front \in Seq(T) /\ last \in T /\ Chunks[m] = Append(front, last)
    BY <1>2, <1>4, <2>1, <2>2, ChunksLong
  <2> HIDE DEF T, front, last
  <2>5. Append(front, last) \in Seq(T) /\ Len(Append(front, last)) \in Nat \ {0}
    <3>1. /\ Append(front, last) \in Seq(T) /\ Len(front) \in Nat
          /\ Len(Append(front, last)) = Len(front) + 1
      BY <2>4, AppendShape
    <3> QED
      BY <3>1
  <2> QED
    BY <2>4, <2>5 DEF T
<1> QED
  BY <1>2, <1>3, <1>4

Digit == 0 .. 63
Flags == {0, 128}

\* What the six bits and the flags of a byte say.
LEMMA LastBits ==
  ASSUME NEW x \in 0 .. 63, NEW c \in {0, 128}
  PROVE  Low6(x + c) = x /\ ~Continues(x + c)
<1>1. x % 64 = x /\ (x + 128) % 64 = x
  OBVIOUS
<1>2. x \div 64 = 0 /\ (x + 128) \div 64 = 2
  OBVIOUS
<1>3. 0 % 2 = 0 /\ 2 % 2 = 0 /\ x + 0 = x
  OBVIOUS
<1>4. c = 0 \/ c = 128
  OBVIOUS
<1> QED
  BY <1>1, <1>2, <1>3, <1>4 DEF Low6, Continues

LEMMA LeadingBits ==
  ASSUME NEW x \in 0 .. 63, NEW c \in {0, 128}
  PROVE  Low6((x + 64) + c) = x /\ Continues((x + 64) + c)
<1>1. (x + 64) % 64 = x /\ ((x + 64) + 128) % 64 = x
  OBVIOUS
<1>2. (x + 64) \div 64 = 1 /\ ((x + 64) + 128) \div 64 = 3
  OBVIOUS
<1>3. 1 % 2 = 1 /\ 3 % 2 = 1 /\ (x + 64) + 0 = x + 64
  OBVIOUS
<1>4. c = 0 \/ c = 128
  OBVIOUS
<1> QED
  BY <1>1, <1>2, <1>3, <1>4 DEF Low6, Continues

State(e, ns, v, b) == [entries |-> e, numbers |-> ns, value |-> v, inside |-> b]

WithValue(s, w, d)   == [s EXCEPT !.value = w, !.inside = d]
WithNumbers(s, w, d) == [s EXCEPT !.numbers = w, !.inside = d]
WithEntries(s, w)    == [s EXCEPT !.entries = w]

LEMMA Updates ==
  ASSUME NEW e, NEW ns, NEW v, NEW b, NEW w, NEW d
  PROVE  /\ WithValue(State(e, ns, v, b), w, d) = State(e, ns, w, d)
         /\ WithNumbers(State(e, ns, v, b), w, d) = State(e, w, v, d)
<1> DEFINE s == State(e, ns, v, b)
           valued   == State(e, ns, w, b)
           numbered == State(e, w, v, b)
<1>1. [s EXCEPT !.value = w] = valued /\ [s EXCEPT !.numbers = w] = numbered
  BY DEF State
<1>2. /\ [valued EXCEPT !.inside = d] = State(e, ns, w, d)
      /\ [numbered EXCEPT !.inside = d] = State(e, w, v, d)
  BY DEF State
<1> HIDE DEF s, valued, numbered
<1>4. /\ [s EXCEPT !.value = w, !.inside = d] = [[s EXCEPT !.value = w] EXCEPT !.inside = d]
      /\ [s EXCEPT !.numbers = w, !.inside = d] = [[s EXCEPT !.numbers = w] EXCEPT !.inside = d]
  OBVIOUS
<1>5. /\ [s EXCEPT !.value = w, !.inside = d] = State(e, ns, w, d)
      /\ [s EXCEPT !.numbers = w, !.inside = d] = State(e, w, v, d)
  BY <1>1, <1>2, <1>4
<1> QED
  BY <1>5 DEF s, WithValue, WithNumbers

LEMMA UpdateEntries ==
  ASSUME NEW e, NEW ns, NEW v, NEW b, NEW w
  PROVE  WithEntries(State(e, ns, v, b), w) = State(w, ns, v, b)
BY DEF State, WithEntries

\* A byte of six bits that more follow, the last one of a number, and the
\* number with six more bits.
MoreByte(x, c) == (x + 64) + c
LastByte(x, c) == x + c
Joined(v, x)   == 64 * v + x

\* The first byte of a number that has more.
LEMMA FirstOfMany ==
  \A e, ns : \A v \in Nat : \A x \in 0 .. 63 : \A c \in {0, 128} :
    ReadByte(After(e, ns, v), MoreByte(x, c)) = Within(e, ns, x)
<1> SUFFICES ASSUME NEW e, NEW ns, NEW v \in Nat, NEW x \in 0 .. 63, NEW c \in {0, 128}
             PROVE  ReadByte(After(e, ns, v), (x + 64) + c) = Within(e, ns, x)
  BY DEF MoreByte
<1> DEFINE byte == (x + 64) + c
           read == After(e, ns, v)
           yes  == TRUE
           no   == FALSE
<1>1. Continues(byte) /\ Low6(byte) = x
  BY LeadingBits
<1>2. 64 * (IF read.inside THEN read.value ELSE 0) + Low6(byte) = x
  BY <1>1 DEF After
<1>3. read = State(e, ns, v, no)
  BY DEF After, State
<1> HIDE DEF byte, read, yes, no
<1>4. WithValue(read, x, yes) = State(e, ns, x, yes)
  BY <1>3, Updates
<1>5. ReadByte(read, byte)
        = WithValue(read, 64 * (IF read.inside THEN read.value ELSE 0) + Low6(byte), yes)
  BY <1>1 DEF ReadByte, WithValue, yes
<1>6. ReadByte(read, byte) = State(e, ns, x, yes)
  BY <1>2, <1>4, <1>5
<1> QED
  BY <1>6 DEF byte, read, yes, State, Within

\* A byte in its middle.
LEMMA NextOfMany ==
  \A e, ns : \A v \in Nat : \A x \in 0 .. 63 :
    ReadByte(Within(e, ns, v), MoreByte(x, 0)) = Within(e, ns, Joined(v, x))
<1> SUFFICES ASSUME NEW e, NEW ns, NEW v \in Nat, NEW x \in 0 .. 63
             PROVE  ReadByte(Within(e, ns, v), (x + 64) + 0) = Within(e, ns, 64 * v + x)
  BY DEF MoreByte, Joined
<1> DEFINE byte == (x + 64) + 0
           read == Within(e, ns, v)
           yes  == TRUE
           n    == 64 * v + x
<1>1. Continues(byte) /\ Low6(byte) = x
  BY LeadingBits
<1>2. 64 * (IF read.inside THEN read.value ELSE 0) + Low6(byte) = n
  BY <1>1 DEF Within
<1>3. read = State(e, ns, v, yes)
  BY DEF Within, State
<1> HIDE DEF byte, read, yes, n
<1>4. WithValue(read, n, yes) = State(e, ns, n, yes)
  BY <1>3, Updates
<1>5. ReadByte(read, byte)
        = WithValue(read, 64 * (IF read.inside THEN read.value ELSE 0) + Low6(byte), yes)
  BY <1>1 DEF ReadByte, WithValue, yes
<1>6. ReadByte(read, byte) = State(e, ns, n, yes)
  BY <1>2, <1>4, <1>5
<1> QED
  BY <1>6 DEF byte, read, yes, n, State, Within

\* What has been read when a number n is complete.
Filled(e, ns, n, v) == IF Len(ns) < 3 THEN After(e, Append(ns, n), v)
                       ELSE After(Append(e, RegionOf(Append(ns, n))), <<>>, 0)

\* The number that is read when a byte with these bits comes.
ValueRead(read, x) == 64 * (IF read.inside THEN read.value ELSE 0) + x

\* The last byte of a number.
LEMMA LastOfNumber ==
  \A e : \A ns \in Seq(Nat) : \A v \in Nat : \A b : \A x \in Digit : \A c \in Flags :
    ReadByte(State(e, ns, v, b), LastByte(x, c))
      = Filled(e, ns, ValueRead(State(e, ns, v, b), x), v)
<1> SUFFICES ASSUME NEW e, NEW ns \in Seq(Nat), NEW v \in Nat, NEW b, NEW x \in Digit,
                    NEW c \in Flags
             PROVE  ReadByte(State(e, ns, v, b), LastByte(x, c))
                      = Filled(e, ns, ValueRead(State(e, ns, v, b), x), v)
  OBVIOUS
<1> DEFINE read == State(e, ns, v, b)
           byte == LastByte(x, c)
           n    == ValueRead(read, x)
           full == Append(ns, n)
           no   == FALSE
           none == <<>>
           zero == 0
           more == Append(e, RegionOf(full))
           few   == Len(ns) < 3
           short == Len(full) < 4
<1>1. ~Continues(byte) /\ Low6(byte) = x
  BY LastBits DEF LastByte, Digit, Flags
<1>2. read.numbers = ns /\ read.entries = e
  BY DEF State
<1>3. NothingRead = State(none, none, zero, no)
  BY DEF State, NothingRead
<1>4. few <=> short
  <2> DEFINE k == Len(ns)
             l == Len(full)
  <2>1. l = k + 1 /\ k \in Nat
    <3> HIDE DEF n
    <3> QED
      OBVIOUS
  <2> HIDE DEF k, l, full
  <2>2. k < 3 <=> l < 4
    BY ONLY <2>1
  <2> QED
    BY <2>2 DEF k, l
<1> HIDE DEF byte, no, more, none, zero, full, few, short
<1>5. /\ WithNumbers(read, full, no) = State(e, full, v, no)
      /\ WithEntries(NothingRead, more) = State(more, none, zero, no)
  <2>1. WithNumbers(State(e, ns, v, b), full, no) = State(e, full, v, no)
    BY ONLY Updates
  <2>2. WithEntries(State(none, none, zero, no), more) = State(more, none, zero, no)
    BY ONLY UpdateEntries
  <2> QED
    BY <1>3, <2>1, <2>2, Zenon
<1> HIDE DEF read
<1>6. Append(read.numbers, 64 * (IF read.inside THEN read.value ELSE 0) + Low6(byte)) = full
  BY <1>1, <1>2, Zenon DEF full, ValueRead
<1>7. ReadByte(read, byte)
        = IF Len(full) < 4 THEN WithNumbers(read, full, no)
          ELSE WithEntries(NothingRead, Append(read.entries, RegionOf(full)))
  BY <1>1, <1>6, Zenon DEF ReadByte, WithNumbers, WithEntries, no
<1>8. Append(read.entries, RegionOf(full)) = more
  BY <1>2, Zenon DEF more
<1>9. ReadByte(read, byte) = IF few THEN State(e, full, v, no)
                                     ELSE State(more, none, zero, no)
  BY <1>4, <1>5, <1>7, <1>8, Zenon DEF short
<1>10. State(e, full, v, no) = After(e, full, v) /\ State(more, none, zero, no) = After(more, none, zero)
  BY Zenon DEF State, After, no
<1>11. ReadByte(read, byte) = IF few THEN After(e, full, v) ELSE After(more, none, zero)
  BY <1>9, <1>10, Zenon
<1> QED
  BY <1>11, Zenon DEF Filled, few, full, more, none, zero, read, byte

\* The bytes bs lead from what s has read to what t has, and the table does not end between them.
IsTrace(f, s, bs) == f[0] = s /\ \A k \in 1 .. Len(bs) : f[k] = ReadByte(f[k - 1], bs[k])
Reads(s, bs, t) ==
  \E f : /\ IsTrace(f, s, bs) /\ f[Len(bs)] = t
         /\ \A k \in 1 .. Len(bs) - 1 : Truncated(f[k])

LEMMA OneByte ==
  ASSUME NEW s, NEW x \in Nat, NEW t, ReadByte(s, x) = t
  PROVE  Reads(s, <<x>>, t)
<1> DEFINE bs == <<x>>
           f == [k \in 0 .. 1 |-> IF k = 0 THEN s ELSE t]
<1>1. Len(bs) = 1 /\ bs[1] = x
  OBVIOUS
<1>2. f[0] = s /\ f[1] = t
  OBVIOUS
<1> HIDE DEF bs, f
<1>3. IsTrace(f, s, bs)
  BY <1>1, <1>2 DEF IsTrace
<1>4. f[Len(bs)] = t /\ \A k \in 1 .. Len(bs) - 1 : Truncated(f[k])
  BY <1>1, <1>2
<1>5. Reads(s, bs, t)
  BY <1>3, <1>4 DEF Reads
<1> QED
  BY <1>5 DEF bs

LEMMA ReadsOn ==
  ASSUME NEW s, NEW t, NEW u, NEW a \in Seq(Nat), NEW b \in Seq(Nat), a # <<>>, b # <<>>,
         Reads(s, a, t), Reads(t, b, u), Truncated(t)
  PROVE  Reads(s, a \o b, u)
<1> DEFINE m == Len(a)
           n == Len(b)
           c == a \o b
<1>1. m \in Nat \ {0} /\ n \in Nat \ {0}
  BY EmptySeq
<1>2. /\ Len(c) = m + n
      /\ \A i \in 1 .. m : c[i] = a[i]
      /\ \A i \in m + 1 .. m + n : c[i] = b[i - m]
  BY <1>1
<1>3. PICK f : /\ IsTrace(f, s, a) /\ f[m] = t
               /\ \A k \in 1 .. m - 1 : Truncated(f[k])
  BY DEF Reads
<1>4. PICK g : /\ IsTrace(g, t, b) /\ g[n] = u
               /\ \A k \in 1 .. n - 1 : Truncated(g[k])
  BY DEF Reads
<1> DEFINE h == [k \in 0 .. m + n |-> IF k <= m THEN f[k] ELSE g[k - m]]
<1>5. /\ \A k \in 0 .. m : h[k] = f[k]
      /\ \A k \in m + 1 .. m + n : h[k] = g[k - m]
  BY <1>1
<1>6. h[m] = t /\ g[0] = t /\ f[0] = s
  BY <1>1, <1>3, <1>4, <1>5 DEF IsTrace
<1> HIDE DEF m, n, c, h
<1>7. \A k \in 1 .. m + n : h[k] = ReadByte(h[k - 1], c[k])
  <2> SUFFICES ASSUME NEW k \in 1 .. m + n PROVE h[k] = ReadByte(h[k - 1], c[k])
    OBVIOUS
  <2>1. CASE k <= m
    <3>1. k \in 1 .. m /\ k - 1 \in 0 .. m /\ k \in 0 .. m
      BY <1>1, <2>1
    <3>2. h[k] = f[k] /\ h[k - 1] = f[k - 1] /\ c[k] = a[k]
      BY <3>1, <1>2, <1>5
    <3>3. f[k] = ReadByte(f[k - 1], a[k])
      BY <3>1, <1>3 DEF IsTrace, m
    <3> QED
      BY <3>2, <3>3, Zenon
  <2>2. CASE k = m + 1
    <3>1. k \in m + 1 .. m + n /\ k - m = 1 /\ k - 1 = m /\ 1 \in 1 .. n
      BY <1>1, <2>2
    <3>2. h[k] = g[1] /\ h[k - 1] = g[0] /\ c[k] = b[1]
      BY <3>1, <1>2, <1>5, <1>6
    <3>3. g[1] = ReadByte(g[1 - 1], b[1])
      BY <3>1, <1>4 DEF IsTrace, n
    <3>4. 1 - 1 = 0
      OBVIOUS
    <3> QED
      BY <3>2, <3>3, <3>4, Zenon
  <2>3. CASE k > m + 1
    <3> DEFINE i == k - m
    <3>1. /\ k \in m + 1 .. m + n /\ k - 1 \in m + 1 .. m + n /\ i \in 1 .. n
          /\ (k - 1) - m = i - 1
      BY <1>1, <2>3
    <3>2. h[k] = g[i] /\ h[k - 1] = g[(k - 1) - m] /\ c[k] = b[i]
      BY <3>1, <1>2, <1>5
    <3>3. g[i] = ReadByte(g[i - 1], b[i])
      BY <3>1, <1>4 DEF IsTrace, n
    <3> HIDE DEF i
    <3> QED
      BY <3>1, <3>2, <3>3, Zenon
  <2> QED
    BY <1>1, <2>1, <2>2, <2>3
<1>8. IsTrace(h, s, c)
  BY <1>1, <1>2, <1>5, <1>6, <1>7 DEF IsTrace
<1>9. h[Len(c)] = u
  <2>1. m + n \in m + 1 .. m + n /\ (m + n) - m = n
    BY <1>1
  <2> QED
    BY <1>2, <1>4, <1>5, <2>1
<1>10. \A k \in 1 .. Len(c) - 1 : Truncated(h[k])
  <2> SUFFICES ASSUME NEW k \in 1 .. (m + n) - 1 PROVE Truncated(h[k])
    BY <1>2
  <2>1. CASE k < m
    <3>1. k \in 1 .. m - 1 /\ k \in 0 .. m
      BY <1>1, <2>1
    <3> QED
      BY <1>3, <1>5, <3>1, Zenon
  <2>2. CASE k = m
    BY <1>6, <2>2
  <2>3. CASE k > m
    <3>1. k \in m + 1 .. m + n /\ k - m \in 1 .. n - 1
      BY <1>1, <2>3
    <3> QED
      BY <1>4, <1>5, <3>1
  <2> QED
    BY <1>1, <2>1, <2>2, <2>3
<1>11. Reads(s, c, u)
  BY <1>8, <1>9, <1>10 DEF Reads
<1> QED
  BY <1>11 DEF c

\* The bytes of digits that more follow, with the flag of an entry's first byte
\* or without, and the bytes of a whole number.
Flag(k, c)    == IF k = 1 THEN c ELSE 0
Leading(s, c) == [k \in 1 .. Len(s) |-> (s[k] + 64) + Flag(k, c)]
Marked(s, c)  == [k \in 1 .. Len(s) |-> (s[k] + (IF k < Len(s) THEN 64 ELSE 0)) + Flag(k, c)]

LEMMA JoinLast ==
  ASSUME NEW a \in Seq(Nat), NEW z \in Seq(Nat), Len(z) = Len(a) + 1,
         \A k \in 1 .. Len(a) : z[k] = a[k]
  PROVE  z = a \o <<z[Len(a) + 1]>>
<1> DEFINE l == Len(a)
           x == z[l + 1]
           y == a \o <<x>>
<1>1. l \in Nat /\ x \in Nat
  BY ElementOfSeq
<1>2. /\ y \in Seq(Nat) /\ Len(y) = l + 1
      /\ \A k \in 1 .. l : y[k] = a[k]
      /\ y[l + 1] = x
  BY <1>1
<1> HIDE DEF y
<1>3. Len(z) = Len(y) /\ \A k \in 1 .. Len(z) : z[k] = y[k]
  <2>1. Len(z) = l + 1 /\ \A k \in 1 .. l : z[k] = a[k]
    OBVIOUS
  <2> HIDE DEF l
  <2>2. \A k \in 1 .. l + 1 : k \in 1 .. l \/ k = l + 1
    BY <1>1
  <2>3. \A k \in 1 .. l + 1 : z[k] = y[k]
    BY <1>2, <2>1, <2>2 DEF x
  <2> QED
    BY <1>2, <2>1, <2>3
<1>4. z = y
  BY <1>2, <1>3, SeqEqual
<1> QED
  BY <1>4 DEF y

\* What is known of the bytes of some digits.
IsShaped(s, c) ==
  /\ Leading(s, c) \in Seq(Nat) /\ Len(Leading(s, c)) = Len(s)
  /\ Marked(s, c) \in Seq(Nat) /\ Len(Marked(s, c)) = Len(s)
  /\ \A k \in 1 .. Len(s) :
       /\ Leading(s, c)[k] = (s[k] + 64) + Flag(k, c)
       /\ k < Len(s) => Marked(s, c)[k] = (s[k] + 64) + Flag(k, c)
       /\ k = Len(s) => Marked(s, c)[k] = s[k] + Flag(k, c)

LEMMA Shapes ==
  \A s \in Seq(Digit) : \A c \in Flags : IsShaped(s, c)
<1> SUFFICES ASSUME NEW s \in Seq(Digit), NEW c \in Flags PROVE IsShaped(s, c)
  OBVIOUS
<1> DEFINE l == Len(s)
<1>1. l \in Nat /\ \A k \in 1 .. l : s[k] \in Digit
  BY ElementOfSeq
<1>2. \A k \in 1 .. l : s[k] \in Nat /\ Flag(k, c) \in Nat
  <2>1. \A d \in Digit : d \in Nat
    BY DEF Digit
  <2>2. \A k : Flag(k, c) \in Nat
    BY DEF Flag, Flags
  <2> QED
    BY <1>1, <2>1, <2>2
<1> HIDE DEF l
<1>3. /\ \A k \in 1 .. l : (s[k] + 64) + Flag(k, c) \in Nat
      /\ \A k \in 1 .. l : (s[k] + (IF k < l THEN 64 ELSE 0)) + Flag(k, c) \in Nat
  BY <1>2
<1>4. /\ Leading(s, c) = [k \in 1 .. l |-> (s[k] + 64) + Flag(k, c)]
      /\ Marked(s, c) = [k \in 1 .. l |-> (s[k] + (IF k < l THEN 64 ELSE 0)) + Flag(k, c)]
  BY Zenon DEF Leading, Marked, l
<1> DEFINE a == Leading(s, c)
           z == Marked(s, c)
<1>5. a \in [1 .. l -> Nat] /\ z \in [1 .. l -> Nat]
  BY <1>3, <1>4
<1>6. \A k \in 1 .. l : /\ a[k] = (s[k] + 64) + Flag(k, c)
                        /\ k < l => z[k] = (s[k] + 64) + Flag(k, c)
                        /\ k = l => z[k] = s[k] + Flag(k, c)
  <2>1. \A k \in 1 .. l : a[k] = (s[k] + 64) + Flag(k, c)
    BY <1>4
  <2>2. \A k \in 1 .. l : z[k] = (s[k] + (IF k < l THEN 64 ELSE 0)) + Flag(k, c)
    BY <1>4
  <2> HIDE DEF a, z
  <2> QED
    BY <1>1, <1>2, <2>1, <2>2 DEF l
<1> HIDE DEF a, z
<1>7. a \in Seq(Nat) /\ Len(a) = l /\ z \in Seq(Nat) /\ Len(z) = l
  BY <1>1, <1>5
<1> QED
  BY <1>6, <1>7 DEF a, z, l, IsShaped

LEMMA DigitAppended ==
  ASSUME NEW s \in Seq(Digit), Len(s) > 0, NEW x \in Digit, NEW c \in Flags
  PROVE  /\ Leading(Append(s, x), c) = Leading(s, c) \o <<MoreByte(x, 0)>>
         /\ Marked(Append(s, x), c) = Leading(s, c) \o <<LastByte(x, 0)>>
<1> DEFINE l == Len(s)
           t == Append(s, x)
           a == Leading(s, c)
<1>1. l \in Nat \ {0}
  OBVIOUS
<1>2. t \in Seq(Digit) /\ Len(t) = l + 1 /\ t[l + 1] = x /\ \A i \in 1 .. l : t[i] = s[i]
  BY <1>1, AppendShape
<1> HIDE DEF l, t
<1>4. /\ a \in Seq(Nat) /\ Len(a) = l
      /\ \A k \in 1 .. l : a[k] = (s[k] + 64) + Flag(k, c)
  <2>1. IsShaped(s, c)
    BY Shapes
  <2> QED
    BY <2>1, Zenon DEF l, IsShaped
<1>3. IsShaped(t, c)
  BY <1>2, Shapes
<1>5. /\ Leading(t, c) \in Seq(Nat) /\ Len(Leading(t, c)) = l + 1
      /\ Marked(t, c) \in Seq(Nat) /\ Len(Marked(t, c)) = l + 1
      /\ \A k \in 1 .. l + 1 :
           /\ Leading(t, c)[k] = (t[k] + 64) + Flag(k, c)
           /\ k < l + 1 => Marked(t, c)[k] = (t[k] + 64) + Flag(k, c)
           /\ k = l + 1 => Marked(t, c)[k] = t[k] + Flag(k, c)
  BY <1>2, <1>3 DEF IsShaped
<1>6. Flag(l + 1, c) = 0 /\ l + 1 \in 1 .. l + 1
  BY <1>1 DEF Flag
<1>7. \A k \in 1 .. l : k \in 1 .. l + 1 /\ k < l + 1 /\ t[k] = s[k]
  BY <1>1, <1>2
<1> HIDE DEF a
<1>8. \A k \in 1 .. l : Leading(t, c)[k] = a[k] /\ Marked(t, c)[k] = a[k]
  <2> SUFFICES ASSUME NEW k \in 1 .. l
               PROVE  Leading(t, c)[k] = a[k] /\ Marked(t, c)[k] = a[k]
    OBVIOUS
  <2>1. Leading(t, c)[k] = (t[k] + 64) + Flag(k, c) /\ Marked(t, c)[k] = (t[k] + 64) + Flag(k, c)
    BY <1>5, <1>7
  <2>2. a[k] = (s[k] + 64) + Flag(k, c) /\ t[k] = s[k]
    BY <1>4, <1>7
  <2> QED
    BY <2>1, <2>2, Zenon
<1>9. Leading(t, c)[l + 1] = (x + 64) + 0 /\ Marked(t, c)[l + 1] = x + 0
  <2>1. l + 1 \in 1 .. l + 1 /\ l + 1 = l + 1
    BY <1>1
  <2>2. /\ Leading(t, c)[l + 1] = (t[l + 1] + 64) + Flag(l + 1, c)
        /\ Marked(t, c)[l + 1] = t[l + 1] + Flag(l + 1, c)
    BY <1>5, <2>1
  <2> QED
    BY <1>2, <1>6, <2>2, Zenon
<1>10. Leading(t, c) = a \o <<Leading(t, c)[l + 1]>> /\ Marked(t, c) = a \o <<Marked(t, c)[l + 1]>>
  <2> DEFINE y == Leading(t, c)
             z == Marked(t, c)
  <2>1. y \in Seq(Nat) /\ Len(y) = Len(a) + 1 /\ \A k \in 1 .. Len(a) : y[k] = a[k]
    BY <1>4, <1>5, <1>8
  <2>2. z \in Seq(Nat) /\ Len(z) = Len(a) + 1 /\ \A k \in 1 .. Len(a) : z[k] = a[k]
    BY <1>4, <1>5, <1>8
  <2> HIDE DEF y, z
  <2>3. y = a \o <<y[Len(a) + 1]>>
    BY <1>4, <2>1, JoinLast
  <2>4. z = a \o <<z[Len(a) + 1]>>
    BY <1>4, <2>2, JoinLast
  <2> QED
    BY <1>4, <2>3, <2>4 DEF y, z
<1> QED
  BY <1>9, <1>10 DEF t, a, MoreByte, LastByte

\* Six bits after six bits: a number that goes on, read up to its last byte.
LEMMA LeadingIsRead ==
  \A e, ns : \A v, n \in Nat : \A c \in {0, 128} :
    Reads(After(e, ns, v), Leading(Chunks[n], c), Within(e, ns, n))
<1> SUFFICES ASSUME NEW e, NEW ns, NEW v \in Nat, NEW c \in {0, 128}
             PROVE  \A n \in Nat : Reads(After(e, ns, v), Leading(Chunks[n], c), Within(e, ns, n))
  OBVIOUS
<1> DEFINE Good(n) == Reads(After(e, ns, v), Leading(Chunks[n], c), Within(e, ns, n))
           S == {n \in Nat : ~Good(n)}
<1> SUFFICES ASSUME S # {} PROVE FALSE
  OBVIOUS
<1>1. PICK m \in S : \A o \in S : m <= o
  <2>1. S \subseteq Nat
    OBVIOUS
  <2> HIDE DEF S
  <2> QED
    BY <2>1, FirstInstruction
<1>2. m \in Nat /\ ~Good(m)
  OBVIOUS
<1>3. ASSUME m < 64 PROVE Good(m)
  <2>1. Chunks[m] = <<m>>
    BY <1>2, <1>3, ChunksShort
  <2>2. m \in 0 .. 63
    BY <1>2, <1>3
  <2>3. Leading(<<m>>, c) = <<MoreByte(m, c)>>
    <3>1. Len(<<m>>) = 1 /\ <<m>>[1] = m
      OBVIOUS
    <3>2. Leading(<<m>>, c) = [k \in 1 .. 1 |-> (<<m>>[k] + 64) + Flag(k, c)]
      BY <3>1, Zenon DEF Leading
    <3>3. Leading(<<m>>, c) = [k \in 1 .. 1 |-> (m + 64) + c]
      BY <3>2 DEF Flag
    <3> QED
      BY <3>3 DEF MoreByte
  <2>4. ReadByte(After(e, ns, v), MoreByte(m, c)) = Within(e, ns, m)
    BY <2>2, FirstOfMany
  <2>5. MoreByte(m, c) \in Nat
    BY <1>2 DEF MoreByte
  <2>6. Reads(After(e, ns, v), <<MoreByte(m, c)>>, Within(e, ns, m))
    BY <2>4, <2>5, OneByte
  <2> QED
    BY <2>1, <2>3, <2>6, Zenon
<1>4. ASSUME m >= 64 PROVE Good(m)
  <2> DEFINE q == m \div 64
             r == m % 64
             s == Chunks[q]
             a == Leading(s, c)
             x == MoreByte(r, 0)
             start == After(e, ns, v)
             mid == Within(e, ns, q)
             end == Within(e, ns, m)
  <2>1. q \in Nat /\ q < m /\ r \in 0 .. 63 /\ Joined(q, r) = m
    <3>1. q \in Nat /\ q < m
      BY <1>2, <1>4, Shorter
    <3>2. r \in 0 .. 63 /\ Joined(q, r) = m
      BY <1>2, Remainder DEF Joined
    <3> QED
      BY <3>1, <3>2
  <2>2. Good(q)
    <3> HIDE DEF q
    <3> QED
      BY <1>1, <1>2, <2>1
  <2>3. s \in Seq(Digit) /\ Len(s) > 0
    <3>1. s \in Seq(0 .. 63) /\ Len(s) \in Nat \ {0}
      BY <2>1, ChunksTyped
    <3> HIDE DEF s
    <3> QED
      BY <3>1 DEF Digit
  <2>4. Chunks[m] = Append(s, r)
    BY <1>2, <1>4, ChunksLong
  <2>5. r \in Digit
    BY <2>1 DEF Digit
  <2> HIDE DEF q, r, s
  <2>6. Leading(Chunks[m], c) = a \o <<x>>
    <3>1. Leading(Append(s, r), c) = Leading(s, c) \o <<MoreByte(r, 0)>>
      BY <2>3, <2>5, DigitAppended DEF Flags
    <3> QED
      BY <2>4, <3>1, Zenon
  <2>7. a \in Seq(Nat) /\ a # <<>>
    <3>1. a \in Seq(Nat) /\ Len(a) = Len(s)
      BY <2>3, Shapes DEF IsShaped, Flags
    <3> HIDE DEF a
    <3> QED
      BY <2>3, <3>1
  <2>8. x \in Nat /\ <<x>> \in Seq(Nat) /\ <<x>> # <<>>
    BY <2>1 DEF MoreByte
  <2>9. Reads(mid, <<x>>, end)
    <3>1. ReadByte(mid, x) = Within(e, ns, Joined(q, r))
      BY <2>1, NextOfMany
    <3>2. ReadByte(mid, x) = end
      BY <2>1, <3>1, Zenon
    <3> HIDE DEF mid, x, end
    <3> QED
      BY <2>8, <3>2, OneByte
  <2>10. Truncated(mid)
    BY DEF Within, Truncated
  <2>11. Reads(start, a, mid)
    BY <2>2 DEF s, q
  <2> HIDE DEF a, x, start, mid, end
  <2>12. Reads(start, a \o <<x>>, end)
    BY <2>7, <2>8, <2>9, <2>10, <2>11, ReadsOn
  <2> QED
    BY <2>6, <2>12 DEF start, end
<1> QED
  BY <1>2, <1>3, <1>4

LEMMA LastIsRead ==
  \A e : \A ns \in Seq(Nat) : \A v, n \in Nat :
    /\ \A c \in Flags : n < 64 => ReadByte(After(e, ns, v), LastByte(n, c)) = Filled(e, ns, n, v)
    /\ \A x \in Digit : Joined(v, x) = n =>
         ReadByte(Within(e, ns, v), LastByte(x, 0)) = Filled(e, ns, n, v)
<1> SUFFICES ASSUME NEW e, NEW ns \in Seq(Nat), NEW v \in Nat, NEW n \in Nat
             PROVE  /\ \A c \in Flags : n < 64 =>
                         ReadByte(After(e, ns, v), LastByte(n, c)) = Filled(e, ns, n, v)
                    /\ \A x \in Digit : Joined(v, x) = n =>
                         ReadByte(Within(e, ns, v), LastByte(x, 0)) = Filled(e, ns, n, v)
  OBVIOUS
<1> DEFINE yes == TRUE
           no == FALSE
           first == After(e, ns, v)
           next == Within(e, ns, v)
<1>1. first = State(e, ns, v, no) /\ next = State(e, ns, v, yes)
  BY DEF State, After, Within
<1>2. 64 * (IF first.inside THEN first.value ELSE 0) = 0
  <2>1. ~first.inside
    BY DEF After
  <2> HIDE DEF first
  <2> QED
    BY <2>1
<1>3. (IF next.inside THEN next.value ELSE 0) = v
  BY DEF Within
<1> HIDE DEF first, next, yes, no
<1>4. ValueRead(first, n) = n
  BY <1>2 DEF ValueRead
<1>5. \A x \in Digit : ValueRead(next, x) = Joined(v, x)
  BY <1>3, Zenon DEF ValueRead, Joined
<1>6. ASSUME NEW c \in Flags, NEW x \in Digit
      PROVE  /\ ReadByte(first, LastByte(x, c)) = Filled(e, ns, ValueRead(first, x), v)
             /\ ReadByte(next, LastByte(x, c)) = Filled(e, ns, ValueRead(next, x), v)
  <2>1. /\ ReadByte(State(e, ns, v, no), LastByte(x, c))
             = Filled(e, ns, ValueRead(State(e, ns, v, no), x), v)
        /\ ReadByte(State(e, ns, v, yes), LastByte(x, c))
             = Filled(e, ns, ValueRead(State(e, ns, v, yes), x), v)
    BY LastOfNumber, Zenon
  <2> QED
    BY <1>1, <2>1, Zenon
<1>9. 0 \in Flags
  BY DEF Flags
<1>7. ASSUME NEW c \in Flags, n < 64
      PROVE  ReadByte(first, LastByte(n, c)) = Filled(e, ns, n, v)
  <2>1. n \in Digit
    BY <1>7 DEF Digit
  <2> QED
    BY <1>4, <1>6, <2>1
<1>8. ASSUME NEW x \in Digit, Joined(v, x) = n
      PROVE  ReadByte(next, LastByte(x, 0)) = Filled(e, ns, n, v)
  <2>2. ReadByte(next, LastByte(x, 0)) = Filled(e, ns, ValueRead(next, x), v)
    BY <1>6, <1>9
  <2>3. ValueRead(next, x) = n
    BY <1>5, <1>8
  <2> QED
    BY <2>2, <2>3, Zenon
<1> QED
  BY <1>7, <1>8 DEF first, next

\* A number of an entry, read from its first byte to its last.
LEMMA NumberIsRead ==
  ASSUME NEW e, NEW ns \in Seq(Nat), NEW v \in Nat, NEW n \in Nat, NEW c \in Flags
  PROVE  /\ Marked(Chunks[n], c) \in Seq(Nat) /\ Marked(Chunks[n], c) # <<>>
         /\ \E w \in Nat : Reads(After(e, ns, v), Marked(Chunks[n], c), Filled(e, ns, n, w))
<1> DEFINE start == After(e, ns, v)
<1>1. CASE n < 64
  <2>1. Chunks[n] = <<n>>
    BY <1>1, ChunksShort
  <2>3. Marked(<<n>>, c) = <<LastByte(n, c)>>
    <3>1. Len(<<n>>) = 1 /\ <<n>>[1] = n
      OBVIOUS
    <3>2. Marked(<<n>>, c) = [k \in 1 .. 1 |-> (<<n>>[k] + (IF k < 1 THEN 64 ELSE 0)) + Flag(k, c)]
      BY <3>1, Zenon DEF Marked
    <3>3. Marked(<<n>>, c) = [k \in 1 .. 1 |-> n + c]
      BY <3>2 DEF Flag, Flags
    <3> QED
      BY <3>3 DEF LastByte
  <2>4. ReadByte(start, LastByte(n, c)) = Filled(e, ns, n, v)
    BY <1>1, LastIsRead, Zenon
  <2>5. LastByte(n, c) \in Nat
    BY DEF LastByte, Flags
  <2> HIDE DEF start
  <2>6. Reads(start, <<LastByte(n, c)>>, Filled(e, ns, n, v))
    BY <2>4, <2>5, OneByte
  <2>7. <<LastByte(n, c)>> \in Seq(Nat) /\ <<LastByte(n, c)>> # <<>>
    BY <2>5
  <2>8. Marked(Chunks[n], c) = <<LastByte(n, c)>>
    BY <2>1, <2>3, Zenon
  <2> QED
    BY <2>6, <2>7, <2>8 DEF start
<1>2. CASE n >= 64
  <2> DEFINE q == n \div 64
             r == n % 64
             s == Chunks[q]
             a == Leading(s, c)
             x == LastByte(r, 0)
             mid == Within(e, ns, q)
             end == Filled(e, ns, n, q)
  <2>1. q \in Nat /\ r \in 0 .. 63 /\ Joined(q, r) = n
    BY Remainder DEF Joined
  <2>2. s \in Seq(Digit) /\ Len(s) > 0
    <3>1. s \in Seq(0 .. 63) /\ Len(s) \in Nat \ {0}
      BY <2>1, ChunksTyped
    <3> HIDE DEF s
    <3> QED
      BY <3>1 DEF Digit
  <2>3. Chunks[n] = Append(s, r)
    BY <1>2, ChunksLong
  <2>4. r \in Digit
    BY <2>1 DEF Digit
  <2> HIDE DEF q, r
  <2>5. Reads(start, a, mid)
    BY <2>1, LeadingIsRead DEF Flags
  <2>6. ReadByte(mid, x) = end
    <3>1. \A y \in Digit : Joined(q, y) = n =>
            ReadByte(Within(e, ns, q), LastByte(y, 0)) = Filled(e, ns, n, q)
      BY <2>1, LastIsRead, Zenon
    <3> QED
      BY <2>1, <2>4, <3>1, Zenon
  <2> HIDE DEF s
  <2>7. Marked(Append(s, r), c) = a \o <<x>>
    BY <2>2, <2>4, DigitAppended
  <2>8. a \in Seq(Nat) /\ a # <<>>
    <3>1. a \in Seq(Nat) /\ Len(a) = Len(s)
      BY <2>2, Shapes DEF IsShaped
    <3> HIDE DEF a
    <3> QED
      BY <2>2, <3>1
  <2>9. x \in Nat /\ <<x>> \in Seq(Nat) /\ <<x>> # <<>>
    BY <2>1 DEF LastByte
  <2>10. Truncated(mid)
    BY DEF Within, Truncated
  <2> HIDE DEF a, x, start, mid, end
  <2>11. Reads(mid, <<x>>, end)
    BY <2>6, <2>9, OneByte
  <2>12. Reads(start, a \o <<x>>, end)
    BY <2>5, <2>8, <2>9, <2>10, <2>11, ReadsOn
  <2>13. a \o <<x>> \in Seq(Nat) /\ a \o <<x>> # <<>>
    BY <2>8, <2>9
  <2>14. Marked(Chunks[n], c) = a \o <<x>>
    BY <2>3, <2>7, Zenon
  <2> QED
    BY <2>1, <2>12, <2>13, <2>14 DEF start, end
<1> QED
  BY <1>1, <1>2

\* The flag of the first byte.
FirstFlag(s) == [s EXCEPT ![1] = @ + 128]

LEMMA FirstFlagShape ==
  ASSUME NEW s \in Seq(Nat), s # <<>>
  PROVE  /\ FirstFlag(s) \in Seq(Nat) /\ Len(FirstFlag(s)) = Len(s)
         /\ FirstFlag(s)[1] = s[1] + 128
         /\ \A k \in 1 .. Len(s) : k # 1 => FirstFlag(s)[k] = s[k]
<1>1. Len(s) \in Nat /\ Len(s) > 0 /\ s[1] \in Nat
  BY EmptySeq
<1> DEFINE x == s[1] + 128
           t == [s EXCEPT ![1] = x]
<1>2. FirstFlag(s) = t
  BY DEF FirstFlag
<1>3. x \in Nat /\ 1 \in 1 .. Len(s)
  BY <1>1
<1>4. /\ t \in Seq(Nat) /\ Len(t) = Len(s)
      /\ \A k \in 1 .. Len(s) : t[k] = IF k = 1 THEN x ELSE s[k]
  <2> HIDE DEF x
  <2> QED
    BY <1>3, ExceptSeq
<1> HIDE DEF t
<1> QED
  BY <1>2, <1>3, <1>4

LEMMA FirstFlagOfConcat ==
  ASSUME NEW a \in Seq(Nat), NEW b \in Seq(Nat), a # <<>>
  PROVE  FirstFlag(a \o b) = FirstFlag(a) \o b
<1> DEFINE f == FirstFlag(a)
           c == a \o b
           g == FirstFlag(c)
           d == f \o b
           m == Len(a)
           n == Len(b)
<1>1. m \in Nat \ {0} /\ n \in Nat
  BY EmptySeq
<1>2. /\ c \in Seq(Nat) /\ Len(c) = m + n
      /\ \A k \in 1 .. m + n : c[k] = IF k <= m THEN a[k] ELSE b[k - m]
  BY ConcatProperties
<1>3. c # <<>>
  <2> HIDE DEF c
  <2> QED
    BY <1>1, <1>2
<1>4. /\ f \in Seq(Nat) /\ Len(f) = m
      /\ f[1] = a[1] + 128
      /\ \A k \in 1 .. m : k # 1 => f[k] = a[k]
  BY FirstFlagShape
<1> HIDE DEF c
<1>5. /\ g \in Seq(Nat) /\ Len(g) = m + n
      /\ g[1] = c[1] + 128
      /\ \A k \in 1 .. m + n : k # 1 => g[k] = c[k]
  BY <1>2, <1>3, FirstFlagShape
<1> HIDE DEF f, g
<1>6. /\ d \in Seq(Nat) /\ Len(d) = m + n
      /\ \A k \in 1 .. m + n : d[k] = IF k <= m THEN f[k] ELSE b[k - m]
  <2>1. /\ d \in Seq(Nat) /\ Len(d) = Len(f) + Len(b)
        /\ \A k \in 1 .. Len(f) + Len(b) : d[k] = IF k <= Len(f) THEN f[k] ELSE b[k - Len(f)]
    <3>1. f \in Seq(Nat) /\ b \in Seq(Nat)
      BY <1>4
    <3> QED
      BY ONLY <3>1, ConcatProperties
  <2> HIDE DEF d, m
  <2> QED
    BY <1>4, <2>1
<1> HIDE DEF d, m, n
<1>7. \A k \in 1 .. m + n : g[k] = d[k]
  <2> SUFFICES ASSUME NEW k \in 1 .. m + n PROVE g[k] = d[k]
    OBVIOUS
  <2>1. CASE k = 1
    <3>1. 1 \in 1 .. m + n /\ 1 <= m
      BY <1>1
    <3>2. c[1] = a[1] /\ d[1] = f[1]
      BY <1>2, <1>6, <3>1
    <3> QED
      BY <1>4, <1>5, <2>1, <3>2
  <2>2. CASE k # 1 /\ k <= m
    <3>1. k \in 1 .. m
      BY <1>1, <2>2
    <3>2. c[k] = a[k] /\ d[k] = f[k]
      BY <1>2, <1>6, <2>2
    <3> QED
      BY <1>4, <1>5, <2>2, <3>1, <3>2
  <2>3. CASE ~(k <= m)
    <3>1. k # 1
      BY <1>1, <2>3
    <3>2. c[k] = b[k - m] /\ d[k] = b[k - m]
      BY <1>2, <1>6, <2>3
    <3> QED
      BY <1>5, <3>1, <3>2
  <2> QED
    BY <2>1, <2>2, <2>3
<1>8. g = d
  BY <1>5, <1>6, <1>7, SeqEqual
<1> QED
  BY <1>8 DEF g, d, f, c

\* What is written for a number.
LEMMA NumberWritten ==
  ASSUME NEW n \in Nat
  PROVE  /\ WrittenNumber(n) = Marked(Chunks[n], 0)
         /\ FirstFlag(WrittenNumber(n)) = Marked(Chunks[n], 128)
<1> DEFINE s == Chunks[n]
           l == Len(s)
           w == WrittenNumber(n)
           p == Marked(s, 0)
           f == Marked(s, 128)
<1>1. s \in Seq(Digit) /\ l \in Nat \ {0}
  BY ChunksTyped DEF Digit
<1>2. /\ p \in Seq(Nat) /\ Len(p) = l /\ f \in Seq(Nat) /\ Len(f) = l
      /\ \A k \in 1 .. l : /\ k < l => p[k] = (s[k] + 64) + Flag(k, 0)
                           /\ k = l => p[k] = s[k] + Flag(k, 0)
                           /\ k < l => f[k] = (s[k] + 64) + Flag(k, 128)
                           /\ k = l => f[k] = s[k] + Flag(k, 128)
  <2> HIDE DEF s
  <2>1. 0 \in Flags /\ 128 \in Flags
    BY DEF Flags
  <2>2. IsShaped(s, 0) /\ IsShaped(s, 128)
    BY <1>1, <2>1, Shapes
  <2> QED
    BY <2>2 DEF IsShaped, p, f
<1>3. w = [k \in 1 .. l |-> s[k] + (IF k < l THEN 64 ELSE 0)]
  BY Zenon DEF WrittenNumber
<1>4. \A k \in 1 .. l : s[k] \in Nat
  <2>1. \A k \in 1 .. l : s[k] \in Digit
    <3> HIDE DEF s
    <3> QED
      BY <1>1, ElementOfSeq
  <2>2. \A d \in Digit : d \in Nat
    BY DEF Digit
  <2> HIDE DEF l
  <2> QED
    BY <2>1, <2>2
<1> HIDE DEF s, w, p, f
<1>5. \A k \in 1 .. l : w[k] = s[k] + (IF k < l THEN 64 ELSE 0)
  BY <1>3
<1>6. w \in Seq(Nat) /\ Len(w) = l
  <2> HIDE DEF l
  <2>1. \A k \in 1 .. l : s[k] + (IF k < l THEN 64 ELSE 0) \in Nat
    BY <1>4
  <2>2. w \in [1 .. l -> Nat]
    BY <1>3, <2>1
  <2> QED
    BY <1>1, <2>2
<1> HIDE DEF l
<1>7. \A k \in 1 .. l : w[k] = p[k]
  <2>1. \A k \in 1 .. l : Flag(k, 0) = 0
    BY DEF Flag
  <2> SUFFICES ASSUME NEW k \in 1 .. l PROVE w[k] = p[k]
    OBVIOUS
  <2>2. k < l \/ k = l
    BY <1>1
  <2>3. /\ k < l => p[k] = (s[k] + 64) + 0
        /\ k = l => p[k] = s[k] + 0
    BY <1>2, <2>1
  <2>4. w[k] = s[k] + (IF k < l THEN 64 ELSE 0) /\ s[k] \in Nat
    BY <1>4, <1>5
  <2> QED
    BY <1>1, <2>2, <2>3, <2>4
<1>8. w = p
  BY <1>2, <1>6, <1>7, SeqEqual
<1>9. FirstFlag(w) = f
  <2> DEFINE g == FirstFlag(w)
  <2>1. /\ g \in Seq(Nat) /\ Len(g) = l /\ g[1] = w[1] + 128
        /\ \A k \in 1 .. l : k # 1 => g[k] = w[k]
    <3>1. w # <<>>
      BY <1>1, <1>6
    <3> QED
      BY <1>6, <3>1, FirstFlagShape
  <2> HIDE DEF g
  <2>2. \A k \in 1 .. l : Flag(k, 128) = IF k = 1 THEN 128 ELSE 0
    BY DEF Flag
  <2>3. \A k \in 1 .. l : g[k] = f[k]
    <3> SUFFICES ASSUME NEW k \in 1 .. l PROVE g[k] = f[k]
      OBVIOUS
    <3>1. g[k] = w[k] + Flag(k, 128)
      <4>1. w[k] \in Nat
        BY <1>1, <1>4, <1>5
      <4> QED
        BY <2>1, <2>2, <4>1
    <3>2. w[k] = s[k] + (IF k < l THEN 64 ELSE 0)
      BY <1>5
    <3>3. k < l \/ k = l
      BY <1>1
    <3> QED
      BY <1>1, <1>2, <1>4, <3>1, <3>2, <3>3
  <2>4. g = f
    BY <1>2, <2>1, <2>3, SeqEqual
  <2> QED
    BY <2>4 DEF g
<1> QED
  BY <1>8, <1>9 DEF w, p, f, s

\* The regions that the assembler can write: bounds and targets of whole code units.
Writable == {r \in [start : Nat, end : Nat, target : Nat, depth : Nat, lasti : BOOLEAN] :
               r.start % 2 = 0 /\ r.end % 2 = 0 /\ r.target % 2 = 0 /\ r.start < r.end}

NumbersOf(r) == <<r.start \div 2, (r.end - r.start) \div 2, r.target \div 2,
                  2 * r.depth + (IF r.lasti THEN 1 ELSE 0)>>

LEMMA HalfAndBack ==
  ASSUME NEW n \in Nat, n % 2 = 0
  PROVE  n \div 2 \in Nat /\ 2 * (n \div 2) = n
OBVIOUS

LEMMA DepthAndLasti ==
  \A d \in Nat : /\ (2 * d + 1) \div 2 = d /\ (2 * d + 1) % 2 = 1
                 /\ (2 * d + 0) \div 2 = d /\ (2 * d + 0) % 2 = 0
OBVIOUS

\* The four numbers say what the region is.
LEMMA NumbersSay ==
  ASSUME NEW r \in Writable
  PROVE  /\ \A k \in 1 .. 4 : NumbersOf(r)[k] \in Nat
         /\ RegionOf(NumbersOf(r)) = r
<1> DEFINE s == r.start
           t == r.end
           g == r.target
           d == r.depth
           b == r.lasti
           len == (t - s) \div 2
           dl == 2 * d + (IF b THEN 1 ELSE 0)
           nums == <<s \div 2, len, g \div 2, dl>>
<1>1. /\ s \in Nat /\ t \in Nat /\ g \in Nat /\ d \in Nat /\ b \in BOOLEAN
      /\ s % 2 = 0 /\ t % 2 = 0 /\ g % 2 = 0 /\ s < t
  BY DEF Writable
<1>2. r = [start |-> s, end |-> t, target |-> g, depth |-> d, lasti |-> b]
  BY DEF Writable
<1>3. NumbersOf(r) = nums
  BY Zenon DEF NumbersOf
<1> HIDE DEF s, t, g, d, b
<1>4. s \div 2 \in Nat /\ g \div 2 \in Nat /\ 2 * (s \div 2) = s /\ 2 * (g \div 2) = g
  BY <1>1, HalfAndBack
<1>5. len \in Nat /\ 2 * (s \div 2) + 2 * len = t
  <2>1. PICK i \in Nat : s = 2 * i
    BY <1>4
  <2>2. PICK j \in Nat : t = 2 * j
    BY <1>1, HalfAndBack
  <2>3. t - s = 2 * (j - i) /\ j - i \in Nat
    BY <1>1, <2>1, <2>2
  <2>4. len = j - i
    BY <2>3
  <2> HIDE DEF len
  <2> QED
    BY <1>4, <2>1, <2>2, <2>3, <2>4
<1>6. dl \in Nat /\ dl \div 2 = d /\ (dl % 2 = 1 <=> b)
  <2>1. CASE b
    <3>1. dl = 2 * d + 1
      BY <2>1
    <3> HIDE DEF dl
    <3> QED
      BY <1>1, <2>1, <3>1, DepthAndLasti
  <2>2. CASE ~b
    <3>1. dl = 2 * d + 0
      BY <2>2
    <3>2. dl \in Nat
      BY <1>1, <3>1
    <3>3. dl \div 2 = d /\ dl % 2 = 0
      BY <1>1, <3>1, DepthAndLasti
    <3> HIDE DEF dl
    <3> QED
      BY <2>2, <3>2, <3>3
  <2> QED
    BY <2>1, <2>2
<1> HIDE DEF len, dl
<1>7. nums[1] = s \div 2 /\ nums[2] = len /\ nums[3] = g \div 2 /\ nums[4] = dl
  OBVIOUS
<1> HIDE DEF nums
<1>8. \A k \in 1 .. 4 : nums[k] \in Nat
  BY <1>4, <1>5, <1>6, <1>7
<1>9. RegionOf(nums) = r
  <2>1. (nums[4] % 2 = 1) = b
    BY <1>1, <1>6, <1>7
  <2>2. /\ 2 * nums[1] = s /\ 2 * nums[1] + 2 * nums[2] = t /\ 2 * nums[3] = g
        /\ nums[4] \div 2 = d
    BY <1>4, <1>5, <1>6, <1>7
  <2> QED
    BY <1>2, <2>1, <2>2, Zenon DEF RegionOf
<1> QED
  BY <1>3, <1>8, <1>9

\* One number after the other.
LEMMA NextNumber ==
  ASSUME NEW e, NEW v \in Nat, NEW ns \in Seq(Nat), ns # <<>>, NEW n \in Nat,
         NEW start, NEW a \in Seq(Nat), a # <<>>, Reads(start, a, After(e, ns, v))
  PROVE  /\ a \o WrittenNumber(n) \in Seq(Nat) /\ a \o WrittenNumber(n) # <<>>
         /\ \E w \in Nat : Reads(start, a \o WrittenNumber(n), Filled(e, ns, n, w))
<1> DEFINE mid == After(e, ns, v)
           b == WrittenNumber(n)
<1>1. b \in Seq(Nat) /\ b # <<>>
  <2>1. Marked(Chunks[n], 0) \in Seq(Nat) /\ Marked(Chunks[n], 0) # <<>>
    <3>1. 0 \in Flags /\ 0 \in Nat /\ <<>> \in Seq(Nat)
      BY DEF Flags
    <3> QED
      BY <3>1, NumberIsRead
  <2> QED
    BY <2>1, NumberWritten
<1>2. PICK w \in Nat : Reads(mid, b, Filled(e, ns, n, w))
  <2>1. \E w \in Nat : Reads(mid, Marked(Chunks[n], 0), Filled(e, ns, n, w))
    <3>1. 0 \in Flags
      BY DEF Flags
    <3> QED
      BY <3>1, NumberIsRead
  <2> QED
    BY <2>1, NumberWritten
<1>3. Truncated(mid)
  BY DEF After, Truncated
<1>4. Reads(start, a, mid)
  OBVIOUS
<1> HIDE DEF mid, b
<1>5. Reads(start, a \o b, Filled(e, ns, n, w))
  BY <1>1, <1>2, <1>3, <1>4, ReadsOn
<1>6. a \o b \in Seq(Nat) /\ a \o b # <<>>
  <2>1. a \o b \in Seq(Nat) /\ Len(a \o b) = Len(a) + Len(b) /\ Len(a) \in Nat \ {0} /\ Len(b) \in Nat
    BY <1>1, EmptySeq
  <2> DEFINE c == a \o b
  <2> HIDE DEF c
  <2>2. c # <<>>
    BY <2>1 DEF c
  <2> QED
    BY <2>1, <2>2 DEF c
<1> QED
  BY <1>2, <1>5, <1>6 DEF b

LEMMA OneAndOne == \A a, b \in Nat : Append(<<a>>, b) = <<a, b>>
<1> SUFFICES ASSUME NEW a \in Nat, NEW b \in Nat
             PROVE  Append(<<a>>, b) = <<a, b>>
  OBVIOUS
<1> DEFINE s == Append(<<a>>, b)
           t == <<a, b>>
<1>1. s \in Seq(Nat) /\ Len(s) = 2 /\ s[1] = a /\ s[2] = b
  OBVIOUS
<1>2. t \in Seq(Nat) /\ Len(t) = 2 /\ t[1] = a /\ t[2] = b
  OBVIOUS
<1> HIDE DEF s, t
<1>3. s = t
  <2>1. \A k \in 1 .. 2 : s[k] = t[k]
    BY <1>1, <1>2
  <2> QED
    BY <1>1, <1>2, <2>1, SeqEqual
<1> QED
  BY <1>3 DEF s, t

LEMMA TwoAndOne == \A a, b, c \in Nat : Append(<<a, b>>, c) = <<a, b, c>>
<1> SUFFICES ASSUME NEW a \in Nat, NEW b \in Nat, NEW c \in Nat
             PROVE  Append(<<a, b>>, c) = <<a, b, c>>
  OBVIOUS
<1> DEFINE s == Append(<<a, b>>, c)
           t == <<a, b, c>>
<1>1. s \in Seq(Nat) /\ Len(s) = 3 /\ s[1] = a /\ s[2] = b /\ s[3] = c
  OBVIOUS
<1>2. t \in Seq(Nat) /\ Len(t) = 3 /\ t[1] = a /\ t[2] = b /\ t[3] = c
  OBVIOUS
<1> HIDE DEF s, t
<1>3. s = t
  <2>1. \A k \in 1 .. 3 : s[k] = t[k]
    BY <1>1, <1>2
  <2> QED
    BY <1>1, <1>2, <2>1, SeqEqual
<1> QED
  BY <1>3 DEF s, t

LEMMA ThreeAndOne == \A a, b, c, d \in Nat : Append(<<a, b, c>>, d) = <<a, b, c, d>>
<1> SUFFICES ASSUME NEW a \in Nat, NEW b \in Nat, NEW c \in Nat, NEW d \in Nat
             PROVE  Append(<<a, b, c>>, d) = <<a, b, c, d>>
  OBVIOUS
<1> DEFINE s == Append(<<a, b, c>>, d)
           t == <<a, b, c, d>>
<1>1. s \in Seq(Nat) /\ Len(s) = 4 /\ s[1] = a /\ s[2] = b /\ s[3] = c /\ s[4] = d
  OBVIOUS
<1>2. t \in Seq(Nat) /\ Len(t) = 4 /\ t[1] = a /\ t[2] = b /\ t[3] = c /\ t[4] = d
  OBVIOUS
<1> HIDE DEF s, t
<1>3. s = t
  <2>1. \A k \in 1 .. 4 : s[k] = t[k]
    BY <1>1, <1>2
  <2> QED
    BY <1>1, <1>2, <2>1, SeqEqual
<1> QED
  BY <1>3 DEF s, t

LEMMA FilledUp ==
  ASSUME NEW e, NEW w, NEW a \in Nat, NEW b \in Nat, NEW c \in Nat, NEW d \in Nat
  PROVE  /\ Filled(e, <<>>, a, w) = After(e, <<a>>, w)
         /\ Filled(e, <<a>>, b, w) = After(e, <<a, b>>, w)
         /\ Filled(e, <<a, b>>, c, w) = After(e, <<a, b, c>>, w)
         /\ Filled(e, <<a, b, c>>, d, w)
              = After(Append(e, RegionOf(<<a, b, c, d>>)), <<>>, 0)
<1>1. /\ Len(<<>>) < 3 /\ Len(<<a>>) < 3 /\ Len(<<a, b>>) < 3 /\ ~(Len(<<a, b, c>>) < 3)
  OBVIOUS
<1>2. Append(<<>>, a) = <<a>>
  OBVIOUS
<1>3. Append(<<a>>, b) = <<a, b>>
  BY OneAndOne
<1>4. Append(<<a, b>>, c) = <<a, b, c>>
  BY TwoAndOne
<1>5. Append(<<a, b, c>>, d) = <<a, b, c, d>>
  BY ThreeAndOne
<1> QED
  BY <1>1, <1>2, <1>3, <1>4, <1>5, Zenon DEF Filled

\* An entry, read from behind one to behind it.
LEMMA EntryIsRead ==
  ASSUME NEW e, NEW v \in Nat, NEW r \in Writable
  PROVE  /\ WrittenEntry(r) \in Seq(Nat) /\ WrittenEntry(r) # <<>>
         /\ Reads(After(e, <<>>, v), WrittenEntry(r), After(Append(e, r), <<>>, 0))
<1> DEFINE N(k) == NumbersOf(r)[k]
           B(k) == WrittenNumber(N(k))
           a == N(1)
           b == N(2)
           c == N(3)
           d == N(4)
           start == After(e, <<>>, v)
           one == FirstFlag(WrittenNumber(a))
           two == one \o WrittenNumber(b)
           three == two \o WrittenNumber(c)
           four == three \o WrittenNumber(d)
<1>1. /\ a \in Nat /\ b \in Nat /\ c \in Nat /\ d \in Nat
      /\ RegionOf(NumbersOf(r)) = r /\ NumbersOf(r) = <<a, b, c, d>>
  <2>1. \A k \in 1 .. 4 : N(k) \in Nat
    BY NumbersSay
  <2>2. RegionOf(NumbersOf(r)) = r
    BY NumbersSay
  <2>3. NumbersOf(r) = <<a, b, c, d>>
    BY DEF NumbersOf
  <2> HIDE DEF N
  <2> QED
    BY <2>1, <2>2, <2>3
<1>2. WrittenEntry(r) = four
  <2> DEFINE w == WrittenNumber(a)
             x == WrittenNumber(b)
             y == WrittenNumber(c)
             z == WrittenNumber(d)
  <2>1. WrittenEntry(r) = FirstFlag(((w \o x) \o y) \o z)
    <3>1. /\ a = r.start \div 2 /\ b = (r.end - r.start) \div 2 /\ c = r.target \div 2
          /\ d = 2 * r.depth + (IF r.lasti THEN 1 ELSE 0)
      BY DEF NumbersOf
    <3> HIDE DEF a, b, c, d
    <3> QED
      BY <3>1, Zenon DEF WrittenEntry, FirstFlag
  <2>2. \A n \in Nat : WrittenNumber(n) \in Seq(Nat) /\ WrittenNumber(n) # <<>>
    <3> SUFFICES ASSUME NEW n \in Nat
                 PROVE  WrittenNumber(n) \in Seq(Nat) /\ WrittenNumber(n) # <<>>
      OBVIOUS
    <3>1. 0 \in Flags /\ 0 \in Nat /\ <<>> \in Seq(Nat)
      BY DEF Flags
    <3>2. Marked(Chunks[n], 0) \in Seq(Nat) /\ Marked(Chunks[n], 0) # <<>>
      BY <3>1, NumberIsRead
    <3> QED
      BY <3>2, NumberWritten
  <2>3. /\ w \in Seq(Nat) /\ x \in Seq(Nat) /\ y \in Seq(Nat) /\ z \in Seq(Nat) /\ w # <<>>
    BY <1>1, <2>2
  <2> HIDE DEF w, x, y, z
  <2>4. w \o x \in Seq(Nat) /\ w \o x # <<>> /\ (w \o x) \o y \in Seq(Nat) /\ (w \o x) \o y # <<>>
    <3>1. \A p, q \in Seq(Nat) : p # <<>> => p \o q \in Seq(Nat) /\ p \o q # <<>>
      <4> SUFFICES ASSUME NEW p \in Seq(Nat), NEW q \in Seq(Nat), p # <<>>
                   PROVE  p \o q \in Seq(Nat) /\ p \o q # <<>>
        OBVIOUS
      <4> DEFINE pq == p \o q
      <4>1. pq \in Seq(Nat) /\ Len(pq) = Len(p) + Len(q) /\ Len(p) \in Nat \ {0} /\ Len(q) \in Nat
        BY EmptySeq
      <4> HIDE DEF pq
      <4>2. pq # <<>>
        BY <4>1
      <4> QED
        BY <4>1, <4>2 DEF pq
    <3> QED
      BY <2>3, <3>1
  <2>5. /\ FirstFlag(w \o x) = FirstFlag(w) \o x
        /\ FirstFlag((w \o x) \o y) = FirstFlag(w \o x) \o y
        /\ FirstFlag(((w \o x) \o y) \o z) = FirstFlag((w \o x) \o y) \o z
    BY <2>3, <2>4, FirstFlagOfConcat
  <2> QED
    BY <2>1, <2>5, Zenon DEF w, x, y, z
<1> HIDE DEF N, a, b, c, d
<1>7. \A w : /\ Filled(e, <<>>, a, w) = After(e, <<a>>, w)
             /\ Filled(e, <<a>>, b, w) = After(e, <<a, b>>, w)
             /\ Filled(e, <<a, b>>, c, w) = After(e, <<a, b, c>>, w)
             /\ Filled(e, <<a, b, c>>, d, w)
                  = After(Append(e, RegionOf(<<a, b, c, d>>)), <<>>, 0)
  BY <1>1, FilledUp
<1>3. PICK u \in Nat : Reads(start, one, After(e, <<a>>, u)) /\ one \in Seq(Nat) /\ one # <<>>
  <2>1. 128 \in Flags /\ <<>> \in Seq(Nat)
    BY DEF Flags
  <2>2. /\ Marked(Chunks[a], 128) \in Seq(Nat) /\ Marked(Chunks[a], 128) # <<>>
        /\ \E w \in Nat : Reads(start, Marked(Chunks[a], 128), Filled(e, <<>>, a, w))
    BY <1>1, <2>1, NumberIsRead
  <2>3. one = Marked(Chunks[a], 128)
    BY <1>1, NumberWritten
  <2>4. \A w : Filled(e, <<>>, a, w) = After(e, <<a>>, w)
    BY <1>7
  <2> HIDE DEF one, start
  <2> QED
    BY <2>2, <2>3, <2>4
<1> HIDE DEF one, start
<1>4. PICK u2 \in Nat : Reads(start, two, After(e, <<a, b>>, u2)) /\ two \in Seq(Nat) /\ two # <<>>
  <2>1. <<a>> \in Seq(Nat) /\ <<a>> # <<>>
    BY <1>1
  <2>2. /\ two \in Seq(Nat) /\ two # <<>>
        /\ \E w \in Nat : Reads(start, two, Filled(e, <<a>>, b, w))
    BY <1>1, <1>3, <2>1, NextNumber
  <2>3. \A w : Filled(e, <<a>>, b, w) = After(e, <<a, b>>, w)
    BY <1>7
  <2> HIDE DEF two
  <2> QED
    BY <2>2, <2>3
<1> HIDE DEF two
<1>5. PICK u3 \in Nat : Reads(start, three, After(e, <<a, b, c>>, u3)) /\ three \in Seq(Nat) /\ three # <<>>
  <2>1. <<a, b>> \in Seq(Nat) /\ <<a, b>> # <<>>
    BY <1>1
  <2>2. /\ three \in Seq(Nat) /\ three # <<>>
        /\ \E w \in Nat : Reads(start, three, Filled(e, <<a, b>>, c, w))
    BY <1>1, <1>4, <2>1, NextNumber
  <2>3. \A w : Filled(e, <<a, b>>, c, w) = After(e, <<a, b, c>>, w)
    BY <1>7
  <2> HIDE DEF three
  <2> QED
    BY <2>2, <2>3
<1> HIDE DEF three
<1>6. Reads(start, four, After(Append(e, r), <<>>, 0)) /\ four \in Seq(Nat) /\ four # <<>>
  <2>1. <<a, b, c>> \in Seq(Nat) /\ <<a, b, c>> # <<>>
    BY <1>1
  <2>2. /\ four \in Seq(Nat) /\ four # <<>>
        /\ \E w \in Nat : Reads(start, four, Filled(e, <<a, b, c>>, d, w))
    BY <1>1, <1>5, <2>1, NextNumber
  <2>3. \A w : Filled(e, <<a, b, c>>, d, w) = After(Append(e, r), <<>>, 0)
    <3>1. RegionOf(<<a, b, c, d>>) = r
      BY <1>1
    <3>2. \A w : Filled(e, <<a, b, c>>, d, w) = After(Append(e, RegionOf(<<a, b, c, d>>)), <<>>, 0)
      BY <1>7
    <3> QED
      BY <3>1, <3>2, Zenon
  <2> HIDE DEF four
  <2> QED
    BY <2>2, <2>3
<1> QED
  BY <1>2, <1>6 DEF start

\* What the recursive definition of a table says.
IsBuilt(g, w) == /\ g[0] = <<>>
                 /\ \A k \in 1 .. Len(w) : g[k] = g[k - 1] \o WrittenEntry(w[k])

LEMMA TableBuilt ==
  ASSUME NEW w, Len(w) \in Nat
  PROVE  \E g : IsBuilt(g, w) /\ Written(w) = g[Len(w)]
<1> DEFINE Body(h, k) == IF k = 0 THEN <<>> ELSE h[k - 1] \o WrittenEntry(w[k])
           Exists(j) == \E h : h = [k \in 0 .. j |-> Body(h, k)]
           S == {j \in Nat : ~Exists(j)}
<1>1. \A j \in Nat : Exists(j)
  <2> SUFFICES ASSUME S # {} PROVE FALSE
    OBVIOUS
  <2>1. PICK m \in S : \A j \in S : m <= j
    <3>1. S \subseteq Nat
      OBVIOUS
    <3> HIDE DEF S
    <3> QED
      BY <3>1, FirstInstruction
  <2>2. m \in Nat /\ ~Exists(m)
    OBVIOUS
  <2>3. CASE m = 0
    <3> DEFINE h == [k \in 0 .. 0 |-> <<>>]
    <3>1. h = [k \in 0 .. 0 |-> Body(h, k)]
      OBVIOUS
    <3>2. Exists(0)
      BY <3>1, Zenon
    <3> QED
      BY <2>2, <2>3, <3>2
  <2>4. CASE m # 0
    <3>1. m - 1 \in Nat /\ Exists(m - 1)
      <4>1. m - 1 \in Nat /\ ~(m <= m - 1)
        BY <2>2, <2>4
      <4> HIDE DEF Exists
      <4>2. m - 1 \notin S
        BY <2>1, <4>1
      <4> QED
        BY <4>1, <4>2
    <3>2. PICK h : h = [k \in 0 .. m - 1 |-> Body(h, k)]
      BY <3>1, Zenon
    <3> DEFINE g == [k \in 0 .. m |-> Body(h, k)]
    <3>3. \A k \in 0 .. m : k # 0 => g[k - 1] = h[k - 1]
      <4> SUFFICES ASSUME NEW k \in 0 .. m, k # 0 PROVE g[k - 1] = h[k - 1]
        OBVIOUS
      <4>1. k - 1 \in 0 .. m - 1 /\ k - 1 \in 0 .. m
        BY <2>2, <2>4
      <4>2. g[k - 1] = Body(h, k - 1)
        BY <4>1
      <4> HIDE DEF g
      <4>3. h[k - 1] = Body(h, k - 1)
        <5> DEFINE i == k - 1
        <5>1. i \in 0 .. m - 1
          BY <4>1
        <5> HIDE DEF i, Body
        <5>2. [j \in 0 .. m - 1 |-> Body(h, j)][i] = Body(h, i)
          BY <5>1, Zenon
        <5>3. h[i] = Body(h, i)
          BY <3>2, <5>2, Zenon
        <5> QED
          BY <5>3 DEF i
      <4> HIDE DEF Body
      <4> QED
        BY <4>2, <4>3, Zenon
    <3>4. \A k \in 0 .. m : Body(g, k) = Body(h, k)
      <4> HIDE DEF g
      <4> QED
        BY <3>3
    <3>5. g = [k \in 0 .. m |-> Body(g, k)]
      <4>1. g = [k \in 0 .. m |-> Body(h, k)]
        OBVIOUS
      <4> HIDE DEF g, Body
      <4> QED
        BY <3>4, <4>1, Zenon
    <3> HIDE DEF g
    <3> QED
      BY <2>2, <3>5, Zenon
  <2> QED
    BY <2>3, <2>4
<1> DEFINE n == Len(w)
           g == CHOOSE h : h = [k \in 0 .. n |-> Body(h, k)]
<1>2. g = [k \in 0 .. n |-> Body(g, k)]
  <2>1. Exists(n)
    BY <1>1
  <2> QED
    BY <2>1, Zenon
<1>3. Written(w) = g[n]
  BY Zenon DEF Written
<1> HIDE DEF g, n
<1>4. n \in Nat
  BY DEF n
<1>5. \A k \in 0 .. n : g[k] = Body(g, k)
  <2> SUFFICES ASSUME NEW k \in 0 .. n PROVE g[k] = Body(g, k)
    OBVIOUS
  <2> HIDE DEF Body
  <2>1. [j \in 0 .. n |-> Body(g, j)][k] = Body(g, k)
    OBVIOUS
  <2> QED
    BY <1>2, <2>1, Zenon
<1>6. g[0] = <<>> /\ \A k \in 1 .. n : g[k] = g[k - 1] \o WrittenEntry(w[k])
  <2>1. 0 \in 0 .. n
    BY <1>4
  <2>2. g[0] = <<>>
    BY <1>5, <2>1, Zenon
  <2>3. ASSUME NEW k \in 1 .. n PROVE g[k] = g[k - 1] \o WrittenEntry(w[k])
    <3>1. k \in 0 .. n /\ k # 0
      BY <1>4
    <3> QED
      BY <1>5, <3>1, Zenon
  <2> QED
    BY <2>2, <2>3
<1> QED
  BY <1>3, <1>6 DEF IsBuilt, n

\* The bytes of an entry in a table are read like the entry alone.
LEMMA EntryFollowed ==
  ASSUME NEW e, NEW r \in Writable, NEW f, NEW at \in Nat, f[at] = After(e, <<>>, 0),
         NEW m \in 0 .. Len(WrittenEntry(r)),
         \A i \in 1 .. m : f[at + i] = ReadByte(f[(at + i) - 1], WrittenEntry(r)[i])
  PROVE  /\ m = Len(WrittenEntry(r)) => f[at + m] = After(Append(e, r), <<>>, 0)
         /\ 0 < m /\ m < Len(WrittenEntry(r)) => Truncated(f[at + m])
<1> DEFINE bs == WrittenEntry(r)
           l == Len(bs)
           start == After(e, <<>>, 0)
           end == After(Append(e, r), <<>>, 0)
<1>1. bs \in Seq(Nat) /\ l \in Nat /\ Reads(start, bs, end)
  <2>1. bs \in Seq(Nat) /\ Reads(start, bs, end)
    <3>1. \A v \in Nat : bs \in Seq(Nat) /\ Reads(After(e, <<>>, v), bs, end)
      BY EntryIsRead
    <3> QED
      BY <3>1
  <2> HIDE DEF bs
  <2> QED
    BY <2>1
<1>2. f[at] = start /\ \A i \in 1 .. m : f[at + i] = ReadByte(f[(at + i) - 1], bs[i])
  OBVIOUS
<1>3. m \in 0 .. l
  OBVIOUS
<1> HIDE DEF bs, start, end
<1>4. PICK g : /\ IsTrace(g, start, bs) /\ g[l] = end
               /\ \A k \in 1 .. l - 1 : Truncated(g[k])
  BY <1>1 DEF Reads
<1> HIDE DEF l
<1>5. \A i \in Nat : i <= m => f[at + i] = g[i]
  <2> DEFINE S == {i \in Nat : i <= m /\ f[at + i] # g[i]}
  <2> SUFFICES ASSUME S # {} PROVE FALSE
    OBVIOUS
  <2>1. PICK i \in S : \A j \in S : i <= j
    <3>1. S \subseteq Nat
      OBVIOUS
    <3> HIDE DEF S
    <3> QED
      BY <3>1, FirstInstruction
  <2>2. i \in Nat /\ i <= m /\ f[at + i] # g[i]
    OBVIOUS
  <2>3. i # 0
    <3>1. f[at + 0] = f[at] /\ g[0] = start
      BY <1>4 DEF IsTrace
    <3> QED
      BY <1>2, <2>2, <3>1
  <2>4. i - 1 \in Nat /\ i - 1 <= m /\ ~(i <= i - 1) /\ i \in 1 .. m /\ i \in 1 .. l
    BY <1>1, <1>3, <2>2, <2>3
  <2>5. f[at + (i - 1)] = g[i - 1]
    BY <2>1, <2>4
  <2>6. f[at + i] = ReadByte(f[(at + i) - 1], bs[i])
    BY <1>2, <2>4
  <2>7. g[i] = ReadByte(g[i - 1], bs[i])
    BY <1>4, <2>4 DEF IsTrace, l
  <2>8. (at + i) - 1 = at + (i - 1)
    BY <2>2
  <2> QED
    BY <2>2, <2>5, <2>6, <2>7, <2>8, Zenon
<1>6. m \in Nat /\ m <= m
  BY <1>1, <1>3
<1>7. f[at + m] = g[m]
  BY <1>5, <1>6
<1>8. m = l => f[at + m] = end
  BY <1>4, <1>7
<1>9. 0 < m /\ m < l => Truncated(f[at + m])
  <2> SUFFICES ASSUME 0 < m, m < l PROVE Truncated(f[at + m])
    OBVIOUS
  <2>1. m \in 1 .. l - 1
    BY <1>1, <1>6
  <2> QED
    BY <1>4, <1>7, <2>1
<1> QED
  BY <1>8, <1>9 DEF end, l, bs

\* A table starts with these bytes.
StartsWith(table, bs) == Len(bs) <= Len(table) /\ \A k \in 1 .. Len(bs) : table[k] = bs[k]

LEMMA TablePartRead ==
  ASSUME NEW w \in Seq(Writable), NEW g, IsBuilt(g, w), NEW table \in Seq(Nat), NEW f,
         IsTrace(f, After(<<>>, <<>>, 0), table)
  PROVE  \A k \in 0 .. Len(w) :
           /\ g[k] \in Seq(Nat)
           /\ StartsWith(table, g[k]) => f[Len(g[k])] = After(SubSeq(w, 1, k), <<>>, 0)
<1> DEFINE n == Len(w)
           Good(k) == /\ g[k] \in Seq(Nat)
                      /\ StartsWith(table, g[k]) => f[Len(g[k])] = After(SubSeq(w, 1, k), <<>>, 0)
           S == {k \in Nat : k <= n /\ ~Good(k)}
<1>1. n \in Nat /\ Len(table) \in Nat
  OBVIOUS
<1> SUFFICES ASSUME S # {} PROVE FALSE
  <2>1. S = {} => \A k \in 0 .. n : Good(k)
    <3> HIDE DEF Good, n
    <3> QED
      BY <1>1
  <2> QED
    BY <2>1
<1>2. PICK m \in S : \A j \in S : m <= j
  <2>1. S \subseteq Nat
    OBVIOUS
  <2> HIDE DEF S
  <2> QED
    BY <2>1, FirstInstruction
<1>3. m \in Nat /\ m <= n /\ ~Good(m)
  OBVIOUS
<1>4. CASE m = 0
  <2>1. g[0] = <<>> /\ Len(<<>>) = 0 /\ <<>> \in Seq(Nat)
    BY DEF IsBuilt
  <2>2. f[0] = After(<<>>, <<>>, 0)
    BY DEF IsTrace
  <2>3. SubSeq(w, 1, 0) = <<>>
    BY SubSeqEmpty
  <2>4. g[0] \in Seq(Nat) /\ f[Len(g[0])] = After(SubSeq(w, 1, 0), <<>>, 0)
    BY <2>1, <2>2, <2>3, Zenon
  <2>5. Good(0)
    BY <2>4, Zenon
  <2> QED
    BY <1>3, <1>4, <2>5
<1>5. CASE m # 0
  <2> DEFINE i == m - 1
             r == w[m]
             bs == WrittenEntry(r)
             at == Len(g[i])
             done == SubSeq(w, 1, i)
  <2>1. i \in Nat /\ i <= n /\ ~(m <= i) /\ m \in 1 .. n /\ i \in 0 .. n
    BY <1>1, <1>3, <1>5
  <2>2. Good(i)
    <3> HIDE DEF Good, i, n
    <3>1. i \notin S
      BY <1>2, <2>1
    <3> QED
      BY <2>1, <3>1
  <2>3. r \in Writable
    BY <2>1, ElementOfSeq
  <2>4. g[m] = g[i] \o bs
    BY <2>1 DEF IsBuilt
  <2>5. bs \in Seq(Nat)
    <3>1. \A e : \A v \in Nat : bs \in Seq(Nat)
      <4> HIDE DEF r
      <4> QED
        BY <2>3, EntryIsRead
    <3> QED
      BY <3>1
  <2>6. SubSeq(w, 1, m) = Append(done, r)
    <3>1. 1 \in 1 .. Len(w) /\ m \in 1 .. Len(w)
      BY <2>1
    <3>2. SubSeq(w, 1, m) = SubSeq(w, 1, i) \o <<w[m]>>
      BY <3>1, SubSeqRecursiveSecond
    <3>3. done \in Seq(Writable)
      <4>1. \A j \in 1 .. i : w[j] \in Writable
        BY <2>1, ElementOfSeq
      <4> QED
        BY <2>1, <4>1, SubSeqProperties
    <3> HIDE DEF done, r, i
    <3>4. Append(done, r) = done \o <<r>>
      BY <2>3, <3>3
    <3> QED
      BY <3>2, <3>4, Zenon DEF done, r
  <2>7. g[i] \in Seq(Nat) /\ at \in Nat
    BY <2>2
  <2>8. /\ g[m] \in Seq(Nat) /\ Len(g[m]) = at + Len(bs) /\ Len(bs) \in Nat
        /\ \A k \in 1 .. at : g[m][k] = g[i][k]
        /\ \A k \in 1 .. Len(bs) : g[m][at + k] = bs[k]
    <3> HIDE DEF bs, i
    <3>1. /\ g[i] \o bs \in Seq(Nat) /\ Len(g[i] \o bs) = at + Len(bs) /\ Len(bs) \in Nat
          /\ \A k \in 1 .. at : (g[i] \o bs)[k] = g[i][k]
          /\ \A k \in 1 .. Len(bs) : (g[i] \o bs)[at + k] = bs[k]
      BY <2>5, <2>7
    <3> QED
      BY <2>4, <3>1, Zenon
  <2>9. ASSUME StartsWith(table, g[m]) PROVE f[Len(g[m])] = After(SubSeq(w, 1, m), <<>>, 0)
    <3> HIDE DEF bs, r, i, at, done
    <3>1. at + Len(bs) <= Len(table) /\ \A k \in 1 .. at + Len(bs) : table[k] = g[m][k]
      BY <2>8, <2>9 DEF StartsWith
    <3>2. StartsWith(table, g[i])
      <4>1. at <= Len(table) /\ \A k \in 1 .. at : k \in 1 .. at + Len(bs)
        BY <1>1, <2>7, <2>8, <3>1
      <4>2. \A k \in 1 .. at : table[k] = g[i][k]
        BY <2>8, <3>1, <4>1
      <4> QED
        BY <4>1, <4>2 DEF StartsWith, at
    <3>3. f[at] = After(done, <<>>, 0)
      BY <2>2, <3>2 DEF at, done
    <3>4. \A k \in 1 .. Len(bs) : f[at + k] = ReadByte(f[(at + k) - 1], bs[k])
      <4> SUFFICES ASSUME NEW k \in 1 .. Len(bs)
                   PROVE  f[at + k] = ReadByte(f[(at + k) - 1], bs[k])
        OBVIOUS
      <4>1. at + k \in 1 .. Len(table) /\ at + k \in 1 .. at + Len(bs)
        BY <1>1, <2>7, <2>8, <3>1
      <4>2. f[at + k] = ReadByte(f[(at + k) - 1], table[at + k])
        BY <4>1 DEF IsTrace
      <4>3. table[at + k] = bs[k]
        BY <2>8, <3>1, <4>1
      <4> QED
        BY <4>2, <4>3, Zenon
    <3>5. Len(bs) \in 0 .. Len(bs)
      BY <2>8
    <3>6. f[at + Len(bs)] = After(Append(done, r), <<>>, 0)
      BY <2>3, <2>7, <3>3, <3>4, <3>5, EntryFollowed DEF bs
    <3> QED
      BY <2>6, <2>8, <3>6, Zenon
  <2>10. Good(m)
    BY <2>8, <2>9
  <2> QED
    BY <1>3, <2>10
<1> QED
  BY <1>4, <1>5

LEMMA WrittenTyped == \A w \in Seq(Writable) : Written(w) \in Seq(Nat)
<1> SUFFICES ASSUME NEW w \in Seq(Writable) PROVE Written(w) \in Seq(Nat)
  OBVIOUS
<1>1. Len(w) \in Nat /\ Len(w) \in 0 .. Len(w)
  OBVIOUS
<1>2. PICK g : IsBuilt(g, w) /\ Written(w) = g[Len(w)]
  BY <1>1, TableBuilt
<1> DEFINE h == [k \in 0 .. 0 |-> After(<<>>, <<>>, 0)]
<1>3. h[0] = After(<<>>, <<>>, 0) /\ 1 .. Len(<<>>) = {} /\ <<>> \in Seq(Nat)
  OBVIOUS
<1> HIDE DEF h
<1>4. IsTrace(h, After(<<>>, <<>>, 0), <<>>)
  BY <1>3 DEF IsTrace
<1>5. g[Len(w)] \in Seq(Nat)
  BY <1>1, <1>2, <1>3, <1>4, TablePartRead
<1> QED
  BY <1>2, <1>5

\* A whole table is read as the regions it was written for, of any number and
\* with offsets and depths of any size, and it ends behind the last of them.
THEOREM WholeTableRead ==
  ASSUME NEW w \in Seq(Writable), NEW f, IsTrace(f, NothingRead, Written(w))
  PROVE  /\ Written(w) \in Seq(Nat)
         /\ f[Len(Written(w))] = After(w, <<>>, 0)
<1> DEFINE table == Written(w)
           n == Len(w)
<1>1. n \in Nat
  OBVIOUS
<1>2. PICK g : IsBuilt(g, w) /\ table = g[n]
  BY <1>1, TableBuilt
<1>3. NothingRead = After(<<>>, <<>>, 0)
  BY DEF NothingRead, After
<1>4. IsTrace(f, After(<<>>, <<>>, 0), table)
  BY <1>3
<1> HIDE DEF table
<1>5. table \in Seq(Nat)
  BY WrittenTyped DEF table
<1>6. StartsWith(table, g[n])
  BY <1>2, <1>5 DEF StartsWith
<1>7. f[Len(g[n])] = After(SubSeq(w, 1, n), <<>>, 0)
  <2>1. n \in 0 .. n
    BY <1>1
  <2> QED
    BY <1>2, <1>4, <1>5, <1>6, <2>1, TablePartRead
<1>8. SubSeq(w, 1, n) = w
  BY SubSeqFull
<1> QED
  BY <1>2, <1>5, <1>7, <1>8 DEF table

\* Wherever a table is cut inside an entry, decode_exception_table notices.
THEOREM TornTableRead ==
  ASSUME NEW w \in Seq(Writable), NEW r \in Writable,
         NEW m \in 1 .. Len(WrittenEntry(r)) - 1, NEW f,
         IsTrace(f, NothingRead, Written(w) \o SubSeq(WrittenEntry(r), 1, m))
  PROVE  Truncated(f[Len(Written(w) \o SubSeq(WrittenEntry(r), 1, m))])
<1> DEFINE whole == Written(w)
           bs == WrittenEntry(r)
           part == SubSeq(bs, 1, m)
           table == whole \o part
           at == Len(whole)
<1>1. bs \in Seq(Nat) /\ Len(bs) \in Nat /\ m \in Nat /\ m \in 1 .. Len(bs)
  <2>1. \A e : \A v \in Nat : bs \in Seq(Nat)
    BY EntryIsRead
  <2>2. bs \in Seq(Nat)
    BY <2>1
  <2> HIDE DEF bs
  <2>3. Len(bs) \in Nat
    BY <2>2
  <2>4. m \in 1 .. Len(bs) - 1
    BY DEF bs
  <2> QED
    BY <2>2, <2>3, <2>4
<1>2. part \in Seq(Nat) /\ Len(part) = m /\ \A k \in 1 .. m : part[k] = bs[k]
  <2> HIDE DEF bs
  <2>1. \A k \in 1 .. m : bs[k] \in Nat
    BY <1>1, ElementOfSeq
  <2> QED
    BY <1>1, <2>1, SubSeqProperties
<1>3. IsTrace(f, NothingRead, table)
  OBVIOUS
<1> HIDE DEF bs, part
<1>4. whole \in Seq(Nat) /\ at \in Nat
  <2>2. whole \in Seq(Nat)
    BY WrittenTyped
  <2> HIDE DEF whole
  <2> QED
    BY <2>2
<1> HIDE DEF whole
<1>5. /\ table \in Seq(Nat) /\ Len(table) = at + m
      /\ \A k \in 1 .. at : table[k] = whole[k]
      /\ \A k \in 1 .. m : table[at + k] = part[k]
  <2>1. /\ table \in Seq(Nat) /\ Len(table) = at + Len(part)
        /\ \A k \in 1 .. at + Len(part) : table[k] = IF k <= at THEN whole[k] ELSE part[k - at]
    BY <1>2, <1>4, ConcatProperties
  <2> HIDE DEF table, at
  <2>2. \A k \in 1 .. at : k \in 1 .. at + m /\ k <= at
    BY <1>1, <1>4
  <2>3. \A k \in 1 .. m : at + k \in 1 .. at + m /\ ~(at + k <= at) /\ (at + k) - at = k
    BY <1>1, <1>4
  <2> QED
    BY <1>2, <2>1, <2>2, <2>3
<1> HIDE DEF table, at
<1>6. f[at] = After(w, <<>>, 0)
  <2>1. IsTrace(f, NothingRead, whole)
    <3>1. \A k \in 1 .. at : k \in 1 .. at + m
      BY <1>1, <1>4
    <3> QED
      BY <1>3, <1>5, <3>1 DEF IsTrace, at
  <2> QED
    BY <2>1, WholeTableRead DEF whole, at
<1>7. \A k \in 1 .. m : f[at + k] = ReadByte(f[(at + k) - 1], bs[k])
  <2> SUFFICES ASSUME NEW k \in 1 .. m
               PROVE  f[at + k] = ReadByte(f[(at + k) - 1], bs[k])
    OBVIOUS
  <2>1. at + k \in 1 .. at + m
    BY <1>1, <1>4
  <2>2. f[at + k] = ReadByte(f[(at + k) - 1], table[at + k])
    BY <1>3, <1>5, <2>1 DEF IsTrace
  <2>3. table[at + k] = bs[k]
    BY <1>2, <1>5
  <2> QED
    BY <2>2, <2>3, Zenon
<1>8. Truncated(f[at + m])
  <2>1. m \in 0 .. Len(bs) /\ 0 < m /\ m < Len(bs)
    <3>1. m \in 1 .. Len(bs) - 1
      BY DEF bs
    <3> QED
      BY <1>1, <3>1
  <2> QED
    BY <1>4, <1>6, <1>7, <2>1, EntryFollowed DEF bs
<1> QED
  BY <1>5, <1>8 DEF table, whole, part, bs
=============================================================================
