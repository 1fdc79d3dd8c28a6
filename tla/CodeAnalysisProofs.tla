------------------------- MODULE CodeAnalysisProofs -------------------------
(***************************************************************************)
(* What is proved of the depth analysis, of build_cfg and of the marking   *)
(* alone holds when they follow each other on one code object: each stage  *)
(* starts its component in one of its initial states, and a step of the    *)
(* machine is a step of the component's machine.                           *)
(*                                                                         *)
(* The marking comes first here, for any graph.  Its inductive invariant   *)
(* has two halves: no closed set with the entry is ever left, and marked   *)
(* and queued blocks together are closed, so that with an empty deque the  *)
(* marked blocks are themselves such a set.                                *)
(*                                                                         *)
(* The analysis of depths and the marking agree because each finds the     *)
(* least set that nothing leads out of, and what leads from instruction to *)
(* instruction leads from block to block (FlowLeads): the blocks of the    *)
(* instructions with a depth are closed, and so are the instructions of    *)
(* the marked blocks.                                                      *)
(*                                                                         *)
(* That the table is read as it was written is proved of its bytes in      *)
(* BuildCFGProofs; here the two readings of one table are brought together *)
(* (TableVerdict).                                                         *)
(*                                                                         *)
(* The graph is built from a generator's code without its first two        *)
(* instructions.  That hides no step: a region that covered one of them,   *)
(* or a jump to it, would name an offset that the graph does not find.     *)
(***************************************************************************)
EXTENDS CodeAnalysis, FiniteSets, SequenceTheorems, FiniteSetTheorems, TLAPS

D == INSTANCE StackDepthProofs   WITH Programs <- Normalized, outcome <- depthOutcome,
                                      pending <- queue
G == INSTANCE BuildCFGProofs     WITH Programs <- FlowCodes, program <- flow,
                                      outcome <- graphOutcome, pc <- FlowPc

\* No code object starts with MAKE_CELL or COPY_FREE_VARS before RETURN_GENERATOR.
LeadingGenerators ==
  \A p \in Programs : \A i \in Instructions(p) : p.kind[i] = "generator" => i = 1

\* f is what has been read after each byte of the table.
IsReading(table, f) ==
  /\ f[0] = Table!NothingRead
  /\ \A k \in 1 .. Len(table) : f[k] = Table!ReadByte(f[k - 1], table[k])

\* The regions of a program are those its table has for any reader.
TablesDecode ==
  \A p \in Programs :
    /\ p.table \in Seq(Nat)
    /\ \E f : IsReading(p.table, f) /\ Table!Regions(f[Len(p.table)]) = p.regions

\* A table has the entries of its regions and may end inside one more.  An entry
\* covers code: CPython writes none for an empty region.
TablesWritten ==
  \A p \in Programs :
    /\ p.written \in Seq(G!Writable)
    /\ \/ p.table = Table!Written(p.written)
       \/ \E v \in Seq(G!Writable), r \in G!Writable :
            \E m \in 1 .. Len(Table!WrittenEntry(r)) - 1 :
              p.table = Table!Written(v) \o SubSeq(Table!WrittenEntry(r), 1, m)

\* What a component finds when its stage starts.
NotStarted ==
  /\ stage \in {"normalizing", "badTarget"} =>
       /\ depthOutcome = "analysing" /\ depths = [i \in {} |-> 0]
       /\ queue = D!InitialPending(program)
  /\ stage # "marking" =>
       pc = 1 /\ depth = 0 /\ block = 1 /\ leaders = {} /\ edges = {}
  /\ stage \notin {"marking", "badGraph"} => graphOutcome = "building"

\* The bytes that have been taken have said what they say to any reader.
ReadSoFar ==
  stage \in {"normalizing", "analysing", "reading"} =>
    LET taken == Len(program.table) - Len(unread) IN
      /\ unread \in Seq(Nat) /\ Len(unread) <= Len(program.table)
      /\ \A k \in 1 .. Len(unread) : unread[k] = program.table[taken + k]
      /\ \A f : IsReading(program.table, f) => read = f[taken]

\* The list of a block's successors has the blocks its edges lead to, and no others.
Listed ==
  /\ successors \in [Block -> Seq(Block)]
  /\ \A b \in leaders :
       \A e \in edges : e[1] = b => e[2] - 1 \in Search!Elements(successors[b - 1])
  /\ \A b \in Block : \A t \in Search!Elements(successors[b]) : <<b + 1, t + 1>> \in edges

\* The inductive invariant, stage by stage.
Inv ==
  /\ program \in Programs
  /\ NotStarted /\ ReadSoFar
  /\ stage = "analysing" => depthOutcome = "analysing"
  /\ stage \notin {"normalizing", "badTarget"} => D!Inv
  /\ stage \in {"reading", "building", "marking"} => depthOutcome = "ok"
  /\ stage \in {"building", "marking"} => flow = FlowCode(program, program.regions) /\ G!Inv
  /\ stage = "marking" => graphOutcome = "built" /\ Listed /\ Search!SearchInvariant
  /\ Search!TypeOK

\* The elements of a list survive in its tail, except for the head.
LEMMA ElementsHeadTail ==
  ASSUME NEW S, NEW list \in Seq(S), list # <<>>
  PROVE  /\ Head(list) \in S
         /\ Search!Elements(list) = {Head(list)} \union Search!Elements(Tail(list))
<1>1. Len(list) \in Nat \ {0} /\ Head(list) = list[1]
  OBVIOUS
<1>2. DOMAIN Tail(list) = 1 .. Len(list) - 1
  BY <1>1
<1>3. \A i \in 1 .. Len(list) - 1 : Tail(list)[i] = list[i + 1]
  BY <1>1
<1>4. ASSUME NEW x \in Search!Elements(list), x # list[1]
      PROVE  x \in Search!Elements(Tail(list))
  <2>1. PICK i \in DOMAIN list : x = list[i]
    BY <1>4 DEF Search!Elements
  <2>2. i - 1 \in 1 .. Len(list) - 1 /\ Tail(list)[i - 1] = list[i]
    BY <2>1, <1>1, <1>3, <1>4
  <2> QED
    BY <2>1, <2>2, <1>2 DEF Search!Elements
<1>5. Search!Elements(Tail(list)) \subseteq Search!Elements(list)
  BY <1>1, <1>2, <1>3 DEF Search!Elements
<1>6. list[1] \in Search!Elements(list) /\ list[1] \in S
  BY <1>1 DEF Search!Elements
<1> QED
  BY <1>1, <1>4, <1>5, <1>6

\* Extending a list adds the elements of the extension and loses none.
LEMMA ElementsConcat ==
  ASSUME NEW S, NEW a \in Seq(S), NEW b \in Seq(S)
  PROVE  Search!Elements(a \o b) = Search!Elements(a) \union Search!Elements(b)
<1>1. /\ a \o b \in Seq(S)
      /\ Len(a \o b) = Len(a) + Len(b)
      /\ Len(a) \in Nat /\ Len(b) \in Nat
      /\ \A i \in 1 .. Len(a) : (a \o b)[i] = a[i]
      /\ \A i \in 1 .. Len(b) : (a \o b)[Len(a) + i] = b[i]
  OBVIOUS
<1>2. Search!Elements(a) \subseteq Search!Elements(a \o b)
  BY <1>1 DEF Search!Elements
<1>3. Search!Elements(b) \subseteq Search!Elements(a \o b)
  <2> SUFFICES ASSUME NEW i \in 1 .. Len(b) PROVE b[i] \in Search!Elements(a \o b)
    BY <1>1 DEF Search!Elements
  <2>1. Len(a) + i \in DOMAIN (a \o b) /\ (a \o b)[Len(a) + i] = b[i]
    BY <1>1
  <2> QED
    BY <2>1 DEF Search!Elements
<1>4. Search!Elements(a \o b) \subseteq Search!Elements(a) \union Search!Elements(b)
  <2> SUFFICES ASSUME NEW i \in 1 .. Len(a) + Len(b)
               PROVE  (a \o b)[i] \in Search!Elements(a) \union Search!Elements(b)
    BY <1>1 DEF Search!Elements
  <2>1. CASE i <= Len(a)
    BY <2>1, <1>1 DEF Search!Elements
  <2>2. CASE i > Len(a)
    <3>1. i - Len(a) \in 1 .. Len(b) /\ i = Len(a) + (i - Len(a))
      BY <2>2, <1>1
    <3> QED
      BY <3>1, <1>1 DEF Search!Elements
  <2> QED
    BY <2>1, <2>2, <1>1
<1> QED
  BY <1>2, <1>3, <1>4

\* Following an edge out of a reachable block leads to a reachable block.
LEMMA ReachableIsClosed ==
  ASSUME NEW arcs \in SUBSET (Search!Block \X Search!Block)
  PROVE  /\ Search!Entry \in Search!ReachableBlocks(arcs)
         /\ Search!Closed(arcs, Search!ReachableBlocks(arcs))
         /\ Search!ReachableBlocks(arcs) \subseteq Search!Block
BY MaxCodeAssumption DEF Search!ReachableBlocks, Search!Closed, Search!Block, Search!Entry

\* Neither way through the loop body leaves the types.
LEMMA SearchNextTyped == Search!TypeOK /\ [Search!Next]_(Search!vars) => Search!TypeOK'
<1> SUFFICES ASSUME Search!TypeOK, [Search!Next]_(Search!vars) PROVE Search!TypeOK'
  OBVIOUS
<1>1. CASE Search!SkipSeen
  BY <1>1 DEF Search!SkipSeen, Search!TypeOK
<1>2. CASE Search!Mark
  <2>1. Head(pending) \in Search!Block
    BY <1>2, ElementsHeadTail DEF Search!Mark, Search!TypeOK
  <2>2. Tail(pending) \in Seq(Search!Block) /\ successors[Head(pending)] \in Seq(Search!Block)
    BY <1>2, <2>1 DEF Search!Mark, Search!TypeOK
  <2> QED
    BY <1>2, <2>1, <2>2 DEF Search!Mark, Search!TypeOK
<1>3. CASE UNCHANGED Search!vars
  BY <1>3 DEF Search!vars, Search!TypeOK
<1> QED
  BY <1>1, <1>2, <1>3 DEF Search!Next

\* Before the first block is popped.
SearchFresh ==
  successors \in [Search!Block -> Seq(Search!Block)] /\ pending = <<Search!Entry>> /\ seen = {}

\* The deque starts with the entry.
LEMMA SearchFreshInv == SearchFresh => Search!TypeOK /\ Search!SearchInvariant
<1> SUFFICES ASSUME SearchFresh PROVE Search!TypeOK /\ Search!SearchInvariant
  OBVIOUS
<1>1. Search!Elements(pending) = {Search!Entry}
  BY DEF SearchFresh, Search!Elements
<1>2. Search!Edges \in SUBSET (Search!Block \X Search!Block)
  BY DEF Search!Edges
<1>3. Search!TypeOK
  BY MaxCodeAssumption DEF SearchFresh, Search!TypeOK, Search!Block, Search!Entry
<1> QED
  BY <1>1, <1>2, <1>3, ReachableIsClosed
  DEF SearchFresh, Search!SearchInvariant, Search!OnlyReachable, Search!NothingForgotten

\* A search that is started in the middle of a behaviour starts well.
LEMMA SearchStartedInv == SearchFresh' => (Search!TypeOK /\ Search!SearchInvariant)'
BY SearchFreshInv, PTL

\* Every behaviour starts so.
LEMMA SearchInitInv == Search!Init => Search!TypeOK /\ Search!SearchInvariant
BY SearchFreshInv DEF Search!Init, SearchFresh, Search!Block, Block

\* TypeOK holds in every state of the search.
LEMMA SearchTyped == Search!Spec => []Search!TypeOK
BY SearchInitInv, SearchNextTyped, PTL DEF Search!Spec

\* Neither way through the loop body loses a block or adds a dead one.
LEMMA SearchNextInv ==
  Search!TypeOK /\ Search!TypeOK' /\ Search!SearchInvariant /\ [Search!Next]_(Search!vars)
    => Search!SearchInvariant'
<1> SUFFICES ASSUME Search!TypeOK, Search!TypeOK', Search!SearchInvariant,
                    [Search!Next]_(Search!vars)
             PROVE  Search!SearchInvariant'
  OBVIOUS
<1> USE DEF Search!SearchInvariant
<1>1. CASE Search!SkipSeen
  <2>1. Search!Elements(pending) = {Head(pending)} \union Search!Elements(pending')
    BY <1>1, ElementsHeadTail DEF Search!SkipSeen, Search!TypeOK
  <2>2. seen' \union Search!Elements(pending') = seen \union Search!Elements(pending)
    BY <1>1, <2>1 DEF Search!SkipSeen
  <2>3. Search!Edges' = Search!Edges
    BY <1>1 DEF Search!SkipSeen, Search!Edges
  <2>4. Search!OnlyReachable'
    BY <2>2, <2>3 DEF Search!OnlyReachable
  <2>5. Search!NothingForgotten'
    BY <1>1, <2>2 DEF Search!NothingForgotten, Search!SkipSeen
  <2> QED
    BY <2>4, <2>5
<1>2. CASE Search!Mark
  <2> DEFINE index == Head(pending)
  <2>1. /\ index \in Search!Block
        /\ Search!Elements(pending) = {index} \union Search!Elements(Tail(pending))
    BY <1>2, ElementsHeadTail DEF Search!Mark, Search!TypeOK
  <2>2. Tail(pending) \in Seq(Search!Block) /\ successors[index] \in Seq(Search!Block)
    BY <1>2, <2>1 DEF Search!Mark, Search!TypeOK
  <2>3. Search!Elements(pending')
          = Search!Elements(Tail(pending)) \union Search!Elements(successors[index])
    <3> HIDE DEF index
    <3>1. pending' = Tail(pending) \o successors[index]
      BY <1>2 DEF Search!Mark, index
    <3>2. Search!Elements(Tail(pending) \o successors[index])
            = Search!Elements(Tail(pending)) \union Search!Elements(successors[index])
      BY <2>2, ElementsConcat
    <3> QED
      BY <3>1, <3>2
  <2>4. seen' \union Search!Elements(pending')
          = seen \union Search!Elements(pending) \union Search!Elements(successors[index])
    BY <1>2, <2>1, <2>3 DEF Search!Mark
  <2>5. Search!Edges' = Search!Edges
    BY <1>2 DEF Search!Mark, Search!Edges
  <2>6. Search!OnlyReachable'
    <3>1. index \in Search!ReachableBlocks(Search!Edges)
      BY <2>1 DEF Search!OnlyReachable
    <3>2. \A t \in Search!Elements(successors[index]) : <<index, t>> \in Search!Edges
      BY <2>1, <2>2 DEF Search!Edges, Search!Elements
    <3>3. Search!Elements(successors[index]) \subseteq Search!ReachableBlocks(Search!Edges)
      <4>1. Search!Edges \in SUBSET (Search!Block \X Search!Block)
        BY DEF Search!Edges
      <4>2. Search!Closed(Search!Edges, Search!ReachableBlocks(Search!Edges))
        BY <4>1, ReachableIsClosed
      <4> QED
        BY <3>1, <3>2, <4>2 DEF Search!Closed
    <3> QED
      BY <2>4, <2>5, <3>3 DEF Search!OnlyReachable
  <2>7. Search!NothingForgotten'
    BY <1>2, <2>1, <2>3, <2>4 DEF Search!NothingForgotten, Search!Mark
  <2> QED
    BY <2>6, <2>7
<1>3. CASE UNCHANGED Search!vars
  BY <1>3 DEF Search!vars, Search!OnlyReachable, Search!NothingForgotten, Search!Edges
<1> QED
  BY <1>1, <1>2, <1>3 DEF Search!Next

\* Marked and queued blocks are reachable, and no successor is forgotten.
LEMMA SearchInvariantHolds == Search!Spec => []Search!SearchInvariant
<1>1. Search!Spec => []Search!TypeOK
  BY SearchTyped
<1>2. Search!Init => Search!SearchInvariant
  BY SearchInitInv
<1>3. Search!TypeOK /\ Search!TypeOK' /\ Search!SearchInvariant /\ [Search!Next]_(Search!vars)
        => Search!SearchInvariant'
  BY SearchNextInv
<1> QED
  BY <1>1, <1>2, <1>3, PTL DEF Search!Spec

\* An empty deque means that the reachable flags are exactly right.
LEMMA ExactWhenEmpty == Search!TypeOK /\ Search!SearchInvariant => Search!MarksExactlyReachable
<1> SUFFICES ASSUME Search!TypeOK, Search!SearchInvariant, pending = <<>>
             PROVE  seen = Search!ReachableBlocks(Search!Edges)
  BY DEF Search!MarksExactlyReachable
<1>1. Search!Elements(pending) = {}
  BY DEF Search!Elements
<1>2. seen \subseteq Search!ReachableBlocks(Search!Edges)
  BY DEF Search!SearchInvariant, Search!OnlyReachable
<1>3. Search!Entry \in seen /\ Search!Closed(Search!Edges, seen)
  BY <1>1 DEF Search!SearchInvariant, Search!NothingForgotten, Search!Closed, Search!Edges
<1>4. Search!ReachableBlocks(Search!Edges) \subseteq seen
  BY <1>3 DEF Search!ReachableBlocks, Search!TypeOK
<1> QED
  BY <1>2, <1>4

\* The search of _mark_reachable ends with exactly the reachable blocks, for any
\* number of blocks and any lists of their successors.
THEOREM ReachabilityCorrect == Search!Spec => []Search!MarksExactlyReachable
<1> QED
  BY ExactWhenEmpty, SearchTyped, SearchInvariantHolds, PTL

\* What is cut off in front of the code of a generator.
LEMMA FlowCodeShape ==
  ASSUME NEW p \in Programs,
         \A r \in p.regions : {r.start, r.end, r.target} \subseteq Nat
  PROVE  LET c == FlowCode(p, p.regions) IN
         /\ Skip(p) \in {0, 2} /\ Len(p.offset) - Skip(p) \in Nat \ {0}
         /\ Instructions(c) = 1 .. Len(p.offset) - Skip(p)
         /\ \A i \in Instructions(c) : /\ i + Skip(p) \in Instructions(p)
                                       /\ c.offset[i] = p.offset[i + Skip(p)]
                                       /\ c.kind[i] = p.kind[i + Skip(p)]
                                       /\ c.target[i] = p.target[i + Skip(p)]
         /\ c.regions = p.regions
         /\ IsProgram(c)
<1> DEFINE s == Skip(p)
           n == Len(p.offset)
           c == FlowCode(p, p.regions)
<1>1. IsProgram(p) /\ (p.kind[1] = "generator" => n > 2)
  BY ProgramsAssumption
<1>2. n \in Nat /\ n > 0 /\ p.offset \in Seq(Nat)
  BY <1>1 DEF IsProgram
<1>3. s \in {0, 2} /\ n - s \in Nat \ {0} /\ s + 1 \in Int
  BY <1>1, <1>2 DEF Skip
<1>4. c.regions = p.regions /\ c.offset = SubSeq(p.offset, s + 1, n)
  BY DEF FlowCode
<1>5. c.kind = SubSeq(p.kind, s + 1, n) /\ c.target = SubSeq(p.target, s + 1, n)
  BY DEF FlowCode
<1> HIDE DEF s, n, c
<1>6. n \in Nat /\ s \in Nat /\ s + 1 \in Int /\ \A i \in 1 .. n - s : i + s \in 1 .. n
  BY <1>2, <1>3
<1>7. \A field : SubSeq(field, s + 1, n) = [i \in 1 .. n - s |-> field[i + s]]
  BY <1>2, <1>3
<1>8. c.offset = [i \in 1 .. n - s |-> p.offset[i + s]]
  BY <1>4, <1>7, Zenon
<1>9. c.kind = [i \in 1 .. n - s |-> p.kind[i + s]]
  BY <1>5, <1>7, Zenon
<1>10. c.target = [i \in 1 .. n - s |-> p.target[i + s]]
  BY <1>5, <1>7, Zenon
<1>11. p.offset \in [1 .. n -> Nat]
  BY <1>2 DEF n
<1>12. /\ p.kind \in [1 .. n -> {"plain", "branch", "jump", "stop", "generator"}]
      /\ p.target \in [1 .. n -> Nat]
      /\ \A i, j \in 1 .. n : i < j => p.offset[i] < p.offset[j]
  BY <1>1 DEF IsProgram, Instructions, n
<1>13. /\ c.offset \in [1 .. n - s -> Nat]
      /\ \A i \in 1 .. n - s : c.offset[i] = p.offset[i + s]
  BY <1>6, <1>11, <1>8
<1>14. /\ c.target \in [1 .. n - s -> Nat]
       /\ \A i \in 1 .. n - s : c.target[i] = p.target[i + s]
  BY <1>6, <1>12, <1>10
<1>15. /\ c.kind \in [1 .. n - s -> {"plain", "branch", "jump", "stop", "generator"}]
       /\ \A i \in 1 .. n - s : c.kind[i] = p.kind[i + s]
  BY <1>6, <1>12, <1>9
<1>16. c.offset \in Seq(Nat) /\ Len(c.offset) = n - s
  <2>1. \A i \in s + 1 .. n : p.offset[i] \in Nat
    BY <1>2, <1>3, <1>11
  <2>2. c.offset \in Seq(Nat)
    BY <1>4, <1>6, <2>1, SubSeqProperties
  <2> QED
    BY <1>13, <2>2, <1>3, LenProperties
<1>17. Instructions(c) = 1 .. n - s
  BY <1>16 DEF Instructions
<1>18. \A i, j \in 1 .. n - s : i < j => c.offset[i] < c.offset[j]
  <2> SUFFICES ASSUME NEW i \in 1 .. n - s, NEW j \in 1 .. n - s, i < j
               PROVE  c.offset[i] < c.offset[j]
    OBVIOUS
  <2>1. i + s < j + s /\ i + s \in 1 .. n /\ j + s \in 1 .. n
    BY <1>2, <1>3
  <2> QED
    BY <1>12, <1>13, <2>1
<1>19. IsProgram(c)
  <2>1. Len(c.offset) > 0 /\ c.offset \in Seq(Nat)
    BY <1>3, <1>16
  <2>2. \A r \in c.regions : {r.start, r.end, r.target} \subseteq Nat
    BY <1>4
  <2> QED
    BY <1>14, <1>17, <1>18, <1>15, <2>1, <2>2 DEF IsProgram
<1>20. Instructions(p) = 1 .. n
  BY DEF Instructions, n
<1> QED
  BY <1>3, <1>4, <1>13, <1>14, <1>17, <1>6, <1>19, <1>20, <1>15 DEF c, s, n

\* The actions of the instances in CodeAnalysis are those of the proofs.
LEMMA SameDepth ==
  /\ Depth!Analyse => D!Analyse
  /\ Depth!Fall => D!Fall
  /\ Depth!Resume => D!Resume
  /\ Depth!Jump => D!Jump
  /\ Depth!Raise => D!Raise
<1> USE DEF Depth!Code, D!Code, Depth!Instructions, D!Instructions, Depth!Running, D!Running
<1>1. Depth!Analyse => D!Analyse
  BY DEF Depth!Analyse, D!Analyse, Depth!Again, D!Again, Depth!Inconsistent, D!Inconsistent,
         Depth!Shallow, D!Shallow, Depth!Missing, D!Missing, Depth!Record, D!Record,
         Depth!Finish, D!Finish, Depth!Analysing, D!Analysing, Depth!JumpItems, D!JumpItems,
         Depth!FallItems, D!FallItems, Depth!HandlerItems, D!HandlerItems,
         Depth!HandlersAt, D!HandlersAt, Depth!HandlerDepth, D!HandlerDepth,
         Depth!Covers, D!Covers, Depth!JumpsTo, D!JumpsTo, Depth!HasTarget, D!HasTarget,
         Depth!OffsetSet, D!OffsetSet
<1>2. Depth!Fall => D!Fall
  BY DEF Depth!Fall, D!Fall, Depth!FallsTo, D!FallsTo
<1>3. Depth!Resume => D!Resume
  BY DEF Depth!Resume, D!Resume, Depth!FallsTo, D!FallsTo
<1>4. Depth!Jump => D!Jump
  BY DEF Depth!Jump, D!Jump, Depth!JumpsTo, D!JumpsTo, Depth!HasTarget, D!HasTarget
<1>5. Depth!Raise => D!Raise
  BY DEF Depth!Raise, D!Raise, Depth!Covers, D!Covers
<1> QED
  BY <1>1, <1>2, <1>3, <1>4, <1>5

\* What the machine's step reads in the whole code and in the code of the graph.
LEMMA MachineReads ==
  ASSUME program \in Programs, D!TypeOK,
         Depth!Fall \/ Depth!Resume \/ Depth!Jump \/ Depth!Raise
  PROVE  /\ pc \in Instructions(program) /\ pc' \in Instructions(program)
         /\ program' = program
         /\ \/ FallsTo(program, pc, pc')
            \/ JumpsTo(program, pc, pc')
            \/ RaisesTo(program, pc, pc')
<1>1. pc \in Instructions(program)
  BY DEF D!TypeOK, D!Code, D!Instructions, Instructions
<1>2. CASE Depth!Fall \/ Depth!Resume
  BY <1>1, <1>2 DEF Depth!Fall, Depth!Resume, Depth!FallsTo, FallsTo, Depth!Code,
                    Depth!Instructions, Instructions
<1>3. CASE Depth!Jump
  BY <1>1, <1>3 DEF Depth!Jump, Depth!JumpsTo, JumpsTo, Depth!HasTarget, HasTarget, Depth!Code,
                    Depth!Instructions, Instructions
<1>4. CASE Depth!Raise
  <2>1. PICK r \in program.regions :
          /\ Depth!Covers(r, program.offset[pc])
          /\ \E j \in Depth!Code : program.offset[j] = r.target /\ pc' = j
    BY <1>4 DEF Depth!Raise
  <2>2. RaisesTo(program, pc, pc')
    BY <2>1 DEF RaisesTo, Depth!Covers, Covers
  <2> QED
    BY <1>1, <1>4, <2>1, <2>2 DEF Depth!Raise, Depth!Code, Depth!Instructions, Instructions
<1> QED
  BY <1>2, <1>3, <1>4

\* Nothing that the graph was built from leads into the part that was cut off,
\* and no region covers it.
LEMMA NothingReferencesPrefix ==
  ASSUME NEW p \in Programs, \A r \in p.regions : {r.start, r.end, r.target} \subseteq Nat,
         G!Referenced(FlowCode(p, p.regions)) \subseteq G!OffsetSet(FlowCode(p, p.regions)),
         NEW i \in Instructions(p), NEW j \in Instructions(p)
  PROVE  /\ i > Skip(p) /\ JumpsTo(p, i, j) => j > Skip(p)
         /\ RaisesTo(p, i, j) => i > Skip(p) /\ j > Skip(p)
<1> DEFINE s == Skip(p)
           c == FlowCode(p, p.regions)
<1>1. /\ s \in {0, 2} /\ Len(p.offset) - s \in Nat \ {0} /\ Len(p.offset) \in Nat
      /\ Instructions(c) = 1 .. Len(p.offset) - s /\ c.regions = p.regions
      /\ \A k \in Instructions(c) : /\ k + s \in Instructions(p)
                                    /\ c.offset[k] = p.offset[k + s]
                                    /\ c.kind[k] = p.kind[k + s]
                                    /\ c.target[k] = p.target[k + s]
  BY FlowCodeShape, ProgramsAssumption DEF IsProgram
<1>2. IsProgram(p) /\ Instructions(p) = 1 .. Len(p.offset)
  BY ProgramsAssumption DEF Instructions
<1>3. \A k, l \in Instructions(p) : k < l => p.offset[k] < p.offset[l]
  BY <1>2 DEF IsProgram
<1>4. \A k \in Instructions(p) : p.offset[k] \in Nat
  BY <1>2 DEF IsProgram
<1> HIDE DEF s, c
<1>5. \A o \in G!Referenced(c) : \E k \in Instructions(c) : o = p.offset[k + s]
  BY <1>1 DEF G!OffsetSet, G!Instructions, Instructions, c
<1>6. \A k \in Instructions(p) : p.offset[k] \in G!Referenced(c) => k > s
  <2> SUFFICES ASSUME NEW k \in Instructions(p), p.offset[k] \in G!Referenced(c) PROVE k > s
    OBVIOUS
  <2>1. PICK l \in Instructions(c) : p.offset[k] = p.offset[l + s]
    BY <1>5
  <2>2. l + s \in Instructions(p) /\ l + s > s /\ k \in Nat /\ l + s \in Nat
    BY <1>1, <1>2
  <2>3. k = l + s
    BY <1>3, <1>4, <2>1, <2>2
  <2> QED
    BY <2>2, <2>3
<1>7. ASSUME i > s, JumpsTo(p, i, j) PROVE j > s
  <2>1. i - s \in Instructions(c) /\ (i - s) + s = i
    BY <1>1, <1>2, <1>7
  <2>2. c.kind[i - s] = p.kind[i] /\ c.target[i - s] = p.target[i]
    BY <1>1, <2>1
  <2>3. p.target[i] \in G!Referenced(c)
    BY <1>7, <2>1, <2>2 DEF JumpsTo, HasTarget, G!Referenced, G!HasTarget, G!Instructions,
                            Instructions
  <2> QED
    BY <1>6, <1>7, <2>3 DEF JumpsTo
<1>8. ASSUME RaisesTo(p, i, j) PROVE i > s /\ j > s
  <2>1. PICK r \in p.regions : Covers(r, p.offset[i]) /\ p.offset[j] = r.target
    BY <1>8 DEF RaisesTo
  <2>2. {r.start, r.target} \subseteq G!Referenced(c)
    BY <1>1, <2>1 DEF G!Referenced
  <2>3. PICK l \in Instructions(c) : r.start = p.offset[l + s]
    BY <1>5, <2>2
  <2>4. l + s \in Instructions(p) /\ l + s > s /\ i \in Nat /\ l + s \in Nat /\ s \in Nat
    BY <1>1, <1>2
  <2>5. p.offset[l + s] <= p.offset[i]
    BY <2>1, <2>3 DEF Covers
  <2>6. ~(i < l + s)
    BY <1>3, <1>4, <2>4, <2>5
  <2> QED
    BY <1>6, <2>1, <2>2, <2>4, <2>6
<1> QED
  BY <1>7, <1>8 DEF s

\* A step of the machine is one of the machine of the graph, or none.
LEMMA MachineSteps ==
  ASSUME program \in Programs, D!TypeOK, G!Inv, graphOutcome = "built",
         flow = FlowCode(program, program.regions),
         Depth!Fall \/ Depth!Resume \/ Depth!Jump \/ Depth!Raise, Enter
  PROVE  G!Fall \/ G!Jump \/ G!Raise \/ UNCHANGED G!vars
<1> DEFINE p == program
           s == Skip(program)
<1>1. /\ pc \in Instructions(p) /\ pc' \in Instructions(p) /\ p' = p
      /\ FallsTo(p, pc, pc') \/ JumpsTo(p, pc, pc') \/ RaisesTo(p, pc, pc')
  BY MachineReads
<1>2. /\ G!Referenced(flow) \subseteq G!OffsetSet(flow)
      /\ G!InBlock(flow, block, FlowPc)
  BY DEF G!Inv, G!GraphBuilt, G!StaysInBlock
<1>3. IsProgram(p) /\ \A r \in p.regions : {r.start, r.end, r.target} \subseteq Nat
  BY ProgramsAssumption DEF IsProgram
<1>4. /\ s \in {0, 2} /\ Len(p.offset) - s \in Nat \ {0} /\ Len(p.offset) \in Nat
      /\ Instructions(flow) = 1 .. Len(p.offset) - s /\ flow.regions = p.regions
      /\ \A k \in Instructions(flow) : /\ k + s \in Instructions(p)
                                       /\ flow.offset[k] = p.offset[k + s]
                                       /\ flow.kind[k] = p.kind[k + s]
                                       /\ flow.target[k] = p.target[k + s]
  <2>1. Len(p.offset) \in Nat
    BY <1>3 DEF IsProgram
  <2> QED
    BY <1>3, <2>1, FlowCodeShape
<1>5. Instructions(p) = 1 .. Len(p.offset)
  BY DEF Instructions
<1>6. /\ UNCHANGED <<flow, graphOutcome, leaders, edges>>
      /\ block' = IF FlowPc' \in leaders THEN FlowPc' ELSE block
  BY DEF Enter, graph
<1>7. FlowPc' = IF pc' <= s THEN 1 ELSE pc' - s
  BY <1>1 DEF FlowPc
<1>8. CASE pc > s /\ pc' > s
  <2> DEFINE i == pc - s
             j == pc' - s
  <2>1. /\ i \in Instructions(flow) /\ j \in Instructions(flow)
        /\ FlowPc = i /\ FlowPc' = j /\ i + s = pc /\ j + s = pc'
    BY <1>1, <1>4, <1>5, <1>7, <1>8 DEF FlowPc
  <2>2. /\ flow.offset[i] = p.offset[pc] /\ flow.offset[j] = p.offset[pc']
        /\ flow.kind[i] = p.kind[pc] /\ flow.target[i] = p.target[pc]
    BY <1>4, <2>1
  <2>3. G!Goto(j)
    BY <1>6, <2>1 DEF G!Goto
  <2>4. j \in G!Instructions(flow)
    BY <2>1 DEF G!Instructions, Instructions
  <2>5. CASE FallsTo(p, pc, pc')
    <3>1. G!FallsTo(flow, FlowPc, j)
      BY <1>1, <1>4, <1>5, <2>1, <2>2, <2>5 DEF FallsTo, G!FallsTo
    <3> QED
      BY <2>3, <2>4, <3>1 DEF G!Fall
  <2>6. CASE JumpsTo(p, pc, pc')
    <3>1. G!JumpsTo(flow, FlowPc, j)
      BY <2>1, <2>2, <2>6 DEF JumpsTo, G!JumpsTo, HasTarget, G!HasTarget
    <3> QED
      BY <2>3, <2>4, <3>1 DEF G!Jump
  <2>7. CASE RaisesTo(p, pc, pc')
    <3>1. G!RaisesTo(flow, FlowPc, j)
      BY <1>4, <2>1, <2>2, <2>7 DEF RaisesTo, G!RaisesTo, Covers, G!Covers
    <3> QED
      BY <2>3, <2>4, <3>1 DEF G!Raise
  <2> QED
    BY <1>1, <2>5, <2>6, <2>7
<1>9. CASE pc <= s
  <2>1. s = 2 /\ p.kind[1] = "generator" /\ p.kind[2] = "plain" /\ pc \in {1, 2}
    BY <1>1, <1>4, <1>5, <1>9, ProgramsAssumption DEF Skip
  <2>2. ~JumpsTo(p, pc, pc')
    BY <2>1 DEF JumpsTo, HasTarget
  <2>3. ~RaisesTo(p, pc, pc')
    <3>1. ~(pc > s)
      BY <2>1
    <3> QED
      BY <1>1, <1>2, <1>3, <3>1, NothingReferencesPrefix
  <2>4. pc' = pc + 1
    BY <1>1, <2>2, <2>3 DEF FallsTo
  <2>5. FlowPc = 1 /\ FlowPc' = 1
    BY <1>7, <2>1, <2>4 DEF FlowPc
  <2>6. block = 1
    <3>1. block \in Nat /\ block >= 1 /\ block <= 1
      BY <1>2, <2>5 DEF G!InBlock, G!Inv, G!TypeOK, G!Instructions
    <3> QED
      BY <3>1
  <2>7. block' = block
    BY <1>6, <2>5, <2>6
  <2> QED
    BY <1>6, <2>5, <2>7 DEF G!vars
<1>10. CASE pc > s /\ pc' <= s
  <2>1. ~FallsTo(p, pc, pc')
    BY <1>1, <1>4, <1>5, <1>10 DEF FallsTo
  <2>2. ~(pc' > s)
    BY <1>1, <1>4, <1>5, <1>10
  <2> QED
    BY <1>1, <1>2, <1>3, <1>10, <2>1, <2>2, NothingReferencesPrefix
<1> QED
  BY <1>1, <1>4, <1>5, <1>8, <1>9, <1>10

\* No stage has begun, no byte is taken.
LEMMA InitInv == ASSUME TablesDecode PROVE Init => Inv
<1> SUFFICES ASSUME Init PROVE Inv
  OBVIOUS
<1>1. NotStarted
  BY DEF Init, NotStarted, Depth!InitialPending, D!InitialPending, Depth!Instructions,
         D!Instructions
<1>2. ReadSoFar
  <2>1. program.table \in Seq(Nat) /\ unread = program.table /\ read = Table!NothingRead
    BY DEF Init, TablesDecode
  <2>2. Len(program.table) - Len(unread) = 0 /\ Len(unread) \in Nat
    BY <2>1
  <2>3. \A f : IsReading(program.table, f) => read = f[0]
    BY <2>1 DEF IsReading
  <2>4. \A k \in 1 .. Len(unread) : unread[k] = program.table[0 + k]
    BY <2>1, <2>2
  <2> QED
    BY <2>1, <2>2, <2>3, <2>4 DEF ReadSoFar
<1> QED
  <2>1. Search!TypeOK
    BY DEF Init, Search!TypeOK, Search!Block, Block
  <2> QED
    BY <1>1, <1>2, <2>1 DEF Init, Inv

\* Within a stage the other components stand still.
LEMMA DepthStands ==
  ASSUME LeadingGenerators, D!Inv, UNCHANGED <<program, analysis, pc, depth>>
  PROVE  D!Inv'
<1>1. D!LeadingGenerators
  BY DEF LeadingGenerators, D!LeadingGenerators, Normalized, D!Instructions, Instructions
<1> QED
  BY <1>1, D!NextInv DEF D!vars, analysis

\* So does the graph.
LEMMA GraphStands ==
  ASSUME G!Inv, UNCHANGED <<program, flow, graph, pc, block>>
  PROVE  G!Inv'
BY G!NextInv DEF G!vars, graph, FlowPc

\* And the search.
LEMMA SearchStands ==
  ASSUME Search!TypeOK, UNCHANGED search
  PROVE  Search!TypeOK' /\ (Search!SearchInvariant => Search!SearchInvariant')
BY SearchNextTyped, SearchNextInv, MaxCodeAssumption DEF Search!vars, search

\* analyze_stack starts on code whose jumps go somewhere.
LEMMA NormalizeInv == ASSUME LeadingGenerators, Inv, RefuseTarget \/ Normalize PROVE Inv'
<1>1. /\ stage = "normalizing" /\ stage' \in {"analysing", "badTarget"}
      /\ UNCHANGED <<program, analysis, decoding, flow, graph, search, pc, depth, block>>
  BY DEF RefuseTarget, Normalize
<1>2. NotStarted'
  BY <1>1 DEF Inv, NotStarted, analysis, graph, D!InitialPending
<1>3. ReadSoFar'
  BY <1>1 DEF Inv, ReadSoFar, decoding
<1>4. ASSUME stage' = "analysing" PROVE D!Inv' /\ depthOutcome' = "analysing"
  <2>1. TargetsExist(program)
    BY <1>1, <1>4 DEF RefuseTarget, Normalize
  <2>2. program \in Normalized /\ Depth!IsStackProgram(program)
    BY <2>1, ProgramsAssumption DEF Inv, Normalized
  <2>3. D!IsStackProgram(program)
    BY <2>2 DEF Depth!IsStackProgram, D!IsStackProgram, Depth!IsProgram, D!IsProgram,
                Depth!Instructions, D!Instructions, Depth!HasTarget, D!HasTarget,
                Depth!OffsetSet, D!OffsetSet
  <2>4. D!Fresh'
    BY <1>1, <2>2, <2>3 DEF D!Fresh, Inv, NotStarted, analysis
  <2> QED
    BY <2>4, D!StartedInv DEF D!Fresh
<1> QED
  BY <1>1, <1>2, <1>3, <1>4, SearchStands DEF Inv

\* analyze_stack keeps its own invariant, and nothing else moves.
LEMMA AnalyzeStackInv == ASSUME LeadingGenerators, Inv, AnalyzeStack PROVE Inv'
<1>1. /\ stage = "analysing" /\ D!Inv /\ depthOutcome = "analysing" /\ D!Analyse
      /\ UNCHANGED <<decoding, flow, graph, search, block>>
  BY SameDepth DEF AnalyzeStack, Inv
<1>2. UNCHANGED <<program, pc, depth>>
  BY <1>1 DEF D!Analyse, D!Again, D!Inconsistent, D!Shallow, D!Missing, D!Record, D!Finish
<1>3. D!Inv'
  <2>1. D!LeadingGenerators
    BY DEF LeadingGenerators, D!LeadingGenerators, Normalized, D!Instructions, Instructions
  <2> QED
    BY <1>1, <2>1, D!NextInv DEF D!Next
<1>4. /\ depthOutcome' = "ok" => stage' = "reading"
      /\ depthOutcome' = "analysing" => stage' = "analysing"
      /\ stage' \in {"reading", "keyError", "analysing", "badDepths"}
      /\ stage' = "reading" => depthOutcome' = "ok"
      /\ stage' = "analysing" => depthOutcome' = "analysing"
  BY DEF AnalyzeStack
<1>5. NotStarted'
  BY <1>1, <1>2, <1>4 DEF Inv, NotStarted, graph
<1>6. ReadSoFar'
  BY <1>1, <1>2, <1>4 DEF Inv, ReadSoFar, decoding
<1> QED
  BY <1>1, <1>2, <1>3, <1>4, <1>5, <1>6, SearchStands DEF Inv

\* Another byte is read as any reader reads it.
LEMMA ReadByteInv == ASSUME LeadingGenerators, TablesDecode, Inv, ReadByte PROVE Inv'
<1>1. /\ stage = "reading" /\ unread # <<>> /\ stage' = stage
      /\ read' = Table!ReadByte(read, Head(unread)) /\ unread' = Tail(unread)
      /\ UNCHANGED <<program, analysis, flow, graph, search, pc, depth, block>>
  BY DEF ReadByte
<1>2. D!Inv'
  BY <1>1, DepthStands DEF Inv
<1>3. NotStarted'
  BY <1>1 DEF Inv, NotStarted, analysis, graph
<1> DEFINE table == program.table
           taken == Len(table) - Len(unread)
<1>4. /\ table \in Seq(Nat) /\ table' = table
      /\ unread \in Seq(Nat) /\ Len(unread) <= Len(table)
      /\ \A k \in 1 .. Len(unread) : unread[k] = table[taken + k]
      /\ \A f : IsReading(table, f) => read = f[taken]
  BY <1>1 DEF Inv, ReadSoFar, TablesDecode
<1>5. /\ Len(unread) \in Nat \ {0} /\ Len(table) \in Nat /\ Head(unread) = unread[1]
      /\ Tail(unread) \in Seq(Nat) /\ Len(Tail(unread)) = Len(unread) - 1
      /\ \A k \in 1 .. Len(unread) - 1 : Tail(unread)[k] = unread[k + 1]
  BY <1>1, <1>4
<1>6. /\ Len(table) - Len(Tail(unread)) = taken + 1 /\ taken + 1 \in 1 .. Len(table)
      /\ (taken + 1) - 1 = taken
  BY <1>4, <1>5
<1>7. \A k \in 1 .. Len(Tail(unread)) : Tail(unread)[k] = table[(taken + 1) + k]
  <2> SUFFICES ASSUME NEW k \in 1 .. Len(unread) - 1
               PROVE  Tail(unread)[k] = table[(taken + 1) + k]
    BY <1>5
  <2>1. k + 1 \in 1 .. Len(unread) /\ taken \in Int
    BY <1>5
  <2>2. \A n \in Int : n + (k + 1) = (n + 1) + k
    OBVIOUS
  <2> QED
    BY <1>4, <1>5, <2>1, <2>2
<1>8. ASSUME NEW f, IsReading(table, f)
      PROVE  read' = f[taken + 1]
  <2>1. f[taken + 1] = Table!ReadByte(f[taken], table[taken + 1])
    BY <1>6, <1>8 DEF IsReading
  <2>2. unread[1] = table[taken + 1]
    BY <1>4, <1>5
  <2> QED
    BY <1>1, <1>4, <1>5, <1>8, <2>1, <2>2
<1>9. ReadSoFar'
  BY <1>1, <1>4, <1>5, <1>6, <1>7, <1>8 DEF ReadSoFar
<1> QED
  BY <1>1, <1>2, <1>3, <1>9, SearchStands DEF Inv, analysis

\* The table has the regions of the program, so the graph is built from them.
LEMMA TableInv == ASSUME LeadingGenerators, TablesDecode, Inv, RefuseTable \/ AcceptTable PROVE Inv'
<1>1. /\ stage = "reading" /\ unread = <<>> /\ stage' \in {"badTable", "building"}
      /\ UNCHANGED <<program, analysis, decoding, graph, search, pc, depth, block>>
  BY DEF RefuseTable, AcceptTable
<1>2. D!Inv'
  BY <1>1, DepthStands DEF Inv
<1>3. NotStarted'
  BY <1>1 DEF Inv, NotStarted, analysis, graph
<1>4. ReadSoFar'
  BY <1>1 DEF ReadSoFar
<1>5. ASSUME stage' = "building"
      PROVE  flow' = FlowCode(program, program.regions) /\ G!Inv'
  <2>1. flow' = FlowCode(program, Table!Regions(read))
    BY <1>5 DEF RefuseTable, AcceptTable
  <2>2. Len(unread) = 0 /\ Len(program.table) \in Nat
    BY <1>1 DEF Inv, TablesDecode
  <2>3. PICK f : IsReading(program.table, f)
                   /\ Table!Regions(f[Len(program.table)]) = program.regions
    BY DEF Inv, TablesDecode
  <2>4. read = f[Len(program.table)]
    BY <1>1, <2>2, <2>3 DEF Inv, ReadSoFar
  <2>5. flow' = FlowCode(program, program.regions)
    BY <2>1, <2>3, <2>4
  <2>6. IsProgram(flow')
    BY <2>5, FlowCodeShape, ProgramsAssumption DEF Inv, IsProgram
  <2>7. pc' = 1 /\ block' = 1 /\ leaders' = {} /\ edges' = {} /\ graphOutcome' = "building"
    BY <1>1, <1>3, <1>5 DEF NotStarted
  <2>8. FlowPc' = 1
    BY <2>7 DEF FlowPc, Skip
  <2>9. G!Fresh'
    BY <2>6, <2>7, <2>8 DEF G!Fresh, G!IsProgram, IsProgram, G!Instructions, Instructions
  <2> QED
    BY <2>5, <2>9, G!StartedInv
<1> QED
  BY <1>1, <1>2, <1>3, <1>4, <1>5, SearchStands DEF Inv, analysis

\* The graph is built as in BuildCFG, and the search finds its edges listed.
LEMMA GraphInv == ASSUME LeadingGenerators, Inv, RefuseGraph \/ Build PROVE Inv'
<1>1. /\ stage = "building" /\ G!Inv /\ flow = FlowCode(program, program.regions)
      /\ Graph!Refuse \/ Graph!Build
      /\ stage' \in {"badGraph", "marking"}
      /\ UNCHANGED <<program, analysis, decoding, pc, depth>>
  BY DEF RefuseGraph, Build, Inv
<1>2. UNCHANGED <<flow, block>>
  BY <1>1 DEF Graph!Refuse, Graph!Build
<1>3. D!Inv'
  BY <1>1, DepthStands DEF Inv
<1>4. Graph!Refuse => G!Refuse
  BY DEF Graph!Refuse, G!Refuse, Graph!Referenced, G!Referenced, Graph!OffsetSet, G!OffsetSet,
         Graph!Instructions, G!Instructions, Graph!HasTarget, G!HasTarget
<1>5. Graph!Build => G!Build
  BY DEF Graph!Build, G!Build, Graph!Referenced, G!Referenced, Graph!OffsetSet, G!OffsetSet,
         Graph!Instructions, G!Instructions, Graph!HasTarget, G!HasTarget, Graph!Leaders,
         G!Leaders, Graph!Ends, G!Ends, Graph!FallEdges, G!FallEdges, Graph!JumpEdges,
         G!JumpEdges, Graph!ExceptionEdges, G!ExceptionEdges, Graph!IsLast, G!IsLast,
         Graph!InBlock, G!InBlock, Graph!FallsTo, G!FallsTo, Graph!JumpsTo, G!JumpsTo,
         Graph!Covers, G!Covers
<1>6. G!Inv'
  BY <1>1, <1>4, <1>5, G!NextInv DEF G!Next
<1>7. CASE RefuseGraph
  <2>1. stage' = "badGraph" /\ UNCHANGED <<leaders, edges, search>>
    BY <1>7 DEF RefuseGraph, Graph!Refuse
  <2> QED
    BY <1>1, <1>2, <1>3, <2>1, SearchStands DEF Inv, NotStarted, ReadSoFar, analysis
<1>8. CASE Build
  <2>1. /\ stage' = "marking" /\ graphOutcome' = "built"
        /\ successors' = [b \in Block |->
             Listing[{e[2] - 1 : e \in {d \in edges' : d[1] = b + 1}}]]
        /\ pending' = <<0>> /\ seen' = {}
    BY <1>8 DEF Build, Graph!Build
  <2>2. /\ edges' \subseteq leaders' \X leaders'
        /\ leaders' \subseteq G!Instructions(flow)'
    BY <1>6 DEF G!Inv, G!TypeOK
  <2>3. G!Instructions(flow)' \subseteq 1 .. MaxCode
    <3>1. flow' = FlowCode(program, program.regions) /\ Len(program.offset) <= MaxCode
      BY <1>1, <1>2, ProgramsAssumption DEF Inv
    <3>2. /\ Instructions(flow') = 1 .. Len(program.offset) - Skip(program)
          /\ Skip(program) \in {0, 2} /\ Len(program.offset) \in Nat
      BY <3>1, FlowCodeShape, ProgramsAssumption DEF Inv, IsProgram
    <3> QED
      BY <3>1, <3>2, MaxCodeAssumption DEF G!Instructions, Instructions
  <2>4. \A l \in leaders' : l \in 1 .. MaxCode /\ l - 1 \in Block
    BY <2>2, <2>3, MaxCodeAssumption DEF Block
  <2>5. \A b \in Block : {e[2] - 1 : e \in {d \in edges' : d[1] = b + 1}} \in SUBSET Block
    BY <2>2, <2>4
  <2>6. successors' \in [Block -> Seq(Block)]
    BY <2>1, <2>5, ListingAssumption
  <2>7. ASSUME NEW b \in leaders', NEW e \in edges', e[1] = b
        PROVE  e[2] - 1 \in Search!Elements(successors'[b - 1])
    <3> DEFINE targets == {d[2] - 1 : d \in {d \in edges' : d[1] = (b - 1) + 1}}
    <3>1. b - 1 \in Block /\ (b - 1) + 1 = b
      BY <2>4
    <3>2. successors'[b - 1] = Listing[targets] /\ targets \in SUBSET Block
      BY <2>1, <2>5, <3>1
    <3>3. e[2] - 1 \in targets
      BY <2>7, <3>1
    <3> HIDE DEF targets
    <3>4. Search!Elements(Listing[targets]) = targets
      BY <3>2, ListingAssumption DEF Search!Elements
    <3> QED
      BY <3>2, <3>3, <3>4
  <2>12. ASSUME NEW b \in Block, NEW t \in Search!Elements(successors'[b])
         PROVE  <<b + 1, t + 1>> \in edges'
    <3> DEFINE targets == {d[2] - 1 : d \in {d \in edges' : d[1] = b + 1}}
    <3>1. successors'[b] = Listing[targets] /\ targets \in SUBSET Block
      BY <2>1, <2>5
    <3> HIDE DEF targets
    <3>2. t \in targets
      BY <2>12, <3>1, ListingAssumption DEF Search!Elements
    <3>3. PICK e \in edges' : e[1] = b + 1 /\ t = e[2] - 1
      BY <3>2 DEF targets
    <3>4. e = <<e[1], e[2]>> /\ e[2] \in 1 .. MaxCode
      BY <2>2, <2>4
    <3>5. e[2] = t + 1
      BY <3>3, <3>4, MaxCodeAssumption
    <3> QED
      BY <3>3, <3>4, <3>5
  <2>8. SearchFresh'
    BY <2>1, <2>6 DEF SearchFresh, Search!Block, Block, Search!Entry
  <2>9. (Search!TypeOK /\ Search!SearchInvariant)'
    BY <2>8, SearchStartedInv, MaxCodeAssumption
  <2>10. Listed'
    BY <2>6, <2>7, <2>12 DEF Listed, Search!Elements
  <2>11. NotStarted' /\ ReadSoFar'
    BY <2>1 DEF NotStarted, ReadSoFar
  <2> QED
    BY <1>1, <1>2, <1>3, <1>6, <2>1, <2>9, <2>10, <2>11 DEF Inv, analysis
<1> QED
  BY <1>7, <1>8

\* The search goes on as in Reachability.
LEMMA MarkInv == ASSUME LeadingGenerators, Inv, MarkReachable PROVE Inv'
<1>1. /\ stage = "marking" /\ Search!Next /\ Search!TypeOK /\ Search!SearchInvariant
      /\ UNCHANGED <<program, stage, analysis, decoding, flow, graph, pc, depth, block>>
  BY DEF MarkReachable, Inv
<1>2. D!Inv' /\ G!Inv'
  BY <1>1, DepthStands, GraphStands DEF Inv
<1>3. Search!TypeOK' /\ Search!SearchInvariant'
  BY <1>1, SearchNextTyped, SearchNextInv, MaxCodeAssumption
<1>4. successors' = successors
  BY <1>1 DEF Search!Next, Search!SkipSeen, Search!Mark
<1>5. Listed'
  BY <1>1, <1>4 DEF Inv, Listed, graph, Search!Elements
<1>6. NotStarted' /\ ReadSoFar'
  BY <1>1 DEF NotStarted, ReadSoFar
<1> QED
  BY <1>1, <1>2, <1>3, <1>5, <1>6 DEF Inv, analysis, graph

\* A step of the machine is one of both components' machines.
LEMMA MachineInv ==
  ASSUME LeadingGenerators, Inv, Fall \/ Resume \/ Jump \/ Raise PROVE Inv'
<1>1. /\ stage = "marking" /\ Enter /\ depthOutcome = "ok" /\ graphOutcome = "built"
      /\ Depth!Fall \/ Depth!Resume \/ Depth!Jump \/ Depth!Raise
      /\ D!Inv /\ G!Inv /\ flow = FlowCode(program, program.regions)
  BY DEF Fall, Resume, Jump, Raise, Inv, Analysed
<1>2. UNCHANGED <<program, depthOutcome, depths, queue>>
  BY <1>1 DEF Depth!Fall, Depth!Resume, Depth!Jump, Depth!Raise
<1>3. UNCHANGED <<stage, decoding, flow, graph, search>>
  BY <1>1 DEF Enter
<1>4. D!Inv'
  <2>1. D!LeadingGenerators
    BY DEF LeadingGenerators, D!LeadingGenerators, Normalized, D!Instructions, Instructions
  <2> QED
    BY <1>1, <2>1, SameDepth, D!NextInv DEF D!Next
<1>5. G!Inv'
  <2>1. G!Fall \/ G!Jump \/ G!Raise \/ UNCHANGED G!vars
    BY <1>1, MachineSteps DEF Inv, D!Inv
  <2> QED
    BY <1>1, <2>1, G!NextInv DEF G!Next
<1>6. Listed'
  BY <1>1, <1>3 DEF Inv, Listed, graph, search, Search!Elements
<1>7. NotStarted' /\ ReadSoFar'
  BY <1>1, <1>3 DEF NotStarted, ReadSoFar
<1> QED
  BY <1>1, <1>2, <1>3, <1>4, <1>5, <1>6, <1>7, SearchStands DEF Inv, graph

\* Every step of every stage keeps the invariant.
LEMMA NextInv == ASSUME LeadingGenerators, TablesDecode PROVE Inv /\ [Next]_vars => Inv'
<1> SUFFICES ASSUME Inv, [Next]_vars PROVE Inv'
  OBVIOUS
<1>1. CASE UNCHANGED vars
  <2>1. /\ UNCHANGED <<program, stage, analysis, decoding, flow, graph, search, pc, depth, block>>
        /\ D!Inv => D!Inv'
        /\ G!Inv => G!Inv'
    BY <1>1, DepthStands, GraphStands DEF vars
  <2>2. NotStarted' /\ ReadSoFar'
    BY <2>1 DEF Inv, NotStarted, ReadSoFar, analysis, decoding, graph, D!InitialPending
  <2>3. Listed => Listed'
    BY <2>1 DEF Listed, graph, search, Search!Elements
  <2> QED
    BY <2>1, <2>2, <2>3, SearchStands DEF Inv, analysis, graph
<1> QED
  BY <1>1, NormalizeInv, AnalyzeStackInv, ReadByteInv, TableInv, GraphInv, MarkInv, MachineInv
  DEF Next, Analyse

\* The invariant of the whole analysis.
LEMMA InvHolds == ASSUME LeadingGenerators, TablesDecode PROVE Spec => []Inv
BY InitInv, NextInv, PTL DEF Spec

\* Every depth that analyze_stack found is the depth of the machine's stack when
\* the instruction is executed, in the code the graph was built for as well, and code
\* that got through the analyses never takes more than is on its stack.
THEOREM AnalysedDepthsAreExact ==
  ASSUME LeadingGenerators, TablesDecode PROVE Spec => []DepthsAreExact
<1>1. Inv /\ Analysed => Depth!DepthsAreExact
  BY DEF Inv, Analysed, D!Inv, D!DepthsAreExact, D!Running, Depth!DepthsAreExact, Depth!Running
<1>2. Inv /\ Analysed => Depth!NeverUnderflows
  BY DEF Inv, Analysed, D!Inv, D!DepthsAreExact, D!Running, D!RecordedAreChecked,
         Depth!NeverUnderflows, Depth!Running
<1>3. Inv => DepthsAreExact
  BY <1>1, <1>2 DEF DepthsAreExact
<1> QED
  BY <1>3, InvHolds, PTL

\* No handler of an instruction that has a depth is missing.
THEOREM AnalysedHandlersExist ==
  ASSUME LeadingGenerators, TablesDecode PROVE Spec => []HandlersExist
<1>1. D!HandlersExist => HandlersExist
  BY DEF HandlersExist, Depth!HandlersExist, D!HandlersExist, Depth!Running, D!Running,
         Depth!Covers, D!Covers, Depth!OffsetSet, D!OffsetSet, Depth!Instructions,
         D!Instructions
<1>2. depthOutcome # "ok" => HandlersExist
  BY DEF HandlersExist, Depth!HandlersExist, Depth!Running
<1>3. Inv => depthOutcome # "ok" \/ D!Inv
  BY DEF Inv, NotStarted
<1>4. Inv => HandlersExist
  BY <1>1, <1>2, <1>3, D!HandlersRecorded
<1> QED
  BY <1>4, InvHolds, PTL

\* The graph shows the decompiler no path the code does not have.
THEOREM AnalysedEdgesAreReal ==
  ASSUME LeadingGenerators, TablesDecode PROVE Spec => []EdgesAreReal
<1>1. G!EdgesAreReal => Graph!EdgesAreReal
  BY DEF G!EdgesAreReal, Graph!EdgesAreReal, G!Instructions, Graph!Instructions, G!InBlock,
         Graph!InBlock, G!Leaders, Graph!Leaders, G!Referenced, Graph!Referenced, G!Ends,
         Graph!Ends, G!OffsetSet, Graph!OffsetSet, G!HasTarget, Graph!HasTarget, G!FallsTo,
         Graph!FallsTo, G!JumpsTo, Graph!JumpsTo, G!RaisesTo, Graph!RaisesTo, G!Covers,
         Graph!Covers
<1>2. edges = {} => Graph!EdgesAreReal
  BY DEF Graph!EdgesAreReal
<1>3. Inv => EdgesAreReal
  BY <1>1, <1>2, G!EdgesReal DEF Inv, NotStarted, EdgesAreReal
<1> QED
  BY <1>3, InvHolds, PTL

\* Every transfer of control between two blocks is an edge of the graph, whatever
\* the code that got through the analyses does next.
THEOREM AnalysedStepsAlongEdges ==
  ASSUME LeadingGenerators, TablesDecode PROVE Spec => StepsAlongEdges
<1> DEFINE Along == graphOutcome = "built" =>
                      \/ <<block, block'>> \in edges /\ FlowPc' = block'
                      \/ block' = block /\ FlowPc' = FlowPc + 1
<1>1. Inv /\ [Next]_vars => [Along]_(Graph!vars)
  <2> SUFFICES ASSUME Inv, [Next]_vars, graphOutcome = "built", ~UNCHANGED Graph!vars
               PROVE  Along
    OBVIOUS
  <2>1. CASE Fall \/ Resume \/ Jump \/ Raise
    <3>1. /\ Enter /\ G!Inv /\ flow = FlowCode(program, program.regions)
          /\ Depth!Fall \/ Depth!Resume \/ Depth!Jump \/ Depth!Raise
      BY <2>1 DEF Fall, Resume, Jump, Raise, Inv, Analysed
    <3>2. G!Fall \/ G!Jump \/ G!Raise \/ UNCHANGED G!vars
      BY <3>1, MachineSteps DEF Inv, D!Inv, NotStarted
    <3>3. G!Fall \/ G!Jump \/ G!Raise
      BY <3>2 DEF G!vars, Graph!vars
    <3> QED
      BY <3>1, <3>3, G!StepFollowsGraph
  <2>2. CASE Analyse
    <3>1. stage = "marking" \/ stage = "badGraph"
      BY DEF Inv, NotStarted
    <3>2. MarkReachable
      BY <2>2, <3>1 DEF Analyse, RefuseTarget, Normalize, AnalyzeStack, ReadByte, RefuseTable,
                        AcceptTable, RefuseGraph, Build
    <3> QED
      BY <3>2 DEF MarkReachable, graph, Graph!vars, FlowPc
  <2>3. CASE UNCHANGED vars
    BY <2>3 DEF vars, graph, Graph!vars, FlowPc
  <2> QED
    BY <2>1, <2>2, <2>3 DEF Next
<1>2. Spec => [][Along]_(Graph!vars)
  BY <1>1, InvHolds, PTL DEF Spec
<1> QED
  BY <1>2 DEF StepsAlongEdges, Graph!StepsAlongEdges

\* The flags are right in the graph of every code.
THEOREM AnalysedMarksAreExact ==
  ASSUME LeadingGenerators, TablesDecode PROVE Spec => []MarksExactlyReachable
<1>1. Inv => MarksExactlyReachable
  BY ExactWhenEmpty DEF Inv, MarksExactlyReachable
<1> QED
  BY <1>1, InvHolds, PTL

\* An instruction of a generator behind RETURN_GENERATOR, POP_TOP, or any of other
\* code, leads in the code of the graph to what it leads to in the whole code.
LEMMA FlowLeads ==
  ASSUME LeadingGenerators, Inv, graphOutcome = "built", stage = "marking"
  PROVE  LET s == Skip(program) IN
         /\ \A i, j \in Instructions(flow) :
              /\ FallsTo(flow, i, j) \/ JumpsTo(flow, i, j) \/ RaisesTo(flow, i, j)
              => D!Leads(program, i + s, j + s)
         /\ \A i, j \in Instructions(program) :
              i > s /\ D!Leads(program, i, j) =>
                /\ j > s
                /\ \/ FallsTo(flow, i - s, j - s)
                   \/ JumpsTo(flow, i - s, j - s)
                   \/ RaisesTo(flow, i - s, j - s)
         /\ \A i, j \in Instructions(program) :
              i <= s /\ D!Leads(program, i, j) => i = 2 /\ j = 3
<1> DEFINE p == program
           s == Skip(program)
<1>1. /\ p \in Programs /\ flow = FlowCode(p, p.regions)
      /\ G!Referenced(flow) \subseteq G!OffsetSet(flow)
  BY DEF Inv, G!Inv, G!GraphBuilt
<1>2. IsProgram(p) /\ \A r \in p.regions : {r.start, r.end, r.target} \subseteq Nat
  BY <1>1, ProgramsAssumption DEF IsProgram
<1>3. /\ s \in {0, 2} /\ Len(p.offset) \in Nat /\ flow.regions = p.regions
      /\ Instructions(flow) = 1 .. Len(p.offset) - s /\ Instructions(p) = 1 .. Len(p.offset)
      /\ \A k \in Instructions(flow) : /\ k + s \in Instructions(p)
                                       /\ flow.offset[k] = p.offset[k + s]
                                       /\ flow.kind[k] = p.kind[k + s]
                                       /\ flow.target[k] = p.target[k + s]
  <2>1. Len(p.offset) \in Nat /\ Instructions(p) = 1 .. Len(p.offset)
    BY <1>2 DEF IsProgram, Instructions
  <2> QED
    BY <1>1, <1>2, <2>1, FlowCodeShape
<1>4. \A i \in Instructions(flow) : flow.kind[i] # "generator"
  <2> SUFFICES ASSUME NEW i \in Instructions(flow), flow.kind[i] = "generator" PROVE FALSE
    OBVIOUS
  <2>1. i + s = 1 /\ p.kind[1] = "generator"
    BY <1>1, <1>3 DEF LeadingGenerators
  <2>2. s = 2
    BY <2>1 DEF Skip
  <2> QED
    BY <1>3, <2>1, <2>2
<1>5. s = 2 => p.kind[1] = "generator" /\ p.kind[2] = "plain"
  BY <1>1, ProgramsAssumption DEF Skip
<1> HIDE DEF s
<1>6. ASSUME NEW i \in Instructions(flow), NEW j \in Instructions(flow)
      PROVE  FallsTo(flow, i, j) \/ JumpsTo(flow, i, j) \/ RaisesTo(flow, i, j)
               <=> D!Leads(p, i + s, j + s)
  <2>1. i \in Nat /\ j \in Nat /\ s \in Nat
    BY <1>3
  <2>2. FallsTo(flow, i, j) <=> j + s = (i + s) + 1 /\ p.kind[i + s] \in {"plain", "branch"}
    BY <1>3, <1>4, <2>1 DEF FallsTo
  <2>3. JumpsTo(flow, i, j) <=> D!JumpsTo(p, i + s, j + s)
    BY <1>3 DEF JumpsTo, D!JumpsTo, HasTarget, D!HasTarget
  <2>4. RaisesTo(flow, i, j) <=> D!RaisesTo(p, i + s, j + s)
    BY <1>3 DEF RaisesTo, D!RaisesTo, Covers, D!Covers
  <2> QED
    BY <2>2, <2>3, <2>4 DEF D!Leads
<1>7. ASSUME NEW i \in Instructions(p), NEW j \in Instructions(p), i > s, D!Leads(p, i, j)
      PROVE  /\ j > s
             /\ FallsTo(flow, i - s, j - s) \/ JumpsTo(flow, i - s, j - s)
                  \/ RaisesTo(flow, i - s, j - s)
  <2>1. i \in Nat /\ j \in Nat /\ s \in Nat
    BY <1>3
  <2>2. CASE j = i + 1
    BY <1>6, <1>7, <2>1, <2>2, <1>3, i - s \in Instructions(flow), j - s \in Instructions(flow),
       (i - s) + s = i, (j - s) + s = j
  <2>3. CASE D!JumpsTo(p, i, j) \/ D!RaisesTo(p, i, j)
    <3>1. JumpsTo(p, i, j) \/ RaisesTo(p, i, j)
      BY <2>3 DEF JumpsTo, D!JumpsTo, HasTarget, D!HasTarget, RaisesTo, D!RaisesTo, Covers,
                  D!Covers
    <3>2. j > s
      BY <1>1, <1>2, <1>7, <3>1, NothingReferencesPrefix DEF s
    <3> QED
      BY <1>6, <1>7, <2>1, <3>2, <1>3, i - s \in Instructions(flow), j - s \in Instructions(flow),
         (i - s) + s = i, (j - s) + s = j
  <2> QED
    BY <1>7, <2>2, <2>3 DEF D!Leads
<1>8. ASSUME NEW i \in Instructions(p), NEW j \in Instructions(p), i <= s, D!Leads(p, i, j)
      PROVE  i = 2 /\ j = 3
  <2>1. s = 2 /\ i \in {1, 2} /\ p.kind[1] = "generator" /\ p.kind[2] = "plain"
    BY <1>3, <1>5, <1>8
  <2>2. ~D!JumpsTo(p, i, j)
    BY <2>1 DEF D!JumpsTo, D!HasTarget
  <2>3. ~D!RaisesTo(p, i, j)
    <3>1. ~(i > s)
      BY <2>1
    <3>2. ~RaisesTo(p, i, j)
      BY <1>1, <1>2, <3>1, NothingReferencesPrefix DEF s
    <3> QED
      BY <3>2 DEF RaisesTo, D!RaisesTo, Covers, D!Covers
  <2> QED
    BY <1>8, <2>1, <2>2, <2>3 DEF D!Leads
<1> QED
  BY <1>6, <1>7, <1>8 DEF s

\* With the deque empty the marked blocks are the least set with the entry that
\* the graph's edges do not lead out of.
LEMMA MarkedBlocks ==
  ASSUME Inv, Analysed
  PROVE  /\ 1 \in leaders /\ 0 \in seen
         /\ \A e \in edges : e[1] - 1 \in seen => e[2] - 1 \in seen
         /\ \A B \in SUBSET leaders :
              /\ 1 \in B /\ \A e \in edges : e[1] \in B => e[2] \in B
              => \A b \in leaders : b - 1 \in seen => b \in B
<1>1. /\ G!Inv /\ graphOutcome = "built" /\ Listed /\ Search!SearchInvariant /\ pending = <<>>
      /\ Search!TypeOK
  BY DEF Inv, Analysed
<1>2. Search!Elements(pending) = {}
  BY <1>1 DEF Search!Elements
<1>3. leaders = G!Leaders(flow) /\ edges \subseteq leaders \X leaders
      /\ leaders \subseteq Nat \ {0}
  BY <1>1 DEF G!Inv, G!GraphBuilt, G!TypeOK, G!Instructions
<1>4. 1 \in leaders /\ 0 \in seen
  BY <1>1, <1>2, <1>3 DEF Search!SearchInvariant, Search!NothingForgotten, Search!Entry,
                          G!Leaders
<1>5. \A e \in edges : e[1] - 1 \in seen => e[2] - 1 \in seen
  BY <1>1, <1>2, <1>3 DEF Listed, Search!SearchInvariant, Search!NothingForgotten
<1>6. ASSUME NEW B \in SUBSET leaders, 1 \in B, \A e \in edges : e[1] \in B => e[2] \in B,
             NEW b \in leaders, b - 1 \in seen
      PROVE  b \in B
  <2> DEFINE C == {k \in Block : k + 1 \in B}
  <2>1. Search!Entry \in C /\ C \subseteq Search!Block
    BY <1>6, MaxCodeAssumption DEF Search!Entry, Block, Search!Block
  <2>2. Search!Closed(Search!Edges, C)
    <3> SUFFICES ASSUME NEW e \in Search!Edges, e[1] \in C PROVE e[2] \in C
      BY DEF Search!Closed
    <3>1. e[1] \in Block /\ e[2] \in Block /\ e[2] \in Search!Elements(successors[e[1]])
      BY DEF Search!Edges, Search!Block, Block
    <3>2. <<e[1] + 1, e[2] + 1>> \in edges
      BY <1>1, <3>1 DEF Listed
    <3>3. e[2] + 1 \in B
      BY <1>6, <3>2
    <3> QED
      BY <3>1, <3>3
  <2>3. seen \subseteq C
    BY <1>1, <2>1, <2>2 DEF Search!SearchInvariant, Search!OnlyReachable,
                            Search!ReachableBlocks
  <2>4. (b - 1) + 1 \in B
    BY <1>6, <2>3
  <2> QED
    BY <1>3, <2>4
<1> QED
  BY <1>4, <1>5, <1>6

\* No executed instruction is in a block that the search has left without the flag.
THEOREM RunsOnlyMarkedBlocks ==
  ASSUME LeadingGenerators, TablesDecode PROVE Spec => []RunsOnlyMarked
<1>1. Inv => RunsOnlyMarked
  <2> SUFFICES ASSUME Inv, Analysed PROVE block - 1 \in seen
    BY DEF RunsOnlyMarked
  <2> DEFINE marked == {b \in leaders : b - 1 \in seen}
  <2>1. /\ G!Inv /\ graphOutcome = "built" /\ Listed /\ Search!NothingForgotten
        /\ pending = <<>>
    BY DEF Inv, Analysed, Search!SearchInvariant
  <2>2. Search!Elements(pending) = {}
    BY <2>1 DEF Search!Elements
  <2>3. leaders = G!Leaders(flow) /\ edges \subseteq leaders \X leaders
        /\ leaders \subseteq G!Instructions(flow) /\ IsProgram(flow)
    BY <2>1 DEF G!Inv, G!GraphBuilt, G!TypeOK, G!IsProgram, IsProgram, G!Instructions,
                Instructions
  <2>4. 1 \in marked
    BY <2>1, <2>2, <2>3 DEF Search!NothingForgotten, Search!Entry, G!Leaders
  <2>5. \A e \in edges : e[1] \in marked => e[2] \in marked
    BY <2>1, <2>2, <2>3 DEF Listed, Search!NothingForgotten
  <2>6. block \in marked
    BY <2>1, <2>4, <2>5 DEF G!Inv, G!RunsOnlyReachable
  <2> QED
    BY <2>6
<1> QED
  BY <1>1, InvHolds, PTL

\* An instruction has a depth exactly when the block that it is in carries the flag.
LEMMA Agreement == ASSUME LeadingGenerators, Inv, Analysed PROVE AnalysesAgree
<1> DEFINE s == Skip(program)
           R == DOMAIN depths
           c == flow
<1>1. /\ G!Inv /\ D!Inv /\ graphOutcome = "built" /\ depthOutcome = "ok" /\ stage = "marking"
      /\ program \in Programs /\ c = FlowCode(program, program.regions)
  BY DEF Inv, Analysed
<1>2. /\ leaders = G!Leaders(c) /\ edges = G!EdgesOf(c) /\ G!IsProgram(c)
      /\ G!Referenced(c) \subseteq G!OffsetSet(c)
      /\ leaders \subseteq Instructions(c) /\ edges \subseteq leaders \X leaders
  BY <1>1 DEF G!Inv, G!GraphBuilt, G!TypeOK, G!Instructions, Instructions
<1>3. /\ s \in {0, 2} /\ Len(program.offset) \in Nat
      /\ Instructions(c) = 1 .. Len(program.offset) - s
      /\ Instructions(program) = 1 .. Len(program.offset)
      /\ \A k \in Instructions(c) : c.kind[k] = program.kind[k + s]
  <2>1. IsProgram(program) /\ \A r \in program.regions : {r.start, r.end, r.target} \subseteq Nat
    BY <1>1, ProgramsAssumption DEF IsProgram
  <2>2. Len(program.offset) \in Nat /\ Instructions(program) = 1 .. Len(program.offset)
    BY <2>1 DEF IsProgram, Instructions
  <2> QED
    BY <1>1, <2>1, <2>2, FlowCodeShape
<1>4. D!IsTrap(program, R) /\ \A X : D!IsTrap(program, X) => R \subseteq X
  BY <1>1, D!RecordedIsTrap DEF D!Running, D!Inv, D!OnlyLedTo
<1>5. /\ 1 \in leaders /\ 0 \in seen
      /\ \A e \in edges : e[1] - 1 \in seen => e[2] - 1 \in seen
      /\ \A B \in SUBSET leaders :
           /\ 1 \in B /\ \A e \in edges : e[1] \in B => e[2] \in B
           => \A b \in leaders : b - 1 \in seen => b \in B
  BY MarkedBlocks
<1>6. /\ \A i, j \in Instructions(c) :
           FallsTo(c, i, j) \/ JumpsTo(c, i, j) \/ RaisesTo(c, i, j)
           => D!Leads(program, i + s, j + s)
      /\ \A i, j \in Instructions(program) :
           i > s /\ D!Leads(program, i, j) =>
             /\ j > s
             /\ FallsTo(c, i - s, j - s) \/ JumpsTo(c, i - s, j - s) \/ RaisesTo(c, i - s, j - s)
      /\ \A i, j \in Instructions(program) :
           i <= s /\ D!Leads(program, i, j) => i = 2 /\ j = 3
  BY <1>1, FlowLeads
<1>7. /\ Instructions(c) = G!Instructions(c)
      /\ Instructions(program) = D!Instructions(program)
      /\ \A i, j : /\ FallsTo(c, i, j) <=> G!FallsTo(c, i, j)
                   /\ JumpsTo(c, i, j) <=> G!JumpsTo(c, i, j)
                   /\ RaisesTo(c, i, j) <=> G!RaisesTo(c, i, j)
  BY DEF G!Instructions, Instructions, D!Instructions, FallsTo, G!FallsTo, JumpsTo, G!JumpsTo,
         HasTarget, G!HasTarget, RaisesTo, G!RaisesTo, Covers, G!Covers
<1>8. s = 2 <=> program.kind[1] = "generator"
  BY DEF Skip
<1>9. s = 2 => Len(program.offset) > 2 /\ program.kind[2] = "plain"
  BY <1>1, <1>8, ProgramsAssumption
<1>10. \A b, i : G!InBlock(c, b, i) =>
         /\ b \in leaders /\ i \in Instructions(c) /\ b <= i
         /\ i \in Nat /\ b \in Nat \ {0} /\ i + s \in Instructions(program)
  BY <1>2, <1>3, <1>7 DEF G!InBlock
<1> HIDE DEF s, R, c
<1> DEFINE Marked == {i \in Instructions(program) :
                        i <= s \/ \E b \in leaders : b - 1 \in seen /\ G!InBlock(c, b, i - s)}
<1>11. ASSUME NEW i \in Instructions(c), NEW j \in Instructions(c), NEW b \in leaders,
              b - 1 \in seen, G!InBlock(c, b, i),
              FallsTo(c, i, j) \/ JumpsTo(c, i, j) \/ RaisesTo(c, i, j)
       PROVE  \E l \in leaders : l - 1 \in seen /\ G!InBlock(c, l, j)
  <2>1. (j \in leaders /\ <<b, j>> \in edges) \/ G!InBlock(c, b, j)
    BY <1>2, <1>7, <1>11, G!FallHasEdge, G!JumpHasEdge, G!RaiseHasEdge
  <2>2. CASE j \in leaders /\ <<b, j>> \in edges
    <3>1. j - 1 \in seen
      BY <1>5, <1>11, <2>2
    <3>2. G!InBlock(c, j, j)
      BY <1>2, <2>2, G!LeaderInOwnBlock
    <3> QED
      BY <2>2, <3>1, <3>2
  <2> QED
    BY <1>11, <2>1, <2>2
<1>12. D!IsTrap(program, Marked)
  <2>1. G!InBlock(c, 1, 1) /\ 1 - 1 \in seen
    BY <1>2, <1>5, G!LeaderInOwnBlock
  <2>2. \A item \in D!InitialPending(program) : item[1] \in Marked
    <3>1. 1 \in Instructions(program) /\ 1 \in Instructions(c)
      BY <1>2, <1>3, <1>5
    <3>2. 1 \in Marked
      BY <1>3, <1>5, <2>1, <3>1, 1 - 0 = 1
    <3>3. s = 2 => 2 \in Marked
      BY <1>3, <1>9
    <3>4. \A item \in D!InitialPending(program) : item[1] = 1 \/ (s = 2 /\ item[1] = 2)
      BY <1>8 DEF D!InitialPending
    <3> QED
      BY <3>2, <3>3, <3>4
  <2>3. ASSUME NEW i \in Marked, NEW j \in Instructions(program), D!Leads(program, i, j)
        PROVE  j \in Marked
    <3>1. CASE i <= s
      <4>1. s = 2 /\ j - s = 1
        BY <1>3, <1>6, <2>3, <3>1
      <4> QED
        BY <1>5, <2>1, <4>1
    <3>2. CASE ~(i <= s)
      <4>1. i > s /\ i \in Instructions(program)
        BY <1>3, <3>2
      <4>2. /\ j > s
            /\ FallsTo(c, i - s, j - s) \/ JumpsTo(c, i - s, j - s) \/ RaisesTo(c, i - s, j - s)
        BY <1>6, <2>3, <4>1
      <4>3. i - s \in Instructions(c) /\ j - s \in Instructions(c)
        BY <1>3, <4>1, <4>2
      <4>4. PICK b \in leaders : b - 1 \in seen /\ G!InBlock(c, b, i - s)
        BY <3>2
      <4> QED
        BY <1>11, <4>2, <4>3, <4>4
    <3> QED
      BY <3>1, <3>2
  <2> QED
    BY <1>7, <2>2, <2>3 DEF D!IsTrap
<1> DEFINE Deep == {b \in leaders : b + s \in R}
<1>13. ASSUME NEW b \in Deep, NEW i, G!InBlock(c, b, i) PROVE i + s \in R
  <2> DEFINE Without == {k \in Instructions(c) : G!InBlock(c, b, k) /\ k + s \notin R}
  <2> SUFFICES ASSUME Without # {} PROVE FALSE
    BY <1>10, <1>13
  <2>1. PICK m \in Without : \A k \in Without : m <= k
    <3>1. Without \subseteq Nat
      BY <1>3
    <3> HIDE DEF Without
    <3> QED
      BY <3>1, G!FirstInstruction
  <2>2. m # b /\ G!InBlock(c, b, m)
    BY <1>13, <2>1
  <2>3. /\ m - 1 \in Instructions(c) /\ G!InBlock(c, b, m - 1)
        /\ c.kind[m - 1] \in {"plain", "generator"}
    BY <1>2, <1>7, <2>2, G!BlocksGoOn
  <2>4. m \in Nat /\ m = (m - 1) + 1 /\ m \in Instructions(c)
    BY <1>3, <2>1
  <2>5. (m - 1) + s \in R
    <3>1. m - 1 \notin Without
      BY <2>1, <2>4
    <3> QED
      BY <2>3, <3>1
  <2>6. D!Leads(program, (m - 1) + s, m + s)
    BY <1>6, <2>3, <2>4 DEF FallsTo
  <2>7. m + s \in R
    BY <1>3, <1>4, <1>7, <1>10, <2>2, <2>5, <2>6 DEF D!IsTrap
  <2> QED
    BY <2>1, <2>7
<1>14. 1 \in Deep
  <2>1. CASE s = 0
    <3>1. <<1, 0>> \in D!InitialPending(program)
      BY DEF D!InitialPending
    <3>2. 1 \in R
      BY <1>4, <3>1 DEF D!IsTrap
    <3> QED
      BY <1>5, <2>1, <3>2
  <2>2. CASE s = 2
    <3>1. <<2, 1>> \in D!InitialPending(program)
      BY <1>3, <1>7, <1>8, <1>9, <2>2 DEF D!InitialPending
    <3>2. 2 \in R
      BY <1>4, <3>1 DEF D!IsTrap
    <3>3. D!Leads(program, 2, 3) /\ 3 \in D!Instructions(program)
      BY <1>3, <1>7, <1>9, <2>2 DEF D!Leads
    <3>4. 3 \in R
      BY <1>4, <3>2, <3>3 DEF D!IsTrap
    <3> QED
      BY <1>5, <2>2, <3>4
  <2> QED
    BY <1>3, <2>1, <2>2
<1>15. \A e \in edges : e[1] \in Deep => e[2] \in Deep
  <2> SUFFICES ASSUME NEW e \in edges, e[1] \in Deep PROVE e[2] \in Deep
    OBVIOUS
  <2>1. PICK i \in Instructions(c) :
          /\ G!InBlock(c, e[1], i)
          /\ FallsTo(c, i, e[2]) \/ JumpsTo(c, i, e[2]) \/ RaisesTo(c, i, e[2])
    BY <1>1, <1>7, G!EdgesReal DEF G!EdgesAreReal, c
  <2>2. i + s \in R /\ e[2] \in leaders /\ e[2] \in Instructions(c)
    BY <1>2, <1>13, <2>1
  <2>3. D!Leads(program, i + s, e[2] + s) /\ e[2] + s \in Instructions(program)
    BY <1>3, <1>6, <2>1, <2>2
  <2>4. e[2] + s \in R
    BY <1>4, <1>7, <2>2, <2>3 DEF D!IsTrap
  <2> QED
    BY <2>2, <2>4
<1>16. ASSUME NEW i \in Instructions(c), NEW b
       PROVE  G!InBlock(c, b, i) <=> b \in leaders /\ b <= i /\ \A k \in leaders : k <= b \/ i < k
  <2>1. leaders \subseteq Nat /\ i \in Nat
    BY <1>2, <1>3
  <2> QED
    BY <1>2, <1>7, <2>1 DEF G!InBlock
<1>17. ASSUME NEW i \in Instructions(c)
       PROVE  i + s \in R <=> \E b \in leaders : b - 1 \in seen /\ G!InBlock(c, b, i)
  <2>1. i + s > s /\ (i + s) - s = i
    BY <1>3
  <2>2. i + s \in R => i + s \in Marked
    BY <1>4, <1>12
  <2>3. i + s \in R => \E b \in leaders : b - 1 \in seen /\ G!InBlock(c, b, i)
    BY <1>3, <2>1, <2>2
  <2>4. \A b \in leaders : b - 1 \in seen => b \in Deep
    BY <1>5, <1>14, <1>15
  <2> QED
    BY <1>13, <2>3, <2>4
<1> QED
  BY <1>16, <1>17 DEF AnalysesAgree, s, R, c

\* The depth analysis and the marking agree on what is live, for all code.
THEOREM AnalysesFindSameCode ==
  ASSUME LeadingGenerators, TablesDecode PROVE Spec => []AnalysesAgree
<1>1. Inv => AnalysesAgree
  <2>1. ~Analysed => AnalysesAgree
    BY DEF AnalysesAgree
  <2> QED
    BY <2>1, Agreement
<1> QED
  BY <1>1, InvHolds, PTL

\* The table of the instance in CodeAnalysis is that of the proofs.
LEMMA SameTable ==
  /\ \A s, b : G!ReadByte(s, b) = Table!ReadByte(s, b)
  /\ G!NothingRead = Table!NothingRead
  /\ \A s : G!Truncated(s) <=> Table!Truncated(s)
  /\ \A r : G!WrittenEntry(r) = Table!WrittenEntry(r)
  /\ \A w : G!Written(w) = Table!Written(w)
<1>1. G!NothingRead = Table!NothingRead
  BY DEF G!NothingRead, Table!NothingRead
<1>2. \A s, b : G!ReadByte(s, b) = Table!ReadByte(s, b)
  <2>1. \A numbers : G!RegionOf(numbers) = Table!RegionOf(numbers)
    BY Zenon DEF G!RegionOf, Table!RegionOf
  <2>2. \A byte : G!Low6(byte) = Table!Low6(byte) /\ (G!Continues(byte) <=> Table!Continues(byte))
    BY Zenon DEF G!Continues, Table!Continues, G!Low6, Table!Low6
  <2> SUFFICES ASSUME NEW s, NEW b PROVE G!ReadByte(s, b) = Table!ReadByte(s, b)
    OBVIOUS
  <2>3. CASE G!Continues(b)
    BY <2>2, <2>3 DEF G!ReadByte, Table!ReadByte
  <2>4. CASE ~G!Continues(b)
    BY <1>1, <2>1, <2>2, <2>4 DEF G!ReadByte, Table!ReadByte
  <2> QED
    BY <2>3, <2>4
<1>3. \A s : G!Truncated(s) <=> Table!Truncated(s)
  BY DEF G!Truncated, Table!Truncated
<1>4. \A r : G!WrittenEntry(r) = Table!WrittenEntry(r)
  BY Zenon DEF G!WrittenEntry, Table!WrittenEntry, G!WrittenNumber, Table!WrittenNumber,
               G!Chunks, Table!Chunks
<1>5. \A w : G!Written(w) = Table!Written(w)
  BY <1>4, Zenon DEF G!Written, Table!Written
<1> QED
  BY <1>1, <1>2, <1>3, <1>4, <1>5

\* A reading that ends so is refused.
Refused(end) == \/ Table!Truncated(end)
                \/ \E r \in Table!Regions(end) : ~Table!IsValid(r, program.length)

\* The table is refused or accepted for what any reader finds in it.
TableVerdict ==
  \A f : IsReading(program.table, f) =>
    LET end == f[Len(program.table)] IN
      /\ stage \in {"building", "marking"} => ~Refused(end) /\ flow.regions = Table!Regions(end)
      /\ stage = "badTable" => Refused(end)

\* The verdict is given on all bytes, and nothing after it changes it.
LEMMA VerdictInv ==
  ASSUME TablesDecode, Inv, TableVerdict, [Next]_vars PROVE TableVerdict'
<1>1. CASE RefuseTarget \/ Normalize \/ AnalyzeStack \/ ReadByte \/ RefuseGraph
  <2>1. stage' \notin {"building", "marking", "badTable"}
    BY <1>1 DEF RefuseTarget, Normalize, AnalyzeStack, ReadByte, RefuseGraph
  <2> QED
    BY <2>1 DEF TableVerdict
<1>2. CASE RefuseTable \/ AcceptTable
  <2>1. /\ stage = "reading" /\ unread = <<>> /\ program' = program
        /\ RefuseTable => stage' = "badTable" /\ IsBadTable
        /\ AcceptTable => /\ stage' = "building" /\ ~IsBadTable
                          /\ flow' = FlowCode(program, Table!Regions(read))
    BY <1>2 DEF RefuseTable, AcceptTable
  <2>2. Len(unread) = 0 /\ Len(program.table) \in Nat
    BY <2>1 DEF Inv, TablesDecode
  <2>3. \A f : IsReading(program.table, f) => read = f[Len(program.table)]
    BY <2>1, <2>2 DEF Inv, ReadSoFar
  <2>4. Refused(read) <=> IsBadTable
    BY DEF Refused, IsBadTable
  <2>5. \A s : Refused(s)' <=> Refused(s)
    BY <2>1 DEF Refused
  <2>6. AcceptTable => flow'.regions = Table!Regions(read)
    BY <2>1 DEF FlowCode
  <2> QED
    BY <1>2, <2>1, <2>3, <2>4, <2>5, <2>6 DEF TableVerdict, IsReading
<1>3. CASE Build
  <2>1. stage = "building" /\ stage' = "marking" /\ UNCHANGED <<program, flow>>
    BY <1>3 DEF Build, Graph!Build
  <2> QED
    BY <2>1 DEF TableVerdict, Refused, IsReading
<1>4. CASE MarkReachable \/ Fall \/ Resume \/ Jump \/ Raise \/ UNCHANGED vars
  <2>1. UNCHANGED <<program, stage, flow>>
    BY <1>4 DEF MarkReachable, Fall, Resume, Jump, Raise, Enter, Depth!Fall, Depth!Resume,
                Depth!Jump, Depth!Raise, vars
  <2> QED
    BY <2>1 DEF TableVerdict, Refused, IsReading
<1> QED
  BY <1>1, <1>2, <1>3, <1>4 DEF Next, Analyse

\* What any reader finds in a whole table, and in a torn one.
LEMMA TableSays ==
  ASSUME NEW p \in Programs, TablesWritten, NEW f, IsReading(p.table, f)
  PROVE  LET end == f[Len(p.table)] IN
         /\ p.table = Table!Written(p.written) =>
              /\ ~Table!Truncated(end)
              /\ Table!Regions(end) = {p.written[k] : k \in DOMAIN p.written}
         /\ p.table # Table!Written(p.written) => Table!Truncated(end)
<1> DEFINE end == f[Len(p.table)]
<1>1. G!IsTrace(f, G!NothingRead, p.table)
  BY SameTable DEF IsReading, G!IsTrace
<1>2. p.written \in Seq(G!Writable)
  BY DEF TablesWritten
<1>3. ASSUME p.table = Table!Written(p.written)
      PROVE  /\ ~Table!Truncated(end)
             /\ Table!Regions(end) = {p.written[k] : k \in DOMAIN p.written}
  <2>1. p.table = G!Written(p.written)
    BY <1>3, SameTable
  <2>2. end = G!After(p.written, <<>>, 0)
    BY <1>1, <1>2, <2>1, G!WholeTableRead
  <2> QED
    BY <2>2 DEF G!After, Table!Truncated, Table!Regions
<1>4. ASSUME p.table # Table!Written(p.written) PROVE Table!Truncated(end)
  <2>1. PICK v \in Seq(G!Writable), r \in G!Writable :
          \E m \in 1 .. Len(Table!WrittenEntry(r)) - 1 :
            p.table = Table!Written(v) \o SubSeq(Table!WrittenEntry(r), 1, m)
    BY <1>4 DEF TablesWritten
  <2>2. PICK m \in 1 .. Len(G!WrittenEntry(r)) - 1 :
          p.table = G!Written(v) \o SubSeq(G!WrittenEntry(r), 1, m)
    BY <2>1, SameTable
  <2>3. G!Truncated(end)
    BY <1>1, <2>2, G!TornTableRead
  <2> QED
    BY <2>3, SameTable
<1> QED
  BY <1>3, <1>4

\* The graph is built from the regions that were written in the table, whatever
\* they are; a table is refused only when it is torn or one of its regions is of
\* no code this long, and a whole table with such a region always is.
THEOREM AnalysedTableIsRead ==
  ASSUME LeadingGenerators, TablesDecode, TablesWritten PROVE Spec => []TableIsRead
<1>1. Init => TableVerdict
  BY DEF Init, TableVerdict
<1>2. Inv /\ TableVerdict /\ [Next]_vars => TableVerdict'
  BY VerdictInv
<1>3. Inv /\ TableVerdict => TableIsRead
  <2> SUFFICES ASSUME Inv, TableVerdict PROVE TableIsRead
    OBVIOUS
  <2> DEFINE regions == {program.written[k] : k \in DOMAIN program.written}
             whole   == program.table = Table!Written(program.written)
  <2>1. program \in Programs
    BY DEF Inv
  <2>2. PICK f : IsReading(program.table, f)
    BY <2>1 DEF TablesDecode
  <2> DEFINE end == f[Len(program.table)]
  <2>3. /\ whole => ~Table!Truncated(end) /\ Table!Regions(end) = regions
        /\ ~whole => Table!Truncated(end)
    BY <2>1, <2>2, TableSays
  <2>4. /\ stage \in {"building", "marking"} => ~Refused(end) /\ flow.regions = Table!Regions(end)
        /\ stage = "badTable" => Refused(end)
    BY <2>2 DEF TableVerdict
  <2>5. \A r \in regions : Table!IsValid(r, program.length) <=> InsideCode(r)
    <3> SUFFICES ASSUME NEW r \in regions
                 PROVE  Table!IsValid(r, program.length) <=> InsideCode(r)
      OBVIOUS
    <3>1. r \in G!Writable
      <4>1. program.written \in Seq(G!Writable)
        BY <2>1 DEF TablesWritten
      <4> QED
        BY <4>1
    <3>2. /\ r.start \in Nat /\ r.end \in Nat /\ r.target \in Nat /\ r.depth \in Nat
          /\ r.start % 2 = 0 /\ r.end % 2 = 0 /\ r.target % 2 = 0 /\ r.start < r.end
      BY <3>1 DEF G!Writable
    <3> QED
      BY <3>2, Zenon DEF Table!IsValid, InsideCode
  <2> HIDE DEF regions, whole, end
  <2>6. stage \in {"building", "marking"} =>
          flow.regions = regions /\ \A r \in regions : InsideCode(r)
    BY <2>3, <2>4, <2>5 DEF Refused
  <2>7. stage = "badTable" /\ whole => \E r \in regions : ~InsideCode(r)
    BY <2>3, <2>4, <2>5 DEF Refused
  <2> QED
    BY <2>6, <2>7 DEF TableIsRead, regions, whole
<1> QED
  BY <1>1, <1>2, <1>3, InvHolds, PTL DEF Spec

\* Each result has its type from the stage on that computes it.
THEOREM AnalysisIsTyped ==
  ASSUME LeadingGenerators, TablesDecode PROVE Spec => []TypeOK
<1> DEFINE Staged == stage \in {"normalizing", "analysing", "reading", "building", "marking"}
                               \union Failures
<1>1. Init => Staged
  BY DEF Init
<1>2. Staged /\ [Next]_vars => Staged'
  <2> SUFFICES ASSUME Staged, [Next]_vars PROVE Staged'
    OBVIOUS
  <2>1. CASE Analyse
    BY <2>1 DEF Analyse, RefuseTarget, Normalize, AnalyzeStack, ReadByte, RefuseTable,
                AcceptTable, RefuseGraph, Build, MarkReachable, Failures
  <2>2. CASE Fall \/ Resume \/ Jump \/ Raise
    BY <2>2 DEF Fall, Resume, Jump, Raise, Enter
  <2>3. CASE UNCHANGED vars
    BY <2>3 DEF vars
  <2> QED
    BY <2>1, <2>2, <2>3 DEF Next
<1>3. D!TypeOK => Depth!TypeOK
  BY DEF D!TypeOK, Depth!TypeOK, D!IsStackProgram, Depth!IsStackProgram, D!IsProgram,
         Depth!IsProgram, D!Instructions, Depth!Instructions, D!HasTarget, Depth!HasTarget,
         D!OffsetSet, Depth!OffsetSet, D!Code, Depth!Code
<1>4. G!TypeOK => Graph!TypeOK
  BY DEF G!TypeOK, Graph!TypeOK, G!IsProgram, Graph!IsProgram, G!Instructions,
         Graph!Instructions
<1>6. Inv /\ Staged => TypeOK
  BY <1>3, <1>4 DEF Inv, D!Inv, G!Inv, TypeOK
<1> QED
  BY <1>1, <1>2, <1>6, InvHolds, PTL DEF Spec
=============================================================================
