---------------------------- MODULE CodeAnalysis ----------------------------
(***************************************************************************)
(* What decompyle3 learns about one code object before it looks for        *)
(* statements, in the order it learns it, followed by an execution of the  *)
(* code, so that each result can be held against what the machine does.    *)
(*                                                                         *)
(*   normalizing  Normalizer311.normalize checks the targets of the jumps  *)
(*   analysing    analyze_stack, on the exception entries xdis has read    *)
(*   reading      decode_exception_table reads the same table again        *)
(*   building     build_cfg, on the regions read                           *)
(*   marking      _mark_reachable                                          *)
(*                                                                         *)
(* An error of the program ends in "badTarget", "badDepths", "badTable" or *)
(* "badGraph"; "keyError" is an exception the code does not raise itself.  *)
(*                                                                         *)
(* Beside the fields of StackDepth a program has                           *)
(*   p.table    the bytes of co_exceptiontable                             *)
(*   p.written  the regions that were encoded in it, in order              *)
(*   p.length   the length of the code                                     *)
(* p.regions are those that xdis and the virtual machine read there.       *)
(***************************************************************************)
EXTENDS Bytecode, Integers

CONSTANTS Programs,          \* the code objects a behaviour may start with
          MaxCode,           \* no code has more instructions
          Listing            \* the order in which the successors of a block are listed

Block == 0 .. MaxCode - 1

ASSUME MaxCodeAssumption == MaxCode \in Nat \ {0}

ASSUME ListingAssumption ==
  /\ Listing \in [SUBSET Block -> Seq(Block)]
  /\ \A S \in SUBSET Block : {Listing[S][k] : k \in DOMAIN Listing[S]} = S

VARIABLES program, stage,
          depthOutcome, depths, queue,                \* of StackDepth
          unread, read,                               \* bytes of the table, and what they said
          flow,                                       \* the code build_cfg is given
          graphOutcome, leaders, edges,               \* of BuildCFG
          successors, pending, seen,                  \* of Reachability
          pc, depth, block                            \* of the execution

analysis == <<depthOutcome, depths, queue>>
decoding == <<unread, read>>
graph    == <<graphOutcome, leaders, edges>>
search   == <<successors, pending, seen>>
vars     == <<program, stage, analysis, decoding, flow, graph, search, pc, depth, block>>

\* Every jump goes to an instruction, and not into its inline cache.
TargetsExist(p) == \A i \in Instructions(p) : HasTarget(p, i) => p.target[i] \in OffsetSet(p)

\* flow_tokens: a generator's code is looked at behind RETURN_GENERATOR, POP_TOP.
Skip(p) == IF p.kind[1] = "generator" THEN 2 ELSE 0

FlowCode(p, regions) ==
  LET part(field) == SubSeq(field, Skip(p) + 1, Len(p.offset))
  IN  [offset |-> part(p.offset), kind |-> part(p.kind), target |-> part(p.target),
       regions |-> regions]

\* Where the execution is in the code the graph was built from.
FlowPc == IF pc <= Skip(program) THEN 1 ELSE pc - Skip(program)

\* Codes the instances below speak of.
Normalized == {p \in Programs : TargetsExist(p)}
FlowCodes  == {FlowCode(p, p.regions) : p \in Programs}

Table  == INSTANCE ExceptionTable
Depth  == INSTANCE StackDepth   WITH Programs <- Normalized, outcome <- depthOutcome,
                                     pending <- queue
Graph  == INSTANCE BuildCFG     WITH Programs <- FlowCodes, program <- flow,
                                     outcome <- graphOutcome, pc <- FlowPc
Search == INSTANCE Reachability WITH BlockCount <- MaxCode,
                                     AdjacencyLists <- [Block -> Seq(Block)]

ASSUME ProgramsAssumption ==
  \A p \in Programs :
    /\ IsProgram(p) /\ Len(p.offset) <= MaxCode
    /\ TargetsExist(p) => Depth!IsStackProgram(p)
    /\ p.kind[1] = "generator" => Len(p.offset) > 2 /\ p.kind[2] = "plain"

Init == /\ program \in Programs
        /\ stage = "normalizing"
        /\ depthOutcome = "analysing" /\ depths = [i \in {} |-> 0]
        /\ queue = Depth!InitialPending(program)
        /\ unread = program.table /\ read = Table!NothingRead
        /\ flow = FlowCode(program, {})
        /\ graphOutcome = "building" /\ leaders = {} /\ edges = {}
        /\ successors = [b \in Block |-> <<>>] /\ pending = <<>> /\ seen = {}
        /\ pc = 1 /\ depth = 0 /\ block = 1

\* InvalidJumpTargetError.
RefuseTarget ==
  /\ stage = "normalizing" /\ ~TargetsExist(program)
  /\ stage' = "badTarget"
  /\ UNCHANGED <<program, analysis, decoding, flow, graph, search, pc, depth, block>>

Normalize ==
  /\ stage = "normalizing" /\ TargetsExist(program)
  /\ stage' = "analysing"
  /\ UNCHANGED <<program, analysis, decoding, flow, graph, search, pc, depth, block>>

\* One step of analyze_stack.
AnalyzeStack ==
  /\ stage = "analysing" /\ Depth!Analyse
  /\ stage' = CASE depthOutcome' = "ok"        -> "reading"
                [] depthOutcome' = "missing"   -> "keyError"
                [] depthOutcome' = "analysing" -> "analysing"
                [] OTHER                       -> "badDepths"
  /\ UNCHANGED <<decoding, flow, graph, search, block>>

\* decode_exception_table takes a byte.
ReadByte ==
  /\ stage = "reading" /\ unread # <<>>
  /\ read' = Table!ReadByte(read, Head(unread)) /\ unread' = Tail(unread)
  /\ UNCHANGED <<program, stage, analysis, flow, graph, search, pc, depth, block>>

\* All bytes are taken, and the last entry is torn or one is of no code this long.
IsBadTable == \/ Table!Truncated(read)
              \/ \E r \in Table!Regions(read) : ~Table!IsValid(r, program.length)

RefuseTable ==
  /\ stage = "reading" /\ unread = <<>> /\ IsBadTable
  /\ stage' = "badTable"
  /\ UNCHANGED <<program, analysis, decoding, flow, graph, search, pc, depth, block>>

AcceptTable ==
  /\ stage = "reading" /\ unread = <<>> /\ ~IsBadTable
  /\ stage' = "building"
  /\ flow' = FlowCode(program, Table!Regions(read))
  /\ UNCHANGED <<program, analysis, decoding, graph, search, pc, depth, block>>

RefuseGraph ==
  /\ stage = "building"
  /\ UNCHANGED <<program, analysis, decoding, search, pc, depth>>
  /\ Graph!Refuse
  /\ stage' = "badGraph"

\* Defect: the search starts from the last block.
BuildFromLast ==
  /\ stage = "building"
  /\ UNCHANGED <<program, analysis, decoding, pc, depth>>
  /\ Graph!Build
  /\ successors' = [b \in Block |-> Listing[{e[2] - 1 : e \in {d \in edges' : d[1] = b + 1}}]]
  /\ pending' = <<Len(flow.offset) - 1>> /\ seen' = {}
  /\ stage' = "marking"

\* build_cfg up to its call of _mark_reachable, which numbers the blocks from 0.
Build ==
  /\ stage = "building"
  /\ UNCHANGED <<program, analysis, decoding, pc, depth>>
  /\ Graph!Build
  /\ successors' = [b \in Block |-> Listing[{e[2] - 1 : e \in {d \in edges' : d[1] = b + 1}}]]
  /\ pending' = <<0>> /\ seen' = {}
  /\ stage' = "marking"

\* One step of _mark_reachable.
MarkReachable ==
  /\ stage = "marking" /\ Search!Next
  /\ UNCHANGED <<program, stage, analysis, decoding, flow, graph, pc, depth, block>>

Analyse == \/ RefuseTarget \/ Normalize \/ AnalyzeStack \/ ReadByte \/ RefuseTable
           \/ AcceptTable \/ RefuseGraph \/ Build \/ MarkReachable

Analysed == stage = "marking" /\ pending = <<>>

\* The graph's view of a step of the machine: a leader starts a block.
Enter == /\ block' = IF FlowPc' \in leaders THEN FlowPc' ELSE block
         /\ UNCHANGED <<stage, decoding, flow, graph, search>>

Fall   == Analysed /\ Depth!Fall   /\ Enter
Resume == Analysed /\ Depth!Resume /\ Enter
Jump   == Analysed /\ Depth!Jump   /\ Enter
Raise  == Analysed /\ Depth!Raise  /\ Enter

Next == Analyse \/ Fall \/ Resume \/ Jump \/ Raise

Spec == Init /\ [][Next]_vars /\ WF_vars(Analyse)
-----------------------------------------------------------------------------
Failures == {"badTarget", "badDepths", "keyError", "badTable", "badGraph"}

\* Types: each result has its type from the stage on that computes it.
TypeOK ==
  /\ stage \in {"normalizing", "analysing", "reading", "building", "marking"} \union Failures
  /\ stage \notin {"normalizing", "badTarget"} => Depth!TypeOK
  /\ stage \in {"building", "marking"} => Graph!TypeOK
  /\ Search!TypeOK

\* The executing instruction has a depth, it is that of the machine, and there are as
\* many values as the instruction takes.
DepthsAreExact == Analysed => Depth!DepthsAreExact /\ Depth!NeverUnderflows

\* An instruction that has a depth has an instruction to go on with wherever it
\* can raise, so that no handler is missing when the graph asks for it.
HandlersExist == Depth!HandlersExist

\* The regions the graph is built from are those that were written in the table.
\* A table is refused only when it is torn or says what no code of this length
\* can mean, and then it always is.
InsideCode(r) == r.end <= program.length /\ r.target < program.length

TableIsRead ==
  LET regions == {program.written[k] : k \in DOMAIN program.written}
      whole   == program.table = Table!Written(program.written)
  IN  /\ stage \in {"building", "marking"} =>
           flow.regions = regions /\ \A r \in regions : InsideCode(r)
      /\ stage = "badTable" /\ whole => \E r \in regions : ~InsideCode(r)

\* The machine leaves a block along an edge and otherwise goes straight on.
StepsAlongEdges == Graph!StepsAlongEdges

\* Every edge is one that an instruction of its block can take.
EdgesAreReal == graphOutcome = "built" => Graph!EdgesAreReal

\* The flags are exactly the blocks that can be reached.
MarksExactlyReachable == stage = "marking" => Search!MarksExactlyReachable

\* The block of the executing instruction carries the flag.
RunsOnlyMarked == Analysed => block - 1 \in seen

\* The two analyses, made apart on two readings of the table, agree on what is
\* live: an instruction has a depth iff its block is marked.
AnalysesAgree ==
  Analysed =>
    \A i \in Instructions(flow) :
      i + Skip(program) \in DOMAIN depths
        <=> \E b \in leaders : /\ b <= i /\ \A k \in leaders : k <= b \/ i < k
                               /\ b - 1 \in seen

\* The analyses end.
Terminates == <>(Analysed \/ stage \in Failures)
=============================================================================
