# decompyle3 in TLA+

This directory specifies the core of decompyle3, a decompiler for Python
bytecode, in TLA+. TLC checks the specifications on small instances, and TLAPS
proves the most important results for every instance.

The subject is the CPython 3.11 pipeline, which is where the program has logic
of its own: graph algorithms, abstract interpretation of the value stack, and a
translation whose result must do what the bytecode does. The older back ends
(3.7, 3.8, PyPy) are grammars and format tables that library code interprets.

## 1. Inventory

### How an input flows

    main.py, bin/decompile.py   batch loop, outputs, _failed files, exit status
      -> scanner311             code objects to instructions (xdis)
      -> normalize311           opcode by opcode to version-independent tokens,
                                call validation, analyze_stack
      -> exceptiontable311      exception table to regions
      -> controlflow/cfg        blocks and edges, reachable flags
      -> controlflow/dominators reducibility, dominators, loops
      -> parsers/p311/base      straight-line parser: tokens to ast statements
      -> controlflow/structures conditions, loops, regions; exception_structures,
                                match_structures: try, with, match
      -> ast.unparse            source text
      -> verification           syntax check of what was written

Everything is called sequentially in one process: `main.py` sets `numproc` to 1,
and the multiprocessing branch cannot be entered. The only other actor is the
operator: Ctrl-C can arrive at any instruction, and files of earlier, possibly
interrupted, runs are there when a batch starts. What is hard here is therefore
not concurrency inside the program. It is:

* iterations whose intermediate states mix old and new values (the dominator
  fixpoint, the stack analysis, both depth-first searches);
* an analysis that stands for all executions of the analysed program: one edge,
  block or depth that is wrong for one path changes the source that is written;
* evaluation that is deferred: expressions wait on the parser's stack while
  statements are written around them;
* the failure of one of many inputs at any step, and what is left in files and
  counters.

### Components

| component | state it keeps | operations | correct when | status |
|---|---|---|---|---|
| control flow graph (`controlflow/cfg.py`, `basicblock.py`) | leaders, blocks, edges, the deque and the reachable flags | `build_cfg`, `_mark_reachable` | every step of an execution is an edge or stays in its block; every edge can be taken; exactly the live blocks are marked | modelled |
| flow analyses (`controlflow/dominators.py`) | search stacks, components, dominator sets, loop members | `_strong_components`, `_ensure_reducible`, `_fixed_point_sets`, `_immediate`, `_natural_loop` | what is returned is what the definitions over paths say; irreducible graphs are refused and only those | modelled |
| instruction normalizer (`scanners/normalize311.py`, `ir.py`) | depth of each instruction, deque | `normalize`, `_validate_calls`, `_stack_shape`, `analyze_stack` | recorded depths are those of the machine | `analyze_stack` and the symbolic stack modelled |
| exception table (`controlflow/exceptiontable311.py`, `exception_regions.py`) | byte iterator, regions | `parse_exception_table`, `validate_exception_regions` | regions are those CPython would use; malformed tables are refused | modelled |
| exception region map (`controlflow/exception_regions.py`) | none | groups the regions by handler for the try recovery | | not modelled, with its only reader |
| straight-line parser (`parsers/p311/base.py`) | expression stack, body, pending assignment, unpack groups, pending booleans | one handler per token kind | the text does what the tokens do, in the same order | every handler of `_dispatch` |
| condition recovery (`controlflow/structures.py`) | decision nodes, work stack, expressions | `_bounded_condition_plan`, `_combine_decision` | the condition evaluates the same predicates in the same order to the same side | algebra, work list, collection in module code |
| region parser (`controlflow/structures.py`) | the stack of calls with their position, body and values, active regions, suppressed loop starts, work counter | `_capture_region`, `_parse_region` and one handler per statement | the program it writes runs as the code does; each statement is written once; no interval is parsed again and again | simple statements, if, while, while True, for |
| try/with and match recovery (`exception_structures.py`, `match_structures.py`) | none beyond a call | shape recognition of compiler output | the recovered statement compiles to the shape | not modelled |
| expressions and comprehensions (`parsers/p311/expressions.py`, `comprehensions.py`) | as the straight-line parser | value-producing short circuits | as conditions | not modelled |
| batch driver (`main.py`, `bin/decompile.py`, `errors.py`) | counters, current output, output and `_failed` files, exit status | the loop body, its `except` and `else` branches, Ctrl-C | counters, files and exit status tell the truth about each input | modelled but for options and decompilation itself |
| scanners and grammars of 3.7/3.8/PyPy, reduction checks, `semantics/`, display | parse trees | data for spark_parser and format tables | | not modelled |

PROJECT.json names the files of every component, also of those not modelled, and
the reason. It also lists the hazards, each at its line with the properties
that would notice it; a hazard that no property covers yet has a note.

Communication is by calls and by records handed on: programs (offset, kind,
target, table) from the normalizer to the graph, edge sets from the graph to
the analyses, dominators to the region recovery, deferred expressions from the
straight-line parser to the structures. The modules follow these seams.

## 2. Modules

    FlowGraph -> FlowGraphs -> Reducibility, DominatorFixpoint, NaturalLoops
         |            \-> FlowAnalysis = INSTANCEs of the three in sequence
         \-> Reachability --\
    Bytecode -> BuildCFG ----> CodeAnalysis = INSTANCEs of the four in sequence
        |   \-> StackDepth --/
        |      ExceptionTable
        |
        \-> RegionCode (blocks of BuildCFG) -> RegionConditions -> Regions -> RegionMeaning
                 ConditionAlgebra -> RegionCode      StructuredSource (gives Regions its code)
                        \-> ConditionPlan -> ConditionMeaning
    StackMachine -> StraightLine          BatchDriver

Each `MC...` module gives the constants of one of them their values for TLC; each
`...Proofs` module holds theorems about the module whose name it bears (and those of
DominatorFixpoint and NaturalLoops are in FlowAnalysisProofs, those of Reachability in
CodeAnalysisProofs, those of ExceptionTable in BuildCFGProofs).

**FlowGraph, FlowGraphs** hold blocks, edges and the reference notions
(reachable, reaches) in terms of closed sets. A path is never enumerated: "b is
reachable" is "every closed set with the entry has b". The form needs no
recursion, so TLC evaluates it and TLAPS can reason about it.

**Reachability** is `_mark_reachable`: `pending` is the deque in its order, `seen`
the flags, `SkipSeen` and `Mark` the two ways through the loop body. The
adjacency lists may repeat a target, as two edges with different labels do.

**Bytecode** is the program the next modules run: offsets with gaps for
inline caches, five kinds of instructions and the exception regions, and the
three ways the machine goes on (`FallsTo`, `JumpsTo`, `RaisesTo`). These are
written from CPython's rules and not from `build_cfg`, so that a disagreement
would show.

**BuildCFG** is `build_cfg`: `Refuse` is its ControlFlowError for targets without
an instruction, `Build` everything else (`Leaders`, `InBlock`, the three kinds of
edges). `Fall`, `Jump` and `Raise` then execute the program on the finished graph;
`block` is what the graph says about where the execution is. Blocks are named
by their first instruction instead of by rank; labels of edges are dropped.

**StackDepth** is `analyze_stack`: `Record`, `Again`, `Inconsistent` and `Shallow`
are the ways through the loop over `pending`, `Finish` its end, followed by the
machine (`Fall`, `Resume`, `Jump`, `Raise`) with the real depth of its stack. The
deque is a set: TLC explores every order of taking items, the code's included,
and the theorems hold for every order. Depth effects come with the program: an
opcode matters through its effect, its effect when it jumps, and the depth it
requires.

**ExceptionTable** is `exceptiontable311.py`: `ReadByte` is one turn of the loop of
`_parse_varint` with what `decode_exception_table` makes of a number that is
complete, `Truncated` and `IsValid` are its errors. The reference is the other side:
`Written` is how CPython's assembler encodes regions.

**CodeAnalysis** runs the components in the order the program does, on one code
object: the test of jump targets, `analyze_stack` on what xdis reads in the
exception table, the decoder on the same bytes, `build_cfg` on the regions it
finds (a generator without its first two instructions, as `flow_tokens` cuts
them), `_mark_reachable` on the successors `build_cfg` lists, and then the machine on
all of it at once. `stage` is where the pipeline is; an error of any component ends
it. Only here do the components' assumptions about each other meet: that the
table is read alike twice, that a handler the first analysis found is one the
second can find, that depths and marks agree on what is live.

**Reducibility** is `_strong_components` step by step (two searches with explicit
stacks, in sorted order) and `_ensure_reducible`. **DominatorFixpoint** is
`_fixed_point_sets`, forward and reverse: one `Visit` per node of a pass in sorted
order, updating in place, `NextPass` while something changed. **NaturalLoops** is
`_natural_loop` and the condition for back edges. Each has its own Init, Next and
Spec.

**FlowAnalysis** is `analyze_control_flow`: it instantiates the three with its own
variables and runs them in the code's order, each from what the previous one
left, and adds `_immediate` and the sorted sequence of back edges. This is the
module TLC runs; the component proofs are lifted to it.

**ConditionAlgebra** is how two decided parts of a condition are joined:
`_combine_decision` with `_negate`, `_boolean_operation` and both factorings, on ast
nodes with the fields the code looks at.

**ConditionPlan** is the end of `_bounded_condition_plan`: the work list with its
expanded flag, the active set, the work limit and its three ValueErrors, over any
decision graph. **ConditionMeaning** adds the reference, an evaluator: the outcomes of predicates are a
sequence that the jumps (`Walk`) and the expression (`Eval`) consume, so a predicate
evaluated twice, in another order or not at all is seen.

**Regions** is the region parser on module code. A call of `_parse_region` is a frame
(its interval, position, recovered suite and stack of values); a handler that has
captured some of its suites is the `todo` of its frame, so each action is what
happens between two calls: `ParseWhileTrue`, `ParseFor`, `ParseDegenerate`, `ParseWhile`, `ParseIf`,
`ParseJump`, `SkipDrop` and the `Dispatch` actions in the order `_parse_region` tries them,
`Capture` and `Return` for `_capture_region`, `Complete` for the end of a handler, `Fail`
for its errors. `active`, `work` and `suppressed` are the fields the code keeps
across calls. What code it parses is a parameter: `Compiled` gives the tokens of a suite,
and of them only `CodeAssumption` is assumed (jumps go to instructions); the runs take
them from StructuredSource. Loops of the code that search or repeat are folds and recursive
functions, so that the module can be reasoned about.
**RegionMeaning** adds the reference: when the parser is done, `Execute` runs the code and the
recovered program side by side; each test comes out either way and each iterator goes on or is
exhausted, the same for both. A step of `MeaningNext` is one of the parser or leaves its
variables alone, so what is proved of Regions holds of what the run checks.
**RegionCode** has what the handlers ask about jumps, blocks and intervals (over the
graph of BuildCFG), **RegionConditions** the first half of `_bounded_condition_plan`:
which jumps are one source condition, found by lines, columns and
predecessors, its reductions and extensions, and `_if_expression_condition_plan`.

**StructuredSource** is not this program: it is CPython 3.11's compiler for modules of
simple statements, if, while, while True and for, with its jump threading, removal of
dead code, of nops and of jumps to the next instruction, and placement of line
numbers. A module ends with a simple statement here, so that no exit block is
copied. The region parser lives off all of these, so a program with
invented jumps and lines would show nothing about it.

Both were held against the real programs: on 7533 sources without and 5967 with for
loops, compiled by CPython 3.11 and decompiled by decompyle3, the recovered suite, or
the refusal, is the one Regions computes, the programs that are misread included.

**StraightLine** is the dispatch of `_StraightLineDecompiler` in the loop of
`_parse_region`. Each action is one kind of token: it resolves the short circuits that
end there, flushes the queued assignment unless the token is a store, takes the
handler's step, and executes the same token on `machine` and on the normalizer's
symbolic stack, from which calls learn what stands below their arguments. A value
of the parser's stack is a tag and the code that evaluates it; `of` is bookkeeping
of the model, the values an expression is made of. `groups` are the unpackings with
the targets found so far, `pendingBooleans` the left operands whose right ones are
not complete, `pendingValue` and `pendingTargets` the queued assignment. `body` is the
code of the statements written so far, so that `Run(body)` compiles and executes
the text again. Functions, lambdas, classes and comprehensions are values with a
name; their bodies are code objects of their own.

**StackMachine** is not this program: it is the part of CPython 3.11 that executes
such tokens, and what its compiler makes of each kind of statement. A value is the
term that made it; calls, operators, attribute accesses and the like are recorded
with the names visible to them; a test goes both ways, each way in a world of its own.

The tokens and the results were held against the real programs: for all 1205 bodies
of the run that are not a large display, CPython 3.11 compiles the corresponding
source to exactly these tokens, and what decompyle3 writes for it compiles to what
StraightLine's `body` says (but for format specifications, which the check's
stand-in for xdis did not read).

**BatchDriver** is the loop of `main` and the exit status of `main_bin`. `phase` is
the place in the loop body; each action is a stretch of it that can fail or be
interrupted as one. Files are "none", "old" (from an earlier run), "partial" or
"whole". What decompilation and verification answer for an input is a field of
the input. `Interrupt` is Ctrl-C where the `except KeyboardInterrupt` clause sees
it, `InterruptOutside` elsewhere.

Definitions whose comment starts with "Defect:" are not part of any
specification: each is the form one definition would have with a plausible bug,
and serves to see that a property notices it.

## 3. Runs

| run | question | instance |
|---|---|---|
| code_analysis | is every analysis of a code object right about the code that runs, and do they agree with each other? | every program of 3 instructions around a cache, without entries or with one, of 4 without entries; generators; nested entries; torn tables; numbers of one to three bytes |
| flow_analysis | are components, dominators, post-dominators, their trees, loops right, and is only an irreducible graph refused? | every graph on 4 blocks (self-loop on the last only): 8192, dead code and endless loops among them |
| irreducible_accepted | are all irreducible graphs refused? No. | the same |
| closure_generator | is every executed instruction given a depth? No. | a generator with free variables |
| straight_line | does the text do what the tokens do, after every token? | every pair of basic statements, every other kind of statement and expression, in module, class and function bodies; damaged token sequences |
| shared_operands | the same when a value waits twice, two values wait to be stored, a chain is torn, a name is left out? No. | `a, b = b, a`, `(a := f())`, `a = b = c = f()` and eleven more, each of which violates it and is described in section 5 |
| condition_plan | does the condition mean the jumps? | every decision graph of 3 jumps, every acyclic one of 4, repeated predicates, every form of predicate |
| negated_comparison | the same when operands may be unordered? No. | conditions with one `<` |
| regions | does the recovered program run as the code does, and is it found in bounded work, with the right loops in hand? | 6833 modules of up to 5 statements (below) |
| misread_loops | the same for a loop alone in an if, or one that continues under a guard and else breaks? No. | `if c: while d: s()`; `while c: (if d: continue); break`; the same with for |
| batch_driver | do counters, files and exit status agree with what happened? | every batch of 1 to 3 inputs, each kind of failure at each place, every leftover, Ctrl-C anywhere |
| verify_stdout | does the batch go on after any failure of one input? No. | an input not called .pyc verified to standard output |

The properties, by hazard:

* **Nothing live is lost, nothing dead is analysed**: `MarksExactlyReachable`,
  `RunsOnlyMarked`, `StepsAlongEdges`, `EdgesAreReal` (`build_cfg` must be neither
  too coarse nor too fine).
* **Two analyses of one thing agree**: `AnalysesAgree` (an instruction has a depth
  exactly if its block is marked), `HandlersExist` (no handler is missing when the
  graph asks for it), `TableIsRead` (the decoder returns what the assembler wrote,
  and refuses exactly what is torn or outside the code).
* **Intermediate values do not leak into results**: `NoDominatorLost` at every
  moment, `ComputesDominators` at the end; `DominatorTree` says that `_immediate`,
  which takes the first candidate of a set, has exactly one from the dominators of
  a block and that these form the tree, and at most one from the post-dominators of a
  block that can reach an exit, which form a forest. A block that reaches no exit has
  every block for a post-dominator; there the code takes any of several candidates,
  the model keeps them all and the property says nothing. `ComponentsAreStrong` while the second search runs.
* **Loops are loops**: `SingleEntry`, `LoopIsCyclic`, `AcceptedCyclesHaveHeader`,
  `RejectsOnlyIrreducible`.
* **The analysis speaks for every execution**: `DepthsAreExact` (the depth of the machine, and
  enough for what the instruction takes).
* **Deferred evaluation keeps its meaning**: `DeferredMeaning` after every token,
  `SemanticEquivalence` at the end, `MeansTheJumps`;
  `RefusesExactlyDamaged` and `RefusesExactlyCycles` that errors come when, and only when,
  they must.
* **Structure is found, not invented**: `MeansTheCode`, `EveryStatementOnce` (regions
  overlap nowhere and leave nothing out), `AcceptsPlainTests` (no refusal when every
  test is a name or a negated name). `KnowsOpenLoops`: what the parser keeps about loops
  beside its calls, where a break goes and which starts are suppressed, is about the
  loops open there.
* **A batch tells the truth**: `CountsAddUp`, `ExitTellsAll`, `MarkersTellTheTruth`,
  `NoPartialOutput`, `EndsEarlyOnlyByOutput`. `NoPartialOutput` also bounds what Ctrl-C
  leaves behind where no handler sees it (main.py:477): the output in hand, between
  its opening and the `try` or in the `except` branch.
* **It ends**: `Terminates` of CodeAnalysis and FlowAnalysis; `ParsingDescends` of Regions (each
  step leaves less to do), and `WorkIsBounded` that it ends long before the work limit does it.

### Bounds, and why they suffice

No module has a counter of its own that must be capped. Blocks: three are the
least with a branch, a join and a cycle, four add a loop with two entries inside
another cycle, a post-dominator that is no exit, and dead code into a live loop;
the results that matter are proved for every number. Programs: the rules of
`build_cfg` and `analyze_stack` look at an instruction and its successor, so three
instructions contain a branch, what it jumps over and a join; the region bounds
fall before, on, inside (the cache slot) and after each; all of it is proved for
every program. Conditions: every rule of `_combine_decision` looks at one jump and
the results of its two sides, each factoring looks one level further; four jumps
reach all of them (a factoring of a factored result included). The work limit
is 64 for up to eight jumps, so it is exceeded only by cycles here; the defect
`WorkLimitTight` shows the run would notice a limit that is too low.
Statements: an assignment that is pending and the next statement interact in
pairs, since a third statement starts after a flush, with nothing pending on the
stack; the rarer kinds of statements are followed by nothing, by another statement
and by a chain. Expressions wait on one stack whatever makes them, so one with two
effects whose order shows is enough for each handler; short circuits nest two deep,
on either side. MAP_ADD, which the compiler uses for displays of more than 15 pairs,
is run with one. Tables: the decoder knows only whether a number goes on and whether it is the
fourth, and every combination occurs. Regions: see below. Batch: two inputs interact through the counters and a shared name only;
the third is the first one given again. Proved for every batch.

The programs of the run regions are all modules of up to 4 statements, nested up
to 3 deep, with all four forms of test, of 5 with names as tests, and those of 5
without loops with names, negations and `or`. Of these `Placed` takes the
ones in which a loop stands where the parser is known to get it wrong: first in an if,
else or while (the first finding of misread_loops), directly behind another loop, or with a
`break` as the last statement of its body (`while c: (if d: continue); break` loses the
break, its second finding) or of an else suite (`while True` with it first is no loop at all). A for
loop is recovered wherever it stands, unless it has both a `break` at its end and a
`continue`, an else suite that ends in one of them (`while True: (for x in y: break;
else: continue); break`), or runs into a `while True` without `break`, for which it is
refused: it has "neither a loop-back nor break edge". Some of
those programs are refused with "region cycle", most are misread without notice; one
representative is a finding, the others are the same decision, made by position
where the code does not carry it. Names as tests keep the parser on the paths that
choose regions; `and` and `or` exercise RegionConditions. Five statements are enough
for a loop with an else suite and a conditional break or continue inside, for two
loops around a break, for an
if with else within another, and for every handler to be fired.

CHECK_DEADLOCK is off where the modelled function returns and the specification
stops with it. ConditionPlan and Regions have an action for having returned, and
deadlock is checked there: in no state is there no rule that applies.

### Fairness

`WF_vars(Next)` in the sequential algorithms says that a running function takes
its next step: one process, no waiting, no input from outside. CodeAnalysis is fair
to `Analyse` only, as the analysed program need not run on. ConditionPlan, Regions,
StraightLine and BatchDriver state safety only and assume no fairness; that the
loop of ConditionPlan and the calls of Regions end is safety there. The work of the first is
counted and bounded; a step of the second makes a tuple of four natural numbers
smaller (`ParsingDescends`). In neither is a state without a successor. Nobody has to press Ctrl-C, nobody may rely on it.

## 4. Proofs

All for any value of the constants.

* **ReducibilityProofs.** Kosaraju's two searches with explicit stacks, on any
  graph and in any order of visiting. Each initial part of the finish order is
  `Settled`: a block in it that reaches a block outside it is connected to one
  outside. When the second search meets a block behind the one it started from, that
  block reaches an unfinished one, so it is connected to it, and lies in an earlier
  component or in the one being gathered. From components that are the strong
  ones: refused graphs are irreducible, accepted cycles have a dominating header.
* **FlowAnalysisProofs.** First the fixpoint iteration. Invariant: no true dominator is
  lost, and while
  `changed` is false each visited node equals what its predecessors give. Lost
  nothing, because a dominator of a node dominates all that feed it. Nothing
  extra, because at the end "d is not in result[n]" is itself a cut: the set of
  nodes without d is closed when d is removed. That is why the argument needs no
  induction over paths or passes, and why it covers updates in place.
  Then the search for one loop. Invariant: the header dominates all
  members; popped members have no predecessor outside; no smaller set is closed
  that way. The first gives the single entry, the last two that each member lies on
  a cycle. Last the composition, with the properties as the run checks them:
  each stage starts in the initial states of its module, its steps are that module's
  or leave its variables alone, and the dominators handed to the loops are
  those of the other module's definition of domination. That the immediate
  dominators are a tree rests on the dominators of a block being a chain: of
  two of them one dominates the other, and the finite chain has a last member.
  The argument is made once, for a relation that feeds nodes from roots: the edges
  and the entry for the dominators, the edges turned round and the exits for the
  post-dominators. It holds for nodes that are fed from some root, which forwards
  is every reachable block and backwards each block that can reach an exit.
* **BuildCFGProofs.** Three lemmas, one for each way the machine goes on: it stays
  in its block or there is an edge. Exceptions are the hard one: a raise inside
  a block uses the edge that was made for the block's start, and no region can
  begin or end inside a block because its bounds are leaders. From them
  completeness of the edges; the converse, `EdgesAreReal`, from the instruction each
  kind of edge was made for. Assumed: offsets increase.
  Then the decoder of the exception table. Reading undoes writing, for regions of any number and
  numbers of any size (`WholeTableRead`), and a table that is cut inside an entry ends
  in a state the decoder refuses (`TornTableRead`). Byte by byte, number by
  number, entry by entry: `Reads(s, bytes, t)` says that the bytes lead the reader from
  s to t without a place to stop between them, and reads are put together.
  The library's induction theorems are out of reach, so what is said of every number is
  shown by looking at the least one it would fail for; that a
  recursive definition has its equation is shown the same way.
* **StackDepthProofs.** Invariant: whatever may follow a recorded instruction is
  recorded with the depth that path gives, or queued with it (`FollowersKnown`).
  With an empty deque the depths are preserved by every step of the machine. The
  converse, `OnlyLedTo`: recorded and queued instructions lie in every set that
  nothing queued leads out of. `LeadingGenerators`
  (RETURN_GENERATOR comes first or not at all) is a hypothesis of the theorems
  about depths; without it they are false, as the run closure_generator shows.
* **CodeAnalysisProofs.** First the marking of any graph. Invariant: queued and
  marked blocks are reachable; the entry is marked or queued and so is each successor of
  a marked block. With an empty deque the marked set is closed and contains
  the entry, hence it has all reachable blocks. Then the pipeline. The invariant says
  stage by stage what each component finds when it starts (`NotStarted`), that the bytes
  taken so far have said what they say to any reader (`ReadSoFar`), and that the
  listed successors are the edges' ends (`Listed`); in its stage each component's own
  invariant holds. From it the types, the eight safety properties of the run
  and its action property. `RunsOnlyMarked` needs all three components: the step goes
  along an edge, the edge's end is listed, listed blocks of marked ones are marked.
  `AnalysesAgree` compares two least closed sets: what leads from instruction to
  instruction for the depths leads from block to block in the graph (`FlowLeads`), a block
  runs straight, so each set, carried over, is closed in the other sense.
  `TableIsRead` is WholeTableRead and TornTableRead, with `TableVerdict` from the last
  byte on. Cutting the first two instructions off a generator hides no step, because
  a region or jump that named one of them would have been refused. Hypotheses:
  `LeadingGenerators` for depths; `TablesDecode` (the regions of a program are those its
  table has for any reader); for `TableIsRead` also `TablesWritten` (a table has
  the entries of regions with start < end and even bounds, whole or cut inside
  an entry, which is what CPython writes). All programs of the run satisfy the three.
* **ConditionPlanProofs.** A condition is refused exactly when jumps that can be
  reached lead in a circle (`RefusesExactlyCycles`), and the types, which say that the
  active jumps are those waiting on the stack. The invariant has five parts:
  what a waiting jump waits for lies above it (`SidesAbove`), so no part is missing;
  from a waiting jump up to the next one all entries are its sides (`Path`), so a
  waiting jump that is met again closes a circle; what has an expression is closed and
  holds no circle (`NoCircleRecovered`), so a plan is the end of an acyclic graph; the
  bottom is the entry; and pops, entries and three for each untouched jump add up to
  the same number for ever (`Budget`), so the work limit of six for each jump is never
  met. Assumed of a collected plan (`PlansAssumption`): finitely many jumps, one of
  them at the entry, each with collected sides. Sharing, jumps behind endpoints and
  jumps nothing leads to are allowed.

  The second half is what `MeansTheJumps` asks on small graphs, for all of them
  (`PlannedConditionIsExact`). An evaluator `m` has expressions, states, the pairs that
  come out true and the state after each; `IsEvaluator` is Python's rules as equations,
  one for each constructor (a join goes on to the rest of its operands only when the
  first lets it, a conditional expression evaluates its test and one side, `<` and
  `>=` are opposites). The states can be anything, the list of what was evaluated so
  far together with what comes out next in particular: that is the evaluator of
  ConditionMeaning, with as many outcomes as are asked for, and equal states are then
  equal predicates in equal order. A walk `w` says the same of offsets, jump by jump.
  `CombineChooses` is the heart: every case of `_combine_decision` with every
  factoring makes `true if predicate else false`, given any expressions. It rests on
  `SplicedJoins` (operands may be spliced in, because a join is associative; by a
  shortest counterexample), `PrefixJoins` and `NegateNegates`. The invariant
  (`Meaning`) says of each recovered expression what the theorem says of the last. The
  hypothesis that comparisons have opposites is the one `negated_comparison` refutes
  of the program; nothing else of the theorem uses more than the rules.
* **RegionsProofs.** On any code, compiled or not, of which only `CodeAssumption` is known:
  the types (`TypeCorrect`), the loops in hand (`OpenLoopsKnown`) and the end
  (`Descends`, `NumbersLeft`). The invariant says of the calls (`FramesOK`) that each is inside the
  code; that a statement waits for one or two suites and has fewer than that; that the call
  above parses the next of them; that the first suite of a loop has the loop of the
  statement, which a break leaves to where the statement goes on, and the others that of the
  call; that no two calls parse the same region; and that the
  starts they suppress are disjoint. Then `active` and `suppressed` are exactly the
  regions and the starts of the calls. The last two parts are why it is
  inductive: `_capture_region` takes its region out of `active` and `_while_true_loop`
  its starts out of the suppressed ones when they are done, which would take away
  those of another call if they could be shared. They cannot, because an active region is
  refused and a loop is looked for only at starts that are not suppressed.
  What is left to do is, most significant first: the regions the work limit allows, the calls,
  whether the innermost one scans, has a suite to capture or a statement to complete, and the
  tokens of its region. A capture uses up work; a return ends a call; taking a statement on and
  completing it lower the third; whatever has no suite moves on in the region
  (`GoesOn`). A statement may well lead back on such code: it has captured a suite before it
  does. The handlers need of the helpers that what they find is in the code or in the region it
  is looked for in: a plan's ends, a latch, what lies behind a loop (one lemma for each).
* **BatchDriverProofs.** The invariant says for each place of the loop body what is
  known of the input in hand (`InHand`), what the counters count (`Books`, with the
  cardinality of the good inputs), and what is true of the files of all inputs
  settled so far (`Files`), except that a duplicate of the input in hand is being
  rewritten. The five properties of the run and its types follow. Assumed:
  equal names are the same input, output to one file has one input, as the
  command line enforces.

Checked by TLC only:

* all liveness, which needs ENABLED;
* `MeansTheJumps` of ConditionMeaning as the run states it, with a recursive evaluator (the
  theorem above has every evaluator that keeps its rules instead);
* `MeansTheCode`, `EveryStatementOnce`, `AcceptsPlainTests` and `WorkIsBounded` of the region
  parser: they are about compiled programs and do not hold on any code, so a proof would
  be one about the compiler too, by induction over programs; the first two also run code by recursion
  over it;
* all of StraightLine, whose references run code by recursion over it. Its types
  too: what is on its stack has the shapes that compiled code puts there, and a copied value
  of an unpacking, which no compiled code has, would break them.

## 5. Where the code disagrees with what is said of it

1. `_ensure_reducible` (dominators.py:175) counts the entries of maximal strong
   components only. An irreducible loop inside an outer cycle, or in the
   component of the entry, is accepted, though the docstring says that irreducible
   graphs are rejected. `AcceptedCyclesHaveHeader` is what does hold.
2. `analyze_stack` (normalize311.py:686) starts the resumption of a generator only
   when RETURN_GENERATOR is the first instruction. With COPY_FREE_VARS or
   MAKE_CELL before it the body gets no depths.
3. `--verify` to standard output with an input not called `.pyc` (main.py:437)
   closes `sys.stdout`; the report of the failure raises and the batch ends.
4. Two stores of two waiting values (base.py:1464) become two assignments in a
   row: `a, b = b, a` is recovered as something else.
5. COPY (base.py:1459) duplicates the expression; unless both copies are targets
   of one chained assignment it is evaluated twice, as in `(a := f())`. The COPY
   between three targets of a chain flushes the first (base.py:1209).
   What a class stores in `__module__` or `__qualname__`, and strings stored in
   `__doc__`, are left out or moved wherever they stand (base.py:1220). A store to
   `__annotations__['a']` in a function becomes the annotation of a local name, which
   is not evaluated (base.py:744), and `f(**{**a, **b})` becomes `f(**a, **b)`, which
   raises for a key of both (base.py:550).
6. `_negate` (structures.py:173) replaces `not a < b` by `a >= b`, which differ when
   the operands are unordered.
7. `collect` (structures.py:1471) takes the test of a loop that is all there is in an
   if for the second half of the if's own condition: `if c: while d: s()` becomes
   `while c and d: s()`, which tests `c` in every round.
8. `_trailing_loop_back_jump` (structures.py:2200) takes a break that follows a jump back
   for no work: `for x in y: (if c: continue); break` is recovered without the break,
   a while loop likewise, though the docstring says that a guarded `continue` is
   never taken for the end of the body.

## 6. Not modelled, and why

The grammars, scanners, reduction checks and semantic actions of 3.7, 3.8 and PyPy
(about half of the code) are data for library code: what a rule recognises is not
a behaviour of this program that a state machine would show. try, with and match
recovery are shape tests on compiler output of several thousand lines; a reference
for them would be CPython's code generator. Opcode translation is a table. Formatting, line maps, fragments and display are output.

Regions covers module code of simple statements, if, while and for with a name as its
target. The handlers such code never reaches are left out: async for, the removal of
iterators by a return, the else suite of a for loop at the end of a function, assert, return and
assignment expressions, held returns, terminal ifs and implicit epilogues of
functions, chained comparisons, inline if expressions, statements for their
short circuit only, with, try and match. The first tests of `_parse_region` for these
are false on every program of the model. `_preserve_terminal_none_return` is the
identity in a module. The trials of handlers that restore body and stack after a
failure are those of functions and exception tables, so the corresponding hazard
has no property.

StraightLine leaves out what depends on more than the tokens of one body: global
and nonlocal declarations (collected while storing, written in front), the names
of renamed and mangled definitions (a definition is stored under its own name
here), parameters, closures, the docstring of a function, which of several returns
of None are written, and the bodies of comprehensions. Assignment expressions and
conditional values are recovered by the region parser and not by these handlers.
`decompile_body` and `decompile_expression` of base.py are overridden by the region
parser, whose loop is the one modelled. A short circuit that is still pending at the
end of a region is not looked at by the code; in the modelled bodies its target is
always reached. The model ends at the syntax tree: how the host's `ast.unparse`
writes it is not part of it. It matters for one tree, an f-string field that is a
statement by itself: POP_TOP (base.py:1530) leaves it without the JoinedStr that
`_expression_value` (base.py:1101) puts round every other, which some hosts write
as `f'{a}'` and others as the set display `{a}`; no run has it. Of the batch driver, option parsing and line maps are left out.

## 7. What could come next

1. **Regions in functions**: returns and terminal ifs, where trials fail and state is
   restored.
2. An abstract specification of decompiling one code object (blocks each emitted
   once, in an order the dominators allow), implemented by graph, analyses and
   regions.
3. Proofs: `WorkIsBounded`, from an invariant about which regions the suites of compiled
   statements are.
