------------------------------ MODULE Regions ------------------------------
(***************************************************************************)
(* The region parser of controlflow/structures.py on module code of simple *)
(* statements, if, while, while True and for: _capture_region and          *)
(* _parse_region call each other through the handlers of the statements,   *)
(* every call parses one interval of tokens into a suite.  Here a call is  *)
(* a frame; a compound statement that waits for its suites is the frame's  *)
(* `todo`.                                                                 *)
(***************************************************************************)
EXTENDS RegionConditions

CONSTANTS Programs,          \* the suites a behaviour may start with
          Compiled(_)        \* the tokens of a suite

\* The tokens of a code object: jumps go to instructions.
IsCode(code) ==
  /\ Len(code) \in Nat /\ DOMAIN code = 1 .. Len(code)
  /\ \A i \in DOMAIN code : code[i].op \in Jumps => code[i].target \in DOMAIN code

ASSUME CodeAssumption == \A suite \in Programs : IsCode(Compiled(suite))

VARIABLES source,            \* the suite the tokens were compiled from
          frames,            \* the active calls of _parse_region, innermost last
          active,            \* _active_regions
          work,              \* _region_work_count
          suppressed,        \* _suppressed_loop_starts
          outcome,           \* "running", "recovered" or "error"
          body               \* the recovered suite

vars == <<source, tokens, cfg, frames, active, work, suppressed, outcome, body>>

NoLoop == [break |-> None, continue |-> {}]

Region(start, end, loop) == [start |-> start, end |-> end, loop |-> loop]

Frame(region) == [region |-> region, index |-> region.start, body |-> << >>,
                  stack |-> << >>, todo |-> << >>]

\* _region_work_limit.
WorkLimit == Max({1024, 64 * Len(tokens)})

Init == /\ source \in Programs
        /\ tokens = Compiled(source)
        /\ cfg = GraphOf(tokens)
        /\ frames = <<Frame(Region(1, Past, NoLoop))>>
        /\ active = {Region(1, Past, NoLoop)}
        /\ work = 1
        /\ suppressed = {}
        /\ outcome = "running"
        /\ body = << >>

Top   == Last(frames)
Index == Top.index
End   == Top.region.end
Loop  == Top.region.loop

Unchanged == UNCHANGED <<source, tokens, cfg, body>>

Becomes(frame) == frames' = Append(Front(frames), frame)

\* The loop of _parse_region: another token of the innermost region.
AtToken == outcome = "running" /\ Top.todo = << >> /\ Index < End

\* A handler that captures no region.
Goes(index, statements) ==
  /\ Becomes([Top EXCEPT !.index = index, !.body = @ \o statements])
  /\ UNCHANGED <<active, work, suppressed, outcome>> /\ Unchanged

\* A handler that captures regions before it adds its statement and goes to `next`.
\* `tail` is when a break is added to the first suite.
Awaits(op, test, regions, next, tail, starts) ==
  [op |-> op, test |-> test, regions |-> regions, next |-> next, tail |-> tail,
   starts |-> starts, bodies |-> << >>]
-----------------------------------------------------------------------------
(* _while_true_loop.                                                       *)

\* The tokens a loop that starts here may jump back to.
HeaderOffsets(start, end) ==
  LET cursor == NextSemanticIndex(start, end)
  IN  (start .. cursor - 1) \union {i \in {cursor} : cursor < end}

Marked(start, end) == \E i \in start .. NextSemanticIndex(start, end) - 1 : Op(i) = "nop"

Latches(start, end, headers) ==
  {i \in start + 1 .. end - 1 : Op(i) = "jump" /\ ~Forward(i) /\ Target(i) \in headers}

\* The jump back at the end of the body, which ends where the furthest jump over the
\* last one goes.
LoopLatch(start, end, latches) ==
  LET follows == {Target(i) : i \in {i \in start .. Max(latches) - 1 :
                                       Forward(i) /\ Target(i) > Max(latches)}}
  IN  TrailingLoopBackJump(latches, start, IF follows = {} THEN end ELSE Max(follows))

\* A nop after the last jump back that stands for a break at the end of the body.
BreakMarkers(start, last, end) ==
  {i \in last + 1 .. end - 1 :
     /\ Op(i) = "nop" /\ Starts(i) # 0 /\ NextSemanticIndex(i + 1, end) < end
     /\ cfg.block[i] \in NormalRegionBlocks(start, end)}

\* Every way out of the interval is a return.
ReturnsOnly(blocks) ==
  LET sinks == {b \in blocks : Outgoing(b) = {}}
  IN  /\ sinks # {} /\ \A b \in sinks : Op(cfg.end[b] - 1) = "return"
      /\ UNION {Outgoing(b) : b \in blocks} \subseteq blocks

\* The loop whose body ends before bodyEnd and that goes on at `next`, if no break
\* tells; no loop where neither does.
LoopTo(start, bodyEnd, headers, latch, breaks, next, tail) ==
  {Awaits("while", Constant(TRUE),
          <<Region(start, bodyEnd, [break |-> e, continue |-> headers \union ({latch} \ {None})])>>,
          e, tail, headers \ suppressed) :
     e \in IF breaks = {} THEN next ELSE {Max(breaks)}}

ForwardPast(start, bodyEnd) == ForwardTargets(start, bodyEnd, bodyEnd + 1)

LoopOf(start, end, headers, latch, markers) ==
  IF latch # None
  THEN LoopTo(start, latch, headers, latch, ForwardPast(start, latch),
              IF latch + 1 = end THEN {end} ELSE {}, "never")
  ELSE IF markers # {}
  THEN LoopTo(start, Min(markers), headers, None, ForwardPast(start, Min(markers)),
              {NextSemanticIndex(Min(markers) + 1, end)}, "always")
  ELSE IF ReturnsOnly(NormalRegionBlocks(start, end))
  THEN LoopTo(start, end, headers, None, {}, {end}, "never")
  ELSE {}

LoopWith(start, end, headers, latches) ==
  IF latches = {} THEN {}
  ELSE LoopOf(start, end, headers, LoopLatch(start, end, latches),
              BreakMarkers(start, Max(latches), end))

WhileTrueLoop(start, end) ==
  LET from(headers) == LoopWith(start, end, headers, Latches(start, end, headers))
  IN  IF start \in suppressed \/ ~Inert(start) \/ ~Marked(start, end) THEN {}
      ELSE from(HeaderOffsets(start, end))

ParseWhileTrue ==
  /\ AtToken
  /\ \E loop \in WhileTrueLoop(Index, End) :
       /\ Becomes([Top EXCEPT !.todo = <<loop>>])
       /\ suppressed' = suppressed \union loop.starts
  /\ UNCHANGED <<active, work, outcome>> /\ Unchanged

\* What _parse_region tries after _while_true_loop.
NoWhileTrue == AtToken /\ WhileTrueLoop(Index, End) = {}

SkipResume == NoWhileTrue /\ Op(Index) = "resume" /\ Goes(Index + 1, << >>)
-----------------------------------------------------------------------------
(* _for_loop.                                                              *)

AtIterator == /\ NoWhileTrue /\ Op(Index) = "iter"
              /\ LET next == NextSemanticIndex(Index + 1, End)
                 IN  next < End /\ Op(next) = "for"

\* _semantic_target_offset.
SemanticTarget(i) == LET to == NextSemanticIndex(Target(i), Past)
                     IN  IF to = Past THEN Target(i) ELSE to

\* The removal of the iterator that ends an interval, by a break whose jump went only
\* to what follows.
BreakCleanup(start, end) ==
  LET last == Max({None} \union {i \in start .. end - 1 : ~Inert(i)})
  IN  IF last # None /\ Op(last) = "pop" /\ Starts(last) # 0 THEN last ELSE None

\* A loop that binds nothing, or whose body neither jumps back nor out, nor returns, is
\* an error.
ForEnds(store, orelse, latch, cleanup, breaks) ==
  /\ store < Past /\ Op(store) = "store"
  /\ \/ latch # None \/ cleanup # None \/ breaks # {}
     \/ \E i \in store + 1 .. orelse - 1 : Op(i) = "return"

\* The loop whose target is bound at `store` and whose body ends with the jump back at
\* `latch`, or by removing the iterator.
ForLoopTo(index, header, iterable, store, latch) ==
  LET orelse  == Target(header)
      cleanup == IF latch = None THEN BreakCleanup(store + 1, orelse) ELSE None
      bodyEnd == IF latch = None /\ cleanup = None THEN orelse ELSE Max({latch, cleanup})
      breaks  == ForwardTargets(store + 1, bodyEnd, orelse)
      end     == Max({orelse} \union breaks)
      within  == Region(store + 1, bodyEnd,
                        [break |-> end, continue |-> {header, index + 1} \union ({latch} \ {None})])
  IN  IF ForEnds(store, orelse, latch, cleanup, breaks)
      THEN {Awaits("for", [target |-> tokens[store].name, iter |-> iterable],
                   IF end > orelse THEN <<within, Region(orelse, end, Loop)>> ELSE <<within>>,
                   end, IF cleanup = None THEN "never" ELSE "always", {})}
      ELSE {}

\* The loop of the FOR_ITER at `header`, whose GET_ITER is at `index`.
ForLoop(index, header, iterable) ==
  LET store   == NextSemanticIndex(header + 1, Past)
      latches == {i \in store + 1 .. Target(header) - 1 :
                    Op(i) = "jump" /\ ~Forward(i) /\ SemanticTarget(i) = header}
  IN  ForLoopTo(index, header, iterable, store,
                TrailingLoopBackJump(latches, store + 1, Target(header)))

ForLoops == IF AtIterator /\ Top.stack # << >>
            THEN ForLoop(Index, NextSemanticIndex(Index + 1, End), Last(Top.stack)) ELSE {}

ParseFor ==
  /\ AtIterator
  /\ \E loop \in ForLoops : Becomes([Top EXCEPT !.todo = <<loop>>, !.stack = Front(@)])
  /\ UNCHANGED <<active, work, suppressed, outcome>> /\ Unchanged

\* Tokens before which _parse_region tries conditions.
NoLoopStarts == NoWhileTrue /\ Op(Index) # "resume" /\ ~AtIterator
-----------------------------------------------------------------------------
(* _try_degenerate_condition.                                              *)

\* Defect: the parser goes on at the test it has read.
DegenerateAgain ==
  LET jump      == ConditionJump(Index, End, {})
      successor == NextSemanticIndex(jump + 1, End)
  IN  IF jump # None /\ successor < End /\ NextSemanticIndex(Target(jump), Past) = successor
      THEN {[next |-> Index, test |-> Negate(p)] : p \in Predicates(Index, jump)}
      ELSE {}

Degenerate ==
  LET jump      == ConditionJump(Index, End, {})
      successor == NextSemanticIndex(jump + 1, End)
  IN  IF jump # None /\ successor < End /\ NextSemanticIndex(Target(jump), Past) = successor
      THEN {[next |-> successor, test |-> Negate(p)] : p \in Predicates(Index, jump)}
      ELSE {}

NotDegenerate == NoLoopStarts /\ Degenerate = {}

ParseDegenerate ==
  /\ NoLoopStarts
  /\ \E d \in Degenerate : Goes(d.next, <<[op |-> "expr", value |-> d.test]>>)
-----------------------------------------------------------------------------
(* _while_loop and _if_statement, for the conditions of                    *)
(* _bounded_condition_plan.                                                *)

HasExpressionPrefix ==
  LET jump == ConditionJump(Index, End, {})
  IN  jump # None /\ LatchExpressionStart(Index, jump) > Index

\* Both outcomes have a place among the tokens (offset_to_index).
Conditions ==
  IF HasExpressionPrefix THEN {}
  ELSE {plan \in BoundedConditionPlan(Index, End, Loop.continue, Top.stack) :
          {plan.true, plan.false} \subseteq 1 .. Past}

BackJumps(plan) == {i \in plan.true .. Min({plan.false, End}) - 1 :
                      Backward(i) /\ Target(i) \in {plan.entry, plan.true}}

Await(plan, todo) ==
  /\ Becomes([Top EXCEPT !.todo = <<todo>>, !.stack = IF plan.pops THEN Front(@) ELSE @])
  /\ UNCHANGED <<active, work, suppressed, outcome>> /\ Unchanged

\* The loop with the given jump back: its body ends before it, and what lies between
\* the false outcome and the furthest break is the else suite.
LoopBody(plan, latch) ==
  IF latch = None THEN plan.false
  ELSE IF IsTest(latch) THEN LatchExpressionStart(plan.true, latch)
  ELSE latch

Breaks(plan, bodyEnd) == ForwardTargets(plan.true, bodyEnd, plan.false)

AwaitLoop(plan, bodyEnd, loopEnd, tail) ==
  LET within == Region(plan.true, bodyEnd,
                       [break |-> loopEnd, continue |-> {plan.entry, plan.true, bodyEnd}])
      orelse == Region(plan.false, loopEnd, Loop)
  IN  Awaits("while", plan.expression,
             IF loopEnd > plan.false THEN <<within, orelse>> ELSE <<within>>, loopEnd, tail, {})

LoopTail(plan, latch) ==
  IF latch = None /\ NormalFallthroughReaches(plan.true, plan.false, plan.false)
  THEN "unless it jumps" ELSE "never"

WhileLoop(plan) ==
  LET ended(latch, bodyEnd) == AwaitLoop(plan, bodyEnd, Max({plan.false} \union Breaks(plan, bodyEnd)),
                                         LoopTail(plan, latch))
      latched(latch) == ended(latch, LoopBody(plan, latch))
  IN  latched(TrailingLoopBackJump(BackJumps(plan), plan.true, plan.false))

\* Defect: a break out of the loop is taken for the jump over the else suite.
AnyJumpOver(plan) == LastForwardJump(plan.true, plan.false, plan.false + 1, None)

\* A jump over the false side, other than a break, makes that side an else suite.
JumpOver(plan) == LastForwardJump(plan.true, plan.false, plan.false + 1, Loop.break)

\* Defect: the parser goes on with the else suite, which it has parsed.
AfterThen(plan, jump) == plan.false

AfterSuites(plan, jump) == IF jump = None THEN plan.false ELSE Target(jump)

IfStatement(plan) ==
  LET if(test, regions, next) == Awaits("if", test, regions, next, "never", {})
      suites(jump) ==
        IF jump = None THEN <<Region(plan.true, plan.false, Loop)>>
        ELSE <<Region(plan.true, jump, Loop), Region(plan.false, Target(jump), Loop)>>
      over(jump) == if(plan.expression, suites(jump), AfterSuites(plan, jump))
  IN  IF plan.true > plan.false
      THEN if(Negate(plan.expression), <<Region(plan.false, plan.true, Loop)>>, plan.true)
      ELSE over(JumpOver(plan))

ParseWhile == /\ NotDegenerate
              /\ \E plan \in Conditions : BackJumps(plan) # {} /\ Await(plan, WhileLoop(plan))

ParseIf == /\ NotDegenerate
           /\ \E plan \in Conditions : BackJumps(plan) = {} /\ Await(plan, IfStatement(plan))
-----------------------------------------------------------------------------
(* _jump_control and _dispatch.                                            *)

Control ==
  IF Loop = NoLoop THEN << >>
  ELSE IF Forward(Index) /\ Target(Index) >= Loop.break THEN <<[op |-> "break"]>>
  ELSE IF ~Forward(Index) /\ Target(Index) \in Loop.continue THEN <<[op |-> "continue"]>>
  ELSE << >>

ParseJump == NotDegenerate /\ Op(Index) = "jump" /\ Goes(End, Control)

Plain == NotDegenerate /\ Op(Index) # "jump" /\ Conditions = {}

DispatchSimple == /\ Plain /\ Op(Index) = "simple"
                  /\ Goes(Index + 1, <<[op |-> "simple", name |-> tokens[Index].name]>>)

DispatchIdle == Plain /\ Op(Index) \in {"nop", "return"} /\ Goes(Index + 1, << >>)

\* The POP_TOP of a break drops the iterator of a for loop, which the source does not
\* mention: the jump of the break is next, or the region ends here and goes out of the
\* loop.
Drops ==
  LET next == NextSemanticIndex(Index + 1, End)
  IN  /\ Loop # NoLoop /\ Top.stack = << >>
      /\ \/ next < End /\ Forward(next) /\ Target(next) >= Loop.break
         \/ next = End /\ End # Past
            /\ (End = Loop.break \/ (Forward(End) /\ Target(End) = Loop.break))

SkipDrop == Plain /\ Op(Index) = "pop" /\ Drops /\ Goes(Index + 1, << >>)

DispatchLoad == /\ Plain /\ Op(Index) = "load"
                /\ Becomes([Top EXCEPT !.index = @ + 1,
                                       !.stack = Append(@, Load(tokens[Index].name))])
                /\ UNCHANGED <<active, work, suppressed, outcome>> /\ Unchanged
-----------------------------------------------------------------------------
(* _capture_region.                                                        *)

Waiting == outcome = "running" /\ Top.todo # << >>
Todo    == Head(Top.todo)
Missing == SubSeq(Todo.regions, Len(Todo.bodies) + 1, Len(Todo.regions))

Capture == /\ Waiting /\ Missing # << >>
           /\ Head(Missing) \notin active /\ work < WorkLimit
           /\ frames' = Append(frames, Frame(Head(Missing)))
           /\ active' = active \union {Head(Missing)}
           /\ work' = work + 1
           /\ UNCHANGED <<suppressed, outcome>> /\ Unchanged

Parsed == outcome = "running" /\ Top.todo = << >> /\ Index >= End /\ Top.stack = << >>

\* Defect: a region stays active once it has been parsed.
StillActive == active

Inactive == active \ {Top.region}

\* The call returns its suite to the handler that waits for it.
Return == /\ Parsed /\ Len(frames) > 1
          /\ LET caller == frames[Len(frames) - 1]
             IN  frames' = Append(SubSeq(frames, 1, Len(frames) - 2),
                                  [caller EXCEPT !.todo[1].bodies = Append(@, Top.body)])
          /\ active' = Inactive
          /\ UNCHANGED <<work, suppressed, outcome>> /\ Unchanged

\* The first suite with the break its handler adds to it, never empty.
FirstSuite ==
  LET first == Head(Todo.bodies)
      jumps == first # << >> /\ Last(first).op \in {"break", "continue"}
      whole == IF Todo.tail = "always" \/ (Todo.tail = "unless it jumps" /\ ~jumps)
               THEN Append(first, [op |-> "break"]) ELSE first
  IN  IF whole = << >> THEN <<[op |-> "pass"]>> ELSE whole

\* Defect: the loop starts stay suppressed once the loop has been parsed.
StillSuppressed == suppressed

Released == suppressed \ Todo.starts

\* The handler has its suites: it adds the statement and returns.
Complete == /\ Waiting /\ Missing = << >>
            /\ LET statement == [op |-> Todo.op, test |-> Todo.test, body |-> FirstSuite,
                                 orelse |-> IF Len(Todo.bodies) = 2 THEN Todo.bodies[2] ELSE << >>]
               IN  Becomes([Top EXCEPT !.body = Append(@, statement), !.index = Todo.next,
                                       !.todo = << >>])
            /\ suppressed' = Released
            /\ UNCHANGED <<active, work, outcome>> /\ Unchanged

\* A token that only another statement could have taken.
Stray == IsTest(Index) \/ Op(Index) \in {"iter", "for", "store"} \/ (Op(Index) = "pop" /\ ~Drops)

\* The region is one that is being parsed already, or one too many; values are
\* left on the stack; a for loop has no end; a token belongs to no statement.
Fails == \/ Waiting /\ Missing # << >> /\ (Head(Missing) \in active \/ work >= WorkLimit)
         \/ outcome = "running" /\ Top.todo = << >> /\ Index >= End /\ Top.stack # << >>
         \/ AtIterator /\ ForLoops = {}
         \/ Plain /\ Stray

Fail == /\ Fails
        /\ outcome' = "error"
        /\ UNCHANGED <<frames, active, work, suppressed>> /\ Unchanged

Recover == /\ Parsed /\ Len(frames) = 1
           /\ outcome' = "recovered"
           /\ body' = Top.body
           /\ active' = {}
           /\ UNCHANGED <<source, tokens, cfg, frames, work, suppressed>>

Parse == \/ ParseWhileTrue \/ SkipResume \/ ParseFor \/ ParseDegenerate \/ ParseWhile \/ ParseIf
         \/ ParseJump \/ DispatchSimple \/ DispatchIdle \/ DispatchLoad \/ SkipDrop
         \/ Capture \/ Return \/ Complete \/ Fail \/ Recover

Next == Parse

Spec == Init /\ [][Next]_vars
-----------------------------------------------------------------------------
\* Types: the active regions are those of the calls, no two of them are the same, and
\* each call parses the suite that the one below it waits for next; a call never leaves
\* the code.
TypeOK ==
  /\ outcome \in {"running", "recovered", "error"}
  /\ work \in 1 .. WorkLimit
  /\ active = IF outcome = "recovered" THEN {} ELSE {frames[k].region : k \in DOMAIN frames}
  /\ Cardinality(active) = IF outcome = "recovered" THEN 0 ELSE Len(frames)
  /\ \A k \in DOMAIN frames :
       {frames[k].index, frames[k].region.start, frames[k].region.end} \subseteq 1 .. Past
  /\ \A k \in 1 .. Len(frames) - 1 :
       LET todo == frames[k].todo[1]
       IN  frames[k].todo # << >> /\ frames[k + 1].region = todo.regions[Len(todo.bodies) + 1]

\* A break leaves the innermost loop to where the statement of that loop ends: the
\* call of a loop's body has this for its break, a call of any other suite (the else
\* of a loop as well) the loop of the call below.
BreaksLeaveTheLoop ==
  \A k \in 1 .. Len(frames) - 1 :
    LET todo == frames[k].todo[1]
        loop == frames[k + 1].region.loop
    IN  IF todo.op # "if" /\ todo.bodies = << >> THEN loop.break = todo.next
                                                ELSE loop = frames[k].region.loop

\* The loop starts that are suppressed are those of the while True loops whose bodies
\* are being parsed, each for one of them: none is forgotten, and none released while
\* the loop it belongs to is still open.
SuppressedWhileParsed ==
  LET starts(k) == UNION {todo.starts : todo \in ToSet(frames[k].todo)}
  IN  /\ suppressed = UNION {starts(k) : k \in DOMAIN frames}
      /\ \A j, k \in DOMAIN frames : j # k => starts(j) \intersect starts(k) = {}

\* Wherever the parser is, what it keeps about loops is about the loops open there.
KnowsOpenLoops == BreaksLeaveTheLoop /\ SuppressedWhileParsed

\* What is left to do, most significant first: the regions the work limit allows, the
\* calls to return from, the statement to complete, the tokens of the region.
LeftToDo ==
  <<WorkLimit - work, Len(frames),
    IF Top.todo = << >> THEN 1 ELSE IF Missing = << >> THEN 2 ELSE 0,
    IF Index < End THEN End - Index ELSE 0>>

\* Whatever the code, the parser comes to an end: a step leaves less to do.
ParsingDescends ==
  [][outcome' = "running" =>
       \E k \in DOMAIN LeftToDo : /\ LeftToDo'[k] < LeftToDo[k]
                                  /\ \A j \in 1 .. k - 1 : LeftToDo'[j] = LeftToDo[j]]_vars

\* The regions captured are those of the statements: two for a conditional jump or a
\* FOR_ITER, one for a nop.  No interval is parsed again and again, and the work limit, which trials
\* in one code object share, refuses no program.
WorkIsBounded ==
  work <= 1 + 2 * Cardinality({i \in DOMAIN tokens : IsTest(i) \/ Op(i) = "for"})
            + Cardinality({i \in DOMAIN tokens : Op(i) = "nop"})
=============================================================================
