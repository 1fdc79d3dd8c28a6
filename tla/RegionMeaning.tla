--------------------------- MODULE RegionMeaning ---------------------------
(***************************************************************************)
(* What a recovered program means, against the code: when the parser is    *)
(* done the two are executed side by side, each deciding its tests alike.  *)
(*                                                                         *)
(* What can be observed of a run are its statements, tests, and the steps  *)
(* of its iterators, in their order, and whether it returns or spins for   *)
(* ever.                                                                   *)
(***************************************************************************)
EXTENDS Regions

VARIABLES pc, rest           \* where the execution is: of the tokens and of `body`

allVars == <<vars, pc, rest>>

Event(what, name) == [what |-> what, name |-> name]

RECURSIVE CodeEvent(_, _)
\* The next event of the code from instruction i on, and where that is.
CodeEvent(i, seen) ==
  LET at(what) == [event |-> Event(what, tokens[i].name), at |-> i]
  IN  CASE i \in seen          -> [event |-> Event("spins", << >>), at |-> i]
        [] Op(i) = "simple"    -> at("does")
        [] Op(i) = "load"      -> at(IF Op(i + 1) = "iter" THEN "iterates" ELSE "tests")
        [] Op(i) = "for"       -> at("next")
        [] Op(i) = "store"     -> at("binds")
        [] Op(i) = "return"    -> at("returns")
        [] Op(i) = "jump"      -> CodeEvent(Target(i), seen \union {i})
        [] OTHER               -> CodeEvent(i + 1, seen \union {i})

\* What is left to do after a jump: `again` marks the end of a loop's body.
AfterLoop(tasks) == LET end == Min({k \in DOMAIN tasks : tasks[k].op = "again"})
                    IN  SubSeq(tasks, end + 1, Len(tasks))
NextRound(tasks) == LET end == Min({k \in DOMAIN tasks : tasks[k].op = "again"})
                    IN  SubSeq(tasks, end, Len(tasks))

RECURSIVE BodyEvent(_, _), TestEvent(_, _, _, _)
\* The next event of a list of tasks, and what is left after it for either outcome.
BodyEvent(tasks, seen) ==
  LET task  == Head(tasks)
      later == Tail(tasks)
      on    == seen \union {tasks}
      round == CASE task.op = "for" -> [op |-> "round", loop |-> task] [] OTHER -> task
      again == [op |-> "again", loop |-> round]
      either(event, true, false) == [event |-> event, true |-> true, false |-> false]
      does(what, name, then)     == either(Event(what, name), then, then)
  IN  IF tasks = << >> THEN does("returns", << >>, << >>)
      ELSE IF tasks \in seen THEN does("spins", << >>, << >>)
      ELSE CASE task.op = "simple"   -> does("does", task.name, later)
             [] task.op = "pass"     -> BodyEvent(later, on)
             [] task.op = "expr"     -> TestEvent(task.value, later, later, on)
             [] task.op = "test"     -> TestEvent(task.value, task.true, task.false, on)
             [] task.op = "if"       -> TestEvent(task.test, task.body \o later, task.orelse \o later, on)
             [] task.op = "for"      -> does("iterates", task.test.iter.name, <<round>> \o later)
             [] task.op = "bind"     -> does("binds", task.name, later)
             [] task.op = "round"    ->
                  either(Event("next", task.loop.test.iter.name),
                         <<[op |-> "bind", name |-> task.loop.test.target]>> \o task.loop.body
                           \o <<again>> \o later,
                         task.loop.orelse \o later)
             [] task.op = "again"    -> BodyEvent(<<task.loop>> \o later, on)
             [] task.op = "break"    -> BodyEvent(AfterLoop(later), on)
             [] task.op = "continue" -> BodyEvent(NextRound(later), on)
             [] OTHER                ->
                  TestEvent(task.test, task.body \o <<again>> \o later,
                            task.orelse \o later, on)

TestEvent(test, true, false, seen) ==
  LET then(value) == <<[op |-> "test", value |-> value, true |-> true, false |-> false]>>
      others      == Joined(test.op, Tail(test.values))
  IN  CASE test.op = "load"     -> [event |-> Event("tests", test.name), true |-> true, false |-> false]
        [] test.op = "constant" -> BodyEvent(IF test.value THEN true ELSE false, seen)
        [] test.op = "not"      -> TestEvent(test.operand, false, true, seen)
        [] test.op = "ifexp"    -> TestEvent(test.test, then(test.body), then(test.orelse), seen)
        [] test.op = "and"      -> TestEvent(Head(test.values), then(others), false, seen)
        [] OTHER                -> TestEvent(Head(test.values), true, then(others), seen)

\* The module's last tokens return None; the recovered program just ends.
CodeNow == CodeEvent(pc, {})
BodyNow == BodyEvent(rest, {})

Ended == CodeNow.event.what \in {"returns", "spins"}

\* Both do what comes next; a test comes out alike.
Execute(result) ==
  /\ outcome = "recovered" /\ ~Ended /\ CodeNow.event = BodyNow.event
  /\ LET at   == CodeNow.at
         ways == CASE CodeNow.event.what = "tests" -> Outcomes(at + 1)
                   [] CodeNow.event.what = "next"  -> [true |-> at + 1, false |-> Target(at)]
                   [] OTHER                        -> [true |-> at + 1, false |-> at + 1]
     IN  pc' = IF result THEN ways.true ELSE ways.false
  /\ rest' = IF result THEN BodyNow.true ELSE BodyNow.false
  /\ UNCHANGED vars

\* Nothing more happens at an error, at the end, or where the two differ.
Stopped == /\ \/ outcome = "error"
              \/ outcome = "recovered" /\ (Ended \/ CodeNow.event # BodyNow.event)
           /\ UNCHANGED allVars

\* A step of the parser; with the last one both executions are at their beginning.
Parses == Parse /\ pc' = pc /\ rest' = IF outcome' = "recovered" THEN body' ELSE rest

MeaningInit == Init /\ pc = 1 /\ rest = << >>

MeaningNext == Parses \/ (\E result \in BOOLEAN : Execute(result)) \/ Stopped

MeaningSpec == MeaningInit /\ [][MeaningNext]_allVars
-----------------------------------------------------------------------------
\* The recovered program does what the code does: the same statements and tests in
\* the same order, however the tests come out, to the same end.
MeansTheCode == outcome = "recovered" => CodeNow.event = BodyNow.event

RECURSIVE Simple(_)
\* The simple statements of a suite, in their order.
Simple(suite) ==
  IF suite = << >> THEN << >>
  ELSE LET s == Head(suite)
       IN  (CASE s.op = "simple"                 -> <<s.name>>
              [] s.op \in {"if", "while", "for"} -> Simple(s.body) \o Simple(s.orelse)
              [] OTHER                           -> << >>) \o Simple(Tail(suite))

\* Every statement of the code is in the recovered program once, where it was:
\* regions parsed one after the other overlap nowhere and leave nothing out.
EveryStatementOnce ==
  outcome = "recovered" =>
    Simple(body) = LET kept == SelectSeq(tokens, LAMBDA t : t.op = "simple")
                   IN  [k \in DOMAIN kept |-> kept[k].name]

RECURSIVE NamesOnly(_)
NamesOnly(suite) == \A k \in DOMAIN suite :
                      /\ suite[k].test \in {"name", "not"}
                      /\ NamesOnly(suite[k].body) /\ NamesOnly(suite[k].orelse)

\* A program whose tests are names or negated names is never refused.
AcceptsPlainTests == outcome = "error" => ~NamesOnly(source)
=============================================================================
