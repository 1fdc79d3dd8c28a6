-------------------------- MODULE StructuredSource --------------------------
(***************************************************************************)
(* Source programs of if, while, while True and for statements, and the    *)
(* instructions CPython 3.11 compiles a module of them into.  CPython is   *)
(* not part of this repository: the compiler is here to give the region    *)
(* parser programs it really meets, with the trampolines, line numbers and *)
(* left out jumps that decide how it goes about them.                      *)
(*                                                                         *)
(* A statement is [op, test, body, orelse]; a suite is a sequence of them. *)
(* op is "simple", "break", "continue", "if", "while", "true" (while True) *)
(* or "for" (a name in a name).  test is "name", "not", "and" or "or": a   *)
(* name, its negation or two names joined.  A name, like a simple          *)
(* statement, is identified by where it stands, <<line, column>>.          *)
(*                                                                         *)
(* An instruction is [op, name, target, starts, first, last, column]:      *)
(*   op       "resume", "nop", "load" (of a name), "if false" and          *)
(*            "if true" (conditional jumps), "jump" (either direction),    *)
(*            "simple" (the instructions of one expression statement),     *)
(*            "return" (LOAD_CONST None; RETURN_VALUE), "iter" (GET_ITER), *)
(*            "for" (FOR_ITER), "store" (of a name) or "pop" (POP_TOP)     *)
(*   target   the instruction a jump goes to                               *)
(*   starts   linestart: the line that starts here, 0 when none does       *)
(*   first .. column   co_positions(): first line (0 when there is none),  *)
(*            last line and column                                         *)
(* The line of RESUME is 1 here (CPython counts it 0), the source is below.*)
(***************************************************************************)
EXTENDS Integers, SequencesExt, FiniteSetsExt

Conditional(i) == i.op \in {"if false", "if true"}
Jumping(i)     == Conditional(i) \/ i.op \in {"jump", "for"}
FallsOut(i)    == i.op \notin {"jump", "return"}

\* `step` taken for the numbers 1 .. n in turn.
InTurn(step(_, _), value, n) ==
  LET after[k \in 0 .. n] == IF k = 0 THEN value ELSE step(after[k - 1], k)
  IN  after[n]
-----------------------------------------------------------------------------
(* The code generator.  It emits instructions whose targets are labels and *)
(* marks where a label stands by an instruction of its own.                *)

RECURSIVE Lines(_)
\* The lines a suite is written on; an else has a line of its own.
Lines(suite) ==
  LET lines(s) == 1 + Lines(s.body) + (IF s.orelse = << >> THEN 0 ELSE 1 + Lines(s.orelse))
  IN  IF suite = << >> THEN 0 ELSE lines(Head(suite)) + Lines(Tail(suite))

Label(name) == [op |-> "label", name |-> name]

\* compiler_jump_if: jump to `target` if the test comes out as `sense`.  `at` has
\* the lines and the column of the statement, `column` is where the test begins.
JumpIf(test, at, column, target, sense) ==
  LET load(c)      == [op |-> "load", name |-> <<at.first, c>>, target |-> << >>,
                       first |-> at.first, last |-> at.first, column |-> c]
      jump(when, to) == [op |-> IF when THEN "if true" ELSE "if false", name |-> << >>,
                         target |-> to, first |-> at.first, last |-> at.last,
                         column |-> at.column]
      past == <<"past", at.first, target>>
  IN  CASE test = "name" -> <<load(column), jump(sense, target)>>
        [] test = "not"  -> <<load(column + 4), jump(~sense, target)>>
        [] OTHER         ->
             LET either == test = "or"
             IN  <<load(column), jump(either, IF either = sense THEN target ELSE past),
                   load(column + (IF either THEN 6 ELSE 7)), jump(sense, target), Label(past)>>

RECURSIVE Emit(_, _, _, _)
\* The suite that starts at the given line and column; `loop` has the labels that
\* break and continue go to, and what a break does first: it drops the iterator.
Emit(suite, line, column, loop) ==
  IF suite = << >> THEN << >> ELSE
  LET s     == Head(suite)
      after == line + Lines(<<s>>)
      else  == line + 1 + Lines(s.body) + 1
      at    == [first |-> line, last |-> after - 1, column |-> column]
      end   == <<"end", line>>
      next  == <<"next", line>>
      top   == <<"top", line>>
      inner == <<"inner", line>>
      one(op, target, lines) ==
        [op |-> op, name |-> IF op = "simple" THEN <<line, column>> ELSE << >>, target |-> target,
         first |-> lines, last |-> lines, column |-> column]
      named(op, c) == [one(op, << >>, line) EXCEPT !.name = <<line, column + c>>]
      own   == [break |-> end, continue |-> top, first |-> << >>]
      each  == [own EXCEPT !.first = <<"pop">>]
      code  ==
        CASE s.op = "simple"   -> <<one("simple", << >>, line)>>
          [] s.op = "break"    -> [k \in DOMAIN loop.first |-> one(loop.first[k], << >>, line)]
                                  \o <<one("jump", loop.break, line)>>
          [] s.op = "continue" -> <<one("jump", loop.continue, line)>>
          [] s.op = "if" ->
               JumpIf(s.test, at, column + 3, IF s.orelse = << >> THEN end ELSE next, FALSE)
               \o Emit(s.body, line + 1, column + 4, loop)
               \o (IF s.orelse = << >> THEN << >>
                   ELSE <<one("jump", end, 0), Label(next)>>
                        \o Emit(s.orelse, else, column + 4, loop))
               \o <<Label(end)>>
          [] s.op = "while" ->
               <<Label(top)>> \o JumpIf(s.test, at, column + 6, next, FALSE)
               \o <<Label(inner)>> \o Emit(s.body, line + 1, column + 4, own)
               \o JumpIf(s.test, at, column + 6, inner, TRUE) \o <<Label(next)>>
               \o Emit(s.orelse, else, column + 4, loop) \o <<Label(end)>>
          [] s.op = "for" ->
               <<named("load", 10), one("iter", << >>, line), Label(top),
                 [named("for", 10) EXCEPT !.target = next], named("store", 4)>>
               \o Emit(s.body, line + 1, column + 4, each)
               \o <<one("jump", top, 0), Label(next)>>
               \o Emit(s.orelse, else, column + 4, loop) \o <<Label(end)>>
          [] OTHER ->
               <<Label(top), one("nop", << >>, line), Label(inner)>>
               \o Emit(s.body, line + 1, column + 4, own)
               \o <<one("jump", inner, line), Label(end)>>
  IN  code \o Emit(Tail(suite), after, column, loop)

\* A module: it ends with a simple statement, whose line is its last.
Module(suite) ==
  LET instruction(op, lines) == [op |-> op, name |-> << >>, target |-> << >>,
                                 first |-> lines, last |-> lines, column |-> 0]
      final == [op |-> "simple", test |-> "name", body |-> << >>, orelse |-> << >>]
      numbered(code) ==
        LET at(label) == 1 + Cardinality({k \in 1 .. (CHOOSE k \in DOMAIN code :
                                                       code[k].op = "label" /\ code[k].name = label) :
                                           code[k].op # "label"})
            placed(kept, k) ==
              IF code[k].op = "label" THEN kept
              ELSE Append(kept, [code[k] EXCEPT !.target = IF Jumping(code[k]) THEN at(@) ELSE 0])
        IN  InTurn(placed, << >>, Len(code))
  IN  numbered(<<instruction("resume", 1)>>
               \o Emit(Append(suite, final), 2, 0, [break |-> << >>, continue |-> << >>, first |-> << >>])
               \o <<instruction("return", 0)>>)
-----------------------------------------------------------------------------
(* The optimizer.  A unit is [code, live]: `live` are the instructions that *)
(* are still there.                                                        *)

NextLive(live, i)  == Min({k \in live : k >= i} \union {Max(live) + 1})
PriorLive(live, i) == {k \in live : k < i /\ \A m \in live : m < i => m <= k}

RECURSIVE Threaded(_, _)
\* A jump to a jump of the same line goes where that one goes.
Threaded(code, i) ==
  LET to == code[code[i].target]
  IN  IF Jumping(code[i]) /\ to.op = "jump" /\ to.first = code[i].first
           /\ to.target # code[i].target
      THEN Threaded([code EXCEPT ![i].target = to.target], i)
      ELSE code

RECURSIVE Reached(_, _)
Reached(code, S) ==
  LET next == S \union {code[i].target : i \in {k \in S : Jumping(code[k])}}
                \union {i + 1 : i \in {k \in S : FallsOut(code[k])}}
  IN  IF next = S THEN S ELSE Reached(code, next)

AllThreaded(code) == InTurn(Threaded, code, Len(code))

OnlyReached(code) == [code |-> code, live |-> Reached(code, {1})]

\* A nop stays only where its line would otherwise not be seen.
WithoutNops(unit) ==
  LET line(k) == unit.code[k].first
      idle(still, i) ==
        \/ line(i) = 0
        \/ \E p \in PriorLive(still, i) : FallsOut(unit.code[p]) /\ line(p) = line(i)
        \/ \E k \in still : k = NextLive(still, i + 1) /\ line(k) = line(i)
  IN  [unit EXCEPT !.live =
         InTurn(LAMBDA still, i : IF unit.code[i].op = "nop" /\ i \in still /\ idle(still, i)
                                  THEN still \ {i} ELSE still,
                @, Len(unit.code))]

\* A jump to what follows it is no jump.
WithoutJumps(unit) ==
  LET idle(i) == /\ i \in unit.live /\ unit.code[i].op = "jump"
                 /\ NextLive(unit.live, unit.code[i].target) = NextLive(unit.live, i + 1)
  IN  [unit EXCEPT !.code =
         InTurn(LAMBDA c, i : IF idle(i) THEN [c EXCEPT ![i].op = "nop", ![i].target = 0] ELSE c,
                @, Len(@))]

\* An instruction without a line takes that of its only predecessor.
Propagated(unit) ==
  LET into(c, i) == {k \in unit.live : Jumping(c[k]) /\ NextLive(unit.live, c[k].target) = i}
                      \union {k \in PriorLive(unit.live, i) : FallsOut(c[k])}
      lined(c, i) ==
        IF i \in unit.live /\ c[i].first = 0 /\ Cardinality(into(c, i)) = 1
        THEN LET line == c[CHOOSE k \in into(c, i) : TRUE].first
             IN  [c EXCEPT ![i].first = line, ![i].last = line]
        ELSE c
  IN  [unit EXCEPT !.code = InTurn(lined, @, Len(@))]

\* What is left, numbered from 1.
Assembled(unit) ==
  LET place(i) == Cardinality({k \in unit.live : k <= i})
      line(i)  == LET lined == {k \in unit.live : k < i /\ unit.code[k].first # 0}
                  IN  IF lined = {} THEN 0 ELSE unit.code[Max(lined)].first
      final(i, c) == [op     |-> c.op,
                      name   |-> c.name,
                      target |-> IF Jumping(c) THEN place(NextLive(unit.live, c.target)) ELSE 0,
                      starts |-> IF c.first = line(i) \/ Conditional(c) THEN 0 ELSE c.first,
                      first  |-> c.first,
                      last   |-> c.last,
                      column |-> c.column]
  IN  InTurn(LAMBDA left, i : IF i \in unit.live THEN Append(left, final(i, unit.code[i])) ELSE left,
             << >>, Len(unit.code))

Compile(suite) ==
  LET short == WithoutNops(WithoutJumps(WithoutNops(OnlyReached(AllThreaded(Module(suite))))))
  IN  Assembled(WithoutNops(Propagated(short)))
=============================================================================
