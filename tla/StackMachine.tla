---------------------------- MODULE StackMachine ----------------------------
(***************************************************************************)
(* The machine the straight-line code runs on, CPython 3.11, and the code  *)
(* its compiler makes of the statements the straight-line parser writes.   *)
(*                                                                         *)
(* A token is [op, name, n, path]: n a count or a depth, path names where  *)
(* an instruction has several.  PRECALL, CALL and KW_NAMES are one token,  *)
(* a jump skips n tokens.  A value is a sequence of strings.  Whatever may *)
(* run user code is an event: what it is, with which operands and with     *)
(* which names bound; its result is named by the event.                    *)
(***************************************************************************)
EXTENDS Naturals, SequencesExt, TLC

Token(op)        == [op |-> op, name |-> "", n |-> 0, path |-> <<>>]
Named(op, name)  == [Token(op) EXCEPT !.name = name]
Counted(op, n)   == [Token(op) EXCEPT !.n = n]
Listed(op, path) == [Token(op) EXCEPT !.path = path]

Load(name)       == Named("load", name)
Store(name)      == Named("store", name)
Attribute(name)  == Named("attr", name)
Constant(kind, path) == [Named("const", kind) EXCEPT !.path = path]
None             == Constant("None", <<>>)
Text(string)     == Constant("str", <<string>>)
Null             == Token("null")
Copy(n)          == Counted("copy", n)
Swap(n)          == Counted("swap", n)
Pop              == Token("pop")
Call(n)          == Counted("call", n)
Build(kind, n)   == [Named("build", kind) EXCEPT !.n = n]
Spread(how)      == [Named("spread", how) EXCEPT !.n = 1]
JumpIf(when, n)  == [Named("jumpif", when) EXCEPT !.n = n]
Return           == Token("return")
-----------------------------------------------------------------------------
Drop(s, n)    == SubSeq(s, 1, Len(s) - n)
FromTop(s, n) == s[Len(s) + 1 - n]
TopMost(s, n) == SubSeq(s, Len(s) + 1 - n, Len(s))

Fresh == [env |-> [name \in {} |-> <<>>], stack |-> <<>>, trace |-> <<>>,
          skip |-> 0, halted |-> FALSE]

Push(w, value)    == [w EXCEPT !.stack = Append(@, value)]
Event(w, does, with) ==
  [w EXCEPT !.trace = Append(@, [does |-> does, with |-> with, seeing |-> w.env])]

\* An event that takes n operands off the stack, and one that leaves its result.
Effect(w, does, n) == [Event(w, does, FlattenSeq(TopMost(w.stack, n)))
                        EXCEPT !.stack = Drop(@, n)]
Does(w, does, n)   == Push(Effect(w, does, n), <<does.op, ToString(Len(w.trace))>>)

Lookup(w, name) == IF name \in DOMAIN w.env THEN w.env[name] ELSE <<name>>

\* The operands of what leaves a result, and of what leaves none.
Operands(t) ==
  CASE t.op \in {"attr", "unary", "iter", "totuple"}           -> 1
    [] t.op \in {"binary", "inplace", "subscr", "extend", "append"} -> 2
    [] t.op \in {"build", "format"}                             -> t.n
    [] t.op = "function"                                        -> Len(t.path) + 1
    [] t.op = "call"                                            -> t.n + 2
    [] t.op = "callex"                                          -> t.n + 3
Consumed(t) ==
  CASE t.op \in {"delattr", "importstar"}   -> 1
    [] t.op \in {"storeattr", "delsubscr"}  -> 2
    [] t.op = "storesubscr"                 -> 3

\* A module is executed by the first import only.
Import(w, t) ==
  LET level  == FromTop(w.stack, 2)
      names  == FromTop(w.stack, 1)
      module == <<"module">> \o level \o
                  (IF names = <<"None">> THEN <<t.path[1]>> ELSE t.path)
      again  == \E k \in DOMAIN w.trace : /\ w.trace[k].does = t
                                          /\ w.trace[k].with = level
  IN  Push([IF again THEN w ELSE Event(w, t, level) EXCEPT !.stack = Drop(@, 2)], module)

\* The mapping below the top takes up the pairs of a display and asks any other
\* mapping for its keys.
SpreadInto(w, t) ==
  LET top == FromTop(w.stack, 1)
      new == FromTop(w.stack, 2) \o
               (IF Head(top) = "map" THEN Tail(top) ELSE <<"**">> \o top)
  IN  [IF Head(top) = "map" THEN w ELSE Event(w, t, top)
         EXCEPT !.stack = Append(Drop(@, 2), new)]

Step(w, t) ==
  CASE t.op = "load"    -> Push(w, Lookup(w, t.name))
    [] t.op = "store"   -> [w EXCEPT !.env = (t.name :> FromTop(w.stack, 1)) @@ @,
                                     !.stack = Drop(@, 1)]
    [] t.op = "delete"  -> [w EXCEPT !.env = (t.name :> <<"deleted">>) @@ @]
    [] t.op = "const"   -> Push(w, <<t.name>> \o t.path)
    [] t.op \in {"null", "code", "buildclass"} -> Push(w, <<t.op, t.name>>)
    [] t.op = "method"  -> LET v == Does(w, Attribute(t.name), 1)
                           IN  [v EXCEPT !.stack = Drop(@, 1) \o <<<<"null", "">>, Last(@)>>]
    [] t.op = "copy"    -> Push(w, FromTop(w.stack, t.n))
    [] t.op = "swap"    -> [w EXCEPT !.stack[Len(w.stack)] = FromTop(w.stack, t.n),
                                     !.stack[Len(w.stack) + 1 - t.n] = FromTop(w.stack, 1)]
    [] t.op = "pop"     -> [w EXCEPT !.stack = Drop(@, 1)]
    [] t.op = "unpack"  -> LET v == Does(w, t, 1)
                               parts == [k \in DOMAIN t.path |-> Append(Last(v.stack), ToString(k))]
                           IN  [v EXCEPT !.stack = Drop(@, 1) \o Reverse(parts)]
    [] t.op = "build" /\ t.name = "map" ->
         [w EXCEPT !.stack = Append(Drop(@, 2 * t.n), <<"map">> \o FlattenSeq(TopMost(@, 2 * t.n)))]
    [] t.op = "keymap"  ->
         LET keys   == Tail(FromTop(w.stack, 1))
             values == TopMost(Drop(w.stack, 1), t.n)
         IN  [w EXCEPT !.stack = Append(Drop(@, t.n + 1), <<"map">> \o
                FlattenSeq([k \in 1 .. t.n |-> <<"str", keys[k]>> \o values[k]]))]
    [] t.op = "mapadd"  -> [w EXCEPT !.stack = Append(Drop(@, 3), FlattenSeq(TopMost(@, 3)))]
    [] t.op = "spread"  -> SpreadInto(w, t)
    [] t.op = "importname" -> Import(w, t)
    [] t.op = "importfrom" -> Does(Push(w, FromTop(w.stack, 1)), t, 1)
    [] t.op = "return"  -> [Effect(w, t, 1) EXCEPT !.halted = TRUE]
    [] t.op = "raise"   -> [Effect(w, t, t.n) EXCEPT !.halted = TRUE]
    [] t.op \in {"storeattr", "storesubscr", "delattr", "delsubscr", "importstar"} ->
         Effect(w, t, Consumed(t))
    [] OTHER            -> Does(w, t, Operands(t))

\* A test has both outcomes.
Execute(w, t) ==
  CASE w.halted   -> {w}
    [] ~w.halted /\ w.skip > 0 -> {[w EXCEPT !.skip = @ - 1]}
    [] OTHER ->
         IF t.op # "jumpif" THEN {Step(w, t)}
         ELSE LET top == FromTop(w.stack, 1)
              IN  {[Event(w, Named("jumps", t.name), top) EXCEPT !.skip = t.n],
                   [Event(w, Named("falls", t.name), top) EXCEPT !.stack = Drop(@, 1)]}

ExecuteAll(worlds, t) == UNION {Execute(w, t) : w \in worlds}

Run(code) ==
  LET after[k \in 0 .. Len(code)] ==
        IF k = 0 THEN {Fresh} ELSE ExecuteAll(after[k - 1], code[k])
  IN  after[Len(code)]
-----------------------------------------------------------------------------
(***************************************************************************)
(* The statements, as the code CPython compiles them to.  A target is the  *)
(* code that binds the value on top of the stack.                          *)
(***************************************************************************)
AttributeTarget(owner, name)   == owner \o <<Named("storeattr", name)>>
SubscriptTarget(owner, index)  == owner \o index \o <<Token("storesubscr")>>
UnpackTarget(stars, targets)   == <<Listed("unpack", stars)>> \o FlattenSeq(targets)

Assign(targets, value) ==
  value \o FlattenSeq([k \in DOMAIN targets |->
                         IF k < Len(targets) THEN <<Copy(1)>> \o targets[k] ELSE targets[k]])

AugAssign(target, operator, value) ==
  LET read == Front(target)
      bind == Last(target)
      op   == <<Named("inplace", operator)>>
  IN  CASE bind.op = "store" -> <<Load(bind.name)>> \o value \o op \o target
        [] bind.op = "storeattr" ->
             read \o <<Copy(1), Attribute(bind.name)>> \o value \o op \o <<Swap(2), bind>>
        [] bind.op = "storesubscr" ->
             read \o <<Copy(2), Copy(2), Token("subscr")>> \o value \o op
                  \o <<Swap(3), Swap(2), bind>>

ExprStatement(value) == value \o <<Pop>>

Annotate(name, annotation) ==
  annotation \o <<Load("__annotations__"), Text(name), Token("storesubscr")>>

ImportOf(level, names, module) ==
  <<Constant("int", <<level>>), names, Listed("importname", module)>>
ImportModule(module, name) == ImportOf("0", None, module) \o <<Store(name)>>
ImportAs(module, name) ==
  IF Len(module) = 1 THEN ImportModule(module, name)
  ELSE LET from(k) == <<Named("importfrom", module[k])>>
       IN  ImportOf("0", None, module) \o from(2)
             \o FlattenSeq([k \in 1 .. Len(module) - 2 |-> <<Swap(2), Pop>> \o from(k + 2)])
             \o <<Store(name), Pop>>
FromOne(name, target) == <<Named("importfrom", name), Store(target)>>
FromImport(level, module, name, target) ==
  ImportOf(level, Constant("tuple", <<name>>), module) \o FromOne(name, target) \o <<Pop>>
ImportStar(level, module) ==
  ImportOf(level, Constant("tuple", <<"*">>), module) \o <<Token("importstar")>>

\* A body: the names every class body binds first, a string in front as docstring,
\* and the return at the end.
Prologue(scope) == IF scope # "class" THEN <<>>
                   ELSE <<Load("__name__"), Store("__module__"), Text("C"), Store("__qualname__")>>
Opening(scope, code) ==
  Prologue(scope) \o
    (IF /\ scope # "function" /\ Len(code) >= 2
        /\ code[1].op = "const" /\ code[1].name = "str" /\ code[2] = Pop
     THEN <<code[1], Store("__doc__")>> \o SubSeq(code, 3, Len(code))
     ELSE code)
Body(scope, code) == Opening(scope, code) \o <<None, Return>>
=============================================================================
