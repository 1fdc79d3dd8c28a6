---------------------------- MODULE StraightLine ----------------------------
(***************************************************************************)
(* The straight-line part of the 3.11 parser: _StraightLineDecompiler of   *)
(* parsers/p311/base.py dispatches the tokens, in the loop of              *)
(* _parse_region, over a stack of expressions and writes statements, so    *)
(* that what the machine computes where an instruction stands is computed  *)
(* by the source where its statement was written.  The module runs the     *)
(* parser, and the symbolic stack on which the normalizer tells calls      *)
(* apart, beside a machine that executes the same tokens; what has been    *)
(* written so far, compiled again, must do what the machine has done.      *)
(*                                                                         *)
(* An expression is represented by the code that evaluates it, a value     *)
(* that only the parser knows (a class under construction, an item of an   *)
(* unpacking, an import) by its tag.                                       *)
(***************************************************************************)
EXTENDS StackMachine, FiniteSets

CONSTANTS Programs,          \* [scope, code] of compiled statements
          Damaged            \* [scope, code] that is the code of no statements

VARIABLES compiled,          \* whether the tokens are the code of statements
          scope,             \* "module", "class", "function"
          tokens, pos,       \* the tokens and the one to be dispatched
          stack,             \* of [tag, code, id, of, detail]
          symbols,           \* the normalizer's stack, of kinds
          pendingBooleans,   \* of [target, operator, code, of]
          pendingValue, pendingTargets,
          groups,            \* of [source, parent, targets, remaining]
          body,              \* the code of the statements written so far
          outcome,           \* "running", "done", "error"
          machine            \* the worlds after the tokens before pos

input == <<compiled, scope, tokens>>
vars == <<input, pos, stack, symbols, pendingBooleans, pendingValue, pendingTargets, groups,
          body, outcome, machine>>

Running == outcome = "running"
Current == tokens[pos]
Before  == tokens[pos - 1]
-----------------------------------------------------------------------------
(***************************************************************************)
(* What waits on the stack.                                                *)
(***************************************************************************)
\* `of` names the values an expression is made of, its own included.
Item(tag, code, detail) == [tag |-> tag, code |-> code, detail |-> detail,
                            id |-> <<pos, 0>>, of |-> {<<pos, 0>>}]
MadeOf(item, operands) ==
  [item EXCEPT !.of = @ \union UNION {operands[k].of : k \in DOMAIN operands}]
Expr(code) == Item("expr", code, <<>>)

\* ast.expr, and what _expression_value makes an expression.
AstTags  == {"expr", "attribute", "formatted", "list", "set", "tuple", "dict"}
IsAst(item)  == item.tag \in AstTags
IsLambda(item) == item.tag = "function" /\ item.detail = "<lambda>"
IsExprValue(item) == IsAst(item) \/ IsLambda(item)
IsLiteral(item) == IsAst(item) /\ Len(item.code) = 1 /\ item.code[1].op = "const"
IsConstant(item, kind) == IsLiteral(item) /\ item.code[1].name = kind

\* A Dict is its parts: pairs, and mappings that were spread into it.
Part(how, code) == [how |-> how, code |-> code]
DictCode(parts) ==
  <<Build("map", 0)>> \o FlattenSeq([k \in DOMAIN parts |->
     Append(parts[k].code,
            IF parts[k].how = "" THEN Counted("mapadd", 1) ELSE Spread(parts[k].how))])
Dict(parts) == Item("dict", DictCode(parts), parts)

\* As a display a Dict updates with a mapping, as the keywords of a call it merges.
SpreadAs(how, parts) ==
  DictCode([k \in DOMAIN parts |->
              IF parts[k].how = "" THEN parts[k] ELSE [parts[k] EXCEPT !.how = how]])

\* An attribute that was loaded as a method is an attribute, and a call of an
\* attribute is compiled to the call of a method.
Code(item) ==
  CASE item.tag = "attribute" -> Append(Front(item.code), Attribute(Last(item.code).name))
    [] item.tag = "dict"      -> SpreadAs("update", item.detail)
    [] OTHER                  -> item.code
Callee(item) == IF item.tag = "attribute"
                THEN Append(Front(item.code), Named("method", Last(item.code).name))
                ELSE <<Null>> \o Code(item)

\* _resolve_booleans: the expressions that end where this token stands.
RECURSIVE Resolved(_, _)
Resolved(items, waiting) ==
  IF waiting = <<>> \/ (waiting # <<>> /\ Last(waiting).target # pos)
  THEN [stack |-> items, waiting |-> waiting, failed |-> FALSE]
  ELSE IF items = <<>> \/ (items # <<>> /\ ~IsExprValue(Last(items)))
  THEN [stack |-> items, waiting |-> waiting, failed |-> TRUE]
  ELSE LET left  == Last(waiting)
           right == Code(Last(items))
           whole == Expr(left.code \o <<JumpIf(left.operator, Len(right))>> \o right)
       IN  Resolved(Append(Front(items), MadeOf(whole, <<left, Last(items)>>)), Front(waiting))

Now     == Resolved(stack, pendingBooleans)
Items   == Now.stack
Nth(n)  == FromTop(Items, n)
Holds(n) == Len(Items) >= n
Below(n) == Drop(Items, n)
CodeOf(n) == FlattenSeq([k \in 1 .. n |-> Code(TopMost(Items, n)[k])])

\* _pop_expr, n times, and _pop_exprs.
Exprs(n) == Holds(n) /\ \A k \in 1 .. n : IsExprValue(Nth(k))
Container(n, depth) == n + (IF depth = 0 THEN 1 ELSE depth)
HoldsIn(n, depth, tag) == /\ Exprs(n) /\ Holds(Container(n, depth))
                          /\ Nth(Container(n, depth)).tag = tag
-----------------------------------------------------------------------------
(***************************************************************************)
(* The normalizer's symbolic stack.                                        *)
(***************************************************************************)
\* What an instruction pops and pushes.
StackPop(t) ==
  CASE t.op \in {"load", "const", "code", "null", "buildclass", "delete", "importfrom"} -> 0
    [] t.op \in {"binary", "inplace", "subscr", "storeattr", "delsubscr", "mapadd", "importname"} -> 2
    [] t.op = "storesubscr" -> 3
    [] t.op = "call"        -> t.n + 2
    [] t.op = "callex"      -> t.n + 3
    [] t.op = "function"    -> Len(t.path) + 1
    [] t.op = "keymap"      -> t.n + 1
    [] t.op = "build"       -> IF t.name = "map" THEN 2 * t.n ELSE t.n
    [] t.op \in {"format", "raise"} -> t.n
    [] OTHER                -> 1
StackPush(t) ==
  CASE t.op \in {"store", "storeattr", "storesubscr", "delete", "delattr", "delsubscr", "pop",
                 "return", "raise", "extend", "append", "mapadd", "spread", "importstar",
                 "jumpif"} -> 0
    [] t.op = "unpack" -> Len(t.path)
    [] OTHER           -> 1

Kinds(s, t) ==
  CASE t.op = "null"   -> Append(s, "null")
    [] t.op = "method" -> Drop(s, 1) \o <<"method", "self_or_null">>
    [] t.op = "copy"   -> Append(s, FromTop(s, t.n))
    [] t.op = "swap"   -> [s EXCEPT ![Len(s)] = FromTop(s, t.n),
                                    ![Len(s) + 1 - t.n] = FromTop(s, 1)]
    [] OTHER           -> Drop(s, StackPop(t)) \o [k \in 1 .. StackPush(t) |-> "value"]

\* _protocol_info of the two values below the arguments of a call.
Protocol(n) == IF Len(symbols) < Current.n + 2 THEN "unknown" ELSE FromTop(symbols, Current.n + n)
HasNull     == Protocol(2) = "null"
IsMethod    == Protocol(2) = "method" \/ Protocol(1) = "self_or_null"
-----------------------------------------------------------------------------
(***************************************************************************)
(* Which tokens are refused (_error).                                      *)
(***************************************************************************)
\* How many expressions the handler of a token pops.
Wants(t) ==
  CASE t.op \in {"attr", "method", "unary", "totuple", "extend", "append", "spread", "return",
                 "delattr", "jumpif"} -> 1
    [] t.op \in {"binary", "inplace", "subscr", "mapadd", "importname", "delsubscr"} -> 2
    [] t.op = "build"  -> IF t.name = "map" THEN 2 * t.n ELSE t.n
    [] t.op = "keymap" -> t.n + 1
    [] t.op = "callex" -> t.n + 2
    [] t.op \in {"format", "raise"} -> t.n
    [] OTHER -> 0

\* _call: a decorator, the function of a comprehension, or what is called.
Argc == Current.n
Hides == ~HasNull /\ ~IsMethod /\ Holds(Argc + 2)
Decorating == /\ Hides /\ Nth(Argc + 1).tag \in {"function", "class"} /\ IsAst(Nth(Argc + 2))
Comprehending == /\ Hides /\ Argc = 0 /\ IsAst(Nth(1)) /\ Nth(2).tag = "function"
                 /\ pos > 1 /\ Before.op = "iter"
BuildingClass == ~Decorating /\ Holds(Argc + 1) /\ Nth(Argc + 1).tag = "buildclass"

ClassArguments == /\ Argc >= 2 /\ Nth(Argc).tag = "function" /\ IsConstant(Nth(Argc - 1), "str")
                  /\ \A k \in 1 .. Argc - 2 : IsAst(Nth(k))

CallAccepted ==
  /\ Holds(Argc + 1)
  /\ CASE Decorating    -> Argc = 0
       [] Comprehending -> Nth(2).detail = "<listcomp>"
       [] BuildingClass -> ClassArguments
       [] OTHER         -> Exprs(Argc + 1)

\* _constant_value of the names an IMPORT_NAME asks for.
FromList(item) == IF IsConstant(item, "tuple") THEN item.code[1].path ELSE <<>>

IsImport(n) == Holds(n) /\ Nth(n).tag = "import"
Prefix(path, of) == Len(path) <= Len(of) /\ \A k \in DOMAIN path : path[k] = of[k]
ImportFromAccepted ==
  /\ IsImport(1)
  /\ LET i == Nth(1).detail
     IN  IF i.fromlist # <<>> THEN i.path = <<>> /\ Contains(i.fromlist, Current.name)
         ELSE Prefix(Append(i.path, Current.name), Tail(i.module))

\* A store: the target's operands and the value below them.
TargetSize == CASE Current.op = "store" -> 0
                [] Current.op = "storeattr" -> 1
                [] Current.op = "storesubscr" -> 2
Stored == Nth(TargetSize + 1)
Target == CodeOf(TargetSize) \o <<Current>>
ToName == Current.op = "store"

Skipped  == ToName /\ scope = "class"
              /\ Current.name \in {"__module__", "__qualname__", "__classcell__"}
Docstring == ToName /\ Current.name = "__doc__" /\ IsConstant(Stored, "str")
Annotation == /\ Current.op = "storesubscr" /\ IsAst(Stored) /\ IsConstant(Nth(1), "str")
              /\ Nth(2).code = <<Load("__annotations__")>>

Storable ==
  \/ Skipped
  \/ IsExprValue(Stored)
  \/ Stored.tag \in {"item", "augmented"}
  \/ ToName /\ Stored.tag \in {"function", "class"}
  \/ ToName /\ Stored.tag = "import"
       /\ (Stored.detail.path = <<>> => Stored.detail.fromlist = <<>>)

Stores == {"store", "storeattr", "storesubscr"}

Accepted ==
  /\ ~Now.failed
  /\ Exprs(Wants(Current))
  /\ CASE Current.op = "build" /\ Current.name = "string" ->
            \A k \in 1 .. Current.n : Nth(k).tag = "formatted" \/ IsConstant(Nth(k), "str")
       [] Current.op = "keymap" -> IsConstant(Nth(1), "tuple")
                                     /\ Len(Nth(1).code[1].path) = Current.n
       [] Current.op \in {"extend", "append"} -> HoldsIn(1, Current.n, Current.name)
       [] Current.op = "mapadd" -> HoldsIn(2, Current.n, "dict")
       [] Current.op = "spread" -> Holds(Container(1, Current.n))
       [] Current.op = "totuple" -> Nth(1).tag = "list"
       [] Current.op = "function" ->
            /\ Holds(Len(Current.path) + 1) /\ Nth(1).tag = "code"
            /\ \A k \in 2 .. Len(Current.path) + 1 : IsExprValue(Nth(k))
       [] Current.op = "call" -> CallAccepted
       [] Current.op = "callex" -> TRUE
       [] Current.op \in {"copy", "swap"} -> Current.n \in 1 .. Len(Items)
       [] Current.op = "unpack" -> Holds(1) /\ (IsAst(Nth(1)) \/ Nth(1).tag = "item")
       [] Current.op = "importname" ->
            /\ IsConstant(Nth(2), "int")
            /\ IsLiteral(Nth(1)) => Nth(1).code[1].name \in {"tuple", "None"}
       [] Current.op = "importfrom" -> ImportFromAccepted
       [] Current.op = "importstar" -> IsImport(1) /\ Nth(1).detail.path = <<>>
                                         /\ Nth(1).detail.fromlist = <<"*">>
       [] Current.op = "pop" -> Holds(1) /\ (IsAst(Nth(1)) \/ Nth(1).tag = "import")
       [] Current.op \in Stores -> /\ Holds(TargetSize + 1) /\ Exprs(TargetSize) /\ Storable
       [] OTHER -> TRUE

At(ops) == Running /\ pos <= Len(tokens) /\ Current.op \in ops /\ Accepted
-----------------------------------------------------------------------------
Init == /\ compiled \in BOOLEAN
        /\ \E p \in IF compiled THEN Programs ELSE Damaged : scope = p.scope /\ tokens = p.code
        /\ pos = 1 /\ stack = <<>> /\ symbols = <<>> /\ pendingBooleans = <<>>
        /\ pendingValue = Expr(<<>>) /\ pendingTargets = <<>>
        /\ groups = <<>> /\ body = <<>>
        /\ outcome = "running"
        /\ machine = {Fresh}

\* What _flush_assignment leaves in the body.
Flushed == IF pendingTargets = <<>> THEN body
           ELSE body \o Assign(pendingTargets, pendingValue.code)

\* The machine and the normalizer go over the token that is dispatched.
Consume == /\ pos' = pos + 1
           /\ machine' = ExecuteAll(machine, Current)
           /\ symbols' = Kinds(symbols, Current)
           /\ UNCHANGED <<input, outcome>>

Resolve == pendingBooleans' = Now.waiting

\* A token that is no store flushes the queued assignment; then it leaves `items`
\* on the stack, or writes a statement as well.
Leaves(items) == /\ stack' = items
                 /\ body' = Flushed /\ pendingTargets' = <<>>
                 /\ Resolve /\ Consume /\ UNCHANGED <<pendingValue, groups>>
Writes(statement, items) == /\ stack' = items
                            /\ body' = Flushed \o statement /\ pendingTargets' = <<>>
                            /\ Resolve /\ Consume /\ UNCHANGED <<pendingValue, groups>>

\* A store flushes nothing: what it writes at once comes before a queued assignment.
Binds(statement) == /\ stack' = Below(TargetSize + 1)
                    /\ body' = body \o statement
                    /\ Resolve /\ Consume /\ UNCHANGED <<pendingValue, pendingTargets, groups>>

Builds(n, item) == Leaves(Append(Below(n), MadeOf(item, TopMost(Items, n))))
Makes(n, tag, code) == Builds(n, Item(tag, code, <<>>))
-----------------------------------------------------------------------------
PushOperand == /\ At({"load", "const", "null", "code", "buildclass"})
               /\ Leaves(Append(Items,
                    Item(IF Current.op \in {"load", "const"} THEN "expr" ELSE Current.op,
                         <<Current>>, Current.name)))

Unary == At({"attr", "method", "unary"})
           /\ Makes(1, IF Current.op = "unary" THEN "expr" ELSE "attribute",
                    Append(CodeOf(1), Current))

\* Defect: the operands are taken off in the wrong order.
BinaryReversed == At({"binary", "subscr"})
                    /\ Makes(2, "expr", Code(Nth(1)) \o Code(Nth(2)) \o <<Current>>)

Binary == At({"binary", "subscr"}) /\ Makes(2, "expr", Append(CodeOf(2), Current))

\* An _AugmentedValue; its left operand is taken to be the target.
Inplace == At({"inplace"})
             /\ Builds(2, Item("augmented", Code(Nth(1)), Current.name))

Collection == /\ At({"build"}) /\ Current.name # "map"
              /\ Makes(Current.n, IF Current.name \in AstTags THEN Current.name ELSE "expr",
                       Append(CodeOf(Current.n), Current))

FormatValue == At({"format"}) /\ Makes(Current.n, "formatted", Append(CodeOf(Current.n), Current))

Pairs(n) == [k \in 1 .. n |-> LET at == 2 * (n - k) + 1
                              IN  Part("", Code(Nth(at + 1)) \o Code(Nth(at)))]
BuildMap == /\ At({"build"}) /\ Current.name = "map"
            /\ Builds(2 * Current.n, Dict(Pairs(Current.n)))

BuildConstKeyMap == /\ At({"keymap"})
                    /\ LET n == Current.n
                           keys == Nth(1).code[1].path
                       IN  Builds(n + 1, Dict([k \in 1 .. n |->
                             Part("", <<Text(keys[k])>> \o Code(Nth(n + 2 - k)))]))

\* The literal under construction is changed where it stands.
Replaced(n, depth, item) ==
  LET at == Container(n, depth)
      same == [item EXCEPT !.id = Nth(at).id, !.of = Nth(at).of]
  IN  [Below(n) EXCEPT ![Len(Items) + 1 - at] = MadeOf(same, TopMost(Items, n))]

SequenceExtend ==
  /\ At({"extend", "append"})
  /\ LET literal == Nth(Container(1, Current.n))
     IN  Leaves(Replaced(1, Current.n,
                  [literal EXCEPT !.code = @ \o CodeOf(1) \o <<[Current EXCEPT !.n = 1]>>]))

MapAdd ==
  /\ At({"mapadd"})
  /\ Leaves(Replaced(2, Current.n,
       Dict(Append(Nth(Container(2, Current.n)).detail, Part("", CodeOf(2))))))

\* A display that is spread into a Dict becomes part of it.
DictUpdate ==
  /\ At({"spread"})
  /\ LET target == Nth(Container(1, Current.n))
         PartsOf(item) == IF item.tag = "dict" THEN item.detail
                          ELSE <<Part(Current.name, Code(item))>>
     IN  Leaves(Replaced(1, Current.n, Dict(PartsOf(target) \o PartsOf(Nth(1)))))

ListToTuple == At({"totuple"}) /\ Makes(1, "tuple", Append(CodeOf(1), Current))

MakeFunction ==
  /\ At({"function"})
  /\ LET n == Len(Current.path) + 1
     IN  Builds(n, Item("function", Append(CodeOf(n), Current), Nth(1).detail))

\* A call; the null below the callee goes with it.
CallFunction ==
  /\ At({"call"}) /\ ~Decorating /\ ~Comprehending /\ ~BuildingClass
  /\ LET null == Holds(Argc + 2) /\ Nth(Argc + 2).tag = "null"
     IN  Makes(Argc + (IF null THEN 2 ELSE 1), "expr",
               Callee(Nth(Argc + 1)) \o Append(CodeOf(Argc), Current))

\* f(*args, **kwargs): the parts of the mapping become keywords.
CallEx ==
  /\ At({"callex"})
  /\ LET n == Current.n
         f == n + 2
         null == Holds(f + 1) /\ Nth(f + 1).tag = "null"
         keywords == IF n = 0 THEN <<>>
                     ELSE SpreadAs("merge", IF Nth(1).tag = "dict" THEN Nth(1).detail
                                            ELSE <<Part("merge", Code(Nth(1)))>>)
     IN  Makes(f + (IF null THEN 1 ELSE 0), "expr",
               <<Null>> \o Code(Nth(f)) \o Code(Nth(n + 1)) \o keywords \o <<Current>>)

\* _decorate: the function or class, with one decorator more.
Decorate ==
  /\ At({"call"}) /\ Decorating
  /\ Builds(2, Item(Nth(1).tag, CodeOf(2) \o <<Current>>, Nth(1).detail))

BuildClass ==
  /\ At({"call"}) /\ BuildingClass
  /\ LET null == Holds(Argc + 2) /\ Nth(Argc + 2).tag = "null"
     IN  Makes(Argc + (IF null THEN 2 ELSE 1), "class",
               <<Null, Token("buildclass")>> \o Append(CodeOf(Argc), Current))

Comprehension ==
  /\ At({"call"}) /\ Comprehending
  /\ Makes(2, "expr", CodeOf(2) \o <<Token("iter"), Current>>)

\* GET_ITER leaves the iterable where it is.
GetIter == At({"iter"}) /\ Leaves(Items)

\* The same expression object twice.
CopyStack == At({"copy"}) /\ Leaves(Append(Items, Nth(Current.n)))

SwapStack == /\ At({"swap"})
             /\ Leaves([Items EXCEPT ![Len(Items)] = Nth(Current.n),
                                     ![Len(Items) + 1 - Current.n] = Nth(1)])

\* An and or an or: its left operand waits for the end of the right one.
ShortCircuit ==
  /\ At({"jumpif"})
  /\ pendingBooleans' = Append(Now.waiting, [target |-> pos + 1 + Current.n,
                                             operator |-> Current.name,
                                             code |-> CodeOf(1), of |-> Nth(1).of])
  /\ stack' = Below(1)
  /\ body' = Flushed /\ pendingTargets' = <<>>
  /\ Consume /\ UNCHANGED <<pendingValue, groups>>
-----------------------------------------------------------------------------
ImportName ==
  /\ At({"importname"})
  /\ Builds(2, Item("import", <<>>, [module |-> Current.path, level |-> Nth(2).code[1].path[1],
                                     fromlist |-> FromList(Nth(1)), path |-> <<>>]))

ImportFromName ==
  /\ At({"importfrom"})
  /\ Leaves(Append(Items, Item("import", <<>>,
                               [Nth(1).detail EXCEPT !.path = Append(@, Current.name)])))

ImportStarName ==
  /\ At({"importstar"})
  /\ Writes(ImportStar(Nth(1).detail.level, Nth(1).detail.module), Below(1))

\* The tree is what counts: how the host's ast.unparse writes it is not modelled.
PopTop == /\ At({"pop"}) /\ IsAst(Nth(1))
          /\ Writes(ExprStatement(Code(Nth(1))), Below(1))

\* The module of an import statement is popped without a trace.
PopImport == At({"pop"}) /\ Nth(1).tag = "import" /\ Leaves(Below(1))

\* The final return of a module or class and of None are not written.
ReturnValue ==
  /\ At({"return"})
  /\ Writes(IF \/ scope # "function"
               \/ IsConstant(Nth(1), "None") /\ pos = Len(tokens)
            THEN <<>> ELSE CodeOf(1) \o <<Return>>, Below(1))

Raise == At({"raise"}) /\ Writes(Append(CodeOf(Current.n), Current), Below(Current.n))

Delete == /\ At({"delete", "delattr", "delsubscr"})
          /\ LET n == Wants(Current) IN Writes(Append(CodeOf(n), Current), Below(n))
-----------------------------------------------------------------------------
Storing == At(Stores) /\ ~Skipped /\ ~Docstring /\ ~Annotation

\* What every class body binds first is not source.
StoreSkipped == At(Stores) /\ Skipped /\ Binds(<<>>)

StoreDocstring == At(Stores) /\ ~Skipped /\ Docstring /\ Binds(ExprStatement(Code(Stored)))

\* _store_annotation; the annotation of a local name is not evaluated.
StoreAnnotation ==
  /\ At(Stores) /\ Annotation
  /\ Binds(IF scope = "function" THEN <<>>
           ELSE Annotate(Nth(1).code[1].path[1], Code(Stored)))

\* _queue_assignment: stores of one object make one chained assignment.  A
\* JoinedStr and a Lambda are made anew for every store.
Queued == [Stored EXCEPT !.code = Code(Stored),
                         !.id = IF Stored.tag \in {"formatted", "function"} THEN <<pos, 1>> ELSE @]
Queue == /\ Storing /\ IsExprValue(Stored)
         /\ IF pendingTargets # <<>> /\ pendingValue.id = Queued.id
            THEN /\ pendingTargets' = Append(pendingTargets, Target)
                 /\ UNCHANGED <<body, pendingValue>>
            ELSE /\ body' = Flushed
                 /\ pendingTargets' = <<Target>>
                 /\ pendingValue' = Queued
         /\ stack' = Below(TargetSize + 1)
         /\ Resolve /\ Consume /\ UNCHANGED groups

StoreAugmented == /\ Storing /\ Stored.tag = "augmented"
                  /\ Binds(AugAssign(Target, Stored.detail, Stored.code))

StoreDefinition == /\ Storing /\ Stored.tag \in {"function", "class"} /\ ~IsLambda(Stored)
                   /\ Binds(Append(Stored.code, Current))

StoreImport ==
  /\ Storing /\ Stored.tag = "import"
  /\ LET i == Stored.detail
         plain == i.path = <<>> /\ Current.name = Head(i.module)
     IN  Binds(CASE i.fromlist # <<>> -> FromImport(i.level, i.module, Last(i.path), Current.name)
                 [] i.fromlist = <<>> /\ plain -> ImportModule(i.module, Current.name)
                 [] i.fromlist = <<>> /\ ~plain -> ImportAs(i.module, Current.name))
-----------------------------------------------------------------------------
UnpackItem(group, index) ==
  [Item("item", <<>>, <<group, index>>) EXCEPT !.id = <<pos, index>>]
Group == [source |-> Code(Nth(1)), parent |-> IF Nth(1).tag = "item" THEN Nth(1).detail ELSE <<>>,
          targets |-> [k \in DOMAIN Current.path |-> <<>>], stars |-> Current.path,
          remaining |-> Len(Current.path)]
Unpacks(order) ==
  /\ At({"unpack"})
  /\ groups' = Append(groups, Group)
  /\ stack' = Below(1) \o order
  /\ body' = Flushed /\ pendingTargets' = <<>>
  /\ Resolve /\ Consume /\ UNCHANGED pendingValue
NewItems == [k \in DOMAIN Current.path |-> UnpackItem(Len(groups) + 1, k)]

\* Defect: the first item is pushed first.
UnpackForward == Unpacks(NewItems)

Unpack == Unpacks(Reverse(NewItems))

\* Defect: `remaining` is not counted down.
StoreUnpackUncounted(gs, at, target) ==
  [groups |-> [gs EXCEPT ![at[1]].targets[at[2]] = target], statement |-> <<>>]

\* _store_unpack: the last target of a group makes a tuple, which is the target
\* of the item the group was unpacked from or of the statement.
RECURSIVE StoreUnpack(_, _, _)
StoreUnpack(gs, at, target) ==
  LET g == [gs[at[1]] EXCEPT !.targets[at[2]] = target, !.remaining = @ - 1]
      new == [gs EXCEPT ![at[1]] = g]
      tuple == UnpackTarget(g.stars, g.targets)
  IN  CASE g.remaining > 0 -> [groups |-> new, statement |-> <<>>]
        [] g.remaining = 0 /\ g.parent # <<>> -> StoreUnpack(new, g.parent, tuple)
        [] g.remaining = 0 /\ g.parent = <<>> ->
             [groups |-> new, statement |-> Assign(<<tuple>>, g.source)]

StoreItem ==
  /\ Storing /\ Stored.tag = "item"
  /\ LET after == StoreUnpack(groups, Stored.detail, Target)
     IN  /\ groups' = after.groups
         /\ body' = body \o after.statement
  /\ stack' = Below(TargetSize + 1)
  /\ Resolve /\ Consume /\ UNCHANGED <<pendingValue, pendingTargets>>
-----------------------------------------------------------------------------
\* Defect: what is left on the stack is dropped.
FinishAnyway == /\ Running /\ pos > Len(tokens)
                /\ body' = Flushed /\ pendingTargets' = <<>>
                /\ outcome' = "done"
                /\ UNCHANGED <<input, pos, stack, symbols, pendingBooleans, pendingValue,
                               groups, machine>>

\* The tokens are used up.
Finish == /\ Running /\ pos > Len(tokens) /\ stack = <<>>
          /\ body' = Flushed /\ pendingTargets' = <<>>
          /\ outcome' = "done"
          /\ UNCHANGED <<input, pos, stack, symbols, pendingBooleans, pendingValue, groups,
                         machine>>

\* _error: an operand is missing or of the wrong kind, or values are left over.
Refuse == /\ Running
          /\ IF pos > Len(tokens) THEN stack # <<>> ELSE ~Accepted
          /\ outcome' = "error"
          /\ UNCHANGED <<input, pos, stack, symbols, pendingBooleans, pendingValue, pendingTargets,
                         groups, body, machine>>

Next == \/ PushOperand \/ Unary \/ Binary \/ Inplace \/ Collection \/ FormatValue
        \/ BuildMap \/ BuildConstKeyMap \/ SequenceExtend \/ MapAdd \/ DictUpdate \/ ListToTuple
        \/ MakeFunction \/ CallFunction \/ CallEx \/ Decorate \/ BuildClass \/ Comprehension
        \/ GetIter \/ CopyStack \/ SwapStack \/ ShortCircuit
        \/ ImportName \/ ImportFromName \/ ImportStarName
        \/ PopTop \/ PopImport \/ ReturnValue \/ Raise \/ Delete
        \/ StoreSkipped \/ StoreDocstring \/ StoreAnnotation \/ Queue \/ StoreAugmented
        \/ StoreDefinition \/ StoreImport \/ Unpack \/ StoreItem
        \/ Finish \/ Refuse

Spec == Init /\ [][Next]_vars
-----------------------------------------------------------------------------
\* Types; a group is waiting for as many targets as it has none for, and the
\* normalizer's stack is as deep as the machine's in every world that is here.
TypeOK ==
  /\ scope \in {"module", "class", "function"}
  /\ pos \in 1 .. Len(tokens) + 1
  /\ outcome \in {"running", "done", "error"}
  /\ \A k \in DOMAIN stack : stack[k].tag \in AstTags \union
       {"null", "code", "buildclass", "function", "class", "augmented", "item", "import"}
  /\ \A k \in DOMAIN groups :
       groups[k].remaining = Cardinality({x \in DOMAIN groups[k].targets : groups[k].targets[x] = <<>>})
  /\ \A w \in machine : ~w.halted /\ w.skip = 0 => Len(symbols) = Len(w.stack)

\* No expression waits for an operand, and none stands for a value that is still
\* held somewhere else or that only the parser knows.
Unshared ==
  /\ pendingBooleans = <<>>
  /\ pos > 1 => Before.op # "iter"
  /\ \A k \in DOMAIN stack : stack[k].tag \notin {"augmented", "item", "import"}
  /\ \A k, l \in DOMAIN stack : k # l => stack[k].of \intersect stack[l].of = {}
  /\ pendingTargets # <<>> => \A k \in DOMAIN stack : stack[k].of \intersect pendingValue.of = {}

StackCode == FlattenSeq([k \in DOMAIN stack |-> stack[k].code])

\* Running the statements written so far and then the expressions that wait on
\* the stack does what the machine did: the same calls and operators in the same
\* order with the same names visible, the same names bound, the same stack.
DeferredMeaning ==
  Running /\ Unshared /\ pos > Len(Prologue(scope)) /\ (\A w \in machine : ~w.halted) =>
    Run(Opening(scope, Flushed) \o StackCode) = machine

\* The whole text means what the code means (PYTHON_311_SUPPORT.md: the target
\* is semantic equivalence).
SemanticEquivalence == outcome = "done" => Run(Body(scope, body)) = machine

\* Tokens that are not the code of whole statements are refused, and only they are:
\* no damaged code gives a shorter program, no compiled code an error.
RefusesExactlyDamaged == outcome # IF compiled THEN "error" ELSE "done"
=============================================================================
