--------------------------- MODULE MCStraightLine ---------------------------
(***************************************************************************)
(* Straight-line bodies of two statements each, compiled as CPython 3.11   *)
(* compiles them: pairs of basic statements, and every other kind of       *)
(* statement and expression followed by a few of them.                     *)
(***************************************************************************)
EXTENDS StraightLine

Names == {"a", "b"}
F  == <<Null, Load("f"), Call(0)>>
G  == <<Null, Load("g"), Call(0)>>
A  == <<Load("a")>>
B  == <<Load("b")>>
Op(op, name)  == <<Named(op, name)>>
Add == Op("binary", "+")
CallOf(callee, args, n) == <<Null>> \o callee \o args \o <<Call(n)>>
CallF(args, n)          == CallOf(<<Load("f")>>, args, n)
With(names, n)          == <<[Call(n) EXCEPT !.path = names]>>
Splat(n)               == <<Counted("callex", n)>>
Function(name, parts)   == <<Named("code", name), Listed("function", parts)>>
Format(n)               == <<Counted("format", n)>>
Circuit(left, when, right) == left \o <<JumpIf(when, Len(right))>> \o right
Into(op, name)          == <<[Named(op, name) EXCEPT !.n = 1]>>
Name(name)              == <<Store(name)>>

\* Basic expressions and statements.
Exprs1 == {F, A, A \o F \o Add, F \o B \o Add}
Basic ==
  {ExprStatement(e) : e \in {F, A}}
    \union {Assign(<<Name(n)>>, e) : n \in Names, e \in Exprs1}
    \union {Assign(<<Name("a"), Name("b")>>, e) : e \in Exprs1}
    \union {Assign(<<UnpackTarget(<<"", "">>, <<Name(n), Name(m)>>)>>, e) :
              n \in Names, m \in Names, e \in {F, A}}
    \union {AugAssign(Name(n), "+", e) : n \in Names, e \in {F, B}}

\* Displays, calls and operators of every kind.  The one with MAP_ADD stands for
\* the displays of more than 15 pairs.
Rich == {
  F \o <<Attribute("x")>>, A \o <<Attribute("x")>>, F \o Op("unary", "-"),
  F \o A \o Op("binary", "<"), A \o F \o <<Token("subscr")>>,
  A \o F \o B \o <<Build("slice", 2), Token("subscr")>>,
  F \o A \o <<Build("tuple", 2)>>, F \o G \o <<Build("list", 2)>>, F \o A \o <<Build("set", 2)>>,
  <<Build("list", 0), Constant("tuple", <<"1", "2", "3">>)>> \o Into("extend", "list"),
  F \o <<Build("list", 1)>> \o A \o Into("extend", "list") \o G \o Into("append", "list"),
  F \o <<Build("list", 1)>> \o A \o Into("extend", "list") \o <<Token("totuple")>>,
  F \o <<Build("set", 1)>> \o A \o Into("extend", "set"),
  F \o A \o B \o G \o <<Build("map", 2)>>,
  F \o A \o <<Constant("tuple", <<"j", "k">>), Counted("keymap", 2)>>,
  <<Build("map", 0)>> \o A \o <<Spread("update"), Text("k")>> \o F
     \o <<Build("map", 1), Spread("update")>> \o B \o <<Spread("update")>>,
  <<Build("map", 0)>> \o A \o B \o <<Counted("mapadd", 1)>>,
  CallF(G \o A, 2), CallF(A \o G, 2),
  <<Null, Load("f")>> \o A \o G \o With(<<"k">>, 2),
  A \o Op("method", "m") \o F \o <<Call(1)>>,
  A \o <<Attribute("m")>> \o Op("method", "n") \o F \o <<Call(1)>>,
  CallOf(F, A, 1),
  <<Null, Load("f")>> \o A \o Splat(0),
  <<Null, Load("f")>> \o F \o <<Build("list", 1)>> \o A \o Into("extend", "list")
     \o <<Token("totuple"), Text("k")>> \o G \o <<Build("map", 1)>> \o B
     \o <<Spread("merge")>> \o Splat(1),
  CallF(Function("<lambda>", <<>>), 1),
  CallF(F \o <<Build("tuple", 1)>> \o Function("<lambda>", <<"defaults">>) \o A, 2),
  Function("<listcomp>", <<>>) \o F \o <<Token("iter"), Call(0)>> }

\* Short circuits; CPython leaves them in straight line where a call or a store to
\* an attribute takes their value.
Circuits == {
  Circuit(A, "and", F), Circuit(F, "or", B), Circuit(A, "and", Circuit(B, "or", F)),
  Circuit(F, "and", Circuit(G, "and", F)),
  Circuit(A, "and", CallF(Circuit(B, "or", G), 1)) }

Strings == {
  A \o Format(1), A \o B \o Format(1) \o Format(2),
  <<Text("s")>> \o A \o Format(1) \o F \o Format(1) \o <<Build("string", 3)>> }

\* Statements of every other kind.
Others ==
  {ExprStatement(e) : e \in Rich} \union {Assign(<<Name("b")>>, e) : e \in Rich \union Strings}
    \union {ExprStatement(CallF(e, 1)) : e \in Circuits}
    \union {Assign(<<AttributeTarget(A, "x")>>, e) : e \in Circuits \union Strings \union {F}}
    \union {AugAssign(t, "+", e) : t \in {AttributeTarget(A, "x"), SubscriptTarget(A, F)}, e \in {G, B}}
    \union {ImportModule(m, "a") : m \in {<<"a">>, <<"a", "k">>}}
    \union {ImportAs(m, "b") : m \in {<<"a">>, <<"a", "k">>, <<"a", "k", "j">>}}
    \union {FromImport("1", m, "k", n) : m \in {<<"a">>, <<>>}, n \in {"k", "b"}}
    \union { Assign(<<SubscriptTarget(A, F)>>, G),
             Assign(<<AttributeTarget(A, "x"), Name("b")>>, F),
             Assign(<<UnpackTarget(<<"", "">>,
                        <<Name("a"), UnpackTarget(<<"", "*">>, <<Name("b"), Name("c")>>)>>)>>, F),
             Assign(<<UnpackTarget(<<"", "">>, <<AttributeTarget(A, "x"), Name("a")>>)>>, F),
             Assign(<<Name("b")>>, Function("<lambda>", <<>>)),
             A \o Op("delattr", "x"), A \o F \o <<Token("delsubscr")>>, Op("delete", "a"),
             ImportStar("0", <<"a">>),
             Annotate("a", F), Assign(<<Name("a")>>, G) \o Annotate("a", F),
             F \o <<Build("tuple", 1)>> \o Function("m", <<"defaults">>) \o Name("m"),
             A \o F \o Function("m", <<>>) \o <<Call(0), Call(0)>> \o Name("m"),
             A \o <<Null, Token("buildclass")>> \o Function("C", <<>>) \o <<Text("C")>> \o B \o G
               \o With(<<"k">>, 4) \o <<Call(0)>> \o Name("C") }

Followers == {<<>>, Assign(<<Name("b")>>, F), Assign(<<Name("a"), Name("b")>>, A)}

Ended(kind, code) == [scope |-> kind, code |-> code \o <<None, Return>>]
InModule(code) == Ended("module", code)
InClass(code)  == Ended("class", Prologue("class") \o code)
InFunction(code) == Ended("function", code)

MCPrograms ==
  {InModule(s \o t) : s \in Basic, t \in Basic}
    \union {InModule(s \o t) : s \in Others, t \in Followers}
    \union {InModule(<<Text("d"), Store("__doc__")>> \o s) : s \in Basic}
    \union {InClass(s) : s \in Basic \union (Others \ {ImportStar("0", <<"a">>)})}
    \union {InFunction(s) : s \in Basic}
    \union {[scope |-> "function", code |-> s \o e] :
              s \in {<<>>} \union {Assign(<<Name("a"), Name("b")>>, F)},
              e \in {r \o <<Return>> : r \in Rich}
                      \union {F \o <<Counted("raise", 1)>>, F \o A \o <<Counted("raise", 2)>>,
                              <<Counted("raise", 0)>>}}

\* Damaged tokens: an operand too few, a value too many, an operand that is no
\* expression, a container that is another or missing, names that do not match.
\* The normalizer stops some of them before; the parser does not rely on it.
Fragments == {
  <<Pop>>, F, F \o <<Listed("unpack", <<"", "">>)>> \o Add,
  F \o <<Listed("unpack", <<"", "">>), Store("a")>>,
  <<Null, Pop>>, <<Token("buildclass"), Store("a")>>, Function("m", <<>>) \o <<Pop>>,
  A \o Function("m", <<"defaults">>) \o Add \o <<Pop>>,
  <<Listed("function", <<>>)>>, A \o <<Listed("function", <<>>), Pop>>,
  F \o <<Build("set", 1)>> \o A \o Into("extend", "list") \o <<Pop>>,
  A \o Into("append", "list"), A \o B \o <<Counted("mapadd", 1), Pop>>, A \o <<Spread("update"), Pop>>,
  A \o <<Token("totuple"), Pop>>, A \o <<Build("string", 1), Pop>>,
  A \o <<Constant("tuple", <<"j", "k">>), Counted("keymap", 1), Pop>>,
  A \o <<Copy(2), Pop>>, A \o <<Swap(2), Pop>>,
  <<Null, Token("buildclass")>> \o A \o <<Text("C"), Call(2), Store("C")>>,
  <<Constant("int", <<"0">>), A[1], Listed("importname", <<"a">>), Call(0)>>,
  ImportOf("0", Constant("tuple", <<"k">>), <<"a">>) \o <<Store("a")>>,
  ImportOf("0", Constant("tuple", <<"k">>), <<"a">>) \o FromOne("j", "j") \o <<Pop>>,
  ImportOf("0", None, <<"a", "k">>) \o FromOne("j", "j") \o <<Pop>>,
  ImportOf("0", Constant("tuple", <<"k">>), <<"a">>) \o <<Token("importstar")>>,
  A \o Op("importfrom", "k") \o <<Pop>>, <<JumpIf("and", 1)>> \o A \o <<Pop>>,
  A \o <<JumpIf("and", 1), Null, Pop>> }

MCDamaged == {InModule(s) : s \in Fragments}
               \union {InModule(s \o F) : s \in Basic \union Others}
               \union {InModule(Add \o s) : s \in Basic}
-----------------------------------------------------------------------------
\* a, b = b, a: the swap of the two loads is resolved by the compiler, which
\* stores in the opposite order, or left in the code.
Swaps == {B \o A \o Name("b") \o Name("a"), B \o A \o <<Swap(2)>> \o Name("a") \o Name("b")}

\* (a := f()) as a statement, and as the right operand of an and.
Walrus == {F \o <<Copy(1), Store("a"), Pop>>,
           CallF(Circuit(B, "and", F \o <<Copy(1), Store("a")>>), 1) \o <<Pop>>}

\* Chains of three targets, with an unpacking, of a lambda and of an f-string.
Chains == {Assign(<<Name("a"), Name("b"), Name("c")>>, F),
           Assign(<<Name("c"), UnpackTarget(<<"", "">>, <<Name("a"), Name("b")>>)>>, F),
           Assign(<<Name("a"), Name("b")>>, Function("<lambda>", <<>>)),
           Assign(<<Name("a"), Name("b")>>, A \o Format(1))}

\* Names that are bound for the parser to leave out, strings, subscripts and
\* mappings it takes for docstrings, annotations and keywords.
Left == {InModule(Assign(<<Name("a")>>, F) \o <<Text("d"), Store("__doc__")>>),
         InClass(F \o Name("__module__")), InClass(F \o Name("__qualname__")),
         InFunction(<<Text("d"), Store("__doc__")>> \o ExprStatement(F)),
         InFunction(Annotate("a", F)),
         InModule(ExprStatement(<<Null, Load("f"), Constant("tuple", <<>>), Build("map", 0),
                                  Build("map", 0)>> \o A \o <<Spread("update")>> \o B
                                  \o <<Spread("update"), Spread("merge"), Counted("callex", 1)>>))}

\* Operands that wait on the stack while a name they read is bound, or that
\* wait there twice; names and calls the source does not show.
MCShared == {InModule(s) : s \in Swaps \union Walrus \union Chains} \union Left
=============================================================================
