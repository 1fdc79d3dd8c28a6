-------------------------- MODULE ConditionMeaning --------------------------
(***************************************************************************)
(* What a recovered condition means, against the jumps it was made from.   *)
(*                                                                         *)
(* A run of the program decides, evaluation by evaluation, how each        *)
(* predicate comes out (the same source text may come out differently the  *)
(* next time), so the outcomes are a sequence that the graph and the       *)
(* expression consume from the front.                                      *)
(***************************************************************************)
EXTENDS ConditionPlan

CONSTANT Outcomes            \* of one predicate: {"true", "false"}, and "unordered"
                             \* for operands that are neither < nor >=

Evaluations == Cardinality(DOMAIN nodes)
                 + Cardinality({n \in DOMAIN nodes : nodes[n].predicate.op = "or"})

Streams == [1 .. Evaluations -> Outcomes]

Holds(rel, how) ==
  CASE rel = "value" -> how = "true"
    [] rel = "lt"    -> how = "true"
    [] rel = "ge"    -> how = "false"
    [] rel = "is"    -> how = "true"
    [] OTHER         -> how # "true"

\* The value of an expression and the names it evaluated before and with that.
RECURSIVE Eval(_, _, _), EvalAll(_, _, _, _)
Eval(e, stream, seen) ==
  LET leaf(rel) ==
        LET at == Len(seen) + 1
        IN  [value |-> at \in DOMAIN stream /\ Holds(rel, stream[at]), seen |-> seen \o <<e.name>>]
  IN  CASE e.op = "load"     -> leaf("value")
        [] e.op = "compare"  -> leaf(e.rel)
        [] e.op = "constant" -> [value |-> e.value, seen |-> seen]
        [] e.op = "not"      -> LET of == Eval(e.operand, stream, seen)
                                IN  [of EXCEPT !.value = ~@]
        [] e.op = "ifexp"    -> LET test == Eval(e.test, stream, seen)
                                IN  Eval(IF test.value THEN e.body ELSE e.orelse, stream, test.seen)
        [] OTHER             -> EvalAll(e.values, e.op = "and", stream, seen)

\* The operands from the left while they come out as `goOn`.
EvalAll(values, goOn, stream, seen) ==
  LET first == Eval(Head(values), stream, seen)
  IN  IF Len(values) = 1 \/ first.value # goOn THEN first
      ELSE EvalAll(Tail(values), goOn, stream, first.seen)

\* The jumps followed from an offset, to the end.
RECURSIVE Walk(_, _, _)
Walk(offset, stream, seen) ==
  IF offset \in endpoints
  THEN [value |-> offset = TrueEndpoint, seen |-> seen]
  ELSE LET test == Eval(nodes[offset].predicate, stream, seen)
       IN  Walk(IF test.value THEN nodes[offset].true ELSE nodes[offset].false, stream, test.seen)
-----------------------------------------------------------------------------
\* The recovered condition and the jumps evaluate the same predicates in the same
\* order and come out on the same side, however each predicate turns out.
MeansTheJumps ==
  outcome = "planned" =>
    \A stream \in Streams : Eval(expressions[Entry], stream, << >>) = Walk(Entry, stream, << >>)
=============================================================================
