-------------------------- MODULE ConditionAlgebra --------------------------
(***************************************************************************)
(* The ast nodes a recovered condition is made of, and how                 *)
(* controlflow/structures.py joins two decided parts of one with and, or,  *)
(* not and conditional expressions.                                        *)
(***************************************************************************)
EXTENDS Naturals, SequencesExt, FiniteSetsExt

Load(name)         == [op |-> "load", name |-> name]
Compare(rel, name) == [op |-> "compare", rel |-> rel, name |-> name]
Not(operand)       == [op |-> "not", operand |-> operand]
Bool(op, values)   == [op |-> op, values |-> values]
Constant(value)    == [op |-> "constant", value |-> value]
IfExp(test, body, orelse) ==
  [op |-> "ifexp", test |-> test, body |-> body, orelse |-> orelse]

Opposite == ("lt" :> "ge") @@ ("ge" :> "lt") @@ ("is" :> "is not") @@ ("is not" :> "is")

\* _negate.
Negate(e) ==
  CASE e.op = "not"     -> e.operand
    [] e.op = "compare" -> Compare(Opposite[e.rel], e.name)
    [] OTHER            -> Not(e)

\* _boolean_operation: operands of the same operator are spliced in.
Boolean(op, left, right) ==
  LET operands(e) == IF e.op = op THEN e.values ELSE <<e>>
  IN  Bool(op, operands(left) \o operands(right))

\* One value stands for itself, several are joined again.
Joined(op, values) == IF Len(values) = 1 THEN Head(values) ELSE Bool(op, values)

EndsWith(e, op, suffix) == e.op = op /\ Last(e.values) = suffix

Prefix(e) == Joined(e.op, Front(e.values))

\* _factor_ifexp_common_and_suffix, then _factor_ifexp_common_or_suffix, and what
\* is left when neither applies.
Factored(predicate, true, false) ==
  IF EndsWith(false, "and", true)
  THEN Boolean("and", Boolean("or", predicate, Prefix(false)), true)
  ELSE IF EndsWith(true, "or", false)
  THEN Boolean("or", Boolean("and", predicate, Prefix(true)), false)
  ELSE IF EndsWith(false, "or", true)
  THEN Boolean("or", Boolean("and", Negate(predicate), Prefix(false)), true)
  ELSE IF true.op = "or" /\ EndsWith(false, "or", Last(true.values))
  THEN Boolean("or", IfExp(predicate, Prefix(true), Prefix(false)), Last(true.values))
  ELSE IfExp(predicate, true, false)

\* Defect: the predicate of an or is not negated when its true side goes on.
CombineUnnegated(predicate, true, false) ==
  IF true = Constant(TRUE) /\ false = Constant(FALSE) THEN predicate
  ELSE IF true = Constant(FALSE) /\ false = Constant(TRUE) THEN Negate(predicate)
  ELSE IF false = Constant(FALSE) THEN Boolean("and", predicate, true)
  ELSE IF true = Constant(FALSE) THEN Boolean("and", Negate(predicate), false)
  ELSE IF true = Constant(TRUE) THEN Boolean("or", predicate, false)
  ELSE IF false = Constant(TRUE) THEN Boolean("or", predicate, true)
  ELSE Factored(predicate, true, false)

\* _combine_decision.
Combine(predicate, true, false) ==
  IF true = Constant(TRUE) /\ false = Constant(FALSE) THEN predicate
  ELSE IF true = Constant(FALSE) /\ false = Constant(TRUE) THEN Negate(predicate)
  ELSE IF false = Constant(FALSE) THEN Boolean("and", predicate, true)
  ELSE IF true = Constant(FALSE) THEN Boolean("and", Negate(predicate), false)
  ELSE IF true = Constant(TRUE) THEN Boolean("or", predicate, false)
  ELSE IF false = Constant(TRUE) THEN Boolean("or", Negate(predicate), true)
  ELSE Factored(predicate, true, false)
=============================================================================
