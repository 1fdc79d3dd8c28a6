---------------------------- MODULE ConditionPlan ----------------------------
(***************************************************************************)
(* The end of _bounded_condition_plan in controlflow/structures.py: a      *)
(* graph of conditional jumps with two ways out becomes one source         *)
(* condition.  The jumps are taken from a work list, each after both of    *)
(* its outcomes, and _combine_decision joins the parts (ConditionAlgebra). *)
(***************************************************************************)
EXTENDS ConditionAlgebra

CONSTANT Plans               \* the collected [nodes |-> ..., endpoints |-> ...];
                             \* a node is a [predicate, true, false]

VARIABLES nodes, endpoints,  \* the locals of the same names
          pending,           \* the stack of <<offset, expanded>>
          expressions,       \* offset -> recovered expression
          active,            \* active_offsets
          work,              \* work_count
          outcome            \* "running", "planned" or "refused" (None is returned)

vars == <<nodes, endpoints, pending, expressions, active, work, outcome>>

Entry == 1

\* collect() finds a jump at the entry, and every outcome of a jump it keeps is
\* collected too, as another jump or as an endpoint.
ASSUME PlansAssumption ==
  \A plan \in Plans :
    /\ IsFiniteSet(DOMAIN plan.nodes)
    /\ Entry \in DOMAIN plan.nodes
    /\ \A n \in DOMAIN plan.nodes :
         {plan.nodes[n].true, plan.nodes[n].false} \subseteq DOMAIN plan.nodes \union plan.endpoints

TrueEndpoint == CHOOSE e \in endpoints : \A other \in endpoints : e <= other
-----------------------------------------------------------------------------
\* Defect: room for one pop of every node and endpoint only.
WorkLimitTight == 2 + Cardinality(DOMAIN nodes)

\* work_limit.
WorkLimit == Max({64, 6 * Cardinality(DOMAIN nodes) + 16})

Init == /\ \E plan \in Plans : nodes = plan.nodes /\ endpoints = plan.endpoints
        /\ pending = <<<<Entry, FALSE>>>>
        /\ expressions = << >>
        /\ active = {}
        /\ work = 0
        /\ outcome = "running"

Offset   == Last(pending)[1]
Expanded == Last(pending)[2]

\* `while pending`, the count and the pop that begin every iteration.
Pop == /\ outcome = "running" /\ pending # << >> /\ work < WorkLimit
       /\ work' = work + 1
       /\ UNCHANGED <<nodes, endpoints>>

Skip == /\ Pop /\ Offset \in DOMAIN expressions
        /\ pending' = Front(pending)
        /\ UNCHANGED <<expressions, active, outcome>>

\* expressions[offset] = expression.
Recover(expression) ==
  expressions' = [n \in DOMAIN expressions \union {Offset} |->
                    IF n = Offset THEN expression ELSE expressions[n]]

Endpoint == /\ Pop /\ Offset \notin DOMAIN expressions \union DOMAIN nodes
            /\ Recover(Constant(Offset = TrueEndpoint))
            /\ pending' = Front(pending)
            /\ UNCHANGED <<active, outcome>>

\* The top of the stack is a decision without an expression yet.
At(expanded) == Offset \in DOMAIN nodes \ DOMAIN expressions /\ Expanded = expanded

Expand == /\ Pop /\ At(FALSE) /\ Offset \notin active
          /\ active' = active \union {Offset}
          /\ pending' = Front(pending) \o <<<<Offset, TRUE>>, <<nodes[Offset].false, FALSE>>,
                                            <<nodes[Offset].true, FALSE>>>>
          /\ UNCHANGED <<expressions, outcome>>

\* The offsets a jump leads to.
Sides(n) == {nodes[n].true, nodes[n].false}

Resolved == Sides(Offset) \subseteq DOMAIN expressions

\* _combine_decision for the top of the stack.
Combined(node) == Combine(node.predicate, expressions[node.true], expressions[node.false])

\* Defect: a resolved node stays active.
ResolveActive ==
  /\ Pop /\ At(TRUE) /\ Resolved
  /\ Recover(Combined(nodes[Offset]))
  /\ pending' = Front(pending)
  /\ UNCHANGED <<active, outcome>>

Resolve == /\ Pop /\ At(TRUE) /\ Resolved
           /\ Recover(Combined(nodes[Offset]))
           /\ active' = active \ {Offset}
           /\ pending' = Front(pending)
           /\ UNCHANGED outcome

\* The loop is over: the plan's expression is that of the entry.
Plan == /\ outcome = "running" /\ pending = << >>
        /\ outcome' = "planned"
        /\ UNCHANGED <<nodes, endpoints, pending, expressions, active, work>>

\* The three ValueErrors: the work limit, a dependency that was not resolved and a
\* cycle in the decision graph.
Raises == \/ work = WorkLimit
          \/ At(TRUE) /\ ~Resolved
          \/ At(FALSE) /\ Offset \in active

\* `except ValueError: return None`.
Refuse == /\ outcome = "running" /\ pending # << >> /\ Raises
          /\ outcome' = "refused"
          /\ UNCHANGED <<nodes, endpoints, pending, expressions, active, work>>

Returned == outcome # "running" /\ UNCHANGED vars

Next == Skip \/ Endpoint \/ Expand \/ Resolve \/ Refuse \/ Plan \/ Returned

Spec == Init /\ [][Next]_vars
-----------------------------------------------------------------------------
(* The reference.                                                          *)

\* What some jumps lead to among the jumps is among them.
Closed(S) == \A n \in S : Sides(n) \intersect DOMAIN nodes \subseteq S

\* The jumps that can be reached from the entry.
Reached == {n \in DOMAIN nodes :
              \A S \in SUBSET DOMAIN nodes : Entry \in S /\ Closed(S) => n \in S}

\* Some of them lead from one to another for ever.
Cycles(S) == S # {} /\ \A n \in S : Sides(n) \intersect S # {}
Cyclic    == \E S \in SUBSET Reached : Cycles(S)
-----------------------------------------------------------------------------
\* Types: and a decision is active exactly while it waits for its outcomes.
TypeOK == /\ DOMAIN expressions \subseteq DOMAIN nodes \union endpoints
          /\ active = {n \in DOMAIN nodes : <<n, TRUE>> \in ToSet(pending)}
          /\ active \intersect DOMAIN expressions = {}
          /\ work \in 0 .. WorkLimit
          /\ outcome \in {"running", "planned", "refused"}

\* None is returned for jumps in a cycle and for nothing else: the work limit
\* never cuts a condition off, and no part is asked for before it is there.
RefusesExactlyCycles == outcome # "running" => (outcome = "refused" <=> Cyclic)
=============================================================================
