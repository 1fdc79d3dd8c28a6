-------------------------- MODULE RegionConditions --------------------------
(***************************************************************************)
(* _bounded_condition_plan and _if_expression_condition_plan of            *)
(* controlflow/structures.py: the conditional jumps that belong to one     *)
(* source condition are collected, and joined into its expression.  Which  *)
(* jumps belong is a matter of lines, columns and predecessors: too few    *)
(* and a condition is torn into nested statements, too many and a nested   *)
(* statement is swallowed.                                                 *)
(*                                                                         *)
(* A graph is [nodes, endpoints]: a node is the [jump, predicate, true,    *)
(* false] of the decision that starts at its offset.  What the code        *)
(* returns None for is an empty set here, any other result its only        *)
(* element.  The work limits of the searches are left out: they end at     *)
(* the decisions there are.                                                *)
(***************************************************************************)
EXTENDS RegionCode

Node(jump, predicate) ==
  [jump |-> jump, predicate |-> predicate,
   true |-> Outcomes(jump).true, false |-> Outcomes(jump).false]

\* The decision that starts at an offset inside the region.
Decisions(offset, end, stop) ==
  LET jump == ConditionJump(offset, end, stop)
  IN  IF jump = None THEN {} ELSE {Node(jump, p) : p \in Predicates(offset, jump)}

TheOnly(set) == CHOOSE e \in set : TRUE

\* A result, or else another.
Preferred(first, second) == IF first # {} THEN first ELSE second

\* The only element of what `step` makes of a value, as long as it makes one, which
\* is for no more times than there are tokens.
Repeated(step(_), from) ==
  FoldLeft(LAMBDA now, t : IF now.ended THEN now
                           ELSE LET next == step(now.value)
                                IN  IF next = {} THEN [now EXCEPT !.ended = TRUE]
                                    ELSE [now EXCEPT !.value = TheOnly(next)],
           [value |-> from, ended |-> FALSE], tokens).value

\* The expression of the decisions from an offset on; none if they form a cycle.
Expressions(nodes, trueEndpoint, start) ==
  LET of[offset \in Nat, active \in SUBSET Nat] ==
        IF offset \notin DOMAIN nodes THEN {Constant(offset = trueEndpoint)}
        ELSE IF offset \in active THEN {}
        ELSE {Combine(nodes[offset].predicate, true, false) :
                true  \in of[nodes[offset].true, active \union {offset}],
                false \in of[nodes[offset].false, active \union {offset}]}
  IN  of[start, {}]
-----------------------------------------------------------------------------
(* _if_expression_condition_plan: `if left if test else right`.            *)

\* The endpoints of an else part that starts at `alternate` after a then part that
\* jumps to `true`: that one, and the other outcome of the last jump before it.
IfExpressionEnds(alternate, true, end) ==
  LET last == Max({None} \union {i \in alternate .. true - 1 : IsTest(i)})
      ways == {ResolveConditionEndpoint(Outcomes(last).true),
               ResolveConditionEndpoint(Outcomes(last).false)}
  IN  IF alternate < true /\ true <= end /\ last # None /\ true \in ways /\ ways # {true}
      THEN {[true |-> true, false |-> TheOnly(ways \ {true})]}
      ELSE {}

IfExpressionEndpoints(first, end) ==
  LET alternate == Outcomes(first).false
      bridge    == LastForwardJump(first + 1, alternate, alternate + 1, None)
  IN  IF first # None /\ first + 1 < alternate /\ alternate < end /\ bridge # None
      THEN IfExpressionEnds(alternate, ResolveConditionEndpoint(Target(bridge)), end)
      ELSE {}

\* The decisions from an offset on, through trampolines; none if one of the offsets
\* before the endpoints has no decision.
Resolved(entry, ends, end) ==
  LET found(o) == IF o \in Nat \ ends /\ o < end THEN Decisions(o, end, {}) ELSE {}
      to(n)    == [n EXCEPT !.true = ResolveConditionEndpoint(@),
                            !.false = ResolveConditionEndpoint(@)]
      grown[S \in SUBSET Nat] ==
        LET next == S \union UNION {UNION {{to(n).true, to(n).false} : n \in found(o)} : o \in S}
        IN  IF next = S THEN S ELSE grown[next]
      nodes(decisions) == IF \E o \in decisions : found(o) = {} THEN {}
                          ELSE {[o \in decisions |-> to(TheOnly(found(o)))]}
  IN  nodes(grown[{entry}] \ ends)

Plan(start, true, false, expression, pops) ==
  [entry |-> start, true |-> true, false |-> false, expression |-> expression, pops |-> pops]

IfExpressionConditionPlan(start, end) ==
  LET entry == ResolveConditionEndpoint(start)
  IN  UNION {{Plan(start, e.true, e.false, x, FALSE) :
                x \in UNION {Expressions(nodes, e.true, entry) :
                               nodes \in Resolved(entry, {e.true, e.false}, end)}} :
             e \in IfExpressionEndpoints(ConditionJump(start, end, {}), end)}
-----------------------------------------------------------------------------
(* _bounded_condition_plan.                                                *)

\* _coalesce_condition_endpoints: endpoints that do the same become one.
Coalesce(graph) ==
  LET one(alike)  == LET leads == {ResolveConditionEndpoint(x) : x \in alike}
                     IN  IF Cardinality(alike) > 1 /\ Cardinality(leads) = 1
                         THEN TheOnly(leads) ELSE Min(alike)
      renamed(canonical) ==
        LET to(offset) == IF offset \in graph.endpoints THEN canonical[offset] ELSE offset
        IN  [nodes     |-> [n \in DOMAIN graph.nodes |->
                              [graph.nodes[n] EXCEPT !.true = to(@), !.false = to(@)]],
             endpoints |-> Range(canonical)]
  IN  IF Cardinality(graph.endpoints) <= 2 THEN graph
      ELSE renamed([e \in graph.endpoints |->
                      one({x \in graph.endpoints : Signature(x) = Signature(e)})])

\* A successor that can only be reached from the decision and stands on the line of
\* the condition, or (`multiline`) comes out where its sibling does.
Belongs(successor, sibling, end, stop, line, multiline) ==
  /\ successor < end /\ Cardinality(Incoming(cfg.block[successor])) = 1
  /\ \E jump \in {ConditionJump(successor, end, stop)} \ {None} :
       \/ Starts(successor) \in {0, line} \/ Starts(jump) = line
       \/ multiline /\ sibling \in {Outcomes(jump).true, Outcomes(jump).false}

\* The graph of the offsets visited, of which `at` gives the decisions there are.
GraphFrom(visited, at(_), joins(_, _)) ==
  LET nodes == UNION {at(o) : o \in visited}
  IN  [nodes     |-> [o \in {o \in visited : at(o) # {}} |-> TheOnly(at(o))],
       endpoints |-> {o \in visited : at(o) = {}}
                       \union {n.true : n \in {n \in nodes : ~joins(n.true, n.false)}}
                       \union {n.false : n \in {n \in nodes : ~joins(n.false, n.true)}}]

\* The local function collect: from `start` through the successors that belong to the
\* condition.  `entry` holds the decision at `start`.
Collect(start, end, stop, entry, line, multiline) ==
  LET at(offset) == IF offset = start THEN entry ELSE Decisions(offset, end, stop)
      joins(successor, sibling) == Belongs(successor, sibling, end, stop, line, multiline)
      grown[S \in SUBSET Nat] ==
        LET nodes == UNION {at(o) : o \in S}
            next  == S \union UNION {{w[1] : w \in {w \in {<<n.true, n.false>>, <<n.false, n.true>>} :
                                                       joins(w[1], w[2])}} : n \in nodes}
        IN  IF next = S THEN S ELSE grown[next]
  IN  GraphFrom(grown[{start}], at, joins)

\* The blocks a graph's decisions begin and end in.
OwnedBlocks(nodes) ==
  {cfg.block[o] : o \in DOMAIN nodes} \union {cfg.block[nodes[o].jump] : o \in DOMAIN nodes}

\* The decisions below an endpoint and where they end, if only the condition
\* leads to it.
Below(graph, candidate, end, stop) ==
  LET inner(o) == IF /\ o \notin DOMAIN graph.nodes /\ (o = candidate \/ o \notin graph.endpoints)
                     /\ o < end /\ o \notin stop
                  THEN Decisions(o, end, stop) ELSE {}
      grown[S \in SUBSET Nat] ==
        LET next == S \union UNION {UNION {{n.true, n.false} : n \in inner(o)} : o \in S}
        IN  IF next = S THEN S ELSE grown[next]
      found(visited, decisions) ==
        [at     |-> candidate,
         nodes  |-> [o \in decisions |-> TheOnly(inner(o))],
         leaves |-> (visited \ decisions) \ DOMAIN graph.nodes]
      from(visited) == found(visited, {o \in visited : inner(o) # {}})
      sources == Incoming(cfg.block[candidate])
  IN  IF candidate < end /\ sources # {} /\ sources \subseteq OwnedBlocks(graph.nodes)
      THEN from(grown[{candidate}])
      ELSE [at |-> candidate, nodes |-> << >>, leaves |-> {}]

\* The endpoints when the decisions below one of them are part of the condition.
EndpointsWith(graph, below) == (graph.endpoints \ {below.at}) \union below.leaves

\* What is below the endpoints that only lead to others.
Pure(graph, end, stop) ==
  {b \in {Below(graph, e, end, stop) : e \in graph.endpoints} :
     /\ b.nodes # << >> /\ b.leaves # {}
     /\ Cardinality(EndpointsWith(graph, b)) <= Cardinality(graph.endpoints)}

FirstOf(options) == {b \in options : \A other \in options : b.at <= other.at}

ReducedOnce(graph, end, stop) ==
  IF Cardinality(graph.endpoints) <= 2 THEN {}
  ELSE {[nodes |-> b.nodes @@ graph.nodes, endpoints |-> EndpointsWith(graph, b)] :
          b \in FirstOf(Pure(graph, end, stop))}

\* reduce_decision_endpoints: an endpoint whose decisions end in the other
\* endpoints becomes part of the condition, while there are more than two.
Reduce(graph, end, stop) == Repeated(LAMBDA g : ReducedOnce(g, end, stop), graph)

\* With the blocks that only jump on, when all that leads to them is in the set.
Bridged(blocks) ==
  LET bridged[S \in SUBSET cfg.leaders] ==
        LET bridges == {b \in cfg.leaders : /\ Op(cfg.end[b] - 1) = "jump"
                                            /\ Incoming(b) # {} /\ Incoming(b) \subseteq S}
        IN  IF bridges \subseteq S THEN S ELSE bridged[S \union bridges]
  IN  bridged[blocks]

\* path_to_shared_endpoint: decisions that lead from an offset to an endpoint of
\* the condition, each reached from decisions before it only.
PathToSharedEndpoint(start, shared, nodes, end, stop) ==
  LET jumps(active)  == {cfg.block[nodes[o].jump] : o \in active \intersect DOMAIN nodes}
      before(active) == Bridged({cfg.block[o] : o \in active} \union jumps(active))
      sources(offset) == Incoming(cfg.block[offset])
      paths[offset \in Nat, active \in SUBSET Nat] ==
        LET further(n, outcome) ==
              {(offset :> n) @@ path : path \in paths[outcome, active \union {offset}]}
        IN  IF offset = shared THEN {<< >>}
            ELSE IF \/ offset \in active \/ offset >= end \/ sources(offset) = {}
                    \/ ~(sources(offset) \subseteq before(active)) THEN {}
            ELSE UNION {Preferred(further(n, n.true), further(n, n.false)) :
                          n \in Decisions(offset, end, stop)}
  IN  paths[start, DOMAIN nodes]

Position(i) == [first |-> tokens[i].first, last |-> tokens[i].last, column |-> tokens[i].column]

\* Whether an endpoint may be another part of the condition, by where it stands in
\* the source: inside a statement the condition's jumps belong to, or below the
\* condition in the same column.
Continues(graph, start, branch, line, end, stop) ==
  LET jump    == ConditionJump(branch, end, stop)
      owned   == {Position(graph.nodes[o].jump) : o \in DOMAIN graph.nodes}
      here    == Position(branch)
      entry   == Position(start)
      sources == Cardinality(Incoming(cfg.block[branch]))
      samePosition == Position(jump) \in owned
      isOwned == \/ samePosition
                 \/ here.first # 0 /\ \E p \in owned : p.first # 0 /\ p.first <= here.first
                                                       /\ here.first <= here.last /\ here.last <= p.last
      sameColumn == /\ sources = 1 /\ here.first # 0 /\ entry.first # 0
                    /\ here.first > entry.first /\ here.column = entry.column
                    /\ \A e \in graph.endpoints \ {branch} : tokens[e].first > here.last
      laterStatement == /\ Starts(branch) # 0 /\ line # 0 /\ Starts(branch) # line
                        /\ here.column <= entry.column + 1
  IN  /\ jump # None
      /\ sources >= 2 \/ samePosition \/ sameColumn
      /\ laterStatement => samePosition \/ sameColumn
      /\ isOwned \/ sameColumn

GraphWith(nodes) ==
  [nodes     |-> nodes,
   endpoints |-> UNION {{nodes[o].true, nodes[o].false} : o \in DOMAIN nodes} \ DOMAIN nodes]

\* The graph with the decisions that lead from one of its endpoints to another.
ExtendedBy(graph, branch, shared, end, stop) ==
  {Reduce(Coalesce(GraphWith(path @@ graph.nodes)), end, stop) :
     path \in {p \in PathToSharedEndpoint(branch, shared, graph.nodes, end, stop) :
                 ~(DOMAIN p \subseteq DOMAIN graph.nodes)}}

Extensions(graph, start, line, end, stop) ==
  UNION {UNION {{[branch |-> b, shared |-> s, graph |-> h] : h \in ExtendedBy(graph, b, s, end, stop)} :
                 s \in graph.endpoints \ {b}} :
           b \in {e \in graph.endpoints : e < end /\ Continues(graph, start, e, line, end, stop)}}

\* The first of them that leaves two or three endpoints.
FirstExtension(found) ==
  LET before(j, k) == j.branch < k.branch \/ (j.branch = k.branch /\ j.shared <= k.shared)
      few == {j \in found : Cardinality(j.graph.endpoints) \in 2 .. 3}
  IN  {j.graph : j \in {j \in few : \A other \in few : before(j, other)}}

\* The iterative closure: a part at a time, as long as two or three endpoints are
\* left.
Extend(graph, start, line, end, stop) ==
  Repeated(LAMBDA g : FirstExtension(Extensions(g, start, line, end, stop)), graph)

ExtendPair(graph, start, line, end, stop) ==
  IF Cardinality(graph.endpoints) # 2 THEN graph ELSE Extend(graph, start, line, end, stop)

Unless(graph, other) == IF Cardinality(graph.endpoints) = 2 THEN graph ELSE other

\* Over several lines first, then on the line of the condition.
CollectReduced(start, end, stop, entry, line) ==
  Unless(Reduce(Coalesce(Collect(start, end, stop, entry, line, TRUE)), end, stop),
         Reduce(Coalesce(Collect(start, end, stop, entry, line, FALSE)), end, stop))

\* The plan of a graph with two endpoints.
PlanOf(graph, start, pops) ==
  IF Cardinality(graph.endpoints) # 2 THEN {}
  ELSE {Plan(start, Min(graph.endpoints), Max(graph.endpoints), x, pops) :
          x \in Expressions(graph.nodes, Min(graph.endpoints), start)}

\* The plan of the decisions from the jump on.
DecisionPlan(start, end, stop, stack, jump) ==
  LET stacked == jump = start /\ stack # << >>
      entry   == IF stacked THEN {Node(jump, Last(stack))}
                 ELSE {Node(jump, p) : p \in Predicates(start, jump)}
      starts  == {i \in start .. jump : Starts(i) # 0}
      line    == IF starts # {} THEN Starts(Min(starts)) ELSE LineBefore(start)
  IN  IF entry = {} THEN {}
      ELSE PlanOf(ExtendPair(CollectReduced(start, end, stop, entry, line),
                             start, line, end, stop), start, stacked)

\* _bounded_condition_plan; a predicate that waits on the stack is that of a jump
\* that stands at the start.
BoundedConditionPlan(start, end, stop, stack) ==
  Preferred(IfExpressionConditionPlan(start, end),
            UNION {DecisionPlan(start, end, stop, stack, jump) :
                     jump \in {ConditionJump(start, end, stop)} \ {None}})
=============================================================================
