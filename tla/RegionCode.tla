----------------------------- MODULE RegionCode -----------------------------
(***************************************************************************)
(* What the region parser of controlflow/structures.py asks of the code:   *)
(* where jumps lead, which blocks an interval reaches, where a condition   *)
(* begins, which jump back is the end of a loop.                           *)
(*                                                                         *)
(* Tokens are numbered from 1 and their numbers serve as offsets; an end   *)
(* is the number after the last token.  0 stands for None.                 *)
(***************************************************************************)
EXTENDS ConditionAlgebra, Bytecode

VARIABLES tokens,            \* the instructions, as StructuredSource has them
          cfg                \* [leaders, block, end, edges] of their graph

None == 0
Past == Len(tokens) + 1      \* len(self.tokens)

Op(i)     == tokens[i].op
Target(i) == tokens[i].target
Starts(i) == tokens[i].starts

\* The instructions that have a target.
Jumps == {"jump", "if false", "if true", "for"}

IsTest(i)   == Op(i) \in {"if false", "if true"}
Inert(i)    == Op(i) \in {"nop", "resume"}
Forward(i)  == Op(i) = "jump" /\ Target(i) > i
Backward(i) == (Op(i) = "jump" \/ IsTest(i)) /\ Target(i) <= i
-----------------------------------------------------------------------------
(* The control flow graph: the blocks of BuildCFG over the same code.      *)
Graph == INSTANCE BuildCFG WITH
           Programs <- {}, program <- tokens, outcome <- "built",
           leaders <- cfg.leaders, edges <- cfg.edges, pc <- 1, block <- 1

AsProgram(code) ==
  [offset  |-> [i \in DOMAIN code |-> i],
   kind    |-> [i \in DOMAIN code |->
                  CASE code[i].op \in {"if false", "if true", "for"} -> "branch"
                    [] code[i].op = "jump"                           -> "jump"
                    [] code[i].op = "return"                         -> "stop"
                    [] OTHER                                         -> "plain"],
   target  |-> [i \in DOMAIN code |-> code[i].target],
   regions |-> {}]

GraphOf(code) ==
  LET program == AsProgram(code)
      leaders == Graph!Leaders(program)
      end     == [l \in leaders |-> Min({k \in leaders \union {Len(code) + 1} : k > l})]
  IN  [leaders |-> leaders,
       block   |-> [i \in DOMAIN code |-> Max({l \in leaders : l <= i})],
       end     |-> end,
       edges   |-> UNION {LET last == end[b] - 1
                          IN  {<<b, n>> : n \in {n \in leaders : \/ FallsTo(program, last, n)
                                                                  \/ JumpsTo(program, last, n)}} :
                          b \in leaders}]

Incoming(b) == {e[1] : e \in {e \in cfg.edges : e[2] = b}}
Outgoing(b) == {e[2] : e \in {e \in cfg.edges : e[1] = b}}

\* _normal_region_blocks: the blocks of an interval its start reaches inside it.
NormalRegionBlocks(start, end) ==
  LET interval == {b \in cfg.leaders : cfg.end[b] > start /\ b < end}
      closed[S \in SUBSET cfg.leaders] ==
        LET next == S \union (UNION {Outgoing(b) : b \in S} \intersect interval)
        IN  IF next = S THEN S ELSE closed[next]
  IN  IF start < end THEN closed[{cfg.block[start]}] ELSE {}

\* _normal_fallthrough_reaches; an edge of a conditional jump or of FOR_ITER is none.
NormalFallthroughReaches(start, end, target) ==
  \E b \in NormalRegionBlocks(start, end) :
    cfg.end[b] = cfg.block[target] /\ Op(cfg.end[b] - 1) \notin {"if false", "if true", "for", "jump", "return"}
-----------------------------------------------------------------------------
(* Conditions and jumps.                                                   *)

\* _next_semantic_index.
NextSemanticIndex(start, end) == Min({end} \union {i \in start .. end - 1 : ~Inert(i)})

\* _condition_jump: the conditional jump that ends the expression at start.
ConditionJump(start, end, stop) ==
  LET enders == {i \in start .. end - 1 : Op(i) \notin {"load", "nop", "resume"}}
      jump   == Min(enders)
  IN  IF enders # {} /\ IsTest(jump) /\ stop \intersect (start + 1 .. jump) = {}
      THEN jump ELSE None

\* _predicate: one name and nothing else, or a Python311ParseError.
Predicates(start, jump) ==
  {Load(tokens[i].name) : i \in {k \in start .. jump - 1 :
     Op(k) = "load" /\ \A m \in (start .. jump - 1) \ {k} : Inert(m)}}

\* _jump_outcomes.
Outcomes(jump) ==
  IF Op(jump) = "if false" THEN [true |-> jump + 1, false |-> Target(jump)]
                           ELSE [true |-> Target(jump), false |-> jump + 1]

\* Where the jumps forward of an interval go, if to `least` or further.
ForwardTargets(start, end, least) ==
  {Target(i) : i \in {i \in start .. end - 1 : Forward(i) /\ Target(i) >= least}}

\* _last_forward_jump.
LastForwardJump(start, end, minimum, excluded) ==
  Max({None} \union {i \in start .. end - 1 :
                       Forward(i) /\ Target(i) >= minimum /\ Target(i) # excluded})

\* _resolve_condition_endpoint: through forward jumps to where they lead.
ResolveConditionEndpoint(offset) ==
  LET leads[o \in Nat] ==
        LET i == NextSemanticIndex(o, Past)
        IN  IF i = Past THEN o ELSE IF Forward(i) THEN leads[Target(i)] ELSE i
  IN  leads[offset]

\* Through jumps in either direction; None when they go round in a circle.
JumpsLead(start) ==
  LET leads[i \in Nat, seen \in SUBSET Nat] ==
        IF i = Past \/ Op(i) # "jump" THEN i
        ELSE IF i \in seen THEN None
        ELSE leads[NextSemanticIndex(Target(i), Past), seen \union {i}]
  IN  leads[start, {}]

\* _condition_endpoint_signature: what an endpoint does, when it has no effect but
\* to jump or to return; otherwise an endpoint is like no other.
Signature(offset) ==
  LET i == NextSemanticIndex(offset, Past)
  IN  IF i # Past /\ Op(i) = "return" THEN <<"return", None>>
      ELSE IF i # Past /\ Op(i) = "jump" /\ JumpsLead(i) # None
      THEN <<"jump", JumpsLead(i)>>
      ELSE <<"own", offset>>

\* The line of the last token before i that starts one.
LineBefore(i) ==
  LET last == Max({None} \union {k \in 1 .. i - 1 : Starts(k) # 0})
  IN  IF last = None THEN 0 ELSE Starts(last)
-----------------------------------------------------------------------------
(* Loops.                                                                  *)

\* _latch_expression_start: where the condition that ends in `jump` begins.
LatchExpressionStart(start, jump) ==
  LET header   == LineBefore(start)
      back     == {i \in start .. jump - 1 :
                     /\ Starts(i) # 0 /\ Starts(i) <= header
                     /\ \E k \in start .. i - 1 : Starts(k) > header}
      ended    == {i \in start .. jump - 1 :
                     \/ Op(i) \in {"simple", "return", "iter", "for", "store", "pop"}
                     \/ Op(i) = "jump" /\ (Target(i) <= start \/ Target(i) > jump)}
      from     == Max({start - 1} \union ended) + 1
      slices   == {i \in from .. jump - 1 : Predicates(i, jump) # {}}
      line     == Max({None} \union {i \in start .. jump - 1 : Starts(i) # 0})
  IN  IF header # 0 /\ back # {} THEN Min(back)
      ELSE IF ended # {} /\ from < jump THEN from
      ELSE IF slices # {} THEN Min(slices)
      ELSE IF line # None /\ \E i \in line .. jump - 1 : IsTest(i) THEN line
      ELSE jump

\* A token that is work, for which a jump back before it is not the loop's end.
Works(i) == ~Inert(i) /\ ~Forward(i) /\ Op(i) # "pop"

\* Defect: the last jump back is the end of the loop, whatever comes after it.
LastBackJump(candidates, start, end) == Max({None} \union candidates)

\* _trailing_loop_back_jump.
TrailingLoopBackJump(candidates, start, end) ==
  LET reachable == NormalRegionBlocks(start, end)
      trails(c) == IF cfg.block[c] \in reachable
                   THEN \A b \in reachable : b > c => \A i \in b .. cfg.end[b] - 1 : ~Works(i)
                   ELSE \A i \in c + 1 .. end - 1 : ~Works(i)
  IN  Max({None} \union {c \in candidates : reachable # {} /\ trails(c)})
=============================================================================
