------------------------- MODULE FlowAnalysisProofs -------------------------
(***************************************************************************)
(* The fixpoint iteration and the search for one loop are proved right by  *)
(* themselves, the reducibility check in ReducibilityProofs.  All of that  *)
(* holds inside analyze_control_flow as well: each stage starts them in    *)
(* one of their initial states, and while a stage lasts only its own       *)
(* variables change.  The back edges are where the stages meet: they are   *)
(* read from the sets the first fixpoint has left, and the search for a    *)
(* loop needs them to be those of the definition.                          *)
(***************************************************************************)
EXTENDS FlowAnalysis, TLAPS, FiniteSetTheorems

K == INSTANCE ReducibilityProofs
-----------------------------------------------------------------------------
(***************************************************************************)
(* The round-robin iteration computes the dominators (post-dominators) of  *)
(* every graph, for any number of blocks.                                  *)
(*                                                                         *)
(* One half is an invariant of the descent: a true dominator of a node is  *)
(* a true dominator of all that feeds the node, so the intersection keeps  *)
(* it.  The other half holds at the fixed point: were d in the set of n    *)
(* without dominating n, the nodes whose sets lack d would be a closed set *)
(* with the roots, and n is not in it.  The fixed point itself is reached  *)
(* when a whole pass changed nothing (VisitedAreStable).                   *)
(***************************************************************************)
\* What Init fixes about the graph and no step changes.
FixpointShape == /\ reachable = Fixpoint!ReachableBlocks(edges)
                 /\ roots = Fixpoint!Roots(edges, reachable, reverse)
                 /\ \A r \in roots : result[r] = {r}

FixpointInv == /\ Fixpoint!TypeOK /\ FixpointShape
               /\ Fixpoint!NoDominatorLost /\ Fixpoint!VisitedAreStable

\* The reachable blocks are closed and have the entry.
LEMMA NodesAreClosed ==
  ASSUME NEW E \in SUBSET (Fixpoint!Block \X Fixpoint!Block)
  PROVE  /\ Fixpoint!Entry \in Fixpoint!ReachableBlocks(E)
         /\ Fixpoint!Closed(E, Fixpoint!ReachableBlocks(E))
         /\ Fixpoint!ReachableBlocks(E) \subseteq Fixpoint!Block
BY BlockCountAssumption
   DEF Fixpoint!ReachableBlocks, Fixpoint!Closed, Fixpoint!Block, Fixpoint!Entry

\* Every node that is not a root has something to intersect over.
LEMMA FeedsNonEmpty ==
  ASSUME Fixpoint!TypeOK, FixpointShape, NEW n \in reachable \ roots
  PROVE  Fixpoint!Feeds(n) # {}
<1>1. CASE reverse
  BY <1>1 DEF FixpointShape, Fixpoint!Roots, Fixpoint!Exits, Fixpoint!Feeds
<1>2. CASE ~reverse
  <2> SUFFICES ASSUME Fixpoint!Feeds(n) = {} PROVE FALSE
    OBVIOUS
  <2> DEFINE S == reachable \ {n}
  <2>1. n # Fixpoint!Entry /\ reachable = Fixpoint!ReachableBlocks(edges)
    BY <1>2 DEF FixpointShape, Fixpoint!Roots
  <2>2. /\ Fixpoint!Entry \in reachable /\ Fixpoint!Closed(edges, reachable)
        /\ reachable \subseteq Fixpoint!Block
    BY <2>1, NodesAreClosed DEF Fixpoint!TypeOK
  <2>3. Fixpoint!Closed(edges, S)
    <3> SUFFICES ASSUME NEW e \in edges, e[1] \in S PROVE e[2] \in S
      BY DEF Fixpoint!Closed
    <3>1. e[2] \in reachable
      BY <2>2 DEF Fixpoint!Closed
    <3>2. e = <<e[1], e[2]>>
      BY DEF Fixpoint!TypeOK
    <3>3. e[2] # n
      BY <1>2, <2>2, <3>2 DEF Fixpoint!Feeds, Fixpoint!Predecessors
    <3> QED
      BY <3>1, <3>3
  <2>4. Fixpoint!Entry \in S /\ S \in SUBSET Fixpoint!Block
    BY <2>1, <2>2
  <2>5. n \in S
    BY <2>1, <2>3, <2>4 DEF Fixpoint!ReachableBlocks
  <2> QED
    BY <2>5
<1> QED
  BY <1>1, <1>2

\* What dominates a node also dominates each node that feeds it.
LEMMA DominatorOfFeeds ==
  ASSUME NEW n \in reachable \ roots, NEW d \in reachable, d # n, Fixpoint!Dominates(d, n),
         NEW parent \in Fixpoint!Feeds(n)
  PROVE  parent \in reachable /\ Fixpoint!Dominates(d, parent)
<1>1. PICK S \in SUBSET reachable : Fixpoint!Separates(S, d, n)
  BY DEF Fixpoint!Dominates
<1>2. parent \in reachable
  BY DEF Fixpoint!Feeds
<1>3. parent \notin S
  BY <1>1 DEF Fixpoint!Separates
<1>4. Fixpoint!Separates(S, d, parent)
  BY <1>1, <1>3 DEF Fixpoint!Separates
<1> QED
  BY <1>2, <1>4 DEF Fixpoint!Dominates

\* The full sets of the start contain all dominators.
LEMMA FixpointInitInv == Fixpoint!Init => FixpointInv
<1> SUFFICES ASSUME Fixpoint!Init PROVE FixpointInv
  OBVIOUS
<1>1. reachable \subseteq Fixpoint!Block /\ Fixpoint!Entry \in reachable
  BY NodesAreClosed, GraphsAssumption
     DEF Fixpoint!Init, Fixpoint!Roots, Fixpoint!FromAbove, Block, Fixpoint!Block
<1>2. roots \subseteq reachable
  BY <1>1 DEF Fixpoint!Init, Fixpoint!Roots, Fixpoint!FromAbove, Fixpoint!Exits
<1>3. Fixpoint!TypeOK
  BY <1>1, <1>2, GraphsAssumption
     DEF Fixpoint!Init, Fixpoint!Roots, Fixpoint!FromAbove, Fixpoint!TypeOK, Block, Fixpoint!Block
<1>4. FixpointShape
  BY <1>2 DEF Fixpoint!Init, Fixpoint!Roots, Fixpoint!FromAbove, FixpointShape
<1>5. Fixpoint!NoDominatorLost
  <2> SUFFICES ASSUME NEW n \in reachable, NEW d \in reachable, Fixpoint!Dominates(d, n)
               PROVE  d \in result[n]
    BY DEF Fixpoint!NoDominatorLost
  <2>1. CASE n \notin roots
    BY <2>1 DEF Fixpoint!Init, Fixpoint!Roots, Fixpoint!FromAbove
  <2>2. CASE n \in roots
    <3>1. d = n
      BY <2>2 DEF Fixpoint!Dominates, Fixpoint!Separates
    <3> QED
      BY <2>2, <3>1 DEF Fixpoint!Init, Fixpoint!Roots, Fixpoint!FromAbove
  <2> QED
    BY <2>1, <2>2
<1>6. Fixpoint!VisitedAreStable
  BY DEF Fixpoint!Init, Fixpoint!Roots, Fixpoint!FromAbove, Fixpoint!VisitedAreStable
<1> QED
  BY <1>3, <1>4, <1>5, <1>6 DEF FixpointInv

\* An update is a set of nodes.
LEMMA UpdatedInNodes ==
  ASSUME NEW n \in reachable
  PROVE  Fixpoint!Updated(n) \in SUBSET reachable
BY DEF Fixpoint!Updated, Fixpoint!Shared

\* Domination depends on the graph only.
LEMMA SameDominators ==
  ASSUME UNCHANGED <<edges, reverse, reachable, roots>>
  PROVE  \A d, n : Fixpoint!Dominates(d, n)' <=> Fixpoint!Dominates(d, n)
BY DEF Fixpoint!Dominates, Fixpoint!Separates, Fixpoint!Feeds

\* Every visit and every new pass keep the invariant.
LEMMA FixpointNextInv == FixpointInv /\ [Fixpoint!Next]_(Fixpoint!vars) => FixpointInv'
<1> SUFFICES ASSUME FixpointInv, [Fixpoint!Next]_(Fixpoint!vars) PROVE FixpointInv'
  OBVIOUS
<1> USE DEF FixpointInv
<1>1. CASE Fixpoint!SkipRoot
  <2>1. /\ UNCHANGED <<edges, reverse, reachable, roots, result, changed>>
        /\ \E r \in roots : todo' = todo \ {r}
    BY <1>1 DEF Fixpoint!SkipRoot
  <2>2. Fixpoint!TypeOK' /\ FixpointShape'
    BY <2>1 DEF Fixpoint!TypeOK, FixpointShape
  <2>3. Fixpoint!NoDominatorLost'
    BY <2>1, SameDominators DEF Fixpoint!NoDominatorLost
  <2>4. Fixpoint!VisitedAreStable'
    BY <1>1 DEF Fixpoint!SkipRoot, Fixpoint!VisitedAreStable, Fixpoint!Updated,
                Fixpoint!Shared, Fixpoint!Feeds
  <2> QED
    BY <2>2, <2>3, <2>4
<1>2. CASE Fixpoint!Visit
  <2>1. PICK node \in reachable \ roots :
          /\ result' = [result EXCEPT ![node] = Fixpoint!Updated(node)]
          /\ changed' = (changed \/ Fixpoint!Updated(node) # result[node])
          /\ todo' = todo \ {node}
          /\ UNCHANGED <<edges, reverse, reachable, roots>>
    BY <1>2 DEF Fixpoint!Visit
  <2>2. Fixpoint!Updated(node) \in SUBSET reachable
    BY UpdatedInNodes
  <2>3. Fixpoint!TypeOK'
    <3>1. result' \in [reachable -> SUBSET reachable]
      BY <2>1, <2>2 DEF Fixpoint!TypeOK
    <3>2. changed' \in BOOLEAN
      BY <2>1 DEF Fixpoint!TypeOK
    <3> QED
      BY <2>1, <3>1, <3>2 DEF Fixpoint!TypeOK
  <2>4. FixpointShape'
    BY <2>1 DEF FixpointShape, Fixpoint!TypeOK
  <2>5. Fixpoint!NoDominatorLost'
    <3> SUFFICES ASSUME NEW n \in reachable, NEW d \in reachable, Fixpoint!Dominates(d, n)
                 PROVE  d \in result'[n]
      BY <2>1, SameDominators DEF Fixpoint!NoDominatorLost
    <3>1. CASE n # node
      BY <3>1, <2>1 DEF Fixpoint!NoDominatorLost, Fixpoint!TypeOK
    <3>2. CASE n = node /\ d = node
      BY <3>2, <2>1 DEF Fixpoint!Updated, Fixpoint!TypeOK
    <3>3. CASE n = node /\ d # node
      <4>1. Fixpoint!Feeds(node) # {}
        BY FeedsNonEmpty
      <4>2. \A parent \in Fixpoint!Feeds(node) : d \in result[parent]
        BY <3>3, DominatorOfFeeds DEF Fixpoint!NoDominatorLost
      <4>3. d \in Fixpoint!Updated(node)
        BY <4>1, <4>2 DEF Fixpoint!Updated, Fixpoint!Shared
      <4> QED
        BY <4>3, <3>3, <2>1 DEF Fixpoint!TypeOK
    <3> QED
      BY <3>1, <3>2, <3>3
  <2>6. Fixpoint!VisitedAreStable'
    <3> SUFFICES ASSUME ~changed'
                 PROVE  \A n \in reachable \ (roots \union todo') :
                          result'[n] = Fixpoint!Updated(n)'
      BY <2>1 DEF Fixpoint!VisitedAreStable
    <3>1. ~changed /\ Fixpoint!Updated(node) = result[node]
      BY <2>1
    <3>2. result' = result
      BY <2>1, <3>1 DEF Fixpoint!TypeOK
    <3>3. \A n \in reachable : Fixpoint!Updated(n)' = Fixpoint!Updated(n)
      BY <2>1, <3>2 DEF Fixpoint!Updated, Fixpoint!Shared, Fixpoint!Feeds
    <3> QED
      BY <2>1, <3>1, <3>2, <3>3 DEF Fixpoint!VisitedAreStable
  <2> QED
    BY <2>3, <2>4, <2>5, <2>6
<1>3. CASE Fixpoint!NextPass
  <2>1. Fixpoint!TypeOK'
    BY <1>3 DEF Fixpoint!NextPass, Fixpoint!TypeOK
  <2>2. FixpointShape'
    BY <1>3 DEF Fixpoint!NextPass, FixpointShape
  <2>3. Fixpoint!NoDominatorLost'
    BY <1>3, SameDominators DEF Fixpoint!NextPass, Fixpoint!NoDominatorLost
  <2>4. Fixpoint!VisitedAreStable'
    BY <1>3 DEF Fixpoint!NextPass, Fixpoint!VisitedAreStable
  <2> QED
    BY <2>1, <2>2, <2>3, <2>4
<1>4. CASE UNCHANGED Fixpoint!vars
  <2>1. Fixpoint!TypeOK' /\ FixpointShape'
    BY <1>4 DEF Fixpoint!vars, Fixpoint!TypeOK, FixpointShape
  <2>2. Fixpoint!NoDominatorLost'
    BY <1>4, SameDominators DEF Fixpoint!vars, Fixpoint!NoDominatorLost
  <2>3. Fixpoint!VisitedAreStable'
    BY <1>4 DEF Fixpoint!vars, Fixpoint!VisitedAreStable, Fixpoint!Updated,
                Fixpoint!Shared, Fixpoint!Feeds
  <2> QED
    BY <2>1, <2>2, <2>3
<1> QED
  BY <1>1, <1>2, <1>3, <1>4 DEF Fixpoint!Next

\* An analysis that is started in the middle of a behaviour starts well.
LEMMA FixpointStartedInv == Fixpoint!Init' => FixpointInv'
BY FixpointInitInv, PTL

\* The invariant of the iteration.
LEMMA FixpointInvHolds == Fixpoint!Spec => []FixpointInv
<1>1. Fixpoint!Init => FixpointInv
  BY FixpointInitInv
<1>2. FixpointInv /\ [Fixpoint!Next]_(Fixpoint!vars) => FixpointInv'
  BY FixpointNextInv
<1> QED
  BY <1>1, <1>2, PTL DEF Fixpoint!Spec

\* The iteration never loses a true dominator.
THEOREM DominatorsKept == Fixpoint!Spec => []Fixpoint!NoDominatorLost
<1>1. FixpointInv => Fixpoint!NoDominatorLost
  BY DEF FixpointInv
<1> QED
  BY <1>1, FixpointInvHolds, PTL

\* At a fixed point nothing but true dominators is left.
LEMMA FixedPointIsExact ==
  ASSUME FixpointInv, Fixpoint!Finished, NEW n \in reachable, NEW d \in result[n]
  PROVE  Fixpoint!Dominates(d, n)
<1> DEFINE S == {x \in reachable : d \notin result[x]}
<1> USE DEF FixpointInv
<1>1. d \in reachable
  BY DEF Fixpoint!TypeOK
<1>2. roots \ {d} \subseteq S
  BY DEF FixpointShape, Fixpoint!TypeOK
<1>3. n \notin S
  OBVIOUS
<1>4. ASSUME NEW y \in reachable \ {d}, NEW x \in Fixpoint!Feeds(y), x \in S
      PROVE  y \in S
  <2>1. CASE y \in roots
    BY <2>1, <1>2
  <2>2. CASE y \notin roots
    <3>1. result[y] = Fixpoint!Updated(y)
      BY <2>2 DEF Fixpoint!VisitedAreStable, Fixpoint!Finished
    <3>2. d \notin Fixpoint!Shared(y)
      BY <1>4 DEF Fixpoint!Shared
    <3> QED
      BY <3>1, <3>2 DEF Fixpoint!Updated
  <2> QED
    BY <2>1, <2>2
<1>5. Fixpoint!Separates(S, d, n)
  BY <1>2, <1>3, <1>4 DEF Fixpoint!Separates
<1> QED
  BY <1>5 DEF Fixpoint!Dominates

\* When a whole pass changed nothing, the nodes whose set lacks d are a cut for d.
LEMMA ExactWhenFinished == FixpointInv => Fixpoint!ComputesDominators
<1> SUFFICES ASSUME FixpointInv, Fixpoint!Finished, NEW n \in reachable
             PROVE  result[n] = {d \in reachable : Fixpoint!Dominates(d, n)}
  BY DEF Fixpoint!ComputesDominators
<1>1. \A d \in result[n] : Fixpoint!Dominates(d, n)
  BY FixedPointIsExact
<1>2. \A d \in reachable : Fixpoint!Dominates(d, n) => d \in result[n]
  BY DEF FixpointInv, Fixpoint!NoDominatorLost
<1>3. result[n] \subseteq reachable
  BY DEF FixpointInv, Fixpoint!TypeOK
<1> QED
  BY <1>1, <1>2, <1>3

\* When the loop ends, every set is exactly the set of (post-)dominators.
THEOREM FixpointCorrect == Fixpoint!Spec => []Fixpoint!ComputesDominators
BY FixpointInvHolds, ExactWhenFinished, PTL
-----------------------------------------------------------------------------
(***************************************************************************)
(* The search for one loop.  For every graph and every back edge,          *)
(* _natural_loop returns a single entry, strongly connected region, the    *)
(* least one that holds header and latch.  The heart of the argument is    *)
(* that a predecessor of a block the header dominates is dominated by the  *)
(* header too (unless the block is the header), so the search cannot       *)
(* escape upwards.                                                         *)
(***************************************************************************)

\* Every member but the header reaches the latch without leaving the loop.
Inside == {e \in edges : Loop!InLoop(e)}
ReachLatch == \A m \in members \ {header} : Loop!Reaches(Inside, m, latch)

LoopInv == Loop!TypeOK /\ Loop!LoopInvariant /\ ReachLatch

\* The reachable blocks are closed and have the entry.
LEMMA ReachableIsClosed ==
  ASSUME NEW E \in SUBSET (Loop!Block \X Loop!Block)
  PROVE  /\ Loop!Entry \in Loop!ReachableBlocks(E)
         /\ Loop!Closed(E, Loop!ReachableBlocks(E))
         /\ Loop!ReachableBlocks(E) \subseteq Loop!Block
BY BlockCountAssumption DEF Loop!ReachableBlocks, Loop!Closed, Loop!Block, Loop!Entry

\* What dominates a block other than itself dominates its predecessors.
LEMMA DominatesPredecessors ==
  ASSUME Loop!TypeOK, NEW d \in reachable, NEW n \in reachable, d # n, Loop!Dominates(d, n),
         NEW p \in Loop!Predecessors(edges, n) \intersect reachable
  PROVE  Loop!Dominates(d, p)
<1>1. PICK S \in SUBSET reachable : Loop!Separates(S, d, n)
  BY DEF Loop!Dominates
<1>2. p \notin S
  BY <1>1 DEF Loop!Separates, Loop!Predecessors
<1>3. Loop!Separates(S, d, p)
  BY <1>1, <1>2 DEF Loop!Separates
<1> QED
  BY <1>3 DEF Loop!Dominates

\* The header dominates itself and, the edge being a back edge, the latch.
LEMMA LoopInitInv == Loop!Init => LoopInv
<1> SUFFICES ASSUME Loop!Init PROVE LoopInv
  OBVIOUS
<1>1. edges \in SUBSET (Loop!Block \X Loop!Block)
  BY GraphsAssumption DEF Loop!Init, Loop!Pushed, Block, Loop!Block
<1>2. Loop!Closed(edges, reachable) /\ reachable \subseteq Loop!Block
  BY <1>1, ReachableIsClosed DEF Loop!Init, Loop!Pushed
<1>3. PICK e \in edges : /\ latch = e[1] /\ header = e[2]
                         /\ e[1] \in reachable /\ Loop!Dominates(e[2], e[1])
  BY DEF Loop!Init, Loop!Pushed, Loop!BackEdges
<1>4. latch \in reachable /\ header \in reachable
  BY <1>2, <1>3 DEF Loop!Closed
<1>5. Loop!TypeOK
  BY <1>1, <1>4 DEF Loop!Init, Loop!Pushed, Loop!TypeOK
<1>6. Loop!HeaderDominates
  BY <1>3 DEF Loop!Init, Loop!Pushed, Loop!HeaderDominates, Loop!Dominates
<1>7. Loop!BodyClosed /\ Loop!NothingExtra
  BY DEF Loop!Init, Loop!Pushed, Loop!BodyClosed, Loop!NothingExtra, Loop!LoopClosed
<1>8. ReachLatch
  BY DEF Loop!Init, Loop!Pushed, ReachLatch, Loop!Reaches
<1> QED
  BY <1>5, <1>6, <1>7, <1>8 DEF LoopInv, Loop!LoopInvariant

\* Popping a block and pushing its predecessors keeps the invariant.
LEMMA LoopNextInv == LoopInv /\ [Loop!Next]_(Loop!vars) => LoopInv'
<1> SUFFICES ASSUME LoopInv, [Loop!Next]_(Loop!vars) PROVE LoopInv'
  OBVIOUS
<1> USE DEF LoopInv, Loop!LoopInvariant
<1>1. CASE Loop!Expand
  <2> DEFINE Found(node) == (Loop!Predecessors(edges, node) \intersect reachable) \ members
  <2>1. PICK node \in unexpanded :
          /\ members' = members \union Found(node)
          /\ unexpanded' = (unexpanded \ {node}) \union Found(node)
          /\ UNCHANGED <<edges, reachable, latch, header>>
    BY <1>1 DEF Loop!Expand
  <2>2. node \in members /\ node # header /\ node \in reachable
    BY DEF Loop!TypeOK
  <2>3. Loop!TypeOK'
    <3>1. edges' \in SUBSET (Loop!Block \X Loop!Block) /\ reachable' = Loop!ReachableBlocks(edges')
      BY <2>1 DEF Loop!TypeOK
    <3>2. /\ members' \subseteq reachable'
          /\ {header', latch'} \subseteq members'
          /\ unexpanded' \subseteq members' \ {header'}
      BY <2>1 DEF Loop!TypeOK
    <3> QED
      BY <3>1, <3>2 DEF Loop!TypeOK
  <2>4. \A d, n : Loop!Dominates(d, n)' <=> Loop!Dominates(d, n)
    BY <2>1 DEF Loop!Dominates, Loop!Separates
  <2>5. Loop!HeaderDominates'
    <3>1. Loop!Dominates(header, node)
      BY <2>2 DEF Loop!HeaderDominates
    <3>2. \A p \in Found(node) : Loop!Dominates(header, p)
      BY <2>2, <3>1, DominatesPredecessors DEF Loop!TypeOK
    <3> QED
      BY <2>1, <2>4, <3>2 DEF Loop!HeaderDominates
  <2>6. Loop!BodyClosed'
    <3> SUFFICES ASSUME NEW m \in members' \ (unexpanded' \union {header})
                 PROVE  Loop!Predecessors(edges, m) \intersect reachable \subseteq members'
      BY <2>1 DEF Loop!BodyClosed
    <3>1. CASE m = node
      BY <2>1, <3>1
    <3>2. CASE m # node
      <4>1. m \in members \ (unexpanded \union {header})
        BY <2>1, <3>2
      <4> QED
        BY <2>1, <4>1 DEF Loop!BodyClosed
    <3> QED
      BY <3>1, <3>2
  <2>7. Loop!NothingExtra'
    <3> SUFFICES ASSUME NEW S \in SUBSET reachable, Loop!LoopClosed(S)
                 PROVE  members' \subseteq S
      BY <2>1 DEF Loop!NothingExtra, Loop!LoopClosed
    <3>1. members \subseteq S
      BY DEF Loop!NothingExtra
    <3>2. Found(node) \subseteq S
      BY <2>2, <3>1 DEF Loop!LoopClosed
    <3> QED
      BY <2>1, <3>1, <3>2
  <2>8. ReachLatch'
    <3>1. Inside \subseteq Inside'
      BY <2>1 DEF Inside, Loop!InLoop
    <3>2. ASSUME NEW m \in members \ {header} PROVE Loop!Reaches(Inside', m, latch)
      <4>1. Loop!Reaches(Inside, m, latch)
        BY <3>2 DEF ReachLatch
      <4> QED
        BY <3>1, <4>1 DEF Loop!Reaches, Loop!Closed
    <3>3. ASSUME NEW p \in Found(node) PROVE Loop!Reaches(Inside', p, latch)
      <4>1. <<p, node>> \in Inside'
        BY <2>1, <2>2, <3>3 DEF Inside, Loop!InLoop, Loop!Predecessors
      <4>2. Loop!Reaches(Inside', node, latch)
        BY <2>2, <3>2
      <4> QED
        BY <4>1, <4>2 DEF Loop!Reaches, Loop!Closed
    <3> QED
      BY <2>1, <3>2, <3>3 DEF ReachLatch
  <2> QED
    BY <2>3, <2>5, <2>6, <2>7, <2>8
<1>2. CASE UNCHANGED Loop!vars
  <2>1. Loop!TypeOK' /\ Loop!HeaderDominates'
    BY <1>2 DEF Loop!vars, Loop!TypeOK, Loop!HeaderDominates, Loop!Dominates, Loop!Separates
  <2>2. Loop!BodyClosed' /\ Loop!NothingExtra'
    BY <1>2 DEF Loop!vars, Loop!BodyClosed, Loop!NothingExtra, Loop!LoopClosed
  <2>3. ReachLatch'
    BY <1>2 DEF Loop!vars, ReachLatch, Inside, Loop!InLoop
  <2> QED
    BY <2>1, <2>2, <2>3
<1> QED
  BY <1>1, <1>2 DEF Loop!Next

\* A search that is started in the middle of a behaviour starts well.
LEMMA LoopStartedInv == Loop!Init' => LoopInv'
BY LoopInitInv, PTL

\* The invariant of gathering a loop.
LEMMA LoopInvHolds == Loop!Spec => []LoopInv
<1>1. Loop!Init => LoopInv
  BY LoopInitInv
<1>2. LoopInv /\ [Loop!Next]_(Loop!vars) => LoopInv'
  BY LoopNextInv
<1> QED
  BY <1>1, <1>2, PTL DEF Loop!Spec

\* The search stays below the header and follows every predecessor.
THEOREM LoopInvariantHolds == Loop!Spec => []Loop!LoopInvariant
<1>1. LoopInv => Loop!LoopInvariant
  BY DEF LoopInv
<1> QED
  BY <1>1, LoopInvHolds, PTL

\* An edge into the finished loop from outside it leads to the header.
LEMMA EntersAtHeader ==
  ASSUME LoopInv, Loop!Finished, NEW e \in edges, e[1] \in reachable \ members, e[2] \in members
  PROVE  e[2] = header
<1>1. e[1] \in Loop!Predecessors(edges, e[2])
  <2>1. e = <<e[1], e[2]>> /\ e[1] \in Loop!Block
    BY DEF LoopInv, Loop!TypeOK
  <2> QED
    BY <2>1 DEF Loop!Predecessors
<1> QED
  BY <1>1 DEF LoopInv, Loop!LoopInvariant, Loop!BodyClosed, Loop!Finished

\* So the header is the only entrance.
LEMMA SingleWhenFinished == LoopInv => Loop!SingleEntry
BY EntersAtHeader DEF Loop!SingleEntry

\* A finished loop is entered at its header only.
THEOREM LoopsHaveOneEntry == Loop!Spec => []Loop!SingleEntry
BY LoopInvHolds, SingleWhenFinished, PTL

\* Were a member out of the header's reach inside the loop, it could be cut off
\* from the entry of the whole graph.
LEMMA HeaderReachesMembers ==
  ASSUME LoopInv, Loop!Finished, NEW m \in members
  PROVE  Loop!Reaches(Inside, header, m)
<1> SUFFICES ASSUME NEW S \in SUBSET Loop!Block, header \in S, Loop!Closed(Inside, S), m \notin S
             PROVE  FALSE
  BY DEF Loop!Reaches
<1> DEFINE T == (reachable \ members) \union (S \intersect members)
<1>1. edges \in SUBSET (Loop!Block \X Loop!Block) /\ reachable = Loop!ReachableBlocks(edges)
  BY DEF LoopInv, Loop!TypeOK
<1>2. Loop!Entry \in reachable /\ Loop!Closed(edges, reachable) /\ reachable \subseteq Loop!Block
  BY <1>1, ReachableIsClosed
<1>3. Loop!Entry \in T
  <2>1. CASE Loop!Entry \in members
    <3>1. Loop!Dominates(header, Loop!Entry)
      BY <2>1 DEF LoopInv, Loop!LoopInvariant, Loop!HeaderDominates
    <3>2. header = Loop!Entry
      BY <3>1 DEF Loop!Dominates, Loop!Separates
    <3> QED
      BY <2>1, <3>2
  <2> QED
    BY <1>2, <2>1
<1>4. Loop!Closed(edges, T)
  <2> SUFFICES ASSUME NEW e \in edges, e[1] \in T PROVE e[2] \in T
    BY DEF Loop!Closed
  <2>1. e[1] \in reachable
    BY DEF LoopInv, Loop!TypeOK
  <2>2. e[2] \in reachable
    BY <1>2, <2>1 DEF Loop!Closed
  <2>3. CASE e[2] \in members /\ e[1] \notin members
    BY <2>1, <2>3, EntersAtHeader
  <2>4. CASE e[2] \in members /\ e[1] \in members
    <3>1. e \in Inside /\ e[1] \in S
      BY <2>4 DEF Inside, Loop!InLoop
    <3> QED
      BY <2>4, <3>1 DEF Loop!Closed
  <2> QED
    BY <2>2, <2>3, <2>4
<1>5. m \in T
  <2>1. m \in reachable /\ T \in SUBSET Loop!Block
    BY <1>2 DEF LoopInv, Loop!TypeOK
  <2> QED
    BY <1>1, <1>3, <1>4, <2>1 DEF Loop!ReachableBlocks
<1> QED
  BY <1>5

\* A block that broke the cycle would make the loop smaller than it is.
LEMMA CyclicWhenFinished == LoopInv => Loop!LoopIsCyclic
<1> SUFFICES ASSUME LoopInv, Loop!Finished, NEW m \in members
             PROVE  Loop!Reaches(Inside, header, m) /\ Loop!Reaches(Inside, m, latch)
  BY DEF Loop!LoopIsCyclic, Inside
<1>1. Loop!Reaches(Inside, header, m)
  BY HeaderReachesMembers
<1>2. latch \in members
  BY DEF LoopInv, Loop!TypeOK
<1>3. CASE m = header
  BY <1>2, <1>3, HeaderReachesMembers
<1>4. CASE m # header
  BY <1>1, <1>4 DEF LoopInv, ReachLatch
<1> QED
  BY <1>1, <1>3, <1>4

\* A finished loop is strongly connected through its own blocks.
THEOREM LoopsAreCyclic == Loop!Spec => []Loop!LoopIsCyclic
BY LoopInvHolds, CyclicWhenFinished, PTL
-----------------------------------------------------------------------------
(* The whole analysis.                                                     *)

GraphFixed == edges \in Graphs /\ reachable = ReachableBlocks(edges)

LoopsNotStarted ==
  latch = Entry /\ header = Entry /\ members = {Entry} /\ unexpanded = {}

\* The first fixpoint has left the dominators of the definition.
DominatorsKnown == \A n \in reachable : dominators[n] = {d \in reachable : Loop!Dominates(d, n)}

\* So are the candidates taken from them.
ImmediateKnown ==
  DominatorsKnown /\ immediate = [node \in reachable |-> Immediate(dominators, node)]

\* The second fixpoint stays where it ended, and so do its candidates.
PostKnown == /\ reverse /\ FixpointInv /\ Fixpoint!Finished
             /\ immediatePost = [node \in reachable |-> Immediate(result, node)]

\* The inductive invariant, stage by stage.
Inv == /\ GraphFixed
       /\ stage \in {"reducible", "dominators", "postdominators", "loops", "done", "rejected"}
       /\ K!Inv
       /\ stage \in {"reducible", "dominators", "postdominators"} => LoopsNotStarted
       /\ InFixpoint => FixpointInv
       /\ stage = "dominators" => ~reverse
       /\ stage = "postdominators" => reverse /\ DominatorsKnown
       /\ stage = "loops" => LoopInv /\ backEdges \subseteq Loop!BackEdges
       /\ stage \in {"loops", "done"} => ImmediateKnown /\ PostKnown

\* The instances speak of the same graphs.
LEMMA SameGraphs ==
  /\ ReachableBlocks(edges) = Fixpoint!ReachableBlocks(edges)
  /\ ReachableBlocks(edges) = Loop!ReachableBlocks(edges)
BY DEF ReachableBlocks, Fixpoint!ReachableBlocks, Loop!ReachableBlocks,
       Closed, Fixpoint!Closed, Loop!Closed,
       Block, Fixpoint!Block, Loop!Block, Entry, Fixpoint!Entry, Loop!Entry

\* The same domination, once over the incoming blocks and once over the edges.
LEMMA SameDomination ==
  ASSUME GraphFixed, ~reverse, FixpointInv, NEW d \in reachable, NEW n \in reachable
  PROVE  Fixpoint!Dominates(d, n) <=> Loop!Dominates(d, n)
<1>1. roots = {Entry} /\ reachable \subseteq Block
  BY DEF FixpointInv, FixpointShape, Fixpoint!Roots, Fixpoint!TypeOK, Fixpoint!Entry, Entry,
         Fixpoint!Block, Block
<1>2. \A x, y \in reachable : x \in Fixpoint!Feeds(y) <=> <<x, y>> \in edges
  BY <1>1 DEF Fixpoint!Feeds, Fixpoint!Predecessors, Fixpoint!Block, Block
<1>3. Fixpoint!Feeds(n) \subseteq reachable /\ \A y : Fixpoint!Feeds(y) \subseteq reachable
  BY DEF Fixpoint!Feeds
<1>4. \A S \in SUBSET reachable : Fixpoint!Separates(S, d, n) <=> Loop!Separates(S, d, n)
  BY <1>1, <1>2, <1>3 DEF Fixpoint!Separates, Loop!Separates, Entry, Loop!Entry
<1> QED
  BY <1>4 DEF Fixpoint!Dominates, Loop!Dominates

\* What the proofs of Reducibility call its definitions.
LEMMA SameOperators ==
  /\ \A E, i : Check!Successors(E, i) = K!Successors(E, i)
  /\ \A E, i : Check!Predecessors(E, i) = K!Predecessors(E, i)
  /\ \A S : Check!Least(S) = K!Least(S)
  /\ \A s : Check!Front(s) = K!Front(s) /\ Check!Last(s) = K!Last(s) /\ Check!ToSet(s) = K!ToSet(s)
  /\ \A s, S : Check!Descends(s, S) <=> K!Descends(s, S)
  /\ \A x : Check!Children(x) = K!Children(x) /\ Check!Parents(x) = K!Parents(x)
  /\ \A C : (Check!Cyclic(C) <=> K!Cyclic(C)) /\ Check!Entries(C) = K!Entries(C)
  /\ \A C : Check!Cardinality(C) = K!Cardinality(C)
<1>1. /\ \A E, i : Check!Successors(E, i) = K!Successors(E, i)
      /\ \A E, i : Check!Predecessors(E, i) = K!Predecessors(E, i)
  BY DEF Check!Successors, K!Successors, Check!Predecessors, K!Predecessors, Check!Block, K!Block
<1>2. \A S : Check!Least(S) = K!Least(S)
  BY DEF Check!Least, K!Least
<1>3. \A s : Check!Front(s) = K!Front(s)
  BY DEF Check!Front, K!Front
<1>4. \A s : Check!Last(s) = K!Last(s)
  BY DEF Check!Last, K!Last
<1>5. \A s : Check!ToSet(s) = K!ToSet(s)
  BY DEF Check!ToSet, K!ToSet
<1>6. \A s, S : Check!Descends(s, S) <=> K!Descends(s, S)
  BY <1>5 DEF Check!Descends, K!Descends
<1>7. \A x : Check!Children(x) = K!Children(x) /\ Check!Parents(x) = K!Parents(x)
  BY <1>1 DEF Check!Children, K!Children, Check!Parents, K!Parents
<1>8. \A C : Check!Entries(C) = K!Entries(C)
  BY DEF Check!Entries, K!Entries
<1>9. \A C : Check!Cardinality(C) = K!Cardinality(C)
  BY Zenon DEF Check!Cardinality, K!Cardinality
<1>10. \A C : Check!Cyclic(C) <=> K!Cyclic(C)
  BY <1>9 DEF Check!Cyclic, K!Cyclic
<1> QED
  BY <1>1, <1>2, <1>3, <1>4, <1>5, <1>6, <1>7, <1>8, <1>9, <1>10

\* A step of _ensure_reducible is one of Reducibility.
LEMMA CheckSteps == Check!Next => K!Next
<1>1. Check!StartRoot => K!StartRoot
  BY SameOperators DEF Check!StartRoot, K!StartRoot, Check!graph, K!graph, Check!second, K!second
<1>2. Check!NextChild => K!NextChild
  BY SameOperators DEF Check!NextChild, K!NextChild, Check!graph, K!graph, Check!second, K!second
<1>3. Check!FinishNode => K!FinishNode
  BY SameOperators DEF Check!FinishNode, K!FinishNode, Check!graph, K!graph, Check!second, K!second
<1>4. Check!EndOrder => K!EndOrder
  BY DEF Check!EndOrder, K!EndOrder, Check!graph, K!graph, Check!first, K!first,
         Check!second, K!second
<1>5. Check!NextRoot => K!NextRoot
  BY SameOperators DEF Check!NextRoot, K!NextRoot, Check!graph, K!graph
<1>6. Check!Collect => K!Collect
  BY SameOperators DEF Check!Collect, K!Collect, Check!graph, K!graph, Check!first, K!first
<1>7. Check!EndComponent => K!EndComponent
  BY DEF Check!EndComponent, K!EndComponent, Check!graph, K!graph, Check!first, K!first
<1>8. Check!EndCollect => K!EndCollect
  BY DEF Check!EndCollect, K!EndCollect, Check!graph, K!graph, Check!first, K!first,
         Check!second, K!second
<1>9. Check!CheckComponent => K!CheckComponent
  BY SameOperators DEF Check!CheckComponent, K!CheckComponent, Check!graph, K!graph,
                       Check!first, K!first
<1>10. Check!Accept => K!Accept
  BY DEF Check!Accept, K!Accept, Check!graph, K!graph, Check!first, K!first,
         Check!second, K!second
<1> QED
  BY <1>1, <1>2, <1>3, <1>4, <1>5, <1>6, <1>7, <1>8, <1>9, <1>10 DEF Check!Next, K!Next

\* The check starts with the analysis.
LEMMA CheckStarts == Check!Init => K!Inv
<1>1. Check!Init => K!Init
  BY DEF Check!Init, K!Init, Check!ReachableBlocks, K!ReachableBlocks, Check!Closed, K!Closed,
         Check!Block, K!Block, Check!Entry, K!Entry
<1> QED
  BY <1>1, K!InitInv, BlockCountAssumption, GraphsAssumption DEF Block, K!Block

\* The later stages leave the result of the check alone.
LEMMA CheckIsOver ==
  ASSUME K!Inv, UNCHANGED <<graph, searches>>
  PROVE  K!Inv'
<1>1. UNCHANGED K!vars
  BY DEF graph, searches, K!vars
<1> QED
  BY <1>1, K!StutterKeeps, BlockCountAssumption, GraphsAssumption DEF Block, K!Block

\* A call of _fixed_point_sets starts in an initial state of DominatorFixpoint.
LEMMA RestartStarts ==
  ASSUME GraphFixed, UNCHANGED graph, NEW b \in BOOLEAN, Restart(b)
  PROVE  FixpointInv'
<1>1. edges' \in Graphs /\ reachable' = Fixpoint!ReachableBlocks(edges')
  BY SameGraphs DEF GraphFixed, graph
<1>2. roots' = Fixpoint!Roots(edges', reachable', reverse')
  BY DEF Restart, graph, Fixpoint!Roots, Fixpoint!Exits, Fixpoint!Successors
<1>3. Fixpoint!Init'
  BY <1>1, <1>2 DEF Restart, graph, Fixpoint!Init, Fixpoint!FromAbove
<1> QED
  BY <1>3, FixpointStartedInv

\* No stage has begun.
LEMMA InitInv == Init => Inv
BY CheckStarts DEF Init, Inv, GraphFixed, InFixpoint, LoopsNotStarted, Check!Init,
       ReachableBlocks, Check!ReachableBlocks, Closed, Check!Closed, Block, Check!Block,
       Entry, Check!Entry

\* The dominators that were kept are the dominators of the graph in hand.
LEMMA DominatorsStayKnown ==
  ASSUME edges' = edges, reachable' = reachable, dominators' = dominators
  PROVE  DominatorsKnown' <=> DominatorsKnown
BY DEF DominatorsKnown, Loop!Dominates, Loop!Separates

\* The same with the candidates of _immediate.
LEMMA ImmediateStaysKnown ==
  ASSUME UNCHANGED <<edges, reachable, dominators, immediate>>
  PROVE  ImmediateKnown' <=> ImmediateKnown
<1>1. DominatorsKnown' <=> DominatorsKnown
  BY DominatorsStayKnown
<1> QED
  BY <1>1 DEF ImmediateKnown, Immediate

\* Nothing touches the second fixpoint once its candidates are taken.
LEMMA PostStaysKnown ==
  ASSUME PostKnown, UNCHANGED <<graph, fixpoint, immediatePost>>
  PROVE  PostKnown'
<1>1. UNCHANGED <<edges, reachable, reverse, roots, result, todo, changed, immediatePost>>
  BY DEF graph, fixpoint
<1>2. FixpointInv'
  BY <1>1, FixpointNextInv DEF PostKnown, Fixpoint!vars
<1>3. Fixpoint!Finished'
  BY <1>1 DEF PostKnown, Fixpoint!Finished
<1>4. immediatePost' = [node \in reachable' |-> Immediate(result', node)]
  BY <1>1 DEF PostKnown, Immediate
<1>5. reverse'
  BY <1>1 DEF PostKnown
<1> QED
  BY <1>2, <1>3, <1>4, <1>5 DEF PostKnown

\* Before the first back edge the entry alone is taken for a finished loop.
LEMMA NoLoopYet ==
  ASSUME GraphFixed, LoopsNotStarted
  PROVE  LoopInv
<1>1. edges \in SUBSET (Block \X Block) /\ reachable = Loop!ReachableBlocks(edges)
  BY GraphsAssumption, SameGraphs DEF GraphFixed
<1>2. Entry \in reachable
  BY BlockCountAssumption DEF GraphFixed, ReachableBlocks, Block, Entry
<1>3. Loop!TypeOK
  BY <1>1, <1>2 DEF Loop!TypeOK, LoopsNotStarted, Block, Loop!Block
<1>4. Loop!LoopInvariant
  BY DEF Loop!LoopInvariant, Loop!HeaderDominates, Loop!Dominates, Loop!BodyClosed,
         Loop!NothingExtra, Loop!LoopClosed, LoopsNotStarted
<1>5. ReachLatch
  BY DEF ReachLatch, LoopsNotStarted
<1> QED
  BY <1>3, <1>4, <1>5 DEF LoopInv

\* A call of _natural_loop starts in an initial state of NaturalLoops.
LEMMA LoopStarts ==
  ASSUME Inv, NextLoop
  PROVE  LoopInv'
<1>1. stage = "loops" /\ UNCHANGED graph /\ backEdges \subseteq Loop!BackEdges
  BY DEF NextLoop, Inv, graph
<1>2. PICK e \in backEdges :
        /\ latch' = e[1] /\ header' = e[2]
        /\ members' = {e[1], e[2]} /\ unexpanded' = Loop!Pushed(e[1], e[2])
  BY DEF NextLoop
<1>3. Loop!BackEdges' = Loop!BackEdges
  BY <1>1 DEF graph, Loop!BackEdges, Loop!Dominates, Loop!Separates
<1>4. edges' \in Graphs /\ reachable' = Loop!ReachableBlocks(edges')
  BY <1>1, SameGraphs DEF Inv, GraphFixed, graph
<1>5. Loop!Init'
  BY <1>1, <1>2, <1>3, <1>4 DEF Loop!Init, Loop!Pushed, Loop!Pushed
<1> QED
  BY <1>5, LoopStartedInv, BlockCountAssumption, GraphsAssumption DEF Block, Loop!Block

\* An edge to a block in the computed set of its source is a back edge.
LEMMA BackEdgesFound ==
  ASSUME Inv, stage = "postdominators", NEW e \in edges,
         e[1] \in reachable, e[2] \in dominators[e[1]]
  PROVE  e \in Loop!BackEdges
BY DEF Inv, DominatorsKnown, Loop!BackEdges

\* What the first fixpoint leaves are the dominators NaturalLoops speaks of.
LEMMA DominatorsLeft ==
  ASSUME Inv, StartPostDominators
  PROVE  DominatorsKnown'
<1>1. /\ GraphFixed /\ FixpointInv /\ ~reverse
      /\ dominators' = result /\ UNCHANGED graph
      /\ Fixpoint!Finished
  BY DEF StartPostDominators, Inv, InFixpoint, graph
<1>2. \A n \in reachable : result[n] = {d \in reachable : Fixpoint!Dominates(d, n)}
  <2>1. Fixpoint!ComputesDominators
    BY <1>1, ExactWhenFinished
  <2> QED
    BY <1>1, <2>1 DEF Fixpoint!ComputesDominators
<1>3. \A n \in reachable : result[n] = {d \in reachable : Loop!Dominates(d, n)}
  BY <1>1, <1>2, SameDomination
<1> QED
  BY <1>1, <1>3 DEF DominatorsKnown, graph, Loop!Dominates, Loop!Separates

\* Every step of every stage keeps the invariant.
LEMMA NextInv == Inv /\ [Next]_vars => Inv'
<1> SUFFICES ASSUME Inv, [Next]_vars PROVE Inv'
  OBVIOUS
<1>1. GraphFixed'
  <2>1. UNCHANGED graph
    BY DEF Next, vars, EnsureReducible, StartDominators, StartPostDominators, Iterate,
           StartLoops, NextLoop, Gather, Finish
  <2> QED
    BY <2>1 DEF Inv, GraphFixed, graph, ReachableBlocks, Closed
<1>0. K!Inv'
  <2>1. CASE EnsureReducible
    BY <2>1, CheckSteps, K!NextInv, BlockCountAssumption, GraphsAssumption
       DEF Inv, EnsureReducible, Block, K!Block
  <2>2. CASE ~EnsureReducible
    <3>1. UNCHANGED <<graph, searches>>
      BY <2>2 DEF Next, vars, StartDominators, StartPostDominators, Iterate,
             StartLoops, NextLoop, Gather, Finish
    <3> QED
      BY <3>1, CheckIsOver DEF Inv
  <2> QED
    BY <2>1, <2>2
<1>12. (stage \in {"loops", "done"} => PostKnown)'
  <2>1. CASE StartLoops
    <3>1. /\ reverse /\ FixpointInv /\ Fixpoint!Finished
          /\ UNCHANGED <<edges, reverse, reachable, roots, result, todo, changed>>
      BY <2>1 DEF Inv, InFixpoint, StartLoops, graph, fixpoint
    <3>2. FixpointInv' /\ Fixpoint!Finished' /\ reverse'
      BY <3>1, FixpointNextInv DEF Fixpoint!vars, Fixpoint!Finished
    <3>3. immediatePost' = [node \in reachable' |-> Immediate(result', node)]
      BY <2>1, <3>1 DEF StartLoops, Immediate
    <3> QED
      BY <3>2, <3>3 DEF PostKnown
  <2>2. CASE NextLoop \/ Gather \/ Finish \/ UNCHANGED vars
    <3>1. UNCHANGED <<graph, fixpoint, immediatePost>>
      BY <2>2 DEF NextLoop, Gather, Finish, vars, results
    <3>2. stage' \in {"loops", "done"} => stage \in {"loops", "done"}
      BY <2>2 DEF NextLoop, Gather, Finish, vars
    <3> QED
      BY <3>1, <3>2, PostStaysKnown DEF Inv
  <2>3. CASE EnsureReducible \/ StartDominators \/ StartPostDominators \/ Iterate
    BY <2>3 DEF EnsureReducible, StartDominators, StartPostDominators, Iterate
  <2> QED
    BY <2>1, <2>2, <2>3 DEF Next
<1>11. (stage \in {"loops", "done"} => ImmediateKnown)'
  <2>1. CASE StartLoops
    <3>1. DominatorsKnown /\ UNCHANGED <<edges, reachable, dominators>>
      BY <2>1 DEF Inv, StartLoops, graph
    <3>2. DominatorsKnown'
      BY <3>1, DominatorsStayKnown
    <3>3. immediate' = [node \in reachable' |-> Immediate(dominators', node)]
      BY <2>1, <3>1 DEF StartLoops, Immediate
    <3> QED
      BY <3>2, <3>3, Zenon DEF ImmediateKnown, Immediate
  <2>2. CASE NextLoop \/ Gather \/ Finish \/ UNCHANGED vars
    <3>1. UNCHANGED <<edges, reachable, dominators, immediate>>
      BY <2>2 DEF NextLoop, Gather, Finish, vars, graph, results
    <3>2. stage' \in {"loops", "done"} => stage \in {"loops", "done"}
      BY <2>2 DEF NextLoop, Gather, Finish, vars
    <3> QED
      BY <3>1, <3>2, ImmediateStaysKnown DEF Inv
  <2>3. CASE EnsureReducible \/ StartDominators \/ StartPostDominators \/ Iterate
    BY <2>3 DEF EnsureReducible, StartDominators, StartPostDominators, Iterate
  <2> QED
    BY <2>1, <2>2, <2>3 DEF Next
<1>2. CASE EnsureReducible
  BY <1>0, <1>1, <1>11, <1>12, <1>2 DEF Inv, EnsureReducible, InFixpoint, LoopsNotStarted, loop
<1>3. CASE StartDominators
  <2>1. FixpointInv'
    BY <1>3, RestartStarts DEF StartDominators, Inv
  <2> QED
    BY <1>0, <1>1, <1>11, <1>12, <1>3, <2>1 DEF Inv, StartDominators, Restart, LoopsNotStarted, loop
<1>4. CASE StartPostDominators
  <2>1. FixpointInv'
    BY <1>4, RestartStarts DEF StartPostDominators, Inv
  <2> QED
    BY <1>0, <1>1, <1>11, <1>12, <1>4, <2>1, DominatorsLeft
       DEF Inv, StartPostDominators, Restart, LoopsNotStarted, loop
<1>5. CASE Iterate
  <2>1. InFixpoint /\ InFixpoint' /\ UNCHANGED <<graph, loop, results, stage>>
    BY <1>5 DEF Iterate, InFixpoint
  <2>2. FixpointInv'
    BY <1>5, <2>1, FixpointNextInv
       DEF Iterate, Inv
  <2>3. reverse' = reverse
    BY <1>5 DEF Iterate, Fixpoint!Next, Fixpoint!SkipRoot, Fixpoint!Visit, Fixpoint!NextPass
  <2>4. DominatorsKnown => DominatorsKnown'
    <3>1. edges' = edges /\ reachable' = reachable /\ dominators' = dominators
      BY <2>1 DEF graph, results
    <3> QED
      BY <3>1, DominatorsStayKnown
  <2> QED
    BY <1>0, <1>1, <1>11, <1>12, <2>1, <2>2, <2>3, <2>4 DEF Inv, InFixpoint, LoopsNotStarted, loop
<1>6. CASE StartLoops
  <2>1. stage' = "loops" /\ LoopsNotStarted /\ UNCHANGED <<graph, loop>>
    BY <1>6 DEF StartLoops, Inv
  <2>2. backEdges' \subseteq Loop!BackEdges'
    <3>1. backEdges' \subseteq Loop!BackEdges
      BY <1>6, BackEdgesFound DEF StartLoops
    <3>2. Loop!BackEdges' = Loop!BackEdges
      BY <2>1 DEF graph, Loop!BackEdges, Loop!Dominates, Loop!Separates
    <3> QED
      BY <3>1, <3>2
  <2>3. LoopInv
    BY <2>1, NoLoopYet DEF Inv
  <2>4. LoopInv'
    BY <2>1, <2>3, LoopNextInv, BlockCountAssumption, GraphsAssumption
       DEF graph, loop, Loop!vars, Block, Loop!Block
  <2> QED
    BY <1>0, <1>1, <1>11, <1>12, <2>1, <2>2, <2>4 DEF Inv, InFixpoint
<1>7. CASE NextLoop
  <2>1. Loop!BackEdges' = Loop!BackEdges
    BY <1>7 DEF NextLoop, graph, Loop!BackEdges, Loop!Dominates, Loop!Separates
  <2> QED
    BY <1>0, <1>1, <1>11, <1>12, <1>7, <2>1, LoopStarts DEF Inv, NextLoop, InFixpoint
<1>8. CASE Gather
  <2>1. Loop!BackEdges' = Loop!BackEdges
    BY <1>8 DEF Gather, graph, Loop!BackEdges, Loop!Dominates, Loop!Separates
  <2>2. LoopInv'
    BY <1>8, LoopNextInv DEF Gather, Inv
  <2> QED
    BY <1>0, <1>1, <1>11, <1>12, <1>8, <2>1, <2>2 DEF Inv, Gather, InFixpoint, results
<1>9. CASE Finish
  BY <1>0, <1>1, <1>11, <1>12, <1>9 DEF Inv, Finish, InFixpoint
<1>10. CASE UNCHANGED vars
  <2>1. UNCHANGED <<graph, stage, fixpoint, loop, results>>
    BY <1>10 DEF vars
  <2>2. FixpointInv => FixpointInv'
    BY <2>1, FixpointNextInv
       DEF graph, fixpoint, Fixpoint!vars
  <2>3. LoopInv => LoopInv'
    BY <2>1, LoopNextInv, BlockCountAssumption, GraphsAssumption
       DEF graph, loop, Loop!vars, Block, Loop!Block
  <2>4. Loop!BackEdges' = Loop!BackEdges
    BY <2>1 DEF graph, Loop!BackEdges, Loop!Dominates, Loop!Separates
  <2>5. DominatorsKnown => DominatorsKnown'
    <3>1. edges' = edges /\ reachable' = reachable /\ dominators' = dominators
      BY <2>1 DEF graph, results
    <3> QED
      BY <3>1, DominatorsStayKnown
  <2> QED
    BY <1>0, <1>1, <1>11, <1>12, <2>1, <2>2, <2>3, <2>4, <2>5
    DEF Inv, InFixpoint, LoopsNotStarted, graph, fixpoint, loop, results
<1> QED
  BY <1>2, <1>3, <1>4, <1>5, <1>6, <1>7, <1>8, <1>9, <1>10 DEF Next

\* The invariant of the whole analysis.
LEMMA InvHolds == Spec => []Inv
BY InitInv, NextInv, PTL DEF Spec

\* Both calls of _fixed_point_sets in analyze_control_flow keep every true
\* dominator (post-dominator) at every moment.
THEOREM DominatorsKeptInAnalysis == Spec => []NoDominatorLost
<1>1. Inv => NoDominatorLost
  BY DEF Inv, FixpointInv, NoDominatorLost
<1> QED
  BY InvHolds, <1>1, PTL

\* The sets the two calls return are the dominators and the post-dominators of
\* the reachable blocks, whatever the graph that passed the reducibility check.
THEOREM AnalysisDominatorsCorrect == Spec => []ComputesDominators
<1>1. Inv => ComputesDominators
  BY ExactWhenFinished
     DEF Inv, ComputesDominators
<1> QED
  BY InvHolds, <1>1, PTL

\* Every edge taken for a back edge leads to a dominator of its source, and the
\* loop _natural_loop returns for it is entered through its header alone.
THEOREM AnalysisLoopsHaveOneEntry == Spec => []SingleEntry
<1>1. Inv => SingleEntry
  BY SingleWhenFinished
     DEF Inv, SingleEntry, Block, Loop!Block
<1> QED
  BY InvHolds, <1>1, PTL

\* Each loop of the result is a cycle: the header reaches every member and every
\* member reaches the latch without leaving the loop.
THEOREM AnalysisLoopsAreCyclic == Spec => []LoopIsCyclic
<1>1. Inv => LoopIsCyclic
  BY CyclicWhenFinished
     DEF Inv, LoopIsCyclic, Block, Loop!Block
<1> QED
  BY InvHolds, <1>1, PTL
\* The check of an instance is the check of the proofs.
LEMMA SameCheck ==
  /\ K!TypeOK => Check!TypeOK
  /\ K!ComponentsAreStrong => Check!ComponentsAreStrong
  /\ K!RejectsOnlyIrreducible => Check!RejectsOnlyIrreducible
  /\ K!AcceptedCyclesHaveHeader => Check!AcceptedCyclesHaveHeader
<1>1. K!TypeOK => Check!TypeOK
  BY SameOperators DEF K!TypeOK, Check!TypeOK, K!Block, Check!Block
<1>2. \A E, a, b : K!Reaches(E, a, b) <=> Check!Reaches(E, a, b)
  BY DEF K!Reaches, Check!Reaches, K!Closed, Check!Closed, K!Block, Check!Block
<1>3. \A n : K!StrongComponent(n) = Check!StrongComponent(n)
  BY <1>2 DEF K!StrongComponent, Check!StrongComponent
<1>4. K!ComponentsAreStrong => Check!ComponentsAreStrong
  BY <1>3, SameOperators DEF K!ComponentsAreStrong, Check!ComponentsAreStrong
<1>5. \A d, n : K!Dominates(d, n) <=> Check!Dominates(d, n)
  BY DEF K!Dominates, Check!Dominates, K!Entry, Check!Entry
<1>6. K!Reducible <=> Check!Reducible
  BY <1>5 DEF K!Reducible, Check!Reducible
<1>7. K!RejectsOnlyIrreducible => Check!RejectsOnlyIrreducible
  BY <1>6 DEF K!RejectsOnlyIrreducible, Check!RejectsOnlyIrreducible
<1>8. K!AcceptedCyclesHaveHeader => Check!AcceptedCyclesHaveHeader
  BY <1>3, <1>5, SameOperators DEF K!AcceptedCyclesHaveHeader, Check!AcceptedCyclesHaveHeader
<1> QED
  BY <1>1, <1>4, <1>7, <1>8

\* Each stage stays among the reachable blocks, however much dead code there is.
THEOREM AnalysisTypes == Spec => []TypeOK
<1>1. Inv => TypeOK
  <2> SUFFICES ASSUME Inv PROVE TypeOK
    OBVIOUS
  <2>1. stage \in {"reducible", "dominators", "postdominators", "loops", "done", "rejected"}
    BY DEF Inv
  <2>2. Check!TypeOK
    BY SameCheck, K!InvTypes, BlockCountAssumption, GraphsAssumption DEF Inv, Block, K!Block
  <2>3. InFixpoint => Fixpoint!TypeOK
    BY DEF Inv, FixpointInv
  <2>4. stage = "loops" => Loop!TypeOK
    BY DEF Inv, LoopInv
  <2> QED
    BY <2>1, <2>2, <2>3, <2>4 DEF TypeOK
<1> QED
  BY InvHolds, <1>1, PTL

\* The strong components the reducibility check looks at are whole and complete.
THEOREM AnalysisComponents == Spec => []ComponentsAreStrong
<1>1. Inv => ComponentsAreStrong
  BY SameCheck, K!InvComponents, BlockCountAssumption, GraphsAssumption
     DEF Inv, ComponentsAreStrong, Block, K!Block
<1> QED
  BY InvHolds, <1>1, PTL

\* analyze_control_flow raises IrreducibleControlFlowError for irreducible graphs only.
THEOREM AnalysisRejection == Spec => []RejectsOnlyIrreducible
<1>1. Inv => RejectsOnlyIrreducible
  BY SameCheck, K!InvRejection, BlockCountAssumption, GraphsAssumption
     DEF Inv, RejectsOnlyIrreducible, Block, K!Block
<1> QED
  BY InvHolds, <1>1, PTL

\* When the dominators are asked for, every cycle has a header they will show.
THEOREM AnalysisHeaders == Spec => []AcceptedCyclesHaveHeader
<1>1. Inv => AcceptedCyclesHaveHeader
  BY SameCheck, K!InvHeaders, BlockCountAssumption, GraphsAssumption
     DEF Inv, AcceptedCyclesHaveHeader, Block, K!Block
<1> QED
  BY InvHolds, <1>1, PTL
-----------------------------------------------------------------------------
(***************************************************************************)
(* What _immediate makes of the sets.  The argument is the same for the    *)
(* dominators and the post-dominators, so it is made once, over N nodes,   *)
(* the pairs F of a node and one it feeds, and the roots R: the entry and  *)
(* the edges forwards, the exits and the edges turned round backwards.     *)
(* The dominators of a node that is fed from the roots form a chain, and   *)
(* the one at its end is the only candidate.                               *)
(***************************************************************************)
Cuts(F, N, R, S, d, n) ==
  /\ R \ {d} \subseteq S /\ n \notin S
  /\ \A x \in S, y \in N \ {d} : <<x, y>> \in F => y \in S

Over(F, N, R, d, n) == d = n \/ \E S \in SUBSET N : Cuts(F, N, R, S, d, n)

\* The nodes that can be reached without d.
Without(F, N, R, d) == {y \in N : ~Over(F, N, R, d, y)}

\* The nodes that can be reached at all.
Fed(F, N, R) ==
  {n \in N : \A S \in SUBSET N :
     R \subseteq S /\ (\A x \in S, y \in N : <<x, y>> \in F => y \in S) => n \in S}

\* Without(d) is the greatest cut: it has the other roots and is left through d only.
LEMMA WithoutIsCut ==
  ASSUME NEW F, NEW N, NEW R \in SUBSET N, NEW d \in N
  PROVE  /\ R \ {d} \subseteq Without(F, N, R, d) /\ d \notin Without(F, N, R, d)
         /\ \A x \in Without(F, N, R, d), y \in N :
              <<x, y>> \in F /\ y # d => y \in Without(F, N, R, d)
<1>1. ASSUME NEW r \in R \ {d} PROVE ~Over(F, N, R, d, r)
  BY DEF Over, Cuts
<1>2. Over(F, N, R, d, d)
  BY DEF Over
<1>3. ASSUME NEW x \in Without(F, N, R, d), NEW y \in N, <<x, y>> \in F, y # d
      PROVE  y \in Without(F, N, R, d)
  <2> SUFFICES ASSUME Over(F, N, R, d, y) PROVE FALSE
    BY DEF Without
  <2>1. PICK S \in SUBSET N : Cuts(F, N, R, S, d, y)
    BY <1>3 DEF Over
  <2>2. x \in N /\ x \notin S
    BY <1>3, <2>1 DEF Cuts, Without
  <2>3. Cuts(F, N, R, S, d, x)
    BY <2>1, <2>2 DEF Cuts
  <2> QED
    BY <2>3 DEF Over, Without
<1> QED
  BY <1>1, <1>2, <1>3 DEF Without

\* Of two dominators of a node one dominates the other.
LEMMA DominatorsAreChain ==
  ASSUME NEW F, NEW N, NEW R \in SUBSET N, NEW a \in N, NEW b \in N, NEW n \in Fed(F, N, R),
         Over(F, N, R, a, n), Over(F, N, R, b, n)
  PROVE  Over(F, N, R, a, b) \/ Over(F, N, R, b, a)
<1> SUFFICES ASSUME ~Over(F, N, R, a, b), ~Over(F, N, R, b, a) PROVE FALSE
  OBVIOUS
<1>1. b \in Without(F, N, R, a) /\ a \in Without(F, N, R, b)
  BY DEF Without
<1> DEFINE W == Without(F, N, R, a) \union Without(F, N, R, b)
<1>2. \A x \in W, y \in N : <<x, y>> \in F => y \in W
  BY <1>1, WithoutIsCut
<1>3. R \subseteq W /\ W \in SUBSET N
  BY <1>1, WithoutIsCut DEF Without
<1> HIDE DEF W
<1>4. n \in W
  BY <1>2, <1>3 DEF Fed
<1> QED
  BY <1>4 DEF W, Without

LEMMA DominationIsTransitive ==
  ASSUME NEW F, NEW N, NEW R \in SUBSET N, NEW a \in N, NEW b \in N, NEW n \in N,
         Over(F, N, R, a, b), Over(F, N, R, b, n)
  PROVE  Over(F, N, R, a, n)
<1> SUFFICES ASSUME a # b PROVE Over(F, N, R, a, n)
  OBVIOUS
<1> DEFINE S == Without(F, N, R, a) \intersect Without(F, N, R, b)
<1>1. b \notin R
  BY DEF Over, Cuts
<1>2. b \notin Without(F, N, R, a) /\ n \notin Without(F, N, R, b)
  BY DEF Without
<1>3. \A x \in S, y \in N \ {a} : <<x, y>> \in F => y \in S
  BY <1>2, WithoutIsCut
<1>4. R \ {a} \subseteq S /\ S \in SUBSET N /\ n \notin S
  BY <1>1, <1>2, WithoutIsCut DEF Without
<1> HIDE DEF S
<1>5. Cuts(F, N, R, S, a, n)
  BY <1>3, <1>4 DEF Cuts
<1> QED
  BY <1>4, <1>5 DEF Over

LEMMA DominationIsAntisymmetric ==
  ASSUME NEW F, NEW N, NEW R \in SUBSET N, NEW a \in Fed(F, N, R), NEW b \in N,
         Over(F, N, R, a, b), Over(F, N, R, b, a)
  PROVE  a = b
<1> SUFFICES ASSUME a # b PROVE FALSE
  OBVIOUS
<1>1. a \in N /\ a \notin R /\ b \notin R
  BY DEF Over, Cuts, Fed
<1>2. b \notin Without(F, N, R, a) /\ a \notin Without(F, N, R, b)
  BY DEF Without
<1> DEFINE W == Without(F, N, R, a) \intersect Without(F, N, R, b)
<1>3. \A x \in W, y \in N : <<x, y>> \in F => y \in W
  BY <1>1, <1>2, WithoutIsCut
<1>4. R \subseteq W /\ W \in SUBSET N
  BY <1>1, WithoutIsCut DEF Without
<1> HIDE DEF W
<1>5. a \in W
  BY <1>3, <1>4 DEF Fed
<1> QED
  BY <1>2, <1>5 DEF W

\* What dominates a node that is fed from the roots is fed itself.
LEMMA DominatorsAreFed ==
  ASSUME NEW F, NEW N, NEW R \in SUBSET N, NEW n \in Fed(F, N, R), NEW d \in N,
         Over(F, N, R, d, n)
  PROVE  d \in Fed(F, N, R)
<1> SUFFICES ASSUME NEW Z \in SUBSET N, R \subseteq Z, d \notin Z,
                    \A x \in Z, y \in N : <<x, y>> \in F => y \in Z
             PROVE  FALSE
  BY DEF Fed
<1>1. n \in Z
  BY DEF Fed
<1>2. PICK S \in SUBSET N : Cuts(F, N, R, S, d, n)
  BY <1>1 DEF Over
<1> DEFINE W == S \intersect Z
<1>3. \A x \in W, y \in N : <<x, y>> \in F => y \in W
  BY <1>2 DEF Cuts
<1>4. R \subseteq W /\ W \in SUBSET N /\ n \notin W
  BY <1>2 DEF Cuts
<1> HIDE DEF W
<1> QED
  BY <1>3, <1>4 DEF Fed

\* Among the strict dominators of a node one has all of them for dominators: the
\* one for which the fewest are missing.
LEMMA ClosestDominator ==
  ASSUME NEW F, NEW N, IsFiniteSet(N), NEW R \in SUBSET N, NEW n \in Fed(F, N, R),
         NEW strict \in SUBSET N, strict # {},
         strict = {d \in N : Over(F, N, R, d, n) /\ d # n}
  PROVE  \E p \in strict : \A d \in strict : Over(F, N, R, d, p)
<1> DEFINE Missing(p) == {d \in strict : ~Over(F, N, R, d, p)}
           T == {Missing(p) : p \in strict}
<1>1. IsFiniteSet(strict)
  BY FS_Subset
<1>2. T \subseteq FiniteSubsetsOf(strict) /\ T # {}
  <2>1. \A p \in strict : Missing(p) \in SUBSET strict /\ IsFiniteSet(Missing(p))
    BY <1>1, FS_Subset
  <2> HIDE DEF Missing
  <2> QED
    BY <2>1 DEF FiniteSubsetsOf
<1>3. IsWellFoundedOn(StrictSubsetOrdering(strict), FiniteSubsetsOf(strict))
  BY FS_StrictSubsetOrderingWellFounded
<1> HIDE DEF T
<1>4. PICK I \in T : \A J \in T : <<J, I>> \notin StrictSubsetOrdering(strict)
  BY <1>2, <1>3, WFMin
<1>5. PICK p \in strict : I = Missing(p)
  BY DEF T
<1>6. ASSUME NEW q \in Missing(p) PROVE FALSE
  <2>1. q \in strict /\ ~Over(F, N, R, q, p)
    BY <1>6
  <2>2. Over(F, N, R, p, q)
    BY <2>1, DominatorsAreChain
  <2>3. Missing(q) \subseteq Missing(p)
    <3>1. \A d \in strict : Over(F, N, R, d, p) => Over(F, N, R, d, q)
      BY <2>1, <2>2, DominationIsTransitive
    <3> QED
      BY <3>1
  <2>4. q \notin Missing(q)
    BY DEF Over
  <2>5. Missing(q) \in T /\ Missing(p) \in SUBSET strict /\ Missing(q) \in SUBSET strict
    BY <2>1 DEF T
  <2> HIDE DEF Missing
  <2>6. <<Missing(q), Missing(p)>> \in StrictSubsetOrdering(strict)
    BY <1>6, <2>3, <2>4, <2>5 DEF StrictSubsetOrdering
  <2> QED
    BY <1>4, <1>5, <2>5, <2>6
<1> QED
  BY <1>6

\* The sets hold the dominators of each node.
Exact(F, N, R, sets) == \A m \in N : sets[m] = {d \in N : Over(F, N, R, d, m)}

\* _immediate finds the one parent of n, or none for a root.
ParentFound(F, N, R, sets, n) ==
  \/ Immediate(sets, n) = {} /\ sets[n] = {n}
  \/ \E p \in Fed(F, N, R) \ {n} :
       Immediate(sets, n) = {p} /\ sets[n] = sets[p] \union {n}

\* One candidate of _immediate for a node with a strict dominator, none for the others.
LEMMA ImmediateIsParent ==
  ASSUME NEW F, NEW N, IsFiniteSet(N), NEW R \in SUBSET N, NEW n \in Fed(F, N, R),
         NEW sets, Exact(F, N, R, sets)
  PROVE  ParentFound(F, N, R, sets, n)
<1> USE DEF Exact
<1> DEFINE strict == sets[n] \ {n}
<1>1. n \in N /\ Over(F, N, R, n, n)
  BY DEF Fed, Over
<1>2. strict = {d \in N : Over(F, N, R, d, n) /\ d # n} /\ strict \in SUBSET N
  BY <1>1
<1>3. sets[n] = strict \union {n}
  BY <1>1
<1>4. CASE strict = {}
  BY <1>3, <1>4 DEF Immediate, ParentFound
<1>5. CASE strict # {}
  <2> HIDE DEF strict
  <2>1. PICK p \in strict : \A d \in strict : Over(F, N, R, d, p)
    BY <1>2, <1>5, ClosestDominator
  <2>2. \A q \in strict : sets[q] = {d \in N : Over(F, N, R, d, q)}
    BY <1>2
  <2>3. \A q \in strict : q \in Fed(F, N, R)
    BY <1>2, DominatorsAreFed
  <2>4. sets[p] \subseteq strict \union {n}
    <3>1. \A d \in sets[p] : d \in N /\ Over(F, N, R, d, n)
      BY <1>1, <1>2, <2>1, <2>2, DominationIsTransitive
    <3> QED
      BY <1>2, <3>1
  <2>5. strict \subseteq sets[p]
    BY <1>2, <2>1, <2>2
  <2>6. \A q \in strict : strict \subseteq sets[q] => q = p
    BY <1>2, <2>1, <2>2, <2>3, DominationIsAntisymmetric
  <2>7. Immediate(sets, n) = {p}
    BY <2>1, <2>5, <2>6 DEF Immediate, strict
  <2>8. p \in Fed(F, N, R) \ {n}
    BY <1>2, <2>1, <2>3
  <2> QED
    BY <1>3, <2>4, <2>5, <2>7, <2>8 DEF ParentFound
<1> QED
  BY <1>4, <1>5

\* The blocks are finitely many and the entry is one.
LEMMA ReachableShape ==
  ASSUME GraphFixed
  PROVE  /\ IsFiniteSet(reachable) /\ Entry \in reachable /\ reachable \in SUBSET Block
         /\ edges \in SUBSET (Block \X Block) /\ Closed(edges, reachable)
<1>1. Entry \in reachable /\ reachable \in SUBSET Block
  BY BlockCountAssumption DEF GraphFixed, ReachableBlocks, Block, Entry
<1>2. edges \in SUBSET (Block \X Block)
  BY GraphsAssumption DEF GraphFixed
<1>3. IsFiniteSet(Block)
  BY BlockCountAssumption, FS_Interval DEF Block
<1>4. Closed(edges, reachable)
  BY <1>2 DEF GraphFixed, ReachableBlocks, Closed
<1> QED
  BY <1>1, <1>2, <1>3, <1>4, FS_Subset

\* Forwards every block is fed from the entry, and the sets are the dominators.
LEMMA ForwardIsFed ==
  ASSUME GraphFixed
  PROVE  /\ Fed(edges, reachable, {Entry}) = reachable
         /\ \A d, n \in reachable :
              Over(edges, reachable, {Entry}, d, n) <=> Loop!Dominates(d, n)
<1>1. ASSUME NEW W \in SUBSET reachable, Entry \in W,
             \A x \in W, y \in reachable : <<x, y>> \in edges => y \in W
      PROVE  W = reachable
  <2>1. ASSUME NEW e \in edges, e[1] \in W PROVE e[2] \in W
    <3>1. e = <<e[1], e[2]>> /\ e[1] \in reachable /\ e[2] \in reachable
      BY <2>1, ReachableShape DEF Closed
    <3> QED
      BY <1>1, <2>1, <3>1
  <2>2. Closed(edges, W) /\ W \in SUBSET Block
    BY <2>1, ReachableShape DEF Closed
  <2> QED
    BY <1>1, <2>2 DEF GraphFixed, ReachableBlocks
<1>2. Fed(edges, reachable, {Entry}) = reachable
  <2>1. \A W \in SUBSET reachable :
          {Entry} \subseteq W /\ (\A x \in W, y \in reachable : <<x, y>> \in edges => y \in W)
            => W = reachable
    BY <1>1
  <2> QED
    BY <2>1 DEF Fed
<1>3. \A d, n : \A S \in SUBSET reachable :
        Cuts(edges, reachable, {Entry}, S, d, n) <=> Loop!Separates(S, d, n)
  BY DEF Cuts, Loop!Separates, Entry, Loop!Entry
<1> QED
  BY <1>2, <1>3 DEF Over, Loop!Dominates

\* The immediate dominators are those of a tree.
LEMMA TreeOfDominators ==
  ASSUME GraphFixed, ImmediateKnown
  PROVE  DominatorsFormTree
<1>1. \A m \in reachable :
        dominators[m] = {d \in reachable : Over(edges, reachable, {Entry}, d, m)}
  BY ForwardIsFed DEF ImmediateKnown, DominatorsKnown
<1>2. \A m \in reachable : immediate[m] = Immediate(dominators, m)
  BY DEF ImmediateKnown
<1>3. Entry \in reachable
  BY ReachableShape
<1>4. dominators[Entry] = {Entry}
  <2>1. \A d \in reachable : Over(edges, reachable, {Entry}, d, Entry) <=> d = Entry
    BY DEF Over, Cuts
  <2> QED
    BY <1>1, <1>3, <2>1
<1>5. immediate[Entry] = {}
  BY <1>2, <1>3, <1>4 DEF Immediate
<1>6. ASSUME NEW n \in reachable \ {Entry}
      PROVE  \E p \in reachable \ {n} :
               immediate[n] = {p} /\ dominators[n] = dominators[p] \union {n}
  <2>1. Over(edges, reachable, {Entry}, Entry, n)
    <3>1. Cuts(edges, reachable, {Entry}, {}, Entry, n)
      BY DEF Cuts
    <3> QED
      BY <3>1 DEF Over
  <2>2. dominators[n] # {n}
    BY <1>1, <1>3, <1>6, <2>1
  <2>3. n \in Fed(edges, reachable, {Entry}) /\ {Entry} \in SUBSET reachable
    BY <1>3, ForwardIsFed
  <2>4. \E p \in Fed(edges, reachable, {Entry}) \ {n} :
          Immediate(dominators, n) = {p} /\ dominators[n] = dominators[p] \union {n}
    <3>1. IsFiniteSet(reachable) /\ Exact(edges, reachable, {Entry}, dominators)
      BY <1>1, ReachableShape DEF Exact
    <3>2. ParentFound(edges, reachable, {Entry}, dominators, n)
      BY <2>3, <3>1, ImmediateIsParent
    <3> QED
      BY <2>2, <3>2 DEF ParentFound
  <2> QED
    BY <1>2, <2>4, ForwardIsFed
<1> QED
  BY <1>5, <1>6 DEF DominatorsFormTree

\* The edges turned round, between reachable blocks.
Backwards == {<<y, x>> : y \in reachable, x \in reachable} \intersect {<<e[2], e[1]>> : e \in edges}

\* Backwards the blocks that leave are fed from the exits, and the sets are the
\* post-dominators.
LEMMA BackwardIsFed ==
  ASSUME GraphFixed, reverse, FixpointInv
  PROVE  /\ roots \in SUBSET reachable
         /\ \A n \in reachable : n \in Fed(Backwards, reachable, roots) <=> Leaves(n)
         /\ \A d, n \in reachable :
              Over(Backwards, reachable, roots, d, n) <=> Fixpoint!Dominates(d, n)
<1>1. roots = Fixpoint!Exits(edges, reachable) /\ roots \in SUBSET reachable
  BY DEF FixpointInv, FixpointShape, Fixpoint!Roots, Fixpoint!Exits
<1>2. \A x, y \in reachable : <<x, y>> \in Backwards <=> <<y, x>> \in edges
  <2>1. \A e \in edges : e = <<e[1], e[2]>>
    BY ReachableShape
  <2> QED
    BY <2>1 DEF Backwards
<1>3. \A x, y \in reachable : x \in Fixpoint!Feeds(y) <=> <<y, x>> \in edges
  BY ReachableShape DEF Fixpoint!Feeds, Fixpoint!Successors, Fixpoint!Block, Block
<1>4. \A y : Fixpoint!Feeds(y) \subseteq reachable
  BY DEF Fixpoint!Feeds
<1>5. \A S \in SUBSET reachable, d, n \in reachable :
        Cuts(Backwards, reachable, roots, S, d, n) <=> Fixpoint!Separates(S, d, n)
  BY <1>2, <1>3, <1>4 DEF Cuts, Fixpoint!Separates
<1>6. ASSUME NEW n \in reachable PROVE n \in Fed(Backwards, reachable, roots) <=> Leaves(n)
  <2>1. ASSUME NEW S \in SUBSET reachable
        PROVE  Closed(edges, S) <=>
                 \A x \in reachable \ S, y \in reachable :
                   <<x, y>> \in Backwards => y \in reachable \ S
    <3>1. Closed(edges, S) <=> \A x \in S, y \in reachable : <<x, y>> \in edges => y \in S
      <4>1. \A e \in edges : e = <<e[1], e[2]>>
        BY ReachableShape
      <4>2. \A e \in edges : e[1] \in reachable => e[2] \in reachable
        BY ReachableShape DEF Closed
      <4>3. ASSUME Closed(edges, S), NEW x \in S, NEW y \in reachable, <<x, y>> \in edges
            PROVE  y \in S
        BY <4>3 DEF Closed
      <4>4. ASSUME \A x \in S, y \in reachable : <<x, y>> \in edges => y \in S,
                   NEW e \in edges, e[1] \in S
            PROVE  e[2] \in S
        BY <4>1, <4>2, <4>4
      <4> QED
        BY <4>3, <4>4 DEF Closed
    <3> QED
      BY <1>2, <3>1
  <2>2. ASSUME n \in Fed(Backwards, reachable, roots),
               NEW S \in SUBSET reachable, n \in S, Closed(edges, S)
        PROVE  S \intersect roots # {}
    <3> DEFINE T == reachable \ S
    <3>1. \A x \in T, y \in reachable : <<x, y>> \in Backwards => y \in T
      BY <2>1, <2>2
    <3>2. T \in SUBSET reachable /\ n \notin T
      BY <2>2
    <3>3. S \intersect roots = {} => roots \subseteq T
      BY <1>1
    <3> HIDE DEF T
    <3> QED
      BY <2>2, <3>1, <3>2, <3>3 DEF Fed
  <2>3. ASSUME Leaves(n), NEW T \in SUBSET reachable, roots \subseteq T,
               \A x \in T, y \in reachable : <<x, y>> \in Backwards => y \in T
        PROVE  n \in T
    <3> DEFINE S == reachable \ T
    <3>1. T = reachable \ S /\ S \in SUBSET reachable
      BY <2>3
    <3>2. S \intersect roots = {}
      BY <2>3
    <3> HIDE DEF S
    <3>3. Closed(edges, S)
      BY <2>1, <2>3, <3>1
    <3> QED
      BY <1>1, <2>3, <3>1, <3>2, <3>3 DEF Leaves
  <2> QED
    BY <1>1, <2>2, <2>3 DEF Fed, Leaves
<1> QED
  BY <1>1, <1>5, <1>6 DEF Over, Fixpoint!Dominates

\* The immediate post-dominators are those of a forest.
LEMMA ForestOfPostDominators ==
  ASSUME GraphFixed, PostKnown
  PROVE  PostDominatorsFormForest
<1>1. /\ reverse /\ FixpointInv
      /\ \A m \in reachable : result[m] = {d \in reachable : Fixpoint!Dominates(d, m)}
      /\ \A m \in reachable : immediatePost[m] = Immediate(result, m)
  BY ExactWhenFinished DEF PostKnown, Fixpoint!ComputesDominators
<1>2. \A m \in reachable :
        result[m] = {d \in reachable : Over(Backwards, reachable, roots, d, m)}
  BY <1>1, BackwardIsFed
<1>3. ASSUME NEW n \in reachable, Leaves(n)
      PROVE  \/ immediatePost[n] = {} /\ result[n] = {n}
             \/ \E p \in reachable \ {n} :
                  Leaves(p) /\ immediatePost[n] = {p} /\ result[n] = result[p] \union {n}
  <2>1. n \in Fed(Backwards, reachable, roots) /\ roots \in SUBSET reachable
    BY <1>1, <1>3, BackwardIsFed
  <2>2. \/ Immediate(result, n) = {} /\ result[n] = {n}
        \/ \E p \in Fed(Backwards, reachable, roots) \ {n} :
             Immediate(result, n) = {p} /\ result[n] = result[p] \union {n}
    <3>1. IsFiniteSet(reachable) /\ Exact(Backwards, reachable, roots, result)
      BY <1>2, ReachableShape DEF Exact
    <3>2. ParentFound(Backwards, reachable, roots, result, n)
      BY <2>1, <3>1, ImmediateIsParent
    <3> QED
      BY <3>2 DEF ParentFound
  <2>3. \A p \in Fed(Backwards, reachable, roots) : p \in reachable /\ Leaves(p)
    BY <1>1, BackwardIsFed DEF Fed
  <2> QED
    BY <1>1, <2>2, <2>3
<1> QED
  BY <1>3 DEF PostDominatorsFormForest

\* The immediate dominators are a tree with the entry at its root, the immediate
\* post-dominators of the blocks that leave a forest, whatever order _immediate
\* tries the candidates in.
THEOREM DominatorsAreTree == Spec => []DominatorTree
<1>1. Inv => DominatorTree
  BY TreeOfDominators, ForestOfPostDominators DEF Inv, DominatorTree
<1> QED
  BY InvHolds, <1>1, PTL
=============================================================================
