------------------------ MODULE ConditionPlanProofs ------------------------
(***************************************************************************)
(* A condition is refused exactly when its jumps lead in a circle, however *)
(* many jumps there are and however they are connected.                    *)
(*                                                                         *)
(* The stack decides.  A jump that waits has the jumps it waits for above  *)
(* it, so they are there when it is the top again.  The waiting jumps are  *)
(* a path from the entry, each a side of the one below, so a waiting jump  *)
(* that turns up on top once more closes a circle.  And each jump is       *)
(* expanded once, for three entries of the stack, which the work limit     *)
(* allows for.                                                             *)
(*                                                                         *)
(* And what is planned means the jumps.  _combine_decision makes `true if  *)
(* predicate else false` of the two sides in every one of its cases, so    *)
(* each expression means the jumps from its offset once those of its       *)
(* sides do.                                                               *)
(***************************************************************************)
EXTENDS ConditionPlan, TLAPS, SequenceTheorems, FiniteSetTheorems, WellFoundedInduction

Collected == DOMAIN nodes \union endpoints
Item      == Collected \X BOOLEAN
Recovered == DOMAIN expressions

\* The places of the stack, the offset at one, and whether it waits for its sides.
Places   == 1 .. Len(pending)
Jump(i)  == pending[i][1]
Waits(i) == pending[i][2] = TRUE

Typed == /\ IsFiniteSet(DOMAIN nodes) /\ Entry \in DOMAIN nodes
         /\ \A n \in DOMAIN nodes : Sides(n) \subseteq Collected
         /\ pending \in Seq(Item)
         /\ Recovered \subseteq Collected
         /\ active \subseteq DOMAIN nodes \ Recovered
         /\ work \in Nat
         /\ outcome \in {"running", "planned", "refused"}

\* The active jumps are those that wait, each at one place.
ActiveWait ==
  /\ \A i \in Places : Waits(i) => Jump(i) \in active
  /\ \A n \in active : \E i \in Places : Waits(i) /\ Jump(i) = n
  /\ \A i, j \in Places : Waits(i) /\ Waits(j) /\ Jump(i) = Jump(j) => i = j

\* Jumps that were never expanded: each will cost three more entries.
Untouched == DOMAIN nodes \ (active \union Recovered)

Budget == work + Len(pending) + 3 * Cardinality(Untouched) = 1 + 3 * Cardinality(DOMAIN nodes)

\* What a waiting jump waits for lies above it.
SidesAbove ==
  \A i \in Places : Waits(i) =>
    \A c \in Sides(Jump(i)) : c \in Recovered \/ \E j \in i + 1 .. Len(pending) : Jump(j) = c

\* From a waiting jump to the next one, all entries are its sides.
Path ==
  \A i, j \in Places :
    i < j /\ Waits(i) /\ (\A k \in i + 1 .. j - 1 : ~Waits(k)) => Jump(j) \in Sides(Jump(i))

FromEntry == /\ \A i \in Places : Jump(i) \in DOMAIN nodes => Jump(i) \in Reached
             /\ IF pending = <<>> THEN Entry \in Recovered ELSE Jump(1) = Entry

\* Parts are recovered after their sides, so they hold no circle.
NoCircleRecovered ==
  /\ \A n \in DOMAIN nodes \intersect Recovered : Sides(n) \subseteq Recovered
  /\ \A S \in SUBSET (DOMAIN nodes \intersect Recovered) : ~Cycles(S)

Ended == /\ outcome = "planned" => pending = <<>>
         /\ outcome = "refused" => Cyclic

Inv == /\ Typed /\ ActiveWait /\ Budget /\ SidesAbove /\ Path /\ FromEntry
       /\ NoCircleRecovered /\ Ended
-----------------------------------------------------------------------------
\* The work limit is more than three entries for each jump.
LEMMA WorkLimitSuffices ==
  ASSUME IsFiniteSet(DOMAIN nodes)
  PROVE  /\ WorkLimit \in Nat /\ Cardinality(DOMAIN nodes) \in Nat
         /\ WorkLimit > 1 + 3 * Cardinality(DOMAIN nodes)
<1> DEFINE n == Cardinality(DOMAIN nodes)
<1>1. n \in Nat
  BY FS_CardinalityType
<1> HIDE DEF n
<1>2. \E m \in {64, 6 * n + 16} : \A k \in {64, 6 * n + 16} : m >= k
  <2>1. CASE 64 >= 6 * n + 16
    BY <1>1, <2>1
  <2>2. CASE 6 * n + 16 >= 64
    BY <1>1, <2>2
  <2> QED
    BY <1>1, <2>1, <2>2
<1>3. /\ Max({64, 6 * n + 16}) \in {64, 6 * n + 16}
      /\ Max({64, 6 * n + 16}) >= 6 * n + 16
  BY <1>2 DEF Max
<1> QED
  BY <1>1, <1>3 DEF WorkLimit, n

\* What comes last in a sequence, and the rest of it.
LEMMA FrontAndLast ==
  ASSUME NEW S, NEW s \in Seq(S), s # <<>>
  PROVE  /\ Front(s) \in Seq(S) /\ Len(s) \in Nat \ {0}
         /\ Len(Front(s)) = Len(s) - 1
         /\ \A i \in 1 .. Len(s) - 1 : Front(s)[i] = s[i]
         /\ Last(s) = s[Len(s)] /\ Last(s) \in S
<1>1. Len(s) \in Nat \ {0}
  BY EmptySeq
<1>2. \A i \in 1 .. Len(s) - 1 : s[i] \in S
  BY ElementOfSeq
<1>3. /\ Front(s) \in Seq(S)
      /\ Len(Front(s)) = Len(s) - 1
      /\ \A i \in 1 .. Len(s) - 1 : Front(s)[i] = s[i]
  <2> DEFINE m == Len(s) - 1
  <2>1. m \in Nat
    BY <1>1
  <2>2. \A i \in 1 .. m : s[i] \in S
    BY <1>2
  <2> HIDE DEF m
  <2>3. /\ SubSeq(s, 1, m) \in Seq(S)
        /\ Len(SubSeq(s, 1, m)) = IF 1 <= m THEN m - 1 + 1 ELSE 0
        /\ \A i \in 1 .. m - 1 + 1 : SubSeq(s, 1, m)[i] = s[1 + i - 1]
    BY <2>1, <2>2, SubSeqProperties
  <2>4. (IF 1 <= m THEN m - 1 + 1 ELSE 0) = m /\ m - 1 + 1 = m
    BY <2>1
  <2>5. \A i \in 1 .. m : 1 + i - 1 = i
    BY <2>1
  <2> QED
    BY <2>3, <2>4, <2>5, Zenon DEF Front, m
<1>4. Last(s) = s[Len(s)] /\ Last(s) \in S
  BY <1>1, ElementOfSeq DEF Last
<1> QED
  BY <1>1, <1>3, <1>4

\* The top of the stack and what is under it.
LEMMA TopAndRest ==
  ASSUME Typed, pending # <<>>
  PROVE  /\ Len(pending) \in Nat \ {0}
         /\ Offset = Jump(Len(pending)) /\ (Expanded = TRUE <=> Waits(Len(pending)))
         /\ Offset \in Collected
         /\ Front(pending) \in Seq(Item) /\ Len(Front(pending)) = Len(pending) - 1
         /\ \A i \in 1 .. Len(pending) - 1 : Front(pending)[i] = pending[i]
<1>1. Len(pending) \in Nat \ {0} /\ pending \in Seq(Item)
  BY EmptySeq DEF Typed
<1>2. \A i \in 1 .. Len(pending) : pending[i] \in Item
  BY <1>1, ElementOfSeq
<1>3. /\ Front(pending) \in Seq(Item)
      /\ Len(Front(pending)) = Len(pending) - 1
      /\ \A i \in 1 .. Len(pending) - 1 : Front(pending)[i] = pending[i]
  BY <1>1, FrontAndLast
<1>4. pending[Len(pending)] \in Collected \X BOOLEAN
  BY <1>1, <1>2 DEF Item
<1> QED
  BY <1>1, <1>3, <1>4 DEF Offset, Expanded, Last, Jump, Waits

\* What the top waits for has been recovered.
LEMMA TopIsResolved ==
  ASSUME Inv, pending # <<>>, Waits(Len(pending))
  PROVE  Offset \in DOMAIN nodes /\ Offset \in active /\ Resolved
<1>1. Len(pending) \in Nat \ {0} /\ Offset = Jump(Len(pending))
  BY TopAndRest DEF Inv
<1>2. Len(pending) \in Places
  BY <1>1 DEF Places
<1>3. Offset \in active /\ Offset \in DOMAIN nodes
  BY <1>1, <1>2 DEF Inv, ActiveWait, Typed
<1>4. ASSUME NEW c \in Sides(Offset) PROVE c \in Recovered
  <2>1. Len(pending) + 1 .. Len(pending) = {}
    BY <1>1
  <2> QED
    BY <1>1, <1>2, <1>4, <2>1 DEF Inv, SidesAbove
<1> QED
  BY <1>3, <1>4 DEF Resolved, Recovered

\* The budget is never used up.
LEMMA WorkIsLeft ==
  ASSUME Inv
  PROVE  work \in Nat /\ work < WorkLimit
<1>1. IsFiniteSet(Untouched)
  BY FS_Subset DEF Inv, Typed, Untouched
<1>2. Cardinality(Untouched) \in Nat /\ Len(pending) \in Nat /\ work \in Nat
  BY <1>1, FS_CardinalityType, LenProperties DEF Inv, Typed
<1>3. /\ WorkLimit \in Nat /\ Cardinality(DOMAIN nodes) \in Nat
      /\ WorkLimit > 1 + 3 * Cardinality(DOMAIN nodes)
  BY WorkLimitSuffices DEF Inv, Typed
<1> QED
  BY <1>2, <1>3 DEF Inv, Budget

\* A set of numbers that is not empty has a least element.
LEMMA LeastPlace ==
  ASSUME NEW S, S \subseteq Nat, S # {}
  PROVE  \E m \in S : \A n \in S : m <= n
<1> DEFINE T == {0 .. n : n \in S}
<1>1. T \in SUBSET FiniteSubsetsOf(Nat) /\ T # {}
  <2>1. \A n \in S : 0 .. n \subseteq Nat /\ IsFiniteSet(0 .. n)
    BY FS_Interval
  <2> QED
    BY <2>1 DEF FiniteSubsetsOf
<1>2. IsWellFoundedOn(StrictSubsetOrdering(Nat), FiniteSubsetsOf(Nat))
  BY FS_StrictSubsetOrderingWellFounded
<1> HIDE DEF T
<1>3. PICK I \in T : \A J \in T : ~(<<J, I>> \in StrictSubsetOrdering(Nat))
  BY <1>1, <1>2, WFMin
<1>4. PICK m \in S : I = 0 .. m
  BY <1>3 DEF T
<1>5. ASSUME NEW n \in S, n < m PROVE FALSE
  <2>1. 0 .. n \in T
    BY DEF T
  <2>2. 0 .. n \subseteq 0 .. m /\ m \notin 0 .. n /\ m \in 0 .. m
    BY <1>5
  <2>3. <<0 .. n, 0 .. m>> \in (SUBSET Nat) \X (SUBSET Nat)
    OBVIOUS
  <2>4. <<0 .. n, 0 .. m>> \in StrictSubsetOrdering(Nat)
    BY <2>2, <2>3 DEF StrictSubsetOrdering
  <2> QED
    BY <1>3, <1>4, <2>1, <2>4
<1> QED
  BY <1>5

\* A waiting jump that is the top again: the jumps from its place on lead back to it.
LEMMA CircleFound ==
  ASSUME Inv, pending # <<>>, ~Waits(Len(pending)), Offset \in active
  PROVE  Cyclic
<1> DEFINE L == Len(pending)
<1>1. L \in Nat \ {0} /\ Offset = Jump(L) /\ L \in Places /\ ~Waits(L)
  BY TopAndRest DEF Inv, Places
<1>2. PICK p \in Places : Waits(p) /\ Jump(p) = Offset
  BY DEF Inv, ActiveWait
<1> DEFINE W == {i \in p .. L : Waits(i)}
           S == {Jump(i) : i \in W}
<1>3. Places \subseteq Nat /\ W \subseteq Places /\ p \in W
  BY <1>1, <1>2 DEF Places
<1>4. Places = 1 .. L
  BY DEF Places
<1> HIDE DEF L
<1>5. ASSUME NEW i \in W PROVE Sides(Jump(i)) \intersect S # {}
  <2> DEFINE Next1 == {j \in W : i < j}
  <2>1. CASE Next1 = {}
    <3>1. i < L /\ \A k \in i + 1 .. L - 1 : ~Waits(k)
      <4>1. i \in p .. L /\ i # L /\ p \in Nat
        BY <1>1, <1>3
      <4>2. ASSUME NEW k \in i + 1 .. L - 1, Waits(k) PROVE FALSE
        BY <1>1, <2>1, <4>1, <4>2
      <4> QED
        BY <1>1, <4>1, <4>2
    <3>2. Jump(L) \in Sides(Jump(i))
      BY <1>1, <1>3, <3>1 DEF Inv, Path
    <3> QED
      BY <1>1, <1>2, <1>3, <3>2
  <2>2. CASE Next1 # {}
    <3>1. PICK j \in Next1 : \A k \in Next1 : j <= k
      BY <1>3, <2>2, LeastPlace
    <3>2. \A k \in i + 1 .. j - 1 : ~Waits(k)
      <4> SUFFICES ASSUME NEW k \in i + 1 .. j - 1, Waits(k) PROVE FALSE
        OBVIOUS
      <4>1. i \in p .. L /\ j \in p .. L /\ p \in Nat /\ i < j
        BY <1>3
      <4>2. k \in Next1 /\ k < j /\ k \in Nat
        BY <1>1, <4>1
      <4> QED
        BY <1>1, <3>1, <4>1, <4>2
    <3>3. Jump(j) \in Sides(Jump(i))
      BY <1>3, <3>2 DEF Inv, Path
    <3> QED
      BY <3>3
  <2> QED
    BY <2>1, <2>2
<1>6. S \subseteq Reached
  BY <1>3 DEF Inv, ActiveWait, FromEntry, Typed
<1>7. S # {}
  BY <1>3
<1>8. Cycles(S)
  BY <1>5, <1>7 DEF Cycles
<1> QED
  BY <1>6, <1>8 DEF Cyclic
-----------------------------------------------------------------------------
\* What can be reached and what is a circle depend on the jumps only.
LEMMA SameJumps ==
  ASSUME UNCHANGED nodes
  PROVE  /\ \A n : Sides(n)' = Sides(n)
         /\ \A S : Cycles(S)' <=> Cycles(S)
         /\ Reached' = Reached /\ (Cyclic' <=> Cyclic)
<1>1. \A n : Sides(n)' = Sides(n)
  BY DEF Sides
<1>2. \A S : Cycles(S)' <=> Cycles(S)
  BY <1>1 DEF Cycles
<1>3. \A S : Closed(S)' <=> Closed(S)
  BY <1>1 DEF Closed
<1>4. Reached' = Reached
  BY <1>3 DEF Reached
<1> QED
  BY <1>1, <1>2, <1>4 DEF Cyclic

\* A side of a reached jump is reached if it is a jump.
LEMMA SidesAreReached ==
  ASSUME NEW n \in Reached, NEW c \in Sides(n) \intersect DOMAIN nodes
  PROVE  c \in Reached
BY DEF Reached, Closed

\* The entry alone is on the stack.
LEMMA InitInv == Init => Inv
<1> SUFFICES ASSUME Init PROVE Inv
  OBVIOUS
<1>1. PICK plan \in Plans : nodes = plan.nodes /\ endpoints = plan.endpoints
  BY DEF Init
<1>2. /\ IsFiniteSet(DOMAIN nodes) /\ Entry \in DOMAIN nodes
      /\ \A n \in DOMAIN nodes : Sides(n) \subseteq Collected
  BY <1>1, PlansAssumption DEF Sides, Collected
<1>3. /\ pending = <<<<Entry, FALSE>>>> /\ Recovered = {} /\ active = {} /\ work = 0
      /\ outcome = "running"
  BY DEF Init, Recovered
<1>4. /\ pending \in Seq(Item) /\ Len(pending) = 1 /\ pending # <<>>
      /\ pending[1] = <<Entry, FALSE>>
  <2>1. <<Entry, FALSE>> \in Item
    BY <1>2 DEF Item, Collected
  <2>2. ASSUME NEW x \in Item
        PROVE  <<x>> \in Seq(Item) /\ Len(<<x>>) = 1 /\ <<x>> # <<>> /\ <<x>>[1] = x
    OBVIOUS
  <2> QED
    BY <1>3, <2>1, <2>2
<1>5. Places = {1} /\ Jump(1) = Entry /\ ~Waits(1)
  BY <1>4 DEF Places, Jump, Waits
<1>6. Typed
  BY <1>2, <1>3, <1>4 DEF Typed
<1>7. ActiveWait /\ SidesAbove /\ Path
  BY <1>3, <1>5 DEF ActiveWait, SidesAbove, Path
<1>8. Budget
  <2>1. Untouched = DOMAIN nodes /\ Cardinality(DOMAIN nodes) \in Nat
    BY <1>2, <1>3, FS_CardinalityType DEF Untouched
  <2> QED
    BY <1>3, <1>4, <2>1 DEF Budget
<1>9. FromEntry
  <2>1. Entry \in Reached
    BY <1>2 DEF Reached
  <2> QED
    BY <1>4, <1>5, <2>1 DEF FromEntry
<1>10. NoCircleRecovered
  BY <1>3 DEF NoCircleRecovered, Cycles
<1>11. Ended
  BY <1>3 DEF Ended
<1> QED
  BY <1>6, <1>7, <1>8, <1>9, <1>10, <1>11 DEF Inv

\* Skip, Endpoint and Resolve: the top goes, and its offset has an expression.
Settled == /\ pending # <<>> /\ outcome = "running"
           /\ UNCHANGED <<nodes, endpoints, outcome>>
           /\ work' = work + 1
           /\ pending' = Front(pending)
           /\ Recovered' = Recovered \union {Offset}
           /\ active' = active \ {Offset}
           /\ Offset \in active <=> Waits(Len(pending))
           /\ Offset \in DOMAIN nodes => Sides(Offset) \subseteq Recovered
           /\ Offset \in DOMAIN nodes => Offset \in active \union Recovered

LEMMA SkipSettles == Inv /\ Skip => Settled
<1> SUFFICES ASSUME Inv, Skip PROVE Settled
  OBVIOUS
<1>1. pending # <<>> /\ Offset \in Recovered
  BY DEF Skip, Pop, Recovered
<1>2. Offset \notin active
  BY <1>1 DEF Inv, Typed
<1>3. ~Waits(Len(pending))
  BY <1>1, <1>2, TopIsResolved
<1>4. Offset \in DOMAIN nodes => Sides(Offset) \subseteq Recovered
  BY <1>1 DEF Inv, NoCircleRecovered
<1> QED
  BY <1>1, <1>2, <1>3, <1>4 DEF Settled, Skip, Pop, Recovered

LEMMA EndpointSettles == Inv /\ Endpoint => Settled
<1> SUFFICES ASSUME Inv, Endpoint PROVE Settled
  OBVIOUS
<1>1. pending # <<>> /\ Offset \notin DOMAIN nodes
  BY DEF Endpoint, Pop
<1>2. Offset \notin active
  BY <1>1 DEF Inv, Typed
<1>3. ~Waits(Len(pending))
  BY <1>1, <1>2, TopIsResolved
<1>4. Recovered' = Recovered \union {Offset}
  BY DEF Endpoint, Recover, Recovered
<1> QED
  BY <1>1, <1>2, <1>3, <1>4 DEF Settled, Endpoint, Pop

LEMMA ResolveSettles == Inv /\ Resolve => Settled
<1> SUFFICES ASSUME Inv, Resolve PROVE Settled
  OBVIOUS
<1>1. pending # <<>> /\ Expanded = TRUE
  BY DEF Resolve, Pop, At
<1>2. Waits(Len(pending))
  BY <1>1, TopAndRest DEF Inv
<1>3. Offset \in active /\ Offset \in DOMAIN nodes /\ Sides(Offset) \subseteq Recovered
  BY <1>1, <1>2, TopIsResolved DEF Resolved, Recovered
<1>4. Recovered' = Recovered \union {Offset}
  BY DEF Resolve, Recover, Recovered
<1> QED
  BY <1>1, <1>2, <1>3, <1>4 DEF Settled, Resolve, Pop

\* The first entry of the stack stays where it is until it goes last.
LEMMA SettledInv == Inv /\ Settled => Inv'
<1> SUFFICES ASSUME Inv, Settled PROVE Inv'
  OBVIOUS
<1> DEFINE L == Len(pending)
<1>1. /\ L \in Nat \ {0} /\ Offset = Jump(L) /\ Offset \in Collected /\ L \in Places
      /\ pending' \in Seq(Item) /\ Len(pending') = L - 1
      /\ \A i \in 1 .. L - 1 : pending'[i] = pending[i]
  BY TopAndRest DEF Inv, Settled, Places
<1>2. Item' = Item /\ Collected' = Collected /\ DOMAIN nodes' = DOMAIN nodes
  BY DEF Settled, Item, Collected
<1>3. Places = 1 .. L /\ Places' = 1 .. L - 1 /\ Places' \subseteq Places /\ L \notin Places'
  BY <1>1 DEF Places
<1>4. \A i \in Places' : Jump(i)' = Jump(i) /\ (Waits(i)' <=> Waits(i))
  BY <1>1, <1>3 DEF Jump, Waits
<1>5. /\ \A n : Sides(n)' = Sides(n)
      /\ \A S : Cycles(S)' <=> Cycles(S)
      /\ Reached' = Reached /\ (Cyclic' <=> Cyclic)
  BY SameJumps DEF Settled
<1> HIDE DEF L
<1>6. Typed'
  BY <1>1, <1>2, <1>5 DEF Inv, Settled, Typed
<1>7. ActiveWait'
  <2>1. ASSUME NEW i \in Places', Waits(i)' PROVE Jump(i)' \in active'
    <3>1. Waits(i) /\ Jump(i) \in active /\ i # L
      BY <1>3, <1>4, <2>1 DEF Inv, ActiveWait
    <3>2. Jump(i) # Offset
      BY <1>1, <1>3, <3>1 DEF Inv, ActiveWait, Settled, L
    <3> QED
      BY <1>4, <3>1, <3>2 DEF Settled
  <2>2. ASSUME NEW n \in active' PROVE \E i \in Places' : Waits(i)' /\ Jump(i)' = n
    <3>1. n \in active /\ n # Offset
      BY DEF Settled
    <3>2. PICK i \in Places : Waits(i) /\ Jump(i) = n
      BY <3>1 DEF Inv, ActiveWait
    <3>3. i \in Places'
      BY <1>1, <1>3, <3>1, <3>2
    <3> QED
      BY <1>4, <3>2, <3>3
  <2>3. ASSUME NEW i \in Places', NEW j \in Places', Waits(i)', Waits(j)', Jump(i)' = Jump(j)'
        PROVE  i = j
    BY <1>3, <1>4, <2>3 DEF Inv, ActiveWait
  <2> QED
    BY <2>1, <2>2, <2>3 DEF ActiveWait
<1>8. Budget'
  <2>1. Untouched' = Untouched
    BY <1>2 DEF Settled, Untouched
  <2>2. IsFiniteSet(Untouched)
    BY FS_Subset DEF Inv, Typed, Untouched
  <2>3. Cardinality(Untouched) \in Nat /\ work \in Nat
    BY <2>2, FS_CardinalityType DEF Inv, Typed
  <2>4. work' + Len(pending') = work + Len(pending)
    BY <1>1, <2>3 DEF Settled, L
  <2> QED
    BY <1>2, <2>1, <2>4 DEF Inv, Budget
<1>9. SidesAbove'
  <2> SUFFICES ASSUME NEW i \in Places', Waits(i)', NEW c \in Sides(Jump(i))', c \notin Recovered'
               PROVE  \E j \in i + 1 .. Len(pending') : Jump(j)' = c
    BY DEF SidesAbove
  <2>1. i \in Places /\ Waits(i) /\ c \in Sides(Jump(i)) /\ c \notin Recovered /\ c # Offset
    BY <1>3, <1>4, <1>5 DEF Settled
  <2>2. PICK j \in i + 1 .. L : Jump(j) = c
    BY <2>1 DEF Inv, SidesAbove, L
  <2>3. i \in Nat /\ i >= 1 /\ j # L
    BY <1>1, <1>3, <2>1, <2>2
  <2>4. j \in i + 1 .. Len(pending') /\ j \in Places'
    BY <1>1, <1>3, <2>2, <2>3
  <2> QED
    BY <1>4, <2>2, <2>4
<1>10. Path'
  <2> SUFFICES ASSUME NEW i \in Places', NEW j \in Places', i < j, Waits(i)',
                      \A k \in i + 1 .. j - 1 : ~Waits(k)'
               PROVE  Jump(j)' \in Sides(Jump(i))'
    BY DEF Path
  <2>1. \A k \in i + 1 .. j - 1 : k \in Places'
    BY <1>1, <1>3
  <2>2. \A k \in i + 1 .. j - 1 : ~Waits(k)
    BY <1>4, <2>1
  <2>3. Jump(j) \in Sides(Jump(i))
    BY <1>3, <1>4, <2>2 DEF Inv, Path
  <2> QED
    BY <1>4, <1>5, <2>3
<1>11. FromEntry'
  <2>1. ASSUME NEW i \in Places', Jump(i)' \in DOMAIN nodes' PROVE Jump(i)' \in Reached'
    BY <1>2, <1>3, <1>4, <1>5, <2>1 DEF Inv, FromEntry
  <2>2. Jump(1) = Entry
    BY DEF Inv, FromEntry, Settled
  <2>3. CASE L = 1
    BY <1>1, <2>1, <2>2, <2>3 DEF FromEntry, Settled
  <2>4. CASE L # 1
    <3>1. 1 \in Places' /\ pending' # <<>>
      BY <1>1, <1>3, <2>4
    <3> QED
      BY <1>4, <2>1, <2>2, <3>1 DEF FromEntry
  <2> QED
    BY <2>3, <2>4
<1>12. NoCircleRecovered'
  <2>1. \A n \in DOMAIN nodes \intersect Recovered' : Sides(n) \subseteq Recovered
    BY DEF Inv, NoCircleRecovered, Settled
  <2>2. ASSUME NEW S \in SUBSET (DOMAIN nodes \intersect Recovered'), Cycles(S) PROVE FALSE
    <3>1. CASE Offset \notin Recovered
      <4> DEFINE R == S \ {Offset}
      <4>1. ASSUME NEW n \in S PROVE Sides(n) \intersect R # {}
        <5>1. Sides(n) \subseteq Recovered /\ Sides(n) \intersect S # {}
          BY <2>1, <2>2 DEF Cycles
        <5> QED
          BY <3>1, <5>1
      <4>2. R \in SUBSET (DOMAIN nodes \intersect Recovered)
        BY DEF Settled
      <4>3. Cycles(R)
        BY <2>2, <4>1 DEF Cycles
      <4> QED
        BY <4>2, <4>3 DEF Inv, NoCircleRecovered
    <3>2. CASE Offset \in Recovered
      BY <2>2, <3>2 DEF Inv, NoCircleRecovered, Settled
    <3> QED
      BY <3>1, <3>2
  <2> QED
    BY <1>2, <1>5, <2>1, <2>2 DEF NoCircleRecovered, Settled
<1>13. Ended'
  BY DEF Ended, Settled
<1> QED
  BY <1>6, <1>7, <1>8, <1>9, <1>10, <1>11, <1>12, <1>13 DEF Inv

\* Three entries in a row.
LEMMA ThreeItems ==
  ASSUME NEW T, NEW a \in T, NEW b \in T, NEW c \in T
  PROVE  /\ <<a, b, c>> \in Seq(T) /\ Len(<<a, b, c>>) = 3
         /\ <<a, b, c>>[1] = a /\ <<a, b, c>>[2] = b /\ <<a, b, c>>[3] = c
OBVIOUS

\* Three entries put on a stack.
LEMMA PushThree ==
  ASSUME NEW T, NEW f \in Seq(T), NEW a \in T, NEW b \in T, NEW c \in T, NEW m \in Nat, Len(f) = m
  PROVE  /\ f \o <<a, b, c>> \in Seq(T) /\ Len(f \o <<a, b, c>>) = m + 3
         /\ \A i \in 1 .. m : (f \o <<a, b, c>>)[i] = f[i]
         /\ (f \o <<a, b, c>>)[m + 1] = a /\ (f \o <<a, b, c>>)[m + 2] = b
         /\ (f \o <<a, b, c>>)[m + 3] = c
<1> DEFINE g == <<a, b, c>>
           h == f \o g
<1>1. g \in Seq(T) /\ Len(g) = 3 /\ g[1] = a /\ g[2] = b /\ g[3] = c
  BY ThreeItems
<1> HIDE DEF g
<1>2. h \in Seq(T) /\ Len(h) = Len(f) + Len(g)
      /\ \A i \in 1 .. Len(f) + Len(g) : h[i] = IF i <= Len(f) THEN f[i] ELSE g[i - Len(f)]
  BY <1>1, ConcatProperties
<1> HIDE DEF h
<1>3. \A i \in 1 .. m + 3 : h[i] = IF i <= m THEN f[i] ELSE g[i - m]
  BY <1>1, <1>2
<1>4. ASSUME NEW k \in 1 .. 3 PROVE h[m + k] = g[k]
  <2>1. PICK i \in 1 .. m + 3 : i = m + k /\ ~(i <= m) /\ i - m = k
    OBVIOUS
  <2>2. h[i] = g[i - m]
    BY <1>3, <2>1
  <2> QED
    BY <2>1, <2>2, Zenon
<1>5. 1 \in 1 .. 3 /\ 2 \in 1 .. 3 /\ 3 \in 1 .. 3
  OBVIOUS
<1>6. h[m + 1] = g[1] /\ h[m + 2] = g[2] /\ h[m + 3] = g[3]
  BY <1>4, <1>5, Zenon
<1>7. \A i \in 1 .. m : h[i] = f[i]
  BY <1>3
<1> QED
  BY <1>1, <1>2, <1>6, <1>7 DEF h, g

\* Expand: the top waits from now on, and its sides are put on it.
LEMMA ExpandInv == Inv /\ Expand => Inv'
<1> SUFFICES ASSUME Inv, Expand PROVE Inv'
  OBVIOUS
<1>0. PICK L, top, true, false :
        /\ L = Len(pending) /\ top = Offset
        /\ true = nodes[Offset].true /\ false = nodes[Offset].false
  OBVIOUS
<1>1. /\ pending # <<>> /\ outcome = "running"
      /\ top \in DOMAIN nodes \ Recovered /\ Expanded = FALSE /\ top \notin active
      /\ UNCHANGED <<nodes, endpoints, expressions, outcome>>
      /\ work' = work + 1 /\ active' = active \union {top}
  BY <1>0 DEF Expand, Pop, At, Recovered
<1>2. /\ L \in Nat \ {0} /\ top = Jump(L) /\ ~Waits(L)
      /\ Front(pending) \in Seq(Item) /\ Len(Front(pending)) = L - 1
      /\ \A i \in 1 .. L - 1 : Front(pending)[i] = pending[i]
  BY <1>0, <1>1, TopAndRest DEF Inv
<1>3. Sides(top) = {true, false} /\ true \in Collected /\ false \in Collected
  BY <1>0, <1>1 DEF Inv, Typed, Sides
<1>4. /\ pending' \in Seq(Item) /\ Len(pending') = L + 2
      /\ \A i \in 1 .. L - 1 : pending'[i] = pending[i]
      /\ pending'[L] = <<top, TRUE>>
      /\ pending'[L + 1] = <<false, FALSE>> /\ pending'[L + 2] = <<true, FALSE>>
  <2> DEFINE f == Front(pending)
             g == <<<<top, TRUE>>, <<false, FALSE>>, <<true, FALSE>>>>
  <2>1. pending' = f \o g
    BY <1>0 DEF Expand
  <2>2. <<top, TRUE>> \in Item /\ <<false, FALSE>> \in Item /\ <<true, FALSE>> \in Item
    BY <1>1, <1>3 DEF Item, Collected
  <2>3. f \in Seq(Item) /\ Len(f) = L - 1 /\ \A i \in 1 .. L - 1 : f[i] = pending[i]
    BY <1>2
  <2> HIDE DEF f, g
  <2>4. PICK m \in Nat : m = L - 1 /\ m + 1 = L /\ m + 2 = L + 1 /\ m + 3 = L + 2
    BY <1>2
  <2>5. /\ f \o g \in Seq(Item) /\ Len(f \o g) = m + 3
        /\ \A i \in 1 .. m : (f \o g)[i] = f[i]
        /\ (f \o g)[m + 1] = <<top, TRUE>>
        /\ (f \o g)[m + 2] = <<false, FALSE>> /\ (f \o g)[m + 3] = <<true, FALSE>>
    <3>1. PICK a \in Item, b \in Item, c \in Item :
            a = <<top, TRUE>> /\ b = <<false, FALSE>> /\ c = <<true, FALSE>>
      BY <2>2
    <3>2. g = <<a, b, c>> /\ Len(f) = m
      BY <2>3, <2>4, <3>1 DEF g
    <3>3. /\ f \o <<a, b, c>> \in Seq(Item) /\ Len(f \o <<a, b, c>>) = m + 3
          /\ \A i \in 1 .. m : (f \o <<a, b, c>>)[i] = f[i]
          /\ (f \o <<a, b, c>>)[m + 1] = a /\ (f \o <<a, b, c>>)[m + 2] = b
          /\ (f \o <<a, b, c>>)[m + 3] = c
      BY <2>3, <3>2, PushThree
    <3> QED
      BY <3>1, <3>2, <3>3, Zenon
  <2> QED
    BY <2>1, <2>3, <2>4, <2>5, Zenon
<1>5. /\ Places = 1 .. L /\ Places' = 1 .. L + 2 /\ Places \subseteq Places'
      /\ L \in Places /\ L + 1 \in Places' /\ L + 2 \in Places'
      /\ \A i \in Places' : i \in 1 .. L - 1 \/ i = L \/ i = L + 1 \/ i = L + 2
      /\ \A i \in 1 .. L - 1 : i \in Places
  BY <1>0, <1>2, <1>4 DEF Places
<1>6. /\ \A i \in 1 .. L - 1 : Jump(i)' = Jump(i) /\ (Waits(i)' <=> Waits(i))
      /\ Jump(L)' = Jump(L) /\ Waits(L)'
      /\ Jump(L + 1)' = false /\ ~Waits(L + 1)'
      /\ Jump(L + 2)' = true /\ ~Waits(L + 2)'
  BY <1>2, <1>4 DEF Jump, Waits
<1>7. /\ \A n : Sides(n)' = Sides(n)
      /\ \A S : Cycles(S)' <=> Cycles(S)
      /\ Reached' = Reached /\ (Cyclic' <=> Cyclic)
  BY <1>1, SameJumps
<1>8. /\ Item' = Item /\ Collected' = Collected /\ Recovered' = Recovered
      /\ DOMAIN nodes' = DOMAIN nodes
  BY <1>1 DEF Item, Collected, Recovered
<1>9. Typed'
  BY <1>1, <1>4, <1>7, <1>8 DEF Inv, Typed
<1>10. ActiveWait'
  <2>1. ASSUME NEW i \in Places', Waits(i)'
        PROVE  i \in Places /\ Jump(i)' = Jump(i) /\ (Waits(i) \/ i = L)
    BY <1>5, <1>6, <2>1
  <2>2. ASSUME NEW i \in Places', Waits(i)' PROVE Jump(i)' \in active'
    BY <1>1, <1>2, <2>1, <2>2 DEF Inv, ActiveWait
  <2>3. ASSUME NEW n \in active' PROVE \E i \in Places' : Waits(i)' /\ Jump(i)' = n
    <3>1. CASE n = top
      BY <1>2, <1>5, <1>6, <3>1
    <3>2. CASE n # top
      <4>1. PICK i \in Places : Waits(i) /\ Jump(i) = n
        BY <1>1, <3>2 DEF Inv, ActiveWait
      <4>2. i # L /\ i \in Places'
        BY <1>2, <1>5, <4>1
      <4> QED
        BY <1>5, <1>6, <4>1, <4>2
    <3> QED
      BY <3>1, <3>2
  <2>4. ASSUME NEW i \in Places', NEW j \in Places', Waits(i)', Waits(j)', Jump(i)' = Jump(j)'
        PROVE  i = j
    <3>1. /\ i \in Places /\ Jump(i)' = Jump(i) /\ (Waits(i) \/ i = L)
          /\ j \in Places /\ Jump(j)' = Jump(j) /\ (Waits(j) \/ j = L)
      BY <2>1, <2>4
    <3>2. \A k \in Places : Waits(k) => Jump(k) # Jump(L)
      BY <1>1, <1>2 DEF Inv, ActiveWait
    <3> QED
      BY <2>4, <3>1, <3>2 DEF Inv, ActiveWait
  <2> QED
    BY <2>2, <2>3, <2>4 DEF ActiveWait
<1>11. Budget'
  <2>1. Untouched' = Untouched \ {top} /\ top \in Untouched
    BY <1>1, <1>8 DEF Untouched
  <2>2. IsFiniteSet(Untouched)
    BY FS_Subset DEF Inv, Typed, Untouched
  <2>3. /\ Cardinality(Untouched') = Cardinality(Untouched) - 1
        /\ Cardinality(Untouched) \in Nat
    BY <2>1, <2>2, FS_RemoveElement, FS_CardinalityType
  <2>4. work \in Nat
    BY DEF Inv, Typed
  <2>5. work' + Len(pending') = work + Len(pending) + 3
    BY <1>0, <1>1, <1>2, <1>4, <2>4
  <2>6. Cardinality(DOMAIN nodes) \in Nat /\ Len(pending) \in Nat
    BY <1>0, <1>2, FS_CardinalityType DEF Inv, Typed
  <2>7. work + Len(pending) + 3 * Cardinality(Untouched) = 1 + 3 * Cardinality(DOMAIN nodes)
    BY DEF Inv, Budget
  <2> QED
    BY <1>8, <2>3, <2>4, <2>5, <2>6, <2>7 DEF Budget
<1>12. SidesAbove'
  <2> SUFFICES ASSUME NEW i \in Places', Waits(i)', NEW c \in Sides(Jump(i))', c \notin Recovered'
               PROVE  \E j \in i + 1 .. Len(pending') : Jump(j)' = c
    BY DEF SidesAbove
  <2>1. CASE i = L
    <3>1. c \in Sides(top) /\ {L + 1, L + 2} \subseteq i + 1 .. Len(pending')
      BY <1>2, <1>4, <1>6, <1>7, <2>1
    <3> QED
      BY <1>3, <1>6, <3>1
  <2>2. CASE i # L
    <3>1. i \in 1 .. L - 1
      BY <1>5, <1>6, <2>2
    <3>2. c \in Sides(Jump(i)) /\ Waits(i) /\ c \notin Recovered /\ i \in Places
      BY <1>5, <1>6, <1>7, <1>8, <3>1
    <3>3. PICK j \in i + 1 .. L : Jump(j) = c
      BY <1>0, <3>2 DEF Inv, SidesAbove
    <3>4. j \in i + 1 .. Len(pending') /\ (j \in 1 .. L - 1 \/ j = L)
      BY <1>2, <1>4, <3>1
    <3> QED
      BY <1>6, <3>3, <3>4
  <2> QED
    BY <2>1, <2>2
<1>13. Path'
  <2> SUFFICES ASSUME NEW i \in Places', NEW j \in Places', i < j, Waits(i)',
                      \A k \in i + 1 .. j - 1 : ~Waits(k)'
               PROVE  Jump(j)' \in Sides(Jump(i))'
    BY DEF Path
  <2>1. CASE i = L
    <3>1. j = L + 1 \/ j = L + 2
      BY <1>2, <1>5, <2>1
    <3> QED
      BY <1>2, <1>3, <1>6, <1>7, <2>1, <3>1
  <2>2. CASE i # L
    <3>1. i \in 1 .. L - 1
      BY <1>5, <1>6, <2>2
    <3>2. j <= L
      <4> SUFFICES ASSUME j > L PROVE FALSE
        BY <1>2, <1>5
      <4>1. L \in i + 1 .. j - 1
        BY <1>2, <1>5, <3>1
      <4> QED
        BY <1>6, <4>1
    <3>3. \A k \in i + 1 .. j - 1 : ~Waits(k)
      <4>1. \A k \in i + 1 .. j - 1 : k \in 1 .. L - 1
        BY <1>2, <1>5, <3>1, <3>2
      <4> QED
        BY <1>6, <4>1
    <3>4. j \in Places /\ i \in Places /\ Waits(i) /\ Jump(i)' = Jump(i) /\ Jump(j)' = Jump(j)
      BY <1>2, <1>5, <1>6, <3>1, <3>2
    <3>5. Jump(j) \in Sides(Jump(i))
      BY <3>3, <3>4 DEF Inv, Path
    <3> QED
      BY <1>7, <3>4, <3>5
  <2> QED
    BY <2>1, <2>2
<1>14. FromEntry'
  <2>1. top \in Reached
    BY <1>1, <1>2, <1>5 DEF Inv, FromEntry
  <2>2. ASSUME NEW i \in Places', Jump(i)' \in DOMAIN nodes' PROVE Jump(i)' \in Reached'
    <3>1. CASE i = L + 1 \/ i = L + 2
      BY <1>3, <1>6, <1>7, <1>8, <2>1, <2>2, <3>1, SidesAreReached
    <3>2. CASE i \in 1 .. L - 1 \/ i = L
      BY <1>5, <1>6, <1>7, <1>8, <2>2, <3>2 DEF Inv, FromEntry
    <3> QED
      BY <1>5, <3>1, <3>2
  <2>3. Jump(1) = Entry
    BY <1>1 DEF Inv, FromEntry
  <2>4. Jump(1)' = Jump(1)
    <3>1. 1 \in 1 .. L - 1 \/ 1 = L
      BY <1>2
    <3> QED
      BY <1>6, <3>1
  <2>5. pending' # <<>>
    BY <1>2, <1>4
  <2> QED
    BY <2>2, <2>3, <2>4, <2>5 DEF FromEntry
<1>15. NoCircleRecovered'
  BY <1>7, <1>8 DEF Inv, NoCircleRecovered
<1>16. Ended'
  BY <1>1 DEF Ended
<1> QED
  BY <1>9, <1>10, <1>11, <1>12, <1>13, <1>14, <1>15, <1>16 DEF Inv

\* All three errors but the circle are out of the question.
LEMMA RefusedIsCyclic == Inv /\ Refuse => Cyclic
<1> SUFFICES ASSUME Inv, Refuse PROVE Cyclic
  OBVIOUS
<1>1. pending # <<>> /\ Raises
  BY DEF Refuse
<1>2. work # WorkLimit
  BY WorkIsLeft
<1>3. Expanded = TRUE => Resolved
  BY <1>1, TopAndRest, TopIsResolved DEF Inv
<1>4. Expanded = FALSE /\ Offset \in active
  BY <1>1, <1>2, <1>3 DEF Raises, At
<1>5. ~Waits(Len(pending))
  BY <1>1, <1>4, TopAndRest DEF Inv
<1> QED
  BY <1>1, <1>4, <1>5, CircleFound

\* Every iteration, and the return, keeps the invariant.
LEMMA NextInv == Inv /\ [Next]_vars => Inv'
<1> SUFFICES ASSUME Inv, [Next]_vars PROVE Inv'
  OBVIOUS
<1>1. CASE Skip \/ Endpoint \/ Resolve
  BY <1>1, SkipSettles, EndpointSettles, ResolveSettles, SettledInv
<1>2. CASE Expand
  BY <1>2, ExpandInv
<1>3. CASE Refuse \/ Plan \/ UNCHANGED vars
  <2>1. UNCHANGED <<nodes, endpoints, pending, expressions, active, work>>
    BY <1>3 DEF Refuse, Plan, vars
  <2>2. /\ outcome' \in {"running", "planned", "refused"}
        /\ outcome' = "planned" => pending' = <<>>
        /\ outcome' = "refused" => Cyclic
    BY <1>3, RefusedIsCyclic DEF Refuse, Plan, vars, Inv, Typed, Ended
  <2>3. /\ \A n : Sides(n)' = Sides(n)
        /\ \A S : Cycles(S)' <=> Cycles(S)
        /\ Reached' = Reached /\ (Cyclic' <=> Cyclic)
    BY <2>1, SameJumps
  <2>4. Item' = Item /\ Collected' = Collected /\ Recovered' = Recovered
    BY <2>1 DEF Item, Collected, Recovered
  <2>5. Typed'
    BY <2>1, <2>2, <2>3, <2>4 DEF Inv, Typed
  <2>6. Places' = Places /\ \A i : Jump(i)' = Jump(i) /\ (Waits(i)' <=> Waits(i))
    BY <2>1 DEF Places, Jump, Waits
  <2>7. ActiveWait'
    BY <2>1, <2>6 DEF Inv, ActiveWait
  <2>8. Budget'
    BY <2>1, <2>4 DEF Inv, Budget, Untouched
  <2>9. SidesAbove'
    BY <2>1, <2>3, <2>4, <2>6 DEF Inv, SidesAbove
  <2>10. Path'
    BY <2>3, <2>6 DEF Inv, Path
  <2>11. FromEntry'
    BY <2>1, <2>3, <2>4, <2>6 DEF Inv, FromEntry
  <2>12. NoCircleRecovered'
    BY <2>1, <2>3, <2>4 DEF Inv, NoCircleRecovered
  <2>13. Ended'
    BY <2>2, <2>3 DEF Ended
  <2> QED
    BY <2>5, <2>7, <2>8, <2>9, <2>10, <2>11, <2>12, <2>13 DEF Inv
<1> QED
  BY <1>1, <1>2, <1>3 DEF Next, Returned

\* The invariant of the work list.
LEMMA InvHolds == Spec => []Inv
BY InitInv, NextInv, PTL DEF Spec

\* Types, for every collected plan: a jump is active exactly while it waits on
\* the stack, and it has no expression then.
THEOREM PlanTypes == Spec => []TypeOK
<1>1. Inv => TypeOK
  <2> SUFFICES ASSUME Inv PROVE TypeOK
    OBVIOUS
  <2>1. DOMAIN pending = Places
    BY DEF Inv, Typed, Places
  <2>2. \A i \in Places : pending[i] = <<Jump(i), pending[i][2]>>
    <3>1. \A i \in 1 .. Len(pending) : pending[i] \in Collected \X BOOLEAN
      BY ElementOfSeq DEF Inv, Typed, Item
    <3> QED
      BY <3>1 DEF Places, Jump
  <2>3. ASSUME NEW n
        PROVE  <<n, TRUE>> \in ToSet(pending) <=> \E i \in Places : Waits(i) /\ Jump(i) = n
    <3>1. ASSUME NEW i \in Places PROVE pending[i] = <<n, TRUE>> <=> Waits(i) /\ Jump(i) = n
      <4> DEFINE w == pending[i][2]
      <4>1. pending[i] = <<Jump(i), w>>
        BY <2>2
      <4>2. ASSUME NEW a, NEW c PROVE <<a, c>> = <<n, TRUE>> <=> c = TRUE /\ a = n
        BY Zenon
      <4> QED
        BY <4>1, <4>2, Zenon DEF Waits
    <3> QED
      BY <2>1, <3>1, Zenon DEF ToSet
  <2>4. active = {n \in DOMAIN nodes : <<n, TRUE>> \in ToSet(pending)}
    <3>1. \A n : n \in active <=> \E i \in Places : Waits(i) /\ Jump(i) = n
      BY DEF Inv, ActiveWait
    <3> QED
      BY <2>3, <3>1, Zenon DEF Inv, Typed
  <2>5. WorkLimit \in Nat /\ work \in Nat /\ work < WorkLimit
    BY WorkIsLeft, WorkLimitSuffices DEF Inv, Typed
  <2>6. /\ active \intersect DOMAIN expressions = {}
        /\ outcome \in {"running", "planned", "refused"}
        /\ DOMAIN expressions \subseteq DOMAIN nodes \union endpoints
    BY DEF Inv, Typed, Recovered, Collected
  <2>7. work \in 0 .. WorkLimit
    BY <2>5
  <2> QED
    BY <2>4, <2>6, <2>7, Zenon DEF TypeOK
<1> QED
  BY InvHolds, <1>1, PTL

\* When the loop is over, everything the entry leads to has an expression.
LEMMA PlannedIsAcyclic ==
  ASSUME Inv, outcome = "planned"
  PROVE  ~Cyclic
<1> DEFINE R == DOMAIN nodes \intersect Recovered
<1>1. Entry \in R
  BY DEF Inv, Ended, FromEntry, Typed
<1>2. Closed(R)
  BY DEF Closed, Inv, NoCircleRecovered
<1>3. Reached \subseteq R
  BY <1>1, <1>2 DEF Reached
<1> QED
  BY <1>3 DEF Cyclic, Inv, NoCircleRecovered

\* _bounded_condition_plan gives up on a graph of jumps exactly when the jumps it
\* can come to lead in a circle: its work limit, six times the jumps and sixteen,
\* is never reached and no part is missing, however the jumps share their sides.
THEOREM PlanRefusesExactlyCycles == Spec => []RefusesExactlyCycles
<1>1. Inv => RefusesExactlyCycles
  <2> SUFFICES ASSUME Inv, outcome # "running"
               PROVE  outcome = "refused" <=> Cyclic
    BY DEF RefusesExactlyCycles
  <2>1. outcome = "refused" => Cyclic
    BY DEF Inv, Ended
  <2>2. outcome = "planned" => ~Cyclic
    BY PlannedIsAcyclic
  <2> QED
    BY <2>1, <2>2 DEF Inv, Typed
<1> QED
  BY InvHolds, <1>1, PTL
-----------------------------------------------------------------------------
(* What the condition means, by any rules of evaluation that are Python's. *)

\* Whether e comes out true when it is evaluated in s, and the state after that.
Holds(m, e, s) == <<e, s>> \in m.true
After(m, e, s) == m.after[<<e, s>>]

\* The value of x in s is that of e in t.
AsIn(m, x, s, e, t) == /\ Holds(m, x, s) <=> Holds(m, e, t)
                       /\ After(m, x, s) = After(m, e, t)

\* x is `left and right` (`left or right`).
Joins(m, op, x, left, right) ==
  \A s \in m.states :
    IF Holds(m, left, s) <=> op = "and" THEN AsIn(m, x, s, right, After(m, left, s))
                                        ELSE AsIn(m, x, s, left, s)

\* x is `not e`.
Negates(m, x, e) == \A s \in m.states : /\ Holds(m, x, s) <=> ~Holds(m, e, s)
                                        /\ After(m, x, s) = After(m, e, s)

\* x is `true if test else false`.
Chooses(m, x, test, true, false) ==
  \A s \in m.states :
    AsIn(m, x, s, IF Holds(m, test, s) THEN true ELSE false, After(m, test, s))

\* The ast nodes: their parts are among them, and what is made of them here.
IsSyntax(E) ==
  /\ \A value \in BOOLEAN : Constant(value) \in E
  /\ \A e \in E :
       /\ Not(e) \in E
       /\ e.op = "not" => e = Not(e.operand) /\ e.operand \in E
       /\ e.op = "compare" => Compare(Opposite[e.rel], e.name) \in E
       /\ e.op \in {"and", "or"} => /\ e = Bool(e.op, e.values)
                                    /\ e.values \in Seq(E) /\ Len(e.values) > 1
  /\ \A op \in {"and", "or"}, values \in Seq(E) : Len(values) > 1 => Bool(op, values) \in E
  /\ \A test, true, false \in E : IfExp(test, true, false) \in E

\* Python's rules for them, with operands that are either < or >=.
IsEvaluator(m) ==
  /\ IsSyntax(m.expressions)
  /\ \A e \in m.expressions, s \in m.states : After(m, e, s) \in m.states
  /\ \A s \in m.states :
       /\ Holds(m, Constant(TRUE), s) /\ ~Holds(m, Constant(FALSE), s)
       /\ \A value \in BOOLEAN : After(m, Constant(value), s) = s
  /\ \A e \in m.expressions :
       /\ Negates(m, Not(e), e)
       /\ e.op = "compare" => Negates(m, Compare(Opposite[e.rel], e.name), e)
  /\ \A test, true, false \in m.expressions :
       Chooses(m, IfExp(test, true, false), test, true, false)
  /\ \A op \in {"and", "or"}, values \in Seq(m.expressions) :
       Len(values) > 1 => Joins(m, op, Bool(op, values), Head(values), Joined(op, Tail(values)))

\* What comes first in a concatenation, and what is left of it then.
LEMMA HeadAndTailOfConcat ==
  ASSUME NEW S, NEW v \in Seq(S), NEW w \in Seq(S), v # <<>>
  PROVE  Head(v \o w) = Head(v) /\ Tail(v \o w) = Tail(v) \o w
<1> DEFINE n == Len(v)
           x == v \o w
           y == Tail(v) \o w
<1>1. n \in Nat \ {0} /\ Len(w) \in Nat
  BY EmptySeq, LenProperties
<1>2. /\ x \in Seq(S) /\ Len(x) = n + Len(w)
      /\ \A i \in 1 .. n + Len(w) : x[i] = IF i <= n THEN v[i] ELSE w[i - n]
  BY ConcatProperties
<1>3. x # <<>> /\ x[1] = v[1]
  BY <1>1, <1>2
<1>4. /\ Tail(v) \in Seq(S) /\ Len(Tail(v)) = n - 1
      /\ \A i \in 1 .. n - 1 : Tail(v)[i] = v[i + 1]
  BY HeadTailProperties
<1>5. /\ y \in Seq(S) /\ Len(y) = n - 1 + Len(w)
      /\ \A i \in 1 .. n - 1 + Len(w) : y[i] = IF i <= n - 1 THEN Tail(v)[i] ELSE w[i - (n - 1)]
  BY <1>4, ConcatProperties
<1>6. /\ Tail(x) \in Seq(S) /\ Len(Tail(x)) = Len(x) - 1
      /\ \A i \in 1 .. Len(x) - 1 : Tail(x)[i] = x[i + 1]
  BY <1>2, <1>3, HeadTailProperties
<1> HIDE DEF n, x, y
<1>7. ASSUME NEW i \in 1 .. n - 1 + Len(w) PROVE Tail(x)[i] = y[i]
  <2>1. Tail(x)[i] = x[i + 1] /\ i + 1 \in 1 .. n + Len(w) /\ (i + 1) - n = i - (n - 1)
    BY <1>1, <1>2, <1>6
  <2>2. CASE i <= n - 1
    BY <1>1, <1>2, <1>4, <1>5, <2>1, <2>2
  <2>3. CASE ~(i <= n - 1)
    BY <1>1, <1>2, <1>5, <2>1, <2>3
  <2> QED
    BY <2>2, <2>3
<1>8. Tail(x) = y
  <2>1. Len(Tail(x)) = n - 1 + Len(w)
    BY <1>1, <1>2, <1>6
  <2> QED
    BY <1>5, <1>6, <1>7, <2>1, SeqEqual
<1> QED
  BY <1>3, <1>8 DEF x, y

\* A side joined with a join is three sides joined.
LEMMA JoinsAssociates ==
  ASSUME NEW m, IsEvaluator(m), NEW op \in {"and", "or"},
         NEW a \in m.expressions, NEW b \in m.expressions, NEW c \in m.expressions,
         NEW ab \in m.expressions, NEW bc \in m.expressions, NEW x,
         Joins(m, op, ab, a, b), Joins(m, op, bc, b, c), Joins(m, op, x, a, bc)
  PROVE  Joins(m, op, x, ab, c)
<1>1. \A s \in m.states : After(m, a, s) \in m.states
  BY DEF IsEvaluator
<1> QED
  BY <1>1 DEF Joins, AsIn

LEMMA OneOrMore == \A n \in Nat \ {0} : n # 1 => n > 1 /\ n - 1 \in Nat \ {0}
OBVIOUS

\* One expression or several joined are an expression.
LEMMA JoinedIsExpression ==
  ASSUME NEW E, IsSyntax(E), NEW op \in {"and", "or"}, NEW values \in Seq(E), values # <<>>
  PROVE  /\ Joined(op, values) \in E
         /\ Len(values) = 1 => Joined(op, values) = values[1]
         /\ Len(values) > 1 => Joined(op, values) = Bool(op, values)
<1>1. Len(values) \in Nat \ {0}
  BY EmptySeq
<1>2. Head(values) = values[1] /\ values[1] \in E
  BY <1>1, ElementOfSeq
<1>3. CASE Len(values) = 1
  BY <1>2, <1>3 DEF Joined
<1>4. CASE Len(values) # 1
  <2>1. Len(values) > 1
    BY <1>1, <1>4, OneOrMore, Zenon
  <2>2. Joined(op, values) = Bool(op, values)
    BY <1>4, Zenon DEF Joined
  <2>3. Bool(op, values) \in E
    BY <2>1 DEF IsSyntax
  <2> QED
    BY <1>4, <2>1, <2>2, <2>3
<1> QED
  BY <1>3, <1>4

\* Operands that are spliced in are joined as a whole.
LEMMA SplicedJoins ==
  ASSUME NEW m, IsEvaluator(m), NEW op \in {"and", "or"},
         NEW left \in Seq(m.expressions), NEW right \in Seq(m.expressions),
         left # <<>>, right # <<>>
  PROVE  Joins(m, op, Joined(op, left \o right), Joined(op, left), Joined(op, right))
<1> DEFINE E == m.expressions
           Wrong == {n \in Nat : \E v \in Seq(E) : /\ Len(v) = n /\ v # <<>>
                                  /\ ~Joins(m, op, Joined(op, v \o right), Joined(op, v), Joined(op, right))}
<1>1. IsSyntax(E)
  BY DEF IsEvaluator
<1>2. Len(right) \in Nat \ {0}
  BY EmptySeq
<1>3. ASSUME NEW n \in Wrong, \A k \in Wrong : n <= k PROVE FALSE
  <2>1. PICK v \in Seq(E) :
          /\ Len(v) = n /\ v # <<>>
          /\ ~Joins(m, op, Joined(op, v \o right), Joined(op, v), Joined(op, right))
    BY <1>3
  <2>2. n \in Nat \ {0} /\ Head(v) = v[1] /\ v[1] \in E
    BY <2>1, EmptySeq, ElementOfSeq
  <2> DEFINE x == v \o right
  <2>3. /\ x \in Seq(E) /\ Len(x) > 1 /\ x # <<>>
        /\ Head(x) = Head(v) /\ Tail(x) = Tail(v) \o right
    <3>1. x \in Seq(E) /\ Len(x) = n + Len(right)
      BY <2>1, ConcatProperties
    <3>2. Len(x) > 1 /\ x # <<>>
      BY <1>2, <2>2, <3>1
    <3>3. Head(x) = Head(v) /\ Tail(x) = Tail(v) \o right
      BY <2>1, HeadAndTailOfConcat
    <3> QED
      BY <3>1, <3>2, <3>3
  <2>4. Joins(m, op, Joined(op, x), Head(v), Joined(op, Tail(v) \o right))
    <3>1. Joined(op, x) = Bool(op, x)
      BY <1>1, <2>3, JoinedIsExpression
    <3> QED
      BY <2>3, <3>1 DEF IsEvaluator
  <2>5. CASE n = 1
    <3>1. Tail(v) \o right = right
      <4>1. Tail(v) \in Seq(E) /\ Len(Tail(v)) = 0
        BY <2>1, <2>5, HeadTailProperties
      <4>2. Tail(v) = <<>>
        BY <4>1, EmptySeq
      <4> QED
        BY <4>2, ConcatEmptySeq
    <3>2. Joined(op, v) = Head(v)
      BY <2>1, <2>5 DEF Joined
    <3> QED
      BY <2>1, <2>4, <3>1, <3>2
  <2>6. CASE n # 1
    <3>1. Tail(v) \in Seq(E) /\ Len(Tail(v)) = n - 1 /\ n - 1 \in Nat \ {0} /\ Tail(v) # <<>>
      <4>1. Tail(v) \in Seq(E) /\ Len(Tail(v)) = n - 1
        BY <2>1, HeadTailProperties, Zenon
      <4>2. n - 1 \in Nat \ {0}
        BY <2>2, <2>6, OneOrMore, Zenon
      <4>3. Tail(v) # <<>>
        <5>1. Len(<<>>) = 0
          BY EmptySeq
        <5> QED
          BY <4>1, <4>2, <5>1, Zenon
      <4> QED
        BY <4>1, <4>2, <4>3
    <3>2. n - 1 \notin Wrong
      BY <1>3, <2>2, <3>1
    <3>3. Joins(m, op, Joined(op, Tail(v) \o right), Joined(op, Tail(v)), Joined(op, right))
      BY <3>1, <3>2
    <3>4. Joins(m, op, Joined(op, v), Head(v), Joined(op, Tail(v)))
      BY <1>1, <2>1, <2>2, <2>6, JoinedIsExpression DEF IsEvaluator
    <3>5. Tail(v) \o right \in Seq(E) /\ Tail(v) \o right # <<>>
      BY <2>3, <3>1, ConcatProperties, <1>2
    <3>6. /\ Joined(op, v) \in E /\ Joined(op, right) \in E /\ Joined(op, Tail(v)) \in E
          /\ Joined(op, Tail(v) \o right) \in E
      BY <1>1, <2>1, <3>1, <3>5, JoinedIsExpression
    <3>7. /\ Joined(op, v) \in m.expressions /\ Joined(op, right) \in m.expressions
          /\ Joined(op, Tail(v)) \in m.expressions
          /\ Joined(op, Tail(v) \o right) \in m.expressions /\ Head(v) \in m.expressions
      BY <2>2, <3>6
    <3> HIDE DEF E, x
    <3> DEFINE z == Joined(op, x)
    <3>8. PICK a \in m.expressions, b \in m.expressions, c \in m.expressions,
               ab \in m.expressions, bc \in m.expressions :
            /\ a = Head(v) /\ b = Joined(op, Tail(v)) /\ c = Joined(op, right)
            /\ ab = Joined(op, v) /\ bc = Joined(op, Tail(v) \o right)
      BY <3>7, Zenon
    <3>9. Joins(m, op, ab, a, b) /\ Joins(m, op, bc, b, c) /\ Joins(m, op, z, a, bc)
      BY <2>4, <3>3, <3>4, <3>8, Zenon
    <3> HIDE DEF z
    <3>10. Joins(m, op, z, ab, c)
      BY <3>9, JoinsAssociates
    <3> QED
      BY <2>1, <3>8, <3>10 DEF x, z
  <2> QED
    BY <2>5, <2>6
<1>4. Wrong = {}
  <2>1. Wrong \subseteq Nat
    OBVIOUS
  <2> HIDE DEF Wrong
  <2> QED
    BY <1>3, <2>1, LeastPlace
<1>5. Len(left) \in Nat
  BY LenProperties
<1> QED
  BY <1>4, <1>5

\* What is spliced in for an operand stands for it.
Operands(op, e) == IF e.op = op THEN e.values ELSE <<e>>

LEMMA OneItem ==
  ASSUME NEW T, NEW a \in T
  PROVE  <<a>> \in Seq(T) /\ Len(<<a>>) = 1 /\ <<a>>[1] = a /\ Head(<<a>>) = a /\ <<a>> # <<>>
OBVIOUS

LEMMA OperandsJoined ==
  ASSUME NEW E, IsSyntax(E), NEW op \in {"and", "or"}, NEW e \in E
  PROVE  /\ Operands(op, e) \in Seq(E) /\ Operands(op, e) # <<>>
         /\ Joined(op, Operands(op, e)) = e
<1>1. CASE e.op = op
  <2>1. e = Bool(op, e.values) /\ e.values \in Seq(E) /\ Len(e.values) > 1
    BY <1>1 DEF IsSyntax
  <2>2. e.values # <<>> /\ Operands(op, e) = e.values
    <3>1. Len(<<>>) = 0 /\ ~(0 > 1)
      BY EmptySeq
    <3> QED
      BY <1>1, <2>1, <3>1, Zenon DEF Operands
  <2> QED
    BY <2>1, <2>2, JoinedIsExpression, Zenon
<1>2. CASE e.op # op
  <2>1. Operands(op, e) = <<e>>
    BY <1>2 DEF Operands
  <2> QED
    BY <2>1, OneItem, Zenon DEF Joined
<1> QED
  BY <1>1, <1>2

\* _boolean_operation makes the conjunction or the disjunction of its sides.
LEMMA BooleanJoins ==
  ASSUME NEW m, IsEvaluator(m), NEW op \in {"and", "or"},
         NEW left \in m.expressions, NEW right \in m.expressions
  PROVE  /\ Boolean(op, left, right) \in m.expressions
         /\ Joins(m, op, Boolean(op, left, right), left, right)
<1> DEFINE E == m.expressions
           l == Operands(op, left)
           r == Operands(op, right)
<1>1. IsSyntax(E)
  BY DEF IsEvaluator
<1>2. /\ l \in Seq(E) /\ l # <<>> /\ Joined(op, l) = left
      /\ r \in Seq(E) /\ r # <<>> /\ Joined(op, r) = right
  BY <1>1, OperandsJoined
<1>3. Boolean(op, left, right) = Bool(op, l \o r)
  BY DEF Boolean, Operands
<1> HIDE DEF l, r
<1>4. l \o r \in Seq(E) /\ Len(l \o r) > 1
  <2>1. PICK i \in Nat \ {0}, k \in Nat \ {0} : i = Len(l) /\ k = Len(r)
    BY <1>2, EmptySeq, Zenon
  <2>2. i + k > 1
    BY ONLY <2>1
  <2> QED
    BY <1>2, <2>1, <2>2, ConcatProperties, Zenon
<1>5. /\ Joined(op, l \o r) = Bool(op, l \o r) /\ Joined(op, l \o r) \in E
  <2>1. l \o r # <<>>
    <3>1. Len(<<>>) = 0 /\ ~(0 > 1)
      BY EmptySeq
    <3> QED
      BY <1>4, <3>1, Zenon
  <2> QED
    BY <1>1, <1>4, <2>1, JoinedIsExpression, Zenon
<1>6. Joins(m, op, Joined(op, l \o r), Joined(op, l), Joined(op, r))
  BY <1>2, SplicedJoins, Zenon
<1> QED
  BY <1>2, <1>3, <1>5, <1>6, Zenon

\* The operands before the last one, and that one.
LEMMA PrefixJoins ==
  ASSUME NEW m, IsEvaluator(m), NEW op \in {"and", "or"}, NEW e \in m.expressions, e.op = op
  PROVE  /\ Prefix(e) \in m.expressions /\ Last(e.values) \in m.expressions
         /\ Joins(m, op, e, Prefix(e), Last(e.values))
<1> DEFINE E == m.expressions
           v == e.values
           f == Front(v)
           z == Last(v)
<1>1. IsSyntax(E)
  BY DEF IsEvaluator
<1>2. e = Bool(op, v) /\ v \in Seq(E) /\ Len(v) > 1
  BY <1>1 DEF IsSyntax
<1>3. v # <<>>
  <2>1. Len(<<>>) = 0 /\ ~(0 > 1)
    BY EmptySeq
  <2> QED
    BY <1>2, <2>1, Zenon
<1>4. /\ f \in Seq(E) /\ Len(v) \in Nat \ {0} /\ Len(f) = Len(v) - 1
      /\ \A i \in 1 .. Len(v) - 1 : f[i] = v[i]
      /\ z = v[Len(v)] /\ z \in E
  BY <1>2, <1>3, FrontAndLast, Zenon
<1>5. Prefix(e) = Joined(op, f)
  BY DEF Prefix
<1> HIDE DEF v, f, z
<1>6. PICK n \in Nat \ {0} : n = Len(v)
  BY <1>4, Zenon
<1>7. n > 1
  BY <1>2, <1>6, Zenon
<1>8. f # <<>>
  <2>1. n - 1 # 0
    BY <1>7
  <2> QED
    BY <1>4, <1>6, <2>1, EmptySeq, Zenon
<1>9. <<z>> \in Seq(E) /\ Len(<<z>>) = 1 /\ <<z>>[1] = z /\ Head(<<z>>) = z /\ <<z>> # <<>>
  BY <1>4, OneItem, Zenon
<1>10. v = f \o <<z>>
  <2> DEFINE g == <<z>>
             x == f \o g
  <2>1. g \in Seq(E) /\ Len(g) = 1 /\ g[1] = z
    BY <1>9
  <2> HIDE DEF g
  <2>2. /\ x \in Seq(E) /\ Len(x) = Len(f) + Len(g)
        /\ \A i \in 1 .. Len(f) + Len(g) : x[i] = IF i <= Len(f) THEN f[i] ELSE g[i - Len(f)]
    BY <1>4, <2>1, ConcatProperties, Zenon
  <2> HIDE DEF x
  <2>3. Len(f) = n - 1 /\ Len(g) = 1 /\ (n - 1) + 1 = n
    BY <1>4, <1>6, <2>1
  <2>4. Len(x) = n /\ \A i \in 1 .. n : x[i] = IF i <= n - 1 THEN f[i] ELSE g[i - (n - 1)]
    BY <2>2, <2>3, Zenon
  <2>5. ASSUME NEW i \in 1 .. n PROVE v[i] = x[i]
    <3>1. CASE i = n
      <4>1. ~(n <= n - 1) /\ n - (n - 1) = 1
        OBVIOUS
      <4> QED
        BY <1>4, <1>6, <2>1, <2>4, <3>1, <4>1, Zenon
    <3>2. CASE i # n
      <4>1. i \in 1 .. n - 1 /\ i <= n - 1
        BY <3>2
      <4> QED
        BY <1>4, <1>6, <2>4, <4>1, Zenon
    <3> QED
      BY <3>1, <3>2
  <2>6. v = x
    <3>1. Len(v) = Len(x) /\ \A i \in 1 .. Len(v) : v[i] = x[i]
      BY <1>6, <2>4, <2>5, Zenon
    <3>2. \A q \in Seq(E) : Len(v) = Len(q) /\ (\A i \in 1 .. Len(v) : v[i] = q[i]) => v = q
      BY <1>2, SeqEqual
    <3> QED
      BY <2>2, <3>1, <3>2, Zenon
  <2> QED
    BY <2>6 DEF x, g
<1>11. Joins(m, op, Joined(op, f \o <<z>>), Joined(op, f), Joined(op, <<z>>))
  BY <1>4, <1>8, <1>9, SplicedJoins, Zenon
<1>12. Joined(op, <<z>>) = z
  BY <1>9, Zenon DEF Joined
<1>13. Joined(op, v) = e
  BY <1>1, <1>2, <1>3, JoinedIsExpression, Zenon
<1>14. Joined(op, f) \in E
  BY <1>1, <1>4, <1>8, JoinedIsExpression, Zenon
<1> QED
  BY <1>4, <1>5, <1>10, <1>11, <1>12, <1>13, <1>14, Zenon DEF v, z

\* _negate makes the negation.
LEMMA NegateNegates ==
  ASSUME NEW m, IsEvaluator(m), NEW e \in m.expressions
  PROVE  Negate(e) \in m.expressions /\ Negates(m, Negate(e), e)
<1>1. IsSyntax(m.expressions)
  BY DEF IsEvaluator
<1>2. CASE e.op = "not"
  <2>1. e = Not(e.operand) /\ e.operand \in m.expressions /\ Negate(e) = e.operand
    BY <1>1, <1>2 DEF IsSyntax, Negate
  <2>2. Negates(m, e, e.operand)
    BY <2>1 DEF IsEvaluator
  <2> QED
    BY <2>1, <2>2 DEF Negates
<1>3. CASE e.op = "compare"
  <2>1. Negate(e) = Compare(Opposite[e.rel], e.name)
    BY <1>3, Zenon DEF Negate
  <2> QED
    BY <1>1, <1>3, <2>1 DEF IsSyntax, IsEvaluator
<1>4. CASE e.op # "not" /\ e.op # "compare"
  <2>1. Negate(e) = Not(e)
    BY <1>4 DEF Negate
  <2> QED
    BY <1>1, <2>1 DEF IsSyntax, IsEvaluator
<1> QED
  BY <1>2, <1>3, <1>4

\* The four ways to share a common end of the two sides.
LEMMA SharedEnds ==
  ASSUME NEW m, IsEvaluator(m), NEW p \in m.expressions,
         NEW t \in m.expressions, NEW f \in m.expressions,
         NEW a \in m.expressions, NEW b \in m.expressions, NEW c \in m.expressions,
         NEW end \in m.expressions, NEW x
  PROVE  /\ Joins(m, "or", a, p, b) /\ Joins(m, "and", f, b, t) /\ Joins(m, "and", x, a, t)
            => Chooses(m, x, p, t, f)
         /\ Joins(m, "and", a, p, b) /\ Joins(m, "or", t, b, f) /\ Joins(m, "or", x, a, f)
            => Chooses(m, x, p, t, f)
         /\ Negates(m, c, p) /\ Joins(m, "and", a, c, b) /\ Joins(m, "or", f, b, t)
            /\ Joins(m, "or", x, a, t) => Chooses(m, x, p, t, f)
         /\ Joins(m, "or", t, b, end) /\ Joins(m, "or", f, c, end) /\ Chooses(m, a, p, b, c)
            /\ Joins(m, "or", x, a, end) => Chooses(m, x, p, t, f)
<1>1. \A e \in m.expressions, s \in m.states : After(m, e, s) \in m.states
  BY DEF IsEvaluator
<1>2. Joins(m, "or", a, p, b) /\ Joins(m, "and", f, b, t) /\ Joins(m, "and", x, a, t)
      => Chooses(m, x, p, t, f)
  BY <1>1 DEF Joins, Chooses, AsIn
<1>3. Joins(m, "and", a, p, b) /\ Joins(m, "or", t, b, f) /\ Joins(m, "or", x, a, f)
      => Chooses(m, x, p, t, f)
  BY <1>1 DEF Joins, Chooses, AsIn
<1>4. Negates(m, c, p) /\ Joins(m, "and", a, c, b) /\ Joins(m, "or", f, b, t)
      /\ Joins(m, "or", x, a, t) => Chooses(m, x, p, t, f)
  BY <1>1 DEF Joins, Chooses, AsIn, Negates
<1>5. Joins(m, "or", t, b, end) /\ Joins(m, "or", f, c, end) /\ Chooses(m, a, p, b, c)
      /\ Joins(m, "or", x, a, end) => Chooses(m, x, p, t, f)
  BY <1>1 DEF Joins, Chooses, AsIn
<1> QED
  BY <1>2, <1>3, <1>4, <1>5

\* One side, or both, is a constant.
LEMMA ConstantSides ==
  ASSUME NEW m, IsEvaluator(m), NEW p \in m.expressions,
         NEW t \in m.expressions, NEW f \in m.expressions, NEW c, NEW x
  PROVE  /\ t = Constant(TRUE) /\ f = Constant(FALSE) => Chooses(m, p, p, t, f)
         /\ t = Constant(FALSE) /\ f = Constant(TRUE) /\ Negates(m, x, p) => Chooses(m, x, p, t, f)
         /\ f = Constant(FALSE) /\ Joins(m, "and", x, p, t) => Chooses(m, x, p, t, f)
         /\ t = Constant(FALSE) /\ Negates(m, c, p) /\ Joins(m, "and", x, c, f)
            => Chooses(m, x, p, t, f)
         /\ t = Constant(TRUE) /\ Joins(m, "or", x, p, f) => Chooses(m, x, p, t, f)
         /\ f = Constant(TRUE) /\ Negates(m, c, p) /\ Joins(m, "or", x, c, t)
            => Chooses(m, x, p, t, f)
<1> DEFINE yes == Constant(TRUE)
           no  == Constant(FALSE)
<1>1. \A e \in m.expressions, s \in m.states : After(m, e, s) \in m.states
  BY DEF IsEvaluator
<1>2. \A s \in m.states : Holds(m, yes, s) /\ After(m, yes, s) = s
                          /\ ~Holds(m, no, s) /\ After(m, no, s) = s
  BY DEF IsEvaluator
<1> HIDE DEF yes, no
<1>3. /\ t = yes /\ f = no => Chooses(m, p, p, t, f)
      /\ t = no /\ f = yes /\ Negates(m, x, p) => Chooses(m, x, p, t, f)
  BY <1>1, <1>2 DEF Chooses, AsIn, Negates
<1>4. /\ f = no /\ Joins(m, "and", x, p, t) => Chooses(m, x, p, t, f)
      /\ t = yes /\ Joins(m, "or", x, p, f) => Chooses(m, x, p, t, f)
  BY <1>1, <1>2 DEF Chooses, AsIn, Joins
<1>5. t = no /\ Negates(m, c, p) /\ Joins(m, "and", x, c, f) => Chooses(m, x, p, t, f)
  BY <1>1, <1>2 DEF Chooses, AsIn, Joins, Negates
<1>6. f = yes /\ Negates(m, c, p) /\ Joins(m, "or", x, c, t) => Chooses(m, x, p, t, f)
  BY <1>1, <1>2 DEF Chooses, AsIn, Joins, Negates
<1> QED
  BY <1>3, <1>4, <1>5, <1>6 DEF yes, no

\* What is left when neither side is a constant.
LEMMA FactoredChooses ==
  ASSUME NEW m, IsEvaluator(m), NEW p \in m.expressions,
         NEW t \in m.expressions, NEW f \in m.expressions
  PROVE  /\ Factored(p, t, f) \in m.expressions
         /\ Chooses(m, Factored(p, t, f), p, t, f)
<1> DEFINE E == m.expressions
<1>1. CASE EndsWith(f, "and", t)
  <2> DEFINE b == Prefix(f)
             a == Boolean("or", p, b)
             x == Boolean("and", a, t)
  <2>1. b \in E /\ Joins(m, "and", f, b, t)
    BY <1>1, PrefixJoins DEF EndsWith
  <2>2. a \in E /\ Joins(m, "or", a, p, b)
    BY <2>1, BooleanJoins
  <2>3. x \in E /\ Joins(m, "and", x, a, t)
    BY <2>2, BooleanJoins
  <2>4. Factored(p, t, f) = x
    BY <1>1 DEF Factored
  <2> HIDE DEF a, b, x
  <2>5. Chooses(m, x, p, t, f)
    BY <2>1, <2>2, <2>3, SharedEnds
  <2> QED
    BY <2>3, <2>4, <2>5
<1>2. CASE ~EndsWith(f, "and", t) /\ EndsWith(t, "or", f)
  <2> DEFINE b == Prefix(t)
             a == Boolean("and", p, b)
             x == Boolean("or", a, f)
  <2>1. b \in E /\ Joins(m, "or", t, b, f)
    BY <1>2, PrefixJoins DEF EndsWith
  <2>2. a \in E /\ Joins(m, "and", a, p, b)
    BY <2>1, BooleanJoins
  <2>3. x \in E /\ Joins(m, "or", x, a, f)
    BY <2>2, BooleanJoins
  <2>4. Factored(p, t, f) = x
    BY <1>2 DEF Factored
  <2> HIDE DEF a, b, x
  <2>5. Chooses(m, x, p, t, f)
    BY <2>1, <2>2, <2>3, SharedEnds
  <2> QED
    BY <2>3, <2>4, <2>5
<1>3. CASE /\ ~EndsWith(f, "and", t) /\ ~EndsWith(t, "or", f) /\ EndsWith(f, "or", t)
  <2> DEFINE b == Prefix(f)
             c == Negate(p)
             a == Boolean("and", c, b)
             x == Boolean("or", a, t)
  <2>1. b \in E /\ Joins(m, "or", f, b, t)
    BY <1>3, PrefixJoins DEF EndsWith
  <2>2. c \in E /\ Negates(m, c, p)
    BY NegateNegates
  <2>3. a \in E /\ Joins(m, "and", a, c, b)
    BY <2>1, <2>2, BooleanJoins
  <2>4. x \in E /\ Joins(m, "or", x, a, t)
    BY <2>3, BooleanJoins
  <2>5. Factored(p, t, f) = x
    BY <1>3 DEF Factored
  <2> HIDE DEF a, b, c, x
  <2>6. Chooses(m, x, p, t, f)
    BY <2>1, <2>2, <2>3, <2>4, SharedEnds
  <2> QED
    BY <2>4, <2>5, <2>6
<1>4. CASE /\ ~EndsWith(f, "and", t) /\ ~EndsWith(t, "or", f) /\ ~EndsWith(f, "or", t)
           /\ t.op = "or" /\ EndsWith(f, "or", Last(t.values))
  <2> DEFINE end == Last(t.values)
             b == Prefix(t)
             c == Prefix(f)
             a == IfExp(p, b, c)
             x == Boolean("or", a, end)
  <2>1. b \in E /\ end \in E /\ Joins(m, "or", t, b, end)
    BY <1>4, PrefixJoins
  <2>2. c \in E /\ Joins(m, "or", f, c, end)
    BY <1>4, PrefixJoins DEF EndsWith
  <2>3. a \in E /\ Chooses(m, a, p, b, c)
    BY <2>1, <2>2 DEF IsEvaluator, IsSyntax
  <2>4. x \in E /\ Joins(m, "or", x, a, end)
    BY <2>1, <2>3, BooleanJoins
  <2>5. Factored(p, t, f) = x
    BY <1>4 DEF Factored
  <2> HIDE DEF a, b, c, x, end
  <2>6. Chooses(m, x, p, t, f)
    BY <2>1, <2>2, <2>3, <2>4, SharedEnds
  <2> QED
    BY <2>4, <2>5, <2>6
<1>5. CASE /\ ~EndsWith(f, "and", t) /\ ~EndsWith(t, "or", f) /\ ~EndsWith(f, "or", t)
           /\ ~(t.op = "or" /\ EndsWith(f, "or", Last(t.values)))
  <2>1. Factored(p, t, f) = IfExp(p, t, f)
    BY <1>5 DEF Factored
  <2>2. IfExp(p, t, f) \in E /\ Chooses(m, IfExp(p, t, f), p, t, f)
    BY DEF IsEvaluator, IsSyntax
  <2> QED
    BY <2>1, <2>2
<1> QED
  BY <1>1, <1>2, <1>3, <1>4, <1>5

\* _combine_decision makes `true if predicate else false`, whatever its parts are.
LEMMA CombineChooses ==
  ASSUME NEW m, IsEvaluator(m), NEW p \in m.expressions,
         NEW t \in m.expressions, NEW f \in m.expressions
  PROVE  Combine(p, t, f) \in m.expressions /\ Chooses(m, Combine(p, t, f), p, t, f)
<1> DEFINE E == m.expressions
           yes == Constant(TRUE)
           no == Constant(FALSE)
           c == Negate(p)
<1>1. c \in E /\ Negates(m, c, p)
  BY NegateNegates
<1>2. \A op \in {"and", "or"}, e \in E, d \in E :
         Boolean(op, e, d) \in E /\ Joins(m, op, Boolean(op, e, d), e, d)
  BY BooleanJoins
<1>3. Factored(p, t, f) \in E /\ Chooses(m, Factored(p, t, f), p, t, f)
  BY FactoredChooses
<1> HIDE DEF c, E
<1>4. CASE t = yes /\ f = no
  <2>1. Combine(p, t, f) = p
    BY <1>4, Zenon DEF Combine
  <2> QED
    BY <1>4, <2>1, ConstantSides
<1>5. CASE ~(t = yes /\ f = no) /\ t = no /\ f = yes
  <2>1. Combine(p, t, f) = c
    BY <1>5, Zenon DEF Combine, c
  <2> QED
    BY <1>1, <1>5, <2>1, ConstantSides DEF E
<1>6. CASE ~(t = yes /\ f = no) /\ ~(t = no /\ f = yes) /\ f = no
  <2>1. Combine(p, t, f) = Boolean("and", p, t)
    BY <1>6, Zenon DEF Combine
  <2> QED
    BY <1>2, <1>6, <2>1, ConstantSides DEF E
<1>7. CASE t = no /\ f # yes /\ f # no
  <2>1. Combine(p, t, f) = Boolean("and", c, f)
    BY <1>7, Zenon DEF Combine, c
  <2> QED
    BY <1>1, <1>2, <1>7, <2>1, ConstantSides DEF E
<1>8. CASE t = yes /\ f # no /\ t # no
  <2>1. Combine(p, t, f) = Boolean("or", p, f)
    BY <1>8, Zenon DEF Combine
  <2> QED
    BY <1>2, <1>8, <2>1, ConstantSides DEF E
<1>9. CASE f = yes /\ t # no /\ t # yes /\ f # no
  <2>1. Combine(p, t, f) = Boolean("or", c, t)
    BY <1>9, Zenon DEF Combine, c
  <2> QED
    BY <1>1, <1>2, <1>9, <2>1, ConstantSides DEF E
<1>10. CASE t # yes /\ t # no /\ f # yes /\ f # no
  <2>1. Combine(p, t, f) = Factored(p, t, f)
    BY <1>10, Zenon DEF Combine
  <2> QED
    BY <1>3, <2>1 DEF E
<1>11. yes # no
  BY DEF Constant
<1> QED
  BY <1>4, <1>5, <1>6, <1>7, <1>8, <1>9, <1>10, <1>11, Zenon
-----------------------------------------------------------------------------
\* w says of each offset and state how the jumps end that are followed from there,
\* and in which state: it takes every jump as its predicate comes out.
IsWalk(m, w) ==
  /\ \A n \in DOMAIN nodes, s \in m.states :
       AsIn(w, n, s, IF Holds(m, nodes[n].predicate, s) THEN nodes[n].true ELSE nodes[n].false,
            After(m, nodes[n].predicate, s))
  /\ \A e \in endpoints \ DOMAIN nodes, s \in m.states :
       /\ Holds(w, e, s) <=> e = TrueEndpoint
       /\ After(w, e, s) = s

\* An evaluator that knows the predicates, and a walk by it.
Reads(m, w) == /\ IsEvaluator(m) /\ IsWalk(m, w)
               /\ \A n \in DOMAIN nodes : nodes[n].predicate \in m.expressions

\* What was recovered for n says what the jumps from n do.
Says(m, w, n) == /\ expressions[n] \in m.expressions
                 /\ \A s \in m.states : /\ Holds(m, expressions[n], s) <=> Holds(w, n, s)
                                        /\ After(m, expressions[n], s) = After(w, n, s)

Meaning == \A m, w : Reads(m, w) => \A n \in Recovered : Says(m, w, n)

PlanMeansTheJumps == outcome = "planned" => \A m, w : Reads(m, w) => Says(m, w, Entry)

\* The jumps are not changed, so they go on meaning the same.
LEMMA SameReading ==
  ASSUME UNCHANGED <<nodes, endpoints>>, NEW m, NEW w, Reads(m, w)'
  PROVE  Reads(m, w)
<1>1. TrueEndpoint' = TrueEndpoint
  BY DEF TrueEndpoint
<1> QED
  BY <1>1 DEF Reads, IsWalk

\* The top's expression joins those that mean what they should.
LEMMA RecoveredMeaning ==
  ASSUME Meaning, UNCHANGED <<nodes, endpoints>>, NEW e, Recover(e),
         \A m, w : Reads(m, w) =>
           /\ e \in m.expressions
           /\ \A s \in m.states : /\ Holds(m, e, s) <=> Holds(w, Offset, s)
                                  /\ After(m, e, s) = After(w, Offset, s)
  PROVE  Meaning'
<1> SUFFICES ASSUME NEW m, NEW w, Reads(m, w)', NEW n \in Recovered' PROVE Says(m, w, n)'
  BY DEF Meaning
<1>1. Reads(m, w)
  BY SameReading
<1>2. /\ Recovered' = Recovered \union {Offset}
      /\ expressions'[n] = IF n = Offset THEN e ELSE expressions[n]
  BY DEF Recover, Recovered
<1>3. CASE n = Offset
  BY <1>1, <1>2, <1>3 DEF Says
<1>4. CASE n # Offset
  <2>1. n \in Recovered /\ expressions'[n] = expressions[n]
    BY <1>2, <1>4
  <2>2. Says(m, w, n)
    BY <1>1, <2>1 DEF Meaning
  <2> QED
    BY <2>1, <2>2 DEF Says
<1> QED
  BY <1>3, <1>4

LEMMA EndpointMeaning == Inv /\ Meaning /\ Endpoint => Meaning'
<1> SUFFICES ASSUME Inv, Meaning, Endpoint PROVE Meaning'
  OBVIOUS
<1> DEFINE value == Offset = TrueEndpoint
           e == Constant(value)
<1>1. /\ pending # <<>> /\ Recover(e) /\ UNCHANGED <<nodes, endpoints>>
      /\ Offset \notin DOMAIN nodes
  BY DEF Endpoint, Pop
<1>2. Offset \in endpoints \ DOMAIN nodes
  BY <1>1, TopAndRest DEF Inv, Collected
<1>3. ASSUME NEW m, NEW w, Reads(m, w)
      PROVE  /\ e \in m.expressions
             /\ \A s \in m.states : /\ Holds(m, e, s) <=> Holds(w, Offset, s)
                                    /\ After(m, e, s) = After(w, Offset, s)
  <2>1. \A s \in m.states : (Holds(w, Offset, s) <=> value) /\ After(w, Offset, s) = s
    BY <1>2, <1>3 DEF Reads, IsWalk
  <2>2. value \in BOOLEAN /\ (value = TRUE \/ value = FALSE)
    OBVIOUS
  <2>3. IsEvaluator(m) /\ IsSyntax(m.expressions)
    BY <1>3 DEF Reads, IsEvaluator
  <2> HIDE DEF value
  <2>4. e \in m.expressions
    BY <2>2, <2>3 DEF IsSyntax
  <2>5. \A s \in m.states : (Holds(m, e, s) <=> value) /\ After(m, e, s) = s
    <3>1. CASE value = TRUE
      BY <2>3, <3>1 DEF IsEvaluator
    <3>2. CASE value = FALSE
      BY <2>3, <3>2 DEF IsEvaluator
    <3> QED
      BY <2>2, <3>1, <3>2
  <2> QED
    BY <2>1, <2>4, <2>5
<1> HIDE DEF e
<1> QED
  BY <1>1, <1>3, RecoveredMeaning

LEMMA ResolveMeaning == Inv /\ Meaning /\ Resolve => Meaning'
<1> SUFFICES ASSUME Inv, Meaning, Resolve PROVE Meaning'
  OBVIOUS
<1> DEFINE node == nodes[Offset]
           e == Combined(node)
<1>1. /\ Recover(e) /\ UNCHANGED <<nodes, endpoints>>
      /\ Offset \in DOMAIN nodes /\ Sides(Offset) \subseteq Recovered
  BY DEF Resolve, Pop, At, Resolved, Recovered
<1>2. ASSUME NEW m, NEW w, Reads(m, w)
      PROVE  /\ e \in m.expressions
             /\ \A s \in m.states : /\ Holds(m, e, s) <=> Holds(w, Offset, s)
                                    /\ After(m, e, s) = After(w, Offset, s)
  <2> DEFINE p == node.predicate
             t == expressions[node.true]
             f == expressions[node.false]
  <2>1. Says(m, w, node.true) /\ Says(m, w, node.false)
    BY <1>1, <1>2 DEF Meaning, Sides
  <2>2. IsEvaluator(m) /\ p \in m.expressions /\ t \in m.expressions /\ f \in m.expressions
    BY <1>1, <1>2, <2>1 DEF Reads, Says
  <2>3. e = Combine(p, t, f)
    BY DEF Combined
  <2>4. \A s \in m.states :
          AsIn(w, Offset, s, IF Holds(m, p, s) THEN node.true ELSE node.false, After(m, p, s))
    BY <1>1, <1>2 DEF Reads, IsWalk
  <2>5. \A s \in m.states : /\ Holds(m, t, s) <=> Holds(w, node.true, s)
                            /\ After(m, t, s) = After(w, node.true, s)
                            /\ Holds(m, f, s) <=> Holds(w, node.false, s)
                            /\ After(m, f, s) = After(w, node.false, s)
    BY <2>1 DEF Says
  <2>6. \A s \in m.states : After(m, p, s) \in m.states
    BY <2>2 DEF IsEvaluator
  <2> HIDE DEF p, t, f, e, node
  <2>7. e \in m.expressions /\ Chooses(m, e, p, t, f)
    BY <2>2, <2>3, CombineChooses
  <2> QED
    BY <2>4, <2>5, <2>6, <2>7 DEF Chooses, AsIn
<1> HIDE DEF e
<1> QED
  BY <1>1, <1>2, RecoveredMeaning

\* No other step recovers anything.
LEMMA NextMeaning == Inv /\ Meaning /\ [Next]_vars => Meaning'
<1> SUFFICES ASSUME Inv, Meaning, [Next]_vars PROVE Meaning'
  OBVIOUS
<1>1. CASE Endpoint \/ Resolve
  BY <1>1, EndpointMeaning, ResolveMeaning
<1>2. CASE Skip \/ Expand \/ Refuse \/ Plan \/ UNCHANGED vars
  <2>1. UNCHANGED <<nodes, endpoints, expressions>>
    BY <1>2 DEF Skip, Expand, Refuse, Plan, Pop, vars
  <2> SUFFICES ASSUME NEW m, NEW w, Reads(m, w)', NEW n \in Recovered' PROVE Says(m, w, n)'
    BY DEF Meaning
  <2>2. Reads(m, w) /\ n \in Recovered
    BY <2>1, SameReading DEF Recovered
  <2> QED
    BY <2>1, <2>2 DEF Meaning, Says
<1> QED
  BY <1>1, <1>2 DEF Next, Returned

\* However many jumps there are and whatever their predicates, the recovered
\* condition comes out as the jumps do and leaves the state that they leave: the
\* same predicates were evaluated, each as often and in the same order.  This holds
\* of every evaluator of Python's and, or, not and conditional expressions whose
\* comparisons hold one way or the other.
THEOREM PlannedConditionIsExact == Spec => []PlanMeansTheJumps
<1>1. Init => Meaning
  BY DEF Init, Meaning, Recovered
<1>2. Inv /\ Meaning => PlanMeansTheJumps
  <2> SUFFICES ASSUME Inv, Meaning, outcome = "planned" PROVE Entry \in Recovered
    BY DEF PlanMeansTheJumps, Meaning
  <2> QED
    BY DEF Inv, Ended, FromEntry
<1>3. Spec => []Inv
  BY InvHolds
<1> QED
  BY <1>1, <1>2, <1>3, NextMeaning, PTL DEF Spec
=============================================================================
