------------------------- MODULE ReducibilityProofs -------------------------
(***************************************************************************)
(* For every number of blocks and every edges, dead code included:         *)
(* Kosaraju's algorithm as _strong_components runs it, with two explicit   *)
(* stacks, finds the strong components of the reachable graph; the check   *)
(* of _ensure_reducible on them refuses irreducible graphs only, and what  *)
(* it lets through has a header in every cycle.                            *)
(*                                                                         *)
(* The argument about the searches: each initial part of the finish order  *)
(* is Settled, that is, a block of it that reaches a block outside it is   *)
(* connected to one outside.  (A block that is about to finish has met all *)
(* its children, so what it reaches is finished or below it on the stack,  *)
(* and what is below reaches it.)  The second search takes the blocks from *)
(* the end and walks edges backwards; a block it meets is finished and     *)
(* reaches a block that is not, so it is connected to one, which lies in   *)
(* an earlier component - then the block would have been taken with it -   *)
(* or in the one being gathered.                                           *)
(***************************************************************************)
EXTENDS Reducibility, TLAPS, SequenceTheorems, FiniteSetTheorems

\* A sequence that is not empty, cut before its last member.
LEMMA FrontAndLast ==
  ASSUME NEW S, NEW s \in Seq(S), s # <<>>
  PROVE  /\ Front(s) \in Seq(S) /\ Len(s) \in Nat \ {0}
         /\ Len(Front(s)) = Len(s) - 1
         /\ \A i \in 1 .. Len(s) - 1 : Front(s)[i] = s[i]
         /\ Last(s) = s[Len(s)] /\ Last(s) \in S
         /\ ToSet(s) = ToSet(Front(s)) \union {Last(s)}
<1>1. Len(s) \in Nat \ {0}
  BY EmptySeq
<1>2. \A i \in 1 .. Len(s) - 1 : s[i] \in S
  BY ElementOfSeq
<1>3. /\ Front(s) \in Seq(S)
      /\ Len(Front(s)) = Len(s) - 1
      /\ \A i \in 1 .. Len(s) - 1 : Front(s)[i] = s[i]
  <2> DEFINE m == Len(s) - 1
  <2>1. m \in Nat
    BY <1>1
  <2>2. \A i \in 1 .. m : s[i] \in S
    BY <1>2
  <2> HIDE DEF m
  <2>3. /\ SubSeq(s, 1, m) \in Seq(S)
        /\ Len(SubSeq(s, 1, m)) = IF 1 <= m THEN m - 1 + 1 ELSE 0
        /\ \A i \in 1 .. m - 1 + 1 : SubSeq(s, 1, m)[i] = s[1 + i - 1]
    BY <2>1, <2>2, SubSeqProperties
  <2>4. (IF 1 <= m THEN m - 1 + 1 ELSE 0) = m /\ m - 1 + 1 = m
    BY <2>1
  <2>5. \A i \in 1 .. m : 1 + i - 1 = i
    BY <2>1
  <2> QED
    BY <2>3, <2>4, <2>5, Zenon DEF Front, m
<1>4. Last(s) = s[Len(s)] /\ Last(s) \in S
  BY <1>1, ElementOfSeq DEF Last
<1>5. DOMAIN s = 1 .. Len(s) /\ DOMAIN Front(s) = 1 .. Len(s) - 1
  BY <1>1, <1>3, LenProperties
<1>6. ToSet(s) = ToSet(Front(s)) \union {Last(s)}
  BY <1>1, <1>3, <1>4, <1>5 DEF ToSet
<1> QED
  BY <1>1, <1>3, <1>4, <1>6

\* The members of a longer sequence.
LEMMA ToSetAppend ==
  ASSUME NEW S, NEW s \in Seq(S), NEW x \in S
  PROVE  ToSet(Append(s, x)) = ToSet(s) \union {x}
<1>1. DOMAIN s = 1 .. Len(s) /\ DOMAIN Append(s, x) = 1 .. Len(s) + 1 /\ Len(s) \in Nat
  BY AppendProperties, LenProperties
<1>2. /\ \A i \in 1.. Len(s) : Append(s, x)[i] = s[i]
      /\ Append(s, x)[Len(s)+1] = x
  BY AppendProperties
<1> QED
  BY <1>1, <1>2 DEF ToSet

\* The members of two sequences in one.
LEMMA ToSetConcat ==
  ASSUME NEW S, NEW s \in Seq(S), NEW t \in Seq(S)
  PROVE  ToSet(s \o t) = ToSet(s) \union ToSet(t)
<1>1. /\ DOMAIN s = 1 .. Len(s) /\ DOMAIN t = 1 .. Len(t) /\ Len(s) \in Nat /\ Len(t) \in Nat
      /\ DOMAIN (s \o t) = 1 .. Len(s) + Len(t)
  BY ConcatProperties, LenProperties
<1>2. \A i \in 1 .. Len(s) + Len(t) : (s \o t)[i] = IF i <= Len(s) THEN s[i] ELSE t[i - Len(s)]
  BY ConcatProperties
<1>3. \A j \in 1 .. Len(t) : Len(s) + j \in 1 .. Len(s) + Len(t) /\ (s \o t)[Len(s) + j] = t[j]
  BY <1>1, <1>2
<1> DEFINE st == s \o t
<1>4. ToSet(st) = {st[i] : i \in 1 .. Len(s) + Len(t)}
  BY <1>1 DEF ToSet
<1>5. ToSet(s) = {s[i] : i \in 1 .. Len(s)} /\ ToSet(t) = {t[i] : i \in 1 .. Len(t)}
  BY <1>1 DEF ToSet
<1>6. \A i \in 1 .. Len(s) + Len(t) : st[i] \in ToSet(s) \union ToSet(t)
  BY <1>1, <1>2, <1>5
<1>7. \A i \in 1 .. Len(s) : i \in 1 .. Len(s) + Len(t) /\ st[i] = s[i]
  BY <1>1, <1>2
<1> HIDE DEF st
<1> QED
  BY <1>3, <1>4, <1>5, <1>6, <1>7 DEF st

-----------------------------------------------------------------------------
(* Reaching, in terms of closed sets.                                      *)

\* Reaching is reflexive
LEMMA ReachesItself ==
  ASSUME NEW E, NEW a
  PROVE  Reaches(E, a, a)
BY DEF Reaches

\* and transitive
LEMMA ReachesOn ==
  ASSUME NEW E, NEW a, NEW b, NEW c, Reaches(E, a, b), Reaches(E, b, c)
  PROVE  Reaches(E, a, c)
BY DEF Reaches

\* and follows edges.
LEMMA EdgeReaches ==
  ASSUME NEW E, NEW a, NEW b, <<a, b>> \in E
  PROVE  Reaches(E, a, b)
BY DEF Reaches, Closed

\* The blocks that a reaches, as a closed set.
From(E, a) == {b \in Block : Reaches(E, a, b)}

\* It is the least closed set with a.
LEMMA FromIsClosed ==
  ASSUME NEW E \in SUBSET (Block \X Block), NEW a \in Block
  PROVE  /\ From(E, a) \in SUBSET Block /\ a \in From(E, a)
         /\ Closed(E, From(E, a))
<1>1. a \in From(E, a)
  BY ReachesItself DEF From
<1>2. ASSUME NEW e \in E, e[1] \in From(E, a) PROVE e[2] \in From(E, a)
  <2>1. e = <<e[1], e[2]>> /\ e[2] \in Block
    OBVIOUS
  <2>2. Reaches(E, e[1], e[2])
    BY <2>1, EdgeReaches
  <2> QED
    BY <1>2, <2>1, <2>2, ReachesOn DEF From
<1> QED
  BY <1>1, <1>2 DEF Closed, From

\* To show that a set has what a reaches it is enough that it is closed among that.
LEMMA ReachesInto ==
  ASSUME NEW E \in SUBSET (Block \X Block), NEW a \in Block, NEW b \in Block,
         Reaches(E, a, b), NEW S, a \in S,
         \A e \in E : e[1] \in S /\ e[2] \in Block /\ Reaches(E, a, e[1]) => e[2] \in S
  PROVE  b \in S
<1> DEFINE T == S \intersect From(E, a)
<1>1. a \in T /\ T \in SUBSET Block
  BY FromIsClosed DEF From
<1>2. Closed(E, T)
  BY FromIsClosed DEF Closed, From
<1> QED
  BY <1>1, <1>2 DEF Reaches

\* The reachable blocks are those the entry reaches, and nothing leads out of them.
LEMMA ReachableFacts ==
  ASSUME edges \in SUBSET (Block \X Block), reachable = ReachableBlocks(edges)
  PROVE  /\ reachable \in SUBSET Block /\ Entry \in reachable
         /\ \A b \in reachable : Reaches(edges, Entry, b)
         /\ \A e \in edges : e[1] \in reachable => e[2] \in reachable
         /\ \A a \in reachable, b \in Block : Reaches(edges, a, b) => b \in reachable
<1>0. Entry \in Block
  BY BlockCountAssumption DEF Block, Entry
<1>1. reachable = From(edges, Entry)
  BY DEF ReachableBlocks, From, Reaches
<1>2. /\ reachable \in SUBSET Block /\ Entry \in reachable /\ Closed(edges, reachable)
  BY <1>0, <1>1, FromIsClosed
<1> QED
  BY <1>1, <1>2, ReachesOn DEF Closed, From
-----------------------------------------------------------------------------
\* a and b lie in one strong component.
Connected(a, b) == Reaches(edges, a, b) /\ Reaches(edges, b, a)

Graph == edges \in SUBSET (Block \X Block) /\ reachable = ReachableBlocks(edges)

Frames == [node : reachable, children : SUBSET reachable]

\* The types with their sequences, which TypeOK does not fix.
Typed == /\ phase \in {"order", "collect", "check", "accepted", "rejected"}
         /\ visited \in SUBSET reachable /\ assigned \in SUBSET reachable
         /\ component \in SUBSET reachable
         /\ stack \in Seq(Frames) /\ finish \in Seq(reachable)
         /\ pending \in Seq(reachable) /\ components \in Seq(SUBSET reachable)

\* The first k members of a sequence.
First(s, k) == {s[j] : j \in 1 .. k}

\* What leads out of the finished nodes F leads out of their components: a
\* finished node that reaches an unfinished one is connected to an unfinished one.
Settled(F) ==
  \A x \in F : (\E r \in reachable \ F : Reaches(edges, x, r))
                 => \E g \in reachable \ F : Connected(x, g)

FinishOrder == /\ \A i, j \in DOMAIN finish : finish[i] = finish[j] => i = j
               /\ \A k \in 0 .. Len(finish) : Settled(First(finish, k))

OnStack == {stack[i].node : i \in DOMAIN stack}

\* The first search: the stack is a path, and what was met is on it or finished.
Searching ==
  /\ visited = ToSet(finish) \union OnStack
  /\ \A i \in DOMAIN stack :
       /\ stack[i].node \notin ToSet(finish)
       /\ stack[i].children \subseteq Children(stack[i].node)
       /\ Children(stack[i].node) \subseteq visited \union stack[i].children
  /\ \A i, j \in DOMAIN stack :
       i < j => stack[i].node # stack[j].node /\ Reaches(edges, stack[i].node, stack[j].node)
  /\ \A x \in ToSet(finish) : Children(x) \subseteq visited
  /\ assigned = {} /\ component = {} /\ pending = <<>> /\ components = <<>>

AreStrong == \A i \in DOMAIN components : \A n \in components[i] : components[i] = StrongComponent(n)

Gathered == component \union ToSet(pending)

\* The second search: what is being gathered is connected, part of it has left
\* the finish order, and whole components have been gathered before.
Collecting ==
  /\ AreStrong
  /\ (UNION ToSet(components)) \union Gathered = assigned
  /\ (UNION ToSet(components)) \intersect Gathered = {}
  /\ reachable \ ToSet(finish) \subseteq assigned
  /\ \A n \in component : Parents(n) \subseteq assigned
  /\ \A a, b \in Gathered : Reaches(edges, a, b)
  /\ Gathered # {} => Gathered \ ToSet(finish) # {}

IsEnteredTwice(C) == Cyclic(C) /\ Cardinality(Entries(C)) > 1

\* The check: a component is still to be looked at or was found to be in order.
Checking ==
  /\ AreStrong
  /\ \A n \in reachable : \/ n \in UNION ToSet(components)
                          \/ ~IsEnteredTwice(StrongComponent(n))
  /\ phase = "accepted" => components = <<>>
  /\ phase = "rejected" => components # <<>> /\ IsEnteredTwice(Head(components))

Inv == /\ Graph /\ Typed
       /\ FinishOrder
       /\ phase = "order" => Searching
       /\ phase # "order" => stack = <<>>
       /\ phase = "collect" => Collecting
       /\ phase \in {"check", "accepted", "rejected"} => Checking
-----------------------------------------------------------------------------
\* Every set of blocks that is not empty has a least block: of the intervals
\* from 0 to its members one is the smallest.
LEMMA LeastIsMember ==
  ASSUME NEW S \in SUBSET Nat, S # {}
  PROVE  Least(S) \in S
<1> DEFINE T == {0 .. n : n \in S}
<1>1. T \subseteq FiniteSubsetsOf(Nat) /\ T # {}
  <2>1. \A n \in S : 0 .. n \subseteq Nat /\ IsFiniteSet(0 .. n)
    BY FS_Interval
  <2> QED
    BY <2>1 DEF FiniteSubsetsOf
<1>2. IsWellFoundedOn(StrictSubsetOrdering(Nat), FiniteSubsetsOf(Nat))
  BY FS_StrictSubsetOrderingWellFounded
<1> HIDE DEF T
<1>3. PICK I \in T : \A J \in T : <<J, I>> \notin StrictSubsetOrdering(Nat)
  BY <1>1, <1>2, WFMin
<1>4. PICK m \in S : I = 0 .. m
  BY DEF T
<1>5. ASSUME NEW n \in S, n < m PROVE FALSE
  <2>1. 0 .. n \in T /\ <<0 .. n, 0 .. m>> \in (SUBSET Nat) \X (SUBSET Nat)
    BY DEF T
  <2>2. 0 .. n \subseteq 0 .. m /\ m \notin 0 .. n /\ m \in 0 .. m
    BY <1>5
  <2>3. <<0 .. n, 0 .. m>> \in StrictSubsetOrdering(Nat)
    BY <2>1, <2>2 DEF StrictSubsetOrdering
  <2> QED
    BY <1>3, <1>4, <2>1, <2>3
<1>6. \A n \in S : m <= n
  BY <1>5
<1> QED
  BY <1>6 DEF Least

\* The members of a sequence, by their places.
LEMMA DoneIsFinished ==
  ASSUME NEW s \in Seq(reachable)
  PROVE  ToSet(s) = {s[j] : j \in 1 .. Len(s)}
BY LenProperties DEF ToSet

\* Another frame for the top one: the others stay.
LEMMA RestOfStack ==
  ASSUME stack \in Seq(Frames), stack # <<>>, NEW top \in Frames
  PROVE  LET rest == Append(Front(stack), top) IN
         /\ rest \in Seq(Frames) /\ Len(rest) = Len(stack)
         /\ DOMAIN rest = 1 .. Len(stack) /\ DOMAIN stack = 1 .. Len(stack)
         /\ \A i \in 1 .. Len(stack) - 1 : rest[i] = stack[i]
         /\ rest[Len(stack)] = top
<1> DEFINE rest == Append(Front(stack), top)
<1>1. /\ Front(stack) \in Seq(Frames) /\ Len(stack) \in Nat \ {0}
      /\ Len(Front(stack)) = Len(stack) - 1
      /\ \A i \in 1 .. Len(stack) - 1 : Front(stack)[i] = stack[i]
  BY FrontAndLast
<1>2. /\ rest \in Seq(Frames) /\ Len(rest) = Len(Front(stack)) + 1
      /\ \A i \in 1 .. Len(Front(stack)) : rest[i] = Front(stack)[i]
      /\ rest[Len(Front(stack)) + 1] = top
  BY <1>1, AppendProperties
<1>3. Len(rest) = Len(stack) /\ rest[Len(stack)] = top
  BY <1>1, <1>2
<1>4. \A i \in 1 .. Len(stack) - 1 : rest[i] = stack[i]
  BY <1>1, <1>2
<1>5. DOMAIN rest = 1 .. Len(stack) /\ DOMAIN stack = 1 .. Len(stack)
  BY <1>2, <1>3, LenProperties
<1> QED
  BY <1>2, <1>3, <1>4, <1>5

\* Nothing that was proved of the finish order depends on more than the graph.
LEMMA FinishOrderKept ==
  ASSUME Graph, FinishOrder, UNCHANGED graph, finish' = finish
  PROVE  Graph' /\ FinishOrder'
<1>1. edges' = edges /\ reachable' = reachable
  BY DEF graph
<1>2. Graph'
  BY <1>1 DEF Graph, ReachableBlocks, Closed
<1>3. \A F : Settled(F)' <=> Settled(F)
  BY <1>1 DEF Settled, Connected, Reaches, Closed
<1> QED
  BY <1>2, <1>3 DEF FinishOrder

\* Nothing has been met.
LEMMA InitInv == Init => Inv
<1> SUFFICES ASSUME Init PROVE Inv
  OBVIOUS
<1>1. Graph
  BY GraphsAssumption DEF Init, Graph
<1>2. /\ DOMAIN stack = {} /\ DOMAIN finish = {} /\ Len(finish) = 0
      /\ ToSet(finish) = {} /\ OnStack = {}
  BY DEF Init, ToSet, OnStack
<1>3. Typed
  BY EmptySeq DEF Init, Typed
<1>4. FinishOrder
  BY <1>2 DEF FinishOrder, Settled, First
<1>5. Searching
  BY <1>2 DEF Init, Searching
<1> QED
  BY <1>1, <1>3, <1>4, <1>5 DEF Inv, Init

\* The first search begins with the least node that was not met.
LEMMA StartRootKeeps ==
  ASSUME Inv, StartRoot
  PROVE  Inv'
<1> DEFINE root == Least(reachable \ visited)
           frame == [node |-> root, children |-> Children(root)]
<1>1. /\ Graph /\ Typed /\ FinishOrder /\ Searching /\ phase = "order"
      /\ stack = <<>> /\ UNCHANGED <<graph, phase, finish, second>>
      /\ visited' = visited \union {root} /\ stack' = <<frame>>
  BY DEF StartRoot, Inv
<1>2. root \in reachable \ visited
  <2>1. reachable \ visited \in SUBSET Nat /\ reachable \ visited # {}
    BY <1>1, ReachableFacts DEF StartRoot, Graph, Block
  <2> QED
    BY <2>1, LeastIsMember
<1>3. frame \in Frames /\ frame.node = root /\ frame.children = Children(root)
  BY <1>2 DEF Frames, Children
<1> HIDE DEF root, frame
<1>4. stack' \in Seq(Frames) /\ DOMAIN stack' = {1} /\ stack'[1] = frame
  BY <1>1, <1>3
<1>5. OnStack = {} /\ OnStack' = {root}
  BY <1>1, <1>3, <1>4 DEF OnStack
<1>6. reachable' = reachable /\ edges' = edges
  BY <1>1 DEF graph
<1>7. \A x : Children(x)' = Children(x)
  BY <1>6 DEF Children, Successors
<1>8. Graph' /\ FinishOrder'
  BY <1>1, FinishOrderKept
<1>9. Typed'
  BY <1>1, <1>2, <1>4, <1>6 DEF Typed, second, Frames
<1>10. ToSet(finish) = visited /\ ToSet(finish)' = ToSet(finish)
  BY <1>1, <1>5 DEF Searching
<1>11. Searching'
  BY <1>1, <1>2, <1>3, <1>4, <1>5, <1>7, <1>10 DEF Searching, second
<1> QED
  BY <1>1, <1>8, <1>9, <1>11 DEF Inv

\* A child was met before, or is new and goes on top of the stack.
LEMMA NextChildKeeps ==
  ASSUME Inv, NextChild
  PROVE  Inv'
<1> DEFINE child == Least(Last(stack).children)
           top   == [Last(stack) EXCEPT !.children = @ \ {child}]
           rest  == Append(Front(stack), top)
           frame == [node |-> child, children |-> Children(child)]
           n     == Len(stack)
<1>1. /\ Graph /\ Typed /\ FinishOrder /\ Searching /\ phase = "order"
      /\ stack # <<>> /\ Last(stack).children # {}
      /\ UNCHANGED <<graph, phase, finish, second>>
      /\ IF child \in visited
         THEN stack' = rest /\ UNCHANGED visited
         ELSE visited' = visited \union {child} /\ stack' = Append(rest, frame)
  BY DEF NextChild, Inv
<1>2. n \in Nat \ {0} /\ Last(stack) = stack[n] /\ Last(stack) \in Frames
  BY <1>1, FrontAndLast DEF Typed
<1>3. child \in stack[n].children /\ child \in reachable
  <2>1. Last(stack).children \in SUBSET reachable /\ reachable \in SUBSET Nat
    BY <1>1, <1>2, ReachableFacts DEF Frames, Graph, Block
  <2> QED
    BY <1>1, <1>2, <2>1, LeastIsMember
<1>4. frame \in Frames /\ frame.node = child /\ frame.children = Children(child)
  BY <1>3 DEF Frames, Children
<1> HIDE DEF child, top, rest, frame, n
<1>0. n = Len(stack)
  BY DEF n
<1>5. /\ rest \in Seq(Frames) /\ Len(rest) = n
      /\ DOMAIN rest = 1 .. n /\ DOMAIN stack = 1 .. n
      /\ \A i \in 1 .. n : rest[i].node = stack[i].node
      /\ \A i \in 1 .. n : rest[i].children = IF i = n THEN stack[i].children \ {child}
                                                       ELSE stack[i].children
  <2>1. stack \in Seq(Frames) /\ stack # <<>>
    BY <1>1 DEF Typed
  <2>2. /\ top \in Frames /\ top.node = stack[n].node
        /\ top.children = stack[n].children \ {child}
    BY <1>2 DEF Frames, top
  <2>3. /\ rest \in Seq(Frames) /\ Len(rest) = Len(stack)
        /\ DOMAIN rest = 1 .. Len(stack) /\ DOMAIN stack = 1 .. Len(stack)
        /\ \A i \in 1 .. Len(stack) - 1 : rest[i] = stack[i]
        /\ rest[Len(stack)] = top
    BY <2>1, <2>2, RestOfStack DEF rest
  <2>4. \A i \in 1 .. n : i = n \/ i \in 1 .. n - 1
    BY <1>2
  <2> QED
    BY <1>0, <2>2, <2>3, <2>4
<1>11. \A i \in 1 .. n : /\ stack[i].node \notin ToSet(finish)
                         /\ stack[i].children \subseteq Children(stack[i].node)
                         /\ Children(stack[i].node) \subseteq visited \union stack[i].children
  BY <1>1, <1>5 DEF Searching
<1>12. \A i, j \in 1 .. n :
         i < j => stack[i].node # stack[j].node /\ Reaches(edges, stack[i].node, stack[j].node)
  BY <1>1, <1>5 DEF Searching
<1>13. OnStack = {stack[i].node : i \in 1 .. n} /\ OnStack \subseteq visited
  BY <1>1, <1>5 DEF OnStack, Searching
<1>6. reachable' = reachable /\ edges' = edges /\ ToSet(finish)' = ToSet(finish)
  BY <1>1 DEF graph, ToSet
<1>7. \A x : Children(x)' = Children(x)
  BY <1>6 DEF Children, Successors
<1>8. Graph' /\ FinishOrder'
  BY <1>1, FinishOrderKept
<1>9. CASE child \in visited
  <2>1. stack' = rest /\ visited' = visited
    BY <1>1, <1>9
  <2>2. Typed'
    BY <1>1, <1>5, <1>6, <2>1 DEF Typed, second, Frames
  <2>3. OnStack' = OnStack
    BY <1>5, <2>1 DEF OnStack
  <2>4. \A i \in 1 .. n : /\ stack'[i].children \subseteq Children(stack[i].node)
                          /\ Children(stack[i].node) \subseteq visited \union stack'[i].children
    BY <1>5, <1>9, <1>11, <2>1
  <2>5. Searching'
    BY <1>1, <1>5, <1>6, <1>7, <2>1, <2>3, <2>4 DEF Searching, second, Reaches, Closed, Block
  <2> QED
    BY <1>1, <1>8, <2>2, <2>5 DEF Inv
<1>10. CASE child \notin visited
  <2>1. stack' = Append(rest, frame) /\ visited' = visited \union {child}
    BY <1>1, <1>10
  <2>2. /\ stack' \in Seq(Frames) /\ DOMAIN stack' = 1 .. n + 1
        /\ \A i \in 1 .. n : stack'[i] = rest[i]
        /\ stack'[n + 1] = frame
    BY <1>4, <1>5, <2>1, AppendProperties, LenProperties
  <2>3. \A i \in 1 .. n : stack'[i].node = stack[i].node
    BY <1>5, <2>2
  <2>4. \A i \in 1 .. n + 1 : i \in 1 .. n \/ i = n + 1
    BY <1>2
  <2>5. Typed'
    BY <1>1, <1>3, <1>6, <2>1, <2>2 DEF Typed, second, Frames
  <2>6. OnStack' = OnStack \union {child}
    <3>1. OnStack' = {stack'[i].node : i \in 1 .. n + 1}
      BY <2>2 DEF OnStack
    <3>2. n + 1 \in 1 .. n + 1 /\ \A i \in 1 .. n : i \in 1 .. n + 1
      BY <1>2
    <3> QED
      BY <1>4, <1>13, <2>2, <2>3, <2>4, <3>1, <3>2
  <2>7. \A i \in 1 .. n : stack[i].node # child /\ stack[i].node \in reachable
    BY <1>1, <1>10, <1>13 DEF Typed
  <2>8. child \notin ToSet(finish)
    BY <1>1, <1>10 DEF Searching
  <2>9. \A i \in 1 .. n : Reaches(edges, stack[i].node, child)
    <3>1. <<stack[n].node, child>> \in edges
      BY <1>2, <1>3, <1>11 DEF Children, Successors
    <3>2. Reaches(edges, stack[n].node, child)
      BY <3>1, EdgeReaches
    <3>3. \A i \in 1 .. n : i < n => Reaches(edges, stack[i].node, stack[n].node)
      BY <1>2, <1>12
    <3> QED
      <4> SUFFICES ASSUME NEW i \in 1 .. n PROVE Reaches(edges, stack[i].node, child)
        OBVIOUS
      <4>1. i = n \/ i < n
        BY <1>2
      <4> QED
        BY <3>2, <3>3, <4>1, ReachesOn
  <2>10. \A i, j \in 1 .. n + 1 : i < j =>
           stack'[i].node # stack'[j].node /\ Reaches(edges, stack'[i].node, stack'[j].node)
    <3> SUFFICES ASSUME NEW i \in 1 .. n + 1, NEW j \in 1 .. n + 1, i < j
                 PROVE  /\ stack'[i].node # stack'[j].node
                        /\ Reaches(edges, stack'[i].node, stack'[j].node)
      OBVIOUS
    <3>1. i \in 1 .. n
      BY <1>2
    <3>2. CASE j \in 1 .. n
      BY <1>12, <2>3, <3>1, <3>2
    <3>3. CASE j = n + 1
      BY <1>4, <2>2, <2>3, <2>7, <2>9, <3>1, <3>3
    <3> QED
      BY <2>4, <3>2, <3>3
  <2>11. \A i \in 1 .. n + 1 :
           /\ stack'[i].node \notin ToSet(finish)
           /\ stack'[i].children \subseteq Children(stack'[i].node)
           /\ Children(stack'[i].node) \subseteq visited' \union stack'[i].children
    <3>1. \A i \in 1 .. n : /\ stack'[i].children \subseteq Children(stack[i].node)
                            /\ Children(stack[i].node) \subseteq visited' \union stack'[i].children
      <4> SUFFICES ASSUME NEW i \in 1 .. n
                   PROVE  /\ stack'[i].children \subseteq Children(stack[i].node)
                          /\ Children(stack[i].node) \subseteq visited' \union stack'[i].children
        OBVIOUS
      <4>1. stack[i].children \subseteq stack'[i].children \union {child}
        BY <1>5, <2>2
      <4>2. stack'[i].children \subseteq stack[i].children
        BY <1>5, <2>2
      <4> QED
        BY <1>11, <2>1, <4>1, <4>2
    <3>2. \A i \in 1 .. n : stack[i].node \notin ToSet(finish)
      BY <1>11
    <3> QED
      BY <1>4, <2>2, <2>3, <2>4, <2>8, <3>1, <3>2
  <2>12. Searching'
    <3>2. visited' = ToSet(finish)' \union OnStack'
      BY <1>1, <1>6, <2>1, <2>6 DEF Searching
    <3>3. \A x \in ToSet(finish)' : Children(x)' \subseteq visited'
      BY <1>1, <1>6, <1>7, <2>1 DEF Searching
    <3>4. assigned' = {} /\ component' = {} /\ pending' = <<>> /\ components' = <<>>
      BY <1>1 DEF Searching, second
    <3>5. \A i \in DOMAIN stack' :
            /\ stack'[i].node \notin ToSet(finish)'
            /\ stack'[i].children \subseteq Children(stack[i].node)'
            /\ Children(stack[i].node)' \subseteq visited' \union stack'[i].children
      BY <1>6, <2>2, <2>11 DEF Children, Successors
    <3>6. \A i, j \in DOMAIN stack' : i < j =>
            stack'[i].node # stack'[j].node /\ Reaches(edges', stack'[i].node, stack'[j].node)
      BY <1>6, <2>2, <2>10
    <3> QED
      BY <3>2, <3>3, <3>4, <3>5, <3>6 DEF Searching
  <2> QED
    BY <1>1, <1>8, <2>5, <2>12 DEF Inv
<1> QED
  BY <1>9, <1>10

\* A node whose children are all met: if it reaches an unfinished node it is
\* connected to one, which is below it on the stack.
LEMMA FinishingIsSettled ==
  ASSUME Graph, Typed, Searching, stack # <<>>, Last(stack).children = {},
         NEW r \in reachable, Reaches(edges, Last(stack).node, r),
         r \notin ToSet(finish) \union {Last(stack).node}
  PROVE  \E below \in reachable :
           /\ below \notin ToSet(finish) \union {Last(stack).node}
           /\ Connected(Last(stack).node, below)
<1> DEFINE node == Last(stack).node
           S    == ToSet(finish) \union {node}
           n    == Len(stack)
<1>1. /\ n \in Nat \ {0} /\ Last(stack) = stack[n] /\ Last(stack) \in Frames
      /\ DOMAIN stack = 1 .. n /\ n \in 1 .. n
  BY FrontAndLast, LenProperties DEF Typed
<1>2. node \in reachable /\ \A i \in 1 .. n : stack[i].node \in reachable
  <2>1. \A i \in 1 .. n : stack[i] \in Frames
    BY ElementOfSeq DEF Typed
  <2>2. \A f \in Frames : f.node \in reachable
    BY DEF Frames
  <2> QED
    BY <1>1, <2>1, <2>2
<1>3. /\ \A x \in S : Children(x) \subseteq ToSet(finish) \union {stack[i].node : i \in 1 .. n}
      /\ \A i \in 1 .. n : stack[i].node \notin ToSet(finish)
      /\ \A i \in 1 .. n : i < n => stack[i].node # node /\ Reaches(edges, stack[i].node, node)
  BY <1>1 DEF Searching, OnStack
<1>5. /\ reachable \in SUBSET Block /\ edges \in SUBSET (Block \X Block)
      /\ \A e \in edges : e[1] \in reachable => e[2] \in reachable
  BY ReachableFacts DEF Graph
<1>6. S \subseteq reachable
  <2>1. ToSet(finish) \subseteq reachable
    BY DoneIsFinished, ElementOfSeq DEF Typed
  <2> QED
    BY <1>2, <2>1
<1>7. stack[n].node = node
  BY <1>1
<1> HIDE DEF node, S, n
<1>4. \A i \in 1 .. n : i = n \/ i < n
  BY <1>1
<1>8. SUFFICES ASSUME ~\E i \in 1 .. n : i < n /\ Reaches(edges, node, stack[i].node)
               PROVE  FALSE
  BY <1>2, <1>3 DEF S, node, Connected
<1>9. ASSUME NEW e \in edges, e[1] \in S, Reaches(edges, node, e[1]) PROVE e[2] \in S
  <2>1. e = <<e[1], e[2]>> /\ e[2] \in reachable /\ e[2] \in Block
    BY <1>5, <1>6, <1>9
  <2>2. e[2] \in Children(e[1])
    BY <2>1 DEF Children, Successors
  <2>3. e[2] \in ToSet(finish) \/ \E i \in 1 .. n : e[2] = stack[i].node
    BY <1>3, <1>9, <2>2
  <2>4. Reaches(edges, node, e[2])
    BY <1>9, <2>1, EdgeReaches, ReachesOn
  <2> QED
    BY <1>4, <1>7, <1>8, <2>3, <2>4 DEF S
<1>10. node \in S /\ r \in Block /\ node \in Block /\ Reaches(edges, node, r) /\ r \notin S
  BY <1>2, <1>5 DEF S, node
<1> QED
  BY <1>5, <1>9, <1>10, ReachesInto

\* The top frame is left and its node finishes.
LEMMA FinishNodeKeeps ==
  ASSUME Inv, FinishNode
  PROVE  Inv'
<1> DEFINE node == Last(stack).node
           n    == Len(stack)
           F    == ToSet(finish)
<1>1. /\ Graph /\ Typed /\ FinishOrder /\ Searching /\ phase = "order"
      /\ stack # <<>> /\ Last(stack).children = {}
      /\ UNCHANGED <<graph, phase, visited, second>>
      /\ finish' = Append(finish, node) /\ stack' = Front(stack)
  BY DEF FinishNode, Inv
<1>2. /\ n \in Nat \ {0} /\ Last(stack) = stack[n] /\ Last(stack) \in Frames
      /\ stack' \in Seq(Frames) /\ Len(stack') = n - 1
      /\ \A i \in 1 .. n - 1 : stack'[i] = stack[i]
  BY <1>1, FrontAndLast DEF Typed
<1>3. DOMAIN stack = 1 .. n /\ DOMAIN stack' = 1 .. n - 1 /\ \A i \in 1 .. n - 1 : i \in 1 .. n
  BY <1>1, <1>2, LenProperties DEF Typed
<1>4. node \in reachable /\ node \notin F
  BY <1>1, <1>2, <1>3 DEF Frames, Searching
<1>5. /\ finish' \in Seq(reachable) /\ Len(finish') = Len(finish) + 1 /\ Len(finish) \in Nat
      /\ \A i \in 1 .. Len(finish) : finish'[i] = finish[i]
      /\ finish'[Len(finish) + 1] = node
      /\ DOMAIN finish = 1 .. Len(finish) /\ DOMAIN finish' = 1 .. Len(finish) + 1
  BY <1>1, <1>4, AppendProperties, LenProperties DEF Typed
<1>6. ToSet(finish') = F \union {node}
  BY <1>1, <1>4, ToSetAppend DEF Typed
<1>7. reachable' = reachable /\ edges' = edges
  BY <1>1 DEF graph
<1>8. /\ \A a, b : Connected(a, b)' <=> Connected(a, b)
      /\ \A a, b : Reaches(edges, a, b)' <=> Reaches(edges, a, b)
      /\ \A x : Children(x)' = Children(x)
  BY <1>7 DEF Connected, Reaches, Closed, Children, Successors
<1> HIDE DEF node, n, F
<1>9. Typed'
  BY <1>1, <1>2, <1>5, <1>7 DEF Typed, second, Frames
<1>10. Graph'
  BY <1>1, FinishOrderKept, <1>7 DEF Graph, ReachableBlocks, Closed
<1>11. FinishOrder'
  <2>1. \A i, j \in DOMAIN finish' : finish'[i] = finish'[j] => i = j
    <3>1. \A i, j \in 1 .. Len(finish) : finish[i] = finish[j] => i = j
      BY <1>1, <1>5 DEF FinishOrder
    <3>2. \A i \in 1 .. Len(finish) : finish[i] # node
      BY <1>4, <1>5 DEF F, ToSet
    <3>3. \A i \in 1 .. Len(finish) + 1 : i \in 1 .. Len(finish) \/ i = Len(finish) + 1
      BY <1>5
    <3> QED
      BY <1>5, <3>1, <3>2, <3>3
  <2>2. ASSUME NEW k \in 0 .. Len(finish) PROVE First(finish', k) = First(finish, k)
    <3>1. \A j \in 1 .. k : j \in 1 .. Len(finish)
      BY <1>5
    <3> QED
      BY <1>5, <3>1 DEF First
  <2>3. \A k \in 0 .. Len(finish) : Settled(First(finish, k))
    BY <1>1 DEF FinishOrder
  <2>4. First(finish, Len(finish)) = F /\ Settled(F)
    <3>1. First(finish, Len(finish)) = F
      BY <1>5 DEF First, ToSet, F
    <3> QED
      BY <1>5, <2>3, <3>1
  <2>5. Settled(F \union {node})
    <3> SUFFICES ASSUME NEW x \in F \union {node}, NEW r \in reachable \ (F \union {node}),
                        Reaches(edges, x, r)
                 PROVE  \E g \in reachable \ (F \union {node}) : Connected(x, g)
      BY DEF Settled
    <3>1. Reaches(edges, node, r) =>
            \E g \in reachable \ (F \union {node}) : Connected(node, g)
      BY <1>1, FinishingIsSettled DEF node, F
    <3>2. CASE x = node
      BY <3>1, <3>2
    <3>3. CASE x \in F
      <4>1. PICK h \in reachable \ F : Connected(x, h)
        BY <2>4, <3>3 DEF Settled
      <4>2. CASE h # node
        BY <4>1, <4>2
      <4>3. CASE h = node
        <5>1. Reaches(edges, node, r)
          BY <4>1, <4>3, ReachesOn DEF Connected
        <5>2. PICK g \in reachable \ (F \union {node}) : Connected(node, g)
          BY <3>1, <5>1
        <5>3. Connected(x, g)
          BY <4>1, <4>3, <5>2, ReachesOn DEF Connected
        <5> QED
          BY <5>3
      <4> QED
        BY <4>2, <4>3
    <3> QED
      BY <3>2, <3>3
  <2>6. \A S : Settled(S)' <=> Settled(S)
    BY <1>7, <1>8 DEF Settled
  <2>7. First(finish', Len(finish) + 1) = F \union {node}
    BY <1>5, <1>6 DEF First, ToSet
  <2>8. \A k \in 0 .. Len(finish) + 1 : k \in 0 .. Len(finish) \/ k = Len(finish) + 1
    BY <1>5
  <2>9. \A k \in 0 .. Len(finish') : Settled(First(finish', k))
    BY <1>5, <2>2, <2>3, <2>5, <2>7, <2>8
  <2> QED
    BY <2>1, <2>6, <2>9 DEF FinishOrder
<1>12. Searching'
  <2>1. OnStack = {stack[i].node : i \in 1 .. n} /\ OnStack' = {stack[i].node : i \in 1 .. n - 1}
    BY <1>2, <1>3 DEF OnStack
  <2>2. OnStack = OnStack' \union {node}
    <3>1. \A i \in 1 .. n : i \in 1 .. n - 1 \/ i = n
      BY <1>2
    <3>2. stack[n].node = node /\ n \in 1 .. n
      BY <1>2 DEF node
    <3> QED
      BY <1>3, <2>1, <3>1, <3>2
  <2>3. visited' = ToSet(finish') \union OnStack'
    BY <1>1, <1>6, <2>2 DEF Searching, F
  <2>4. \A i \in 1 .. n - 1 :
          /\ stack[i].node \notin ToSet(finish')
          /\ stack[i].children \subseteq Children(stack[i].node)
          /\ Children(stack[i].node) \subseteq visited \union stack[i].children
    <3>1. \A i \in 1 .. n - 1 : i < n
      BY <1>2
    <3>2. \A i \in 1 .. n - 1 : stack[i].node # stack[n].node
      BY <1>1, <1>2, <1>3, <3>1 DEF Searching
    <3>3. \A i \in 1 .. n - 1 :
          /\ stack[i].node \notin F
          /\ stack[i].children \subseteq Children(stack[i].node)
          /\ Children(stack[i].node) \subseteq visited \union stack[i].children
      BY <1>1, <1>3 DEF Searching, F
    <3>4. stack[n].node = node
      BY <1>2 DEF node
    <3> QED
      BY <1>6, <3>2, <3>3, <3>4
  <2>5. \A i, j \in 1 .. n - 1 :
          i < j => stack[i].node # stack[j].node /\ Reaches(edges, stack[i].node, stack[j].node)
    BY <1>1, <1>3 DEF Searching
  <2>6. \A x \in ToSet(finish') : Children(x) \subseteq visited
    <3>1. Children(node) \subseteq visited
      BY <1>1, <1>2, <1>3 DEF Searching, node
    <3> QED
      BY <1>1, <1>6, <3>1 DEF Searching, F
  <2>7. assigned' = {} /\ component' = {} /\ pending' = <<>> /\ components' = <<>>
    BY <1>1 DEF Searching, second
  <2>8. \A i \in DOMAIN stack' :
          /\ stack'[i].node \notin ToSet(finish')
          /\ stack'[i].children \subseteq Children(stack[i].node)'
          /\ Children(stack[i].node)' \subseteq visited' \union stack'[i].children
    BY <1>1, <1>2, <1>3, <1>7, <2>4 DEF Children, Successors
  <2>9. \A i, j \in DOMAIN stack' : i < j =>
          stack'[i].node # stack'[j].node /\ Reaches(edges', stack'[i].node, stack'[j].node)
    BY <1>2, <1>3, <1>7, <2>5
  <2>10. \A x \in ToSet(finish') : Children(x)' \subseteq visited'
    BY <1>1, <1>8, <2>6
  <2> QED
    BY <2>3, <2>7, <2>8, <2>9, <2>10 DEF Searching
<1> QED
  BY <1>1, <1>9, <1>10, <1>11, <1>12 DEF Inv

\* All nodes are finished when the first search ends.
LEMMA EndOrderKeeps ==
  ASSUME Inv, EndOrder
  PROVE  Inv'
<1>1. /\ Graph /\ Typed /\ FinishOrder /\ Searching
      /\ stack = <<>> /\ visited = reachable /\ phase' = "collect"
      /\ UNCHANGED <<graph, first, second>>
  BY DEF EndOrder, Inv
<1>2. UNCHANGED <<edges, reachable, visited, stack, finish, assigned, component, pending, components>>
  BY <1>1 DEF graph, first, second
<1>3. Graph' /\ FinishOrder'
  BY <1>1, <1>2, FinishOrderKept
<1>4. Typed'
  BY <1>1, <1>2 DEF Typed, Frames
<1>5. ToSet(finish) = reachable
  <2>1. DOMAIN stack = {}
    BY <1>1
  <2>2. OnStack = {}
    BY <2>1 DEF OnStack
  <2> QED
    BY <1>1, <2>2 DEF Searching
<1>6. DOMAIN components = {} /\ ToSet(components) = {} /\ ToSet(pending) = {} /\ Gathered = {}
  BY <1>1 DEF Searching, ToSet, Gathered
<1>7. Collecting'
  BY <1>1, <1>2, <1>5, <1>6 DEF Searching, Collecting, AreStrong, Gathered
<1> QED
  BY <1>1, <1>2, <1>3, <1>4, <1>7 DEF Inv

\* finish_order without its last node is still in order.
LEMMA FinishOrderShrinks ==
  ASSUME Graph, Typed, FinishOrder, finish # <<>>, UNCHANGED graph, finish' = Front(finish)
  PROVE  /\ Graph' /\ FinishOrder' /\ finish' \in Seq(reachable)
         /\ ToSet(finish) = ToSet(finish') \union {Last(finish)}
         /\ Last(finish) \in reachable /\ Last(finish) \notin ToSet(finish')
<1> DEFINE n == Len(finish)
<1>1. /\ n \in Nat \ {0} /\ finish' \in Seq(reachable) /\ Len(finish') = n - 1
      /\ \A i \in 1 .. n - 1 : finish'[i] = finish[i]
      /\ Last(finish) = finish[n] /\ Last(finish) \in reachable
      /\ ToSet(finish) = ToSet(finish') \union {Last(finish)}
  BY FrontAndLast DEF Typed
<1>2. DOMAIN finish = 1 .. n /\ DOMAIN finish' = 1 .. n - 1
  BY <1>1, LenProperties DEF Typed
<1> HIDE DEF n
<1>3. /\ \A i \in 1 .. n - 1 : i \in 1 .. n /\ i # n
      /\ \A k \in 0 .. n - 1 : k \in 0 .. n /\ \A j \in 1 .. k : j \in 1 .. n - 1
  BY <1>1
<1>4. n = Len(finish)
  BY DEF n
<1>5. Last(finish) \notin ToSet(finish')
  <2>1. \A i, j \in 1 .. n : finish[i] = finish[j] => i = j
    BY <1>2 DEF FinishOrder
  <2>2. n \in 1 .. n
    BY <1>1
  <2>3. \A i \in 1 .. n - 1 : finish[i] # finish[n]
    BY <1>3, <2>1, <2>2
  <2> QED
    BY <1>1, <1>2, <2>3 DEF ToSet
<1>6. edges' = edges /\ reachable' = reachable
  BY DEF graph
<1>7. Graph'
  BY <1>6 DEF Graph, ReachableBlocks, Closed
<1>8. \A k \in 0 .. n - 1 : First(finish', k) = First(finish, k)
  BY <1>1, <1>3 DEF First
<1>9. \A F : Settled(F)' <=> Settled(F)
  BY <1>6 DEF Settled, Connected, Reaches, Closed
<1>10. FinishOrder'
  <2>1. \A i, j \in DOMAIN finish' : finish'[i] = finish'[j] => i = j
    BY <1>1, <1>2, <1>3 DEF FinishOrder
  <2>2. \A k \in 0 .. n - 1 : Settled(First(finish', k))
    BY <1>3, <1>4, <1>8 DEF FinishOrder
  <2> QED
    BY <1>1, <1>9, <2>1, <2>2 DEF FinishOrder
<1> QED
  BY <1>1, <1>5, <1>7, <1>10

\* Being strong, Entries and the like depend on the graph alone.
LEMMA SameGraph ==
  ASSUME UNCHANGED graph
  PROVE  /\ \A n : StrongComponent(n)' = StrongComponent(n)
         /\ \A n : Parents(n)' = Parents(n)
         /\ \A a, b : Reaches(edges', a, b) <=> Reaches(edges, a, b)
         /\ \A C : IsEnteredTwice(C)' <=> IsEnteredTwice(C)
<1>1. edges' = edges /\ reachable' = reachable
  BY DEF graph
<1>2. \A n : StrongComponent(n)' = StrongComponent(n)
  BY <1>1 DEF StrongComponent, Reaches, Closed
<1>3. \A n : Parents(n)' = Parents(n)
  BY <1>1 DEF Parents, Predecessors
<1>4. \A C : IsEnteredTwice(C)' <=> IsEnteredTwice(C)
  BY <1>1 DEF IsEnteredTwice, Cyclic, Entries
<1> QED
  BY <1>1, <1>2, <1>3, <1>4

\* The last finished node is taken: it was assigned with another one, or a
\* component is begun with it.
LEMMA NextRootKeeps ==
  ASSUME Inv, NextRoot
  PROVE  Inv'
<1> DEFINE root == Last(finish)
<1>1. /\ Graph /\ Typed /\ FinishOrder /\ Collecting /\ phase = "collect"
      /\ component = {} /\ pending = <<>> /\ finish # <<>> /\ finish' = Front(finish)
      /\ UNCHANGED <<graph, phase, visited, stack, component, components>>
      /\ IF root \in assigned
         THEN UNCHANGED <<assigned, pending>>
         ELSE assigned' = assigned \union {root} /\ pending' = <<root>>
  BY DEF NextRoot, Inv
<1>2. /\ Graph' /\ FinishOrder' /\ finish' \in Seq(reachable)
      /\ ToSet(finish) = ToSet(finish') \union {root}
      /\ root \in reachable /\ root \notin ToSet(finish')
  BY <1>1, FinishOrderShrinks
<1> HIDE DEF root
<1>3. ToSet(pending) = {} /\ Gathered = {} /\ UNION ToSet(components) = assigned
  BY <1>1 DEF ToSet, Gathered, Collecting
<1>4. edges' = edges /\ reachable' = reachable /\ components' = components
  BY <1>1 DEF graph
<1>5. AreStrong'
  BY <1>1, <1>4, SameGraph DEF Collecting, AreStrong
<1>6. CASE root \in assigned
  <2>1. assigned' = assigned /\ pending' = pending
    BY <1>1, <1>6
  <2>2. Gathered' = {}
    BY <1>1, <1>3, <2>1 DEF Gathered
  <2>3. Typed'
    BY <1>1, <1>2, <1>4, <2>1 DEF Typed, Frames
  <2>4. reachable' \ ToSet(finish') \subseteq assigned'
    BY <1>1, <1>2, <1>4, <1>6, <2>1 DEF Collecting
  <2>5. Collecting'
    BY <1>1, <1>3, <1>4, <1>5, <2>1, <2>2, <2>4 DEF Collecting
  <2> QED
    BY <1>1, <1>2, <2>3, <2>5 DEF Inv
<1>7. CASE root \notin assigned
  <2>1. assigned' = assigned \union {root} /\ pending' = <<root>>
    BY <1>1, <1>7
  <2>2. Gathered' = {root}
    BY <1>1, <2>1 DEF Gathered, ToSet
  <2>3. Typed'
    BY <1>1, <1>2, <1>4, <2>1 DEF Typed, Frames
  <2>4. reachable' \ ToSet(finish') \subseteq assigned'
    BY <1>1, <1>2, <1>4, <2>1 DEF Collecting
  <2>5. \A a, b \in Gathered' : Reaches(edges', a, b)
    BY <2>2, ReachesItself
  <2>6. Gathered' \ ToSet(finish') # {}
    BY <1>2, <2>2
  <2>7. (UNION ToSet(components')) \union Gathered' = assigned'
    BY <1>3, <1>4, <2>1, <2>2
  <2>8. (UNION ToSet(components')) \intersect Gathered' = {}
    BY <1>3, <1>4, <1>7, <2>2
  <2>9. Collecting'
    BY <1>1, <1>5, <2>4, <2>5, <2>6, <2>7, <2>8 DEF Collecting
  <2> QED
    BY <1>1, <1>2, <2>3, <2>9 DEF Inv
<1> QED
  BY <1>6, <1>7

\* A set of blocks is finite, and listing it gives a sequence.
LEMMA ListedBlocks ==
  ASSUME Graph, NEW S \in SUBSET reachable, NEW s \in [1 .. Cardinality(S) -> S], Descends(s, S)
  PROVE  s \in Seq(reachable) /\ ToSet(s) = S
<1>1. S \in SUBSET Block /\ Block = 0 .. BlockCount - 1
  BY ReachableFacts DEF Graph, Block
<1>2. IsFiniteSet(Block)
  BY <1>1, BlockCountAssumption, FS_Interval
<1>3. Cardinality(S) \in Nat
  BY <1>1, <1>2, FS_Subset, FS_CardinalityType
<1> DEFINE n == Cardinality(S)
<1>4. n \in Nat /\ s \in [1 .. n -> S]
  BY <1>3
<1> HIDE DEF n
<1>5. s \in Seq(S)
  BY <1>4
<1>6. s \in Seq(reachable)
  BY <1>5
<1> QED
  BY <1>6 DEF Descends

\* A block that leads into what is being gathered is connected to it: it is
\* finished and reaches a block that is not, so it is connected to one, and that
\* one cannot lie in a component gathered before.
LEMMA NewIsConnected ==
  ASSUME Graph, Typed, FinishOrder, Collecting, NEW node \in Gathered,
         NEW y \in Parents(node) \ assigned
  PROVE  \E g \in Gathered : Connected(y, g)
<1>1. /\ edges \in SUBSET (Block \X Block)
      /\ reachable \in SUBSET Block
  BY ReachableFacts DEF Graph
<1>2. y \in reachable /\ <<y, node>> \in edges
  BY DEF Parents, Predecessors
<1>3. y \in ToSet(finish)
  BY <1>2 DEF Collecting
<1>4. PICK r \in Gathered : r \notin ToSet(finish)
  BY DEF Collecting
<1>5. r \in reachable
  <2>1. ToSet(pending) \subseteq reachable
    BY DoneIsFinished, ElementOfSeq DEF Typed
  <2> QED
    BY <1>4, <2>1 DEF Typed, Gathered
<1>6. Reaches(edges, y, r)
  <2>1. Reaches(edges, y, node)
    BY <1>2, EdgeReaches
  <2>2. Reaches(edges, node, r)
    BY <1>4 DEF Collecting
  <2> QED
    BY <2>1, <2>2, ReachesOn
<1>7. Settled(ToSet(finish))
  <2>1. Len(finish) \in Nat /\ ToSet(finish) = First(finish, Len(finish))
    BY DoneIsFinished, LenProperties DEF Typed, First
  <2>2. Len(finish) \in 0 .. Len(finish)
    BY <2>1
  <2> QED
    BY <2>1, <2>2 DEF FinishOrder
<1>8. PICK g \in reachable \ ToSet(finish) : Connected(y, g)
  BY <1>3, <1>4, <1>5, <1>6, <1>7 DEF Settled
<1>9. g \in assigned
  BY <1>8 DEF Collecting
<1>10. CASE g \in Gathered
  BY <1>8, <1>10
<1>11. CASE g \in UNION ToSet(components)
  <2>1. PICK i \in DOMAIN components : g \in components[i]
    BY <1>11 DEF ToSet
  <2>2. components[i] = StrongComponent(g)
    BY <2>1 DEF Collecting, AreStrong
  <2>3. y \in components[i]
    BY <1>2, <1>8, <2>2 DEF StrongComponent, Connected
  <2>4. y \in UNION ToSet(components)
    BY <2>1, <2>3 DEF ToSet
  <2> QED
    BY <2>4 DEF Collecting
<1> QED
  BY <1>9, <1>10, <1>11 DEF Collecting

\* A node moves into the component; its parents that are new take its place.
LEMMA CollectKeeps ==
  ASSUME Inv, Collect
  PROVE  Inv'
<1> DEFINE node == Last(pending)
           new  == Parents(node) \ assigned
<1>1. /\ Graph /\ Typed /\ FinishOrder /\ Collecting /\ phase = "collect" /\ stack = <<>>
      /\ pending # <<>> /\ UNCHANGED <<graph, phase, first, components>>
      /\ component' = component \union {node} /\ assigned' = assigned \union new
  BY DEF Collect, Inv
<1>2. PICK pushed \in [1 .. Cardinality(new) -> new] :
        Descends(pushed, new) /\ pending' = Front(pending) \o pushed
  BY DEF Collect
<1>3. new \in SUBSET reachable
  BY DEF Parents
<1>4. /\ Front(pending) \in Seq(reachable) /\ node \in reachable
      /\ ToSet(pending) = ToSet(Front(pending)) \union {node}
  BY <1>1, FrontAndLast DEF Typed
<1> HIDE DEF node
<1>5. pushed \in Seq(reachable) /\ ToSet(pushed) = new
  BY <1>1, <1>2, <1>3, ListedBlocks
<1>6. /\ pending' \in Seq(reachable)
      /\ ToSet(pending') = ToSet(Front(pending)) \union new
  BY <1>2, <1>4, <1>5, ToSetConcat, ConcatProperties
<1>7. node \in Gathered /\ Gathered' = Gathered \union new
  BY <1>1, <1>4, <1>6 DEF Gathered
<1>8. \A y \in new : \E g \in Gathered : Connected(y, g)
  BY <1>1, <1>7, NewIsConnected
<1>9. edges' = edges /\ reachable' = reachable /\ components' = components
      /\ UNCHANGED <<visited, stack, finish, phase>>
  BY <1>1 DEF graph, first
<1> HIDE DEF new
<1>10. Graph' /\ FinishOrder'
  BY <1>1, <1>9, FinishOrderKept
<1>11. Typed'
  BY <1>1, <1>3, <1>4, <1>6, <1>9 DEF Typed, Frames
<1>12. AreStrong'
  BY <1>1, <1>9, SameGraph DEF Collecting, AreStrong
<1>13. \A a, b \in Gathered' : Reaches(edges', a, b)
  <2>1. \A a, b \in Gathered : Reaches(edges, a, b)
    BY <1>1 DEF Collecting
  <2>2. \A a \in Gathered' : \E g \in Gathered : Connected(a, g)
    BY <1>7, <1>8, ReachesItself DEF Connected
  <2> SUFFICES ASSUME NEW a \in Gathered', NEW b \in Gathered' PROVE Reaches(edges, a, b)
    BY <1>9
  <2>3. PICK g \in Gathered : Reaches(edges, a, g)
    BY <2>2 DEF Connected
  <2>4. PICK h \in Gathered : Reaches(edges, h, b)
    BY <2>2 DEF Connected
  <2>5. Reaches(edges, a, h)
    BY <2>1, <2>3, <2>4, ReachesOn
  <2> QED
    BY <2>4, <2>5, ReachesOn
<1>14. (UNION ToSet(components')) \union Gathered' = assigned'
  BY <1>1, <1>7, <1>9 DEF Collecting
<1>15. (UNION ToSet(components')) \intersect Gathered' = {}
  <2>1. UNION ToSet(components) \subseteq assigned
    BY <1>1 DEF Collecting
  <2>2. new \intersect assigned = {}
    BY DEF new
  <2> QED
    BY <1>1, <1>7, <1>9, <2>1, <2>2 DEF Collecting
<1>16. reachable' \ ToSet(finish') \subseteq assigned'
  BY <1>1, <1>9 DEF Collecting
<1>17. \A n \in component' : Parents(n)' \subseteq assigned'
  <2>1. \A n : Parents(n)' = Parents(n)
    BY <1>1, SameGraph
  <2>2. Parents(node) \subseteq assigned'
    BY <1>1 DEF new
  <2>3. \A n \in component : Parents(n) \subseteq assigned'
    BY <1>1 DEF Collecting
  <2> QED
    BY <1>1, <2>1, <2>2, <2>3
<1>18. Gathered' \ ToSet(finish') # {}
  BY <1>1, <1>7, <1>9 DEF Collecting
<1>19. Collecting'
  BY <1>12, <1>13, <1>14, <1>15, <1>16, <1>17, <1>18 DEF Collecting
<1> QED
  BY <1>1, <1>9, <1>10, <1>11, <1>19 DEF Inv

\* What was gathered is the strong component of each of its members: a block
\* that is connected to it and outside it would have a last block before it that
\* lies in an earlier component, and that component would hold all of it.
LEMMA ComponentIsStrong ==
  ASSUME Graph, Typed, Collecting, pending = <<>>, NEW n \in component
  PROVE  component = StrongComponent(n)
<1>1. /\ edges \in SUBSET (Block \X Block) /\ reachable \in SUBSET Block
      /\ \A e \in edges : e[1] \in reachable => e[2] \in reachable
      /\ \A a \in reachable, b \in Block : Reaches(edges, a, b) => b \in reachable
  BY ReachableFacts DEF Graph
<1>2. component = Gathered /\ component \subseteq reachable
  BY DEF Gathered, ToSet, Typed
<1>3. component \subseteq StrongComponent(n)
  BY <1>2 DEF StrongComponent, Collecting
<1>4. ASSUME NEW m \in StrongComponent(n), m \notin component PROVE FALSE
  <2> DEFINE S == Block \ component
  <2>1. m \in S /\ m \in reachable /\ m \in Block /\ Reaches(edges, n, m) /\ Reaches(edges, m, n)
    BY <1>1, <1>4 DEF StrongComponent
  <2>2. ASSUME NEW e \in edges, e[1] \in S, e[2] \in Block, Reaches(edges, m, e[1])
        PROVE  e[2] \in S
    <3> SUFFICES ASSUME e[2] \in component PROVE FALSE
      BY <2>2
    <3>1. e = <<e[1], e[2]>> /\ e[1] \in Block
      BY <1>1
    <3>2. e[1] \in reachable
      BY <1>1, <2>1, <2>2, <3>1
    <3>3. e[1] \in Parents(e[2])
      BY <3>1, <3>2 DEF Parents, Predecessors
    <3>4. e[1] \in UNION ToSet(components)
      BY <1>2, <2>2, <3>3 DEF Collecting
    <3>5. PICK i \in DOMAIN components : e[1] \in components[i]
      BY <3>4 DEF ToSet
    <3>6. components[i] = StrongComponent(e[1])
      BY <3>5 DEF Collecting, AreStrong
    <3>7. Reaches(edges, n, e[1])
      BY <2>1, <2>2, ReachesOn
    <3>8. Reaches(edges, e[1], n)
      <4>1. Reaches(edges, e[1], e[2])
        BY <3>1, EdgeReaches
      <4>2. Reaches(edges, e[2], n)
        BY <1>2 DEF Collecting
      <4> QED
        BY <4>1, <4>2, ReachesOn
    <3>9. n \in components[i]
      BY <1>2, <3>6, <3>7, <3>8 DEF StrongComponent
    <3>10. n \in UNION ToSet(components)
      BY <3>5, <3>9 DEF ToSet
    <3> QED
      BY <1>2, <3>10 DEF Collecting
  <2>3. n \in Block
    BY <1>1, <1>2
  <2> HIDE DEF S
  <2>4. n \in S
    BY <1>1, <2>1, <2>2, <2>3, ReachesInto
  <2> QED
    BY <2>4 DEF S
<1> QED
  BY <1>3, <1>4

\* A component is closed.
LEMMA EndComponentKeeps ==
  ASSUME Inv, EndComponent
  PROVE  Inv'
<1>1. /\ Graph /\ Typed /\ FinishOrder /\ Collecting /\ phase = "collect" /\ stack = <<>>
      /\ pending = <<>> /\ component # {} /\ component' = {}
      /\ components' = Append(components, component)
      /\ UNCHANGED <<graph, phase, first, assigned, pending>>
  BY DEF EndComponent, Inv
<1>2. UNCHANGED <<edges, reachable, visited, stack, finish, phase>>
  BY <1>1 DEF graph, first
<1>3. component \in SUBSET reachable /\ components \in Seq(SUBSET reachable)
  BY <1>1 DEF Typed
<1>4. /\ components' \in Seq(SUBSET reachable)
      /\ DOMAIN components = 1 .. Len(components) /\ Len(components) \in Nat
      /\ DOMAIN components' = 1 .. Len(components) + 1
      /\ \A i \in 1 .. Len(components) : components'[i] = components[i]
      /\ components'[Len(components) + 1] = component
  BY <1>1, <1>3, AppendProperties, LenProperties
<1>5. ToSet(components') = ToSet(components) \union {component}
  BY <1>1, <1>3, ToSetAppend
<1>6. Gathered = component /\ Gathered' = {}
  BY <1>1 DEF Gathered, ToSet
<1>7. Graph' /\ FinishOrder'
  BY <1>1, <1>2, FinishOrderKept
<1>8. Typed'
  BY <1>1, <1>2, <1>4 DEF Typed, Frames
<1>9. AreStrong'
  <2>1. \A i \in 1 .. Len(components) : \A n \in components[i] : components[i] = StrongComponent(n)
    BY <1>1, <1>4 DEF Collecting, AreStrong
  <2>2. \A n \in component : component = StrongComponent(n)
    BY <1>1, ComponentIsStrong
  <2>3. \A i \in 1 .. Len(components) + 1 : i \in 1 .. Len(components) \/ i = Len(components) + 1
    BY <1>4
  <2>4. \A n : StrongComponent(n)' = StrongComponent(n)
    BY <1>1, SameGraph
  <2>5. \A i \in DOMAIN components' : \A n \in components'[i] : components'[i] = StrongComponent(n)
    BY <1>4, <2>1, <2>2, <2>3
  <2> QED
    BY <2>4, <2>5 DEF AreStrong
<1>10. Collecting'
  BY <1>1, <1>2, <1>5, <1>6, <1>9 DEF Collecting
<1> QED
  BY <1>1, <1>2, <1>7, <1>8, <1>10 DEF Inv

\* finish_order is used up: every reachable block has its component.
LEMMA EndCollectKeeps ==
  ASSUME Inv, EndCollect
  PROVE  Inv'
<1>1. /\ Graph /\ Typed /\ FinishOrder /\ Collecting /\ stack = <<>>
      /\ pending = <<>> /\ component = {} /\ finish = <<>> /\ phase' = "check"
      /\ UNCHANGED <<graph, first, second>>
  BY DEF EndCollect, Inv
<1>2. UNCHANGED <<edges, reachable, visited, stack, finish, assigned, component, pending, components>>
  BY <1>1 DEF graph, first, second
<1>3. Graph' /\ FinishOrder'
  BY <1>1, <1>2, FinishOrderKept
<1>4. Typed'
  BY <1>1, <1>2 DEF Typed, Frames
<1>5. ToSet(finish) = {} /\ Gathered = {}
  BY <1>1 DEF ToSet, Gathered
<1>6. reachable' \subseteq UNION ToSet(components')
  BY <1>1, <1>2, <1>5 DEF Collecting
<1>7. AreStrong'
  BY <1>1, <1>2, SameGraph DEF Collecting, AreStrong
<1>8. Checking'
  BY <1>1, <1>6, <1>7 DEF Checking
<1> QED
  BY <1>1, <1>2, <1>3, <1>4, <1>8 DEF Inv

\* A component is entered once and dropped, or ends the check.
LEMMA CheckComponentKeeps ==
  ASSUME Inv, CheckComponent
  PROVE  Inv'
<1>1. /\ Graph /\ Typed /\ FinishOrder /\ Checking /\ phase = "check" /\ stack = <<>>
      /\ components # <<>>
      /\ IF IsEnteredTwice(Head(components))
         THEN phase' = "rejected" /\ UNCHANGED components
         ELSE components' = Tail(components) /\ UNCHANGED phase
      /\ UNCHANGED <<graph, first, assigned, component, pending>>
  BY DEF CheckComponent, Inv, IsEnteredTwice
<1>2. UNCHANGED <<edges, reachable, visited, stack, finish>>
  BY <1>1 DEF graph, first
<1>3. Graph' /\ FinishOrder'
  BY <1>1, <1>2, FinishOrderKept
<1>4. /\ \A n : StrongComponent(n)' = StrongComponent(n)
      /\ \A C : IsEnteredTwice(C)' <=> IsEnteredTwice(C)
  BY <1>1, SameGraph
<1>5. CASE IsEnteredTwice(Head(components))
  <2>1. phase' = "rejected" /\ components' = components
    BY <1>1, <1>5
  <2>2. Typed'
    BY <1>1, <1>2, <2>1 DEF Typed, Frames
  <2>3. IsEnteredTwice(Head(components))'
    BY <1>2, <1>5, <2>1 DEF IsEnteredTwice, Cyclic, Entries
  <2>4. AreStrong'
    BY <1>1, <1>4, <2>1 DEF Checking, AreStrong
  <2>5. \A n \in reachable' : \/ n \in UNION ToSet(components')
                              \/ ~IsEnteredTwice(StrongComponent(n))'
    BY <1>1, <1>2, <1>4, <2>1 DEF Checking
  <2>6. Checking'
    BY <1>1, <2>1, <2>3, <2>4, <2>5, Zenon DEF Checking
  <2> QED
    BY <1>2, <1>1, <1>3, <2>1, <2>2, <2>6 DEF Inv
<1>6. CASE ~IsEnteredTwice(Head(components))
  <2> DEFINE m == Len(components)
  <2>1. phase' = "check" /\ components' = Tail(components)
    BY <1>1, <1>6
  <2>2. /\ components' \in Seq(SUBSET reachable) /\ Len(components') = m - 1 /\ m \in Nat \ {0}
        /\ Head(components) = components[1]
        /\ \A i \in 1 .. m - 1 : components'[i] = components[i + 1]
    BY <1>1, <2>1, HeadTailProperties, EmptySeq DEF Typed
  <2>3. DOMAIN components = 1 .. m /\ DOMAIN components' = 1 .. m - 1
    BY <1>1, <2>2, LenProperties DEF Typed
  <2> HIDE DEF m
  <2>4. Typed'
    BY <1>1, <1>2, <2>1, <2>2 DEF Typed, Frames
  <2>5. AreStrong'
    <3>1. \A i \in 1 .. m - 1 : i + 1 \in 1 .. m
      BY <2>2
    <3>2. \A i \in 1 .. m - 1 : \A n \in components'[i] : components'[i] = StrongComponent(n)
      BY <1>1, <2>2, <2>3, <3>1 DEF Checking, AreStrong
    <3> QED
      BY <1>4, <2>3, <3>2 DEF AreStrong
  <2>6. ASSUME NEW n \in reachable, n \in UNION ToSet(components), n \notin UNION ToSet(components')
        PROVE  ~IsEnteredTwice(StrongComponent(n))
    <3>1. PICK i \in 1 .. m : n \in components[i]
      BY <2>3, <2>6 DEF ToSet
    <3>2. i = 1
      <4>1. ASSUME i # 1 PROVE FALSE
        <5>1. i - 1 \in 1 .. m - 1 /\ i - 1 + 1 = i
          BY <2>2, <3>1, <4>1
        <5>2. components'[i - 1] = components[i]
          BY <2>2, <5>1
        <5>3. n \in UNION ToSet(components')
          BY <2>3, <3>1, <5>1, <5>2 DEF ToSet
        <5> QED
          BY <2>6, <5>3
      <4> QED
        BY <4>1
    <3>3. Head(components) = StrongComponent(n)
      BY <1>1, <2>2, <2>3, <3>1, <3>2 DEF Checking, AreStrong
    <3> QED
      BY <1>6, <3>3
  <2>7. \A n \in reachable' : \/ n \in UNION ToSet(components')
                              \/ ~IsEnteredTwice(StrongComponent(n))'
    BY <1>1, <1>2, <1>4, <2>6 DEF Checking
  <2>8. Checking'
    BY <2>1, <2>5, <2>7 DEF Checking
  <2> QED
    BY <1>1, <1>2, <1>3, <2>1, <2>4, <2>8 DEF Inv
<1> QED
  BY <1>5, <1>6

\* No component is left.
LEMMA AcceptKeeps ==
  ASSUME Inv, Accept
  PROVE  Inv'
<1>1. /\ Graph /\ Typed /\ FinishOrder /\ Checking /\ stack = <<>>
      /\ components = <<>> /\ phase' = "accepted" /\ UNCHANGED <<graph, first, second>>
  BY DEF Accept, Inv
<1>2. UNCHANGED <<edges, reachable, visited, stack, finish, assigned, component, pending, components>>
  BY <1>1 DEF graph, first, second
<1>3. Graph' /\ FinishOrder'
  BY <1>1, <1>2, FinishOrderKept
<1>4. Typed'
  BY <1>1, <1>2 DEF Typed, Frames
<1>5. AreStrong'
  BY <1>1, <1>2, SameGraph DEF Checking, AreStrong
<1>6. /\ \A n : StrongComponent(n)' = StrongComponent(n)
      /\ \A C : IsEnteredTwice(C)' <=> IsEnteredTwice(C)
  BY <1>1, SameGraph
<1>7. Checking'
  BY <1>1, <1>2, <1>5, <1>6 DEF Checking
<1> QED
  BY <1>1, <1>2, <1>3, <1>4, <1>7 DEF Inv

\* Steps of the other analyses change nothing here.
LEMMA StutterKeeps ==
  ASSUME Inv, UNCHANGED vars
  PROVE  Inv'
<1>1. UNCHANGED <<edges, reachable, phase, visited, stack, finish,
                  assigned, component, pending, components>>
  BY DEF vars
<1>2. UNCHANGED graph
  BY <1>1 DEF graph
<1>3. Graph' /\ FinishOrder'
  BY <1>1, <1>2, FinishOrderKept DEF Inv
<1>4. Typed'
  BY <1>1 DEF Inv, Typed, Frames
<1>5. phase' = "order" => Searching'
  BY <1>1 DEF Inv, Searching, OnStack, Children, Successors, Reaches, Closed
<1>6. AreStrong => AreStrong'
  BY <1>1, <1>2, SameGraph DEF AreStrong
<1>7. Gathered' = Gathered
  BY <1>1 DEF Gathered
<1>8. phase' = "collect" => Collecting'
  BY <1>1, <1>2, <1>6, <1>7, SameGraph DEF Inv, Collecting
<1>9. phase' \in {"check", "accepted", "rejected"} => Checking'
  BY <1>1, <1>2, <1>6, SameGraph DEF Inv, Checking
<1> QED
  BY <1>1, <1>3, <1>4, <1>5, <1>8, <1>9 DEF Inv

\* Every step keeps the invariant.
LEMMA NextInv == Inv /\ [Next]_vars => Inv'
BY StartRootKeeps, NextChildKeeps, FinishNodeKeeps, EndOrderKeeps, NextRootKeeps, CollectKeeps,
   EndComponentKeeps, EndCollectKeeps, CheckComponentKeeps, AcceptKeeps, StutterKeeps DEF Next

\* The invariant of _ensure_reducible.
LEMMA InvHolds == Init /\ [][Next]_vars => []Inv
BY InitInv, NextInv, PTL
-----------------------------------------------------------------------------
\* The sequences of the searches hold reachable blocks.
LEMMA InvTypes == Inv => TypeOK
<1> SUFFICES ASSUME Inv PROVE TypeOK
  OBVIOUS
<1>1. Graph /\ Typed
  BY DEF Inv
<1>2. ToSet(finish) \subseteq reachable
  BY <1>1, DoneIsFinished, ElementOfSeq DEF Typed
<1>3. \A i \in DOMAIN stack : stack[i].node \in visited
  <2>1. CASE phase = "order"
    BY <2>1 DEF Inv, Searching, OnStack
  <2>2. CASE phase # "order"
    <3>1. DOMAIN stack = {}
      BY <2>2 DEF Inv
    <3> QED
      BY <3>1
  <2> QED
    BY <2>1, <2>2
<1> QED
  BY <1>1, <1>2, <1>3 DEF TypeOK, Graph, Typed

\* Neither search leaves the reachable blocks.
THEOREM TypesHold == Spec => []TypeOK
BY InvHolds, InvTypes, PTL DEF Spec

\* The strong components gathered, and the blocks left out until the end.
LEMMA InvComponents == Inv => ComponentsAreStrong
<1> SUFFICES ASSUME Inv, phase = "collect" PROVE
               /\ AreStrong
               /\ (UNION ToSet(components)) \union component \union ToSet(pending) = assigned
               /\ finish = <<>> => assigned = reachable
  BY DEF ComponentsAreStrong, AreStrong
<1>1. Collecting /\ Typed
  BY DEF Inv
<1>2. AreStrong /\ (UNION ToSet(components)) \union component \union ToSet(pending) = assigned
  BY <1>1 DEF Collecting, Gathered
<1>3. ASSUME finish = <<>> PROVE assigned = reachable
  <2>1. ToSet(finish) = {}
    BY <1>3 DEF ToSet
  <2> QED
    BY <1>1, <2>1 DEF Collecting, Typed
<1> QED
  BY <1>2, <1>3

\* A component that is closed is one strong component, whole, and when the
\* second search ends no component is missing: Kosaraju's algorithm is right as
\* _strong_components runs it, on every graph.
THEOREM ComponentsAreWhole == Spec => []ComponentsAreStrong
BY InvHolds, InvComponents, PTL DEF Spec
-----------------------------------------------------------------------------
(* What several entries mean for the graph.                                *)

\* Cardinality > 1, as _ensure_reducible asks it, means two different blocks.
LEMMA MoreThanOne ==
  ASSUME NEW S \in SUBSET Block
  PROVE  Cardinality(S) > 1 <=> \E a, b \in S : a # b
<1>1. IsFiniteSet(S)
  <2>1. IsFiniteSet(Block)
    BY BlockCountAssumption, FS_Interval DEF Block
  <2> QED
    BY <2>1, FS_Subset
<1>2. ASSUME Cardinality(S) > 1 PROVE \E a, b \in S : a # b
  <2>1. S # {}
    BY <1>2, FS_EmptySet
  <2>2. PICK a \in S : TRUE
    BY <2>1
  <2>3. S # {a}
    <3>1. Cardinality({a}) = 1
      BY FS_Singleton
    <3> QED
      BY <1>2, <3>1
  <2> QED
    BY <2>2, <2>3
<1>3. ASSUME NEW a \in S, NEW b \in S, a # b PROVE Cardinality(S) > 1
  <2>1. Cardinality({a}) = 1 /\ IsFiniteSet({a})
    BY FS_Singleton
  <2>2. Cardinality({a} \union {b}) = 2
    BY <1>3, <2>1, FS_AddElement
  <2>3. {a} \union {b} \in SUBSET S
    OBVIOUS
  <2>4. Cardinality({a} \union {b}) <= Cardinality(S)
    BY <1>1, <2>3, FS_Subset
  <2>5. Cardinality(S) \in Nat
    BY <1>1, FS_CardinalityType
  <2> QED
    BY <2>2, <2>4, <2>5
<1> QED
  BY <1>2, <1>3

\* A strong component, by each of its members.
Strong(C) == C \in SUBSET reachable /\ \A n \in C : C = StrongComponent(n)

\* Every reachable block has its component.
LEMMA StrongComponents ==
  ASSUME Graph, NEW n \in reachable
  PROVE  n \in StrongComponent(n) /\ Strong(StrongComponent(n))
<1>1. n \in StrongComponent(n)
  BY ReachesItself DEF StrongComponent
<1>2. ASSUME NEW m \in StrongComponent(n), NEW x PROVE x \in StrongComponent(n) <=> x \in StrongComponent(m)
  BY <1>2, ReachesOn DEF StrongComponent
<1> QED
  BY <1>1, <1>2 DEF Strong, StrongComponent

\* A block between two members is a member.
LEMMA BetweenMembers ==
  ASSUME Graph, NEW C, Strong(C), NEW a \in C, NEW b \in C, NEW x \in Block,
         Reaches(edges, a, x), Reaches(edges, x, b)
  PROVE  x \in C
<1>1. a \in reachable
  BY DEF Strong
<1>2. x \in reachable
  BY <1>1, ReachableFacts DEF Graph
<1>3. b \in StrongComponent(a)
  BY DEF Strong
<1>4. Reaches(edges, x, a)
  BY <1>3, ReachesOn DEF StrongComponent
<1> QED
  BY <1>2, <1>4 DEF Strong, StrongComponent

\* An entry h of C, with the edge into it.
LEMMA EntryFacts ==
  ASSUME Graph, NEW C, Strong(C), NEW h \in Entries(C)
  PROVE  /\ h \in C /\ h \in Block /\ Entry \notin C
         /\ \E u \in reachable \ C : <<u, h>> \in edges
<1>1. /\ edges \in SUBSET (Block \X Block) /\ reachable \in SUBSET Block /\ Entry \in reachable
      /\ \A b \in reachable : Reaches(edges, Entry, b)
  BY ReachableFacts DEF Graph
<1>2. PICK e \in edges : e[1] \in reachable \ C /\ e[2] \in C /\ h = e[2]
  BY DEF Entries
<1>3. e = <<e[1], h>> /\ h \in C /\ h \in Block
  BY <1>1, <1>2
<1>4. ASSUME Entry \in C PROVE FALSE
  <2>1. Reaches(edges, Entry, e[1]) /\ Reaches(edges, e[1], h) /\ e[1] \in Block
    BY <1>1, <1>2, <1>3, EdgeReaches
  <2> QED
    BY <1>2, <1>3, <1>4, <2>1, BetweenMembers
<1> QED
  BY <1>2, <1>3, <1>4

\* The edges Reducible keeps: the target does not dominate the source.
Forward == {e \in edges : e[1] \in reachable /\ ~Dominates(e[2], e[1])}

\* Forward edges lead from an entry h to the whole component: an edge x to y that
\* is not one, with x led to and y not, would have y on every way to x, and the
\* way from the entry block over h to x has no y.
LEMMA ForwardFromEntry ==
  ASSUME Graph, NEW C, Strong(C), NEW h \in Entries(C), NEW m \in C
  PROVE  Reaches(Forward, h, m)
<1> DEFINE Z == From(Forward, h)
           S == Z \union (Block \ C)
<1>1. /\ edges \in SUBSET (Block \X Block) /\ reachable \in SUBSET Block
      /\ Entry \in reachable /\ Entry \in Block
      /\ \A b \in reachable : Reaches(edges, Entry, b)
      /\ \A e \in edges : e[1] \in reachable => e[2] \in reachable
  BY ReachableFacts DEF Graph
<1>2. h \in C /\ h \in Block /\ Entry \notin C /\ C \subseteq Block /\ C \subseteq reachable
  BY <1>1, EntryFacts DEF Strong
<1>3. PICK u \in reachable \ C : <<u, h>> \in edges
  BY EntryFacts
<1>4. Forward \in SUBSET (Block \X Block) /\ Forward \subseteq edges
  BY <1>1 DEF Forward
<1>5. h \in Z /\ Z \in SUBSET Block /\ Closed(Forward, Z)
  BY <1>2, <1>4, FromIsClosed
<1>6. ASSUME NEW b \in Block, Reaches(edges, h, b), Reaches(edges, b, h) PROVE b \in C
  BY <1>2, <1>6, BetweenMembers
<1>7. ASSUME NEW e \in edges, e[1] \in Z, e[1] \in C, e[2] \in C, e[2] \notin Z PROVE FALSE
  <2> DEFINE x == e[1]
             y == e[2]
  <2>1. e \notin Forward
    BY <1>5, <1>7 DEF Closed
  <2>2. Dominates(y, x) /\ x # y
    BY <1>2, <1>7, <2>1 DEF Forward
  <2>3. y # Entry /\ y # h /\ x \in Block /\ y \in Block /\ y \in C
    BY <1>2, <1>5, <1>7
  <2>4. Reaches(Forward, h, x)
    BY <1>7 DEF From
  <2> HIDE DEF x, y, Z, S
  <2>5. PICK cut \in SUBSET reachable :
          {Entry} \ {y} \subseteq cut /\ x \notin cut
          /\ \A f \in edges : f[1] \in cut /\ f[2] # y => f[2] \in cut
    BY <2>2 DEF Dominates
  <2>6. Entry \in cut
    BY <2>3, <2>5
  <2>7. u \in cut
    <3> DEFINE T == cut \union From(edges, h)
    <3>1. Closed(edges, From(edges, h)) /\ From(edges, h) \in SUBSET Block
      BY <1>1, <1>2, FromIsClosed
    <3>2. y \in From(edges, h)
      BY <1>2, <2>3 DEF From, Strong, StrongComponent
    <3>3. \A f \in edges : f[1] \in T => f[2] \in T
      BY <2>5, <3>1, <3>2 DEF Closed
    <3>4. u \in Block /\ Reaches(edges, Entry, u)
      BY <1>1, <1>3
    <3>5. Entry \in T
      BY <2>6
    <3> HIDE DEF T
    <3>6. u \in T
      BY <1>1, <3>3, <3>4, <3>5, ReachesInto
    <3>7. ASSUME u \in From(edges, h) PROVE FALSE
      <4>1. Reaches(edges, u, h)
        BY <1>3, EdgeReaches
      <4> QED
        BY <1>3, <1>6, <3>4, <3>7, <4>1 DEF From
    <3> QED
      BY <3>6, <3>7 DEF T
  <2>8. h \in cut
    <3>1. <<u, h>>[1] = u /\ <<u, h>>[2] = h
      OBVIOUS
    <3> QED
      BY <1>3, <2>3, <2>5, <2>7, <3>1
  <2>9. ASSUME NEW f \in Forward, f[1] \in cut, f[2] \in Block, Reaches(Forward, h, f[1])
        PROVE  f[2] \in cut
    <3>1. f \in edges /\ f = <<f[1], f[2]>>
      BY <1>4
    <3>2. Reaches(Forward, h, f[2])
      BY <2>9, <3>1, EdgeReaches, ReachesOn
    <3>3. f[2] # y
      BY <1>7, <2>9, <3>2 DEF Z, From, y
    <3> QED
      BY <2>5, <2>9, <3>1, <3>3
  <2>10. x \in cut
    BY <1>2, <1>4, <2>3, <2>4, <2>8, <2>9, ReachesInto
  <2> QED
    BY <2>5, <2>10
<1>8. ASSUME NEW e \in edges, e[1] \in S, e[2] \in Block, Reaches(edges, h, e[1]) PROVE e[2] \in S
  <2>1. e = <<e[1], e[2]>> /\ e[1] \in Block
    BY <1>1
  <2>2. Reaches(edges, e[1], e[2])
    BY <2>1, EdgeReaches
  <2>3. CASE e[2] \in C
    <3>1. Reaches(edges, e[2], h)
      BY <1>2, <2>3 DEF Strong, StrongComponent
    <3>2. e[1] \in C
      BY <1>6, <1>8, <2>1, <2>2, <3>1, ReachesOn
    <3>3. e[1] \in Z
      BY <1>8, <3>2
    <3> QED
      BY <1>7, <2>3, <3>2, <3>3
  <2> QED
    BY <1>8, <2>3
<1>9. Reaches(edges, h, m) /\ m \in Block /\ h \in S
  BY <1>2, <1>5 DEF Strong, StrongComponent
<1> HIDE DEF S, Z
<1>10. m \in S
  BY <1>1, <1>2, <1>8, <1>9, ReachesInto
<1> QED
  BY <1>10 DEF S, Z, From

\* Two entries lead to each other on forward edges, so these have a cycle.
LEMMA TwoEntriesIrreducible ==
  ASSUME Graph, NEW C, Strong(C), NEW a \in Entries(C), NEW b \in Entries(C), a # b
  PROVE  ~Reducible
<1> DEFINE S == {x \in reachable : Reaches(Forward, a, x) /\ Reaches(Forward, x, a)}
<1>1. /\ edges \in SUBSET (Block \X Block) /\ reachable \in SUBSET Block
      /\ \A e \in edges : e[1] \in reachable => e[2] \in reachable
  BY ReachableFacts DEF Graph
<1>2. a \in C /\ b \in C /\ a \in reachable /\ a \in Block /\ b \in Block
  BY EntryFacts DEF Strong
<1>3. Reaches(Forward, a, b) /\ Reaches(Forward, b, a)
  BY <1>2, ForwardFromEntry
<1>4. Forward \in SUBSET (Block \X Block) /\ Forward \subseteq edges
  BY <1>1 DEF Forward
<1>5. a \in S
  BY <1>2, ReachesItself
<1>6. ASSUME NEW x \in S, \A y \in S : <<x, y>> \notin Forward PROVE FALSE
  <2> DEFINE T == {x} \union {z \in Block : ~Reaches(Forward, z, a)}
  <2>1. x \in reachable /\ x \in Block /\ Reaches(Forward, a, x) /\ Reaches(Forward, x, a)
    BY <1>1
  <2>2. PICK t \in Block : t # x /\ Reaches(Forward, x, t) /\ Reaches(Forward, t, a)
    <3>1. CASE x = a
      BY <1>2, <1>3, <3>1
    <3>2. CASE x # a
      BY <1>2, <2>1, <3>2, ReachesItself
    <3> QED
      BY <3>1, <3>2
  <2>3. ASSUME NEW e \in Forward, e[1] \in T, e[2] \in Block PROVE e[2] \in T
    <3>1. e = <<e[1], e[2]>> /\ e \in edges
      BY <1>4
    <3>2. Reaches(Forward, e[1], e[2])
      BY <3>1, EdgeReaches
    <3>3. CASE e[1] = x
      <4>1. e[2] \in reachable /\ Reaches(Forward, a, e[2])
        BY <1>1, <2>1, <3>1, <3>2, <3>3, ReachesOn
      <4>2. <<x, e[2]>> \in Forward
        BY <3>1, <3>3
      <4> QED
        BY <1>6, <2>3, <4>1, <4>2
    <3>4. CASE ~Reaches(Forward, e[1], a)
      BY <2>3, <3>2, <3>4, ReachesOn
    <3> QED
      BY <2>3, <3>3, <3>4
  <2>4. x \in T
    OBVIOUS
  <2> HIDE DEF T
  <2>5. t \in T
    BY <1>4, <2>1, <2>2, <2>3, <2>4, ReachesInto
  <2> QED
    BY <2>2, <2>5 DEF T
<1>7. S \in SUBSET reachable /\ S # {}
  BY <1>5
<1> HIDE DEF S
<1> QED
  BY <1>6, <1>7 DEF Reducible, Forward

\* A component that is refused has two entries.
LEMMA InvRejection == Inv => RejectsOnlyIrreducible
<1> SUFFICES ASSUME Inv, phase = "rejected" PROVE ~Reducible
  BY DEF RejectsOnlyIrreducible
<1> DEFINE C == Head(components)
<1>1. Graph /\ Typed /\ AreStrong /\ components # <<>> /\ IsEnteredTwice(C)
  BY DEF Inv, Checking
<1>2. C = components[1] /\ 1 \in DOMAIN components /\ C \in SUBSET reachable
  BY <1>1, HeadTailProperties, EmptySeq, LenProperties DEF Typed
<1>3. Strong(C)
  BY <1>1, <1>2 DEF AreStrong, Strong
<1> HIDE DEF C
<1>4. Entries(C) \in SUBSET Block
  BY <1>1, <1>2, ReachableFacts DEF Entries, Graph
<1>5. PICK a, b \in Entries(C) : a # b
  BY <1>1, <1>4, MoreThanOne DEF IsEnteredTwice
<1> QED
  BY <1>1, <1>3, <1>5, TwoEntriesIrreducible

\* A code object is refused only for a graph with a cycle no block dominates:
\* no dead edge and no legal loop costs the user the whole function.
THEOREM RejectionIsJustified == Spec => []RejectsOnlyIrreducible
BY InvHolds, InvRejection, PTL DEF Spec

\* A component with one entry, or with the entry block, is dominated by it.
LEMMA HeaderDominates ==
  ASSUME Graph, NEW C, Strong(C), C # {}, ~(Cardinality(Entries(C)) > 1)
  PROVE  \E h \in C : \A m \in C : Dominates(h, m)
<1>1. /\ edges \in SUBSET (Block \X Block) /\ reachable \in SUBSET Block
      /\ Entry \in reachable /\ Entry \in Block
      /\ \A b \in reachable : Reaches(edges, Entry, b)
      /\ \A e \in edges : e[1] \in reachable => e[2] \in reachable
  BY ReachableFacts DEF Graph
<1>2. C \subseteq reachable /\ C \subseteq Block
  BY <1>1 DEF Strong
<1>3. CASE Entry \in C
  <2>1. \A m \in C : Dominates(Entry, m)
    <3>1. {} \in SUBSET reachable /\ {Entry} \ {Entry} \subseteq {}
      OBVIOUS
    <3> QED
      BY <3>1 DEF Dominates
  <2> QED
    BY <1>3, <2>1
<1>4. CASE Entry \notin C
  <2> DEFINE S == Block \ C
  <2>1. PICK n \in C : TRUE
    OBVIOUS
  <2>2. \E e \in edges : e[1] \in S /\ e[2] \in Block /\ Reaches(edges, Entry, e[1]) /\ e[2] \notin S
    <3>1. Entry \in S /\ n \in Block /\ n \notin S /\ Reaches(edges, Entry, n)
      BY <1>1, <1>2, <1>4, <2>1
    <3> HIDE DEF S
    <3> QED
      BY <1>1, <3>1, ReachesInto
  <2>3. PICK e \in edges : e[1] \in Block \ C /\ e[2] \in C /\ Reaches(edges, Entry, e[1])
    BY <2>2
  <2>4. e[1] \in reachable
    BY <1>1, <2>3, ReachableFacts DEF Graph
  <2>5. e[2] \in Entries(C) /\ Entries(C) \in SUBSET Block
    BY <1>1, <2>3, <2>4 DEF Entries
  <2>6. \A f \in edges : f[1] \in reachable \ C /\ f[2] \in C => f[2] = e[2]
    <3>1. \A f \in edges : f[1] \in reachable \ C /\ f[2] \in C => f[2] \in Entries(C)
      BY DEF Entries
    <3>2. \A x \in Entries(C) : x = e[2]
      BY <2>5, MoreThanOne
    <3> QED
      BY <3>1, <3>2
  <2>7. ASSUME NEW m \in C PROVE Dominates(e[2], m)
    <3> DEFINE cut == reachable \ C
    <3>1. cut \in SUBSET reachable /\ {Entry} \ {e[2]} \subseteq cut /\ m \notin cut
      BY <1>1, <1>4
    <3>2. \A f \in edges : f[1] \in cut /\ f[2] # e[2] => f[2] \in cut
      BY <1>1, <2>6
    <3> HIDE DEF cut
    <3> QED
      BY <3>1, <3>2 DEF Dominates
  <2> QED
    BY <2>3, <2>7
<1> QED
  BY <1>3, <1>4

\* Each block of a cyclic component has a predecessor in it.
LEMMA CycleLeadsBack ==
  ASSUME Graph, NEW C, Strong(C), Cyclic(C), NEW h \in C
  PROVE  \E m \in C : <<m, h>> \in edges
<1>1. edges \in SUBSET (Block \X Block) /\ reachable \in SUBSET Block
  BY ReachableFacts DEF Graph
<1>2. C \in SUBSET Block
  BY <1>1 DEF Strong
<1>3. CASE C = {h}
  <2>1. ~(Cardinality(C) > 1)
    BY <1>2, <1>3, MoreThanOne
  <2>2. PICK x \in C : <<x, x>> \in edges
    BY <2>1 DEF Cyclic
  <2> QED
    BY <1>3, <2>2
<1>4. CASE C # {h}
  <2> DEFINE S == Block \ {h}
  <2>1. PICK m \in C : m # h
    BY <1>4
  <2>2. Reaches(edges, m, h) /\ m \in Block /\ h \in Block
    BY <1>2 DEF Strong, StrongComponent
  <2>3. PICK e \in edges : e[1] \in S /\ e[2] \in Block /\ Reaches(edges, m, e[1]) /\ e[2] \notin S
    <3>1. m \in S /\ h \notin S
      BY <2>1, <2>2
    <3> HIDE DEF S
    <3> QED
      BY <1>1, <2>2, <3>1, ReachesInto
  <2>4. e = <<e[1], h>> /\ e[1] \in Block
    BY <1>1, <2>3
  <2>5. Reaches(edges, e[1], h)
    BY <2>4, EdgeReaches
  <2>6. e[1] \in C
    BY <2>3, <2>4, <2>5, BetweenMembers
  <2> QED
    BY <2>4, <2>6
<1> QED
  BY <1>3, <1>4

\* Each component of an accepted graph has gone through the check.
LEMMA InvHeaders == Inv => AcceptedCyclesHaveHeader
<1> SUFFICES ASSUME Inv, phase = "accepted", NEW n \in reachable, Cyclic(StrongComponent(n))
             PROVE  \E h \in StrongComponent(n) :
                      /\ \A m \in StrongComponent(n) : Dominates(h, m)
                      /\ \E m \in StrongComponent(n) : <<m, h>> \in edges
  BY DEF AcceptedCyclesHaveHeader
<1> DEFINE C == StrongComponent(n)
<1>1. Graph /\ Checking /\ components = <<>>
  BY DEF Inv, Checking
<1>2. ToSet(components) = {}
  BY <1>1 DEF ToSet
<1>3. ~IsEnteredTwice(C)
  BY <1>1, <1>2 DEF Checking
<1>4. n \in C /\ Strong(C)
  BY <1>1, StrongComponents
<1> HIDE DEF C
<1>5. PICK h \in C : \A m \in C : Dominates(h, m)
  BY <1>1, <1>3, <1>4, HeaderDominates DEF IsEnteredTwice, C
<1>6. \E m \in C : <<m, h>> \in edges
  BY <1>1, <1>4, CycleLeadsBack DEF C
<1> QED
  BY <1>5, <1>6 DEF C

\* Every cyclic component of an accepted graph has a header: a block that
\* dominates all of it and is the target of an edge from it.
THEOREM AcceptanceGivesHeaders == Spec => []AcceptedCyclesHaveHeader
BY InvHolds, InvHeaders, PTL DEF Spec
=============================================================================
