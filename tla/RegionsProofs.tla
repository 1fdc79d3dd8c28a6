--------------------------- MODULE RegionsProofs ---------------------------
(***************************************************************************)
(* The region parser on any code whose jumps go to instructions, whatever  *)
(* statements it was compiled from, if from any: its calls stay inside the *)
(* code and never meet the same region twice, a break leaves the loop      *)
(* whose body is being parsed, the loop starts that are suppressed are     *)
(* those of the calls, and the parser comes to an end.                     *)
(*                                                                         *)
(* All of it is in the shape of the calls.  A call that waits has captured *)
(* as many suites as it has regions before the one that is being parsed,   *)
(* and what its statement will go on with, and to which loop each of its   *)
(* suites belongs, was settled when the statement was recognized.          *)
(***************************************************************************)
EXTENDS Regions, TLAPS, SequenceTheorems, FiniteSetTheorems,
        WellFoundedInduction

\* A sequence, of whatever is in it.
IsSequence(s) == s \in Seq(ToSet(s))

Inside(i) == i \in 1 .. Past

\* A statement of a call in the loop `loop` that waits for its suites: the first suite
\* of a loop is in that loop, which a break leaves to where the statement ends; the
\* others are where the statement is.
IsTodo(t, loop) ==
  /\ t = [op |-> t.op, test |-> t.test, regions |-> t.regions, next |-> t.next,
          tail |-> t.tail, starts |-> t.starts, bodies |-> t.bodies]
  /\ Inside(t.next)
  /\ IsSequence(t.regions) /\ Len(t.regions) \in 1 .. 2
  /\ IsSequence(t.bodies) /\ Len(t.bodies) <= Len(t.regions)
  /\ \A i \in 1 .. Len(t.regions) :
       /\ Inside(t.regions[i].start) /\ Inside(t.regions[i].end)
       /\ IF t.op # "if" /\ i = 1 THEN t.regions[i].loop.break = t.next
                                  ELSE t.regions[i].loop = loop

IsFrame(f) ==
  /\ f = [region |-> f.region, index |-> f.index, body |-> f.body, stack |-> f.stack,
          todo |-> f.todo]
  /\ Inside(f.index) /\ Inside(f.region.start) /\ Inside(f.region.end)
  /\ f.todo # << >> => f.todo = <<f.todo[1]>> /\ IsTodo(f.todo[1], f.region.loop)

\* The call `g` parses the suite that `f` waits for.
Calls(f, g) ==
  /\ f.todo # << >>
  /\ Len(f.todo[1].bodies) < Len(f.todo[1].regions)
  /\ g.region = f.todo[1].regions[Len(f.todo[1].bodies) + 1]

Held(f) == IF f.todo = << >> THEN {} ELSE f.todo[1].starts

FramesOK(s) ==
  /\ IsSequence(s) /\ s # << >>
  /\ \A k \in 1 .. Len(s) : IsFrame(s[k])
  /\ \A k \in 1 .. Len(s) - 1 : Calls(s[k], s[k + 1])
  /\ \A j, k \in 1 .. Len(s) : s[j].region = s[k].region => j = k
  /\ \A j, k \in 1 .. Len(s) : j # k => Held(s[j]) \intersect Held(s[k]) = {}

RegionsOf(s) == {s[k].region : k \in 1 .. Len(s)}
AllHeld(s)   == UNION {Held(s[k]) : k \in 1 .. Len(s)}

Inv == /\ IsCode(tokens)
       /\ outcome \in {"running", "recovered", "error"}
       /\ work \in 1 .. WorkLimit
       /\ FramesOK(frames)
       /\ active = IF outcome = "recovered" THEN {} ELSE RegionsOf(frames)
       /\ suppressed = AllHeld(frames)
-----------------------------------------------------------------------------
(* Sequences, and the least and the greatest of a set.                     *)

LEMMA SequenceOf ==
  ASSUME NEW S, NEW s \in Seq(S)
  PROVE  IsSequence(s) /\ Len(s) \in Nat /\ DOMAIN s = 1 .. Len(s)
<1>1. Len(s) \in Nat /\ s \in [1 .. Len(s) -> S]
  BY LenProperties
<1>2. s = [i \in 1 .. Len(s) |-> s[i]] /\ DOMAIN s = 1 .. Len(s)
  BY <1>1
<1>3. \A i \in 1 .. Len(s) : s[i] \in ToSet(s)
  BY <1>2 DEF ToSet
<1>4. [i \in 1 .. Len(s) |-> s[i]] \in Seq(ToSet(s))
  BY <1>1, <1>3, IsASeq
<1> QED
  BY <1>1, <1>2, <1>4 DEF IsSequence

LEMMA Lengths ==
  ASSUME NEW s, IsSequence(s)
  PROVE  /\ Len(s) \in Nat /\ DOMAIN s = 1 .. Len(s)
         /\ s # << >> => Len(s) \in Nat \ {0}
  BY LenProperties, EmptySeq DEF IsSequence

LEMMA Appended ==
  ASSUME NEW s, IsSequence(s), NEW x
  PROVE  /\ IsSequence(Append(s, x)) /\ Len(Append(s, x)) = Len(s) + 1
         /\ Append(s, x) # << >>
         /\ Append(s, x)[Len(s) + 1] = x
         /\ \A k \in 1 .. Len(s) : Append(s, x)[k] = s[k]
<1> DEFINE S == ToSet(s) \union {x}
<1>1. s \in Seq(S) /\ x \in S
  BY SeqMonotonic DEF IsSequence
<1> HIDE DEF S
<1>2. /\ Append(s, x) \in Seq(S) /\ Len(Append(s, x)) = Len(s) + 1 /\ Len(s) \in Nat
      /\ Append(s, x)[Len(s) + 1] = x
      /\ \A k \in 1 .. Len(s) : Append(s, x)[k] = s[k]
  BY <1>1
<1>3. Append(s, x) # << >>
  BY <1>2, EmptySeq
<1> QED
  BY <1>2, <1>3, SequenceOf

\* The first n elements.
LEMMA FirstOnes ==
  ASSUME NEW s, IsSequence(s), NEW n \in 0 .. Len(s)
  PROVE  /\ IsSequence(SubSeq(s, 1, n)) /\ Len(SubSeq(s, 1, n)) = n
         /\ \A k \in 1 .. n : SubSeq(s, 1, n)[k] = s[k]
<1>1. Len(s) \in Nat
  BY Lengths
<1>2. \A i \in 1 .. n : s[i] \in ToSet(s)
  BY <1>1, ElementOfSeq DEF IsSequence
<1>3. n \in Nat
  BY <1>1
<1>4. /\ SubSeq(s, 1, n) \in Seq(ToSet(s))
      /\ Len(SubSeq(s, 1, n)) = IF 1 <= n THEN n - 1 + 1 ELSE 0
      /\ \A i \in 1 .. n - 1 + 1 : SubSeq(s, 1, n)[i] = s[1 + i - 1]
  BY <1>2, <1>3, SubSeqProperties
<1> DEFINE p == SubSeq(s, 1, n)
<1> HIDE DEF p
<1>5. Len(p) = n
  BY <1>3, <1>4 DEF p
<1>6. ASSUME NEW k \in 1 .. n PROVE p[k] = s[k]
  <2>1. k \in 1 .. n - 1 + 1 /\ 1 + k - 1 = k
    BY <1>3
  <2> QED
    BY <1>4, <2>1, Zenon DEF p
<1>7. IsSequence(p)
  BY <1>4, SequenceOf DEF p
<1> QED
  BY <1>5, <1>6, <1>7 DEF p

\* A set of numbers that is not empty has a least element.
LEMMA LeastExists ==
  ASSUME NEW S, S \subseteq Nat, S # {}
  PROVE  \E m \in S : \A n \in S : m <= n
<1> DEFINE T == {0 .. n : n \in S}
<1>1. T \in SUBSET FiniteSubsetsOf(Nat) /\ T # {}
  <2>1. \A n \in S : 0 .. n \subseteq Nat /\ IsFiniteSet(0 .. n)
    BY FS_Interval
  <2> QED
    BY <2>1 DEF FiniteSubsetsOf
<1>2. IsWellFoundedOn(StrictSubsetOrdering(Nat), FiniteSubsetsOf(Nat))
  BY FS_StrictSubsetOrderingWellFounded
<1> HIDE DEF T
<1>3. PICK I \in T : \A J \in T : ~(<<J, I>> \in StrictSubsetOrdering(Nat))
  BY <1>1, <1>2, WFMin
<1>4. PICK m \in S : I = 0 .. m
  BY <1>3 DEF T
<1>5. ASSUME NEW n \in S, n < m PROVE FALSE
  <2>1. 0 .. n \in T
    BY DEF T
  <2>2. 0 .. n \subseteq 0 .. m /\ m \notin 0 .. n /\ m \in 0 .. m
    BY <1>5
  <2>3. <<0 .. n, 0 .. m>> \in (SUBSET Nat) \X (SUBSET Nat)
    OBVIOUS
  <2>4. <<0 .. n, 0 .. m>> \in StrictSubsetOrdering(Nat)
    BY <2>2, <2>3 DEF StrictSubsetOrdering
  <2> QED
    BY <1>3, <1>4, <2>1, <2>4
<1> QED
  BY <1>5

LEMMA Least ==
  ASSUME NEW S, S \subseteq Nat, S # {}
  PROVE  Min(S) \in S /\ \A y \in S : Min(S) <= y
<1>1. \E m \in S : \A y \in S : m <= y
  BY LeastExists
<1> QED
  BY <1>1 DEF Min

LEMMA Greatest ==
  ASSUME NEW n \in Nat, NEW S, S \subseteq 0 .. n, S # {}
  PROVE  Max(S) \in S /\ \A y \in S : Max(S) >= y
<1> DEFINE T == {n - y : y \in S}
<1>1. \A y \in S : y \in 0 .. n /\ n - y \in Nat
  OBVIOUS
<1>2. T \subseteq Nat /\ T # {}
  BY <1>1
<1> HIDE DEF T
<1>3. PICK m \in T : \A t \in T : m <= t
  BY <1>2, LeastExists
<1>4. PICK x \in S : m = n - x
  BY DEF T
<1>5. ASSUME NEW y \in S PROVE x >= y
  <2>1. m <= n - y
    BY <1>3 DEF T
  <2> QED
    BY <1>1, <1>4, <2>1
<1> QED
  BY <1>5 DEF Max

\* The greatest of some tokens, or None.
LEMMA NoneOrGreatest ==
  ASSUME NEW n \in Nat, NEW S, S \subseteq 1 .. n
  PROVE  Max({None} \union S) \in {None} \union S
<1>1. {None} \union S \subseteq 0 .. n
  BY DEF None
<1> QED
  BY <1>1, Greatest

LEMMA LimitIsNatural ==
  ASSUME Len(tokens) \in Nat
  PROVE  WorkLimit \in Nat /\ WorkLimit >= 1
<1> DEFINE S == {1024, 64 * Len(tokens)}
<1>1. PICK n \in Nat : n = 64 * Len(tokens)
  OBVIOUS
<1>2. PICK m \in Nat : m = n + 1024
  OBVIOUS
<1>3. S = {1024, n} /\ 1024 \in 0 .. m /\ n \in 0 .. m
  BY <1>1, <1>2
<1>4. S \subseteq 0 .. m /\ S # {} /\ 1024 \in S
  BY <1>1, <1>2
<1> HIDE DEF S
<1>5. Max(S) \in S /\ Max(S) >= 1024
  BY <1>4, Greatest
<1>6. Max(S) \in 0 .. m
  BY <1>4, <1>5
<1>7. Max(S) \in Nat /\ Max(S) >= 1
  BY <1>5, <1>6
<1> QED
  BY <1>7 DEF WorkLimit, S
-----------------------------------------------------------------------------
(* What the parser reads off the code stays inside it.                     *)

LEMMA Code ==
  ASSUME IsCode(tokens)
  PROVE  /\ Past \in Nat /\ Past >= 1
         /\ \A i \in 1 .. Past - 1 : Inside(i) /\ (Op(i) \in Jumps => Target(i) \in 1 .. Past - 1)
<1>1. Len(tokens) \in Nat /\ Past - 1 = Len(tokens)
  BY DEF IsCode, Past
<1> QED
  BY <1>1 DEF IsCode, Past, Inside, Op, Target

LEMMA NextToken ==
  ASSUME NEW start \in Nat, NEW end \in Nat
  PROVE  /\ NextSemanticIndex(start, end) \in 0 .. end
         /\ start <= end => NextSemanticIndex(start, end) \in start .. end
<1> DEFINE S == {end} \union {i \in start .. end - 1 : ~Inert(i)}
<1>1. S \subseteq Nat /\ end \in S
  OBVIOUS
<1>2. \A i \in S : i <= end /\ (start <= end => start <= i)
  OBVIOUS
<1> HIDE DEF S
<1>3. Min(S) \in S
  BY <1>1, Least
<1> QED
  BY <1>1, <1>2, <1>3 DEF NextSemanticIndex, S

LEMMA ConditionEnds ==
  ASSUME NEW start \in Nat, NEW end \in Nat, NEW stop
  PROVE  ConditionJump(start, end, stop) \in {None} \union (start .. end - 1)
<1> DEFINE S == {i \in start .. end - 1 : Op(i) \notin {"load", "nop", "resume"}}
<1>1. S \subseteq start .. end - 1 /\ S \subseteq Nat
  OBVIOUS
<1>2. S # {} => Min(S) \in start .. end - 1
  BY <1>1, Least
<1> QED
  BY <1>2 DEF ConditionJump

\* Jumps forward of an interval go to instructions.
LEMMA Forwards ==
  ASSUME IsCode(tokens), NEW start \in Nat \ {0}, NEW end, Inside(end), NEW least
  PROVE  ForwardTargets(start, end, least) \subseteq 1 .. Past - 1
<1>1. \A i \in start .. end - 1 : i \in 1 .. Past - 1
  BY Code DEF Inside
<1>2. \A i \in start .. end - 1 : Forward(i) => Target(i) \in 1 .. Past - 1
  BY <1>1, Code DEF Forward, Jumps
<1> QED
  BY <1>2 DEF ForwardTargets

LEMMA LastJump ==
  ASSUME NEW start \in Nat \ {0}, NEW end \in Nat, NEW minimum, NEW excluded
  PROVE  LastForwardJump(start, end, minimum, excluded)
           \in {None} \union {i \in start .. end - 1 : Forward(i)}
<1> DEFINE S == {i \in start .. end - 1 :
                   Forward(i) /\ Target(i) >= minimum /\ Target(i) # excluded}
<1>1. S \subseteq 1 .. end /\ S \subseteq {i \in start .. end - 1 : Forward(i)}
  OBVIOUS
<1> HIDE DEF S
<1>2. Max({None} \union S) \in {None} \union S
  BY <1>1, NoneOrGreatest
<1> QED
  BY <1>1, <1>2 DEF LastForwardJump, S

LEMMA Trailing ==
  ASSUME NEW n \in Nat, NEW candidates, candidates \subseteq 1 .. n, NEW start, NEW end
  PROVE  TrailingLoopBackJump(candidates, start, end) \in {None} \union candidates
<1> DEFINE reachable == NormalRegionBlocks(start, end)
           trails(c) == IF cfg.block[c] \in reachable
                   THEN \A b \in reachable : b > c => \A i \in b .. cfg.end[b] - 1 : ~Works(i)
                   ELSE \A i \in c + 1 .. end - 1 : ~Works(i)
           S == {c \in candidates : reachable # {} /\ trails(c)}
<1>1. S \subseteq candidates
  OBVIOUS
<1>2. TrailingLoopBackJump(candidates, start, end) = Max({None} \union S)
  BY Zenon DEF TrailingLoopBackJump
<1> HIDE DEF S
<1>3. Max({None} \union S) \in {None} \union S
  BY <1>1, NoneOrGreatest
<1> QED
  BY <1>1, <1>2, <1>3

LEMMA LatchStart ==
  ASSUME NEW start \in Nat \ {0}, NEW jump \in Nat, start <= jump
  PROVE  LatchExpressionStart(start, jump) \in start .. jump
<1> DEFINE header == LineBefore(start)
           back   == {i \in start .. jump - 1 :
                        /\ Starts(i) # 0 /\ Starts(i) <= header
                        /\ \E k \in start .. i - 1 : Starts(k) > header}
           ended  == {i \in start .. jump - 1 :
                        \/ Op(i) \in {"simple", "return", "iter", "for", "store", "pop"}
                        \/ Op(i) = "jump" /\ (Target(i) <= start \/ Target(i) > jump)}
           from   == Max({start - 1} \union ended) + 1
           slices == {i \in from .. jump - 1 : Predicates(i, jump) # {}}
           marked == {i \in start .. jump - 1 : Starts(i) # 0}
           line   == Max({None} \union marked)
<1>1. LatchExpressionStart(start, jump) =
        IF header # 0 /\ back # {} THEN Min(back)
        ELSE IF ended # {} /\ from < jump THEN from
        ELSE IF slices # {} THEN Min(slices)
        ELSE IF line # None /\ \E i \in line .. jump - 1 : IsTest(i) THEN line
        ELSE jump
  BY Zenon DEF LatchExpressionStart
<1>2. back \subseteq start .. jump - 1 /\ ended \subseteq start .. jump - 1
      /\ marked \subseteq start .. jump - 1
  OBVIOUS
<1> HIDE DEF header, back, ended, marked
<1>3. back # {} => Min(back) \in start .. jump
  <2>1. back \subseteq Nat /\ \A i \in back : i \in start .. jump
    BY <1>2
  <2> QED
    BY <2>1, Least
<1>4. from \in Nat /\ start <= from
  <2> DEFINE S == {start - 1} \union ended
  <2>1. S \subseteq 0 .. jump /\ start - 1 \in S
    BY <1>2
  <2> HIDE DEF S
  <2>2. Max(S) \in S /\ Max(S) >= start - 1
    BY <2>1, Greatest
  <2>3. PICK m \in S : m = Max(S)
    BY <2>2
  <2>4. m \in 0 .. jump /\ m >= start - 1
    BY <2>1, <2>2, <2>3
  <2> QED
    BY <2>3, <2>4 DEF S
<1> HIDE DEF from
<1>5. slices # {} => Min(slices) \in start .. jump
  <2>1. slices \subseteq Nat /\ slices \subseteq start .. jump
    BY <1>4
  <2> HIDE DEF slices
  <2> QED
    BY <2>1, Least
<1> HIDE DEF slices
<1>6. line # None => line \in start .. jump
  <2>1. marked \subseteq 1 .. jump /\ marked \subseteq start .. jump
    BY <1>2
  <2>2. line \in {None} \union marked
    BY <2>1, NoneOrGreatest
  <2> QED
    BY <2>1, <2>2
<1> HIDE DEF line
<1> QED
  BY <1>1, <1>3, <1>4, <1>5, <1>6
-----------------------------------------------------------------------------
(* The statements that wait for suites.                                    *)

\* As a handler recognizes it, before any of its suites is captured.
Started(t, loop) == IsTodo(t, loop) /\ t.bodies = << >>

LEMMA OneSuite ==
  ASSUME NEW op, NEW test, NEW r, NEW next, NEW tail, NEW starts, NEW loop,
         Inside(next), Inside(r.start), Inside(r.end),
         op # "if" => r.loop.break = next, op = "if" => r.loop = loop
  PROVE  /\ Started(Awaits(op, test, <<r>>, next, tail, starts), loop)
         /\ Awaits(op, test, <<r>>, next, tail, starts).starts = starts
<1> DEFINE t == Awaits(op, test, <<r>>, next, tail, starts)
<1>1. t.op = op /\ t.regions = <<r>> /\ t.next = next /\ t.starts = starts /\ t.bodies = << >>
  BY DEF Awaits
<1>2. t = [op |-> t.op, test |-> t.test, regions |-> t.regions, next |-> t.next,
           tail |-> t.tail, starts |-> t.starts, bodies |-> t.bodies]
  BY DEF Awaits
<1> HIDE DEF t
<1>3. IsSequence(<<r>>) /\ Len(<<r>>) = 1 /\ <<r>>[1] = r
  <2>1. <<r>> \in Seq({r})
    OBVIOUS
  <2> QED
    BY <2>1, SequenceOf
<1>4. IsSequence(<< >>) /\ Len(<< >>) = 0
  BY EmptySeq, SequenceOf
<1>5. \A i \in 1 .. 1 : i = 1
  OBVIOUS
<1>6. Started(t, loop)
  BY <1>1, <1>2, <1>3, <1>4, <1>5 DEF Started, IsTodo
<1> QED
  BY <1>1, <1>6 DEF t

LEMMA TwoSuites ==
  ASSUME NEW op, NEW test, NEW r, NEW q, NEW next, NEW tail, NEW starts, NEW loop,
         Inside(next), Inside(r.start), Inside(r.end), Inside(q.start), Inside(q.end),
         op # "if" => r.loop.break = next, op = "if" => r.loop = loop, q.loop = loop
  PROVE  /\ Started(Awaits(op, test, <<r, q>>, next, tail, starts), loop)
         /\ Awaits(op, test, <<r, q>>, next, tail, starts).starts = starts
<1> DEFINE t == Awaits(op, test, <<r, q>>, next, tail, starts)
<1>1. t.op = op /\ t.regions = <<r, q>> /\ t.next = next /\ t.starts = starts /\ t.bodies = << >>
  BY DEF Awaits
<1>2. t = [op |-> t.op, test |-> t.test, regions |-> t.regions, next |-> t.next,
           tail |-> t.tail, starts |-> t.starts, bodies |-> t.bodies]
  BY DEF Awaits
<1> HIDE DEF t
<1>3. IsSequence(<<r, q>>) /\ Len(<<r, q>>) = 2 /\ <<r, q>>[1] = r /\ <<r, q>>[2] = q
  <2>1. <<r, q>> \in Seq({r, q})
    OBVIOUS
  <2> QED
    BY <2>1, SequenceOf
<1>4. IsSequence(<< >>) /\ Len(<< >>) = 0
  BY EmptySeq, SequenceOf
<1>5. \A i \in 1 .. 2 : i = 1 \/ i = 2
  OBVIOUS
<1>6. Started(t, loop)
  BY <1>1, <1>2, <1>3, <1>4, <1>5 DEF Started, IsTodo
<1> QED
  BY <1>1, <1>6 DEF t

LEMMA LoopToStarted ==
  ASSUME NEW start, Inside(start), NEW bodyEnd, Inside(bodyEnd), NEW headers, NEW latch,
         NEW breaks, breaks \subseteq 1 .. Past - 1, NEW next, \A e \in next : Inside(e),
         NEW tail, Past \in Nat, NEW loop,
         NEW t \in LoopTo(start, bodyEnd, headers, latch, breaks, next, tail)
  PROVE  Started(t, loop) /\ t.starts = headers \ suppressed
<1>1. PICK e \in IF breaks = {} THEN next ELSE {Max(breaks)} :
        t = Awaits("while", Constant(TRUE),
                   <<Region(start, bodyEnd, [break |-> e, continue |-> headers \union ({latch} \ {None})])>>,
                   e, tail, headers \ suppressed)
  BY DEF LoopTo
<1>2. Inside(e)
  <2>1. CASE breaks = {}
    BY <1>1, <2>1
  <2>2. CASE breaks # {}
    <3>1. breaks \subseteq 0 .. Past
      OBVIOUS
    <3>2. Max(breaks) \in breaks
      BY <2>2, <3>1, Greatest
    <3>3. e = Max(breaks)
      BY <1>1, <2>2
    <3>4. e \in 1 .. Past - 1
      BY <3>2, <3>3
    <3> QED
      BY <3>4 DEF Inside
  <2> QED
    BY <2>1, <2>2
<1> DEFINE r == Region(start, bodyEnd, [break |-> e, continue |-> headers \union ({latch} \ {None})])
<1>3. r.start = start /\ r.end = bodyEnd /\ r.loop.break = e
  BY DEF Region
<1> HIDE DEF r
<1>4. PICK op, test, starts : op = "while" /\ test = Constant(TRUE) /\ starts = headers \ suppressed
  OBVIOUS
<1>5. t = Awaits(op, test, <<r>>, e, tail, starts)
  BY <1>1, <1>4 DEF r
<1>6. Inside(r.start) /\ Inside(r.end)
  BY <1>3
<1>7. (op # "if" => r.loop.break = e) /\ (op = "if" => r.loop = loop)
  BY <1>3, <1>4
<1>8. Started(t, loop) /\ t.starts = starts
  BY <1>2, <1>5, <1>6, <1>7, OneSuite
<1> QED
  BY <1>4, <1>8

LEMMA WhileTrueStarted ==
  ASSUME IsCode(tokens), NEW start, Inside(start), NEW end, Inside(end), start < end,
         NEW loop, NEW t \in WhileTrueLoop(start, end)
  PROVE  Started(t, loop) /\ t.starts \intersect suppressed = {}
<1> DEFINE headers == HeaderOffsets(start, end)
           latches == Latches(start, end, headers)
           latch   == LoopLatch(start, end, latches)
           markers == BreakMarkers(start, Max(latches), end)
<1>1. Past \in Nat /\ start \in Nat \ {0} /\ end \in Nat
  BY Code DEF Inside
<1>2. latches # {} /\ t \in LoopOf(start, end, headers, latch, markers)
  BY Zenon DEF WhileTrueLoop, LoopWith
<1>3. latches \subseteq start + 1 .. end - 1 /\ latches \subseteq 0 .. Past /\ latches \subseteq 1 .. Past
  BY <1>1 DEF Latches, Inside
<1>4. Max(latches) \in start + 1 .. end - 1
  BY <1>1, <1>2, <1>3, Greatest
<1>5. latch \in {None} \union latches
  <2> DEFINE follows == {Target(i) : i \in {i \in start .. Max(latches) - 1 :
                                              Forward(i) /\ Target(i) > Max(latches)}}
  <2>1. latch = TrailingLoopBackJump(latches, start, IF follows = {} THEN end ELSE Max(follows))
    BY DEF LoopLatch
  <2> QED
    BY <1>1, <1>3, <2>1, Trailing
<1>6. markers \subseteq start + 1 .. end - 1 /\ markers \subseteq Nat
  BY <1>1, <1>4 DEF BreakMarkers
<1> HIDE DEF headers, latches, latch, markers
<1>7. CASE latch # None
  <2>1. t \in LoopTo(start, latch, headers, latch, ForwardPast(start, latch),
                     IF latch + 1 = end THEN {end} ELSE {}, "never")
    BY <1>2, <1>7 DEF LoopOf
  <2>2. Inside(latch)
    BY <1>3, <1>5, <1>7 DEF Inside
  <2>3. ForwardPast(start, latch) \subseteq 1 .. Past - 1
    BY <1>1, <2>2, Forwards DEF ForwardPast
  <2>4. \A e \in IF latch + 1 = end THEN {end} ELSE {} : Inside(e)
    OBVIOUS
  <2>5. Started(t, loop) /\ t.starts = headers \ suppressed
    BY <1>1, <2>1, <2>2, <2>3, <2>4, LoopToStarted
  <2> QED
    BY <2>5
<1>8. CASE latch = None /\ markers # {}
  <2>1. PICK m \in markers : m = Min(markers)
    BY <1>6, <1>8, Least
  <2>2. t \in LoopTo(start, m, headers, None, ForwardPast(start, m),
                     {NextSemanticIndex(m + 1, end)}, "always")
    BY <1>2, <1>8, <2>1 DEF LoopOf
  <2>3. Inside(m) /\ m + 1 \in Nat /\ m + 1 <= end
    BY <1>1, <1>6 DEF Inside
  <2>4. ForwardPast(start, m) \subseteq 1 .. Past - 1
    BY <1>1, <2>3, Forwards DEF ForwardPast
  <2>5. NextSemanticIndex(m + 1, end) \in m + 1 .. end
    BY <1>1, <2>3, NextToken
  <2>6. \A e \in {NextSemanticIndex(m + 1, end)} : Inside(e)
    BY <1>1, <2>3, <2>5 DEF Inside
  <2>7. Started(t, loop) /\ t.starts = headers \ suppressed
    BY <1>1, <2>2, <2>3, <2>4, <2>6, LoopToStarted
  <2> QED
    BY <2>7
<1>9. CASE latch = None /\ markers = {}
  <2>1. t \in LoopTo(start, end, headers, None, {}, {end}, "never")
    BY <1>2, <1>9 DEF LoopOf
  <2>2. {} \subseteq 1 .. Past - 1 /\ \A e \in {end} : Inside(e)
    OBVIOUS
  <2>3. Started(t, loop) /\ t.starts = headers \ suppressed
    BY <1>1, <2>1, <2>2, LoopToStarted
  <2> QED
    BY <2>3
<1> QED
  BY <1>7, <1>8, <1>9

\* The greatest of some instructions, and of a place in the code.
LEMMA Furthest ==
  ASSUME Past \in Nat, NEW i, Inside(i), NEW S, S \subseteq 1 .. Past - 1
  PROVE  Inside(Max({i} \union S))
<1>1. {i} \union S \subseteq 0 .. Past
  BY DEF Inside
<1>2. Max({i} \union S) \in {i} \union S
  BY <1>1, Greatest
<1>3. \A k \in {i} \union S : k \in 1 .. Past
  BY DEF Inside
<1> QED
  BY <1>2, <1>3 DEF Inside

LEMMA ForStarted ==
  ASSUME IsCode(tokens), NEW index, NEW header \in 1 .. Past - 1, Op(header) = "for",
         NEW iterable, NEW t \in ForLoop(index, header, iterable)
  PROVE  Started(t, Loop) /\ t.starts = {}
<1> DEFINE store   == NextSemanticIndex(header + 1, Past)
           orelse  == Target(header)
           latches == {i \in store + 1 .. orelse - 1 :
                         Op(i) = "jump" /\ ~Forward(i) /\ SemanticTarget(i) = header}
           latch   == TrailingLoopBackJump(latches, store + 1, orelse)
           cleanup == IF latch = None THEN BreakCleanup(store + 1, orelse) ELSE None
           bodyEnd == IF latch = None /\ cleanup = None THEN orelse ELSE Max({latch, cleanup})
           breaks  == ForwardTargets(store + 1, bodyEnd, orelse)
           end     == Max({orelse} \union breaks)
           r       == Region(store + 1, bodyEnd,
                        [break |-> end, continue |-> {header, index + 1} \union ({latch} \ {None})])
           q       == Region(orelse, end, Loop)
           target  == [target |-> tokens[store].name, iter |-> iterable]
           tail    == IF cleanup = None THEN "never" ELSE "always"
<1>1. /\ ForEnds(store, orelse, latch, cleanup, breaks)
      /\ t = Awaits("for", target, IF end > orelse THEN <<r, q>> ELSE <<r>>, end, tail, {})
  BY Zenon DEF ForLoop, ForLoopTo
<1>2. Past \in Nat /\ header + 1 \in Nat /\ header + 1 <= Past
      /\ orelse \in 1 .. Past - 1 /\ Inside(orelse)
  <2>1. Past \in Nat /\ Target(header) \in 1 .. Past - 1
    BY Code DEF Jumps
  <2> QED
    BY <2>1 DEF Inside
<1>3. store \in 1 .. Past - 1
  <2>1. store \in header + 1 .. Past
    BY <1>2, NextToken
  <2>2. store < Past
    BY <1>1 DEF ForEnds
  <2> QED
    BY <1>2, <2>1, <2>2
<1> HIDE DEF store, orelse
<1>4. latch \in {None} \union (store + 1 .. orelse - 1)
  <2>1. latches \subseteq 1 .. Past /\ latches \subseteq store + 1 .. orelse - 1
    BY <1>2, <1>3
  <2> HIDE DEF latches
  <2>2. latch \in {None} \union latches
    BY <1>2, <2>1, Trailing
  <2> QED
    BY <2>1, <2>2
<1> HIDE DEF latch
<1>5. cleanup \in {None} \union (store + 1 .. orelse - 1)
  <2>1. BreakCleanup(store + 1, orelse) \in {None} \union (store + 1 .. orelse - 1)
    <3> DEFINE S == {i \in store + 1 .. orelse - 1 : ~Inert(i)}
    <3>1. S \subseteq 1 .. Past /\ S \subseteq store + 1 .. orelse - 1
      BY <1>2, <1>3
    <3>2. BreakCleanup(store + 1, orelse) \in {None, Max({None} \union S)}
      BY DEF BreakCleanup
    <3> HIDE DEF S
    <3>3. Max({None} \union S) \in {None} \union S
      BY <1>2, <3>1, NoneOrGreatest
    <3> QED
      BY <3>1, <3>2, <3>3
  <2> QED
    BY <2>1
<1> HIDE DEF cleanup
<1>6. Inside(bodyEnd)
  <2>1. CASE latch = None /\ cleanup = None
    BY <1>2, <2>1
  <2>2. CASE ~(latch = None /\ cleanup = None)
    <3>1. {latch, cleanup} \subseteq 0 .. Past
      BY <1>2, <1>3, <1>4, <1>5 DEF None
    <3>2. /\ Max({latch, cleanup}) \in {latch, cleanup}
          /\ Max({latch, cleanup}) >= latch /\ Max({latch, cleanup}) >= cleanup
      BY <1>2, <3>1, Greatest
    <3>3. PICK m \in {latch, cleanup} : m = Max({latch, cleanup}) /\ m >= latch /\ m >= cleanup
      BY <3>2
    <3>4. m # None
      BY <1>2, <1>3, <1>4, <1>5, <2>2, <3>3 DEF None
    <3>5. m \in 1 .. Past
      BY <1>2, <1>3, <1>4, <1>5, <3>4
    <3> QED
      BY <2>2, <3>3, <3>5 DEF Inside
  <2> QED
    BY <2>1, <2>2
<1> HIDE DEF bodyEnd
<1>7. breaks \subseteq 1 .. Past - 1
  <2>1. store + 1 \in Nat \ {0}
    BY <1>3
  <2> QED
    BY <1>6, <2>1, Forwards
<1> HIDE DEF breaks
<1>8. Inside(end)
  BY <1>2, <1>7, Furthest
<1>9. r.start = store + 1 /\ r.end = bodyEnd /\ r.loop.break = end
      /\ q.start = orelse /\ q.end = end /\ q.loop = Loop
  BY DEF Region
<1> HIDE DEF end, r, q, target, tail
<1>10. Inside(store + 1)
  BY <1>2, <1>3 DEF Inside
<1>11. PICK op : op = "for"
  OBVIOUS
<1>12. CASE end > orelse
  <2>1. t = Awaits(op, target, <<r, q>>, end, tail, {})
    BY <1>1, <1>11, <1>12
  <2> QED
    BY <1>2, <1>6, <1>8, <1>9, <1>10, <1>11, <2>1, TwoSuites
<1>13. CASE ~(end > orelse)
  <2>1. t = Awaits(op, target, <<r>>, end, tail, {})
    BY <1>1, <1>11, <1>13
  <2> QED
    BY <1>2, <1>6, <1>8, <1>9, <1>10, <1>11, <2>1, OneSuite
<1> QED
  BY <1>12, <1>13

LEMMA WhileStarted ==
  ASSUME IsCode(tokens), NEW plan, Inside(plan.true), Inside(plan.false), Inside(End)
  PROVE  Started(WhileLoop(plan), Loop) /\ WhileLoop(plan).starts = {}
<1> DEFINE latch   == TrailingLoopBackJump(BackJumps(plan), plan.true, plan.false)
           bodyEnd == LoopBody(plan, latch)
           loopEnd == Max({plan.false} \union Breaks(plan, bodyEnd))
           tail    == LoopTail(plan, latch)
           r       == Region(plan.true, bodyEnd,
                       [break |-> loopEnd, continue |-> {plan.entry, plan.true, bodyEnd}])
           q       == Region(plan.false, loopEnd, Loop)
<1>1. WhileLoop(plan) = Awaits("while", plan.expression,
                               IF loopEnd > plan.false THEN <<r, q>> ELSE <<r>>, loopEnd, tail, {})
  BY Zenon DEF WhileLoop, AwaitLoop
<1>2. Past \in Nat /\ plan.true \in 1 .. Past /\ plan.false \in 1 .. Past /\ End \in 1 .. Past
  BY Code DEF Inside
<1>3. latch \in {None} \union (plan.true .. Past)
  <2>1. {plan.false, End} \subseteq Nat
    BY <1>2
  <2>2. Min({plan.false, End}) \in {plan.false, End}
    BY <2>1, Least
  <2>3. BackJumps(plan) \subseteq 1 .. Past /\ BackJumps(plan) \subseteq plan.true .. Past
    BY <1>2, <2>2 DEF BackJumps
  <2>4. latch \in {None} \union BackJumps(plan)
    BY <1>2, <2>3, Trailing
  <2> QED
    BY <2>3, <2>4
<1> HIDE DEF latch
<1>4. Inside(bodyEnd)
  <2>1. CASE latch = None
    BY <2>1 DEF LoopBody
  <2>2. CASE latch # None
    <3>1. latch \in plan.true .. Past
      BY <1>3, <2>2
    <3>2. LatchExpressionStart(plan.true, latch) \in plan.true .. latch
      BY <1>2, <3>1, LatchStart
    <3>3. Inside(latch) /\ Inside(LatchExpressionStart(plan.true, latch))
      BY <1>2, <3>1, <3>2 DEF Inside
    <3> QED
      BY <2>2, <3>3 DEF LoopBody
  <2> QED
    BY <2>1, <2>2
<1> HIDE DEF bodyEnd
<1>5. Inside(loopEnd)
  <2>1. Breaks(plan, bodyEnd) \subseteq 1 .. Past - 1
    BY <1>2, <1>4, Forwards DEF Breaks
  <2> QED
    BY <1>2, <2>1, Furthest
<1>6. r.start = plan.true /\ r.end = bodyEnd /\ r.loop.break = loopEnd
      /\ q.start = plan.false /\ q.end = loopEnd /\ q.loop = Loop
  BY DEF Region
<1> HIDE DEF loopEnd, r, q, tail
<1>7. PICK op : op = "while"
  OBVIOUS
<1>8. CASE loopEnd > plan.false
  <2>1. WhileLoop(plan) = Awaits(op, plan.expression, <<r, q>>, loopEnd, tail, {})
    BY <1>1, <1>7, <1>8
  <2> QED
    BY <1>4, <1>5, <1>6, <1>7, <2>1, TwoSuites
<1>9. CASE ~(loopEnd > plan.false)
  <2>1. WhileLoop(plan) = Awaits(op, plan.expression, <<r>>, loopEnd, tail, {})
    BY <1>1, <1>7, <1>9
  <2> QED
    BY <1>4, <1>5, <1>6, <1>7, <2>1, OneSuite
<1> QED
  BY <1>8, <1>9

LEMMA IfStarted ==
  ASSUME IsCode(tokens), NEW plan, Inside(plan.true), Inside(plan.false)
  PROVE  Started(IfStatement(plan), Loop) /\ IfStatement(plan).starts = {}
<1>1. PICK op, tail : op = "if" /\ tail = "never"
  OBVIOUS
<1>2. Past \in Nat /\ plan.true \in 1 .. Past /\ plan.false \in 1 .. Past
  BY Code DEF Inside
<1>3. CASE plan.true > plan.false
  <2> DEFINE r == Region(plan.false, plan.true, Loop)
  <2>1. IfStatement(plan) = Awaits(op, Negate(plan.expression), <<r>>, plan.true, tail, {})
    BY <1>1, <1>3 DEF IfStatement
  <2>2. r.start = plan.false /\ r.end = plan.true /\ r.loop = Loop
    BY DEF Region
  <2> HIDE DEF r
  <2> QED
    BY <1>1, <2>1, <2>2, OneSuite
<1>4. CASE ~(plan.true > plan.false)
  <2> DEFINE jump == JumpOver(plan)
  <2>1. jump \in {None} \union {i \in plan.true .. plan.false - 1 : Forward(i)}
    BY <1>2, LastJump DEF JumpOver
  <2>2. CASE jump = None
    <3> DEFINE r == Region(plan.true, plan.false, Loop)
    <3>1. IfStatement(plan) = Awaits(op, plan.expression, <<r>>, plan.false, tail, {})
      BY <1>1, <1>4, <2>2 DEF IfStatement, AfterSuites
    <3>2. r.start = plan.true /\ r.end = plan.false /\ r.loop = Loop
      BY DEF Region
    <3> HIDE DEF r
    <3> QED
      BY <1>1, <3>1, <3>2, OneSuite
  <2>3. CASE jump # None
    <3> DEFINE r == Region(plan.true, jump, Loop)
               q == Region(plan.false, Target(jump), Loop)
    <3>1. IfStatement(plan) = Awaits(op, plan.expression, <<r, q>>, Target(jump), tail, {})
      BY <1>1, <1>4, <2>3 DEF IfStatement, AfterSuites
    <3>2. r.start = plan.true /\ r.end = jump /\ r.loop = Loop
          /\ q.start = plan.false /\ q.end = Target(jump) /\ q.loop = Loop
      BY DEF Region
    <3> HIDE DEF r, q
    <3>3. jump \in 1 .. Past - 1 /\ Op(jump) = "jump"
      BY <1>2, <2>1, <2>3 DEF Forward
    <3>4. Inside(jump) /\ Inside(Target(jump))
      BY <1>2, <3>3, Code DEF Inside, Jumps
    <3> QED
      BY <1>1, <3>1, <3>2, <3>4, TwoSuites
  <2> QED
    BY <2>2, <2>3
<1> QED
  BY <1>3, <1>4

\* A test for nothing is followed by something.
LEMMA DegenerateGoesOn ==
  ASSUME IsCode(tokens), Inside(Index), Inside(End), NEW d \in Degenerate
  PROVE  d.next \in Nat /\ Index < d.next /\ d.next < End
<1> DEFINE jump == ConditionJump(Index, End, {})
<1>1. /\ d.next = NextSemanticIndex(jump + 1, End)
      /\ jump # None /\ NextSemanticIndex(jump + 1, End) < End
  BY DEF Degenerate
<1>2. Index \in Nat \ {0} /\ End \in Nat
  BY Code DEF Inside
<1>3. jump \in Index .. End - 1
  BY <1>1, <1>2, ConditionEnds
<1> HIDE DEF jump
<1>4. jump + 1 \in Nat /\ jump + 1 <= End
  BY <1>2, <1>3
<1>5. NextSemanticIndex(jump + 1, End) \in jump + 1 .. End
  BY <1>2, <1>4, NextToken
<1> QED
  BY <1>1, <1>2, <1>3, <1>5
-----------------------------------------------------------------------------
(* The calls: another state of the innermost, one more, one less.          *)

LEMMA Innermost ==
  ASSUME NEW s, FramesOK(s)
  PROVE  /\ Len(s) \in Nat \ {0} /\ Last(s) = s[Len(s)] /\ IsFrame(Last(s))
         /\ IsSequence(Front(s)) /\ Len(Front(s)) = Len(s) - 1
         /\ \A k \in 1 .. Len(s) - 1 : Front(s)[k] = s[k]
<1>1. Len(s) \in Nat \ {0}
  BY Lengths DEF FramesOK
<1>2. Last(s) = s[Len(s)] /\ IsFrame(Last(s))
  BY <1>1 DEF Last, FramesOK
<1>3. Len(s) - 1 \in 0 .. Len(s) /\ IsSequence(s)
  BY <1>1 DEF FramesOK
<1>4. /\ IsSequence(SubSeq(s, 1, Len(s) - 1)) /\ Len(SubSeq(s, 1, Len(s) - 1)) = Len(s) - 1
      /\ \A k \in 1 .. Len(s) - 1 : SubSeq(s, 1, Len(s) - 1)[k] = s[k]
  BY <1>3, FirstOnes
<1> QED
  BY <1>1, <1>2, <1>4 DEF Front

\* The calls below the innermost hold what it does not.
LEMMA HeldBelow ==
  ASSUME NEW s, FramesOK(s)
  PROVE  AllHeld(s) \ Held(Last(s)) = UNION {Held(s[k]) : k \in 1 .. Len(s) - 1}
<1> DEFINE n == Len(s)
<1>1. n \in Nat \ {0} /\ Last(s) = s[n]
  BY Innermost
<1>2. \A k \in 1 .. n - 1 : Held(s[k]) \intersect Held(s[n]) = {}
  BY <1>1 DEF FramesOK
<1>3. \A k \in 1 .. n : k = n \/ k \in 1 .. n - 1
  BY <1>1
<1>4. \A k \in 1 .. n - 1 : k \in 1 .. n
  BY <1>1
<1> HIDE DEF n
<1>5. AllHeld(s) = UNION {Held(s[k]) : k \in 1 .. n}
  BY DEF AllHeld, n
<1> QED
  BY <1>1, <1>2, <1>3, <1>4, <1>5, Zenon DEF n

LEMMA Replaced ==
  ASSUME NEW s, FramesOK(s), NEW f, IsFrame(f), f.region = Last(s).region,
         Held(f) \intersect (AllHeld(s) \ Held(Last(s))) = {}
  PROVE  /\ FramesOK(Append(Front(s), f))
         /\ Len(Append(Front(s), f)) = Len(s) /\ Last(Append(Front(s), f)) = f
         /\ RegionsOf(Append(Front(s), f)) = RegionsOf(s)
         /\ AllHeld(Append(Front(s), f)) = (AllHeld(s) \ Held(Last(s))) \union Held(f)
<1> DEFINE n == Len(s)
           u == Append(Front(s), f)
<1>1. n \in Nat \ {0} /\ Last(s) = s[n] /\ IsSequence(Front(s)) /\ Len(Front(s)) = n - 1
      /\ \A k \in 1 .. n - 1 : Front(s)[k] = s[k]
  BY Innermost
<1>2. /\ IsSequence(u) /\ Len(u) = Len(Front(s)) + 1 /\ u # << >> /\ u[Len(Front(s)) + 1] = f
      /\ \A k \in 1 .. Len(Front(s)) : u[k] = Front(s)[k]
  BY <1>1, Appended
<1>3. Len(u) = n /\ u[n] = f /\ \A k \in 1 .. n - 1 : u[k] = s[k]
  BY <1>1, <1>2
<1> HIDE DEF n, u
<1>4. \A k \in 1 .. n : k = n \/ k \in 1 .. n - 1
  BY <1>1
<1>5. \A k \in 1 .. n : u[k].region = s[k].region
  BY <1>1, <1>3, <1>4
<1>6. FramesOK(u)
  <2>1. \A k \in 1 .. n : IsFrame(u[k])
    BY <1>1, <1>3, <1>4 DEF FramesOK, n
  <2>2. ASSUME NEW k \in 1 .. n - 1 PROVE Calls(u[k], u[k + 1])
    <3>1. Calls(s[k], s[k + 1]) /\ k + 1 \in 1 .. n
      BY <1>1 DEF FramesOK, n
    <3>2. u[k] = s[k] /\ u[k + 1].region = s[k + 1].region
      BY <1>3, <1>5, <3>1
    <3> QED
      BY <3>1, <3>2 DEF Calls
  <2>3. \A j, k \in 1 .. n : u[j].region = u[k].region => j = k
    BY <1>5 DEF FramesOK, n
  <2>4. ASSUME NEW j \in 1 .. n, NEW k \in 1 .. n, j # k
        PROVE  Held(u[j]) \intersect Held(u[k]) = {}
    <3>1. \A i \in 1 .. n - 1 : Held(s[i]) \subseteq AllHeld(s) \ Held(Last(s))
      BY HeldBelow DEF n
    <3>2. \A i \in 1 .. n - 1 : Held(u[i]) \intersect Held(f) = {}
      BY <1>3, <3>1
    <3>3. CASE j \in 1 .. n - 1 /\ k \in 1 .. n - 1
      BY <1>3, <2>4, <3>3 DEF FramesOK, n
    <3>4. CASE j = n \/ k = n
      BY <1>3, <1>4, <2>4, <3>2, <3>4
    <3> QED
      BY <1>4, <3>3, <3>4
  <2> QED
    BY <1>2, <1>3, <2>1, <2>2, <2>3, <2>4 DEF FramesOK
<1>7. RegionsOf(u) = RegionsOf(s)
  BY <1>3, <1>5 DEF RegionsOf, n
<1>8. AllHeld(u) = (AllHeld(s) \ Held(Last(s))) \union Held(f)
  <2>1. AllHeld(u) = UNION {Held(u[k]) : k \in 1 .. n}
    BY <1>3 DEF AllHeld
  <2>2. AllHeld(s) \ Held(Last(s)) = UNION {Held(s[k]) : k \in 1 .. n - 1}
    BY HeldBelow DEF n
  <2>3. n \in 1 .. n /\ \A k \in 1 .. n - 1 : k \in 1 .. n
    BY <1>1
  <2>4. Held(u[n]) = Held(f) /\ \A k \in 1 .. n - 1 : Held(u[k]) = Held(s[k])
    BY <1>3
  <2> QED
    BY <1>4, <2>1, <2>2, <2>3, <2>4
<1>9. Last(u) = f
  BY <1>3 DEF Last
<1> QED
  BY <1>3, <1>6, <1>7, <1>8, <1>9 DEF u, n

LEMMA Pushed ==
  ASSUME NEW s, FramesOK(s), NEW f, IsFrame(f), f.todo = << >>, Calls(Last(s), f),
         f.region \notin RegionsOf(s)
  PROVE  /\ FramesOK(Append(s, f)) /\ Len(Append(s, f)) = Len(s) + 1
         /\ RegionsOf(Append(s, f)) = RegionsOf(s) \union {f.region}
         /\ AllHeld(Append(s, f)) = AllHeld(s)
<1> DEFINE n == Len(s)
           u == Append(s, f)
<1>1. n \in Nat \ {0} /\ Last(s) = s[n] /\ IsSequence(s)
  BY Innermost DEF FramesOK
<1>2. /\ IsSequence(u) /\ Len(u) = n + 1 /\ u # << >> /\ u[n + 1] = f
      /\ \A k \in 1 .. n : u[k] = s[k]
  BY <1>1, Appended
<1> HIDE DEF n, u
<1>3. \A k \in 1 .. n + 1 : k = n + 1 \/ k \in 1 .. n
  BY <1>1
<1>4. Held(f) = {}
  BY DEF Held
<1>5. \A k \in 1 .. n : s[k].region # f.region
  BY DEF RegionsOf, n
<1>6. FramesOK(u)
  <2>1. \A k \in 1 .. n + 1 : IsFrame(u[k])
    BY <1>2, <1>3 DEF FramesOK, n
  <2>2. ASSUME NEW k \in 1 .. n PROVE Calls(u[k], u[k + 1])
    <3>1. CASE k = n
      BY <1>1, <1>2, <3>1
    <3>2. CASE k # n
      <4>1. k \in 1 .. n - 1 /\ k + 1 \in 1 .. n
        BY <1>1, <3>2
      <4> QED
        BY <1>2, <4>1 DEF FramesOK, n
    <3> QED
      BY <3>1, <3>2
  <2>3. \A j, k \in 1 .. n + 1 : u[j].region = u[k].region => j = k
    <3>1. \A j, k \in 1 .. n : s[j].region = s[k].region => j = k
      BY DEF FramesOK, n
    <3> QED
      BY <1>2, <1>3, <1>5, <3>1
  <2>4. \A j, k \in 1 .. n + 1 : j # k => Held(u[j]) \intersect Held(u[k]) = {}
    <3>1. \A j, k \in 1 .. n : j # k => Held(s[j]) \intersect Held(s[k]) = {}
      BY DEF FramesOK, n
    <3> QED
      BY <1>2, <1>3, <1>4, <3>1
  <2>5. Len(u) - 1 = n
    BY <1>1, <1>2
  <2> QED
    BY <1>2, <2>1, <2>2, <2>3, <2>4, <2>5 DEF FramesOK
<1>7. n + 1 \in 1 .. n + 1 /\ \A k \in 1 .. n : k \in 1 .. n + 1
  BY <1>1
<1>8. RegionsOf(u) = RegionsOf(s) \union {f.region}
  <2>1. /\ RegionsOf(u) = {u[k].region : k \in 1 .. n + 1}
        /\ RegionsOf(s) = {s[k].region : k \in 1 .. n}
    BY <1>2 DEF RegionsOf, n
  <2>2. u[n + 1].region = f.region /\ \A k \in 1 .. n : u[k].region = s[k].region
    BY <1>2
  <2> QED
    BY <1>3, <1>7, <2>1, <2>2
<1>9. AllHeld(u) = AllHeld(s)
  <2>1. AllHeld(u) = UNION {Held(u[k]) : k \in 1 .. n + 1} /\ AllHeld(s) = UNION {Held(s[k]) : k \in 1 .. n}
    BY <1>2 DEF AllHeld, n
  <2> QED
    BY <1>2, <1>3, <1>4, <1>7, <2>1, Zenon
<1> QED
  BY <1>2, <1>6, <1>8, <1>9 DEF u, n

LEMMA Popped ==
  ASSUME NEW s, FramesOK(s), Len(s) > 1
  PROVE  /\ FramesOK(Front(s)) /\ Len(Front(s)) = Len(s) - 1
         /\ Last(Front(s)) = s[Len(s) - 1] /\ Calls(Last(Front(s)), Last(s))
         /\ RegionsOf(Front(s)) = RegionsOf(s) \ {Last(s).region}
         /\ AllHeld(Front(s)) = AllHeld(s) \ Held(Last(s))
<1> DEFINE n == Len(s)
           u == Front(s)
<1>1. n \in Nat /\ n > 1 /\ Last(s) = s[n] /\ IsSequence(u) /\ Len(u) = n - 1
      /\ \A k \in 1 .. n - 1 : u[k] = s[k]
  BY Innermost
<1> HIDE DEF n, u
<1>2. n - 1 \in 1 .. n - 1 /\ n - 1 + 1 = n /\ n \in 1 .. n
      /\ \A k \in 1 .. n - 1 : k \in 1 .. n /\ k # n
  BY <1>1
<1>3. \A k \in 1 .. n : k = n \/ k \in 1 .. n - 1
  BY <1>1
<1>4. Last(u) = s[n - 1]
  BY <1>1, <1>2 DEF Last
<1>5. Calls(s[n - 1], s[n])
  BY <1>2 DEF FramesOK, n
<1>6. FramesOK(u)
  <2>1. \A k \in 1 .. n - 1 : IsFrame(u[k])
    BY <1>1, <1>2 DEF FramesOK, n
  <2>2. ASSUME NEW k \in 1 .. n - 1 - 1 PROVE Calls(u[k], u[k + 1])
    <3>1. k \in 1 .. n - 1 /\ k + 1 \in 1 .. n - 1
      BY <1>1
    <3> QED
      BY <1>1, <3>1 DEF FramesOK, n
  <2>3. \A j, k \in 1 .. n - 1 : u[j].region = u[k].region => j = k
    BY <1>1, <1>2 DEF FramesOK, n
  <2>4. \A j, k \in 1 .. n - 1 : j # k => Held(u[j]) \intersect Held(u[k]) = {}
    BY <1>1, <1>2 DEF FramesOK, n
  <2>5. u # << >>
    <3>1. Len(u) # 0
      BY <1>1
    <3> QED
      BY <3>1, EmptySeq
  <2> QED
    BY <1>1, <2>1, <2>2, <2>3, <2>4, <2>5 DEF FramesOK
<1>7. RegionsOf(u) = RegionsOf(s) \ {Last(s).region}
  <2>1. \A k \in 1 .. n - 1 : s[k].region # s[n].region
    BY <1>2 DEF FramesOK, n
  <2>2. /\ RegionsOf(u) = {u[k].region : k \in 1 .. n - 1}
        /\ RegionsOf(s) = {s[k].region : k \in 1 .. n}
    BY <1>1 DEF RegionsOf, n
  <2>3. \A k \in 1 .. n - 1 : u[k].region = s[k].region
    BY <1>1
  <2> QED
    BY <1>1, <1>2, <1>3, <2>1, <2>2, <2>3
<1>8. AllHeld(u) = AllHeld(s) \ Held(Last(s))
  <2>1. AllHeld(u) = UNION {Held(u[k]) : k \in 1 .. n - 1}
    BY <1>1 DEF AllHeld
  <2>2. AllHeld(s) \ Held(Last(s)) = UNION {Held(s[k]) : k \in 1 .. n - 1}
    BY HeldBelow DEF n
  <2> QED
    BY <1>1, <2>1, <2>2
<1> QED
  BY <1>1, <1>4, <1>5, <1>6, <1>7, <1>8 DEF u, n
-----------------------------------------------------------------------------
(* The steps.                                                              *)

Same == UNCHANGED <<tokens, cfg>>

LEMMA SameCode ==
  ASSUME Same, NEW s, FramesOK(s), frames' = s
  PROVE  FramesOK(frames)'
<1>1. Past' = Past
  BY DEF Same, Past
<1>2. ASSUME NEW k \in 1 .. Len(s) PROVE IsFrame(frames[k])'
  <2>1. IsFrame(s[k])
    BY DEF FramesOK
  <2> QED
    BY <1>1, <2>1 DEF IsFrame, IsTodo, IsSequence, Inside
<1>3. ASSUME NEW k \in 1 .. Len(s) - 1 PROVE Calls(frames[k], frames[k + 1])'
  BY DEF FramesOK, Calls
<1>4. ASSUME NEW j \in 1 .. Len(s), NEW k \in 1 .. Len(s), j # k
      PROVE  (Held(frames[j]) \intersect Held(frames[k]) = {})'
  BY <1>4 DEF FramesOK, Held
<1>5. IsSequence(frames)' /\ frames' # << >>
  BY DEF FramesOK, IsSequence
<1> QED
  BY <1>2, <1>3, <1>4, <1>5 DEF FramesOK

LEMMA SameSets ==
  ASSUME NEW s, frames' = s
  PROVE  RegionsOf(frames)' = RegionsOf(s) /\ AllHeld(frames)' = AllHeld(s)
BY DEF RegionsOf, AllHeld, Held

\* Another state of the innermost call, which may hold other loop starts.
LEMMA TopChanges ==
  ASSUME Inv, outcome = "running", Same, NEW f, IsFrame(f), f.region = Top.region,
         Becomes(f), UNCHANGED <<active, work, outcome>>,
         Held(f) \intersect (suppressed \ Held(Top)) = {},
         suppressed' = (suppressed \ Held(Top)) \union Held(f)
  PROVE  Inv' /\ Len(frames)' = Len(frames) /\ Top' = f
<1> DEFINE u == Append(Front(frames), f)
<1>1. /\ FramesOK(u) /\ Len(u) = Len(frames) /\ Last(u) = f
      /\ RegionsOf(u) = RegionsOf(frames)
      /\ AllHeld(u) = (AllHeld(frames) \ Held(Top)) \union Held(f)
  BY Replaced DEF Inv, Top
<1>2. frames' = u
  BY DEF Becomes
<1> HIDE DEF u
<1>3. FramesOK(frames)'
  BY <1>1, <1>2, SameCode
<1>4. RegionsOf(frames)' = RegionsOf(u) /\ AllHeld(frames)' = AllHeld(u)
  BY <1>2, SameSets
<1>5. IsCode(tokens)' /\ WorkLimit' = WorkLimit
  BY DEF Inv, Same, WorkLimit
<1>6. Top' = f
  BY <1>1, <1>2 DEF Top, Last
<1> QED
  BY <1>1, <1>2, <1>3, <1>4, <1>5, <1>6 DEF Inv

\* The innermost call, and what it waits for.
LEMMA TheTop ==
  ASSUME Inv
  PROVE  /\ IsFrame(Top) /\ Inside(Index) /\ Inside(End) /\ Past \in Nat
         /\ Top = [region |-> Top.region, index |-> Top.index, body |-> Top.body,
                   stack |-> Top.stack, todo |-> Top.todo]
         /\ Top.todo # << >> => Top.todo = <<Todo>> /\ IsTodo(Todo, Loop) /\ Held(Top) = Todo.starts
         /\ Top.todo = << >> => Held(Top) = {}
<1>1. IsFrame(Top)
  BY Innermost DEF Inv, Top
<1>2. Past \in Nat
  BY Code DEF Inv
<1>3. ASSUME Top.todo # << >>
      PROVE  Top.todo = <<Todo>> /\ IsTodo(Todo, Loop) /\ Held(Top) = Todo.starts
  <2>1. PICK t : t = Top.todo[1] /\ Top.todo = <<t>> /\ IsTodo(t, Top.region.loop)
    BY <1>1, <1>3 DEF IsFrame
  <2>2. Todo = t
    BY <2>1 DEF Todo
  <2> QED
    BY <1>3, <2>1, <2>2 DEF Held, Loop
<1> QED
  BY <1>1, <1>2, <1>3 DEF IsFrame, Index, End, Held

\* The suites that a statement still waits for.
LEMMA MissingSuites ==
  ASSUME NEW t, NEW loop, IsTodo(t, loop),
         NEW m, m = SubSeq(t.regions, Len(t.bodies) + 1, Len(t.regions))
  PROVE  /\ Len(t.bodies) \in Nat /\ Len(t.regions) \in 1 .. 2
         /\ m = << >> <=> Len(t.bodies) = Len(t.regions)
         /\ m # << >> => Len(t.bodies) < Len(t.regions) /\ Head(m) = t.regions[Len(t.bodies) + 1]
<1>1. PICK b : b = Len(t.bodies)
  OBVIOUS
<1>2. PICK n : n = Len(t.regions)
  OBVIOUS
<1>3. b \in Nat /\ n \in 1 .. 2 /\ b <= n
  BY <1>1, <1>2, Lengths DEF IsTodo
<1>4. \A i \in 1 .. n : t.regions[i] \in ToSet(t.regions)
  BY <1>2, ElementOfSeq DEF IsTodo, IsSequence
<1>5. CASE b = n
  <2>1. m = << >>
    BY <1>1, <1>2, <1>3, <1>5, SubSeqEmpty
  <2> QED
    BY <1>1, <1>2, <1>3, <1>5, <2>1
<1>6. CASE b # n
  <2>1. b + 1 \in Int /\ n \in Int /\ b + 1 <= n /\ \A i \in b + 1 .. n : t.regions[i] \in ToSet(t.regions)
    BY <1>3, <1>4, <1>6
  <2>2. /\ SubSeq(t.regions, b + 1, n) \in Seq(ToSet(t.regions))
        /\ Len(SubSeq(t.regions, b + 1, n)) = n - (b + 1) + 1
        /\ \A i \in 1 .. n - (b + 1) + 1 : SubSeq(t.regions, b + 1, n)[i] = t.regions[b + 1 + i - 1]
    BY <2>1, SubSeqProperties
  <2>3. m = SubSeq(t.regions, b + 1, n)
    BY <1>1, <1>2
  <2>4. 1 \in 1 .. n - (b + 1) + 1 /\ b + 1 + 1 - 1 = b + 1 /\ n - (b + 1) + 1 # 0
    BY <1>3, <1>6
  <2>5. m # << >>
    BY <2>2, <2>3, <2>4, EmptySeq
  <2>6. b + 1 \in 1 .. n /\ n \in b + 1 .. n
    BY <1>3, <1>6
  <2>7. Head(m) = t.regions[b + 1]
    BY <1>2, <2>3, <2>6, HeadTailOfSubSeq DEF IsTodo, IsSequence
  <2>8. b < n
    BY <1>3, <1>6
  <2> QED
    BY <1>1, <1>2, <1>3, <1>6, <2>5, <2>7, <2>8
<1> QED
  BY <1>5, <1>6

\* What ParsingDescends says of a step.
Less == \E k \in DOMAIN LeftToDo : /\ LeftToDo'[k] < LeftToDo[k]
                                   /\ \A j \in 1 .. k - 1 : LeftToDo'[j] = LeftToDo[j]

Phase == IF Top.todo = << >> THEN 1 ELSE IF Missing = << >> THEN 2 ELSE 0
Rest  == IF Index < End THEN End - Index ELSE 0

LEMMA LessLeft ==
  ASSUME \/ (WorkLimit - work)' < WorkLimit - work
         \/ (WorkLimit - work)' = WorkLimit - work /\ Len(frames)' < Len(frames)
         \/ (WorkLimit - work)' = WorkLimit - work /\ Len(frames)' = Len(frames) /\ Phase' < Phase
         \/ /\ (WorkLimit - work)' = WorkLimit - work /\ Len(frames)' = Len(frames)
            /\ Phase' = Phase /\ Rest' < Rest
  PROVE  Less
<1>1. PICK a1, a2, a3, a4 : a1 = WorkLimit - work /\ a2 = Len(frames) /\ a3 = Phase /\ a4 = Rest
  OBVIOUS
<1>2. PICK b1, b2, b3, b4 : b1 = (WorkLimit - work)' /\ b2 = Len(frames)' /\ b3 = Phase' /\ b4 = Rest'
  OBVIOUS
<1>3. LeftToDo = <<a1, a2, a3, a4>>
  BY <1>1 DEF LeftToDo, Phase, Rest
<1>4. LeftToDo' = <<b1, b2, b3, b4>>
  BY <1>2 DEF LeftToDo, Phase, Rest
<1>5. \/ b1 < a1
      \/ b1 = a1 /\ b2 < a2
      \/ b1 = a1 /\ b2 = a2 /\ b3 < a3
      \/ b1 = a1 /\ b2 = a2 /\ b3 = a3 /\ b4 < a4
  BY <1>1, <1>2
<1>6. DOMAIN LeftToDo = 1 .. 4
  BY <1>3
<1>7. CASE b1 < a1
  <2>1. 1 \in 1 .. 4 /\ \A j \in 1 .. 1 - 1 : FALSE
    OBVIOUS
  <2>2. LeftToDo'[1] < LeftToDo[1]
    BY <1>3, <1>4, <1>7
  <2> QED
    BY <1>6, <2>1, <2>2 DEF Less
<1>8. CASE b1 = a1 /\ b2 < a2
  <2>1. 2 \in 1 .. 4 /\ \A j \in 1 .. 2 - 1 : j = 1
    OBVIOUS
  <2>2. LeftToDo'[2] < LeftToDo[2] /\ LeftToDo'[1] = LeftToDo[1]
    BY <1>3, <1>4, <1>8
  <2> QED
    BY <1>6, <2>1, <2>2 DEF Less
<1>9. CASE b1 = a1 /\ b2 = a2 /\ b3 < a3
  <2>1. 3 \in 1 .. 4 /\ \A j \in 1 .. 3 - 1 : j = 1 \/ j = 2
    OBVIOUS
  <2>2. LeftToDo'[3] < LeftToDo[3] /\ LeftToDo'[1] = LeftToDo[1] /\ LeftToDo'[2] = LeftToDo[2]
    BY <1>3, <1>4, <1>9
  <2> QED
    BY <1>6, <2>1, <2>2 DEF Less
<1>10. CASE b1 = a1 /\ b2 = a2 /\ b3 = a3 /\ b4 < a4
  <2>1. 4 \in 1 .. 4 /\ \A j \in 1 .. 4 - 1 : j = 1 \/ j = 2 \/ j = 3
    OBVIOUS
  <2>2. /\ LeftToDo'[4] < LeftToDo[4] /\ LeftToDo'[1] = LeftToDo[1] /\ LeftToDo'[2] = LeftToDo[2]
        /\ LeftToDo'[3] = LeftToDo[3]
    BY <1>3, <1>4, <1>10
  <2> QED
    BY <1>6, <2>1, <2>2 DEF Less
<1> QED
  BY <1>5, <1>7, <1>8, <1>9, <1>10

\* The innermost call at a later token.
LEMMA Advances ==
  ASSUME Inv, AtToken, Same, NEW f, IsFrame(f), f.region = Top.region, f.todo = << >>,
         f.index > Index, Becomes(f), UNCHANGED <<active, work, suppressed, outcome>>
  PROVE  Inv' /\ Less
<1>1. Top.todo = << >> /\ Held(Top) = {} /\ outcome = "running" /\ Index < End
      /\ Index \in Nat /\ End \in Nat
  BY TheTop DEF AtToken, Inside
<1>2. Held(f) = {}
  BY DEF Held
<1>3. Inv' /\ Len(frames)' = Len(frames) /\ Top' = f
  BY <1>1, <1>2, TopChanges
<1>4. f.index \in Nat /\ f.region.end = End
  BY DEF IsFrame, Inside, End
<1>5. Index' = f.index /\ End' = End
  BY <1>3, <1>4 DEF Index, End
<1>6. Rest' < Rest
  BY <1>1, <1>4, <1>5 DEF Rest
<1>7. Phase = 1 /\ Phase' = 1
  BY <1>1, <1>3 DEF Phase
<1>8. (WorkLimit - work)' = WorkLimit - work
  BY DEF Same, WorkLimit
<1> QED
  BY <1>3, <1>6, <1>7, <1>8, LessLeft

LEMMA GoesOn ==
  ASSUME Inv, AtToken, NEW index, index > Index, Inside(index), NEW statements,
         Goes(index, statements)
  PROVE  Inv' /\ Less
<1>1. PICK f : f = [Top EXCEPT !.index = index, !.body = @ \o statements]
  OBVIOUS
<1>2. Becomes(f) /\ UNCHANGED <<active, work, suppressed, outcome>> /\ Same
  BY <1>1 DEF Goes, Unchanged, Same
<1>3. f = [region |-> Top.region, index |-> index, body |-> Top.body \o statements,
           stack |-> Top.stack, todo |-> Top.todo]
  BY <1>1, TheTop
<1>4. f.region = Top.region /\ f.index = index /\ f.todo = << >>
  BY <1>3 DEF AtToken
<1>5. IsFrame(f)
  BY <1>3, <1>4, TheTop DEF IsFrame
<1> QED
  BY <1>2, <1>4, <1>5, Advances

\* The innermost call waits for the suites of a statement.
LEMMA StartsToWait ==
  ASSUME Inv, AtToken, Same, NEW t, Started(t, Loop), NEW stack, NEW f,
         f = [region |-> Top.region, index |-> Top.index, body |-> Top.body,
              stack |-> stack, todo |-> <<t>>],
         Becomes(f), UNCHANGED <<active, work, outcome>>,
         t.starts \intersect suppressed = {}, suppressed' = suppressed \union t.starts
  PROVE  Inv' /\ Less
<1>1. Top.todo = << >> /\ Held(Top) = {} /\ outcome = "running"
  BY TheTop DEF AtToken
<1>2. f.region = Top.region /\ f.todo = <<t>> /\ <<t>> # << >> /\ <<t>>[1] = t
  OBVIOUS
<1>3. IsFrame(f)
  BY <1>2, TheTop DEF IsFrame, Started, Loop
<1>4. Held(f) = t.starts
  BY <1>2 DEF Held
<1>5. Inv' /\ Len(frames)' = Len(frames) /\ Top' = f
  BY <1>1, <1>2, <1>3, <1>4, TopChanges
<1>6. Todo' = t
  BY <1>2, <1>5 DEF Todo
<1>7. Missing' # << >>
  <2>1. PICK m : m = SubSeq(t.regions, Len(t.bodies) + 1, Len(t.regions))
    OBVIOUS
  <2>2. IsTodo(t, Loop) /\ Len(t.bodies) = 0
    BY EmptySeq DEF Started
  <2>3. Len(t.regions) \in 1 .. 2 /\ (m = << >> => Len(t.bodies) = Len(t.regions))
    BY <2>1, <2>2, MissingSuites
  <2>4. m # << >>
    BY <2>2, <2>3
  <2>5. Missing' = m
    BY <1>6, <2>1 DEF Missing
  <2> QED
    BY <2>4, <2>5
<1>8. Phase = 1 /\ Phase' = 0
  BY <1>1, <1>2, <1>5, <1>7 DEF Phase
<1>9. (WorkLimit - work)' = WorkLimit - work
  BY DEF Same, WorkLimit
<1> QED
  BY <1>5, <1>8, <1>9, LessLeft

\* The next token is in the code.
LEMMA NextInside ==
  ASSUME Inv, AtToken
  PROVE  /\ Index \in 1 .. Past - 1 /\ Past \in Nat /\ End \in Nat /\ Index < End
         /\ Inside(Index + 1) /\ Index + 1 > Index
         /\ Inside(End) /\ End > Index
BY TheTop DEF AtToken, Inside

LEMMA ParseWhileTrueStep ==
  ASSUME Inv, ParseWhileTrue PROVE Inv' /\ Less
<1>1. PICK t \in WhileTrueLoop(Index, End) :
        /\ Becomes([Top EXCEPT !.todo = <<t>>]) /\ suppressed' = suppressed \union t.starts
  BY DEF ParseWhileTrue
<1>2. AtToken /\ UNCHANGED <<active, work, outcome>> /\ Same
  BY DEF ParseWhileTrue, Unchanged, Same
<1>3. Started(t, Loop) /\ t.starts \intersect suppressed = {}
  <2>1. PICK start, end : start = Index /\ end = End
    OBVIOUS
  <2>2. IsCode(tokens) /\ Inside(start) /\ Inside(end) /\ start < end /\ t \in WhileTrueLoop(start, end)
    BY <1>2, <2>1, TheTop, NextInside DEF Inv
  <2> QED
    BY <2>2, WhileTrueStarted
<1>4. PICK f : f = [Top EXCEPT !.todo = <<t>>]
  OBVIOUS
<1>5. PICK stack : stack = Top.stack
  OBVIOUS
<1>6. f = [region |-> Top.region, index |-> Top.index, body |-> Top.body,
           stack |-> stack, todo |-> <<t>>]
  BY <1>4, <1>5, TheTop
<1> QED
  BY <1>1, <1>2, <1>3, <1>4, <1>6, StartsToWait

LEMMA ParseForStep ==
  ASSUME Inv, ParseFor PROVE Inv' /\ Less
<1>1. PICK t \in ForLoops : Becomes([Top EXCEPT !.todo = <<t>>, !.stack = Front(@)])
  BY DEF ParseFor
<1>2. AtToken /\ UNCHANGED <<active, work, suppressed, outcome>> /\ Same
  BY DEF ParseFor, AtIterator, NoWhileTrue, Unchanged, Same
<1>3. Started(t, Loop) /\ t.starts = {}
  <2>1. PICK header : header = NextSemanticIndex(Index + 1, End)
    OBVIOUS
  <2>2. t \in ForLoop(Index, header, Last(Top.stack))
    BY <1>1, <2>1 DEF ForLoops
  <2>3. header < End /\ Op(header) = "for"
    BY <2>1 DEF ParseFor, AtIterator
  <2>4. header \in 1 .. Past - 1
    <3>1. Index + 1 \in Nat /\ Index + 1 <= End /\ Index \in Nat /\ End \in Nat /\ Inside(End)
      BY <1>2, NextInside
    <3>2. header \in Index + 1 .. End
      BY <2>1, <3>1, NextToken
    <3>3. Index \in 1 .. Past - 1 /\ Past \in Nat
      BY <1>2, NextInside
    <3> QED
      BY <2>3, <3>1, <3>2, <3>3 DEF Inside
  <2>5. PICK index, iterable : index = Index /\ iterable = Last(Top.stack)
    OBVIOUS
  <2>6. t \in ForLoop(index, header, iterable) /\ IsCode(tokens)
    BY <2>2, <2>5 DEF Inv
  <2> QED
    BY <2>3, <2>4, <2>6, ForStarted
<1>4. PICK f : f = [Top EXCEPT !.todo = <<t>>, !.stack = Front(@)]
  OBVIOUS
<1>5. PICK stack : stack = Front(Top.stack)
  OBVIOUS
<1>6. f = [region |-> Top.region, index |-> Top.index, body |-> Top.body,
           stack |-> stack, todo |-> <<t>>]
  BY <1>4, <1>5, TheTop
<1> QED
  BY <1>1, <1>2, <1>3, <1>4, <1>6, StartsToWait

LEMMA AwaitStep ==
  ASSUME Inv, AtToken, NEW plan, NEW t, Started(t, Loop), t.starts = {}, Await(plan, t)
  PROVE  Inv' /\ Less
<1>1. PICK stack : stack = IF plan.pops THEN Front(Top.stack) ELSE Top.stack
  OBVIOUS
<1>2. PICK f : f = [Top EXCEPT !.todo = <<t>>, !.stack = IF plan.pops THEN Front(@) ELSE @]
  OBVIOUS
<1>3. Becomes(f) /\ UNCHANGED <<active, work, suppressed, outcome>> /\ Same
  BY <1>2 DEF Await, Unchanged, Same
<1>4. f = [region |-> Top.region, index |-> Top.index, body |-> Top.body,
           stack |-> stack, todo |-> <<t>>]
  BY <1>1, <1>2, TheTop
<1> QED
  BY <1>3, <1>4, StartsToWait

LEMMA ParseWhileStep ==
  ASSUME Inv, ParseWhile PROVE Inv' /\ Less
<1>1. PICK plan \in Conditions : Await(plan, WhileLoop(plan))
  BY DEF ParseWhile
<1>2. AtToken
  BY DEF ParseWhile, NotDegenerate, NoLoopStarts, NoWhileTrue
<1>3. Inside(plan.true) /\ Inside(plan.false)
  BY <1>1 DEF Conditions, Inside
<1>4. PICK t : t = WhileLoop(plan)
  OBVIOUS
<1>5. Started(t, Loop) /\ t.starts = {}
  BY <1>3, <1>4, TheTop, WhileStarted DEF Inv
<1> QED
  BY <1>1, <1>2, <1>4, <1>5, AwaitStep

LEMMA ParseIfStep ==
  ASSUME Inv, ParseIf PROVE Inv' /\ Less
<1>1. PICK plan \in Conditions : Await(plan, IfStatement(plan))
  BY DEF ParseIf
<1>2. AtToken
  BY DEF ParseIf, NotDegenerate, NoLoopStarts, NoWhileTrue
<1>3. Inside(plan.true) /\ Inside(plan.false)
  BY <1>1 DEF Conditions, Inside
<1>4. PICK t : t = IfStatement(plan)
  OBVIOUS
<1>5. Started(t, Loop) /\ t.starts = {}
  BY <1>3, <1>4, IfStarted DEF Inv
<1> QED
  BY <1>1, <1>2, <1>4, <1>5, AwaitStep

LEMMA ParseDegenerateStep ==
  ASSUME Inv, ParseDegenerate PROVE Inv' /\ Less
<1>1. PICK d \in Degenerate : Goes(d.next, <<[op |-> "expr", value |-> d.test]>>)
  BY DEF ParseDegenerate
<1>2. AtToken
  BY DEF ParseDegenerate, NoLoopStarts, NoWhileTrue
<1>3. d.next \in Nat /\ Index < d.next /\ d.next < End
  BY TheTop, DegenerateGoesOn DEF Inv
<1>4. PICK n, s : n = d.next /\ s = <<[op |-> "expr", value |-> d.test]>>
  OBVIOUS
<1>5. Inside(n) /\ n > Index
  BY <1>2, <1>3, <1>4, NextInside DEF Inside
<1> QED
  BY <1>1, <1>2, <1>4, <1>5, GoesOn

\* The handlers that end with the next token, or with the region.
LEMMA DispatchStep ==
  ASSUME Inv, SkipResume \/ ParseJump \/ DispatchSimple \/ DispatchIdle \/ SkipDrop
  PROVE  Inv' /\ Less
<1>1. AtToken
  BY DEF SkipResume, ParseJump, DispatchSimple, DispatchIdle, SkipDrop, Plain, NotDegenerate,
         NoLoopStarts, NoWhileTrue
<1>2. PICK index, statements : index \in {Index + 1, End} /\ Goes(index, statements)
  BY DEF SkipResume, ParseJump, DispatchSimple, DispatchIdle, SkipDrop
<1>3. Inside(index) /\ index > Index
  BY <1>1, <1>2, NextInside
<1> QED
  BY <1>1, <1>2, <1>3, GoesOn

LEMMA DispatchLoadStep ==
  ASSUME Inv, DispatchLoad PROVE Inv' /\ Less
<1>1. AtToken /\ UNCHANGED <<active, work, suppressed, outcome>> /\ Same
  BY DEF DispatchLoad, Plain, NotDegenerate, NoLoopStarts, NoWhileTrue, Unchanged, Same
<1>2. PICK f : f = [Top EXCEPT !.index = @ + 1, !.stack = Append(@, Load(tokens[Index].name))]
  OBVIOUS
<1>3. f = [region |-> Top.region, index |-> Index + 1, body |-> Top.body,
           stack |-> Append(Top.stack, Load(tokens[Index].name)), todo |-> Top.todo]
  BY <1>2, TheTop DEF Index
<1>4. Becomes(f)
  BY <1>2 DEF DispatchLoad
<1>5. f.region = Top.region /\ f.index = Index + 1 /\ f.todo = << >>
  BY <1>1, <1>3 DEF AtToken
<1>6. IsFrame(f) /\ f.index > Index
  BY <1>1, <1>3, <1>5, TheTop, NextInside DEF IsFrame
<1> QED
  BY <1>1, <1>4, <1>5, <1>6, Advances

LEMMA CaptureStep ==
  ASSUME Inv, Capture PROVE Inv' /\ Less
<1>1. Top.todo # << >> /\ outcome = "running" /\ Same
  BY DEF Capture, Waiting, Unchanged, Same
<1>2. PICK t : t = Todo /\ Top.todo = <<t>> /\ IsTodo(t, Loop)
  BY <1>1, TheTop
<1>3. PICK r : r = Head(Missing)
  OBVIOUS
<1>4. Len(t.bodies) \in Nat /\ Len(t.bodies) < Len(t.regions) /\ Len(t.regions) \in 1 .. 2
      /\ r = t.regions[Len(t.bodies) + 1]
  <2>1. PICK m : m = SubSeq(t.regions, Len(t.bodies) + 1, Len(t.regions))
    OBVIOUS
  <2>2. m = Missing /\ m # << >>
    BY <1>2, <2>1 DEF Missing, Capture
  <2> QED
    BY <1>2, <1>3, <2>1, <2>2, MissingSuites
<1>5. Inside(r.start) /\ Inside(r.end)
  <2>1. Len(t.bodies) + 1 \in 1 .. Len(t.regions)
    BY <1>4
  <2> QED
    BY <1>2, <1>4, <2>1 DEF IsTodo
<1>6. PICK f : f = Frame(r)
  OBVIOUS
<1>7. f = [region |-> r, index |-> r.start, body |-> << >>, stack |-> << >>, todo |-> << >>]
  BY <1>6 DEF Frame
<1>8. f.region = r /\ f.todo = << >> /\ IsFrame(f)
  BY <1>5, <1>7 DEF IsFrame
<1>9. Calls(Top, f)
  BY <1>2, <1>4, <1>8 DEF Calls
<1>10. r \notin RegionsOf(frames)
  BY <1>1, <1>3 DEF Capture, Inv
<1> DEFINE u == Append(frames, f)
<1>11. /\ FramesOK(u) /\ Len(u) = Len(frames) + 1
       /\ RegionsOf(u) = RegionsOf(frames) \union {r} /\ AllHeld(u) = AllHeld(frames)
  BY <1>8, <1>9, <1>10, Pushed DEF Inv, Top
<1>12. frames' = u
  BY <1>3, <1>6 DEF Capture
<1> HIDE DEF u
<1>13. FramesOK(frames)'
  BY <1>1, <1>11, <1>12, SameCode
<1>14. RegionsOf(frames)' = RegionsOf(u) /\ AllHeld(frames)' = AllHeld(u)
  BY <1>12, SameSets
<1>15. IsCode(tokens)' /\ WorkLimit' = WorkLimit
  BY <1>1 DEF Inv, Same, WorkLimit
<1>16. WorkLimit \in Nat
  BY LimitIsNatural DEF Inv, IsCode
<1>17. work \in Nat /\ work' = work + 1 /\ work < WorkLimit /\ work' \in 1 .. WorkLimit
  BY <1>16 DEF Capture, Inv
<1>18. outcome' = outcome /\ active' = active \union {r} /\ suppressed' = suppressed
  BY <1>3 DEF Capture
<1>19. Inv'
  BY <1>1, <1>11, <1>13, <1>14, <1>15, <1>17, <1>18 DEF Inv
<1>20. (WorkLimit - work)' < WorkLimit - work
  BY <1>15, <1>16, <1>17
<1> QED
  BY <1>19, <1>20, LessLeft

\* What the caller is once the suite of its first missing region has come back.
LEMMA WithSuite ==
  ASSUME NEW c, IsFrame(c), c.todo # << >>, NEW suite
  PROVE  [c EXCEPT !.todo[1].bodies = Append(@, suite)]
           = [region |-> c.region, index |-> c.index, body |-> c.body, stack |-> c.stack,
              todo |-> <<[op |-> c.todo[1].op, test |-> c.todo[1].test,
                          regions |-> c.todo[1].regions, next |-> c.todo[1].next,
                          tail |-> c.todo[1].tail, starts |-> c.todo[1].starts,
                          bodies |-> Append(c.todo[1].bodies, suite)]>>]
<1>1. PICK t : t = c.todo[1]
  OBVIOUS
<1>2. c.todo = <<t>>
  BY <1>1 DEF IsFrame
<1>3. t = [op |-> t.op, test |-> t.test, regions |-> t.regions, next |-> t.next,
           tail |-> t.tail, starts |-> t.starts, bodies |-> t.bodies]
  BY <1>1 DEF IsFrame, IsTodo
<1>4. PICK u : u = [op |-> t.op, test |-> t.test, regions |-> t.regions, next |-> t.next,
                    tail |-> t.tail, starts |-> t.starts, bodies |-> Append(t.bodies, suite)]
  OBVIOUS
<1>5. [t EXCEPT !.bodies = Append(@, suite)] = u
  <2>1. PICK o, x, r, n, l, s, d :
          o = t.op /\ x = t.test /\ r = t.regions /\ n = t.next /\ l = t.tail /\ s = t.starts /\ d = t.bodies
    OBVIOUS
  <2>2. t = [op |-> o, test |-> x, regions |-> r, next |-> n, tail |-> l, starts |-> s, bodies |-> d]
    BY <1>3, <2>1, Zenon
  <2>3. u = [op |-> o, test |-> x, regions |-> r, next |-> n, tail |-> l, starts |-> s,
             bodies |-> Append(d, suite)]
    BY <1>4, <2>1, Zenon
  <2>4. [t EXCEPT !.bodies = Append(@, suite)]
          = [op |-> o, test |-> x, regions |-> r, next |-> n, tail |-> l, starts |-> s,
             bodies |-> Append(d, suite)]
    BY <2>2
  <2> QED
    BY <2>3, <2>4, Zenon
<1>6. [<<t>> EXCEPT ![1] = u] = <<u>> /\ <<t>>[1] = t
  OBVIOUS
<1>7. [c.todo EXCEPT ![1].bodies = Append(@, suite)] = <<u>>
  <2>1. [<<t>> EXCEPT ![1].bodies = Append(@, suite)]
          = [<<t>> EXCEPT ![1] = [<<t>>[1] EXCEPT !.bodies = Append(@, suite)]]
    BY Zenon
  <2> QED
    BY <1>2, <1>5, <1>6, <2>1, Zenon
<1>8. c = [region |-> c.region, index |-> c.index, body |-> c.body, stack |-> c.stack,
           todo |-> c.todo]
  BY DEF IsFrame
<1>9. PICK w : w = [c.todo EXCEPT ![1].bodies = Append(@, suite)]
  OBVIOUS
<1>10. [c EXCEPT !.todo[1].bodies = Append(@, suite)] = [c EXCEPT !.todo = w]
  BY <1>9, Zenon
<1>11. [c EXCEPT !.todo = w] = [region |-> c.region, index |-> c.index, body |-> c.body,
                                stack |-> c.stack, todo |-> w]
  BY <1>8
<1> QED
  BY <1>1, <1>4, <1>7, <1>9, <1>10, <1>11, Zenon

LEMMA Resumed ==
  ASSUME NEW c, IsFrame(c), c.todo # << >>,
         Len(c.todo[1].bodies) < Len(c.todo[1].regions), NEW suite
  PROVE  LET f == [c EXCEPT !.todo[1].bodies = Append(@, suite)]
         IN  IsFrame(f) /\ f.region = c.region /\ Held(f) = Held(c)
<1>1. PICK t : t = c.todo[1] /\ c.todo = <<t>> /\ IsTodo(t, c.region.loop)
  BY DEF IsFrame
<1>2. PICK b : b = Append(t.bodies, suite)
  OBVIOUS
<1>3. PICK u : u = [op |-> t.op, test |-> t.test, regions |-> t.regions, next |-> t.next,
                    tail |-> t.tail, starts |-> t.starts, bodies |-> b]
  OBVIOUS
<1>4. PICK f : f = [c EXCEPT !.todo[1].bodies = Append(@, suite)]
  OBVIOUS
<1>5. f = [region |-> c.region, index |-> c.index, body |-> c.body, stack |-> c.stack,
           todo |-> <<u>>]
  BY <1>1, <1>2, <1>3, <1>4, WithSuite
<1>6. IsTodo(u, c.region.loop)
  <2>1. /\ u.op = t.op /\ u.regions = t.regions /\ u.next = t.next /\ u.starts = t.starts
        /\ u.test = t.test /\ u.tail = t.tail /\ u.bodies = b
    BY <1>3
  <2>2. IsSequence(b) /\ Len(b) = Len(t.bodies) + 1
    BY <1>1, <1>2, Appended DEF IsTodo
  <2>3. Len(b) <= Len(t.regions)
    <3>1. Len(t.bodies) < Len(t.regions)
      BY <1>1
    <3>2. Len(t.bodies) \in Nat /\ Len(t.regions) \in Nat
      BY <1>1, Lengths DEF IsTodo
    <3> QED
      BY <2>2, <3>1, <3>2
  <2>4. u = [op |-> u.op, test |-> u.test, regions |-> u.regions, next |-> u.next,
             tail |-> u.tail, starts |-> u.starts, bodies |-> u.bodies]
    BY <1>3, <2>1
  <2> QED
    BY <1>1, <2>1, <2>2, <2>3, <2>4 DEF IsTodo
<1>7. f.region = c.region /\ f.index = c.index /\ f.todo = <<u>> /\ <<u>>[1] = u /\ <<u>> # << >>
  BY <1>5
<1>8. IsFrame(f)
  BY <1>5, <1>6, <1>7 DEF IsFrame
<1>9. Held(f) = Held(c)
  BY <1>1, <1>3, <1>7 DEF Held
<1> QED
  BY <1>4, <1>7, <1>8, <1>9

LEMMA ReturnStep ==
  ASSUME Inv, Return PROVE Inv' /\ Less
<1>1. Top.todo = << >> /\ outcome = "running" /\ Len(frames) > 1 /\ Same
  BY DEF Return, Parsed, Unchanged, Same
<1>2. Len(frames) \in Nat
  BY Innermost DEF Inv
<1> DEFINE p == Front(frames)
<1>3. /\ FramesOK(p) /\ Len(p) = Len(frames) - 1
      /\ Last(p) = frames[Len(frames) - 1] /\ Calls(Last(p), Top)
      /\ RegionsOf(p) = RegionsOf(frames) \ {Top.region}
      /\ AllHeld(p) = AllHeld(frames) \ Held(Top)
  BY <1>1, Popped DEF Inv, Top
<1>4. PICK c : c = Last(p) /\ IsFrame(c)
  BY <1>3, Innermost
<1>5. PICK suite, f : suite = Top.body /\ f = [c EXCEPT !.todo[1].bodies = Append(@, suite)]
  OBVIOUS
<1>6. IsFrame(f) /\ f.region = c.region /\ Held(f) = Held(c)
  BY <1>3, <1>4, <1>5, Resumed DEF Calls
<1> DEFINE u == Append(Front(p), f)
<1>7. FramesOK(u) /\ Len(u) = Len(p) /\ RegionsOf(u) = RegionsOf(p)
      /\ AllHeld(u) = (AllHeld(p) \ Held(Last(p))) \union Held(f)
  <2>1. Held(f) \intersect (AllHeld(p) \ Held(Last(p))) = {}
    BY <1>4, <1>6
  <2> QED
    BY <1>3, <1>4, <1>6, <2>1, Replaced
<1>8. AllHeld(u) = AllHeld(p)
  <2>1. Len(p) \in 1 .. Len(p)
    BY <1>1, <1>2, <1>3
  <2>2. Held(Last(p)) \subseteq AllHeld(p)
    BY <2>1 DEF AllHeld, Last
  <2> QED
    BY <1>4, <1>6, <1>7, <2>2
<1>9. Front(p) = SubSeq(frames, 1, Len(frames) - 2)
  <2>1. PICK n : n = Len(frames)
    OBVIOUS
  <2>2. n \in Nat /\ n > 1 /\ IsSequence(frames)
    BY <1>1, <1>2, <2>1 DEF Inv, FramesOK
  <2>3. n - 2 \in 0 .. n
    BY <2>2
  <2>4. /\ IsSequence(SubSeq(frames, 1, n - 2)) /\ Len(SubSeq(frames, 1, n - 2)) = n - 2
        /\ \A k \in 1 .. n - 2 : SubSeq(frames, 1, n - 2)[k] = frames[k]
    BY <2>1, <2>2, <2>3, FirstOnes
  <2>5. /\ IsSequence(Front(p)) /\ Len(Front(p)) = Len(p) - 1
        /\ \A k \in 1 .. Len(p) - 1 : Front(p)[k] = p[k]
    BY <1>3, Innermost
  <2>6. \A k \in 1 .. n - 1 : p[k] = frames[k]
    BY <2>1, Innermost DEF Inv
  <2>7. Len(p) - 1 = n - 2 /\ \A k \in 1 .. n - 2 : k \in 1 .. n - 1
    BY <1>3, <2>1, <2>2
  <2>8. Len(Front(p)) = n - 2 /\ \A k \in 1 .. n - 2 : Front(p)[k] = frames[k]
    BY <2>5, <2>6, <2>7
  <2>9. PICK v, w : v = Front(p) /\ w = SubSeq(frames, 1, n - 2)
    OBVIOUS
  <2>10. v = w
    <3>1. v \in Seq(ToSet(v) \union ToSet(w)) /\ w \in Seq(ToSet(v) \union ToSet(w))
      BY <2>4, <2>5, <2>9, SeqMonotonic DEF IsSequence
    <3> QED
      BY <2>4, <2>8, <2>9, <3>1, SeqEqual
  <2> QED
    BY <2>1, <2>9, <2>10
<1>10. frames' = u
  BY <1>3, <1>4, <1>5, <1>9 DEF Return
<1> HIDE DEF u, p
<1>11. FramesOK(frames)'
  BY <1>1, <1>7, <1>10, SameCode
<1>12. RegionsOf(frames)' = RegionsOf(u) /\ AllHeld(frames)' = AllHeld(u)
  BY <1>10, SameSets
<1>13. IsCode(tokens)' /\ WorkLimit' = WorkLimit
  BY <1>1 DEF Inv, Same, WorkLimit
<1>14. active' = active \ {Top.region} /\ work' = work /\ suppressed' = suppressed /\ outcome' = outcome
  BY DEF Return, Inactive
<1>15. Held(Top) = {}
  BY <1>1, TheTop
<1>16. Inv'
  BY <1>1, <1>3, <1>7, <1>8, <1>11, <1>12, <1>13, <1>14, <1>15 DEF Inv
<1>17. Len(frames)' < Len(frames)
  BY <1>2, <1>3, <1>7, <1>10
<1>18. (WorkLimit - work)' = WorkLimit - work
  BY <1>13, <1>14
<1> QED
  BY <1>16, <1>17, <1>18, LessLeft

LEMMA CompleteStep ==
  ASSUME Inv, Complete PROVE Inv' /\ Less
<1>1. Top.todo # << >> /\ outcome = "running" /\ Missing = << >> /\ Same
      /\ UNCHANGED <<active, work, outcome>>
  BY DEF Complete, Waiting, Unchanged, Same
<1>2. PICK t : t = Todo /\ IsTodo(t, Loop) /\ Held(Top) = t.starts
  BY <1>1, TheTop
<1>3. PICK statement : Becomes([Top EXCEPT !.body = Append(@, statement), !.index = Todo.next,
                                           !.todo = << >>])
  BY DEF Complete
<1>4. PICK f : f = [Top EXCEPT !.body = Append(@, statement), !.index = Todo.next, !.todo = << >>]
  OBVIOUS
<1>5. f = [region |-> Top.region, index |-> t.next, body |-> Append(Top.body, statement),
           stack |-> Top.stack, todo |-> << >>]
  BY <1>2, <1>4, TheTop
<1>6. f.region = Top.region /\ f.index = t.next /\ f.todo = << >>
  BY <1>5
<1>7. IsFrame(f) /\ Held(f) = {}
  BY <1>2, <1>5, <1>6, TheTop DEF IsFrame, IsTodo, Held
<1>8. suppressed' = suppressed \ Held(Top)
  BY <1>2 DEF Complete, Released
<1>9. Inv' /\ Len(frames)' = Len(frames) /\ Top' = f
  BY <1>1, <1>3, <1>4, <1>6, <1>7, <1>8, TopChanges
<1>10. Phase = 2 /\ Phase' = 1
  BY <1>1, <1>6, <1>9 DEF Phase
<1>11. (WorkLimit - work)' = WorkLimit - work
  BY <1>1 DEF Same, WorkLimit
<1> QED
  BY <1>9, <1>10, <1>11, LessLeft

\* The parser stops.
LEMMA LastStep ==
  ASSUME Inv, Fail \/ Recover PROVE Inv' /\ outcome' # "running"
<1>1. Same /\ UNCHANGED <<frames, work, suppressed>>
  BY DEF Fail, Recover, Unchanged, Same
<1>2. \/ outcome' = "error" /\ active' = active
      \/ outcome' = "recovered" /\ active' = {}
  BY DEF Fail, Recover
<1>3. outcome = "running"
  BY DEF Fail, Recover, Fails, Waiting, Parsed, AtIterator, Plain, NotDegenerate, NoLoopStarts,
         NoWhileTrue, AtToken
<1>4. FramesOK(frames)'
  BY <1>1, SameCode DEF Inv
<1>5. RegionsOf(frames)' = RegionsOf(frames) /\ AllHeld(frames)' = AllHeld(frames)
  BY <1>1, SameSets
<1>6. IsCode(tokens)' /\ WorkLimit' = WorkLimit
  BY <1>1 DEF Inv, Same, WorkLimit
<1> QED
  BY <1>1, <1>2, <1>3, <1>4, <1>5, <1>6 DEF Inv
-----------------------------------------------------------------------------
(* The invariant, and what it says.                                        *)

LEMMA InvInit ==
  ASSUME Init PROVE Inv
<1> DEFINE r == Region(1, Past, NoLoop)
<1>1. IsCode(tokens)
  BY CodeAssumption DEF Init
<1>2. Past \in Nat /\ Past >= 1
  BY <1>1, Code
<1>3. PICK f : f = Frame(r)
  OBVIOUS
<1>4. f.region = r /\ f.todo = << >> /\ r.start = 1 /\ r.end = Past
  BY <1>3 DEF Frame, Region
<1>5. IsFrame(f)
  <2>1. f = [region |-> r, index |-> 1, body |-> << >>, stack |-> << >>, todo |-> << >>]
    BY <1>3 DEF Frame, Region
  <2> QED
    BY <1>2, <1>4, <2>1 DEF IsFrame, Inside
<1>6. frames = <<f>>
  BY <1>3 DEF Init
<1>7. IsSequence(frames) /\ Len(frames) = 1 /\ frames # << >> /\ frames[1] = f
  <2>1. <<f>> \in Seq({f})
    OBVIOUS
  <2> QED
    BY <1>6, <2>1, SequenceOf
<1>8. \A k \in 1 .. 1 : k = 1
  OBVIOUS
<1> HIDE DEF r
<1>9. FramesOK(frames)
  <2>1. 1 .. Len(frames) - 1 = {}
    BY <1>7
  <2> QED
    BY <1>5, <1>7, <1>8, <2>1 DEF FramesOK
<1>10. RegionsOf(frames) = {r} /\ AllHeld(frames) = {}
  BY <1>4, <1>7 DEF RegionsOf, AllHeld, Held
<1>11. work \in 1 .. WorkLimit
  <2>1. WorkLimit \in Nat /\ WorkLimit >= 1
    BY <1>1, LimitIsNatural DEF IsCode
  <2> QED
    BY <2>1 DEF Init
<1> QED
  BY <1>1, <1>9, <1>10, <1>11 DEF Init, Inv, r

\* One step: the invariant, and less to do.
LEMMA InvStep ==
  ASSUME Inv, Next PROVE Inv' /\ (outcome' = "running" => Less)
<1>1. CASE ParseWhileTrue
  BY <1>1, ParseWhileTrueStep
<1>2. CASE ParseFor
  BY <1>2, ParseForStep
<1>3. CASE ParseDegenerate
  BY <1>3, ParseDegenerateStep
<1>4. CASE ParseWhile
  BY <1>4, ParseWhileStep
<1>5. CASE ParseIf
  BY <1>5, ParseIfStep
<1>6. CASE SkipResume \/ ParseJump \/ DispatchSimple \/ DispatchIdle \/ SkipDrop
  BY <1>6, DispatchStep
<1>7. CASE DispatchLoad
  BY <1>7, DispatchLoadStep
<1>8. CASE Capture
  BY <1>8, CaptureStep
<1>9. CASE Return
  BY <1>9, ReturnStep
<1>10. CASE Complete
  BY <1>10, CompleteStep
<1>11. CASE Fail \/ Recover
  BY <1>11, LastStep
<1> QED
  BY <1>1, <1>2, <1>3, <1>4, <1>5, <1>6, <1>7, <1>8, <1>9, <1>10, <1>11 DEF Next, Parse

LEMMA InvStutter ==
  ASSUME Inv, UNCHANGED vars PROVE Inv'
<1>1. Same /\ UNCHANGED <<frames, active, work, suppressed, outcome>>
  BY DEF vars, Same
<1>2. FramesOK(frames)'
  BY <1>1, SameCode DEF Inv
<1>3. RegionsOf(frames)' = RegionsOf(frames) /\ AllHeld(frames)' = AllHeld(frames)
  BY <1>1, SameSets
<1> QED
  BY <1>1, <1>2, <1>3 DEF Inv, Same, WorkLimit

LEMMA InvAlways == Spec => []Inv
<1>1. Inv /\ [Next]_vars => Inv'
  BY InvStep, InvStutter
<1> QED
  BY InvInit, <1>1, PTL DEF Spec

\* The calls are as many as the regions being parsed.
LEMMA OneRegionEach ==
  ASSUME NEW s, FramesOK(s) PROVE Cardinality(RegionsOf(s)) = Len(s)
<1>1. Len(s) \in Nat
  BY Innermost
<1> DEFINE f == [k \in 1 .. Len(s) |-> s[k].region]
<1>2. f \in Bijection(1 .. Len(s), RegionsOf(s))
  <2>1. f \in [1 .. Len(s) -> RegionsOf(s)]
    BY DEF RegionsOf
  <2>2. \A j, k \in 1 .. Len(s) : f[j] = f[k] => j = k
    BY DEF FramesOK
  <2>3. \A r \in RegionsOf(s) : \E k \in 1 .. Len(s) : f[k] = r
    BY DEF RegionsOf
  <2> QED
    BY <2>1, <2>2, <2>3 DEF Bijection, Injection, Surjection, IsInjective
<1>3. IsFiniteSet(1 .. Len(s)) /\ Cardinality(1 .. Len(s)) = Len(s)
  <2>1. PICK n \in Nat : n = Len(s)
    BY <1>1
  <2>2. IsFiniteSet(1 .. n) /\ Cardinality(1 .. n) = IF 1 > n THEN 0 ELSE n - 1 + 1
    BY FS_Interval
  <2>3. (IF 1 > n THEN 0 ELSE n - 1 + 1) = n
    OBVIOUS
  <2> QED
    BY <2>1, <2>2, <2>3
<1> HIDE DEF f
<1>4. ExistsBijection(1 .. Len(s), RegionsOf(s))
  BY <1>2 DEF ExistsBijection
<1> QED
  BY <1>3, <1>4, FS_Bijection

\* The active regions are those of the calls, each parsed by one of them and each the
\* next suite of the statement that waits for it; no call leaves the code
\* (_active_regions and the recursion of _capture_region).
THEOREM TypeCorrect == Spec => []TypeOK
<1>1. Inv => TypeOK
  <2> SUFFICES ASSUME Inv PROVE TypeOK
    OBVIOUS
  <2>1. DOMAIN frames = 1 .. Len(frames)
    BY Lengths DEF Inv, FramesOK
  <2>2. active = IF outcome = "recovered" THEN {} ELSE {frames[k].region : k \in DOMAIN frames}
    BY <2>1 DEF Inv, RegionsOf
  <2>3. Cardinality(active) = IF outcome = "recovered" THEN 0 ELSE Len(frames)
    BY OneRegionEach, FS_EmptySet DEF Inv
  <2>4. \A k \in DOMAIN frames :
          {frames[k].index, frames[k].region.start, frames[k].region.end} \subseteq 1 .. Past
    BY <2>1 DEF Inv, FramesOK, IsFrame, Inside
  <2>5. ASSUME NEW k \in 1 .. Len(frames) - 1
        PROVE  /\ frames[k].todo # << >>
               /\ frames[k + 1].region = frames[k].todo[1].regions[Len(frames[k].todo[1].bodies) + 1]
    BY DEF Inv, FramesOK, Calls
  <2> QED
    BY <2>2, <2>3, <2>4, <2>5 DEF TypeOK, Inv
<1> QED
  BY <1>1, InvAlways, PTL

\* A break leaves the loop whose body is being parsed to where its statement ends, and
\* in an else suite the loop around it (the loop contexts of _while_loop,
\* _while_true_loop, _for_loop and _if_statement).
LEMMA BreaksLeave == Inv => BreaksLeaveTheLoop
<1> SUFFICES ASSUME Inv, NEW k \in 1 .. Len(frames) - 1
             PROVE  LET todo == frames[k].todo[1]
                        loop == frames[k + 1].region.loop
                    IN  IF todo.op # "if" /\ todo.bodies = << >> THEN loop.break = todo.next
                                                                ELSE loop = frames[k].region.loop
  BY DEF BreaksLeaveTheLoop
<1>1. Len(frames) \in Nat /\ k \in 1 .. Len(frames)
  BY Innermost DEF Inv
<1>2. Calls(frames[k], frames[k + 1]) /\ IsFrame(frames[k])
  BY <1>1 DEF Inv, FramesOK
<1>3. PICK t, n : t = frames[k].todo[1] /\ n = Len(t.bodies)
  OBVIOUS
<1>4. /\ IsTodo(t, frames[k].region.loop) /\ n < Len(t.regions)
      /\ frames[k + 1].region = t.regions[n + 1]
  BY <1>2, <1>3 DEF Calls, IsFrame
<1>5. n \in Nat /\ Len(t.regions) \in 1 .. 2
  BY <1>3, <1>4, Lengths DEF IsTodo
<1>6. n + 1 \in 1 .. Len(t.regions) /\ (n + 1 = 1 <=> n = 0)
  BY <1>4, <1>5
<1>7. n = 0 <=> t.bodies = << >>
  BY <1>3, <1>4, Lengths, EmptySeq DEF IsTodo
<1>8. IF t.op # "if" /\ n + 1 = 1 THEN t.regions[n + 1].loop.break = t.next
                                  ELSE t.regions[n + 1].loop = frames[k].region.loop
  BY <1>4, <1>6 DEF IsTodo
<1> QED
  BY <1>3, <1>4, <1>6, <1>7, <1>8

\* The loop starts that are suppressed are those of the while True loops whose bodies are
\* being parsed, each for one of them (_suppressed_loop_starts, set before the body is
\* captured and restored after).
LEMMA SuppressedExactly == Inv => SuppressedWhileParsed
<1> SUFFICES ASSUME Inv PROVE SuppressedWhileParsed
  OBVIOUS
<1> DEFINE starts(k) == UNION {todo.starts : todo \in ToSet(frames[k].todo)}
<1>1. DOMAIN frames = 1 .. Len(frames)
  BY Lengths DEF Inv, FramesOK
<1>2. ASSUME NEW k \in 1 .. Len(frames) PROVE starts(k) = Held(frames[k])
  <2>1. IsFrame(frames[k])
    BY DEF Inv, FramesOK
  <2>2. CASE frames[k].todo = << >>
    <3>1. ToSet(frames[k].todo) = {}
      BY <2>2 DEF ToSet
    <3> QED
      BY <2>2, <3>1 DEF Held
  <2>3. CASE frames[k].todo # << >>
    <3>1. PICK t : t = frames[k].todo[1] /\ frames[k].todo = <<t>>
      BY <2>1, <2>3 DEF IsFrame
    <3>2. ToSet(<<t>>) = {t}
      BY DEF ToSet
    <3> QED
      BY <2>3, <3>1, <3>2 DEF Held
  <2> QED
    BY <2>2, <2>3
<1> HIDE DEF starts
<1>3. suppressed = UNION {starts(k) : k \in DOMAIN frames}
  BY <1>1, <1>2 DEF Inv, AllHeld
<1>4. \A j, k \in DOMAIN frames : j # k => starts(j) \intersect starts(k) = {}
  BY <1>1, <1>2 DEF Inv, FramesOK
<1> QED
  BY <1>3, <1>4 DEF SuppressedWhileParsed, starts

\* On any code, a break and the suppressed starts are those of the loops that are open
\* (_LoopContext and _suppressed_loop_starts through all of _capture_region's calls).
THEOREM OpenLoopsKnown == Spec => []KnowsOpenLoops
<1>1. Inv => KnowsOpenLoops
  BY BreaksLeave, SuppressedExactly DEF KnowsOpenLoops
<1> QED
  BY <1>1, InvAlways, PTL

\* Whatever the code, a step leaves less to do (the loop of _parse_region, the handlers'
\* next indices, _capture_region and the work limit).
THEOREM Descends == Spec => ParsingDescends
<1>1. Inv /\ [Next]_vars => [outcome' = "running" => Less]_vars
  BY InvStep
<1> QED
  BY <1>1, InvAlways, PTL DEF Spec, ParsingDescends, Less

\* What is left to do are four numbers, so the parser comes to an end.
THEOREM NumbersLeft == Spec => [](LeftToDo \in Nat \X Nat \X Nat \X Nat)
<1>1. Inv => LeftToDo \in Nat \X Nat \X Nat \X Nat
  <2> SUFFICES ASSUME Inv PROVE LeftToDo \in Nat \X Nat \X Nat \X Nat
    OBVIOUS
  <2>1. WorkLimit \in Nat /\ work \in 1 .. WorkLimit
    BY LimitIsNatural DEF Inv, IsCode
  <2>2. WorkLimit - work \in Nat
    BY <2>1
  <2>3. Len(frames) \in Nat
    BY Innermost DEF Inv
  <2>4. Phase \in Nat
    BY DEF Phase
  <2>5. Rest \in Nat
    BY TheTop DEF Rest, Inside
  <2>6. LeftToDo = <<WorkLimit - work, Len(frames), Phase, Rest>>
    BY DEF LeftToDo, Phase, Rest
  <2> QED
    BY <2>2, <2>3, <2>4, <2>5, <2>6
<1> QED
  BY <1>1, InvAlways, PTL
=============================================================================
