-------------------------- MODULE StackDepthProofs --------------------------
(***************************************************************************)
(* Code that analyze_stack accepts runs with exactly the depths it found   *)
(* and never takes more from the stack than there is, for every program    *)
(* in which only the first instruction is a RETURN_GENERATOR.  (For the    *)
(* others the statement is false: see the run closure_generator.)          *)
(*                                                                         *)
(* The inductive invariant is FollowersKnown: what may follow a recorded   *)
(* instruction is recorded with the right depth or still queued.  When the *)
(* deque is empty it says that the recorded depths are preserved by every  *)
(* step of the machine.  OnlyLedTo says that nothing else has a depth: the *)
(* recorded and queued instructions lie in every set that has the first    *)
(* ones and that nothing queued leads out of.                              *)
(***************************************************************************)
EXTENDS StackDepth, TLAPS

\* No code object starts with MAKE_CELL or COPY_FREE_VARS before RETURN_GENERATOR.
LeadingGenerators ==
  \A p \in Programs : \A i \in Instructions(p) : p.kind[i] = "generator" => i = 1

Phases == /\ program \in Programs
          /\ outcome = "ok" => pending = {}
          /\ outcome # "ok" => pc = 1 /\ depth = 0

\* Instruction j is queued behind instruction i.
Leads(p, i, j) == \/ j = i + 1 /\ p.kind[i] \in {"plain", "branch"}
                  \/ JumpsTo(p, i, j)
                  \/ RaisesTo(p, i, j)

\* A set of instructions that nothing queued leads out of.
IsTrap(p, X) == /\ X \subseteq Instructions(p)
                /\ \A item \in InitialPending(p) : item[1] \in X
                /\ \A i \in X : \A j \in Instructions(p) : Leads(p, i, j) => j \in X

\* Nothing is queued or recorded but what can be got to.
OnlyLedTo == \A X : IsTrap(program, X) =>
               DOMAIN depths \subseteq X /\ \A item \in pending : item[1] \in X \union {0}

Inv == TypeOK /\ Phases /\ FollowersKnown /\ RecordedAreChecked /\ DepthsAreExact /\ OnlyLedTo

ItemsOf(p, i, d) == JumpItems(p, i, d) \union FallItems(p, i, d) \union HandlerItems(p, i)

\* What is queued behind an instruction is what it leads to.
LEMMA ItemsLead ==
  ASSUME NEW p, NEW i \in Instructions(p), NEW d, NEW item \in ItemsOf(p, i, d), item[1] # 0
  PROVE  item[1] \in Instructions(p) /\ Leads(p, i, item[1])
<1>1. CASE item \in JumpItems(p, i, d)
  BY <1>1 DEF JumpItems, Leads
<1>2. CASE item \in FallItems(p, i, d)
  BY <1>2 DEF FallItems, Leads
<1>3. CASE item \in HandlerItems(p, i)
  <2>1. PICK r \in p.regions : /\ Covers(r, p.offset[i])
                               /\ item \in {<<j, HandlerDepth(r)>> : j \in HandlersAt(p, r)}
    BY <1>3 DEF HandlerItems
  <2>2. item[1] \in Instructions(p) /\ p.offset[item[1]] = r.target
    BY <2>1 DEF HandlersAt
  <2> QED
    BY <2>1, <2>2 DEF Leads, RaisesTo
<1> QED
  BY <1>1, <1>2, <1>3 DEF ItemsOf

\* What is queued behind an instruction that was checked is a pair of an
\* instruction, or the missing one, and a depth.
LEMMA ItemsTyped ==
  ASSUME NEW p, IsStackProgram(p), NEW i \in Instructions(p), NEW d \in Nat,
         d >= p.required[i]
  PROVE  ItemsOf(p, i, d) \subseteq (Instructions(p) \union {0}) \X Nat
<1>1. /\ p.effect[i] \in Int /\ p.jumpEffect[i] \in Int /\ p.required[i] \in Nat
      /\ p.required[i] + p.effect[i] >= 0 /\ p.required[i] + p.jumpEffect[i] >= 0
  BY DEF IsStackProgram
<1>2. d + p.effect[i] \in Nat /\ d + p.jumpEffect[i] \in Nat
  BY <1>1
<1>3. JumpItems(p, i, d) \subseteq Instructions(p) \X Nat
  BY <1>2 DEF JumpItems
<1>4. FallItems(p, i, d) \subseteq Instructions(p) \X Nat
  BY <1>2 DEF FallItems
<1>5. \A r \in p.regions : HandlerDepth(r) \in Nat
  BY DEF IsStackProgram, HandlerDepth
<1>6. HandlerItems(p, i) \subseteq (Instructions(p) \union {0}) \X Nat
  BY <1>5 DEF HandlerItems, HandlersAt
<1> QED
  BY <1>3, <1>4, <1>6 DEF ItemsOf

\* Before the first step of an analysis.
Fresh == /\ program \in Programs /\ IsStackProgram(program)
         /\ outcome = "analysing" /\ depths = [i \in {} |-> 0]
         /\ pending = InitialPending(program)
         /\ pc = 1 /\ depth = 0

\* The items the analysis starts from are queued.
LEMMA FreshInv == Fresh => Inv
<1> SUFFICES ASSUME Fresh PROVE Inv
  OBVIOUS
<1> USE DEF Fresh
<1>1. IsProgram(program)
  BY DEF IsStackProgram
<1>2. 1 \in Code
  BY <1>1 DEF Code, Instructions, IsProgram
<1>3. InitialPending(program) \subseteq (Code \union {0}) \X Nat
  BY <1>2 DEF InitialPending, Code
<1>4. DOMAIN depths = {} /\ depths \in [DOMAIN depths -> Nat]
  OBVIOUS
<1>5. TypeOK
  BY <1>1, <1>2, <1>3, <1>4 DEF TypeOK
<1>6. FollowersKnown
  BY <1>4 DEF FollowersKnown, ItemKnown
<1>7. OnlyLedTo
  BY <1>4 DEF OnlyLedTo, IsTrap
<1> QED
  BY <1>4, <1>5, <1>6, <1>7 DEF Inv, Phases, RecordedAreChecked, DepthsAreExact, Running

\* An analysis that is started in the middle of a behaviour starts well.
LEMMA StartedInv == Fresh' => Inv'
BY FreshInv, PTL

\* Every behaviour starts so.
LEMMA InitInv == ASSUME ProgramsAssumption PROVE Init => Inv
BY FreshInv DEF Init, ProgramsAssumption, Fresh

\* Recording an instruction keeps what is known of all others.
LEMMA RecordInv == Inv /\ Record => Inv'
<1> SUFFICES ASSUME Inv, Record PROVE Inv'
  OBVIOUS
<1>1. PICK item \in pending :
        /\ Analysing(item)
        /\ item[1] \in Code \ DOMAIN depths /\ item[2] >= program.required[item[1]]
        /\ depths' = [k \in DOMAIN depths \union {item[1]} |->
                        IF k = item[1] THEN item[2] ELSE depths[k]]
        /\ pending' = (pending \ {item}) \union ItemsOf(program, item[1], item[2])
        /\ UNCHANGED <<program, outcome, pc, depth>>
  BY DEF Record, ItemsOf
<1> DEFINE i == item[1]
           d == item[2]
<1>2. i \in Code /\ d \in Nat /\ item = <<i, d>> /\ IsStackProgram(program)
  BY <1>1 DEF Inv, TypeOK
<1>3. ItemsOf(program, i, d) \subseteq (Code \union {0}) \X Nat
  BY <1>1, <1>2, ItemsTyped DEF Code
<1>4. /\ DOMAIN depths' = DOMAIN depths \union {i}
      /\ depths'[i] = d
      /\ \A k \in DOMAIN depths : depths'[k] = depths[k]
  BY <1>1
<1>5. TypeOK'
  <2>1. DOMAIN depths' \subseteq Code' /\ depths' \in [DOMAIN depths' -> Nat]
    BY <1>1, <1>2 DEF Inv, TypeOK, Code
  <2>2. pending' \subseteq (Code' \union {0}) \X Nat
    BY <1>1, <1>3 DEF Inv, TypeOK, Code
  <2> QED
    BY <1>1, <2>1, <2>2 DEF Inv, TypeOK, Code
<1>6. outcome = "analysing"
  BY <1>1 DEF Analysing
<1>7. \A x : ItemKnown(x) => ItemKnown(x)'
  <2> SUFFICES ASSUME NEW x, ItemKnown(x) PROVE ItemKnown(x)'
    OBVIOUS
  <2>1. CASE x = item
    BY <1>4, <2>1 DEF ItemKnown
  <2>2. CASE x # item /\ x \in pending
    BY <1>1, <2>2 DEF ItemKnown
  <2>3. CASE x[1] \in DOMAIN depths /\ depths[x[1]] = x[2]
    BY <1>4, <2>3 DEF ItemKnown
  <2> QED
    BY <2>1, <2>2, <2>3 DEF ItemKnown
<1>8. \A x \in ItemsOf(program, i, d) : ItemKnown(x)'
  BY <1>1 DEF ItemKnown
<1>9. FollowersKnown'
  <2>1. /\ \A x \in InitialPending(program) : ItemKnown(x)
        /\ \A k \in DOMAIN depths : \A x \in ItemsOf(program, k, depths[k]) : ItemKnown(x)
    BY <1>6 DEF Inv, FollowersKnown, ItemsOf
  <2>2. \A x \in InitialPending(program) : ItemKnown(x)'
    BY <1>7, <2>1
  <2>3. \A k \in DOMAIN depths' : \A x \in ItemsOf(program, k, depths'[k]) : ItemKnown(x)'
    BY <1>4, <1>7, <1>8, <2>1
  <2> QED
    BY <1>1, <2>2, <2>3 DEF FollowersKnown, ItemsOf
<1>10. RecordedAreChecked'
  BY <1>1, <1>4, <1>6 DEF Inv, RecordedAreChecked
<1>11. Phases' /\ DepthsAreExact'
  BY <1>1, <1>6 DEF Inv, Phases, DepthsAreExact, Running
<1>12. OnlyLedTo'
  <2> SUFFICES ASSUME NEW X, IsTrap(program, X)
               PROVE  /\ DOMAIN depths' \subseteq X
                      /\ \A x \in pending' : x[1] \in X \union {0}
    BY <1>1 DEF OnlyLedTo
  <2>1. DOMAIN depths \subseteq X /\ \A x \in pending : x[1] \in X \union {0}
    BY DEF Inv, OnlyLedTo
  <2>2. i \in X
    BY <1>1, <1>2, <2>1 DEF Code, Instructions
  <2>3. \A x \in ItemsOf(program, i, d) : x[1] \in X \union {0}
    BY <1>2, <2>2, ItemsLead DEF IsTrap, Code
  <2> QED
    BY <1>1, <1>4, <2>1, <2>2, <2>3
<1> QED
  BY <1>5, <1>9, <1>10, <1>11, <1>12 DEF Inv

\* Every step of the analysis keeps the invariant, its end hands it to the machine.
LEMMA AnalyseInv == Inv /\ Analyse => Inv'
<1> SUFFICES ASSUME Inv, Analyse PROVE Inv'
  OBVIOUS
<1>1. CASE Record
  BY <1>1, RecordInv
<1>2. CASE Again
  <2>1. PICK item \in pending :
          /\ outcome = "analysing"
          /\ item[1] \in DOMAIN depths /\ depths[item[1]] = item[2]
          /\ pending' = pending \ {item}
          /\ UNCHANGED <<program, outcome, depths, pc, depth>>
    BY <1>2 DEF Again, Analysing
  <2>2. \A x : ItemKnown(x) => ItemKnown(x)'
    BY <2>1 DEF ItemKnown
  <2>3. FollowersKnown'
    BY <2>1, <2>2 DEF Inv, FollowersKnown
  <2>4. TypeOK' /\ RecordedAreChecked'
    BY <2>1 DEF Inv, TypeOK, RecordedAreChecked, Code
  <2>5. Phases' /\ DepthsAreExact'
    BY <2>1 DEF Inv, Phases, DepthsAreExact, Running
  <2>6. OnlyLedTo'
    BY <2>1 DEF Inv, OnlyLedTo
  <2> QED
    BY <2>3, <2>4, <2>5, <2>6 DEF Inv
<1>3. CASE Inconsistent \/ Shallow \/ Missing
  <2>1. /\ outcome = "analysing" /\ outcome' \in {"inconsistent", "shallow", "missing"}
        /\ UNCHANGED <<program, depths, pending, pc, depth>>
    BY <1>3 DEF Inconsistent, Shallow, Missing, Analysing
  <2> QED
    BY <2>1 DEF Inv, TypeOK, Phases, FollowersKnown, RecordedAreChecked, DepthsAreExact,
                Running, Code, OnlyLedTo
<1>4. CASE Finish
  <2>1. /\ outcome = "analysing" /\ outcome' = "ok" /\ pending = {}
        /\ UNCHANGED <<program, depths, pending, pc, depth>>
    BY <1>4 DEF Finish
  <2>2. TypeOK' /\ Phases' /\ RecordedAreChecked'
    BY <2>1 DEF Inv, TypeOK, Phases, RecordedAreChecked, Code
  <2>3. FollowersKnown'
    BY <2>1 DEF Inv, FollowersKnown, ItemKnown
  <2>4. DepthsAreExact'
    <3>1. ItemKnown(<<1, 0>>)
      BY <2>1 DEF Inv, FollowersKnown, InitialPending
    <3>2. 1 \in DOMAIN depths /\ depths[1] = 0
      BY <2>1, <3>1 DEF ItemKnown
    <3> QED
      BY <2>1, <3>2 DEF Inv, Phases, DepthsAreExact
  <2>5. OnlyLedTo'
    BY <2>1 DEF Inv, OnlyLedTo
  <2> QED
    BY <2>2, <2>3, <2>4, <2>5 DEF Inv
<1> QED
  BY <1>1, <1>2, <1>3, <1>4 DEF Analyse

\* One step of the machine leads to an instruction whose recorded depth is the
\* depth the step leaves.
LEMMA MachineFollows ==
  ASSUME LeadingGenerators, Inv, Fall \/ Resume \/ Jump \/ Raise
  PROVE  /\ outcome = "ok"
         /\ UNCHANGED <<program, outcome, depths, pending>>
         /\ pc' \in Code
         /\ pc' \in DOMAIN depths /\ depths[pc'] = depth'
<1>1. /\ outcome = "ok" /\ pending = {} /\ program \in Programs
      /\ pc \in Code /\ pc \in DOMAIN depths /\ depths[pc] = depth
      /\ UNCHANGED <<program, outcome, depths, pending>>
  BY DEF Inv, TypeOK, Phases, DepthsAreExact, Fall, Resume, Jump, Raise, Running
<1>2. /\ \A x \in InitialPending(program) : ItemKnown(x)
      /\ \A x \in ItemsOf(program, pc, depth) : ItemKnown(x)
  BY <1>1 DEF Inv, FollowersKnown, ItemsOf
<1>3. \A j, e : ItemKnown(<<j, e>>) => j \in DOMAIN depths /\ depths[j] = e
  BY <1>1 DEF ItemKnown
<1>4. CASE Fall
  <2>1. /\ pc' \in Code /\ FallsTo(program, pc, pc') /\ program.kind[pc] # "generator"
        /\ depth' = depth + program.effect[pc]
    BY <1>4 DEF Fall
  <2>2. <<pc', depth'>> \in FallItems(program, pc, depth)
    BY <2>1 DEF FallItems, FallsTo, Code
  <2> QED
    BY <1>1, <1>2, <1>3, <2>1, <2>2 DEF ItemsOf
<1>5. CASE Resume
  <2>1. /\ pc' \in Code /\ pc' = pc + 1 /\ program.kind[pc] = "generator"
        /\ depth' = depth + 1
    BY <1>5 DEF Resume, FallsTo
  <2>2. pc = 1
    BY <1>1, <2>1 DEF LeadingGenerators, Code
  <2>3. depths[1] = 0
    BY <1>2, <1>3 DEF InitialPending
  <2>4. <<pc', depth'>> \in InitialPending(program)
    BY <1>1, <2>1, <2>2, <2>3 DEF InitialPending, Code
  <2> QED
    BY <1>1, <1>2, <1>3, <2>1, <2>4
<1>6. CASE Jump
  <2>1. /\ pc' \in Code /\ JumpsTo(program, pc, pc')
        /\ depth' = depth + program.jumpEffect[pc]
    BY <1>6 DEF Jump
  <2>2. <<pc', depth'>> \in JumpItems(program, pc, depth)
    BY <2>1 DEF JumpItems, Code
  <2> QED
    BY <1>1, <1>2, <1>3, <2>1, <2>2 DEF ItemsOf
<1>7. CASE Raise
  <2>1. PICK r \in program.regions :
          /\ Covers(r, program.offset[pc])
          /\ pc' \in Code /\ program.offset[pc'] = r.target
          /\ depth' = r.depth + (IF r.lasti THEN 2 ELSE 1)
    BY <1>7 DEF Raise
  <2>2. depth' = HandlerDepth(r)
    <3>1. r.depth \in Nat
      BY <2>1 DEF Inv, TypeOK, IsStackProgram
    <3> QED
      BY <2>1, <3>1 DEF HandlerDepth
  <2>3. <<pc', depth'>> \in HandlerItems(program, pc)
    BY <2>1, <2>2 DEF HandlerItems, HandlersAt, Code
  <2> QED
    BY <1>1, <1>2, <1>3, <2>1, <2>3 DEF ItemsOf
<1> QED
  BY <1>4, <1>5, <1>6, <1>7

\* And so does every step of the machine, generators resumed at the start only.
LEMMA NextInv == ASSUME LeadingGenerators PROVE Inv /\ [Next]_vars => Inv'
<1> SUFFICES ASSUME Inv, [Next]_vars PROVE Inv'
  OBVIOUS
<1>1. CASE Analyse
  BY <1>1, AnalyseInv
<1>2. CASE Fall \/ Resume \/ Jump \/ Raise
  <2>1. /\ outcome = "ok"
        /\ UNCHANGED <<program, outcome, depths, pending>>
        /\ pc' \in Code
        /\ pc' \in DOMAIN depths /\ depths[pc'] = depth'
    BY <1>2, MachineFollows
  <2>2. TypeOK'
    BY <2>1 DEF Inv, TypeOK, Code
  <2>3. Phases' /\ DepthsAreExact'
    BY <2>1 DEF Inv, Phases, DepthsAreExact
  <2>4. FollowersKnown' /\ RecordedAreChecked'
    BY <2>1 DEF Inv, FollowersKnown, RecordedAreChecked, ItemKnown
  <2>5. OnlyLedTo'
    BY <2>1 DEF Inv, OnlyLedTo
  <2> QED
    BY <2>2, <2>3, <2>4, <2>5 DEF Inv
<1>3. CASE UNCHANGED vars
  BY <1>3 DEF vars, Inv, TypeOK, Phases, FollowersKnown, RecordedAreChecked,
              DepthsAreExact, Running, ItemKnown, Code, OnlyLedTo
<1> QED
  BY <1>1, <1>2, <1>3 DEF Next

\* The invariant of analysis and execution.
LEMMA InvHolds == ASSUME ProgramsAssumption, LeadingGenerators PROVE Spec => []Inv
<1>1. Init => Inv
  BY InitInv
<1>2. Inv /\ [Next]_vars => Inv'
  BY NextInv
<1> QED
  BY <1>1, <1>2, PTL DEF Spec

\* With nothing queued, no way leads out of the recorded instructions.
LEMMA RecordedIsTrap == Inv /\ Running => IsTrap(program, DOMAIN depths)
<1> SUFFICES ASSUME Inv, Running PROVE IsTrap(program, DOMAIN depths)
  OBVIOUS
<1> DEFINE R == DOMAIN depths
<1>1. /\ pending = {} /\ R \subseteq Code /\ Code = Instructions(program)
      /\ \A item \in InitialPending(program) : ItemKnown(item)
      /\ \A i \in R : \A item \in ItemsOf(program, i, depths[i]) : ItemKnown(item)
  BY DEF Inv, TypeOK, Phases, FollowersKnown, Running, ItemsOf, Code
<1>2. \A item : ItemKnown(item) => item[1] \in R
  BY <1>1 DEF ItemKnown
<1>3. ASSUME NEW i \in R, NEW j \in Instructions(program), Leads(program, i, j) PROVE j \in R
  <2> DEFINE d == depths[i]
  <2>1. ASSUME j = i + 1, program.kind[i] \in {"plain", "branch"} PROVE j \in R
    <3>1. <<j, d + program.effect[i]>> \in FallItems(program, i, d)
      BY <2>1 DEF FallItems
    <3> QED
      BY <1>1, <1>2, <3>1 DEF ItemsOf
  <2>2. ASSUME JumpsTo(program, i, j) PROVE j \in R
    <3>1. <<j, d + program.jumpEffect[i]>> \in JumpItems(program, i, d)
      BY <2>2 DEF JumpItems
    <3> QED
      BY <1>1, <1>2, <3>1 DEF ItemsOf
  <2>3. ASSUME RaisesTo(program, i, j) PROVE j \in R
    <3>1. PICK r \in program.regions : Covers(r, program.offset[i]) /\ program.offset[j] = r.target
      BY <2>3 DEF RaisesTo
    <3>2. <<j, HandlerDepth(r)>> \in HandlerItems(program, i)
      BY <3>1 DEF HandlerItems, HandlersAt
    <3> QED
      BY <1>1, <1>2, <3>2 DEF ItemsOf
  <2> QED
    BY <1>3, <2>1, <2>2, <2>3 DEF Leads
<1> QED
  BY <1>1, <1>2, <1>3 DEF IsTrap

\* The analysed depth of an instruction is the depth the machine has there.
THEOREM DepthsCorrect ==
  ASSUME ProgramsAssumption, LeadingGenerators PROVE Spec => []DepthsAreExact
<1>1. Inv => DepthsAreExact
  BY DEF Inv
<1> QED
  BY <1>1, InvHolds, PTL

\* A region that covers a recorded instruction has its handler recorded, and
\* only instructions are.
LEMMA HandlersRecorded == Inv => HandlersExist
<1> SUFFICES ASSUME Inv, Running, NEW i \in DOMAIN depths, NEW r \in program.regions,
                    Covers(r, program.offset[i])
             PROVE  r.target \in OffsetSet(program)
  BY DEF HandlersExist
<1>1. /\ pending = {} /\ DOMAIN depths \subseteq Code
      /\ \A x \in HandlerItems(program, i) : ItemKnown(x)
  BY DEF Inv, TypeOK, Phases, FollowersKnown, Running
<1>2. 0 \notin Code
  BY DEF Code, Instructions
<1>3. ASSUME r.target \notin OffsetSet(program) PROVE FALSE
  <2>1. <<0, HandlerDepth(r)>> \in HandlerItems(program, i)
    BY <1>3 DEF HandlerItems, HandlersAt
  <2> QED
    BY <1>1, <1>2, <2>1 DEF ItemKnown
<1> QED
  BY <1>3

\* Accepted code can go on wherever it raises.
THEOREM HandlersAreReal ==
  ASSUME ProgramsAssumption, LeadingGenerators PROVE Spec => []HandlersExist
<1> QED
  BY HandlersRecorded, InvHolds, PTL

\* Accepted code never underflows its stack.
THEOREM NoUnderflow ==
  ASSUME ProgramsAssumption, LeadingGenerators PROVE Spec => []NeverUnderflows
<1>1. Inv => NeverUnderflows
  BY DEF Inv, DepthsAreExact, RecordedAreChecked, NeverUnderflows, Running
<1> QED
  BY <1>1, InvHolds, PTL
=============================================================================
