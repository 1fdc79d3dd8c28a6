--------------------------- MODULE MCConditionPlan ---------------------------
(***************************************************************************)
(* Every decision graph of three jumps, cyclic ones and jumps whose two    *)
(* outcomes are one included; every acyclic one of four jumps, with all    *)
(* predicates different and with two of them alike (a compiler duplicates  *)
(* the end of a condition); every acyclic one of three jumps with each     *)
(* form of predicate.                                                      *)
(***************************************************************************)
EXTENDS ConditionMeaning

Names == <<"a", "b", "c", "d">>
Plain == [i \in 1 .. 4 |-> Load(Names[i])]

Forms(name) == {Load(name), Not(Load(name)), Compare("lt", name), Compare("is", name),
                Bool("or", <<Load(name), Load("z")>>)}

\* What _bounded_condition_plan collects: all jumps can be reached from the first
\* and both endpoints from some jump.
Collected(next) ==
  LET size == Len(next)
      targets(S) == {next[n].true : n \in S} \union {next[n].false : n \in S}
  IN  /\ \A S \in SUBSET (1 .. size) :
           1 \in S /\ targets(S) \intersect (1 .. size) \subseteq S => S = 1 .. size
      /\ {size + 1, size + 2} \subseteq targets(1 .. size)

\* The two outcomes of a jump among the given offsets.
Jumps(targets) == [true : targets, false : targets]

AllOfThree     == {g \in [1 .. 3 -> Jumps(1 .. 5)] : Collected(g)}
ForwardOfThree == {g \in {<<a, b, c>> : a \in Jumps(2 .. 5), b \in Jumps(3 .. 5),
                                        c \in Jumps(4 .. 5)} : Collected(g)}
ForwardOfFour  == {g \in {<<a, b, c, d>> : a \in Jumps(2 .. 6), b \in Jumps(3 .. 6),
                                           c \in Jumps(4 .. 6), d \in Jumps(5 .. 6)} :
                     Collected(g)}

Labelled(next, predicates) ==
  [nodes |-> [n \in 1 .. Len(next) |->
                [predicate |-> predicates[n], true |-> next[n].true, false |-> next[n].false]],
   endpoints |-> {Len(next) + 1, Len(next) + 2}]

Forward(next) == \A n \in 1 .. Len(next) : next[n].true > n /\ next[n].false > n

\* Predicates for four jumps, two of them alike or none; for three, of any form.
Alike  == {Plain} \union {[Plain EXCEPT ![4] = Plain[i]] : i \in 1 .. 3}
Varied == {<<p, q, r>> : p \in Forms("a"), q \in Forms("b"), r \in Forms("c")}

\* Cyclic jumps have plain predicates.
Conditions ==
  {c \in (AllOfThree \union ForwardOfFour) \X (Alike \union Varied) :
     c[2] = Plain \/ (Len(c[1]) = Len(c[2]) /\ Forward(c[1]))}

MCPlans == {Labelled(c[1], c[2]) : c \in Conditions}

\* A condition of one jump or two, where an ordered comparison may hold neither way.
OrderedPlans ==
  {Labelled(<<g>>, <<Compare("lt", "a")>>) : g \in {j \in Jumps(2 .. 3) : Collected(<<j>>)}}
  \union {Labelled(g, <<Compare("lt", "a"), Load("b"), Load("c")>>) : g \in ForwardOfThree}
=============================================================================
