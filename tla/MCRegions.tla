----------------------------- MODULE MCRegions -----------------------------
(***************************************************************************)
(* Programs by their number of statements.                                 *)
(***************************************************************************)
EXTENDS RegionMeaning, StructuredSource

Statement(op, test, inner, orelse) == [op |-> op, test |-> test, body |-> inner, orelse |-> orelse]

Leaf(op) == Statement(op, "name", << >>, << >>)

\* The suites of n statements, nested at most `depth` deep, of the given compound
\* statements, tests and jumps.
RECURSIVE Suites(_, _, _, _), Compounds(_, _, _, _)
Suites(n, inLoop, depth, kind) ==
  LET leaves == {Leaf("simple")} \union {Leaf(op) : op \in IF inLoop THEN kind.jumps ELSE {}}
      first(k) == IF k = 1 THEN leaves ELSE Compounds(k, inLoop, depth, kind)
      goesOn(s) == s.op \notin {"break", "continue"}
  IN  {<<s>> : s \in first(n)}
        \union UNION {{<<s>> \o later : s \in {s \in first(k) : goesOn(s)},
                                        later \in Suites(n - k, inLoop, depth, kind)} : k \in 1 .. n - 1}

Compounds(n, inLoop, depth, kind) ==
  LET suites(k, within) == IF k = 0 THEN {<< >>} ELSE Suites(k, within, depth - 1, kind)
      split(op, tests, within) ==
        UNION {{Statement(op, test, inner, orelse) :
                  test \in tests, inner \in suites(k, within), orelse \in suites(n - 1 - k, inLoop)} :
               k \in 1 .. n - 1}
  IN  IF depth = 0 THEN {} ELSE
      split("if", kind.tests, inLoop)
        \union (IF "while" \in kind.loops THEN split("while", kind.tests, TRUE) ELSE {})
        \union (IF "for" \in kind.loops THEN split("for", {"name"}, TRUE) ELSE {})
        \union (IF "true" \in kind.loops
                THEN {Statement("true", "name", inner, << >>) : inner \in suites(n - 1, TRUE)} ELSE {})

RECURSIVE OwnJumps(_)
\* The jumps of a loop with the given body.
OwnJumps(suite) ==
  UNION {LET s == suite[k]
         IN  IF s.op \in {"break", "continue"} THEN {s.op}
             ELSE (IF s.op = "if" THEN OwnJumps(s.body) ELSE {}) \union OwnJumps(s.orelse) :
         k \in DOMAIN suite}

\* What the parser is known to get wrong: a while loop whose test follows that of the
\* statement around it, one that follows a loop (while True: any compound statement),
\* one that ends in a break (a break alone is right after a simple statement), or an
\* else suite that does (of a for loop: that ends in any jump); a for loop that ends in
\* a break and continues elsewhere, or that runs into a loop without end.
RECURSIVE Placed(_, _)
Placed(suite, outer) ==
  \A k \in DOMAIN suite :
    LET s == suite[k]
    IN  /\ s.op \in {"while", "true"} /\ k = 1 => outer = "true"
        /\ s.op = "while" /\ k > 1 => suite[k - 1].op # "true"
        /\ s.op = "true" /\ k > 1 => suite[k - 1].op = "simple"
        /\ s.op = "while" /\ Last(s.body).op = "break" =>
             s.body = <<Leaf("break")>> /\ s.orelse = << >> /\ k > 1 /\ suite[k - 1].op = "simple"
        /\ s.op = "true" => Head(s.body).op # "break"
        /\ s.orelse # << >> => Last(s.orelse).op \notin IF s.op = "for" THEN {"break", "continue"} ELSE {"break"}
        /\ s.op = "for" /\ "continue" \in OwnJumps(s.body) => Last(s.body).op # "break"
        /\ s.op = "for" => \A i \in DOMAIN s.body :
             s.body[i].op = "true" => "break" \in OwnJumps(s.body[i].body)
        /\ Placed(s.body, s.op) /\ Placed(s.orelse, "else")

AllTests  == [tests |-> {"name", "not", "and", "or"}, loops |-> {"while", "true", "for"}, jumps |-> {"break", "continue"}]
Loops     == [tests |-> {"name"}, loops |-> {"while", "true", "for"}, jumps |-> {"break", "continue"}]
Branches  == [tests |-> {"name", "not", "or"}, loops |-> {}, jumps |-> {}]

MCPrograms ==
  {s \in UNION {Suites(n, FALSE, 3, AllTests) : n \in 1 .. 4} \union Suites(5, FALSE, 3, Loops) :
     Placed(s, "true")}
  \union Suites(5, FALSE, 3, Branches)

\* An if statement around a loop and nothing else; loops that continue under a guard
\* and else break.
Misread ==
  {<<Statement("if", "name", <<Statement("while", "name", <<Leaf("simple")>>, << >>)>>, << >>)>>}
  \union {<<Statement(op, "name", <<Statement("if", "name", <<Leaf("continue")>>, << >>), Leaf("break")>>, << >>)>> :
            op \in {"while", "for"}}
=============================================================================
