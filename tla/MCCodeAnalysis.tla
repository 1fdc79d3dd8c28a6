--------------------------- MODULE MCCodeAnalysis ---------------------------
(***************************************************************************)
(* Small code objects for CodeAnalysis: every sequence of three            *)
(* instructions of the shapes below, an inline cache behind the second,    *)
(* with jumps also into the cache and with no, one or a torn exception     *)
(* entry; every sequence of four without entries; generators; and nested   *)
(* entries.  Numbers of one, two and three bytes occur in the tables.      *)
(***************************************************************************)
EXTENDS CodeAnalysis

Op(kind, effect, jumpEffect, required, target) ==
  [kind |-> kind, effect |-> effect, jumpEffect |-> jumpEffect,
   required |-> required, target |-> target]

Push       == Op("plain", 1, 0, 0, 0)      \* LOAD_...
PopTop     == Op("plain", -1, 0, 1, 0)     \* POP_TOP, STORE_...
Return     == Op("stop", -1, 0, 1, 0)      \* RETURN_VALUE
Generator  == Op("generator", 0, 0, 0, 0)  \* RETURN_GENERATOR
JumpTo(t)  == Op("jump", 0, 0, 0, t)       \* JUMP_FORWARD, JUMP_BACKWARD
PopJump(t) == Op("branch", -1, -1, 1, t)   \* POP_JUMP_...
ForIter(t) == Op("branch", 1, -1, 1, t)    \* FOR_ITER
OrPop(t)   == Op("branch", -1, 0, 1, t)    \* JUMP_IF_..._OR_POP

Straight == {Push, PopTop, Return}
Jumps(targets) == UNION {{JumpTo(t), PopJump(t), ForIter(t)} : t \in targets}

\* The codes with these instructions and this table.
Codes(offset, length, bodies, written, table) ==
  LET decoded == Table!Decoded(table)
  IN  {[offset     |-> offset,
        length     |-> length,
        kind       |-> [i \in DOMAIN ops |-> ops[i].kind],
        target     |-> [i \in DOMAIN ops |-> ops[i].target],
        effect     |-> [i \in DOMAIN ops |-> ops[i].effect],
        jumpEffect |-> [i \in DOMAIN ops |-> ops[i].jumpEffect],
        required   |-> [i \in DOMAIN ops |-> ops[i].required],
        written    |-> written,
        table      |-> table,
        regions    |-> decoded] : ops \in bodies}

Whole(offset, length, bodies, written) ==
  Codes(offset, length, bodies, written, Table!Written(written))

\* The last byte of the table is lost.
Torn(offset, length, bodies, written) ==
  LET table == Table!Written(written)
  IN  Codes(offset, length, bodies, written, SubSeq(table, 1, Len(table) - 1))

Region(start, end, target, base, lasti) ==
  [start |-> start, end |-> end, target |-> target, depth |-> base, lasti |-> lasti]

\* Bodies of a try (depth 0) and cleanups (one value and the offset), on and
\* around the cache at 4 and the end of the code at 8.
Regions == {r \in {Region(s, e, t, d, d = 1) : s \in {0, 2, 4}, e \in {2, 4, 6, 8, 10},
                                               t \in {2, 4, 6, 8}, d \in {0, 1}} :
              /\ r.start < r.end
              /\ r.lasti => r.start = 2}

\* Code with a cache behind the second instruction.
Cached == <<0, 2, 6>>
Three(ops, regions) == UNION {Whole(Cached, 8, [1 .. 3 -> ops], <<r>>) : r \in regions}

WithoutEntries == Whole(Cached, 8, [1 .. 3 -> Straight \union Jumps({0, 4, 6}) \union {OrPop(6)}], <<>>)

WithEntry == Three(Straight \union {PopJump(6)}, Regions)

\* Depths and targets whose numbers take two and three bytes.
LongNumbers == Three({Push, Return}, {Region(0, 2, 6, d, l) : d \in {31, 32, 2100}, l \in BOOLEAN}
                                       \union {Region(0, 2, 600, 0, FALSE)})

TornTables == UNION {Torn(Cached, 8, {<<Push, Push, Return>>, <<Push, PopTop, Return>>}, w) :
                       w \in {<<Region(0, 2, 6, 0, FALSE)>>, <<Region(0, 2, 2, 40, TRUE)>>,
                              <<Region(0, 2, 6, 0, FALSE), Region(2, 6, 6, 0, FALSE)>>}}

Four == Whole(<<0, 2, 4, 6>>, 8,
              [1 .. 4 -> Straight \union {JumpTo(0), PopJump(6), ForIter(6)}], <<>>)

\* A generator with its POP_TOP, and entries that touch either.
Generators ==
  UNION {Whole(<<0, 2, 4, 6>>, 8,
               {<<Generator, PopTop, a, b>> : a, b \in Straight \union Jumps({0, 4, 6})}, w) :
           w \in {<<>>} \union {<<Region(s, 6, t, 0, FALSE)>> : s \in {0, 4}, t \in {2, 6}}}

\* try/except inside try/finally: two entries cover the first instruction.
Nested == Whole(<<0, 2, 4, 6, 8>>, 10,
                {<<Push, a, Return, b, Return>> : a \in Straight, b \in {Push, PopTop}},
                <<Region(0, 2, 4, 0, FALSE), Region(0, 4, 6, 0, FALSE)>>)

MCPrograms == WithoutEntries \union WithEntry \union LongNumbers \union TornTables
                \union Four \union Generators \union Nested

\* sorted(set(edges)).
MCListing == [S \in SUBSET Block |-> SelectSeq(<<0, 1, 2, 3, 4>>, LAMBDA b : b \in S)]
=============================================================================
