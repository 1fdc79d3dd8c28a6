---------------------------- MODULE MCBatchDriver ----------------------------
(***************************************************************************)
(* Batches of one to three inputs over two names, one of them given twice  *)
(* in some, every kind of failure at every place, and every combination of *)
(* files left by earlier runs.                                             *)
(***************************************************************************)
EXTENDS BatchDriver

CONSTANTS a, b

Kind(exists, pyc, writable, result, check) ==
  [exists |-> exists, pyc |-> pyc, writable |-> writable, result |-> result, check |-> check]

Kinds ==
  {Kind(FALSE, TRUE, TRUE, "ok", "valid")}
    \union {Kind(TRUE, pyc, FALSE, "ok", "valid") : pyc \in BOOLEAN}
    \union {Kind(TRUE, pyc, TRUE, "error", "valid") : pyc \in BOOLEAN}
    \union {Kind(TRUE, pyc, TRUE, "ok", check) :
              pyc \in BOOLEAN, check \in {"valid", "invalid", "skipped", "raises"}}

Named(name, kind) ==
  [name |-> name, exists |-> kind.exists, pyc |-> kind.pyc, writable |-> kind.writable,
   result |-> kind.result, check |-> kind.check]

Batches == UNION {{<<Named(a, k), Named(b, l)>>, <<Named(a, k), Named(b, l), Named(a, k)>>} :
                    k \in Kinds, l \in Kinds}
Singles == {<<Named(a, k)>> : k \in Kinds}

\* To a directory, to a file or to standard output, verified or not.
MCJobs ==
  [inputs : Batches \union Singles, mode : {"base", "stdout"}, verify : BOOLEAN]
    \union [inputs : Singles, mode : {"file"}, verify : BOOLEAN]

\* An input whose name does not end in .pyc, verified on its way
\* to standard output.
MCStdoutJobs ==
  [inputs : {<<Named(a, Kind(TRUE, FALSE, TRUE, "ok", check)),
               Named(b, Kind(TRUE, TRUE, TRUE, "ok", "valid"))>> : check \in {"valid", "skipped"}},
   mode : {"stdout"}, verify : {TRUE}]
=============================================================================
