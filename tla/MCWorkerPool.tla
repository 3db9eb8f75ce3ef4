----------------------------- MODULE MCWorkerPool -----------------------------
(***************************************************************************)
(* Three threads and four items, two of which push another one.            *)
(***************************************************************************)
EXTENDS WorkerPool

CONSTANTS a, b, c, d

MCItems  == {a, b, c, d}
MCSpawns == [i \in MCItems |-> CASE i = a -> {b, c} [] i = c -> {d} [] OTHER -> {}]
=============================================================================
