---------------------------- MODULE MCTracedQueue ---------------------------
(***************************************************************************)
(* Small instances of TracedQueue for TLC.  Producers are interchangeable. *)
(***************************************************************************)
EXTENDS TracedQueue, TLC

CONSTANTS p1, p2, c1

MCProducers == {p1, p2}
MCConsumers == {c1}
Symmetry == Permutations(MCProducers)
=============================================================================
