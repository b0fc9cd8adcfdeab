----------------------------- MODULE MCProfiled -----------------------------
(***************************************************************************)
(* A small instance of Profiled for TLC.                                   *)
(***************************************************************************)
EXTENDS Profiled, TLC

MCRss == {1, 2}
MCCodes == {3}
MCTasks == {"t1", "t2"}          \* two tasks of one loop
MCPlain == {"main", "worker"}    \* the code around the loop; another thread
MCThreadOf == [c \in MCTasks \cup MCPlain |-> IF c = "worker" THEN "h2" ELSE "h1"]
MCSymmetry == Permutations(LoopTasks)
=============================================================================
