----------------------------- MODULE MCSession ------------------------------
(***************************************************************************)
(* A small instance of Session for TLC.                                    *)
(***************************************************************************)
EXTENDS Session, TLC

CONSTANTS w1, w2, w3

MCFirst == {w1, w2}
MCSpares == {w3}

MCSmall == [fd |-> 0, peak |-> 100, ms |-> 100]
MCLarge == [fd |-> 1, peak |-> 130, ms |-> 105]     \* regresses in fd and peak
MCDeltas == {MCSmall, MCLarge}

MCTests == {"a", "b"}
MCSameName == [t \in MCTests |-> IF t = "b" THEN {"a"} ELSE {}]
MCMaxRuns == [t \in MCTests |-> IF t = "b" THEN 2 ELSE 1]
MCMaxPeak == [t \in MCTests |-> IF t = "b" THEN 120 ELSE 1000]

MCFile(ok, platform, x, y) ==
    [ok |-> ok, platform |-> platform, tests |-> [t \in MCTests |-> IF t = "a" THEN x ELSE y]]

\* A file that lacks a test; one made elsewhere; a torn one, read as if there
\* were none.
MCStarts ==
    {MCFile(TRUE, "here", MCSmall, NoEntry),
     MCFile(TRUE, "elsewhere", MCSmall, MCSmall),
     MCFile(FALSE, "here", NoEntry, NoEntry)}

Symmetry == Permutations(MCFirst)
=============================================================================
