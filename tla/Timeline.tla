------------------------------ MODULE Timeline ------------------------------
(***************************************************************************)
(* What src/proctrace/timeline.py derives from recorded columns.  A        *)
(* timeline is a record of sequences, which need not be equally long.      *)
(***************************************************************************)
EXTENDS Integers, Sequences, FiniteSetsExt

MaxRss(tl) == Max({tl.rss[i] : i \in DOMAIN tl.rss} \cup {0})

\* The first index of the highest reading.
PeakIndex(tl) ==
    CHOOSE i \in DOMAIN tl.rss :
        /\ tl.rss[i] = MaxRss(tl)
        /\ \A j \in 1..(i - 1) : tl.rss[j] < tl.rss[i]

\* peak_at_ms, with "or 0.0"; -1 stands for an IndexError.
PeakAt(tl) ==
    IF tl.rss = <<>> THEN 0
    ELSE IF PeakIndex(tl) > Len(tl.t) THEN -1 ELSE tl.t[PeakIndex(tl)]
=============================================================================
