---------------------------- MODULE PeakRecorder ----------------------------
(***************************************************************************)
(* What a memory sampler promises its caller about the peak, without the   *)
(* threads, the atomics and the buffer: a recording session starts from a  *)
(* baseline, the peak only ever rises, value and instant change together,  *)
(* and once the session is over the peak is frozen until the next one.     *)
(***************************************************************************)
EXTENDS Naturals

CONSTANT Rss                  \* the resident set sizes a snapshot can report

VARIABLES
    phase,                    \* "off" or "on": is a session recording?
    peak                      \* [rss, at]: highest reading, when first reached

vars == <<phase, peak>>

NoPeak == [rss |-> 0, at |-> 0]

Init == phase = "off" /\ peak = NoPeak

\* A new session starts from its baseline reading at instant 0, or from
\* nothing when that reading failed.
Begin ==
    /\ phase = "off"
    /\ phase' = "on"
    /\ \/ peak' = NoPeak
       \/ \E r \in Rss : peak' = [rss |-> r, at |-> 0]

\* A reading above the peak replaces the peak and its instant at once.
Raise ==
    /\ phase = "on"
    /\ peak' \in [rss : Rss, at : Nat]
    /\ peak'.rss > peak.rss
    /\ peak'.at >= peak.at
    /\ UNCHANGED phase

End ==
    /\ phase = "on"
    /\ phase' = "off"
    /\ UNCHANGED peak

Next == Begin \/ Raise \/ End

Spec == Init /\ [][Next]_vars
=============================================================================
