------------------------------- MODULE Limits -------------------------------
(***************************************************************************)
(* Limits.check() of src/proctrace/testing/limits.py for the two resources *)
(* that are filtered before they are compared: descriptors and threads.    *)
(* Leaked paths and thread names are bags, functions from a name to how    *)
(* often it occurs; a pattern list is the set of names it matches.         *)
(***************************************************************************)
EXTENDS Integers, FiniteSetsExt

CONSTANTS
    AllowLeaked,      \* paths that a pattern of allow_leaked matches
    AllowThreads      \* names that a pattern of allow_threads matches

\* Bug: a difference may be negative.
Unclamped(n) == n

AtLeast0(n) == IF n < 0 THEN 0 ELSE n

\* How many occurrences of the names in S the bag holds.
CountOf(bag, S) == MapThenSumSet(LAMBDA x : bag[x], S \cap DOMAIN bag)
Size(bag) == CountOf(bag, DOMAIN bag)

EffectiveFdDelta(delta) ==
    AtLeast0(delta.fdDelta - CountOf(delta.leaked, AllowLeaked))

\* Bug: every new name is subtracted, allowed or not.
SubtractAllNew(delta) == AtLeast0(delta.threadDelta - Size(delta.newThreads))

EffectiveThreadDelta(delta) ==
    AtLeast0(delta.threadDelta - CountOf(delta.newThreads, AllowThreads))

\* The limits a delta exceeds.
Check(delta, maxFdDelta, maxThreads) ==
    {k \in {"fds", "threads"} :
        \/ k = "fds" /\ EffectiveFdDelta(delta) > maxFdDelta
        \/ k = "threads" /\ EffectiveThreadDelta(delta) > maxThreads}
=============================================================================
