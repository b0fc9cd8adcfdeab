------------------------------ MODULE Watcher -------------------------------
(***************************************************************************)
(* ResourceWatchers (src/proctrace/telemetry/watcher.py) in one process:   *)
(* each on a thread or task of its own, overlapping or nested, with a      *)
(* background sampler, the AllocationTracker of src/proctrace/alloc.py,    *)
(* whose tracemalloc is one switch for the whole process, and a verdict by *)
(* Limits.check() as assert_no_leaks() asks for it.                        *)
(*                                                                         *)
(* A sampler's snapshot opens /proc/self/fd for a moment on a thread that  *)
(* needs no GIL.  A list of descriptors always shows the directory it is   *)
(* read from, once before and once after, which cancels out; the directory *)
(* another thread holds open just then does not.  Nothing but watchers     *)
(* uses tracemalloc here; readings of memory, clocks, CPU and children     *)
(* are left out, and so is the interpreter without a GIL, where two lists  *)
(* could be made at once and show each other.                              *)
(***************************************************************************)
EXTENDS Limits, FiniteSets

CONSTANTS
    Watchers,
    Sampling,          \* watchers with a background sampler
    Tracing,           \* watchers with attribution="tracemalloc"
    Paths,             \* what the program's descriptors are open on
    Proc,              \* the target of a descriptor of /proc/self/fd
    Names,             \* names of the program's threads
    MaxCount,          \* bound: descriptors per path, threads per name
    MaxEvents          \* bound: opens, closes, thread starts and ends

ASSUME SetsAssumption ==
    /\ Sampling \subseteq Watchers /\ Tracing \subseteq Watchers
    /\ Proc \notin Paths
ASSUME FiniteAssumption ==       \* as in every run of a program
    IsFiniteSet(Watchers) /\ IsFiniteSet(Paths) /\ IsFiniteSet(Names)
ASSUME BoundAssumption == MaxCount \in Nat /\ MaxEvents \in Nat

VARIABLES
    open,              \* the program's descriptors, by path
    threads,           \* the program's threads, by name
    events,            \* opens, closes, starts and ends so far
    tracing,           \* tracemalloc.is_tracing()
    pc,                \* where each watcher is in __enter__ or __exit__
    sampler,           \* its sampler's thread: off, idle or in a snapshot
    fdsBefore,         \* _fds_before
    threadsBefore,     \* _threads_before
    wasTracing,        \* _was_tracing of its tracker
    fdsAfter,          \* fds_after
    threadsAfter,      \* threads_after_names
    raising,           \* its __exit__ has an exception to raise
    result,            \* result, and the verdict on it
    openBefore,        \* ghost: open when the first list was made,
    openAfter,         \* ghost: ... and when the second was
    outer,             \* ghost: the watchers that were running when it entered
    crossed            \* ghost: two watchers overlapped without being nested

programVars == <<open, threads, events>>
localVars   == <<fdsBefore, threadsBefore, wasTracing, fdsAfter, threadsAfter,
                 raising, result>>
ghostVars   == <<openBefore, openAfter, outer, crossed>>
vars == <<programVars, tracing, pc, sampler, localVars, ghostVars>>

FdPaths == Paths \cup {Proc}
Nothing == [x \in FdPaths |-> 0]
NoThreads == [n \in Names |-> 0]
NoResult ==
    [delta |-> [fdDelta |-> 0, leaked |-> Nothing,
                threadDelta |-> 0, newThreads |-> NoThreads],
     violations |-> {}]

\* done: the result is there.  failed: the exit raised, with everything put
\* back.  noEntry, noExit: __enter__ or __exit__ raised half way.
Ended == {"done", "failed", "noEntry", "noExit"}
Active == {w \in Watchers : pc[w] \notin Ended \cup {"new"}}

\* list_open_fds(): what the program and the samplers have open.
ListFds ==
    [x \in FdPaths |->
        IF x = Proc THEN Cardinality({w \in Watchers : sampler[w] = "snapshot"})
        ELSE open[x]]

Init ==
    /\ open = [x \in Paths |-> 0] /\ threads = NoThreads /\ events = 0
    /\ tracing = FALSE
    /\ pc = [w \in Watchers |-> "new"] /\ sampler = [w \in Watchers |-> "off"]
    /\ fdsBefore = [w \in Watchers |-> Nothing]
    /\ threadsBefore = [w \in Watchers |-> NoThreads]
    /\ wasTracing = [w \in Watchers |-> FALSE]
    /\ fdsAfter = [w \in Watchers |-> Nothing]
    /\ threadsAfter = [w \in Watchers |-> NoThreads]
    /\ raising = [w \in Watchers |-> FALSE]
    /\ result = [w \in Watchers |-> NoResult]
    /\ openBefore = [w \in Watchers |-> open] /\ openAfter = [w \in Watchers |-> open]
    /\ outer = [w \in Watchers |-> {}] /\ crossed = FALSE

Goto(w, from, to) == pc[w] = from /\ pc' = [pc EXCEPT ![w] = to]

-----------------------------------------------------------------------------
(* __enter__.                                                              *)

\* The snapshot and the list of descriptors.
Enter(w) ==
    /\ Goto(w, "new", "threadsBefore")
    /\ fdsBefore' = [fdsBefore EXCEPT ![w] = ListFds]
    /\ openBefore' = [openBefore EXCEPT ![w] = open]
    /\ outer' = [outer EXCEPT ![w] = Active]
    /\ crossed' = (crossed \/ \E o \in Active : pc[o] # "running")
    /\ UNCHANGED <<programVars, tracing, sampler, threadsBefore, wasTracing, fdsAfter,
                   threadsAfter, raising, result, openAfter>>

\* One of them raises: nothing is started.
EnterFails(w) ==
    /\ Goto(w, "new", "noEntry")
    /\ UNCHANGED <<programVars, tracing, sampler, localVars, ghostVars>>

ThreadsBefore(w) ==
    /\ Goto(w, "threadsBefore", "startSampler")
    /\ threadsBefore' = [threadsBefore EXCEPT ![w] = threads]
    /\ UNCHANGED <<programVars, tracing, sampler, fdsBefore, wasTracing, fdsAfter,
                   threadsAfter, raising, result, ghostVars>>

StartSampler(w) ==
    /\ Goto(w, "startSampler", IF w \in Tracing THEN "isTracing" ELSE "running")
    /\ sampler' = [sampler EXCEPT ![w] = IF w \in Sampling THEN "idle" ELSE "off"]
    /\ UNCHANGED <<programVars, tracing, localVars, ghostVars>>

\* AllocationTracker.start().
IsTracing(w) ==
    /\ Goto(w, "isTracing", "startTracing")
    /\ wasTracing' = [wasTracing EXCEPT ![w] = tracing]
    /\ UNCHANGED <<programVars, tracing, sampler, fdsBefore, threadsBefore, fdsAfter,
                   threadsAfter, raising, result, ghostVars>>

StartTracing(w) ==
    /\ Goto(w, "startTracing", "takeBefore")
    /\ tracing' = (tracing \/ ~wasTracing[w])
    /\ UNCHANGED <<programVars, sampler, localVars, ghostVars>>

\* take_snapshot() raises when someone has switched tracing off meanwhile.
\* A with statement whose __enter__ raises does not call __exit__.
TakeBefore(w) ==
    /\ Goto(w, "takeBefore", IF tracing THEN "running" ELSE "noEntry")
    /\ UNCHANGED <<programVars, tracing, sampler, localVars, ghostVars>>

-----------------------------------------------------------------------------
(* __exit__.                                                               *)

\* The snapshot at the head of __exit__ raises with nothing stopped yet, or
\* the list of descriptors does with tracemalloc still on.
ExitFails(w) ==
    /\ \E p \in {"running", "listAfter"} : Goto(w, p, "noExit")
    /\ UNCHANGED <<programVars, tracing, sampler, localVars, ghostVars>>

NoteCrossing(w) ==
    crossed' = (crossed \/ \E o \in Active \ {w} : o \notin outer[w])

\* Bug: the sampler's thread is told to stop but not joined.
ExitNoJoin(w) ==
    /\ Goto(w, "running", "listAfter")
    /\ sampler' = [sampler EXCEPT ![w] = IF @ = "snapshot" THEN @ ELSE "off"]
    /\ NoteCrossing(w)
    /\ UNCHANGED <<programVars, tracing, localVars, openBefore, openAfter, outer>>

\* The snapshot, and stop() of the sampler: it joins the thread, which takes
\* a final snapshot first.
Exit(w) ==
    /\ Goto(w, "running", "listAfter")
    /\ sampler' = [sampler EXCEPT ![w] = "off"]
    /\ NoteCrossing(w)
    /\ UNCHANGED <<programVars, tracing, localVars, openBefore, openAfter, outer>>

ListAfter(w) ==
    /\ Goto(w, "listAfter", "threadsAfter")
    /\ fdsAfter' = [fdsAfter EXCEPT ![w] = ListFds]
    /\ openAfter' = [openAfter EXCEPT ![w] = open]
    /\ UNCHANGED <<programVars, tracing, sampler, fdsBefore, threadsBefore, wasTracing,
                   threadsAfter, raising, result, openBefore, outer, crossed>>

ThreadsAfter(w) ==
    /\ Goto(w, "threadsAfter", IF w \in Tracing THEN "takeAfter" ELSE "report")
    /\ threadsAfter' = [threadsAfter EXCEPT ![w] = threads]
    /\ UNCHANGED <<programVars, tracing, sampler, fdsBefore, threadsBefore, wasTracing,
                   fdsAfter, raising, result, ghostVars>>

\* AllocationTracker.stop(): a snapshot, which may raise as the first one
\* may, and the switch that is put back whether it did or not.
TakeAfter(w) ==
    /\ Goto(w, "takeAfter", "stopTracing")
    /\ raising' = [raising EXCEPT ![w] = ~tracing]
    /\ UNCHANGED <<programVars, tracing, sampler, fdsBefore, threadsBefore, wasTracing,
                   fdsAfter, threadsAfter, result, ghostVars>>

\* Bug: tracemalloc is stopped even if it was on before.
StopTracingAlways(w) ==
    /\ Goto(w, "stopTracing", IF raising[w] THEN "failed" ELSE "report")
    /\ tracing' = FALSE
    /\ UNCHANGED <<programVars, sampler, localVars, ghostVars>>

\* Bug: the flag is read the wrong way round.
StopTracingInverted(w) ==
    /\ Goto(w, "stopTracing", IF raising[w] THEN "failed" ELSE "report")
    /\ tracing' = (tracing /\ ~wasTracing[w])
    /\ UNCHANGED <<programVars, sampler, localVars, ghostVars>>

StopTracing(w) ==
    /\ Goto(w, "stopTracing", IF raising[w] THEN "failed" ELSE "report")
    /\ tracing' = (tracing /\ wasTracing[w])
    /\ UNCHANGED <<programVars, sampler, localVars, ghostVars>>

\* Counter(fds_after) - Counter(_fds_before).
Leaked(after, before) == [x \in FdPaths |-> AtLeast0(after[x] - before[x])]

\* Bug: only the net difference, which a close of another path lowers.
NetDelta(after, before) == AtLeast0(Size(after) - Size(before))

\* max() of the difference and the leaks, and never negative.
FdDelta(after, before) ==
    LET raw == Size(after) - Size(before)
        leaks == Size(Leaked(after, before))
    IN  IF leaks > 0 /\ leaks > raw THEN leaks ELSE AtLeast0(raw)

NewThreads(after, before) ==
    [n \in Names |-> IF before[n] = 0 THEN after[n] ELSE 0]

\* The ResourceDelta, and what a limit of no leaked descriptor and no new
\* thread says to it.
Report(w) ==
    LET delta == [fdDelta     |-> FdDelta(fdsAfter[w], fdsBefore[w]),
                  leaked      |-> Leaked(fdsAfter[w], fdsBefore[w]),
                  threadDelta |-> Size(threadsAfter[w]) - Size(threadsBefore[w]),
                  newThreads  |-> NewThreads(threadsAfter[w], threadsBefore[w])]
    IN  /\ Goto(w, "report", "done")
        /\ result' = [result EXCEPT ![w] =
                         [delta |-> delta, violations |-> Check(delta, 0, 0)]]
        /\ UNCHANGED <<programVars, tracing, sampler, fdsBefore, threadsBefore,
                       wasTracing, fdsAfter, threadsAfter, raising, ghostVars>>

-----------------------------------------------------------------------------
(* The samplers and the program.                                           *)

Snapshot(w) ==
    /\ \/ sampler[w] = "idle" /\ sampler' = [sampler EXCEPT ![w] = "snapshot"]
       \/ sampler[w] = "snapshot" /\ sampler' = [sampler EXCEPT ![w] = "idle"]
    /\ UNCHANGED <<programVars, tracing, pc, localVars, ghostVars>>

\* A watcher nobody holds any more takes its sampler with it (Drop).
Collect(w) ==
    /\ pc[w] \in {"noEntry", "noExit"} /\ sampler[w] # "off"
    /\ sampler' = [sampler EXCEPT ![w] = "off"]
    /\ UNCHANGED <<programVars, tracing, pc, localVars, ghostVars>>

OpenOrClose(x) ==
    /\ events < MaxEvents
    /\ open' \in {[open EXCEPT ![x] = @ + 1], [open EXCEPT ![x] = @ - 1]}
    /\ open'[x] \in 0..MaxCount
    /\ events' = events + 1
    /\ UNCHANGED <<threads, tracing, pc, sampler, localVars, ghostVars>>

StartOrEnd(n) ==
    /\ events < MaxEvents
    /\ threads' \in {[threads EXCEPT ![n] = @ + 1], [threads EXCEPT ![n] = @ - 1]}
    /\ threads'[n] \in 0..MaxCount
    /\ events' = events + 1
    /\ UNCHANGED <<open, tracing, pc, sampler, localVars, ghostVars>>

Entering(w) ==
    \/ Enter(w) \/ EnterFails(w) \/ ThreadsBefore(w)
    \/ StartSampler(w) \/ IsTracing(w) \/ StartTracing(w) \/ TakeBefore(w)

Exiting(w) ==
    \/ Exit(w) \/ ExitFails(w) \/ ListAfter(w)
    \/ ThreadsAfter(w) \/ TakeAfter(w) \/ StopTracing(w) \/ Report(w)

Next ==
    \/ \E w \in Watchers : Entering(w) \/ Exiting(w) \/ Snapshot(w) \/ Collect(w)
    \/ \E x \in Paths : OpenOrClose(x)
    \/ \E n \in Names : StartOrEnd(n)

Spec == Init /\ [][Next]_vars

-----------------------------------------------------------------------------
(* Properties.                                                             *)

Steps == {"new", "threadsBefore", "startSampler", "isTracing", "startTracing",
          "takeBefore", "running", "listAfter", "threadsAfter", "takeAfter",
          "stopTracing", "report"} \cup Ended
FdBags == [FdPaths -> 0..(MaxCount + Cardinality(Watchers))]
NameBags == [Names -> 0..MaxCount]

\* The shape of the state; of a result: the delta of descriptors is never
\* negative, whatever was closed (max(0, ...) in __exit__), the delta of
\* threads may be.
TypeOK ==
    /\ open \in [Paths -> 0..MaxCount] /\ threads \in NameBags
    /\ events \in 0..MaxEvents
    /\ tracing \in BOOLEAN
    /\ pc \in [Watchers -> Steps]
    /\ sampler \in [Watchers -> {"off", "idle", "snapshot"}]
    /\ \A w \in Watchers :
        /\ {fdsBefore[w], fdsAfter[w]} \subseteq FdBags
        /\ {threadsBefore[w], threadsAfter[w]} \subseteq NameBags
        /\ {wasTracing[w], raising[w]} \subseteq BOOLEAN
        /\ result[w].delta.fdDelta \in Nat
        /\ result[w].delta.leaked \in FdBags
        /\ result[w].delta.threadDelta \in Int
        /\ result[w].delta.newThreads \in NameBags
        /\ result[w].violations \subseteq {"fds", "threads"}
        /\ {openBefore[w], openAfter[w]} \subseteq [Paths -> 0..MaxCount]
        /\ outer[w] \subseteq Watchers
    /\ crossed \in BOOLEAN

\* However watchers overlap, and whichever of them starts or stops
\* tracemalloc, it is off again when the last one has left, unless an
\* __exit__ raised before it came to its tracker (start() and stop() of
\* AllocationTracker: each keeps what it found).
TracingRestored ==
    (Active = {} /\ \A w \in Watchers : pc[w] # "noExit") => ~tracing

\* Watchers that are nested, each leaving before those it entered after, do
\* not take tracemalloc from each other: no snapshot of a tracker raises.
\* Of two that overlap otherwise the one that started tracemalloc stops it
\* under the other.
NestedSnapshotsSucceed ==
    ~crossed => \A w \in Watchers :
        /\ ~raising[w]
        /\ pc[w] = "takeBefore" => tracing

\* A verdict without leaked descriptors is right: no path outside
\* allow_leaked is open more often than it was at the entry, whatever was
\* closed meanwhile and whatever the samplers had open (the maximum of net
\* difference and leaks in __exit__, and check() of Limits).
LeakReported ==
    \A w \in Watchers :
        (pc[w] = "done" /\ "fds" \notin result[w].violations) =>
            \A x \in Paths \ AllowLeaked : openAfter[w][x] <= openBefore[w][x]

\* A verdict of leaked descriptors is right when no other watcher has a
\* sampler: some path is open more often than at the entry.  The watcher's
\* own sampler never shows in its lists, since it is started after the first
\* and joined before the second.
NoFalseAlarm ==
    \A w \in Watchers :
        (/\ pc[w] = "done" /\ "fds" \in result[w].violations
         /\ \A o \in Sampling \ {w} : pc[o] = "new") =>
            \E x \in Paths \ AllowLeaked : openAfter[w][x] > openBefore[w][x]

\* A verdict without new threads is right as long as no name has fewer
\* threads than at the entry: every new name is one allow_threads matches
\* (check() subtracts the allowed names from the net difference).
ThreadsReported ==
    \A w \in Watchers :
        (/\ pc[w] = "done" /\ "threads" \notin result[w].violations
         /\ \A n \in Names : threadsAfter[w][n] >= threadsBefore[w][n]) =>
            \A n \in Names \ AllowThreads :
                threadsBefore[w][n] = 0 => threadsAfter[w][n] = 0

\* What the docstring of __exit__ says, "clean up background resources": a
\* watcher whose __exit__ has run has no sampler thread any more.
CleansUp ==
    \A w \in Watchers :
        pc[w] \in {"done", "failed", "noExit"} => sampler[w] = "off"
=============================================================================
