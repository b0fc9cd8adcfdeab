---------------------------- MODULE Measurement -----------------------------
(***************************************************************************)
(* How ResourceWatcher.__exit__ (src/proctrace/telemetry/watcher.py) makes *)
(* the peak, its time and the timeline of a block from three sources that  *)
(* are read one after the other: the clock, a last snapshot, and a sampler *)
(* that goes on until it is stopped and counts its time from its own       *)
(* start.  The sampler is what PeakRecorder promises, with a series that   *)
(* holds some of its readings (Sampler decides which).                     *)
(***************************************************************************)
EXTENDS Integers, Sequences, FiniteSetsExt

CONSTANTS
    Sizes,                     \* resident sets
    MaxTime, MaxReadings       \* bounds: the clock; the sampler's readings

TL == INSTANCE Timeline

VARIABLES
    at,            \* where the watcher is
    sampled,       \* memory or timeline: there is a sampler
    now,
    enter_time, began, exit_time,
    sampler_peak, series,  \* the sampler's peak and its samples
    after,         \* snapshot_after
    result,        \* the peak, its time and the timeline of the delta
    observed       \* history: the sampler's readings

measureVars == <<at, sampled, now, enter_time, began, exit_time, sampler_peak, series, after, result, observed>>

NoTime == -2
NoResult == [peak |-> 0, at |-> NoTime, t |-> <<>>, rss |-> <<>>]

Init ==
    /\ at = "outside" /\ sampled \in BOOLEAN /\ now = 0
    /\ enter_time = 0 /\ began = 0 /\ exit_time = 0
    /\ sampler_peak = [rss |-> 0, t |-> 0] /\ series = <<>> /\ after = 0
    /\ result = NoResult /\ observed = {}

At(from, to) == at = from /\ at' = to

Tick ==
    /\ at # "done" /\ now < MaxTime /\ now' = now + 1
    /\ UNCHANGED <<at, sampled, enter_time, began, exit_time, sampler_peak, series, after, result, observed>>

EnterTime ==
    /\ At("outside", "entered") /\ enter_time' = now
    /\ UNCHANGED <<sampled, now, began, exit_time, sampler_peak, series, after, result, observed>>

\* The series after a reading: a later one is pushed, but the sampler skips
\* some once it has decimated, which leaves it thousands of samples.
Advanced(o) == series = <<>> \/ o.t > series[Len(series)].t
Pushed(o) ==
    (IF Advanced(o) THEN {Append(series, o)} ELSE {series}) \cup (IF Len(series) >= 2 THEN {series} ELSE {})

\* BackgroundSampler.start(), with its baseline unless that reading fails.
StartSampler ==
    /\ At("entered", "inside") /\ began' = now
    /\ \/ UNCHANGED <<sampler_peak, series, observed>>
       \/ /\ sampled
          /\ \E r \in Sizes : LET o == [rss |-> r, t |-> 0] IN
                sampler_peak' = o /\ series' = <<o>> /\ observed' = {o}
    /\ UNCHANGED <<sampled, now, enter_time, exit_time, after, result>>

\* A reading of the worker, up to the one it takes when told to stop.
Observe ==
    /\ sampled /\ at \in {"inside", "exit", "read"} /\ Cardinality(observed) < MaxReadings
    /\ \E r \in Sizes : LET o == [rss |-> r, t |-> now - began] IN
          /\ o \notin observed /\ observed' = observed \cup {o}
          /\ series' \in Pushed(o) /\ sampler_peak' = IF r > sampler_peak.rss THEN o ELSE sampler_peak
    /\ UNCHANGED <<at, sampled, now, enter_time, began, exit_time, after, result>>

ExitTime ==
    /\ At("inside", "exit") /\ exit_time' = now
    /\ UNCHANGED <<sampled, now, enter_time, began, sampler_peak, series, after, result, observed>>

ReadAfter ==
    /\ At("exit", "read") /\ after' \in Sizes
    /\ UNCHANGED <<sampled, now, enter_time, began, exit_time, sampler_peak, series, result, observed>>

Elapsed == exit_time - enter_time
PeakAtMs == IF sampler_peak.rss > 0 THEN sampler_peak.t ELSE NoTime

\* raw_samples: the series, with the last snapshot if it has one sample or none.
RawSamples ==
    LET last == IF series = <<>> THEN 0 ELSE series[Len(series)].t IN
    IF Len(series) < 2 /\ Elapsed > last
    THEN Append(series, [t |-> Elapsed, rss |-> after]) ELSE series

\* Timeline.from_samples()
FromSamples(s) == [t |-> [i \in DOMAIN s |-> s[i].t], rss |-> [i \in DOMAIN s |-> s[i].rss]]

\* Bug: the last snapshot also replaces a peak that it only equals.
AfterAlsoIfEqual == after >= sampler_peak.rss

AfterIsPeak == after > sampler_peak.rss

\* stop() returns; the rest of the computation.
Stop ==
    /\ At("read", "done")
    /\ LET line == FromSamples(IF sampled THEN RawSamples ELSE <<>>) IN
       result' = [peak |-> IF AfterIsPeak THEN after ELSE sampler_peak.rss,
                  at |-> IF AfterIsPeak THEN Elapsed ELSE PeakAtMs, t |-> line.t, rss |-> line.rss]
    /\ UNCHANGED <<sampled, now, enter_time, began, exit_time, sampler_peak, series, after, observed>>

Next == Tick \/ EnterTime \/ StartSampler \/ Observe \/ ExitTime \/ ReadAfter \/ Stop

(***************************************************************************)
(* The peak of a delta covers the last snapshot and all that the sampler   *)
(* read, also after the block had ended; its time is the first at which    *)
(* the sampler read it, or the end of the block when only the last         *)
(* snapshot was as high.  The timeline is in order, and if it shows the    *)
(* peak, it does so no earlier than that time (ResourceWatcher.__exit__).  *)
(***************************************************************************)
PeakConsistent ==
    at = "done" =>
        LET top == {o \in observed : o.rss = result.peak} IN
        /\ after <= result.peak /\ \A o \in observed : o.rss <= result.peak
        /\ IF top # {} THEN result.at = Min({o.t : o \in top})
                       ELSE result.peak = after /\ result.at = Elapsed
        /\ \A i, j \in DOMAIN result.t : i < j => result.t[i] < result.t[j]
        /\ result.rss # <<>> /\ TL!MaxRss(result) = result.peak => TL!PeakAt(result) >= result.at
=============================================================================
