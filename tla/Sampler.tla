------------------------------ MODULE Sampler -------------------------------
(***************************************************************************)
(* BackgroundSampler (src/src/sampler.rs): a controlling thread that       *)
(* starts, stops and drops a background worker, and the worker that parks, *)
(* takes snapshots, keeps the peak in two atomics and a bounded time       *)
(* series behind a mutex, decimated whenever it fills up.                  *)
(*                                                                         *)
(* Workers are numbered by the start() that spawned them, so that a worker *)
(* outliving its session is a state of the model and not excluded by it.   *)
(* The controller's methods take &mut self: no two of them overlap (a      *)
(* second caller waits for the GIL or, without one, gets a borrow error).  *)
(* The worker is no Python thread and interleaves with all of them at each *)
(* shared access.                                                          *)
(***************************************************************************)
EXTENDS Naturals, Sequences

CONSTANTS
    Cap,           \* capacity of the sample buffer
    Rss,           \* the resident set sizes a snapshot can report
    MaxStarts,     \* bound: calls of start()
    MinStep,       \* least clock advance between two readings: 0 or 1
    MaxStep,       \* bound: clock advance between two readings
    MaxClock       \* bound: elapsed time of one session

ASSUME CapAssumption == Cap \in Nat /\ Cap >= 2     \* cap.max(2)
ASSUME RssAssumption == Rss \subseteq Nat \ {0}     \* a live process has pages
ASSUME BoundAssumption ==
    /\ MaxStarts \in Nat /\ MaxClock \in Nat
    /\ MinStep \in Nat /\ MaxStep \in Nat

Gen == 1..MaxStarts
None == 0

VARIABLES
    \* shared between controller and worker (struct Shared, the park token)
    stop, peakRss, peakAt, samples, token,
    \* the controller: its pc, the handle it owns, the number of starts so far
    ctl, handle, starts,
    \* the workers' program counters and locals
    wpc, elapsed, rss, stride, ticks,
    \* ghost: every reading of the current session
    seen

sharedVars == <<stop, peakRss, peakAt, samples, token>>
ctlVars    == <<ctl, handle, starts>>
localVars  == <<elapsed, rss, stride, ticks>>
vars == <<sharedVars, ctlVars, wpc, localVars, seen>>

Sample == [t : Nat, rss : Rss]
LoopPc  == {"head", "parked", "recheck", "snap", "compare", "storeAt", "record"}
FinalPc == {"finalSnap", "finalCompare", "finalStoreAt", "finalRecord"}
LivePc  == LoopPc \cup FinalPc

Live(g) == wpc[g] \in LivePc

-----------------------------------------------------------------------------
(* The buffer.                                                             *)

\* Keep indices 0, 2, 4, ... of the vector.
Decimate(s) == [i \in 1..((Len(s) + 1) \div 2) |-> s[2 * i - 1]]

Advanced(t, s) == s = <<>> \/ t > s[Len(s)].t

FullTooLate(s) == Len(s) > Cap                       \* bug: > for >=
Full(s) == Len(s) >= Cap

\* Push under the lock: nothing when the clock stood still, and a buffer
\* that reaches its capacity is decimated before the lock is released.
Pushed(smp, s) ==
    LET longer == Append(s, smp)
    IN  IF ~Advanced(smp.t, s) THEN s
        ELSE IF Full(longer) THEN Decimate(longer) ELSE longer

-----------------------------------------------------------------------------
Init ==
    /\ stop = FALSE /\ peakRss = 0 /\ peakAt = 0 /\ samples = <<>>
    /\ token   = [g \in Gen |-> FALSE]
    /\ ctl = "idle" /\ handle = None /\ starts = 0
    /\ wpc     = [g \in Gen |-> "unborn"]
    /\ elapsed = [g \in Gen |-> 0]
    /\ rss     = [g \in Gen |-> 0]
    /\ stride  = [g \in Gen |-> 1]
    /\ ticks   = [g \in Gen |-> 0]
    /\ seen = {}

-----------------------------------------------------------------------------
(* The controller.                                                         *)

\* Bug: a failed snapshot is recorded as a default one.
BeginDefaulted ==
    LET g == starts + 1
    IN  /\ starts < MaxStarts
        /\ \E r \in Rss \cup {0} :
              /\ peakRss' = r
              /\ samples' = <<[t |-> 0, rss |-> r]>>
              /\ seen' = {[t |-> 0, rss |-> r]}
        /\ stop' = FALSE /\ peakAt' = 0
        /\ ctl' = "idle" /\ handle' = g /\ starts' = g
        /\ wpc' = [wpc EXCEPT ![g] = "head"]
        /\ UNCHANGED <<token, localVars>>

\* Bug: the peak's instant survives from the session before.
BeginStalePeakAt ==
    LET g == starts + 1
    IN  /\ starts < MaxStarts
        /\ peakRss' = 0 /\ samples' = <<>> /\ seen' = {}
        /\ stop' = FALSE
        /\ ctl' = "idle" /\ handle' = g /\ starts' = g
        /\ wpc' = [wpc EXCEPT ![g] = "head"]
        /\ UNCHANGED <<peakAt, token, localVars>>

\* Reset the session, take the baseline at t = 0 and spawn the worker.  No
\* worker is running here, so the resets need not be separate steps.
Begin ==
    LET g == starts + 1
    IN  /\ starts < MaxStarts
        /\ \/ \E r \in Rss :
                 /\ peakRss' = r
                 /\ samples' = <<[t |-> 0, rss |-> r]>>
                 /\ seen' = {[t |-> 0, rss |-> r]}
           \/ peakRss' = 0 /\ samples' = <<>> /\ seen' = {}  \* snapshot failed
        /\ stop' = FALSE /\ peakAt' = 0
        /\ ctl' = "idle" /\ handle' = g /\ starts' = g
        /\ wpc' = [wpc EXCEPT ![g] = "head"]
        /\ UNCHANGED <<token, localVars>>

\* Bug: the flag alone, no unpark.
RaiseStopOnly(waiting, done) ==
    /\ stop' = TRUE
    /\ ctl' = IF handle = None THEN done ELSE waiting
    /\ UNCHANGED <<peakRss, peakAt, samples, token, handle, starts, wpc, localVars, seen>>

\* stop(): raise the flag; with a worker, wake it and wait for it to end.
RaiseStop(waiting, done) ==
    /\ stop' = TRUE
    /\ IF handle = None
       THEN ctl' = done /\ UNCHANGED token
       ELSE ctl' = waiting /\ token' = [token EXCEPT ![handle] = TRUE]
    /\ UNCHANGED <<peakRss, peakAt, samples, handle, starts, wpc, localVars, seen>>

Start ==
    /\ ctl = "idle" /\ handle = None
    /\ Begin

\* Bug: the running worker is not joined.
RestartUnjoined == ctl = "idle" /\ handle # None /\ Begin

\* start() on a running sampler stops it first.
Restart ==
    /\ ctl = "idle" /\ handle # None /\ starts < MaxStarts
    /\ RaiseStop("joinStart", "idle")

Stop == ctl = "idle" /\ RaiseStop("joinStop", "idle")

Drop == ctl = "idle" /\ RaiseStop("joinDrop", "dropped")

Joined == handle # None /\ wpc[handle] = "done"

StopReturns ==
    /\ ctl = "joinStop" /\ Joined
    /\ ctl' = "idle" /\ handle' = None
    /\ UNCHANGED <<sharedVars, starts, wpc, localVars, seen>>

DropReturns ==
    /\ ctl = "joinDrop" /\ Joined
    /\ ctl' = "dropped" /\ handle' = None
    /\ UNCHANGED <<sharedVars, starts, wpc, localVars, seen>>

RestartJoined == ctl = "joinStart" /\ Joined /\ Begin

-----------------------------------------------------------------------------
(* The worker.                                                             *)

\* What worker g has read and is about to publish.
Reading(g) == [t |-> elapsed[g], rss |-> rss[g]]

Goto(g, from, to) == wpc[g] = from /\ wpc' = [wpc EXCEPT ![g] = to]

WhileHead(g) ==
    /\ Goto(g, "head", IF stop THEN "finalSnap" ELSE "parked")
    /\ UNCHANGED <<sharedVars, ctlVars, localVars, seen>>

\* unpark() leaves a token that ends a park already begun or the next one.
WokenByUnpark(g) ==
    /\ token[g]
    /\ Goto(g, "parked", "recheck")
    /\ token' = [token EXCEPT ![g] = FALSE]
    /\ UNCHANGED <<stop, peakRss, peakAt, samples, ctlVars, localVars, seen>>

ParkTimesOut(g) ==
    /\ ~token[g]
    /\ Goto(g, "parked", "recheck")
    /\ UNCHANGED <<sharedVars, ctlVars, localVars, seen>>

Recheck(g) ==
    /\ Goto(g, "recheck", IF stop THEN "finalSnap" ELSE "snap")
    /\ UNCHANGED <<sharedVars, ctlVars, localVars, seen>>

SnapshotFails(g) ==
    /\ Goto(g, "snap", "head") \/ Goto(g, "finalSnap", "done")
    /\ UNCHANGED <<sharedVars, ctlVars, localVars, seen>>

\* snapshot() succeeds, then the elapsed time is read.
Observe(g) ==
    \E r \in Rss, d \in MinStep..MaxStep :
       /\ Goto(g, "snap", "compare") \/ Goto(g, "finalSnap", "finalCompare")
       /\ elapsed[g] + d <= MaxClock
       /\ elapsed' = [elapsed EXCEPT ![g] = elapsed[g] + d]
       /\ rss' = [rss EXCEPT ![g] = r]
       /\ seen' = seen \cup {[t |-> elapsed[g] + d, rss |-> r]}
       /\ UNCHANGED <<sharedVars, ctlVars, stride, ticks>>

\* Bug: an equal reading replaces the peak.
StorePeakRssAgain(g) ==
    /\ IF rss[g] >= peakRss
       THEN /\ Goto(g, "compare", "storeAt") \/ Goto(g, "finalCompare", "finalStoreAt")
            /\ peakRss' = rss[g]
       ELSE /\ Goto(g, "compare", "record") \/ Goto(g, "finalCompare", "finalRecord")
            /\ UNCHANGED peakRss
    /\ UNCHANGED <<stop, peakAt, samples, token, ctlVars, localVars, seen>>

\* Bug: the final reading does not count for the peak.
StorePeakRssInLoop(g) ==
    /\ IF rss[g] > peakRss /\ wpc[g] = "compare"
       THEN Goto(g, "compare", "storeAt") /\ peakRss' = rss[g]
       ELSE /\ Goto(g, "compare", "record") \/ Goto(g, "finalCompare", "finalRecord")
            /\ UNCHANGED peakRss
    /\ UNCHANGED <<stop, peakAt, samples, token, ctlVars, localVars, seen>>

\* The first of two stores: a new peak's value.
StorePeakRss(g) ==
    /\ IF rss[g] > peakRss
       THEN /\ Goto(g, "compare", "storeAt") \/ Goto(g, "finalCompare", "finalStoreAt")
            /\ peakRss' = rss[g]
       ELSE /\ Goto(g, "compare", "record") \/ Goto(g, "finalCompare", "finalRecord")
            /\ UNCHANGED peakRss
    /\ UNCHANGED <<stop, peakAt, samples, token, ctlVars, localVars, seen>>

\* The second: the instant it was reached.
StorePeakAt(g) ==
    /\ Goto(g, "storeAt", "record") \/ Goto(g, "finalStoreAt", "finalRecord")
    /\ peakAt' = elapsed[g]
    /\ UNCHANGED <<stop, peakRss, samples, token, ctlVars, localVars, seen>>

\* Bug: a decimation leaves the stride as it was.
RecordSameStride(g) ==
    LET smp == Reading(g)
        due == ticks[g] + 1 >= stride[g]
    IN  /\ Goto(g, "record", "head")
        /\ ticks' = [ticks EXCEPT ![g] = IF due THEN 0 ELSE @ + 1]
        /\ samples' = IF due THEN Pushed(smp, samples) ELSE samples
        /\ UNCHANGED <<stop, peakRss, peakAt, token, ctlVars, elapsed, rss, stride, seen>>

\* Every stride-th reading goes to the buffer; a decimation doubles the stride.
Record(g) ==
    LET smp == Reading(g)
        due == ticks[g] + 1 >= stride[g]
        decimated == Advanced(smp.t, samples) /\ Full(Append(samples, smp))
    IN  /\ Goto(g, "record", "head")
        /\ ticks' = [ticks EXCEPT ![g] = IF due THEN 0 ELSE @ + 1]
        /\ samples' = IF due THEN Pushed(smp, samples) ELSE samples
        /\ stride' = [stride EXCEPT ![g] = IF due /\ decimated THEN 2 * @ ELSE @]
        /\ UNCHANGED <<stop, peakRss, peakAt, token, ctlVars, elapsed, rss, seen>>

\* The last reading is recorded whatever the stride.
FinalRecord(g) ==
    /\ Goto(g, "finalRecord", "done")
    /\ samples' = Pushed(Reading(g), samples)
    /\ UNCHANGED <<stop, peakRss, peakAt, token, ctlVars, localVars, seen>>

Worker(g) ==
    \/ WhileHead(g) \/ WokenByUnpark(g) \/ Recheck(g)
    \/ SnapshotFails(g) \/ Observe(g)
    \/ StorePeakRss(g) \/ StorePeakAt(g)
    \/ Record(g) \/ FinalRecord(g)

Next ==
    \/ Start \/ Restart \/ RestartJoined
    \/ Stop \/ StopReturns \/ Drop \/ DropReturns
    \/ \E g \in Gen : Worker(g) \/ ParkTimesOut(g)

Spec == Init /\ [][Next]_vars

\* The OS schedules a runnable worker and a joiner whose thread has ended.
\* Nothing is assumed of the park's timeout: the interval may be hours.
Fairness ==
    /\ \A g \in Gen : WF_vars(Worker(g))
    /\ WF_vars(StopReturns) /\ WF_vars(DropReturns) /\ WF_vars(RestartJoined)

FairSpec == Spec /\ Fairness

-----------------------------------------------------------------------------
(* Properties.                                                             *)

\* Every variable stays in its domain.
TypeOK ==
    /\ stop \in BOOLEAN /\ peakRss \in Nat /\ peakAt \in Nat
    /\ samples \in Seq(Sample)
    /\ token \in [Gen -> BOOLEAN]
    /\ ctl \in {"idle", "joinStart", "joinStop", "joinDrop", "dropped"}
    /\ handle \in Gen \cup {None} /\ starts \in 0..MaxStarts
    /\ wpc \in [Gen -> LivePc \cup {"unborn", "done"}]
    /\ elapsed \in [Gen -> Nat] /\ rss \in [Gen -> Rss \cup {0}]
    /\ stride \in [Gen -> Nat \ {0}] /\ ticks \in [Gen -> Nat]
    /\ seen \subseteq Sample

\* A worker runs only while the controller owns its handle: restarting or
\* dropping a running sampler leaves no second worker behind (start(),
\* stop() and drop() join before anything else).
OneWorker == \A g \in Gen : Live(g) => g = handle /\ ctl # "dropped"

\* The series handed to Python is strictly increasing in time, stays below
\* the capacity and holds readings of this session only, across any number
\* of decimations and restarts.
SamplesWellFormed ==
    /\ \A i, j \in 1..Len(samples) : i < j => samples[i].t < samples[j].t
    /\ Len(samples) < Cap
    /\ \A i \in 1..Len(samples) : samples[i] \in seen

\* The peak covers every sample a concurrent reader of the series can see.
PeakCoversSamples == \A i \in 1..Len(samples) : samples[i].rss <= peakRss

\* When the worker has ended the two atomics describe one reading: the
\* highest of the session, at the first instant it was reached, whether or
\* not the series kept that reading (stop() and peak_at_ns()).
PeakIsFirstMaximum ==
    (\A g \in Gen : ~Live(g)) =>
       IF seen = {} THEN peakRss = 0 /\ peakAt = 0
       ELSE /\ [t |-> peakAt, rss |-> peakRss] \in seen
            /\ \A o \in seen : o.rss <= peakRss /\ (o.rss = peakRss => o.t >= peakAt)

\* Decimation thins the series evenly, from the session's first sample on:
\* the baseline at t = 0 is never dropped, and while the worker loops,
\* consecutive samples are at most one and a half strides apart, although
\* each decimation may drop the newest sample and restart the stride from
\* it; the final decimation can at most double that.
GapBounded ==
    /\ samples # <<>> => \A o \in seen : o.t >= samples[1].t
    /\ \A g \in Gen : \A i \in 1..(Len(samples) - 1) :
          g = starts =>
             LET gap == samples[i + 1].t - samples[i].t
             IN  IF wpc[g] = "done" THEN gap <= 3 * stride[g] * MaxStep
                 ELSE 2 * gap <= 3 * stride[g] * MaxStep

\* stop(), drop() and a restart return: the unpark cannot be lost, however
\* long the sampling interval is.
JoinEnds == ctl \in {"joinStart", "joinStop", "joinDrop"} ~> ctl \in {"idle", "dropped"}

\* "Capture final sample upon stop if elapsed time has advanced": the sample
\* taken after the stop request is the last one of the series.
FinalSampleKept ==
    [][\A g \in Gen :
          wpc[g] = "finalRecord" /\ wpc'[g] = "done"
             => samples'[Len(samples')].t = elapsed[g]]_vars

\* The sampler is a PeakRecorder.  Between the two stores the abstract peak
\* already carries the instant the worker is about to publish.
Phase == IF handle # None /\ Live(handle) THEN "on" ELSE "off"
PeakAtNow ==
    IF handle # None /\ wpc[handle] \in {"storeAt", "finalStoreAt"}
    THEN elapsed[handle] ELSE peakAt

Recorder == INSTANCE PeakRecorder WITH
    phase <- Phase, peak <- [rss |-> peakRss, at |-> PeakAtNow]

\* Every step of the sampler is a step of PeakRecorder or leaves it alone.
RecordsPeak == Recorder!Spec
=============================================================================
