----------------------------- MODULE TracedQueue ----------------------------
(***************************************************************************)
(* TracedQueue (src/proctrace/ipc/channels.py) around a queue.Queue, and   *)
(* the IpcStats it feeds (src/src/ipc_probe.rs).                           *)
(*                                                                         *)
(* The wrapped queue is safe for any number of threads.  The wrapper keeps *)
(* the put times in a deque of its own and touches queue, clock, deque and *)
(* statistics one after the other without a lock, so that threads          *)
(* interleave between any two of them.  The extension also loads into the  *)
(* free-threaded interpreter (pyo3 0.29 no longer asks for the GIL), where *)
(* the compare-and-swap loop of record_depth() is contended as well.       *)
(*                                                                         *)
(* One unit of time is at most a microsecond: a negative difference stays  *)
(* negative when it is floored to microseconds.                            *)
(***************************************************************************)
EXTENDS Integers, Sequences

CONSTANTS
    Producers, Consumers,     \* threads that put, threads that get
    QueueSize,                \* maxsize of the wrapped queue
    Capacity,                 \* ring_capacity: of the deque and of the ring
    MaxPuts,                  \* bound: successful calls of put()
    MaxClock                  \* bound: readings of the clock

ASSUME QueueAssumption == QueueSize \in Nat \ {0} /\ Capacity \in Nat \ {0}
ASSUME BoundAssumption == MaxPuts \in Nat /\ MaxClock \in Nat

VARIABLES
    q,             \* the wrapped queue: items with the put time they carry
    times,         \* _put_times
    now,           \* time.monotonic_ns(): every reading is later than the last
    ppc, tPut,     \* producers: pc, t_put_ns,
    depth, cur,    \* depth and current of record_depth()
    cpc, item,     \* consumers: pc, the item dequeued,
    tGet,          \* t_get_ns
    ring, total,   \* IpcStats: latency_ring (with the true latency beside the
                   \* recorded one), total_messages
    peakDepth,     \* IpcStats: peak_depth
    puts,          \* items enqueued so far
    putId,         \* ghost: the item a producer has enqueued
    missed,        \* ghost: gets that found no put time
    overtaken,     \* ghost: an item was enqueued while one stamped earlier waited
    reordered,     \* ghost: a put time was appended before an earlier item's
    lost,          \* ghost: items dequeued by a get that then raised
    depths         \* ghost: the depths that puts have read

producerVars == <<ppc, tPut, depth, cur, putId>>
consumerVars == <<cpc, item, tGet>>
statVars     == <<ring, total, peakDepth>>
ghostVars    == <<missed, overtaken, reordered, lost, depths>>
vars == <<q, times, now, puts, producerVars, consumerVars, statVars, ghostVars>>

NoItem == [id |-> 0, t |-> 0]

BoundedTight(s) ==                                \* bug: two entries go, not one
    IF Len(s) > Capacity THEN Tail(Tail(s)) ELSE s
BoundedNever(s) == s                              \* bug: no maxlen

\* A deque(maxlen=Capacity) and a ring drop their oldest entry when full.
Bounded(s) == IF Len(s) > Capacity THEN Tail(s) ELSE s

Newest(s) == s[Len(s)]                            \* bug: pop() for popleft()
Oldest(s) == s[1]

Init ==
    /\ q = <<>> /\ times = <<>> /\ now = 0 /\ puts = 0
    /\ ppc = [p \in Producers |-> "idle"]
    /\ tPut = [p \in Producers |-> 0] /\ putId = [p \in Producers |-> 0]
    /\ depth = [p \in Producers |-> 0] /\ cur = [p \in Producers |-> 0]
    /\ cpc = [c \in Consumers |-> "idle"]
    /\ item = [c \in Consumers |-> NoItem] /\ tGet = [c \in Consumers |-> 0]
    /\ ring = <<>> /\ total = 0 /\ peakDepth = 0
    /\ missed = 0 /\ overtaken = FALSE /\ reordered = FALSE /\ lost = {} /\ depths = {}

-----------------------------------------------------------------------------
(* put() and put_nowait().                                                 *)

\* The locals die with the call.
PutReturns(p) ==
    /\ ppc' = [ppc EXCEPT ![p] = "idle"]
    /\ tPut' = [tPut EXCEPT ![p] = 0] /\ putId' = [putId EXCEPT ![p] = 0]
    /\ depth' = [depth EXCEPT ![p] = 0] /\ cur' = [cur EXCEPT ![p] = 0]

StampPut(p) ==
    /\ ppc[p] = "idle" /\ puts < MaxPuts /\ now < MaxClock
    /\ ppc' = [ppc EXCEPT ![p] = "enqueue"]
    /\ tPut' = [tPut EXCEPT ![p] = now]
    /\ now' = now + 1
    /\ UNCHANGED <<q, times, puts, depth, cur, putId, consumerVars, statVars, ghostVars>>

\* A full queue blocks the caller ...
Enqueue(p) ==
    /\ ppc[p] = "enqueue" /\ Len(q) < QueueSize /\ puts < MaxPuts
    /\ q' = Append(q, [id |-> puts + 1, t |-> tPut[p]])
    /\ puts' = puts + 1
    /\ putId' = [putId EXCEPT ![p] = puts + 1]
    /\ overtaken' = (overtaken \/ \E o \in Producers :
                        ppc[o] = "enqueue" /\ tPut[o] < tPut[p])
    /\ ppc' = [ppc EXCEPT ![p] = "append"]
    /\ UNCHANGED <<times, now, tPut, depth, cur, consumerVars, statVars,
                   missed, reordered, lost, depths>>

\* Bug: the put time is remembered although the put failed.
PutFullRemembered(p) ==
    /\ ppc[p] = "enqueue" /\ Len(q) = QueueSize
    /\ times' = Bounded(Append(times, tPut[p]))
    /\ PutReturns(p)
    /\ UNCHANGED <<q, now, puts, consumerVars, statVars, ghostVars>>

\* ... or raises queue.Full, at once or after the timeout.
PutFull(p) ==
    /\ ppc[p] = "enqueue" /\ Len(q) = QueueSize
    /\ PutReturns(p)
    /\ UNCHANGED <<q, times, now, puts, consumerVars, statVars, ghostVars>>

AppendTime(p) ==
    /\ ppc[p] = "append"
    /\ times' = Bounded(Append(times, tPut[p]))
    /\ reordered' = (reordered \/ \E o \in Producers :
                        ppc[o] = "append" /\ putId[o] < putId[p])
    /\ ppc' = [ppc EXCEPT ![p] = "qsize"]
    /\ UNCHANGED <<q, now, puts, tPut, depth, cur, putId, consumerVars, statVars,
                   missed, overtaken, lost, depths>>

\* qsize(), which multiprocessing queues may not implement, and the load of
\* the peak it is compared with.
ReadDepth(p) ==
    /\ ppc[p] = "qsize"
    /\ \/ /\ depth' = [depth EXCEPT ![p] = Len(q)]
          /\ depths' = depths \cup {Len(q)}
          /\ ppc' = [ppc EXCEPT ![p] = "load"]
          /\ UNCHANGED <<tPut, cur, putId>>
       \/ PutReturns(p) /\ UNCHANGED depths
    /\ UNCHANGED <<q, times, now, puts, consumerVars, statVars,
                   missed, overtaken, reordered, lost>>

LoadPeak(p) ==
    /\ ppc[p] = "load"
    /\ IF depth[p] > peakDepth
       THEN /\ cur' = [cur EXCEPT ![p] = peakDepth]
            /\ ppc' = [ppc EXCEPT ![p] = "cas"]
            /\ UNCHANGED <<tPut, depth, putId>>
       ELSE PutReturns(p)
    /\ UNCHANGED <<q, times, now, puts, consumerVars, statVars, ghostVars>>

\* Bug: a plain store after the comparison.
StoreDepth(p) ==
    /\ ppc[p] = "cas"
    /\ peakDepth' = depth[p] /\ PutReturns(p)
    /\ UNCHANGED <<q, times, now, puts, consumerVars, ring, total, ghostVars>>

\* The exchange fails when the peak has moved, and may fail spuriously.
CompareExchange(p) ==
    /\ ppc[p] = "cas"
    /\ \/ peakDepth = cur[p] /\ peakDepth' = depth[p] /\ PutReturns(p)
       \/ /\ ppc' = [ppc EXCEPT ![p] = "load"]
          /\ cur' = [cur EXCEPT ![p] = 0]
          /\ UNCHANGED <<peakDepth, tPut, depth, putId>>
    /\ UNCHANGED <<q, times, now, puts, consumerVars, ring, total, ghostVars>>

-----------------------------------------------------------------------------
(* get() and get_nowait().                                                 *)

GetReturns(c) ==
    /\ cpc' = [cpc EXCEPT ![c] = "idle"]
    /\ item' = [item EXCEPT ![c] = NoItem] /\ tGet' = [tGet EXCEPT ![c] = 0]

\* An empty queue blocks the caller or raises queue.Empty before anything
\* was changed.
Dequeue(c) ==
    /\ cpc[c] = "idle" /\ q # <<>>
    /\ item' = [item EXCEPT ![c] = q[1]]
    /\ q' = Tail(q)
    /\ cpc' = [cpc EXCEPT ![c] = "stamp"]
    /\ UNCHANGED <<times, now, puts, producerVars, tGet, statVars, ghostVars>>

StampGet(c) ==
    /\ cpc[c] = "stamp"
    /\ tGet' = [tGet EXCEPT ![c] = now]
    /\ now' = now + 1
    /\ cpc' = [cpc EXCEPT ![c] = "check"]
    /\ UNCHANGED <<q, times, puts, producerVars, item, statVars, ghostVars>>

Check(c) ==
    /\ cpc[c] = "check"
    /\ IF times = <<>>
       THEN GetReturns(c) /\ missed' = missed + 1
       ELSE /\ cpc' = [cpc EXCEPT ![c] = "popleft"]
            /\ UNCHANGED <<item, tGet, missed>>
    /\ UNCHANGED <<q, times, now, puts, producerVars, statVars,
                   overtaken, reordered, lost, depths>>

\* popleft() on a deque another consumer has emptied raises IndexError, and
\* record_latency_us() takes no negative number: either way get() raises
\* with the item in its hands.
Raises(c) ==
    /\ lost' = lost \cup {item[c].id}
    /\ UNCHANGED <<ring, total>>

Measure(c) ==
    /\ cpc[c] = "popleft"
    /\ GetReturns(c)
    /\ IF times = <<>>
       THEN Raises(c) /\ UNCHANGED times
       ELSE LET latency == tGet[c] - Oldest(times)
            IN  /\ times' = Tail(times)
                /\ IF latency < 0 THEN Raises(c)
                   ELSE /\ ring' = Bounded(Append(ring,
                                [us |-> latency, real |-> tGet[c] - item[c].t]))
                        /\ total' = total + 1
                        /\ UNCHANGED lost
    /\ UNCHANGED <<q, now, puts, producerVars, peakDepth,
                   missed, overtaken, reordered, depths>>

Next ==
    \/ \E p \in Producers :
          \/ StampPut(p) \/ Enqueue(p) \/ PutFull(p) \/ AppendTime(p)
          \/ ReadDepth(p) \/ LoadPeak(p) \/ CompareExchange(p)
    \/ \E c \in Consumers : Dequeue(c) \/ StampGet(c) \/ Check(c) \/ Measure(c)

Spec == Init /\ [][Next]_vars

-----------------------------------------------------------------------------
(* Properties.                                                             *)

\* Deque and ring never outgrow ring_capacity, peak_depth never exceeds the
\* size of the queue.
TypeOK ==
    /\ q \in Seq([id : 1..MaxPuts, t : Nat]) /\ Len(q) <= QueueSize
    /\ times \in Seq(Nat) /\ Len(times) <= Capacity
    /\ now \in Nat /\ puts \in 0..MaxPuts
    /\ ppc \in [Producers -> {"idle", "enqueue", "append", "qsize", "load", "cas"}]
    /\ tPut \in [Producers -> Nat] /\ putId \in [Producers -> 0..MaxPuts]
    /\ depth \in [Producers -> 0..QueueSize] /\ cur \in [Producers -> 0..QueueSize]
    /\ cpc \in [Consumers -> {"idle", "stamp", "check", "popleft"}]
    /\ item \in [Consumers -> [id : 0..MaxPuts, t : Nat]]
    /\ tGet \in [Consumers -> Nat]
    /\ ring \in Seq([us : Nat, real : Int]) /\ Len(ring) <= Capacity
    /\ total \in Nat /\ peakDepth \in 0..QueueSize
    /\ missed \in Nat /\ {overtaken, reordered} \subseteq BOOLEAN
    /\ lost \subseteq 1..MaxPuts
    /\ depths \subseteq 0..QueueSize

\* With one consumer and a queue smaller than the ring, the only way a get
\* can raise with an item in its hands is two producers whose put times went
\* into the deque in another order than their items went into the queue.
LostOnlyIfReordered == lost # {} => reordered

\* A recorded latency is never shorter than the item's own time in the
\* queue: a get that overtook the append of its put time leaves a stale time
\* behind, which can only be older, and an overflow of the deque drops only
\* stale times.  Items stamped in another order than they were enqueued are
\* excepted, for then the stale time may be the younger one.
NeverUnderestimates ==
    ~reordered /\ ~overtaken
       => \A i \in 1..Len(ring) : ring[i].us >= ring[i].real

\* As long as no get has overtaken an append either, every recorded latency
\* is the item's own; a failed put leaves no trace in the deque.
ExactUnlessMissed ==
    ~reordered /\ missed = 0 => \A i \in 1..Len(ring) : ring[i].us = ring[i].real

\* No depth is lost to a race of two producers on the peak: every depth read
\* is covered by the peak, or by a producer that has not finished recording.
PeakDepthCovers ==
    \A d \in depths :
       \/ d <= peakDepth
       \/ \E p \in Producers : ppc[p] \in {"load", "cas"} /\ depth[p] >= d
=============================================================================
