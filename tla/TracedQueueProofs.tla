-------------------------- MODULE TracedQueueProofs -------------------------
(***************************************************************************)
(* Proofs about TracedQueue.  For any number of producers and consumers,   *)
(* any queue and any ring: the types, and that no race of producers loses  *)
(* a depth (record_depth in src/src/ipc_probe.rs).  For one consumer and a *)
(* queue smaller than the ring: what get() loses and how far a recorded    *)
(* latency is right (channels.py).                                         *)
(***************************************************************************)
EXTENDS TracedQueue, SequenceTheorems, TLAPS

Items == [id : 1..MaxPuts, t : Nat]
Latencies == [us : Nat, real : Int]

\* A deque with a maxlen: what it is after an append.
LEMMA BoundedAppend ==
  ASSUME NEW S, NEW s \in Seq(S), NEW x \in S, Len(s) <= Capacity
  PROVE  /\ Bounded(Append(s, x)) \in Seq(S)
         /\ Len(Bounded(Append(s, x))) <= Capacity
<1>1. Append(s, x) \in Seq(S) /\ Len(Append(s, x)) = Len(s) + 1 /\ Append(s, x) # <<>>
  BY AppendProperties
<1>2. Len(s) \in Nat
  BY LenProperties
<1>3. Tail(Append(s, x)) \in Seq(S) /\ Len(Tail(Append(s, x))) = Len(Append(s, x)) - 1
  BY <1>1, HeadTailProperties
<1> QED BY <1>1, <1>2, <1>3, QueueAssumption DEF Bounded

\* ... and what is in it: what was, and what was appended.
LEMMA BoundedElements ==
  ASSUME NEW S, NEW s \in Seq(S), NEW x \in S, NEW i \in 1..Len(Bounded(Append(s, x)))
  PROVE  Bounded(Append(s, x))[i] = x \/ \E j \in 1..Len(s) : Bounded(Append(s, x))[i] = s[j]
<1>1. /\ Append(s, x) \in Seq(S) /\ Len(Append(s, x)) = Len(s) + 1 /\ Len(s) \in Nat
      /\ Append(s, x) # <<>> /\ \A j \in 1..Len(s) : Append(s, x)[j] = s[j]
      /\ Append(s, x)[Len(s) + 1] = x
  BY AppendProperties, LenProperties
<1>2. CASE Len(Append(s, x)) > Capacity
  <2>1. Bounded(Append(s, x)) = Tail(Append(s, x))
    BY <1>2 DEF Bounded
  <2>2. Len(Tail(Append(s, x))) = Len(s) /\ Tail(Append(s, x))[i] = Append(s, x)[i + 1]
    BY <1>1, <2>1, HeadTailProperties
  <2>3. i + 1 = Len(s) + 1 \/ i + 1 \in 1..Len(s)
    BY <1>1, <2>1, <2>2
  <2> QED BY <1>1, <2>1, <2>2, <2>3
<1>3. CASE ~(Len(Append(s, x)) > Capacity)
  <2>1. Bounded(Append(s, x)) = Append(s, x)
    BY <1>3 DEF Bounded
  <2> QED BY <1>1, <2>1
<1> QED BY <1>2, <1>3

\* What is taken off the front of a sequence.
LEMMA TakeFirst ==
  ASSUME NEW S, NEW s \in Seq(S), s # <<>>
  PROVE  s[1] \in S /\ Tail(s) \in Seq(S) /\ Len(Tail(s)) = Len(s) - 1 /\ Len(s) \in Nat \ {0}
<1>1. Len(s) \in Nat \ {0}
  BY EmptySeq, LenProperties
<1> QED BY <1>1, ElementOfSeq, HeadTailProperties

-----------------------------------------------------------------------------
\* A consumer in a call has an item in its hands.
Holding == \A c \in Consumers : cpc[c] # "idle" => item[c] \in Items

\* Nothing is in the queue, nobody in a call.
LEMMA TypeInit == Init => TypeOK /\ Holding
<1> SUFFICES ASSUME Init  PROVE TypeOK /\ Holding
  OBVIOUS
<1>1. q = <<>> /\ times = <<>> /\ ring = <<>>
  BY DEF Init
<1>2. /\ q \in Seq(Items) /\ times \in Seq(Nat) /\ ring \in Seq(Latencies)
      /\ Len(q) = 0 /\ Len(times) = 0 /\ Len(ring) = 0
  BY <1>1, EmptySeq
<1>3. 0 <= QueueSize /\ 0 <= Capacity /\ 0 \in 0..MaxPuts /\ 0 \in 0..QueueSize
  BY QueueAssumption, BoundAssumption
<1>4. /\ now \in Nat /\ puts \in 0..MaxPuts
      /\ ppc \in [Producers -> {"idle", "enqueue", "append", "qsize", "load", "cas"}]
      /\ tPut \in [Producers -> Nat] /\ putId \in [Producers -> 0..MaxPuts]
      /\ depth \in [Producers -> 0..QueueSize] /\ cur \in [Producers -> 0..QueueSize]
      /\ cpc \in [Consumers -> {"idle", "stamp", "check", "popleft"}]
      /\ tGet \in [Consumers -> Nat]
      /\ total \in Nat /\ peakDepth \in 0..QueueSize
      /\ missed \in Nat /\ {overtaken, reordered} \subseteq BOOLEAN
      /\ lost \subseteq 1..MaxPuts /\ depths \subseteq 0..QueueSize
  BY <1>3 DEF Init
<1>5. item \in [Consumers -> [id : 0..MaxPuts, t : Nat]]
  BY <1>3 DEF Init, NoItem
<1>6. Holding
  BY DEF Init, Holding
<1> QED BY <1>2, <1>3, <1>4, <1>5, <1>6 DEF TypeOK, Items, Latencies

\* The locals of a put that returns are reset.
LEMMA PutReturnsType ==
  ASSUME TypeOK, NEW p \in Producers, PutReturns(p)
  PROVE  /\ ppc' \in [Producers -> {"idle", "enqueue", "append", "qsize", "load", "cas"}]
         /\ tPut' \in [Producers -> Nat] /\ putId' \in [Producers -> 0..MaxPuts]
         /\ depth' \in [Producers -> 0..QueueSize] /\ cur' \in [Producers -> 0..QueueSize]
BY QueueAssumption, BoundAssumption DEF TypeOK, PutReturns

\* An item comes out of the queue, and is given up when the call is over.
LEMMA HoldingNext == TypeOK /\ Holding /\ [Next]_vars => Holding'
<1> SUFFICES ASSUME TypeOK, Holding, [Next]_vars  PROVE Holding'
  OBVIOUS
<1> USE DEF producerVars, consumerVars, statVars, ghostVars
<1>1. ASSUME NEW c \in Consumers, Dequeue(c)  PROVE Holding'
  <2>1. q[1] \in Items
    BY <1>1, TakeFirst DEF Dequeue, TypeOK, Items
  <2> QED BY <1>1, <2>1 DEF Dequeue, Holding, TypeOK
<1>2. ASSUME NEW c \in Consumers, StampGet(c)  PROVE Holding'
  BY <1>2 DEF StampGet, Holding, TypeOK
<1>3. ASSUME NEW c \in Consumers, Check(c)  PROVE Holding'
  <2>1. CASE times = <<>>
    BY <1>3, <2>1 DEF Check, GetReturns, Holding, TypeOK
  <2>2. CASE times # <<>>
    BY <1>3, <2>2 DEF Check, Holding, TypeOK
  <2> QED BY <2>1, <2>2
<1>4. ASSUME NEW c \in Consumers, Measure(c)  PROVE Holding'
  BY <1>4 DEF Measure, GetReturns, Holding, TypeOK
<1>5. ASSUME NEW p \in Producers,
             StampPut(p) \/ Enqueue(p) \/ PutFull(p) \/ AppendTime(p)
               \/ ReadDepth(p) \/ LoadPeak(p) \/ CompareExchange(p)
      PROVE  UNCHANGED <<cpc, item>>
  BY <1>5 DEF StampPut, Enqueue, PutFull, AppendTime, ReadDepth, LoadPeak, CompareExchange
<1>6. CASE UNCHANGED <<cpc, item>>
  BY <1>6 DEF Holding
<1>7. CASE UNCHANGED vars
  BY <1>6, <1>7 DEF vars
<1> QED BY <1>1, <1>2, <1>3, <1>4, <1>5, <1>6, <1>7 DEF Next

\* One step per action.
LEMMA TypeNext == TypeOK /\ Holding /\ [Next]_vars => TypeOK'
<1> SUFFICES ASSUME TypeOK, Holding, [Next]_vars  PROVE TypeOK'
  OBVIOUS
<1> USE QueueAssumption, BoundAssumption DEF producerVars, consumerVars, statVars, ghostVars
<1>0. /\ q \in Seq(Items) /\ Len(q) \in 0..QueueSize
      /\ times \in Seq(Nat) /\ Len(times) <= Capacity /\ ring \in Seq(Latencies) /\ Len(ring) <= Capacity
  BY LenProperties DEF TypeOK, Items, Latencies
<1>1. ASSUME NEW p \in Producers, StampPut(p)  PROVE TypeOK'
  BY <1>1 DEF StampPut, TypeOK
<1>2. ASSUME NEW p \in Producers, Enqueue(p)  PROVE TypeOK'
  <2>1. puts + 1 \in 1..MaxPuts
    BY <1>2 DEF Enqueue, TypeOK
  <2>2. [id |-> puts + 1, t |-> tPut[p]] \in Items
    BY <2>1 DEF Items, TypeOK
  <2>3. q' \in Seq(Items) /\ Len(q') <= QueueSize
    BY <1>0, <1>2, <2>2, AppendProperties DEF Enqueue
  <2>4. overtaken' \in BOOLEAN
    BY <1>2 DEF Enqueue, TypeOK
  <2> QED BY <1>2, <2>1, <2>3, <2>4 DEF Enqueue, TypeOK, Items
<1>3. ASSUME NEW p \in Producers, PutFull(p)  PROVE TypeOK'
  BY <1>3, PutReturnsType DEF PutFull, TypeOK
<1>4. ASSUME NEW p \in Producers, AppendTime(p)  PROVE TypeOK'
  <2>1. times' \in Seq(Nat) /\ Len(times') <= Capacity
    BY <1>0, <1>4, BoundedAppend DEF AppendTime, TypeOK
  <2>2. reordered' \in BOOLEAN
    BY <1>4 DEF AppendTime, TypeOK
  <2> QED BY <1>4, <2>1, <2>2 DEF AppendTime, TypeOK
<1>5. ASSUME NEW p \in Producers, ReadDepth(p)  PROVE TypeOK'
  <2>1. CASE PutReturns(p) /\ UNCHANGED depths
    BY <1>5, <2>1, PutReturnsType DEF ReadDepth, TypeOK
  <2>2. CASE /\ depth' = [depth EXCEPT ![p] = Len(q)] /\ depths' = depths \cup {Len(q)}
             /\ ppc' = [ppc EXCEPT ![p] = "load"] /\ UNCHANGED <<tPut, cur, putId>>
    BY <1>0, <1>5, <2>2 DEF ReadDepth, TypeOK
  <2> QED BY <1>5, <2>1, <2>2 DEF ReadDepth
<1>6. ASSUME NEW p \in Producers, LoadPeak(p)  PROVE TypeOK'
  <2>1. CASE depth[p] > peakDepth
    BY <1>6, <2>1 DEF LoadPeak, TypeOK
  <2>2. CASE ~(depth[p] > peakDepth)
    BY <1>6, <2>2, PutReturnsType DEF LoadPeak, TypeOK
  <2> QED BY <2>1, <2>2
<1>7. ASSUME NEW p \in Producers, CompareExchange(p)  PROVE TypeOK'
  <2>1. CASE peakDepth = cur[p] /\ peakDepth' = depth[p] /\ PutReturns(p)
    <3>1. peakDepth' \in 0..QueueSize
      BY <2>1 DEF TypeOK
    <3> QED BY <1>7, <2>1, <3>1, PutReturnsType DEF CompareExchange, TypeOK
  <2>2. CASE /\ ppc' = [ppc EXCEPT ![p] = "load"] /\ cur' = [cur EXCEPT ![p] = 0]
             /\ UNCHANGED <<peakDepth, tPut, depth, putId>>
    BY <1>7, <2>2 DEF CompareExchange, TypeOK
  <2> QED BY <1>7, <2>1, <2>2 DEF CompareExchange
<1>8. ASSUME NEW c \in Consumers, Dequeue(c)  PROVE TypeOK'
  <2>1. q[1] \in Items /\ q' \in Seq(Items) /\ Len(q') <= QueueSize
    BY <1>0, <1>8, TakeFirst DEF Dequeue
  <2>2. item' \in [Consumers -> [id : 0..MaxPuts, t : Nat]]
    BY <1>8, <2>1 DEF Dequeue, Items, TypeOK
  <2> QED BY <1>8, <2>1, <2>2 DEF Dequeue, TypeOK, Items
<1>9. ASSUME NEW c \in Consumers, StampGet(c)  PROVE TypeOK'
  BY <1>9 DEF StampGet, TypeOK
<1>10. ASSUME NEW c \in Consumers, Check(c)  PROVE TypeOK'
  <2>1. CASE times = <<>>
    <3>1. /\ cpc' \in [Consumers -> {"idle", "stamp", "check", "popleft"}]
          /\ item' \in [Consumers -> [id : 0..MaxPuts, t : Nat]] /\ tGet' \in [Consumers -> Nat]
      <4>1. NoItem \in [id : 0..MaxPuts, t : Nat]
        BY DEF NoItem
      <4>2. GetReturns(c)
        BY <1>10, <2>1 DEF Check
      <4> QED BY <4>1, <4>2 DEF GetReturns, TypeOK
    <3>2. missed' \in Nat
      BY <1>10, <2>1 DEF Check, TypeOK
    <3> QED BY <1>10, <2>1, <3>1, <3>2 DEF Check, TypeOK
  <2>2. CASE times # <<>>
    BY <1>10, <2>2 DEF Check, TypeOK
  <2> QED BY <2>1, <2>2
<1>11. ASSUME NEW c \in Consumers, Measure(c)  PROVE TypeOK'
  <2>1. /\ cpc' \in [Consumers -> {"idle", "stamp", "check", "popleft"}]
        /\ item' \in [Consumers -> [id : 0..MaxPuts, t : Nat]] /\ tGet' \in [Consumers -> Nat]
    BY <1>11 DEF Measure, GetReturns, NoItem, TypeOK
  <2>4. item[c].id \in 1..MaxPuts
    BY <1>11 DEF Measure, Holding, Items
  <2>2. CASE times = <<>>
    BY <1>11, <2>1, <2>2, <2>4 DEF Measure, Raises, TypeOK
  <2>3. CASE times # <<>>
    <3> DEFINE latency == tGet[c] - Oldest(times)
    <3>1. latency \in Int /\ times' \in Seq(Nat) /\ Len(times') <= Capacity
      <4>1. times' = Tail(times)
        BY <1>11, <2>3 DEF Measure
      <4>2. /\ times[1] \in Nat /\ Tail(times) \in Seq(Nat)
            /\ Len(Tail(times)) = Len(times) - 1 /\ Len(times) \in Nat
        BY <1>0, <2>3, TakeFirst
      <4>3. tGet[c] \in Nat
        BY DEF TypeOK
      <4> QED BY <1>0, <4>1, <4>2, <4>3 DEF Oldest
    <3>2. CASE latency < 0
      BY <1>11, <2>1, <2>3, <2>4, <3>1, <3>2 DEF Measure, Raises, TypeOK
    <3>3. CASE ~(latency < 0)
      <4>1. [us |-> latency, real |-> tGet[c] - item[c].t] \in Latencies
        BY <3>1, <3>3 DEF Latencies, TypeOK
      <4>2. ring' = Bounded(Append(ring, [us |-> latency, real |-> tGet[c] - item[c].t]))
        BY <1>11, <2>3, <3>3 DEF Measure
      <4>3. ring' \in Seq(Latencies) /\ Len(ring') <= Capacity
        BY <1>0, <4>1, <4>2, BoundedAppend
      <4>4. total' \in Nat /\ UNCHANGED lost
        BY <1>11, <2>3, <3>3 DEF Measure, TypeOK
      <4>5. UNCHANGED <<q, now, puts, producerVars, peakDepth, missed, overtaken, reordered, depths>>
        BY <1>11 DEF Measure
      <4> QED BY <2>1, <3>1, <4>3, <4>4, <4>5 DEF TypeOK, Latencies
    <3> QED BY <3>2, <3>3
  <2> QED BY <2>2, <2>3
<1>12. CASE UNCHANGED vars
  BY <1>12 DEF vars, TypeOK
<1> QED BY <1>1, <1>2, <1>3, <1>4, <1>5, <1>6, <1>7, <1>8, <1>9, <1>10, <1>11, <1>12 DEF Next

-----------------------------------------------------------------------------
(* Depths. *)

\* An exchange that succeeds raises the peak.
Rising == \A p \in Producers : ppc[p] = "cas" => depth[p] > cur[p]

\* A producer comes to the exchange by a comparison, and its locals stay.
LEMMA RisingNext == TypeOK /\ Rising /\ [Next]_vars => Rising'
<1> SUFFICES ASSUME TypeOK, Rising, [Next]_vars  PROVE Rising'
  OBVIOUS
<1> USE DEF producerVars, consumerVars, statVars, ghostVars
<1>1. ASSUME NEW p \in Producers, StampPut(p) \/ Enqueue(p) \/ AppendTime(p)  PROVE Rising'
  BY <1>1 DEF StampPut, Enqueue, AppendTime, Rising, TypeOK
<1>2. ASSUME NEW p \in Producers, PutFull(p)  PROVE Rising'
  BY <1>2 DEF PutFull, PutReturns, Rising, TypeOK
<1>3. ASSUME NEW p \in Producers, ReadDepth(p)  PROVE Rising'
  BY <1>3 DEF ReadDepth, PutReturns, Rising, TypeOK
<1>4. ASSUME NEW p \in Producers, LoadPeak(p)  PROVE Rising'
  <2>1. CASE depth[p] > peakDepth
    BY <1>4, <2>1 DEF LoadPeak, Rising, TypeOK
  <2>2. CASE ~(depth[p] > peakDepth)
    BY <1>4, <2>2 DEF LoadPeak, PutReturns, Rising, TypeOK
  <2> QED BY <2>1, <2>2
<1>5. ASSUME NEW p \in Producers, CompareExchange(p)  PROVE Rising'
  BY <1>5 DEF CompareExchange, PutReturns, Rising, TypeOK
<1>6. ASSUME NEW c \in Consumers, Dequeue(c) \/ StampGet(c) \/ Check(c) \/ Measure(c)
      PROVE  Rising'
  <2>1. UNCHANGED <<ppc, depth, cur>>
    BY <1>6 DEF Dequeue, StampGet, Check, Measure
  <2> QED BY <2>1 DEF Rising
<1>7. CASE UNCHANGED vars
  BY <1>7 DEF vars, Rising
<1> QED BY <1>1, <1>2, <1>3, <1>4, <1>5, <1>6, <1>7 DEF Next

\* The steps that neither read a depth nor end the recording of one.
LEMMA DepthQuiet ==
  ASSUME PeakDepthCovers, UNCHANGED <<depths, peakDepth>>,
         \A o \in Producers : ppc[o] \in {"load", "cas"} =>
            ppc'[o] \in {"load", "cas"} /\ depth'[o] = depth[o]
  PROVE  PeakDepthCovers'
BY DEF PeakDepthCovers

\* A producer stops recording when the peak has come to cover its depth.
LEMMA DepthNext == TypeOK /\ Rising /\ PeakDepthCovers /\ [Next]_vars => PeakDepthCovers'
<1> SUFFICES ASSUME TypeOK, Rising, PeakDepthCovers, [Next]_vars  PROVE PeakDepthCovers'
  OBVIOUS
<1> USE DEF producerVars, consumerVars, statVars, ghostVars
<1>0. /\ peakDepth \in Int /\ \A o \in Producers : depth[o] \in Int /\ cur[o] \in Int
      /\ \A d \in depths : d \in Int
  BY QueueAssumption DEF TypeOK
<1>1. ASSUME NEW p \in Producers, StampPut(p) \/ Enqueue(p) \/ AppendTime(p)  PROVE PeakDepthCovers'
  BY <1>1, DepthQuiet DEF StampPut, Enqueue, AppendTime, TypeOK
<1>2. ASSUME NEW p \in Producers, PutFull(p)  PROVE PeakDepthCovers'
  BY <1>2, DepthQuiet DEF PutFull, PutReturns, TypeOK
<1>3. ASSUME NEW p \in Producers, ReadDepth(p)  PROVE PeakDepthCovers'
  <2>1. CASE PutReturns(p) /\ UNCHANGED depths
    BY <1>3, <2>1, DepthQuiet DEF ReadDepth, PutReturns, TypeOK
  <2>2. CASE /\ depth' = [depth EXCEPT ![p] = Len(q)] /\ depths' = depths \cup {Len(q)}
             /\ ppc' = [ppc EXCEPT ![p] = "load"] /\ UNCHANGED <<tPut, cur, putId>>
    <3>1. /\ ppc[p] = "qsize" /\ peakDepth' = peakDepth /\ ppc'[p] = "load" /\ depth'[p] = Len(q)
          /\ \A o \in Producers \ {p} : ppc'[o] = ppc[o] /\ depth'[o] = depth[o]
      BY <1>3, <2>2 DEF ReadDepth, TypeOK
    <3>2. Len(q) \in Int
      BY LenProperties DEF TypeOK
    <3>3. Len(q) <= peakDepth' \/ \E o \in Producers : ppc'[o] \in {"load", "cas"} /\ depth'[o] >= Len(q)
      BY <3>1, <3>2
    <3>4. \A d \in depths : d <= peakDepth' \/ \E o \in Producers : ppc'[o] \in {"load", "cas"} /\ depth'[o] >= d
      BY <3>1 DEF PeakDepthCovers
    <3> QED BY <2>2, <3>3, <3>4 DEF PeakDepthCovers
  <2> QED BY <1>3, <2>1, <2>2 DEF ReadDepth
<1>4. ASSUME NEW p \in Producers, LoadPeak(p)  PROVE PeakDepthCovers'
  <2>1. CASE depth[p] > peakDepth
    BY <1>4, <2>1, DepthQuiet DEF LoadPeak, TypeOK
  <2>2. CASE ~(depth[p] > peakDepth)
    <3>1. /\ UNCHANGED <<depths, peakDepth>>
          /\ \A o \in Producers \ {p} : ppc'[o] = ppc[o] /\ depth'[o] = depth[o]
      BY <1>4, <2>2 DEF LoadPeak, PutReturns, TypeOK
    <3>2. \A d \in depths : d <= peakDepth \/ \E o \in Producers \ {p} : ppc[o] \in {"load", "cas"} /\ depth[o] >= d
      BY <1>0, <2>2 DEF PeakDepthCovers
    <3> QED BY <3>1, <3>2 DEF PeakDepthCovers
  <2> QED BY <2>1, <2>2
<1>5. ASSUME NEW p \in Producers, CompareExchange(p)  PROVE PeakDepthCovers'
  <2>1. CASE peakDepth = cur[p] /\ peakDepth' = depth[p] /\ PutReturns(p)
    <3>1. UNCHANGED depths /\ \A o \in Producers \ {p} : ppc'[o] = ppc[o] /\ depth'[o] = depth[o]
      BY <1>5, <2>1 DEF CompareExchange, PutReturns, TypeOK
    <3>2. peakDepth' > peakDepth
      BY <1>5, <2>1 DEF CompareExchange, Rising
    <3>3. \A d \in depths : d <= peakDepth' \/ \E o \in Producers \ {p} : ppc[o] \in {"load", "cas"} /\ depth[o] >= d
      BY <1>0, <2>1, <3>2 DEF PeakDepthCovers
    <3> QED BY <3>1, <3>3 DEF PeakDepthCovers
  <2>2. CASE /\ ppc' = [ppc EXCEPT ![p] = "load"] /\ cur' = [cur EXCEPT ![p] = 0]
             /\ UNCHANGED <<peakDepth, tPut, depth, putId>>
    BY <1>5, <2>2, DepthQuiet DEF CompareExchange, TypeOK
  <2> QED BY <1>5, <2>1, <2>2 DEF CompareExchange
<1>6. ASSUME NEW c \in Consumers, Dequeue(c) \/ StampGet(c) \/ Check(c) \/ Measure(c)
      PROVE  PeakDepthCovers'
  <2>1. UNCHANGED <<depths, peakDepth, ppc, depth>>
    BY <1>6 DEF Dequeue, StampGet, Check, Measure
  <2> QED BY <2>1, DepthQuiet
<1>7. CASE UNCHANGED vars
  BY <1>7, DepthQuiet DEF vars
<1> QED BY <1>1, <1>2, <1>3, <1>4, <1>5, <1>6, <1>7 DEF Next

-----------------------------------------------------------------------------
(* Times.  With one consumer, and put times appended in the order of their *)
(* items, the times in the deque are those of consecutive items.  stamp is *)
(* the put time of every item enqueued, appended counts the items whose    *)
(* time has been appended.                                                 *)

\* The items whose times a get has taken, or has found missing.
Served(c) == IF cpc[c] = "idle" THEN puts - Len(q) ELSE puts - Len(q) - 1

StampsOf(c, stamp, appended) ==
    /\ stamp \in [1..puts -> Nat] /\ appended \in 0..puts
    /\ \A j \in 1..puts : stamp[j] < now
    /\ \A p \in Producers : ppc[p] = "enqueue" => tPut[p] < now
    /\ ~overtaken =>
          /\ \A i, j \in 1..puts : i < j => stamp[i] <= stamp[j]
          /\ \A p \in Producers, j \in 1..puts : ppc[p] = "enqueue" => stamp[j] <= tPut[p]

ItemsOf(c, stamp) ==
    /\ Served(c) \in 0..puts
    /\ \A i \in 1..Len(q) : q[i].t = stamp[puts - Len(q) + i]
    /\ cpc[c] # "idle" => item[c].t = stamp[puts - Len(q)]
    /\ cpc[c] \in {"check", "popleft"} => \A j \in 1..(puts - Len(q)) : stamp[j] < tGet[c]

PendingOf(stamp, appended) ==
    /\ \A p \in Producers : ppc[p] = "append" =>
          putId[p] \in (appended + 1)..puts /\ tPut[p] = stamp[putId[p]]
    /\ \A p, o \in Producers : ppc[p] = "append" /\ ppc[o] = "append" /\ putId[p] = putId[o] => p = o
    /\ \A j \in (appended + 1)..puts : \E p \in Producers : ppc[p] = "append" /\ putId[p] = j

\* The deque ends with the last time appended and begins no later than with
\* the time the next get needs, with that one if none was missed.
TimesOf(c, stamp, appended) ==
    /\ Len(times) <= appended /\ appended - Len(times) <= Served(c)
    /\ \A i \in 1..Len(times) : times[i] = stamp[appended - Len(times) + i]
    /\ cpc[c] = "popleft" => times # <<>>
    /\ missed = 0 => appended - Len(times) = Served(c)

Matched(c, stamp, appended) ==
    /\ StampsOf(c, stamp, appended) /\ ItemsOf(c, stamp)
    /\ PendingOf(stamp, appended) /\ TimesOf(c, stamp, appended)

Recorded ==
    /\ lost = {}
    /\ ~overtaken => \A i \in 1..Len(ring) : ring[i].us >= ring[i].real
    /\ missed = 0 => \A i \in 1..Len(ring) : ring[i].us = ring[i].real

TimesInv(c) == ~reordered => Recorded /\ \E stamp, appended : Matched(c, stamp, appended)

\* Steps that move neither items nor times, of producers whose items are not
\* in the queue yet or whose times are in the deque.
LEMMA MatchedQuiet ==
  ASSUME TypeOK, NEW c, NEW stamp, NEW appended, Matched(c, stamp, appended),
         UNCHANGED <<q, times, puts, cpc, item, tGet, missed, overtaken>>, now' \in Nat, now' >= now,
         \A p \in Producers : /\ ppc'[p] = "append" <=> ppc[p] = "append"
                              /\ ppc[p] = "append" => putId'[p] = putId[p] /\ tPut'[p] = tPut[p],
         \A p \in Producers : ppc'[p] = "enqueue" => \/ ppc[p] = "enqueue" /\ tPut'[p] = tPut[p]
                                                     \/ tPut'[p] = now /\ now' > now
  PROVE  Matched(c, stamp, appended)'
<1>1. now \in Nat /\ \A j \in 1..puts : stamp[j] \in Nat
  BY DEF TypeOK, Matched, StampsOf
<1>2. StampsOf(c, stamp, appended)'
  <2>1. stamp \in [1..puts' -> Nat] /\ appended \in 0..puts'
    BY DEF Matched, StampsOf
  <2>2. \A j \in 1..puts' : stamp[j] < now /\ stamp[j] < now'
    BY <1>1 DEF Matched, StampsOf
  <2>3. \A p \in Producers : ppc'[p] = "enqueue" => tPut'[p] < now'
    <3> SUFFICES ASSUME NEW p \in Producers, ppc'[p] = "enqueue"  PROVE tPut'[p] < now'
      OBVIOUS
    <3>1. CASE ppc[p] = "enqueue" /\ tPut'[p] = tPut[p]
      <4>1. tPut[p] < now /\ tPut[p] \in Nat
        BY <3>1 DEF Matched, StampsOf, TypeOK
      <4> QED BY <1>1, <3>1, <4>1
    <3>2. CASE tPut'[p] = now /\ now' > now
      BY <1>1, <3>2
    <3> QED BY <3>1, <3>2
  <2>4. ~overtaken' => \A i, j \in 1..puts' : i < j => stamp[i] <= stamp[j]
    BY DEF Matched, StampsOf
  <2>5. ~overtaken' => \A p \in Producers, j \in 1..puts' : ppc'[p] = "enqueue" => stamp[j] <= tPut'[p]
    <3> SUFFICES ASSUME ~overtaken, NEW p \in Producers, NEW j \in 1..puts, ppc'[p] = "enqueue"
                 PROVE  stamp[j] <= tPut'[p]
      OBVIOUS
    <3>1. CASE ppc[p] = "enqueue" /\ tPut'[p] = tPut[p]
      BY <3>1 DEF Matched, StampsOf
    <3>2. CASE tPut'[p] = now /\ now' > now
      BY <1>1, <2>2, <3>2
    <3> QED BY <3>1, <3>2
  <2> QED BY <2>1, <2>2, <2>3, <2>4, <2>5 DEF StampsOf
<1>3. ItemsOf(c, stamp)'
  BY DEF Matched, ItemsOf, Served
<1>4. PendingOf(stamp, appended)'
  BY DEF Matched, PendingOf
<1>5. TimesOf(c, stamp, appended)'
  BY DEF Matched, TimesOf, Served
<1> QED BY <1>2, <1>3, <1>4, <1>5 DEF Matched

\* A get takes the oldest item.
LEMMA MatchedDequeue ==
  ASSUME TypeOK, NEW c \in Consumers, NEW stamp, NEW appended, Matched(c, stamp, appended), Dequeue(c)
  PROVE  Matched(c, stamp, appended)'
<1> USE DEF producerVars, consumerVars, statVars, ghostVars
<1>1. /\ q # <<>> /\ q' = Tail(q) /\ cpc[c] = "idle" /\ cpc'[c] = "stamp" /\ item'[c] = q[1]
      /\ UNCHANGED <<times, now, puts, ppc, tPut, putId, tGet, missed, overtaken>>
  BY DEF Dequeue, TypeOK
<1>2. q \in Seq(Items) /\ puts \in Nat
  BY BoundAssumption DEF TypeOK, Items
<1>3. Len(q) \in Nat \ {0} /\ Len(q') = Len(q) - 1 /\ \A i \in 1..Len(q') : q'[i] = q[i + 1]
  BY <1>1, <1>2, TakeFirst, HeadTailProperties
<1>4. Served(c)' = Served(c)
  BY <1>1, <1>2, <1>3 DEF Served
<1>5. ItemsOf(c, stamp)'
  <2>1. item'[c].t = stamp[puts - Len(q) + 1]
    BY <1>1, <1>3 DEF Matched, ItemsOf
  <2>2. \A i \in 1..Len(q') : q'[i].t = stamp[puts' - Len(q') + i]
    <3> SUFFICES ASSUME NEW i \in 1..Len(q')  PROVE q'[i].t = stamp[puts' - Len(q') + i]
      OBVIOUS
    <3>1. i + 1 \in 1..Len(q) /\ q'[i] = q[i + 1] /\ puts' - Len(q') + i = puts - Len(q) + (i + 1)
      BY <1>1, <1>2, <1>3
    <3> QED BY <3>1 DEF Matched, ItemsOf
  <2>3. puts' - Len(q') = puts - Len(q) + 1
    BY <1>1, <1>2, <1>3
  <2> QED BY <1>1, <1>4, <2>1, <2>2, <2>3 DEF Matched, ItemsOf
<1>6. StampsOf(c, stamp, appended)'
  BY <1>1 DEF Matched, StampsOf
<1>7. PendingOf(stamp, appended)'
  BY <1>1 DEF Matched, PendingOf
<1>8. TimesOf(c, stamp, appended)'
  BY <1>1, <1>4 DEF Matched, TimesOf
<1> QED BY <1>5, <1>6, <1>7, <1>8 DEF Matched

\* The clock is read after every item enqueued was stamped.
LEMMA MatchedStampGet ==
  ASSUME TypeOK, NEW c \in Consumers, NEW stamp, NEW appended, Matched(c, stamp, appended), StampGet(c)
  PROVE  Matched(c, stamp, appended)'
<1> USE DEF producerVars, consumerVars, statVars, ghostVars
<1>1. /\ cpc[c] = "stamp" /\ cpc'[c] = "check" /\ tGet'[c] = now /\ now' = now + 1 /\ now \in Nat
      /\ UNCHANGED <<q, times, puts, ppc, tPut, putId, item, missed, overtaken>>
  BY DEF StampGet, TypeOK
<1>2. Served(c)' = Served(c)
  BY <1>1 DEF Served
<1>3. puts \in Nat /\ Len(q) \in Nat
  BY BoundAssumption, LenProperties DEF TypeOK
<1>4. ItemsOf(c, stamp)'
  <2>1. \A j \in 1..(puts - Len(q)) : stamp[j] < now
    <3>1. \A j \in 1..(puts - Len(q)) : j \in 1..puts
      BY <1>3
    <3> QED BY <3>1 DEF Matched, StampsOf
  <2> QED BY <1>1, <1>2, <2>1 DEF Matched, ItemsOf
<1>5. StampsOf(c, stamp, appended)'
  <2>1. \A j \in 1..puts : stamp[j] \in Nat
    BY DEF Matched, StampsOf
  <2> QED BY <1>1, <2>1 DEF Matched, StampsOf, TypeOK
<1>6. PendingOf(stamp, appended)'
  BY <1>1 DEF Matched, PendingOf
<1>7. TimesOf(c, stamp, appended)'
  BY <1>1, <1>2 DEF Matched, TimesOf
<1> QED BY <1>4, <1>5, <1>6, <1>7 DEF Matched

\* A get that finds no time leaves its item's to come.
LEMMA MatchedCheck ==
  ASSUME TypeOK, NEW c \in Consumers, NEW stamp, NEW appended, Matched(c, stamp, appended), Check(c)
  PROVE  Matched(c, stamp, appended)'
<1> USE DEF producerVars, consumerVars, statVars, ghostVars
<1>1. /\ cpc[c] = "check" /\ UNCHANGED <<q, times, now, puts, ppc, tPut, putId, overtaken>>
  BY DEF Check
<1>2. puts \in Nat /\ Len(q) \in Nat /\ missed \in Nat /\ appended \in 0..puts
  BY BoundAssumption, LenProperties DEF TypeOK, Matched, StampsOf
<1>3. Served(c) = puts - Len(q) - 1
  BY <1>1 DEF Served
<1>4. StampsOf(c, stamp, appended)' /\ PendingOf(stamp, appended)'
  BY <1>1 DEF Matched, StampsOf, PendingOf
<1>5. CASE times = <<>>
  <2>1. cpc'[c] = "idle" /\ missed' = missed + 1
    BY <1>1, <1>5 DEF Check, GetReturns, TypeOK
  <2>2. Served(c)' = Served(c) + 1
    BY <1>1, <1>2, <1>3, <2>1 DEF Served
  <2>3. ItemsOf(c, stamp)'
    BY <1>1, <1>2, <1>3, <2>1, <2>2 DEF Matched, ItemsOf
  <2>4. TimesOf(c, stamp, appended)'
    <3>1. Len(times) = 0
      BY <1>5, EmptySeq
    <3>2. appended - Len(times) <= Served(c)
      BY DEF Matched, TimesOf
    <3> QED BY <1>1, <1>2, <1>3, <2>1, <2>2, <3>1, <3>2 DEF Matched, TimesOf
  <2> QED BY <1>4, <2>3, <2>4 DEF Matched
<1>6. CASE times # <<>>
  <2>1. cpc'[c] = "popleft" /\ UNCHANGED <<item, tGet, missed>>
    BY <1>1, <1>6 DEF Check, TypeOK
  <2>2. Served(c)' = Served(c)
    BY <1>1, <2>1 DEF Served
  <2>3. ItemsOf(c, stamp)'
    BY <1>1, <2>1, <2>2 DEF Matched, ItemsOf
  <2>4. TimesOf(c, stamp, appended)'
    BY <1>1, <1>6, <2>1, <2>2 DEF Matched, TimesOf
  <2> QED BY <1>4, <2>3, <2>4 DEF Matched
<1> QED BY <1>5, <1>6

\* The time a get takes is that of its item or of an earlier one.
LEMMA MatchedMeasure ==
  ASSUME TypeOK, NEW c \in Consumers, NEW stamp, NEW appended, Matched(c, stamp, appended), Measure(c)
  PROVE  /\ Matched(c, stamp, appended)'
         /\ Recorded => Recorded'
<1> USE DEF producerVars, consumerVars, statVars, ghostVars
<1>1. /\ cpc[c] = "popleft" /\ cpc'[c] = "idle" /\ times # <<>> /\ times' = Tail(times)
      /\ UNCHANGED <<q, now, puts, ppc, tPut, putId, missed, overtaken>>
  BY DEF Measure, GetReturns, TypeOK, Matched, TimesOf
<1>2. puts \in Nat /\ Len(q) \in Nat /\ missed \in Nat /\ appended \in Nat /\ appended <= puts
  BY BoundAssumption, LenProperties DEF TypeOK, Matched, StampsOf
<1>3. Served(c) = puts - Len(q) - 1 /\ Served(c)' = puts - Len(q)
  BY <1>1 DEF Served
<1>4. Len(times) \in Nat \ {0} /\ Len(times') = Len(times) - 1 /\ \A i \in 1..Len(times') : times'[i] = times[i + 1]
  <2>1. times \in Seq(Nat)
    BY DEF TypeOK
  <2> QED BY <1>1, <2>1, TakeFirst, HeadTailProperties
<1>5. Served(c) \in Nat /\ appended - Len(times) <= Served(c) /\ appended - Len(times) \in Nat
  BY <1>2, <1>4 DEF Matched, ItemsOf, TimesOf
<1>6. StampsOf(c, stamp, appended)' /\ PendingOf(stamp, appended)'
  BY <1>1 DEF Matched, StampsOf, PendingOf
<1>7. ItemsOf(c, stamp)'
  BY <1>1, <1>2, <1>3, <1>5 DEF Matched, ItemsOf
<1>8. TimesOf(c, stamp, appended)'
  <2>1. \A i \in 1..Len(times') : times'[i] = stamp[appended - Len(times') + i]
    <3> SUFFICES ASSUME NEW i \in 1..Len(times')  PROVE times'[i] = stamp[appended - Len(times') + i]
      OBVIOUS
    <3>1. i + 1 \in 1..Len(times) /\ times'[i] = times[i + 1]
      BY <1>4
    <3>2. times[i + 1] = stamp[appended - Len(times) + (i + 1)]
      BY <3>1 DEF Matched, TimesOf
    <3>3. appended - Len(times) + (i + 1) = appended - Len(times') + i
      BY <1>2, <1>4
    <3> QED BY <3>1, <3>2, <3>3
  <2>2. appended - Len(times') = appended - Len(times) + 1 /\ Len(times') <= appended
    BY <1>2, <1>4, <1>5
  <2>3. missed' = 0 => appended - Len(times') = Served(c)'
    BY <1>1, <1>2, <1>3, <2>2 DEF Matched, TimesOf
  <2>4. appended - Len(times') <= Served(c)'
    BY <1>2, <1>3, <1>4, <1>5, <2>2
  <2>5. cpc'[c] # "popleft"
    BY <1>1
  <2> QED BY <2>1, <2>2, <2>3, <2>4, <2>5 DEF TimesOf
<1>9. ASSUME Recorded  PROVE Recorded'
  <2> DEFINE n == appended - Len(times) + 1
             latency == tGet[c] - times[1]
             entry == [us |-> latency, real |-> tGet[c] - item[c].t]
  <2>1. n \in 1..(puts - Len(q)) /\ times[1] = stamp[n] /\ puts - Len(q) \in 1..puts /\ n \in 1..puts
    BY <1>2, <1>3, <1>4, <1>5 DEF Matched, TimesOf
  <2>2. item[c].t = stamp[puts - Len(q)] /\ stamp[n] < tGet[c]
    BY <1>1, <2>1 DEF Matched, ItemsOf
  <2>3. stamp[n] \in Nat /\ stamp[puts - Len(q)] \in Nat /\ tGet[c] \in Nat
    BY <2>1 DEF Matched, StampsOf, TypeOK
  <2>4. ~overtaken => stamp[n] <= stamp[puts - Len(q)]
    BY <2>1, <2>3 DEF Matched, StampsOf
  <2>5. missed = 0 => n = puts - Len(q)
    BY <1>2, <1>3 DEF Matched, TimesOf
  <2>6. ~(latency < 0)
    BY <2>1, <2>2, <2>3
  <2>7. lost' = lost /\ ring' = Bounded(Append(ring, entry))
    BY <1>1, <2>6 DEF Measure, Oldest
  <2>8. entry.us = latency /\ entry.real = tGet[c] - item[c].t
    OBVIOUS
  <2>9. ~overtaken => entry.us >= entry.real
    BY <2>1, <2>2, <2>3, <2>4, <2>8
  <2>10. missed = 0 => entry.us = entry.real
    BY <2>1, <2>2, <2>3, <2>5, <2>8
  <2>11. \A i \in 1..Len(ring') : ring'[i] = entry \/ \E j \in 1..Len(ring) : ring'[i] = ring[j]
    <3>1. ring \in Seq(Latencies)
      BY DEF TypeOK, Latencies
    <3>2. latency \in Nat /\ tGet[c] - item[c].t \in Int
      BY <2>1, <2>2, <2>3, <2>6
    <3>3. entry \in Latencies
      BY <3>2 DEF Latencies
    <3> HIDE DEF entry
    <3> QED BY <2>7, <3>1, <3>3, BoundedElements
  <2> HIDE DEF entry
  <2> QED BY <1>1, <1>9, <2>7, <2>9, <2>10, <2>11 DEF Recorded
<1> QED BY <1>6, <1>7, <1>8, <1>9 DEF Matched

\* An item that is enqueued is the last one, stamped last unless another
\* producer is being overtaken.
LEMMA MatchedEnqueue ==
  ASSUME TypeOK, NEW c \in Consumers, NEW stamp, NEW appended, Matched(c, stamp, appended),
         NEW p \in Producers, Enqueue(p), NEW longer,
         longer = [j \in 1..(puts + 1) |-> IF j \in 1..puts THEN stamp[j] ELSE tPut[p]]
  PROVE  Matched(c, longer, appended)'
<1> USE DEF producerVars, consumerVars, statVars, ghostVars
<1>1. /\ ppc[p] = "enqueue" /\ puts' = puts + 1 /\ q' = Append(q, [id |-> puts + 1, t |-> tPut[p]])
      /\ ppc' = [ppc EXCEPT ![p] = "append"] /\ putId' = [putId EXCEPT ![p] = puts + 1]
      /\ overtaken' = (overtaken \/ \E o \in Producers : ppc[o] = "enqueue" /\ tPut[o] < tPut[p])
      /\ UNCHANGED <<times, now, tPut, cpc, item, tGet, missed>>
  BY DEF Enqueue
<1>2. /\ puts \in Nat /\ Len(q) \in Nat /\ now \in Nat /\ tPut[p] \in Nat /\ appended \in 0..puts
      /\ stamp \in [1..puts -> Nat] /\ tPut[p] < now
  BY <1>1, BoundAssumption, LenProperties DEF TypeOK, Matched, StampsOf
<1>3. /\ \A j \in 1..puts : longer[j] = stamp[j]
      /\ longer[puts + 1] = tPut[p] /\ longer \in [1..(puts + 1) -> Nat]
  BY <1>2
<1>4. /\ Len(q') = Len(q) + 1 /\ q'[Len(q) + 1].t = tPut[p]
      /\ \A i \in 1..Len(q) : q'[i] = q[i]
  <2>1. q \in Seq(Items)
    BY DEF TypeOK, Items
  <2> QED BY <1>1, <2>1
<1>5. puts' - Len(q') = puts - Len(q)
  BY <1>1, <1>2, <1>4
<1>6. Served(c)' = Served(c) /\ Served(c) \in 0..puts
  BY <1>1, <1>5 DEF Served, Matched, ItemsOf
<1>7. /\ ppc'[p] = "append" /\ putId'[p] = puts + 1
      /\ \A o \in Producers \ {p} : ppc'[o] = ppc[o] /\ putId'[o] = putId[o]
  BY <1>1 DEF TypeOK
<1>8. StampsOf(c, longer, appended)'
  <2>1. longer \in [1..puts' -> Nat] /\ appended \in 0..puts'
    BY <1>1, <1>2, <1>3
  <2>2. \A j \in 1..puts' : longer[j] < now
    BY <1>1, <1>2, <1>3 DEF Matched, StampsOf
  <2>3. \A o \in Producers : ppc'[o] = "enqueue" => o # p /\ ppc[o] = "enqueue" /\ tPut'[o] = tPut[o] /\ tPut[o] < now
    BY <1>1, <1>7 DEF Matched, StampsOf
  <2>4. ASSUME ~overtaken'
        PROVE  /\ \A i, j \in 1..puts' : i < j => longer[i] <= longer[j]
               /\ \A o \in Producers, j \in 1..puts' : ppc'[o] = "enqueue" => longer[j] <= tPut'[o]
    <3>1. ~overtaken /\ \A o \in Producers : ppc[o] = "enqueue" => tPut[p] <= tPut[o]
      <4>1. ~overtaken /\ \A o \in Producers : ppc[o] = "enqueue" => ~(tPut[o] < tPut[p])
        <5>1. ~(overtaken \/ \E o \in Producers : ppc[o] = "enqueue" /\ tPut[o] < tPut[p])
          BY <1>1, <2>4, Zenon
        <5> QED BY <5>1, Zenon
      <4>2. \A o \in Producers : tPut[o] \in Nat
        BY DEF TypeOK
      <4>3. \A o \in Producers : ~(tPut[o] < tPut[p]) => tPut[p] <= tPut[o]
        BY <1>2, <4>2
      <4> QED BY <4>1, <4>3, Zenon
    <3>2. \A j \in 1..puts : stamp[j] <= tPut[p]
      BY <1>1, <3>1 DEF Matched, StampsOf
    <3>3. \A i, j \in 1..puts : i < j => stamp[i] <= stamp[j]
      BY <3>1 DEF Matched, StampsOf
    <3>4. ASSUME NEW i \in 1..puts', NEW j \in 1..puts', i < j  PROVE longer[i] <= longer[j]
      <4>1. i \in 1..puts
        BY <1>1, <1>2, <3>4
      <4>2. CASE j \in 1..puts
        BY <1>3, <3>3, <3>4, <4>1, <4>2
      <4>3. CASE j = puts + 1
        BY <1>3, <3>2, <4>1, <4>3
      <4> QED BY <1>1, <1>2, <4>2, <4>3
    <3>5. ASSUME NEW o \in Producers, NEW j \in 1..puts', ppc'[o] = "enqueue"  PROVE longer[j] <= tPut'[o]
      <4>1. ppc[o] = "enqueue" /\ tPut'[o] = tPut[o]
        BY <2>3, <3>5
      <4>2. CASE j \in 1..puts
        BY <1>3, <3>1, <4>1, <4>2 DEF Matched, StampsOf
      <4>3. CASE j = puts + 1
        BY <1>3, <3>1, <4>1, <4>3
      <4> QED BY <1>1, <1>2, <4>2, <4>3
    <3> QED BY <3>4, <3>5
  <2> QED BY <1>1, <2>1, <2>2, <2>3, <2>4 DEF StampsOf
<1>9. ItemsOf(c, longer)'
  <2>1. \A i \in 1..Len(q') : q'[i].t = longer[puts' - Len(q') + i]
    <3> SUFFICES ASSUME NEW i \in 1..Len(q')  PROVE q'[i].t = longer[puts - Len(q) + i]
      BY <1>5
    <3>1. CASE i \in 1..Len(q)
      <4>1. puts - Len(q) + i \in 1..puts
        BY <1>2, <1>6, <3>1 DEF Served
      <4> QED BY <1>3, <1>4, <3>1, <4>1 DEF Matched, ItemsOf
    <3>2. CASE i = Len(q) + 1
      <4>1. puts - Len(q) + i = puts + 1
        BY <1>2, <3>2
      <4> QED BY <1>3, <1>4, <3>2, <4>1
    <3> QED BY <1>2, <1>4, <3>1, <3>2
  <2>2. cpc[c] # "idle" => puts - Len(q) \in 1..puts
    BY <1>2, <1>6 DEF Served
  <2>3. cpc'[c] # "idle" => item'[c].t = longer[puts' - Len(q')]
    BY <1>1, <1>3, <1>5, <2>2 DEF Matched, ItemsOf
  <2>4. cpc'[c] \in {"check", "popleft"} => \A j \in 1..(puts' - Len(q')) : longer[j] < tGet'[c]
    <3>1. \A j \in 1..(puts - Len(q)) : j \in 1..puts
      BY <1>2
    <3> QED BY <1>1, <1>3, <1>5, <3>1 DEF Matched, ItemsOf
  <2>5. Served(c)' \in 0..puts'
    BY <1>1, <1>2, <1>6
  <2> QED BY <2>1, <2>3, <2>4, <2>5 DEF ItemsOf
<1>10. PendingOf(longer, appended)'
  <2>1. \A o \in Producers \ {p} : ppc'[o] = "append" =>
           putId'[o] \in (appended + 1)..puts /\ putId'[o] \in 1..puts /\ tPut'[o] = longer[putId'[o]]
    BY <1>1, <1>2, <1>3, <1>7 DEF Matched, PendingOf
  <2>2. putId'[p] \in (appended + 1)..puts' /\ tPut'[p] = longer[putId'[p]]
    BY <1>1, <1>2, <1>3, <1>7
  <2>3. \A o \in Producers : ppc'[o] = "append" => putId'[o] \in (appended + 1)..puts' /\ tPut'[o] = longer[putId'[o]]
    <3> SUFFICES ASSUME NEW o \in Producers, ppc'[o] = "append"
                 PROVE  putId'[o] \in (appended + 1)..puts' /\ tPut'[o] = longer[putId'[o]]
      OBVIOUS
    <3>1. CASE o = p
      BY <2>2, <3>1
    <3>2. CASE o # p
      <4>1. putId'[o] \in (appended + 1)..puts /\ tPut'[o] = longer[putId'[o]]
        BY <2>1, <3>2
      <4>2. putId'[o] \in (appended + 1)..puts'
        BY <1>1, <1>2, <4>1
      <4> QED BY <4>1, <4>2
    <3> QED BY <3>1, <3>2
  <2>4. \A o, r \in Producers : ppc'[o] = "append" /\ ppc'[r] = "append" /\ putId'[o] = putId'[r] => o = r
    BY <1>2, <1>7, <2>1 DEF Matched, PendingOf
  <2>5. \A j \in (appended + 1)..puts' : \E o \in Producers : ppc'[o] = "append" /\ putId'[o] = j
    <3>1. \A j \in (appended + 1)..puts' : j \in (appended + 1)..puts \/ j = puts + 1
      BY <1>1, <1>2
    <3>2. \A j \in (appended + 1)..puts : \E o \in Producers \ {p} : ppc'[o] = "append" /\ putId'[o] = j
      BY <1>1, <1>7 DEF Matched, PendingOf
    <3> QED BY <1>7, <3>1, <3>2
  <2> QED BY <2>3, <2>4, <2>5 DEF PendingOf
<1>11. TimesOf(c, longer, appended)'
  <2>1. \A i \in 1..Len(times) : appended - Len(times) + i \in 1..puts
    <3>1. Len(times) \in Nat /\ Len(times) <= appended
      BY LenProperties DEF TypeOK, Matched, TimesOf
    <3> QED BY <1>2, <3>1
  <2>2. \A i \in 1..Len(times) : times[i] = longer[appended - Len(times) + i]
    BY <1>3, <2>1 DEF Matched, TimesOf
  <2> QED BY <1>1, <1>6, <2>2 DEF Matched, TimesOf
<1> QED BY <1>8, <1>9, <1>10, <1>11 DEF Matched

\* Times appended in the order of their items follow each other; the deque
\* holds those of the queue and of the consumer's hands, so that it drops
\* only times no get needs.
LEMMA MatchedAppend ==
  ASSUME TypeOK, QueueSize < Capacity, NEW c \in Consumers, NEW stamp, NEW appended,
         Matched(c, stamp, appended), NEW p \in Producers, AppendTime(p), ~reordered'
  PROVE  Matched(c, stamp, appended + 1)'
<1> USE DEF producerVars, consumerVars, statVars, ghostVars
<1>1. /\ ppc[p] = "append" /\ ppc' = [ppc EXCEPT ![p] = "qsize"] /\ times' = Bounded(Append(times, tPut[p]))
      /\ \A o \in Producers : ~(ppc[o] = "append" /\ putId[o] < putId[p])
      /\ UNCHANGED <<q, now, puts, tPut, putId, cpc, item, tGet, missed, overtaken>>
  BY DEF AppendTime
<1>2. /\ puts \in Nat /\ Len(q) \in 0..QueueSize /\ appended \in 0..puts /\ Len(times) \in 0..appended
      /\ Len(times) <= Capacity /\ times \in Seq(Nat) /\ tPut[p] \in Nat /\ missed \in Nat
  BY BoundAssumption, QueueAssumption, LenProperties DEF TypeOK, Matched, StampsOf, TimesOf
<1>3. putId[p] = appended + 1 /\ appended + 1 \in 1..puts /\ tPut[p] = stamp[appended + 1]
  <2>1. putId[p] \in (appended + 1)..puts /\ tPut[p] = stamp[putId[p]]
    BY <1>1 DEF Matched, PendingOf
  <2>2. appended + 1 \in (appended + 1)..puts /\ appended + 1 \in 1..puts
    BY <1>2, <2>1
  <2>3. PICK o \in Producers : ppc[o] = "append" /\ putId[o] = appended + 1
    BY <2>2 DEF Matched, PendingOf
  <2>4. putId[p] \in Int /\ appended \in Nat /\ ~(appended + 1 < putId[p])
    BY <1>1, <1>2, <2>1, <2>3
  <2>5. putId[p] = appended + 1
    BY <2>1, <2>4
  <2> QED BY <2>1, <2>2, <2>5
<1>4. /\ ppc'[p] = "qsize" /\ \A o \in Producers \ {p} : ppc'[o] = ppc[o]
  BY <1>1 DEF TypeOK
<1>5. Served(c)' = Served(c) /\ Served(c) \in 0..puts /\ puts - Len(q) - 1 <= Served(c)
  BY <1>1, <1>2 DEF Served, Matched, ItemsOf
<1>6. StampsOf(c, stamp, appended + 1)'
  BY <1>1, <1>2, <1>3, <1>4 DEF Matched, StampsOf
<1>7. ItemsOf(c, stamp)'
  BY <1>1, <1>5 DEF Matched, ItemsOf
<1>8. PendingOf(stamp, appended + 1)'
  <2>1. \A o \in Producers : ppc'[o] = "append" =>
           /\ o # p /\ ppc[o] = "append" /\ putId'[o] = putId[o] /\ putId[o] \in (appended + 1)..puts
           /\ putId[o] # appended + 1 /\ tPut'[o] = stamp[putId[o]]
    BY <1>1, <1>3, <1>4 DEF Matched, PendingOf
  <2>2. \A o \in Producers : ppc'[o] = "append" =>
           putId'[o] \in (appended + 1 + 1)..puts' /\ tPut'[o] = stamp[putId'[o]]
    BY <1>1, <1>2, <2>1
  <2>3. \A o, r \in Producers : ppc'[o] = "append" /\ ppc'[r] = "append" /\ putId'[o] = putId'[r] => o = r
    BY <2>1 DEF Matched, PendingOf
  <2>4. \A j \in (appended + 1 + 1)..puts' : \E o \in Producers : ppc'[o] = "append" /\ putId'[o] = j
    <3> SUFFICES ASSUME NEW j \in (appended + 1 + 1)..puts  PROVE \E o \in Producers : ppc'[o] = "append" /\ putId'[o] = j
      BY <1>1
    <3>1. j \in (appended + 1)..puts /\ j # appended + 1
      BY <1>2
    <3>2. PICK o \in Producers : ppc[o] = "append" /\ putId[o] = j
      BY <3>1 DEF Matched, PendingOf
    <3> QED BY <1>1, <1>3, <1>4, <3>1, <3>2
  <2> QED BY <2>2, <2>3, <2>4 DEF PendingOf
<1>9. TimesOf(c, stamp, appended + 1)'
  <2> DEFINE all == Append(times, tPut[p])
  <2>1. /\ all \in Seq(Nat) /\ Len(all) = Len(times) + 1 /\ all # <<>>
        /\ \A i \in 1..Len(times) : all[i] = times[i]
        /\ all[Len(times) + 1] = tPut[p]
    BY <1>2, AppendProperties
  <2>2. \A i \in 1..Len(all) : all[i] = stamp[appended - Len(times) + i]
    <3> SUFFICES ASSUME NEW i \in 1..Len(all)  PROVE all[i] = stamp[appended - Len(times) + i]
      OBVIOUS
    <3>1. CASE i \in 1..Len(times)
      BY <2>1, <3>1 DEF Matched, TimesOf
    <3>2. CASE i = Len(times) + 1
      <4>1. appended - Len(times) + i = appended + 1
        BY <1>2, <3>2
      <4> QED BY <1>3, <2>1, <3>2, <4>1
    <3> QED BY <1>2, <2>1, <3>1, <3>2
  <2> HIDE DEF all
  <2>3. times' = Bounded(all)
    BY <1>1 DEF all
  <2>4. appended - Len(times) <= Served(c) /\ (missed = 0 => appended - Len(times) = Served(c))
    BY DEF Matched, TimesOf
  <2>7. appended \in Nat /\ Len(times) \in Nat /\ Capacity \in Nat /\ Served(c) \in Nat
    BY <1>2, <1>5, QueueAssumption
  <2>5. CASE Len(all) > Capacity
    <3>1. times' = Tail(all) /\ Len(times') = Len(times) /\ \A i \in 1..Len(times') : times'[i] = all[i + 1]
      <4>1. times' = Tail(all)
        BY <2>3, <2>5 DEF Bounded
      <4> QED BY <1>2, <2>1, <4>1, HeadTailProperties
    <3>2. \A i \in 1..Len(times') : times'[i] = stamp[(appended + 1) - Len(times') + i]
      <4> SUFFICES ASSUME NEW i \in 1..Len(times')  PROVE times'[i] = stamp[(appended + 1) - Len(times') + i]
        OBVIOUS
      <4>1. i + 1 \in 1..Len(all) /\ times'[i] = all[i + 1]
        BY <2>7, <2>1, <3>1
      <4>2. appended - Len(times) + (i + 1) = (appended + 1) - Len(times') + i
        <5>1. Len(times') = Len(times) /\ i \in Int
          BY <3>1
        <5> QED BY <2>7, <5>1
      <4> QED BY <2>2, <4>1, <4>2
    <3>3. Len(times) = Capacity /\ Len(times') = Capacity
      BY <1>2, <2>7, <2>1, <2>5, <3>1
    <3>8. appended + 1 - Capacity <= puts - Len(q) - 1
      <4>1. appended + 1 <= puts /\ Len(q) <= QueueSize /\ QueueSize < Capacity
        BY <1>2, <1>3
      <4>2. puts \in Nat /\ Len(q) \in Nat /\ QueueSize \in Nat
        BY <1>2, QueueAssumption
      <4> QED BY <2>7, <4>1, <4>2
    <3>4. (appended + 1) - Len(times') <= Served(c) /\ Len(times') <= appended + 1
      <4>1. puts \in Nat /\ Len(q) \in Nat /\ Len(times) <= appended
        BY <1>2
      <4>2. Len(times') = Capacity /\ Len(times) = Capacity /\ puts - Len(q) - 1 <= Served(c)
        BY <1>5, <3>3
      <4>3. appended + 1 - Capacity <= Served(c)
        BY <2>7, <3>8, <4>1, <4>2
      <4> QED BY <2>7, <4>1, <4>2, <4>3
    <3>5. missed # 0
      <4>1. puts \in Nat /\ Len(q) \in Nat
        BY <1>2
      <4>2. appended - Len(times) # Served(c)
        BY <1>5, <2>7, <3>3, <3>8, <4>1
      <4> QED BY <2>4, <4>2
    <3>6. cpc'[c] = "popleft" => times' # <<>>
      <4>1. Len(times') # 0
        BY <3>1, <3>3, QueueAssumption
      <4> QED BY <4>1, EmptySeq
    <3>7. missed' # 0 /\ (appended + 1) - Len(times') <= Served(c)'
      BY <1>1, <1>5, <3>4, <3>5
    <3> QED BY <3>2, <3>4, <3>6, <3>7 DEF TimesOf
  <2>6. CASE ~(Len(all) > Capacity)
    <3>1. times' = all
      BY <2>3, <2>6 DEF Bounded
    <3>2. (appended + 1) - Len(times') = appended - Len(times)
      BY <2>7, <2>1, <3>1
    <3>3. Len(times') <= appended + 1
      <4>1. Len(times) <= appended
        BY <1>2
      <4> QED BY <2>7, <2>1, <3>1, <4>1
    <3>4. \A i \in 1..Len(times') : times'[i] = stamp[(appended + 1) - Len(times') + i]
      BY <2>2, <3>1, <3>2
    <3>5. /\ (appended + 1) - Len(times') <= Served(c)'
          /\ missed' = 0 => (appended + 1) - Len(times') = Served(c)'
      BY <1>1, <1>5, <2>4, <3>2
    <3>6. times' # <<>>
      BY <2>1, <3>1
    <3> QED BY <3>3, <3>4, <3>5, <3>6 DEF TimesOf
  <2> QED BY <2>5, <2>6
<1> QED BY <1>6, <1>7, <1>8, <1>9 DEF Matched

-----------------------------------------------------------------------------
\* Nothing was put, nothing recorded.
LEMMA TimesInit == Init => \A c \in Consumers : TimesInv(c)
<1> SUFFICES ASSUME Init, NEW c \in Consumers  PROVE Recorded /\ \E stamp, appended : Matched(c, stamp, appended)
  BY DEF TimesInv
<1>1. /\ q = <<>> /\ times = <<>> /\ ring = <<>> /\ Len(q) = 0 /\ Len(times) = 0 /\ Len(ring) = 0
      /\ puts = 0 /\ lost = {} /\ cpc[c] = "idle" /\ \A p \in Producers : ppc[p] = "idle"
  BY EmptySeq DEF Init
<1>2. Recorded
  BY <1>1 DEF Recorded
<1> DEFINE none == [j \in 1..0 |-> 0]
<1>3. none \in [1..0 -> Nat]
  OBVIOUS
<1> HIDE DEF none
<1>4. StampsOf(c, none, 0)
  BY <1>1, <1>3 DEF StampsOf
<1>5. Served(c) = 0
  <2>1. Len(q) = 0 /\ puts = 0 /\ cpc[c] = "idle"
    BY <1>1
  <2>2. Served(c) = puts - Len(q)
    BY <2>1 DEF Served
  <2> QED BY <2>1, <2>2
<1>6. ItemsOf(c, none)
  BY <1>1, <1>5 DEF ItemsOf
<1>7. PendingOf(none, 0)
  BY <1>1 DEF PendingOf
<1>8. TimesOf(c, none, 0)
  <2>1. Len(times) = 0 /\ cpc[c] # "popleft"
    BY <1>1
  <2>2. 0 - Len(times) = 0
    BY <2>1
  <2> QED BY <1>5, <2>1, <2>2 DEF TimesOf
<1> QED BY <1>2, <1>4, <1>6, <1>7, <1>8 DEF Matched

\* A step that records nothing keeps what was recorded right.
LEMMA RecordedQuiet ==
  ASSUME Recorded, UNCHANGED <<lost, ring>>, overtaken => overtaken', missed' = 0 => missed = 0
  PROVE  Recorded'
BY DEF Recorded

\* Every step of one consumer and any producers keeps the times matched.
LEMMA TimesNext ==
  ASSUME NEW c, Consumers = {c}, QueueSize < Capacity, TypeOK, Holding, TimesInv(c), [Next]_vars
  PROVE  TimesInv(c)'
<1> USE DEF producerVars, consumerVars, statVars, ghostVars
<1>1. reordered => reordered'
  BY DEF Next, StampPut, Enqueue, PutFull, AppendTime, ReadDepth, LoadPeak, CompareExchange,
         Dequeue, StampGet, Check, Measure, vars
<1> SUFFICES ASSUME ~reordered'
             PROVE  Recorded' /\ \E stamp, appended : Matched(c, stamp, appended)'
  BY DEF TimesInv
<1>2. ~reordered /\ Recorded /\ \E stamp, appended : Matched(c, stamp, appended)
  BY <1>1 DEF TimesInv
<1>3. PICK stamp, appended : Matched(c, stamp, appended)
  BY <1>2
<1>4. c \in Consumers
  OBVIOUS
<1>5. now \in Nat /\ missed \in Nat
  BY DEF TypeOK
<1>6. ASSUME NEW p \in Producers, StampPut(p)
      PROVE  Recorded' /\ Matched(c, stamp, appended)'
  <2>1. /\ ppc[p] = "idle" /\ ppc'[p] = "enqueue" /\ tPut'[p] = now /\ now' = now + 1 /\ putId' = putId
        /\ \A o \in Producers \ {p} : ppc'[o] = ppc[o] /\ tPut'[o] = tPut[o]
    BY <1>6 DEF StampPut, TypeOK
  <2>2. now' \in Nat /\ now' >= now /\ now' > now
    BY <1>5, <2>1
  <2>3. UNCHANGED <<q, times, puts, cpc, item, tGet, missed, overtaken, lost, ring>>
    BY <1>6 DEF StampPut
  <2>4. Recorded'
    BY <1>2, <2>3, RecordedQuiet
  <2>5. \A o \in Producers : /\ ppc'[o] = "append" <=> ppc[o] = "append"
                             /\ ppc[o] = "append" => putId'[o] = putId[o] /\ tPut'[o] = tPut[o]
    BY <2>1
  <2>6. \A o \in Producers : ppc'[o] = "enqueue" => \/ ppc[o] = "enqueue" /\ tPut'[o] = tPut[o]
                                                    \/ tPut'[o] = now /\ now' > now
    BY <2>1, <2>2
  <2> QED BY <1>3, <2>2, <2>3, <2>4, <2>5, <2>6, MatchedQuiet
<1>7. ASSUME NEW p \in Producers, PutFull(p) \/ ReadDepth(p) \/ LoadPeak(p) \/ CompareExchange(p)
      PROVE  Recorded' /\ Matched(c, stamp, appended)'
  <2>1. UNCHANGED <<q, times, now, puts, cpc, item, tGet, missed, overtaken, lost, ring>>
    BY <1>7 DEF PutFull, ReadDepth, LoadPeak, CompareExchange
  <2>2. /\ ppc[p] # "append" /\ ppc'[p] \notin {"append", "enqueue"}
        /\ \A o \in Producers \ {p} : ppc'[o] = ppc[o] /\ tPut'[o] = tPut[o] /\ putId'[o] = putId[o]
    <3>1. CASE PutFull(p)
      BY <3>1 DEF PutFull, PutReturns, TypeOK
    <3>2. CASE ReadDepth(p)
      BY <3>2 DEF ReadDepth, PutReturns, TypeOK
    <3>3. CASE LoadPeak(p)
      <4>1. CASE depth[p] > peakDepth
        BY <3>3, <4>1 DEF LoadPeak, TypeOK
      <4>2. CASE ~(depth[p] > peakDepth)
        BY <3>3, <4>2 DEF LoadPeak, PutReturns, TypeOK
      <4> QED BY <4>1, <4>2
    <3>4. CASE CompareExchange(p)
      BY <3>4 DEF CompareExchange, PutReturns, TypeOK
    <3> QED BY <1>7, <3>1, <3>2, <3>3, <3>4
  <2>3. now' \in Nat /\ now' >= now
    BY <1>5, <2>1
  <2>4. Recorded'
    BY <1>2, <2>1, RecordedQuiet
  <2>5. \A o \in Producers : /\ ppc'[o] = "append" <=> ppc[o] = "append"
                             /\ ppc[o] = "append" => putId'[o] = putId[o] /\ tPut'[o] = tPut[o]
    BY <2>2
  <2>6. \A o \in Producers : ppc'[o] = "enqueue" => \/ ppc[o] = "enqueue" /\ tPut'[o] = tPut[o]
                                                    \/ tPut'[o] = now /\ now' > now
    BY <2>2
  <2> QED BY <1>3, <2>1, <2>3, <2>4, <2>5, <2>6, MatchedQuiet
<1>8. ASSUME NEW p \in Producers, Enqueue(p)
      PROVE  Recorded' /\ \E longer : Matched(c, longer, appended)'
  <2>1. UNCHANGED <<lost, ring, missed>> /\ (overtaken => overtaken')
    BY <1>8 DEF Enqueue
  <2>2. Recorded'
    BY <1>2, <2>1, RecordedQuiet
  <2>3. PICK longer : longer = [j \in 1..(puts + 1) |-> IF j \in 1..puts THEN stamp[j] ELSE tPut[p]]
    OBVIOUS
  <2>4. Matched(c, longer, appended)'
    BY <1>3, <1>4, <1>8, <2>3, MatchedEnqueue
  <2> QED BY <2>2, <2>4
<1>9. ASSUME NEW p \in Producers, AppendTime(p)
      PROVE  Recorded' /\ Matched(c, stamp, appended + 1)'
  <2>1. UNCHANGED <<lost, ring, missed, overtaken>>
    BY <1>9 DEF AppendTime
  <2>2. Recorded'
    BY <1>2, <2>1, RecordedQuiet
  <2>3. Matched(c, stamp, appended + 1)'
    BY <1>3, <1>4, <1>9, MatchedAppend
  <2> QED BY <2>2, <2>3
<1>10. ASSUME NEW d \in Consumers, Dequeue(d)
       PROVE  Recorded' /\ Matched(c, stamp, appended)'
  <2>1. d = c /\ UNCHANGED <<lost, ring, missed, overtaken>>
    BY <1>10 DEF Dequeue
  <2>2. Recorded'
    BY <1>2, <2>1, RecordedQuiet
  <2>3. Matched(c, stamp, appended)'
    BY <1>3, <1>4, <1>10, <2>1, MatchedDequeue
  <2> QED BY <2>2, <2>3
<1>11. ASSUME NEW d \in Consumers, StampGet(d)
       PROVE  Recorded' /\ Matched(c, stamp, appended)'
  <2>1. d = c /\ UNCHANGED <<lost, ring, missed, overtaken>>
    BY <1>11 DEF StampGet
  <2>2. Recorded'
    BY <1>2, <2>1, RecordedQuiet
  <2>3. Matched(c, stamp, appended)'
    BY <1>3, <1>4, <1>11, <2>1, MatchedStampGet
  <2> QED BY <2>2, <2>3
<1>12. ASSUME NEW d \in Consumers, Check(d)
       PROVE  Recorded' /\ Matched(c, stamp, appended)'
  <2>1. d = c /\ UNCHANGED <<lost, ring, overtaken>> /\ (missed' = missed \/ missed' = missed + 1)
    BY <1>12 DEF Check
  <2>2. missed' = 0 => missed = 0
    BY <1>5, <2>1
  <2>3. Recorded'
    BY <1>2, <2>1, <2>2, RecordedQuiet
  <2>4. Matched(c, stamp, appended)'
    BY <1>3, <1>4, <1>12, <2>1, MatchedCheck
  <2> QED BY <2>3, <2>4
<1>13. ASSUME NEW d \in Consumers, Measure(d)
       PROVE  Recorded' /\ Matched(c, stamp, appended)'
  <2>1. d = c
    OBVIOUS
  <2> QED BY <1>2, <1>3, <1>4, <1>13, <2>1, MatchedMeasure
<1>14. CASE UNCHANGED vars
  <2>1. /\ UNCHANGED <<q, times, puts, cpc, item, tGet, missed, overtaken, lost, ring, ppc, tPut, putId>>
        /\ now' \in Nat /\ now' >= now
    BY <1>5, <1>14 DEF vars
  <2>2. Recorded'
    BY <1>2, <2>1, RecordedQuiet
  <2>3. Matched(c, stamp, appended)'
    BY <1>3, <2>1, MatchedQuiet
  <2> QED BY <2>2, <2>3
<1>15. CASE \E p \in Producers : StampPut(p) \/ Enqueue(p) \/ PutFull(p) \/ AppendTime(p)
                                 \/ ReadDepth(p) \/ LoadPeak(p) \/ CompareExchange(p)
  BY <1>6, <1>7, <1>8, <1>9, <1>15
<1>16. CASE \E d \in Consumers : Dequeue(d) \/ StampGet(d) \/ Check(d) \/ Measure(d)
  BY <1>10, <1>11, <1>12, <1>13, <1>16
<1> QED BY <1>14, <1>15, <1>16 DEF Next

-----------------------------------------------------------------------------
(* The theorems.                                                           *)

\* Nothing has been read or recorded.
LEMMA DepthInit == Init => Rising /\ PeakDepthCovers
BY DEF Init, Rising, PeakDepthCovers

\* Deque and ring stay within ring_capacity, and the peak within the size of
\* the queue, whatever the threads do.
THEOREM QueueType == Spec => []TypeOK
<1>1. Init => TypeOK /\ Holding
  BY TypeInit
<1>2. (TypeOK /\ Holding) /\ [Next]_vars => (TypeOK /\ Holding)'
  BY TypeNext, HoldingNext
<1> QED BY <1>1, <1>2, PTL DEF Spec

\* Any number of producers racing in record_depth(): every depth read is
\* covered by the peak or by a producer still recording.
THEOREM DepthsCovered == Spec => []PeakDepthCovers
<1>1. Init => Rising /\ PeakDepthCovers
  BY DepthInit
<1>2. TypeOK /\ (Rising /\ PeakDepthCovers) /\ [Next]_vars => (Rising /\ PeakDepthCovers)'
  BY RisingNext, DepthNext
<1> QED BY <1>1, <1>2, QueueType, PTL DEF Spec

\* With one consumer and a queue smaller than the ring, the matching of
\* times and items is an invariant.
LEMMA TimesMatched ==
  ASSUME NEW c, Consumers = {c}, QueueSize < Capacity
  PROVE  Spec => []TimesInv(c)
<1>1. Init => (TypeOK /\ Holding) /\ TimesInv(c)
  BY TypeInit, TimesInit
<1>2. ((TypeOK /\ Holding) /\ TimesInv(c)) /\ [Next]_vars => ((TypeOK /\ Holding) /\ TimesInv(c))'
  BY TypeNext, HoldingNext, TimesNext
<1> QED BY <1>1, <1>2, PTL DEF Spec

\* One consumer, a queue smaller than the ring: a get() raises with an item
\* in its hands only if put times were appended in another order than their
\* items were enqueued.
THEOREM NothingLost ==
  ASSUME NEW c, Consumers = {c}, QueueSize < Capacity
  PROVE  Spec => []LostOnlyIfReordered
<1>1. TimesInv(c) => LostOnlyIfReordered
  BY DEF TimesInv, Recorded, LostOnlyIfReordered
<1> QED BY <1>1, TimesMatched, PTL

\* ... no latency is recorded shorter than the item's own, unless items were
\* stamped or times appended in another order than they were enqueued.
THEOREM LatencyBounded ==
  ASSUME NEW c, Consumers = {c}, QueueSize < Capacity
  PROVE  Spec => []NeverUnderestimates
<1>1. TimesInv(c) => NeverUnderestimates
  BY DEF TimesInv, Recorded, NeverUnderestimates
<1> QED BY <1>1, TimesMatched, PTL

\* ... and every latency is exact until a get overtakes an append.
THEOREM LatencyExact ==
  ASSUME NEW c, Consumers = {c}, QueueSize < Capacity
  PROVE  Spec => []ExactUnlessMissed
<1>1. TimesInv(c) => ExactUnlessMissed
  BY DEF TimesInv, Recorded, ExactUnlessMissed
<1> QED BY <1>1, TimesMatched, PTL
=============================================================================
