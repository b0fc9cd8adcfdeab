---------------------------- MODULE SamplerProofs ---------------------------
(***************************************************************************)
(* Proofs about Sampler, for every capacity, every set of resident set     *)
(* sizes and every bound.                                                  *)
(***************************************************************************)
EXTENDS Sampler, Integers, TLAPS

-----------------------------------------------------------------------------
(* The buffer.                                                             *)

Ordered(s) == \A i, j \in 1..Len(s) : i < j => s[i].t < s[j].t

\* Decimation keeps the odd positions: half the samples, rounded up.
LEMMA DecimateKeeps ==
    ASSUME NEW S, NEW s \in Seq(S)
    PROVE  /\ Decimate(s) \in Seq(S)
           /\ Len(Decimate(s)) = (Len(s) + 1) \div 2
           /\ \A i \in 1..Len(Decimate(s)) :
                 2 * i - 1 \in 1..Len(s) /\ Decimate(s)[i] = s[2 * i - 1]
<1> DEFINE n == (Len(s) + 1) \div 2
<1>1. n \in Nat /\ 2 * n <= Len(s) + 1 /\ Len(s) \in Nat
  OBVIOUS
<1>2. \A i \in 1..n : 2 * i - 1 \in 1..Len(s)
  BY <1>1
<1>3. \A i \in 1..n : s[2 * i - 1] \in S
  BY <1>2
<1>4. Decimate(s) \in [1..n -> S]
  BY <1>3 DEF Decimate
<1>5. Decimate(s) \in Seq(S) /\ Len(Decimate(s)) = n
  BY <1>1, <1>4
<1>6. QED
  BY <1>2, <1>5 DEF Decimate

\* A push, decimating or not, leaves a series of samples.
LEMMA PushedInSeq ==
    ASSUME NEW smp \in Sample, NEW s \in Seq(Sample)
    PROVE  Pushed(smp, s) \in Seq(Sample)
<1>1. Append(s, smp) \in Seq(Sample)
  OBVIOUS
<1>2. Decimate(Append(s, smp)) \in Seq(Sample)
  BY <1>1, DecimateKeeps
<1>3. QED
  BY <1>1, <1>2 DEF Pushed

\* A push keeps the buffer ordered and below its capacity, and adds nothing
\* but the sample it was given.
LEMMA PushedKeeps ==
    ASSUME NEW smp \in Sample, NEW s \in Seq(Sample), Ordered(s), Len(s) < Cap
    PROVE  /\ Pushed(smp, s) \in Seq(Sample)
           /\ Ordered(Pushed(smp, s))
           /\ Len(Pushed(smp, s)) < Cap
           /\ \A i \in 1..Len(Pushed(smp, s)) :
                 \/ Pushed(smp, s)[i] = smp
                 \/ \E j \in 1..Len(s) : Pushed(smp, s)[i] = s[j]
<1> DEFINE longer == Append(s, smp)
<1>0. Len(s) \in Nat /\ Cap \in Nat /\ Cap >= 2
  BY CapAssumption
<1>1. CASE ~Advanced(smp.t, s)
  BY <1>1 DEF Pushed
<1>2. ASSUME Advanced(smp.t, s)
      PROVE  /\ longer \in Seq(Sample) /\ Len(longer) = Len(s) + 1
             /\ \A i \in 1..Len(s) : longer[i] = s[i]
             /\ longer[Len(s) + 1] = smp
             /\ Ordered(longer)
  <2>1. /\ longer \in Seq(Sample) /\ Len(longer) = Len(s) + 1
        /\ \A i \in 1..Len(s) : longer[i] = s[i]
        /\ longer[Len(s) + 1] = smp
    BY <1>0
  <2>2. \A i \in 1..Len(s) : s[i] \in Sample /\ s[i].t \in Nat
    <3>1. \A i \in 1..Len(s) : s[i] \in Sample
      OBVIOUS
    <3>2. \A x \in Sample : x.t \in Nat
      BY DEF Sample
    <3>3. QED
      BY <3>1, <3>2
  <2>3. \A i \in 1..Len(s) : s[i].t < smp.t
    <3> SUFFICES ASSUME NEW i \in 1..Len(s) PROVE s[i].t < smp.t
      OBVIOUS
    <3>1. Len(s) \in 1..Len(s) /\ smp.t > s[Len(s)].t /\ smp.t \in Nat
      BY <1>0, <1>2 DEF Advanced, Sample
    <3>2. i = Len(s) \/ s[i].t < s[Len(s)].t
      BY <1>0, <3>1 DEF Ordered
    <3>3. QED
      BY <2>2, <3>1, <3>2
  <2>4. Ordered(longer)
    <3> SUFFICES ASSUME NEW i \in 1..Len(longer), NEW j \in 1..Len(longer), i < j
                 PROVE  longer[i].t < longer[j].t
      BY DEF Ordered
    <3>1. i \in 1..Len(s) /\ longer[i] = s[i]
      BY <1>0, <2>1
    <3>2. CASE j = Len(s) + 1
      BY <2>1, <2>3, <3>1, <3>2
    <3>3. CASE j # Len(s) + 1
      <4>1. j \in 1..Len(s) /\ longer[j] = s[j]
        BY <1>0, <2>1, <3>3
      <4>2. QED
        BY <3>1, <4>1 DEF Ordered
    <3>4. QED
      BY <3>2, <3>3
  <2>5. QED
    BY <2>1, <2>4
<1>3. CASE Advanced(smp.t, s) /\ ~Full(longer)
  <2>1. Pushed(smp, s) = longer
    BY <1>3 DEF Pushed
  <2>2. Len(longer) < Cap
    BY <1>0, <1>2, <1>3 DEF Full
  <2>3. QED
    BY <1>0, <1>2, <1>3, <2>1, <2>2
<1>4. CASE Advanced(smp.t, s) /\ Full(longer)
  <2> DEFINE d == Decimate(longer)
  <2>1. Pushed(smp, s) = d
    BY <1>4 DEF Pushed
  <2>2. /\ d \in Seq(Sample) /\ Len(d) = (Len(longer) + 1) \div 2
        /\ \A i \in 1..Len(d) : 2 * i - 1 \in 1..Len(longer) /\ d[i] = longer[2 * i - 1]
    BY <1>2, <1>4, DecimateKeeps
  <2>3. Len(d) < Cap
    BY <1>0, <1>2, <1>4, <2>2
  <2>4. Ordered(d)
    <3> HIDE DEF d
    <3> SUFFICES ASSUME NEW i \in 1..Len(d), NEW j \in 1..Len(d), i < j
                 PROVE  d[i].t < d[j].t
      BY DEF Ordered
    <3>1. 2 * i - 1 < 2 * j - 1
      OBVIOUS
    <3>2. QED
      BY <1>2, <1>4, <2>2, <3>1 DEF Ordered
  <2>5. \A i \in 1..Len(d) : d[i] = smp \/ \E j \in 1..Len(s) : d[i] = s[j]
    <3> HIDE DEF d
    <3> SUFFICES ASSUME NEW i \in 1..Len(d)
                 PROVE  d[i] = smp \/ \E j \in 1..Len(s) : d[i] = s[j]
      OBVIOUS
    <3>1. PICK k \in 1..(Len(s) + 1) : d[i] = longer[k]
      BY <1>2, <1>4, <2>2
    <3>2. QED
      BY <1>0, <1>2, <1>4, <3>1
  <2>6. QED
    BY <2>1, <2>2, <2>3, <2>4, <2>5
<1>5. QED
  BY <1>1, <1>3, <1>4

-----------------------------------------------------------------------------
(* Type correctness, with the two facts it needs: only the worker the       *)
(* controller waits for is running, and the reading a worker is about to    *)
(* publish is one that a snapshot reported in this session.                 *)

InFlight(g) ==
    wpc[g] \in {"compare", "storeAt", "record",
                "finalCompare", "finalStoreAt", "finalRecord"}

ReadingsSeen == \A g \in Gen : InFlight(g) => Reading(g) \in seen

\* A sampler that was never started is well typed.
LEMMA TypeInit == Init => TypeOK /\ OneWorker /\ ReadingsSeen
<1>1. ASSUME Init PROVE TypeOK
  <2>1. samples \in Seq(Sample) /\ seen \subseteq Sample
    BY <1>1 DEF Init
  <2>2. wpc \in [Gen -> LivePc \cup {"unborn", "done"}]
    BY <1>1 DEF Init
  <2>3. handle \in Gen \cup {None} /\ starts \in 0..MaxStarts
    BY <1>1, BoundAssumption DEF Init
  <2>4. token \in [Gen -> BOOLEAN] /\ elapsed \in [Gen -> Nat] /\ ticks \in [Gen -> Nat]
    BY <1>1 DEF Init
  <2>5. rss \in [Gen -> Rss \cup {0}] /\ stride \in [Gen -> Nat \ {0}]
    BY <1>1 DEF Init
  <2>6. stop \in BOOLEAN /\ peakRss \in Nat /\ peakAt \in Nat /\ ctl = "idle"
    BY <1>1 DEF Init
  <2>7. QED
    BY <2>1, <2>2, <2>3, <2>4, <2>5, <2>6 DEF TypeOK
<1>2. Init => OneWorker /\ ReadingsSeen
  BY DEF Init, OneWorker, ReadingsSeen, InFlight, Live, LivePc, LoopPc, FinalPc
<1>3. QED
  BY <1>1, <1>2

\* What a start() does to the bookkeeping: it numbers the new worker.
LEMMA BeginNumbers ==
    ASSUME TypeOK, Begin
    PROVE  /\ starts + 1 \in Gen /\ starts' = starts + 1 /\ handle' = starts + 1
           /\ wpc' = [wpc EXCEPT ![starts + 1] = "head"]
           /\ ctl' = "idle" /\ stop' = FALSE /\ peakAt' = 0
           /\ UNCHANGED <<token, elapsed, rss, stride, ticks>>
BY BoundAssumption DEF TypeOK, Gen, Begin, localVars

\* A session begins with nothing, or with the baseline as its one sample.
LEMMA BeginReads ==
    ASSUME Begin
    PROVE  \/ peakRss' = 0 /\ samples' = <<>> /\ seen' = {}
           \/ \E r \in Rss : /\ peakRss' = r
                             /\ samples' = <<[t |-> 0, rss |-> r]>>
                             /\ seen' = {[t |-> 0, rss |-> r]}
                             /\ [t |-> 0, rss |-> r] \in Sample
BY DEF Begin, Sample

\* What a successful snapshot does, in the loop and after it.
LEMMA ObserveReads ==
    ASSUME TypeOK, NEW g \in Gen, Observe(g)
    PROVE  \E r \in Rss, d \in Nat :
              /\ elapsed' = [elapsed EXCEPT ![g] = elapsed[g] + d]
              /\ rss' = [rss EXCEPT ![g] = r]
              /\ seen' = seen \cup {[t |-> elapsed[g] + d, rss |-> r]}
              /\ elapsed[g] + d \in Nat
              /\ [t |-> elapsed[g] + d, rss |-> r] \in Sample
              /\ \/ wpc[g] = "snap" /\ wpc' = [wpc EXCEPT ![g] = "compare"]
                 \/ wpc[g] = "finalSnap" /\ wpc' = [wpc EXCEPT ![g] = "finalCompare"]
<1>1. PICK r \in Rss, d \in MinStep..MaxStep :
         /\ elapsed' = [elapsed EXCEPT ![g] = elapsed[g] + d]
         /\ rss' = [rss EXCEPT ![g] = r]
         /\ seen' = seen \cup {[t |-> elapsed[g] + d, rss |-> r]}
         /\ \/ wpc[g] = "snap" /\ wpc' = [wpc EXCEPT ![g] = "compare"]
            \/ wpc[g] = "finalSnap" /\ wpc' = [wpc EXCEPT ![g] = "finalCompare"]
  BY DEF Observe, Goto
<1>2. d \in Nat /\ elapsed[g] + d \in Nat
  BY BoundAssumption DEF TypeOK
<1>3. [t |-> elapsed[g] + d, rss |-> r] \in Sample
  BY <1>2 DEF Sample
<1>4. QED
  BY <1>1, <1>2, <1>3

\* Every step keeps the types.
LEMMA TypeStep == TypeOK /\ ReadingsSeen /\ [Next]_vars => TypeOK'
<1> SUFFICES ASSUME TypeOK, ReadingsSeen, [Next]_vars PROVE TypeOK'
  OBVIOUS
<1> USE DEF TypeOK, None
<1>1. ASSUME Begin PROVE TypeOK'
  <2>1. samples' \in Seq(Sample) /\ seen' \subseteq Sample /\ peakRss' \in Nat
    <3>1. CASE peakRss' = 0 /\ samples' = <<>> /\ seen' = {}
      BY <3>1
    <3>2. ASSUME NEW r \in Rss, peakRss' = r, samples' = <<[t |-> 0, rss |-> r]>>,
                 seen' = {[t |-> 0, rss |-> r]}, [t |-> 0, rss |-> r] \in Sample
          PROVE  samples' \in Seq(Sample) /\ seen' \subseteq Sample /\ peakRss' \in Nat
      BY <3>2, RssAssumption
    <3>3. QED
      BY <1>1, <3>1, <3>2, BeginReads
  <2>2. /\ starts + 1 \in Gen /\ starts' = starts + 1 /\ handle' = starts + 1
        /\ wpc' = [wpc EXCEPT ![starts + 1] = "head"]
        /\ ctl' = "idle" /\ stop' = FALSE /\ peakAt' = 0
        /\ UNCHANGED <<token, elapsed, rss, stride, ticks>>
    BY <1>1, BeginNumbers
  <2>3. wpc' \in [Gen -> LivePc \cup {"unborn", "done"}] /\ starts' \in 0..MaxStarts
    BY <2>2, BoundAssumption DEF LivePc, LoopPc, Gen
  <2>4. QED
    BY <2>1, <2>2, <2>3
<1>2. CASE Start
  BY <1>1, <1>2 DEF Start
<1>3. CASE RestartJoined
  BY <1>1, <1>3 DEF RestartJoined
<1>4. CASE Restart
  BY <1>4 DEF Restart, RaiseStop, localVars
<1>5. CASE Stop
  BY <1>5 DEF Stop, RaiseStop, localVars
<1>6. CASE Drop
  BY <1>6 DEF Drop, RaiseStop, localVars
<1>7. CASE StopReturns
  BY <1>7 DEF StopReturns, sharedVars, localVars
<1>8. CASE DropReturns
  BY <1>8 DEF DropReturns, sharedVars, localVars
<1>9. ASSUME NEW g \in Gen, Worker(g) \/ ParkTimesOut(g) PROVE TypeOK'
  <2> USE DEF Goto, LivePc, LoopPc, FinalPc, sharedVars, ctlVars, localVars
  <2>0. InFlight(g) => Reading(g) \in Sample /\ rss[g] \in Nat
    <3>1. InFlight(g) => Reading(g) \in Sample
      BY DEF ReadingsSeen
    <3>2. Reading(g) \in Sample => rss[g] \in Rss
      BY DEF Sample, Reading
    <3>3. QED
      BY <3>1, <3>2, RssAssumption
  <2>1. CASE WhileHead(g)
    BY <2>1 DEF WhileHead
  <2>2. CASE WokenByUnpark(g)
    BY <2>2 DEF WokenByUnpark
  <2>3. CASE ParkTimesOut(g)
    BY <2>3 DEF ParkTimesOut
  <2>4. CASE Recheck(g)
    BY <2>4 DEF Recheck
  <2>5. CASE SnapshotFails(g)
    BY <2>5 DEF SnapshotFails
  <2>6. CASE Observe(g)
    <3>1. /\ seen' \subseteq Sample /\ elapsed' \in [Gen -> Nat]
          /\ rss' \in [Gen -> Rss \cup {0}]
          /\ wpc' \in [Gen -> LivePc \cup {"unborn", "done"}]
      <4>1. PICK r \in Rss, d \in Nat :
               /\ elapsed' = [elapsed EXCEPT ![g] = elapsed[g] + d]
               /\ rss' = [rss EXCEPT ![g] = r]
               /\ seen' = seen \cup {[t |-> elapsed[g] + d, rss |-> r]}
               /\ [t |-> elapsed[g] + d, rss |-> r] \in Sample
               /\ elapsed[g] + d \in Nat
        BY <2>6, ObserveReads
      <4>2. wpc' \in [Gen -> LivePc \cup {"unborn", "done"}]
        BY <2>6 DEF Observe
      <4>3. QED
        BY <4>1, <4>2
    <3>2. QED
      BY <2>6, <3>1 DEF Observe
  <2>7. CASE StorePeakRss(g)
    <3>1. peakRss' \in Nat
      BY <2>0, <2>7 DEF StorePeakRss, InFlight
    <3>2. QED
      BY <2>7, <3>1 DEF StorePeakRss
  <2>8. CASE StorePeakAt(g)
    BY <2>8 DEF StorePeakAt
  <2>9. CASE Record(g)
    <3>1. samples' \in Seq(Sample)
      BY <2>0, <2>9, PushedInSeq DEF Record, InFlight
    <3>2. ticks' \in [Gen -> Nat] /\ stride' \in [Gen -> Nat \ {0}]
      BY <2>9 DEF Record
    <3>3. QED
      BY <2>9, <3>1, <3>2 DEF Record
  <2>10. CASE FinalRecord(g)
    <3>1. samples' \in Seq(Sample)
      BY <2>0, <2>10, PushedInSeq DEF FinalRecord, InFlight
    <3>2. QED
      BY <2>10, <3>1 DEF FinalRecord
  <2>11. QED
    BY <1>9, <2>1, <2>2, <2>3, <2>4, <2>5, <2>6, <2>7, <2>8, <2>9, <2>10 DEF Worker
<1>10. CASE UNCHANGED vars
  BY <1>10 DEF vars, sharedVars, ctlVars, localVars
<1>11. QED
  BY <1>2, <1>3, <1>4, <1>5, <1>6, <1>7, <1>8, <1>9, <1>10 DEF Next

\* A worker's steps touch no other worker's pc and no controller variable.
LEMMA WorkerLocal ==
    ASSUME TypeOK, NEW g \in Gen, Worker(g) \/ ParkTimesOut(g)
    PROVE  /\ Live(g) /\ UNCHANGED ctlVars
           /\ \E pc \in LivePc \cup {"done"} : wpc' = [wpc EXCEPT ![g] = pc]
BY DEF Worker, ParkTimesOut, WhileHead, WokenByUnpark, Recheck, SnapshotFails, Observe,
       StorePeakRss, StorePeakAt, Record, FinalRecord, Goto, ctlVars,
       Live, LivePc, LoopPc, FinalPc

\* A worker is started only when the one before has been joined or has ended.
LEMMA OneWorkerStep == TypeOK /\ OneWorker /\ [Next]_vars => OneWorker'
<1> SUFFICES ASSUME TypeOK, OneWorker, [Next]_vars PROVE OneWorker'
  OBVIOUS
<1>1. ASSUME Begin, \A g \in Gen : ~Live(g) PROVE OneWorker'
  BY <1>1, BeginNumbers DEF OneWorker, Live, TypeOK
<1>2. CASE Start
  BY <1>1, <1>2 DEF Start, OneWorker, None, Gen
<1>3. ASSUME Joined PROVE \A g \in Gen : ~Live(g)
  BY <1>3 DEF Joined, OneWorker, Live, LivePc, LoopPc, FinalPc
<1>4. CASE RestartJoined
  BY <1>1, <1>3, <1>4 DEF RestartJoined
<1>5. CASE Restart \/ Stop \/ Drop
  BY <1>5 DEF Restart, Stop, Drop, RaiseStop, OneWorker, Live, None, Gen
<1>6. CASE StopReturns \/ DropReturns
  BY <1>3, <1>6 DEF StopReturns, DropReturns, OneWorker, Live
<1>7. ASSUME NEW g \in Gen, Worker(g) \/ ParkTimesOut(g) PROVE OneWorker'
  BY <1>7, WorkerLocal DEF OneWorker, Live, ctlVars, TypeOK
<1>8. CASE UNCHANGED vars
  BY <1>8 DEF vars, ctlVars, OneWorker, Live
<1>9. QED
  BY <1>2, <1>4, <1>5, <1>6, <1>7, <1>8 DEF Next

\* What a worker holds in its hands it has read.
LEMMA ReadingsStep == TypeOK /\ OneWorker /\ ReadingsSeen /\ [Next]_vars => ReadingsSeen'
<1> SUFFICES ASSUME TypeOK, OneWorker, ReadingsSeen, [Next]_vars,
                    NEW h \in Gen, InFlight(h)'
             PROVE  Reading(h)' \in seen'
  BY DEF ReadingsSeen
<1>1. ASSUME Begin, \A g \in Gen : ~Live(g) PROVE FALSE
  BY <1>1, BeginNumbers DEF InFlight, Live, LivePc, LoopPc, FinalPc, TypeOK
<1>2. CASE Start
  BY <1>1, <1>2 DEF Start, OneWorker, None, Gen
<1>3. CASE RestartJoined
  <2>1. \A g \in Gen : ~Live(g)
    BY <1>3 DEF RestartJoined, Joined, OneWorker, Live, LivePc, LoopPc, FinalPc
  <2>2. QED
    BY <1>1, <1>3, <2>1 DEF RestartJoined
<1>4. CASE Restart \/ Stop \/ Drop \/ StopReturns \/ DropReturns \/ UNCHANGED vars
  BY <1>4 DEF Restart, Stop, Drop, RaiseStop, StopReturns, DropReturns, vars, sharedVars,
              localVars, ReadingsSeen, InFlight, Reading
<1>5. ASSUME NEW g \in Gen, Observe(g) PROVE Reading(h)' \in seen'
  <2>1. PICK r \in Rss, d \in Nat :
           /\ elapsed' = [elapsed EXCEPT ![g] = elapsed[g] + d]
           /\ rss' = [rss EXCEPT ![g] = r]
           /\ seen' = seen \cup {[t |-> elapsed[g] + d, rss |-> r]}
    BY <1>5, ObserveReads
  <2>2. CASE h = g
    BY <2>1, <2>2 DEF Reading, TypeOK
  <2>3. CASE h # g
    BY <1>5, <2>1, <2>3 DEF Observe, Goto, Reading, ReadingsSeen, InFlight, TypeOK
  <2>4. QED
    BY <2>2, <2>3
<1>6. ASSUME NEW g \in Gen, Worker(g) \/ ParkTimesOut(g), ~Observe(g)
      PROVE  Reading(h)' \in seen'
  <2>1. UNCHANGED <<elapsed, rss, seen>>
    BY <1>6 DEF Worker, ParkTimesOut, WhileHead, WokenByUnpark, Recheck, SnapshotFails,
                StorePeakRss, StorePeakAt, Record, FinalRecord, localVars
  <2>2. InFlight(h)
    BY <1>6 DEF Worker, ParkTimesOut, WhileHead, WokenByUnpark, Recheck, SnapshotFails,
                StorePeakRss, StorePeakAt, Record, FinalRecord, Goto, InFlight, TypeOK
  <2>3. QED
    BY <2>1, <2>2 DEF ReadingsSeen, Reading
<1>7. QED
  BY <1>2, <1>3, <1>4, <1>5, <1>6 DEF Next

\* Types, the single worker and its readings, together.
LEMMA TypedWorker == Spec => [](TypeOK /\ OneWorker /\ ReadingsSeen)
<1>1. TypeOK /\ OneWorker /\ ReadingsSeen /\ [Next]_vars => (TypeOK /\ OneWorker /\ ReadingsSeen)'
  BY TypeStep, OneWorkerStep, ReadingsStep
<1>2. QED
  BY TypeInit, <1>1, PTL DEF Spec

\* No step of the controller or of a worker stores anything outside a
\* variable's domain, for every capacity and every bound.
THEOREM TypeCorrect == Spec => []TypeOK
BY TypedWorker, PTL

\* No restart, stop or drop ever leaves a second worker running.
THEOREM SingleWorker == Spec => []OneWorker
BY TypedWorker, PTL

-----------------------------------------------------------------------------
(* The time series.                                                        *)

Base == TypeOK /\ OneWorker /\ ReadingsSeen

\* The steps that neither read, nor compare, nor publish anything.
Quiet ==
    \/ Restart \/ Stop \/ Drop \/ StopReturns \/ DropReturns \/ UNCHANGED vars
    \/ \E g \in Gen : \/ WhileHead(g) \/ WokenByUnpark(g) \/ ParkTimesOut(g)
                      \/ Recheck(g) \/ SnapshotFails(g)

\* A step is quiet, begins a session, or reads, publishes or records.
LEMMA NextCases ==
    ASSUME [Next]_vars, Base
    PROVE  \/ Quiet
           \/ Begin /\ \A g \in Gen : ~Live(g)
           \/ \E g \in Gen : \/ Observe(g) \/ StorePeakRss(g) \/ StorePeakAt(g)
                             \/ Record(g) \/ FinalRecord(g)
<1>1. Start => Begin /\ \A g \in Gen : ~Live(g)
  BY DEF Start, Base, OneWorker, None, Gen
<1>2. RestartJoined => Begin /\ \A g \in Gen : ~Live(g)
  BY DEF RestartJoined, Joined, Base, OneWorker, Live, LivePc, LoopPc, FinalPc
<1>3. QED
  BY <1>1, <1>2 DEF Next, Quiet, Worker

\* A quiet step moves at most a worker that has nothing in flight.
LEMMA QuietLeaves ==
    ASSUME TypeOK, Quiet
    PROVE  /\ UNCHANGED <<peakRss, peakAt, samples, seen, elapsed, rss>>
           /\ \A g \in Gen : \/ wpc'[g] = wpc[g]
                             \/ ~InFlight(g) /\ ~InFlight(g)' /\ Live(g)
           /\ PeakAtNow' = PeakAtNow
<1>1. UNCHANGED <<peakRss, peakAt, samples, seen, elapsed, rss>>
  BY DEF Quiet, Restart, Stop, Drop, RaiseStop, StopReturns, DropReturns, WhileHead,
         WokenByUnpark, ParkTimesOut, Recheck, SnapshotFails, vars, sharedVars, localVars
<1>2. \A g \in Gen : wpc'[g] = wpc[g] \/ (~InFlight(g) /\ ~InFlight(g)' /\ Live(g))
  BY DEF Quiet, Restart, Stop, Drop, RaiseStop, StopReturns, DropReturns, WhileHead,
         WokenByUnpark, ParkTimesOut, Recheck, SnapshotFails, vars, Goto, InFlight,
         Live, LivePc, LoopPc, FinalPc, TypeOK
<1>3. handle' = handle \/ (handle' = None /\ handle # None /\ wpc[handle] = "done")
  BY DEF Quiet, Restart, Stop, Drop, RaiseStop, StopReturns, DropReturns, WhileHead,
         WokenByUnpark, ParkTimesOut, Recheck, SnapshotFails, vars, ctlVars, Joined
<1>4. PeakAtNow' = PeakAtNow
  BY <1>1, <1>2, <1>3 DEF PeakAtNow, InFlight, TypeOK, None
<1>5. QED
  BY <1>1, <1>2, <1>4

\* Both ways of recording push the reading in flight or nothing.
LEMMA RecordPushes ==
    ASSUME NEW g \in Gen, Record(g) \/ FinalRecord(g)
    PROVE  /\ samples' = samples \/ samples' = Pushed(Reading(g), samples)
           /\ wpc[g] \in {"record", "finalRecord"}
           /\ wpc' = [wpc EXCEPT ![g] = IF wpc[g] = "record" THEN "head" ELSE "done"]
           /\ UNCHANGED <<peakRss, peakAt, handle, seen, elapsed, rss>>
BY DEF Record, FinalRecord, Goto, ctlVars, localVars

\* The series changes by a push of a later reading, or is begun anew.
LEMMA SamplesStep ==
    ASSUME Base, SamplesWellFormed, [Next]_vars
    PROVE  SamplesWellFormed'
<1>1. CASE Quiet
  BY <1>1, QuietLeaves DEF Base, SamplesWellFormed
<1>2. CASE Begin
  <2>1. CASE samples' = <<>>
    BY <2>1, CapAssumption DEF SamplesWellFormed
  <2>2. ASSUME NEW o, samples' = <<o>>, seen' = {o} PROVE SamplesWellFormed'
    BY <2>2, CapAssumption DEF SamplesWellFormed
  <2>3. QED
    BY <1>2, <2>1, <2>2, BeginReads
<1>3. ASSUME NEW g \in Gen, Observe(g) PROVE SamplesWellFormed'
  BY <1>3 DEF Observe, SamplesWellFormed, sharedVars
<1>4. ASSUME NEW g \in Gen, StorePeakRss(g) \/ StorePeakAt(g) PROVE SamplesWellFormed'
  BY <1>4 DEF StorePeakRss, StorePeakAt, SamplesWellFormed
<1>5. ASSUME NEW g \in Gen, Record(g) \/ FinalRecord(g) PROVE SamplesWellFormed'
  <2>1. Reading(g) \in seen /\ seen' = seen /\ seen \subseteq Sample /\ samples \in Seq(Sample)
    BY <1>5, RecordPushes DEF Base, TypeOK, ReadingsSeen, InFlight
  <2>2. CASE samples' = samples
    BY <2>1, <2>2 DEF SamplesWellFormed
  <2>3. CASE samples' = Pushed(Reading(g), samples)
    <3>1. Ordered(samples) /\ Len(samples) < Cap
      BY DEF SamplesWellFormed, Ordered
    <3>2. /\ Ordered(samples') /\ Len(samples') < Cap
          /\ \A i \in 1..Len(samples') :
                \/ samples'[i] = Reading(g)
                \/ \E j \in 1..Len(samples) : samples'[i] = samples[j]
      BY <2>1, <2>3, <3>1, PushedKeeps
    <3>3. QED
      BY <2>1, <3>2 DEF SamplesWellFormed, Ordered
  <2>4. QED
    BY <1>5, <2>2, <2>3, RecordPushes
<1>6. QED
  BY <1>1, <1>2, <1>3, <1>4, <1>5, NextCases

\* For every capacity of at least two, however many decimations and restarts
\* there were, the series is strictly increasing in time, below its capacity
\* and made of readings of the current session.
THEOREM SeriesWellFormed == Spec => []SamplesWellFormed
<1>1. Init => SamplesWellFormed
  BY CapAssumption DEF Init, SamplesWellFormed
<1>2. Base /\ SamplesWellFormed /\ [Next]_vars => SamplesWellFormed'
  BY SamplesStep
<1>3. Spec => []Base
  BY TypedWorker DEF Base
<1>4. QED
  BY <1>1, <1>2, <1>3, PTL DEF Spec

-----------------------------------------------------------------------------
(* The peak.  PeakIsFirstMaximum holds only between sessions; the          *)
(* invariant that makes it so speaks of PeakAtNow, the instant the pair     *)
(* has once the worker has finished its two stores.                        *)

Comparing(g) == wpc[g] \in {"compare", "finalCompare"}
Storing(g)   == wpc[g] \in {"storeAt", "finalStoreAt"}
Recording(g) == wpc[g] \in {"record", "finalRecord"}

\* A reading that is past the comparison does not exceed the peak.
Compared == \A g \in Gen : /\ Recording(g) => rss[g] <= peakRss
                           /\ Storing(g) => rss[g] = peakRss

\* Every reading of the session is below the peak, or about to be compared.
Covered ==
    \A o \in seen : \/ o.rss <= peakRss
                    \/ \E g \in Gen : Comparing(g) /\ o = Reading(g)

\* No reading reached the peak before the instant published for it.
First == \A o \in seen : o.rss = peakRss => o.t >= PeakAtNow

\* A running worker's clock is not behind any reading.
Latest == \A o \in seen, g \in Gen : Live(g) => o.t <= elapsed[g]

\* The peak is a reading of the session, or still unset.
Witnessed ==
    \/ peakRss = 0 /\ PeakAtNow = 0
    \/ [t |-> PeakAtNow, rss |-> peakRss] \in seen

PeakInv ==
    Compared /\ PeakCoversSamples /\ Covered /\ First /\ Latest /\ Witnessed

\* Quiet steps leave the peak and everything it is compared with alone.
LEMMA PeakQuiet == ASSUME Base, PeakInv, Quiet PROVE PeakInv'
<1>1. /\ UNCHANGED <<peakRss, peakAt, samples, seen, elapsed, rss, PeakAtNow>>
      /\ \A g \in Gen : wpc'[g] = wpc[g] \/ (~InFlight(g) /\ ~InFlight(g)' /\ Live(g))
  BY QuietLeaves DEF Base
<1>2. Compared' /\ Covered'
  BY <1>1 DEF PeakInv, Compared, Covered, Comparing, Storing, Recording, InFlight, Reading
<1>3. PeakCoversSamples' /\ First' /\ Witnessed'
  BY <1>1 DEF PeakInv, PeakCoversSamples, First, Witnessed
<1>4. Latest'
  BY <1>1 DEF PeakInv, Latest, Live
<1>5. QED
  BY <1>2, <1>3, <1>4 DEF PeakInv

\* A session begins with a peak that is its only reading, or with none.
LEMMA PeakBegin ==
    ASSUME Base, Begin, \A g \in Gen : ~Live(g)
    PROVE  PeakInv' /\ PeakAtNow' = 0
<1>1. /\ \A g \in Gen : ~InFlight(g)'
      /\ PeakAtNow' = 0
      /\ elapsed' = elapsed
  BY BeginNumbers DEF Base, TypeOK, InFlight, Live, LivePc, LoopPc, FinalPc, PeakAtNow
<1>2. Compared'
  BY <1>1 DEF Compared, InFlight, Storing, Recording
<1>3. CASE peakRss' = 0 /\ samples' = <<>> /\ seen' = {}
  BY <1>1, <1>2, <1>3 DEF PeakInv, PeakCoversSamples, Covered, First, Latest, Witnessed
<1>4. ASSUME NEW r \in Rss, peakRss' = r, samples' = <<[t |-> 0, rss |-> r]>>,
             seen' = {[t |-> 0, rss |-> r]}
      PROVE  PeakInv'
  <2>1. r \in Nat
    BY RssAssumption
  <2>2. PeakCoversSamples' /\ Covered' /\ First' /\ Witnessed'
    BY <1>1, <1>4, <2>1 DEF PeakCoversSamples, Covered, First, Witnessed
  <2>3. Latest'
    BY <1>1, <1>4 DEF Latest, Base, TypeOK
  <2>4. QED
    BY <1>2, <2>2, <2>3 DEF PeakInv
<1>5. QED
  BY <1>1, <1>3, <1>4, BeginReads

\* A reading above the peak is on its way to the two stores.
LEMMA PeakObserve ==
    ASSUME Base, PeakInv, NEW g \in Gen, Observe(g)
    PROVE  PeakInv' /\ PeakAtNow' = PeakAtNow
<1>1. PICK r \in Rss, d \in Nat :
         /\ elapsed' = [elapsed EXCEPT ![g] = elapsed[g] + d]
         /\ rss' = [rss EXCEPT ![g] = r]
         /\ seen' = seen \cup {[t |-> elapsed[g] + d, rss |-> r]}
         /\ [t |-> elapsed[g] + d, rss |-> r] \in Sample
         /\ \/ wpc[g] = "snap" /\ wpc' = [wpc EXCEPT ![g] = "compare"]
            \/ wpc[g] = "finalSnap" /\ wpc' = [wpc EXCEPT ![g] = "finalCompare"]
  BY ObserveReads DEF Base
<1>2. UNCHANGED <<peakRss, peakAt, samples, handle>> /\ r \in Nat
  BY RssAssumption DEF Observe, sharedVars, ctlVars
<1>3. handle = g /\ (\A h \in Gen : Live(h) => h = g) /\ (\A h \in Gen : Live(h)' => h = g)
  BY <1>1 DEF Base, TypeOK, OneWorker, Live, LivePc, LoopPc, FinalPc
<1>4. PeakAtNow' = PeakAtNow /\ PeakAtNow = peakAt
  BY <1>1, <1>2, <1>3 DEF PeakAtNow, Base, TypeOK
<1>5. elapsed'[g] = elapsed[g] + d /\ Reading(g)' = [t |-> elapsed[g] + d, rss |-> r]
      /\ Comparing(g)' /\ elapsed[g] \in Nat
  BY <1>1 DEF Base, TypeOK, Reading, Comparing
<1>6. \A h \in Gen : InFlight(h)' => h = g
  BY <1>3 DEF InFlight, Live, LivePc, LoopPc, FinalPc
<1>7. Compared'
  BY <1>5, <1>6 DEF Compared, Storing, Recording, Comparing, InFlight
<1>8. \A h \in Gen : ~Comparing(h)
  BY <1>1, <1>3 DEF Comparing, Live, LivePc, LoopPc, FinalPc
<1>9. Covered'
  BY <1>1, <1>2, <1>5, <1>8 DEF PeakInv, Covered
<1>10. Live(g) /\ \A o \in seen : o.t <= elapsed[g] /\ o.t \in Nat
  BY <1>1 DEF PeakInv, Latest, Live, LivePc, LoopPc, FinalPc, Base, TypeOK, Sample
<1>11. Latest'
  BY <1>1, <1>3, <1>5, <1>10 DEF Latest
<1>12. PeakAtNow <= elapsed[g] /\ PeakAtNow \in Nat
  BY <1>4, <1>5, <1>10 DEF PeakInv, Witnessed, Base, TypeOK
<1>13. First'
  BY <1>1, <1>2, <1>4, <1>5, <1>12 DEF PeakInv, First
<1>14. Witnessed' /\ PeakCoversSamples'
  BY <1>1, <1>2, <1>4 DEF PeakInv, Witnessed, PeakCoversSamples
<1>15. QED
  BY <1>4, <1>7, <1>9, <1>11, <1>13, <1>14 DEF PeakInv

\* A worker between snapshot and push is the only one running.
LEMMA InFlightAlone ==
    ASSUME Base, NEW g \in Gen, InFlight(g)
    PROVE  /\ handle = g /\ Live(g)
           /\ \A h \in Gen : Live(h) => h = g
           /\ Reading(g) \in seen /\ Reading(g) \in Sample
           /\ rss[g] \in Nat /\ elapsed[g] \in Nat /\ peakRss \in Nat /\ peakAt \in Nat
<1>1. Reading(g) \in seen /\ Reading(g) \in Sample
  BY DEF Base, TypeOK, ReadingsSeen
<1>2. rss[g] \in Rss /\ elapsed[g] \in Nat
  BY <1>1 DEF Sample, Reading
<1>3. Live(g)
  BY DEF InFlight, Live, LivePc, LoopPc, FinalPc
<1>4. QED
  BY <1>1, <1>2, <1>3, RssAssumption DEF Base, TypeOK, OneWorker

\* The first store covers the reading; its instant is still to come.
LEMMA PeakStoreRss ==
    ASSUME Base, PeakInv, NEW g \in Gen, StorePeakRss(g)
    PROVE  /\ PeakInv'
           /\ \/ peakRss' = peakRss /\ PeakAtNow' = PeakAtNow
              \/ /\ rss[g] > peakRss /\ peakRss' = rss[g] /\ PeakAtNow' = elapsed[g]
                 /\ PeakAtNow <= elapsed[g]
<1>1. /\ Comparing(g) /\ InFlight(g)
      /\ UNCHANGED <<peakAt, samples, handle, elapsed, rss, seen>>
  BY DEF StorePeakRss, Comparing, InFlight, Goto, ctlVars, localVars
<1>2. /\ handle = g /\ Live(g) /\ \A h \in Gen : Live(h) => h = g
      /\ Reading(g) \in seen
      /\ rss[g] \in Nat /\ elapsed[g] \in Nat /\ peakRss \in Nat
  BY <1>1, InFlightAlone
<1>3. PeakAtNow = peakAt
  BY <1>1, <1>2 DEF PeakAtNow, Comparing
<1>4. \A h \in Gen : h # g => wpc'[h] = wpc[h] /\ ~InFlight(h)'
  BY <1>2 DEF StorePeakRss, Goto, Base, TypeOK, InFlight, Live, LivePc, LoopPc, FinalPc
<1>5. \A o \in seen : o.rss <= peakRss \/ o = Reading(g)
  BY <1>2 DEF PeakInv, Covered, Comparing, Live, LivePc, LoopPc, FinalPc
<1>6. \A o \in seen : o.rss \in Nat /\ o.t \in Nat
  BY RssAssumption DEF Base, TypeOK, Sample
<1>7. Latest'
  BY <1>1, <1>2, <1>4 DEF PeakInv, Latest, Live, LivePc, LoopPc, FinalPc, InFlight
<1>8. CASE rss[g] > peakRss
  <2>1. peakRss' = rss[g] /\ Storing(g)'
    BY <1>8 DEF StorePeakRss, Goto, Storing, Base, TypeOK
  <2>2. PeakAtNow' = elapsed[g]
    BY <1>1, <1>2, <2>1 DEF PeakAtNow, Storing, Gen, None
  <2>3. Compared'
    BY <1>1, <1>2, <1>4, <2>1 DEF Compared, Storing, Recording, InFlight
  <2>4. Covered'
    BY <1>1, <1>2, <1>5, <1>6, <1>8, <2>1 DEF Covered, Reading
  <2>5. First'
    BY <1>1, <1>2, <1>5, <1>6, <1>8, <2>1, <2>2 DEF First, Reading
  <2>6. Witnessed'
    BY <1>1, <1>2, <2>1, <2>2 DEF Witnessed, Reading
  <2>7. PeakCoversSamples'
    <3> SUFFICES ASSUME NEW i \in 1..Len(samples) PROVE samples[i].rss <= rss[g]
      BY <1>1, <2>1 DEF PeakCoversSamples
    <3>1. samples[i] \in Sample /\ samples[i].rss <= peakRss
      BY DEF PeakInv, PeakCoversSamples, Base, TypeOK
    <3>2. samples[i].rss \in Nat
      BY <3>1, RssAssumption DEF Sample
    <3>3. QED
      BY <1>2, <1>8, <3>1, <3>2
  <2>8. PeakAtNow <= elapsed[g]
    BY <1>2 DEF PeakInv, Witnessed, Latest
  <2>9. QED
    BY <1>7, <1>8, <2>1, <2>2, <2>3, <2>4, <2>5, <2>6, <2>7, <2>8 DEF PeakInv
<1>9. CASE ~(rss[g] > peakRss)
  <2>1. peakRss' = peakRss /\ Recording(g)' /\ ~Storing(g)'
    BY <1>9 DEF StorePeakRss, Goto, Storing, Recording, Base, TypeOK
  <2>2. PeakAtNow' = PeakAtNow
    BY <1>1, <1>2, <1>3, <2>1 DEF PeakAtNow, Storing
  <2>3. Compared'
    BY <1>1, <1>2, <1>4, <1>9, <2>1 DEF Compared, Storing, Recording, InFlight
  <2>4. Covered'
    BY <1>1, <1>2, <1>5, <1>6, <1>9, <2>1 DEF Covered, Reading
  <2>5. First' /\ Witnessed' /\ PeakCoversSamples'
    BY <1>1, <2>1, <2>2 DEF PeakInv, First, Witnessed, PeakCoversSamples
  <2>6. QED
    BY <1>7, <2>1, <2>2, <2>3, <2>4, <2>5 DEF PeakInv
<1>10. QED
  BY <1>8, <1>9

\* The second store brings the instant, and the pair is whole again.
LEMMA PeakStoreAt ==
    ASSUME Base, PeakInv, NEW g \in Gen, StorePeakAt(g)
    PROVE  PeakInv' /\ PeakAtNow' = PeakAtNow /\ peakRss' = peakRss
<1>1. /\ Storing(g) /\ InFlight(g) /\ peakAt' = elapsed[g]
      /\ UNCHANGED <<peakRss, samples, handle, elapsed, rss, seen>>
  BY DEF StorePeakAt, Storing, InFlight, Goto, ctlVars, localVars
<1>2. /\ handle = g /\ Live(g) /\ \A h \in Gen : Live(h) => h = g
      /\ rss[g] \in Nat /\ rss[g] = peakRss
  BY <1>1, InFlightAlone DEF PeakInv, Compared
<1>3. Recording(g)' /\ ~Storing(g)' /\ \A h \in Gen : h # g => wpc'[h] = wpc[h] /\ ~InFlight(h)'
  BY <1>2 DEF StorePeakAt, Goto, Base, TypeOK, InFlight, Storing, Recording,
              Live, LivePc, LoopPc, FinalPc
<1>4. PeakAtNow' = PeakAtNow
  BY <1>1, <1>2, <1>3 DEF PeakAtNow, Storing, Gen, None
<1>5. Compared'
  BY <1>1, <1>2, <1>3 DEF Compared, Storing, Recording, InFlight
<1>6. \A h \in Gen : ~Comparing(h)
  BY <1>1, <1>2 DEF Comparing, Storing, Live, LivePc, LoopPc, FinalPc
<1>7. Covered' /\ First' /\ Witnessed' /\ PeakCoversSamples'
  BY <1>1, <1>4, <1>6 DEF PeakInv, Covered, First, Witnessed, PeakCoversSamples
<1>8. Latest'
  BY <1>1, <1>2, <1>3 DEF PeakInv, Latest, Live, LivePc, LoopPc, FinalPc, InFlight
<1>9. QED
  BY <1>1, <1>4, <1>5, <1>7, <1>8 DEF PeakInv

\* Recording adds a reading that the peak already covers.
LEMMA PeakRecord ==
    ASSUME Base, PeakInv, SamplesWellFormed, NEW g \in Gen, Record(g) \/ FinalRecord(g)
    PROVE  PeakInv' /\ PeakAtNow' = PeakAtNow /\ peakRss' = peakRss
<1>1. /\ samples' = samples \/ samples' = Pushed(Reading(g), samples)
      /\ Recording(g) /\ InFlight(g)
      /\ wpc' = [wpc EXCEPT ![g] = IF wpc[g] = "record" THEN "head" ELSE "done"]
      /\ UNCHANGED <<peakRss, peakAt, handle, seen, elapsed, rss>>
  BY RecordPushes DEF Recording, InFlight
<1>2. /\ handle = g /\ \A h \in Gen : Live(h) => h = g
      /\ Reading(g) \in Sample /\ rss[g] <= peakRss
  BY <1>1, InFlightAlone DEF PeakInv, Compared
<1>3. \A h \in Gen : ~InFlight(h)' /\ (Live(h)' => Live(h))
  BY <1>1, <1>2 DEF Base, TypeOK, InFlight, Live, LivePc, LoopPc, FinalPc
<1>4. PeakAtNow' = PeakAtNow
  BY <1>1, <1>2, <1>3 DEF PeakAtNow, InFlight, Recording
<1>5. Compared'
  BY <1>3 DEF Compared, Storing, Recording, InFlight
<1>6. \A h \in Gen : ~Comparing(h)
  BY <1>1, <1>2 DEF Comparing, Recording, Live, LivePc, LoopPc, FinalPc
<1>7. Covered' /\ First' /\ Witnessed' /\ Latest'
  BY <1>1, <1>3, <1>4, <1>6 DEF PeakInv, Covered, First, Witnessed, Latest
<1>8. PeakCoversSamples'
  <2>1. samples \in Seq(Sample) /\ Ordered(samples) /\ Len(samples) < Cap
    BY DEF Base, TypeOK, SamplesWellFormed, Ordered
  <2>2. \A i \in 1..Len(samples') : \/ samples'[i] = Reading(g)
                                    \/ \E j \in 1..Len(samples) : samples'[i] = samples[j]
    BY <1>1, <1>2, <2>1, PushedKeeps
  <2>3. QED
    BY <1>1, <1>2, <2>2 DEF PeakInv, PeakCoversSamples, Reading
<1>9. QED
  BY <1>1, <1>4, <1>5, <1>7, <1>8 DEF PeakInv

\* Every step keeps the peak.
LEMMA PeakStep ==
    ASSUME Base, PeakInv, SamplesWellFormed, [Next]_vars
    PROVE  PeakInv'
BY NextCases, PeakQuiet, PeakBegin, PeakObserve, PeakStoreRss, PeakStoreAt, PeakRecord

\* The peak and the series, of every reachable state.
LEMMA PeakInvariant == Spec => [](Base /\ SamplesWellFormed /\ PeakInv)
<1>1. Init => PeakInv
  BY DEF Init, PeakInv, Compared, PeakCoversSamples, Covered, First, Latest, Witnessed,
         Storing, Recording, PeakAtNow, None
<1>2. Base /\ SamplesWellFormed /\ PeakInv /\ [Next]_vars => PeakInv'
  BY PeakStep
<1>3. Spec => []Base
  BY TypedWorker DEF Base
<1>4. QED
  BY <1>1, <1>2, <1>3, SeriesWellFormed, PTL DEF Spec

\* A Python thread that reads the series while the worker runs never finds a
\* sample above the peak it reads afterwards.
THEOREM PeakCovers == Spec => []PeakCoversSamples
<1>1. PeakInv => PeakCoversSamples
  BY DEF PeakInv
<1>2. QED
  BY <1>1, PeakInvariant, PTL

\* What stop() and peak_at_ns() report is the highest reading of the session
\* and the first instant it was reached, although the two are separate
\* atomics and the series may have lost that very reading.
THEOREM PeakExact == Spec => []PeakIsFirstMaximum
<1>1. Base /\ PeakInv => PeakIsFirstMaximum
  <2> SUFFICES ASSUME Base, PeakInv, \A g \in Gen : ~Live(g)
               PROVE  IF seen = {} THEN peakRss = 0 /\ peakAt = 0
                      ELSE /\ [t |-> peakAt, rss |-> peakRss] \in seen
                           /\ \A o \in seen : o.rss <= peakRss /\ (o.rss = peakRss => o.t >= peakAt)
    BY DEF PeakIsFirstMaximum
  <2>1. PeakAtNow = peakAt /\ \A g \in Gen : ~Comparing(g)
    BY DEF PeakAtNow, Comparing, Live, LivePc, LoopPc, FinalPc, Base, TypeOK
  <2>2. \A o \in seen : o.rss <= peakRss /\ (o.rss = peakRss => o.t >= peakAt)
    BY <2>1 DEF PeakInv, Covered, First
  <2>3. \A o \in seen : o.rss \in Nat /\ o.rss # 0
    BY RssAssumption DEF Base, TypeOK, Sample
  <2>4. ASSUME NEW o \in seen PROVE peakRss # 0
    <3>1. o.rss <= peakRss /\ o.rss \in Nat /\ o.rss # 0
      BY <2>2, <2>3
    <3>2. QED
      BY <3>1
  <2>5. QED
    BY <2>1, <2>2, <2>4 DEF PeakInv, Witnessed
<1>2. QED
  BY <1>1, PeakInvariant, PTL

-----------------------------------------------------------------------------
(* Refinement.                                                             *)

\* Without a live worker the recorder is off.
LEMMA PhaseOff == ASSUME Base, \A g \in Gen : ~Live(g) PROVE Phase = "off"
BY DEF Phase, Base, TypeOK

\* Each step of the sampler is a step of the recorder, or none.
LEMMA RecorderStep ==
    ASSUME Base, Base', PeakInv, SamplesWellFormed, [Next]_vars
    PROVE  [Recorder!Next]_(Recorder!vars)
<1> DEFINE peak == [rss |-> peakRss, at |-> PeakAtNow]
<1>1. PeakAtNow \in Nat /\ PeakAtNow' \in Nat /\ peakRss \in Nat /\ peakRss' \in Nat
  BY DEF PeakAtNow, Base, TypeOK, None
<1>2. ASSUME Quiet, Phase' = Phase PROVE UNCHANGED Recorder!vars
  BY <1>2, QuietLeaves DEF Recorder!vars, Base
<1>3. ASSUME Quiet, Phase' # Phase PROVE Recorder!End
  <2>1. UNCHANGED <<peakRss, PeakAtNow>>
    BY <1>3, QuietLeaves DEF Base
  <2>2. Phase = "on" /\ Phase' = "off"
    <3>1. handle' = handle \/ (handle' = None /\ handle # None /\ wpc[handle] = "done")
      BY <1>3 DEF Quiet, Restart, Stop, Drop, RaiseStop, StopReturns, DropReturns,
             WhileHead, WokenByUnpark, ParkTimesOut, Recheck, SnapshotFails, vars,
             ctlVars, Joined
    <3>2. \A g \in Gen : wpc'[g] = wpc[g] \/ Live(g)
      BY <1>3, QuietLeaves DEF Base
    <3>3. Phase = "off" => Phase' = "off"
      BY <3>1, <3>2 DEF Phase, Live, Base, TypeOK, None
    <3>4. QED
      BY <1>3, <3>3 DEF Phase
  <2>3. QED
    BY <2>1, <2>2 DEF Recorder!End
<1>4. ASSUME Begin, \A g \in Gen : ~Live(g) PROVE Recorder!Begin
  <2>1. Phase = "off" /\ PeakAtNow' = 0
    BY <1>4, PhaseOff, PeakBegin
  <2>2. Phase' = "on"
    <3>1. /\ starts + 1 \in Gen /\ handle' = starts + 1
          /\ wpc' = [wpc EXCEPT ![starts + 1] = "head"]
      BY <1>4, BeginNumbers DEF Base
    <3>2. wpc'[handle'] = "head" /\ handle' # None
      BY <3>1 DEF Base, TypeOK, Gen, None
    <3>3. QED
      BY <3>2 DEF Phase, Live, LivePc, LoopPc
  <2>3. peakRss' = 0 \/ \E r \in Rss : peakRss' = r
    BY <1>4, BeginReads
  <2>4. QED
    BY <2>1, <2>2, <2>3 DEF Recorder!Begin, Recorder!NoPeak
<1>5. ASSUME NEW g \in Gen,
             Observe(g) \/ StorePeakRss(g) \/ StorePeakAt(g) \/ Record(g)
      PROVE  Phase = "on" /\ Phase' = "on"
  <2>1. Live(g) /\ Live(g)' /\ handle' = handle
    BY <1>5 DEF Observe, StorePeakRss, StorePeakAt, Record, Goto, ctlVars, Base, TypeOK,
                Live, LivePc, LoopPc, FinalPc
  <2>2. QED
    BY <2>1 DEF Phase, Base, OneWorker, None, Gen
<1>6. ASSUME NEW g \in Gen, Observe(g) \/ StorePeakAt(g) \/ Record(g)
      PROVE  UNCHANGED Recorder!vars
  <2>1. UNCHANGED <<peakRss, PeakAtNow>>
    BY <1>6, PeakObserve, PeakStoreAt, PeakRecord DEF Observe, sharedVars
  <2>2. QED
    BY <1>5, <1>6, <2>1 DEF Recorder!vars
<1>7. ASSUME NEW g \in Gen, FinalRecord(g) PROVE Recorder!End
  <2>1. UNCHANGED <<peakRss, PeakAtNow>>
    BY <1>7, PeakRecord
  <2>2. Phase = "on" /\ Phase' = "off"
    BY <1>7 DEF FinalRecord, Goto, ctlVars, Phase, Base, TypeOK, OneWorker, Live,
                LivePc, LoopPc, FinalPc, None, Gen
  <2>3. QED
    BY <2>1, <2>2 DEF Recorder!End
<1>8. ASSUME NEW g \in Gen, StorePeakRss(g) PROVE Recorder!Raise \/ UNCHANGED Recorder!vars
  <2>1. CASE peakRss' = peakRss /\ PeakAtNow' = PeakAtNow
    BY <1>5, <1>8, <2>1 DEF Recorder!vars
  <2>2. CASE /\ rss[g] > peakRss /\ peakRss' = rss[g] /\ PeakAtNow' = elapsed[g]
             /\ PeakAtNow <= elapsed[g]
    <3>1. Reading(g) \in Sample
      BY <1>8, InFlightAlone DEF StorePeakRss, InFlight, Goto
    <3>2. rss[g] \in Rss
      BY <3>1 DEF Sample, Reading
    <3>3. QED
      BY <1>1, <1>5, <1>8, <2>2, <3>2 DEF Recorder!Raise
  <2>3. QED
    BY <1>8, <2>1, <2>2, PeakStoreRss
<1>9. QED
  BY <1>2, <1>3, <1>4, <1>6, <1>7, <1>8, NextCases DEF Recorder!Next

\* Every behaviour of the sampler, with all its interleavings, is a
\* behaviour of the abstract PeakRecorder.
THEOREM SamplerRecordsPeak == Spec => RecordsPeak
<1>1. Init => Recorder!Init
  BY DEF Init, Recorder!Init, Recorder!NoPeak, Phase, PeakAtNow, None
<1>2. Base /\ Base' /\ PeakInv /\ SamplesWellFormed /\ [Next]_vars
         => [Recorder!Next]_(Recorder!vars)
  BY RecorderStep
<1>3. QED
  BY <1>1, <1>2, PeakInvariant, PTL DEF Spec, RecordsPeak, Recorder!Spec

-----------------------------------------------------------------------------
(* The gaps.  In units of the stride at the time: a push comes at most one  *)
(* stride after the push before it, and one and a half after a decimation   *)
(* that dropped the newest sample; two gaps that a decimation joins make at *)
(* most three strides of before, one and a half of after.                   *)

\* Twice every gap is at most b.
Gaps(s, b) == \A i \in 1..(Len(s) - 1) : 2 * (s[i + 1].t - s[i].t) <= b

\* The length of the buffer right after a decimation.
Kept == (Cap + 1) \div 2

\* The time since the newest sample, and the readings in it.
Lag(g) == elapsed[g] - samples[Len(samples)].t
Passed(g) == IF InFlight(g) THEN ticks[g] + 1 ELSE ticks[g]

\* A handle is that of the last start(); the next worker's locals are new.
Numbered ==
    /\ handle \in {None, starts}
    /\ \A g \in Gen : g > starts =>
          wpc[g] = "unborn" /\ elapsed[g] = 0 /\ stride[g] = 1 /\ ticks[g] = 0

\* The first sample is the session's first reading.
FirstInv ==
    /\ \A g \in Gen : g = starts /\ samples = <<>> =>
          /\ stride[g] = 1 /\ ticks[g] = 0
          /\ seen = IF InFlight(g) THEN {Reading(g)} ELSE {}
    /\ samples # <<>> => \A o \in seen : o.t >= samples[1].t

LagInv ==
    \A g \in Gen : g = starts /\ Live(g) /\ samples # <<>> /\ Cap > 2 =>
       /\ Len(samples) # Kept => Lag(g) <= Passed(g) * MaxStep
       /\ 2 * Lag(g) <= 2 * (Passed(g) * MaxStep) + stride[g] * MaxStep

GapInv ==
    \A g \in Gen : g = starts =>
       IF wpc[g] = "done" THEN Gaps(samples, 6 * (stride[g] * MaxStep))
       ELSE Gaps(samples, 3 * (stride[g] * MaxStep))

StrideInv ==
    Numbered /\ (\A g \in Gen : ticks[g] < stride[g]) /\ FirstInv /\ LagInv /\ GapInv

\* A short series has no gaps, and those within a bound are within a larger.
LEMMA GapsWithin ==
    ASSUME NEW s \in Seq(Sample), NEW b \in Int, NEW c \in Int, b <= c
    PROVE  /\ Len(s) < 2 => Gaps(s, b)
           /\ Gaps(s, b) => Gaps(s, c)
<1>1. Len(s) \in Nat
  OBVIOUS
<1>2. Len(s) < 2 => Gaps(s, b)
  BY <1>1 DEF Gaps
<1>3. ASSUME Gaps(s, b)  PROVE Gaps(s, c)
  <2>1. \A i \in 1..Len(s) : s[i].t \in Nat
    <3>1. \A i \in 1..Len(s) : s[i] \in Sample
      OBVIOUS
    <3>2. \A x \in Sample : x.t \in Nat
      BY DEF Sample
    <3>3. QED
      BY <3>1, <3>2
  <2> SUFFICES ASSUME NEW i \in 1..(Len(s) - 1)  PROVE 2 * (s[i + 1].t - s[i].t) <= c
    BY DEF Gaps
  <2>2. i \in 1..Len(s) /\ i + 1 \in 1..Len(s)
    BY <1>1
  <2>3. s[i].t \in Nat /\ s[i + 1].t \in Nat
    BY <2>1, <2>2
  <2>4. 2 * (s[i + 1].t - s[i].t) <= b
    BY <1>3 DEF Gaps
  <2>5. QED
    BY <2>3, <2>4
<1>4. QED
  BY <1>2, <1>3

\* The buffer with a sample more.
LEMMA LongerGaps ==
    ASSUME NEW x \in Sample, NEW s \in Seq(Sample), s # <<>>,
           NEW b \in Int, Gaps(s, b), 2 * (x.t - s[Len(s)].t) <= b
    PROVE  /\ Append(s, x) \in Seq(Sample) /\ Len(Append(s, x)) = Len(s) + 1
           /\ Append(s, x)[Len(s) + 1] = x /\ Gaps(Append(s, x), b)
           /\ \A i \in 1..Len(s) : Append(s, x)[i] = s[i]
           /\ \A i \in 1..(Len(s) + 1) : Append(s, x)[i].t \in Nat
<1>1. PICK n \in Nat : n = Len(s) /\ n >= 1
  OBVIOUS
<1>2. /\ Append(s, x) \in Seq(Sample) /\ Len(Append(s, x)) = n + 1 /\ Append(s, x)[n + 1] = x
      /\ \A i \in 1..n : Append(s, x)[i] = s[i]
  BY <1>1
<1>3. PICK l \in Seq(Sample) : l = Append(s, x) /\ Len(l) = n + 1 /\ l[n + 1] = x
                               /\ \A i \in 1..n : l[i] = s[i]
  BY <1>2
<1>4. \A i \in 1..(n + 1) : l[i].t \in Nat
  <2>1. \A i \in 1..(n + 1) : l[i] \in Sample
    BY <1>3
  <2>2. \A y \in Sample : y.t \in Nat
    BY DEF Sample
  <2>3. QED
    BY <2>1, <2>2
<1>5. ASSUME NEW i \in 1..n  PROVE 2 * (l[i + 1].t - l[i].t) <= b
  <2>1. CASE i = n
    BY <1>1, <1>3, <2>1
  <2>2. CASE i # n
    <3>1. i \in 1..(n - 1) /\ i + 1 \in 1..n
      BY <2>2
    <3>2. 2 * (s[i + 1].t - s[i].t) <= b
      BY <1>1, <3>1 DEF Gaps
    <3>3. QED
      BY <1>3, <3>1, <3>2
  <2>3. QED
    BY <2>1, <2>2
<1>6. Gaps(l, b)
  BY <1>3, <1>5 DEF Gaps
<1>7. QED
  BY <1>1, <1>3, <1>4, <1>6

\* A push that does not fill the buffer adds the sample; one that does joins
\* the gaps by two, and may drop the sample.
LEMMA PushedGaps ==
    ASSUME NEW x \in Sample, NEW s \in Seq(Sample), s # <<>>, Len(s) < Cap, Cap > 2,
           Advanced(x.t, s), NEW K \in Nat, Gaps(s, 3 * K),
           Len(s) # Kept => x.t - s[Len(s)].t <= K,
           2 * (x.t - s[Len(s)].t) <= 3 * K
    PROVE  /\ Pushed(x, s) # <<>> /\ Pushed(x, s)[1] = s[1]
           /\ ~Full(Append(s, x)) =>
                 Gaps(Pushed(x, s), 3 * K) /\ Pushed(x, s)[Len(Pushed(x, s))] = x
           /\ Full(Append(s, x)) =>
                 /\ Gaps(Pushed(x, s), 6 * K) /\ Len(Pushed(x, s)) = Kept
                 /\ x.t - Pushed(x, s)[Len(Pushed(x, s))].t <= K
<1>1. PICK n \in Nat : n = Len(s) /\ n >= 1
  OBVIOUS
<1>2. PICK l \in Seq(Sample) :
         /\ l = Append(s, x) /\ Len(l) = n + 1 /\ l[n + 1] = x /\ Gaps(l, 3 * K)
         /\ \A i \in 1..n : l[i] = s[i]
         /\ \A i \in 1..(n + 1) : l[i].t \in Nat
  <2>1. 3 * K \in Int
    OBVIOUS
  <2>2. /\ Append(s, x) \in Seq(Sample) /\ Len(Append(s, x)) = Len(s) + 1
        /\ Append(s, x)[Len(s) + 1] = x /\ Gaps(Append(s, x), 3 * K)
        /\ \A i \in 1..Len(s) : Append(s, x)[i] = s[i]
        /\ \A i \in 1..(Len(s) + 1) : Append(s, x)[i].t \in Nat
    BY <2>1, LongerGaps
  <2>3. QED
    BY <1>1, <2>2
<1>3. Cap \in Nat
  BY CapAssumption
<1>4. CASE ~Full(l)
  <2>1. Pushed(x, s) = l
    BY <1>2, <1>4 DEF Pushed
  <2>2. l # <<>> /\ l[1] = s[1] /\ l[Len(l)] = x
    BY <1>1, <1>2
  <2>3. QED
    BY <1>2, <1>4, <2>1, <2>2
<1>5. CASE Full(l)
  <2>1. Pushed(x, s) = Decimate(l) /\ n + 1 = Cap
    BY <1>1, <1>2, <1>3, <1>5 DEF Pushed, Full
  <2>2. PICK d \in Seq(Sample) :
           /\ d = Decimate(l) /\ Len(d) = (Cap + 1) \div 2
           /\ \A i \in 1..Len(d) : 2 * i - 1 \in 1..(n + 1) /\ d[i] = l[2 * i - 1]
    <3>1. /\ Decimate(l) \in Seq(Sample) /\ Len(Decimate(l)) = (Len(l) + 1) \div 2
          /\ \A i \in 1..Len(Decimate(l)) :
                2 * i - 1 \in 1..Len(l) /\ Decimate(l)[i] = l[2 * i - 1]
      BY DecimateKeeps
    <3>2. QED
      BY <1>2, <2>1, <3>1
  <2>3. PICK k \in Nat : k = Len(d) /\ k = Kept /\ k >= 1 /\ (n + 1 = 2 * k \/ n + 1 = 2 * k - 1)
    <3>1. Kept \in Nat /\ (Cap = 2 * Kept \/ Cap = 2 * Kept - 1) /\ Kept >= 1
      BY <1>3, CapAssumption DEF Kept
    <3>2. Len(d) = Kept
      BY <2>2 DEF Kept
    <3>3. QED
      BY <2>1, <3>1, <3>2
  <2>4. \A i \in 1..k : d[i] = l[2 * i - 1] /\ 2 * i - 1 \in 1..(n + 1)
    BY <2>2, <2>3
  <2>5. d # <<>> /\ d[1] = s[1]
    <3>1. 1 \in 1..k /\ 2 * 1 - 1 = 1 /\ 1 \in 1..n
      BY <1>1, <2>3
    <3>2. d[1] = l[1]
      BY <2>4, <3>1
    <3>3. QED
      BY <1>2, <2>2, <2>3, <3>1, <3>2
  <2>6. ASSUME NEW i \in 1..(k - 1)  PROVE 2 * (d[i + 1].t - d[i].t) <= 6 * K
    <3>1. PICK j \in 1..n : j = 2 * i - 1 /\ j + 1 \in 1..n /\ j + 2 \in 1..(n + 1)
      <4>1. 2 * i - 1 \in 1..n /\ (2 * i - 1) + 1 \in 1..n /\ (2 * i - 1) + 2 \in 1..(n + 1)
        BY <2>3
      <4>2. QED
        BY <4>1
    <3>2. d[i] = l[j] /\ d[i + 1] = l[j + 2]
      <4>1. i \in 1..k /\ i + 1 \in 1..k /\ 2 * (i + 1) - 1 = j + 2
        BY <2>3, <3>1
      <4>2. QED
        BY <2>4, <3>1, <4>1
    <3>3. 2 * (l[j + 1].t - l[j].t) <= 3 * K /\ 2 * (l[(j + 1) + 1].t - l[j + 1].t) <= 3 * K
      BY <1>2, <3>1 DEF Gaps
    <3>4. (j + 1) + 1 = j + 2 /\ j \in 1..(n + 1) /\ j + 1 \in 1..(n + 1)
      BY <3>1
    <3>5. l[j].t \in Nat /\ l[j + 1].t \in Nat /\ l[j + 2].t \in Nat
      BY <1>2, <3>1, <3>4
    <3>6. 2 * (l[j + 2].t - l[j + 1].t) <= 3 * K
      BY <3>3, <3>4
    <3>7. \A u, v, w \in Nat : 2 * (v - u) <= 3 * K /\ 2 * (w - v) <= 3 * K
                                => 2 * (w - u) <= 6 * K
      OBVIOUS
    <3>8. 2 * (l[j + 2].t - l[j].t) <= 6 * K
      BY <3>3, <3>5, <3>6, <3>7
    <3>9. QED
      BY <3>2, <3>8
  <2>7. Gaps(d, 6 * K)
    BY <2>3, <2>6 DEF Gaps
  <2>8. x.t - d[k].t <= K
    <3>1. k \in 1..k /\ x.t \in Nat
      BY <2>3 DEF Sample
    <3>2. d[k] = l[2 * k - 1]
      BY <2>4, <3>1
    <3>3. CASE n + 1 = 2 * k - 1
      BY <1>2, <3>1, <3>2, <3>3
    <3>4. CASE n + 1 = 2 * k
      <4>1. n = 2 * k - 1 /\ n \in 1..n /\ n # k
        BY <1>1, <1>3, <2>1, <3>4
      <4>2. d[k] = s[n]
        BY <1>2, <3>2, <4>1
      <4>3. QED
        BY <1>1, <2>3, <4>1, <4>2
    <3>5. QED
      BY <2>3, <3>3, <3>4
  <2>9. QED
    BY <1>2, <1>5, <2>1, <2>2, <2>3, <2>5, <2>7, <2>8
<1>6. QED
  BY <1>2, <1>4, <1>5

\* Before the first session there are no gaps.
LEMMA StrideInit == Init => StrideInv
<1> SUFFICES ASSUME Init  PROVE StrideInv
  OBVIOUS
<1>1. /\ samples = <<>> /\ handle = None /\ starts = 0 /\ seen = {}
      /\ wpc = [g \in Gen |-> "unborn"] /\ elapsed = [g \in Gen |-> 0]
      /\ stride = [g \in Gen |-> 1] /\ ticks = [g \in Gen |-> 0]
  BY DEF Init
<1>2. \A g \in Gen : g # starts
  BY <1>1 DEF Gen
<1>3. QED
  BY <1>1, <1>2 DEF StrideInv, Numbered, FirstInv, LagInv, GapInv

\* A step that publishes nothing: workers stay where they are, move without
\* or with a reading in flight, or end.
LEMMA StrideMoves ==
    ASSUME Base, StrideInv, UNCHANGED <<samples, starts, localVars, seen>>,
           handle' \in {handle, None},
           \A g \in Gen : \/ wpc'[g] = wpc[g]
                          \/ /\ Live(g) /\ (InFlight(g)' <=> InFlight(g))
                             /\ wpc'[g] # "unborn"
    PROVE  StrideInv'
<1>1. \A g \in Gen : /\ InFlight(g)' <=> InFlight(g)
                     /\ wpc[g] = "done" => wpc'[g] = "done"
                     /\ wpc[g] = "unborn" => wpc'[g] = "unborn"
                     /\ Live(g)' => Live(g)
  BY DEF InFlight, Live, LivePc, LoopPc, FinalPc
<1>2. UNCHANGED <<samples, starts, elapsed, rss, stride, ticks, seen>>
  BY DEF localVars
<1>3. Numbered'
  BY <1>1, <1>2 DEF StrideInv, Numbered
<1>4. FirstInv'
  BY <1>1, <1>2 DEF StrideInv, FirstInv, Reading
<1>5. LagInv'
  BY <1>1, <1>2 DEF StrideInv, LagInv, Lag, Passed
<1>6. GapInv'
  <2> SUFFICES ASSUME NEW g \in Gen, g = starts
               PROVE  IF wpc'[g] = "done" THEN Gaps(samples, 6 * (stride[g] * MaxStep))
                      ELSE Gaps(samples, 3 * (stride[g] * MaxStep))
    BY <1>2 DEF GapInv
  <2>1. IF wpc[g] = "done" THEN Gaps(samples, 6 * (stride[g] * MaxStep))
        ELSE Gaps(samples, 3 * (stride[g] * MaxStep))
    BY DEF StrideInv, GapInv
  <2>2. PICK K \in Nat : K = stride[g] * MaxStep
    BY BoundAssumption DEF Base, TypeOK
  <2>3. samples \in Seq(Sample) /\ 3 * K \in Int /\ 6 * K \in Int /\ 3 * K <= 6 * K
    BY DEF Base, TypeOK
  <2>4. Gaps(samples, 3 * K) => Gaps(samples, 6 * K)
    BY <2>3, GapsWithin
  <2>5. QED
    BY <1>1, <2>1, <2>2, <2>4
<1>7. QED
  BY <1>2, <1>3, <1>4, <1>5, <1>6 DEF StrideInv

\* Ticks count up to the stride and no further.
LEMMA StrideQuiet == ASSUME Base, StrideInv, Quiet PROVE StrideInv'
<1>1. UNCHANGED <<samples, starts, localVars, seen>>
  BY DEF Quiet, Restart, Stop, Drop, RaiseStop, StopReturns, DropReturns, WhileHead,
         WokenByUnpark, ParkTimesOut, Recheck, SnapshotFails, vars, sharedVars, ctlVars, localVars
<1>2. handle' \in {handle, None}
  BY DEF Quiet, Restart, Stop, Drop, RaiseStop, StopReturns, DropReturns, WhileHead,
         WokenByUnpark, ParkTimesOut, Recheck, SnapshotFails, vars, ctlVars
<1>3. \A g \in Gen : \/ wpc'[g] = wpc[g]
                     \/ ~InFlight(g) /\ ~InFlight(g)' /\ Live(g)
  BY QuietLeaves DEF Base
<1>4. \A g \in Gen : Live(g) => wpc'[g] # "unborn"
  BY DEF Quiet, Restart, Stop, Drop, RaiseStop, StopReturns, DropReturns, WhileHead,
         WokenByUnpark, ParkTimesOut, Recheck, SnapshotFails, vars, Goto,
         Live, LivePc, LoopPc, FinalPc, Base, TypeOK
<1>5. QED
  BY <1>1, <1>2, <1>3, <1>4, StrideMoves

\* The stores touch neither the series nor the ticks.
LEMMA StrideStore ==
    ASSUME Base, StrideInv, NEW g \in Gen, StorePeakRss(g) \/ StorePeakAt(g)
    PROVE  StrideInv'
<1>1. UNCHANGED <<samples, starts, handle, localVars, seen>>
  BY DEF StorePeakRss, StorePeakAt, ctlVars
<1>2. \A h \in Gen : \/ wpc'[h] = wpc[h]
                     \/ /\ Live(h) /\ (InFlight(h)' <=> InFlight(h)) /\ wpc'[h] # "unborn"
  BY DEF StorePeakRss, StorePeakAt, Goto, InFlight, Live, LivePc, LoopPc, FinalPc, Base, TypeOK
<1>3. QED
  BY <1>1, <1>2, StrideMoves

\* A session begins at the baseline, or without one.
LEMMA StrideBegin ==
    ASSUME Base, StrideInv, Begin, \A g \in Gen : ~Live(g)
    PROVE  StrideInv'
<1>1. PICK n \in Gen : /\ n = starts + 1 /\ starts' = n /\ handle' = n
                       /\ wpc' = [wpc EXCEPT ![n] = "head"]
  BY BeginNumbers DEF Base, Begin, TypeOK, Gen
<1>2. UNCHANGED <<elapsed, rss, stride, ticks>>
  BY DEF Begin, localVars
<1>3. /\ elapsed[n] = 0 /\ stride[n] = 1 /\ ticks[n] = 0 /\ wpc'[n] = "head"
      /\ \A g \in Gen : g > n => g # n /\ g > starts /\ wpc'[g] = wpc[g]
  BY <1>1 DEF StrideInv, Numbered, Base, TypeOK, Gen
<1>4. Numbered'
  BY <1>1, <1>2, <1>3 DEF StrideInv, Numbered
<1>5. \A g \in Gen : ticks'[g] < stride'[g]
  BY <1>2 DEF StrideInv
<1>6. ~InFlight(n)'
  BY <1>3 DEF InFlight
<1>7. PICK K \in Nat : K = stride[n] * MaxStep /\ K = MaxStep
  BY <1>3, BoundAssumption
<1>8. CASE samples' = <<>> /\ seen' = {}
  <2>1. FirstInv'
    BY <1>1, <1>2, <1>3, <1>6, <1>8 DEF FirstInv
  <2>2. LagInv' /\ GapInv'
    BY <1>8 DEF LagInv, GapInv, Gaps
  <2>3. QED
    BY <1>4, <1>5, <2>1, <2>2 DEF StrideInv
<1>9. ASSUME NEW r \in Rss, samples' = <<[t |-> 0, rss |-> r]>>, seen' = {[t |-> 0, rss |-> r]}
      PROVE  StrideInv'
  <2>1. samples' # <<>> /\ samples'[1].t = 0 /\ Len(samples') = 1
    BY <1>9
  <2>2. FirstInv'
    BY <1>9, <2>1 DEF FirstInv
  <2>3. LagInv'
    <3>1. Lag(n)' = 0 /\ Passed(n)' = 0
      BY <1>2, <1>3, <1>6, <2>1 DEF Lag, Passed
    <3>2. Passed(n)' * MaxStep = 0
      BY <3>1, BoundAssumption
    <3>3. 2 * Lag(n)' <= 2 * (Passed(n)' * MaxStep) + K /\ Lag(n)' <= Passed(n)' * MaxStep
      BY <3>1, <3>2
    <3>4. QED
      BY <1>1, <1>2, <1>7, <3>3 DEF LagInv
  <2>4. GapInv'
    BY <2>1 DEF GapInv, Gaps
  <2>5. QED
    BY <1>4, <1>5, <2>2, <2>3, <2>4 DEF StrideInv
<1>10. QED
  BY <1>8, <1>9, BeginReads

\* The worker in charge, its clock and the samples behind it.
LEMMA Running ==
    ASSUME Base, SamplesWellFormed, PeakInv, StrideInv, NEW g \in Gen, Live(g)
    PROVE  /\ g = starts /\ g = handle /\ \A h \in Gen : h > starts => h # g
           /\ elapsed[g] \in Nat /\ stride[g] \in Nat \ {0} /\ ticks[g] \in Nat
           /\ samples \in Seq(Sample) /\ Len(samples) \in Nat /\ Len(samples) < Cap
           /\ samples # <<>> => /\ Len(samples) >= 1
                                /\ samples[1].t \in Nat /\ samples[1].t <= elapsed[g]
                                /\ samples[Len(samples)].t \in Nat
                                /\ samples[Len(samples)].t <= elapsed[g]
<1>1. g = starts /\ g = handle
  BY DEF Base, OneWorker, StrideInv, Numbered, Gen, None
<1>2. /\ elapsed[g] \in Nat /\ stride[g] \in Nat \ {0} /\ ticks[g] \in Nat
      /\ samples \in Seq(Sample) /\ seen \subseteq Sample /\ starts \in Nat
  BY DEF Base, TypeOK
<1>3. Len(samples) \in Nat /\ Len(samples) < Cap
  BY <1>2 DEF SamplesWellFormed
<1>4. \A o \in seen : o.t \in Nat /\ o.t <= elapsed[g]
  BY <1>2 DEF PeakInv, Latest, Sample
<1>5. \A i \in 1..Len(samples) : samples[i].t \in Nat /\ samples[i].t <= elapsed[g]
  BY <1>4 DEF SamplesWellFormed
<1>6. samples # <<>> => Len(samples) >= 1 /\ 1 \in 1..Len(samples) /\ Len(samples) \in 1..Len(samples)
  BY <1>2
<1>7. QED
  BY <1>1, <1>2, <1>3, <1>5, <1>6

\* The clock advances by a step at most for each tick.
LEMMA StrideObserve ==
    ASSUME Base, SamplesWellFormed, PeakInv, StrideInv, NEW g \in Gen, Observe(g)
    PROVE  StrideInv'
<1>1. PICK r \in Rss, d \in MinStep..MaxStep :
         /\ Goto(g, "snap", "compare") \/ Goto(g, "finalSnap", "finalCompare")
         /\ elapsed' = [elapsed EXCEPT ![g] = elapsed[g] + d]
         /\ rss' = [rss EXCEPT ![g] = r]
         /\ seen' = seen \cup {[t |-> elapsed[g] + d, rss |-> r]}
         /\ UNCHANGED <<sharedVars, ctlVars, stride, ticks>>
  BY DEF Observe
<1>2. UNCHANGED <<samples, handle, starts, stride, ticks>>
  BY <1>1 DEF sharedVars, ctlVars
<1>3. /\ Live(g) /\ ~InFlight(g) /\ InFlight(g)' /\ Live(g)' /\ wpc[g] # "done" /\ wpc'[g] # "done"
      /\ \A h \in Gen : h # g => wpc'[h] = wpc[h]
  BY <1>1 DEF Goto, InFlight, Live, LivePc, LoopPc, FinalPc, Base, TypeOK
<1>4. /\ g = starts /\ g = handle /\ \A h \in Gen : h > starts => h # g
      /\ elapsed[g] \in Nat /\ stride[g] \in Nat \ {0} /\ ticks[g] \in Nat
      /\ samples # <<>> => /\ samples[1].t \in Nat /\ samples[1].t <= elapsed[g]
                           /\ samples[Len(samples)].t \in Nat
                           /\ samples[Len(samples)].t <= elapsed[g]
  BY <1>3, Running
<1>5. /\ elapsed'[g] = elapsed[g] + d /\ rss'[g] = r /\ d \in Nat /\ d <= MaxStep
      /\ \A h \in Gen : h # g => elapsed'[h] = elapsed[h]
  BY <1>1, BoundAssumption DEF Base, TypeOK
<1>6. Numbered'
  BY <1>2, <1>3, <1>4, <1>5 DEF StrideInv, Numbered
<1>7. FirstInv'
  <2>1. ASSUME samples = <<>>
        PROVE  stride[g] = 1 /\ ticks[g] = 0 /\ seen' = {Reading(g)'}
    <3>1. stride[g] = 1 /\ ticks[g] = 0 /\ seen = {}
      BY <1>3, <1>4, <2>1 DEF StrideInv, FirstInv
    <3>2. Reading(g)' = [t |-> elapsed[g] + d, rss |-> r]
      BY <1>5 DEF Reading
    <3>3. QED
      BY <1>1, <3>1, <3>2
  <2>2. ASSUME samples # <<>>, NEW o \in seen'  PROVE o.t >= samples[1].t
    <3>1. CASE o \in seen
      BY <2>2, <3>1 DEF StrideInv, FirstInv
    <3>2. CASE o = [t |-> elapsed[g] + d, rss |-> r]
      <4>1. o.t = elapsed[g] + d
        BY <3>2
      <4>2. QED
        BY <1>4, <1>5, <2>2, <4>1
    <3>3. QED
      BY <1>1, <3>1, <3>2
  <2>3. QED
    BY <1>2, <1>3, <1>4, <2>1, <2>2 DEF FirstInv
<1>8. LagInv'
  <2> SUFFICES ASSUME samples # <<>>, Cap > 2
               PROVE  /\ Len(samples) # Kept => Lag(g)' <= Passed(g)' * MaxStep
                      /\ 2 * Lag(g)' <= 2 * (Passed(g)' * MaxStep) + stride[g] * MaxStep
    BY <1>2, <1>4 DEF LagInv
  <2>1. /\ Len(samples) # Kept => Lag(g) <= ticks[g] * MaxStep
        /\ 2 * Lag(g) <= 2 * (ticks[g] * MaxStep) + stride[g] * MaxStep
    BY <1>3, <1>4 DEF StrideInv, LagInv, Passed
  <2>2. PICK A \in Nat, K \in Nat, L \in Nat :
           A = ticks[g] * MaxStep /\ K = stride[g] * MaxStep /\ L = Lag(g)
    BY <1>4, BoundAssumption DEF Lag
  <2>3. Passed(g)' * MaxStep = A + MaxStep
    <3>1. Passed(g)' = ticks[g] + 1
      BY <1>2, <1>3 DEF Passed
    <3>2. \A a, m \in Nat : (a + 1) * m = a * m + m
      OBVIOUS
    <3>3. QED
      BY <1>4, <2>2, <3>1, <3>2, BoundAssumption
  <2>4. Lag(g)' = L + d
    BY <1>2, <1>4, <1>5, <2>2 DEF Lag
  <2>5. \A e, m, a, k, l \in Nat : e <= m =>
           /\ l <= a => l + e <= a + m
           /\ 2 * l <= 2 * a + k => 2 * (l + e) <= 2 * (a + m) + k
    OBVIOUS
  <2>6. MaxStep \in Nat
    BY BoundAssumption
  <2>7. /\ L <= A => L + d <= A + MaxStep
        /\ 2 * L <= 2 * A + K => 2 * (L + d) <= 2 * (A + MaxStep) + K
    BY <1>5, <2>5, <2>6
  <2>8. QED
    BY <2>1, <2>2, <2>3, <2>4, <2>7
<1>9. GapInv'
  BY <1>2, <1>3, <1>4 DEF StrideInv, GapInv
<1>10. QED
  BY <1>2, <1>6, <1>7, <1>8, <1>9 DEF StrideInv

\* What a worker that records knows of the sample it may push: how far it is
\* from the newest, and that it is the first when the buffer is empty.
LEMMA StridePush ==
    ASSUME Base, SamplesWellFormed, PeakInv, StrideInv, NEW g \in Gen,
           wpc[g] \in {"record", "finalRecord"}, NEW K, K = stride[g] * MaxStep,
           Advanced(elapsed[g], samples), NEW p, p = Pushed(Reading(g), samples)
    PROVE  /\ p # <<>> /\ p \in Seq(Sample) /\ \A o \in seen : o.t >= p[1].t
           /\ ~Full(Append(samples, Reading(g))) =>
                 Gaps(p, 3 * K) /\ p[Len(p)].t = elapsed[g]
           /\ Full(Append(samples, Reading(g))) /\ Cap > 2 =>
                 /\ Gaps(p, 6 * K) /\ Len(p) = Kept
                 /\ elapsed[g] - p[Len(p)].t <= K
           /\ Cap = 2 => Len(p) < 2
<1>1. InFlight(g) /\ Live(g) /\ wpc[g] # "done"
  BY DEF InFlight, Live, LivePc, LoopPc, FinalPc
<1>2. /\ g = starts /\ elapsed[g] \in Nat /\ stride[g] \in Nat \ {0} /\ ticks[g] \in Nat
      /\ samples \in Seq(Sample) /\ Len(samples) \in Nat /\ Len(samples) < Cap
      /\ samples # <<>> => /\ Len(samples) >= 1 /\ samples[1].t \in Nat
                           /\ samples[Len(samples)].t \in Nat
                           /\ samples[Len(samples)].t <= elapsed[g]
  BY <1>1, Running
<1>3. PICK x \in Sample : x = Reading(g) /\ x.t = elapsed[g] /\ x \in seen
  BY <1>1 DEF Base, TypeOK, ReadingsSeen, Reading
<1>4. Cap \in Nat /\ Cap >= 2 /\ K \in Nat
  BY <1>2, CapAssumption, BoundAssumption
<1>5. p \in Seq(Sample) /\ Len(p) < Cap
  <2>1. Ordered(samples)
    BY DEF SamplesWellFormed, Ordered
  <2>2. QED
    BY <1>2, <1>3, <2>1, PushedKeeps
<1>6. Append(samples, Reading(g)) = Append(samples, x) /\ p = Pushed(x, samples)
  BY <1>3
<1>7. CASE samples = <<>>
  <2>1. Append(samples, x) = <<x>> /\ Len(<<x>>) = 1 /\ <<x>>[1] = x
    BY <1>7
  <2>2. ~Full(Append(samples, x)) /\ Advanced(x.t, samples)
    BY <1>4, <1>7, <2>1 DEF Full, Advanced
  <2>3. p = <<x>>
    BY <1>6, <2>1, <2>2 DEF Pushed
  <2>4. seen = {x}
    BY <1>1, <1>2, <1>3, <1>7 DEF StrideInv, FirstInv
  <2>5. p # <<>> /\ Len(p) = 1 /\ p[1] = x
    BY <2>1, <2>3
  <2>6. Gaps(p, 3 * K)
    BY <2>5 DEF Gaps
  <2>7. x.t \in Nat /\ \A o \in seen : o.t >= p[1].t
    BY <1>2, <1>3, <2>4, <2>5
  <2>8. QED
    BY <1>3, <1>5, <1>6, <2>2, <2>5, <2>6, <2>7
<1>8. CASE samples # <<>> /\ Cap = 2
  <2>1. PICK n \in Nat : n = Len(samples) /\ n = 1
    <3>1. \A m \in Nat : m >= 1 /\ m < 2 => m = 1
      OBVIOUS
    <3>2. Len(samples) = 1
      BY <1>2, <1>8, <3>1
    <3>3. QED
      BY <3>2
  <2>2. /\ Append(samples, x) \in Seq(Sample) /\ Len(Append(samples, x)) = 2
        /\ Append(samples, x)[1] = samples[1]
    <3>1. /\ Append(samples, x) \in Seq(Sample)
          /\ Len(Append(samples, x)) = Len(samples) + 1
          /\ \A i \in 1..Len(samples) : Append(samples, x)[i] = samples[i]
      BY <1>2
    <3>2. QED
      BY <2>1, <3>1
  <2>3. Full(Append(samples, x)) /\ Advanced(x.t, samples)
    BY <1>3, <1>8, <2>2 DEF Full
  <2>4. p = Decimate(Append(samples, x))
    BY <1>6, <2>3 DEF Pushed
  <2>5. /\ Len(p) = (Len(Append(samples, x)) + 1) \div 2
        /\ \A i \in 1..Len(p) : p[i] = Append(samples, x)[2 * i - 1]
    <3>1. PICK l \in Seq(Sample) : l = Append(samples, x)
      BY <2>2
    <3>2. /\ Len(Decimate(l)) = (Len(l) + 1) \div 2
          /\ \A i \in 1..Len(Decimate(l)) : Decimate(l)[i] = l[2 * i - 1]
      BY DecimateKeeps
    <3>3. QED
      BY <2>4, <3>1, <3>2
  <2>6. (2 + 1) \div 2 = 1 /\ 2 * 1 - 1 = 1 /\ 1 \in 1..1
    OBVIOUS
  <2>7. Len(p) = 1
    BY <2>2, <2>5, <2>6
  <2>8. p[1] = samples[1]
    BY <2>2, <2>5, <2>6, <2>7
  <2>9. \A o \in seen : o.t >= samples[1].t
    BY <1>8 DEF StrideInv, FirstInv
  <2>10. p # <<>>
    <3>1. Len(<<>>) # 1
      OBVIOUS
    <3>2. QED
      BY <2>7, <3>1
  <2>11. QED
    BY <1>5, <1>6, <1>8, <2>3, <2>7, <2>8, <2>9, <2>10
<1>9. CASE samples # <<>> /\ Cap > 2
  <2>1. PICK L \in Nat : L = elapsed[g] - samples[Len(samples)].t
    BY <1>2, <1>9
  <2>2. PICK A \in Nat : A = Passed(g) * MaxStep /\ A <= K
    <3>1. Passed(g) \in Nat /\ Passed(g) <= stride[g]
      <4>1. ticks[g] < stride[g]
        BY DEF StrideInv
      <4>2. QED
        BY <1>1, <1>2, <4>1 DEF Passed
    <3>2. \A a, b, m \in Nat : a <= b => a * m <= b * m
      OBVIOUS
    <3>3. Passed(g) * MaxStep \in Nat /\ Passed(g) * MaxStep <= stride[g] * MaxStep
      BY <1>2, <3>1, <3>2, BoundAssumption
    <3>4. QED
      BY <3>3
  <2>3. /\ Len(samples) # Kept => L <= A
        /\ 2 * L <= 2 * A + K
    <3>1. Lag(g) = L
      BY <2>1 DEF Lag
    <3>2. /\ Len(samples) # Kept => Lag(g) <= Passed(g) * MaxStep
          /\ 2 * Lag(g) <= 2 * (Passed(g) * MaxStep) + stride[g] * MaxStep
      BY <1>1, <1>2, <1>9 DEF StrideInv, LagInv
    <3>3. QED
      BY <2>2, <3>1, <3>2
  <2>4. (Len(samples) # Kept => L <= K) /\ 2 * L <= 3 * K
    BY <1>4, <2>1, <2>2, <2>3
  <2>5. x.t - samples[Len(samples)].t = L
    BY <1>3, <2>1
  <2>6. /\ Len(samples) # Kept => x.t - samples[Len(samples)].t <= K
        /\ 2 * (x.t - samples[Len(samples)].t) <= 3 * K
    BY <2>4, <2>5
  <2>7. Gaps(samples, 3 * K)
    BY <1>1, <1>2 DEF StrideInv, GapInv
  <2>8. Advanced(x.t, samples)
    BY <1>3
  <2>9. /\ p # <<>> /\ p[1] = samples[1]
        /\ ~Full(Append(samples, x)) => Gaps(p, 3 * K) /\ p[Len(p)] = x
        /\ Full(Append(samples, x)) => /\ Gaps(p, 6 * K) /\ Len(p) = Kept
                                       /\ x.t - p[Len(p)].t <= K
    <3>1. PICK k \in Nat : k = K
      BY <1>4
    <3>2. /\ samples \in Seq(Sample) /\ samples # <<>> /\ Len(samples) < Cap /\ Cap > 2
          /\ Advanced(x.t, samples) /\ Gaps(samples, 3 * k)
          /\ Len(samples) # Kept => x.t - samples[Len(samples)].t <= k
          /\ 2 * (x.t - samples[Len(samples)].t) <= 3 * k
      BY <1>2, <1>9, <2>6, <2>7, <2>8, <3>1
    <3>3. /\ Pushed(x, samples) # <<>> /\ Pushed(x, samples)[1] = samples[1]
          /\ ~Full(Append(samples, x)) =>
                /\ Gaps(Pushed(x, samples), 3 * k)
                /\ Pushed(x, samples)[Len(Pushed(x, samples))] = x
          /\ Full(Append(samples, x)) =>
                /\ Gaps(Pushed(x, samples), 6 * k) /\ Len(Pushed(x, samples)) = Kept
                /\ x.t - Pushed(x, samples)[Len(Pushed(x, samples))].t <= k
      BY <3>2, PushedGaps
    <3>4. QED
      BY <1>6, <3>1, <3>3
  <2>10. \A o \in seen : o.t >= samples[1].t
    BY <1>9 DEF StrideInv, FirstInv
  <2>11. QED
    BY <1>3, <1>5, <1>6, <1>9, <2>9, <2>10
<1>10. QED
  BY <1>4, <1>7, <1>8, <1>9

\* Pushing or not, a worker that records starts counting anew when a reading
\* was due, and a decimation doubles its stride.
LEMMA StrideRecord ==
    ASSUME Base, SamplesWellFormed, PeakInv, StrideInv, NEW g \in Gen, Record(g)
    PROVE  StrideInv'
<1> DEFINE due == ticks[g] + 1 >= stride[g]
           fills == Full(Append(samples, Reading(g)))
           moved == Advanced(Reading(g).t, samples)
<1>1. /\ wpc[g] = "record" /\ wpc' = [wpc EXCEPT ![g] = "head"]
      /\ ticks' = [ticks EXCEPT ![g] = IF due THEN 0 ELSE @ + 1]
      /\ samples' = IF due THEN Pushed(Reading(g), samples) ELSE samples
      /\ stride' = [stride EXCEPT ![g] = IF due /\ moved /\ fills THEN 2 * @ ELSE @]
      /\ UNCHANGED <<handle, starts, elapsed, seen>>
  BY DEF Record, Goto, ctlVars
<1> HIDE DEF due, fills, moved
<1>2. /\ InFlight(g) /\ Live(g) /\ wpc[g] # "done" /\ Passed(g) = ticks[g] + 1
      /\ ~InFlight(g)' /\ wpc'[g] = "head" /\ \A h \in Gen : h # g => wpc'[h] = wpc[h]
  BY <1>1 DEF InFlight, Live, LivePc, LoopPc, FinalPc, Base, TypeOK, Passed
<1>3. /\ g = starts /\ \A h \in Gen : h > starts => h # g
      /\ elapsed[g] \in Nat /\ stride[g] \in Nat \ {0} /\ ticks[g] \in Nat
      /\ samples \in Seq(Sample) /\ Len(samples) < Cap
      /\ samples # <<>> => /\ samples[Len(samples)].t \in Nat
                           /\ samples[Len(samples)].t <= elapsed[g]
  BY <1>2, Running
<1>4. PICK K \in Nat : K = stride[g] * MaxStep
  BY <1>3, BoundAssumption
<1>5. /\ ticks'[g] = IF due THEN 0 ELSE ticks[g] + 1
      /\ stride'[g] = IF due /\ moved /\ fills THEN 2 * stride[g] ELSE stride[g]
      /\ \A h \in Gen : h # g => ticks'[h] = ticks[h] /\ stride'[h] = stride[h]
      /\ Passed(g)' = ticks'[g]
  BY <1>1, <1>2 DEF Base, TypeOK, Passed
<1>6. Numbered'
  BY <1>1, <1>2, <1>3, <1>5 DEF StrideInv, Numbered
<1>7. \A h \in Gen : ticks'[h] < stride'[h]
  <2>1. CASE due
    BY <1>3, <1>5, <2>1 DEF StrideInv
  <2>2. CASE ~due
    BY <1>3, <1>5, <2>2 DEF StrideInv, due
  <2>3. QED
    BY <2>1, <2>2
<1>8. /\ samples # <<>> /\ Cap > 2 =>
            /\ Len(samples) # Kept => Lag(g) <= (ticks[g] + 1) * MaxStep
            /\ 2 * Lag(g) <= 2 * ((ticks[g] + 1) * MaxStep) + K
      /\ Gaps(samples, 3 * K)
      /\ samples # <<>> => \A o \in seen : o.t >= samples[1].t
      /\ samples = <<>> => stride[g] = 1 /\ ticks[g] = 0
  BY <1>2, <1>3, <1>4 DEF StrideInv, LagInv, GapInv, FirstInv
<1>9. Reading(g).t = elapsed[g]
  BY DEF Reading
<1>10. CASE ~due
  <2>1. samples' = samples /\ stride'[g] = stride[g] /\ ticks'[g] = ticks[g] + 1
    BY <1>1, <1>5, <1>10
  <2>2. samples # <<>>
    BY <1>3, <1>8, <1>10 DEF due
  <2>3. FirstInv'
    BY <1>1, <1>8, <2>1, <2>2 DEF FirstInv
  <2>4. Lag(g)' = Lag(g) /\ Passed(g)' = ticks[g] + 1
    BY <1>1, <1>5, <2>1 DEF Lag
  <2>5. LagInv'
    BY <1>1, <1>3, <1>4, <1>8, <2>1, <2>2, <2>4 DEF LagInv
  <2>6. GapInv'
    BY <1>1, <1>2, <1>3, <1>4, <1>8, <2>1 DEF GapInv
  <2>7. QED
    BY <1>6, <1>7, <2>3, <2>5, <2>6 DEF StrideInv
<1>11. CASE due /\ ~moved
  <2>1. samples' = samples /\ stride'[g] = stride[g] /\ ticks'[g] = 0
    BY <1>1, <1>5, <1>11 DEF Pushed, moved
  <2>2. samples # <<>> /\ elapsed[g] = samples[Len(samples)].t
    <3>1. samples # <<>> /\ ~(elapsed[g] > samples[Len(samples)].t)
      BY <1>9, <1>11 DEF moved, Advanced
    <3>2. QED
      BY <1>3, <3>1
  <2>3. FirstInv'
    BY <1>1, <1>8, <2>1, <2>2 DEF FirstInv
  <2>4. Lag(g)' = 0 /\ Passed(g)' = 0
    BY <1>1, <1>3, <1>5, <2>1, <2>2 DEF Lag
  <2>5. LagInv'
    <3>1. Passed(g)' * MaxStep = 0
      BY <2>4, BoundAssumption
    <3>2. 2 * Lag(g)' <= 2 * (Passed(g)' * MaxStep) + K /\ Lag(g)' <= Passed(g)' * MaxStep
      BY <2>4, <3>1
    <3>3. QED
      BY <1>1, <1>3, <1>4, <2>1, <3>2 DEF LagInv
  <2>6. GapInv'
    BY <1>1, <1>2, <1>3, <1>4, <1>8, <2>1 DEF GapInv
  <2>7. QED
    BY <1>6, <1>7, <2>3, <2>5, <2>6 DEF StrideInv
<1>12. CASE due /\ moved
  <2>1. samples' = Pushed(Reading(g), samples) /\ ticks'[g] = 0 /\ Passed(g)' = 0
    BY <1>1, <1>5, <1>12
  <2>2. PICK p : p = Pushed(Reading(g), samples)
    OBVIOUS
  <2>3. /\ p # <<>> /\ p \in Seq(Sample) /\ \A o \in seen : o.t >= p[1].t
        /\ ~fills => Gaps(p, 3 * K) /\ p[Len(p)].t = elapsed[g]
        /\ fills /\ Cap > 2 =>
              /\ Gaps(p, 6 * K) /\ Len(p) = Kept
              /\ elapsed[g] - p[Len(p)].t <= K
        /\ Cap = 2 => Len(p) < 2
    <3>1. wpc[g] \in {"record", "finalRecord"} /\ Advanced(elapsed[g], samples)
      BY <1>1, <1>9, <1>12 DEF moved
    <3>2. QED
      BY <1>4, <2>2, <3>1, StridePush DEF fills
  <2>4. FirstInv'
    BY <1>1, <2>1, <2>2, <2>3 DEF FirstInv
  <2>5. Lag(g)' = elapsed[g] - p[Len(p)].t
    BY <1>1, <2>1, <2>2 DEF Lag
  <2>6. Passed(g)' * MaxStep = 0
    BY <2>1, BoundAssumption
  <2>7. CASE ~fills
    <3>1. stride'[g] = stride[g]
      BY <1>5, <2>7
    <3>2. Lag(g)' = 0
      BY <1>3, <2>3, <2>5, <2>7
    <3>3. 2 * Lag(g)' <= 2 * (Passed(g)' * MaxStep) + K /\ Lag(g)' <= Passed(g)' * MaxStep
      BY <2>6, <3>2
    <3>4. LagInv'
      BY <1>1, <1>3, <1>4, <3>1, <3>3 DEF LagInv
    <3>5. GapInv'
      BY <1>1, <1>2, <1>3, <1>4, <2>1, <2>2, <2>3, <2>7, <3>1 DEF GapInv
    <3>6. QED
      BY <1>6, <1>7, <2>4, <3>4, <3>5 DEF StrideInv
  <2>8. CASE fills
    <3>1. stride'[g] = 2 * stride[g] /\ stride'[g] * MaxStep = 2 * K
      <4>1. stride'[g] = 2 * stride[g]
        BY <1>5, <1>12, <2>8
      <4>2. \A a, m \in Nat : (2 * a) * m = 2 * (a * m)
        OBVIOUS
      <4>3. QED
        BY <1>3, <1>4, <4>1, <4>2, BoundAssumption
    <3>2. LagInv'
      <4>1. CASE Cap > 2
        <5>1. Len(samples') = Kept /\ Lag(g)' <= K
          BY <2>1, <2>2, <2>3, <2>5, <2>8, <4>1
        <5>2. Lag(g)' \in Int
          <6>1. p[Len(p)] \in Sample
            BY <2>3
          <6>2. QED
            BY <1>3, <2>5, <6>1 DEF Sample
        <5>3. 2 * Lag(g)' <= 2 * (Passed(g)' * MaxStep) + 2 * K
          BY <2>6, <5>1, <5>2
        <5>4. QED
          BY <1>1, <1>3, <3>1, <5>1, <5>3 DEF LagInv
      <4>2. CASE ~(Cap > 2)
        BY <4>2 DEF LagInv
      <4>3. QED
        BY <4>1, <4>2
    <3>3. Gaps(p, 6 * K)
      <4>1. CASE Cap > 2
        BY <2>3, <2>8, <4>1
      <4>2. CASE ~(Cap > 2)
        <5>1. Len(p) < 2 /\ Len(p) \in Nat
          BY <2>3, <4>2, CapAssumption
        <5>2. QED
          BY <5>1 DEF Gaps
      <4>3. QED
        BY <4>1, <4>2
    <3>4. Gaps(samples', 3 * (stride'[g] * MaxStep))
      <4>1. 3 * (2 * K) = 6 * K
        OBVIOUS
      <4>2. QED
        BY <2>1, <2>2, <3>1, <3>3, <4>1
    <3>5. GapInv'
      BY <1>1, <1>2, <1>3, <3>4 DEF GapInv
    <3>6. QED
      BY <1>6, <1>7, <2>4, <3>2, <3>5 DEF StrideInv
  <2>9. QED
    BY <2>7, <2>8
<1>13. QED
  BY <1>10, <1>11, <1>12

\* The final reading leaves the stride alone, so that a decimation then joins
\* two gaps of this stride.
LEMMA StrideFinal ==
    ASSUME Base, SamplesWellFormed, PeakInv, StrideInv, NEW g \in Gen, FinalRecord(g)
    PROVE  StrideInv'
<1>1. /\ wpc[g] = "finalRecord" /\ wpc' = [wpc EXCEPT ![g] = "done"]
      /\ samples' = Pushed(Reading(g), samples)
      /\ UNCHANGED <<handle, starts, elapsed, rss, stride, ticks, seen>>
  BY DEF FinalRecord, Goto, ctlVars, localVars
<1>2. /\ InFlight(g) /\ Live(g) /\ wpc[g] # "done"
      /\ ~InFlight(g)' /\ ~Live(g)' /\ wpc'[g] = "done" /\ \A h \in Gen : h # g => wpc'[h] = wpc[h]
  BY <1>1 DEF InFlight, Live, LivePc, LoopPc, FinalPc, Base, TypeOK
<1>3. /\ g = starts /\ \A h \in Gen : h > starts => h # g
      /\ elapsed[g] \in Nat /\ stride[g] \in Nat \ {0} /\ ticks[g] \in Nat
      /\ samples \in Seq(Sample)
  BY <1>2, Running
<1>4. PICK K \in Nat : K = stride[g] * MaxStep
  BY <1>3, BoundAssumption
<1>5. Numbered'
  BY <1>1, <1>2, <1>3 DEF StrideInv, Numbered
<1>6. \A h \in Gen : ticks'[h] < stride'[h]
  BY <1>1 DEF StrideInv
<1>7. LagInv'
  BY <1>1, <1>2, <1>3 DEF LagInv
<1>8. PICK p \in Seq(Sample) :
         p = Pushed(Reading(g), samples) /\ p # <<>> /\ Gaps(p, 6 * K) /\ \A o \in seen : o.t >= p[1].t
  <2>1. CASE ~Advanced(elapsed[g], samples)
    <3>1. Pushed(Reading(g), samples) = samples /\ samples # <<>>
      BY <2>1 DEF Pushed, Reading, Advanced
    <3>2. Gaps(samples, 3 * K) /\ \A o \in seen : o.t >= samples[1].t
      BY <1>2, <1>3, <1>4, <3>1 DEF StrideInv, GapInv, FirstInv
    <3>3. 3 * K \in Int /\ 6 * K \in Int /\ 3 * K <= 6 * K
      OBVIOUS
    <3>4. Gaps(samples, 6 * K)
      BY <1>3, <3>2, <3>3, GapsWithin
    <3>5. QED
      BY <1>3, <3>1, <3>2, <3>4
  <2>2. CASE Advanced(elapsed[g], samples)
    <3>1. PICK p : p = Pushed(Reading(g), samples)
      OBVIOUS
    <3>2. wpc[g] \in {"record", "finalRecord"}
      BY <1>1
    <3>3. /\ p # <<>> /\ p \in Seq(Sample) /\ \A o \in seen : o.t >= p[1].t
          /\ ~Full(Append(samples, Reading(g))) => Gaps(p, 3 * K)
          /\ Full(Append(samples, Reading(g))) /\ Cap > 2 => Gaps(p, 6 * K)
          /\ Cap = 2 => Len(p) < 2
      BY <1>4, <2>2, <3>1, <3>2, StridePush
    <3>4. 3 * K \in Int /\ 6 * K \in Int /\ 3 * K <= 6 * K
      OBVIOUS
    <3>5. Gaps(p, 3 * K) => Gaps(p, 6 * K)
      BY <3>3, <3>4, GapsWithin
    <3>6. Cap = 2 => Gaps(p, 6 * K)
      <4>1. Len(p) \in Nat
        BY <3>3
      <4>2. QED
        BY <3>3, <4>1 DEF Gaps
    <3>7. Cap = 2 \/ Cap > 2
      BY CapAssumption
    <3>8. QED
      BY <3>1, <3>3, <3>5, <3>6, <3>7
  <2>3. QED
    BY <2>1, <2>2
<1>9. FirstInv'
  BY <1>1, <1>8 DEF FirstInv
<1>10. GapInv'
  BY <1>1, <1>2, <1>3, <1>4, <1>8 DEF GapInv
<1>11. QED
  BY <1>5, <1>6, <1>7, <1>9, <1>10 DEF StrideInv

\* Every step keeps the gaps within what the stride allows.
LEMMA StrideStep ==
    ASSUME Base, SamplesWellFormed, PeakInv, StrideInv, [Next]_vars
    PROVE  StrideInv'
BY NextCases, StrideQuiet, StrideBegin, StrideObserve, StrideStore, StrideRecord, StrideFinal

\* The gaps, of every reachable state.
LEMMA StrideInvariant == Spec => [](Base /\ StrideInv)
<1>1. Base /\ SamplesWellFormed /\ PeakInv /\ StrideInv /\ [Next]_vars => StrideInv'
  BY StrideStep
<1>2. QED
  BY <1>1, StrideInit, PeakInvariant, PTL DEF Spec

\* For every capacity, every clock and any number of decimations: the series
\* starts at the session's first reading and is thinned evenly, two samples
\* being at most one and a half strides apart while the worker loops and
\* three after the final reading.
THEOREM GapsBounded == Spec => []GapBounded
<1>1. Base /\ StrideInv => GapBounded
  <2> SUFFICES ASSUME Base, StrideInv  PROVE GapBounded
    OBVIOUS
  <2>1. samples # <<>> => \A o \in seen : o.t >= samples[1].t
    BY DEF StrideInv, FirstInv
  <2>2. ASSUME NEW g \in Gen, NEW i \in 1..(Len(samples) - 1), g = starts
        PROVE  LET gap == samples[i + 1].t - samples[i].t
               IN  IF wpc[g] = "done" THEN gap <= 3 * stride[g] * MaxStep
                   ELSE 2 * gap <= 3 * stride[g] * MaxStep
    <3>1. PICK K \in Nat : K = stride[g] * MaxStep /\ 3 * stride[g] * MaxStep = 3 * K
      <4>1. stride[g] \in Nat /\ MaxStep \in Nat
        BY BoundAssumption DEF Base, TypeOK
      <4>2. \A a, m \in Nat : 3 * a * m = 3 * (a * m) /\ a * m \in Nat
        OBVIOUS
      <4>3. QED
        BY <4>1, <4>2
    <3>2. PICK d \in Int : d = samples[i + 1].t - samples[i].t
      <4>1. \A y \in Sample : y.t \in Nat
        BY DEF Sample
      <4>2. samples \in Seq(Sample) /\ Len(samples) \in Nat
        BY DEF Base, TypeOK
      <4>3. i \in 1..Len(samples) /\ i + 1 \in 1..Len(samples)
        BY <4>2
      <4>4. samples[i] \in Sample /\ samples[i + 1] \in Sample
        BY <4>2, <4>3
      <4>5. QED
        BY <4>1, <4>4
    <3>3. IF wpc[g] = "done" THEN Gaps(samples, 6 * K) ELSE Gaps(samples, 3 * K)
      BY <2>2, <3>1 DEF StrideInv, GapInv
    <3>4. IF wpc[g] = "done" THEN 2 * d <= 6 * K ELSE 2 * d <= 3 * K
      BY <3>2, <3>3 DEF Gaps
    <3>5. 2 * d <= 6 * K => d <= 3 * K
      OBVIOUS
    <3>6. QED
      BY <3>1, <3>2, <3>4, <3>5
  <2>3. QED
    BY <2>1, <2>2 DEF GapBounded
<1>2. QED
  BY <1>1, StrideInvariant, PTL

-----------------------------------------------------------------------------
(* The final sample.                                                       *)

\* An odd capacity keeps the newest sample in a decimation, and the final one
\* is the last of the series: what the comment on the code promises, and an
\* even capacity, as the default is, does not.
THEOREM FinalSampleStays ==
    ASSUME Cap % 2 = 1
    PROVE  Spec => FinalSampleKept
<1> DEFINE Keeps == \A g \in Gen : wpc[g] = "finalRecord" /\ wpc'[g] = "done"
                       => samples'[Len(samples')].t = elapsed[g]
<1>1. ASSUME Base, SamplesWellFormed, PeakInv, StrideInv, [Next]_vars  PROVE Keeps
  <2> SUFFICES ASSUME NEW g \in Gen, wpc[g] = "finalRecord", wpc'[g] = "done"
               PROVE  samples'[Len(samples')].t = elapsed[g]
    OBVIOUS
  <2>1. InFlight(g) /\ Live(g)
    BY DEF InFlight, Live, LivePc, LoopPc, FinalPc
  <2>2. /\ elapsed[g] \in Nat /\ samples \in Seq(Sample) /\ Len(samples) \in Nat /\ Len(samples) < Cap
        /\ samples # <<>> => samples[Len(samples)].t \in Nat /\ samples[Len(samples)].t <= elapsed[g]
    BY <1>1, <2>1, Running
  <2>3. PICK x \in Sample : x = Reading(g) /\ x.t = elapsed[g]
    BY <1>1, <2>1 DEF Base, TypeOK, ReadingsSeen, Reading
  <2>4. samples' = Pushed(x, samples)
    <3>1. ~Quiet
      BY <1>1, <2>1, QuietLeaves DEF Base
    <3>2. ~(Begin /\ \A h \in Gen : ~Live(h))
      BY <2>1
    <3>3. \E h \in Gen : Observe(h) \/ StorePeakRss(h) \/ StorePeakAt(h) \/ Record(h) \/ FinalRecord(h)
      BY <1>1, <3>1, <3>2, NextCases
    <3>4. \A h \in Gen : ~(Observe(h) \/ StorePeakRss(h) \/ StorePeakAt(h) \/ Record(h))
      BY <1>1 DEF Observe, StorePeakRss, StorePeakAt, Record, Goto, Base, TypeOK
    <3>5. PICK h \in Gen : FinalRecord(h)
      BY <3>3, <3>4
    <3>6. h = g
      BY <1>1, <3>5 DEF FinalRecord, Goto, Base, TypeOK
    <3>7. QED
      BY <2>3, <3>5, <3>6 DEF FinalRecord
  <2>5. CASE ~Advanced(x.t, samples)
    BY <2>2, <2>3, <2>4, <2>5 DEF Pushed, Advanced
  <2>6. CASE Advanced(x.t, samples)
    <3>1. PICK n \in Nat : n = Len(samples) /\ n < Cap
      BY <2>2
    <3>2. PICK l \in Seq(Sample) : l = Append(samples, x) /\ Len(l) = n + 1 /\ l[n + 1] = x
      <4>1. /\ Append(samples, x) \in Seq(Sample) /\ Len(Append(samples, x)) = Len(samples) + 1
            /\ Append(samples, x)[Len(samples) + 1] = x
        BY <2>2
      <4>2. QED
        BY <3>1, <4>1
    <3>3. CASE ~Full(l)
      BY <2>3, <2>4, <2>6, <3>2, <3>3 DEF Pushed
    <3>4. CASE Full(l)
      <4>1. samples' = Decimate(l) /\ n + 1 = Cap
        BY <2>4, <2>6, <3>1, <3>2, <3>4, CapAssumption DEF Pushed, Full
      <4>2. /\ Len(Decimate(l)) = (Len(l) + 1) \div 2
            /\ \A i \in 1..Len(Decimate(l)) : Decimate(l)[i] = l[2 * i - 1]
        BY DecimateKeeps
      <4>3. PICK k \in Nat : k = Len(Decimate(l)) /\ 2 * k - 1 = n + 1 /\ k \in 1..k
        <5>1. \A m \in Nat : m % 2 = 1 => (m + 1) \div 2 \in Nat /\ 2 * ((m + 1) \div 2) - 1 = m
                                          /\ (m + 1) \div 2 >= 1
          OBVIOUS
        <5>2. Cap \in Nat
          BY CapAssumption
        <5>3. QED
          BY <3>2, <4>1, <4>2, <5>1, <5>2
      <4>4. Decimate(l)[k] = x
        BY <3>2, <4>2, <4>3
      <4>5. QED
        BY <2>3, <4>1, <4>3, <4>4
    <3>5. QED
      BY <3>3, <3>4
  <2>7. QED
    BY <2>5, <2>6
<1>2. Base /\ SamplesWellFormed /\ PeakInv /\ StrideInv /\ [Next]_vars => [Keeps]_vars
  BY <1>1
<1>3. QED
  BY <1>2, PeakInvariant, StrideInvariant, PTL DEF Spec, FinalSampleKept
=============================================================================
