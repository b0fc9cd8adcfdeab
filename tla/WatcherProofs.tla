--------------------------- MODULE WatcherProofs ----------------------------
(***************************************************************************)
(* tracemalloc is off once the last watcher has left, for every number of  *)
(* watchers, every choice of those that trace and every order of steps.    *)
(*                                                                         *)
(* The invariant names who answers for the switch: while it is on, some    *)
(* watcher found it off and has not come to its own stop() yet, or raised  *)
(* on the way there.  It is inductive because a watcher that found it on   *)
(* leaves it as it is, and one that switches it off need not care whose it *)
(* was.                                                                    *)
(***************************************************************************)
EXTENDS Watcher, LimitsProofs

\* Steps at which a watcher that found tracemalloc off has yet to stop it.
Holding == {"takeBefore", "running", "listAfter", "threadsAfter", "takeAfter",
            "stopTracing"}

Answers(w) ==
    \/ pc[w] = "noExit"
    \/ w \in Tracing /\ pc[w] \in Holding /\ ~wasTracing[w]

SwitchTypes ==
    /\ tracing \in BOOLEAN
    /\ pc \in [Watchers -> Steps]
    /\ wasTracing \in [Watchers -> BOOLEAN]
    /\ \A w \in Watchers : pc[w] \in {"isTracing", "startTracing"} => w \in Tracing

SwitchInv == SwitchTypes /\ (tracing => \E w \in Watchers : Answers(w))

\* Nobody traces at the start.
LEMMA SwitchInit == Init => SwitchInv
<1> SUFFICES ASSUME Init  PROVE SwitchInv
  OBVIOUS
<1>1. \A w \in Watchers : pc[w] = "new" /\ wasTracing[w] = FALSE
  BY DEF Init
<1>2. pc \in [Watchers -> Steps] /\ wasTracing \in [Watchers -> BOOLEAN]
  BY DEF Init, Steps
<1> QED BY <1>1, <1>2 DEF Init, SwitchInv, SwitchTypes

\* Steps that move one watcher on, not out of Holding, and leave the switch
\* and everyone's memory of it alone.
LEMMA Onwards ==
  ASSUME SwitchInv, NEW w \in Watchers, NEW from \in Steps, NEW to \in Steps,
         Goto(w, from, to), tracing' = tracing, wasTracing' = wasTracing,
         from # "noExit",
         to \in {"isTracing", "startTracing"} => w \in Tracing,
         (from \in Holding /\ w \in Tracing) => to \in Holding \cup {"noExit"}
  PROVE  SwitchInv'
<1>1. SwitchTypes'
  BY DEF SwitchInv, SwitchTypes, Goto
<1>2. ASSUME NEW o \in Watchers, Answers(o)  PROVE Answers(o)'
  <2>1. CASE o = w
    BY <1>2, <2>1 DEF Answers, Goto, SwitchInv, SwitchTypes, Holding
  <2>2. CASE o # w
    BY <1>2, <2>2 DEF Answers, Goto, SwitchInv, SwitchTypes, Steps, Ended
  <2> QED BY <2>1, <2>2
<1> QED BY <1>1, <1>2 DEF SwitchInv

\* __enter__ keeps the invariant: start() makes itself answerable when it
\* switches tracemalloc on.
LEMMA SwitchEntering ==
  ASSUME SwitchInv, NEW w \in Watchers, Entering(w)
  PROVE  SwitchInv'
<1> USE DEF localVars
<1>1. CASE Enter(w)
  BY <1>1, Onwards DEF Steps, Ended, Enter, Holding
<1>2. CASE EnterFails(w)
  BY <1>2, Onwards DEF Steps, Ended, EnterFails, Holding
<1>3. CASE ThreadsBefore(w)
  BY <1>3, Onwards DEF Steps, Ended, ThreadsBefore, Holding
<1>4. CASE StartSampler(w)
  <2>1. CASE w \in Tracing
    BY <1>4, <2>1, Onwards DEF Steps, Ended, StartSampler, Holding
  <2>2. CASE w \notin Tracing
    BY <1>4, <2>2, Onwards DEF Steps, Ended, StartSampler, Holding
  <2> QED BY <2>1, <2>2
<1>5. CASE IsTracing(w)
  <2>1. SwitchTypes'
    BY <1>5 DEF IsTracing, Goto, SwitchInv, SwitchTypes, Steps, Ended
  <2>2. ASSUME NEW o \in Watchers, Answers(o)  PROVE Answers(o)'
    BY <1>5, <2>2 DEF IsTracing, Goto, Answers, SwitchInv, SwitchTypes, Holding
  <2> QED BY <1>5, <2>1, <2>2 DEF SwitchInv, IsTracing
<1>6. CASE StartTracing(w)
  <2>1. SwitchTypes'
    BY <1>6 DEF StartTracing, Goto, SwitchInv, SwitchTypes, Steps, Ended
  <2>2. CASE wasTracing[w]
    <3>1. ASSUME NEW o \in Watchers, Answers(o)  PROVE Answers(o)'
      BY <1>6, <3>1 DEF StartTracing, Goto, Answers, SwitchInv, SwitchTypes, Holding
    <3> QED BY <1>6, <2>1, <2>2, <3>1 DEF SwitchInv, StartTracing
  <2>3. CASE ~wasTracing[w]
    <3>1. Answers(w)'
      BY <1>6, <2>3 DEF StartTracing, Goto, Answers, SwitchInv, SwitchTypes, Holding
    <3> QED BY <2>1, <3>1 DEF SwitchInv
  <2> QED BY <2>2, <2>3
<1>7. CASE TakeBefore(w)
  <2>1. CASE tracing
    BY <1>7, <2>1, Onwards DEF Steps, Ended, TakeBefore, Holding
  <2>2. CASE ~tracing
    <3>1. Goto(w, "takeBefore", "noEntry") /\ ~tracing' /\ wasTracing' = wasTracing
      BY <1>7, <2>2 DEF TakeBefore
    <3>2. tracing' \in BOOLEAN
      BY <1>7 DEF TakeBefore, SwitchInv, SwitchTypes
    <3>3. SwitchTypes'
      BY <3>1, <3>2 DEF Goto, SwitchInv, SwitchTypes, Steps, Ended
    <3> QED BY <3>1, <3>3 DEF SwitchInv
  <2> QED BY <2>1, <2>2
<1> QED BY <1>1, <1>2, <1>3, <1>4, <1>5, <1>6, <1>7 DEF Entering

\* __exit__ keeps it: stop() leaves the switch alone unless it is answerable.
LEMMA SwitchExiting ==
  ASSUME SwitchInv, NEW w \in Watchers, Exiting(w)
  PROVE  SwitchInv'
<1> USE DEF localVars
<1>1. CASE Exit(w)
  BY <1>1, Onwards DEF Steps, Ended, Exit, Holding
<1>2. CASE ExitFails(w)
  BY <1>2, Onwards DEF Steps, Ended, ExitFails, Holding
<1>3. CASE ListAfter(w)
  BY <1>3, Onwards DEF Steps, Ended, ListAfter, Holding
<1>4. CASE ThreadsAfter(w)
  <2>1. CASE w \in Tracing
    BY <1>4, <2>1, Onwards DEF Steps, Ended, ThreadsAfter, Holding
  <2>2. CASE w \notin Tracing
    BY <1>4, <2>2, Onwards DEF Steps, Ended, ThreadsAfter, Holding
  <2> QED BY <2>1, <2>2
<1>5. CASE TakeAfter(w)
  BY <1>5, Onwards DEF Steps, Ended, TakeAfter, Holding
<1>6. CASE StopTracing(w)
  <2>1. SwitchTypes'
    <3>1. tracing' \in BOOLEAN /\ wasTracing' = wasTracing
      BY <1>6 DEF StopTracing, SwitchInv, SwitchTypes
    <3>2. pc' = [pc EXCEPT ![w] = "failed"] \/ pc' = [pc EXCEPT ![w] = "report"]
      BY <1>6 DEF StopTracing, Goto
    <3> QED BY <3>1, <3>2 DEF SwitchInv, SwitchTypes, Steps, Ended, Steps, Ended
  <2>2. CASE wasTracing[w]
    <3>1. ASSUME NEW o \in Watchers, Answers(o)  PROVE Answers(o)'
      <4>1. o # w
        BY <1>6, <2>2, <3>1 DEF StopTracing, Goto, Answers
      <4> QED BY <1>6, <3>1, <4>1 DEF StopTracing, Goto, Answers, SwitchInv, SwitchTypes
    <3>2. tracing' => tracing
      BY <1>6 DEF StopTracing
    <3> QED BY <2>1, <3>1, <3>2 DEF SwitchInv
  <2>3. CASE ~wasTracing[w]
    BY <1>6, <2>1, <2>3 DEF StopTracing, SwitchInv
  <2> QED BY <2>2, <2>3
<1>7. CASE Report(w)
  BY <1>7, Onwards DEF Steps, Ended, Report, Holding
<1> QED BY <1>1, <1>2, <1>3, <1>4, <1>5, <1>6, <1>7 DEF Exiting

\* Samplers and the program touch neither the switch nor a tracker.
LEMMA SwitchNext == SwitchInv /\ [Next]_vars => SwitchInv'
<1> SUFFICES ASSUME SwitchInv, [Next]_vars  PROVE SwitchInv'
  OBVIOUS
<1> DEFINE Untouched == tracing' = tracing /\ pc' = pc /\ wasTracing' = wasTracing
<1>1. ASSUME Untouched  PROVE SwitchInv'
  BY <1>1 DEF SwitchInv, SwitchTypes, Answers
<1>2. ASSUME NEW w \in Watchers, Entering(w)  PROVE SwitchInv'
  BY <1>2, SwitchEntering
<1>3. ASSUME NEW w \in Watchers, Exiting(w)  PROVE SwitchInv'
  BY <1>3, SwitchExiting
<1>4. ASSUME NEW w \in Watchers, Snapshot(w) \/ Collect(w)  PROVE SwitchInv'
  BY <1>1, <1>4 DEF Snapshot, Collect, localVars
<1>5. ASSUME NEW x \in Paths, OpenOrClose(x)  PROVE SwitchInv'
  BY <1>1, <1>5 DEF OpenOrClose, localVars
<1>6. ASSUME NEW n \in Names, StartOrEnd(n)  PROVE SwitchInv'
  BY <1>1, <1>6 DEF StartOrEnd, localVars
<1>7. CASE UNCHANGED vars
  BY <1>1, <1>7 DEF vars, localVars
<1> QED BY <1>2, <1>3, <1>4, <1>5, <1>6, <1>7 DEF Next

\* However many watchers there are and however they overlap, tracemalloc is
\* off when the last has left, unless some __exit__ raised before stop().
THEOREM SwitchedBack == Spec => []TracingRestored
<1>1. SwitchInv => TracingRestored
  BY DEF SwitchInv, TracingRestored, Answers, Active, Ended, Holding
<1> QED BY <1>1, SwitchInit, SwitchNext, PTL DEF Spec

-----------------------------------------------------------------------------
(* Types.  TypeOK speaks of each watcher's entry; that a step changes one  *)
(* entry and no other needs the functions.                                 *)

Results ==
    [delta : [fdDelta : Nat, leaked : FdBags, threadDelta : Int, newThreads : NameBags],
     violations : SUBSET {"fds", "threads"}]

LocalTypes ==
    /\ fdsBefore \in [Watchers -> FdBags] /\ fdsAfter \in [Watchers -> FdBags]
    /\ threadsBefore \in [Watchers -> NameBags] /\ threadsAfter \in [Watchers -> NameBags]
    /\ wasTracing \in [Watchers -> BOOLEAN] /\ raising \in [Watchers -> BOOLEAN]
    /\ result \in [Watchers -> Results]

TypeInv ==
    /\ open \in [Paths -> 0..MaxCount] /\ threads \in NameBags
    /\ events \in 0..MaxEvents
    /\ tracing \in BOOLEAN
    /\ pc \in [Watchers -> Steps]
    /\ sampler \in [Watchers -> {"off", "idle", "snapshot"}]
    /\ LocalTypes
    /\ openBefore \in [Watchers -> [Paths -> 0..MaxCount]]
    /\ openAfter \in [Watchers -> [Paths -> 0..MaxCount]]
    /\ outer \in [Watchers -> SUBSET Watchers]
    /\ crossed \in BOOLEAN

\* What a watcher's report says.
Verdict(w) ==
    LET delta == [fdDelta     |-> FdDelta(fdsAfter[w], fdsBefore[w]),
                  leaked      |-> Leaked(fdsAfter[w], fdsBefore[w]),
                  threadDelta |-> Size(threadsAfter[w]) - Size(threadsBefore[w]),
                  newThreads  |-> NewThreads(threadsAfter[w], threadsBefore[w])]
    IN  [delta |-> delta, violations |-> Check(delta, 0, 0)]

\* A list of descriptors holds at most MaxCount of a path and one directory
\* per watcher.
LEMMA ListTyped == TypeInv => ListFds \in FdBags
<1> SUFFICES ASSUME TypeInv  PROVE ListFds \in FdBags
  OBVIOUS
<1> DEFINE S == {w \in Watchers : sampler[w] = "snapshot"}
<1>1. IsFiniteSet(S) /\ Cardinality(S) <= Cardinality(Watchers)
  BY FiniteAssumption, FS_Subset
<1>2. Cardinality(S) \in Nat /\ Cardinality(Watchers) \in Nat
  BY <1>1, FiniteAssumption, FS_CardinalityType
<1>3. PICK m \in Nat, k \in Nat : m = Cardinality(S) /\ k = Cardinality(Watchers) /\ m <= k
  BY <1>1, <1>2
<1>4. ListFds = [x \in FdPaths |-> IF x = Proc THEN m ELSE open[x]]
  BY <1>3 DEF ListFds
<1>5. open \in [Paths -> 0..MaxCount] /\ MaxCount \in Nat
  BY BoundAssumption DEF TypeInv
<1>6. FdBags = [FdPaths -> 0..(MaxCount + k)]
  BY <1>3 DEF FdBags
<1> QED BY <1>3, <1>4, <1>5, <1>6 DEF FdPaths

\* Bags of descriptors and of names hold natural numbers of finitely many.
LEMMA BagsTyped ==
  /\ IsFiniteSet(FdPaths) /\ IsFiniteSet(Names)
  /\ \A bag \in FdBags : bag \in [FdPaths -> Nat]
  /\ \A bag \in NameBags : bag \in [Names -> Nat]
<1>1. IsFiniteSet(FdPaths)
  BY FiniteAssumption, FS_Singleton, FS_Union DEF FdPaths
<1>2. Cardinality(Watchers) \in Nat /\ MaxCount \in Nat
  BY FiniteAssumption, FS_CardinalityType, BoundAssumption
<1> QED BY <1>1, <1>2, FiniteAssumption DEF FdBags, NameBags

\* What __exit__ computes from two lists.
LEMMA DeltaTyped ==
  ASSUME NEW after \in FdBags, NEW before \in FdBags
  PROVE  FdDelta(after, before) \in Nat /\ Leaked(after, before) \in FdBags
<1>1. Leaked(after, before) \in FdBags
  <2>1. PICK k \in Nat : k = MaxCount + Cardinality(Watchers)
    BY FiniteAssumption, FS_CardinalityType, BoundAssumption
  <2>2. \A x \in FdPaths : after[x] \in 0..k /\ before[x] \in 0..k
    BY <2>1 DEF FdBags
  <2>3. \A x \in FdPaths : AtLeast0(after[x] - before[x]) \in 0..k
    BY <2>2 DEF AtLeast0
  <2> QED BY <2>1, <2>3 DEF Leaked, FdBags
<1>2. \A bag \in FdBags : Size(bag) \in Nat
  BY BagsTyped, CountWithin
<1>3. PICK a \in Nat, b \in Nat, c \in Nat :
        a = Size(after) /\ b = Size(before) /\ c = Size(Leaked(after, before))
  BY <1>1, <1>2
<1>4. FdDelta(after, before) = IF c > 0 /\ c > a - b THEN c ELSE IF a - b < 0 THEN 0 ELSE a - b
  BY <1>3 DEF FdDelta, AtLeast0
<1> QED BY <1>1, <1>4

\* The verdict is a result.
LEMMA VerdictTyped == \A w \in Watchers : LocalTypes => Verdict(w) \in Results
<1> SUFFICES ASSUME NEW w \in Watchers, LocalTypes  PROVE Verdict(w) \in Results
  OBVIOUS
<1>1. PICK a \in FdBags, b \in FdBags : a = fdsAfter[w] /\ b = fdsBefore[w]
  BY DEF LocalTypes
<1>2. PICK c \in NameBags, d \in NameBags : c = threadsAfter[w] /\ d = threadsBefore[w]
  BY DEF LocalTypes
<1>3. FdDelta(a, b) \in Nat /\ Leaked(a, b) \in FdBags
  BY DeltaTyped
<1>4. Size(c) - Size(d) \in Int
  <2>1. Size(c) \in Nat /\ Size(d) \in Nat
    BY BagsTyped, CountWithin
  <2> QED BY <2>1
<1>5. NewThreads(c, d) \in NameBags
  BY BoundAssumption DEF NewThreads, NameBags
<1>6. \A delta : Check(delta, 0, 0) \in SUBSET {"fds", "threads"}
  BY DEF Check
<1> QED BY <1>1, <1>2, <1>3, <1>4, <1>5, <1>6 DEF Verdict, Results

\* Nothing has happened yet.
LEMMA TypeInit == Init => TypeInv
<1> SUFFICES ASSUME Init  PROVE TypeInv
  OBVIOUS
<1>1. PICK k \in Nat : k = MaxCount + Cardinality(Watchers)
  BY FiniteAssumption, FS_CardinalityType, BoundAssumption
<1>2. Nothing \in FdBags /\ NoThreads \in NameBags /\ [x \in Paths |-> 0] \in [Paths -> 0..MaxCount]
  BY <1>1, BoundAssumption DEF Nothing, NoThreads, FdBags, NameBags
<1>3. NoResult \in Results
  BY <1>2 DEF NoResult, Results
<1>4. LocalTypes
  BY <1>2, <1>3 DEF Init, LocalTypes
<1>5. open \in [Paths -> 0..MaxCount]
  BY <1>2 DEF Init
<1>6. pc \in [Watchers -> Steps]
  BY DEF Init, Steps
<1>7. threads \in NameBags /\ events \in 0..MaxEvents
  BY <1>2, BoundAssumption DEF Init
<1>8. /\ openBefore \in [Watchers -> [Paths -> 0..MaxCount]]
      /\ openAfter \in [Watchers -> [Paths -> 0..MaxCount]]
  BY <1>5 DEF Init
<1>9. /\ tracing \in BOOLEAN /\ sampler \in [Watchers -> {"off", "idle", "snapshot"}]
      /\ outer \in [Watchers -> SUBSET Watchers] /\ crossed \in BOOLEAN
  BY DEF Init
<1> QED BY <1>4, <1>5, <1>6, <1>7, <1>8, <1>9 DEF TypeInv

\* Steps that move one watcher on and touch nothing but the switch and its
\* sampler.
LEMMA TypeMoves ==
  ASSUME TypeInv, NEW w \in Watchers, NEW from, NEW to \in Steps, Goto(w, from, to),
         UNCHANGED <<programVars, localVars, ghostVars>>, tracing' \in BOOLEAN,
         \/ sampler' = sampler
         \/ \E s \in {"off", "idle", "snapshot"} : sampler' = [sampler EXCEPT ![w] = s]
  PROVE  TypeInv'
<1>1. pc' \in [Watchers -> Steps]
  BY DEF TypeInv, Goto
<1>2. sampler' \in [Watchers -> {"off", "idle", "snapshot"}]
  BY DEF TypeInv
<1>3. LocalTypes'
  BY DEF TypeInv, LocalTypes, localVars
<1> QED BY <1>1, <1>2, <1>3 DEF TypeInv, programVars, ghostVars

\* __enter__ keeps the types.
LEMMA TypeEntering ==
  ASSUME TypeInv, NEW w \in Watchers, Entering(w)
  PROVE  TypeInv'
<1>0. \A to \in Steps : pc' = [pc EXCEPT ![w] = to] => pc' \in [Watchers -> Steps]
  BY DEF TypeInv
<1>1. CASE Enter(w)
  <2>1. LocalTypes'
    BY <1>1, ListTyped DEF Enter, TypeInv, LocalTypes
  <2>2. pc' \in [Watchers -> Steps]
    BY <1>0, <1>1 DEF Enter, Goto, Steps
  <2>3. openBefore' \in [Watchers -> [Paths -> 0..MaxCount]] /\ openAfter' = openAfter
    BY <1>1 DEF Enter, TypeInv
  <2>4. outer' \in [Watchers -> SUBSET Watchers]
    BY <1>1 DEF Enter, TypeInv, Active
  <2>5. crossed' \in BOOLEAN
    BY <1>1, Zenon DEF Enter
  <2>6. UNCHANGED <<open, threads, events, tracing, sampler>>
    BY <1>1 DEF Enter, programVars
  <2> QED BY <2>1, <2>2, <2>3, <2>4, <2>5, <2>6 DEF TypeInv
<1>2. CASE EnterFails(w)
  BY <1>2, TypeMoves DEF EnterFails, Steps, Ended, TypeInv
<1>3. CASE ThreadsBefore(w)
  <2>1. LocalTypes'
    BY <1>3 DEF ThreadsBefore, TypeInv, LocalTypes
  <2>2. pc' \in [Watchers -> Steps]
    BY <1>0, <1>3 DEF ThreadsBefore, Goto, Steps
  <2> QED BY <1>3, <2>1, <2>2 DEF ThreadsBefore, TypeInv, programVars, ghostVars
<1>4. CASE StartSampler(w)
  <2>1. CASE w \in Tracing
    BY <1>4, <2>1, TypeMoves DEF StartSampler, Steps, TypeInv
  <2>2. CASE w \notin Tracing
    BY <1>4, <2>2, TypeMoves DEF StartSampler, Steps, TypeInv
  <2> QED BY <2>1, <2>2
<1>5. CASE IsTracing(w)
  <2>1. LocalTypes'
    BY <1>5 DEF IsTracing, TypeInv, LocalTypes
  <2>2. pc' \in [Watchers -> Steps]
    BY <1>0, <1>5 DEF IsTracing, Goto, Steps
  <2> QED BY <1>5, <2>1, <2>2 DEF IsTracing, TypeInv, programVars, ghostVars
<1>6. CASE StartTracing(w)
  <2>1. tracing' \in BOOLEAN
    BY <1>6 DEF StartTracing
  <2>2. Goto(w, "startTracing", "takeBefore") /\ "takeBefore" \in Steps
    BY <1>6 DEF StartTracing, Steps
  <2>3. UNCHANGED <<programVars, localVars, ghostVars>> /\ sampler' = sampler
    BY <1>6 DEF StartTracing
  <2> QED BY <2>1, <2>2, <2>3, TypeMoves
<1>7. CASE TakeBefore(w)
  <2>1. CASE tracing
    BY <1>7, <2>1, TypeMoves DEF TakeBefore, Steps, TypeInv
  <2>2. CASE ~tracing
    BY <1>7, <2>2, TypeMoves DEF TakeBefore, Steps, Ended, TypeInv
  <2> QED BY <2>1, <2>2
<1> QED BY <1>1, <1>2, <1>3, <1>4, <1>5, <1>6, <1>7 DEF Entering

\* The report is the verdict.
LEMMA ReportIs ==
  ASSUME NEW w \in Watchers, Report(w)
  PROVE  result' = [result EXCEPT ![w] = Verdict(w)]
BY DEF Report, Verdict

\* __exit__ keeps them.
LEMMA TypeExiting ==
  ASSUME TypeInv, NEW w \in Watchers, Exiting(w)
  PROVE  TypeInv'
<1>0. \A to \in Steps : pc' = [pc EXCEPT ![w] = to] => pc' \in [Watchers -> Steps]
  BY DEF TypeInv
<1>1. CASE Exit(w)
  <2>1. pc' \in [Watchers -> Steps]
    BY <1>0, <1>1 DEF Exit, Goto, Steps
  <2>2. sampler' \in [Watchers -> {"off", "idle", "snapshot"}]
    BY <1>1 DEF Exit, TypeInv
  <2>3. LocalTypes'
    BY <1>1 DEF Exit, TypeInv, LocalTypes, localVars
  <2>4. crossed' \in BOOLEAN
    BY <1>1, Zenon DEF Exit, NoteCrossing
  <2> QED BY <1>1, <2>1, <2>2, <2>3, <2>4 DEF Exit, TypeInv, programVars
<1>2. CASE ExitFails(w)
  BY <1>2, TypeMoves DEF ExitFails, Steps, Ended, TypeInv
<1>3. CASE ListAfter(w)
  <2>1. LocalTypes'
    BY <1>3, ListTyped DEF ListAfter, TypeInv, LocalTypes
  <2>2. pc' \in [Watchers -> Steps]
    BY <1>0, <1>3 DEF ListAfter, Goto, Steps
  <2>3. openAfter' \in [Watchers -> [Paths -> 0..MaxCount]] /\ openBefore' = openBefore
    BY <1>3 DEF ListAfter, TypeInv
  <2> QED BY <1>3, <2>1, <2>2, <2>3 DEF ListAfter, TypeInv, programVars
<1>4. CASE ThreadsAfter(w)
  <2>1. LocalTypes'
    BY <1>4 DEF ThreadsAfter, TypeInv, LocalTypes
  <2>2. pc' \in [Watchers -> Steps]
    BY <1>0, <1>4 DEF ThreadsAfter, Goto, Steps
  <2> QED BY <1>4, <2>1, <2>2 DEF ThreadsAfter, TypeInv, programVars, ghostVars
<1>5. CASE TakeAfter(w)
  <2>1. LocalTypes'
    BY <1>5 DEF TakeAfter, TypeInv, LocalTypes
  <2>2. pc' \in [Watchers -> Steps]
    BY <1>0, <1>5 DEF TakeAfter, Goto, Steps
  <2> QED BY <1>5, <2>1, <2>2 DEF TakeAfter, TypeInv, programVars, ghostVars
<1>6. CASE StopTracing(w)
  <2>1. tracing' \in BOOLEAN
    BY <1>6 DEF StopTracing
  <2>2. UNCHANGED <<programVars, localVars, ghostVars>> /\ sampler' = sampler
    BY <1>6 DEF StopTracing
  <2>3. PICK to \in {"failed", "report"} : Goto(w, "stopTracing", to)
    BY <1>6 DEF StopTracing
  <2>4. to \in Steps
    BY DEF Steps, Ended
  <2> QED BY <2>1, <2>2, <2>3, <2>4, TypeMoves
<1>7. CASE Report(w)
  <2>1. result' \in [Watchers -> Results]
    BY <1>7, ReportIs, VerdictTyped DEF TypeInv, LocalTypes
  <2>2. LocalTypes'
    BY <1>7, <2>1 DEF Report, TypeInv, LocalTypes
  <2>3. pc' \in [Watchers -> Steps]
    BY <1>0, <1>7 DEF Report, Goto, Steps, Ended
  <2> QED BY <1>7, <2>2, <2>3 DEF Report, TypeInv, programVars, ghostVars
<1> QED BY <1>1, <1>2, <1>3, <1>4, <1>5, <1>6, <1>7 DEF Exiting

\* Samplers and the program do.
LEMMA TypeNext == TypeInv /\ [Next]_vars => TypeInv'
<1> SUFFICES ASSUME TypeInv, [Next]_vars  PROVE TypeInv'
  OBVIOUS
<1>1. ASSUME NEW w \in Watchers, Entering(w)  PROVE TypeInv'
  BY <1>1, TypeEntering
<1>2. ASSUME NEW w \in Watchers, Exiting(w)  PROVE TypeInv'
  BY <1>2, TypeExiting
<1>3. ASSUME NEW w \in Watchers, Snapshot(w) \/ Collect(w)  PROVE TypeInv'
  <2>1. sampler' \in [Watchers -> {"off", "idle", "snapshot"}]
    BY <1>3 DEF Snapshot, Collect, TypeInv
  <2>2. UNCHANGED <<programVars, tracing, pc, localVars, ghostVars>>
    BY <1>3 DEF Snapshot, Collect
  <2>3. LocalTypes'
    BY <2>2 DEF TypeInv, LocalTypes, localVars
  <2> QED BY <2>1, <2>2, <2>3 DEF TypeInv, programVars, ghostVars
<1>4. ASSUME NEW x \in Paths, OpenOrClose(x)  PROVE TypeInv'
  <2>1. open' \in [Paths -> 0..MaxCount]
    BY <1>4 DEF OpenOrClose, TypeInv
  <2>2. events' \in 0..MaxEvents
    BY <1>4, BoundAssumption DEF OpenOrClose, TypeInv
  <2>3. LocalTypes'
    BY <1>4 DEF OpenOrClose, TypeInv, LocalTypes, localVars
  <2> QED BY <1>4, <2>1, <2>2, <2>3 DEF OpenOrClose, TypeInv, ghostVars
<1>5. ASSUME NEW n \in Names, StartOrEnd(n)  PROVE TypeInv'
  <2>1. threads' \in NameBags
    BY <1>5 DEF StartOrEnd, TypeInv, NameBags
  <2>2. events' \in 0..MaxEvents
    BY <1>5, BoundAssumption DEF StartOrEnd, TypeInv
  <2>3. LocalTypes'
    BY <1>5 DEF StartOrEnd, TypeInv, LocalTypes, localVars
  <2> QED BY <1>5, <2>1, <2>2, <2>3 DEF StartOrEnd, TypeInv, ghostVars
<1>6. CASE UNCHANGED vars
  <2>1. LocalTypes'
    BY <1>6 DEF vars, TypeInv, LocalTypes, localVars
  <2> QED BY <1>6, <2>1 DEF vars, TypeInv, programVars, ghostVars
<1> QED BY <1>1, <1>2, <1>3, <1>4, <1>5, <1>6 DEF Next

\* The state of every watcher keeps its shape: in particular no delta of
\* descriptors is negative.
THEOREM WatcherType == Spec => []TypeOK
<1>1. TypeInv => TypeOK
  BY DEF TypeInv, LocalTypes, TypeOK, Results
<1> QED BY <1>1, TypeInit, TypeNext, PTL DEF Spec

-----------------------------------------------------------------------------
(* Nested watchers.  As long as no two have crossed, all that have entered *)
(* and not left are in their blocks but for the last one to enter, which   *)
(* entered after all of them; so the one that starts or stops tracemalloc  *)
(* does it alone.                                                          *)

Busy(w) == pc[w] \notin Ended \cup {"new"}

\* Steps of a tracker between the two calls that switch tracemalloc.
Needing == {"takeBefore", "running", "listAfter", "threadsAfter", "takeAfter"}

\* Who was there first: an order among watchers that have entered.
Known ==
    \A w \in Watchers : \A o \in outer[w] :
        pc[o] # "new" /\ pc[w] # "new" /\ w \notin outer[o]

TrackersOnly ==
    \A w \in Watchers :
        pc[w] \in {"isTracing", "startTracing", "takeBefore", "takeAfter", "stopTracing"}
            => w \in Tracing

OneAtWork ==
    \A w, o \in Watchers :
        (Busy(w) /\ Busy(o) /\ o # w /\ pc[w] # "running") =>
            pc[o] = "running" /\ o \in outer[w]

\* A watcher that started tracemalloc is the outermost of those that trace.
SwitchedRight ==
    \A w \in Tracing :
        /\ pc[w] \in Needing => tracing
        /\ (pc[w] = "startTracing" /\ wasTracing[w]) => tracing
        /\ (pc[w] \in Needing \cup {"startTracing", "stopTracing"} /\ ~wasTracing[w]) =>
              \A o \in outer[w] \cap Tracing : ~Busy(o)

Nested ==
    /\ \A w \in Watchers : ~raising[w]
    /\ OneAtWork
    /\ SwitchedRight

NestInv == Known /\ TrackersOnly /\ (~crossed => Nested)

NestTypes ==
    /\ pc \in [Watchers -> Steps] /\ outer \in [Watchers -> SUBSET Watchers]
    /\ wasTracing \in [Watchers -> BOOLEAN] /\ raising \in [Watchers -> BOOLEAN]
    /\ Tracing \subseteq Watchers

\* The types that nesting needs.
LEMMA NestTyped == TypeInv => NestTypes
BY SetsAssumption DEF TypeInv, LocalTypes, NestTypes

\* Nobody has entered.
LEMMA NestInit == Init => NestInv
<1> SUFFICES ASSUME Init  PROVE NestInv
  OBVIOUS
<1>1. \A w \in Watchers : pc[w] = "new" /\ outer[w] = {} /\ raising[w] = FALSE
  BY DEF Init
<1>2. \A w \in Tracing : pc[w] = "new"
  BY <1>1, SetsAssumption
<1> QED BY <1>1, <1>2 DEF NestInv, Known, TrackersOnly, Nested, OneAtWork, SwitchedRight, Busy, Needing

\* Steps that move one watcher on and leave tracemalloc alone.
LEMMA NestMoves ==
  ASSUME NestTypes, NestInv, NEW w \in Watchers, NEW from, NEW to, Goto(w, from, to),
         UNCHANGED <<tracing, wasTracing, raising, outer, crossed>>,
         to # "new",
         from = "new" => to \in Ended,
         to \in {"isTracing", "startTracing", "takeBefore", "takeAfter", "stopTracing"} =>
            w \in Tracing,
         (~crossed /\ from \in {"running"} \cup Ended) => to \in Ended,
         w \in Tracing =>
            /\ to \in Needing => from \in Needing
            /\ to \notin {"startTracing", "stopTracing"}
  PROVE  NestInv'
<1> USE DEF NestTypes
<1>0. /\ pc[w] = from /\ pc'[w] = to
      /\ \A o \in Watchers \ {w} : pc'[o] = pc[o]
  BY DEF Goto
<1>1. Known'
  BY <1>0 DEF NestInv, Known
<1>2. TrackersOnly'
  BY <1>0 DEF NestInv, TrackersOnly
<1>3. ASSUME ~crossed  PROVE Nested'
  <2>1. Nested
    BY <1>3 DEF NestInv
  <2>2. OneAtWork'
    <3> SUFFICES ASSUME NEW v \in Watchers, NEW o \in Watchers,
                        Busy(v)', Busy(o)', o # v, pc'[v] # "running"
                 PROVE  pc'[o] = "running" /\ o \in outer[v]
      BY DEF OneAtWork
    <3>1. CASE v = w
      <4>1. Busy(w) /\ pc[w] # "running" /\ pc'[o] = pc[o] /\ Busy(o)
        BY <1>0, <1>3, <3>1 DEF Busy, Ended
      <4> QED BY <2>1, <3>1, <4>1 DEF Nested, OneAtWork
    <3>2. CASE o = w
      <4>1. Busy(w) /\ pc[w] # "running" /\ pc'[v] = pc[v] /\ Busy(v)
        BY <1>0, <1>3, <3>2 DEF Busy, Ended
      <4> QED BY <2>1, <3>2, <4>1 DEF Nested, OneAtWork
    <3>3. CASE v # w /\ o # w
      <4>1. pc'[o] = pc[o] /\ Busy(o) /\ pc'[v] = pc[v] /\ Busy(v)
        BY <1>0, <3>3 DEF Busy
      <4> QED BY <2>1, <4>1 DEF Nested, OneAtWork
    <3> QED BY <3>1, <3>2, <3>3
  <2>3. SwitchedRight'
    <3> SUFFICES ASSUME NEW v \in Tracing  PROVE
          /\ pc'[v] \in Needing => tracing'
          /\ (pc'[v] = "startTracing" /\ wasTracing'[v]) => tracing'
          /\ (pc'[v] \in Needing \cup {"startTracing", "stopTracing"} /\ ~wasTracing'[v]) =>
                \A o \in outer'[v] \cap Tracing : ~Busy(o)'
      BY DEF SwitchedRight
    <3>1. \A o \in Watchers : Busy(o)' => Busy(o)
      BY <1>0, <1>3 DEF Busy, Ended
    <3>2. CASE v = w
      BY <1>0, <2>1, <3>1, <3>2 DEF Nested, SwitchedRight
    <3>3. CASE v # w
      BY <1>0, <2>1, <3>1, <3>3 DEF Nested, SwitchedRight
    <3> QED BY <3>2, <3>3
  <2> QED BY <2>1, <2>2, <2>3 DEF Nested
<1> QED BY <1>1, <1>2, <1>3 DEF NestInv

\* __enter__ keeps the nesting: a watcher that finds tracemalloc off when it
\* comes to start() is the first to trace.
LEMMA NestEntering ==
  ASSUME NestTypes, NestInv, NEW w \in Watchers, Entering(w)
  PROVE  NestInv'
<1> USE DEF localVars, ghostVars, NestTypes
<1>1. CASE Enter(w)
  <2>1. /\ pc[w] = "new" /\ pc'[w] = "threadsBefore"
        /\ \A o \in Watchers \ {w} : pc'[o] = pc[o] /\ outer'[o] = outer[o]
        /\ outer'[w] = Active
    BY <1>1 DEF Enter, Goto
  <2>2. Known'
    <3> SUFFICES ASSUME NEW v \in Watchers, NEW o \in outer'[v]
                 PROVE  pc'[o] # "new" /\ pc'[v] # "new" /\ v \notin outer'[o]
      BY DEF Known
    <3>1. CASE v = w
      <4>1. o \in Watchers /\ o # w /\ pc[o] # "new"
        BY <2>1, <3>1 DEF Active
      <4>2. w \notin outer[o]
        BY <2>1, <4>1 DEF NestInv, Known
      <4> QED BY <2>1, <3>1, <4>1, <4>2
    <3>2. CASE v # w
      <4>1. o \in outer[v] /\ o \in Watchers /\ outer'[v] = outer[v]
        BY <2>1, <3>2
      <4>2. pc[o] # "new" /\ pc[v] # "new" /\ v \notin outer[o]
        BY <4>1 DEF NestInv, Known
      <4>3. o # w
        BY <2>1, <4>2
      <4> QED BY <2>1, <3>2, <4>2, <4>3
    <3> QED BY <3>1, <3>2
  <2>3. TrackersOnly'
    BY <2>1 DEF NestInv, TrackersOnly
  <2>4. ASSUME ~crossed'  PROVE Nested'
    <3>1. ~crossed /\ \A o \in Active : pc[o] = "running"
      BY <1>1, <2>4 DEF Enter
    <3>2. Nested
      BY <3>1 DEF NestInv
    <3>3. \A v \in Watchers : ~raising'[v]
      BY <1>1, <3>2 DEF Enter, Nested
    <3>4. OneAtWork'
      <4> SUFFICES ASSUME NEW v \in Watchers, NEW o \in Watchers,
                          Busy(v)', Busy(o)', o # v, pc'[v] # "running"
                   PROVE  pc'[o] = "running" /\ o \in outer'[v]
        BY DEF OneAtWork
      <4>1. v = w
        BY <2>1, <3>1 DEF Active, Busy
      <4>2. o \in Active
        BY <2>1, <4>1 DEF Active, Busy
      <4> QED BY <2>1, <3>1, <4>1, <4>2
    <3>5. SwitchedRight'
      <4> SUFFICES ASSUME NEW v \in Tracing  PROVE
            /\ pc'[v] \in Needing => tracing'
            /\ (pc'[v] = "startTracing" /\ wasTracing'[v]) => tracing'
            /\ (pc'[v] \in Needing \cup {"startTracing", "stopTracing"} /\ ~wasTracing'[v]) =>
                  \A o \in outer'[v] \cap Tracing : ~Busy(o)'
        BY DEF SwitchedRight
      <4>1. CASE v = w
        BY <2>1, <4>1 DEF Needing
      <4>2. CASE v # w
        <5>1. pc'[v] = pc[v] /\ outer'[v] = outer[v] /\ tracing' = tracing /\ wasTracing' = wasTracing
          BY <1>1, <2>1, <4>2 DEF Enter
        <5>2. \A o \in outer[v] : o # w
          BY <2>1 DEF NestInv, Known
        <5>3. \A o \in outer[v] : Busy(o)' => Busy(o)
          BY <2>1, <5>2 DEF Busy
        <5> QED BY <3>2, <5>1, <5>3 DEF Nested, SwitchedRight
      <4> QED BY <4>1, <4>2
    <3> QED BY <3>3, <3>4, <3>5 DEF Nested
  <2> QED BY <2>2, <2>3, <2>4 DEF NestInv
<1>2. CASE EnterFails(w)
  BY <1>2, NestMoves DEF EnterFails, Ended, Needing
<1>3. CASE ThreadsBefore(w)
  BY <1>3, NestMoves DEF ThreadsBefore, Ended, Needing
<1>4. CASE StartSampler(w)
  <2>1. CASE w \in Tracing
    BY <1>4, <2>1, NestMoves DEF StartSampler, Ended, Needing
  <2>2. CASE w \notin Tracing
    BY <1>4, <2>2, NestMoves DEF StartSampler, Ended, Needing
  <2> QED BY <2>1, <2>2
<1>5. CASE IsTracing(w)
  <2>1. /\ pc[w] = "isTracing" /\ pc'[w] = "startTracing" /\ w \in Tracing
        /\ \A o \in Watchers \ {w} : pc'[o] = pc[o] /\ wasTracing'[o] = wasTracing[o]
        /\ UNCHANGED <<tracing, raising, outer, crossed>>
    BY <1>5 DEF IsTracing, Goto, NestInv, TrackersOnly
  <2>2. wasTracing'[w] = tracing
    BY <1>5 DEF IsTracing
  <2>3. Known' /\ TrackersOnly'
    BY <2>1 DEF NestInv, Known, TrackersOnly
  <2>4. ASSUME ~crossed  PROVE Nested'
    <3>1. Nested
      BY <2>4 DEF NestInv
    <3>2. \A o \in Watchers : Busy(o)' <=> Busy(o)
      BY <2>1 DEF Busy, Ended
    <3>3. OneAtWork'
      BY <2>1, <3>1, <3>2 DEF Nested, OneAtWork
    <3>4. \A o \in Tracing \ {w} : Busy(o) => tracing
      <4> SUFFICES ASSUME NEW o \in Tracing \ {w}, Busy(o)  PROVE tracing
        OBVIOUS
      <4>1. Busy(w) /\ pc[w] # "running"
        BY <2>1 DEF Busy, Ended
      <4>2. pc[o] = "running"
        BY <3>1, <4>1 DEF Nested, OneAtWork
      <4> QED BY <3>1, <4>2 DEF Nested, SwitchedRight, Needing
    <3>5. SwitchedRight'
      <4> SUFFICES ASSUME NEW v \in Tracing  PROVE
            /\ pc'[v] \in Needing => tracing'
            /\ (pc'[v] = "startTracing" /\ wasTracing'[v]) => tracing'
            /\ (pc'[v] \in Needing \cup {"startTracing", "stopTracing"} /\ ~wasTracing'[v]) =>
                  \A o \in outer'[v] \cap Tracing : ~Busy(o)'
        BY DEF SwitchedRight
      <4>1. CASE v = w
        <5>1. \A o \in outer[w] : o # w
          BY DEF NestInv, Known
        <5> QED BY <2>1, <2>2, <3>2, <3>4, <4>1, <5>1 DEF Needing
      <4>2. CASE v # w
        BY <2>1, <3>1, <3>2, <4>2 DEF Nested, SwitchedRight
      <4> QED BY <4>1, <4>2
    <3> QED BY <2>1, <3>1, <3>3, <3>5 DEF Nested
  <2> QED BY <2>1, <2>3, <2>4 DEF NestInv
<1>6. CASE StartTracing(w)
  <2>1. /\ pc[w] = "startTracing" /\ pc'[w] = "takeBefore" /\ w \in Tracing
        /\ \A o \in Watchers \ {w} : pc'[o] = pc[o]
        /\ UNCHANGED <<wasTracing, raising, outer, crossed>>
    BY <1>6 DEF StartTracing, Goto, NestInv, TrackersOnly
  <2>2. (tracing => tracing') /\ (~wasTracing[w] => tracing')
    BY <1>6, Zenon DEF StartTracing
  <2>3. Known' /\ TrackersOnly'
    BY <2>1 DEF NestInv, Known, TrackersOnly
  <2>4. ASSUME ~crossed  PROVE Nested'
    <3>1. Nested
      BY <2>4 DEF NestInv
    <3>2. \A o \in Watchers : Busy(o)' <=> Busy(o)
      BY <2>1 DEF Busy, Ended
    <3>3. OneAtWork'
      BY <2>1, <3>1, <3>2 DEF Nested, OneAtWork
    <3>5. SwitchedRight'
      <4> SUFFICES ASSUME NEW v \in Tracing  PROVE
            /\ pc'[v] \in Needing => tracing'
            /\ (pc'[v] = "startTracing" /\ wasTracing'[v]) => tracing'
            /\ (pc'[v] \in Needing \cup {"startTracing", "stopTracing"} /\ ~wasTracing'[v]) =>
                  \A o \in outer'[v] \cap Tracing : ~Busy(o)'
        BY DEF SwitchedRight
      <4>1. CASE v = w
        BY <2>1, <2>2, <3>1, <3>2, <4>1 DEF Nested, SwitchedRight, Needing
      <4>2. CASE v # w
        BY <2>1, <2>2, <3>1, <3>2, <4>2 DEF Nested, SwitchedRight
      <4> QED BY <4>1, <4>2
    <3> QED BY <2>1, <3>1, <3>3, <3>5 DEF Nested
  <2> QED BY <2>1, <2>3, <2>4 DEF NestInv
<1>7. CASE TakeBefore(w)
  <2>1. CASE tracing
    BY <1>7, <2>1, NestMoves DEF TakeBefore, Ended, Needing
  <2>2. CASE ~tracing
    BY <1>7, <2>2, NestMoves DEF TakeBefore, Ended, Needing
  <2> QED BY <2>1, <2>2
<1> QED BY <1>1, <1>2, <1>3, <1>4, <1>5, <1>6, <1>7 DEF Entering

\* __exit__ keeps it: stop() of the watcher that started tracemalloc finds
\* no other that traces.
LEMMA NestExiting ==
  ASSUME NestTypes, NestInv, NEW w \in Watchers, Exiting(w)
  PROVE  NestInv'
<1> USE DEF localVars, ghostVars, NestTypes
<1>1. CASE Exit(w)
  <2>1. /\ pc[w] = "running" /\ pc'[w] = "listAfter"
        /\ \A o \in Watchers \ {w} : pc'[o] = pc[o]
        /\ UNCHANGED <<tracing, wasTracing, raising, outer>>
    BY <1>1 DEF Exit, Goto
  <2>2. Known' /\ TrackersOnly'
    BY <2>1 DEF NestInv, Known, TrackersOnly
  <2>3. ASSUME ~crossed'  PROVE Nested'
    <3>1. ~crossed /\ \A o \in Active \ {w} : o \in outer[w]
      BY <1>1, <2>3 DEF Exit, NoteCrossing
    <3>2. Nested
      BY <3>1 DEF NestInv
    <3>3. \A o \in Watchers : Busy(o)' <=> Busy(o)
      BY <2>1 DEF Busy, Ended
    <3>4. OneAtWork'
      <4> SUFFICES ASSUME NEW v \in Watchers, NEW o \in Watchers,
                          Busy(v)', Busy(o)', o # v, pc'[v] # "running"
                   PROVE  pc'[o] = "running" /\ o \in outer[v]
        BY <2>1 DEF OneAtWork
      <4>1. CASE v = w
        <5>1. o \in outer[w] /\ Busy(w) /\ Busy(o)
          BY <3>1, <3>3, <4>1 DEF Active, Busy
        <5>2. w \notin outer[o]
          BY <5>1 DEF NestInv, Known
        <5>3. pc[o] = "running"
          BY <3>2, <4>1, <5>1, <5>2 DEF Nested, OneAtWork
        <5> QED BY <2>1, <4>1, <5>1, <5>3
      <4>2. CASE v # w
        <5>1. pc[v] # "running" /\ Busy(v) /\ Busy(w)
          BY <2>1, <3>3, <4>2 DEF Busy, Ended
        <5>2. v \in outer[w] /\ w \in outer[v]
          BY <3>1, <3>2, <4>2, <5>1 DEF Nested, OneAtWork, Active, Busy
        <5> QED BY <5>2 DEF NestInv, Known
      <4> QED BY <4>1, <4>2
    <3>5. SwitchedRight'
      <4> SUFFICES ASSUME NEW v \in Tracing  PROVE
            /\ pc'[v] \in Needing => tracing'
            /\ (pc'[v] = "startTracing" /\ wasTracing'[v]) => tracing'
            /\ (pc'[v] \in Needing \cup {"startTracing", "stopTracing"} /\ ~wasTracing'[v]) =>
                  \A o \in outer'[v] \cap Tracing : ~Busy(o)'
        BY DEF SwitchedRight
      <4>1. CASE v = w
        BY <2>1, <3>2, <3>3, <4>1 DEF Nested, SwitchedRight, Needing
      <4>2. CASE v # w
        BY <2>1, <3>2, <3>3, <4>2 DEF Nested, SwitchedRight
      <4> QED BY <4>1, <4>2
    <3> QED BY <2>1, <3>2, <3>4, <3>5 DEF Nested
  <2> QED BY <2>2, <2>3 DEF NestInv
<1>2. CASE ExitFails(w)
  BY <1>2, NestMoves DEF ExitFails, Ended, Needing
<1>3. CASE ListAfter(w)
  BY <1>3, NestMoves DEF ListAfter, Ended, Needing
<1>4. CASE ThreadsAfter(w)
  <2>1. CASE w \in Tracing
    BY <1>4, <2>1, NestMoves DEF ThreadsAfter, Ended, Needing
  <2>2. CASE w \notin Tracing
    BY <1>4, <2>2, NestMoves DEF ThreadsAfter, Ended, Needing
  <2> QED BY <2>1, <2>2
<1>5. CASE TakeAfter(w)
  <2>1. /\ pc[w] = "takeAfter" /\ pc'[w] = "stopTracing" /\ w \in Tracing
        /\ \A o \in Watchers \ {w} : pc'[o] = pc[o] /\ raising'[o] = raising[o]
        /\ UNCHANGED <<tracing, wasTracing, outer, crossed>>
    BY <1>5 DEF TakeAfter, Goto, NestInv, TrackersOnly
  <2>2. raising'[w] = ~tracing
    BY <1>5 DEF TakeAfter
  <2>3. Known' /\ TrackersOnly'
    BY <2>1 DEF NestInv, Known, TrackersOnly
  <2>4. ASSUME ~crossed  PROVE Nested'
    <3>1. Nested
      BY <2>4 DEF NestInv
    <3>2. \A o \in Watchers : Busy(o)' <=> Busy(o)
      BY <2>1 DEF Busy, Ended
    <3>3. OneAtWork'
      BY <2>1, <3>1, <3>2 DEF Nested, OneAtWork
    <3>4. \A v \in Watchers : ~raising'[v]
      <4>1. tracing
        BY <2>1, <3>1 DEF Nested, SwitchedRight, Needing
      <4> QED BY <2>1, <2>2, <3>1, <4>1 DEF Nested
    <3>5. SwitchedRight'
      <4> SUFFICES ASSUME NEW v \in Tracing  PROVE
            /\ pc'[v] \in Needing => tracing'
            /\ (pc'[v] = "startTracing" /\ wasTracing'[v]) => tracing'
            /\ (pc'[v] \in Needing \cup {"startTracing", "stopTracing"} /\ ~wasTracing'[v]) =>
                  \A o \in outer'[v] \cap Tracing : ~Busy(o)'
        BY DEF SwitchedRight
      <4>1. CASE v = w
        BY <2>1, <3>1, <3>2, <4>1 DEF Nested, SwitchedRight, Needing
      <4>2. CASE v # w
        BY <2>1, <3>1, <3>2, <4>2 DEF Nested, SwitchedRight
      <4> QED BY <4>1, <4>2
    <3> QED BY <3>3, <3>4, <3>5 DEF Nested
  <2> QED BY <2>1, <2>3, <2>4 DEF NestInv
<1>6. CASE StopTracing(w)
  <2>1. /\ pc[w] = "stopTracing" /\ pc'[w] \in {"failed", "report"} /\ w \in Tracing
        /\ \A o \in Watchers \ {w} : pc'[o] = pc[o]
        /\ UNCHANGED <<wasTracing, raising, outer, crossed>>
    BY <1>6 DEF StopTracing, Goto, NestInv, TrackersOnly
  <2>2. (tracing /\ wasTracing[w]) => tracing'
    BY <1>6, Zenon DEF StopTracing
  <2>3. Known' /\ TrackersOnly'
    BY <2>1 DEF NestInv, Known, TrackersOnly
  <2>4. ASSUME ~crossed  PROVE Nested'
    <3>1. Nested
      BY <2>4 DEF NestInv
    <3>2. \A o \in Watchers : Busy(o)' => Busy(o)
      BY <2>1 DEF Busy, Ended
    <3>3. OneAtWork'
      <4>1. Busy(w) /\ pc[w] # "running"
        BY <2>1 DEF Busy, Ended
      <4> QED BY <2>1, <3>1, <3>2, <4>1 DEF Nested, OneAtWork
    <3>4. \A o \in Watchers \ {w} : Busy(o) => pc[o] = "running" /\ o \in outer[w]
      BY <2>1, <3>1 DEF Nested, OneAtWork, Busy, Ended
    <3>5. SwitchedRight'
      <4> SUFFICES ASSUME NEW v \in Tracing  PROVE
            /\ pc'[v] \in Needing => tracing'
            /\ (pc'[v] = "startTracing" /\ wasTracing'[v]) => tracing'
            /\ (pc'[v] \in Needing \cup {"startTracing", "stopTracing"} /\ ~wasTracing'[v]) =>
                  \A o \in outer'[v] \cap Tracing : ~Busy(o)'
        BY DEF SwitchedRight
      <4>1. CASE v = w
        BY <2>1, <4>1 DEF Needing
      <4>2. CASE v # w /\ ~Busy(v)
        <5>1. pc'[v] = pc[v] /\ pc[v] \notin Needing \cup {"startTracing", "stopTracing"}
          BY <2>1, <4>2 DEF Busy, Ended, Needing
        <5> QED BY <5>1
      <4>3. CASE v # w /\ Busy(v)
        <5>1. pc'[v] = "running" /\ pc[v] = "running" /\ v \in outer[w]
          BY <2>1, <3>4, <4>3
        <5>2. wasTracing[w]
          BY <2>1, <3>1, <4>3, <5>1 DEF Nested, SwitchedRight, Needing
        <5>3. tracing
          BY <3>1, <5>1 DEF Nested, SwitchedRight, Needing
        <5> QED BY <2>1, <2>2, <3>1, <3>2, <5>1, <5>2, <5>3 DEF Nested, SwitchedRight
      <4> QED BY <4>1, <4>2, <4>3
    <3> QED BY <2>1, <3>1, <3>3, <3>5 DEF Nested
  <2> QED BY <2>1, <2>3, <2>4 DEF NestInv
<1>7. CASE Report(w)
  BY <1>7, NestMoves DEF Report, Ended, Needing
<1> QED BY <1>1, <1>2, <1>3, <1>4, <1>5, <1>6, <1>7 DEF Exiting

\* Samplers and the program have no part in it.
LEMMA NestNext == NestTypes /\ NestInv /\ [Next]_vars => NestInv'
<1> SUFFICES ASSUME NestTypes, NestInv, [Next]_vars  PROVE NestInv'
  OBVIOUS
<1> DEFINE Untouched == UNCHANGED <<tracing, pc, wasTracing, raising, outer, crossed>>
<1>1. ASSUME Untouched  PROVE NestInv'
  BY <1>1 DEF NestInv, Known, TrackersOnly, Nested, OneAtWork, SwitchedRight, Busy
<1>2. ASSUME NEW w \in Watchers, Entering(w)  PROVE NestInv'
  BY <1>2, NestEntering
<1>3. ASSUME NEW w \in Watchers, Exiting(w)  PROVE NestInv'
  BY <1>3, NestExiting
<1>4. ASSUME NEW w \in Watchers, Snapshot(w) \/ Collect(w)  PROVE NestInv'
  BY <1>1, <1>4 DEF Snapshot, Collect, localVars, ghostVars
<1>5. ASSUME NEW x \in Paths, OpenOrClose(x)  PROVE NestInv'
  BY <1>1, <1>5 DEF OpenOrClose, localVars, ghostVars
<1>6. ASSUME NEW n \in Names, StartOrEnd(n)  PROVE NestInv'
  BY <1>1, <1>6 DEF StartOrEnd, localVars, ghostVars
<1>7. CASE UNCHANGED vars
  BY <1>1, <1>7 DEF vars, localVars, ghostVars
<1> QED BY <1>2, <1>3, <1>4, <1>5, <1>6, <1>7 DEF Next

\* Watchers that leave in the reverse of the order they entered in, however
\* deep they are nested, never take tracemalloc from each other.
THEOREM NestedSucceed == Spec => []NestedSnapshotsSucceed
<1>1. NestInv => NestedSnapshotsSucceed
  BY DEF NestInv, Nested, SwitchedRight, TrackersOnly, Needing, NestedSnapshotsSucceed
<1> QED BY <1>1, TypeInit, TypeNext, NestTyped, NestInit, NestNext, PTL DEF Spec

-----------------------------------------------------------------------------
(* Verdicts.  The lists are the program's descriptors as they were, and    *)
(* whatever else a list shows is another watcher's sampler.                *)

\* Steps at which a watcher has no sampler: before it starts one and after
\* it joined it.
Joined == {"new", "threadsBefore", "startSampler", "listAfter", "threadsAfter",
           "takeAfter", "stopTracing", "report", "done", "failed"}

Listed(w) ==
    \A x \in Paths : fdsBefore[w][x] = openBefore[w][x] /\ fdsAfter[w][x] = openAfter[w][x]

Seen(w) == fdsAfter[w][Proc] > 0 => \E o \in Sampling \ {w} : pc[o] # "new"

SamplerOff(w) == sampler[w] # "off" => w \in Sampling /\ pc[w] \notin Joined

ListInv ==
    \A w \in Watchers :
        Listed(w) /\ Seen(w) /\ SamplerOff(w) /\ (pc[w] = "done" => result[w] = Verdict(w))

\* Nothing is open and nobody has begun.
LEMMA ListInit == Init => ListInv
<1> SUFFICES ASSUME Init, NEW w \in Watchers
             PROVE  Listed(w) /\ Seen(w) /\ SamplerOff(w) /\ pc[w] # "done"
  BY DEF ListInv
<1>1. /\ fdsBefore[w] = Nothing /\ fdsAfter[w] = Nothing /\ sampler[w] = "off" /\ pc[w] = "new"
      /\ openBefore[w] = [x \in Paths |-> 0] /\ openAfter[w] = [x \in Paths |-> 0]
  BY DEF Init
<1> QED BY <1>1 DEF Listed, Seen, SamplerOff, Nothing, FdPaths

\* Steps that move one watcher on and leave the lists and reports alone.
LEMMA ListMoves ==
  ASSUME TypeInv, ListInv, NEW w \in Watchers, NEW from, NEW to, Goto(w, from, to),
         UNCHANGED <<fdsBefore, fdsAfter, threadsBefore, threadsAfter, openBefore, openAfter>>,
         to \notin {"new", "done"},
         UNCHANGED result,
         \/ sampler' = sampler /\ (to \in Joined => from \in Joined)
         \/ sampler' = [sampler EXCEPT ![w] = "off"]
         \/ sampler' = [sampler EXCEPT ![w] = "idle"] /\ w \in Sampling /\ to \notin Joined
  PROVE  ListInv'
<1> SUFFICES ASSUME NEW v \in Watchers
             PROVE  /\ Listed(v)' /\ Seen(v)' /\ SamplerOff(v)'
                    /\ (pc'[v] = "done" => result'[v] = Verdict(v)')
  BY DEF ListInv
<1>0. /\ Listed(v) /\ Seen(v) /\ SamplerOff(v) /\ (pc[v] = "done" => result[v] = Verdict(v))
      /\ pc \in [Watchers -> Steps] /\ sampler \in [Watchers -> {"off", "idle", "snapshot"}]
      /\ Sampling \subseteq Watchers
  BY SetsAssumption DEF ListInv, TypeInv
<1>1. Listed(v)'
  BY <1>0 DEF Listed
<1>2. Seen(v)'
  BY <1>0 DEF Seen, Goto
<1>3. SamplerOff(v)'
  BY <1>0 DEF SamplerOff, Goto
<1>4. pc'[v] = "done" => result'[v] = Verdict(v)'
  BY <1>0 DEF Goto, Verdict
<1> QED BY <1>1, <1>2, <1>3, <1>4

\* A list shows what the program has open, and only if some other watcher's
\* sampler is in a snapshot the directory that it reads.
LEMMA ListShows ==
  ASSUME TypeInv, ListInv, NEW w \in Watchers, pc[w] \in Joined
  PROVE  /\ \A x \in Paths : ListFds[x] = open[x]
         /\ ListFds[Proc] > 0 => \E o \in Sampling \ {w} : pc[o] # "new"
<1>1. \A x \in Paths : ListFds[x] = open[x]
  BY SetsAssumption DEF ListFds, FdPaths
<1>2. ASSUME ListFds[Proc] > 0  PROVE \E o \in Sampling \ {w} : pc[o] # "new"
  <2> DEFINE S == {o \in Watchers : sampler[o] = "snapshot"}
  <2>1. ListFds[Proc] = Cardinality(S)
    BY DEF ListFds, FdPaths
  <2>2. S # {}
    BY <1>2, <2>1, FS_EmptySet
  <2>3. PICK o \in Watchers : sampler[o] = "snapshot"
    BY <2>2
  <2>4. o \in Sampling /\ pc[o] \notin Joined
    BY <2>3 DEF ListInv, SamplerOff
  <2> QED BY <2>4 DEF Joined
<1> QED BY <1>1, <1>2

\* __enter__ keeps the invariant.
LEMMA ListEntering ==
  ASSUME TypeInv, ListInv, NEW w \in Watchers, Entering(w)
  PROVE  ListInv'
<1> USE DEF localVars, ghostVars, programVars
<1>1. CASE Enter(w)
  <2> SUFFICES ASSUME NEW v \in Watchers
               PROVE  /\ Listed(v)' /\ Seen(v)' /\ SamplerOff(v)'
                      /\ (pc'[v] = "done" => result'[v] = Verdict(v)')
    BY DEF ListInv
  <2>0. /\ Listed(v) /\ Seen(v) /\ SamplerOff(v) /\ (pc[v] = "done" => result[v] = Verdict(v))
        /\ pc \in [Watchers -> Steps] /\ fdsBefore \in [Watchers -> FdBags]
        /\ openBefore \in [Watchers -> [Paths -> 0..MaxCount]] /\ Sampling \subseteq Watchers
    BY SetsAssumption DEF ListInv, TypeInv, LocalTypes
  <2>1. pc[w] = "new" /\ pc'[w] = "threadsBefore" /\ \A o \in Watchers \ {w} : pc'[o] = pc[o]
    BY <1>1, <2>0 DEF Enter, Goto
  <2>2. \A x \in Paths : ListFds[x] = open[x]
    BY SetsAssumption DEF ListFds, FdPaths
  <2>3. Listed(v)'
    BY <1>1, <2>0, <2>2 DEF Enter, Listed
  <2>4. Seen(v)'
    BY <1>1, <2>0, <2>1 DEF Enter, Seen
  <2>5. SamplerOff(v)'
    BY <1>1, <2>0, <2>1 DEF Enter, SamplerOff, Joined
  <2>6. pc'[v] = "done" => result'[v] = Verdict(v)'
    <3>1. CASE v = w
      BY <2>1, <3>1
    <3>2. CASE v # w
      BY <1>1, <2>0, <2>1, <3>2 DEF Enter, Verdict
    <3> QED BY <3>1, <3>2
  <2> QED BY <2>3, <2>4, <2>5, <2>6
<1>2. CASE EnterFails(w)
  <2>1. Goto(w, "new", "noEntry") /\ sampler' = sampler
    BY <1>2 DEF EnterFails
  <2> QED BY <1>2, <2>1, ListMoves DEF EnterFails, Joined
<1>3. CASE ThreadsBefore(w)
  <2> SUFFICES ASSUME NEW v \in Watchers
               PROVE  /\ Listed(v)' /\ Seen(v)' /\ SamplerOff(v)'
                      /\ (pc'[v] = "done" => result'[v] = Verdict(v)')
    BY DEF ListInv
  <2>0. /\ Listed(v) /\ Seen(v) /\ SamplerOff(v) /\ (pc[v] = "done" => result[v] = Verdict(v))
        /\ pc \in [Watchers -> Steps] /\ Sampling \subseteq Watchers
        /\ threadsBefore \in [Watchers -> NameBags]
    BY SetsAssumption DEF ListInv, TypeInv, LocalTypes
  <2>1. /\ pc[w] = "threadsBefore" /\ pc'[w] = "startSampler"
        /\ \A o \in Watchers \ {w} : pc'[o] = pc[o]
    BY <1>3, <2>0 DEF ThreadsBefore, Goto
  <2>2. Listed(v)'
    BY <1>3, <2>0 DEF ThreadsBefore, Listed
  <2>3. Seen(v)'
    BY <1>3, <2>0, <2>1 DEF ThreadsBefore, Seen
  <2>4. SamplerOff(v)'
    BY <1>3, <2>0, <2>1 DEF ThreadsBefore, SamplerOff, Joined
  <2>5. pc'[v] = "done" => result'[v] = Verdict(v)'
    <3>1. CASE v = w
      BY <2>1, <3>1
    <3>2. CASE v # w
      BY <1>3, <2>0, <2>1, <3>2 DEF ThreadsBefore, Verdict
    <3> QED BY <3>1, <3>2
  <2> QED BY <2>2, <2>3, <2>4, <2>5
<1>4. CASE StartSampler(w)
  <2>1. PICK to \in {"isTracing", "running"} : Goto(w, "startSampler", to)
    BY <1>4 DEF StartSampler
  <2>2. \/ sampler' = [sampler EXCEPT ![w] = "off"]
        \/ sampler' = [sampler EXCEPT ![w] = "idle"] /\ w \in Sampling
    BY <1>4 DEF StartSampler
  <2>3. to \notin Joined \cup {"new", "done"}
    BY <2>1 DEF Joined
  <2> QED BY <1>4, <2>1, <2>2, <2>3, ListMoves DEF StartSampler
<1>5. CASE IsTracing(w)
  <2>1. Goto(w, "isTracing", "startTracing") /\ sampler' = sampler
    BY <1>5 DEF IsTracing
  <2> QED BY <1>5, <2>1, ListMoves DEF IsTracing, Joined
<1>6. CASE StartTracing(w)
  <2>1. Goto(w, "startTracing", "takeBefore") /\ sampler' = sampler
    BY <1>6 DEF StartTracing
  <2> QED BY <1>6, <2>1, ListMoves DEF StartTracing, Joined
<1>7. CASE TakeBefore(w)
  <2>1. PICK to \in {"running", "noEntry"} : Goto(w, "takeBefore", to)
    BY <1>7 DEF TakeBefore
  <2>2. sampler' = sampler /\ to \notin Joined \cup {"new", "done"}
    BY <1>7 DEF TakeBefore, Joined
  <2> QED BY <1>7, <2>1, <2>2, ListMoves DEF TakeBefore
<1> QED BY <1>1, <1>2, <1>3, <1>4, <1>5, <1>6, <1>7 DEF Entering

\* __exit__ keeps it: the second list is made with the watcher's own sampler
\* joined, and the report is made from the two.
LEMMA ListExiting ==
  ASSUME TypeInv, ListInv, NEW w \in Watchers, Exiting(w)
  PROVE  ListInv'
<1> USE DEF localVars, ghostVars, programVars
<1>1. CASE Exit(w)
  <2>1. Goto(w, "running", "listAfter") /\ sampler' = [sampler EXCEPT ![w] = "off"]
    BY <1>1 DEF Exit
  <2> QED BY <1>1, <2>1, ListMoves DEF Exit
<1>2. CASE ExitFails(w)
  <2>1. PICK from \in {"running", "listAfter"} : Goto(w, from, "noExit")
    BY <1>2 DEF ExitFails
  <2>2. sampler' = sampler /\ "noExit" \notin Joined
    BY <1>2 DEF ExitFails, Joined
  <2> QED BY <1>2, <2>1, <2>2, ListMoves DEF ExitFails
<1>3. CASE ListAfter(w)
  <2> SUFFICES ASSUME NEW v \in Watchers
               PROVE  /\ Listed(v)' /\ Seen(v)' /\ SamplerOff(v)'
                      /\ (pc'[v] = "done" => result'[v] = Verdict(v)')
    BY DEF ListInv
  <2>0. /\ Listed(v) /\ Seen(v) /\ SamplerOff(v) /\ (pc[v] = "done" => result[v] = Verdict(v))
        /\ pc \in [Watchers -> Steps] /\ fdsAfter \in [Watchers -> FdBags]
        /\ openAfter \in [Watchers -> [Paths -> 0..MaxCount]] /\ Sampling \subseteq Watchers
    BY SetsAssumption DEF ListInv, TypeInv, LocalTypes
  <2>1. pc[w] = "listAfter" /\ pc'[w] = "threadsAfter" /\ \A o \in Watchers \ {w} : pc'[o] = pc[o]
    BY <1>3, <2>0 DEF ListAfter, Goto
  <2>2. /\ \A x \in Paths : ListFds[x] = open[x]
        /\ ListFds[Proc] > 0 => \E o \in Sampling \ {w} : pc[o] # "new"
    BY <2>1, ListShows DEF Joined
  <2>3. Listed(v)'
    BY <1>3, <2>0, <2>2 DEF ListAfter, Listed
  <2>4. Seen(v)'
    BY <1>3, <2>0, <2>1, <2>2 DEF ListAfter, Seen
  <2>5. SamplerOff(v)'
    BY <1>3, <2>0, <2>1 DEF ListAfter, SamplerOff, Joined
  <2>6. pc'[v] = "done" => result'[v] = Verdict(v)'
    <3>1. CASE v = w
      BY <2>1, <3>1
    <3>2. CASE v # w
      BY <1>3, <2>0, <2>1, <3>2 DEF ListAfter, Verdict
    <3> QED BY <3>1, <3>2
  <2> QED BY <2>3, <2>4, <2>5, <2>6
<1>4. CASE ThreadsAfter(w)
  <2> SUFFICES ASSUME NEW v \in Watchers
               PROVE  /\ Listed(v)' /\ Seen(v)' /\ SamplerOff(v)'
                      /\ (pc'[v] = "done" => result'[v] = Verdict(v)')
    BY DEF ListInv
  <2>0. /\ Listed(v) /\ Seen(v) /\ SamplerOff(v) /\ (pc[v] = "done" => result[v] = Verdict(v))
        /\ pc \in [Watchers -> Steps] /\ Sampling \subseteq Watchers
        /\ threadsAfter \in [Watchers -> NameBags]
    BY SetsAssumption DEF ListInv, TypeInv, LocalTypes
  <2>1. /\ pc[w] = "threadsAfter" /\ pc'[w] \in {"takeAfter", "report"}
        /\ \A o \in Watchers \ {w} : pc'[o] = pc[o]
    BY <1>4, <2>0 DEF ThreadsAfter, Goto, Steps
  <2>2. Listed(v)'
    BY <1>4, <2>0 DEF ThreadsAfter, Listed
  <2>3. Seen(v)'
    BY <1>4, <2>0, <2>1 DEF ThreadsAfter, Seen
  <2>4. SamplerOff(v)'
    BY <1>4, <2>0, <2>1 DEF ThreadsAfter, SamplerOff, Joined
  <2>5. pc'[v] = "done" => result'[v] = Verdict(v)'
    <3>1. CASE v = w
      BY <2>1, <3>1
    <3>2. CASE v # w
      BY <1>4, <2>0, <2>1, <3>2 DEF ThreadsAfter, Verdict
    <3> QED BY <3>1, <3>2
  <2> QED BY <2>2, <2>3, <2>4, <2>5
<1>5. CASE TakeAfter(w)
  <2>1. Goto(w, "takeAfter", "stopTracing") /\ sampler' = sampler
    BY <1>5 DEF TakeAfter
  <2> QED BY <1>5, <2>1, ListMoves DEF TakeAfter, Joined
<1>6. CASE StopTracing(w)
  <2>1. PICK to \in {"failed", "report"} : Goto(w, "stopTracing", to)
    BY <1>6 DEF StopTracing
  <2>2. sampler' = sampler /\ to \notin {"new", "done"} /\ "stopTracing" \in Joined
    BY <1>6 DEF StopTracing, Joined
  <2> QED BY <1>6, <2>1, <2>2, ListMoves DEF StopTracing
<1>7. CASE Report(w)
  <2> SUFFICES ASSUME NEW v \in Watchers
               PROVE  /\ Listed(v)' /\ Seen(v)' /\ SamplerOff(v)'
                      /\ (pc'[v] = "done" => result'[v] = Verdict(v)')
    BY DEF ListInv
  <2>0. /\ Listed(v) /\ Seen(v) /\ SamplerOff(v) /\ (pc[v] = "done" => result[v] = Verdict(v))
        /\ pc \in [Watchers -> Steps] /\ Sampling \subseteq Watchers
        /\ result \in [Watchers -> Results]
    BY SetsAssumption DEF ListInv, TypeInv, LocalTypes
  <2>1. /\ pc[w] = "report" /\ pc'[w] = "done" /\ \A o \in Watchers \ {w} : pc'[o] = pc[o]
        /\ UNCHANGED <<sampler, fdsBefore, fdsAfter, threadsBefore, threadsAfter, openBefore, openAfter>>
    BY <1>7, <2>0 DEF Report, Goto
  <2>2. result' = [result EXCEPT ![w] = Verdict(w)]
    BY <1>7, ReportIs
  <2>3. Listed(v)'
    BY <2>0, <2>1 DEF Listed
  <2>4. Seen(v)'
    BY <2>0, <2>1 DEF Seen
  <2>5. SamplerOff(v)'
    BY <2>0, <2>1 DEF SamplerOff, Joined
  <2>6. pc'[v] = "done" => result'[v] = Verdict(v)'
    <3>1. Verdict(v)' = Verdict(v)
      BY <2>1 DEF Verdict
    <3> QED BY <2>0, <2>1, <2>2, <3>1
  <2> QED BY <2>3, <2>4, <2>5, <2>6
<1> QED BY <1>1, <1>2, <1>3, <1>4, <1>5, <1>6, <1>7 DEF Exiting

\* So do the samplers and the program.
LEMMA ListNext == TypeInv /\ ListInv /\ [Next]_vars => ListInv'
<1> SUFFICES ASSUME TypeInv, ListInv, [Next]_vars  PROVE ListInv'
  OBVIOUS
<1> DEFINE Untouched == UNCHANGED <<pc, localVars, ghostVars>>
<1>1. ASSUME Untouched, \A w \in Watchers : SamplerOff(w)'  PROVE ListInv'
  BY <1>1 DEF ListInv, Listed, Seen, Verdict, localVars, ghostVars
<1>2. ASSUME NEW w \in Watchers, Entering(w)  PROVE ListInv'
  BY <1>2, ListEntering
<1>3. ASSUME NEW w \in Watchers, Exiting(w)  PROVE ListInv'
  BY <1>3, ListExiting
<1>4. ASSUME NEW w \in Watchers, Snapshot(w) \/ Collect(w)  PROVE ListInv'
  <2>1. \A v \in Watchers : SamplerOff(v)'
    BY <1>4 DEF Snapshot, Collect, ListInv, SamplerOff, TypeInv
  <2> QED BY <1>1, <1>4, <2>1 DEF Snapshot, Collect
<1>5. ASSUME UNCHANGED <<pc, sampler, localVars, ghostVars>>  PROVE ListInv'
  <2>1. \A v \in Watchers : SamplerOff(v)'
    BY <1>5 DEF ListInv, SamplerOff
  <2> QED BY <1>1, <1>5, <2>1
<1>6. ASSUME NEW x \in Paths, OpenOrClose(x)  PROVE ListInv'
  BY <1>5, <1>6 DEF OpenOrClose
<1>7. ASSUME NEW n \in Names, StartOrEnd(n)  PROVE ListInv'
  BY <1>5, <1>7 DEF StartOrEnd
<1>8. CASE UNCHANGED vars
  BY <1>5, <1>8 DEF vars
<1> QED BY <1>2, <1>3, <1>4, <1>6, <1>7, <1>8 DEF Next

\* No fewer descriptors are reported than have leaked: what was closed since
\* the first list takes nothing off.
LEMMA DeltaIsLeaked ==
  ASSUME NEW after \in FdBags, NEW before \in FdBags
  PROVE  FdDelta(after, before) = Size(Leaked(after, before))
<1> DEFINE leaked == Leaked(after, before)
           nothing == [x \in FdPaths |-> 0]
<1>1. /\ after \in [FdPaths -> Nat] /\ before \in [FdPaths -> Nat]
      /\ leaked \in [FdPaths -> Nat] /\ nothing \in [FdPaths -> Nat]
  BY BagsTyped, DeltaTyped
<1>2. \A x \in FdPaths : after[x] + nothing[x] <= before[x] + leaked[x]
  BY <1>1 DEF Leaked, AtLeast0
<1>3. Size(nothing) = 0
  BY <1>1, BagsTyped, SizeOfNothing
<1> HIDE DEF leaked, nothing
<1>4. Size(after) + Size(nothing) <= Size(before) + Size(leaked)
  BY <1>1, <1>2, BagsTyped, SizesCompare
<1>5. PICK a \in Nat, b \in Nat, c \in Nat : a = Size(after) /\ b = Size(before) /\ c = Size(leaked)
  BY <1>1, BagsTyped, CountWithin
<1>6. a <= b + c
  BY <1>3, <1>4, <1>5
<1>7. FdDelta(after, before) = IF c > 0 /\ c > a - b THEN c ELSE IF a - b < 0 THEN 0 ELSE a - b
  BY <1>5 DEF FdDelta, AtLeast0, leaked
<1>8. FdDelta(after, before) = c
  BY <1>6, <1>7
<1> QED BY <1>5, <1>8 DEF leaked

\* When descriptors are in the verdict: when the leaks outside allow_leaked
\* are more than none.
LEMMA FdsVerdict ==
  ASSUME NEW w \in Watchers, LocalTypes
  PROVE  LET leaked == Leaked(fdsAfter[w], fdsBefore[w])
         IN  "fds" \in Verdict(w).violations <=> Size(leaked) > CountOf(leaked, AllowLeaked)
<1>1. PICK a \in FdBags, b \in FdBags : a = fdsAfter[w] /\ b = fdsBefore[w]
  BY DEF LocalTypes
<1>2. PICK l \in [FdPaths -> Nat] : l = Leaked(a, b)
  BY BagsTyped, DeltaTyped
<1>3. PICK m \in Nat, k \in Nat : m = Size(l) /\ k = CountOf(l, AllowLeaked)
  BY BagsTyped, CountWithin
<1>4. FdDelta(a, b) = m
  BY <1>2, <1>3, DeltaIsLeaked
<1>5. "fds" \in Verdict(w).violations <=> AtLeast0(FdDelta(a, b) - CountOf(l, AllowLeaked)) > 0
  BY <1>1, <1>2 DEF Verdict, Check, EffectiveFdDelta
<1>6. "fds" \in Verdict(w).violations <=> AtLeast0(m - k) > 0
  BY <1>3, <1>4, <1>5
<1>7. "fds" \in Verdict(w).violations <=> m > k
  BY <1>6 DEF AtLeast0
<1> QED BY <1>1, <1>2, <1>3, <1>7

\* A leak outside allow_leaked is in the verdict: the excess of a path is
\* among the leaks, and counted on top of those that are allowed.
LEMMA LeaksCount == TypeInv /\ ListInv => LeakReported
<1> SUFFICES ASSUME TypeInv, ListInv,
                    NEW w \in Watchers, pc[w] = "done", "fds" \notin result[w].violations,
                    NEW x \in Paths \ AllowLeaked
             PROVE  openAfter[w][x] <= openBefore[w][x]
  BY DEF LeakReported
<1>1. PICK a \in FdBags, b \in FdBags : a = fdsAfter[w] /\ b = fdsBefore[w]
  BY DEF TypeInv, LocalTypes
<1>2. PICK l \in [FdPaths -> Nat] : l = Leaked(a, b)
  BY BagsTyped, DeltaTyped
<1>3. PICK m \in Nat, k \in Nat :
        m = Size(l) /\ k = CountOf(l, AllowLeaked) /\ k + l[x] <= m
  BY BagsTyped, CountWithin DEF FdPaths
<1>4. ~(m > k)
  BY <1>1, <1>2, <1>3, FdsVerdict DEF TypeInv, ListInv
<1>5. l[x] = 0
  BY <1>3, <1>4 DEF FdPaths
<1>6. a[x] \in Nat /\ b[x] \in Nat
  BY BagsTyped DEF FdPaths
<1>7. l[x] = AtLeast0(a[x] - b[x])
  BY <1>2 DEF Leaked, FdPaths
<1>8. a[x] <= b[x]
  BY <1>5, <1>6, <1>7 DEF AtLeast0
<1> QED BY <1>1, <1>8 DEF ListInv, Listed

\* The other way round: what is counted beyond the allowed paths is a path's
\* excess, and it is not /proc/self/fd when no other watcher samples.
LEMMA CountsLeak == TypeInv /\ ListInv => NoFalseAlarm
<1> SUFFICES ASSUME TypeInv, ListInv,
                    NEW w \in Watchers, pc[w] = "done", "fds" \in result[w].violations,
                    \A o \in Sampling \ {w} : pc[o] = "new"
             PROVE  \E x \in Paths \ AllowLeaked : openAfter[w][x] > openBefore[w][x]
  BY DEF NoFalseAlarm
<1>1. PICK a \in FdBags, b \in FdBags : a = fdsAfter[w] /\ b = fdsBefore[w]
  BY DEF TypeInv, LocalTypes
<1>2. PICK l \in [FdPaths -> Nat] : l = Leaked(a, b)
  BY BagsTyped, DeltaTyped
<1>3. Size(l) > CountOf(l, AllowLeaked)
  BY <1>1, <1>2, FdsVerdict DEF TypeInv, ListInv
<1>4. PICK x \in FdPaths \ AllowLeaked : l[x] > 0
  BY <1>3, BagsTyped, CountBeyond
<1>5. a[x] \in Nat /\ b[x] \in Nat /\ l[x] = AtLeast0(a[x] - b[x])
  BY <1>2, BagsTyped DEF Leaked
<1>6. a[x] > b[x]
  BY <1>4, <1>5 DEF AtLeast0
<1>7. x # Proc
  BY <1>1, <1>5, <1>6 DEF ListInv, Seen
<1> QED BY <1>1, <1>4, <1>6, <1>7 DEF ListInv, Listed, FdPaths

\* As long as no name lost a thread, the new names are part of the net
\* difference, so one that is not allowed is left of it.
LEMMA ThreadsCount == TypeInv /\ ListInv => ThreadsReported
<1> SUFFICES ASSUME TypeInv, ListInv,
                    NEW w \in Watchers, pc[w] = "done", "threads" \notin result[w].violations,
                    \A n \in Names : threadsAfter[w][n] >= threadsBefore[w][n],
                    NEW n \in Names \ AllowThreads, threadsBefore[w][n] = 0
             PROVE  threadsAfter[w][n] = 0
  BY DEF ThreadsReported
<1>1. PICK c \in NameBags, d \in NameBags : c = threadsAfter[w] /\ d = threadsBefore[w]
  BY DEF TypeInv, LocalTypes
<1>2. c \in [Names -> Nat] /\ d \in [Names -> Nat] /\ NewThreads(c, d) \in [Names -> Nat]
  BY BagsTyped DEF NewThreads
<1>3. PICK l \in [Names -> Nat] : l = NewThreads(c, d)
  BY <1>2
<1>4. PICK z \in [Names -> Nat] : z = [x \in Names |-> 0]
  OBVIOUS
<1>5. \A x \in Names : d[x] + l[x] <= c[x] + z[x]
  BY <1>1, <1>2, <1>3, <1>4 DEF NewThreads
<1>6. Size(d) + Size(l) <= Size(c) + Size(z)
  BY <1>2, <1>5, BagsTyped, SizesCompare
<1>7. Size(z) = 0
  BY <1>4, BagsTyped, SizeOfNothing
<1>8. PICK e \in Nat, f \in Nat : e = Size(c) /\ f = Size(d)
  BY <1>2, BagsTyped, CountWithin
<1>9. PICK m \in Nat, k \in Nat :
        m = Size(l) /\ k = CountOf(l, AllowThreads) /\ k + l[n] <= m
  BY BagsTyped, CountWithin
<1>10. f + m <= e
  BY <1>6, <1>7, <1>8, <1>9
<1>11. "threads" \notin Verdict(w).violations
  BY DEF ListInv
<1>12. ~(AtLeast0(Size(c) - Size(d) - CountOf(l, AllowThreads)) > 0)
  BY <1>1, <1>3, <1>11 DEF Verdict, Check, EffectiveThreadDelta
<1>13. ~(AtLeast0(e - f - k) > 0)
  BY <1>8, <1>9, <1>12
<1>14. e - f - k <= 0
  BY <1>13 DEF AtLeast0
<1>15. l[n] \in Nat
  OBVIOUS
<1>16. l[n] = 0
  BY <1>9, <1>10, <1>14, <1>15
<1> QED BY <1>1, <1>3, <1>16 DEF NewThreads

\* For any number of paths and of descriptors: a path that is open more often
\* than before is reported.
THEOREM LeaksReported == Spec => []LeakReported
BY TypeInit, TypeNext, ListInit, ListNext, LeaksCount, PTL DEF Spec

\* What is reported is such a path, when no other watcher samples.
THEOREM AlarmsTrue == Spec => []NoFalseAlarm
BY TypeInit, TypeNext, ListInit, ListNext, CountsLeak, PTL DEF Spec

\* A thread with a new name is reported, when no name lost one.
THEOREM NewThreadsReported == Spec => []ThreadsReported
BY TypeInit, TypeNext, ListInit, ListNext, ThreadsCount, PTL DEF Spec
=============================================================================
