--------------------------- MODULE ProfiledProofs ---------------------------
(***************************************************************************)
(* Proofs about "proctrace run" and a profiled program, for any number of  *)
(* calls, threads, tasks, entries and dumps.                               *)
(***************************************************************************)
EXTENDS Profiled, InductionProofs, SequenceTheorems

\* A step of the whole is a step of each part, or leaves it alone.
LEMMA Parts ==
  ASSUME [Next]_vars
  PROVE  /\ P!Next \/ UNCHANGED probeVars
         /\ L!Next \/ UNCHANGED logVars
         /\ C!Next \/ UNCHANGED pipeVars
         /\ D!Next \/ D!Signal \/ UNCHANGED dumpVars
         /\ M!Next \/ UNCHANGED measureVars
         /\ Run \/ Exit \/ Dump \/ Alloc \/ WriteAllocations \/ UNCHANGED <<runVars, childVars>>
         /\ Watch \/ UNCHANGED watchVars
<1>1. CASE Commanded
  <2>1. UNCHANGED <<probeVars, logVars, pipeVars, dumpVars, measureVars>>
    BY <1>1 DEF Commanded
  <2>2. Run \/ Exit \/ Dump \/ Alloc \/ WriteAllocations \/ Watch
    BY <1>1 DEF Commanded
  <2>3. Watch => UNCHANGED <<runVars, childVars>>
    BY DEF Watch, WatchRead, WatchAppend, WatchEnds
  <2>4. Run \/ Exit \/ Dump \/ Alloc \/ WriteAllocations => UNCHANGED watchVars
    BY DEF Run, MakeDir, Prepare, PrepareFails, Spawn, SpawnFails, PollRunning, PollEnded,
           Read, Finish, RunFails, Exit, Dump, Alloc, WriteAllocations
  <2> QED BY <2>1, <2>2, <2>3, <2>4
<1>2. CASE Program
  <2>1. UNCHANGED cmdVars
    BY <1>2 DEF Program
  <2>2. /\ P!Next \/ UNCHANGED probeVars
        /\ L!Next \/ UNCHANGED logVars
        /\ C!Next \/ UNCHANGED pipeVars
        /\ D!Next \/ D!Signal \/ UNCHANGED dumpVars
        /\ M!Next \/ UNCHANGED measureVars
    BY <1>2 DEF Program
  <2> QED BY <2>1, <2>2 DEF cmdVars
<1>3. CASE UNCHANGED vars
  BY <1>3 DEF vars, cmdVars
<1> QED BY <1>1, <1>2, <1>3 DEF Next

-----------------------------------------------------------------------------
(* Probes *)

\* Results are stored under the task and the thread of the caller they were
\* computed for, and a task's own one is the last stored for it.
ProbeInv ==
    /\ issued \in 0..MaxCalls
    /\ task_results \in [Tasks -> 0..issued]
    /\ thread_value \in [{ThreadOf[c] : c \in P!Callers} -> 0..issued]
    /\ own \in [P!Callers -> 0..issued]
    /\ by \in [1..MaxCalls -> P!Callers \cup {"nobody"}]
    /\ \A c \in Tasks : own[c] # P!Unset => task_results[c] = own[c]
    /\ \A c \in Tasks : task_results[c] # P!Unset => ThreadOf[by[task_results[c]]] = ThreadOf[c]
    /\ \A c \in P!Callers :
          LET n == thread_value[ThreadOf[c]] IN n # P!Unset => ThreadOf[by[n]] = ThreadOf[c]

\* Nothing has been computed.
LEMMA ProbeInit == P!Init => ProbeInv
<1> SUFFICES ASSUME P!Init  PROVE ProbeInv
  OBVIOUS
<1>1. /\ issued = 0 /\ issued \in 0..MaxCalls
      /\ task_results \in [Tasks -> 0..issued]
      /\ thread_value \in [{ThreadOf[c] : c \in P!Callers} -> 0..issued]
      /\ own \in [P!Callers -> 0..issued]
  BY ProfiledAssumption DEF P!Init, P!Unset
<1>2. by \in [1..MaxCalls -> P!Callers \cup {"nobody"}]
  BY DEF P!Init
<1>3. /\ \A c \in Tasks : own[c] = P!Unset /\ task_results[c] = P!Unset
      /\ \A c \in P!Callers : thread_value[ThreadOf[c]] = P!Unset
  BY DEF P!Init, P!Callers
<1> QED BY <1>1, <1>2, <1>3 DEF ProbeInv

\* A new result is stored under its own task and thread only.
LEMMA ProbeNext == ProbeInv /\ (P!Next \/ UNCHANGED probeVars) => ProbeInv'
<1> SUFFICES ASSUME ProbeInv, P!Next \/ UNCHANGED probeVars  PROVE ProbeInv'
  OBVIOUS
<1>1. ASSUME NEW c \in P!Callers, P!Return(c)  PROVE ProbeInv'
  <2>1. PICK n \in 1..MaxCalls : n = issued + 1
    BY <1>1, ProfiledAssumption DEF P!Return, ProbeInv
  <2>2. /\ issued' = n /\ own' = [own EXCEPT ![c] = n] /\ by' = [by EXCEPT ![n] = c]
        /\ task_results' = IF c \in Tasks THEN [task_results EXCEPT ![c] = n] ELSE task_results
        /\ thread_value' = [thread_value EXCEPT ![ThreadOf[c]] = n]
    BY <1>1, <2>1 DEF P!Return, P!Set
  <2>3. n \in 0..n /\ (\A m \in 0..issued : m \in 0..n /\ m # n) /\ n # P!Unset
    BY <2>1 DEF ProbeInv, P!Unset
  <2>4. /\ issued' \in 0..MaxCalls
        /\ task_results' \in [Tasks -> 0..issued']
        /\ thread_value' \in [{ThreadOf[o] : o \in P!Callers} -> 0..issued']
        /\ own' \in [P!Callers -> 0..issued']
        /\ by' \in [1..MaxCalls -> P!Callers \cup {"nobody"}]
    <3>1. issued' \in 0..MaxCalls
      BY <2>1, <2>2
    <3>3. own' \in [P!Callers -> 0..issued']
      BY <2>2, <2>3 DEF ProbeInv
    <3>4. thread_value' \in [{ThreadOf[o] : o \in P!Callers} -> 0..issued']
      BY <2>2, <2>3 DEF ProbeInv
    <3>5. task_results' \in [Tasks -> 0..issued']
      BY <2>2, <2>3 DEF ProbeInv
    <3>6. by' \in [1..MaxCalls -> P!Callers \cup {"nobody"}]
      BY <2>2 DEF ProbeInv
    <3> QED BY <3>1, <3>3, <3>4, <3>5, <3>6
  <2>5. by'[n] = c /\ \A m \in 0..issued : m # P!Unset => by'[m] = by[m]
    <3>1. \A m \in 0..issued : m # P!Unset => m \in 1..MaxCalls
      BY ProfiledAssumption DEF ProbeInv, P!Unset
    <3> QED BY <2>2, <2>3, <3>1 DEF ProbeInv
  <2>6. Tasks \subseteq P!Callers
    BY DEF P!Callers
  <2>7. \A o \in Tasks : own'[o] # P!Unset => task_results'[o] = own'[o]
    BY <2>2, <2>6 DEF ProbeInv
  <2>8. ASSUME NEW o \in Tasks, task_results'[o] # P!Unset
        PROVE  ThreadOf[by'[task_results'[o]]] = ThreadOf[o]
    <3>1. CASE o = c
      BY <2>2, <2>5, <3>1 DEF ProbeInv
    <3>2. CASE o # c
      BY <2>2, <2>5, <2>8, <3>2 DEF ProbeInv
    <3> QED BY <3>1, <3>2
  <2>9. ASSUME NEW o \in P!Callers, thread_value'[ThreadOf[o]] # P!Unset
        PROVE  ThreadOf[by'[thread_value'[ThreadOf[o]]]] = ThreadOf[o]
    <3>1. CASE ThreadOf[o] = ThreadOf[c]
      BY <2>2, <2>5, <3>1 DEF ProbeInv
    <3>2. CASE ThreadOf[o] # ThreadOf[c]
      <4>1. thread_value'[ThreadOf[o]] = thread_value[ThreadOf[o]] /\ thread_value[ThreadOf[o]] \in 0..issued
        BY <2>2, <3>2 DEF ProbeInv
      <4> QED BY <2>5, <2>9, <4>1 DEF ProbeInv
    <3> QED BY <3>1, <3>2
  <2> QED BY <2>4, <2>7, <2>8, <2>9 DEF ProbeInv
<1>2. ASSUME NEW c \in P!Callers, P!EndTask(c)  PROVE ProbeInv'
  <2>1. /\ c \in Tasks /\ UNCHANGED <<thread_value, issued, by>>
        /\ task_results' = [task_results EXCEPT ![c] = P!Unset] /\ own' = [own EXCEPT ![c] = P!Unset]
    BY <1>2 DEF P!EndTask
  <2>2. P!Unset \in 0..issued
    BY DEF ProbeInv, P!Unset
  <2>3. task_results' \in [Tasks -> 0..issued] /\ own' \in [P!Callers -> 0..issued]
    BY <2>1, <2>2 DEF ProbeInv
  <2>4. \A o \in Tasks : \/ task_results'[o] = task_results[o] /\ own'[o] = own[o]
                         \/ task_results'[o] = P!Unset /\ own'[o] = P!Unset
    BY <2>1 DEF ProbeInv, P!Callers
  <2> QED BY <2>1, <2>3, <2>4 DEF ProbeInv
<1>3. ASSUME NEW c \in P!Callers, P!Call(c) \/ P!Proceed(c) \/ P!Raise(c)  PROVE ProbeInv'
  BY <1>3 DEF P!Call, P!Proceed, P!Raise, ProbeInv
<1>4. CASE UNCHANGED probeVars
  BY <1>4 DEF probeVars, ProbeInv
<1> QED BY <1>1, <1>2, <1>3, <1>4 DEF P!Next

\* However many calls overlap in however many tasks and threads, a task
\* reads its own last result, and nobody reads another thread's.
THEOREM ProbeReadsOwn == Spec => []OwnResult
<1>1. Init /\ ProfiledInit => ProbeInv
  BY ProbeInit DEF ProfiledInit
<1>2. ProbeInv /\ [Next]_vars => ProbeInv'
  BY Parts, ProbeNext
<1>3. ProbeInv => OwnResult
  BY DEF ProbeInv, OwnResult, P!OwnResult, P!Get, P!Callers
<1>4. ProfiledInit => ProbeInv
  BY <1>1 DEF ProfiledInit
<1> QED BY <1>2, <1>3, <1>4, PTL DEF Spec

-----------------------------------------------------------------------------
(* Commands *)

\* The types of what cmd_run decides on, and of its child.
RunTypes ==
    /\ pc \in {"start", "prepare", "before", "spawn", "poll", "read", "after",
           "failed", "done", "raised"}
    /\ attribution \in BOOLEAN /\ temp \in BOOLEAN
    /\ child \in [state : {"none", "alive", "zombie", "gone"}, rss : Nat,
                  code : Codes \cup {None, Killed}, out : {"no", "partial", "whole"}]
    /\ child.state = "alive" => child.rss > 0

\* The directory is there from its creation to the end of the try block.
TempInv ==
    /\ pc \in {"start", "done", "raised"} => ~temp
    /\ pc \in {"prepare", "before", "spawn", "poll", "read", "after"} => temp = attribution

\* Where the command is, its child may be.
ChildInv ==
    /\ pc \in {"start", "prepare", "before", "spawn", "failed"} => child.state = "none"
    /\ pc \in {"poll", "read"} => child.state # "none"
    /\ ~autoreap /\ pc \in {"poll", "read"} => child.state # "gone"
    /\ pc = "after" => child.state = "gone"
    /\ pc = "done" => child.state \in {"none", "gone"}
    /\ child.state \in {"zombie", "gone"} => child.code # None

\* The peak is the highest memory read from the live child, the return code
\* is what the child was reaped with, and the report is made of both.
ReportInv ==
    /\ peak \in Nat /\ target \in Nat /\ target <= peak /\ seen \subseteq Nat \ {0}
    /\ IF seen = {} THEN peak = 0 ELSE peak \in seen /\ \A r \in seen : r <= peak
    /\ pc = "after" => autoreap \/ returncode = child.code
    /\ pc = "done" /\ returncode # 127 =>
         /\ child.state = "gone" /\ (autoreap \/ returncode = child.code)
         /\ report.delta = IF seen = {} THEN OwnDelta ELSE peak
         /\ report.allocations => child.out = "whole"

RunInv == RunTypes /\ TempInv /\ ChildInv /\ ReportInv

\* Nothing has been started.
LEMMA RunInit == Init => RunInv
<1> SUFFICES ASSUME Init  PROVE RunInv
  OBVIOUS
<1>1. pc = "start" /\ attribution \in BOOLEAN /\ temp = FALSE /\ child = NoChild
      /\ peak = 0 /\ target = 0 /\ seen = {}
  BY DEF Init
<1>2. RunTypes /\ child.state = "none"
  BY <1>1 DEF RunTypes, NoChild
<1>3. TempInv /\ ChildInv /\ ReportInv
  BY <1>1, <1>2 DEF TempInv, ChildInv, ReportInv
<1> QED BY <1>2, <1>3 DEF RunInv

\* The codes a child can have are not the one for none.
LEMMA NoCode == None \notin Codes /\ Killed # None
BY CommandsAssumption DEF None, Killed

\* Steps of the command that only go on.
LEMMA RunMoves ==
  ASSUME RunInv, UNCHANGED <<autoreap, attribution, temp, peak, target, seen, returncode, report, child>>,
         \/ RunStep("prepare", "before") \/ RunStep("before", "spawn")
         \/ RunStep("prepare", "failed") \/ RunStep("before", "failed")
         \/ RunStep("poll", "read") /\ child.state = "alive"
  PROVE  RunInv'
<1>1. RunTypes'
  BY DEF RunInv, RunTypes, RunStep
<1>2. TempInv'
  BY DEF RunInv, TempInv, ChildInv, RunStep
<1>3. ChildInv'
  BY DEF RunInv, ChildInv, RunStep
<1>4. ReportInv'
  BY DEF RunInv, ReportInv, RunStep
<1> QED BY <1>1, <1>2, <1>3, <1>4 DEF RunInv

\* Steps of the child: the command is where it may be alive or has raised.
LEMMA ChildMoves ==
  ASSUME RunInv, UNCHANGED runVars, child.state = "alive", RunTypes',
         \/ child'.state = "alive"
         \/ child'.state \in {"zombie", "gone"} /\ child'.code # None
              /\ (child'.state = "gone" => autoreap)
  PROVE  RunInv'
<1>1. pc \in {"poll", "read", "raised"}
  BY DEF RunInv, RunTypes, ChildInv
<1>2. UNCHANGED <<pc, autoreap, attribution, temp, peak, target, seen, returncode, report>>
  BY DEF runVars
<1>3. TempInv' /\ ChildInv'
  BY <1>1, <1>2 DEF RunInv, TempInv, ChildInv
<1>4. ReportInv'
  BY <1>1, <1>2 DEF RunInv, ReportInv
<1> QED BY <1>3, <1>4 DEF RunInv

\* Every step of the command and of its child keeps the invariant.
LEMMA RunNext ==
  ASSUME RunInv,
         Run \/ Exit \/ Dump \/ Alloc \/ WriteAllocations \/ UNCHANGED <<runVars, childVars>>
  PROVE  RunInv'
<1> USE DEF KeepRun, childVars
<1>1. CASE MakeDir
  <2>1. /\ pc = "start" /\ ~temp /\ child.state = "none" /\ attribution \in BOOLEAN
        /\ UNCHANGED <<autoreap, attribution, peak, target, seen, returncode, report, child>>
        /\ \/ attribution /\ pc' = "prepare" /\ temp' = TRUE
           \/ ~attribution /\ pc' = "before" /\ temp' = temp
    BY <1>1 DEF MakeDir, RunInv, RunTypes, TempInv, ChildInv
  <2>2. RunTypes' /\ TempInv' /\ ChildInv'
    BY <2>1 DEF RunInv, RunTypes, TempInv, ChildInv
  <2>3. ReportInv'
    BY <2>1 DEF RunInv, ReportInv
  <2> QED BY <2>2, <2>3 DEF RunInv
<1>2. CASE Prepare \/ PrepareFails \/ PollRunning
  BY <1>2, RunMoves DEF Prepare, PrepareFails, PollRunning
<1>3. CASE Spawn
  <2>1. PICK m \in Rss : child' = [NoChild EXCEPT !.state = "alive", !.rss = m]
    BY <1>3 DEF Spawn
  <2>2. /\ pc = "spawn" /\ pc' = "poll"
        /\ UNCHANGED <<autoreap, attribution, temp, peak, target, seen, returncode, report>>
    BY <1>3 DEF Spawn, RunStep
  <2>3. RunTypes' /\ child'.state = "alive"
    <3>1. m \in Nat \ {0}
      BY CommandsAssumption
    <3>2. child' = [state |-> "alive", rss |-> m, code |-> None, out |-> "no"]
      BY <2>1 DEF NoChild
    <3> QED BY <2>2, <3>1, <3>2 DEF RunInv, RunTypes
  <2>4. TempInv' /\ ChildInv'
    BY <2>2, <2>3 DEF RunInv, TempInv, ChildInv
  <2>5. ReportInv'
    BY <2>2 DEF RunInv, ReportInv
  <2> QED BY <2>3, <2>4, <2>5 DEF RunInv
<1>4. CASE SpawnFails
  <2>1. /\ pc = "spawn" /\ child.state = "none" /\ temp' = FALSE
        /\ UNCHANGED <<autoreap, attribution, peak, target, seen, report, child>>
        /\ (pc' = "done" /\ returncode' = 127) \/ pc' = "raised"
    BY <1>4 DEF SpawnFails, RunStep, Cleanup, RunInv, ChildInv
  <2>2. RunTypes' /\ TempInv' /\ ChildInv'
    BY <2>1 DEF RunInv, RunTypes, TempInv, ChildInv
  <2>3. ReportInv'
    BY <2>1 DEF RunInv, ReportInv
  <2> QED BY <2>2, <2>3 DEF RunInv
<1>5. CASE PollEnded
  <2>1. /\ pc = "poll" /\ pc' = "after" /\ child.state \in {"zombie", "gone"}
        /\ returncode' = IF child.state = "zombie" THEN child.code ELSE 0
        /\ child' = [child EXCEPT !.state = "gone"]
        /\ UNCHANGED <<autoreap, attribution, temp, peak, target, seen, report>>
    BY <1>5 DEF PollEnded, RunStep
  <2>2. RunTypes' /\ child'.state = "gone" /\ child'.code = child.code
    BY <2>1 DEF RunInv, RunTypes
  <2>3. TempInv' /\ ChildInv'
    BY <2>1, <2>2 DEF RunInv, TempInv, ChildInv
  <2>4. autoreap \/ returncode' = child'.code
    BY <2>1, <2>2 DEF RunInv, ChildInv
  <2>5. ReportInv'
    BY <2>1, <2>4 DEF RunInv, ReportInv
  <2> QED BY <2>2, <2>3, <2>5 DEF RunInv
<1>6. CASE Read
  <2>1. /\ pc = "read" /\ pc' = "poll"
        /\ UNCHANGED <<autoreap, attribution, temp, returncode, report, child>>
    BY <1>6 DEF Read, RunStep
  <2>2. RunTypes' /\ TempInv' /\ ChildInv'
    BY <2>1 DEF RunInv, RunTypes, TempInv, ChildInv
  <2>3. /\ peak \in Nat /\ target \in Nat /\ target <= peak /\ seen \subseteq Nat \ {0}
        /\ IF seen = {} THEN peak = 0 ELSE peak \in seen /\ \A r \in seen : r <= peak
    BY DEF RunInv, ReportInv
  <2>4. /\ peak' \in Nat /\ target' \in Nat /\ target' <= peak' /\ seen' \subseteq Nat \ {0}
        /\ IF seen' = {} THEN peak' = 0 ELSE peak' \in seen' /\ \A r \in seen' : r <= peak'
    <3>1. CASE child.state = "alive"
      <4>1. PICK m \in Nat \ {0} : m = child.rss
        BY <3>1 DEF RunInv, RunTypes
      <4>2. target' = m /\ seen' = seen \cup {m} /\ peak' = IF m > peak THEN m ELSE peak
        BY <1>6, <3>1, <4>1 DEF Read, ReadMem, NewPeak
      <4>3. peak' \in Nat /\ target' \in Nat /\ target' <= peak' /\ seen' \subseteq Nat \ {0} /\ seen' # {}
        BY <2>3, <4>2
      <4>4. peak' \in seen'
        <5>1. CASE m > peak
          BY <4>2, <5>1
        <5>2. CASE ~(m > peak)
          BY <2>3, <4>2, <5>2
        <5> QED BY <5>1, <5>2
      <4>5. \A r \in seen' : r <= peak'
        <5>1. \A r \in seen : r \in Nat /\ r <= peak
          BY <2>3
        <5> QED BY <2>3, <4>2, <5>1
      <4> QED BY <4>3, <4>4, <4>5
    <3>2. CASE child.state # "alive"
      <4>1. seen' = seen /\ peak' = peak /\ target' \in {0, target}
        BY <1>6, <2>3, <3>2 DEF Read, ReadMem, NewPeak
      <4> QED BY <2>3, <4>1
    <3> QED BY <3>1, <3>2
  <2>5. ReportInv'
    BY <2>1, <2>4 DEF ReportInv
  <2> QED BY <2>2, <2>5 DEF RunInv
<1>7. CASE Finish
  <2>1. /\ pc = "after" /\ pc' = "done" /\ temp' = FALSE
        /\ report' = [delta |-> RssDelta, allocations |-> attribution /\ child.out = "whole"]
        /\ UNCHANGED <<autoreap, attribution, peak, target, seen, returncode, child>>
    BY <1>7 DEF Finish, RunStep, Cleanup
  <2>2. RunTypes' /\ TempInv' /\ ChildInv'
    BY <2>1 DEF RunInv, RunTypes, TempInv, ChildInv
  <2>3. RssDelta = IF seen = {} THEN OwnDelta ELSE peak
    BY DEF RssDelta, RunInv, ReportInv
  <2>4. report'.delta = RssDelta /\ (report'.allocations => child.out = "whole")
    BY <2>1
  <2>5. ReportInv'
    BY <2>1, <2>3, <2>4 DEF RunInv, ReportInv, ChildInv
  <2> QED BY <2>2, <2>5 DEF RunInv
<1>8. CASE RunFails
  <2>1. /\ pc' = "raised" /\ temp' = FALSE
        /\ UNCHANGED <<autoreap, attribution, peak, target, seen, returncode, report, child>>
    BY <1>8 DEF RunFails, RunStep, Cleanup
  <2>2. RunTypes' /\ TempInv' /\ ChildInv'
    BY <2>1 DEF RunInv, RunTypes, TempInv, ChildInv
  <2>3. ReportInv'
    BY <2>1 DEF RunInv, ReportInv
  <2> QED BY <2>2, <2>3 DEF RunInv
<1>9. CASE Exit \/ Dump
  <2>1. child.state = "alive" /\ UNCHANGED runVars /\ \E c \in Codes \cup {Killed} : Ended(c)
    BY <1>9 DEF Exit, Dump
  <2>2. PICK c \in Codes \cup {Killed} : Ended(c)
    BY <2>1
  <2>3. /\ child' = [child EXCEPT !.state = IF autoreap THEN "gone" ELSE "zombie", !.code = c]
        /\ UNCHANGED <<pc, attribution, temp>>
    BY <2>1, <2>2 DEF Ended, runVars
  <2>4. RunTypes'
    BY <2>3 DEF RunInv, RunTypes
  <2>5. child'.state = (IF autoreap THEN "gone" ELSE "zombie") /\ child'.code = c /\ c # None
    BY <2>3, NoCode DEF RunInv, RunTypes
  <2> QED BY <2>1, <2>4, <2>5, ChildMoves
<1>10. CASE Alloc
  <2>1. child.state = "alive" /\ UNCHANGED runVars /\ \E m \in Rss : child' = [child EXCEPT !.rss = m]
    BY <1>10 DEF Alloc
  <2>2. RunTypes' /\ child'.state = "alive"
    BY <2>1, CommandsAssumption DEF RunInv, RunTypes, runVars
  <2> QED BY <2>1, <2>2, ChildMoves
<1>11. CASE WriteAllocations
  <2>1. /\ child.state = "alive" /\ UNCHANGED runVars
        /\ \E o \in {"partial", "whole"} : child' = [child EXCEPT !.out = o]
    BY <1>11 DEF WriteAllocations
  <2>2. RunTypes' /\ child'.state = "alive"
    BY <2>1 DEF RunInv, RunTypes, runVars
  <2> QED BY <2>1, <2>2, ChildMoves
<1>12. CASE UNCHANGED <<runVars, childVars>>
  BY <1>12 DEF runVars, RunInv, RunTypes, TempInv, ChildInv, ReportInv
<1> QED BY <1>1, <1>2, <1>3, <1>4, <1>5, <1>6, <1>7, <1>8, <1>9, <1>10, <1>11, <1>12 DEF Run

\* The invariant holds of every run.
LEMMA RunInvariant == Spec => []RunInv
<1>1. ProfiledInit => RunInv
  BY RunInit DEF ProfiledInit
<1>2. RunInv /\ [Next]_vars => RunInv'
  BY Parts, RunNext
<1> QED BY <1>1, <1>2, PTL DEF Spec

\* "proctrace run" leaves no directory behind once it has a child, however
\* it ends, and the child never writes into one that is gone.
THEOREM RunRemovesTemp == Spec => []TempRemoved
<1>1. RunInv => TempRemoved
  BY DEF RunInv, RunTypes, TempInv, ChildInv, TempRemoved
<1> QED BY <1>1, RunInvariant, PTL

\* The highest member of a set is the one no other exceeds.
LEMMA MaxIs ==
  ASSUME NEW S, S \subseteq Nat, NEW m \in S, \A r \in S : r <= m
  PROVE  Max(S) = m
<1>1. \A r \in S : m >= r
  OBVIOUS
<1>2. \A n \in S : (\A r \in S : n >= r) => n = m
  OBVIOUS
<1> QED BY <1>1, <1>2 DEF Max

\* A run that ends by itself reports the highest memory it saw the child
\* have, the child's return code, and only a whole allocation report.
THEOREM RunReports == Spec => []ReportIsChilds
<1>1. RunInv => ReportIsChilds
  <2> SUFFICES ASSUME RunInv, pc = "done", returncode # 127
               PROVE  /\ report.delta = IF seen = {} THEN OwnDelta ELSE Max(seen)
                      /\ autoreap \/ returncode = child.code
                      /\ report.allocations => child.out = "whole" /\ child.code # None
    BY DEF ReportIsChilds
  <2>1. /\ child.state = "gone" /\ (autoreap \/ returncode = child.code) /\ child.code # None
        /\ report.delta = IF seen = {} THEN OwnDelta ELSE peak
        /\ report.allocations => child.out = "whole"
    BY DEF RunInv, ReportInv, ChildInv
  <2>2. seen # {} => Max(seen) = peak
    BY MaxIs DEF RunInv, ReportInv
  <2> QED BY <2>1, <2>2
<1> QED BY <1>1, RunInvariant, PTL

-----------------------------------------------------------------------------
(* The types of what the commands keep: more than the invariant of the run  *)
(* needs, and with it.                                                     *)

Memory == Rss \cup {0}

CommandTypes ==
    /\ autoreap \in BOOLEAN
    /\ peak \in Memory /\ target \in Memory /\ seen \subseteq Rss
    /\ returncode \in Codes \cup {None, Killed, 0, 127}
    /\ report \in [delta : Rss \cup {None, OwnDelta}, allocations : BOOLEAN]
    /\ child.rss \in Memory /\ (child.state = "alive" => child.rss \in Rss)
    /\ allocs \in 0..MaxAllocs

\* Nothing has been started.
LEMMA CommandTypesInit == Init => CommandTypes
<1> SUFFICES ASSUME Init  PROVE CommandTypes
  OBVIOUS
<1>1. /\ autoreap \in BOOLEAN /\ peak = 0 /\ target = 0 /\ seen = {} /\ returncode = None
      /\ report = NoReport /\ child = NoChild /\ allocs = 0
  BY DEF Init
<1>2. report \in [delta : Rss \cup {None, OwnDelta}, allocations : BOOLEAN]
  BY <1>1 DEF NoReport
<1>3. child.rss = 0 /\ child.state = "none"
  BY <1>1 DEF NoChild
<1> QED BY <1>1, <1>2, <1>3, CommandsAssumption DEF CommandTypes, Memory

\* Every step of the command and of its child keeps them.
LEMMA CommandTypesNext ==
  ASSUME RunInv, CommandTypes,
         Run \/ Exit \/ Dump \/ Alloc \/ WriteAllocations \/ UNCHANGED <<runVars, childVars>>
  PROVE  CommandTypes'
<1> USE DEF KeepRun, childVars, RunStep
<1>1. CASE MakeDir \/ Prepare \/ PrepareFails \/ PollRunning \/ RunFails
  BY <1>1 DEF MakeDir, Prepare, PrepareFails, PollRunning, RunFails, CommandTypes
<1>2. CASE Spawn
  <2>1. PICK m \in Rss : child' = [NoChild EXCEPT !.state = "alive", !.rss = m]
    BY <1>2 DEF Spawn
  <2>2. child'.rss = m
    BY <2>1 DEF NoChild
  <2> QED BY <1>2, <2>2 DEF Spawn, CommandTypes, Memory
<1>3. CASE SpawnFails
  BY <1>3 DEF SpawnFails, CommandTypes
<1>4. CASE PollEnded
  <2>1. returncode' = child.code \/ returncode' = 0
    BY <1>4 DEF PollEnded
  <2>2. child.code \in Codes \cup {None, Killed} /\ child'.rss = child.rss /\ child'.state = "gone"
    BY <1>4 DEF PollEnded, RunInv, RunTypes
  <2> QED BY <1>4, <2>1, <2>2 DEF PollEnded, CommandTypes
<1>5. CASE Read
  <2>1. ReadMem \in Memory /\ (child.state = "alive" => ReadMem \in Rss)
    BY DEF ReadMem, CommandTypes, Memory
  <2>2. peak' \in Memory /\ target' \in Memory
    BY <1>5, <2>1 DEF Read, NewPeak, CommandTypes
  <2>3. seen' \subseteq Rss
    BY <1>5, <2>1 DEF Read, CommandTypes
  <2> QED BY <1>5, <2>2, <2>3 DEF Read, CommandTypes
<1>6. CASE Finish
  <2>1. RssDelta \in Rss \cup {OwnDelta}
    BY CommandsAssumption DEF RssDelta, CommandTypes, Memory
  <2>2. report' = [delta |-> RssDelta, allocations |-> attribution /\ child.out = "whole"]
    BY <1>6 DEF Finish
  <2>3. (attribution /\ child.out = "whole") \in BOOLEAN
    BY Zenon DEF RunInv, RunTypes
  <2>4. report' \in [delta : Rss \cup {None, OwnDelta}, allocations : BOOLEAN]
    BY <2>1, <2>2, <2>3
  <2> QED BY <1>6, <2>4 DEF Finish, CommandTypes
<1>7. CASE Alloc
  <2>1. PICK m \in Rss : child' = [child EXCEPT !.rss = m]
    BY <1>7 DEF Alloc
  <2>2. child'.rss = m
    BY <2>1 DEF RunInv, RunTypes
  <2>3. allocs' \in 0..MaxAllocs
    BY <1>7, CommandsAssumption DEF Alloc, CommandTypes
  <2> QED BY <1>7, <2>2, <2>3 DEF Alloc, CommandTypes, Memory, runVars
<1>8. CASE Exit \/ Dump
  <2>1. child'.rss = child.rss /\ child'.state \in {"gone", "zombie"} /\ UNCHANGED <<allocs, runVars>>
    BY <1>8 DEF Exit, Dump, Ended, RunInv, RunTypes
  <2> QED BY <2>1 DEF CommandTypes, runVars
<1>9. CASE WriteAllocations
  <2>1. child'.rss = child.rss /\ child'.state = child.state /\ UNCHANGED <<allocs, runVars>>
    BY <1>9 DEF WriteAllocations, RunInv, RunTypes
  <2> QED BY <2>1 DEF CommandTypes, runVars
<1>10. CASE UNCHANGED <<runVars, childVars>>
  BY <1>10 DEF CommandTypes, runVars
<1> QED BY <1>1, <1>2, <1>3, <1>4, <1>5, <1>6, <1>7, <1>8, <1>9, <1>10 DEF Run

-----------------------------------------------------------------------------
(* "proctrace watch" *)

\* The highest reading of a timeline is one of them, and the index of the
\* peak is the first at which it was read.
LEMMA PeakFound ==
  ASSUME NEW tl, tl.rss \in Seq(Nat), tl.rss # <<>>
  PROVE  /\ PeakIndex(tl) \in 1..Len(tl.rss)
         /\ tl.rss[PeakIndex(tl)] = MaxRss(tl)
         /\ \A i \in 1..Len(tl.rss) : tl.rss[i] <= MaxRss(tl)
<1>1. PICK s \in Seq(Nat) : s = tl.rss
  OBVIOUS
<1>2. PICK n \in Nat : n = Len(s) /\ DOMAIN s = 1..n /\ n > 0 /\ \A i \in 1..n : s[i] \in Nat
  BY <1>1, EmptySeq, LenProperties
<1>3. IsFiniteSet(1..n) /\ 1..n # {} /\ \A i \in 1..n : s[i] \in Int
  <2>1. n \in Int /\ 1 \in Int /\ 1 \in 1..n
    BY <1>2
  <2>2. IsFiniteSet(1..n)
    BY <2>1, FS_Interval
  <2> QED BY <1>2, <2>1, <2>2
<1>4. PICK m \in 1..n : \A i \in 1..n : s[i] <= s[m]
  BY <1>3, Greatest
<1>5. MaxRss(tl) = s[m]
  <2> DEFINE S == {s[i] : i \in 1..n} \cup {0}
  <2>1. S \subseteq Nat /\ s[m] \in S /\ \A r \in S : r <= s[m]
    BY <1>2, <1>4
  <2>2. Max(S) = s[m]
    <3> HIDE DEF S
    <3> QED BY <2>1, MaxIs
  <2> QED BY <1>1, <1>2, <2>2 DEF MaxRss
<1>6. PICK k \in 1..n : s[k] = s[m] /\ \A j \in 1..(k - 1) : s[j] < s[k]
  <2> DEFINE K == {i \in 1..n : s[i] = s[m]}
  <2>1. K \subseteq Nat /\ K # {}
    OBVIOUS
  <2>2. PICK k \in K : \A i \in K : k <= i
    <3> HIDE DEF K
    <3> QED BY <2>1, LeastNat
  <2>3. ASSUME NEW j \in 1..(k - 1)  PROVE s[j] < s[k]
    <3>1. j \in 1..n /\ j \notin K
      BY <1>2, <2>2
    <3> QED BY <1>2, <1>4, <2>2, <3>1
  <2> QED BY <2>2, <2>3
<1>7. \E i \in DOMAIN tl.rss :
        tl.rss[i] = MaxRss(tl) /\ \A j \in 1..(i - 1) : tl.rss[j] < tl.rss[i]
  BY <1>1, <1>2, <1>5, <1>6
<1>8. PeakIndex(tl) \in DOMAIN tl.rss /\ tl.rss[PeakIndex(tl)] = MaxRss(tl)
  BY <1>7 DEF PeakIndex
<1> QED BY <1>1, <1>2, <1>4, <1>5, <1>8

\* The four lists, by where the turn of the loop is: those that have been
\* appended to in this turn hold all readings, the others all but the last.
Readings == [t : Nat, rss : Nat]
Columns == [t : Seq(Nat), rss : Seq(Nat), vms : Nat, fds : Nat]

Lengths ==
    LET n == Len(readings) IN
    /\ wpc \in {"loop", "time"} => Len(cols.t) = cols.fds /\ Len(cols.rss) = cols.fds /\ cols.vms = cols.fds
    /\ wpc = "loop" => cols.fds = n
    /\ wpc \in {"time", "rss", "vms", "fds"} => n = cols.fds + 1
    /\ wpc \in {"rss", "vms", "fds"} => Len(cols.t) = n
    /\ wpc = "rss" => Len(cols.rss) = cols.fds /\ cols.vms = cols.fds
    /\ wpc \in {"vms", "fds"} => Len(cols.rss) = n
    /\ wpc = "vms" => cols.vms = cols.fds
    /\ wpc = "fds" => cols.vms = n
    /\ /\ Len(cols.t) <= n /\ Len(cols.t) >= Len(cols.rss)
       /\ Len(cols.rss) >= cols.vms /\ cols.vms >= cols.fds

\* The lists hold what was read, and the summary is made from them.
WatchInv ==
    /\ wpc \in {"loop", "time", "rss", "vms", "fds", "ended"}
    /\ readings \in Seq(Readings) /\ cols \in Columns
    /\ Lengths
    /\ \A i \in 1..Len(cols.t) : cols.t[i] = readings[i].t
    /\ \A i \in 1..Len(cols.rss) : cols.rss[i] = readings[i].rss
    /\ wpc = "ended" => summary.peak = MaxRss(cols) /\ summary.at = PeakAt(cols)

\* Nothing has been read.
LEMMA WatchInit == Init => WatchInv
<1> SUFFICES ASSUME Init  PROVE WatchInv
  OBVIOUS
<1>1. wpc = "loop" /\ cols = [t |-> <<>>, rss |-> <<>>, vms |-> 0, fds |-> 0] /\ readings = <<>>
  BY DEF Init
<1>2. <<>> \in Seq(Nat) /\ <<>> \in Seq(Readings) /\ Len(<<>>) = 0
  OBVIOUS
<1>3. cols \in Columns /\ cols.t = <<>> /\ cols.rss = <<>> /\ cols.vms = 0 /\ cols.fds = 0
  BY <1>1, <1>2 DEF Columns
<1> QED BY <1>1, <1>2, <1>3 DEF WatchInv, Lengths

\* Every step of the watch keeps the lists in step.
LEMMA WatchNext ==
  ASSUME RunInv, WatchInv, Watch \/ UNCHANGED watchVars
  PROVE  WatchInv'
<1>0. PICK ts \in Seq(Nat), ms \in Seq(Nat), rs \in Seq(Readings), v \in Nat, f \in Nat :
        /\ readings = rs /\ cols = [t |-> ts, rss |-> ms, vms |-> v, fds |-> f]
        /\ Len(ts) \in Nat /\ Len(ms) \in Nat /\ Len(rs) \in Nat
  <2>1. /\ cols.t \in Seq(Nat) /\ cols.rss \in Seq(Nat) /\ cols.vms \in Nat /\ cols.fds \in Nat
        /\ cols = [t |-> cols.t, rss |-> cols.rss, vms |-> cols.vms, fds |-> cols.fds]
        /\ readings \in Seq(Readings)
    BY DEF WatchInv, Columns
  <2>2. Len(cols.t) \in Nat /\ Len(cols.rss) \in Nat /\ Len(readings) \in Nat
    BY <2>1, LenProperties
  <2> QED BY <2>1, <2>2
<1>1. /\ \A i \in 1..Len(ts) : ts[i] = rs[i].t
      /\ \A i \in 1..Len(ms) : ms[i] = rs[i].rss
      /\ Len(ts) <= Len(rs) /\ Len(ts) >= Len(ms) /\ Len(ms) >= v /\ v >= f
  BY <1>0 DEF WatchInv, Lengths
<1>2. CASE WatchRead
  <2>1. PICK o \in Readings : readings' = Append(rs, o)
    <3>1. Len(readings) + 1 \in Nat /\ ReadMem \in Nat
      BY <1>0 DEF ReadMem, RunInv, RunTypes
    <3> QED BY <1>0, <1>2, <3>1 DEF WatchRead, Readings
  <2>2. /\ readings' \in Seq(Readings) /\ Len(readings') = Len(rs) + 1
        /\ \A i \in 1..Len(rs) : readings'[i] = rs[i]
    BY <2>1, AppendProperties
  <2>3. wpc = "loop" /\ wpc' = "time" /\ cols' = cols
    BY <1>2 DEF WatchRead
  <2>4. Lengths'
    BY <1>0, <2>2, <2>3 DEF WatchInv, Lengths
  <2>5. /\ \A i \in 1..Len(ts) : ts[i] = readings'[i].t
        /\ \A i \in 1..Len(ms) : ms[i] = readings'[i].rss
    <3>1. ASSUME NEW i \in 1..Len(ts)  PROVE ts[i] = readings'[i].t
      <4>1. i \in 1..Len(rs)
        BY <1>0, <1>1
      <4> QED BY <1>1, <2>2, <4>1
    <3>2. ASSUME NEW i \in 1..Len(ms)  PROVE ms[i] = readings'[i].rss
      <4>1. i \in 1..Len(rs)
        BY <1>0, <1>1
      <4> QED BY <1>1, <2>2, <4>1
    <3> QED BY <3>1, <3>2
  <2> QED BY <1>0, <2>2, <2>3, <2>4, <2>5 DEF WatchInv
<1>3. CASE WatchAppend
  <2>1. UNCHANGED <<summary, readings>>
    BY <1>3 DEF WatchAppend
  <2>2. CASE WatchStep("time", "rss") /\ AddTime
    <3>1. rs # <<>> /\ Len(rs) = Len(ts) + 1 /\ rs[Len(rs)] \in Readings
      <4>1. Len(rs) = Len(ts) + 1
        BY <1>0, <2>2 DEF WatchInv, Lengths, WatchStep
      <4> QED BY <1>0, <4>1, EmptySeq, ElementOfSeq
    <3>2. PICK a \in Nat : a = rs[Len(rs)].t
      BY <3>1 DEF Readings
    <3>3. PICK us \in Seq(Nat) : /\ us = Append(ts, a) /\ Len(us) = Len(ts) + 1
                                 /\ us[Len(ts) + 1] = a /\ \A i \in 1..Len(ts) : us[i] = ts[i]
      <4>1. /\ Append(ts, a) \in Seq(Nat) /\ Len(Append(ts, a)) = Len(ts) + 1
            /\ Append(ts, a)[Len(ts) + 1] = a
            /\ \A i \in 1..Len(ts) : Append(ts, a)[i] = ts[i]
        BY AppendProperties
      <4> QED BY <4>1
    <3>4. cols' = [t |-> us, rss |-> ms, vms |-> v, fds |-> f]
      BY <1>0, <2>2, <3>2, <3>3 DEF AddTime, LastRead
    <3>5. \A i \in 1..Len(us) : us[i] = rs[i].t
      <4>1. \A i \in 1..Len(us) : i \in 1..Len(ts) \/ i = Len(ts) + 1
        BY <1>0, <3>3
      <4> QED BY <1>1, <3>1, <3>2, <3>3, <4>1
    <3>6. Lengths' /\ wpc' = "rss"
      BY <1>0, <2>1, <2>2, <3>1, <3>3, <3>4 DEF WatchInv, Lengths, WatchStep
    <3>7. cols' \in Columns
      BY <3>4 DEF Columns
    <3> QED BY <1>0, <1>1, <2>1, <3>4, <3>5, <3>6, <3>7 DEF WatchInv
  <2>3. CASE WatchStep("rss", "vms") /\ AddRss
    <3>1. rs # <<>> /\ Len(rs) = Len(ms) + 1 /\ rs[Len(rs)] \in Readings
      <4>1. Len(rs) = Len(ms) + 1
        BY <1>0, <2>3 DEF WatchInv, Lengths, WatchStep
      <4> QED BY <1>0, <4>1, EmptySeq, ElementOfSeq
    <3>2. PICK a \in Nat : a = rs[Len(rs)].rss
      BY <3>1 DEF Readings
    <3>3. PICK us \in Seq(Nat) : /\ us = Append(ms, a) /\ Len(us) = Len(ms) + 1
                                 /\ us[Len(ms) + 1] = a /\ \A i \in 1..Len(ms) : us[i] = ms[i]
      <4>1. /\ Append(ms, a) \in Seq(Nat) /\ Len(Append(ms, a)) = Len(ms) + 1
            /\ Append(ms, a)[Len(ms) + 1] = a
            /\ \A i \in 1..Len(ms) : Append(ms, a)[i] = ms[i]
        BY AppendProperties
      <4> QED BY <4>1
    <3>4. cols' = [t |-> ts, rss |-> us, vms |-> v, fds |-> f]
      BY <1>0, <2>3, <3>2, <3>3 DEF AddRss, LastRead
    <3>5. \A i \in 1..Len(us) : us[i] = rs[i].rss
      <4>1. \A i \in 1..Len(us) : i \in 1..Len(ms) \/ i = Len(ms) + 1
        BY <1>0, <3>3
      <4> QED BY <1>1, <3>1, <3>2, <3>3, <4>1
    <3>6. Lengths' /\ wpc' = "vms"
      BY <1>0, <2>1, <2>3, <3>1, <3>3, <3>4 DEF WatchInv, Lengths, WatchStep
    <3>7. cols' \in Columns
      BY <3>4 DEF Columns
    <3> QED BY <1>0, <1>1, <2>1, <3>4, <3>5, <3>6, <3>7 DEF WatchInv
  <2>4. CASE \/ WatchStep("vms", "fds") /\ cols' = [cols EXCEPT !.vms = @ + 1]
             \/ WatchStep("fds", "loop") /\ cols' = [cols EXCEPT !.fds = @ + 1]
    <3>1. \/ /\ wpc = "vms" /\ wpc' = "fds"
             /\ cols' = [t |-> ts, rss |-> ms, vms |-> v + 1, fds |-> f]
          \/ /\ wpc = "fds" /\ wpc' = "loop"
             /\ cols' = [t |-> ts, rss |-> ms, vms |-> v, fds |-> f + 1]
      BY <1>0, <2>4 DEF WatchStep
    <3>2. cols' \in Columns /\ cols'.t = ts /\ cols'.rss = ms
      BY <3>1 DEF Columns
    <3>3. Lengths' /\ wpc' \in {"fds", "loop"}
      BY <1>0, <2>1, <3>1 DEF WatchInv, Lengths
    <3> QED BY <1>0, <1>1, <2>1, <3>2, <3>3 DEF WatchInv
  <2> QED BY <1>3, <2>2, <2>3, <2>4 DEF WatchAppend
<1>4. CASE WatchEnds
  <2>1. /\ wpc' = "ended" /\ UNCHANGED <<cols, readings>>
        /\ summary'.peak = MaxRss(cols) /\ summary'.at = PeakAt(cols)
    BY <1>4 DEF WatchEnds
  <2>2. Lengths'
    BY <1>0, <1>1, <2>1 DEF Lengths
  <2>3. MaxRss(cols)' = MaxRss(cols) /\ PeakAt(cols)' = PeakAt(cols)
    BY <2>1
  <2> QED BY <2>1, <2>2, <2>3 DEF WatchInv
<1>5. CASE UNCHANGED watchVars
  <2>1. UNCHANGED <<wpc, cols, summary, readings>>
    BY <1>5 DEF watchVars
  <2>2. MaxRss(cols)' = MaxRss(cols) /\ PeakAt(cols)' = PeakAt(cols)
    BY <2>1
  <2> QED BY <2>1, <2>2 DEF WatchInv, Lengths
<1> QED BY <1>2, <1>3, <1>4, <1>5 DEF Watch

\* Types and lists hold of every behaviour, with the invariant of the run.
LEMMA WatchInvariant == Spec => [](RunInv /\ CommandTypes /\ WatchInv)
<1>1. ProfiledInit => RunInv /\ CommandTypes /\ WatchInv
  BY RunInit, CommandTypesInit, WatchInit DEF ProfiledInit
<1>2. RunInv /\ CommandTypes /\ WatchInv /\ [Next]_vars => (RunInv /\ CommandTypes /\ WatchInv)'
  BY Parts, RunNext, CommandTypesNext, WatchNext
<1> QED BY <1>1, <1>2, PTL DEF Spec

\* The variables of the commands keep their types.
THEOREM CommandsType == Spec => []TypeOK
<1>1. RunInv /\ CommandTypes /\ WatchInv => TypeOK
  <2> SUFFICES ASSUME RunInv, CommandTypes, WatchInv  PROVE TypeOK
    OBVIOUS
  <2>1. child \in [state : {"none", "alive", "zombie", "gone"}, rss : Rss \cup {0},
                   code : Codes \cup {None, Killed}, out : {"no", "partial", "whole"}]
    BY DEF RunInv, RunTypes, CommandTypes, Memory
  <2> QED BY <2>1 DEF RunInv, RunTypes, ReportInv, CommandTypes, Memory, WatchInv, TypeOK
<1> QED BY <1>1, WatchInvariant, PTL

\* Wherever a watch of any length is interrupted, its summary is the highest
\* memory in the list, at the time it was read.
THEOREM WatchSummary == Spec => []SummaryRight
<1>1. WatchInv => SummaryRight
  <2> SUFFICES ASSUME WatchInv  PROVE SummaryRight
    OBVIOUS
  <2>1. Len(cols.t) >= Len(cols.rss) /\ Len(cols.rss) >= cols.vms /\ cols.vms >= cols.fds
    BY DEF WatchInv, Lengths
  <2>2. ASSUME wpc = "ended", cols.rss # <<>>
        PROVE  \E i \in 1..Len(cols.rss) :
                  /\ summary.peak = readings[i].rss /\ summary.at = readings[i].t
                  /\ \A j \in 1..Len(cols.rss) : readings[j].rss <= readings[i].rss
    <3>1. cols.rss \in Seq(Nat) /\ cols.t \in Seq(Nat)
      BY DEF WatchInv, Columns
    <3>2. Len(cols.rss) \in Nat /\ Len(cols.t) \in Nat
      BY <3>1, LenProperties
    <3>3. PICK i \in 1..Len(cols.rss) :
            /\ i = PeakIndex(cols) /\ cols.rss[i] = MaxRss(cols)
            /\ \A j \in 1..Len(cols.rss) : cols.rss[j] <= cols.rss[i]
      BY <2>2, <3>1, PeakFound
    <3>4. i \in 1..Len(cols.t) /\ ~(i > Len(cols.t))
      BY <2>1, <3>2, <3>3
    <3>5. PeakAt(cols) = cols.t[i]
      BY <2>2, <3>3, <3>4 DEF PeakAt
    <3> QED BY <2>2, <3>3, <3>4, <3>5 DEF WatchInv
  <2> QED BY <2>1, <2>2 DEF SummaryRight
<1> QED BY <1>1, WatchInvariant, PTL

-----------------------------------------------------------------------------
(* The traced pipe *)

Chunks == [w : Nat, last : BOOLEAN]

PipeTypes ==
    /\ writer \in [at : {"idle", "write", "append"}, t : Nat, left : Int]
    /\ reader \in [at : {"idle", "stamp", "check"}, t : Nat, own : Nat]
    /\ content \in Seq(Chunks) /\ write_times \in Seq(Nat) /\ clock \in Nat
    /\ partial \in BOOLEAN /\ several \in BOOLEAN /\ missed \in BOOLEAN
    /\ dropped \in BOOLEAN /\ raised \in BOOLEAN /\ pairs \subseteq [own : Nat, used : Nat]

Members(s) == {s[i] : i \in 1..Len(s)}
Ascending(s) == \A i, j \in 1..Len(s) : i < j => s[i] < s[j]

Times == Members(write_times)
Writes == {content[i].w : i \in 1..Len(content)}

\* What is in the pipe and in the deque is there in the order of the writes.
OrderInv ==
    /\ Len(content) <= Capacity
    /\ \A i, j \in 1..Len(content) : i < j => content[i].w <= content[j].w
    /\ \A i, j \in 1..Len(content) : i < j /\ content[i].last => content[i].w < content[j].w
    /\ Ascending(write_times)
    /\ \A w \in Writes \cup Times : w <= clock
    /\ writer.t <= clock
    /\ writer.at # "idle" => /\ \A w \in Writes : w <= writer.t
                             /\ \A t \in Times : t < writer.t
    /\ writer.at = "write" => \A i \in 1..Len(content) : content[i].last => content[i].w < writer.t

\* After a read of whole writes, what is left in the pipe is later.
ReaderInv ==
    ~partial /\ reader.at # "idle" =>
        /\ reader.own <= clock /\ (reader.at = "check" => reader.own < reader.t)
        /\ \A w \in Writes : reader.own < w
        /\ writer.at = "write" => reader.own < writer.t

\* The time of an unread write, or of the one just read, is in the deque or
\* about to be appended.
KeptInv ==
    ~partial /\ ~dropped =>
        /\ \A w \in Writes : w \in Times \/ (writer.at # "idle" /\ w = writer.t)
        /\ reader.at # "idle" =>
              reader.own \in Times \/ (writer.at = "append" /\ reader.own = writer.t)
        /\ ~raised /\ \A p \in pairs : p.used <= p.own

\* The writes whose time is still to be taken.
Unmeasured == Writes \cup IF reader.at = "idle" THEN {} ELSE {reader.own}

\* The deque holds no other time.
ExactInv ==
    ~partial /\ ~several /\ ~missed =>
        /\ Times \subseteq Unmeasured
        /\ writer.at = "append" => writer.t \in Unmeasured
        /\ ~dropped => \A p \in pairs : p.used = p.own
        /\ MaxTracked > Capacity => ~dropped

PipeInv == PipeTypes /\ OrderInv /\ ReaderInv /\ KeptInv /\ ExactInv

\* The pipe and the deque are empty.
LEMMA PipeInit == C!Init => PipeInv
<1> SUFFICES ASSUME C!Init  PROVE PipeInv
  OBVIOUS
<1>1. PICK c \in Seq(Chunks), q \in Seq(Nat) : c = content /\ q = write_times /\ Len(c) = 0 /\ Len(q) = 0
  <2>1. <<>> \in Seq(Chunks) /\ <<>> \in Seq(Nat) /\ Len(<<>>) = 0
    OBVIOUS
  <2> QED BY <2>1 DEF C!Init
<1>2. Writes = {} /\ Times = {} /\ Unmeasured = {}
  BY <1>1 DEF C!Init, Writes, Times, Members, Unmeasured
<1>3. /\ writer = [at |-> "idle", t |-> 0, left |-> 0] /\ reader = [at |-> "idle", t |-> 0, own |-> 0]
      /\ clock = 0 /\ partial = FALSE /\ several = FALSE /\ missed = FALSE /\ dropped = FALSE
      /\ raised = FALSE /\ pairs = {}
  BY DEF C!Init
<1>4. PipeTypes
  <2>1. /\ writer \in [at : {"idle", "write", "append"}, t : Nat, left : Int]
        /\ reader \in [at : {"idle", "stamp", "check"}, t : Nat, own : Nat]
    BY <1>3
  <2>2. content \in Seq(Chunks) /\ write_times \in Seq(Nat)
    BY <1>1
  <2> QED BY <1>3, <2>1, <2>2 DEF PipeTypes
<1>5. OrderInv
  BY <1>1, <1>2, <1>3, ProfiledAssumption DEF OrderInv, Ascending
<1> QED BY <1>2, <1>3, <1>4, <1>5 DEF PipeInv, ReaderInv, KeptInv, ExactInv

\* The times are numbers, and the chunks a sequence of known length.
LEMMA PipeSequences ==
  ASSUME PipeTypes
  PROVE  /\ Times \subseteq Nat
         /\ \E c \in Seq(Chunks), n \in Nat :
               /\ c = content /\ n = Len(c) /\ (c = <<>> <=> n = 0)
               /\ \A i \in 1..n : c[i] \in Chunks /\ c[i].w \in Nat /\ c[i].last \in BOOLEAN
               /\ Writes = {c[i].w : i \in 1..n}
<1>1. /\ Len(content) \in Nat /\ (content = <<>> <=> Len(content) = 0)
  BY LenProperties, EmptySeq DEF PipeTypes
<1>2. \A i \in 1..Len(content) : content[i] \in Chunks
  BY ElementOfSeq DEF PipeTypes
<1>3. \A i \in 1..Len(write_times) : write_times[i] \in Nat
  BY ElementOfSeq DEF PipeTypes
<1>4. \A x \in Chunks : x.w \in Nat /\ x.last \in BOOLEAN
  BY DEF Chunks
<1>5. content \in Seq(Chunks) /\ write_times \in Seq(Nat)
  BY DEF PipeTypes
<1> QED BY <1>1, <1>2, <1>3, <1>4, <1>5 DEF Writes, Times, Members

\* A write takes its time.
LEMMA PipeStampWrite == PipeInv /\ C!StampWrite => PipeInv'
<1> SUFFICES ASSUME PipeInv, C!StampWrite  PROVE PipeInv'
  OBVIOUS
<1>1. /\ writer.at = "idle" /\ clock' = clock + 1
      /\ UNCHANGED <<reader, content, write_times, partial, several, missed, dropped, raised, pairs>>
      /\ \E k \in 1..MaxChunks : writer' = [at |-> "write", t |-> clock + 1, left |-> k]
  BY DEF C!StampWrite, C!history
<1>2. clock \in Nat /\ reader.own \in Nat /\ writer.t \in Nat
  BY DEF PipeInv, PipeTypes
<1>3. Writes' = Writes /\ Times' = Times /\ Unmeasured' = Unmeasured
  BY <1>1 DEF Writes, Times, Unmeasured
<1>4. writer'.at = "write" /\ writer'.t = clock + 1
  BY <1>1
<1>5. PICK c \in Seq(Chunks), n \in Nat :
            /\ c = content /\ n = Len(c)
            /\ \A i \in 1..n : c[i].w \in Nat /\ c[i].last \in BOOLEAN
            /\ Writes = {c[i].w : i \in 1..n} /\ Times \subseteq Nat
  BY PipeSequences DEF PipeInv
<1>6. \A w \in Writes \cup Times : w <= clock /\ w \in Nat
  BY <1>5 DEF PipeInv, OrderInv
<1>7. PipeTypes'
  BY <1>1, <1>2 DEF PipeInv, PipeTypes
<1>8. OrderInv'
  <2>1. \A w \in Writes \cup Times : w <= clock' /\ w < clock + 1
    BY <1>1, <1>2, <1>6
  <2>2. \A i \in 1..n : c[i].w < clock + 1
    BY <1>5, <2>1
  <2>3. Ascending(write_times')
    BY <1>1 DEF PipeInv, OrderInv
  <2>4. \A i \in 1..Len(content') : content'[i].last => content'[i].w < clock + 1
    BY <1>1, <1>5, <2>2
  <2>5. (\A w \in Writes' : w <= clock + 1) /\ \A t \in Times' : t < clock + 1
    BY <1>1, <1>3, <2>1
  <2>6. clock + 1 <= clock'
    BY <1>1, <1>2
  <2> QED BY <1>1, <1>3, <1>4, <2>1, <2>3, <2>4, <2>5, <2>6 DEF PipeInv, OrderInv
<1>9. ReaderInv'
  BY <1>1, <1>2, <1>3, <1>4 DEF PipeInv, ReaderInv
<1>10. KeptInv'
  BY <1>1, <1>3, <1>4 DEF PipeInv, KeptInv
<1>11. ExactInv'
  BY <1>1, <1>3, <1>4 DEF PipeInv, ExactInv
<1> QED BY <1>7, <1>8, <1>9, <1>10, <1>11 DEF PipeInv

\* A chunk goes into the pipe.
LEMMA PipeWriteChunk == PipeInv /\ C!WriteChunk => PipeInv'
<1> SUFFICES ASSUME PipeInv, C!WriteChunk  PROVE PipeInv'
  OBVIOUS
<1>1. PICK c \in Seq(Chunks), n \in Nat :
            /\ c = content /\ n = Len(c)
            /\ \A i \in 1..n : c[i].w \in Nat /\ c[i].last \in BOOLEAN
            /\ Writes = {c[i].w : i \in 1..n} /\ Times \subseteq Nat
  BY PipeSequences DEF PipeInv
<1>2. PICK x \in Chunks : x = [w |-> writer.t, last |-> writer.left = 1]
  <2>1. writer.t \in Nat
    BY DEF PipeInv, PipeTypes
  <2>2. CASE writer.left = 1
    <3>1. [w |-> writer.t, last |-> TRUE] \in Chunks
      BY <2>1 DEF Chunks
    <3>2. (writer.left = 1) = TRUE
      BY <2>2
    <3> QED BY <3>1, <3>2
  <2>3. CASE writer.left # 1
    <3>1. [w |-> writer.t, last |-> FALSE] \in Chunks
      BY <2>1 DEF Chunks
    <3>2. (writer.left = 1) = FALSE
      BY <2>3
    <3> QED BY <3>1, <3>2
  <2> QED BY <2>2, <2>3
<1>3. /\ writer.at = "write" /\ n < Capacity /\ content' = Append(c, x)
      /\ writer' = [writer EXCEPT !.left = writer.left - 1,
                                  !.at = IF writer.left = 1 THEN "append" ELSE "write"]
      /\ UNCHANGED <<reader, write_times, clock, partial, several, missed, dropped, raised, pairs>>
  BY <1>1, <1>2 DEF C!WriteChunk, C!history
<1>4. /\ Append(c, x) \in Seq(Chunks) /\ Len(Append(c, x)) = n + 1
      /\ Append(c, x)[n + 1] = x /\ \A i \in 1..n : Append(c, x)[i] = c[i]
  BY <1>1, AppendProperties
<1>5. /\ writer'.t = writer.t /\ writer.t \in Nat /\ writer.left \in Int /\ clock \in Nat
      /\ writer'.at = IF writer.left = 1 THEN "append" ELSE "write"
      /\ x.w = writer.t /\ x.last = (writer.left = 1)
  BY <1>2, <1>3 DEF PipeInv, PipeTypes
<1>6. Writes' = Writes \cup {writer.t} /\ Times' = Times /\ Unmeasured' = Unmeasured \cup {writer.t}
  <2>1. \A i \in 1..(n + 1) : i \in 1..n \/ i = n + 1
    OBVIOUS
  <2>2. Writes' = {Append(c, x)[i].w : i \in 1..(n + 1)}
    BY <1>3, <1>4 DEF Writes
  <2>3. Writes' = Writes \cup {writer.t}
    BY <1>1, <1>4, <1>5, <2>1, <2>2
  <2> QED BY <1>3, <2>3 DEF Times, Unmeasured
<1>7. PipeTypes'
  <2>1. writer' \in [at : {"idle", "write", "append"}, t : Nat, left : Int]
    <3>1. writer \in [at : {"idle", "write", "append"}, t : Nat, left : Int]
      BY DEF PipeInv, PipeTypes
    <3>2. writer.left - 1 \in Int
      BY <1>5
    <3>3. (IF writer.left = 1 THEN "append" ELSE "write") \in {"idle", "write", "append"}
      OBVIOUS
    <3> QED BY <1>3, <3>1, <3>2, <3>3
  <2> QED BY <1>3, <1>4, <2>1 DEF PipeInv, PipeTypes
<1>8. OrderInv'
  <2>1. \A i \in 1..n : /\ c[i].w <= writer.t
                        /\ c[i].last => c[i].w < writer.t
    BY <1>1, <1>3 DEF PipeInv, OrderInv
  <2>2. \A i, j \in 1..(n + 1) : i < j =>
           /\ Append(c, x)[i].w <= Append(c, x)[j].w
           /\ Append(c, x)[i].last => Append(c, x)[i].w < Append(c, x)[j].w
    <3> SUFFICES ASSUME NEW i \in 1..(n + 1), NEW j \in 1..(n + 1), i < j
                 PROVE  /\ Append(c, x)[i].w <= Append(c, x)[j].w
                        /\ Append(c, x)[i].last => Append(c, x)[i].w < Append(c, x)[j].w
      OBVIOUS
    <3>1. i \in 1..n
      OBVIOUS
    <3>2. CASE j = n + 1
      BY <1>4, <1>5, <2>1, <3>1, <3>2
    <3>3. CASE j # n + 1
      <4>1. j \in 1..n
        BY <3>3
      <4> QED BY <1>1, <1>4, <3>1, <4>1 DEF PipeInv, OrderInv
    <3> QED BY <3>2, <3>3
  <2>3. \A w \in Writes' : w <= clock /\ w <= writer.t
    BY <1>3, <1>5, <1>6 DEF PipeInv, OrderInv
  <2>4. writer'.at = "write" => \A i \in 1..(n + 1) : Append(c, x)[i].last => Append(c, x)[i].w < writer.t
    <3> SUFFICES ASSUME writer'.at = "write", NEW i \in 1..(n + 1), Append(c, x)[i].last
                 PROVE  Append(c, x)[i].w < writer.t
      OBVIOUS
    <3>1. ~x.last
      BY <1>5
    <3>2. i \in 1..n
      BY <1>4, <3>1
    <3> QED BY <1>4, <2>1, <3>2
  <2>5. n + 1 <= Capacity
    BY <1>3, ProfiledAssumption
  <2> QED BY <1>3, <1>4, <1>5, <1>6, <2>2, <2>3, <2>4, <2>5 DEF PipeInv, OrderInv
<1>9. ReaderInv'
  BY <1>3, <1>5, <1>6 DEF PipeInv, ReaderInv
<1>10. KeptInv'
  BY <1>3, <1>5, <1>6 DEF PipeInv, KeptInv
<1>11. ExactInv'
  BY <1>3, <1>5, <1>6 DEF PipeInv, ExactInv
<1> QED BY <1>7, <1>8, <1>9, <1>10, <1>11 DEF PipeInv

\* A write fails: none of it is in the pipe.
LEMMA PipeWriteFails == PipeInv /\ C!WriteFails => PipeInv'
<1> SUFFICES ASSUME PipeInv, C!WriteFails  PROVE PipeInv'
  OBVIOUS
<1>1. PICK c \in Seq(Chunks), n \in Nat :
            /\ c = content /\ n = Len(c) /\ (c = <<>> <=> n = 0)
            /\ \A i \in 1..n : c[i].w \in Nat
            /\ Writes = {c[i].w : i \in 1..n} /\ Times \subseteq Nat
  BY PipeSequences DEF PipeInv
<1>2. /\ writer.at = "write" /\ (n > 0 => c[n].w # writer.t)
      /\ writer' = [writer EXCEPT !.at = "idle"]
      /\ UNCHANGED <<reader, content, write_times, clock, partial, several, missed, dropped, raised, pairs>>
  BY <1>1 DEF C!WriteFails, C!history
<1>3. Writes' = Writes /\ Times' = Times /\ Unmeasured' = Unmeasured
  BY <1>2 DEF Writes, Times, Unmeasured
<1>4. writer'.at = "idle" /\ writer'.t = writer.t /\ writer.t \in Nat
  BY <1>2 DEF PipeInv, PipeTypes
<1>5. writer.t \notin Writes
  <2> SUFFICES ASSUME NEW i \in 1..n, c[i].w = writer.t  PROVE FALSE
    BY <1>1
  <2>1. c[n].w \in Writes /\ c[n].w \in Nat /\ c[n].w <= writer.t
    BY <1>1, <1>2 DEF PipeInv, OrderInv
  <2>2. CASE i = n
    BY <1>2, <2>2
  <2>3. CASE i # n
    <3>1. c[i].w <= c[n].w
      BY <1>1, <2>3 DEF PipeInv, OrderInv
    <3> QED BY <1>2, <1>4, <2>1, <3>1
  <2> QED BY <2>2, <2>3
<1>6. PipeTypes'
  BY <1>2 DEF PipeInv, PipeTypes
<1>7. OrderInv'
  BY <1>2, <1>3, <1>4 DEF PipeInv, OrderInv
<1>8. ReaderInv'
  BY <1>2, <1>3, <1>4 DEF PipeInv, ReaderInv
<1>9. KeptInv'
  BY <1>2, <1>3, <1>4, <1>5 DEF PipeInv, KeptInv
<1>10. ExactInv'
  BY <1>2, <1>3, <1>4 DEF PipeInv, ExactInv
<1> QED BY <1>6, <1>7, <1>8, <1>9, <1>10 DEF PipeInv

\* Times in order, with a new one that exceeds them.
LEMMA LaterTime ==
  ASSUME NEW q \in Seq(Nat), NEW t \in Nat, Ascending(q), \A x \in Members(q) : x < t
  PROVE  /\ Append(q, t) \in Seq(Nat) /\ Append(q, t) # <<>> /\ Ascending(Append(q, t))
         /\ Len(Append(q, t)) = Len(q) + 1
         /\ Members(Append(q, t)) = Members(q) \cup {t}
<1>1. PICK m \in Nat : m = Len(q)
  BY LenProperties
<1>2. /\ Append(q, t) \in Seq(Nat) /\ Append(q, t) # <<>>
      /\ Len(Append(q, t)) = m + 1 /\ Append(q, t)[m + 1] = t
      /\ \A i \in 1..m : Append(q, t)[i] = q[i]
  BY <1>1, AppendProperties
<1>3. PICK a \in Seq(Nat) : /\ a = Append(q, t) /\ Len(a) = m + 1 /\ a[m + 1] = t
                            /\ \A i \in 1..m : a[i] = q[i]
  BY <1>2
<1>4. \A i \in 1..m : q[i] < t
  BY <1>1 DEF Members
<1>5. ASSUME NEW i \in 1..(m + 1), NEW j \in 1..(m + 1), i < j  PROVE a[i] < a[j]
  <2>1. i \in 1..m
    BY <1>5
  <2>2. CASE j = m + 1
    BY <1>3, <1>4, <2>1, <2>2
  <2>3. CASE j # m + 1
    <3>1. j \in 1..m
      BY <2>3
    <3>2. q[i] < q[j]
      BY <1>1, <1>5, <2>1, <3>1 DEF Ascending
    <3> QED BY <1>3, <2>1, <3>1, <3>2
  <2> QED BY <2>2, <2>3
<1>6. \A i \in 1..(m + 1) : i \in 1..m \/ i = m + 1
  OBVIOUS
<1>7. Members(a) = Members(q) \cup {t}
  BY <1>1, <1>3, <1>6 DEF Members
<1>8. Ascending(a)
  BY <1>3, <1>5 DEF Ascending
<1> QED BY <1>1, <1>2, <1>3, <1>7, <1>8

\* Times in order, without the first one.
LEMMA FirstTime ==
  ASSUME NEW q \in Seq(Nat), q # <<>>, Ascending(q)
  PROVE  /\ Head(q) \in Members(q) /\ \A x \in Members(q) : Head(q) <= x
         /\ Tail(q) \in Seq(Nat) /\ Ascending(Tail(q))
         /\ Members(Tail(q)) = Members(q) \ {Head(q)}
<1>1. PICK m \in Nat : m + 1 = Len(q)
  <2>1. Len(q) \in Nat /\ Len(q) # 0
    BY LenProperties, EmptySeq
  <2>2. Len(q) - 1 \in Nat /\ (Len(q) - 1) + 1 = Len(q)
    BY <2>1
  <2> QED BY <2>2
<1>2. Head(q) = q[1]
  OBVIOUS
<1>3. /\ Tail(q) \in Seq(Nat) /\ Len(Tail(q)) = m
      /\ \A i \in 1..m : Tail(q)[i] = q[i + 1]
  BY <1>1, HeadTailProperties
<1>4. PICK b \in Seq(Nat) : b = Tail(q) /\ Len(b) = m /\ \A i \in 1..m : b[i] = q[i + 1]
  BY <1>3
<1>5. \A i \in 1..m : i + 1 \in 1..(m + 1) /\ 1 < i + 1
  OBVIOUS
<1>6. 1 \in 1..(m + 1) /\ \A i \in 1..(m + 1) : q[i] \in Nat
  BY <1>1, ElementOfSeq
<1>7. \A i \in 1..m : q[1] < q[i + 1]
  BY <1>1, <1>5, <1>6 DEF Ascending
<1>8. \A k \in 1..(m + 1) : k = 1 \/ \E i \in 1..m : k = i + 1
  <2> SUFFICES ASSUME NEW k \in 1..(m + 1), k # 1  PROVE \E i \in 1..m : k = i + 1
    OBVIOUS
  <2>1. k - 1 \in 1..m /\ k = (k - 1) + 1
    OBVIOUS
  <2> QED BY <2>1
<1>9. Members(q) = {q[1]} \cup Members(b)
  <2>1. Members(q) = {q[i] : i \in 1..(m + 1)} /\ Members(b) = {q[i + 1] : i \in 1..m}
    BY <1>1, <1>4 DEF Members
  <2> QED BY <1>5, <1>6, <1>8, <2>1
<1>10. \A x \in Members(b) : x \in Nat /\ q[1] < x
  BY <1>4, <1>5, <1>6, <1>7 DEF Members
<1>11. q[1] \notin Members(b) /\ \A x \in Members(q) : q[1] <= x
  BY <1>6, <1>9, <1>10
<1>12. ASSUME NEW i \in 1..m, NEW j \in 1..m, i < j  PROVE b[i] < b[j]
  <2>1. i + 1 < j + 1
    BY <1>12
  <2>2. q[i + 1] < q[j + 1]
    BY <1>1, <1>5, <2>1 DEF Ascending
  <2> QED BY <1>4, <2>2
<1>13. Ascending(b)
  BY <1>4, <1>12 DEF Ascending
<1> QED BY <1>2, <1>4, <1>9, <1>11, <1>13

\* What the deque keeps of times in order, with a new one that exceeds them.
LEMMA BoundedTimes ==
  ASSUME NEW q \in Seq(Nat), NEW t \in Nat, NEW b, Ascending(q), \A x \in Members(q) : x < t,
         b = IF Len(Append(q, t)) > MaxTracked THEN Tail(Append(q, t)) ELSE Append(q, t)
  PROVE  /\ b \in Seq(Nat) /\ Ascending(b)
         /\ Members(b) \subseteq Members(q) \cup {t}
         /\ ~(Len(q) >= MaxTracked) => Members(b) = Members(q) \cup {t}
<1>1. PICK a \in Seq(Nat) : /\ a = Append(q, t) /\ a # <<>> /\ Ascending(a)
                            /\ Len(a) = Len(q) + 1 /\ Members(a) = Members(q) \cup {t}
  BY LaterTime
<1>2. CASE b = a
  BY <1>1, <1>2
<1>3. CASE b = Tail(a) /\ Len(q) >= MaxTracked
  BY <1>1, <1>3, FirstTime
<1>4. Len(q) \in Nat
  BY LenProperties
<1>5. b = a \/ (b = Tail(a) /\ Len(q) >= MaxTracked)
  BY <1>1, <1>4, ProfiledAssumption
<1> QED BY <1>2, <1>3, <1>5

\* As many times as places to hold them, or two of them would be equal.
LEMMA Pigeons ==
  ASSUME NEW q \in Seq(Nat), Ascending(q), NEW n \in Nat, NEW p \in [0..n -> Nat],
         \A x \in Members(q) : \E k \in 0..n : x = p[k]
  PROVE  Len(q) <= n + 1
<1>1. PICK m \in Nat : m = Len(q)
  BY LenProperties
<1> SUFFICES ASSUME m > n + 1  PROVE FALSE
  BY <1>1
<1> DEFINE place == [i \in 1..m |-> CHOOSE k \in 0..n : q[i] = p[k]]
<1>2. \A i \in 1..m : \E k \in 0..n : q[i] = p[k]
  BY <1>1 DEF Members
<1>3. \A i \in 1..m : place[i] \in 0..n /\ q[i] = p[place[i]]
  BY <1>2
<1>4. place \in [1..m -> 0..n]
  BY <1>3
<1> HIDE DEF place
<1>5. IsFiniteSet(0..n) /\ Cardinality(0..n) = n + 1
  <2>1. IsFiniteSet(0..n) /\ Cardinality(0..n) = IF 0 > n THEN 0 ELSE n - 0 + 1
    BY FS_Interval, 0 \in Int, n \in Int
  <2> QED BY <2>1
<1>6. IsFiniteSet(1..m) /\ Cardinality(1..m) = m
  <2>1. IsFiniteSet(1..m) /\ Cardinality(1..m) = IF 1 > m THEN 0 ELSE m - 1 + 1
    BY FS_Interval, 1 \in Int, m \in Int
  <2> QED BY <2>1
<1>7. Cardinality(0..n) < Cardinality(1..m)
  BY <1>5, <1>6
<1>8. PICK x \in 1..m, y \in 1..m : x # y /\ place[x] = place[y]
  <2> DEFINE S == 1..m
             T == 0..n
  <2>1. IsFiniteSet(S) /\ IsFiniteSet(T) /\ Cardinality(T) < Cardinality(S) /\ place \in [S -> T]
    BY <1>4, <1>5, <1>6, <1>7
  <2> HIDE DEF S, T
  <2>2. \E x, y \in S : x # y /\ place[x] = place[y]
    BY <2>1, FS_PigeonHole
  <2> QED BY <2>2 DEF S
<1>9. q[x] = q[y]
  BY <1>3, <1>8
<1>10. \A i \in 1..m : q[i] \in Nat
  BY <1>1, ElementOfSeq
<1>11. x < y \/ y < x
  BY <1>8
<1>12. q[x] < q[y] \/ q[y] < q[x]
  BY <1>1, <1>11 DEF Ascending
<1> QED BY <1>9, <1>10, <1>12

\* The writer appends its time.
LEMMA PipeAppendTime == PipeInv /\ C!AppendTime => PipeInv'
<1> SUFFICES ASSUME PipeInv, C!AppendTime  PROVE PipeInv'
  OBVIOUS
<1>1. PICK c \in Seq(Chunks), n \in Nat :
            /\ c = content /\ n = Len(c)
            /\ \A i \in 1..n : c[i].w \in Nat
            /\ Writes = {c[i].w : i \in 1..n} /\ Times \subseteq Nat
  BY PipeSequences DEF PipeInv
<1>2. /\ writer.at = "append" /\ writer' = [writer EXCEPT !.at = "idle"]
      /\ dropped' = (dropped \/ Len(write_times) >= MaxTracked)
      /\ UNCHANGED <<reader, content, clock, partial, several, missed, raised, pairs>>
  BY DEF C!AppendTime
<1>3. /\ writer'.at = "idle" /\ writer'.t = writer.t /\ writer.t \in Nat /\ clock \in Nat
      /\ reader.own \in Nat
  BY <1>2 DEF PipeInv, PipeTypes
<1>4. Ascending(write_times) /\ (\A x \in Times : x < writer.t) /\ write_times \in Seq(Nat)
  BY <1>2 DEF PipeInv, OrderInv, PipeTypes
<1>5. PICK b \in Seq(Nat) :
        /\ b = write_times' /\ Ascending(b)
        /\ Members(b) \subseteq Times \cup {writer.t}
        /\ ~(Len(write_times) >= MaxTracked) => Members(b) = Times \cup {writer.t}
  <2>1. write_times' = IF Len(Append(write_times, writer.t)) > MaxTracked
                       THEN Tail(Append(write_times, writer.t)) ELSE Append(write_times, writer.t)
    BY DEF C!AppendTime, C!TimeAppended, C!Bounded
  <2>2. \A x \in Members(write_times) : x < writer.t
    BY <1>4 DEF Times
  <2> DEFINE b == write_times'
             q == write_times
             t == writer.t
  <2>3. q \in Seq(Nat) /\ t \in Nat /\ Ascending(q) /\ (\A x \in Members(q) : x < t)
        /\ b = IF Len(Append(q, t)) > MaxTracked THEN Tail(Append(q, t)) ELSE Append(q, t)
    BY <1>3, <1>4, <2>1, <2>2
  <2>4. Times = Members(q)
    BY DEF Times
  <2> HIDE DEF b, q, t
  <2>5. /\ b \in Seq(Nat) /\ Ascending(b)
        /\ Members(b) \subseteq Members(q) \cup {t}
        /\ ~(Len(q) >= MaxTracked) => Members(b) = Members(q) \cup {t}
    BY <2>3, BoundedTimes
  <2> QED BY <2>4, <2>5 DEF b, q, t
<1>6. /\ Times' \subseteq Times \cup {writer.t}
      /\ ~(Len(write_times) >= MaxTracked) => Times' = Times \cup {writer.t}
  BY <1>5 DEF Times
<1>7. Writes' = Writes /\ Unmeasured' = Unmeasured
  BY <1>2 DEF Writes, Unmeasured
<1>8. PipeTypes'
  <2>1. dropped' \in BOOLEAN
    BY <1>2
  <2>2. writer' \in [at : {"idle", "write", "append"}, t : Nat, left : Int]
    BY <1>2 DEF PipeInv, PipeTypes
  <2> QED BY <1>2, <1>5, <2>1, <2>2 DEF PipeInv, PipeTypes
<1>9. OrderInv'
  <2>1. \A w \in Writes' \cup Times' : w <= clock
    BY <1>6, <1>7 DEF PipeInv, OrderInv
  <2>2. Ascending(write_times')
    BY <1>5
  <2> QED BY <1>2, <1>3, <1>7, <2>1, <2>2 DEF PipeInv, OrderInv
<1>10. ReaderInv'
  BY <1>2, <1>3, <1>7 DEF PipeInv, ReaderInv
<1>11. KeptInv'
  <2> SUFFICES ASSUME ~partial', ~dropped'
               PROVE  /\ \A w \in Writes' : w \in Times'
                      /\ reader'.at # "idle" => reader'.own \in Times'
                      /\ ~raised' /\ \A p \in pairs' : p.used <= p.own
    BY DEF KeptInv
  <2>1. ~dropped /\ ~(Len(write_times) >= MaxTracked)
    BY <1>2
  <2> QED BY <1>2, <1>6, <1>7, <2>1 DEF PipeInv, KeptInv
<1>12. ExactInv'
  <2> SUFFICES ASSUME ~partial, ~several, ~missed  PROVE ExactInv'
    BY <1>2 DEF ExactInv
  <2>1. Times \subseteq Unmeasured /\ writer.t \in Unmeasured
    BY <1>2 DEF PipeInv, ExactInv
  <2>2. Times' \subseteq Unmeasured'
    BY <1>6, <1>7, <2>1
  <2>3. ~dropped' => \A p \in pairs' : p.used = p.own
    BY <1>2 DEF PipeInv, ExactInv
  <2>4. MaxTracked > Capacity => ~(Len(write_times) >= MaxTracked)
    <3>1. PICK a \in Seq(Nat) : Ascending(a) /\ Len(a) = Len(write_times) + 1
                                /\ Members(a) = Times \cup {writer.t}
      BY <1>3, <1>4, LaterTime DEF Times
    <3> DEFINE p == [k \in 0..n |-> IF k = 0 THEN reader.own ELSE c[k].w]
    <3>2. p \in [0..n -> Nat]
      BY <1>1, <1>3
    <3>3. \A x \in Unmeasured : \E k \in 0..n : x = p[k]
      BY <1>1 DEF Unmeasured
    <3>4. \A x \in Members(a) : \E k \in 0..n : x = p[k]
      BY <2>1, <3>1, <3>3
    <3>5. Len(a) <= n + 1
      <4> HIDE DEF p
      <4> QED BY <3>1, <3>2, <3>4, Pigeons
    <3>6. n <= Capacity
      BY <1>1 DEF PipeInv, OrderInv
    <3>7. Len(write_times) \in Nat
      BY <1>4, LenProperties
    <3> QED BY <3>1, <3>5, <3>6, <3>7, ProfiledAssumption
  <2>5. MaxTracked > Capacity => ~dropped'
    BY <1>2, <2>4 DEF PipeInv, ExactInv
  <2> QED BY <1>3, <2>2, <2>3, <2>5 DEF ExactInv
<1> QED BY <1>8, <1>9, <1>10, <1>11, <1>12 DEF PipeInv

\* A read takes chunks from the pipe, or finds its end.
LEMMA PipeReadData == PipeInv /\ C!ReadData => PipeInv'
<1> SUFFICES ASSUME PipeInv, C!ReadData  PROVE PipeInv'
  OBVIOUS
<1>1. PICK c \in Seq(Chunks), n \in Nat :
            /\ c = content /\ n = Len(c) /\ (c = <<>> <=> n = 0)
            /\ \A i \in 1..n : c[i] \in Chunks /\ c[i].w \in Nat /\ c[i].last \in BOOLEAN
            /\ Writes = {c[i].w : i \in 1..n} /\ Times \subseteq Nat
  BY PipeSequences DEF PipeInv
<1>2. /\ reader.at = "idle"
      /\ UNCHANGED <<writer, write_times, clock, missed, dropped, raised, pairs>>
  BY DEF C!ReadData
<1>3. Times' = Times /\ writer.t \in Nat /\ clock \in Nat /\ Unmeasured = Writes
  BY <1>2 DEF Times, Unmeasured, PipeInv, PipeTypes
<1>4. CASE content = <<>> /\ partial' = TRUE
  <2>1. content' = content /\ several' = several /\ reader' = [reader EXCEPT !.at = "stamp", !.own = 0]
    BY <1>1, <1>4 DEF C!ReadData
  <2>2. Writes' = Writes
    BY <2>1 DEF Writes
  <2>3. PipeTypes'
    BY <1>2, <1>4, <2>1 DEF PipeInv, PipeTypes
  <2>4. OrderInv'
    BY <1>2, <1>3, <2>1, <2>2 DEF PipeInv, OrderInv
  <2> QED BY <1>4, <2>3, <2>4 DEF PipeInv, ReaderInv, KeptInv, ExactInv
<1>5. ASSUME NEW k \in 1..n,
             reader' = [reader EXCEPT !.at = "stamp", !.own = c[1].w],
             content' = SubSeq(c, k + 1, n),
             partial' = (partial \/ ~c[k].last),
             several' = (several \/ \E i \in 1..k : c[i].w # c[1].w)
      PROVE  PipeInv'
  <2>1. PICK m \in Nat : m = n - k /\ m <= n /\ (\A i \in 1..m : k + i \in 1..n /\ k < k + i)
    <3>1. n - k \in Nat /\ n - k <= n /\ (\A i \in 1..(n - k) : k + i \in 1..n /\ k < k + i)
      OBVIOUS
    <3> QED BY <3>1
  <2>2. PICK d \in Seq(Chunks) : d = content' /\ Len(d) = m /\ \A i \in 1..m : d[i] = c[k + i]
    <3>1. \A i \in (k + 1)..n : c[i] \in Chunks
      BY <1>1
    <3>2. /\ SubSeq(c, k + 1, n) \in Seq(Chunks)
          /\ Len(SubSeq(c, k + 1, n)) = IF k + 1 <= n THEN n - (k + 1) + 1 ELSE 0
          /\ \A i \in 1..(n - (k + 1) + 1) : SubSeq(c, k + 1, n)[i] = c[k + 1 + i - 1]
      BY <3>1, SubSeqProperties, k + 1 \in Int, n \in Int
    <3>3. n - (k + 1) + 1 = m /\ (IF k + 1 <= n THEN n - (k + 1) + 1 ELSE 0) = m
      BY <2>1
    <3>4. PICK d \in Seq(Chunks) : /\ d = content' /\ Len(d) = m
                                   /\ \A i \in 1..m : d[i] = c[k + 1 + i - 1]
      BY <1>5, <3>2, <3>3
    <3>5. \A i \in 1..m : k + 1 + i - 1 = k + i
      OBVIOUS
    <3>6. \A i \in 1..m : d[i] = c[k + i]
      BY <3>4, <3>5
    <3> QED BY <3>4, <3>6
  <2>3. 1 \in 1..n /\ c[1].w \in Nat /\ c[1].w \in Writes
    BY <1>1
  <2>4. Writes' = {d[i].w : i \in 1..m}
    BY <2>2 DEF Writes
  <2>5. \A i \in 1..m : d[i] = c[k + i] /\ k + i \in 1..n /\ k < k + i
    BY <2>1, <2>2
  <2>6. Writes' \subseteq Writes
    BY <1>1, <2>4, <2>5
  <2>7. reader'.at = "stamp" /\ reader'.own = c[1].w
    BY <1>5, <2>3 DEF PipeInv, PipeTypes
  <2>8. c[1].w <= c[k].w /\ c[k].w \in Nat
    <3>1. CASE k = 1
      BY <1>1, <3>1
    <3>2. CASE 1 < k
      BY <1>1, <2>3, <3>2 DEF PipeInv, OrderInv
    <3> QED BY <1>1, <3>1, <3>2
  <2>9. PipeTypes'
    <3>1. reader' \in [at : {"idle", "stamp", "check"}, t : Nat, own : Nat]
      BY <1>5, <2>3 DEF PipeInv, PipeTypes
    <3>2. partial' \in BOOLEAN /\ several' \in BOOLEAN
      BY <1>5
    <3> QED BY <1>2, <2>2, <3>1, <3>2 DEF PipeInv, PipeTypes
  <2>10. OrderInv'
    <3>1. \A i, j \in 1..m : i < j => /\ d[i].w <= d[j].w
                                      /\ d[i].last => d[i].w < d[j].w
      <4> SUFFICES ASSUME NEW i \in 1..m, NEW j \in 1..m, i < j
                   PROVE  d[i].w <= d[j].w /\ (d[i].last => d[i].w < d[j].w)
        OBVIOUS
      <4>1. k + i < k + j
        OBVIOUS
      <4>2. k + i \in 1..n /\ k + j \in 1..n /\ d[i] = c[k + i] /\ d[j] = c[k + j]
        BY <2>5
      <4> QED BY <1>1, <4>1, <4>2 DEF PipeInv, OrderInv
    <3>2. m <= Capacity
      <4>1. n <= Capacity
        BY <1>1 DEF PipeInv, OrderInv
      <4> QED BY <2>1, <4>1, ProfiledAssumption
    <3>3. \A w \in Writes' \cup Times' : w <= clock
      BY <1>3, <2>6 DEF PipeInv, OrderInv
    <3>4. writer.at # "idle" => (\A w \in Writes' : w <= writer.t) /\ \A t \in Times' : t < writer.t
      BY <1>3, <2>6 DEF PipeInv, OrderInv
    <3>5. writer.at = "write" => \A i \in 1..m : d[i].last => d[i].w < writer.t
      BY <1>1, <2>5 DEF PipeInv, OrderInv
    <3>6. Ascending(write_times')
      BY <1>2 DEF PipeInv, OrderInv
    <3>7. writer.t <= clock
      BY DEF PipeInv, OrderInv
    <3> QED BY <1>2, <2>2, <3>1, <3>2, <3>3, <3>4, <3>5, <3>6, <3>7 DEF OrderInv
  <2>11. ReaderInv'
    <3> SUFFICES ASSUME c[k].last
                 PROVE  /\ c[1].w <= clock /\ \A w \in Writes' : c[1].w < w
                        /\ writer.at = "write" => c[1].w < writer.t
      BY <1>2, <1>5, <2>7 DEF ReaderInv
    <3>1. c[1].w <= clock
      BY <2>3 DEF PipeInv, OrderInv
    <3>2. ASSUME NEW i \in 1..m  PROVE c[1].w < d[i].w
      <4>1. c[k].w < c[k + i].w /\ c[k + i].w \in Nat
        BY <1>1, <2>5 DEF PipeInv, OrderInv
      <4> QED BY <2>3, <2>5, <2>8, <4>1
    <3>3. writer.at = "write" => c[1].w < writer.t
      <4>1. writer.at = "write" => c[k].w < writer.t
        BY <1>1 DEF PipeInv, OrderInv
      <4> QED BY <1>3, <2>3, <2>8, <4>1
    <3> QED BY <2>4, <3>1, <3>2, <3>3
  <2>12. KeptInv'
    <3> SUFFICES ASSUME ~partial', ~dropped  PROVE KeptInv'
      BY <1>2 DEF KeptInv
    <3>1. ~partial /\ c[k].last
      BY <1>5
    <3>2. /\ \A w \in Writes : w \in Times \/ (writer.at # "idle" /\ w = writer.t)
          /\ ~raised /\ \A p \in pairs : p.used <= p.own
      BY <3>1 DEF PipeInv, KeptInv
    <3>3. writer.at = "write" => c[1].w < writer.t
      <4>1. writer.at = "write" => c[k].w < writer.t
        BY <1>1, <3>1 DEF PipeInv, OrderInv
      <4> QED BY <1>3, <2>3, <2>8, <4>1
    <3>4. writer.at \in {"idle", "write", "append"}
      BY DEF PipeInv, PipeTypes
    <3>5. c[1].w \in Times \/ (writer.at = "append" /\ c[1].w = writer.t)
      BY <1>3, <2>3, <3>2, <3>3, <3>4
    <3> QED BY <1>2, <1>3, <2>6, <2>7, <3>2, <3>5 DEF KeptInv
  <2>13. ExactInv'
    <3> SUFFICES ASSUME ~partial', ~several', ~missed  PROVE ExactInv'
      BY <1>2 DEF ExactInv
    <3>1. ~partial /\ ~several /\ \A i \in 1..k : c[i].w = c[1].w
      BY <1>5
    <3>2. Writes \subseteq Writes' \cup {c[1].w}
      <4> SUFFICES ASSUME NEW j \in 1..n  PROVE c[j].w \in Writes' \cup {c[1].w}
        BY <1>1
      <4>1. CASE j <= k
        BY <3>1, <4>1
      <4>2. CASE j > k
        <5>1. j - k \in 1..m /\ k + (j - k) = j
          BY <2>1, <4>2
        <5>2. d[j - k] = c[j]
          BY <2>2, <5>1
        <5> QED BY <2>4, <5>1, <5>2
      <4> QED BY <4>1, <4>2
    <3>3. Unmeasured \subseteq Unmeasured'
      BY <1>3, <2>7, <3>2 DEF Unmeasured
    <3> QED BY <1>2, <1>3, <3>1, <3>3 DEF PipeInv, ExactInv
  <2> QED BY <2>9, <2>10, <2>11, <2>12, <2>13 DEF PipeInv
<1>6. \/ content = <<>> /\ partial' = TRUE
      \/ \E k \in 1..n : /\ reader' = [reader EXCEPT !.at = "stamp", !.own = c[1].w]
                         /\ content' = SubSeq(c, k + 1, n)
                         /\ partial' = (partial \/ ~c[k].last)
                         /\ several' = (several \/ \E i \in 1..k : c[i].w # c[1].w)
  <2>1. DOMAIN c = 1..n
    BY <1>1, LenProperties
  <2> QED BY <1>1, <2>1 DEF C!ReadData
<1> QED BY <1>4, <1>5, <1>6

\* The read takes its time.
LEMMA PipeStampRead == PipeInv /\ C!StampRead => PipeInv'
<1> SUFFICES ASSUME PipeInv, C!StampRead  PROVE PipeInv'
  OBVIOUS
<1>1. /\ reader.at = "stamp" /\ clock' = clock + 1
      /\ reader' = [reader EXCEPT !.at = "check", !.t = clock + 1]
      /\ UNCHANGED <<writer, content, write_times, partial, several, missed, dropped, raised, pairs>>
  BY DEF C!StampRead, C!history
<1>2. /\ clock \in Nat /\ reader.own \in Nat /\ writer.t \in Nat
      /\ reader'.at = "check" /\ reader'.t = clock + 1 /\ reader'.own = reader.own
  BY <1>1 DEF PipeInv, PipeTypes
<1>3. Writes' = Writes /\ Times' = Times /\ Unmeasured' = Unmeasured
  BY <1>1, <1>2 DEF Writes, Times, Unmeasured
<1>4. Times \subseteq Nat /\ Writes \subseteq Nat
  <2>1. PICK c \in Seq(Chunks), n \in Nat : /\ \A i \in 1..n : c[i].w \in Nat
                                            /\ Writes = {c[i].w : i \in 1..n} /\ Times \subseteq Nat
    BY PipeSequences DEF PipeInv
  <2> QED BY <2>1
<1>5. PipeTypes'
  <2>1. reader' \in [at : {"idle", "stamp", "check"}, t : Nat, own : Nat]
    <3>1. reader \in [at : {"idle", "stamp", "check"}, t : Nat, own : Nat] /\ clock + 1 \in Nat
      BY <1>2 DEF PipeInv, PipeTypes
    <3> QED BY <1>1, <3>1
  <2> QED BY <1>1, <1>2, <2>1 DEF PipeInv, PipeTypes
<1>6. OrderInv'
  <2>1. \A w \in Writes \cup Times : w <= clock + 1
    BY <1>2, <1>4 DEF PipeInv, OrderInv
  <2>2. writer.t <= clock + 1
    BY <1>2 DEF PipeInv, OrderInv
  <2>3. Ascending(write_times')
    BY <1>1 DEF PipeInv, OrderInv
  <2> QED BY <1>1, <1>3, <2>1, <2>2, <2>3 DEF PipeInv, OrderInv
<1>7. ReaderInv'
  BY <1>1, <1>2, <1>3 DEF PipeInv, ReaderInv
<1>8. KeptInv'
  BY <1>1, <1>2, <1>3 DEF PipeInv, KeptInv
<1>9. ExactInv'
  BY <1>1, <1>2, <1>3 DEF PipeInv, ExactInv
<1> QED BY <1>5, <1>6, <1>7, <1>8, <1>9 DEF PipeInv

\* The read takes the first time of the deque.
LEMMA PipeMeasure == PipeInv /\ C!Measure => PipeInv'
<1> SUFFICES ASSUME PipeInv, C!Measure  PROVE PipeInv'
  OBVIOUS
<1>1. /\ reader.at = "check" /\ reader' = [reader EXCEPT !.at = "idle"]
      /\ UNCHANGED <<writer, content, clock, partial, several, dropped>>
  BY DEF C!Measure
<1>2. /\ Writes' = Writes /\ reader'.at = "idle" /\ reader.at # "idle"
      /\ Unmeasured = Writes \cup {reader.own} /\ Unmeasured' = Writes
      /\ reader.own \in Nat /\ reader.t \in Nat /\ writer.t \in Nat
  BY <1>1 DEF Writes, Unmeasured, PipeInv, PipeTypes
<1>3. reader' \in [at : {"idle", "stamp", "check"}, t : Nat, own : Nat]
  BY <1>1 DEF PipeInv, PipeTypes
<1>4. ReaderInv'
  BY <1>2 DEF ReaderInv
<1>5. Times \subseteq Nat /\ Writes \subseteq Nat
  <2>1. PICK c \in Seq(Chunks), n \in Nat : /\ \A i \in 1..n : c[i].w \in Nat
                                            /\ Writes = {c[i].w : i \in 1..n} /\ Times \subseteq Nat
    BY PipeSequences DEF PipeInv
  <2> QED BY <2>1
<1>6. CASE write_times = <<>>
  <2>1. missed' = TRUE /\ UNCHANGED <<write_times, raised, pairs>>
    BY <1>6 DEF C!Measure
  <2>2. Times' = Times /\ Times = {}
    <3>1. Times' = Times
      BY <2>1 DEF Times
    <3>2. Len(write_times) = 0
      BY <1>6
    <3>3. Members(write_times) = {}
      BY <3>2 DEF Members
    <3> QED BY <3>1, <3>3 DEF Times
  <2>3. PipeTypes'
    BY <1>1, <1>3, <2>1 DEF PipeInv, PipeTypes
  <2>4. OrderInv'
    <3>1. Ascending(write_times')
      BY <2>1 DEF PipeInv, OrderInv
    <3> QED BY <1>1, <1>2, <2>1, <2>2, <3>1 DEF PipeInv, OrderInv
  <2>5. KeptInv'
    BY <1>1, <1>2, <2>1, <2>2 DEF PipeInv, KeptInv
  <2>6. ExactInv'
    BY <2>1 DEF ExactInv
  <2> QED BY <1>4, <2>3, <2>4, <2>5, <2>6 DEF PipeInv
<1>7. CASE write_times # <<>>
  <2> DEFINE t == Head(write_times)
  <2>1. /\ write_times' = Tail(write_times) /\ missed' = missed
        /\ raised' = (raised \/ t > reader.t)
        /\ pairs' = IF t > reader.t THEN pairs ELSE pairs \cup {[own |-> reader.own, used |-> t]}
    BY <1>7 DEF C!Measure
  <2>2. /\ t \in Times /\ (\A x \in Times : t <= x)
        /\ write_times' \in Seq(Nat) /\ Ascending(write_times') /\ Times' = Times \ {t}
    <3>1. write_times \in Seq(Nat) /\ Ascending(write_times)
      BY DEF PipeInv, PipeTypes, OrderInv
    <3>2. /\ Head(write_times) \in Members(write_times)
          /\ \A x \in Members(write_times) : Head(write_times) <= x
          /\ Tail(write_times) \in Seq(Nat) /\ Ascending(Tail(write_times))
          /\ Members(Tail(write_times)) = Members(write_times) \ {Head(write_times)}
      BY <1>7, <3>1, FirstTime
    <3> QED BY <2>1, <3>2 DEF Times
  <2> HIDE DEF t
  <2>3. t \in Nat
    BY <1>5, <2>2
  <2>4. PipeTypes'
    <3>1. [own |-> reader.own, used |-> t] \in [own : Nat, used : Nat]
      BY <1>2, <2>3
    <3>2. pairs' \subseteq [own : Nat, used : Nat]
      BY <2>1, <3>1 DEF PipeInv, PipeTypes
    <3>3. raised' \in BOOLEAN
      BY <2>1
    <3> QED BY <1>1, <1>3, <2>1, <2>2, <3>2, <3>3 DEF PipeInv, PipeTypes
  <2>5. OrderInv'
    BY <1>1, <1>2, <2>2 DEF PipeInv, OrderInv
  <2>6. ~partial => reader.own < reader.t /\ \A w \in Writes : reader.own < w
    BY <1>1 DEF PipeInv, ReaderInv
  <2>7. writer.at = "append" => \A x \in Times : x < writer.t
    BY DEF PipeInv, OrderInv
  <2>8. KeptInv'
    <3> SUFFICES ASSUME ~partial, ~dropped  PROVE KeptInv'
      BY <1>1 DEF KeptInv
    <3>1. /\ \A w \in Writes : w \in Times \/ (writer.at # "idle" /\ w = writer.t)
          /\ reader.own \in Times \/ (writer.at = "append" /\ reader.own = writer.t)
          /\ ~raised /\ \A p \in pairs : p.used <= p.own
      BY <1>2 DEF PipeInv, KeptInv
    <3>2. t <= reader.own
      BY <1>2, <2>2, <2>3, <2>7, <3>1
    <3>3. ~(t > reader.t)
      BY <1>2, <2>3, <2>6, <3>2
    <3>4. t \notin Writes
      BY <1>2, <1>5, <2>3, <2>6, <3>2
    <3>5. \A w \in Writes' : w \in Times' \/ (writer'.at # "idle" /\ w = writer'.t)
      BY <1>1, <1>2, <2>2, <3>1, <3>4
    <3>6. ~raised' /\ \A p \in pairs' : p.used <= p.own
      <4>1. ~raised' /\ pairs' = pairs \cup {[own |-> reader.own, used |-> t]}
        BY <2>1, <3>1, <3>3
      <4> QED BY <3>1, <3>2, <4>1
    <3> QED BY <1>2, <3>5, <3>6 DEF KeptInv
  <2>9. ExactInv'
    <3> SUFFICES ASSUME ~partial, ~several, ~missed  PROVE ExactInv'
      BY <1>1, <2>1 DEF ExactInv
    <3>1. /\ Times \subseteq Writes \cup {reader.own}
          /\ writer.at = "append" => writer.t \in Writes \cup {reader.own}
          /\ ~dropped => \A p \in pairs : p.used = p.own
          /\ MaxTracked > Capacity => ~dropped
      BY <1>2 DEF PipeInv, ExactInv
    <3>2. reader.own <= t
      BY <1>2, <1>5, <2>2, <2>3, <2>6, <3>1
    <3>3. reader.own \notin Times'
      BY <1>2, <2>2, <2>3, <3>2
    <3>4. Times' \subseteq Unmeasured'
      BY <1>2, <2>2, <3>1, <3>3
    <3>5. writer.at = "append" => writer.t \in Writes
      BY <1>2, <2>2, <2>3, <2>7, <3>1, <3>2
    <3>6. ~dropped => \A p \in pairs' : p.used = p.own
      <4> SUFFICES ASSUME ~dropped  PROVE \A p \in pairs' : p.used = p.own
        OBVIOUS
      <4>1. reader.own \in Times \/ (writer.at = "append" /\ reader.own = writer.t)
        BY <1>2 DEF PipeInv, KeptInv
      <4>2. t <= reader.own
        BY <1>2, <2>2, <2>3, <2>7, <4>1
      <4>3. t = reader.own
        BY <1>2, <2>3, <3>2, <4>2
      <4> QED BY <2>1, <3>1, <4>3
    <3> QED BY <1>1, <1>2, <3>1, <3>4, <3>5, <3>6 DEF ExactInv
  <2> QED BY <1>4, <2>4, <2>5, <2>8, <2>9 DEF PipeInv
<1> QED BY <1>6, <1>7

\* Every step of the pipe keeps the invariant.
LEMMA PipeNext == PipeInv /\ (C!Next \/ UNCHANGED pipeVars) => PipeInv'
<1> SUFFICES ASSUME PipeInv, C!Next \/ UNCHANGED pipeVars  PROVE PipeInv'
  OBVIOUS
<1>1. CASE C!CloseWriteEnd \/ UNCHANGED pipeVars
  <2>1. UNCHANGED <<writer, reader, content, write_times, clock,
                    partial, several, missed, dropped, raised, pairs>>
    BY <1>1 DEF C!CloseWriteEnd, C!history, pipeVars
  <2>2. Writes' = Writes /\ Times' = Times /\ Unmeasured' = Unmeasured
    BY <2>1 DEF Writes, Times, Unmeasured
  <2>3. PipeTypes'
    BY <2>1 DEF PipeInv, PipeTypes
  <2>4. OrderInv'
    <3>1. Ascending(write_times')
      BY <2>1 DEF PipeInv, OrderInv
    <3> QED BY <2>1, <2>2, <3>1 DEF PipeInv, OrderInv
  <2> QED BY <2>1, <2>2, <2>3, <2>4 DEF PipeInv, ReaderInv, KeptInv, ExactInv
<1> QED BY <1>1, PipeStampWrite, PipeWriteChunk, PipeWriteFails, PipeAppendTime, PipeReadData,
           PipeStampRead, PipeMeasure DEF C!Next

\* While reads return whole writes and the deque drops nothing, no latency is
\* negative or below its write's own, and, of single writes read after their
\* times, each is exact.
THEOREM PipeMeasured == Spec => []PipeTimes
<1>1. ProfiledInit => PipeInv
  BY PipeInit DEF ProfiledInit
<1>2. PipeInv /\ [Next]_vars => PipeInv'
  BY Parts, PipeNext
<1>3. PipeInv => PipeTimes
  BY DEF PipeInv, KeptInv, ExactInv, PipeTimes, C!PipeTimes
<1> QED BY <1>1, <1>2, <1>3, PTL DEF Spec

-----------------------------------------------------------------------------
(* Logger *)

\* The buffer holds every entry logged, in the json format; what is out are
\* entries logged; a file is open until the first close().
LogTypes ==
    /\ format \in {"json", "line"} /\ socket \in BOOLEAN /\ peer \in BOOLEAN
    /\ stream \in BOOLEAN /\ (stream <=> ~socket /\ closes = 0)
    /\ logged \in Nat /\ closes \in Nat /\ accepted \subseteq 1..logged
    /\ entries \in Seq(Nat) /\ out \in Seq(Nat)
    /\ format = "line" => entries = <<>>
    /\ format = "json" => Len(entries) = logged /\ \A i \in 1..logged : entries[i] = i

IsOut(n) == \E i \in 1..Len(out) : out[i] = n

\* An array comes out at the first close(), a line at once; what is out is
\* older than what is not.
OutInv ==
    /\ format = "json" /\ closes = 0 => out = <<>>
    /\ format = "line" \/ closes > 0 => \A n \in accepted : n \in failed \/ IsOut(n)
    /\ \A i \in 1..Len(out) : out[i] <= logged
    /\ ~(socket /\ closes > 1) => \A i, j \in 1..Len(out) : i < j => out[i] < out[j]

\* Nothing has been logged.
LEMMA LogInit == L!Init => LogTypes /\ OutInv
<1> SUFFICES ASSUME L!Init  PROVE LogTypes /\ OutInv
  OBVIOUS
<1>1. /\ format \in {"json", "line"} /\ socket \in BOOLEAN /\ peer = socket /\ stream = ~socket
      /\ entries = <<>> /\ out = <<>> /\ logged = 0 /\ accepted = {} /\ closes = 0
  BY DEF L!Init
<1>2. LogTypes
  <2>1. peer \in BOOLEAN /\ stream \in BOOLEAN /\ (stream <=> ~socket /\ closes = 0)
    BY <1>1
  <2> QED BY <1>1, <2>1 DEF LogTypes
<1>3. OutInv
  BY <1>1 DEF OutInv
<1> QED BY <1>2, <1>3

\* One more entry, in the buffer or written at once.
LEMMA LogStep == LogTypes /\ OutInv /\ L!Log => LogTypes' /\ OutInv'
<1> SUFFICES ASSUME LogTypes, OutInv, L!Log  PROVE LogTypes' /\ OutInv'
  OBVIOUS
<1>1. PICK n \in Nat \ {0} : n = logged + 1 /\ logged' = n
  BY DEF L!Log, LogTypes
<1>2. /\ UNCHANGED <<format, socket, peer, stream, closes>>
      /\ accepted' = IF closes = 0 /\ n \notin failed' THEN accepted \cup {n} ELSE accepted
  BY <1>1 DEF L!Log
<1>3. accepted' \subseteq 1..n /\ \A i \in 1..Len(out) : out[i] < n
  BY <1>1, <1>2 DEF LogTypes, OutInv
<1>4. CASE format = "json"
  <2>1. entries' = Append(entries, n) /\ out' = out /\ failed' = failed
    BY <1>1, <1>4 DEF L!Log
  <2>2. Len(entries') = n /\ entries' \in Seq(Nat) /\ \A i \in 1..n : entries'[i] = i
    BY <1>1, <1>4, <2>1 DEF LogTypes
  <2>3. LogTypes'
    BY <1>1, <1>2, <1>3, <1>4, <2>1, <2>2 DEF LogTypes
  <2>4. closes > 0 => accepted' = accepted
    BY <1>2
  <2>5. OutInv'
    BY <1>1, <1>2, <1>3, <1>4, <2>1, <2>4 DEF OutInv, IsOut, LogTypes
  <2> QED BY <2>3, <2>5
<1>5. CASE format = "line"
  <2>1. /\ entries' = entries /\ failed' = (IF L!Raises THEN failed \cup {n} ELSE failed)
        /\ out' = IF (socket /\ peer) \/ (~socket /\ stream) THEN out \o <<n>> ELSE out
    BY <1>1, <1>5 DEF L!Log, L!Out
  <2>2. CASE (socket /\ peer) \/ (~socket /\ stream)
    <3>1. /\ out' = out \o <<n>> /\ out' \in Seq(Nat) /\ Len(out') = Len(out) + 1
          /\ \A i \in 1..Len(out) : out'[i] = out[i] /\ out'[Len(out) + 1] = n
      BY <2>1, <2>2 DEF LogTypes
    <3>2. out'[Len(out) + 1] = n
      BY <2>1, <2>2 DEF LogTypes
    <3>3. LogTypes'
      BY <1>1, <1>2, <1>3, <1>5, <2>1, <3>1 DEF LogTypes
    <3>4. failed' = failed
      BY <2>1, <2>2 DEF L!Raises
    <3>5. Len(out) \in Nat
      BY DEF LogTypes
    <3>6. ASSUME NEW m \in accepted'  PROVE m \in failed' \/ IsOut(m)'
      <4>1. CASE m = n
        BY <3>1, <3>2, <3>5, <4>1 DEF IsOut
      <4>2. CASE m # n
        <5>1. m \in failed \/ IsOut(m)
          BY <1>2, <1>5, <3>6, <4>2 DEF OutInv
        <5> QED BY <3>1, <3>4, <3>5, <5>1 DEF IsOut
      <4> QED BY <4>1, <4>2
    <3>7. \A i \in 1..Len(out') : i \in 1..Len(out) \/ i = Len(out) + 1
      BY <3>1, <3>5
    <3>8. \A i \in 1..Len(out') : out'[i] <= n
      BY <1>3, <3>1, <3>2, <3>7 DEF LogTypes
    <3>9. ~(socket /\ closes > 1) => \A i, j \in 1..Len(out') : i < j => out'[i] < out'[j]
      <4> SUFFICES ASSUME ~(socket /\ closes > 1), NEW i \in 1..Len(out'), NEW j \in 1..Len(out'), i < j
                   PROVE  out'[i] < out'[j]
        OBVIOUS
      <4>1. CASE j \in 1..Len(out)
        <5>1. i \in 1..Len(out)
          BY <4>1, <3>5, <3>7
        <5> QED BY <3>1, <4>1, <5>1 DEF OutInv
      <4>2. CASE j = Len(out) + 1
        <5>1. i \in 1..Len(out)
          BY <4>2, <3>5, <3>7
        <5> QED BY <1>3, <3>1, <3>2, <4>2, <5>1
      <4> QED BY <3>7, <4>1, <4>2
    <3>10. OutInv'
      BY <1>1, <1>2, <1>5, <3>6, <3>8, <3>9 DEF OutInv
    <3> QED BY <3>3, <3>10
  <2>3. CASE ~((socket /\ peer) \/ (~socket /\ stream))
    <3>1. out' = out /\ failed \subseteq failed'
      BY <2>1, <2>3
    <3>2. closes = 0 => n \in failed'
      BY <2>1, <2>3 DEF L!Raises, LogTypes
    <3>3. accepted' = accepted
      BY <1>2, <3>2
    <3>4. LogTypes'
      BY <1>1, <1>2, <1>3, <1>5, <2>1, <3>1 DEF LogTypes
    <3>5. \A m \in accepted' : m \in failed' \/ IsOut(m)'
      BY <1>5, <3>1, <3>3 DEF OutInv, IsOut
    <3>6. \A i \in 1..Len(out') : out'[i] <= n
      BY <1>1, <3>1 DEF OutInv, LogTypes
    <3>7. OutInv'
      BY <1>1, <1>2, <1>5, <3>1, <3>5, <3>6 DEF OutInv
    <3> QED BY <3>4, <3>7
  <2> QED BY <2>2, <2>3
<1> QED BY <1>4, <1>5 DEF LogTypes

\* The array comes out, if it does, at the first close().
LEMMA CloseStep == LogTypes /\ OutInv /\ L!Close => LogTypes' /\ OutInv'
<1> SUFFICES ASSUME LogTypes, OutInv, L!Close  PROVE LogTypes' /\ OutInv'
  OBVIOUS
<1>1. /\ closes' = closes + 1 /\ stream' = FALSE
      /\ UNCHANGED <<format, socket, peer, entries, logged, accepted>>
  BY DEF L!Close
<1>2. /\ closes \in Nat /\ closes' \in Nat /\ closes' > 0 /\ (closes' > 1 <=> closes # 0)
      /\ stream' \in BOOLEAN /\ (stream' <=> ~socket' /\ closes' = 0)
  <2>1. closes \in Nat /\ closes' \in Nat /\ closes' > 0 /\ (closes' > 1 <=> closes # 0)
    BY <1>1 DEF LogTypes
  <2>2. ~stream' /\ stream' \in BOOLEAN
    BY <1>1, Zenon
  <2>3. closes' # 0
    BY <2>1
  <2> QED BY <2>1, <2>2, <2>3
<1>3. CASE L!ArrayDue
  <2>1. /\ format = "json" /\ entries # <<>>
        /\ out' = IF (socket /\ peer) \/ (~socket /\ stream) THEN out \o entries ELSE out
        /\ failed' = IF L!Raises THEN failed \cup {entries[i] : i \in DOMAIN entries} ELSE failed
    BY <1>3 DEF L!Close, L!ArrayDue, L!Out
  <2>2. Len(entries) = logged /\ \A i \in 1..logged : entries[i] = i
    BY <2>1 DEF LogTypes
  <2>3. CASE closes = 0
    <3>1. CASE (socket /\ peer) \/ (~socket /\ stream)
      <4>1. out' = entries
        BY <2>1, <2>3, <3>1 DEF OutInv, LogTypes
      <4>2. LogTypes'
        BY <1>1, <1>2, <4>1 DEF LogTypes
      <4>3. \A m \in accepted' : IsOut(m)'
        BY <1>1, <2>2, <4>1 DEF IsOut, LogTypes
      <4>4. /\ \A i \in 1..Len(out') : out'[i] <= logged
            /\ \A i, j \in 1..Len(out') : i < j => out'[i] < out'[j]
        BY <2>2, <4>1 DEF LogTypes
      <4> QED BY <1>1, <1>2, <4>2, <4>3, <4>4 DEF OutInv
    <3>2. CASE ~((socket /\ peer) \/ (~socket /\ stream))
      <4>1. out' = out /\ out = <<>>
        BY <2>1, <2>3, <3>2 DEF OutInv
      <4>2. LogTypes'
        BY <1>1, <1>2, <4>1 DEF LogTypes
      <4>3. \A m \in accepted' : m \in failed'
        <5>1. L!Raises
          BY <2>3, <3>2 DEF L!Raises, LogTypes
        <5>2. \A m \in 1..logged : m \in DOMAIN entries /\ entries[m] = m
          BY <2>2 DEF LogTypes
        <5> QED BY <1>1, <2>1, <5>1, <5>2 DEF LogTypes
      <4> QED BY <1>1, <1>2, <4>1, <4>2, <4>3 DEF OutInv
    <3> QED BY <3>1, <3>2
  <2>4. CASE closes # 0
    <3>1. out' \in Seq(Nat)
      BY <2>1 DEF LogTypes
    <3>2. LogTypes'
      BY <1>1, <1>2, <3>1 DEF LogTypes
    <3>3. CASE out' = out
      <4>1. \A m \in accepted' : m \in failed' \/ IsOut(m)'
        BY <1>1, <1>2, <2>1, <2>4, <3>3 DEF OutInv, IsOut
      <4>2. /\ \A i \in 1..Len(out') : out'[i] <= logged'
            /\ ~(socket /\ closes' > 1) => \A i, j \in 1..Len(out') : i < j => out'[i] < out'[j]
        BY <1>1, <1>2, <2>4, <3>3 DEF OutInv, LogTypes
      <4> QED BY <1>1, <1>2, <3>2, <4>1, <4>2 DEF OutInv
    <3>4. CASE socket /\ out' = out \o entries
      <4>1. /\ Len(out') = Len(out) + logged /\ Len(out) \in Nat /\ logged \in Nat
            /\ \A i \in 1..Len(out) : out'[i] = out[i]
            /\ \A i \in 1..logged : out'[Len(out) + i] = i
        <5>1. out \in Seq(Nat) /\ entries \in Seq(Nat) /\ logged \in Nat
          BY DEF LogTypes
        <5>2. Len(out') = Len(out) + Len(entries) /\ \A i \in 1..Len(out) : out'[i] = out[i]
          BY <3>4, <5>1
        <5>3. \A i \in 1..Len(entries) : out'[Len(out) + i] = entries[i]
          BY <3>4, <5>1
        <5> QED BY <2>2, <5>1, <5>2, <5>3
      <4>2. \A m \in accepted' : m \in failed' \/ IsOut(m)'
        <5>1. \A m \in accepted : m \in failed \/ IsOut(m)
          BY <1>2, <2>4 DEF OutInv
        <5> QED BY <1>1, <2>1, <4>1, <5>1 DEF IsOut
      <4>3. \A i \in 1..Len(out') : out'[i] <= logged
        <5> SUFFICES ASSUME NEW i \in 1..Len(out')  PROVE out'[i] <= logged
          OBVIOUS
        <5>1. CASE i <= Len(out)
          BY <4>1, <5>1 DEF OutInv
        <5>2. CASE i > Len(out)
          <6>1. i - Len(out) \in 1..logged /\ i = Len(out) + (i - Len(out))
            BY <4>1, <5>2
          <6>2. out'[i] = i - Len(out)
            BY <4>1, <6>1
          <6> QED BY <4>1, <6>1, <6>2
        <5> QED BY <4>1, <5>1, <5>2
      <4> QED BY <1>1, <1>2, <2>4, <3>2, <3>4, <4>2, <4>3 DEF OutInv
    <3> QED BY <2>1, <2>4, <3>3, <3>4 DEF LogTypes
  <2> QED BY <2>3, <2>4
<1>4. CASE ~L!ArrayDue
  <2>1. UNCHANGED <<out, failed>>
    BY <1>4 DEF L!Close
  <2>2. LogTypes'
    BY <1>1, <1>2, <2>1 DEF LogTypes
  <2>3. \A m \in accepted' : m \in failed' \/ IsOut(m)'
    <3>1. CASE format = "line" \/ closes > 0
      BY <1>1, <2>1, <3>1 DEF OutInv, IsOut
    <3>2. CASE ~(format = "line" \/ closes > 0)
      <4>1. entries = <<>> /\ format = "json"
        BY <1>4, <3>2 DEF L!ArrayDue, LogTypes
      <4>2. accepted = {}
        BY <4>1 DEF LogTypes
      <4> QED BY <1>1, <4>2
    <3> QED BY <3>1, <3>2
  <2>4. ~(socket /\ closes' > 1) => \A i, j \in 1..Len(out') : i < j => out'[i] < out'[j]
    BY <1>1, <1>2, <2>1 DEF OutInv
  <2> QED BY <1>1, <1>2, <2>1, <2>2, <2>3, <2>4 DEF OutInv
<1> QED BY <1>3, <1>4

\* Whatever is logged however often in whatever format, an accepted entry
\* comes out, once and in order, unless its write raised.
THEOREM LoggerWritesOnce == Spec => []LoggedOnce
<1>1. ProfiledInit => LogTypes /\ OutInv
  BY LogInit DEF ProfiledInit
<1>2. LogTypes /\ OutInv /\ [Next]_vars => LogTypes' /\ OutInv'
  <2> SUFFICES ASSUME LogTypes, OutInv, [Next]_vars  PROVE LogTypes' /\ OutInv'
    OBVIOUS
  <2>1. CASE L!PeerCloses
    BY <2>1 DEF L!PeerCloses, LogTypes, OutInv, IsOut
  <2>2. CASE UNCHANGED logVars
    BY <2>2 DEF logVars, LogTypes, OutInv, IsOut
  <2> QED BY <2>1, <2>2, Parts, LogStep, CloseStep DEF L!Next
<1>3. LogTypes /\ OutInv => LoggedOnce
  <2> SUFFICES ASSUME LogTypes, OutInv  PROVE L!LoggedOnce
    BY DEF LoggedOnce
  <2>1. DOMAIN out = 1..Len(out)
    BY DEF LogTypes
  <2>2. \A n : IsOut(n) => L!Times(n) # {}
    BY <2>1 DEF IsOut, L!Times
  <2> QED BY <2>1, <2>2 DEF OutInv, L!LoggedOnce
<1> QED BY <1>1, <1>2, <1>3, PTL DEF Spec

-----------------------------------------------------------------------------
(* Dumps *)

Listings == [tasks : SUBSET LoopTasks,
             how : {"asked", "copied", "every", "none", "part", "busy", "not begun"}]

DumpTypes ==
    /\ number \in 0..MaxDumps /\ collecting \in 0..number /\ done_event \subseteq 1..number
    /\ callbacks \in Seq(Nat) /\ collected \in [1..MaxDumps -> Listings]
    /\ live \subseteq LoopTasks /\ ended \subseteq LoopTasks /\ live \cap ended = {}
    /\ kept \subseteq LoopTasks /\ moments \subseteq SUBSET LoopTasks
    /\ dumper \in {"idle", "look", "ask", "wait", "fallback", "copy", "filter", "every", "write"}
    /\ dumper # "idle" => number # 0

Asked(n) == \E i \in 1..Len(callbacks) : callbacks[i] = n

\* The loop has each dump's _collect_tasks once: queued, under way or done.
QueueInv ==
    /\ \A i \in 1..Len(callbacks) : callbacks[i] \in 1..number /\ callbacks[i] # collecting
                                    /\ callbacks[i] \notin done_event
    /\ \A i, j \in 1..Len(callbacks) : callbacks[i] = callbacks[j] => i = j
    /\ collecting \notin done_event
    /\ dumper \in {"look", "ask"} =>
          number \notin done_event /\ number # collecting /\ ~Asked(number)

\* The moments of the dump under way end with the present one.
MomentsInv == dumper # "idle" => live \in moments

\* Of a moment's tasks, a copy that was filtered lacks done ones only.
Within(ts, m) == ts \subseteq m /\ m \ ended \subseteq ts

Good(l) ==
    \/ l.how = "none"
    \/ l.how = "asked" /\ l.tasks \in moments
    \/ l.how = "copied" /\ \E m \in moments : Within(l.tasks, m)
    \/ l.how = "every" /\ \E m \in moments : m \subseteq l.tasks

\* What the dump under way has, or will be answered, is of its own time.
AnswerInv ==
    /\ dumper \in {"look", "ask", "wait"} => lines = <<>>
    /\ dumper = "wait" => /\ number \in done_event => Good(collected[number])
                          /\ number = collecting => collected[number].tasks \in moments
    /\ dumper \in {"fallback", "copy", "filter", "every"} => lines \in {<<>>, <<D!Busy>>}
    /\ dumper = "filter" => \E m \in moments : Within(kept, m)
    /\ dumper = "write" => \E l \in Listings : Good(l) /\ lines \in {<<l>>, <<D!Busy, l>>}
    /\ dumper = "idle" => lines = <<>>

Whole(d) == \E l \in Listings :
    /\ d.listings \in {<<l>>, <<D!Busy, l>>}
    /\ \/ l.how = "none"
       \/ \E m \in d.moments :
             \/ l.how = "asked" /\ l.tasks = m
             \/ l.how = "copied" /\ l.tasks \subseteq m /\ m \cap d.end \subseteq l.tasks
             \/ l.how = "every" /\ m \subseteq l.tasks

WrittenInv == \A d \in written : Whole(d)

DumpInv == DumpTypes /\ QueueInv /\ MomentsInv /\ AnswerInv /\ WrittenInv

\* No dump has begun.
LEMMA DumpInit == D!Init => DumpInv
<1> SUFFICES ASSUME D!Init  PROVE DumpInv
  OBVIOUS
<1>1. /\ number = 0 /\ collecting = 0 /\ done_event = {} /\ callbacks = <<>> /\ dumper = "idle"
      /\ live = {} /\ ended = {} /\ kept = {} /\ moments = {} /\ lines = <<>> /\ written = {}
  BY DEF D!Init
<1>2. collected \in [1..MaxDumps -> Listings]
  BY DEF D!Init, D!Nothing, D!Listing, Listings
<1>3. DumpTypes
  BY <1>1, <1>2, ProfiledAssumption DEF DumpTypes
<1> QED BY <1>1, <1>3 DEF DumpInv, QueueInv, MomentsInv, AnswerInv, WrittenInv

\* The listings a dump makes.
LEMMA ListingTypes ==
  /\ D!Busy \in Listings
  /\ \A how \in {"asked", "copied", "every", "none", "part"} : \A ts \in SUBSET LoopTasks :
        /\ D!Listing(ts, how) \in Listings
        /\ D!Listing(ts, how).tasks = ts /\ D!Listing(ts, how).how = how
BY DEF D!Busy, D!Listing, Listings

\* The last one of the listings of a dump, and what an Append makes of them.
LEMMA Tuples ==
  ASSUME NEW b \in Listings, NEW l \in Listings
  PROVE  /\ <<l>> \in Seq(Listings) /\ <<l>>[Len(<<l>>)] = l
         /\ <<b, l>> \in Seq(Listings) /\ <<b, l>>[Len(<<b, l>>)] = l
         /\ Append(<<>>, l) = <<l>> /\ Append(<<b>>, l) = <<b, l>>
<1>1. <<l>> \in Seq(Listings) /\ Len(<<l>>) = 1 /\ <<l>>[1] = l
  OBVIOUS
<1>2. <<b, l>> \in Seq(Listings) /\ Len(<<b, l>>) = 2 /\ <<b, l>>[2] = l
  OBVIOUS
<1>3. Append(<<>>, l) = <<l>>
  OBVIOUS
<1>4. Append(<<b>>, l) = <<b, l>>
  <2>1. <<b>> \in Seq(Listings) /\ Len(<<b>>) = 1 /\ <<b>>[1] = b
    OBVIOUS
  <2>2. PICK s \in Seq(Listings) : s = <<b>> /\ Len(s) = 1 /\ s[1] = b
    BY <2>1
  <2>3. Append(s, l) \in Seq(Listings) /\ Len(Append(s, l)) = 2 /\ Append(s, l)[1] = b /\ Append(s, l)[2] = l
    BY <2>2
  <2>4. PICK t \in Seq(Listings) : t = Append(s, l) /\ Len(t) = 2 /\ t[1] = b /\ t[2] = l
    BY <2>3
  <2>5. PICK u \in Seq(Listings) : u = <<b, l>> /\ Len(u) = 2 /\ u[1] = b /\ u[2] = l
    BY <1>2
  <2>6. \A i \in 1..Len(t) : t[i] = u[i]
    BY <2>4, <2>5
  <2>7. t = u
    BY <2>4, <2>5, <2>6, SeqEqual
  <2> QED BY <2>2, <2>4, <2>5, <2>7
<1> QED BY <1>1, <1>2, <1>3, <1>4

\* A dump that has no listing yet, or only says that the loop was busy, gets
\* one.
LEMMA ListingAdded ==
  ASSUME NEW l \in Listings, lines \in {<<>>, <<D!Busy>>}, lines' = Append(lines, l)
  PROVE  lines' \in {<<l>>, <<D!Busy, l>>}
<1>1. PICK b \in Listings : b = D!Busy
  BY ListingTypes
<1>2. CASE lines = <<>>
  BY <1>2, Tuples
<1>3. CASE lines = <<b>>
  <2>1. lines' = <<b, l>>
    BY <1>3, Tuples
  <2> QED BY <1>1, <2>1
<1> QED BY <1>1, <1>2, <1>3

\* What is said of a listing stays true while tasks come and end.
LEMMA GoodStays ==
  ASSUME moments \subseteq moments', ended \subseteq ended'
  PROVE  /\ \A l \in Listings : Good(l) => Good(l)'
         /\ (\E m \in moments : Within(kept, m)) /\ kept' = kept => \E m \in moments' : Within(kept, m)'
BY DEF Good, Within

\* Steps of the thread that dumps, after the dump has begun, that neither
\* ask the loop nor write.
LEMMA DumperMoves ==
  ASSUME DumpInv,
         UNCHANGED <<number, collecting, done_event, callbacks, collected, live, ended, moments, written>>,
         \/ dumper = "look" /\ dumper' \in {"ask", "fallback"} /\ UNCHANGED <<lines, kept>>
         \/ dumper = "ask" /\ dumper' = "fallback" /\ UNCHANGED <<lines, kept>>
         \/ dumper = "wait" /\ dumper' = "fallback" /\ lines' = <<D!Busy>> /\ UNCHANGED kept
         \/ dumper = "fallback" /\ dumper' \in {"copy", "every"} /\ UNCHANGED <<lines, kept>>
         \/ /\ dumper \in {"copy", "filter"} /\ dumper' = "filter" /\ lines' = lines
            /\ kept' \subseteq LoopTasks /\ \E m \in moments : Within(kept', m)
         \/ /\ dumper \in {"wait", "copy", "filter", "every"} /\ dumper' = "write"
            /\ kept' \subseteq LoopTasks
            /\ \E l \in Listings : Good(l) /\ lines' \in {<<l>>, <<D!Busy, l>>}
  PROVE  DumpInv'
<1>1. DumpTypes'
  BY DEF DumpInv, DumpTypes
<1>2. QueueInv' /\ MomentsInv'
  BY DEF DumpInv, QueueInv, MomentsInv, Asked
<1>3. AnswerInv'
  BY DEF DumpInv, AnswerInv, Good, Within
<1>4. WrittenInv'
  BY DEF DumpInv, WrittenInv, Whole
<1> QED BY <1>1, <1>2, <1>3, <1>4 DEF DumpInv

\* Every step of a dump and of the loop keeps the invariant.
LEMMA DumpNext == DumpInv /\ (D!Next \/ D!Signal \/ UNCHANGED dumpVars) => DumpInv'
<1> SUFFICES ASSUME DumpInv, D!Next \/ D!Signal \/ UNCHANGED dumpVars  PROVE DumpInv'
  OBVIOUS
<1> USE DEF D!stateVars, D!loopVars, D!dumperVars, D!listVars
<1>0. /\ number \in Nat /\ MaxDumps \in Nat /\ collecting \in Nat
      /\ live \in SUBSET LoopTasks /\ ended \in SUBSET LoopTasks /\ live \cap ended = {}
      /\ kept \in SUBSET LoopTasks /\ moments \subseteq SUBSET LoopTasks
      /\ collected \in [1..MaxDumps -> Listings] /\ callbacks \in Seq(Nat)
      /\ (dumper # "idle" => live \in moments)
  BY ProfiledAssumption DEF DumpInv, DumpTypes, MomentsInv
<1>1. ASSUME UNCHANGED <<number, collecting, done_event, callbacks, collected, live, ended, kept, moments,
                         written, dumper, lines>>
      PROVE  DumpInv'
  BY <1>1 DEF DumpInv, DumpTypes, QueueInv, Asked, MomentsInv, AnswerInv, Good, Within, WrittenInv, Whole
<1>2. CASE D!Begin
  <2>0. written' = {} /\ UNCHANGED <<collecting, done_event, callbacks, collected, live, ended, kept, lines>>
        /\ dumper = "idle"
    BY <1>2 DEF D!Begin
  <2>1. CASE finalizing
    <3>1. UNCHANGED <<dumper, number, moments>>
      BY <1>2, <2>1 DEF D!Begin
    <3>2. DumpTypes' /\ QueueInv' /\ MomentsInv' /\ AnswerInv'
      BY <2>0, <3>1 DEF DumpInv, DumpTypes, QueueInv, Asked, MomentsInv, AnswerInv
    <3> QED BY <2>0, <3>2 DEF DumpInv, WrittenInv
  <2>2. CASE ~finalizing
    <3>1. /\ number < MaxDumps /\ dumper' = "look" /\ number' = number + 1 /\ moments' = {live}
      BY <1>2, <2>2 DEF D!Begin
    <3>2. DumpTypes' /\ MomentsInv'
      BY <1>0, <2>0, <3>1 DEF DumpInv, DumpTypes, MomentsInv
    <3>3. QueueInv'
      <4>1. number' \notin done_event /\ number' # collecting
        BY <1>0, <3>1 DEF DumpInv, DumpTypes
      <4>2. \A i \in 1..Len(callbacks) : callbacks[i] \in 1..number' /\ callbacks[i] # number'
        BY <1>0, <3>1 DEF DumpInv, QueueInv
      <4> QED BY <2>0, <3>1, <4>1, <4>2 DEF DumpInv, QueueInv, Asked
    <3>4. AnswerInv' /\ WrittenInv'
      BY <2>0, <3>1 DEF DumpInv, AnswerInv, WrittenInv
    <3> QED BY <3>2, <3>3, <3>4 DEF DumpInv
  <2> QED BY <2>1, <2>2
<1>3. CASE D!Look
  BY <1>3, DumperMoves DEF D!Look, D!DumpStep
<1>4. CASE D!Ask
  <2>1. /\ UNCHANGED <<number, collecting, done_event, collected, live, ended, kept, moments, written, lines>>
        /\ dumper = "ask"
    BY <1>4 DEF D!Ask, D!DumpStep
  <2>2. CASE loop = "closed"
    BY <1>4, <2>1, <2>2, DumperMoves DEF D!Ask, D!DumpStep
  <2>3. CASE loop # "closed"
    <3>1. dumper' = "wait" /\ callbacks' = Append(callbacks, number)
      BY <1>4, <2>3 DEF D!Ask, D!DumpStep
    <3>2. DumpTypes'
      BY <1>0, <2>1, <3>1 DEF DumpInv, DumpTypes
    <3>3. /\ Len(callbacks') = Len(callbacks) + 1 /\ Len(callbacks) \in Nat
          /\ \A i \in 1..Len(callbacks) : callbacks'[i] = callbacks[i]
          /\ callbacks'[Len(callbacks) + 1] = number
      BY <1>0, <3>1
    <3>4. number \notin done_event /\ number # collecting /\ number \in 1..number
          /\ \A i \in 1..Len(callbacks) : callbacks[i] # number
      BY <1>0, <2>1 DEF DumpInv, DumpTypes, QueueInv, Asked
    <3>5. QueueInv'
      <4>1. \A i \in 1..Len(callbacks') : i \in 1..Len(callbacks) \/ i = Len(callbacks) + 1
        BY <3>3
      <4>2. \A i \in 1..Len(callbacks') : callbacks'[i] \in 1..number /\ callbacks'[i] # collecting
                                          /\ callbacks'[i] \notin done_event
        BY <3>3, <3>4, <4>1 DEF DumpInv, QueueInv
      <4>3. \A i, j \in 1..Len(callbacks') : callbacks'[i] = callbacks'[j] => i = j
        BY <3>3, <3>4, <4>1 DEF DumpInv, QueueInv
      <4> QED BY <2>1, <3>1, <4>2, <4>3 DEF DumpInv, QueueInv
    <3>6. AnswerInv' /\ WrittenInv' /\ MomentsInv'
      BY <2>1, <3>1, <3>4 DEF DumpInv, AnswerInv, WrittenInv, Whole, MomentsInv
    <3> QED BY <3>2, <3>5, <3>6 DEF DumpInv
  <2> QED BY <2>2, <2>3
<1>5. CASE D!Answered
  <2>1. /\ number \in done_event /\ dumper = "wait" /\ dumper' = "write"
        /\ lines' = Append(lines, collected[number])
        /\ UNCHANGED <<number, collecting, done_event, callbacks, collected, live, ended, kept, moments, written>>
    BY <1>5 DEF D!Answered, D!DumpStep
  <2>2. Good(collected[number]) /\ collected[number] \in Listings /\ lines' = <<collected[number]>>
    BY <1>0, <2>1 DEF DumpInv, DumpTypes, AnswerInv
  <2>3. PICK l \in Listings : Good(l) /\ lines' = <<l>>
    BY <2>2
  <2> QED BY <1>0, <2>1, <2>3, DumperMoves
<1>6. CASE D!TimesOut
  <2>1. /\ dumper = "wait" /\ dumper' = "fallback" /\ lines' = Append(lines, D!Busy)
        /\ UNCHANGED <<number, collecting, done_event, callbacks, collected, live, ended, kept, moments, written>>
    BY <1>6 DEF D!TimesOut, D!DumpStep
  <2>2. lines' = <<D!Busy>>
    BY <2>1 DEF DumpInv, AnswerInv
  <2> QED BY <2>1, <2>2, DumperMoves
<1>7. CASE D!Fallback
  BY <1>7, DumperMoves DEF D!Fallback, D!DumpStep
<1>8. CASE D!Copy
  <2>1. /\ dumper = "copy" /\ dumper' = "filter" /\ kept' = live /\ lines' = lines
        /\ UNCHANGED <<number, collecting, done_event, callbacks, collected, live, ended, moments, written>>
    BY <1>8 DEF D!Copy, D!DumpStep
  <2>2. \E m \in moments : Within(kept', m)
    BY <1>0, <2>1 DEF Within
  <2> QED BY <1>0, <2>1, <2>2, DumperMoves
<1>9. CASE D!CheckDone
  <2>1. PICK t : kept' = kept \ ({t} \cap ended)
    BY <1>9 DEF D!CheckDone
  <2>2. /\ dumper = "filter" /\ dumper' = "filter" /\ lines' = lines
        /\ UNCHANGED <<number, collecting, done_event, callbacks, collected, live, ended, moments, written>>
    BY <1>9 DEF D!CheckDone
  <2>3. PICK m \in moments : Within(kept, m)
    BY <2>2 DEF DumpInv, AnswerInv
  <2>4. Within(kept', m)
    BY <2>1, <2>3 DEF Within
  <2> QED BY <1>0, <2>1, <2>2, <2>4, DumperMoves
<1>10. CASE D!Filtered
  <2>1. /\ dumper = "filter" /\ dumper' = "write" /\ kept' = {}
        /\ lines' = Append(lines, D!Listing(kept, "copied"))
        /\ UNCHANGED <<number, collecting, done_event, callbacks, collected, live, ended, moments, written>>
    BY <1>10 DEF D!Filtered, D!DumpStep
  <2>2. PICK l \in Listings : l = D!Listing(kept, "copied") /\ l.tasks = kept /\ l.how = "copied"
    BY <1>0, ListingTypes
  <2>3. Good(l)
    BY <2>1, <2>2 DEF DumpInv, AnswerInv, Good
  <2>4. lines' \in {<<l>>, <<D!Busy, l>>}
    BY <2>1, <2>2, ListingAdded DEF DumpInv, AnswerInv
  <2> QED BY <2>1, <2>3, <2>4, DumperMoves
<1>11. CASE D!CopyEvery
  <2>1. /\ dumper = "every" /\ dumper' = "write" /\ kept' = kept
        /\ \E old \in SUBSET ended : lines' = Append(lines, D!Listing(live \cup old, "every"))
        /\ UNCHANGED <<number, collecting, done_event, callbacks, collected, live, ended, moments, written>>
    BY <1>11 DEF D!CopyEvery, D!DumpStep
  <2>2. PICK ts \in SUBSET LoopTasks : live \subseteq ts /\ lines' = Append(lines, D!Listing(ts, "every"))
    BY <1>0, <2>1
  <2>3. PICK l \in Listings : l = D!Listing(ts, "every") /\ l.tasks = ts /\ l.how = "every"
    BY ListingTypes
  <2>4. Good(l)
    BY <1>0, <2>1, <2>2, <2>3 DEF Good
  <2>5. lines' \in {<<l>>, <<D!Busy, l>>}
    BY <2>1, <2>2, <2>3, ListingAdded DEF DumpInv, AnswerInv
  <2> QED BY <1>0, <2>1, <2>4, <2>5, DumperMoves
<1>12. CASE D!CannotCopy
  <2>1. /\ dumper \in {"copy", "every"} /\ dumper' = "write" /\ kept' = kept
        /\ lines' = Append(lines, D!Listing({}, "none"))
        /\ UNCHANGED <<number, collecting, done_event, callbacks, collected, live, ended, moments, written>>
    BY <1>12 DEF D!CannotCopy, D!DumpStep
  <2>2. PICK l \in Listings : l = D!Listing({}, "none") /\ l.how = "none"
    BY ListingTypes
  <2>3. lines' \in {<<l>>, <<D!Busy, l>>}
    BY <2>1, <2>2, ListingAdded DEF DumpInv, AnswerInv
  <2> QED BY <1>0, <2>1, <2>2, <2>3, DumperMoves DEF Good
<1>13. CASE D!Write
  <2>1. /\ dumper = "write" /\ dumper' = "idle" /\ lines' = <<>>
        /\ written' = IF finalizing THEN {}
                      ELSE {[listings |-> lines, moments |-> moments, end |-> live]}
        /\ UNCHANGED <<number, collecting, done_event, callbacks, collected, live, ended, kept>>
        /\ moments' = {}
    BY <1>13 DEF D!Write, D!DumpStep
  <2>2. PICK l \in Listings : Good(l) /\ lines \in {<<l>>, <<D!Busy, l>>}
    BY <2>1 DEF DumpInv, AnswerInv
  <2>3. PICK d : d = [listings |-> lines, moments |-> moments, end |-> live]
    OBVIOUS
  <2>4. d.listings = lines /\ d.moments = moments /\ d.end = live
    BY <2>3
  <2>5. \A m : Within(l.tasks, m) => l.tasks \subseteq m /\ m \cap live \subseteq l.tasks
    BY <1>0 DEF Within
  <2>6. Whole(d)
    BY <2>2, <2>4, <2>5 DEF Whole, Good
  <2>7. WrittenInv'
    BY <2>1, <2>3, <2>6 DEF WrittenInv, Whole
  <2>8. DumpTypes' /\ MomentsInv'
    BY <2>1 DEF DumpInv, DumpTypes, MomentsInv
  <2>9. QueueInv' /\ AnswerInv'
    BY <2>1 DEF DumpInv, QueueInv, AnswerInv
  <2> QED BY <2>7, <2>8, <2>9 DEF DumpInv
<1>14. CASE D!Collect
  <2>1. PICK n \in Nat : n = Head(callbacks) /\ callbacks # <<>>
    BY <1>0, <1>14 DEF D!Collect
  <2>2. /\ collecting = 0 /\ collecting' = n /\ callbacks' = Tail(callbacks)
        /\ collected' = [collected EXCEPT ![n] = D!Listing(live, "part")]
        /\ UNCHANGED <<done_event, number, live, ended, kept, moments, written, dumper, lines>>
    BY <1>14, <2>1 DEF D!Collect
  <2>3. /\ Len(callbacks) \in Nat /\ Len(callbacks) > 0 /\ n = callbacks[1]
        /\ Len(callbacks') = Len(callbacks) - 1 /\ callbacks' \in Seq(Nat)
        /\ \A i \in 1..Len(callbacks') : i + 1 \in 1..Len(callbacks) /\ callbacks'[i] = callbacks[i + 1]
    BY <1>0, <2>1, <2>2
  <2>4. /\ n \in 1..number /\ n \notin done_event
        /\ \A i \in 1..Len(callbacks') : callbacks'[i] # n
    <3>1. 1 \in 1..Len(callbacks)
      BY <2>3
    <3>2. \A i \in 1..Len(callbacks') : i + 1 # 1
      BY <2>3
    <3> QED BY <2>3, <3>1, <3>2 DEF DumpInv, QueueInv
  <2>5. n \in 1..MaxDumps /\ D!Listing(live, "part") \in Listings
    BY <1>0, <2>4, ListingTypes DEF DumpInv, DumpTypes
  <2>6. DumpTypes'
    BY <1>0, <2>2, <2>3, <2>4, <2>5 DEF DumpInv, DumpTypes
  <2>7. QueueInv'
    <3>1. \A i \in 1..Len(callbacks') : callbacks'[i] \in 1..number /\ callbacks'[i] \notin done_event
      BY <2>3 DEF DumpInv, QueueInv
    <3>2. \A i, j \in 1..Len(callbacks') : callbacks'[i] = callbacks'[j] => i = j
      <4> SUFFICES ASSUME NEW i \in 1..Len(callbacks'), NEW j \in 1..Len(callbacks'), callbacks'[i] = callbacks'[j]
                   PROVE  i = j
        OBVIOUS
      <4>1. callbacks[i + 1] = callbacks[j + 1] /\ i + 1 \in 1..Len(callbacks) /\ j + 1 \in 1..Len(callbacks)
        BY <2>3
      <4>2. i + 1 = j + 1
        BY <4>1 DEF DumpInv, QueueInv
      <4> QED BY <2>3, <4>2
    <3>3. dumper \in {"look", "ask"} => number # n /\ ~Asked(number)'
      BY <2>2, <2>3, <2>4 DEF DumpInv, QueueInv, Asked
    <3> QED BY <2>2, <2>4, <3>1, <3>2, <3>3 DEF DumpInv, QueueInv
  <2>8. AnswerInv'
    <3>1. \A m \in 1..MaxDumps : m # n => collected'[m] = collected[m]
      BY <1>0, <2>2
    <3>2. collected'[n].tasks = live
      BY <1>0, <2>2, <2>5, ListingTypes
    <3>3. dumper = "wait" => collected'[n].tasks \in moments
      BY <1>0, <3>2
    <3>4. dumper = "wait" => (number \in done_event => Good(collected'[number]))
      <4>1. number \in done_event => number # n /\ number \in 1..MaxDumps
        BY <2>4 DEF DumpInv, DumpTypes
      <4> QED BY <3>1, <4>1 DEF DumpInv, AnswerInv
    <3> QED BY <2>2, <3>3, <3>4 DEF DumpInv, AnswerInv, Good, Within
  <2>9. WrittenInv' /\ MomentsInv'
    BY <2>2 DEF DumpInv, WrittenInv, Whole, MomentsInv
  <2> QED BY <2>6, <2>7, <2>8, <2>9 DEF DumpInv
<1>15. CASE D!CollectEnds
  <2>1. PICK n \in 1..MaxDumps : n = collecting /\ n \in 1..number
    BY <1>0, <1>15 DEF D!CollectEnds, DumpInv, DumpTypes
  <2>2. /\ collecting' = 0 /\ done_event' = done_event \cup {n}
        /\ \E how \in {"asked", "none"} : collected' = [collected EXCEPT ![n].how = how]
        /\ UNCHANGED <<callbacks, number, live, ended, kept, moments, written, dumper, lines>>
    BY <1>15, <2>1 DEF D!CollectEnds
  <2>3. PICK how \in {"asked", "none"} : collected' = [collected EXCEPT ![n].how = how]
    BY <2>2
  <2>4. /\ collected' \in [1..MaxDumps -> Listings]
        /\ collected'[n].how = how /\ collected'[n].tasks = collected[n].tasks
        /\ \A m \in 1..MaxDumps : m # n => collected'[m] = collected[m]
    BY <1>0, <2>1, <2>3 DEF Listings
  <2>5. DumpTypes'
    BY <1>0, <2>1, <2>2, <2>4 DEF DumpInv, DumpTypes
  <2>6. QueueInv'
    <3>1. \A i \in 1..Len(callbacks) : callbacks[i] \in 1..number /\ callbacks[i] # 0
                                       /\ callbacks[i] \notin done_event'
      BY <1>0, <2>1, <2>2 DEF DumpInv, QueueInv
    <3>2. 0 \notin done_event'
      BY <2>1, <2>2 DEF DumpInv, DumpTypes
    <3>3. dumper \in {"look", "ask"} => number \notin done_event' /\ number # 0 /\ ~Asked(number)
      BY <1>0, <2>1, <2>2 DEF DumpInv, DumpTypes, QueueInv
    <3> QED BY <2>2, <3>1, <3>2, <3>3 DEF DumpInv, QueueInv, Asked
  <2>7. AnswerInv'
    <3>1. ASSUME dumper = "wait", number \in done_event'  PROVE Good(collected'[number])
      <4>1. CASE number = n
        <5>1. collected[n].tasks \in moments
          BY <2>1, <3>1, <4>1 DEF DumpInv, AnswerInv
        <5> QED BY <2>4, <4>1, <5>1 DEF Good
      <4>2. CASE number # n
        <5>1. number \in done_event /\ number \in 1..MaxDumps
          BY <2>2, <3>1, <4>2 DEF DumpInv, DumpTypes
        <5> QED BY <2>4, <3>1, <4>2, <5>1 DEF DumpInv, AnswerInv
      <4> QED BY <4>1, <4>2
    <3>2. dumper = "wait" => number # 0
      BY DEF DumpInv, DumpTypes
    <3> QED BY <2>2, <3>1, <3>2 DEF DumpInv, AnswerInv, Good, Within
  <2>8. WrittenInv' /\ MomentsInv'
    BY <2>2 DEF DumpInv, WrittenInv, Whole, MomentsInv
  <2> QED BY <2>5, <2>6, <2>7, <2>8 DEF DumpInv
<1>16. CASE D!ChangeTasks
  <2>1. /\ UNCHANGED <<number, collecting, done_event, callbacks, collected, kept, written, dumper, lines>>
        /\ \/ \E t \in LoopTasks \ (live \cup ended) : live' = live \cup {t} /\ ended' = ended
           \/ \E t \in live : live' = live \ {t} /\ ended' = ended \cup {t}
        /\ moments' = IF moments = {} THEN {} ELSE moments \cup {live'}
    BY <1>16 DEF D!ChangeTasks
  <2>2. /\ live' \subseteq LoopTasks /\ ended' \subseteq LoopTasks /\ live' \cap ended' = {}
        /\ ended \subseteq ended' /\ moments \subseteq moments' /\ moments' \subseteq SUBSET LoopTasks
        /\ (dumper # "idle" => live' \in moments')
    BY <1>0, <2>1
  <2>3. DumpTypes' /\ MomentsInv'
    BY <2>1, <2>2 DEF DumpInv, DumpTypes, MomentsInv
  <2>4. /\ \A l \in Listings : Good(l) => Good(l)'
        /\ (\E m \in moments : Within(kept, m)) => \E m \in moments' : Within(kept, m)'
    BY <2>1, <2>2, GoodStays
  <2>5. AnswerInv'
    <3>1. dumper = "wait" => number \in 1..MaxDumps
      BY <1>0 DEF DumpInv, DumpTypes
    <3>2. dumper = "wait" => collected[number] \in Listings
      BY <1>0, <3>1
    <3>3. dumper' = "wait" => /\ number' \in done_event' => Good(collected[number])'
                              /\ number' = collecting' => (collected[number].tasks \in moments)'
      <4> SUFFICES ASSUME dumper = "wait"
                   PROVE  /\ number \in done_event => Good(collected[number])'
                          /\ number = collecting => collected[number].tasks \in moments'
        BY <2>1
      <4>1. PICK l \in Listings : l = collected[number] /\ l = (collected[number])'
        BY <2>1, <3>2
      <4>2. /\ number \in done_event => Good(l)
            /\ number = collecting => l.tasks \in moments
        BY <4>1 DEF DumpInv, AnswerInv
      <4> QED BY <2>1, <2>2, <2>4, <4>1, <4>2 DEF Good
    <3>4. dumper = "write" => \E l \in Listings : Good(l)' /\ lines' \in {<<l>>, <<D!Busy, l>>}
      BY <2>1, <2>4 DEF DumpInv, AnswerInv
    <3>5. /\ dumper' \in {"look", "ask", "wait", "idle"} => lines' = <<>>
          /\ dumper' \in {"fallback", "copy", "filter", "every"} => lines' \in {<<>>, <<D!Busy>>}
          /\ dumper' = "filter" => \E m \in moments' : Within(kept, m)'
      BY <2>1, <2>4 DEF DumpInv, AnswerInv
    <3> QED BY <2>1, <3>3, <3>4, <3>5 DEF AnswerInv, Within
  <2>6. QueueInv' /\ WrittenInv'
    BY <2>1 DEF DumpInv, QueueInv, Asked, WrittenInv, Whole
  <2> QED BY <2>3, <2>5, <2>6 DEF DumpInv
<1>17. CASE D!TurnLoop
  <2>1. UNCHANGED <<number, collecting, done_event, collected, live, ended, kept, moments, written, dumper, lines>>
    BY <1>17 DEF D!TurnLoop
  <2>2. CASE callbacks' = callbacks
    BY <1>1, <2>1, <2>2
  <2>3. CASE callbacks' = <<>>
    <3>1. DumpTypes' /\ QueueInv' /\ MomentsInv'
      BY <2>1, <2>3 DEF DumpInv, DumpTypes, QueueInv, Asked, MomentsInv
    <3>2. AnswerInv'
      BY <2>1, <2>3 DEF DumpInv, AnswerInv, Good, Within
    <3>3. WrittenInv'
      BY <2>1 DEF DumpInv, WrittenInv, Whole
    <3> QED BY <3>1, <3>2, <3>3 DEF DumpInv
  <2> QED BY <1>17, <2>2, <2>3 DEF D!TurnLoop
<1>18. CASE D!Finalize \/ D!Signal
  BY <1>1, <1>18 DEF D!Finalize, D!Signal
<1>19. CASE UNCHANGED dumpVars
  BY <1>1, <1>19 DEF dumpVars
<1> QED BY <1>2, <1>3, <1>4, <1>5, <1>6, <1>7, <1>8, <1>9, <1>10, <1>11, <1>12, <1>13, <1>14, <1>15,
           <1>16, <1>17, <1>18, <1>19
        DEF D!Next

\* Whenever the loop answers, a dump that is written has one listing.  If
\* the loop gave it, it is of one moment of the dump; if the dump took it
\* itself, while tasks came and ended, it has none that some moment of the
\* dump had not, and lacks only those that ended since.
THEOREM DumpsWhole == Spec => []DumpWhole
<1>1. ProfiledInit => DumpInv
  BY DumpInit DEF ProfiledInit
<1>2. DumpInv /\ [Next]_vars => DumpInv'
  BY Parts, DumpNext
<1>3. DumpInv => DumpWhole
  <2> SUFFICES ASSUME DumpInv, NEW d \in written
               PROVE  LET last == d.listings[Len(d.listings)] IN
                      /\ d.listings \in {<<last>>, <<D!Busy, last>>}
                      /\ \/ last.how = "none"
                         \/ \E m \in d.moments :
                               \/ last.how = "asked" /\ last.tasks = m
                               \/ /\ last.how = "copied" /\ last.tasks \subseteq m
                                  /\ m \cap d.end \subseteq last.tasks
                               \/ last.how = "every" /\ m \subseteq last.tasks
    BY DEF DumpWhole, D!DumpWhole
  <2>1. PICK l \in Listings : /\ d.listings \in {<<l>>, <<D!Busy, l>>}
                              /\ \/ l.how = "none"
                                 \/ \E m \in d.moments :
                                       \/ l.how = "asked" /\ l.tasks = m
                                       \/ /\ l.how = "copied" /\ l.tasks \subseteq m
                                          /\ m \cap d.end \subseteq l.tasks
                                       \/ l.how = "every" /\ m \subseteq l.tasks
    BY DEF DumpInv, WrittenInv, Whole
  <2>2. d.listings[Len(d.listings)] = l
    <3>1. PICK b \in Listings : b = D!Busy
      BY ListingTypes
    <3>2. CASE d.listings = <<l>>
      BY <3>2, Tuples
    <3>3. CASE d.listings = <<b, l>>
      BY <3>3, Tuples
    <3> QED BY <2>1, <3>1, <3>2, <3>3
  <2> QED BY <2>1, <2>2
<1> QED BY <1>1, <1>2, <1>3, PTL DEF Spec

-----------------------------------------------------------------------------
(* Measurement *)

Observations == [rss : Nat \ {0}, t : Int]

MeasureTypes ==
    /\ at \in {"outside", "entered", "inside", "exit", "read", "done"}
    /\ sampled \in BOOLEAN
    /\ now \in Int /\ enter_time \in Int /\ began \in Int /\ exit_time \in Int
    /\ sampler_peak \in [rss : Nat, t : Int]
    /\ series \in Seq(Observations) /\ observed \subseteq Observations
    /\ after \in Nat /\ (at = "read" => after > 0)

\* The peak is the highest observation and the first that high; the series
\* is a part of the observations, in order, and short of a second one it
\* ends with the last.
ObservedInv ==
    /\ at \in {"outside", "entered"} \/ ~sampled => observed = {}
    /\ \A o \in observed : o.t <= now - began
    /\ observed = {} => sampler_peak.rss = 0 /\ series = <<>>
    /\ observed # {} =>
          /\ sampler_peak \in observed
          /\ \A o \in observed : /\ o.rss <= sampler_peak.rss
                                 /\ o.rss = sampler_peak.rss => sampler_peak.t <= o.t
          /\ Len(series) < 2 =>
                series # <<>> /\ \A o \in observed : o.t <= series[Len(series)].t
    /\ \A i \in 1..Len(series) : series[i] \in observed
    /\ \A i, j \in 1..Len(series) : i < j => series[i].t < series[j].t

MeasureInv == MeasureTypes /\ ObservedInv

\* The lowest member of a set is the one that exceeds no other.
LEMMA MinIs ==
  ASSUME NEW S, S \subseteq Int, NEW m \in S, \A r \in S : m <= r
  PROVE  Min(S) = m
<1>1. \A n \in S : (\A r \in S : n <= r) => n = m
  OBVIOUS
<1> QED BY <1>1 DEF Min

\* Nothing has been observed.
LEMMA MeasureInit == M!Init => MeasureInv
<1> SUFFICES ASSUME M!Init  PROVE MeasureInv
  OBVIOUS
<1>1. /\ at = "outside" /\ sampled \in BOOLEAN /\ now = 0 /\ enter_time = 0 /\ began = 0
      /\ exit_time = 0 /\ sampler_peak = [rss |-> 0, t |-> 0] /\ series = <<>> /\ after = 0
      /\ observed = {}
  BY DEF M!Init
<1>2. <<>> \in Seq(Observations) /\ Len(<<>>) = 0
  OBVIOUS
<1> QED BY <1>1, <1>2 DEF MeasureInv, MeasureTypes, ObservedInv

\* An observation, pushed onto the series or not.
LEMMA Observed ==
  ASSUME MeasureInv, sampled, NEW o \in Observations, at \notin {"outside", "entered"},
         o.t = now - began, observed' = observed \cup {o}, series' \in M!Pushed(o),
         sampler_peak' = IF o.rss > sampler_peak.rss THEN o ELSE sampler_peak,
         UNCHANGED <<at, sampled, now, enter_time, began, exit_time, after>>
  PROVE  MeasureInv'
<1>0. PICK s \in Seq(Observations), n \in Nat :
        /\ s = series /\ n = Len(s) /\ \A i \in 1..n : s[i] \in Observations
        /\ s = <<>> <=> n = 0
  <2>1. Len(series) \in Nat /\ (series = <<>> <=> Len(series) = 0)
    BY LenProperties, EmptySeq DEF MeasureInv, MeasureTypes
  <2>2. \A i \in 1..Len(series) : series[i] \in Observations
    BY ElementOfSeq DEF MeasureInv, MeasureTypes
  <2> QED BY <2>1, <2>2 DEF MeasureInv, MeasureTypes
<1>1. /\ Append(s, o) \in Seq(Observations) /\ Len(Append(s, o)) = n + 1
      /\ Append(s, o)[n + 1] = o /\ \A i \in 1..n : Append(s, o)[i] = s[i]
      /\ Append(s, o) # <<>>
  BY <1>0, AppendProperties
<1>2. /\ o.rss \in Nat \ {0} /\ o.t \in Int /\ sampler_peak.rss \in Nat /\ sampler_peak.t \in Int
      /\ \A p \in observed : p.rss \in Nat /\ p.t \in Int /\ p.t <= o.t
  BY DEF MeasureInv, MeasureTypes, ObservedInv, Observations
<1>3. \/ series' = Append(s, o) /\ (n = 0 \/ o.t > s[n].t)
      \/ series' = s /\ n > 0 /\ ~(o.t > s[n].t)
      \/ series' = s /\ n >= 2
  BY <1>0 DEF M!Pushed, M!Advanced
<1>4. MeasureTypes'
  <2>1. sampler_peak' \in [rss : Nat, t : Int]
    BY DEF MeasureInv, MeasureTypes, Observations
  <2>2. series' \in Seq(Observations) /\ observed' \subseteq Observations
    BY <1>0, <1>1, <1>3 DEF MeasureInv, MeasureTypes
  <2> QED BY <2>1, <2>2 DEF MeasureInv, MeasureTypes
<1>5. \A p \in observed' : p.t <= now' - began'
  BY <1>2
<1>6. /\ sampler_peak' \in observed'
      /\ \A p \in observed' : /\ p.rss <= sampler_peak'.rss
                              /\ p.rss = sampler_peak'.rss => sampler_peak'.t <= p.t
  <2>1. CASE observed = {}
    <3>1. sampler_peak' = o /\ observed' = {o}
      BY <1>2, <2>1 DEF MeasureInv, ObservedInv
    <3> QED BY <1>2, <3>1
  <2>2. CASE observed # {} /\ o.rss > sampler_peak.rss
    <3>1. \A p \in observed : p.rss <= sampler_peak.rss
      BY <2>2 DEF MeasureInv, ObservedInv
    <3>2. \A p \in observed : p.rss < o.rss
      BY <1>2, <2>2, <3>1
    <3>3. sampler_peak' = o
      BY <2>2
    <3> QED BY <1>2, <3>2, <3>3
  <2>3. CASE observed # {} /\ ~(o.rss > sampler_peak.rss)
    <3>1. sampler_peak' = sampler_peak /\ sampler_peak \in observed /\ o.rss <= sampler_peak.rss
      BY <1>2, <2>3 DEF MeasureInv, ObservedInv
    <3>2. sampler_peak.t <= o.t
      BY <1>2, <3>1
    <3> QED BY <2>3, <3>1, <3>2 DEF MeasureInv, ObservedInv
  <2> QED BY <2>1, <2>2, <2>3
<1>7. Len(series') < 2 => series' # <<>> /\ \A p \in observed' : p.t <= series'[Len(series')].t
  <2>1. CASE series' = Append(s, o)
    BY <1>0, <1>1, <1>2, <2>1
  <2>2. CASE series' = s /\ n > 0 /\ ~(o.t > s[n].t)
    <3>1. s[n].t \in Int
      BY <1>0, <2>2 DEF Observations
    <3>2. o.t <= s[n].t
      BY <1>2, <2>2, <3>1
    <3>3. \A p \in observed : p.t <= s[n].t
      BY <1>2, <3>1, <3>2
    <3> QED BY <1>0, <2>2, <3>2, <3>3
  <2>3. CASE series' = s /\ n >= 2
    BY <1>0, <2>3
  <2> QED BY <1>3, <2>1, <2>2, <2>3
<1>8. \A i \in 1..Len(series') : series'[i] \in observed'
  <2>1. CASE series' = s
    BY <1>0, <2>1 DEF MeasureInv, ObservedInv
  <2>2. CASE series' = Append(s, o)
    <3>1. \A i \in 1..(n + 1) : i \in 1..n \/ i = n + 1
      OBVIOUS
    <3> QED BY <1>0, <1>1, <2>2, <3>1 DEF MeasureInv, ObservedInv
  <2> QED BY <1>3, <2>1, <2>2
<1>9. \A i, j \in 1..Len(series') : i < j => series'[i].t < series'[j].t
  <2>1. CASE series' = s
    BY <1>0, <2>1 DEF MeasureInv, ObservedInv
  <2>2. CASE series' = Append(s, o) /\ (n = 0 \/ o.t > s[n].t)
    <3> SUFFICES ASSUME NEW i \in 1..(n + 1), NEW j \in 1..(n + 1), i < j
                 PROVE  series'[i].t < series'[j].t
      BY <1>1, <2>2
    <3>1. i \in 1..n /\ n > 0
      OBVIOUS
    <3>2. CASE j \in 1..n
      BY <1>0, <1>1, <2>2, <3>1, <3>2 DEF MeasureInv, ObservedInv
    <3>3. CASE j = n + 1
      <4>1. s[i].t \in Int /\ s[n].t \in Int /\ o.t > s[n].t
        BY <1>0, <2>2, <3>1 DEF Observations
      <4>2. s[i].t <= s[n].t
        BY <1>0, <3>1, <4>1 DEF MeasureInv, ObservedInv
      <4> QED BY <1>1, <1>2, <2>2, <3>1, <3>3, <4>1, <4>2
    <3> QED BY <3>2, <3>3
  <2> QED BY <1>3, <2>1, <2>2
<1>10. observed' # {}
  OBVIOUS
<1>11. ObservedInv'
  BY <1>5, <1>6, <1>7, <1>8, <1>9, <1>10 DEF ObservedInv
<1> QED BY <1>4, <1>11 DEF MeasureInv

\* Every step of a measurement keeps the invariant.
LEMMA MeasureNext == MeasureInv /\ (M!Next \/ UNCHANGED measureVars) => MeasureInv'
<1> SUFFICES ASSUME MeasureInv, M!Next \/ UNCHANGED measureVars  PROVE MeasureInv'
  OBVIOUS
<1> USE DEF M!At
<1>1. CASE M!Tick
  <2>1. \A o \in observed : o.t <= now' - began'
    BY <1>1 DEF M!Tick, MeasureInv, MeasureTypes, ObservedInv, Observations
  <2> QED BY <1>1, <2>1 DEF M!Tick, MeasureInv, MeasureTypes, ObservedInv
<1>2. CASE M!EnterTime
  BY <1>2 DEF M!EnterTime, MeasureInv, MeasureTypes, ObservedInv
<1>3. CASE M!StartSampler
  <2>1. at = "entered" /\ at' = "inside" /\ began' = now /\ observed = {} /\ sampler_peak.rss = 0 /\ series = <<>>
    BY <1>3 DEF M!StartSampler, MeasureInv, ObservedInv
  <2>2. CASE UNCHANGED <<sampler_peak, series, observed>>
    BY <1>3, <2>1, <2>2 DEF M!StartSampler, MeasureInv, MeasureTypes, ObservedInv
  <2>3. CASE sampled /\ \E r \in Sizes : LET o == [rss |-> r, t |-> 0] IN
                sampler_peak' = o /\ series' = <<o>> /\ observed' = {o}
    <3>1. PICK o \in Observations : o.t = 0 /\ sampler_peak' = o /\ series' = <<o>> /\ observed' = {o}
      BY <2>3, ProfiledAssumption DEF Observations
    <3>2. <<o>> \in Seq(Observations) /\ Len(<<o>>) = 1 /\ <<o>>[1] = o /\ <<o>> # <<>>
      OBVIOUS
    <3>3. PICK s \in Seq(Observations) : s = <<o>> /\ Len(s) = 1 /\ s[1] = o /\ s # <<>>
      BY <3>2
    <3>4. MeasureTypes'
      BY <1>3, <2>1, <3>1, <3>3 DEF M!StartSampler, MeasureInv, MeasureTypes, Observations
    <3>5. \A p \in observed' : p.t <= now' - began'
      BY <1>3, <2>1, <3>1 DEF M!StartSampler, MeasureInv, MeasureTypes
    <3>6. /\ observed' # {} /\ sampler_peak' \in observed' /\ series' # <<>> /\ Len(series') = 1
          /\ \A p \in observed' : p.rss = sampler_peak'.rss /\ p.t = sampler_peak'.t /\ p.t = series'[1].t
          /\ series'[1] \in observed'
      BY <3>1, <3>3
    <3>7. sampler_peak'.rss \in Nat /\ sampler_peak'.t \in Int
      BY <3>1 DEF Observations
    <3>8. ObservedInv'
      BY <1>3, <2>1, <2>3, <3>5, <3>6, <3>7 DEF M!StartSampler, ObservedInv
    <3> QED BY <3>4, <3>8 DEF MeasureInv
  <2> QED BY <1>3, <2>2, <2>3 DEF M!StartSampler
<1>4. CASE M!Observe
  <2>1. PICK o \in Observations :
          /\ o.t = now - began /\ observed' = observed \cup {o} /\ series' \in M!Pushed(o)
          /\ sampler_peak' = IF o.rss > sampler_peak.rss THEN o ELSE sampler_peak
    <3>1. PICK r \in Sizes : LET o == [rss |-> r, t |-> now - began] IN
            /\ observed' = observed \cup {o} /\ series' \in M!Pushed(o)
            /\ sampler_peak' = IF r > sampler_peak.rss THEN o ELSE sampler_peak
      BY <1>4 DEF M!Observe
    <3>2. now - began \in Int
      BY DEF MeasureInv, MeasureTypes
    <3>3. [rss |-> r, t |-> now - began] \in Observations
      BY <3>2, ProfiledAssumption DEF Observations
    <3> QED BY <3>1, <3>3
  <2>2. sampled /\ at \notin {"outside", "entered"}
    BY <1>4 DEF M!Observe
  <2>3. UNCHANGED <<at, sampled, now, enter_time, began, exit_time, after>>
    BY <1>4 DEF M!Observe
  <2> QED BY <2>1, <2>2, <2>3, Observed
<1>5. CASE M!ExitTime
  BY <1>5 DEF M!ExitTime, MeasureInv, MeasureTypes, ObservedInv
<1>6. CASE M!ReadAfter
  BY <1>6, ProfiledAssumption DEF M!ReadAfter, MeasureInv, MeasureTypes, ObservedInv
<1>7. CASE M!Stop
  BY <1>7 DEF M!Stop, MeasureInv, MeasureTypes, ObservedInv
<1>8. CASE UNCHANGED measureVars
  BY <1>8 DEF measureVars, MeasureInv, MeasureTypes, ObservedInv
<1> QED BY <1>1, <1>2, <1>3, <1>4, <1>5, <1>6, <1>7, <1>8 DEF M!Next

\* What a delta says of the observations: the property, of its result.
Consistent(r) ==
    LET top == {o \in observed : o.rss = r.peak} IN
    /\ after <= r.peak /\ \A o \in observed : o.rss <= r.peak
    /\ IF top # {} THEN r.at = Min({o.t : o \in top}) ELSE r.peak = after /\ r.at = M!Elapsed
    /\ \A i, j \in DOMAIN r.t : i < j => r.t[i] < r.t[j]
    /\ r.rss # <<>> /\ MaxRss(r) = r.peak => PeakAt(r) >= r.at

\* The samples of the timeline: observations in order, or, of one or none,
\* with the last snapshot after them.
LEMMA Samples ==
  ASSUME MeasureInv, at = "read", NEW s, s = IF sampled THEN M!RawSamples ELSE <<>>
  PROVE  /\ s \in Seq(Observations) /\ Len(s) \in Nat
         /\ \A i, j \in 1..Len(s) : i < j => s[i].t < s[j].t
         /\ \A i \in 1..Len(s) : \/ s[i] \in observed
                                 \/ /\ s[i] = [t |-> M!Elapsed, rss |-> after]
                                    /\ \A o \in observed : o.t <= s[i].t
<1>1. PICK q \in Seq(Observations), n \in Nat :
        /\ q = series /\ n = Len(q) /\ (q = <<>> <=> n = 0)
        /\ \A i \in 1..n : q[i] \in observed /\ q[i].t \in Int
        /\ \A i, j \in 1..n : i < j => q[i].t < q[j].t
  <2>1. Len(series) \in Nat /\ (series = <<>> <=> Len(series) = 0)
    BY LenProperties, EmptySeq DEF MeasureInv, MeasureTypes
  <2>2. \A i \in 1..Len(series) : series[i] \in Observations
    BY ElementOfSeq DEF MeasureInv, MeasureTypes
  <2>3. \A i \in 1..Len(series) : series[i] \in observed /\ series[i].t \in Int
    BY <2>2 DEF MeasureInv, ObservedInv, Observations
  <2> QED BY <2>1, <2>3 DEF MeasureInv, MeasureTypes, ObservedInv
<1>2. PICK e \in Int : e = M!Elapsed
  BY DEF M!Elapsed, MeasureInv, MeasureTypes
<1>3. PICK x \in Observations : x = [t |-> e, rss |-> after]
  <2>1. after \in Nat \ {0}
    BY DEF MeasureInv, MeasureTypes
  <2>2. [t |-> e, rss |-> after] \in Observations
    BY <2>1 DEF Observations
  <2> QED BY <2>2
<1>4. /\ Append(q, x) \in Seq(Observations) /\ Len(Append(q, x)) = n + 1
      /\ Append(q, x)[n + 1] = x /\ \A i \in 1..n : Append(q, x)[i] = q[i]
  BY <1>1, AppendProperties
<1>5. CASE s = Append(q, x) /\ n < 2 /\ e > IF n = 0 THEN 0 ELSE q[n].t
  <2>1. \A o \in observed : n > 0 /\ o.t <= q[n].t
    BY <1>1, <1>5 DEF MeasureInv, ObservedInv
  <2>2. \A o \in observed : o.t \in Int
    BY DEF MeasureInv, MeasureTypes, Observations
  <2>3. \A o \in observed : o.t <= x.t
    BY <1>1, <1>3, <1>5, <2>1, <2>2
  <2>4. \A i, j \in 1..(n + 1) : i < j => s[i].t < s[j].t
    <3> SUFFICES ASSUME NEW i \in 1..(n + 1), NEW j \in 1..(n + 1), i < j  PROVE s[i].t < s[j].t
      OBVIOUS
    <3>1. n = 1 /\ i = 1 /\ j = 2
      BY <1>5
    <3> QED BY <1>1, <1>3, <1>4, <1>5, <3>1
  <2>5. ASSUME NEW i \in 1..(n + 1)
        PROVE  \/ s[i] \in observed
               \/ s[i] = [t |-> M!Elapsed, rss |-> after] /\ \A o \in observed : o.t <= s[i].t
    <3>1. CASE i = n + 1
      BY <1>2, <1>3, <1>4, <1>5, <2>3, <3>1
    <3>2. CASE i # n + 1
      <4>1. i \in 1..n
        BY <3>2
      <4> QED BY <1>1, <1>4, <1>5, <4>1
    <3> QED BY <3>1, <3>2
  <2> QED BY <1>4, <1>5, <2>4, <2>5
<1>6. CASE s = q
  BY <1>1, <1>6
<1>7. CASE s = <<>>
  <2>0. <<>> \in Seq(Observations) /\ Len(<<>>) = 0
    OBVIOUS
  <2>1. PICK z \in Seq(Observations) : z = s /\ Len(z) = 0
    BY <1>7, <2>0
  <2>2. \A i \in 1..Len(z) : FALSE
    BY <2>1
  <2> QED BY <2>1, <2>2
<1>8. \/ s = <<>>
      \/ s = q
      \/ s = Append(q, x) /\ n < 2 /\ e > IF n = 0 THEN 0 ELSE q[n].t
  <2>1. M!RawSamples = IF n < 2 /\ e > (IF n = 0 THEN 0 ELSE q[n].t) THEN Append(q, x) ELSE q
    <3>1. (IF series = <<>> THEN 0 ELSE series[Len(series)].t) = IF n = 0 THEN 0 ELSE q[n].t
      BY <1>1
    <3> QED BY <1>1, <1>2, <1>3, <3>1 DEF M!RawSamples
  <2>2. CASE n < 2 /\ e > IF n = 0 THEN 0 ELSE q[n].t
    BY <2>1, <2>2
  <2>3. CASE ~(n < 2 /\ e > IF n = 0 THEN 0 ELSE q[n].t)
    <3>1. M!RawSamples = q
      BY <2>1, <2>3
    <3>2. sampled => s = q
      BY <3>1
    <3>3. ~sampled => s = <<>>
      OBVIOUS
    <3> QED BY <3>2, <3>3, Zenon
  <2> QED BY <2>2, <2>3
<1> QED BY <1>5, <1>6, <1>7, <1>8

\* The delta that stop() computes is consistent with what was observed.
LEMMA StopConsistent ==
  ASSUME MeasureInv, M!Stop
  PROVE  Consistent(result')
<1>1. PICK s : s = IF sampled THEN M!RawSamples ELSE <<>>
  OBVIOUS
<1>2. at = "read" /\ after \in Nat \ {0}
  BY DEF M!Stop, M!At, MeasureInv, MeasureTypes
<1>3. /\ s \in Seq(Observations) /\ Len(s) \in Nat
      /\ \A i, j \in 1..Len(s) : i < j => s[i].t < s[j].t
      /\ \A i \in 1..Len(s) : \/ s[i] \in observed
                              \/ /\ s[i] = [t |-> M!Elapsed, rss |-> after]
                                 /\ \A o \in observed : o.t <= s[i].t
  BY <1>1, <1>2, Samples
<1>4. PICK ts, ms : ts = [i \in DOMAIN s |-> s[i].t] /\ ms = [i \in DOMAIN s |-> s[i].rss]
  OBVIOUS
<1>5. result' = [peak |-> IF M!AfterIsPeak THEN after ELSE sampler_peak.rss,
                 at |-> IF M!AfterIsPeak THEN M!Elapsed ELSE M!PeakAtMs, t |-> ts, rss |-> ms]
  BY <1>1, <1>4 DEF M!Stop, M!FromSamples
<1>6. PICK r : r = result'
  OBVIOUS
<1>7. /\ r.peak = (IF after > sampler_peak.rss THEN after ELSE sampler_peak.rss)
      /\ r.at = (IF after > sampler_peak.rss THEN M!Elapsed ELSE M!PeakAtMs)
      /\ r.t = ts /\ r.rss = ms
  BY <1>5, <1>6 DEF M!AfterIsPeak
<1>8. /\ sampler_peak.rss \in Nat /\ sampler_peak.t \in Int /\ M!Elapsed \in Int
      /\ \A o \in observed : o.rss \in Nat \ {0} /\ o.t \in Int
  BY DEF MeasureInv, MeasureTypes, Observations, M!Elapsed
<1>9. /\ observed = {} => sampler_peak.rss = 0
      /\ observed # {} => sampler_peak \in observed
      /\ \A o \in observed : /\ o.rss <= sampler_peak.rss
                             /\ o.rss = sampler_peak.rss => sampler_peak.t <= o.t
  BY DEF MeasureInv, ObservedInv
<1>10. r.peak \in Nat \ {0} /\ after <= r.peak /\ \A o \in observed : o.rss <= r.peak
  BY <1>2, <1>7, <1>8, <1>9
<1> DEFINE top == {o \in observed : o.rss = r.peak}
<1>11. IF top # {} THEN r.at = Min({o.t : o \in top}) ELSE r.peak = after /\ r.at = M!Elapsed
  <2>1. CASE after > sampler_peak.rss
    <3>1. r.peak = after /\ r.at = M!Elapsed
      BY <1>7, <2>1
    <3>2. \A o \in observed : o.rss # r.peak
      BY <1>2, <1>8, <1>9, <2>1, <3>1
    <3> QED BY <3>1, <3>2
  <2>2. CASE ~(after > sampler_peak.rss)
    <3>1. sampler_peak.rss > 0 /\ sampler_peak \in observed
      BY <1>2, <1>8, <1>9, <2>2
    <3>2. r.peak = sampler_peak.rss /\ r.at = sampler_peak.t
      BY <1>7, <2>2, <3>1 DEF M!PeakAtMs
    <3>3. PICK S : S = {o.t : o \in top}
      OBVIOUS
    <3>4. S \subseteq Int /\ sampler_peak.t \in S /\ \A t \in S : sampler_peak.t <= t
      BY <1>8, <1>9, <3>1, <3>2, <3>3
    <3>5. Min(S) = sampler_peak.t
      BY <3>4, MinIs
    <3> QED BY <3>1, <3>2, <3>3, <3>5
  <2> QED BY <2>1, <2>2
<1>12. DOMAIN s = 1..Len(s)
  BY <1>3, LenProperties
<1>13. \A i, j \in DOMAIN r.t : i < j => r.t[i] < r.t[j]
  BY <1>3, <1>4, <1>7, <1>12
<1>14. ASSUME r.rss # <<>>, MaxRss(r) = r.peak  PROVE PeakAt(r) >= r.at
  <2>1. \A i \in 1..Len(s) : s[i] \in Observations
    BY <1>3, ElementOfSeq
  <2>2. /\ ms \in Seq(Nat) /\ Len(ms) = Len(s) /\ ts \in Seq(Int) /\ Len(ts) = Len(s)
        /\ \A i \in 1..Len(s) : ts[i] = s[i].t /\ ms[i] = s[i].rss
    <3>1. \A i \in 1..Len(s) : s[i].rss \in Nat /\ s[i].t \in Int
      BY <2>1 DEF Observations
    <3>2. ts = [i \in 1..Len(s) |-> s[i].t] /\ ms = [i \in 1..Len(s) |-> s[i].rss]
      BY <1>4, <1>12
    <3> QED BY <1>3, <3>1, <3>2
  <2>3. PICK i \in 1..Len(s) : i = PeakIndex(r) /\ ms[i] = r.peak
    BY <1>7, <1>14, <2>2, PeakFound
  <2>4. PeakAt(r) = s[i].t /\ s[i].rss = r.peak
    BY <1>3, <1>7, <1>14, <2>2, <2>3 DEF PeakAt
  <2>5. s[i].t \in Int
    BY <2>1 DEF Observations
  <2>6. CASE s[i] \in observed
    <3>1. ~(after > sampler_peak.rss)
      BY <1>2, <1>7, <1>8, <1>9, <2>4, <2>6
    <3>2. r.peak = sampler_peak.rss /\ r.at = sampler_peak.t
      BY <1>7, <1>10, <3>1 DEF M!PeakAtMs
    <3> QED BY <1>8, <1>9, <2>4, <2>5, <2>6, <3>2
  <2>7. CASE s[i] = [t |-> M!Elapsed, rss |-> after] /\ \A o \in observed : o.t <= s[i].t
    <3>1. CASE after > sampler_peak.rss
      BY <1>7, <1>8, <2>4, <2>7, <3>1
    <3>2. CASE ~(after > sampler_peak.rss)
      <4>1. r.at = sampler_peak.t /\ sampler_peak \in observed
        BY <1>2, <1>7, <1>8, <1>9, <3>2 DEF M!PeakAtMs
      <4> QED BY <1>8, <2>4, <2>5, <2>7, <4>1
    <3> QED BY <3>1, <3>2
  <2> QED BY <1>3, <2>6, <2>7
<1> QED BY <1>6, <1>10, <1>11, <1>13, <1>14 DEF Consistent

\* However many readings the sampler takes, and between whichever of the
\* reads of __exit__, the delta's peak, time and timeline agree.
THEOREM MeasurementConsistent == Spec => []PeakConsistent
<1> DEFINE Right == at = "done" => Consistent(result)
<1>1. ProfiledInit => MeasureInv /\ Right
  <2>1. M!Init => at = "outside"
    BY DEF M!Init
  <2> QED BY <2>1, MeasureInit DEF ProfiledInit
<1>2. MeasureInv /\ [Next]_vars => MeasureInv'
  BY Parts, MeasureNext
<1>3. MeasureInv /\ Right /\ [Next]_vars => Right'
  <2> SUFFICES ASSUME MeasureInv, Right, M!Next \/ UNCHANGED measureVars  PROVE Right'
    BY Parts
  <2>1. CASE M!Stop
    <3>1. UNCHANGED <<sampled, now, enter_time, began, exit_time, sampler_peak, series, after, observed>>
      BY <2>1 DEF M!Stop
    <3>2. Consistent(result')
      BY <2>1, StopConsistent
    <3> QED BY <3>1, <3>2 DEF Consistent, M!Elapsed
  <2>2. CASE UNCHANGED measureVars
    BY <2>2 DEF measureVars, Consistent, M!Elapsed
  <2>3. CASE M!Tick \/ M!EnterTime \/ M!StartSampler \/ M!Observe \/ M!ExitTime \/ M!ReadAfter
    <3>1. at' # "done"
      BY <2>3 DEF M!Tick, M!EnterTime, M!StartSampler, M!Observe, M!ExitTime, M!ReadAfter, M!At
    <3> QED BY <3>1
  <2> QED BY <2>1, <2>2, <2>3 DEF M!Next
<1>4. Right => PeakConsistent
  <2>1. \A r : M!TL!MaxRss(r) = MaxRss(r) /\ M!TL!PeakAt(r) = PeakAt(r)
    BY DEF M!TL!MaxRss, MaxRss, M!TL!PeakAt, PeakAt, M!TL!PeakIndex, PeakIndex, M!TL!Max, Max
  <2>2. \A S : M!Min(S) = Min(S)
    BY DEF M!Min, Min
  <2> QED BY <2>1, <2>2 DEF PeakConsistent, M!PeakConsistent, Consistent
<1> HIDE DEF Right
<1> QED BY <1>1, <1>2, <1>3, <1>4, PTL DEF Spec
=============================================================================
