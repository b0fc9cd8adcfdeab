------------------------------ MODULE Commands ------------------------------
(***************************************************************************)
(* The commands of src/proctrace/cli/commands.py that deal with a process: *)
(* "run", which starts it, samples it and reports; "watch", which polls it *)
(* by its pid; "dump", which sends it a signal.  The child is external: it *)
(* changes its memory, writes its allocation report when it exits, and     *)
(* ends by itself or by a signal.  An exited child is a zombie until it is *)
(* waited for, except under an inherited SIGCHLD = SIG_IGN (autoreap).     *)
(***************************************************************************)
EXTENDS Timeline

CONSTANTS
    Rss,             \* memory the child may have
    OwnDelta,        \* what this process grew by during the run
    Codes,           \* codes the child may exit with
    MaxSamples,      \* bound: samples of one watch
    MaxAllocs        \* bound: changes of the child's memory

Killed == -10        \* returncode of a child ended by the signal of dump
None == -99

ASSUME CommandsAssumption ==
    /\ Rss \subseteq Nat \ {0} /\ Codes \subseteq 0..255
    /\ OwnDelta \in Int /\ MaxSamples \in Nat /\ MaxAllocs \in Nat

VARIABLES
    pc,              \* where cmd_run is
    attribution,     \* run --attribution
    autoreap,
    temp,            \* the temporary directory exists
    peak, target,    \* peak_rss_bytes, target_rss_bytes
    returncode,
    report,          \* what is printed: the rss delta, the allocations
    child,           \* state, memory, exit code, its allocation report
    allocs,          \* history: changes of the child's memory
    seen,            \* history: memory read from the live child
    wpc, cols,       \* cmd_watch: where it is, its four lists
    summary,         \* what cmd_watch prints
    readings         \* history: when cmd_watch read what

runVars == <<pc, attribution, autoreap, temp, peak, target, returncode, report, seen>>
childVars == <<child, allocs>>
watchVars == <<wpc, cols, summary, readings>>
cmdVars == <<runVars, childVars, watchVars>>

NoChild == [state |-> "none", rss |-> 0, code |-> None, out |-> "no"]
NoReport == [delta |-> None, allocations |-> FALSE]

Init ==
    /\ pc = "start" /\ attribution \in BOOLEAN /\ autoreap \in BOOLEAN
    /\ temp = FALSE /\ peak = 0 /\ target = 0 /\ returncode = None /\ report = NoReport
    /\ child = NoChild /\ allocs = 0 /\ seen = {}
    /\ wpc = "loop" /\ cols = [t |-> <<>>, rss |-> <<>>, vms |-> 0, fds |-> 0]
    /\ summary = None /\ readings = <<>>

-----------------------------------------------------------------------------
(* cmd_run *)

RunStep(from, to) == pc = from /\ pc' = to
KeepRun == UNCHANGED <<attribution, autoreap>>

\* rmtree() of the finally clause, on every way out of the try block.
Cleanup == temp' = FALSE

MakeDir ==
    /\ pc = "start"
    /\ IF attribution THEN pc' = "prepare" /\ temp' = TRUE
                      ELSE pc' = "before" /\ UNCHANGED temp
    /\ KeepRun /\ UNCHANGED <<peak, target, returncode, report, seen, childVars, watchVars>>

\* sitecustomize.py and the environment; then the first snapshot.
Prepare ==
    /\ RunStep("prepare", "before") \/ RunStep("before", "spawn")
    /\ KeepRun /\ UNCHANGED <<temp, peak, target, returncode, report, seen, childVars, watchVars>>

\* Writing or the snapshot raises, or Ctrl-C comes, ahead of the try block,
\* whose finally clause is not run.
PrepareFails ==
    /\ RunStep("prepare", "failed") \/ RunStep("before", "failed")
    /\ KeepRun /\ UNCHANGED <<temp, peak, target, returncode, report, seen, childVars, watchVars>>

Spawn ==
    /\ RunStep("spawn", "poll")
    /\ \E m \in Rss : child' = [NoChild EXCEPT !.state = "alive", !.rss = m]
    /\ KeepRun
    /\ UNCHANGED <<temp, peak, target, returncode, report, seen, allocs, watchVars>>

\* FileNotFoundError gives 127; any other error leaves through finally.
SpawnFails ==
    /\ \/ RunStep("spawn", "done") /\ returncode' = 127
       \/ RunStep("spawn", "raised") /\ UNCHANGED returncode
    /\ Cleanup /\ KeepRun /\ UNCHANGED <<peak, target, report, seen, childVars, watchVars>>

\* wait4(WNOHANG): nothing yet.
PollRunning ==
    /\ RunStep("poll", "read") /\ child.state = "alive"
    /\ KeepRun /\ UNCHANGED <<temp, peak, target, returncode, report, seen, childVars, watchVars>>

\* wait4() reaps the child; without one to reap it raises ChildProcessError,
\* and Popen.wait() then settles for a return code of 0.
PollEnded ==
    /\ RunStep("poll", "after") /\ child.state \in {"zombie", "gone"}
    /\ returncode' = IF child.state = "zombie" THEN child.code ELSE 0
    /\ child' = [child EXCEPT !.state = "gone"]
    /\ KeepRun /\ UNCHANGED <<temp, peak, target, report, seen, allocs, watchVars>>

\* VmRSS of the child: none for a zombie, no file for one that is gone.
ReadMem == IF child.state = "alive" THEN child.rss ELSE 0

\* Bug: the last reading takes the place of the peak.
LastReading == ReadMem

\* Bug: the peak is compared with the reading before.
PreviousPeak == IF target > peak THEN target ELSE peak

NewPeak == IF ReadMem > peak THEN ReadMem ELSE peak

Read ==
    /\ RunStep("read", "poll")
    /\ IF child.state = "gone" THEN UNCHANGED <<peak, target>>
       ELSE peak' = NewPeak /\ target' = ReadMem
    /\ seen' = IF child.state = "alive" THEN seen \cup {ReadMem} ELSE seen
    /\ KeepRun /\ UNCHANGED <<temp, returncode, report, childVars, watchVars>>

RssDelta == IF peak > 0 THEN peak ELSE IF target > 0 THEN target ELSE OwnDelta

\* The last snapshot, the child's allocation report, the printed result.
Finish ==
    /\ RunStep("after", "done")
    /\ report' = [delta |-> RssDelta, allocations |-> attribution /\ child.out = "whole"]
    /\ Cleanup /\ KeepRun /\ UNCHANGED <<peak, target, returncode, seen, childVars, watchVars>>

\* Bug: an interrupted run leaves its directory.
NoCleanup ==
    /\ \E p \in {"spawn", "poll", "read", "after"} : RunStep(p, "raised")
    /\ KeepRun /\ UNCHANGED <<temp, peak, target, returncode, report, seen, childVars, watchVars>>

\* Ctrl-C, or the last snapshot raises: the child is not waited for.
RunFails ==
    /\ \E p \in {"spawn", "poll", "read", "after"} : RunStep(p, "raised")
    /\ Cleanup /\ KeepRun
    /\ UNCHANGED <<peak, target, returncode, report, seen, childVars, watchVars>>

Run == \/ MakeDir \/ Prepare \/ PrepareFails \/ Spawn \/ SpawnFails
       \/ PollRunning \/ PollEnded \/ Read \/ Finish \/ RunFails

-----------------------------------------------------------------------------
(* The child *)

Ended(code) == child' = [child EXCEPT !.state = IF autoreap THEN "gone" ELSE "zombie", !.code = code]

Alloc ==
    /\ child.state = "alive" /\ allocs < MaxAllocs /\ allocs' = allocs + 1
    /\ \E m \in Rss \ {child.rss} : child' = [child EXCEPT !.rss = m]
    /\ UNCHANGED <<runVars, watchVars>>

\* The exit hook of sitecustomize.py, which opens the file and then fills it.
WriteAllocations ==
    /\ child.state = "alive" /\ attribution /\ temp
    /\ \/ child.out = "no" /\ child' = [child EXCEPT !.out = "partial"]
       \/ child.out = "partial" /\ child' = [child EXCEPT !.out = "whole"]
    /\ UNCHANGED <<allocs, runVars, watchVars>>

Exit ==
    /\ child.state = "alive" /\ child.out # "partial" /\ \E c \in Codes : Ended(c)
    /\ UNCHANGED <<allocs, runVars, watchVars>>

\* cmd_dump: os.kill() with SIGUSR1, which ends a child that has not installed
\* a handler for it (one that has goes on, see SignalHandlers).
Dump ==
    /\ child.state = "alive" /\ Ended(Killed)
    /\ UNCHANGED <<allocs, runVars, watchVars>>

-----------------------------------------------------------------------------
(* cmd_watch *)

WatchStep(from, to) == wpc = from /\ wpc' = to

\* One more turn: the time, then the memory of the pid, 0 for a zombie.
WatchRead ==
    /\ wpc = "loop" /\ child.state \in {"alive", "zombie"} /\ Len(cols.t) < MaxSamples /\ wpc' = "time"
    /\ readings' = Append(readings, [t |-> Len(readings) + 1, rss |-> ReadMem])
    /\ UNCHANGED <<cols, summary, runVars, childVars>>

LastRead == readings[Len(readings)]
AddTime == cols' = [cols EXCEPT !.t = Append(@, LastRead.t)]
AddRss == cols' = [cols EXCEPT !.rss = Append(@, LastRead.rss)]

\* Bug: the memory is appended ahead of its time.
RssFirst ==
    /\ \/ WatchStep("time", "rss") /\ AddRss
       \/ WatchStep("rss", "vms") /\ AddTime
       \/ WatchStep("vms", "fds") /\ cols' = [cols EXCEPT !.vms = @ + 1]
       \/ WatchStep("fds", "loop") /\ cols' = [cols EXCEPT !.fds = @ + 1]
    /\ UNCHANGED <<summary, readings, runVars, childVars>>

\* The four appends, one after the other.
WatchAppend ==
    /\ \/ WatchStep("time", "rss") /\ AddTime
       \/ WatchStep("rss", "vms") /\ AddRss
       \/ WatchStep("vms", "fds") /\ cols' = [cols EXCEPT !.vms = @ + 1]
       \/ WatchStep("fds", "loop") /\ cols' = [cols EXCEPT !.fds = @ + 1]
    /\ UNCHANGED <<summary, readings, runVars, childVars>>

\* The process is gone or the time is up, both seen at the top of the loop;
\* or Ctrl-C, which may come anywhere.  The finally clause summarises.
WatchEnds ==
    /\ wpc # "ended" /\ child.state # "none" /\ wpc' = "ended"
    /\ summary' = [peak |-> MaxRss(cols), at |-> PeakAt(cols)]
    /\ UNCHANGED <<cols, readings, runVars, childVars>>

Watch == WatchRead \/ WatchAppend \/ WatchEnds

-----------------------------------------------------------------------------
(* The types of the variables of cmd_run, cmd_watch and the child; memory  *)
(* is read into target only after it has counted for the peak, so that the *)
(* second branch of rss_delta is never the one that decides.               *)
TypeOK ==
    /\ pc \in {"start", "prepare", "before", "spawn", "poll", "read", "after",
           "failed", "done", "raised"}
    /\ {attribution, autoreap, temp} \subseteq BOOLEAN
    /\ peak \in Rss \cup {0} /\ target \in Rss \cup {0} /\ target <= peak
    /\ returncode \in Codes \cup {None, Killed, 0, 127}
    /\ report \in [delta : Rss \cup {None, OwnDelta}, allocations : BOOLEAN]
    /\ child \in [state : {"none", "alive", "zombie", "gone"}, rss : Rss \cup {0},
                  code : Codes \cup {None, Killed}, out : {"no", "partial", "whole"}]
    /\ allocs \in 0..MaxAllocs /\ seen \subseteq Rss
    /\ wpc \in {"loop", "time", "rss", "vms", "fds", "ended"}

(***************************************************************************)
(* A run that ends reports the highest memory it read from the live child, *)
(* not what it read once the child was a zombie, its own growth only if it *)
(* read none, and the child's own exit code; allocations only from a       *)
(* report that the child finished (cmd_run).  Excepted is a run under an   *)
(* ignored SIGCHLD, which cannot know the code.                            *)
(***************************************************************************)
ReportIsChilds ==
    pc = "done" /\ returncode # 127 =>
        /\ report.delta = IF seen = {} THEN OwnDelta ELSE Max(seen)
        /\ autoreap \/ returncode = child.code
        /\ report.allocations => child.out = "whole" /\ child.code # None

(***************************************************************************)
(* A run that has come to its try block and ended, in whatever way, has    *)
(* removed its directory; until then the directory stays, so that a child  *)
(* always finds it to write its report to, unless Ctrl-C left the child    *)
(* behind (cmd_run).  A run that fails before that block leaves it.        *)
(***************************************************************************)
TempRemoved ==
    /\ pc \in {"done", "raised"} => ~temp
    /\ child.state = "alive" /\ pc # "raised" => temp = attribution

(***************************************************************************)
(* Wherever Ctrl-C interrupts a watch between its four appends, the        *)
(* summary still gives the highest memory it recorded, at the time it was  *)
(* read, and no list is shorter than the one appended after it (cmd_watch, *)
(* Timeline.peak_at_ms).                                                   *)
(***************************************************************************)
SummaryRight ==
    /\ Len(cols.t) >= Len(cols.rss) /\ Len(cols.rss) >= cols.vms /\ cols.vms >= cols.fds
    /\ wpc = "ended" /\ cols.rss # <<>> =>
          \E i \in 1..Len(cols.rss) :
              /\ summary.peak = readings[i].rss /\ summary.at = readings[i].t
              /\ \A j \in 1..Len(cols.rss) : readings[j].rss <= readings[i].rss
=============================================================================
