------------------------------- MODULE Probes -------------------------------
(***************************************************************************)
(* One function decorated with @probe (src/proctrace/telemetry/            *)
(* decorators.py) and its storage of last results: per asyncio task and    *)
(* per thread.  A caller is a task of an event loop, or the plain code of  *)
(* a thread.  Calls of tasks overlap at their awaits; deltas are numbered. *)
(***************************************************************************)
EXTENDS Integers

CONSTANTS
    Tasks, Plain,          \* callers that are tasks, and callers that are not
    ThreadOf,              \* the thread of each caller
    Warmup,                \* warm-up calls before the measured one
    MaxCalls, MaxTasks     \* bounds: measured calls; tasks that follow another

Callers == Tasks \cup Plain
Unset == 0

VARIABLES
    calls,          \* calls[c]: what c's call is doing
    task_results,   \* the weak dictionary, by task
    thread_value,   \* the thread-local value
    issued,         \* deltas computed so far
    tasks,          \* tasks that took over from an ended one
    own, by         \* history: the last result each caller got; who got which

probeVars == <<calls, task_results, thread_value, issued, tasks, own, by>>

Init ==
    /\ calls = [c \in Callers |-> [at |-> "idle", left |-> 0]]
    /\ task_results = [c \in Tasks |-> Unset]
    /\ thread_value = [h \in {ThreadOf[c] : c \in Callers} |-> Unset]
    /\ issued = 0 /\ tasks = 0
    /\ own = [c \in Callers |-> Unset] /\ by = [n \in 1..MaxCalls |-> "nobody"]

\* Bug: the thread's value is looked at first.
GetThread(c) == thread_value[ThreadOf[c]]

\* _ProbeResultStorage.get()
Get(c) ==
    IF c \in Tasks /\ task_results[c] # Unset
    THEN task_results[c] ELSE thread_value[ThreadOf[c]]

\* _ProbeResultStorage.set(): for the task, if there is one, and the thread.
Set(c, n) ==
    /\ task_results' = IF c \in Tasks THEN [task_results EXCEPT ![c] = n] ELSE task_results
    /\ thread_value' = [thread_value EXCEPT ![ThreadOf[c]] = n]

\* Plain code of a thread runs only while the thread's loop does not.
MayCall(c) ==
    c \in Plain => \A t \in Tasks : ThreadOf[t] = ThreadOf[c] => calls[t].at = "idle"

Call(c) ==
    /\ calls[c].at = "idle" /\ MayCall(c) /\ issued < MaxCalls
    /\ calls' = [calls EXCEPT ![c] = [at |-> "warmup", left |-> Warmup]]
    /\ UNCHANGED <<task_results, thread_value, issued, tasks, own, by>>

\* One unmeasured call, or the watcher is entered.
Proceed(c) ==
    /\ calls[c].at = "warmup"
    /\ calls' = [calls EXCEPT ![c] = IF @.left > 0 THEN [@ EXCEPT !.left = @ - 1]
                                     ELSE [@ EXCEPT !.at = "measured"]]
    /\ UNCHANGED <<task_results, thread_value, issued, tasks, own, by>>

\* The watcher has a delta, _publish_result() stores it for the caller.
Return(c) ==
    /\ calls[c].at = "measured" /\ issued < MaxCalls
    /\ calls' = [calls EXCEPT ![c].at = "idle"]
    /\ issued' = issued + 1 /\ Set(c, issued + 1)
    /\ own' = [own EXCEPT ![c] = issued + 1] /\ by' = [by EXCEPT ![issued + 1] = c]
    /\ UNCHANGED tasks

\* The function raises, warming up or measured: nothing is published.
Raise(c) ==
    /\ calls[c].at \in {"warmup", "measured"}
    /\ calls' = [calls EXCEPT ![c] = [at |-> "idle", left |-> 0]]
    /\ UNCHANGED <<task_results, thread_value, issued, tasks, own, by>>

\* A task ends and is collected; c stands for the next one from here on.
EndTask(c) ==
    /\ c \in Tasks /\ calls[c].at = "idle" /\ tasks < MaxTasks /\ tasks' = tasks + 1
    /\ task_results' = [task_results EXCEPT ![c] = Unset] /\ own' = [own EXCEPT ![c] = Unset]
    /\ UNCHANGED <<calls, thread_value, issued, by>>

Next == \E c \in Callers : Call(c) \/ Proceed(c) \/ Return(c) \/ Raise(c) \/ EndTask(c)

(***************************************************************************)
(* However the calls of other tasks overlap with its own, a task that got  *)
(* a result reads that one, its last, as last_probe_result; and nobody     *)
(* reads a result obtained in another thread (_ProbeResultStorage).        *)
(***************************************************************************)
OwnResult ==
    /\ \A c \in Tasks : own[c] # Unset => Get(c) = own[c]
    /\ \A c \in Callers : Get(c) # Unset => ThreadOf[by[Get(c)]] = ThreadOf[c]
=============================================================================
