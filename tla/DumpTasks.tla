------------------------------ MODULE DumpTasks -----------------------------
(***************************************************************************)
(* do_dump of src/proctrace/diagnostics/dump.py, run by the watcher thread *)
(* of a signal handler (SignalHandlers has it as one step), and the event  *)
(* loop whose tasks it lists.  The loop is asked first, and has half a     *)
(* second to answer; then the thread takes the list itself, while the      *)
(* loop's thread creates and ends tasks.                                   *)
(***************************************************************************)
EXTENDS Integers, Sequences

CONSTANTS
    LoopTasks,     \* tasks of the loop, each created and ended once at most
    MaxDumps       \* bound

VARIABLES
    given,         \* install_signal_handler was given the loop
    loop,          \* it is running, idle or closed
    finalizing,    \* sys.is_finalizing()
    pending,       \* bytes in the watcher's pipe
    dumper,        \* where do_dump is
    number,        \* the dumps begun
    live, ended,   \* tasks that are not done(), and that are
    kept, checking,  \* all_tasks() of the dump: its copy, less the tasks found
                     \* done; those it has yet to look at
    callbacks,     \* the dumps whose _collect_tasks the loop has yet to run
    collecting,    \* the dump whose _collect_tasks it is in
    collected,     \* collected[n]: the list, and how much of it is formatted
    done_event,    \* the dumps whose done_event is set
    lines,         \* the listings of the dump under way, "busy" among them
    moments,       \* history: what live was since the dump under way began
    written        \* history: the last dump, if it was written

dumpVars == <<given, loop, finalizing, pending, dumper, number, live, ended, kept, checking,
              callbacks, collecting, collected, done_event, lines, moments, written>>

Listing(tasks, how) == [tasks |-> tasks, how |-> how]
Busy == Listing({}, "busy")
Nothing == Listing({}, "not begun")

Init ==
    /\ given \in BOOLEAN /\ loop = "running" /\ finalizing = FALSE
    /\ pending = FALSE /\ dumper = "idle" /\ number = 0
    /\ live = {} /\ ended = {} /\ kept = {} /\ checking = {}
    /\ callbacks = <<>> /\ collecting = 0
    /\ collected = [n \in 1..MaxDumps |-> Nothing] /\ done_event = {}
    /\ lines = <<>> /\ moments = {} /\ written = {}

listVars == <<kept, checking>>
loopVars == <<callbacks, collecting, collected, done_event>>
stateVars == <<loop, finalizing, live, ended>>

-----------------------------------------------------------------------------
(* The watcher thread *)

DumpStep(from, to) == dumper = from /\ dumper' = to

\* The threads are listed first; then, if asked for, the tasks.
Begin ==
    /\ dumper = "idle" /\ pending /\ number < MaxDumps /\ pending' = FALSE /\ written' = {}
    /\ IF finalizing THEN UNCHANGED <<dumper, number, moments>>
                     ELSE dumper' = "look" /\ number' = number + 1 /\ moments' = {live}
    /\ UNCHANGED <<given, stateVars, loopVars, listVars, lines>>

\* is_running() of the loop it was given.
Look ==
    /\ DumpStep("look", IF given /\ loop = "running" THEN "ask" ELSE "fallback")
    /\ UNCHANGED <<given, stateVars, loopVars, listVars, pending, number, lines, moments, written>>

\* call_soon_threadsafe(), which raises when the loop has been closed.
Ask ==
    /\ IF loop = "closed" THEN DumpStep("ask", "fallback") /\ UNCHANGED callbacks
                          ELSE DumpStep("ask", "wait") /\ callbacks' = Append(callbacks, number)
    /\ UNCHANGED <<given, stateVars, listVars, collecting, collected, done_event,
                   pending, number, lines, moments, written>>

Answered ==
    /\ number \in done_event /\ DumpStep("wait", "write") /\ lines' = Append(lines, collected[number])
    /\ UNCHANGED <<given, stateVars, loopVars, listVars, pending, number, moments, written>>

\* Bug: it then makes do with what the loop has collected so far.
TakesPart ==
    /\ number \notin done_event /\ DumpStep("wait", "write") /\ lines' = Append(lines, collected[number])
    /\ UNCHANGED <<given, stateVars, loopVars, listVars, pending, number, moments, written>>

\* done_event.wait() gives up.  The answer may still come.
TimesOut ==
    /\ number \notin done_event /\ DumpStep("wait", "fallback") /\ lines' = Append(lines, Busy)
    /\ UNCHANGED <<given, stateVars, loopVars, listVars, pending, number, moments, written>>

\* The tasks of the loop it was given, unless that is closed; or of all loops.
Fallback ==
    /\ DumpStep("fallback", IF given /\ loop # "closed" THEN "copy" ELSE "every")
    /\ UNCHANGED <<given, stateVars, loopVars, listVars, pending, number, lines, moments, written>>

\* all_tasks() of a loop copies the set of tasks, and starts the copy again
\* when the set changes meanwhile; done ones of the copy never come through.
Copy ==
    /\ DumpStep("copy", "filter") /\ kept' = live /\ checking' = live
    /\ UNCHANGED <<given, stateVars, loopVars, pending, number, lines, moments, written>>

\* It then asks one task after the other whether it is done().
CheckDone ==
    /\ dumper = "filter"
    /\ \E t \in checking : checking' = checking \ {t} /\ kept' = kept \ ({t} \cap ended)
    /\ UNCHANGED <<given, stateVars, loopVars, pending, dumper, number, lines, moments, written>>

Filtered ==
    /\ checking = {} /\ DumpStep("filter", "write")
    /\ lines' = Append(lines, Listing(kept, "copied")) /\ kept' = {}
    /\ UNCHANGED <<given, stateVars, loopVars, checking, pending, number, moments, written>>

\* The copy of the set of all tasks has done ones that are not freed, too.
CopyEvery ==
    /\ DumpStep("every", "write")
    /\ \E old \in SUBSET ended : lines' = Append(lines, Listing(live \cup old, "every"))
    /\ UNCHANGED <<given, stateVars, loopVars, listVars, pending, number, moments, written>>

\* Either copy raises, the set changing all the time; there is no such set.
CannotCopy ==
    /\ DumpStep("copy", "write") \/ DumpStep("every", "write")
    /\ lines' = Append(lines, Listing({}, "none"))
    /\ UNCHANGED <<given, stateVars, loopVars, listVars, pending, number, moments, written>>

Write ==
    /\ DumpStep("write", "idle") /\ lines' = <<>> /\ moments' = {}
    /\ written' = IF finalizing THEN {}
                  ELSE {[listings |-> lines, moments |-> moments, end |-> live]}
    /\ UNCHANGED <<given, stateVars, loopVars, listVars, pending, number>>

dumperVars == <<listVars, pending, dumper, number, lines, written>>

-----------------------------------------------------------------------------
(* The loop's thread *)

\* _collect_tasks: the list of tasks, which is then formatted task by task.
Collect ==
    /\ loop = "running" /\ collecting = 0 /\ callbacks # <<>>
    /\ collecting' = Head(callbacks) /\ callbacks' = Tail(callbacks)
    /\ collected' = [collected EXCEPT ![Head(callbacks)] = Listing(live, "part")]
    /\ UNCHANGED <<given, stateVars, done_event, dumperVars, moments>>

CollectEnds ==
    /\ collecting # 0 /\ collecting' = 0
    /\ \E how \in {"asked", "none"} : collected' = [collected EXCEPT ![collecting].how = how]
    /\ done_event' = done_event \cup {collecting}
    /\ UNCHANGED <<given, stateVars, callbacks, dumperVars, moments>>

\* A callback of the program, which creates a task or ends one.
ChangeTasks ==
    /\ loop = "running" /\ collecting = 0
    /\ \/ \E t \in LoopTasks \ (live \cup ended) : live' = live \cup {t} /\ UNCHANGED ended
       \/ \E t \in live : live' = live \ {t} /\ ended' = ended \cup {t}
    /\ moments' = IF moments = {} THEN {} ELSE moments \cup {live'}
    /\ UNCHANGED <<given, loop, finalizing, loopVars, dumperVars>>

\* The loop stops, is run again, or is closed, its callbacks forgotten.
TurnLoop ==
    /\ collecting = 0
    /\ \/ loop = "running" /\ loop' = "idle" /\ UNCHANGED callbacks
       \/ loop = "idle" /\ loop' = "running" /\ UNCHANGED callbacks
       \/ loop = "idle" /\ loop' = "closed" /\ callbacks' = <<>>
    /\ UNCHANGED <<given, finalizing, live, ended, collecting, collected, done_event,
                   dumperVars, moments>>

Finalize ==
    /\ ~finalizing /\ loop # "running" /\ finalizing' = TRUE
    /\ UNCHANGED <<given, loop, live, ended, loopVars, dumperVars, moments>>

\* The signal's C handler writes its byte (SignalHandlers).
Signal ==
    /\ ~pending /\ number < MaxDumps /\ pending' = TRUE
    /\ UNCHANGED <<given, stateVars, loopVars, listVars, dumper, number, lines, moments, written>>

Next ==
    \/ Begin \/ Look \/ Ask \/ Answered \/ TimesOut \/ Fallback
    \/ Copy \/ CheckDone \/ Filtered \/ CopyEvery \/ CannotCopy \/ Write
    \/ Collect \/ CollectEnds \/ ChangeTasks \/ TurnLoop \/ Finalize

(***************************************************************************)
(* Whether the loop answers in time, late, during a later dump or never, a *)
(* dump that is written has one listing of its tasks (unless they cannot   *)
(* be listed), and says at most once, before it, that the loop was busy.   *)
(* If the loop answered, these are the tasks of one moment between the     *)
(* dump's begin and its end.  If the dump took them itself, there is such  *)
(* a moment that had them all, and they lack only tasks that have ended    *)
(* since; the tasks of all loops lack none (_dump_asyncio_tasks).          *)
(***************************************************************************)
DumpWhole ==
    \A d \in written :
        LET last == d.listings[Len(d.listings)] IN
        /\ d.listings \in {<<last>>, <<Busy, last>>}
        /\ \/ last.how = "none"
           \/ \E m \in d.moments :
                 \/ last.how = "asked" /\ last.tasks = m
                 \/ /\ last.how = "copied" /\ last.tasks \subseteq m
                    /\ m \cap d.end \subseteq last.tasks
                 \/ last.how = "every" /\ m \subseteq last.tasks
=============================================================================
