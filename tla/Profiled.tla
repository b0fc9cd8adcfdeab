------------------------------ MODULE Profiled ------------------------------
(***************************************************************************)
(* "proctrace run" and a program that itself uses proctrace: a decorated   *)
(* function (Probes), a logger (Logger), a traced pipe (TracedPipe), a     *)
(* watcher with its sampler (Measurement), or a signal handler, which      *)
(* makes a dump (DumpTasks) of what "proctrace dump" sends it.  The        *)
(* program takes steps only while it is alive: an exit, or that signal if  *)
(* it has no handler, cuts it off between any two of them.  Next to a      *)
(* plain program, which only changes its memory, "proctrace watch" runs.   *)
(***************************************************************************)
EXTENDS Commands

CONSTANTS
    Tasks, Plain, ThreadOf, Warmup, MaxCalls, MaxTasks, MaxEntries, MaxCloses,
    Capacity, MaxTracked, MaxChunks, MaxWrites, MaxReads, LoopTasks, MaxDumps,
    Sizes, MaxTime, MaxReadings

ASSUME ProfiledAssumption ==
    /\ MaxCalls \in Nat /\ MaxDumps \in Nat /\ Capacity \in Nat /\ MaxTracked \in Nat
    /\ Sizes \subseteq Nat \ {0}

VARIABLES
    uses,        \* what the program uses
    calls, task_results, thread_value, issued, tasks, own, by,
    format, socket, peer, stream, entries, out, logged, accepted, failed, closes,
    writer, reader, content, open, write_times, clock, writes, reads,
    partial, several, missed, dropped, raised, pairs,
    given, loop, finalizing, pending, dumper, number, live, ended, kept, checking,
    callbacks, collecting, collected, done_event, lines, moments, written,
    at, sampled, now, enter_time, began, exit_time, sampler_peak, series, after, result, observed

P == INSTANCE Probes
L == INSTANCE Logger
C == INSTANCE TracedPipe
D == INSTANCE DumpTasks
M == INSTANCE Measurement

probeVars == <<calls, task_results, thread_value, issued, tasks, own, by>>
logVars == <<format, socket, peer, stream, entries, out, logged, accepted, failed, closes>>
pipeVars == <<writer, reader, content, open, write_times, clock, writes, reads,
              partial, several, missed, dropped, raised, pairs>>
dumpVars == <<given, loop, finalizing, pending, dumper, number, live, ended, kept, checking,
              callbacks, collecting, collected, done_event, lines, moments, written>>
measureVars == <<at, sampled, now, enter_time, began, exit_time, sampler_peak, series,
                 after, result, observed>>
vars == <<cmdVars, uses, probeVars, logVars, pipeVars, dumpVars, measureVars>>

ProfiledInit ==
    /\ Init /\ P!Init /\ L!Init /\ C!Init /\ D!Init /\ M!Init
    /\ uses \in {"plain", "probes", "logger", "pipe", "handler", "watcher"}
    /\ uses # "plain" => ~attribution /\ ~autoreap
    /\ uses # "logger" => format = "line" /\ ~socket
    /\ uses # "handler" => ~given
    /\ uses # "watcher" => ~sampled

\* Bound: only the memory of a plain program varies.
Steady == uses # "plain" => child'.rss \in {0, Min(Rss)}

Commanded ==
    /\ UNCHANGED <<uses, probeVars, logVars, pipeVars, dumpVars, measureVars>>
    /\ \/ Run \/ Exit
       \/ uses # "handler" /\ Dump
       \/ uses = "plain" /\ (Alloc \/ WriteAllocations \/ Watch)
    /\ Steady

Program ==
    /\ child.state = "alive" /\ UNCHANGED <<uses, cmdVars>>
    /\ \/ /\ uses = "probes" /\ P!Next
          /\ UNCHANGED <<logVars, pipeVars, dumpVars, measureVars>>
       \/ /\ uses = "logger" /\ L!Next
          /\ UNCHANGED <<probeVars, pipeVars, dumpVars, measureVars>>
       \/ /\ uses = "pipe" /\ C!Next
          /\ UNCHANGED <<probeVars, logVars, dumpVars, measureVars>>
       \/ /\ uses = "handler" /\ (D!Next \/ D!Signal)
          /\ UNCHANGED <<probeVars, logVars, pipeVars, measureVars>>
       \/ /\ uses = "watcher" /\ M!Next
          /\ UNCHANGED <<probeVars, logVars, pipeVars, dumpVars>>

Next == Commanded \/ Program
Spec == ProfiledInit /\ [][Next]_vars

OwnResult == P!OwnResult
LoggedOnce == L!LoggedOnce
PipeTimes == C!PipeTimes
DumpWhole == D!DumpWhole
PeakConsistent == M!PeakConsistent
=============================================================================
