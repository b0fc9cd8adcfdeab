--------------------------- MODULE SignalHandlers ---------------------------
(***************************************************************************)
(* One signal's dump handler: install_signal_handler() and uninstall() of  *)
(* src/proctrace/diagnostics/signals.py, the registration and the C        *)
(* handler of src/src/signal.rs, and the kernel's descriptor table they    *)
(* share with the rest of the program.                                     *)
(*                                                                         *)
(* Descriptors are numbers and a closed number is handed out again, lowest *)
(* first, to whoever opens next.  Threads interleave between any two       *)
(* accesses of the slot, the table, the registry and a handle.  A handle   *)
(* is named by the number of its pipe.  Nothing locks a handle: two        *)
(* threads may both find it not uninstalled, and both close its number.    *)
(*                                                                         *)
(* Left out: the text of a dump and the stream it goes to, uninstall()     *)
(* called by the watcher itself, sys.is_finalizing(), and that a pipe is   *)
(* full after 65536 bytes or read in portions of 64.                       *)
(***************************************************************************)
EXTENDS Integers

CONSTANTS
    Threads,       \* threads that install and uninstall
    NumFds,        \* size of the descriptor table
    MaxInstalls,   \* bound: pipes created
    MaxSignals,    \* bound: signals delivered
    MaxOther       \* bound: descriptors the program opens for itself

ASSUME BoundAssumption ==
    NumFds \in Nat /\ MaxInstalls \in Nat /\ MaxSignals \in Nat /\ MaxOther \in Nat

Fd == 0..(NumFds - 1)
Handle == 1..MaxInstalls
NoFd == -1
None == 0

VARIABLES
    fds,             \* the descriptor table
    slot,            \* PIPE_WRITE_FDS[signal_num]
    armed,           \* sigaction() has installed handle_signal
    registry,        \* _active_handlers.get(signal_num)
    returned,        \* handles a caller holds
    tpc, after,      \* API threads: pc, the pc to go on at after uninstall(),
    victim,          \* the handle to uninstall,
    fresh, oldFd,    \* the pipe being installed, old_fd / stored
    made,            \* pipes created so far
    readFd, writeFd, \* the numbers of each pipe's two ends
    closed,          \* handles whose read_fd is -1
    uninstalled,     \* handles whose _uninstalled is set
    stopEvent,       \* handles whose stop_event is set
    wpc,             \* the watchers
    pipe,            \* bytes waiting in each pipe
    inflight,        \* the descriptor handle_signal has loaded and not written
    sent, opened,    \* signals delivered, descriptors opened by the program
    held,            \* numbers of the program's own descriptors, as it thinks
    owed,            \* ghost: pipes with a byte no dump was started for yet
    failed,          \* ghost: pipes whose watcher could not be started
    stray,           \* ghost: a byte went to a descriptor that is not ours
    twice            \* ghost: two threads have uninstalled one handle at once

kernelVars == <<fds, pipe, inflight, sent, opened, held>>
threadVars == <<tpc, after, victim, fresh, oldFd>>
handleVars == <<readFd, writeFd, closed, uninstalled, stopEvent>>
ghostVars  == <<owed, failed, stray, twice>>
vars == <<kernelVars, slot, armed, registry, returned, threadVars, made,
          handleVars, wpc, ghostVars>>

-----------------------------------------------------------------------------
(* The descriptor table.                                                   *)

Unused      == [kind |-> "unused", of |-> None]
Foreign     == [kind |-> "foreign", of |-> None]
ReadEnd(h)  == [kind |-> "read", of |-> h]
WriteEnd(h) == [kind |-> "write", of |-> h]

UnusedFds == {f \in Fd : fds[f] = Unused}
Lowest(S) == CHOOSE f \in S : \A o \in S : f <= o

ReaderOpen(h) == \E f \in Fd : fds[f] = ReadEnd(h)
WriterOpen(h) == \E f \in Fd : fds[f] = WriteEnd(h)

\* close() of a number releases whatever the number stands for by now.
Without(table, f) == IF f \in Fd THEN [table EXCEPT ![f] = Unused] ELSE table

Init ==
    /\ fds = [f \in Fd |-> Unused]
    /\ slot = NoFd /\ armed = FALSE /\ registry = None /\ returned = {}
    /\ tpc = [t \in Threads |-> "idle"] /\ after = [t \in Threads |-> "idle"]
    /\ victim = [t \in Threads |-> None] /\ fresh = [t \in Threads |-> None]
    /\ oldFd = [t \in Threads |-> NoFd]
    /\ made = 0
    /\ readFd = [h \in Handle |-> NoFd] /\ writeFd = [h \in Handle |-> NoFd]
    /\ closed = {} /\ uninstalled = {} /\ stopEvent = {}
    /\ wpc = [h \in Handle |-> "none"]
    /\ pipe = [h \in Handle |-> 0]
    /\ inflight = NoFd /\ sent = 0 /\ opened = 0 /\ held = {}
    /\ owed = {} /\ failed = {} /\ stray = FALSE /\ twice = FALSE

Goto(t, from, to) == tpc[t] = from /\ tpc' = [tpc EXCEPT ![t] = to]

-----------------------------------------------------------------------------
(* uninstall() of the thread's victim.                                     *)

\* Leave uninstall(): an installation goes on, an API call returns.
Resume(t) ==
    /\ tpc' = [tpc EXCEPT ![t] = after[t]]
    /\ victim' = [victim EXCEPT ![t] = None]
    /\ after' = [after EXCEPT ![t] = "idle"]

\* Call uninstall() of h, if there is a handle, and go on at pc.
CallUninstall(t, h, pc) ==
    /\ victim' = [victim EXCEPT ![t] = h]
    /\ tpc' = [tpc EXCEPT ![t] = IF h = None THEN pc ELSE "test"]
    /\ after' = [after EXCEPT ![t] = IF h = None THEN "idle" ELSE pc]

TestUninstalled(t) ==
    /\ tpc[t] = "test"
    /\ IF victim[t] \in uninstalled
       THEN Resume(t) /\ UNCHANGED twice
       ELSE /\ Goto(t, "test", "stop") /\ UNCHANGED <<after, victim>>
            /\ twice' = (twice \/ \E o \in Threads :
                                     tpc[o] = "stop" /\ victim[o] = victim[t])
    /\ UNCHANGED <<kernelVars, slot, armed, registry, returned, fresh, oldFd,
                   made, handleVars, wpc, owed, failed, stray>>

MarkUninstalled(t) ==
    /\ Goto(t, "stop", "event")
    /\ uninstalled' = uninstalled \cup {victim[t]}
    /\ UNCHANGED <<kernelVars, slot, armed, registry, returned, after, victim, fresh,
                   oldFd, made, readFd, writeFd, closed, stopEvent, wpc, ghostVars>>

\* Bug: the descriptor is closed without waiting for the watcher.
SetStopNoJoin(t) ==
    /\ Goto(t, "event", "close")
    /\ stopEvent' = stopEvent \cup {victim[t]}
    /\ UNCHANGED <<kernelVars, slot, armed, registry, returned, after, victim, fresh,
                   oldFd, made, readFd, writeFd, closed, uninstalled, wpc, ghostVars>>

SetStop(t) ==
    /\ Goto(t, "event", "join")
    /\ stopEvent' = stopEvent \cup {victim[t]}
    /\ UNCHANGED <<kernelVars, slot, armed, registry, returned, after, victim, fresh,
                   oldFd, made, readFd, writeFd, closed, uninstalled, wpc, ghostVars>>

\* join(timeout=0.3).  Only a dump, which may wait 0.5 s for the event loop
\* and then for its stream, outlasts the timeout: select() waits 0.1 s and
\* the rest of the loop does not block.
Join(t) ==
    /\ Goto(t, "join", "close")
    /\ wpc[victim[t]] \in {"dump", "done"}
    /\ UNCHANGED <<kernelVars, slot, armed, registry, returned, after, victim,
                   fresh, oldFd, made, handleVars, wpc, ghostVars>>

\* read_fd >= 0.  The number to close is read once more for the close; where
\* another thread has marked the handle in between, that is -1, whose close
\* fails and does nothing, as if the test had come after the mark.
TestReadFd(t) ==
    /\ Goto(t, "close", IF victim[t] \in closed THEN "deregister" ELSE "closing")
    /\ UNCHANGED <<kernelVars, slot, armed, registry, returned, after, victim,
                   fresh, oldFd, made, handleVars, wpc, ghostVars>>

\* Bug: the read end is forgotten and not closed.
CloseNothing(t) ==
    /\ Goto(t, "closing", "mark")
    /\ UNCHANGED <<kernelVars, slot, armed, registry, returned, after, victim,
                   fresh, oldFd, made, handleVars, wpc, ghostVars>>

\* os.close() of the number, whatever it stands for by now.
CloseReadEnd(t) ==
    /\ Goto(t, "closing", "mark")
    /\ fds' = Without(fds, readFd[victim[t]])
    /\ UNCHANGED <<pipe, inflight, sent, opened, held, slot, armed, registry, returned,
                   after, victim, fresh, oldFd, made, handleVars, wpc, ghostVars>>

MarkClosed(t) ==
    /\ Goto(t, "mark", "deregister")
    /\ closed' = closed \cup {victim[t]}
    /\ UNCHANGED <<kernelVars, slot, armed, registry, returned, after, victim, fresh,
                   oldFd, made, readFd, writeFd, uninstalled, stopEvent, wpc, ghostVars>>

\* Whatever handle is registered by now is taken out.
Deregister(t) ==
    /\ tpc[t] = "deregister"
    /\ Resume(t)
    /\ registry' = None
    /\ UNCHANGED <<kernelVars, slot, armed, returned, fresh, oldFd, made,
                   handleVars, wpc, ghostVars>>

-----------------------------------------------------------------------------
(* The API calls.                                                          *)

Exiting == \E t \in Threads : tpc[t] = "exited" \/ after[t] = "exited"

\* handle.uninstall(), or the exit of its with block.
UninstallHandle(t) ==
    /\ tpc[t] = "idle" /\ ~Exiting
    /\ \E h \in returned : CallUninstall(t, h, "idle")
    /\ UNCHANGED <<kernelVars, slot, armed, registry, returned, fresh, oldFd,
                   made, handleVars, wpc, ghostVars>>

\* uninstall_signal_handler(): pop the registered handle, then uninstall it.
UninstallSignal(t) ==
    /\ tpc[t] = "idle" /\ ~Exiting
    /\ CallUninstall(t, registry, "idle")
    /\ registry' = None
    /\ UNCHANGED <<kernelVars, slot, armed, returned, fresh, oldFd, made,
                   handleVars, wpc, ghostVars>>

\* Bug: the registry is cleared before the handles are copied.
ExitHookCleared(t) ==
    /\ \A o \in Threads : tpc[o] = "idle"
    /\ CallUninstall(t, None, "exited")
    /\ registry' = None
    /\ UNCHANGED <<kernelVars, slot, armed, returned, fresh, oldFd, made,
                   handleVars, wpc, ghostVars>>

\* The exit hook calls uninstall_all_signal_handlers(); the interpreter runs
\* it when the other threads have ended.
ExitHook(t) ==
    /\ \A o \in Threads : tpc[o] = "idle"
    /\ CallUninstall(t, registry, "exited")
    /\ registry' = None
    /\ UNCHANGED <<kernelVars, slot, armed, returned, fresh, oldFd, made,
                   handleVars, wpc, ghostVars>>

\* Bug: the handler in place is not uninstalled.
InstallOver(t) ==
    /\ tpc[t] = "idle" /\ ~Exiting /\ made < MaxInstalls
    /\ CallUninstall(t, None, "pipe")
    /\ UNCHANGED <<kernelVars, slot, armed, registry, returned, fresh, oldFd,
                   made, handleVars, wpc, ghostVars>>

\* install_signal_handler() uninstalls the handler in place, if any.
Install(t) ==
    /\ tpc[t] = "idle" /\ ~Exiting /\ made < MaxInstalls
    /\ CallUninstall(t, registry, "pipe")
    /\ registry' = None
    /\ UNCHANGED <<kernelVars, slot, armed, returned, fresh, oldFd, made,
                   handleVars, wpc, ghostVars>>

\* The call raises.
InstallRaises(t) ==
    /\ tpc' = [tpc EXCEPT ![t] = "idle"]
    /\ fresh' = [fresh EXCEPT ![t] = None]
    /\ oldFd' = [oldFd EXCEPT ![t] = NoFd]

PipeFails(t) ==
    /\ tpc[t] = "pipe" /\ InstallRaises(t)
    /\ UNCHANGED <<kernelVars, slot, armed, registry, returned, after, victim,
                   made, handleVars, wpc, ghostVars>>

CreatePipe(t) ==
    LET h == made + 1
        r == Lowest(UnusedFds)
        w == Lowest(UnusedFds \ {r})
    IN  /\ Goto(t, "pipe", "swap")
        /\ made < MaxInstalls /\ \E a, b \in UnusedFds : a # b
        /\ fds' = [fds EXCEPT ![r] = ReadEnd(h), ![w] = WriteEnd(h)]
        /\ readFd' = [readFd EXCEPT ![h] = r] /\ writeFd' = [writeFd EXCEPT ![h] = w]
        /\ made' = h /\ fresh' = [fresh EXCEPT ![t] = h]
        /\ UNCHANGED <<pipe, inflight, sent, opened, held, slot, armed, registry, returned,
                       after, victim, oldFd, closed, uninstalled, stopEvent, wpc,
                       ghostVars>>

SwapSlot(t) ==
    /\ Goto(t, "swap", "closeOld")
    /\ slot' = writeFd[fresh[t]]
    /\ oldFd' = [oldFd EXCEPT ![t] = slot]
    /\ UNCHANGED <<kernelVars, armed, registry, returned, after, victim, fresh,
                   made, handleVars, wpc, ghostVars>>

\* Bug: the write end of the last installation stays open.
CloseOldNever(t) ==
    /\ Goto(t, "closeOld", "sigaction")
    /\ oldFd' = [oldFd EXCEPT ![t] = NoFd]
    /\ UNCHANGED <<kernelVars, slot, armed, registry, returned, after,
                   victim, fresh, made, handleVars, wpc, ghostVars>>

CloseOld(t) ==
    /\ Goto(t, "closeOld", "sigaction")
    /\ fds' = Without(fds, oldFd[t])
    /\ oldFd' = [oldFd EXCEPT ![t] = NoFd]
    /\ UNCHANGED <<pipe, inflight, sent, opened, held, slot, armed, registry, returned,
                   after, victim, fresh, made, handleVars, wpc, ghostVars>>

Arm(t) ==
    /\ Goto(t, "sigaction", "start")
    /\ armed' = TRUE
    /\ UNCHANGED <<kernelVars, slot, registry, returned, after, victim, fresh,
                   oldFd, made, handleVars, wpc, ghostVars>>

\* Bug: the slot keeps the number that is about to be closed.
SigactionFailsKeepsSlot(t) ==
    /\ Goto(t, "sigaction", "undo")
    /\ oldFd' = [oldFd EXCEPT ![t] = slot]
    /\ UNCHANGED <<kernelVars, slot, armed, registry, returned, after, victim, fresh,
                   made, handleVars, wpc, ghostVars>>

\* sigaction() fails: take the slot back, then close both ends and raise.
SigactionFails(t) ==
    /\ Goto(t, "sigaction", "undo")
    /\ slot' = NoFd
    /\ oldFd' = [oldFd EXCEPT ![t] = slot]
    /\ UNCHANGED <<kernelVars, armed, registry, returned, after, victim, fresh,
                   made, handleVars, wpc, ghostVars>>

Undo(t) ==
    /\ tpc[t] = "undo" /\ InstallRaises(t)
    /\ fds' = Without(Without(fds, oldFd[t]), readFd[fresh[t]])
    /\ UNCHANGED <<pipe, inflight, sent, opened, held, slot, armed, registry, returned,
                   after, victim, made, handleVars, wpc, ghostVars>>

StartWatcher(t) ==
    /\ Goto(t, "start", "assign")
    /\ wpc' = [wpc EXCEPT ![fresh[t]] = "select"]
    /\ UNCHANGED <<kernelVars, slot, armed, registry, returned, after, victim,
                   fresh, oldFd, made, handleVars, ghostVars>>

\* Thread.start() raises when the system has no thread to give.
StartFails(t) ==
    /\ tpc[t] = "start" /\ InstallRaises(t)
    /\ failed' = failed \cup {fresh[t]}
    /\ UNCHANGED <<kernelVars, slot, armed, registry, returned, after, victim,
                   made, handleVars, wpc, owed, stray, twice>>

Assign(t) ==
    /\ Goto(t, "assign", "idle")
    /\ registry' = fresh[t] /\ returned' = returned \cup {fresh[t]}
    /\ fresh' = [fresh EXCEPT ![t] = None]
    /\ UNCHANGED <<kernelVars, slot, armed, after, victim, oldFd, made,
                   handleVars, wpc, ghostVars>>

-----------------------------------------------------------------------------
(* A signal, on a thread other than the ones above.                        *)

\* handle_signal() reads the slot ...
LoadSlot ==
    /\ armed /\ inflight = NoFd /\ sent < MaxSignals
    /\ inflight' = slot
    /\ sent' = sent + 1
    /\ UNCHANGED <<fds, pipe, opened, held, slot, armed, registry, returned, threadVars,
                   made, handleVars, wpc, ghostVars>>

\* ... and writes a byte to what the number stands for by then.  A pipe
\* without a reader takes none (EPIPE; Python ignores SIGPIPE).
WriteByte ==
    /\ inflight # NoFd
    /\ inflight' = NoFd
    /\ LET end == fds[inflight]
       IN  IF end.kind = "write" /\ ReaderOpen(end.of)
           THEN /\ pipe' = [pipe EXCEPT ![end.of] = @ + 1]
                /\ owed' = owed \cup {end.of}
                /\ UNCHANGED stray
           ELSE stray' = (stray \/ end = Foreign) /\ UNCHANGED <<pipe, owed>>
    /\ UNCHANGED <<fds, sent, opened, held, slot, armed, registry, returned, threadVars,
                   made, handleVars, wpc, failed, twice>>

-----------------------------------------------------------------------------
(* The watcher of handle h.                                                *)

WatcherGoto(h, from, to) == wpc[h] = from /\ wpc' = [wpc EXCEPT ![h] = to]

OwnsReadFd(h) == fds[readFd[h]] = ReadEnd(h)

\* Bug: select() without a timeout.
SelectUntimed(h) ==
    /\ wpc[h] = "select" /\ OwnsReadFd(h) /\ (pipe[h] > 0 \/ ~WriterOpen(h))
    /\ WatcherGoto(h, "select", IF h \in stopEvent THEN "done" ELSE "ready")
    /\ UNCHANGED <<kernelVars, slot, armed, registry, returned, threadVars, made,
                   handleVars, ghostVars>>

\* The head of the loop; then select(), which waits for a byte or for the
\* last writer to go and fails on a closed number.  Its timeout comes back
\* to the head of the loop.
Select(h) ==
    /\ wpc[h] = "select"
    /\ \/ h \in stopEvent /\ WatcherGoto(h, "select", "done")
       \/ /\ h \notin stopEvent
          /\ IF OwnsReadFd(h)
             THEN WatcherGoto(h, "select", "ready") /\ (pipe[h] > 0 \/ ~WriterOpen(h))
             ELSE \E pc \in {"ready", "done"} : WatcherGoto(h, "select", pc)
    /\ UNCHANGED <<kernelVars, slot, armed, registry, returned, threadVars, made,
                   handleVars, ghostVars>>

\* Bug: the stop event is not looked at again after select().
RecheckNever(h) ==
    /\ WatcherGoto(h, "ready", "read")
    /\ UNCHANGED <<kernelVars, slot, armed, registry, returned, threadVars, made,
                   handleVars, ghostVars>>

Recheck(h) ==
    /\ WatcherGoto(h, "ready", IF h \in stopEvent THEN "done" ELSE "read")
    /\ UNCHANGED <<kernelVars, slot, armed, registry, returned, threadVars, made,
                   handleVars, ghostVars>>

\* One read takes all the bytes of the pipe it reads; an empty pipe gives none
\* when no writer is left, and fails otherwise.  Another's descriptor may
\* have anything to read.
Read(h) ==
    /\ wpc[h] = "read"
    /\ LET end   == fds[readFd[h]]
           bytes == end.kind = "read" /\ pipe[end.of] > 0
       IN  \/ /\ bytes /\ WatcherGoto(h, "read", "decide")
              /\ pipe' = [pipe EXCEPT ![end.of] = 0]
           \/ ~bytes /\ WatcherGoto(h, "read", "done") /\ UNCHANGED pipe
           \/ end = Foreign /\ WatcherGoto(h, "read", "decide") /\ UNCHANGED pipe
    /\ UNCHANGED <<fds, inflight, sent, opened, held, slot, armed, registry, returned,
                   threadVars, made, handleVars, ghostVars>>

\* A dump answers every signal whose byte came before it.
StartDump(h) ==
    /\ WatcherGoto(h, "decide", IF h \in stopEvent THEN "select" ELSE "dump")
    /\ owed' = IF h \in stopEvent \/ pipe[h] > 0 THEN owed ELSE owed \ {h}
    /\ UNCHANGED <<kernelVars, slot, armed, registry, returned, threadVars, made,
                   handleVars, failed, stray, twice>>

\* Bug: the watcher ends with its first dump.
DumpEndsWatcher(h) ==
    /\ WatcherGoto(h, "dump", "done")
    /\ UNCHANGED <<kernelVars, slot, armed, registry, returned, threadVars, made,
                   handleVars, ghostVars>>

DumpEnds(h) ==
    /\ WatcherGoto(h, "dump", "select")
    /\ UNCHANGED <<kernelVars, slot, armed, registry, returned, threadVars, made,
                   handleVars, ghostVars>>

Watcher(h) == Select(h) \/ Recheck(h) \/ Read(h) \/ StartDump(h) \/ DumpEnds(h)

-----------------------------------------------------------------------------
(* The rest of the program.                                                *)

OpenForeign ==
    /\ opened < MaxOther /\ UnusedFds # {}
    /\ fds' = [fds EXCEPT ![Lowest(UnusedFds)] = Foreign]
    /\ opened' = opened + 1
    /\ held' = held \cup {Lowest(UnusedFds)}
    /\ UNCHANGED <<pipe, inflight, sent, slot, armed, registry, returned,
                   threadVars, made, handleVars, wpc, ghostVars>>

CloseForeign ==
    /\ \E f \in held : fds' = Without(fds, f) /\ held' = held \ {f}
    /\ UNCHANGED <<pipe, inflight, sent, opened, slot, armed, registry, returned,
                   threadVars, made, handleVars, wpc, ghostVars>>

Uninstalling(t) ==
    \/ TestUninstalled(t) \/ MarkUninstalled(t) \/ SetStop(t) \/ Join(t)
    \/ TestReadFd(t) \/ CloseReadEnd(t) \/ MarkClosed(t) \/ Deregister(t)

Installing(t) ==
    \/ PipeFails(t) \/ CreatePipe(t) \/ SwapSlot(t) \/ CloseOld(t)
    \/ Arm(t) \/ SigactionFails(t) \/ Undo(t)
    \/ StartWatcher(t) \/ StartFails(t) \/ Assign(t)

Next ==
    \/ \E t \in Threads :
          \/ Install(t) \/ UninstallHandle(t) \/ UninstallSignal(t) \/ ExitHook(t)
          \/ Uninstalling(t) \/ Installing(t)
    \/ \E h \in Handle : Watcher(h)
    \/ LoadSlot \/ WriteByte \/ OpenForeign \/ CloseForeign

Spec == Init /\ [][Next]_vars

\* The OS schedules a runnable watcher; a dump ends, for it waits for the
\* event loop half a second at most.
Fairness == \A h \in Handle : WF_vars(Watcher(h))

FairSpec == Spec /\ Fairness

-----------------------------------------------------------------------------
(* Properties.                                                             *)

ThreadPc == {"idle", "test", "stop", "event", "join", "close", "closing", "mark",
             "deregister", "pipe", "swap", "closeOld", "sigaction", "undo", "start",
             "assign", "exited"}
WatcherPc == {"none", "select", "ready", "read", "decide", "dump", "done"}

\* Every variable stays in its domain; the slot names an open write end or
\* nothing, also while sigaction() fails.  It may name a closed number once
\* two threads have uninstalled one handle at the same time: the second one
\* closes the number again, which a newer pipe may have been given.
TypeOK ==
    /\ fds \in [Fd -> {Unused, Foreign} \cup {ReadEnd(h) : h \in Handle}
                                       \cup {WriteEnd(h) : h \in Handle}]
    /\ slot \in Fd \cup {NoFd} /\ (~twice => slot = NoFd \/ fds[slot].kind = "write")
    /\ armed \in BOOLEAN /\ stray \in BOOLEAN /\ twice \in BOOLEAN
    /\ registry \in Handle \cup {None}
    /\ tpc \in [Threads -> ThreadPc] /\ after \in [Threads -> {"idle", "pipe", "exited"}]
    /\ victim \in [Threads -> Handle \cup {None}]
    /\ fresh \in [Threads -> Handle \cup {None}]
    /\ oldFd \in [Threads -> Fd \cup {NoFd}] /\ held \subseteq Fd
    /\ readFd \in [Handle -> Fd \cup {NoFd}] /\ writeFd \in [Handle -> Fd \cup {NoFd}]
    /\ wpc \in [Handle -> WatcherPc] /\ pipe \in [Handle -> 0..MaxSignals]
    /\ inflight \in Fd \cup {NoFd}
    /\ made \in 0..MaxInstalls /\ sent \in 0..MaxSignals /\ opened \in 0..MaxOther
    /\ returned \cup closed \cup uninstalled \cup stopEvent \cup owed \cup failed
         \subseteq Handle

\* No write end leaks, however many handlers are installed and removed: an
\* open one is in the slot, or in the hands of the thread that is about to
\* put it there or to close it.
WriteEndsAccounted ==
    \A f \in Fd : fds[f].kind = "write" =>
       \/ f = slot
       \/ \E t \in Threads : f = oldFd[t] \/ (tpc[t] = "swap" /\ fds[f].of = fresh[t])

\* No read end leaks: an open one is being installed, or its handle can still
\* be uninstalled, or no thread could be started for it.  A handle is not
\* marked as closed while its read end is open.
ReadEndsAccounted ==
    \A f \in Fd : fds[f].kind = "read" =>
       LET h == fds[f].of
       IN  /\ h \notin closed
           /\ h \in returned \/ h \in failed \/ \E t \in Threads : fresh[t] = h

\* A watcher never takes bytes from a descriptor that is not its own, though
\* uninstall() closes the number under a watcher whose join timed out and
\* the program, or another thread's new handler, may be given it next.
\* Threads may install and uninstall at any time, one handle twice too, but
\* not one handle by two threads that are both past the test of
\* _uninstalled before either sets it.
WatcherReadsOwnPipe == ~twice => \A h \in Handle : wpc[h] = "read" => OwnsReadFd(h)

AtRest == \A t \in Threads : tpc[t] \in {"idle", "exited"}

\* Between the calls of a single thread the registered handle is the one
\* that signals reach, and no other watcher is left without a request to
\* stop, so that one signal makes one dump.
RegisteredServes ==
    AtRest =>
       /\ registry # None =>
             /\ armed /\ slot # NoFd /\ fds[slot] = WriteEnd(registry)
             /\ OwnsReadFd(registry)
             /\ wpc[registry] \notin {"none", "done"} /\ registry \notin stopEvent
       /\ \A h \in Handle :
             wpc[h] \notin {"none", "done"} /\ h \notin stopEvent => h = registry

\* "Uninstall all active signal handlers and terminate watcher threads": once
\* the exit hook has called it, every watcher has ended, has been asked to
\* stop, or is about to read the end of a pipe without a writer.
ExitStopsWatchers ==
    (\E t \in Threads : tpc[t] = "exited") =>
       \A h \in Handle :
          wpc[h] \in {"none", "done"} \/ h \in stopEvent \/ ~WriterOpen(h)

\* The byte of a signal goes to no descriptor of the rest of the program.
NoStrayByte == ~stray

\* A signal whose byte has reached a pipe is answered by a dump that starts
\* after it, unless the handler is uninstalled before that.
SignalAnswered ==
    \A h \in Handle : (h \in owed /\ wpc[h] # "none") ~> (h \notin owed \/ h \in stopEvent)

\* A watcher that was asked to stop ends, also when its descriptor has been
\* closed under it and given to someone else.
StopEndsWatcher == \A h \in Handle : h \in stopEvent ~> wpc[h] = "done"
=============================================================================
