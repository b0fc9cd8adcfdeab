------------------------ MODULE SignalHandlersProofs ------------------------
(***************************************************************************)
(* Proofs about SignalHandlers, for any number of threads, descriptors,    *)
(* installs and signals: the types, that no end of a pipe leaks, and that  *)
(* a watcher reads its own pipe only; and for a single API thread, that    *)
(* the registered handler is the one that serves and that the exit hook    *)
(* stops every watcher.                                                    *)
(***************************************************************************)
EXTENDS SignalHandlers, WellFoundedInduction, TLAPS

Ends == {Unused, Foreign} \cup {ReadEnd(h) : h \in Handle} \cup {WriteEnd(h) : h \in Handle}

\* TypeOK, without what it says of the slot and with the bytes bounded.
Types ==
    /\ fds \in [Fd -> Ends] /\ slot \in Fd \cup {NoFd}
    /\ armed \in BOOLEAN /\ stray \in BOOLEAN /\ twice \in BOOLEAN
    /\ registry \in Handle \cup {None}
    /\ tpc \in [Threads -> ThreadPc] /\ after \in [Threads -> {"idle", "pipe", "exited"}]
    /\ victim \in [Threads -> Handle \cup {None}]
    /\ fresh \in [Threads -> Handle \cup {None}]
    /\ oldFd \in [Threads -> Fd \cup {NoFd}] /\ held \subseteq Fd
    /\ readFd \in [Handle -> Fd \cup {NoFd}] /\ writeFd \in [Handle -> Fd \cup {NoFd}]
    /\ wpc \in [Handle -> WatcherPc] /\ pipe \in [Handle -> Nat]
    /\ inflight \in Fd \cup {NoFd}
    /\ made \in 0..MaxInstalls /\ sent \in 0..MaxSignals /\ opened \in 0..MaxOther
    /\ returned \cup closed \cup uninstalled \cup stopEvent \cup owed \cup failed
         \subseteq Handle

\* A byte in a pipe is a signal delivered, and so is the one in flight.
BytesInv == \A h \in Handle : pipe[h] <= sent /\ (inflight # NoFd => pipe[h] < sent)

\* Where a thread has a pipe of its own; where it is past the test of
\* _uninstalled and has not marked the handle as closed; where it has a
\* handle to uninstall.
FreshPcs == {"swap", "closeOld", "sigaction", "undo", "start", "assign"}
StopPcs == {"stop", "event", "join", "close", "closing", "mark"}
VictimPcs == StopPcs \cup {"test", "deregister"}

PipeInv ==
    /\ \A f \in Fd : fds[f].kind \in {"read", "write"} => fds[f].of \in 1..made
    /\ \A t \in Threads : tpc[t] \in FreshPcs <=> fresh[t] # None
    /\ \A t \in Threads : fresh[t] \in 0..made
    /\ \A t, o \in Threads : fresh[t] = fresh[o] /\ fresh[t] # None => t = o

\* Only handles that have been returned are registered, uninstalled or closed.
HandleInv ==
    /\ closed \subseteq returned /\ returned \subseteq 1..made
    /\ registry \in returned \cup {None}
    /\ \A t \in Threads : victim[t] \in returned \cup {None}
    /\ \A t \in Threads : tpc[t] \in VictimPcs => victim[t] # None
    /\ \A t \in Threads : fresh[t] # None => fresh[t] \notin returned

\* The ends of a pipe are open at its two numbers or not at all, and the
\* read end is closed before its handle is marked.
NumberInv ==
    /\ \A h \in 1..made : readFd[h] \in Fd /\ writeFd[h] \in Fd
    /\ \A f \in Fd : /\ fds[f].kind = "read" => f = readFd[fds[f].of]
                     /\ fds[f].kind = "write" => f = writeFd[fds[f].of]
    /\ \A t \in Threads : oldFd[t] \in Fd => tpc[t] \in {"closeOld", "undo"}
    /\ \A t \in Threads : tpc[t] = "mark" => \A f \in Fd : fds[f] # ReadEnd(victim[t])

\* The next three hold until two threads uninstall one handle at once.
\* A handle is being stopped by one thread at most.
OneInv ==
    /\ \A t \in Threads : tpc[t] \in StopPcs => (victim[t] \in uninstalled <=> tpc[t] # "stop")
    /\ \A t, o \in Threads :
          tpc[t] \in StopPcs /\ tpc[o] \in StopPcs /\ victim[t] = victim[o] => t = o

\* The slot, a thread that closes and a thread that has a new pipe each have
\* an open write end of their own.
WriteInv ==
    /\ slot \in Fd => fds[slot].kind = "write"
    /\ \A t \in Threads : oldFd[t] \in Fd => fds[oldFd[t]].kind = "write" /\ oldFd[t] # slot
    /\ \A t, o \in Threads : oldFd[t] = oldFd[o] /\ oldFd[t] \in Fd => t = o
    /\ \A t \in Threads : tpc[t] = "swap" =>
          /\ fds[writeFd[fresh[t]]] = WriteEnd(fresh[t]) /\ writeFd[fresh[t]] # slot
          /\ \A o \in Threads : oldFd[o] # writeFd[fresh[t]]

\* The read end of a pipe being installed, or of a handle that is neither
\* closed nor about to be marked so, is open; the rest of the program has
\* the descriptors it thinks it has.
ReadInv ==
    /\ \A h \in returned : h \in closed \/ OwnsReadFd(h)
                             \/ \E t \in Threads : tpc[t] = "mark" /\ victim[t] = h
    /\ \A t \in Threads : fresh[t] # None => OwnsReadFd(fresh[t])
    /\ \A t \in Threads : tpc[t] = "closing" => victim[t] \notin closed
    /\ \A f \in held : fds[f] = Foreign

Sound == OneInv /\ WriteInv /\ ReadInv

\* The watcher is not between the head of its loop and its dump.
Past(h) == wpc[h] \in {"select", "dump", "done"}

WatchInv ==
    /\ \A h \in Handle : wpc[h] = "none" \/ h \in returned
                           \/ \E t \in Threads : tpc[t] = "assign" /\ fresh[t] = h
    /\ \A t \in Threads :
          tpc[t] \in {"join", "close", "closing", "mark"} => victim[t] \in stopEvent
    /\ \A t \in Threads : tpc[t] \in {"close", "closing", "mark"} => Past(victim[t])
    /\ \A h \in closed : h \in stopEvent /\ Past(h)

-----------------------------------------------------------------------------
(* Numbers *)

\* The numbers that stand for nothing are none of the others.
LEMMA NoNumbers == Fd \subseteq Nat /\ NoFd \notin Fd /\ None \notin Handle /\ Handle \subseteq Nat
BY BoundAssumption DEF Fd, NoFd, None, Handle

\* The kernel finds a lowest number among some.
LEMMA LowestIn ==
  ASSUME NEW S, S \subseteq Nat, S # {}
  PROVE  Lowest(S) \in S
<1> DEFINE R == OpToRel(<,Nat)
<1>1. IsWellFoundedOn(R, Nat)
  BY NatLessThanWellFounded, Zenon
<1>2. \A x, y \in Nat : y < x => <<y, x>> \in R
  BY Zenon DEF OpToRel
<1> HIDE DEF R
<1>3. PICK x \in S : \A y \in S : <<y, x>> \notin R
  BY <1>1, WFMin, Zenon
<1>4. ASSUME NEW y \in S  PROVE x <= y
  <2>1. x \in Nat /\ y \in Nat
    OBVIOUS
  <2>2. ~(y < x)
    BY <1>2, <1>3, <2>1, Zenon
  <2> QED BY <2>1, <2>2
<1> QED BY <1>3, <1>4, Zenon DEF Lowest

\* The two ends of a new pipe get two numbers that were unused.
LEMMA NewEnds ==
  ASSUME \E a, b \in UnusedFds : a # b
  PROVE  /\ Lowest(UnusedFds) \in UnusedFds
         /\ Lowest(UnusedFds \ {Lowest(UnusedFds)}) \in UnusedFds \ {Lowest(UnusedFds)}
         /\ UnusedFds \subseteq Fd
<1>1. UnusedFds \subseteq Nat /\ UnusedFds \subseteq Fd
  BY NoNumbers DEF UnusedFds
<1>2. UnusedFds # {} /\ UnusedFds \ {Lowest(UnusedFds)} # {}
  OBVIOUS
<1> QED BY <1>1, <1>2, LowestIn

\* What the ends are, by their kind.
LEMMA EndKinds ==
  ASSUME Types, NEW f \in Fd
  PROVE  /\ fds[f] \in Ends
         /\ fds[f].kind \in {"unused", "foreign", "read", "write"}
         /\ fds[f].kind = "unused" <=> fds[f] = Unused
         /\ fds[f].kind = "foreign" <=> fds[f] = Foreign
         /\ fds[f].kind = "read" => fds[f].of \in Handle /\ fds[f] = ReadEnd(fds[f].of)
         /\ fds[f].kind = "write" => fds[f].of \in Handle /\ fds[f] = WriteEnd(fds[f].of)
BY DEF Types, Ends, Unused, Foreign, ReadEnd, WriteEnd

\* The table after a close(), also of no number.
LEMMA CloseFd ==
  ASSUME Types, NEW g \in Fd \cup {NoFd}
  PROVE  /\ Without(fds, g) \in [Fd -> Ends]
         /\ \A f \in Fd : Without(fds, g)[f] = IF f = g THEN Unused ELSE fds[f]
BY NoNumbers DEF Types, Without, Ends

\* The numbers of a pipe that a thread has in hand, or is to uninstall.
LEMMA Numbers ==
  ASSUME Types, PipeInv, HandleInv, NumberInv, NEW t \in Threads
  PROVE  /\ tpc[t] \in FreshPcs =>
              /\ fresh[t] \in Handle /\ fresh[t] \in 1..made
              /\ readFd[fresh[t]] \in Fd /\ writeFd[fresh[t]] \in Fd
         /\ tpc[t] \in VictimPcs =>
              /\ victim[t] \in Handle /\ victim[t] \in returned /\ victim[t] \in 1..made
              /\ readFd[victim[t]] \in Fd
<1>1. tpc[t] \in FreshPcs => fresh[t] \in Handle /\ fresh[t] \in 1..made
  BY DEF PipeInv, Types, None
<1>2. tpc[t] \in VictimPcs => victim[t] \in Handle /\ victim[t] \in returned /\ victim[t] \in 1..made
  BY DEF HandleInv, Types
<1> QED BY <1>1, <1>2 DEF NumberInv

-----------------------------------------------------------------------------
(* Types *)

\* Nothing is installed.
LEMMA TypesInit == Init => Types
<1> SUFFICES ASSUME Init  PROVE Types
  OBVIOUS
<1>1. fds \in [Fd -> Ends]
  BY DEF Init, Ends
<1>2. /\ tpc \in [Threads -> ThreadPc] /\ wpc \in [Handle -> WatcherPc]
  BY DEF Init, ThreadPc, WatcherPc
<1>3. /\ slot \in Fd \cup {NoFd} /\ armed \in BOOLEAN /\ stray \in BOOLEAN /\ twice \in BOOLEAN
      /\ registry \in Handle \cup {None} /\ held \subseteq Fd
      /\ after \in [Threads -> {"idle", "pipe", "exited"}]
      /\ victim \in [Threads -> Handle \cup {None}] /\ fresh \in [Threads -> Handle \cup {None}]
      /\ oldFd \in [Threads -> Fd \cup {NoFd}]
      /\ readFd \in [Handle -> Fd \cup {NoFd}] /\ writeFd \in [Handle -> Fd \cup {NoFd}]
      /\ inflight \in Fd \cup {NoFd}
  BY DEF Init
<1>4. /\ pipe \in [Handle -> Nat]
      /\ made \in 0..MaxInstalls /\ sent \in 0..MaxSignals /\ opened \in 0..MaxOther
  BY BoundAssumption DEF Init
<1>5. returned \cup closed \cup uninstalled \cup stopEvent \cup owed \cup failed \subseteq Handle
  BY DEF Init
<1> QED BY <1>1, <1>2, <1>3, <1>4, <1>5 DEF Types

\* A thread goes to another place.
LEMMA ThreadTypes ==
  ASSUME Types, NEW t \in Threads, NEW from, NEW to \in ThreadPc, Goto(t, from, to)
  PROVE  tpc' \in [Threads -> ThreadPc]
BY DEF Types, Goto

\* A thread enters or leaves uninstall(), or leaves an installation.
LEMMA CallTypes ==
  ASSUME Types, NEW t \in Threads, NEW h \in Handle \cup {None}, NEW pc \in {"idle", "pipe", "exited"}
  PROVE  /\ CallUninstall(t, h, pc) \/ Resume(t) =>
              /\ tpc' \in [Threads -> ThreadPc] /\ after' \in [Threads -> {"idle", "pipe", "exited"}]
              /\ victim' \in [Threads -> Handle \cup {None}]
         /\ InstallRaises(t) =>
              /\ tpc' \in [Threads -> ThreadPc] /\ fresh' \in [Threads -> Handle \cup {None}]
              /\ oldFd' \in [Threads -> Fd \cup {NoFd}]
<1>1. \A pc1 \in {"idle", "pipe", "exited"} : pc1 \in ThreadPc
  BY DEF ThreadPc
<1>2. ASSUME CallUninstall(t, h, pc)
      PROVE  /\ tpc' \in [Threads -> ThreadPc] /\ after' \in [Threads -> {"idle", "pipe", "exited"}]
             /\ victim' \in [Threads -> Handle \cup {None}]
  <2>1. (IF h = None THEN pc ELSE "test") \in ThreadPc
    BY DEF ThreadPc
  <2>2. (IF h = None THEN "idle" ELSE pc) \in {"idle", "pipe", "exited"}
    OBVIOUS
  <2> QED BY <1>2, <2>1, <2>2 DEF CallUninstall, Types
<1>3. ASSUME Resume(t)
      PROVE  /\ tpc' \in [Threads -> ThreadPc] /\ after' \in [Threads -> {"idle", "pipe", "exited"}]
             /\ victim' \in [Threads -> Handle \cup {None}]
  <2>1. after[t] \in ThreadPc
    BY <1>1 DEF Types
  <2> QED BY <1>3, <2>1 DEF Resume, Types
<1>4. ASSUME InstallRaises(t)
      PROVE  /\ tpc' \in [Threads -> ThreadPc] /\ fresh' \in [Threads -> Handle \cup {None}]
             /\ oldFd' \in [Threads -> Fd \cup {NoFd}]
  BY <1>1, <1>4 DEF InstallRaises, Types
<1> QED BY <1>2, <1>3, <1>4

\* Every step keeps the types.
LEMMA TypesNext == Types /\ PipeInv /\ HandleInv /\ NumberInv /\ [Next]_vars => Types'
<1> SUFFICES ASSUME Types, PipeInv, HandleInv, NumberInv, [Next]_vars  PROVE Types'
  OBVIOUS
<1> USE DEF kernelVars, threadVars, handleVars, ghostVars
<1>1. ASSUME NEW t \in Threads, Install(t) \/ UninstallSignal(t) \/ ExitHook(t)  PROVE Types'
  <2>1. registry \in Handle \cup {None}
    BY DEF Types
  <2>2. /\ tpc' \in [Threads -> ThreadPc] /\ after' \in [Threads -> {"idle", "pipe", "exited"}]
        /\ victim' \in [Threads -> Handle \cup {None}]
    BY <1>1, <2>1, CallTypes DEF Install, UninstallSignal, ExitHook
  <2>3. registry' \in Handle \cup {None}
    BY <1>1 DEF Install, UninstallSignal, ExitHook
  <2>4. UNCHANGED <<kernelVars, slot, armed, returned, fresh, oldFd, made, handleVars, wpc, ghostVars>>
    BY <1>1 DEF Install, UninstallSignal, ExitHook
  <2> QED BY <2>2, <2>3, <2>4 DEF Types
<1>2. ASSUME NEW t \in Threads, UninstallHandle(t)  PROVE Types'
  <2>1. PICK h \in returned : CallUninstall(t, h, "idle")
    BY <1>2 DEF UninstallHandle
  <2>2. h \in Handle
    BY <2>1 DEF Types
  <2> QED BY <1>2, <2>1, <2>2, CallTypes DEF UninstallHandle, Types
<1>3. ASSUME NEW t \in Threads, TestUninstalled(t)  PROVE Types'
  <2>1. twice' \in BOOLEAN
    BY <1>3 DEF TestUninstalled, Types
  <2>2. CASE Resume(t)
    <3>1. /\ tpc' \in [Threads -> ThreadPc] /\ after' \in [Threads -> {"idle", "pipe", "exited"}]
          /\ victim' \in [Threads -> Handle \cup {None}]
      BY <2>2, CallTypes
    <3> QED BY <1>3, <2>1, <3>1 DEF TestUninstalled, Types
  <2>3. CASE Goto(t, "test", "stop") /\ UNCHANGED <<after, victim>>
    <3>1. tpc' \in [Threads -> ThreadPc]
      BY <2>3, ThreadTypes DEF ThreadPc
    <3> QED BY <1>3, <2>1, <2>3, <3>1 DEF TestUninstalled, Types
  <2> QED BY <1>3, <2>2, <2>3 DEF TestUninstalled
<1>4. ASSUME NEW t \in Threads, MarkUninstalled(t) \/ SetStop(t) \/ MarkClosed(t)  PROVE Types'
  <2>1. tpc' \in [Threads -> ThreadPc]
    BY <1>4, ThreadTypes DEF MarkUninstalled, SetStop, MarkClosed, ThreadPc
  <2>2. victim[t] \in Handle
    BY <1>4, Numbers DEF MarkUninstalled, SetStop, MarkClosed, Goto, VictimPcs, StopPcs
  <2>3. closed' \cup uninstalled' \cup stopEvent' \subseteq Handle
    BY <1>4, <2>2 DEF MarkUninstalled, SetStop, MarkClosed, Types
  <2>4. UNCHANGED <<kernelVars, slot, armed, registry, returned, after, victim, fresh, oldFd, made,
                    readFd, writeFd, wpc, ghostVars>>
    BY <1>4 DEF MarkUninstalled, SetStop, MarkClosed
  <2> QED BY <2>1, <2>3, <2>4 DEF Types
<1>5. ASSUME NEW t \in Threads, Join(t) \/ TestReadFd(t)  PROVE Types'
  <2>1. tpc' \in [Threads -> ThreadPc]
    BY <1>5, ThreadTypes DEF Join, TestReadFd, ThreadPc
  <2>2. UNCHANGED <<kernelVars, slot, armed, registry, returned, after, victim, fresh, oldFd, made,
                    handleVars, wpc, ghostVars>>
    BY <1>5 DEF Join, TestReadFd
  <2> QED BY <2>1, <2>2 DEF Types
<1>6. ASSUME NEW t \in Threads, CloseReadEnd(t)  PROVE Types'
  <2>1. tpc' \in [Threads -> ThreadPc]
    BY <1>6, ThreadTypes DEF CloseReadEnd, ThreadPc
  <2>2. readFd[victim[t]] \in Fd
    BY <1>6, Numbers DEF CloseReadEnd, Goto, VictimPcs, StopPcs
  <2>3. fds' \in [Fd -> Ends]
    BY <1>6, <2>2, CloseFd DEF CloseReadEnd
  <2> QED BY <1>6, <2>1, <2>3 DEF CloseReadEnd, Types
<1>7. ASSUME NEW t \in Threads, Deregister(t)  PROVE Types'
  <2>1. /\ tpc' \in [Threads -> ThreadPc] /\ after' \in [Threads -> {"idle", "pipe", "exited"}]
        /\ victim' \in [Threads -> Handle \cup {None}]
    BY <1>7, CallTypes DEF Deregister
  <2> QED BY <1>7, <2>1 DEF Deregister, Types
<1>8. ASSUME NEW t \in Threads, PipeFails(t) \/ StartFails(t)  PROVE Types'
  <2>1. /\ tpc' \in [Threads -> ThreadPc] /\ fresh' \in [Threads -> Handle \cup {None}]
        /\ oldFd' \in [Threads -> Fd \cup {NoFd}]
    BY <1>8, CallTypes DEF PipeFails, StartFails
  <2>2. failed' \subseteq Handle
    <3>1. CASE PipeFails(t)
      BY <3>1 DEF PipeFails, Types
    <3>2. CASE StartFails(t)
      <4>1. fresh[t] \in Handle
        BY <3>2 DEF StartFails, Types, PipeInv, FreshPcs
      <4> QED BY <3>2, <4>1 DEF StartFails, Types
    <3> QED BY <1>8, <3>1, <3>2
  <2>3. UNCHANGED <<kernelVars, slot, armed, registry, returned, after, victim, made, handleVars, wpc,
                    owed, stray, twice>>
    BY <1>8 DEF PipeFails, StartFails
  <2> QED BY <2>1, <2>2, <2>3 DEF Types
<1>9. ASSUME NEW t \in Threads, CreatePipe(t)  PROVE Types'
  <2> DEFINE r == Lowest(UnusedFds)
             w == Lowest(UnusedFds \ {r})
  <2>1. tpc' \in [Threads -> ThreadPc]
    BY <1>9, ThreadTypes DEF CreatePipe, ThreadPc
  <2>2. r \in Fd /\ w \in Fd
    BY <1>9, NewEnds DEF CreatePipe
  <2>3. made + 1 \in Handle /\ made + 1 \in 0..MaxInstalls
    BY <1>9, BoundAssumption DEF CreatePipe, Types, Handle
  <2>4. fds' = [fds EXCEPT ![r] = ReadEnd(made + 1), ![w] = WriteEnd(made + 1)]
        /\ readFd' = [readFd EXCEPT ![made + 1] = r] /\ writeFd' = [writeFd EXCEPT ![made + 1] = w]
        /\ made' = made + 1
        /\ fresh' = [fresh EXCEPT ![t] = made + 1]
    BY <1>9 DEF CreatePipe
  <2> HIDE DEF r, w
  <2>5. fds' \in [Fd -> Ends]
    BY <2>2, <2>3, <2>4 DEF Types, Ends
  <2>6. readFd' \in [Handle -> Fd \cup {NoFd}] /\ writeFd' \in [Handle -> Fd \cup {NoFd}]
        /\ fresh' \in [Threads -> Handle \cup {None}] /\ made' \in 0..MaxInstalls
    BY <2>2, <2>3, <2>4 DEF Types
  <2>7. UNCHANGED <<pipe, inflight, sent, opened, held, slot, armed, registry, returned,
                    after, victim, oldFd, closed, uninstalled, stopEvent, wpc, ghostVars>>
    BY <1>9 DEF CreatePipe
  <2> QED BY <2>1, <2>5, <2>6, <2>7 DEF Types
<1>10. ASSUME NEW t \in Threads, SwapSlot(t)  PROVE Types'
  <2>1. tpc' \in [Threads -> ThreadPc]
    BY <1>10, ThreadTypes DEF SwapSlot, ThreadPc
  <2>2. writeFd[fresh[t]] \in Fd
    BY <1>10, Numbers DEF SwapSlot, Goto, FreshPcs
  <2> QED BY <1>10, <2>1, <2>2 DEF SwapSlot, Types
<1>11. ASSUME NEW t \in Threads, CloseOld(t)  PROVE Types'
  <2>1. tpc' \in [Threads -> ThreadPc]
    BY <1>11, ThreadTypes DEF CloseOld, ThreadPc
  <2>2. fds' \in [Fd -> Ends]
    BY <1>11, CloseFd DEF CloseOld, Types
  <2> QED BY <1>11, <2>1, <2>2 DEF CloseOld, Types
<1>12. ASSUME NEW t \in Threads, Arm(t) \/ SigactionFails(t)  PROVE Types'
  <2>1. tpc' \in [Threads -> ThreadPc]
    BY <1>12, ThreadTypes DEF Arm, SigactionFails, ThreadPc
  <2>2. armed' \in BOOLEAN /\ slot' \in Fd \cup {NoFd} /\ oldFd' \in [Threads -> Fd \cup {NoFd}]
    BY <1>12 DEF Arm, SigactionFails, Types
  <2>3. UNCHANGED <<kernelVars, registry, returned, after, victim, fresh, made, handleVars, wpc, ghostVars>>
    BY <1>12 DEF Arm, SigactionFails
  <2> QED BY <2>1, <2>2, <2>3 DEF Types
<1>13. ASSUME NEW t \in Threads, Undo(t)  PROVE Types'
  <2>1. /\ tpc' \in [Threads -> ThreadPc] /\ fresh' \in [Threads -> Handle \cup {None}]
        /\ oldFd' \in [Threads -> Fd \cup {NoFd}]
    BY <1>13, CallTypes DEF Undo
  <2>2. fds' \in [Fd -> Ends]
    <3>1. Without(fds, oldFd[t]) \in [Fd -> Ends]
      BY CloseFd DEF Types
    <3> QED BY <1>13, <3>1 DEF Undo, Without, Ends
  <2> QED BY <1>13, <2>1, <2>2 DEF Undo, Types
<1>14. ASSUME NEW t \in Threads, StartWatcher(t)  PROVE Types'
  <2>1. tpc' \in [Threads -> ThreadPc]
    BY <1>14, ThreadTypes DEF StartWatcher, ThreadPc
  <2>2. wpc' \in [Handle -> WatcherPc]
    BY <1>14 DEF StartWatcher, Types, WatcherPc
  <2> QED BY <1>14, <2>1, <2>2 DEF StartWatcher, Types
<1>15. ASSUME NEW t \in Threads, Assign(t)  PROVE Types'
  <2>1. tpc' \in [Threads -> ThreadPc]
    BY <1>15, ThreadTypes DEF Assign, ThreadPc
  <2>2. fresh[t] \in Handle
    BY <1>15 DEF Assign, Goto, Types, PipeInv, FreshPcs
  <2>3. registry' \in Handle \cup {None} /\ fresh' \in [Threads -> Handle \cup {None}]
    BY <1>15, <2>2 DEF Assign, Types
  <2>4. returned' \subseteq Handle
    BY <1>15, <2>2 DEF Assign, Types
  <2>5. UNCHANGED <<kernelVars, slot, armed, after, victim, oldFd, made, handleVars, wpc, ghostVars>>
    BY <1>15 DEF Assign
  <2> QED BY <2>1, <2>3, <2>4, <2>5 DEF Types
<1>16. ASSUME NEW h \in Handle, Watcher(h)  PROVE Types'
  <2>1. wpc' \in [Handle -> WatcherPc]
    BY <1>16 DEF Watcher, Select, Recheck, Read, StartDump, DumpEnds, WatcherGoto, Types, WatcherPc
  <2>2. pipe' \in [Handle -> Nat] /\ owed' \subseteq Handle
    BY <1>16 DEF Watcher, Select, Recheck, Read, StartDump, DumpEnds, Types
  <2>3. UNCHANGED <<fds, inflight, sent, opened, held, slot, armed, registry, returned, threadVars,
                    made, handleVars, failed, stray, twice>>
    BY <1>16 DEF Watcher, Select, Recheck, Read, StartDump, DumpEnds
  <2> QED BY <2>1, <2>2, <2>3 DEF Types
<1>17. CASE LoadSlot
  <2>1. sent' \in 0..MaxSignals /\ inflight' \in Fd \cup {NoFd}
    BY <1>17, BoundAssumption DEF LoadSlot, Types
  <2> QED BY <1>17, <2>1 DEF LoadSlot, Types
<1>18. CASE WriteByte
  <2>1. inflight \in Fd /\ inflight' \in Fd \cup {NoFd}
    BY <1>18 DEF WriteByte, Types
  <2>2. CASE fds[inflight].kind = "write" /\ ReaderOpen(fds[inflight].of)
    <3>1. fds[inflight].of \in Handle
      BY <2>1, <2>2, EndKinds
    <3>2. pipe' = [pipe EXCEPT ![fds[inflight].of] = @ + 1] /\ owed' = owed \cup {fds[inflight].of} /\ stray' = stray
      BY <1>18, <2>2 DEF WriteByte
    <3>3. pipe' \in [Handle -> Nat]
      BY <3>1, <3>2 DEF Types
    <3> QED BY <1>18, <2>1, <3>1, <3>2, <3>3 DEF WriteByte, Types
  <2>3. CASE ~(fds[inflight].kind = "write" /\ ReaderOpen(fds[inflight].of))
    <3>1. stray' = (stray \/ fds[inflight] = Foreign) /\ UNCHANGED <<pipe, owed>>
      BY <1>18, <2>3 DEF WriteByte
    <3>2. stray' \in BOOLEAN
      BY <3>1
    <3> QED BY <1>18, <2>1, <3>1, <3>2 DEF WriteByte, Types
  <2> QED BY <2>2, <2>3
<1>19. CASE OpenForeign
  <2>1. Lowest(UnusedFds) \in Fd
    BY <1>19, NoNumbers, LowestIn DEF OpenForeign, UnusedFds
  <2>2. fds' \in [Fd -> Ends]
    BY <1>19, <2>1 DEF OpenForeign, Types, Ends
  <2>3. opened' \in 0..MaxOther /\ held' \subseteq Fd
    BY <1>19, <2>1, BoundAssumption DEF OpenForeign, Types
  <2> QED BY <1>19, <2>2, <2>3 DEF OpenForeign, Types
<1>20. CASE CloseForeign
  <2>1. fds' \in [Fd -> Ends] /\ held' \subseteq Fd
    BY <1>20, CloseFd DEF CloseForeign, Types
  <2> QED BY <1>20, <2>1 DEF CloseForeign, Types
<1>21. CASE UNCHANGED vars
  BY <1>21 DEF vars, Types
<1> QED BY <1>1, <1>2, <1>3, <1>4, <1>5, <1>6, <1>7, <1>8, <1>9, <1>10, <1>11, <1>12, <1>13, <1>14,
           <1>15, <1>16, <1>17, <1>18, <1>19, <1>20, <1>21 DEF Next, Uninstalling, Installing

-----------------------------------------------------------------------------
(* Bytes and pipes *)

\* A byte is written only by a signal that has been delivered.
LEMMA BytesNext == Types /\ BytesInv /\ [Next]_vars => BytesInv'
<1> SUFFICES ASSUME Types, BytesInv, [Next]_vars  PROVE BytesInv'
  OBVIOUS
<1> USE DEF kernelVars, threadVars, handleVars, ghostVars
<1>0. sent \in Nat /\ \A h \in Handle : pipe[h] \in Nat
  BY BoundAssumption DEF Types
<1>1. CASE LoadSlot
  <2>1. sent' = sent + 1 /\ pipe' = pipe
    BY <1>1 DEF LoadSlot
  <2> QED BY <1>0, <2>1 DEF BytesInv
<1>2. CASE WriteByte
  <2>1. inflight # NoFd /\ inflight' = NoFd /\ sent' = sent
    BY <1>2 DEF WriteByte
  <2>2. \A h \in Handle : pipe'[h] = pipe[h] \/ pipe'[h] = pipe[h] + 1
    BY <1>2 DEF WriteByte, Types
  <2> QED BY <1>0, <2>1, <2>2 DEF BytesInv
<1>3. ASSUME NEW h \in Handle, Read(h)  PROVE BytesInv'
  <2>1. UNCHANGED <<sent, inflight>> /\ \A k \in Handle : pipe'[k] = pipe[k] \/ pipe'[k] = 0
    BY <1>3 DEF Read, Types
  <2> QED BY <1>0, <2>1 DEF BytesInv
<1>4. ASSUME NEW h \in Handle, Select(h) \/ Recheck(h) \/ StartDump(h) \/ DumpEnds(h)  PROVE BytesInv'
  BY <1>4 DEF Select, Recheck, StartDump, DumpEnds, BytesInv
<1>5. ASSUME NEW t \in Threads, Install(t) \/ UninstallHandle(t) \/ UninstallSignal(t) \/ ExitHook(t)
                                  \/ Uninstalling(t)
      PROVE  UNCHANGED <<pipe, sent, inflight>>
  BY <1>5 DEF Install, UninstallHandle, UninstallSignal, ExitHook, Uninstalling,
              TestUninstalled, MarkUninstalled, SetStop, Join, TestReadFd, CloseReadEnd, MarkClosed,
              Deregister
<1>6. ASSUME NEW t \in Threads, Installing(t)
      PROVE  UNCHANGED <<pipe, sent, inflight>>
  BY <1>6 DEF Installing, PipeFails, CreatePipe, SwapSlot, CloseOld, Arm, SigactionFails, Undo,
              StartWatcher, StartFails, Assign
<1>7. CASE OpenForeign \/ CloseForeign
  BY <1>7 DEF OpenForeign, CloseForeign, BytesInv
<1>8. CASE UNCHANGED <<pipe, sent, inflight>>
  BY <1>8 DEF BytesInv
<1>9. CASE UNCHANGED vars
  BY <1>9 DEF vars, BytesInv
<1> QED BY <1>1, <1>2, <1>3, <1>4, <1>5, <1>6, <1>7, <1>8, <1>9 DEF Next, Watcher

\* Steps that neither open a pipe nor give one to a thread or take it away.
LEMMA PipeQuiet ==
  ASSUME Types, PipeInv, made' = made, fresh' = fresh,
         \A f \in Fd : fds'[f] = fds[f] \/ fds'[f] \in {Unused, Foreign},
         \A t \in Threads : tpc'[t] \in FreshPcs <=> tpc[t] \in FreshPcs
  PROVE  PipeInv'
<1>1. \A f \in Fd : fds'[f].kind \in {"read", "write"} => fds'[f] = fds[f]
  BY DEF Unused, Foreign
<1> QED BY <1>1 DEF PipeInv

\* A thread that gives its pipe up.
LEMMA PipeGiven ==
  ASSUME Types, PipeInv, NEW t \in Threads, made' = made, fresh' = [fresh EXCEPT ![t] = None],
         \A f \in Fd : fds'[f] = fds[f] \/ fds'[f] \in {Unused, Foreign},
         tpc' = [tpc EXCEPT ![t] = "idle"]
  PROVE  PipeInv'
<1>1. \A f \in Fd : fds'[f].kind \in {"read", "write"} => fds'[f] = fds[f]
  BY DEF Unused, Foreign
<1>2. /\ fresh'[t] = None /\ \A o \in Threads \ {t} : fresh'[o] = fresh[o] /\ tpc'[o] = tpc[o]
      /\ tpc'[t] = "idle"
  BY DEF Types
<1>3. None \in 0..made
  BY BoundAssumption DEF Types, None
<1>4. "idle" \notin FreshPcs
  BY DEF FreshPcs
<1> QED BY <1>1, <1>2, <1>3, <1>4 DEF PipeInv

\* Where uninstall() and the calls of it go is not where a pipe is in hand.
LEMMA CallPlaces ==
  ASSUME Types, NEW t \in Threads, NEW h, NEW pc \in {"idle", "pipe", "exited"}
  PROVE  /\ CallUninstall(t, h, pc) =>
              /\ tpc'[t] \in {"idle", "pipe", "exited", "test"} /\ victim'[t] = h
              /\ h = None => tpc'[t] # "test"
              /\ \A o \in Threads \ {t} : tpc'[o] = tpc[o] /\ victim'[o] = victim[o]
         /\ Resume(t) =>
              /\ tpc'[t] \in {"idle", "pipe", "exited"} /\ victim'[t] = None
              /\ \A o \in Threads \ {t} : tpc'[o] = tpc[o] /\ victim'[o] = victim[o]
BY DEF Types, CallUninstall, Resume

\* Only a new pipe has a new name, and the thread that made it has it in
\* hand until it has been returned or undone.
LEMMA PipeNext == Types /\ PipeInv /\ HandleInv /\ NumberInv /\ [Next]_vars => PipeInv'
<1> SUFFICES ASSUME Types, PipeInv, HandleInv, NumberInv, [Next]_vars  PROVE PipeInv'
  OBVIOUS
<1> USE DEF kernelVars, threadVars, handleVars, ghostVars
<1>1. ASSUME NEW t \in Threads, Install(t) \/ UninstallHandle(t) \/ UninstallSignal(t) \/ ExitHook(t)
      PROVE  PipeInv'
  <2>1. /\ tpc[t] = "idle" /\ UNCHANGED <<made, fresh, fds>>
        /\ \E h, pc : pc \in {"idle", "pipe", "exited"} /\ CallUninstall(t, h, pc)
    BY <1>1 DEF Install, UninstallHandle, UninstallSignal, ExitHook
  <2>2. tpc'[t] \in {"idle", "pipe", "exited", "test"} /\ \A o \in Threads \ {t} : tpc'[o] = tpc[o]
    BY <2>1, CallPlaces
  <2>3. \A o \in Threads : tpc'[o] \in FreshPcs <=> tpc[o] \in FreshPcs
    BY <2>1, <2>2 DEF FreshPcs
  <2> QED BY <2>1, <2>3, PipeQuiet
<1>2. ASSUME NEW t \in Threads, TestUninstalled(t) \/ Deregister(t)  PROVE PipeInv'
  <2>1. /\ tpc[t] \in {"test", "deregister"} /\ UNCHANGED <<made, fresh, fds>>
        /\ Resume(t) \/ Goto(t, "test", "stop")
    BY <1>2 DEF TestUninstalled, Deregister
  <2>2. tpc'[t] \in {"idle", "pipe", "exited", "stop"} /\ \A o \in Threads \ {t} : tpc'[o] = tpc[o]
    <3>1. CASE Resume(t)
      BY <3>1, CallPlaces
    <3>2. CASE Goto(t, "test", "stop")
      BY <3>2 DEF Goto, Types
    <3> QED BY <2>1, <3>1, <3>2
  <2>3. \A o \in Threads : tpc'[o] \in FreshPcs <=> tpc[o] \in FreshPcs
    BY <2>1, <2>2 DEF FreshPcs
  <2> QED BY <2>1, <2>3, PipeQuiet
<1>3. ASSUME NEW t \in Threads,
             MarkUninstalled(t) \/ SetStop(t) \/ Join(t) \/ TestReadFd(t) \/ MarkClosed(t)
      PROVE  PipeInv'
  <2>1. UNCHANGED <<made, fresh, fds>>
    BY <1>3 DEF MarkUninstalled, SetStop, Join, TestReadFd, MarkClosed
  <2>2. \A o \in Threads : tpc'[o] \in FreshPcs <=> tpc[o] \in FreshPcs
    BY <1>3 DEF MarkUninstalled, SetStop, Join, TestReadFd, MarkClosed, Goto, FreshPcs, Types
  <2> QED BY <2>1, <2>2, PipeQuiet
<1>4. ASSUME NEW t \in Threads, CloseReadEnd(t)  PROVE PipeInv'
  <2>1. UNCHANGED <<made, fresh>> /\ fds' = Without(fds, readFd[victim[t]])
    BY <1>4 DEF CloseReadEnd
  <2>2. \A o \in Threads : tpc'[o] \in FreshPcs <=> tpc[o] \in FreshPcs
    BY <1>4 DEF CloseReadEnd, Goto, FreshPcs, Types
  <2>3. readFd[victim[t]] \in Fd
    BY <1>4, Numbers DEF CloseReadEnd, Goto, VictimPcs, StopPcs
  <2>4. \A f \in Fd : fds'[f] = fds[f] \/ fds'[f] \in {Unused, Foreign}
    BY <2>1, <2>3, CloseFd
  <2> QED BY <2>1, <2>2, <2>4, PipeQuiet
<1>5. ASSUME NEW t \in Threads, PipeFails(t)  PROVE PipeInv'
  BY <1>5, PipeGiven DEF PipeFails, InstallRaises
<1>6. ASSUME NEW t \in Threads, StartFails(t)  PROVE PipeInv'
  BY <1>6, PipeGiven DEF StartFails, InstallRaises
<1>7. ASSUME NEW t \in Threads, Undo(t)  PROVE PipeInv'
  <2>1. readFd[fresh[t]] \in Fd \cup {NoFd} /\ oldFd[t] \in Fd \cup {NoFd}
    BY <1>7 DEF Undo, PipeInv, FreshPcs, Types
  <2>2. \A f \in Fd : fds'[f] = fds[f] \/ fds'[f] \in {Unused, Foreign}
    <3>1. \A f \in Fd : Without(fds, oldFd[t])[f] = fds[f] \/ Without(fds, oldFd[t])[f] = Unused
      BY <2>1, CloseFd
    <3>2. \A f \in Fd : fds'[f] = Without(fds, oldFd[t])[f] \/ fds'[f] = Unused
      <4>1. Without(fds, oldFd[t]) \in [Fd -> Ends]
        BY <2>1, CloseFd
      <4> QED BY <1>7, <2>1, <4>1 DEF Undo, Without
    <3> QED BY <3>1, <3>2
  <2> QED BY <1>7, <2>2, PipeGiven DEF Undo, InstallRaises
<1>8. ASSUME NEW t \in Threads, Assign(t)  PROVE PipeInv'
  BY <1>8, PipeGiven DEF Assign, Goto
<1>9. ASSUME NEW t \in Threads, CreatePipe(t)  PROVE PipeInv'
  <2> DEFINE r == Lowest(UnusedFds)
             w == Lowest(UnusedFds \ {r})
  <2>1. r \in Fd /\ w \in Fd /\ fds' = [fds EXCEPT ![r] = ReadEnd(made + 1), ![w] = WriteEnd(made + 1)]
    BY <1>9, NewEnds DEF CreatePipe
  <2>2. /\ made' = made + 1 /\ made \in Nat /\ fresh' = [fresh EXCEPT ![t] = made + 1] /\ tpc[t] = "pipe"
        /\ tpc' = [tpc EXCEPT ![t] = "swap"]
    BY <1>9, BoundAssumption DEF CreatePipe, Goto, Types
  <2> HIDE DEF r, w
  <2>3. \A f \in Fd : fds'[f] = fds[f] \/ fds'[f].of = made + 1
    BY <2>1 DEF Types, ReadEnd, WriteEnd
  <2>4. \A f \in Fd : fds'[f].kind \in {"read", "write"} => fds'[f].of \in 1..made'
    <3> SUFFICES ASSUME NEW f \in Fd, fds'[f].kind \in {"read", "write"}  PROVE fds'[f].of \in 1..(made + 1)
      BY <2>2
    <3>1. CASE fds'[f] = fds[f]
      <4>1. fds'[f].of \in 1..made
        BY <3>1 DEF PipeInv
      <4> QED BY <2>2, <4>1
    <3>2. CASE fds'[f].of = made + 1
      BY <2>2, <3>2
    <3> QED BY <2>3, <3>1, <3>2
  <2>5. /\ tpc'[t] = "swap" /\ fresh'[t] = made + 1
        /\ \A o \in Threads \ {t} : tpc'[o] = tpc[o] /\ fresh'[o] = fresh[o]
    BY <2>2 DEF Types
  <2>6. \A o \in Threads : fresh[o] \in 0..made
    BY DEF PipeInv
  <2>7. \A o \in Threads : fresh'[o] \in 0..made'
    BY <2>2, <2>5, <2>6
  <2>8. \A o \in Threads : tpc'[o] \in FreshPcs <=> fresh'[o] # None
    BY <2>2, <2>5 DEF PipeInv, FreshPcs, None
  <2>9. \A o, s \in Threads : fresh'[o] = fresh'[s] /\ fresh'[o] # None => o = s
    <3>1. \A o \in Threads \ {t} : fresh'[o] # made + 1
      BY <2>2, <2>5, <2>6
    <3> QED BY <2>5, <3>1 DEF PipeInv
  <2> QED BY <2>4, <2>7, <2>8, <2>9 DEF PipeInv
<1>10. ASSUME NEW t \in Threads, SwapSlot(t) \/ Arm(t) \/ SigactionFails(t) \/ StartWatcher(t)  PROVE PipeInv'
  <2>1. UNCHANGED <<made, fresh, fds>>
    BY <1>10 DEF SwapSlot, Arm, SigactionFails, StartWatcher
  <2>2. \A o \in Threads : tpc'[o] \in FreshPcs <=> tpc[o] \in FreshPcs
    BY <1>10 DEF SwapSlot, Arm, SigactionFails, StartWatcher, Goto, FreshPcs, Types
  <2> QED BY <2>1, <2>2, PipeQuiet
<1>11. ASSUME NEW t \in Threads, CloseOld(t)  PROVE PipeInv'
  <2>1. UNCHANGED <<made, fresh>>
    BY <1>11 DEF CloseOld
  <2>2. \A o \in Threads : tpc'[o] \in FreshPcs <=> tpc[o] \in FreshPcs
    BY <1>11 DEF CloseOld, Goto, FreshPcs, Types
  <2>3. oldFd[t] \in Fd \cup {NoFd}
    BY DEF Types
  <2>4. \A f \in Fd : fds'[f] = fds[f] \/ fds'[f] \in {Unused, Foreign}
    BY <1>11, <2>3, CloseFd DEF CloseOld
  <2> QED BY <2>1, <2>2, <2>4, PipeQuiet
<1>12. ASSUME NEW h \in Handle, Watcher(h)  PROVE PipeInv'
  <2>1. UNCHANGED <<made, fresh, fds, tpc>>
    BY <1>12 DEF Watcher, Select, Recheck, Read, StartDump, DumpEnds
  <2> QED BY <2>1, PipeQuiet
<1>13. CASE LoadSlot \/ WriteByte
  <2>1. UNCHANGED <<made, fresh, fds, tpc>>
    BY <1>13 DEF LoadSlot, WriteByte
  <2> QED BY <2>1, PipeQuiet
<1>14. CASE OpenForeign \/ CloseForeign
  <2>1. UNCHANGED <<made, fresh, tpc>>
    BY <1>14 DEF OpenForeign, CloseForeign
  <2>2. \A f \in Fd : fds'[f] = fds[f] \/ fds'[f] \in {Unused, Foreign}
    <3>1. CASE OpenForeign
      BY <3>1 DEF OpenForeign, Types
    <3>2. CASE CloseForeign
      BY <3>2, CloseFd DEF CloseForeign, Types
    <3> QED BY <1>14, <3>1, <3>2
  <2> QED BY <2>1, <2>2, PipeQuiet
<1>15. CASE UNCHANGED vars
  BY <1>15, PipeQuiet DEF vars
<1> QED BY <1>1, <1>2, <1>3, <1>4, <1>5, <1>6, <1>7, <1>8, <1>9, <1>10, <1>11, <1>12, <1>13, <1>14,
           <1>15 DEF Next, Uninstalling, Installing

-----------------------------------------------------------------------------
(* Handles *)

\* Steps after which a thread that is to uninstall has a returned handle.
LEMMA HandleQuiet ==
  ASSUME HandleInv, UNCHANGED <<closed, returned, made>>, registry' \in {registry, None},
         \A t \in Threads : /\ fresh'[t] \in {fresh[t], None}
                            /\ victim'[t] \in returned \cup {None}
                            /\ tpc'[t] \in VictimPcs => victim'[t] # None
  PROVE  HandleInv'
BY DEF HandleInv

\* Steps of a thread that are not calls of uninstall() or returns from it.
LEMMA HandleMoves ==
  ASSUME HandleInv, NEW t \in Threads, UNCHANGED <<closed, returned, made, registry, victim>>,
         tpc'[t] \in VictimPcs => tpc[t] \in VictimPcs, fresh'[t] \in {fresh[t], None},
         \A o \in Threads \ {t} : tpc'[o] = tpc[o] /\ fresh'[o] = fresh[o]
  PROVE  HandleInv'
BY DEF HandleInv

\* A thread that has a handle to uninstall has one that was returned.
LEMMA HandleNext == Types /\ PipeInv /\ HandleInv /\ [Next]_vars => HandleInv'
<1> SUFFICES ASSUME Types, PipeInv, HandleInv, [Next]_vars  PROVE HandleInv'
  OBVIOUS
<1> USE DEF kernelVars, threadVars, handleVars, ghostVars
<1>1. ASSUME NEW t \in Threads, Install(t) \/ UninstallHandle(t) \/ UninstallSignal(t) \/ ExitHook(t)
      PROVE  HandleInv'
  <2>1. /\ UNCHANGED <<closed, returned, made, fresh>> /\ registry' \in {registry, None}
        /\ \E h, pc : /\ pc \in {"idle", "pipe", "exited"} /\ CallUninstall(t, h, pc)
                      /\ h \in returned \/ h = registry
    BY <1>1 DEF Install, UninstallHandle, UninstallSignal, ExitHook
  <2>2. PICK h, pc : /\ pc \in {"idle", "pipe", "exited"} /\ CallUninstall(t, h, pc)
                     /\ h \in returned \/ h = registry
    BY <2>1
  <2>3. h \in returned \cup {None}
    BY <2>2 DEF HandleInv
  <2>4. /\ tpc'[t] \in {"idle", "pipe", "exited", "test"} /\ victim'[t] = h
        /\ h = None => tpc'[t] # "test"
        /\ \A o \in Threads \ {t} : tpc'[o] = tpc[o] /\ victim'[o] = victim[o]
    BY <2>2, CallPlaces
  <2>5. \A o \in Threads : victim'[o] \in returned \cup {None} /\ (tpc'[o] \in VictimPcs => victim'[o] # None)
    BY <2>3, <2>4 DEF HandleInv, VictimPcs, StopPcs
  <2> QED BY <2>1, <2>5, HandleQuiet
<1>2. ASSUME NEW t \in Threads, Resume(t), UNCHANGED <<closed, returned, made, fresh>>,
             registry' \in {registry, None}
      PROVE  HandleInv'
  <2>1. /\ tpc'[t] \in {"idle", "pipe", "exited"} /\ victim'[t] = None
        /\ \A o \in Threads \ {t} : tpc'[o] = tpc[o] /\ victim'[o] = victim[o]
    BY <1>2, CallPlaces
  <2>2. \A o \in Threads : victim'[o] \in returned \cup {None} /\ (tpc'[o] \in VictimPcs => victim'[o] # None)
    BY <2>1 DEF HandleInv, VictimPcs, StopPcs
  <2> QED BY <1>2, <2>2, HandleQuiet
<1>3. ASSUME NEW t \in Threads, TestUninstalled(t)  PROVE HandleInv'
  <2>1. UNCHANGED <<closed, returned, made, fresh, registry>> /\ tpc[t] = "test"
    BY <1>3 DEF TestUninstalled
  <2>2. CASE Resume(t)
    BY <1>2, <2>1, <2>2
  <2>3. CASE Goto(t, "test", "stop") /\ UNCHANGED victim
    <3>1. \A o \in Threads \ {t} : tpc'[o] = tpc[o]
      BY <2>3 DEF Goto, Types
    <3>2. tpc[t] \in VictimPcs
      BY <2>1 DEF VictimPcs
    <3> QED BY <2>1, <2>3, <3>1, <3>2, HandleMoves
  <2> QED BY <1>3, <2>2, <2>3 DEF TestUninstalled
<1>4. ASSUME NEW t \in Threads, Deregister(t)  PROVE HandleInv'
  BY <1>2, <1>4 DEF Deregister
<1>5. ASSUME NEW t \in Threads,
             MarkUninstalled(t) \/ SetStop(t) \/ Join(t) \/ TestReadFd(t) \/ CloseReadEnd(t)
      PROVE  HandleInv'
  <2>1. UNCHANGED <<closed, returned, made, registry, victim, fresh>>
    BY <1>5 DEF MarkUninstalled, SetStop, Join, TestReadFd, CloseReadEnd
  <2>2. tpc[t] \in VictimPcs /\ \A o \in Threads \ {t} : tpc'[o] = tpc[o]
    BY <1>5 DEF MarkUninstalled, SetStop, Join, TestReadFd, CloseReadEnd, Goto, VictimPcs, StopPcs, Types
  <2> QED BY <2>1, <2>2, HandleMoves
<1>6. ASSUME NEW t \in Threads, MarkClosed(t)  PROVE HandleInv'
  <2>1. /\ tpc[t] = "mark" /\ closed' = closed \cup {victim[t]}
        /\ UNCHANGED <<returned, made, registry, victim, fresh>>
    BY <1>6 DEF MarkClosed, Goto
  <2>2. \A o \in Threads : tpc'[o] \in VictimPcs => tpc[o] \in VictimPcs
    BY <1>6 DEF MarkClosed, Goto, VictimPcs, StopPcs, Types
  <2>3. victim[t] \in returned
    BY <2>1 DEF HandleInv, VictimPcs, StopPcs
  <2> QED BY <2>1, <2>2, <2>3 DEF HandleInv
<1>7. ASSUME NEW t \in Threads,
             \/ PipeFails(t) \/ SwapSlot(t) \/ CloseOld(t) \/ Arm(t) \/ SigactionFails(t)
             \/ Undo(t) \/ StartWatcher(t) \/ StartFails(t)
      PROVE  HandleInv'
  <2>1. UNCHANGED <<closed, returned, made, registry, victim>>
    BY <1>7 DEF PipeFails, SwapSlot, CloseOld, Arm, SigactionFails, Undo, StartWatcher, StartFails
  <2>2. /\ tpc'[t] \in FreshPcs \cup {"idle"} /\ fresh'[t] \in {fresh[t], None}
        /\ \A o \in Threads \ {t} : tpc'[o] = tpc[o] /\ fresh'[o] = fresh[o]
    BY <1>7 DEF PipeFails, SwapSlot, CloseOld, Arm, SigactionFails, Undo, StartWatcher, StartFails,
                InstallRaises, Goto, FreshPcs, Types
  <2>3. tpc'[t] \notin VictimPcs
    BY <2>2 DEF FreshPcs, VictimPcs, StopPcs
  <2> QED BY <2>1, <2>2, <2>3, HandleMoves
<1>8. ASSUME NEW t \in Threads, CreatePipe(t)  PROVE HandleInv'
  <2>1. /\ fresh' = [fresh EXCEPT ![t] = made + 1] /\ made' = made + 1 /\ made \in Nat
        /\ tpc' = [tpc EXCEPT ![t] = "swap"] /\ UNCHANGED <<closed, returned, registry, victim>>
    BY <1>8 DEF CreatePipe, Goto, Types
  <2>2. /\ tpc'[t] = "swap" /\ fresh'[t] = made + 1
        /\ \A o \in Threads \ {t} : tpc'[o] = tpc[o] /\ fresh'[o] = fresh[o]
    BY <2>1 DEF Types
  <2>3. made + 1 \notin returned /\ returned \subseteq 1..made'
    BY <2>1 DEF HandleInv
  <2> QED BY <2>1, <2>2, <2>3 DEF HandleInv, VictimPcs, StopPcs
<1>9. ASSUME NEW t \in Threads, Assign(t)  PROVE HandleInv'
  <2>1. /\ tpc[t] = "assign" /\ tpc' = [tpc EXCEPT ![t] = "idle"] /\ fresh' = [fresh EXCEPT ![t] = None]
        /\ registry' = fresh[t] /\ returned' = returned \cup {fresh[t]}
        /\ UNCHANGED <<closed, made, victim>>
    BY <1>9 DEF Assign, Goto
  <2>2. /\ tpc'[t] = "idle" /\ fresh'[t] = None
        /\ \A o \in Threads \ {t} : tpc'[o] = tpc[o] /\ fresh'[o] = fresh[o]
    BY <2>1 DEF Types
  <2>3. fresh[t] # None /\ fresh[t] \in 1..made
    BY <2>1 DEF PipeInv, FreshPcs, Types, None
  <2>4. \A o \in Threads : fresh'[o] # None => fresh'[o] \notin returned'
    BY <2>1, <2>2, <2>3 DEF HandleInv, PipeInv
  <2> QED BY <2>1, <2>2, <2>3, <2>4 DEF HandleInv, VictimPcs, StopPcs
<1>10. CASE UNCHANGED <<closed, returned, made, registry, victim, fresh, tpc>>
  BY <1>10 DEF HandleInv
<1>11. ASSUME NEW h \in Handle, Watcher(h)
       PROVE  UNCHANGED <<closed, returned, made, registry, victim, fresh, tpc>>
  BY <1>11 DEF Watcher, Select, Recheck, Read, StartDump, DumpEnds
<1>12. LoadSlot \/ WriteByte \/ OpenForeign \/ CloseForeign \/ UNCHANGED vars
         => UNCHANGED <<closed, returned, made, registry, victim, fresh, tpc>>
  BY DEF LoadSlot, WriteByte, OpenForeign, CloseForeign, vars
<1> QED BY <1>1, <1>3, <1>4, <1>5, <1>6, <1>7, <1>8, <1>9, <1>10, <1>11, <1>12
        DEF Next, Uninstalling, Installing

-----------------------------------------------------------------------------
(* Where the ends of a pipe are *)

\* Steps that open no end, and after which only a thread that closes the old
\* write end remembers one.
LEMMA NumberQuiet ==
  ASSUME Types, NumberInv, UNCHANGED <<made, readFd, writeFd>>,
         \A f \in Fd : fds'[f] = fds[f] \/ fds'[f] \in {Unused, Foreign},
         \A t \in Threads : oldFd'[t] \in Fd => tpc'[t] \in {"closeOld", "undo"},
         \A t \in Threads : tpc'[t] = "mark" =>
            \/ tpc[t] = "mark" /\ victim'[t] = victim[t]
            \/ \A f \in Fd : fds'[f] # ReadEnd(victim'[t])
  PROVE  NumberInv'
<1>1. \A f \in Fd : fds'[f].kind \in {"read", "write"} => fds'[f] = fds[f]
  BY DEF Unused, Foreign
<1>2. ASSUME NEW t \in Threads, tpc'[t] = "mark", NEW f \in Fd
      PROVE  fds'[f] # ReadEnd(victim[t])'
  <2>1. CASE tpc[t] = "mark" /\ victim'[t] = victim[t]
    BY <1>1, <2>1 DEF NumberInv, ReadEnd
  <2>2. CASE fds'[f] # ReadEnd(victim'[t])
    BY <2>2 DEF ReadEnd
  <2> QED BY <1>2, <2>1, <2>2
<1>3. \A f \in Fd : /\ fds'[f].kind = "read" => f = readFd'[fds'[f].of]
                    /\ fds'[f].kind = "write" => f = writeFd'[fds'[f].of]
  BY <1>1 DEF NumberInv
<1> QED BY <1>2, <1>3 DEF NumberInv

\* Steps of a thread that remembers no end.
LEMMA NumberMoves ==
  ASSUME Types, NumberInv, NEW t \in Threads, UNCHANGED <<made, readFd, writeFd, oldFd, fds>>,
         tpc[t] \notin {"closeOld", "undo"}, tpc'[t] # "mark",
         \A o \in Threads \ {t} : tpc'[o] = tpc[o] /\ victim'[o] = victim[o]
  PROVE  NumberInv'
<1>1. \A o \in Threads : oldFd'[o] \in Fd => tpc'[o] \in {"closeOld", "undo"}
  BY DEF NumberInv
<1>2. \A o \in Threads : tpc'[o] = "mark" => tpc[o] = "mark" /\ victim'[o] = victim[o]
  OBVIOUS
<1> QED BY <1>1, <1>2, NumberQuiet

\* An end is open at the number its handle remembers, or not at all.
LEMMA NumberNext == Types /\ PipeInv /\ HandleInv /\ NumberInv /\ [Next]_vars => NumberInv'
<1> SUFFICES ASSUME Types, PipeInv, HandleInv, NumberInv, [Next]_vars  PROVE NumberInv'
  OBVIOUS
<1> USE DEF kernelVars, threadVars, handleVars, ghostVars
<1>1. ASSUME NEW t \in Threads, Install(t) \/ UninstallHandle(t) \/ UninstallSignal(t) \/ ExitHook(t)
      PROVE  NumberInv'
  <2>1. /\ tpc[t] = "idle" /\ UNCHANGED <<made, readFd, writeFd, oldFd, fds>>
        /\ \E h, pc : pc \in {"idle", "pipe", "exited"} /\ CallUninstall(t, h, pc)
    BY <1>1 DEF Install, UninstallHandle, UninstallSignal, ExitHook
  <2>2. /\ tpc'[t] \in {"idle", "pipe", "exited", "test"}
        /\ \A o \in Threads \ {t} : tpc'[o] = tpc[o] /\ victim'[o] = victim[o]
    BY <2>1, CallPlaces
  <2> QED BY <2>1, <2>2, NumberMoves
<1>2. ASSUME NEW t \in Threads, TestUninstalled(t) \/ Deregister(t)  PROVE NumberInv'
  <2>1. /\ tpc[t] \in {"test", "deregister"} /\ UNCHANGED <<made, readFd, writeFd, oldFd, fds>>
        /\ Resume(t) \/ (Goto(t, "test", "stop") /\ UNCHANGED victim)
    BY <1>2 DEF TestUninstalled, Deregister
  <2>2. /\ tpc'[t] \in {"idle", "pipe", "exited", "stop"}
        /\ \A o \in Threads \ {t} : tpc'[o] = tpc[o] /\ victim'[o] = victim[o]
    BY <2>1, CallPlaces DEF Goto, Types
  <2> QED BY <2>1, <2>2, NumberMoves
<1>3. ASSUME NEW t \in Threads,
             MarkUninstalled(t) \/ SetStop(t) \/ Join(t) \/ TestReadFd(t) \/ MarkClosed(t)
      PROVE  NumberInv'
  <2>1. UNCHANGED <<made, readFd, writeFd, oldFd, fds, victim>>
    BY <1>3 DEF MarkUninstalled, SetStop, Join, TestReadFd, MarkClosed
  <2>2. /\ tpc[t] \notin {"closeOld", "undo"} /\ tpc'[t] # "mark"
        /\ \A o \in Threads \ {t} : tpc'[o] = tpc[o]
    BY <1>3 DEF MarkUninstalled, SetStop, Join, TestReadFd, MarkClosed, Goto, Types
  <2> QED BY <2>1, <2>2, NumberMoves
<1>4. ASSUME NEW t \in Threads, CloseReadEnd(t)  PROVE NumberInv'
  <2>1. /\ tpc[t] = "closing" /\ tpc' = [tpc EXCEPT ![t] = "mark"] /\ fds' = Without(fds, readFd[victim[t]])
        /\ UNCHANGED <<made, readFd, writeFd, oldFd, victim>>
    BY <1>4 DEF CloseReadEnd, Goto
  <2>2. tpc'[t] = "mark" /\ \A o \in Threads \ {t} : tpc'[o] = tpc[o]
    BY <2>1 DEF Types
  <2>3. readFd[victim[t]] \in Fd
    BY <2>1, Numbers DEF VictimPcs, StopPcs
  <2>4. \A f \in Fd : fds'[f] = IF f = readFd[victim[t]] THEN Unused ELSE fds[f]
    BY <2>1, <2>3, CloseFd
  <2>5. \A f \in Fd : fds'[f] # ReadEnd(victim[t])
    BY <2>4 DEF NumberInv, ReadEnd, Unused
  <2>6. \A o \in Threads : oldFd'[o] \in Fd => tpc'[o] \in {"closeOld", "undo"}
    BY <2>1, <2>2 DEF NumberInv
  <2>7. \A o \in Threads : tpc'[o] = "mark" =>
           \/ tpc[o] = "mark" /\ victim'[o] = victim[o]
           \/ \A f \in Fd : fds'[f] # ReadEnd(victim'[o])
    BY <2>1, <2>2, <2>5
  <2> QED BY <2>1, <2>4, <2>6, <2>7, NumberQuiet
<1>5. ASSUME NEW t \in Threads, UNCHANGED <<made, readFd, writeFd, victim>>,
             \A f \in Fd : fds'[f] = fds[f] \/ fds'[f] \in {Unused, Foreign},
             tpc'[t] # "mark", oldFd'[t] \in Fd => tpc'[t] \in {"closeOld", "undo"},
             \A o \in Threads \ {t} : tpc'[o] = tpc[o] /\ oldFd'[o] = oldFd[o]
      PROVE  NumberInv'
  <2>1. \A o \in Threads : oldFd'[o] \in Fd => tpc'[o] \in {"closeOld", "undo"}
    BY <1>5 DEF NumberInv
  <2>2. \A o \in Threads : tpc'[o] = "mark" => tpc[o] = "mark" /\ victim'[o] = victim[o]
    BY <1>5
  <2> QED BY <1>5, <2>1, <2>2, NumberQuiet
<1>6. ASSUME NEW t \in Threads, PipeFails(t) \/ StartFails(t) \/ Undo(t)  PROVE NumberInv'
  <2>1. UNCHANGED <<made, readFd, writeFd, victim>> /\ InstallRaises(t)
    BY <1>6 DEF PipeFails, StartFails, Undo
  <2>2. /\ tpc'[t] = "idle" /\ oldFd'[t] = NoFd
        /\ \A o \in Threads \ {t} : tpc'[o] = tpc[o] /\ oldFd'[o] = oldFd[o]
    BY <2>1 DEF InstallRaises, Types
  <2>3. \A f \in Fd : fds'[f] = fds[f] \/ fds'[f] \in {Unused, Foreign}
    <3>1. CASE Undo(t)
      <4>1. readFd[fresh[t]] \in Fd
        BY <3>1, Numbers DEF Undo, FreshPcs
      <4>2. /\ Without(fds, oldFd[t]) \in [Fd -> Ends]
            /\ \A f \in Fd : Without(fds, oldFd[t])[f] = IF f = oldFd[t] THEN Unused ELSE fds[f]
        BY CloseFd DEF Types
      <4> QED BY <3>1, <4>1, <4>2 DEF Undo, Without
    <3>2. CASE PipeFails(t) \/ StartFails(t)
      BY <3>2 DEF PipeFails, StartFails
    <3> QED BY <1>6, <3>1, <3>2
  <2> QED BY <2>1, <2>2, <2>3, NoNumbers, <1>5
<1>7. ASSUME NEW t \in Threads, CreatePipe(t)  PROVE NumberInv'
  <2> DEFINE r == Lowest(UnusedFds)
             w == Lowest(UnusedFds \ {r})
  <2>1. /\ r \in Fd /\ w \in Fd /\ r # w
        /\ fds' = [fds EXCEPT ![r] = ReadEnd(made + 1), ![w] = WriteEnd(made + 1)]
        /\ readFd' = [readFd EXCEPT ![made + 1] = r] /\ writeFd' = [writeFd EXCEPT ![made + 1] = w]
    BY <1>7, NewEnds DEF CreatePipe, UnusedFds
  <2>2. /\ made' = made + 1 /\ made \in Nat /\ made + 1 \in Handle
        /\ tpc[t] = "pipe" /\ tpc' = [tpc EXCEPT ![t] = "swap"] /\ UNCHANGED <<oldFd, victim>>
    BY <1>7, BoundAssumption DEF CreatePipe, Goto, Types, Handle
  <2> HIDE DEF r, w
  <2>3. /\ fds'[r] = ReadEnd(made + 1) /\ fds'[w] = WriteEnd(made + 1)
        /\ \A f \in Fd \ {r, w} : fds'[f] = fds[f]
        /\ readFd'[made + 1] = r /\ writeFd'[made + 1] = w
        /\ \A h \in Handle \ {made + 1} : readFd'[h] = readFd[h] /\ writeFd'[h] = writeFd[h]
    BY <2>1, <2>2 DEF Types
  <2>4. tpc'[t] = "swap" /\ \A o \in Threads \ {t} : tpc'[o] = tpc[o]
    BY <2>2 DEF Types
  <2>5. \A h \in 1..made : h \in Handle \ {made + 1}
    <3>1. made + 1 <= MaxInstalls /\ MaxInstalls \in Nat
      BY <2>2, BoundAssumption DEF Handle
    <3> QED BY <2>2, <3>1 DEF Handle
  <2>6. \A h \in 1..made' : readFd'[h] \in Fd /\ writeFd'[h] \in Fd
    <3>1. \A h \in 1..made' : h = made + 1 \/ h \in 1..made
      BY <2>2
    <3> QED BY <2>1, <2>3, <2>5, <3>1 DEF NumberInv
  <2>7. ASSUME NEW f \in Fd
        PROVE  /\ fds'[f].kind = "read" => f = readFd'[fds'[f].of]
               /\ fds'[f].kind = "write" => f = writeFd'[fds'[f].of]
    <3>1. CASE f \in {r, w}
      BY <2>1, <2>3, <3>1 DEF ReadEnd, WriteEnd
    <3>2. CASE f \notin {r, w}
      <4>1. fds'[f] = fds[f] /\ (fds[f].kind \in {"read", "write"} => fds[f].of \in 1..made)
        BY <2>3, <3>2 DEF PipeInv
      <4> QED BY <2>3, <2>5, <4>1 DEF NumberInv
    <3> QED BY <3>1, <3>2
  <2>8. \A o \in Threads : oldFd'[o] \in Fd => tpc'[o] \in {"closeOld", "undo"}
    BY <2>2, <2>4 DEF NumberInv
  <2>9. ASSUME NEW o \in Threads, tpc'[o] = "mark", NEW f \in Fd  PROVE fds'[f] # ReadEnd(victim[o])'
    <3>1. tpc[o] = "mark" /\ victim'[o] = victim[o] /\ victim[o] \in 1..made
      BY <2>2, <2>4, <2>9, Numbers DEF VictimPcs, StopPcs
    <3>2. victim[o] # made + 1
      BY <2>2, <3>1
    <3> QED BY <2>3, <3>1, <3>2 DEF NumberInv, ReadEnd, WriteEnd
  <2> QED BY <2>6, <2>7, <2>8, <2>9 DEF NumberInv
<1>8. ASSUME NEW t \in Threads, SwapSlot(t) \/ SigactionFails(t)  PROVE NumberInv'
  <2>1. /\ UNCHANGED <<made, readFd, writeFd, victim, fds>> /\ tpc'[t] \in {"closeOld", "undo"}
        /\ \A o \in Threads \ {t} : tpc'[o] = tpc[o] /\ oldFd'[o] = oldFd[o]
    BY <1>8 DEF SwapSlot, SigactionFails, Goto, Types
  <2> QED BY <2>1, <1>5
<1>9. ASSUME NEW t \in Threads, CloseOld(t)  PROVE NumberInv'
  <2>1. /\ UNCHANGED <<made, readFd, writeFd, victim>> /\ fds' = Without(fds, oldFd[t])
        /\ tpc'[t] = "sigaction" /\ oldFd'[t] = NoFd
        /\ \A o \in Threads \ {t} : tpc'[o] = tpc[o] /\ oldFd'[o] = oldFd[o]
    BY <1>9 DEF CloseOld, Goto, Types
  <2>2. \A f \in Fd : fds'[f] = fds[f] \/ fds'[f] \in {Unused, Foreign}
    BY <2>1, CloseFd DEF Types
  <2> QED BY <2>1, <2>2, NoNumbers, <1>5
<1>10. ASSUME NEW t \in Threads, Arm(t) \/ StartWatcher(t) \/ Assign(t)  PROVE NumberInv'
  <2>1. /\ UNCHANGED <<made, readFd, writeFd, oldFd, fds, victim>>
        /\ tpc[t] \notin {"closeOld", "undo"} /\ tpc'[t] # "mark"
        /\ \A o \in Threads \ {t} : tpc'[o] = tpc[o]
    BY <1>10 DEF Arm, StartWatcher, Assign, Goto, Types
  <2> QED BY <2>1, NumberMoves
<1>11. ASSUME UNCHANGED <<made, readFd, writeFd, oldFd, victim, tpc>>,
              \A f \in Fd : fds'[f] = fds[f] \/ fds'[f] \in {Unused, Foreign}
       PROVE  NumberInv'
  <2>1. \A o \in Threads : oldFd'[o] \in Fd => tpc'[o] \in {"closeOld", "undo"}
    BY <1>11 DEF NumberInv
  <2> QED BY <1>11, <2>1, NumberQuiet
<1>12. ASSUME NEW h \in Handle, Watcher(h)  PROVE NumberInv'
  <2>1. UNCHANGED <<made, readFd, writeFd, oldFd, victim, tpc, fds>>
    BY <1>12 DEF Watcher, Select, Recheck, Read, StartDump, DumpEnds
  <2> QED BY <2>1, <1>11
<1>13. CASE LoadSlot \/ WriteByte \/ UNCHANGED vars
  <2>1. UNCHANGED <<made, readFd, writeFd, oldFd, victim, tpc, fds>>
    BY <1>13 DEF LoadSlot, WriteByte, vars
  <2> QED BY <2>1, <1>11
<1>14. CASE OpenForeign \/ CloseForeign
  <2>1. UNCHANGED <<made, readFd, writeFd, oldFd, victim, tpc>>
    BY <1>14 DEF OpenForeign, CloseForeign
  <2>2. \A f \in Fd : fds'[f] = fds[f] \/ fds'[f] \in {Unused, Foreign}
    <3>1. CASE OpenForeign
      BY <3>1 DEF OpenForeign, Types
    <3>2. CASE CloseForeign
      BY <3>2, CloseFd DEF CloseForeign, Types
    <3> QED BY <1>14, <3>1, <3>2
  <2> QED BY <2>1, <2>2, <1>11
<1> QED BY <1>1, <1>2, <1>3, <1>4, <1>6, <1>7, <1>8, <1>9, <1>10, <1>12, <1>13, <1>14
        DEF Next, Uninstalling, Installing

-----------------------------------------------------------------------------
(* One thread uninstalls a handle *)

\* Two threads that have uninstalled one handle at once have done so for good.
LEMMA TwiceStays == [Next]_vars /\ ~twice' => ~twice
<1> USE DEF kernelVars, threadVars, handleVars, ghostVars
<1>1. ASSUME NEW t \in Threads, TestUninstalled(t), twice  PROVE twice'
  BY <1>1 DEF TestUninstalled
<1>2. ASSUME NEW t \in Threads,
             \/ Install(t) \/ UninstallHandle(t) \/ UninstallSignal(t) \/ ExitHook(t)
             \/ MarkUninstalled(t) \/ SetStop(t) \/ Join(t) \/ TestReadFd(t) \/ CloseReadEnd(t)
             \/ MarkClosed(t) \/ Deregister(t) \/ Installing(t)
      PROVE  UNCHANGED twice
  BY <1>2 DEF Install, UninstallHandle, UninstallSignal, ExitHook, MarkUninstalled, SetStop, Join,
     TestReadFd, CloseReadEnd, MarkClosed, Deregister, Installing, PipeFails, CreatePipe, SwapSlot,
     CloseOld, Arm, SigactionFails, Undo, StartWatcher, StartFails, Assign
<1>3. ASSUME NEW h \in Handle, Watcher(h)  PROVE UNCHANGED twice
  BY <1>3 DEF Watcher, Select, Recheck, Read, StartDump, DumpEnds
<1>4. LoadSlot \/ WriteByte \/ OpenForeign \/ CloseForeign \/ UNCHANGED vars => UNCHANGED twice
  BY DEF LoadSlot, WriteByte, OpenForeign, CloseForeign, vars
<1> QED BY <1>1, <1>2, <1>3, <1>4 DEF Next, Uninstalling

\* Steps by which no thread gets past the test of _uninstalled.
LEMMA OneQuiet ==
  ASSUME OneInv, uninstalled' = uninstalled,
         \A t \in Threads : tpc'[t] \in StopPcs =>
            tpc[t] \in StopPcs /\ victim'[t] = victim[t] /\ (tpc'[t] = "stop" <=> tpc[t] = "stop")
  PROVE  OneInv'
BY DEF OneInv

\* Only one thread at a time is past the test for a handle, for it finds the
\* handle marked by any thread that is further than the test.
LEMMA OneNext == Types /\ OneInv /\ ~twice' /\ [Next]_vars => OneInv'
<1> SUFFICES ASSUME Types, OneInv, ~twice', [Next]_vars  PROVE OneInv'
  OBVIOUS
<1> USE DEF kernelVars, threadVars, handleVars, ghostVars
<1>1. ASSUME NEW t \in Threads, UNCHANGED <<uninstalled>>, tpc'[t] \notin StopPcs,
             \A o \in Threads \ {t} : tpc'[o] = tpc[o] /\ victim'[o] = victim[o]
      PROVE  OneInv'
  BY <1>1, OneQuiet
<1>2. ASSUME NEW t \in Threads, Install(t) \/ UninstallHandle(t) \/ UninstallSignal(t) \/ ExitHook(t)
      PROVE  OneInv'
  <2>1. /\ UNCHANGED uninstalled
        /\ \E h, pc : pc \in {"idle", "pipe", "exited"} /\ CallUninstall(t, h, pc)
    BY <1>2 DEF Install, UninstallHandle, UninstallSignal, ExitHook
  <2>2. /\ tpc'[t] \in {"idle", "pipe", "exited", "test"}
        /\ \A o \in Threads \ {t} : tpc'[o] = tpc[o] /\ victim'[o] = victim[o]
    BY <2>1, CallPlaces
  <2> QED BY <2>1, <2>2, <1>1 DEF StopPcs
<1>3. ASSUME NEW t \in Threads, Resume(t), UNCHANGED uninstalled  PROVE OneInv'
  <2>1. /\ tpc'[t] \in {"idle", "pipe", "exited"}
        /\ \A o \in Threads \ {t} : tpc'[o] = tpc[o] /\ victim'[o] = victim[o]
    BY <1>3, CallPlaces
  <2> QED BY <1>3, <2>1, <1>1 DEF StopPcs
<1>4. ASSUME NEW t \in Threads, TestUninstalled(t)  PROVE OneInv'
  <2>1. CASE victim[t] \in uninstalled
    BY <1>3, <1>4, <2>1 DEF TestUninstalled
  <2>2. CASE victim[t] \notin uninstalled
    <3>1. /\ tpc' = [tpc EXCEPT ![t] = "stop"] /\ UNCHANGED <<victim, uninstalled>>
          /\ twice' = (twice \/ \E o \in Threads : tpc[o] = "stop" /\ victim[o] = victim[t])
      BY <1>4, <2>2 DEF TestUninstalled, Goto
    <3>2. tpc'[t] = "stop" /\ \A o \in Threads \ {t} : tpc'[o] = tpc[o]
      BY <3>1 DEF Types
    <3>3. \A o \in Threads \ {t} : tpc[o] \in StopPcs => victim[o] # victim[t]
      BY <2>2, <3>1 DEF OneInv
    <3> QED BY <2>2, <3>1, <3>2, <3>3 DEF OneInv
  <2> QED BY <2>1, <2>2
<1>5. ASSUME NEW t \in Threads, MarkUninstalled(t)  PROVE OneInv'
  <2>1. /\ tpc[t] = "stop" /\ tpc' = [tpc EXCEPT ![t] = "event"] /\ UNCHANGED victim
        /\ uninstalled' = uninstalled \cup {victim[t]}
    BY <1>5 DEF MarkUninstalled, Goto
  <2>2. tpc'[t] = "event" /\ \A o \in Threads \ {t} : tpc'[o] = tpc[o]
    BY <2>1 DEF Types
  <2>3. \A o \in Threads \ {t} : tpc[o] \in StopPcs => victim[o] # victim[t]
    BY <2>1 DEF OneInv, StopPcs
  <2> QED BY <2>1, <2>2, <2>3 DEF OneInv, StopPcs
<1>6. ASSUME NEW t \in Threads,
             SetStop(t) \/ Join(t) \/ TestReadFd(t) \/ CloseReadEnd(t) \/ MarkClosed(t)
      PROVE  OneInv'
  <2>1. /\ UNCHANGED <<uninstalled, victim>> /\ tpc[t] \in StopPcs \ {"stop"} /\ tpc'[t] # "stop"
        /\ \A o \in Threads \ {t} : tpc'[o] = tpc[o]
    BY <1>6 DEF SetStop, Join, TestReadFd, CloseReadEnd, MarkClosed, Goto, Types, StopPcs
  <2> QED BY <2>1, OneQuiet
<1>7. ASSUME NEW t \in Threads, Deregister(t)  PROVE OneInv'
  BY <1>3, <1>7 DEF Deregister
<1>8. ASSUME NEW t \in Threads, Installing(t)  PROVE OneInv'
  <2>1. /\ UNCHANGED <<uninstalled, victim>> /\ tpc'[t] \in FreshPcs \cup {"idle"}
        /\ \A o \in Threads \ {t} : tpc'[o] = tpc[o]
    BY <1>8 DEF Installing, PipeFails, CreatePipe, SwapSlot, CloseOld, Arm, SigactionFails, Undo,
         StartWatcher, StartFails, Assign, InstallRaises, Goto, Types, FreshPcs
  <2> QED BY <2>1, <1>1 DEF FreshPcs, StopPcs
<1>9. CASE UNCHANGED <<uninstalled, victim, tpc>>
  BY <1>9 DEF OneInv
<1>10. ASSUME NEW h \in Handle, Watcher(h)  PROVE UNCHANGED <<uninstalled, victim, tpc>>
  BY <1>10 DEF Watcher, Select, Recheck, Read, StartDump, DumpEnds
<1>11. LoadSlot \/ WriteByte \/ OpenForeign \/ CloseForeign \/ UNCHANGED vars
         => UNCHANGED <<uninstalled, victim, tpc>>
  BY DEF LoadSlot, WriteByte, OpenForeign, CloseForeign, vars
<1> QED BY <1>2, <1>4, <1>5, <1>6, <1>7, <1>8, <1>9, <1>10, <1>11 DEF Next, Uninstalling


-----------------------------------------------------------------------------
(* The descriptors of one handle, until two threads uninstall it at once *)

\* Steps that leave the write ends where they are.
LEMMA WriteQuiet ==
  ASSUME Types, PipeInv, HandleInv, NumberInv, WriteInv, UNCHANGED <<slot, oldFd, writeFd>>,
         \A f \in Fd : fds[f].kind = "write" => fds'[f] = fds[f],
         \A t \in Threads : tpc'[t] = "swap" => tpc[t] = "swap" /\ fresh'[t] = fresh[t]
  PROVE  WriteInv'
<1>1. \A t \in Threads : oldFd'[t] \in Fd => fds'[oldFd'[t]].kind = "write" /\ oldFd'[t] # slot'
  BY DEF WriteInv
<1>2. ASSUME NEW t \in Threads, tpc'[t] = "swap"
      PROVE  /\ fds'[writeFd'[fresh'[t]]] = WriteEnd(fresh'[t]) /\ writeFd'[fresh'[t]] # slot'
             /\ \A o \in Threads : oldFd'[o] # writeFd'[fresh'[t]]
  <2>1. /\ tpc[t] = "swap" /\ fresh'[t] = fresh[t] /\ writeFd[fresh[t]] \in Fd
        /\ fds[writeFd[fresh[t]]] = WriteEnd(fresh[t])
    BY <1>2, Numbers DEF WriteInv, FreshPcs
  <2>2. fds'[writeFd[fresh[t]]] = fds[writeFd[fresh[t]]]
    BY <2>1 DEF WriteEnd
  <2> QED BY <2>1, <2>2 DEF WriteInv
<1>3. slot' \in Fd => fds'[slot'].kind = "write"
  BY DEF WriteInv
<1>4. \A t, o \in Threads : oldFd'[t] = oldFd'[o] /\ oldFd'[t] \in Fd => t = o
  BY DEF WriteInv
<1> QED BY <1>1, <1>2, <1>3, <1>4 DEF WriteInv, WriteEnd

\* A thread closes the write end that only it holds.
LEMMA WriteClosed ==
  ASSUME Types, PipeInv, HandleInv, NumberInv, WriteInv, NEW t \in Threads, UNCHANGED <<slot, writeFd>>,
         tpc'[t] # "swap", oldFd'[t] = NoFd,
         \A o \in Threads \ {t} : oldFd'[o] = oldFd[o] /\ tpc'[o] = tpc[o] /\ fresh'[o] = fresh[o],
         \A f \in Fd : fds[f].kind = "write" /\ f # oldFd[t] => fds'[f] = fds[f]
  PROVE  WriteInv'
<1>1. slot' \in Fd => fds'[slot'].kind = "write"
  BY DEF WriteInv
<1>2. ASSUME NEW o \in Threads, oldFd'[o] \in Fd
      PROVE  fds'[oldFd'[o]].kind = "write" /\ oldFd'[o] # slot'
  <2>1. o # t /\ oldFd[o] = oldFd'[o] /\ oldFd[o] # oldFd[t]
    BY <1>2, NoNumbers DEF WriteInv
  <2> QED BY <1>2, <2>1 DEF WriteInv
<1>3. \A o, s \in Threads : oldFd'[o] = oldFd'[s] /\ oldFd'[o] \in Fd => o = s
  BY NoNumbers DEF WriteInv
<1>4. ASSUME NEW o \in Threads, tpc'[o] = "swap"
      PROVE  /\ fds'[writeFd'[fresh'[o]]] = WriteEnd(fresh'[o]) /\ writeFd'[fresh'[o]] # slot'
             /\ \A s \in Threads : oldFd'[s] # writeFd'[fresh'[o]]
  <2>1. /\ o # t /\ tpc[o] = "swap" /\ fresh'[o] = fresh[o] /\ writeFd[fresh[o]] \in Fd
        /\ fds[writeFd[fresh[o]]] = WriteEnd(fresh[o])
    BY <1>4, Numbers DEF WriteInv, FreshPcs
  <2>2. fds'[writeFd[fresh[o]]] = fds[writeFd[fresh[o]]]
    BY <2>1 DEF WriteEnd, WriteInv
  <2> QED BY <2>1, <2>2, NoNumbers DEF WriteInv
<1> QED BY <1>1, <1>2, <1>3, <1>4 DEF WriteInv, WriteEnd

\* Steps that close no read end but that of k, which a thread has in hand.
LEMMA ReadQuiet ==
  ASSUME Types, PipeInv, HandleInv, NumberInv, ReadInv, NEW k, UNCHANGED <<readFd, returned>>,
         closed \subseteq closed',
         \A f \in Fd : fds[f].kind = "read" /\ fds[f] # ReadEnd(k) => fds'[f] = fds[f],
         k \in returned => k \in closed' \/ \E t \in Threads : tpc'[t] = "mark" /\ victim'[t] = k,
         \A t \in Threads : /\ fresh'[t] = None \/ (fresh'[t] = fresh[t] /\ fresh[t] # k)
                            /\ tpc[t] = "mark" => \/ tpc'[t] = "mark" /\ victim'[t] = victim[t]
                                                  \/ victim[t] \in closed'
                            /\ tpc'[t] = "closing" => victim'[t] \notin closed',
         \A f \in held' : fds'[f] = Foreign
  PROVE  ReadInv'
<1>1. ASSUME NEW h \in 1..made, h # k, OwnsReadFd(h)  PROVE OwnsReadFd(h)'
  <2>1. readFd[h] \in Fd /\ fds[readFd[h]] = ReadEnd(h)
    BY <1>1 DEF NumberInv, OwnsReadFd
  <2>2. ReadEnd(h) # ReadEnd(k) /\ ReadEnd(h).kind = "read"
    BY <1>1 DEF ReadEnd
  <2> QED BY <2>1, <2>2 DEF OwnsReadFd, ReadEnd
<1>2. ASSUME NEW h \in returned'
      PROVE  h \in closed' \/ OwnsReadFd(h)' \/ \E t \in Threads : tpc'[t] = "mark" /\ victim'[t] = h
  <2>1. h \in 1..made /\ h \in returned
    BY <1>2 DEF HandleInv
  <2> QED BY <1>1, <2>1 DEF ReadInv
<1>3. ASSUME NEW t \in Threads, fresh'[t] # None  PROVE OwnsReadFd(fresh[t])'
  <2>1. fresh'[t] = fresh[t] /\ fresh[t] \in 1..made /\ fresh[t] # k /\ OwnsReadFd(fresh[t])
    BY <1>3 DEF ReadInv, PipeInv, None
  <2>2. PICK h \in 1..made : h = fresh[t]
    BY <2>1
  <2>3. OwnsReadFd(h)'
    BY <1>1, <2>1, <2>2
  <2> QED BY <2>1, <2>2, <2>3 DEF OwnsReadFd
<1> QED BY <1>2, <1>3 DEF ReadInv

\* Steps that touch no descriptor.
LEMMA SoundQuiet ==
  ASSUME Types, PipeInv, HandleInv, NumberInv, WriteInv, ReadInv,
         UNCHANGED <<fds, slot, oldFd, readFd, writeFd, returned, closed, held>>,
         \A t \in Threads : /\ fresh'[t] \in {fresh[t], None}
                            /\ tpc'[t] = "swap" => tpc[t] = "swap" /\ fresh'[t] = fresh[t]
                            /\ tpc[t] = "mark" => tpc'[t] = "mark" /\ victim'[t] = victim[t]
                            /\ tpc'[t] = "closing" => victim'[t] \notin closed
  PROVE  WriteInv' /\ ReadInv'
<1>1. None \notin returned /\ \A f \in Fd : fds'[f] = fds[f]
  BY NoNumbers DEF Types
<1>2. \A t \in Threads : fresh'[t] = None \/ (fresh'[t] = fresh[t] /\ fresh[t] # None)
  OBVIOUS
<1>3. \A f \in held' : fds'[f] = Foreign
  BY DEF ReadInv
<1>4. ReadInv'
  BY <1>1, <1>2, <1>3, ReadQuiet
<1> QED BY <1>1, <1>4, WriteQuiet

\* A thread goes to a place where it has no descriptor.
LEMMA SoundMoves ==
  ASSUME Types, PipeInv, HandleInv, NumberInv, WriteInv, ReadInv, NEW t \in Threads,
         UNCHANGED <<fds, slot, oldFd, readFd, writeFd, returned, closed, held>>,
         fresh'[t] \in {fresh[t], None}, tpc[t] # "mark", tpc'[t] \notin {"swap", "closing"},
         \A o \in Threads \ {t} : tpc'[o] = tpc[o] /\ victim'[o] = victim[o] /\ fresh'[o] = fresh[o]
  PROVE  WriteInv' /\ ReadInv'
<1>1. \A o \in Threads : tpc'[o] = "closing" => victim'[o] \notin closed
  BY DEF ReadInv
<1> QED BY <1>1, SoundQuiet

\* The number that a thread is about to close is still its handle's.
LEMMA VictimOwns ==
  ASSUME Types, PipeInv, HandleInv, NumberInv, OneInv, ReadInv, NEW t \in Threads, tpc[t] = "closing"
  PROVE  OwnsReadFd(victim[t])
<1>1. victim[t] \in returned /\ victim[t] \notin closed
  BY Numbers DEF VictimPcs, StopPcs, ReadInv
<1>2. \A o \in Threads : tpc[o] = "mark" => victim[o] # victim[t]
  BY DEF OneInv, StopPcs
<1> QED BY <1>1, <1>2 DEF ReadInv

\* A new pipe gets numbers that nothing in the program stands for.
LEMMA SoundCreate ==
  ASSUME Types, PipeInv, HandleInv, NumberInv, WriteInv, ReadInv, NEW t \in Threads, CreatePipe(t)
  PROVE  WriteInv' /\ ReadInv'
<1> USE DEF ghostVars
<1> DEFINE r == Lowest(UnusedFds)
           w == Lowest(UnusedFds \ {r})
<1>1. /\ r \in Fd /\ w \in Fd /\ r # w /\ fds[r] = Unused /\ fds[w] = Unused
      /\ fds' = [fds EXCEPT ![r] = ReadEnd(made + 1), ![w] = WriteEnd(made + 1)]
      /\ readFd' = [readFd EXCEPT ![made + 1] = r] /\ writeFd' = [writeFd EXCEPT ![made + 1] = w]
  BY NewEnds DEF CreatePipe, UnusedFds
<1>2. /\ fresh' = [fresh EXCEPT ![t] = made + 1] /\ made \in Nat /\ made + 1 \in Handle
      /\ tpc[t] = "pipe" /\ tpc' = [tpc EXCEPT ![t] = "swap"]
      /\ UNCHANGED <<slot, oldFd, returned, closed, victim, held>>
  BY BoundAssumption DEF CreatePipe, Goto, Types, Handle
<1> HIDE DEF r, w
<1>3. /\ fds'[r] = ReadEnd(made + 1) /\ fds'[w] = WriteEnd(made + 1)
      /\ \A f \in Fd \ {r, w} : fds'[f] = fds[f]
      /\ readFd'[made + 1] = r /\ writeFd'[made + 1] = w
      /\ \A h \in Handle \ {made + 1} : readFd'[h] = readFd[h] /\ writeFd'[h] = writeFd[h]
  BY <1>1, <1>2 DEF Types
<1>4. /\ tpc'[t] = "swap" /\ fresh'[t] = made + 1
      /\ \A o \in Threads \ {t} : tpc'[o] = tpc[o] /\ fresh'[o] = fresh[o]
  BY <1>2 DEF Types
<1>5. \A h \in 1..made : h \in Handle \ {made + 1}
  <2>1. made + 1 <= MaxInstalls /\ MaxInstalls \in Nat
    BY <1>2, BoundAssumption DEF Handle
  <2> QED BY <1>2, <2>1 DEF Handle
<1>6. \A f \in Fd : fds[f].kind # "unused" => f # r /\ f # w /\ fds'[f] = fds[f]
  <2>1. fds[r].kind = "unused" /\ fds[w].kind = "unused"
    BY <1>1 DEF Unused
  <2> QED BY <1>3, <2>1
<1>7. \A o \in Threads : fresh[o] # None => fresh[o] \in 1..made
  BY <1>2 DEF PipeInv, None
<1>8. WriteInv'
  <2>1. slot # w /\ \A o \in Threads : oldFd[o] # w
    BY <1>1, <1>6 DEF WriteInv
  <2>2. ASSUME NEW o \in Threads, tpc'[o] = "swap"
        PROVE  /\ fds'[writeFd'[fresh'[o]]] = WriteEnd(fresh'[o]) /\ writeFd'[fresh'[o]] # slot'
               /\ \A s \in Threads : oldFd'[s] # writeFd'[fresh'[o]]
    <3>1. CASE o = t
      BY <1>2, <1>3, <1>4, <2>1, <3>1
    <3>2. CASE o # t
      <4>1. /\ tpc[o] = "swap" /\ fresh'[o] = fresh[o] /\ fresh[o] # None
            /\ fds[writeFd[fresh[o]]] = WriteEnd(fresh[o]) /\ writeFd[fresh[o]] \in Fd
        BY <1>4, <2>2, <3>2, Numbers DEF WriteInv, PipeInv, FreshPcs
      <4>2. writeFd'[fresh[o]] = writeFd[fresh[o]]
        BY <1>3, <1>5, <1>7, <4>1
      <4>3. fds'[writeFd[fresh[o]]] = fds[writeFd[fresh[o]]]
        BY <1>6, <4>1 DEF WriteEnd
      <4> QED BY <1>2, <4>1, <4>2, <4>3 DEF WriteInv
    <3> QED BY <3>1, <3>2
  <2>3. slot' \in Fd => fds'[slot'].kind = "write"
    BY <1>2, <1>6 DEF WriteInv
  <2>4. \A o \in Threads : oldFd'[o] \in Fd => fds'[oldFd'[o]].kind = "write" /\ oldFd'[o] # slot'
    BY <1>2, <1>6 DEF WriteInv
  <2>5. \A o, s \in Threads : oldFd'[o] = oldFd'[s] /\ oldFd'[o] \in Fd => o = s
    BY <1>2 DEF WriteInv
  <2> QED BY <2>2, <2>3, <2>4, <2>5 DEF WriteInv, WriteEnd
<1>9. ReadInv'
  <2>1. ASSUME NEW h \in 1..made, OwnsReadFd(h)  PROVE OwnsReadFd(h)'
    <3>1. readFd'[h] = readFd[h] /\ readFd[h] \in Fd
      BY <1>3, <1>5 DEF NumberInv
    <3>2. fds'[readFd[h]] = fds[readFd[h]]
      BY <1>6, <2>1, <3>1 DEF OwnsReadFd, ReadEnd
    <3> QED BY <2>1, <3>1, <3>2 DEF OwnsReadFd, ReadEnd
  <2>2. ASSUME NEW h \in returned'
        PROVE  h \in closed' \/ OwnsReadFd(h)' \/ \E o \in Threads : tpc'[o] = "mark" /\ victim'[o] = h
    <3>1. h \in 1..made /\ h \in returned
      BY <1>2, <2>2 DEF HandleInv
    <3>2. \A o \in Threads : tpc[o] = "mark" => tpc'[o] = "mark"
      BY <1>2, <1>4
    <3> QED BY <1>2, <2>1, <3>1, <3>2 DEF ReadInv
  <2>3. ASSUME NEW o \in Threads, fresh'[o] # None  PROVE OwnsReadFd(fresh[o])'
    <3>1. CASE o = t
      BY <1>3, <1>4, <3>1 DEF OwnsReadFd, ReadEnd
    <3>2. CASE o # t
      <4>1. PICK h \in 1..made : h = fresh[o] /\ fresh'[o] = fresh[o] /\ OwnsReadFd(h)
        BY <1>4, <1>7, <2>3, <3>2 DEF ReadInv
      <4>2. OwnsReadFd(h)'
        BY <2>1, <4>1
      <4> QED BY <4>1, <4>2 DEF OwnsReadFd
    <3> QED BY <3>1, <3>2
  <2>4. \A o \in Threads : tpc'[o] = "closing" => victim'[o] \notin closed'
    BY <1>2, <1>4 DEF ReadInv
  <2>5. \A f \in held' : fds'[f] = Foreign
    BY <1>2, <1>6 DEF ReadInv, Foreign, Types
  <2> QED BY <2>2, <2>3, <2>4, <2>5 DEF ReadInv
<1> QED BY <1>8, <1>9

\* A thread takes the number out of the slot, to close it.
LEMMA SoundSwap ==
  ASSUME Types, PipeInv, HandleInv, NumberInv, WriteInv, ReadInv, NEW t \in Threads,
         SwapSlot(t) \/ SigactionFails(t)
  PROVE  WriteInv' /\ ReadInv'
<1> USE DEF kernelVars, handleVars, ghostVars
<1>1. /\ UNCHANGED <<fds, held, returned, victim, fresh, readFd, writeFd, closed>>
      /\ oldFd' = [oldFd EXCEPT ![t] = slot]
      /\ tpc' = [tpc EXCEPT ![t] = IF tpc[t] = "swap" THEN "closeOld" ELSE "undo"]
      /\ tpc[t] \in {"swap", "sigaction"}
      /\ slot' = IF tpc[t] = "swap" THEN writeFd[fresh[t]] ELSE NoFd
  BY DEF SwapSlot, SigactionFails, Goto
<1>2. /\ oldFd'[t] = slot /\ tpc'[t] \in {"closeOld", "undo"}
      /\ \A o \in Threads \ {t} : oldFd'[o] = oldFd[o] /\ tpc'[o] = tpc[o]
  BY <1>1 DEF Types
<1>3. slot' \in Fd =>
         /\ tpc[t] = "swap" /\ slot' = writeFd[fresh[t]] /\ fds[slot'] = WriteEnd(fresh[t])
         /\ slot' # slot /\ \A o \in Threads : oldFd[o] # slot'
  BY <1>1, NoNumbers DEF WriteInv
<1>4. slot' \in Fd => fds'[slot'].kind = "write"
  BY <1>1, <1>3 DEF WriteEnd
<1>5. \A o \in Threads : oldFd'[o] \in Fd => fds'[oldFd'[o]].kind = "write" /\ oldFd'[o] # slot'
  BY <1>1, <1>2, <1>3 DEF WriteInv
<1>6. \A o, s \in Threads : oldFd'[o] = oldFd'[s] /\ oldFd'[o] \in Fd => o = s
  BY <1>2 DEF WriteInv
<1>7. ASSUME NEW o \in Threads, tpc'[o] = "swap"
      PROVE  /\ fds'[writeFd'[fresh'[o]]] = WriteEnd(fresh'[o]) /\ writeFd'[fresh'[o]] # slot'
             /\ \A s \in Threads : oldFd'[s] # writeFd'[fresh'[o]]
  <2>1. o # t /\ tpc[o] = "swap" /\ writeFd[fresh[o]] \in Fd /\ fresh[o] # None
    BY <1>2, <1>7, Numbers DEF FreshPcs, PipeInv
  <2>2. /\ fds[writeFd[fresh[o]]] = WriteEnd(fresh[o]) /\ writeFd[fresh[o]] # slot
        /\ \A s \in Threads : oldFd[s] # writeFd[fresh[o]]
    BY <2>1 DEF WriteInv
  <2>3. fresh[o] # fresh[t]
    BY <2>1 DEF PipeInv
  <2>4. writeFd[fresh[o]] # slot'
    BY <1>3, <2>1, <2>2, <2>3 DEF WriteEnd
  <2> QED BY <1>1, <1>2, <2>2, <2>4
<1>8. WriteInv'
  BY <1>4, <1>5, <1>6, <1>7 DEF WriteInv, WriteEnd
<1>9. ReadInv'
  <2>1. \A o \in Threads : /\ tpc[o] = "mark" <=> tpc'[o] = "mark"
                           /\ tpc[o] = "closing" <=> tpc'[o] = "closing"
    BY <1>1, <1>2
  <2> QED BY <1>1, <2>1 DEF ReadInv, OwnsReadFd, ReadEnd
<1> QED BY <1>8, <1>9

\* While no handle is uninstalled by two threads at once, a close() releases
\* what the thread means to close.
LEMMA SoundNext == Types /\ PipeInv /\ HandleInv /\ NumberInv /\ Sound /\ [Next]_vars
                     => WriteInv' /\ ReadInv'
<1> SUFFICES ASSUME Types, PipeInv, HandleInv, NumberInv, OneInv, WriteInv, ReadInv, [Next]_vars
             PROVE  WriteInv' /\ ReadInv'
  BY DEF Sound
<1> USE DEF kernelVars, threadVars, handleVars, ghostVars
<1>1. ASSUME NEW t \in Threads, Install(t) \/ UninstallHandle(t) \/ UninstallSignal(t) \/ ExitHook(t)
      PROVE  WriteInv' /\ ReadInv'
  <2>1. /\ tpc[t] = "idle"
        /\ UNCHANGED <<fds, slot, oldFd, readFd, writeFd, returned, closed, held, fresh>>
        /\ \E h, pc : pc \in {"idle", "pipe", "exited"} /\ CallUninstall(t, h, pc)
    BY <1>1 DEF Install, UninstallHandle, UninstallSignal, ExitHook
  <2>2. /\ tpc'[t] \in {"idle", "pipe", "exited", "test"}
        /\ \A o \in Threads \ {t} : tpc'[o] = tpc[o] /\ victim'[o] = victim[o]
    BY <2>1, CallPlaces
  <2> QED BY <2>1, <2>2, SoundMoves
<1>2. ASSUME NEW t \in Threads, TestUninstalled(t) \/ Deregister(t)  PROVE WriteInv' /\ ReadInv'
  <2>1. /\ tpc[t] \in {"test", "deregister"}
        /\ UNCHANGED <<fds, slot, oldFd, readFd, writeFd, returned, closed, held, fresh>>
        /\ Resume(t) \/ (Goto(t, "test", "stop") /\ UNCHANGED victim)
    BY <1>2 DEF TestUninstalled, Deregister
  <2>2. /\ tpc'[t] \in {"idle", "pipe", "exited", "stop"}
        /\ \A o \in Threads \ {t} : tpc'[o] = tpc[o] /\ victim'[o] = victim[o]
    BY <2>1, CallPlaces DEF Goto, Types
  <2> QED BY <2>1, <2>2, SoundMoves
<1>3. ASSUME NEW t \in Threads,
             MarkUninstalled(t) \/ SetStop(t) \/ Join(t) \/ Arm(t) \/ StartWatcher(t)
      PROVE  WriteInv' /\ ReadInv'
  <2>1. /\ UNCHANGED <<fds, slot, oldFd, readFd, writeFd, returned, closed, held, victim, fresh>>
        /\ tpc[t] # "mark" /\ tpc'[t] \notin {"swap", "closing"}
        /\ \A o \in Threads \ {t} : tpc'[o] = tpc[o]
    BY <1>3 DEF MarkUninstalled, SetStop, Join, Arm, StartWatcher, Goto, Types
  <2> QED BY <2>1, SoundMoves
<1>4. ASSUME NEW t \in Threads, TestReadFd(t)  PROVE WriteInv' /\ ReadInv'
  <2>1. /\ UNCHANGED <<fds, slot, oldFd, readFd, writeFd, returned, closed, held, victim, fresh>>
        /\ tpc[t] = "close" /\ tpc'[t] \in {"closing", "deregister"}
        /\ tpc'[t] = "closing" => victim[t] \notin closed
        /\ \A o \in Threads \ {t} : tpc'[o] = tpc[o]
    BY <1>4 DEF TestReadFd, Goto, Types
  <2>2. \A o \in Threads : tpc'[o] = "closing" => victim'[o] \notin closed
    BY <2>1 DEF ReadInv
  <2> QED BY <2>1, <2>2, SoundQuiet
<1>5. ASSUME NEW t \in Threads, CloseReadEnd(t)  PROVE WriteInv' /\ ReadInv'
  <2>1. /\ tpc[t] = "closing" /\ tpc' = [tpc EXCEPT ![t] = "mark"] /\ fds' = Without(fds, readFd[victim[t]])
        /\ UNCHANGED <<slot, oldFd, readFd, writeFd, returned, closed, held, victim, fresh>>
    BY <1>5 DEF CloseReadEnd, Goto
  <2>2. tpc'[t] = "mark" /\ \A o \in Threads \ {t} : tpc'[o] = tpc[o]
    BY <2>1 DEF Types
  <2>3. readFd[victim[t]] \in Fd /\ fds[readFd[victim[t]]] = ReadEnd(victim[t]) /\ victim[t] \in returned
    BY <2>1, Numbers, VictimOwns DEF VictimPcs, StopPcs, OwnsReadFd
  <2>4. \A f \in Fd : fds'[f] = IF f = readFd[victim[t]] THEN Unused ELSE fds[f]
    BY <2>1, <2>3, CloseFd
  <2>5. /\ \A f \in Fd : fds[f] # ReadEnd(victim[t]) => fds'[f] = fds[f]
        /\ \A f \in Fd : fds[f].kind = "write" => fds'[f] = fds[f]
        /\ \A f \in held' : fds'[f] = Foreign
    BY <2>1, <2>3, <2>4 DEF ReadEnd, Foreign, ReadInv, Types
  <2>6. WriteInv'
    BY <2>1, <2>2, <2>5, WriteQuiet
  <2>7. \A o \in Threads : /\ fresh'[o] = None \/ (fresh'[o] = fresh[o] /\ fresh[o] # victim[t])
                           /\ tpc[o] = "mark" => tpc'[o] = "mark" /\ victim'[o] = victim[o]
                           /\ tpc'[o] = "closing" => victim'[o] \notin closed'
    BY <2>1, <2>2, <2>3 DEF HandleInv, ReadInv
  <2>8. \E o \in Threads : tpc'[o] = "mark" /\ victim'[o] = victim[t]
    BY <2>1, <2>2
  <2>9. closed \subseteq closed'
    BY <2>1
  <2>10. ReadInv'
    BY <2>1, <2>5, <2>7, <2>8, <2>9, ReadQuiet
  <2> QED BY <2>6, <2>10
<1>6. ASSUME NEW t \in Threads, MarkClosed(t)  PROVE WriteInv' /\ ReadInv'
  <2>1. /\ tpc[t] = "mark" /\ tpc' = [tpc EXCEPT ![t] = "deregister"] /\ closed' = closed \cup {victim[t]}
        /\ UNCHANGED <<fds, slot, oldFd, readFd, writeFd, returned, held, victim, fresh>>
    BY <1>6 DEF MarkClosed, Goto
  <2>2. tpc'[t] = "deregister" /\ \A o \in Threads \ {t} : tpc'[o] = tpc[o]
    BY <2>1 DEF Types
  <2>3. \A o \in Threads : tpc'[o] = "closing" => victim[o] # victim[t]
    BY <2>1, <2>2 DEF OneInv, StopPcs
  <2>4. \A o \in Threads : tpc[o] = "mark" => tpc'[o] = "mark" \/ victim[o] \in closed'
    BY <2>1, <2>2
  <2>5. \A o \in Threads : tpc'[o] = "closing" => victim'[o] \notin closed'
    BY <2>1, <2>2, <2>3 DEF ReadInv
  <2>6. None \notin returned /\ closed \subseteq closed' /\ \A f \in held' : fds'[f] = Foreign
    BY <2>1, NoNumbers DEF Types, ReadInv
  <2>7. \A o \in Threads : fresh'[o] = None \/ (fresh'[o] = fresh[o] /\ fresh[o] # None)
    BY <2>1
  <2>8. ReadInv'
    BY <2>1, <2>4, <2>5, <2>6, <2>7, ReadQuiet
  <2>9. WriteInv'
    BY <2>1, <2>2, WriteQuiet
  <2> QED BY <2>8, <2>9
<1>7. ASSUME NEW t \in Threads, PipeFails(t) \/ StartFails(t)  PROVE WriteInv' /\ ReadInv'
  <2>1. /\ UNCHANGED <<fds, slot, readFd, writeFd, returned, closed, held, victim>>
        /\ tpc[t] \in {"pipe", "start"} /\ InstallRaises(t)
    BY <1>7 DEF PipeFails, StartFails
  <2>2. oldFd[t] = NoFd
    BY <2>1 DEF NumberInv, Types
  <2>3. /\ oldFd' = oldFd /\ tpc'[t] = "idle" /\ fresh'[t] = None
        /\ \A o \in Threads \ {t} : tpc'[o] = tpc[o] /\ fresh'[o] = fresh[o]
    BY <2>1, <2>2 DEF InstallRaises, Types
  <2> QED BY <2>1, <2>3, SoundMoves
<1>8. ASSUME NEW t \in Threads, CloseOld(t) \/ Undo(t)  PROVE WriteInv' /\ ReadInv'
  <2>1. /\ UNCHANGED <<slot, readFd, writeFd, returned, closed, held, victim>>
        /\ tpc'[t] \in {"sigaction", "idle"} /\ tpc[t] \in {"closeOld", "undo"}
        /\ oldFd'[t] = NoFd /\ fresh'[t] \in {fresh[t], None}
        /\ \A o \in Threads \ {t} : tpc'[o] = tpc[o] /\ oldFd'[o] = oldFd[o] /\ fresh'[o] = fresh[o]
    BY <1>8 DEF CloseOld, Undo, InstallRaises, Goto, Types
  <2>2. /\ fresh[t] \in Handle /\ fresh[t] \notin returned /\ readFd[fresh[t]] \in Fd
        /\ fds[readFd[fresh[t]]] = ReadEnd(fresh[t])
    BY <2>1, Numbers DEF FreshPcs, PipeInv, HandleInv, ReadInv, OwnsReadFd
  <2>3. /\ Without(fds, oldFd[t]) \in [Fd -> Ends]
        /\ \A f \in Fd : Without(fds, oldFd[t])[f] = IF f = oldFd[t] THEN Unused ELSE fds[f]
    BY CloseFd DEF Types
  <2>4. oldFd[t] \in Fd => fds[oldFd[t]].kind = "write"
    BY DEF WriteInv
  <2>5. CASE CloseOld(t)
    <3>1. fds' = Without(fds, oldFd[t]) /\ fresh' = fresh /\ tpc'[t] = "sigaction"
      BY <2>5 DEF CloseOld, Goto, Types
    <3>2. /\ \A f \in Fd : fds[f].kind = "write" /\ f # oldFd[t] => fds'[f] = fds[f]
          /\ \A f \in Fd : fds[f].kind = "read" => fds'[f] = fds[f]
          /\ \A f \in held' : fds'[f] = Foreign
      BY <2>1, <2>3, <2>4, <3>1 DEF ReadInv, Foreign, Types
    <3>3. WriteInv'
      BY <2>1, <3>2, WriteClosed
    <3>4. None \notin returned /\ closed \subseteq closed'
      BY <2>1, NoNumbers DEF Types
    <3>5. \A o \in Threads : /\ fresh'[o] = None \/ (fresh'[o] = fresh[o] /\ fresh[o] # None)
                             /\ tpc[o] = "mark" => tpc'[o] = "mark" /\ victim'[o] = victim[o]
                             /\ tpc'[o] = "closing" => victim'[o] \notin closed'
      BY <2>1, <3>1 DEF ReadInv
    <3>6. ReadInv'
      BY <2>1, <3>2, <3>4, <3>5, ReadQuiet
    <3> QED BY <3>3, <3>6
  <2>6. CASE Undo(t)
    <3>1. fresh'[t] = None /\ fds' = Without(Without(fds, oldFd[t]), readFd[fresh[t]])
      BY <2>6 DEF Undo, InstallRaises, Types
    <3>2. \A f \in Fd : fds'[f] = IF f = readFd[fresh[t]] THEN Unused ELSE Without(fds, oldFd[t])[f]
      BY <2>2, <2>3, <3>1 DEF Without
    <3>3. /\ \A f \in Fd : fds[f].kind = "write" /\ f # oldFd[t] => fds'[f] = fds[f]
          /\ \A f \in Fd : fds[f].kind = "read" /\ fds[f] # ReadEnd(fresh[t]) => fds'[f] = fds[f]
          /\ \A f \in held' : fds'[f] = Foreign
      BY <2>1, <2>2, <2>3, <2>4, <3>2 DEF ReadInv, ReadEnd, Foreign, Types
    <3>4. WriteInv'
      BY <2>1, <3>3, WriteClosed
    <3>5. \A o \in Threads : /\ fresh'[o] = None \/ (fresh'[o] = fresh[o] /\ fresh[o] # fresh[t])
                             /\ tpc[o] = "mark" => tpc'[o] = "mark" /\ victim'[o] = victim[o]
                             /\ tpc'[o] = "closing" => victim'[o] \notin closed'
      BY <2>1, <3>1 DEF ReadInv, PipeInv
    <3>6. closed \subseteq closed'
      BY <2>1
    <3>7. ReadInv'
      BY <2>1, <2>2, <3>3, <3>5, <3>6, ReadQuiet
    <3> QED BY <3>4, <3>7
  <2> QED BY <1>8, <2>5, <2>6
<1>9. ASSUME NEW t \in Threads, Assign(t)  PROVE WriteInv' /\ ReadInv'
  <2>1. /\ tpc[t] = "assign" /\ tpc' = [tpc EXCEPT ![t] = "idle"] /\ fresh' = [fresh EXCEPT ![t] = None]
        /\ returned' = returned \cup {fresh[t]}
        /\ UNCHANGED <<fds, slot, oldFd, readFd, writeFd, closed, held, victim>>
    BY <1>9 DEF Assign, Goto
  <2>2. /\ tpc'[t] = "idle" /\ fresh'[t] = None
        /\ \A o \in Threads \ {t} : tpc'[o] = tpc[o] /\ fresh'[o] = fresh[o]
    BY <2>1 DEF Types
  <2>3. WriteInv'
    BY <2>1, <2>2, WriteQuiet
  <2>4. fresh[t] # None /\ OwnsReadFd(fresh[t])
    BY <2>1 DEF PipeInv, FreshPcs, ReadInv
  <2>5. \A o \in Threads : tpc[o] \in {"mark", "closing"} => tpc'[o] = tpc[o]
    BY <2>1, <2>2
  <2>6. \A h \in returned' : \/ h \in closed' \/ fds'[readFd'[h]] = ReadEnd(h)
                             \/ \E o \in Threads : tpc'[o] = "mark" /\ victim'[o] = h
    BY <2>1, <2>4, <2>5 DEF ReadInv, OwnsReadFd
  <2>7. \A o \in Threads : fresh'[o] # None => fds'[readFd'[fresh'[o]]] = ReadEnd(fresh'[o])
    BY <2>1, <2>2 DEF ReadInv, OwnsReadFd
  <2>8. \A o \in Threads : tpc'[o] = "closing" => victim'[o] \notin closed'
    BY <2>1, <2>2 DEF ReadInv
  <2>9. \A f \in held' : fds'[f] = Foreign
    BY <2>1 DEF ReadInv
  <2>10. ReadInv'
    BY <2>6, <2>7, <2>8, <2>9 DEF ReadInv, OwnsReadFd, ReadEnd
  <2> QED BY <2>3, <2>10
<1>10. ASSUME UNCHANGED <<slot, oldFd, readFd, writeFd, returned, closed, victim, fresh, tpc>>,
              \A f \in Fd : fds[f].kind \in {"read", "write"} => fds'[f] = fds[f],
              \A f \in held' : fds'[f] = Foreign
       PROVE  WriteInv' /\ ReadInv'
  <2>1. None \notin returned /\ closed \subseteq closed'
    BY <1>10, NoNumbers DEF Types
  <2>2. \A o \in Threads : /\ fresh'[o] = None \/ (fresh'[o] = fresh[o] /\ fresh[o] # None)
                           /\ tpc'[o] = "closing" => victim'[o] \notin closed'
    BY <1>10 DEF ReadInv
  <2>3. ReadInv'
    BY <1>10, <2>1, <2>2, ReadQuiet
  <2>4. WriteInv'
    BY <1>10, WriteQuiet
  <2> QED BY <2>3, <2>4
<1>11. ASSUME UNCHANGED <<fds, held, slot, oldFd, readFd, writeFd, returned, closed, victim, fresh, tpc>>
       PROVE  WriteInv' /\ ReadInv'
  BY <1>10, <1>11 DEF ReadInv
<1>12. ASSUME NEW h \in Handle, Watcher(h)  PROVE WriteInv' /\ ReadInv'
  BY <1>11, <1>12 DEF Watcher, Select, Recheck, Read, StartDump, DumpEnds
<1>13. CASE LoadSlot \/ WriteByte \/ UNCHANGED vars
  BY <1>11, <1>13 DEF LoadSlot, WriteByte, vars
<1>14. CASE OpenForeign
  <2>1. /\ UNCHANGED <<slot, oldFd, readFd, writeFd, returned, closed, victim, fresh, tpc>>
        /\ fds' = [fds EXCEPT ![Lowest(UnusedFds)] = Foreign] /\ held' = held \cup {Lowest(UnusedFds)}
        /\ Lowest(UnusedFds) \in UnusedFds
    BY <1>14, NoNumbers, LowestIn DEF OpenForeign, UnusedFds
  <2>2. \A f \in Fd : fds'[f] = IF f = Lowest(UnusedFds) THEN Foreign ELSE fds[f]
    BY <2>1 DEF Types
  <2>3. \A f \in Fd : fds[f].kind \in {"read", "write"} => fds'[f] = fds[f]
    BY <2>1, <2>2 DEF UnusedFds, Unused
  <2>4. \A f \in held' : fds'[f] = Foreign
    BY <2>1, <2>2 DEF ReadInv, Types, UnusedFds
  <2> QED BY <2>1, <2>3, <2>4, <1>10
<1>15. CASE CloseForeign
  <2>1. UNCHANGED <<slot, oldFd, readFd, writeFd, returned, closed, victim, fresh, tpc>>
    BY <1>15 DEF CloseForeign
  <2>2. PICK f \in held : fds' = Without(fds, f) /\ held' = held \ {f}
    BY <1>15 DEF CloseForeign
  <2>3. f \in Fd /\ fds[f] = Foreign
    BY DEF Types, ReadInv
  <2>4. \A g \in Fd : fds'[g] = IF g = f THEN Unused ELSE fds[g]
    BY <2>2, <2>3, CloseFd
  <2>5. \A g \in Fd : fds[g].kind \in {"read", "write"} => fds'[g] = fds[g]
    BY <2>3, <2>4 DEF Foreign
  <2>6. \A g \in held' : fds'[g] = Foreign
    BY <2>2, <2>4 DEF ReadInv, Types
  <2> QED BY <2>1, <2>5, <2>6, <1>10
<1> QED BY <1>1, <1>2, <1>3, <1>4, <1>5, <1>6, <1>7, <1>8, <1>9, <1>12, <1>13, <1>14, <1>15,
           SoundCreate, SoundSwap DEF Next, Uninstalling, Installing

-----------------------------------------------------------------------------
(* Watchers *)

\* Steps after which a watcher that was asked to stop is as far as it was.
LEMMA WatchQuiet ==
  ASSUME Types, WatchInv, closed' = closed, returned \subseteq returned',
         stopEvent \subseteq stopEvent',
         \A h \in stopEvent : Past(h) => Past(h)',
         \A h \in Handle : wpc[h] = "none" => wpc'[h] = "none",
         \A t \in Threads : tpc[t] = "assign" => tpc'[t] = "assign" /\ fresh'[t] = fresh[t],
         \A t \in Threads :
            /\ tpc'[t] = "join" => tpc[t] = "join" /\ victim'[t] = victim[t]
            /\ tpc'[t] \in {"close", "closing", "mark"} =>
                 tpc[t] \in {"close", "closing", "mark"} /\ victim'[t] = victim[t]
  PROVE  WatchInv'
<1>1. \A h \in Handle : wpc'[h] = "none" \/ h \in returned'
                          \/ \E t \in Threads : tpc'[t] = "assign" /\ fresh'[t] = h
  BY DEF WatchInv
<1>2. \A t \in Threads :
         tpc'[t] \in {"join", "close", "closing", "mark"} => victim'[t] \in stopEvent'
  BY DEF WatchInv
<1>3. ASSUME NEW t \in Threads, tpc'[t] \in {"close", "closing", "mark"}  PROVE Past(victim[t])'
  <2>1. tpc[t] \in {"close", "closing", "mark"} /\ victim'[t] = victim[t]
    BY <1>3
  <2>2. victim[t] \in stopEvent /\ Past(victim[t])
    BY <2>1 DEF WatchInv
  <2> QED BY <2>1, <2>2 DEF Past
<1>4. \A h \in closed' : h \in stopEvent' /\ Past(h)'
  BY DEF WatchInv
<1> QED BY <1>1, <1>2, <1>3, <1>4 DEF WatchInv, Past

\* Steps of a thread that are neither the start of a watcher nor its end.
LEMMA WatchMoves ==
  ASSUME Types, WatchInv, NEW t \in Threads, UNCHANGED <<closed, returned, stopEvent, wpc>>,
         tpc[t] # "assign", tpc'[t] \notin {"join", "close", "closing", "mark"},
         \A o \in Threads \ {t} : tpc'[o] = tpc[o] /\ fresh'[o] = fresh[o] /\ victim'[o] = victim[o]
  PROVE  WatchInv'
<1>1. \A h \in stopEvent : Past(h) => Past(h)'
  BY DEF Past
<1>2. /\ \A o \in Threads : tpc[o] = "assign" => tpc'[o] = "assign" /\ fresh'[o] = fresh[o]
      /\ \A o \in Threads :
            tpc'[o] \in {"join", "close", "closing", "mark"} => tpc'[o] = tpc[o] /\ victim'[o] = victim[o]
  OBVIOUS
<1> QED BY <1>1, <1>2, WatchQuiet

\* No watcher of a closed handle is past the test of its stop event: it was
\* asked to stop before, and join() ended in the dump or after the loop.
LEMMA WatchNext == Types /\ WatchInv /\ [Next]_vars => WatchInv'
<1> SUFFICES ASSUME Types, WatchInv, [Next]_vars  PROVE WatchInv'
  OBVIOUS
<1> USE DEF kernelVars, threadVars, handleVars, ghostVars
<1>1. ASSUME NEW t \in Threads, Install(t) \/ UninstallHandle(t) \/ UninstallSignal(t) \/ ExitHook(t)
      PROVE  WatchInv'
  <2>1. /\ tpc[t] = "idle" /\ UNCHANGED <<closed, returned, stopEvent, wpc, fresh>>
        /\ \E h, pc : pc \in {"idle", "pipe", "exited"} /\ CallUninstall(t, h, pc)
    BY <1>1 DEF Install, UninstallHandle, UninstallSignal, ExitHook
  <2>2. /\ tpc'[t] \in {"idle", "pipe", "exited", "test"}
        /\ \A o \in Threads \ {t} : tpc'[o] = tpc[o] /\ victim'[o] = victim[o]
    BY <2>1, CallPlaces
  <2> QED BY <2>1, <2>2, WatchMoves
<1>2. ASSUME NEW t \in Threads, TestUninstalled(t) \/ Deregister(t)  PROVE WatchInv'
  <2>1. /\ tpc[t] \in {"test", "deregister"} /\ UNCHANGED <<closed, returned, stopEvent, wpc, fresh>>
        /\ Resume(t) \/ (Goto(t, "test", "stop") /\ UNCHANGED victim)
    BY <1>2 DEF TestUninstalled, Deregister
  <2>2. CASE Resume(t)
    <3>1. /\ tpc'[t] \in {"idle", "pipe", "exited"}
          /\ \A o \in Threads \ {t} : tpc'[o] = tpc[o] /\ victim'[o] = victim[o]
      BY <2>2, CallPlaces
    <3> QED BY <2>1, <3>1, WatchMoves
  <2>3. CASE Goto(t, "test", "stop") /\ UNCHANGED victim
    <3>1. tpc'[t] = "stop" /\ \A o \in Threads \ {t} : tpc'[o] = tpc[o]
      BY <2>3 DEF Goto, Types
    <3> QED BY <2>1, <2>3, <3>1, WatchMoves
  <2> QED BY <2>1, <2>2, <2>3
<1>3. ASSUME NEW t \in Threads, SetStop(t)  PROVE WatchInv'
  <2>1. /\ tpc[t] = "event" /\ tpc' = [tpc EXCEPT ![t] = "join"] /\ stopEvent' = stopEvent \cup {victim[t]}
        /\ UNCHANGED <<closed, returned, wpc, fresh, victim>>
    BY <1>3 DEF SetStop, Goto
  <2>2. tpc'[t] = "join" /\ \A o \in Threads \ {t} : tpc'[o] = tpc[o]
    BY <2>1 DEF Types
  <2>3. \A h \in Handle : wpc'[h] = "none" \/ h \in returned'
                            \/ \E o \in Threads : tpc'[o] = "assign" /\ fresh'[o] = h
    <3>1. \A o \in Threads : tpc[o] = "assign" => tpc'[o] = "assign"
      BY <2>1, <2>2
    <3> QED BY <2>1, <3>1 DEF WatchInv
  <2>4. /\ \A o \in Threads :
              tpc'[o] \in {"join", "close", "closing", "mark"} => victim'[o] \in stopEvent'
        /\ \A o \in Threads : tpc'[o] \in {"close", "closing", "mark"} => Past(victim[o])'
    BY <2>1, <2>2 DEF WatchInv, Past
  <2>5. \A h \in closed' : h \in stopEvent' /\ Past(h)'
    BY <2>1 DEF WatchInv, Past
  <2> QED BY <2>3, <2>4, <2>5 DEF WatchInv, Past
<1>4. ASSUME NEW t \in Threads, Join(t)  PROVE WatchInv'
  <2>1. /\ tpc[t] = "join" /\ tpc' = [tpc EXCEPT ![t] = "close"] /\ wpc[victim[t]] \in {"dump", "done"}
        /\ UNCHANGED <<closed, returned, stopEvent, wpc, fresh, victim>>
    BY <1>4 DEF Join, Goto
  <2>2. tpc'[t] = "close" /\ \A o \in Threads \ {t} : tpc'[o] = tpc[o]
    BY <2>1 DEF Types
  <2>3. \A h \in Handle : wpc'[h] = "none" \/ h \in returned'
                            \/ \E o \in Threads : tpc'[o] = "assign" /\ fresh'[o] = h
    <3>1. \A o \in Threads : tpc[o] = "assign" => tpc'[o] = "assign"
      BY <2>1, <2>2
    <3> QED BY <2>1, <3>1 DEF WatchInv
  <2>4. /\ \A o \in Threads :
              tpc'[o] \in {"join", "close", "closing", "mark"} => victim'[o] \in stopEvent'
        /\ \A o \in Threads : tpc'[o] \in {"close", "closing", "mark"} => Past(victim[o])'
    BY <2>1, <2>2 DEF WatchInv, Past
  <2>5. \A h \in closed' : h \in stopEvent' /\ Past(h)'
    BY <2>1 DEF WatchInv, Past
  <2> QED BY <2>3, <2>4, <2>5 DEF WatchInv, Past
<1>5. ASSUME NEW t \in Threads, MarkClosed(t)  PROVE WatchInv'
  <2>1. /\ tpc[t] = "mark" /\ tpc' = [tpc EXCEPT ![t] = "deregister"] /\ closed' = closed \cup {victim[t]}
        /\ UNCHANGED <<returned, stopEvent, wpc, fresh, victim>>
    BY <1>5 DEF MarkClosed, Goto
  <2>2. tpc'[t] = "deregister" /\ \A o \in Threads \ {t} : tpc'[o] = tpc[o]
    BY <2>1 DEF Types
  <2>3. victim[t] \in stopEvent /\ Past(victim[t])
    BY <2>1 DEF WatchInv
  <2>4. \A h \in Handle : wpc'[h] = "none" \/ h \in returned'
                            \/ \E o \in Threads : tpc'[o] = "assign" /\ fresh'[o] = h
    <3>1. \A o \in Threads : tpc[o] = "assign" => tpc'[o] = "assign"
      BY <2>1, <2>2
    <3> QED BY <2>1, <3>1 DEF WatchInv
  <2>5. /\ \A o \in Threads :
              tpc'[o] \in {"join", "close", "closing", "mark"} => victim'[o] \in stopEvent'
        /\ \A o \in Threads : tpc'[o] \in {"close", "closing", "mark"} => Past(victim[o])'
    BY <2>1, <2>2 DEF WatchInv, Past
  <2>6. \A h \in closed' : h \in stopEvent' /\ Past(h)'
    BY <2>1, <2>3 DEF WatchInv, Past
  <2> QED BY <2>4, <2>5, <2>6 DEF WatchInv, Past
<1>6. ASSUME NEW t \in Threads, PipeFails(t) \/ StartFails(t) \/ Undo(t)  PROVE WatchInv'
  <2>1. /\ tpc[t] \in {"pipe", "start", "undo"} /\ InstallRaises(t)
        /\ UNCHANGED <<closed, returned, stopEvent, wpc, victim>>
    BY <1>6 DEF PipeFails, StartFails, Undo
  <2>2. tpc'[t] = "idle" /\ \A o \in Threads \ {t} : tpc'[o] = tpc[o] /\ fresh'[o] = fresh[o]
    BY <2>1 DEF InstallRaises, Types
  <2> QED BY <2>1, <2>2, WatchMoves
<1>7. ASSUME NEW t \in Threads,
             CreatePipe(t) \/ SwapSlot(t) \/ CloseOld(t) \/ Arm(t) \/ SigactionFails(t)
      PROVE  WatchInv'
  <2>1. /\ tpc[t] \in {"pipe", "swap", "closeOld", "sigaction"}
        /\ UNCHANGED <<closed, returned, stopEvent, wpc, victim>>
    BY <1>7 DEF CreatePipe, SwapSlot, CloseOld, Arm, SigactionFails, Goto
  <2>2. /\ tpc'[t] \in {"swap", "closeOld", "sigaction", "start", "undo"}
        /\ \A o \in Threads \ {t} : tpc'[o] = tpc[o] /\ fresh'[o] = fresh[o]
    BY <1>7 DEF CreatePipe, SwapSlot, CloseOld, Arm, SigactionFails, Goto, Types
  <2> QED BY <2>1, <2>2, WatchMoves
<1>8. ASSUME NEW t \in Threads, StartWatcher(t)  PROVE WatchInv'
  <2>1. /\ tpc[t] = "start" /\ tpc' = [tpc EXCEPT ![t] = "assign"]
        /\ wpc' = [wpc EXCEPT ![fresh[t]] = "select"]
        /\ UNCHANGED <<closed, returned, stopEvent, fresh, victim>>
    BY <1>8 DEF StartWatcher, Goto
  <2>2. /\ tpc'[t] = "assign" /\ \A o \in Threads \ {t} : tpc'[o] = tpc[o]
        /\ \A h \in Handle : wpc'[h] = IF h = fresh[t] THEN "select" ELSE wpc[h]
    BY <2>1 DEF Types
  <2>3. \A h \in Handle : wpc'[h] = "none" \/ h \in returned'
                            \/ \E o \in Threads : tpc'[o] = "assign" /\ fresh'[o] = h
    <3>1. \A o \in Threads : tpc[o] = "assign" => tpc'[o] = "assign"
      BY <2>2
    <3> QED BY <2>1, <2>2, <3>1 DEF WatchInv
  <2>4. \A h \in Handle : Past(h) => Past(h)'
    BY <2>2 DEF Past
  <2>5. \A o \in Threads : tpc'[o] \in {"join", "close", "closing", "mark"} => victim'[o] \in stopEvent'
    BY <2>1, <2>2 DEF WatchInv
  <2>6. ASSUME NEW o \in Threads, tpc'[o] \in {"close", "closing", "mark"}  PROVE Past(victim[o])'
    <3>1. tpc[o] \in {"close", "closing", "mark"} /\ victim'[o] = victim[o]
      BY <2>1, <2>2, <2>6
    <3>2. victim[o] \in Handle /\ Past(victim[o])
      BY <3>1 DEF WatchInv, Types
    <3> QED BY <2>4, <3>1, <3>2 DEF Past
  <2>7. \A h \in closed' : h \in stopEvent' /\ Past(h)'
    BY <2>1, <2>4 DEF WatchInv, Types
  <2> QED BY <2>3, <2>5, <2>6, <2>7 DEF WatchInv, Past
<1>9. ASSUME NEW t \in Threads, Assign(t)  PROVE WatchInv'
  <2>1. /\ tpc[t] = "assign" /\ tpc' = [tpc EXCEPT ![t] = "idle"] /\ fresh' = [fresh EXCEPT ![t] = None]
        /\ returned' = returned \cup {fresh[t]} /\ UNCHANGED <<closed, stopEvent, wpc, victim>>
    BY <1>9 DEF Assign, Goto
  <2>2. tpc'[t] = "idle" /\ \A o \in Threads \ {t} : tpc'[o] = tpc[o] /\ fresh'[o] = fresh[o]
    BY <2>1 DEF Types
  <2>3. \A h \in Handle : wpc'[h] = "none" \/ h \in returned'
                            \/ \E o \in Threads : tpc'[o] = "assign" /\ fresh'[o] = h
    <3> SUFFICES ASSUME NEW h \in Handle, wpc'[h] # "none", h \notin returned'
                 PROVE  \E o \in Threads : tpc'[o] = "assign" /\ fresh'[o] = h
      OBVIOUS
    <3>1. PICK o \in Threads : tpc[o] = "assign" /\ fresh[o] = h
      BY <2>1 DEF WatchInv
    <3>2. o # t
      BY <2>1, <3>1
    <3> QED BY <2>2, <3>1, <3>2
  <2>4. /\ \A o \in Threads :
              tpc'[o] \in {"join", "close", "closing", "mark"} => victim'[o] \in stopEvent'
        /\ \A o \in Threads : tpc'[o] \in {"close", "closing", "mark"} => Past(victim[o])'
    BY <2>1, <2>2 DEF WatchInv, Past
  <2>5. \A h \in closed' : h \in stopEvent' /\ Past(h)'
    BY <2>1 DEF WatchInv, Past
  <2> QED BY <2>3, <2>4, <2>5 DEF WatchInv, Past
<1>10. ASSUME UNCHANGED <<closed, returned, stopEvent, tpc, fresh, victim>>,
              \A h \in stopEvent : Past(h) => Past(h)',
              \A h \in Handle : wpc[h] = "none" => wpc'[h] = "none"
       PROVE  WatchInv'
  BY <1>10, WatchQuiet
<1>11. ASSUME NEW h \in Handle, Watcher(h)  PROVE WatchInv'
  <2>1. UNCHANGED <<closed, returned, stopEvent, tpc, fresh, victim>>
    BY <1>11 DEF Watcher, Select, Recheck, Read, StartDump, DumpEnds
  <2>2. /\ wpc[h] # "none" /\ \A k \in Handle \ {h} : wpc'[k] = wpc[k]
        /\ h \in stopEvent /\ Past(h) => wpc'[h] \in {"select", "done"}
    <3>1. CASE Select(h)
      BY <3>1 DEF Select, WatcherGoto, Types
    <3>2. CASE Recheck(h)
      BY <3>2 DEF Recheck, WatcherGoto, Types, Past
    <3>3. CASE Read(h)
      BY <3>3 DEF Read, WatcherGoto, Types, Past
    <3>4. CASE StartDump(h)
      BY <3>4 DEF StartDump, WatcherGoto, Types, Past
    <3>5. CASE DumpEnds(h)
      BY <3>5 DEF DumpEnds, WatcherGoto, Types
    <3> QED BY <1>11, <3>1, <3>2, <3>3, <3>4, <3>5 DEF Watcher
  <2>3. \A k \in stopEvent : Past(k) => Past(k)'
    BY <2>2 DEF Past, Types
  <2> QED BY <2>1, <2>2, <2>3, <1>10
<1>12. CASE LoadSlot \/ WriteByte \/ OpenForeign \/ CloseForeign
  BY <1>10, <1>12 DEF LoadSlot, WriteByte, OpenForeign, CloseForeign, Past
<1>13. CASE UNCHANGED vars
  BY <1>10, <1>13 DEF vars, Past
<1>14. ASSUME NEW t \in Threads, MarkUninstalled(t)  PROVE WatchInv'
  <2>1. /\ UNCHANGED <<closed, returned, stopEvent, wpc, fresh, victim>>
        /\ tpc[t] # "assign" /\ tpc'[t] = "event" /\ \A o \in Threads \ {t} : tpc'[o] = tpc[o]
    BY <1>14 DEF MarkUninstalled, Goto, Types
  <2> QED BY <2>1, WatchMoves
<1>15. ASSUME NEW t \in Threads, TestReadFd(t) \/ CloseReadEnd(t)  PROVE WatchInv'
  <2>1. UNCHANGED <<closed, returned, stopEvent, wpc, fresh, victim>>
    BY <1>15 DEF TestReadFd, CloseReadEnd
  <2>2. /\ tpc[t] \in {"close", "closing"} /\ tpc'[t] \in {"closing", "mark", "deregister"}
        /\ \A o \in Threads \ {t} : tpc'[o] = tpc[o]
    BY <1>15 DEF TestReadFd, CloseReadEnd, Goto, Types
  <2>3. \A h \in stopEvent : Past(h) => Past(h)'
    BY <2>1 DEF Past
  <2> QED BY <2>1, <2>2, <2>3, WatchQuiet
<1> QED BY <1>1, <1>2, <1>3, <1>4, <1>5, <1>6, <1>7, <1>8, <1>9, <1>11, <1>12, <1>13, <1>14, <1>15
        DEF Next, Uninstalling, Installing

-----------------------------------------------------------------------------
(* No end leaks *)

\* Steps that leave the write ends to their keepers.
LEMMA WriteKept ==
  ASSUME WriteEndsAccounted, slot' = slot,
         \A f \in Fd : fds'[f].kind = "write" => fds'[f] = fds[f],
         \A f \in Fd, t \in Threads : fds'[f].kind = "write" /\ f = oldFd[t] => oldFd'[t] = oldFd[t],
         \A t \in Threads : tpc[t] = "swap" => tpc'[t] = "swap" /\ fresh'[t] = fresh[t]
  PROVE  WriteEndsAccounted'
<1> SUFFICES ASSUME NEW f \in Fd, fds'[f].kind = "write"
             PROVE  \/ f = slot'
                    \/ \E t \in Threads : f = oldFd'[t] \/ (tpc'[t] = "swap" /\ fds'[f].of = fresh'[t])
  BY DEF WriteEndsAccounted
<1>1. \/ f = slot
      \/ \E t \in Threads : f = oldFd[t] \/ (tpc[t] = "swap" /\ fds[f].of = fresh[t])
  BY DEF WriteEndsAccounted
<1> QED BY <1>1

\* A write end passes from keeper to keeper until it is closed.
LEMMA WriteAccounted ==
  Types /\ PipeInv /\ HandleInv /\ NumberInv /\ WriteEndsAccounted /\ [Next]_vars => WriteEndsAccounted'
<1> SUFFICES ASSUME Types, PipeInv, HandleInv, NumberInv, WriteEndsAccounted, [Next]_vars
             PROVE  WriteEndsAccounted'
  OBVIOUS
<1> USE DEF kernelVars, threadVars, handleVars, ghostVars
<1>1. ASSUME NEW t \in Threads, UNCHANGED <<slot, oldFd, fresh>>, tpc[t] # "swap",
             \A o \in Threads \ {t} : tpc'[o] = tpc[o],
             \A f \in Fd : fds'[f].kind = "write" => fds'[f] = fds[f]
      PROVE  WriteEndsAccounted'
  BY <1>1, WriteKept
<1>2. ASSUME NEW t \in Threads, Install(t) \/ UninstallHandle(t) \/ UninstallSignal(t) \/ ExitHook(t)
      PROVE  WriteEndsAccounted'
  <2>1. /\ tpc[t] = "idle" /\ UNCHANGED <<slot, oldFd, fresh, fds>>
        /\ \E h, pc : pc \in {"idle", "pipe", "exited"} /\ CallUninstall(t, h, pc)
    BY <1>2 DEF Install, UninstallHandle, UninstallSignal, ExitHook
  <2>2. \A o \in Threads \ {t} : tpc'[o] = tpc[o]
    BY <2>1, CallPlaces
  <2> QED BY <2>1, <2>2, <1>1
<1>3. ASSUME NEW t \in Threads, TestUninstalled(t) \/ Deregister(t)  PROVE WriteEndsAccounted'
  <2>1. /\ tpc[t] \in {"test", "deregister"} /\ UNCHANGED <<slot, oldFd, fresh, fds>>
        /\ Resume(t) \/ Goto(t, "test", "stop")
    BY <1>3 DEF TestUninstalled, Deregister
  <2>2. \A o \in Threads \ {t} : tpc'[o] = tpc[o]
    BY <2>1, CallPlaces DEF Goto, Types
  <2> QED BY <2>1, <2>2, <1>1
<1>4. ASSUME NEW t \in Threads,
             \/ MarkUninstalled(t) \/ SetStop(t) \/ Join(t) \/ TestReadFd(t) \/ MarkClosed(t)
             \/ Arm(t) \/ StartWatcher(t)
      PROVE  WriteEndsAccounted'
  <2>1. UNCHANGED <<slot, oldFd, fresh, fds>>
    BY <1>4 DEF MarkUninstalled, SetStop, Join, TestReadFd, MarkClosed, Arm, StartWatcher
  <2>2. tpc[t] # "swap" /\ \A o \in Threads \ {t} : tpc'[o] = tpc[o]
    BY <1>4 DEF MarkUninstalled, SetStop, Join, TestReadFd, MarkClosed, Arm, StartWatcher, Goto, Types
  <2> QED BY <2>1, <2>2, <1>1
<1>5. ASSUME NEW t \in Threads, CloseReadEnd(t)  PROVE WriteEndsAccounted'
  <2>1. UNCHANGED <<slot, oldFd, fresh>> /\ tpc[t] = "closing"
    BY <1>5 DEF CloseReadEnd, Goto
  <2>2. \A o \in Threads \ {t} : tpc'[o] = tpc[o]
    BY <1>5 DEF CloseReadEnd, Goto, Types
  <2>3. readFd[victim[t]] \in Fd
    BY <2>1, Numbers DEF VictimPcs, StopPcs
  <2>4. fds' = Without(fds, readFd[victim[t]])
    BY <1>5 DEF CloseReadEnd
  <2>5. \A f \in Fd : fds'[f].kind = "write" => fds'[f] = fds[f]
    BY <2>3, <2>4, CloseFd DEF Unused
  <2> QED BY <2>1, <2>2, <2>5, <1>1
<1>6. ASSUME NEW t \in Threads, PipeFails(t) \/ StartFails(t) \/ Assign(t)  PROVE WriteEndsAccounted'
  <2>1. tpc[t] \in {"pipe", "start", "assign"} /\ UNCHANGED <<slot, fds>>
    BY <1>6 DEF PipeFails, StartFails, Assign, Goto
  <2>2. oldFd[t] = NoFd
    BY <2>1 DEF NumberInv, Types
  <2>3. /\ oldFd' = oldFd
        /\ \A o \in Threads \ {t} : tpc'[o] = tpc[o] /\ fresh'[o] = fresh[o]
    BY <1>6, <2>2 DEF PipeFails, StartFails, Assign, Goto, InstallRaises, Types
  <2> QED BY <2>1, <2>3, WriteKept
<1>7. ASSUME NEW t \in Threads, CreatePipe(t)  PROVE WriteEndsAccounted'
  <2> DEFINE r == Lowest(UnusedFds)
             w == Lowest(UnusedFds \ {r})
  <2>1. /\ r \in Fd /\ w \in Fd /\ r # w
        /\ fds' = [fds EXCEPT ![r] = ReadEnd(made + 1), ![w] = WriteEnd(made + 1)]
    BY <1>7, NewEnds DEF CreatePipe, UnusedFds
  <2>2. /\ fresh' = [fresh EXCEPT ![t] = made + 1] /\ tpc[t] = "pipe"
        /\ tpc' = [tpc EXCEPT ![t] = "swap"] /\ UNCHANGED <<slot, oldFd>>
    BY <1>7 DEF CreatePipe, Goto
  <2> HIDE DEF r, w
  <2>3. /\ fds'[r] = ReadEnd(made + 1) /\ fds'[w] = WriteEnd(made + 1)
        /\ \A f \in Fd \ {r, w} : fds'[f] = fds[f]
        /\ tpc'[t] = "swap" /\ fresh'[t] = made + 1
        /\ \A o \in Threads \ {t} : tpc'[o] = tpc[o] /\ fresh'[o] = fresh[o]
    BY <2>1, <2>2 DEF Types
  <2> SUFFICES ASSUME NEW f \in Fd, fds'[f].kind = "write"
               PROVE  \/ f = slot'
                      \/ \E o \in Threads : f = oldFd'[o] \/ (tpc'[o] = "swap" /\ fds'[f].of = fresh'[o])
    BY DEF WriteEndsAccounted
  <2>4. CASE f = w
    BY <2>3, <2>4 DEF WriteEnd
  <2>5. CASE f # w
    <3>1. fds'[f] = fds[f]
      BY <2>3, <2>5 DEF ReadEnd
    <3>2. \/ f = slot
          \/ \E o \in Threads : f = oldFd[o] \/ (tpc[o] = "swap" /\ fds[f].of = fresh[o])
      BY <3>1 DEF WriteEndsAccounted
    <3>3. \A o \in Threads : tpc[o] = "swap" => tpc'[o] = "swap" /\ fresh'[o] = fresh[o]
      BY <2>2, <2>3
    <3> QED BY <2>2, <3>1, <3>2, <3>3
  <2> QED BY <2>4, <2>5
<1>8. ASSUME NEW t \in Threads, SwapSlot(t)  PROVE WriteEndsAccounted'
  <2>1. /\ tpc[t] = "swap" /\ tpc' = [tpc EXCEPT ![t] = "closeOld"] /\ slot' = writeFd[fresh[t]]
        /\ oldFd' = [oldFd EXCEPT ![t] = slot] /\ UNCHANGED <<fds, fresh>>
    BY <1>8 DEF SwapSlot, Goto
  <2>3. /\ oldFd'[t] = slot /\ \A o \in Threads \ {t} : oldFd'[o] = oldFd[o] /\ tpc'[o] = tpc[o]
    BY <2>1 DEF Types
  <2>4. oldFd[t] \notin Fd
    BY <2>1 DEF NumberInv
  <2> SUFFICES ASSUME NEW f \in Fd, fds'[f].kind = "write"
               PROVE  \/ f = slot'
                      \/ \E o \in Threads : f = oldFd'[o] \/ (tpc'[o] = "swap" /\ fds'[f].of = fresh'[o])
    BY DEF WriteEndsAccounted
  <2>5. CASE f = slot
    BY <2>3, <2>5
  <2>6. CASE \E o \in Threads : f = oldFd[o]
    BY <2>3, <2>4, <2>6
  <2>7. CASE \E o \in Threads \ {t} : tpc[o] = "swap" /\ fds[f].of = fresh[o]
    BY <2>1, <2>3, <2>7
  <2>8. CASE fds[f].of = fresh[t]
    <3>1. f = writeFd[fresh[t]]
      BY <2>1, <2>8 DEF NumberInv
    <3> QED BY <2>1, <3>1
  <2> QED BY <2>1, <2>5, <2>6, <2>7, <2>8 DEF WriteEndsAccounted
<1>9. ASSUME NEW t \in Threads, CloseOld(t)  PROVE WriteEndsAccounted'
  <2>1. /\ tpc[t] = "closeOld" /\ tpc' = [tpc EXCEPT ![t] = "sigaction"]
        /\ oldFd' = [oldFd EXCEPT ![t] = NoFd] /\ fds' = Without(fds, oldFd[t]) /\ UNCHANGED <<slot, fresh>>
    BY <1>9 DEF CloseOld, Goto
  <2>2. \A o \in Threads \ {t} : oldFd'[o] = oldFd[o] /\ tpc'[o] = tpc[o]
    BY <2>1 DEF Types
  <2>3. \A f \in Fd : fds'[f].kind = "write" => fds'[f] = fds[f] /\ f # oldFd[t]
    BY <2>1, CloseFd DEF Types, Unused
  <2> QED BY <2>1, <2>2, <2>3, WriteKept
<1>10. ASSUME NEW t \in Threads, SigactionFails(t)  PROVE WriteEndsAccounted'
  <2>1. /\ tpc[t] = "sigaction" /\ tpc' = [tpc EXCEPT ![t] = "undo"]
        /\ oldFd' = [oldFd EXCEPT ![t] = slot] /\ UNCHANGED <<fds, fresh>>
    BY <1>10 DEF SigactionFails, Goto
  <2>2. oldFd'[t] = slot /\ \A o \in Threads \ {t} : oldFd'[o] = oldFd[o] /\ tpc'[o] = tpc[o]
    BY <2>1 DEF Types
  <2>3. oldFd[t] \notin Fd
    BY <2>1 DEF NumberInv
  <2> SUFFICES ASSUME NEW f \in Fd, fds'[f].kind = "write"
               PROVE  \E o \in Threads : f = oldFd'[o] \/ (tpc'[o] = "swap" /\ fds'[f].of = fresh'[o])
    BY DEF WriteEndsAccounted
  <2>4. \/ f = slot
        \/ \E o \in Threads : f = oldFd[o] \/ (tpc[o] = "swap" /\ fds[f].of = fresh[o])
    BY <2>1 DEF WriteEndsAccounted
  <2> QED BY <2>1, <2>2, <2>3, <2>4
<1>11. ASSUME NEW t \in Threads, Undo(t)  PROVE WriteEndsAccounted'
  <2>1. /\ tpc[t] = "undo" /\ InstallRaises(t) /\ fds' = Without(Without(fds, oldFd[t]), readFd[fresh[t]])
        /\ slot' = slot
    BY <1>11 DEF Undo
  <2>2. \A o \in Threads \ {t} : oldFd'[o] = oldFd[o] /\ tpc'[o] = tpc[o] /\ fresh'[o] = fresh[o]
    BY <2>1 DEF InstallRaises, Types
  <2>3. readFd[fresh[t]] \in Fd
    BY <2>1, Numbers DEF FreshPcs
  <2>4. /\ Without(fds, oldFd[t]) \in [Fd -> Ends]
        /\ \A f \in Fd : Without(fds, oldFd[t])[f] = IF f = oldFd[t] THEN Unused ELSE fds[f]
    BY CloseFd DEF Types
  <2>5. \A f \in Fd : fds'[f] = IF f = readFd[fresh[t]] THEN Unused ELSE Without(fds, oldFd[t])[f]
    BY <2>1, <2>3, <2>4 DEF Without
  <2>6. \A f \in Fd : fds'[f].kind = "write" => fds'[f] = fds[f] /\ f # oldFd[t]
    BY <2>4, <2>5 DEF Unused
  <2> QED BY <2>1, <2>2, <2>6, WriteKept
<1>12. ASSUME NEW h \in Handle, Watcher(h)  PROVE WriteEndsAccounted'
  <2>1. UNCHANGED <<slot, oldFd, fresh, fds, tpc>>
    BY <1>12 DEF Watcher, Select, Recheck, Read, StartDump, DumpEnds
  <2> QED BY <2>1, WriteKept
<1>13. CASE LoadSlot \/ WriteByte
  <2>1. UNCHANGED <<slot, oldFd, fresh, fds, tpc>>
    BY <1>13 DEF LoadSlot, WriteByte
  <2> QED BY <2>1, WriteKept
<1>14. CASE OpenForeign \/ CloseForeign
  <2>1. UNCHANGED <<slot, oldFd, fresh, tpc>>
    BY <1>14 DEF OpenForeign, CloseForeign
  <2>2. \A f \in Fd : fds'[f].kind = "write" => fds'[f] = fds[f]
    <3>1. CASE OpenForeign
      BY <3>1 DEF OpenForeign, Types, Foreign
    <3>2. CASE CloseForeign
      BY <3>2, CloseFd DEF CloseForeign, Unused, Types
    <3> QED BY <1>14, <3>1, <3>2
  <2> QED BY <2>1, <2>2, WriteKept
<1>15. CASE UNCHANGED vars
  BY <1>15, WriteKept DEF vars
<1> QED BY <1>2, <1>3, <1>4, <1>5, <1>6, <1>7, <1>8, <1>9, <1>10, <1>11, <1>12, <1>13, <1>14, <1>15
        DEF Next, Uninstalling, Installing

\* Steps that leave each read end to the one who can close it.
LEMMA ReadKept ==
  ASSUME Types, ReadEndsAccounted,
         \A f \in Fd : fds'[f].kind = "read" =>
            /\ fds'[f] = fds[f] /\ fds[f].of \notin closed'
            /\ \A t \in Threads : fresh[t] = fds[f].of =>
                  fresh'[t] = fresh[t] \/ fresh[t] \in returned' \/ fresh[t] \in failed',
         returned \subseteq returned', failed \subseteq failed'
  PROVE  ReadEndsAccounted'
<1> SUFFICES ASSUME NEW f \in Fd, fds'[f].kind = "read"
             PROVE  /\ fds'[f].of \notin closed'
                    /\ \/ fds'[f].of \in returned' \/ fds'[f].of \in failed'
                       \/ \E t \in Threads : fresh'[t] = fds'[f].of
  BY DEF ReadEndsAccounted
<1>1. fds[f].of \in returned \/ fds[f].of \in failed \/ \E t \in Threads : fresh[t] = fds[f].of
  BY DEF ReadEndsAccounted
<1> QED BY <1>1

\* A read end is open only where someone can still close it, or no watcher
\* could be started for it.
LEMMA ReadAccounted ==
  Types /\ PipeInv /\ HandleInv /\ NumberInv /\ ReadEndsAccounted /\ [Next]_vars => ReadEndsAccounted'
<1> SUFFICES ASSUME Types, PipeInv, HandleInv, NumberInv, ReadEndsAccounted, [Next]_vars
             PROVE  ReadEndsAccounted'
  OBVIOUS
<1> USE DEF kernelVars, threadVars, handleVars, ghostVars
<1>1. ASSUME \A f \in Fd : fds'[f].kind = "read" => fds'[f] = fds[f], UNCHANGED <<closed, returned, failed, fresh>>
      PROVE  ReadEndsAccounted'
  BY <1>1, ReadKept DEF ReadEndsAccounted
<1>2. ASSUME NEW t \in Threads,
             \/ Install(t) \/ UninstallHandle(t) \/ UninstallSignal(t) \/ ExitHook(t)
             \/ TestUninstalled(t) \/ MarkUninstalled(t) \/ SetStop(t) \/ Join(t) \/ TestReadFd(t)
             \/ Deregister(t)
             \/ SwapSlot(t) \/ Arm(t) \/ SigactionFails(t) \/ StartWatcher(t)
      PROVE  ReadEndsAccounted'
  <2>1. UNCHANGED <<fds, closed, returned, failed, fresh>>
    BY <1>2 DEF Install, UninstallHandle, UninstallSignal, ExitHook, TestUninstalled,
       MarkUninstalled, SetStop, Join, TestReadFd, Deregister, SwapSlot, Arm, SigactionFails, StartWatcher
  <2> QED BY <2>1, <1>1
<1>3. ASSUME NEW t \in Threads, CloseReadEnd(t)  PROVE ReadEndsAccounted'
  <2>1. /\ tpc[t] = "closing" /\ fds' = Without(fds, readFd[victim[t]])
        /\ UNCHANGED <<closed, returned, failed, fresh>>
    BY <1>3 DEF CloseReadEnd, Goto
  <2>2. readFd[victim[t]] \in Fd
    BY <2>1, Numbers DEF VictimPcs, StopPcs
  <2>3. \A f \in Fd : fds'[f].kind = "read" => fds'[f] = fds[f]
    BY <2>1, <2>2, CloseFd DEF Unused
  <2> QED BY <2>1, <2>3, <1>1
<1>4. ASSUME NEW t \in Threads, PipeFails(t) \/ StartFails(t)  PROVE ReadEndsAccounted'
  <2>1. UNCHANGED <<fds, closed, returned>> /\ fresh' = [fresh EXCEPT ![t] = None] /\ failed \subseteq failed'
    BY <1>4 DEF PipeFails, StartFails, InstallRaises
  <2>2. fresh[t] = None \/ fresh[t] \in failed'
    BY <1>4 DEF PipeFails, StartFails, PipeInv, FreshPcs
  <2>3. \A f \in Fd : fds[f].kind = "read" => fds[f].of # None
    BY EndKinds, NoNumbers
  <2>4. \A o \in Threads \ {t} : fresh'[o] = fresh[o]
    BY <2>1 DEF Types
  <2>5. \A f \in Fd : fds'[f].kind = "read" => fds'[f] = fds[f] /\ fds[f].of \notin closed'
    BY <2>1 DEF ReadEndsAccounted
  <2> QED BY <2>1, <2>2, <2>3, <2>4, <2>5, ReadKept
<1>5. ASSUME NEW t \in Threads, CreatePipe(t)  PROVE ReadEndsAccounted'
  <2> DEFINE r == Lowest(UnusedFds)
             w == Lowest(UnusedFds \ {r})
  <2>1. /\ r \in Fd /\ w \in Fd /\ r # w
        /\ fds' = [fds EXCEPT ![r] = ReadEnd(made + 1), ![w] = WriteEnd(made + 1)]
    BY <1>5, NewEnds DEF CreatePipe, UnusedFds
  <2>2. /\ fresh' = [fresh EXCEPT ![t] = made + 1] /\ fresh[t] = None /\ made \in Nat
        /\ UNCHANGED <<closed, returned, failed>>
    BY <1>5, BoundAssumption DEF CreatePipe, Goto, Types, PipeInv, FreshPcs
  <2> HIDE DEF r, w
  <2>3. /\ fds'[r] = ReadEnd(made + 1) /\ fds'[w] = WriteEnd(made + 1)
        /\ \A f \in Fd \ {r, w} : fds'[f] = fds[f]
        /\ fresh'[t] = made + 1 /\ \A o \in Threads \ {t} : fresh'[o] = fresh[o]
    BY <2>1, <2>2 DEF Types
  <2> SUFFICES ASSUME NEW f \in Fd, fds'[f].kind = "read"
               PROVE  /\ fds'[f].of \notin closed'
                      /\ \/ fds'[f].of \in returned' \/ fds'[f].of \in failed'
                         \/ \E o \in Threads : fresh'[o] = fds'[f].of
    BY DEF ReadEndsAccounted
  <2>4. CASE f = r
    <3>1. made + 1 \notin closed
      BY <2>2 DEF HandleInv
    <3> QED BY <2>2, <2>3, <2>4, <3>1 DEF ReadEnd
  <2>5. CASE f # r
    <3>1. fds'[f] = fds[f]
      BY <2>3, <2>5 DEF WriteEnd
    <3>2. /\ fds[f].of \notin closed /\ fds[f].of # None
          /\ fds[f].of \in returned \/ fds[f].of \in failed \/ \E o \in Threads : fresh[o] = fds[f].of
      BY <3>1, EndKinds, NoNumbers DEF ReadEndsAccounted
    <3> QED BY <2>2, <2>3, <3>1, <3>2
  <2> QED BY <2>4, <2>5
<1>6. ASSUME NEW t \in Threads, CloseOld(t)  PROVE ReadEndsAccounted'
  <2>1. UNCHANGED <<closed, returned, failed, fresh>> /\ fds' = Without(fds, oldFd[t])
    BY <1>6 DEF CloseOld
  <2>2. \A f \in Fd : fds'[f].kind = "read" => fds'[f] = fds[f]
    BY <2>1, CloseFd DEF Types, Unused
  <2> QED BY <2>1, <2>2, <1>1
<1>7. ASSUME NEW t \in Threads, Undo(t)  PROVE ReadEndsAccounted'
  <2>1. /\ tpc[t] = "undo" /\ fds' = Without(Without(fds, oldFd[t]), readFd[fresh[t]])
        /\ fresh' = [fresh EXCEPT ![t] = None] /\ UNCHANGED <<closed, returned, failed>>
    BY <1>7 DEF Undo, InstallRaises
  <2>2. readFd[fresh[t]] \in Fd
    BY <2>1, Numbers DEF FreshPcs
  <2>3. /\ Without(fds, oldFd[t]) \in [Fd -> Ends]
        /\ \A f \in Fd : Without(fds, oldFd[t])[f] = IF f = oldFd[t] THEN Unused ELSE fds[f]
    BY CloseFd DEF Types
  <2>4. \A f \in Fd : fds'[f] = IF f = readFd[fresh[t]] THEN Unused ELSE Without(fds, oldFd[t])[f]
    BY <2>1, <2>2, <2>3 DEF Without
  <2>5. \A f \in Fd : fds'[f].kind = "read" => fds'[f] = fds[f] /\ fds[f].of # fresh[t]
    BY <2>3, <2>4 DEF Unused, NumberInv
  <2>6. \A o \in Threads \ {t} : fresh'[o] = fresh[o]
    BY <2>1 DEF Types
  <2>7. \A f \in Fd : fds'[f].kind = "read" => fds[f].of \notin closed'
    BY <2>1, <2>5 DEF ReadEndsAccounted
  <2> QED BY <2>1, <2>5, <2>6, <2>7, ReadKept
<1>8. ASSUME NEW t \in Threads, Assign(t)  PROVE ReadEndsAccounted'
  <2>1. /\ fresh' = [fresh EXCEPT ![t] = None] /\ returned' = returned \cup {fresh[t]}
        /\ UNCHANGED <<fds, closed, failed>>
    BY <1>8 DEF Assign
  <2>2. \A o \in Threads \ {t} : fresh'[o] = fresh[o]
    BY <2>1 DEF Types
  <2>3. \A f \in Fd : fds'[f].kind = "read" => fds'[f] = fds[f] /\ fds[f].of \notin closed'
    BY <2>1 DEF ReadEndsAccounted
  <2> QED BY <2>1, <2>2, <2>3, ReadKept
<1>9. ASSUME NEW h \in Handle, Watcher(h)  PROVE ReadEndsAccounted'
  <2>1. UNCHANGED <<fds, closed, returned, failed, fresh>>
    BY <1>9 DEF Watcher, Select, Recheck, Read, StartDump, DumpEnds
  <2> QED BY <2>1, <1>1
<1>10. CASE LoadSlot \/ WriteByte
  <2>1. UNCHANGED <<fds, closed, returned, failed, fresh>>
    BY <1>10 DEF LoadSlot, WriteByte
  <2> QED BY <2>1, <1>1
<1>11. CASE OpenForeign \/ CloseForeign
  <2>1. UNCHANGED <<closed, returned, failed, fresh>>
    BY <1>11 DEF OpenForeign, CloseForeign
  <2>2. \A f \in Fd : fds'[f].kind = "read" => fds'[f] = fds[f]
    <3>1. CASE OpenForeign
      BY <3>1 DEF OpenForeign, Types, Foreign
    <3>2. CASE CloseForeign
      BY <3>2, CloseFd DEF CloseForeign, Unused, Types
    <3> QED BY <1>11, <3>1, <3>2
  <2> QED BY <2>1, <2>2, <1>1
<1>12. CASE UNCHANGED vars
  BY <1>1, <1>12 DEF vars
<1>13. ASSUME NEW t \in Threads, MarkClosed(t)  PROVE ReadEndsAccounted'
  <2>1. /\ tpc[t] = "mark" /\ closed' = closed \cup {victim[t]}
        /\ UNCHANGED <<fds, returned, failed, fresh>>
    BY <1>13 DEF MarkClosed, Goto
  <2>2. \A f \in Fd : fds[f].kind = "read" => fds[f].of # victim[t]
    BY <2>1, EndKinds DEF NumberInv
  <2>3. \A f \in Fd : fds'[f].kind = "read" => fds'[f] = fds[f] /\ fds[f].of \notin closed'
    BY <2>1, <2>2 DEF ReadEndsAccounted
  <2> QED BY <2>1, <2>3, ReadKept
<1> QED BY <1>2, <1>3, <1>4, <1>5, <1>6, <1>7, <1>8, <1>9, <1>10, <1>11, <1>12, <1>13
        DEF Next, Uninstalling, Installing

-----------------------------------------------------------------------------
(* The theorems *)

IInv ==
    /\ Types /\ BytesInv /\ PipeInv /\ HandleInv /\ NumberInv /\ WatchInv
    /\ WriteEndsAccounted /\ ReadEndsAccounted
    /\ ~twice => Sound

\* Nothing is open, and nobody holds anything.
LEMMA InitIInv == Init => IInv
<1> SUFFICES ASSUME Init  PROVE IInv
  OBVIOUS
<1>1. Types
  BY TypesInit
<1>2. BytesInv
  BY DEF Init, BytesInv
<1>3. \A f \in Fd : fds[f].kind = "unused"
  BY DEF Init, Unused
<1>4. \A t \in Threads : tpc[t] = "idle" /\ fresh[t] = None /\ victim[t] = None /\ oldFd[t] = NoFd
  BY DEF Init
<1>5. made = 0 /\ slot = NoFd /\ registry = None /\ returned = {} /\ closed = {} /\ NoFd \notin Fd
  BY NoNumbers DEF Init
<1>6. PipeInv
  BY <1>3, <1>4, <1>5 DEF PipeInv, FreshPcs, None
<1>7. HandleInv /\ NumberInv
  BY <1>3, <1>4, <1>5 DEF HandleInv, NumberInv, VictimPcs, StopPcs
<1>8. Sound
  <2>1. OneInv /\ WriteInv
    BY <1>3, <1>4, <1>5 DEF OneInv, WriteInv, StopPcs
  <2>2. ReadInv
    BY <1>4, <1>5 DEF Init, ReadInv
  <2> QED BY <2>1, <2>2 DEF Sound
<1>9. WatchInv
  BY <1>4, <1>5 DEF Init, WatchInv
<1>10. WriteEndsAccounted /\ ReadEndsAccounted
  BY <1>3 DEF WriteEndsAccounted, ReadEndsAccounted
<1> QED BY <1>1, <1>2, <1>6, <1>7, <1>8, <1>9, <1>10 DEF IInv

\* The invariant holds of every state.
LEMMA Invariant == Spec => []IInv
<1>1. IInv /\ [Next]_vars => IInv'
  <2> SUFFICES ASSUME IInv, [Next]_vars  PROVE IInv'
    OBVIOUS
  <2>1. /\ Types' /\ BytesInv' /\ PipeInv' /\ HandleInv' /\ NumberInv' /\ WatchInv'
        /\ WriteEndsAccounted' /\ ReadEndsAccounted'
    BY TypesNext, BytesNext, PipeNext, HandleNext, NumberNext, WatchNext, WriteAccounted, ReadAccounted,
       Zenon DEF IInv
  <2>2. ASSUME ~twice'  PROVE Sound'
    <3>1. Sound
      BY <2>2, TwiceStays DEF IInv
    <3> QED BY <2>2, <3>1, OneNext, SoundNext DEF IInv, Sound
  <2> QED BY <2>1, <2>2 DEF IInv
<1> QED BY InitIInv, <1>1, PTL DEF Spec

\* Every variable stays in its domain, and the slot of the C handler never
\* names a number that has been closed, also while sigaction() fails, until
\* two threads uninstall one handle at the same time.
THEOREM HandlersType == Spec => []TypeOK
<1>1. IInv => TypeOK
  <2> SUFFICES ASSUME IInv  PROVE TypeOK
    OBVIOUS
  <2>1. pipe \in [Handle -> 0..MaxSignals]
    <3>1. sent \in 0..MaxSignals /\ pipe \in [Handle -> Nat] /\ MaxSignals \in Nat
      BY BoundAssumption DEF IInv, Types
    <3>2. \A h \in Handle : pipe[h] <= sent
      BY DEF IInv, BytesInv
    <3>3. \A h \in Handle : pipe[h] \in 0..MaxSignals
      BY <3>1, <3>2
    <3> QED BY <3>1, <3>3
  <2>2. slot \in Fd \cup {NoFd} /\ (~twice => slot = NoFd \/ fds[slot].kind = "write")
    BY DEF IInv, Types, Sound, WriteInv
  <2>3. fds \in [Fd -> {Unused, Foreign} \cup {ReadEnd(h) : h \in Handle} \cup {WriteEnd(h) : h \in Handle}]
    BY DEF IInv, Types, Ends
  <2> QED BY <2>1, <2>2, <2>3 DEF IInv, Types, TypeOK
<1> QED BY Invariant, <1>1, PTL

\* No write end of a pipe leaks, in any order of installations, failures and
\* uninstalls by any number of threads, one handle twice at once too.
THEOREM NoWriteEndLeaks == Spec => []WriteEndsAccounted
<1>1. IInv => WriteEndsAccounted
  BY DEF IInv
<1> QED BY Invariant, <1>1, PTL

\* No read end of a pipe leaks, but for those a failed Thread.start() leaves.
THEOREM NoReadEndLeaks == Spec => []ReadEndsAccounted
<1>1. IInv => ReadEndsAccounted
  BY DEF IInv
<1> QED BY Invariant, <1>1, PTL

\* A watcher's number is its own as long as its handle is neither closed nor
\* about to be marked so.
LEMMA WatcherOwns ==
  ASSUME IInv, ~twice, NEW h \in Handle, wpc[h] # "none", h \notin closed,
         \A t \in Threads : tpc[t] = "mark" => victim[t] # h
  PROVE  OwnsReadFd(h)
<1>1. ReadInv /\ WatchInv
  BY DEF IInv, Sound
<1>2. CASE h \in returned
  BY <1>1, <1>2 DEF ReadInv
<1>3. CASE \E t \in Threads : tpc[t] = "assign" /\ fresh[t] = h
  <2>1. PICK t \in Threads : fresh[t] = h
    BY <1>3
  <2>2. fresh[t] # None
    BY <2>1, NoNumbers
  <2>3. OwnsReadFd(fresh[t])
    BY <1>1, <2>2 DEF ReadInv
  <2> QED BY <2>1, <2>3
<1> QED BY <1>1, <1>2, <1>3 DEF WatchInv

\* A watcher that is about to read is not past its dump, so that its handle
\* is not being closed.
LEMMA ReaderOwns == IInv => WatcherReadsOwnPipe
<1> SUFFICES ASSUME IInv, ~twice, NEW h \in Handle, wpc[h] = "read"  PROVE OwnsReadFd(h)
  BY DEF WatcherReadsOwnPipe
<1>1. ~Past(h) /\ WatchInv
  BY DEF IInv, Past
<1>2. h \notin closed /\ \A t \in Threads : tpc[t] = "mark" => victim[t] # h
  BY <1>1 DEF WatchInv
<1> QED BY <1>2, WatcherOwns

\* A watcher reads its own pipe only, though its number may be closed and
\* given to someone else while it dumps; until two threads uninstall one
\* handle at the same time.
THEOREM ReadsOwnPipe == Spec => []WatcherReadsOwnPipe
BY Invariant, ReaderOwns, PTL

-----------------------------------------------------------------------------
(* One API thread.  With a single thread t the slot, the registry and the   *)
(* watchers agree between its calls; with two they need not.                *)

\* Nobody has asked the watcher of h to stop; a signal's byte reaches h.
Running(h) == wpc[h] \notin {"none", "done"} /\ h \notin stopEvent
Reached(h) == armed /\ slot \in Fd /\ fds[slot] = WriteEnd(h)

\* The rest of uninstall(), once the watcher has been asked to stop.
StoppedPcs == {"join", "close", "closing", "mark", "deregister"}

\* What the registry holds, and for how long a handle asked to stop is in it.
CallInv(t) ==
    /\ stopEvent \subseteq uninstalled /\ uninstalled \subseteq returned
    /\ \A h \in uninstalled : h \in stopEvent \/ (tpc[t] = "event" /\ h = victim[t])
    /\ tpc[t] \notin VictimPcs => after[t] = "idle"
    /\ tpc[t] \in StoppedPcs => victim[t] \in stopEvent
    /\ registry # None => after[t] = "idle" /\ tpc[t] \notin FreshPcs \cup {"pipe", "exited"}
    /\ registry \in stopEvent => tpc[t] \in StoppedPcs
    /\ tpc[t] \in VictimPcs =>
          registry \in {None, victim[t]} \/ (tpc[t] = "test" /\ victim[t] \in stopEvent)

\* The slot names the pipe being installed.
SlotInv(t) ==
    /\ tpc[t] \in {"closeOld", "sigaction", "start", "assign"} =>
          slot \in Fd /\ fds[slot] = WriteEnd(fresh[t])
    /\ tpc[t] \in {"start", "assign"} => armed

\* A watcher that nobody has asked to stop is reached by signals, has bytes to
\* read when it is about to, and is registered, being registered or about to
\* be asked.
RunInv(t) ==
    /\ \A h \in Handle : Running(h) =>
          /\ Reached(h) /\ (wpc[h] \in {"ready", "read"} => pipe[h] > 0)
          /\ \/ h = registry
             \/ tpc[t] \in {"test", "stop", "event"} /\ victim[t] = h
             \/ tpc[t] = "assign" /\ fresh[t] = h
    /\ \A h \in returned : h \in stopEvent \/ Running(h)
    /\ tpc[t] = "assign" => Running(fresh[t])

LoneInv(t) == ~twice /\ CallInv(t) /\ SlotInv(t) /\ RunInv(t)

\* A single thread uninstalls no handle twice at once.
LEMMA LoneOnce ==
  ASSUME NEW t, Threads = {t}, ~twice, [Next]_vars
  PROVE  ~twice'
<1> USE DEF kernelVars, threadVars, handleVars, ghostVars
<1>1. CASE TestUninstalled(t)
  BY <1>1 DEF TestUninstalled
<1>2. ASSUME \/ Install(t) \/ UninstallHandle(t) \/ UninstallSignal(t) \/ ExitHook(t)
             \/ MarkUninstalled(t) \/ SetStop(t) \/ Join(t) \/ TestReadFd(t) \/ CloseReadEnd(t)
             \/ MarkClosed(t) \/ Deregister(t) \/ Installing(t)
      PROVE  UNCHANGED twice
  BY <1>2 DEF Install, UninstallHandle, UninstallSignal, ExitHook, MarkUninstalled, SetStop, Join,
     TestReadFd, CloseReadEnd, MarkClosed, Deregister, Installing, PipeFails, CreatePipe, SwapSlot,
     CloseOld, Arm, SigactionFails, Undo, StartWatcher, StartFails, Assign
<1>3. ASSUME NEW h \in Handle, Watcher(h)  PROVE UNCHANGED twice
  BY <1>3 DEF Watcher, Select, Recheck, Read, StartDump, DumpEnds
<1>4. LoadSlot \/ WriteByte \/ OpenForeign \/ CloseForeign \/ UNCHANGED vars => UNCHANGED twice
  BY DEF LoadSlot, WriteByte, OpenForeign, CloseForeign, vars
<1> QED BY <1>1, <1>2, <1>3, <1>4 DEF Next, Uninstalling

\* A step that leaves the slot's variable alone leaves its write end open.
LEMMA SlotStays ==
  ASSUME IInv, ~twice, [Next]_vars, slot' = slot, slot \in Fd
  PROVE  fds'[slot] = fds[slot]
<1> USE DEF kernelVars, threadVars, handleVars, ghostVars
<1>1. /\ Types /\ PipeInv /\ HandleInv /\ NumberInv /\ OneInv /\ WriteInv /\ ReadInv
      /\ fds[slot].kind = "write" /\ fds[slot] # Unused /\ fds[slot] # Foreign
      /\ \A h : fds[slot] # ReadEnd(h)
  BY DEF IInv, Sound, WriteInv, Unused, Foreign, ReadEnd
<1>2. CASE UNCHANGED fds
  BY <1>2
<1>3. ASSUME NEW t \in Threads, CloseReadEnd(t)  PROVE fds'[slot] = fds[slot]
  <2>1. tpc[t] = "closing" /\ fds' = Without(fds, readFd[victim[t]])
    BY <1>3 DEF CloseReadEnd, Goto
  <2>2. readFd[victim[t]] \in Fd
    BY <1>1, <2>1, Numbers DEF VictimPcs, StopPcs
  <2>3. fds[readFd[victim[t]]] = ReadEnd(victim[t])
    BY <1>1, <2>1, VictimOwns DEF OwnsReadFd
  <2>4. readFd[victim[t]] # slot
    BY <1>1, <2>3
  <2> QED BY <1>1, <2>1, <2>2, <2>4, CloseFd
<1>4. ASSUME NEW t \in Threads, CreatePipe(t)  PROVE fds'[slot] = fds[slot]
  <2> DEFINE r == Lowest(UnusedFds)
             w == Lowest(UnusedFds \ {r})
  <2>1. r \in UnusedFds /\ w \in UnusedFds
    BY <1>4, NewEnds DEF CreatePipe
  <2>2. fds' = [fds EXCEPT ![r] = ReadEnd(made + 1), ![w] = WriteEnd(made + 1)]
    BY <1>4 DEF CreatePipe
  <2> HIDE DEF r, w
  <2>3. r # slot /\ w # slot
    BY <1>1, <2>1 DEF UnusedFds
  <2> QED BY <1>1, <2>2, <2>3 DEF Types
<1>5. ASSUME NEW t \in Threads, CloseOld(t)  PROVE fds'[slot] = fds[slot]
  <2>1. fds' = Without(fds, oldFd[t]) /\ oldFd[t] \in Fd \cup {NoFd}
    BY <1>1, <1>5 DEF CloseOld, Types
  <2>2. oldFd[t] # slot
    BY <1>1 DEF WriteInv
  <2> QED BY <1>1, <2>1, <2>2, CloseFd
<1>6. ASSUME NEW t \in Threads, Undo(t)  PROVE fds'[slot] = fds[slot]
  <2>1. fds' = Without(Without(fds, oldFd[t]), readFd[fresh[t]]) /\ oldFd[t] \in Fd \cup {NoFd}
    BY <1>1, <1>6 DEF Undo, Types
  <2>2. oldFd[t] # slot
    BY <1>1 DEF WriteInv
  <2>3. readFd[fresh[t]] # slot
    <3>1. fresh[t] # None
      BY <1>1, <1>6 DEF Undo, PipeInv, FreshPcs
    <3>2. fds[readFd[fresh[t]]] = ReadEnd(fresh[t])
      BY <1>1, <3>1 DEF ReadInv, OwnsReadFd
    <3> QED BY <1>1, <3>2
  <2>4. Without(fds, oldFd[t])[slot] = fds[slot]
    BY <1>1, <2>1, <2>2, CloseFd
  <2>5. Without(fds, oldFd[t]) \in [Fd -> Ends]
    BY <1>1, <2>1, CloseFd
  <2> QED BY <2>1, <2>3, <2>4, <2>5 DEF Without
<1>7. CASE OpenForeign
  <2>1. Lowest(UnusedFds) \in UnusedFds
    BY <1>7, NoNumbers, LowestIn DEF OpenForeign, UnusedFds
  <2>2. Lowest(UnusedFds) # slot
    BY <1>1, <2>1 DEF UnusedFds
  <2> QED BY <1>1, <1>7, <2>2 DEF OpenForeign, Types
<1>8. CASE CloseForeign
  <2>1. PICK f \in held : fds' = Without(fds, f)
    BY <1>8 DEF CloseForeign
  <2>2. f \in Fd /\ f # slot
    BY <1>1 DEF Types, ReadInv
  <2> QED BY <2>1, <2>2, <1>1, CloseFd
<1>9. ASSUME NEW t \in Threads,
             \/ Install(t) \/ UninstallHandle(t) \/ UninstallSignal(t) \/ ExitHook(t)
             \/ TestUninstalled(t) \/ MarkUninstalled(t) \/ SetStop(t) \/ Join(t) \/ TestReadFd(t)
             \/ MarkClosed(t) \/ Deregister(t) \/ PipeFails(t) \/ SwapSlot(t) \/ Arm(t) \/ SigactionFails(t)
             \/ StartWatcher(t) \/ StartFails(t) \/ Assign(t)
      PROVE  UNCHANGED fds
  BY <1>9 DEF Install, UninstallHandle, UninstallSignal, ExitHook, TestUninstalled,
              MarkUninstalled, SetStop, Join, TestReadFd, MarkClosed, Deregister, PipeFails, SwapSlot, Arm, SigactionFails, StartWatcher,
              StartFails, Assign
<1>10. ASSUME NEW h \in Handle, Watcher(h)  PROVE UNCHANGED fds
  BY <1>10 DEF Watcher, Select, Recheck, Read, StartDump, DumpEnds
<1>11. LoadSlot \/ WriteByte \/ UNCHANGED vars => UNCHANGED fds
  BY DEF LoadSlot, WriteByte, vars
<1> QED BY <1>2, <1>3, <1>4, <1>5, <1>6, <1>7, <1>8, <1>9, <1>10, <1>11
        DEF Next, Uninstalling, Installing

\* The steps of a thread, by what they change of the calls.
LEMMA CallNext ==
  ASSUME NEW t, Threads = {t}, IInv, LoneInv(t), [Next]_vars
  PROVE  CallInv(t)'
<1> USE DEF kernelVars, threadVars, handleVars, ghostVars
<1>1. /\ Types /\ HandleInv /\ PipeInv /\ OneInv /\ CallInv(t) /\ RunInv(t) /\ t \in Threads
      /\ None \notin Handle /\ returned \subseteq Handle /\ stopEvent \subseteq Handle
  BY NoNumbers DEF IInv, LoneInv, Sound, Types
<1>2. CASE UNCHANGED <<uninstalled, stopEvent, returned, tpc, after, registry, victim>>
  BY <1>1, <1>2 DEF CallInv
<1>3. ASSUME Install(t) \/ UninstallSignal(t) \/ ExitHook(t)  PROVE CallInv(t)'
  <2>1. PICK pc \in {"idle", "pipe", "exited"} :
           /\ tpc[t] = "idle" /\ CallUninstall(t, registry, pc) /\ registry' = None
           /\ UNCHANGED <<uninstalled, stopEvent, returned>>
    BY <1>1, <1>3 DEF Install, UninstallSignal, ExitHook
  <2>2. /\ tpc'[t] = (IF registry = None THEN pc ELSE "test")
        /\ after'[t] = (IF registry = None THEN "idle" ELSE pc) /\ victim'[t] = registry
    BY <1>1, <2>1 DEF CallUninstall, Types
  <2>3. registry' \notin stopEvent /\ (tpc'[t] \notin VictimPcs => after'[t] = "idle")
        /\ tpc'[t] \notin StoppedPcs
    BY <1>1, <2>1, <2>2 DEF VictimPcs, StopPcs, StoppedPcs
  <2> QED BY <1>1, <2>1, <2>3 DEF CallInv
<1>4. CASE UninstallHandle(t)
  <2>1. PICK h \in returned :
           /\ tpc[t] = "idle" /\ CallUninstall(t, h, "idle")
           /\ UNCHANGED <<registry, uninstalled, stopEvent, returned>>
    BY <1>1, <1>4 DEF UninstallHandle
  <2>2. tpc'[t] = "test" /\ after'[t] = "idle" /\ victim'[t] = h
    BY <1>1, <2>1 DEF CallUninstall, Types
  <2>3. h \in stopEvent \/ h = registry
    BY <1>1, <2>1 DEF RunInv
  <2>4. registry \notin stopEvent
    BY <1>1, <2>1 DEF CallInv, StoppedPcs
  <2> QED BY <1>1, <2>1, <2>2, <2>3, <2>4 DEF CallInv, VictimPcs, StopPcs, StoppedPcs, FreshPcs
<1>5. ASSUME Resume(t),
             \/ tpc[t] = "deregister" /\ registry' = None
             \/ tpc[t] = "test" /\ victim[t] \in stopEvent /\ registry' = registry,
             UNCHANGED <<uninstalled, stopEvent, returned>>
      PROVE  CallInv(t)'
  <2>1. /\ tpc'[t] = after[t] /\ after'[t] = "idle" /\ after[t] \in {"idle", "pipe", "exited"}
    BY <1>1, <1>5 DEF Resume, Types
  <2>2. registry' \notin stopEvent
    BY <1>1, <1>5 DEF CallInv, StoppedPcs
  <2>3. registry' # None => after[t] = "idle"
    BY <1>1, <1>5 DEF CallInv
  <2>4. tpc'[t] \notin VictimPcs \cup StoppedPcs /\ (tpc'[t] = "idle" => tpc'[t] \notin FreshPcs \cup {"pipe", "exited"})
    BY <2>1 DEF VictimPcs, StopPcs, StoppedPcs, FreshPcs
  <2> QED BY <1>1, <1>5, <2>1, <2>2, <2>3, <2>4 DEF CallInv, VictimPcs, StopPcs, StoppedPcs
<1>6. CASE TestUninstalled(t)
  <2>1. CASE victim[t] \in uninstalled
    <3>1. Resume(t) /\ tpc[t] = "test" /\ victim[t] \in stopEvent
          /\ UNCHANGED <<registry, uninstalled, stopEvent, returned>>
      BY <1>1, <1>6, <2>1 DEF TestUninstalled, CallInv
    <3> QED BY <1>5, <3>1
  <2>2. CASE victim[t] \notin uninstalled
    <3>1. tpc[t] = "test" /\ tpc'[t] = "stop"
          /\ UNCHANGED <<after, victim, registry, uninstalled, stopEvent, returned>>
      BY <1>1, <1>6, <2>2 DEF TestUninstalled, Goto, Types
    <3>2. registry \in {None, victim[t]} /\ registry \notin stopEvent
      BY <1>1, <2>2, <3>1 DEF CallInv, VictimPcs, StoppedPcs
    <3> QED BY <1>1, <3>1, <3>2 DEF CallInv, VictimPcs, StopPcs, StoppedPcs, FreshPcs
  <2> QED BY <2>1, <2>2
<1>7. CASE MarkUninstalled(t)
  <2>1. /\ tpc[t] = "stop" /\ tpc'[t] = "event" /\ uninstalled' = uninstalled \cup {victim[t]}
        /\ UNCHANGED <<registry, returned, after, victim, stopEvent>>
    BY <1>1, <1>7 DEF MarkUninstalled, Goto, Types
  <2>2. victim[t] \in returned
    BY <1>1, <2>1 DEF HandleInv, VictimPcs, StopPcs
  <2>3. \A h \in uninstalled : h \in stopEvent
    BY <1>1, <2>1 DEF CallInv
  <2> QED BY <1>1, <2>1, <2>2, <2>3 DEF CallInv, VictimPcs, StopPcs, StoppedPcs, FreshPcs
<1>8. CASE Join(t) \/ TestReadFd(t) \/ CloseReadEnd(t) \/ MarkClosed(t)
  <2>1. /\ tpc[t] \in StoppedPcs \ {"deregister"} /\ tpc'[t] \in StoppedPcs
        /\ UNCHANGED <<registry, returned, after, victim, uninstalled, stopEvent>>
    BY <1>1, <1>8 DEF Join, TestReadFd, CloseReadEnd, MarkClosed, Goto, Types, StoppedPcs
  <2> QED BY <1>1, <2>1 DEF CallInv, VictimPcs, StopPcs, StoppedPcs, FreshPcs
<1>9. CASE Deregister(t)
  <2>1. /\ Resume(t) /\ tpc[t] = "deregister" /\ registry' = None
        /\ UNCHANGED <<uninstalled, stopEvent, returned>>
    BY <1>9 DEF Deregister
  <2> QED BY <1>5, <2>1
<1>10. ASSUME \/ PipeFails(t) \/ CreatePipe(t) \/ SwapSlot(t) \/ CloseOld(t) \/ Arm(t)
              \/ SigactionFails(t) \/ Undo(t) \/ StartWatcher(t) \/ StartFails(t)
       PROVE  CallInv(t)'
  <2>1. tpc[t] \in FreshPcs \cup {"pipe"} /\ tpc'[t] \in FreshPcs \cup {"idle"}
        /\ UNCHANGED <<registry, returned, after, victim, uninstalled, stopEvent>>
    BY <1>1, <1>10 DEF PipeFails, CreatePipe, SwapSlot, CloseOld, Arm, SigactionFails, Undo,
         StartWatcher, StartFails, InstallRaises, Goto, Types, FreshPcs
  <2>2. registry = None /\ tpc[t] \notin VictimPcs /\ tpc'[t] \notin VictimPcs
    BY <1>1, <2>1 DEF CallInv, VictimPcs, StopPcs, FreshPcs
  <2>3. tpc'[t] \notin StoppedPcs /\ tpc[t] # "event"
    BY <2>1 DEF StoppedPcs, FreshPcs
  <2> QED BY <1>1, <2>1, <2>2, <2>3 DEF CallInv, VictimPcs
<1>11. CASE Assign(t)
  <2>1. /\ tpc[t] = "assign" /\ tpc'[t] = "idle" /\ registry' = fresh[t]
        /\ returned' = returned \cup {fresh[t]} /\ UNCHANGED <<after, victim, uninstalled, stopEvent>>
    BY <1>1, <1>11 DEF Assign, Goto, Types
  <2>2. fresh[t] \notin stopEvent
    <3>1. fresh[t] \notin returned
      BY <1>1, <2>1 DEF HandleInv, PipeInv, FreshPcs
    <3> QED BY <1>1, <3>1 DEF CallInv
  <2>3. after[t] = "idle"
    BY <1>1, <2>1 DEF CallInv, VictimPcs, StopPcs
  <2> QED BY <1>1, <2>1, <2>2, <2>3 DEF CallInv, VictimPcs, StopPcs, StoppedPcs, FreshPcs
<1>12. ASSUME NEW h \in Handle, Watcher(h)
       PROVE  UNCHANGED <<uninstalled, stopEvent, returned, tpc, after, registry, victim>>
  BY <1>12 DEF Watcher, Select, Recheck, Read, StartDump, DumpEnds
<1>13. LoadSlot \/ WriteByte \/ OpenForeign \/ CloseForeign \/ UNCHANGED vars
         => UNCHANGED <<uninstalled, stopEvent, returned, tpc, after, registry, victim>>
  BY DEF LoadSlot, WriteByte, OpenForeign, CloseForeign, vars
<1>14. CASE SetStop(t)
  <2>1. /\ tpc[t] = "event" /\ tpc'[t] = "join" /\ stopEvent' = stopEvent \cup {victim[t]}
        /\ UNCHANGED <<registry, returned, after, victim, uninstalled>>
    BY <1>1, <1>14 DEF SetStop, Goto, Types
  <2>2. victim[t] \in uninstalled /\ registry \in {None, victim[t]}
    BY <1>1, <2>1 DEF OneInv, VictimPcs, StopPcs, CallInv
  <2> QED BY <1>1, <2>1, <2>2 DEF CallInv, VictimPcs, StopPcs, StoppedPcs, FreshPcs
<1> QED BY <1>2, <1>3, <1>4, <1>6, <1>7, <1>8, <1>9, <1>10, <1>11, <1>12, <1>13, <1>14
        DEF Next, Uninstalling, Installing

\* The slot from the swap to the end of the installation.
LEMMA SlotNext ==
  ASSUME NEW t, Threads = {t}, IInv, LoneInv(t), [Next]_vars
  PROVE  SlotInv(t)'
<1> USE DEF kernelVars, threadVars, handleVars, ghostVars
<1>1. /\ Types /\ PipeInv /\ HandleInv /\ NumberInv /\ WriteInv /\ ~twice
      /\ CallInv(t) /\ SlotInv(t) /\ t \in Threads
  BY DEF IInv, LoneInv, Sound
<1>2. CASE SwapSlot(t)
  <2>1. tpc[t] = "swap" /\ tpc'[t] = "closeOld" /\ slot' = writeFd[fresh[t]] /\ UNCHANGED <<fds, fresh>>
    BY <1>1, <1>2 DEF SwapSlot, Goto, Types
  <2>2. writeFd[fresh[t]] \in Fd /\ fds[writeFd[fresh[t]]] = WriteEnd(fresh[t])
    BY <1>1, <2>1, Numbers DEF WriteInv, FreshPcs
  <2> QED BY <2>1, <2>2 DEF SlotInv, WriteEnd
<1>3. CASE SigactionFails(t)
  <2>1. tpc'[t] = "undo"
    BY <1>1, <1>3 DEF SigactionFails, Goto, Types
  <2> QED BY <2>1 DEF SlotInv
<1>4. ASSUME slot' = slot, armed => armed', fresh'[t] = fresh[t],
             \/ tpc'[t] = tpc[t]
             \/ tpc[t] = "sigaction" /\ tpc'[t] = "start" /\ armed'
             \/ tpc[t] = "closeOld" /\ tpc'[t] = "sigaction"
             \/ tpc[t] = "start" /\ tpc'[t] = "assign"
      PROVE  SlotInv(t)'
  <2>1. slot \in Fd => fds'[slot] = fds[slot]
    BY <1>1, <1>4, SlotStays
  <2> QED BY <1>1, <1>4, <2>1 DEF SlotInv, WriteEnd
<1>5. CASE Arm(t) \/ CloseOld(t) \/ StartWatcher(t)
  BY <1>1, <1>4, <1>5 DEF Arm, CloseOld, StartWatcher, Goto, Types
<1>6. ASSUME tpc'[t] \notin {"closeOld", "sigaction", "start", "assign"}
      PROVE  SlotInv(t)'
  BY <1>6 DEF SlotInv
<1>7. ASSUME \/ Install(t) \/ UninstallHandle(t) \/ UninstallSignal(t) \/ ExitHook(t)
             \/ TestUninstalled(t) \/ MarkUninstalled(t) \/ SetStop(t) \/ Join(t) \/ TestReadFd(t)
             \/ CloseReadEnd(t) \/ MarkClosed(t) \/ Deregister(t) \/ PipeFails(t) \/ CreatePipe(t) \/ Undo(t) \/ StartFails(t) \/ Assign(t)
      PROVE  tpc'[t] \notin {"closeOld", "sigaction", "start", "assign"}
  BY <1>1, <1>7 DEF Install, UninstallHandle, UninstallSignal, ExitHook, TestUninstalled,
     MarkUninstalled, SetStop, Join, TestReadFd, CloseReadEnd, MarkClosed, Deregister, PipeFails, CreatePipe, Undo, StartFails, Assign, Goto, Resume,
     CallUninstall, InstallRaises, Types
<1>8. ASSUME \/ \E h \in Handle : Watcher(h)
             \/ LoadSlot \/ WriteByte \/ OpenForeign \/ CloseForeign \/ UNCHANGED vars
      PROVE  SlotInv(t)'
  <2>1. UNCHANGED <<slot, armed, fresh, tpc>>
    BY <1>8 DEF Watcher, Select, Recheck, Read, StartDump, DumpEnds, LoadSlot, WriteByte,
     OpenForeign, CloseForeign, vars
  <2> QED BY <1>4, <2>1
<1> QED BY <1>2, <1>3, <1>5, <1>6, <1>7, <1>8 DEF Next, Uninstalling, Installing

\* A watcher reads from the read end of its own pipe until it is asked to stop.
LEMMA RunningOwns ==
  ASSUME IInv, ~twice, NEW h \in Handle, Running(h)
  PROVE  OwnsReadFd(h)
<1>1. h \notin closed /\ \A t \in Threads : tpc[t] = "mark" => victim[t] # h
  BY DEF IInv, WatchInv, Running
<1> QED BY <1>1, WatcherOwns DEF Running

\* A step that neither moves the slot nor asks a watcher to stop: what the
\* watchers do among themselves, and who is registered, is left to show.
LEMMA RunKept ==
  ASSUME NEW t, Threads = {t}, IInv, LoneInv(t), [Next]_vars,
         slot' = slot, armed => armed', stopEvent' = stopEvent, returned' = returned,
         \A h \in Handle : Running(h) <=> Running(h)',
         \A h \in Handle : Running(h) /\ wpc'[h] \in {"ready", "read"} => pipe'[h] > 0,
         \A h \in Handle : Running(h) /\ h = registry => 
            h = registry' \/ (tpc'[t] \in {"test", "stop", "event"} /\ victim'[t] = h),
         \A h \in Handle : Running(h) /\ tpc[t] \in {"test", "stop", "event"} /\ victim[t] = h =>
            h = registry' \/ (tpc'[t] \in {"test", "stop", "event"} /\ victim'[t] = h),
         tpc[t] = "assign" <=> tpc'[t] = "assign", tpc[t] = "assign" => fresh'[t] = fresh[t]
  PROVE  RunInv(t)'
<1>1. RunInv(t) /\ Types /\ returned \subseteq Handle
  BY DEF LoneInv, IInv, Types
<1>2. slot \in Fd => fds'[slot] = fds[slot]
  BY SlotStays DEF LoneInv
<1>3. ASSUME NEW h \in Handle, Running(h)  PROVE Reached(h)'
  BY <1>1, <1>2, <1>3 DEF RunInv, Reached, WriteEnd
<1>4. ASSUME NEW h \in Handle, Running(h)
      PROVE  \/ h = registry'
             \/ tpc'[t] \in {"test", "stop", "event"} /\ victim'[t] = h
             \/ tpc'[t] = "assign" /\ fresh'[t] = h
  BY <1>1, <1>4 DEF RunInv
<1>5. \A h \in returned' : h \in stopEvent' \/ Running(h)'
  BY <1>1 DEF RunInv
<1>6. tpc'[t] = "assign" => Running(fresh[t])'
  <2>1. tpc[t] = "assign" => fresh[t] \in Handle
    BY DEF IInv, Types, PipeInv, FreshPcs
  <2>2. ASSUME tpc[t] = "assign"  PROVE Running(fresh[t])'
    <3>1. PICK h \in Handle : h = fresh[t] /\ Running(h)
      BY <1>1, <2>1, <2>2 DEF RunInv
    <3>2. Running(h)' /\ fresh'[t] = h
      BY <2>2, <3>1
    <3> QED BY <3>2 DEF Running
  <2> QED BY <2>2
<1> QED BY <1>3, <1>4, <1>5, <1>6 DEF RunInv

\* A watcher's step: one that nobody has asked to stop does not end, for its
\* descriptor is its own and its pipe has a writer.
LEMMA RunWatcher ==
  ASSUME NEW t, Threads = {t}, IInv, LoneInv(t), NEW k \in Handle, Watcher(k)
  PROVE  /\ \A h \in Handle : Running(h) <=> Running(h)'
         /\ \A h \in Handle : Running(h) /\ wpc'[h] \in {"ready", "read"} => pipe'[h] > 0
         /\ UNCHANGED <<fds, slot, armed, stopEvent, returned, registry, threadVars>>
<1> USE DEF kernelVars, handleVars, ghostVars
<1>1. /\ Types /\ RunInv(t) /\ ~twice /\ wpc[k] \notin {"none", "done"}
      /\ UNCHANGED <<fds, slot, armed, stopEvent, returned, registry, threadVars>>
  BY DEF IInv, LoneInv, Watcher, Select, Recheck, Read, StartDump, DumpEnds, WatcherGoto
<1>2. \A h \in Handle \ {k} : wpc'[h] = wpc[h] /\ pipe'[h] = pipe[h]
  <2>1. CASE Read(k)
    <3>1. fds[readFd[k]] = ReadEnd(k)
      BY <1>1, <2>1, ReaderOwns DEF Read, WatcherReadsOwnPipe, OwnsReadFd
    <3> QED BY <1>1, <2>1, <3>1 DEF Read, WatcherGoto, ReadEnd, Types
  <2>2. CASE ~Read(k)
    BY <1>1, <2>2 DEF Watcher, Select, Recheck, StartDump, DumpEnds, WatcherGoto, Types
  <2> QED BY <2>1, <2>2
<1>3. \A h \in Handle : Running(h) /\ wpc[h] \in {"ready", "read"} => pipe[h] > 0
  BY <1>1 DEF RunInv
<1>4. ASSUME k \notin stopEvent
      PROVE  wpc'[k] \notin {"none", "done"} /\ (wpc'[k] \in {"ready", "read"} => pipe'[k] > 0)
  <2>1. Running(k) /\ OwnsReadFd(k) /\ WriterOpen(k)
    BY <1>1, <1>4, RunningOwns DEF Running, RunInv, Reached, WriterOpen
  <2>2. CASE Select(k)
    BY <1>1, <1>3, <1>4, <2>1, <2>2 DEF Select, WatcherGoto, Types
  <2>3. CASE Recheck(k)
    BY <1>1, <1>3, <1>4, <2>1, <2>3 DEF Recheck, WatcherGoto, Types
  <2>4. CASE Read(k)
    <3>1. wpc[k] = "read" /\ pipe[k] > 0
      BY <1>3, <2>1, <2>4 DEF Read
    <3>2. wpc'[k] = "decide"
      BY <1>1, <2>1, <2>4, <3>1 DEF Read, WatcherGoto, OwnsReadFd, ReadEnd, Foreign, Types
    <3> QED BY <3>2
  <2>5. CASE StartDump(k) \/ DumpEnds(k)
    BY <1>1, <1>4, <2>5 DEF StartDump, DumpEnds, WatcherGoto, Types
  <2> QED BY <2>2, <2>3, <2>4, <2>5 DEF Watcher
<1>5. ASSUME NEW h \in Handle
      PROVE  /\ Running(h) <=> Running(h)'
             /\ Running(h) /\ wpc'[h] \in {"ready", "read"} => pipe'[h] > 0
  <2>1. CASE h = k
    BY <1>1, <1>4, <2>1 DEF Running
  <2>2. CASE h # k
    BY <1>1, <1>2, <1>3, <2>2 DEF Running
  <2> QED BY <2>1, <2>2
<1> QED BY <1>1, <1>5

\* Every step keeps the running watcher served.
LEMMA RunNext ==
  ASSUME NEW t, Threads = {t}, IInv, LoneInv(t), [Next]_vars
  PROVE  RunInv(t)'
<1> USE DEF kernelVars, threadVars, handleVars, ghostVars
<1>1. /\ Types /\ HandleInv /\ PipeInv /\ OneInv /\ CallInv(t) /\ SlotInv(t) /\ RunInv(t)
      /\ t \in Threads /\ None \notin Handle /\ returned \subseteq Handle
  BY NoNumbers DEF IInv, LoneInv, Sound, Types
<1>2. \A h \in Handle : Running(h) /\ wpc[h] \in {"ready", "read"} => pipe[h] > 0
  BY <1>1 DEF RunInv
<1>3. ASSUME UNCHANGED <<slot, stopEvent, returned, wpc, pipe>>, armed => armed',
             \A h \in Handle : Running(h) /\ h = registry =>
                h = registry' \/ (tpc'[t] \in {"test", "stop", "event"} /\ victim'[t] = h),
             \A h \in Handle : Running(h) /\ tpc[t] \in {"test", "stop", "event"} /\ victim[t] = h =>
                h = registry' \/ (tpc'[t] \in {"test", "stop", "event"} /\ victim'[t] = h),
             tpc[t] = "assign" <=> tpc'[t] = "assign", tpc[t] = "assign" => fresh'[t] = fresh[t]
      PROVE  RunInv(t)'
  <2>1. \A h \in Handle : Running(h) <=> Running(h)'
    BY <1>3 DEF Running
  <2>2. \A h \in Handle : Running(h) /\ wpc'[h] \in {"ready", "read"} => pipe'[h] > 0
    BY <1>2, <1>3
  <2> QED BY <1>3, <2>1, <2>2, RunKept
<1>4. CASE Install(t) \/ UninstallSignal(t) \/ ExitHook(t)
  <2>1. PICK pc \in {"idle", "pipe", "exited"} :
           /\ tpc[t] = "idle" /\ CallUninstall(t, registry, pc)
           /\ UNCHANGED <<slot, stopEvent, returned, wpc, pipe, armed>>
    BY <1>1, <1>4 DEF Install, UninstallSignal, ExitHook
  <2>2. tpc'[t] = (IF registry = None THEN pc ELSE "test") /\ victim'[t] = registry
    BY <1>1, <2>1 DEF CallUninstall, Types
  <2> QED BY <1>1, <1>3, <2>1, <2>2
<1>5. CASE UninstallHandle(t)
  <2>1. PICK h \in returned :
           /\ tpc[t] = "idle" /\ CallUninstall(t, h, "idle")
           /\ UNCHANGED <<slot, stopEvent, returned, wpc, pipe, armed, registry>>
    BY <1>1, <1>5 DEF UninstallHandle
  <2>2. tpc'[t] = "test"
    BY <1>1, <2>1 DEF CallUninstall, Types
  <2> QED BY <1>1, <1>3, <2>1, <2>2
<1>6. CASE TestUninstalled(t)
  <2>1. CASE victim[t] \in uninstalled
    <3>1. /\ tpc[t] = "test" /\ tpc'[t] = after[t] /\ after[t] \in {"idle", "pipe", "exited"}
          /\ victim[t] \in stopEvent /\ UNCHANGED <<slot, stopEvent, returned, wpc, pipe, armed, registry>>
      BY <1>1, <1>6, <2>1 DEF TestUninstalled, Resume, Types, CallInv
    <3>2. \A h \in Handle : ~(Running(h) /\ victim[t] = h)
      BY <3>1 DEF Running
    <3> QED BY <1>3, <3>1, <3>2
  <2>2. CASE victim[t] \notin uninstalled
    <3>1. /\ tpc[t] = "test" /\ tpc'[t] = "stop"
          /\ UNCHANGED <<slot, stopEvent, returned, wpc, pipe, armed, registry, victim>>
      BY <1>1, <1>6, <2>2 DEF TestUninstalled, Goto, Types
    <3> QED BY <1>3, <3>1
  <2> QED BY <2>1, <2>2
<1>7. CASE SetStop(t)
  <2>1. /\ tpc[t] = "event" /\ tpc'[t] = "join" /\ stopEvent' = stopEvent \cup {victim[t]}
        /\ UNCHANGED <<fds, slot, armed, registry, returned, wpc, pipe>>
    BY <1>1, <1>7 DEF SetStop, Goto, Types
  <2>2. \A h \in Handle : Running(h)' <=> Running(h) /\ h # victim[t]
    BY <2>1 DEF Running
  <2>3. \A h \in Handle : Running(h)' =>
           /\ Reached(h)' /\ (wpc'[h] \in {"ready", "read"} => pipe'[h] > 0) /\ h = registry'
    BY <1>1, <2>1, <2>2 DEF RunInv, Reached, WriteEnd
  <2>4. \A h \in returned' : h \in stopEvent' \/ Running(h)'
    BY <1>1, <2>1, <2>2 DEF RunInv
  <2> QED BY <2>1, <2>3, <2>4 DEF RunInv
<1>8. CASE Join(t) \/ TestReadFd(t) \/ CloseReadEnd(t) \/ MarkClosed(t)
  <2>1. /\ tpc[t] \in {"join", "close", "closing", "mark"}
        /\ tpc'[t] \in {"close", "closing", "mark", "deregister"}
        /\ UNCHANGED <<slot, stopEvent, returned, wpc, pipe, armed, registry>>
    BY <1>1, <1>8 DEF Join, TestReadFd, CloseReadEnd, MarkClosed, Goto, Types
  <2> QED BY <1>3, <2>1
<1>9. CASE Deregister(t)
  <2>1. /\ tpc[t] = "deregister" /\ tpc'[t] = after[t] /\ after[t] \in {"idle", "pipe", "exited"}
        /\ UNCHANGED <<slot, stopEvent, returned, wpc, pipe, armed>>
    BY <1>1, <1>9 DEF Deregister, Resume, Types
  <2>2. \A h \in Handle : ~(Running(h) /\ h = registry)
    BY <1>1, <2>1 DEF CallInv, VictimPcs, StoppedPcs, Running
  <2> QED BY <1>3, <2>1, <2>2
<1>10. ASSUME tpc[t] \in (FreshPcs \ {"assign"}) \cup {"pipe"}
       PROVE  registry = None /\ \A h \in Handle : ~Running(h)
  <2>1. registry = None
    BY <1>1, <1>10 DEF CallInv, FreshPcs
  <2> QED BY <1>1, <1>10, <2>1 DEF RunInv, FreshPcs
<1>11. ASSUME PipeFails(t) \/ CreatePipe(t) \/ CloseOld(t) \/ Arm(t) \/ Undo(t) \/ StartFails(t)
       PROVE  RunInv(t)'
  <2>1. /\ tpc[t] \in (FreshPcs \ {"assign"}) \cup {"pipe"} /\ tpc'[t] # "assign" /\ (armed => armed')
        /\ UNCHANGED <<slot, stopEvent, returned, wpc, pipe>>
    BY <1>1, <1>11 DEF PipeFails, CreatePipe, CloseOld, Arm, Undo, StartFails, InstallRaises,
       Goto, Types, FreshPcs
  <2>2. \A h \in Handle : ~Running(h)
    BY <1>10, <2>1
  <2>3. tpc[t] # "assign"
    BY <2>1 DEF FreshPcs
  <2> QED BY <1>3, <2>1, <2>2, <2>3
<1>12. CASE SwapSlot(t) \/ SigactionFails(t)
  <2>1. /\ tpc[t] \in (FreshPcs \ {"assign"}) \cup {"pipe"} /\ tpc'[t] # "assign"
        /\ UNCHANGED <<stopEvent, returned, wpc>>
    BY <1>1, <1>12 DEF SwapSlot, SigactionFails, Goto, Types, FreshPcs
  <2>2. \A h \in Handle : ~Running(h) /\ ~Running(h)'
    BY <1>10, <2>1 DEF Running
  <2>3. \A h \in returned' : h \in stopEvent' \/ Running(h)'
    BY <1>1, <2>1, <2>2 DEF RunInv
  <2> QED BY <2>1, <2>2, <2>3 DEF RunInv
<1>13. CASE StartWatcher(t)
  <2>1. /\ tpc[t] = "start" /\ tpc'[t] = "assign" /\ wpc' = [wpc EXCEPT ![fresh[t]] = "select"]
        /\ UNCHANGED <<fds, slot, armed, fresh, registry, stopEvent, returned, pipe>>
    BY <1>1, <1>13 DEF StartWatcher, Goto, Types
  <2>2. PICK f \in Handle : f = fresh[t] /\ f \notin returned
    BY <1>1, <2>1 DEF PipeInv, FreshPcs, HandleInv, Types
  <2>3. \A h \in Handle : ~Running(h)
    BY <1>10, <2>1 DEF FreshPcs
  <2>4. wpc'[f] = "select" /\ f \notin stopEvent /\ \A h \in Handle \ {f} : wpc'[h] = wpc[h]
    BY <1>1, <2>1, <2>2 DEF CallInv, Types
  <2>5. Running(f)' /\ \A h \in Handle : Running(h)' => h = f
    BY <2>1, <2>3, <2>4 DEF Running
  <2>6. Reached(f)'
    BY <1>1, <2>1, <2>2 DEF SlotInv, Reached, WriteEnd
  <2>7. \A h \in Handle : Running(h)' =>
           /\ Reached(h)' /\ (wpc'[h] \in {"ready", "read"} => pipe'[h] > 0)
           /\ tpc'[t] = "assign" /\ fresh'[t] = h
    BY <2>1, <2>2, <2>4, <2>5, <2>6
  <2>8. \A h \in returned' : h \in stopEvent'
    BY <1>1, <2>1, <2>3 DEF RunInv
  <2>9. Running(fresh[t])'
    BY <2>1, <2>2, <2>5 DEF Running
  <2> QED BY <2>7, <2>8, <2>9 DEF RunInv
<1>14. CASE Assign(t)
  <2>1. /\ tpc[t] = "assign" /\ tpc'[t] = "idle" /\ registry' = fresh[t]
        /\ returned' = returned \cup {fresh[t]}
        /\ UNCHANGED <<fds, slot, armed, stopEvent, wpc, pipe>>
    BY <1>1, <1>14 DEF Assign, Goto, Types
  <2>2. PICK f \in Handle : f = fresh[t] /\ Running(f)
    BY <1>1, <2>1 DEF PipeInv, FreshPcs, RunInv, Types
  <2>3. registry = None
    BY <1>1, <2>1 DEF CallInv, FreshPcs
  <2>4. \A h \in Handle : /\ Running(h)' <=> Running(h)
                          /\ Running(h) => h = f /\ Reached(h)' /\ (wpc'[h] \in {"ready", "read"} => pipe'[h] > 0)
    <3>1. \A h \in Handle : Running(h)' <=> Running(h)
      BY <2>1 DEF Running
    <3>2. \A h \in Handle : Running(h) => h = f
      BY <1>1, <2>1, <2>2, <2>3 DEF RunInv
    <3>3. \A h \in Handle : Running(h) => Reached(h)' /\ (wpc'[h] \in {"ready", "read"} => pipe'[h] > 0)
      BY <1>1, <2>1 DEF RunInv, Reached, WriteEnd
    <3> QED BY <3>1, <3>2, <3>3
  <2>5. \A h \in returned' : h \in stopEvent' \/ Running(h)'
    BY <1>1, <2>1, <2>2, <2>4 DEF RunInv
  <2> QED BY <2>1, <2>2, <2>4, <2>5 DEF RunInv
<1>15. ASSUME NEW k \in Handle, Watcher(k)  PROVE RunInv(t)'
  <2>1. /\ \A h \in Handle : Running(h) <=> Running(h)'
        /\ \A h \in Handle : Running(h) /\ wpc'[h] \in {"ready", "read"} => pipe'[h] > 0
        /\ UNCHANGED <<fds, slot, armed, stopEvent, returned, registry, threadVars>>
    BY <1>15, RunWatcher
  <2> QED BY <2>1, RunKept
<1>16. CASE WriteByte
  <2>1. /\ UNCHANGED <<slot, armed, stopEvent, returned, wpc, registry, threadVars>>
        /\ \A h \in Handle : pipe[h] \in Nat /\ (pipe'[h] = pipe[h] \/ pipe'[h] = pipe[h] + 1)
    BY <1>1, <1>16 DEF WriteByte, Types
  <2>2. \A h \in Handle : Running(h) <=> Running(h)'
    BY <2>1 DEF Running
  <2>3. \A h \in Handle : Running(h) /\ wpc'[h] \in {"ready", "read"} => pipe'[h] > 0
    BY <1>2, <2>1
  <2> QED BY <2>1, <2>2, <2>3, RunKept
<1>17. CASE LoadSlot \/ OpenForeign \/ CloseForeign \/ UNCHANGED vars
  <2>1. UNCHANGED <<slot, armed, stopEvent, returned, wpc, pipe, registry, threadVars>>
    BY <1>17 DEF LoadSlot, OpenForeign, CloseForeign, vars
  <2> QED BY <1>3, <2>1
<1>18. CASE MarkUninstalled(t)
  <2>1. /\ tpc[t] = "stop" /\ tpc'[t] = "event"
        /\ UNCHANGED <<slot, stopEvent, returned, wpc, pipe, armed, registry, victim>>
    BY <1>1, <1>18 DEF MarkUninstalled, Goto, Types
  <2> QED BY <1>3, <2>1
<1> QED BY <1>4, <1>5, <1>6, <1>7, <1>8, <1>9, <1>11, <1>12, <1>13, <1>14, <1>15, <1>16, <1>17, <1>18
        DEF Next, Uninstalling, Installing

\* Before the first call there is no handle and no watcher.
LEMMA LoneInit == ASSUME NEW t, Threads = {t}, Init  PROVE LoneInv(t)
<1>1. /\ tpc[t] = "idle" /\ after[t] = "idle" /\ registry = None /\ uninstalled = {} /\ stopEvent = {}
      /\ returned = {} /\ ~twice /\ \A h \in Handle : wpc[h] = "none"
  BY DEF Init
<1>2. CallInv(t) /\ SlotInv(t)
  BY <1>1 DEF CallInv, SlotInv, VictimPcs, StopPcs, StoppedPcs
<1>3. RunInv(t)
  BY <1>1 DEF RunInv, Running
<1> QED BY <1>1, <1>2, <1>3 DEF LoneInv

\* With one API thread the two invariants hold of every state.
LEMMA LoneInvariant == ASSUME NEW t, Threads = {t}  PROVE Spec => [](IInv /\ LoneInv(t))
<1>1. IInv /\ LoneInv(t) /\ [Next]_vars => LoneInv(t)'
  <2> SUFFICES ASSUME IInv, LoneInv(t), [Next]_vars  PROVE LoneInv(t)'
    OBVIOUS
  <2>1. CallInv(t)' /\ SlotInv(t)' /\ RunInv(t)'
    BY CallNext, SlotNext, RunNext
  <2>2. ~twice'
    BY LoneOnce DEF LoneInv
  <2> QED BY <2>1, <2>2 DEF LoneInv
<1>2. Init => LoneInv(t)
  BY LoneInit
<1> QED BY Invariant, <1>1, <1>2, PTL DEF Spec

\* With one thread that installs and uninstalls: between its calls the
\* registered handle is the one that signals reach, its watcher has not ended
\* and no other watcher is left without a request to stop.
THEOREM RegisteredIsServed ==
  ASSUME NEW t, Threads = {t}
  PROVE  Spec => []RegisteredServes
<1>1. IInv /\ LoneInv(t) => RegisteredServes
  <2> SUFFICES ASSUME IInv, LoneInv(t), AtRest  PROVE RegisteredServes
    BY DEF RegisteredServes
  <2>1. /\ tpc[t] \in {"idle", "exited"} /\ CallInv(t) /\ RunInv(t) /\ Types /\ HandleInv
        /\ ~twice /\ NoFd \notin Fd
    BY NoNumbers DEF AtRest, LoneInv, IInv
  <2>2. ASSUME NEW h \in Handle, Running(h)  PROVE h = registry
    BY <2>1, <2>2 DEF RunInv
  <2>3. ASSUME registry # None  PROVE registry \in Handle /\ Running(registry)
    <3>1. registry \in returned /\ registry \in Handle /\ registry \notin stopEvent
      BY <2>1, <2>3 DEF HandleInv, Types, CallInv, StoppedPcs
    <3> QED BY <2>1, <3>1 DEF RunInv
  <2>4. registry # None => Reached(registry) /\ OwnsReadFd(registry)
    BY <2>1, <2>3, RunningOwns DEF RunInv
  <2> QED BY <2>1, <2>2, <2>3, <2>4 DEF RegisteredServes, Running, Reached
<1> QED BY LoneInvariant, <1>1, PTL

\* With one such thread, every watcher has ended or been asked to stop once
\* the exit hook has returned.
THEOREM ExitStopsAll ==
  ASSUME NEW t, Threads = {t}
  PROVE  Spec => []ExitStopsWatchers
<1>1. IInv /\ LoneInv(t) => ExitStopsWatchers
  <2> SUFFICES ASSUME LoneInv(t), tpc[t] = "exited", NEW h \in Handle
               PROVE  wpc[h] \in {"none", "done"} \/ h \in stopEvent
    BY DEF ExitStopsWatchers
  <2>1. registry = None
    BY DEF LoneInv, CallInv
  <2> QED BY <2>1, NoNumbers DEF LoneInv, RunInv, Running
<1> QED BY LoneInvariant, <1>1, PTL
=============================================================================
