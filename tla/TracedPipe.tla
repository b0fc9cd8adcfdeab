----------------------------- MODULE TracedPipe -----------------------------
(***************************************************************************)
(* TracedPipe of src/proctrace/ipc/channels.py with one writer and one     *)
(* reader.  A pipe is a stream: a read may return a part of a write, or    *)
(* several, yet each takes one write time.  Data comes in chunks; a write  *)
(* is named by its time, and the clock advances with each reading of it.   *)
(***************************************************************************)
EXTENDS Integers, Sequences

CONSTANTS
    Capacity,                  \* chunks the pipe holds
    MaxTracked,                \* max_tracked
    MaxChunks,                 \* bound: chunks of one write
    MaxWrites, MaxReads        \* bounds: calls

VARIABLES
    writer,        \* where write() is, its time, the chunks left
    reader,        \* where read() is, its time, the write its data began with
    content,       \* the pipe: the write of each chunk, is it the last one
    open,          \* the write end is open
    write_times,   \* the deque
    clock, writes, reads,
    partial,       \* history: a read returned a part of a write, or nothing
    several,       \* history: a read returned more than one write
    missed,        \* history: a read found no time
    dropped,       \* history: append() to a full deque dropped its oldest time
    raised,        \* history: a read raised OverflowError, its data gone
    pairs          \* history: the write that was read, the time it was given

pipeVars == <<writer, reader, content, open, write_times, clock, writes, reads,
              partial, several, missed, dropped, raised, pairs>>

history == <<partial, several, missed, dropped, raised, pairs>>

Init ==
    /\ writer = [at |-> "idle", t |-> 0, left |-> 0] /\ reader = [at |-> "idle", t |-> 0, own |-> 0]
    /\ content = <<>> /\ open = TRUE /\ write_times = <<>>
    /\ clock = 0 /\ writes = 0 /\ reads = 0
    /\ partial = FALSE /\ several = FALSE /\ missed = FALSE
    /\ dropped = FALSE /\ raised = FALSE /\ pairs = {}

-----------------------------------------------------------------------------
StampWrite ==
    /\ writer.at = "idle" /\ open /\ writes < MaxWrites /\ writes' = writes + 1
    /\ clock' = clock + 1
    /\ \E n \in 1..MaxChunks : writer' = [at |-> "write", t |-> clock', left |-> n]
    /\ UNCHANGED <<reader, content, open, write_times, reads, history>>

\* os.write() of a blocking pipe: a chunk goes in when there is room.
WriteChunk ==
    /\ writer.at = "write" /\ Len(content) < Capacity
    /\ content' = Append(content, [w |-> writer.t, last |-> writer.left = 1])
    /\ writer' = [writer EXCEPT !.left = @ - 1, !.at = IF writer.left = 1 THEN "append" ELSE @]
    /\ UNCHANGED <<reader, open, write_times, clock, writes, reads, history>>

\* os.write() raises before anything is written, a full non-blocking pipe.
WriteFails ==
    /\ writer.at = "write" /\ Len(content) = Capacity
    /\ content # <<>> => content[Len(content)].w # writer.t
    /\ writer' = [writer EXCEPT !.at = "idle"]
    /\ UNCHANGED <<reader, content, open, write_times, clock, writes, reads, history>>

Bounded(s) == IF Len(s) > MaxTracked THEN Tail(s) ELSE s

\* Bug: the time is taken after the write.
TimeAfter == Bounded(Append(write_times, clock))

\* The deque, with its maxlen, after append().
TimeAppended == Bounded(Append(write_times, writer.t))

AppendTime ==
    /\ writer.at = "append" /\ write_times' = TimeAppended
    /\ writer' = [writer EXCEPT !.at = "idle"]
    /\ dropped' = (dropped \/ Len(write_times) >= MaxTracked)
    /\ UNCHANGED <<reader, content, open, clock, writes, reads>>
    /\ UNCHANGED <<partial, several, missed, raised, pairs>>

CloseWriteEnd ==
    /\ open /\ writer.at = "idle" /\ open' = FALSE
    /\ UNCHANGED <<writer, reader, content, write_times, clock, writes, reads, history>>

-----------------------------------------------------------------------------
\* os.read() of up to n chunks; at the end of the stream it returns nothing.
ReadData ==
    /\ reader.at = "idle" /\ reads < MaxReads /\ reads' = reads + 1
    /\ \/ \E n \in DOMAIN content :
             /\ reader' = [reader EXCEPT !.at = "stamp", !.own = content[1].w]
             /\ content' = SubSeq(content, n + 1, Len(content))
             /\ partial' = (partial \/ ~content[n].last)
             /\ several' = (several \/ \E i \in 1..n : content[i].w # content[1].w)
       \/ /\ content = <<>> /\ ~open /\ partial' = TRUE
          /\ reader' = [reader EXCEPT !.at = "stamp", !.own = 0]
          /\ UNCHANGED <<content, several>>
    /\ UNCHANGED <<writer, open, write_times, clock, writes, missed, dropped, raised, pairs>>

StampRead ==
    /\ reader.at = "stamp" /\ clock' = clock + 1
    /\ reader' = [reader EXCEPT !.at = "check", !.t = clock']
    /\ UNCHANGED <<writer, content, open, write_times, writes, reads, history>>

\* "if self._write_times", popleft(), and the latency, which as an unsigned
\* number must not be negative.
Measure ==
    LET t == Head(write_times)
        negative == t > reader.t IN
    /\ reader.at = "check" /\ reader' = [reader EXCEPT !.at = "idle"]
    /\ IF write_times = <<>>
       THEN missed' = TRUE /\ UNCHANGED <<write_times, raised, pairs>>
       ELSE /\ write_times' = Tail(write_times) /\ UNCHANGED missed
            /\ raised' = (raised \/ negative)
            /\ pairs' = IF negative THEN pairs ELSE pairs \cup {[own |-> reader.own, used |-> t]}
    /\ UNCHANGED <<writer, content, open, clock, writes, reads, partial, several, dropped>>

Next ==
    \/ StampWrite \/ WriteChunk \/ WriteFails \/ AppendTime \/ CloseWriteEnd
    \/ ReadData \/ StampRead \/ Measure

(***************************************************************************)
(* As long as every read returns whole writes and the deque, with its      *)
(* max_tracked, drops no time, no read raises and loses its data, and no   *)
(* latency is below that of the write its data began with.  It is exactly  *)
(* that one when each read also returned a single write and none came      *)
(* before the writer had appended the time; then a max_tracked above what  *)
(* the pipe holds is enough for no time to be dropped (TracedPipe.read,    *)
(* write).                                                                 *)
(***************************************************************************)
PipeTimes ==
    ~partial =>
        /\ ~dropped => ~raised /\ \A p \in pairs : p.used <= p.own
        /\ ~several /\ ~missed => /\ ~dropped => \A p \in pairs : p.used = p.own
                                  /\ MaxTracked > Capacity => ~dropped
=============================================================================
