------------------------------- MODULE Logger -------------------------------
(***************************************************************************)
(* ProctraceLogger of src/proctrace/telemetry/logger.py: a file or a       *)
(* socket, one line per entry or one array of the buffered entries at      *)
(* close().  Entries are numbered; what has come out is a sequence.        *)
(***************************************************************************)
EXTENDS Integers, Sequences

CONSTANTS
    MaxEntries, MaxCloses     \* bounds: calls of log() and of close()

VARIABLES
    format,      \* "json" (an array at close) or "line" (jsonl, text)
    socket,      \* the output is a socket, not a file of the logger's own
    peer,        \* the other end of the socket is there
    stream,      \* the logger's file is open
    entries,     \* _entries
    out,         \* what has been written, in order
    logged,      \* calls of log() over the threshold
    accepted,    \* history: entries whose log() returned while the output was open
    failed,      \* history: entries whose write raised, buffered ones included
    closes

logVars == <<format, socket, peer, stream, entries, out, logged, accepted, failed, closes>>

Init ==
    /\ format \in {"json", "line"} /\ socket \in BOOLEAN
    /\ peer = socket /\ stream = ~socket
    /\ entries = <<>> /\ out = <<>> /\ logged = 0 /\ accepted = {} /\ failed = {} /\ closes = 0

\* _write_raw(): raises when the peer is gone; without an open output the
\* text is dropped.
Raises == socket /\ ~peer
Out(s) == out' = IF (socket /\ peer) \/ (~socket /\ stream) THEN out \o s ELSE out

\* log() of a delta over the threshold, from on_exit or called directly.
Log ==
    LET n == logged + 1 IN
    /\ logged < MaxEntries /\ logged' = n
    /\ IF format = "json"
       THEN entries' = Append(entries, n) /\ UNCHANGED <<out, failed>>
       ELSE /\ Out(<<n>>) /\ failed' = (IF Raises THEN failed \cup {n} ELSE failed)
            /\ UNCHANGED entries
    /\ accepted' = IF closes = 0 /\ n \notin failed' THEN accepted \cup {n} ELSE accepted
    /\ UNCHANGED <<format, socket, peer, stream, closes>>

\* Bug: the array is written only by a second close().
CloseLate == format = "json" /\ entries # <<>> /\ closes > 0

ArrayDue == format = "json" /\ entries # <<>>

\* close(): the array, then, whatever happened, the file.  The buffer stays.
Close ==
    /\ closes < MaxCloses /\ closes' = closes + 1
    /\ IF ArrayDue
       THEN /\ Out(entries)
            /\ failed' = IF Raises THEN failed \cup {entries[i] : i \in DOMAIN entries} ELSE failed
       ELSE UNCHANGED <<out, failed>>
    /\ stream' = FALSE
    /\ UNCHANGED <<format, socket, peer, entries, logged, accepted>>

PeerCloses ==
    /\ peer /\ peer' = FALSE
    /\ UNCHANGED <<format, socket, stream, entries, out, logged, accepted, failed, closes>>

Next == Log \/ Close \/ PeerCloses

Times(n) == {i \in DOMAIN out : out[i] = n}

(***************************************************************************)
(* An entry that log() accepted is out by the time log() returns, or, in   *)
(* the json format, by the time close() does, unless that raised; it is    *)
(* out once, and after the ones logged before it, unless a socket's logger *)
(* was closed again (log, close, _write_raw).                              *)
(***************************************************************************)
LoggedOnce ==
    /\ \A n \in accepted :
          (format = "line" \/ closes > 0) => n \in failed \/ Times(n) # {}
    /\ ~(socket /\ closes > 1) => \A i, j \in DOMAIN out : i < j => out[i] < out[j]
=============================================================================
