----------------------------- MODULE MCWatcher ------------------------------
(***************************************************************************)
(* Small instances of Watcher for TLC: a, with a sampler and a tracker, and *)
(* b, with a tracker and, where MCSampling says so, a sampler.             *)
(***************************************************************************)
EXTENDS Watcher

CONSTANTS
    a, b,        \* watchers
    p, log,      \* paths; log is in allow_leaked
    proc,        \* /proc/<pid>/fd
    t, pool      \* thread names; pool is in allow_threads

MCWatchers == {a, b}
MCSampling == {a}
MCTracing == {a, b}
MCPaths == {p, log}
MCNames == {t, pool}
MCAllowLeaked == {log}
MCAllowThreads == {pool}
=============================================================================
