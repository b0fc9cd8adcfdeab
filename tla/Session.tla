------------------------------ MODULE Session -------------------------------
(***************************************************************************)
(* A test session under the pytest plugin                                  *)
(* (src/proctrace/testing/pytest_plugin.py) and the baseline file it reads *)
(* and rewrites (baseline.py).                                             *)
(*                                                                         *)
(* Without pytest-xdist the controller runs the tests itself.  With it,    *)
(* every worker process has a plugin of its own, which loads the baseline  *)
(* when the process is configured, and every process rewrites the file     *)
(* when its session finishes: the workers each from what they loaded, the  *)
(* controller last, from what the workers sent.  What xdist does (hand out *)
(* tests, replace a crashed worker, deliver a worker's output) is external.*)
(*                                                                         *)
(* The list of results is kept as what its two readers take from it: the   *)
(* last delta of each test, which goes into the file, and the tests with   *)
(* violations, which the terminal summary names.                           *)
(***************************************************************************)
EXTENDS Integers, Sequences, FiniteSets

CONSTANTS
    Controller, FirstWorkers,
    Spares,                    \* replacements xdist may start, one per crash
    Tests, NoTest,
    SameName,                  \* tests of other directories, same file and test name
    Deltas, NoEntry,           \* what a call may measure; a baseline entry is one of them
    MaxPeak,                   \* the limit of each test's marker
    Percent, Absolute, MemoryFloor, TimeFloor,      \* tolerance and noise floors
    Here,                      \* this platform and major Python version
    Starts,                    \* the files a session may find
    MaxRuns                    \* bound: calls of each test, reruns of a flaky one included

Workers == FirstWorkers \cup Spares
Procs == Workers \cup {Controller}
Entries == [Tests -> Deltas \cup {NoEntry}]

\* A file: can it be parsed, where was it made, its entries.  A missing or a
\* blank file loads as Blank does.  With one that cannot be read or decoded
\* no session starts, as load_baseline() then raises in the constructor of
\* the plugin; a file put in place during a session is one save_baseline()
\* wrote, which can.
Contents == [ok : BOOLEAN, platform : STRING, tests : Entries]
Blank == [ok |-> TRUE, platform |-> Here, tests |-> [t \in Tests |-> NoEntry]]

ASSUME SessionAssumption ==
    /\ Controller \notin Workers /\ FirstWorkers \cap Spares = {}
    /\ NoTest \notin Tests /\ NoEntry \notin Deltas /\ Here \in STRING
    /\ Deltas \subseteq [fd : Int, peak : Nat, ms : Nat]
    /\ SameName \in [Tests -> SUBSET Tests] /\ MaxPeak \in [Tests -> Nat]
    /\ {Percent, Absolute, MemoryFloor, TimeFloor} \subseteq Nat /\ MaxRuns \in [Tests -> Nat]
    /\ Starts \subseteq Contents

VARIABLES
    file,         \* the baseline file
    temp,         \* temp[p]: what save_baseline has written but not yet put in place
    phase,        \* phase[p]: where p is
    running,      \* running[p]: the test in p's hands
    loaded,       \* loaded[p]: baseline_data
    measured,     \* measured[p][t]: the last delta of t in p's results
    failing,      \* failing[p]: tests of p's results with violations
    stash,        \* stash[t]: violations stored on the test's item
    report,       \* report[t]: outcome of its last report
    todo,         \* tests nobody has begun
    update,       \* --proctrace-update-baseline
    interrupted,  \* the controller stopped early (-x, Ctrl-C, killed)
    runners,      \* who runs the tests: the controller, or the first workers
    start, ran    \* history: the file found; the measured calls of each test

results == <<measured, failing>>
config == <<update, runners, start>>
vars == <<file, temp, phase, running, loaded, results, stash, report, todo, interrupted, config, ran>>

Phases == {"new", "run", "body", "report", "save", "saved", "ended", "merged", "crashed"}
NoTemp == [ok |-> FALSE, platform |-> Here, tests |-> [t \in Tests |-> NoEntry]]

-----------------------------------------------------------------------------
(* The baseline *)

Load(f) == IF f.ok THEN f ELSE Blank
Compatible(data) == data.platform = Here
Greater(a, b) == IF a > b THEN a ELSE b

RssIncrease(peak) == Greater(Greater((peak * Percent) \div 100, Absolute), MemoryFloor)

\* compare_entry(): any descriptor more, memory beyond the tolerance, and
\* time only when the tolerance is a percentage.
CompareEntry(e, d) ==
    {k \in {"fd", "peak", "ms"} :
        \/ k = "fd" /\ d.fd > e.fd
        \/ k = "peak" /\ d.peak > e.peak + RssIncrease(e.peak)
        \/ k = "ms" /\ Percent > 0
           /\ 100 * (d.ms - e.ms) > Greater(e.ms * Percent, 100 * TimeFloor)}

\* _find_baseline_entry(): the test's own entry, else the one of some test
\* with the same file and test name (which one is the order in the file).
FoundIn(data, t) ==
    IF data.tests[t] # NoEntry THEN {data.tests[t]}
    ELSE {data.tests[k] : k \in SameName[t]} \ {NoEntry}

LimitCheck(t, d) == IF d.peak > MaxPeak[t] THEN {"limit"} ELSE {}

\* Bug: an incompatible baseline is compared with all the same.
AlwaysCompared(data, t, d) == {LimitCheck(t, d) \cup CompareEntry(e, d) : e \in FoundIn(data, t)}

\* The possible violations of a call: limits, then the baseline when there
\* is an entry and the environment is the one it was made in.
Violations(data, t, d) ==
    IF Compatible(data) /\ FoundIn(data, t) # {}
    THEN {LimitCheck(t, d) \cup CompareEntry(e, d) : e \in FoundIn(data, t)}
    ELSE {LimitCheck(t, d)}

Overlay(base, new) == [t \in Tests |-> IF new[t] # NoEntry THEN new[t] ELSE base[t]]

\* Bug: only this run's results are written.
OnlyMeasured(p) == [Blank EXCEPT !.tests = measured[p]]

\* What p writes: the loaded data with its results put in.
Target(p) == [loaded[p] EXCEPT !.tests = Overlay(@, measured[p])]

-----------------------------------------------------------------------------
Init ==
    /\ start \in Starts /\ file = start
    /\ update \in BOOLEAN
    /\ runners \in {{Controller}, FirstWorkers} /\ interrupted = FALSE
    /\ phase = [p \in Procs |-> IF p = Controller THEN "run" ELSE "new"]
    /\ loaded = [p \in Procs |-> IF p = Controller THEN Load(start) ELSE Blank]
    /\ temp = [p \in Procs |-> NoTemp] /\ running = [p \in Procs |-> NoTest]
    /\ measured = [p \in Procs |-> [t \in Tests |-> NoEntry]]
    /\ failing = [p \in Procs |-> {}]
    /\ stash = [t \in Tests |-> {}] /\ report = [t \in Tests |-> "none"]
    /\ todo = Tests /\ ran = [t \in Tests |-> <<>>]

Becomes(p, ph) == phase' = [phase EXCEPT ![p] = ph]
Crashed == {w \in Workers : phase[w] = "crashed"}
Live == {"run", "body", "report"}

\* A worker process is configured: ProctracePlugin.__init__ loads the file.
Configure(w) ==
    /\ phase[w] = "new" /\ phase[Controller] = "run"
    /\ \/ w \in runners
       \/ w \in Spares /\ Cardinality({s \in Spares : phase[s] # "new"}) < Cardinality(Crashed)
    /\ Becomes(w, "run") /\ loaded' = [loaded EXCEPT ![w] = Load(file)]
    /\ UNCHANGED <<file, temp, running, results, stash, report, todo, interrupted, config, ran>>

\* pytest_runtest_call is entered, for a test not begun or a failed one that
\* the same process runs again.
BeginCall(p, t) ==
    /\ phase[p] = "run" /\ p \in runners \cup Spares
    /\ \/ t \in todo
       \/ /\ ran[t] # <<>> /\ Len(ran[t]) < MaxRuns[t] /\ ran[t][Len(ran[t])].by = p
          /\ report[t] \in {"failed", "gated"}
    /\ Becomes(p, "body") /\ running' = [running EXCEPT ![p] = t]
    /\ todo' = todo \ {t} /\ report' = [report EXCEPT ![t] = "none"]
    /\ UNCHANGED <<file, temp, loaded, results, stash, interrupted, config, ran>>

\* The body is over: the watcher's delta is checked, the violations go to
\* the item when there are any, the record to the results.
EndCall(p, d) ==
    LET t == running[p] IN
    /\ phase[p] = "body"
    /\ \E vs \in Violations(loaded[p], t, d) :
          /\ stash' = [stash EXCEPT ![t] = IF vs # {} THEN vs ELSE @]
          /\ failing' = [failing EXCEPT ![p] = IF vs # {} THEN @ \cup {t} ELSE @]
    /\ measured' = [measured EXCEPT ![p][t] = d]
    /\ ran' = [ran EXCEPT ![t] = Append(@, [by |-> p, delta |-> d])]
    /\ Becomes(p, "report")
    /\ UNCHANGED <<file, temp, running, loaded, report, todo, interrupted, config>>

\* The watcher raises, on entry or at its exit: the call fails with nothing
\* recorded.  (A rerun of it is the body again; a logger that raises does so
\* after the record, and the call is reported as not passed.)
CallRaises(p) ==
    /\ phase[p] = "body" /\ Becomes(p, "run") /\ running' = [running EXCEPT ![p] = NoTest]
    /\ report' = [report EXCEPT ![running[p]] = "failed"]
    /\ UNCHANGED <<file, temp, loaded, results, stash, todo, interrupted, config, ran>>

\* pytest_runtest_makereport: a passed test with violations is made to fail.
MakeReport(p, passed) ==
    LET t == running[p] IN
    /\ phase[p] = "report"
    /\ report' = [report EXCEPT ![t] = IF ~passed THEN "failed"
                                       ELSE IF stash[t] # {} THEN "gated" ELSE "passed"]
    /\ Becomes(p, "run") /\ running' = [running EXCEPT ![p] = NoTest]
    /\ UNCHANGED <<file, temp, loaded, results, stash, todo, interrupted, config, ran>>

Interrupt ==
    /\ phase[Controller] \in Live /\ ~interrupted /\ interrupted' = TRUE
    /\ UNCHANGED <<file, temp, phase, running, loaded, results, stash, report, todo, config, ran>>

\* Bug: the controller does not wait for the workers' output.
EarlyFinish(p) == TRUE

\* When pytest and xdist finish p's session.  A worker is dismissed while
\* another still has the tests that are left.
MayFinish(p) ==
    \/ interrupted
    \/ p \in Workers /\ (todo = {} \/ \E q \in Workers \ {p} : phase[q] \in Live)
    \/ p = Controller /\ todo = {} /\ \A w \in Workers : phase[w] \in {"new", "merged", "crashed"}

\* pytest_sessionfinish, up to the temporary file of save_baseline.
SessionFinish(p) ==
    /\ phase[p] = "run" /\ MayFinish(p)
    /\ IF update THEN Becomes(p, "save") /\ temp' = [temp EXCEPT ![p] = Target(p)]
                 ELSE Becomes(p, "saved") /\ UNCHANGED temp
    /\ UNCHANGED <<file, running, loaded, results, stash, report, todo, interrupted, config, ran>>

\* Bug: the temporary file is copied into place.
Copied(p) == temp

Moved(p) == [temp EXCEPT ![p] = NoTemp]

\* os.replace().
Replace(p) ==
    /\ phase[p] = "save" /\ Becomes(p, "saved")
    /\ file' = temp[p] /\ temp' = Moved(p)
    /\ UNCHANGED <<running, loaded, results, stash, report, todo, interrupted, config, ran>>

\* A worker's results leave with its workeroutput; the controller's summary
\* is printed.
EndSession(p) ==
    /\ phase[p] = "saved" /\ Becomes(p, "ended")
    /\ UNCHANGED <<file, temp, running, loaded, results, stash, report, todo, interrupted, config, ran>>

\* pytest_testnodedown: the controller takes over a finished worker's results.
NodeDown(w) ==
    /\ phase[w] = "ended" /\ phase[Controller] = "run" /\ Becomes(w, "merged")
    /\ measured' = [measured EXCEPT ![Controller] = Overlay(@, measured[w])]
    /\ failing' = [failing EXCEPT ![Controller] = @ \cup failing[w]]
    /\ UNCHANGED <<file, temp, running, loaded, stash, report, todo, interrupted, config, ran>>

\* A process dies.  xdist replaces a worker while it has replacements.
Crash(p) ==
    /\ phase[p] \in Live \cup {"save", "saved"} /\ Becomes(p, "crashed")
    /\ p \in Workers => Cardinality(Crashed) < Cardinality(Spares)
    /\ interrupted' = (interrupted \/ p = Controller)
    /\ running' = [running EXCEPT ![p] = NoTest]
    /\ UNCHANGED <<file, temp, loaded, results, stash, report, todo, config, ran>>

Step(p) ==
    \/ \E t \in Tests : BeginCall(p, t)
    \/ \E d \in Deltas : EndCall(p, d)
    \/ \E passed \in BOOLEAN : MakeReport(p, passed)
    \/ CallRaises(p)
    \/ SessionFinish(p) \/ Replace(p) \/ EndSession(p) \/ Crash(p)

Next == Interrupt \/ (\E w \in Workers : Configure(w) \/ NodeDown(w)) \/ \E p \in Procs : Step(p)
Spec == Init /\ [][Next]_vars

-----------------------------------------------------------------------------
(* The types of the variables; a process in a call has a test in hand, and *)
(* a temporary file is there only during a save, or where a process died   *)
(* in one (save_baseline).                                                 *)
TypeOK ==
    /\ file \in Contents /\ start \in Starts /\ temp \in [Procs -> Contents]
    /\ phase \in [Procs -> Phases] /\ running \in [Procs -> Tests \cup {NoTest}]
    /\ \A p \in Procs : phase[p] \in {"body", "report"} => running[p] \in Tests
    /\ \A p \in Procs : temp[p].ok => phase[p] \in {"save", "crashed"}
    /\ loaded \in [Procs -> Contents] /\ measured \in [Procs -> Entries]
    /\ failing \in [Procs -> SUBSET Tests] /\ todo \in SUBSET Tests
    /\ stash \in [Tests -> SUBSET {"fd", "peak", "ms", "limit"}]
    /\ report \in [Tests -> {"none", "passed", "failed", "gated"}]
    /\ update \in BOOLEAN /\ interrupted \in BOOLEAN
    /\ runners \in {{Controller}, FirstWorkers}
    /\ ran \in [Tests -> Seq([by : Procs, delta : Deltas])]

\* x is the entry the file had at the start, or one measured by some process.
Accountable(x, t) ==
    \/ x = Load(start).tests[t]
    \/ x # NoEntry /\ \E p \in Procs : x = measured[p][t]

(***************************************************************************)
(* Whatever processes save, crash or are interrupted, and in whatever      *)
(* order, the file never loses the entry of a test it had one for, and     *)
(* every entry is the old one or a delta that a process of this session    *)
(* measured for that test (save_baseline, load_baseline).                  *)
(***************************************************************************)
EntriesKept ==
    file # start =>
        /\ file.ok
        /\ \A t \in Tests : Accountable(file.tests[t], t)

(***************************************************************************)
(* A session that is not interrupted ends with the controller's file, in   *)
(* which every test run by a process that did not crash has the last delta *)
(* measured for it, and the summary names each such test that was made to  *)
(* fail (pytest_testnodedown before the controller's own sessionfinish).   *)
(***************************************************************************)
MergedAtEnd ==
    phase[Controller] = "ended" /\ ~interrupted =>
        \A t \in Tests :
            ran[t] # <<>> =>
                LET c == ran[t][Len(ran[t])] IN
                phase[c.by] # "crashed" =>
                    /\ update => file.tests[t] = c.delta
                    /\ report[t] = "gated" => t \in failing[Controller]

\* Was d beyond the test's limit, or worse than the entry the session found?
Due(t, d) ==
    \/ d.peak > MaxPeak[t]
    \/ /\ Load(start).platform = Here /\ Load(start).tests[t] # NoEntry
       /\ CompareEntry(Load(start).tests[t], d) # {}

(***************************************************************************)
(* A test is made to fail only when a call of it exceeded its limit or the *)
(* baseline as it was when the session began, and a call that did is never *)
(* reported as passed: updates made meanwhile by other processes do not    *)
(* move the gate, not even for a replacement worker that loads the file    *)
(* they left.  Excepted are tests compared with a namesake's entry.        *)
(***************************************************************************)
VerdictJustified ==
    \A t \in {u \in Tests : Load(start).tests[u] # NoEntry \/ SameName[u] = {}} :
        /\ report[t] = "gated" => \E i \in DOMAIN ran[t] : Due(t, ran[t][i].delta)
        /\ report[t] = "passed" => ~Due(t, ran[t][Len(ran[t])].delta)
=============================================================================
