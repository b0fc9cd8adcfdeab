--------------------------- MODULE SessionProofs ----------------------------
(***************************************************************************)
(* Proofs about Session, for any number of workers, tests and crashes, any *)
(* deltas, limits, tolerances and starting files: the types, and the three *)
(* properties the run of MCSession checks.                                 *)
(*                                                                         *)
(* The argument has a part per question: OwnInv says which process has a   *)
(* test's result, KeptInv which entries can be in the file or in what was  *)
(* loaded from it, GateInv that a test still to be run has the entry of    *)
(* the start in both, StashInv what is stored with violations, and         *)
(* MergeInv what the controller has taken over and written.                *)
(***************************************************************************)
EXTENDS Session, SequenceTheorems, TLAPS

\* The kinds of violation a call can have.
Kinds == {"fd", "peak", "ms", "limit"}

\* Whatever is compared, a violation is of one of the four kinds.
LEMMA ViolationKinds ==
  ASSUME NEW data, NEW t, NEW d, NEW vs \in Violations(data, t, d)
  PROVE  vs \in SUBSET Kinds
<1>1. \A e : CompareEntry(e, d) \in SUBSET Kinds
  BY DEF CompareEntry, Kinds
<1>2. LimitCheck(t, d) \in SUBSET Kinds
  BY DEF LimitCheck, Kinds
<1> QED BY <1>1, <1>2 DEF Violations

\* Laying results over entries gives entries.
LEMMA OverlayType ==
  ASSUME NEW a \in Entries, NEW b \in Entries
  PROVE  Overlay(a, b) \in Entries
BY DEF Overlay, Entries

\* ... and so does putting entries into a file.
LEMMA ReplaceTests ==
  ASSUME NEW f \in Contents, NEW e \in Entries
  PROVE  /\ [f EXCEPT !.tests = e] \in Contents
         /\ [f EXCEPT !.tests = e].tests = e
         /\ [f EXCEPT !.tests = e].ok = f.ok
         /\ [f EXCEPT !.tests = e].platform = f.platform
BY DEF Contents

\* A file that is read yields contents that are well formed and readable.
LEMMA LoadType ==
  ASSUME NEW f \in Contents
  PROVE  Load(f) \in Contents /\ Load(f).ok
BY SessionAssumption DEF Load, Blank, Contents, Entries

-----------------------------------------------------------------------------
\* The starting files are well formed, and nothing is in anybody's hands.
LEMMA TypeInit == Init => TypeOK
<1> SUFFICES ASSUME Init  PROVE TypeOK
  OBVIOUS
<1>1. file \in Contents /\ start \in Starts /\ start \in Contents
  BY SessionAssumption DEF Init
<1>2. Load(start) \in Contents /\ Blank \in Contents /\ NoTemp \in Contents
  BY <1>1, LoadType, SessionAssumption DEF Blank, NoTemp, Contents, Entries
<1>3. temp \in [Procs -> Contents] /\ loaded \in [Procs -> Contents]
  BY <1>2 DEF Init
<1>4. phase \in [Procs -> Phases] /\ running \in [Procs -> Tests \cup {NoTest}]
  BY DEF Init, Phases
<1>5. \A p \in Procs : phase[p] \notin {"body", "report"} /\ ~temp[p].ok
  BY DEF Init, NoTemp
<1>6. measured \in [Procs -> Entries] /\ failing \in [Procs -> SUBSET Tests]
  BY DEF Init, Entries
<1>7. ran \in [Tests -> Seq([by : Procs, delta : Deltas])]
  BY DEF Init
<1>8. /\ todo \in SUBSET Tests /\ stash \in [Tests -> SUBSET {"fd", "peak", "ms", "limit"}]
      /\ report \in [Tests -> {"none", "passed", "failed", "gated"}]
      /\ update \in BOOLEAN /\ interrupted \in BOOLEAN
      /\ runners \in {{Controller}, FirstWorkers}
  BY DEF Init
<1> QED BY <1>1, <1>3, <1>4, <1>5, <1>6, <1>7, <1>8 DEF TypeOK

\* One step per action; what is written are entries laid over loaded ones.
LEMMA TypeNext == TypeOK /\ [Next]_vars => TypeOK'
<1> SUFFICES ASSUME TypeOK, [Next]_vars  PROVE TypeOK'
  OBVIOUS
<1> USE DEF Becomes, results, config, Live, Phases
<1>0. Controller \in Procs /\ Workers \subseteq Procs
  BY DEF Procs
<1>1. CASE Interrupt
  BY <1>1 DEF Interrupt, TypeOK
<1>2. ASSUME NEW w \in Workers, Configure(w)  PROVE TypeOK'
  <2>1. Load(file) \in Contents
    BY LoadType DEF TypeOK
  <2> QED BY <1>0, <1>2, <2>1 DEF Configure, TypeOK
<1>3. ASSUME NEW w \in Workers, NodeDown(w)  PROVE TypeOK'
  <2>1. Overlay(measured[Controller], measured[w]) \in Entries
    BY <1>0, OverlayType DEF TypeOK
  <2> QED BY <1>0, <1>3, <2>1 DEF NodeDown, TypeOK
<1>4. ASSUME NEW p \in Procs, NEW t \in Tests, BeginCall(p, t)  PROVE TypeOK'
  BY <1>4 DEF BeginCall, TypeOK
<1>5. ASSUME NEW p \in Procs, NEW d \in Deltas, EndCall(p, d)  PROVE TypeOK'
  <2> DEFINE t == running[p]
  <2>1. t \in Tests /\ d \in Deltas \cup {NoEntry}
    BY <1>5 DEF EndCall, TypeOK
  <2>2. PICK vs \in Violations(loaded[p], t, d) :
          /\ stash' = [stash EXCEPT ![t] = IF vs # {} THEN vs ELSE @]
          /\ failing' = [failing EXCEPT ![p] = IF vs # {} THEN @ \cup {t} ELSE @]
    BY <1>5 DEF EndCall
  <2>3. stash' \in [Tests -> SUBSET {"fd", "peak", "ms", "limit"}]
    <3>1. vs \in SUBSET {"fd", "peak", "ms", "limit"}
      BY ViolationKinds DEF Kinds
    <3> QED BY <2>1, <2>2, <3>1 DEF TypeOK
  <2>4. failing' \in [Procs -> SUBSET Tests]
    BY <2>1, <2>2 DEF TypeOK
  <2>5. measured' \in [Procs -> Entries]
    BY <2>1, <1>5 DEF EndCall, TypeOK, Entries
  <2>6. ran' \in [Tests -> Seq([by : Procs, delta : Deltas])]
    <3>1. ran[t] \in Seq([by : Procs, delta : Deltas])
      BY <2>1 DEF TypeOK
    <3>2. [by |-> p, delta |-> d] \in [by : Procs, delta : Deltas]
      OBVIOUS
    <3>3. Append(ran[t], [by |-> p, delta |-> d]) \in Seq([by : Procs, delta : Deltas])
      BY <3>1, <3>2, AppendProperties
    <3> QED BY <2>1, <1>5, <3>3 DEF EndCall, TypeOK
  <2> QED BY <1>5, <2>3, <2>4, <2>5, <2>6 DEF EndCall, TypeOK
<1>6. ASSUME NEW p \in Procs, NEW passed \in BOOLEAN, MakeReport(p, passed)  PROVE TypeOK'
  BY <1>6 DEF MakeReport, TypeOK
<1>7. ASSUME NEW p \in Procs, SessionFinish(p)  PROVE TypeOK'
  <2>1. Target(p) \in Contents
    <3>1. loaded[p] \in Contents /\ measured[p] \in Entries
      BY DEF TypeOK
    <3>2. Overlay(loaded[p].tests, measured[p]) \in Entries
      BY <3>1, OverlayType DEF Contents
    <3>3. Target(p) = [loaded[p] EXCEPT !.tests = Overlay(loaded[p].tests, measured[p])]
      BY DEF Target
    <3> QED BY <3>1, <3>2, <3>3, ReplaceTests
  <2>2. temp' \in [Procs -> Contents] /\ phase' \in [Procs -> Phases]
    <3>1. temp \in [Procs -> Contents] /\ phase \in [Procs -> Phases]
      BY DEF TypeOK
    <3>2. CASE update
      BY <1>7, <2>1, <3>1, <3>2 DEF SessionFinish
    <3>3. CASE ~update
      BY <1>7, <3>1, <3>3 DEF SessionFinish
    <3> QED BY <3>2, <3>3
  <2>3. \A q \in Procs : /\ phase'[q] \in {"body", "report"} => running'[q] \in Tests
                         /\ temp'[q].ok => phase'[q] \in {"save", "crashed"}
    BY <1>7 DEF SessionFinish, TypeOK
  <2> QED BY <1>7, <2>2, <2>3 DEF SessionFinish, TypeOK
<1>8. ASSUME NEW p \in Procs, Replace(p)  PROVE TypeOK'
  <2>1. NoTemp \in Contents /\ ~NoTemp.ok
    BY SessionAssumption DEF NoTemp, Contents, Entries
  <2> QED BY <1>8, <2>1 DEF Replace, Moved, TypeOK
<1>9. ASSUME NEW p \in Procs, EndSession(p)  PROVE TypeOK'
  BY <1>9 DEF EndSession, TypeOK
<1>10. ASSUME NEW p \in Procs, Crash(p)  PROVE TypeOK'
  BY <1>10 DEF Crash, TypeOK
<1>11. CASE UNCHANGED vars
  BY <1>11 DEF vars, TypeOK
<1>12. ASSUME NEW p \in Procs, CallRaises(p)  PROVE TypeOK'
  BY <1>12 DEF CallRaises, TypeOK
<1> QED BY <1>1, <1>2, <1>3, <1>4, <1>5, <1>6, <1>7, <1>8, <1>9, <1>10, <1>11, <1>12 DEF Next, Step

-----------------------------------------------------------------------------
(* The invariants. *)

\* The last call of a test, if it was run.
Last(t) == ran[t][Len(ran[t])]
Begun(t) == ran[t] # <<>>

\* p has t in its hands, or was the last to run it.
Runs(p, t) == running[p] = t \/ (Begun(t) /\ Last(t).by = p)

\* The processes whose results no longer change.
Settled(q) == phase[q] \in {"save", "saved", "ended", "merged", "crashed"}

\* The entries of t that may be in a file: the one of the start, and those
\* measured by settled processes.
Known(t) ==
    {Load(start).tests[t]} \cup ({measured[q][t] : q \in {r \in Procs : Settled(r)}} \ {NoEntry})
AllKnown(f) == \A t \in Tests : f.tests[t] \in Known(t)

\* The file, what is about to replace it and what was loaded from it are
\* readable and have known entries only.
KeptInv ==
    /\ file = start \/ (file.ok /\ AllKnown(file))
    /\ \A p \in Procs : phase[p] = "save" => temp[p].ok /\ AllKnown(temp[p])
    /\ \A p \in Procs : phase[p] # "new" => loaded[p].ok /\ AllKnown(loaded[p])

\* A test is run by one process only, one that may run tests, which has its
\* results; others have none of it, but for the controller after a merge.
OwnInv ==
    /\ \A p \in Procs : phase[p] \notin {"body", "report"} => running[p] = NoTest
    /\ \A p \in Procs, t \in Tests : Runs(p, t) => t \notin todo /\ p \in runners \cup Spares
    /\ \A p \in Procs, t \in Tests : running[p] = t => report[t] = "none"
    /\ \A p, q \in Procs, t \in Tests : Runs(p, t) /\ Runs(q, t) => p = q
    /\ \A p \in Procs, t \in Tests : Runs(p, t) => phase[p] # "new"
    /\ \A t \in Tests : Begun(t) => measured[Last(t).by][t] = Last(t).delta
    /\ \A p \in Procs, t \in Tests :
          measured[p][t] # NoEntry =>
             /\ Begun(t)
             /\ Last(t).by = p \/ (p = Controller /\ phase[Last(t).by] = "merged")

\* Where a process may still run a test, it has the entry of the start for it.
GateInv ==
    /\ Load(file).platform = Load(start).platform
    /\ \A t \in todo : Load(file).tests[t] = Load(start).tests[t]
    /\ \A p \in Procs : phase[p] = "save" =>
          /\ temp[p].platform = Load(start).platform
          /\ \A t \in todo : temp[p].tests[t] = Load(start).tests[t]
    /\ \A p \in Procs : phase[p] # "new" =>
          /\ loaded[p].platform = Load(start).platform
          /\ \A t \in Tests : t \in todo \/ Runs(p, t) => loaded[p].tests[t] = Load(start).tests[t]

\* The tests not compared with a namesake's entry.
Gated == {u \in Tests : Load(start).tests[u] # NoEntry \/ SameName[u] = {}}

\* Violations stored with a test are due, and those due are stored, up to its
\* report; the process that ran it last has it among its results.
StashInv ==
    /\ \A t \in Tests : report[t] = "gated" => stash[t] # {}
    /\ \A t \in Tests : stash[t] # {} => Begun(t) /\ t \in failing[Last(t).by]
    /\ \A t \in Gated : stash[t] # {} => \E i \in DOMAIN ran[t] : Due(t, ran[t][i].delta)
    /\ \A p \in Procs : phase[p] = "report" /\ running[p] \in Gated =>
          /\ Begun(running[p])
          /\ Due(running[p], Last(running[p]).delta) => stash[running[p]] # {}
    /\ \A t \in Gated : report[t] = "passed" => ~Due(t, Last(t).delta)

\* The controller saves when no worker is left, with the results of every
\* worker that did not crash, and its file stays.
MergeInv ==
    /\ phase[Controller] \in {"save", "saved", "ended"} /\ ~interrupted =>
          \A w \in Workers : phase[w] \in {"new", "merged", "crashed"}
    /\ \A w \in Workers : phase[w] = "merged" =>
          /\ \A t \in Tests : measured[w][t] # NoEntry => measured[Controller][t] = measured[w][t]
          /\ failing[w] \subseteq failing[Controller]
    /\ phase[Controller] = "save" =>
          \A t \in Tests : measured[Controller][t] # NoEntry => temp[Controller].tests[t] = measured[Controller][t]
    /\ phase[Controller] \in {"saved", "ended"} /\ ~interrupted /\ update =>
          \A t \in Tests : measured[Controller][t] # NoEntry => file.tests[t] = measured[Controller][t]

-----------------------------------------------------------------------------
(* Who runs which test. *)

\* The last call of a test, of a process and with a delta.
LEMMA LastType ==
  ASSUME TypeOK, NEW t \in Tests, Begun(t)
  PROVE  Last(t) \in [by : Procs, delta : Deltas]
<1>1. ran[t] \in Seq([by : Procs, delta : Deltas]) /\ ran[t] # <<>>
  BY DEF TypeOK, Begun
<1>2. Len(ran[t]) \in 1..Len(ran[t])
  BY <1>1
<1> QED BY <1>1, <1>2, ElementOfSeq DEF Last

\* One more call becomes the last.
LEMMA LastAppended ==
  ASSUME TypeOK, NEW t \in Tests, NEW c, ran' = [ran EXCEPT ![t] = Append(@, c)]
  PROVE  /\ Begun(t)' /\ Last(t)' = c
         /\ \A o \in Tests \ {t} : (Begun(o)' <=> Begun(o)) /\ Last(o)' = Last(o)
<1>1. ran[t] \in Seq([by : Procs, delta : Deltas]) /\ ran'[t] = Append(ran[t], c)
  BY DEF TypeOK
<1>2. Len(ran'[t]) = Len(ran[t]) + 1 /\ ran'[t][Len(ran[t]) + 1] = c
  BY <1>1
<1>3. \A o \in Tests \ {t} : ran'[o] = ran[o]
  BY DEF TypeOK
<1> QED BY <1>1, <1>2, <1>3 DEF Begun, Last

\* Nobody has run a test.
LEMMA OwnInit == Init => OwnInv
<1> SUFFICES ASSUME Init  PROVE OwnInv
  OBVIOUS
<1>1. \A t \in Tests : ran[t] = <<>>
  BY DEF Init
<1>2. \A p \in Procs : running[p] = NoTest
  BY DEF Init
<1>3. \A p \in Procs, t \in Tests : ~Runs(p, t)
  BY <1>1, <1>2, SessionAssumption DEF Runs, Begun
<1>4. \A p \in Procs, t \in Tests : measured[p][t] = NoEntry
  BY DEF Init
<1> QED BY <1>1, <1>2, <1>3, <1>4, SessionAssumption DEF OwnInv, Begun

\* Steps that touch no call, no result and no report.
LEMMA OwnQuiet ==
  ASSUME OwnInv,
         UNCHANGED <<ran, measured, runners, todo, report, running>>,
         \A p \in Procs : phase[p] # "new" => phase'[p] # "new",
         \A p \in Procs : phase[p] = "merged" => phase'[p] = "merged",
         \A p \in Procs : phase'[p] \notin {"body", "report"} => phase[p] \notin {"body", "report"},
         TypeOK
  PROVE  OwnInv'
<1>1. \A p \in Procs, t \in Tests : Runs(p, t)' <=> Runs(p, t)
  BY DEF Runs, Begun, Last
<1>2. \A t \in Tests : (Begun(t)' <=> Begun(t)) /\ Last(t)' = Last(t)
  BY DEF Begun, Last
<1>3. \A t \in Tests : Begun(t) => Last(t).by \in Procs
  BY LastType
<1> QED BY <1>1, <1>2, <1>3 DEF OwnInv

\* A test that is begun was in nobody's hands, or ran last where it begins.
LEMMA OwnBegin ==
  ASSUME TypeOK, OwnInv, NEW p \in Procs, NEW t \in Tests, BeginCall(p, t)
  PROVE  OwnInv'
<1> USE SessionAssumption DEF Becomes, results, config
<1>1. /\ running' = [running EXCEPT ![p] = t] /\ phase' = [phase EXCEPT ![p] = "body"]
      /\ report' = [report EXCEPT ![t] = "none"] /\ todo' = todo \ {t}
      /\ UNCHANGED <<ran, measured, runners>> /\ phase[p] = "run" /\ p \in runners \cup Spares
  BY DEF BeginCall
<1>2. \A o \in Tests : (Begun(o)' <=> Begun(o)) /\ Last(o)' = Last(o)
  BY <1>1 DEF Begun, Last
<1>3. \A q \in Procs, o \in Tests : Runs(q, o)' <=> Runs(q, o) \/ (q = p /\ o = t)
  <2>1. running[p] = NoTest
    BY <1>1 DEF OwnInv
  <2> QED BY <1>1, <1>2, <2>1 DEF Runs, TypeOK
<1>4. \A q \in Procs : Runs(q, t) => q = p
  <2>1. CASE t \in todo
    BY <2>1 DEF OwnInv
  <2>2. CASE t \notin todo
    <3>1. Runs(p, t)
      BY <2>2 DEF BeginCall, Runs, Begun, Last
    <3> QED BY <3>1 DEF OwnInv
  <2> QED BY <2>1, <2>2
<1>5. \A q \in Procs : running[q] # t
  BY <1>1, <1>4 DEF OwnInv, Runs
<1>6. \A o \in Tests : Begun(o) => Last(o).by \in Procs /\ Runs(Last(o).by, o)
  BY LastType DEF Runs
<1>7. \A q \in Procs : phase'[q] \notin {"body", "report"} => running'[q] = NoTest
  BY <1>1 DEF OwnInv, TypeOK
<1>8. \A q \in Procs, o \in Tests : running'[q] = o => report'[o] = "none"
  BY <1>1, <1>5 DEF OwnInv, TypeOK
<1>9. \A q, r \in Procs, o \in Tests : Runs(q, o)' /\ Runs(r, o)' => q = r
  BY <1>3, <1>4 DEF OwnInv
<1>10. \A q \in Procs, o \in Tests : Runs(q, o)' => /\ o \notin todo' /\ q \in runners' \cup Spares
                                                    /\ phase'[q] # "new"
  BY <1>1, <1>3 DEF OwnInv, TypeOK
<1>11. \A o \in Tests : Begun(o)' => measured'[Last(o)'.by][o] = Last(o)'.delta
  BY <1>1, <1>2 DEF OwnInv
<1>12. \A q \in Procs, o \in Tests :
          measured'[q][o] # NoEntry =>
             Begun(o)' /\ (Last(o)'.by = q \/ (q = Controller /\ phase'[Last(o)'.by] = "merged"))
  BY <1>1, <1>2, <1>6 DEF OwnInv, TypeOK
<1> QED BY <1>7, <1>8, <1>9, <1>10, <1>11, <1>12 DEF OwnInv

\* A call that ends leaves its result with the process that ran it.
LEMMA OwnEnd ==
  ASSUME TypeOK, OwnInv, NEW p \in Procs, NEW d \in Deltas, EndCall(p, d),
         NEW t \in Tests, t = running[p]
  PROVE  OwnInv'
<1> DEFINE c == [by |-> p, delta |-> d]
<1> USE SessionAssumption
<1>1. /\ phase[p] = "body" /\ phase' = [phase EXCEPT ![p] = "report"]
      /\ measured' = [measured EXCEPT ![p][t] = d] /\ ran' = [ran EXCEPT ![t] = Append(@, c)]
      /\ UNCHANGED <<running, report, todo, runners>>
  BY DEF EndCall, Becomes, config
<1>2. t \in Tests
  OBVIOUS
<1>3. Begun(t)' /\ Last(t)' = c /\ \A o \in Tests \ {t} : (Begun(o)' <=> Begun(o)) /\ Last(o)' = Last(o)
  BY <1>1, <1>2, LastAppended
<1> HIDE DEF c
<1>4. c.by = p /\ c.delta = d
  BY DEF c
<1>5. \A q \in Procs : Runs(q, t) => q = p
  BY <1>2 DEF OwnInv, Runs
<1>6. \A q \in Procs, o \in Tests : Runs(q, o)' <=> Runs(q, o)
  <2>1. \A q \in Procs : Runs(q, t)' <=> Runs(q, t)
    BY <1>1, <1>3, <1>4, <1>5 DEF Runs
  <2> QED BY <1>1, <1>3, <2>1 DEF Runs
<1>7. \A o \in Tests : Begun(o) => Last(o).by \in Procs /\ Runs(Last(o).by, o)
  BY LastType DEF Runs
<1>8. \A q \in Procs, o \in Tests : measured'[q][o] = IF q = p /\ o = t THEN d ELSE measured[q][o]
  BY <1>1, <1>2 DEF TypeOK, Entries
<1>9. \A o \in Tests : Begun(o)' => measured'[Last(o)'.by][o] = Last(o)'.delta
  <2>1. measured'[Last(t)'.by][t] = Last(t)'.delta
    BY <1>2, <1>3, <1>4, <1>8
  <2>2. \A o \in Tests \ {t} : Begun(o)' => measured'[Last(o)'.by][o] = Last(o)'.delta
    BY <1>3, <1>7, <1>8 DEF OwnInv
  <2> QED BY <2>1, <2>2
<1>10. \A q \in Procs, o \in Tests :
          measured'[q][o] # NoEntry =>
             Begun(o)' /\ (Last(o)'.by = q \/ (q = Controller /\ phase'[Last(o)'.by] = "merged"))
  <2>1. \A q \in Procs \ {p} : measured[q][t] = NoEntry
    <3> SUFFICES ASSUME NEW q \in Procs \ {p}, measured[q][t] # NoEntry  PROVE FALSE
      OBVIOUS
    <3>1. Begun(t) /\ Last(t).by = p
      BY <1>2, <1>5, <1>7 DEF OwnInv
    <3> QED BY <1>1, <1>2, <3>1 DEF OwnInv
  <2>2. ASSUME NEW q \in Procs, NEW o \in Tests \ {t}, measured[q][o] # NoEntry
        PROVE  Begun(o)' /\ (Last(o)'.by = q \/ (q = Controller /\ phase'[Last(o)'.by] = "merged"))
    <3>1. Begun(o) /\ (Last(o).by = q \/ (q = Controller /\ phase[Last(o).by] = "merged"))
      BY <2>2 DEF OwnInv
    <3>2. Last(o).by \in Procs
      BY <1>7, <3>1
    <3> QED BY <1>1, <1>3, <3>1, <3>2 DEF TypeOK
  <2> QED BY <1>2, <1>3, <1>4, <1>8, <2>1, <2>2
<1>11. \A q \in Procs : phase'[q] \notin {"body", "report"} => running'[q] = NoTest
  BY <1>1 DEF OwnInv, TypeOK
<1>12. \A q \in Procs, o \in Tests : Runs(q, o)' => /\ o \notin todo' /\ q \in runners' \cup Spares
                                                    /\ phase'[q] # "new"
  BY <1>1, <1>6 DEF OwnInv, TypeOK
<1>13. \A q \in Procs, o \in Tests : running'[q] = o => report'[o] = "none"
  BY <1>1 DEF OwnInv
<1>14. \A q, r \in Procs, o \in Tests : Runs(q, o)' /\ Runs(r, o)' => q = r
  BY <1>6 DEF OwnInv
<1> QED BY <1>9, <1>10, <1>11, <1>12, <1>13, <1>14 DEF OwnInv

\* A process lets go of its test, reported or lost.
LEMMA OwnRelease ==
  ASSUME TypeOK, OwnInv, NEW p \in Procs, NEW ph, ph # "new", phase[p] # "merged",
         running' = [running EXCEPT ![p] = NoTest], phase' = [phase EXCEPT ![p] = ph],
         UNCHANGED <<ran, measured, runners, todo>>,
         \A o \in Tests : o # running[p] => report'[o] = report[o]
  PROVE  OwnInv'
<1> USE SessionAssumption
<1>1. \A o \in Tests : (Begun(o)' <=> Begun(o)) /\ Last(o)' = Last(o)
  BY DEF Begun, Last
<1>2. \A q \in Procs, o \in Tests : Runs(q, o)' => Runs(q, o)
  BY <1>1 DEF Runs, TypeOK
<1>3. \A o \in Tests : Begun(o) => Last(o).by \in Procs
  BY LastType
<1>4. \A q \in Procs : phase'[q] \notin {"body", "report"} => running'[q] = NoTest
  BY DEF OwnInv, TypeOK
<1>5. \A q \in Procs, o \in Tests : running'[q] = o => report'[o] = "none"
  <2> SUFFICES ASSUME NEW q \in Procs, NEW o \in Tests, running'[q] = o  PROVE report'[o] = "none"
    OBVIOUS
  <2>1. q # p /\ running[q] = o
    BY DEF TypeOK
  <2>2. o # running[p]
    BY <2>1 DEF OwnInv, Runs
  <2> QED BY <2>1, <2>2 DEF OwnInv
<1>6. \A q \in Procs, o \in Tests : Runs(q, o)' => /\ o \notin todo' /\ q \in runners' \cup Spares
                                                   /\ phase'[q] # "new"
  BY <1>2 DEF OwnInv, TypeOK
<1>7. \A q, r \in Procs, o \in Tests : Runs(q, o)' /\ Runs(r, o)' => q = r
  BY <1>2 DEF OwnInv
<1>8. \A o \in Tests : Begun(o)' => measured'[Last(o)'.by][o] = Last(o)'.delta
  BY <1>1 DEF OwnInv
<1>9. \A q \in Procs, o \in Tests :
          measured'[q][o] # NoEntry =>
             Begun(o)' /\ (Last(o)'.by = q \/ (q = Controller /\ phase'[Last(o)'.by] = "merged"))
  BY <1>1, <1>3 DEF OwnInv, TypeOK
<1> QED BY <1>4, <1>5, <1>6, <1>7, <1>8, <1>9 DEF OwnInv

\* What a worker measured is its own: the controller takes over nothing that
\* it measured itself.
LEMMA OwnMerge ==
  ASSUME TypeOK, OwnInv, NEW w \in Workers, NodeDown(w)
  PROVE  OwnInv'
<1> USE SessionAssumption
<1>0. w \in Procs /\ Controller \in Procs /\ w # Controller
  BY DEF Procs
<1>1. /\ phase[w] = "ended" /\ phase' = [phase EXCEPT ![w] = "merged"]
      /\ measured' = [measured EXCEPT ![Controller] = Overlay(measured[Controller], measured[w])]
      /\ UNCHANGED <<ran, running, report, todo, runners>>
  BY DEF NodeDown, Becomes, config
<1>2. \A o \in Tests : (Begun(o)' <=> Begun(o)) /\ Last(o)' = Last(o)
  BY <1>1 DEF Begun, Last
<1>3. \A q \in Procs, o \in Tests : Runs(q, o)' <=> Runs(q, o)
  BY <1>1, <1>2 DEF Runs
<1>4. \A o \in Tests : Begun(o) => Last(o).by \in Procs
  BY LastType
<1>5. \A q \in Procs, o \in Tests :
         measured'[q][o] = IF q = Controller /\ measured[w][o] # NoEntry
                           THEN measured[w][o] ELSE measured[q][o]
  BY <1>0, <1>1 DEF Overlay, TypeOK
<1>6. \A o \in Tests : measured[w][o] # NoEntry => Begun(o) /\ Last(o).by = w
  BY <1>0 DEF OwnInv
<1>7. \A q \in Procs : phase[q] = "merged" => phase'[q] = "merged"
  BY <1>0, <1>1 DEF TypeOK
<1>8. \A o \in Tests : Begun(o)' => measured'[Last(o)'.by][o] = Last(o)'.delta
  BY <1>0, <1>2, <1>4, <1>5, <1>6 DEF OwnInv
<1>9. \A q \in Procs, o \in Tests :
          measured'[q][o] # NoEntry =>
             Begun(o)' /\ (Last(o)'.by = q \/ (q = Controller /\ phase'[Last(o)'.by] = "merged"))
  <2> SUFFICES ASSUME NEW q \in Procs, NEW o \in Tests, measured'[q][o] # NoEntry
               PROVE  Begun(o) /\ (Last(o).by = q \/ (q = Controller /\ phase'[Last(o).by] = "merged"))
    BY <1>2
  <2>1. CASE q = Controller /\ measured[w][o] # NoEntry
    BY <1>0, <1>1, <1>6, <2>1 DEF TypeOK
  <2>2. CASE ~(q = Controller /\ measured[w][o] # NoEntry)
    BY <1>4, <1>5, <1>7, <2>2 DEF OwnInv
  <2> QED BY <2>1, <2>2
<1>10. \A q \in Procs : /\ phase'[q] \notin {"body", "report"} => running'[q] = NoTest
                        /\ phase[q] # "new" => phase'[q] # "new"
  BY <1>0, <1>1 DEF OwnInv, TypeOK
<1>11. \A q \in Procs, o \in Tests : Runs(q, o)' => /\ o \notin todo' /\ q \in runners' \cup Spares
                                                    /\ phase'[q] # "new"
  BY <1>1, <1>3, <1>10 DEF OwnInv
<1>12. \A q \in Procs, o \in Tests : running'[q] = o => report'[o] = "none"
  BY <1>1 DEF OwnInv
<1>13. \A q, r \in Procs, o \in Tests : Runs(q, o)' /\ Runs(r, o)' => q = r
  BY <1>3 DEF OwnInv
<1> QED BY <1>8, <1>9, <1>10, <1>11, <1>12, <1>13 DEF OwnInv

\* Every step keeps OwnInv.
LEMMA OwnNext == TypeOK /\ OwnInv /\ [Next]_vars => OwnInv'
<1> SUFFICES ASSUME TypeOK, OwnInv, [Next]_vars  PROVE OwnInv'
  OBVIOUS
<1> USE DEF Becomes, results, config
<1>0. Workers \subseteq Procs
  BY DEF Procs
<1>1. CASE Interrupt
  BY <1>1, OwnQuiet DEF Interrupt
<1>2. ASSUME NEW w \in Workers, Configure(w)  PROVE OwnInv'
  BY <1>0, <1>2, OwnQuiet DEF Configure, TypeOK
<1>3. ASSUME NEW w \in Workers, NodeDown(w)  PROVE OwnInv'
  BY <1>3, OwnMerge
<1>4. ASSUME NEW p \in Procs, NEW t \in Tests, BeginCall(p, t)  PROVE OwnInv'
  BY <1>4, OwnBegin
<1>5. ASSUME NEW p \in Procs, NEW d \in Deltas, EndCall(p, d)  PROVE OwnInv'
  <2>1. running[p] \in Tests
    BY <1>5 DEF EndCall, TypeOK
  <2> QED BY <1>5, <2>1, OwnEnd
<1>6. ASSUME NEW p \in Procs, NEW passed \in BOOLEAN, MakeReport(p, passed)  PROVE OwnInv'
  <2>1. \A o \in Tests : o # running[p] => report'[o] = report[o]
    BY <1>6 DEF MakeReport, TypeOK
  <2> QED BY <1>6, <2>1, OwnRelease DEF MakeReport
<1>7. ASSUME NEW p \in Procs, SessionFinish(p)  PROVE OwnInv'
  <2>1. UNCHANGED <<ran, measured, runners, todo, report, running>>
    BY <1>7 DEF SessionFinish
  <2>2. \E ph \in {"save", "saved"} : phase[p] = "run" /\ phase' = [phase EXCEPT ![p] = ph]
    <3>1. CASE update
      BY <1>7, <3>1 DEF SessionFinish
    <3>2. CASE ~update
      BY <1>7, <3>2 DEF SessionFinish
    <3> QED BY <3>1, <3>2
  <2> QED BY <2>1, <2>2, OwnQuiet DEF TypeOK
<1>8. ASSUME NEW p \in Procs, Replace(p)  PROVE OwnInv'
  BY <1>8, OwnQuiet DEF Replace, TypeOK
<1>9. ASSUME NEW p \in Procs, EndSession(p)  PROVE OwnInv'
  BY <1>9, OwnQuiet DEF EndSession, TypeOK
<1>10. ASSUME NEW p \in Procs, Crash(p)  PROVE OwnInv'
  BY <1>10, OwnRelease DEF Crash, Live
<1>11. CASE UNCHANGED vars
  BY <1>11, OwnQuiet DEF vars
<1>12. ASSUME NEW p \in Procs, CallRaises(p)  PROVE OwnInv'
  <2>1. \A o \in Tests : o # running[p] => report'[o] = report[o]
    BY <1>12 DEF CallRaises, TypeOK
  <2> QED BY <1>12, <2>1, OwnRelease DEF CallRaises
<1> QED BY <1>1, <1>2, <1>3, <1>4, <1>5, <1>6, <1>7, <1>8, <1>9, <1>10, <1>11, <1>12 DEF Next, Step

-----------------------------------------------------------------------------
(* The file keeps its entries. *)

\* The controller has loaded the file; nobody has written one.
LEMMA KeptInit == Init => KeptInv
<1> SUFFICES ASSUME Init  PROVE KeptInv
  OBVIOUS
<1>1. start \in Contents
  BY SessionAssumption DEF Init
<1>2. Load(start).ok
  BY <1>1, LoadType
<1>3. \A p \in Procs : phase[p] # "new" => loaded[p] = Load(start)
  BY DEF Init
<1>4. \A p \in Procs : phase[p] # "save"
  BY DEF Init
<1> QED BY <1>2, <1>3, <1>4 DEF Init, KeptInv, AllKnown, Known

\* An entry that is accounted for stays so, as settled processes stay settled
\* and keep their results.
LEMMA KnownStays ==
  ASSUME start' = start,
         \A q \in Procs : Settled(q) => Settled(q)' /\ measured'[q] = measured[q]
  PROVE  \A t \in Tests : Known(t) \subseteq Known(t)'
BY DEF Known

\* Steps that touch neither the file nor what was loaded from it.
LEMMA KeptQuiet ==
  ASSUME KeptInv, UNCHANGED <<file, temp, loaded, start>>,
         \A q \in Procs : Settled(q) => Settled(q)' /\ measured'[q] = measured[q],
         \A q \in Procs : /\ phase'[q] = "save" => phase[q] = "save"
                          /\ phase'[q] # "new" => phase[q] # "new"
  PROVE  KeptInv'
<1>1. \A t \in Tests : Known(t) \subseteq Known(t)'
  BY KnownStays
<1> QED BY <1>1 DEF KeptInv, AllKnown

\* One step per action: loading, writing and replacing pass known entries on.
LEMMA KeptNext == TypeOK /\ KeptInv /\ [Next]_vars => KeptInv'
<1> SUFFICES ASSUME TypeOK, KeptInv, [Next]_vars  PROVE KeptInv'
  OBVIOUS
<1> USE DEF Becomes, results, config
<1>0. Workers \subseteq Procs /\ Controller \in Procs /\ \A w \in Workers : w # Controller
  BY SessionAssumption DEF Procs
<1>1. CASE Interrupt
  BY <1>1, KeptQuiet DEF Interrupt, Settled
<1>2. ASSUME NEW w \in Workers, Configure(w)  PROVE KeptInv'
  <2>1. \A t \in Tests : Known(t) \subseteq Known(t)'
    <3>1. \A q \in Procs : Settled(q) => Settled(q)' /\ measured'[q] = measured[q]
      BY <1>0, <1>2 DEF Configure, Settled, TypeOK
    <3> QED BY <1>2, <3>1, KnownStays DEF Configure
  <2>2. Load(file).ok /\ \A t \in Tests : Load(file).tests[t] \in Known(t)
    BY LoadType DEF KeptInv, AllKnown, Known, Load, TypeOK
  <2>3. \A p \in Procs : phase'[p] = "save" => phase[p] = "save"
    BY <1>0, <1>2 DEF Configure, TypeOK
  <2>4. \A p \in Procs : phase'[p] # "new" => \/ p = w /\ loaded'[p] = Load(file)
                                              \/ phase[p] # "new" /\ loaded'[p] = loaded[p]
    <3>1. /\ phase[w] = "new" /\ phase' = [phase EXCEPT ![w] = "run"]
          /\ loaded' = [loaded EXCEPT ![w] = Load(file)]
      BY <1>2 DEF Configure
    <3> QED BY <1>0, <3>1 DEF TypeOK
  <2>5. UNCHANGED <<file, temp, start>>
    BY <1>2 DEF Configure
  <2>6. file' = start' \/ (file'.ok /\ AllKnown(file)')
    BY <2>1, <2>5 DEF KeptInv, AllKnown
  <2>7. \A p \in Procs : phase'[p] = "save" => temp'[p].ok /\ AllKnown(temp[p])'
    <3>1. \A q \in Procs, t \in Tests : phase'[q] = "save" => temp'[q].tests[t] \in Known(t)'
      BY <2>1, <2>3, <2>5 DEF KeptInv, AllKnown
    <3> QED BY <2>3, <2>5, <3>1 DEF KeptInv, AllKnown
  <2>8. \A p \in Procs : phase'[p] # "new" => loaded'[p].ok /\ AllKnown(loaded[p])'
    <3>1. \A q \in Procs, t \in Tests : phase'[q] # "new" => loaded'[q].tests[t] \in Known(t)'
      BY <2>1, <2>2, <2>4 DEF KeptInv, AllKnown
    <3> QED BY <2>2, <2>4, <3>1 DEF KeptInv, AllKnown
  <2> QED BY <2>6, <2>7, <2>8 DEF KeptInv
<1>3. ASSUME NEW w \in Workers, NodeDown(w)  PROVE KeptInv'
  BY <1>0, <1>3, KeptQuiet DEF NodeDown, Settled, TypeOK
<1>4. ASSUME NEW p \in Procs, NEW t \in Tests, BeginCall(p, t)  PROVE KeptInv'
  BY <1>4, KeptQuiet DEF BeginCall, Settled, TypeOK
<1>5. ASSUME NEW p \in Procs, NEW d \in Deltas, EndCall(p, d)  PROVE KeptInv'
  BY <1>5, KeptQuiet DEF EndCall, Settled, TypeOK
<1>6. ASSUME NEW p \in Procs, NEW passed \in BOOLEAN, MakeReport(p, passed)  PROVE KeptInv'
  BY <1>6, KeptQuiet DEF MakeReport, Settled, TypeOK
<1>7. ASSUME NEW p \in Procs, SessionFinish(p)  PROVE KeptInv'
  <2>1. CASE ~update
    BY <1>7, <2>1, KeptQuiet DEF SessionFinish, Settled, TypeOK
  <2>2. CASE update
    <3>1. /\ phase[p] = "run" /\ phase' = [phase EXCEPT ![p] = "save"]
          /\ temp' = [temp EXCEPT ![p] = Target(p)] /\ UNCHANGED <<file, loaded, measured, start>>
      BY <1>7, <2>2 DEF SessionFinish
    <3>2. \A q \in Procs : Settled(q) => Settled(q)' /\ measured'[q] = measured[q]
      BY <3>1 DEF Settled, TypeOK
    <3>3. \A t \in Tests : Known(t) \subseteq Known(t)'
      BY <3>1, <3>2, KnownStays
    <3>4. Settled(p)'
      BY <3>1 DEF Settled, TypeOK
    <3>5. /\ Target(p).ok
          /\ \A t \in Tests : Target(p).tests[t] = IF measured[p][t] # NoEntry THEN measured[p][t]
                                                   ELSE loaded[p].tests[t]
      <4>1. loaded[p] \in Contents /\ measured[p] \in Entries
        BY DEF TypeOK
      <4>2. Overlay(loaded[p].tests, measured[p]) \in Entries
        BY <4>1, OverlayType DEF Contents
      <4>3. Target(p).ok = loaded[p].ok /\ Target(p).tests = Overlay(loaded[p].tests, measured[p])
        BY <4>1, <4>2, ReplaceTests DEF Target
      <4> QED BY <3>1, <4>3 DEF Overlay, KeptInv
    <3>6. \A t \in Tests : loaded[p].tests[t] \in Known(t)
      BY <3>1 DEF KeptInv, AllKnown
    <3>7. \A q \in Procs \ {p} : phase'[q] = phase[q] /\ temp'[q] = temp[q] /\ temp'[p] = Target(p)
      BY <3>1 DEF TypeOK
    <3>8. \A q \in Procs \ {p} : phase'[q] = "save" => temp'[q].ok /\ AllKnown(temp[q])'
      BY <3>3, <3>7 DEF KeptInv, AllKnown
    <3>9. temp'[p].ok /\ AllKnown(temp[p])'
      <4>0. temp'[p] = Target(p)
        BY <3>1 DEF TypeOK
      <4>1. \A t \in Tests : measured[p][t] # NoEntry => temp'[p].tests[t] \in Known(t)'
        BY <3>1, <3>4, <3>5, <4>0 DEF Known
      <4>2. \A t \in Tests : measured[p][t] = NoEntry => temp'[p].tests[t] \in Known(t)'
        BY <3>3, <3>5, <3>6, <4>0 DEF Known
      <4> QED BY <3>5, <4>0, <4>1, <4>2 DEF AllKnown
    <3>10. file' = start' \/ (file'.ok /\ AllKnown(file)')
      <4>1. \A t \in Tests : file # start => file'.tests[t] \in Known(t)'
        BY <3>1, <3>3 DEF KeptInv, AllKnown
      <4> QED BY <3>1, <4>1 DEF KeptInv, AllKnown
    <3>11. \A q \in Procs : phase'[q] # "new" => loaded'[q].ok /\ AllKnown(loaded[q])'
      <4>1. \A q \in Procs : phase'[q] # "new" => phase[q] # "new"
        BY <3>1 DEF TypeOK
      <4>2. \A q \in Procs, t \in Tests : phase'[q] # "new" => loaded'[q].tests[t] \in Known(t)'
        BY <3>1, <3>3, <4>1 DEF KeptInv, AllKnown
      <4> QED BY <3>1, <4>1, <4>2 DEF KeptInv, AllKnown
    <3> QED BY <3>8, <3>9, <3>10, <3>11 DEF KeptInv
  <2> QED BY <2>1, <2>2
<1>8. ASSUME NEW p \in Procs, Replace(p)  PROVE KeptInv'
  <2>1. /\ phase[p] = "save" /\ phase' = [phase EXCEPT ![p] = "saved"]
        /\ file' = temp[p] /\ UNCHANGED <<loaded, measured, start>>
        /\ \A q \in Procs \ {p} : temp'[q] = temp[q]
    BY <1>8 DEF Replace, Moved, TypeOK
  <2>2. \A t \in Tests : Known(t) \subseteq Known(t)'
    <3>1. \A q \in Procs : Settled(q) => Settled(q)' /\ measured'[q] = measured[q]
      BY <2>1 DEF Settled, TypeOK
    <3> QED BY <2>1, <3>1, KnownStays
  <2>3. file'.ok /\ AllKnown(file)'
    <3>1. \A t \in Tests : file'.tests[t] \in Known(t)'
      BY <2>1, <2>2 DEF KeptInv, AllKnown
    <3> QED BY <2>1, <3>1 DEF KeptInv, AllKnown
  <2>4. \A q \in Procs : phase'[q] = "save" => q # p /\ phase[q] = "save"
    BY <2>1 DEF TypeOK
  <2>5. \A q \in Procs : phase'[q] = "save" => temp'[q].ok /\ AllKnown(temp[q])'
    <3>1. \A q \in Procs, t \in Tests : phase'[q] = "save" => temp'[q].tests[t] \in Known(t)'
      BY <2>1, <2>2, <2>4 DEF KeptInv, AllKnown
    <3> QED BY <2>1, <2>4, <3>1 DEF KeptInv, AllKnown
  <2>6. \A q \in Procs : phase'[q] # "new" => phase[q] # "new"
    BY <2>1 DEF TypeOK
  <2>7. \A q \in Procs : phase'[q] # "new" => loaded'[q].ok /\ AllKnown(loaded[q])'
    <3>1. \A q \in Procs, t \in Tests : phase'[q] # "new" => loaded'[q].tests[t] \in Known(t)'
      BY <2>1, <2>2, <2>6 DEF KeptInv, AllKnown
    <3> QED BY <2>1, <2>6, <3>1 DEF KeptInv, AllKnown
  <2> QED BY <2>3, <2>5, <2>7 DEF KeptInv
<1>9. ASSUME NEW p \in Procs, EndSession(p)  PROVE KeptInv'
  BY <1>9, KeptQuiet DEF EndSession, Settled, TypeOK
<1>10. ASSUME NEW p \in Procs, Crash(p)  PROVE KeptInv'
  BY <1>10, KeptQuiet DEF Crash, Live, Settled, TypeOK
<1>11. CASE UNCHANGED vars
  BY <1>11, KeptQuiet DEF vars, Settled
<1>12. ASSUME NEW p \in Procs, CallRaises(p)  PROVE KeptInv'
  BY <1>12, KeptQuiet DEF CallRaises, Settled, TypeOK
<1> QED BY <1>1, <1>2, <1>3, <1>4, <1>5, <1>6, <1>7, <1>8, <1>9, <1>10, <1>11, <1>12 DEF Next, Step

\* What is known was in the file at the start or is in some process's results.
LEMMA KeptEntries == TypeOK /\ KeptInv => EntriesKept
BY DEF TypeOK, KeptInv, AllKnown, Known, EntriesKept, Accountable

-----------------------------------------------------------------------------
(* The gate: what a call is compared with. *)

\* A test gets into the hands of a process from those not begun, or from
\* the process that ran it before.
LEMMA RunsStep ==
  ASSUME TypeOK, OwnInv, [Next]_vars
  PROVE  /\ todo' \subseteq todo /\ start' = start
         /\ \A q \in Procs, o \in Tests : Runs(q, o)' => Runs(q, o) \/ o \in todo
<1> USE DEF Becomes, results, config
<1>0. Workers \subseteq Procs
  BY DEF Procs
<1>1. ASSUME UNCHANGED <<ran, running, todo, start>>
      PROVE  /\ todo' \subseteq todo /\ start' = start
             /\ \A q \in Procs, o \in Tests : Runs(q, o)' => Runs(q, o) \/ o \in todo
  BY <1>1 DEF Runs, Begun, Last
<1>2. ASSUME NEW p \in Procs, UNCHANGED <<ran, todo, start>>, running' = [running EXCEPT ![p] = NoTest]
      PROVE  /\ todo' \subseteq todo /\ start' = start
             /\ \A q \in Procs, o \in Tests : Runs(q, o)' => Runs(q, o) \/ o \in todo
  BY <1>2, SessionAssumption DEF Runs, Begun, Last, TypeOK
<1>3. ASSUME NEW p \in Procs, NEW t \in Tests, BeginCall(p, t)
      PROVE  /\ todo' \subseteq todo /\ start' = start
             /\ \A q \in Procs, o \in Tests : Runs(q, o)' => Runs(q, o) \/ o \in todo
  <2>1. t \in todo \/ Runs(p, t)
    BY <1>3 DEF BeginCall, Runs, Begun, Last
  <2>2. running' = [running EXCEPT ![p] = t] /\ todo' = todo \ {t} /\ UNCHANGED <<ran, start>>
    BY <1>3 DEF BeginCall
  <2>3. \A q \in Procs, o \in Tests : Runs(q, o)' => Runs(q, o) \/ (q = p /\ o = t)
    BY <2>2 DEF Runs, Begun, Last, TypeOK
  <2> QED BY <2>1, <2>2, <2>3
<1>4. ASSUME NEW p \in Procs, NEW d \in Deltas, NEW t \in Tests, t = running[p], EndCall(p, d)
      PROVE  /\ todo' \subseteq todo /\ start' = start
             /\ \A q \in Procs, o \in Tests : Runs(q, o)' => Runs(q, o) \/ o \in todo
  <2>1. ran' = [ran EXCEPT ![t] = Append(@, [by |-> p, delta |-> d])] /\ UNCHANGED <<running, todo, start>>
    BY <1>4 DEF EndCall
  <2>2. /\ Last(t)' = [by |-> p, delta |-> d]
        /\ \A o \in Tests \ {t} : (Begun(o)' <=> Begun(o)) /\ Last(o)' = Last(o)
    BY <2>1, LastAppended
  <2>3. Runs(p, t)
    BY <1>4 DEF Runs
  <2>4. \A q \in Procs : Runs(q, t)' => Runs(q, t)
    BY <2>1, <2>2, <2>3 DEF Runs
  <2>5. \A q \in Procs, o \in Tests \ {t} : Runs(q, o)' => Runs(q, o)
    BY <2>1, <2>2 DEF Runs
  <2> QED BY <2>1, <2>4, <2>5
<1> QED
  <2>1. CASE Interrupt
    BY <1>1, <2>1 DEF Interrupt
  <2>2. ASSUME NEW w \in Workers, Configure(w) \/ NodeDown(w)
        PROVE  UNCHANGED <<ran, running, todo, start>>
    BY <2>2 DEF Configure, NodeDown
  <2>3. ASSUME NEW p \in Procs, SessionFinish(p) \/ Replace(p) \/ EndSession(p)
        PROVE  UNCHANGED <<ran, running, todo, start>>
    BY <2>3 DEF SessionFinish, Replace, EndSession
  <2>4. ASSUME NEW p \in Procs, (\E passed \in BOOLEAN : MakeReport(p, passed)) \/ CallRaises(p) \/ Crash(p)
        PROVE  UNCHANGED <<ran, todo, start>> /\ running' = [running EXCEPT ![p] = NoTest]
    BY <2>4 DEF MakeReport, CallRaises, Crash
  <2>5. ASSUME NEW p \in Procs, NEW d \in Deltas, EndCall(p, d)  PROVE running[p] \in Tests
    BY <2>5 DEF EndCall, TypeOK
  <2>6. CASE UNCHANGED vars
    BY <1>1, <2>6 DEF vars
  <2> QED BY <1>1, <1>2, <1>3, <1>4, <2>1, <2>2, <2>3, <2>4, <2>5, <2>6 DEF Next, Step

\* Steps that touch neither the file nor what was loaded from it.
LEMMA GateQuiet ==
  ASSUME GateInv, UNCHANGED <<file, temp, loaded, start>>, todo' \subseteq todo,
         \A q \in Procs, o \in Tests : Runs(q, o)' => Runs(q, o) \/ o \in todo,
         \A q \in Procs : /\ phase'[q] = "save" => phase[q] = "save"
                          /\ phase'[q] # "new" => phase[q] # "new"
  PROVE  GateInv'
<1>1. Load(file)' = Load(file) /\ Load(start)' = Load(start)
  BY DEF Load
<1> QED BY <1>1 DEF GateInv

\* What the controller has loaded is the file of the start.
LEMMA GateInit == Init => GateInv
<1> SUFFICES ASSUME Init  PROVE GateInv
  OBVIOUS
<1>1. file = start /\ \A p \in Procs : phase[p] # "save" /\ (phase[p] # "new" => loaded[p] = Load(start))
  BY DEF Init
<1> QED BY <1>1 DEF GateInv

\* What p writes keeps the platform of the start, and its entries for the
\* tests nobody has begun.
LEMMA GateTarget ==
  ASSUME TypeOK, OwnInv, GateInv, NEW p \in Procs, phase[p] # "new"
  PROVE  /\ Target(p).platform = Load(start).platform
         /\ \A t \in todo : Target(p).tests[t] = Load(start).tests[t]
<1>1. loaded[p] \in Contents /\ measured[p] \in Entries /\ todo \subseteq Tests
  BY DEF TypeOK
<1>2. Overlay(loaded[p].tests, measured[p]) \in Entries
  BY <1>1, OverlayType DEF Contents
<1>3. Target(p).platform = loaded[p].platform /\ Target(p).tests = Overlay(loaded[p].tests, measured[p])
  BY <1>1, <1>2, ReplaceTests DEF Target
<1>4. \A t \in todo : measured[p][t] = NoEntry
  <2> SUFFICES ASSUME NEW t \in todo, measured[p][t] # NoEntry  PROVE FALSE
    OBVIOUS
  <2>1. t \in Tests /\ Begun(t)
    BY <1>1 DEF OwnInv
  <2>2. Last(t).by \in Procs /\ Runs(Last(t).by, t)
    BY <2>1, LastType DEF Runs
  <2> QED BY <2>1, <2>2 DEF OwnInv
<1> QED BY <1>1, <1>3, <1>4 DEF Overlay, GateInv

\* One step per action: a save changes no entry of a test still to begin.
LEMMA GateNext == TypeOK /\ OwnInv /\ KeptInv /\ GateInv /\ [Next]_vars => GateInv'
<1> SUFFICES ASSUME TypeOK, OwnInv, KeptInv, GateInv, [Next]_vars  PROVE GateInv'
  OBVIOUS
<1> USE DEF Becomes, results, config
<1>0. Workers \subseteq Procs /\ Controller \in Procs
  BY DEF Procs
<1>a. /\ todo' \subseteq todo /\ start' = start /\ todo \subseteq Tests
      /\ \A q \in Procs, o \in Tests : Runs(q, o)' => Runs(q, o) \/ o \in todo
  BY RunsStep DEF TypeOK
<1>b. Load(start)' = Load(start)
  BY <1>a DEF Load
<1>1. CASE Interrupt
  BY <1>a, <1>1, GateQuiet DEF Interrupt
<1>2. ASSUME NEW w \in Workers, Configure(w)  PROVE GateInv'
  <2>1. /\ phase[w] = "new" /\ phase' = [phase EXCEPT ![w] = "run"]
        /\ loaded' = [loaded EXCEPT ![w] = Load(file)] /\ UNCHANGED <<file, temp, ran, running, todo>>
    BY <1>2 DEF Configure
  <2>2. Load(file)' = Load(file)
    BY <2>1 DEF Load
  <2>3. \A t \in Tests : ~Runs(w, t)
    BY <1>0, <2>1 DEF OwnInv
  <2>4. \A t \in Tests, q \in Procs : Runs(q, t)' <=> Runs(q, t)
    BY <2>1 DEF Runs, Begun, Last
  <2>5. /\ phase'[w] = "run" /\ loaded'[w] = Load(file)
        /\ \A q \in Procs \ {w} : phase'[q] = phase[q] /\ loaded'[q] = loaded[q]
    BY <1>0, <2>1 DEF TypeOK
  <2>6. \A q \in Procs : phase'[q] # "new" =>
          /\ loaded'[q].platform = Load(start).platform
          /\ \A t \in Tests : t \in todo \/ Runs(q, t) => loaded'[q].tests[t] = Load(start).tests[t]
    BY <2>3, <2>5 DEF GateInv
  <2>7. \A q \in Procs : phase'[q] = "save" => phase[q] = "save"
    BY <2>5
  <2> QED BY <1>a, <1>b, <2>1, <2>2, <2>4, <2>6, <2>7 DEF GateInv
<1>3. ASSUME NEW w \in Workers, NodeDown(w)  PROVE GateInv'
  BY <1>0, <1>a, <1>3, GateQuiet DEF NodeDown, TypeOK
<1>4. ASSUME NEW p \in Procs, NEW t \in Tests, BeginCall(p, t)  PROVE GateInv'
  BY <1>a, <1>4, GateQuiet DEF BeginCall, TypeOK
<1>5. ASSUME NEW p \in Procs, NEW d \in Deltas, EndCall(p, d)  PROVE GateInv'
  BY <1>a, <1>5, GateQuiet DEF EndCall, TypeOK
<1>6. ASSUME NEW p \in Procs, NEW passed \in BOOLEAN, MakeReport(p, passed)  PROVE GateInv'
  BY <1>a, <1>6, GateQuiet DEF MakeReport, TypeOK
<1>7. ASSUME NEW p \in Procs, SessionFinish(p)  PROVE GateInv'
  <2>1. CASE ~update
    BY <1>a, <1>7, <2>1, GateQuiet DEF SessionFinish, TypeOK
  <2>2. CASE update
    <3>1. /\ phase[p] = "run" /\ phase' = [phase EXCEPT ![p] = "save"]
          /\ temp' = [temp EXCEPT ![p] = Target(p)] /\ UNCHANGED <<file, loaded, todo>>
      BY <1>7, <2>2 DEF SessionFinish
    <3>2. /\ temp'[p] = Target(p) /\ \A q \in Procs \ {p} : temp'[q] = temp[q] /\ phase'[q] = phase[q]
      BY <3>1 DEF TypeOK
    <3>3. \A q \in Procs : phase'[q] = "save" =>
             /\ temp'[q].platform = Load(start).platform
             /\ \A t \in todo : temp'[q].tests[t] = Load(start).tests[t]
      BY <3>1, <3>2, GateTarget DEF GateInv
    <3>4. Load(file)' = Load(file)
      BY <3>1 DEF Load
    <3>5. \A q \in Procs : phase'[q] # "new" => phase[q] # "new"
      BY <3>1, <3>2
    <3> QED BY <1>a, <1>b, <3>1, <3>3, <3>4, <3>5 DEF GateInv
  <2> QED BY <2>1, <2>2
<1>8. ASSUME NEW p \in Procs, Replace(p)  PROVE GateInv'
  <2>1. /\ phase[p] = "save" /\ phase' = [phase EXCEPT ![p] = "saved"]
        /\ file' = temp[p] /\ UNCHANGED <<loaded, todo>>
        /\ \A q \in Procs \ {p} : temp'[q] = temp[q]
    BY <1>8 DEF Replace, Moved, TypeOK
  <2>2. Load(file)' = temp[p]
    BY <2>1 DEF KeptInv, Load
  <2>3. \A q \in Procs : /\ phase'[q] = "save" => q # p /\ phase[q] = "save"
                         /\ phase'[q] # "new" => phase[q] # "new"
    BY <2>1 DEF TypeOK
  <2>4. \A q \in Procs : phase'[q] = "save" =>
           /\ temp'[q].platform = Load(start).platform
           /\ \A t \in todo : temp'[q].tests[t] = Load(start).tests[t]
    BY <2>1, <2>3 DEF GateInv
  <2>5. \A q \in Procs : phase'[q] # "new" =>
          /\ loaded'[q].platform = Load(start).platform
          /\ \A t \in Tests : t \in todo \/ Runs(q, t) => loaded'[q].tests[t] = Load(start).tests[t]
    BY <2>1, <2>3 DEF GateInv
  <2>6. Load(file)'.platform = Load(start).platform /\ \A t \in todo : Load(file)'.tests[t] = Load(start).tests[t]
    BY <2>1, <2>2 DEF GateInv
  <2> QED BY <1>a, <1>b, <2>1, <2>4, <2>5, <2>6 DEF GateInv
<1>9. ASSUME NEW p \in Procs, EndSession(p)  PROVE GateInv'
  BY <1>a, <1>9, GateQuiet DEF EndSession, TypeOK
<1>10. ASSUME NEW p \in Procs, Crash(p)  PROVE GateInv'
  BY <1>a, <1>10, GateQuiet DEF Crash, Live, TypeOK
<1>11. CASE UNCHANGED vars
  BY <1>a, <1>11, GateQuiet DEF vars
<1>12. ASSUME NEW p \in Procs, CallRaises(p)  PROVE GateInv'
  BY <1>a, <1>12, GateQuiet DEF CallRaises, TypeOK
<1> QED BY <1>1, <1>2, <1>3, <1>4, <1>5, <1>6, <1>7, <1>8, <1>9, <1>10, <1>11, <1>12 DEF Next, Step

\* A call has violations exactly when it is due to fail, if it is compared
\* with the test's entry of the start.
LEMMA Verdict ==
  ASSUME NEW t \in Gated, NEW d, NEW data, NEW vs \in Violations(data, t, d),
         data.tests[t] = Load(start).tests[t], data.platform = Load(start).platform
  PROVE  vs # {} <=> Due(t, d)
<1>1. LimitCheck(t, d) # {} <=> d.peak > MaxPeak[t]
  BY DEF LimitCheck
<1>2. CASE Load(start).tests[t] # NoEntry
  <2>1. FoundIn(data, t) = {Load(start).tests[t]}
    BY <1>2 DEF FoundIn
  <2>2. CASE Compatible(data)
    <3>1. vs = LimitCheck(t, d) \cup CompareEntry(Load(start).tests[t], d)
      BY <2>1, <2>2 DEF Violations
    <3> QED BY <1>1, <1>2, <2>2, <3>1 DEF Due, Compatible
  <2>3. CASE ~Compatible(data)
    <3>1. vs = LimitCheck(t, d)
      BY <2>3 DEF Violations
    <3> QED BY <1>1, <2>3, <3>1 DEF Due, Compatible
  <2> QED BY <2>2, <2>3
<1>3. CASE Load(start).tests[t] = NoEntry
  <2>1. FoundIn(data, t) = {}
    BY <1>3 DEF FoundIn, Gated
  <2>2. vs = LimitCheck(t, d)
    BY <2>1 DEF Violations
  <2> QED BY <1>1, <1>3, <2>2 DEF Due
<1> QED BY <1>2, <1>3

-----------------------------------------------------------------------------
(* Verdicts. *)

\* No test has violations or a report.
LEMMA StashInit == Init => StashInv
<1> SUFFICES ASSUME Init  PROVE StashInv
  OBVIOUS
<1>1. \A t \in Tests : stash[t] = {} /\ report[t] = "none"
  BY DEF Init
<1>2. \A p \in Procs : phase[p] # "report"
  BY DEF Init
<1> QED BY <1>1, <1>2 DEF StashInv, Gated

\* Steps that end no call and report none: items keep their violations,
\* results keep their tests.
LEMMA StashQuiet ==
  ASSUME TypeOK, OwnInv, StashInv, UNCHANGED <<ran, stash, start>>,
         \A o \in Tests : report'[o] = report[o] \/ report'[o] \in {"none", "failed"},
         \A q \in Procs : failing[q] \subseteq failing'[q],
         \A q \in Procs : phase'[q] = "report" => phase[q] = "report" /\ running'[q] = running[q]
  PROVE  StashInv'
<1>1. \A o \in Tests : (Begun(o)' <=> Begun(o)) /\ Last(o)' = Last(o)
  BY DEF Begun, Last
<1>2. Gated' = Gated /\ \A t \in Tests : \A d : Due(t, d)' <=> Due(t, d)
  BY DEF Gated, Due, Load, CompareEntry
<1>3. \A t \in Tests : Begun(t) => Last(t).by \in Procs
  BY LastType
<1>4. \A t \in Tests : /\ report'[t] = "gated" => stash'[t] # {}
                       /\ stash'[t] # {} => Begun(t)' /\ t \in failing'[Last(t)'.by]
  BY <1>1, <1>3 DEF StashInv
<1>5. \A t \in Gated : stash'[t] # {} => \E i \in DOMAIN ran'[t] : Due(t, ran'[t][i].delta)
  BY DEF StashInv
<1>6. \A p \in Procs : phase'[p] = "report" /\ running'[p] \in Gated =>
         /\ Begun(running[p])
         /\ Due(running[p], Last(running[p]).delta) => stash[running[p]] # {}
  BY DEF StashInv
<1>7. \A t \in Gated : report'[t] = "passed" => ~Due(t, Last(t).delta)
  BY DEF StashInv, Gated
<1>8. Gated \subseteq Tests
  BY DEF Gated
<1>9. \A t \in Gated : stash'[t] # {} => \E i \in DOMAIN ran'[t] : Due(t, ran[t][i].delta)'
  BY <1>5 DEF Due, Load
<1>10. \A p \in Procs : phase'[p] = "report" /\ running'[p] \in Gated =>
         /\ Begun(running[p])'
         /\ Due(running[p], Last(running[p]).delta)' => stash'[running'[p]] # {}
  BY <1>6 DEF Due, Load, Begun, Last
<1>11. \A t \in Gated : report'[t] = "passed" => ~Due(t, Last(t).delta)'
  BY <1>7 DEF Due, Load, Last
<1> QED BY <1>2, <1>4, <1>9, <1>10, <1>11 DEF StashInv

\* A call that ends: its violations are those it is due.
LEMMA StashEnd ==
  ASSUME TypeOK, OwnInv, GateInv, StashInv, NEW p \in Procs, NEW d \in Deltas, EndCall(p, d),
         NEW t \in Tests, t = running[p]
  PROVE  StashInv'
<1> DEFINE c == [by |-> p, delta |-> d]
<1>1. PICK vs \in Violations(loaded[p], t, d) :
         /\ stash' = [stash EXCEPT ![t] = IF vs # {} THEN vs ELSE @]
         /\ failing' = [failing EXCEPT ![p] = IF vs # {} THEN @ \cup {t} ELSE @]
  BY DEF EndCall
<1>2. /\ phase[p] = "body" /\ phase' = [phase EXCEPT ![p] = "report"]
      /\ ran' = [ran EXCEPT ![t] = Append(@, c)] /\ UNCHANGED <<running, report, start>>
  BY DEF EndCall, Becomes, config
<1>3. Begun(t)' /\ Last(t)' = c /\ \A o \in Tests \ {t} : (Begun(o)' <=> Begun(o)) /\ Last(o)' = Last(o)
  BY <1>2, LastAppended
<1> HIDE DEF c
<1>4. c.by = p /\ c.delta = d
  BY DEF c
<1>5. /\ stash'[t] = (IF vs # {} THEN vs ELSE stash[t])
      /\ failing'[p] = (IF vs # {} THEN failing[p] \cup {t} ELSE failing[p])
      /\ \A o \in Tests \ {t} : stash'[o] = stash[o]
      /\ \A q \in Procs \ {p} : failing'[q] = failing[q]
  BY <1>1 DEF TypeOK
<1>6. \A o \in Tests : Begun(o) => Last(o).by \in Procs /\ Runs(Last(o).by, o)
  BY LastType DEF Runs
<1>7. Begun(t) => Last(t).by = p
  BY <1>6 DEF OwnInv, Runs
<1>8. \A q \in Procs \ {p} : running[q] # t
  BY DEF OwnInv, Runs
<1>9. t \in Gated => (vs # {} <=> Due(t, d))
  <2>1. phase[p] # "new" /\ Runs(p, t)
    BY <1>2 DEF Runs
  <2>2. loaded[p].platform = Load(start).platform /\ loaded[p].tests[t] = Load(start).tests[t]
    BY <2>1 DEF GateInv
  <2> QED BY <2>2, Verdict
<1>10. \A o \in Tests : report'[o] = "gated" => stash'[o] # {}
  BY <1>2, <1>5 DEF StashInv
<1>11. \A o \in Tests : stash'[o] # {} => Begun(o)' /\ o \in failing'[Last(o)'.by]
  <2>1. stash'[t] # {} => t \in failing'[p]
    BY <1>5, <1>7 DEF StashInv
  <2>2. \A o \in Tests \ {t} : stash'[o] # {} => Begun(o) /\ o \in failing'[Last(o).by]
    BY <1>5, <1>6 DEF StashInv
  <2>3. stash'[t] # {} => Begun(t)' /\ t \in failing'[Last(t)'.by]
    BY <1>3, <1>4, <2>1
  <2>4. \A o \in Tests \ {t} : stash'[o] # {} => Begun(o)' /\ o \in failing'[Last(o)'.by]
    BY <1>3, <2>2
  <2> QED BY <2>3, <2>4
<1>12. \A o \in Gated : stash'[o] # {} => \E i \in DOMAIN ran'[o] : Due(o, ran'[o][i].delta)
  <2>1. ASSUME t \in Gated, stash'[t] # {}  PROVE \E i \in DOMAIN ran'[t] : Due(t, ran'[t][i].delta)
    <3>1. ran[t] \in Seq([by : Procs, delta : Deltas]) /\ ran'[t] = Append(ran[t], c)
      BY <1>2 DEF TypeOK
    <3>2. CASE vs # {}
      <4>1. Len(ran[t]) + 1 \in DOMAIN ran'[t] /\ ran'[t][Len(ran[t]) + 1] = c
        BY <3>1
      <4> QED BY <1>4, <1>9, <2>1, <3>2, <4>1
    <3>3. CASE vs = {}
      <4>1. PICK i \in DOMAIN ran[t] : Due(t, ran[t][i].delta)
        BY <1>5, <2>1, <3>3 DEF StashInv
      <4>2. i \in DOMAIN ran'[t] /\ ran'[t][i] = ran[t][i]
        BY <3>1, <4>1
      <4> QED BY <4>1, <4>2
    <3> QED BY <3>2, <3>3
  <2>2. \A o \in Gated \ {t} : stash'[o] = stash[o] /\ ran'[o] = ran[o]
    BY <1>2, <1>5 DEF Gated, TypeOK
  <2>3. \A o \in Gated \ {t} : stash'[o] # {} => \E i \in DOMAIN ran'[o] : Due(o, ran'[o][i].delta)
    BY <2>2 DEF StashInv
  <2> QED BY <2>1, <2>3
<1>13. ASSUME NEW q \in Procs, phase'[q] = "report", NEW r \in Gated, r = running'[q]
       PROVE  Begun(r)' /\ (Due(r, Last(r)'.delta) => stash'[r] # {})
  <2>1. CASE q = p
    BY <1>2, <1>3, <1>4, <1>5, <1>9, <1>13, <2>1
  <2>2. CASE q # p
    <3>1. phase[q] = "report" /\ running[q] = r /\ r # t /\ r \in Tests
      BY <1>2, <1>8, <1>13, <2>2 DEF TypeOK, Gated
    <3>2. Begun(r) /\ (Due(r, Last(r).delta) => stash[r] # {})
      BY <1>13, <3>1 DEF StashInv
    <3> QED BY <1>3, <1>5, <3>1, <3>2
  <2> QED BY <2>1, <2>2
<1>14. \A o \in Gated : report'[o] = "passed" => ~Due(o, Last(o)'.delta)
  <2>1. report[t] = "none"
    BY DEF OwnInv
  <2> QED BY <1>2, <1>3, <2>1 DEF StashInv, Gated
<1>15. Gated' = Gated
  BY <1>2 DEF Gated, Load
<1>16. \A o \in Gated : stash'[o] # {} => \E i \in DOMAIN ran'[o] : Due(o, ran[o][i].delta)'
  BY <1>2, <1>12 DEF Due, Load
<1>17. \A o \in Gated : report'[o] = "passed" => ~Due(o, Last(o).delta)'
  BY <1>2, <1>14 DEF Due, Load
<1>18. \A q \in Procs : phase'[q] = "report" /\ running'[q] \in Gated =>
          /\ Begun(running[q])'
          /\ Due(running[q], Last(running[q]).delta)' => stash'[running'[q]] # {}
  <2> SUFFICES ASSUME NEW q \in Procs, phase'[q] = "report", running'[q] \in Gated
               PROVE  /\ Begun(running[q])'
                      /\ Due(running[q], Last(running[q]).delta)' => stash'[running'[q]] # {}
    OBVIOUS
  <2>1. PICK r \in Gated : r = running'[q]
    OBVIOUS
  <2>2. Begun(r)' /\ (Due(r, Last(r)'.delta) => stash'[r] # {})
    BY <1>13, <2>1
  <2> QED BY <1>2, <2>1, <2>2 DEF Due, Load, Begun, Last
<1> QED BY <1>10, <1>11, <1>15, <1>16, <1>17, <1>18 DEF StashInv

\* A report that passes is of a call that was not due to fail.
LEMMA StashReport ==
  ASSUME TypeOK, OwnInv, StashInv, NEW p \in Procs, NEW passed \in BOOLEAN, MakeReport(p, passed),
         NEW t \in Tests, t = running[p]
  PROVE  StashInv'
<1>1. /\ phase[p] = "report" /\ phase' = [phase EXCEPT ![p] = "run"]
      /\ running' = [running EXCEPT ![p] = NoTest]
      /\ report' = [report EXCEPT ![t] = IF ~passed THEN "failed"
                                         ELSE IF stash[t] # {} THEN "gated" ELSE "passed"]
      /\ UNCHANGED <<ran, stash, failing, start>>
  BY DEF MakeReport, Becomes, results, config
<1>2. \A o \in Tests : (Begun(o)' <=> Begun(o)) /\ Last(o)' = Last(o)
  BY <1>1 DEF Begun, Last
<1>3. /\ report'[t] = "gated" => stash[t] # {}
      /\ report'[t] = "passed" => stash[t] = {}
      /\ \A o \in Tests \ {t} : report'[o] = report[o]
  BY <1>1 DEF TypeOK
<1>4. \A o \in Tests : report'[o] = "gated" => stash'[o] # {}
  BY <1>1, <1>3 DEF StashInv
<1>5. \A o \in Tests : stash'[o] # {} => Begun(o)' /\ o \in failing'[Last(o)'.by]
  BY <1>1, <1>2 DEF StashInv
<1>6. Gated' = Gated
  BY <1>1 DEF Gated, Load
<1>7. \A o \in Gated : stash'[o] # {} => \E i \in DOMAIN ran'[o] : Due(o, ran[o][i].delta)'
  BY <1>1 DEF StashInv, Due, Load
<1>8. \A q \in Procs : phase'[q] = "report" => phase[q] = "report" /\ running'[q] = running[q]
  BY <1>1 DEF TypeOK
<1>9. \A q \in Procs : phase'[q] = "report" /\ running'[q] \in Gated =>
          /\ Begun(running[q])'
          /\ Due(running[q], Last(running[q]).delta)' => stash'[running'[q]] # {}
  <2>1. \A q \in Procs : phase'[q] = "report" /\ running'[q] \in Gated =>
          /\ Begun(running[q])
          /\ Due(running[q], Last(running[q]).delta) => stash[running[q]] # {}
    BY <1>8 DEF StashInv
  <2> QED BY <1>1, <1>8, <2>1 DEF Due, Load, Begun, Last
<1>10. \A o \in Gated : report'[o] = "passed" => ~Due(o, Last(o).delta)
  <2>1. t \in Gated /\ stash[t] = {} => ~Due(t, Last(t).delta)
    BY <1>1 DEF StashInv
  <2>2. Gated \subseteq Tests
    BY DEF Gated
  <2> QED BY <1>3, <2>1, <2>2 DEF StashInv
<1>11. \A o \in Gated : report'[o] = "passed" => ~Due(o, Last(o).delta)'
  BY <1>1, <1>10 DEF Due, Load, Last
<1> QED BY <1>4, <1>5, <1>6, <1>7, <1>9, <1>11 DEF StashInv

\* One step per action: only calls that end and reports matter.
LEMMA StashNext == TypeOK /\ OwnInv /\ GateInv /\ StashInv /\ [Next]_vars => StashInv'
<1> SUFFICES ASSUME TypeOK, OwnInv, GateInv, StashInv, [Next]_vars  PROVE StashInv'
  OBVIOUS
<1> USE DEF Becomes, results, config
<1>0. Workers \subseteq Procs /\ Controller \in Procs
  BY DEF Procs
<1>1. CASE Interrupt
  BY <1>1, StashQuiet DEF Interrupt
<1>2. ASSUME NEW w \in Workers, Configure(w)  PROVE StashInv'
  BY <1>0, <1>2, StashQuiet DEF Configure, TypeOK
<1>3. ASSUME NEW w \in Workers, NodeDown(w)  PROVE StashInv'
  BY <1>0, <1>3, StashQuiet DEF NodeDown, TypeOK
<1>4. ASSUME NEW p \in Procs, NEW t \in Tests, BeginCall(p, t)  PROVE StashInv'
  BY <1>4, StashQuiet DEF BeginCall, TypeOK
<1>5. ASSUME NEW p \in Procs, NEW d \in Deltas, EndCall(p, d)  PROVE StashInv'
  <2>1. running[p] \in Tests
    BY <1>5 DEF EndCall, TypeOK
  <2> QED BY <1>5, <2>1, StashEnd
<1>6. ASSUME NEW p \in Procs, NEW passed \in BOOLEAN, MakeReport(p, passed)  PROVE StashInv'
  <2>1. running[p] \in Tests
    BY <1>6 DEF MakeReport, TypeOK
  <2> QED BY <1>6, <2>1, StashReport
<1>7. ASSUME NEW p \in Procs, SessionFinish(p)  PROVE StashInv'
  <2>1. UNCHANGED <<ran, stash, start, report, failing, running>>
    BY <1>7 DEF SessionFinish
  <2>2. \E ph \in {"save", "saved"} : phase' = [phase EXCEPT ![p] = ph]
    <3>1. CASE update
      BY <1>7, <3>1 DEF SessionFinish
    <3>2. CASE ~update
      BY <1>7, <3>2 DEF SessionFinish
    <3> QED BY <3>1, <3>2
  <2> QED BY <2>1, <2>2, StashQuiet DEF TypeOK
<1>8. ASSUME NEW p \in Procs, Replace(p)  PROVE StashInv'
  BY <1>8, StashQuiet DEF Replace, TypeOK
<1>9. ASSUME NEW p \in Procs, EndSession(p)  PROVE StashInv'
  BY <1>9, StashQuiet DEF EndSession, TypeOK
<1>10. ASSUME NEW p \in Procs, Crash(p)  PROVE StashInv'
  BY <1>10, StashQuiet DEF Crash, Live, TypeOK
<1>11. CASE UNCHANGED vars
  BY <1>11, StashQuiet DEF vars
<1>12. ASSUME NEW p \in Procs, CallRaises(p)  PROVE StashInv'
  BY <1>12, StashQuiet DEF CallRaises, TypeOK
<1> QED BY <1>1, <1>2, <1>3, <1>4, <1>5, <1>6, <1>7, <1>8, <1>9, <1>10, <1>11, <1>12 DEF Next, Step

\* ... which is what VerdictJustified says of the reports.
LEMMA StashVerdicts == StashInv => VerdictJustified
BY DEF StashInv, VerdictJustified, Gated, Last

-----------------------------------------------------------------------------
(* The controller has the last word. *)

\* Nothing is merged or saved.
LEMMA MergeInit == Init => MergeInv
<1> SUFFICES ASSUME Init  PROVE MergeInv
  OBVIOUS
<1>1. \A p \in Procs : phase[p] \in {"run", "new"}
  BY DEF Init
<1>2. Controller \in Procs /\ Workers \subseteq Procs
  BY DEF Procs
<1> QED BY <1>1, <1>2 DEF MergeInv

\* Steps of no merged worker that leave results, saved or to be saved, alone.
LEMMA MergeQuiet ==
  ASSUME MergeInv, UNCHANGED <<file, measured, failing, update>>, interrupted => interrupted',
         temp'[Controller] = temp[Controller],
         \A w \in Workers : phase'[w] = "merged" => phase[w] = "merged",
         phase'[Controller] \in {"save", "saved", "ended"} /\ ~interrupted' =>
            \A w \in Workers : phase'[w] \in {"new", "merged", "crashed"},
         phase'[Controller] = "save" => phase[Controller] = "save",
         phase'[Controller] \in {"saved", "ended"} => phase[Controller] \in {"saved", "ended"}
  PROVE  MergeInv'
BY DEF MergeInv

\* One step per action: the controller saves after the last merge.
LEMMA MergeNext == TypeOK /\ OwnInv /\ MergeInv /\ [Next]_vars => MergeInv'
<1> SUFFICES ASSUME TypeOK, OwnInv, MergeInv, [Next]_vars  PROVE MergeInv'
  OBVIOUS
<1> USE DEF Becomes, results, config
<1>0. Workers \subseteq Procs /\ Controller \in Procs /\ \A w \in Workers : w # Controller
  BY SessionAssumption DEF Procs
<1>a. \A q \in Procs, o \in Tests : measured[q][o] # NoEntry =>
         Begun(o) /\ Last(o).by \in Procs /\ (q # Controller => Last(o).by = q /\ Runs(q, o))
  BY LastType DEF OwnInv, Runs
<1>1. CASE Interrupt
  BY <1>1, MergeQuiet DEF Interrupt
<1>2. ASSUME NEW w \in Workers, Configure(w)  PROVE MergeInv'
  BY <1>0, <1>2, MergeQuiet DEF Configure, TypeOK, MergeInv
<1>3. ASSUME NEW w \in Workers, NodeDown(w)  PROVE MergeInv'
  <2>1. /\ phase[w] = "ended" /\ phase[Controller] = "run" /\ phase' = [phase EXCEPT ![w] = "merged"]
        /\ measured' = [measured EXCEPT ![Controller] = Overlay(measured[Controller], measured[w])]
        /\ failing' = [failing EXCEPT ![Controller] = @ \cup failing[w]]
    BY <1>3 DEF NodeDown
  <2>2. phase'[Controller] = "run" /\ \A v \in Workers : v # w => phase'[v] = phase[v]
    BY <1>0, <2>1 DEF TypeOK
  <2>3. \A o \in Tests : measured'[Controller][o] = IF measured[w][o] # NoEntry THEN measured[w][o]
                                                    ELSE measured[Controller][o]
    BY <1>0, <2>1 DEF Overlay, TypeOK
  <2>4. \A v \in Workers : measured'[v] = measured[v] /\ failing'[v] = failing[v]
    BY <1>0, <2>1 DEF TypeOK
  <2>5. failing'[Controller] = failing[Controller] \cup failing[w]
    BY <1>0, <2>1 DEF TypeOK
  <2>6. ASSUME NEW v \in Workers, phase'[v] = "merged", NEW o \in Tests, measured[v][o] # NoEntry
        PROVE  measured'[Controller][o] = measured[v][o]
    <3>1. measured[w][o] # NoEntry => v = w
      BY <1>0, <1>a, <2>6
    <3>2. measured[w][o] = NoEntry => phase[v] = "merged"
      BY <2>2, <2>6
    <3> QED BY <2>3, <2>6, <3>1, <3>2 DEF MergeInv
  <2>7. \A v \in Workers : phase'[v] = "merged" => failing'[v] \subseteq failing'[Controller]
    BY <2>2, <2>4, <2>5 DEF MergeInv
  <2> QED BY <2>2, <2>4, <2>6, <2>7 DEF MergeInv
<1>4. ASSUME NEW p \in Procs, NEW t \in Tests, BeginCall(p, t)  PROVE MergeInv'
  BY <1>0, <1>4, MergeQuiet DEF BeginCall, TypeOK, MergeInv
<1>5. ASSUME NEW p \in Procs, NEW d \in Deltas, EndCall(p, d)  PROVE MergeInv'
  <2>1. PICK t \in Tests : t = running[p]
    BY <1>5 DEF EndCall, TypeOK
  <2>2. /\ phase[p] = "body" /\ phase' = [phase EXCEPT ![p] = "report"]
        /\ measured' = [measured EXCEPT ![p][t] = d] /\ UNCHANGED <<file, temp, update, interrupted>>
    BY <1>5, <2>1 DEF EndCall
  <2>3. \A q \in Procs : failing[q] \subseteq failing'[q] /\ (q # p => failing'[q] = failing[q])
    <3>1. PICK vs \in Violations(loaded[p], t, d) :
            failing' = [failing EXCEPT ![p] = IF vs # {} THEN @ \cup {t} ELSE @]
      BY <1>5, <2>1 DEF EndCall
    <3> QED BY <3>1 DEF TypeOK
  <2>4. \A q \in Procs, o \in Tests : measured'[q][o] = IF q = p /\ o = t THEN d ELSE measured[q][o]
    BY <2>1, <2>2 DEF TypeOK, Entries
  <2>5. \A q \in Procs : q # p => phase'[q] = phase[q]
    BY <2>2 DEF TypeOK
  <2>6. phase'[p] = "report"
    BY <2>2 DEF TypeOK
  <2>7. \A w \in Workers : phase'[w] = "merged" => w # p /\ phase[w] = "merged"
    BY <2>5, <2>6, <1>0
  <2>8. \A w \in Workers, o \in Tests :
           phase'[w] = "merged" /\ measured'[w][o] # NoEntry => measured'[Controller][o] = measured'[w][o]
    <3> SUFFICES ASSUME NEW w \in Workers, NEW o \in Tests, phase'[w] = "merged", measured'[w][o] # NoEntry
                 PROVE  measured'[Controller][o] = measured'[w][o]
      OBVIOUS
    <3>1. w # p /\ measured[w][o] # NoEntry /\ phase[w] = "merged" /\ measured'[w][o] = measured[w][o]
      BY <1>0, <2>4, <2>7
    <3>2. Runs(w, o)
      BY <1>0, <1>a, <3>1
    <3>3. o # t
      BY <1>0, <2>1, <3>1, <3>2 DEF OwnInv, Runs
    <3> QED BY <1>0, <2>4, <3>1, <3>3 DEF MergeInv
  <2>9. \A w \in Workers : phase'[w] = "merged" => failing'[w] \subseteq failing'[Controller]
    BY <1>0, <2>3, <2>7 DEF MergeInv
  <2>10. phase'[Controller] \in {"save", "saved", "ended"} =>
            /\ p # Controller /\ phase'[Controller] = phase[Controller]
            /\ \A o \in Tests : measured'[Controller][o] = measured[Controller][o]
    BY <1>0, <2>4, <2>5, <2>6
  <2>11. phase'[Controller] \in {"save", "saved", "ended"} /\ ~interrupted' => FALSE
    <3>1. phase[p] = "body"
      BY <2>2
    <3> QED BY <2>2, <2>10, <3>1 DEF MergeInv, Procs
  <2>12. phase'[Controller] = "save" =>
            \A o \in Tests : measured'[Controller][o] # NoEntry => temp'[Controller].tests[o] = measured'[Controller][o]
    BY <2>2, <2>10 DEF MergeInv
  <2> QED BY <2>8, <2>9, <2>11, <2>12 DEF MergeInv
<1>6. ASSUME NEW p \in Procs, NEW passed \in BOOLEAN, MakeReport(p, passed)  PROVE MergeInv'
  BY <1>0, <1>6, MergeQuiet DEF MakeReport, TypeOK, MergeInv
<1>7. ASSUME NEW p \in Procs, SessionFinish(p)  PROVE MergeInv'
  <2>1. CASE p # Controller
    <3>1. PICK ph \in {"save", "saved"} : phase' = [phase EXCEPT ![p] = ph]
      <4>1. CASE update
        BY <1>7, <4>1 DEF SessionFinish
      <4>2. CASE ~update
        BY <1>7, <4>2 DEF SessionFinish
      <4> QED BY <4>1, <4>2
    <3>2. phase[p] = "run" /\ UNCHANGED <<file, measured, failing, update, interrupted>>
      BY <1>7 DEF SessionFinish
    <3>3. temp'[Controller] = temp[Controller]
      <4>1. CASE update
        BY <1>0, <1>7, <2>1, <4>1 DEF SessionFinish, TypeOK
      <4>2. CASE ~update
        BY <1>7, <4>2 DEF SessionFinish
      <4> QED BY <4>1, <4>2
    <3>4. phase'[Controller] = phase[Controller]
      BY <1>0, <2>1, <3>1 DEF TypeOK
    <3>5. \A w \in Workers : phase'[w] = "merged" => phase[w] = "merged"
      BY <1>0, <3>1 DEF TypeOK
    <3>6. phase[Controller] \in {"save", "saved", "ended"} /\ ~interrupted => FALSE
      BY <2>1, <3>2 DEF MergeInv, Procs
    <3> QED BY <3>2, <3>3, <3>4, <3>5, <3>6, MergeQuiet
  <2>2. CASE p = Controller
    <3>1. /\ phase[Controller] = "run" /\ MayFinish(Controller)
          /\ UNCHANGED <<file, measured, failing, update, interrupted>>
      BY <1>7, <2>2 DEF SessionFinish
    <3>2. ~interrupted => \A w \in Workers : phase[w] \in {"new", "merged", "crashed"}
      BY <1>0, <3>1 DEF MayFinish
    <3>3. \A w \in Workers : phase'[w] = phase[w]
      <4>1. CASE update
        BY <1>0, <1>7, <2>2, <4>1 DEF SessionFinish, TypeOK
      <4>2. CASE ~update
        BY <1>0, <1>7, <2>2, <4>2 DEF SessionFinish, TypeOK
      <4> QED BY <4>1, <4>2
    <3>4. CASE update
      <4>1. phase'[Controller] = "save" /\ temp'[Controller] = Target(Controller)
        BY <1>0, <1>7, <2>2, <3>4 DEF SessionFinish, TypeOK
      <4>2. Target(Controller).tests = Overlay(loaded[Controller].tests, measured[Controller])
        <5>1. loaded[Controller] \in Contents /\ measured[Controller] \in Entries
          BY <1>0 DEF TypeOK
        <5>2. Overlay(loaded[Controller].tests, measured[Controller]) \in Entries
          BY <5>1, OverlayType DEF Contents
        <5> QED BY <5>1, <5>2, ReplaceTests DEF Target
      <4>3. \A o \in Tests : measured[Controller][o] # NoEntry => temp'[Controller].tests[o] = measured[Controller][o]
        BY <4>1, <4>2 DEF Overlay
      <4> QED BY <3>1, <3>2, <3>3, <4>1, <4>3 DEF MergeInv
    <3>5. CASE ~update
      <4>1. phase'[Controller] = "saved"
        BY <1>0, <1>7, <2>2, <3>5 DEF SessionFinish, TypeOK
      <4> QED BY <3>1, <3>2, <3>3, <3>5, <4>1 DEF MergeInv
    <3> QED BY <3>4, <3>5
  <2> QED BY <2>1, <2>2
<1>8. ASSUME NEW p \in Procs, Replace(p)  PROVE MergeInv'
  <2>1. /\ phase[p] = "save" /\ phase' = [phase EXCEPT ![p] = "saved"]
        /\ file' = temp[p] /\ UNCHANGED <<measured, failing, update, interrupted>>
        /\ \A q \in Procs \ {p} : temp'[q] = temp[q]
    BY <1>8 DEF Replace, Moved, TypeOK
  <2>2. /\ phase'[p] = "saved" /\ \A q \in Procs \ {p} : phase'[q] = phase[q]
    BY <2>1 DEF TypeOK
  <2>3. \A w \in Workers : phase'[w] = "merged" => phase[w] = "merged"
    BY <1>0, <2>2
  <2>4. CASE p = Controller
    <3>1. \A w \in Workers : phase'[w] = phase[w]
      BY <1>0, <2>2, <2>4
    <3>2. \A o \in Tests : measured[Controller][o] # NoEntry => file'.tests[o] = measured[Controller][o]
      BY <2>1, <2>4 DEF MergeInv
    <3> QED BY <2>1, <2>2, <2>3, <2>4, <3>1, <3>2 DEF MergeInv
  <2>5. CASE p # Controller
    <3>1. phase'[Controller] = phase[Controller] /\ temp'[Controller] = temp[Controller]
      BY <1>0, <2>1, <2>2, <2>5
    <3>2. phase[Controller] \in {"save", "saved", "ended"} /\ ~interrupted => FALSE
      BY <2>1, <2>5 DEF MergeInv, Procs
    <3> QED BY <2>1, <2>3, <3>1, <3>2 DEF MergeInv
  <2> QED BY <2>4, <2>5
<1>9. ASSUME NEW p \in Procs, EndSession(p)  PROVE MergeInv'
  BY <1>0, <1>9, MergeQuiet DEF EndSession, TypeOK, MergeInv
<1>10. ASSUME NEW p \in Procs, Crash(p)  PROVE MergeInv'
  BY <1>0, <1>10, MergeQuiet DEF Crash, Live, TypeOK, MergeInv
<1>11. CASE UNCHANGED vars
  BY <1>11, MergeQuiet DEF vars, MergeInv
<1>12. ASSUME NEW p \in Procs, CallRaises(p)  PROVE MergeInv'
  BY <1>0, <1>12, MergeQuiet DEF CallRaises, TypeOK, MergeInv
<1> QED BY <1>1, <1>2, <1>3, <1>4, <1>5, <1>6, <1>7, <1>8, <1>9, <1>10, <1>11, <1>12 DEF Next, Step

\* The last delta of a test is with the process that ran it, so in the
\* controller's results, so in the file.
LEMMA MergeEnd == TypeOK /\ OwnInv /\ StashInv /\ MergeInv => MergedAtEnd
<1> SUFFICES ASSUME TypeOK, OwnInv, StashInv, MergeInv, phase[Controller] = "ended", ~interrupted,
                    NEW t \in Tests, ran[t] # <<>>, phase[Last(t).by] # "crashed"
             PROVE  /\ update => file.tests[t] = Last(t).delta
                    /\ report[t] = "gated" => t \in failing[Controller]
  BY DEF MergedAtEnd, Last
<1>1. Begun(t) /\ Last(t) \in [by : Procs, delta : Deltas] /\ Runs(Last(t).by, t)
  BY LastType DEF Begun, Runs
<1>2. measured[Last(t).by][t] = Last(t).delta /\ Last(t).delta # NoEntry
  BY <1>1, SessionAssumption DEF OwnInv
<1>3. Last(t).by = Controller \/ (Last(t).by \in Workers /\ phase[Last(t).by] = "merged")
  BY <1>1 DEF OwnInv, MergeInv, Procs
<1>4. measured[Controller][t] = Last(t).delta
  BY <1>2, <1>3 DEF MergeInv
<1>5. report[t] = "gated" => t \in failing[Last(t).by]
  BY DEF StashInv
<1> QED BY <1>2, <1>3, <1>4, <1>5 DEF MergeInv

-----------------------------------------------------------------------------
(* The theorems. *)

\* The types of the session's variables, and temporary files only in a save
\* (save_baseline) or where a process died in one.
THEOREM SessionType == Spec => []TypeOK
BY TypeInit, TypeNext, PTL DEF Spec

\* The strengthened invariant holds.
LEMMA SessionInv == Spec => [](TypeOK /\ OwnInv /\ KeptInv /\ GateInv /\ StashInv /\ MergeInv)
<1>1. Init => TypeOK /\ OwnInv /\ KeptInv /\ GateInv /\ StashInv /\ MergeInv
  BY TypeInit, OwnInit, KeptInit, GateInit, StashInit, MergeInit
<1>2. TypeOK /\ OwnInv /\ KeptInv /\ GateInv /\ StashInv /\ MergeInv /\ [Next]_vars
        => (TypeOK /\ OwnInv /\ KeptInv /\ GateInv /\ StashInv /\ MergeInv)'
  BY TypeNext, OwnNext, KeptNext, GateNext, StashNext, MergeNext
<1> QED BY <1>1, <1>2, PTL DEF Spec

\* The baseline never loses a test's entry, and has none that was not there
\* or measured (save_baseline of any process, in any order, with crashes).
THEOREM BaselineEntriesKept == Spec => []EntriesKept
BY SessionInv, KeptEntries, PTL

\* A test is made to fail when, and only when, it is due by its limit or by
\* the baseline of the start (pytest_runtest_call and _makereport).
THEOREM GateJustified == Spec => []VerdictJustified
BY SessionInv, StashVerdicts, PTL

\* A session that is not interrupted ends with every surviving process's
\* last results in the file and in the summary (pytest_testnodedown).
THEOREM ResultsMerged == Spec => []MergedAtEnd
BY SessionInv, MergeEnd, PTL
=============================================================================
