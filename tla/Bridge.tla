------------------------------- MODULE Bridge -------------------------------
(***************************************************************************)
(* The plugin that ptest puts into a parallel pytest run                   *)
(* (runtime/pytest_bridge.py).  pytest-xdist starts the workers, hands the *)
(* tests out and forwards what they report; one half of the plugin sits in *)
(* every worker and sends a record of what it saw when the worker          *)
(* finishes, the other sits in the controller, counts the reports that     *)
(* arrive, and writes a terminal report only if both agree.  Neither       *)
(* trusts pytest's exit code: hooks of the project may rewrite it.         *)
(*                                                                         *)
(* A counter is the set of what it has counted, so a sum over the workers  *)
(* is the size of a union: no two of them count the same.                  *)
(***************************************************************************)
EXTENDS Integers, Sequences, FiniteSets

CONSTANTS
  Workers,   \* the gateways of the grant
  First,     \* gw0
  Tests,
  Grants,    \* the grants explored: [full, advanced, events]
  None

\* Events: crash, drop, differ, broken, refuse, soften, rewrite, stop, quit, subtest.
SessionMakesSense ==
  /\ First \in Workers /\ IsFiniteSet(Tests)
  /\ \A g \in Grants : g.full \in BOOLEAN /\ g.advanced \in BOOLEAN
  /\ (\A S \in SUBSET Tests : S # None) /\ None \notin {"passed", "failed", "skipped", "error", "unknown"}

VARIABLES
  grant,     \* PTEST_EXECUTION=full, the advanced profile, and what may happen
  worker,    \* the worker halves
  wire,      \* what each worker has sent and the controller has not received
  todo,      \* the tests xdist has not handed out; None while workers collect
  control,   \* the controller's half
  report,    \* the terminal report, or None
  truth      \* what became of each test (never read by the program)

vars == <<grant, worker, wire, todo, control, report, truth>>

Outcomes == {"passed", "failed", "skipped", "error"}
\* A test, or a worker, that nothing is known of.
Untold == [t \in Tests |-> None]
Unheard == [w \in Workers |-> None]

Fresh == [pc |-> "collecting", collected |-> {}, items |-> {}, test |-> None, phase |-> "none",
          seen |-> {}, outcomes |-> Untold, failures |-> {}, errors |-> 0, dropped |-> FALSE,
          refused |-> FALSE]
Init ==
  /\ grant \in Grants
  /\ worker = [w \in Workers |-> Fresh]
  /\ wire = [w \in Workers |-> <<>>]
  /\ todo = None /\ report = None
  /\ control = [collections |-> Unheard, down |-> {}, lost |-> {}, records |-> Unheard,
                reported |-> {}, failures |-> {}, errors |-> 0, refused |-> FALSE,
                inventory |-> Untold, stop |-> FALSE, pc |-> "loop",
                expected |-> {}, observed |-> {}, marker |-> FALSE]
  /\ truth = [t \in Tests |-> "unrun"]

Allows(event) == event \in grant.events
Send(w, m) == wire' = [wire EXCEPT ![w] = Append(@, m)]

----------------------------------------------------------------------------
(* The worker half.                                                         *)

\* Every worker collects; hooks of its project may remove an item after the
\* snapshot of pytest_collection_modifyitems, and a file may not import.
DroppedAfter(snapshot, items) == grant.full /\ snapshot \ items # {}
Announcement(items, broken) ==
  LET collected == [kind |-> "collected", ids |-> items]
  IN  IF broken = 1 THEN <<[kind |-> "error"], collected>> ELSE <<collected>>
Collect(w) ==
  /\ worker[w].pc = "collecting"
  /\ \E lost \in {{}} \union {{t} : t \in Tests}, removed \in {{}} \union {{t} : t \in Tests}, broken \in {0, 1} :
       LET snapshot == Tests \ lost
           items == snapshot \ removed
       IN  /\ (lost # {} => Allows("differ")) /\ (removed # {} => Allows("drop")) /\ (broken = 1 => Allows("broken"))
           /\ worker' = [worker EXCEPT ![w] = [worker[w] EXCEPT !.pc = "ready", !.collected = snapshot, !.items = items,
                           !.errors = broken, !.dropped = DroppedAfter(snapshot, items)]]
           /\ wire' = [wire EXCEPT ![w] = @ \o Announcement(items, broken)]
  /\ UNCHANGED <<grant, todo, control, report, truth>>

\* xdist hands out each test once, when every worker has collected the same.
Protocol(w) ==
  /\ worker[w].pc = "ready" /\ worker[w].phase = "none" /\ todo # None
  /\ \E t \in todo \intersect worker[w].items :
       /\ todo' = todo \ {t}
       /\ worker' = [worker EXCEPT ![w] = [worker[w] EXCEPT !.test = t, !.phase = "setup", !.seen = @ \union {t}]]
       /\ truth' = [truth EXCEPT ![t] = "running"]
  /\ UNCHANGED <<grant, wire, control, report>>

\* _record_worker_outcome: setups that fail or skip, calls, and teardowns that
\* fail; the last one counts.
Counted(phase, o) ==
  \/ phase = "call"
  \/ phase = "setup" /\ o \in {"failed", "skipped"}
  \/ phase = "teardown" /\ o = "failed"
Word(phase, o) == IF phase # "call" /\ o = "failed" THEN "error" ELSE o
Recorded(outcomes, t, phase, o) ==
  IF Counted(phase, o) THEN [outcomes EXCEPT ![t] = Word(phase, o)] ELSE outcomes

\* A hook of the project may turn the failure that is sent into a pass.
Observe(w, phase, o, sub, next) ==
  LET t == worker[w].test IN
  /\ worker' = [worker EXCEPT ![w] = [worker[w] EXCEPT !.phase = next, !.outcomes = Recorded(@, t, phase, o),
                  !.failures = IF o = "failed" THEN @ \union {<<t, phase>>} ELSE @]]
  /\ \E seen \in {o, "passed"} :
       /\ seen # o => Allows("soften") /\ o = "failed"
       /\ Send(w, [kind |-> "report", test |-> t, phase |-> phase, outcome |-> seen, sub |-> sub])
  /\ UNCHANGED <<grant, todo, control, report>>

At(w, phase) == worker[w].pc = "ready" /\ worker[w].phase = phase
Settle(w, o) == truth' = [truth EXCEPT ![worker[w].test] = o]

Setup(w) ==
  /\ At(w, "setup")
  /\ \/ Observe(w, "setup", "passed", FALSE, "call") /\ UNCHANGED truth
     \/ Observe(w, "setup", "failed", FALSE, "teardown") /\ Settle(w, "error")
     \/ Observe(w, "setup", "skipped", FALSE, "teardown") /\ Settle(w, "skipped")
\* A block of subtests reports for its test before the test itself does.
Subtest(w) ==
  /\ Allows("subtest") /\ At(w, "call")
  /\ Observe(w, "call", "passed", TRUE, "last call")
  /\ UNCHANGED truth
Call(w) ==
  /\ At(w, "call") \/ At(w, "last call")
  /\ \E o \in {"passed", "failed", "skipped"} :
       Observe(w, "call", o, FALSE, "teardown") /\ Settle(w, o)
Teardown(w) ==
  /\ At(w, "teardown")
  /\ \/ Observe(w, "teardown", "passed", FALSE, "none") /\ UNCHANGED truth
     \/ Observe(w, "teardown", "failed", FALSE, "none") /\ Settle(w, "error")

\* An execution hook that is not owned by the grant: the session of the worker
\* ends with a usage error.
RefuseItem(w) ==
  /\ Allows("refuse") /\ At(w, "setup")
  /\ worker' = [worker EXCEPT ![w] = [worker[w] EXCEPT !.refused = TRUE, !.phase = "none", !.pc = "leaving"]]
  /\ UNCHANGED <<grant, wire, todo, control, report, truth>>

\* pytest_sessionfinish: the record goes out with the worker's last message.
RecordFrom(half) ==
  [seen |-> half.seen, failures |-> half.failures, errors |-> half.errors, dropped |-> half.dropped,
   refused |-> half.refused, outcomes |-> half.outcomes]
SessionFinish(w) ==
  /\ \/ worker[w].pc = "leaving"
     \/ worker[w].pc = "ready" /\ worker[w].phase = "none" /\ (todo = {} \/ control.stop)
  /\ worker' = [worker EXCEPT ![w].pc = "finished"]
  /\ Send(w, [kind |-> "finished", record |-> RecordFrom(worker[w])])
  /\ UNCHANGED <<grant, todo, control, report, truth>>

\* A worker dies in the middle of a test, or before it has sent its record.
Crash(w) ==
  /\ Allows("crash") /\ worker[w].pc \in {"collecting", "ready", "leaving"}
  /\ worker' = [worker EXCEPT ![w].pc = "dead"]
  /\ IF worker[w].phase = "none" THEN UNCHANGED truth ELSE Settle(w, "failed")
  /\ UNCHANGED <<grant, wire, todo, control, report>>

----------------------------------------------------------------------------
(* The controller.                                                          *)

\* The first collection is what the stall marker expects and, in the advanced
\* profile, the inventory that every later one must match; _refuse ends the
\* run with a usage error.
Collections(w, ids) == [control.collections EXCEPT ![w] = ids]
Expected(ids) == IF control.collections = Unheard THEN ids ELSE control.expected
Differs(ids) == \E w \in Workers : control.collections[w] \notin {None, ids}
Inventory(ids) == [t \in Tests |-> IF grant.advanced /\ t \in ids THEN "unknown" ELSE None]
CollectionFinished(w, ids) ==
  LET heard == [control EXCEPT !.collections = Collections(w, ids), !.expected = Expected(ids)] IN
  control' = IF grant.advanced /\ Differs(ids) THEN [heard EXCEPT !.refused = TRUE, !.stop = TRUE]
             ELSE [heard EXCEPT !.inventory = Inventory(ids)]
\* xdist starts the tests when the last worker has collected, if they agree.
Schedule(w, ids) ==
  todo' = IF todo = None /\ \A v \in Workers : Collections(w, ids)[v] # None
          THEN IF Differs(ids) THEN {} ELSE ids
          ELSE todo

\* Mutant: a block of subtests counts for its test.
FinalWithSubtests(m) ==
  \/ m.phase = "call" /\ m.outcome \in {"passed", "failed", "skipped"}
  \/ m.phase = "setup" /\ m.outcome \in {"failed", "skipped"}
\* _StallArm: one outcome per expected test, from its own call or a setup that
\* prevents it; a teardown that hangs must not keep the marker away.
Final(m) ==
  /\ ~ m.sub
  /\ \/ m.phase = "call" /\ m.outcome \in {"passed", "failed", "skipped"}
     \/ m.phase = "setup" /\ m.outcome \in {"failed", "skipped"}
Armed(observed) == control.marker \/ (control.expected # {} /\ control.expected \subseteq observed)

LogReport(m) ==
  LET observed == control.observed \union (IF Final(m) THEN {m.test} ELSE {})
      seen == [control EXCEPT !.reported = @ \union {m.test},
                 !.failures = IF m.outcome = "failed" THEN @ \union {<<m.test, m.phase>>} ELSE @]
  IN  control' =
        IF grant.advanced /\ control.inventory[m.test] = None
        THEN [seen EXCEPT !.refused = TRUE, !.stop = TRUE]
        ELSE [seen EXCEPT !.observed = observed, !.marker = Armed(observed),
                !.inventory = IF grant.advanced THEN Recorded(@, m.test, m.phase, m.outcome) ELSE @,
                !.stop = @ \/ (Allows("stop") /\ m.outcome = "failed")]

\* pytest_testnodedown, with the record or with the error of the connection;
\* xdist reports the test a dead worker was at as failed, and stops.
NodeDown(w, record) == control' = [control EXCEPT !.down = @ \union {w}, !.records[w] = record]
NodeLost(w) ==
  LET lost == [control EXCEPT !.down = @ \union {w}, !.lost = @ \union {w}, !.stop = TRUE] IN
  control' = IF worker[w].phase = "none" THEN lost
             ELSE [lost EXCEPT !.reported = @ \union {worker[w].test},
                               !.failures = @ \union {<<worker[w].test, "crash">>}]

Receive(w) ==
  /\ control.pc = "loop" /\ wire[w] # <<>>
  /\ LET m == Head(wire[w]) IN
     \/ m.kind = "error" /\ control' = [control EXCEPT !.errors = 1] /\ UNCHANGED todo
     \/ m.kind = "collected" /\ CollectionFinished(w, m.ids) /\ Schedule(w, m.ids)
     \/ m.kind = "report" /\ LogReport(m) /\ UNCHANGED todo
     \/ m.kind = "finished" /\ NodeDown(w, m.record) /\ UNCHANGED todo
  /\ wire' = [wire EXCEPT ![w] = Tail(@)]
  /\ UNCHANGED <<grant, worker, report, truth>>
LoseWorker(w) ==
  /\ control.pc = "loop" /\ worker[w].pc = "dead" /\ wire[w] = <<>> /\ w \notin control.down
  /\ NodeLost(w)
  /\ UNCHANGED <<grant, worker, wire, todo, report, truth>>

\* Something else than a failure ends the session: an interrupt, or a hook.
Quit ==
  /\ Allows("quit") /\ control.pc = "loop" /\ ~ control.stop
  /\ control' = [control EXCEPT !.stop = TRUE]
  /\ UNCHANGED <<grant, worker, wire, todo, report, truth>>

----------------------------------------------------------------------------
(* The verdict: the tail of run().                                          *)

\* What pytest returns, and what hooks of the project make of it.
Failed == control.failures # {} \/ control.errors > 0
NativeExits ==
  (IF Failed THEN {1, 2}
   ELSE IF control.stop THEN {2, 4}
   ELSE IF \A w \in Workers : control.collections[w] \in {None, {}} THEN {5} ELSE {0})
  \union (IF Allows("rewrite") THEN {0, 5} ELSE {})
Passing(exit) == exit \in {0, 5}

HidesFailure(exit) == Failed /\ Passing(exit)
RecordOf(w) == control.records[w]
\* Of every worker, a connection that ended well and a record not refused.
Observed ==
  \A w \in Workers : /\ w \in control.down \ control.lost /\ control.collections[w] # None
                     /\ ~ RecordOf(w).refused
SameCollections == \A w \in Workers : control.collections[w] = control.collections[First]
\* Mutant: what was reported is not compared with what was collected.
LeftUnrunUnreported == \E w \in Workers : RecordOf(w).dropped
LeftUnrun ==
  \/ \E w \in Workers : RecordOf(w).dropped
  \/ \E t \in control.collections[First] : t \notin control.reported
  \/ Cardinality(UNION {RecordOf(w).seen : w \in Workers}) < Cardinality(control.collections[First])
\* Mutant: the worker's record of its failures is not compared.
UnexplainedByExit(exit) == HidesFailure(exit)
Unexplained(exit) ==
  \/ Cardinality(UNION {RecordOf(w).failures : w \in Workers}) > Cardinality(control.failures)
  \/ control.errors = 0 /\ \E w \in Workers : RecordOf(w).errors > 0
  \/ HidesFailure(exit)
Reconciled(exit) ==
  /\ Observed /\ SameCollections
  /\ ~ (grant.full /\ Passing(exit) /\ LeftUnrun)
  /\ ~ Unexplained(exit)

\* Tests that were not collected, or that two workers recorded, are refused;
\* counts are left out rather than approximated.
Recorders(t) == {w \in Workers : RecordOf(w).outcomes[t] # None}
Mergeable ==
  \A t \in Tests : \A v, w \in Recorders(t) : v = w /\ t \in control.collections[First]
Counts ==
  IF \A t \in control.collections[First] : Recorders(t) # {}
  THEN [o \in Outcomes |-> {t \in Tests : \E w \in Recorders(t) : RecordOf(w).outcomes[t] = o}]
  ELSE None

Verdict ==
  /\ control.pc = "loop"
  /\ Workers \subseteq control.down \/ control.refused
  /\ \E exit \in NativeExits :
       LET good == ~ control.refused /\ ~ HidesFailure(exit) /\ Reconciled(exit) /\ Mergeable IN
       report' = [complete |-> good, exit |-> exit,
                  counts |-> IF good THEN Counts ELSE None, inventory |-> control.inventory]
  /\ control' = [control EXCEPT !.pc = "done", !.marker = TRUE]
  /\ UNCHANGED <<grant, worker, wire, todo, truth>>

Step(w) ==
  \/ Collect(w) \/ Protocol(w) \/ Setup(w) \/ Subtest(w) \/ Call(w) \/ Teardown(w)
  \/ RefuseItem(w) \/ SessionFinish(w) \/ Crash(w) \/ Receive(w) \/ LoseWorker(w)
Next == (\E w \in Workers : Step(w)) \/ Quit \/ Verdict
Spec == Init /\ [][Next]_vars

----------------------------------------------------------------------------
(* Properties.                                                              *)

\* A full run that passes ran every test of its collection to an end, and none
\* failed, whatever the exit code says, whichever worker was lost and whatever
\* hooks removed or softened on the way (_reconcile_parallel).
PassIsWhole ==
  report # None /\ report.complete /\ Passing(report.exit) =>
    \A t \in UNION {worker[w].collected : w \in Workers} :
      truth[t] \in IF grant.full THEN {"passed", "skipped"} ELSE {"passed", "skipped", "unrun"}

\* A complete report counts exactly what became of the tests, and the inventory
\* of the advanced profile says the same of each (_merge_worker_outcomes).
CountsAreTrue ==
  report # None /\ report.complete =>
    /\ report.counts # None =>
         \A o \in Outcomes : report.counts[o] = {t \in Tests : truth[t] = o}
    /\ \A t \in Tests : report.inventory[t] # None /\ truth[t] # "unrun" => report.inventory[t] = truth[t]

\* While the tests run, the marker that lets the guard call a silent run
\* stalled is there only when no test is before the end of its call
\* (_StallArm).
MarkerMeansDone ==
  control.marker /\ control.pc = "loop" =>
    \A t \in control.expected : truth[t] \in Outcomes

ReportIsTrue == PassIsWhole /\ CountsAreTrue /\ MarkerMeansDone
=============================================================================
