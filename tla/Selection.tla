------------------------------ MODULE Selection ------------------------------
(***************************************************************************)
(* Test selection from recorded dependencies: what a run records of every  *)
(* test (selection_ingest.py), the store of the records                    *)
(* (selection_store.py), the plan made from them for a later tree          *)
(* (selection_planner.py, source_index.py), and what runs and gates do to  *)
(* the store (selection_engine.py).                                        *)
(*                                                                         *)
(* A source tree gives every unit a value.  A unit <<p, k, x>> is a part   *)
(* of file p that the index tells apart: the body or the signature of a    *)
(* function x, a function's registration (a decorator, a call among its    *)
(* defaults), an assignment to x, the effectful statements, the syntax,    *)
(* the file itself; or a data file.  What a test does is the same whenever *)
(* the units it looks at have the same values.                             *)
(***************************************************************************)
EXTENDS Integers, FiniteSets, Sequences, TLC

CONSTANTS
  Units, Values,   \* Values[u]: the values unit u takes
  TestFiles,       \* the paths that hold tests
  Tests,           \* tests: functions <<path, name>>
  Imports,         \* Imports[p]: the files p imports when it is imported
  FromNames,       \* FromNames[p]: names <<path, name>> it imports from them
  Calls, CallsToo, \* functions f calls; those it calls only when its body is Other
  Uses,            \* Uses[f]: names of assignments f reads
  DefRefs,         \* DefRefs[x]: names the definition of name x reads
  EffectRefs,      \* EffectRefs[p]: names the effectful statements of p read
  ImportCalls,     \* functions that run when p is imported
  Lazy,            \* Lazy[f]: the files f imports when it runs
  Opens,           \* Opens[f]: the data files f opens
  Spawned,         \* Spawned[f]: functions f runs in another process
  Notices,         \* Notices[t]: files whose import-time effects t notices
  Checkouts,       \* worktrees of the project; they share the store
  Events,          \* what may go wrong
  Keep,            \* SELECTION_RECORDS_PER_NODE
  MaxEdits, MaxRuns, \* bounds
  None

VARIABLES
  disk,   \* the trees, and the store
  proc,   \* the run of every checkout
  past    \* edits so far, tests that failed, failures an audit calls missed

vars == <<disk, proc, past>>

Good == "good"
Other == "other"
Bad == "bad"
Raises == "raises"
Gone == "gone"

PathOf(u) == u[1]
Kind(u) == u[2]
Data == {PathOf(u) : u \in {v \in Units : Kind(v) = "data"}}
Modules == {PathOf(u) : u \in Units} \ Data
Has(u) == u \in Units
Value(T, u) == IF Has(u) THEN T[u] ELSE Good
Content(T, p) == [u \in {v \in Units : PathOf(v) = p} |-> T[u]]
Present(T, p) == Value(T, <<p, "file", "">>) # Gone
Parsed(T, p) == Value(T, <<p, "syntax", "">>) = Good
Functions == DOMAIN Calls
Names == DOMAIN DefRefs
TestFile(t) == t[1]

RECURSIVE Reach(_, _)
Reach(next, S) ==
  LET more == S \union UNION {next[x] : x \in S}
  IN  IF more = S THEN S ELSE Reach(next, more)

-----------------------------------------------------------------------------
(***************************************************************************)
(* What tests do.                                                          *)
(***************************************************************************)
Loaded(p) == Reach(Imports, {p})
CallsIn(T) ==
  [f \in Functions |-> Calls[f] \union
     (IF Value(T, <<f[1], "body", f[2]>>) = Other THEN CallsToo[f] ELSE {})]
\* The functions a test runs, those of modules imported under way included.
Executed(T, t) ==
  LET ran == Reach(CallsIn(T), {t})
      lazily == UNION {Loaded(p) : p \in UNION {Lazy[f] : f \in ran}}
  IN  Reach(CallsIn(T), ran \union UNION {ImportCalls[p] : p \in lazily})
LazilyLoaded(T, t) == UNION {Loaded(p) : p \in UNION {Lazy[f] : f \in Executed(T, t)}}
InChild(T, t) == Reach(CallsIn(T), UNION {Spawned[f] : f \in Executed(T, t)})

NameBad(T, x) ==
  \E y \in Reach(DefRefs, {x}) : \E k \in {"assign", "signature", "registration"} :
    Value(T, <<y[1], k, y[2]>>) = Bad
FunctionBad(T, f) ==
  \/ \E k \in {"body", "signature", "registration"} : Value(T, <<f[1], k, f[2]>>) = Bad
  \/ \E x \in Uses[f] : NameBad(T, x)
EffectBad(T, p) ==
  \/ \E u \in Units : PathOf(u) = p /\ Kind(u) \in {"effect", "registration"} /\ T[u] = Bad
  \/ \E x \in EffectRefs[p] : NameBad(T, x)
  \/ \E f \in Reach(CallsIn(T), ImportCalls[p]) : FunctionBad(T, f)
ImportRaises(T, p) ==
  ~ Parsed(T, p) \/ \E u \in Units : PathOf(u) = p /\ T[u] = Raises

\* A file whose import raises has no tests to run.
Collects(T, file) == \A p \in Loaded(file) : ~ ImportRaises(T, p)
Fails(T, t) ==
  \/ ~ Collects(T, TestFile(t))
  \/ \E p \in LazilyLoaded(T, t) : ImportRaises(T, p)
  \/ \E f \in Executed(T, t) \union InChild(T, t) : FunctionBad(T, f)
  \/ \E f \in Executed(T, t) : \E d \in Opens[f] : T[<<d, "data", "">>] = Bad
  \/ \E p \in Notices[t] : EffectBad(T, p)
Outcome(T, t) == IF Fails(T, t) THEN "failed" ELSE "passed"

\* What the recorder writes of a test: child processes only make it opaque.
Deps(T, t) ==
  [functions |-> Executed(T, t), modules |-> LazilyLoaded(T, t),
   data |-> UNION {Opens[f] : f \in Executed(T, t)}, opaque |-> InChild(T, t) # {}]
Ambient(files) ==
  LET loaded == UNION {Loaded(p) : p \in files}
  IN  [modules |-> loaded, functions |-> UNION {ImportCalls[p] : p \in loaded}]

-----------------------------------------------------------------------------
(***************************************************************************)
(* The plan: how the tree differs from that of a recorded run.             *)
(***************************************************************************)
\* A run that did not plan first may have failed to index its versions.
StalePaths(run, T) == {p \in Modules : Content(run.tree, p) # Content(T, p)}
StaleData(run, T) == {d \in run.data : Content(run.tree, d) # Content(T, d)}
ChangedPaths(before, T) == {p \in Modules \union Data : Content(before, p) # Content(T, p)}

Refs(T, f) == CallsIn(T)[f] \union Uses[f]
Hit(names, wild, refs) == \E x \in refs : x \in names \/ x[1] \in wild
Local(x) == ~ Has(<<x[1], "registration", x[2]>>)

RECURSIVE Propagated(_, _)
Propagated(T, s) ==
  LET Hits(refs) == Hit(s.names, s.wild, refs)
      here == {p \in Modules : Present(T, p)}
      defs == {x \in Names : x[1] \in here /\ Hits(DefRefs[x])}
      more == [s EXCEPT
        !.names = @ \union defs
                    \union {<<p, x[2]>> : <<p, x>> \in
                              {q \in here \X Names : q[2] \in FromNames[q[1]] /\ Hits({q[2]})}},
        !.am = @ \union {p \in here : Hits(EffectRefs[p])}
                 \union {x[1] : x \in {y \in defs \intersect Functions : ~ Local(y)}},
        !.soft = @ \union {x[1] : x \in {y \in defs \intersect Functions : Local(y)}},
        !.af = @ \union (defs \intersect Functions)
                 \union {f \in Functions : f[1] \in here /\ Hits(Refs(T, f))}]
  IN  IF more = s THEN s ELSE Propagated(T, more)

\* _diff_path: stale paths of which no unit can be told apart, and the units
\* that differ in the others.
Whole(run, T) ==
  {p \in StalePaths(run, T) :
     \/ ~ Present(run.tree, p) \/ ~ Present(T, p) \/ p \in run.lost
     \/ ~ Parsed(run.tree, p) \/ ~ Parsed(T, p)}
Moved(run, T) ==
  {u \in Units : PathOf(u) \in StalePaths(run, T) \ Whole(run, T) /\ run.tree[u] # T[u]}
Keys(units, kinds) == {<<PathOf(u), u[3]>> : u \in {v \in units : Kind(v) \in kinds}}
PathsIn(units, kinds) == {x[1] : x \in Keys(units, kinds)}
Seeds(whole, moved) ==
  [names |-> Keys(moved, {"signature", "registration", "assign"}), wild |-> whole,
   am |-> whole \union PathsIn(moved, {"registration", "effect"}),
   soft |-> PathsIn(moved, {"signature"}), af |-> {}]

\* _propagate from the seeds to s.
Reached(run, T, moved, seeds, s) ==
  LET sk == seeds.am \union seeds.soft \union {x[1] : x \in seeds.names}
      added == {p \in seeds.wild : ~ Present(run.tree, p)}
  IN  [pw |-> seeds.wild \ (added \ TestFiles), am |-> s.am, soft |-> s.soft, sk |-> sk,
       changed |-> Keys(moved, {"body", "signature", "registration"}) \union s.af,
       wf |-> {t \in TestFiles : /\ Present(T, t)
                                 /\ \/ t \in sk \union s.am \union s.soft
                                    \/ \E x \in s.names : x[1] = t}]
Spread(run, T, moved, seeds) == Reached(run, T, moved, seeds, Propagated(T, seeds))
Differing(run, T, moved) == Spread(run, T, moved, Seeds(Whole(run, T), moved))
Analysis(run, T) == Differing(run, T, Moved(run, T))

Importers(T) == [p \in Modules |-> {q \in Modules : Present(T, q) /\ p \in Imports[q]}]
\* The test files that statically reach a path of seeds.
StaticReach(T, seeds) == Reach(Importers(T), seeds \intersect Modules)
ReachingTests(T, seeds) == {t \in StaticReach(T, seeds) \intersect TestFiles : Present(T, t)}

-----------------------------------------------------------------------------
(***************************************************************************)
(* The plan: tiers.  T1 runs now, T2 waits for the gate, and what has no   *)
(* tier is believed unaffected.                                            *)
(***************************************************************************)
RunOf(store, rec) == store.runs[rec.run]
RecordedPaths(store, t, rec) ==
  {f[1] : f \in rec.deps.functions} \union rec.deps.modules \union rec.deps.data
    \union RunOf(store, rec).ambient.modules \union {TestFile(t)}
Distance(store, T, t, rec) ==
  Cardinality((StalePaths(RunOf(store, rec), T) \union StaleData(RunOf(store, rec), T))
                \intersect RecordedPaths(store, t, rec))
\* The record nearest the tree decides, then the newest.
ChosenRecord(store, T, t) ==
  CHOOSE rec \in store.records[t] : \A other \in store.records[t] :
    LET here == Distance(store, T, t, rec)
        there == Distance(store, T, t, other)
    IN  here < there \/ (here = there /\ rec.run >= other.run)
Judged(store, T) == {t \in Tests : store.records[t] # {} /\ Present(T, TestFile(t))}

Demoted(store, T, t) == store.demoted[t] = Content(T, TestFile(t))
RunsNow(store, T, t, rec, A) ==
  LET run == RunOf(store, rec)
      precise == rec.deps.opaque \/ Demoted(store, T, t)
  IN  \/ rec.outcome # "passed"
      \/ TestFile(t) \in A.wf
      \/ \E f \in rec.deps.functions : f[1] \in A.pw \/ f \in A.changed
      \/ ~ precise /\ rec.deps.modules \intersect A.sk # {}
      \/ rec.deps.data \intersect StaleData(run, T) # {}
      \/ store.observers[t] \intersect (A.am \union A.pw) # {}
Waits(store, T, t, rec, A, changed) ==
  LET run == RunOf(store, rec)
      touched == StalePaths(run, T) \union (changed \intersect Modules)
  IN  \/ \E f \in run.ambient.functions : f[1] \in A.pw \/ f \in A.changed
      \/ run.ambient.modules \intersect (A.am \union A.pw) # {}
      \/ TestFile(t) \in ReachingTests(T, A.am)
      \/ /\ rec.deps.opaque \/ Demoted(store, T, t)
         /\ \/ TestFile(t) \in ReachingTests(T, touched)
            \/ StaleData(run, T) # {} \/ changed \intersect Data # {}
            \/ StaticReach(T, touched) \intersect rec.deps.modules # {}

\* Caller-local changes select their callers; per path that no chosen test
\* imports, one witness imports it (for an audit: all that do, and every test
\* if a session imports it).
Witnesses(store, T, chosen, analyses, t1, audit) ==
  UNION {LET A == analyses[r]
             ambient == store.runs[r].ambient.modules
             members == {t \in DOMAIN chosen : chosen[t].run = r}
             Ran(p) == {t \in members :
                          \/ p \in {f[1] : f \in chosen[t].deps.functions} \union chosen[t].deps.modules
                          \/ TestFile(t) \in ReachingTests(T, {p})}
             missing == {p \in A.soft \ (A.am \union A.pw) : Ran(p) \intersect t1 = {}}
             Able(p) == IF Ran(p) = {} /\ p \in ambient THEN members ELSE Ran(p)
         IN  IF ~ audit THEN {CHOOSE t \in Able(p) : TRUE : p \in {q \in missing : Able(q) # {}}}
             ELSE IF missing \intersect ambient # {} THEN members
             ELSE UNION {Ran(p) : p \in missing}
         : r \in DOMAIN analyses}

\* plan(): changed is the diff and what changed since the gate.
Chosen(store, T) == [t \in Judged(store, T) |-> ChosenRecord(store, T, t)] @@ <<>>
Analyses(store, T) == [r \in DOMAIN store.runs |-> Analysis(store.runs[r], T)] @@ <<>>
Now(store, T, chosen, analyses) ==
  {t \in DOMAIN chosen : RunsNow(store, T, t, chosen[t], analyses[chosen[t].run])}
Deferred(store, T, changed, chosen, analyses, t1) ==
  {t \in DOMAIN chosen \ t1 : Waits(store, T, t, chosen[t], analyses[chosen[t].run], changed)}
Tiered(store, T, changed, chosen, analyses, t1, t2) ==
  LET usable == {TestFile(t) : t \in DOMAIN chosen}
      wf == UNION {analyses[r].wf : r \in DOMAIN analyses}
      new == {p \in TestFiles \ usable : Present(T, p) /\ p \in wf}
      reached == {p \in TestFiles \ (usable \union new) : Present(T, p) /\
                    (p \in ReachingTests(T, changed) \/ changed \intersect Data # {})}
      files == {TestFile(t) : t \in t1} \union new
      whole == new \union {p \in wf \intersect usable : \A t \in DOMAIN chosen : TestFile(t) = p => t \in t1}
  IN  [chosen |-> chosen, t1 |-> t1, t2 |-> t2, new |-> new, unrecorded |-> reached,
       files |-> files,
       deselect |-> {t \in DOMAIN chosen \ t1 : TestFile(t) \in files \ whole},
       learnable |-> [t \in t2 |-> analyses[chosen[t].run].am \union analyses[chosen[t].run].pw]]
Below(store, T, changed, chosen, analyses, t1) ==
  Tiered(store, T, changed, chosen, analyses, t1, Deferred(store, T, changed, chosen, analyses, t1))
From(store, T, changed, audit, chosen, analyses, now) ==
  Below(store, T, changed, chosen, analyses,
        now \union Witnesses(store, T, chosen, analyses, now, audit))
Over(store, T, changed, audit, chosen, analyses) ==
  From(store, T, changed, audit, chosen, analyses, Now(store, T, chosen, analyses))
Plan(store, T, changed, audit) ==
  Over(store, T, changed, audit, Chosen(store, T), Analyses(store, T))

-----------------------------------------------------------------------------
(***************************************************************************)
(* The store.                                                              *)
(***************************************************************************)
EmptyStore ==
  [records |-> [t \in Tests |-> {}], runs |-> <<>>, inventory |-> {}, clock |-> 0,
   observers |-> [t \in Tests |-> {}], demoted |-> [t \in Tests |-> None], gate |-> None]

\* Runs without a record go.
Swept(store) ==
  LET named == {rec.run : rec \in UNION {store.records[t] : t \in Tests}}
  IN  [store EXCEPT !.runs = [r \in DOMAIN store.runs \intersect named |-> store.runs[r]]]
Newest(records, n) ==
  {rec \in records : Cardinality({other \in records : other.run > rec.run}) < n}
\* Rows of tests that have newer ones; those of the oldest run go first.
Surplus(store, kept) ==
  {x \in UNION {{t} \X store.records[t] : t \in Tests} :
     x[2].run # kept /\ \E rec \in store.records[x[1]] : rec.run > x[2].run}
Oldest(S) == {x \in S : \A y \in S : x[2].run <= y[2].run}
WithoutRows(store, S) ==
  Swept([store EXCEPT !.records = [t \in Tests |-> {rec \in @[t] : <<t, rec>> \notin S}]])
RowsOf(store, r) == {x \in UNION {{t} \X store.records[t] : t \in Tests} : x[2].run = r}
\* A store that is too large loses surplus rows, else the run with the fewest
\* records, unless it has more than the run being written.
Smaller(store, kept, retry) ==
  LET surplus == Surplus(store, kept)
      victims == {r \in DOMAIN store.runs \ {kept} :
                    /\ retry \/ Cardinality(RowsOf(store, r)) <= Cardinality(RowsOf(store, kept))
                    /\ \A s \in DOMAIN store.runs \ {kept} :
                         Cardinality(RowsOf(store, r)) <= Cardinality(RowsOf(store, s))}
  IN  IF surplus # {} THEN {WithoutRows(store, Oldest(surplus))}
      ELSE {WithoutRows(store, RowsOf(store, r)) : r \in victims}
Evicted(store, kept, retry) ==
  {store} \union (IF "evict" \in Events THEN Smaller(store, kept, retry) ELSE {})

\* update: results[t] is the outcome and the dependencies of a test that ran.
Updated(store, run, results, full, rows, gate) ==
  LET id == store.clock + 1
      fresh == DOMAIN results
      kept == IF full THEN fresh \union store.inventory ELSE Tests
      New(t) == [run |-> id, outcome |-> results[t].outcome, deps |-> results[t].deps]
  IN  Swept([store EXCEPT
        !.clock = id,
        !.runs = [r \in DOMAIN @ \union {id} |-> IF r = id THEN run ELSE @[r]],
        !.records = [t \in Tests |->
           IF t \notin kept THEN {}
           ELSE IF t \in fresh THEN Newest(@[t] \union {New(t)}, Keep) ELSE @[t]],
        !.inventory = IF full THEN fresh ELSE @,
        !.observers = [t \in Tests |-> IF t \in kept THEN @[t] \union rows[t] ELSE {}],
        !.gate = IF full THEN gate ELSE @])

Reoutcome(store, tests, outcome) ==
  [store EXCEPT !.records = [t \in Tests |->
     IF t \in tests THEN {[rec EXCEPT !.outcome = outcome] : rec \in @[t]} ELSE @[t]]]

-----------------------------------------------------------------------------
(***************************************************************************)
(* Runs.                                                                   *)
(***************************************************************************)
Idle == [pc |-> "idle", full |-> FALSE, before |-> None, chosen |-> {}, files |-> {},
         results |-> <<>>, rows |-> [t \in Tests |-> {}]]

BaseTree == [u \in Units |-> Good]
Init ==
  /\ disk = [tree |-> [c \in Checkouts |-> BaseTree], store |-> EmptyStore]
  /\ proc = [c \in Checkouts |-> Idle]
  /\ past = [edits |-> 0, missed |-> {}, failed |-> {}]

Tree(c) == disk.tree[c]
At(c, pc) == proc[c].pc = pc
Go(c, p) == proc' = [proc EXCEPT ![c] = p]
Writes(store) == disk' = [disk EXCEPT !.store = store]

\* The gate marker names the tree of the last gate; no marker, no difference.
SinceGate(store, T) ==
  IF store.gate = None THEN {} ELSE ChangedPaths(store.gate, T)
SinceBase(T) == ChangedPaths(BaseTree, T)
PlanOf(c) ==
  Plan(disk.store, Tree(c), SinceBase(Tree(c)) \union SinceGate(disk.store, Tree(c)), FALSE)

TestsIn(T, files) == {t \in Tests : TestFile(t) \in files /\ Present(T, TestFile(t))}
\* Without a recorded run the static reach of the diff is run.
Statically(T, files) == [files |-> files, tests |-> TestsIn(T, files)]
Planned(T, D) == [files |-> D.files, tests |-> TestsIn(T, D.files) \ D.deselect]
Selected(c) ==
  IF disk.store.runs = <<>>
  THEN Statically(Tree(c), ReachingTests(Tree(c), SinceBase(Tree(c)))) ELSE Planned(Tree(c), PlanOf(c))
Everything(c) ==
  LET present == {p \in TestFiles : Present(Tree(c), p)}
  IN  [files |-> present, tests |-> TestsIn(Tree(c), present)]

Begin(c, full, wanted) ==
  /\ wanted.tests # {}
  /\ Go(c, [Idle EXCEPT !.pc = "running", !.full = full, !.before = Tree(c),
                        !.chosen = wanted.tests, !.files = wanted.files])
Start(c) ==
  /\ At(c, "idle") /\ disk.store.clock < MaxRuns
  /\ Begin(c, TRUE, Everything(c)) \/ Begin(c, FALSE, Selected(c))
  /\ UNCHANGED <<disk, past>>

\* A file that cannot be imported stops the session before any test.
Execute(c) ==
  /\ At(c, "running")
  /\ LET T == Tree(c)
         ran == IF \A p \in proc[c].files : Collects(T, p) THEN {t \in proc[c].chosen : Present(T, TestFile(t))} ELSE {}
     IN  Go(c, [proc[c] EXCEPT !.pc = "ran",
                  !.results = [t \in ran |-> [outcome |-> Outcome(T, t), deps |-> Deps(T, t)]]])
         /\ past' = [past EXCEPT !.failed = @ \union {t \in ran : Fails(T, t)}]
  /\ UNCHANGED disk

Failed(c) == {t \in DOMAIN proc[c].results : proc[c].results[t].outcome = "failed"}
\* Mutant: inputs that changed during the run are not compared.
AlwaysUnchanged(c) == TRUE
UnchangedInputs(c) == Tree(c) = proc[c].before

\* _after_run: a run that is whole, over inputs that stayed, is ingested;
\* otherwise its failures are kept, and what may be missing is invalidated.
Ingestible(c) ==
  /\ At(c, "ran") /\ UnchangedInputs(c)
  /\ Go(c, [proc[c] EXCEPT !.pc = IF proc[c].full THEN "auditing" ELSE "recording"])
  /\ UNCHANGED <<disk, past>>
InputsChanged(c) ==
  /\ At(c, "ran") /\ ~ UnchangedInputs(c)
  /\ Writes(Reoutcome(disk.store, Failed(c), "failed")) /\ Go(c, Idle) /\ UNCHANGED past
\* Of a cancelled run or one with files missing, some results are known.
Cancelled(c) ==
  /\ "cancel" \in Events /\ At(c, "ran")
  /\ \E known \in SUBSET Failed(c) : Writes(Reoutcome(disk.store, known, "failed"))
  /\ Go(c, Idle) /\ UNCHANGED past
Incomplete(c) ==
  /\ "incomplete" \in Events /\ At(c, "ran")
  /\ LET lost == IF proc[c].full THEN Tests ELSE {t \in Tests : TestFile(t) \in proc[c].files}
     IN  Writes(Reoutcome(disk.store, lost, "unknown"))
  /\ Go(c, Idle) /\ UNCHANGED past
\* The controller dies: nothing of the run is kept.
Dies(c) == /\ "crash" \in Events /\ ~ At(c, "idle") /\ Go(c, Idle) /\ UNCHANGED <<disk, past>>

\* _self_audit and audit_classify: the failures of a gate against the plan D of
\* the store as it was.
Classified(c, D) ==
  LET judged == {t \in Failed(c) : t \in DOMAIN D.chosen /\ D.chosen[t].outcome = "passed"}
      misses == {t \in judged \ (D.t1 \union D.t2) : TestFile(t) \notin D.files \/ t \in D.deselect}
      rows == [t \in Tests |-> IF t \in judged \intersect D.t2 THEN D.learnable[t] ELSE {}]
  IN  /\ Writes([disk.store EXCEPT !.demoted = [t \in Tests |->
                   IF t \in misses THEN Content(Tree(c), TestFile(t)) ELSE @[t]]])
      /\ Go(c, [proc[c] EXCEPT !.pc = "recording", !.rows = rows])
      /\ past' = [past EXCEPT !.missed = @ \union misses]
Audit(c) ==
  /\ At(c, "auditing")
  /\ Classified(c, Plan(disk.store, Tree(c), SinceGate(disk.store, Tree(c)), TRUE))

\* _ingest_run: digests are of the tree as it is now.
Record(c) ==
  /\ At(c, "recording")
  /\ LET T == Tree(c)
         results == proc[c].results
         run(lost) == [tree |-> T, lost |-> lost, ambient |-> Ambient(proc[c].files),
                       data |-> UNION {results[t].deps.data : t \in DOMAIN results}]
     IN  \E lost \in {{}} \union (IF "uncached" \in Events THEN {Modules} ELSE {}) :
           LET updated == Updated(disk.store, run(lost), results, proc[c].full, proc[c].rows, T)
           IN  \E store \in Evicted(updated, updated.clock, FALSE) : Writes(store)
  /\ Go(c, Idle) /\ UNCHANGED past
\* The update does not fit twice: what was evicted for it is gone.
Rejected(c) ==
  /\ "evict" \in Events /\ At(c, "recording")
  /\ \E store \in Evicted(disk.store, disk.store.clock + 1, TRUE) : Writes(store)
  /\ Go(c, Idle) /\ UNCHANGED past

\* People edit; a tree that moved under a run is not moved back before its end,
\* and stands still while the run is ingested unless "late".
MayEdit(c) ==
  \/ At(c, "idle")
  \/ proc[c].pc \in {"running", "ran"} /\ UnchangedInputs(c)
  \/ "late" \in Events /\ proc[c].pc \in {"auditing", "recording"}
Edit(c) ==
  /\ past.edits < MaxEdits /\ MayEdit(c)
  /\ \E u \in Units : \E v \in Values[u] \ {Tree(c)[u]} :
       disk' = [disk EXCEPT !.tree[c][u] = v]
  /\ past' = [past EXCEPT !.edits = @ + 1] /\ UNCHANGED proc

Next ==
  \E c \in Checkouts :
    \/ Start(c) \/ Execute(c) \/ Ingestible(c) \/ InputsChanged(c) \/ Cancelled(c)
    \/ Incomplete(c) \/ Dies(c) \/ Audit(c) \/ Record(c) \/ Rejected(c) \/ Edit(c)
Spec == Init /\ [][Next]_vars

-----------------------------------------------------------------------------
\* Whatever was edited, run, cancelled, evicted or run elsewhere before: a test
\* with a record that the plan neither runs nor defers passes on the tree as it
\* is; only a module that no longer imports is left to a test that runs and
\* fails on it. (selection_planner.plan)
Unimported(T, t) ==
  \/ ~ Collects(T, TestFile(t))
  \/ \E p \in LazilyLoaded(T, t) : ImportRaises(T, p)
CoversRecorded(T, D) ==
  \A t \in DOMAIN D.chosen \ (D.t1 \union D.t2) :
    Fails(T, t) => Unimported(T, t) /\ \E s \in D.t1 : Fails(T, s)
NothingMissed ==
  \A c \in Checkouts : At(c, "idle") /\ disk.store.runs # <<>> => CoversRecorded(Tree(c), PlanOf(c))

\* A gate never finds a recorded test failing that its plan took for
\* unaffected. (selection_planner.audit_classify)
GatesMissNothing == past.missed = {}

\* A test without a record is not passed over either: one that never failed
\* and would fail now is run, or deferred with its file.  (specification of
\* selection, N2: "A test without a valid record is never skipped unless the
\* static rule proves it unaffected.")
CoversUnrecorded(T, D) ==
  \A t \in Tests \ (DOMAIN D.chosen \union past.failed) :
    Present(T, TestFile(t)) /\ Fails(T, t) => TestFile(t) \in D.files \union D.unrecorded
UnrecordedAreRun ==
  \A c \in Checkouts : At(c, "idle") /\ disk.store.runs # <<>> => CoversUnrecorded(Tree(c), PlanOf(c))
=============================================================================
