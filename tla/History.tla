------------------------------ MODULE History ------------------------------
(***************************************************************************)
(* One checkout's outcome history: the rows a publication commits, the     *)
(* plan an automatic run makes of them, and the life of a run between the  *)
(* two.  A publication is one SQLite transaction (BEGIN IMMEDIATE under    *)
(* the writer lock), so it is one action; everything a run does before it  *)
(* - read the history, photograph the source, plan, wait for the lease,    *)
(* photograph again, execute, photograph again, read a sequence - is a     *)
(* step of its own, and the developer edits the tree between any two.      *)
(*                                                                         *)
(* The content of the tree is a version per path.  A report is whatever    *)
(* the native runner could have brought back for the files it was given.   *)
(***************************************************************************)
EXTENDS Integers, FiniteSets

CONSTANTS
  Runs,          \* run ids
  ModeOf,        \* the request each run serves: automatic, scoped, full, shadow
  Tests,         \* test ids
  Paths,         \* source and test files
  FileOf,        \* the file a test is collected from
  Groups,        \* [selection.groups]: records [sources, tests] of sets of paths
  Always,        \* [selection] always
  NoTests,       \* [selection] no_tests
  FullTriggers,  \* [selection] full_triggers
  RatioNum, RatioDen,  \* [selection] full_ratio
  Trees,         \* the states the checkout can be edited into
  MaxEdits,      \* bound: edits of the tree
  Summaries,     \* HISTORY_MAX_SUMMARIES
  WholeGate,     \* the key of the obligation no test can discharge
  None,
  StartTree,     \* bound: the checkout a behaviour starts from
  EditsTo,       \* bound: the trees each tree can be edited into
  Observable,    \* bound: the outcomes each test can have in this instance
  ReportKinds    \* bound: whole, partial and unattributed reports

VARIABLES
  tree,          \* the checkout
  edits,         \* how often it was edited
  holder,        \* the run that holds the checkout's admission, or None
  pc, job,       \* where each run is, and what it carries
  runs,          \* table runs: stored results by run id
  obligations,   \* table obligations: records [seq, env] by key
  baselines,     \* table baselines: the result of the baseline run, or no row
  quarantine,    \* table selection_quarantine, or None
  log            \* every result ever committed (never read by the program)

store == <<runs, obligations, baselines, quarantine>>
vars == <<tree, edits, holder, pc, job, runs, obligations, baselines, quarantine, log>>

----------------------------------------------------------------------------
(* Source identity.  A snapshot is the tree; its digest is src and env, its *)
(* compatibility env, and env None stands for evidence it could not read.   *)

Known(t) == t # None /\ t.env # None
SameSource(s, t) == s # None /\ t # None /\ s.src = t.src /\ s.env = t.env

\* What changed between the baseline's tree and this one.
Changes(b, t) == {p \in Paths : b.src[p] # t.src[p]}
Deleted(b, t, p) == b.src[p] # 0 /\ t.src[p] = 0

----------------------------------------------------------------------------
(* Results.                                                                 *)

Outcomes == {"passed", "failed", "skipped", "unknown"}

ASSUME HistoryAssumption ==
  /\ ModeOf \in [Runs -> {"automatic", "scoped", "full", "shadow"}]
  /\ WholeGate \notin Tests
  /\ Observable \in [Tests -> SUBSET Outcomes]
  /\ StartTree \in Trees /\ EditsTo \in [Trees -> SUBSET Trees]
  /\ None \notin Runs /\ MaxEdits \in Nat

Cases(inv) == DOMAIN inv.outcome
Having(inv, o) == {x \in Cases(inv) : inv.outcome[x] = o}
FilesIn(inv) == {FileOf[x] : x \in Cases(inv)}
Conclusive(inv) ==
  inv # None /\ inv.complete /\ Having(inv, "unknown") = {}

ResultEnv(res) ==
  IF res.after = None THEN res.before.env
  ELSE IF SameSource(res.before, res.after) THEN res.after.env ELSE None

SourceValid(res) == Known(res.before) /\ Known(res.after) /\ SameSource(res.before, res.after)

\* A full gate that may seed a baseline.
CleanFull(res) ==
  /\ res.mode = "full" /\ res.execution = "full" /\ res.status = "passed"
  /\ Conclusive(res.inventory) /\ Cases(res.inventory) # {}
  /\ Having(res.inventory, "failed") = {}
  /\ SourceValid(res) /\ res.before.clean /\ res.after.clean

ConclusivePass(res) ==
  /\ Conclusive(res.inventory) /\ Having(res.inventory, "failed") = {}
  /\ res.status = "passed" /\ SourceValid(res)
  /\ res.mode \in {"automatic", "scoped", "full"}

PassedIn(res) == IF res.inventory = None THEN {} ELSE Having(res.inventory, "passed")
FailedIn(res) ==
  UNION {Having(i, "failed") : i \in {res.inventory, res.selected, res.full} \ {None}}

\* A run that failed, broke off or has no whole inventory: no later pass of a
\* single test discharges what it may have missed.
Unattributed(res) ==
  \/ res.status \in {"failed", "incomplete"}
  \/ res.inventory # None /\ ~Conclusive(res.inventory)

Owed(res) == FailedIn(res) \union (IF Unattributed(res) THEN {WholeGate} ELSE {})

----------------------------------------------------------------------------
(* The publishing transaction.                                              *)

Recorded(obs, res) ==
  [k \in DOMAIN obs \union Owed(res) |->
     IF k \in Owed(res) /\ (k \in DOMAIN obs => obs[k].seq <= res.seq)
     THEN [seq |-> res.seq, env |-> ResultEnv(res)]
     ELSE obs[k]]

\* An obligation of unknown compatibility is recovered by a clean full only.
Compatible(o, res) == o.env = None \/ o.env = ResultEnv(res)
Proves(o, res) == IF o.env = None THEN CleanFull(res) ELSE o.env = ResultEnv(res)

\* Mutant: a test that was merely not failing passes.
PassesUnfailed(k, o, res) ==
  /\ ConclusivePass(res) /\ k \in Cases(res.inventory)
  /\ res.seq > o.seq /\ Proves(o, res)
Passes(k, o, res) ==
  /\ ConclusivePass(res) /\ k \in PassedIn(res)
  /\ res.seq > o.seq /\ Proves(o, res)

Removed(k, o, res) ==
  /\ CleanFull(res) /\ k # WholeGate /\ k \notin Cases(res.inventory)
  /\ res.seq > o.seq /\ Compatible(o, res)

Promoted(res) == CleanFull(res) /\ \A b \in baselines : b.seq < res.seq

\* Mutant: any conclusive pass meets the whole-gate obligation.
GateMetByAnyPass(k, o, res) == ConclusivePass(res) /\ k = WholeGate /\ o.seq < res.seq
GateMet(k, o, res) == Promoted(res) /\ k = WholeGate /\ o.seq < res.seq

Reconciled(obs, res) ==
  LET kept == {k \in DOMAIN obs :
                 ~ (Passes(k, obs[k], res) \/ Removed(k, obs[k], res) \/ GateMet(k, obs[k], res))}
  IN  [k \in kept |-> obs[k]]

\* A shadow run's two attempts, judged by derive_shadow_verdict.
Verdict(res) ==
  LET s == res.selected
      f == res.full
      Failures(i) == Having(i, "failed")
  IN  IF \/ s = None \/ f = None
         \/ ~Conclusive(s) \/ ~Conclusive(f) \/ ~SourceValid(res)
         \/ Cases(s) # {x \in Cases(f) : FileOf[x] \in FilesIn(s)}
        THEN "incomplete"
      ELSE IF \E x \in Cases(s) : s.outcome[x] # f.outcome[x]
        THEN "unclassified-divergence"
      ELSE IF \E x \in Failures(f) : FileOf[x] \notin FilesIn(s)
        THEN "suspected-miss"
      ELSE IF \/ s.red # (Failures(s) # {}) \/ f.red # (Failures(f) # {})
        THEN "unclassified-divergence"
      ELSE "matched"

BothPass(res) == \A i \in {res.selected, res.full} :
                   i # None /\ Conclusive(i) /\ ~i.red /\ Having(i, "failed") = {}

\* The comparison was of a genuine selected plan against the standing baseline.
Eligible(res) ==
  /\ res.selected # None /\ res.full # None
  /\ res.execution = "selected" /\ res.files # {}
  /\ \E b \in baselines : /\ b.run = res.base
                          /\ ResultEnv(b) = res.planned.env /\ b.policy = res.policy
  /\ SourceValid(res)
  /\ res.selected.complete /\ res.full.complete
  /\ FilesIn(res.selected) = res.files
  /\ res.files \subseteq FilesIn(res.full) /\ res.files # FilesIn(res.full)

\* The rows of table selection_quarantine; None, for no row, is none of them.
Suspicions ==
  [run : Runs, seq : Nat, policy : {t.policy : t \in Trees} \union {None},
   env : {t.env : t \in Trees}, src : {t.src : t \in Trees},
   verdict : {"suspected-miss", "unclassified-divergence"}]
ASSUME NoneAssumption == None \notin Suspicions
Suspicion(res) ==
  [run |-> res.run, seq |-> res.seq, policy |-> res.policy,
   env |-> ResultEnv(res), src |-> res.after.src, verdict |-> Verdict(res)]

\* Mutant: the inputs need not have been corrected.
LiftsUncorrected(res) ==
  /\ Verdict(res) = "matched" /\ res.expected # None /\ BothPass(res)
  /\ quarantine = res.expected /\ res.seq > quarantine.seq
  /\ \E b \in baselines : b.policy = res.policy /\ ResultEnv(b) = ResultEnv(res)
\* The exact quarantine seen at planning, corrected since, and a baseline
\* of the corrected inputs between the two.
Lifts(res) ==
  /\ Verdict(res) = "matched" /\ res.expected # None /\ BothPass(res)
  /\ quarantine = res.expected /\ res.seq > quarantine.seq
  /\ <<res.policy, ResultEnv(res)>> # <<quarantine.policy, quarantine.env>>
  /\ \E b \in baselines : /\ quarantine.seq < b.seq /\ b.seq < res.seq
                          /\ b.policy = res.policy /\ ResultEnv(b) = ResultEnv(res)

Quarantined(res) ==
  IF res.mode # "shadow" \/ ~Eligible(res) THEN quarantine
  ELSE IF Verdict(res) \in {"suspected-miss", "unclassified-divergence"}
    THEN IF quarantine = None \/ res.seq > quarantine.seq THEN Suspicion(res) ELSE quarantine
  ELSE IF Lifts(res) THEN None ELSE quarantine

\* Pruning: own and baseline rows stay, what exceeds the summary budget goes,
\* and age or size may take any of the others.
Newest(rs) == {r \in DOMAIN rs :
                 Cardinality({s \in DOMAIN rs : rs[s].seq > rs[r].seq}) < Summaries}
Pruned(rs, protected) ==
  {[r \in kept |-> rs[r]] :
     kept \in {k \in SUBSET DOMAIN rs :
                 protected \intersect DOMAIN rs \subseteq k /\ k \subseteq protected \union Newest(rs)}}

\* Mutant: pruning does not spare the baseline's row.
BaselineRunUnspared(rows) == {}
BaselineRun(rows) == {b.run : b \in rows}

\* Mutant: the last sequence is given again.
LastSequences(rs) ==
  {n \in {-1} \union {rs[r].seq : r \in DOMAIN rs} : \A r \in DOMAIN rs : rs[r].seq <= n}
\* MAX(sequence) + 1 over the stored rows: the one candidate above them all.
NextSequences(rs) ==
  {n \in {0} \union {rs[r].seq + 1 : r \in DOMAIN rs} : \A r \in DOMAIN rs : rs[r].seq < n}

----------------------------------------------------------------------------
(* Planning.                                                                *)

Full == [execution |-> "full", files |-> {}, base |-> None]

Involved(p) == {g \in Groups : p \in g.sources \union g.tests}

\* A change no declared group can answer for.
Unplannable(b, t, p) ==
  LET inventory == FilesIn(b.inventory)
  IN  \/ Deleted(b.after, t, p) /\ p \in inventory
      \/ p \in FullTriggers
      \/ p \notin NoTests /\ Involved(p) = {}
      \/ \E g \in Involved(p) : p \notin NoTests /\ ~ (g.tests \subseteq inventory)

Reached(b, t) ==
  LET moved == Changes(b.after, t) \ NoTests
  IN  UNION {UNION {g.tests : g \in Involved(p)} \union ({p} \intersect FilesIn(b.inventory)) :
               p \in moved}

\* choose_plan for an automatic request over one view of the history.
ChoosePlan(view, t) ==
  LET base == CHOOSE b \in view.baselines : TRUE
      owed == DOMAIN view.obligations
      inventory == FilesIn(base.inventory)
      mandatory == {FileOf[k] : k \in owed \ {WholeGate}}
      chosen == mandatory \union Reached(base, t)
      selected == chosen \union Always
  IN  IF \/ view.quarantine # None \/ ~Known(t) \/ view.baselines = {}
         \/ ResultEnv(base) # t.env \/ base.policy # t.policy
         \/ WholeGate \in owed \/ ~ (mandatory \subseteq inventory)
         \/ \E p \in Changes(base.after, t) : Unplannable(base, t, p)
        THEN Full
      ELSE IF chosen = {}
        THEN [execution |-> "none", files |-> {}, base |-> base.run]
      ELSE IF \/ ~ (Always \subseteq inventory)
              \/ Cardinality(selected) * RatioDen >= RatioNum * Cardinality(inventory)
        THEN Full
      ELSE [execution |-> "selected", files |-> selected, base |-> base.run]

\* Mutant: a plan is made of the baseline alone.
ViewOfBaseline == [baselines |-> baselines, obligations |-> [k \in {} |-> None], quarantine |-> quarantine]
View == [baselines |-> baselines, obligations |-> obligations, quarantine |-> quarantine]

\* A shadow request looks past the quarantine it means to correct.
Diagnostic(view) == [view EXCEPT !.quarantine = None]

----------------------------------------------------------------------------
(* Runs.                                                                    *)

Blank ==
  [mode |-> "full", view |-> None, execution |-> "full", files |-> {}, base |-> None,
   expected |-> None, planned |-> None, policy |-> None, before |-> None, after |-> None,
   status |-> "incomplete", inventory |-> None, selected |-> None, full |-> None,
   seq |-> 0, seen |-> {}]

Init ==
  /\ tree = StartTree /\ edits = 0
  /\ holder = None
  /\ pc = [r \in Runs |-> "idle"] /\ job = [r \in Runs |-> [Blank EXCEPT !.mode = ModeOf[r]]]
  /\ runs = [r \in {} |-> None] /\ obligations = [k \in {} |-> None] /\ baselines = {} /\ quarantine = None
  /\ log = {}

Goes(r, from, to) == pc[r] = from /\ pc' = [pc EXCEPT ![r] = to]

\* The developer changes a file, the configuration or the environment.
Edit ==
  /\ edits < MaxEdits /\ edits' = edits + 1
  /\ tree' \in EditsTo[tree]
  /\ UNCHANGED <<holder, pc, job, store, log>>

ReadHistory(r) ==
  /\ Goes(r, "idle", "read")
  /\ job' = [job EXCEPT ![r].view = View]
  /\ UNCHANGED <<tree, edits, holder, store, log>>

\* The plans of one run over what it read and the source it now sees.
PlansFor(mode, view, t) ==
  IF mode = "full" THEN {Full}
  ELSE IF mode = "scoped" THEN
    {[execution |-> "scoped", files |-> f, base |-> None] :
       f \in (SUBSET {FileOf[x] : x \in Tests}) \ {{}}}
  ELSE IF mode = "automatic" THEN {ChoosePlan(view, t)}
  ELSE {p \in {ChoosePlan(Diagnostic(view), t)} : p.execution = "selected"}

\* The view is dropped once the plan is made: nothing reads it again.  A plan
\* of nothing is an outcome already, and takes no admission.
PlanRun(r) ==
  /\ pc[r] = "read"
  /\ \E p \in PlansFor(ModeOf[r], job[r].view, tree) :
       LET planned == [job[r] EXCEPT
             !.execution = p.execution, !.files = p.files, !.base = p.base,
             !.expected = IF ModeOf[r] = "shadow" THEN job[r].view.quarantine ELSE None,
             !.view = None, !.planned = tree, !.policy = tree.policy]
       IN  IF p.execution # "none"
           THEN Goes(r, "read", "queued") /\ job' = [job EXCEPT ![r] = planned]
           ELSE /\ Goes(r, "read", "ran")
                /\ job' = [job EXCEPT ![r] = [planned EXCEPT
                     !.before = tree, !.after = tree, !.status = "no-tests-needed"]]
  /\ UNCHANGED <<tree, edits, holder, store, log>>

\* A shadow request without a genuine selected plan is refused outright.
RefuseShadow(r) ==
  /\ ModeOf[r] = "shadow" /\ pc[r] = "read" /\ PlansFor("shadow", job[r].view, tree) = {}
  /\ pc' = [pc EXCEPT ![r] = "done"] /\ job' = [job EXCEPT ![r] = [Blank EXCEPT !.mode = ModeOf[r]]]
  /\ UNCHANGED <<tree, edits, holder, store, log>>

\* Mutant: runs of one checkout are admitted together.
AdmitOverlapping(r) ==
  /\ Goes(r, "queued", "granted")
  /\ tree.policy = job[r].policy
  /\ holder' = r
  /\ UNCHANGED <<tree, edits, job, store, log>>
\* One run of the checkout is admitted at a time; the configuration is read
\* again under the grant.
Admit(r) ==
  /\ Goes(r, "queued", "granted")
  /\ holder = None /\ tree.policy = job[r].policy
  /\ holder' = r
  /\ UNCHANGED <<tree, edits, job, store, log>>

Capture(r) ==
  /\ Goes(r, "granted", "captured")
  /\ job' = [job EXCEPT ![r].before = tree, ![r].seen = {q.run : q \in log}]
  /\ UNCHANGED <<tree, edits, holder, store, log>>

\* Mutant: the plan's own source is not compared.
MovedSinceCapture(r) == ~SameSource(job[r].before, tree)
\* decide_attempt: stop when the source moved since the capture.  A shadow
\* run also stops when it moved between the plan and the capture.
Moved(r) ==
  \/ ~SameSource(job[r].before, tree)
  \/ job[r].mode = "shadow"
     /\ ~ (/\ SameSource(job[r].planned, job[r].before)
           /\ Known(job[r].planned) /\ Known(job[r].before))

Gate(r) ==
  /\ pc[r] = "captured"
  /\ pc' = [pc EXCEPT ![r] = IF Moved(r) THEN "executed" ELSE "running"]
  /\ UNCHANGED <<tree, edits, holder, job, store, log>>

Collected(r) ==
  {x \in Tests : /\ job[r].before.src[FileOf[x]] # 0
                 /\ job[r].execution \in {"selected", "scoped"} => FileOf[x] \in job[r].files}

\* What a native attempt can report: a whole inventory whose failures agree
\* with its exit, a red exit no test accounts for, or a partial inventory.
ReportKind(i) ==
  IF ~i.complete THEN "partial"
  ELSE IF i.red = (Having(i, "failed") # {}) THEN "whole" ELSE "unattributed"

Reports(cases) ==
  {i \in [complete : BOOLEAN, red : BOOLEAN,
           outcome : UNION {[c -> Outcomes] : c \in SUBSET cases}] :
     /\ i.complete => Cases(i) = cases
     /\ \A x \in Cases(i) : i.outcome[x] \in Observable[x]
     /\ Having(i, "failed") # {} => i.red
     /\ ReportKind(i) \in ReportKinds}

StatusOf(i) == IF ~i.complete THEN "incomplete" ELSE IF i.red THEN "failed" ELSE "passed"

Execute(r) ==
  /\ job[r].mode # "shadow" /\ Goes(r, "running", "executed")
  /\ \E i \in Reports(Collected(r)) :
       job' = [job EXCEPT ![r].inventory = i, ![r].status = StatusOf(i)]
  /\ UNCHANGED <<tree, edits, holder, store, log>>

\* The selected attempt, then the full one, unless the guard stopped between.
ExecuteShadow(r) ==
  /\ job[r].mode = "shadow" /\ Goes(r, "running", "executed")
  /\ \E s \in Reports(Collected(r)) :
     \E f \in Reports({x \in Tests : job[r].before.src[FileOf[x]] # 0}) \union {None} :
       job' = [job EXCEPT ![r].selected = s, ![r].full = f,
                          ![r].status = IF f = None THEN "incomplete"
                                        ELSE IF s.red \/ f.red THEN "failed" ELSE "passed"]
  /\ UNCHANGED <<tree, edits, holder, store, log>>

\* The final photograph.  A run whose source moved proves nothing, nor does a
\* shadow run without a verdict.
Settled(j) ==
  IF j.mode = "shadow"
  THEN IF j.status = "passed" /\ Verdict(j) = "incomplete" THEN "incomplete" ELSE j.status
  ELSE IF SourceValid(j) THEN j.status ELSE "incomplete"

Recapture(r) ==
  /\ Goes(r, "executed", "ran")
  /\ LET seen == [job[r] EXCEPT !.after = tree]
     IN  job' = [job EXCEPT ![r] = [seen EXCEPT !.status = Settled(seen)]]
  /\ UNCHANGED <<tree, edits, holder, store, log>>

\* The sequence is read when the outcome is ready, not when it was admitted.
Number(r) ==
  /\ Goes(r, "ran", "numbered")
  /\ \E n \in NextSequences(runs) : job' = [job EXCEPT ![r].seq = n]
  /\ UNCHANGED <<tree, edits, holder, store, log>>

Result(r) ==
  [run |-> r, mode |-> job[r].mode, execution |-> job[r].execution, files |-> job[r].files,
   base |-> job[r].base, expected |-> job[r].expected, planned |-> job[r].planned,
   policy |-> job[r].policy, before |-> job[r].before, after |-> job[r].after,
   status |-> job[r].status, inventory |-> job[r].inventory, selected |-> job[r].selected,
   full |-> job[r].full, seq |-> job[r].seq, seen |-> job[r].seen]

\* Space is made in a transaction of its own before the outcome is written.
Maintain(r) ==
  /\ Goes(r, "numbered", "pruned")
  /\ runs' \in Pruned(runs, {r} \union BaselineRun(baselines))
  /\ UNCHANGED <<tree, edits, holder, job, obligations, baselines, quarantine, log>>

Leave(r) ==
  /\ pc' = [pc EXCEPT ![r] = "done"]
  /\ holder' = IF holder = r THEN None ELSE holder
  /\ job' = [job EXCEPT ![r] = [Blank EXCEPT !.mode = ModeOf[r]]]

Inserted(res) == [r \in DOMAIN runs \union {res.run} |-> IF r = res.run THEN res ELSE runs[r]]

\* The publishing transaction, and the finish that gives the admission back.
Publish(r) ==
  LET res == Result(r)
  IN  /\ pc[r] = "pruned"
      /\ obligations' = Reconciled(Recorded(obligations, res), res)
      /\ baselines' = IF Promoted(res) THEN {res} ELSE baselines
      /\ quarantine' = Quarantined(res)
      /\ runs' \in Pruned(Inserted(res), {r} \union BaselineRun(baselines'))
      /\ log' = log \union {res}
      /\ Leave(r) /\ UNCHANGED <<tree, edits>>

\* A cancelled wait, a refused or rolled back publication, or a dead owner.
Lose(r) ==
  /\ pc[r] \notin {"idle", "done"}
  /\ Leave(r) /\ UNCHANGED <<tree, edits, store, log>>

Step(r) ==
  \/ ReadHistory(r) \/ PlanRun(r) \/ RefuseShadow(r) \/ Admit(r) \/ Capture(r) \/ Gate(r)
  \/ Execute(r) \/ ExecuteShadow(r) \/ Recapture(r) \/ Number(r) \/ Maintain(r)
  \/ Publish(r) \/ Lose(r)

Next == Edit \/ \E r \in Runs : Step(r)

Spec == Init /\ [][Next]_vars

----------------------------------------------------------------------------
(* Properties.                                                              *)

OutcomeTables == UNION {[c -> Outcomes] : c \in SUBSET Tests}
Inventories == [complete : BOOLEAN, red : BOOLEAN, outcome : OutcomeTables]
Plans == {"full", "scoped", "selected", "none"}
Statuses == {"passed", "failed", "incomplete", "no-tests-needed"}

ResultOK(res) ==
  /\ res.seq \in Nat /\ res.status \in Statuses /\ res.execution \in Plans
  /\ {res.inventory, res.selected, res.full} \subseteq Inventories \union {None}
  /\ res.seen \subseteq Runs

TypeOK ==
  /\ tree \in Trees /\ edits \in 0..MaxEdits /\ holder \in Runs \union {None}
  /\ DOMAIN pc = Runs /\ DOMAIN job = Runs /\ \A r \in Runs : ResultOK(job[r])
  /\ \A r \in DOMAIN runs : r \in Runs /\ runs[r] \in log
  /\ DOMAIN obligations \subseteq Tests \union {WholeGate}
  /\ \A k \in DOMAIN obligations : obligations[k].seq \in Nat
  /\ baselines \subseteq log /\ \A b, c \in baselines : b = c
  /\ \A res \in log : ResultOK(res)

\* What excuses a published failure of test x: a conclusive pass of x numbered
\* later, or a later clean full gate in which x no longer exists.
Excused(x, failing) ==
  \E res \in log : /\ res.seq > failing.seq
                   /\ \/ ConclusivePass(res) /\ x \in PassedIn(res)
                      \/ CleanFull(res) /\ x \notin Cases(res.inventory)

\* No failure is forgotten, in whatever order outcomes are committed and
\* whatever is pruned: until it is excused an obligation at least as new stands.
\* (history._upsert_obligation, _clear_passed_obligations, _reconcile_full_inventory)
FailureRemembered ==
  \A res \in log : \A x \in FailedIn(res) :
    \/ x \in DOMAIN obligations /\ obligations[x].seq >= res.seq
    \/ Excused(x, res)

\* A failure no test accounts for is owed until a clean full gate numbered
\* later has become the baseline.  (history._failure_reasons, _publish_baseline)
GateRemembered ==
  \A res \in log : Unattributed(res) =>
    \/ WholeGate \in DOMAIN obligations /\ obligations[WholeGate].seq >= res.seq
    \/ \E q \in log : CleanFull(q) /\ q.seq > res.seq

\* The baseline is a clean full gate, none numbered later was committed, and
\* pruning has left its own row in place for the reader that checks it.
\* (history._publish_baseline, _prune, _validate_baseline)
BaselineIsNewest ==
  /\ \A b \in baselines : CleanFull(b) /\ b.run \in DOMAIN runs /\ runs[b.run] = b
  /\ \A res \in log : CleanFull(res) => \E b \in baselines : b.seq >= res.seq

\* A plan that runs less than the suite runs every test that failed in some
\* committed outcome and is not excused, and is never made while an
\* unattributed failure is newer than every clean full gate.  (selection.choose_plan)
SelectionCoversFailures ==
  \A t \in Trees :
    LET p == ChoosePlan(View, t)
    IN  p.execution # "full" =>
          \A res \in log :
            /\ \A x \in FailedIn(res) : FileOf[x] \in p.files \/ Excused(x, res)
            /\ Unattributed(res) => \E q \in log : CleanFull(q) /\ q.seq > res.seq

\* A pass discharges an obligation only if every committed failure of that test
\* was committed before the passing run photographed its source: runs of one
\* checkout never overlap, although their sequences are read at the end.
\* (operations.execute, history.next_sequence)
OverlapClearsNothing ==
  [][\A k \in DOMAIN obligations \ DOMAIN obligations' :
       \E res \in log' \ log :
         \A q \in log : k \in FailedIn(q) \/ (k = WholeGate /\ Unattributed(q)) => q.run \in res.seen]_vars

\* A quarantine is never replaced by an older one, and is lifted only by a
\* comparison that itself passed twice, with a baseline of changed policy or
\* compatibility committed between the two.  (history._apply_quarantine_transition)
Stands ==
  quarantine # None /\ quarantine' # quarantine =>
    IF quarantine' # None THEN quarantine'.seq > quarantine.seq
    ELSE \E res \in log' \ log, b \in log :
           /\ res.seq > b.seq /\ b.seq > quarantine.seq /\ CleanFull(b)
           /\ BothPass(res) /\ res.status = "passed"
           /\ <<b.policy, ResultEnv(b)>> # <<quarantine.policy, quarantine.env>>
QuarantineStands == [][Stands]_vars

\* A shadow comparison compares the source it was planned for: when its verdict
\* counts, plan, both attempts and final photograph saw one source.
\* (operations._execute_shadow: planning_invalidation)
ShadowComparesPlannedSource ==
  \A res \in log :
    res.mode = "shadow" /\ Verdict(res) # "incomplete" =>
      SameSource(res.planned, res.before) /\ SameSource(res.before, res.after)

=============================================================================
