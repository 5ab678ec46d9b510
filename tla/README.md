# ptest, specified

`ptest` runs a project's tests for people and coding agents who share one
machine. Every invocation asks a per-user *slot scheduler* for admission; the
scheduler is no daemon but a SQLite ledger that all invocations rewrite in turn.
An admitted run launches a *guard*, a session leader that owns the test
processes; when they are gone the run commits its outcome and gives its slots
back. What a run found is published to a history, from which later runs decide
what they need not run: a full gate may be skipped or joined, a bare run starts
at the last green point, a selected run passes over tests whose recorded
dependencies have not changed.

Any of these processes may be killed at any step, and the next invocation has to
decide who is dead, who is merely unreadable, and what may be believed. Those
decisions are what this directory specifies. Paths below are relative to
`src/ptest/` of the repository.

## Inventory

| Part | State | Operations | Hard because |
| --- | --- | --- | --- |
| Scheduler (`scheduler.py`) | tables `domain`, `jobs`, `job_resources`, `observations` | `enqueue`, `poll`, `cancel_pending`, `register_guard`, `mark_draining`, `begin_finalization`, `finish`, `release_run`, `forget_checkouts`, recovery inside most of them | every process rewrites every row from what it can see of other processes |
| Bootstrap (`scheduler.py` 600-760) | ledger file, marker file | initialize, open | a crash between file, schema, marker and binding |
| Leases (`leases.py`) | a locked file and a sidecar per run | create, adopt, probe, discard, sweep | locks follow open descriptors across fork; files outlive rows |
| Guard (`guard.py`) | child, cancel signal, first problem, deadlines | register, setup, attempts, cancel and reap, drain | check and fork are not atomic; signals, stalls, deadlines and frames compete |
| Owner (`operations.py`) | ticket, grant, guard frames | `execute`, full gate, finalization | crashes between any two ledger operations |
| Platform (`platform.py`) | none | `process_identity`, `probe_group`, boot identity | answers may be stale or missing |
| History (`history.py`) | evidence database; publication, active, reserve, capacity and disabled markers | publish, recover, quarantine | markers and commit are separate steps; the disk may be full |
| Verified ledger (`verified.py`) | green records, incarnation and generation | `begin_full`, `record_green`, `forget` | a late green beside a withdrawal |
| Full gate (`history.py`, `operations.py`) | `full-lease.json` | claim, join, skip, take over | read and removal of the lease are two steps |
| Last green (`lastgreen.py`, `cli.py`) | one record per project | pass, failure, consult | the record vouches for files a run has not seen |
| Selection (`selection_*.py`, `source_index.py`) | dependency records, observers, gate | plan, record, update with eviction | edits before, during and after a run; a store that forgets |
| Bridge (`runtime/pytest_bridge.py`) | outcomes per worker, the terminal report | collect, schedule, report, reconcile | workers crash; hooks of the project rewrite what was seen |
| Storage, files (`storage.py`, `files.py`) | none | open, hot-journal recovery, atomic publish | crash between rename and bind |
| Update, uninstall | installation directory | download and swap; plan and apply | interrupted swap |
| Monorepo runs, reports and progress, configuration and contracts, command line, doctor and reviewers | immutable values, report files | | sequential; little or no shared state |

How they interact. Owner and guard share the run's lease descriptor (the guard
inherits it), speak over a socket pair in bounded frames, and both write the
run's row by compare-and-set on its state, nonce and guard identity. Owners
never talk to each other: the ledger is their only channel, and polling is the
only thing that drives recovery. After `finish`, the owner publishes to history,
which feeds the verified ledger that later runs consult before they enqueue; a
command line that reports a run moves the last-green record, and a run with a
recorder updates the selection store.

`PROJECT.json` lists every component with its status, and under `hazards` the
places where this code is hard to test, each with the properties about it.

What makes each part correct, in one sentence each:

- Scheduler: slots, checkout, resources and memory stay charged exactly as long
  as the work they were granted for may be running; admission is first come,
  first served; everyone who waits is answered; an outcome is committed only for
  proven quiescence, once.
- Bootstrap: all openers open one coordinator, and nobody is refused for what
  another opener is in the middle of.
- Leases: a free lock proves owner and guard dead; no sweep removes a live one.
- Guard: nothing is spawned after a cancel was accepted; every child is reaped
  or the group is killed; the first problem is the one reported.
- History: no failure is forgotten until it is excused; after a crash selection
  is never enabled on evidence that may be missing an outcome.
- Verified ledger: a tree withdrawn by a red run is not green again by a run that
  started before the withdrawal.
- Full gate: of identical full runs one works and the others wait or skip, and a
  dead one is replaced.
- Last green and selection: a test that an edit has broken is run, or known to
  be deferred.
- Bridge: a report of a pass is a pass of every collected test.

## Modules

| Module | Models |
| --- | --- |
| `Scheduler` | the ledger, the owners, guards and work it speaks about, and its properties |
| `Admission` | what the ledger promises a caller: a waiting line with tickets and conflicts; `Scheduler` refines it |
| `LeaseFiles` | lock and sidecar files under the scheduler's transactions, one file operation at a time |
| `Bootstrap` | how the coordinator comes to be, one file operation at a time |
| `GuardControl` | one guard and the controller that reads its frames, the channel between them, the clocks, and the verdict |
| `History` | the store of outcomes of one checkout, the plans made of it, and the runs between the two |
| `HistoryPublication` | the marker files around that store |
| `FullGate` | skipping, joining and running full gates over the verified ledger and the checkout's lease |
| `LastGreen` | the green point, and what each command of the command line reads and writes of it |
| `Selection` | recorded dependencies, the store of them, the plans made from them, and what runs record |
| `Bridge` | the two halves of the plugin in a parallel pytest run |
| `MCScheduler`, `MCLiveness`, `MCHistory`, `MCFullGate`, `MCParts`, `MCSelection`, `MCShadow` | the instances TLC checks |
| `SchedulerProofs`, `HistoryProofs`, `FullGateProofs`, `LeaseFilesProofs`, `GuardControlProofs` | theorems about a module for all values of its constants |
| `MCSchedulerProofs`, `MCFullGateProofs` | the same theorems about the instances TLC checks |
| `PartsProofs` | the theorems about `Bootstrap`, `LastGreen` and `Bridge`, for all values of the constants these have in `MCParts`, and those about guards and files for the instances in it |

Which lines of the program each definition stands for is in `PROJECT.json`,
under `map`. Operators commented *Mutant* are plausible mistakes in the code;
none is used by a specification, and each makes a run find a property violated.

An MC module holds several instances of one component (or, in `MCParts`, of
several components): a variable `case` (`part`, `system`) is chosen at the start
and never changes, and a behaviour is a behaviour of the instance it names.

### `Scheduler` and the code

One row of `jobs` is one record of `Row`. A column is kept if some guard of the
code or some property tells its values apart: `guarded` is *guard_pid IS NOT
NULL*, `nonce` stands for the pair nonce and generation, `seen` and `doubt` are
the two kinds of rows in `observations` (a recorded descendant, the uncertainty
sentinel), `reason` keeps the classes of reasons that the healing rule and the
release paths distinguish. Clock values become the set `late`: queued runs past
their deadline, active runs past `RELEASE_FORCE_AFTER_S`.

All of a ledger operation between `BEGIN IMMEDIATE` and the commit is one action,
because SQLite admits one writer and the code reads nothing before the lock that
it uses after it (limits and boot identity are read again inside). The recovery that
the code runs first in most operations is part of those actions:
`Recovered(ns)` is the set of tables one pass of an observer in pid namespace
`ns` may leave, one choice of answers (`Sights`) per row. `_grant_queued_locked`
is a loop over the queue; `GrantsExactly` says which set of rows it grants, each
member measured against those before it.

| Actions | Code |
| --- | --- |
| `Enqueue`, `EnqueueRefused` | `enqueue` and its refusals (nesting, capacity, memory) |
| `Poll`, `PollLost`, `Abandon` | `poll` and the polling loop of `operations.execute` |
| `CancelPending` | signals and refused preparation before a guard exists |
| `LaunchGuard`, `GuardLost` | `_launch_guard`; a guard that left without a complete handoff |
| `RegisterGuard`, `ClearToSpawn`, `Spawn`, `MarkDraining`, `GuardExit`, `GuardDies` | `guard.run_guard`, with the gap between the last check and the fork |
| `BeginFinalization`, `Finish`, `FinalizationRefused`, `OwnerExit` | the owner's finalization |
| `ReleaseRun`, `ForgetCheckout` | `ptest release`, uninstall's cleanup of a checkout |
| `KidExits`, `KidEscapes`, `OwnerCrashes`, `Reboot`, `TimePasses` | the world |

The constant `Events` names what the world may do in an instance: kill owners
(`crash`) or guards (`kill`), break a control channel (`break`), reboot, let
deadlines pass (`late`, `force`), let work leave its process group and tree
(`escape`), make observations unreadable (`blur`), reuse pids (`reuse`), and
call for `release`, `force` or `forget`.

Abstractions a reader should know:

- All observations inside one transaction are of one instant. The code makes them
  one after the other while processes go on.
- A guard has one unit of work, `kid`. It starts inside the guard's group, may
  leave the group (`escaped`, still in the tree) and then the tree (`daemon`).
  Work that daemonized before any pass recorded it is beyond the program's own
  promise ("not proof against unobserved daemonization") and is followed no
  further once the guard spawns again.
- The lease lock is held while its owner or its guard lives; that the files say
  so is what `LeaseFiles` shows. A failed probe and an invalid sidecar are
  `blur`. Rows written by versions without sidecars are not modelled.
- `MarkDraining` may happen while work still runs in the group: the guard's own
  scan does not prove absence, and the code does not rely on it.
- `ClearToSpawn` lets the first process of a guard start on registration alone,
  which the code does only for a declared setup.
- SQLite contention rolls the transaction back and the caller tries again or gives
  up; neither changes the ledger, so it is not an action.
- Sequence numbers are not bounded by a constant: each run is enqueued at most
  once, so they are bounded by the number of runs.

### `LeaseFiles` and `Bootstrap`

Here a step is one file operation, and each may be the last of its process. In
`LeaseFiles` the transaction that holds the ledger's write lock is `db`: it
sweeps the files of rows that are not there (`Sweep`), judges other rows by
their locks (`Judge`), creates its own lock and sidecar (`CreateLock`,
`CreateSidecar`), and commits, discards or rolls back. `removal` is the one
unfinished removal of each process (lock taken, sidecar unlinked, lock file
unlinked, each only if the inode is still the one it looked at). A guard inherits
the descriptor and adopts it if the sidecar names that inode. `leases.run_ids`
reads at most 1024 entries, so a sweep is best effort; the model lets it remove
any of the files it may remove.

`Bootstrap` has one step per file operation of `_open_state` under the bootstrap
lock, for the three ways of opening: `create` (enqueue, initialize), `write` and
`read`.

### `GuardControl`

A step of the guard is what it does between two points where a signal, a frame, a
clock or a death can make a difference: two looks at the channel around the fork
(`Check`, `Recheck`, `Fork`), the watch over the child, the reap, the facts. The
controller is `_Frames` for one attempt and `_CompoundFrames` for the two of a
comparison: `Accepts` decides about each frame, `Verdict` is `_outcome` and what
feeds it. Clocks are events: `expired` is the compound deadline; the decision
budget, the stall window and the reaping grace may end at any moment they run.
Before an attempt the guard scans its group (`NextAttempt`) and then asks for leave
(`Ask`), with a report of its progress between the two, where signals and frames
are met.

A scan of the process group proves nothing by itself, and the model keeps it so:
an answer that does not come counts as somebody left (the event `doubt`), and a
member forked while the process table is walked may be missed (`racing`), in the
scan before an attempt (`Evidences`) as in the one that ends the reaping (`Reaped`).
So DRAINING does not mean that the group is empty, and no property says so. What
`PassIsEarned` says of the group rests on the scheduler's probe of it when the owner
begins finalization, which is part of `OwnerJudges` (`Probes`): a verdict stands if
that probe finds nobody, otherwise the run is incomplete (`Uncertain`).

### `History` and `HistoryPublication`

In `History` a publication is one transaction and one action (`Publish`), and
everything a run does before it (`ReadHistory`, `PlanRun`, `Admit`, `Capture`,
`Gate`, `Execute`, `Recapture`, `Number`, `Maintain`) is a step of its own, with
edits of the tree between any two. The content of the tree is a version per path,
the environment and the policy a number each. A report is anything the native
runner could have brought back for the files it was given (`Reports`).
`ChoosePlan` is `selection.choose_plan`. `log`, the set of all committed
outcomes, is never read by the program and only serves the properties.

`HistoryPublication` keeps the files: the writer lock, the publication, active,
reserve and capacity markers, the disabled marker and the database. A publisher
is its program counter; each write, rename and removal is a step that may fail or
be the last. The reader reads them without a lock, in the order of
`_selection_marker`. `setting`, chosen at the start, says who publishes (the
others are gone from the beginning), which store there is, and what may fail.

### `FullGate`

A run decides whether its own baseline or a record of the ledger verifies its
source (`CompareOwn`, `CheckLatest`, `CheckProof`, `Find`, `Match`, `Skip`), then
claims, joins or takes over the checkout's lease (`Claim`, `Look`, `ReadDead`,
`UnlinkDead`, `PollVerdict`, `PollLease`), then runs (`Admit` to `Recapture`) and
feeds the ledger (`Withdraw`, `Commit`, `Feed`). A tree is its commit, its digest,
the files it shares with a monorepo, and whether Git calls it clean. Of a run the
model also keeps what is only for the properties: `known`, the failures when its
gate began, and `began`, those when its token was taken.

### `LastGreen`, `Selection`, `Bridge`

`LastGreen` has a terminal in which commands are typed; a file is one of four
contents, of which `Broken` fails the tests that import it. A command has a static
plan (`Planned`), made from the green point, the failed files and the import graph,
and what it runs is that plan or, of a pytest project, whatever the selection engine
narrows it to, defers or adds (`Refined`): any tests at all, as far as this module is
concerned. A pass moves the green point either way. Vitest is given the commit
and looks for the changes itself (`Compared`). Files that are too large to hash
(`Large`) and the caps on remembered failures and on dirty files (`MaxFailed`,
`MaxGreenFiles`) are those of the code. `past.left` has the tests the record was let
off, and only serves the properties. `Selection` gives
every unit of source a value (the body or the signature of a function, an
assignment, an import's effect, a data file, a file's syntax and existence); what
a test does is a function of the units it looks at, so that *would it fail now*
can be asked of a test that was not run. `Bridge` has both halves of the plugin:
workers collect, run the phases of each test and report; the controller counts,
and its verdict is `_reconcile_parallel`. What the controller keeps is a counter in
the code and the set of what was counted in the model, so that a sum over the
workers is the size of a union: each failure is counted by the worker that has
the test, and xdist gives a test to one worker. That no two workers record one
test, which `_merge_worker_outcomes` checks, is `Mergeable`. `grant` says whether
the run is a full one, of the advanced profile, and what may happen to it.
`truth`, which the program never reads, is what became of each test.

## Runs

| Run | Instances | Shows |
| --- | --- | --- |
| `scheduler_queue` | three runs, two of which name one resource, two configurations (one with a memory budget), deadlines | `TypeOK`, `Isolation`, `FirstComeFirstServed`, `GrantsWithinLimits` while limits tighten, and that the ledger implements `Admission` (`ImplementsAdmission`) |
| `scheduler_faults` | two runs under crash, kill, escape and blur; two pid namespaces with reused pids and releases; operator releases, forced and not, with broken channels and deadlines; reboots; a run invoked from inside another's work | work is charged while it lives (`ChargedWork`); nobody takes a live owner's grant (`KeptGrants`); conflicting runs never work at once (`ConflictsExcluded`); doubts never undo a handoff (`HandoffNeverUndone`); commits are quiescent (`CommittedIsQuiescent`); nested work never queues behind its parent (`NestingNeverWaits`) |
| `liveness` | a waiter behind owners and guards that crash; a controller of tests that need not end; two full gates of one checkout | `EveryTicketAnswered`, `EveryRunAnswered`, `WaitersLeave` |
| `history` | a full, an automatic and a scoped run while the tree changes; two full gates while the environment changes or cannot be read; publishers and a reader around the markers with crashes, contention, a full store, resisting markers, a re-initialised project | `FailureRemembered`, `GateRemembered`, `BaselineIsNewest`, `SelectionCoversFailures`; `LossDisables`, `CapacityOutlives`, `GoneMeansClean`, `ReceiptIsTrue` |
| `shadow` | two comparisons and two full gates while source and policy change; plans made from recorded dependencies: functions, names and import effects; lazily imported files, data, child processes, runs cancelled or incomplete; two worktrees over one store that evicts | `TypeOK`, `ShadowComparesPlannedSource`, `QuarantineStands`, `OverlapClearsNothing`; `SelectionMissesNothing` |
| `fullgate` | two checkouts over a ledger of one record; a damaged ledger; Vitest gates with and without coverage; a child of a monorepo; duplicates that crash or do not commit | `NoStaleGreen`, `ProofMeasured`, `SkipIsBacked` |
| `parts` | a guard with setup and attempt, one with two attempts, one with an attempt and no setup; the green point; a full and a scoped parallel run of two workers; the files of three runs in two namespaces, and of a run that cannot tell its own; three openers of a coordinator | `PassIsEarned`, `ExecutionNeedsContinue`, `FirstEndWins`, `CleanGuardIsBelieved`; `RecordIsSound`; `ParallelReportIsTrue`; `LeaseFilesTellTruth`; `BootstrapHolds` |
| `fullgate_one_wins` | three forced gates of one checkout, one dies | `OneWins` is violated |
| `fullgate_join` | two gates with coverage of one checkout; the tree is edited and the edit taken back | `JoinIsForSameInputs` is violated |
| `lastgreen_deletion` | a file is deleted after the green point | `DeletionsAreFound` is violated |
| `selection_eviction` | a store that evicts the last record of a test | `ForgottenTestsRun` is violated |
| `selection_late_edit` | an edit between the check of a run's inputs and the digests of its records | `LateEditsAreFound` is violated |

The last five check what a comment or a document of the repository says and find
that the code does otherwise; `PROJECT.json` quotes it under `findings`. In
short: of several duplicates that find a dead claimant, two can lead, because
removal and claim of the lease are separate; a joiner compares its inputs with
those its leader had captured before it was admitted, and takes over the green of
whatever the leader ran on; a file that was clean at the green
point and is deleted is not a change for the next bare run's static plan; a test whose last
record was evicted while a neighbour in its file has one is neither run nor
deferred; results are filed under the digests of an edit made after the check.

Each property of a passing run is paired with a mutant of a mapped definition,
under which the same run finds the property violated.

### Bounds, and why they are enough

Scheduler: every rule of recovery concerns one row and its own processes; a
conflict concerns two rows. Two runs therefore show every way a row can be
misjudged while another profits from it, and the queue instance has a third run
so that a line has a head, a middle and an end. Two configurations are enough to
tighten and to introduce a budget; the code refuses to loosen while anything is
live. `MaxPending` is 2 and `KeepTerminal` 2, small enough in the queue instance
for the third arrival to be refused and for numbers to be reused after a row was
forgotten in the others. What these bounds leave open is closed by the theorems.

`BlindForce` excludes one combination from three invariants: `release --force`
after the time limit, while the lease lock cannot be read, frees whatever it is
told to free. That is what the option is for. `Working(r)`, on which the charging
invariants rest, counts the registered guard, work in its group, and escaped work
that some pass recorded. Where foreign observers or `--force` exist only the
guard counts, because by design these paths judge by the lease lock, which the
work does not hold.

History: three runs, so that an outcome can be committed before, between and
after the two it bears on, and `Summaries` small enough (1, 2) that the row of a
baseline would be pruned if nothing kept it; one or two edits, which is one
change and one change back. `shadow` has three edits, because a
quarantine is set, outlived by a change of policy, and lifted. The markers have
up to three publishers and one reader in the four settings of `Stores`: three
publishers with crashes and contention, a store that may be full, markers that
resist, the store of an earlier project; what holds of other settings is proved.

Full gate: two checkouts and three runs are a red run, a green run before it and
one that profits; `MaxRecords` is 1 or 2, so that the ledger is cut. The join is
refuted with two edits, one there and one back.

Guard: one attempt behind a setup is what most commands run, two attempts a
comparison; nothing in the code distinguishes a third. Each fault may happen at
every step.

Files: three runs in two namespaces are an owner, a foreign judge and a third
that sweeps meanwhile; `MaxTries` 2 in the smaller instance lets a run find what
its own failed enqueue has left. Three openers are one that dies, one that
completes and one that looks meanwhile.

Last green, selection, bridge: `MaxEdits`, `MaxCommits` and `MaxRuns` are 1 to 3:
a change, what records it, and a second change on top. Two tests and two workers
are enough for one to speak for the other, which is what goes wrong. The green
point has one file that is too large to hash, room for one failed file and for two
dirty ones, so that three files and two tests meet each of its caps.

What some properties leave to others, or to tests: `FailureRemembered` excuses a
failure by any later pass of the test, in whatever environment, and does not follow
a renamed test;
`SelectionCoversFailures` speaks of committed failures and the view a plan was made
from, not of a source that changed since (`ShadowComparesPlannedSource` does) or of
a view that grew stale; `FirstEndWins` says which end decides, not how many dump
and kill signals are sent.

All runs switch TLC's deadlock check off: when every process has ended nothing
happens any more, and that is how each of these systems stops. That nothing stops
earlier is what the liveness properties say.

### Fairness

Only `liveness` assumes any, and only of the system a behaviour is about.

- Scheduler: weak fairness of what processes do on their own: a waiting owner
  polls (the loop has no other exit than an answer, a signal or a deadline), a
  guard that runs takes its next step, an owner reacts to its guard's end,
  finalizes and exits, and work below a guard ends (every attempt has a deadline
  after which its group is killed). Nothing is assumed of arrivals or operators, and
  crashes never have to happen: a crashed owner or guard is recovered by
  the polling of whoever waits behind it. Observations are readable in that
  instance; with observations that may stay unreadable for ever nobody behind such
  a row is ever admitted, which is the code's fail-closed choice.
- Guard: guard and controller take steps, and the compound deadline passes. No
  test has to end by itself.
- Full gates: each live run takes its next step; a run that waits for another
  polls until it hears of its verdict, its death, or its own queue timeout.

## Proofs

Checked by TLAPS for every value of the constants that satisfies the named
assumptions. Sets of runs, tests, openers and checkouts need not be finite in
them, but for the tests of a parallel run, which are counted.

| Theorem | States | Module |
| --- | --- | --- |
| `Typing` | `TypeOK` of the scheduler | `SchedulerProofs` |
| `GrantsAreIsolated`, `LineIsFair` | `Isolation`, `FirstComeFirstServed` | `SchedulerProofs` |
| `GrantsAreWithinLimits` | `GrantsWithinLimits` | `SchedulerProofs` |
| `LedgerImplementsAdmission` | `ImplementsAdmission` | `SchedulerProofs` |
| `WorkStaysCharged`, `GrantsStay`, `ConflictsNeverWork` | `WorkIsCharged`, `OwnerKeepsGrant`, `NoConflictingWork` | `SchedulerProofs` |
| `HandoffIsFinal`, `CommitsAreQuiescent` | `HandoffNeverUndone`, `CommittedIsQuiescent` | `SchedulerProofs` |
| `NestingNeverQueues` | `NestedNeverWaits`, where no lease file is unreadable and no release is forced | `SchedulerProofs` |
| `WorkIsChargedInAll`, `GrantsAreKeptInAll`, `ConflictsAreExcludedInAll`, `NestedWorkNeverWaits` | the four properties of `scheduler_faults` made of these | `MCSchedulerProofs` |
| `Typing` | `TypeOK` of the history | `HistoryProofs` |
| `FailuresAreRemembered`, `GatesAreRemembered`, `NewestBaseline`, `PlansCoverFailures`, `OverlapsClearNothing` | `FailureRemembered`, `GateRemembered`, `BaselineIsNewest`, `SelectionCoversFailures`, `OverlapClearsNothing` | `HistoryProofs` |
| `ComparisonsAreOfThePlan`, `QuarantinesStand` | `ShadowComparesPlannedSource`, `QuarantineStands` | `HistoryProofs` |
| `LedgerHeedsFailures`, `LedgerIsMeasured`, `SkipsAreBacked` | `NoStaleGreen`, `ProofMeasured`, `SkipIsBacked` | `FullGateProofs` |
| `NoStaleGreenInAll`, `ProofMeasuredInMeasured`, `SkipsAreBackedInAll` | the properties of the run `fullgate` made of these | `MCFullGateProofs` |
| `LossesDisable`, `GoneMarkersMeanClean`, `CapacityClaimsOutlive`, `ReceiptsAreTrue` | `LossDisables`, `GoneMeansClean`, `CapacityOutlives`, `ReceiptIsTrue` | `HistoryProofs` |
| `FilesTellTheTruth` | `LeaseTellsTruth`, `NoOrphans` | `LeaseFilesProofs` |
| `Invariance` | the guard's inductive invariant, from which `Consequences` concludes `PassIsEarned`, `ExecutionNeedsContinue` and `FirstEndWins` | `GuardControlProofs` |
| `PassesAreEarned`, `ExecutionsAreContinued`, `CallersCancelFirst` | these three, of the guards in the run `parts` | `PartsProofs` |
| `Trust` | for a single attempt, the invariant from which `Believing` concludes `CleanGuardIsBelieved` | `GuardControlProofs` |
| `CleanGuardsAreBelieved` | `CleanGuardIsBelieved`, of the guards with one attempt in the run `parts` | `PartsProofs` |
| `OpenersFindItWhole`, `BirthIsSound` | `BootstrapHolds` | `PartsProofs` |
| `FilesAreSound` | `LeaseFilesTellTruth` | `PartsProofs` |
| `RecordsAreSound` | `RecordIsSound` | `PartsProofs` |
| `ReportsAreTrue` | `ParallelReportIsTrue` | `PartsProofs` |

### The ledger alone

`Inv` of `SchedulerProofs` is types, `Orderly(jobs)`, and that a run whose owner
has not arrived has no row. `Orderly` joins isolation and order with two facts they
need: queued rows are unguarded, and live rows have different numbers. Without
the first, a reconciling pass could make a queued row UNCERTAIN and so active
past the line; without the second, "before in line" would not be a total order
and the scan could admit two runs for one place. Recovery, limits and every
action of owner, guard, operator and environment only *remove* claims (`Shrunk`:
rows may leave the line or stop holding, none is added and no number changes);
only `Poll` grants, and `GrantsOrderly` shows that a prefix of the line, each
member fitting beside the ones before, keeps the order; only `Enqueue` appends.
`EveryStep` says that each step removes, grants or appends, which is at the same
time the case analysis of the refinement.

`GrantsWithinLimits` speaks of sums over all rows that hold a grant, which is
where the set of runs matters: it need not be finite. Tickets are bounded
(`Bounded`), and live rows have different tickets, so the live runs are finitely
many (`LiveFinite`, an injection into 0..n). Those granted in one scan have a last
one (`LastGranted`), which was measured beside all others (`GrantsFit`). A sum
is the cardinality of a set of pairs (`Total`, `TotalAdds`), so nothing recursive
is needed.

### The ledger and the processes

`Kept` relates each row to its processes: `Accounted` joins `Courses` (which
combinations of owner, guard and work exist), `Staged` (the phase of the row that
an owner or a guard at some point of its way relies on) and `Backed` (work is
behind an active row with the evidence recovery looks for), and `Quiet` says that
after a reboot nothing works until the boot was recovered. It is not inductive row
by row without a description of what a recovery pass can do, and that is the
heart of the proof: `PassTells` shows that a pass leaves a row *open*, as it was
but for doubts, or *closed*, and closes it only when nobody that relies on it
lives. Every action is then a pass, and one step on the row of its own run. The
action properties follow from `Onward`, which says of each row in each step that a
handoff is not taken back and that a commit comes from a finalization with its
proof. `NestedNeverWaits` is proved where no release is forced and no lease
file is unreadable: a forced release may close the row of a parent whose work goes
on, and `_check_nested_once` passes over a row whose lease file does not read
(`_classify_row` calls it foreign), so that the parent is not recognised and the
nested run queues behind it.

### History

`Shape` is types, and that an outcome is committed once, by a run that leaves.
Each of the four invariants is then inductive beside it, because only `Publish`
changes obligations and baseline, and what a publication discharges is numbered
after what it excuses. `OverlapClearsNothing` needs `Leased`: a run past its
photograph holds the admission, so that what it has not seen at that moment was
not committed before it ends.

`ShadowComparesPlannedSource` rests on `Compared`: a run has attempts only where
plan and capture saw one source, and a comparison passes only where both attempts
did and the verdict counts. `QuarantineStands` rests on `Sourced`: what a run
carries of sources is of trees that exist, so that what it suspects is never
`None`, the mark of a lifted quarantine.

### The markers around the store

`MarkersInv` of `HistoryProofs` says of every outcome that is or may be lost that
it is vouched for (`LossesVouched`): the publication marker or the capacity claim
carries its number or a higher one, and is not among the markers that the holder
of the lock is about to remove (`Due`). That is not inductive, because a publisher
takes its own publication marker back. `Based` makes it so: whoever holds the
lock has found a marker for every such outcome but its own, so that it may remove
its own when it has inherited none, and a full gate may remove what it found
because its commit has settled everything the markers vouch for. `Learnt` says that what
the holder has read is still so, `Cleans` that a capacity claim is removed behind
a committed row only, and that a receipt promises what is left when everything due
is removed; `CapacityOutlives` and `ReceiptIsTrue` are read off these two.
A reader takes no lock, so `ReadsAt` carries what it has seen from one read to the
next: once the publication marker is gone, a loss that is still a loss has a
capacity claim that is not about to go, and that is what the second read of the
capacity finds. `LossDisables` holds where markers can be written and removed and
the store is never full (`Smooth`). There `Owned` says that a live active marker
belongs to the holder of the lock, who has inherited nothing; by `Based` nothing
is lost at that moment. Everywhere else it is false: see *Seen while modelling*.

A publisher's step is one that writes no marker and takes or gives back the lock
(`Aside`), or one of the holder that keeps the lock (`Holds`). `AsideKeeps` and
`HolderKeeps` prove the invariant for these two, and the actions are shown to be one
or the other (`PublishIs`). The greatest number of a finite set (`GreatestNumber`)
exists because only finitely many numbers have been given (`Shallow`); neither
publishers nor readers need be finitely many.

### Full gates

Whatever the program remembers of a pass (a record, a baseline, what a gate read
of either) names a run that passed on that very tree, and a run that passed never
changes again (`Steady`). `Tokens` gives the ordering of incarnation and
generation its meaning: a token of the present ordering was taken after every
withdrawal so far, so that a `Feed` authorised by comparing two pairs of numbers
records nothing that was withdrawn meanwhile. What a gate read of the ledger
before it compared is kept in `Reads`, because the ledger may change or be lost
before the comparison. `WithoutKeeps` and `CutKeeps` are about the recursive
function that withdraws records and the cut to `MaxRecords`; they are proved with
the least number principle (`LeastNat`, `Induct`), since the library's induction
theorems cannot be instantiated.

### Files

`Files` says for each row that may be judged that its two files exist, name each
other and are locked by whoever lives. It rests on `Transactions`: what the one
transaction knows of its own files and of those it has judged at each of its
steps, and on `Removals`: files are removed only of rows that are terminal or
absent, or by the transaction that created them. Of a coordinator's birth, `Shape`
orders the files (ledger, schema, marker, binding, rows), `Knows` is what the
holder of the lock knows at each step, and `Verdicts` what an opener that left has
found and nobody takes back.

### Guards

`IInv` of `GuardControlProofs` has three parts. `Control` is what the guard's record
says by itself: a guard with a problem has cancelled and is closed to new work, an
open gate is that of the present attempt, and a decision, on its way or received,
is one the controller has made (`Sane`, `Decided`). `Work` is what a point of the
guard's way fixes of child and group: `Placed` (where a child may be, and that an
attempt is about to be forked with leave), `Coded` (an exit code belongs
to an attempt that was started), `Quieted` (draining, or an exit of 0, means that
no child will exit any more). That the rest of the group is gone is not among them:
it comes from the scheduler's probe, in the step that judges. `Records` is what
frames and the controller's copies say of attempts that are over: `Told` (facts
without a problem say how the child exited) and `Settled` (nothing of an attempt
is accepted before its gate, and no gate before the setup has passed). None of
the three is inductive alone: that a `facts` frame is true when it is sent needs
`Placed` and `Coded`, that it stays true needs `Done`, that no child of that
attempt exits again, and that a decision is the present attempt's needs `Sane`
and `Decided`. `Earned` is then proved of the step in which the controller
judges, where its records are read.

That a clean guard is believed needs a second invariant, `Belief`, for guards with one
attempt. Frames are on their way while the guard goes on, so what the controller
has recorded lags behind by any number of them. `Fits` says, for each point of the
guard's way, what record the frames sent so far make; `Believed` says it of the
record with everything on the channel received (`ReceivedAll`, a fold), for
every record that agrees with the controller's in the fields it looks at, so that
cancelling, deciding or judging may change the others. A frame that is sent is
then accepted because the record it meets fits (`Noted`, `ReceivedMore`). The
opposite direction is `Waits` and `Mails`: a decision is made only for a guard that
stands at its gate with nothing more to read, and there is at most one on its way
to it, so that a guard reads it as its own (`DecisionHeard`) or is cancelled
(`CancelHeard`). `Unhurt` is what a guard that has not been disturbed knows of
itself, and `Clean` what makes it so: not cancelled, not killed, and a controller
that is there. `IInv` is needed for one thing at the end: a guard that exits 0 has
never been cancelled (`Quieted`). With two attempts the property is false, see *Seen
while modelling*.

### The green point

A record is sound (`Sound`) when every file a test imports was as it should be at
its point, and no file that was dirty then has the content again that the point's
commit gave it. The second half is what the code's fingerprint leaves to chance, and
what makes the first attempt at a proof fail: see *Seen while modelling*. Both halves
speak of the tests the record was not let off. A bare run that passed without a test
of its static plan (the selection engine narrowed or deferred it, or `--base` named a
later commit) moves the green point past that test's changes, and a failure that
finds no room among the remembered ones is forgotten; `past.left` collects these
tests until a passing covering run includes them again, and of a dirty file that is too
large to hash (`Unhashed`) nothing is claimed. The theorem is about the static plan of
a bare run under pytest and Vitest, in projects in which files are not
restored to an earlier content while they are dirty, nothing is deleted, and
commands do not overlap; deletion is the subject of a violation run. Whether what
the selection engine leaves out of that plan would have passed is the question of
`SelectionMissesNothing`. `Sees` says what a command knows at each of its steps.
`past.red`, the tests whose last reported run failed, is among the files the record
names as failed, or was let off.

### Parallel runs

`SuiteInv` follows a report from the worker to the verdict. `HalfSound` is a worker
half's knowledge of itself; `Lived` ties the tests it has run to what became
of them, `Carried` what is on the wire to what the worker knows, `Heard` what the
controller has received to both. `Echoed` speaks of the inventory: for a test whose
failures all reached the controller or are on their way to it, the last report that
counts agrees with the worker's own record if it is still on the wire, and the
inventory agrees if it is not. Hooks may turn a failure that is sent into a
pass, and then this does not hold; but then the failures a worker recorded are more
than those reported, and the verdict refuses (`GoodIsTold`). At the verdict
of a complete report every worker has finished and its record is the one it wrote
(`GoodIsHeard`), every test collected has run to an end (`GoodIsWhole`), and
counts and inventory are those of `truth` (`GoodIsCounted`). The argument
about counting is one about finite sets: as many failures in a subset as in the
set are all of them.

### Assumptions

`RequestAssumption` and `LimitsAssumption` of `Scheduler` (positive slots, natural
numbers for memory and bounds, `NoRun` is no run); `NoneDiffers` of
`LeaseFiles` and `Bootstrap` (`None` and a torn marker are no run and no inode);
`AttemptsMakeSense` of `GuardControl` (at least one attempt, a finite number);
`ProjectMakesSense` of `LastGreen` (a test file is a source, and imports itself);
`SessionMakesSense` of `Bridge` (`gw0` is one of the workers, the tests are finitely
many, `None` is no collection and no outcome);
`ConstantsMakeSense` of `FullGate` (each run has a checkout, the bound on records
is a number); `HistoryAssumption` of `History` (the modes and observable outcomes
are among those known, `WholeGate` is no test, `None` is no run) and its `NoneAssumption`
(`None` is no quarantine row); `MarkersMakeSense` of `HistoryPublication` (`None` is
no publisher, number or warning; full gates and shadow runs are publishers, a
setting starts from one of the three stores). Those that are hypotheses of a theorem are
assumed of the instances by the MC module (`NoneAssumption`, `GatesMakeSense`,
`CaseAssumption`, `MarkersAssumption`), where TLC evaluates them.

### Only model-checked

Out of this prover's reach: everything about liveness and fairness
(`EveryTicketAnswered`, `EveryRunAnswered`, `WaitersLeave`); and
`SelectionMissesNothing` of `Selection`, which follows names through names and
signatures through callers with recursive operators.

Not true in general, hence not theorems: what the five violation runs refute.
`CleanGuardIsBelieved` is false of a guard with two
attempts, so run and theorem state it of guards with one.

## Seen while modelling, without a run

- A source edited between the plan of a selected run and its admission is run for
  the old plan (`operations.py` 3362, 3754, 3820; the design of 2026-09-18, task
  12 amendment, line 75, plans from the inputs that execute).
- `_publication_sequence` is read before the span that its comment
  (`history.py` 699-701) speaks about.
- On a store that may be full a reader can miss a loss: it reads the capacity (no
  claim) and the publication marker with number n; that publisher's claim is promoted and
  its publication marker removed; a later publisher, which took the same number
  n before the lock because nothing was committed, declares itself active; the
  reader finds n active and returns without reading the capacity again
  (`history.py` 688-712). And when a claim cannot be renamed, the active marker of the
  failed publisher exempts its publication marker while its process lives. Hence the
  premise of `LossHeeded`.
- A reader that sets a re-initialised project's store aside may race a publisher
  that has found it already (`history.py` 716).
- An assignment that raises when its module is imported selects nothing
  (`selection_planner.py` 836-840); the model's `Unimported` allows for it.
- `ptest --base REF` with a base later than the green point moves it all the same
  (`cli.py` 3720, 3884), and so does a bare run from which the selection engine left
  tests out (`cli.py` 3858). Hence `past.left` in the properties of `LastGreen`.
- A standalone `--full` that is skipped records a green point (`cli.py` 4289),
  the monorepo path says that a skipped child records none (`cli.py` 4549).
- A failing full run, and one whose arguments were collapsed, record no failed
  files; two processes that record at once lose an update (`lastgreen.py`).
- A file that was dirty at the green point and is restored to HEAD is no change for
  the next bare run (`lastgreen.py` 306). Commits do the same: a breakage is
  committed, a run with the fix in the working tree is green, the fix is committed
  and reverted by a further commit; point and HEAD then agree about the file, so that
  no diff names it (376-389), and its entry in the fingerprint is compared with a
  working tree that is not dirty. `selection_engine._since_gate` (640-670)
  compares contents instead. In `LastGreen` this is the event `restore`, which the
  instance leaves out.
- A crash before the schema is committed, or within the write of the marker,
  leaves a coordinator that is refused for ever; a reader calls one that a writer
  would repair corrupt (`scheduler.py` 727-729).
- A guard with two attempts whose first cannot start (its executable is missing)
  ends as it should, with facts, DRAINING and exit 0, and its controller rejects
  that DRAINING: not every attempt has facts, and nothing was stopped or cancelled
  (`operations.py` 1457-1464). The handoff is then invalid and the run incomplete,
  where a single attempt gives a failure with exit 127. Hence
  `CleanGuardIsBelieved` is asked of guards with one attempt.
- `ptest release` without `--force` may close a row whose recorded descendant has
  escaped and lives: its evidence is owner, guard and group.

## Not modelled

Monorepo runs are a sequence of child runs, each through `execute`. Reports and
progress are files of one attempt and the terminal. Update and the rest of
uninstall change an installation, under the domain's leases, and share no other
state with a run. Configuration and contracts are parsing and validation of
immutable values, which reach the models as constants. The doctor, the reviewers
and the policy are sequential and advisory. Inside the modelled parts: the schema
and validation of stored rows, the adapters that build commands, the Vitest
bridge, and SQLite's own atomicity and recovery, which is assumed.

## Plan

Next to prove: `Selection`, once its two recursive operators are written as
closures over a relation.
