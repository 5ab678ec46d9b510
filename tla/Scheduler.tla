------------------------------ MODULE Scheduler ------------------------------
(***************************************************************************)
(* The slot scheduler's ledger (src/ptest/scheduler.py) together with the  *)
(* processes it speaks about: the owner of each run (the ptest command     *)
(* that enqueued it), the guard the owner launches, and the repository     *)
(* work below the guard.                                                   *)
(*                                                                         *)
(* Every ledger operation is one BEGIN IMMEDIATE transaction, so it is one *)
(* action.  Inside it the code composes pure steps on the table of jobs,   *)
(* and so does this module: RecoverBoot, then a RecoveryView of every row, *)
(* then RefreshLimits, then the FIFO scan.  What a transaction observes of *)
(* the process table is chosen by \E among what the kernel may answer.     *)
(***************************************************************************)
EXTENDS Integers, FiniteSets

CONSTANTS
  Runs,         \* run identities; each is enqueued at most once
  Checkout,     \* [Runs -> checkout identities]
  Namespace,    \* [Runs -> pid namespaces], recorded in the lease sidecar
  Want,         \* [Runs -> slots requested]
  PerWorker,    \* [Runs -> memory_mb per worker], 0 for None
  Exclusive,    \* the runs that ask for an exclusive grant
  Locks,        \* [Runs -> sets of named resources]
  Parent,       \* [Runs -> the run whose work invokes it, or NoRun]
  NoRun,
  Configs,      \* contents the machine configuration may have
  MaxPending,   \* MAX_PENDING_JOBS
  KeepTerminal, \* MAX_TERMINAL_SUMMARIES
  Events        \* what the environment of an instance may do besides running:
                \* crash, kill, break, reboot, late, escape, blur, reuse,
                \* release, force, forget

ASSUME RequestAssumption ==
  /\ NoRun \notin Runs
  /\ Want \in [Runs -> Nat \ {0}]
  /\ PerWorker \in [Runs -> Nat]
  /\ Exclusive \subseteq Runs
  /\ Parent \in [Runs -> Runs \union {NoRun}]
  /\ DOMAIN Locks = Runs

ASSUME LimitsAssumption ==
  /\ Configs \subseteq [slots : Nat \ {0}, jobs : Nat \ {0}, memory : Nat]
  /\ MaxPending \in Nat
  /\ KeepTerminal \in Nat

VARIABLES
  jobs,    \* the jobs table with its observations: [Runs -> Row]
  limits,  \* the limits stored in the domain row
  stale,   \* the stored boot_id is not the kernel's
  late,    \* runs past their queue deadline, or past RELEASE_FORCE_AFTER_S
  client,  \* where each owner is in operations.execute
  guard,   \* where each guard is in guard.run_guard
  kid      \* the repository work below each guard

vars == <<jobs, limits, stale, late, client, guard, kid>>
processes == <<client, guard, kid>>

-----------------------------------------------------------------------------
(***************************************************************************)
(* The jobs table.  "absent" is a run without a row.  CANCELLING is in the *)
(* code's closed set of states, but no operation ever writes it.           *)
(***************************************************************************)
ActiveStates == {"GRANTED", "RUNNING", "DRAINING", "FINALIZING", "UNCERTAIN"}
TerminalStates == {"RELEASED", "CANCELLED"}
States == ActiveStates \union TerminalStates \union {"QUEUED", "absent"}
Phases == {"none", "admission", "setup", "draining", "finalization", "complete"}

\* "transient" stands for _HEALABLE_UNCERTAIN_REASONS, "detached" for
\* unsupported-detached-descendant, "proof" for a finalization that lacked its
\* proof, "operator" for release_run, "lost" for every other reason.
Reasons == {"none", "timeout", "transient", "detached", "proof", "operator", "lost"}

Row == [state : States, phase : Phases, reason : Reasons, seq : Nat,
        slots : Nat, memory : Nat,    \* slots, reserved_memory (0 for None)
        guarded : BOOLEAN,            \* guard_pid IS NOT NULL
        nonce : BOOLEAN,              \* nonce and generation are set
        seen : BOOLEAN,               \* the last descendant is in observations
        doubt : BOOLEAN,              \* the sentinel is in observations
        final : {"none", "committed", "incomplete"}]

AbsentRow == [state |-> "absent", phase |-> "none", reason |-> "none", seq |-> 0,
              slots |-> 0, memory |-> 0, guarded |-> FALSE, nonce |-> FALSE,
              seen |-> FALSE, doubt |-> FALSE, final |-> "none"]

Active(t) == {r \in Runs : t[r].state \in ActiveStates}
Queued(t) == {r \in Runs : t[r].state = "QUEUED"}
Terminal(t) == {r \in Runs : t[r].state \in TerminalStates}
Live(t) == Active(t) \union Queued(t)

Least(a, b) == IF a < b THEN a ELSE b
\* Mutant: numbers the line by its present length.
NextSequenceByLength(t) == {Cardinality(Live(t)) + 1}
\* The one sequence number after all those retained: coalesce(max(sequence),0)+1.
NextSequence(t) ==
  {n \in {1} \union {t[r].seq + 1 : r \in Runs} : \A r \in Runs : t[r].seq < n}

\* Only the KeepTerminal newest terminal rows are retained.
PruneTerminal(t) ==
  [r \in Runs |->
     IF /\ r \in Terminal(t)
        /\ Cardinality({s \in Terminal(t) : t[s].seq > t[r].seq}) >= KeepTerminal
     THEN AbsentRow ELSE t[r]]

RecoverBoot(t) ==
  IF ~stale THEN t
  ELSE [r \in Runs |->
          IF r \in Live(t)
          THEN [t[r] EXCEPT !.state = "CANCELLED", !.phase = "complete",
                            !.reason = "lost", !.nonce = FALSE,
                            !.seen = FALSE, !.doubt = FALSE,
                            !.final = "incomplete"]
          ELSE [t[r] EXCEPT !.seen = FALSE, !.doubt = FALSE]]

(***************************************************************************)
(* Limits.  While anything is queued or active they may only tighten.      *)
(***************************************************************************)
TightestBudget(a, b) == IF a = 0 THEN b ELSE IF b = 0 THEN a ELSE Least(a, b)

RefreshLimits(t, requested) ==
  IF Live(t) = {} THEN requested
  ELSE [slots  |-> Least(requested.slots, limits.slots),
        jobs   |-> Least(requested.jobs, limits.jobs),
        memory |-> TightestBudget(requested.memory, limits.memory)]

ActualSlots(r, lim) ==
  IF lim.memory # 0 /\ PerWorker[r] = 0 THEN 1 ELSE Least(Want[r], lim.slots)

ReservedMemory(r, lim) ==
  IF lim.memory # 0 /\ PerWorker[r] = 0 THEN lim.memory
  ELSE PerWorker[r] * ActualSlots(r, lim)

-----------------------------------------------------------------------------
(***************************************************************************)
(* Processes, and what an observer may read of them.  Death of an owner is *)
(* "gone"; a guard that is "gone" has been reaped.                         *)
(***************************************************************************)
OwnerAlive(r) == client[r] \notin {"idle", "gone"}
GuardAlive(r) == guard[r] \in {"launched", "registered", "cleared", "ran", "drained"}
GroupAlive(r) == GuardAlive(r) \/ kid[r] = "grouped"
\* Mutant: the guard does not inherit the lease.
LeaseHeldByOwner(r) == OwnerAlive(r)
LeaseHeld(r)  == OwnerAlive(r) \/ GuardAlive(r)

\* A live process reads as itself and a dead one as absent, or as another
\* birth once its pid is reused; either may be unreadable for a moment.
Sight(alive) ==
  (IF alive THEN {"same"}
   ELSE {"absent"} \union (IF "reuse" \in Events THEN {"reused"} ELSE {}))
  \union (IF "blur" \in Events THEN {"unknown"} ELSE {})

\* Mutant: an unreadable process counts as dead.
ProvenGoneIfUnread(s) == s # "same"
ProvenGone(s) == s \in {"absent", "reused"}

Sights(r) ==
  [owner : Sight(OwnerAlive(r)), guard : Sight(GuardAlive(r)),
   kid   : Sight(kid[r] # "none") \ {"reused"},
   group : IF "blur" \in Events THEN {"exact", "unknown"} ELSE {"exact"},
   tree  : IF "blur" \in Events THEN {"exact", "unknown"} ELSE {"exact"},
   lease : IF "blur" \in Events THEN {"exact", "unknown"} ELSE {"exact"}]

\* Mutant: a failed group probe counts as absence.
GroupSeenHopefully(r, o) ==
  IF o.group = "exact" /\ GroupAlive(r) THEN "exists" ELSE "absent"
GroupSeen(r, o) == IF o.group = "unknown" THEN "unknown"
                   ELSE IF GroupAlive(r) THEN "exists" ELSE "absent"
LockSeen(r, o)  == IF o.lease = "unknown" THEN "INDETERMINATE"
                   ELSE IF LeaseHeld(r) THEN "HELD" ELSE "ACQUIRABLE"

(***************************************************************************)
(* One pass over the descendants of a registered guard.  Under a live      *)
(* guard the walk records every descendant still attached to the tree; a   *)
(* recorded one is kept until it is proven dead.  Doubt is cleared only by *)
(* a clean pass under a live guard.                                        *)
(***************************************************************************)
ObserveDescendants(row, r, o) ==
  LET attached == o.guard = "same" /\ o.tree = "exact" /\ kid[r] \in {"grouped", "escaped"}
      kept     == row.seen /\ ~ProvenGone(o.kid)
      fresh    == \/ o.guard = "unknown"
                  \/ o.guard = "same" /\ o.tree = "unknown"
  IN  [row EXCEPT !.seen  = attached \/ kept,
                  !.doubt = fresh \/ (row.doubt /\ o.guard # "same")]

ObservationCause(row, r, o) ==
  LET outside == row.seen /\ o.kid = "same" /\ kid[r] \in {"escaped", "daemon"}
      dim     == row.seen /\ o.kid = "unknown"
  IN  IF outside \/ (row.doubt /\ o.guard # "same") THEN "escape"
      ELSE IF dim \/ row.doubt THEN "transient" ELSE "clean"

\* _escaped_or_unknown; absent: the caller saw the process group absent, and
\* then a recorded descendant that is still readable is a survivor.
EscapedOrUnknown(row, r, o, absent) ==
  \/ row.doubt
  \/ row.seen /\ o.kid = "unknown"
  \/ row.seen /\ o.kid = "same" /\ (absent \/ kid[r] \in {"escaped", "daemon"})

-----------------------------------------------------------------------------
(***************************************************************************)
(* Recovery: what one reconciling pass makes of one row.                   *)
(***************************************************************************)
Uncertain(row, why) == [row EXCEPT !.state = "UNCERTAIN", !.reason = why]
\* Mutant: the state and phase columns swapped.
CloseSwapped(row, final, why) ==
  [row EXCEPT !.state = "complete", !.phase = final, !.reason = why]
Close(row, final, why) ==
  [row EXCEPT !.state = final, !.phase = "complete", !.reason = why]

\* A row of another namespace is judged by its lease lock alone.
ForeignView(row, r, o) ==
  IF LockSeen(r, o) = "ACQUIRABLE"
  THEN Close(row, IF row.guarded THEN "RELEASED" ELSE "CANCELLED", "lost")
  ELSE row

\* Mutant: an owner that died between grant and registration is not noticed.
UnguardedViewOfQueue(row, o) ==
  IF row.state = "QUEUED" /\ ProvenGone(o.owner) THEN Close(row, "CANCELLED", "lost")
  ELSE row
\* Before registration only the owner stands for the row.
UnguardedView(row, o) ==
  IF ProvenGone(o.owner) THEN Close(row, "CANCELLED", "lost")
  ELSE IF row.state # "QUEUED" /\ o.owner # "same" THEN Uncertain(row, "lost")
  ELSE row

\* Mutant: heals whatever the phase.
HealableAnyPhase(row, o) ==
  /\ row.state = "UNCERTAIN" /\ row.reason \in {"transient", "detached"}
  /\ ~ProvenGone(o.owner)

Healable(row, o) ==
  /\ row.state = "UNCERTAIN" /\ row.phase = "setup"
  /\ row.reason \in {"transient", "detached"}
  /\ ~ProvenGone(o.owner)

GroupExistsView(row, o) ==
  IF o.owner = "unknown" THEN Uncertain(row, "transient")
  ELSE IF Healable(row, o) THEN [row EXCEPT !.state = "RUNNING", !.reason = "none"]
  ELSE row

GroupAbsentView(row, r, o) ==
  IF EscapedOrUnknown(row, r, o, TRUE) THEN Uncertain(row, "detached")
  ELSE IF ~ProvenGone(o.guard) THEN Uncertain(row, "lost")
  ELSE IF ProvenGone(o.owner) THEN Close(row, "RELEASED", "lost")
  ELSE IF o.owner # "same" THEN Uncertain(row, "lost")
  ELSE row

GuardedView(observed, r, o) ==
  LET cause == ObservationCause(observed, r, o)
      group == GroupSeen(r, o)
  IN  CASE cause = "escape"    -> Uncertain(observed, "detached")
        [] cause = "transient" -> Uncertain(observed, "transient")
        [] cause = "clean" /\ group = "unknown" -> Uncertain(observed, "transient")
        [] cause = "clean" /\ group = "exists"  -> GroupExistsView(observed, o)
        [] cause = "clean" /\ group = "absent"  -> GroupAbsentView(observed, r, o)

RecoveryView(row, r, ns, o) ==
  IF row.state = "QUEUED" /\ r \in late THEN Close(row, "CANCELLED", "timeout")
  ELSE IF Namespace[r] # ns THEN ForeignView(row, r, o)
  ELSE IF o.lease = "unknown" THEN row  \* an invalid sidecar: foreign, lock unreadable
  ELSE IF ~row.guarded THEN UnguardedView(row, o)
  ELSE GuardedView(ObserveDescendants(row, r, o), r, o)

\* Every table one reconciling transaction of an observer in ns may leave.
Views(t, r, ns) ==
  IF r \in Live(t) THEN {RecoveryView(t[r], r, ns, o) : o \in Sights(r)} ELSE {t[r]}
Reconciled(t, ns) ==
  LET views == [r \in Runs |-> Views(t, r, ns)]
  IN  {m \in [Runs -> UNION {views[r] : r \in Runs}] : \A r \in Runs : m[r] \in views[r]}
Recovered(ns) == Reconciled(RecoverBoot(jobs), ns)

-----------------------------------------------------------------------------
(***************************************************************************)
(* Admission.                                                              *)
(***************************************************************************)
\* The sum of what everybody in the domain of count holds.
Total(count) == Cardinality(UNION {{r} \X (1 .. count[r]) : r \in DOMAIN count})
SlotsOf(t, A) == Total([r \in A |-> t[r].slots])
\* A grant without an estimate holds the whole of a budget introduced later.
MemoryOf(t, A, budget) ==
  Total([r \in A |-> IF t[r].memory = 0 THEN budget ELSE t[r].memory])

\* Mutant: the resource locks are not looked at.
CompatibleUnlocked(r, s) ==
  r \notin Exclusive /\ s \notin Exclusive /\ Checkout[r] # Checkout[s]

Compatible(r, s) ==
  /\ r \notin Exclusive /\ s \notin Exclusive
  /\ Checkout[r] # Checkout[s]
  /\ Locks[r] \intersect Locks[s] = {}

\* Mutant: one free slot is enough.
FitsPartly(t, r, lim) ==
  /\ \A s \in Active(t) : Compatible(r, s)
  /\ Cardinality(Active(t)) < lim.jobs
  /\ SlotsOf(t, Active(t)) < lim.slots

Fits(t, r, lim) ==
  LET A == Active(t)
  IN  /\ \A s \in A : Compatible(r, s)
      /\ Cardinality(A) < lim.jobs
      /\ SlotsOf(t, A) + ActualSlots(r, lim) <= lim.slots
      /\ lim.memory = 0
         \/ MemoryOf(t, A, lim.memory) + ReservedMemory(r, lim) <= lim.memory

GrantRows(t, lim, G) ==
  [r \in Runs |->
     IF r \in G
     THEN [t[r] EXCEPT !.state = "GRANTED", !.phase = "admission", !.nonce = TRUE,
                       !.slots = ActualSlots(r, lim),
                       !.memory = ReservedMemory(r, lim)]
     ELSE t[r]]

Before(t, r) == {s \in Queued(t) : t[s].seq < t[r].seq}

\* Mutant: a blocked head is skipped.
GrantsAround(t, lim, G) ==
  /\ G \subseteq Queued(t)
  /\ \A r \in G : Fits(GrantRows(t, lim, Before(t, r) \intersect G), r, lim)

\* The strict FIFO scan grants exactly G: a prefix of the queue, each member
\* fitting beside the ones before it, and the next in line not fitting.
GrantsExactly(t, lim, G) ==
  /\ G \subseteq Queued(t)
  /\ \A r \in G : /\ Before(t, r) \subseteq G
                  /\ Fits(GrantRows(t, lim, Before(t, r)), r, lim)
  /\ \A r \in Queued(t) \ G :
       Before(t, r) = G => ~Fits(GrantRows(t, lim, G), r, lim)

\* Mutant: only RUNNING parents are recognised.
NestedInRunning(t, r, readable) ==
  \E p \in Runs : /\ Parent[r] = p /\ t[p].state = "RUNNING" /\ readable
                  /\ Namespace[p] = Namespace[r] /\ kid[p] # "none"

\* The caller runs below a guard the ledger still knows.  A row of another
\* namespace, or one whose lease file is not readable, is classified foreign and
\* passed over: its parent is then not recognised.
NestedInvocation(t, r, readable) ==
  \E p \in Runs : /\ Parent[r] = p /\ readable
                  /\ t[p].guarded /\ p \in Live(t) /\ Namespace[p] = Namespace[r]
                  /\ kid[p] = "grouped" \/ (kid[p] = "escaped" /\ GuardAlive(p))

NewRow(n, r, lim) ==
  [AbsentRow EXCEPT !.state = "QUEUED", !.phase = "admission",
                    !.seq = n, !.slots = ActualSlots(r, lim),
                    !.memory = ReservedMemory(r, lim)]

Admissible(t, r, lim, readable) ==
  /\ ~NestedInvocation(t, r, readable)
  /\ Cardinality(Queued(t)) < MaxPending
  /\ lim.memory = 0 \/ ReservedMemory(r, lim) <= lim.memory

\* Whether the lease file of the parent of r reads when its row is classified.
LeaseReadable(r) == IF Parent[r] # NoRun /\ "blur" \in Events THEN BOOLEAN ELSE {TRUE}

Arrives(r) == /\ client[r] = "idle"
              /\ Parent[r] # NoRun => kid[Parent[r]] # "none"

Enqueue(r) ==
  /\ Arrives(r)
  /\ \E t \in Recovered(Namespace[r]), requested \in Configs, readable \in LeaseReadable(r) :
       LET lim == RefreshLimits(t, requested) IN
       /\ Admissible(t, r, lim, readable)
       /\ \E n \in NextSequence(t) :
            jobs' = PruneTerminal([t EXCEPT ![r] = NewRow(n, r, lim)])
       /\ limits' = lim
  /\ stale' = FALSE
  /\ client' = [client EXCEPT ![r] = "waiting"]
  /\ UNCHANGED <<late, guard, kid>>

\* A refusal (an unreadable ancestry among them) rolls back, and with it
\* whatever the pass recovered.
EnqueueRefused(r) ==
  /\ Arrives(r)
  /\ \E t \in Recovered(Namespace[r]), requested \in Configs, readable \in LeaseReadable(r) :
       ~Admissible(t, r, RefreshLimits(t, requested), readable) \/ "blur" \in Events
  /\ client' = [client EXCEPT ![r] = "done"]
  /\ UNCHANGED <<jobs, limits, stale, late, guard, kid>>

\* operations.execute goes on with a grant, keeps polling while queued, and
\* raises on anything else.
AfterPoll(state) == CASE state = "GRANTED" -> "granted"
                      [] state = "QUEUED" -> "waiting"
                      [] OTHER -> "done"

Poll(r) ==
  /\ client[r] = "waiting"
  /\ \E t \in Recovered(Namespace[r]), requested \in Configs :
       LET lim == RefreshLimits(t, requested) IN
       \E G \in SUBSET Queued(t) :
         /\ t[r].state # "absent"
         /\ GrantsExactly(t, lim, G)
         /\ jobs' = GrantRows(t, lim, G)
         /\ limits' = lim
         /\ late' = late \ G
  /\ stale' = FALSE
  /\ client' = [client EXCEPT ![r] = AfterPoll(jobs'[r].state)]
  /\ UNCHANGED <<guard, kid>>

\* The ticket was pruned or forgotten: the transaction rolls back.
PollLost(r) ==
  /\ client[r] = "waiting" /\ jobs[r].state = "absent"
  /\ client' = [client EXCEPT ![r] = "done"]
  /\ UNCHANGED <<jobs, limits, stale, late, guard, kid>>

\* Signals, refused preparation and failed launches: the CAS, not the caller,
\* decides whether a guard was registered first.  No other row is looked at.
CancelPendingRow(r) ==
  IF /\ ~stale
     /\ jobs[r].state \in {"QUEUED", "GRANTED"} /\ ~jobs[r].guarded
  THEN [jobs EXCEPT ![r] = [Close(@, "CANCELLED", @.reason) EXCEPT !.nonce = FALSE]]
  ELSE jobs

CancelPending(r) ==
  /\ client[r] \in {"waiting", "granted"}
  /\ \E o \in Sight(TRUE) :
       jobs' = IF o = "same" THEN CancelPendingRow(r) ELSE jobs
  /\ client' = [client EXCEPT ![r] = "done"]
  /\ UNCHANGED <<limits, stale, late, guard, kid>>

\* The caller's own deadline check leaves the row for a reconciling pass.
Abandon(r) ==
  /\ client[r] = "waiting" /\ r \in late
  /\ client' = [client EXCEPT ![r] = "done"]
  /\ UNCHANGED <<jobs, limits, stale, late, guard, kid>>

LaunchGuard(r) ==
  /\ client[r] = "granted"
  /\ client' = [client EXCEPT ![r] = "guarded"]
  /\ guard' = [guard EXCEPT ![r] = "launched"]
  /\ UNCHANGED <<jobs, limits, stale, late, kid>>

-----------------------------------------------------------------------------
(***************************************************************************)
(* The guard: it registers before any repository work, spawns only under a *)
(* RUNNING view, and hands off by marking its own row DRAINING.            *)
(***************************************************************************)
RegisterGuard(r) ==
  /\ guard[r] = "launched"
  /\ \E t \in Recovered(Namespace[r]), o \in Sight(OwnerAlive(r)), self \in Sight(TRUE) :
       LET valid == /\ t[r].state = "GRANTED" /\ t[r].nonce /\ ~t[r].guarded
                    /\ o = "same" /\ self = "same"
       IN  /\ jobs' = IF valid THEN [t EXCEPT ![r].state = "RUNNING",
                                              ![r].phase = "setup",
                                              ![r].guarded = TRUE]
                      ELSE t
           /\ guard' = [guard EXCEPT ![r] = IF valid THEN "registered" ELSE "gone"]
  /\ stale' = FALSE
  /\ UNCHANGED <<limits, late, client, kid>>

\* The declared setup starts on registration alone.  Every attempt needs an
\* empty group, a RUNNING view of the row, and the owner's decision.
ClearToSpawn(r) ==
  /\ guard[r] \in {"registered", "ran"} /\ client[r] = "guarded"
  /\ guard[r] = "ran" =>
       /\ kid[r] # "grouped"
       /\ \E t \in Recovered(Namespace[r]) : t[r].state = "RUNNING"
  /\ guard' = [guard EXCEPT ![r] = "cleared"]
  /\ UNCHANGED <<jobs, limits, stale, late, client, kid>>

\* The check and the fork are not atomic: anything may have happened between.
\* Work that daemonized unrecorded is beyond the ledger, and no longer followed.
Spawn(r) ==
  /\ guard[r] = "cleared"
  /\ guard' = [guard EXCEPT ![r] = "ran"]
  /\ kid' = [kid EXCEPT ![r] = "grouped"]
  /\ jobs' = [jobs EXCEPT ![r].seen = FALSE]  \* a new process, not yet recorded
  /\ UNCHANGED <<limits, stale, late, client>>

\* mark_draining is no recovery boundary: it moves its own RUNNING row or fails.
\* The scans before it prove no absence: a racing fork may leave work behind.
MarkDraining(r) ==
  /\ guard[r] \in {"registered", "cleared", "ran"}
  /\ LET handedOff == ~stale /\ jobs[r].nonce /\ jobs[r].guarded /\ jobs[r].state = "RUNNING"
     IN  \/ /\ handedOff
            /\ jobs' = [jobs EXCEPT ![r].state = "DRAINING", ![r].phase = "draining"]
            /\ guard' = [guard EXCEPT ![r] = "drained"]
         \/ /\ ~handedOff \/ "blur" \in Events
            /\ guard' = [guard EXCEPT ![r] = "gone"]
            /\ UNCHANGED jobs
  /\ UNCHANGED <<limits, stale, late, client, kid>>

\* The draining frame and the exit.  An owner still there accepts the handoff,
\* or finds the frames incomplete (a cancel before attempt-ready, for one).
GuardExit(r) ==
  /\ guard[r] = "drained"
  /\ guard' = [guard EXCEPT ![r] = "gone"]
  /\ client' \in {client, [client EXCEPT ![r] = IF @ = "guarded" THEN "handed" ELSE @]}
  /\ UNCHANGED <<jobs, limits, stale, late, kid>>

\* A crash, a kill, or the SIGKILL of its own group after an expired grace.
GuardDies(r) ==
  /\ "kill" \in Events
  /\ GuardAlive(r)
  /\ guard' = [guard EXCEPT ![r] = "gone"]
  /\ UNCHANGED <<jobs, limits, stale, late, client, kid>>

-----------------------------------------------------------------------------
(***************************************************************************)
(* The owner after its guard is gone.                                      *)
(***************************************************************************)
\* No handoff, or a control channel that broke: revoke the grant if it was never
\* registered, and report.  A guard still starting races this for the row.
GuardLost(r) ==
  /\ client[r] = "guarded"
  /\ guard[r] = "gone" \/ ("break" \in Events /\ GuardAlive(r))
  /\ jobs' = CancelPendingRow(r)
  /\ client' = [client EXCEPT ![r] = "done"]
  /\ UNCHANGED <<limits, stale, late, guard, kid>>

\* Mutant: a reaped guard is taken for an empty group.
QuiescentGuard(observed, r, o) ==
  o.guard = "absent" /\ o.owner = "same" /\ ~EscapedOrUnknown(observed, r, o, TRUE)

\* What begin_finalization and finish demand of one pass over the processes.
Quiescent(observed, r, o) ==
  /\ GroupSeen(r, o) = "absent"
  /\ o.guard = "absent"       \* ESRCH, not merely a reused pid
  /\ o.owner = "same"
  /\ ~EscapedOrUnknown(observed, r, o, TRUE)

\* _finalization_failure: committed although the caller is refused.
FinalizationFailure(observed, r, o) ==
  Uncertain(observed, IF EscapedOrUnknown(observed, r, o, GroupSeen(r, o) = "absent")
                      THEN "detached" ELSE "proof")

BeginFinalization(r) ==
  /\ client[r] = "handed" /\ ~stale
  /\ jobs[r].nonce /\ jobs[r].guarded /\ jobs[r].state = "DRAINING"
  /\ \E o \in Sights(r) :
       LET observed == ObserveDescendants(jobs[r], r, o)
           proven   == Quiescent(observed, r, o)
       IN  /\ jobs' = [jobs EXCEPT ![r] =
                IF proven
                THEN [observed EXCEPT !.state = "FINALIZING", !.phase = "finalization"]
                ELSE IF o.owner # "same" THEN Uncertain(@, "proof")
                ELSE FinalizationFailure(observed, r, o)]
           /\ client' = [client EXCEPT ![r] = IF proven THEN "proved" ELSE "done"]
  /\ UNCHANGED <<limits, stale, late, guard, kid>>

\* Any active state will do: a doubt another pass recorded since the proof is
\* settled here, by proving quiescence again.
Finish(r) ==
  /\ client[r] = "proved" /\ ~stale
  /\ jobs[r].nonce /\ jobs[r].state \in ActiveStates /\ jobs[r].guarded
  /\ \E o \in Sights(r) :
       LET observed == ObserveDescendants(jobs[r], r, o)
       IN  jobs' = IF Quiescent(observed, r, o)
                   THEN PruneTerminal([jobs EXCEPT ![r] =
                          [Close(observed, "RELEASED", "none") EXCEPT !.final = "committed"]])
                   ELSE [jobs EXCEPT ![r] = FinalizationFailure(observed, r, o)]
  /\ client' = [client EXCEPT ![r] = "done"]
  /\ UNCHANGED <<limits, stale, late, guard, kid>>

\* The grant no longer matches a live lease: both operations roll back.
FinalizationRefused(r) ==
  /\ \/ client[r] = "handed" /\ (stale \/ ~jobs[r].nonce \/ jobs[r].state # "DRAINING")
     \/ client[r] = "proved" /\ (stale \/ ~jobs[r].nonce \/ jobs[r].state \notin ActiveStates)
  /\ client' = [client EXCEPT ![r] = "done"]
  /\ UNCHANGED <<jobs, limits, stale, late, guard, kid>>

OwnerExit(r) ==
  /\ client[r] = "done"
  /\ client' = [client EXCEPT ![r] = "gone"]
  /\ UNCHANGED <<jobs, limits, stale, late, guard, kid>>

-----------------------------------------------------------------------------
(***************************************************************************)
(* The operator's ptest release and the checkout cleanup of uninstall, by  *)
(* a process of namespace ns.                                              *)
(***************************************************************************)

ReleaseEvidence(row, r, ns, o, force) ==
  LET lock == LockSeen(r, o)
      dead(s) == ProvenGone(s) \/ (s = "unknown" /\ lock = "ACQUIRABLE")
  IN  /\ lock # "HELD"
      /\ IF force THEN r \in late
         ELSE IF Namespace[r] # ns THEN lock = "ACQUIRABLE"
         ELSE /\ dead(o.owner)
              /\ row.guarded => dead(o.guard) /\ GroupSeen(r, o) = "absent"

ReleaseRun(r, ns, force) ==
  /\ jobs[r].state # "absent"
  /\ \E t \in Recovered(ns) :
     \E evidence \in {ReleaseEvidence(t[r], r, ns, o, force) : o \in Sights(r)} :
       jobs' = IF r \in Live(t) /\ evidence
               THEN [t EXCEPT ![r] =
                      [Close(@, IF @.guarded THEN "RELEASED" ELSE "CANCELLED", "operator")
                         EXCEPT !.nonce = FALSE, !.seen = FALSE, !.doubt = FALSE,
                                !.final = "incomplete"]]
               ELSE t
  /\ stale' = FALSE
  /\ UNCHANGED <<limits, late, client, guard, kid>>

\* Refused, and rolled back, while any row of the checkout is not terminal.
ForgetCheckout(c, ns) ==
  /\ \E t \in Recovered(ns) :
       /\ \A r \in Live(t) : Checkout[r] # c
       /\ jobs' = [r \in Runs |-> IF Checkout[r] = c THEN AbsentRow ELSE t[r]]
  /\ stale' = FALSE
  /\ UNCHANGED <<limits, late, client, guard, kid>>

-----------------------------------------------------------------------------
(***************************************************************************)
(* The environment.                                                        *)
(***************************************************************************)
KidExits(r) ==
  /\ kid[r] # "none"
  /\ kid' = [kid EXCEPT ![r] = "none"]
  /\ UNCHANGED <<jobs, limits, stale, late, client, guard>>

\* Work leaves the guard's process group, and then its process tree.
KidEscapes(r) ==
  /\ "escape" \in Events
  /\ kid[r] \in {"grouped", "escaped"}
  /\ kid' = [kid EXCEPT ![r] = IF @ = "grouped" THEN "escaped" ELSE "daemon"]
  /\ UNCHANGED <<jobs, limits, stale, late, client, guard>>

OwnerCrashes(r) ==
  /\ "crash" \in Events
  /\ OwnerAlive(r) /\ client[r] # "done"
  /\ client' = [client EXCEPT ![r] = "gone"]
  /\ UNCHANGED <<jobs, limits, stale, late, guard, kid>>

Reboot ==
  /\ "reboot" \in Events
  /\ stale' = TRUE
  /\ client' = [r \in Runs |-> IF client[r] = "idle" THEN "idle" ELSE "gone"]
  /\ guard' = [r \in Runs |-> IF GuardAlive(r) THEN "gone" ELSE guard[r]]
  /\ kid' = [r \in Runs |-> "none"]
  /\ UNCHANGED <<jobs, limits, late>>

\* A queued run passes its deadline, a granted one RELEASE_FORCE_AFTER_S.
TimePasses(r) ==
  /\ r \notin late
  /\ \/ r \in Queued(jobs) /\ "late" \in Events
     \/ r \in Active(jobs) /\ "force" \in Events
  /\ late' = late \union {r}
  /\ UNCHANGED <<jobs, limits, stale, client, guard, kid>>

-----------------------------------------------------------------------------
Init ==
  /\ jobs = [r \in Runs |-> AbsentRow]
  /\ limits \in Configs
  /\ stale = FALSE
  /\ late = {}
  /\ client = [r \in Runs |-> "idle"]
  /\ guard = [r \in Runs |-> "none"]
  /\ kid = [r \in Runs |-> "none"]

Owner(r) ==
  \/ Enqueue(r) \/ EnqueueRefused(r) \/ Poll(r) \/ PollLost(r)
  \/ CancelPending(r) \/ Abandon(r) \/ LaunchGuard(r) \/ GuardLost(r)
  \/ BeginFinalization(r) \/ Finish(r) \/ FinalizationRefused(r) \/ OwnerExit(r)

Guard(r) ==
  \/ RegisterGuard(r) \/ ClearToSpawn(r) \/ Spawn(r)
  \/ MarkDraining(r) \/ GuardExit(r) \/ GuardDies(r)

Operator ==
  \E ns \in {Namespace[s] : s \in Runs} :
    \/ "release" \in Events /\ \E r \in Runs : ReleaseRun(r, ns, FALSE)
    \/ "force" \in Events /\ \E r \in Runs : ReleaseRun(r, ns, TRUE)
    \/ "forget" \in Events /\ \E r \in Runs : ForgetCheckout(Checkout[r], ns)

Environment(r) == KidExits(r) \/ KidEscapes(r) \/ OwnerCrashes(r) \/ TimePasses(r)

Next ==
  \/ \E r \in Runs : Owner(r) \/ Guard(r) \/ Environment(r)
  \/ Operator
  \/ Reboot

Spec == Init /\ [][Next]_vars

-----------------------------------------------------------------------------
(***************************************************************************)
(* Properties.                                                             *)
(***************************************************************************)
TypeOK ==
  /\ jobs \in [Runs -> Row]
  /\ limits \in [slots : Nat \ {0}, jobs : Nat \ {0}, memory : Nat]
  /\ stale \in BOOLEAN
  /\ late \subseteq Runs
  /\ client \in [Runs -> {"idle", "waiting", "granted", "guarded", "handed",
                          "proved", "done", "gone"}]
  /\ guard \in [Runs -> {"none", "launched", "registered", "cleared", "ran",
                         "drained", "gone"}]
  /\ kid \in [Runs -> {"none", "grouped", "escaped", "daemon"}]

\* Every observer shares the namespace of r.
Alone(r) == \A s \in Runs : Namespace[s] = Namespace[r]

\* What runs below a guard without a doubt: the registered guard itself, work in
\* its group, and escaped work some pass has recorded.  A foreign observer and
\* release --force never look at processes: with them only the guard counts.
Working(r) ==
  \/ guard[r] \in {"registered", "cleared", "ran", "drained"}
  \/ /\ Alone(r) /\ "force" \notin Events
     /\ kid[r] = "grouped" \/ (kid[r] # "none" /\ jobs[r].seen)

\* release --force trusts its caller once the lease lock itself is unreadable.
BlindForce(events) == {"force", "blur"} \subseteq events

\* Capacity stays charged while the work it was granted for lives, whatever
\* died, left its group or could not be read.
\* (_recovery_view, begin_finalization, finish, release_run)
WorkIsCharged ==
  BlindForce(Events) \/ \A r \in Runs : Working(r) => r \in Active(jobs)

\* Nobody takes a grant from a live owner, and nobody moves its run between the
\* handoff and the finalization but the owner itself: the row an owner acts on
\* is the row its last answer described.
OwnerKeepsGrant ==
  \/ BlindForce(Events)
  \/ \A r \in Runs :
       /\ client[r] \in {"granted", "guarded", "handed", "proved"} =>
            r \in Active(jobs) /\ jobs[r].nonce
       /\ client[r] = "handed" => jobs[r].phase = "draining"
       /\ client[r] = "proved" => jobs[r].phase = "finalization"

Conflicting(r, s) ==
  \/ r \in Exclusive \/ s \in Exclusive
  \/ Checkout[r] = Checkout[s]
  \/ Locks[r] \intersect Locks[s] # {}

\* Two runs of one checkout, two claimants of one resource, or an exclusive run
\* and anyone never have live work at the same time.  (_resources_available)
NoConflictingWork ==
  \/ BlindForce(Events)
  \/ \A r, s \in Runs : r # s /\ Working(r) /\ Working(s) => ~Conflicting(r, s)

\* The same for what the ledger charges: active rows are pairwise compatible.
Isolation ==
  \A r, s \in Active(jobs) : r # s => ~Conflicting(r, s)

\* Strict FIFO: no run is active that enqueued after one still queued.
FirstComeFirstServed ==
  \A s \in Active(jobs), r \in Queued(jobs) : jobs[s].seq < jobs[r].seq

\* Whenever a run is granted, everything then active fits the limits in force,
\* also after the limits were tightened below earlier grants.
GrantsWithinLimits ==
  [][Active(jobs') \subseteq Active(jobs)
     \/ LET A == Active(jobs')
        IN  /\ Cardinality(A) <= limits'.jobs
            /\ SlotsOf(jobs', A) <= limits'.slots
            /\ limits'.memory # 0 => MemoryOf(jobs', A, limits'.memory) <= limits'.memory]_vars

\* A doubt may heal back to RUNNING only before the handoff: a row that was
\* DRAINING or FINALIZING never runs again.  (the heal in _recovery_view)
HandoffNeverUndone ==
  [][\A r \in Runs : jobs[r].phase \in {"draining", "finalization"} =>
                       jobs'[r].state # "RUNNING"]_vars

\* An outcome is committed only for a run that was handed off and proven
\* quiescent: guard reaped, group empty, no recorded descendant alive.
CommittedIsQuiescent ==
  [][\A r \in Runs :
       jobs'[r].final = "committed" /\ jobs[r].final # "committed" =>
         /\ jobs[r].phase = "finalization"
         /\ ~GroupAlive(r)
         /\ jobs[r].seen => kid[r] = "none"]_vars

\* Work of an admitted run cannot queue behind that run: it would wait for the
\* grant its own parent gives back only after it ends.  Where the lease file of
\* the parent may be unreadable ("blur") the code does not promise it.
\* (_check_nested)
NestedNeverWaits ==
  [][\A r \in Queued(jobs') \ Queued(jobs) : \A p \in Runs :
       Parent[r] = p /\ Alone(p) =>
         ~(kid[p] = "grouped" \/ (kid[p] = "escaped" /\ GuardAlive(p)))]_vars

\* Refinement: queued rows wait, active rows hold.
Promise == INSTANCE Admission WITH
  Conflict <- {p \in Runs \X Runs : Conflicting(p[1], p[2])},
  waiting <- Queued(jobs), holding <- Active(jobs),
  ticket <- [r \in Runs |-> jobs[r].seq]

ImplementsAdmission == Promise!ASpec

(***************************************************************************)
(* Liveness.  A waiting owner keeps polling and every process that is not  *)
(* killed takes its next step; nothing forces anyone to arrive, and no     *)
(* environment event ever has to happen, except that work below a guard    *)
(* ends.                                                                   *)
(***************************************************************************)
Fairness ==
  \A r \in Runs :
    /\ WF_vars(Poll(r)) /\ WF_vars(LaunchGuard(r)) /\ WF_vars(GuardLost(r))
    /\ WF_vars(BeginFinalization(r) \/ Finish(r) \/ FinalizationRefused(r))
    /\ WF_vars(OwnerExit(r))
    /\ WF_vars(RegisterGuard(r)) /\ WF_vars(MarkDraining(r)) /\ WF_vars(GuardExit(r))
    /\ WF_vars(KidExits(r))

FairSpec == Spec /\ Fairness

\* Every enqueued run is eventually granted or told why not, though owners and
\* guards ahead of it may crash at any step: recovery needs only its polling.
EveryTicketAnswered ==
  \A r \in Runs : client[r] = "waiting" ~> client[r] # "waiting"
=============================================================================
