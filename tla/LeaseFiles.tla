----------------------------- MODULE LeaseFiles -----------------------------
(***************************************************************************)
(* The files behind Scheduler's lease locks (leases.py): a lock file whose *)
(* flock the owner and its guard share, and a sidecar that names its inode *)
(* and the pid namespace it was recorded in.  They are created before the  *)
(* row of the ledger commits and removed after it is terminal, by the      *)
(* owner or by whoever begins the next transaction; each file operation    *)
(* may be the last of its process.  Observers of another namespace judge a *)
(* row by its lock alone, and a row without a sidecar by its pids.         *)
(*                                                                         *)
(* One owner process per run, which may act for an operator before it      *)
(* enqueues; the ledger's write lock lets one transaction at a time sweep, *)
(* judge and change the rows.                                              *)
(***************************************************************************)
EXTENDS Integers

CONSTANTS
  Runs,
  NamespaceOf,   \* the pid namespace of each run's owner and guard
  Unknown,       \* the namespace of a process that cannot tell its own
  MaxTries,      \* bound: enqueues of one run
  None

VARIABLES
  row,       \* the committed rows: None, queued, granted or terminal
  lock,      \* the inode of each run's lock file, or None
  sidecar,   \* the inode that each run's sidecar names, or None
  owner,     \* where each owner is, the inode whose descriptor it holds, its enqueues
  guard,     \* each guard: none, inherited, adopted, registered or gone
  db,        \* the transaction that holds the write lock, or None
  removal,   \* the removal each process is at, or None
  wronged    \* living runs whose rows others closed as dead (a history variable)

Kinds == {"enqueue", "poll", "release", "close"}
Steps == {"sweep", "create", "sidecar", "commit", "discarded"}
TransactionRecord == [by : Runs, kind : Kinds, step : Steps, gone : SUBSET Runs, expired : SUBSET Runs]
\* None is no inode, no state of a row and no transaction.
NoneDiffers == None \notin Nat \union {"queued", "granted", "terminal"} \union TransactionRecord

vars == <<row, lock, sidecar, owner, guard, db, removal, wronged>>

Init ==
  /\ row = [r \in Runs |-> None] /\ lock = [r \in Runs |-> None] /\ sidecar = [r \in Runs |-> None]
  /\ owner = [r \in Runs |-> [pc |-> "new", holds |-> None, tries |-> 0]]
  /\ guard = [r \in Runs |-> "none"]
  /\ db = None /\ removal = [r \in Runs |-> None] /\ wronged = {}

Live(r) == row[r] \in {"queued", "granted"}
OwnerAlive(r) == owner[r].pc # "dead"
GuardRuns(r) == guard[r] \in {"inherited", "adopted", "registered"}
Alive(r) == OwnerAlive(r) \/ guard[r] = "registered"

\* The flock of an inode of run r: the guard inherits the owner's open file
\* description, so that one flock is held until both have closed it.
Locked(r, inode) ==
  \/ owner[r].holds = inode
  \/ GuardRuns(r) /\ owner[r].tries = inode
  \/ \E p \in Runs : removal[p] # None /\ removal[p].run = r /\ removal[p].inode = inode /\ removal[p].step # "lock"

Drop(p) == [owner EXCEPT ![p].holds = None]

----------------------------------------------------------------------------
(* remove_if_released, by process p: open the lock, compare it with the     *)
(* sidecar, take the flock, unlink the sidecar, then the lock.              *)

Removable(r) == lock[r] # None /\ sidecar[r] \in {None, lock[r]}
Removing(p, r) == removal' = [removal EXCEPT ![p] =
  IF Removable(r) THEN [run |-> r, step |-> "lock", inode |-> lock[r]] ELSE None]
At(p, step) == removal[p] # None /\ removal[p].step = step
Removed(p) == removal' = [removal EXCEPT ![p] = None]

TakeLock(p) ==
  /\ At(p, "lock")
  /\ IF Locked(removal[p].run, removal[p].inode) THEN Removed(p)
     ELSE removal' = [removal EXCEPT ![p].step = "sidecar"]
  /\ UNCHANGED <<row, lock, sidecar, owner, guard, db, wronged>>
UnlinkSidecar(p) ==
  /\ At(p, "sidecar")
  /\ sidecar' = [sidecar EXCEPT ![removal[p].run] = None]
  /\ removal' = [removal EXCEPT ![p].step = "unlink"]
  /\ UNCHANGED <<row, lock, owner, guard, db, wronged>>
UnlinkLock(p) ==
  /\ At(p, "unlink")
  /\ lock' = [lock EXCEPT ![removal[p].run] = IF @ = removal[p].inode THEN None ELSE @]
  /\ Removed(p)
  /\ UNCHANGED <<row, sidecar, owner, guard, db, wronged>>

----------------------------------------------------------------------------
(* Transactions.  None starts while its process removes files.              *)

Transacts(p) == db # None /\ db.by = p
In(p, step) == Transacts(p) /\ db.step = step /\ removal[p] = None
Transaction(p, kind, step) ==
  /\ db = None /\ removal[p] = None
  /\ db' = [by |-> p, kind |-> kind, step |-> step, gone |-> {}, expired |-> {}]
  /\ UNCHANGED <<row, lock, sidecar, guard, removal, wronged>>
Continue(step) == db' = [db EXCEPT !.step = step]

Enqueue(p) ==
  /\ owner[p].pc = "new" /\ owner[p].tries < MaxTries
  /\ owner' = [owner EXCEPT ![p].tries = @ + 1]
  /\ Transaction(p, "enqueue", "sweep")
Poll(p) ==
  /\ owner[p].pc = "waiting"
  /\ Transaction(p, "poll", "sweep") /\ UNCHANGED owner
ReleaseRun(p) ==
  /\ owner[p].pc = "new"
  /\ Transaction(p, "release", "sweep") /\ UNCHANGED owner
\* cancel_pending and finish neither sweep nor judge.
Close(p) ==
  /\ owner[p].pc \in {"waiting", "running"} /\ ~ GuardRuns(p) /\ Live(p)
  /\ Transaction(p, "close", "commit") /\ UNCHANGED owner

\* _sweep_leases_locked: the files of rows that are committed terminal, or
\* absent; a descriptor of its own is dropped first.  Best effort: any of
\* them may be missed.
Sweep(p) ==
  /\ In(p, "sweep")
  /\ \E r \in Runs :
       /\ ~ Live(r) /\ lock[r] # None
       /\ owner' = (IF r = p THEN Drop(p) ELSE owner) /\ Removing(p, r)
  /\ UNCHANGED <<row, lock, sidecar, guard, db, wronged>>

\* _classify_row: pids are evidence in their own namespace, and of a row
\* without a sidecar, which is older than the sidecars.
Foreign(p, r) == NamespaceOf[p] # NamespaceOf[r] \/ NamespaceOf[p] = Unknown
JudgedByPids(p, r) == NamespaceOf[p] # NamespaceOf[r] \/ ~ Alive(r)
JudgedGone(p, r) ==
  IF sidecar[r] # None /\ Foreign(p, r) THEN lock[r] = sidecar[r] /\ ~ Locked(r, lock[r])
  ELSE JudgedByPids(p, r)
\* Queued rows expire at their deadline, whoever waits for them.
Judge(p) ==
  /\ In(p, "sweep")
  /\ \E late \in SUBSET {r \in Runs : row[r] = "queued"} :
       db' = [db EXCEPT !.step = IF db.kind = "enqueue" THEN "create" ELSE "commit",
                        !.expired = late,
                        !.gone = {r \in Runs \ ({p} \union late) : Live(r) /\ JudgedGone(p, r)}]
  /\ UNCHANGED <<row, lock, sidecar, owner, guard, removal, wronged>>

\* create: the lock file, then its sidecar, before the row.
CreateLock(p) ==
  /\ In(p, "create") /\ lock[p] = None
  /\ lock' = [lock EXCEPT ![p] = owner[p].tries]
  /\ owner' = [owner EXCEPT ![p].holds = owner[p].tries]
  /\ Continue("sidecar")
  /\ UNCHANGED <<row, sidecar, guard, removal, wronged>>
CreateSidecar(p) ==
  /\ In(p, "sidecar") /\ sidecar[p] = None
  /\ sidecar' = [sidecar EXCEPT ![p] = lock[p]] /\ Continue("commit")
  /\ UNCHANGED <<row, lock, owner, guard, removal, wronged>>
\* The sidecar cannot be written: the lock is unlinked and the enqueue fails.
NoSidecar(p) ==
  /\ In(p, "sidecar")
  /\ lock' = [lock EXCEPT ![p] = None] /\ owner' = Drop(p) /\ db' = None
  /\ UNCHANGED <<row, sidecar, guard, removal, wronged>>

\* Where a commit takes the row of process p.
Own(p) == CASE db.kind = "enqueue" -> "queued"
            [] db.kind = "poll" /\ row[p] = "queued" /\ p \notin db.expired -> "granted"
            [] db.kind = "close" \/ (db.kind = "poll" /\ p \in db.expired) -> "terminal"
            [] OTHER -> row[p]
Phase(p) == CASE db.kind = "enqueue" -> "waiting"
              [] db.kind = "poll" /\ Own(p) = "granted" -> "running"
              [] db.kind = "close" -> "closed"
              [] OTHER -> owner[p].pc
\* After its commit an operator removes the files of the run it released.
Commit(p) ==
  /\ In(p, "commit")
  /\ row' = [r \in Runs |-> IF r = p THEN Own(p) ELSE IF r \in db.gone \union db.expired THEN "terminal" ELSE row[r]]
  /\ wronged' = wronged \union {r \in db.gone : Alive(r)}
  /\ owner' = [owner EXCEPT ![p].pc = Phase(p)]
  /\ IF db.kind = "release" /\ db.gone # {} THEN \E r \in db.gone : Removing(p, r) ELSE UNCHANGED removal
  /\ db' = None /\ UNCHANGED <<lock, sidecar, guard>>
\* The INSERT fails: discard_created takes the files back, then it rolls back.
Discard(p) ==
  /\ In(p, "commit") /\ db.kind = "enqueue"
  /\ removal' = [removal EXCEPT ![p] = [run |-> p, step |-> "sidecar", inode |-> owner[p].holds]]
  /\ Continue("discarded")
  /\ UNCHANGED <<row, lock, sidecar, owner, guard, wronged>>
\* Another failure, the commit's own for one: any files stay, and so does the
\* descriptor.
RollBack(p) ==
  /\ \/ (In(p, "create") \/ In(p, "commit")) /\ UNCHANGED owner
     \/ In(p, "discarded") /\ owner' = Drop(p)
  /\ db' = None /\ UNCHANGED <<row, lock, sidecar, guard, removal, wronged>>

----------------------------------------------------------------------------
(* Owners and guards.                                                       *)

\* The guard is started with the descriptor, adopts it if it is what the
\* sidecar names, and registers with a row that is still live.
SpawnGuard(p) ==
  /\ owner[p].pc = "running" /\ guard[p] = "none" /\ ~ Transacts(p)
  /\ guard' = [guard EXCEPT ![p] = "inherited"]
  /\ UNCHANGED <<row, lock, sidecar, owner, db, removal, wronged>>
Adopt(p) ==
  /\ guard[p] = "inherited"
  /\ guard' = [guard EXCEPT ![p] = IF sidecar[p] = owner[p].tries THEN "adopted" ELSE "gone"]
  /\ UNCHANGED <<row, lock, sidecar, owner, db, removal, wronged>>
Register(p) ==
  /\ guard[p] = "adopted" /\ db = None
  /\ guard' = [guard EXCEPT ![p] = IF Live(p) THEN "registered" ELSE "gone"]
  /\ UNCHANGED <<row, lock, sidecar, owner, db, removal, wronged>>
GuardEnds(p) ==
  /\ GuardRuns(p) /\ guard' = [guard EXCEPT ![p] = "gone"]
  /\ UNCHANGED <<row, lock, sidecar, owner, db, removal, wronged>>

\* After the commit the owner drops its descriptor and removes the files.
Release(p) ==
  /\ owner[p].pc = "closed"
  /\ owner' = [Drop(p) EXCEPT ![p].pc = "released"] /\ Removing(p, p)
  /\ UNCHANGED <<row, lock, sidecar, guard, db, wronged>>
\* A poll that finds the row closed drops the descriptor only.
Give(p) ==
  /\ owner[p].pc = "waiting" /\ row[p] = "terminal" /\ db = None
  /\ owner' = [Drop(p) EXCEPT ![p].pc = "released"]
  /\ UNCHANGED <<row, lock, sidecar, guard, db, removal, wronged>>

\* The owner dies anywhere; its transaction rolls back and its removal stops.
Crash(p) ==
  /\ OwnerAlive(p)
  /\ owner' = [Drop(p) EXCEPT ![p].pc = "dead"]
  /\ db' = (IF Transacts(p) THEN None ELSE db) /\ Removed(p)
  /\ UNCHANGED <<row, lock, sidecar, guard, wronged>>

Next ==
  \E p \in Runs :
    \/ Enqueue(p) \/ Poll(p) \/ ReleaseRun(p) \/ Close(p) \/ Sweep(p) \/ Judge(p)
    \/ CreateLock(p) \/ CreateSidecar(p) \/ NoSidecar(p) \/ Commit(p) \/ Discard(p) \/ RollBack(p)
    \/ SpawnGuard(p) \/ Adopt(p) \/ Register(p) \/ GuardEnds(p) \/ Release(p) \/ Give(p) \/ Crash(p)
    \/ TakeLock(p) \/ UnlinkSidecar(p) \/ UnlinkLock(p)
Spec == Init /\ [][Next]_vars

----------------------------------------------------------------------------
(* Properties.                                                              *)

\* A row that may be judged has its files, and they name each other; a living
\* owner or guard keeps the lock, so that nobody closes the row of a living
\* run.  (scheduler.py: the lease is created and locked before the INSERT;
\* _sweep_leases_locked runs before anything is judged)
LeaseTellsTruth ==
  /\ \A r \in Runs : Live(r) => lock[r] # None /\ sidecar[r] = lock[r]
  /\ \A r \in Runs : Live(r) /\ Alive(r) => Locked(r, lock[r])
  /\ wronged = {}

\* A sidecar is never left without its lock, which nobody would remove: of a
\* pair that is created or removed in two steps the lock exists longer.
NoOrphans == \A r \in Runs : sidecar[r] # None => lock[r] # None
=============================================================================
