-------------------------- MODULE LeaseFilesProofs --------------------------
(***************************************************************************)
(* Proof that the files of a run's lease never mislead who judges it, for  *)
(* any number of runs and namespaces, and that no sidecar is orphaned.     *)
(*                                                                         *)
(* Files is the promise, for the rows that may be judged.  It rests on the *)
(* write lock: Transactions says what the one transaction knows at each of *)
(* its steps, of its own files and of those it judged, and Removals that   *)
(* files are removed only of rows that are terminal, or of rows without a  *)
(* commit by the transaction itself.                                       *)
(***************************************************************************)
EXTENDS LeaseFiles, TLAPS

Phases == {"new", "waiting", "running", "closed", "released", "dead"}
RemovalRecord == [run : Runs, step : {"lock", "sidecar", "unlink"}, inode : Nat \union {None}]

TypeOK ==
  /\ row \in [Runs -> {None, "queued", "granted", "terminal"}]
  /\ lock \in [Runs -> Nat \union {None}] /\ sidecar \in [Runs -> Nat \union {None}]
  /\ owner \in [Runs -> [pc : Phases, holds : Nat \union {None}, tries : Nat]]
  /\ guard \in [Runs -> {"none", "inherited", "adopted", "registered", "gone"}]
  /\ db \in TransactionRecord \union {None}
  /\ removal \in [Runs -> RemovalRecord \union {None}]
  /\ wronged \subseteq Runs

\* A row that may be judged has the files of its run's last enqueue, which a
\* living owner holds.
Files(r) ==
  /\ Live(r) => lock[r] = owner[r].tries /\ sidecar[r] = owner[r].tries
  /\ Live(r) /\ OwnerAlive(r) => owner[r].holds = owner[r].tries
  /\ sidecar[r] # None => lock[r] # None

Owners(r) ==
  /\ owner[r].pc = "new" => row[r] = None
  /\ owner[r].pc \in {"closed", "released"} => row[r] = "terminal"

Removals(p) ==
  removal[p] # None =>
    /\ removal[p].step = "unlink" => sidecar[removal[p].run] = None
    /\ \/ row[removal[p].run] = "terminal"
       \/ /\ row[removal[p].run] = None /\ Transacts(p)
          /\ db.step = "sweep" \/ (db.step = "discarded" /\ removal[p].run = p)

\* Who transacts, and what it has judged: no run comes to life while it does.
Judged ==
  /\ db.by \notin db.gone
  /\ \A r \in db.gone \union db.expired : row[r] # None
  /\ \A r \in db.gone : ~ Alive(r)
Creates(p) ==
  /\ db.step = "sidecar" => lock[p] = owner[p].tries /\ owner[p].holds = owner[p].tries /\ sidecar[p] = None
  /\ db.step = "commit" /\ db.kind = "enqueue" =>
       lock[p] = owner[p].tries /\ owner[p].holds = owner[p].tries /\ sidecar[p] = owner[p].tries
Transactions ==
  db # None =>
    /\ owner[db.by].pc \in (CASE db.kind = "close" -> {"waiting", "running"}
                              [] db.kind = "poll" -> {"waiting"}
                              [] OTHER -> {"new"})
    /\ db.step \in {"create", "sidecar", "discarded"} => db.kind = "enqueue"
    /\ Judged /\ Creates(db.by)

IInv ==
  /\ TypeOK /\ Transactions /\ wronged = {}
  /\ \A r \in Runs : Files(r) /\ Owners(r) /\ Removals(r)


----------------------------------------------------------------------------
\* What an owner, or a removal, may become.
OwnerType == [pc : Phases, holds : Nat \union {None}, tries : Nat]
RemovalType == RemovalRecord \union {None}
LEMMA OwnerMoves ==
  ASSUME TypeOK, NEW p \in Runs, NEW pc \in Phases
  PROVE  /\ [owner EXCEPT ![p].pc = pc] \in [Runs -> OwnerType]
         /\ [owner EXCEPT ![p].holds = None] \in [Runs -> OwnerType]
BY DEF TypeOK, OwnerType
LEMMA RemovalMoves ==
  ASSUME TypeOK, NEW p \in Runs, NEW x \in RemovalType
  PROVE  [removal EXCEPT ![p] = x] \in [Runs -> RemovalType]
BY DEF TypeOK, RemovalType

\* The rows, files, processes and transactions keep their types.
LEMMA Typing == ASSUME NoneDiffers PROVE Spec => []TypeOK
<1> USE DEF NoneDiffers, TypeOK, Phases, Steps, Kinds, TransactionRecord, RemovalRecord
<1>1. Init => TypeOK
  BY DEF Init
<1>2. TypeOK /\ [Next]_vars => TypeOK'
  <2> SUFFICES ASSUME TypeOK, [Next]_vars PROVE TypeOK'
    OBVIOUS
  <2> USE DEF Transacts, Live, OwnerAlive
  <2>1. ASSUME NEW p \in Runs, Enqueue(p) PROVE TypeOK'
    BY <2>1 DEF Enqueue, Transaction
  <2>2. ASSUME NEW p \in Runs, Poll(p) PROVE TypeOK'
    BY <2>2 DEF Poll, Transaction
  <2>3. ASSUME NEW p \in Runs, ReleaseRun(p) PROVE TypeOK'
    BY <2>3 DEF ReleaseRun, Transaction
  <2>4. ASSUME NEW p \in Runs, Close(p) PROVE TypeOK'
    BY <2>4 DEF Close, Transaction, GuardRuns
  <2>5. ASSUME NEW p \in Runs, Sweep(p) PROVE TypeOK'
    <3> PICK r \in Runs :
          /\ ~ Live(r) /\ lock[r] # None
          /\ owner' = (IF r = p THEN Drop(p) ELSE owner) /\ Removing(p, r)
      BY <2>5 DEF Sweep
    <3>1. owner' \in [Runs -> OwnerType]
      BY OwnerMoves DEF Drop, OwnerType
    <3>2. removal' \in [Runs -> RemovalType]
      <4>1. (IF Removable(r) THEN [run |-> r, step |-> "lock", inode |-> lock[r]] ELSE None) \in RemovalType
        BY DEF RemovalType
      <4> QED
        BY <4>1, RemovalMoves DEF Removing
    <3> QED
      BY <2>5, <3>1, <3>2 DEF Sweep, OwnerType, RemovalType
  <2>6. ASSUME NEW p \in Runs, Judge(p) PROVE TypeOK'
    <3>1. db \in TransactionRecord
      BY <2>6 DEF Judge, In
    <3>2. PICK late \in SUBSET {r \in Runs : row[r] = "queued"} :
            db' = [db EXCEPT !.step = IF db.kind = "enqueue" THEN "create" ELSE "commit",
                             !.expired = late,
                             !.gone = {r \in Runs \ ({p} \union late) : Live(r) /\ JudgedGone(p, r)}]
      BY <2>6 DEF Judge
    <3>3. late \subseteq Runs
      OBVIOUS
    <3>4. db' \in TransactionRecord
      BY <3>1, <3>2, <3>3
    <3> QED
      BY <2>6, <3>4 DEF Judge
  <2>7. ASSUME NEW p \in Runs, CreateLock(p) PROVE TypeOK'
    <3>1. lock' \in [Runs -> Nat \union {None}]
      BY <2>7 DEF CreateLock
    <3>2. owner' \in [Runs -> [pc : Phases, holds : Nat \union {None}, tries : Nat]]
      BY <2>7 DEF CreateLock
    <3>3. db' \in TransactionRecord
      BY <2>7 DEF CreateLock, In, Continue
    <3> QED
      BY <2>7, <3>1, <3>2, <3>3 DEF CreateLock
  <2>8. ASSUME NEW p \in Runs, CreateSidecar(p) PROVE TypeOK'
    BY <2>8 DEF CreateSidecar, In, Continue
  <2>9. ASSUME NEW p \in Runs, NoSidecar(p) PROVE TypeOK'
    BY <2>9 DEF NoSidecar, In, Drop
  <2>10. ASSUME NEW p \in Runs, Commit(p) PROVE TypeOK'
    <3>1. Own(p) \in {None, "queued", "granted", "terminal"} /\ Phase(p) \in Phases
      BY DEF Own, Phase
    <3>2. row' \in [Runs -> {None, "queued", "granted", "terminal"}]
      BY <2>10, <3>1 DEF Commit
    <3>3. owner' \in [Runs -> OwnerType]
      BY <2>10, <3>1, OwnerMoves DEF Commit
    <3>4. removal' \in [Runs -> RemovalRecord \union {None}]
      BY <2>10 DEF Commit, In, Removing, Removable
    <3>5. wronged' \subseteq Runs /\ db' = None
      BY <2>10 DEF Commit, In
    <3> QED
      BY <2>10, <3>2, <3>3, <3>4, <3>5 DEF Commit, OwnerType
  <2>11. ASSUME NEW p \in Runs, Discard(p) PROVE TypeOK'
    BY <2>11 DEF Discard, In, Continue
  <2>12. ASSUME NEW p \in Runs, RollBack(p) PROVE TypeOK'
    BY <2>12 DEF RollBack, In, Drop
  <2>13. ASSUME NEW p \in Runs, SpawnGuard(p) PROVE TypeOK'
    BY <2>13 DEF SpawnGuard
  <2>14. ASSUME NEW p \in Runs, Adopt(p) PROVE TypeOK'
    BY <2>14 DEF Adopt
  <2>15. ASSUME NEW p \in Runs, Register(p) PROVE TypeOK'
    BY <2>15 DEF Register
  <2>16. ASSUME NEW p \in Runs, GuardEnds(p) PROVE TypeOK'
    BY <2>16 DEF GuardEnds, GuardRuns
  <2>17. ASSUME NEW p \in Runs, Release(p) PROVE TypeOK'
    BY <2>17 DEF Release, Drop, Removing, Removable
  <2>18. ASSUME NEW p \in Runs, Give(p) PROVE TypeOK'
    BY <2>18 DEF Give, Drop
  <2>19. ASSUME NEW p \in Runs, Crash(p) PROVE TypeOK'
    BY <2>19 DEF Crash, Drop, Removed
  <2>20. ASSUME NEW p \in Runs, TakeLock(p) PROVE TypeOK'
    <3>1. removal' \in [Runs -> RemovalRecord \union {None}]
      <4>1. CASE removal' = [removal EXCEPT ![p] = None]
        BY <4>1
      <4>2. CASE removal' = [removal EXCEPT ![p].step = "sidecar"] /\ removal[p] \in RemovalRecord
        BY <4>2
      <4> QED
        BY <2>20, <4>1, <4>2 DEF TakeLock, At, Removed
    <3> QED
      BY <2>20, <3>1 DEF TakeLock
  <2>21. ASSUME NEW p \in Runs, UnlinkSidecar(p) PROVE TypeOK'
    BY <2>21 DEF UnlinkSidecar, At
  <2>22. ASSUME NEW p \in Runs, UnlinkLock(p) PROVE TypeOK'
    BY <2>22 DEF UnlinkLock, At, Removed
  <2>23. CASE UNCHANGED vars
    BY <2>23 DEF vars
  <2> QED
    BY <2>1, <2>2, <2>3, <2>4, <2>5, <2>6, <2>7, <2>8, <2>9, <2>10, <2>11, <2>12, <2>13, <2>14, <2>15, <2>16, <2>17, <2>18, <2>19, <2>20, <2>21, <2>22, <2>23 DEF Next
<1>3. QED
  BY <1>1, <1>2, PTL DEF Spec

\* No step of an owner, a guard or a transaction breaks the invariant.
LEMMA Stepwise == ASSUME NoneDiffers PROVE IInv /\ [Next]_vars /\ TypeOK' => IInv'
<1> SUFFICES ASSUME NoneDiffers, IInv, [Next]_vars, TypeOK' PROVE IInv'
  OBVIOUS
<1> USE DEF NoneDiffers, TypeOK, Phases, Steps, Kinds, TransactionRecord, RemovalRecord,
            Transacts, Live, OwnerAlive
<1>1. ASSUME NEW p \in Runs, Enqueue(p) PROVE IInv'
  <2>1. Transactions' /\ wronged' = {}
    BY <1>1 DEF Enqueue, Transaction, IInv, Files, Owners, Removals, Transactions, Judged, Creates, Alive, GuardRuns
  <2>2. \A r \in Runs : Files(r)'
    BY <1>1 DEF Enqueue, Transaction, IInv, Files, Owners, Removals, Transactions, Judged, Creates
  <2>3. \A r \in Runs : Owners(r)'
    BY <1>1 DEF Enqueue, Transaction, IInv, Owners, Transactions, Judged
  <2>4. \A r \in Runs : Removals(r)'
    BY <1>1 DEF Enqueue, Transaction, IInv, Owners, Removals, Transactions, Judged, Creates
  <2> QED
    BY <2>1, <2>2, <2>3, <2>4 DEF IInv
<1>2. ASSUME NEW p \in Runs, Poll(p) PROVE IInv'
  <2>1. Transactions' /\ wronged' = {}
    BY <1>2 DEF Poll, Transaction, IInv, Files, Owners, Removals, Transactions, Judged, Creates, Alive, GuardRuns
  <2>2. \A r \in Runs : Files(r)'
    BY <1>2 DEF Poll, Transaction, IInv, Files, Owners, Removals, Transactions, Judged, Creates
  <2>3. \A r \in Runs : Owners(r)'
    BY <1>2 DEF Poll, Transaction, IInv, Owners, Transactions, Judged
  <2>4. \A r \in Runs : Removals(r)'
    BY <1>2 DEF Poll, Transaction, IInv, Owners, Removals, Transactions, Judged, Creates
  <2> QED
    BY <2>1, <2>2, <2>3, <2>4 DEF IInv
<1>3. ASSUME NEW p \in Runs, ReleaseRun(p) PROVE IInv'
  <2>1. Transactions' /\ wronged' = {}
    BY <1>3 DEF ReleaseRun, Transaction, IInv, Files, Owners, Removals, Transactions, Judged, Creates, Alive, GuardRuns
  <2>2. \A r \in Runs : Files(r)'
    BY <1>3 DEF ReleaseRun, Transaction, IInv, Files, Owners, Removals, Transactions, Judged, Creates
  <2>3. \A r \in Runs : Owners(r)'
    BY <1>3 DEF ReleaseRun, Transaction, IInv, Owners, Transactions, Judged
  <2>4. \A r \in Runs : Removals(r)'
    BY <1>3 DEF ReleaseRun, Transaction, IInv, Owners, Removals, Transactions, Judged, Creates
  <2> QED
    BY <2>1, <2>2, <2>3, <2>4 DEF IInv
<1>4. ASSUME NEW p \in Runs, Close(p) PROVE IInv'
  <2>1. Transactions' /\ wronged' = {}
    BY <1>4 DEF Close, Transaction, GuardRuns, IInv, Files, Owners, Removals, Transactions, Judged, Creates, Alive, GuardRuns
  <2>2. \A r \in Runs : Files(r)'
    BY <1>4 DEF Close, Transaction, GuardRuns, IInv, Files, Owners, Removals, Transactions, Judged, Creates
  <2>3. \A r \in Runs : Owners(r)'
    BY <1>4 DEF Close, Transaction, GuardRuns, IInv, Owners, Transactions, Judged
  <2>4. \A r \in Runs : Removals(r)'
    BY <1>4 DEF Close, Transaction, GuardRuns, IInv, Owners, Removals, Transactions, Judged, Creates
  <2> QED
    BY <2>1, <2>2, <2>3, <2>4 DEF IInv
<1>5. ASSUME NEW p \in Runs, Sweep(p) PROVE IInv'
  <2>1. Transactions' /\ wronged' = {}
    BY <1>5 DEF Sweep, In, Drop, Removing, Removable, IInv, Files, Owners, Removals, Transactions, Judged, Creates, Alive, GuardRuns
  <2>2. \A r \in Runs : Files(r)'
    BY <1>5 DEF Sweep, In, Drop, Removing, Removable, IInv, Files, Owners, Removals, Transactions, Judged, Creates
  <2>3. \A r \in Runs : Owners(r)'
    BY <1>5 DEF Sweep, In, Drop, Removing, Removable, IInv, Owners, Transactions, Judged
  <2>4. \A r \in Runs : Removals(r)'
    BY <1>5 DEF Sweep, In, Drop, Removing, Removable, IInv, Owners, Removals, Transactions, Judged, Creates
  <2> QED
    BY <2>1, <2>2, <2>3, <2>4 DEF IInv
<1>6. ASSUME NEW p \in Runs, Judge(p) PROVE IInv'
  <2>1. Transactions' /\ wronged' = {}
    <3>1. db # None /\ db.by = p /\ db \in TransactionRecord
      BY <1>6 DEF Judge, In, IInv
    <3>2. PICK late \in SUBSET {r \in Runs : row[r] = "queued"} :
            db' = [db EXCEPT !.step = IF db.kind = "enqueue" THEN "create" ELSE "commit",
                             !.expired = late,
                             !.gone = {r \in Runs \ ({p} \union late) : Live(r) /\ JudgedGone(p, r)}]
      BY <1>6 DEF Judge
    <3>3. ASSUME NEW r \in Runs, Live(r), JudgedGone(p, r) PROVE ~ Alive(r)
      <4>1. Files(r) /\ sidecar[r] # None
        BY <3>3 DEF IInv, Files
      <4>2. Alive(r) => Locked(r, lock[r])
        BY <3>3, <4>1 DEF Files, Locked, Alive, GuardRuns
      <4>3. JudgedGone(p, r) /\ ~ Foreign(p, r) => ~ Alive(r)
        BY DEF JudgedGone, JudgedByPids, Foreign
      <4> QED
        BY <3>3, <4>1, <4>2, <4>3 DEF JudgedGone
    <3>4. Judged'
      BY <1>6, <3>1, <3>2, <3>3 DEF Judge, Judged, Alive
    <3>5. /\ owner[p].pc \in (CASE db.kind = "close" -> {"waiting", "running"}
                                 [] db.kind = "poll" -> {"waiting"} [] OTHER -> {"new"})
          /\ db.step = "sweep" /\ UNCHANGED <<owner, wronged>> /\ wronged = {}
      BY <1>6, <3>1 DEF Judge, In, IInv, Transactions
    <3>6. /\ db'.by = p /\ db'.kind = db.kind
          /\ db'.step = IF db.kind = "enqueue" THEN "create" ELSE "commit"
      BY <3>1, <3>2
    <3> QED
      BY <3>4, <3>5, <3>6 DEF Transactions, Creates
  <2>2. \A r \in Runs : Files(r)'
    BY <1>6 DEF Judge, In, JudgedGone, JudgedByPids, Foreign, IInv, Files, Owners, Removals, Transactions, Judged, Creates
  <2>3. \A r \in Runs : Owners(r)'
    BY <1>6 DEF Judge, In, JudgedGone, JudgedByPids, Foreign, IInv, Owners, Transactions, Judged
  <2>4. \A r \in Runs : Removals(r)'
    BY <1>6 DEF Judge, In, JudgedGone, JudgedByPids, Foreign, IInv, Owners, Removals, Transactions, Judged, Creates
  <2> QED
    BY <2>1, <2>2, <2>3, <2>4 DEF IInv
<1>7. ASSUME NEW p \in Runs, CreateLock(p) PROVE IInv'
  <2>1. Transactions' /\ wronged' = {}
    BY <1>7 DEF CreateLock, In, Continue, IInv, Files, Owners, Removals, Transactions, Judged, Creates, Alive, GuardRuns
  <2>2. \A r \in Runs : Files(r)'
    BY <1>7 DEF CreateLock, In, Continue, IInv, Files, Owners, Removals, Transactions, Judged, Creates
  <2>3. \A r \in Runs : Owners(r)'
    BY <1>7 DEF CreateLock, In, Continue, IInv, Owners, Transactions, Judged
  <2>4. \A r \in Runs : Removals(r)'
    BY <1>7 DEF CreateLock, In, Continue, IInv, Owners, Removals, Transactions, Judged, Creates
  <2> QED
    BY <2>1, <2>2, <2>3, <2>4 DEF IInv
<1>8. ASSUME NEW p \in Runs, CreateSidecar(p) PROVE IInv'
  <2>1. Transactions' /\ wronged' = {}
    BY <1>8 DEF CreateSidecar, In, Continue, IInv, Files, Owners, Removals, Transactions, Judged, Creates, Alive, GuardRuns
  <2>2. \A r \in Runs : Files(r)'
    BY <1>8 DEF CreateSidecar, In, Continue, IInv, Files, Owners, Removals, Transactions, Judged, Creates
  <2>3. \A r \in Runs : Owners(r)'
    BY <1>8 DEF CreateSidecar, In, Continue, IInv, Owners, Transactions, Judged
  <2>4. \A r \in Runs : Removals(r)'
    BY <1>8 DEF CreateSidecar, In, Continue, IInv, Owners, Removals, Transactions, Judged, Creates
  <2> QED
    BY <2>1, <2>2, <2>3, <2>4 DEF IInv
<1>9. ASSUME NEW p \in Runs, NoSidecar(p) PROVE IInv'
  <2>1. Transactions' /\ wronged' = {}
    BY <1>9 DEF NoSidecar, In, Drop, IInv, Files, Owners, Removals, Transactions, Judged, Creates, Alive, GuardRuns
  <2>2. \A r \in Runs : Files(r)'
    BY <1>9 DEF NoSidecar, In, Drop, IInv, Files, Owners, Removals, Transactions, Judged, Creates
  <2>3. \A r \in Runs : Owners(r)'
    BY <1>9 DEF NoSidecar, In, Drop, IInv, Owners, Transactions, Judged
  <2>4. \A r \in Runs : Removals(r)'
    BY <1>9 DEF NoSidecar, In, Drop, IInv, Owners, Removals, Transactions, Judged, Creates
  <2> QED
    BY <2>1, <2>2, <2>3, <2>4 DEF IInv
<1>10. ASSUME NEW p \in Runs, Commit(p) PROVE IInv'
  <2>1. Transactions' /\ wronged' = {}
    BY <1>10 DEF Commit, In, Own, Phase, Removing, Removable, IInv, Files, Owners, Removals, Transactions, Judged, Creates, Alive, GuardRuns
  <2>2. \A r \in Runs : Files(r)'
    BY <1>10 DEF Commit, In, Own, Phase, Removing, Removable, IInv, Files, Owners, Removals, Transactions, Judged, Creates
  <2>3. \A r \in Runs : Owners(r)'
    BY <1>10 DEF Commit, In, Own, Phase, Removing, Removable, IInv, Owners, Transactions, Judged
  <2>4. \A r \in Runs : Removals(r)'
    BY <1>10 DEF Commit, In, Own, Phase, Removing, Removable, IInv, Owners, Removals, Transactions, Judged, Creates
  <2> QED
    BY <2>1, <2>2, <2>3, <2>4 DEF IInv
<1>11. ASSUME NEW p \in Runs, Discard(p) PROVE IInv'
  <2>1. Transactions' /\ wronged' = {}
    BY <1>11 DEF Discard, In, Continue, IInv, Files, Owners, Removals, Transactions, Judged, Creates, Alive, GuardRuns
  <2>2. \A r \in Runs : Files(r)'
    BY <1>11 DEF Discard, In, Continue, IInv, Files, Owners, Removals, Transactions, Judged, Creates
  <2>3. \A r \in Runs : Owners(r)'
    BY <1>11 DEF Discard, In, Continue, IInv, Owners, Transactions, Judged
  <2>4. \A r \in Runs : Removals(r)'
    BY <1>11 DEF Discard, In, Continue, IInv, Owners, Removals, Transactions, Judged, Creates
  <2> QED
    BY <2>1, <2>2, <2>3, <2>4 DEF IInv
<1>12. ASSUME NEW p \in Runs, RollBack(p) PROVE IInv'
  <2>1. Transactions' /\ wronged' = {}
    BY <1>12 DEF RollBack, In, Drop, IInv, Files, Owners, Removals, Transactions, Judged, Creates, Alive, GuardRuns
  <2>2. \A r \in Runs : Files(r)'
    BY <1>12 DEF RollBack, In, Drop, IInv, Files, Owners, Removals, Transactions, Judged, Creates
  <2>3. \A r \in Runs : Owners(r)'
    BY <1>12 DEF RollBack, In, Drop, IInv, Owners, Transactions, Judged
  <2>4. \A r \in Runs : Removals(r)'
    BY <1>12 DEF RollBack, In, Drop, IInv, Owners, Removals, Transactions, Judged, Creates
  <2> QED
    BY <2>1, <2>2, <2>3, <2>4 DEF IInv
<1>13. ASSUME NEW p \in Runs, SpawnGuard(p) PROVE IInv'
  <2>1. Transactions' /\ wronged' = {}
    BY <1>13 DEF SpawnGuard, IInv, Files, Owners, Removals, Transactions, Judged, Creates, Alive, GuardRuns
  <2>2. \A r \in Runs : Files(r)'
    BY <1>13 DEF SpawnGuard, IInv, Files, Owners, Removals, Transactions, Judged, Creates
  <2>3. \A r \in Runs : Owners(r)'
    BY <1>13 DEF SpawnGuard, IInv, Owners, Transactions, Judged
  <2>4. \A r \in Runs : Removals(r)'
    BY <1>13 DEF SpawnGuard, IInv, Owners, Removals, Transactions, Judged, Creates
  <2> QED
    BY <2>1, <2>2, <2>3, <2>4 DEF IInv
<1>14. ASSUME NEW p \in Runs, Adopt(p) PROVE IInv'
  <2>1. Transactions' /\ wronged' = {}
    BY <1>14 DEF Adopt, IInv, Files, Owners, Removals, Transactions, Judged, Creates, Alive, GuardRuns
  <2>2. \A r \in Runs : Files(r)'
    BY <1>14 DEF Adopt, IInv, Files, Owners, Removals, Transactions, Judged, Creates
  <2>3. \A r \in Runs : Owners(r)'
    BY <1>14 DEF Adopt, IInv, Owners, Transactions, Judged
  <2>4. \A r \in Runs : Removals(r)'
    BY <1>14 DEF Adopt, IInv, Owners, Removals, Transactions, Judged, Creates
  <2> QED
    BY <2>1, <2>2, <2>3, <2>4 DEF IInv
<1>15. ASSUME NEW p \in Runs, Register(p) PROVE IInv'
  <2>1. Transactions' /\ wronged' = {}
    BY <1>15 DEF Register, IInv, Files, Owners, Removals, Transactions, Judged, Creates, Alive, GuardRuns
  <2>2. \A r \in Runs : Files(r)'
    BY <1>15 DEF Register, IInv, Files, Owners, Removals, Transactions, Judged, Creates
  <2>3. \A r \in Runs : Owners(r)'
    BY <1>15 DEF Register, IInv, Owners, Transactions, Judged
  <2>4. \A r \in Runs : Removals(r)'
    BY <1>15 DEF Register, IInv, Owners, Removals, Transactions, Judged, Creates
  <2> QED
    BY <2>1, <2>2, <2>3, <2>4 DEF IInv
<1>16. ASSUME NEW p \in Runs, GuardEnds(p) PROVE IInv'
  <2>1. Transactions' /\ wronged' = {}
    BY <1>16 DEF GuardEnds, GuardRuns, IInv, Files, Owners, Removals, Transactions, Judged, Creates, Alive, GuardRuns
  <2>2. \A r \in Runs : Files(r)'
    BY <1>16 DEF GuardEnds, GuardRuns, IInv, Files, Owners, Removals, Transactions, Judged, Creates
  <2>3. \A r \in Runs : Owners(r)'
    BY <1>16 DEF GuardEnds, GuardRuns, IInv, Owners, Transactions, Judged
  <2>4. \A r \in Runs : Removals(r)'
    BY <1>16 DEF GuardEnds, GuardRuns, IInv, Owners, Removals, Transactions, Judged, Creates
  <2> QED
    BY <2>1, <2>2, <2>3, <2>4 DEF IInv
<1>17. ASSUME NEW p \in Runs, Release(p) PROVE IInv'
  <2>1. Transactions' /\ wronged' = {}
    BY <1>17 DEF Release, Drop, Removing, Removable, IInv, Files, Owners, Removals, Transactions, Judged, Creates, Alive, GuardRuns
  <2>2. \A r \in Runs : Files(r)'
    BY <1>17 DEF Release, Drop, Removing, Removable, IInv, Files, Owners, Removals, Transactions, Judged, Creates
  <2>3. \A r \in Runs : Owners(r)'
    BY <1>17 DEF Release, Drop, Removing, Removable, IInv, Owners, Transactions, Judged
  <2>4. \A r \in Runs : Removals(r)'
    BY <1>17 DEF Release, Drop, Removing, Removable, IInv, Owners, Removals, Transactions, Judged, Creates
  <2> QED
    BY <2>1, <2>2, <2>3, <2>4 DEF IInv
<1>18. ASSUME NEW p \in Runs, Give(p) PROVE IInv'
  <2>1. Transactions' /\ wronged' = {}
    BY <1>18 DEF Give, Drop, IInv, Files, Owners, Removals, Transactions, Judged, Creates, Alive, GuardRuns
  <2>2. \A r \in Runs : Files(r)'
    BY <1>18 DEF Give, Drop, IInv, Files, Owners, Removals, Transactions, Judged, Creates
  <2>3. \A r \in Runs : Owners(r)'
    BY <1>18 DEF Give, Drop, IInv, Owners, Transactions, Judged
  <2>4. \A r \in Runs : Removals(r)'
    BY <1>18 DEF Give, Drop, IInv, Owners, Removals, Transactions, Judged, Creates
  <2> QED
    BY <2>1, <2>2, <2>3, <2>4 DEF IInv
<1>19. ASSUME NEW p \in Runs, Crash(p) PROVE IInv'
  <2>1. Transactions' /\ wronged' = {}
    BY <1>19 DEF Crash, Drop, Removed, IInv, Files, Owners, Removals, Transactions, Judged, Creates, Alive, GuardRuns
  <2>2. \A r \in Runs : Files(r)'
    BY <1>19 DEF Crash, Drop, Removed, IInv, Files, Owners, Removals, Transactions, Judged, Creates
  <2>3. \A r \in Runs : Owners(r)'
    BY <1>19 DEF Crash, Drop, Removed, IInv, Owners, Transactions, Judged
  <2>4. \A r \in Runs : Removals(r)'
    BY <1>19 DEF Crash, Drop, Removed, IInv, Owners, Removals, Transactions, Judged, Creates
  <2> QED
    BY <2>1, <2>2, <2>3, <2>4 DEF IInv
<1>20. ASSUME NEW p \in Runs, TakeLock(p) PROVE IInv'
  <2>1. Transactions' /\ wronged' = {}
    BY <1>20 DEF TakeLock, At, Removed, IInv, Files, Owners, Removals, Transactions, Judged, Creates, Alive, GuardRuns
  <2>2. \A r \in Runs : Files(r)'
    BY <1>20 DEF TakeLock, At, Removed, IInv, Files, Owners, Removals, Transactions, Judged, Creates
  <2>3. \A r \in Runs : Owners(r)'
    BY <1>20 DEF TakeLock, At, Removed, IInv, Owners, Transactions, Judged
  <2>4. \A r \in Runs : Removals(r)'
    <3>1. UNCHANGED <<row, sidecar, db>>
      BY <1>20 DEF TakeLock
    <3>2. ASSUME NEW r \in Runs, removal'[r] # None
          PROVE  /\ removal[r] # None /\ removal'[r].run = removal[r].run
                 /\ removal'[r].step = "unlink" => removal[r].step = "unlink"
      BY <1>20, <3>2 DEF TakeLock, At, Removed, IInv
    <3> QED
      BY <3>1, <3>2 DEF IInv, Removals
  <2> QED
    BY <2>1, <2>2, <2>3, <2>4 DEF IInv
<1>21. ASSUME NEW p \in Runs, UnlinkSidecar(p) PROVE IInv'
  <2>1. Transactions' /\ wronged' = {}
    BY <1>21 DEF UnlinkSidecar, At, IInv, Files, Owners, Removals, Transactions, Judged, Creates, Alive, GuardRuns
  <2>2. \A r \in Runs : Files(r)'
    BY <1>21 DEF UnlinkSidecar, At, IInv, Files, Owners, Removals, Transactions, Judged, Creates
  <2>3. \A r \in Runs : Owners(r)'
    BY <1>21 DEF UnlinkSidecar, At, IInv, Owners, Transactions, Judged
  <2>4. \A r \in Runs : Removals(r)'
    BY <1>21 DEF UnlinkSidecar, At, IInv, Owners, Removals, Transactions, Judged, Creates
  <2> QED
    BY <2>1, <2>2, <2>3, <2>4 DEF IInv
<1>22. ASSUME NEW p \in Runs, UnlinkLock(p) PROVE IInv'
  <2>1. Transactions' /\ wronged' = {}
    BY <1>22 DEF UnlinkLock, At, Removed, IInv, Files, Owners, Removals, Transactions, Judged, Creates, Alive, GuardRuns
  <2>2. \A r \in Runs : Files(r)'
    BY <1>22 DEF UnlinkLock, At, Removed, IInv, Files, Owners, Removals, Transactions, Judged, Creates
  <2>3. \A r \in Runs : Owners(r)'
    BY <1>22 DEF UnlinkLock, At, Removed, IInv, Owners, Transactions, Judged
  <2>4. \A r \in Runs : Removals(r)'
    BY <1>22 DEF UnlinkLock, At, Removed, IInv, Owners, Removals, Transactions, Judged, Creates
  <2> QED
    BY <2>1, <2>2, <2>3, <2>4 DEF IInv
<1>23. CASE UNCHANGED vars
  BY <1>23 DEF vars, IInv, Files, Owners, Removals, Transactions, Judged, Creates, Alive
<1> QED
  BY <1>1, <1>2, <1>3, <1>4, <1>5, <1>6, <1>7, <1>8, <1>9, <1>10, <1>11, <1>12, <1>13, <1>14, <1>15, <1>16, <1>17, <1>18, <1>19, <1>20, <1>21, <1>22, <1>23 DEF Next

\* Whoever judges a run by its files judges it truly, and no sidecar is left
\* without its lock, wherever owners, guards and transactions end.
LEMMA Invariance == ASSUME NoneDiffers PROVE Spec => []IInv
<1>1. Init => Transactions /\ wronged = {} /\ \A r \in Runs : Files(r) /\ Owners(r) /\ Removals(r)
  BY DEF NoneDiffers, Init, Transactions, Files, Owners, Removals, Live
<1>2. Init /\ TypeOK => IInv
  BY <1>1 DEF IInv
<1>3. Spec => []TypeOK
  BY Typing
<1>4. IInv /\ [Next]_vars /\ TypeOK' => IInv'
  BY Stepwise
<1> QED
  BY <1>2, <1>3, <1>4, PTL DEF Spec

\* LeaseTellsTruth and NoOrphans for any runs in any namespaces: a row that may
\* be judged has its files, a living owner or guard keeps the lock, and nobody
\* closes the row of a living run.  (leases.py; _classify_row)
THEOREM FilesTellTheTruth == ASSUME NoneDiffers PROVE Spec => [](LeaseTellsTruth /\ NoOrphans)
<1>1. ASSUME IInv PROVE LeaseTellsTruth /\ NoOrphans
  <2>1. /\ \A r \in Runs : Files(r)
        /\ wronged = {}
        /\ \A r \in Runs : owner[r].tries \in Nat
    BY <1>1 DEF IInv, TypeOK
  <2>2. ASSUME NEW r \in Runs, Live(r), Alive(r) PROVE Locked(r, lock[r])
    BY <2>1, <2>2 DEF Files, Locked, Alive, GuardRuns
  <2> QED
    BY <2>1, <2>2 DEF Files, LeaseTellsTruth, NoOrphans, NoneDiffers
<1>2. Spec => []IInv
  BY Invariance
<1> QED
  BY <1>1, <1>2, PTL
=============================================================================
