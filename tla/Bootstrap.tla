------------------------------ MODULE Bootstrap ------------------------------
(***************************************************************************)
(* How the coordinator of a machine comes to be (scheduler.py, _open_state *)
(* and what it calls): a ledger file, its schema and identity in one       *)
(* transaction, a marker file that names the ledger, and the marker bound  *)
(* into the ledger.  Every opener holds the bootstrap lock; each step may  *)
(* be the last of its process, and the next opener decides what it finds.  *)
(***************************************************************************)
EXTENDS Integers

CONSTANTS
  Processes,   \* each opens the coordinator once
  None

\* The names of the processes are not taken for what is no process.
NoneDiffers == "torn" \notin Processes \union {None} /\ None \notin Processes

VARIABLES
  lockfile,  \* bootstrap.lock exists
  holder,    \* who holds its flock, or None
  ledger,    \* the ledger: does its file exist, whose schema, bound to the marker, rows
  marker,    \* None, "torn" (created, not written) or the identity it names
  opener     \* each process: where it is, how it opens, and what came of it

vars == <<lockfile, holder, ledger, marker, opener>>

\* create: enqueue and initialize; write: the other transactions; read: views.
Ways == {"create", "write", "read"}

Init ==
  /\ lockfile = FALSE /\ holder = None /\ marker = None
  /\ ledger = [exists |-> FALSE, domain |-> None, bound |-> FALSE, rows |-> FALSE]
  /\ \E way \in [Processes -> Ways] :
       opener = [p \in Processes |-> [pc |-> "new", way |-> way[p], sees |-> None]]

At(p, pc) == opener[p].pc = pc
Go(p, pc) == opener' = [opener EXCEPT ![p].pc = pc]
\* The lock is left with every verdict.
Leave(p, verdict) == Go(p, verdict) /\ holder' = None
Reads(p) == opener[p].way = "read"

----------------------------------------------------------------------------
\* Only who may create the coordinator creates the lock's file.
Begin(p) ==
  /\ At(p, "new")
  /\ IF opener[p].way = "create" \/ lockfile THEN lockfile' = TRUE /\ Go(p, "wait")
     ELSE Go(p, "uninitialized") /\ UNCHANGED lockfile
  /\ UNCHANGED <<holder, ledger, marker>>

\* Mutant: the lock is not waited for.
LockTaken == TRUE
LockFree == holder = None
Acquire(p) ==
  /\ At(p, "wait") /\ LockFree
  /\ holder' = p /\ Go(p, "look")
  /\ UNCHANGED <<lockfile, ledger, marker>>

\* What no opener repairs: a marker without its ledger or half written, a
\* ledger without its schema, and two that do not name each other.
Broken ==
  \/ ~ ledger.exists /\ marker # None
  \/ ledger.exists /\ (ledger.domain = None \/ marker \notin {None, ledger.domain})
\* A publication that was cut is completed by a writer, while nothing rests on
\* it yet.
Incomplete == marker = None \/ ~ ledger.bound
Repairable(p) == ~ Reads(p) /\ ~ ledger.rows /\ (marker = None => ~ ledger.bound)

LookEmpty(p) ==
  /\ At(p, "look") /\ ~ Broken /\ ~ ledger.exists
  /\ IF opener[p].way = "create" THEN Go(p, "create") /\ UNCHANGED holder
     ELSE Leave(p, "uninitialized")
  /\ UNCHANGED <<lockfile, ledger, marker>>
LookIncomplete(p) ==
  /\ At(p, "look") /\ ~ Broken /\ ledger.exists /\ Incomplete
  /\ IF Repairable(p) THEN Go(p, IF marker = None THEN "marker" ELSE "bind") /\ UNCHANGED holder
     ELSE Leave(p, "refused")
  /\ UNCHANGED <<lockfile, ledger, marker>>
LookWhole(p) ==
  /\ At(p, "look") /\ ~ Broken /\ ledger.exists /\ ~ Incomplete
  /\ opener' = [opener EXCEPT ![p].pc = "open", ![p].sees = ledger.domain] /\ holder' = None
  /\ UNCHANGED <<lockfile, ledger, marker>>
LookBroken(p) ==
  /\ At(p, "look") /\ Broken /\ Leave(p, "refused")
  /\ UNCHANGED <<lockfile, ledger, marker>>

\* _initial_state: the file, then one transaction with schema and identity.
CreateLedger(p) ==
  /\ At(p, "create") /\ ~ ledger.exists
  /\ ledger' = [ledger EXCEPT !.exists = TRUE] /\ Go(p, "schema")
  /\ UNCHANGED <<lockfile, holder, marker>>
CommitSchema(p) ==
  /\ At(p, "schema")
  /\ ledger' = [ledger EXCEPT !.domain = p] /\ Go(p, "marker")
  /\ UNCHANGED <<lockfile, holder, marker>>
\* create_exclusive: the entry is there before its content.
CreateMarker(p) ==
  /\ At(p, "marker") /\ marker = None
  /\ marker' = "torn" /\ Go(p, "content")
  /\ UNCHANGED <<lockfile, holder, ledger>>
WriteMarker(p) ==
  /\ At(p, "content")
  /\ marker' = ledger.domain /\ Go(p, "bind")
  /\ UNCHANGED <<lockfile, holder, ledger>>
\* It cannot be written, and is removed.
TakeMarkerBack(p) ==
  /\ At(p, "content")
  /\ marker' = None /\ Leave(p, "failed")
  /\ UNCHANGED <<lockfile, ledger>>
Bind(p) ==
  /\ At(p, "bind")
  /\ ledger' = [ledger EXCEPT !.bound = TRUE] /\ Go(p, "look")
  /\ UNCHANGED <<lockfile, holder, marker>>
\* A transaction fails and is rolled back.
Fail(p) ==
  /\ At(p, "schema") \/ At(p, "bind")
  /\ Leave(p, "failed")
  /\ UNCHANGED <<lockfile, ledger, marker>>

\* A run is enqueued through the connection that was validated.
Insert(p) ==
  /\ At(p, "open") /\ opener[p].way = "create"
  /\ ledger' = [ledger EXCEPT !.rows = TRUE] /\ Go(p, "done")
  /\ UNCHANGED <<lockfile, holder, marker>>

Crash(p) ==
  /\ opener[p].pc \in {"wait", "look", "create", "schema", "marker", "content", "bind"}
  /\ Go(p, "dead") /\ holder' = (IF holder = p THEN None ELSE holder)
  /\ UNCHANGED <<lockfile, ledger, marker>>

Next ==
  \E p \in Processes :
    \/ Begin(p) \/ Acquire(p) \/ LookEmpty(p) \/ LookIncomplete(p) \/ LookWhole(p) \/ LookBroken(p)
    \/ CreateLedger(p) \/ CommitSchema(p) \/ CreateMarker(p) \/ WriteMarker(p) \/ TakeMarkerBack(p)
    \/ Bind(p) \/ Fail(p) \/ Insert(p) \/ Crash(p)
Spec == Init /\ [][Next]_vars

----------------------------------------------------------------------------
(* Properties.                                                              *)

\* No writer is turned away for what another opener is in the middle of, or
\* for what a crash left that can be completed: only for a ledger that never
\* got its schema and a marker that never got its content.  (_open_state:
\* partial-state decisions belong inside the lock)
OnlyTheTornAreRefused ==
  \A p \in Processes : At(p, "refused") /\ ~ Reads(p) => ledger.domain = None \/ marker = "torn"

\* Rows rest on a coordinator whose marker and ledger name each other, so that
\* none of the checks of a later opener can refuse it.  (_empty_initialization)
RowsAreBound == ledger.rows => ledger.bound /\ ledger.domain # None /\ marker = ledger.domain

\* Whoever opened the coordinator opened the same one.
OneCoordinator == \A p \in Processes : opener[p].sees \in {None, ledger.domain}

BootstrapHolds == OnlyTheTornAreRefused /\ RowsAreBound /\ OneCoordinator
=============================================================================
