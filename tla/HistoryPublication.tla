------------------------- MODULE HistoryPublication -------------------------
(***************************************************************************)
(* The marker files around a checkout's history database.                  *)
(*                                                                         *)
(* A publisher announces that an outcome may be lost before it touches the *)
(* database and takes the announcement back after the commit; a reader     *)
(* looks at the markers without any lock to decide whether the history may *)
(* narrow a run.  Every marker is a file of its own, so every write and    *)
(* every removal is a step, may fail, and may be the last one its process  *)
(* ever does.                                                              *)
(***************************************************************************)
EXTENDS Integers, Sequences, FiniteSetsExt

CONSTANTS
  Publishers,    \* processes that publish one outcome each
  FullGates,     \* those whose outcome is a clean full gate, all tests passed
  Shadows,       \* those that publish a shadow comparison
  Readers,       \* processes that read the history once
  Settings,      \* the settings explored: [publishers, start, faults]
  None

\* None is no number, process or warning; a setting names publishers, one of the
\* stores, and faults among crash, marker, contended, full and corrupt.
MarkersMakeSense ==
  /\ None \notin Publishers \union Nat \union {"exceeded", "corrupt", "uncertain"}
  /\ FullGates \subseteq Publishers /\ Shadows \subseteq Publishers
  /\ \A s \in Settings : s.publishers \subseteq Publishers /\ s.start \in {"absent", "current", "previous"}

VARIABLES
  setting,       \* who publishes here, the store it starts from, and what may fail
  disabled,      \* the permanent marker exists
  marker,        \* publication, capacity, reserve: a sequence or None; active
  store,         \* the database file: absent, current or of a previous project
  rows,          \* the runs committed to the current store: [by, seq]
  lock,          \* the writer lock
  pub,           \* the publishers
  reader,        \* the readers
  lost           \* publishers whose outcome is lost (never read by the program)

vars == <<setting, disabled, marker, store, rows, lock, pub, reader, lost>>

Highest(s) == Max({n \in s : n # None} \union {0})

Blank ==
  [pc |-> "run", seq |-> 0, try |-> 1, inherited |-> None, capacity |-> None,
   todo |-> <<>>, strict |-> FALSE, ending |-> "none", enabled |-> TRUE,
   owes |-> FALSE, exit |-> 0]

Fresh == [pc |-> "start", try |-> 1, capacity |-> None, publication |-> None,
          mark |-> None, view |-> "none", owed |-> {}, seen |-> {}]

Init ==
  /\ setting \in Settings
  /\ disabled = FALSE /\ store = setting.start /\ rows = {} /\ lock = None
  /\ marker = [publication |-> None, capacity |-> None, reserve |-> None, active |-> None]
  /\ pub = [p \in Publishers |-> IF p \in setting.publishers THEN Blank ELSE [Blank EXCEPT !.pc = "gone"]]
  /\ reader = [r \in Readers |-> Fresh]
  /\ lost = {}

\* What may go wrong around the program in this setting.
Fails(fault) == fault \in setting.faults

----------------------------------------------------------------------------
(* A publisher's number.                                                    *)

Alive(p) == pub[p].pc # "gone"
Go(p, pc) == pub' = [pub EXCEPT ![p].pc = pc]

NextSequence == IF rows = {} THEN 0 ELSE Max({r.seq : r \in rows}) + 1

Number(p) ==
  /\ pub[p].pc = "run" /\ store # "previous"
  /\ pub' = [pub EXCEPT ![p].pc = "check", ![p].seq = NextSequence]
  /\ UNCHANGED <<disabled, marker, store, rows, lock, reader, lost>>

\* The store belongs to the project before it was initialised again.
FindPrevious(p) ==
  /\ pub[p].pc = "run" /\ store = "previous" /\ Go(p, "set aside")
  /\ UNCHANGED <<disabled, marker, store, rows, lock, reader, lost>>

\* The file is renamed away, whichever store it holds by now.
Moved == store' = "absent" /\ rows' = {}

SetAside(p) ==
  /\ pub[p].pc = "set aside" /\ Moved /\ Go(p, "check")
  /\ UNCHANGED <<disabled, marker, lock, reader, lost>>

----------------------------------------------------------------------------
(* Ending a publication.  An uncommitted outcome of a shadow run makes the  *)
(* run incomplete; any other run keeps the exit of its tests.               *)

Ended(p, ending) ==
  /\ lock' = IF lock = p THEN None ELSE lock
  /\ pub' = [pub EXCEPT ![p].pc = "done", ![p].ending = ending, ![p].todo = <<>>,
                        ![p].enabled = @ /\ ending = "committed",
                        ![p].owes = FALSE,
                        ![p].exit = IF p \in Shadows /\ ending # "committed" THEN 70 ELSE @]
  /\ lost' = IF pub[p].owes THEN lost \union {p} ELSE lost

Check(p) ==
  /\ pub[p].pc = "check"
  /\ IF disabled THEN Ended(p, "refused") ELSE Go(p, "queue") /\ UNCHANGED <<lock, lost>>
  /\ UNCHANGED <<disabled, marker, store, rows, reader>>

Lock(p) ==
  /\ pub[p].pc = "queue" /\ lock = None /\ lock' = p /\ Go(p, "enter")
  /\ UNCHANGED <<disabled, marker, store, rows, reader, lost>>

LockTimesOut(p) ==
  /\ pub[p].pc = "queue" /\ lock # None /\ Ended(p, "unavailable")
  /\ UNCHANGED <<disabled, marker, store, rows, reader>>

----------------------------------------------------------------------------
(* The reservation.  What the publisher knows of earlier markers it read    *)
(* under the lock; an abandoned reserve is only space and is dropped.       *)

Dropped(m) == [m EXCEPT !.reserve = None]

Enter(p) ==
  /\ pub[p].pc = "enter"
  /\ IF disabled
     THEN Ended(p, "refused") /\ UNCHANGED marker
     ELSE /\ pub' = [pub EXCEPT ![p].pc = "drop active",
                                ![p].inherited = marker.publication,
                                ![p].capacity = marker.capacity]
          /\ marker' = Dropped(marker) /\ UNCHANGED <<lock, lost>>
  /\ UNCHANGED <<disabled, store, rows, reader>>

DropActive(p) ==
  /\ pub[p].pc = "drop active" /\ Go(p, "announce")
  /\ marker' = [marker EXCEPT !.active = None]
  /\ UNCHANGED <<disabled, store, rows, lock, reader, lost>>

\* A publisher that inherits uncertainty is not exempt from it.
\* Mutant: every publisher declares itself active.
ExemptsAlways(p) == TRUE
Exempt(p) == pub[p].inherited = None

WriteActive(p) ==
  /\ pub[p].pc = "announce" /\ Go(p, "publish")
  /\ marker' = IF Exempt(p) THEN [marker EXCEPT !.active = [by |-> p, seq |-> pub[p].seq]]
               ELSE marker
  /\ UNCHANGED <<disabled, store, rows, lock, reader, lost>>

WritePublication(p) ==
  /\ pub[p].pc = "publish"
  /\ marker' = [marker EXCEPT !.publication = Highest({pub[p].seq, pub[p].inherited})]
  /\ pub' = [pub EXCEPT ![p].pc = "reserve", ![p].owes = TRUE]
  /\ UNCHANGED <<disabled, store, rows, lock, reader, lost>>

WriteReserve(p) ==
  /\ pub[p].pc = "reserve" /\ Go(p, "store")
  /\ marker' = [marker EXCEPT
       !.reserve = Highest({pub[p].seq, pub[p].capacity, pub[p].inherited})]
  /\ UNCHANGED <<disabled, store, rows, lock, reader, lost>>

\* The markers a publication that did not take place leaves no trace of.
Reservation(retain) ==
  <<"reserve">> \o (IF retain THEN <<>> ELSE <<"publication">>) \o <<"active">>

\* A marker cannot be written: before the reservation begins nothing is owed,
\* within it every marker of it is taken back as far as that is possible.
WriteFails(p) ==
  /\ Fails("marker")
  /\ \/ /\ pub[p].pc \in {"drop active", "announce"} /\ Ended(p, "unavailable")
     \/ /\ pub[p].pc \in {"publish", "reserve"}
        /\ pub' = [pub EXCEPT ![p].pc = "clean", ![p].ending = "unavailable",
                              ![p].todo = Reservation(pub[p].inherited # None),
                              ![p].owes = FALSE]
        /\ UNCHANGED <<lock, lost>>
  /\ UNCHANGED <<disabled, marker, store, rows, reader>>

----------------------------------------------------------------------------
(* The database.                                                            *)

\* Mutant: a full gate clears what it did not outnumber.
RecoversUnordered(p, seq) == seq # None /\ p \in FullGates
Recovers(p, seq) == seq # None /\ p \in FullGates /\ pub[p].seq > seq

\* What a committed full gate accounts for.
Settled(p) == IF p \in FullGates THEN {q \in Publishers : pub[q].seq < pub[p].seq} ELSE {}

Committed(p) ==
  LET capacity == Recovers(p, pub[p].capacity)
      publication == Recovers(p, pub[p].inherited)
  IN [pub[p] EXCEPT
       !.pc = "clean", !.ending = "committed", !.owes = FALSE,
       !.enabled = /\ pub[p].capacity = None \/ capacity
                   /\ pub[p].inherited = None \/ publication,
       !.todo = (IF capacity THEN <<"capacity">> ELSE <<>>)
                \o Reservation(pub[p].inherited # None /\ ~publication)]

Committing(p) ==
  /\ pub[p].pc = "store" /\ store # "previous"
  /\ store' = "current" /\ rows' = rows \union {[by |-> p, seq |-> pub[p].seq]}
  /\ pub' = [q \in Publishers |->
       IF q = p THEN Committed(p) ELSE [pub[q] EXCEPT !.owes = @ /\ q \notin Settled(p)]]
  /\ lost' = lost \ Settled(p)
  /\ UNCHANGED <<disabled, marker, lock, reader>>

\* Contention leaves the database as it was.
Contended(p) ==
  /\ Fails("contended") /\ pub[p].pc = "store"
  /\ pub' = [pub EXCEPT ![p].pc = "clean", ![p].ending = "unavailable", ![p].owes = FALSE,
                        ![p].todo = Reservation(pub[p].inherited # None)]
  /\ UNCHANGED <<disabled, marker, store, rows, lock, reader, lost>>

\* Corruption, or the store of the previous project: the uncertainty stays.
Unusable(p) ==
  /\ pub[p].pc = "store" /\ (Fails("corrupt") \/ store = "previous")
  /\ pub' = [pub EXCEPT ![p].pc = "clean", ![p].strict = TRUE,
                        ![p].ending = IF store = "previous" THEN "previous" ELSE "corrupt",
                        ![p].todo = <<"reserve", "active">>]
  /\ UNCHANGED <<disabled, marker, store, rows, lock, reader, lost>>

Exhausted(p) ==
  /\ Fails("full") /\ pub[p].pc = "store"
  /\ pub' = [pub EXCEPT ![p].pc = "claim", ![p].ending = "exceeded",
                        ![p].strict = TRUE]
  /\ UNCHANGED <<disabled, marker, store, rows, lock, reader, lost>>

\* The reserve becomes the capacity marker in one rename.
Claim(p) ==
  /\ pub[p].pc = "claim"
  /\ marker' = [marker EXCEPT !.capacity = marker.reserve, !.reserve = None]
  /\ pub' = [pub EXCEPT ![p].pc = "clean", ![p].todo = <<"active", "publication">>]
  /\ UNCHANGED <<disabled, store, rows, lock, reader, lost>>

ClaimFails(p) ==
  /\ Fails("marker") /\ pub[p].pc = "claim" /\ Go(p, "clean")
  /\ UNCHANGED <<disabled, marker, store, rows, lock, reader, lost>>

----------------------------------------------------------------------------
(* Cleaning up, one marker at a time, and the reply.                        *)

Remove(p) ==
  /\ pub[p].pc = "clean" /\ pub[p].todo # <<>>
  /\ marker' = [marker EXCEPT ![Head(pub[p].todo)] = None]
  /\ pub' = [pub EXCEPT ![p].todo = Tail(@)]
  /\ UNCHANGED <<disabled, store, rows, lock, reader, lost>>

\* Mutant: a marker that could not be removed is not reported.
StillEnabled(p) == pub[p].enabled
EnabledAfterFailure(p) == FALSE

RemoveFails(p) ==
  /\ Fails("marker") /\ pub[p].pc = "clean" /\ pub[p].todo # <<>>
  /\ pub' = [pub EXCEPT ![p].todo = IF pub[p].strict THEN <<>> ELSE Tail(@),
                        ![p].enabled = EnabledAfterFailure(p)]
  /\ UNCHANGED <<disabled, marker, store, rows, lock, reader, lost>>

\* The lock is given back; a first attempt at the previous project's store is
\* repeated, and corruption is written down for good.
Finish(p) ==
  /\ pub[p].pc = "clean" /\ pub[p].todo = <<>>
  /\ IF pub[p].ending = "previous" /\ pub[p].try = 1
     THEN /\ lock' = None /\ UNCHANGED lost
          /\ pub' = [pub EXCEPT ![p].pc = "set aside", ![p].try = 2, ![p].strict = FALSE]
     ELSE IF pub[p].ending \in {"corrupt", "previous"}
     THEN lock' = None /\ Go(p, "persist") /\ UNCHANGED lost
     ELSE Ended(p, pub[p].ending)
  /\ UNCHANGED <<disabled, marker, store, rows, reader>>

Persist(p) ==
  /\ pub[p].pc = "persist" /\ disabled' \in {TRUE, disabled} /\ Ended(p, "corrupt")
  /\ UNCHANGED <<marker, store, rows, reader>>

\* The process ends, in order or not; the kernel frees its lock.
Gone(p) ==
  /\ pub' = [pub EXCEPT ![p].pc = "gone", ![p].owes = FALSE]
  /\ lock' = IF lock = p THEN None ELSE lock
  /\ lost' = IF pub[p].owes THEN lost \union {p} ELSE lost
  /\ UNCHANGED <<disabled, marker, store, rows, reader>>

Exit(p) == pub[p].pc = "done" /\ Gone(p)
Crash(p) == Fails("crash") /\ pub[p].pc \notin {"run", "done", "gone"} /\ Gone(p)

----------------------------------------------------------------------------
(* A reader.                                                                *)

See(r, pc) == reader' = [reader EXCEPT ![r].pc = pc]
Mark(r, mark) == reader' = [reader EXCEPT ![r].pc = "open", ![r].mark = mark]
Reading == UNCHANGED <<disabled, marker, store, rows, lock, pub, lost>>

Begin(r) ==
  /\ reader[r].pc = "start" /\ Reading
  /\ reader' = [reader EXCEPT ![r].pc = IF disabled THEN "open" ELSE "capacity",
                              ![r].mark = IF disabled THEN "corrupt" ELSE None,
                              ![r].owed = lost]

ReadCapacity(r) ==
  /\ reader[r].pc = "capacity" /\ Reading
  /\ reader' = [reader EXCEPT ![r].pc = "publication", ![r].capacity = marker.capacity]

ReadPublication(r) ==
  /\ reader[r].pc = "publication" /\ Reading
  /\ reader' = [reader EXCEPT
       ![r].pc = CASE reader[r].capacity # None -> "open"
                   [] reader[r].capacity = None /\ marker.publication = None -> "capacity again"
                   [] OTHER -> "active",
       ![r].mark = IF reader[r].capacity # None THEN "exceeded" ELSE @,
       ![r].publication = marker.publication,
       ![r].seen = lost]

\* A claim that was promoted before the publication marker went.
\* Mutant: the capacity is not read again once the publication is gone.
NeverAgain == None
CapacityAgain == marker.capacity

RereadCapacity(r) ==
  /\ reader[r].pc = "capacity again" /\ Reading
  /\ Mark(r, IF CapacityAgain # None THEN "exceeded" ELSE None)

\* The owner of the very sequence is alive: a healthy publication.
ActiveFor(seq) ==
  marker.active # None /\ marker.active.seq = seq /\ Alive(marker.active.by)

ReadActive(r) ==
  /\ reader[r].pc = "active" /\ Reading
  /\ IF ActiveFor(reader[r].publication) THEN Mark(r, None) ELSE See(r, "capacity last")

ReadCapacityLast(r) ==
  /\ reader[r].pc = "capacity last" /\ Reading
  /\ IF marker.capacity # None THEN Mark(r, "exceeded") ELSE See(r, "publication again")

RereadPublication(r) ==
  /\ reader[r].pc = "publication again" /\ Reading
  /\ IF marker.publication = None /\ reader[r].try = 1
     THEN reader' = [reader EXCEPT ![r].pc = "capacity", ![r].try = 2]
     ELSE Mark(r, "uncertain")

\* The database itself: another project's store is set aside.
Answer(r, view) == reader' = [reader EXCEPT ![r].pc = "done", ![r].view = view]

Open(r) ==
  /\ reader[r].pc = "open" /\ Reading
  /\ CASE store = "previous" -> See(r, "set aside")
       [] OTHER -> Answer(r, IF reader[r].mark = None THEN "enabled" ELSE reader[r].mark)

ReaderSetsAside(r) ==
  /\ reader[r].pc = "set aside" /\ Moved /\ Answer(r, "no history")
  /\ UNCHANGED <<disabled, marker, lock, pub, lost>>

----------------------------------------------------------------------------
Publish(p) ==
  \/ Number(p) \/ FindPrevious(p) \/ SetAside(p) \/ Check(p) \/ Lock(p) \/ LockTimesOut(p)
  \/ Enter(p) \/ DropActive(p) \/ WriteActive(p) \/ WritePublication(p) \/ WriteReserve(p)
  \/ WriteFails(p) \/ Committing(p) \/ Contended(p) \/ Unusable(p) \/ Exhausted(p)
  \/ Claim(p) \/ ClaimFails(p) \/ Remove(p) \/ RemoveFails(p) \/ Finish(p) \/ Persist(p)
  \/ Exit(p) \/ Crash(p)

Read(r) ==
  \/ Begin(r) \/ ReadCapacity(r) \/ ReadPublication(r) \/ RereadCapacity(r) \/ ReadActive(r)
  \/ ReadCapacityLast(r) \/ RereadPublication(r) \/ Open(r) \/ ReaderSetsAside(r)

Next ==
  /\ (\E p \in Publishers : Publish(p)) \/ (\E r \in Readers : Read(r))
  /\ UNCHANGED setting
Spec == Init /\ [][Next]_vars

----------------------------------------------------------------------------
(* Properties.                                                              *)

\* The answer of r in this step lets a run be narrowed.
Narrows(r) == reader'[r].view = "enabled" /\ reader[r].view = "none"

\* A publisher that died, or whose failure was not harmless, after it announced
\* its publication is never forgotten: no reader that starts later is allowed
\* to narrow a run before a full gate with a later number has committed, where
\* markers can be written and removed and the store is never full
\* (history.py 615-713, 2631-2662).
LossHeeded ==
  setting.faults \intersect {"marker", "full"} = {} =>
    \A r \in Readers : Narrows(r) => reader[r].owed \intersect lost = {}
LossDisables == [][LossHeeded]_vars

\* A publication marker that is gone proves that nothing was lost until then:
\* the promotion of a capacity claim and the removals after it leave no moment
\* at which a reader finds neither (history.py 679-703).
GoneIsClean ==
  \A r \in Readers :
    Narrows(r) /\ reader[r].publication = None => reader[r].seen \intersect lost = {}
GoneMeansClean == [][GoneIsClean]_vars

\* A capacity claim only grows, and only the commit of a full gate numbered
\* after it removes it, in a store that is not set aside (history.py 2669-2691).
CapacityStays ==
  setting.start # "previous" /\ marker.capacity # None =>
    \/ marker'.capacity # None /\ marker'.capacity >= marker.capacity
    \/ \E row \in rows : row.by \in FullGates /\ row.seq > marker.capacity
CapacityOutlives == [][CapacityStays]_vars

\* A receipt that says the history can narrow runs is true when the publisher
\* lets go of the lock: no marker that disables it is left (history.py 2693-2729).
ReceiptTrue ==
  \A p \in Publishers :
    pub[p].pc # "done" /\ pub'[p].pc = "done" /\ pub'[p].enabled
      => marker'.publication = None /\ marker'.capacity = None
ReceiptIsTrue == [][ReceiptTrue]_vars

=============================================================================
