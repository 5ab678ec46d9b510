--------------------------- MODULE SchedulerProofs ---------------------------
(***************************************************************************)
(* Theorems about the slot scheduler, for every set of runs, every limit   *)
(* and every environment: the shape of its state, who may hold a grant     *)
(* beside whom, in which order the line is served, that the ledger         *)
(* implements Admission, that a row stays charged while anybody relies on  *)
(* it, and what a step may never do to a row.                              *)
(***************************************************************************)
EXTENDS Scheduler, TLAPS, FiniteSetTheorems, FunctionTheorems, WellFoundedInduction

Limits == [slots : Nat \ {0}, jobs : Nat \ {0}, memory : Nat]
Tables == [Runs -> Row]

-----------------------------------------------------------------------------
(***************************************************************************)
(* Every step on a row yields a row.                                       *)
(***************************************************************************)
LEMMA AbsentType == AbsentRow \in Row
  BY DEF AbsentRow, Row, States, Phases, Reasons

LEMMA CloseType ==
  ASSUME NEW row \in Row, NEW final \in TerminalStates, NEW why \in Reasons
  PROVE  Close(row, final, why) \in Row
  BY DEF Close, Row, States, TerminalStates, Phases

LEMMA UncertainType ==
  ASSUME NEW row \in Row, NEW why \in Reasons
  PROVE  Uncertain(row, why) \in Row
  BY DEF Uncertain, Row, States, ActiveStates

LEMMA ObserveType ==
  ASSUME NEW row \in Row, NEW r, NEW o
  PROVE  ObserveDescendants(row, r, o) \in Row
  BY DEF ObserveDescendants, Row

LEMMA ForeignViewType ==
  ASSUME NEW row \in Row, NEW r, NEW o
  PROVE  ForeignView(row, r, o) \in Row
  BY CloseType DEF ForeignView, TerminalStates, Reasons

LEMMA UnguardedViewType ==
  ASSUME NEW row \in Row, NEW o
  PROVE  UnguardedView(row, o) \in Row
  BY CloseType, UncertainType DEF UnguardedView, TerminalStates, Reasons

LEMMA GroupExistsViewType ==
  ASSUME NEW row \in Row, NEW o
  PROVE  GroupExistsView(row, o) \in Row
<1>1. [row EXCEPT !.state = "RUNNING", !.reason = "none"] \in Row
  BY DEF Row, States, ActiveStates, Reasons
<1> QED BY <1>1, UncertainType DEF GroupExistsView, Reasons

LEMMA GroupAbsentViewType ==
  ASSUME NEW row \in Row, NEW r, NEW o
  PROVE  GroupAbsentView(row, r, o) \in Row
  BY CloseType, UncertainType DEF GroupAbsentView, TerminalStates, Reasons

LEMMA GuardedViewType ==
  ASSUME NEW row \in Row, NEW r, NEW o
  PROVE  GuardedView(row, r, o) \in Row
<1>1. ObservationCause(row, r, o) \in {"escape", "transient", "clean"}
  BY DEF ObservationCause
<1>2. GroupSeen(r, o) \in {"unknown", "exists", "absent"}
  BY DEF GroupSeen
<1> QED
  BY <1>1, <1>2, UncertainType, GroupExistsViewType, GroupAbsentViewType
     DEF GuardedView, Reasons

LEMMA RecoveryViewType ==
  ASSUME NEW row \in Row, NEW r, NEW ns, NEW o
  PROVE  RecoveryView(row, r, ns, o) \in Row
<1>1. Close(row, "CANCELLED", "timeout") \in Row
  BY CloseType DEF TerminalStates, Reasons
<1> QED
  BY <1>1, ForeignViewType, UnguardedViewType, GuardedViewType, ObserveType
     DEF RecoveryView

-----------------------------------------------------------------------------
(***************************************************************************)
(* Recovery only removes claims.  Shrunk(t, u): whatever is active or      *)
(* queued in u was so in t, with the same ticket, and nobody queued in u   *)
(* has a registered guard.                                                 *)
(***************************************************************************)
Unregistered(t) == \A r \in Queued(t) : ~t[r].guarded

Shrunk(t, u) ==
  /\ Active(u) \subseteq Active(t)
  /\ Queued(u) \subseteq Queued(t)
  /\ \A r \in Live(u) : u[r].seq = t[r].seq
  /\ Unregistered(u)

\* What one pass may do to one row.
RowShrunk(row, view) ==
  /\ view \in Row
  /\ view.state \in ActiveStates => row.state \in ActiveStates
  /\ view.state = "QUEUED" => row.state = "QUEUED" /\ view.guarded = row.guarded
  /\ view.seq = row.seq

LEMMA RecoveryViewShrinks ==
  ASSUME NEW row \in Row, NEW r, NEW ns, NEW o,
         row.state \in ActiveStates \union {"QUEUED"},
         row.state = "QUEUED" => ~row.guarded
  PROVE  RowShrunk(row, RecoveryView(row, r, ns, o))
<1> DEFINE observed == ObserveDescendants(row, r, o)
<1>1. RecoveryView(row, r, ns, o) \in Row
  BY RecoveryViewType
<1>2. ASSUME NEW x \in Row, NEW final \in TerminalStates, NEW why, x.seq = row.seq
      PROVE  /\ Close(x, final, why).state \notin ActiveStates \union {"QUEUED"}
             /\ Close(x, final, why).seq = row.seq
  BY <1>2 DEF Close, Row, TerminalStates, ActiveStates
<1>3. ASSUME NEW x \in Row, NEW why, x.seq = row.seq
      PROVE  /\ Uncertain(x, why).state = "UNCERTAIN"
             /\ Uncertain(x, why).seq = row.seq
  BY <1>3 DEF Uncertain, Row
<1>4. /\ observed \in Row /\ observed.seq = row.seq
      /\ observed.state = row.state /\ observed.guarded = row.guarded
  <2>1. observed \in Row  BY ObserveType
  <2> QED BY <2>1 DEF ObserveDescendants, Row
<1>5. ForeignView(row, r, o) = row
      \/ /\ ForeignView(row, r, o).state \notin ActiveStates \union {"QUEUED"}
         /\ ForeignView(row, r, o).seq = row.seq
  BY <1>2 DEF ForeignView, TerminalStates
<1>6. UnguardedView(row, o) = row
      \/ /\ UnguardedView(row, o).state \notin ActiveStates \union {"QUEUED"}
         /\ UnguardedView(row, o).seq = row.seq
      \/ /\ UnguardedView(row, o).state = "UNCERTAIN" /\ row.state # "QUEUED"
         /\ UnguardedView(row, o).seq = row.seq
  BY <1>2, <1>3 DEF UnguardedView, TerminalStates
<1>7. ASSUME row.state \in ActiveStates
      PROVE  GuardedView(observed, r, o).seq = row.seq
             /\ GuardedView(observed, r, o).state # "QUEUED"
  <2>1. ObservationCause(observed, r, o) \in {"escape", "transient", "clean"}
    BY DEF ObservationCause
  <2>2. GroupSeen(r, o) \in {"unknown", "exists", "absent"}
    BY DEF GroupSeen
  <2>3. observed.state # "QUEUED"  BY <1>4, <1>7 DEF ActiveStates
  <2>4. /\ [observed EXCEPT !.state = "RUNNING", !.reason = "none"].seq = row.seq
        /\ [observed EXCEPT !.state = "RUNNING", !.reason = "none"].state = "RUNNING"
    BY <1>4 DEF Row
  <2>5. GroupExistsView(observed, o).seq = row.seq
        /\ GroupExistsView(observed, o).state # "QUEUED"
    BY <1>3, <1>4, <2>3, <2>4 DEF GroupExistsView
  <2>6. GroupAbsentView(observed, r, o).seq = row.seq
        /\ GroupAbsentView(observed, r, o).state # "QUEUED"
    BY <1>2, <1>3, <1>4, <2>3 DEF GroupAbsentView, TerminalStates
  <2> QED BY <1>3, <1>4, <2>1, <2>2, <2>5, <2>6 DEF GuardedView
<1>8. CASE row.state = "QUEUED" /\ r \in late
  BY <1>1, <1>2, <1>8 DEF RecoveryView, RowShrunk, TerminalStates
<1>9. CASE ~(row.state = "QUEUED" /\ r \in late) /\ Namespace[r] # ns
  BY <1>1, <1>5, <1>9 DEF RecoveryView, RowShrunk
<1>10. CASE /\ ~(row.state = "QUEUED" /\ r \in late) /\ Namespace[r] = ns
            /\ o.lease = "unknown" \/ ~row.guarded
  BY <1>1, <1>6, <1>10 DEF RecoveryView, RowShrunk, ActiveStates
<1>11. CASE /\ ~(row.state = "QUEUED" /\ r \in late) /\ Namespace[r] = ns
            /\ ~(o.lease = "unknown" \/ ~row.guarded)
  BY <1>1, <1>7, <1>11 DEF RecoveryView, RowShrunk, ActiveStates
<1> QED BY <1>8, <1>9, <1>10, <1>11

LEMMA RecoverBootShrinks ==
  ASSUME jobs \in Tables, Unregistered(jobs)
  PROVE  RecoverBoot(jobs) \in Tables /\ Shrunk(jobs, RecoverBoot(jobs))
<1>1. CASE ~stale
  BY <1>1 DEF RecoverBoot, Shrunk, Live
<1>2. CASE stale
  <2> DEFINE u == RecoverBoot(jobs)
  <2>1. ASSUME NEW r \in Runs
        PROVE  /\ u[r] \in Row
               /\ u[r].state \notin ActiveStates \union {"QUEUED"}
    <3>1. CASE r \in Live(jobs)
      BY <1>2, <3>1 DEF RecoverBoot, Tables, Row, States, ActiveStates, TerminalStates,
                        Phases, Reasons
    <3>2. CASE r \notin Live(jobs)
      BY <1>2, <3>2 DEF RecoverBoot, Tables, Row, Live, Active, Queued
    <3> QED BY <3>1, <3>2
  <2>2. u = [r \in Runs |-> u[r]]
    BY <1>2 DEF RecoverBoot
  <2>3. u \in Tables
    BY <2>1, <2>2 DEF Tables
  <2> QED BY <2>1, <2>3 DEF Shrunk, Live, Active, Queued, Unregistered, ActiveStates
<1> QED BY <1>1, <1>2

LEMMA ShrunkTransitive ==
  ASSUME NEW t, NEW u, NEW w, Shrunk(t, u), Shrunk(u, w)
  PROVE  Shrunk(t, w)
  BY DEF Shrunk, Live

LEMMA RecoveredShrinks ==
  ASSUME jobs \in Tables, Unregistered(jobs), NEW ns, NEW u \in Recovered(ns)
  PROVE  u \in Tables /\ Shrunk(jobs, u)
<1> DEFINE t == RecoverBoot(jobs)
<1>1. t \in Tables /\ Shrunk(jobs, t)
  BY RecoverBootShrinks
<1> HIDE DEF t
<1>2. DOMAIN u = Runs /\ u = [r \in Runs |-> u[r]] /\ \A r \in Runs : u[r] \in Views(t, r, ns)
  BY DEF Recovered, Reconciled, t
<1>3. ASSUME NEW r \in Runs
      PROVE  RowShrunk(t[r], u[r])
  <2>1. CASE r \in Live(t)
    <3>1. PICK o : u[r] = RecoveryView(t[r], r, ns, o)
      BY <1>2, <2>1 DEF Views
    <3>2. /\ t[r] \in Row /\ t[r].state \in ActiveStates \union {"QUEUED"}
          /\ t[r].state = "QUEUED" => ~t[r].guarded
      BY <1>1, <2>1 DEF Tables, Live, Active, Queued, Shrunk, Unregistered
    <3> QED BY <3>1, <3>2, RecoveryViewShrinks
  <2>2. CASE r \notin Live(t)
    BY <1>1, <1>2, <2>2 DEF Views, RowShrunk, Tables
  <2> QED BY <2>1, <2>2
<1>4. u \in Tables
  BY <1>2, <1>3 DEF Tables, RowShrunk
<1>5. Shrunk(t, u)
  BY <1>1, <1>3 DEF Shrunk, RowShrunk, Live, Active, Queued, Unregistered, ActiveStates
<1> QED BY <1>1, <1>4, <1>5, ShrunkTransitive

-----------------------------------------------------------------------------
(***************************************************************************)
(* Limits, charges and the rows admission writes.                          *)
(***************************************************************************)
LEMMA LimitsType ==
  ASSUME limits \in Limits, NEW t, NEW requested \in Configs
  PROVE  RefreshLimits(t, requested) \in Limits
<1>1. requested \in Limits
  BY LimitsAssumption DEF Limits
<1> QED BY <1>1 DEF RefreshLimits, Limits, Least, TightestBudget

LEMMA ProductType == \A i, j \in Nat : i * j \in Nat
  OBVIOUS

LEMMA ChargeType ==
  ASSUME NEW r \in Runs, NEW lim \in Limits
  PROVE  ActualSlots(r, lim) \in Nat /\ ReservedMemory(r, lim) \in Nat
<1>1. Want[r] \in Nat /\ PerWorker[r] \in Nat /\ lim.slots \in Nat /\ lim.memory \in Nat
  BY RequestAssumption DEF Limits
<1>2. ActualSlots(r, lim) \in Nat
  BY <1>1 DEF ActualSlots, Least
<1>3. PerWorker[r] * ActualSlots(r, lim) \in Nat
  BY <1>1, <1>2, ProductType
<1> QED BY <1>1, <1>2, <1>3 DEF ReservedMemory

LEMMA GrantRowsType ==
  ASSUME NEW t \in Tables, NEW lim \in Limits, NEW G
  PROVE  GrantRows(t, lim, G) \in Tables
<1>1. ASSUME NEW r \in Runs PROVE GrantRows(t, lim, G)[r] \in Row
  BY ChargeType DEF GrantRows, Tables, Row, States, ActiveStates, Phases
<1> QED BY <1>1 DEF GrantRows, Tables

LEMMA PruneType ==
  ASSUME NEW t \in Tables
  PROVE  PruneTerminal(t) \in Tables
<1>1. ASSUME NEW r \in Runs PROVE PruneTerminal(t)[r] \in Row
  BY AbsentType DEF PruneTerminal, Tables
<1> QED BY <1>1 DEF PruneTerminal, Tables

LEMMA NewRowType ==
  ASSUME NEW n \in Nat, NEW r \in Runs, NEW lim \in Limits
  PROVE  NewRow(n, r, lim) \in Row
  BY ChargeType, AbsentType DEF NewRow, Row, States, Phases

LEMMA NextSequenceType ==
  ASSUME NEW t \in Tables, NEW n \in NextSequence(t)
  PROVE  n \in Nat /\ \A r \in Runs : t[r].seq < n
  BY DEF NextSequence, Tables, Row

\* Pruning forgets terminal rows only.
LEMMA PruneKeepsLive ==
  ASSUME NEW t \in Tables
  PROVE  /\ Active(PruneTerminal(t)) = Active(t)
         /\ Queued(PruneTerminal(t)) = Queued(t)
         /\ \A r \in Live(t) : PruneTerminal(t)[r] = t[r]
  BY DEF PruneTerminal, Active, Queued, Live, Terminal, AbsentRow,
         ActiveStates, TerminalStates

-----------------------------------------------------------------------------
(***************************************************************************)
(* The line.  Orderly(t) is what admission relies on: tickets are unique,  *)
(* everybody active is older than everybody queued, and the active rows    *)
(* are pairwise compatible.  Unregistered is in it because a queued row    *)
(* with a guard could become UNCERTAIN, hence active, without admission.   *)
(***************************************************************************)
Orderly(t) ==
  /\ Unregistered(t)
  /\ \A r, s \in Live(t) : r # s => t[r].seq # t[s].seq
  /\ \A s \in Active(t), r \in Queued(t) : t[s].seq < t[r].seq
  /\ \A r, s \in Active(t) : r # s => ~Conflicting(r, s)

LEMMA ShrunkOrderly ==
  ASSUME NEW t, NEW u, Orderly(t), Shrunk(t, u)
  PROVE  Orderly(u)
  BY DEF Orderly, Shrunk, Live

LEMMA ConflictIsSymmetric ==
  \A r, s \in Runs : Conflicting(r, s) <=> Conflicting(s, r)
  BY DEF Conflicting

LEMMA CompatibleNeverConflicts ==
  \A r, s \in Runs : Compatible(r, s) => ~Conflicting(r, s)
  BY DEF Compatible, Conflicting

LEMMA GrantRowsStates ==
  ASSUME NEW t \in Tables, NEW lim, NEW G, G \subseteq Queued(t)
  PROVE  /\ Active(GrantRows(t, lim, G)) = Active(t) \union G
         /\ Queued(GrantRows(t, lim, G)) = Queued(t) \ G
         /\ \A r \in Runs : /\ GrantRows(t, lim, G)[r].seq = t[r].seq
                            /\ GrantRows(t, lim, G)[r].guarded = t[r].guarded
<1>1. ASSUME NEW r \in Runs
      PROVE  /\ r \in G => GrantRows(t, lim, G)[r].state = "GRANTED"
             /\ r \notin G => GrantRows(t, lim, G)[r] = t[r]
             /\ GrantRows(t, lim, G)[r].seq = t[r].seq
             /\ GrantRows(t, lim, G)[r].guarded = t[r].guarded
  BY DEF GrantRows, Tables, Row
<1> QED BY <1>1 DEF Active, Queued, ActiveStates

\* The strict FIFO scan keeps the line orderly.
LEMMA GrantsOrderly ==
  ASSUME NEW t \in Tables, Orderly(t), NEW lim, NEW G, GrantsExactly(t, lim, G)
  PROVE  Orderly(GrantRows(t, lim, G))
<1> DEFINE u == GrantRows(t, lim, G)
<1>1. G \subseteq Queued(t) /\ \A r \in G : Before(t, r) \subseteq G
  BY DEF GrantsExactly
<1>2. /\ Active(u) = Active(t) \union G
      /\ Queued(u) = Queued(t) \ G
      /\ \A r \in Runs : u[r].seq = t[r].seq /\ u[r].guarded = t[r].guarded
  BY <1>1, GrantRowsStates
<1> HIDE DEF u
<1>3. /\ Queued(t) \subseteq Runs /\ Active(t) \subseteq Runs /\ Live(t) = Active(t) \union Queued(t)
      /\ Live(u) = Active(u) \union Queued(u)
      /\ \A r \in Runs : t[r].seq \in Nat
  BY DEF Queued, Active, Live, Tables, Row
<1>4. ASSUME NEW r \in G, NEW s \in Active(t) \union Before(t, r)
      PROVE  ~Conflicting(r, s)
  <2>1. Before(t, r) \subseteq Queued(t)  BY DEF Before
  <2>2. s \in Active(GrantRows(t, lim, Before(t, r)))
    BY <2>1, GrantRowsStates
  <2>3. Fits(GrantRows(t, lim, Before(t, r)), r, lim)
    BY DEF GrantsExactly
  <2> QED BY <1>1, <1>3, <2>1, <2>2, <2>3, CompatibleNeverConflicts DEF Fits
<1>5. ASSUME NEW r \in G, NEW s \in G, r # s
      PROVE  ~Conflicting(r, s)
  <2>1. t[r].seq < t[s].seq \/ t[s].seq < t[r].seq
    BY <1>1, <1>3, <1>5 DEF Orderly
  <2>2. r \in Before(t, s) \/ s \in Before(t, r)
    BY <1>1, <2>1 DEF Before
  <2> QED BY <1>1, <1>3, <1>4, <2>2, ConflictIsSymmetric
<1>6. Unregistered(u)
  BY <1>2, <1>3 DEF Orderly, Unregistered
<1>7. \A r, s \in Live(u) : r # s => u[r].seq # u[s].seq
  BY <1>1, <1>2, <1>3 DEF Orderly
<1>8. ASSUME NEW s \in Active(u), NEW r \in Queued(u)
      PROVE  u[s].seq < u[r].seq
  <2>1. CASE s \in Active(t)
    BY <1>2, <1>3, <2>1 DEF Orderly
  <2>2. CASE s \in G
    <3>1. r # s /\ t[r].seq # t[s].seq
      BY <1>1, <1>2, <1>3, <2>2 DEF Orderly
    <3>2. r \notin Before(t, s)
      BY <1>1, <1>2, <2>2
    <3> QED BY <1>1, <1>2, <1>3, <2>2, <3>1, <3>2 DEF Before
  <2> QED BY <1>2, <2>1, <2>2
<1>9. ASSUME NEW r \in Active(u), NEW s \in Active(u), r # s
      PROVE  ~Conflicting(r, s)
  <2>1. CASE r \in Active(t) /\ s \in Active(t)
    BY <1>9, <2>1 DEF Orderly
  <2>2. CASE r \in G /\ s \in Active(t)
    BY <1>4, <2>2
  <2>3. CASE r \in Active(t) /\ s \in G
    BY <1>1, <1>3, <1>4, <2>3, ConflictIsSymmetric
  <2>4. CASE r \in G /\ s \in G
    BY <1>5, <1>9, <2>4
  <2> QED BY <1>2, <2>1, <2>2, <2>3, <2>4
<1> QED BY <1>6, <1>7, <1>8, <1>9 DEF Orderly, u

Joined(t, r, n, lim) == PruneTerminal([t EXCEPT ![r] = NewRow(n, r, lim)])

\* Whoever enqueues stands behind everybody.
LEMMA JoinOrderly ==
  ASSUME NEW t \in Tables, Orderly(t), NEW r \in Runs, r \notin Live(t),
         NEW lim \in Limits, NEW n \in NextSequence(t),
         NEW u, u = Joined(t, r, n, lim)
  PROVE  /\ u \in Tables
         /\ Orderly(u)
         /\ Active(u) = Active(t)
         /\ Queued(u) = Queued(t) \union {r}
         /\ \A s \in Live(t) : u[s].seq = t[s].seq /\ u[s].seq < u[r].seq
<1> DEFINE w == [t EXCEPT ![r] = NewRow(n, r, lim)]
<1>1. n \in Nat /\ \A s \in Runs : t[s].seq < n
  BY NextSequenceType
<1>2. NewRow(n, r, lim) \in Row
  BY <1>1, NewRowType
<1>3. /\ NewRow(n, r, lim).state = "QUEUED" /\ NewRow(n, r, lim).seq = n
      /\ NewRow(n, r, lim).guarded = FALSE
  BY DEF NewRow, AbsentRow
<1>4. /\ w \in Tables
      /\ w[r] = NewRow(n, r, lim)
      /\ \A s \in Runs \ {r} : w[s] = t[s]
  BY <1>2 DEF Tables
<1> HIDE DEF w
<1>5. Active(w) = Active(t) /\ Queued(w) = Queued(t) \union {r}
  BY <1>3, <1>4 DEF Active, Queued, Live, ActiveStates
<1>6. /\ u \in Tables
      /\ Active(u) = Active(w) /\ Queued(u) = Queued(w)
      /\ \A s \in Live(w) : u[s] = w[s]
  BY <1>4, PruneType, PruneKeepsLive DEF w, Joined
<1>7. /\ Live(u) = Live(t) \union {r} /\ Live(w) = Live(u) /\ Live(t) \subseteq Runs
      /\ Live(t) = Active(t) \union Queued(t)
  BY <1>5, <1>6 DEF Live, Active, Queued
<1>8. u[r].seq = n /\ ~u[r].guarded /\ \A s \in Live(t) : u[s] = t[s]
  BY <1>3, <1>4, <1>6, <1>7
<1>9. \A s \in Live(t) : u[s].seq = t[s].seq /\ u[s].seq < u[r].seq /\ u[s].seq \in Nat
  BY <1>1, <1>7, <1>8 DEF Tables, Row
<1>10. Unregistered(u)
  BY <1>5, <1>6, <1>7, <1>8 DEF Orderly, Unregistered
<1>11. ASSUME NEW s \in Live(u), NEW q \in Live(u), s # q
       PROVE  u[s].seq # u[q].seq
  <2>1. CASE s # r /\ q # r  BY <1>7, <1>8, <1>11, <2>1 DEF Orderly
  <2>2. CASE s = r \/ q = r
    <3>1. PICK x \in Live(t) : {s, q} = {x, r}
      BY <1>7, <1>11, <2>2
    <3>2. u[x].seq \in Nat /\ u[r].seq \in Nat /\ u[x].seq < u[r].seq
      BY <1>1, <1>8, <1>9
    <3>3. u[x].seq # u[r].seq
      BY <3>2
    <3> QED BY <3>1, <3>3
  <2> QED BY <2>1, <2>2
<1>12. ASSUME NEW s \in Active(u), NEW q \in Queued(u)
       PROVE  u[s].seq < u[q].seq
  <2>1. s \in Active(t) /\ s \in Live(t)  BY <1>5, <1>6, <1>7
  <2>2. CASE q = r  BY <1>9, <2>1, <2>2
  <2>3. CASE q \in Queued(t)
    <3>1. u[q] = t[q] /\ u[s] = t[s]  BY <1>7, <1>8, <2>1, <2>3
    <3> QED BY <2>1, <2>3, <3>1 DEF Orderly
  <2> QED BY <1>5, <1>6, <2>2, <2>3
<1>13. Orderly(u)
  BY <1>5, <1>6, <1>10, <1>11, <1>12 DEF Orderly
<1> QED BY <1>5, <1>6, <1>9, <1>13

-----------------------------------------------------------------------------
(***************************************************************************)
(* The inductive invariant.  Its last part says that a run which has not   *)
(* arrived has no row, so that Enqueue numbers a new row.                  *)
(***************************************************************************)
IdleIsAbsent == \A r \in Runs : client[r] = "idle" => r \notin Live(jobs)

Inv == TypeOK /\ Orderly(jobs) /\ IdleIsAbsent

LEMMA RowShrinks ==
  ASSUME NEW t \in Tables, Unregistered(t), NEW r \in Runs, NEW row, RowShrunk(t[r], row),
         NEW u, u = [t EXCEPT ![r] = row]
  PROVE  u \in Tables /\ Shrunk(t, u)
<1>1. u \in Tables
  BY DEF Tables, RowShrunk
<1>2. u[r] = row /\ \A s \in Runs \ {r} : u[s] = t[s]
  BY DEF Tables
<1> QED
  BY <1>1, <1>2 DEF Shrunk, RowShrunk, Live, Active, Queued, Unregistered

LEMMA ForgettingShrinks ==
  ASSUME NEW t \in Tables, Unregistered(t), NEW u, u = [r \in Runs |-> u[r]],
         \A r \in Runs : u[r] \in {t[r], AbsentRow}
  PROVE  u \in Tables /\ Shrunk(t, u)
<1>1. u \in Tables
  BY AbsentType DEF Tables
<1>2. AbsentRow.state \notin ActiveStates \union {"QUEUED"}
  BY DEF AbsentRow, ActiveStates
<1> QED
  BY <1>1, <1>2 DEF Shrunk, Live, Active, Queued, Unregistered

LEMMA SameTableShrinks ==
  ASSUME NEW t, Unregistered(t)
  PROVE  Shrunk(t, t)
  BY DEF Shrunk

LEMMA CancelPendingRowShrinks ==
  ASSUME jobs \in Tables, Unregistered(jobs), NEW r \in Runs
  PROVE  CancelPendingRow(r) \in Tables /\ Shrunk(jobs, CancelPendingRow(r))
<1> DEFINE row == [Close(jobs[r], "CANCELLED", jobs[r].reason) EXCEPT !.nonce = FALSE]
<1>1. RowShrunk(jobs[r], row)
  <2>1. jobs[r] \in Row /\ jobs[r].reason \in Reasons
    BY DEF Tables, Row
  <2>2. Close(jobs[r], "CANCELLED", jobs[r].reason) \in Row
    BY <2>1, CloseType DEF TerminalStates
  <2> QED BY <2>1, <2>2 DEF Close, RowShrunk, Row, ActiveStates
<1>2. CancelPendingRow(r) = jobs \/ CancelPendingRow(r) = [jobs EXCEPT ![r] = row]
  BY DEF CancelPendingRow
<1> HIDE DEF row
<1> QED BY <1>1, <1>2, RowShrinks, SameTableShrinks

-----------------------------------------------------------------------------
(***************************************************************************)
(* One lemma per action that touches the ledger without admitting anyone.  *)
(***************************************************************************)
LEMMA RegisterGuardStep ==
  ASSUME TypeOK, Unregistered(jobs), NEW r \in Runs, RegisterGuard(r)
  PROVE  TypeOK' /\ Shrunk(jobs, jobs')
<1> DEFINE registered(t) == [t[r] EXCEPT !.state = "RUNNING", !.phase = "setup",
                                         !.guarded = TRUE]
<1>1. PICK t \in Recovered(Namespace[r]) :
        jobs' = t \/ (t[r].state = "GRANTED" /\ jobs' = [t EXCEPT ![r] = registered(t)])
  BY DEF RegisterGuard
<1>2. t \in Tables /\ Shrunk(jobs, t) /\ Unregistered(t)
  BY RecoveredShrinks DEF TypeOK, Tables, Shrunk
<1>3. t[r].state = "GRANTED" => RowShrunk(t[r], registered(t))
  BY <1>2 DEF RowShrunk, Tables, Row, States, ActiveStates, Phases
<1>4. jobs' \in Tables /\ Shrunk(t, jobs')
  BY <1>1, <1>2, <1>3, RowShrinks, SameTableShrinks
<1>5. Shrunk(jobs, jobs')
  BY <1>2, <1>4, ShrunkTransitive
<1> QED BY <1>4, <1>5 DEF TypeOK, RegisterGuard, Tables

LEMMA SpawnStep ==
  ASSUME TypeOK, Unregistered(jobs), NEW r \in Runs, Spawn(r)
  PROVE  TypeOK' /\ Shrunk(jobs, jobs')
<1>1. RowShrunk(jobs[r], [jobs[r] EXCEPT !.seen = FALSE])
  <2>1. jobs[r] \in Row  BY DEF TypeOK
  <2> QED BY <2>1 DEF RowShrunk, Row
<1>2. jobs' = [jobs EXCEPT ![r] = [jobs[r] EXCEPT !.seen = FALSE]]
  BY DEF Spawn
<1>3. jobs' \in Tables /\ Shrunk(jobs, jobs')
  BY <1>1, <1>2, RowShrinks DEF TypeOK, Tables
<1> QED BY <1>3 DEF TypeOK, Spawn, Tables

LEMMA MarkDrainingStep ==
  ASSUME TypeOK, Unregistered(jobs), NEW r \in Runs, MarkDraining(r)
  PROVE  TypeOK' /\ Shrunk(jobs, jobs')
<1> DEFINE row == [jobs[r] EXCEPT !.state = "DRAINING", !.phase = "draining"]
<1>1. jobs' = jobs \/ (jobs[r].state = "RUNNING" /\ jobs' = [jobs EXCEPT ![r] = row])
  BY DEF MarkDraining
<1>2. jobs[r].state = "RUNNING" => RowShrunk(jobs[r], row)
  <2>1. jobs[r] \in Row  BY DEF TypeOK
  <2> QED BY <2>1 DEF RowShrunk, Row, States, ActiveStates, Phases
<1>3. jobs' \in Tables /\ Shrunk(jobs, jobs')
  BY <1>1, <1>2, RowShrinks, SameTableShrinks DEF TypeOK, Tables
<1> QED BY <1>3 DEF TypeOK, MarkDraining, Tables

LEMMA CancelPendingStep ==
  ASSUME TypeOK, Unregistered(jobs), NEW r \in Runs, CancelPending(r) \/ GuardLost(r)
  PROVE  TypeOK' /\ Shrunk(jobs, jobs')
<1>1. jobs' = jobs \/ jobs' = CancelPendingRow(r)
  BY DEF CancelPending, GuardLost
<1>2. jobs' \in Tables /\ Shrunk(jobs, jobs')
  BY <1>1, CancelPendingRowShrinks, SameTableShrinks DEF TypeOK, Tables
<1> QED BY <1>2 DEF TypeOK, CancelPending, GuardLost, Tables

\* What a finalizing owner may do to its own active row.
LEMMA FinalizerRowShrinks ==
  ASSUME NEW row \in Row, row.state \in ActiveStates, NEW r \in Runs, NEW o
  PROVE  /\ RowShrunk(row, Uncertain(row, "proof"))
         /\ RowShrunk(row, FinalizationFailure(ObserveDescendants(row, r, o), r, o))
         /\ RowShrunk(row, [ObserveDescendants(row, r, o) EXCEPT
                              !.state = "FINALIZING", !.phase = "finalization"])
         /\ RowShrunk(row, [Close(ObserveDescendants(row, r, o), "RELEASED", "none")
                              EXCEPT !.final = "committed"])
<1> DEFINE observed == ObserveDescendants(row, r, o)
<1>1. observed \in Row /\ observed.seq = row.seq
  <2>1. observed \in Row  BY ObserveType
  <2> QED BY <2>1 DEF ObserveDescendants, Row
<1> HIDE DEF observed
<1>2. ASSUME NEW x \in Row, x.seq = row.seq, NEW why \in Reasons
      PROVE  RowShrunk(row, Uncertain(x, why))
  BY <1>2, UncertainType DEF RowShrunk, Uncertain, Row
<1>3. RowShrunk(row, Uncertain(row, "proof"))
  BY <1>2 DEF Reasons
<1>4. RowShrunk(row, FinalizationFailure(observed, r, o))
  BY <1>1, <1>2 DEF FinalizationFailure, Reasons
<1>5. RowShrunk(row, [observed EXCEPT !.state = "FINALIZING", !.phase = "finalization"])
  BY <1>1 DEF RowShrunk, Row, States, ActiveStates, Phases
<1>6. RowShrunk(row, [Close(observed, "RELEASED", "none") EXCEPT !.final = "committed"])
  <2>1. Close(observed, "RELEASED", "none") \in Row
    BY <1>1, CloseType DEF TerminalStates, Reasons
  <2> QED BY <1>1, <2>1 DEF Close, RowShrunk, Row, ActiveStates
<1> QED BY <1>3, <1>4, <1>5, <1>6 DEF observed

LEMMA BeginFinalizationStep ==
  ASSUME TypeOK, Unregistered(jobs), NEW r \in Runs, BeginFinalization(r)
  PROVE  TypeOK' /\ Shrunk(jobs, jobs')
<1>1. jobs[r] \in Row /\ jobs[r].state \in ActiveStates
  BY DEF TypeOK, BeginFinalization, ActiveStates
<1>2. PICK o \in Sights(r) : \E row :
        /\ jobs' = [jobs EXCEPT ![r] = row]
        /\ \/ row = Uncertain(jobs[r], "proof")
           \/ row = FinalizationFailure(ObserveDescendants(jobs[r], r, o), r, o)
           \/ row = [ObserveDescendants(jobs[r], r, o) EXCEPT
                       !.state = "FINALIZING", !.phase = "finalization"]
  BY DEF BeginFinalization
<1>3. jobs' \in Tables /\ Shrunk(jobs, jobs')
  BY <1>1, <1>2, FinalizerRowShrinks, RowShrinks DEF TypeOK, Tables
<1> QED BY <1>3 DEF TypeOK, BeginFinalization, Tables

LEMMA PruneShrinks ==
  ASSUME NEW t \in Tables, Unregistered(t)
  PROVE  PruneTerminal(t) \in Tables /\ Shrunk(t, PruneTerminal(t))
<1>1. PruneTerminal(t) = [r \in Runs |-> PruneTerminal(t)[r]]
  BY DEF PruneTerminal
<1>2. \A r \in Runs : PruneTerminal(t)[r] \in {t[r], AbsentRow}
  BY DEF PruneTerminal
<1> QED BY <1>1, <1>2, ForgettingShrinks

LEMMA FinishStep ==
  ASSUME TypeOK, Unregistered(jobs), NEW r \in Runs, Finish(r)
  PROVE  TypeOK' /\ Shrunk(jobs, jobs')
<1>1. jobs[r] \in Row /\ jobs[r].state \in ActiveStates
  BY DEF TypeOK, Finish
<1>2. PICK o \in Sights(r) : \E row, u :
        /\ u = [jobs EXCEPT ![r] = row]
        /\ jobs' = u \/ jobs' = PruneTerminal(u)
        /\ \/ row = FinalizationFailure(ObserveDescendants(jobs[r], r, o), r, o)
           \/ row = [Close(ObserveDescendants(jobs[r], r, o), "RELEASED", "none")
                       EXCEPT !.final = "committed"]
  BY DEF Finish
<1>3. PICK u \in Tables : Shrunk(jobs, u) /\ (jobs' = u \/ jobs' = PruneTerminal(u))
  BY <1>1, <1>2, FinalizerRowShrinks, RowShrinks DEF TypeOK, Tables
<1>4. Unregistered(u) /\ Shrunk(u, u)
  BY <1>3 DEF Shrunk
<1>5. jobs' \in Tables /\ Shrunk(u, jobs')
  BY <1>3, <1>4, PruneShrinks
<1>6. Shrunk(jobs, jobs')
  BY <1>3, <1>5, ShrunkTransitive
<1> QED BY <1>5, <1>6 DEF TypeOK, Finish, Tables

LEMMA ReleaseRunStep ==
  ASSUME TypeOK, Unregistered(jobs), NEW r \in Runs, NEW ns, NEW force, ReleaseRun(r, ns, force)
  PROVE  TypeOK' /\ Shrunk(jobs, jobs')
<1> DEFINE released(row) ==
      [Close(row, IF row.guarded THEN "RELEASED" ELSE "CANCELLED", "operator")
         EXCEPT !.nonce = FALSE, !.seen = FALSE, !.doubt = FALSE, !.final = "incomplete"]
<1>1. PICK t \in Recovered(ns) :
        jobs' = t \/ jobs' = [t EXCEPT ![r] = released(t[r])]
  BY DEF ReleaseRun
<1>2. t \in Tables /\ Shrunk(jobs, t) /\ Unregistered(t)
  BY RecoveredShrinks DEF TypeOK, Tables, Shrunk
<1>3. RowShrunk(t[r], released(t[r]))
  <2> DEFINE row == Close(t[r], IF t[r].guarded THEN "RELEASED" ELSE "CANCELLED", "operator")
  <2>1. t[r] \in Row  BY <1>2 DEF Tables
  <2>2. row \in Row  BY <2>1, CloseType DEF TerminalStates, Reasons
  <2>3. row.seq = t[r].seq /\ row.state \notin ActiveStates \union {"QUEUED"}
    BY <2>1 DEF Close, Row, ActiveStates
  <2> HIDE DEF row
  <2>4. RowShrunk(t[r], [row EXCEPT !.nonce = FALSE, !.seen = FALSE, !.doubt = FALSE,
                                    !.final = "incomplete"])
    BY <2>2, <2>3 DEF RowShrunk, Row
  <2> QED BY <2>4 DEF row
<1> HIDE DEF released
<1>4. jobs' \in Tables /\ Shrunk(t, jobs')
  BY <1>1, <1>2, <1>3, RowShrinks, SameTableShrinks
<1>5. Shrunk(jobs, jobs')
  BY <1>2, <1>4, ShrunkTransitive
<1> QED BY <1>4, <1>5 DEF TypeOK, ReleaseRun, Tables

LEMMA ForgetCheckoutStep ==
  ASSUME TypeOK, Unregistered(jobs), NEW c, NEW ns, ForgetCheckout(c, ns)
  PROVE  TypeOK' /\ Shrunk(jobs, jobs')
<1>1. PICK t \in Recovered(ns) :
        jobs' = [r \in Runs |-> IF Checkout[r] = c THEN AbsentRow ELSE t[r]]
  BY DEF ForgetCheckout
<1>2. t \in Tables /\ Shrunk(jobs, t) /\ Unregistered(t)
  BY RecoveredShrinks DEF TypeOK, Tables, Shrunk
<1>3. jobs' \in Tables /\ Shrunk(t, jobs')
  BY <1>1, <1>2, ForgettingShrinks
<1>4. Shrunk(jobs, jobs')
  BY <1>2, <1>3, ShrunkTransitive
<1> QED BY <1>3, <1>4 DEF TypeOK, ForgetCheckout, Tables

\* Everything else leaves the ledger alone.
LEMMA OtherStep ==
  ASSUME TypeOK, Unregistered(jobs), NEW r \in Runs,
         \/ EnqueueRefused(r) \/ PollLost(r) \/ Abandon(r) \/ LaunchGuard(r)
         \/ FinalizationRefused(r) \/ OwnerExit(r)
         \/ ClearToSpawn(r) \/ GuardExit(r) \/ GuardDies(r)
         \/ Environment(r)
  PROVE  TypeOK' /\ Shrunk(jobs, jobs')
<1>0. Shrunk(jobs, jobs)
  BY SameTableShrinks
<1>1. CASE EnqueueRefused(r) \/ PollLost(r) \/ Abandon(r)
  BY <1>0, <1>1 DEF TypeOK, EnqueueRefused, PollLost, Abandon
<1>2. CASE FinalizationRefused(r) \/ OwnerExit(r) \/ LaunchGuard(r)
  BY <1>0, <1>2 DEF TypeOK, FinalizationRefused, OwnerExit, LaunchGuard
<1>3. CASE ClearToSpawn(r) \/ GuardDies(r)
  BY <1>0, <1>3 DEF TypeOK, ClearToSpawn, GuardDies
<1>4. CASE GuardExit(r)
  BY <1>0, <1>4 DEF TypeOK, GuardExit
<1>5. CASE Environment(r)
  BY <1>0, <1>5 DEF TypeOK, Environment, KidExits, KidEscapes, OwnerCrashes, TimePasses
<1> QED BY <1>1, <1>2, <1>3, <1>4, <1>5

LEMMA RebootStep ==
  ASSUME TypeOK, Unregistered(jobs), Reboot
  PROVE  TypeOK' /\ Shrunk(jobs, jobs')
  BY SameTableShrinks DEF TypeOK, Reboot

-----------------------------------------------------------------------------
(***************************************************************************)
(* The two actions that let somebody in.                                   *)
(***************************************************************************)
LEMMA PollStep ==
  ASSUME TypeOK, Orderly(jobs), NEW r \in Runs, Poll(r)
  PROVE  /\ TypeOK'
         /\ \E t \in Tables, lim \in Limits : \E G \in SUBSET Queued(t) :
              /\ Shrunk(jobs, t)
              /\ GrantsExactly(t, lim, G)
              /\ jobs' = GrantRows(t, lim, G) /\ limits' = lim
<1>1. PICK t \in Recovered(Namespace[r]), requested \in Configs :
        LET lim == RefreshLimits(t, requested) IN
        \E G \in SUBSET Queued(t) : /\ GrantsExactly(t, lim, G)
                                    /\ jobs' = GrantRows(t, lim, G)
                                    /\ limits' = lim
                                    /\ late' = late \ G
  BY DEF Poll
<1> DEFINE lim == RefreshLimits(t, requested)
<1>2. lim \in Limits
  BY LimitsType DEF TypeOK, Limits
<1> HIDE DEF lim
<1>3. PICK G \in SUBSET Queued(t) : /\ GrantsExactly(t, lim, G)
                                    /\ jobs' = GrantRows(t, lim, G)
                                    /\ limits' = lim
                                    /\ late' = late \ G
  BY <1>1 DEF lim
<1>4. t \in Tables /\ Shrunk(jobs, t)
  BY RecoveredShrinks DEF TypeOK, Tables, Orderly
<1>5. jobs' \in Tables
  BY <1>2, <1>3, <1>4, GrantRowsType
<1>6. AfterPoll(jobs'[r].state) \in {"granted", "waiting", "done"}
  BY DEF AfterPoll
<1>7. TypeOK'
  BY <1>2, <1>3, <1>5, <1>6 DEF TypeOK, Poll, Tables, Limits
<1> QED BY <1>2, <1>3, <1>4, <1>7

LEMMA EnqueueStep ==
  ASSUME Inv, NEW r \in Runs, Enqueue(r)
  PROVE  /\ TypeOK'
         /\ \E t \in Tables :
              /\ Shrunk(jobs, t)
              /\ r \notin Live(jobs) /\ r \notin Live(t) /\ client'[r] # "idle"
              /\ Orderly(jobs')
              /\ Active(jobs') = Active(t)
              /\ Queued(jobs') = Queued(t) \union {r}
              /\ \A s \in Live(t) : jobs'[s].seq = t[s].seq /\ jobs'[s].seq < jobs'[r].seq
<1>1. PICK t \in Recovered(Namespace[r]), requested \in Configs :
        LET lim == RefreshLimits(t, requested) IN
        /\ \E n \in NextSequence(t) : jobs' = PruneTerminal([t EXCEPT ![r] = NewRow(n, r, lim)])
        /\ limits' = lim
  BY DEF Enqueue
<1> DEFINE lim == RefreshLimits(t, requested)
<1>2. lim \in Limits /\ limits' = lim
  BY <1>1, LimitsType DEF Inv, TypeOK, Limits
<1> HIDE DEF lim
<1>3. PICK n \in NextSequence(t) : jobs' = Joined(t, r, n, lim)
  BY <1>1 DEF lim, Joined
<1>4. t \in Tables /\ Shrunk(jobs, t)
  BY RecoveredShrinks DEF Inv, TypeOK, Tables, Orderly
<1>5. r \notin Live(jobs) /\ r \notin Live(t)
  BY <1>4 DEF Inv, IdleIsAbsent, Enqueue, Arrives, Shrunk, Live
<1>6. Orderly(t)
  BY <1>4, ShrunkOrderly DEF Inv
<1>7. /\ jobs' \in Tables
      /\ Orderly(jobs')
      /\ Active(jobs') = Active(t)
      /\ Queued(jobs') = Queued(t) \union {r}
      /\ \A s \in Live(t) : jobs'[s].seq = t[s].seq /\ jobs'[s].seq < jobs'[r].seq
  <2>1. PICK u : u = Joined(t, r, n, lim)
    OBVIOUS
  <2>2. /\ u \in Tables
        /\ Orderly(u)
        /\ Active(u) = Active(t)
        /\ Queued(u) = Queued(t) \union {r}
        /\ \A s \in Live(t) : u[s].seq = t[s].seq /\ u[s].seq < u[r].seq
    BY <1>2, <1>4, <1>5, <1>6, <2>1, JoinOrderly
  <2> QED BY <1>3, <2>1, <2>2
<1>8. TypeOK'
  BY <1>2, <1>7 DEF Inv, TypeOK, Enqueue, Tables, Limits
<1>9. client'[r] # "idle"
  BY DEF Inv, TypeOK, Enqueue
<1> QED BY <1>4, <1>5, <1>7, <1>8, <1>9

-----------------------------------------------------------------------------
(***************************************************************************)
(* Every step either removes claims, or grants a prefix of what recovery   *)
(* left of the line, or appends one run to it.                             *)
(***************************************************************************)
Removes == Shrunk(jobs, jobs')

Grants == \E t \in Tables, lim \in Limits : \E G \in SUBSET Queued(t) :
            /\ Shrunk(jobs, t)
            /\ GrantsExactly(t, lim, G)
            /\ jobs' = GrantRows(t, lim, G) /\ limits' = lim

Appends == \E r \in Runs, t \in Tables :
             /\ Enqueue(r)
             /\ Shrunk(jobs, t)
             /\ r \notin Live(jobs) /\ r \notin Live(t) /\ client'[r] # "idle"
             /\ Orderly(jobs')
             /\ Active(jobs') = Active(t)
             /\ Queued(jobs') = Queued(t) \union {r}
             /\ \A s \in Live(t) : jobs'[s].seq = t[s].seq /\ jobs'[s].seq < jobs'[r].seq

LEMMA EveryStep ==
  ASSUME Inv, [Next]_vars
  PROVE  TypeOK' /\ (Removes \/ Grants \/ Appends)
<1>0. TypeOK /\ Orderly(jobs) /\ Unregistered(jobs)
  BY DEF Inv, Orderly
<1>1. ASSUME NEW r \in Runs, Owner(r)
      PROVE  TypeOK' /\ (Removes \/ Grants \/ Appends)
  <2>1. CASE Enqueue(r)
    BY <2>1, EnqueueStep DEF Appends
  <2>2. CASE Poll(r)
    BY <1>0, <2>2, PollStep DEF Grants
  <2>3. CASE CancelPending(r) \/ GuardLost(r)
    BY <1>0, <2>3, CancelPendingStep DEF Removes
  <2>4. CASE BeginFinalization(r)
    BY <1>0, <2>4, BeginFinalizationStep DEF Removes
  <2>5. CASE Finish(r)
    BY <1>0, <2>5, FinishStep DEF Removes
  <2>6. CASE \/ EnqueueRefused(r) \/ PollLost(r) \/ Abandon(r) \/ LaunchGuard(r)
             \/ FinalizationRefused(r) \/ OwnerExit(r)
    BY <1>0, <2>6, OtherStep DEF Removes
  <2> QED BY <1>1, <2>1, <2>2, <2>3, <2>4, <2>5, <2>6 DEF Owner
<1>2. ASSUME NEW r \in Runs, Guard(r)
      PROVE  TypeOK' /\ Removes
  <2>1. CASE RegisterGuard(r)
    BY <1>0, <2>1, RegisterGuardStep DEF Removes
  <2>2. CASE Spawn(r)
    BY <1>0, <2>2, SpawnStep DEF Removes
  <2>3. CASE MarkDraining(r)
    BY <1>0, <2>3, MarkDrainingStep DEF Removes
  <2>4. CASE ClearToSpawn(r) \/ GuardExit(r) \/ GuardDies(r)
    BY <1>0, <2>4, OtherStep DEF Removes
  <2> QED BY <1>2, <2>1, <2>2, <2>3, <2>4 DEF Guard
<1>3. ASSUME NEW r \in Runs, Environment(r)
      PROVE  TypeOK' /\ Removes
  BY <1>0, <1>3, OtherStep DEF Removes
<1>4. ASSUME Operator
      PROVE  TypeOK' /\ Removes
  <2>1. ASSUME NEW r \in Runs, NEW ns, NEW force, ReleaseRun(r, ns, force)
        PROVE  TypeOK' /\ Removes
    BY <1>0, <2>1, ReleaseRunStep DEF Removes
  <2>2. ASSUME NEW c, NEW ns, ForgetCheckout(c, ns)
        PROVE  TypeOK' /\ Removes
    BY <1>0, <2>2, ForgetCheckoutStep DEF Removes
  <2> QED BY <1>4, <2>1, <2>2 DEF Operator
<1>5. CASE Reboot
  BY <1>0, <1>5, RebootStep DEF Removes
<1>6. CASE UNCHANGED vars
  BY <1>0, <1>6, SameTableShrinks DEF Removes, vars, TypeOK
<1> QED BY <1>1, <1>2, <1>3, <1>4, <1>5, <1>6 DEF Next

LEMMA NobodyBecomesIdle ==
  ASSUME TypeOK, [Next]_vars, NEW q \in Runs, client'[q] = "idle"
  PROVE  client[q] = "idle"
<1>1. ASSUME NEW r \in Runs, Owner(r)
      PROVE  client[q] = "idle"
  <2>1. CASE Poll(r)
    <3>1. AfterPoll(jobs'[r].state) # "idle"
      BY DEF AfterPoll
    <3> QED BY <2>1, <3>1 DEF Poll, TypeOK
  <2>2. CASE BeginFinalization(r)
    BY <2>2 DEF BeginFinalization, TypeOK
  <2>3. CASE Enqueue(r) \/ EnqueueRefused(r) \/ PollLost(r) \/ CancelPending(r)
    BY <2>3 DEF Enqueue, EnqueueRefused, PollLost, CancelPending, TypeOK
  <2>4. CASE Abandon(r) \/ LaunchGuard(r) \/ GuardLost(r)
    BY <2>4 DEF Abandon, LaunchGuard, GuardLost, TypeOK
  <2>5. CASE Finish(r) \/ FinalizationRefused(r) \/ OwnerExit(r)
    BY <2>5 DEF Finish, FinalizationRefused, OwnerExit, TypeOK
  <2> QED BY <1>1, <2>1, <2>2, <2>3, <2>4, <2>5 DEF Owner
<1>2. ASSUME NEW r \in Runs, Guard(r)
      PROVE  client[q] = "idle"
  BY <1>2 DEF Guard, RegisterGuard, ClearToSpawn, Spawn, MarkDraining, GuardExit, GuardDies,
              TypeOK
<1>3. ASSUME NEW r \in Runs, Environment(r)
      PROVE  client[q] = "idle"
  BY <1>3 DEF Environment, KidExits, KidEscapes, OwnerCrashes, TimePasses, TypeOK
<1>4. CASE Operator
  BY <1>4 DEF Operator, ReleaseRun, ForgetCheckout
<1>5. CASE Reboot
  BY <1>5 DEF Reboot, TypeOK
<1>6. CASE UNCHANGED vars
  BY <1>6 DEF vars
<1> QED BY <1>1, <1>2, <1>3, <1>4, <1>5, <1>6 DEF Next

LEMMA InvInit == Init => Inv
<1> SUFFICES ASSUME Init PROVE Inv
  OBVIOUS
<1>1. AbsentRow.state = "absent"
  BY DEF AbsentRow
<1>2. Active(jobs) = {} /\ Queued(jobs) = {} /\ Live(jobs) = {}
  BY <1>1 DEF Init, Active, Queued, Live, ActiveStates
<1>3. TypeOK
  BY AbsentType, LimitsAssumption DEF Init, TypeOK
<1> QED BY <1>2, <1>3 DEF Inv, Orderly, Unregistered, IdleIsAbsent

LEMMA InvStep == Inv /\ [Next]_vars => Inv'
<1> SUFFICES ASSUME Inv, [Next]_vars PROVE Inv'
  OBVIOUS
<1>1. TypeOK /\ Orderly(jobs) /\ IdleIsAbsent
  BY DEF Inv
<1>2. TypeOK' /\ (Removes \/ Grants \/ Appends)
  BY EveryStep
<1>3. \A q \in Runs : client'[q] = "idle" => client[q] = "idle"
  BY <1>1, NobodyBecomesIdle
<1>4. CASE Removes
  <2>1. Orderly(jobs')
    BY <1>1, <1>4, ShrunkOrderly DEF Removes
  <2>2. IdleIsAbsent'
    BY <1>1, <1>3, <1>4 DEF Removes, Shrunk, Live, IdleIsAbsent
  <2> QED BY <1>2, <2>1, <2>2 DEF Inv, Orderly
<1>5. CASE Grants
  <2>1. PICK t \in Tables, lim \in Limits : \E G \in SUBSET Queued(t) :
          Shrunk(jobs, t) /\ GrantsExactly(t, lim, G) /\ jobs' = GrantRows(t, lim, G)
    BY <1>5 DEF Grants
  <2>2. PICK G \in SUBSET Queued(t) :
          Shrunk(jobs, t) /\ GrantsExactly(t, lim, G) /\ jobs' = GrantRows(t, lim, G)
    BY <2>1
  <2>3. Orderly(jobs')
    BY <1>1, <2>2, ShrunkOrderly, GrantsOrderly
  <2>4. Live(jobs') \subseteq Live(t)
    BY <2>2, GrantRowsStates DEF Live
  <2>5. IdleIsAbsent'
    BY <1>1, <1>3, <2>2, <2>4 DEF Shrunk, Live, IdleIsAbsent
  <2> QED BY <1>2, <2>3, <2>5 DEF Inv, Orderly
<1>6. CASE Appends
  <2>1. PICK r \in Runs, t \in Tables :
          /\ Shrunk(jobs, t) /\ client'[r] # "idle"
          /\ Orderly(jobs')
          /\ Active(jobs') = Active(t)
          /\ Queued(jobs') = Queued(t) \union {r}
    BY <1>6 DEF Appends
  <2>2. IdleIsAbsent'
    BY <1>1, <1>3, <2>1 DEF Shrunk, Live, IdleIsAbsent
  <2> QED BY <1>2, <2>1, <2>2 DEF Inv, Orderly
<1> QED BY <1>2, <1>4, <1>5, <1>6

-----------------------------------------------------------------------------
(***************************************************************************)
(* The theorems.                                                           *)
(***************************************************************************)
LEMMA Invariance == Spec => []Inv
  BY InvInit, InvStep, PTL DEF Spec

\* Every variable keeps its type, whatever the environment does to the owners,
\* the guards and what is read of them.  (the CHECK constraints of the schema)
THEOREM Typing == Spec => []TypeOK
<1>1. Inv => TypeOK
  BY DEF Inv
<1> QED BY <1>1, Invariance, PTL

\* Rows that hold capacity together are of different checkouts, claim no
\* common resource, and none of them is exclusive.  (_resources_available)
THEOREM GrantsAreIsolated == Spec => []Isolation
<1>1. Inv => Isolation
  BY DEF Inv, Orderly, Isolation
<1> QED BY <1>1, Invariance, PTL

\* No run holds capacity that enqueued after a run still waiting for it.
\* (_grant_queued_locked: polling never bypasses the head)
THEOREM LineIsFair == Spec => []FirstComeFirstServed
<1>1. Inv => FirstComeFirstServed
  BY DEF Inv, Orderly, FirstComeFirstServed
<1> QED BY <1>1, Invariance, PTL

-----------------------------------------------------------------------------
(***************************************************************************)
(* Refinement: the ledger implements Admission.                            *)
(***************************************************************************)
LEMMA InitRefines == Init => Promise!AInit
<1>1. AbsentRow.state = "absent" /\ AbsentRow.seq = 0
  BY DEF AbsentRow
<1> QED BY <1>1 DEF Init, Promise!AInit, Active, Queued, ActiveStates

LEMMA ActiveNeverQueued ==
  ASSUME NEW t
  PROVE  /\ Active(t) \intersect Queued(t) = {}
         /\ Live(t) = Active(t) \union Queued(t)
         /\ Live(t) \subseteq Runs
  BY DEF Active, Queued, Live, ActiveStates

LEMMA RemovalServes ==
  ASSUME Removes
  PROVE  Promise!Serve
<1>1. /\ Queued(jobs') \subseteq Queued(jobs) /\ Active(jobs') \subseteq Active(jobs)
      /\ \A r \in Live(jobs') : jobs'[r].seq = jobs[r].seq
  BY DEF Removes, Shrunk
<1> QED BY <1>1, ActiveNeverQueued DEF Promise!Serve, Promise!TicketsKept

LEMMA GrantServes ==
  ASSUME Inv, Grants, Orderly(jobs')
  PROVE  Promise!Serve
<1>1. PICK t \in Tables, lim \in Limits : \E G \in SUBSET Queued(t) :
        Shrunk(jobs, t) /\ GrantsExactly(t, lim, G) /\ jobs' = GrantRows(t, lim, G)
  BY DEF Grants
<1>2. PICK G \in SUBSET Queued(t) :
        Shrunk(jobs, t) /\ GrantsExactly(t, lim, G) /\ jobs' = GrantRows(t, lim, G)
  BY <1>1
<1>3. /\ Active(jobs') = Active(t) \union G
      /\ Queued(jobs') = Queued(t) \ G
      /\ \A r \in Runs : jobs'[r].seq = t[r].seq
  BY <1>2, GrantRowsStates
<1>4. /\ Active(t) \subseteq Active(jobs) /\ Queued(t) \subseteq Queued(jobs)
      /\ \A r \in Live(t) : t[r].seq = jobs[r].seq
  BY <1>2 DEF Shrunk
<1>5. \A r \in Live(jobs') : jobs'[r].seq = jobs[r].seq
  BY <1>3, <1>4, ActiveNeverQueued
<1>6. \A g \in Active(jobs'), w \in Queued(jobs') : jobs[g].seq < jobs[w].seq
  BY <1>5, ActiveNeverQueued DEF Orderly
<1>7. \A g, h \in Active(jobs') : g # h => ~Conflicting(g, h)
  BY DEF Orderly
<1>8. /\ Active(jobs) \subseteq Runs /\ Queued(jobs) \subseteq Runs
      /\ Active(jobs') \subseteq Runs /\ Queued(jobs') \subseteq Runs
      /\ Live(jobs') = Active(jobs') \union Queued(jobs')
      /\ Queued(jobs') \intersect Active(jobs') = {}
  BY ActiveNeverQueued
<1> QED
  BY <1>3, <1>4, <1>5, <1>6, <1>7, <1>8 DEF Promise!Serve, Promise!TicketsKept

LEMMA AppendJoins ==
  ASSUME Appends
  PROVE  \E r \in Runs : Promise!Join(r)
<1>1. PICK r \in Runs, t \in Tables :
        /\ Shrunk(jobs, t)
        /\ r \notin Live(jobs) /\ r \notin Live(t)
        /\ Active(jobs') = Active(t)
        /\ Queued(jobs') = Queued(t) \union {r}
        /\ \A s \in Live(t) : jobs'[s].seq = t[s].seq /\ jobs'[s].seq < jobs'[r].seq
  BY DEF Appends
<1>2. /\ Active(t) \subseteq Active(jobs) /\ Queued(t) \subseteq Queued(jobs)
      /\ \A s \in Live(t) : t[s].seq = jobs[s].seq
  BY <1>1 DEF Shrunk
<1>3. /\ Live(t) = Active(t) \union Queued(t) /\ Live(t) \subseteq Runs
      /\ Live(jobs) = Active(jobs) \union Queued(jobs)
  BY ActiveNeverQueued
<1>4. Promise!Join(r)
  BY <1>1, <1>2, <1>3 DEF Promise!Join, Promise!TicketsKept
<1> QED BY <1>4

LEMMA StepRefines == Inv /\ Inv' /\ [Next]_vars => [Promise!ANext]_(Promise!avars)
<1> SUFFICES ASSUME Inv, Inv', [Next]_vars
             PROVE  Promise!ANext
  OBVIOUS
<1>1. Removes \/ Grants \/ Appends
  BY EveryStep
<1>2. Orderly(jobs')
  BY DEF Inv, Orderly
<1> QED BY <1>1, <1>2, RemovalServes, GrantServes, AppendJoins DEF Promise!ANext

\* Under every crash, death, misreading and operator command the ledger only
\* does what Admission allows: it admits from the head of the line, beside
\* nobody in conflict, and otherwise only lets runs leave.
THEOREM LedgerImplementsAdmission == Spec => ImplementsAdmission
  BY InitRefines, StepRefines, Invariance, PTL DEF Spec, ImplementsAdmission, Promise!ASpec

-----------------------------------------------------------------------------
(***************************************************************************)
(* Numbers: the least of a set, induction, and what a sum becomes when one *)
(* more run is counted.                                                    *)
(***************************************************************************)
LEMMA LeastNat ==
  ASSUME NEW S \in SUBSET Nat, S # {}
  PROVE  \E n \in S : \A m \in S : n <= m
<1> DEFINE Less == OpToRel(<, Nat)
<1>1. IsWellFoundedOn(Less, Nat)
  BY NatLessThanWellFounded
<1>2. \A x, y \in Nat : <<y, x>> \in Less <=> y < x
  BY DEF OpToRel
<1> HIDE DEF Less
<1>3. PICK n \in S : \A y \in S : ~(<<y, n>> \in Less)
  BY <1>1, WFMin
<1>4. ASSUME NEW m \in S PROVE n <= m
  <2>1. m \in Nat /\ n \in Nat
    OBVIOUS
  <2>2. ~(m < n)
    BY <1>2, <1>3, <2>1
  <2> QED BY <2>1, <2>2
<1> QED BY <1>4

LEMMA Induct ==
  ASSUME NEW S \in SUBSET Nat, 0 \in S, \A n \in S : n + 1 \in S
  PROVE  S = Nat
<1> SUFFICES ASSUME Nat \ S # {} PROVE FALSE
  OBVIOUS
<1>1. PICK n \in Nat \ S : \A m \in Nat \ S : n <= m
  BY LeastNat
<1>2. n # 0 /\ n - 1 \in Nat
  BY <1>1
<1>3. n - 1 \in S
  BY <1>1, <1>2
<1>4. (n - 1) + 1 \in S
  BY <1>3
<1> QED BY <1>1, <1>4

\* A set of numbers with a bound has a greatest one.
LEMMA GreatestNat ==
  ASSUME NEW S \in SUBSET Nat, S # {}, NEW n \in Nat, \A m \in S : m <= n
  PROVE  \E g \in S : \A m \in S : m <= g
<1> DEFINE Bounds == {k \in Nat : \A m \in S : m <= k}
<1>1. PICK k \in Bounds : \A j \in Bounds : k <= j
  BY LeastNat
<1>2. k \in S
  <2> SUFFICES ASSUME k \notin S PROVE FALSE
    OBVIOUS
  <2>1. k # 0
    <3>1. PICK m \in S : m <= k /\ m \in Nat
      BY <1>1
    <3> QED BY <1>1, <3>1
  <2>2. k - 1 \in Nat /\ \A m \in S : m <= k - 1
    BY <1>1, <2>1
  <2>3. k - 1 \in Bounds
    BY <2>2
  <2> QED BY <1>1, <2>3
<1> QED BY <1>1, <1>2

\* What a set of runs holds, unit by unit.
Held(A, count) == UNION {{r} \X (1 .. count[r]) : r \in A}

LEMMA HeldAdds ==
  ASSUME NEW A, NEW x, x \notin A, NEW count, count[x] \in Nat, IsFiniteSet(Held(A, count))
  PROVE  /\ IsFiniteSet(Held(A \union {x}, count))
         /\ Cardinality(Held(A \union {x}, count)) = Cardinality(Held(A, count)) + count[x]
<1> DEFINE own == {x} \X (1 .. count[x])
<1>1. Held(A \union {x}, count) = Held(A, count) \union own
  BY DEF Held
<1>2. IsFiniteSet({x}) /\ Cardinality({x}) = 1
  BY FS_Singleton
<1>3. IsFiniteSet(1 .. count[x]) /\ Cardinality(1 .. count[x]) = count[x]
  BY FS_Interval
<1>4. IsFiniteSet(own) /\ Cardinality(own) = count[x]
  <2>1. IsFiniteSet(own) /\ Cardinality(own) = Cardinality({x}) * Cardinality(1 .. count[x])
    BY <1>2, <1>3, FS_Product, Zenon
  <2> QED BY <1>2, <1>3, <2>1
<1>5. Held(A, count) \intersect own = {}
  BY DEF Held
<1>6. Cardinality(Held(A, count)) \in Nat /\ Cardinality({}) = 0
  BY FS_CardinalityType, FS_EmptySet
<1> HIDE DEF own
<1>7. /\ IsFiniteSet(Held(A, count) \union own)
      /\ Cardinality(Held(A, count) \union own)
           = Cardinality(Held(A, count)) + Cardinality(own) - Cardinality(Held(A, count) \intersect own)
  BY <1>4, FS_Union, Zenon
<1>8. Cardinality(Held(A, count) \intersect own) = 0
  BY <1>5, <1>6, Zenon
<1>9. Cardinality(Held(A, count) \union own) = Cardinality(Held(A, count)) + count[x]
  BY <1>4, <1>6, <1>7, <1>8
<1> QED BY <1>1, <1>7, <1>9, Zenon

LEMMA HeldFinite ==
  ASSUME NEW A, IsFiniteSet(A), NEW count, \A r \in A : count[r] \in Nat
  PROVE  IsFiniteSet(Held(A, count))
<1> DEFINE Sizes == {n \in Nat : \A B \in SUBSET A :
                       IsFiniteSet(B) /\ Cardinality(B) = n => IsFiniteSet(Held(B, count))}
<1>1. 0 \in Sizes
  <2>1. \A B \in SUBSET A : IsFiniteSet(B) /\ Cardinality(B) = 0 => B = {}
    BY FS_EmptySet
  <2>2. Held({}, count) = {}
    BY DEF Held
  <2> QED BY <2>1, <2>2, FS_EmptySet
<1>2. ASSUME NEW n \in Sizes PROVE n + 1 \in Sizes
  <2> SUFFICES ASSUME NEW B \in SUBSET A, IsFiniteSet(B), Cardinality(B) = n + 1
               PROVE  IsFiniteSet(Held(B, count))
    OBVIOUS
  <2>1. B # {}
    BY FS_EmptySet
  <2>2. PICK x : x \in B
    BY <2>1
  <2>3. IsFiniteSet(B \ {x}) /\ Cardinality(B \ {x}) = n
    <3>1. /\ IsFiniteSet(B \ {x})
          /\ Cardinality(B \ {x}) = IF x \in B THEN Cardinality(B) - 1 ELSE Cardinality(B)
      BY FS_RemoveElement, Zenon
    <3> QED BY <2>2, <3>1
  <2>4. IsFiniteSet(Held(B \ {x}, count))
    BY <2>3
  <2>5. (B \ {x}) \union {x} = B /\ x \notin B \ {x} /\ count[x] \in Nat
    BY <2>2
  <2> QED BY <2>4, <2>5, HeldAdds
<1>3. Sizes = Nat
  BY <1>1, <1>2, Induct
<1>4. Cardinality(A) \in Sizes
  BY <1>3, FS_CardinalityType
<1> QED BY <1>4

LEMMA TotalAdds ==
  ASSUME NEW A, IsFiniteSet(A), NEW x, x \notin A,
         NEW before, DOMAIN before = A, NEW after, DOMAIN after = A \union {x},
         \A r \in A : after[r] = before[r] /\ before[r] \in Nat,
         after[x] \in Nat
  PROVE  Total(before) \in Nat /\ Total(after) = Total(before) + after[x]
<1>1. Total(before) = Cardinality(Held(A, before)) /\ Total(after) = Cardinality(Held(A \union {x}, after))
  BY DEF Total, Held
<1>2. Held(A, before) = Held(A, after)
  BY DEF Held
<1>3. IsFiniteSet(Held(A, before))
  BY HeldFinite
<1> QED BY <1>1, <1>2, <1>3, HeldAdds, FS_CardinalityType

-----------------------------------------------------------------------------
(***************************************************************************)
(* Grants.  Tickets have a bound, so that the live runs are finitely many  *)
(* and those granted together have a last one; everything then active fits *)
(* because that one was measured beside all the others.                    *)
(***************************************************************************)
Bounded(t) == \E n \in Nat : \A r \in Live(t) : t[r].seq <= n

LEMMA LiveFinite ==
  ASSUME NEW t \in Tables, Orderly(t), Bounded(t)
  PROVE  IsFiniteSet(Live(t))
<1>1. PICK n \in Nat : \A r \in Live(t) : t[r].seq <= n
  BY DEF Bounded
<1>2. Live(t) \subseteq Runs /\ \A r \in Live(t) : t[r].seq \in 0 .. n
  BY <1>1 DEF Live, Active, Queued, Tables, Row
<1> DEFINE ticket == [r \in Live(t) |-> t[r].seq]
<1>3. ticket \in Injection(Live(t), 0 .. n)
  BY <1>2 DEF Orderly, Injection, IsInjective
<1>4. IsFiniteSet(0 .. n)
  BY FS_Interval
<1> HIDE DEF ticket
<1> QED BY <1>3, <1>4, FS_Injection

\* The last of those granted together.
LEMMA LastGranted ==
  ASSUME NEW t \in Tables, Orderly(t), Bounded(t), NEW lim, NEW G, GrantsExactly(t, lim, G), G # {}
  PROVE  \E g \in G : G = Before(t, g) \union {g} /\ g \notin Before(t, g)
<1>1. G \subseteq Queued(t) /\ \A r \in G : Before(t, r) \subseteq G
  BY DEF GrantsExactly
<1>2. /\ Queued(t) \subseteq Live(t) /\ Queued(t) \subseteq Runs
      /\ \A r \in Runs : t[r].seq \in Nat
  BY DEF Live, Queued, Tables, Row
<1>3. PICK n \in Nat : \A r \in Live(t) : t[r].seq <= n
  BY DEF Bounded
<1> DEFINE tickets == {t[r].seq : r \in G}
<1>4. tickets \in SUBSET Nat /\ tickets # {} /\ \A m \in tickets : m <= n
  BY <1>1, <1>2, <1>3
<1> HIDE DEF tickets
<1>5. PICK last \in tickets : \A m \in tickets : m <= last
  BY <1>3, <1>4, GreatestNat
<1>6. PICK g \in G : t[g].seq = last
  BY <1>5 DEF tickets
<1>7. ASSUME NEW r \in G, r # g PROVE r \in Before(t, g)
  <2>1. t[r].seq <= t[g].seq /\ t[r].seq # t[g].seq
    BY <1>1, <1>2, <1>5, <1>6, <1>7 DEF tickets, Orderly
  <2> QED BY <1>1, <1>2, <2>1 DEF Before
<1>8. g \notin Before(t, g)
  BY <1>1, <1>2 DEF Before
<1> QED BY <1>1, <1>7, <1>8

LEMMA ReservesSomething ==
  ASSUME NEW r \in Runs, NEW lim \in Limits, lim.memory # 0
  PROVE  ReservedMemory(r, lim) # 0
<1>1. /\ Want[r] \in Nat /\ Want[r] # 0 /\ PerWorker[r] \in Nat
      /\ lim.slots \in Nat /\ lim.slots # 0
  BY RequestAssumption DEF Limits
<1>2. ActualSlots(r, lim) \in Nat /\ ActualSlots(r, lim) # 0
  BY <1>1 DEF ActualSlots, Least
<1>3. \A i, j \in Nat : i # 0 /\ j # 0 => i * j # 0
  OBVIOUS
<1> QED BY <1>1, <1>2, <1>3 DEF ReservedMemory

Within(t, lim) ==
  LET A == Active(t)
  IN  /\ Cardinality(A) <= lim.jobs
      /\ SlotsOf(t, A) <= lim.slots
      /\ lim.memory # 0 => MemoryOf(t, A, lim.memory) <= lim.memory

\* What the scan grants fits, whatever the limits were when the others were
\* granted.
LEMMA GrantsFit ==
  ASSUME NEW t \in Tables, Orderly(t), Bounded(t), NEW lim \in Limits,
         NEW G, GrantsExactly(t, lim, G), G # {}
  PROVE  Within(GrantRows(t, lim, G), lim)
<1>1. PICK g \in G : G = Before(t, g) \union {g} /\ g \notin Before(t, g)
  BY LastGranted
<1>2. /\ G \subseteq Queued(t) /\ Before(t, g) \subseteq Queued(t)
      /\ Fits(GrantRows(t, lim, Before(t, g)), g, lim)
  BY <1>1 DEF GrantsExactly
<1> DEFINE u == GrantRows(t, lim, Before(t, g))
           v == GrantRows(t, lim, G)
           B == Active(u)
<1>3. /\ Active(u) = Active(t) \union Before(t, g)
      /\ Active(v) = Active(t) \union G
  BY <1>2, GrantRowsStates
<1>4. g \in Runs /\ g \notin Active(t) /\ Active(t) \intersect G = {} /\ B \subseteq Runs
  BY <1>1, <1>2 DEF Active, Queued, ActiveStates
<1>5. Active(v) = B \union {g} /\ g \notin B
  BY <1>1, <1>3, <1>4
<1>6. IsFiniteSet(B)
  <2>1. B \subseteq Live(t)
    BY <1>2, <1>3 DEF Live
  <2> QED BY <2>1, LiveFinite, FS_Subset
<1>7. /\ v[g].slots = ActualSlots(g, lim) /\ v[g].memory = ReservedMemory(g, lim)
      /\ ActualSlots(g, lim) \in Nat /\ ReservedMemory(g, lim) \in Nat
  BY <1>1, <1>4, ChargeType DEF GrantRows, Tables, Row
<1>8. ASSUME NEW r \in B
      PROVE  v[r] = u[r] /\ u[r].slots \in Nat /\ u[r].memory \in Nat
  <2>1. u \in Tables
    BY GrantRowsType
  <2>2. r \in Before(t, g) <=> r \in G
    BY <1>1, <1>5
  <2>3. v[r] = u[r]
    BY <1>4, <2>2 DEF GrantRows
  <2> HIDE DEF u, v
  <2> QED BY <1>4, <2>1, <2>3 DEF Tables, Row
<1>9. Fits(u, g, lim)
  BY <1>2
<1> HIDE DEF u, v
<1>10. Cardinality(Active(v)) <= lim.jobs
  <2>1. Cardinality(B) \in Nat /\ Cardinality(B) < lim.jobs /\ lim.jobs \in Nat
    BY <1>6, <1>9, FS_CardinalityType DEF Fits, Limits
  <2> QED BY <1>5, <1>6, <2>1, FS_AddElement
<1>11. SlotsOf(v, Active(v)) <= lim.slots
  <2> DEFINE before == [r \in B |-> u[r].slots]
             after == [r \in B \union {g} |-> v[r].slots]
  <2>1. /\ DOMAIN before = B /\ DOMAIN after = B \union {g}
        /\ \A r \in B : after[r] = before[r] /\ before[r] \in Nat
        /\ after[g] = ActualSlots(g, lim) /\ after[g] \in Nat
    BY <1>7, <1>8
  <2>2. Total(before) + ActualSlots(g, lim) <= lim.slots
    BY <1>9 DEF Fits, SlotsOf
  <2>3. SlotsOf(v, Active(v)) = Total(after)
    BY <1>5 DEF SlotsOf
  <2> HIDE DEF before, after
  <2>4. Total(after) = Total(before) + ActualSlots(g, lim)
    BY <1>5, <1>6, <2>1, TotalAdds
  <2> QED BY <2>2, <2>3, <2>4
<1>12. ASSUME lim.memory # 0
       PROVE  MemoryOf(v, Active(v), lim.memory) <= lim.memory
  <2> DEFINE held(w, r) == IF w[r].memory = 0 THEN lim.memory ELSE w[r].memory
             before == [r \in B |-> held(u, r)]
             after == [r \in B \union {g} |-> held(v, r)]
  <2>0. lim.memory \in Nat
    BY DEF Limits
  <2>1. /\ DOMAIN before = B /\ DOMAIN after = B \union {g}
        /\ \A r \in B : after[r] = before[r] /\ before[r] \in Nat
    BY <1>8, <2>0
  <2>2. after[g] = ReservedMemory(g, lim) /\ after[g] \in Nat
    BY <1>4, <1>7, <1>12, ReservesSomething
  <2>3. Total(before) + ReservedMemory(g, lim) <= lim.memory
    BY <1>9, <1>12 DEF Fits, MemoryOf
  <2>4. MemoryOf(v, Active(v), lim.memory) = Total(after)
    BY <1>5 DEF MemoryOf
  <2> HIDE DEF before, after
  <2>5. Total(after) = Total(before) + ReservedMemory(g, lim)
    BY <1>5, <1>6, <2>1, <2>2, TotalAdds
  <2> QED BY <2>3, <2>4, <2>5
<1> QED BY <1>10, <1>11, <1>12 DEF Within, u, v

LEMMA ShrunkBounded ==
  ASSUME NEW t, NEW u, Bounded(t), Shrunk(t, u)
  PROVE  Bounded(u)
<1>1. Live(u) \subseteq Live(t) /\ \A r \in Live(u) : u[r].seq = t[r].seq
  BY DEF Shrunk, Live
<1> QED BY <1>1 DEF Bounded

LEMMA BoundedStep ==
  ASSUME Inv, Bounded(jobs), [Next]_vars
  PROVE  Bounded(jobs')
<1>1. TypeOK' /\ (Removes \/ Grants \/ Appends)
  BY EveryStep
<1>2. CASE Removes
  BY <1>2, ShrunkBounded DEF Removes
<1>3. CASE Grants
  <2>1. PICK t \in Tables, lim \in Limits : \E G \in SUBSET Queued(t) :
          Shrunk(jobs, t) /\ jobs' = GrantRows(t, lim, G)
    BY <1>3 DEF Grants
  <2>2. PICK G \in SUBSET Queued(t) : Shrunk(jobs, t) /\ jobs' = GrantRows(t, lim, G)
    BY <2>1
  <2>3. Bounded(t)
    BY <2>2, ShrunkBounded
  <2>4. /\ Live(jobs') \subseteq Live(t) /\ Live(t) \subseteq Runs
        /\ \A r \in Runs : jobs'[r].seq = t[r].seq
    BY <2>2, GrantRowsStates, ActiveNeverQueued
  <2> QED BY <2>3, <2>4 DEF Bounded
<1>4. CASE Appends
  <2>1. PICK r \in Runs, t \in Tables :
          /\ Active(jobs') = Active(t)
          /\ Queued(jobs') = Queued(t) \union {r}
          /\ \A s \in Live(t) : jobs'[s].seq < jobs'[r].seq
    BY <1>4 DEF Appends
  <2>2. jobs'[r].seq \in Nat /\ \A s \in Runs : jobs'[s].seq \in Nat
    BY <1>1 DEF TypeOK, Row
  <2>3. \A s \in Live(jobs') : jobs'[s].seq <= jobs'[r].seq
    BY <2>1, <2>2, ActiveNeverQueued
  <2> QED BY <2>2, <2>3 DEF Bounded
<1> QED BY <1>1, <1>2, <1>3, <1>4

LEMMA GrantsFitStep ==
  ASSUME Inv, Bounded(jobs), [Next]_vars
  PROVE  Active(jobs') \subseteq Active(jobs) \/ Within(jobs', limits')
<1>1. Removes \/ Grants \/ Appends
  BY EveryStep
<1>2. CASE Removes
  BY <1>2 DEF Removes, Shrunk
<1>3. CASE Appends
  BY <1>3 DEF Appends, Shrunk
<1>4. CASE Grants
  <2>1. PICK t \in Tables, lim \in Limits : \E G \in SUBSET Queued(t) :
          /\ Shrunk(jobs, t) /\ GrantsExactly(t, lim, G)
          /\ jobs' = GrantRows(t, lim, G) /\ limits' = lim
    BY <1>4 DEF Grants
  <2>2. PICK G \in SUBSET Queued(t) :
          /\ Shrunk(jobs, t) /\ GrantsExactly(t, lim, G)
          /\ jobs' = GrantRows(t, lim, G) /\ limits' = lim
    BY <2>1
  <2>3. CASE G = {}
    <3>1. Active(jobs') = Active(t)
      BY <2>2, <2>3, GrantRowsStates
    <3> QED BY <2>2, <3>1 DEF Shrunk
  <2>4. CASE G # {}
    <3>1. Orderly(t) /\ Bounded(t)
      BY <2>2, ShrunkOrderly, ShrunkBounded DEF Inv
    <3>2. Within(GrantRows(t, lim, G), lim)
      BY <2>2, <2>4, <3>1, GrantsFit
    <3> QED BY <2>2, <3>2
  <2> QED BY <2>3, <2>4
<1> QED BY <1>1, <1>2, <1>3, <1>4

\* Whenever a run is granted, all active runs together fit the limits then in
\* force: jobs, slots and memory, however many earlier grants were measured
\* against limits that were wider or had no budget.  (_grant_queued_locked)
THEOREM GrantsAreWithinLimits == Spec => GrantsWithinLimits
<1>1. Init => Bounded(jobs)
  <2>1. AbsentRow.state = "absent"
    BY DEF AbsentRow
  <2>2. ASSUME Init PROVE Live(jobs) = {}
    BY <2>1, <2>2 DEF Init, Live, Active, Queued, ActiveStates
  <2> QED BY <2>2 DEF Bounded
<1>2. Inv /\ Bounded(jobs) /\ [Next]_vars => Bounded(jobs)'
  BY BoundedStep
<1>3. Inv /\ Bounded(jobs) /\ [Next]_vars =>
        (Active(jobs') \subseteq Active(jobs) \/ Within(jobs', limits'))
  BY GrantsFitStep
<1>4. Spec => [](Inv /\ Bounded(jobs))
  BY <1>1, <1>2, Invariance, PTL DEF Spec
<1>5. Inv /\ Bounded(jobs) /\ [Next]_vars =>
        [Active(jobs') \subseteq Active(jobs)
         \/ LET A == Active(jobs')
            IN  /\ Cardinality(A) <= limits'.jobs
                /\ SlotsOf(jobs', A) <= limits'.slots
                /\ limits'.memory # 0 => MemoryOf(jobs', A, limits'.memory) <= limits'.memory]_vars
  BY <1>3 DEF Within
<1> QED BY <1>4, <1>5, PTL DEF Spec, GrantsWithinLimits

-----------------------------------------------------------------------------
(***************************************************************************)
(* Who stands for a row.  An owner that was granted, a guard that          *)
(* registered, and the work below it each need their row active; what the  *)
(* row says is kept apart from where its processes are, so that a step can *)
(* be judged by the row and the process it moves.                          *)
(***************************************************************************)
Holders == {"granted", "guarded", "handed", "proved"}
Registered == {"registered", "cleared", "ran", "drained"}
Watched(r) == Alone(r) /\ "force" \notin Events

\* An owner's course and its guard's: handed over only by a guard that exited,
\* and no work below a guard that did not register.
Courses(c, g, k) ==
  /\ c \in {"idle", "waiting", "granted"} => g = "none"
  /\ c \in {"handed", "proved"} => g = "gone"
  /\ g \in {"none", "launched"} => k = "none"

\* The phase of a row, and how far its owner c and its guard g have come.
Staged(row, c, g) ==
  /\ row.state = "GRANTED" => row.nonce
  /\ row.phase \in {"draining", "finalization"} =>
       row.state \in {"DRAINING", "FINALIZING", "UNCERTAIN"}
  /\ c \in {"handed", "proved"} \/ g = "drained" => row.state # "QUEUED"
  /\ row.state \in ActiveStates /\ (c = "handed" \/ g = "drained") => row.phase = "draining"
  /\ row.state \in ActiveStates /\ c = "proved" => row.phase = "finalization"

\* The row is charged for whoever relies on it.
Backed(row, r, c, g, k) ==
  /\ c \in Holders => row.state \in ActiveStates /\ row.nonce
  /\ g \in Registered => row.state \in ActiveStates /\ row.guarded
  /\ Watched(r) /\ (k = "grouped" \/ (k # "none" /\ row.seen)) =>
       row.state \in ActiveStates /\ row.guarded

Accounted(row, r, c, g, k) ==
  /\ Courses(c, g, k) /\ Staged(row, c, g)
  /\ BlindForce(Events) \/ Backed(row, r, c, g, k)

\* After a reboot, until the ledger notices, nobody of before is left.
Quiet == stale => \A r \in Runs : /\ client[r] \in {"idle", "done", "gone"}
                                  /\ ~GuardAlive(r) /\ kid[r] = "none"

Kept == Quiet /\ \A r \in Runs : Accounted(jobs[r], r, client[r], guard[r], kid[r])

-----------------------------------------------------------------------------
(***************************************************************************)
(* What a pass makes of a live row: it leaves it open, keeping everything  *)
(* but its state and its doubts, or closes it once nobody relies on it.    *)
(***************************************************************************)
\* What an observer reads of a process is true of it, or not known.
LEMMA SightTells ==
  ASSUME NEW r \in Runs, NEW o \in Sights(r)
  PROVE  /\ ProvenGone(o.owner) => ~OwnerAlive(r)
         /\ ProvenGone(o.guard) => ~GuardAlive(r)
         /\ o.guard = "same" => GuardAlive(r)
         /\ kid[r] # "none" => o.kid \in {"same", "unknown"}
BY DEF Sights, Sight, ProvenGone

Open(row, view, r) ==
  /\ view.phase = row.phase /\ view.nonce = row.nonce /\ view.guarded = row.guarded
  /\ view.final = row.final
  /\ \/ view.state = row.state
     \/ view.state = "UNCERTAIN" /\ row.state # "QUEUED"
     \/ view.state = "RUNNING" /\ row.state = "UNCERTAIN" /\ row.phase = "setup"
  /\ view.seen => row.seen \/ (GuardAlive(r) /\ row.guarded)

Closed(row, view, r, ns) ==
  /\ view.state \in TerminalStates /\ view.phase = "complete" /\ view.final = row.final
  /\ row.state = "QUEUED" \/ ~OwnerAlive(r)
  /\ row.state # "QUEUED" /\ row.guarded => ~GuardAlive(r)
  /\ view.seen => row.seen \/ (GuardAlive(r) /\ row.guarded)
  /\ row.state # "QUEUED" /\ row.guarded /\ ns = Namespace[r] =>
       kid[r] # "grouped" /\ (view.seen => kid[r] = "none")

\* A walk over the descendants changes what the row remembers of them, no more;
\* it records a new one only under a guard that lives.
LEMMA ObservedRow ==
  ASSUME NEW row \in Row, NEW r \in Runs, NEW o \in Sights(r), row.guarded
  PROVE  LET x == ObserveDescendants(row, r, o) IN
         /\ x \in Row
         /\ x.state = row.state /\ x.phase = row.phase /\ x.nonce = row.nonce
         /\ x.guarded = row.guarded /\ x.final = row.final
         /\ x.reason = row.reason
         /\ x.seen => row.seen \/ GuardAlive(r)
<1>1. ObserveDescendants(row, r, o) \in Row
  BY ObserveType
<1> QED
  BY <1>1, SightTells DEF ObserveDescendants, Row

\* A pass over the row of a registered guard.
LEMMA GuardedPass ==
  ASSUME NEW row \in Row, row.state \in ActiveStates, row.guarded,
         NEW r \in Runs, NEW o \in Sights(r), NEW x, x = ObserveDescendants(row, r, o)
  PROVE  Open(row, GuardedView(x, r, o), r) \/ Closed(row, GuardedView(x, r, o), r, Namespace[r])
<1>1. /\ x \in Row
      /\ x.state = row.state /\ x.phase = row.phase /\ x.nonce = row.nonce
      /\ x.guarded = row.guarded /\ x.final = row.final /\ x.reason = row.reason
      /\ x.seen => row.seen \/ GuardAlive(r)
  BY ObservedRow
<1>2. row.state # "QUEUED"
  BY DEF ActiveStates
<1>3. ASSUME NEW why PROVE Open(row, Uncertain(x, why), r)
  BY <1>1, <1>2 DEF Uncertain, Open, Row
<1>4. Open(row, x, r)
  BY <1>1 DEF Open
<1>5. Healable(x, o) => Open(row, [x EXCEPT !.state = "RUNNING", !.reason = "none"], r)
  BY <1>1 DEF Open, Healable, Row
<1>6. CASE GuardedView(x, r, o) = GroupAbsentView(x, r, o) /\ GroupSeen(r, o) = "absent"
  <2>1. ~GroupAlive(r)
    BY <1>6 DEF GroupSeen
  <2>2. CASE EscapedOrUnknown(x, r, o, TRUE) \/ ~ProvenGone(o.guard) \/ ~ProvenGone(o.owner)
    BY <1>3, <1>4, <1>6, <2>2 DEF GroupAbsentView
  <2>3. CASE /\ ~EscapedOrUnknown(x, r, o, TRUE) /\ ProvenGone(o.guard) /\ ProvenGone(o.owner)
    <3>1. GuardedView(x, r, o) = Close(x, "RELEASED", "lost")
      BY <1>6, <2>3 DEF GroupAbsentView
    <3>2. x.seen => kid[r] = "none"
      BY <2>3, SightTells DEF EscapedOrUnknown
    <3>3. ~OwnerAlive(r) /\ ~GuardAlive(r) /\ kid[r] # "grouped"
      BY <2>1, <2>3, SightTells DEF GroupAlive
    <3> QED
      BY <1>1, <1>2, <3>1, <3>2, <3>3 DEF Close, Closed, Row, TerminalStates
  <2> QED BY <2>2, <2>3
<1>7. CASE GuardedView(x, r, o) = GroupExistsView(x, o)
  BY <1>3, <1>4, <1>5, <1>7 DEF GroupExistsView
<1>8. CASE \E why : GuardedView(x, r, o) = Uncertain(x, why)
  BY <1>3, <1>8
<1>9. ObservationCause(x, r, o) \in {"escape", "transient", "clean"}
  BY DEF ObservationCause
<1>10. GroupSeen(r, o) \in {"unknown", "exists", "absent"}
  BY DEF GroupSeen
<1> QED
  BY <1>6, <1>7, <1>8, <1>9, <1>10 DEF GuardedView

\* A pass over any live row, by an observer of any namespace.
LEMMA PassTells ==
  ASSUME NEW row \in Row, row.state \in ActiveStates \union {"QUEUED"},
         row.state = "QUEUED" => ~row.guarded,
         NEW r \in Runs, NEW ns, NEW o \in Sights(r)
  PROVE  LET view == RecoveryView(row, r, ns, o) IN
         Open(row, view, r) \/ Closed(row, view, r, ns)
<1>1. Open(row, row, r)
  BY DEF Open
<1>2. ASSUME NEW final \in TerminalStates, NEW why,
             row.state = "QUEUED" \/ ~OwnerAlive(r),
             row.guarded => ~GuardAlive(r) /\ Namespace[r] # ns
      PROVE  Closed(row, Close(row, final, why), r, ns)
  BY <1>2 DEF Close, Closed, Row
<1>3. CASE row.state = "QUEUED" /\ r \in late
  BY <1>2, <1>3 DEF RecoveryView, TerminalStates
<1>4. CASE ~(row.state = "QUEUED" /\ r \in late) /\ Namespace[r] # ns
  <2>1. LockSeen(r, o) = "ACQUIRABLE" => ~OwnerAlive(r) /\ ~GuardAlive(r)
    BY DEF LockSeen, LeaseHeld
  <2> QED
    BY <1>1, <1>2, <1>4, <2>1 DEF RecoveryView, ForeignView, TerminalStates
<1>5. CASE ~(row.state = "QUEUED" /\ r \in late) /\ Namespace[r] = ns /\ ~row.guarded
  <2>1. row.state # "QUEUED" => Open(row, Uncertain(row, "lost"), r)
    BY DEF Open, Uncertain, Row
  <2> QED
    BY <1>1, <1>2, <1>5, <2>1, SightTells DEF RecoveryView, UnguardedView, TerminalStates
<1>6. CASE ~(row.state = "QUEUED" /\ r \in late) /\ Namespace[r] = ns /\ row.guarded
  BY <1>1, <1>6, GuardedPass DEF RecoveryView
<1> QED
  BY <1>3, <1>4, <1>5, <1>6

\* Either way the row still accounts for its processes.
LEMMA PassAccounts ==
  ASSUME NEW row, NEW view, NEW r \in Runs, NEW ns,
         row.state \in ActiveStates \union {"QUEUED"},
         Open(row, view, r) \/ Closed(row, view, r, ns),
         Alone(r) => ns = Namespace[r],
         Accounted(row, r, client[r], guard[r], kid[r])
  PROVE  Accounted(view, r, client[r], guard[r], kid[r])
<1>1. Staged(view, client[r], guard[r])
  <2>1. CASE Open(row, view, r)
    BY <2>1 DEF Accounted, Staged, Open, ActiveStates
  <2>2. CASE Closed(row, view, r, ns)
    BY <2>2 DEF Accounted, Staged, Closed, ActiveStates, TerminalStates
  <2> QED BY <2>1, <2>2
<1>2. ASSUME Backed(row, r, client[r], guard[r], kid[r])
      PROVE  Backed(view, r, client[r], guard[r], kid[r])
  <2>1. GuardAlive(r) => guard[r] \in Registered \/ kid[r] = "none"
    BY DEF Accounted, Courses, GuardAlive, Registered
  <2>2. guard[r] \in Registered => GuardAlive(r)
    BY DEF GuardAlive, Registered
  <2>3. client[r] \in Holders => OwnerAlive(r)
    BY DEF OwnerAlive, Holders
  <2>4. CASE Open(row, view, r)
    BY <1>2, <2>1, <2>4 DEF Backed, Open, ActiveStates
  <2>5. CASE Closed(row, view, r, ns)
    <3>1. row.state \in ActiveStates => row.state # "QUEUED"
      BY DEF ActiveStates
    <3>2. client[r] \notin Holders
      BY <1>2, <2>3, <2>5, <3>1 DEF Backed, Closed
    <3>3. guard[r] \notin Registered
      BY <1>2, <2>2, <2>5, <3>1 DEF Backed, Closed
    <3>4. ~(Watched(r) /\ (kid[r] = "grouped" \/ (kid[r] # "none" /\ view.seen)))
      BY <1>2, <2>1, <2>2, <2>5, <3>1, <3>3 DEF Backed, Closed, Watched
    <3> QED BY <3>2, <3>3, <3>4 DEF Backed
  <2> QED BY <2>4, <2>5
<1> QED
  BY <1>1, <1>2 DEF Accounted

\* Whatever a transaction recovers first, every row still accounts for its
\* processes.
LEMMA RecoveredAccounts ==
  ASSUME Inv, Kept, NEW ns, \A r \in Runs : Alone(r) => ns = Namespace[r],
         NEW u \in Recovered(ns)
  PROVE  \A r \in Runs : Accounted(u[r], r, client[r], guard[r], kid[r])
<1> DEFINE t == RecoverBoot(jobs)
<1>1. t \in Tables /\ Unregistered(t)
  BY RecoverBootShrinks DEF Inv, TypeOK, Orderly, Tables, Shrunk
<1>2. ASSUME NEW r \in Runs
      PROVE  Accounted(t[r], r, client[r], guard[r], kid[r])
  <2>1. CASE ~stale
    BY <2>1 DEF Kept, RecoverBoot
  <2>2. CASE stale
    <3>1. /\ client[r] \notin Holders
          /\ guard[r] \notin Registered /\ kid[r] = "none"
      BY <2>2 DEF Kept, Quiet, Holders, Registered, GuardAlive
    <3>2. Courses(client[r], guard[r], kid[r])
      BY DEF Kept, Accounted
    <3>3. t[r].state \notin ActiveStates \union {"QUEUED"}
      BY <2>2 DEF RecoverBoot, Live, Active, Queued, Inv, TypeOK, Row, ActiveStates
    <3>4. t[r].phase \in {"draining", "finalization"} => FALSE
      <4>1. r \notin Live(jobs) => jobs[r].state \notin ActiveStates
        BY DEF Live, Active
      <4>2. Staged(jobs[r], client[r], guard[r])
        BY DEF Kept, Accounted
      <4> QED
        BY <2>2, <4>1, <4>2 DEF RecoverBoot, Inv, TypeOK, Row, Staged, ActiveStates
    <3> QED
      BY <3>1, <3>2, <3>3, <3>4 DEF Accounted, Staged, Backed, ActiveStates, Holders, Registered
  <2> QED BY <2>1, <2>2
<1> HIDE DEF t
<1>3. ASSUME NEW r \in Runs
      PROVE  Accounted(u[r], r, client[r], guard[r], kid[r])
  <2>1. u[r] \in Views(t, r, ns)
    BY DEF Recovered, Reconciled, t
  <2>2. CASE r \in Live(t)
    <3>1. PICK o \in Sights(r) : u[r] = RecoveryView(t[r], r, ns, o)
      BY <2>1, <2>2 DEF Views
    <3>2. /\ t[r] \in Row /\ t[r].state \in ActiveStates \union {"QUEUED"}
          /\ t[r].state = "QUEUED" => ~t[r].guarded
      BY <1>1, <2>2 DEF Tables, Live, Active, Queued, Unregistered
    <3>3. Open(t[r], u[r], r) \/ Closed(t[r], u[r], r, ns)
      BY <3>1, <3>2, PassTells
    <3> QED BY <1>2, <3>2, <3>3, PassAccounts
  <2>3. CASE r \notin Live(t)
    BY <1>2, <2>1, <2>3 DEF Views
  <2> QED BY <2>2, <2>3
<1> QED BY <1>3

\* The observers: an owner or a guard reconciles in its own namespace, the
\* operator in that of some run.
LEMMA ObserverIsThere ==
  ASSUME NEW s \in Runs
  PROVE  \A r \in Runs : Alone(r) => Namespace[s] = Namespace[r]
  BY DEF Alone

-----------------------------------------------------------------------------
(***************************************************************************)
(* The rows the operations write account for the processes they move.      *)
(***************************************************************************)
\* An owner that reports and one that is gone rely on nothing.
LEMMA LeavingAccounts ==
  ASSUME NEW row, NEW r, NEW c, NEW g, NEW k, Accounted(row, r, c, g, k)
  PROVE  /\ Accounted(row, r, "done", g, k)
         /\ Accounted(row, r, "gone", g, k)
  BY DEF Accounted, Courses, Staged, Backed, Holders

\* A grant charges the row before anybody relies on it.
LEMMA GrantAccounts ==
  ASSUME NEW t \in Tables, NEW lim, NEW G, G \subseteq Queued(t), NEW r \in Runs,
         NEW c, NEW g, NEW k, Accounted(t[r], r, c, g, k)
  PROVE  Accounted(GrantRows(t, lim, G)[r], r, c, g, k)
<1>1. CASE r \notin G
  BY <1>1 DEF GrantRows
<1>2. CASE r \in G
  <2> DEFINE row == GrantRows(t, lim, G)[r]
  <2>1. /\ row.state = "GRANTED" /\ row.nonce /\ row.phase = "admission"
        /\ row.seen = t[r].seen /\ row.guarded = t[r].guarded
    BY <1>2 DEF GrantRows, Tables, Row
  <2>2. t[r].state = "QUEUED" /\ t[r].state \notin ActiveStates
    BY <1>2 DEF Queued, ActiveStates
  <2> HIDE DEF row
  <2> QED BY <2>1, <2>2 DEF Accounted, Staged, Backed, ActiveStates, row
<1> QED BY <1>1, <1>2

\* Whoever polled and finds itself granted holds the row.
LEMMA PolledAccounts ==
  ASSUME NEW row, NEW r, NEW g, NEW k, Accounted(row, r, "waiting", g, k)
  PROVE  Accounted(row, r, AfterPoll(row.state), g, k)
<1>1. CASE row.state = "GRANTED"
  BY <1>1 DEF Accounted, Courses, Staged, Backed, Holders, AfterPoll, ActiveStates
<1>2. CASE row.state # "GRANTED"
  BY <1>2, LeavingAccounts DEF AfterPoll
<1> QED BY <1>1, <1>2

\* A row that is not live accounts for nobody, and needs to for nobody.
Resigned(row) ==
  row.state \notin ActiveStates \union {"QUEUED"}
  /\ row.phase \notin {"draining", "finalization"}

\* Such a row accounts for processes that rely on nothing.
LEMMA ResignedAccounts ==
  ASSUME NEW row, Resigned(row), NEW r, NEW c, NEW g, NEW k, Courses(c, g, k),
         \/ BlindForce(Events)
         \/ /\ c \notin Holders /\ g \notin Registered
            /\ Watched(r) => k # "grouped" /\ (row.seen => k = "none")
  PROVE  Accounted(row, r, c, g, k)
  BY DEF Accounted, Resigned, Staged, Backed, ActiveStates

\* A row that is not active may be forgotten, by pruning or with its checkout.
LEMMA ForgottenAccounts ==
  ASSUME NEW row, row.state \notin ActiveStates, NEW r, NEW c, NEW g, NEW k,
         Accounted(row, r, c, g, k)
  PROVE  Accounted(AbsentRow, r, c, g, k)
<1>1. Resigned(AbsentRow) /\ AbsentRow.seen = FALSE
  BY DEF Resigned, AbsentRow, ActiveStates
<1> QED BY <1>1, ResignedAccounts DEF Accounted, Backed

\* So pruning the terminal rows loses sight of nobody.
LEMMA PruneAccounts ==
  ASSUME NEW t, NEW r \in Runs, NEW c, NEW g, NEW k, Accounted(t[r], r, c, g, k)
  PROVE  Accounted(PruneTerminal(t)[r], r, c, g, k)
<1>1. CASE PruneTerminal(t)[r] = t[r]
  BY <1>1
<1>2. CASE PruneTerminal(t)[r] # t[r]
  <2>1. PruneTerminal(t)[r] = AbsentRow /\ t[r].state \in TerminalStates
    BY <1>2 DEF PruneTerminal, Terminal
  <2>2. t[r].state \notin ActiveStates
    BY <2>1 DEF TerminalStates, ActiveStates
  <2> QED BY <2>1, <2>2, ForgottenAccounts
<1> QED BY <1>1, <1>2

-----------------------------------------------------------------------------
(***************************************************************************)
(* One lemma per action.                                                   *)
(***************************************************************************)
\* A new row is queued, and its owner waits.
LEMMA EnqueueKeeps ==
  ASSUME Inv, Kept, NEW r \in Runs, Enqueue(r)
  PROVE  Kept'
<1>1. PICK t \in Recovered(Namespace[r]), requested \in Configs :
        \E n \in NextSequence(t) :
          jobs' = PruneTerminal([t EXCEPT ![r] = NewRow(n, r, RefreshLimits(t, requested))])
  BY DEF Enqueue
<1>2. PICK row : /\ jobs' = PruneTerminal([t EXCEPT ![r] = row])
                 /\ \E n, lim : row = NewRow(n, r, lim)
  BY <1>1
<1>3. t \in Tables
  BY RecoveredShrinks DEF Inv, TypeOK, Tables, Orderly
<1>4. \A s \in Runs : Accounted(t[s], s, client[s], guard[s], kid[s])
  BY RecoveredAccounts, ObserverIsThere
<1>5. client[r] = "idle" /\ guard[r] = "none" /\ kid[r] = "none"
  BY DEF Enqueue, Arrives, Kept, Accounted, Courses
<1>6. Accounted(row, r, "waiting", "none", "none")
  <2>1. row.state = "QUEUED" /\ row.phase = "admission" /\ row.seen = FALSE
    BY <1>2 DEF NewRow, AbsentRow
  <2> QED BY <2>1 DEF Accounted, Courses, Staged, Backed, Holders, Registered, ActiveStates
<1> DEFINE u == [t EXCEPT ![r] = row]
<1>7. \A s \in Runs : Accounted(u[s], s, client'[s], guard[s], kid[s])
  BY <1>3, <1>4, <1>5, <1>6 DEF Enqueue, Inv, TypeOK, Tables
<1> HIDE DEF u
<1>8. \A s \in Runs : Accounted(PruneTerminal(u)[s], s, client'[s], guard[s], kid[s])
  BY <1>7, PruneAccounts
<1> QED BY <1>2, <1>8 DEF Kept, Quiet, Enqueue, u

\* The owner that polls learns what its row has become.
LEMMA PollKeeps ==
  ASSUME Inv, Kept, NEW r \in Runs, Poll(r)
  PROVE  Kept'
<1>1. PICK t \in Recovered(Namespace[r]) :
        \E lim : \E G \in SUBSET Queued(t) : jobs' = GrantRows(t, lim, G)
  BY DEF Poll
<1>2. PICK lim : \E G \in SUBSET Queued(t) : jobs' = GrantRows(t, lim, G)
  BY <1>1
<1>8. PICK G \in SUBSET Queued(t) : jobs' = GrantRows(t, lim, G)
  BY <1>2
<1>3. t \in Tables
  BY RecoveredShrinks DEF Inv, TypeOK, Tables, Orderly
<1>4. \A s \in Runs : Accounted(t[s], s, client[s], guard[s], kid[s])
  BY RecoveredAccounts, ObserverIsThere
<1>5. \A s \in Runs : Accounted(jobs'[s], s, client[s], guard[s], kid[s])
  BY <1>3, <1>4, <1>8, GrantAccounts
<1>6. Accounted(jobs'[r], r, AfterPoll(jobs'[r].state), guard[r], kid[r])
  BY <1>5, PolledAccounts DEF Poll
<1>7. \A s \in Runs : Accounted(jobs'[s], s, client'[s], guard[s], kid[s])
  BY <1>5, <1>6 DEF Poll, Inv, TypeOK
<1> QED BY <1>7 DEF Kept, Quiet, Poll

\* A grant that was never registered is revoked by its owner, which leaves.
LEMMA CancelAccounts ==
  ASSUME TypeOK, Kept, NEW r \in Runs, NEW s \in Runs, NEW c,
         s # r => c = client[s],
         s = r => c = "done"
  PROVE  Accounted(CancelPendingRow(r)[s], s, c, guard[s], kid[s])
<1>1. Accounted(jobs[s], s, c, guard[s], kid[s])
  BY LeavingAccounts DEF Kept
<1>2. CASE CancelPendingRow(r)[s] = jobs[s]
  BY <1>1, <1>2
<1>3. CASE CancelPendingRow(r)[s] # jobs[s]
  <2> DEFINE row == CancelPendingRow(r)[s]
  <2>1. s = r /\ ~jobs[s].guarded
        /\ row = [Close(jobs[s], "CANCELLED", jobs[s].reason) EXCEPT !.nonce = FALSE]
    BY <1>3 DEF CancelPendingRow, TypeOK
  <2>2. row.state = "CANCELLED" /\ row.phase = "complete" /\ row.seen = jobs[s].seen
    BY <2>1 DEF Close, TypeOK, Row
  <2>3. Resigned(row)
    BY <2>2 DEF Resigned, ActiveStates
  <2> HIDE DEF row
  <2>4. Courses(c, guard[s], kid[s]) /\ c \notin Holders
    BY <1>1, <2>1 DEF Accounted, Holders
  <2>5. Accounted(row, s, c, guard[s], kid[s])
    BY <1>1, <2>1, <2>2, <2>3, <2>4, ResignedAccounts DEF Accounted, Backed
  <2> QED BY <2>5 DEF row
<1> QED BY <1>2, <1>3

\* An owner that withdraws, or finds its guard lost.
LEMMA CancelKeeps ==
  ASSUME TypeOK, Kept, NEW r \in Runs, CancelPending(r) \/ GuardLost(r)
  PROVE  Kept'
<1>1. /\ client' = [client EXCEPT ![r] = "done"]
      /\ jobs' = jobs \/ jobs' = CancelPendingRow(r)
      /\ UNCHANGED <<stale, guard, kid>>
  BY DEF CancelPending, GuardLost
<1>2. ASSUME NEW s \in Runs
      PROVE  Accounted(jobs'[s], s, client'[s], guard[s], kid[s])
  <2>1. /\ s # r => client'[s] = client[s]
        /\ s = r => client'[s] = "done"
    BY <1>1 DEF TypeOK
  <2>2. CASE jobs' = jobs
    BY <2>1, <2>2, LeavingAccounts DEF Kept
  <2>3. CASE jobs' = CancelPendingRow(r)
    BY <2>1, <2>3, CancelAccounts
  <2> QED BY <1>1, <2>2, <2>3
<1>3. Quiet'
  BY <1>1 DEF Kept, Quiet, TypeOK, GuardAlive
<1> QED BY <1>1, <1>2, <1>3 DEF Kept

\* An owner that only reports, or only leaves.
LEMMA LeavingKeeps ==
  ASSUME TypeOK, Kept, NEW r \in Runs,
         \/ EnqueueRefused(r) \/ PollLost(r) \/ Abandon(r) \/ FinalizationRefused(r)
         \/ OwnerExit(r) \/ OwnerCrashes(r)
  PROVE  Kept'
<1>1. /\ \E c \in {"done", "gone"} : client' = [client EXCEPT ![r] = c]
      /\ UNCHANGED <<jobs, stale, guard, kid>>
  BY DEF EnqueueRefused, PollLost, Abandon, FinalizationRefused, OwnerExit, OwnerCrashes
<1>2. \A s \in Runs : Accounted(jobs[s], s, client'[s], guard[s], kid[s])
  BY <1>1, LeavingAccounts DEF Kept, TypeOK
<1>3. Quiet'
  BY <1>1 DEF Kept, Quiet, TypeOK, GuardAlive
<1> QED BY <1>1, <1>2, <1>3 DEF Kept

\* A launched guard relies on nothing before it registers.
LEMMA LaunchGuardKeeps ==
  ASSUME TypeOK, Kept, NEW r \in Runs, LaunchGuard(r)
  PROVE  Kept'
<1>1. Accounted(jobs[r], r, "granted", guard[r], kid[r])
  BY DEF Kept, LaunchGuard
<1>2. Accounted(jobs[r], r, "guarded", "launched", kid[r])
  BY <1>1 DEF Accounted, Courses, Staged, Backed, Holders, Registered
<1>3. \A s \in Runs : Accounted(jobs[s], s, client'[s], guard'[s], kid[s])
  BY <1>2 DEF Kept, LaunchGuard, TypeOK
<1>4. ~stale
  BY DEF Kept, Quiet, LaunchGuard
<1> QED BY <1>3, <1>4 DEF Kept, Quiet, LaunchGuard

\* Registration charges the row to the guard, or turns the guard away.
LEMMA RegisterGuardKeeps ==
  ASSUME Inv, Kept, NEW r \in Runs, RegisterGuard(r)
  PROVE  Kept'
<1> DEFINE registered(t) == [t[r] EXCEPT !.state = "RUNNING", !.phase = "setup",
                                         !.guarded = TRUE]
<1>1. PICK t \in Recovered(Namespace[r]) :
        \/ jobs' = t /\ guard' = [guard EXCEPT ![r] = "gone"]
        \/ /\ t[r].state = "GRANTED" /\ t[r].nonce /\ guard' = [guard EXCEPT ![r] = "registered"]
           /\ jobs' = [t EXCEPT ![r] = registered(t)]
  BY DEF RegisterGuard
<1>2. t \in Tables
  BY RecoveredShrinks DEF Inv, TypeOK, Tables, Orderly
<1>3. \A s \in Runs : Accounted(t[s], s, client[s], guard[s], kid[s])
  BY RecoveredAccounts, ObserverIsThere
<1>4. Accounted(t[r], r, client[r], "launched", kid[r])
  BY <1>3 DEF RegisterGuard
<1>5. Accounted(t[r], r, client[r], "gone", kid[r])
  BY <1>4 DEF Accounted, Courses, Staged, Backed, Registered
<1>6. ASSUME t[r].state = "GRANTED", t[r].nonce
      PROVE  Accounted(registered(t), r, client[r], "registered", kid[r])
  <2>1. t[r] \in Row
    BY <1>2 DEF Tables
  <2>2. /\ registered(t).state = "RUNNING" /\ registered(t).phase = "setup"
        /\ registered(t).guarded /\ registered(t).nonce
    BY <1>6, <2>1 DEF Row
  <2>3. client[r] \notin {"idle", "waiting", "granted", "handed", "proved"} /\ kid[r] = "none"
    BY <1>4 DEF Accounted, Courses
  <2> HIDE DEF registered
  <2> QED
    BY <2>2, <2>3 DEF Accounted, Courses, Staged, Backed, ActiveStates, Registered, Holders
<1> HIDE DEF registered
<1>7. \A s \in Runs : Accounted(jobs'[s], s, client[s], guard'[s], kid[s])
  BY <1>1, <1>2, <1>3, <1>5, <1>6 DEF Inv, TypeOK, Tables
<1> QED BY <1>7 DEF Kept, Quiet, RegisterGuard

\* The guard's steps that leave the ledger alone.
LEMMA GuardKeeps ==
  ASSUME TypeOK, Kept, NEW r \in Runs, ClearToSpawn(r) \/ GuardExit(r) \/ GuardDies(r)
  PROVE  Kept'
<1>1. PICK g \in {"cleared", "gone"}, c \in {client[r], "handed"} :
        /\ guard' = [guard EXCEPT ![r] = g]
        /\ client' = [client EXCEPT ![r] = c]
        /\ g = "cleared" => guard[r] \in {"registered", "ran"}
        /\ c # client[r] => client[r] = "guarded" /\ guard[r] = "drained" /\ g = "gone"
        /\ GuardAlive(r)
        /\ UNCHANGED <<jobs, stale, kid>>
  <2>1. CASE ClearToSpawn(r)
    BY <2>1 DEF ClearToSpawn, TypeOK, GuardAlive
  <2>2. CASE GuardDies(r)
    BY <2>2 DEF GuardDies, TypeOK
  <2>3. CASE GuardExit(r)
    BY <2>3 DEF GuardExit, TypeOK, GuardAlive
  <2> QED BY <2>1, <2>2, <2>3
<1>2. Accounted(jobs[r], r, client[r], guard[r], kid[r])
  BY DEF Kept
<1>3. client[r] \notin {"handed", "proved", "idle", "waiting", "granted"} /\ ~stale
  <2>1. guard[r] \notin {"none", "gone"}
    BY <1>1 DEF GuardAlive
  <2> QED BY <1>1, <1>2, <2>1 DEF Accounted, Courses, Kept, Quiet
<1>4. Accounted(jobs[r], r, c, g, kid[r])
  BY <1>1, <1>2, <1>3 DEF Accounted, Courses, Staged, Backed, Holders, Registered
<1>5. \A s \in Runs : Accounted(jobs[s], s, client'[s], guard'[s], kid[s])
  BY <1>1, <1>4 DEF Kept, TypeOK
<1> QED BY <1>1, <1>3, <1>5 DEF Kept, Quiet

\* Work starts below a registered guard only.
LEMMA SpawnKeeps ==
  ASSUME TypeOK, Kept, NEW r \in Runs, Spawn(r)
  PROVE  Kept'
<1>1. Accounted(jobs[r], r, client[r], "cleared", kid[r])
  BY DEF Kept, Spawn
<1> DEFINE row == [jobs[r] EXCEPT !.seen = FALSE]
<1>2. /\ row.state = jobs[r].state /\ row.phase = jobs[r].phase /\ row.nonce = jobs[r].nonce
      /\ row.guarded = jobs[r].guarded
  BY DEF TypeOK, Row
<1> HIDE DEF row
<1>3. Accounted(row, r, client[r], "ran", "grouped")
  BY <1>1, <1>2 DEF Accounted, Courses, Staged, Backed, Registered, Holders
<1>4. \A s \in Runs : Accounted(jobs'[s], s, client[s], guard'[s], kid'[s])
  BY <1>3 DEF Kept, Spawn, TypeOK, row
<1>5. ~stale
  BY DEF Kept, Quiet, Spawn, GuardAlive
<1> QED BY <1>4, <1>5 DEF Kept, Quiet, Spawn

\* The guard hands its row to the owner, or gives up and exits.
LEMMA MarkDrainingKeeps ==
  ASSUME TypeOK, Kept, NEW r \in Runs, MarkDraining(r)
  PROVE  Kept'
<1> DEFINE row == [jobs[r] EXCEPT !.state = "DRAINING", !.phase = "draining"]
<1>1. \/ jobs' = jobs /\ guard' = [guard EXCEPT ![r] = "gone"]
      \/ /\ jobs' = [jobs EXCEPT ![r] = row] /\ guard' = [guard EXCEPT ![r] = "drained"]
         /\ jobs[r].nonce /\ jobs[r].guarded /\ jobs[r].state = "RUNNING"
  BY DEF MarkDraining, TypeOK
<1>2. Accounted(jobs[r], r, client[r], guard[r], kid[r]) /\ guard[r] \in {"registered", "cleared", "ran"}
  BY DEF Kept, MarkDraining
<1>3. client[r] \notin {"handed", "proved", "idle", "waiting", "granted"}
  BY <1>2 DEF Accounted, Courses
<1>4. Accounted(jobs[r], r, client[r], "gone", kid[r])
  BY <1>2, <1>3 DEF Accounted, Courses, Staged, Backed, Registered
<1>5. ASSUME jobs[r].nonce, jobs[r].guarded, jobs[r].state = "RUNNING"
      PROVE  Accounted(row, r, client[r], "drained", kid[r])
  <2>1. row.state = "DRAINING" /\ row.phase = "draining" /\ row.nonce /\ row.guarded
    BY <1>5 DEF TypeOK, Row
  <2> HIDE DEF row
  <2> QED
    BY <1>2, <1>3, <2>1 DEF Accounted, Courses, Staged, Backed, ActiveStates, Registered, Holders
<1> HIDE DEF row
<1>6. \A s \in Runs : Accounted(jobs'[s], s, client[s], guard'[s], kid[s])
  BY <1>1, <1>4, <1>5 DEF Kept, TypeOK
<1>7. ~stale
  BY <1>2 DEF Kept, Quiet, GuardAlive
<1> QED BY <1>6, <1>7 DEF Kept, Quiet, MarkDraining

\* What quiescence proves: nobody is in the group, and whoever was recorded is
\* gone as well.
LEMMA QuiescenceTells ==
  ASSUME NEW r \in Runs, NEW o \in Sights(r), NEW row \in Row,
         Quiescent(ObserveDescendants(row, r, o), r, o)
  PROVE  /\ ~GroupAlive(r)
         /\ ObserveDescendants(row, r, o).seen => kid[r] = "none"
         /\ row.seen => kid[r] = "none"
<1>1. ~GroupAlive(r) /\ ~EscapedOrUnknown(ObserveDescendants(row, r, o), r, o, TRUE)
  BY DEF Quiescent, GroupSeen
<1>2. ObserveDescendants(row, r, o).seen => kid[r] = "none"
  BY <1>1, SightTells DEF EscapedOrUnknown
<1>3. row.seen /\ kid[r] # "none" => ObserveDescendants(row, r, o).seen
  BY SightTells DEF ObserveDescendants, Row, ProvenGone
<1> QED BY <1>1, <1>2, <1>3

\* The owner proves quiescence, or reports a row it cannot vouch for.
LEMMA BeginFinalizationKeeps ==
  ASSUME TypeOK, Kept, NEW r \in Runs, BeginFinalization(r)
  PROVE  Kept'
<1>1. jobs[r] \in Row /\ jobs[r].guarded /\ jobs[r].nonce /\ jobs[r].state = "DRAINING"
  BY DEF TypeOK, BeginFinalization
<1>2. Accounted(jobs[r], r, "handed", guard[r], kid[r])
  BY DEF Kept, BeginFinalization
<1>3. PICK o \in Sights(r) : \E row, c :
        /\ jobs' = [jobs EXCEPT ![r] = row] /\ client' = [client EXCEPT ![r] = c]
        /\ \/ c = "proved" /\ row = [ObserveDescendants(jobs[r], r, o) EXCEPT
                                       !.state = "FINALIZING", !.phase = "finalization"]
           \/ c = "done" /\ row = Uncertain(jobs[r], "proof")
           \/ c = "done" /\ row = FinalizationFailure(ObserveDescendants(jobs[r], r, o), r, o)
  BY DEF BeginFinalization
<1>4. PICK row, c :
        /\ jobs' = [jobs EXCEPT ![r] = row] /\ client' = [client EXCEPT ![r] = c]
        /\ \/ c = "proved" /\ row = [ObserveDescendants(jobs[r], r, o) EXCEPT
                                       !.state = "FINALIZING", !.phase = "finalization"]
           \/ c = "done" /\ row = Uncertain(jobs[r], "proof")
           \/ c = "done" /\ row = FinalizationFailure(ObserveDescendants(jobs[r], r, o), r, o)
  BY <1>3
<1> DEFINE observed == ObserveDescendants(jobs[r], r, o)
<1>5. /\ observed \in Row /\ observed.guarded /\ observed.nonce
      /\ observed.phase = jobs[r].phase
  BY <1>1, ObservedRow
<1> HIDE DEF observed
<1>6. /\ row.guarded /\ row.nonce
      /\ \/ c = "proved" /\ row.state = "FINALIZING" /\ row.phase = "finalization"
         \/ c = "done" /\ row.state = "UNCERTAIN" /\ row.phase = jobs[r].phase
  BY <1>1, <1>4, <1>5 DEF observed, Uncertain, FinalizationFailure, Row
<1>7. Accounted(row, r, c, guard[r], kid[r])
  BY <1>1, <1>2, <1>6 DEF Accounted, Courses, Staged, Backed, ActiveStates, Holders, Registered
<1>8. \A s \in Runs : Accounted(jobs'[s], s, client'[s], guard[s], kid[s])
  BY <1>4, <1>7 DEF Kept, TypeOK
<1> QED BY <1>8 DEF Kept, Quiet, BeginFinalization

\* The row is released over a quiescent run only.
LEMMA FinishKeeps ==
  ASSUME TypeOK, Kept, NEW r \in Runs, Finish(r)
  PROVE  Kept'
<1>1. jobs[r] \in Row /\ jobs[r].guarded /\ jobs[r].nonce /\ jobs[r].state \in ActiveStates
  BY DEF TypeOK, Finish
<1>2. Accounted(jobs[r], r, "proved", guard[r], kid[r])
  BY DEF Kept, Finish
<1>3. PICK o \in Sights(r) : \E row, u :
        /\ u = [jobs EXCEPT ![r] = row]
        /\ \/ /\ jobs' = PruneTerminal(u) /\ Quiescent(ObserveDescendants(jobs[r], r, o), r, o)
              /\ row = [Close(ObserveDescendants(jobs[r], r, o), "RELEASED", "none")
                          EXCEPT !.final = "committed"]
           \/ /\ jobs' = u
              /\ row = FinalizationFailure(ObserveDescendants(jobs[r], r, o), r, o)
  BY DEF Finish
<1>4. PICK row, u :
        /\ u = [jobs EXCEPT ![r] = row]
        /\ \/ /\ jobs' = PruneTerminal(u) /\ Quiescent(ObserveDescendants(jobs[r], r, o), r, o)
              /\ row = [Close(ObserveDescendants(jobs[r], r, o), "RELEASED", "none")
                          EXCEPT !.final = "committed"]
           \/ /\ jobs' = u
              /\ row = FinalizationFailure(ObserveDescendants(jobs[r], r, o), r, o)
  BY <1>3
<1> DEFINE observed == ObserveDescendants(jobs[r], r, o)
<1>5. /\ observed \in Row /\ observed.guarded /\ observed.phase = jobs[r].phase
  BY <1>1, ObservedRow
<1> HIDE DEF observed
<1>6. Accounted(row, r, "done", guard[r], kid[r])
  <2>1. CASE row = FinalizationFailure(observed, r, o)
    <3>1. row.state = "UNCERTAIN" /\ row.guarded /\ row.phase = jobs[r].phase
      BY <1>5, <2>1 DEF Uncertain, FinalizationFailure, Row
    <3> QED
      BY <1>1, <1>2, <3>1 DEF Accounted, Courses, Staged, Backed, ActiveStates, Holders, Registered
  <2>2. CASE /\ Quiescent(observed, r, o)
             /\ row = [Close(observed, "RELEASED", "none") EXCEPT !.final = "committed"]
    <3>1. row.state = "RELEASED" /\ row.phase = "complete" /\ row.seen = observed.seen
      BY <1>5, <2>2 DEF Close, Row
    <3>2. ~GroupAlive(r) /\ (observed.seen => kid[r] = "none")
      BY <1>1, <2>2, QuiescenceTells DEF observed
    <3>3. guard[r] \notin Registered /\ kid[r] # "grouped"
      BY <3>2 DEF GroupAlive, GuardAlive, Registered
    <3>4. Courses("done", guard[r], kid[r]) /\ "done" \notin Holders
      BY <1>2 DEF Accounted, Courses, Holders
    <3>5. Resigned(row)
      BY <3>1 DEF Resigned, ActiveStates
    <3> QED BY <3>1, <3>2, <3>3, <3>4, <3>5, ResignedAccounts
  <2> QED BY <1>4, <2>1, <2>2 DEF observed
<1>7. \A s \in Runs : Accounted(u[s], s, client'[s], guard[s], kid[s])
  BY <1>4, <1>6 DEF Kept, Finish, TypeOK
<1>8. \A s \in Runs : Accounted(jobs'[s], s, client'[s], guard[s], kid[s])
  BY <1>4, <1>7, PruneAccounts
<1> QED BY <1>8 DEF Kept, Quiet, Finish

\* The operator closes only what nobody relies on any more, unless it forces
\* its way while the lease lock itself cannot be read.
LEMMA EvidenceTells ==
  ASSUME NEW row, NEW r \in Runs, NEW ns, NEW force \in BOOLEAN, NEW o \in Sights(r),
         ReleaseEvidence(row, r, ns, o, force),
         force => "force" \in Events,
         Alone(r) => ns = Namespace[r],
         Accounted(row, r, client[r], guard[r], kid[r])
  PROVE  \/ BlindForce(Events)
         \/ /\ client[r] \notin Holders /\ guard[r] \notin Registered
            /\ Watched(r) => kid[r] # "grouped"
<1> SUFFICES ASSUME ~BlindForce(Events)
             PROVE  /\ client[r] \notin Holders /\ guard[r] \notin Registered
                    /\ Watched(r) => kid[r] # "grouped"
  OBVIOUS
<1>1. /\ client[r] \in Holders => OwnerAlive(r)
      /\ guard[r] \in Registered => GuardAlive(r)
  BY DEF OwnerAlive, GuardAlive, Holders, Registered
<1>2. LockSeen(r, o) = "ACQUIRABLE" => ~OwnerAlive(r) /\ ~GuardAlive(r)
  BY DEF LockSeen, LeaseHeld
<1>3. CASE force
  <2>1. "force" \in Events /\ "blur" \notin Events
    BY <1>3 DEF BlindForce
  <2>2. o.lease = "exact"
    BY <2>1 DEF Sights
  <2>3. LockSeen(r, o) = "ACQUIRABLE"
    BY <2>2 DEF ReleaseEvidence, LockSeen
  <2> QED BY <1>1, <1>2, <2>1, <2>3 DEF Watched
<1>4. CASE ~force /\ Namespace[r] # ns
  BY <1>1, <1>2, <1>4 DEF ReleaseEvidence, Watched
<1>5. CASE ~force /\ Namespace[r] = ns
  <2>1. /\ ProvenGone(o.owner) \/ LockSeen(r, o) = "ACQUIRABLE"
        /\ row.guarded => /\ ProvenGone(o.guard) \/ LockSeen(r, o) = "ACQUIRABLE"
                          /\ GroupSeen(r, o) = "absent"
    BY <1>5 DEF ReleaseEvidence
  <2>2. ~OwnerAlive(r) /\ (row.guarded => ~GuardAlive(r) /\ ~GroupAlive(r))
    BY <1>2, <2>1, SightTells DEF GroupSeen
  <2>3. Backed(row, r, client[r], guard[r], kid[r])
    BY DEF Accounted
  <2> QED BY <1>1, <2>2, <2>3 DEF Backed, GroupAlive
<1> QED BY <1>3, <1>4, <1>5

\* The operator's release, forced or on evidence.
LEMMA ReleaseRunKeeps ==
  ASSUME Inv, Kept, NEW r \in Runs, NEW q \in Runs, NEW force \in BOOLEAN,
         force => "force" \in Events, ReleaseRun(r, Namespace[q], force)
  PROVE  Kept'
<1> DEFINE released(row) ==
      [Close(row, IF row.guarded THEN "RELEASED" ELSE "CANCELLED", "operator")
         EXCEPT !.nonce = FALSE, !.seen = FALSE, !.doubt = FALSE, !.final = "incomplete"]
<1>1. PICK t \in Recovered(Namespace[q]) : \E o \in Sights(r) :
        \/ jobs' = t
        \/ /\ ReleaseEvidence(t[r], r, Namespace[q], o, force)
           /\ jobs' = [t EXCEPT ![r] = released(t[r])]
  BY DEF ReleaseRun
<1>2. t \in Tables
  BY RecoveredShrinks DEF Inv, TypeOK, Tables, Orderly
<1>3. \A s \in Runs : Accounted(t[s], s, client[s], guard[s], kid[s])
  BY RecoveredAccounts, ObserverIsThere
<1>4. ASSUME NEW o \in Sights(r), ReleaseEvidence(t[r], r, Namespace[q], o, force)
      PROVE  Accounted(released(t[r]), r, client[r], guard[r], kid[r])
  <2>1. /\ released(t[r]).state \in TerminalStates /\ released(t[r]).phase = "complete"
        /\ released(t[r]).seen = FALSE
    BY <1>2 DEF Close, Tables, Row, TerminalStates
  <2>2. Resigned(released(t[r]))
    BY <2>1 DEF Resigned, TerminalStates, ActiveStates
  <2>3. \/ BlindForce(Events)
        \/ /\ client[r] \notin Holders /\ guard[r] \notin Registered
           /\ Watched(r) => kid[r] # "grouped"
    BY <1>3, <1>4, EvidenceTells, ObserverIsThere
  <2>4. Courses(client[r], guard[r], kid[r])
    BY DEF Kept, Accounted
  <2> HIDE DEF released
  <2> QED BY <2>1, <2>2, <2>3, <2>4, ResignedAccounts
<1> HIDE DEF released
<1>5. \A s \in Runs : Accounted(jobs'[s], s, client[s], guard[s], kid[s])
  BY <1>1, <1>2, <1>3, <1>4 DEF Tables
<1> QED BY <1>5 DEF Kept, Quiet, ReleaseRun

\* Uninstall forgets a checkout without live rows.
LEMMA ForgetCheckoutKeeps ==
  ASSUME Inv, Kept, NEW c, NEW q \in Runs, ForgetCheckout(c, Namespace[q])
  PROVE  Kept'
<1>1. PICK t \in Recovered(Namespace[q]) :
        /\ \A r \in Live(t) : Checkout[r] # c
        /\ jobs' = [r \in Runs |-> IF Checkout[r] = c THEN AbsentRow ELSE t[r]]
  BY DEF ForgetCheckout
<1>2. \A s \in Runs : Accounted(t[s], s, client[s], guard[s], kid[s])
  BY RecoveredAccounts, ObserverIsThere
<1>3. \A s \in Runs : Checkout[s] = c => t[s].state \notin ActiveStates
  BY <1>1 DEF Live, Active
<1>4. \A s \in Runs : Accounted(jobs'[s], s, client[s], guard[s], kid[s])
  BY <1>1, <1>2, <1>3, ForgottenAccounts
<1> QED BY <1>4 DEF Kept, Quiet, ForgetCheckout

\* Work below a guard ends, or escapes its group and then its tree.
LEMMA KidKeeps ==
  ASSUME TypeOK, Kept, NEW r \in Runs, KidExits(r) \/ KidEscapes(r)
  PROVE  Kept'
<1>1. PICK k \in {"none", "escaped", "daemon"} :
        /\ kid' = [kid EXCEPT ![r] = k]
        /\ kid[r] # "none" /\ (k # "none" => kid[r] \in {"grouped", "escaped"})
        /\ UNCHANGED <<jobs, stale, client, guard>>
  BY DEF KidExits, KidEscapes, TypeOK
<1>2. Accounted(jobs[r], r, client[r], guard[r], k)
  BY <1>1 DEF Kept, Accounted, Courses, Backed
<1>3. \A s \in Runs : Accounted(jobs[s], s, client[s], guard[s], kid'[s])
  BY <1>1, <1>2 DEF Kept, TypeOK
<1>4. ~stale
  BY <1>1 DEF Kept, Quiet
<1> QED BY <1>1, <1>3, <1>4 DEF Kept, Quiet

\* A reboot ends every process, and marks the ledger as of an older boot.
LEMMA RebootKeeps ==
  ASSUME TypeOK, Kept, Reboot
  PROVE  Kept'
<1>1. ASSUME NEW s \in Runs
      PROVE  Accounted(jobs[s], s, client'[s], guard'[s], "none")
  <2>1. Accounted(jobs[s], s, client[s], guard[s], kid[s])
    BY DEF Kept
  <2>2. /\ client'[s] = IF client[s] = "idle" THEN "idle" ELSE "gone"
        /\ guard'[s] = IF GuardAlive(s) THEN "gone" ELSE guard[s]
    BY DEF Reboot
  <2>3. guard'[s] \notin Registered
    BY <2>2 DEF GuardAlive, Registered
  <2> QED BY <2>1, <2>2, <2>3 DEF Accounted, Courses, Staged, Backed, Holders, GuardAlive
<1>2. Quiet'
  BY DEF Reboot, Quiet, GuardAlive
<1> QED BY <1>1, <1>2 DEF Kept, Reboot

\* Nobody has arrived yet.
LEMMA KeptInit == Init => Kept
<1>1. Resigned(AbsentRow) /\ AbsentRow.seen = FALSE
  BY DEF Resigned, AbsentRow, ActiveStates
<1>2. Courses("idle", "none", "none") /\ "idle" \notin Holders /\ "none" \notin Registered
  BY DEF Courses, Holders, Registered
<1> QED BY <1>1, <1>2, ResignedAccounts DEF Init, Kept, Quiet

\* Every step leaves every row accounting for its processes.
LEMMA KeptStep == Inv /\ Kept /\ [Next]_vars => Kept'
<1> SUFFICES ASSUME Inv, Kept, [Next]_vars PROVE Kept'
  OBVIOUS
<1>0. TypeOK
  BY DEF Inv
<1>1. ASSUME NEW r \in Runs, Owner(r) PROVE Kept'
  BY <1>0, <1>1, EnqueueKeeps, PollKeeps, CancelKeeps, LeavingKeeps, LaunchGuardKeeps,
     BeginFinalizationKeeps, FinishKeeps DEF Owner
<1>2. ASSUME NEW r \in Runs, Guard(r) PROVE Kept'
  BY <1>0, <1>2, RegisterGuardKeeps, GuardKeeps, SpawnKeeps, MarkDrainingKeeps DEF Guard
<1>3. ASSUME NEW r \in Runs, Environment(r) PROVE Kept'
  <2>1. CASE KidExits(r) \/ KidEscapes(r)
    BY <1>0, <2>1, KidKeeps
  <2>2. CASE OwnerCrashes(r)
    BY <1>0, <2>2, LeavingKeeps
  <2>3. CASE TimePasses(r)
    BY <2>3 DEF TimePasses, Kept, Quiet, GuardAlive
  <2> QED BY <1>3, <2>1, <2>2, <2>3 DEF Environment
<1>4. CASE Operator
  <2>1. PICK q \in Runs :
          \/ \E r \in Runs : ReleaseRun(r, Namespace[q], FALSE)
          \/ "force" \in Events /\ \E r \in Runs : ReleaseRun(r, Namespace[q], TRUE)
          \/ \E r \in Runs : ForgetCheckout(Checkout[r], Namespace[q])
    BY <1>4 DEF Operator
  <2> QED BY <2>1, ReleaseRunKeeps, ForgetCheckoutKeeps
<1>5. CASE Reboot
  BY <1>0, <1>5, RebootKeeps
<1>6. CASE UNCHANGED vars
  BY <1>6 DEF vars, Kept, Quiet, GuardAlive
<1> QED BY <1>1, <1>2, <1>3, <1>4, <1>5, <1>6 DEF Next

\* Both invariants together are inductive.
LEMMA KeepsInvariance == Spec => [](Inv /\ Kept)
  BY InvInit, InvStep, KeptInit, KeptStep, PTL DEF Spec

-----------------------------------------------------------------------------
\* Capacity stays charged while the work it was granted for lives, whatever died,
\* left its group or could not be read.  (_recovery_view, begin_finalization,
\* finish, release_run)
THEOREM WorkStaysCharged == Spec => []WorkIsCharged
<1>1. Kept => WorkIsCharged
  BY DEF Kept, Accounted, Backed, WorkIsCharged, Working, Watched, Registered, Active
<1> QED BY <1>1, KeepsInvariance, PTL

\* Nobody takes a grant from a live owner, and between the handoff and the
\* finalization nobody but that owner moves its row.
THEOREM GrantsStay == Spec => []OwnerKeepsGrant
<1>1. Kept => OwnerKeepsGrant
  BY DEF Kept, Accounted, Staged, Backed, OwnerKeepsGrant, Holders, Active
<1> QED BY <1>1, KeepsInvariance, PTL

\* Runs that exclude each other never have live work at the same time: the rows
\* that the work stands on would both be active.  (_resources_available)
THEOREM ConflictsNeverWork == Spec => []NoConflictingWork
<1>1. Inv /\ Kept => NoConflictingWork
  BY DEF Inv, Orderly, Kept, Accounted, Backed, NoConflictingWork, Working, Watched,
         Registered, Active
<1> QED BY <1>1, KeepsInvariance, PTL

-----------------------------------------------------------------------------
(***************************************************************************)
(* What a step may never do to a row.                                      *)
(***************************************************************************)
Handed == {"draining", "finalization"}

\* A handed-off row is not run again, and an outcome is only committed by the
\* owner that finishes.
Onward(row, next) ==
  /\ row.phase \in Handed => next.state # "RUNNING"
  /\ next.final = "committed" => row.final = "committed"

\* No pass moves a handed-off row back, and none commits an outcome.
LEMMA RecoveredOnward ==
  ASSUME Inv, Kept, NEW ns, NEW u \in Recovered(ns), NEW r \in Runs
  PROVE  /\ jobs[r].phase \in Handed => u[r].state \notin {"QUEUED", "GRANTED", "RUNNING"}
         /\ u[r].final = "committed" => jobs[r].final = "committed"
<1> DEFINE t == RecoverBoot(jobs)
<1>1. t \in Tables /\ Unregistered(t)
  BY RecoverBootShrinks DEF Inv, TypeOK, Orderly, Tables, Shrunk
<1>2. jobs[r].phase \in Handed => jobs[r].state \in {"DRAINING", "FINALIZING", "UNCERTAIN"}
  BY DEF Kept, Accounted, Staged, Handed
<1>3. /\ jobs[r].phase \in Handed =>
           /\ t[r].state \notin {"QUEUED", "GRANTED", "RUNNING"}
           /\ t[r].state \in ActiveStates => t[r].phase \in Handed
      /\ t[r].final = "committed" => jobs[r].final = "committed"
  <2>1. CASE ~stale
    BY <1>2, <2>1 DEF RecoverBoot
  <2>2. CASE stale
    BY <1>2, <2>2 DEF RecoverBoot, Live, Active, Inv, TypeOK, Row, ActiveStates
  <2> QED BY <2>1, <2>2
<1> HIDE DEF t
<1>4. u[r] \in Views(t, r, ns)
  BY DEF Recovered, Reconciled, t
<1>5. CASE r \in Live(t)
  <2>1. PICK o \in Sights(r) : u[r] = RecoveryView(t[r], r, ns, o)
    BY <1>4, <1>5 DEF Views
  <2>2. /\ t[r] \in Row /\ t[r].state \in ActiveStates \union {"QUEUED"}
        /\ t[r].state = "QUEUED" => ~t[r].guarded
    BY <1>1, <1>5 DEF Tables, Live, Active, Queued, Unregistered
  <2>3. Open(t[r], u[r], r) \/ Closed(t[r], u[r], r, ns)
    BY <2>1, <2>2, PassTells
  <2> QED BY <1>3, <2>2, <2>3 DEF Open, Closed, TerminalStates, Handed
<1>6. CASE r \notin Live(t)
  BY <1>3, <1>4, <1>6 DEF Views
<1> QED BY <1>5, <1>6

\* A forgotten row neither runs nor commits.
LEMMA ForgettingIsOnward ==
  ASSUME NEW row, NEW next, next = AbsentRow
  PROVE  Onward(row, next)
  BY DEF Onward, AbsentRow

\* The operations that recover first and then write one row.
LEMMA RecoveryIsOnward ==
  ASSUME Inv, Kept, NEW r \in Runs,
         \/ Enqueue(r) \/ Poll(r) \/ RegisterGuard(r)
         \/ \E ns, force : ReleaseRun(r, ns, force)
         \/ \E ns : ForgetCheckout(Checkout[r], ns),
         NEW s \in Runs
  PROVE  Onward(jobs[s], jobs'[s])
<1>0. ASSUME NEW ns, NEW t \in Recovered(ns)
      PROVE  /\ t \in Tables
             /\ Onward(jobs[s], t[s])
             /\ jobs[s].phase \in Handed => t[s].state \notin {"QUEUED", "GRANTED", "RUNNING"}
  BY <1>0, RecoveredShrinks, RecoveredOnward DEF Onward, Inv, TypeOK, Tables, Orderly
<1>1. CASE Enqueue(r)
  <2>1. PICK t \in Recovered(Namespace[r]) : \E row :
          jobs' = PruneTerminal([t EXCEPT ![r] = row]) /\ \E n, lim : row = NewRow(n, r, lim)
    BY <1>1 DEF Enqueue
  <2>2. PICK row :
          jobs' = PruneTerminal([t EXCEPT ![r] = row]) /\ \E n, lim : row = NewRow(n, r, lim)
    BY <2>1
  <2>3. row.state = "QUEUED" /\ row.final = "none"
    BY <2>2 DEF NewRow, AbsentRow
  <2>4. t \in Tables
    BY <1>0
  <2>5. jobs'[s] \in {t[s], row, AbsentRow}
    BY <2>2, <2>4 DEF PruneTerminal, Tables
  <2> QED BY <1>0, <2>3, <2>5, ForgettingIsOnward DEF Onward
<1>2. CASE Poll(r)
  <2>1. PICK t \in Recovered(Namespace[r]) :
          \E lim : \E G \in SUBSET Queued(t) : jobs' = GrantRows(t, lim, G)
    BY <1>2 DEF Poll
  <2>2. t[s] \in Row
    BY <1>0 DEF Tables
  <2>3. \/ jobs'[s] = t[s]
        \/ /\ t[s].state = "QUEUED" /\ jobs'[s].state = "GRANTED"
           /\ jobs'[s].final = t[s].final
    BY <2>1, <2>2 DEF GrantRows, Queued, Row
  <2> QED BY <1>0, <2>3 DEF Onward
<1>3. CASE RegisterGuard(r)
  <2>1. PICK t \in Recovered(Namespace[r]) :
          \/ jobs' = t
          \/ /\ t[r].state = "GRANTED"
             /\ jobs' = [t EXCEPT ![r] = [t[r] EXCEPT !.state = "RUNNING", !.phase = "setup",
                                                      !.guarded = TRUE]]
    BY <1>3 DEF RegisterGuard
  <2>2. t \in Tables
    BY <1>0
  <2> DEFINE row == [t[r] EXCEPT !.state = "RUNNING", !.phase = "setup", !.guarded = TRUE]
  <2>4. t[r] \in Row /\ t = [q \in Runs |-> t[q]]
    BY <2>2 DEF Tables
  <2>5. row.final = t[r].final
    BY <2>4 DEF Row
  <2>6. jobs' = t \/ (t[r].state = "GRANTED" /\ jobs' = [t EXCEPT ![r] = row])
    BY <2>1
  <2> HIDE DEF row
  <2>3. \/ jobs'[s] = t[s]
        \/ t[s].state = "GRANTED" /\ jobs'[s].final = t[s].final
    BY <2>4, <2>5, <2>6
  <2> QED BY <1>0, <2>3 DEF Onward
<1>4. CASE \E ns, force : ReleaseRun(r, ns, force)
  <2>0. PICK ns, force : ReleaseRun(r, ns, force)
    BY <1>4
  <2>1. PICK t \in Recovered(ns) :
          \/ jobs' = t
          \/ jobs' = [t EXCEPT ![r] =
                [Close(t[r], IF t[r].guarded THEN "RELEASED" ELSE "CANCELLED", "operator")
                   EXCEPT !.nonce = FALSE, !.seen = FALSE, !.doubt = FALSE, !.final = "incomplete"]]
    BY <2>0 DEF ReleaseRun
  <2>2. t \in Tables
    BY <1>0
  <2> DEFINE row == [Close(t[r], IF t[r].guarded THEN "RELEASED" ELSE "CANCELLED", "operator")
                       EXCEPT !.nonce = FALSE, !.seen = FALSE, !.doubt = FALSE,
                              !.final = "incomplete"]
  <2>4. t[r] \in Row /\ t = [q \in Runs |-> t[q]]
    BY <2>2 DEF Tables
  <2>5. row.state \in TerminalStates /\ row.final = "incomplete"
    BY <2>4 DEF Row, Close, TerminalStates
  <2>6. jobs' = t \/ jobs' = [t EXCEPT ![r] = row]
    BY <2>1
  <2> HIDE DEF row
  <2>3. \/ jobs'[s] = t[s]
        \/ jobs'[s].state \in TerminalStates /\ jobs'[s].final = "incomplete"
    BY <2>4, <2>5, <2>6
  <2> QED BY <1>0, <2>3 DEF Onward, TerminalStates
<1>5. CASE \E ns : ForgetCheckout(Checkout[r], ns)
  <2>0. PICK ns : ForgetCheckout(Checkout[r], ns)
    BY <1>5
  <2>1. PICK t \in Recovered(ns) : jobs'[s] \in {t[s], AbsentRow}
    BY <2>0 DEF ForgetCheckout
  <2> QED BY <1>0, <2>1, ForgettingIsOnward
<1> QED BY <1>1, <1>2, <1>3, <1>4, <1>5

\* The operations on the row of the caller alone.
LEMMA OwnRowIsOnward ==
  ASSUME TypeOK, Kept, NEW r \in Runs,
         \/ CancelPending(r) \/ GuardLost(r) \/ Spawn(r) \/ MarkDraining(r) \/ BeginFinalization(r),
         NEW s \in Runs
  PROVE  Onward(jobs[s], jobs'[s])
<1>1. jobs[s].phase \in Handed => jobs[s].state \in {"DRAINING", "FINALIZING", "UNCERTAIN"}
  BY DEF Kept, Accounted, Staged, Handed
<1>2. Onward(jobs[s], jobs[s])
  BY <1>1 DEF Onward
<1>3. jobs[s] \in Row /\ jobs = [q \in Runs |-> jobs[q]]
  BY DEF TypeOK
<1>4. CASE CancelPending(r) \/ GuardLost(r)
  <2>1. \/ jobs'[s] = jobs[s]
        \/ jobs'[s] = [Close(jobs[s], "CANCELLED", jobs[s].reason) EXCEPT !.nonce = FALSE]
    BY <1>3, <1>4 DEF CancelPending, GuardLost, CancelPendingRow
  <2> QED BY <1>2, <1>3, <2>1 DEF Onward, Close, Row
<1>5. CASE Spawn(r)
  <2>1. jobs'[s].state = jobs[s].state /\ jobs'[s].final = jobs[s].final
    BY <1>3, <1>5 DEF Spawn, Row
  <2> QED BY <1>1, <2>1 DEF Onward
<1>6. CASE MarkDraining(r)
  <2>1. \/ jobs'[s] = jobs[s]
        \/ jobs'[s].state = "DRAINING" /\ jobs'[s].final = jobs[s].final
    BY <1>3, <1>6 DEF MarkDraining, Row
  <2> QED BY <1>2, <2>1 DEF Onward
<1>7. CASE BeginFinalization(r)
  <2>1. PICK o \in Sights(r) : \E row :
          /\ jobs' = [jobs EXCEPT ![r] = row]
          /\ \/ row = [ObserveDescendants(jobs[r], r, o) EXCEPT
                         !.state = "FINALIZING", !.phase = "finalization"]
             \/ row = Uncertain(jobs[r], "proof")
             \/ row = FinalizationFailure(ObserveDescendants(jobs[r], r, o), r, o)
    BY <1>7 DEF BeginFinalization
  <2>2. jobs[r] \in Row /\ jobs[r].guarded
    BY <1>7 DEF TypeOK, BeginFinalization
  <2>3. /\ ObserveDescendants(jobs[r], r, o) \in Row
        /\ ObserveDescendants(jobs[r], r, o).final = jobs[r].final
    BY <2>2, ObservedRow
  <2>4. PICK row :
          /\ jobs' = [jobs EXCEPT ![r] = row]
          /\ \/ row = [ObserveDescendants(jobs[r], r, o) EXCEPT
                         !.state = "FINALIZING", !.phase = "finalization"]
             \/ row = Uncertain(jobs[r], "proof")
             \/ row = FinalizationFailure(ObserveDescendants(jobs[r], r, o), r, o)
    BY <2>1
  <2>5. row.state \in {"FINALIZING", "UNCERTAIN"} /\ row.final = jobs[r].final
    BY <2>2, <2>3, <2>4 DEF Uncertain, FinalizationFailure, Row
  <2>6. jobs'[s] = jobs[s] \/ (s = r /\ jobs'[s] = row)
    BY <1>3, <2>4
  <2> QED BY <1>2, <2>5, <2>6 DEF Onward
<1> QED BY <1>4, <1>5, <1>6, <1>7

\* Finish commits the row of the owner that finishes, if it is quiescent.
LEMMA FinishIsOnward ==
  ASSUME TypeOK, Kept, NEW r \in Runs, Finish(r), NEW s \in Runs
  PROVE  /\ jobs[s].phase \in Handed => jobs'[s].state # "RUNNING"
         /\ jobs'[s].final = "committed" /\ jobs[s].final # "committed" =>
              /\ jobs[s].phase = "finalization"
              /\ ~GroupAlive(s)
              /\ jobs[s].seen => kid[s] = "none"
<1>1. jobs[s].phase \in Handed => jobs[s].state \in {"DRAINING", "FINALIZING", "UNCERTAIN"}
  BY DEF Kept, Accounted, Staged, Handed
<1>2. jobs[r] \in Row /\ jobs[r].guarded /\ jobs = [q \in Runs |-> jobs[q]]
  BY DEF TypeOK, Finish
<1>3. jobs[r].phase = "finalization"
  BY DEF Kept, Accounted, Staged, Finish
<1>9. PICK o \in Sights(r) : \E row, u :
        /\ u = [jobs EXCEPT ![r] = row]
        /\ \/ /\ jobs' = PruneTerminal(u) /\ Quiescent(ObserveDescendants(jobs[r], r, o), r, o)
              /\ row = [Close(ObserveDescendants(jobs[r], r, o), "RELEASED", "none")
                          EXCEPT !.final = "committed"]
           \/ /\ jobs' = u
              /\ row = FinalizationFailure(ObserveDescendants(jobs[r], r, o), r, o)
  BY DEF Finish
<1>4. PICK row, u :
        /\ u = [jobs EXCEPT ![r] = row]
        /\ \/ /\ jobs' = PruneTerminal(u) /\ Quiescent(ObserveDescendants(jobs[r], r, o), r, o)
              /\ row = [Close(ObserveDescendants(jobs[r], r, o), "RELEASED", "none")
                          EXCEPT !.final = "committed"]
           \/ /\ jobs' = u
              /\ row = FinalizationFailure(ObserveDescendants(jobs[r], r, o), r, o)
  BY <1>9
<1>5. /\ ObserveDescendants(jobs[r], r, o) \in Row
      /\ ObserveDescendants(jobs[r], r, o).final = jobs[r].final
  BY <1>2, ObservedRow
<1>10. \/ row.state = "UNCERTAIN" /\ row.final = jobs[r].final
       \/ /\ row.state = "RELEASED"
          /\ Quiescent(ObserveDescendants(jobs[r], r, o), r, o)
  BY <1>4, <1>5 DEF Uncertain, FinalizationFailure, Close, Row
<1>11. jobs'[s] \in {jobs[s], AbsentRow} \/ (s = r /\ jobs'[s] = row)
  BY <1>2, <1>4 DEF PruneTerminal
<1>6. \/ jobs'[s] \in {jobs[s], AbsentRow}
      \/ s = r /\ jobs'[s].state = "UNCERTAIN" /\ jobs'[s].final = jobs[r].final
      \/ /\ s = r /\ jobs'[s].state = "RELEASED"
         /\ Quiescent(ObserveDescendants(jobs[r], r, o), r, o)
  BY <1>10, <1>11
<1>7. Quiescent(ObserveDescendants(jobs[r], r, o), r, o) =>
        ~GroupAlive(r) /\ (jobs[r].seen => kid[r] = "none")
  BY <1>2, QuiescenceTells
<1>8. AbsentRow.state # "RUNNING" /\ AbsentRow.final # "committed"
  BY DEF AbsentRow
<1> QED BY <1>1, <1>3, <1>6, <1>7, <1>8

\* Every step on every row.
LEMMA EveryStepOnward ==
  ASSUME Inv, Kept, [Next]_vars, NEW s \in Runs
  PROVE  /\ jobs[s].phase \in Handed => jobs'[s].state # "RUNNING"
         /\ jobs'[s].final = "committed" /\ jobs[s].final # "committed" =>
              /\ jobs[s].phase = "finalization"
              /\ ~GroupAlive(s)
              /\ jobs[s].seen => kid[s] = "none"
<1>0. TypeOK
  BY DEF Inv
<1>1. ASSUME NEW r \in Runs, Finish(r)
      PROVE  /\ jobs[s].phase \in Handed => jobs'[s].state # "RUNNING"
             /\ jobs'[s].final = "committed" /\ jobs[s].final # "committed" =>
                  /\ jobs[s].phase = "finalization"
                  /\ ~GroupAlive(s)
                  /\ jobs[s].seen => kid[s] = "none"
  BY <1>0, <1>1, FinishIsOnward
<1>2. ASSUME NEW r \in Runs,
             \/ CancelPending(r) \/ GuardLost(r) \/ Spawn(r) \/ MarkDraining(r)
             \/ BeginFinalization(r)
      PROVE  Onward(jobs[s], jobs'[s])
  BY <1>0, <1>2, OwnRowIsOnward
<1>3. ASSUME NEW r \in Runs, Enqueue(r) \/ Poll(r) \/ RegisterGuard(r)
      PROVE  Onward(jobs[s], jobs'[s])
  BY <1>3, RecoveryIsOnward
<1>4. ASSUME Operator
      PROVE  Onward(jobs[s], jobs'[s])
  BY <1>4, RecoveryIsOnward DEF Operator
<1>5. jobs' = jobs => Onward(jobs[s], jobs'[s])
  BY DEF Onward, Kept, Accounted, Staged, Handed
<1>6. ASSUME NEW r \in Runs, Environment(r) \/ ClearToSpawn(r) \/ GuardExit(r) \/ GuardDies(r)
      PROVE  jobs' = jobs
  BY <1>6 DEF Environment, KidExits, KidEscapes, OwnerCrashes, TimePasses, ClearToSpawn,
              GuardExit, GuardDies
<1>7. ASSUME NEW r \in Runs,
             \/ EnqueueRefused(r) \/ PollLost(r) \/ Abandon(r) \/ LaunchGuard(r)
             \/ FinalizationRefused(r) \/ OwnerExit(r)
      PROVE  jobs' = jobs
  BY <1>7 DEF EnqueueRefused, PollLost, Abandon, LaunchGuard, FinalizationRefused, OwnerExit
<1>8. Reboot \/ UNCHANGED vars => jobs' = jobs
  BY DEF Reboot, vars
<1> QED
  BY <1>1, <1>2, <1>3, <1>4, <1>5, <1>6, <1>7, <1>8 DEF Next, Owner, Guard, Onward

\* A doubt heals back to RUNNING only before the handoff: a row that was draining
\* or finalizing never runs again.  (the heal in _recovery_view)
THEOREM HandoffIsFinal == Spec => HandoffNeverUndone
<1>1. Inv /\ Kept /\ [Next]_vars =>
        [\A r \in Runs : jobs[r].phase \in {"draining", "finalization"} =>
                           jobs'[r].state # "RUNNING"]_vars
  BY EveryStepOnward DEF Handed
<1> QED BY <1>1, KeepsInvariance, PTL DEF Spec, HandoffNeverUndone

\* An outcome is committed only for a run that was handed off and is quiescent:
\* guard reaped, group empty, no recorded descendant alive.  (finish)
THEOREM CommitsAreQuiescent == Spec => CommittedIsQuiescent
<1>1. Inv /\ Kept /\ [Next]_vars =>
        [\A r \in Runs :
           jobs'[r].final = "committed" /\ jobs[r].final # "committed" =>
             /\ jobs[r].phase = "finalization"
             /\ ~GroupAlive(r)
             /\ jobs[r].seen => kid[r] = "none"]_vars
  BY EveryStepOnward
<1> QED BY <1>1, KeepsInvariance, PTL DEF Spec, CommittedIsQuiescent

\* Nobody joins the line but by enqueueing.
LEMMA OnlyEnqueueQueues ==
  ASSUME Inv, [Next]_vars, NEW r \in Queued(jobs') \ Queued(jobs)
  PROVE  r \in Runs /\ Enqueue(r)
<1>1. CASE Removes
  BY <1>1 DEF Removes, Shrunk
<1>2. CASE Grants
  <2>1. PICK t \in Tables, lim \in Limits : \E G \in SUBSET Queued(t) :
          Shrunk(jobs, t) /\ jobs' = GrantRows(t, lim, G)
    BY <1>2 DEF Grants
  <2>2. Queued(jobs') \subseteq Queued(t)
    BY <2>1, GrantRowsStates
  <2> QED BY <2>1, <2>2 DEF Shrunk
<1>3. CASE Appends
  <2>1. PICK q \in Runs, t \in Tables :
          Enqueue(q) /\ Shrunk(jobs, t) /\ Queued(jobs') = Queued(t) \union {q}
    BY <1>3 DEF Appends
  <2> QED BY <2>1 DEF Shrunk
<1> QED BY <1>1, <1>2, <1>3, EveryStep

\* Work of a charged run finds its parent in the table it recovered.
LEMMA EnqueueIsNotNested ==
  ASSUME Inv, Kept, "force" \notin Events, "blur" \notin Events, NEW r \in Runs, Enqueue(r),
         NEW p \in Runs, Parent[r] = p, Alone(p)
  PROVE  ~(kid[p] = "grouped" \/ (kid[p] = "escaped" /\ GuardAlive(p)))
<1> SUFFICES ASSUME kid[p] = "grouped" \/ (kid[p] = "escaped" /\ GuardAlive(p))
             PROVE  FALSE
  OBVIOUS
<1>1. PICK t \in Recovered(Namespace[r]) : ~NestedInvocation(t, r, TRUE)
  BY DEF Enqueue, Admissible, LeaseReadable
<1>2. Accounted(t[p], p, client[p], guard[p], kid[p])
  BY <1>1, RecoveredAccounts, ObserverIsThere
<1>3. Backed(t[p], p, client[p], guard[p], kid[p]) /\ Watched(p)
  BY <1>2 DEF Accounted, BlindForce, Watched
<1>4. GuardAlive(p) /\ kid[p] # "none" => guard[p] \in Registered
  BY <1>2 DEF Accounted, Courses, GuardAlive, Registered
<1>5. t[p].guarded /\ p \in Live(t)
  BY <1>3, <1>4 DEF Backed, Live, Active
<1> QED BY <1>1, <1>5 DEF NestedInvocation, Alone

\* Where every lease file is readable and no operator forces the parent's row
\* away, work of an admitted run never queues behind that run.  Both are needed:
\* a row with an unreadable lease file is passed over, its parent with it.
\* (_check_nested, _classify_row)
THEOREM NestingNeverQueues ==
  ASSUME "force" \notin Events, "blur" \notin Events
  PROVE  Spec => NestedNeverWaits
<1>1. Inv /\ Kept /\ [Next]_vars =>
        [\A r \in Queued(jobs') \ Queued(jobs) : \A p \in Runs :
           Parent[r] = p /\ Alone(p) =>
             ~(kid[p] = "grouped" \/ (kid[p] = "escaped" /\ GuardAlive(p)))]_vars
  BY OnlyEnqueueQueues, EnqueueIsNotNested
<1> QED BY <1>1, KeepsInvariance, PTL DEF Spec, NestedNeverWaits
=============================================================================
