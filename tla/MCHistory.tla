----------------------------- MODULE MCHistory -----------------------------
EXTENDS History, TLC

CONSTANTS
  f1, f2, a1, c1, s1, s2, x, y, a, b, ta, tb, p1, p2, g1, r1,
  Publishers, FullGates, Shadows, Readers, Settings  \* the marker files (HistoryPublication)

VARIABLES
  case,  \* which instance a behaviour is of; it never changes
  setting, disabled, marker, file, rows, lock, pub, reader, lost

published == <<setting, disabled, marker, file, rows, lock, pub, reader, lost>>

GroupsAB == {[sources |-> {a}, tests |-> {ta}], [sources |-> {b}, tests |-> {tb}]}
FilesXY == (x :> ta) @@ (y :> tb)

Source(va, vtb) == (a :> va) @@ (b :> 1) @@ (ta :> 1) @@ (tb :> vtb)
T(va, vtb, clean, env, policy) ==
  [src |-> Source(va, vtb), clean |-> clean, env |-> env, policy |-> policy]

Clean == T(1, 1, TRUE, 1, 1)

\* A clean tree, an edited source file, and a deleted test file.
EditedTrees == {T(1, 1, TRUE, 1, 1), T(2, 1, FALSE, 1, 1)}
\* The other environment, one that cannot be read, and a deleted test file.
ShiftingTrees == {T(1, 1, TRUE, 1, 1), T(1, 1, TRUE, 2, 1), T(1, 1, TRUE, None, 1), T(1, 0, TRUE, 1, 1)}
AllTrees == EditedTrees \union ShiftingTrees
PolicyTrees == {T(1, 1, TRUE, 1, 1), T(2, 1, FALSE, 1, 1), T(1, 1, TRUE, 1, 2), T(2, 1, FALSE, 1, 2)}

\* Any tree into any other; and a source change that is taken back, with or
\* without a change of the policy, and made again.
EditedAny == [t \in EditedTrees \union ShiftingTrees |->
                IF t \in EditedTrees THEN EditedTrees \ {t} ELSE {}]
ShiftingAny == [t \in EditedTrees \union ShiftingTrees |->
                  IF t \in ShiftingTrees THEN ShiftingTrees \ {t} ELSE {}]
Corrected == [t \in PolicyTrees |->
  IF t.policy = 1 /\ t.clean THEN {T(2, 1, FALSE, 1, 1)}
  ELSE IF t.policy = 1 THEN {Clean, T(1, 1, TRUE, 1, 2)}
  ELSE {T(2, 1, FALSE, 1, 2)} \ {t}]

ModesFAC == (f1 :> "full") @@ (a1 :> "automatic") @@ (c1 :> "scoped")
ModesFF == (f1 :> "full") @@ (f2 :> "full")
ModesShadow == (f1 :> "full") @@ (f2 :> "full") @@ (s1 :> "shadow") @@ (s2 :> "shadow")

Skipping == (x :> {"passed", "failed", "skipped"}) @@ (y :> {"passed"})

OneFails == (x :> {"passed"}) @@ (y :> {"passed", "failed"})

Interchangeable == Permutations({f1, f2}) \union Permutations({s1, s2})

----------------------------------------------------------------------------
\* The instance the configuration file gives; and two full gates while the
\* environment shifts under partial inventories.
Shifts == INSTANCE History WITH
  Runs <- {f1, f2}, ModeOf <- ModesFF, MaxEdits <- 2, EditsTo <- ShiftingAny, Observable <- OneFails,
  ReportKinds <- {"whole", "partial"}, Summaries <- 1

\* No marker and no store, where the markers are not in question; and no run,
\* where they are.
Unmarked ==
  /\ setting = None /\ disabled = FALSE /\ marker = None /\ file = None /\ rows = {}
  /\ lock = None /\ pub = None /\ reader = None /\ lost = {}
StartsAlone == case = "alone" /\ Init /\ Unmarked

----------------------------------------------------------------------------
\* The markers around the store: three publishers, one of them a full gate, on a
\* store that may be contended; a shadow run and a full gate on one that may be
\* full; markers that resist every write, rename and removal; a store left by the
\* project before it was initialised again, or corrupt.
Stores ==
  {[publishers |-> {p1, p2, g1}, start |-> "current", faults |-> {"crash", "contended"}],
   [publishers |-> {p2, g1}, start |-> "current", faults |-> {"crash", "full"}],
   [publishers |-> {p1, g1}, start |-> "current", faults |-> {"crash", "marker", "full"}],
   [publishers |-> {p1, g1}, start |-> "previous", faults |-> {"crash", "corrupt"}]}
Markers == INSTANCE HistoryPublication WITH store <- file
ASSUME MarkersAssumption == Markers!MarkersMakeSense

Together ==
  /\ \/ Unmarked /\ ((case = "runs" /\ Init) \/ (case = "shifts" /\ Shifts!Init))
     \/ case = "markers" /\ Markers!Init /\ Init
  /\ [][/\ UNCHANGED case
        /\ \/ case = "markers" /\ Markers!Next /\ UNCHANGED vars
           \/ UNCHANGED published /\ ((case = "runs" /\ Next) \/ (case = "shifts" /\ Shifts!Next))
       ]_<<case, vars, published>>

\* HistoryPublication!LossDisables.
LossDisables == [][case = "markers" => Markers!LossHeeded]_published

\* HistoryPublication!GoneMeansClean.
GoneMeansClean == [][case = "markers" => Markers!GoneIsClean]_published

\* HistoryPublication!CapacityOutlives.
CapacityOutlives == [][case = "markers" => Markers!CapacityStays]_published

\* HistoryPublication!ReceiptIsTrue.
ReceiptIsTrue == [][case = "markers" => Markers!ReceiptTrue]_published
=============================================================================
