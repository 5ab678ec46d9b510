----------------------------- MODULE PartsProofs -----------------------------
(***************************************************************************)
(* The theorems about the parts, for the instances of them that TLC runs.  *)
(* A behaviour of one part is a behaviour of its component, because part   *)
(* never changes; so what is proved of the component holds of it.          *)
(***************************************************************************)
EXTENDS MCParts, Sequences, FiniteSetTheorems, TLAPS

\* A behaviour stays with its part.
LEMMA OnePart == [Next]_vars => UNCHANGED part
BY DEF Next, vars

-----------------------------------------------------------------------------
(***************************************************************************)
(* Openers of one coordinator find or make one that is whole, however many *)
(* they are and wherever each one dies.                                    *)
(*                                                                         *)
(* Shape ties the lock to who is inside it and the files to one another.   *)
(* Knows is what the holder of the lock knows of the files at each of its  *)
(* steps.  Verdicts is what an opener that left found: nobody takes it     *)
(* back, for whoever could is inside the lock and does not do that.        *)
(***************************************************************************)
Outside == {"new", "wait", "open", "done", "refused", "uninitialized", "failed", "dead"}
Inside == {"look", "create", "schema", "marker", "content", "bind"}

Typed ==
  /\ lockfile \in BOOLEAN
  /\ holder \in Openers \union {None}
  /\ ledger \in [exists : BOOLEAN, domain : Openers \union {None}, bound : BOOLEAN, rows : BOOLEAN]
  /\ marker \in Openers \union {None, "torn"}
  /\ opener \in [Openers -> [pc : Outside \union Inside, way : Birth!Ways, sees : Openers \union {None}]]

\* One opener at a time is inside the lock, and the files grow in one order:
\* ledger, schema, marker, binding, rows.
Shape ==
  /\ \A p \in Openers : opener[p].pc \in Inside <=> holder = p
  /\ ledger.domain # None => ledger.exists
  /\ marker # None => ledger.domain # None
  /\ marker \in {None, "torn", ledger.domain}
  /\ ledger.bound => marker = ledger.domain /\ marker # None
  /\ ledger.rows => ledger.bound

\* What the opener at each step knows of the files.
Knows(p) ==
  /\ Birth!At(p, "create") => ~ ledger.exists
  /\ Birth!At(p, "schema") => ledger.exists /\ ledger.domain = None
  /\ Birth!At(p, "marker") => ledger.domain # None /\ marker = None
  /\ Birth!At(p, "content") => marker = "torn"
  /\ Birth!At(p, "bind") => marker = ledger.domain /\ marker # None
  /\ Birth!At(p, "open") => ledger.bound

\* A ledger without its schema, or a marker without its content, that nobody
\* is about to complete.
Torn ==
  \/ ledger.exists /\ ledger.domain = None /\ \A q \in Openers : ~ Birth!At(q, "schema")
  \/ marker = "torn" /\ \A q \in Openers : ~ Birth!At(q, "content")

Verdicts(p) ==
  /\ opener[p].sees \in {None, ledger.domain}
  /\ Birth!At(p, "refused") /\ ~ Birth!Reads(p) => Torn

BirthInv == Typed /\ Shape /\ \A p \in Openers : Knows(p) /\ Verdicts(p)

LEMMA BirthSpec == Birth!Spec <=> Birth!Init /\ [][Birth!Next]_coordinator
BY DEF Birth!Spec, Birth!vars, coordinator

\* The openers, the lock and the files keep their types.
LEMMA BirthTyping == ASSUME Birth!NoneDiffers PROVE Birth!Spec => []Typed
<1> USE DEF Birth!NoneDiffers, Typed, Birth!Ways, Outside, Inside
<1>1. Birth!Init => Typed
  <2> SUFFICES ASSUME Birth!Init PROVE Typed
    OBVIOUS
  <2> PICK way \in [Openers -> Birth!Ways] :
         opener = [p \in Openers |-> [pc |-> "new", way |-> way[p], sees |-> None]]
    BY DEF Birth!Init
  <2>1. opener \in [Openers -> [pc : Outside \union Inside, way : Birth!Ways, sees : Openers \union {None}]]
    OBVIOUS
  <2> QED
    BY <2>1 DEF Birth!Init
<1>2. Typed /\ [Birth!Next]_coordinator => Typed'
  <2> SUFFICES ASSUME Typed, [Birth!Next]_coordinator PROVE Typed'
    OBVIOUS
  <2> USE DEF Birth!At, Birth!Go, Birth!Leave
  <2>1. ASSUME NEW p \in Openers, Birth!Begin(p) PROVE Typed'
    <3>1. CASE opener[p].way = "create" \/ lockfile
      <4>1. lockfile' = TRUE /\ opener' = [opener EXCEPT ![p].pc = "wait"] /\ UNCHANGED <<holder, ledger, marker>>
        BY <2>1, <3>1 DEF Birth!Begin
      <4> QED
        BY <4>1
    <3>2. CASE ~ (opener[p].way = "create" \/ lockfile)
      BY <2>1, <3>2 DEF Birth!Begin
    <3> QED
      BY <3>1, <3>2
  <2>2. ASSUME NEW p \in Openers, Birth!Acquire(p) PROVE Typed'
    BY <2>2 DEF Birth!Acquire
  <2>3. ASSUME NEW p \in Openers, Birth!LookEmpty(p) PROVE Typed'
    BY <2>3 DEF Birth!LookEmpty
  <2>4. ASSUME NEW p \in Openers, Birth!LookIncomplete(p) PROVE Typed'
    BY <2>4 DEF Birth!LookIncomplete
  <2>5. ASSUME NEW p \in Openers, Birth!LookWhole(p) PROVE Typed'
    <3>1. opener' \in [Openers -> [pc : Outside \union Inside, way : Birth!Ways, sees : Openers \union {None}]]
      <4>1. [opener[p] EXCEPT !.pc = "open", !.sees = ledger.domain]
              \in [pc : Outside \union Inside, way : Birth!Ways, sees : Openers \union {None}]
        OBVIOUS
      <4> QED
        BY <2>5, <4>1 DEF Birth!LookWhole
    <3> QED
      BY <2>5, <3>1 DEF Birth!LookWhole
  <2>6. ASSUME NEW p \in Openers, Birth!LookBroken(p) PROVE Typed'
    BY <2>6 DEF Birth!LookBroken
  <2>7. ASSUME NEW p \in Openers, Birth!CreateLedger(p) PROVE Typed'
    BY <2>7, ZenonT(30) DEF Birth!CreateLedger
  <2>8. ASSUME NEW p \in Openers, Birth!CommitSchema(p) PROVE Typed'
    BY <2>8 DEF Birth!CommitSchema
  <2>9. ASSUME NEW p \in Openers, Birth!CreateMarker(p) PROVE Typed'
    BY <2>9 DEF Birth!CreateMarker
  <2>10. ASSUME NEW p \in Openers, Birth!WriteMarker(p) PROVE Typed'
    BY <2>10 DEF Birth!WriteMarker
  <2>11. ASSUME NEW p \in Openers, Birth!TakeMarkerBack(p) PROVE Typed'
    BY <2>11 DEF Birth!TakeMarkerBack
  <2>12. ASSUME NEW p \in Openers, Birth!Bind(p) PROVE Typed'
    BY <2>12, ZenonT(30) DEF Birth!Bind
  <2>13. ASSUME NEW p \in Openers, Birth!Fail(p) PROVE Typed'
    BY <2>13 DEF Birth!Fail
  <2>14. ASSUME NEW p \in Openers, Birth!Insert(p) PROVE Typed'
    BY <2>14 DEF Birth!Insert
  <2>15. ASSUME NEW p \in Openers, Birth!Crash(p) PROVE Typed'
    BY <2>15 DEF Birth!Crash
  <2>16. CASE UNCHANGED coordinator
    BY <2>16 DEF coordinator
  <2> QED
    BY <2>1, <2>2, <2>3, <2>4, <2>5, <2>6, <2>7, <2>8, <2>9, <2>10, <2>11, <2>12, <2>13, <2>14, <2>15, <2>16 DEF Birth!Next
<1>3. QED
  BY <1>1, <1>2, BirthSpec, PTL

\* No step of any opener breaks the invariant.
LEMMA BirthStepwise == ASSUME Birth!NoneDiffers PROVE BirthInv /\ [Birth!Next]_coordinator /\ Typed' => BirthInv'
<1> SUFFICES ASSUME Birth!NoneDiffers, BirthInv, [Birth!Next]_coordinator, Typed' PROVE BirthInv'
  OBVIOUS
<1> USE DEF BirthInv
<1>1. ASSUME NEW p \in Openers, Birth!Begin(p) PROVE BirthInv'
  BY <1>1 DEF Birth!Begin, Birth!At, Birth!Go, Birth!Leave, Birth!Reads, Birth!NoneDiffers, Typed, Shape, Knows, Verdicts, Torn, Outside, Inside, Birth!Ways
<1>2. ASSUME NEW p \in Openers, Birth!Acquire(p) PROVE BirthInv'
  BY <1>2 DEF Birth!Acquire, Birth!LockFree, Birth!At, Birth!Go, Birth!Leave, Birth!Reads, Birth!NoneDiffers, Typed, Shape, Knows, Verdicts, Torn, Outside, Inside, Birth!Ways
<1>3. ASSUME NEW p \in Openers, Birth!LookEmpty(p) PROVE BirthInv'
  BY <1>3 DEF Birth!LookEmpty, Birth!Broken, Birth!At, Birth!Go, Birth!Leave, Birth!Reads, Birth!NoneDiffers, Typed, Shape, Knows, Verdicts, Torn, Outside, Inside, Birth!Ways
<1>4. ASSUME NEW p \in Openers, Birth!LookIncomplete(p) PROVE BirthInv'
  BY <1>4 DEF Birth!LookIncomplete, Birth!Broken, Birth!Incomplete, Birth!Repairable, Birth!At, Birth!Go, Birth!Leave, Birth!Reads, Birth!NoneDiffers, Typed, Shape, Knows, Verdicts, Torn, Outside, Inside, Birth!Ways
<1>5. ASSUME NEW p \in Openers, Birth!LookWhole(p) PROVE BirthInv'
  BY <1>5 DEF Birth!LookWhole, Birth!Broken, Birth!Incomplete, Birth!At, Birth!Go, Birth!Leave, Birth!Reads, Birth!NoneDiffers, Typed, Shape, Knows, Verdicts, Torn, Outside, Inside, Birth!Ways
<1>6. ASSUME NEW p \in Openers, Birth!LookBroken(p) PROVE BirthInv'
  BY <1>6 DEF Birth!LookBroken, Birth!Broken, Birth!At, Birth!Go, Birth!Leave, Birth!Reads, Birth!NoneDiffers, Typed, Shape, Knows, Verdicts, Torn, Outside, Inside, Birth!Ways
<1>7. ASSUME NEW p \in Openers, Birth!CreateLedger(p) PROVE BirthInv'
  BY <1>7 DEF Birth!CreateLedger, Birth!At, Birth!Go, Birth!Leave, Birth!Reads, Birth!NoneDiffers, Typed, Shape, Knows, Verdicts, Torn, Outside, Inside, Birth!Ways
<1>8. ASSUME NEW p \in Openers, Birth!CommitSchema(p) PROVE BirthInv'
  BY <1>8 DEF Birth!CommitSchema, Birth!At, Birth!Go, Birth!Leave, Birth!Reads, Birth!NoneDiffers, Typed, Shape, Knows, Verdicts, Torn, Outside, Inside, Birth!Ways
<1>9. ASSUME NEW p \in Openers, Birth!CreateMarker(p) PROVE BirthInv'
  BY <1>9 DEF Birth!CreateMarker, Birth!At, Birth!Go, Birth!Leave, Birth!Reads, Birth!NoneDiffers, Typed, Shape, Knows, Verdicts, Torn, Outside, Inside, Birth!Ways
<1>10. ASSUME NEW p \in Openers, Birth!WriteMarker(p) PROVE BirthInv'
  BY <1>10 DEF Birth!WriteMarker, Birth!At, Birth!Go, Birth!Leave, Birth!Reads, Birth!NoneDiffers, Typed, Shape, Knows, Verdicts, Torn, Outside, Inside, Birth!Ways
<1>11. ASSUME NEW p \in Openers, Birth!TakeMarkerBack(p) PROVE BirthInv'
  BY <1>11 DEF Birth!TakeMarkerBack, Birth!At, Birth!Go, Birth!Leave, Birth!Reads, Birth!NoneDiffers, Typed, Shape, Knows, Verdicts, Torn, Outside, Inside, Birth!Ways
<1>12. ASSUME NEW p \in Openers, Birth!Bind(p) PROVE BirthInv'
  BY <1>12 DEF Birth!Bind, Birth!At, Birth!Go, Birth!Leave, Birth!Reads, Birth!NoneDiffers, Typed, Shape, Knows, Verdicts, Torn, Outside, Inside, Birth!Ways
<1>13. ASSUME NEW p \in Openers, Birth!Fail(p) PROVE BirthInv'
  BY <1>13 DEF Birth!Fail, Birth!At, Birth!Go, Birth!Leave, Birth!Reads, Birth!NoneDiffers, Typed, Shape, Knows, Verdicts, Torn, Outside, Inside, Birth!Ways
<1>14. ASSUME NEW p \in Openers, Birth!Insert(p) PROVE BirthInv'
  BY <1>14 DEF Birth!Insert, Birth!At, Birth!Go, Birth!Leave, Birth!Reads, Birth!NoneDiffers, Typed, Shape, Knows, Verdicts, Torn, Outside, Inside, Birth!Ways
<1>15. ASSUME NEW p \in Openers, Birth!Crash(p) PROVE BirthInv'
  BY <1>15 DEF Birth!Crash, Birth!At, Birth!Go, Birth!Leave, Birth!Reads, Birth!NoneDiffers, Typed, Shape, Knows, Verdicts, Torn, Outside, Inside, Birth!Ways
<1>16. CASE UNCHANGED coordinator
  BY <1>16 DEF coordinator, Birth!At, Birth!Reads, Typed, Shape, Knows, Verdicts, Torn
<1> QED
  BY <1>1, <1>2, <1>3, <1>4, <1>5, <1>6, <1>7, <1>8, <1>9, <1>10, <1>11, <1>12, <1>13, <1>14, <1>15, <1>16 DEF Birth!Next

\* Openers of one coordinator turn nobody away for what can be completed, and
\* rows rest on a ledger and a marker that name each other; the invariant.
LEMMA BirthInvariance == ASSUME Birth!NoneDiffers PROVE Birth!Spec => []BirthInv
<1>1. Birth!Init => Shape /\ \A p \in Openers : Knows(p) /\ Verdicts(p)
  BY DEF Birth!NoneDiffers, Birth!Init, Shape, Knows, Verdicts, Birth!At, Inside
<1>2. Birth!Spec => []Typed
  BY BirthTyping
<1>3. BirthInv /\ [Birth!Next]_coordinator /\ Typed' => BirthInv'
  BY BirthStepwise
<1>4. Birth!Init /\ Typed => BirthInv
  BY <1>1 DEF BirthInv
<1> QED
  BY <1>2, <1>3, <1>4, BirthSpec, PTL

\* BootstrapHolds for any number of openers: OnlyTheTornAreRefused, RowsAreBound
\* and OneCoordinator.  (_open_state, _empty_initialization)
THEOREM OpenersFindItWhole == ASSUME Birth!NoneDiffers PROVE Birth!Spec => []Birth!BootstrapHolds
<1>1. BirthInv => Birth!BootstrapHolds
  BY DEF BirthInv, Shape, Verdicts, Torn, Typed, Birth!NoneDiffers,
         Birth!BootstrapHolds, Birth!OnlyTheTornAreRefused, Birth!RowsAreBound, Birth!OneCoordinator
<1>2. Birth!Spec => []BirthInv
  BY BirthInvariance
<1> QED
  BY <1>1, <1>2, PTL

\* Bootstrap!BootstrapHolds, where a behaviour is of the openers.
THEOREM BirthIsSound == Spec => []BootstrapHolds
<1>1. Init /\ part = "birth" => Birth!Init
  BY DEF Init
<1>2. part = "birth" /\ [Next]_vars => [Birth!Next]_coordinator
  BY DEF Next, vars
<1>3. Birth!Spec => []Birth!BootstrapHolds
  BY NamesAssumption, OpenersFindItWhole
<1>4. part = "birth" /\ Birth!BootstrapHolds => BootstrapHolds
  BY DEF BootstrapHolds
<1>5. ~ (part = "birth") => BootstrapHolds
  BY DEF BootstrapHolds
<1>6. part = "birth" /\ [Next]_vars => (part = "birth")'
  BY OnePart
<1>7. ~ (part = "birth") /\ [Next]_vars => ~ (part = "birth")'
  BY OnePart
<1> QED
  BY <1>1, <1>2, <1>3, <1>4, <1>5, <1>6, <1>7, BirthSpec, PTL DEF Spec

\* LeaseFiles!LeaseTellsTruth and NoOrphans for the runs TLC runs: three in two
\* pid namespaces, and two of which one cannot tell its namespace.
THEOREM FilesAreSound == Spec => []LeaseFilesTellTruth
<1> DEFINE variables == <<row, lock, sidecar, owner, guard, db, removal, wronged>>
<1>1. /\ Init /\ part = "neighbours" => Neighbours!Init
      /\ Init /\ part = "unsure" => Unsure!Init
  BY DEF Init
<1>2. /\ part = "neighbours" /\ [Next]_vars => [Neighbours!Next]_variables
      /\ part = "unsure" /\ [Next]_vars => [Unsure!Next]_variables
  BY DEF Next, vars, leases
<1>3. /\ Neighbours!Spec <=> Neighbours!Init /\ [][Neighbours!Next]_variables
      /\ Unsure!Spec <=> Unsure!Init /\ [][Unsure!Next]_variables
  BY DEF Neighbours!Spec, Neighbours!vars, Unsure!Spec, Unsure!vars
<1>4. /\ Neighbours!Spec => [](Neighbours!LeaseTellsTruth /\ Neighbours!NoOrphans)
      /\ Unsure!Spec => [](Unsure!LeaseTellsTruth /\ Unsure!NoOrphans)
  BY NamesAssumption, Neighbours!FilesTellTheTruth, Unsure!FilesTellTheTruth
<1>5. /\ part = "neighbours" /\ Neighbours!LeaseTellsTruth /\ Neighbours!NoOrphans => LeaseFilesTellTruth
      /\ part = "unsure" /\ Unsure!LeaseTellsTruth /\ Unsure!NoOrphans => LeaseFilesTellTruth
      /\ ~ (part = "neighbours") /\ ~ (part = "unsure") => LeaseFilesTellTruth
  BY DEF LeaseFilesTellTruth
<1>6. /\ part = "neighbours" /\ [Next]_vars => (part = "neighbours")'
      /\ part = "unsure" /\ [Next]_vars => (part = "unsure")'
      /\ ~ (part = "neighbours") /\ [Next]_vars => ~ (part = "neighbours")'
      /\ ~ (part = "unsure") /\ [Next]_vars => ~ (part = "unsure")'
  BY OnePart
<1> QED
  BY <1>1, <1>2, <1>3, <1>4, <1>5, <1>6, PTL DEF Spec
-----------------------------------------------------------------------------
(***************************************************************************)
(* The guards and their controllers: behind a setup, in a comparison, on   *)
(* their own, and at rest in the other parts.                              *)
(***************************************************************************)
OfTwo == part = "guard of two"
OfBare == part = "bare guard"

LEMMA GuardParts ==
  Spec => []( /\ OfTwo => Two!IInv
              /\ OfBare => Bare!IInv
              /\ ~OfTwo /\ ~OfBare => One!IInv)
<1>1. /\ Init /\ OfTwo => Two!Init
      /\ Init /\ OfBare => Bare!Init
      /\ Init /\ ~OfTwo /\ ~OfBare => One!Init
  BY DEF Init, NoGuard, OfTwo, OfBare
<1>2. /\ OfTwo /\ [Next]_vars => [Two!Next]_control
      /\ OfBare /\ [Next]_vars => [Bare!Next]_control
      /\ ~OfTwo /\ ~OfBare /\ [Next]_vars => [One!Next]_control
  BY DEF Next, vars, OfTwo, OfBare
<1>3. /\ Two!Spec <=> Two!Init /\ [][Two!Next]_control
      /\ Bare!Spec <=> Bare!Init /\ [][Bare!Next]_control
      /\ One!Spec <=> One!Init /\ [][One!Next]_control
  BY DEF Two!Spec, Two!vars, Bare!Spec, Bare!vars, One!Spec, One!vars, control
<1>4. (Two!Spec => []Two!IInv) /\ (Bare!Spec => []Bare!IInv) /\ (One!Spec => []One!IInv)
  BY ManifestAssumption, Two!Invariance, Bare!Invariance, One!Invariance
<1>5. /\ OfTwo /\ [Next]_vars => OfTwo'
      /\ ~OfTwo /\ [Next]_vars => ~OfTwo'
      /\ OfBare /\ [Next]_vars => OfBare'
      /\ ~OfBare /\ [Next]_vars => ~OfBare'
  BY OnePart DEF OfTwo, OfBare
<1> QED
  BY <1>1, <1>2, <1>3, <1>4, <1>5, PTL DEF Spec

\* What GuardControlProofs concludes from its invariant, in any part.
LEMMA GuardConclusions ==
  ASSUME OfTwo => Two!IInv, OfBare => Bare!IInv, ~OfTwo /\ ~OfBare => One!IInv
  PROVE  PassIsEarned /\ ExecutionNeedsContinue /\ FirstEndWins
<1>1. CASE OfTwo
  <2>1. Two!PassIsEarned /\ Two!ExecutionNeedsContinue /\ Two!FirstEndWins
    BY <1>1, ManifestAssumption, Two!Consequences
  <2>2. One!FirstEndWins
    BY <2>1 DEF Two!FirstEndWins, Two!Timeouts, One!FirstEndWins, One!Timeouts
  <2> QED
    BY <1>1, <2>1, <2>2 DEF OfTwo, PassIsEarned, ExecutionNeedsContinue, FirstEndWins
<1>2. CASE OfBare
  <2>1. Bare!PassIsEarned /\ Bare!ExecutionNeedsContinue /\ Bare!FirstEndWins
    BY <1>2, ManifestAssumption, Bare!Consequences
  <2>2. One!ExecutionNeedsContinue
    BY <2>1 DEF Bare!ExecutionNeedsContinue, One!ExecutionNeedsContinue
  <2>3. One!FirstEndWins
    BY <2>1 DEF Bare!FirstEndWins, Bare!Timeouts, One!FirstEndWins, One!Timeouts
  <2> QED
    BY <1>2, <2>1, <2>2, <2>3 DEF OfBare, PassIsEarned, ExecutionNeedsContinue, FirstEndWins
<1>3. CASE ~OfTwo /\ ~OfBare
  <2>1. One!PassIsEarned /\ One!ExecutionNeedsContinue /\ One!FirstEndWins
    BY <1>3, ManifestAssumption, One!Consequences
  <2> QED
    BY <1>3, <2>1 DEF OfTwo, OfBare, PassIsEarned, ExecutionNeedsContinue, FirstEndWins
<1> QED
  BY <1>1, <1>2, <1>3

\* GuardControl!PassIsEarned for the guards TLC runs: every declared attempt ran
\* with the controller's leave and exited 0, and nothing of the group is left when
\* the verdict falls, though the guard's own scans may have missed a fork.
THEOREM PassesAreEarned == Spec => []PassIsEarned
BY GuardParts, GuardConclusions, PTL

\* GuardControl!ExecutionNeedsContinue for them: nothing is executed without
\* the controller's last word on the sources.
THEOREM ExecutionsAreContinued == Spec => []ExecutionNeedsContinue
BY GuardParts, GuardConclusions, PTL

\* GuardControl!FirstEndWins for them: a clock is not blamed for a run that the
\* caller had cancelled.
THEOREM CallersCancelFirst == Spec => []FirstEndWins
BY GuardParts, GuardConclusions, PTL

\* What the controllers of a single attempt know of their guards, whatever is
\* still on the channel between them.
LEMMA GuardsTrusted ==
  Spec => []((OfBare => Bare!Belief) /\ (~OfTwo /\ ~OfBare => One!Belief))
<1>1. /\ Init /\ OfBare => Bare!Init
      /\ Init /\ ~OfTwo /\ ~OfBare => One!Init
  BY DEF Init, NoGuard, OfTwo, OfBare
<1>2. /\ OfBare /\ [Next]_vars => [Bare!Next]_control
      /\ ~OfTwo /\ ~OfBare /\ [Next]_vars => [One!Next]_control
  BY DEF Next, vars, OfTwo, OfBare
<1>3. /\ Bare!Spec <=> Bare!Init /\ [][Bare!Next]_control
      /\ One!Spec <=> One!Init /\ [][One!Next]_control
  BY DEF Bare!Spec, Bare!vars, One!Spec, One!vars, control
<1>4. Bare!Single /\ One!Single
  BY DEF Bare!Single, One!Single
<1>5. (Bare!Spec => []Bare!Belief) /\ (One!Spec => []One!Belief)
  BY <1>4, ManifestAssumption, Bare!Trust, One!Trust
<1>6. /\ OfTwo /\ [Next]_vars => OfTwo'
      /\ ~OfTwo /\ [Next]_vars => ~OfTwo'
      /\ OfBare /\ [Next]_vars => OfBare'
      /\ ~OfBare /\ [Next]_vars => ~OfBare'
  BY OnePart DEF OfTwo, OfBare
<1> QED
  BY <1>1, <1>2, <1>3, <1>5, <1>6, PTL DEF Spec

\* GuardControl!CleanGuardIsBelieved for a single attempt: a guard that ran to
\* its end and exits 0 is not taken for a broken handoff.
THEOREM CleanGuardsAreBelieved == Spec => []CleanGuardIsBelieved
<1>1. ASSUME OfBare, Bare!IInv, Bare!Belief PROVE CleanGuardIsBelieved
  <2>1. Bare!CleanGuardIsBelieved
    BY <1>1, ManifestAssumption, Bare!Believing
  <2> QED
    BY <1>1, <2>1 DEF OfBare, CleanGuardIsBelieved, Bare!CleanGuardIsBelieved, One!CleanGuardIsBelieved
<1>2. ASSUME ~OfTwo, ~OfBare, One!IInv, One!Belief PROVE CleanGuardIsBelieved
  <2>1. One!CleanGuardIsBelieved
    BY <1>2, ManifestAssumption, One!Believing
  <2> QED
    BY <2>1 DEF CleanGuardIsBelieved
<1>3. OfTwo => CleanGuardIsBelieved
  BY DEF OfTwo, CleanGuardIsBelieved
<1>4. /\ OfBare /\ Bare!IInv /\ Bare!Belief => CleanGuardIsBelieved
      /\ ~OfTwo /\ ~OfBare /\ One!IInv /\ One!Belief => CleanGuardIsBelieved
  BY <1>1, <1>2
<1>5. ~(OfTwo /\ OfBare)
  BY DEF OfTwo, OfBare
<1> QED
  BY GuardParts, GuardsTrusted, <1>3, <1>4, <1>5, PTL

-----------------------------------------------------------------------------
-----------------------------------------------------------------------------
(***************************************************************************)
(* The record of the last green run, for any project and any bounds, while *)
(* files are not deleted or restored and commands do not overlap.          *)
(*                                                                         *)
(* A green point is sound when, of the tests it has not been let off,      *)
(* every file that one imports was as it should be then, or too large to   *)
(* hash, and no file that was dirty then has the content again that the    *)
(* commit of the point gave it.  The plan of a bare run therefore finds    *)
(* what was broken since, and a covering run that passes has run it or the *)
(* record is let off.                                                      *)
(***************************************************************************)
Trees == [Sources -> Green!Contents]
Commits == [line : SUBSET Nat, tree : Trees]
Prints ==
  [commit : Nat \union {None}, failed : SUBSET Sources,
   files : UNION {[D -> Green!Contents \union {None}] : D \in SUBSET Sources}]
CommandLines == {"bare", "based", "folder", "full folder", "full", "file"}
Processes ==
  [pc : {"idle", "planned", "ran", "passing", "failing"}, command : CommandLines \union {None},
   chosen : SUBSET Cases, failed : SUBSET Cases, print : Prints]
Repositories ==
  [runner : {"pytest", "vitest"}, commits : Seq(Commits), head : Nat, work : Trees, record : Prints]
Histories == [edits : Nat, red : SUBSET Cases, sick : SUBSET Cases, left : SUBSET Cases]
GreenTyped ==
  /\ disk \in Repositories /\ proc \in [{terminal} -> Processes]
  /\ past \in Histories

\* Nothing is deleted, and commits descend from commits.
Kept ==
  /\ disk.head \in DOMAIN disk.commits /\ Len(disk.commits) > 0
  /\ \A f \in Sources : disk.work[f] # Green!Gone
  /\ \A i \in DOMAIN disk.commits : \A f \in Sources : Green!Committed(i)[f] # Green!Gone
  /\ \A i \in DOMAIN disk.commits : Green!Ancestors(i) \subseteq DOMAIN disk.commits
  /\ \A f \in Sources : Green!Committed(1)[f] = Green!Fine

\* The files of a green point, as they were then.
Then(r, f) == IF f \in DOMAIN r.files THEN r.files[f] ELSE Green!Committed(r.commit)[f]
Sound(r) ==
  r.commit # None =>
    /\ r.commit \in DOMAIN disk.commits
    /\ \A t \in Cases \ (past.left \union r.failed) : \A f \in Imports[t] : Then(r, f) # Green!Broken
    /\ r.commit \in Green!Ancestors(disk.head) =>
         \A f \in DOMAIN r.files : disk.work[f] # Green!Committed(r.commit)[f]

\* What the record remembers; only pytest's failures are.
Remembers ==
  /\ past.red \subseteq Green!LastFailed \union past.left
  /\ Green!LastFailed # {} => disk.runner = "pytest"

\* What a command at each of its steps has seen; nothing moves meanwhile.
Breaks(t) == \E f \in Imports[t] : disk.work[f] = Green!Broken
Shows(t) == \E f \in Imports[t] \ Green!Unhashed : disk.work[f] = Green!Broken
Sees(p) ==
  /\ p.pc = "idle" => p = Green!Idle
  /\ p.pc # "idle" => p.command \in CommandLines
  /\ p.pc # "idle" /\ p.command = "full" => p.chosen = Green!Present
  /\ p.pc = "ran" => p.failed = {t \in p.chosen : Green!Fails(t)}
  /\ p.pc = "passing" =>
       /\ p.command \in {"bare", "based", "full"} /\ p.print = Green!Fingerprint
       /\ past.red \intersect p.chosen = {} /\ \A t \in p.chosen : ~ Breaks(t)
  /\ p.pc = "failing" => p.print = disk.record /\ p.failed \subseteq p.chosen /\ disk.runner = "pytest"
GreenInv == GreenTyped /\ Kept /\ Sound(disk.record) /\ Remembers /\ Sees(proc[terminal])

\* In the language of the component: what the plan of a bare run has.
LEMMA BarePlans ==
  ASSUME Green!ProjectMakesSense, GreenInv, NEW f \in Green!Compared(1, FALSE), NEW t \in Cases, f \in Imports[t]
  PROVE  t \in Green!Planned("bare")
<1>1. t \in Green!Present
  BY DEF Green!Present, GreenInv, Kept, Green!ProjectMakesSense
<1> QED
  BY <1>1 DEF Green!Planned, Green!Reached

LEMMA BareFinds ==
  ASSUME Green!ProjectMakesSense, GreenInv, NEW t \in Cases
  PROVE  /\ t \in Green!LastFailed => t \in Green!Planned("bare")
         /\ Shows(t) /\ t \notin past.left => t \in Green!Planned("bare")
<1> USE DEF Green!ProjectMakesSense, GreenInv, GreenTyped, Repositories, Trees
<1>1. t \in Imports[t] /\ Imports[t] \subseteq Sources
  OBVIOUS
<1>2. ASSUME t \in Green!LastFailed PROVE t \in Green!Planned("bare")
  <2>1. t \in Green!Compared(1, FALSE)
    BY <1>2 DEF Green!Compared, Green!Consulted, Remembers
  <2> QED
    BY <1>1, <2>1, BarePlans
<1>3. ASSUME NEW f \in Imports[t] \ Green!Unhashed, disk.work[f] = Green!Broken,
             t \notin past.left, t \notin Green!LastFailed
      PROVE  t \in Green!Planned("bare")
  <2> DEFINE r == disk.record
  <2>1. f \in Sources /\ disk.work[f] # Green!Gone /\ (f \in Green!Dirty => Green!Hash(f) = Green!Broken)
    BY <1>1, <1>3 DEF Green!Hash, Green!Gone, Green!Broken, Green!Unhashed
  <2>2. CASE Green!UsableAt(disk.head)
    <3>1. r.commit # None /\ r.commit \in Green!Ancestors(disk.head)
      BY <2>2 DEF Green!UsableAt
    <3>2. Then(r, f) # Green!Broken /\ \A x \in DOMAIN r.files : disk.work[x] # Green!Committed(r.commit)[x]
      BY <3>1, <1>3 DEF Sound, Green!LastFailed
    <3>3. CASE f \in Green!Dirty
      <4>1. Green!Printed(r, f) # Green!Broken
        <5>1. f \in DOMAIN r.files => r.files[f] # Green!Broken
          BY <3>2 DEF Then
        <5>2. None # Green!Broken
          BY DEF Green!Broken
        <5> QED
          BY <5>1, <5>2 DEF Green!Printed
      <4>2. f \in Green!Moved(r)
        BY <3>3, <4>1, <2>1 DEF Green!Moved
      <4>3. f \in Green!Consulted(1, FALSE) /\ f \in Green!ChangedSince(r.commit)
        BY <2>2, <3>3, <4>2 DEF Green!Consulted, Green!ChangedSince
      <4> QED
        BY <2>2, <4>3, BarePlans DEF Green!Compared
    <3>4. CASE f \notin Green!Dirty
      <4>1. Green!Committed(disk.head)[f] = Green!Broken
        BY <3>4, <1>3, <2>1 DEF Green!Dirty
      <4>2. Green!Committed(r.commit)[f] # Green!Committed(disk.head)[f]
        BY <3>2, <4>1, <1>3 DEF Then
      <4>3. Green!Hash(f) \in {None, Green!Broken} /\ Green!Printed(r, f) # Green!Broken
        BY <3>2, <1>3, <2>1 DEF Green!Hash, Then, Green!Printed, Green!Broken
      <4>4. f \in Green!Landed(r)
        BY <4>2, <4>3, <2>1 DEF Green!Landed
      <4>5. f \in Green!Consulted(1, FALSE) /\ f \in Green!ChangedSince(r.commit)
        BY <2>1, <2>2, <4>2, <4>4 DEF Green!Consulted, Green!ChangedSince
      <4> QED
        BY <2>2, <4>5, BarePlans DEF Green!Compared
    <3> QED
      BY <3>3, <3>4
  <2>3. CASE ~Green!UsableAt(disk.head)
    <3>1. Green!Committed(1)[f] # Green!Broken
      BY <2>1 DEF Kept, Green!Fine, Green!Broken
    <3>2. f \in Green!ChangedSince(1)
      BY <1>3, <2>1, <3>1 DEF Green!ChangedSince, Green!Dirty
    <3>3. f \in Green!Consulted(1, FALSE)
      BY <2>3, <3>2 DEF Green!Consulted
    <3> QED
      BY <2>3, <3>2, <3>3, BarePlans DEF Green!Compared
  <2> QED
    BY <2>2, <2>3
<1> QED
  BY <1>2, <1>3 DEF Shows

LEMMA GreenTells == ASSUME Green!ProjectMakesSense, GreenInv PROVE Green!RecordIsSound
<1>1. \A t \in Cases : \A f \in Imports[t] : disk.work[f] # Green!Gone
  BY DEF GreenInv, Kept, Green!ProjectMakesSense
<1>2. Green!BareFindsBreakage
  BY <1>1, BareFinds DEF Green!BareFindsBreakage, Shows, Green!Present
<1>3. Green!FailuresReturn
  BY BareFinds DEF Green!FailuresReturn, GreenInv, Remembers, Green!Present
<1> QED
  BY <1>2, <1>3 DEF Green!RecordIsSound

LEMMA IdleIsTyped == Green!Idle \in Processes
<1>1. [f \in {} |-> None] \in [{} -> Green!Contents \union {None}]
  OBVIOUS
<1>2. Green!NoRecord \in Prints
  BY <1>1 DEF Green!NoRecord, Prints
<1> QED
  BY <1>2 DEF Processes, Green!Idle

\* What a terminal at its prompt has seen.
LEMMA IdleSees == Sees(Green!Idle) /\ Sees(Green!Idle)'
BY DEF Sees, Green!Idle

LEMMA GreenStarts == ASSUME Green!ProjectMakesSense, Green!Init PROVE GreenInv
<1> USE DEF Green!Init, Green!ProjectMakesSense, Green!Fine, Green!Broken, Green!Gone, Green!Changed, Green!Contents
<1>1. <<[line |-> {1}, tree |-> [f \in Sources |-> Green!Fine]]>> \in Seq(Commits)
  BY DEF Commits, Trees
<1>2. Green!NoRecord \in Prints
  BY IdleIsTyped DEF Green!Idle, Processes
<1>3. GreenTyped
  BY <1>1, <1>2, IdleIsTyped DEF GreenTyped, Repositories, Trees, Histories
<1>4. Kept
  BY DEF Kept, Green!Committed, Green!Ancestors
<1>5. Sound(disk.record) /\ Remembers
  BY DEF Sound, Remembers, Green!LastFailed, Green!NoRecord
<1>6. Sees(proc[terminal])
  BY IdleSees
<1> QED
  BY <1>3, <1>4, <1>5, <1>6 DEF GreenInv

\* Steps that leave the repository alone, but for the record.
LEMMA SameFiles ==
  ASSUME disk'.commits = disk.commits, disk'.head = disk.head, disk'.work = disk.work
  PROVE  /\ Kept => Kept'
         /\ \A r, q : /\ Sound(r) /\ q.commit = r.commit /\ q.files = r.files
                      /\ past.left \union r.failed \subseteq past'.left \union q.failed
                      => Sound(q)'
         /\ \A t : Breaks(t)' <=> Breaks(t)
         /\ past'.sick = past.sick => \A t : Green!Fails(t)' <=> Green!Fails(t)
         /\ Green!Present' = Green!Present /\ Green!Dirty' = Green!Dirty
         /\ Green!Fingerprint' = Green!Fingerprint
         /\ \A i : Green!Committed(i)' = Green!Committed(i) /\ Green!Ancestors(i)' = Green!Ancestors(i)
<1>1. /\ \A i : Green!Committed(i)' = Green!Committed(i)
      /\ \A i : Green!Ancestors(i)' = Green!Ancestors(i)
  BY DEF Green!Committed, Green!Ancestors
<1>2. Kept => Kept'
  BY <1>1 DEF Kept
<1>3. ASSUME NEW r, NEW q, Sound(r), q.commit = r.commit, q.files = r.files,
             past.left \union r.failed \subseteq past'.left \union q.failed
      PROVE  Sound(q)'
  BY <1>1, <1>3 DEF Sound, Then
<1>4. Green!Present' = Green!Present /\ Green!Dirty' = Green!Dirty
  BY <1>1 DEF Green!Present, Green!Dirty
<1>5. Green!Fingerprint' = Green!Fingerprint
  BY <1>4 DEF Green!Fingerprint, Green!Hash
<1> QED
  BY <1>1, <1>2, <1>3, <1>4, <1>5 DEF Breaks, Green!Fails

\* Steps that leave the record alone, too.
LEMMA SameRecord ==
  ASSUME GreenInv, UNCHANGED disk, past'.left = past.left, past'.red \subseteq past.red
  PROVE  Kept' /\ Sound(disk.record)' /\ Remembers'
BY SameFiles DEF GreenInv, Remembers, Green!LastFailed

LEMMA ConsultKeeps == ASSUME Green!ProjectMakesSense, GreenInv, Green!Consult(terminal) PROVE GreenInv'
<1> USE DEF Green!Consult, Green!ProjectMakesSense
<1> PICK command \in CommandLines :
       \E tests \in Green!Chosen(command) :
         proc' = [proc EXCEPT ![terminal] = [Green!Idle EXCEPT !.pc = "planned", !.command = command, !.chosen = tests]]
  BY DEF Green!Go, CommandLines
<1> PICK tests \in Green!Chosen(command) :
       proc' = [proc EXCEPT ![terminal] = [Green!Idle EXCEPT !.pc = "planned", !.command = command, !.chosen = tests]]
  OBVIOUS
<1>1. command # "file" => Green!Planned(command) \subseteq Cases /\ \A x \in Green!Refined(command) : x \subseteq Cases
  BY DEF Green!Planned, Green!Reached, Green!Refined, Green!Present, CommandLines
<1>2. tests \in SUBSET Cases
  <2>1. CASE command = "file"
    <3>1. \E t \in Green!Present : tests = {t}
      BY <2>1 DEF Green!Chosen
    <3> QED
      BY <3>1 DEF Green!Present
  <2>2. CASE command # "file"
    <3>1. tests = Green!Planned(command) \/ tests \in Green!Refined(command)
      BY <2>2 DEF Green!Chosen
    <3> QED
      BY <2>2, <3>1, <1>1
  <2> QED
    BY <2>1, <2>2
<1>3. command = "full" => tests = Green!Present
  BY DEF Green!Chosen, Green!Planned, Green!Refined
<1> PICK p : p = [Green!Idle EXCEPT !.pc = "planned", !.command = command, !.chosen = tests]
  OBVIOUS
<1>4. proc'[terminal] = p /\ p.pc = "planned" /\ p.command = command /\ p.chosen = tests
  BY DEF GreenInv, GreenTyped, Green!Idle
<1>5. p \in Processes
  BY <1>2, IdleIsTyped DEF Processes
<1>6. GreenTyped'
  BY <1>5 DEF GreenInv, GreenTyped
<1>7. Sees(p)'
  BY <1>3, <1>4, SameFiles DEF Sees
<1>8. Sees(proc[terminal])'
  BY <1>4, <1>7
<1> QED
  BY <1>6, <1>8, SameRecord DEF GreenInv

LEMMA ExecuteKeeps == ASSUME GreenInv, Green!Execute(terminal) PROVE GreenInv'
<1> USE DEF Green!Execute
<1> DEFINE p == proc[terminal]
<1>1. proc'[terminal] = [p EXCEPT !.pc = "ran", !.failed = {t \in p.chosen : Green!Fails(t)}] /\ p \in Processes
  BY DEF GreenInv, GreenTyped, Green!Go
<1>2. GreenTyped'
  BY <1>1 DEF GreenInv, GreenTyped, Processes, Green!Go
<1>3. Sees(proc[terminal])'
  BY <1>1, SameFiles DEF Sees, GreenInv, Green!At, Processes
<1> QED
  BY <1>2, <1>3, SameRecord DEF GreenInv

LEMMA FingerprintIsTyped == ASSUME Green!ProjectMakesSense, GreenInv PROVE Green!Fingerprint \in Prints
<1> USE DEF GreenInv, GreenTyped, Repositories, Trees
<1>1. Green!Dirty \subseteq Sources /\ \A f \in Sources : Green!Hash(f) \in Green!Contents \union {None}
  BY DEF Green!Dirty, Green!Hash
<1>2. [f \in Green!Dirty |-> Green!Hash(f)] \in [Green!Dirty -> Green!Contents \union {None}]
  BY <1>1
<1> QED
  BY <1>1, <1>2 DEF Prints, Green!Fingerprint

LEMMA NoteKeeps == ASSUME Green!ProjectMakesSense, GreenInv, Green!Note(terminal) PROVE GreenInv'
<1> DEFINE p == proc[terminal]
<1>0. p \in Processes /\ p.pc = "ran" /\ UNCHANGED disk /\ past \in Histories
      /\ p.failed = {t \in p.chosen : Green!Fails(t)} /\ p.command \in CommandLines
      /\ (p.command = "full" => p.chosen = Green!Present)
  BY DEF GreenInv, GreenTyped, Green!Note, Green!At, Sees
<1>1. past' = [past EXCEPT !.red = IF p.failed = {} THEN @ \ p.chosen ELSE @]
  BY DEF Green!Note
<1>2. past'.red = (IF p.failed = {} THEN past.red \ p.chosen ELSE past.red) /\ past'.left = past.left
      /\ past'.red \subseteq past.red /\ past' \in Histories
  BY <1>0, <1>1 DEF Histories
<1> SUFFICES GreenTyped' /\ Sees(proc[terminal])'
  BY <1>0, <1>2, SameRecord DEF GreenInv
<1>4. CASE proc' = [proc EXCEPT ![terminal] = [p EXCEPT !.pc = "passing", !.print = Green!Fingerprint]]
           /\ p.failed = {} /\ Green!Covers(p.command)
  <2> PICK point \in Prints : point = Green!Fingerprint
    BY FingerprintIsTyped
  <2> PICK q : q = [p EXCEPT !.pc = "passing", !.print = point]
    OBVIOUS
  <2>1. q \in Processes /\ q.pc = "passing" /\ q.print = point /\ q.command = p.command /\ q.chosen = p.chosen
    BY <1>0 DEF Processes
  <2>2. proc'[terminal] = q /\ GreenTyped'
    BY <1>0, <1>2, <1>4, <2>1 DEF GreenInv, GreenTyped
  <2>3. past'.red \intersect q.chosen = {} /\ \A t \in q.chosen : ~ Breaks(t)
    BY <1>0, <1>2, <1>4, <2>1 DEF Breaks, Green!Fails
  <2>4. q.command \in {"bare", "based", "full"}
    BY <1>4, <2>1 DEF Green!Covers
  <2>5. Green!Fingerprint' = point /\ (\A t \in q.chosen : ~ Breaks(t)') /\ Green!Present' = Green!Present
    BY <1>0, <2>3, SameFiles
  <2>6. Sees(q)'
    BY <1>0, <2>1, <2>3, <2>4, <2>5 DEF Sees, CommandLines
  <2> QED
    BY <2>2, <2>6
<1>5. CASE proc' = [proc EXCEPT ![terminal] = [p EXCEPT !.pc = "failing", !.print = disk.record]]
           /\ Green!Names(p.command)
  <2> PICK q : q = [p EXCEPT !.pc = "failing", !.print = disk.record]
    OBVIOUS
  <2>1. q \in Processes /\ q.pc = "failing" /\ q.print = disk.record /\ q.command = p.command /\ q.chosen = p.chosen
        /\ q.failed = p.failed
    BY <1>0 DEF Processes, GreenInv, GreenTyped, Repositories
  <2>2. proc'[terminal] = q /\ GreenTyped'
    BY <1>0, <1>2, <1>5, <2>1 DEF GreenInv, GreenTyped
  <2>3. Green!Present' = Green!Present /\ disk.runner = "pytest"
    BY <1>0, <1>5, SameFiles DEF Green!Names
  <2>4. Sees(q)'
    BY <1>0, <2>1, <2>3 DEF Sees
  <2> QED
    BY <2>2, <2>4
<1>6. CASE proc' = [proc EXCEPT ![terminal] = Green!Idle]
  <2>1. proc'[terminal] = Green!Idle
    BY <1>6 DEF GreenInv, GreenTyped
  <2>2. GreenTyped'
    BY <1>0, <1>2, <1>6, IdleIsTyped DEF GreenInv, GreenTyped
  <2> QED
    BY <2>1, <2>2, IdleSees
<1> QED
  BY <1>4, <1>5, <1>6 DEF Green!Note, Green!Go

\* A covering run that has passed leaves the record sound: a test that is not
\* let off has nothing broken to import.
LEMMA RecordPassKeeps == ASSUME Green!ProjectMakesSense, GreenInv, Green!RecordPass(terminal) PROVE GreenInv'
<1> USE DEF Green!RecordPass
<1> DEFINE p == proc[terminal]
<1> PICK left : left = (past.left \union Green!Promised(p.command)) \ p.chosen
  OBVIOUS
<1> PICK point \in Prints : point = Green!Fingerprint
  BY FingerprintIsTyped
<1>1. p \in Processes /\ p.print = point /\ proc' = [proc EXCEPT ![terminal] = Green!Idle]
      /\ disk' = [disk EXCEPT !.record = point] /\ disk \in Repositories /\ past \in Histories
      /\ past' = [past EXCEPT !.left = left]
  BY DEF GreenInv, GreenTyped, Sees, Green!At, Green!Go
<1>2. p.command \in {"bare", "based", "full"} /\ past.red \intersect p.chosen = {} /\ (\A t \in p.chosen : ~ Breaks(t))
      /\ (p.command = "full" => p.chosen = Green!Present)
  BY DEF GreenInv, Sees, Green!At
<1>3. /\ Green!Promised(p.command) \subseteq Cases
      /\ \A t \in Cases : t \in Green!Planned("bare") => t \in Green!Promised(p.command)
  <2>1. CASE p.command = "full"
    BY <2>1 DEF Green!Promised, Green!Planned, Green!Reached, Green!Present
  <2>2. CASE p.command # "full"
    <3>1. Green!Promised(p.command) = Green!Planned("bare")
      BY <1>2, <2>2 DEF Green!Promised
    <3> QED
      BY <3>1 DEF Green!Planned, Green!Reached, Green!Present
  <2> QED
    BY <2>1, <2>2
<1>4. left \in SUBSET Cases
  BY <1>1, <1>3 DEF Histories
<1>5. past' \in Histories /\ past'.left = left /\ past'.red = past.red
  BY <1>1, <1>4 DEF Histories
<1>6. disk' \in Repositories /\ disk'.record = point /\ proc'[terminal] = Green!Idle
      /\ disk'.commits = disk.commits /\ disk'.head = disk.head /\ disk'.work = disk.work /\ disk'.runner = disk.runner
  BY <1>1 DEF Repositories, GreenInv, GreenTyped
<1>7. GreenTyped' /\ Kept' /\ Sees(proc[terminal])'
  BY <1>1, <1>5, <1>6, IdleIsTyped, IdleSees, SameFiles DEF GreenInv, GreenTyped
<1>8. \A t \in Cases \ left : ~ Shows(t)
  BY <1>2, <1>3, BareFinds DEF Shows, Breaks
<1>9. ASSUME NEW f \in Sources PROVE Then(point, f) = disk.work[f] \/ (f \in Green!Unhashed /\ Then(point, f) = None)
  <2>1. f \in Green!Dirty => Then(point, f) = Green!Hash(f)
    BY DEF Then, Green!Fingerprint
  <2>2. f \notin Green!Dirty => Then(point, f) = disk.work[f]
    BY DEF Then, Green!Fingerprint, Green!Dirty
  <2>3. f \in Green!Dirty => Green!Hash(f) = disk.work[f] \/ (f \in Green!Unhashed /\ Green!Hash(f) = None)
    BY DEF Green!Hash, Green!Unhashed, GreenInv, Kept
  <2> QED
    BY <2>1, <2>2, <2>3
<1>10. \A t \in Cases \ left : \A f \in Imports[t] : Then(point, f) # Green!Broken
  <2> SUFFICES ASSUME NEW t \in Cases \ left, NEW f \in Imports[t] PROVE Then(point, f) # Green!Broken
    OBVIOUS
  <2>1. f \in Sources /\ None # Green!Broken
    BY DEF Green!ProjectMakesSense, Green!Broken
  <2>2. f \notin Green!Unhashed => disk.work[f] # Green!Broken
    BY <1>8 DEF Shows
  <2>3. f \in Green!Unhashed => Then(point, f) = None
    BY <2>1 DEF Then, Green!Fingerprint, Green!Hash, Green!Unhashed
  <2> QED
    BY <1>9, <2>1, <2>2, <2>3
<1>11. point.commit = disk.head /\ DOMAIN point.files = Green!Dirty /\ point.failed = {}
  BY DEF Green!Fingerprint
<1>12. \A f \in Green!Dirty : disk.work[f] # Green!Committed(disk.head)[f]
  BY DEF Green!Dirty
<1>13. \A r, f : Then(r, f)' = Then(r, f)
  BY <1>6, SameFiles DEF Then
<1>14. Sound(disk.record)'
  BY <1>5, <1>6, <1>10, <1>11, <1>12, <1>13, SameFiles DEF Sound, GreenInv, Kept
<1>15. past.red \subseteq left
  BY <1>1, <1>2, <1>3, BareFinds DEF GreenInv, Remembers, Histories
<1>16. Remembers'
  BY <1>5, <1>6, <1>11, <1>15 DEF Remembers, Green!LastFailed
<1> QED
  BY <1>7, <1>14, <1>16 DEF GreenInv

LEMMA RecordFailureKeeps == ASSUME Green!ProjectMakesSense, GreenInv, Green!RecordFailure(terminal) PROVE GreenInv'
<1> USE DEF Green!RecordFailure
<1> DEFINE p == proc[terminal]
<1>1. p \in Processes /\ p.print = disk.record /\ p.failed \subseteq p.chosen /\ disk.runner = "pytest"
      /\ proc' = [proc EXCEPT ![terminal] = Green!Idle] /\ disk \in Repositories /\ past \in Histories
  BY DEF GreenInv, GreenTyped, Sees, Green!At, Green!Go
<1> PICK old \in Prints : old = disk.record
  BY <1>1 DEF Repositories
<1> PICK kept \in Green!Merged(old.failed, p.chosen) :
       /\ disk' = [disk EXCEPT !.record = [old EXCEPT !.failed = kept]]
       /\ past' = [past EXCEPT !.red = @ \union p.failed, !.left = (@ \union p.failed) \ kept]
  BY <1>1
<1>2. kept \subseteq Sources /\ old.failed \subseteq kept
  BY <1>1 DEF Green!Merged, Prints, Processes, Green!ProjectMakesSense
<1> PICK record \in Prints : record = [old EXCEPT !.failed = kept]
  BY <1>2 DEF Prints
<1>3. record.commit = old.commit /\ record.files = old.files /\ record.failed = kept
  BY DEF Prints
<1>4. disk' = [disk EXCEPT !.record = record]
  OBVIOUS
<1>5. disk' \in Repositories /\ disk'.record = record /\ proc'[terminal] = Green!Idle
      /\ disk'.commits = disk.commits /\ disk'.head = disk.head /\ disk'.work = disk.work /\ disk'.runner = disk.runner
  BY <1>1, <1>4 DEF Repositories, GreenInv, GreenTyped
<1>6. past'.red = past.red \union p.failed /\ past'.left = (past.left \union p.failed) \ kept /\ past' \in Histories
  BY <1>1 DEF Histories, Processes
<1>7. GreenTyped' /\ Kept' /\ Sees(proc[terminal])'
  BY <1>1, <1>5, <1>6, IdleIsTyped, IdleSees, SameFiles DEF GreenInv, GreenTyped
<1>8. past.left \union old.failed \subseteq past'.left \union record.failed
  BY <1>2, <1>3, <1>6
<1>9. Sound(record)'
  BY <1>3, <1>5, <1>8, SameFiles DEF GreenInv
<1>11. Sound(disk.record)'
  BY <1>5, <1>9
<1>12. Remembers'
  BY <1>1, <1>2, <1>3, <1>5, <1>6 DEF Remembers, Green!LastFailed, GreenInv
<1> QED
  BY <1>7, <1>11, <1>12 DEF GreenInv

LEMMA InterruptKeeps == ASSUME Green!ProjectMakesSense, GreenInv, Green!Interrupt(terminal) PROVE GreenInv'
<1>1. proc' = [proc EXCEPT ![terminal] = Green!Idle] /\ UNCHANGED <<disk, past>>
  BY DEF Green!Interrupt, Green!Go
<1>2. GreenTyped' /\ proc'[terminal] = Green!Idle
  BY <1>1, IdleIsTyped DEF GreenInv, GreenTyped
<1>3. Sees(proc[terminal])'
  BY <1>2, IdleSees
<1> QED
  BY <1>1, <1>2, <1>3, SameRecord DEF GreenInv

\* People edit, commit and switch while no command runs.
LEMMA AtRest == ASSUME GreenInv, Green!Quiet, UNCHANGED proc PROVE Sees(proc[terminal])'
<1>1. proc[terminal] = Green!Idle
  BY DEF Green!Quiet, Green!At, GreenInv, Sees
<1> QED
  BY <1>1, IdleSees

LEMMA EditKeeps == ASSUME Green!ProjectMakesSense, GreenInv, Green!Edit PROVE GreenInv'
<1> USE DEF Green!Edit
<1> PICK f \in Sources, c \in Green!Contents :
       /\ c # Green!Gone /\ ~Green!Restores(f, c)
       /\ disk' = [disk EXCEPT !.work[f] = c]
  OBVIOUS
<1>1. past' = [past EXCEPT !.edits = @ + 1] /\ UNCHANGED proc /\ Green!Quiet /\ disk \in Repositories
  BY DEF GreenInv, GreenTyped
<1> DEFINE work == [disk.work EXCEPT ![f] = c]
<1>2. work \in Trees /\ disk' = [disk EXCEPT !.work = work]
  BY <1>1 DEF Repositories, Trees
<1>3. disk' \in Repositories /\ disk'.work = work /\ disk'.commits = disk.commits /\ disk'.head = disk.head
      /\ disk'.record = disk.record /\ disk'.runner = disk.runner
  BY <1>1, <1>2 DEF Repositories
<1>4. GreenTyped' /\ past'.red = past.red /\ past'.left = past.left
  BY <1>1, <1>3 DEF GreenInv, GreenTyped, Histories
<1>5. /\ \A i : Green!Committed(i)' = Green!Committed(i)
      /\ \A i : Green!Ancestors(i)' = Green!Ancestors(i)
  BY <1>3 DEF Green!Committed, Green!Ancestors
<1>6. Kept'
  BY <1>2, <1>3, <1>5 DEF Kept, GreenInv, Trees
<1>7. Sound(disk.record)'
  BY <1>1, <1>3, <1>4, <1>5 DEF Sound, Then, GreenInv, Green!Restores, Green!UsableAt, Repositories, Trees
<1>8. Sees(proc[terminal])' /\ Remembers'
  BY <1>1, <1>3, <1>4, AtRest DEF GreenInv, Remembers, Green!LastFailed
<1> QED
  BY <1>4, <1>6, <1>7, <1>8 DEF GreenInv

LEMMA SickenKeeps == ASSUME Green!ProjectMakesSense, GreenInv, Green!Sicken PROVE GreenInv'
<1> USE DEF Green!Sicken
<1>1. Green!Quiet /\ UNCHANGED <<disk, proc>> /\ past'.red = past.red /\ past'.left = past.left
      /\ past' \in Histories
  BY DEF GreenInv, GreenTyped, Histories
<1> QED
  BY <1>1, SameRecord, AtRest DEF GreenInv, GreenTyped

LEMMA CommitKeeps == ASSUME Green!ProjectMakesSense, GreenInv, Green!Commit PROVE GreenInv'
<1> USE DEF Green!Commit
<1> PICK n : n = Len(disk.commits) + 1
  OBVIOUS
<1> PICK new : new = [line |-> Green!Ancestors(disk.head) \union {n}, tree |-> disk.work]
  OBVIOUS
<1>1. Green!Quiet /\ UNCHANGED <<proc, past>> /\ disk \in Repositories /\ disk.head \in DOMAIN disk.commits
      /\ disk' = [disk EXCEPT !.commits = Append(disk.commits, new), !.head = n]
  BY DEF GreenInv, GreenTyped, Kept
<1>2. Green!Ancestors(disk.head) \subseteq DOMAIN disk.commits /\ DOMAIN disk.commits = 1 .. Len(disk.commits)
      /\ Len(disk.commits) \in Nat /\ disk.commits \in Seq(Commits) /\ disk.work \in Trees
  BY <1>1 DEF Kept, GreenInv, Repositories
<1>3. new \in Commits
  BY <1>2 DEF Commits
<1>4. Append(disk.commits, new) \in Seq(Commits) /\ n \in Nat
  BY <1>2, <1>3
<1>5. disk' \in Repositories /\ disk'.work = disk.work /\ disk'.commits = Append(disk.commits, new) /\ disk'.head = n
      /\ disk'.record = disk.record /\ disk'.runner = disk.runner
  BY <1>1, <1>4 DEF Repositories
<1>6. DOMAIN disk'.commits = DOMAIN disk.commits \union {n} /\ Len(disk'.commits) = n /\ n \notin DOMAIN disk.commits
      /\ disk'.commits[n] = new /\ \A i \in DOMAIN disk.commits : disk'.commits[i] = disk.commits[i]
  BY <1>2, <1>3, <1>5
<1>7. /\ \A i \in DOMAIN disk.commits : Green!Committed(i)' = Green!Committed(i) /\ Green!Ancestors(i)' = Green!Ancestors(i)
      /\ Green!Committed(n)' = disk.work /\ Green!Ancestors(n)' = Green!Ancestors(disk.head) \union {n}
  BY <1>6 DEF Green!Committed, Green!Ancestors
<1>8. GreenTyped'
  BY <1>1, <1>5 DEF GreenInv, GreenTyped
<1>9. Kept'
  BY <1>2, <1>5, <1>6, <1>7 DEF Kept, GreenInv
<1>10. Sound(disk.record)'
  BY <1>5, <1>6, <1>7 DEF Sound, Then, GreenInv
<1>11. Sees(proc[terminal])' /\ Remembers'
  BY <1>1, <1>5, AtRest DEF GreenInv, Remembers, Green!LastFailed
<1> QED
  BY <1>8, <1>9, <1>10, <1>11 DEF GreenInv

LEMMA SwitchKeeps == ASSUME Green!ProjectMakesSense, GreenInv, Green!Switch PROVE GreenInv'
<1> USE DEF Green!Switch
<1> PICK i \in DOMAIN disk.commits : ~Green!UsableAt(i) /\ disk' = [disk EXCEPT !.head = i, !.work = Green!Committed(i)]
  OBVIOUS
<1>1. Green!Quiet /\ UNCHANGED <<proc, past>> /\ disk \in Repositories
  BY DEF GreenInv, GreenTyped
<1> DEFINE tree == Green!Committed(i)
<1>2. disk.commits \in Seq(Commits) /\ i \in 1 .. Len(disk.commits)
  BY <1>1 DEF Repositories
<1>3. disk' = [disk EXCEPT !.head = i, !.work = tree]
  OBVIOUS
<1>4. disk.commits[i] \in Commits
  BY <1>2
<1>5. tree \in Trees /\ i \in Nat
  BY <1>2, <1>4 DEF Green!Committed, Commits
<1>6. disk' \in Repositories /\ disk'.work = tree /\ disk'.commits = disk.commits /\ disk'.head = i /\ disk'.record = disk.record
      /\ disk'.runner = disk.runner
  BY <1>1, <1>5, <1>3 DEF Repositories
<1>7. /\ \A j : Green!Committed(j)' = Green!Committed(j)
      /\ \A j : Green!Ancestors(j)' = Green!Ancestors(j)
  BY <1>6 DEF Green!Committed, Green!Ancestors
<1>8. GreenTyped'
  BY <1>1, <1>6 DEF GreenInv, GreenTyped
<1>9. Kept'
  BY <1>6, <1>7 DEF Kept, GreenInv
<1>10. Sound(disk.record)'
  BY <1>6, <1>7 DEF Sound, Then, GreenInv, Green!UsableAt
<1>11. Sees(proc[terminal])' /\ Remembers'
  BY <1>1, <1>6, AtRest DEF GreenInv, Remembers, Green!LastFailed
<1> QED
  BY <1>8, <1>9, <1>10, <1>11 DEF GreenInv

LEMMA GreenStepwise == ASSUME Green!ProjectMakesSense, GreenInv, [Green!Next]_files PROVE GreenInv'
<1>1. CASE UNCHANGED files
  <2>1. UNCHANGED <<disk, proc, past>>
    BY <1>1 DEF files
  <2>2. GreenTyped'
    BY <2>1 DEF GreenInv, GreenTyped
  <2>3. Sees(proc[terminal])'
    BY <2>1, SameFiles DEF GreenInv, Sees
  <2> QED
    BY <2>1, <2>2, <2>3, SameRecord DEF GreenInv
<1> QED
  BY <1>1, ConsultKeeps, ExecuteKeeps, NoteKeeps, RecordPassKeeps, RecordFailureKeeps, InterruptKeeps, EditKeeps,
     SickenKeeps, CommitKeeps, SwitchKeeps DEF Green!Next

\* LastGreen!BareFindsBreakage and FailuresReturn for any project, its caps and
\* either runner, where a behaviour is of the record, of one terminal, with no file
\* edited while a command runs, deleted or put back: the static plan of a bare run
\* has every test that something broken is imported by, and every test file whose
\* last reported run failed, but those that a passing run with a plan left out
\* (the selection engine or --base), and those past the cap.  (lastgreen.py, cli.py)
THEOREM RecordsAreSound == Spec => []RecordIsSound
<1>1. Init /\ part = "green" => Green!Init
  BY DEF Init
<1>2. part = "green" /\ [Next]_vars => [Green!Next]_files
  BY DEF Next, vars
<1>3. Green!Init => GreenInv
  BY ProjectAssumption, GreenStarts
<1>4. GreenInv /\ [Green!Next]_files => GreenInv'
  BY ProjectAssumption, GreenStepwise
<1>5. part = "green" /\ GreenInv => RecordIsSound
  BY ProjectAssumption, GreenTells DEF RecordIsSound, Green!RecordIsSound
<1>6. ~ (part = "green") => RecordIsSound
  BY DEF RecordIsSound
<1>7. (part = "green" /\ [Next]_vars => (part = "green")') /\ (~ (part = "green") /\ [Next]_vars => ~ (part = "green")')
  BY DEF Next, vars
<1> QED
  BY <1>1, <1>2, <1>3, <1>4, <1>5, <1>6, <1>7, PTL DEF Spec

-----------------------------------------------------------------------------
(***************************************************************************)
(* What the bridge says of a parallel run is so, for any number of workers *)
(* and tests.                                                              *)
(*                                                                         *)
(* HalfSound is what a worker half knows of itself.  Lived ties the tests  *)
(* it has run to what became of them, Carried what it has sent to what it  *)
(* knows, Heard what the controller has received to both.  Echoed says of  *)
(* the inventory: the last report of a test that counts, if it has not yet *)
(* been received, and otherwise the inventory, says what the worker knows, *)
(* unless the report of a failure was softened on the way, and then the    *)
(* failures of the two do not add up.                                      *)
(***************************************************************************)
Phases == {"setup", "call", "teardown"}
Stages == Phases \union {"none", "last call"}
Outcomes == Suite!Outcomes
Halves ==
  [pc : {"collecting", "ready", "leaving", "finished", "dead"}, collected : SUBSET Cases, items : SUBSET Cases,
   test : Cases \union {None}, phase : Stages, seen : SUBSET Cases, outcomes : [Cases -> Outcomes \union {None}],
   failures : SUBSET (Cases \X Phases), errors : {0, 1}, dropped : BOOLEAN, refused : BOOLEAN]
Records ==
  [seen : SUBSET Cases, failures : SUBSET (Cases \X Phases), errors : {0, 1}, dropped : BOOLEAN,
   refused : BOOLEAN, outcomes : [Cases -> Outcomes \union {None}]]
Reports == [kind : {"report"}, test : Cases, phase : Phases, outcome : Outcomes, sub : BOOLEAN]
Messages ==
  [kind : {"error"}] \union [kind : {"collected"}, ids : SUBSET Cases] \union Reports
    \union [kind : {"finished"}, record : Records]
Hubs ==
  [collections : [Gateways -> {None} \union SUBSET Cases],
   down : SUBSET Gateways, lost : SUBSET Gateways, records : [Gateways -> {None} \union Records],
   reported : SUBSET Cases, failures : SUBSET (Cases \X (Phases \union {"crash"})), errors : {0, 1},
   refused : BOOLEAN, inventory : [Cases -> Outcomes \union {None, "unknown"}], stop : BOOLEAN,
   pc : {"loop", "done"}, expected : SUBSET Cases, observed : SUBSET Cases, marker : BOOLEAN]
SuiteTyped ==
  /\ grant \in Grants
  /\ worker \in [Gateways -> Halves] /\ wire \in [Gateways -> Seq(Messages)] /\ hub \in Hubs
  /\ todo \in {None} \union SUBSET Cases /\ truth \in [Cases -> Outcomes \union {"unrun", "running"}]

\* The test is over for the worker, but for the end of its teardown.
Over(h, t) == t \in h.seen /\ ~ h.refused /\ (h.phase \in {"none", "teardown"} \/ h.test # t)
HalfSound(h) ==
  /\ h.seen \subseteq h.items
  /\ h.dropped = Suite!DroppedAfter(h.collected, h.items)
  /\ h.pc = "collecting" => h = Suite!Fresh
  /\ h.phase # "none" => h.pc \in {"ready", "dead"} /\ h.test \in h.seen
  /\ h.pc = "leaving" => h.refused
  /\ h.pc = "ready" => ~ h.refused
  /\ \A t \in Cases : t \notin h.seen => h.outcomes[t] = None /\ \A ph \in Phases : <<t, ph>> \notin h.failures
  /\ h.phase = "setup" => h.outcomes[h.test] = None
  /\ h.phase \in {"setup", "call", "last call"} => \A ph \in Phases : <<h.test, ph>> \notin h.failures
  /\ h.phase = "teardown" => <<h.test, "teardown">> \notin h.failures
  /\ \A t \in Cases : Over(h, t) =>
       /\ h.outcomes[t] \in Outcomes
       /\ h.outcomes[t] \in {"failed", "error"} => \E ph \in Phases : <<t, ph>> \in h.failures

\* What became of the tests.
Lived ==
  /\ \A v, w \in Gateways : v # w => worker[v].seen \intersect worker[w].seen = {}
  /\ todo = None => \A w \in Gateways : worker[w].seen = {}
  /\ todo # None => \A w \in Gateways : todo \intersect worker[w].seen = {}
  /\ \A t \in Cases : truth[t] # "unrun" <=> \E w \in Gateways : t \in worker[w].seen
  /\ \A w \in Gateways : \A t \in Cases :
       worker[w].pc # "dead" /\ Over(worker[w], t) => truth[t] = worker[w].outcomes[t]

Elements(s) == {s[i] : i \in 1 .. Len(s)}

\* What a worker has sent and the controller has not received.
Carries(w, m) ==
  /\ m.kind = "collected" =>
       m.ids = worker[w].items /\ hub.collections[w] = None /\ worker[w].pc # "collecting"
  /\ m.kind = "report" =>
       /\ m.test \in worker[w].seen
       /\ m.outcome = "failed" => <<m.test, m.phase>> \in worker[w].failures
       /\ Suite!Final(m) => truth[m.test] \in Outcomes
  /\ m.kind = "finished" => worker[w].pc = "finished" /\ m.record = Suite!RecordFrom(worker[w])
Ordered(s) ==
  \A i \in 1 .. Len(s) :
    /\ s[i].kind = "finished" => \A j \in 1 .. Len(s) : j <= i
    /\ s[i].kind = "collected" => \A j \in 1 .. Len(s) : s[j].kind = "collected" => i = j
Carried ==
  \A w \in Gateways :
    /\ worker[w].pc = "collecting" => wire[w] = <<>> /\ hub.collections[w] = None
    /\ Ordered(wire[w])
    /\ \A m \in Elements(wire[w]) : Carries(w, m)

\* What the controller has received.
Heard ==
  /\ \A w \in Gateways :
       /\ hub.collections[w] # None => hub.collections[w] = worker[w].items
       /\ todo # None => hub.collections[w] # None
       /\ w \in hub.down => wire[w] = <<>> /\ worker[w].pc \in {"finished", "dead"}
       /\ w \in hub.down \ hub.lost =>
            worker[w].pc = "finished" /\ hub.records[w] = Suite!RecordFrom(worker[w])
       /\ w \in hub.lost => w \in hub.down
  /\ \A t \in hub.reported : truth[t] # "unrun"
  /\ \A t \in hub.observed : truth[t] \in Outcomes
  /\ \A t \in Cases : \A ph \in Phases : <<t, ph>> \in hub.failures => \E w \in Gateways : <<t, ph>> \in worker[w].failures
  /\ \A t \in Cases : <<t, "crash">> \in hub.failures => hub.lost # {}
  /\ hub.marker /\ hub.pc = "loop" => hub.expected \subseteq hub.observed /\ hub.collections # Suite!Unheard
  /\ hub.expected # {} => hub.collections # Suite!Unheard

\* What the inventory says.
Tells(m, t) == m.kind = "report" /\ m.test = t /\ Suite!Counted(m.phase, m.outcome)
Trusted(w, t) ==
  \A ph \in Phases : <<t, ph>> \in worker[w].failures =>
    \/ <<t, ph>> \in hub.failures
    \/ \E m \in Elements(wire[w]) :
         m.kind = "report" /\ m.test = t /\ m.phase = ph /\ m.outcome = "failed"
Known(w, t) == IF worker[w].outcomes[t] = None THEN "unknown" ELSE worker[w].outcomes[t]
Echoes(s, t, known, told) ==
  /\ \A i \in 1 .. Len(s) :
       Tells(s[i], t) /\ (\A j \in 1 .. Len(s) : j > i => ~ Tells(s[j], t)) =>
         Suite!Word(s[i].phase, s[i].outcome) = known
  /\ (\A i \in 1 .. Len(s) : ~ Tells(s[i], t)) => told = known
Echoed ==
  /\ ~ grant.advanced => hub.inventory = Suite!Untold
  /\ ~ hub.refused => \A t \in Cases : hub.inventory[t] # None =>
       /\ truth[t] = "unrun" => hub.inventory[t] = "unknown"
       /\ \A w \in Gateways : t \in worker[w].seen /\ Trusted(w, t) =>
            Echoes(wire[w], t, Known(w, t), hub.inventory[t])

\* After the verdict of a run that is complete nothing happens any more.
Closed ==
  /\ report # None => hub.pc = "done"
  /\ report # None /\ report.complete => \A w \in Gateways : worker[w].pc = "finished"

SuiteInv ==
  /\ SuiteTyped /\ (\A w \in Gateways : HalfSound(worker[w]))
  /\ Lived /\ Carried /\ Heard /\ Echoed /\ Closed
  /\ Suite!PassIsWhole /\ Suite!CountsAreTrue

LEMMA SuiteStarts == ASSUME Suite!SessionMakesSense, Suite!Init PROVE SuiteInv
<1> USE DEF Suite!Init
<1> DEFINE noone == Suite!Fresh
<1>1. /\ noone = [pc |-> "collecting", collected |-> {}, items |-> {}, test |-> None, phase |-> "none",
          seen |-> {}, outcomes |-> Suite!Untold, failures |-> {}, errors |-> 0, dropped |-> FALSE,
          refused |-> FALSE]
      /\ Suite!Untold = [t \in Cases |-> None]
  BY DEF Suite!Fresh, Suite!Untold
<1>2. noone \in Halves
  BY <1>1 DEF Halves, Stages
<1>3. HalfSound(noone)
  BY <1>1 DEF HalfSound, Over, Suite!DroppedAfter
<1>4. \A w \in Gateways : worker[w] = noone /\ wire[w] = <<>>
  OBVIOUS
<1>5. hub \in Hubs
  BY DEF Hubs, Suite!Unheard, Suite!Untold
<1>6. SuiteTyped
  BY <1>2, <1>5 DEF SuiteTyped
<1>7. Lived
  BY <1>1, <1>4, <1>6 DEF Lived, Over, SuiteTyped
<1>8. Carried
  <2>1. Ordered(<<>>) /\ Elements(<<>>) = {}
    BY DEF Ordered, Elements
  <2>2. \A w \in Gateways : hub.collections[w] = None /\ wire[w] = <<>>
    BY DEF Suite!Unheard
  <2>3. ASSUME NEW w \in Gateways
        PROVE /\ worker[w].pc = "collecting" => wire[w] = <<>> /\ hub.collections[w] = None
              /\ Ordered(wire[w]) /\ \A m \in Elements(wire[w]) : Carries(w, m)
    <3>s. PICK s : s = wire[w]
      OBVIOUS
    <3>1. s = <<>> /\ hub.collections[w] = None
      BY <2>2, <3>s
    <3>2. Ordered(s) /\ Elements(s) = {}
      BY <3>1, <2>1
    <3> QED
      BY <3>1, <3>2, <3>s
  <2> QED
    BY <2>3 DEF Carried
<1>9. Heard
  BY <1>4 DEF Heard, Suite!Unheard
<1>10. Echoed /\ Closed /\ Suite!PassIsWhole /\ Suite!CountsAreTrue
  BY DEF Echoed, Closed, Suite!PassIsWhole, Suite!CountsAreTrue, Suite!Untold
<1> QED
  BY <1>3, <1>4, <1>6, <1>7, <1>8, <1>9, <1>10 DEF SuiteInv

-----------------------------------------------------------------------------
\* A worker half stays sound.
Collected(h, snapshot, items, broken) ==
  [h EXCEPT !.pc = "ready", !.collected = snapshot, !.items = items, !.errors = broken,
            !.dropped = Suite!DroppedAfter(snapshot, items)]
Started(h, t) == [h EXCEPT !.test = t, !.phase = "setup", !.seen = @ \union {t}]
Reported(h, phase, said, next) ==
  [h EXCEPT !.phase = next, !.outcomes = Suite!Recorded(@, h.test, phase, said),
            !.failures = IF said = "failed" THEN @ \union {<<h.test, phase>>} ELSE @]

LEMMA HalfCollects ==
  ASSUME NEW h \in Halves, HalfSound(h), h.pc = "collecting",
         NEW snapshot \in SUBSET Cases, NEW items \in SUBSET Cases, items \subseteq snapshot, NEW broken \in {0, 1},
         NEW k, k = Collected(h, snapshot, items, broken), grant.full \in BOOLEAN
  PROVE k \in Halves /\ HalfSound(k) /\ k.seen = {} /\ k.failures = {} /\ k.outcomes = h.outcomes /\ k.phase = "none"
        /\ k.pc = "ready" /\ k.items = items
<1> USE DEF Collected
<1>1. h = Suite!Fresh
  BY DEF HalfSound
<1>2. Suite!DroppedAfter(snapshot, items) \in BOOLEAN
  BY DEF Suite!DroppedAfter
<1>3. k \in Halves
  BY <1>2 DEF Halves
<1>4. k.seen = {} /\ k.failures = {} /\ k.outcomes = Suite!Untold /\ k.phase = "none" /\ k.refused = FALSE
      /\ k.pc = "ready" /\ k.collected = snapshot /\ k.items = items /\ k.dropped = Suite!DroppedAfter(snapshot, items)
  BY <1>1 DEF Suite!Fresh, Halves
<1>5. \A t \in Cases : k.outcomes[t] = None /\ (\A ph \in Phases : <<t, ph>> \notin k.failures) /\ ~ Over(k, t)
  BY <1>4 DEF Over, Suite!Untold
<1>6. HalfSound(k)
  BY <1>4, <1>5 DEF HalfSound
<1> QED
  BY <1>1, <1>3, <1>4, <1>6 DEF Suite!Fresh

LEMMA HalfStarts ==
  ASSUME NEW h \in Halves, HalfSound(h), h.pc = "ready", h.phase = "none", NEW t \in h.items, t \notin h.seen,
         NEW k, k = Started(h, t)
  PROVE k \in Halves /\ HalfSound(k)
        /\ k.test = t /\ k.phase = "setup" /\ k.seen = h.seen \union {t} /\ k.outcomes = h.outcomes
        /\ k.failures = h.failures /\ k.refused = h.refused /\ k.pc = h.pc /\ k.items = h.items /\ t \in Cases
<1> USE DEF Started
<1>1. /\ k.test = t /\ k.phase = "setup" /\ k.seen = h.seen \union {t} /\ k.outcomes = h.outcomes
      /\ k.failures = h.failures /\ k.refused = h.refused /\ k.pc = h.pc /\ k.items = h.items
      /\ k.collected = h.collected /\ k.dropped = h.dropped /\ k.errors = h.errors /\ t \in Cases
  BY DEF Halves
<1>a. h.seen \union {t} \in SUBSET Cases /\ t \in Cases \union {None} /\ "setup" \in Stages
  BY <1>1 DEF Halves, Stages, Phases
<1>2. k \in Halves
  BY <1>a DEF Halves
<1>3. \A u \in Cases : Over(k, u) => Over(h, u)
  BY <1>1 DEF Over
<1>4. k.seen \subseteq k.items /\ k.dropped = Suite!DroppedAfter(k.collected, k.items)
  BY <1>1 DEF HalfSound
<1>5. \A u \in Cases : u \notin k.seen => k.outcomes[u] = None /\ \A ph \in Phases : <<u, ph>> \notin k.failures
  BY <1>1 DEF HalfSound
<1>6. k.outcomes[t] = None /\ \A ph \in Phases : <<t, ph>> \notin k.failures
  BY <1>1 DEF HalfSound
<1>7. \A u \in Cases : Over(k, u) =>
        /\ k.outcomes[u] \in Outcomes
        /\ k.outcomes[u] \in {"failed", "error"} => \E ph \in Phases : <<u, ph>> \in k.failures
  BY <1>1, <1>3 DEF HalfSound
<1>8. HalfSound(k)
  BY <1>1, <1>4, <1>5, <1>6, <1>7 DEF HalfSound
<1> QED
  BY <1>1, <1>2, <1>8

Leaves(h, k) ==
  \/ h.pc = "ready" /\ k = [h EXCEPT !.refused = TRUE, !.phase = "none", !.pc = "leaving"]
  \/ h.pc = "leaving" /\ k = [h EXCEPT !.pc = "finished"]
  \/ h.pc = "ready" /\ h.phase = "none" /\ k = [h EXCEPT !.pc = "finished"]
  \/ h.pc \in {"collecting", "ready", "leaving"} /\ k = [h EXCEPT !.pc = "dead"]

LEMMA HalfLeaves ==
  ASSUME NEW h \in Halves, HalfSound(h), NEW k, Leaves(h, k)
  PROVE /\ k \in Halves /\ HalfSound(k) /\ k.seen = h.seen /\ k.outcomes = h.outcomes /\ k.failures = h.failures
        /\ k.items = h.items /\ k.pc \in {"leaving", "finished", "dead"}
        /\ \A u \in Cases : Over(k, u) => Over(h, u)
<1> DEFINE Same ==
      /\ k.seen = h.seen /\ k.outcomes = h.outcomes /\ k.failures = h.failures /\ k.items = h.items
      /\ k.test = h.test /\ k.collected = h.collected /\ k.dropped = h.dropped /\ k.errors = h.errors
<1>1. CASE h.pc = "ready" /\ k = [h EXCEPT !.refused = TRUE, !.phase = "none", !.pc = "leaving"]
  <2>1. k \in Halves /\ Same /\ k.pc = "leaving" /\ k.phase = "none" /\ k.refused
    BY <1>1 DEF Halves, Stages
  <2> QED
    BY <2>1 DEF HalfSound, Over
<1>2. CASE h.pc \in {"leaving", "ready"} /\ h.phase = "none" /\ k = [h EXCEPT !.pc = "finished"]
  <2>1. k \in Halves /\ Same /\ k.pc = "finished" /\ k.phase = "none" /\ k.refused = h.refused
    BY <1>2 DEF Halves
  <2> QED
    BY <1>2, <2>1 DEF HalfSound, Over
<1>3. CASE k = [h EXCEPT !.pc = "dead"]
  <2>1. k \in Halves /\ Same /\ k.pc = "dead" /\ k.phase = h.phase /\ k.refused = h.refused
    BY <1>3 DEF Halves
  <2> QED
    BY <2>1 DEF HalfSound, Over
<1>4. h.pc = "leaving" => h.phase = "none"
  BY DEF HalfSound
<1> QED
  BY <1>1, <1>2, <1>3, <1>4 DEF Leaves

\* The reports of a test, in the phases pytest takes it through.
Legal(h, phase, said, sub, next) ==
  \/ /\ phase = "setup" /\ h.phase = "setup" /\ sub = FALSE
     /\ \/ said = "passed" /\ next = "call"
        \/ said \in {"failed", "skipped"} /\ next = "teardown"
  \/ phase = "call" /\ h.phase = "call" /\ sub = TRUE /\ said = "passed" /\ next = "last call"
  \/ /\ phase = "call" /\ h.phase \in {"call", "last call"} /\ sub = FALSE
     /\ said \in {"passed", "failed", "skipped"} /\ next = "teardown"
  \/ phase = "teardown" /\ h.phase = "teardown" /\ sub = FALSE /\ said \in {"passed", "failed"} /\ next = "none"
Settles(phase, said, sub) == Suite!Counted(phase, said) /\ ~ sub
Speaks(w, phase, said, sub, next) ==
  /\ worker[w].pc = "ready" /\ Legal(worker[w], phase, said, sub, next) /\ Suite!Observe(w, phase, said, sub, next)
  /\ truth' = IF Settles(phase, said, sub) THEN [truth EXCEPT ![worker[w].test] = Suite!Word(phase, said)] ELSE truth
Said == {"passed", "failed", "skipped"}

LEMMA EveryReport ==
  ASSUME NEW w \in Gateways, Suite!Setup(w) \/ Suite!Subtest(w) \/ Suite!Call(w) \/ Suite!Teardown(w)
  PROVE \E phase \in Phases, said \in Said, sub \in BOOLEAN, next \in Stages : Speaks(w, phase, said, sub, next)
<1> USE DEF Speaks, Legal, Settles, Suite!Counted, Suite!Word, Suite!At, Suite!Settle, Phases, Stages, Said
<1>1. CASE Suite!Setup(w)
  <2>1. CASE Suite!Observe(w, "setup", "passed", FALSE, "call") /\ UNCHANGED truth
    <3>1. Speaks(w, "setup", "passed", FALSE, "call")
      BY <1>1, <2>1 DEF Suite!Setup
    <3> QED
      BY <3>1
  <2>2. CASE Suite!Observe(w, "setup", "failed", FALSE, "teardown") /\ Suite!Settle(w, "error")
    <3>1. Speaks(w, "setup", "failed", FALSE, "teardown")
      BY <1>1, <2>2 DEF Suite!Setup
    <3> QED
      BY <3>1
  <2>3. CASE Suite!Observe(w, "setup", "skipped", FALSE, "teardown") /\ Suite!Settle(w, "skipped")
    <3>1. Speaks(w, "setup", "skipped", FALSE, "teardown")
      BY <1>1, <2>3 DEF Suite!Setup
    <3> QED
      BY <3>1
  <2> QED
    BY <1>1, <2>1, <2>2, <2>3 DEF Suite!Setup
<1>2. CASE Suite!Subtest(w)
  <2>1. Speaks(w, "call", "passed", TRUE, "last call")
    BY <1>2 DEF Suite!Subtest
  <2> QED
    BY <2>1
<1>3. CASE Suite!Call(w)
  <2> PICK said \in Said : Suite!Observe(w, "call", said, FALSE, "teardown") /\ Suite!Settle(w, said)
    BY <1>3 DEF Suite!Call
  <2>1. Speaks(w, "call", said, FALSE, "teardown")
    BY <1>3 DEF Suite!Call
  <2> QED
    BY <2>1
<1>4. CASE Suite!Teardown(w)
  <2>1. CASE Suite!Observe(w, "teardown", "passed", FALSE, "none") /\ UNCHANGED truth
    <3>1. Speaks(w, "teardown", "passed", FALSE, "none")
      BY <1>4, <2>1 DEF Suite!Teardown
    <3> QED
      BY <3>1
  <2>2. CASE Suite!Observe(w, "teardown", "failed", FALSE, "none") /\ Suite!Settle(w, "error")
    <3>1. Speaks(w, "teardown", "failed", FALSE, "none")
      BY <1>4, <2>2 DEF Suite!Teardown
    <3> QED
      BY <3>1
  <2> QED
    BY <1>4, <2>1, <2>2 DEF Suite!Teardown
<1> QED
  BY <1>1, <1>2, <1>3, <1>4

\* What a report makes of its half.
Retold(h, k, t, phase, said, sub) ==
  /\ k \in Halves /\ HalfSound(k) /\ k.seen = h.seen /\ k.items = h.items /\ k.pc = h.pc /\ t \in h.seen /\ t \in Cases
  /\ k.failures = h.failures \union (IF said = "failed" THEN {<<t, phase>>} ELSE {})
  /\ <<t, phase>> \notin h.failures
  /\ \A u \in Cases : u # t => k.outcomes[u] = h.outcomes[u] /\ (Over(k, u) <=> Over(h, u))
  /\ Suite!Word(phase, said) \in Outcomes
  /\ Suite!Counted(phase, said) => k.outcomes[t] = Suite!Word(phase, said)
  /\ ~ Suite!Counted(phase, said) => k.outcomes = h.outcomes
  /\ ~ Settles(phase, said, sub) /\ Over(k, t) => Over(h, t) /\ k.outcomes[t] = h.outcomes[t]

LEMMA HalfReports ==
  ASSUME NEW h \in Halves, HalfSound(h), h.pc = "ready",
         NEW phase \in Phases, NEW said \in Said, NEW sub, NEW next \in Stages, Legal(h, phase, said, sub, next),
         NEW k, k = Reported(h, phase, said, next)
  PROVE Retold(h, k, h.test, phase, said, sub)
<1> USE DEF Reported
<1>1. h.phase # "none" /\ h.test \in h.seen /\ h.test \in Cases /\ ~ h.refused
  BY DEF Legal, HalfSound, Halves
<1>2. Suite!Word(phase, said) \in Outcomes
  BY DEF Suite!Word, Said, Outcomes, Suite!Outcomes
<1>3. Suite!Recorded(h.outcomes, h.test, phase, said) \in [Cases -> Outcomes \union {None}]
  BY <1>2 DEF Suite!Recorded, Halves
<1>4. (IF said = "failed" THEN h.failures \union {<<h.test, phase>>} ELSE h.failures) \in SUBSET (Cases \X Phases)
  BY <1>1 DEF Halves
<1>5. k \in Halves
  BY <1>3, <1>4 DEF Halves
<1>6. /\ k.seen = h.seen /\ k.items = h.items /\ k.collected = h.collected /\ k.test = h.test /\ k.phase = next
      /\ k.pc = h.pc /\ k.refused = h.refused /\ k.dropped = h.dropped
      /\ k.outcomes = Suite!Recorded(h.outcomes, h.test, phase, said)
      /\ k.failures = h.failures \union (IF said = "failed" THEN {<<h.test, phase>>} ELSE {})
  BY DEF Halves
<1>7. <<h.test, phase>> \notin h.failures
  BY DEF Legal, HalfSound
<1>8. \A u \in Cases : u # h.test => k.outcomes[u] = h.outcomes[u] /\ (Over(k, u) <=> Over(h, u))
  BY <1>6 DEF Over, Suite!Recorded, Halves
<1>9. /\ Suite!Counted(phase, said) => k.outcomes[h.test] = Suite!Word(phase, said)
      /\ ~ Suite!Counted(phase, said) => k.outcomes = h.outcomes
  BY <1>1, <1>6 DEF Suite!Recorded, Halves
<1>10. ~ Settles(phase, said, sub) /\ Over(k, h.test) => Over(h, h.test) /\ k.outcomes[h.test] = h.outcomes[h.test]
  BY <1>1, <1>6, <1>9 DEF Legal, Settles, Over, Suite!Counted
<1>11. \A u \in Cases : Over(k, u) =>
         /\ k.outcomes[u] \in Outcomes
         /\ k.outcomes[u] \in {"failed", "error"} => \E ph \in Phases : <<u, ph>> \in k.failures
  <2> SUFFICES ASSUME NEW u \in Cases, Over(k, u)
               PROVE /\ k.outcomes[u] \in Outcomes
                     /\ k.outcomes[u] \in {"failed", "error"} => \E ph \in Phases : <<u, ph>> \in k.failures
    OBVIOUS
  <2>1. CASE u # h.test \/ ~ Settles(phase, said, sub)
    BY <2>1, <1>6, <1>8, <1>10 DEF HalfSound
  <2>2. CASE u = h.test /\ Settles(phase, said, sub)
    <3>1. k.outcomes[u] = Suite!Word(phase, said)
      BY <2>2, <1>9 DEF Settles
    <3>2. Suite!Word(phase, said) \in {"failed", "error"} => said = "failed"
      BY DEF Suite!Word, Said
    <3> QED
      BY <3>1, <3>2, <1>2, <1>6, <2>2
  <2> QED
    BY <2>1, <2>2
<1>12. /\ k.phase = "setup" => k.outcomes[k.test] = None
       /\ k.phase \in {"setup", "call", "last call"} => \A ph \in Phases : <<k.test, ph>> \notin k.failures
       /\ k.phase = "teardown" => <<k.test, "teardown">> \notin k.failures
  <2>1. k.phase # "setup"
    BY <1>6 DEF Legal
  <2>2. k.phase \in {"call", "last call"} => said # "failed" /\ h.phase \in {"setup", "call"}
    BY <1>6 DEF Legal
  <2>3. k.phase = "teardown" => phase # "teardown" /\ h.phase \in {"setup", "call", "last call"}
    BY <1>6 DEF Legal
  <2>4. k.phase \in {"call", "last call"} => k.failures = h.failures /\ \A ph \in Phases : <<h.test, ph>> \notin h.failures
    BY <2>2, <1>6 DEF HalfSound
  <2>5. k.phase = "teardown" => <<h.test, "teardown">> \notin h.failures
    BY <2>3 DEF HalfSound, Phases
  <2>6. phase # "teardown" => <<h.test, "teardown">> # <<h.test, phase>>
    OBVIOUS
  <2>7. k.phase = "teardown" => <<k.test, "teardown">> \notin k.failures
    BY <2>3, <2>5, <2>6, <1>6
  <2> QED
    BY <2>1, <2>4, <2>7, <1>6
<1>13. \A u \in Cases : u \notin k.seen => k.outcomes[u] = None /\ \A ph \in Phases : <<u, ph>> \notin k.failures
  BY <1>1, <1>6, <1>8, ZenonT(30) DEF HalfSound
<1>14. HalfSound(k)
  BY <1>1, <1>6, <1>11, <1>12, <1>13 DEF HalfSound
<1> QED
  BY <1>1, <1>2, <1>5, <1>6, <1>7, <1>8, <1>9, <1>10, <1>14 DEF Retold

-----------------------------------------------------------------------------
\* A step of a worker.
Grows(w) ==
  /\ UNCHANGED <<grant, hub, report>>
  /\ \A v \in Gateways \ {w} : worker'[v] = worker[v] /\ wire'[v] = wire[v]
  /\ worker' \in [Gateways -> Halves] /\ HalfSound(worker[w])' /\ truth' \in [Cases -> Outcomes \union {"unrun", "running"}]
  /\ worker[w].pc \notin {"finished", "dead"} /\ worker'[w].pc # "collecting"
  /\ worker[w].seen \subseteq worker'[w].seen /\ worker[w].failures \subseteq worker'[w].failures
  /\ worker[w].pc # "collecting" => worker'[w].items = worker[w].items
  /\ \A t \in Cases : truth[t] # "unrun" => truth'[t] # "unrun"
  /\ \A t \in Cases : truth[t] \in Outcomes => truth'[t] \in Outcomes
  /\ todo' # None => todo # None
  /\ todo' \in {None} \union SUBSET Cases

LEMMA GrowsHeard == ASSUME SuiteInv, NEW w \in Gateways, Grows(w) PROVE Heard'
<1>1. /\ UNCHANGED <<grant, hub>>
      /\ \A v \in Gateways : v # w => worker'[v] = worker[v] /\ wire'[v] = wire[v]
      /\ worker[w].pc \notin {"finished", "dead"}
      /\ \A v \in Gateways : worker[v].failures \subseteq worker'[v].failures
      /\ \A v \in Gateways : worker[v].pc # "collecting" => worker'[v].items = worker[v].items
  BY DEF Grows
<1>2. \A v \in Gateways : worker[v].pc = "collecting" => hub.collections[v] = None
  BY DEF SuiteInv, Carried
<1>3. \A v \in Gateways : v \in hub.down => v # w
  BY <1>1 DEF SuiteInv, Heard
<1>4. \A v \in Gateways : hub.collections[v] # None => hub.collections[v] = worker'[v].items
  BY <1>1, <1>2 DEF SuiteInv, Heard
<1>5. \A v \in Gateways :
        /\ v \in hub.down => wire'[v] = <<>> /\ worker'[v].pc \in {"finished", "dead"}
        /\ v \in hub.down \ hub.lost =>
            worker'[v].pc = "finished" /\ hub.records[v] = Suite!RecordFrom(worker'[v])
        /\ v \in hub.lost => v \in hub.down
  BY <1>1, <1>3 DEF SuiteInv, Heard
<1>6. /\ \A t \in hub.reported : truth'[t] # "unrun"
      /\ \A t \in hub.observed : truth'[t] \in Outcomes
  BY DEF Grows, SuiteInv, Heard, SuiteTyped, Hubs
<1>7. /\ \A t \in Cases : \A ph \in Phases : <<t, ph>> \in hub.failures => \E v \in Gateways : <<t, ph>> \in worker'[v].failures
      /\ \A t \in Cases : <<t, "crash">> \in hub.failures => hub.lost # {}
  BY <1>1 DEF SuiteInv, Heard
<1>8. todo' # None => \A v \in Gateways : hub.collections[v] # None
  BY DEF Grows, SuiteInv, Heard
<1> QED
  BY <1>1, <1>4, <1>5, <1>6, <1>7, <1>8 DEF SuiteInv, Heard

LEMMA GrowsCarries ==
  ASSUME SuiteInv, NEW w \in Gateways, Grows(w), NEW v \in Gateways, NEW m \in Messages, Carries(v, m)
  PROVE Carries(v, m)' /\ (v = w => m.kind # "finished")
<1>1. UNCHANGED hub /\ (v # w => worker'[v] = worker[v])
  BY DEF Grows
<1>2. worker[v].seen \subseteq worker'[v].seen /\ worker[v].failures \subseteq worker'[v].failures
  BY <1>1 DEF Grows
<1>3. worker[v].pc # "collecting" => worker'[v].items = worker[v].items /\ worker'[v].pc # "collecting"
  BY <1>1 DEF Grows
<1>4. m.kind = "finished" => v # w
  BY DEF Grows, Carries
<1>5. m.kind = "report" => m.test \in Cases
  BY DEF Messages, Reports
<1>6. m.kind = "report" => (Suite!Final(m) => truth'[m.test] \in Outcomes)
  BY <1>5 DEF Carries, Grows
<1>7. m.kind = "finished" => worker'[v].pc = "finished" /\ m.record = Suite!RecordFrom(worker'[v])
  BY <1>1, <1>4 DEF Carries
<1> QED
  BY <1>1, <1>2, <1>3, <1>4, <1>6, <1>7 DEF Carries

\* What is sent comes last, what is received came first.
LEMMA OnSend ==
  ASSUME NEW s \in Seq(Messages), NEW m \in Messages
  PROVE /\ Append(s, m) \in Seq(Messages) /\ Elements(Append(s, m)) = Elements(s) \union {m}
        /\ Ordered(s) /\ (\A x \in Elements(s) : x.kind # "finished" /\ (m.kind = "collected" => x.kind # "collected")) =>
             Ordered(Append(s, m))
<1>1. /\ Append(s, m) \in Seq(Messages) /\ Len(Append(s, m)) = Len(s) + 1 /\ Len(s) \in Nat
      /\ Append(s, m)[Len(s) + 1] = m
      /\ \A i \in 1 .. Len(s) : Append(s, m)[i] = s[i]
  OBVIOUS
<1>2. Elements(Append(s, m)) = Elements(s) \union {m}
  BY <1>1 DEF Elements
<1>3. Ordered(s) /\ (\A x \in Elements(s) : x.kind # "finished" /\ (m.kind = "collected" => x.kind # "collected")) =>
        Ordered(Append(s, m))
  BY <1>1 DEF Ordered, Elements
<1> QED
  BY <1>1, <1>2, <1>3

LEMMA OnReceive ==
  ASSUME NEW s \in Seq(Messages), s # <<>>
  PROVE /\ Tail(s) \in Seq(Messages) /\ Head(s) \in Messages /\ Head(s) \in Elements(s)
        /\ Elements(s) = Elements(Tail(s)) \union {Head(s)}
        /\ Ordered(s) => Ordered(Tail(s))
        /\ Ordered(s) /\ Head(s).kind = "finished" => Tail(s) = <<>>
        /\ Ordered(s) /\ Head(s).kind = "collected" => \A m \in Elements(Tail(s)) : m.kind # "collected"
<1>1. /\ Tail(s) \in Seq(Messages) /\ Len(s) \in Nat \ {0} /\ Len(Tail(s)) = Len(s) - 1 /\ Head(s) = s[1]
      /\ \A i \in 1 .. Len(Tail(s)) : Tail(s)[i] = s[i + 1]
  OBVIOUS
<1>2. \A i \in 1 .. Len(s) : i = 1 \/ (i - 1 \in 1 .. Len(Tail(s)) /\ s[i] = Tail(s)[i - 1])
  BY <1>1
<1>3. Head(s) \in Messages /\ Head(s) \in Elements(s)
  BY <1>1 DEF Elements
<1>4. Elements(s) = Elements(Tail(s)) \union {Head(s)}
  <2>1. \A m \in Elements(s) : m \in Elements(Tail(s)) \union {Head(s)}
    BY <1>1, <1>2 DEF Elements
  <2>2. \A m \in Elements(Tail(s)) \union {Head(s)} : m \in Elements(s)
    BY <1>1 DEF Elements
  <2> QED
    BY <2>1, <2>2
<1>5. ASSUME Ordered(s) PROVE Ordered(Tail(s))
  <2> SUFFICES ASSUME NEW i \in 1 .. Len(Tail(s)), NEW j \in 1 .. Len(Tail(s))
               PROVE /\ Tail(s)[i].kind = "finished" => j <= i
                     /\ Tail(s)[i].kind = "collected" /\ Tail(s)[j].kind = "collected" => i = j
    BY DEF Ordered
  <2>1. i + 1 \in 1 .. Len(s) /\ Tail(s)[i] = s[i + 1] /\ i \in Nat
    BY <1>1
  <2>2. j + 1 \in 1 .. Len(s) /\ Tail(s)[j] = s[j + 1] /\ j \in Nat
    BY <1>1
  <2>3. Tail(s)[i].kind = "finished" => j + 1 <= i + 1
    BY <2>1, <2>2, <1>5 DEF Ordered
  <2>4. Tail(s)[i].kind = "collected" /\ Tail(s)[j].kind = "collected" => i + 1 = j + 1
    BY <2>1, <2>2, <1>5 DEF Ordered
  <2> QED
    BY <2>1, <2>2, <2>3, <2>4
<1>6. ASSUME Ordered(s), Head(s).kind = "finished" PROVE Tail(s) = <<>>
  <2>1. 1 \in 1 .. Len(s) /\ s[1].kind = "finished"
    BY <1>1, <1>6
  <2>2. \A j \in 1 .. Len(s) : j <= 1
    BY <1>6, <2>1 DEF Ordered
  <2>3. Len(s) = 1
    BY <1>1, <2>2
  <2>4. \A u \in Seq(Messages) : Len(u) = 0 => u = <<>>
    OBVIOUS
  <2> PICK u : u = Tail(s)
    OBVIOUS
  <2>5. u \in Seq(Messages) /\ Len(u) = Len(s) - 1
    BY <1>1
  <2>6. Len(u) = 0
    BY <2>3, <2>5
  <2> QED
    BY <2>4, <2>5, <2>6
<1>7. ASSUME Ordered(s), Head(s).kind = "collected", NEW m \in Elements(Tail(s)) PROVE m.kind # "collected"
  <2> PICK i \in 1 .. Len(Tail(s)) : m = Tail(s)[i]
    BY DEF Elements
  <2>1. i + 1 \in 1 .. Len(s) /\ 1 \in 1 .. Len(s) /\ m = s[i + 1] /\ i + 1 # 1 /\ s[1].kind = "collected"
    BY <1>1, <1>7
  <2>2. s[i + 1].kind = "collected" => i + 1 = 1
    BY <1>7, <2>1 DEF Ordered
  <2> QED
    BY <2>1, <2>2
<1> QED
  BY <1>1, <1>3, <1>4, <1>5, <1>6, <1>7

\* A worker sends nothing, or one message.
LEMMA GrowsCarried ==
  ASSUME SuiteInv, NEW w \in Gateways, Grows(w),
         \/ wire'[w] = wire[w]
         \/ \E m \in Messages : wire'[w] = Append(wire[w], m) /\ m.kind # "collected" /\ Carries(w, m)'
  PROVE Carried' /\ wire'[w] \in Seq(Messages)
<1>1. \A v \in Gateways : wire[v] \in Seq(Messages) /\ Ordered(wire[v])
  BY DEF SuiteInv, SuiteTyped, Carried
<1>2. \A v \in Gateways : \A m \in Elements(wire[v]) : m \in Messages /\ Carries(v, m)
  BY <1>1 DEF SuiteInv, Carried, Elements
<1>3. \A v \in Gateways : \A m \in Elements(wire[v]) : Carries(v, m)' /\ (v = w => m.kind # "finished")
  BY <1>2, GrowsCarries
<1>4. \A v \in Gateways : v # w => worker'[v] = worker[v] /\ wire'[v] = wire[v]
  BY DEF Grows
<1>5. wire'[w] \in Seq(Messages) /\ Ordered(wire'[w]) /\ \A m \in Elements(wire'[w]) : Carries(w, m)'
  <2>1. CASE wire'[w] = wire[w]
    BY <2>1, <1>1, <1>3
  <2>2. CASE \E m \in Messages : wire'[w] = Append(wire[w], m) /\ m.kind # "collected" /\ Carries(w, m)'
    BY <2>2, <1>1, <1>3, OnSend
  <2> QED
    BY <2>1, <2>2
<1>6. \A v \in Gateways : Ordered(wire'[v]) /\ \A m \in Elements(wire'[v]) : Carries(v, m)'
  BY <1>1, <1>3, <1>4, <1>5
<1>7. \A v \in Gateways : worker'[v].pc = "collecting" => wire'[v] = <<>> /\ hub'.collections[v] = None
  BY <1>4 DEF Grows, SuiteInv, Carried
<1> QED
  BY <1>5, <1>6, <1>7 DEF Carried

LEMMA GrowsClosed ==
  ASSUME SuiteInv, NEW w \in Gateways, Grows(w)
  PROVE Closed' /\ Suite!PassIsWhole' /\ Suite!CountsAreTrue'
<1>1. UNCHANGED <<report, hub>> /\ ~ (report # None /\ report.complete)
  BY DEF Grows, SuiteInv, Closed
<1> QED
  BY <1>1 DEF Closed, SuiteInv, Suite!PassIsWhole, Suite!CountsAreTrue

\* Nothing that is told of the others changes.
LEMMA GrowsEchoes ==
  ASSUME SuiteInv, NEW w \in Gateways, Grows(w),
         ~ hub.refused => \A t \in Cases : hub.inventory[t] # None =>
           (t \in worker'[w].seen /\ Trusted(w, t)' => Echoes(wire[w], t, Known(w, t), hub.inventory[t])')
  PROVE Echoed'
<1>1. UNCHANGED <<grant, hub>>
  BY DEF Grows
<1>2. \A v \in Gateways : v # w => worker'[v] = worker[v] /\ wire'[v] = wire[v]
  BY DEF Grows
<1>3. \A v \in Gateways : \A t \in Cases : v # w =>
        /\ Trusted(v, t)' <=> Trusted(v, t)
        /\ Echoes(wire[v], t, Known(v, t), hub.inventory[t])' <=> Echoes(wire[v], t, Known(v, t), hub.inventory[t])
  BY <1>1, <1>2 DEF Trusted, Known
<1> QED
  BY <1>1, <1>2, <1>3 DEF SuiteInv, Echoed, Grows

LEMMA LivedSame ==
  ASSUME SuiteInv, NEW w \in Gateways, Grows(w), worker'[w].seen = worker[w].seen, todo' = todo,
         \A t \in Cases : truth'[t] # truth[t] => t \in worker[w].seen,
         \A t \in Cases : worker'[w].pc # "dead" /\ Over(worker'[w], t) => truth'[t] = worker'[w].outcomes[t]
  PROVE Lived'
<1>1. \A v \in Gateways : v # w => worker'[v] = worker[v]
  BY DEF Grows
<1>2. \A v \in Gateways : worker'[v].seen = worker[v].seen
  BY <1>1
<1>3. \A t \in Cases : truth'[t] # "unrun" <=> truth[t] # "unrun"
  BY DEF SuiteInv, Lived, Grows
<1>4. \A v \in Gateways : \A t \in Cases : worker'[v].pc # "dead" /\ Over(worker'[v], t) => truth'[t] = worker'[v].outcomes[t]
  <2> SUFFICES ASSUME NEW v \in Gateways, NEW t \in Cases, v # w, worker'[v].pc # "dead", Over(worker'[v], t)
               PROVE truth'[t] = worker'[v].outcomes[t]
    OBVIOUS
  <2>1. t \in worker[v].seen /\ worker'[v] = worker[v]
    BY <1>1 DEF Over
  <2>2. t \notin worker[w].seen
    BY <2>1 DEF SuiteInv, Lived
  <2> QED
    BY <2>1, <2>2 DEF SuiteInv, Lived
<1> QED
  BY <1>2, <1>3, <1>4 DEF SuiteInv, Lived

\* The typing of the variables, of the worker at hand.
LEMMA HalfTyped ==
  ASSUME SuiteInv, NEW w \in Gateways
  PROVE worker[w] \in Halves /\ HalfSound(worker[w]) /\ wire[w] \in Seq(Messages) /\ Ordered(wire[w])
BY DEF SuiteInv, SuiteTyped, Carried

LEMMA GrowsTyped ==
  ASSUME SuiteInv, NEW w \in Gateways, Grows(w), NEW s, s \in Seq(Messages), wire' = [wire EXCEPT ![w] = s]
  PROVE SuiteTyped'
BY DEF SuiteInv, SuiteTyped, Grows

LEMMA SoundStays == ASSUME UNCHANGED grant, NEW k, HalfSound(k) PROVE HalfSound(k)'
BY DEF HalfSound, Suite!DroppedAfter

LEMMA GrowsSound == ASSUME SuiteInv, NEW w \in Gateways, Grows(w) PROVE \A v \in Gateways : HalfSound(worker[v])'
<1> SUFFICES ASSUME NEW v \in Gateways, v # w PROVE HalfSound(worker[v])'
  BY DEF Grows
<1> PICK k : k = worker[v]
  OBVIOUS
<1>1. HalfSound(k) /\ UNCHANGED grant /\ worker'[v] = k
  BY DEF SuiteInv, Grows
<1> QED
  BY <1>1, SoundStays

LEMMA FirstMessages ==
  ASSUME NEW ids \in SUBSET Cases, NEW broken \in {0, 1}, NEW s, s = Suite!Announcement(ids, broken)
  PROVE /\ s \in Seq(Messages) /\ Ordered(s)
        /\ \A m \in Elements(s) : m.kind \in {"error", "collected"} /\ (m.kind = "collected" => m.ids = ids)
<1>e. PICK e : e = [kind |-> "error"]
  OBVIOUS
<1>m. PICK m : m = [kind |-> "collected", ids |-> ids]
  OBVIOUS
<1>1. e \in Messages /\ m \in Messages /\ e.kind = "error" /\ m.kind = "collected" /\ m.ids = ids
  BY <1>e, <1>m DEF Messages
<1>2. CASE s = <<m>>
  <2>1. s \in Seq(Messages) /\ Len(s) = 1 /\ s[1] = m
    BY <1>1, <1>2
  <2> QED
    BY <1>1, <2>1 DEF Ordered, Elements
<1>3. CASE s = <<e, m>>
  <2>1. s \in Seq(Messages) /\ Len(s) = 2 /\ s[1] = e /\ s[2] = m
    BY <1>1, <1>3
  <2>2. \A i \in 1 .. Len(s) : i = 1 \/ i = 2
    BY <2>1
  <2> QED
    BY <1>1, <2>1, <2>2 DEF Ordered, Elements
<1> QED
  BY <1>e, <1>m, <1>2, <1>3 DEF Suite!Announcement

LEMMA CollectKeeps ==
  ASSUME Suite!SessionMakesSense, SuiteInv, NEW w \in Gateways, Suite!Collect(w) PROVE SuiteInv'
<1>1. worker[w].pc = "collecting" /\ UNCHANGED <<grant, todo, hub, report, truth>>
  BY DEF Suite!Collect
<1>p. PICK snapshot \in SUBSET Cases, ids \in SUBSET Cases, broken \in {0, 1} :
      /\ ids \subseteq snapshot
      /\ worker' = [worker EXCEPT ![w] = Collected(worker[w], snapshot, ids, broken)]
      /\ wire' = [wire EXCEPT ![w] = wire[w] \o Suite!Announcement(ids, broken)]
  <2>p. PICK lost \in {{}} \union {{t} : t \in Cases}, removed \in {{}} \union {{t} : t \in Cases}, broken \in {0, 1} :
        /\ worker' = [worker EXCEPT ![w] = Collected(worker[w], Cases \ lost, (Cases \ lost) \ removed, broken)]
        /\ wire' = [wire EXCEPT ![w] = wire[w] \o Suite!Announcement((Cases \ lost) \ removed, broken)]
    BY DEF Suite!Collect, Collected
  <2> QED
    BY <2>p
<1>h. PICK h : h = worker[w]
  OBVIOUS
<1>k. PICK k : k = Collected(h, snapshot, ids, broken)
  OBVIOUS
<1>s. PICK s : s = Suite!Announcement(ids, broken)
  OBVIOUS
<1>3. h \in Halves /\ HalfSound(h) /\ wire[w] = <<>> /\ h.pc = "collecting"
  BY <1>1, <1>h, HalfTyped DEF SuiteInv, Carried
<1>4. grant.full \in BOOLEAN
  BY DEF Suite!SessionMakesSense, SuiteInv, SuiteTyped
<1>5. k \in Halves /\ HalfSound(k) /\ k.seen = {} /\ k.failures = {} /\ k.pc = "ready" /\ k.items = ids
  <2>1. ids \subseteq snapshot
    BY <1>p
  <2>2. h \in Halves
    BY <1>3
  <2>3. HalfSound(h)
    BY <1>3
  <2>4. h.pc = "collecting"
    BY <1>3
  <2>5. k \in Halves
    BY <2>1, <2>2, <2>3, <2>4, <1>k, <1>4, HalfCollects
  <2>6. HalfSound(k)
    BY <2>1, <2>2, <2>3, <2>4, <1>k, <1>4, HalfCollects
  <2>7. k.seen = {} /\ k.failures = {}
    BY <2>1, <2>2, <2>3, <2>4, <1>k, <1>4, HalfCollects
  <2>8. k.pc = "ready"
    BY <2>2, <1>k DEF Collected, Halves
  <2>9. k.items = ids
    BY <2>1, <2>2, <2>3, <2>4, <1>k, <1>4, HalfCollects
  <2> QED
    BY <2>5, <2>6, <2>7, <2>8, <2>9
<1>6. h.seen = {} /\ h.failures = {}
  <2>1. h = Suite!Fresh
    BY <1>3 DEF HalfSound
  <2> QED
    BY <2>1 DEF Suite!Fresh
<1>14. /\ s \in Seq(Messages) /\ Ordered(s)
       /\ \A m \in Elements(s) : m.kind \in {"error", "collected"} /\ (m.kind = "collected" => m.ids = ids)
  BY <1>s, FirstMessages
<1>7. <<>> \o s = s
  BY <1>14
<1>8. wire' = [wire EXCEPT ![w] = s]
  BY <1>3, <1>7, <1>p, <1>s
<1>9. worker' = [worker EXCEPT ![w] = k] /\ DOMAIN worker = Gateways /\ DOMAIN wire = Gateways /\ worker \in [Gateways -> Halves]
  BY <1>p, <1>h, <1>k DEF SuiteInv, SuiteTyped
<1>10. worker'[w] = k /\ wire'[w] = s /\ worker' \in [Gateways -> Halves]
       /\ \A v \in Gateways : v # w => worker'[v] = worker[v] /\ wire'[v] = wire[v]
  BY <1>5, <1>8, <1>9
<1>11. HalfSound(worker[w])'
  BY <1>1, <1>5, <1>10, SoundStays
<1>12. truth' \in [Cases -> Outcomes \union {"unrun", "running"}] /\ todo' \in {None} \union SUBSET Cases
  BY <1>1 DEF SuiteInv, SuiteTyped
<1>13. Grows(w)
  BY <1>1, <1>h, <1>3, <1>5, <1>6, <1>10, <1>11, <1>12 DEF Grows
<1>15. worker'[w].seen = {} /\ worker[w].seen = {} /\ worker'[w].items = ids /\ worker'[w].pc = "ready"
  BY <1>h, <1>5, <1>6, <1>10
<1>16. UNCHANGED <<hub, todo, truth>> /\ hub.collections[w] = None
  BY <1>1 DEF SuiteInv, Carried
<1>17. Lived'
  BY <1>13, <1>15, <1>16, LivedSame DEF Over
<1>18. Carried'
  <2>1. \A v \in Gateways : Ordered(wire[v]) /\ \A x \in Elements(wire[v]) : x \in Messages /\ Carries(v, x)
    BY DEF SuiteInv, SuiteTyped, Carried, Elements
  <2>2. \A v \in Gateways : \A x \in Elements(wire[v]) : Carries(v, x)'
    BY <2>1, <1>13, GrowsCarries
  <2>3. \A m \in Elements(s) : Carries(w, m)'
    BY <1>14, <1>15, <1>16 DEF Carries
  <2>4. \A v \in Gateways : Ordered(wire'[v]) /\ \A x \in Elements(wire'[v]) : Carries(v, x)'
    BY <1>10, <1>14, <2>1, <2>2, <2>3
  <2>5. \A v \in Gateways : worker'[v].pc = "collecting" => wire'[v] = <<>> /\ hub'.collections[v] = None
    BY <1>10, <1>15, <1>16 DEF SuiteInv, Carried
  <2> QED
    BY <2>4, <2>5 DEF Carried
<1>19. Echoed'
  BY <1>13, <1>15, GrowsEchoes
<1>20. SuiteTyped'
  BY <1>8, <1>13, <1>14, GrowsTyped
<1>21. Heard' /\ Closed' /\ Suite!PassIsWhole' /\ Suite!CountsAreTrue' /\ \A v \in Gateways : HalfSound(worker[v])'
  BY <1>13, GrowsHeard, GrowsClosed, GrowsSound
<1> QED
  BY <1>17, <1>18, <1>19, <1>20, <1>21 DEF SuiteInv

\* What is left to show of a step of a worker that sends at most one message.
LEMMA GrowsKeeps ==
  ASSUME SuiteInv, NEW w \in Gateways, Grows(w), Lived',
         NEW s, wire' = [wire EXCEPT ![w] = s],
         s = wire[w] \/ \E m \in Messages : s = Append(wire[w], m) /\ m.kind # "collected" /\ Carries(w, m)',
         ~ hub.refused => \A t \in Cases : hub.inventory[t] # None =>
           (t \in worker'[w].seen /\ Trusted(w, t)' => Echoes(wire[w], t, Known(w, t), hub.inventory[t])')
  PROVE SuiteInv'
<1>1. wire'[w] = s
  BY DEF SuiteInv, SuiteTyped
<1>2. \/ wire'[w] = wire[w]
      \/ \E m \in Messages : wire'[w] = Append(wire[w], m) /\ m.kind # "collected" /\ Carries(w, m)'
  BY <1>1
<1>3. Carried' /\ s \in Seq(Messages)
  BY <1>1, <1>2, GrowsCarried
<1>4. SuiteTyped'
  BY <1>3, GrowsTyped
<1>5. Echoed'
  BY GrowsEchoes
<1>6. Heard'
  BY GrowsHeard
<1>7. Closed' /\ Suite!PassIsWhole' /\ Suite!CountsAreTrue'
  BY GrowsClosed
<1>8. \A v \in Gateways : HalfSound(worker[v])'
  BY GrowsSound
<1> QED
  BY <1>3, <1>4, <1>5, <1>6, <1>7, <1>8 DEF SuiteInv

LEMMA ProtocolKeeps == ASSUME Suite!SessionMakesSense, SuiteInv, NEW w \in Gateways, Suite!Protocol(w) PROVE SuiteInv'
<1>1. worker[w].pc = "ready" /\ worker[w].phase = "none" /\ todo # None /\ UNCHANGED <<grant, wire, hub, report>>
  BY DEF Suite!Protocol
<1>t. PICK t \in todo \intersect worker[w].items :
        /\ todo' = todo \ {t}
        /\ worker' = [worker EXCEPT ![w] = Started(worker[w], t)]
        /\ truth' = [truth EXCEPT ![t] = "running"]
  BY DEF Suite!Protocol, Started
<1>h. PICK h : h = worker[w]
  OBVIOUS
<1>k. PICK k : k = Started(h, t)
  OBVIOUS
<1>2. /\ h \in Halves /\ HalfSound(h) /\ h.pc = "ready" /\ h.phase = "none" /\ t \in h.items
      /\ \A v \in Gateways : t \notin worker[v].seen
  BY <1>1, <1>t, <1>h, HalfTyped DEF SuiteInv, Lived
<1>3. t \notin h.seen
  BY <1>2, <1>h
<1>4. k \in Halves /\ HalfSound(k)
  BY <1>2, <1>3, <1>k, HalfStarts
<1>5. /\ k.test = t /\ k.phase = "setup" /\ k.seen = h.seen \union {t} /\ k.outcomes = h.outcomes
      /\ k.failures = h.failures /\ k.refused = h.refused /\ k.pc = h.pc /\ k.items = h.items /\ t \in Cases
  BY <1>2, <1>k DEF Started, Halves
<1>6. /\ worker' = [worker EXCEPT ![w] = k] /\ worker \in [Gateways -> Halves]
      /\ truth \in [Cases -> Outcomes \union {"unrun", "running"}]
  BY <1>t, <1>h, <1>k DEF SuiteInv, SuiteTyped
<1>7. worker'[w] = k /\ worker' \in [Gateways -> Halves] /\ \A v \in Gateways : v # w => worker'[v] = worker[v]
  BY <1>4, <1>6
<1>8. truth[t] = "unrun" /\ truth'[t] = "running" /\ truth' \in [Cases -> Outcomes \union {"unrun", "running"}]
      /\ \A u \in Cases : u # t => truth'[u] = truth[u]
  BY <1>2, <1>5, <1>6, <1>t DEF SuiteInv, Lived
<1>9. HalfSound(worker[w])'
  BY <1>1, <1>4, <1>7, SoundStays
<1>10. \A u \in Cases : (truth[u] # "unrun" => truth'[u] # "unrun") /\ (truth[u] \in Outcomes => truth'[u] \in Outcomes)
  BY <1>8 DEF Outcomes, Suite!Outcomes
<1>a. todo' \in SUBSET Cases /\ todo' # None
  BY <1>1, <1>t DEF SuiteInv, SuiteTyped, Suite!SessionMakesSense
<1>11. Grows(w)
  BY <1>a, <1>1, <1>2, <1>5, <1>7, <1>8, <1>9, <1>10, <1>h DEF Grows
<1>12. /\ worker'[w].seen = worker[w].seen \union {t} /\ worker'[w].outcomes = worker[w].outcomes
       /\ worker'[w].failures = worker[w].failures /\ worker'[w].phase = "setup" /\ worker'[w].test = t
       /\ worker'[w].refused = worker[w].refused
  BY <1>5, <1>7, <1>h
<1>13. Lived'
  <2>1. \A v, x \in Gateways : v # x => worker'[v].seen \intersect worker'[x].seen = {}
    <3>1. \A v \in Gateways : v # w => worker'[v].seen \intersect worker'[w].seen = {}
      BY <1>2, <1>7, <1>12 DEF SuiteInv, Lived
    <3> QED
      BY <3>1, <1>7 DEF SuiteInv, Lived
  <2>2. todo' # None => \A v \in Gateways : todo' \intersect worker'[v].seen = {}
    BY <1>1, <1>t, <1>7, <1>12 DEF SuiteInv, Lived
  <2>3. todo' = None => \A v \in Gateways : worker'[v].seen = {}
    BY <1>a
  <2>4. \A u \in Cases : truth'[u] # "unrun" <=> \E v \in Gateways : u \in worker'[v].seen
    <3>1. \A v \in Gateways : \A u \in Cases : u # t => (u \in worker'[v].seen <=> u \in worker[v].seen)
      BY <1>7, <1>12
    <3> QED
      BY <3>1, <1>8, <1>12 DEF SuiteInv, Lived
  <2>5. \A v \in Gateways : \A u \in Cases :
          worker'[v].pc # "dead" /\ Over(worker'[v], u) => truth'[u] = worker'[v].outcomes[u]
    <3>1. \A u \in Cases : Over(worker'[w], u) => u # t /\ Over(worker[w], u)
      BY <1>1, <1>12 DEF Over
    <3>2. \A v \in Gateways : \A u \in Cases : v # w /\ Over(worker'[v], u) => u # t /\ Over(worker[v], u)
      BY <1>2, <1>7 DEF Over
    <3> QED
      BY <3>1, <3>2, <1>1, <1>7, <1>8, <1>12 DEF SuiteInv, Lived
  <2> QED
    BY <2>1, <2>2, <2>3, <2>4, <2>5 DEF Lived
<1>14. \A u \in Cases : hub.inventory[u] # None /\ ~ hub.refused =>
         (u \in worker'[w].seen /\ Trusted(w, u)' => Echoes(wire[w], u, Known(w, u), hub.inventory[u])')
  <2> SUFFICES ASSUME NEW u \in Cases, hub.inventory[u] # None, ~ hub.refused, u \in worker'[w].seen, Trusted(w, u)'
               PROVE Echoes(wire[w], u, Known(w, u), hub.inventory[u])'
    OBVIOUS
  <2>1. UNCHANGED <<hub, wire>> /\ Known(w, u)' = Known(w, u)
    BY <1>1, <1>12 DEF Known
  <2>2. Trusted(w, u)
    BY <1>12, <2>1 DEF Trusted
  <2>3. Echoes(wire[w], u, Known(w, u), hub.inventory[u])
    <3>1. CASE u # t
      BY <3>1, <2>2, <1>12 DEF SuiteInv, Echoed
    <3>2. CASE u = t
      <4>1. hub.inventory[t] = "unknown" /\ worker[w].outcomes[t] = None
        BY <3>2, <1>2, <1>5, <1>8, <1>h DEF SuiteInv, Echoed, HalfSound
      <4>2. \A i \in 1 .. Len(wire[w]) : wire[w][i] \in Elements(wire[w])
        BY DEF Elements
      <4>3. \A i \in 1 .. Len(wire[w]) : ~ Tells(wire[w][i], t)
        BY <4>2, <1>2 DEF SuiteInv, Carried, Carries, Tells
      <4> QED
        BY <3>2, <4>1, <4>3 DEF Echoes, Known
    <3> QED
      BY <3>1, <3>2
  <2> QED
    BY <2>1, <2>3
<1>s. PICK s : s = wire[w]
  OBVIOUS
<1>15. wire' = [wire EXCEPT ![w] = s]
  BY <1>1, <1>s DEF SuiteInv, SuiteTyped
<1> QED
  BY <1>1, <1>11, <1>13, <1>14, <1>s, <1>15, GrowsKeeps

-----------------------------------------------------------------------------
\* What a message changes for those who wait for the last word on a test.
LEMMA EchoAppends ==
  ASSUME NEW s \in Seq(Messages), NEW m \in Messages, NEW t, NEW known, NEW told,
         \/ ~ Tells(m, t) /\ Echoes(s, t, known, told)
         \/ Tells(m, t) /\ Suite!Word(m.phase, m.outcome) = known
  PROVE Echoes(Append(s, m), t, known, told)
<1>u. PICK u : u = Append(s, m)
  OBVIOUS
<1>1. /\ u \in Seq(Messages) /\ Len(u) = Len(s) + 1 /\ Len(s) \in Nat
      /\ u[Len(s) + 1] = m
      /\ \A i \in 1 .. Len(s) : u[i] = s[i] /\ i \in 1 .. Len(u) /\ Len(s) + 1 > i
      /\ Len(s) + 1 \in 1 .. Len(u)
      /\ \A i \in 1 .. Len(u) : i \in 1 .. Len(s) \/ i = Len(s) + 1
  BY <1>u
<1>2. CASE ~ Tells(m, t) /\ Echoes(s, t, known, told)
  <2>1. ASSUME NEW i \in 1 .. Len(u), Tells(u[i], t), \A j \in 1 .. Len(u) : j > i => ~ Tells(u[j], t)
        PROVE Suite!Word(u[i].phase, u[i].outcome) = known
    <3>1. i \in 1 .. Len(s)
      BY <1>1, <1>2, <2>1
    <3>2. Tells(s[i], t) /\ \A j \in 1 .. Len(s) : j > i => ~ Tells(s[j], t)
      BY <1>1, <2>1, <3>1
    <3> QED
      BY <1>1, <1>2, <3>1, <3>2 DEF Echoes
  <2>2. (\A i \in 1 .. Len(u) : ~ Tells(u[i], t)) => told = known
    BY <1>1, <1>2 DEF Echoes
  <2> QED
    BY <1>u, <2>1, <2>2 DEF Echoes
<1>3. CASE Tells(m, t) /\ Suite!Word(m.phase, m.outcome) = known
  <2>1. ASSUME NEW i \in 1 .. Len(u), \A j \in 1 .. Len(u) : j > i => ~ Tells(u[j], t)
        PROVE u[i] = m
    BY <1>1, <1>3, <2>1
  <2>2. Tells(u[Len(s) + 1], t) /\ Len(s) + 1 \in 1 .. Len(u)
    BY <1>1, <1>3
  <2> QED
    BY <1>u, <1>3, <2>1, <2>2 DEF Echoes
<1> QED
  BY <1>2, <1>3

LEMMA ReportKeeps ==
  ASSUME Suite!SessionMakesSense, SuiteInv, NEW w \in Gateways, NEW phase \in Phases, NEW said \in Said, NEW sub,
         NEW next \in Stages, Speaks(w, phase, said, sub, next)
  PROVE SuiteInv'
<1>h. PICK h : h = worker[w]
  OBVIOUS
<1>t. PICK t : t = h.test
  OBVIOUS
<1>k. PICK k : k = Reported(h, phase, said, next)
  OBVIOUS
<1>s. PICK s : s = wire[w]
  OBVIOUS
<1>1. /\ h.pc = "ready" /\ Legal(h, phase, said, sub, next) /\ UNCHANGED <<grant, todo, hub, report>>
      /\ truth' = IF Settles(phase, said, sub) THEN [truth EXCEPT ![t] = Suite!Word(phase, said)] ELSE truth
  BY <1>h, <1>t DEF Speaks, Suite!Observe
<1>2. worker' = [worker EXCEPT ![w] = k]
  BY <1>h, <1>k DEF Speaks, Suite!Observe, Reported
<1>c. PICK seen \in {said, "passed"} :
        /\ seen # said => said = "failed"
        /\ wire' = [wire EXCEPT ![w] = Append(s, [kind |-> "report", test |-> t, phase |-> phase, outcome |-> seen, sub |-> sub])]
  BY <1>h, <1>t, <1>s DEF Speaks, Suite!Observe, Suite!Send
<1>m. PICK m : m = [kind |-> "report", test |-> t, phase |-> phase, outcome |-> seen, sub |-> sub]
  OBVIOUS
<1>3. h \in Halves /\ HalfSound(h) /\ s \in Seq(Messages)
  BY <1>h, <1>s, HalfTyped
<1>4. Retold(h, k, t, phase, said, sub)
  BY <1>1, <1>3, <1>k, <1>t, HalfReports
<1>5. t \in h.seen /\ t \in Cases /\ <<t, phase>> \notin h.failures /\ k \in Halves /\ HalfSound(k)
      /\ k.seen = h.seen /\ k.items = h.items /\ k.pc = "ready"
      /\ k.failures = h.failures \union (IF said = "failed" THEN {<<t, phase>>} ELSE {})
  BY <1>1, <1>4 DEF Retold
<1>6. \A u \in Cases : u # t => k.outcomes[u] = h.outcomes[u] /\ (Over(k, u) <=> Over(h, u))
  BY <1>4 DEF Retold
<1>7. /\ Suite!Word(phase, said) \in Outcomes
      /\ Suite!Counted(phase, said) => k.outcomes[t] = Suite!Word(phase, said)
      /\ ~ Suite!Counted(phase, said) => k.outcomes = h.outcomes
      /\ ~ Settles(phase, said, sub) /\ Over(k, t) => Over(h, t) /\ k.outcomes[t] = h.outcomes[t]
  BY <1>4 DEF Retold
<1>8. worker'[w] = k /\ worker' \in [Gateways -> Halves] /\ \A v \in Gateways : v # w => worker'[v] = worker[v]
  BY <1>2, <1>5 DEF SuiteInv, SuiteTyped
<1>9. HalfSound(worker[w])'
  BY <1>1, <1>5, <1>8, SoundStays
<1>10. /\ truth' \in [Cases -> Outcomes \union {"unrun", "running"}]
       /\ Settles(phase, said, sub) => truth'[t] = Suite!Word(phase, said)
       /\ ~ Settles(phase, said, sub) => truth' = truth
       /\ \A u \in Cases : u # t => truth'[u] = truth[u]
  BY <1>1, <1>5, <1>7 DEF SuiteInv, SuiteTyped
<1>11. \A u \in Cases : (truth[u] # "unrun" => truth'[u] # "unrun") /\ (truth[u] \in Outcomes => truth'[u] \in Outcomes)
  BY <1>7, <1>10 DEF Outcomes, Suite!Outcomes
<1>12. \A v \in Gateways \ {w} : worker'[v] = worker[v] /\ wire'[v] = wire[v]
  BY <1>8, <1>c DEF SuiteInv, SuiteTyped
<1>13. Grows(w)
  <2>1. todo' \in {None} \union SUBSET Cases
    BY <1>1 DEF SuiteInv, SuiteTyped
  <2> QED
    BY <2>1, <1>1, <1>h, <1>5, <1>8, <1>9, <1>10, <1>11, <1>12 DEF Grows
<1>14. Lived'
  <2>1. worker'[w].seen = worker[w].seen /\ worker'[w].outcomes = k.outcomes
    BY <1>5, <1>8, <1>h
  <2>2. \A u \in Cases : truth'[u] # truth[u] => u \in worker[w].seen
    BY <1>5, <1>10, <1>h
  <2>3. ASSUME NEW u \in Cases, Over(worker'[w], u) PROVE truth'[u] = worker'[w].outcomes[u]
    <3>1. Over(k, u) /\ \A x \in Cases : Over(h, x) => truth[x] = h.outcomes[x]
      BY <2>3, <1>8, <1>h, <1>1 DEF SuiteInv, Lived
    <3>2. CASE u # t
      BY <3>1, <3>2, <2>1, <1>6, <1>10
    <3>3. CASE u = t /\ Settles(phase, said, sub)
      BY <3>3, <2>1, <1>7, <1>10 DEF Settles
    <3>4. CASE u = t /\ ~ Settles(phase, said, sub)
      BY <3>1, <3>4, <2>1, <1>7, <1>10
    <3> QED
      BY <3>2, <3>3, <3>4
  <2>4. UNCHANGED todo
    BY <1>1
  <2> QED
    BY <1>13, <2>1, <2>2, <2>3, <2>4, LivedSame
<1>15. /\ m \in Messages /\ m.kind = "report" /\ m.test = t /\ m.phase = phase /\ m.outcome = seen /\ m.sub = sub
       /\ wire' = [wire EXCEPT ![w] = Append(s, m)] /\ wire'[w] = Append(s, m)
  <2>1. seen \in Outcomes /\ sub \in BOOLEAN
    BY <1>1 DEF Legal, Said, Outcomes, Suite!Outcomes
  <2> QED
    BY <2>1, <1>m, <1>c, <1>5 DEF Messages, Reports, SuiteInv, SuiteTyped
<1>16. Carries(w, m)'
  <2>1. t \in worker'[w].seen
    BY <1>5, <1>8
  <2>2. seen = "failed" => <<t, phase>> \in worker'[w].failures
    <3>1. seen = "failed" => said = "failed"
      BY <1>c
    <3> QED
      BY <3>1, <1>5, <1>8
  <2>3. Suite!Final(m) => truth'[t] \in Outcomes
    <3>1. Suite!Final(m) => Settles(phase, said, sub)
      BY <1>15, <1>c DEF Suite!Final, Settles, Suite!Counted
    <3> QED
      BY <3>1, <1>7, <1>10
  <2> QED
    BY <1>15, <2>1, <2>2, <2>3 DEF Carries
<1>17. ASSUME ~ hub.refused, NEW u \in Cases, hub.inventory[u] # None, u \in worker'[w].seen, Trusted(w, u)'
       PROVE Echoes(wire[w], u, Known(w, u), hub.inventory[u])'
  <2>1. u \in h.seen /\ (Trusted(w, u) => Echoes(s, u, Known(w, u), hub.inventory[u]))
    BY <1>17, <1>5, <1>8, <1>h, <1>s DEF SuiteInv, Echoed
  <2>2. Elements(wire'[w]) = Elements(s) \union {m} /\ UNCHANGED hub
    BY <1>1, <1>3, <1>15, OnSend
  <2>3. \A x \in Elements(s) : Carries(w, x)
    BY <1>s DEF SuiteInv, Carried
  <2>4. ~ Tells(m, u) /\ Trusted(w, u) /\ Known(w, u)' = Known(w, u) =>
          Echoes(wire'[w], u, Known(w, u)', hub'.inventory[u])
    BY <2>1, <2>2, <1>3, <1>15, EchoAppends
  <2>5. CASE u # t
    <3>1. ~ Tells(m, u)
      BY <2>5, <1>15 DEF Tells
    <3>2. Known(w, u)' = Known(w, u)
      BY <2>5, <1>6, <1>8, <1>h DEF Known
    <3>3. Trusted(w, u)
      BY <2>2, <2>5, <1>5, <1>8, <1>15, <1>17, <1>h, <1>s DEF Trusted
    <3> QED
      BY <2>4, <3>1, <3>2, <3>3
  <2>6. CASE u = t
    <3>1. <<t, phase>> \notin hub.failures
      <4>1. \A v \in Gateways : <<t, phase>> \notin worker[v].failures
        <5>1. \A v \in Gateways : v # w => t \notin worker[v].seen
          BY <1>5, <1>h DEF SuiteInv, Lived
        <5>2. \A v \in Gateways : v # w => <<t, phase>> \notin worker[v].failures
          BY <5>1, <1>5 DEF SuiteInv, HalfSound
        <5> QED
          BY <5>2, <1>5, <1>h
      <4> QED
        BY <4>1, <1>5 DEF SuiteInv, Heard
    <3>2. \A x \in Elements(s) : ~ (x.kind = "report" /\ x.test = t /\ x.phase = phase /\ x.outcome = "failed")
      BY <2>3, <1>5, <1>h DEF Carries
    <3>3. seen = said
      <4>1. CASE said = "failed"
        <5>1. <<t, phase>> \in worker'[w].failures
          BY <4>1, <1>5, <1>8
        <5>2. \E x \in Elements(s) \union {m} : x.kind = "report" /\ x.test = t /\ x.phase = phase /\ x.outcome = "failed"
          BY <5>1, <3>1, <2>2, <2>6, <1>17 DEF Trusted
        <5>3. m.outcome = "failed"
          BY <5>2, <3>2
        <5> QED
          BY <4>1, <5>3, <1>15
      <4>2. CASE said # "failed"
        BY <4>2, <1>c
      <4> QED
        BY <4>1, <4>2
    <3>4. CASE Suite!Counted(phase, said)
      <4>1. Tells(m, u) /\ Suite!Word(m.phase, m.outcome) = k.outcomes[t]
        BY <2>6, <3>3, <3>4, <1>7, <1>15 DEF Tells
      <4>2. Known(w, u)' = k.outcomes[t]
        <5>1. k.outcomes[t] # None
          BY <3>4, <1>7 DEF Outcomes, Suite!Outcomes, Suite!SessionMakesSense
        <5> QED
          BY <5>1, <2>6, <1>8 DEF Known
      <4>3. Echoes(Append(s, m), u, k.outcomes[t], hub.inventory[u])
        BY <4>1, <1>3, <1>15, EchoAppends
      <4> QED
        BY <4>2, <4>3, <2>2, <1>15
    <3>5. CASE ~ Suite!Counted(phase, said)
      <4>1. ~ Tells(m, u)
        BY <3>3, <3>5, <1>15 DEF Tells
      <4>2. Known(w, u)' = Known(w, u)
        BY <3>5, <1>7, <1>8, <1>h DEF Known
      <4>3. Trusted(w, u)
        <5> SUFFICES ASSUME NEW ph \in Phases, <<u, ph>> \in worker[w].failures
                     PROVE \/ <<u, ph>> \in hub.failures
                           \/ \E x \in Elements(wire[w]) : x.kind = "report" /\ x.test = u /\ x.phase = ph /\ x.outcome = "failed"
          BY DEF Trusted
        <5>1. ph # phase
          BY <2>6, <1>5, <1>h
        <5>2. <<u, ph>> \in worker'[w].failures
          BY <1>5, <1>8, <1>h
        <5> QED
          BY <5>1, <5>2, <2>2, <1>15, <1>17, <1>s DEF Trusted
      <4> QED
        BY <2>4, <4>1, <4>2, <4>3
    <3> QED
      BY <3>4, <3>5
  <2> QED
    BY <2>5, <2>6
<1> QED
  <2>1. s = wire[w] \/ \E x \in Messages : Append(s, m) = Append(wire[w], x) /\ x.kind # "collected" /\ Carries(w, x)'
    BY <1>s, <1>15, <1>16
  <2>2. worker[w].pc # "collecting"
    BY <1>1, <1>h
  <2>x. PICK x : x = Append(s, m)
    OBVIOUS
  <2>3. wire' = [wire EXCEPT ![w] = x]
    BY <2>x, <1>15
  <2>4. x = wire[w] \/ \E y \in Messages : x = Append(wire[w], y) /\ y.kind # "collected" /\ Carries(w, y)'
    BY <2>x, <1>s, <1>15, <1>16
  <2> QED
    BY <1>13, <1>14, <1>17, <2>2, <2>3, <2>4, GrowsKeeps

-----------------------------------------------------------------------------
\* A worker that is told to stop, that finishes, or that dies.
LEMMA LeavesKeeps ==
  ASSUME SuiteInv, NEW w \in Gateways, NEW h, h = worker[w], NEW k, Leaves(h, k), worker' = [worker EXCEPT ![w] = k],
         UNCHANGED <<grant, todo, hub, report>>,
         \/ UNCHANGED truth
         \/ h.phase # "none" /\ k.pc = "dead" /\ truth' = [truth EXCEPT ![h.test] = "failed"],
         \/ UNCHANGED wire
         \/ k.pc = "finished" /\ wire' = [wire EXCEPT ![w] = Append(wire[w], [kind |-> "finished", record |-> Suite!RecordFrom(k)])]
  PROVE SuiteInv'
<1>1. h \in Halves /\ HalfSound(h) /\ wire[w] \in Seq(Messages)
  BY HalfTyped
<1>2. k \in Halves /\ HalfSound(k)
  BY <1>1, HalfLeaves
<1>3. k.seen = h.seen /\ k.outcomes = h.outcomes /\ k.failures = h.failures
  BY <1>1, HalfLeaves
<1>4. k.items = h.items /\ k.pc \in {"leaving", "finished", "dead"}
  BY <1>1, HalfLeaves
<1>5. \A u \in Cases : Over(k, u) => Over(h, u)
  BY <1>1, HalfLeaves
<1>6. h.pc \notin {"finished", "dead"} /\ (h.phase # "none" => h.test \in h.seen /\ h.test \in Cases)
  BY <1>1 DEF Leaves, HalfSound, Halves
<1>7. worker'[w] = k /\ worker' \in [Gateways -> Halves] /\ \A v \in Gateways : v # w => worker'[v] = worker[v]
  BY <1>2 DEF SuiteInv, SuiteTyped
<1>8. HalfSound(worker[w])'
  BY <1>2, <1>7, SoundStays
<1>9. /\ truth' \in [Cases -> Outcomes \union {"unrun", "running"}]
      /\ \A u \in Cases : truth'[u] # truth[u] => u \in h.seen /\ truth'[u] = "failed" /\ k.pc = "dead"
  BY <1>6 DEF SuiteInv, SuiteTyped, Outcomes, Suite!Outcomes
<1>10. \A u \in Cases : (truth[u] # "unrun" => truth'[u] # "unrun") /\ (truth[u] \in Outcomes => truth'[u] \in Outcomes)
  BY <1>9 DEF Outcomes, Suite!Outcomes
<1>11. \A v \in Gateways \ {w} : worker'[v] = worker[v] /\ wire'[v] = wire[v]
  BY <1>7 DEF SuiteInv, SuiteTyped
<1>12. Grows(w)
  <2>1. todo' \in {None} \union SUBSET Cases
    BY DEF SuiteInv, SuiteTyped
  <2> QED
    BY <2>1, <1>3, <1>4, <1>6, <1>7, <1>8, <1>9, <1>10, <1>11 DEF Grows
<1>13. Lived'
  <2>1. \A u \in Cases : worker'[w].pc # "dead" /\ Over(worker'[w], u) => truth'[u] = worker'[w].outcomes[u]
    <3> SUFFICES ASSUME NEW u \in Cases, k.pc # "dead", Over(k, u) PROVE truth'[u] = k.outcomes[u]
      BY <1>7
    <3>1. Over(h, u) /\ truth'[u] = truth[u] /\ h.pc # "dead"
      BY <1>5, <1>6, <1>9
    <3> QED
      BY <3>1, <1>3 DEF SuiteInv, Lived
  <2>2. worker'[w].seen = worker[w].seen /\ UNCHANGED todo
    BY <1>3, <1>7
  <2>3. \A u \in Cases : truth'[u] # truth[u] => u \in worker[w].seen
    BY <1>9
  <2> QED
    BY <1>12, <2>1, <2>2, <2>3, LivedSame
<1>m. PICK m : m = [kind |-> "finished", record |-> Suite!RecordFrom(k)]
  OBVIOUS
<1>14. m \in Messages /\ m.kind = "finished" /\ m.record = Suite!RecordFrom(k)
  <2>1. Suite!RecordFrom(k) \in Records
    BY <1>2 DEF Records, Halves, Suite!RecordFrom
  <2> QED
    BY <2>1, <1>m DEF Messages
<1>15. k.pc = "finished" => Carries(w, m)'
  <2>1. Suite!RecordFrom(k)' = Suite!RecordFrom(k)
    BY DEF Suite!RecordFrom
  <2> QED
    BY <2>1, <1>7, <1>14 DEF Carries
<1>s. PICK s : s = wire'[w]
  OBVIOUS
<1>16. /\ wire' = [wire EXCEPT ![w] = s]
       /\ s = wire[w] \/ (k.pc = "finished" /\ s = Append(wire[w], m))
  BY <1>s, <1>m DEF SuiteInv, SuiteTyped
<1>17. s = wire[w] \/ \E x \in Messages : s = Append(wire[w], x) /\ x.kind # "collected" /\ Carries(w, x)'
  BY <1>14, <1>15, <1>16
<1>18. ASSUME ~ hub.refused, NEW u \in Cases, hub.inventory[u] # None, u \in worker'[w].seen, Trusted(w, u)'
       PROVE Echoes(wire[w], u, Known(w, u), hub.inventory[u])'
  <2>1. UNCHANGED hub /\ Known(w, u)' = Known(w, u)
    BY <1>3, <1>7 DEF Known
  <2>2. \A x \in Elements(s) : x.kind = "report" => x \in Elements(wire[w])
    BY <1>1, <1>14, <1>16, OnSend, ZenonT(30)
  <2>3. Trusted(w, u)
    BY <1>3, <1>7, <1>18, <1>s, <2>1, <2>2 DEF Trusted
  <2>4. Echoes(wire[w], u, Known(w, u), hub.inventory[u])
    BY <1>3, <1>7, <1>18, <2>3 DEF SuiteInv, Echoed
  <2>5. ~ Tells(m, u)
    BY <1>14 DEF Tells
  <2>6. Echoes(s, u, Known(w, u), hub.inventory[u])
    <3>1. CASE s = wire[w]
      BY <3>1, <2>4
    <3>2. CASE s = Append(wire[w], m)
      BY <3>2, <2>4, <2>5, <1>1, <1>14, EchoAppends
    <3> QED
      BY <3>1, <3>2, <1>16
  <2> QED
    BY <2>1, <2>6, <1>s
<1> QED
  BY <1>12, <1>13, <1>16, <1>17, <1>18, GrowsKeeps

LEMMA RefuseKeeps == ASSUME SuiteInv, NEW w \in Gateways, Suite!RefuseItem(w) PROVE SuiteInv'
<1>h. PICK h : h = worker[w]
  OBVIOUS
<1>k. PICK k : k = [h EXCEPT !.refused = TRUE, !.phase = "none", !.pc = "leaving"]
  OBVIOUS
<1>1. h.pc = "ready" /\ worker' = [worker EXCEPT ![w] = k] /\ UNCHANGED <<grant, wire, todo, hub, report, truth>>
  BY <1>h, <1>k DEF Suite!RefuseItem, Suite!At
<1>2. Leaves(h, k)
  BY <1>1, <1>k DEF Leaves
<1> QED
  BY <1>1, <1>2, <1>h, LeavesKeeps

LEMMA FinishKeeps == ASSUME SuiteInv, NEW w \in Gateways, Suite!SessionFinish(w) PROVE SuiteInv'
<1>h. PICK h : h = worker[w]
  OBVIOUS
<1>k. PICK k : k = [h EXCEPT !.pc = "finished"]
  OBVIOUS
<1>1. /\ h.pc = "leaving" \/ (h.pc = "ready" /\ h.phase = "none")
      /\ worker' = [worker EXCEPT ![w] = k] /\ UNCHANGED <<grant, todo, hub, report, truth>>
  BY <1>h, <1>k DEF Suite!SessionFinish, SuiteInv, SuiteTyped
<1>2. Leaves(h, k)
  BY <1>1, <1>k DEF Leaves
<1>3. h \in Halves
  BY <1>h, HalfTyped
<1>4. k.pc = "finished" /\ Suite!RecordFrom(h) = Suite!RecordFrom(k)
  BY <1>3, <1>k DEF Suite!RecordFrom, Halves
<1>5. wire' = [wire EXCEPT ![w] = Append(wire[w], [kind |-> "finished", record |-> Suite!RecordFrom(k)])]
  BY <1>4, <1>h DEF Suite!SessionFinish, Suite!Send
<1> QED
  BY <1>1, <1>2, <1>4, <1>5, <1>h, LeavesKeeps

LEMMA CrashKeeps == ASSUME SuiteInv, NEW w \in Gateways, Suite!Crash(w) PROVE SuiteInv'
<1>h. PICK h : h = worker[w]
  OBVIOUS
<1>k. PICK k : k = [h EXCEPT !.pc = "dead"]
  OBVIOUS
<1>1. /\ h.pc \in {"collecting", "ready", "leaving"}
      /\ worker' = [worker EXCEPT ![w] = k] /\ UNCHANGED <<grant, wire, todo, hub, report>>
      /\ UNCHANGED truth \/ (h.phase # "none" /\ truth' = [truth EXCEPT ![h.test] = "failed"])
  BY <1>h, <1>k DEF Suite!Crash, Suite!Settle, SuiteInv, SuiteTyped
<1>2. Leaves(h, k)
  BY <1>1, <1>k DEF Leaves
<1>3. k.pc = "dead"
  BY <1>h, <1>k, HalfTyped DEF Halves
<1> QED
  BY <1>1, <1>2, <1>3, <1>h, LeavesKeeps

-----------------------------------------------------------------------------
\* The controller takes in a message.
LEMMA EchoTail ==
  ASSUME NEW s \in Seq(Messages), s # <<>>, NEW t, NEW known, NEW told, NEW now, Echoes(s, t, known, told),
         Tells(Head(s), t) => now = Suite!Word(Head(s).phase, Head(s).outcome),
         ~ Tells(Head(s), t) => now = told
  PROVE Echoes(Tail(s), t, known, now)
<1>u. PICK u : u = Tail(s)
  OBVIOUS
<1>m. PICK m : m = Head(s)
  OBVIOUS
<1>1. /\ u \in Seq(Messages) /\ Len(u) \in Nat /\ Len(s) = Len(u) + 1 /\ s[1] = m
      /\ \A i \in 1 .. Len(u) : u[i] = s[i + 1] /\ i + 1 \in 1 .. Len(s)
      /\ \A i \in 1 .. Len(s) : i = 1 \/ (i - 1 \in 1 .. Len(u) /\ s[i] = u[i - 1] /\ (i - 1) + 1 = i)
      /\ 1 \in 1 .. Len(s)
  BY <1>u, <1>m
<1>2. ASSUME NEW i \in 1 .. Len(u), Tells(u[i], t), \A j \in 1 .. Len(u) : j > i => ~ Tells(u[j], t)
      PROVE Suite!Word(u[i].phase, u[i].outcome) = known
  <2>1. \A j \in 1 .. Len(s) : j > i + 1 => ~ Tells(s[j], t)
    <3> SUFFICES ASSUME NEW j \in 1 .. Len(s), j > i + 1 PROVE ~ Tells(s[j], t)
      OBVIOUS
    <3>1. j - 1 \in 1 .. Len(u) /\ s[j] = u[j - 1] /\ j - 1 > i
      BY <1>1
    <3> QED
      BY <3>1, <1>2
  <2>k. PICK k : k = i + 1
    OBVIOUS
  <2>2. k \in 1 .. Len(s) /\ s[k] = u[i] /\ \A j \in 1 .. Len(s) : j > k => ~ Tells(s[j], t)
    BY <2>1, <2>k, <1>1
  <2> QED
    BY <2>2, <1>2 DEF Echoes
<1>3. ASSUME \A i \in 1 .. Len(u) : ~ Tells(u[i], t) PROVE now = known
  <2>1. \A i \in 1 .. Len(s) : i # 1 => ~ Tells(s[i], t)
    BY <1>1, <1>3
  <2>2. CASE Tells(m, t)
    <3>1. Suite!Word(s[1].phase, s[1].outcome) = known
      <4>1. \A j \in 1 .. Len(s) : j > 1 => ~ Tells(s[j], t)
        BY <2>1
      <4> QED
        BY <4>1, <2>2, <1>1 DEF Echoes
    <3> QED
      BY <3>1, <2>2, <1>1, <1>m
  <2>3. CASE ~ Tells(m, t)
    <3>1. \A i \in 1 .. Len(s) : ~ Tells(s[i], t)
      BY <2>1, <2>3, <1>1
    <3>2. told = known
      BY <3>1 DEF Echoes
    <3> QED
      BY <3>2, <2>3, <1>m
  <2> QED
    BY <2>2, <2>3
<1> QED
  BY <1>u, <1>2, <1>3 DEF Echoes

Takes(w) ==
  /\ hub.pc = "loop" /\ wire[w] # <<>> /\ UNCHANGED <<grant, worker, report, truth>>
  /\ wire' = [wire EXCEPT ![w] = Tail(wire[w])]

LEMMA TakesHead ==
  ASSUME SuiteInv, NEW w \in Gateways, Takes(w), NEW m, m = Head(wire[w])
  PROVE /\ m \in Messages /\ m \in Elements(wire[w]) /\ Carries(w, m) /\ w \notin hub.down
        /\ worker[w].pc # "collecting" /\ report = None
        /\ wire'[w] = Tail(wire[w]) /\ wire' \in [Gateways -> Seq(Messages)]
        /\ \A v \in Gateways : v # w => wire'[v] = wire[v]
        /\ Elements(wire[w]) = Elements(wire'[w]) \union {m}
<1>1. wire \in [Gateways -> Seq(Messages)] /\ wire[w] \in Seq(Messages) /\ wire[w] # <<>>
  BY HalfTyped DEF Takes, SuiteInv, SuiteTyped
<1>2. /\ Tail(wire[w]) \in Seq(Messages) /\ Head(wire[w]) \in Messages /\ Head(wire[w]) \in Elements(wire[w])
      /\ Elements(wire[w]) = Elements(Tail(wire[w])) \union {Head(wire[w])}
  BY <1>1, OnReceive
<1>3. wire'[w] = Tail(wire[w]) /\ wire' \in [Gateways -> Seq(Messages)] /\ \A v \in Gateways : v # w => wire'[v] = wire[v]
  BY <1>1, <1>2 DEF Takes
<1>4. Carries(w, m)
  BY <1>2 DEF SuiteInv, Carried
<1>5. w \notin hub.down /\ worker[w].pc # "collecting"
  BY <1>1 DEF SuiteInv, Heard, Carried
<1>6. report = None
  BY DEF Takes, SuiteInv, Closed
<1> QED
  BY <1>2, <1>3, <1>4, <1>5, <1>6

LEMMA TakesKeeps ==
  ASSUME SuiteInv, NEW w \in Gateways, Takes(w), NEW m, m = Head(wire[w]), hub' \in Hubs,
         todo' \in {None} \union SUBSET Cases,
         \A v \in Gateways : v # w => hub'.collections[v] = hub.collections[v],
         m.kind = "collected" \/ hub'.collections[w] = hub.collections[w],
         Lived', Heard', Echoed'
  PROVE SuiteInv'
<1>1. /\ m \in Elements(wire[w]) /\ Carries(w, m) /\ worker[w].pc # "collecting" /\ report = None
      /\ wire'[w] = Tail(wire[w]) /\ wire' \in [Gateways -> Seq(Messages)]
      /\ \A v \in Gateways : v # w => wire'[v] = wire[v]
      /\ Elements(wire[w]) = Elements(wire'[w]) \union {m}
  BY TakesHead
<1>2. UNCHANGED <<grant, worker, report, truth>>
  BY DEF Takes
<1>3. Ordered(wire'[w]) /\ (m.kind = "collected" => \A x \in Elements(wire'[w]) : x.kind # "collected")
  <2>1. wire[w] \in Seq(Messages) /\ wire[w] # <<>> /\ Ordered(wire[w])
    BY HalfTyped DEF Takes
  <2>2. Ordered(Tail(wire[w]))
    BY <2>1, OnReceive
  <2>3. m.kind = "collected" => \A x \in Elements(Tail(wire[w])) : x.kind # "collected"
    BY <2>1, OnReceive
  <2> QED
    BY <2>2, <2>3, <1>1
<1>4. \A v \in Gateways : \A x \in Elements(wire'[v]) : Carries(v, x)'
  <2> SUFFICES ASSUME NEW v \in Gateways, NEW x \in Elements(wire'[v]) PROVE Carries(v, x)'
    OBVIOUS
  <2>1. Carries(v, x)
    BY <1>1 DEF SuiteInv, Carried
  <2>2. x.kind = "collected" => hub'.collections[v] = hub.collections[v]
    BY <1>3
  <2> QED
    BY <1>2, <2>1, <2>2 DEF Carries
<1>5. Carried'
  <2>1. \A v \in Gateways : worker'[v].pc = "collecting" => wire'[v] = <<>> /\ hub'.collections[v] = None
    BY <1>1, <1>2 DEF SuiteInv, Carried
  <2>2. \A v \in Gateways : Ordered(wire'[v])
    BY <1>1, <1>3 DEF SuiteInv, Carried
  <2> QED
    BY <1>4, <2>1, <2>2 DEF Carried
<1>6. SuiteTyped'
  BY <1>1, <1>2 DEF SuiteInv, SuiteTyped
<1>7. \A v \in Gateways : HalfSound(worker[v])'
  BY <1>2, ZenonT(30) DEF SuiteInv, HalfSound, Suite!DroppedAfter
<1>8. Closed' /\ Suite!PassIsWhole' /\ Suite!CountsAreTrue'
  BY <1>1, <1>2 DEF Closed, Suite!PassIsWhole, Suite!CountsAreTrue
<1> QED
  BY <1>5, <1>6, <1>7, <1>8 DEF SuiteInv

\* A message that is no collection changes the inventory by what it counts.
LEMMA TakesEchoed ==
  ASSUME SuiteInv, NEW w \in Gateways, Takes(w), NEW m, m = Head(wire[w]),
         ~ hub'.refused => ~ hub.refused,
         ~ grant.advanced => hub'.inventory = Suite!Untold,
         \A t \in Cases : hub'.inventory[t] # None /\ ~ hub'.refused =>
           /\ hub.inventory[t] # None
           /\ Tells(m, t) => hub'.inventory[t] = Suite!Word(m.phase, m.outcome)
           /\ ~ Tells(m, t) => hub'.inventory[t] = hub.inventory[t],
         \A t \in Cases : \A ph \in Phases : <<t, ph>> \in hub'.failures =>
           \/ <<t, ph>> \in hub.failures
           \/ m.kind = "report" /\ m.test = t /\ m.phase = ph /\ m.outcome = "failed"
  PROVE Echoed'
<1>1. /\ Carries(w, m) /\ m \in Elements(wire[w]) /\ wire'[w] = Tail(wire[w])
      /\ \A v \in Gateways : v # w => wire'[v] = wire[v]
      /\ Elements(wire[w]) = Elements(wire'[w]) \union {m}
  BY TakesHead
<1>2. UNCHANGED <<grant, worker, truth>> /\ wire[w] # <<>> /\ wire[w] \in Seq(Messages)
  BY HalfTyped DEF Takes
<1>3. m.kind = "report" => m.test \in worker[w].seen
  BY <1>1 DEF Carries
<1>4. ASSUME NEW t \in Cases, hub'.inventory[t] # None, ~ hub'.refused
      PROVE truth'[t] = "unrun" => hub'.inventory[t] = "unknown"
  <2>1. truth[t] = "unrun" => t \notin worker[w].seen
    BY DEF SuiteInv, Lived
  <2>2. truth[t] = "unrun" => ~ Tells(m, t)
    BY <2>1, <1>3 DEF Tells
  <2> QED
    BY <2>2, <1>2, <1>4 DEF SuiteInv, Echoed
<1>5. ASSUME NEW t \in Cases, hub'.inventory[t] # None, ~ hub'.refused, NEW v \in Gateways, t \in worker'[v].seen, Trusted(v, t)'
      PROVE Echoes(wire[v], t, Known(v, t), hub.inventory[t])'
  <2>1. Known(v, t)' = Known(v, t) /\ t \in worker[v].seen
    BY <1>2, <1>5 DEF Known
  <2>2. v # w => ~ (m.kind = "report" /\ m.test = t)
    BY <2>1, <1>3 DEF SuiteInv, Lived
  <2>3. Trusted(v, t)
    BY <1>1, <1>2, <1>5, <2>2 DEF Trusted
  <2>4. Echoes(wire[v], t, Known(v, t), hub.inventory[t])
    BY <2>1, <2>3, <1>5 DEF SuiteInv, Echoed
  <2>5. CASE v # w
    <3>1. ~ Tells(m, t)
      BY <2>2, <2>5 DEF Tells
    <3> QED
      BY <3>1, <2>1, <2>4, <2>5, <1>1, <1>5
  <2>6. CASE v = w
    <3>n. PICK now : now = hub'.inventory[t]
      OBVIOUS
    <3>1. /\ Tells(Head(wire[w]), t) => now = Suite!Word(Head(wire[w]).phase, Head(wire[w]).outcome)
          /\ ~ Tells(Head(wire[w]), t) => now = hub.inventory[t]
      BY <3>n, <1>5
    <3>2. Echoes(Tail(wire[w]), t, Known(w, t), now)
      BY <3>1, <2>4, <2>6, <1>2, EchoTail
    <3> QED
      BY <3>n, <3>2, <2>1, <2>6, <1>1
  <2> QED
    BY <2>5, <2>6
<1> QED
  BY <1>2, <1>4, <1>5 DEF Echoed

\* What the controller knows of the workers, when neither a collection nor a
\* record arrives.
LEMMA TakesHeard ==
  ASSUME SuiteInv, NEW w \in Gateways, Takes(w), UNCHANGED todo, hub' \in Hubs,
         hub'.collections = hub.collections, hub'.down = hub.down, hub'.lost = hub.lost, hub'.records = hub.records,
         \A t \in hub'.reported : truth[t] # "unrun",
         \A t \in hub'.observed : truth[t] \in Outcomes,
         \A t \in Cases : \A ph \in Phases : <<t, ph>> \in hub'.failures => \E v \in Gateways : <<t, ph>> \in worker[v].failures,
         \A t \in Cases : <<t, "crash">> \in hub'.failures => hub.lost # {},
         hub'.marker /\ hub'.pc = "loop" => hub'.expected \subseteq hub'.observed /\ hub.collections # Suite!Unheard,
         hub'.expected # {} => hub.collections # Suite!Unheard
  PROVE Heard' /\ Lived'
<1>m. PICK m : m = Head(wire[w])
  OBVIOUS
<1>1. w \notin hub.down /\ \A v \in Gateways : v # w => wire'[v] = wire[v]
  BY <1>m, TakesHead
<1>2. UNCHANGED <<worker, truth>> /\ Suite!Unheard' = Suite!Unheard
  BY DEF Takes, Suite!Unheard
<1>3. \A v \in Gateways :
       /\ hub'.collections[v] # None => hub'.collections[v] = worker'[v].items
       /\ todo' # None => hub'.collections[v] # None
       /\ v \in hub'.down => wire'[v] = <<>> /\ worker'[v].pc \in {"finished", "dead"}
       /\ v \in hub'.down \ hub'.lost =>
            worker'[v].pc = "finished" /\ hub'.records[v] = Suite!RecordFrom(worker'[v])
       /\ v \in hub'.lost => v \in hub'.down
  BY <1>1, <1>2 DEF SuiteInv, Heard
<1>4. Heard'
  BY <1>2, <1>3 DEF Heard
<1>5. Lived'
  BY <1>2 DEF SuiteInv, Lived
<1> QED
  BY <1>4, <1>5

LEMMA ErrorKeeps ==
  ASSUME SuiteInv, NEW w \in Gateways, Takes(w), Head(wire[w]).kind = "error", UNCHANGED todo,
         hub' = [hub EXCEPT !.errors = 1]
  PROVE SuiteInv'
<1>m. PICK m : m = Head(wire[w])
  OBVIOUS
<1>1. /\ hub' \in Hubs /\ hub'.collections = hub.collections /\ hub'.down = hub.down /\ hub'.lost = hub.lost
      /\ hub'.records = hub.records /\ hub'.reported = hub.reported /\ hub'.observed = hub.observed
      /\ hub'.failures = hub.failures /\ hub'.marker = hub.marker /\ hub'.expected = hub.expected
      /\ hub'.pc = hub.pc /\ hub'.refused = hub.refused /\ hub'.inventory = hub.inventory
  BY DEF SuiteInv, SuiteTyped, Hubs
<1>2. Heard' /\ Lived'
  BY <1>1, TakesHeard DEF SuiteInv, Heard
<1>3. ~ Tells(m, m.test) /\ \A t \in Cases : ~ Tells(m, t)
  BY <1>m DEF Tells
<1>4. Echoed'
  <2>1. ~ grant.advanced => hub'.inventory = Suite!Untold
    BY <1>1 DEF SuiteInv, Echoed
  <2> QED
    BY <2>1, <1>m, <1>1, <1>3, TakesEchoed
<1>5. todo' \in {None} \union SUBSET Cases
  BY DEF SuiteInv, SuiteTyped
<1> QED
  BY <1>m, <1>1, <1>2, <1>4, <1>5, TakesKeeps

LEMMA ReportArrives ==
  ASSUME SuiteInv, NEW w \in Gateways, Takes(w), NEW m, m = Head(wire[w]), m.kind = "report", UNCHANGED todo, Suite!LogReport(m)
  PROVE SuiteInv'
<1>1. m \in Reports /\ Carries(w, m) /\ hub \in Hubs
  BY TakesHead DEF Messages, SuiteInv, SuiteTyped
<1>2. m.test \in Cases /\ m.phase \in Phases /\ m.outcome \in Outcomes /\ m.test \in worker[w].seen
      /\ (m.outcome = "failed" => <<m.test, m.phase>> \in worker[w].failures)
      /\ (Suite!Final(m) => truth[m.test] \in Outcomes)
  BY <1>1 DEF Reports, Carries
<1>o. PICK observed : observed = hub.observed \union (IF Suite!Final(m) THEN {m.test} ELSE {})
  OBVIOUS
<1>r. PICK reported : reported = hub.reported \union {m.test}
  OBVIOUS
<1>f. PICK failures : failures = IF m.outcome = "failed" THEN hub.failures \union {<<m.test, m.phase>>} ELSE hub.failures
  OBVIOUS
<1>i. PICK inventory : inventory = IF grant.advanced THEN Suite!Recorded(hub.inventory, m.test, m.phase, m.outcome) ELSE hub.inventory
  OBVIOUS
<1>a. PICK armed : armed = Suite!Armed(observed)
  OBVIOUS
<1>b. PICK stop : stop = (hub.stop \/ (Suite!Allows("stop") /\ m.outcome = "failed"))
  OBVIOUS
<1>3. /\ reported \in SUBSET Cases /\ observed \in SUBSET Cases
      /\ failures \in SUBSET (Cases \X (Phases \union {"crash"}))
  BY <1>1, <1>2, <1>o, <1>r, <1>f DEF Hubs
<1>4. inventory \in [Cases -> Outcomes \union {None, "unknown"}]
  <2>1. Suite!Word(m.phase, m.outcome) \in Outcomes
    BY <1>2 DEF Suite!Word, Outcomes, Suite!Outcomes
  <2> QED
    BY <2>1, <1>1, <1>i DEF Suite!Recorded, Hubs
<1>s. armed \in BOOLEAN /\ stop \in BOOLEAN
  <2>1. hub.stop \in BOOLEAN /\ hub.marker \in BOOLEAN
    BY <1>1 DEF Hubs
  <2>2. Suite!Armed(observed) \in BOOLEAN
    BY <2>1 DEF Suite!Armed
  <2>3. (hub.stop \/ (Suite!Allows("stop") /\ m.outcome = "failed")) \in BOOLEAN
    OBVIOUS
  <2> QED
    BY <2>2, <2>3, <1>a, <1>b
<1>t. \A t \in reported : truth[t] # "unrun"
  BY <1>1, <1>2, <1>r DEF SuiteInv, Heard, Lived
<1>u. \A t \in observed : truth[t] \in Outcomes
  BY <1>2, <1>o DEF SuiteInv, Heard
<1>v. /\ \A t \in Cases : \A ph \in Phases : <<t, ph>> \in failures => \E v \in Gateways : <<t, ph>> \in worker[v].failures
      /\ \A t \in Cases : <<t, "crash">> \in failures => hub.lost # {}
  <2>1. \A t \in Cases : \A ph \in Phases \union {"crash"} : <<t, ph>> \in failures =>
          <<t, ph>> \in hub.failures \/ (t = m.test /\ ph = m.phase /\ m.outcome = "failed")
    BY <1>f
  <2>2. m.phase # "crash"
    BY <1>2 DEF Phases
  <2> QED
    BY <2>1, <2>2, <1>2 DEF SuiteInv, Heard
<1>w. /\ armed /\ hub.pc = "loop" => hub.expected \subseteq observed /\ hub.collections # Suite!Unheard
      /\ hub.expected # {} => hub.collections # Suite!Unheard
  BY <1>a, <1>o DEF Suite!Armed, SuiteInv, Heard
<1>x. \A t \in Cases : \A ph \in Phases : <<t, ph>> \in failures =>
        <<t, ph>> \in hub.failures \/ (m.kind = "report" /\ m.test = t /\ m.phase = ph /\ m.outcome = "failed")
  BY <1>f
<1>y. todo' \in {None} \union SUBSET Cases
  BY DEF SuiteInv, SuiteTyped
<1>5. CASE grant.advanced /\ hub.inventory[m.test] = None
  <2>1. hub' = [hub EXCEPT !.reported = reported, !.failures = failures, !.refused = TRUE, !.stop = TRUE]
    BY <1>5, <1>r, <1>f, <1>1 DEF Suite!LogReport, Hubs
  <2>2. /\ hub' \in Hubs /\ hub'.collections = hub.collections /\ hub'.down = hub.down /\ hub'.lost = hub.lost
        /\ hub'.records = hub.records /\ hub'.reported = reported /\ hub'.observed = hub.observed
        /\ hub'.failures = failures /\ hub'.marker = hub.marker /\ hub'.expected = hub.expected
        /\ hub'.pc = hub.pc /\ hub'.refused
    BY <2>1, <1>1, <1>3 DEF Hubs
  <2>3. Heard' /\ Lived'
    <3>1. hub'.marker /\ hub'.pc = "loop" => hub'.expected \subseteq hub'.observed /\ hub.collections # Suite!Unheard
      BY <2>2 DEF SuiteInv, Heard
    <3>2. \A t \in hub'.observed : truth[t] \in Outcomes
      BY <2>2 DEF SuiteInv, Heard
    <3> QED
      BY <3>1, <3>2, <2>2, <1>t, <1>v, <1>w, TakesHeard
  <2>4. Echoed'
    <3>1. grant.advanced' /\ hub'.refused
      BY <1>5, <2>2 DEF Takes
    <3> QED
      BY <3>1 DEF Echoed
  <2> QED
    BY <1>y, <2>2, <2>3, <2>4, TakesKeeps
<1>6. CASE ~ (grant.advanced /\ hub.inventory[m.test] = None)
  <2>1. hub' = [hub EXCEPT !.reported = reported, !.failures = failures, !.observed = observed, !.marker = armed,
                           !.inventory = inventory, !.stop = stop]
    <3>1. hub' = [[hub EXCEPT !.reported = hub.reported \union {m.test},
                      !.failures = IF m.outcome = "failed" THEN hub.failures \union {<<m.test, m.phase>>} ELSE hub.failures]
                   EXCEPT !.observed = hub.observed \union (IF Suite!Final(m) THEN {m.test} ELSE {}),
                      !.marker = Suite!Armed(hub.observed \union (IF Suite!Final(m) THEN {m.test} ELSE {})),
                      !.inventory = IF grant.advanced THEN Suite!Recorded(hub.inventory, m.test, m.phase, m.outcome) ELSE hub.inventory,
                      !.stop = hub.stop \/ (Suite!Allows("stop") /\ m.outcome = "failed")]
      BY <1>6, <1>1 DEF Suite!LogReport, Hubs
    <3> QED
      BY <3>1, <1>o, <1>r, <1>f, <1>i, <1>a, <1>b
  <2>2. /\ hub' \in Hubs /\ hub'.collections = hub.collections /\ hub'.down = hub.down /\ hub'.lost = hub.lost
        /\ hub'.records = hub.records /\ hub'.reported = reported /\ hub'.observed = observed
        /\ hub'.failures = failures /\ hub'.marker = armed /\ hub'.expected = hub.expected
        /\ hub'.pc = hub.pc /\ hub'.refused = hub.refused /\ hub'.inventory = inventory
    BY <2>1, <1>s, <1>1, <1>3, <1>4 DEF Hubs
  <2>3. Heard' /\ Lived'
    BY <2>2, <1>t, <1>u, <1>v, <1>w, TakesHeard
  <2>4. Echoed'
    <3>1. ~ grant.advanced => hub'.inventory = Suite!Untold
      BY <2>2, <1>i DEF SuiteInv, Echoed
    <3>2. \A t \in Cases : hub'.inventory[t] # None /\ ~ hub'.refused =>
            /\ hub.inventory[t] # None
            /\ Tells(m, t) => hub'.inventory[t] = Suite!Word(m.phase, m.outcome)
            /\ ~ Tells(m, t) => hub'.inventory[t] = hub.inventory[t]
      <4>1. CASE ~ grant.advanced
        BY <3>1, <4>1 DEF Suite!Untold
      <4>2. CASE grant.advanced
        <5>1. inventory = Suite!Recorded(hub.inventory, m.test, m.phase, m.outcome) /\ hub.inventory[m.test] # None
          BY <1>6, <1>i, <4>2
        <5>2. \A t \in Cases : Tells(m, t) => t = m.test /\ inventory[t] = Suite!Word(m.phase, m.outcome)
          BY <5>1, <1>1, <1>2 DEF Suite!Recorded, Tells, Hubs
        <5>3. \A t \in Cases : ~ Tells(m, t) => inventory[t] = hub.inventory[t]
          BY <5>1, <1>1, <1>2 DEF Suite!Recorded, Tells, Hubs
        <5> QED
          BY <5>1, <5>2, <5>3, <2>2
      <4> QED
        BY <4>1, <4>2
    <3>3. hub'.failures = failures /\ hub'.refused = hub.refused
      BY <2>2
    <3> QED
      BY <3>1, <3>2, <3>3, <1>x, TakesEchoed
  <2> QED
    BY <1>y, <2>2, <2>3, <2>4, TakesKeeps
<1> QED
  BY <1>5, <1>6

LEMMA RecordArrives ==
  ASSUME SuiteInv, NEW w \in Gateways, Takes(w), NEW m, m = Head(wire[w]), m.kind = "finished", UNCHANGED todo,
         Suite!NodeDown(w, m.record)
  PROVE SuiteInv'
<1>1. m \in Messages /\ Carries(w, m) /\ hub \in Hubs /\ w \notin hub.down /\ \A v \in Gateways : v # w => wire'[v] = wire[v]
  BY TakesHead DEF SuiteInv, SuiteTyped
<1>r. PICK record : record = m.record
  OBVIOUS
<1>2. /\ record = Suite!RecordFrom(worker[w]) /\ worker[w].pc = "finished"
      /\ hub' = [hub EXCEPT !.down = hub.down \union {w}, !.records[w] = record]
  BY <1>1, <1>r DEF Carries, Suite!NodeDown
<1>3. record \in Records
  <2>1. worker[w] \in Halves
    BY HalfTyped
  <2> QED
    BY <2>1, <1>2 DEF Records, Halves, Suite!RecordFrom
<1>4. /\ hub' \in Hubs /\ hub'.collections = hub.collections /\ hub'.down = hub.down \union {w} /\ hub'.lost = hub.lost
      /\ hub'.reported = hub.reported /\ hub'.observed = hub.observed
      /\ hub'.failures = hub.failures /\ hub'.marker = hub.marker /\ hub'.expected = hub.expected
      /\ hub'.pc = hub.pc /\ hub'.refused = hub.refused /\ hub'.inventory = hub.inventory
  BY <1>1, <1>2, <1>3 DEF Hubs
<1>5. hub'.records[w] = record /\ \A v \in Gateways : v # w => hub'.records[v] = hub.records[v]
  BY <1>1, <1>2 DEF Hubs
<1>6. UNCHANGED <<worker, truth>> /\ Suite!Unheard' = Suite!Unheard /\ wire'[w] = <<>>
  <2>1. wire[w] \in Seq(Messages) /\ wire[w] # <<>> /\ Ordered(wire[w])
    BY HalfTyped DEF Takes
  <2>2. Tail(wire[w]) = <<>>
    BY <2>1, OnReceive
  <2> QED
    BY <2>2, TakesHead DEF Takes, Suite!Unheard
<1>7. \A v \in Gateways :
       /\ hub'.collections[v] # None => hub'.collections[v] = worker'[v].items
       /\ todo' # None => hub'.collections[v] # None
       /\ v \in hub'.down => wire'[v] = <<>> /\ worker'[v].pc \in {"finished", "dead"}
       /\ v \in hub'.lost => v \in hub'.down
  BY <1>1, <1>2, <1>4, <1>6 DEF SuiteInv, Heard
<1>8. \A v \in Gateways : v \in hub'.down \ hub'.lost =>
        worker'[v].pc = "finished" /\ hub'.records[v] = Suite!RecordFrom(worker'[v])
  BY <1>2, <1>4, <1>5, <1>6 DEF SuiteInv, Heard
<1>9. Heard'
  BY <1>4, <1>6, <1>7, <1>8 DEF SuiteInv, Heard
<1>10. Lived'
  BY <1>6 DEF SuiteInv, Lived
<1>11. Echoed'
  <2>1. ~ grant.advanced => hub'.inventory = Suite!Untold
    BY <1>4 DEF SuiteInv, Echoed
  <2>2. \A t \in Cases : ~ Tells(m, t)
    BY DEF Tells
  <2> QED
    BY <2>1, <2>2, <1>4, TakesEchoed
<1>12. todo' \in {None} \union SUBSET Cases
  BY DEF SuiteInv, SuiteTyped
<1> QED
  BY <1>4, <1>9, <1>10, <1>11, <1>12, TakesKeeps

LEMMA CollectionArrives ==
  ASSUME Suite!SessionMakesSense, SuiteInv, NEW w \in Gateways, Takes(w), NEW m, m = Head(wire[w]), m.kind = "collected",
         Suite!CollectionFinished(w, m.ids), Suite!Schedule(w, m.ids)
  PROVE SuiteInv'
<1>1. m \in Messages /\ Carries(w, m) /\ hub \in Hubs /\ w \notin hub.down /\ \A v \in Gateways : v # w => wire'[v] = wire[v]
  BY TakesHead DEF SuiteInv, SuiteTyped
<1>i. PICK ids : ids = m.ids
  OBVIOUS
<1>2. ids \in SUBSET Cases /\ ids = worker[w].items /\ hub.collections[w] = None /\ ids # None
  <2>1. ids = worker[w].items /\ hub.collections[w] = None
    BY <1>1, <1>i DEF Carries
  <2>2. worker[w] \in Halves
    BY HalfTyped
  <2> QED
    BY <2>1, <2>2 DEF Halves, Suite!SessionMakesSense
<1>3. todo = None /\ (\A v \in Gateways : worker[v].seen = {}) /\ \A t \in Cases : truth[t] = "unrun"
  <2>1. todo = None
    BY <1>2 DEF SuiteInv, Heard
  <2> QED
    BY <2>1 DEF SuiteInv, Lived
<1>c. PICK collections : collections = [hub.collections EXCEPT ![w] = ids]
  OBVIOUS
<1>x. PICK expected : expected = IF hub.collections = Suite!Unheard THEN ids ELSE hub.expected
  OBVIOUS
<1>n. PICK inventory : inventory = Suite!Inventory(ids)
  OBVIOUS
<1>4. /\ collections \in [Gateways -> {None} \union SUBSET Cases] /\ collections[w] = ids
      /\ \A v \in Gateways : v # w => collections[v] = hub.collections[v]
  BY <1>1, <1>2, <1>c DEF Hubs
<1>5. expected \in SUBSET Cases /\ inventory \in [Cases -> Outcomes \union {None, "unknown"}]
  BY <1>1, <1>2, <1>x, <1>n DEF Hubs, Suite!Inventory
<1>6. \/ /\ grant.advanced
         /\ hub' = [hub EXCEPT !.collections = collections, !.expected = expected, !.refused = TRUE, !.stop = TRUE]
      \/ hub' = [hub EXCEPT !.collections = collections, !.expected = expected, !.inventory = inventory]
  BY <1>i, <1>c, <1>x, <1>n DEF Suite!CollectionFinished, Suite!Collections, Suite!Expected
<1>7. /\ hub' \in Hubs /\ hub'.collections = collections /\ hub'.down = hub.down /\ hub'.lost = hub.lost
      /\ hub'.records = hub.records
      /\ hub'.reported = hub.reported /\ hub'.observed = hub.observed
      /\ hub'.failures = hub.failures /\ hub'.marker = hub.marker /\ hub'.expected = expected /\ hub'.pc = hub.pc
      /\ (grant.advanced /\ hub'.refused) \/ hub'.inventory = inventory
  <2>1. CASE /\ grant.advanced
             /\ hub' = [hub EXCEPT !.collections = collections, !.expected = expected, !.refused = TRUE, !.stop = TRUE]
    BY <2>1, <1>1, <1>4, <1>5 DEF Hubs
  <2>2. CASE hub' = [hub EXCEPT !.collections = collections, !.expected = expected, !.inventory = inventory]
    BY <2>2, <1>1, <1>4, <1>5 DEF Hubs
  <2> QED
    BY <2>1, <2>2, <1>6
<1>8. /\ todo' \in {None} \union SUBSET Cases
      /\ todo' # None => \A v \in Gateways : collections[v] # None
  BY <1>2, <1>3, <1>c, <1>i DEF Suite!Schedule, Suite!Collections
<1>9. UNCHANGED <<grant, worker, truth>> /\ Suite!Unheard' = Suite!Unheard
  BY DEF Takes, Suite!Unheard
<1>10. collections # Suite!Unheard
  BY <1>2, <1>4 DEF Suite!Unheard
<1>11. hub.marker /\ hub.pc = "loop" => expected \subseteq hub.observed
  BY <1>x DEF SuiteInv, Heard
<1>12. \A v \in Gateways :
       /\ hub'.collections[v] # None => hub'.collections[v] = worker'[v].items
       /\ todo' # None => hub'.collections[v] # None
       /\ v \in hub'.down => wire'[v] = <<>> /\ worker'[v].pc \in {"finished", "dead"}
       /\ v \in hub'.down \ hub'.lost =>
            worker'[v].pc = "finished" /\ hub'.records[v] = Suite!RecordFrom(worker'[v])
       /\ v \in hub'.lost => v \in hub'.down
  BY <1>1, <1>2, <1>4, <1>7, <1>8, <1>9 DEF SuiteInv, Heard
<1>13. Heard'
  BY <1>7, <1>9, <1>10, <1>11, <1>12 DEF SuiteInv, Heard
<1>14. Lived'
  BY <1>3, <1>9 DEF SuiteInv, Lived
<1>15. Echoed'
  <2>1. ~ grant.advanced => inventory = Suite!Untold
    BY <1>n DEF Suite!Inventory, Suite!Untold
  <2>2. \A t \in Cases : inventory[t] # None => inventory[t] = "unknown"
    BY <1>n DEF Suite!Inventory
  <2> QED
    BY <2>1, <2>2, <1>3, <1>7, <1>9 DEF Echoed, Suite!Untold
<1> QED
  BY <1>4, <1>7, <1>8, <1>13, <1>14, <1>15, TakesKeeps

LEMMA ReceiveKeeps == ASSUME Suite!SessionMakesSense, SuiteInv, NEW w \in Gateways, Suite!Receive(w) PROVE SuiteInv'
<1>m. PICK m : m = Head(wire[w])
  OBVIOUS
<1>1. Takes(w)
  BY DEF Takes, Suite!Receive
<1>2. CASE m.kind = "error" /\ hub' = [hub EXCEPT !.errors = 1] /\ UNCHANGED todo
  BY <1>m, <1>1, <1>2, ErrorKeeps
<1>3. CASE m.kind = "collected" /\ Suite!CollectionFinished(w, m.ids) /\ Suite!Schedule(w, m.ids)
  BY <1>m, <1>1, <1>3, CollectionArrives
<1>4. CASE m.kind = "report" /\ Suite!LogReport(m) /\ UNCHANGED todo
  BY <1>m, <1>1, <1>4, ReportArrives
<1>5. CASE m.kind = "finished" /\ Suite!NodeDown(w, m.record) /\ UNCHANGED todo
  BY <1>m, <1>1, <1>5, RecordArrives
<1> QED
  BY <1>m, <1>2, <1>3, <1>4, <1>5 DEF Suite!Receive

-----------------------------------------------------------------------------
\* What the controller does by itself.
LEMMA LoseKeeps == ASSUME SuiteInv, NEW w \in Gateways, Suite!LoseWorker(w) PROVE SuiteInv'
<1>1. /\ hub.pc = "loop" /\ worker[w].pc = "dead" /\ wire[w] = <<>> /\ w \notin hub.down
      /\ UNCHANGED <<grant, worker, wire, todo, report, truth>> /\ Suite!NodeLost(w)
  BY DEF Suite!LoseWorker
<1>2. hub \in Hubs /\ worker[w] \in Halves /\ HalfSound(worker[w])
  BY HalfTyped DEF SuiteInv, SuiteTyped
<1>p. PICK struck : struck = IF worker[w].phase = "none" THEN {} ELSE {worker[w].test}
  OBVIOUS
<1>3. struck \in SUBSET Cases /\ struck \subseteq worker[w].seen
  BY <1>2, <1>p DEF HalfSound, Halves
<1>r. PICK reported : reported = hub.reported \union struck
  OBVIOUS
<1>f. PICK failures : failures = hub.failures \union (struck \X {"crash"})
  OBVIOUS
<1>4. /\ hub' \in Hubs /\ hub'.collections = hub.collections /\ hub'.down = hub.down \union {w} /\ hub'.lost = hub.lost \union {w}
      /\ hub'.records = hub.records /\ hub'.reported = reported /\ hub'.observed = hub.observed
      /\ hub'.failures = failures /\ hub'.marker = hub.marker /\ hub'.expected = hub.expected
      /\ hub'.pc = hub.pc /\ hub'.refused = hub.refused /\ hub'.inventory = hub.inventory
  <2>1. CASE worker[w].phase = "none"
    <3>1. hub' = [hub EXCEPT !.down = hub.down \union {w}, !.lost = hub.lost \union {w}, !.stop = TRUE]
      BY <2>1, <1>1 DEF Suite!NodeLost
    <3>2. reported = hub.reported /\ failures = hub.failures
      BY <2>1, <1>p, <1>r, <1>f
    <3> QED
      BY <3>1, <3>2, <1>2 DEF Hubs
  <2>2. CASE worker[w].phase # "none"
    <3>1. hub' = [[hub EXCEPT !.down = hub.down \union {w}, !.lost = hub.lost \union {w}, !.stop = TRUE]
                   EXCEPT !.reported = hub.reported \union {worker[w].test},
                          !.failures = hub.failures \union {<<worker[w].test, "crash">>}]
      BY <2>2, <1>1, <1>2 DEF Suite!NodeLost, Hubs
    <3>2. reported = hub.reported \union {worker[w].test} /\ failures = hub.failures \union {<<worker[w].test, "crash">>}
      BY <2>2, <1>p, <1>r, <1>f
    <3>3. reported \in SUBSET Cases /\ failures \in SUBSET (Cases \X (Phases \union {"crash"}))
      BY <1>2, <1>3, <1>r, <1>f DEF Hubs
    <3> QED
      BY <3>1, <3>2, <3>3, <1>2 DEF Hubs
  <2> QED
    BY <2>1, <2>2
<1>5. Suite!Unheard' = Suite!Unheard
  BY DEF Suite!Unheard
<1>6. \A v \in Gateways :
       /\ hub'.collections[v] # None => hub'.collections[v] = worker'[v].items
       /\ todo' # None => hub'.collections[v] # None
       /\ v \in hub'.down => wire'[v] = <<>> /\ worker'[v].pc \in {"finished", "dead"}
       /\ v \in hub'.down \ hub'.lost =>
            worker'[v].pc = "finished" /\ hub'.records[v] = Suite!RecordFrom(worker'[v])
       /\ v \in hub'.lost => v \in hub'.down
  BY <1>1, <1>4 DEF SuiteInv, Heard
<1>7. \A t \in reported : truth[t] # "unrun"
  BY <1>3, <1>r DEF SuiteInv, Heard, Lived
<1>8. \A t \in Cases : \A ph \in Phases : <<t, ph>> \in failures => <<t, ph>> \in hub.failures
  BY <1>f DEF Phases
<1>9. Heard'
  BY <1>1, <1>4, <1>5, <1>6, <1>7, <1>8 DEF SuiteInv, Heard
<1>10. Lived'
  BY <1>1 DEF SuiteInv, Lived
<1>11. Carried'
  <2>1. \A v \in Gateways : \A m \in Elements(wire[v]) : Carries(v, m) => Carries(v, m)'
    BY <1>1, <1>4 DEF Carries
  <2> QED
    BY <2>1, <1>1, <1>4 DEF SuiteInv, Carried
<1>12. Echoed'
  <2>1. \A v \in Gateways : \A t \in Cases : Trusted(v, t)' => Trusted(v, t)
    BY <1>1, <1>4, <1>8 DEF Trusted
  <2>2. \A v \in Gateways : \A t \in Cases : Known(v, t)' = Known(v, t)
    BY <1>1 DEF Known
  <2>3. \A v \in Gateways : \A t \in Cases :
          Echoes(wire[v], t, Known(v, t), hub.inventory[t])' <=> Echoes(wire[v], t, Known(v, t), hub.inventory[t])
    BY <2>2, <1>1, <1>4
  <2> QED
    BY <2>1, <2>3, <1>1, <1>4 DEF SuiteInv, Echoed, Suite!Untold
<1>13. SuiteTyped' /\ \A v \in Gateways : HalfSound(worker[v])'
  BY <1>1, <1>4, ZenonT(30) DEF SuiteInv, SuiteTyped, HalfSound, Suite!DroppedAfter
<1>14. Closed' /\ Suite!PassIsWhole' /\ Suite!CountsAreTrue'
  <2>1. report = None
    BY <1>1 DEF SuiteInv, Closed
  <2> QED
    BY <2>1, <1>1 DEF Closed, Suite!PassIsWhole, Suite!CountsAreTrue
<1> QED
  BY <1>9, <1>10, <1>11, <1>12, <1>13, <1>14 DEF SuiteInv

LEMMA QuitKeeps == ASSUME SuiteInv, Suite!Quit PROVE SuiteInv'
<1>1. hub' = [hub EXCEPT !.stop = TRUE] /\ UNCHANGED <<grant, worker, wire, todo, report, truth>>
  BY DEF Suite!Quit
<1>2. hub \in Hubs
  BY DEF SuiteInv, SuiteTyped
<1>3. /\ hub' \in Hubs /\ hub'.collections = hub.collections /\ hub'.down = hub.down /\ hub'.lost = hub.lost
      /\ hub'.records = hub.records /\ hub'.reported = hub.reported /\ hub'.observed = hub.observed
      /\ hub'.failures = hub.failures /\ hub'.marker = hub.marker /\ hub'.expected = hub.expected
      /\ hub'.pc = hub.pc /\ hub'.refused = hub.refused /\ hub'.inventory = hub.inventory
  BY <1>1, <1>2 DEF Hubs
<1>4. Heard'
  BY <1>1, <1>3 DEF SuiteInv, Heard, Suite!Unheard
<1>5. Lived'
  BY <1>1 DEF SuiteInv, Lived
<1>6. Carried'
  <2>1. \A v \in Gateways : \A m \in Elements(wire[v]) : Carries(v, m) => Carries(v, m)'
    BY <1>1, <1>3 DEF Carries
  <2> QED
    BY <2>1, <1>1, <1>3 DEF SuiteInv, Carried
<1>7. Echoed'
  <2>1. \A v \in Gateways : \A t \in Cases : /\ Trusted(v, t)' <=> Trusted(v, t)
                                             /\ Known(v, t)' = Known(v, t)
    BY <1>1, <1>3 DEF Trusted, Known
  <2>2. \A v \in Gateways : \A t \in Cases :
          Echoes(wire[v], t, Known(v, t), hub.inventory[t])' <=> Echoes(wire[v], t, Known(v, t), hub.inventory[t])
    BY <2>1, <1>1, <1>3
  <2> QED
    BY <2>1, <2>2, <1>1, <1>3 DEF SuiteInv, Echoed, Suite!Untold
<1>8. SuiteTyped' /\ \A v \in Gateways : HalfSound(worker[v])'
  BY <1>1, <1>3 DEF SuiteInv, SuiteTyped, HalfSound, Suite!DroppedAfter
<1>9. Closed' /\ Suite!PassIsWhole' /\ Suite!CountsAreTrue'
  BY <1>1, <1>3 DEF SuiteInv, Closed, Suite!PassIsWhole, Suite!CountsAreTrue
<1> QED
  BY <1>4, <1>5, <1>6, <1>7, <1>8, <1>9 DEF SuiteInv

-----------------------------------------------------------------------------
\* The verdict.  A run that is complete has heard every worker to its end.
Good(exit) == ~ hub.refused /\ ~ Suite!HidesFailure(exit) /\ Suite!Reconciled(exit) /\ Suite!Mergeable

LEMMA RecordSays ==
  ASSUME NEW h
  PROVE /\ Suite!RecordFrom(h).failures = h.failures /\ Suite!RecordFrom(h).refused = h.refused
        /\ Suite!RecordFrom(h).dropped = h.dropped /\ Suite!RecordFrom(h).outcomes = h.outcomes
BY DEF Suite!RecordFrom

\* The operators of FiniteSets, as the instance knows them.
LEMMA SameSize == ASSUME NEW S PROVE Suite!Cardinality(S) = Cardinality(S) /\ (Suite!IsFiniteSet(S) <=> IsFiniteSet(S))
BY DEF Suite!Cardinality, Cardinality, Suite!IsFiniteSet, IsFiniteSet

LEMMA GoodIsHeard ==
  ASSUME Suite!SessionMakesSense, SuiteInv, NEW exit, Good(exit)
  PROVE /\ \A w \in Gateways :
             /\ worker[w].pc = "finished" /\ wire[w] = <<>> /\ hub.collections[w] = worker[w].items
             /\ hub.records[w] = Suite!RecordFrom(worker[w])
             /\ \A t \in Cases :
                  /\ t \in worker[w].seen => truth[t] = worker[w].outcomes[t] /\ Over(worker[w], t)
                  /\ t \in worker[w].seen <=> worker[w].outcomes[t] # None
        /\ hub.lost = {} /\ hub.failures \subseteq UNION {worker[w].failures : w \in Gateways}
<1>1. \A w \in Gateways : w \in hub.down \ hub.lost /\ hub.collections[w] # None /\ ~ hub.records[w].refused
  BY DEF Good, Suite!Reconciled, Suite!Observed, Suite!RecordOf
<1>2. hub.lost = {}
  BY <1>1 DEF SuiteInv, SuiteTyped, Hubs
<1>3. \A w \in Gateways : /\ worker[w].pc = "finished" /\ wire[w] = <<>> /\ hub.collections[w] = worker[w].items
                          /\ hub.records[w] = Suite!RecordFrom(worker[w])
  BY <1>1 DEF SuiteInv, Heard
<1>4. ASSUME NEW w \in Gateways, NEW t \in Cases
      PROVE /\ t \in worker[w].seen => truth[t] = worker[w].outcomes[t] /\ Over(worker[w], t)
            /\ t \in worker[w].seen <=> worker[w].outcomes[t] # None
  <2>1. ~ worker[w].refused
    <3>1. hub.records[w] = Suite!RecordFrom(worker[w]) /\ ~ hub.records[w].refused
      BY <1>1, <1>3
    <3>2. hub.records[w].refused = worker[w].refused
      BY <3>1, RecordSays
    <3> QED
      BY <3>1, <3>2
  <2>2. worker[w].phase = "none" /\ HalfSound(worker[w])
    BY <1>3, HalfTyped DEF HalfSound
  <2>3. t \in worker[w].seen => Over(worker[w], t)
    BY <2>1, <2>2 DEF Over
  <2>4. t \in worker[w].seen => worker[w].outcomes[t] \in Outcomes
    BY <2>2, <2>3 DEF HalfSound
  <2>5. None \notin Outcomes
    BY DEF Outcomes, Suite!Outcomes, Suite!SessionMakesSense
  <2>6. t \notin worker[w].seen => worker[w].outcomes[t] = None
    BY <2>2 DEF HalfSound
  <2>7. t \in worker[w].seen => truth[t] = worker[w].outcomes[t]
    BY <2>3, <1>3 DEF SuiteInv, Lived
  <2> QED
    BY <2>3, <2>4, <2>5, <2>6, <2>7
<1>5. hub.failures \subseteq UNION {worker[w].failures : w \in Gateways}
  <2>1. hub.failures \in SUBSET (Cases \X (Phases \union {"crash"}))
    BY DEF SuiteInv, SuiteTyped, Hubs
  <2>2. \A t \in Cases : \A ph \in Phases \union {"crash"} : <<t, ph>> \in hub.failures =>
          \E w \in Gateways : <<t, ph>> \in worker[w].failures
    BY <1>2 DEF SuiteInv, Heard
  <2> QED
    BY <2>1, <2>2
<1> QED
  BY <1>2, <1>3, <1>4, <1>5

\* The failures that the workers recorded are the failures that were reported.
LEMMA GoodIsTold ==
  ASSUME Suite!SessionMakesSense, SuiteInv, NEW exit, Good(exit)
  PROVE hub.failures = UNION {worker[w].failures : w \in Gateways}
<1>u. PICK all : all = UNION {worker[w].failures : w \in Gateways}
  OBVIOUS
<1>1. all \in SUBSET (Cases \X Phases)
  <2>1. \A w \in Gateways : worker[w].failures \in SUBSET (Cases \X Phases)
    BY DEF SuiteInv, SuiteTyped, Halves
  <2> QED
    BY <2>1, <1>u
<1>2. IsFiniteSet(Cases \X Phases)
  <2>1. IsFiniteSet(Cases)
    BY SameSize DEF Suite!SessionMakesSense
  <2>2. IsFiniteSet({"setup"} \union {"call"} \union {"teardown"})
    BY FS_Singleton, FS_Union
  <2>3. Phases = {"setup"} \union {"call"} \union {"teardown"}
    BY DEF Phases
  <2>4. IsFiniteSet(Phases)
    BY <2>2, <2>3
  <2> QED
    BY <2>1, <2>4, FS_Product
<1>3. IsFiniteSet(all)
  BY <1>1, <1>2, FS_Subset
<1>4. hub.failures \in SUBSET all
  BY <1>u, GoodIsHeard
<1>5. Cardinality(all) \in Nat /\ Cardinality(hub.failures) \in Nat /\ Cardinality(hub.failures) <= Cardinality(all)
  BY <1>3, <1>4, FS_Subset, FS_CardinalityType
<1>6. all = UNION {hub.records[w].failures : w \in Gateways}
  <2>1. \A w \in Gateways : hub.records[w].failures = worker[w].failures
    <3>1. \A w \in Gateways : hub.records[w] = Suite!RecordFrom(worker[w])
      BY GoodIsHeard
    <3> QED
      BY <3>1, RecordSays
  <2> QED
    BY <2>1, <1>u
<1>7. ~ (Cardinality(all) > Cardinality(hub.failures))
  <2>1. ~ (Suite!Cardinality(all) > Suite!Cardinality(hub.failures))
    BY <1>6 DEF Good, Suite!Reconciled, Suite!Unexplained, Suite!RecordOf
  <2> QED
    BY <2>1, SameSize
<1>8. Cardinality(all) = Cardinality(hub.failures)
  BY <1>5, <1>7
<1>9. all = hub.failures
  BY <1>3, <1>4, <1>8, FS_Subset
<1> QED
  BY <1>u, <1>9

LEMMA GoodIsWhole ==
  ASSUME Suite!SessionMakesSense, SuiteInv, NEW exit, Good(exit), Suite!Passing(exit),
         NEW t \in UNION {worker[w].collected : w \in Gateways}
  PROVE truth[t] \in IF grant.full THEN {"passed", "skipped"} ELSE {"passed", "skipped", "unrun"}
<1>1. t \in Cases /\ gw0 \in Gateways
  BY DEF SuiteInv, SuiteTyped, Halves, Suite!SessionMakesSense
<1>2. hub.failures = {}
  BY DEF Good, Suite!HidesFailure, Suite!Failed
<1>3. \A w \in Gateways : worker[w].failures = {}
  BY <1>2, GoodIsTold
<1>4. truth[t] # "unrun" => truth[t] \in {"passed", "skipped"}
  <2>1. ASSUME NEW w \in Gateways, t \in worker[w].seen PROVE truth[t] \in {"passed", "skipped"}
    <3>1. truth[t] = worker[w].outcomes[t] /\ Over(worker[w], t)
      BY <1>1, <2>1, GoodIsHeard
    <3>2. HalfSound(worker[w])
      BY HalfTyped
    <3>3. truth[t] \in Outcomes /\ truth[t] \notin {"failed", "error"}
      BY <1>1, <1>3, <3>1, <3>2 DEF HalfSound
    <3> QED
      BY <3>3 DEF Outcomes, Suite!Outcomes
  <2> QED
    BY <2>1, <1>1 DEF SuiteInv, Lived
<1>5. ASSUME grant.full PROVE truth[t] # "unrun"
  <2>1. ~ Suite!LeftUnrun
    BY <1>5 DEF Good, Suite!Reconciled
  <2>2. \A w \in Gateways : ~ hub.records[w].dropped /\ hub.collections[w] = hub.collections[gw0]
    BY <2>1 DEF Good, Suite!Reconciled, Suite!SameCollections, Suite!LeftUnrun, Suite!RecordOf
  <2>3. \A u \in hub.collections[gw0] : u \in hub.reported
    BY <2>1 DEF Suite!LeftUnrun
  <2>w. PICK w \in Gateways : t \in worker[w].collected
    OBVIOUS
  <2>4. ~ worker[w].dropped
    <3>1. hub.records[w] = Suite!RecordFrom(worker[w])
      BY GoodIsHeard
    <3>2. hub.records[w].dropped = worker[w].dropped
      BY <3>1, RecordSays
    <3> QED
      BY <2>2, <3>2
  <2>5. t \in worker[w].items
    BY <2>4, <2>w, <1>5, HalfTyped DEF HalfSound, Suite!DroppedAfter
  <2>6. t \in hub.collections[gw0]
    BY <2>2, <2>5, GoodIsHeard
  <2> QED
    BY <2>3, <2>6 DEF SuiteInv, Heard
<1> QED
  BY <1>4, <1>5

LEMMA GoodIsCounted ==
  ASSUME Suite!SessionMakesSense, SuiteInv, NEW exit, Good(exit)
  PROVE /\ Suite!Counts # None => \A said \in Outcomes : Suite!Counts[said] = {t \in Cases : truth[t] = said}
        /\ \A t \in Cases : hub.inventory[t] # None /\ truth[t] # "unrun" => hub.inventory[t] = truth[t]
<1>0. None \notin Outcomes /\ "unrun" \notin Outcomes
  BY DEF Outcomes, Suite!Outcomes, Suite!SessionMakesSense
<1>1. \A w \in Gateways : hub.records[w].outcomes = worker[w].outcomes
  <2>1. \A w \in Gateways : hub.records[w] = Suite!RecordFrom(worker[w])
    BY GoodIsHeard
  <2> QED
    BY <2>1, RecordSays
<1>2. ASSUME NEW said \in Outcomes, NEW t \in Cases
      PROVE (\E w \in Suite!Recorders(t) : Suite!RecordOf(w).outcomes[t] = said) <=> truth[t] = said
  <2>1. ASSUME NEW w \in Gateways, worker[w].outcomes[t] = said PROVE truth[t] = said
    BY <1>0, <2>1, GoodIsHeard
  <2>2. ASSUME truth[t] = said PROVE \E w \in Gateways : worker[w].outcomes[t] = said
    <3>1. PICK w \in Gateways : t \in worker[w].seen
      BY <1>0, <2>2 DEF SuiteInv, Lived
    <3> QED
      BY <3>1, <2>2, GoodIsHeard
  <2> QED
    BY <1>0, <1>1, <2>1, <2>2 DEF Suite!Recorders, Suite!RecordOf
<1>3. Suite!Counts # None => \A said \in Outcomes : Suite!Counts[said] = {t \in Cases : truth[t] = said}
  <2>1. Suite!Counts # None =>
          Suite!Counts = [said \in Suite!Outcomes |-> {t \in Cases : \E w \in Suite!Recorders(t) : Suite!RecordOf(w).outcomes[t] = said}]
    BY DEF Suite!Counts
  <2> QED
    BY <2>1, <1>2 DEF Outcomes
<1>4. ASSUME NEW t \in Cases, hub.inventory[t] # None, truth[t] # "unrun" PROVE hub.inventory[t] = truth[t]
  <2>1. PICK w \in Gateways : t \in worker[w].seen
    BY <1>4 DEF SuiteInv, Lived
  <2>2. Trusted(w, t)
    BY GoodIsTold DEF Trusted
  <2>3. Echoes(wire[w], t, Known(w, t), hub.inventory[t])
    BY <1>4, <2>1, <2>2 DEF SuiteInv, Echoed, Good
  <2>4. hub.inventory[t] = Known(w, t)
    <3>s. PICK s : s = wire[w]
      OBVIOUS
    <3>1. s = <<>>
      BY <3>s, GoodIsHeard
    <3>2. Len(s) = 0
      BY <3>1
    <3>3. \A i \in 1 .. Len(s) : ~ Tells(s[i], t)
      BY <3>2
    <3> QED
      BY <3>3, <3>s, <2>3 DEF Echoes
  <2> QED
    BY <2>1, <2>4, GoodIsHeard DEF Known
<1> QED
  BY <1>3, <1>4

LEMMA VerdictKeeps == ASSUME Suite!SessionMakesSense, SuiteInv, Suite!Verdict PROVE SuiteInv'
<1>e. PICK exit : report' = [complete |-> Good(exit), exit |-> exit, counts |-> IF Good(exit) THEN Suite!Counts ELSE None,
                             inventory |-> hub.inventory]
  BY DEF Suite!Verdict, Good
<1>1. hub' = [hub EXCEPT !.pc = "done", !.marker = TRUE] /\ UNCHANGED <<grant, worker, wire, todo, truth>>
  BY DEF Suite!Verdict
<1>2. hub \in Hubs
  BY DEF SuiteInv, SuiteTyped
<1>3. /\ hub' \in Hubs /\ hub'.collections = hub.collections /\ hub'.down = hub.down /\ hub'.lost = hub.lost
      /\ hub'.records = hub.records /\ hub'.reported = hub.reported /\ hub'.observed = hub.observed
      /\ hub'.failures = hub.failures /\ hub'.expected = hub.expected
      /\ hub'.pc = "done" /\ hub'.refused = hub.refused /\ hub'.inventory = hub.inventory
  BY <1>1, <1>2 DEF Hubs
<1>4. Heard'
  BY <1>1, <1>3 DEF SuiteInv, Heard, Suite!Unheard
<1>5. Lived'
  BY <1>1 DEF SuiteInv, Lived
<1>6. Carried'
  <2>1. \A v \in Gateways : \A m \in Elements(wire[v]) : Carries(v, m) => Carries(v, m)'
    BY <1>1, <1>3 DEF Carries
  <2> QED
    BY <2>1, <1>1, <1>3 DEF SuiteInv, Carried
<1>7. Echoed'
  <2>1. \A v \in Gateways : \A t \in Cases : /\ Trusted(v, t)' <=> Trusted(v, t)
                                             /\ Known(v, t)' = Known(v, t)
    BY <1>1, <1>3 DEF Trusted, Known
  <2>2. \A v \in Gateways : \A t \in Cases :
          Echoes(wire[v], t, Known(v, t), hub.inventory[t])' <=> Echoes(wire[v], t, Known(v, t), hub.inventory[t])
    BY <2>1, <1>1, <1>3
  <2> QED
    BY <2>1, <2>2, <1>1, <1>3 DEF SuiteInv, Echoed, Suite!Untold
<1>8. SuiteTyped' /\ \A v \in Gateways : HalfSound(worker[v])'
  BY <1>1, <1>3, ZenonT(30) DEF SuiteInv, SuiteTyped, HalfSound, Suite!DroppedAfter
<1>9. /\ report'.complete <=> Good(exit)
      /\ report'.exit = exit /\ report'.inventory = hub.inventory
      /\ Good(exit) => report'.counts = Suite!Counts
  BY <1>e
<1>10. Closed'
  <2>1. Good(exit) => \A w \in Gateways : worker[w].pc = "finished"
    BY GoodIsHeard
  <2> QED
    BY <2>1, <1>1, <1>3, <1>9 DEF Closed
<1>11. Suite!PassIsWhole'
  <2>1. Good(exit) /\ Suite!Passing(exit) => \A t \in UNION {worker[w].collected : w \in Gateways} :
          truth[t] \in IF grant.full THEN {"passed", "skipped"} ELSE {"passed", "skipped", "unrun"}
    BY GoodIsWhole
  <2>2. Suite!Passing(report.exit)' <=> Suite!Passing(exit)
    BY <1>9 DEF Suite!Passing
  <2> QED
    BY <2>1, <2>2, <1>1, <1>9 DEF Suite!PassIsWhole
<1>12. Suite!CountsAreTrue'
  <2>1. Good(exit) => /\ Suite!Counts # None => \A said \in Outcomes : Suite!Counts[said] = {t \in Cases : truth[t] = said}
                      /\ \A t \in Cases : hub.inventory[t] # None /\ truth[t] # "unrun" => hub.inventory[t] = truth[t]
    BY GoodIsCounted
  <2> QED
    BY <2>1, <1>1, <1>9 DEF Suite!CountsAreTrue, Outcomes
<1> QED
  BY <1>4, <1>5, <1>6, <1>7, <1>8, <1>10, <1>11, <1>12 DEF SuiteInv

LEMMA SuiteStutters == ASSUME SuiteInv, UNCHANGED session PROVE SuiteInv'
<1>1. UNCHANGED <<grant, worker, wire, todo, hub, report, truth>>
  BY DEF session
<1>2. \A v \in Gateways : \A t \in Cases : /\ Trusted(v, t)' <=> Trusted(v, t)
                                           /\ Known(v, t)' = Known(v, t)
  BY <1>1 DEF Trusted, Known
<1>3. \A v \in Gateways : \A t \in Cases :
        Echoes(wire[v], t, Known(v, t), hub.inventory[t])' <=> Echoes(wire[v], t, Known(v, t), hub.inventory[t])
  BY <1>1, <1>2
<1>4. Echoed'
  BY <1>1, <1>2, <1>3 DEF SuiteInv, Echoed, Suite!Untold
<1>5. Carried'
  <2>1. \A v \in Gateways : \A m \in Elements(wire[v]) : Carries(v, m) => Carries(v, m)'
    BY <1>1 DEF Carries
  <2> QED
    BY <2>1, <1>1 DEF SuiteInv, Carried
<1>6. Heard' /\ Lived' /\ Closed'
  BY <1>1 DEF SuiteInv, Heard, Lived, Closed, Suite!Unheard
<1>7. SuiteTyped' /\ \A v \in Gateways : HalfSound(worker[v])'
  BY <1>1 DEF SuiteInv, SuiteTyped, HalfSound, Suite!DroppedAfter
<1>8. Suite!PassIsWhole' /\ Suite!CountsAreTrue'
  BY <1>1 DEF SuiteInv, Suite!PassIsWhole, Suite!CountsAreTrue
<1> QED
  BY <1>4, <1>5, <1>6, <1>7, <1>8 DEF SuiteInv

LEMMA SuiteStepwise == ASSUME Suite!SessionMakesSense, SuiteInv, [Suite!Next]_session PROVE SuiteInv'
<1>1. CASE UNCHANGED session
  BY <1>1, SuiteStutters
<1>2. ASSUME NEW w \in Gateways, Suite!Step(w) PROVE SuiteInv'
  <2>1. ASSUME Suite!Setup(w) \/ Suite!Subtest(w) \/ Suite!Call(w) \/ Suite!Teardown(w) PROVE SuiteInv'
    <3>1. \E phase \in Phases, said \in Said, sub \in BOOLEAN, next \in Stages : Speaks(w, phase, said, sub, next)
      BY <2>1, EveryReport
    <3> QED
      BY <3>1, ReportKeeps
  <2> QED
    BY <1>2, <2>1, CollectKeeps, ProtocolKeeps, RefuseKeeps, FinishKeeps, CrashKeeps, ReceiveKeeps, LoseKeeps DEF Suite!Step
<1> QED
  BY <1>1, <1>2, QuitKeeps, VerdictKeeps DEF Suite!Next

LEMMA SuiteTells == ASSUME SuiteInv PROVE Suite!ReportIsTrue
<1>1. hub.expected \subseteq Cases
  BY DEF SuiteInv, SuiteTyped, Hubs
<1>2. Suite!MarkerMeansDone
  BY <1>1 DEF SuiteInv, Heard, Suite!MarkerMeansDone, Outcomes
<1> QED
  BY <1>2 DEF SuiteInv, Suite!ReportIsTrue

\* Bridge!PassIsWhole, CountsAreTrue and MarkerMeansDone for any number of
\* workers and tests and whatever a run is granted: a complete report of a
\* passing full run hides no test that did not run or failed, the counts and
\* the inventory say what became of each test, and the stall marker is there
\* only when every test is past its call.  (runtime/pytest_bridge.py)
THEOREM ReportsAreTrue == Spec => []ParallelReportIsTrue
<1>1. Init /\ part = "suite" => Suite!Init
  BY DEF Init
<1>2. part = "suite" /\ [Next]_vars => [Suite!Next]_session
  BY DEF Next, vars
<1>3. Suite!Init => SuiteInv
  BY SessionAssumption, SuiteStarts
<1>4. SuiteInv /\ [Suite!Next]_session => SuiteInv'
  BY SessionAssumption, SuiteStepwise
<1>5. part = "suite" /\ SuiteInv => ParallelReportIsTrue
  BY SuiteTells DEF ParallelReportIsTrue
<1>6. ~ (part = "suite") => ParallelReportIsTrue
  BY DEF ParallelReportIsTrue
<1>7. (part = "suite" /\ [Next]_vars => (part = "suite")') /\ (~ (part = "suite") /\ [Next]_vars => ~ (part = "suite")')
  BY DEF Next, vars
<1> QED
  BY <1>1, <1>2, <1>3, <1>4, <1>5, <1>6, <1>7, PTL DEF Spec
=============================================================================
