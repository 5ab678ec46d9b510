----------------------------- MODULE MCFullGate -----------------------------
\* Instances of the full gates of several checkouts for TLC.
EXTENDS Integers, TLC

CONSTANTS a, b, r1, r2, r3, None

VARIABLES
  case,  \* which instance a behaviour is of; it never changes
  tree, edits, ledger, summaries, baseline, lease, running, run, withdrawn

vars == <<case, tree, edits, ledger, summaries, baseline, lease, running, run, withdrawn>>

Runs == {r1, r2, r3}
T(digest, head, shared, clean) ==
  [digest |-> digest, head |-> head, shared |-> shared, clean |-> clean]
\* Two commits; and a commit, another one of the same digest, and an
\* uncommitted change.
TwoTrees == {T(1, 1, 1, TRUE), T(2, 2, 1, TRUE)}
Commits == {T(1, 1, 1, TRUE), T(1, 2, 2, TRUE), T(2, 2, 2, FALSE)}
First(checkouts) == [k \in checkouts |-> T(1, 1, 1, TRUE)]

AllInA == [r \in Runs |-> a]
TwoAndOne == (r1 :> a) @@ (r2 :> a) @@ (r3 :> b)
OneAndTwo == (r1 :> a) @@ (r2 :> b) @@ (r3 :> b)

\* Two checkouts, one of them edited, over a ledger of one record.
Ledger == INSTANCE FullGateProofs WITH
  Checkouts <- {a, b}, CheckoutOf <- OneAndTwo, Again <- {r1, r2},
  Covered <- {}, Native <- FALSE, Child <- FALSE,
  Trees <- TwoTrees, StartTree <- First({a, b}),
  MaxRecords <- 1, MaxEdits <- 1, Faults <- {}
\* A ledger that may be unreadable.
Damaged == INSTANCE FullGateProofs WITH
  Checkouts <- {a, b}, CheckoutOf <- OneAndTwo, Again <- {r1, r2},
  Covered <- {}, Native <- FALSE, Child <- FALSE,
  Trees <- TwoTrees, StartTree <- First({a, b}),
  MaxRecords <- 2, MaxEdits <- 0, Faults <- {"damage"}
\* Vitest gates with and without coverage.
Measured == INSTANCE FullGateProofs WITH
  Checkouts <- {a, b}, CheckoutOf <- TwoAndOne, Again <- {r1},
  Covered <- {r1, r2}, Native <- TRUE, Child <- FALSE,
  Trees <- TwoTrees, StartTree <- First({a, b}),
  MaxRecords <- 2, MaxEdits <- 1, Faults <- {}
\* A child of a monorepo, committed to and edited, with one run per checkout.
Nested == INSTANCE FullGateProofs WITH
  Runs <- {r1, r3}, Checkouts <- {a, b}, CheckoutOf <- TwoAndOne, Again <- {},
  Covered <- {}, Native <- FALSE, Child <- TRUE,
  Trees <- Commits, StartTree <- First({a, b}),
  MaxRecords <- 2, MaxEdits <- 1, Faults <- {}
\* Duplicates of one checkout that may crash or fail to commit.
Joined == INSTANCE FullGateProofs WITH
  Checkouts <- {a}, CheckoutOf <- AllInA, Again <- {r1, r2},
  Covered <- {r3}, Native <- FALSE, Child <- FALSE,
  Trees <- TwoTrees, StartTree <- First({a}),
  MaxRecords <- 2, MaxEdits <- 0, Faults <- {"crash", "uncommitted"}
\* Three forced gates of one checkout.
Duplicates == INSTANCE FullGate WITH
  Checkouts <- {a}, CheckoutOf <- AllInA, Again <- {r1, r2, r3},
  Covered <- {}, Native <- FALSE, Child <- FALSE,
  Trees <- TwoTrees, StartTree <- First({a}),
  MaxRecords <- 2, MaxEdits <- 0, Faults <- {"crash"}

\* Two forced gates with coverage in one checkout, which is edited.
Edited == INSTANCE FullGate WITH
  Runs <- {r1, r2}, Checkouts <- {a}, CheckoutOf <- AllInA, Again <- {r1, r2},
  Covered <- {r1, r2}, Native <- FALSE, Child <- FALSE,
  Trees <- TwoTrees, StartTree <- First({a}),
  MaxRecords <- 2, MaxEdits <- 2, Faults <- {}

ASSUME GatesMakeSense ==
  /\ Ledger!ConstantsMakeSense /\ Damaged!ConstantsMakeSense /\ Measured!ConstantsMakeSense
  /\ Nested!ConstantsMakeSense /\ Joined!ConstantsMakeSense

Init ==
  \/ case = "ledger" /\ Ledger!Init
  \/ case = "damaged" /\ Damaged!Init
  \/ case = "measured" /\ Measured!Init
  \/ case = "nested" /\ Nested!Init
  \/ case = "joined" /\ Joined!Init
Next ==
  /\ UNCHANGED case
  /\ \/ case = "ledger" /\ Ledger!Next
     \/ case = "damaged" /\ Damaged!Next
     \/ case = "measured" /\ Measured!Next
     \/ case = "nested" /\ Nested!Next
     \/ case = "joined" /\ Joined!Next
Spec == Init /\ [][Next]_vars

DuplicatesSpec ==
  case = "duplicates" /\ Duplicates!Init /\ [][Duplicates!Next /\ UNCHANGED case]_vars

EditedSpec == case = "edited" /\ Edited!Init /\ [][Edited!Next /\ UNCHANGED case]_vars

\* FullGate!NoStaleGreen: no record of the ledger was contradicted since its
\* run began.
NoStaleGreen == Ledger!NoStaleGreen

\* FullGate!ProofMeasured: a record's coverage was measured on its tree.
ProofMeasured == case = "measured" => Measured!ProofMeasured

\* FullGate!SkipIsBacked in every instance: a skipped gate has a full pass of
\* the same source behind it, and overlooks no failure of the tree.
SkipIsBacked ==
  [][CASE case = "nested" -> Nested!SkipBacked
       [] case = "measured" -> Measured!SkipBacked /\ Measured!SharedSkipHeeds
       [] case = "joined" -> Joined!SkipBacked /\ Joined!SharedSkipHeeds
       [] OTHER -> Ledger!SkipBacked /\ Ledger!SharedSkipHeeds]_vars

\* FullGate!JoinIsForSameInputs: a joiner takes over a green of its own inputs.
JoinIsForSameInputs == [][Edited!JoinForSameInputs]_vars

\* FullGate!OneWins: of the duplicates of a checkout one holds the claim.
OneWins == Duplicates!OneWins
=============================================================================
