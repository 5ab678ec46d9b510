-------------------------- MODULE MCFullGateProofs --------------------------
(***************************************************************************)
(* The theorems about full gates, for the instances of them that TLC runs. *)
(* A behaviour of one instance is a behaviour of FullGate with its         *)
(* constants, because case never changes; so what is proved of FullGate    *)
(* holds of it.                                                            *)
(***************************************************************************)
EXTENDS MCFullGate, TLAPS

state == <<tree, edits, ledger, summaries, baseline, lease, running, run, withdrawn>>

\* A behaviour stays with its instance.
LEMMA OneCase == [Next]_vars => UNCHANGED case
BY DEF Next, vars

\* Every instance is one of the five.
LEMMA KnownCase == Spec =>
  [](case = "ledger" \/ case = "damaged" \/ case = "measured" \/ case = "nested" \/ case = "joined")
<1> DEFINE Known == case = "ledger" \/ case = "damaged" \/ case = "measured" \/ case = "nested" \/ case = "joined"
<1>1. Init => Known
  BY DEF Init
<1>2. Known /\ [Next]_vars => Known'
  BY OneCase
<1> QED
  BY <1>1, <1>2, PTL DEF Spec

\* What holds of every behaviour of full gates holds of every instance.
LEMMA CaseSpecs ==
  /\ Spec /\ case = "ledger" => Ledger!Spec /\ [](case = "ledger")
  /\ Spec /\ case = "damaged" => Damaged!Spec /\ [](case = "damaged")
  /\ Spec /\ case = "measured" => Measured!Spec /\ [](case = "measured")
  /\ Spec /\ case = "nested" => Nested!Spec /\ [](case = "nested")
  /\ Spec /\ case = "joined" => Joined!Spec /\ [](case = "joined")
<1>1. /\ Init /\ case = "ledger" => Ledger!Init
      /\ Init /\ case = "damaged" => Damaged!Init
      /\ Init /\ case = "measured" => Measured!Init
      /\ Init /\ case = "nested" => Nested!Init
      /\ Init /\ case = "joined" => Joined!Init
  BY DEF Init
<1>2. /\ case = "ledger" /\ [Next]_vars => [Ledger!Next]_state
      /\ case = "damaged" /\ [Next]_vars => [Damaged!Next]_state
      /\ case = "measured" /\ [Next]_vars => [Measured!Next]_state
      /\ case = "nested" /\ [Next]_vars => [Nested!Next]_state
      /\ case = "joined" /\ [Next]_vars => [Joined!Next]_state
  BY DEF Next, vars, state
<1>3. /\ Ledger!Spec <=> Ledger!Init /\ [][Ledger!Next]_state
      /\ Damaged!Spec <=> Damaged!Init /\ [][Damaged!Next]_state
      /\ Measured!Spec <=> Measured!Init /\ [][Measured!Next]_state
      /\ Nested!Spec <=> Nested!Init /\ [][Nested!Next]_state
      /\ Joined!Spec <=> Joined!Init /\ [][Joined!Next]_state
  BY DEF Ledger!Spec, Ledger!vars, Damaged!Spec, Damaged!vars, Measured!Spec, Measured!vars,
         Nested!Spec, Nested!vars, Joined!Spec, Joined!vars, state
<1>4. /\ case = "ledger" /\ [Next]_vars => (case = "ledger")'
      /\ case = "damaged" /\ [Next]_vars => (case = "damaged")'
      /\ case = "measured" /\ [Next]_vars => (case = "measured")'
      /\ case = "nested" /\ [Next]_vars => (case = "nested")'
      /\ case = "joined" /\ [Next]_vars => (case = "joined")'
  BY OneCase
<1>5. Spec <=> Init /\ [][Next]_vars
  BY DEF Spec
<1>6. Spec /\ case = "ledger" => Ledger!Spec /\ [](case = "ledger")
  BY <1>1, <1>2, <1>3, <1>4, <1>5, PTL
<1>7. Spec /\ case = "damaged" => Damaged!Spec /\ [](case = "damaged")
  BY <1>1, <1>2, <1>3, <1>4, <1>5, PTL
<1>8. Spec /\ case = "measured" => Measured!Spec /\ [](case = "measured")
  BY <1>1, <1>2, <1>3, <1>4, <1>5, PTL
<1>9. Spec /\ case = "nested" => Nested!Spec /\ [](case = "nested")
  BY <1>1, <1>2, <1>3, <1>4, <1>5, PTL
<1>10. Spec /\ case = "joined" => Joined!Spec /\ [](case = "joined")
  BY <1>1, <1>2, <1>3, <1>4, <1>5, PTL
<1> QED
  BY <1>6, <1>7, <1>8, <1>9, <1>10

-----------------------------------------------------------------------------
\* FullGate!NoStaleGreen in every instance: edits, a damaged ledger, coverage,
\* children of a monorepo, crashes and outcomes that are not committed.
THEOREM NoStaleGreenInAll == Spec => []NoStaleGreen
<1>1. /\ Ledger!Spec => []Ledger!NoStaleGreen
      /\ Damaged!Spec => []Damaged!NoStaleGreen
      /\ Measured!Spec => []Measured!NoStaleGreen
      /\ Nested!Spec => []Nested!NoStaleGreen
      /\ Joined!Spec => []Joined!NoStaleGreen
  BY GatesMakeSense, Ledger!LedgerHeedsFailures, Damaged!LedgerHeedsFailures,
     Measured!LedgerHeedsFailures, Nested!LedgerHeedsFailures, Joined!LedgerHeedsFailures
<1>2. /\ Ledger!NoStaleGreen => NoStaleGreen
      /\ Damaged!NoStaleGreen => NoStaleGreen
      /\ Measured!NoStaleGreen => NoStaleGreen
      /\ Nested!NoStaleGreen => NoStaleGreen
      /\ Joined!NoStaleGreen => NoStaleGreen
  BY DEF NoStaleGreen, Ledger!NoStaleGreen, Ledger!InLedger, Ledger!FailedOn,
         Damaged!NoStaleGreen, Damaged!InLedger, Damaged!FailedOn,
         Measured!NoStaleGreen, Measured!InLedger, Measured!FailedOn,
         Nested!NoStaleGreen, Nested!InLedger, Nested!FailedOn,
         Joined!NoStaleGreen, Joined!InLedger, Joined!FailedOn
<1> QED
  BY <1>1, <1>2, CaseSpecs, KnownCase, PTL

\* FullGate!ProofMeasured where gates measure coverage.
THEOREM ProofMeasuredInMeasured == Spec => []ProofMeasured
<1>1. Measured!Spec => []Measured!ProofMeasured
  BY GatesMakeSense, Measured!LedgerIsMeasured
<1>2. Measured!ProofMeasured \/ ~(case = "measured") => ProofMeasured
  BY DEF ProofMeasured
<1>3. ~(case = "measured") /\ [Next]_vars => ~(case = "measured")'
  BY OneCase
<1> QED
  BY <1>1, <1>2, <1>3, CaseSpecs, PTL DEF Spec

\* FullGate!SkipIsBacked in every instance.
THEOREM SkipsAreBackedInAll == Spec => SkipIsBacked
<1> DEFINE Backed ==
             CASE case = "nested" -> Nested!SkipBacked
               [] case = "measured" -> Measured!SkipBacked /\ Measured!SharedSkipHeeds
               [] case = "joined" -> Joined!SkipBacked /\ Joined!SharedSkipHeeds
               [] OTHER -> Ledger!SkipBacked /\ Ledger!SharedSkipHeeds
<1>1. /\ Ledger!Spec => [][Ledger!SkipBacked /\ Ledger!SharedSkipHeeds]_state
      /\ Damaged!Spec => [][Damaged!SkipBacked /\ Damaged!SharedSkipHeeds]_state
      /\ Measured!Spec => [][Measured!SkipBacked /\ Measured!SharedSkipHeeds]_state
      /\ Nested!Spec => [][Nested!SkipBacked /\ Nested!SharedSkipHeeds]_state
      /\ Joined!Spec => [][Joined!SkipBacked /\ Joined!SharedSkipHeeds]_state
  BY GatesMakeSense, Ledger!SkipsAreBacked, Damaged!SkipsAreBacked, Measured!SkipsAreBacked,
     Nested!SkipsAreBacked, Joined!SkipsAreBacked
     DEF Ledger!SkipIsBacked, Ledger!vars, Damaged!SkipIsBacked, Damaged!vars,
         Measured!SkipIsBacked, Measured!vars, Nested!SkipIsBacked, Nested!vars,
         Joined!SkipIsBacked, Joined!vars, state
<1>2. /\ Damaged!SkipBacked => Ledger!SkipBacked
      /\ Damaged!SharedSkipHeeds => Ledger!SharedSkipHeeds
  BY DEF Damaged!SkipBacked, Damaged!SkippedNow, Damaged!SharedSkipHeeds,
         Ledger!SkipBacked, Ledger!SkippedNow, Ledger!SharedSkipHeeds
<1>3. /\ case = "ledger" /\ [Next]_vars /\ [Ledger!SkipBacked /\ Ledger!SharedSkipHeeds]_state => [Backed]_vars
      /\ case = "damaged" /\ [Next]_vars /\ [Damaged!SkipBacked /\ Damaged!SharedSkipHeeds]_state => [Backed]_vars
      /\ case = "measured" /\ [Next]_vars /\ [Measured!SkipBacked /\ Measured!SharedSkipHeeds]_state => [Backed]_vars
      /\ case = "nested" /\ [Next]_vars /\ [Nested!SkipBacked /\ Nested!SharedSkipHeeds]_state => [Backed]_vars
      /\ case = "joined" /\ [Next]_vars /\ [Joined!SkipBacked /\ Joined!SharedSkipHeeds]_state => [Backed]_vars
  BY <1>2, OneCase DEF state, vars
<1>4. Spec => [][Next]_vars
  BY PTL DEF Spec
<1>5. SkipIsBacked <=> [][Backed]_vars
  BY DEF SkipIsBacked
<1> HIDE DEF Backed
<1> QED
  BY <1>1, <1>3, <1>4, <1>5, CaseSpecs, KnownCase, PTL
=============================================================================
