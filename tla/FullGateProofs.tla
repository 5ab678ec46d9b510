--------------------------- MODULE FullGateProofs ---------------------------
(***************************************************************************)
(* Proof that no green a failure has contradicted stays in or returns to   *)
(* the ledger, that a record's coverage was measured on its tree, and that *)
(* a skipped gate has a full pass of the same source behind it: for any    *)
(* number of runs and checkouts, whatever is edited, crashes or is damaged. *)
(*                                                                         *)
(* Whatever the program remembers of a pass (a record, a baseline, what a  *)
(* gate read of them) names a run that passed on that very tree, and a run *)
(* that passed never changes again (Steady).  Tokens gives the ordering of *)
(* the ledger its meaning: a token of the present ordering was taken after *)
(* every withdrawal so far.                                                *)
(***************************************************************************)
EXTENDS FullGate, TLAPS, WellFoundedInduction

Settled ==
  {"recapture", "withdraw", "commit", "feed", "leave", "release", "unlink", "done", "dead"}

Fields ==
  {"pc", "base", "found", "snap", "live", "claimed", "before", "token", "passed", "status",
   "verdict", "by", "known", "began"}

\* Run g passed from beginning to end on tree t, which was clean.
PassedOn(g, t) == g \in Runs /\ run[g].passed /\ run[g].before = t /\ t.clean
\* Run h measured coverage of the tree and passed.
Measures(h, d) == h \in Runs /\ run[h].passed /\ run[h].before.digest = d
Measured(d) == \E h \in Covered : Measures(h, d)

Earlier(o, p) == o[1] < p[1] \/ (o[1] = p[1] /\ o[2] < p[2])

Shape ==
  /\ DOMAIN run = Runs /\ \A g \in Runs : DOMAIN run[g] = Fields
  /\ DOMAIN baseline = Checkouts
  /\ DOMAIN ledger = {"incarnation", "generation", "records", "readable"}
  /\ ledger.incarnation \in Nat /\ ledger.generation \in Nat
  /\ ledger.records \in Seq(Range(ledger.records))

OneRecordEach(records) ==
  \A i, j \in DOMAIN records : records[i].tree.digest = records[j].tree.digest => i = j

Sound(rec) ==
  /\ PassedOn(rec.run, rec.tree) /\ FailedOn(rec.tree.digest) \subseteq run[rec.run].began
  /\ rec.coverage # None =>
       \E h \in Covered : /\ Measures(h, rec.tree.digest)
                          /\ FailedOn(rec.tree.digest) \subseteq run[h].began

LedgerSound ==
  OneRecordEach(ledger.records) /\ \A i \in DOMAIN ledger.records : Sound(ledger.records[i])

Baselines ==
  \A c \in Checkouts : baseline[c] # None => PassedOn(baseline[c].run, baseline[c].tree)

\* What a gate that read a record may still conclude from it.
Heeds(g, rec) ==
  /\ PassedOn(rec.run, rec.tree)
  /\ \A w \in run[g].known : w.digest = rec.tree.digest => w \in run[rec.run].began
  /\ g \in Covered => Measured(rec.tree.digest)

Reads(g) ==
  /\ run[g].base # None => PassedOn(run[g].base.run, run[g].base.tree)
  /\ run[g].known \subseteq withdrawn
  /\ \A rec \in run[g].found : Heeds(g, rec)

Compares(g) ==
  /\ run[g].pc = "new" => run[g].found = {}
  /\ run[g].pc \in {"latest", "proof", "skip own"} =>
       run[g].base # None /\ Verifies(run[g].base.tree, run[g].snap)
  /\ run[g].pc = "skip own" /\ g \in Covered => Measured(run[g].snap.digest)
  /\ run[g].pc = "refused" => \A rec \in run[g].found : Verifies(rec.tree, run[g].snap)
  /\ run[g].pc = "skip found" =>
       \E rec \in run[g].found : rec.run = run[g].by /\ Verifies(rec.tree, run[g].snap)

Outcomes(g) ==
  /\ run[g].passed => run[g].pc \in Settled
  /\ run[g].pc \in {"withdraw", "commit", "feed"} /\ run[g].status = "passed" => run[g].passed
  /\ run[g].pc = "feed" => Green(g)

Tokens(g) ==
  run[g].token # None =>
    /\ run[g].token.ordering \in Nat \X Nat
    /\ \/ Earlier(run[g].token.ordering, Ordering(ledger))
       \/ run[g].token.ordering = Ordering(ledger) /\ run[g].began = withdrawn

RunOK(g) == Reads(g) /\ Compares(g) /\ Outcomes(g) /\ Tokens(g)

IInv == Shape /\ LedgerSound /\ Baselines /\ \A g \in Runs : RunOK(g)

----------------------------------------------------------------------------
(* What the operators on the records return.                                *)

LEMMA LeastNat == ASSUME NEW S \in SUBSET Nat, S # {} PROVE \E n \in S : \A m \in S : n <= m
<1> DEFINE Less == OpToRel(<, Nat)
<1>1. IsWellFoundedOn(Less, Nat)
  BY NatLessThanWellFounded
<1>2. \A x, y \in Nat : <<y, x>> \in Less <=> y < x
  BY DEF OpToRel
<1> HIDE DEF Less
<1>3. PICK n \in S : \A y \in S : ~ (<<y, n>> \in Less)
  BY <1>1, WFMin
<1>4. ASSUME NEW m \in S PROVE n <= m
  <2>1. m \in Nat /\ n \in Nat
    OBVIOUS
  <2>2. ~ (<<m, n>> \in Less)
    BY <1>3
  <2>3. ~ (m < n)
    BY <1>2, <2>1, <2>2
  <2> QED
    BY <2>1, <2>3
<1> QED
  BY <1>4

\* Induction, over a set of numbers.
LEMMA Induct == ASSUME NEW S \in SUBSET Nat, 0 \in S, \A n \in S : n + 1 \in S PROVE S = Nat
<1> SUFFICES ASSUME Nat \ S # {} PROVE FALSE
  OBVIOUS
<1>1. PICK n \in Nat \ S : \A m \in Nat \ S : n <= m
  BY LeastNat
<1>2. n # 0 /\ n - 1 \in Nat
  BY <1>1
<1>3. n - 1 \in S
  BY <1>1, <1>2
<1>4. (n - 1) + 1 \in S
  BY <1>3
<1> QED
  BY <1>1, <1>4

LEMMA MinOfTwo == ASSUME NEW m \in Nat, NEW n \in Nat PROVE Min({m, n}) \in {m, n} /\ Min({m, n}) <= m /\ Min({m, n}) <= n
<1>1. \E x \in {m, n} : \A y \in {m, n} : x <= y
  <2>1. CASE m <= n
    BY <2>1
  <2>2. CASE n <= m
    BY <2>2
  <2> QED
    BY <2>1, <2>2
<1> QED
  BY <1>1 DEF Min

\* The list Without builds, after i records.
Building(records, d, kept, i) ==
  IF i = 0 THEN <<>>
  ELSE IF records[i].tree.digest = d THEN kept[i - 1]
  ELSE Append(kept[i - 1], records[i])

\* There is such a list for every prefix.
LEMMA BuildingExists ==
  ASSUME NEW records, NEW d, NEW n \in Nat
  PROVE \E kept : kept = [i \in 0..n |-> Building(records, d, kept, i)]
<1> DEFINE S == {m \in Nat : \E kept : kept = [i \in 0..m |-> Building(records, d, kept, i)]}
<1>1. 0 \in S
  <2> DEFINE k == [i \in 0..0 |-> <<>>]
  <2>1. k = [i \in 0..0 |-> Building(records, d, k, i)]
    BY DEF Building
  <2> HIDE DEF k
  <2> QED
    BY <2>1
<1>2. ASSUME NEW m \in S PROVE m + 1 \in S
  <2>1. m \in Nat
    OBVIOUS
  <2>2. PICK kept : kept = [i \in 0..m |-> Building(records, d, kept, i)]
    OBVIOUS
  <2> DEFINE k == [i \in 0..(m + 1) |-> IF i = m + 1 THEN Building(records, d, kept, i) ELSE kept[i]]
  <2>3. ASSUME NEW i \in 0..(m + 1) PROVE k[i] = Building(records, d, k, i)
    <3>1. i = 0 \/ (i \in Nat /\ i # 0 /\ i - 1 \in 0..m)
      BY <2>1
    <3>2. CASE i = 0
      <4>1. kept[0] = Building(records, d, kept, 0)
        BY <2>1, <2>2
      <4> QED
        BY <2>1, <3>2, <4>1 DEF Building
    <3>3. CASE i # 0
      <4>1. k[i - 1] = kept[i - 1]
        BY <2>1, <3>1, <3>3
      <4>2. k[i] = Building(records, d, kept, i)
        <5>1. CASE i = m + 1
          BY <5>1
        <5>2. CASE i # m + 1
          <6>1. i \in 0..m
            BY <5>2, <2>1
          <6>2. kept[i] = Building(records, d, kept, i)
            BY <2>2, <6>1
          <6> QED
            BY <5>2, <6>2
        <5> QED
          BY <5>1, <5>2
      <4>3. Building(records, d, kept, i) = Building(records, d, k, i)
        <5> HIDE DEF k
        <5> QED
          BY <3>3, <4>1 DEF Building
      <4> QED
        BY <4>2, <4>3
    <3> QED
      BY <3>2, <3>3
  <2>4. k = [i \in 0..(m + 1) |-> k[i]]
    OBVIOUS
  <2> HIDE DEF k
  <2>5. k = [i \in 0..(m + 1) |-> Building(records, d, k, i)]
    BY <2>3, <2>4
  <2> QED
    BY <2>1, <2>5
<1> HIDE DEF S
<1>3. S = Nat
  <2>1. S \in SUBSET Nat
    BY DEF S
  <2> QED
    BY <1>1, <1>2, <2>1, Induct
<1> QED
  BY <1>3 DEF S

\* Without returns records of the list, none of that tree, and as the list had
\* one record of each tree, so does what it returns.
LEMMA WithoutKeeps ==
  ASSUME NEW records, records \in Seq(Range(records)), OneRecordEach(records), NEW d
  PROVE /\ Without(records, d) \in Seq(Range(records))
        /\ OneRecordEach(Without(records, d))
        /\ \A k \in DOMAIN Without(records, d) :
             \E m \in DOMAIN records : /\ Without(records, d)[k] = records[m]
                                       /\ records[m].tree.digest # d
<1> DEFINE n == Len(records)
           kept == CHOOSE f : f = [i \in 0..n |-> Building(records, d, f, i)]
<1>1. n \in Nat /\ DOMAIN records = 1..n
  OBVIOUS
<1>2. kept = [i \in 0..n |-> Building(records, d, kept, i)]
  BY <1>1, BuildingExists
<1>3. Without(records, d) = kept[n]
  BY DEF Without, Building
<1> HIDE DEF n, kept
<1> DEFINE Holds(s, i) ==
             /\ s \in Seq(Range(records)) /\ OneRecordEach(s)
             /\ \A k \in DOMAIN s : \E m \in 1..i : s[k] = records[m] /\ records[m].tree.digest # d
           S == {i \in Nat : i \in 0..n => Holds(kept[i], i)}
<1>4. 0 \in S
  <2>1. kept[0] = << >>
    BY <1>1, <1>2 DEF Building
  <2>2. Holds(<< >>, 0)
    BY DEF OneRecordEach
  <2> QED
    BY <2>1, <2>2
<1>5. ASSUME NEW i \in S PROVE i + 1 \in S
  <2> SUFFICES ASSUME i + 1 \in 0..n PROVE Holds(kept[i + 1], i + 1)
    OBVIOUS
  <2>1. i \in 0..n /\ i + 1 \in 1..n /\ i + 1 # 0 /\ (i + 1) - 1 = i /\ i \in Nat
    BY <1>1
  <2>2. Holds(kept[i], i)
    BY <2>1
  <2>3. kept[i + 1] = IF records[i + 1].tree.digest = d THEN kept[i] ELSE Append(kept[i], records[i + 1])
    BY <1>2, <2>1 DEF Building
  <2> DEFINE s == kept[i]
  <2> HIDE DEF s
  <2>4. CASE records[i + 1].tree.digest = d
    BY <2>1, <2>2, <2>3, <2>4
  <2>5. CASE records[i + 1].tree.digest # d
    <3>1. s \in Seq(Range(records)) /\ OneRecordEach(s)
      BY <2>2 DEF s
    <3>2. \A k \in DOMAIN s : \E m \in 1..i : s[k] = records[m] /\ records[m].tree.digest # d
      BY <2>2 DEF s
    <3>3. records[i + 1] \in Range(records)
      BY <1>1, <2>1 DEF Range
    <3>4. \A k \in DOMAIN s : s[k].tree.digest # records[i + 1].tree.digest
      BY <1>1, <2>1, <3>2 DEF OneRecordEach
    <3> DEFINE q == Append(s, records[i + 1])
    <3>5. q \in Seq(Range(records))
      BY <3>1, <3>3
    <3>6. /\ Len(s) \in Nat /\ DOMAIN s = 1..Len(s) /\ DOMAIN q = 1..(Len(s) + 1)
          /\ \A k \in 1..Len(s) : q[k] = s[k]
          /\ q[Len(s) + 1] = records[i + 1]
      BY <3>1, <3>3
    <3> HIDE DEF q
    <3>7. OneRecordEach(q)
      BY <3>1, <3>4, <3>6 DEF OneRecordEach
    <3>8. ASSUME NEW k \in DOMAIN q
          PROVE \E m \in 1..(i + 1) : q[k] = records[m] /\ records[m].tree.digest # d
      <4>1. CASE k \in 1..Len(s)
        BY <2>1, <3>2, <3>6, <4>1
      <4>2. CASE k = Len(s) + 1
        BY <2>1, <2>5, <3>6, <4>2
      <4> QED
        BY <3>6, <4>1, <4>2
    <3> QED
      BY <2>3, <2>5, <3>5, <3>7, <3>8 DEF q, s
  <2> QED
    BY <2>4, <2>5
<1> HIDE DEF Holds
<1>6. S = Nat
  <2>1. S \in SUBSET Nat
    OBVIOUS
  <2> HIDE DEF S
  <2> QED
    BY <1>4, <1>5, <2>1, Induct
<1>7. Holds(kept[n], n)
  BY <1>1, <1>6
<1> QED
  BY <1>1, <1>3, <1>7 DEF Holds

\* A list cut to its first records.
LEMMA CutKeeps ==
  ASSUME NEW s, s \in Seq(Range(s)), OneRecordEach(s), NEW n \in Nat, n <= Len(s)
  PROVE /\ SubSeq(s, 1, n) \in Seq(Range(SubSeq(s, 1, n)))
        /\ OneRecordEach(SubSeq(s, 1, n))
        /\ \A k \in DOMAIN SubSeq(s, 1, n) : k \in DOMAIN s /\ SubSeq(s, 1, n)[k] = s[k]
<1> DEFINE q == SubSeq(s, 1, n)
<1>1. q \in Seq(Range(s)) /\ Len(q) = n /\ DOMAIN q = 1..n /\ \A k \in 1..n : k \in DOMAIN s /\ q[k] = s[k]
  OBVIOUS
<1> HIDE DEF q
<1>2. q \in Seq(Range(q))
  BY <1>1 DEF Range
<1>3. OneRecordEach(q)
  BY <1>1 DEF OneRecordEach
<1> QED
  BY <1>1, <1>2, <1>3 DEF q

----------------------------------------------------------------------------
(* The steps.                                                               *)

\* A run that passed stays what it was.
Steady(g) ==
  run[g].passed => run'[g].passed /\ run'[g].before = run[g].before /\ run'[g].began = run[g].began

LEMMA PassesStay ==
  ASSUME \A g \in Runs : Steady(g)
  PROVE  /\ \A g, t : PassedOn(g, t) => PassedOn(g, t)' /\ run'[g].began = run[g].began
         /\ \A h, d : Measures(h, d) => Measures(h, d)' /\ run'[h].began = run[h].began
         /\ \A d : Measured(d) => Measured(d)'
BY DEF Steady, PassedOn, Measures, Measured

\* The ordering of the ledger grows with every withdrawal.
Advances ==
  \/ Ordering(ledger)' = Ordering(ledger) /\ withdrawn' = withdrawn
  \/ Earlier(Ordering(ledger), Ordering(ledger)')

LEMMA TokensStay ==
  ASSUME Shape, Shape', Advances, NEW g \in Runs, Tokens(g),
         run'[g].token = run[g].token, run'[g].began = run[g].began
  PROVE  Tokens(g)'
<1> DEFINE o == run[g].token.ordering
<1> SUFFICES ASSUME run[g].token # None
             PROVE  o \in Nat \X Nat /\ (Earlier(o, Ordering(ledger)') \/ (o = Ordering(ledger)' /\ run[g].began = withdrawn'))
  BY DEF Tokens, Earlier
<1>1. o \in Nat \X Nat /\ (Earlier(o, Ordering(ledger)) \/ (o = Ordering(ledger) /\ run[g].began = withdrawn))
  BY DEF Tokens
<1>2. Ordering(ledger) \in Nat \X Nat /\ Ordering(ledger)' \in Nat \X Nat
  BY DEF Shape, Ordering
<1> HIDE DEF o
<1>3. CASE Ordering(ledger)' = Ordering(ledger) /\ withdrawn' = withdrawn
  BY <1>1, <1>3
<1>4. CASE Earlier(Ordering(ledger), Ordering(ledger)')
  <2>1. Earlier(o, Ordering(ledger)')
    BY <1>1, <1>2, <1>4 DEF Earlier
  <2> QED
    BY <1>1, <2>1
<1> QED
  BY <1>3, <1>4 DEF Advances

\* What a step of another does to a run.
LEMMA OthersStay ==
  ASSUME IInv, Shape', Advances, withdrawn \subseteq withdrawn', \A h \in Runs : Steady(h),
         NEW g \in Runs, run'[g] = run[g]
  PROVE  RunOK(g)'
<1>1. RunOK(g)
  BY DEF IInv
<1>2. Reads(g)'
  BY <1>1, PassesStay DEF RunOK, Reads, Heeds
<1>3. Compares(g)'
  <2>1. Compares(g)
    BY <1>1 DEF RunOK
  <2>2. (run[g].pc = "skip own" /\ g \in Covered => Measured(run[g].snap.digest))'
    BY <2>1 DEF Compares, Steady, Measured, Measures
  <2> QED
    BY <2>1, <2>2 DEF Compares, Verifies
<1>4. Outcomes(g)'
  BY <1>1 DEF RunOK, Outcomes, Green
<1>5. Tokens(g)'
  BY <1>1, TokensStay DEF IInv, RunOK
<1> QED
  BY <1>2, <1>3, <1>4, <1>5 DEF RunOK

\* A step of r alone that touches neither ledger nor baselines.
LEMMA StepsAlone ==
  ASSUME IInv, NEW r \in Runs, Shape', \A g \in Runs \ {r} : run'[g] = run[g], Steady(r),
         UNCHANGED <<ledger, withdrawn, baseline>>, RunOK(r)'
  PROVE  IInv'
<1>1. \A g \in Runs : Steady(g)
  BY DEF Steady
<1>2. LedgerSound'
  BY <1>1, PassesStay DEF IInv, LedgerSound, Sound, FailedOn
<1>3. Baselines'
  BY <1>1, PassesStay DEF IInv, Baselines
<1>4. Advances
  BY DEF Advances, Ordering
<1>5. \A g \in Runs \ {r} : RunOK(g)'
  BY <1>1, <1>4, OthersStay
<1> QED
  BY <1>2, <1>3, <1>5 DEF IInv

Comparing == {"new", "latest", "proof", "skip own", "refused", "skip found"}
Ending == {"withdraw", "commit", "feed"}

\* Field by field, what a step of r leaves alone.
Row(r) == DOMAIN run' = Runs /\ DOMAIN run'[r] = Fields /\ \A g \in Runs \ {r} : run'[g] = run[g]
Leaves(r, fields) == \A f \in fields : run'[r][f] = run[r][f]

LEMMA RowsStay ==
  ASSUME Shape, NEW r \in Runs, Row(r), UNCHANGED <<ledger, baseline>>
  PROVE  Shape'
BY DEF Shape, Row

\* A step after which r neither compares nor ends a run.
LEMMA PlainStep ==
  ASSUME IInv, NEW r \in Runs, Row(r), UNCHANGED <<ledger, withdrawn, baseline>>,
         Leaves(r, {"base", "found", "before", "token", "passed", "known", "began"}),
         run'[r].pc \notin Comparing \union Ending, run[r].pc \in Settled => run'[r].pc \in Settled
  PROVE  IInv'
<1>1. /\ run'[r].base = run[r].base /\ run'[r].found = run[r].found /\ run'[r].before = run[r].before
      /\ run'[r].token = run[r].token /\ run'[r].passed = run[r].passed
      /\ run'[r].known = run[r].known /\ run'[r].began = run[r].began
  BY DEF Leaves
<1>2. Shape' /\ Steady(r) /\ \A g \in Runs : Steady(g)
  BY <1>1, RowsStay DEF IInv, Steady, Row
<1>3. RunOK(r)
  BY DEF IInv
<1>4. Reads(r)'
  BY <1>1, <1>2, <1>3, PassesStay DEF RunOK, Reads, Heeds
<1>5. Compares(r)'
  BY DEF Compares, Comparing
<1>6. Outcomes(r)'
  BY <1>1, <1>3 DEF RunOK, Outcomes, Ending
<1>7. Tokens(r)'
  BY <1>1, <1>3 DEF RunOK, Tokens, Ordering
<1> QED
  BY <1>2, <1>4, <1>5, <1>6, <1>7, StepsAlone DEF Row, RunOK

\* What changing the step of a run, and what else an action changes, leaves.
LEMMA GoesOn ==
  ASSUME Shape, NEW r \in Runs, NEW pc, Go(r, pc)
  PROVE  Row(r) /\ run'[r].pc = pc /\ Leaves(r, Fields \ {"pc"})
BY DEF Shape, Go, Row, Leaves, Fields

LEMMA StartKeeps == ASSUME ConstantsMakeSense, IInv, NEW r \in Runs, Start(r) PROVE IInv'
<1>1. UNCHANGED <<ledger, withdrawn, baseline>>
  BY DEF Start, World, History
<1>2. /\ Row(r) /\ Leaves(r, Fields \ {"pc", "base", "known"})
      /\ run'[r].pc \in {"capture", "own"} /\ run'[r].known = withdrawn
      /\ run'[r].base \in {None, baseline[CheckoutOf[r]]}
  BY DEF Start, IInv, Shape, Fields, Row, Leaves
<1>3. /\ run'[r].found = run[r].found /\ run'[r].before = run[r].before
      /\ run'[r].token = run[r].token /\ run'[r].passed = run[r].passed /\ run'[r].began = run[r].began
  BY <1>2 DEF Leaves, Fields
<1>4. Shape' /\ Steady(r) /\ \A g \in Runs : Steady(g)
  BY <1>1, <1>2, <1>3, RowsStay DEF IInv, Steady, Row
<1>5. RunOK(r) /\ ~ run[r].passed
  BY DEF Start, IInv, RunOK, Outcomes, Settled
<1>6. Reads(r)'
  <2>1. run'[r].base # None => PassedOn(run'[r].base.run, run'[r].base.tree)
    BY <1>2 DEF ConstantsMakeSense, IInv, Baselines
  <2>2. run'[r].found = {}
    BY <1>3, <1>5 DEF Start, RunOK, Compares
  <2> QED
    BY <1>1, <1>2, <2>1, <2>2, <1>4, PassesStay DEF Reads
<1>7. Compares(r)' /\ Outcomes(r)' /\ Tokens(r)'
  BY <1>1, <1>2, <1>3, <1>5 DEF RunOK, Compares, Outcomes, Tokens, Ordering, Settled
<1> QED
  BY <1>1, <1>2, <1>4, <1>6, <1>7, StepsAlone DEF Row, RunOK

\* What r read keeps its meaning.
LEMMA ReadsStay ==
  ASSUME NEW r \in Runs, RunOK(r), \A g \in Runs : Steady(g), withdrawn \subseteq withdrawn',
         Leaves(r, {"base", "found", "known"})
  PROVE  Reads(r)'
<1>1. run'[r].base = run[r].base /\ run'[r].found = run[r].found /\ run'[r].known = run[r].known
  BY DEF Leaves
<1>2. Reads(r)
  BY DEF RunOK
<1> QED
  BY <1>1, <1>2, PassesStay DEF Reads, Heeds

\* A step of a gate that has not ended: nothing it may conclude was measured yet.
LEMMA GateStep ==
  ASSUME IInv, NEW r \in Runs, Row(r), UNCHANGED <<ledger, withdrawn, baseline>>,
         Leaves(r, {"before", "token", "passed", "known", "began"}),
         run[r].pc \notin Settled, run'[r].pc \notin Ending, Reads(r)', Compares(r)'
  PROVE  IInv'
<1>1. /\ run'[r].before = run[r].before /\ run'[r].token = run[r].token
      /\ run'[r].passed = run[r].passed /\ run'[r].began = run[r].began
  BY DEF Leaves
<1>2. Shape' /\ Steady(r)
  BY <1>1, RowsStay DEF IInv, Steady
<1>3. RunOK(r)
  BY DEF IInv
<1>4. Outcomes(r)' /\ Tokens(r)'
  BY <1>1, <1>3 DEF RunOK, Outcomes, Ending, Tokens, Ordering
<1> QED
  BY <1>2, <1>4, StepsAlone DEF Row, RunOK

LEMMA CompareOwnKeeps == ASSUME IInv, NEW r \in Runs, CompareOwn(r) PROVE IInv'
<1>1. UNCHANGED <<ledger, withdrawn, baseline>> /\ run[r].pc = "own"
  BY DEF CompareOwn, World, History
<1>2. /\ Row(r) /\ Leaves(r, Fields \ {"pc", "snap"}) /\ run'[r].snap = Here(r)
      /\ run'[r].pc = IF run[r].base # None /\ Verifies(run[r].base.tree, Here(r)) THEN "latest" ELSE "find"
  BY DEF CompareOwn, IInv, Shape, Fields, Row, Leaves
<1>3. Leaves(r, {"base", "found", "known"}) /\ Leaves(r, {"before", "token", "passed", "known", "began"})
  BY <1>2 DEF Leaves, Fields
<1>4. \A g \in Runs : Steady(g)
  BY <1>2, <1>3 DEF Row, Steady, Leaves
<1>5. Compares(r)'
  BY <1>2, <1>3 DEF Compares, Verifies, Leaves
<1> QED
  BY <1>1, <1>2, <1>3, <1>4, <1>5, ReadsStay, GateStep DEF IInv, Settled, Ending

LEMMA CheckLatestKeeps == ASSUME IInv, NEW r \in Runs, CheckLatest(r) PROVE IInv'
<1>1. UNCHANGED <<ledger, withdrawn, baseline>> /\ run[r].pc = "latest"
  BY DEF CheckLatest, World, History
<1>2. /\ Row(r) /\ Leaves(r, Fields \ {"pc"})
      /\ run'[r].pc \in {"find", "proof", "skip own"} /\ (r \in Covered => run'[r].pc # "skip own")
  BY DEF CheckLatest, Go, IInv, Shape, Fields, Row, Leaves
<1>3. Leaves(r, {"base", "found", "known"}) /\ Leaves(r, {"before", "token", "passed", "known", "began"})
  BY <1>2 DEF Leaves, Fields
<1>4. \A g \in Runs : Steady(g)
  BY <1>2, <1>3 DEF Row, Steady, Leaves
<1>5. Compares(r)'
  <2>1. Compares(r) /\ run'[r].snap = run[r].snap /\ run'[r].base = run[r].base
    BY <1>2 DEF IInv, RunOK, Leaves, Fields
  <2> QED
    BY <1>1, <1>2, <2>1 DEF Compares, Verifies
<1> QED
  BY <1>1, <1>2, <1>3, <1>4, <1>5, ReadsStay, GateStep DEF IInv, Settled, Ending

LEMMA CheckProofKeeps == ASSUME ConstantsMakeSense, IInv, NEW r \in Runs, CheckProof(r) PROVE IInv'
<1>1. UNCHANGED <<ledger, withdrawn, baseline>> /\ run[r].pc = "proof"
  BY DEF CheckProof, World, History
<1>2. /\ Row(r) /\ Leaves(r, Fields \ {"pc"}) /\ run'[r].pc \in {"find", "skip own"}
      /\ run'[r].pc = "skip own" => \E i \in DOMAIN Records : /\ Records[i].tree.digest = run[r].base.tree.digest
                                                             /\ Records[i].coverage = Coverage(r)
  BY DEF CheckProof, Go, IInv, Shape, Fields, Row, Leaves
<1>3. Leaves(r, {"base", "found", "known"}) /\ Leaves(r, {"before", "token", "passed", "known", "began"})
  BY <1>2 DEF Leaves, Fields
<1>4. \A g \in Runs : Steady(g)
  BY <1>2, <1>3 DEF Row, Steady, Leaves
<1>5. Compares(r)'
  <2>1. Compares(r) /\ run'[r].snap = run[r].snap /\ run'[r].base = run[r].base
    BY <1>2 DEF IInv, RunOK, Leaves, Fields
  <2>2. run[r].base # None /\ Verifies(run[r].base.tree, run[r].snap)
    BY <1>1, <2>1 DEF Compares
  <2>3. ASSUME run'[r].pc = "skip own", r \in Covered PROVE Measured(run[r].snap.digest)
    <3>1. PICK i \in DOMAIN Records : /\ Records[i].tree.digest = run[r].base.tree.digest
                                      /\ Records[i].coverage = "cov"
      BY <1>2, <2>3 DEF Coverage
    <3>2. i \in DOMAIN ledger.records /\ Records[i] = ledger.records[i]
      BY DEF Records
    <3>3. Sound(ledger.records[i])
      BY <3>2 DEF IInv, LedgerSound
    <3> QED
      BY <2>2, <3>1, <3>2, <3>3 DEF Sound, Measured, Verifies, ConstantsMakeSense
  <2>4. (run[r].pc = "skip own" /\ r \in Covered => Measured(run[r].snap.digest))'
    BY <1>4, <2>1, <2>3 DEF Measured, Measures, Steady
  <2> QED
    BY <1>2, <2>1, <2>2, <2>4 DEF Compares, Verifies
<1> QED
  BY <1>1, <1>2, <1>3, <1>4, <1>5, ReadsStay, GateStep DEF IInv, Settled, Ending

LEMMA FindKeeps == ASSUME ConstantsMakeSense, IInv, NEW r \in Runs, Find(r) PROVE IInv'
<1>1. UNCHANGED <<ledger, withdrawn, baseline>> /\ run[r].pc = "find"
  BY DEF Find, World, History
<1>2. /\ Row(r) /\ Leaves(r, Fields \ {"pc", "found"}) /\ run'[r].pc = "match"
      /\ \A rec \in run'[r].found : rec \in Range(Records) /\ (r \in Covered => rec.coverage = Coverage(r))
  BY DEF Find, IInv, Shape, Fields, Row, Leaves
<1>3. /\ Leaves(r, {"before", "token", "passed", "known", "began"})
      /\ run'[r].base = run[r].base /\ run'[r].known = run[r].known
  BY <1>2 DEF Leaves, Fields
<1>4. \A g \in Runs : Steady(g)
  BY <1>2, <1>3 DEF Row, Steady, Leaves
<1>5. Reads(r)
  BY DEF IInv, RunOK
<1>6. ASSUME NEW rec \in run'[r].found PROVE Heeds(r, rec)
  <2>1. PICK i \in DOMAIN ledger.records : rec = ledger.records[i]
    BY <1>2 DEF Records, Range
  <2>2. Sound(rec)
    BY <2>1 DEF IInv, LedgerSound
  <2>3. \A w \in run[r].known : w.digest = rec.tree.digest => w \in run[rec.run].began
    BY <1>5, <2>2 DEF Sound, Reads, FailedOn
  <2>4. r \in Covered => Measured(rec.tree.digest)
    BY <1>2, <2>2 DEF Sound, Measured, Coverage, ConstantsMakeSense
  <2> QED
    BY <2>2, <2>3, <2>4 DEF Heeds, Sound
<1>7. Reads(r)'
  BY <1>1, <1>3, <1>4, <1>5, <1>6, PassesStay DEF Reads, Heeds
<1>8. Compares(r)'
  BY <1>2 DEF Compares
<1> QED
  BY <1>1, <1>2, <1>3, <1>7, <1>8, GateStep DEF Settled, Ending

LEMMA MatchKeeps == ASSUME IInv, NEW r \in Runs, Match(r) PROVE IInv'
<1>1. UNCHANGED <<ledger, withdrawn, baseline>> /\ run[r].pc = "match"
  BY DEF Match, World, History
<1>2. /\ Row(r) /\ Leaves(r, Fields \ {"pc", "found", "snap"}) /\ run'[r].pc \in {"capture", "refused"}
      /\ run'[r].found = {rec \in run[r].found : Verifies(rec.tree, Here(r))} /\ run'[r].snap = Here(r)
  BY DEF Match, IInv, Shape, Fields, Row, Leaves
<1>3. /\ Leaves(r, {"before", "token", "passed", "known", "began"})
      /\ run'[r].base = run[r].base /\ run'[r].known = run[r].known
  BY <1>2 DEF Leaves, Fields
<1>4. \A g \in Runs : Steady(g)
  BY <1>2, <1>3 DEF Row, Steady, Leaves
<1>5. Reads(r)'
  <2>1. Reads(r) /\ run'[r].found \subseteq run[r].found
    BY <1>2 DEF IInv, RunOK
  <2> QED
    BY <1>1, <1>3, <1>4, <2>1, PassesStay DEF Reads, Heeds
<1>6. Compares(r)'
  BY <1>2 DEF Compares, Verifies
<1> QED
  BY <1>1, <1>2, <1>3, <1>5, <1>6, GateStep DEF Settled, Ending

LEMMA RefuseKeeps == ASSUME IInv, NEW r \in Runs, Refuse(r) PROVE IInv'
<1>1. UNCHANGED <<ledger, withdrawn, baseline>> /\ run[r].pc = "refused"
  BY DEF Refuse, World, History
<1>2. PICK rec \in run[r].found :
        run' = [run EXCEPT ![r].pc = IF RefusedHere(r) THEN "capture" ELSE "skip found", ![r].by = rec.run]
  BY DEF Refuse
<1>3. /\ Row(r) /\ Leaves(r, Fields \ {"pc", "by"}) /\ run'[r].pc \in {"capture", "skip found"}
      /\ run'[r].by = rec.run
  BY <1>2 DEF IInv, Shape, Fields, Row, Leaves
<1>4. Leaves(r, {"base", "found", "known"}) /\ Leaves(r, {"before", "token", "passed", "known", "began"})
  BY <1>3 DEF Leaves, Fields
<1>5. \A g \in Runs : Steady(g)
  BY <1>3, <1>4 DEF Row, Steady, Leaves
<1>6. Compares(r)'
  <2>1. Verifies(rec.tree, run[r].snap)
    BY <1>1 DEF IInv, RunOK, Compares
  <2>2. run'[r].snap = run[r].snap /\ rec \in run'[r].found
    BY <1>3 DEF Leaves, Fields
  <2> QED
    BY <1>3, <2>1, <2>2 DEF Compares, Verifies
<1> QED
  BY <1>1, <1>3, <1>4, <1>5, <1>6, ReadsStay, GateStep DEF IInv, Settled, Ending

LEMMA AdmitKeeps == ASSUME IInv, NEW r \in Runs, Admit(r) PROVE IInv'
<1>1. UNCHANGED <<ledger, withdrawn, baseline>> /\ run[r].pc = "queue"
  BY DEF Admit, World, History
<1>2. Row(r) /\ Leaves(r, Fields \ {"pc", "before"}) /\ run'[r].pc = "gate"
  BY DEF Admit, IInv, Shape, Fields, Row, Leaves
<1>3. /\ Leaves(r, {"base", "found", "known"}) /\ run'[r].token = run[r].token
      /\ run'[r].passed = run[r].passed /\ run'[r].began = run[r].began
  BY <1>2 DEF Leaves, Fields
<1>4. RunOK(r) /\ ~ run[r].passed
  BY <1>1 DEF IInv, RunOK, Outcomes, Settled
<1>5. Shape' /\ \A g \in Runs : Steady(g)
  BY <1>1, <1>2, <1>4, RowsStay DEF IInv, Row, Steady
<1>6. Compares(r)' /\ Outcomes(r)' /\ Tokens(r)'
  BY <1>1, <1>2, <1>3, <1>4 DEF RunOK, Compares, Outcomes, Tokens, Ordering
<1> QED
  BY <1>1, <1>2, <1>3, <1>4, <1>5, <1>6, ReadsStay, StepsAlone DEF Row, RunOK

LEMMA ExecuteKeeps == ASSUME IInv, NEW r \in Runs, Execute(r) PROVE IInv'
<1>1. UNCHANGED <<ledger, withdrawn, baseline>> /\ run[r].pc = "execute"
  BY DEF Execute, World, History
<1>2. Row(r) /\ Leaves(r, Fields \ {"pc", "passed"}) /\ run'[r].pc = "recapture"
  BY DEF Execute, IInv, Shape, Fields, Row, Leaves
<1>3. /\ Leaves(r, {"base", "found", "known"}) /\ run'[r].token = run[r].token
      /\ run'[r].began = run[r].began
  BY <1>2 DEF Leaves, Fields
<1>4. RunOK(r) /\ ~ run[r].passed
  BY <1>1 DEF IInv, RunOK, Outcomes, Settled
<1>5. Shape' /\ \A g \in Runs : Steady(g)
  BY <1>1, <1>2, <1>4, RowsStay DEF IInv, Row, Steady
<1>6. Compares(r)' /\ Outcomes(r)' /\ Tokens(r)'
  BY <1>1, <1>2, <1>3, <1>4 DEF RunOK, Compares, Outcomes, Tokens, Ordering, Settled
<1> QED
  BY <1>1, <1>2, <1>3, <1>4, <1>5, <1>6, ReadsStay, StepsAlone DEF Row, RunOK

LEMMA RecaptureKeeps == ASSUME IInv, NEW r \in Runs, Recapture(r) PROVE IInv'
<1>1. UNCHANGED <<ledger, withdrawn, baseline>> /\ run[r].pc = "recapture"
  BY DEF Recapture, World, History
<1>2. /\ Row(r) /\ Leaves(r, Fields \ {"pc", "status"}) /\ run'[r].pc = "withdraw"
      /\ run'[r].status = "passed" => run[r].passed
  BY DEF Recapture, IInv, Shape, Fields, Row, Leaves
<1>3. /\ Leaves(r, {"base", "found", "known"}) /\ run'[r].token = run[r].token
      /\ run'[r].before = run[r].before
      /\ run'[r].passed = run[r].passed /\ run'[r].began = run[r].began
  BY <1>2 DEF Leaves, Fields
<1>4. Shape' /\ \A g \in Runs : Steady(g)
  BY <1>1, <1>2, <1>3, RowsStay DEF IInv, Row, Steady
<1>5. RunOK(r)
  BY DEF IInv
<1>6. Compares(r)' /\ Outcomes(r)' /\ Tokens(r)'
  BY <1>1, <1>2, <1>3, <1>5 DEF RunOK, Compares, Outcomes, Tokens, Ordering, Settled
<1> QED
  BY <1>1, <1>2, <1>3, <1>4, <1>5, <1>6, ReadsStay, StepsAlone DEF Row, RunOK

\* Steps of a run that change neither what it knows nor what others know of it.
LEMMA GoingKeeps ==
  ASSUME IInv, NEW r \in Runs, NEW pc, pc \notin Comparing \union Ending, Go(r, pc),
         UNCHANGED <<World, History, ledger>>, run[r].pc \in Settled => pc \in Settled
  PROVE  IInv'
<1>1. Row(r) /\ run'[r].pc = pc /\ Leaves(r, Fields \ {"pc"})
  BY GoesOn DEF IInv
<1>2. Leaves(r, {"base", "found", "before", "token", "passed", "known", "began"})
  BY <1>1 DEF Leaves, Fields
<1> QED
  BY <1>1, <1>2, PlainStep DEF World, History

LEMMA RewritingKeeps ==
  ASSUME IInv, NEW r \in Runs, NEW row, run' = [run EXCEPT ![r] = row], DOMAIN row = Fields,
         \A f \in {"base", "found", "before", "token", "passed", "known", "began"} : row[f] = run[r][f],
         row.pc \notin Comparing \union Ending, run[r].pc \in Settled => row.pc \in Settled,
         UNCHANGED <<World, History, ledger>>
  PROVE  IInv'
<1>1. Row(r) /\ run'[r] = row
  BY DEF IInv, Shape, Row
<1> QED
  BY <1>1, PlainStep DEF World, History, Leaves

LEMMA PlainStepsKeep ==
  ASSUME IInv, NEW r \in Runs,
         \/ Skip(r) \/ Capture(r) \/ Claim(r) \/ Look(r) \/ ReadDead(r) \/ UnlinkDead(r)
         \/ PollVerdict(r) \/ PollLease(r) \/ QueueTimesOut(r) \/ CommitFails(r)
         \/ Leave(r) \/ Release(r) \/ Unlink(r) \/ Crash(r)
  PROVE  IInv'
<1> DEFINE Frame == UNCHANGED <<World, History, ledger>>
<1>1. DOMAIN run[r] = Fields
  BY DEF IInv, Shape
<1>2. CASE Skip(r)
  <2> DEFINE row == [run[r] EXCEPT !.pc = "done", !.verdict = "skipped", !.status = "passed",
                                   !.by = IF run[r].pc = "skip own" THEN run[r].base.run ELSE @]
  <2>1. run' = [run EXCEPT ![r] = row] /\ Frame
    BY <1>2 DEF Skip
  <2>2. DOMAIN row = Fields /\ row.pc = "done" /\ \A f \in Fields \ {"pc", "verdict", "status", "by"} : row[f] = run[r][f]
    BY <1>1 DEF Fields
  <2> HIDE DEF row
  <2> QED
    BY <2>1, <2>2, RewritingKeeps DEF Fields, Comparing, Ending, Settled
<1>3. CASE Capture(r)
  <2> DEFINE row == [run[r] EXCEPT !.pc = "claim", !.snap = Here(r)]
  <2>1. run' = [run EXCEPT ![r] = row] /\ Frame /\ run[r].pc = "capture"
    BY <1>3 DEF Capture
  <2>2. DOMAIN row = Fields /\ row.pc = "claim" /\ \A f \in Fields \ {"pc", "snap"} : row[f] = run[r][f]
    BY <1>1 DEF Fields
  <2> HIDE DEF row
  <2> QED
    BY <2>1, <2>2, RewritingKeeps DEF Fields, Comparing, Ending, Settled
<1>4. CASE Claim(r)
  <2>1. CASE lease[CheckoutOf[r]] = None
    <3> DEFINE row == [run[r] EXCEPT !.pc = "queue", !.claimed = TRUE]
    <3>1. run' = [run EXCEPT ![r] = row] /\ Frame /\ run[r].pc \in {"claim", "reclaim"}
      BY <1>4, <2>1 DEF Claim
    <3>2. DOMAIN row = Fields /\ row.pc = "queue" /\ \A f \in Fields \ {"pc", "claimed"} : row[f] = run[r][f]
      BY <1>1 DEF Fields
    <3> HIDE DEF row
    <3> QED
      BY <3>1, <3>2, RewritingKeeps DEF Fields, Comparing, Ending, Settled
  <2>2. CASE lease[CheckoutOf[r]] # None
    <3>1. (Go(r, "look") \/ Go(r, "queue")) /\ Frame /\ run[r].pc \in {"claim", "reclaim"}
      BY <1>4, <2>2 DEF Claim
    <3> QED
      BY <3>1, GoingKeeps DEF Comparing, Ending, Settled
  <2> QED
    BY <2>1, <2>2
<1>5. CASE Look(r)
  <2> DEFINE live == lease[CheckoutOf[r]]
             pc == IF ~Joinable(r, live) THEN "queue" ELSE IF Alive(live.run) THEN "poll" ELSE "take over"
             row == [run[r] EXCEPT !.live = live, !.pc = pc]
  <2>1. run' = [run EXCEPT ![r] = row] /\ Frame /\ run[r].pc = "look"
    BY <1>5 DEF Look
  <2>2. pc \in {"queue", "poll", "take over"}
    OBVIOUS
  <2> HIDE DEF pc, live
  <2>3. DOMAIN row = Fields /\ row.pc = pc /\ \A f \in Fields \ {"pc", "live"} : row[f] = run[r][f]
    BY <1>1 DEF Fields
  <2> HIDE DEF row
  <2> QED
    BY <2>1, <2>2, <2>3, RewritingKeeps DEF Fields, Comparing, Ending, Settled
<1>6. CASE ReadDead(r) \/ UnlinkDead(r)
  <2>1. (Go(r, "unlink dead") \/ Go(r, "reclaim")) /\ Frame /\ run[r].pc \in {"take over", "unlink dead"}
    BY <1>6 DEF ReadDead, UnlinkDead
  <2> QED
    BY <2>1, GoingKeeps DEF Comparing, Ending, Settled
<1>7. CASE PollVerdict(r)
  <2> DEFINE by == run[r].live.run
             status == summaries[CheckoutOf[r]][Min(Published(CheckoutOf[r], by))].status
             row == [run[r] EXCEPT !.pc = "done", !.verdict = "joined", !.by = by, !.status = status]
  <2>1. CASE Published(CheckoutOf[r], by) # {}
    <3>1. run' = [run EXCEPT ![r] = row] /\ Frame
      BY <1>7, <2>1 DEF PollVerdict
    <3> HIDE DEF status, by
    <3>2. DOMAIN row = Fields /\ row.pc = "done" /\ \A f \in Fields \ {"pc", "verdict", "by", "status"} : row[f] = run[r][f]
      BY <1>1 DEF Fields
    <3> HIDE DEF row
    <3> QED
      BY <3>1, <3>2, RewritingKeeps DEF Fields, Comparing, Ending, Settled
  <2>2. CASE Published(CheckoutOf[r], by) = {}
    <3>1. Go(r, "poll lease") /\ Frame /\ run[r].pc = "poll"
      BY <1>7, <2>2 DEF PollVerdict
    <3> QED
      BY <3>1, GoingKeeps DEF Comparing, Ending, Settled
  <2> QED
    BY <2>1, <2>2
<1>8. CASE PollLease(r) \/ QueueTimesOut(r)
  <2>1. (Go(r, "poll") \/ Go(r, "queue")) /\ Frame /\ run[r].pc = "poll lease"
    BY <1>8 DEF PollLease, QueueTimesOut
  <2> QED
    BY <2>1, GoingKeeps DEF Comparing, Ending, Settled
<1>9. CASE Leave(r)
  <2> DEFINE pc == IF run[r].claimed THEN "release" ELSE "done"
             row == [run[r] EXCEPT !.verdict = "ran", !.pc = pc]
  <2>1. run' = [run EXCEPT ![r] = row] /\ Frame
    BY <1>9 DEF Leave
  <2>2. pc \in {"release", "done"}
    OBVIOUS
  <2> HIDE DEF pc
  <2>3. DOMAIN row = Fields /\ row.pc = pc /\ \A f \in Fields \ {"pc", "verdict"} : row[f] = run[r][f]
    BY <1>1 DEF Fields
  <2> HIDE DEF row
  <2> QED
    BY <2>1, <2>2, <2>3, RewritingKeeps DEF Fields, Comparing, Ending, Settled
<1>10. CASE CommitFails(r) \/ Release(r) \/ Unlink(r) \/ Crash(r)
  <2>1. /\ Go(r, "leave") \/ Go(r, "unlink") \/ Go(r, "done") \/ Go(r, "dead")
        /\ Frame
    BY <1>10 DEF CommitFails, Release, Unlink, Crash
  <2> QED
    BY <2>1, GoingKeeps DEF Comparing, Ending, Settled
<1> QED
  BY <1>2, <1>3, <1>4, <1>5, <1>6, <1>7, <1>8, <1>9, <1>10

LEMMA GateKeeps == ASSUME IInv, NEW r \in Runs, Gate(r) PROVE IInv'
<1>1. UNCHANGED <<withdrawn, baseline>> /\ ledger' = Begun /\ run[r].pc = "gate"
  BY DEF Gate, World, History
<1>2. /\ Row(r) /\ Leaves(r, Fields \ {"pc", "status", "token", "began"})
      /\ run'[r].pc \in {"execute", "withdraw"} /\ run'[r].began = withdrawn
      /\ run'[r].pc = "withdraw" => run'[r].status = "incomplete"
      /\ run'[r].token.ordering = Ordering(ledger')
  BY DEF Gate, IInv, Shape, Fields, Row, Leaves
<1>3. Leaves(r, {"base", "found", "known"}) /\ run'[r].passed = run[r].passed
  BY <1>2 DEF Leaves, Fields
<1>4. RunOK(r) /\ ~ run[r].passed /\ Shape
  BY <1>1 DEF IInv, RunOK, Outcomes, Settled
<1>5. Shape' /\ Advances
  <2>1. CASE ledger.readable
    BY <1>1, <1>2, <1>4, <2>1 DEF Begun, Shape, Row, Advances, Ordering
  <2>2. CASE ~ ledger.readable
    <3>1. /\ ledger'.incarnation = ledger.incarnation + 1 /\ ledger'.generation = 0 /\ ledger'.records = << >>
          /\ DOMAIN ledger' = {"incarnation", "generation", "records", "readable"}
      BY <1>1, <2>2 DEF Begun
    <3> QED
      BY <1>1, <1>2, <1>4, <3>1 DEF Shape, Row, Advances, Ordering, Earlier
  <2> QED
    BY <2>1, <2>2
<1>6. \A g \in Runs : Steady(g)
  BY <1>2, <1>4 DEF Row, Steady
<1>7. LedgerSound'
  <2>1. CASE ledger.readable
    BY <1>1, <1>6, <2>1, PassesStay DEF Begun, IInv, LedgerSound, Sound, FailedOn
  <2>2. CASE ~ ledger.readable
    <3>1. ledger'.records = << >>
      BY <1>1, <2>2 DEF Begun
    <3> QED
      BY <3>1 DEF LedgerSound, OneRecordEach
  <2> QED
    BY <2>1, <2>2
<1>8. Baselines'
  BY <1>1, <1>6, PassesStay DEF IInv, Baselines
<1>9. Compares(r)' /\ Outcomes(r)'
  BY <1>2, <1>3, <1>4 DEF RunOK, Compares, Outcomes
<1>10. Tokens(r)'
  BY <1>1, <1>2, <1>5 DEF Tokens, Shape, Ordering
<1>11. RunOK(r)'
  BY <1>1, <1>3, <1>4, <1>6, <1>9, <1>10, ReadsStay DEF RunOK
<1>12. \A g \in Runs \ {r} : RunOK(g)'
  BY <1>1, <1>2, <1>5, <1>6, OthersStay DEF Row
<1> QED
  BY <1>5, <1>7, <1>8, <1>11, <1>12 DEF IInv

LEMMA WithdrawKeeps == ASSUME IInv, NEW r \in Runs, Withdraw(r) PROVE IInv'
<1> DEFINE d == run[r].before.digest
           gone == run[r].status # "passed" /\ run[r].before.clean
<1>1. /\ UNCHANGED baseline /\ Go(r, "commit") /\ run[r].pc = "withdraw"
      /\ \/ UNCHANGED <<ledger, withdrawn>>
         \/ /\ gone /\ ledger.readable /\ ledger' = Forgotten(d)
            /\ withdrawn' = withdrawn \union {[by |-> r, digest |-> d]}
  BY DEF Withdraw, History, Forgotten
<1> HIDE DEF d, gone
<1>2. Row(r) /\ run'[r].pc = "commit" /\ Leaves(r, Fields \ {"pc"}) /\ Shape
  BY <1>1, GoesOn DEF IInv
<1>3. /\ Leaves(r, {"base", "found", "known"}) /\ run'[r].passed = run[r].passed
      /\ run'[r].status = run[r].status
      /\ run'[r].token = run[r].token /\ run'[r].before = run[r].before /\ run'[r].began = run[r].began
  BY <1>2 DEF Leaves, Fields
<1>4. RunOK(r) /\ \A g \in Runs : Steady(g)
  BY <1>2, <1>3 DEF IInv, Row, Steady
<1>5. Shape' /\ LedgerSound' /\ Advances /\ withdrawn \subseteq withdrawn'
  <2>1. CASE UNCHANGED <<ledger, withdrawn>>
    <3>1. Shape' /\ Advances
      BY <1>1, <1>2, <2>1, RowsStay DEF Advances, Ordering
    <3>2. LedgerSound'
      BY <1>4, <2>1, PassesStay DEF IInv, LedgerSound, Sound, FailedOn
    <3> QED
      BY <2>1, <3>1, <3>2
  <2>2. CASE /\ gone /\ ledger.readable /\ ledger' = Forgotten(d)
             /\ withdrawn' = withdrawn \union {[by |-> r, digest |-> d]}
    <3>1. /\ ledger'.records = Without(ledger.records, d) /\ ledger'.generation = ledger.generation + 1
          /\ ledger'.incarnation = ledger.incarnation /\ DOMAIN ledger' = DOMAIN ledger
      BY <1>2, <2>2 DEF Forgotten, Shape
    <3>2. /\ Without(ledger.records, d) \in Seq(Range(ledger.records))
          /\ OneRecordEach(Without(ledger.records, d))
          /\ \A k \in DOMAIN Without(ledger.records, d) : \E m \in DOMAIN ledger.records :
               /\ Without(ledger.records, d)[k] = ledger.records[m]
               /\ ledger.records[m].tree.digest # d
      BY <1>2, WithoutKeeps DEF IInv, Shape, LedgerSound
    <3> PICK kept : kept = Without(ledger.records, d)
      OBVIOUS
    <3>3. kept \in Seq(Range(kept))
      BY <3>2 DEF Range
    <3>4. Shape' /\ Advances
      BY <1>1, <1>2, <3>1, <3>3 DEF Shape, Row, Advances, Ordering, Earlier
    <3>5. ASSUME NEW rec, Sound(rec), rec.tree.digest # d PROVE Sound(rec)'
      <4>1. FailedOn(rec.tree.digest)' = FailedOn(rec.tree.digest)
        BY <2>2, <3>5 DEF FailedOn
      <4> QED
        BY <1>4, <3>5, <4>1, PassesStay DEF Sound
    <3>6. LedgerSound'
      <4>1. OneRecordEach(ledger.records)'
        BY <3>1, <3>2 DEF OneRecordEach
      <4>2. ASSUME NEW i \in DOMAIN ledger'.records PROVE Sound(ledger.records[i])'
        <5>1. PICK m \in DOMAIN ledger.records : /\ ledger'.records[i] = ledger.records[m]
                                                 /\ ledger.records[m].tree.digest # d
          BY <3>1, <3>2
        <5>2. Sound(ledger.records[m])
          BY DEF IInv, LedgerSound
        <5> PICK rec : rec = ledger.records[m]
          OBVIOUS
        <5>3. Sound(rec)'
          BY <3>5, <5>1, <5>2
        <5> QED
          BY <5>1, <5>3 DEF Sound
      <4> QED
        BY <4>1, <4>2 DEF LedgerSound
    <3> QED
      BY <2>2, <3>4, <3>6
  <2> QED
    BY <1>1, <2>1, <2>2
<1>6. Baselines'
  BY <1>1, <1>4, PassesStay DEF IInv, Baselines
<1>7. Compares(r)' /\ Outcomes(r)'
  BY <1>1, <1>2, <1>3, <1>4 DEF RunOK, Compares, Outcomes, Settled
<1>8. Tokens(r)'
  BY <1>2, <1>3, <1>4, <1>5, TokensStay DEF RunOK
<1>9. RunOK(r)'
  BY <1>3, <1>4, <1>5, <1>7, <1>8, ReadsStay DEF RunOK
<1>10. \A g \in Runs \ {r} : RunOK(g)'
  BY <1>2, <1>4, <1>5, OthersStay DEF Row
<1> QED
  BY <1>5, <1>6, <1>9, <1>10 DEF IInv

LEMMA CommitKeeps == ASSUME IInv, NEW r \in Runs, Commit(r) PROVE IInv'
<1>1. /\ UNCHANGED <<ledger, withdrawn>> /\ run[r].pc = "commit"
      /\ baseline' = IF Green(r) /\ ~Native THEN [baseline EXCEPT ![CheckoutOf[r]] = Result(r)] ELSE baseline
  BY DEF Commit, World
<1>2. /\ Row(r) /\ Leaves(r, Fields \ {"pc"}) /\ run'[r].pc \in {"feed", "leave"}
      /\ run'[r].pc = "feed" => Green(r)
  BY DEF Commit, Go, IInv, Shape, Fields, Row, Leaves
<1>3. /\ Leaves(r, {"base", "found", "known"}) /\ run'[r].passed = run[r].passed
      /\ run'[r].status = run[r].status
      /\ run'[r].token = run[r].token /\ run'[r].before = run[r].before /\ run'[r].began = run[r].began
  BY <1>2 DEF Leaves, Fields
<1>4. RunOK(r) /\ \A g \in Runs : Steady(g)
  BY <1>2, <1>3 DEF IInv, Row, Steady
<1>5. Shape' /\ Advances
  BY <1>1, <1>2 DEF IInv, Shape, Row, Advances, Ordering
<1>6. LedgerSound'
  BY <1>1, <1>4, PassesStay DEF IInv, LedgerSound, Sound, FailedOn
<1>7. Baselines'
  <2>1. Green(r) => PassedOn(r, run[r].before)
    BY <1>1, <1>4 DEF RunOK, Outcomes, Green, PassedOn
  <2>2. ASSUME NEW c \in Checkouts, baseline'[c] # None
        PROVE  PassedOn(baseline'[c].run, baseline'[c].tree)
    <3>1. CASE baseline'[c] = baseline[c]
      BY <2>2, <3>1 DEF IInv, Baselines
    <3>2. CASE baseline'[c] # baseline[c]
      <4>1. Green(r) /\ baseline'[c] = Result(r)
        BY <1>1, <3>2 DEF IInv, Shape
      <4> QED
        BY <2>1, <4>1 DEF Result
    <3> QED
      BY <3>1, <3>2
  <2> QED
    BY <1>4, <2>2, PassesStay DEF Baselines
<1>8. Compares(r)' /\ Outcomes(r)'
  BY <1>1, <1>2, <1>3, <1>4 DEF RunOK, Compares, Outcomes, Green, Settled
<1>9. RunOK(r)'
  BY <1>1, <1>3, <1>4, <1>5, <1>8, ReadsStay, TokensStay DEF IInv, RunOK
<1>10. \A g \in Runs \ {r} : RunOK(g)'
  BY <1>1, <1>2, <1>4, <1>5, OthersStay DEF Row
<1> QED
  BY <1>5, <1>6, <1>7, <1>9, <1>10 DEF IInv

\* The earlier record of the tree a run is about to record, if there is one.
LEMMA KeptIsOfTree ==
  ASSUME Shape, NEW r, Kept(r) # 0
  PROVE  Kept(r) \in DOMAIN ledger.records /\ ledger.records[Kept(r)].tree.digest = run[r].before.digest
<1> DEFINE I == {i \in 1..Len(ledger.records) : ledger.records[i].tree.digest = run[r].before.digest}
<1>1. Kept(r) = IF I # {} THEN Min(I) ELSE 0
  BY DEF Kept, SelectInSeq
<1>2. I # {} /\ Kept(r) = Min(I)
  BY <1>1
<1>3. I \in SUBSET Nat /\ DOMAIN ledger.records = 1..Len(ledger.records)
  BY DEF Shape
<1>4. \E n \in I : \A m \in I : n <= m
  BY <1>2, <1>3, LeastNat
<1> HIDE DEF I
<1>5. Min(I) \in I
  BY <1>4 DEF Min
<1> QED
  BY <1>2, <1>3, <1>5 DEF I

\* An authorised token was taken after every withdrawal.
LEMMA AuthorisedIsFresh ==
  ASSUME Shape, NEW r, Tokens(r), Authorised(r) PROVE run[r].began = withdrawn
BY DEF Tokens, Authorised, Earlier, Ordering, Shape

\* The record a green run leaves is sound.
LEMMA NewRecordSound ==
  ASSUME IInv, NEW r \in Runs, run[r].pc = "feed", Authorised(r)
  PROVE  Sound([run |-> r, tree |-> run[r].before, checkout |-> CheckoutOf[r], coverage |-> Proof(r)])
<1> DEFINE rec == [run |-> r, tree |-> run[r].before, checkout |-> CheckoutOf[r], coverage |-> Proof(r)]
<1>1. RunOK(r) /\ Shape
  BY DEF IInv
<1>2. PassedOn(r, run[r].before)
  BY <1>1 DEF RunOK, Outcomes, Green, PassedOn
<1>3. run[r].began = withdrawn
  BY <1>1, AuthorisedIsFresh DEF RunOK
<1>4. ASSUME Proof(r) # None
      PROVE  \E h \in Covered : /\ Measures(h, run[r].before.digest)
                                /\ FailedOn(run[r].before.digest) \subseteq run[h].began
  <2>1. CASE r \in Covered
    BY <1>2, <1>3, <2>1 DEF PassedOn, Measures, FailedOn
  <2>2. CASE r \notin Covered
    <3>1. Kept(r) # 0 /\ Proof(r) = ledger.records[Kept(r)].coverage
      BY <1>4, <2>2 DEF Proof, Coverage
    <3>2. /\ Kept(r) \in DOMAIN ledger.records
          /\ ledger.records[Kept(r)].tree.digest = run[r].before.digest
      BY <1>1, <3>1, KeptIsOfTree
    <3>3. Sound(ledger.records[Kept(r)])
      BY <3>2 DEF IInv, LedgerSound
    <3> QED
      BY <1>4, <3>1, <3>2, <3>3 DEF Sound
  <2> QED
    BY <2>1, <2>2
<1>5. FailedOn(run[r].before.digest) \subseteq run[r].began
  BY <1>3 DEF FailedOn
<1>6. rec.run = r /\ rec.tree = run[r].before /\ rec.coverage = Proof(r)
  OBVIOUS
<1> HIDE DEF rec
<1>7. Sound(rec)
  BY <1>2, <1>4, <1>5, <1>6 DEF Sound
<1> QED
  BY <1>7 DEF rec

\* Recording a sound record keeps one record of each tree, each sound.
LEMMA RecordedKeeps ==
  ASSUME ConstantsMakeSense, IInv, NEW r \in Runs, run[r].pc = "feed", Authorised(r)
  PROVE  /\ Recorded(r).records \in Seq(Range(Recorded(r).records))
         /\ OneRecordEach(Recorded(r).records)
         /\ \A i \in DOMAIN Recorded(r).records : Sound(Recorded(r).records[i])
         /\ DOMAIN Recorded(r) = DOMAIN ledger
         /\ Recorded(r).incarnation = ledger.incarnation /\ Recorded(r).generation = ledger.generation
<1> DEFINE d == run[r].before.digest
           rec == [run |-> r, tree |-> run[r].before, checkout |-> CheckoutOf[r], coverage |-> Proof(r)]
           kept == Without(ledger.records, d)
           all == <<rec>> \o kept
           n == Min({MaxRecords, Len(all)})
<1>1. Recorded(r) = [ledger EXCEPT !.records = SubSeq(all, 1, n)]
  BY DEF Recorded
<1>2. Shape /\ OneRecordEach(ledger.records)
  BY DEF IInv, LedgerSound
<1>3. Sound(rec) /\ rec.tree.digest = d
  BY NewRecordSound
<1>4. /\ kept \in Seq(Range(ledger.records)) /\ OneRecordEach(kept)
      /\ \A k \in DOMAIN kept : \E m \in DOMAIN ledger.records :
           kept[k] = ledger.records[m] /\ ledger.records[m].tree.digest # d
  BY <1>2, WithoutKeeps DEF Shape
<1> HIDE DEF d, rec, kept, n
<1>5. \A k \in DOMAIN kept : Sound(kept[k]) /\ kept[k].tree.digest # d
  BY <1>4 DEF IInv, LedgerSound
<1>6. /\ Len(kept) \in Nat /\ DOMAIN kept = 1..Len(kept)
      /\ all \in Seq(Range(ledger.records) \union {rec}) /\ Len(all) = Len(kept) + 1
      /\ DOMAIN all = 1..(Len(kept) + 1) /\ all[1] = rec
      /\ \A k \in 2..(Len(kept) + 1) : all[k] = kept[k - 1] /\ k - 1 \in DOMAIN kept
  BY <1>4
<1> HIDE DEF all
<1>7. all \in Seq(Range(all))
  BY <1>6 DEF Range
<1>8. \A k \in DOMAIN all : Sound(all[k])
  <2> SUFFICES ASSUME NEW k \in DOMAIN all PROVE Sound(all[k])
    OBVIOUS
  <2>1. k = 1 \/ k \in 2..(Len(kept) + 1)
    BY <1>6
  <2> QED
    BY <1>3, <1>5, <1>6, <2>1
<1>9. OneRecordEach(all)
  <2> SUFFICES ASSUME NEW i \in DOMAIN all, NEW j \in DOMAIN all, all[i].tree.digest = all[j].tree.digest
               PROVE  i = j
    BY DEF OneRecordEach
  <2>1. (i = 1 \/ i \in 2..(Len(kept) + 1)) /\ (j = 1 \/ j \in 2..(Len(kept) + 1))
    BY <1>6
  <2>2. CASE i = 1 \/ j = 1
    BY <1>3, <1>5, <1>6, <2>1, <2>2
  <2>3. CASE i # 1 /\ j # 1
    <3>1. i - 1 \in DOMAIN kept /\ j - 1 \in DOMAIN kept /\ kept[i - 1].tree.digest = kept[j - 1].tree.digest
      BY <1>6, <2>1, <2>3
    <3>2. i - 1 = j - 1
      BY <1>4, <3>1 DEF OneRecordEach
    <3> QED
      BY <1>6, <3>2
  <2> QED
    BY <2>2, <2>3
<1>10. n \in Nat /\ n <= Len(all)
  BY <1>6, MinOfTwo DEF ConstantsMakeSense, n
<1> DEFINE cut == SubSeq(all, 1, n)
<1>11. /\ cut \in Seq(Range(cut)) /\ OneRecordEach(cut)
       /\ \A k \in DOMAIN cut : k \in DOMAIN all /\ cut[k] = all[k]
  BY <1>7, <1>9, <1>10, CutKeeps
<1> HIDE DEF cut
<1>12. /\ Recorded(r).records = cut /\ DOMAIN Recorded(r) = DOMAIN ledger
       /\ Recorded(r).incarnation = ledger.incarnation /\ Recorded(r).generation = ledger.generation
  BY <1>1, <1>2 DEF Shape, cut
<1> QED
  BY <1>8, <1>11, <1>12

LEMMA FeedKeeps == ASSUME ConstantsMakeSense, IInv, NEW r \in Runs, Feed(r) PROVE IInv'
<1>1. /\ UNCHANGED <<withdrawn, baseline>> /\ Go(r, "leave") /\ run[r].pc = "feed"
      /\ UNCHANGED ledger \/ (Authorised(r) /\ ledger' = Recorded(r))
  BY DEF Feed, World, History
<1>2. Row(r) /\ run'[r].pc = "leave" /\ Leaves(r, Fields \ {"pc"}) /\ Shape
  BY <1>1, GoesOn DEF IInv
<1>3. /\ Leaves(r, {"base", "found", "known"}) /\ run'[r].passed = run[r].passed
      /\ run'[r].token = run[r].token /\ run'[r].before = run[r].before /\ run'[r].began = run[r].began
  BY <1>2 DEF Leaves, Fields
<1>4. RunOK(r) /\ \A g \in Runs : Steady(g)
  BY <1>2, <1>3 DEF IInv, Row, Steady
<1>5. ASSUME NEW rec, Sound(rec) PROVE Sound(rec)'
  BY <1>1, <1>4, <1>5, PassesStay DEF Sound, FailedOn
<1>6. Shape' /\ Advances /\ LedgerSound'
  <2>1. CASE UNCHANGED ledger
    <3>1. Shape' /\ Advances
      BY <1>1, <1>2, <2>1, RowsStay DEF Advances, Ordering
    <3>2. LedgerSound'
      BY <1>1, <1>4, <2>1, PassesStay DEF IInv, LedgerSound, Sound, FailedOn
    <3> QED
      BY <3>1, <3>2
  <2>2. CASE Authorised(r) /\ ledger' = Recorded(r)
    <3>1. /\ ledger'.records \in Seq(Range(ledger'.records))
          /\ OneRecordEach(ledger'.records)
          /\ \A i \in DOMAIN ledger'.records : Sound(ledger'.records[i])
          /\ DOMAIN ledger' = DOMAIN ledger
          /\ ledger'.incarnation = ledger.incarnation /\ ledger'.generation = ledger.generation
      BY <1>1, <2>2, RecordedKeeps
    <3>2. Shape' /\ Advances
      BY <1>1, <1>2, <3>1 DEF Shape, Row, Advances, Ordering
    <3>3. ASSUME NEW i \in DOMAIN ledger'.records PROVE Sound(ledger.records[i])'
      <4> PICK rec : rec = ledger'.records[i]
        OBVIOUS
      <4>1. Sound(rec)'
        BY <1>5, <3>1
      <4> QED
        BY <4>1 DEF Sound
    <3>4. LedgerSound'
      BY <3>1, <3>3 DEF LedgerSound, OneRecordEach
    <3> QED
      BY <3>2, <3>4
  <2> QED
    BY <1>1, <2>1, <2>2
<1>7. Baselines'
  BY <1>1, <1>4, PassesStay DEF IInv, Baselines
<1>8. Compares(r)' /\ Outcomes(r)'
  BY <1>1, <1>2, <1>3, <1>4 DEF RunOK, Compares, Outcomes, Settled
<1>9. RunOK(r)'
  BY <1>1, <1>2, <1>3, <1>4, <1>6, <1>8, ReadsStay, TokensStay DEF RunOK
<1>10. \A g \in Runs \ {r} : RunOK(g)'
  BY <1>1, <1>2, <1>4, <1>6, OthersStay DEF Row
<1> QED
  BY <1>6, <1>7, <1>9, <1>10 DEF IInv

\* Edits, damage to the ledger and steps of nothing at all.
LEMMA WorldKeeps ==
  ASSUME IInv, (\E c \in Checkouts : Edit(c)) \/ Damage \/ UNCHANGED vars
  PROVE  IInv'
<1>1. /\ UNCHANGED <<run, withdrawn, baseline>>
      /\ UNCHANGED ledger \/ ledger' = [ledger EXCEPT !.readable = FALSE]
  BY DEF Edit, Damage, World, History, vars
<1>2. /\ ledger'.records = ledger.records /\ ledger'.incarnation = ledger.incarnation
      /\ ledger'.generation = ledger.generation /\ DOMAIN ledger' = DOMAIN ledger
  BY <1>1 DEF IInv, Shape
<1>3. \A g \in Runs : Steady(g)
  BY <1>1 DEF Steady
<1>4. Shape' /\ Advances
  BY <1>1, <1>2 DEF IInv, Shape, Advances, Ordering
<1>5. LedgerSound'
  BY <1>1, <1>2, <1>3, PassesStay DEF IInv, LedgerSound, OneRecordEach, Sound, FailedOn
<1>6. Baselines'
  BY <1>1, <1>3, PassesStay DEF IInv, Baselines
<1>7. \A g \in Runs : RunOK(g)'
  BY <1>1, <1>3, <1>4, OthersStay
<1> QED
  BY <1>4, <1>5, <1>6, <1>7 DEF IInv

LEMMA Stepwise == ASSUME ConstantsMakeSense PROVE IInv /\ [Next]_vars => IInv'
<1> SUFFICES ASSUME IInv, [Next]_vars PROVE IInv'
  OBVIOUS
<1>1. ASSUME NEW r \in Runs, Gating(r) PROVE IInv'
  BY <1>1, StartKeeps, CompareOwnKeeps, CheckLatestKeeps, CheckProofKeeps, FindKeeps, MatchKeeps,
     RefuseKeeps, PlainStepsKeep DEF Gating
<1>2. ASSUME NEW r \in Runs, Coalescing(r) PROVE IInv'
  BY <1>2, PlainStepsKeep DEF Coalescing
<1>3. ASSUME NEW r \in Runs, Running(r) PROVE IInv'
  BY <1>3, AdmitKeeps, GateKeeps, ExecuteKeeps, RecaptureKeeps, WithdrawKeeps, CommitKeeps, FeedKeeps,
     PlainStepsKeep DEF Running
<1>4. ASSUME NEW r \in Runs, QueueTimesOut(r) \/ CommitFails(r) \/ Crash(r) PROVE IInv'
  BY <1>4, PlainStepsKeep
<1> QED
  BY <1>1, <1>2, <1>3, <1>4, WorldKeeps DEF Next

LEMMA Initially == Init => IInv
<1> SUFFICES ASSUME Init PROVE IInv
  OBVIOUS
<1>1. DOMAIN Blank = Fields /\ Blank.pc = "new" /\ Blank.base = None /\ Blank.found = {} /\ Blank.known = {}
  BY DEF Blank, Fields
<1>2. ~ Blank.passed /\ Blank.token = None
  BY DEF Blank
<1>3. run = [r \in Runs |-> Blank] /\ \A g \in Runs : run[g] = Blank
  BY DEF Init
<1>4. /\ ledger.incarnation = 0 /\ ledger.generation = 0 /\ ledger.records = << >>
      /\ DOMAIN ledger = {"incarnation", "generation", "records", "readable"}
      /\ baseline = [c \in Checkouts |-> None] /\ withdrawn = {}
  BY DEF Init
<1> HIDE DEF Blank
<1>5. Shape
  BY <1>1, <1>3, <1>4 DEF Shape
<1>6. LedgerSound /\ Baselines
  BY <1>4 DEF LedgerSound, OneRecordEach, Baselines
<1>7. \A g \in Runs : RunOK(g)
  BY <1>1, <1>2, <1>3, <1>4 DEF RunOK, Reads, Compares, Outcomes, Tokens
<1> QED
  BY <1>5, <1>6, <1>7 DEF IInv

LEMMA Invariance == ASSUME ConstantsMakeSense PROVE Spec => []IInv
<1>1. Init => IInv
  BY Initially
<1>2. IInv /\ [Next]_vars => IInv'
  BY Stepwise
<1> QED
  BY <1>1, <1>2, PTL DEF Spec

----------------------------------------------------------------------------
(* Skips.                                                                   *)

\* Only a skip skips.
LEMMA OnlySkipSkips ==
  ASSUME Shape, [Next]_vars, NEW r \in Runs, SkippedNow(r) PROVE Skip(r)
<1> DEFINE Quiet == run'[r].verdict \in {run[r].verdict, "joined", "ran"}
<1>1. ~ Quiet /\ run' # run
  BY DEF SkippedNow
<1> HIDE DEF Quiet
<1>2. ASSUME NEW q \in Runs, NEW pc, Go(q, pc) PROVE Quiet
  BY <1>2 DEF Go, Shape, Fields, Quiet
<1>3. ASSUME NEW q \in Runs, Gating(q) PROVE Skip(r)
  <2>1. CASE Start(q) \/ CompareOwn(q)
    BY <1>1, <2>1 DEF Start, CompareOwn, Shape, Fields, Quiet
  <2>2. CASE CheckLatest(q)
    <3>1. Quiet
      BY <2>2 DEF CheckLatest, Go, Shape, Fields, Quiet
    <3> QED
      BY <1>1, <3>1
  <2>3. CASE CheckProof(q)
    <3>1. Quiet
      BY <2>3 DEF CheckProof, Go, Shape, Fields, Quiet
    <3> QED
      BY <1>1, <3>1
  <2>4. CASE Find(q) \/ Match(q)
    <3>1. Find(q) => Row(q) /\ Leaves(q, Fields \ {"pc", "found"})
      BY DEF Find, Shape, Fields, Row, Leaves
    <3>2. Match(q) => Row(q) /\ Leaves(q, Fields \ {"pc", "found", "snap"})
      BY DEF Match, Shape, Fields, Row, Leaves
    <3>3. Quiet
      BY <2>4, <3>1, <3>2 DEF Row, Leaves, Fields, Quiet
    <3> QED
      BY <1>1, <3>3
  <2>5. CASE Refuse(q)
    <3>1. \E pc, by : run' = [run EXCEPT ![q].pc = pc, ![q].by = by]
      BY <2>5 DEF Refuse
    <3> QED
      BY <1>1, <3>1 DEF Shape, Fields, Quiet
  <2>6. CASE Skip(q)
    <3>1. q # r => run'[r] = run[r]
      BY <2>6 DEF Skip, Shape
    <3> QED
      BY <1>1, <2>6, <3>1 DEF Quiet
  <2> QED
    BY <1>3, <2>1, <2>2, <2>3, <2>4, <2>5, <2>6 DEF Gating
<1>4. ASSUME NEW q \in Runs, Coalescing(q) PROVE Quiet
  <2>1. CASE Capture(q) \/ Look(q)
    <3>1. Capture(q) => Row(q) /\ Leaves(q, Fields \ {"pc", "snap"})
      BY DEF Capture, Shape, Fields, Row, Leaves
    <3>2. ASSUME NEW live, NEW pc, run' = [run EXCEPT ![q].live = live, ![q].pc = pc] PROVE Quiet
      BY <3>2 DEF Shape, Fields, Quiet
    <3>3. CASE Look(q)
      BY <3>2, <3>3 DEF Look
    <3> QED
      BY <2>1, <3>1, <3>3 DEF Row, Leaves, Fields, Quiet
  <2>2. CASE Claim(q)
    <3>1. CASE lease[CheckoutOf[q]] = None
      BY <2>2, <3>1 DEF Claim, Shape, Fields, Quiet
    <3>2. CASE lease[CheckoutOf[q]] # None
      <4>1. Go(q, "look") \/ Go(q, "queue")
        BY <2>2, <3>2 DEF Claim
      <4> QED
        BY <1>2, <4>1
    <3> QED
      BY <3>1, <3>2
  <2>3. CASE ReadDead(q) \/ UnlinkDead(q) \/ PollLease(q)
    <3>1. Go(q, "unlink dead") \/ Go(q, "reclaim") \/ Go(q, "poll") \/ Go(q, "queue")
      BY <2>3 DEF ReadDead, UnlinkDead, PollLease
    <3> QED
      BY <1>2, <3>1
  <2>4. CASE PollVerdict(q)
    <3>1. CASE Published(CheckoutOf[q], run[q].live.run) # {}
      BY <2>4, <3>1 DEF PollVerdict, Shape, Fields, Quiet
    <3>2. CASE Published(CheckoutOf[q], run[q].live.run) = {}
      <4>1. Go(q, "poll lease")
        BY <2>4, <3>2 DEF PollVerdict
      <4> QED
        BY <1>2, <4>1
    <3> QED
      BY <3>1, <3>2
  <2> QED
    BY <1>4, <2>1, <2>2, <2>3, <2>4 DEF Coalescing
<1>5. ASSUME NEW q \in Runs, Running(q) PROVE Quiet
  <2>1. CASE Admit(q) \/ Execute(q) \/ Recapture(q)
    BY <2>1 DEF Admit, Execute, Recapture, Shape, Fields, Quiet
  <2>2. CASE Gate(q)
    BY <2>2 DEF Gate, Shape, Fields, Quiet
  <2>3. CASE Withdraw(q) \/ Commit(q) \/ Feed(q) \/ Release(q) \/ Unlink(q)
    <3>1. \/ Go(q, "commit") \/ Go(q, "feed") \/ Go(q, "leave") \/ Go(q, "unlink") \/ Go(q, "done")
      BY <2>3 DEF Withdraw, Commit, Feed, Release, Unlink
    <3> QED
      BY <1>2, <3>1
  <2>4. CASE Leave(q)
    BY <2>4 DEF Leave, Shape, Fields, Quiet
  <2> QED
    BY <1>5, <2>1, <2>2, <2>3, <2>4 DEF Running
<1>6. ASSUME NEW q \in Runs, QueueTimesOut(q) \/ CommitFails(q) \/ Crash(q) PROVE Quiet
  <2>1. Go(q, "queue") \/ Go(q, "leave") \/ Go(q, "dead")
    BY <1>6 DEF QueueTimesOut, CommitFails, Crash
  <2> QED
    BY <1>2, <2>1
<1>7. ~ ((\E c \in Checkouts : Edit(c)) \/ Damage \/ UNCHANGED vars)
  BY <1>1 DEF Edit, Damage, vars
<1> QED
  BY <1>1, <1>3, <1>4, <1>5, <1>6, <1>7 DEF Next

\* What a gate that skips has behind it.
LEMMA SkipBackedStep ==
  ASSUME IInv, NEW r \in Runs, Skip(r), SkippedNow(r)
  PROVE  LET g == run'[r].by IN
         /\ run[g].passed /\ run[g].before.clean
         /\ Verifies(run[g].before, run[r].snap)
         /\ r \in Covered => Measured(run[r].snap.digest)
         /\ run[r].pc = "skip found" =>
              \A w \in run[r].known : w.digest = run[r].snap.digest => w \in run[g].began
<1>1. RunOK(r) /\ DOMAIN run = Runs /\ DOMAIN run[r] = Fields
  BY DEF IInv, Shape
<1>2. /\ run[r].pc \in {"skip own", "skip found"}
      /\ run'[r].by = IF run[r].pc = "skip own" THEN run[r].base.run ELSE run[r].by
  BY <1>1 DEF Skip, Fields
<1>3. CASE run[r].pc = "skip own"
  <2>1. /\ run[r].base # None /\ Verifies(run[r].base.tree, run[r].snap)
        /\ r \in Covered => Measured(run[r].snap.digest)
    BY <1>1, <1>3 DEF RunOK, Compares
  <2>2. PassedOn(run[r].base.run, run[r].base.tree)
    BY <1>1, <2>1 DEF RunOK, Reads
  <2> QED
    BY <1>2, <1>3, <2>1, <2>2 DEF PassedOn
<1>4. CASE run[r].pc = "skip found"
  <2>1. PICK rec \in run[r].found : rec.run = run[r].by /\ Verifies(rec.tree, run[r].snap)
    BY <1>1, <1>4 DEF RunOK, Compares
  <2>2. Heeds(r, rec)
    BY <1>1 DEF RunOK, Reads
  <2>3. rec.tree.digest = run[r].snap.digest
    BY <2>1 DEF Verifies
  <2> QED
    BY <1>2, <1>4, <2>1, <2>2, <2>3 DEF Heeds, PassedOn
<1> QED
  BY <1>2, <1>3, <1>4

----------------------------------------------------------------------------
(* The theorems.                                                            *)

\* A record's run began after every withdrawal of its tree, so no pass that a
\* failure has contradicted is in the ledger or returns to it.
THEOREM LedgerHeedsFailures == ASSUME ConstantsMakeSense PROVE Spec => []NoStaleGreen
<1>1. IInv => NoStaleGreen
  BY DEF IInv, LedgerSound, Sound, NoStaleGreen, InLedger
<1> QED
  BY <1>1, Invariance, PTL

\* A tree has one record, and the coverage it claims was measured on that tree
\* by a green run no failure has contradicted.
THEOREM LedgerIsMeasured == ASSUME ConstantsMakeSense PROVE Spec => []ProofMeasured
<1>1. IInv => ProofMeasured
  BY DEF IInv, LedgerSound, OneRecordEach, Sound, Measures, ProofMeasured, InLedger
<1> QED
  BY <1>1, Invariance, PTL

\* A gate is skipped only for a source on which a full run has passed from
\* beginning to end and, with --cov, one was measured; and a record another
\* checkout left is not reused once a failure on that tree was known.
THEOREM SkipsAreBacked == ASSUME ConstantsMakeSense PROVE Spec => SkipIsBacked
<1>1. IInv /\ [Next]_vars => SkipBacked /\ SharedSkipHeeds
  <2> SUFFICES ASSUME IInv, [Next]_vars, NEW r \in Runs, SkippedNow(r)
               PROVE  LET g == run'[r].by IN
                      /\ run[g].passed /\ run[g].before.clean
                      /\ run[g].before.digest = run[r].snap.digest
                      /\ IF Child THEN run[g].before.shared = run[r].snap.shared
                         ELSE run[g].before.head = run[r].snap.head
                      /\ r \in Covered =>
                           \E h \in Covered : run[h].passed /\ run[h].before.digest = run[r].snap.digest
                      /\ run[r].pc = "skip found" =>
                           \A w \in run[r].known : w.digest = run[r].snap.digest => w \in run[g].began
    BY DEF SkipBacked, SharedSkipHeeds
  <2>1. Skip(r)
    BY OnlySkipSkips DEF IInv
  <2> QED
    BY <2>1, SkipBackedStep DEF Verifies, Measured, Measures
<1>2. Spec => []IInv
  BY Invariance
<1>3. [][SkipBacked /\ SharedSkipHeeds]_vars <=> SkipIsBacked
  BY DEF SkipIsBacked
<1> QED
  BY <1>1, <1>2, <1>3, PTL DEF Spec

=============================================================================
