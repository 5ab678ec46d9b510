------------------------------ MODULE FullGate ------------------------------
(***************************************************************************)
(* How a full gate avoids work that is done: the skip (this checkout's     *)
(* baseline, or another checkout's record in the project's ledger of green *)
(* trees, already verifies the source), the join (a running full gate on   *)
(* the same source is waited for) and the run itself, whose verdict feeds  *)
(* both.  History publication is History's; here it is one summary per     *)
(* run and the baseline a clean pass becomes.                              *)
(*                                                                         *)
(* A tree is the source a checkout holds: its commit, its digest (with the *)
(* configuration, the policy and the runner identity), the files shared    *)
(* with the rest of a monorepo, and whether Git calls it clean.            *)
(***************************************************************************)
EXTENDS Integers, SequencesExt, FiniteSetsExt

CONSTANTS
  Runs, Checkouts,
  CheckoutOf,    \* the checkout of each run
  Again,         \* the runs with --again
  Covered,       \* the runs with --cov
  Native,        \* the runner is Vitest: command proofs, no baselines
  Child,         \* the checkout is a declared child of a monorepo
  Trees, StartTree,
  MaxRecords,    \* verified.MAX_RECORDS
  MaxEdits,      \* bound: edits of all checkouts together
  Faults,        \* bound: crash, damage (of the ledger), uncommitted
  None

VARIABLES
  tree,          \* the source of each checkout
  edits,
  ledger,        \* verified.json: incarnation, generation, records; readable
  summaries,     \* each checkout's committed full runs, newest first
  baseline,      \* each checkout's baseline: a run's result, or None
  lease,         \* each checkout's full-lease.json, or None
  running,       \* the run a checkout has admitted, or None
  run,           \* the runs
  withdrawn      \* withdrawals so far: [by, digest] (never read by the program)

ConstantsMakeSense ==
  /\ "cov" # None /\ MaxRecords \in Nat
  /\ \A r \in Runs : CheckoutOf[r] \in Checkouts

vars == <<tree, edits, ledger, summaries, baseline, lease, running, run, withdrawn>>

Here(r) == tree[CheckoutOf[r]]
Coverage(r) == IF r \in Covered THEN "cov" ELSE None
Go(r, pc) == run' = [run EXCEPT ![r].pc = pc]
Alive(r) == run[r].pc \notin {"done", "dead"}

Blank ==
  [pc |-> "new", base |-> None, found |-> {}, snap |-> None, live |-> None,
   claimed |-> FALSE, before |-> None, token |-> None, passed |-> FALSE,
   status |-> "none", verdict |-> "none", by |-> None, known |-> {}, began |-> {}]

Init ==
  /\ tree = StartTree /\ edits = 0
  /\ ledger = [incarnation |-> 0, generation |-> 0, records |-> <<>>, readable |-> TRUE]
  /\ summaries = [c \in Checkouts |-> <<>>] /\ baseline = [c \in Checkouts |-> None]
  /\ lease = [c \in Checkouts |-> None] /\ running = [c \in Checkouts |-> None]
  /\ run = [r \in Runs |-> Blank] /\ withdrawn = {}

History == <<summaries, baseline>>
World == <<tree, edits, withdrawn>>

----------------------------------------------------------------------------
(* The skip.                                                                *)

\* Outside a monorepo the commit must be the same; a child's digest covers
\* the child, and what it shares with the rest must not have changed.
\* Mutant: a child's skip does not look at the shared files.
VerifiesDigest(then, now) == now.clean /\ now.digest = then.digest /\ (Child \/ now.head = then.head)
Verifies(then, now) ==
  /\ now.clean /\ now.digest = then.digest
  /\ IF Child THEN now.shared = then.shared ELSE now.head = then.head

Start(r) ==
  /\ run[r].pc = "new"
  /\ run' = [run EXCEPT ![r].pc = IF r \in Again THEN "capture" ELSE "own",
                        ![r].base = IF r \in Again THEN None ELSE baseline[CheckoutOf[r]],
                        ![r].known = withdrawn]
  /\ UNCHANGED <<World, History, ledger, lease, running>>

CompareOwn(r) ==
  /\ run[r].pc = "own"
  /\ run' = [run EXCEPT
       ![r].pc = IF run[r].base # None /\ Verifies(run[r].base.tree, Here(r))
                 THEN "latest" ELSE "find",
       ![r].snap = Here(r)]
  /\ UNCHANGED <<World, History, ledger, lease, running>>

\* The newest full run of this checkout must be the baseline's own pass.
Latest(c) == IF summaries[c] = <<>> THEN None ELSE summaries[c][1]
LatestIsBaseline(r) ==
  LET s == Latest(CheckoutOf[r]) IN s # None /\ s.status = "passed" /\ s.run = run[r].base.run

CheckLatest(r) ==
  /\ run[r].pc = "latest"
  /\ Go(r, IF ~LatestIsBaseline(r) THEN "find" ELSE IF r \in Covered THEN "proof" ELSE "skip own")
  /\ UNCHANGED <<World, History, ledger, lease, running>>

Records == IF ledger.readable THEN ledger.records ELSE <<>>

\* With --cov this very tree must have been measured by this checkout.
CheckProof(r) ==
  /\ run[r].pc = "proof"
  /\ Go(r, IF \E i \in DOMAIN Records : /\ Records[i].checkout = CheckoutOf[r]
                                        /\ Records[i].tree.digest = run[r].base.tree.digest
                                        /\ Records[i].coverage = Coverage(r)
           THEN "skip own" ELSE "find")
  /\ UNCHANGED <<World, History, ledger, lease, running>>

Find(r) ==
  /\ run[r].pc = "find"
  /\ LET usable(rec) == /\ Native \/ rec.checkout # CheckoutOf[r]
                        /\ r \in Covered => rec.coverage = Coverage(r)
     IN run' = [run EXCEPT ![r].found = {rec \in Range(Records) : usable(rec)},
                           ![r].pc = "match"]
  /\ UNCHANGED <<World, History, ledger, lease, running>>

Match(r) ==
  /\ run[r].pc = "match"
  /\ LET found == {rec \in run[r].found : Verifies(rec.tree, Here(r))}
     IN run' = [run EXCEPT ![r].found = found, ![r].snap = Here(r),
                           ![r].pc = IF found = {} THEN "capture" ELSE "refused"]
  /\ UNCHANGED <<World, History, ledger, lease, running>>

\* This checkout's newest full run on this very tree did not pass.
RefusedHere(r) ==
  LET s == Latest(CheckoutOf[r])
  IN s # None /\ s.tree.digest = run[r].snap.digest /\ s.status # "passed"

Refuse(r) ==
  /\ run[r].pc = "refused"
  /\ \E rec \in run[r].found :  \* the one: a tree has one record
       run' = [run EXCEPT ![r].pc = IF RefusedHere(r) THEN "capture" ELSE "skip found",
                          ![r].by = rec.run]
  /\ UNCHANGED <<World, History, ledger, lease, running>>

Skip(r) ==
  /\ run[r].pc \in {"skip own", "skip found"}
  /\ run' = [run EXCEPT ![r].pc = "done", ![r].verdict = "skipped", ![r].status = "passed",
                        ![r].by = IF run[r].pc = "skip own" THEN run[r].base.run ELSE @]
  /\ UNCHANGED <<World, History, ledger, lease, running>>

----------------------------------------------------------------------------
(* The lease and the join.                                                  *)

Capture(r) ==
  /\ run[r].pc = "capture"
  /\ run' = [run EXCEPT ![r].pc = "claim", ![r].snap = Here(r)]
  /\ UNCHANGED <<World, History, ledger, lease, running>>

LeaseOf(r) == [run |-> r, digest |-> run[r].snap.digest, coverage |-> Coverage(r)]

Claim(r) ==
  /\ run[r].pc \in {"claim", "reclaim"}
  /\ LET here == CheckoutOf[r] IN
     IF lease[here] = None
     THEN /\ lease' = [lease EXCEPT ![here] = LeaseOf(r)]
          /\ run' = [run EXCEPT ![r].pc = "queue", ![r].claimed = TRUE]
     ELSE /\ Go(r, IF run[r].pc = "claim" THEN "look" ELSE "queue")
          /\ UNCHANGED lease
  /\ UNCHANGED <<World, History, ledger, running>>

Joinable(r, live) ==
  live # None /\ live.digest = run[r].snap.digest /\ live.coverage = Coverage(r)

Look(r) ==
  /\ run[r].pc = "look"
  /\ LET live == lease[CheckoutOf[r]] IN
     run' = [run EXCEPT ![r].live = live,
       ![r].pc = IF ~Joinable(r, live) THEN "queue"
                 ELSE IF Alive(live.run) THEN "poll" ELSE "take over"]
  /\ UNCHANGED <<World, History, ledger, lease, running>>

\* release_full_lease reads the file and then unlinks it, whoever's it is.
Names(c, r) == lease[c] # None /\ lease[c].run = r

ReadDead(r) ==
  /\ run[r].pc = "take over"
  /\ Go(r, IF Names(CheckoutOf[r], run[r].live.run) THEN "unlink dead" ELSE "reclaim")
  /\ UNCHANGED <<World, History, ledger, lease, running>>

UnlinkDead(r) ==
  /\ run[r].pc = "unlink dead" /\ Go(r, "reclaim")
  /\ lease' = [lease EXCEPT ![CheckoutOf[r]] = None]
  /\ UNCHANGED <<World, History, ledger, running>>

Published(c, r) == {i \in DOMAIN summaries[c] : summaries[c][i].run = r}

PollVerdict(r) ==
  /\ run[r].pc = "poll"
  /\ LET here == CheckoutOf[r] IN
     IF Published(here, run[r].live.run) # {}
     THEN run' = [run EXCEPT ![r].pc = "done", ![r].verdict = "joined",
                    ![r].by = run[r].live.run,
                    ![r].status = summaries[here][Min(Published(here, run[r].live.run))].status]
     ELSE Go(r, "poll lease")
  /\ UNCHANGED <<World, History, ledger, lease, running>>

\* Mutant: the pid of the lease is not looked at.
StillNamed(r) == Names(CheckoutOf[r], run[r].live.run)
StillLeading(r) == Names(CheckoutOf[r], run[r].live.run) /\ Alive(run[r].live.run)

PollLease(r) ==
  /\ run[r].pc = "poll lease" /\ Go(r, IF StillLeading(r) THEN "poll" ELSE "queue")
  /\ UNCHANGED <<World, History, ledger, lease, running>>

QueueTimesOut(r) ==
  /\ run[r].pc = "poll lease" /\ Go(r, "queue")
  /\ UNCHANGED <<World, History, ledger, lease, running>>

----------------------------------------------------------------------------
(* The run.                                                                 *)

Admit(r) ==
  /\ run[r].pc = "queue" /\ running[CheckoutOf[r]] = None
  /\ running' = [running EXCEPT ![CheckoutOf[r]] = r]
  /\ run' = [run EXCEPT ![r].pc = "gate", ![r].before = Here(r)]
  /\ UNCHANGED <<World, History, ledger, lease>>

\* begin_full: the authority to publish a green, captured before the tests
\* start.  A ledger nobody can read is replaced under a new incarnation.
Begun == IF ledger.readable THEN ledger
         ELSE [incarnation |-> ledger.incarnation + 1, generation |-> 0,
               records |-> <<>>, readable |-> TRUE]
Ordering(l) == <<l.incarnation, l.generation>>

Gate(r) ==
  /\ run[r].pc = "gate" /\ ledger' = Begun
  /\ run' = [run EXCEPT
       ![r].pc = IF Here(r) = run[r].before THEN "execute" ELSE "withdraw",
       ![r].status = IF Here(r) = run[r].before THEN @ ELSE "incomplete",
       ![r].token = [digest |-> Here(r).digest, ordering |-> Ordering(ledger')],
       ![r].began = withdrawn]
  /\ UNCHANGED <<World, History, lease, running>>

Execute(r) ==
  /\ run[r].pc = "execute"
  /\ \E ok \in BOOLEAN : run' = [run EXCEPT ![r].pc = "recapture", ![r].passed = ok]
  /\ UNCHANGED <<World, History, ledger, lease, running>>

Recapture(r) ==
  /\ run[r].pc = "recapture"
  /\ run' = [run EXCEPT ![r].pc = "withdraw",
       ![r].status = IF Here(r) # run[r].before THEN "incomplete"
                     ELSE IF run[r].passed THEN "passed" ELSE "failed"]
  /\ UNCHANGED <<World, History, ledger, lease, running>>

\* The records of other trees.
Without(records, d) ==
  LET kept[i \in 0..Len(records)] ==
        IF i = 0 THEN <<>>
        ELSE IF records[i].tree.digest = d THEN kept[i - 1]
        ELSE Append(kept[i - 1], records[i])
  IN  kept[Len(records)]

\* verified.forget: every record of the tree goes, and every publication begun
\* before is declined from now on.
\* Mutant: the records go, the generation stays.
RecordsDropped(d) ==
  IF ~ledger.readable THEN ledger
  ELSE [ledger EXCEPT !.records = Without(@, d)]
Forgotten(d) ==
  IF ~ledger.readable THEN ledger
  ELSE [ledger EXCEPT !.records = Without(@, d),
                      !.generation = @ + 1]

Withdraw(r) ==
  /\ run[r].pc = "withdraw" /\ Go(r, "commit")
  /\ LET gone == run[r].status # "passed" /\ run[r].before.clean IN
     /\ ledger' = IF gone THEN Forgotten(run[r].before.digest) ELSE ledger
     /\ withdrawn' = IF gone /\ ledger.readable
                     THEN withdrawn \union {[by |-> r, digest |-> run[r].before.digest]}
                     ELSE withdrawn
  /\ UNCHANGED <<tree, edits, History, lease, running>>

Result(r) == [run |-> r, tree |-> run[r].before, status |-> run[r].status]
Green(r) == run[r].status = "passed" /\ run[r].before.clean

Commit(r) ==
  /\ run[r].pc = "commit" /\ Go(r, IF Green(r) THEN "feed" ELSE "leave")
  /\ LET here == CheckoutOf[r] IN
     /\ summaries' = [summaries EXCEPT ![here] = <<Result(r)>> \o @]
     /\ baseline' = IF Green(r) /\ ~Native THEN [baseline EXCEPT ![here] = Result(r)] ELSE baseline
  /\ UNCHANGED <<World, ledger, lease, running>>

CommitFails(r) ==
  /\ "uncommitted" \in Faults /\ run[r].pc = "commit" /\ Go(r, "leave")
  /\ UNCHANGED <<World, History, ledger, lease, running>>

\* record_green: one record per tree, the newest first; a plain green keeps the
\* coverage an earlier green of the same tree had measured.
Kept(r) == SelectInSeq(ledger.records, LAMBDA rec : rec.tree.digest = run[r].before.digest)
\* Mutant: a coverage proof is inherited from whatever record comes first.
AnyProof(r) == IF r \in Covered \/ ledger.records = <<>> THEN Coverage(r) ELSE ledger.records[1].coverage
Proof(r) ==
  IF r \in Covered \/ Kept(r) = 0 THEN Coverage(r) ELSE ledger.records[Kept(r)].coverage

Recorded(r) ==
  LET rec == [run |-> r, tree |-> run[r].before, checkout |-> CheckoutOf[r], coverage |-> Proof(r)]
      all == <<rec>> \o Without(ledger.records, run[r].before.digest)
  IN [ledger EXCEPT !.records = SubSeq(all, 1, Min({MaxRecords, Len(all)}))]

Authorised(r) ==
  /\ ledger.readable /\ run[r].token # None
  /\ run[r].token.digest = run[r].before.digest
  /\ run[r].token.ordering = Ordering(ledger)

Feed(r) ==
  /\ run[r].pc = "feed" /\ Go(r, "leave")
  /\ ledger' = IF Authorised(r) /\ (Native \/ baseline[CheckoutOf[r]].run = r)
               THEN Recorded(r) ELSE ledger
  /\ UNCHANGED <<World, History, lease, running>>

Leave(r) ==
  /\ run[r].pc = "leave"
  /\ running' = [running EXCEPT ![CheckoutOf[r]] = None]
  /\ run' = [run EXCEPT ![r].verdict = "ran",
                        ![r].pc = IF run[r].claimed THEN "release" ELSE "done"]
  /\ UNCHANGED <<World, History, ledger, lease>>

Release(r) ==
  /\ run[r].pc = "release" /\ Go(r, IF Names(CheckoutOf[r], r) THEN "unlink" ELSE "done")
  /\ UNCHANGED <<World, History, ledger, lease, running>>

Unlink(r) ==
  /\ run[r].pc = "unlink" /\ Go(r, "done")
  /\ lease' = [lease EXCEPT ![CheckoutOf[r]] = None]
  /\ UNCHANGED <<World, History, ledger, running>>

----------------------------------------------------------------------------
(* What happens to them.                                                    *)

Crash(r) ==
  /\ "crash" \in Faults /\ Alive(r) /\ run[r].pc # "new" /\ Go(r, "dead")
  /\ running' = [c \in Checkouts |-> IF running[c] = r THEN None ELSE running[c]]
  /\ UNCHANGED <<World, History, ledger, lease>>

Edit(c) ==
  /\ edits < MaxEdits /\ edits' = edits + 1
  /\ \E t \in Trees \ {tree[c]} : tree' = [tree EXCEPT ![c] = t]
  /\ UNCHANGED <<ledger, History, lease, running, run, withdrawn>>

Damage ==
  /\ "damage" \in Faults /\ ledger.readable /\ ledger.incarnation < 1
  /\ ledger' = [ledger EXCEPT !.readable = FALSE]
  /\ UNCHANGED <<World, History, lease, running, run>>

Gating(r) ==
  \/ Start(r) \/ CompareOwn(r) \/ CheckLatest(r) \/ CheckProof(r) \/ Find(r) \/ Match(r)
  \/ Refuse(r) \/ Skip(r)
Coalescing(r) ==
  \/ Capture(r) \/ Claim(r) \/ Look(r) \/ ReadDead(r) \/ UnlinkDead(r) \/ PollVerdict(r)
  \/ PollLease(r)
Running(r) ==
  \/ Admit(r) \/ Gate(r) \/ Execute(r) \/ Recapture(r) \/ Withdraw(r) \/ Commit(r)
  \/ Feed(r) \/ Leave(r) \/ Release(r) \/ Unlink(r)

Next ==
  \/ \E r \in Runs : \/ Gating(r) \/ Coalescing(r) \/ Running(r)
                     \/ QueueTimesOut(r) \/ CommitFails(r) \/ Crash(r)
  \/ \E c \in Checkouts : Edit(c)
  \/ Damage

Spec == Init /\ [][Next]_vars

\* Every process that is alive goes on; nobody has to time out.
Fairness == \A r \in Runs : WF_vars(Gating(r) \/ Coalescing(r) \/ Running(r))
LiveSpec == Spec /\ Fairness

----------------------------------------------------------------------------
(* Properties.                                                              *)

InLedger == {ledger.records[i] : i \in DOMAIN ledger.records}
FailedOn(d) == {w \in withdrawn : w.digest = d}

\* A pass that a full run on the same tree has contradicted is not in the
\* ledger, nor can it return to it: every record's run began after every
\* withdrawal of its tree (verified.py 10-13, 151-270).
NoStaleGreen ==
  \A rec \in InLedger : FailedOn(rec.tree.digest) \subseteq run[rec.run].began

\* A tree has one record (verified.py:242), and its coverage was measured on
\* that tree by a green run no failure has contradicted (verified.py 231-241).
ProofMeasured ==
  /\ \A i, j \in DOMAIN ledger.records :
       ledger.records[i].tree.digest = ledger.records[j].tree.digest => i = j
  /\ \A rec \in InLedger : rec.coverage # None =>
       \E r \in Covered : /\ run[r].passed /\ run[r].before.digest = rec.tree.digest
                          /\ FailedOn(rec.tree.digest) \subseteq run[r].began

SkippedNow(r) == run[r].verdict # "skipped" /\ run'[r].verdict = "skipped"

\* A gate is skipped only for a source on which a full run has passed from
\* beginning to end: the same digest and, unless the checkout is a child of a
\* monorepo whose shared files are the same, the same commit; with --cov some
\* run measured that source (operations.py 2819-3027).
SkipBacked ==
  \A r \in Runs : SkippedNow(r) =>
    LET g == run'[r].by IN
    /\ run[g].passed /\ run[g].before.clean
    /\ run[g].before.digest = run[r].snap.digest
    /\ IF Child THEN run[g].before.shared = run[r].snap.shared
       ELSE run[g].before.head = run[r].snap.head
    /\ r \in Covered => \E h \in Covered : run[h].passed /\ run[h].before.digest = run[r].snap.digest

\* And a record another checkout left is not reused once a full run anywhere has
\* failed on that tree: what was withdrawn when the gate began is contradicted
\* by a run that began later (operations.py 2942-3027).
SharedSkipHeeds ==
  \A r \in Runs : SkippedNow(r) /\ run[r].pc = "skip found" =>
    \A w \in run[r].known : w.digest = run[r].snap.digest => w \in run[run'[r].by].began
SkipIsBacked == [][SkipBacked /\ SharedSkipHeeds]_vars

JoinedNow(r) == run[r].verdict # "joined" /\ run'[r].verdict = "joined"

\* docs/changelog.md:202-204 - "`ptest --full --cov` counts as [...] a joinable
\* running run only when that green measured the same coverage on the same
\* inputs": those the joiner saw, or at least those of its checkout when the green
\* becomes its verdict.
JoinForSameInputs ==
  \A r \in Covered : JoinedNow(r) /\ run'[r].status = "passed" =>
    LET g == run'[r].by IN
    /\ Coverage(g) = Coverage(r)
    /\ run[g].before.digest \in {run[r].snap.digest, Here(r).digest}
JoinIsForSameInputs == [][JoinForSameInputs]_vars

\* While a duplicate waits, the run it waits for really holds the checkout's
\* lease or has answered: "exactly one duplicate wins" (history.py:426).
OneWins ==
  \A r, s \in Runs :
    /\ r # s /\ CheckoutOf[r] = CheckoutOf[s] /\ run[r].claimed /\ run[s].claimed
    => ~(Alive(r) /\ Alive(s))

\* Every duplicate that waits gets a verdict or runs itself: the run it waits
\* for ends, or its death is noticed (operations.py 3071-3103).
WaitersLeave ==
  \A r \in Runs : run[r].pc \in {"poll", "poll lease"} ~> run[r].pc \notin {"poll", "poll lease"}
=============================================================================
