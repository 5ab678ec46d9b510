---------------------------- MODULE HistoryProofs ----------------------------
(***************************************************************************)
(* Theorems about one checkout's history, for every set of runs, tests and *)
(* trees: no failure is forgotten, the baseline is the newest clean full   *)
(* gate, a plan covers what is owed, and overlapping runs discharge        *)
(* nothing of each other's.  And about the marker files around its store,  *)
(* for every set of publishers and readers: what a lost outcome, a claim   *)
(* of the capacity and a receipt mean to whoever reads later.              *)
(***************************************************************************)
EXTENDS MCHistory, Sequences, WellFoundedInduction, TLAPS

Fields ==
  {"mode", "view", "execution", "files", "base", "expected", "planned", "policy",
   "before", "after", "status", "inventory", "selected", "full", "seq", "seen"}

-----------------------------------------------------------------------------
(***************************************************************************)
(* Types, and where a run is when its outcome is already committed.        *)
(***************************************************************************)
JobsOK == DOMAIN job = Runs /\ \A r \in Runs : DOMAIN job[r] = Fields /\ ResultOK(job[r])

\* An outcome is committed once, by a run that then leaves.
Once == \A q \in log : q.run \in Runs /\ pc[q.run] = "done"

Shape == TypeOK /\ JobsOK /\ Once

LEMMA BlankOK ==
  ASSUME NEW mode
  PROVE  /\ DOMAIN [Blank EXCEPT !.mode = mode] = Fields
         /\ ResultOK([Blank EXCEPT !.mode = mode])
  BY DEF Blank, Fields, ResultOK, Statuses, Plans

LEMMA ResultTyped ==
  ASSUME JobsOK, NEW r \in Runs
  PROVE  ResultOK(Result(r)) /\ Result(r).run = r /\ Result(r).seq \in Nat
  BY DEF JobsOK, ResultOK, Result

LEMMA ReportTyped ==
  ASSUME NEW cases \in SUBSET Tests, NEW i \in Reports(cases)
  PROVE  i \in Inventories
<1>1. SUBSET cases \subseteq SUBSET Tests
  OBVIOUS
<1>2. UNION {[c -> Outcomes] : c \in SUBSET cases} \subseteq OutcomeTables
  BY <1>1 DEF OutcomeTables
<1> QED BY <1>2 DEF Reports, Inventories

LEMMA PlanTyped ==
  ASSUME NEW mode, NEW view, NEW t, NEW p \in PlansFor(mode, view, t)
  PROVE  p.execution \in Plans
<1>1. ChoosePlan(view, t).execution \in Plans /\ ChoosePlan(Diagnostic(view), t).execution \in Plans
  BY DEF ChoosePlan, Full, Plans
<1> QED BY <1>1 DEF PlansFor, Plans, Full

LEMMA JobReplaced ==
  ASSUME JobsOK, NEW r \in Runs, NEW j, DOMAIN j = Fields, ResultOK(j),
         job' = [job EXCEPT ![r] = j]
  PROVE  JobsOK'
<1>1. \A s \in Runs : job'[s] = IF s = r THEN j ELSE job[s]
  BY DEF JobsOK
<1>2. DOMAIN job' = Runs
  BY DEF JobsOK
<1> QED BY <1>1, <1>2 DEF JobsOK, ResultOK

\* What a committed outcome adds, and what pruning takes.
RowsOK == \A r \in DOMAIN runs : r \in Runs /\ runs[r] \in log

LEMMA PrunedRows ==
  ASSUME NEW rs, NEW protected, NEW kept \in Pruned(rs, protected)
  PROVE  /\ DOMAIN kept \subseteq DOMAIN rs
         /\ \A r \in DOMAIN kept : kept[r] = rs[r]
         /\ protected \intersect DOMAIN rs \subseteq DOMAIN kept
  BY DEF Pruned

LEMMA RecordedTyped ==
  ASSUME NEW obs, NEW res, ResultOK(res), DOMAIN obs \subseteq Tests \union {WholeGate},
         \A k \in DOMAIN obs : obs[k].seq \in Nat
  PROVE  LET new == Reconciled(Recorded(obs, res), res)
         IN  /\ DOMAIN new \subseteq Tests \union {WholeGate}
             /\ \A k \in DOMAIN new : new[k].seq \in Nat
<1>1. FailedIn(res) \subseteq Tests
  BY DEF FailedIn, Having, Cases, ResultOK, Inventories, OutcomeTables
<1>2. Owed(res) \subseteq Tests \union {WholeGate}
  BY <1>1 DEF Owed
<1>3. /\ DOMAIN Recorded(obs, res) \subseteq Tests \union {WholeGate}
      /\ \A k \in DOMAIN Recorded(obs, res) : Recorded(obs, res)[k].seq \in Nat
  BY <1>2 DEF Recorded, ResultOK
<1> QED BY <1>3 DEF Reconciled

LEMMA NextSequencesTyped ==
  ASSUME NEW rs, \A r \in DOMAIN rs : rs[r].seq \in Nat, NEW n \in NextSequences(rs)
  PROVE  n \in Nat
  BY DEF NextSequences

LEMMA InitShape == Init => Shape
<1> SUFFICES ASSUME Init PROVE Shape
  OBVIOUS
<1>1. JobsOK
  BY BlankOK DEF Init, JobsOK
<1>2. TypeOK
  BY <1>1, HistoryAssumption DEF Init, TypeOK, JobsOK
<1> QED BY <1>1, <1>2 DEF Init, Shape, Once

\* The steps that only move a run and change what it carries.
LEMMA JobStepShape ==
  ASSUME Shape, NEW r \in Runs, NEW j, NEW to,
         DOMAIN j = Fields, ResultOK(j), pc[r] # "done",
         job' = [job EXCEPT ![r] = j], pc' = [pc EXCEPT ![r] = to],
         holder' \in Runs \union {None}, UNCHANGED <<tree, edits, store, log>>
  PROVE  Shape'
<1>1. JobsOK'
  BY JobReplaced DEF Shape
<1>2. \A s \in Runs : s # r => pc'[s] = pc[s]
  BY DEF Shape, TypeOK
<1>3. Once'
  BY <1>2 DEF Shape, Once
<1>4. TypeOK'
  BY <1>1 DEF Shape, TypeOK, JobsOK, store, ResultOK
<1> QED BY <1>1, <1>3, <1>4 DEF Shape

LEMMA MoveShape ==
  ASSUME Shape, NEW r \in Runs, NEW to, pc[r] # "done", pc' = [pc EXCEPT ![r] = to],
         holder' \in Runs \union {None}, UNCHANGED <<tree, edits, job, store, log>>
  PROVE  Shape'
<1>1. JobsOK'
  BY DEF Shape, JobsOK, ResultOK
<1>2. \A s \in Runs : s # r => pc'[s] = pc[s]
  BY DEF Shape, TypeOK
<1>3. Once'
  BY <1>2 DEF Shape, Once
<1>4. TypeOK'
  BY <1>1 DEF Shape, TypeOK, JobsOK, store, ResultOK
<1> QED BY <1>1, <1>3, <1>4 DEF Shape

LEMMA LeaveShape ==
  ASSUME Shape, NEW r \in Runs, Leave(r)
  PROVE  JobsOK' /\ holder' \in Runs \union {None} /\ pc' = [pc EXCEPT ![r] = "done"]
<1>1. JobsOK'
  BY JobReplaced, BlankOK DEF Leave, Shape
<1> QED BY <1>1 DEF Leave, Shape, TypeOK

LEMMA PublishShape ==
  ASSUME Shape, NEW r \in Runs, Publish(r)
  PROVE  Shape'
<1> DEFINE res == Result(r)
<1>1. ResultOK(res) /\ res.run = r
  BY ResultTyped DEF Shape
<1>2. JobsOK' /\ holder' \in Runs \union {None} /\ pc' = [pc EXCEPT ![r] = "done"]
  BY LeaveShape DEF Publish
<1>3. log' = log \union {res} /\ tree' = tree /\ edits' = edits
  BY DEF Publish
<1>4. Once'
  BY <1>1, <1>2, <1>3 DEF Shape, TypeOK, Once
<1>5. RowsOK'
  <2>1. runs' \in Pruned(Inserted(res), {r} \union BaselineRun(baselines'))
    BY DEF Publish
  <2>2. /\ DOMAIN runs' \subseteq DOMAIN Inserted(res)
        /\ \A s \in DOMAIN runs' : runs'[s] = Inserted(res)[s]
    BY <2>1, PrunedRows
  <2>3. \A s \in DOMAIN Inserted(res) : s \in Runs /\ Inserted(res)[s] \in log'
    BY <1>1, <1>3 DEF Inserted, Shape, TypeOK
  <2> QED BY <2>2, <2>3 DEF RowsOK
<1>6. /\ DOMAIN obligations' \subseteq Tests \union {WholeGate}
      /\ \A k \in DOMAIN obligations' : obligations'[k].seq \in Nat
  <2>1. obligations' = Reconciled(Recorded(obligations, res), res)
    BY DEF Publish
  <2> HIDE DEF res
  <2> QED BY <1>1, <2>1, RecordedTyped DEF Shape, TypeOK
<1>7. baselines' \subseteq log' /\ \A bs, c \in baselines' : bs = c
  BY <1>3 DEF Publish, Shape, TypeOK
<1>8. \A q \in log' : ResultOK(q)
  BY <1>1, <1>3 DEF Shape, TypeOK
<1>9. DOMAIN pc' = Runs
  BY <1>2 DEF Shape, TypeOK
<1>10. \A s \in Runs : ResultOK(job'[s])
  BY <1>2 DEF JobsOK, ResultOK
<1>11. \A q \in log' : ResultOK(q)'
  BY <1>8 DEF ResultOK
<1>12. TypeOK'
  BY <1>2, <1>3, <1>5, <1>6, <1>7, <1>9, <1>10, <1>11 DEF TypeOK, RowsOK, JobsOK, Shape, ResultOK
<1> QED BY <1>2, <1>4, <1>12 DEF Shape

LEMMA StepShape == Shape /\ [Next]_vars => Shape'
<1> SUFFICES ASSUME Shape, [Next]_vars PROVE Shape'
  OBVIOUS
<1> USE DEF Goes
<1>1. CASE UNCHANGED vars
  BY <1>1 DEF vars, store, Shape, TypeOK, JobsOK, Once, ResultOK
<1>2. CASE Edit
  <2>1. tree' \in Trees /\ edits' \in 0..MaxEdits
    BY <1>2, HistoryAssumption DEF Edit, Shape, TypeOK
  <2> QED BY <1>2, <2>1 DEF Edit, store, Shape, TypeOK, JobsOK, Once, ResultOK
<1>3. ASSUME NEW r \in Runs, Step(r)
      PROVE  Shape'
  <2> DEFINE Kept(j) == DOMAIN j = Fields /\ ResultOK(j)
  <2>0. Kept(job[r]) /\ job[r].seq \in Nat
    BY DEF Shape, JobsOK, ResultOK
  <2>h. holder \in Runs \union {None}
    BY DEF Shape, TypeOK
  <2>1. CASE ReadHistory(r)
    <3>1. Kept([job[r] EXCEPT !.view = View])
      BY <2>0 DEF Fields, ResultOK
    <3> QED BY <3>1, <2>1, <2>h, JobStepShape DEF ReadHistory
  <2>2. CASE PlanRun(r)
    <3>1. PICK p \in PlansFor(ModeOf[r], job[r].view, tree) :
            LET planned == [job[r] EXCEPT
                  !.execution = p.execution, !.files = p.files, !.base = p.base,
                  !.expected = IF ModeOf[r] = "shadow" THEN job[r].view.quarantine ELSE None,
                  !.view = None, !.planned = tree, !.policy = tree.policy]
            IN  \/ pc' = [pc EXCEPT ![r] = "queued"] /\ job' = [job EXCEPT ![r] = planned]
                \/ /\ pc' = [pc EXCEPT ![r] = "ran"]
                   /\ job' = [job EXCEPT ![r] = [planned EXCEPT
                        !.before = tree, !.after = tree, !.status = "no-tests-needed"]]
      BY <2>2 DEF PlanRun
    <3>2. p.execution \in Plans
      BY PlanTyped
    <3> DEFINE planned == [job[r] EXCEPT
                  !.execution = p.execution, !.files = p.files, !.base = p.base,
                  !.expected = IF ModeOf[r] = "shadow" THEN job[r].view.quarantine ELSE None,
                  !.view = None, !.planned = tree, !.policy = tree.policy]
               ended == [planned EXCEPT
                        !.before = tree, !.after = tree, !.status = "no-tests-needed"]
    <3>3. Kept(planned)
      BY <2>0, <3>2 DEF Fields, ResultOK
    <3>4. Kept(ended)
      BY <3>3 DEF Fields, ResultOK, Statuses
    <3>5. pc[r] = "read" /\ holder' = holder /\ UNCHANGED <<tree, edits, store, log>>
      BY <2>2 DEF PlanRun
    <3>6. \/ pc' = [pc EXCEPT ![r] = "queued"] /\ job' = [job EXCEPT ![r] = planned]
          \/ pc' = [pc EXCEPT ![r] = "ran"] /\ job' = [job EXCEPT ![r] = ended]
      BY <3>1
    <3> HIDE DEF planned, ended
    <3> QED BY <3>3, <3>4, <3>5, <3>6, <2>h, JobStepShape
  <2>3. CASE RefuseShadow(r)
    BY <2>3, <2>h, BlankOK, JobStepShape DEF RefuseShadow
  <2>4. CASE Admit(r)
    BY <2>4, MoveShape DEF Admit
  <2>5. CASE Capture(r)
    <3>1. {q.run : q \in log} \subseteq Runs
      BY DEF Shape, Once
    <3>2. Kept([job[r] EXCEPT !.before = tree, !.seen = {q.run : q \in log}])
      BY <2>0, <3>1 DEF Fields, ResultOK
    <3> QED BY <3>2, <2>5, <2>h, JobStepShape DEF Capture
  <2>6. CASE Gate(r)
    BY <2>6, <2>h, MoveShape DEF Gate
  <2>7. CASE Execute(r)
    <3>1. PICK i \in Reports(Collected(r)) :
            job' = [job EXCEPT ![r].inventory = i, ![r].status = StatusOf(i)]
      BY <2>7 DEF Execute
    <3>2. i \in Inventories
      BY ReportTyped DEF Collected
    <3>3. Kept([job[r] EXCEPT !.inventory = i, !.status = StatusOf(i)])
      BY <2>0, <3>2 DEF Fields, ResultOK, StatusOf, Statuses
    <3>4. job' = [job EXCEPT ![r] = [job[r] EXCEPT !.inventory = i, !.status = StatusOf(i)]]
      BY <3>1
    <3> QED BY <3>3, <3>4, <2>7, <2>h, JobStepShape DEF Execute
  <2>8. CASE ExecuteShadow(r)
    <3> DEFINE all == {item \in Tests : job[r].before.src[FileOf[item]] # 0}
               ended(s, f) == IF f = None THEN "incomplete"
                              ELSE IF s.red \/ f.red THEN "failed" ELSE "passed"
    <3>1. PICK s \in Reports(Collected(r)), f \in Reports(all) \union {None} :
            job' = [job EXCEPT ![r].selected = s, ![r].full = f, ![r].status = ended(s, f)]
      BY <2>8 DEF ExecuteShadow
    <3>2. s \in Inventories /\ f \in Inventories \union {None}
      BY ReportTyped DEF Collected
    <3>3. ended(s, f) \in Statuses
      BY DEF Statuses
    <3> HIDE DEF ended
    <3>4. Kept([job[r] EXCEPT !.selected = s, !.full = f, !.status = ended(s, f)])
      BY <2>0, <3>2, <3>3 DEF Fields, ResultOK
    <3>5. job' = [job EXCEPT ![r] = [job[r] EXCEPT !.selected = s, !.full = f, !.status = ended(s, f)]]
      BY <3>1
    <3> QED BY <3>4, <3>5, <2>8, <2>h, JobStepShape DEF ExecuteShadow
  <2>9. CASE Recapture(r)
    <3> DEFINE seen == [job[r] EXCEPT !.after = tree]
    <3>1. Kept(seen)
      BY <2>0 DEF Fields, ResultOK
    <3>2. Settled(seen) \in Statuses
      BY <3>1 DEF Settled, Statuses, ResultOK
    <3> HIDE DEF seen
    <3>3. Kept([seen EXCEPT !.status = Settled(seen)])
      BY <3>1, <3>2 DEF Fields, ResultOK
    <3>4. job' = [job EXCEPT ![r] = [seen EXCEPT !.status = Settled(seen)]]
      BY <2>9 DEF Recapture, seen
    <3> QED BY <3>3, <3>4, <2>9, <2>h, JobStepShape DEF Recapture
  <2>10. CASE Number(r)
    <3>1. PICK n \in NextSequences(runs) : job' = [job EXCEPT ![r].seq = n]
      BY <2>10 DEF Number
    <3>2. n \in Nat
      <4>1. \A s \in DOMAIN runs : runs[s].seq \in Nat
        BY DEF Shape, TypeOK, ResultOK
      <4> QED BY <4>1, NextSequencesTyped
    <3>3. Kept([job[r] EXCEPT !.seq = n])
      BY <2>0, <3>2 DEF Fields, ResultOK
    <3> QED BY <3>1, <3>3, <2>10, <2>h, JobStepShape DEF Number
  <2>11. CASE Maintain(r)
    <3>1. /\ DOMAIN runs' \subseteq DOMAIN runs
          /\ \A s \in DOMAIN runs' : runs'[s] = runs[s]
      BY <2>11, PrunedRows DEF Maintain
    <3>2. /\ pc' = [pc EXCEPT ![r] = "pruned"] /\ pc[r] = "numbered"
          /\ UNCHANGED <<tree, edits, holder, job, obligations, baselines, quarantine, log>>
      BY <2>11 DEF Maintain
    <3>3. TypeOK'
      BY <3>1, <3>2 DEF Shape, TypeOK, ResultOK
    <3>4. Once' /\ JobsOK'
      BY <3>2 DEF Shape, TypeOK, Once, JobsOK, ResultOK
    <3> QED BY <3>3, <3>4 DEF Shape
  <2>12. CASE Publish(r)
    BY <2>12, PublishShape
  <2>13. CASE Lose(r)
    <3>1. JobsOK' /\ holder' \in Runs \union {None} /\ pc' = [pc EXCEPT ![r] = "done"]
      BY <2>13, LeaveShape DEF Lose
    <3> QED BY <2>13, <2>h, BlankOK, JobStepShape, <3>1 DEF Lose, Leave
  <2> QED
    BY <1>3, <2>1, <2>2, <2>3, <2>4, <2>5, <2>6, <2>7, <2>8, <2>9, <2>10, <2>11, <2>12, <2>13
       DEF Step
<1> QED BY <1>1, <1>2, <1>3 DEF Next

LEMMA ShapeHolds == Spec => []Shape
  BY InitShape, StepShape, PTL DEF Spec

\* The stored rows, obligations, baseline and every committed outcome have
\* the form the reader relies on, whatever runs, edits and prunings happened.
THEOREM Typing == Spec => []TypeOK
<1>1. Shape => TypeOK
  BY DEF Shape
<1> QED BY <1>1, ShapeHolds, PTL

-----------------------------------------------------------------------------
(***************************************************************************)
(* Only a publication touches log, obligations and baseline.               *)
(***************************************************************************)
LEMMA OnlyPublish ==
  ASSUME Shape, [Next]_vars
  PROVE  \/ UNCHANGED <<obligations, baselines, log>>
         \/ \E r \in Runs : Publish(r)
  BY DEF Next, Step, vars, store, Edit, ReadHistory, PlanRun, RefuseShadow, Admit, Capture,
         Gate, Execute, ExecuteShadow, Recapture, Number, Maintain, Lose

\* Obligation k went because of a record o at least as new as what was owed.
Discharged(k, o, res) ==
  /\ o.seq \in Nat
  /\ Passes(k, o, res) \/ Removed(k, o, res) \/ GateMet(k, o, res)
  /\ k \in DOMAIN obligations => o.seq >= obligations[k].seq
  /\ k \in Owed(res) => o.seq >= res.seq

\* What one publication does to one obligation.
LEMMA PublishObligations ==
  ASSUME Shape, NEW r \in Runs, Publish(r), NEW res, res = Result(r)
  PROVE  /\ ResultOK(res)
         /\ log' = log \union {res}
         /\ \A k \in (DOMAIN obligations \union Owed(res)) \ DOMAIN obligations' :
              \E o : Discharged(k, o, res)
         /\ \A k \in (DOMAIN obligations \union Owed(res)) \intersect DOMAIN obligations' :
              /\ k \in DOMAIN obligations => obligations'[k].seq >= obligations[k].seq
              /\ k \in Owed(res) => obligations'[k].seq >= res.seq
<1>1. ResultOK(res) /\ res.seq \in Nat
  BY ResultTyped DEF Shape
<1>2. log' = log \union {res} /\ obligations' = Reconciled(Recorded(obligations, res), res)
  BY DEF Publish
<1> DEFINE obs == Recorded(obligations, res)
<1>3. \A k \in DOMAIN obligations : obligations[k].seq \in Nat
  BY DEF Shape, TypeOK
<1>4. DOMAIN obs = DOMAIN obligations \union Owed(res)
  BY DEF Recorded
<1>5. \A k \in DOMAIN obs :
        /\ k \in DOMAIN obligations => obs[k].seq >= obligations[k].seq
        /\ k \in Owed(res) => obs[k].seq >= res.seq
        /\ obs[k].seq \in Nat
  BY <1>1, <1>3 DEF Recorded
<1> HIDE DEF obs
<1>6. /\ DOMAIN obligations' \subseteq DOMAIN obs
      /\ \A k \in DOMAIN obligations' : obligations'[k] = obs[k]
      /\ \A k \in DOMAIN obs \ DOMAIN obligations' :
           Passes(k, obs[k], res) \/ Removed(k, obs[k], res) \/ GateMet(k, obs[k], res)
  BY <1>2 DEF obs, Reconciled
<1>7. \A k \in DOMAIN obs \ DOMAIN obligations' : Discharged(k, obs[k], res)
  BY <1>4, <1>5, <1>6 DEF Discharged
<1> QED BY <1>1, <1>2, <1>4, <1>5, <1>6, <1>7

LEMMA FailuresAreTests ==
  ASSUME NEW res, ResultOK(res)
  PROVE  FailedIn(res) \subseteq Tests /\ PassedIn(res) \subseteq Tests
  BY DEF FailedIn, PassedIn, Having, Cases, ResultOK, Inventories, OutcomeTables

-----------------------------------------------------------------------------
(***************************************************************************)
(* Failures.                                                               *)
(***************************************************************************)
LEMMA StepRemembers == Shape /\ FailureRemembered /\ [Next]_vars => FailureRemembered'
<1> SUFFICES ASSUME Shape, FailureRemembered, [Next]_vars,
                    NEW q \in log', NEW item \in FailedIn(q)
             PROVE  \/ item \in DOMAIN obligations' /\ obligations'[item].seq >= q.seq
                    \/ Excused(item, q)'
  BY DEF FailureRemembered, FailedIn, Having, Cases
<1>1. CASE UNCHANGED <<obligations, baselines, log>>
  BY <1>1 DEF FailureRemembered, Excused, ConclusivePass, CleanFull, PassedIn, Cases,
              Having, Conclusive, SourceValid, Known, SameSource
<1>2. ASSUME NEW r \in Runs, Publish(r)
      PROVE  \/ item \in DOMAIN obligations' /\ obligations'[item].seq >= q.seq
             \/ Excused(item, q)'
  <2>0. PICK res : res = Result(r)
    OBVIOUS
  <2>1. /\ ResultOK(res) /\ log' = log \union {res}
        /\ \A k \in (DOMAIN obligations \union Owed(res)) \ DOMAIN obligations' :
             \E o : Discharged(k, o, res)
        /\ \A k \in (DOMAIN obligations \union Owed(res)) \intersect DOMAIN obligations' :
             /\ k \in DOMAIN obligations => obligations'[k].seq >= obligations[k].seq
             /\ k \in Owed(res) => obligations'[k].seq >= res.seq
    BY <1>2, <2>0, PublishObligations
  <2>2. ResultOK(q) /\ q.seq \in Nat /\ item \in Tests /\ item # WholeGate
    BY <2>1, FailuresAreTests, HistoryAssumption DEF Shape, TypeOK, ResultOK
  <2>3. Excused(item, q) => Excused(item, q)'
    BY <2>1 DEF Excused, ConclusivePass, CleanFull, PassedIn, Cases,
                Having, Conclusive, SourceValid, Known, SameSource
  <2>4. \/ Excused(item, q)
        \/ item \in DOMAIN obligations /\ obligations[item].seq >= q.seq
        \/ item \in Owed(res) /\ q = res
    <3>1. CASE q = res
      BY <3>1 DEF Owed
    <3>2. CASE q \in log
      BY <3>2 DEF FailureRemembered
    <3> QED BY <2>1, <3>1, <3>2
  <2>5. item \in DOMAIN obligations => obligations[item].seq \in Nat
    BY DEF Shape, TypeOK
  <2>6. item \in DOMAIN obligations' => obligations'[item].seq \in Nat
    BY StepShape DEF Shape, TypeOK
  <2>7. CASE item \in DOMAIN obligations'
    BY <2>1, <2>2, <2>3, <2>4, <2>5, <2>6, <2>7 DEF ResultOK
  <2>8. CASE item \notin DOMAIN obligations' /\ ~Excused(item, q)
    <3>1. item \in (DOMAIN obligations \union Owed(res)) \ DOMAIN obligations'
      BY <2>4, <2>8
    <3>2. PICK o : Discharged(item, o, res)
      BY <2>1, <3>1
    <3>3. /\ res.seq > o.seq
          /\ \/ ConclusivePass(res) /\ item \in PassedIn(res)
             \/ CleanFull(res) /\ item \notin Cases(res.inventory)
      BY <3>2, <2>2 DEF Discharged, Passes, Removed, GateMet
    <3>4. res.seq > q.seq
      BY <2>4, <2>8, <3>2, <3>3, <2>2, <2>5, <2>1 DEF ResultOK, Discharged
    <3> QED BY <2>1, <3>3, <3>4 DEF Excused, ConclusivePass, CleanFull, PassedIn, Cases,
                Having, Conclusive, SourceValid, Known, SameSource
  <2> QED BY <2>3, <2>7, <2>8
<1> QED BY <1>1, <1>2, OnlyPublish

\* No committed failure is forgotten before a later-numbered outcome excuses
\* it, in whatever order outcomes are numbered, committed and pruned.
THEOREM FailuresAreRemembered == Spec => []FailureRemembered
<1>1. Init => FailureRemembered
  BY DEF Init, FailureRemembered
<1> QED BY <1>1, StepRemembers, ShapeHolds, PTL DEF Spec

LEMMA StepGateRemembers == Shape /\ GateRemembered /\ [Next]_vars => GateRemembered'
<1> DEFINE Met(q) == \E res \in log : CleanFull(res) /\ res.seq > q.seq
           Standing(q) == WholeGate \in DOMAIN obligations /\ obligations[WholeGate].seq >= q.seq
<1> SUFFICES ASSUME Shape, GateRemembered, [Next]_vars, NEW q \in log', Unattributed(q)
             PROVE  Standing(q)' \/ Met(q)'
  BY DEF GateRemembered, Unattributed, Conclusive, Having, Cases
<1> USE DEF CleanFull, Cases, Having, Conclusive, SourceValid, Known, SameSource
<1>1. CASE UNCHANGED <<obligations, baselines, log>>
  BY <1>1 DEF GateRemembered
<1>2. ASSUME NEW r \in Runs, Publish(r)
      PROVE  Standing(q)' \/ Met(q)'
  <2>0. PICK res : res = Result(r)
    OBVIOUS
  <2>1. /\ ResultOK(res) /\ log' = log \union {res}
        /\ \A k \in (DOMAIN obligations \union Owed(res)) \ DOMAIN obligations' :
             \E o : Discharged(k, o, res)
        /\ \A k \in (DOMAIN obligations \union Owed(res)) \intersect DOMAIN obligations' :
             /\ k \in DOMAIN obligations => obligations'[k].seq >= obligations[k].seq
             /\ k \in Owed(res) => obligations'[k].seq >= res.seq
    BY <1>2, <2>0, PublishObligations
  <2>2. q.seq \in Nat /\ res.seq \in Nat
    BY <2>1 DEF Shape, TypeOK, ResultOK
  <2>3. Met(q) => Met(q)'
    BY <2>1
  <2>4. Met(q) \/ Standing(q) \/ (WholeGate \in Owed(res) /\ q = res)
    <3>1. CASE q = res
      BY <3>1 DEF Owed
    <3>2. CASE q \in log
      BY <3>2 DEF GateRemembered
    <3> QED BY <2>1, <3>1, <3>2
  <2>5. /\ WholeGate \in DOMAIN obligations => obligations[WholeGate].seq \in Nat
        /\ WholeGate \in DOMAIN obligations' => obligations'[WholeGate].seq \in Nat
    BY StepShape DEF Shape, TypeOK
  <2>6. CASE WholeGate \in DOMAIN obligations'
    BY <2>1, <2>2, <2>3, <2>4, <2>5, <2>6
  <2>7. CASE WholeGate \notin DOMAIN obligations' /\ ~Met(q)
    <3>1. WholeGate \in (DOMAIN obligations \union Owed(res)) \ DOMAIN obligations'
      BY <2>4, <2>7
    <3>2. PICK o : Discharged(WholeGate, o, res)
      BY <2>1, <3>1
    <3>3. WholeGate \notin PassedIn(res)
      BY <2>1, FailuresAreTests, HistoryAssumption
    <3>4. CleanFull(res) /\ res.seq > o.seq
      BY <3>2, <3>3, <2>2 DEF Discharged, Passes, Removed, GateMet, Promoted
    <3>5. res.seq > q.seq
      BY <2>2, <2>4, <2>5, <2>7, <3>2, <3>4 DEF Discharged
    <3> QED BY <2>1, <3>4, <3>5
  <2> QED BY <2>3, <2>6, <2>7
<1> QED BY <1>1, <1>2, OnlyPublish

\* A failure no test accounts for is owed until a later-numbered clean full
\* gate was committed.
THEOREM GatesAreRemembered == Spec => []GateRemembered
<1>1. Init => GateRemembered
  BY DEF Init, GateRemembered
<1> QED BY <1>1, StepGateRemembers, ShapeHolds, PTL DEF Spec

-----------------------------------------------------------------------------
(***************************************************************************)
(* Plans and baselines.                                                    *)
(***************************************************************************)
LEMMA PlanCovers ==
  ASSUME NEW view, NEW t, NEW p, p = ChoosePlan(view, t), p.execution # "full"
  PROVE  /\ WholeGate \notin DOMAIN view.obligations
         /\ \A k \in DOMAIN view.obligations : FileOf[k] \in p.files
<1>1. Full.execution = "full"
  BY DEF Full
<1>2. WholeGate \notin DOMAIN view.obligations
  BY <1>1 DEF ChoosePlan
<1> DEFINE mandatory == {FileOf[k] : k \in DOMAIN view.obligations \ {WholeGate}}
           chosen == mandatory \union Reached(CHOOSE bs \in view.baselines : TRUE, t)
<1>3. \/ chosen = {}
      \/ p = [execution |-> "selected", files |-> chosen \union Always, base |-> (CHOOSE bs \in view.baselines : TRUE).run]
  BY <1>1 DEF ChoosePlan
<1> HIDE DEF chosen
<1>4. \A k \in DOMAIN view.obligations : FileOf[k] \in chosen
  BY <1>2 DEF chosen
<1> QED BY <1>2, <1>3, <1>4

LEMMA Covered == FailureRemembered /\ GateRemembered => SelectionCoversFailures
<1> SUFFICES ASSUME FailureRemembered, GateRemembered, NEW t \in Trees,
                    ChoosePlan(View, t).execution # "full", NEW res \in log
             PROVE  /\ \A item \in FailedIn(res) :
                         FileOf[item] \in ChoosePlan(View, t).files \/ Excused(item, res)
                    /\ Unattributed(res) => \E q \in log : CleanFull(q) /\ q.seq > res.seq
  BY DEF SelectionCoversFailures
<1>1. View.obligations = obligations
  BY DEF View
<1>2. /\ WholeGate \notin DOMAIN obligations
      /\ \A k \in DOMAIN obligations : FileOf[k] \in ChoosePlan(View, t).files
  BY <1>1, PlanCovers
<1> QED BY <1>2 DEF FailureRemembered, GateRemembered

\* Whatever tree a plan is made for, it runs every test that still owes a
\* pass, or the whole suite.
THEOREM PlansCoverFailures == Spec => []SelectionCoversFailures
  BY FailuresAreRemembered, GatesAreRemembered, Covered, PTL

LEMMA StepNewest == Shape /\ BaselineIsNewest /\ [Next]_vars => BaselineIsNewest'
<1> SUFFICES ASSUME Shape, BaselineIsNewest, [Next]_vars PROVE BaselineIsNewest'
  OBVIOUS
<1> USE DEF CleanFull, Cases, Having, Conclusive, SourceValid, Known, SameSource
<1>1. CASE UNCHANGED <<runs, baselines, log>>
  BY <1>1 DEF BaselineIsNewest
<1>2. ASSUME NEW r \in Runs, Maintain(r)
      PROVE  BaselineIsNewest'
  <2>1. /\ \A s \in DOMAIN runs' : runs'[s] = runs[s]
        /\ BaselineRun(baselines) \intersect DOMAIN runs \subseteq DOMAIN runs'
    BY <1>2, PrunedRows DEF Maintain
  <2>2. baselines' = baselines /\ log' = log
    BY <1>2 DEF Maintain
  <2> QED BY <2>1, <2>2 DEF BaselineIsNewest, BaselineRun
<1>3. ASSUME NEW r \in Runs, Publish(r)
      PROVE  BaselineIsNewest'
  <2>0. PICK res : res = Result(r)
    OBVIOUS
  <2>1. /\ log' = log \union {res}
        /\ baselines' = IF Promoted(res) THEN {res} ELSE baselines
        /\ runs' \in Pruned(Inserted(res), {r} \union BaselineRun(baselines'))
        /\ pc[r] # "done"
    BY <1>3, <2>0 DEF Publish
  <2>2. res.run = r /\ res.seq \in Nat /\ \A q \in log : q.seq \in Nat
    BY <2>0, ResultTyped DEF Shape, TypeOK, ResultOK
  <2>3. \A bs \in baselines : bs \in log /\ bs.run # r
    BY <2>1 DEF Shape, TypeOK, Once
  <2>4. /\ \A s \in DOMAIN runs' : runs'[s] = Inserted(res)[s]
        /\ ({r} \union BaselineRun(baselines')) \intersect DOMAIN Inserted(res) \subseteq DOMAIN runs'
    BY <2>1, PrunedRows
  <2>5. /\ DOMAIN Inserted(res) = DOMAIN runs \union {r}
        /\ Inserted(res)[r] = res
        /\ \A s \in DOMAIN runs : s # r => Inserted(res)[s] = runs[s]
    BY <2>2 DEF Inserted
  <2>6. \A bs \in baselines' : bs.run \in DOMAIN runs' /\ runs'[bs.run] = bs
    BY <2>1, <2>2, <2>3, <2>4, <2>5 DEF BaselineIsNewest, BaselineRun
  <2>7. \A bs \in baselines' : CleanFull(bs)
    BY <2>1 DEF BaselineIsNewest, Promoted
  <2>8. ASSUME NEW q \in log', CleanFull(q)
        PROVE  \E bs \in baselines' : bs.seq >= q.seq
    <3>1. q.seq \in Nat /\ \A bs \in baselines : bs.seq \in Nat
      BY <2>1, <2>2, <2>3
    <3>2. CASE Promoted(res)
      BY <3>1, <3>2, <2>1, <2>2, <2>8 DEF BaselineIsNewest, Promoted
    <3>3. CASE ~Promoted(res)
      BY <3>1, <3>3, <2>1, <2>2, <2>8 DEF BaselineIsNewest, Promoted
    <3> QED BY <3>2, <3>3
  <2> QED BY <2>6, <2>7, <2>8 DEF BaselineIsNewest
<1>4. ASSUME ~ UNCHANGED <<runs, baselines, log>>
      PROVE  \E r \in Runs : Maintain(r) \/ Publish(r)
  BY <1>4 DEF Next, Step, vars, store, Edit, ReadHistory, PlanRun, RefuseShadow, Admit, Capture,
         Gate, Execute, ExecuteShadow, Recapture, Number, Lose
<1> QED BY <1>1, <1>2, <1>3, <1>4

\* The baseline is a clean full gate, its row survives every pruning, and no
\* clean full gate numbered above it was ever committed.
THEOREM NewestBaseline == Spec => []BaselineIsNewest
<1>1. Init => BaselineIsNewest
  BY DEF Init, BaselineIsNewest
<1> QED BY <1>1, StepNewest, ShapeHolds, PTL DEF Spec

-----------------------------------------------------------------------------
(***************************************************************************)
(* Runs of one checkout do not overlap.  Held(r): r works under the        *)
(* admission, which everybody who owes or discharges anything needs.       *)
(***************************************************************************)
Later == {"captured", "running", "executed", "ran", "numbered", "pruned"}
Held(r) == pc[r] \in Later \union {"granted"} /\ job[r].execution # "none"
Unreported(j) == j.inventory = None /\ j.selected = None /\ j.full = None

LeasedAt(r) ==
  /\ Held(r) => holder = r
  /\ Held(r) /\ pc[r] # "granted" => \A q \in log : Owed(q) # {} => q.run \in job[r].seen
  /\ job[r].execution = "none" =>
       pc[r] \in {"ran", "numbered", "pruned"} /\ Unreported(job[r]) /\ job[r].status = "no-tests-needed"
  /\ pc[r] \in {"idle", "read"} => Unreported(job[r])

Leased == \A r \in Runs : LeasedAt(r)

LEMMA OtherLeased ==
  ASSUME Shape, Leased, NEW r \in Runs, NEW s \in Runs, s # r, NEW to, NEW j,
         pc' = [pc EXCEPT ![r] = to], job' = [job EXCEPT ![r] = j] \/ job' = job,
         holder = s => holder' = s,
         log' = log \/ \E q : log' = log \union {q} /\ Owed(q) = {}
  PROVE  LeasedAt(s)'
<1>1. pc'[s] = pc[s] /\ job'[s] = job[s]
  BY DEF Shape, TypeOK
<1>2. LeasedAt(s)
  BY DEF Leased
<1> QED BY <1>1, <1>2 DEF LeasedAt, Held, Unreported

LEMMA InitLeased == Init => Leased
  BY DEF Init, Leased, LeasedAt, Held, Unreported, Later, Blank

LEMMA NothingOwed ==
  ASSUME NEW res, Unreported(res), res.status = "no-tests-needed"
  PROVE  Owed(res) = {}
  BY DEF Unreported, Owed, FailedIn, Unattributed

\* A run that holds nothing while somebody else works owes nothing.
LEMMA PublisherOwes ==
  ASSUME Shape, Leased, NEW r \in Runs, NEW s \in Runs, s # r, holder = s, pc[r] = "pruned"
  PROVE  Owed(Result(r)) = {}
<1>1. job[r].execution = "none"
  BY DEF Leased, LeasedAt, Held, Later
<1>2. Unreported(Result(r)) /\ Result(r).status = "no-tests-needed"
  BY <1>1 DEF Leased, LeasedAt, Unreported, Result
<1> QED BY <1>2, NothingOwed

\* The two ways a plan leaves a run.
LEMMA PlanRunForm ==
  ASSUME Shape, NEW r \in Runs, PlanRun(r)
  PROVE  /\ pc[r] = "read" /\ holder' = holder /\ log' = log
         /\ \E j : /\ job' = [job EXCEPT ![r] = j]
                  /\ job'[r] = j
                  /\ j.inventory = job[r].inventory
                  /\ j.selected = job[r].selected /\ j.full = job[r].full
                  /\ \/ pc' = [pc EXCEPT ![r] = "queued"] /\ j.execution # "none"
                     \/ /\ pc' = [pc EXCEPT ![r] = "ran"]
                        /\ j.execution = "none" /\ j.status = "no-tests-needed"
<1>0. DOMAIN job = Runs /\ DOMAIN job[r] = Fields
  BY DEF Shape, JobsOK
<1>1. PICK p :
        LET planned == [job[r] EXCEPT
              !.execution = p.execution, !.files = p.files, !.base = p.base,
              !.expected = IF ModeOf[r] = "shadow" THEN job[r].view.quarantine ELSE None,
              !.view = None, !.planned = tree, !.policy = tree.policy]
        IN  IF p.execution # "none"
            THEN Goes(r, "read", "queued") /\ job' = [job EXCEPT ![r] = planned]
            ELSE /\ Goes(r, "read", "ran")
                 /\ job' = [job EXCEPT ![r] = [planned EXCEPT
                      !.before = tree, !.after = tree, !.status = "no-tests-needed"]]
  BY DEF PlanRun
<1> DEFINE planned == [job[r] EXCEPT
              !.execution = p.execution, !.files = p.files, !.base = p.base,
              !.expected = IF ModeOf[r] = "shadow" THEN job[r].view.quarantine ELSE None,
              !.view = None, !.planned = tree, !.policy = tree.policy]
           ended == [planned EXCEPT
              !.before = tree, !.after = tree, !.status = "no-tests-needed"]
<1>2. /\ planned.execution = p.execution /\ planned.inventory = job[r].inventory
      /\ planned.selected = job[r].selected /\ planned.full = job[r].full
      /\ DOMAIN planned = Fields
  BY <1>0 DEF Fields
<1>3. \/ /\ pc' = [pc EXCEPT ![r] = "queued"] /\ p.execution # "none"
         /\ job' = [job EXCEPT ![r] = planned]
      \/ /\ pc' = [pc EXCEPT ![r] = "ran"] /\ p.execution = "none"
         /\ job' = [job EXCEPT ![r] = ended]
  BY <1>1 DEF Goes
<1> HIDE DEF planned
<1>4. /\ ended.execution = p.execution /\ ended.inventory = job[r].inventory
      /\ ended.selected = job[r].selected /\ ended.full = job[r].full
      /\ ended.status = "no-tests-needed"
  BY <1>2 DEF Fields
<1> HIDE DEF ended
<1>5. pc[r] = "read" /\ holder' = holder /\ log' = log
  BY DEF PlanRun
<1>6. CASE job' = [job EXCEPT ![r] = planned] /\ p.execution # "none"
           /\ pc' = [pc EXCEPT ![r] = "queued"]
  <2>1. job'[r] = planned
    BY <1>0, <1>6
  <2> QED BY <1>2, <1>5, <1>6, <2>1
<1>7. CASE job' = [job EXCEPT ![r] = ended] /\ p.execution = "none"
           /\ pc' = [pc EXCEPT ![r] = "ran"]
  <2>1. job'[r] = ended
    BY <1>0, <1>7
  <2> QED BY <1>4, <1>5, <1>7, <2>1
<1> QED BY <1>3, <1>6, <1>7

\* What a step that commits nothing does to its own run, and to the rest.
LEMMA StepForm ==
  ASSUME Shape, NEW r \in Runs, Step(r), ~Publish(r)
  PROVE  /\ \E to : pc' = [pc EXCEPT ![r] = to]
         /\ (\E j : job' = [job EXCEPT ![r] = j]) \/ job' = job
         /\ \A s \in Runs \ {r} : holder = s => holder' = s
         /\ log' = log
<1> USE DEF Goes
<1>1. CASE PlanRun(r)
  BY <1>1, PlanRunForm
<1>2. CASE RefuseShadow(r) \/ Lose(r)
  BY <1>2 DEF RefuseShadow, Lose, Leave
<1>3. CASE Admit(r) \/ Gate(r) \/ Maintain(r)
  BY <1>3, HistoryAssumption DEF Admit, Gate, Maintain
<1>4. CASE ReadHistory(r) \/ Capture(r)
  BY <1>4 DEF ReadHistory, Capture
<1>5. CASE Execute(r)
  BY <1>5 DEF Execute
<1>6. CASE ExecuteShadow(r)
  BY <1>6 DEF ExecuteShadow
<1>7. CASE Recapture(r)
  BY <1>7 DEF Recapture
<1>8. CASE Number(r)
  BY <1>8 DEF Number
<1> QED BY <1>1, <1>2, <1>3, <1>4, <1>5, <1>6, <1>7, <1>8 DEF Step

LEMMA StepLeased == Shape /\ Leased /\ [Next]_vars => Leased'
<1> SUFFICES ASSUME Shape, Leased, [Next]_vars PROVE Leased'
  OBVIOUS
<1> USE DEF Goes
<1>1. CASE UNCHANGED <<pc, job, holder, log>>
  BY <1>1 DEF Leased, LeasedAt, Held, Unreported
<1>2. ASSUME NEW r \in Runs, Step(r)
      PROVE  Leased'
  <2>0. /\ LeasedAt(r)
        /\ DOMAIN pc = Runs /\ DOMAIN job = Runs /\ DOMAIN job[r] = Fields
        /\ None \notin Runs
    BY HistoryAssumption DEF Leased, Shape, JobsOK, TypeOK
  <2>1. ASSUME NEW s \in Runs, s # r
        PROVE  LeasedAt(s)'
    <3>1. CASE Publish(r)
      <4>1. /\ pc' = [pc EXCEPT ![r] = "done"] /\ holder' = IF holder = r THEN None ELSE holder
            /\ job' = [job EXCEPT ![r] = [Blank EXCEPT !.mode = ModeOf[r]]]
            /\ log' = log \union {Result(r)} /\ pc[r] = "pruned"
        BY <3>1 DEF Publish, Leave
      <4>2. CASE holder = s
        BY <4>1, <4>2, <2>1, PublisherOwes, OtherLeased
      <4>3. CASE holder # s
        <5>1. pc'[s] = pc[s] /\ job'[s] = job[s]
          BY <4>1, <2>0, <2>1
        <5>2. LeasedAt(s)
          BY DEF Leased
        <5> QED BY <5>1, <5>2, <4>3 DEF LeasedAt, Held, Unreported
      <4> QED BY <4>2, <4>3
    <3>2. CASE ~Publish(r)
      <4>1. /\ \E to : pc' = [pc EXCEPT ![r] = to]
            /\ (\E j : job' = [job EXCEPT ![r] = j]) \/ job' = job
            /\ holder = s => holder' = s
            /\ log' = log
        BY <1>2, <3>2, <2>1, StepForm
      <4> QED BY <4>1, <2>1, OtherLeased
    <3> QED BY <3>1, <3>2
  <2>2. LeasedAt(r)'
    <3> USE <2>0
    <3>1. CASE ReadHistory(r)
      BY <3>1 DEF ReadHistory, LeasedAt, Held, Later, Unreported, Fields
    <3>2. CASE PlanRun(r)
      BY <3>2, PlanRunForm DEF LeasedAt, Held, Later, Unreported
    <3>3. CASE RefuseShadow(r)
      BY <3>3 DEF RefuseShadow, LeasedAt, Held, Later, Unreported, Blank
    <3>4. CASE Admit(r)
      BY <3>4 DEF Admit, LeasedAt, Held, Later, Unreported
    <3>5. CASE Capture(r)
      BY <3>5 DEF Capture, LeasedAt, Held, Later, Unreported, Fields
    <3>6. CASE Gate(r)
      BY <3>6 DEF Gate, LeasedAt, Held, Later, Unreported
    <3>7. CASE Execute(r)
      BY <3>7 DEF Execute, LeasedAt, Held, Later, Unreported, Fields
    <3>8. CASE ExecuteShadow(r)
      BY <3>8 DEF ExecuteShadow, LeasedAt, Held, Later, Unreported, Fields
    <3>9. CASE Recapture(r)
      BY <3>9 DEF Recapture, LeasedAt, Held, Later, Unreported, Fields
    <3>10. CASE Number(r)
      BY <3>10 DEF Number, LeasedAt, Held, Later, Unreported, Fields
    <3>11. CASE Maintain(r)
      BY <3>11 DEF Maintain, LeasedAt, Held, Later, Unreported
    <3>12. CASE Publish(r) \/ Lose(r)
      BY <3>12 DEF Publish, Lose, Leave, LeasedAt, Held, Later, Unreported, Blank
    <3> QED
      BY <1>2, <3>1, <3>2, <3>3, <3>4, <3>5, <3>6, <3>7, <3>8, <3>9, <3>10, <3>11, <3>12 DEF Step
  <2> QED BY <2>1, <2>2 DEF Leased
<1>3. Edit => UNCHANGED <<pc, job, holder, log>>
  BY DEF Edit
<1> QED BY <1>1, <1>2, <1>3 DEF Next, vars

LEMMA LeaseHolds == Spec => []Leased
  BY InitLeased, StepLeased, ShapeHolds, PTL DEF Spec

\* Only what ran under the admission discharges anything, and it saw the rest.
LEMMA DischargerSaw ==
  ASSUME Shape, Leased, NEW r \in Runs, Publish(r), NEW k, NEW o, Discharged(k, o, Result(r)),
         NEW q \in log, Owed(q) # {}
  PROVE  q.run \in job[r].seen
<1>1. job[r].execution # "none"
  <2>1. Result(r).execution = job[r].execution /\ Result(r).inventory = job[r].inventory
    BY DEF Result
  <2>2. Conclusive(Result(r).inventory)
    BY DEF Discharged, Passes, Removed, GateMet, Promoted, ConclusivePass, CleanFull
  <2> QED BY <2>1, <2>2 DEF Conclusive, Leased, LeasedAt, Unreported
<1>2. pc[r] = "pruned"
  BY DEF Publish
<1> QED BY <1>1, <1>2 DEF Leased, LeasedAt, Held, Later

LEMMA StepClears ==
  ASSUME Shape, Leased, [Next]_vars, NEW k \in DOMAIN obligations \ DOMAIN obligations'
  PROVE  \E res \in log' \ log :
           \A q \in log : k \in FailedIn(q) \/ (k = WholeGate /\ Unattributed(q)) => q.run \in res.seen
<1>1. PICK r \in Runs : Publish(r)
  BY OnlyPublish
<1>2. PICK res : res = Result(r)
  OBVIOUS
<1>3. /\ log' = log \union {res}
      /\ \A item \in (DOMAIN obligations \union Owed(res)) \ DOMAIN obligations' :
           \E o : Discharged(item, o, res)
  BY <1>1, <1>2, PublishObligations
<1>4. PICK o : Discharged(k, o, res)
  BY <1>3
<1>5. res.run = r /\ res.seen = job[r].seen
  BY <1>2 DEF Result
<1>6. res \notin log
  BY <1>1, <1>5 DEF Shape, Once, Publish
<1>7. ASSUME NEW q \in log, k \in FailedIn(q) \/ (k = WholeGate /\ Unattributed(q))
      PROVE  q.run \in res.seen
  <2>1. Owed(q) # {}
    BY <1>7 DEF Owed
  <2> QED BY <2>1, <1>1, <1>2, <1>4, <1>5, DischargerSaw
<1> QED BY <1>3, <1>6, <1>7

\* A pass discharges only failures committed before its run photographed the
\* source: the late numbering lets no overlapping run clear anything.
THEOREM OverlapsClearNothing == Spec => OverlapClearsNothing
<1>1. Shape /\ Leased /\ [Next]_vars =>
        [\A k \in DOMAIN obligations \ DOMAIN obligations' :
           \E res \in log' \ log :
             \A q \in log : k \in FailedIn(q) \/ (k = WholeGate /\ Unattributed(q))
                            => q.run \in res.seen]_vars
  BY StepClears
<1> QED BY <1>1, ShapeHolds, LeaseHolds, PTL DEF Spec, OverlapClearsNothing

-----------------------------------------------------------------------------
(***************************************************************************)
(* Shadow comparisons.  What a run at p carries as j: attempts only where  *)
(* plan and capture saw one source, and a pass where both attempts passed  *)
(* and the verdict counts.                                                 *)
(***************************************************************************)
Finished == {"ran", "numbered", "pruned"}

ComparedAt(p, j) ==
  j.mode = "shadow" =>
    /\ j.selected # None => p \in Finished \union {"executed"}
    /\ j.selected # None \/ p = "running" => SameSource(j.planned, j.before)
    /\ BothPass(j) /\ p = "executed" => j.status = "passed"
    /\ BothPass(j) /\ Verdict(j) # "incomplete" /\ p \in Finished => j.status = "passed"

Judged(q) ==
  q.mode = "shadow" =>
    /\ q.selected # None => SameSource(q.planned, q.before)
    /\ BothPass(q) /\ Verdict(q) # "incomplete" => q.status = "passed"

Compared ==
  /\ \A r \in Runs : ComparedAt(pc[r], job[r])
  /\ \A q \in log : Judged(q)

LEMMA SameVerdict ==
  ASSUME NEW i, NEW j, i.selected = j.selected, i.full = j.full,
         i.before = j.before, i.after = j.after
  PROVE  Verdict(i) = Verdict(j) /\ BothPass(i) = BothPass(j)
<1>1. SourceValid(i) = SourceValid(j)
  BY DEF SourceValid
<1> QED BY <1>1 DEF Verdict, BothPass

\* A run without attempts, where it does not run any.
LEMMA NothingCompared ==
  ASSUME NEW p, NEW j, j.selected = None, p # "running"
  PROVE  ComparedAt(p, j)
<1>1. ~BothPass(j)
  BY DEF BothPass
<1> QED BY <1>1 DEF ComparedAt

\* A step to a place where less is asked, that keeps what the verdict is of.
LEMMA StillCompared ==
  ASSUME NEW p, NEW to, NEW i, NEW j, ComparedAt(p, i),
         j.mode = i.mode, j.selected = i.selected, j.full = i.full, j.planned = i.planned,
         j.before = i.before, j.after = i.after, j.status = i.status,
         p \in Finished, to \in Finished
  PROVE  ComparedAt(to, j)
<1>1. Verdict(j) = Verdict(i) /\ BothPass(j) = BothPass(i)
  BY SameVerdict
<1> QED BY <1>1 DEF ComparedAt, Finished

LEMMA InitCompared == Init => Compared
<1> SUFFICES ASSUME Init PROVE Compared
  OBVIOUS
<1>1. ASSUME NEW r \in Runs PROVE ComparedAt(pc[r], job[r])
  <2>1. pc[r] = "idle" /\ job[r].selected = None
    BY <1>1 DEF Init, Blank
  <2> QED BY <2>1, NothingCompared
<1> QED BY <1>1 DEF Init, Compared

LEMMA StepCompared == Shape /\ Leased /\ Compared /\ [Next]_vars => Compared'
<1> SUFFICES ASSUME Shape, Leased, Compared, [Next]_vars PROVE Compared'
  OBVIOUS
<1> USE DEF Goes
<1>1. CASE UNCHANGED <<pc, job, log>>
  BY <1>1 DEF Compared
<1>2. ASSUME NEW r \in Runs, Step(r)
      PROVE  Compared'
  <2>0. /\ ComparedAt(pc[r], job[r])
        /\ DOMAIN pc = Runs /\ DOMAIN job = Runs /\ DOMAIN job[r] = Fields
        /\ pc[r] \in {"idle", "read"} => job[r].selected = None
    BY DEF Compared, Shape, JobsOK, TypeOK, Leased, LeasedAt, Unreported
  <2>1. ASSUME NEW s \in Runs, s # r
        PROVE  ComparedAt(pc'[s], job'[s])
    <3>1. CASE Publish(r)
      <4>1. pc'[s] = pc[s] /\ job'[s] = job[s]
        BY <2>0, <2>1, <3>1 DEF Publish, Leave
      <4> QED BY <4>1 DEF Compared
    <3>2. CASE ~Publish(r)
      <4>1. pc'[s] = pc[s] /\ job'[s] = job[s]
        BY <1>2, <2>0, <2>1, <3>2, StepForm
      <4> QED BY <4>1 DEF Compared
    <3> QED BY <3>1, <3>2
  <2>2. ComparedAt(pc'[r], job'[r])
    <3> USE <2>0
    <3>1. CASE ReadHistory(r)
      <4>1. pc'[r] = "read" /\ job'[r].selected = None
        BY <3>1 DEF ReadHistory, Fields
      <4> QED BY <4>1, NothingCompared
    <3>2. CASE PlanRun(r)
      <4>1. pc'[r] \in {"queued", "ran"} /\ job'[r].selected = None
        BY <3>2, PlanRunForm
      <4> QED BY <4>1, NothingCompared
    <3>3. CASE RefuseShadow(r) \/ Publish(r) \/ Lose(r)
      <4>1. pc'[r] = "done" /\ job'[r].selected = None
        BY <3>3 DEF RefuseShadow, Publish, Lose, Leave, Blank
      <4> QED BY <4>1, NothingCompared
    <3>4. CASE Admit(r)
      <4>1. pc[r] = "queued" /\ pc'[r] = "granted" /\ job'[r] = job[r]
        BY <3>4 DEF Admit
      <4> QED BY <4>1 DEF ComparedAt, BothPass, Finished
    <3>5. CASE Capture(r)
      <4>1. pc[r] = "granted" /\ pc'[r] = "captured"
            /\ job'[r].selected = job[r].selected /\ job'[r].mode = job[r].mode
        BY <3>5 DEF Capture, Fields
      <4> QED BY <4>1 DEF ComparedAt, BothPass, Finished
    <3>6. CASE Gate(r)
      <4>1. /\ pc[r] = "captured" /\ job'[r] = job[r]
            /\ pc'[r] = IF Moved(r) THEN "executed" ELSE "running"
        BY <3>6 DEF Gate
      <4> QED BY <4>1 DEF ComparedAt, BothPass, Finished, Moved
    <3>7. CASE Execute(r)
      <4>1. job'[r].mode # "shadow"
        BY <3>7 DEF Execute, Fields
      <4> QED BY <4>1 DEF ComparedAt
    <3>8. CASE ExecuteShadow(r)
      <4> DEFINE all == {item \in Tests : job[r].before.src[FileOf[item]] # 0}
                 ended(s, f) == IF f = None THEN "incomplete"
                                ELSE IF s.red \/ f.red THEN "failed" ELSE "passed"
      <4>1. PICK s \in Reports(Collected(r)), f \in Reports(all) \union {None} :
              job' = [job EXCEPT ![r].selected = s, ![r].full = f, ![r].status = ended(s, f)]
        BY <3>8 DEF ExecuteShadow
      <4>2. /\ job'[r].selected = s /\ job'[r].full = f /\ job'[r].mode = job[r].mode
            /\ job'[r].planned = job[r].planned /\ job'[r].before = job[r].before
            /\ job'[r].status = IF f = None THEN "incomplete"
                                ELSE IF s.red \/ f.red THEN "failed" ELSE "passed"
        BY <4>1 DEF Fields
      <4>3. pc[r] = "running" /\ pc'[r] = "executed" /\ job[r].mode = "shadow"
        BY <3>8 DEF ExecuteShadow
      <4> QED BY <4>2, <4>3 DEF ComparedAt, BothPass, Finished
    <3>9. CASE Recapture(r)
      <4> DEFINE seen == [job[r] EXCEPT !.after = tree]
      <4>1. /\ pc[r] = "executed" /\ pc'[r] = "ran"
            /\ job'[r] = [seen EXCEPT !.status = Settled(seen)]
        BY <3>9 DEF Recapture
      <4>2. /\ DOMAIN seen = Fields /\ seen.mode = job[r].mode /\ seen.selected = job[r].selected
            /\ seen.full = job[r].full /\ seen.planned = job[r].planned
            /\ seen.before = job[r].before /\ seen.status = job[r].status
        BY DEF Fields
      <4> HIDE DEF seen
      <4>3. /\ job'[r].mode = seen.mode /\ job'[r].selected = seen.selected
            /\ job'[r].full = seen.full /\ job'[r].planned = seen.planned
            /\ job'[r].before = seen.before /\ job'[r].after = seen.after
            /\ job'[r].status = Settled(seen)
        BY <4>1, <4>2 DEF Fields
      <4>4. Verdict(job'[r]) = Verdict(seen) /\ BothPass(job'[r]) = BothPass(seen)
        BY <4>3, SameVerdict
      <4>5. BothPass(seen) = BothPass(job[r])
        BY <4>2 DEF BothPass
      <4>6. /\ job[r].mode = "shadow" /\ (job[r].selected # None) => SameSource(job[r].planned, job[r].before)
            /\ job[r].mode = "shadow" /\ BothPass(job[r]) => job[r].status = "passed"
        BY <4>1 DEF ComparedAt
      <4> QED BY <4>1, <4>2, <4>3, <4>4, <4>5, <4>6 DEF ComparedAt, Settled, Finished
    <3>10. CASE Number(r)
      <4>1. /\ pc[r] = "ran" /\ pc'[r] = "numbered"
            /\ job'[r].mode = job[r].mode /\ job'[r].selected = job[r].selected
            /\ job'[r].full = job[r].full /\ job'[r].planned = job[r].planned
            /\ job'[r].before = job[r].before /\ job'[r].after = job[r].after
            /\ job'[r].status = job[r].status
        BY <3>10 DEF Number, Fields
      <4> QED BY <4>1, StillCompared DEF Finished
    <3>11. CASE Maintain(r)
      <4>1. pc[r] = "numbered" /\ pc'[r] = "pruned" /\ job'[r] = job[r]
        BY <3>11 DEF Maintain
      <4> QED BY <4>1, StillCompared DEF Finished
    <3> QED
      BY <1>2, <3>1, <3>2, <3>3, <3>4, <3>5, <3>6, <3>7, <3>8, <3>9, <3>10, <3>11 DEF Step
  <2>3. \A q \in log' : Judged(q)
    <3>1. CASE Publish(r)
      <4>1. PICK res : res = Result(r)
        OBVIOUS
      <4>2. /\ res.mode = job[r].mode /\ res.selected = job[r].selected /\ res.full = job[r].full
            /\ res.planned = job[r].planned /\ res.before = job[r].before
            /\ res.after = job[r].after /\ res.status = job[r].status
        BY <4>1 DEF Result
      <4>3. Verdict(res) = Verdict(job[r]) /\ BothPass(res) = BothPass(job[r])
        BY <4>2, SameVerdict
      <4>4. pc[r] = "pruned" /\ log' = log \union {res}
        BY <3>1, <4>1 DEF Publish
      <4>5. Judged(res)
        BY <2>0, <4>2, <4>3, <4>4 DEF ComparedAt, Judged, Finished
      <4> QED BY <4>4, <4>5 DEF Compared
    <3>2. CASE ~Publish(r)
      BY <1>2, <3>2, StepForm DEF Compared
    <3> QED BY <3>1, <3>2
  <2>4. \A s \in Runs : ComparedAt(pc'[s], job'[s])
    BY <2>1, <2>2
  <2> QED BY <2>3, <2>4 DEF Compared
<1>3. Edit => UNCHANGED <<pc, job, log>>
  BY DEF Edit
<1> QED BY <1>1, <1>2, <1>3 DEF Next, vars

LEMMA ComparisonsHold == Spec => []Compared
  BY InitCompared, StepCompared, ShapeHolds, LeaseHolds, PTL DEF Spec

\* A committed comparison whose verdict counts is of one source: the one its
\* plan was made for, however often the tree was edited between plan,
\* admission, attempts and final photograph.
THEOREM ComparisonsAreOfThePlan == Spec => []ShadowComparesPlannedSource
<1>1. Compared => ShadowComparesPlannedSource
  BY DEF Compared, Judged, ShadowComparesPlannedSource, Verdict, SourceValid
<1> QED BY <1>1, ComparisonsHold, PTL

\* What a run carries of the sources it saw is of trees there are, so that a
\* suspicion of it is a suspicion, and no missing row.
SourcedAt(j) ==
  /\ {j.before, j.after} \subseteq Trees \union {None}
  /\ j.policy \in {t.policy : t \in Trees} \union {None}

Sourced == \A r \in Runs : SourcedAt(job[r])

LEMMA InitSourced == Init => Sourced
  BY DEF Init, Sourced, SourcedAt, Blank

LEMMA StepSourced == Shape /\ Sourced /\ [Next]_vars => Sourced'
<1> SUFFICES ASSUME Shape, Sourced, [Next]_vars PROVE Sourced'
  OBVIOUS
<1> USE DEF Goes
<1>1. CASE job' = job
  BY <1>1 DEF Sourced, SourcedAt
<1>2. ASSUME NEW r \in Runs, Step(r)
      PROVE  Sourced'
  <2>0. /\ SourcedAt(job[r]) /\ tree \in Trees
        /\ DOMAIN job = Runs /\ DOMAIN job[r] = Fields
    BY DEF Sourced, Shape, JobsOK, TypeOK
  <2>1. (\E j : job' = [job EXCEPT ![r] = j]) \/ job' = job
    BY <1>2, StepForm DEF Publish, Leave
  <2>2. SourcedAt(job'[r])
    <3> USE <2>0
    <3>1. CASE ReadHistory(r)
      BY <3>1 DEF ReadHistory, SourcedAt, Fields
    <3>2. CASE PlanRun(r)
      <4>1. PICK p \in PlansFor(ModeOf[r], job[r].view, tree) :
              LET planned == [job[r] EXCEPT
                    !.execution = p.execution, !.files = p.files, !.base = p.base,
                    !.expected = IF ModeOf[r] = "shadow" THEN job[r].view.quarantine ELSE None,
                    !.view = None, !.planned = tree, !.policy = tree.policy]
              IN  \/ job' = [job EXCEPT ![r] = planned]
                  \/ job' = [job EXCEPT ![r] = [planned EXCEPT
                         !.before = tree, !.after = tree, !.status = "no-tests-needed"]]
        BY <3>2 DEF PlanRun
      <4>2. /\ job'[r].before \in {job[r].before, tree} /\ job'[r].after \in {job[r].after, tree}
            /\ job'[r].policy = tree.policy
        BY <4>1, ZenonT(30) DEF Fields
      <4> QED BY <4>2 DEF SourcedAt
    <3>3. CASE RefuseShadow(r) \/ Publish(r) \/ Lose(r)
      BY <3>3 DEF RefuseShadow, Publish, Lose, Leave, SourcedAt, Blank
    <3>4. CASE Admit(r) \/ Gate(r) \/ Maintain(r)
      BY <3>4 DEF Admit, Gate, Maintain
    <3>5. CASE Capture(r)
      BY <3>5 DEF Capture, SourcedAt, Fields
    <3>6. CASE Execute(r)
      BY <3>6 DEF Execute, SourcedAt, Fields
    <3>7. CASE ExecuteShadow(r)
      BY <3>7 DEF ExecuteShadow, SourcedAt, Fields
    <3>8. CASE Recapture(r)
      BY <3>8 DEF Recapture, SourcedAt, Fields
    <3>9. CASE Number(r)
      BY <3>9 DEF Number, SourcedAt, Fields
    <3> QED
      BY <1>2, <3>1, <3>2, <3>3, <3>4, <3>5, <3>6, <3>7, <3>8, <3>9 DEF Step
  <2> QED BY <2>0, <2>1, <2>2 DEF Sourced
<1>3. Edit => job' = job
  BY DEF Edit
<1> QED BY <1>1, <1>2, <1>3 DEF Next, vars

LEMMA SourcesHold == Spec => []Sourced
  BY InitSourced, StepSourced, ShapeHolds, PTL DEF Spec

\* A standing suspicion is no missing row.
LEMMA SuspicionStands ==
  ASSUME Shape, Sourced, NEW r \in Runs, NEW res, res = Result(r), SourceValid(res),
         Verdict(res) \in {"suspected-miss", "unclassified-divergence"}
  PROVE  Suspicion(res) # None
<1>1. res.run = r /\ res.seq \in Nat /\ SourcedAt(job[r])
  BY ResultTyped DEF Shape, Sourced
<1>2. res.after = job[r].after /\ res.policy = job[r].policy
  BY DEF Result
<1>3. res.after # None /\ ResultEnv(res) = res.after.env
  BY DEF SourceValid, Known, ResultEnv
<1>4. res.after \in Trees /\ res.policy \in {t.policy : t \in Trees} \union {None}
  BY <1>1, <1>2, <1>3 DEF SourcedAt
<1>5. ResultEnv(res) \in {t.env : t \in Trees} /\ res.after.src \in {t.src : t \in Trees}
  BY <1>3, <1>4
<1>6. Suspicion(res) \in Suspicions
  BY <1>1, <1>4, <1>5 DEF Suspicion, Suspicions
<1> QED BY <1>6, NoneAssumption

\* What a publication makes of a standing quarantine.
LEMMA StepStands ==
  ASSUME Shape, Leased, Compared, Sourced, BaselineIsNewest, [Next]_vars,
         quarantine # None, quarantine' # quarantine
  PROVE  IF quarantine' # None THEN quarantine'.seq > quarantine.seq
         ELSE \E res \in log' \ log, bs \in log :
                /\ res.seq > bs.seq /\ bs.seq > quarantine.seq /\ CleanFull(bs)
                /\ BothPass(res) /\ res.status = "passed"
                /\ <<bs.policy, ResultEnv(bs)>> # <<quarantine.policy, quarantine.env>>
<1>1. PICK r \in Runs : Publish(r)
  BY DEF Next, Step, vars, store, Edit, ReadHistory, PlanRun, RefuseShadow, Admit, Capture,
         Gate, Execute, ExecuteShadow, Recapture, Number, Maintain, Lose
<1>2. PICK res : res = Result(r)
  OBVIOUS
<1>3. /\ quarantine' = Quarantined(res) /\ log' = log \union {res} /\ res.run = r
      /\ pc[r] = "pruned"
  BY <1>1, <1>2 DEF Publish, Result
<1>4. res \notin log
  BY <1>3 DEF Shape, Once
<1>5. Judged(res)
  BY <1>3, StepCompared DEF Compared
<1>6. CASE quarantine' # None
  <2>1. quarantine' = Suspicion(res) /\ res.seq > quarantine.seq
    BY <1>3, <1>6 DEF Quarantined
  <2> QED BY <1>6, <2>1 DEF Suspicion
<1>7. CASE quarantine' = None
  <2>1. Lifts(res) /\ res.mode = "shadow"
    <3>1. CASE quarantine' = Suspicion(res)
      BY <1>2, <1>3, <1>7, <3>1, SuspicionStands DEF Quarantined, Eligible
    <3> QED BY <1>3, <1>7, <3>1 DEF Quarantined
  <2>2. PICK bs \in baselines : /\ quarantine.seq < bs.seq /\ bs.seq < res.seq
                               /\ bs.policy = res.policy /\ ResultEnv(bs) = ResultEnv(res)
    BY <2>1 DEF Lifts
  <2>3. bs \in log /\ CleanFull(bs) /\ bs.seq \in Nat /\ res.seq \in Nat
    BY <1>2, ResultTyped DEF Shape, TypeOK, ResultOK, BaselineIsNewest
  <2>4. /\ <<res.policy, ResultEnv(res)>> # <<quarantine.policy, quarantine.env>>
        /\ BothPass(res) /\ Verdict(res) = "matched"
    BY <2>1 DEF Lifts
  <2>5. res.status = "passed"
    BY <1>5, <2>1, <2>4 DEF Judged
  <2>6. res.seq > bs.seq /\ bs.seq > quarantine.seq
    BY <2>2
  <2>7. <<bs.policy, ResultEnv(bs)>> # <<quarantine.policy, quarantine.env>>
    BY <2>2, <2>4
  <2> QED BY <1>3, <1>4, <1>7, <2>3, <2>4, <2>5, <2>6, <2>7
<1> QED BY <1>6, <1>7

\* A quarantine is replaced by newer suspicions only, and lifted only by a
\* comparison that passed twice behind a clean full gate of other inputs,
\* numbered between the two.
THEOREM QuarantinesStand == Spec => QuarantineStands
<1>1. Shape /\ Leased /\ Compared /\ Sourced /\ BaselineIsNewest /\ [Next]_vars => [Stands]_vars
  BY StepStands DEF Stands
<1> QED
  BY <1>1, ShapeHolds, LeaseHolds, ComparisonsHold, SourcesHold, NewestBaseline, PTL DEF Spec, QuarantineStands

-----------------------------------------------------------------------------
(***************************************************************************)
(* The marker files, for any number of publishers and readers, wherever    *)
(* each one dies and whatever may fail.                                    *)
(*                                                                         *)
(* An outcome that is or may be lost is vouched for: a marker with its     *)
(* number or a higher one is there, and nobody is about to remove it.      *)
(* Whoever holds the lock found a marker for every such outcome but its    *)
(* own (Based), so that it may take its own marker back; a full gate takes *)
(* the markers it found as well, after its commit has settled what they    *)
(* vouch for.                                                              *)
(***************************************************************************)
Numbers == Nat \union {None}
MarkerFiles == {"reserve", "publication", "active", "capacity"}
Locked == {"enter", "drop active", "announce", "publish", "reserve", "store", "claim", "clean"}
Unlocked == {"run", "set aside", "check", "queue", "persist", "done", "gone"}
PublisherStates ==
  [pc : Locked \union Unlocked, seq : Nat, try : {1, 2}, inherited : Numbers, capacity : Numbers,
   todo : Seq(MarkerFiles), strict : BOOLEAN,
   ending : {"none", "committed", "refused", "unavailable", "previous", "corrupt", "exceeded"},
   enabled : BOOLEAN, owes : BOOLEAN, exit : {0, 70}]
Warnings == {"exceeded", "corrupt", "uncertain"}
ReaderStates ==
  [pc : {"start", "capacity", "publication", "capacity again", "active", "capacity last",
         "publication again", "open", "set aside", "done"},
   try : {1, 2}, capacity : Numbers, publication : Numbers, mark : Warnings \union {None},
   view : Warnings \union {"none", "enabled", "no history"},
   owed : SUBSET Publishers, seen : SUBSET Publishers]
MarkerStates ==
  [publication : Numbers, capacity : Numbers, reserve : Numbers,
   active : [by : Publishers, seq : Nat] \union {None}]
Commits == [by : Publishers, seq : Nat]
MarkersTyped ==
  /\ setting \in Settings /\ disabled \in BOOLEAN /\ file \in {"absent", "current", "previous"}
  /\ marker \in MarkerStates /\ rows \subseteq Commits /\ lock \in Publishers \union {None}
  /\ pub \in [Publishers -> PublisherStates] /\ reader \in [Readers -> ReaderStates]
  /\ lost \subseteq Publishers
\* Finitely many numbers have been given.
Shallow == \E n \in Nat : \A row \in rows : row.seq <= n

\* Who holds the lock, who may still lose its outcome, and where the store of
\* the previous project plays no part.
OrderedAt(p) ==
  /\ pub[p].pc \in Locked <=> lock = p
  /\ pub[p].owes => pub[p].pc \notin {"run", "done", "gone"}
  /\ p \in lost => pub[p].pc \in {"done", "gone"}
  /\ pub[p].pc \notin {"clean", "gone"} => pub[p].todo = <<>>
  /\ pub[p].pc = "claim" => pub[p].ending = "exceeded"
  /\ setting.start # "previous" => pub[p].pc # "set aside" /\ pub[p].ending # "previous"
Ordered ==
  /\ \A p \in Publishers : OrderedAt(p)
  /\ setting.start # "previous" => file # "previous" /\ \A r \in Readers : reader[r].pc # "set aside"

Elements(s) == {s[i] : i \in 1 .. Len(s)}
Due(m) == lock \in Publishers /\ m \in Elements(pub[lock].todo)

\* What the holder of the lock has read is still so, and what it wrote is there.
Learnt(p) ==
  /\ pub[p].pc \in Locked \ {"enter", "clean"} => marker.capacity = pub[p].capacity
  /\ pub[p].pc \in {"drop active", "announce", "publish"} => marker.publication = pub[p].inherited
  /\ pub[p].pc \in {"reserve", "store", "claim"} =>
       marker.publication = Markers!Highest({pub[p].seq, pub[p].inherited})
  /\ pub[p].pc \in {"store", "claim"} =>
       marker.reserve = Markers!Highest({pub[p].seq, pub[p].capacity, pub[p].inherited})

\* A capacity marker is removed behind a commit that settled it, and a receipt
\* promises what is left when everything is removed.
Cleans(p) ==
  pub[p].pc = "clean" =>
    /\ Due("capacity") =>
         /\ p \in FullGates /\ (marker.capacity # None => pub[p].seq > marker.capacity)
         /\ setting.start # "previous" => [by |-> p, seq |-> pub[p].seq] \in rows
    /\ pub[p].ending = "committed" /\ pub[p].enabled =>
         (marker.capacity # None => Due("capacity")) /\ (marker.publication # None => Due("publication"))

Above(m, n) == m # None /\ n <= m
Owing(q) == pub[q].owes \/ q \in lost
Claimed(q) == Above(marker.capacity, pub[q].seq) /\ ~ Due("capacity")
Vouched(q) == (Above(marker.publication, pub[q].seq) /\ ~ Due("publication")) \/ Claimed(q)
LossesVouched == \A q \in Publishers : Owing(q) => Vouched(q)
BasedAt(p) ==
  \A q \in Publishers \ {p} : Owing(q) => Above(pub[p].inherited, pub[q].seq) \/ Claimed(q)
Based == \A p \in Publishers : pub[p].pc \in Locked \ {"enter"} => BasedAt(p)

\* What a reader has seen of markers and losses.
ReadsAt(r) ==
  /\ \A q \in reader[r].owed \union reader[r].seen : pub[q].pc \in {"done", "gone"}
  /\ reader[r].pc = "capacity again" =>
       reader[r].publication = None /\ \A q \in reader[r].seen \intersect lost : Claimed(q)
  /\ reader[r].pc \in {"active", "capacity last", "publication again"} => reader[r].publication # None
  /\ reader[r].pc = "open" /\ reader[r].mark = None /\ reader[r].publication = None =>
       reader[r].seen \intersect lost = {}

\* Where every marker can be written and removed and the store is never full.
Smooth == setting.faults \intersect {"marker", "full"} = {}
Writing == {"publish", "reserve", "store", "claim", "clean"}
Unclaimed == Smooth => marker.capacity = None /\ \A p \in Publishers : pub[p].pc # "claim"
Owned ==
  Smooth /\ marker.active # None /\ Markers!Alive(marker.active.by) =>
    /\ lock = marker.active.by /\ pub[lock].pc \in Writing /\ pub[lock].inherited = None
    /\ pub[lock].pc = "clean" => Due("active")
HeedsAt(r) ==
  Smooth =>
    /\ reader[r].pc = "capacity again" => reader[r].owed \intersect lost \subseteq reader[r].seen
    /\ reader[r].pc = "open" /\ reader[r].mark = None => reader[r].owed \intersect lost = {}

Marked == /\ MarkersTyped /\ Shallow /\ Ordered
          /\ \A p \in Publishers : Learnt(p) /\ Cleans(p)
Kept == Marked /\ LossesVouched /\ Based /\ Unclaimed /\ Owned
Heard == \A r \in Readers : ReadsAt(r) /\ HeedsAt(r)
MarkersInv == Kept /\ Heard

\* What a publisher may do to the readers: nothing of theirs is taken back.
KeepsReaders ==
  /\ reader' = reader /\ setting' = setting
  /\ \A q \in Publishers :
       pub[q].pc \in {"done", "gone"} => pub'[q].pc \in {"done", "gone"} /\ (q \in lost' => q \in lost)
  /\ \A q \in lost \intersect lost' : Claimed(q) => Claimed(q)'

\* A step that writes no marker, of a publisher without the lock or that takes
\* or gives back the lock.
Aside(p) ==
  /\ marker' = marker /\ reader' = reader /\ setting' = setting
  /\ \A q \in Publishers \ {p} : pub'[q] = pub[q] /\ (lock' = q <=> lock = q)
  /\ lost' \subseteq lost \union {p} /\ OrderedAt(p)' /\ pub'[p].pc \in Unlocked \union {"enter"}
  /\ pub[p].pc \in Writing => pub'[p].pc = "gone" \/ (pub[p].pc = "clean" /\ pub[p].todo = <<>>)
  /\ Owing(p)' => Owing(p) /\ pub'[p].seq = pub[p].seq
  /\ pub[p].pc \in {"done", "gone"} => pub'[p].pc \in {"done", "gone"} /\ (p \in lost' => p \in lost)
  /\ pub[p].pc = "gone" => pub'[p].pc = "gone"
  /\ setting.start # "previous" => file' # "previous" /\ rows \subseteq rows'

\* A step of the holder of the lock, that keeps it.
Mine(p) ==
  /\ reader' = reader /\ setting' = setting /\ lock = p /\ lock' = p /\ pub[p].pc \in Locked
  /\ \A q \in Publishers \ {p} :
       /\ pub'[q].pc = pub[q].pc /\ pub'[q].seq = pub[q].seq
       /\ pub'[q].todo = pub[q].todo /\ pub'[q].ending = pub[q].ending
       /\ pub'[q].owes => pub[q].owes
  /\ lost' \subseteq lost
  /\ setting.start # "previous" => file' # "previous"
Holds(p) ==
  /\ Mine(p) /\ OrderedAt(p)' /\ pub'[p].pc \in Locked \ {"enter"}
  /\ Learnt(p)' /\ Cleans(p)' /\ BasedAt(p)'
  /\ \A q \in Publishers : Owing(q)' => Vouched(q)'
  /\ \A q \in lost' : Claimed(q) => Claimed(q)'
  /\ Smooth => marker'.capacity = None /\ pub'[p].pc # "claim"
  /\ Owned'
-----------------------------------------------------------------------------
(* Numbers and lists.                                                       *)

LEMMA LeastNumber == ASSUME NEW S \in SUBSET Nat, S # {} PROVE \E n \in S : \A m \in S : n <= m
<1> DEFINE Less == OpToRel(<, Nat)
<1>1. IsWellFoundedOn(Less, Nat)
  BY NatLessThanWellFounded
<1>2. \A i, j \in Nat : <<j, i>> \in Less <=> j < i
  BY DEF OpToRel
<1> HIDE DEF Less
<1>3. PICK n \in S : \A m \in S : ~ (<<m, n>> \in Less)
  BY <1>1, WFMin
<1>4. ASSUME NEW m \in S PROVE n <= m
  <2>1. m \in Nat /\ n \in Nat /\ ~ (<<m, n>> \in Less)
    BY <1>3
  <2> QED BY <1>2, <2>1
<1> QED BY <1>4

\* A bounded set of numbers has a greatest one: the least of its bounds.
LEMMA GreatestNumber ==
  ASSUME NEW S \in SUBSET Nat, S # {}, NEW n \in Nat, \A m \in S : m <= n
  PROVE  Markers!Max(S) \in S /\ \A m \in S : m <= Markers!Max(S)
<1> DEFINE B == {k \in Nat : \A m \in S : m <= k}
<1>1. B \in SUBSET Nat /\ B # {}
  OBVIOUS
<1> HIDE DEF B
<1>2. PICK k \in B : \A j \in B : k <= j
  BY <1>1, LeastNumber
<1> USE DEF B
<1>3. k \in S
  <2> SUFFICES ASSUME k \notin S PROVE FALSE
    OBVIOUS
  <2>1. \A m \in S : m <= k - 1 /\ m \in Nat
    OBVIOUS
  <2>2. k - 1 \in Nat
    <3>1. PICK m \in S : TRUE
      OBVIOUS
    <3>2. m \in Nat /\ m <= k - 1 /\ k \in Nat
      BY <2>1
    <3> QED BY <3>2
  <2>3. k - 1 \in B
    BY <2>1, <2>2
  <2> QED BY <1>2, <2>3
<1>4. \A m \in S : k >= m
  OBVIOUS
<1> HIDE DEF B
<1>5. \E e \in S : \A m \in S : e >= m
  BY <1>3, <1>4
<1>6. Markers!Max(S) \in S /\ \A m \in S : Markers!Max(S) >= m
  BY <1>5 DEF Markers!Max
<1> QED BY <1>6

\* Highest returns the highest number of those that are there, and 0 when
\* there is none.
LEMMA HighestOf ==
  ASSUME NEW m \in Nat, NEW k \in Numbers, NEW n \in Numbers
  PROVE  /\ Markers!Highest({m, k, n}) \in Nat
         /\ m <= Markers!Highest({m, k, n})
         /\ k # None => k <= Markers!Highest({m, k, n})
         /\ n # None => n <= Markers!Highest({m, k, n})
<1> DEFINE S == {i \in {m, k, n} : i # None} \union {0}
<1>0. None \notin Nat
  BY MarkersAssumption DEF Markers!MarkersMakeSense
<1>1. S \in SUBSET Nat /\ S # {}
  BY DEF Numbers
<1>2. \E i \in Nat : \A j \in S : j <= i
  <2>1. CASE k = None /\ n = None
    BY <2>1
  <2>2. CASE k = None /\ n \in Nat
    BY <2>2
  <2>3. CASE k \in Nat /\ n = None
    BY <2>3
  <2>4. CASE k \in Nat /\ n \in Nat
    BY <2>4
  <2> QED BY <2>1, <2>2, <2>3, <2>4 DEF Numbers
<1>3. PICK i \in Nat : \A j \in S : j <= i
  BY <1>2
<1>4. Markers!Highest({m, k, n}) = Markers!Max(S)
  BY DEF Markers!Highest
<1>5. m \in S /\ (k # None => k \in S) /\ (n # None => n \in S)
  BY <1>0
<1> HIDE DEF S
<1>6. Markers!Max(S) \in S /\ \A j \in S : j <= Markers!Max(S)
  BY <1>1, <1>3, GreatestNumber
<1> QED BY <1>1, <1>4, <1>5, <1>6

LEMMA HigherOf ==
  ASSUME NEW m \in Nat, NEW n \in Numbers
  PROVE  /\ Markers!Highest({m, n}) \in Nat
         /\ m <= Markers!Highest({m, n})
         /\ n # None => n <= Markers!Highest({m, n})
<1>1. {m, n, n} = {m, n}
  OBVIOUS
<1> QED BY <1>1, HighestOf

LEMMA NextIsNumber ==
  ASSUME MarkersTyped, Shallow
  PROVE  Markers!NextSequence \in Nat
<1>1. CASE rows = {}
  BY <1>1 DEF Markers!NextSequence
<1>2. CASE rows # {}
  <2> DEFINE S == {row.seq : row \in rows}
  <2>1. S \in SUBSET Nat /\ S # {}
    BY <1>2 DEF MarkersTyped, Commits
  <2>2. PICK n \in Nat : \A m \in S : m <= n
    BY DEF Shallow
  <2>3. Markers!NextSequence = Markers!Max(S) + 1
    BY <1>2 DEF Markers!NextSequence
  <2> HIDE DEF S
  <2>4. Markers!Max(S) \in S
    BY <2>1, <2>2, GreatestNumber
  <2>5. Markers!Max(S) \in Nat
    BY <2>1, <2>4
  <2> QED BY <2>3, <2>5
<1> QED BY <1>1, <1>2

\* What is left to do after the first removal.
LEMMA RestOf ==
  ASSUME NEW s \in Seq(MarkerFiles), s # <<>>
  PROVE  /\ Tail(s) \in Seq(MarkerFiles) /\ Head(s) \in MarkerFiles
         /\ Elements(s) = {Head(s)} \union Elements(Tail(s))
<1>1. Tail(s) \in Seq(MarkerFiles) /\ Head(s) \in MarkerFiles /\ Len(s) \in Nat /\ Len(s) > 0
  OBVIOUS
<1>2. Head(s) = s[1] /\ Len(Tail(s)) = Len(s) - 1
  OBVIOUS
<1>3. \A i \in 1 .. Len(Tail(s)) : Tail(s)[i] = s[i + 1]
  OBVIOUS
<1>4. Elements(s) \subseteq {Head(s)} \union Elements(Tail(s))
  <2> SUFFICES ASSUME NEW i \in 1 .. Len(s), i # 1 PROVE s[i] \in Elements(Tail(s))
    BY <1>1, <1>2 DEF Elements
  <2>1. i - 1 \in 1 .. Len(Tail(s)) /\ Tail(s)[i - 1] = s[i]
    BY <1>1, <1>2, <1>3
  <2> QED BY <2>1 DEF Elements
<1>5. Elements(Tail(s)) \subseteq Elements(s)
  <2> SUFFICES ASSUME NEW i \in 1 .. Len(Tail(s)) PROVE Tail(s)[i] \in Elements(s)
    BY DEF Elements
  <2>1. i + 1 \in 1 .. Len(s) /\ Tail(s)[i] = s[i + 1]
    BY <1>1, <1>2, <1>3
  <2> QED BY <2>1 DEF Elements
<1>6. Head(s) \in Elements(s)
  BY <1>1, <1>2 DEF Elements
<1> QED BY <1>1, <1>4, <1>5, <1>6

LEMMA NothingLeft == Elements(<<>>) = {} /\ <<>> \in Seq(MarkerFiles)
  BY DEF Elements

\* What two lists hold together.
LEMMA BothHold ==
  ASSUME NEW s \in Seq(MarkerFiles), NEW t \in Seq(MarkerFiles)
  PROVE  s \o t \in Seq(MarkerFiles) /\ Elements(s \o t) = Elements(s) \union Elements(t)
<1>1. /\ s \o t \in Seq(MarkerFiles) /\ Len(s) \in Nat /\ Len(t) \in Nat
      /\ Len(s \o t) = Len(s) + Len(t)
  OBVIOUS
<1>2. \A i \in 1 .. Len(s) + Len(t) : (s \o t)[i] = IF i <= Len(s) THEN s[i] ELSE t[i - Len(s)]
  OBVIOUS
<1>3. Elements(s \o t) \subseteq Elements(s) \union Elements(t)
  <2> SUFFICES ASSUME NEW i \in 1 .. Len(s \o t) PROVE (s \o t)[i] \in Elements(s) \union Elements(t)
    BY DEF Elements
  <2>1. CASE i <= Len(s)
    <3>1. i \in 1 .. Len(s) /\ (s \o t)[i] = s[i]
      BY <1>1, <1>2, <2>1
    <3> QED BY <3>1 DEF Elements
  <2>2. CASE ~ (i <= Len(s))
    <3>1. i - Len(s) \in 1 .. Len(t) /\ (s \o t)[i] = t[i - Len(s)]
      BY <1>1, <1>2, <2>2
    <3> QED BY <3>1 DEF Elements
  <2> QED BY <2>1, <2>2
<1>4. Elements(s) \subseteq Elements(s \o t)
  <2> SUFFICES ASSUME NEW i \in 1 .. Len(s) PROVE s[i] \in Elements(s \o t)
    BY DEF Elements
  <2>1. i \in 1 .. Len(s \o t) /\ (s \o t)[i] = s[i]
    BY <1>1, <1>2
  <2> QED BY <2>1 DEF Elements
<1>5. Elements(t) \subseteq Elements(s \o t)
  <2> SUFFICES ASSUME NEW i \in 1 .. Len(t) PROVE t[i] \in Elements(s \o t)
    BY DEF Elements
  <2>1. i + Len(s) \in 1 .. Len(s \o t) /\ (s \o t)[i + Len(s)] = t[i]
    BY <1>1, <1>2
  <2> QED BY <2>1 DEF Elements
<1> QED BY <1>1, <1>3, <1>4, <1>5

LEMMA OneHolds == ASSUME NEW m \in MarkerFiles PROVE <<m>> \in Seq(MarkerFiles) /\ Elements(<<m>>) = {m}
  BY DEF Elements

\* The removals after a publication that did not take place, or that did.
LEMMA LeftAfter ==
  ASSUME NEW retain \in BOOLEAN
  PROVE  /\ Markers!Reservation(retain) \in Seq(MarkerFiles)
         /\ Elements(Markers!Reservation(retain)) =
              {"reserve", "active"} \union IF retain THEN {} ELSE {"publication"}
<1> DEFINE t == IF retain THEN <<>> ELSE <<"publication">>
<1>1. <<"reserve">> \in Seq(MarkerFiles) /\ <<"active">> \in Seq(MarkerFiles)
  BY OneHolds DEF MarkerFiles
<1>2. t \in Seq(MarkerFiles) /\ Elements(t) = IF retain THEN {} ELSE {"publication"}
  BY OneHolds, NothingLeft DEF MarkerFiles
<1>3. Markers!Reservation(retain) = <<"reserve">> \o t \o <<"active">>
  BY DEF Markers!Reservation
<1> HIDE DEF t
<1>4. /\ <<"reserve">> \o t \in Seq(MarkerFiles)
      /\ Elements(<<"reserve">> \o t) = Elements(<<"reserve">>) \union Elements(t)
  BY <1>1, <1>2, BothHold
<1>5. /\ (<<"reserve">> \o t) \o <<"active">> \in Seq(MarkerFiles)
      /\ Elements((<<"reserve">> \o t) \o <<"active">>) =
           Elements(<<"reserve">> \o t) \union Elements(<<"active">>)
  BY <1>1, <1>4, BothHold
<1>6. Elements(<<"reserve">>) = {"reserve"} /\ Elements(<<"active">>) = {"active"}
  BY OneHolds DEF MarkerFiles
<1>7. Elements(Markers!Reservation(retain)) =
        ({"reserve"} \union Elements(t)) \union {"active"}
  BY <1>3, <1>4, <1>5, <1>6
<1> QED BY <1>2, <1>3, <1>5, <1>7

LEMMA LeftAfterCommit ==
  ASSUME NEW clears \in BOOLEAN, NEW retain \in BOOLEAN
  PROVE  /\ (IF clears THEN <<"capacity">> ELSE <<>>) \o Markers!Reservation(retain) \in Seq(MarkerFiles)
         /\ Elements((IF clears THEN <<"capacity">> ELSE <<>>) \o Markers!Reservation(retain)) =
              (IF clears THEN {"capacity"} ELSE {}) \union {"reserve", "active"}
                \union IF retain THEN {} ELSE {"publication"}
<1> DEFINE t == IF clears THEN <<"capacity">> ELSE <<>>
<1>1. t \in Seq(MarkerFiles) /\ Elements(t) = IF clears THEN {"capacity"} ELSE {}
  BY OneHolds, NothingLeft DEF MarkerFiles
<1>2. Markers!Reservation(retain) \in Seq(MarkerFiles)
  BY LeftAfter
<1> HIDE DEF t
<1>3. /\ t \o Markers!Reservation(retain) \in Seq(MarkerFiles)
      /\ Elements(t \o Markers!Reservation(retain)) = Elements(t) \union Elements(Markers!Reservation(retain))
  BY <1>1, <1>2, BothHold
<1>4. Elements(t \o Markers!Reservation(retain)) =
        (IF clears THEN {"capacity"} ELSE {})
          \union ({"reserve", "active"} \union IF retain THEN {} ELSE {"publication"})
  BY <1>1, <1>3, LeftAfter
<1>5. Elements(t \o Markers!Reservation(retain)) =
        (IF clears THEN {"capacity"} ELSE {}) \union {"reserve", "active"}
          \union IF retain THEN {} ELSE {"publication"}
  BY <1>4
<1> QED BY <1>3, <1>5 DEF t

LEMMA LeftFew ==
  /\ <<"reserve", "active">> \in Seq(MarkerFiles) /\ Elements(<<"reserve", "active">>) = {"reserve", "active"}
  /\ <<"active", "publication">> \in Seq(MarkerFiles)
  /\ Elements(<<"active", "publication">>) = {"active", "publication"}
  BY DEF Elements, MarkerFiles
-----------------------------------------------------------------------------
(* What every step leaves of its publisher.                                 *)

LEMMA SettingsMakeSense ==
  /\ None \notin Publishers /\ None \notin Nat /\ None \notin Warnings
  /\ FullGates \subseteq Publishers
  /\ \A s \in Settings : s.start \in {"absent", "current", "previous"}
  BY MarkersAssumption DEF Markers!MarkersMakeSense, Warnings

LEMMA StateOf == ASSUME MarkersTyped, NEW p \in Publishers PROVE pub[p] \in PublisherStates
  BY DEF MarkersTyped

Rewritten(p, rec) ==
  /\ pub' \in [Publishers -> PublisherStates] /\ rec \in PublisherStates /\ pub'[p] = rec
  /\ \A q \in Publishers \ {p} : pub'[q] = pub[q]

LEMMA RewrittenBy ==
  ASSUME MarkersTyped, NEW p \in Publishers, NEW rec \in PublisherStates, pub' = [pub EXCEPT ![p] = rec]
  PROVE  Rewritten(p, rec)
  BY DEF Rewritten, MarkersTyped

LEMMA WentDoes ==
  ASSUME MarkersTyped, NEW p \in Publishers, NEW to \in Locked \union Unlocked, Markers!Go(p, to)
  PROVE  Rewritten(p, [pub[p] EXCEPT !.pc = to])
<1>1. pub[p] \in PublisherStates
  BY StateOf
<1>2. [pub[p] EXCEPT !.pc = to] \in PublisherStates
  BY <1>1 DEF PublisherStates
<1>3. pub' = [pub EXCEPT ![p] = [pub[p] EXCEPT !.pc = to]]
  BY DEF Markers!Go
<1> QED BY <1>2, <1>3, RewrittenBy

\* The end of a publication, with a receipt that is not better than before.
LEMMA EndedDoes ==
  ASSUME MarkersTyped, NEW p \in Publishers,
         NEW ending \in {"none", "committed", "refused", "unavailable", "previous", "corrupt", "exceeded"},
         Markers!Ended(p, ending)
  PROVE  \E able \in BOOLEAN, code \in {0, 70} :
           /\ able = (pub[p].enabled /\ ending = "committed")
           /\ Rewritten(p, [pub[p] EXCEPT !.pc = "done", !.ending = ending, !.todo = <<>>, !.enabled = able,
                                          !.owes = FALSE, !.exit = code])
<1>0. pub' = [pub EXCEPT ![p] =
        [pub[p] EXCEPT !.pc = "done", !.ending = ending, !.todo = <<>>,
                       !.enabled = (pub[p].enabled /\ ending = "committed"), !.owes = FALSE,
                       !.exit = (IF p \in Shadows /\ ending # "committed" THEN 70 ELSE pub[p].exit)]]
  BY DEF Markers!Ended
<1>1. pub[p] \in PublisherStates
  BY StateOf
<1>2. PICK able \in BOOLEAN : able = (pub[p].enabled /\ ending = "committed")
  OBVIOUS
<1>3. PICK code \in {0, 70} : code = IF p \in Shadows /\ ending # "committed" THEN 70 ELSE pub[p].exit
  BY <1>1 DEF PublisherStates
<1> DEFINE rec == [pub[p] EXCEPT !.pc = "done", !.ending = ending, !.todo = <<>>, !.enabled = able,
                                 !.owes = FALSE, !.exit = code]
<1>4. rec \in PublisherStates
  BY <1>1, NothingLeft DEF PublisherStates, Unlocked
<1>5. pub' = [pub EXCEPT ![p] = rec]
  BY <1>0, <1>2, <1>3, Zenon
<1>6. Rewritten(p, rec)
  BY <1>4, <1>5, RewrittenBy
<1> QED BY <1>2, <1>6

LEMMA EndedTyped ==
  ASSUME MarkersTyped, NEW p \in Publishers,
         NEW ending \in {"none", "committed", "refused", "unavailable", "previous", "corrupt", "exceeded"},
         Markers!Ended(p, ending)
  PROVE  /\ pub' \in [Publishers -> PublisherStates] /\ lock' \in Publishers \union {None}
         /\ lost' \subseteq Publishers
<1>1. pub' \in [Publishers -> PublisherStates]
  BY EndedDoes DEF Rewritten
<1> QED BY <1>1 DEF Markers!Ended, MarkersTyped

LEMMA GoneDoes ==
  ASSUME MarkersTyped, NEW p \in Publishers, Markers!Gone(p)
  PROVE  Rewritten(p, [pub[p] EXCEPT !.pc = "gone", !.owes = FALSE])
<1>1. pub[p] \in PublisherStates
  BY StateOf
<1>2. [pub[p] EXCEPT !.pc = "gone", !.owes = FALSE] \in PublisherStates
  BY <1>1 DEF PublisherStates, Unlocked
<1>3. pub' = [pub EXCEPT ![p] = [pub[p] EXCEPT !.pc = "gone", !.owes = FALSE]]
  BY DEF Markers!Gone
<1> QED BY <1>2, <1>3, RewrittenBy

LEMMA NumberDoes ==
  ASSUME MarkersTyped, Shallow, NEW p \in Publishers, Markers!Number(p)
  PROVE  Rewritten(p, [pub[p] EXCEPT !.pc = "check", !.seq = Markers!NextSequence])
<1>1. pub[p] \in PublisherStates
  BY StateOf
<1>2. Markers!NextSequence \in Nat
  BY NextIsNumber
<1>3. [pub[p] EXCEPT !.pc = "check", !.seq = Markers!NextSequence] \in PublisherStates
  BY <1>1, <1>2 DEF PublisherStates, Unlocked
<1>4. pub' = [pub EXCEPT ![p] = [pub[p] EXCEPT !.pc = "check", !.seq = Markers!NextSequence]]
  BY DEF Markers!Number
<1> QED BY <1>3, <1>4, RewrittenBy

LEMMA EnterDoes ==
  ASSUME MarkersTyped, NEW p \in Publishers, Markers!Enter(p), ~ disabled
  PROVE  Rewritten(p,
           [pub[p] EXCEPT !.pc = "drop active", !.inherited = marker.publication, !.capacity =
             marker.capacity])
<1>1. pub[p] \in PublisherStates
  BY StateOf
<1>2. marker.publication \in Numbers /\ marker.capacity \in Numbers
  BY DEF MarkersTyped, MarkerStates
<1>3. [pub[p] EXCEPT !.pc = "drop active", !.inherited = marker.publication, !.capacity = marker.capacity] \in PublisherStates
  BY <1>1, <1>2 DEF PublisherStates, Locked
<1>4. pub' = [pub EXCEPT ![p] = [pub[p] EXCEPT !.pc = "drop active", !.inherited = marker.publication, !.capacity =
                 marker.capacity]]
  BY DEF Markers!Enter
<1> QED BY <1>3, <1>4, RewrittenBy

LEMMA AnnounceDoes ==
  ASSUME MarkersTyped, NEW p \in Publishers, Markers!WritePublication(p)
  PROVE  Rewritten(p, [pub[p] EXCEPT !.pc = "reserve", !.owes = TRUE])
<1>1. pub[p] \in PublisherStates
  BY StateOf
<1>2. [pub[p] EXCEPT !.pc = "reserve", !.owes = TRUE] \in PublisherStates
  BY <1>1 DEF PublisherStates, Locked
<1>3. pub' = [pub EXCEPT ![p] = [pub[p] EXCEPT !.pc = "reserve", !.owes = TRUE]]
  BY DEF Markers!WritePublication
<1> QED BY <1>2, <1>3, RewrittenBy

LEMMA WriteFailsDoes ==
  ASSUME MarkersTyped, NEW p \in Publishers, Markers!WriteFails(p), pub[p].pc \in {"publish", "reserve"}
  PROVE  Rewritten(p,
           [pub[p] EXCEPT !.pc = "clean", !.ending = "unavailable",
                          !.todo = Markers!Reservation(pub[p].inherited # None), !.owes = FALSE])
<1>1. pub[p] \in PublisherStates
  BY StateOf
<1>2. Markers!Reservation(pub[p].inherited # None) \in Seq(MarkerFiles)
  BY LeftAfter
<1>3. [pub[p] EXCEPT !.pc = "clean", !.ending = "unavailable", !.todo =
          Markers!Reservation(pub[p].inherited # None), !.owes = FALSE] \in PublisherStates
  BY <1>1, <1>2 DEF PublisherStates, Locked
<1>4. pub' = [pub EXCEPT ![p] = [pub[p] EXCEPT !.pc = "clean", !.ending = "unavailable", !.todo =
                 Markers!Reservation(pub[p].inherited # None), !.owes = FALSE]]
  BY DEF Markers!WriteFails
<1> QED BY <1>3, <1>4, RewrittenBy

LEMMA ContendedDoes ==
  ASSUME MarkersTyped, NEW p \in Publishers, Markers!Contended(p)
  PROVE  Rewritten(p,
           [pub[p] EXCEPT !.pc = "clean", !.ending = "unavailable", !.owes = FALSE, !.todo =
             Markers!Reservation(pub[p].inherited # None)])
<1>1. pub[p] \in PublisherStates
  BY StateOf
<1>2. Markers!Reservation(pub[p].inherited # None) \in Seq(MarkerFiles)
  BY LeftAfter
<1>3. [pub[p] EXCEPT !.pc = "clean", !.ending = "unavailable", !.owes = FALSE, !.todo =
          Markers!Reservation(pub[p].inherited # None)] \in PublisherStates
  BY <1>1, <1>2 DEF PublisherStates, Locked
<1>4. pub' = [pub EXCEPT ![p] = [pub[p] EXCEPT !.pc = "clean", !.ending = "unavailable", !.owes = FALSE, !.todo =
                 Markers!Reservation(pub[p].inherited # None)]]
  BY DEF Markers!Contended
<1> QED BY <1>3, <1>4, RewrittenBy

LEMMA UnusableDoes ==
  ASSUME MarkersTyped, NEW p \in Publishers, Markers!Unusable(p)
  PROVE  Rewritten(p,
           [pub[p] EXCEPT !.pc = "clean", !.strict = TRUE, !.ending = (IF file = "previous" THEN
             "previous" ELSE "corrupt"), !.todo = <<"reserve", "active">>])
<1>1. pub[p] \in PublisherStates
  BY StateOf
<1>2. [pub[p] EXCEPT !.pc = "clean", !.strict = TRUE, !.ending = (IF file = "previous" THEN "previous"
          ELSE "corrupt"), !.todo = <<"reserve", "active">>] \in PublisherStates
  BY <1>1, LeftFew DEF PublisherStates, Locked
<1>3. pub' = [pub EXCEPT ![p] = [pub[p] EXCEPT !.pc = "clean", !.strict = TRUE, !.ending = (IF file = "previous" THEN
                 "previous" ELSE "corrupt"), !.todo = <<"reserve", "active">>]]
  BY DEF Markers!Unusable
<1> QED BY <1>2, <1>3, RewrittenBy

LEMMA ExhaustedDoes ==
  ASSUME MarkersTyped, NEW p \in Publishers, Markers!Exhausted(p)
  PROVE  Rewritten(p, [pub[p] EXCEPT !.pc = "claim", !.ending = "exceeded", !.strict = TRUE])
<1>1. pub[p] \in PublisherStates
  BY StateOf
<1>2. [pub[p] EXCEPT !.pc = "claim", !.ending = "exceeded", !.strict = TRUE] \in PublisherStates
  BY <1>1 DEF PublisherStates, Locked
<1>3. pub' = [pub EXCEPT ![p] = [pub[p] EXCEPT !.pc = "claim", !.ending = "exceeded", !.strict = TRUE]]
  BY DEF Markers!Exhausted
<1> QED BY <1>2, <1>3, RewrittenBy

LEMMA ClaimDoes ==
  ASSUME MarkersTyped, NEW p \in Publishers, Markers!Claim(p)
  PROVE  Rewritten(p, [pub[p] EXCEPT !.pc = "clean", !.todo = <<"active", "publication">>])
<1>1. pub[p] \in PublisherStates
  BY StateOf
<1>2. [pub[p] EXCEPT !.pc = "clean", !.todo = <<"active", "publication">>] \in PublisherStates
  BY <1>1, LeftFew DEF PublisherStates, Locked
<1>3. pub' = [pub EXCEPT ![p] = [pub[p] EXCEPT !.pc = "clean", !.todo = <<"active", "publication">>]]
  BY DEF Markers!Claim
<1> QED BY <1>2, <1>3, RewrittenBy

LEMMA RemoveDoes ==
  ASSUME MarkersTyped, NEW p \in Publishers, Markers!Remove(p)
  PROVE  Rewritten(p, [pub[p] EXCEPT !.todo = Tail(pub[p].todo)])
<1>1. pub[p] \in PublisherStates
  BY StateOf
<1>2. Tail(pub[p].todo) \in Seq(MarkerFiles)
  BY <1>1, RestOf DEF Markers!Remove, PublisherStates
<1>3. [pub[p] EXCEPT !.todo = Tail(pub[p].todo)] \in PublisherStates
  BY <1>1, <1>2 DEF PublisherStates
<1>4. pub' = [pub EXCEPT ![p] = [pub[p] EXCEPT !.todo = Tail(pub[p].todo)]]
  BY DEF Markers!Remove
<1> QED BY <1>3, <1>4, RewrittenBy

LEMMA RemoveFailsDoes ==
  ASSUME MarkersTyped, NEW p \in Publishers, Markers!RemoveFails(p)
  PROVE  Rewritten(p,
           [pub[p] EXCEPT !.todo = (IF pub[p].strict THEN <<>> ELSE Tail(pub[p].todo)), !.enabled = FALSE])
<1>1. pub[p] \in PublisherStates
  BY StateOf
<1>2. Tail(pub[p].todo) \in Seq(MarkerFiles)
  BY <1>1, RestOf DEF Markers!RemoveFails, PublisherStates
<1>3. [pub[p] EXCEPT !.todo = (IF pub[p].strict THEN <<>> ELSE Tail(pub[p].todo)), !.enabled = FALSE] \in PublisherStates
  BY <1>1, <1>2, NothingLeft DEF PublisherStates
<1>4. pub' = [pub EXCEPT ![p] = [pub[p] EXCEPT !.todo = (IF pub[p].strict THEN <<>> ELSE Tail(pub[p].todo)), !.enabled =
                 FALSE]]
  BY DEF Markers!RemoveFails, Markers!EnabledAfterFailure
<1> QED BY <1>3, <1>4, RewrittenBy

\* A committed publication; the outcomes it settles are no longer owed.
LEMMA CommittingDoes ==
  ASSUME MarkersTyped, NEW p \in Publishers, Markers!Committing(p)
  PROVE  /\ pub' \in [Publishers -> PublisherStates]
         /\ pub'[p] = Markers!Committed(p) /\ Markers!Committed(p) \in PublisherStates
         /\ \A q \in Publishers \ {p} :
              pub'[q] = [pub[q] EXCEPT !.owes = (pub[q].owes /\ q \notin Markers!Settled(p))]
<1> DEFINE c == Markers!Recovers(p, pub[p].capacity)
           k == Markers!Recovers(p, pub[p].inherited)
<1>1. Markers!Committed(p) =
        [pub[p] EXCEPT !.pc = "clean", !.ending = "committed", !.owes = FALSE,
           !.enabled = ((pub[p].capacity = None \/ c) /\ (pub[p].inherited = None \/ k)),
           !.todo = (IF c THEN <<"capacity">> ELSE <<>>) \o Markers!Reservation(pub[p].inherited # None /\ ~ k)]
  BY DEF Markers!Committed
<1>0. pub[p] \in PublisherStates
  BY StateOf
<1> HIDE DEF c, k
<1>2. c \in BOOLEAN /\ k \in BOOLEAN
  BY DEF c, k, Markers!Recovers
<1>3. (IF c THEN <<"capacity">> ELSE <<>>) \o Markers!Reservation(pub[p].inherited # None /\ ~ k)
        \in Seq(MarkerFiles)
  BY <1>2, LeftAfterCommit
<1>4. Markers!Committed(p) \in PublisherStates
  BY <1>0, <1>1, <1>3, ZenonT(30) DEF PublisherStates, Locked
<1>5. ASSUME NEW q \in Publishers
      PROVE  [pub[q] EXCEPT !.owes = (pub[q].owes /\ q \notin Markers!Settled(p))] \in PublisherStates
  <2>1. pub[q] \in PublisherStates
    BY StateOf
  <2> QED BY <2>1 DEF PublisherStates
<1> QED BY <1>4, <1>5 DEF Markers!Committing

\* The lock is given back: the receipt, another attempt, or the permanent marker.
LEMMA FinishDoes ==
  ASSUME MarkersTyped, NEW p \in Publishers, Markers!Finish(p)
  PROVE  /\ \/ /\ pub[p].ending = "previous" /\ lock' = None /\ lost' = lost
               /\ Rewritten(p, [pub[p] EXCEPT !.pc = "set aside", !.try = 2, !.strict = FALSE])
            \/ /\ pub[p].ending \in {"corrupt", "previous"} /\ lock' = None /\ lost' = lost
               /\ Rewritten(p, [pub[p] EXCEPT !.pc = "persist"])
            \/ Markers!Ended(p, pub[p].ending) /\ pub[p].ending \notin {"corrupt", "previous"}
         /\ pub' \in [Publishers -> PublisherStates] /\ lock' \in Publishers \union {None}
         /\ lost' \subseteq Publishers
         /\ disabled' = disabled /\ marker' = marker /\ file' = file /\ rows' = rows /\ reader' = reader
<1>1. pub[p] \in PublisherStates
  BY StateOf
<1>2. CASE pub[p].ending = "previous" /\ pub[p].try = 1
  <2>1. [pub[p] EXCEPT !.pc = "set aside", !.try = 2, !.strict = FALSE] \in PublisherStates
    BY <1>1 DEF PublisherStates, Unlocked
  <2>2. /\ lock' = None /\ lost' = lost
        /\ pub' = [pub EXCEPT ![p].pc = "set aside", ![p].try = 2, ![p].strict = FALSE]
    BY <1>2 DEF Markers!Finish
  <2>3. Rewritten(p, [pub[p] EXCEPT !.pc = "set aside", !.try = 2, !.strict = FALSE])
    BY <2>1, <2>2, RewrittenBy
  <2> QED BY <1>2, <2>2, <2>3 DEF Markers!Finish, Rewritten, MarkersTyped
<1>3. CASE ~ (pub[p].ending = "previous" /\ pub[p].try = 1) /\ pub[p].ending \in {"corrupt", "previous"}
  <2>1. lock' = None /\ lost' = lost /\ Markers!Go(p, "persist")
    BY <1>3 DEF Markers!Finish
  <2>2. Rewritten(p, [pub[p] EXCEPT !.pc = "persist"])
    BY <2>1, WentDoes DEF Unlocked
  <2> QED BY <1>3, <2>1, <2>2 DEF Markers!Finish, Rewritten, MarkersTyped
<1>4. CASE Markers!Ended(p, pub[p].ending) /\ pub[p].ending \notin {"corrupt", "previous"}
  <2>1. pub[p].ending \in {"none", "committed", "refused", "unavailable", "previous", "corrupt", "exceeded"}
    BY <1>1 DEF PublisherStates
  <2> QED BY <1>4, <2>1, EndedDoes DEF Markers!Finish, Markers!Ended, Rewritten, MarkersTyped
<1> QED BY <1>2, <1>3, <1>4 DEF Markers!Finish

LEMMA PublishTyped ==
  ASSUME MarkersTyped, Shallow, NEW p \in Publishers, Markers!Publish(p), UNCHANGED setting
  PROVE  MarkersTyped' /\ reader' = reader
<1>1. CASE Markers!Number(p)
  BY <1>1, NumberDoes DEF Markers!Number, MarkersTyped, Rewritten
<1>2. CASE Markers!FindPrevious(p)
  BY <1>2, WentDoes DEF Markers!FindPrevious, MarkersTyped, Rewritten, Unlocked
<1>3. CASE Markers!SetAside(p)
  BY <1>3, WentDoes DEF Markers!SetAside, Markers!Moved, MarkersTyped, Rewritten, Unlocked
<1>4. CASE Markers!Check(p)
  <2>1. CASE disabled
    BY <1>4, <2>1, EndedTyped DEF Markers!Check, MarkersTyped
  <2>2. CASE ~ disabled
    BY <1>4, <2>2, WentDoes DEF Markers!Check, MarkersTyped, Rewritten, Unlocked
  <2> QED BY <2>1, <2>2
<1>5. CASE Markers!Lock(p)
  BY <1>5, WentDoes DEF Markers!Lock, MarkersTyped, Rewritten, Locked
<1>6. CASE Markers!LockTimesOut(p)
  BY <1>6, EndedTyped DEF Markers!LockTimesOut, MarkersTyped
<1>7. CASE Markers!Persist(p)
  BY <1>7, EndedTyped DEF Markers!Persist, MarkersTyped
<1>8. CASE Markers!Enter(p)
  <2>1. CASE disabled
    BY <1>8, <2>1, EndedTyped DEF Markers!Enter, MarkersTyped
  <2>2. CASE ~ disabled
    <3>1. marker' \in MarkerStates
      BY <1>8, <2>2 DEF Markers!Enter, Markers!Dropped, MarkersTyped, MarkerStates, Numbers
    <3> QED BY <1>8, <2>2, <3>1, EnterDoes DEF Markers!Enter, MarkersTyped, Rewritten
  <2> QED BY <2>1, <2>2
<1>9. CASE Markers!DropActive(p)
  <2>1. marker' \in MarkerStates
    BY <1>9 DEF Markers!DropActive, MarkersTyped, MarkerStates
  <2> QED BY <1>9, <2>1, WentDoes DEF Markers!DropActive, MarkersTyped, Rewritten, Locked
<1>10. CASE Markers!WriteActive(p)
  <2>1. pub[p].seq \in Nat
    BY StateOf DEF PublisherStates
  <2>2. marker' \in MarkerStates
    BY <1>10, <2>1 DEF Markers!WriteActive, MarkersTyped, MarkerStates
  <2> QED BY <1>10, <2>2, WentDoes DEF Markers!WriteActive, MarkersTyped, Rewritten, Locked
<1>11. CASE Markers!WritePublication(p)
  <2>1. pub[p].seq \in Nat /\ pub[p].inherited \in Numbers
    BY StateOf DEF PublisherStates
  <2>2. Markers!Highest({pub[p].seq, pub[p].inherited}) \in Numbers
    BY <2>1, HigherOf DEF Numbers
  <2>3. marker' \in MarkerStates
    BY <1>11, <2>2 DEF Markers!WritePublication, MarkersTyped, MarkerStates
  <2> QED BY <1>11, <2>3, AnnounceDoes DEF Markers!WritePublication, MarkersTyped, Rewritten
<1>12. CASE Markers!WriteReserve(p)
  <2>1. pub[p].seq \in Nat /\ pub[p].capacity \in Numbers /\ pub[p].inherited \in Numbers
    BY StateOf DEF PublisherStates
  <2>2. Markers!Highest({pub[p].seq, pub[p].capacity, pub[p].inherited}) \in Numbers
    BY <2>1, HighestOf DEF Numbers
  <2>3. marker' \in MarkerStates
    BY <1>12, <2>2 DEF Markers!WriteReserve, MarkersTyped, MarkerStates
  <2> QED BY <1>12, <2>3, WentDoes DEF Markers!WriteReserve, MarkersTyped, Rewritten, Locked
<1>13. CASE Markers!WriteFails(p)
  <2>1. CASE pub[p].pc \in {"drop active", "announce"}
    BY <1>13, <2>1, EndedTyped DEF Markers!WriteFails, MarkersTyped
  <2>2. CASE pub[p].pc \in {"publish", "reserve"}
    BY <1>13, <2>2, WriteFailsDoes DEF Markers!WriteFails, MarkersTyped, Rewritten
  <2> QED BY <1>13, <2>1, <2>2 DEF Markers!WriteFails
<1>14. CASE Markers!Committing(p)
  <2>1. pub[p].seq \in Nat
    BY StateOf DEF PublisherStates
  <2>2. rows' \subseteq Commits
    BY <1>14, <2>1 DEF Markers!Committing, MarkersTyped, Commits
  <2> QED BY <1>14, <2>2, CommittingDoes DEF Markers!Committing, MarkersTyped
<1>15. CASE Markers!Contended(p)
  BY <1>15, ContendedDoes DEF Markers!Contended, MarkersTyped, Rewritten
<1>16. CASE Markers!Unusable(p)
  BY <1>16, UnusableDoes DEF Markers!Unusable, MarkersTyped, Rewritten
<1>17. CASE Markers!Exhausted(p)
  BY <1>17, ExhaustedDoes DEF Markers!Exhausted, MarkersTyped, Rewritten
<1>18. CASE Markers!Claim(p)
  <2>1. marker' \in MarkerStates
    BY <1>18 DEF Markers!Claim, MarkersTyped, MarkerStates, Numbers
  <2> QED BY <1>18, <2>1, ClaimDoes DEF Markers!Claim, MarkersTyped, Rewritten
<1>19. CASE Markers!ClaimFails(p)
  BY <1>19, WentDoes DEF Markers!ClaimFails, MarkersTyped, Rewritten, Locked
<1>20. CASE Markers!Remove(p)
  <2>1. pub[p].todo \in Seq(MarkerFiles)
    BY StateOf DEF PublisherStates
  <2>2. Head(pub[p].todo) \in MarkerFiles
    BY <1>20, <2>1, RestOf DEF Markers!Remove
  <2>3. marker' \in MarkerStates
    BY <1>20, <2>2 DEF Markers!Remove, MarkersTyped, MarkerStates, MarkerFiles, Numbers
  <2> QED BY <1>20, <2>3, RemoveDoes DEF Markers!Remove, MarkersTyped, Rewritten
<1>21. CASE Markers!RemoveFails(p)
  BY <1>21, RemoveFailsDoes DEF Markers!RemoveFails, MarkersTyped, Rewritten
<1>22. CASE Markers!Finish(p)
  BY <1>22, FinishDoes DEF MarkersTyped, Rewritten
<1>23. CASE Markers!Exit(p) \/ Markers!Crash(p)
  BY <1>23, GoneDoes DEF Markers!Exit, Markers!Crash, Markers!Gone, MarkersTyped, Rewritten
<1> QED
  BY <1>1, <1>2, <1>3, <1>4, <1>5, <1>6, <1>7, <1>8, <1>9, <1>10, <1>11, <1>12, <1>13, <1>14, <1>15,
     <1>16, <1>17, <1>18, <1>19, <1>20, <1>21, <1>22, <1>23 DEF Markers!Publish
-----------------------------------------------------------------------------
(* What a step of one publisher leaves to the others.                       *)

LEMMA StillHeard ==
  ASSUME MarkersTyped, MarkersTyped', Ordered, Heard, KeepsReaders
  PROVE  Heard'
<1> SUFFICES ASSUME NEW r \in Readers PROVE ReadsAt(r)' /\ HeedsAt(r)'
  BY DEF Heard
<1>1. ReadsAt(r) /\ HeedsAt(r)
  BY DEF Heard
<1>2. /\ reader[r].owed \subseteq Publishers /\ reader[r].seen \subseteq Publishers
      /\ lost \subseteq Publishers /\ lost' \subseteq Publishers
  BY DEF MarkersTyped, ReaderStates
<1>3. /\ reader[r].owed \intersect lost' \subseteq reader[r].owed \intersect lost
      /\ reader[r].seen \intersect lost' \subseteq reader[r].seen \intersect lost
  BY <1>1, <1>2 DEF KeepsReaders, ReadsAt
<1>4. ReadsAt(r)'
  BY <1>1, <1>2, <1>3 DEF KeepsReaders, ReadsAt
<1>5. HeedsAt(r)'
  BY <1>1, <1>3 DEF KeepsReaders, HeedsAt, Smooth
<1> QED BY <1>4, <1>5

LEMMA AsideKeeps ==
  ASSUME Kept, NEW p \in Publishers, Aside(p), MarkersTyped', Shallow'
  PROVE  Kept' /\ KeepsReaders
<1>1. /\ MarkersTyped /\ Ordered /\ None \notin Publishers
      /\ lock' \in Publishers \union {None}
  BY SettingsMakeSense DEF Kept, Marked, MarkersTyped
<1>2. Ordered'
  <2>1. ASSUME NEW q \in Publishers PROVE OrderedAt(q)'
    <3>1. CASE q = p
      BY <3>1 DEF Aside
    <3>2. CASE q # p
      <4>1. OrderedAt(q) /\ pub'[q] = pub[q] /\ (lock' = q <=> lock = q) /\ (q \in lost' => q \in lost)
            /\ setting' = setting
        BY <1>1, <3>2 DEF Ordered, Aside
      <4> QED BY <4>1 DEF OrderedAt
    <3> QED BY <3>1, <3>2
  <2> QED BY <1>1, <2>1 DEF Ordered, Aside
<1>3. \A m : Due(m)' => Due(m)
  <2> SUFFICES ASSUME NEW m, Due(m)' PROVE Due(m)
    OBVIOUS
  <2>1. CASE lock' = p
    <3>1. pub'[p].pc = "enter"
      BY <1>2, <2>1 DEF Ordered, OrderedAt, Aside, Locked, Unlocked
    <3>2. pub'[p].todo = <<>>
      BY <1>2, <3>1 DEF Ordered, OrderedAt
    <3> QED BY <2>1, <3>2, NothingLeft DEF Due
  <2>2. CASE lock' # p
    <3>1. lock' \in Publishers \ {p} /\ lock = lock' /\ pub'[lock'] = pub[lock']
      BY <1>1, <2>2 DEF Due, Aside
    <3> QED BY <3>1 DEF Due
  <2> QED BY <2>1, <2>2
<1>4. ASSUME NEW q \in Publishers \ {p}, lock = q, NEW m PROVE Due(m)' <=> Due(m)
  BY <1>4 DEF Due, Aside
<1>5. ASSUME NEW q \in Publishers, Owing(q)' PROVE Owing(q) /\ pub'[q].seq = pub[q].seq
  <2>1. CASE q = p
    BY <1>5, <2>1 DEF Aside
  <2>2. CASE q # p
    BY <1>5, <2>2 DEF Aside, Owing
  <2> QED BY <2>1, <2>2
<1>6. ASSUME NEW q \in Publishers, pub'[q].seq = pub[q].seq, Claimed(q) PROVE Claimed(q)'
  BY <1>3, <1>6 DEF Claimed, Above, Aside
<1>7. LossesVouched'
  <2> SUFFICES ASSUME NEW q \in Publishers, Owing(q)' PROVE Vouched(q)'
    BY DEF LossesVouched
  <2>1. Owing(q) /\ pub'[q].seq = pub[q].seq /\ Vouched(q)
    BY <1>5 DEF Kept, LossesVouched
  <2> QED BY <1>3, <1>6, <2>1 DEF Vouched, Above, Aside
<1>8. Based'
  <2> SUFFICES ASSUME NEW q \in Publishers, pub'[q].pc \in Locked \ {"enter"},
                      NEW w \in Publishers \ {q}, Owing(w)'
               PROVE  Above(pub'[q].inherited, pub'[w].seq) \/ Claimed(w)'
    BY DEF Based, BasedAt
  <2>1. q # p /\ pub'[q] = pub[q]
    BY DEF Aside, Locked, Unlocked
  <2>2. Owing(w) /\ pub'[w].seq = pub[w].seq
    BY <1>5
  <2>3. Above(pub[q].inherited, pub[w].seq) \/ Claimed(w)
    BY <2>1, <2>2 DEF Kept, Based, BasedAt
  <2> QED BY <1>6, <2>1, <2>2, <2>3
<1>9. ASSUME NEW q \in Publishers PROVE Learnt(q)' /\ Cleans(q)'
  <2>1. CASE q = p
    <3>1. pub'[p].pc \in Unlocked \union {"enter"}
      BY DEF Aside
    <3> QED BY <2>1, <3>1 DEF Learnt, Cleans, Unlocked, Locked
  <2>2. CASE q # p
    <3>1. Learnt(q) /\ Cleans(q) /\ pub'[q] = pub[q] /\ marker' = marker /\ setting' = setting
      BY <2>2 DEF Kept, Marked, Aside
    <3>2. Learnt(q)'
      BY <3>1 DEF Learnt
    <3>3. CASE pub[q].pc = "clean"
      <4>1. lock = q
        BY <1>1, <3>3 DEF Ordered, OrderedAt, Locked
      <4>2. \A m : Due(m)' <=> Due(m)
        BY <1>4, <2>2, <4>1
      <4> QED BY <3>1, <3>2, <3>3, <4>2 DEF Cleans, Aside
    <3> QED BY <3>1, <3>2, <3>3 DEF Cleans
  <2> QED BY <2>1, <2>2
<1>10. Unclaimed'
  <2>1. pub'[p].pc # "claim"
    BY DEF Aside, Unlocked
  <2> QED BY <2>1 DEF Kept, Unclaimed, Aside, Smooth
<1>11. Owned'
  <2> SUFFICES ASSUME Smooth', marker'.active # None, Markers!Alive(marker.active.by)'
               PROVE  /\ lock' = marker'.active.by /\ pub'[lock'].pc \in Writing /\ pub'[lock'].inherited = None
                      /\ pub'[lock'].pc = "clean" => Due("active")'
    BY DEF Owned, Aside
  <2> DEFINE w == marker.active.by
  <2>1. marker' = marker /\ w \in Publishers /\ pub'[w].pc # "gone" /\ Smooth
    BY <1>1 DEF Aside, Markers!Alive, MarkersTyped, MarkerStates, Smooth
  <2>2. pub[w].pc # "gone"
    BY <2>1 DEF Aside
  <2>3. /\ lock = w /\ pub[w].pc \in Writing /\ pub[w].inherited = None
        /\ pub[w].pc = "clean" => Due("active")
    BY <2>1, <2>2 DEF Kept, Owned, Markers!Alive
  <2>4. w # p
    <3> SUFFICES ASSUME w = p PROVE FALSE
      OBVIOUS
    <3>1. pub[p].pc = "clean" /\ pub[p].todo = <<>>
      BY <2>1, <2>3 DEF Aside
    <3> QED BY <2>3, <3>1, NothingLeft DEF Due
  <2>5. lock' = w /\ pub'[w] = pub[w] /\ (Due("active")' <=> Due("active"))
    BY <1>4, <2>1, <2>3, <2>4 DEF Aside
  <2> QED BY <2>1, <2>3, <2>5
<1>12. KeepsReaders
  <2>1. ASSUME NEW q \in Publishers, pub[q].pc \in {"done", "gone"}
        PROVE  pub'[q].pc \in {"done", "gone"} /\ (q \in lost' => q \in lost)
    BY <2>1 DEF Aside
  <2>2. ASSUME NEW q \in lost \intersect lost', Claimed(q) PROVE Claimed(q)'
    <3>1. q \in Publishers /\ Owing(q)'
      BY <1>1 DEF MarkersTyped, Owing
    <3> QED BY <1>5, <1>6, <2>2, <3>1
  <2> QED BY <2>1, <2>2 DEF KeepsReaders, Aside
<1> QED BY <1>2, <1>7, <1>8, <1>9, <1>10, <1>11, <1>12 DEF Kept, Marked

LEMMA HolderKeeps ==
  ASSUME Kept, NEW p \in Publishers, Holds(p), MarkersTyped', Shallow'
  PROVE  Kept' /\ KeepsReaders
<1>1. MarkersTyped /\ Ordered
  BY DEF Kept, Marked
<1>2. Ordered'
  <2>1. ASSUME NEW q \in Publishers PROVE OrderedAt(q)'
    <3>1. CASE q = p
      BY <3>1 DEF Holds, Mine
    <3>2. CASE q # p
      <4>1. OrderedAt(q) /\ setting' = setting /\ lock' = lock /\ lost' \subseteq lost
            /\ pub'[q].pc = pub[q].pc /\ pub'[q].todo = pub[q].todo /\ pub'[q].ending = pub[q].ending
            /\ (pub'[q].owes => pub[q].owes)
        BY <1>1, <3>2 DEF Ordered, Holds, Mine
      <4> QED BY <4>1 DEF OrderedAt
    <3> QED BY <3>1, <3>2
  <2> QED BY <1>1, <2>1 DEF Ordered, Holds, Mine
<1>3. ASSUME NEW q \in Publishers, q # p PROVE pub'[q].pc \notin Locked
  BY <1>2, <1>3 DEF Ordered, OrderedAt, Holds, Mine
<1>4. ASSUME NEW q \in Publishers PROVE Learnt(q)' /\ Cleans(q)'
  <2>1. CASE q = p
    BY <2>1 DEF Holds
  <2>2. CASE q # p
    BY <1>3, <2>2 DEF Learnt, Cleans, Locked
  <2> QED BY <2>1, <2>2
<1>5. LossesVouched'
  BY DEF LossesVouched, Holds
<1>6. Based'
  BY <1>3 DEF Based, Holds
<1>7. Unclaimed'
  <2>1. ASSUME NEW q \in Publishers, Smooth PROVE pub'[q].pc # "claim"
    BY <1>3, <2>1 DEF Holds, Mine, Locked
  <2> QED BY <2>1 DEF Unclaimed, Holds, Mine, Smooth
<1>8. KeepsReaders
  <2>1. ASSUME NEW q \in Publishers, pub[q].pc \in {"done", "gone"} PROVE pub'[q].pc = pub[q].pc
    <3>1. q # p
      BY <1>1, <2>1 DEF Ordered, OrderedAt, Holds, Mine, Locked
    <3> QED BY <3>1 DEF Holds, Mine
  <2> QED BY <2>1 DEF KeepsReaders, Holds, Mine
<1> QED BY <1>2, <1>4, <1>5, <1>6, <1>7, <1>8 DEF Kept, Marked, Holds, Mine
-----------------------------------------------------------------------------
(* The steps that write no marker.                                          *)

LEMMA PublishShallow ==
  ASSUME MarkersTyped, Shallow, NEW p \in Publishers, Markers!Publish(p)
  PROVE  Shallow'
<1>1. rows' = rows \/ rows' = {} \/ rows' = rows \union {[by |-> p, seq |-> pub[p].seq]}
  BY DEF Markers!Publish, Markers!Number, Markers!FindPrevious, Markers!SetAside, Markers!Moved,
         Markers!Check, Markers!Lock, Markers!LockTimesOut, Markers!Enter, Markers!DropActive,
         Markers!WriteActive, Markers!WritePublication, Markers!WriteReserve, Markers!WriteFails,
         Markers!Committing, Markers!Contended, Markers!Unusable, Markers!Exhausted, Markers!Claim,
         Markers!ClaimFails, Markers!Remove, Markers!RemoveFails, Markers!Finish, Markers!Persist,
         Markers!Exit, Markers!Crash, Markers!Gone
<1>2. PICK n \in Nat : \A row \in rows : row.seq <= n
  BY DEF Shallow
<1>3. pub[p].seq \in Nat
  BY StateOf DEF PublisherStates
<1>4. \A row \in rows : row.seq \in Nat
  BY DEF MarkersTyped, Commits
<1>5. CASE rows' = rows \/ rows' = {}
  BY <1>2, <1>5 DEF Shallow
<1>6. CASE rows' = rows \union {[by |-> p, seq |-> pub[p].seq]}
  <2>1. n + pub[p].seq \in Nat /\ \A row \in rows' : row.seq <= n + pub[p].seq
    BY <1>2, <1>3, <1>4, <1>6
  <2> QED BY <2>1 DEF Shallow
<1> QED BY <1>1, <1>5, <1>6

\* What Kept says of the publisher that acts.
LEMMA KeptAt ==
  ASSUME Kept, NEW p \in Publishers
  PROVE  /\ MarkersTyped /\ Shallow /\ Ordered /\ OrderedAt(p) /\ Learnt(p) /\ Cleans(p)
         /\ pub[p] \in PublisherStates /\ p # None /\ lost \subseteq Publishers
         /\ \A q \in Publishers \ {p} : OrderedAt(q)
  BY StateOf, SettingsMakeSense DEF Kept, Marked, Ordered, MarkersTyped

LEMMA EndedAside ==
  ASSUME Kept, NEW p \in Publishers,
         NEW ending \in {"none", "committed", "refused", "unavailable", "corrupt", "exceeded"},
         Markers!Ended(p, ending), marker' = marker, reader' = reader, setting' = setting,
         file' = file, rows' = rows, pub[p].pc \notin {"done", "gone"},
         pub[p].pc \in Writing => pub[p].pc = "clean" /\ pub[p].todo = <<>>
  PROVE  Aside(p)
<1>1. /\ MarkersTyped /\ Ordered /\ OrderedAt(p) /\ pub[p] \in PublisherStates /\ p # None
      /\ lost \subseteq Publishers
  BY KeptAt
<1>2. PICK able \in BOOLEAN, code \in {0, 70} :
        /\ able = (pub[p].enabled /\ ending = "committed")
        /\ Rewritten(p, [pub[p] EXCEPT !.pc = "done", !.ending = ending, !.todo = <<>>, !.enabled = able,
                                       !.owes = FALSE, !.exit = code])
  <2>1. ending \in {"none", "committed", "refused", "unavailable", "previous", "corrupt", "exceeded"}
    OBVIOUS
  <2> QED BY <1>1, <2>1, EndedDoes, ZenonT(30)
<1>3. /\ pub'[p].pc = "done" /\ pub'[p].todo = <<>> /\ pub'[p].owes = FALSE
      /\ pub'[p].seq = pub[p].seq /\ pub'[p].ending = ending
  BY <1>1, <1>2 DEF Rewritten, PublisherStates
<1>4. \A q \in Publishers \ {p} : pub'[q] = pub[q] /\ (lock' = q <=> lock = q)
  BY <1>1, <1>2, SettingsMakeSense DEF Rewritten, Markers!Ended
<1>5. lost' \subseteq lost \union {p} /\ (p \in lost' => Owing(p))
  BY DEF Markers!Ended, Owing
<1>6. OrderedAt(p)'
  <2>1. lock' # p
    BY <1>1 DEF Markers!Ended
  <2> QED BY <1>3, <2>1 DEF OrderedAt, Locked
<1>7. setting.start # "previous" => file' # "previous"
  BY <1>1 DEF Ordered
<1> QED BY <1>3, <1>4, <1>5, <1>6, <1>7 DEF Aside, Owing, Unlocked

LEMMA WentAside ==
  ASSUME Kept, NEW p \in Publishers, NEW to \in {"set aside", "check", "queue", "enter", "persist"},
         Markers!Go(p, to), marker' = marker, reader' = reader, setting' = setting, lost' = lost,
         pub[p].pc \in Unlocked \ {"done", "gone"} \/ (pub[p].pc = "clean" /\ pub[p].todo = <<>>),
         \A q \in Publishers \ {p} : lock' = q <=> lock = q,
         lock' = p <=> to = "enter",
         setting.start # "previous" =>
           file' # "previous" /\ rows \subseteq rows' /\ to # "set aside" /\ pub[p].ending # "previous"
  PROVE  Aside(p)
<1>1. /\ MarkersTyped /\ Ordered /\ OrderedAt(p) /\ pub[p] \in PublisherStates /\ p # None
      /\ lost \subseteq Publishers
  BY KeptAt
<1>2. Rewritten(p, [pub[p] EXCEPT !.pc = to])
  BY <1>1, WentDoes DEF Unlocked, Locked
<1>3. /\ pub'[p].pc = to /\ pub'[p].todo = pub[p].todo /\ pub'[p].owes = pub[p].owes
      /\ pub'[p].seq = pub[p].seq /\ pub'[p].ending = pub[p].ending
  BY <1>1, <1>2 DEF Rewritten, PublisherStates
<1>4. pub[p].todo = <<>> /\ pub[p].pc \notin {"done", "gone"} /\ p \notin lost
  BY <1>1 DEF OrderedAt, Unlocked
<1>5. OrderedAt(p)'
  BY <1>3, <1>4 DEF OrderedAt, Locked
<1>6. \A q \in Publishers \ {p} : pub'[q] = pub[q]
  BY <1>2 DEF Rewritten
<1>7. pub[p].pc \in Writing => pub[p].pc = "clean" /\ pub[p].todo = <<>>
  BY DEF Writing, Unlocked
<1> QED BY <1>3, <1>4, <1>5, <1>6, <1>7 DEF Aside, Owing, Unlocked

LEMMA GoneAside ==
  ASSUME Kept, NEW p \in Publishers, Markers!Gone(p), setting' = setting
  PROVE  Aside(p)
<1>1. /\ MarkersTyped /\ Ordered /\ OrderedAt(p) /\ pub[p] \in PublisherStates /\ p # None
      /\ lost \subseteq Publishers
  BY KeptAt
<1>2. Rewritten(p, [pub[p] EXCEPT !.pc = "gone", !.owes = FALSE])
  BY <1>1, GoneDoes
<1>3. /\ pub'[p].pc = "gone" /\ pub'[p].owes = FALSE
      /\ pub'[p].seq = pub[p].seq /\ pub'[p].ending = pub[p].ending
  BY <1>1, <1>2 DEF Rewritten, PublisherStates
<1>4. \A q \in Publishers \ {p} : pub'[q] = pub[q] /\ (lock' = q <=> lock = q)
  BY <1>1, <1>2, SettingsMakeSense DEF Rewritten, Markers!Gone
<1>5. /\ lost' \subseteq lost \union {p} /\ (p \in lost' => Owing(p))
      /\ pub[p].pc \in {"done", "gone"} => lost' = lost
  BY <1>1 DEF Markers!Gone, Owing, OrderedAt
<1>6. OrderedAt(p)'
  <2>1. lock' # p
    BY <1>1 DEF Markers!Gone
  <2>2. setting' = setting /\ (setting.start # "previous" => pub[p].ending # "previous")
    BY <1>1 DEF OrderedAt
  <2> QED BY <1>3, <2>1, <2>2 DEF OrderedAt, Locked
<1>7. setting.start # "previous" => file' # "previous" /\ rows' = rows
  BY <1>1 DEF Ordered, Markers!Gone
<1>8. marker' = marker /\ reader' = reader
  BY DEF Markers!Gone
<1> QED BY <1>3, <1>4, <1>5, <1>6, <1>7, <1>8 DEF Aside, Owing, Unlocked

LEMMA NumberAside ==
  ASSUME Kept, NEW p \in Publishers, Markers!Number(p), setting' = setting
  PROVE  Aside(p)
<1>1. /\ MarkersTyped /\ Shallow /\ Ordered /\ OrderedAt(p) /\ pub[p] \in PublisherStates /\ p # None
      /\ lost \subseteq Publishers
  BY KeptAt
<1>2. Rewritten(p, [pub[p] EXCEPT !.pc = "check", !.seq = Markers!NextSequence])
  BY <1>1, NumberDoes
<1>3. /\ pub'[p].pc = "check" /\ pub'[p].owes = pub[p].owes
      /\ pub'[p].ending = pub[p].ending /\ pub'[p].todo = pub[p].todo
  BY <1>1, <1>2 DEF Rewritten, PublisherStates
<1>4. /\ pub[p].pc = "run" /\ marker' = marker /\ reader' = reader /\ lost' = lost
      /\ lock' = lock /\ file' = file /\ rows' = rows
  BY DEF Markers!Number
<1>5. ~ pub[p].owes /\ p \notin lost /\ pub[p].todo = <<>> /\ lock # p
  BY <1>1, <1>4 DEF OrderedAt, Locked
<1>6. OrderedAt(p)'
  BY <1>1, <1>3, <1>4, <1>5 DEF OrderedAt, Locked
<1>7. \A q \in Publishers \ {p} : pub'[q] = pub[q]
  BY <1>2 DEF Rewritten
<1>8. ~ Owing(p)'
  BY <1>3, <1>4, <1>5 DEF Owing
<1>9. setting.start # "previous" => file # "previous"
  BY <1>1 DEF Ordered
<1> QED BY <1>3, <1>4, <1>6, <1>7, <1>8, <1>9 DEF Aside, Unlocked, Writing

LEMMA FinishAside ==
  ASSUME Kept, NEW p \in Publishers, Markers!Finish(p), setting' = setting
  PROVE  Aside(p)
<1>1. /\ MarkersTyped /\ Ordered /\ OrderedAt(p) /\ pub[p] \in PublisherStates /\ p # None
      /\ lost \subseteq Publishers /\ pub[p].pc = "clean" /\ pub[p].todo = <<>> /\ lock = p
  BY KeptAt DEF Markers!Finish, OrderedAt, Locked
<1>2. /\ marker' = marker /\ file' = file /\ rows' = rows /\ reader' = reader
      /\ setting.start # "previous" => file # "previous" /\ pub[p].ending # "previous"
  BY <1>1, FinishDoes DEF Ordered, OrderedAt
<1>3. CASE /\ pub[p].ending = "previous" /\ lock' = None /\ lost' = lost
           /\ Rewritten(p, [pub[p] EXCEPT !.pc = "set aside", !.try = 2, !.strict = FALSE])
  <2>1. /\ pub'[p].pc = "set aside" /\ pub'[p].todo = pub[p].todo /\ pub'[p].owes = pub[p].owes
        /\ pub'[p].seq = pub[p].seq /\ pub'[p].ending = pub[p].ending
    BY <1>1, <1>3 DEF Rewritten, PublisherStates
  <2>2. OrderedAt(p)'
    BY <1>1, <1>2, <1>3, <2>1 DEF OrderedAt, Locked
  <2>3. \A q \in Publishers \ {p} : pub'[q] = pub[q] /\ (lock' = q <=> lock = q)
    BY <1>1, <1>3, SettingsMakeSense DEF Rewritten
  <2> QED BY <1>1, <1>2, <1>3, <2>1, <2>2, <2>3 DEF Aside, Owing, Unlocked, Writing
<1>4. CASE /\ pub[p].ending \in {"corrupt", "previous"} /\ lock' = None /\ lost' = lost
           /\ Rewritten(p, [pub[p] EXCEPT !.pc = "persist"])
  <2>1. /\ pub'[p].pc = "persist" /\ pub'[p].todo = pub[p].todo /\ pub'[p].owes = pub[p].owes
        /\ pub'[p].seq = pub[p].seq /\ pub'[p].ending = pub[p].ending
    BY <1>1, <1>4 DEF Rewritten, PublisherStates
  <2>2. OrderedAt(p)'
    BY <1>1, <1>2, <1>4, <2>1 DEF OrderedAt, Locked
  <2>3. \A q \in Publishers \ {p} : pub'[q] = pub[q] /\ (lock' = q <=> lock = q)
    BY <1>1, <1>4, SettingsMakeSense DEF Rewritten
  <2> QED BY <1>1, <1>2, <1>4, <2>1, <2>2, <2>3 DEF Aside, Owing, Unlocked, Writing
<1>5. CASE Markers!Ended(p, pub[p].ending) /\ pub[p].ending \notin {"corrupt", "previous"}
  <2>1. pub[p].ending \in {"none", "committed", "refused", "unavailable", "corrupt", "exceeded"}
    BY <1>1, <1>5 DEF PublisherStates
  <2> QED BY <1>1, <1>2, <1>5, <2>1, EndedAside
<1> QED BY <1>1, <1>3, <1>4, <1>5, FinishDoes
-----------------------------------------------------------------------------
(* The steps of the holder of the lock.                                     *)

LEMMA MineBy ==
  ASSUME Kept, NEW p \in Publishers, NEW rec, Rewritten(p, rec), pub[p].pc \in Locked,
         reader' = reader, setting' = setting, lock' = lock, lost' = lost, file' = file
  PROVE  Mine(p)
<1>1. lock = p /\ (setting.start # "previous" => file # "previous")
  BY KeptAt DEF OrderedAt, Ordered
<1> QED BY <1>1 DEF Mine, Rewritten

LEMMA OrderedOn ==
  ASSUME Kept, NEW p \in Publishers, Mine(p), pub'[p].pc \in Locked,
         pub'[p].pc # "clean" => pub'[p].todo = <<>>,
         pub'[p].pc = "claim" => pub'[p].ending = "exceeded",
         setting.start # "previous" /\ pub[p].ending # "previous" => pub'[p].ending # "previous"
  PROVE  OrderedAt(p)'
<1>1. OrderedAt(p)
  BY KeptAt
<1>2. p \notin lost'
  BY <1>1 DEF OrderedAt, Mine, Locked
<1> QED BY <1>1, <1>2 DEF OrderedAt, Mine, Locked

LEMMA OwnedOn ==
  ASSUME Kept, NEW p \in Publishers, Mine(p), marker'.active = marker.active,
         pub[p].pc \in Writing => /\ pub'[p].pc \in Writing /\ pub'[p].inherited = pub[p].inherited
                                  /\ Smooth /\ pub'[p].pc = "clean" /\ (pub[p].pc = "clean" => Due("active"))
                                       => Due("active")'
  PROVE  Owned'
<1>1. Owned /\ MarkersTyped /\ setting' = setting
  BY KeptAt DEF Kept, Mine
<1> SUFFICES ASSUME Smooth, marker.active # None, Markers!Alive(marker.active.by)'
             PROVE  /\ p = marker.active.by /\ pub'[p].pc \in Writing /\ pub'[p].inherited = None
                    /\ pub'[p].pc = "clean" => Due("active")'
  BY <1>1 DEF Owned, Smooth, Mine
<1>2. marker.active.by \in Publishers
  BY <1>1 DEF MarkersTyped, MarkerStates
<1>3. Markers!Alive(marker.active.by)
  BY <1>2 DEF Markers!Alive, Mine, Locked
<1>4. /\ p = marker.active.by /\ pub[p].pc \in Writing /\ pub[p].inherited = None
      /\ pub[p].pc = "clean" => Due("active")
  BY <1>1, <1>3 DEF Owned, Mine
<1> QED BY <1>4

\* The markers that vouch stand, and nothing new is owed.
LEMMA Standing ==
  ASSUME Kept, NEW p \in Publishers, Mine(p), pub'[p].seq = pub[p].seq, pub'[p].owes => pub[p].owes,
         marker'.publication = marker.publication, marker'.capacity = marker.capacity,
         \A m \in {"publication", "capacity"} : Due(m)' => Due(m)
  PROVE  /\ \A q \in Publishers : Owing(q)' => Vouched(q)'
         /\ \A q \in Publishers : Claimed(q) => Claimed(q)'
         /\ \A q \in lost' : Claimed(q) => Claimed(q)'
         /\ Smooth => marker'.capacity = None
         /\ pub[p].pc # "enter" /\ pub'[p].inherited = pub[p].inherited => BasedAt(p)'
<1>1. \A q \in Publishers : pub'[q].seq = pub[q].seq /\ (Owing(q)' => Owing(q))
  BY DEF Mine, Owing
<1>2. \A q \in Publishers : Claimed(q) => Claimed(q)'
  BY <1>1 DEF Claimed, Above
<1>3. \A q \in Publishers : Vouched(q) => Vouched(q)'
  BY <1>1, <1>2 DEF Vouched, Above
<1>4. \A q \in Publishers : Owing(q)' => Vouched(q)'
  BY <1>1, <1>3 DEF Kept, LossesVouched
<1>5. lost' \subseteq Publishers
  BY KeptAt DEF Mine
<1>6. Smooth => marker'.capacity = None
  BY DEF Kept, Unclaimed
<1>7. ASSUME pub[p].pc # "enter", pub'[p].inherited = pub[p].inherited PROVE BasedAt(p)'
  <2>1. BasedAt(p)
    BY <1>7 DEF Kept, Based, Mine
  <2> QED BY <1>1, <1>2, <1>7, <2>1 DEF BasedAt
<1> QED BY <1>2, <1>4, <1>5, <1>6, <1>7

LEMMA DueHere == ASSUME NEW p \in Publishers, Mine(p) PROVE
  /\ \A m : Due(m) <=> m \in Elements(pub[p].todo)
  /\ \A m : Due(m)' <=> m \in Elements(pub'[p].todo)
  BY DEF Due, Mine

LEMMA EnterHolds ==
  ASSUME Kept, NEW p \in Publishers, Markers!Enter(p), ~ disabled, setting' = setting
  PROVE  Holds(p)
<1>1. MarkersTyped /\ OrderedAt(p) /\ pub[p] \in PublisherStates
  BY KeptAt
<1>2. Rewritten(p, [pub[p] EXCEPT !.pc = "drop active", !.inherited = marker.publication,
                                  !.capacity = marker.capacity])
  BY <1>1, EnterDoes
<1>3. /\ pub'[p].pc = "drop active" /\ pub'[p].inherited = marker.publication /\ pub'[p].todo = pub[p].todo
      /\ pub'[p].capacity = marker.capacity /\ pub'[p].owes = pub[p].owes
      /\ pub'[p].seq = pub[p].seq /\ pub'[p].ending = pub[p].ending
  BY <1>1, <1>2 DEF Rewritten, PublisherStates
<1>4. pub[p].pc = "enter" /\ pub[p].todo = <<>>
  BY <1>1 DEF Markers!Enter, OrderedAt
<1>5. marker'.publication = marker.publication /\ marker'.capacity = marker.capacity /\ marker'.active = marker.active
  BY <1>1 DEF Markers!Enter, Markers!Dropped, MarkersTyped, MarkerStates
<1>6. Mine(p)
  BY <1>2, <1>4, MineBy DEF Markers!Enter, Locked
<1>7. \A m : ~ Due(m) /\ ~ Due(m)'
  BY <1>3, <1>4, <1>6, DueHere, NothingLeft
<1>8. /\ \A q \in Publishers : Owing(q)' => Vouched(q)'
      /\ \A q \in Publishers : Claimed(q) => Claimed(q)'
      /\ \A q \in lost' : Claimed(q) => Claimed(q)'
      /\ Smooth => marker'.capacity = None
  BY <1>3, <1>5, <1>6, <1>7, Standing
<1>9. BasedAt(p)'
  BY <1>3, <1>5, <1>8 DEF BasedAt, Vouched
<1>10. OrderedAt(p)'
  BY <1>3, <1>4, <1>6, OrderedOn DEF Locked
<1>11. Owned'
  BY <1>4, <1>5, <1>6, OwnedOn DEF Writing
<1>12. Learnt(p)' /\ Cleans(p)'
  BY <1>3, <1>5 DEF Learnt, Cleans
<1> QED BY <1>3, <1>6, <1>8, <1>9, <1>10, <1>11, <1>12 DEF Holds, Locked

LEMMA DropActiveHolds ==
  ASSUME Kept, NEW p \in Publishers, Markers!DropActive(p), setting' = setting
  PROVE  Holds(p)
<1>1. MarkersTyped /\ OrderedAt(p) /\ pub[p] \in PublisherStates /\ Learnt(p)
  BY KeptAt
<1>2. Rewritten(p, [pub[p] EXCEPT !.pc = "announce"])
  BY <1>1, WentDoes DEF Markers!DropActive, Locked
<1>3. /\ pub'[p].pc = "announce" /\ pub'[p].inherited = pub[p].inherited /\ pub'[p].todo = pub[p].todo
      /\ pub'[p].capacity = pub[p].capacity /\ pub'[p].owes = pub[p].owes
      /\ pub'[p].seq = pub[p].seq /\ pub'[p].ending = pub[p].ending
  BY <1>1, <1>2 DEF Rewritten, PublisherStates
<1>4. pub[p].pc = "drop active" /\ pub[p].todo = <<>>
  BY <1>1 DEF Markers!DropActive, OrderedAt
<1>5. marker'.publication = marker.publication /\ marker'.capacity = marker.capacity /\ marker'.active = None
  BY <1>1 DEF Markers!DropActive, MarkersTyped, MarkerStates
<1>6. Mine(p)
  BY <1>2, <1>4, MineBy DEF Markers!DropActive, Locked
<1>7. \A m : ~ Due(m) /\ ~ Due(m)'
  BY <1>3, <1>4, <1>6, DueHere, NothingLeft
<1>8. /\ \A q \in Publishers : Owing(q)' => Vouched(q)'
      /\ \A q \in lost' : Claimed(q) => Claimed(q)'
      /\ Smooth => marker'.capacity = None
      /\ BasedAt(p)'
  BY <1>3, <1>4, <1>5, <1>6, <1>7, Standing
<1>9. OrderedAt(p)'
  BY <1>3, <1>4, <1>6, OrderedOn DEF Locked
<1>10. Owned'
  BY <1>5 DEF Owned
<1>11. Learnt(p)' /\ Cleans(p)'
  BY <1>1, <1>3, <1>4, <1>5 DEF Learnt, Cleans, Locked
<1> QED BY <1>3, <1>6, <1>8, <1>9, <1>10, <1>11 DEF Holds, Locked

LEMMA WriteActiveHolds ==
  ASSUME Kept, NEW p \in Publishers, Markers!WriteActive(p), setting' = setting
  PROVE  Holds(p)
<1>1. MarkersTyped /\ OrderedAt(p) /\ pub[p] \in PublisherStates /\ Learnt(p)
  BY KeptAt
<1>2. Rewritten(p, [pub[p] EXCEPT !.pc = "publish"])
  BY <1>1, WentDoes DEF Markers!WriteActive, Locked
<1>3. /\ pub'[p].pc = "publish" /\ pub'[p].inherited = pub[p].inherited /\ pub'[p].todo = pub[p].todo
      /\ pub'[p].capacity = pub[p].capacity /\ pub'[p].owes = pub[p].owes
      /\ pub'[p].seq = pub[p].seq /\ pub'[p].ending = pub[p].ending
  BY <1>1, <1>2 DEF Rewritten, PublisherStates
<1>4. pub[p].pc = "announce" /\ pub[p].todo = <<>>
  BY <1>1 DEF Markers!WriteActive, OrderedAt
<1>5. marker'.publication = marker.publication /\ marker'.capacity = marker.capacity
  BY <1>1 DEF Markers!WriteActive, MarkersTyped, MarkerStates
<1>6. Mine(p)
  BY <1>2, <1>4, MineBy DEF Markers!WriteActive, Locked
<1>7. \A m : ~ Due(m) /\ ~ Due(m)'
  BY <1>3, <1>4, <1>6, DueHere, NothingLeft
<1>8. /\ \A q \in Publishers : Owing(q)' => Vouched(q)'
      /\ \A q \in lost' : Claimed(q) => Claimed(q)'
      /\ Smooth => marker'.capacity = None
      /\ BasedAt(p)'
  BY <1>3, <1>4, <1>5, <1>6, <1>7, Standing
<1>9. OrderedAt(p)'
  BY <1>3, <1>4, <1>6, OrderedOn DEF Locked
<1>10. Owned'
  <2>1. CASE pub[p].inherited = None
    <3>1. marker'.active.by = p
      BY <1>1, <2>1 DEF Markers!WriteActive, Markers!Exempt, MarkersTyped, MarkerStates
    <3> QED BY <1>3, <1>6, <2>1, <3>1 DEF Owned, Mine, Writing
  <2>2. CASE pub[p].inherited # None
    <3>1. marker'.active = marker.active
      BY <2>2 DEF Markers!WriteActive, Markers!Exempt
    <3> QED BY <1>4, <1>6, <3>1, OwnedOn DEF Writing
  <2> QED BY <2>1, <2>2
<1>11. Learnt(p)' /\ Cleans(p)'
  BY <1>1, <1>3, <1>4, <1>5 DEF Learnt, Cleans, Locked
<1> QED BY <1>3, <1>6, <1>8, <1>9, <1>10, <1>11 DEF Holds, Locked

\* The announcement covers what it replaces, and its own publisher.
LEMMA WritePublicationHolds ==
  ASSUME Kept, NEW p \in Publishers, Markers!WritePublication(p), setting' = setting
  PROVE  Holds(p)
<1> DEFINE high == Markers!Highest({pub[p].seq, pub[p].inherited})
<1>1. MarkersTyped /\ OrderedAt(p) /\ pub[p] \in PublisherStates /\ Learnt(p)
  BY KeptAt
<1>2. Rewritten(p, [pub[p] EXCEPT !.pc = "reserve", !.owes = TRUE])
  BY <1>1, AnnounceDoes
<1>3. /\ pub'[p].pc = "reserve" /\ pub'[p].inherited = pub[p].inherited /\ pub'[p].todo = pub[p].todo
      /\ pub'[p].capacity = pub[p].capacity /\ pub'[p].seq = pub[p].seq /\ pub'[p].ending = pub[p].ending
  BY <1>1, <1>2 DEF Rewritten, PublisherStates
<1>4. pub[p].pc = "publish" /\ pub[p].todo = <<>>
  BY <1>1 DEF Markers!WritePublication, OrderedAt
<1>5. marker'.publication = high /\ marker'.capacity = marker.capacity /\ marker'.active = marker.active
  BY <1>1 DEF Markers!WritePublication, MarkersTyped, MarkerStates
<1>6. Mine(p)
  BY <1>2, <1>4, MineBy DEF Markers!WritePublication, Locked
<1>7. \A m : ~ Due(m) /\ ~ Due(m)'
  BY <1>3, <1>4, <1>6, DueHere, NothingLeft
<1>8. /\ high \in Nat /\ pub[p].seq <= high /\ (pub[p].inherited # None => pub[p].inherited <= high)
      /\ pub[p].seq \in Nat /\ high # None
      /\ pub[p].inherited = marker.publication /\ pub[p].inherited \in Numbers
  <2>1. pub[p].seq \in Nat /\ pub[p].inherited \in Numbers
    BY <1>1 DEF PublisherStates
  <2>2. high \in Nat /\ pub[p].seq <= high /\ (pub[p].inherited # None => pub[p].inherited <= high)
    BY <2>1, HigherOf
  <2>3. pub[p].inherited = marker.publication
    BY <1>1, <1>4 DEF Learnt
  <2> QED BY <2>1, <2>2, <2>3, SettingsMakeSense
<1> HIDE DEF high
<1>9. \A q \in Publishers : Claimed(q) => Claimed(q)'
  BY <1>3, <1>5, <1>6, <1>7 DEF Claimed, Above, Mine
<1>10. ASSUME NEW q \in Publishers \ {p}, Owing(q)' PROVE Vouched(q)' /\ Owing(q) /\ pub'[q].seq = pub[q].seq
  <2>1. Owing(q) /\ pub'[q].seq = pub[q].seq /\ Vouched(q) /\ pub[q].seq \in Nat
    BY <1>1, <1>6, <1>10, StateOf DEF Mine, Owing, Kept, LossesVouched, PublisherStates
  <2>2. CASE Claimed(q)
    BY <1>9, <2>1, <2>2 DEF Vouched
  <2>3. CASE Above(marker.publication, pub[q].seq)
    BY <1>5, <1>7, <1>8, <2>1, <2>3 DEF Vouched, Above, Numbers
  <2> QED BY <2>1, <2>2, <2>3 DEF Vouched
<1>11. Vouched(p)'
  BY <1>3, <1>5, <1>7, <1>8 DEF Vouched, Above
<1>12. BasedAt(p)'
  <2>1. BasedAt(p)
    BY <1>4 DEF Kept, Based, Locked
  <2> QED BY <1>3, <1>9, <1>10, <2>1 DEF BasedAt
<1>13. OrderedAt(p)'
  BY <1>3, <1>4, <1>6, OrderedOn DEF Locked
<1>14. Owned'
  BY <1>3, <1>4, <1>5, <1>6, OwnedOn DEF Writing
<1>15. Learnt(p)' /\ Cleans(p)'
  BY <1>1, <1>3, <1>4, <1>5 DEF Learnt, Cleans, Locked, high
<1>16. lost' \subseteq Publishers /\ (Smooth => marker'.capacity = None)
  BY <1>1, <1>5, <1>6 DEF Mine, MarkersTyped, Kept, Unclaimed
<1>17. \A q \in Publishers : Owing(q)' => Vouched(q)'
  BY <1>10, <1>11
<1> QED BY <1>3, <1>6, <1>9, <1>12, <1>13, <1>14, <1>15, <1>16, <1>17 DEF Holds, Locked

LEMMA WriteReserveHolds ==
  ASSUME Kept, NEW p \in Publishers, Markers!WriteReserve(p), setting' = setting
  PROVE  Holds(p)
<1>1. MarkersTyped /\ OrderedAt(p) /\ pub[p] \in PublisherStates /\ Learnt(p)
  BY KeptAt
<1>2. Rewritten(p, [pub[p] EXCEPT !.pc = "store"])
  BY <1>1, WentDoes DEF Markers!WriteReserve, Locked
<1>3. /\ pub'[p].pc = "store" /\ pub'[p].inherited = pub[p].inherited /\ pub'[p].todo = pub[p].todo
      /\ pub'[p].capacity = pub[p].capacity /\ pub'[p].owes = pub[p].owes
      /\ pub'[p].seq = pub[p].seq /\ pub'[p].ending = pub[p].ending
  BY <1>1, <1>2 DEF Rewritten, PublisherStates
<1>4. pub[p].pc = "reserve" /\ pub[p].todo = <<>>
  BY <1>1 DEF Markers!WriteReserve, OrderedAt
<1>5. /\ marker'.publication = marker.publication /\ marker'.capacity = marker.capacity
      /\ marker'.active = marker.active
      /\ marker'.reserve = Markers!Highest({pub[p].seq, pub[p].capacity, pub[p].inherited})
  BY <1>1 DEF Markers!WriteReserve, MarkersTyped, MarkerStates
<1>6. Mine(p)
  BY <1>2, <1>4, MineBy DEF Markers!WriteReserve, Locked
<1>7. \A m : ~ Due(m) /\ ~ Due(m)'
  BY <1>3, <1>4, <1>6, DueHere, NothingLeft
<1>8. /\ \A q \in Publishers : Owing(q)' => Vouched(q)'
      /\ \A q \in lost' : Claimed(q) => Claimed(q)'
      /\ Smooth => marker'.capacity = None
      /\ BasedAt(p)'
  BY <1>3, <1>4, <1>5, <1>6, <1>7, Standing
<1>9. OrderedAt(p)'
  BY <1>3, <1>4, <1>6, OrderedOn DEF Locked
<1>10. Owned'
  BY <1>3, <1>4, <1>5, <1>6, OwnedOn DEF Writing
<1>11. Learnt(p)' /\ Cleans(p)'
  BY <1>1, <1>3, <1>4, <1>5 DEF Learnt, Cleans, Locked
<1> QED BY <1>3, <1>6, <1>8, <1>9, <1>10, <1>11 DEF Holds, Locked

\* Taking the reservation back: what was there before it vouches without it.
LEMMA TakenBack ==
  ASSUME Kept, NEW p \in Publishers, Mine(p), pub[p].pc \in {"publish", "reserve", "store"}, marker' = marker,
         pub'[p].pc = "clean", pub'[p].ending = "unavailable", pub'[p].seq = pub[p].seq,
         pub'[p].inherited = pub[p].inherited, pub'[p].owes = FALSE,
         pub'[p].todo = Markers!Reservation(pub[p].inherited # None)
  PROVE  Holds(p)
<1>1. /\ MarkersTyped /\ OrderedAt(p) /\ pub[p] \in PublisherStates /\ Learnt(p) /\ lost \subseteq Publishers
      /\ pub[p].todo = <<>>
  BY KeptAt DEF OrderedAt
<1>2. Elements(pub'[p].todo) = {"reserve", "active"} \union IF pub[p].inherited # None THEN {} ELSE {"publication"}
  BY LeftAfter
<1>3. \A m : ~ Due(m)
  BY <1>1, DueHere, NothingLeft
<1>4. /\ ~ Due("capacity")' /\ Due("active")'
      /\ Due("publication")' <=> pub[p].inherited = None
  BY <1>2, DueHere
<1>5. \A q \in Publishers : pub'[q].seq = pub[q].seq
  BY DEF Mine
<1>6. \A q \in Publishers : Claimed(q) => Claimed(q)'
  BY <1>4, <1>5 DEF Claimed, Above
<1>7. p \notin lost'
  BY <1>1 DEF OrderedAt, Mine
<1>8. ASSUME NEW q \in Publishers, Owing(q)'
      PROVE  q # p /\ Owing(q) /\ (Above(pub[p].inherited, pub[q].seq) \/ Claimed(q))
  <2>1. q # p /\ Owing(q)
    BY <1>7, <1>8 DEF Owing, Mine
  <2> QED BY <2>1 DEF Kept, Based, BasedAt, Locked
<1>9. BasedAt(p)'
  BY <1>5, <1>6, <1>8 DEF BasedAt
<1>10. \A q \in Publishers : Owing(q)' => Vouched(q)'
  <2> SUFFICES ASSUME NEW q \in Publishers, Owing(q)' PROVE Vouched(q)'
    OBVIOUS
  <2>1. Owing(q) /\ Vouched(q)
    BY <1>8 DEF Kept, LossesVouched
  <2>2. CASE Claimed(q)
    BY <1>6, <2>2 DEF Vouched
  <2>3. CASE ~ Claimed(q)
    <3>1. pub[p].inherited # None
      BY <1>8, <2>3 DEF Above
    <3> QED BY <1>4, <1>5, <2>1, <2>3, <3>1 DEF Vouched, Above
  <2> QED BY <2>2, <2>3
<1>11. OrderedAt(p)'
  BY OrderedOn DEF Locked
<1>12. Owned'
  BY <1>4, OwnedOn DEF Writing
<1>13. Learnt(p)' /\ Cleans(p)'
  BY <1>4 DEF Learnt, Cleans, Locked
<1>14. lost' \subseteq Publishers /\ (Smooth => marker'.capacity = None)
  BY <1>1 DEF Mine, Kept, Unclaimed
<1> QED BY <1>6, <1>9, <1>10, <1>11, <1>12, <1>13, <1>14 DEF Holds, Locked

LEMMA WriteFailsHolds ==
  ASSUME Kept, NEW p \in Publishers, Markers!WriteFails(p), pub[p].pc \in {"publish", "reserve"}, setting' = setting
  PROVE  Holds(p)
<1>1. MarkersTyped /\ pub[p] \in PublisherStates
  BY KeptAt
<1>2. Rewritten(p, [pub[p] EXCEPT !.pc = "clean", !.ending = "unavailable",
                                  !.todo = Markers!Reservation(pub[p].inherited # None), !.owes = FALSE])
  BY <1>1, WriteFailsDoes
<1>3. /\ pub'[p].pc = "clean" /\ pub'[p].ending = "unavailable" /\ pub'[p].seq = pub[p].seq
      /\ pub'[p].inherited = pub[p].inherited /\ pub'[p].owes = FALSE
      /\ pub'[p].todo = Markers!Reservation(pub[p].inherited # None)
  BY <1>1, <1>2 DEF Rewritten, PublisherStates
<1>4. lock' = lock /\ lost' = lost /\ marker' = marker /\ file' = file /\ reader' = reader
  BY DEF Markers!WriteFails
<1>5. Mine(p)
  BY <1>2, <1>4, MineBy DEF Locked
<1> QED BY <1>3, <1>4, <1>5, TakenBack

LEMMA ContendedHolds ==
  ASSUME Kept, NEW p \in Publishers, Markers!Contended(p), setting' = setting
  PROVE  Holds(p)
<1>1. MarkersTyped /\ pub[p] \in PublisherStates
  BY KeptAt
<1>2. Rewritten(p, [pub[p] EXCEPT !.pc = "clean", !.ending = "unavailable", !.owes = FALSE,
                                  !.todo = Markers!Reservation(pub[p].inherited # None)])
  BY <1>1, ContendedDoes
<1>3. /\ pub'[p].pc = "clean" /\ pub'[p].ending = "unavailable" /\ pub'[p].seq = pub[p].seq
      /\ pub'[p].inherited = pub[p].inherited /\ pub'[p].owes = FALSE
      /\ pub'[p].todo = Markers!Reservation(pub[p].inherited # None)
  BY <1>1, <1>2 DEF Rewritten, PublisherStates
<1>4. lock' = lock /\ lost' = lost /\ marker' = marker /\ file' = file /\ reader' = reader /\ pub[p].pc = "store"
  BY DEF Markers!Contended
<1>5. Mine(p)
  BY <1>2, <1>4, MineBy DEF Locked
<1> QED BY <1>3, <1>4, <1>5, TakenBack

LEMMA UnusableHolds ==
  ASSUME Kept, NEW p \in Publishers, Markers!Unusable(p), setting' = setting
  PROVE  Holds(p)
<1>1. MarkersTyped /\ OrderedAt(p) /\ pub[p] \in PublisherStates /\ Ordered
  BY KeptAt
<1>2. PICK ending \in {"previous", "corrupt"} : ending = IF file = "previous" THEN "previous" ELSE "corrupt"
  OBVIOUS
<1>3. Rewritten(p, [pub[p] EXCEPT !.pc = "clean", !.strict = TRUE, !.ending = ending,
                                  !.todo = <<"reserve", "active">>])
  BY <1>1, <1>2, UnusableDoes
<1>4. /\ pub'[p].pc = "clean" /\ pub'[p].ending = ending /\ pub'[p].todo = <<"reserve", "active">>
      /\ pub'[p].seq = pub[p].seq /\ pub'[p].inherited = pub[p].inherited /\ pub'[p].owes = pub[p].owes
  BY <1>1, <1>3 DEF Rewritten, PublisherStates
<1>5. /\ pub[p].pc = "store" /\ marker' = marker /\ lock' = lock /\ lost' = lost /\ file' = file
      /\ reader' = reader
      /\ setting.start # "previous" => ending # "previous"
  BY <1>1, <1>2 DEF Markers!Unusable, Ordered
<1>6. Mine(p)
  BY <1>3, <1>5, MineBy DEF Locked
<1>7. ~ Due("publication")' /\ ~ Due("capacity")' /\ Due("active")'
  BY <1>4, <1>6, DueHere, LeftFew
<1>8. /\ \A q \in Publishers : Owing(q)' => Vouched(q)'
      /\ \A q \in lost' : Claimed(q) => Claimed(q)'
      /\ Smooth => marker'.capacity = None
      /\ BasedAt(p)'
  BY <1>4, <1>5, <1>6, <1>7, Standing
<1>9. OrderedAt(p)'
  BY <1>4, <1>5, <1>6, OrderedOn DEF Locked
<1>10. Owned'
  BY <1>4, <1>5, <1>6, <1>7, OwnedOn DEF Writing
<1>11. Learnt(p)' /\ Cleans(p)'
  BY <1>2, <1>4, <1>7 DEF Learnt, Cleans, Locked
<1> QED BY <1>4, <1>6, <1>8, <1>9, <1>10, <1>11 DEF Holds, Locked

LEMMA ExhaustedHolds ==
  ASSUME Kept, NEW p \in Publishers, Markers!Exhausted(p), setting' = setting
  PROVE  Holds(p)
<1>1. MarkersTyped /\ OrderedAt(p) /\ pub[p] \in PublisherStates /\ Learnt(p)
  BY KeptAt
<1>2. Rewritten(p, [pub[p] EXCEPT !.pc = "claim", !.ending = "exceeded", !.strict = TRUE])
  BY <1>1, ExhaustedDoes
<1>3. /\ pub'[p].pc = "claim" /\ pub'[p].ending = "exceeded" /\ pub'[p].todo = pub[p].todo
      /\ pub'[p].capacity = pub[p].capacity /\ pub'[p].seq = pub[p].seq
      /\ pub'[p].inherited = pub[p].inherited /\ pub'[p].owes = pub[p].owes
  BY <1>1, <1>2 DEF Rewritten, PublisherStates
<1>4. /\ pub[p].pc = "store" /\ pub[p].todo = <<>> /\ marker' = marker /\ lock' = lock /\ lost' = lost
      /\ file' = file /\ reader' = reader /\ ~ Smooth
  BY <1>1 DEF Markers!Exhausted, Markers!Fails, OrderedAt, Smooth
<1>5. Mine(p)
  BY <1>2, <1>4, MineBy DEF Locked
<1>6. \A m : ~ Due(m) /\ ~ Due(m)'
  BY <1>3, <1>4, <1>5, DueHere, NothingLeft
<1>7. /\ \A q \in Publishers : Owing(q)' => Vouched(q)'
      /\ \A q \in lost' : Claimed(q) => Claimed(q)'
      /\ BasedAt(p)'
  BY <1>3, <1>4, <1>5, <1>6, Standing
<1>8. OrderedAt(p)'
  BY <1>3, <1>4, <1>5, OrderedOn DEF Locked
<1>9. Owned'
  BY <1>3, <1>4, <1>5, OwnedOn DEF Writing
<1>10. Learnt(p)' /\ Cleans(p)'
  BY <1>1, <1>3, <1>4 DEF Learnt, Cleans, Locked
<1> QED BY <1>3, <1>4, <1>5, <1>7, <1>8, <1>9, <1>10 DEF Holds, Locked

\* The claim covers whatever the publication marker covered.
LEMMA ClaimHolds ==
  ASSUME Kept, NEW p \in Publishers, Markers!Claim(p), setting' = setting
  PROVE  Holds(p)
<1> DEFINE high == Markers!Highest({pub[p].seq, pub[p].capacity, pub[p].inherited})
<1>1. MarkersTyped /\ OrderedAt(p) /\ pub[p] \in PublisherStates /\ Learnt(p)
  BY KeptAt
<1>2. Rewritten(p, [pub[p] EXCEPT !.pc = "clean", !.todo = <<"active", "publication">>])
  BY <1>1, ClaimDoes
<1>3. /\ pub'[p].pc = "clean" /\ pub'[p].todo = <<"active", "publication">> /\ pub'[p].ending = pub[p].ending
      /\ pub'[p].seq = pub[p].seq /\ pub'[p].inherited = pub[p].inherited /\ pub'[p].owes = pub[p].owes
  BY <1>1, <1>2 DEF Rewritten, PublisherStates
<1>4. /\ pub[p].pc = "claim" /\ pub[p].todo = <<>> /\ lock' = lock /\ lost' = lost /\ pub[p].ending = "exceeded"
      /\ file' = file /\ reader' = reader /\ ~ Smooth
  BY <1>1 DEF Markers!Claim, OrderedAt, Kept, Unclaimed
<1>5. marker'.capacity = high /\ marker'.active = marker.active /\ marker.capacity = pub[p].capacity
  BY <1>1, <1>4 DEF Markers!Claim, MarkersTyped, MarkerStates, Learnt, Locked
<1>6. Mine(p)
  BY <1>2, <1>4, MineBy DEF Locked
<1>7. /\ \A m : ~ Due(m)
      /\ ~ Due("capacity")' /\ Due("active")'
  BY <1>3, <1>4, <1>6, DueHere, NothingLeft, LeftFew
<1>8. /\ high \in Nat /\ pub[p].seq <= high /\ pub[p].seq \in Nat
      /\ pub[p].capacity # None => pub[p].capacity <= high
      /\ pub[p].inherited # None => pub[p].inherited <= high
      /\ pub[p].capacity \in Numbers /\ pub[p].inherited \in Numbers /\ high # None
  <2>1. pub[p].seq \in Nat /\ pub[p].inherited \in Numbers /\ pub[p].capacity \in Numbers
    BY <1>1 DEF PublisherStates
  <2>2. /\ high \in Nat /\ pub[p].seq <= high
        /\ pub[p].capacity # None => pub[p].capacity <= high
        /\ pub[p].inherited # None => pub[p].inherited <= high
    BY <2>1, HighestOf
  <2> QED BY <2>1, <2>2, SettingsMakeSense
<1> HIDE DEF high
<1>9. \A q \in Publishers : pub'[q].seq = pub[q].seq /\ pub[q].seq \in Nat /\ (Owing(q)' => Owing(q))
  <2>1. \A q \in Publishers : pub[q].seq \in Nat
    BY <1>1, StateOf DEF PublisherStates
  <2> QED BY <1>3, <1>6, <2>1 DEF Mine, Owing
<1>10. \A q \in Publishers : Claimed(q) => Claimed(q)'
  BY <1>5, <1>7, <1>8, <1>9 DEF Claimed, Above, Numbers
<1>11. ASSUME NEW q \in Publishers, Owing(q)' PROVE Claimed(q)'
  <2>1. CASE q = p
    BY <1>3, <1>5, <1>7, <1>8, <2>1 DEF Claimed, Above
  <2>2. CASE q # p
    <3>1. Above(pub[p].inherited, pub[q].seq) \/ Claimed(q)
      BY <1>4, <1>9, <1>11, <2>2 DEF Kept, Based, BasedAt, Locked
    <3>2. CASE Above(pub[p].inherited, pub[q].seq)
      BY <1>5, <1>7, <1>8, <1>9, <3>2 DEF Claimed, Above, Numbers
    <3> QED BY <1>10, <3>1, <3>2
  <2> QED BY <2>1, <2>2
<1>12. (\A q \in Publishers : Owing(q)' => Vouched(q)') /\ BasedAt(p)'
  BY <1>11 DEF Vouched, BasedAt
<1>13. OrderedAt(p)'
  BY <1>3, <1>4, <1>6, OrderedOn DEF Locked
<1>14. Owned'
  BY <1>3, <1>5, <1>6, <1>7, OwnedOn DEF Writing
<1>15. Learnt(p)' /\ Cleans(p)'
  BY <1>3, <1>4, <1>7 DEF Learnt, Cleans, Locked
<1>16. \A q \in lost' : Claimed(q) => Claimed(q)'
  BY <1>1, <1>4, <1>10 DEF MarkersTyped
<1> QED BY <1>3, <1>4, <1>6, <1>12, <1>13, <1>14, <1>15, <1>16 DEF Holds, Locked

LEMMA ClaimFailsHolds ==
  ASSUME Kept, NEW p \in Publishers, Markers!ClaimFails(p), setting' = setting
  PROVE  Holds(p)
<1>1. MarkersTyped /\ OrderedAt(p) /\ pub[p] \in PublisherStates
  BY KeptAt
<1>2. Rewritten(p, [pub[p] EXCEPT !.pc = "clean"])
  BY <1>1, WentDoes DEF Markers!ClaimFails, Locked
<1>3. /\ pub'[p].pc = "clean" /\ pub'[p].ending = pub[p].ending /\ pub'[p].todo = pub[p].todo
      /\ pub'[p].seq = pub[p].seq /\ pub'[p].inherited = pub[p].inherited /\ pub'[p].owes = pub[p].owes
  BY <1>1, <1>2 DEF Rewritten, PublisherStates
<1>4. /\ pub[p].pc = "claim" /\ pub[p].todo = <<>> /\ pub[p].ending = "exceeded" /\ marker' = marker
      /\ lock' = lock /\ lost' = lost /\ file' = file /\ reader' = reader /\ ~ Smooth
  BY <1>1 DEF Markers!ClaimFails, Markers!Fails, OrderedAt, Smooth
<1>5. Mine(p)
  BY <1>2, <1>4, MineBy DEF Locked
<1>6. \A m : ~ Due(m) /\ ~ Due(m)'
  BY <1>3, <1>4, <1>5, DueHere, NothingLeft
<1>7. /\ \A q \in Publishers : Owing(q)' => Vouched(q)'
      /\ \A q \in lost' : Claimed(q) => Claimed(q)'
      /\ BasedAt(p)'
  BY <1>3, <1>4, <1>5, <1>6, Standing
<1>8. OrderedAt(p)'
  BY <1>3, <1>4, <1>5, OrderedOn DEF Locked
<1>9. Owned'
  BY <1>3, <1>4, <1>5, OwnedOn DEF Writing
<1>10. Learnt(p)' /\ Cleans(p)'
  BY <1>3, <1>4, <1>6 DEF Learnt, Cleans, Locked
<1> QED BY <1>3, <1>4, <1>5, <1>7, <1>8, <1>9, <1>10 DEF Holds, Locked

LEMMA RemoveHolds ==
  ASSUME Kept, NEW p \in Publishers, Markers!Remove(p), setting' = setting
  PROVE  Holds(p)
<1> DEFINE s == pub[p].todo
           first == Head(pub[p].todo)
<1>1. MarkersTyped /\ OrderedAt(p) /\ pub[p] \in PublisherStates /\ Cleans(p)
  BY KeptAt
<1>2. Rewritten(p, [pub[p] EXCEPT !.todo = Tail(s)])
  BY <1>1, RemoveDoes
<1>3. /\ pub'[p].pc = pub[p].pc /\ pub'[p].ending = pub[p].ending /\ pub'[p].todo = Tail(s)
      /\ pub'[p].seq = pub[p].seq /\ pub'[p].inherited = pub[p].inherited /\ pub'[p].owes = pub[p].owes
      /\ pub'[p].enabled = pub[p].enabled
  BY <1>1, <1>2 DEF Rewritten, PublisherStates
<1>4. /\ pub[p].pc = "clean" /\ s # <<>> /\ lock' = lock /\ lost' = lost
      /\ file' = file /\ rows' = rows /\ reader' = reader
      /\ marker' = [marker EXCEPT ![first] = None]
  BY DEF Markers!Remove
<1>5. s \in Seq(MarkerFiles)
  BY <1>1 DEF PublisherStates
<1>6. first \in MarkerFiles /\ Elements(s) = {first} \union Elements(Tail(s))
  BY <1>4, <1>5, RestOf
<1>7. Mine(p)
  BY <1>2, <1>4, MineBy DEF Locked
<1>8. /\ Due(first)
      /\ \A m : Due(m)' => Due(m)
      /\ \A m : Due(m) /\ m # first => Due(m)'
  BY <1>3, <1>6, <1>7, DueHere
<1> HIDE DEF s, first
<1>9. /\ marker'.publication = IF first = "publication" THEN None ELSE marker.publication
      /\ marker'.capacity = IF first = "capacity" THEN None ELSE marker.capacity
      /\ marker'.active = IF first = "active" THEN None ELSE marker.active
  BY <1>1, <1>4, <1>6 DEF MarkersTyped, MarkerStates, MarkerFiles
<1>10. \A q \in Publishers : pub'[q].seq = pub[q].seq /\ (Owing(q)' => Owing(q))
  BY <1>3, <1>7 DEF Mine, Owing
<1>11. \A q \in Publishers : Claimed(q) => Claimed(q)'
  <2> SUFFICES ASSUME NEW q \in Publishers, Claimed(q) PROVE Claimed(q)'
    OBVIOUS
  <2>1. first # "capacity"
    BY <1>8 DEF Claimed
  <2> QED BY <1>8, <1>9, <1>10, <2>1 DEF Claimed, Above
<1>12. \A q \in Publishers : Owing(q)' => Vouched(q)'
  <2> SUFFICES ASSUME NEW q \in Publishers, Owing(q)' PROVE Vouched(q)'
    OBVIOUS
  <2>1. Vouched(q)
    BY <1>10 DEF Kept, LossesVouched
  <2>2. CASE Claimed(q)
    BY <1>11, <2>2 DEF Vouched
  <2>3. CASE ~ Claimed(q)
    <3>1. first # "publication" /\ Above(marker.publication, pub[q].seq) /\ ~ Due("publication")
      BY <1>8, <2>1, <2>3 DEF Vouched
    <3> QED BY <1>8, <1>9, <1>10, <3>1 DEF Vouched, Above
  <2> QED BY <2>2, <2>3
<1>13. BasedAt(p)'
  <2>1. BasedAt(p)
    BY <1>4 DEF Kept, Based, Locked
  <2> QED BY <1>3, <1>10, <1>11, <2>1 DEF BasedAt
<1>14. OrderedAt(p)'
  BY <1>3, <1>4, <1>7, OrderedOn DEF Locked
<1>15. Owned'
  <2>1. CASE first = "active"
    BY <1>9, <2>1 DEF Owned
  <2>2. CASE first # "active"
    BY <1>3, <1>4, <1>7, <1>8, <1>9, <2>2, OwnedOn
  <2> QED BY <2>1, <2>2
<1>16. Cleans(p)'
  <2>1. setting' = setting
    OBVIOUS
  <2>2. CASE Due("capacity")'
    BY <1>1, <1>3, <1>4, <1>8, <1>9, <2>1, <2>2 DEF Cleans
  <2>3. CASE ~ Due("capacity")'
    BY <1>1, <1>3, <1>4, <1>8, <1>9, <2>1, <2>3 DEF Cleans
  <2> QED BY <2>2, <2>3
<1>17. Learnt(p)'
  BY <1>3, <1>4 DEF Learnt, Locked
<1>18. lost' \subseteq Publishers /\ (Smooth => marker'.capacity = None)
  BY <1>1, <1>4, <1>9 DEF MarkersTyped, Kept, Unclaimed
<1> QED BY <1>3, <1>4, <1>7, <1>11, <1>12, <1>13, <1>14, <1>15, <1>16, <1>17, <1>18 DEF Holds, Locked

LEMMA RemoveFailsHolds ==
  ASSUME Kept, NEW p \in Publishers, Markers!RemoveFails(p), setting' = setting
  PROVE  Holds(p)
<1>1. MarkersTyped /\ OrderedAt(p) /\ pub[p] \in PublisherStates /\ Cleans(p)
  BY KeptAt
<1>2. PICK s : s = IF pub[p].strict THEN <<>> ELSE Tail(pub[p].todo)
  OBVIOUS
<1>3. Rewritten(p, [pub[p] EXCEPT !.todo = s, !.enabled = FALSE])
  BY <1>1, <1>2, RemoveFailsDoes
<1>4. /\ pub'[p].pc = pub[p].pc /\ pub'[p].ending = pub[p].ending /\ pub'[p].todo = s
      /\ pub'[p].seq = pub[p].seq /\ pub'[p].inherited = pub[p].inherited /\ pub'[p].owes = pub[p].owes
      /\ pub'[p].enabled = FALSE
  BY <1>1, <1>3 DEF Rewritten, PublisherStates
<1>5. /\ pub[p].pc = "clean" /\ pub[p].todo # <<>> /\ lock' = lock /\ lost' = lost
      /\ file' = file /\ rows' = rows /\ reader' = reader /\ marker' = marker /\ ~ Smooth
  BY DEF Markers!RemoveFails, Markers!Fails, Smooth
<1>6. pub[p].todo \in Seq(MarkerFiles)
  BY <1>1 DEF PublisherStates
<1>7. Elements(s) \subseteq Elements(pub[p].todo)
  <2>1. CASE pub[p].strict
    BY <1>2, <2>1, NothingLeft
  <2>2. CASE ~ pub[p].strict
    BY <1>2, <1>5, <1>6, <2>2, RestOf
  <2> QED BY <2>1, <2>2
<1>8. Mine(p)
  BY <1>3, <1>5, MineBy DEF Locked
<1>9. \A m : Due(m)' => Due(m)
  BY <1>4, <1>7, <1>8, DueHere
<1>10. /\ \A q \in Publishers : Owing(q)' => Vouched(q)'
       /\ \A q \in lost' : Claimed(q) => Claimed(q)'
       /\ BasedAt(p)'
  BY <1>4, <1>5, <1>8, <1>9, Standing
<1>11. OrderedAt(p)'
  BY <1>4, <1>5, <1>8, OrderedOn DEF Locked
<1>12. Owned'
  BY <1>5, <1>8 DEF Owned, Smooth, Mine
<1>13. Learnt(p)' /\ Cleans(p)'
  BY <1>1, <1>4, <1>5, <1>9 DEF Learnt, Cleans, Locked
<1> QED BY <1>4, <1>5, <1>8, <1>10, <1>11, <1>12, <1>13 DEF Holds, Locked

\* A commit takes back its own announcement, and a full gate the earlier ones
\* that its commit has settled.
LEMMA CommittingHolds ==
  ASSUME Kept, NEW p \in Publishers, Markers!Committing(p), setting' = setting
  PROVE  Holds(p)
<1> DEFINE c == Markers!Recovers(p, pub[p].capacity)
           k == Markers!Recovers(p, pub[p].inherited)
<1>1. /\ MarkersTyped /\ Ordered /\ OrderedAt(p) /\ Learnt(p) /\ pub[p] \in PublisherStates
      /\ lost \subseteq Publishers
  BY KeptAt
<1>2. /\ pub'[p] = Markers!Committed(p)
      /\ \A q \in Publishers \ {p} :
           pub'[q] = [pub[q] EXCEPT !.owes = (pub[q].owes /\ q \notin Markers!Settled(p))]
  BY <1>1, CommittingDoes
<1>3. /\ pub[p].pc = "store" /\ pub[p].todo = <<>> /\ marker' = marker /\ lock' = lock /\ reader' = reader
      /\ lost' = lost \ Markers!Settled(p) /\ file' = "current"
      /\ rows' = rows \union {[by |-> p, seq |-> pub[p].seq]}
      /\ marker.capacity = pub[p].capacity
      /\ marker.publication = Markers!Highest({pub[p].seq, pub[p].inherited})
  BY <1>1 DEF Markers!Committing, OrderedAt, Learnt, Locked
<1>4. /\ pub'[p].pc = "clean" /\ pub'[p].ending = "committed" /\ pub'[p].owes = FALSE
      /\ pub'[p].seq = pub[p].seq /\ pub'[p].inherited = pub[p].inherited
      /\ pub'[p].enabled = ((pub[p].capacity = None \/ c) /\ (pub[p].inherited = None \/ k))
      /\ pub'[p].todo = (IF c THEN <<"capacity">> ELSE <<>>)
                          \o Markers!Reservation(pub[p].inherited # None /\ ~ k)
  BY <1>1, <1>2 DEF Markers!Committed, PublisherStates
<1>5. /\ c <=> pub[p].capacity # None /\ p \in FullGates /\ pub[p].seq > pub[p].capacity
      /\ k <=> pub[p].inherited # None /\ p \in FullGates /\ pub[p].seq > pub[p].inherited
      /\ c \in BOOLEAN /\ k \in BOOLEAN
  BY DEF Markers!Recovers
<1> HIDE DEF c, k
<1>6. ASSUME NEW q \in Publishers \ {p}
      PROVE  /\ pub'[q].pc = pub[q].pc /\ pub'[q].seq = pub[q].seq /\ pub'[q].todo = pub[q].todo
             /\ pub'[q].ending = pub[q].ending
             /\ pub'[q].owes => pub[q].owes /\ q \notin Markers!Settled(p)
  <2>1. pub[q] \in PublisherStates
    BY <1>1, StateOf
  <2> QED BY <1>2, <2>1, ZenonT(30) DEF PublisherStates
<1>7. Mine(p)
  BY <1>1, <1>3, <1>6 DEF Mine, OrderedAt, Locked
<1>8. Elements(pub'[p].todo) = (IF c THEN {"capacity"} ELSE {}) \union {"reserve", "active"}
                                 \union IF pub[p].inherited # None /\ ~ k THEN {} ELSE {"publication"}
  BY <1>4, <1>5, LeftAfterCommit
<1>9. /\ \A m : ~ Due(m)
      /\ Due("active")' /\ (Due("capacity")' <=> c)
      /\ Due("publication")' <=> pub[p].inherited = None \/ k
  BY <1>3, <1>5, <1>7, <1>8, DueHere, NothingLeft
<1>10. /\ pub[p].seq \in Nat /\ pub[p].inherited \in Numbers /\ pub[p].capacity \in Numbers
       /\ \A q \in Publishers : pub[q].seq \in Nat /\ pub'[q].seq = pub[q].seq
  <2>1. ASSUME NEW q \in Publishers PROVE pub[q].seq \in Nat /\ pub'[q].seq = pub[q].seq
    <3>1. pub[q] \in PublisherStates
      BY <1>1, StateOf
    <3> QED BY <1>4, <1>6, <3>1 DEF PublisherStates
  <2> QED BY <1>1, <2>1 DEF PublisherStates
<1>11. marker.publication \in Nat /\ marker.publication # None
       /\ (pub[p].inherited # None => pub[p].inherited <= marker.publication)
  BY <1>3, <1>10, HigherOf, SettingsMakeSense
<1>12. p \notin lost
  BY <1>1, <1>3 DEF OrderedAt
\* A claim that is about to be removed covered nothing but what is settled.
<1>13. ASSUME NEW q \in Publishers, Owing(q)'
       PROVE  /\ q # p /\ Owing(q)
              /\ p \in FullGates => pub[p].seq <= pub[q].seq
  <2>1. q # p
    BY <1>3, <1>4, <1>12, <1>13 DEF Owing
  <2>2. Owing(q) /\ q \notin Markers!Settled(p)
    BY <1>3, <1>6, <1>13, <2>1 DEF Owing
  <2>3. p \in FullGates => pub[p].seq <= pub[q].seq
    BY <1>10, <2>2 DEF Markers!Settled
  <2> QED BY <2>1, <2>2, <2>3
<1>14. ASSUME NEW q \in Publishers, Owing(q)', Claimed(q) PROVE Claimed(q)'
  <2>1. marker.capacity # None /\ pub[q].seq <= marker.capacity
    BY <1>14 DEF Claimed, Above
  <2>2. ~ c
    BY <1>3, <1>5, <1>10, <1>13, <1>14, <2>1 DEF Numbers
  <2> QED BY <1>3, <1>9, <1>10, <2>1, <2>2 DEF Claimed, Above
<1>15. ASSUME NEW q \in Publishers, Owing(q)'
       PROVE  Above(pub[p].inherited, pub[q].seq) \/ Claimed(q)'
  <2>1. Above(pub[p].inherited, pub[q].seq) \/ Claimed(q)
    BY <1>3, <1>13, <1>15 DEF Kept, Based, BasedAt, Locked
  <2> QED BY <1>14, <1>15, <2>1
<1>16. BasedAt(p)'
  BY <1>4, <1>10, <1>15 DEF BasedAt
<1>17. ASSUME NEW q \in Publishers, Owing(q)' PROVE Vouched(q)'
  <2>1. CASE Claimed(q)'
    BY <2>1 DEF Vouched
  <2>2. CASE Above(pub[p].inherited, pub[q].seq)
    <3>1. pub[p].inherited # None /\ ~ k
      BY <1>5, <1>10, <1>13, <1>17, <2>2 DEF Above, Numbers
    <3>2. ~ Due("publication")'
      BY <1>9, <3>1
    <3>3. Above(marker'.publication, pub'[q].seq)
      BY <1>3, <1>10, <1>11, <2>2 DEF Above, Numbers
    <3> QED BY <3>2, <3>3 DEF Vouched
  <2> QED BY <1>15, <1>17, <2>1, <2>2
<1>18. \A q \in lost' : Claimed(q) => Claimed(q)'
  <2> SUFFICES ASSUME NEW q \in lost', Claimed(q) PROVE Claimed(q)'
    OBVIOUS
  <2>1. q \in Publishers /\ Owing(q)'
    BY <1>1, <1>3 DEF Owing
  <2> QED BY <1>14, <2>1
<1>19. OrderedAt(p)'
  BY <1>4, <1>7, OrderedOn DEF Locked
<1>20. Owned'
  BY <1>3, <1>4, <1>7, <1>9, OwnedOn DEF Writing
<1>21. Cleans(p)'
  <2>1. Due("capacity")' => /\ p \in FullGates /\ (marker'.capacity # None => pub'[p].seq > marker'.capacity)
                            /\ [by |-> p, seq |-> pub'[p].seq] \in rows'
    BY <1>3, <1>4, <1>5, <1>9
  <2>2. pub'[p].enabled => /\ marker'.capacity # None => Due("capacity")'
                           /\ marker'.publication # None => Due("publication")'
    BY <1>3, <1>4, <1>5, <1>9
  <2> QED BY <2>1, <2>2 DEF Cleans
<1>22. Learnt(p)'
  BY <1>4 DEF Learnt, Locked
<1>23. Smooth => marker'.capacity = None
  BY <1>3 DEF Kept, Unclaimed
<1> QED BY <1>4, <1>7, <1>16, <1>17, <1>18, <1>19, <1>20, <1>21, <1>22, <1>23 DEF Holds, Locked

LEMMA PublishIs ==
  ASSUME Kept, NEW p \in Publishers, Markers!Publish(p), setting' = setting
  PROVE  /\ MarkersTyped' /\ Shallow' /\ reader' = reader
         /\ Aside(p) \/ Holds(p)
<1>1. /\ MarkersTyped /\ Shallow /\ Ordered /\ OrderedAt(p) /\ pub[p] \in PublisherStates
      /\ setting.start # "previous" => file # "previous"
  BY KeptAt DEF Ordered
<1>2. MarkersTyped' /\ Shallow' /\ reader' = reader
  BY <1>1, PublishTyped, PublishShallow
<1> SUFFICES Aside(p) \/ Holds(p)
  BY <1>2
<1>3. CASE Markers!Number(p)
  BY <1>3, NumberAside
<1>4. CASE Markers!FindPrevious(p)
  <2>1. /\ Markers!Go(p, "set aside") /\ pub[p].pc = "run" /\ marker' = marker /\ lost' = lost /\ lock' = lock
        /\ file' = file /\ rows' = rows /\ file = "previous"
    BY <1>4 DEF Markers!FindPrevious
  <2>2. lock # p
    BY <1>1, <2>1 DEF OrderedAt, Locked
  <2> QED BY <1>1, <1>2, <2>1, <2>2, WentAside DEF Unlocked
<1>5. CASE Markers!SetAside(p)
  <2>1. /\ Markers!Go(p, "check") /\ pub[p].pc = "set aside" /\ marker' = marker /\ lost' = lost /\ lock' = lock
    BY <1>5 DEF Markers!SetAside
  <2>2. lock # p /\ setting.start = "previous"
    BY <1>1, <2>1 DEF OrderedAt, Locked
  <2> QED BY <1>1, <1>2, <2>1, <2>2, WentAside DEF Unlocked
<1>6. CASE Markers!Check(p)
  <2>1. pub[p].pc = "check" /\ marker' = marker /\ file' = file /\ rows' = rows
    BY <1>6 DEF Markers!Check
  <2>2. CASE disabled
    <3>1. Markers!Ended(p, "refused")
      BY <1>6, <2>2 DEF Markers!Check
    <3> QED BY <1>2, <2>1, <3>1, EndedAside DEF Writing
  <2>3. CASE ~ disabled
    <3>1. Markers!Go(p, "queue") /\ lock' = lock /\ lost' = lost
      BY <1>6, <2>3 DEF Markers!Check
    <3>2. lock # p /\ (setting.start # "previous" => pub[p].ending # "previous")
      BY <1>1, <2>1 DEF OrderedAt, Locked
    <3> QED BY <1>1, <1>2, <2>1, <3>1, <3>2, WentAside DEF Unlocked
  <2> QED BY <2>2, <2>3
<1>7. CASE Markers!Lock(p)
  <2>1. /\ Markers!Go(p, "enter") /\ pub[p].pc = "queue" /\ marker' = marker /\ lost' = lost
        /\ lock = None /\ lock' = p /\ file' = file /\ rows' = rows
    BY <1>7 DEF Markers!Lock
  <2>2. setting.start # "previous" => pub[p].ending # "previous"
    BY <1>1 DEF OrderedAt
  <2>3. \A q \in Publishers \ {p} : lock' = q <=> lock = q
    BY <2>1, SettingsMakeSense
  <2> QED BY <1>1, <1>2, <2>1, <2>2, <2>3, WentAside DEF Unlocked
<1>8. CASE Markers!LockTimesOut(p)
  <2>1. /\ Markers!Ended(p, "unavailable") /\ pub[p].pc = "queue" /\ marker' = marker
        /\ file' = file /\ rows' = rows
    BY <1>8 DEF Markers!LockTimesOut
  <2> QED BY <1>2, <2>1, EndedAside DEF Writing
<1>9. CASE Markers!Enter(p)
  <2>1. CASE disabled
    <3>1. /\ Markers!Ended(p, "refused") /\ pub[p].pc = "enter" /\ marker' = marker
          /\ file' = file /\ rows' = rows
      BY <1>9, <2>1 DEF Markers!Enter
    <3> QED BY <1>2, <3>1, EndedAside DEF Writing
  <2>2. CASE ~ disabled
    BY <1>9, <2>2, EnterHolds
  <2> QED BY <2>1, <2>2
<1>10. CASE Markers!DropActive(p) \/ Markers!WriteActive(p) \/ Markers!WritePublication(p) \/ Markers!WriteReserve(p)
  BY <1>10, DropActiveHolds, WriteActiveHolds, WritePublicationHolds, WriteReserveHolds
<1>11. CASE Markers!WriteFails(p)
  <2>1. CASE pub[p].pc \in {"drop active", "announce"}
    <3>1. Markers!Ended(p, "unavailable") /\ marker' = marker /\ file' = file /\ rows' = rows
      BY <1>11, <2>1 DEF Markers!WriteFails
    <3> QED BY <1>2, <2>1, <3>1, EndedAside DEF Writing
  <2>2. CASE pub[p].pc \in {"publish", "reserve"}
    BY <1>11, <2>2, WriteFailsHolds
  <2> QED BY <1>11, <2>1, <2>2 DEF Markers!WriteFails
<1>12. CASE Markers!Committing(p) \/ Markers!Contended(p) \/ Markers!Unusable(p) \/ Markers!Exhausted(p)
  BY <1>12, CommittingHolds, ContendedHolds, UnusableHolds, ExhaustedHolds
<1>13. CASE Markers!Claim(p) \/ Markers!ClaimFails(p) \/ Markers!Remove(p) \/ Markers!RemoveFails(p)
  BY <1>13, ClaimHolds, ClaimFailsHolds, RemoveHolds, RemoveFailsHolds
<1>14. CASE Markers!Finish(p)
  BY <1>14, FinishAside
<1>15. CASE Markers!Persist(p)
  <2>1. /\ Markers!Ended(p, "corrupt") /\ pub[p].pc = "persist" /\ marker' = marker
        /\ file' = file /\ rows' = rows
    BY <1>15 DEF Markers!Persist
  <2> QED BY <1>2, <2>1, EndedAside DEF Writing
<1>16. CASE Markers!Exit(p) \/ Markers!Crash(p)
  BY <1>16, GoneAside DEF Markers!Exit, Markers!Crash
<1> QED
  BY <1>3, <1>4, <1>5, <1>6, <1>7, <1>8, <1>9, <1>10, <1>11, <1>12, <1>13, <1>14, <1>15, <1>16
  DEF Markers!Publish

LEMMA PublishKeeps ==
  ASSUME Kept, NEW p \in Publishers, Markers!Publish(p), setting' = setting
  PROVE  Kept' /\ KeepsReaders /\ MarkersTyped'
  BY PublishIs, AsideKeeps, HolderKeeps

-----------------------------------------------------------------------------
(* The readers, and all of the steps.                                       *)

Unread == UNCHANGED <<setting, disabled, marker, file, rows, lock, pub, lost>>

LEMMA ReaderReplaced ==
  ASSUME MarkersTyped, NEW r \in Readers, NEW rec \in ReaderStates, reader' = [reader EXCEPT ![r] = rec]
  PROVE  /\ reader' \in [Readers -> ReaderStates] /\ reader'[r] = rec
         /\ \A o \in Readers \ {r} : reader'[o] = reader[o]
  BY DEF MarkersTyped

\* Nothing but one reader's state changes.
LEMMA ReadKeeps ==
  ASSUME MarkersInv, Unread, NEW r \in Readers, NEW rec \in ReaderStates, reader' = [reader EXCEPT ![r] = rec],
         rec.pc = "set aside" => file = "previous",
         (ReadsAt(r) /\ HeedsAt(r))'
  PROVE  MarkersInv'
<1>1. /\ reader' \in [Readers -> ReaderStates] /\ reader'[r] = rec
      /\ \A o \in Readers \ {r} : reader'[o] = reader[o]
  BY ReaderReplaced DEF MarkersInv, Kept, Marked
<1>2. MarkersTyped' /\ Shallow'
  BY <1>1 DEF MarkersInv, Kept, Marked, MarkersTyped, Unread, Shallow
<1>3. Ordered'
  <2>1. \A p \in Publishers : OrderedAt(p)'
    BY DEF MarkersInv, Kept, Marked, Ordered, OrderedAt, Unread
  <2> QED BY <1>1, <2>1 DEF MarkersInv, Kept, Marked, Ordered, Unread
<1>4. \A m : Due(m)' <=> Due(m)
  BY DEF Due, Unread
<1>5. \A p \in Publishers : Learnt(p)' /\ Cleans(p)'
  BY <1>4 DEF MarkersInv, Kept, Marked, Learnt, Cleans, Unread
<1>6. \A q \in Publishers : (Owing(q)' <=> Owing(q)) /\ (Claimed(q)' <=> Claimed(q)) /\ (Vouched(q)' <=> Vouched(q))
  BY <1>4 DEF Owing, Claimed, Vouched, Above, Unread
<1>7. LossesVouched' /\ Based'
  BY <1>6 DEF MarkersInv, Kept, LossesVouched, Based, BasedAt, Unread
<1>8. Unclaimed' /\ Owned'
  BY <1>4 DEF MarkersInv, Kept, Unclaimed, Owned, Markers!Alive, Smooth, Unread
<1>9. ASSUME NEW o \in Readers PROVE ReadsAt(o)' /\ HeedsAt(o)'
  <2>1. CASE o # r
    <3>1. ReadsAt(o) /\ HeedsAt(o) /\ reader'[o] = reader[o] /\ lost \subseteq Publishers
      BY <1>1, <2>1 DEF MarkersInv, Kept, Marked, Heard, MarkersTyped
    <3>2. ReadsAt(o)'
      BY <1>6, <3>1 DEF ReadsAt, Unread
    <3>3. HeedsAt(o)'
      BY <3>1 DEF HeedsAt, Smooth, Unread
    <3> QED BY <3>2, <3>3
  <2> QED BY <2>1
<1> QED BY <1>2, <1>3, <1>5, <1>7, <1>8, <1>9 DEF MarkersInv, Kept, Marked, Heard

\* A reader that finds a publication with a live owner has missed nothing: what
\* was lost before it began would have kept the owner from declaring itself.
LEMMA ActiveIsHealthy ==
  ASSUME Kept, Smooth, NEW n, Markers!ActiveFor(n)
  PROVE  lost = {}
<1>1. MarkersTyped /\ Ordered
  BY DEF Kept, Marked
<1>2. lock \in Publishers /\ pub[lock].pc \in Writing /\ pub[lock].inherited = None
  BY <1>1 DEF Kept, Owned, Markers!ActiveFor, MarkersTyped, MarkerStates
<1>3. BasedAt(lock)
  BY <1>2 DEF Kept, Based, Writing, Locked
<1>4. \A q \in Publishers : ~ Claimed(q)
  BY DEF Kept, Unclaimed, Claimed, Above
<1>5. lock \notin lost
  BY <1>1, <1>2 DEF Ordered, OrderedAt, Writing
<1>6. lost \subseteq Publishers
  BY <1>1 DEF MarkersTyped
<1> QED BY <1>2, <1>3, <1>4, <1>5, <1>6 DEF BasedAt, Owing, Above

KeepsMemory(r, rec) ==
  rec.owed = reader[r].owed /\ rec.seen = reader[r].seen /\ rec.publication = reader[r].publication

\* A step that gives a warning, or none yet, promises nothing.
LEMMA ReadsOn ==
  ASSUME MarkersInv, Unread, NEW r \in Readers, NEW rec \in ReaderStates, reader' = [reader EXCEPT ![r] = rec],
         KeepsMemory(r, rec),
         \/ rec.pc = "open" /\ rec.mark # None
         \/ rec.pc = "publication again" /\ reader[r].pc = "capacity last"
         \/ rec.pc = "set aside" /\ file = "previous"
         \/ rec.pc \in {"capacity", "done"}
  PROVE  MarkersInv'
<1>1. ReadsAt(r) /\ reader'[r] = rec
  BY ReaderReplaced DEF MarkersInv, Kept, Marked, Heard
<1>2. ReadsAt(r)'
  BY <1>1 DEF ReadsAt, KeepsMemory, Unread
<1>3. HeedsAt(r)'
  BY <1>1 DEF HeedsAt, Unread
<1> QED BY <1>2, <1>3, ReadKeeps

LEMMA ReadStep ==
  ASSUME MarkersInv, NEW r \in Readers, Markers!Read(r), setting' = setting, ~ Markers!ReaderSetsAside(r)
  PROVE  MarkersInv'
<1>1. /\ reader[r] \in ReaderStates /\ ReadsAt(r) /\ HeedsAt(r) /\ lost \subseteq Publishers
      /\ marker.capacity \in Numbers /\ marker.publication \in Numbers /\ LossesVouched
      /\ \A q \in lost : pub[q].pc \in {"done", "gone"}
  BY DEF MarkersInv, Kept, Marked, Heard, MarkersTyped, MarkerStates, Ordered, OrderedAt
<1>2. None \notin Warnings
  BY SettingsMakeSense
<1> SUFFICES ASSUME Unread PROVE MarkersInv'
  BY DEF Markers!Read, Markers!Begin, Markers!ReadCapacity, Markers!ReadPublication, Markers!RereadCapacity,
         Markers!ReadActive, Markers!ReadCapacityLast, Markers!RereadPublication, Markers!Open,
         Markers!Reading, Unread
<1>3. \A q \in Publishers : Claimed(q)' <=> Claimed(q)
  BY DEF Claimed, Above, Due, Unread
<1>4. CASE Markers!Begin(r)
  <2> DEFINE rec == [reader[r] EXCEPT !.pc = IF disabled THEN "open" ELSE "capacity",
                                      !.mark = IF disabled THEN "corrupt" ELSE None, !.owed = lost]
  <2>1. rec \in ReaderStates
    BY <1>1 DEF ReaderStates, Warnings
  <2>2. reader' = [reader EXCEPT ![r] = rec]
    BY <1>4 DEF Markers!Begin
  <2>3. reader'[r] = rec
    BY <2>1, <2>2, ReaderReplaced DEF MarkersInv, Kept, Marked
  <2>4. /\ rec.pc \in {"open", "capacity"} /\ (rec.pc = "open" => rec.mark = "corrupt") /\ rec.owed = lost
        /\ rec.seen = reader[r].seen
    BY <1>1 DEF ReaderStates
  <2> HIDE DEF rec
  <2>5. ReadsAt(r)' /\ HeedsAt(r)'
    BY <1>1, <1>2, <2>3, <2>4 DEF ReadsAt, HeedsAt, Unread, Warnings
  <2> QED BY <2>1, <2>2, <2>4, <2>5, ReadKeeps
<1>5. CASE Markers!ReadCapacity(r)
  <2> DEFINE rec == [reader[r] EXCEPT !.pc = "publication", !.capacity = marker.capacity]
  <2>1. rec \in ReaderStates
    BY <1>1 DEF ReaderStates
  <2>2. reader' = [reader EXCEPT ![r] = rec]
    BY <1>5 DEF Markers!ReadCapacity
  <2>3. reader'[r] = rec
    BY <2>1, <2>2, ReaderReplaced DEF MarkersInv, Kept, Marked
  <2>4. rec.pc = "publication" /\ rec.owed = reader[r].owed /\ rec.seen = reader[r].seen
    BY <1>1 DEF ReaderStates
  <2> HIDE DEF rec
  <2>5. ReadsAt(r)' /\ HeedsAt(r)'
    BY <1>1, <2>3, <2>4 DEF ReadsAt, HeedsAt, Unread
  <2> QED BY <2>1, <2>2, <2>4, <2>5, ReadKeeps
<1>6. CASE Markers!ReadPublication(r)
  <2>1. PICK to \in {"open", "capacity again", "active"} :
          to = CASE reader[r].capacity # None -> "open"
                 [] reader[r].capacity = None /\ marker.publication = None -> "capacity again"
                 [] OTHER -> "active"
    OBVIOUS
  <2>2. PICK mark \in Warnings \union {None} :
          mark = IF reader[r].capacity # None THEN "exceeded" ELSE reader[r].mark
    BY <1>1 DEF ReaderStates, Warnings
  <2> DEFINE rec == [reader[r] EXCEPT !.pc = to, !.mark = mark, !.publication = marker.publication, !.seen = lost]
  <2>3. rec \in ReaderStates
    BY <1>1 DEF ReaderStates
  <2>4. reader' = [reader EXCEPT ![r] = rec]
    BY <1>6, <2>1, <2>2 DEF Markers!ReadPublication
  <2>5. reader'[r] = rec
    BY <2>3, <2>4, ReaderReplaced DEF MarkersInv, Kept, Marked
  <2>6. /\ rec.pc = to /\ rec.mark = mark /\ rec.owed = reader[r].owed /\ rec.seen = lost
        /\ rec.publication = marker.publication
    BY <1>1 DEF ReaderStates
  <2>7. /\ to = "capacity again" => marker.publication = None
        /\ to = "active" => marker.publication # None
        /\ to = "open" => mark = "exceeded"
    BY <2>1, <2>2
  <2> HIDE DEF rec
  <2>8. marker.publication = None => \A q \in lost : Claimed(q)
    BY <1>1 DEF LossesVouched, Vouched, Owing, Above
  <2>9. ReadsAt(r)' /\ HeedsAt(r)'
    BY <1>1, <1>2, <1>3, <2>5, <2>6, <2>7, <2>8 DEF ReadsAt, HeedsAt, Unread, Warnings
  <2> QED BY <2>3, <2>4, <2>6, <2>9, ReadKeeps
<1>7. CASE Markers!RereadCapacity(r)
  <2>1. PICK mark \in Warnings \union {None} : mark = IF marker.capacity # None THEN "exceeded" ELSE None
    BY DEF Warnings
  <2> DEFINE rec == [reader[r] EXCEPT !.pc = "open", !.mark = mark]
  <2>2. rec \in ReaderStates
    BY <1>1 DEF ReaderStates
  <2>3. reader' = [reader EXCEPT ![r] = rec] /\ reader[r].pc = "capacity again"
    BY <1>7, <2>1 DEF Markers!RereadCapacity, Markers!Mark, Markers!CapacityAgain
  <2>4. reader'[r] = rec
    BY <2>2, <2>3, ReaderReplaced DEF MarkersInv, Kept, Marked
  <2>5. rec.pc = "open" /\ rec.mark = mark /\ rec.owed = reader[r].owed /\ rec.seen = reader[r].seen
    BY <1>1 DEF ReaderStates
  <2> HIDE DEF rec
  <2>6. mark = None => reader[r].seen \intersect lost = {}
    BY <1>1, <1>2, <2>1, <2>3 DEF ReadsAt, Claimed, Above, Warnings
  <2>7. ReadsAt(r)'
    BY <1>1, <2>4, <2>5, <2>6 DEF ReadsAt, Unread
  <2>8. Smooth => reader[r].owed \intersect lost \subseteq reader[r].seen
    BY <1>1, <2>3 DEF HeedsAt
  <2>9. HeedsAt(r)'
    BY <2>4, <2>5, <2>6, <2>8 DEF HeedsAt, Smooth, Unread
  <2> QED BY <2>2, <2>3, <2>5, <2>7, <2>9, ReadKeeps
<1>8. CASE Markers!ReadActive(r)
  <2>1. PICK to \in {"open", "capacity last"} :
          to = IF Markers!ActiveFor(reader[r].publication) THEN "open" ELSE "capacity last"
    OBVIOUS
  <2>2. PICK mark \in Warnings \union {None} :
          mark = IF Markers!ActiveFor(reader[r].publication) THEN None ELSE reader[r].mark
    BY <1>1 DEF ReaderStates
  <2> DEFINE rec == [reader[r] EXCEPT !.pc = to, !.mark = mark]
  <2>3. rec \in ReaderStates
    BY <1>1 DEF ReaderStates
  <2>4. reader' = [reader EXCEPT ![r] = rec] /\ reader[r].pc = "active"
    <3>1. CASE Markers!ActiveFor(reader[r].publication)
      BY <1>8, <2>1, <2>2, <3>1 DEF Markers!ReadActive, Markers!Mark
    <3>2. CASE ~ Markers!ActiveFor(reader[r].publication)
      <4>1. reader' = [reader EXCEPT ![r].pc = "capacity last"] /\ mark = reader[r].mark /\ to = "capacity last"
        BY <1>8, <2>1, <2>2, <3>2 DEF Markers!ReadActive, Markers!See
      <4>2. [reader[r] EXCEPT !.pc = "capacity last"] = rec
        BY <1>1, <4>1 DEF ReaderStates
      <4> QED BY <1>8, <4>1, <4>2 DEF Markers!ReadActive
    <3> QED BY <3>1, <3>2
  <2>5. reader'[r] = rec
    BY <2>3, <2>4, ReaderReplaced DEF MarkersInv, Kept, Marked
  <2>6. /\ rec.pc = to /\ rec.mark = mark /\ rec.owed = reader[r].owed /\ rec.seen = reader[r].seen
        /\ rec.publication = reader[r].publication
    BY <1>1 DEF ReaderStates
  <2> HIDE DEF rec
  <2>7. reader[r].publication # None
    BY <1>1, <2>4 DEF ReadsAt
  <2>8. Smooth /\ to = "open" => lost = {}
    BY <2>1, ActiveIsHealthy DEF MarkersInv
  <2>9. ReadsAt(r)'
    BY <1>1, <2>5, <2>6, <2>7 DEF ReadsAt, Unread
  <2>10. HeedsAt(r)'
    BY <2>5, <2>6, <2>8 DEF HeedsAt, Unread, Smooth
  <2> QED BY <2>3, <2>4, <2>6, <2>9, <2>10, ReadKeeps
<1>9. CASE Markers!ReadCapacityLast(r)
  <2>1. CASE marker.capacity # None
    <3> DEFINE rec == [reader[r] EXCEPT !.pc = "open", !.mark = "exceeded"]
    <3>1. rec \in ReaderStates
      BY <1>1 DEF ReaderStates, Warnings
    <3>2. reader' = [reader EXCEPT ![r] = rec]
      BY <1>9, <2>1 DEF Markers!ReadCapacityLast, Markers!Mark
    <3>3. rec.pc = "open" /\ rec.mark = "exceeded" /\ KeepsMemory(r, rec)
      BY <1>1, <3>2 DEF ReaderStates, KeepsMemory
    <3> HIDE DEF rec
    <3> QED BY <1>2, <2>1, <3>1, <3>2, <3>3, ReadsOn DEF Warnings
  <2>2. CASE marker.capacity = None
    <3> DEFINE rec == [reader[r] EXCEPT !.pc = "publication again"]
    <3>1. rec \in ReaderStates
      BY <1>1 DEF ReaderStates, Warnings
    <3>2. reader' = [reader EXCEPT ![r] = rec] /\ reader[r].pc = "capacity last"
      BY <1>9, <2>2 DEF Markers!ReadCapacityLast, Markers!See
    <3>3. rec.pc = "publication again" /\ reader[r].pc = "capacity last" /\ KeepsMemory(r, rec)
      BY <1>1, <3>2 DEF ReaderStates, KeepsMemory
    <3> HIDE DEF rec
    <3> QED BY <1>2, <2>2, <3>1, <3>2, <3>3, ReadsOn DEF Warnings
  <2> QED BY <2>1, <2>2
<1>10. CASE Markers!RereadPublication(r)
  <2>1. CASE marker.publication = None /\ reader[r].try = 1
    <3> DEFINE rec == [reader[r] EXCEPT !.pc = "capacity", !.try = 2]
    <3>1. rec \in ReaderStates
      BY <1>1 DEF ReaderStates, Warnings
    <3>2. reader' = [reader EXCEPT ![r] = rec]
      BY <1>10, <2>1 DEF Markers!RereadPublication
    <3>3. rec.pc = "capacity" /\ KeepsMemory(r, rec)
      BY <1>1, <3>2 DEF ReaderStates, KeepsMemory
    <3> HIDE DEF rec
    <3> QED BY <1>2, <2>1, <3>1, <3>2, <3>3, ReadsOn DEF Warnings
  <2>2. CASE ~ (marker.publication = None /\ reader[r].try = 1)
    <3> DEFINE rec == [reader[r] EXCEPT !.pc = "open", !.mark = "uncertain"]
    <3>1. rec \in ReaderStates
      BY <1>1 DEF ReaderStates, Warnings
    <3>2. reader' = [reader EXCEPT ![r] = rec]
      BY <1>10, <2>2 DEF Markers!RereadPublication, Markers!Mark
    <3>3. rec.pc = "open" /\ rec.mark = "uncertain" /\ KeepsMemory(r, rec)
      BY <1>1, <3>2 DEF ReaderStates, KeepsMemory
    <3> HIDE DEF rec
    <3> QED BY <1>2, <2>2, <3>1, <3>2, <3>3, ReadsOn DEF Warnings
  <2> QED BY <2>1, <2>2
<1>11. CASE Markers!Open(r)
  <2>1. CASE file = "previous"
    <3> DEFINE rec == [reader[r] EXCEPT !.pc = "set aside"]
    <3>1. rec \in ReaderStates
      BY <1>1 DEF ReaderStates, Warnings
    <3>2. reader' = [reader EXCEPT ![r] = rec]
      BY <1>11, <2>1 DEF Markers!Open, Markers!See
    <3>3. rec.pc = "set aside" /\ KeepsMemory(r, rec)
      BY <1>1, <3>2 DEF ReaderStates, KeepsMemory
    <3> HIDE DEF rec
    <3> QED BY <1>2, <2>1, <3>1, <3>2, <3>3, ReadsOn DEF Warnings
  <2>2. CASE file # "previous"
    <3>0. PICK view \in Warnings \union {"enabled"} :
            view = IF reader[r].mark = None THEN "enabled" ELSE reader[r].mark
      BY <1>1 DEF ReaderStates
    <3> DEFINE rec == [reader[r] EXCEPT !.pc = "done", !.view = view]
    <3>1. rec \in ReaderStates
      BY <1>1 DEF ReaderStates, Warnings
    <3>2. reader' = [reader EXCEPT ![r] = rec]
      BY <1>11, <2>2, <3>0 DEF Markers!Open, Markers!Answer
    <3>3. rec.pc = "done" /\ KeepsMemory(r, rec)
      BY <1>1, <3>2 DEF ReaderStates, KeepsMemory
    <3> HIDE DEF rec
    <3> QED BY <1>2, <2>2, <3>1, <3>2, <3>3, ReadsOn DEF Warnings
  <2> QED BY <2>1, <2>2
<1> QED BY <1>4, <1>5, <1>6, <1>7, <1>8, <1>9, <1>10, <1>11 DEF Markers!Read

\* The store that is set aside held the runs of the project before.
LEMMA SetAsideStep ==
  ASSUME MarkersInv, NEW r \in Readers, Markers!ReaderSetsAside(r), setting' = setting
  PROVE  MarkersInv'
<1>1. /\ MarkersTyped /\ Ordered /\ reader[r] \in ReaderStates /\ reader[r].pc = "set aside"
      /\ ReadsAt(r) /\ setting.start = "previous"
  BY DEF MarkersInv, Kept, Marked, Heard, MarkersTyped, Ordered, Markers!ReaderSetsAside
<1> DEFINE rec == [reader[r] EXCEPT !.pc = "done", !.view = "no history"]
<1>2. rec \in ReaderStates
  BY <1>1 DEF ReaderStates
<1>3. /\ reader' = [reader EXCEPT ![r] = rec] /\ file' = "absent" /\ rows' = {}
      /\ UNCHANGED <<disabled, marker, lock, pub, lost>>
  BY DEF Markers!ReaderSetsAside, Markers!Moved, Markers!Answer
<1>4. /\ reader' \in [Readers -> ReaderStates] /\ reader'[r] = rec
      /\ \A i \in Readers \ {r} : reader'[i] = reader[i]
  BY <1>1, <1>2, <1>3, ReaderReplaced
<1>5. rec.pc = "done" /\ rec.owed = reader[r].owed /\ rec.seen = reader[r].seen
  BY <1>1 DEF ReaderStates
<1> HIDE DEF rec
<1>6. MarkersTyped' /\ Shallow'
  BY <1>1, <1>3, <1>4 DEF MarkersTyped, Shallow
<1>7. Ordered'
  <2>1. ASSUME NEW p \in Publishers PROVE OrderedAt(p)'
    BY <1>1, <1>3 DEF Ordered, OrderedAt
  <2> QED BY <1>1, <2>1 DEF Ordered
<1>8. \A m : Due(m)' <=> Due(m)
  BY <1>3 DEF Due
<1>9. \A p \in Publishers : Learnt(p)' /\ Cleans(p)'
  BY <1>1, <1>3, <1>8 DEF MarkersInv, Kept, Marked, Learnt, Cleans
<1>10. \A q \in Publishers : (Owing(q)' <=> Owing(q)) /\ (Claimed(q)' <=> Claimed(q)) /\ (Vouched(q)' <=> Vouched(q))
  BY <1>3, <1>8 DEF Owing, Claimed, Vouched, Above
<1>11. LossesVouched' /\ Based'
  BY <1>3, <1>10 DEF MarkersInv, Kept, LossesVouched, Based, BasedAt
<1>12. Unclaimed' /\ Owned'
  BY <1>3, <1>8 DEF MarkersInv, Kept, Unclaimed, Owned, Markers!Alive, Smooth
<1>13. ASSUME NEW i \in Readers PROVE ReadsAt(i)' /\ HeedsAt(i)'
  <2>1. CASE i = r
    BY <1>1, <1>3, <1>4, <1>5, <2>1 DEF ReadsAt, HeedsAt
  <2>2. CASE i # r
    <3>1. ReadsAt(i) /\ HeedsAt(i) /\ reader'[i] = reader[i] /\ lost \subseteq Publishers
      BY <1>1, <1>4, <2>2 DEF MarkersInv, Heard, MarkersTyped
    <3>2. ReadsAt(i)'
      BY <1>3, <1>10, <3>1 DEF ReadsAt
    <3>3. HeedsAt(i)'
      BY <1>3, <3>1 DEF HeedsAt, Smooth
    <3> QED BY <3>2, <3>3
  <2> QED BY <2>1, <2>2
<1> QED BY <1>6, <1>7, <1>9, <1>11, <1>12, <1>13 DEF MarkersInv, Kept, Marked, Heard

LEMMA MarkersStep ==
  ASSUME MarkersInv, Markers!Next
  PROVE  MarkersInv'
<1>1. setting' = setting
  BY DEF Markers!Next
<1>2. CASE \E p \in Publishers : Markers!Publish(p)
  <2>1. PICK p \in Publishers : Markers!Publish(p)
    BY <1>2
  <2>2. Kept' /\ KeepsReaders /\ MarkersTyped'
    BY <1>1, <2>1, PublishKeeps DEF MarkersInv
  <2>3. Heard'
    BY <2>2, StillHeard DEF MarkersInv, Kept, Marked
  <2> QED BY <2>2, <2>3 DEF MarkersInv
<1>3. CASE \E r \in Readers : Markers!Read(r)
  <2>1. PICK r \in Readers : Markers!Read(r)
    BY <1>3
  <2> QED BY <1>1, <2>1, ReadStep, SetAsideStep
<1> QED BY <1>2, <1>3 DEF Markers!Next

LEMMA MarkersStart == Markers!Init => MarkersInv
<1> SUFFICES ASSUME Markers!Init PROVE MarkersInv
  OBVIOUS
<1>1. /\ setting \in Settings /\ disabled = FALSE /\ file = setting.start /\ rows = {} /\ lock = None
      /\ marker = [publication |-> None, capacity |-> None, reserve |-> None, active |-> None]
      /\ pub = [p \in Publishers |-> IF p \in setting.publishers THEN Markers!Blank
                                     ELSE [Markers!Blank EXCEPT !.pc = "gone"]]
      /\ reader = [r \in Readers |-> Markers!Fresh] /\ lost = {}
  BY DEF Markers!Init
<1>2. Markers!Blank \in PublisherStates /\ [Markers!Blank EXCEPT !.pc = "gone"] \in PublisherStates
  BY NothingLeft DEF Markers!Blank, PublisherStates, Locked, Unlocked, Numbers
<1>3. Markers!Fresh \in ReaderStates
  BY DEF Markers!Fresh, ReaderStates, Numbers
<1>4. MarkersTyped /\ Shallow
  <2>1. pub \in [Publishers -> PublisherStates] /\ reader \in [Readers -> ReaderStates]
    BY <1>1, <1>2, <1>3
  <2>2. marker \in MarkerStates
    BY <1>1 DEF MarkerStates, Numbers
  <2>3. Shallow
    BY <1>1 DEF Shallow
  <2> QED BY <1>1, <2>1, <2>2, <2>3, SettingsMakeSense DEF MarkersTyped
<1>5. ASSUME NEW p \in Publishers
      PROVE  /\ pub[p].pc \in {"run", "gone"} /\ pub[p].owes = FALSE /\ pub[p].todo = <<>>
             /\ pub[p].ending = "none" /\ lock # p
  BY <1>1, SettingsMakeSense DEF Markers!Blank
<1>6. ASSUME NEW r \in Readers
      PROVE  reader[r].pc = "start" /\ reader[r].owed = {} /\ reader[r].seen = {}
  BY <1>1 DEF Markers!Fresh
<1>7. Ordered
  BY <1>1, <1>5, <1>6 DEF Ordered, OrderedAt, Locked
<1>8. \A p \in Publishers : Learnt(p) /\ Cleans(p)
  BY <1>5 DEF Learnt, Cleans, Locked
<1>9. LossesVouched /\ Based
  BY <1>1, <1>5 DEF LossesVouched, Owing, Based, Locked
<1>10. Unclaimed /\ Owned
  BY <1>1, <1>5 DEF Unclaimed, Owned
<1>11. Heard
  BY <1>1, <1>6 DEF Heard, ReadsAt, HeedsAt
<1> QED BY <1>4, <1>7, <1>8, <1>9, <1>10, <1>11 DEF MarkersInv, Kept, Marked
-----------------------------------------------------------------------------
(* What the steps promise.                                                  *)

\* A reader lets a run be narrowed when it found no warning.
LEMMA NarrowsIs ==
  ASSUME MarkersInv, Markers!Next, NEW r \in Readers, Markers!Narrows(r)
  PROVE  reader[r].pc = "open" /\ reader[r].mark = None
<1>1. MarkersTyped /\ reader[r] \in ReaderStates /\ reader'[r] # reader[r]
      /\ reader'[r].view = "enabled" /\ reader[r].view = "none"
  BY DEF MarkersInv, Kept, Marked, MarkersTyped, Markers!Narrows
<1>2. PICK i \in Readers : Markers!Read(i)
  <2>1. ASSUME NEW p \in Publishers, Markers!Publish(p) PROVE FALSE
    <3>1. reader' = reader
      BY <2>1, PublishIs DEF Markers!Next, MarkersInv
    <3> QED BY <1>1, <3>1
  <2> QED BY <2>1 DEF Markers!Next
<1>3. reader' = [reader EXCEPT ![i] = reader'[i]]
  BY <1>1, <1>2
  DEF MarkersTyped, Markers!Read, Markers!Begin, Markers!ReadCapacity, Markers!ReadPublication,
      Markers!RereadCapacity, Markers!ReadActive, Markers!ReadCapacityLast, Markers!RereadPublication,
      Markers!Open, Markers!ReaderSetsAside, Markers!Mark, Markers!See, Markers!Answer
<1>4. i = r
  BY <1>1, <1>3 DEF MarkersTyped
<1>5. Markers!Read(r) /\ reader[r] \in ReaderStates
  BY <1>1, <1>2, <1>4
<1>6. ASSUME NEW rec, reader' = [reader EXCEPT ![r] = rec] PROVE rec.view = "enabled"
  BY <1>1, <1>6 DEF MarkersTyped
<1>7. ~ (Markers!Begin(r) \/ Markers!ReadCapacity(r) \/ Markers!ReadPublication(r))
  <2>1. ~ Markers!Begin(r)
    <3> SUFFICES ASSUME Markers!Begin(r) PROVE FALSE
      OBVIOUS
    <3>1. PICK to, mark : to = (IF disabled THEN "open" ELSE "capacity") /\ mark = (IF disabled THEN "corrupt" ELSE None)
      OBVIOUS
    <3>2. reader' = [reader EXCEPT ![r] = [reader[r] EXCEPT !.pc = to, !.mark = mark, !.owed = lost]]
      BY <3>1 DEF Markers!Begin
    <3>3. [reader[r] EXCEPT !.pc = to, !.mark = mark, !.owed = lost].view = "none"
      BY <1>1, <1>5 DEF ReaderStates
    <3> QED BY <1>6, <3>2, <3>3
  <2>2. ~ Markers!ReadCapacity(r)
    BY <1>1, <1>5, <1>6, ZenonT(30) DEF Markers!ReadCapacity, ReaderStates
  <2>3. ~ Markers!ReadPublication(r)
    <3> SUFFICES ASSUME Markers!ReadPublication(r) PROVE FALSE
      OBVIOUS
    <3>0. PICK to, mark :
            /\ to = CASE reader[r].capacity # None -> "open"
                      [] reader[r].capacity = None /\ marker.publication = None -> "capacity again"
                      [] OTHER -> "active"
            /\ mark = IF reader[r].capacity # None THEN "exceeded" ELSE reader[r].mark
      OBVIOUS
    <3>1. reader' = [reader EXCEPT ![r] =
            [reader[r] EXCEPT !.pc = to, !.mark = mark, !.publication = marker.publication, !.seen = lost]]
      BY <3>0 DEF Markers!ReadPublication
    <3>2. [reader[r] EXCEPT !.pc = to, !.mark = mark, !.publication = marker.publication, !.seen = lost].view = "none"
      BY <1>1, <1>5 DEF ReaderStates
    <3> QED BY <1>6, <3>1, <3>2
  <2> QED BY <2>1, <2>2, <2>3
<1>8. \A to, mark : ~ (Markers!See(r, to) \/ Markers!Mark(r, mark))
  BY <1>1, <1>5, <1>6, ZenonT(30) DEF Markers!See, Markers!Mark, ReaderStates
<1>9. \A view : Markers!Answer(r, view) => view = "enabled"
  BY <1>1, <1>5, <1>6, ZenonT(30) DEF Markers!Answer, ReaderStates
<1>10. ~ (Markers!RereadCapacity(r) \/ Markers!ReadActive(r) \/ Markers!ReadCapacityLast(r))
  BY <1>8 DEF Markers!RereadCapacity, Markers!ReadActive, Markers!ReadCapacityLast
<1>11. ~ (Markers!RereadPublication(r) \/ Markers!ReaderSetsAside(r))
  <2>1. ~ Markers!ReaderSetsAside(r)
    BY <1>9 DEF Markers!ReaderSetsAside
  <2>2. ~ Markers!RereadPublication(r)
    BY <1>1, <1>5, <1>6, <1>8, ZenonT(30) DEF Markers!RereadPublication, ReaderStates
  <2> QED BY <2>1, <2>2
<1>12. Markers!Open(r)
  BY <1>5, <1>7, <1>10, <1>11 DEF Markers!Read
<1>13. reader[r].pc = "open" /\ Markers!Answer(r, IF reader[r].mark = None THEN "enabled" ELSE reader[r].mark)
  BY <1>8, <1>12 DEF Markers!Open
<1>14. reader[r].mark \in Warnings \union {None} /\ "enabled" \notin Warnings
  BY <1>1 DEF ReaderStates, Warnings
<1> QED BY <1>9, <1>13, <1>14

LEMMA StepHeeds ==
  ASSUME MarkersInv, Markers!Next
  PROVE  Markers!LossHeeded /\ Markers!GoneIsClean
<1>1. ASSUME NEW r \in Readers, Markers!Narrows(r)
      PROVE  reader[r].pc = "open" /\ reader[r].mark = None /\ ReadsAt(r) /\ HeedsAt(r)
  BY <1>1, NarrowsIs DEF MarkersInv, Heard
<1>2. Markers!LossHeeded
  BY <1>1 DEF Markers!LossHeeded, HeedsAt, Smooth
<1>3. Markers!GoneIsClean
  BY <1>1 DEF Markers!GoneIsClean, ReadsAt
<1> QED BY <1>2, <1>3

LEMMA StepCapacity ==
  ASSUME MarkersInv, Markers!Next
  PROVE  Markers!CapacityStays
<1> SUFFICES ASSUME setting.start # "previous", marker.capacity # None
             PROVE  \/ marker'.capacity # None /\ marker'.capacity >= marker.capacity
                    \/ \E row \in rows : row.by \in FullGates /\ row.seq > marker.capacity
  BY DEF Markers!CapacityStays
<1>1. Kept /\ MarkersTyped /\ marker \in MarkerStates /\ marker.capacity \in Nat
  BY DEF MarkersInv, Kept, Marked, MarkersTyped, MarkerStates, Numbers
<1>2. CASE marker'.capacity = marker.capacity
  BY <1>1, <1>2
<1>3. CASE \E p \in Publishers : Markers!Claim(p)
  <2>1. PICK p \in Publishers : Markers!Claim(p)
    BY <1>3
  <2>2. Learnt(p) /\ pub[p] \in PublisherStates /\ pub[p].pc = "claim"
    BY <1>1, <2>1, KeptAt DEF Markers!Claim
  <2>3. /\ pub[p].capacity = marker.capacity
        /\ marker.reserve = Markers!Highest({pub[p].seq, pub[p].capacity, pub[p].inherited})
    BY <2>2 DEF Learnt, Locked
  <2>4. pub[p].seq \in Nat /\ pub[p].capacity \in Numbers /\ pub[p].inherited \in Numbers
    BY <2>2 DEF PublisherStates
  <2>5. marker.reserve \in Nat /\ marker.capacity <= marker.reserve
    BY <2>3, <2>4, HighestOf
  <2>6. marker'.capacity = marker.reserve
    BY <1>1, <2>1 DEF Markers!Claim, MarkerStates
  <2> QED BY <1>1, <2>5, <2>6, SettingsMakeSense
<1>4. CASE \E p \in Publishers : Markers!Remove(p) /\ Head(pub[p].todo) = "capacity"
  <2>1. PICK p \in Publishers : Markers!Remove(p) /\ Head(pub[p].todo) = "capacity"
    BY <1>4
  <2>2. /\ Cleans(p) /\ OrderedAt(p) /\ pub[p] \in PublisherStates
        /\ pub[p].pc = "clean" /\ pub[p].todo # <<>>
    BY <1>1, <2>1, KeptAt DEF Markers!Remove
  <2>3. "capacity" \in Elements(pub[p].todo)
    <3>1. pub[p].todo \in Seq(MarkerFiles)
      BY <2>2 DEF PublisherStates
    <3> QED BY <2>1, <2>2, <3>1, RestOf
  <2>4. Due("capacity")
    BY <2>2, <2>3 DEF Due, OrderedAt, Locked
  <2>5. /\ p \in FullGates /\ pub[p].seq > marker.capacity
        /\ [by |-> p, seq |-> pub[p].seq] \in rows
    BY <2>2, <2>4 DEF Cleans
  <2> QED BY <2>5
<1>5. \/ marker'.capacity = marker.capacity
      \/ \E p \in Publishers : Markers!Claim(p)
      \/ \E p \in Publishers : Markers!Remove(p) /\ Head(pub[p].todo) = "capacity"
  <2>1. CASE \E r \in Readers : Markers!Read(r)
    BY <2>1 DEF Markers!Read, Markers!Begin, Markers!ReadCapacity, Markers!ReadPublication,
      Markers!RereadCapacity, Markers!ReadActive, Markers!ReadCapacityLast, Markers!RereadPublication,
      Markers!Open, Markers!ReaderSetsAside, Markers!Reading
  <2>2. CASE \E p \in Publishers : Markers!Publish(p)
    <3>1. PICK p \in Publishers : Markers!Publish(p)
      BY <2>2
    <3>2. CASE \/ Markers!Enter(p) \/ Markers!DropActive(p) \/ Markers!WriteActive(p)
               \/ Markers!WritePublication(p) \/ Markers!WriteReserve(p)
      BY <1>1, <3>2 DEF Markers!Enter, Markers!Dropped, Markers!DropActive, Markers!WriteActive,
         Markers!WritePublication, Markers!WriteReserve, MarkerStates
    <3>3. CASE Markers!Remove(p) /\ Head(pub[p].todo) # "capacity"
      BY <1>1, <3>3 DEF Markers!Remove, MarkerStates
    <3>4. CASE marker' = marker
      BY <3>4
    <3> QED
      BY <3>1, <3>2, <3>3, <3>4
      DEF Markers!Publish, Markers!Number, Markers!FindPrevious, Markers!SetAside, Markers!Check, Markers!Lock,
          Markers!LockTimesOut, Markers!WriteFails, Markers!Committing, Markers!Contended, Markers!Unusable,
          Markers!Exhausted, Markers!ClaimFails, Markers!RemoveFails, Markers!Finish, Markers!Persist,
          Markers!Exit, Markers!Crash, Markers!Gone
  <2> QED BY <2>1, <2>2 DEF Markers!Next
<1> QED BY <1>2, <1>3, <1>4, <1>5

\* A receipt with anything but a commit says that the history is disabled.
LEMMA EndedSays ==
  ASSUME MarkersTyped, NEW p \in Publishers,
         NEW ending \in {"none", "committed", "refused", "unavailable", "previous", "corrupt", "exceeded"},
         Markers!Ended(p, ending), pub'[p].enabled
  PROVE  pub[p].enabled /\ ending = "committed"
<1>1. PICK able \in BOOLEAN, code \in {0, 70} :
        /\ able = (pub[p].enabled /\ ending = "committed")
        /\ Rewritten(p, [pub[p] EXCEPT !.pc = "done", !.ending = ending, !.todo = <<>>, !.enabled = able,
                                       !.owes = FALSE, !.exit = code])
  BY EndedDoes, ZenonT(30)
<1>2. pub[p] \in PublisherStates
  BY StateOf
<1>3. pub'[p].enabled = able
  BY <1>1, <1>2 DEF Rewritten, PublisherStates
<1> QED BY <1>1, <1>3

LEMMA WentTo ==
  ASSUME MarkersTyped, NEW p \in Publishers, NEW to \in Locked \union Unlocked, Markers!Go(p, to)
  PROVE  pub'[p].pc = to
<1>1. pub[p] \in PublisherStates
  BY StateOf
<1>2. Rewritten(p, [pub[p] EXCEPT !.pc = to])
  BY WentDoes
<1> QED BY <1>1, <1>2 DEF Rewritten, PublisherStates

LEMMA StepReceipt ==
  ASSUME MarkersInv, Markers!Next
  PROVE  Markers!ReceiptTrue
<1> SUFFICES ASSUME NEW p \in Publishers, pub[p].pc # "done", pub'[p].pc = "done", pub'[p].enabled
             PROVE  marker'.publication = None /\ marker'.capacity = None
  BY DEF Markers!ReceiptTrue
<1>1. /\ Kept /\ MarkersTyped /\ OrderedAt(p) /\ Cleans(p) /\ Shallow /\ setting' = setting
      /\ pub[p] \in PublisherStates
  BY KeptAt DEF MarkersInv, Markers!Next
<1>2. Markers!Publish(p)
  <2>1. CASE \E r \in Readers : Markers!Read(r)
    <3>1. pub' = pub
      BY <2>1 DEF Markers!Read, Markers!Begin, Markers!ReadCapacity, Markers!ReadPublication,
        Markers!RereadCapacity, Markers!ReadActive, Markers!ReadCapacityLast, Markers!RereadPublication,
        Markers!Open, Markers!ReaderSetsAside, Markers!Reading
    <3> QED BY <3>1
  <2>2. ASSUME NEW q \in Publishers \ {p}, Markers!Publish(q) PROVE FALSE
    <3>1. Aside(q) \/ Holds(q)
      BY <1>1, <2>2, PublishIs
    <3>2. pub'[p].pc = pub[p].pc
      BY <3>1 DEF Aside, Holds, Mine
    <3> QED BY <3>2
  <2> QED BY <2>1, <2>2 DEF Markers!Next
<1>3. ~ Holds(p)
  BY DEF Holds, Locked
<1>4. ASSUME NEW ending \in {"none", "committed", "refused", "unavailable", "previous", "corrupt", "exceeded"},
             ending # "committed", Markers!Ended(p, ending)
      PROVE  FALSE
  BY <1>1, <1>4, EndedSays
<1>5. ~ \/ Markers!DropActive(p) \/ Markers!WriteActive(p) \/ Markers!WritePublication(p)
        \/ Markers!WriteReserve(p) \/ Markers!Committing(p) \/ Markers!Contended(p)
        \/ Markers!Unusable(p) \/ Markers!Exhausted(p)
  BY <1>1, <1>3, DropActiveHolds, WriteActiveHolds, WritePublicationHolds, WriteReserveHolds,
     CommittingHolds, ContendedHolds, UnusableHolds, ExhaustedHolds
<1>6. ~ (Markers!Claim(p) \/ Markers!ClaimFails(p) \/ Markers!Remove(p) \/ Markers!RemoveFails(p))
  BY <1>1, <1>3, ClaimHolds, ClaimFailsHolds, RemoveHolds, RemoveFailsHolds
<1>7. ~ (Markers!Enter(p) \/ Markers!WriteFails(p) \/ Markers!Check(p))
  <2>1. ~ Markers!Enter(p)
    BY <1>1, <1>3, <1>4, EnterHolds DEF Markers!Enter
  <2>2. ~ Markers!WriteFails(p)
    BY <1>1, <1>3, <1>4, WriteFailsHolds DEF Markers!WriteFails
  <2>3. ~ Markers!Check(p)
    BY <1>1, <1>4, WentTo DEF Markers!Check, Unlocked
  <2> QED BY <2>1, <2>2, <2>3
<1>8. ~ (Markers!LockTimesOut(p) \/ Markers!Persist(p))
  BY <1>4 DEF Markers!LockTimesOut, Markers!Persist
<1>9. ~ (Markers!FindPrevious(p) \/ Markers!SetAside(p) \/ Markers!Lock(p))
  BY <1>1, WentTo DEF Markers!FindPrevious, Markers!SetAside, Markers!Lock, Locked, Unlocked
<1>10. ~ (Markers!Number(p) \/ Markers!Exit(p) \/ Markers!Crash(p))
  <2>1. ~ Markers!Number(p)
    <3>1. ~ Rewritten(p, [pub[p] EXCEPT !.pc = "check", !.seq = Markers!NextSequence])
      BY <1>1 DEF Rewritten, PublisherStates
    <3> QED BY <1>1, <3>1, NumberDoes
  <2>2. ~ Markers!Gone(p)
    <3>1. ~ Rewritten(p, [pub[p] EXCEPT !.pc = "gone", !.owes = FALSE])
      BY <1>1 DEF Rewritten, PublisherStates
    <3> QED BY <1>1, <3>1, GoneDoes
  <2> QED BY <2>1, <2>2 DEF Markers!Exit, Markers!Crash
<1>11. Markers!Finish(p)
  BY <1>2, <1>5, <1>6, <1>7, <1>8, <1>9, <1>10 DEF Markers!Publish
<1>12. pub[p].pc = "clean" /\ pub[p].todo = <<>> /\ lock = p /\ marker' = marker
  BY <1>1, <1>11 DEF Markers!Finish, OrderedAt, Locked
<1>13. pub[p].enabled /\ pub[p].ending = "committed"
  <2>1. Markers!Ended(p, pub[p].ending) /\ pub[p].ending \in {"none", "committed", "refused", "unavailable", "exceeded"}
    <3>1. ~ Rewritten(p, [pub[p] EXCEPT !.pc = "set aside", !.try = 2, !.strict = FALSE])
      BY <1>1 DEF Rewritten, PublisherStates
    <3>2. ~ Rewritten(p, [pub[p] EXCEPT !.pc = "persist"])
      BY <1>1 DEF Rewritten, PublisherStates
    <3> QED BY <1>1, <1>11, <3>1, <3>2, FinishDoes DEF PublisherStates
  <2> QED BY <1>1, <2>1, EndedSays
<1>14. ~ Due("capacity") /\ ~ Due("publication")
  BY <1>12, NothingLeft DEF Due
<1> QED BY <1>1, <1>12, <1>13, <1>14 DEF Cleans

Heeding == case = "markers" => Markers!LossHeeded
MeaningClean == case = "markers" => Markers!GoneIsClean
Staying == case = "markers" => Markers!CapacityStays
Telling == case = "markers" => Markers!ReceiptTrue

Moves ==
  /\ UNCHANGED case
  /\ \/ case = "markers" /\ Markers!Next /\ UNCHANGED vars
     \/ UNCHANGED published /\ ((case = "runs" /\ Next) \/ (case = "shifts" /\ Shifts!Next))

LEMMA MarkersUnmoved ==
  ASSUME MarkersInv, UNCHANGED published
  PROVE  MarkersInv'
<1>1. MarkersTyped' /\ Shallow'
  BY DEF MarkersInv, Kept, Marked, MarkersTyped, Shallow, published
<1>2. Ordered'
  BY DEF MarkersInv, Kept, Marked, Ordered, OrderedAt, published
<1>3. \A m : Due(m)' <=> Due(m)
  BY DEF Due, published
<1>4. \A p \in Publishers : Learnt(p)' /\ Cleans(p)'
  BY <1>3 DEF MarkersInv, Kept, Marked, Learnt, Cleans, published
<1>5. \A q \in Publishers : (Owing(q)' <=> Owing(q)) /\ (Claimed(q)' <=> Claimed(q)) /\ (Vouched(q)' <=> Vouched(q))
  BY <1>3 DEF Owing, Claimed, Vouched, Above, published
<1>6. LossesVouched' /\ Based'
  BY <1>5 DEF MarkersInv, Kept, LossesVouched, Based, BasedAt, published
<1>7. Unclaimed' /\ Owned'
  BY <1>3 DEF MarkersInv, Kept, Unclaimed, Owned, Markers!Alive, Smooth, published
<1>8. ASSUME NEW r \in Readers PROVE ReadsAt(r)' /\ HeedsAt(r)'
  <2>1. ReadsAt(r) /\ HeedsAt(r) /\ lost \subseteq Publishers
    BY DEF MarkersInv, Kept, Marked, MarkersTyped, Heard
  <2>2. ReadsAt(r)'
    <3>1. reader[r].seen \subseteq Publishers
      BY DEF MarkersInv, Kept, Marked, MarkersTyped, ReaderStates
    <3> QED BY <1>5, <2>1, <3>1 DEF ReadsAt, published
  <2>3. HeedsAt(r)'
    BY <2>1 DEF HeedsAt, Smooth, published
  <2> QED BY <2>2, <2>3
<1> QED BY <1>1, <1>2, <1>4, <1>6, <1>7, <1>8 DEF MarkersInv, Kept, Marked, Heard

MarkersHold == case = "markers" => MarkersInv

LEMMA TogetherKeeps ==
  ASSUME MarkersHold, [Moves]_<<case, vars, published>>
  PROVE  MarkersHold'
<1>1. CASE UNCHANGED published
  BY <1>1, MarkersUnmoved DEF MarkersHold, Moves
<1>2. CASE Moves /\ published' # published
  BY <1>2, MarkersStep DEF MarkersHold, Moves
<1> QED BY <1>1, <1>2

LEMMA TogetherPromises ==
  ASSUME MarkersHold, [Moves]_<<case, vars, published>>
  PROVE  [Heeding]_published /\ [MeaningClean]_published /\ [Staying]_published /\ [Telling]_published
<1> SUFFICES ASSUME published' # published, case = "markers"
             PROVE  Heeding /\ MeaningClean /\ Staying /\ Telling
  BY DEF Heeding, MeaningClean, Staying, Telling
<1>1. MarkersInv /\ Markers!Next
  BY DEF MarkersHold, Moves
<1> QED BY <1>1, StepHeeds, StepCapacity, StepReceipt DEF Heeding, MeaningClean, Staying, Telling

LEMMA TogetherHolds == Together => []MarkersHold
<1>1. ASSUME \/ Unmarked /\ ((case = "runs" /\ Init) \/ (case = "shifts" /\ Shifts!Init))
             \/ case = "markers" /\ Markers!Init /\ Init
      PROVE  MarkersHold
  BY <1>1, MarkersStart DEF MarkersHold
<1> QED BY <1>1, TogetherKeeps, PTL DEF Together, Moves

\* Where markers can be written and removed and the store is never full, no
\* reader lets a run be narrowed past an outcome that was lost before it began,
\* whoever publishes and wherever each publisher dies.
THEOREM LossesDisable == Together => LossDisables
  BY TogetherHolds, TogetherPromises, PTL DEF Together, Moves, LossDisables, Heeding

\* Whatever fails, a reader that finds the publication marker gone, and narrows
\* a run, has missed nothing that was lost until then.
THEOREM GoneMarkersMeanClean == Together => GoneMeansClean
  BY TogetherHolds, TogetherPromises, PTL DEF Together, Moves, GoneMeansClean, MeaningClean

\* Whatever fails, a capacity claim goes only behind the commit of a full gate
\* numbered after it.
THEOREM CapacityClaimsOutlive == Together => CapacityOutlives
  BY TogetherHolds, TogetherPromises, PTL DEF Together, Moves, CapacityOutlives, Staying

\* Whatever fails, a receipt that says the history can narrow runs leaves no
\* marker behind that disables it.
THEOREM ReceiptsAreTrue == Together => ReceiptIsTrue
  BY TogetherHolds, TogetherPromises, PTL DEF Together, Moves, ReceiptIsTrue, Telling
=============================================================================
