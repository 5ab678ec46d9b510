----------------------------- MODULE MCLiveness -----------------------------
\* The liveness properties of the scheduler, of the guard with its controller,
\* and of the full gates that wait for a duplicate.  A behaviour is of one of
\* the three systems; the other two rest in their initial state.
EXTENDS Integers, TLC

CONSTANTS a, b, NoRun, r1, r2, None

VARIABLES
  system,
  jobs, limits, stale, late, client, guard, kid,
  g, o, up, down, child, code, strays, expired, started, dumps,
  tree, edits, ledger, summaries, baseline, lease, running, run, withdrawn

scheduler == <<jobs, limits, stale, late, client, guard, kid>>
control == <<g, o, up, down, child, code, strays, expired, started, dumps>>
gates == <<tree, edits, ledger, summaries, baseline, lease, running, run, withdrawn>>
vars == <<system, scheduler, control, gates>>

\* Two runs that want the one checkout.
S == INSTANCE Scheduler WITH
  Runs <- {a, b}, Checkout <- (a :> "shared" @@ b :> "shared"),
  Namespace <- (a :> "host" @@ b :> "host"), Want <- (a :> 1 @@ b :> 1),
  PerWorker <- (a :> 0 @@ b :> 0), Exclusive <- {}, Locks <- (a :> {} @@ b :> {}),
  Parent <- (a :> NoRun @@ b :> NoRun),
  Configs <- {[slots |-> 2, jobs |-> 2, memory |-> 0]},
  MaxPending <- 3, KeepTerminal <- 2, Events <- {"crash", "kill", "break", "escape"}

\* A test that need not end behind a setup that need not end.
G == INSTANCE GuardControl WITH
  Attempts <- 1, HasSetup <- TRUE, Events <- {"interrupt", "crash", "expire", "stray"}

\* Two full gates of one checkout, both forced to execute.
Trees == {[digest |-> 1, head |-> 1, shared |-> 1, clean |-> TRUE]}
F == INSTANCE FullGate WITH
  Runs <- {r1, r2}, Checkouts <- {a},
  CheckoutOf <- (r1 :> a @@ r2 :> a),
  Again <- {r1, r2}, Covered <- {}, Native <- FALSE, Child <- FALSE,
  StartTree <- (a :> [digest |-> 1, head |-> 1, shared |-> 1, clean |-> TRUE]),
  MaxRecords <- 2, MaxEdits <- 0, Faults <- {"crash"}

Init == /\ system \in {"scheduler", "guard", "gates"}
        /\ S!Init /\ G!Init /\ F!Init
Next ==
  /\ UNCHANGED system
  /\ \/ system = "scheduler" /\ S!Next /\ UNCHANGED <<control, gates>>
     \/ system = "guard" /\ G!Next /\ UNCHANGED <<scheduler, gates>>
     \/ system = "gates" /\ F!Next /\ UNCHANGED <<scheduler, control>>

\* Scheduler!Fairness, GuardControl!Fairness and FullGate!Fairness of the system
\* that runs.
Fairness ==
  /\ \A r \in {a, b} :
       /\ WF_scheduler(system = "scheduler" /\ S!Poll(r))
       /\ WF_scheduler(system = "scheduler" /\ S!LaunchGuard(r))
       /\ WF_scheduler(system = "scheduler" /\ S!GuardLost(r))
       /\ WF_scheduler(system = "scheduler" /\ (\/ S!BeginFinalization(r) \/ S!Finish(r)
                                               \/ S!FinalizationRefused(r)))
       /\ WF_scheduler(system = "scheduler" /\ S!OwnerExit(r))
       /\ WF_scheduler(system = "scheduler" /\ S!RegisterGuard(r))
       /\ WF_scheduler(system = "scheduler" /\ S!MarkDraining(r))
       /\ WF_scheduler(system = "scheduler" /\ S!GuardExit(r))
       /\ WF_scheduler(system = "scheduler" /\ S!KidExits(r))
  /\ WF_control(system = "guard" /\ G!GuardSteps)
  /\ WF_control(system = "guard" /\ G!OwnerSteps)
  /\ WF_control(system = "guard" /\ G!DeadlinePasses)
  /\ \A r \in {r1, r2} :
       WF_gates(system = "gates" /\ (F!Gating(r) \/ F!Coalescing(r) \/ F!Running(r)))

Spec == Init /\ [][Next]_vars /\ Fairness

\* Scheduler!EveryTicketAnswered: every enqueued run is granted or told why not.
EveryTicketAnswered == S!EveryTicketAnswered

\* GuardControl!EveryRunAnswered: the controller always reaches a verdict.
EveryRunAnswered == system = "guard" => G!EveryRunAnswered

\* FullGate!WaitersLeave: no duplicate waits for ever.
WaitersLeave == F!WaitersLeave
=============================================================================
