----------------------------- MODULE GuardControl -----------------------------
(***************************************************************************)
(* One launched guard (src/ptest/guard.py) and the controller that watches *)
(* it (_run_guard, _Frames and _CompoundFrames of src/ptest/operations.py) *)
(* with the two directions of the private control channel, the child the   *)
(* guard spawns, its process group, and the clocks that cut a run short.   *)
(*                                                                         *)
(* Attempt 0 is the declared setup; attempts 1..Attempts are executions.   *)
(* With one attempt the controller uses _Frames, with more _CompoundFrames.*)
(* A step of the guard is what it does between two points where another    *)
(* process, a signal handler or a clock can make a difference.             *)
(***************************************************************************)
EXTENDS Integers, Sequences

CONSTANTS
  Attempts,  \* how many prepared attempts the manifest holds
  HasSetup,  \* whether the manifest holds a setup
  Events     \* what the world may do: interrupt, terminate, kill, crash,
             \* expire, slow, stall, stray, missing, doubt, racing, lost,
             \* broken

\* A manifest holds at least one attempt.
AttemptsMakeSense == Attempts \in Nat \ {0} /\ HasSetup \in BOOLEAN

VARIABLES
  g,        \* the guard: its _State, its _Control and where it is
  o,        \* the controller: its _Frames and where it is
  up, down, \* frames in flight, guard to controller and back
  child,    \* the direct child: none, running, exited
  code,     \* what the child of each attempt exited with
  strays,   \* other members of the guard's group are alive
  expired,  \* the compound deadline has passed
  started,  \* attempts whose child was spawned
  dumps     \* dump signals sent

vars == <<g, o, up, down, child, code, strays, expired, started, dumps>>
work == <<child, code, strays, started>>

NoCode == 1000   \* raw_exit_code None
NoFacts == [raw |-> NoCode, problem |-> "absent"]
Timeouts == {"execution-timeout", "post-test-stall"}
Problems == Timeouts \union {"none", "attempt-decision-timeout",
              "ownership-uncertain", "protocol-mismatch", "missing-executable"}

GuardStart ==
  [pc |-> "boot", attempt |-> 0, cancel |-> 0, problem |-> "none",
   closed |-> FALSE, external |-> FALSE, spawned |-> FALSE, dump |-> FALSE,
   graced |-> FALSE, after |-> "mark", readable |-> TRUE, writable |-> TRUE,
   gate |-> 0, decision |-> "none", fault |-> "none", exit |-> NoCode]

FramesStart ==
  [pc |-> "loop", signal |-> 0, cancelled |-> FALSE, cancelSent |-> FALSE,
   deciding |-> FALSE, gates |-> 0, continued |-> {}, invalid |-> FALSE,
   registered |-> FALSE, ready |-> 0, decided |-> FALSE, reason |-> "none",
   setupPhase |-> FALSE, setupFacts |-> NoFacts, phase |-> FALSE,
   facts |-> NoFacts, readies |-> 0, phases |-> {},
   factsBy |-> [k \in 1..Attempts |-> NoFacts], draining |-> FALSE,
   verdict |-> [status |-> "none", exit |-> NoCode]]

Init ==
  /\ g = GuardStart /\ o = FramesStart
  /\ up = <<>> /\ down = <<>>
  /\ child = "none" /\ code = [k \in 0..Attempts |-> NoCode] /\ strays = FALSE
  /\ expired = FALSE /\ started = {} /\ dumps = 0

Ended == g.pc \in {"exited", "killed"}

-----------------------------------------------------------------------------
(***************************************************************************)
(* _State: the first cancellation and the first problem win.               *)
(***************************************************************************)
\* Mutant: the latest cancellation is the one that counts.
CancelledByLast(s, signal) ==
  [s EXCEPT !.cancel = signal, !.closed = TRUE, !.external = TRUE]
CancelledBy(s, signal) ==
  [s EXCEPT !.cancel = IF @ = 0 THEN signal ELSE @,
            !.closed = TRUE, !.external = TRUE]

Failed(s, problem, dump) ==
  [s EXCEPT !.problem = IF @ = "none" THEN problem ELSE @,
            !.dump = @ \/ (dump /\ s.problem = "none" /\ s.cancel = 0),
            !.cancel = IF @ = 0 THEN 15 ELSE @, !.closed = TRUE]

Disconnected(s) ==
  [s EXCEPT !.readable = FALSE, !.writable = FALSE, !.closed = TRUE]

\* A decision must carry the token of the gate that is open now.
MatchesGate(s, f) == s.gate # 0 /\ f.attempt = s.gate

Parsed(s, f) ==
  IF ~s.readable THEN s
  ELSE CASE f.kind = "cancel" -> CancelledBy(s, f.signal)
         [] f.kind = "decision" ->
              IF MatchesGate(s, f)
              THEN [s EXCEPT !.gate = 0, !.decision = f.action]
              ELSE Failed([s EXCEPT !.readable = FALSE], "protocol-mismatch", FALSE)
         [] f.kind = "eof" -> Disconnected(s)

\* One poll reads what has arrived; a closed peer ends it with EOF.
Arrived == down \o (IF o.pc = "gone" THEN <<[kind |-> "eof"]>> ELSE <<>>)
Polled(s) ==
  LET after[n \in 0..Len(Arrived)] == IF n = 0 THEN s ELSE Parsed(after[n - 1], Arrived[n])
  IN  after[Len(Arrived)]
\* A poll makes a difference only then.
Mail == g.readable /\ (down # <<>> \/ o.pc = "gone")

\* Sending on a channel whose peer is gone disconnects the guard.
Emitting(s, f) ==
  IF s.writable /\ o.pc # "gone"
  THEN g' = s /\ up' = Append(up, f)
  ELSE g' = (IF s.writable THEN Disconnected(s) ELSE s) /\ UNCHANGED up

Facts(s, problem) ==
  [kind |-> "facts", attempt |-> s.attempt, problem |-> problem,
   raw |-> code[s.attempt]]

At(pc) == g.pc = pc
Go(s, pc) == [s EXCEPT !.pc = pc]
Exit(s, code_) == [s EXCEPT !.pc = "exited", !.exit = code_]

-----------------------------------------------------------------------------
(***************************************************************************)
(* The guard's way to its gate.                                            *)
(***************************************************************************)
\* The manifest is read and the control channel polled once before anything.
Boot ==
  /\ At("boot")
  /\ LET s == Polled(g) IN
     g' = IF s.problem # "none" THEN Exit(s, 70)
          ELSE IF s.cancel # 0 THEN Exit(s, 128 + s.cancel)
          ELSE IF s.closed THEN Exit(s, 70) ELSE Go(s, "register")
  /\ down' = <<>>
  /\ UNCHANGED <<o, up, work, expired, dumps>>

\* register_guard is a compare-and-set on the ledger; it may lose.
Register ==
  /\ At("register")
  /\ \/ Emitting(Go(g, IF HasSetup THEN "check" ELSE "next"),
                 [kind |-> "registered"])
     \/ "lost" \in Events /\ g' = Exit(g, 75) /\ UNCHANGED up
  /\ UNCHANGED <<o, down, work, expired, dumps>>

\* _predecessor_quiescent: the scan of the group, the lease seen RUNNING.  The
\* scan walks a changing process table: it may give no answer, which counts as
\* somebody left, and a fork racing it may leave a member it did not see.
Evidences ==
  {~strays} \union (IF "doubt" \in Events THEN {FALSE} ELSE {})
            \union (IF strays /\ "racing" \in Events THEN {TRUE} ELSE {})

Prepared(k) == k <= Attempts
\* The head of the loop over the attempts, with the scan before the next gate.
NextAttempt ==
  /\ At("next")
  /\ IF g.closed \/ ~Prepared(g.attempt + 1) THEN g' = Go(g, "drain")
     ELSE \E safe \in Evidences :
            g' = IF safe THEN Go(g, "ask")
                 ELSE Go(Failed(g, "ownership-uncertain", FALSE), "drain")
  /\ UNCHANGED <<o, up, down, work, expired, dumps>>

\* await_attempt_decision asks even a guard that was signalled during the scan.
Ask ==
  /\ At("ask")
  /\ LET k == g.attempt + 1 IN
     IF expired
     THEN g' = Go(Failed(g, "execution-timeout", FALSE), "drain") /\ UNCHANGED up
     ELSE Emitting([Go(g, "gate") EXCEPT !.attempt = k, !.gate = k,
                                         !.decision = "none"],
                   [kind |-> "ready", attempt |-> k])
  /\ UNCHANGED <<o, down, work, expired, dumps>>

\* Mutant: a gate closed by something else than a decision opens the way.
GateOutcomeUndecided(s) ==
  IF s.decision # "stop" THEN [Go(s, "fork") EXCEPT !.decision = "none"]
  ELSE [Go(s, "drain") EXCEPT !.closed = TRUE, !.decision = "none"]
\* What await_attempt_decision returns once its loop is left.
GateOutcome(s) ==
  IF s.decision = "continue" THEN [Go(s, "check") EXCEPT !.decision = "none"]
  ELSE IF s.decision = "stop"
  THEN [Go(s, "drain") EXCEPT !.closed = TRUE, !.decision = "none"]
  ELSE [Go(s, "drain") EXCEPT !.gate = 0]

\* A gate that closes between its loop's test and the poll is polled once more.
GatePoll ==
  /\ At("gate")
  /\ \/ /\ Mail
        /\ LET s == Polled(g) IN
           g' = IF s.decision # "none" \/ s.closed THEN GateOutcome(s) ELSE s
        /\ down' = <<>>
     \/ g.closed /\ g' = GateOutcome(g) /\ UNCHANGED down
  /\ UNCHANGED <<o, up, work, expired, dumps>>

\* The watchdog of the gate is the decision budget or the compound deadline.
GateTimeout ==
  /\ At("gate") /\ ~g.closed
  /\ "slow" \in Events \/ expired
  /\ g' = [Go(Failed(g, "attempt-decision-timeout", FALSE), "drain") EXCEPT !.gate = 0]
  /\ UNCHANGED <<o, up, down, work, expired, dumps>>

-----------------------------------------------------------------------------
(***************************************************************************)
(* _run_one: two looks at the channel around the phase frame, the fork,    *)
(* the watch over the child, the reap, and the facts.                      *)
(***************************************************************************)
\* _ready: closed spawns and passed deadlines stop the attempt.
Readied(s) ==
  LET p == Polled(s) IN
  IF expired /\ ~p.closed THEN Failed(p, "execution-timeout", FALSE) ELSE p

\* The early return: only a timeout leaves facts behind.
NotRun(s) ==
  LET t == IF s.attempt = 0 THEN [s EXCEPT !.closed = TRUE] ELSE s IN
  IF s.problem = "execution-timeout"
  THEN Emitting(Go(t, "next"), Facts(t, s.problem))
  ELSE g' = Go(t, "next") /\ UNCHANGED up

Check ==
  /\ At("check")
  /\ LET s == Readied(g) IN
     IF s.closed THEN NotRun(s)
     ELSE Emitting(Go(s, "recheck"), [kind |-> "phase", attempt |-> s.attempt])
  /\ down' = <<>>
  /\ UNCHANGED <<o, work, expired, dumps>>

Recheck ==
  /\ At("recheck")
  /\ LET s == Readied(g) IN
     IF s.closed THEN NotRun(s) ELSE g' = Go(s, "fork") /\ UNCHANGED up
  /\ down' = <<>>
  /\ UNCHANGED <<o, work, expired, dumps>>

\* A signal may still be handled between the second look and the fork.
Fork ==
  /\ At("fork")
  /\ \/ /\ g' = [Go(g, "watch") EXCEPT !.spawned = TRUE]
        /\ child' = "running"
        /\ started' = started \union {g.attempt}
     \/ /\ "missing" \in Events
        /\ g' = [Go(g, "facts") EXCEPT !.fault = "missing-executable", !.closed = TRUE]
        /\ UNCHANGED <<child, started>>
  /\ UNCHANGED <<o, up, down, code, strays, expired, dumps>>

\* _cancel_and_reap signals the whole group, the guard included, once.
Reaping(s, after) ==
  LET t == IF s.graced THEN s ELSE CancelledBy(s, 15) IN
  [t EXCEPT !.pc = "reap", !.after = after, !.graced = TRUE]

\* A cancelled watch: the dump first if the guard itself found the reason.
Ending(s) ==
  IF s.dump /\ ~s.external /\ s.attempt # 0
  THEN g' = Go(s, "dump") /\ dumps' = dumps + 1
  ELSE g' = Reaping(s, "collect") /\ UNCHANGED dumps

WatchPoll ==
  /\ At("watch") /\ Mail
  /\ g' = Polled(g) /\ down' = <<>>
  /\ UNCHANGED <<o, up, work, expired, dumps>>

\* Mutant: the deadline is only compared for executions.
OverdueExecution == expired /\ g.attempt # 0
Overdue == expired
WatchExpires ==
  /\ At("watch") /\ child = "running" /\ g.cancel = 0 /\ Overdue
  /\ Ending(Failed(g, "execution-timeout", TRUE))
  /\ UNCHANGED <<o, up, down, work, expired>>

\* The stall window is looked at only while nothing else ended the attempt.
WatchStalls ==
  /\ At("watch") /\ child = "running" /\ g.cancel = 0 /\ ~expired
  /\ "stall" \in Events /\ g.attempt # 0
  /\ Ending(Failed(g, "post-test-stall", TRUE))
  /\ UNCHANGED <<o, up, down, work, expired>>

WatchCancelled ==
  /\ At("watch") /\ child = "running" /\ g.cancel # 0
  /\ Ending(g)
  /\ UNCHANGED <<o, up, down, work, expired>>

WatchChildGone ==
  /\ At("watch") /\ child = "exited"
  /\ g' = Go(g, "collect")
  /\ UNCHANGED <<o, up, down, work, expired, dumps>>

\* _dump_and_wait ends early for an outside cancellation.
DumpWait ==
  /\ At("dump")
  /\ LET s == Polled(g) IN g' = Reaping(s, "collect")
  /\ down' = <<>>
  /\ UNCHANGED <<o, up, work, expired, dumps>>

ReapPoll ==
  /\ At("reap") /\ Mail
  /\ g' = Polled(g) /\ down' = <<>>
  /\ UNCHANGED <<o, up, work, expired, dumps>>

\* The same scan: no proof that the group is empty.
Reaped == child # "running" /\ (~strays \/ "racing" \in Events)
ReapDone ==
  /\ At("reap") /\ Reaped
  /\ g' = Go(g, g.after)
  /\ UNCHANGED <<o, up, down, work, expired, dumps>>

\* After the grace the group is killed, and the guard is one of the group.
ReapExpires ==
  /\ At("reap") /\ (child = "running" \/ strays \/ "doubt" \in Events)
  /\ g' = Go(g, "killed")
  /\ child' = "none" /\ strays' = FALSE
  /\ UNCHANGED <<o, up, down, code, expired, started, dumps>>

Collect ==
  /\ At("collect")
  /\ LET s == Polled(g) IN
     g' = IF s.cancel # 0 THEN Reaping(s, "result") ELSE Go(s, "result")
  /\ down' = <<>>
  /\ UNCHANGED <<o, up, work, expired, dumps>>

\* child.wait(), then the evidence that nothing of the attempt is left.
Result ==
  /\ At("result")
  /\ child' = "none"
  /\ IF g.problem # "none"
     THEN g' = [Go(g, "facts") EXCEPT !.fault = g.problem]
     ELSE \E safe \in Evidences :
            g' = IF safe THEN [Go(g, "facts") EXCEPT !.fault = "none"]
                 ELSE [Reaping(Failed(g, "ownership-uncertain", FALSE), "facts")
                         EXCEPT !.fault = "ownership-uncertain"]
  /\ UNCHANGED <<o, up, down, code, strays, expired, started, dumps>>

SendFacts ==
  /\ At("facts")
  /\ LET f == Facts(g, g.fault) IN
     Emitting([Go(g, "next") EXCEPT !.closed = @ \/ (g.attempt = 0 /\ f.raw # 0)], f)
  /\ UNCHANGED <<o, down, work, expired, dumps>>

-----------------------------------------------------------------------------
\* The end of run_guard: one more poll, the reap, DRAINING, the exit code.
Drain ==
  /\ At("drain")
  /\ LET s == [Polled(g) EXCEPT !.closed = TRUE] IN
     g' = IF s.cancel # 0 /\ s.spawned THEN Reaping(s, "mark") ELSE Go(s, "mark")
  /\ down' = <<>>
  /\ UNCHANGED <<o, up, work, expired, dumps>>

\* Mutant: a run that was cancelled reports a clean exit.
GuardExitCodeQuiet(s) ==
  IF s.problem \notin Timeouts \union {"none"} THEN 70 ELSE 0
GuardExitCode(s) ==
  IF s.problem \notin Timeouts \union {"none"} THEN 70
  ELSE IF s.cancel # 0 THEN 128 + s.cancel ELSE 0

Mark ==
  /\ At("mark")
  /\ \/ Emitting(Exit(g, GuardExitCode(g)), [kind |-> "draining"])
     \/ "lost" \in Events /\ g' = Exit(g, 75) /\ UNCHANGED up
  /\ UNCHANGED <<o, down, work, expired, dumps>>

\* An exception the code does not expect still reaps; there is no DRAINING.
Break ==
  /\ "broken" \in Events /\ g.pc \in {"register", "next", "result", "mark"}
  /\ g' = IF g.spawned THEN Reaping(CancelledBy(g, 15), "abort") ELSE Exit(g, 70)
  /\ child' = IF At("result") THEN "none" ELSE child
  /\ UNCHANGED <<o, up, down, code, strays, expired, started, dumps>>
Abort ==
  /\ At("abort")
  /\ g' = Exit(g, 70)
  /\ UNCHANGED <<o, up, down, work, expired, dumps>>

GuardSteps ==
  \/ Break \/ Abort
  \/ Boot \/ Register \/ NextAttempt \/ Ask \/ GatePoll \/ GateTimeout
  \/ Check \/ Recheck \/ Fork
  \/ WatchPoll \/ WatchExpires \/ WatchStalls \/ WatchCancelled \/ WatchChildGone
  \/ DumpWait \/ ReapPoll \/ ReapDone \/ ReapExpires
  \/ Collect \/ Result \/ SendFacts \/ Drain \/ Mark

-----------------------------------------------------------------------------
(***************************************************************************)
(* The controller's record of the guard's frames.  A frame out of order    *)
(* makes the handoff invalid for good.                                     *)
(***************************************************************************)
Unreported(facts) == facts.problem = "absent"
SetupPassed(q) == q.setupFacts.raw = 0 /\ q.setupFacts.problem = "none"
SetupSettled(q) ==
  /\ ~Unreported(q.setupFacts) => SetupPassed(q)
  /\ HasSetup => q.setupPhase /\ ~Unreported(q.setupFacts)

DrainingAcceptedOne(q) ==
  \/ ~Unreported(q.facts)
  \/ ~Unreported(q.setupFacts) /\ ~q.phase
  \/ q.cancelSent /\ q.ready # 0 /\ ~q.phase
  \/ q.ready # 0 /\ q.decided /\ q.reason # "none" /\ ~q.phase

\* _Frames._accept: the frames of a command with one attempt.
AcceptsOne(q, f) ==
  CASE f.kind = "registered" ->
         /\ ~q.registered /\ q.ready = 0 /\ ~q.phase /\ ~q.setupPhase
         /\ Unreported(q.setupFacts) /\ Unreported(q.facts) /\ ~q.draining
    [] f.kind = "ready" ->
         /\ q.registered /\ q.ready = 0 /\ ~q.phase /\ Unreported(q.facts)
         /\ ~q.draining /\ SetupSettled(q) /\ f.attempt = 1
    [] f.kind = "phase" /\ f.attempt = 0 ->
         /\ HasSetup /\ q.registered /\ ~q.setupPhase /\ Unreported(q.setupFacts)
         /\ ~q.phase /\ Unreported(q.facts) /\ ~q.draining
    [] f.kind = "phase" /\ f.attempt # 0 ->
         /\ q.ready # 0 /\ q.decided /\ ~q.phase /\ Unreported(q.facts)
         /\ ~q.draining /\ q.reason = "none"
    [] f.kind = "facts" /\ f.attempt = 0 ->
         q.setupPhase /\ Unreported(q.setupFacts) /\ ~q.phase /\ Unreported(q.facts) /\ ~q.draining
    [] f.kind = "facts" /\ f.attempt # 0 -> q.phase /\ Unreported(q.facts) /\ ~q.draining
    [] f.kind = "draining" -> DrainingAcceptedOne(q) /\ ~q.draining

\* _CompoundFrames._accept: attempts in order, one after the other.
AcceptsCompound(q, f) ==
  CASE f.kind = "registered" -> ~q.registered /\ ~q.draining
    [] f.kind = "ready" ->
         /\ q.registered /\ ~(q.ready # 0 /\ q.decided) /\ ~q.phase /\ ~q.draining
         /\ f.attempt = q.readies + 1 /\ SetupSettled(q)
    [] f.kind = "phase" /\ f.attempt = 0 ->
         /\ HasSetup /\ q.registered /\ ~q.setupPhase /\ Unreported(q.setupFacts) /\ ~q.phase
    [] f.kind = "phase" /\ f.attempt # 0 ->
         /\ f.attempt \in 1..q.readies /\ q.decided /\ q.reason = "none"
         /\ ~q.phase /\ Unreported(q.facts)
    [] f.kind = "facts" /\ f.attempt = 0 ->
         q.setupPhase /\ Unreported(q.setupFacts) /\ ~q.phase
    [] f.kind = "facts" /\ f.attempt # 0 -> f.attempt \in q.phases /\ Unreported(q.facts)
    [] f.kind = "draining" ->
         /\ \/ \A k \in 1..Attempts : ~Unreported(q.factsBy[k])
            \/ q.reason # "none" /\ q.ready # 0 /\ ~q.phase
            \/ q.cancelSent /\ q.ready # 0 /\ ~q.phase
            \/ ~Unreported(q.setupFacts) /\ q.readies = 0
         /\ ~q.draining

Accepts(q, f) == IF Attempts = 1 THEN AcceptsOne(q, f) ELSE AcceptsCompound(q, f)

Recorded(q, f) ==
  LET facts == [raw |-> f.raw, problem |-> f.problem] IN
  CASE f.kind = "registered" -> [q EXCEPT !.registered = TRUE]
    [] f.kind = "ready" ->
         [q EXCEPT !.ready = f.attempt, !.readies = @ + 1, !.decided = FALSE,
                   !.reason = "none", !.phase = FALSE, !.facts = NoFacts]
    [] f.kind = "phase" /\ f.attempt = 0 -> [q EXCEPT !.setupPhase = TRUE]
    [] f.kind = "phase" /\ f.attempt # 0 ->
         [q EXCEPT !.phase = TRUE, !.phases = @ \union {f.attempt}]
    [] f.kind = "facts" /\ f.attempt = 0 -> [q EXCEPT !.setupFacts = facts]
    [] f.kind = "facts" /\ f.attempt # 0 /\ Attempts = 1 -> [q EXCEPT !.facts = facts]
    [] f.kind = "facts" /\ f.attempt # 0 /\ Attempts # 1 ->
         [q EXCEPT !.facts = facts, !.factsBy[f.attempt] = facts, !.phase = FALSE,
                   !.decided = FALSE, !.ready = 0]
    [] f.kind = "draining" -> [q EXCEPT !.draining = TRUE]

Received(q, f) ==
  IF q.invalid THEN q
  ELSE IF Accepts(q, f) THEN Recorded(q, f) ELSE [q EXCEPT !.invalid = TRUE]

ReceivedAll(q, frames) ==
  LET after[n \in 0..Len(frames)] == IF n = 0 THEN q ELSE Received(after[n - 1], frames[n])
  IN  after[Len(frames)]
Drained(q) == ReceivedAll(q, up)

Watching == o.pc = "loop" /\ ~o.deciding

Deliver(f) == down' = IF Ended THEN down ELSE Append(down, f)

\* A signal of the caller, or an invalid handoff, is sent to the guard once.
OwnerCancels ==
  /\ Watching /\ ~Ended /\ ~o.cancelled
  /\ o.signal # 0 \/ o.invalid
  /\ o' = [o EXCEPT !.cancelled = TRUE, !.cancelSent = o.signal # 0]
  /\ Deliver([kind |-> "cancel", signal |-> IF o.signal # 0 THEN o.signal ELSE 15])
  /\ UNCHANGED <<g, up, work, expired, dumps>>

OwnerDrains ==
  /\ Watching /\ ~Ended /\ up # <<>> /\ ~o.invalid
  /\ o' = Drained(o) /\ up' = <<>>
  /\ UNCHANGED <<g, down, work, expired, dumps>>

\* decide() takes its time, and signals arrive meanwhile.
OwnerDecides ==
  /\ Watching /\ o.ready # 0 /\ ~o.decided /\ ~o.invalid /\ o.signal = 0
  /\ o' = [o EXCEPT !.deciding = TRUE, !.gates = @ + 1]
  /\ UNCHANGED <<g, up, down, work, expired, dumps>>

StopReasons ==
  {"changed-during-run"} \union (IF Attempts = 1 THEN {"no-tests-needed"} ELSE {})

OwnerSends ==
  /\ o.pc = "loop" /\ o.deciding
  /\ \E reason \in {"none"} \union StopReasons :
       /\ o' = [o EXCEPT
            !.deciding = FALSE,
            !.invalid = @ \/ Ended,
            !.decided = ~Ended,
            !.reason = IF Ended THEN @ ELSE reason,
            !.continued = IF reason = "none" THEN @ \union {o.ready} ELSE @]
       /\ Deliver([kind |-> "decision", attempt |-> o.ready,
                   action |-> IF reason = "none" THEN "continue" ELSE "stop"])
  /\ UNCHANGED <<g, up, work, expired, dumps>>

-----------------------------------------------------------------------------
(***************************************************************************)
(* The verdict on what the guard left behind.                              *)
(***************************************************************************)
\* Mutant: the exit code of the tests decides, however the guard ended.
OutcomeByCode(raw, signal, problem, incomplete) ==
  IF raw = 0 THEN [status |-> "PASSED", exit |-> 0]
  ELSE [status |-> "INCOMPLETE", exit |-> 70]
\* _outcome: one precedence for every result after a launch.
Outcome(raw, signal, problem, incomplete) ==
  LET Or(status) == IF incomplete THEN "INCOMPLETE" ELSE status
      Is(status, exit) == [status |-> status, exit |-> exit] IN
  IF problem = "post-test-stall" /\ signal = 0 THEN Is("INCOMPLETE", 70)
  ELSE IF raw # NoCode /\ raw > 0 THEN Is(Or("FAILED"), raw)
  ELSE IF raw < 0 /\ problem = "none" THEN Is(Or("FAILED"), 128 - raw)
  ELSE IF problem = "missing-executable" /\ raw = NoCode THEN Is(Or("FAILED"), 127)
  ELSE IF signal # 0 THEN Is(Or("CANCELLED"), 128 + signal)
  ELSE IF incomplete \/ raw = NoCode THEN Is("INCOMPLETE", 70)
  ELSE Is("PASSED", 0)

SetupFailed(q) == ~Unreported(q.setupFacts) /\ ~SetupPassed(q)
ProblemOf(facts) == IF Unreported(facts) THEN "none" ELSE facts.problem

\* The four handoffs a command with one attempt accepts, drained to the end.
HandoffProved(q) ==
  LET atGate == q.ready # 0 /\ ~q.phase /\ Unreported(q.facts) IN
  /\ ~q.invalid /\ q.registered /\ q.draining
  /\ \/ q.ready # 0 /\ q.decided /\ q.phase /\ ~Unreported(q.facts)
     \/ q.reason # "none" /\ q.decided /\ atGate
     \/ q.cancelSent /\ atGate
     \/ SetupFailed(q) /\ q.setupPhase /\ ~q.phase

VerdictOne(q, exit) ==
  LET proved == HandoffProved(q)
      stopped == q.reason # "none"
      atGate == q.ready # 0 /\ ~q.phase /\ Unreported(q.facts)
      nothingToDo == /\ q.reason = "no-tests-needed" /\ q.decided /\ atGate
                     /\ proved /\ q.signal = 0
      undone == \/ ~proved
                \/ stopped /\ ~nothingToDo
                \/ q.cancelSent /\ atGate
      raw == q.facts.raw
      problem == ProblemOf(q.facts)
      incomplete ==
        IF SetupFailed(q)
        THEN undone \/ q.setupFacts.problem \notin {"none", "missing-executable"}
        ELSE \/ undone
             \/ problem = "missing-executable" /\ raw # NoCode
             \/ problem \notin {"none", "missing-executable"}
             \/ /\ problem = "none"
                /\ (raw = NoCode /\ ~stopped) \/ (exit # 0 /\ q.signal = 0) IN
  IF nothingToDo /\ ~incomplete THEN [status |-> "NO_TESTS_NEEDED", exit |-> 0]
  ELSE IF SetupFailed(q)
  THEN Outcome(q.setupFacts.raw, q.signal, q.setupFacts.problem, incomplete)
  ELSE Outcome(raw, q.signal, problem, incomplete)

\* Of the codes by attempt the first failing one decides, else the last one.
Decisive(raws) ==
  LET known == {k \in DOMAIN raws : raws[k] # NoCode}
      failing == {k \in known : raws[k] # 0} IN
  IF failing # {} THEN raws[CHOOSE k \in failing : \A j \in failing : k <= j]
  ELSE IF known # {} THEN 0 ELSE NoCode

\* _shadow_outcome and the evidence that follows it: a report is consumed
\* for every attempt with facts, and a pass needs both.
VerdictCompound(q, exit) ==
  LET seen == {k \in 1..Attempts : ~Unreported(q.factsBy[k])}
      raws == [k \in 0..Attempts |-> IF k = 0 THEN q.setupFacts.raw ELSE q.factsBy[k].raw]
      faulty == {k \in seen : q.factsBy[k].problem # "none"}
      problem == IF q.invalid THEN "protocol-mismatch"
                 ELSE IF ProblemOf(q.setupFacts) # "none" THEN q.setupFacts.problem
                 ELSE IF faulty # {}
                 THEN q.factsBy[CHOOSE k \in faulty : \A j \in faulty : k <= j].problem
                 ELSE IF exit # 0 /\ q.signal = 0 THEN "state-unavailable" ELSE "none"
      incomplete == \/ q.reason # "none" \/ problem # "none"
                    \/ ~(q.registered /\ q.draining)
                    \/ seen = {} /\ q.setupFacts.raw = NoCode /\ q.signal = 0
      outcome == Outcome(Decisive(raws), q.signal, IF ProblemOf(q.setupFacts) # "none"
                                         THEN q.setupFacts.problem ELSE problem, incomplete) IN
  IF q.gates = 1 /\ seen = {} /\ q.reason # "none"
  THEN [status |-> "NOT_RUN", exit |-> 2]
  ELSE IF outcome.status = "PASSED" /\ seen # 1..Attempts
  THEN [status |-> "INCOMPLETE", exit |-> 70]
  ELSE outcome

Verdict(q, exit) == IF Attempts = 1 THEN VerdictOne(q, exit) ELSE VerdictCompound(q, exit)

\* begin_finalization: the scheduler proves the group empty (ESRCH) or refuses;
\* a probe it may not make refuses too.
Probes == {child # "running" /\ ~strays} \union (IF "doubt" \in Events THEN {FALSE} ELSE {})

\* _incomplete: the exit code stays, unless it was a clean one.
Uncertain(verdict) ==
  [status |-> "INCOMPLETE", exit |-> IF verdict.exit # 0 THEN verdict.exit ELSE 70]

\* The guard is gone: what is left on the channel is read to its end, and the
\* lease is finished only when the group is proved empty.
OwnerJudges ==
  /\ Watching /\ Ended
  /\ LET q == Drained(o)
         verdict == Verdict(q, IF At("exited") THEN g.exit ELSE -9) IN
     \E absent \in Probes :
       o' = [q EXCEPT !.pc = "judged",
                      !.verdict = IF absent THEN verdict ELSE Uncertain(verdict)]
  /\ up' = <<>>
  /\ UNCHANGED <<g, down, work, expired, dumps>>

-----------------------------------------------------------------------------
(***************************************************************************)
(* The world: signals, deaths, clocks, and what the tests do.              *)
(***************************************************************************)
OwnerSignal ==
  /\ "interrupt" \in Events /\ o.pc = "loop" /\ o.signal = 0
  /\ o' = [o EXCEPT !.signal = 2]
  /\ UNCHANGED <<g, up, down, work, expired, dumps>>

OwnerCrashes ==
  /\ "crash" \in Events /\ o.pc = "loop"
  /\ o' = [o EXCEPT !.pc = "gone"] /\ up' = <<>>
  /\ UNCHANGED <<g, down, work, expired, dumps>>

GuardSignalled ==
  /\ "terminate" \in Events /\ ~Ended /\ ~g.external
  /\ g' = CancelledBy(g, 15)
  /\ UNCHANGED <<o, up, down, work, expired, dumps>>

GuardKilled ==
  /\ "kill" \in Events /\ ~Ended
  /\ g' = Go(g, "killed")
  /\ UNCHANGED <<o, up, down, work, expired, dumps>>

\* A child ends by itself, or by the signal its group was sent.
ChildExits ==
  /\ child = "running"
  /\ \E result \in {0, 1} \union (IF g.graced THEN {-15} ELSE {}) :
       code' = [code EXCEPT ![g.attempt] = result]
  /\ child' = "exited"
  /\ strays' \in {strays} \union (IF "stray" \in Events THEN {TRUE} ELSE {})
  /\ UNCHANGED <<g, o, up, down, expired, started, dumps>>

StraysExit ==
  /\ strays /\ strays' = FALSE
  /\ UNCHANGED <<g, o, up, down, child, code, expired, started, dumps>>

DeadlinePasses ==
  /\ ~expired /\ "expire" \in Events
  /\ expired' = TRUE
  /\ UNCHANGED <<g, o, up, down, work, dumps>>

OwnerSteps == OwnerCancels \/ OwnerDrains \/ OwnerDecides \/ OwnerSends \/ OwnerJudges
World == \/ OwnerSignal \/ OwnerCrashes \/ GuardSignalled \/ GuardKilled
         \/ ChildExits \/ StraysExit \/ DeadlinePasses

Next == GuardSteps \/ OwnerSteps \/ World

Spec == Init /\ [][Next]_vars

\* Both processes run, and time passes.  No test has to end by itself.
Fairness == WF_vars(GuardSteps) /\ WF_vars(OwnerSteps) /\ WF_vars(DeadlinePasses)
FairSpec == Spec /\ Fairness

-----------------------------------------------------------------------------
(***************************************************************************)
(* Properties.                                                             *)
(***************************************************************************)
\* A verdict of PASSED was earned: every declared attempt ran with the
\* controller's leave and exited 0, nobody interrupted, the guard found no
\* problem, and nothing of its group is left, whatever its own scans missed: the
\* probe that finishes the lease says so.  (execute, _outcome, _shadow_outcome,
\* begin_finalization)
PassIsEarned ==
  o.verdict.status = "PASSED" =>
    /\ started = (IF HasSetup THEN 0 ELSE 1)..Attempts
    /\ \A k \in started : code[k] = 0
    /\ o.continued = 1..Attempts
    /\ o.signal = 0 /\ g.problem = "none" /\ g.pc = "exited" /\ g.exit = 0
    /\ child # "running" /\ ~strays

\* No test is executed without the controller's last word on the sources: the
\* guard forks an execution only behind a continue decision, whatever closed
\* its gate.  (await_attempt_decision, _send_attempt_decision)
ExecutionNeedsContinue == started \ {0} \subseteq o.continued

\* The caller's cancellation, the deadline and the stall verdict compete; a run
\* the caller cancelled first is never blamed on a clock.  (_State)
FirstEndWins == g.cancel = 2 => g.problem \notin Timeouts

\* Guard and controller of a single attempt agree on the protocol: a guard that
\* ran to its end and exits 0 is never taken for a broken handoff by a
\* controller that heard all of it.  (_Frames._accept)  With two attempts it may
\* be: _CompoundFrames._accept refuses DRAINING when the first could not start.
CleanGuardIsBelieved ==
  o.pc = "judged" /\ g.pc = "exited" /\ g.exit = 0 => ~o.invalid /\ o.draining

\* Whatever the tests, the caller and the clocks do, the controller
\* reaches a verdict.  (_run_guard)
EveryRunAnswered == <>(o.pc \in {"judged", "gone"})
=============================================================================
