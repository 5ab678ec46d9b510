------------------------- MODULE GuardControlProofs -------------------------
(***************************************************************************)
(* Proofs about one guard and its controller, for any number of attempts,  *)
(* with or without a setup, whatever the world does.                       *)
(*                                                                         *)
(* Sane is about the guard's record alone and survives every frame that is *)
(* read.  Placed says what each point of the guard's way means for the     *)
(* child and its group.  Told is what frames and the controller's records  *)
(* say about attempts that are over, and Settled what a well-ordered       *)
(* handoff implies.  A verdict of PASSED then has to have been earned.     *)
(* Belief is about a single attempt: what a guard that nothing disturbed   *)
(* has sent is, read to any point, the record its controller expects.      *)
(***************************************************************************)
EXTENDS GuardControl, TLAPS, WellFoundedInduction

Codes == {0, 1, -15, NoCode}
Signals == {2, 15}
Cancellations == Signals \union {0}
Points == {"boot", "register", "next", "ask", "gate", "check", "recheck", "fork", "watch", "dump",
           "reap", "collect", "result", "facts", "drain", "mark", "abort", "exited", "killed"}
Goals == {"mark", "collect", "result", "facts", "abort"}
Answers == {"none", "continue", "stop"}
GuardStates ==
  [pc : Points, attempt : 0..Attempts, cancel : Cancellations, problem : Problems,
   closed : BOOLEAN, external : BOOLEAN, spawned : BOOLEAN, dump : BOOLEAN,
   graced : BOOLEAN, after : Goals,
   readable : BOOLEAN, writable : BOOLEAN, gate : 0..Attempts,
   decision : Answers, fault : Problems, exit : Int]

Reports == [raw : Codes, problem : Problems] \union {NoFacts}
Statuses == {"none", "PASSED", "FAILED", "CANCELLED", "INCOMPLETE", "NOT_RUN", "NO_TESTS_NEEDED"}
FrameStates ==
  [pc : {"loop", "gone", "judged"}, signal : Cancellations, cancelled : BOOLEAN,
   cancelSent : BOOLEAN, deciding : BOOLEAN, gates : Nat, continued : SUBSET (1..Attempts),
   invalid : BOOLEAN, registered : BOOLEAN, ready : 0..Attempts, decided : BOOLEAN,
   reason : {"none"} \union StopReasons, setupPhase : BOOLEAN, setupFacts : Reports,
   phase : BOOLEAN, facts : Reports, readies : Nat, phases : SUBSET (1..Attempts),
   factsBy : [1..Attempts -> Reports], draining : BOOLEAN,
   verdict : [status : Statuses, exit : Int]]

Eof == [kind : {"eof"}]
Cancels == [kind : {"cancel"}, signal : Signals]
Decisions == [kind : {"decision"}, attempt : 1..Attempts, action : {"continue", "stop"}]
DownFrames == Cancels \union Decisions
Notices == [kind : {"registered", "draining"}]
Readies == [kind : {"ready"}, attempt : 1..Attempts]
Phases == [kind : {"phase"}, attempt : 0..Attempts]
FactFrames == [kind : {"facts"}, attempt : 0..Attempts, problem : Problems, raw : Codes]
UpFrames == Notices \union Readies \union Phases \union FactFrames

TypeOK ==
  /\ g \in GuardStates /\ o \in FrameStates
  /\ up \in Seq(UpFrames) /\ down \in Seq(DownFrames)
  /\ child \in {"none", "running", "exited"} /\ code \in [0..Attempts -> Codes]
  /\ strays \in BOOLEAN /\ expired \in BOOLEAN /\ started \subseteq 0..Attempts /\ dumps \in Nat

-----------------------------------------------------------------------------
\* A cancelled guard is closed, a problem cancels, and a clock never blames a
\* run that the caller had cancelled.  An open gate is the current attempt's,
\* and only the controller decides to continue.
Allowed(k) == IF k = 0 THEN HasSetup ELSE k \in o.continued
Sane(s) ==
  /\ s.cancel # 0 => s.closed
  /\ s.problem # "none" => s.cancel # 0
  /\ s.problem # "missing-executable"
  /\ s.problem \in Timeouts => s.cancel # 2
  /\ s.gate \in {0, s.attempt}
  /\ s.decision = "continue" => s.attempt \in o.continued
  /\ s.pc = "gate" => s.attempt # 0

\* A decision on its way is one the controller has made.
Decided(f) == f.kind = "decision" /\ f.action = "continue" => f.attempt \in o.continued

\* What a point of the guard's way means for child and group.
Idle == {"boot", "register", "next", "ask", "gate", "check", "recheck", "fork", "facts", "drain", "mark", "abort"}
Placed ==
  /\ g.pc \in {"boot", "register"} => g.attempt = 0 /\ ~g.spawned
  /\ g.pc = "ask" => g.cancel # 2 /\ Prepared(g.attempt + 1)
  /\ g.pc \in {"check", "recheck", "fork"} => Allowed(g.attempt)
  /\ g.pc \in Idle => child = "none"
  /\ g.pc = "reap" /\ g.after \in {"mark", "facts", "abort"} => child = "none"
  /\ g.pc \in {"collect", "result"} \/ (g.pc = "reap" /\ g.after = "result") => child = "exited"
  /\ g.pc \in {"watch", "dump"} \/ (g.pc = "reap" /\ g.after = "collect") => child # "none"
  /\ child # "none" \/ strays => g.spawned

\* Exit codes belong to attempts that were started with leave, one after the
\* other, and an attempt without an executable has none.
Coded ==
  /\ child = "running" => g.attempt \in started
  /\ child = "exited" => code[g.attempt] # NoCode
  /\ g.pc = "facts" /\ g.fault = "none" => code[g.attempt] # NoCode
  /\ g.pc = "reap" /\ g.after = "facts" => g.fault \notin {"none", "missing-executable"}
  /\ \A k \in 0..Attempts : code[k] # NoCode => k \in started
  /\ \A k \in started : Allowed(k)
  /\ \A k \in started : k <= g.attempt
  /\ g.pc \in {"boot", "register", "gate", "check", "recheck", "fork"} => g.attempt \notin started
  /\ g.pc = "facts" /\ g.fault = "missing-executable" => code[g.attempt] = NoCode

\* A guard that says it drains, or exits 0, left no child behind.
Over == g.pc = "exited" /\ child = "none"
Sent == o.draining \/ \E i \in DOMAIN up : up[i].kind = "draining"
Quieted ==
  /\ Sent => Over
  /\ g.pc = "exited" /\ g.exit = 0 => g.problem = "none" /\ g.cancel = 0 /\ Over

-----------------------------------------------------------------------------
\* The attempt is over: no child of it will ever exit.
Past == {"next", "ask", "drain", "mark", "abort", "exited", "killed"}
Done(k) ==
  \/ k < g.attempt
  \/ /\ k = g.attempt /\ child # "running"
     /\ g.pc \in Past \/ (g.pc = "reap" /\ g.after \in {"mark", "abort"})
\* What is said of an attempt without a problem is how its child exited.
Told(k, facts) ==
  /\ facts.problem = "none" => facts.raw = code[k] /\ facts.raw # NoCode /\ Done(k)
  /\ facts.problem = "missing-executable" => facts.raw = NoCode
TruthOnWire == \A i \in DOMAIN up : up[i].kind = "facts" => Told(up[i].attempt, up[i])
Truthful(q) ==
  /\ Told(0, q.setupFacts)
  /\ Attempts = 1 => Told(1, q.facts)
  /\ \A k \in 1..Attempts : Told(k, q.factsBy[k])

\* Nothing is accepted of an attempt before its gate, and no gate before the
\* setup has passed.
Settled(q) ==
  /\ q.ready # 0 \/ q.phase \/ q.phases # {} \/ ~Unreported(q.facts)
       \/ (\E k \in 1..Attempts : ~Unreported(q.factsBy[k])) => q.readies > 0
  /\ q.readies > 0 /\ HasSetup => ~Unreported(q.setupFacts) /\ SetupPassed(q)
  /\ q.deciding => q.ready # 0

Earned == o.verdict.status = "PASSED" => o.pc = "judged" /\ g.pc = "exited" /\ PassIsEarned

Control == TypeOK /\ Sane(g) /\ \A i \in DOMAIN down : Decided(down[i])
Work == Placed /\ Coded /\ Quieted
Records == TruthOnWire /\ Truthful(o) /\ Settled(o)
IInv == Control /\ Work /\ Records /\ Earned

-----------------------------------------------------------------------------
(***************************************************************************)
(* Numbers, and folds over the frames of a channel.                        *)
(***************************************************************************)
\* A set of numbers that is not empty has a least one.
LEMMA LeastNat == ASSUME NEW S \in SUBSET Nat, S # {} PROVE \E n \in S : \A m \in S : n <= m
<1> DEFINE Less == OpToRel(<, Nat)
<1>1. IsWellFoundedOn(Less, Nat)
  BY NatLessThanWellFounded
<1>2. \A x, y \in Nat : <<y, x>> \in Less <=> y < x
  BY DEF OpToRel
<1> HIDE DEF Less
<1>3. PICK n \in S : \A y \in S : ~ (<<y, n>> \in Less)
  BY <1>1, WFMin
<1>4. ASSUME NEW m \in S PROVE n <= m
  <2>1. m \in Nat /\ n \in Nat /\ ~ (<<m, n>> \in Less)
    BY <1>3
  <2>2. ~ (m < n)
    BY <1>2, <2>1
  <2> QED
    BY <2>1, <2>2
<1> QED
  BY <1>4

\* Induction, over a set of numbers.
LEMMA Induct == ASSUME NEW S \in SUBSET Nat, 0 \in S, \A n \in S : n + 1 \in S PROVE S = Nat
<1> SUFFICES ASSUME Nat \ S # {} PROVE FALSE
  OBVIOUS
<1>1. PICK n \in Nat \ S : \A m \in Nat \ S : n <= m
  BY LeastNat
<1>2. n # 0 /\ n - 1 \in Nat
  BY <1>1
<1>3. n - 1 \in S
  BY <1>1, <1>2
<1>4. (n - 1) + 1 \in S
  BY <1>3
<1> QED
  BY <1>1, <1>4

\* The value of a fold after i frames, by its value before the last of them.
Folding(s, F, a, i) == IF i = 0 THEN s ELSE F[i][a[i - 1]]

\* A fold with the steps F exists and stays where its steps stay.
LEMMA FoldExists ==
  ASSUME NEW S, NEW s \in S, NEW n \in Nat, NEW F \in [1..n -> [S -> S]]
  PROVE  \E a \in [0..n -> S] : \A i \in 0..n : a[i] = Folding(s, F, a, i)
<1> USE DEF Folding
<1> DEFINE Is(a, m) == a \in [0..m -> S] /\ \A i \in 0..m : a[i] = Folding(s, F, a, i)
           M == {m \in Nat : m <= n => \E a \in [0..m -> S] : Is(a, m)}
<1>1. 0 \in M
  <2> DEFINE a == [i \in 0..0 |-> s]
  <2>1. a \in [0..0 -> S] /\ Is(a, 0)
    OBVIOUS
  <2> QED
    BY <2>1
<1>2. ASSUME NEW m \in M PROVE m + 1 \in M
  <2> SUFFICES ASSUME m + 1 <= n PROVE \E a \in [0..(m + 1) -> S] : Is(a, m + 1)
    OBVIOUS
  <2>1. PICK b \in [0..m -> S] : Is(b, m)
    OBVIOUS
  <2> DEFINE a == [i \in 0..(m + 1) |-> IF i = m + 1 THEN F[m + 1][b[m]] ELSE b[i]]
  <2>2. b[m] \in S /\ m + 1 \in 1..n /\ F[m + 1][b[m]] \in S
    OBVIOUS
  <2>3. a \in [0..(m + 1) -> S]
    BY <2>2
  <2>4. ASSUME NEW i \in 0..(m + 1) PROVE a[i] = Folding(s, F, a, i)
    <3>1. CASE i = m + 1
      <4>1. i # 0 /\ i - 1 = m /\ m \in 0..(m + 1) /\ m # m + 1
        BY <3>1
      <4> QED
        BY <3>1, <4>1
    <3>2. CASE i # m + 1
      <4>1. i \in 0..m /\ (i # 0 => i - 1 \in 0..m /\ i - 1 # m + 1 /\ i - 1 \in 0..(m + 1))
        BY <3>2
      <4> QED
        BY <2>1, <3>2, <4>1
    <3> QED
      BY <3>1, <3>2
  <2> QED
    BY <2>3, <2>4
<1>3. M = Nat
  <2> HIDE DEF M
  <2>1. M \in SUBSET Nat
    BY DEF M
  <2> QED
    BY <1>1, <1>2, <2>1, Induct
<1>4. PICK a \in [0..n -> S] : Is(a, n)
  <2>1. n \in M
    BY <1>3
  <2> QED
    BY <2>1
<1> QED
  BY <1>4

\* What starts at the foot of a ladder and climbs rung by rung is on every rung.
LEMMA Climb ==
  ASSUME NEW n \in Nat, NEW T, NEW a, a[0] \in T[0],
         \A i \in 1..n : a[i - 1] \in T[i - 1] => a[i] \in T[i]
  PROVE  \A i \in 0..n : a[i] \in T[i]
<1> DEFINE M == {m \in Nat : m <= n => a[m] \in T[m]}
<1>1. 0 \in M
  OBVIOUS
<1>2. ASSUME NEW m \in M PROVE m + 1 \in M
  <2> SUFFICES ASSUME m + 1 <= n PROVE a[m + 1] \in T[m + 1]
    OBVIOUS
  <2>1. m + 1 \in 1..n /\ (m + 1) - 1 = m /\ a[m] \in T[m]
    OBVIOUS
  <2> QED
    BY <2>1
<1>3. M = Nat
  <2> HIDE DEF M
  <2>1. M \in SUBSET Nat
    BY DEF M
  <2> QED
    BY <1>1, <1>2, <2>1, Induct
<1> QED
  BY <1>3

\* A poll ends where the frames that have arrived take the guard, one by one.
LEMMA PolledClimbs ==
  ASSUME NEW n \in Nat, Len(Arrived) = n, NEW T, NEW s \in T[0],
         \A i \in 1..n : \A t \in T[i - 1] : Parsed(t, Arrived[i]) \in T[i]
  PROVE  Polled(s) \in T[n]
<1> DEFINE S == UNION {T[i] : i \in 0..n}
           F == [i \in 1..n |-> [t \in S |-> IF Parsed(t, Arrived[i]) \in S THEN Parsed(t, Arrived[i]) ELSE t]]
           Step(a) == [i \in 0..n |-> IF i = 0 THEN s ELSE Parsed(a[i - 1], Arrived[i])]
           after == CHOOSE a : a = Step(a)
<1>1. s \in S /\ F \in [1..n -> [S -> S]]
  OBVIOUS
<1>2. PICK a \in [0..n -> S] : \A i \in 0..n : a[i] = Folding(s, F, a, i)
  <2> HIDE DEF F, S
  <2> QED
    BY <1>1, FoldExists
<1>3. ASSUME NEW i \in 1..n, a[i - 1] \in T[i - 1] PROVE a[i] = Parsed(a[i - 1], Arrived[i]) /\ a[i] \in T[i]
  <2>1. Parsed(a[i - 1], Arrived[i]) \in T[i] /\ i - 1 \in 0..n /\ i \in 0..n /\ i # 0
    <3> HIDE DEF F, S, after
    <3> QED
      BY <1>3
  <2>2. a[i - 1] \in S /\ Parsed(a[i - 1], Arrived[i]) \in S
    BY <1>3, <2>1
  <2>3. F[i][a[i - 1]] = Parsed(a[i - 1], Arrived[i])
    BY <2>2
  <2>4. a[i] = F[i][a[i - 1]]
    <3> HIDE DEF F, S
    <3> QED
      BY <1>2, <2>1 DEF Folding
  <2> QED
    BY <2>1, <2>3, <2>4
<1>4. a[0] = s
  <2> HIDE DEF F, S
  <2> QED
    BY <1>2 DEF Folding
<1>5. \A i \in 0..n : a[i] \in T[i]
  <2> HIDE DEF F, S
  <2> QED
    BY <1>3, <1>4, Climb
<1>6. a = Step(a)
  <2>1. ASSUME NEW i \in 0..n PROVE a[i] = IF i = 0 THEN s ELSE Parsed(a[i - 1], Arrived[i])
    <3>1. CASE i = 0
      BY <1>4, <3>1
    <3>2. CASE i # 0
      <4>1. i \in 1..n /\ i - 1 \in 0..n
        BY <3>2
      <4> QED
        BY <1>3, <1>5, <3>2, <4>1
    <3> QED
      BY <3>1, <3>2
  <2> HIDE DEF F, S
  <2> QED
    BY <1>2, <2>1
<1>7. after = Step(after)
  BY <1>6
<1>8. Polled(s) = after[n]
  BY DEF Polled
<1> HIDE DEF after, F, S
<1>9. after[0] = s /\ \A i \in 1..n : after[i] = Parsed(after[i - 1], Arrived[i])
  <2>1. ASSUME NEW i \in 1..n PROVE i \in 0..n /\ i # 0
    BY <2>1
  <2> QED
    BY <1>7, <2>1
<1>10. \A i \in 0..n : after[i] \in T[i]
  <2>1. after[0] \in T[0]
    BY <1>9
  <2>2. ASSUME NEW i \in 1..n, after[i - 1] \in T[i - 1] PROVE after[i] \in T[i]
    BY <1>9, <2>2
  <2> QED
    BY <2>1, <2>2, Climb
<1>11. n \in 0..n
  OBVIOUS
<1> HIDE DEF Step
<1> QED
  BY <1>8, <1>10, <1>11

\* It ends where each of them keeps the guard.
LEMMA PolledStays ==
  ASSUME NEW n \in Nat, Len(Arrived) = n, NEW S, NEW s \in S,
         \A t \in S : \A i \in 1..n : Parsed(t, Arrived[i]) \in S
  PROVE  Polled(s) \in S
<1> DEFINE T == [i \in 0..n |-> S]
<1>1. s \in T[0]
  OBVIOUS
<1>2. ASSUME NEW i \in 1..n, NEW t \in T[i - 1] PROVE Parsed(t, Arrived[i]) \in T[i]
  <2>1. i - 1 \in 0..n /\ i \in 0..n
    BY <1>2
  <2> QED
    BY <1>2, <2>1
<1>3. T[n] = S
  OBVIOUS
<1> HIDE DEF T
<1> QED
  BY <1>1, <1>2, <1>3, PolledClimbs

\* So it is with what the controller receives.
LEMMA ReceivedClimbs ==
  ASSUME NEW frames, NEW n \in Nat, Len(frames) = n, NEW T, NEW s \in T[0],
         \A i \in 1..n : \A t \in T[i - 1] : Received(t, frames[i]) \in T[i]
  PROVE  ReceivedAll(s, frames) \in T[n]
<1> DEFINE S == UNION {T[i] : i \in 0..n}
           F == [i \in 1..n |-> [t \in S |-> IF Received(t, frames[i]) \in S THEN Received(t, frames[i]) ELSE t]]
           Step(a) == [i \in 0..n |-> IF i = 0 THEN s ELSE Received(a[i - 1], frames[i])]
           after == CHOOSE a : a = Step(a)
<1>1. s \in S /\ F \in [1..n -> [S -> S]]
  OBVIOUS
<1>2. PICK a \in [0..n -> S] : \A i \in 0..n : a[i] = Folding(s, F, a, i)
  <2> HIDE DEF F, S
  <2> QED
    BY <1>1, FoldExists
<1>3. ASSUME NEW i \in 1..n, a[i - 1] \in T[i - 1] PROVE a[i] = Received(a[i - 1], frames[i]) /\ a[i] \in T[i]
  <2>1. Received(a[i - 1], frames[i]) \in T[i] /\ i - 1 \in 0..n /\ i \in 0..n /\ i # 0
    <3> HIDE DEF F, S, after
    <3> QED
      BY <1>3
  <2>2. a[i - 1] \in S /\ Received(a[i - 1], frames[i]) \in S
    BY <1>3, <2>1
  <2>3. F[i][a[i - 1]] = Received(a[i - 1], frames[i])
    BY <2>2
  <2>4. a[i] = F[i][a[i - 1]]
    <3> HIDE DEF F, S
    <3> QED
      BY <1>2, <2>1 DEF Folding
  <2> QED
    BY <2>1, <2>3, <2>4
<1>4. a[0] = s
  <2> HIDE DEF F, S
  <2> QED
    BY <1>2 DEF Folding
<1>5. \A i \in 0..n : a[i] \in T[i]
  <2> HIDE DEF F, S
  <2> QED
    BY <1>3, <1>4, Climb
<1>6. a = Step(a)
  <2>1. ASSUME NEW i \in 0..n PROVE a[i] = IF i = 0 THEN s ELSE Received(a[i - 1], frames[i])
    <3>1. CASE i = 0
      BY <1>4, <3>1
    <3>2. CASE i # 0
      <4>1. i \in 1..n /\ i - 1 \in 0..n
        BY <3>2
      <4> QED
        BY <1>3, <1>5, <3>2, <4>1
    <3> QED
      BY <3>1, <3>2
  <2> HIDE DEF F, S
  <2> QED
    BY <1>2, <2>1
<1>7. after = Step(after)
  BY <1>6
<1>8. ReceivedAll(s, frames) = after[n]
  BY DEF ReceivedAll
<1> HIDE DEF after, F, S
<1>9. after[0] = s /\ \A i \in 1..n : after[i] = Received(after[i - 1], frames[i])
  <2>1. ASSUME NEW i \in 1..n PROVE i \in 0..n /\ i # 0
    BY <2>1
  <2> QED
    BY <1>7, <2>1
<1>10. \A i \in 0..n : after[i] \in T[i]
  <2>1. after[0] \in T[0]
    BY <1>9
  <2>2. ASSUME NEW i \in 1..n, after[i - 1] \in T[i - 1] PROVE after[i] \in T[i]
    BY <1>9, <2>2
  <2> QED
    BY <2>1, <2>2, Climb
<1>11. n \in 0..n
  OBVIOUS
<1> HIDE DEF Step
<1> QED
  BY <1>8, <1>10, <1>11

\* It ends where each frame keeps the record.
LEMMA ReceivedStays ==
  ASSUME NEW frames, NEW n \in Nat, Len(frames) = n, NEW S, NEW s \in S,
         \A t \in S : \A i \in 1..n : Received(t, frames[i]) \in S
  PROVE  ReceivedAll(s, frames) \in S
<1> DEFINE T == [i \in 0..n |-> S]
<1>1. s \in T[0]
  OBVIOUS
<1>2. ASSUME NEW i \in 1..n, NEW t \in T[i - 1] PROVE Received(t, frames[i]) \in T[i]
  <2>1. i - 1 \in 0..n /\ i \in 0..n
    BY <1>2
  <2> QED
    BY <1>2, <2>1
<1>3. T[n] = S
  OBVIOUS
<1> HIDE DEF T
<1> QED
  BY <1>1, <1>2, <1>3, ReceivedClimbs

-----------------------------------------------------------------------------
(***************************************************************************)
(* What frames, signals and clocks leave of the guard's record.            *)
(***************************************************************************)
\* The guard has not moved, and what was stopped stays stopped.
Same(s, t) ==
  /\ t.pc = s.pc /\ t.attempt = s.attempt /\ t.after = s.after /\ t.fault = s.fault
  /\ t.spawned = s.spawned /\ t.exit = s.exit
  /\ s.cancel # 0 => t.cancel # 0
  /\ s.closed => t.closed
Stays(s, t) == t \in GuardStates /\ Sane(t) /\ Same(s, t)

\* A cancellation, a problem and a lost peer keep a sane guard sane.
LEMMA CancelKeeps ==
  ASSUME NEW s \in GuardStates, Sane(s), NEW signal \in Signals
  PROVE  Stays(s, CancelledBy(s, signal)) /\ CancelledBy(s, signal).cancel # 0
<1> PICK c \in Signals : c = IF s.cancel = 0 THEN signal ELSE s.cancel
  BY DEF GuardStates, Cancellations
<1> DEFINE t == [s EXCEPT !.cancel = c, !.closed = TRUE, !.external = TRUE]
<1>1. CancelledBy(s, signal) = t
  BY DEF CancelledBy
<1>2. t \in GuardStates
  <2>1. c \in Cancellations
    BY DEF Cancellations
  <2> QED
    BY <2>1 DEF GuardStates
<1>3. /\ t.pc = s.pc /\ t.attempt = s.attempt /\ t.after = s.after /\ t.fault = s.fault
      /\ t.spawned = s.spawned /\ t.exit = s.exit /\ t.gate = s.gate /\ t.decision = s.decision
      /\ t.problem = s.problem /\ t.cancel = c /\ t.closed
  BY DEF GuardStates
<1>4. c # 0 /\ (s.cancel # 0 => c = s.cancel)
  BY DEF Signals
<1> HIDE DEF t
<1>5. Sane(t) /\ Same(s, t)
  BY <1>3, <1>4 DEF Sane, Same, Timeouts
<1> QED
  BY <1>1, <1>2, <1>3, <1>4, <1>5 DEF Stays

LEMMA FailureTyped ==
  ASSUME NEW s \in GuardStates, NEW p \in Problems, NEW d \in BOOLEAN, NEW c \in Cancellations
  PROVE  [s EXCEPT !.problem = p, !.dump = d, !.cancel = c, !.closed = TRUE] \in GuardStates
BY DEF GuardStates

LEMMA FailureKeeps ==
  ASSUME NEW s \in GuardStates, Sane(s), NEW problem \in Problems \ {"none", "missing-executable"}, NEW dump \in BOOLEAN,
         problem \in Timeouts => s.cancel # 2
  PROVE  Stays(s, Failed(s, problem, dump)) /\ Failed(s, problem, dump).cancel # 0
<1> PICK d \in BOOLEAN : d = (s.dump \/ (dump /\ s.problem = "none" /\ s.cancel = 0))
  BY DEF GuardStates
<1> PICK c \in Signals : c = IF s.cancel = 0 THEN 15 ELSE s.cancel
  BY DEF GuardStates, Signals, Cancellations
<1> PICK p \in Problems : p = IF s.problem = "none" THEN problem ELSE s.problem
  BY DEF GuardStates
<1> DEFINE t == [s EXCEPT !.problem = p, !.dump = d, !.cancel = c, !.closed = TRUE]
<1>1. Failed(s, problem, dump) = t
  BY DEF Failed
<1>2. t \in GuardStates
  <2>1. c \in Cancellations
    BY DEF Cancellations
  <2> QED
    BY <2>1, FailureTyped
<1>3. /\ t.pc = s.pc /\ t.attempt = s.attempt /\ t.after = s.after /\ t.fault = s.fault
      /\ t.spawned = s.spawned /\ t.exit = s.exit /\ t.gate = s.gate /\ t.decision = s.decision
      /\ t.problem = p /\ t.cancel = c /\ t.closed
  BY DEF GuardStates
<1>4. c # 0 /\ p # "none" /\ p # "missing-executable" /\ (p \in Timeouts => c # 2)
  BY DEF Signals, Sane
<1> HIDE DEF t
<1>5. Sane(t) /\ Same(s, t)
  BY <1>3, <1>4 DEF Sane, Same, Timeouts
<1> QED
  BY <1>1, <1>2, <1>3, <1>4, <1>5 DEF Stays

LEMMA LossKeeps ==
  ASSUME NEW s \in GuardStates, Sane(s) PROVE Stays(s, Disconnected(s))
BY DEF Disconnected, Stays, Same, Sane, GuardStates, Signals, Timeouts

LEMMA FrameKeeps ==
  ASSUME AttemptsMakeSense, NEW s \in GuardStates, Sane(s), NEW f \in DownFrames \union Eof, Decided(f)
  PROVE  Stays(s, Parsed(s, f))
<1>1. CASE ~s.readable
  BY <1>1 DEF Parsed, Stays, Same
<1>2. CASE s.readable /\ f \in Cancels
  BY <1>2, CancelKeeps DEF Parsed, Cancels
<1>3. CASE s.readable /\ f \in Eof
  BY <1>3, LossKeeps DEF Parsed, Eof
<1>4. CASE s.readable /\ f \in Decisions
  <2>1. CASE MatchesGate(s, f)
    <3>1. f.kind = "decision" /\ f.action \in {"continue", "stop"} /\ f.attempt = s.gate /\ s.gate # 0
      BY <1>4, <2>1 DEF Decisions, MatchesGate
    <3>2. Parsed(s, f) = [s EXCEPT !.gate = 0, !.decision = f.action]
      BY <1>4, <2>1, <3>1 DEF Parsed
    <3>3. f.action = "continue" => s.attempt \in o.continued
      BY <3>1 DEF Decided, Sane
    <3> PICK action \in {"continue", "stop"} : action = f.action
      BY <3>1
    <3> DEFINE t == [s EXCEPT !.gate = 0, !.decision = action]
    <3>4. t \in GuardStates
      <4>1. 0 \in 0..Attempts /\ action \in Answers
        BY DEF AttemptsMakeSense, Answers
      <4> QED
        BY <4>1 DEF GuardStates
    <3>5. /\ t.pc = s.pc /\ t.attempt = s.attempt /\ t.after = s.after /\ t.fault = s.fault
          /\ t.spawned = s.spawned /\ t.exit = s.exit /\ t.gate = 0 /\ t.decision = action
          /\ t.problem = s.problem /\ t.cancel = s.cancel /\ t.closed = s.closed
      BY DEF GuardStates
    <3> HIDE DEF t
    <3>6. Sane(t) /\ Same(s, t)
      BY <3>3, <3>5 DEF Sane, Same
    <3> QED
      BY <3>2, <3>4, <3>6 DEF Stays, t
  <2>2. CASE ~MatchesGate(s, f)
    <3> DEFINE t == [s EXCEPT !.readable = FALSE]
    <3>1. t \in GuardStates /\ Sane(t) /\ Same(s, t)
      BY DEF GuardStates, Sane, Same
    <3>2. Stays(t, Failed(t, "protocol-mismatch", FALSE))
      BY <3>1, FailureKeeps DEF Problems, Timeouts
    <3>3. Parsed(s, f) = Failed(t, "protocol-mismatch", FALSE)
      BY <1>4, <2>2 DEF Parsed, Decisions
    <3> HIDE DEF t
    <3> QED
      BY <3>1, <3>2, <3>3 DEF Stays, Same
  <2> QED
    BY <2>1, <2>2
<1> QED
  BY <1>1, <1>2, <1>3, <1>4 DEF DownFrames

\* What has arrived is frames of the controller, and its end.
LEMMA ArrivedFrames ==
  ASSUME AttemptsMakeSense, Control
  PROVE  /\ Len(Arrived) \in Nat
         /\ \A i \in 1..Len(Arrived) : Arrived[i] \in DownFrames \union Eof /\ Decided(Arrived[i])
<1> DEFINE tail == IF o.pc = "gone" THEN <<[kind |-> "eof"]>> ELSE <<>>
<1>1. tail \in Seq(Eof) /\ Len(tail) \in Nat
  <2>1. CASE o.pc = "gone"
    BY <2>1 DEF Eof
  <2>2. CASE o.pc # "gone"
    BY <2>2
  <2> QED
    BY <2>1, <2>2
<1>2. \A i \in 1..Len(tail) : tail[i] \in Eof /\ Decided(tail[i])
  <2> HIDE DEF tail
  <2>1. \A f \in Eof : Decided(f)
    BY DEF Eof, Decided
  <2> QED
    BY <1>1, <2>1
<1>3. down \in Seq(DownFrames) /\ \A i \in DOMAIN down : Decided(down[i])
  BY DEF Control, TypeOK
<1>4. Arrived = down \o tail
  BY DEF Arrived
<1> HIDE DEF tail
<1>5. Len(Arrived) = Len(down) + Len(tail) /\ DOMAIN down = 1..Len(down) /\ Len(down) \in Nat
  BY <1>1, <1>3, <1>4
<1>6. ASSUME NEW i \in 1..Len(Arrived) PROVE Arrived[i] \in DownFrames \union Eof /\ Decided(Arrived[i])
  <2>1. CASE i <= Len(down)
    <3>1. Arrived[i] = down[i] /\ i \in DOMAIN down
      BY <1>1, <1>3, <1>4, <1>5, <2>1
    <3> QED
      BY <1>3, <3>1
  <2>2. CASE i > Len(down)
    <3>1. Arrived[i] = tail[i - Len(down)] /\ i - Len(down) \in 1..Len(tail)
      BY <1>1, <1>3, <1>4, <1>5, <2>2
    <3> QED
      BY <1>2, <3>1
  <2> QED
    BY <1>1, <1>5, <2>1, <2>2
<1> QED
  BY <1>1, <1>5, <1>6

\* A poll leaves the guard where it is, and as sane as it was.
LEMMA Heard ==
  ASSUME AttemptsMakeSense, Control, NEW s \in GuardStates, Sane(s) PROVE Stays(s, Polled(s))
<1> DEFINE S == {t \in GuardStates : Stays(s, t)}
<1>1. s \in S
  BY DEF Stays, Same
<1>2. ASSUME NEW t \in S, NEW i \in 1..Len(Arrived) PROVE Parsed(t, Arrived[i]) \in S
  <2>1. Stays(t, Parsed(t, Arrived[i]))
    BY <1>2, ArrivedFrames, FrameKeeps DEF Stays
  <2> QED
    BY <2>1 DEF Stays, Same
<1> HIDE DEF S
<1>3. Polled(s) \in S
  BY <1>1, <1>2, ArrivedFrames, PolledStays
<1> QED
  BY <1>3 DEF S

\* So does looking at the deadline, too.
LEMMA Looked ==
  ASSUME AttemptsMakeSense, Control, NEW s \in GuardStates, Sane(s) PROVE Stays(s, Readied(s))
<1>1. Stays(s, Polled(s))
  BY Heard
<1> PICK p \in GuardStates : p = Polled(s)
  BY <1>1 DEF Stays
<1>2. CASE expired /\ ~p.closed
  <2>1. p.cancel = 0
    BY <1>1, <1>2 DEF Stays, Sane
  <2>2. Stays(p, Failed(p, "execution-timeout", FALSE))
    <3>1. Sane(p) /\ "execution-timeout" \in Problems \ {"none", "missing-executable"} /\ p.cancel # 2
      BY <1>1, <2>1 DEF Stays, Problems, Timeouts
    <3> QED
      BY <3>1, FailureKeeps
  <2> QED
    BY <1>1, <1>2, <2>2 DEF Readied, Stays, Same
<1>3. CASE ~ (expired /\ ~p.closed)
  BY <1>1, <1>3 DEF Readied
<1> QED
  BY <1>2, <1>3

\* Sending a frame may show that the peer is gone, which changes nothing else.
LEMMA SendKeeps ==
  ASSUME NEW s \in GuardStates, Sane(s), NEW f, Emitting(s, f)
  PROVE  /\ Stays(s, g') /\ g'.problem = s.problem /\ g'.cancel = s.cancel
         /\ g'.gate = s.gate /\ g'.decision = s.decision
         /\ up' \in {up, Append(up, f)}
<1>1. CASE s.writable /\ o.pc # "gone"
  BY <1>1 DEF Emitting, Stays, Same
<1>2. CASE ~ (s.writable /\ o.pc # "gone")
  <2>1. g' \in {s, Disconnected(s)} /\ up' = up
    BY <1>2 DEF Emitting
  <2>2. Stays(s, Disconnected(s)) /\ Stays(s, s)
    BY LossKeeps DEF Stays, Same
  <2>3. LET d == Disconnected(s) IN
        d.problem = s.problem /\ d.cancel = s.cancel /\ d.gate = s.gate /\ d.decision = s.decision
    BY DEF Disconnected, GuardStates
  <2> QED
    BY <2>1, <2>2, <2>3
<1> QED
  BY <1>1, <1>2

\* Moving on changes only where the guard is.
Rest(s, t) ==
  /\ t.attempt = s.attempt /\ t.after = s.after /\ t.fault = s.fault
  /\ t.spawned = s.spawned /\ t.cancel = s.cancel /\ t.closed = s.closed
  /\ t.problem = s.problem /\ t.gate = s.gate /\ t.decision = s.decision
LEMMA GoKeeps ==
  ASSUME NEW s \in GuardStates, Sane(s), NEW pc \in Points \ {"gate"}
  PROVE  Go(s, pc) \in GuardStates /\ Sane(Go(s, pc)) /\ Go(s, pc).pc = pc /\ Rest(s, Go(s, pc))
         /\ Go(s, pc).exit = s.exit
<1> DEFINE t == [s EXCEPT !.pc = pc]
<1>1. t \in GuardStates
  BY DEF GuardStates
<1>2. t.pc = pc /\ Rest(s, t) /\ t.exit = s.exit
  BY DEF GuardStates, Rest
<1> HIDE DEF t
<1>3. Sane(t)
  BY <1>2 DEF Sane, Rest
<1> QED
  BY <1>1, <1>2, <1>3 DEF Go, t

LEMMA ExitKeeps ==
  ASSUME NEW s \in GuardStates, Sane(s), NEW exit \in Int
  PROVE  /\ Exit(s, exit) \in GuardStates /\ Sane(Exit(s, exit))
         /\ Exit(s, exit).pc = "exited" /\ Exit(s, exit).exit = exit /\ Rest(s, Exit(s, exit))
<1> DEFINE t == [s EXCEPT !.pc = "exited", !.exit = exit]
<1>1. t \in GuardStates
  BY DEF GuardStates, Points
<1>2. t.pc = "exited" /\ Rest(s, t) /\ t.exit = exit
  BY DEF GuardStates, Rest
<1> HIDE DEF t
<1>3. Sane(t)
  BY <1>2 DEF Sane, Rest
<1> QED
  BY <1>1, <1>2, <1>3 DEF Exit, t

\* A reap keeps what was found, and is itself a cancellation.
LEMMA ReapKeeps ==
  ASSUME NEW s \in GuardStates, Sane(s), NEW after \in Goals
  PROVE  LET t == Reaping(s, after) IN
         /\ t \in GuardStates /\ Sane(t) /\ t.pc = "reap" /\ t.after = after
         /\ t.attempt = s.attempt /\ t.fault = s.fault /\ t.spawned = s.spawned
         /\ s.cancel # 0 => t.cancel # 0
<1> PICK u \in GuardStates : u = IF s.graced THEN s ELSE CancelledBy(s, 15)
  BY CancelKeeps DEF Signals, Stays
<1>1. Stays(s, u)
  BY CancelKeeps DEF Signals, Stays, Same
<1> DEFINE t == [u EXCEPT !.pc = "reap", !.after = after, !.graced = TRUE]
<1>2. Reaping(s, after) = t
  BY DEF Reaping
<1>3. t \in GuardStates
  BY ZenonT(30) DEF GuardStates, Points
<1>4. /\ t.pc = "reap" /\ t.after = after /\ t.attempt = u.attempt /\ t.fault = u.fault
      /\ t.spawned = u.spawned /\ t.cancel = u.cancel /\ t.closed = u.closed
      /\ t.problem = u.problem /\ t.gate = u.gate /\ t.decision = u.decision
  BY DEF GuardStates
<1> HIDE DEF t
<1>5. Sane(t)
  BY <1>1, <1>4 DEF Stays, Sane
<1> QED
  BY <1>1, <1>2, <1>3, <1>4, <1>5 DEF Stays, Same

-----------------------------------------------------------------------------
(***************************************************************************)
(* The steps of the guard.                                                 *)
(***************************************************************************)
\* What each of them has to show: the guard stays sane, child and group are as
\* its new place says, and attempts that are over stay over.
Onward == \A k \in 0..Attempts : Done(k) => Done(k)'
Truly == \E f \in UpFrames : up' \in {up, Append(up, f)} /\ (f.kind = "facts" => Told(f.attempt, f)')
Proper == g' \in GuardStates /\ Sane(g)' /\ Work' /\ Onward /\ Truly

\* Silence is true.
LEMMA SilenceIsTrue == ASSUME UNCHANGED up PROVE Truly
<1> DEFINE f == [kind |-> "registered"]
<1>1. f \in UpFrames /\ f.kind # "facts"
  BY DEF UpFrames, Notices
<1> HIDE DEF f
<1> QED
  BY <1>1 DEF Truly

\* A frame that is not DRAINING makes nobody believe the guard drains.
LEMMA SentStays ==
  ASSUME TypeOK, NEW f \in UpFrames, f.kind # "draining", up' \in {up, Append(up, f)}, o' = o, Sent'
  PROVE  Sent
<1>1. CASE o.draining
  BY <1>1 DEF Sent
<1>2. CASE ~o.draining
  <2>1. PICK i \in DOMAIN up' : up'[i].kind = "draining"
    BY <1>2 DEF Sent
  <2>2. i \in DOMAIN up /\ up'[i] = up[i]
    BY <2>1 DEF TypeOK
  <2> QED
    BY <2>1, <2>2 DEF Sent
<1> QED
  BY <1>1, <1>2

LEMMA BootKeeps == ASSUME AttemptsMakeSense, IInv, Boot PROVE Proper
<1> PICK s \in GuardStates : s = Polled(g) /\ Stays(g, s)
  BY Heard DEF IInv, Control, TypeOK, Stays
<1>1. /\ g.pc = "boot" /\ UNCHANGED <<o, up, child, code, strays, started>>
      /\ g' = IF s.problem # "none" THEN Exit(s, 70)
              ELSE IF s.cancel # 0 THEN Exit(s, 128 + s.cancel)
              ELSE IF s.closed THEN Exit(s, 70) ELSE Go(s, "register")
  BY DEF Boot, At, work
<1>2. \/ g' = Exit(s, 70)
      \/ s.cancel # 0 /\ g' = Exit(s, 128 + s.cancel)
      \/ g' = Go(s, "register")
  BY <1>1
<1>3. /\ g' \in GuardStates /\ Sane(g') /\ Rest(s, g')
      /\ g'.pc = "register" \/ (g'.pc = "exited" /\ g'.exit # 0)
  <2>1. CASE g' = Exit(s, 70)
    BY <2>1, ExitKeeps DEF Stays
  <2>2. CASE s.cancel # 0 /\ g' = Exit(s, 128 + s.cancel)
    <3>1. 128 + s.cancel \in Int /\ 128 + s.cancel # 0
      BY DEF GuardStates, Cancellations, Signals
    <3> QED
      BY <2>2, <3>1, ExitKeeps DEF Stays
  <2>3. CASE g' = Go(s, "register")
    <3>1. "register" \in Points \ {"gate"}
      BY DEF Points
    <3> QED
      BY <2>3, <3>1, GoKeeps DEF Stays
  <2> QED
    BY <1>2, <2>1, <2>2, <2>3
<1>4. g'.attempt = 0 /\ g'.spawned = FALSE /\ child = "none" /\ ~strays
  BY <1>1, <1>3 DEF IInv, Control, TypeOK, Work, Placed, Idle, Stays, Same, Rest
<1>5. Sane(g)'
  BY <1>1, <1>3 DEF Sane
<1>6. Work'
  BY <1>1, <1>3, <1>4 DEF IInv, Work, Placed, Coded, Quieted, Over, Sent, Idle, Allowed
<1>7. g.attempt = 0
  BY <1>1 DEF IInv, Work, Placed
<1>8. Onward
  BY <1>1, <1>7 DEF Onward, Done, Past
<1> QED
  BY <1>1, <1>3, <1>5, <1>6, <1>8, SilenceIsTrue DEF Proper

\* On its way from one attempt to the next fork the guard has no child.
LEMMA Passage ==
  ASSUME IInv, UNCHANGED <<o, child, code, strays, started>>, Sent' => Sent,
         g.pc \in {"next", "ask", "gate", "check", "recheck"},
         g'.pc \in {"next", "ask", "gate", "check", "recheck", "fork", "drain"},
         g'.pc = "ask" => g'.cancel # 2 /\ Prepared(g.attempt + 1),
         g'.pc = "gate" => g.pc = "gate",
         g'.pc \in {"check", "recheck", "fork"} => Allowed(g.attempt),
         g.pc \in {"next", "ask"} => g'.pc \in {"next", "ask", "drain"},
         g'.attempt = g.attempt, g'.spawned = g.spawned, g.cancel # 0 => g'.cancel # 0
  PROVE  Work' /\ (g.pc \notin {"next", "ask"} \/ g'.pc \in Past => Onward)
<1>1. child = "none" /\ (strays => g.spawned)
  BY DEF IInv, Work, Placed, Idle
<1>2. Work'
  BY <1>1 DEF IInv, Work, Placed, Coded, Quieted, Over, Idle, Allowed
<1>3. g.pc \notin {"next", "ask"} \/ g'.pc \in Past => Onward
  BY DEF Onward, Done, Past
<1> QED
  BY <1>2, <1>3

LEMMA RegisterKeeps == ASSUME AttemptsMakeSense, IInv, Register PROVE Proper
<1> DEFINE f == [kind |-> "registered"]
           pc == IF HasSetup THEN "check" ELSE "next"
<1>1. /\ g.pc = "register" /\ UNCHANGED <<o, child, code, strays, started>>
      /\ Emitting(Go(g, pc), f) \/ (g' = Exit(g, 75) /\ UNCHANGED up)
  BY DEF Register, At, work
<1>2. /\ f \in UpFrames /\ f.kind = "registered"
      /\ pc \in Points \ {"gate"} /\ (pc = "next" \/ (pc = "check" /\ HasSetup))
  BY DEF UpFrames, Notices, Points
<1> HIDE DEF f, pc
<1>3. g \in GuardStates /\ Sane(g) /\ TypeOK
  BY DEF IInv, Control, TypeOK
<1>4. /\ g' \in GuardStates /\ Sane(g') /\ up' \in {up, Append(up, f)}
      /\ g'.pc = pc \/ (g'.pc = "exited" /\ g'.exit = 75)
      /\ g'.attempt = g.attempt /\ g'.spawned = g.spawned
  <2>1. CASE Emitting(Go(g, pc), f)
    BY <1>2, <1>3, <2>1, GoKeeps, SendKeeps DEF Stays, Same, Rest
  <2>2. CASE g' = Exit(g, 75) /\ UNCHANGED up
    BY <1>3, <2>2, ExitKeeps DEF Rest
  <2> QED
    BY <1>1, <2>1, <2>2
<1>5. g.attempt = 0 /\ g.spawned = FALSE /\ child = "none" /\ ~strays
  BY <1>1, <1>3 DEF IInv, TypeOK, GuardStates, Work, Placed, Idle
<1>6. Sent' => Sent
  BY <1>1, <1>2, <1>3, <1>4, SentStays
<1>7. Sane(g)'
  BY <1>1, <1>4 DEF Sane
<1>8. Work'
  BY <1>1, <1>2, <1>4, <1>5, <1>6 DEF IInv, Work, Placed, Coded, Quieted, Over, Idle, Allowed
<1>9. Onward
  BY <1>1, <1>5 DEF Onward, Done, Past
<1> QED
  BY <1>2, <1>4, <1>7, <1>8, <1>9 DEF Proper, Truly

LEMMA NextKeeps == ASSUME AttemptsMakeSense, IInv, NextAttempt PROVE Proper
<1> DEFINE doubted == Failed(g, "ownership-uncertain", FALSE)
<1>1. g.pc = "next" /\ UNCHANGED <<o, up, child, code, strays, started>>
  BY DEF NextAttempt, At, work
<1>2. \/ g' = Go(g, "drain")
      \/ g' = Go(doubted, "drain")
      \/ ~g.closed /\ Prepared(g.attempt + 1) /\ g' = Go(g, "ask")
  BY DEF NextAttempt
<1>3. /\ g \in GuardStates /\ Sane(g) /\ TypeOK
      /\ "drain" \in Points \ {"gate"} /\ "ask" \in Points \ {"gate"}
  BY DEF IInv, Control, TypeOK, Points
<1> DEFINE Moves == /\ g' \in GuardStates /\ Sane(g') /\ g'.pc \in {"ask", "drain"}
                    /\ g'.pc = "ask" => g'.cancel # 2 /\ Prepared(g.attempt + 1)
                    /\ g'.attempt = g.attempt /\ g'.spawned = g.spawned
                    /\ g.cancel # 0 => g'.cancel # 0
<1>4. Moves
  <2>1. CASE g' = Go(g, "drain")
    BY <1>3, <2>1, GoKeeps DEF Rest
  <2>2. CASE g' = Go(doubted, "drain")
    <3>1. "ownership-uncertain" \in Problems \ {"none", "missing-executable"} /\ "ownership-uncertain" \notin Timeouts
      BY DEF Problems, Timeouts
    <3>2. Stays(g, doubted)
      BY <1>3, <3>1, FailureKeeps
    <3> HIDE DEF doubted
    <3> QED
      BY <1>3, <2>2, <3>2, GoKeeps DEF Rest, Stays, Same
  <2>3. CASE ~g.closed /\ Prepared(g.attempt + 1) /\ g' = Go(g, "ask")
    <3>1. g.cancel = 0
      BY <1>3, <2>3 DEF Sane
    <3> QED
      BY <1>3, <2>3, <3>1, GoKeeps DEF Rest
  <2> QED
    BY <1>2, <2>1, <2>2, <2>3
<1>5. Sane(g)'
  BY <1>1, <1>4 DEF Sane
<1>6. Sent' => Sent
  BY <1>1, <1>4 DEF Sent
<1> QED
  BY <1>1, <1>4, <1>5, <1>6, Passage, SilenceIsTrue DEF Proper, Past

LEMMA AskKeeps == ASSUME AttemptsMakeSense, IInv, Ask PROVE Proper
<1> DEFINE k == g.attempt + 1
           f == [kind |-> "ready", attempt |-> k]
           open == [Go(g, "gate") EXCEPT !.attempt = k, !.gate = k, !.decision = "none"]
           late == Failed(g, "execution-timeout", FALSE)
<1>1. g.pc = "ask" /\ UNCHANGED <<o, child, code, strays, started>>
  BY DEF Ask, At, work
<1>2. \/ g' = Go(late, "drain") /\ UNCHANGED up
      \/ Emitting(open, f)
  BY DEF Ask
<1>3. g \in GuardStates /\ Sane(g) /\ TypeOK /\ "drain" \in Points \ {"gate"}
  BY DEF IInv, Control, TypeOK, Points
<1>4. child = "none" /\ (strays => g.spawned) /\ g.cancel # 2 /\ Prepared(k)
  BY <1>1 DEF IInv, Work, Placed, Idle
<1>8. CASE g' = Go(late, "drain") /\ UNCHANGED up
  <2>1. "execution-timeout" \in Problems \ {"none", "missing-executable"}
    BY DEF Problems, Timeouts
  <2>2. Stays(g, late)
    BY <1>3, <1>4, <2>1, FailureKeeps
  <2> HIDE DEF late
  <2>3. /\ g' \in GuardStates /\ Sane(g') /\ g'.pc = "drain" /\ UNCHANGED up
        /\ g'.attempt = g.attempt /\ g'.spawned = g.spawned
        /\ g.cancel # 0 => g'.cancel # 0
    BY <1>3, <1>8, <2>2, GoKeeps DEF Rest, Stays, Same
  <2>4. Sane(g)'
    BY <1>1, <2>3 DEF Sane
  <2>5. Sent' => Sent
    BY <1>1, <2>3 DEF Sent
  <2> QED
    BY <1>1, <2>3, <2>4, <2>5, Passage, SilenceIsTrue DEF Proper, Past
<1>9. CASE Emitting(open, f)
  <2>1. k \in 1..Attempts /\ k \in 0..Attempts /\ k # 0
    BY <1>3, <1>4 DEF GuardStates, Prepared, AttemptsMakeSense
  <2>2. f \in UpFrames /\ f.kind = "ready"
    BY <2>1 DEF UpFrames, Readies
  <2>3. open \in GuardStates
    BY <1>3, <2>1 DEF GuardStates, Go, Points, Answers
  <2>4. /\ open.pc = "gate" /\ open.attempt = k /\ open.gate = k /\ open.decision = "none"
        /\ open.spawned = g.spawned /\ open.cancel = g.cancel /\ open.closed = g.closed
        /\ open.problem = g.problem
    BY <1>3 DEF GuardStates, Go
  <2> HIDE DEF open, f
  <2>5. Sane(open)
    BY <1>3, <2>1, <2>4 DEF Sane
  <2>6. Stays(open, g') /\ up' \in {up, Append(up, f)}
    BY <1>9, <2>3, <2>5, SendKeeps
  <2>7. Sane(g)'
    BY <1>1, <2>6 DEF Sane, Stays
  <2>8. Sent' => Sent
    BY <1>1, <1>3, <2>2, <2>6, SentStays
  <2>9. \A j \in started : j <= k /\ j # k
    <3>1. g.attempt \in Int /\ started \subseteq Int /\ \A j \in started : j <= g.attempt
      BY <1>3 DEF IInv, Control, TypeOK, GuardStates, Work, Coded
    <3> QED
      BY <3>1
  <2> HIDE DEF k
  <2>10. Work'
    BY <1>1, <1>4, <1>9, <2>4, <2>6, <2>8, <2>9
       DEF IInv, Work, Placed, Coded, Quieted, Over, Idle, Allowed, Stays, Same
  <2>11. Onward
    BY <1>1, <1>3, <2>4, <2>6 DEF Onward, Done, Past, Stays, Same, GuardStates, k
  <2> QED
    BY <2>2, <2>6, <2>7, <2>10, <2>11 DEF Proper, Truly, Stays
<1> QED
  BY <1>2, <1>8, <1>9

\* What closes the gate: only a decision to continue leads on to the attempt.
LEMMA OutcomeKeeps ==
  ASSUME AttemptsMakeSense, NEW s \in GuardStates, Sane(s), s.pc = "gate"
  PROVE  LET t == GateOutcome(s) IN
         /\ t \in GuardStates /\ Sane(t) /\ t.pc \in {"check", "drain"}
         /\ t.pc = "check" => Allowed(s.attempt)
         /\ t.attempt = s.attempt /\ t.spawned = s.spawned /\ t.cancel = s.cancel
<1>1. s.attempt # 0 /\ (s.decision = "continue" => s.attempt \in o.continued)
  BY DEF Sane
<1>2. CASE s.decision = "continue"
  <2> DEFINE t == [s EXCEPT !.pc = "check", !.decision = "none"]
  <2>1. t \in GuardStates
    BY DEF GuardStates, Points, Answers
  <2>2. /\ t.pc = "check" /\ t.attempt = s.attempt /\ t.spawned = s.spawned /\ t.cancel = s.cancel
        /\ t.closed = s.closed /\ t.problem = s.problem /\ t.gate = s.gate /\ t.decision = "none"
    BY DEF GuardStates
  <2>3. GateOutcome(s) = t
    BY <1>2 DEF GateOutcome, Go
  <2> HIDE DEF t
  <2>4. Sane(t)
    BY <2>2 DEF Sane
  <2> QED
    BY <1>1, <1>2, <2>1, <2>2, <2>3, <2>4 DEF Allowed
<1>3. CASE s.decision = "stop"
  <2> DEFINE t == [s EXCEPT !.pc = "drain", !.closed = TRUE, !.decision = "none"]
  <2>1. t \in GuardStates
    BY DEF GuardStates, Points, Answers
  <2>2. /\ t.pc = "drain" /\ t.attempt = s.attempt /\ t.spawned = s.spawned /\ t.cancel = s.cancel
        /\ t.closed /\ t.problem = s.problem /\ t.gate = s.gate /\ t.decision = "none"
    BY DEF GuardStates
  <2>3. GateOutcome(s) = t
    BY <1>3 DEF GateOutcome, Go
  <2> HIDE DEF t
  <2>4. Sane(t)
    BY <2>2 DEF Sane
  <2> QED
    BY <2>1, <2>2, <2>3, <2>4
<1>4. CASE s.decision \notin {"continue", "stop"}
  <2> DEFINE t == [s EXCEPT !.pc = "drain", !.gate = 0]
  <2>1. 0 \in 0..Attempts
    BY DEF AttemptsMakeSense
  <2>2. t \in GuardStates
    BY <2>1 DEF GuardStates, Points
  <2>3. /\ t.pc = "drain" /\ t.attempt = s.attempt /\ t.spawned = s.spawned /\ t.cancel = s.cancel
        /\ t.closed = s.closed /\ t.problem = s.problem /\ t.gate = 0 /\ t.decision = s.decision
    BY DEF GuardStates
  <2>4. GateOutcome(s) = t
    BY <1>4 DEF GateOutcome, Go
  <2> HIDE DEF t
  <2>5. Sane(t)
    BY <2>3 DEF Sane
  <2> QED
    BY <2>2, <2>3, <2>4, <2>5
<1> QED
  BY <1>2, <1>3, <1>4

LEMMA GatePollKeeps == ASSUME AttemptsMakeSense, IInv, GatePoll PROVE Proper
<1>1. g.pc = "gate" /\ UNCHANGED <<o, up, child, code, strays, started>>
  BY DEF GatePoll, At, work
<1>2. g \in GuardStates /\ Sane(g) /\ Control
  BY DEF IInv, Control, TypeOK
<1> PICK s \in GuardStates : Stays(g, s) /\ g' \in {s, GateOutcome(s)}
  <2>1. Stays(g, Polled(g)) /\ Stays(g, g)
    BY <1>2, Heard DEF Stays, Same
  <2>2. \/ g' \in {Polled(g), GateOutcome(Polled(g))}
        \/ g' \in {g, GateOutcome(g)}
    BY DEF GatePoll
  <2> QED
    BY <2>1, <2>2 DEF Stays
<1>3. /\ g' \in GuardStates /\ Sane(g') /\ g'.pc \in {"gate", "check", "drain"}
      /\ g'.pc = "check" => Allowed(g.attempt)
      /\ g'.attempt = g.attempt /\ g'.spawned = g.spawned /\ (g.cancel # 0 => g'.cancel # 0)
  BY <1>1, OutcomeKeeps DEF Stays, Same
<1>4. Sane(g)'
  BY <1>1, <1>3 DEF Sane
<1>5. Sent' => Sent
  BY <1>1 DEF Sent
<1> QED
  BY <1>1, <1>3, <1>4, <1>5, Passage, SilenceIsTrue DEF Proper

LEMMA GateTimeoutKeeps == ASSUME AttemptsMakeSense, IInv, GateTimeout PROVE Proper
<1>1. g.pc = "gate" /\ UNCHANGED <<o, up, child, code, strays, started>>
  BY DEF GateTimeout, At, work
<1>2. g \in GuardStates /\ Sane(g) /\ 0 \in 0..Attempts
  BY DEF IInv, Control, TypeOK, AttemptsMakeSense
<1>3. "attempt-decision-timeout" \in Problems \ {"none", "missing-executable"} /\ "attempt-decision-timeout" \notin Timeouts
  BY DEF Problems, Timeouts
<1> PICK s \in GuardStates : s = Failed(g, "attempt-decision-timeout", FALSE) /\ Stays(g, s)
  BY <1>2, <1>3, FailureKeeps DEF Stays
<1>4. g' = [s EXCEPT !.pc = "drain", !.gate = 0]
  BY DEF GateTimeout, Go
<1>5. g' \in GuardStates
  BY <1>2, <1>4 DEF GuardStates, Points
<1>6. /\ g'.pc = "drain" /\ g'.attempt = s.attempt /\ g'.spawned = s.spawned /\ g'.cancel = s.cancel
      /\ g'.closed = s.closed /\ g'.problem = s.problem /\ g'.gate = 0 /\ g'.decision = s.decision
  BY <1>4 DEF GuardStates
<1>7. Sane(g)'
  BY <1>1, <1>6 DEF Sane, Stays
<1>8. Sent' => Sent
  BY <1>1 DEF Sent
<1> QED
  BY <1>1, <1>5, <1>6, <1>7, <1>8, Passage, SilenceIsTrue DEF Proper, Stays, Same

\* The facts of an attempt are its exit code and the guard's problem.
LEMMA FactsTyped ==
  ASSUME TypeOK, NEW s \in GuardStates, NEW problem \in Problems
  PROVE  /\ Facts(s, problem) \in UpFrames /\ Facts(s, problem).kind = "facts"
         /\ Facts(s, problem).problem = problem /\ Facts(s, problem).attempt = s.attempt
         /\ Facts(s, problem).raw = code[s.attempt]
<1>1. s.attempt \in 0..Attempts /\ code[s.attempt] \in Codes
  BY DEF GuardStates, TypeOK
<1> QED
  BY <1>1 DEF Facts, UpFrames, FactFrames

\* An attempt that is not run leaves facts only if time was up.
LEMMA NotRunKeeps ==
  ASSUME AttemptsMakeSense, IInv, NEW s \in GuardStates, Stays(g, s), g.pc \in {"check", "recheck"},
         NotRun(s), UNCHANGED <<o, child, code, strays, started>>
  PROVE  Proper
<1> DEFINE t == IF s.attempt = 0 THEN [s EXCEPT !.closed = TRUE] ELSE s
           n == Go(t, "next")
           f == Facts(t, s.problem)
<1>1. \/ s.problem = "execution-timeout" /\ Emitting(n, f)
      \/ g' = n /\ UNCHANGED up
  BY DEF NotRun
<1>2. /\ t \in GuardStates /\ t.cancel = s.cancel /\ t.pc = s.pc /\ t.attempt = s.attempt
      /\ t.problem = s.problem /\ t.gate = s.gate /\ t.decision = s.decision /\ t.spawned = s.spawned
      /\ s.closed => t.closed
  <2>1. CASE s.attempt = 0
    BY <2>1 DEF GuardStates
  <2>2. CASE s.attempt # 0
    BY <2>2
  <2> QED
    BY <2>1, <2>2
<1> HIDE DEF t
<1>3. Sane(t)
  BY <1>2 DEF Sane, Stays
<1>4. n \in GuardStates /\ Sane(n) /\ n.pc = "next" /\ Rest(t, n)
  <2>1. "next" \in Points \ {"gate"}
    BY DEF Points
  <2> QED
    BY <1>2, <1>3, <2>1, GoKeeps
<1> HIDE DEF n
<1>5. TypeOK
  BY DEF IInv, Control
<1>6. f \in UpFrames /\ f.kind = "facts" /\ f.problem = s.problem
  <2>1. s.problem \in Problems
    BY DEF GuardStates
  <2> QED
    BY <1>2, <1>5, <2>1, FactsTyped
<1> HIDE DEF f
<1>7. /\ g' \in GuardStates /\ Sane(g') /\ g'.pc = "next" /\ g'.attempt = g.attempt
      /\ g'.spawned = g.spawned /\ (g.cancel # 0 => g'.cancel # 0)
      /\ up' \in {up, Append(up, f)}
  <2>1. g' \in GuardStates /\ Sane(g') /\ Same(n, g') /\ up' \in {up, Append(up, f)}
    <3>1. CASE Emitting(n, f)
      BY <1>4, <3>1, SendKeeps DEF Stays
    <3>2. CASE g' = n /\ UNCHANGED up
      BY <1>4, <3>2 DEF Same
    <3> QED
      BY <1>1, <3>1, <3>2
  <2> QED
    BY <1>2, <1>4, <2>1 DEF Same, Rest, Stays
<1>8. Sane(g)'
  BY <1>7 DEF Sane
<1>9. Sent' => Sent
  BY <1>5, <1>6, <1>7, SentStays
<1>10. Work' /\ Onward
  BY <1>7, <1>9, Passage
<1>11. Truly
  <2>1. CASE up' = up
    BY <2>1, SilenceIsTrue
  <2>2. CASE up' # up
    <3> PICK h \in UpFrames : h = f
      BY <1>6
    <3>1. h.problem \notin {"none", "missing-executable"} /\ up' \in {up, Append(up, h)}
      BY <1>1, <1>6, <1>7, <2>2
    <3>2. Told(h.attempt, h)'
      BY <3>1 DEF Told
    <3> QED
      BY <3>1, <3>2 DEF Truly
  <2> QED
    BY <2>1, <2>2
<1> QED
  BY <1>7, <1>8, <1>10, <1>11 DEF Proper

LEMMA CheckKeeps == ASSUME AttemptsMakeSense, IInv, Check PROVE Proper
<1> PICK s \in GuardStates : s = Readied(g) /\ Stays(g, s)
  BY Looked DEF IInv, Control, TypeOK, Stays
<1> DEFINE f == [kind |-> "phase", attempt |-> s.attempt]
           n == Go(s, "recheck")
<1>1. /\ g.pc = "check" /\ UNCHANGED <<o, child, code, strays, started>>
      /\ NotRun(s) \/ Emitting(n, f)
  BY DEF Check, At, work
<1>2. f \in UpFrames /\ f.kind = "phase"
  BY DEF UpFrames, Phases, GuardStates
<1>3. n \in GuardStates /\ Sane(n) /\ n.pc = "recheck" /\ Rest(s, n)
  <2>1. "recheck" \in Points \ {"gate"}
    BY DEF Points
  <2> QED
    BY <2>1, GoKeeps DEF Stays
<1> HIDE DEF n, f
<1>4. CASE NotRun(s)
  BY <1>1, <1>4, NotRunKeeps
<1>5. CASE Emitting(n, f)
  <2>1. Stays(n, g') /\ up' \in {up, Append(up, f)}
    BY <1>3, <1>5, SendKeeps
  <2>2. /\ g' \in GuardStates /\ Sane(g') /\ g'.pc = "recheck" /\ g'.attempt = g.attempt
        /\ g'.spawned = g.spawned /\ (g.cancel # 0 => g'.cancel # 0)
    BY <1>3, <2>1 DEF Stays, Same, Rest
  <2>3. Allowed(g.attempt)
    BY <1>1 DEF IInv, Work, Placed
  <2>4. Sane(g)'
    BY <1>1, <2>2 DEF Sane
  <2>5. Sent' => Sent
    BY <1>1, <1>2, <2>1, SentStays DEF IInv, Control
  <2>6. Work' /\ Onward
    BY <1>1, <2>2, <2>3, <2>5, Passage
  <2> QED
    BY <1>2, <2>1, <2>2, <2>4, <2>6 DEF Proper, Truly
<1> QED
  BY <1>1, <1>4, <1>5

LEMMA RecheckKeeps == ASSUME AttemptsMakeSense, IInv, Recheck PROVE Proper
<1> PICK s \in GuardStates : s = Readied(g) /\ Stays(g, s)
  BY Looked DEF IInv, Control, TypeOK, Stays
<1>1. /\ g.pc = "recheck" /\ UNCHANGED <<o, child, code, strays, started>>
      /\ NotRun(s) \/ (g' = Go(s, "fork") /\ UNCHANGED up)
  BY DEF Recheck, At, work
<1>2. CASE NotRun(s)
  BY <1>1, <1>2, NotRunKeeps
<1>3. CASE g' = Go(s, "fork") /\ UNCHANGED up
  <2>1. "fork" \in Points \ {"gate"}
    BY DEF Points
  <2>2. g' \in GuardStates /\ Sane(g') /\ g'.pc = "fork" /\ Rest(s, g')
    BY <1>3, <2>1, GoKeeps DEF Stays
  <2>3. Allowed(g.attempt)
    BY <1>1 DEF IInv, Work, Placed
  <2>4. Sane(g)'
    BY <1>1, <2>2 DEF Sane
  <2>5. Sent' => Sent
    BY <1>1, <1>3 DEF Sent
  <2>6. Work' /\ Onward
    BY <1>1, <2>2, <2>3, <2>5, Passage DEF Rest, Stays, Same
  <2> QED
    BY <1>3, <2>2, <2>4, <2>6, SilenceIsTrue DEF Proper
<1> QED
  BY <1>1, <1>2, <1>3

LEMMA ForkKeeps == ASSUME AttemptsMakeSense, IInv, Fork PROVE Proper
<1>1. g.pc = "fork" /\ UNCHANGED <<o, up, code, strays>>
  BY DEF Fork, At
<1>2. g \in GuardStates /\ Sane(g) /\ Allowed(g.attempt) /\ child = "none" /\ ~Sent
      /\ (strays => g.spawned)
  BY <1>1 DEF IInv, Control, TypeOK, Work, Placed, Quieted, Over, Idle
<1> g.attempt \in 0..Attempts /\ g.attempt <= g.attempt /\ code[g.attempt] = NoCode
  BY <1>1, <1>2 DEF IInv, Work, Coded, GuardStates
<1>3. CASE g' = [Go(g, "watch") EXCEPT !.spawned = TRUE] /\ child' = "running"
           /\ started' = started \union {g.attempt}
  <2>1. g' \in GuardStates
    BY <1>2, <1>3 DEF GuardStates, Go, Points
  <2>2. /\ g'.pc = "watch" /\ g'.attempt = g.attempt /\ g'.spawned /\ g'.cancel = g.cancel
        /\ g'.closed = g.closed /\ g'.problem = g.problem /\ g'.gate = g.gate
        /\ g'.decision = g.decision
    BY <1>2, <1>3 DEF GuardStates, Go
  <2>3. Sane(g)'
    BY <1>1, <1>2, <2>2 DEF Sane
  <2>4. Work'
    BY <1>1, <1>2, <1>3, <2>2 DEF IInv, Work, Placed, Coded, Quieted, Over, Sent, Idle, Allowed
  <2>5. Onward
    BY <1>1, <2>2 DEF Onward, Done, Past
  <2> QED
    BY <1>1, <2>1, <2>3, <2>4, <2>5, SilenceIsTrue DEF Proper
<1>4. CASE /\ g' = [Go(g, "facts") EXCEPT !.fault = "missing-executable", !.closed = TRUE]
           /\ UNCHANGED <<child, started>>
  <2>1. g' \in GuardStates
    BY <1>2, <1>4 DEF GuardStates, Go, Points, Problems
  <2>2. /\ g'.pc = "facts" /\ g'.attempt = g.attempt /\ g'.spawned = g.spawned /\ g'.cancel = g.cancel
        /\ g'.closed /\ g'.problem = g.problem /\ g'.gate = g.gate
        /\ g'.decision = g.decision /\ g'.fault = "missing-executable"
    BY <1>2, <1>4 DEF GuardStates, Go
  <2>3. Sane(g)'
    BY <1>1, <1>2, <2>2 DEF Sane
  <2>4. Work'
    BY <1>1, <1>2, <1>4, <2>2 DEF IInv, Work, Placed, Coded, Quieted, Over, Sent, Idle, Allowed
  <2>5. Onward
    BY <1>1, <2>2 DEF Onward, Done, Past
  <2> QED
    BY <1>1, <2>1, <2>3, <2>4, <2>5, SilenceIsTrue DEF Proper
<1> QED
  BY <1>3, <1>4 DEF Fork

\* A guard that stays where it is only listens.
LEMMA Listening ==
  ASSUME IInv, Stays(g, g'), g.pc # "exited", g.pc = "ask" => g'.cancel # 2,
         UNCHANGED <<o, up, child, code, strays, started>>
  PROVE  Proper
<1>1. /\ g' \in GuardStates /\ g'.pc = g.pc /\ g'.attempt = g.attempt /\ g'.after = g.after
      /\ g'.fault = g.fault /\ g'.spawned = g.spawned /\ (g.cancel # 0 => g'.cancel # 0)
  BY DEF Stays, Same
<1>2. Sane(g)'
  BY DEF Sane, Stays
<1>3. Work'
  BY <1>1 DEF IInv, Work, Placed, Coded, Quieted, Over, Sent, Idle, Allowed
<1>4. Onward
  BY <1>1 DEF Onward, Done, Past
<1> QED
  BY <1>1, <1>2, <1>3, <1>4, SilenceIsTrue DEF Proper

\* While the child lives the guard watches it, dumps it, or reaps it.
LEMMA Watched ==
  ASSUME IInv, g.pc \in {"watch", "dump"}, UNCHANGED <<o, up, child, code, strays, started>>,
         g' \in GuardStates, Sane(g'), g'.attempt = g.attempt, g'.spawned = g.spawned,
         g'.pc \in {"watch", "dump"} \/ (g'.pc = "reap" /\ g'.after = "collect")
  PROVE  Proper
<1>1. child # "none"
  BY DEF IInv, Work, Placed
<1>2. Sane(g)'
  BY DEF Sane
<1>3. Work'
  BY <1>1 DEF IInv, Work, Placed, Coded, Quieted, Over, Sent, Idle, Allowed
<1>4. Onward
  BY DEF Onward, Done, Past
<1> QED
  BY <1>2, <1>3, <1>4, SilenceIsTrue DEF Proper

LEMMA EndingKeeps ==
  ASSUME AttemptsMakeSense, IInv, NEW s \in GuardStates, Stays(g, s), g.pc = "watch", Ending(s),
         UNCHANGED <<o, up, child, code, strays, started>>
  PROVE  Proper
<1>1. g' \in {Go(s, "dump"), Reaping(s, "collect")}
  BY DEF Ending
<1>2. CASE g' = Go(s, "dump")
  <2>1. "dump" \in Points \ {"gate"}
    BY DEF Points
  <2>2. g' \in GuardStates /\ Sane(g') /\ g'.pc = "dump" /\ g'.attempt = g.attempt /\ g'.spawned = g.spawned
    BY <1>2, <2>1, GoKeeps DEF Stays, Same, Rest
  <2> QED
    BY <2>2, Watched
<1>3. CASE g' = Reaping(s, "collect")
  <2>1. "collect" \in Goals
    BY DEF Goals
  <2>2. /\ g' \in GuardStates /\ Sane(g') /\ g'.pc = "reap" /\ g'.after = "collect"
        /\ g'.attempt = g.attempt /\ g'.spawned = g.spawned
    BY <1>3, <2>1, ReapKeeps DEF Stays, Same
  <2> QED
    BY <2>2, Watched
<1> QED
  BY <1>1, <1>2, <1>3

LEMMA WatchKeeps ==
  ASSUME AttemptsMakeSense, IInv,
         WatchPoll \/ WatchExpires \/ WatchStalls \/ WatchCancelled
  PROVE  Proper
<1>1. /\ g.pc = "watch" /\ UNCHANGED <<o, up, child, code, strays, started>>
      /\ g \in GuardStates /\ Sane(g) /\ Control
  BY DEF WatchPoll, WatchExpires, WatchStalls, WatchCancelled, At, work, IInv, Control, TypeOK
<1>2. CASE WatchPoll
  BY <1>1, <1>2, Heard, Listening DEF WatchPoll
<1>3. CASE WatchExpires
  <2>1. "execution-timeout" \in Problems \ {"none", "missing-executable"} /\ TRUE \in BOOLEAN /\ g.cancel # 2
    BY <1>3 DEF Problems, Timeouts, WatchExpires
  <2>2. Stays(g, Failed(g, "execution-timeout", TRUE))
    BY <1>1, <2>1, FailureKeeps
  <2> QED
    BY <1>1, <1>3, <2>2, EndingKeeps DEF WatchExpires, Stays
<1>4. CASE WatchStalls
  <2>1. "post-test-stall" \in Problems \ {"none", "missing-executable"} /\ TRUE \in BOOLEAN /\ g.cancel # 2
    BY <1>4 DEF Problems, Timeouts, WatchStalls
  <2>2. Stays(g, Failed(g, "post-test-stall", TRUE))
    BY <1>1, <2>1, FailureKeeps
  <2> QED
    BY <1>1, <1>4, <2>2, EndingKeeps DEF WatchStalls, Stays
<1>5. CASE WatchCancelled
  BY <1>1, <1>5, EndingKeeps DEF WatchCancelled, Stays, Same
<1> QED
  BY <1>2, <1>3, <1>4, <1>5

LEMMA ChildGoneKeeps == ASSUME AttemptsMakeSense, IInv, WatchChildGone PROVE Proper
<1>1. /\ g.pc = "watch" /\ child = "exited" /\ g' = Go(g, "collect")
      /\ UNCHANGED <<o, up, child, code, strays, started>>
  BY DEF WatchChildGone, At, work
<1>2. g' \in GuardStates /\ Sane(g') /\ g'.pc = "collect" /\ Rest(g, g')
  <2>1. "collect" \in Points \ {"gate"} /\ g \in GuardStates /\ Sane(g)
    BY DEF Points, IInv, Control, TypeOK
  <2> QED
    BY <1>1, <2>1, GoKeeps
<1>3. Sane(g)'
  BY <1>1, <1>2 DEF Sane
<1>4. Work'
  BY <1>1, <1>2 DEF IInv, Work, Placed, Coded, Quieted, Over, Sent, Idle, Allowed, Rest
<1>5. Onward
  BY <1>1, <1>2 DEF Onward, Done, Past, Rest
<1> QED
  BY <1>1, <1>2, <1>3, <1>4, <1>5, SilenceIsTrue DEF Proper

LEMMA DumpKeeps == ASSUME AttemptsMakeSense, IInv, DumpWait PROVE Proper
<1> PICK s \in GuardStates : s = Polled(g) /\ Stays(g, s)
  BY Heard DEF IInv, Control, TypeOK, Stays
<1>1. /\ g.pc = "dump" /\ g' = Reaping(s, "collect")
      /\ UNCHANGED <<o, up, child, code, strays, started>>
  BY DEF DumpWait, At, work
<1>2. "collect" \in Goals
  BY DEF Goals
<1>3. /\ g' \in GuardStates /\ Sane(g') /\ g'.pc = "reap" /\ g'.after = "collect"
      /\ g'.attempt = g.attempt /\ g'.spawned = g.spawned
  BY <1>1, <1>2, ReapKeeps DEF Stays, Same
<1> QED
  BY <1>1, <1>3, Watched

\* When nothing is left of the group the guard goes where it meant to go.
LEMMA ReapKept == ASSUME AttemptsMakeSense, IInv, ReapPoll \/ ReapDone PROVE Proper
<1>1. /\ g.pc = "reap" /\ UNCHANGED <<o, up, child, code, strays, started>>
      /\ g \in GuardStates /\ Sane(g) /\ Control
  BY DEF ReapPoll, ReapDone, At, work, IInv, Control, TypeOK
<1>2. CASE ReapPoll
  BY <1>1, <1>2, Heard, Listening DEF ReapPoll
<1>3. CASE ReapDone
  <2> PICK after \in Goals : after = g.after
    BY <1>1 DEF GuardStates
  <2>1. after \in Points \ {"gate"}
    BY DEF Points, Goals
  <2>2. g' = Go(g, after) /\ child # "running"
    BY <1>3 DEF ReapDone, Reaped
  <2>3. g' \in GuardStates /\ Sane(g') /\ g'.pc = after /\ Rest(g, g')
    BY <1>1, <2>1, <2>2, GoKeeps
  <2>4. Sane(g)'
    BY <1>1, <2>3 DEF Sane
  <2>5. child \in {"none", "exited"}
    BY <1>1, <2>2 DEF Control, TypeOK
  <2>6. Work'
    BY <1>1, <2>2, <2>3, <2>5
       DEF IInv, Work, Placed, Coded, Quieted, Over, Sent, Idle, Allowed, Rest, Goals
  <2>7. Onward
    BY <1>1, <2>3 DEF Onward, Done, Past, Rest
  <2> QED
    BY <1>1, <2>3, <2>4, <2>6, <2>7, SilenceIsTrue DEF Proper
<1> QED
  BY <1>2, <1>3

LEMMA ReapExpiresKeeps == ASSUME AttemptsMakeSense, IInv, ReapExpires PROVE Proper
<1>1. /\ g.pc = "reap" /\ g' = Go(g, "killed") /\ child' = "none" /\ strays' = FALSE
      /\ UNCHANGED <<o, up, code, started>>
  BY DEF ReapExpires, At
<1>2. g' \in GuardStates /\ Sane(g') /\ g'.pc = "killed" /\ Rest(g, g')
  <2>1. "killed" \in Points \ {"gate"} /\ g \in GuardStates /\ Sane(g)
    BY DEF Points, IInv, Control, TypeOK
  <2> QED
    BY <1>1, <2>1, GoKeeps
<1>3. Sane(g)'
  BY <1>1, <1>2 DEF Sane
<1>4. Work'
  BY <1>1, <1>2 DEF IInv, Work, Placed, Coded, Quieted, Over, Sent, Idle, Allowed, Rest
<1>5. Onward
  BY <1>1, <1>2 DEF Onward, Done, Past, Rest
<1> QED
  BY <1>1, <1>2, <1>3, <1>4, <1>5, SilenceIsTrue DEF Proper

LEMMA CollectKeeps == ASSUME AttemptsMakeSense, IInv, Collect PROVE Proper
<1> PICK s \in GuardStates : s = Polled(g) /\ Stays(g, s)
  BY Heard DEF IInv, Control, TypeOK, Stays
<1>1. /\ g.pc = "collect" /\ UNCHANGED <<o, up, child, code, strays, started>>
      /\ g' \in {Reaping(s, "result"), Go(s, "result")}
  BY DEF Collect, At, work
<1>2. /\ g' \in GuardStates /\ Sane(g') /\ g'.attempt = g.attempt /\ g'.spawned = g.spawned
      /\ g'.pc = "result" \/ (g'.pc = "reap" /\ g'.after = "result")
  <2>1. "result" \in Points \ {"gate"} /\ "result" \in Goals
    BY DEF Points, Goals
  <2> QED
    BY <1>1, <2>1, ReapKeeps, GoKeeps DEF Stays, Same, Rest
<1>3. Sane(g)'
  BY <1>1, <1>2 DEF Sane
<1>4. Work'
  BY <1>1, <1>2 DEF IInv, Work, Placed, Coded, Quieted, Over, Sent, Idle, Allowed
<1>5. Onward
  BY <1>1, <1>2 DEF Onward, Done, Past
<1> QED
  BY <1>1, <1>2, <1>3, <1>4, <1>5, SilenceIsTrue DEF Proper

\* The fault is recorded on top of where the guard goes.
LEMMA FaultKeeps ==
  ASSUME NEW s \in GuardStates, Sane(s), NEW fault \in Problems
  PROVE  LET t == [s EXCEPT !.fault = fault] IN
         /\ t \in GuardStates /\ Sane(t) /\ t.fault = fault /\ t.pc = s.pc /\ t.after = s.after
         /\ t.attempt = s.attempt /\ t.spawned = s.spawned /\ t.cancel = s.cancel
<1> DEFINE t == [s EXCEPT !.fault = fault]
<1>1. t \in GuardStates
  BY DEF GuardStates
<1>2. /\ t.fault = fault /\ t.pc = s.pc /\ t.after = s.after
      /\ t.attempt = s.attempt /\ t.spawned = s.spawned /\ t.cancel = s.cancel
      /\ t.closed = s.closed /\ t.problem = s.problem /\ t.gate = s.gate /\ t.decision = s.decision
  BY DEF GuardStates
<1> HIDE DEF t
<1>3. Sane(t)
  BY <1>2 DEF Sane
<1> QED
  BY <1>1, <1>2, <1>3 DEF t

\* After the child was waited for, its group is quiet or the guard is cancelled.
LEMMA ResultKeeps == ASSUME AttemptsMakeSense, IInv, Result PROVE Proper
<1>1. g.pc = "result" /\ child' = "none" /\ UNCHANGED <<o, up, code, strays, started>>
  BY DEF Result, At
<1>2. /\ g \in GuardStates /\ Sane(g) /\ g.problem \in Problems /\ "facts" \in Points \ {"gate"}
      /\ "facts" \in Goals /\ "none" \in Problems
  BY DEF IInv, Control, TypeOK, GuardStates, Points, Goals, Problems
<1>3. child = "exited" /\ g.spawned /\ code[g.attempt] # NoCode
  BY <1>1 DEF IInv, Work, Placed, Coded
<1> PICK n \in GuardStates : n = Go(g, "facts") /\ Sane(n) /\ n.pc = "facts" /\ Rest(g, n)
  BY <1>2, GoKeeps
<1>4. ASSUME g' \in GuardStates, Sane(g'), g'.attempt = g.attempt, g'.spawned = g.spawned,
             g'.fault # "missing-executable",
             \/ g'.pc = "facts"
             \/ g'.pc = "reap" /\ g'.after = "facts" /\ g'.fault # "none"
      PROVE  Proper
  <2>1. Sane(g)'
    BY <1>1, <1>4 DEF Sane
  <2>2. Work'
    BY <1>1, <1>3, <1>4 DEF IInv, Work, Placed, Coded, Quieted, Over, Sent, Idle, Allowed
  <2>3. Onward
    BY <1>1, <1>4 DEF Onward, Done, Past
  <2> QED
    BY <1>1, <1>4, <2>1, <2>2, <2>3, SilenceIsTrue DEF Proper
<1>5. CASE g.problem # "none" /\ g' = [n EXCEPT !.fault = g.problem]
  <2>1. /\ g' \in GuardStates /\ Sane(g') /\ g'.pc = n.pc
        /\ g'.attempt = n.attempt /\ g'.spawned = n.spawned /\ g'.fault = g.problem
    BY <1>2, <1>5, FaultKeeps
  <2>2. g.problem # "missing-executable"
    BY <1>2 DEF Sane
  <2> QED
    BY <1>4, <2>1, <2>2 DEF Rest
<1>6. CASE g' = [n EXCEPT !.fault = "none"]
  <2>1. /\ g' \in GuardStates /\ Sane(g') /\ g'.pc = n.pc
        /\ g'.attempt = n.attempt /\ g'.spawned = n.spawned /\ g'.fault = "none"
    BY <1>2, <1>6, FaultKeeps
  <2> QED
    BY <1>4, <1>6, <2>1 DEF Rest
<1>7. CASE g' = [Reaping(Failed(g, "ownership-uncertain", FALSE), "facts")
                   EXCEPT !.fault = "ownership-uncertain"]
  <2>1. /\ "ownership-uncertain" \in Problems \ {"none", "missing-executable"} /\ FALSE \in BOOLEAN
        /\ "ownership-uncertain" \notin Timeouts
    BY DEF Problems, Timeouts
  <2> PICK s \in GuardStates : s = Failed(g, "ownership-uncertain", FALSE) /\ Stays(g, s)
    BY <1>2, <2>1, FailureKeeps DEF Stays
  <2> PICK r \in GuardStates : /\ r = Reaping(s, "facts") /\ Sane(r) /\ r.pc = "reap" /\ r.after = "facts"
                               /\ r.attempt = s.attempt /\ r.spawned = s.spawned
    BY <1>2, ReapKeeps DEF Stays
  <2>2. /\ g' \in GuardStates /\ Sane(g') /\ g'.pc = r.pc /\ g'.after = r.after
        /\ g'.fault = "ownership-uncertain" /\ g'.attempt = r.attempt /\ g'.spawned = r.spawned
    BY <1>7, <2>1, FaultKeeps, ZenonT(30)
  <2> QED
    BY <1>4, <2>2 DEF Stays, Same
<1>8. \/ g.problem # "none" /\ g' = [n EXCEPT !.fault = g.problem]
      \/ g' = [n EXCEPT !.fault = "none"]
      \/ g' = [Reaping(Failed(g, "ownership-uncertain", FALSE), "facts")
                 EXCEPT !.fault = "ownership-uncertain"]
  BY DEF Result
<1> QED
  BY <1>5, <1>6, <1>7, <1>8

\* The facts of an attempt without a fault are its exit code, for good.
LEMMA SendFactsKeeps == ASSUME AttemptsMakeSense, IInv, SendFacts PROVE Proper
<1>1. g.pc = "facts" /\ UNCHANGED <<o, child, code, strays, started>>
  BY DEF SendFacts, At, work
<1>2. g \in GuardStates /\ Sane(g) /\ TypeOK /\ g.fault \in Problems /\ "next" \in Points \ {"gate"}
  BY DEF IInv, Control, TypeOK, GuardStates, Points
<1> PICK f \in UpFrames : /\ f = Facts(g, g.fault) /\ f.kind = "facts" /\ f.problem = g.fault
                          /\ f.attempt = g.attempt /\ f.raw = code[g.attempt]
  BY <1>2, FactsTyped
<1> PICK closed \in BOOLEAN : closed = (g.closed \/ (g.attempt = 0 /\ f.raw # 0))
  BY <1>2 DEF GuardStates
<1> DEFINE n == [g EXCEPT !.pc = "next", !.closed = closed]
<1>3. Emitting(n, f)
  BY DEF SendFacts, Go
<1>4. n \in GuardStates
  BY <1>2 DEF GuardStates
<1>5. /\ n.pc = "next" /\ n.attempt = g.attempt /\ n.spawned = g.spawned /\ n.cancel = g.cancel
      /\ n.closed = closed /\ n.problem = g.problem /\ n.gate = g.gate /\ n.decision = g.decision
  BY <1>2 DEF GuardStates
<1> HIDE DEF n
<1>6. Sane(n)
  BY <1>2, <1>5 DEF Sane
<1>7. Stays(n, g') /\ up' \in {up, Append(up, f)}
  BY <1>3, <1>4, <1>6, SendKeeps
<1>8. /\ g' \in GuardStates /\ Sane(g') /\ g'.pc = "next" /\ g'.attempt = g.attempt
      /\ g'.spawned = g.spawned /\ (g.cancel # 0 => g'.cancel # 0)
  BY <1>5, <1>7 DEF Stays, Same
<1>9. Sane(g)'
  BY <1>1, <1>8 DEF Sane
<1>10. Sent' => Sent
  BY <1>1, <1>2, <1>7, SentStays
<1>11. Work'
  BY <1>1, <1>8, <1>10 DEF IInv, Work, Placed, Coded, Quieted, Over, Idle, Allowed
<1>12. Onward
  BY <1>1, <1>8 DEF Onward, Done, Past
<1>13. Told(f.attempt, f)'
  <2>1. /\ g.fault = "none" => code[g.attempt] # NoCode
        /\ g.fault = "missing-executable" => code[g.attempt] = NoCode
    BY <1>1 DEF IInv, Work, Coded
  <2>2. child = "none"
    BY <1>1 DEF IInv, Work, Placed, Idle
  <2>3. Done(f.attempt)'
    BY <1>1, <1>8, <2>2 DEF Done, Past
  <2> QED
    BY <1>1, <2>1, <2>3 DEF Told
<1> QED
  BY <1>7, <1>8, <1>9, <1>11, <1>12, <1>13 DEF Proper, Truly

\* Whoever marks the row has an empty group: it never spawned, or every attempt
\* was seen quiet, or the group was reaped.
LEMMA DrainKeeps == ASSUME AttemptsMakeSense, IInv, Drain PROVE Proper
<1> PICK p \in GuardStates : p = Polled(g) /\ Stays(g, p)
  BY Heard DEF IInv, Control, TypeOK, Stays
<1> DEFINE s == [p EXCEPT !.closed = TRUE]
<1>1. /\ g.pc = "drain" /\ UNCHANGED <<o, up, child, code, strays, started>>
      /\ g' = IF s.cancel # 0 /\ s.spawned THEN Reaping(s, "mark") ELSE Go(s, "mark")
  BY DEF Drain, At, work
<1>2. /\ s \in GuardStates /\ s.closed /\ s.pc = p.pc /\ s.attempt = p.attempt /\ s.spawned = p.spawned
      /\ s.cancel = p.cancel /\ s.problem = p.problem /\ s.gate = p.gate /\ s.decision = p.decision
  BY DEF GuardStates
<1> HIDE DEF s
<1>3. Sane(s) /\ s.attempt = g.attempt /\ s.spawned = g.spawned /\ (g.cancel # 0 => s.cancel # 0)
  BY <1>2 DEF Sane, Stays, Same
<1>4. child = "none" /\ (strays => g.spawned)
  BY <1>1 DEF IInv, Work, Placed, Idle
<1>5. /\ g' \in GuardStates /\ Sane(g') /\ g'.attempt = g.attempt /\ g'.spawned = g.spawned
      /\ g'.pc = "mark" \/ (g'.pc = "reap" /\ g'.after = "mark")
  <2>1. "mark" \in Points \ {"gate"} /\ "mark" \in Goals
    BY DEF Points, Goals
  <2>2. CASE s.cancel # 0 /\ s.spawned
    BY <1>1, <1>2, <1>3, <2>1, <2>2, ReapKeeps
  <2>3. CASE ~ (s.cancel # 0 /\ s.spawned)
    <3>1. g' = Go(s, "mark")
      BY <1>1, <2>3
    <3> QED
      BY <1>2, <1>3, <2>1, <3>1, GoKeeps DEF Rest
  <2> QED
    BY <2>2, <2>3
<1>6. Sane(g)'
  BY <1>1, <1>5 DEF Sane
<1>7. Work'
  BY <1>1, <1>4, <1>5 DEF IInv, Work, Placed, Coded, Quieted, Over, Sent, Idle, Allowed
<1>8. Onward
  BY <1>1, <1>5 DEF Onward, Done, Past
<1> QED
  BY <1>1, <1>5, <1>6, <1>7, <1>8, SilenceIsTrue DEF Proper

LEMMA MarkKeeps == ASSUME AttemptsMakeSense, IInv, Mark PROVE Proper
<1>1. g.pc = "mark" /\ UNCHANGED <<o, child, code, strays, started>>
  BY DEF Mark, At, work
<1>2. g \in GuardStates /\ Sane(g) /\ child = "none"
  BY <1>1 DEF IInv, Control, TypeOK, Work, Placed, Idle
<1> DEFINE f == [kind |-> "draining"]
<1>3. f \in UpFrames /\ f.kind # "facts"
  BY DEF UpFrames, Notices
<1> HIDE DEF f
<1> PICK exit \in Int : exit = GuardExitCode(g)
  BY <1>2 DEF GuardExitCode, GuardStates, Cancellations, Signals
<1>4. exit = 0 => g.problem = "none" /\ g.cancel = 0
  BY <1>2 DEF GuardExitCode, GuardStates, Cancellations, Signals, Sane
<1>5. /\ g' \in GuardStates /\ Sane(g') /\ g'.pc = "exited" /\ g'.attempt = g.attempt
      /\ g'.spawned = g.spawned /\ (g'.exit = 0 => g'.problem = "none" /\ g'.cancel = 0)
      /\ up' \in {up, Append(up, f)}
  <2>1. CASE Emitting(Exit(g, exit), f)
    <3> PICK n \in GuardStates : /\ n = Exit(g, exit) /\ Sane(n) /\ n.pc = "exited" /\ n.exit = exit
                                 /\ Rest(g, n)
      BY <1>2, ExitKeeps
    <3>1. Stays(n, g') /\ g'.problem = n.problem /\ g'.cancel = n.cancel /\ up' \in {up, Append(up, f)}
      BY <2>1, SendKeeps
    <3> QED
      BY <1>4, <3>1 DEF Stays, Same, Rest
  <2>2. CASE g' = Exit(g, 75) /\ UNCHANGED up
    BY <1>2, <2>2, ExitKeeps, SMTT(30) DEF Rest
  <2> QED
    BY <2>1, <2>2 DEF Mark, f
<1>6. Sane(g)'
  BY <1>1, <1>5 DEF Sane
<1>7. Work'
  BY <1>1, <1>2, <1>5 DEF IInv, Work, Placed, Coded, Quieted, Over, Idle, Allowed
<1>8. Onward
  BY <1>1, <1>2, <1>5 DEF Onward, Done, Past
<1> QED
  BY <1>3, <1>5, <1>6, <1>7, <1>8 DEF Proper, Truly

\* A guard that breaks off reaps, or had spawned nothing.
LEMMA BreakKeeps == ASSUME AttemptsMakeSense, IInv, Break \/ Abort PROVE Proper
<1>1. /\ g \in GuardStates /\ Sane(g) /\ UNCHANGED <<o, up, code, strays, started>>
  BY DEF Break, Abort, IInv, Control, TypeOK, work
<1>2. CASE Break
  <2>1. /\ g.pc \in {"register", "next", "result", "mark"}
        /\ g' \in {Reaping(CancelledBy(g, 15), "abort"), Exit(g, 70)}
        /\ child' = IF g.pc = "result" THEN "none" ELSE child
    BY <1>2 DEF Break, At
  <2>2. child' = "none"
    BY <2>1 DEF IInv, Work, Placed, Idle
  <2>3. 15 \in Signals /\ "abort" \in Goals
    BY DEF Signals, Goals
  <2> PICK c \in GuardStates : c = CancelledBy(g, 15) /\ Stays(g, c)
    BY <1>1, <2>3, CancelKeeps DEF Stays
  <2>4. /\ g' \in GuardStates /\ Sane(g') /\ g'.attempt = g.attempt /\ g'.spawned = g.spawned
        /\ (g'.pc = "exited" /\ g'.exit = 70) \/ (g'.pc = "reap" /\ g'.after = "abort")
    <3>1. CASE g' = Reaping(c, "abort")
      BY <2>3, <3>1, ReapKeeps DEF Stays, Same
    <3>2. CASE g' = Exit(g, 70)
      BY <1>1, <3>2, ExitKeeps DEF Rest
    <3> QED
      BY <2>1, <3>1, <3>2
  <2>5. Sane(g)'
    BY <1>1, <2>4 DEF Sane
  <2>6. Work'
    BY <1>1, <2>1, <2>2, <2>4 DEF IInv, Work, Placed, Coded, Quieted, Over, Sent, Idle, Allowed
  <2>7. Onward
    BY <1>1, <2>1, <2>2, <2>4 DEF Onward, Done, Past
  <2> QED
    BY <1>1, <2>4, <2>5, <2>6, <2>7, SilenceIsTrue DEF Proper
<1>3. CASE Abort
  <2>1. g.pc = "abort" /\ g' = Exit(g, 70) /\ child' = child
    BY <1>3 DEF Abort, At, work
  <2>2. /\ g' \in GuardStates /\ Sane(g') /\ g'.pc = "exited" /\ g'.exit = 70 /\ Rest(g, g')
    BY <1>1, <2>1, ExitKeeps
  <2>3. Sane(g)'
    BY <1>1, <2>2 DEF Sane
  <2>4. Work'
    BY <1>1, <2>1, <2>2 DEF IInv, Work, Placed, Coded, Quieted, Over, Sent, Idle, Allowed, Rest
  <2>5. Onward
    BY <1>1, <2>1, <2>2 DEF Onward, Done, Past, Rest
  <2> QED
    BY <1>1, <2>2, <2>3, <2>4, <2>5, SilenceIsTrue DEF Proper
<1> QED
  BY <1>2, <1>3

\* A signal is like a frame; a kill stops the guard where it is.
LEMMA StruckKeeps == ASSUME AttemptsMakeSense, IInv, GuardSignalled \/ GuardKilled PROVE Proper
<1>1. /\ g \in GuardStates /\ Sane(g) /\ UNCHANGED <<o, up, child, code, strays, started>>
      /\ g.pc \notin {"exited", "killed"}
  BY DEF GuardSignalled, GuardKilled, Ended, IInv, Control, TypeOK, work
<1>2. CASE GuardSignalled
  <2>1. 15 \in Signals
    BY DEF Signals
  <2>2. g.pc = "ask" => g'.cancel # 2
    BY <1>1, <1>2 DEF GuardSignalled, CancelledBy, GuardStates, IInv, Work, Placed
  <2> QED
    BY <1>1, <1>2, <2>1, <2>2, CancelKeeps, Listening DEF GuardSignalled
<1>3. CASE GuardKilled
  <2>1. "killed" \in Points \ {"gate"} /\ g' = Go(g, "killed")
    BY <1>3 DEF Points, GuardKilled
  <2>2. g' \in GuardStates /\ Sane(g') /\ g'.pc = "killed" /\ Rest(g, g')
    BY <1>1, <2>1, GoKeeps
  <2>3. Sane(g)'
    BY <1>1, <2>2 DEF Sane
  <2>4. Work'
    BY <1>1, <2>2 DEF IInv, Work, Placed, Coded, Quieted, Over, Sent, Idle, Allowed, Rest
  <2>5. Onward
    BY <1>1, <2>2 DEF Onward, Done, Past, Rest
  <2> QED
    BY <1>1, <2>2, <2>3, <2>4, <2>5, SilenceIsTrue DEF Proper
<1> QED
  BY <1>2, <1>3

\* What a step of the guard may touch beside its own record.
LEMMA GuardTouches ==
  ASSUME TypeOK, GuardSteps \/ GuardSignalled \/ GuardKilled
  PROVE  /\ g.pc # "exited" /\ UNCHANGED <<o, code, expired>> /\ down' \in {down, <<>>}
         /\ child' \in {child, "none", "running"} /\ strays' \in {strays, FALSE}
         /\ started' \in {started, started \union {g.attempt}} /\ dumps' \in {dumps, dumps + 1}
<1>1. CASE Break \/ Abort \/ Boot \/ Register \/ NextAttempt \/ Ask \/ GatePoll \/ GateTimeout \/ Check \/ Recheck \/ Fork
  BY <1>1 DEF Break, Abort, Boot, Register, NextAttempt, Ask, GatePoll, GateTimeout, Check, Recheck, Fork, At, work
<1>2. CASE WatchPoll \/ WatchExpires \/ WatchStalls \/ WatchCancelled \/ WatchChildGone \/ DumpWait \/ ReapPoll
  BY <1>2 DEF WatchPoll, WatchExpires, WatchStalls, WatchCancelled, WatchChildGone, DumpWait, ReapPoll,
              Ending, At, work
<1>3. CASE ReapDone \/ ReapExpires \/ Collect \/ Result \/ SendFacts \/ Drain \/ Mark
  BY <1>3 DEF ReapDone, ReapExpires, Collect, Result, SendFacts, Drain, Mark, At, work
<1>4. CASE GuardSignalled \/ GuardKilled
  BY <1>4 DEF GuardSignalled, GuardKilled, Ended, work
<1> QED
  BY <1>1, <1>2, <1>3, <1>4 DEF GuardSteps

LEMMA GuardIsProper ==
  ASSUME AttemptsMakeSense, IInv, GuardSteps \/ GuardSignalled \/ GuardKilled PROVE Proper
<1>1. CASE Break \/ Abort \/ Boot \/ Register \/ NextAttempt \/ Ask \/ GatePoll \/ GateTimeout
  BY <1>1, BreakKeeps, BootKeeps, RegisterKeeps, NextKeeps, AskKeeps, GatePollKeeps, GateTimeoutKeeps
<1>2. CASE Check \/ Recheck \/ Fork \/ WatchPoll \/ WatchExpires \/ WatchStalls \/ WatchCancelled
  BY <1>2, CheckKeeps, RecheckKeeps, ForkKeeps, WatchKeeps
<1>3. CASE WatchChildGone \/ DumpWait \/ ReapPoll \/ ReapDone \/ ReapExpires
  BY <1>3, ChildGoneKeeps, DumpKeeps, ReapKept, ReapExpiresKeeps
<1>4. CASE Collect \/ Result \/ SendFacts \/ Drain \/ Mark
  BY <1>4, CollectKeeps, ResultKeeps, SendFactsKeeps, DrainKeeps, MarkKeeps
<1>5. CASE GuardSignalled \/ GuardKilled
  BY <1>5, StruckKeeps
<1> QED
  BY <1>1, <1>2, <1>3, <1>4, <1>5 DEF GuardSteps

\* So the guard's steps keep the invariant.
LEMMA GuardKeeps ==
  ASSUME AttemptsMakeSense, IInv, GuardSteps \/ GuardSignalled \/ GuardKilled PROVE IInv'
<1>1. Proper /\ TypeOK
  BY GuardIsProper DEF IInv, Control
<1>2. /\ g.pc # "exited" /\ UNCHANGED <<o, code, expired>> /\ down' \in {down, <<>>}
      /\ child' \in {child, "none", "running"} /\ strays' \in {strays, FALSE}
      /\ started' \in {started, started \union {g.attempt}} /\ dumps' \in {dumps, dumps + 1}
  BY <1>1, GuardTouches
<1> PICK f \in UpFrames : up' \in {up, Append(up, f)} /\ (f.kind = "facts" => Told(f.attempt, f)')
  BY <1>1 DEF Proper, Truly
<1>3. TypeOK'
  <2>1. g.attempt \in 0..Attempts
    BY <1>1 DEF TypeOK, GuardStates
  <2>2. g' \in GuardStates
    BY <1>1 DEF Proper
  <2>3. up \in Seq(UpFrames)
    BY <1>1 DEF TypeOK
  <2>4. up' \in Seq(UpFrames)
    BY <2>3
  <2>5. down' \in Seq(DownFrames)
    <3>1. down \in Seq(DownFrames) /\ <<>> \in Seq(DownFrames)
      BY <1>1 DEF TypeOK
    <3>2. down' = down \/ down' = <<>>
      BY <1>2
    <3> QED
      BY <3>1, <3>2
  <2>6. o' \in FrameStates /\ code' \in [0..Attempts -> Codes]
    BY <1>1, <1>2 DEF TypeOK
  <2>7. started' \subseteq 0..Attempts
    BY <1>1, <1>2, <2>1 DEF TypeOK
  <2>8. child' \in {"none", "running", "exited"} /\ strays' \in BOOLEAN /\ expired' \in BOOLEAN
    <3>1. child \in {"none", "running", "exited"} /\ strays \in BOOLEAN /\ expired \in BOOLEAN
      BY <1>1 DEF TypeOK
    <3>2. child' \in {child, "none", "running"} /\ strays' \in {strays, FALSE} /\ expired' = expired
      BY <1>2
    <3> QED
      BY <3>1, <3>2
  <2>9. dumps' \in Nat
    <3>1. dumps \in Nat
      BY <1>1 DEF TypeOK
    <3>2. dumps' \in {dumps, dumps + 1}
      BY <1>2
    <3> QED
      BY <3>1, <3>2
  <2> QED
    BY <2>2, <2>4, <2>5, <2>6, <2>7, <2>8, <2>9 DEF TypeOK
<1>4. Control'
  <2>1. \A i \in DOMAIN down' : Decided(down[i])'
    <3>1. CASE down' = down
      BY <1>2, <3>1 DEF IInv, Control, Decided
    <3>2. CASE down' = <<>>
      BY <3>2
    <3> QED
      BY <1>2, <3>1, <3>2
  <2>2. Sane(g)'
    BY <1>1 DEF Proper
  <2> QED
    BY <1>3, <2>1, <2>2 DEF Control
<1>5. TruthOnWire'
  <2> SUFFICES ASSUME NEW i \in DOMAIN up', up'[i].kind = "facts" PROVE Told(up[i].attempt, up[i])'
    BY DEF TruthOnWire
  <2>1. CASE i \in DOMAIN up /\ up'[i] = up[i]
    <3>1. Told(up[i].attempt, up[i])
      BY <2>1 DEF IInv, Records, TruthOnWire
    <3>2. up[i] \in UpFrames
      BY <1>1, <2>1 DEF TypeOK
    <3>3. up[i].attempt \in 0..Attempts
      BY <2>1, <3>2 DEF UpFrames, Notices, Readies, Phases, FactFrames
    <3> QED
      BY <1>1, <1>2, <2>1, <3>1, <3>3 DEF Told, Proper, Onward
  <2>2. CASE up'[i] = f
    BY <2>2 DEF Told
  <2>3. (i \in DOMAIN up /\ up'[i] = up[i]) \/ up'[i] = f
    BY <1>1 DEF TypeOK
  <2> QED
    BY <2>1, <2>2, <2>3
<1>6. Truthful(o)'
  <2>1. 0 \in 0..Attempts /\ (Attempts = 1 => 1 \in 0..Attempts) /\ 1..Attempts \subseteq 0..Attempts
    BY DEF AttemptsMakeSense
  <2> QED
    BY <1>1, <1>2, <2>1 DEF IInv, Records, Truthful, Told, Proper, Onward
<1>7. Settled(o)'
  BY <1>2 DEF IInv, Records, Settled, Unreported, SetupPassed
<1>8. Earned'
  BY <1>2 DEF IInv, Earned
<1> QED
  BY <1>1, <1>4, <1>5, <1>6, <1>7, <1>8 DEF IInv, Records, Proper

-----------------------------------------------------------------------------
(***************************************************************************)
(* The steps of the world.                                                 *)
(***************************************************************************)
\* An exit is of the attempt that runs, and of no attempt that is over.
LEMMA ChildExitKeeps == ASSUME AttemptsMakeSense, IInv, ChildExits PROVE IInv'
<1> PICK result \in {0, 1, -15} : code' = [code EXCEPT ![g.attempt] = result]
  BY DEF ChildExits
<1>1. /\ child = "running" /\ child' = "exited" /\ strays' \in {strays, TRUE}
      /\ UNCHANGED <<g, o, up, down, expired, started, dumps>>
  BY DEF ChildExits
<1>2. TypeOK /\ g.attempt \in 0..Attempts /\ result \in Codes /\ result # NoCode
      /\ code \in [0..Attempts -> Codes]
  BY DEF IInv, Control, TypeOK, GuardStates, Codes, NoCode
<1>3. code'[g.attempt] = result /\ \A k \in 0..Attempts : k # g.attempt => code'[k] = code[k]
  BY <1>2
<1>4. TypeOK'
  <2>1. code' \in [0..Attempts -> Codes]
    BY <1>2
  <2>2. strays' \in BOOLEAN /\ child' \in {"none", "running", "exited"}
    BY <1>1, <1>2 DEF TypeOK
  <2> QED
    BY <1>1, <1>2, <2>1, <2>2 DEF TypeOK
<1>5. Control'
  BY <1>1, <1>4 DEF IInv, Control, Sane, Decided
<1>6. g.attempt \in started /\ g.spawned /\ g.pc \notin Idle /\ ~Sent
  BY <1>1 DEF IInv, Work, Placed, Coded, Quieted, Over
<1>7. Work'
  <2>1. Placed'
    BY <1>1, <1>6 DEF IInv, Work, Placed, Idle, Allowed
  <2>2. Quieted'
    BY <1>1, <1>6 DEF IInv, Work, Quieted, Over, Sent, Idle
  <2>3. Coded'
    BY <1>1, <1>2, <1>3, <1>6 DEF IInv, Work, Coded, Allowed, Idle
  <2> QED
    BY <2>1, <2>2, <2>3 DEF Work
<1>8. ASSUME NEW k \in 0..Attempts, Done(k) PROVE Done(k)' /\ code'[k] = code[k]
  BY <1>1, <1>2, <1>3, <1>8 DEF Done
<1>9. TruthOnWire'
  <2> SUFFICES ASSUME NEW i \in DOMAIN up, up[i].kind = "facts" PROVE Told(up[i].attempt, up[i])'
    BY <1>1 DEF TruthOnWire
  <2>1. up[i].attempt \in 0..Attempts
    BY <1>2 DEF TypeOK, UpFrames, Notices, Readies, Phases, FactFrames
  <2>2. Told(up[i].attempt, up[i])
    BY DEF IInv, Records, TruthOnWire
  <2> QED
    BY <1>1, <1>8, <2>1, <2>2 DEF Told
<1>10. Truthful(o)'
  <2>1. 0 \in 0..Attempts /\ (Attempts = 1 => 1 \in 0..Attempts) /\ 1..Attempts \subseteq 0..Attempts
    BY DEF AttemptsMakeSense
  <2> QED
    BY <1>1, <1>8, <2>1 DEF IInv, Records, Truthful, Told
<1>11. Settled(o)'
  BY <1>1 DEF IInv, Records, Settled, Unreported, SetupPassed
<1>12. Earned'
  BY <1>1 DEF IInv, Earned, PassIsEarned
<1> QED
  BY <1>5, <1>7, <1>9, <1>10, <1>11, <1>12 DEF IInv, Records

\* Strays may go, time may pass, and the caller may be interrupted or die.
LEMMA OthersKeep ==
  ASSUME AttemptsMakeSense, IInv, StraysExit \/ DeadlinePasses \/ OwnerSignal \/ OwnerCrashes
  PROVE  IInv'
<1>1. /\ UNCHANGED <<g, down, child, code, started, dumps>> /\ strays' \in {strays, FALSE}
      /\ expired' \in {expired, TRUE} /\ up' \in {up, <<>>}
      /\ \/ UNCHANGED o
         \/ o.pc = "loop" /\ o' = [o EXCEPT !.signal = 2]
         \/ o.pc = "loop" /\ o' = [o EXCEPT !.pc = "gone"]
  BY DEF StraysExit, DeadlinePasses, OwnerSignal, OwnerCrashes, work
<1>2. TypeOK
  BY DEF IInv, Control
<1>3. o' \in FrameStates
  <2>1. o \in FrameStates
    BY <1>2 DEF TypeOK
  <2>2. CASE o' = [o EXCEPT !.signal = 2]
    <3>1. 2 \in Cancellations
      BY DEF Cancellations, Signals
    <3> QED
      BY <2>1, <2>2, <3>1 DEF FrameStates
  <2>3. CASE o' = [o EXCEPT !.pc = "gone"]
    BY <2>1, <2>3 DEF FrameStates
  <2> QED
    BY <1>1, <2>1, <2>2, <2>3
<1>4. /\ o'.continued = o.continued /\ o'.setupFacts = o.setupFacts /\ o'.facts = o.facts
      /\ o'.factsBy = o.factsBy /\ o'.ready = o.ready /\ o'.phase = o.phase /\ o'.phases = o.phases
      /\ o'.readies = o.readies /\ o'.deciding = o.deciding /\ o'.draining = o.draining
      /\ o'.verdict = o.verdict /\ (o.pc # "loop" => o' = o)
  BY <1>1, <1>2 DEF TypeOK, FrameStates
<1>5. TypeOK'
  <2>1. up \in Seq(UpFrames) /\ <<>> \in Seq(UpFrames)
    BY <1>2 DEF TypeOK
  <2>2. up' = up \/ up' = <<>>
    BY <1>1
  <2>3. up' \in Seq(UpFrames)
    BY <2>1, <2>2
  <2>4. strays' \in BOOLEAN /\ expired' \in BOOLEAN
    BY <1>1, <1>2 DEF TypeOK
  <2> QED
    BY <1>1, <1>2, <1>3, <2>3, <2>4 DEF TypeOK
<1>6. Control'
  BY <1>1, <1>4, <1>5 DEF IInv, Control, Sane, Decided
<1>7. Sent' => Sent
  <2>1. up' = up \/ up' = <<>>
    BY <1>1
  <2>2. DOMAIN <<>> = {}
    OBVIOUS
  <2> QED
    BY <1>4, <2>1, <2>2 DEF Sent
<1>8. Work'
  <2>1. strays' => strays
    BY <1>1
  <2>2. Placed' /\ Coded'
    BY <1>1, <1>4, <2>1 DEF IInv, Work, Placed, Coded, Allowed
  <2>3. Quieted'
    BY <1>1, <1>7, <2>1 DEF IInv, Work, Quieted, Over
  <2> QED
    BY <2>2, <2>3 DEF Work
<1>9. Records'
  <2>1. TruthOnWire'
    <3>1. CASE up' = up
      BY <1>1, <3>1 DEF IInv, Records, TruthOnWire, Told, Done
    <3>2. CASE up' = <<>>
      BY <3>2 DEF TruthOnWire
    <3> QED
      BY <1>1, <3>1, <3>2
  <2>2. Truthful(o)'
    BY <1>1, <1>4 DEF IInv, Records, Truthful, Told, Done
  <2>3. Settled(o)'
    BY <1>1, <1>4 DEF IInv, Records, Settled, Unreported, SetupPassed
  <2> QED
    BY <2>1, <2>2, <2>3 DEF Records
<1>10. Earned'
  BY <1>1, <1>4 DEF IInv, Earned, PassIsEarned
<1> QED
  BY <1>6, <1>8, <1>9, <1>10 DEF IInv
-----------------------------------------------------------------------------
(***************************************************************************)
(* The steps of the controller.                                            *)
(***************************************************************************)
\* A controller that only adds to what it has continued disturbs nobody.
LEMMA OwnerMoves ==
  ASSUME IInv, UNCHANGED <<g, child, code, strays, started, expired, dumps>>,
         o' \in FrameStates, o.continued \subseteq o'.continued,
         up' = up \/ up' = <<>>, down' \in Seq(DownFrames),
         \A i \in DOMAIN down' : Decided(down[i])',
         Sent' => Sent, Truthful(o'), Settled(o'), Earned'
  PROVE  IInv'
<1>1. TypeOK
  BY DEF IInv, Control
<1>2. TypeOK'
  <2>1. up \in Seq(UpFrames) /\ <<>> \in Seq(UpFrames)
    BY <1>1 DEF TypeOK
  <2>2. up' \in Seq(UpFrames)
    BY <2>1
  <2> QED
    BY <1>1, <2>2 DEF TypeOK
<1>3. Control'
  <2>1. Sane(g)'
    BY DEF IInv, Control, Sane
  <2> QED
    BY <1>2, <2>1 DEF Control
<1>4. Work'
  <2>1. \A k : Allowed(k) => Allowed(k)'
    BY DEF Allowed
  <2>2. Placed'
    BY <2>1 DEF IInv, Work, Placed
  <2>3. Quieted'
    BY DEF IInv, Work, Quieted, Over
  <2>4. Coded'
    BY <2>1 DEF IInv, Work, Coded
  <2> QED
    BY <2>2, <2>3, <2>4 DEF Work
<1>5. Records'
  <2>1. TruthOnWire'
    <3>1. CASE up' = up
      BY <3>1 DEF IInv, Records, TruthOnWire, Told, Done
    <3>2. CASE up' = <<>>
      BY <3>2 DEF TruthOnWire
    <3> QED
      BY <3>1, <3>2
  <2>2. Truthful(o)'
    BY DEF Truthful, Told, Done
  <2>3. Settled(o)'
    BY DEF Settled, Unreported, SetupPassed
  <2> QED
    BY <2>1, <2>2, <2>3 DEF Records
<1> QED
  BY <1>3, <1>4, <1>5 DEF IInv

\* What the controller has written down stays true while only other fields change.
LEMMA NotesStand ==
  ASSUME NEW p \in FrameStates, NEW q \in FrameStates, Truthful(p), Settled(p),
         q.setupFacts = p.setupFacts, q.facts = p.facts, q.factsBy = p.factsBy,
         q.ready = p.ready, q.phase = p.phase, q.phases = p.phases, q.readies = p.readies,
         q.deciding => q.ready # 0
  PROVE  Truthful(q) /\ Settled(q)
BY DEF Truthful, Told, Settled, Unreported, SetupPassed

LEMMA CancelsKeep == ASSUME AttemptsMakeSense, IInv, OwnerCancels PROVE IInv'
<1> PICK sent \in BOOLEAN, f \in DownFrames :
      /\ f.kind = "cancel" /\ o' = [o EXCEPT !.cancelled = TRUE, !.cancelSent = sent]
      /\ down' = Append(down, f)
  <2> DEFINE f == [kind |-> "cancel", signal |-> IF o.signal # 0 THEN o.signal ELSE 15]
  <2>1. o.signal \in Cancellations
    BY DEF IInv, Control, TypeOK, FrameStates
  <2>2. f \in DownFrames /\ f.kind = "cancel"
    BY <2>1 DEF DownFrames, Cancels, Cancellations, Signals
  <2>3. down' = Append(down, f)
    BY DEF OwnerCancels, Deliver
  <2> HIDE DEF f
  <2> QED
    BY <2>2, <2>3 DEF OwnerCancels
<1>1. /\ o \in FrameStates /\ down \in Seq(DownFrames) /\ Truthful(o) /\ Settled(o) /\ o.pc = "loop"
      /\ UNCHANGED <<g, up, child, code, strays, started, expired, dumps>>
  BY DEF IInv, Control, TypeOK, Records, OwnerCancels, Watching, work
<1>2. o' \in FrameStates
  BY <1>1 DEF FrameStates
<1>3. /\ o'.pc = o.pc /\ o'.continued = o.continued /\ o'.setupFacts = o.setupFacts /\ o'.facts = o.facts
      /\ o'.factsBy = o.factsBy /\ o'.ready = o.ready /\ o'.phase = o.phase /\ o'.phases = o.phases
      /\ o'.readies = o.readies /\ o'.deciding = o.deciding /\ o'.draining = o.draining
      /\ o'.verdict = o.verdict
  BY <1>1 DEF FrameStates
<1>4. Truthful(o') /\ Settled(o')
  <2>1. o'.deciding => o'.ready # 0
    BY <1>1, <1>3 DEF Settled
  <2> QED
    BY <1>1, <1>2, <1>3, <2>1, NotesStand
<1>5. Earned' /\ (Sent' => Sent)
  BY <1>1, <1>3 DEF IInv, Earned, Sent
<1>6. down' \in Seq(DownFrames)
  BY <1>1
<1>7. ASSUME NEW i \in DOMAIN down' PROVE Decided(down[i])'
  <2>1. CASE i \in DOMAIN down /\ down'[i] = down[i]
    BY <1>3, <2>1 DEF IInv, Control, Decided
  <2>2. CASE down'[i] = f
    BY <2>2 DEF Decided
  <2>3. (i \in DOMAIN down /\ down'[i] = down[i]) \/ down'[i] = f
    BY <1>1
  <2> QED
    BY <2>1, <2>2, <2>3
<1> QED
  BY <1>1, <1>2, <1>3, <1>4, <1>5, <1>6, <1>7, OwnerMoves

LEMMA DecidesKeep == ASSUME AttemptsMakeSense, IInv, OwnerDecides PROVE IInv'
<1> PICK gates \in Nat : gates = o.gates + 1
  BY DEF IInv, Control, TypeOK, FrameStates
<1>1. /\ o \in FrameStates /\ down \in Seq(DownFrames) /\ Truthful(o) /\ Settled(o) /\ o.pc = "loop"
      /\ UNCHANGED <<g, up, down, child, code, strays, started, expired, dumps>>
      /\ o.ready # 0 /\ o' = [o EXCEPT !.deciding = TRUE, !.gates = gates]
  BY DEF IInv, Control, TypeOK, Records, OwnerDecides, Watching, work
<1>2. o' \in FrameStates
  BY <1>1 DEF FrameStates
<1>3. /\ o'.pc = o.pc /\ o'.continued = o.continued /\ o'.setupFacts = o.setupFacts /\ o'.facts = o.facts
      /\ o'.factsBy = o.factsBy /\ o'.ready = o.ready /\ o'.phase = o.phase /\ o'.phases = o.phases
      /\ o'.readies = o.readies /\ o'.draining = o.draining /\ o'.verdict = o.verdict
  BY <1>1 DEF FrameStates
<1>4. Truthful(o') /\ Settled(o')
  BY <1>1, <1>2, <1>3, NotesStand
<1>5. Earned' /\ (Sent' => Sent)
  BY <1>1, <1>3 DEF IInv, Earned, Sent
<1>6. \A i \in DOMAIN down' : Decided(down[i])'
  BY <1>1, <1>3 DEF IInv, Control, Decided
<1> QED
  BY <1>1, <1>2, <1>3, <1>4, <1>5, <1>6, OwnerMoves
LEMMA SendTyped ==
  ASSUME NEW q \in FrameStates, NEW invalid \in BOOLEAN, NEW decided \in BOOLEAN,
         NEW stop \in {"none"} \union StopReasons, NEW continued \in SUBSET (1..Attempts)
  PROVE  [q EXCEPT !.deciding = FALSE, !.invalid = invalid, !.decided = decided,
                   !.reason = stop, !.continued = continued] \in FrameStates
<1> DEFINE p == [q EXCEPT !.deciding = FALSE, !.invalid = invalid, !.decided = decided]
<1>1. p \in FrameStates
  BY DEF FrameStates
<1> HIDE DEF p
<1>2. [p EXCEPT !.reason = stop] \in FrameStates
  BY <1>1 DEF FrameStates
<1> DEFINE r == [p EXCEPT !.reason = stop]
<1> HIDE DEF r
<1>3. [r EXCEPT !.continued = continued] \in FrameStates
  BY <1>2 DEF FrameStates, r
<1> QED
  BY <1>3 DEF p, r

\* A decision to continue is in the controller's record before it is on its way.
LEMMA SendsKeep == ASSUME AttemptsMakeSense, IInv, OwnerSends PROVE IInv'
<1>1. /\ o \in FrameStates /\ down \in Seq(DownFrames) /\ Truthful(o) /\ Settled(o) /\ o.pc = "loop"
      /\ UNCHANGED <<g, up, child, code, strays, started, expired, dumps>> /\ o.ready \in 1..Attempts
  BY DEF IInv, Control, TypeOK, FrameStates, Records, Settled, OwnerSends, work
<1> PICK reason \in {"none"} \union StopReasons :
      /\ o' = [o EXCEPT !.deciding = FALSE, !.invalid = @ \/ Ended, !.decided = ~Ended,
                        !.reason = IF Ended THEN @ ELSE reason,
                        !.continued = IF reason = "none" THEN @ \union {o.ready} ELSE @]
      /\ Deliver([kind |-> "decision", attempt |-> o.ready,
                  action |-> IF reason = "none" THEN "continue" ELSE "stop"])
  BY DEF OwnerSends
<1> PICK continued \in SUBSET (1..Attempts) :
      continued = IF reason = "none" THEN o.continued \union {o.ready} ELSE o.continued
  BY <1>1 DEF FrameStates
<1> PICK invalid \in BOOLEAN, decided \in BOOLEAN, stop \in {"none"} \union StopReasons :
      invalid = (o.invalid \/ Ended) /\ decided = ~Ended /\ stop = IF Ended THEN o.reason ELSE reason
  BY <1>1 DEF FrameStates
<1> PICK f \in DownFrames : /\ Deliver(f) /\ f.attempt = o.ready
                            /\ f.action = IF reason = "none" THEN "continue" ELSE "stop"
  <2> DEFINE f == [kind |-> "decision", attempt |-> o.ready,
                   action |-> IF reason = "none" THEN "continue" ELSE "stop"]
  <2>1. f \in DownFrames
    BY <1>1 DEF DownFrames, Decisions
  <2>2. f.attempt = o.ready /\ f.action = IF reason = "none" THEN "continue" ELSE "stop"
    OBVIOUS
  <2>3. Deliver(f)
    OBVIOUS
  <2> HIDE DEF f
  <2> QED
    BY <2>1, <2>2, <2>3
<1>2. o' = [o EXCEPT !.deciding = FALSE, !.invalid = invalid, !.decided = decided,
                     !.reason = stop, !.continued = continued]
  BY <1>1 DEF FrameStates
<1>3. o' \in FrameStates
  <2>1. o \in FrameStates
    BY <1>1
  <2>2. [o EXCEPT !.deciding = FALSE, !.invalid = invalid, !.decided = decided,
                  !.reason = stop, !.continued = continued] \in FrameStates
    BY <2>1, SendTyped
  <2> QED
    BY <1>2, <2>2
<1>4. /\ o'.pc = o.pc /\ o'.setupFacts = o.setupFacts /\ o'.facts = o.facts /\ ~o'.deciding
      /\ o'.factsBy = o.factsBy /\ o'.ready = o.ready /\ o'.phase = o.phase /\ o'.phases = o.phases
      /\ o'.readies = o.readies /\ o'.draining = o.draining /\ o'.verdict = o.verdict
      /\ o'.continued = continued
  BY <1>1, <1>2 DEF FrameStates
<1>5. o.continued \subseteq o'.continued /\ (f.action = "continue" => f.attempt \in o'.continued)
  BY <1>4
<1>6. Truthful(o') /\ Settled(o')
  <2>1. o'.deciding => o'.ready # 0
    BY <1>4
  <2>2. o \in FrameStates /\ Truthful(o) /\ Settled(o)
    BY <1>1
  <2>3. /\ o'.setupFacts = o.setupFacts /\ o'.facts = o.facts /\ o'.factsBy = o.factsBy
        /\ o'.ready = o.ready /\ o'.phase = o.phase /\ o'.phases = o.phases /\ o'.readies = o.readies
    BY <1>4
  <2> QED
    BY <2>1, <2>2, <2>3 DEF Truthful, Told, Settled, Unreported, SetupPassed
<1>7. Earned' /\ (Sent' => Sent)
  BY <1>1, <1>4 DEF IInv, Earned, Sent
<1>8. down' = down \/ down' = Append(down, f)
  BY DEF Deliver
<1>9. down' \in Seq(DownFrames)
  BY <1>1, <1>8
<1>10. ASSUME NEW i \in DOMAIN down' PROVE Decided(down[i])'
  <2>1. CASE i \in DOMAIN down /\ down'[i] = down[i]
    BY <1>5, <2>1 DEF IInv, Control, Decided
  <2>2. CASE down'[i] = f
    BY <1>5, <2>2 DEF Decided
  <2>3. (i \in DOMAIN down /\ down'[i] = down[i]) \/ down'[i] = f
    BY <1>1, <1>8
  <2> QED
    BY <2>1, <2>2, <2>3
<1> QED
  BY <1>1, <1>3, <1>5, <1>6, <1>7, <1>9, <1>10, OwnerMoves
-----------------------------------------------------------------------------
(***************************************************************************)
(* What the controller records of the guard's frames.                      *)
(***************************************************************************)
\* Frames touch neither the controller's decisions nor its place.
Unmoved(q, p) ==
  p.continued = q.continued /\ p.signal = q.signal /\ p.pc = q.pc /\ p.verdict = q.verdict /\ p.deciding = q.deciding
Heeds(q) ==
  q \in FrameStates /\ Truthful(q) /\ Settled(q) /\ Unmoved(o, q) /\ ~q.deciding /\ (q.draining => Sent)

\* Of the frames that carry no facts, only a gate and a phase open anything.
LEMMA NoticeHeeded ==
  ASSUME NEW q, Heeds(q), NEW f \in UpFrames, Accepts(q, f), f.kind \in {"registered", "draining"},
         f.kind = "draining" => Sent
  PROVE  Heeds(Recorded(q, f))
<1>1. q \in FrameStates /\ Truthful(q) /\ Settled(q) /\ Unmoved(o, q) /\ ~q.deciding /\ (q.draining => Sent)
  BY DEF Heeds
<1>2. CASE f.kind = "registered"
  <2> DEFINE t == [q EXCEPT !.registered = TRUE]
  <2>1. Recorded(q, f) = t
    BY <1>2 DEF Recorded
  <2>2. t \in FrameStates
    BY <1>1 DEF FrameStates
  <2>3. /\ Unmoved(q, t) /\ t.setupFacts = q.setupFacts /\ t.facts = q.facts /\ t.factsBy = q.factsBy
        /\ t.ready = q.ready /\ t.phase = q.phase /\ t.phases = q.phases /\ t.readies = q.readies
        /\ t.draining = q.draining
    BY <1>1 DEF FrameStates, Unmoved
  <2> HIDE DEF t
  <2>4. Truthful(t) /\ Settled(t)
    BY <1>1, <2>3 DEF Truthful, Told, Settled, Unreported, SetupPassed, Unmoved
  <2> QED
    BY <1>1, <2>1, <2>2, <2>3, <2>4 DEF Heeds, Unmoved
<1>3. CASE f.kind = "draining"
  <2> DEFINE t == [q EXCEPT !.draining = TRUE]
  <2>1. Recorded(q, f) = t
    BY <1>3 DEF Recorded
  <2>2. t \in FrameStates
    BY <1>1 DEF FrameStates
  <2>3. /\ Unmoved(q, t) /\ t.setupFacts = q.setupFacts /\ t.facts = q.facts /\ t.factsBy = q.factsBy
        /\ t.ready = q.ready /\ t.phase = q.phase /\ t.phases = q.phases /\ t.readies = q.readies
    BY <1>1 DEF FrameStates, Unmoved
  <2> HIDE DEF t
  <2>4. Truthful(t) /\ Settled(t)
    BY <1>1, <2>3 DEF Truthful, Told, Settled, Unreported, SetupPassed, Unmoved
  <2> QED
    BY <1>1, <1>3, <2>1, <2>2, <2>3, <2>4 DEF Heeds, Unmoved
<1> QED
  BY <1>2, <1>3

LEMMA GateHeeded ==
  ASSUME NEW q, Heeds(q), NEW f \in UpFrames, Accepts(q, f), f.kind = "ready"
  PROVE  Heeds(Recorded(q, f))
<1>1. q \in FrameStates /\ Truthful(q) /\ Settled(q) /\ Unmoved(o, q) /\ ~q.deciding /\ (q.draining => Sent)
  BY DEF Heeds
<1>2. f.attempt \in 0..Attempts
  BY DEF UpFrames, Notices, Readies, Phases, FactFrames
<1>3. HasSetup => ~Unreported(q.setupFacts) /\ SetupPassed(q)
  BY DEF Accepts, AcceptsOne, AcceptsCompound, SetupSettled
<1> PICK readies \in Nat : readies = q.readies + 1 /\ readies > 0
  BY <1>1 DEF FrameStates
<1> DEFINE t == [q EXCEPT !.ready = f.attempt, !.readies = readies, !.decided = FALSE,
                          !.reason = "none", !.phase = FALSE, !.facts = NoFacts]
<1>4. Recorded(q, f) = t
  BY DEF Recorded
<1>5. t \in FrameStates
  <2>1. NoFacts \in Reports
    BY DEF Reports
  <2> DEFINE p == [q EXCEPT !.ready = f.attempt, !.readies = readies, !.decided = FALSE]
  <2>2. p \in FrameStates
    BY <1>1, <1>2 DEF FrameStates
  <2> HIDE DEF p
  <2>3. [p EXCEPT !.reason = "none", !.phase = FALSE, !.facts = NoFacts] \in FrameStates
    BY <2>1, <2>2 DEF FrameStates
  <2> QED
    BY <2>3 DEF p
<1>6. /\ Unmoved(q, t) /\ t.setupFacts = q.setupFacts /\ t.facts = NoFacts /\ t.factsBy = q.factsBy
      /\ t.readies = readies /\ t.draining = q.draining
  BY <1>1 DEF FrameStates, Unmoved
<1> HIDE DEF t
<1>7. Truthful(t)
  BY <1>1, <1>6 DEF Truthful, Told, NoFacts
<1>8. Settled(t)
  BY <1>1, <1>3, <1>6 DEF Settled, Unreported, SetupPassed, Unmoved
<1> QED
  BY <1>1, <1>4, <1>5, <1>6, <1>7, <1>8 DEF Heeds, Unmoved

LEMMA PhaseHeeded ==
  ASSUME NEW q, Heeds(q), NEW f \in UpFrames, Accepts(q, f), f.kind = "phase"
  PROVE  Heeds(Recorded(q, f))
<1>1. q \in FrameStates /\ Truthful(q) /\ Settled(q) /\ Unmoved(o, q) /\ ~q.deciding /\ (q.draining => Sent)
  BY DEF Heeds
<1>2. CASE f.attempt = 0
  <2> DEFINE t == [q EXCEPT !.setupPhase = TRUE]
  <2>1. Recorded(q, f) = t
    BY <1>2 DEF Recorded
  <2>2. t \in FrameStates
    BY <1>1 DEF FrameStates
  <2>3. /\ Unmoved(q, t) /\ t.setupFacts = q.setupFacts /\ t.facts = q.facts /\ t.factsBy = q.factsBy
        /\ t.ready = q.ready /\ t.phase = q.phase /\ t.phases = q.phases /\ t.readies = q.readies
        /\ t.draining = q.draining
    BY <1>1 DEF FrameStates, Unmoved
  <2> HIDE DEF t
  <2>4. Truthful(t) /\ Settled(t)
    BY <1>1, <2>3 DEF Truthful, Told, Settled, Unreported, SetupPassed, Unmoved
  <2> QED
    BY <1>1, <2>1, <2>2, <2>3, <2>4 DEF Heeds, Unmoved
<1>3. CASE f.attempt # 0
  <2>1. q.readies > 0
    <3>1. CASE Attempts = 1
      BY <1>1, <1>3, <3>1 DEF Accepts, AcceptsOne, Settled
    <3>2. CASE Attempts # 1
      <4>1. f.attempt \in 1..q.readies
        BY <1>3, <3>2 DEF Accepts, AcceptsCompound
      <4> QED
        BY <1>1, <4>1 DEF FrameStates
    <3> QED
      BY <3>1, <3>2
  <2>2. f.attempt \in 1..Attempts
    BY <1>3 DEF UpFrames, Notices, Readies, Phases, FactFrames
  <2> PICK phases \in SUBSET (1..Attempts) : phases = q.phases \union {f.attempt}
    BY <1>1, <2>2 DEF FrameStates
  <2> DEFINE t == [q EXCEPT !.phase = TRUE, !.phases = phases]
  <2>3. Recorded(q, f) = t
    BY <1>3 DEF Recorded
  <2>4. t \in FrameStates
    BY <1>1 DEF FrameStates
  <2>5. /\ Unmoved(q, t) /\ t.setupFacts = q.setupFacts /\ t.facts = q.facts /\ t.factsBy = q.factsBy
        /\ t.readies = q.readies /\ t.draining = q.draining
    BY <1>1 DEF FrameStates, Unmoved
  <2> HIDE DEF t
  <2>6. Truthful(t) /\ Settled(t)
    BY <1>1, <2>1, <2>5 DEF Truthful, Told, Settled, Unreported, SetupPassed, Unmoved
  <2> QED
    BY <1>1, <2>3, <2>4, <2>5, <2>6 DEF Heeds, Unmoved
<1> QED
  BY <1>2, <1>3
\* Facts are accepted once, of an attempt that was let through its gate.
LEMMA SetupFactsHeeded ==
  ASSUME NEW q, Heeds(q), NEW f \in UpFrames, Accepts(q, f), f.kind = "facts", f.attempt = 0, Told(0, f)
  PROVE  Heeds(Recorded(q, f))
<1>1. q \in FrameStates /\ Truthful(q) /\ Settled(q) /\ Unmoved(o, q) /\ ~q.deciding /\ (q.draining => Sent)
  BY DEF Heeds
<1>2. Unreported(q.setupFacts)
  BY DEF Accepts, AcceptsOne, AcceptsCompound
<1>3. ~ (q.readies > 0 /\ HasSetup)
  BY <1>1, <1>2 DEF Settled
<1> PICK facts \in Reports : facts = [raw |-> f.raw, problem |-> f.problem] /\ Told(0, facts)
  <2> DEFINE facts == [raw |-> f.raw, problem |-> f.problem]
  <2>1. facts \in Reports
    BY DEF UpFrames, Notices, Readies, Phases, FactFrames, Reports
  <2>2. Told(0, facts)
    BY DEF Told
  <2> QED
    BY <2>1, <2>2
<1> DEFINE t == [q EXCEPT !.setupFacts = facts]
<1>4. Recorded(q, f) = t
  BY DEF Recorded
<1>5. t \in FrameStates
  BY <1>1 DEF FrameStates
<1>6. /\ Unmoved(q, t) /\ t.setupFacts = facts /\ t.facts = q.facts /\ t.factsBy = q.factsBy
      /\ t.ready = q.ready /\ t.phase = q.phase /\ t.phases = q.phases /\ t.readies = q.readies
      /\ t.draining = q.draining
  BY <1>1 DEF FrameStates, Unmoved
<1> HIDE DEF t
<1>7. Truthful(t)
  BY <1>1, <1>6 DEF Truthful
<1>8. Settled(t)
  BY <1>1, <1>3, <1>6 DEF Settled, Unreported, Unmoved
<1> QED
  BY <1>1, <1>4, <1>5, <1>6, <1>7, <1>8 DEF Heeds, Unmoved

LEMMA FactsHeeded ==
  ASSUME AttemptsMakeSense, NEW q, Heeds(q), NEW f \in UpFrames, Accepts(q, f), f.kind = "facts", f.attempt # 0,
         Told(f.attempt, f)
  PROVE  Heeds(Recorded(q, f))
<1>1. q \in FrameStates /\ Truthful(q) /\ Settled(q) /\ Unmoved(o, q) /\ ~q.deciding /\ (q.draining => Sent)
  BY DEF Heeds
<1>2. f.attempt \in 1..Attempts
  BY DEF UpFrames, Notices, Readies, Phases, FactFrames
<1> PICK facts \in Reports : facts = [raw |-> f.raw, problem |-> f.problem] /\ Told(f.attempt, facts)
  <2> DEFINE facts == [raw |-> f.raw, problem |-> f.problem]
  <2>1. facts \in Reports
    BY DEF UpFrames, Notices, Readies, Phases, FactFrames, Reports
  <2>2. Told(f.attempt, facts)
    BY DEF Told
  <2> QED
    BY <2>1, <2>2
<1>3. q.readies > 0
  <2>1. q.phase \/ q.phases # {}
    BY DEF Accepts, AcceptsOne, AcceptsCompound
  <2> QED
    BY <1>1, <2>1 DEF Settled
<1>4. CASE Attempts = 1
  <2> DEFINE t == [q EXCEPT !.facts = facts]
  <2>1. Recorded(q, f) = t
    BY <1>4 DEF Recorded
  <2>2. t \in FrameStates
    BY <1>1 DEF FrameStates
  <2>3. /\ Unmoved(q, t) /\ t.setupFacts = q.setupFacts /\ t.facts = facts /\ t.factsBy = q.factsBy
        /\ t.readies = q.readies /\ t.draining = q.draining
    BY <1>1 DEF FrameStates, Unmoved
  <2> HIDE DEF t
  <2>4. f.attempt = 1
    BY <1>2, <1>4
  <2>5. Truthful(t)
    BY <1>1, <2>3, <2>4 DEF Truthful
  <2>6. Settled(t)
    BY <1>1, <1>3, <2>3 DEF Settled, Unreported, SetupPassed, Unmoved
  <2> QED
    BY <1>1, <2>1, <2>2, <2>3, <2>5, <2>6 DEF Heeds, Unmoved
<1>5. CASE Attempts # 1
  <2> PICK factsBy \in [1..Attempts -> Reports] :
        /\ factsBy = [q.factsBy EXCEPT ![f.attempt] = facts]
        /\ \A k \in 1..Attempts : Told(k, factsBy[k])
    <3> DEFINE factsBy == [q.factsBy EXCEPT ![f.attempt] = facts]
    <3>1. q.factsBy \in [1..Attempts -> Reports]
      BY <1>1 DEF FrameStates
    <3>2. factsBy \in [1..Attempts -> Reports]
      BY <1>2, <3>1
    <3>3. ASSUME NEW k \in 1..Attempts PROVE Told(k, factsBy[k])
      <4>1. Told(k, q.factsBy[k])
        BY <1>1 DEF Truthful
      <4> QED
        BY <1>2, <3>1, <4>1
    <3> QED
      BY <3>2, <3>3
  <2> DEFINE t == [q EXCEPT !.facts = facts, !.factsBy = factsBy, !.phase = FALSE, !.decided = FALSE, !.ready = 0]
  <2>1. Recorded(q, f) = t
    BY <1>1, <1>5 DEF Recorded, FrameStates
  <2>2. t \in FrameStates
    <3> DEFINE p == [q EXCEPT !.facts = facts, !.factsBy = factsBy, !.phase = FALSE]
    <3>1. p \in FrameStates
      BY <1>1, ZenonT(30) DEF FrameStates
    <3> HIDE DEF p
    <3>2. 0 \in 0..Attempts
      BY DEF AttemptsMakeSense
    <3>3. [p EXCEPT !.decided = FALSE, !.ready = 0] \in FrameStates
      BY <3>1, <3>2 DEF FrameStates
    <3> QED
      BY <3>3 DEF p
  <2>3. /\ Unmoved(q, t) /\ t.setupFacts = q.setupFacts /\ t.factsBy = factsBy
        /\ t.readies = q.readies /\ t.draining = q.draining
    BY <1>1 DEF FrameStates, Unmoved
  <2> HIDE DEF t
  <2>4. Truthful(t)
    BY <1>1, <1>5, <2>3 DEF Truthful
  <2>5. Settled(t)
    BY <1>1, <1>3, <2>3 DEF Settled, Unreported, SetupPassed, Unmoved
  <2> QED
    BY <1>1, <2>1, <2>2, <2>3, <2>4, <2>5 DEF Heeds, Unmoved
<1> QED
  BY <1>4, <1>5

LEMMA ReceivedHeeded ==
  ASSUME AttemptsMakeSense, NEW q, Heeds(q), NEW f \in UpFrames, f.kind = "facts" => Told(f.attempt, f),
         f.kind = "draining" => Sent
  PROVE  Heeds(Received(q, f))
<1>1. CASE ~q.invalid /\ Accepts(q, f)
  <2>1. f.kind \in {"registered", "draining", "ready", "phase", "facts"}
    BY DEF UpFrames, Notices, Readies, Phases, FactFrames
  <2>2. Heeds(Recorded(q, f))
    BY <1>1, <2>1, NoticeHeeded, GateHeeded, PhaseHeeded, SetupFactsHeeded, FactsHeeded
  <2> QED
    BY <1>1, <2>2 DEF Received
<1>2. CASE ~q.invalid /\ ~Accepts(q, f)
  <2> DEFINE t == [q EXCEPT !.invalid = TRUE]
  <2>1. q \in FrameStates /\ Truthful(q) /\ Settled(q) /\ Unmoved(o, q) /\ ~q.deciding /\ (q.draining => Sent)
    BY DEF Heeds
  <2>2. Received(q, f) = t
    BY <1>2 DEF Received
  <2>3. t \in FrameStates
    BY <2>1 DEF FrameStates
  <2>4. /\ Unmoved(q, t) /\ t.setupFacts = q.setupFacts /\ t.facts = q.facts /\ t.factsBy = q.factsBy
        /\ t.ready = q.ready /\ t.phase = q.phase /\ t.phases = q.phases /\ t.readies = q.readies
        /\ t.draining = q.draining
    BY <2>1 DEF FrameStates, Unmoved
  <2> HIDE DEF t
  <2>5. Truthful(t) /\ Settled(t)
    BY <2>1, <2>4 DEF Truthful, Told, Settled, Unreported, SetupPassed, Unmoved
  <2> QED
    BY <2>1, <2>2, <2>3, <2>4, <2>5 DEF Heeds, Unmoved
<1>3. CASE q.invalid
  BY <1>3 DEF Received
<1> QED
  BY <1>1, <1>2, <1>3

\* So does everything that waits on the channel.
LEMMA DrainedHeeded ==
  ASSUME AttemptsMakeSense, IInv, ~o.deciding PROVE Heeds(Drained(o))
<1> DEFINE S == {q \in FrameStates : Heeds(q)}
<1>1. TypeOK /\ TruthOnWire /\ Truthful(o) /\ Settled(o)
  BY DEF IInv, Control, Records
<1>2. o \in S
  BY <1>1 DEF Heeds, Unmoved, TypeOK, Sent
<1> PICK n \in Nat : Len(up) = n /\ DOMAIN up = 1..n
  BY <1>1 DEF TypeOK
<1>3. ASSUME NEW t \in S, NEW i \in 1..n PROVE Received(t, up[i]) \in S
  <2>1. up[i] \in UpFrames
    BY <1>1 DEF TypeOK
  <2> PICK f \in UpFrames : f = up[i]
    BY <2>1
  <2>2. (f.kind = "facts" => Told(f.attempt, f)) /\ (f.kind = "draining" => Sent)
    BY <1>1 DEF TruthOnWire, Sent
  <2>3. Heeds(Received(t, f))
    BY <2>2, ReceivedHeeded
  <2> QED
    BY <2>3 DEF Heeds
<1> HIDE DEF S
<1>4. Drained(o) \in S
  BY <1>2, <1>3, ReceivedStays DEF Drained
<1> QED
  BY <1>4 DEF S
\* Draining changes what is known, not what was decided.
LEMMA DrainsKeep == ASSUME AttemptsMakeSense, IInv, OwnerDrains PROVE IInv'
<1>1. /\ UNCHANGED <<g, down, child, code, strays, started, expired, dumps>> /\ up' = <<>>
      /\ o' = Drained(o) /\ ~o.deciding /\ o.pc = "loop"
  BY DEF OwnerDrains, Watching, work
<1>2. Heeds(o')
  BY <1>1, DrainedHeeded
<1>3. o' \in FrameStates /\ Truthful(o') /\ Settled(o') /\ o.continued = o'.continued
  BY <1>2 DEF Heeds, Unmoved
<1>4. Sent' => Sent
  <2>1. DOMAIN <<>> = {}
    OBVIOUS
  <2> QED
    BY <1>1, <1>2, <2>1 DEF Heeds, Sent
<1>5. Earned'
  BY <1>1, <1>2 DEF Heeds, Unmoved, IInv, Earned
<1>6. down' \in Seq(DownFrames)
  BY <1>1 DEF IInv, Control, TypeOK
<1>7. \A i \in DOMAIN down' : Decided(down[i])'
  BY <1>1, <1>3 DEF IInv, Control, Decided
<1> QED
  BY <1>1, <1>3, <1>4, <1>5, <1>6, <1>7, OwnerMoves

-----------------------------------------------------------------------------
(***************************************************************************)
(* The verdict.                                                            *)
(***************************************************************************)
Verdicts == [status : Statuses, exit : Int]

LEMMA OutcomeTyped ==
  ASSUME NEW raw \in Codes, NEW signal \in Cancellations, NEW problem, NEW incomplete
  PROVE  Outcome(raw, signal, problem, incomplete) \in Verdicts
<1>1. raw \in Int /\ signal \in Int /\ 128 - raw \in Int /\ 128 + signal \in Int
  BY DEF Codes, NoCode, Cancellations, Signals
<1> QED
  BY <1>1 DEF Outcome, Verdicts, Statuses

LEMMA OutcomePassed ==
  ASSUME NEW raw \in Codes, NEW signal \in Cancellations, NEW problem, NEW incomplete,
         Outcome(raw, signal, problem, incomplete).status = "PASSED"
  PROVE  signal = 0 /\ ~incomplete /\ raw # NoCode /\ (problem = "none" => raw = 0)
BY DEF Outcome, Codes, NoCode

LEMMA ReportsKnown ==
  ASSUME NEW facts \in Reports
  PROVE  /\ facts.raw \in Codes /\ facts.problem \in Problems \union {"absent"}
         /\ Unreported(facts) => facts.raw = NoCode
BY DEF Reports, NoFacts, Codes, NoCode, Unreported, Problems, Timeouts

\* Who has seen every attempt exit 0, by the record of an exit code.
Seen(q) == q.readies > 0 /\ \A k \in 1..Attempts : q.factsBy[k].raw = 0 /\ q.factsBy[k].problem = "none"
SeenOne(q) == q.readies > 0 /\ q.facts.raw = 0 /\ q.facts.problem = "none"

LEMMA VerdictOneEarned ==
  ASSUME NEW q \in FrameStates, Truthful(q), Settled(q), Attempts = 1, NEW exit \in Int
  PROVE  /\ VerdictOne(q, exit) \in Verdicts
         /\ VerdictOne(q, exit).status = "PASSED" => q.signal = 0 /\ exit = 0 /\ SeenOne(q)
<1>1. q.setupFacts \in Reports /\ q.facts \in Reports /\ q.signal \in Cancellations
  BY DEF FrameStates
<1>2. /\ q.setupFacts.raw \in Codes /\ (Unreported(q.setupFacts) => q.setupFacts.raw = NoCode)
      /\ q.facts.raw \in Codes /\ (Unreported(q.facts) => q.facts.raw = NoCode)
  BY <1>1, ReportsKnown
<1> DEFINE proved == HandoffProved(q)
           stopped == q.reason # "none"
           atGate == q.ready # 0 /\ ~q.phase /\ Unreported(q.facts)
           nothingToDo == /\ q.reason = "no-tests-needed" /\ q.decided /\ atGate
                          /\ proved /\ q.signal = 0
           undone == \/ ~proved
                     \/ stopped /\ ~nothingToDo
                     \/ q.cancelSent /\ atGate
           raw == q.facts.raw
           problem == ProblemOf(q.facts)
           setupUndone == undone \/ q.setupFacts.problem \notin {"none", "missing-executable"}
           spared == [status |-> "NO_TESTS_NEEDED", exit |-> 0]
           lacking == \/ undone
                      \/ problem = "missing-executable" /\ raw # NoCode
                      \/ problem \notin {"none", "missing-executable"}
                      \/ /\ problem = "none"
                         /\ (raw = NoCode /\ ~stopped) \/ (exit # 0 /\ q.signal = 0)
<1>3. VerdictOne(q, exit) =
        IF nothingToDo /\ ~(IF SetupFailed(q) THEN setupUndone ELSE lacking) THEN spared
        ELSE IF SetupFailed(q) THEN Outcome(q.setupFacts.raw, q.signal, q.setupFacts.problem, setupUndone)
        ELSE Outcome(raw, q.signal, problem, lacking)
  BY DEF VerdictOne
<1>4. CASE VerdictOne(q, exit) = spared
  <2>1. spared \in Verdicts
    BY DEF Verdicts, Statuses
  <2> QED
    BY <1>4, <2>1
<1>5. CASE VerdictOne(q, exit) # spared /\ SetupFailed(q)
  <2>1. VerdictOne(q, exit) = Outcome(q.setupFacts.raw, q.signal, q.setupFacts.problem, setupUndone)
    BY <1>3, <1>5
  <2> HIDE DEF setupUndone
  <2>2. VerdictOne(q, exit) \in Verdicts
    BY <1>1, <1>2, <2>1, OutcomeTyped
  <2>3. ASSUME VerdictOne(q, exit).status = "PASSED" PROVE FALSE
    <3>1. ~setupUndone /\ q.setupFacts.raw # NoCode /\ (q.setupFacts.problem = "none" => q.setupFacts.raw = 0)
      BY <1>1, <1>2, <2>1, <2>3, OutcomePassed
    <3>2. q.setupFacts.problem \in {"none", "missing-executable"}
      BY <3>1 DEF setupUndone
    <3>3. q.setupFacts.problem # "missing-executable"
      BY <3>1 DEF Truthful, Told
    <3> QED
      BY <1>5, <3>1, <3>2, <3>3 DEF SetupFailed, SetupPassed
  <2> QED
    BY <2>2, <2>3
<1>6. CASE VerdictOne(q, exit) # spared /\ ~SetupFailed(q)
  <2>1. VerdictOne(q, exit) = Outcome(raw, q.signal, problem, lacking)
    BY <1>3, <1>6
  <2> HIDE DEF lacking, problem, proved, nothingToDo, undone
  <2>2. VerdictOne(q, exit) \in Verdicts
    BY <1>1, <1>2, <2>1, OutcomeTyped
  <2>3. ASSUME VerdictOne(q, exit).status = "PASSED" PROVE q.signal = 0 /\ exit = 0 /\ SeenOne(q)
    <3>1. q.signal = 0 /\ ~lacking /\ raw # NoCode /\ (problem = "none" => raw = 0)
      BY <1>1, <1>2, <2>1, <2>3, OutcomePassed
    <3>2. problem = "none" /\ raw = 0 /\ ~undone /\ exit = 0
      BY <3>1 DEF lacking
    <3>3. ~Unreported(q.facts) /\ q.facts.problem = "none"
      BY <1>2, <3>1, <3>2 DEF problem, ProblemOf
    <3>4. q.readies > 0
      BY <3>3 DEF Settled
    <3> QED
      BY <3>1, <3>2, <3>3, <3>4 DEF SeenOne
  <2> QED
    BY <2>2, <2>3
<1> QED
  BY <1>4, <1>5, <1>6
\* The decisive exit code is one of them; it is 0 only where none failed.
LEMMA DecisiveKnown ==
  ASSUME AttemptsMakeSense, NEW raws \in [0..Attempts -> Codes]
  PROVE  /\ Decisive(raws) \in Codes
         /\ Decisive(raws) = 0 => \A k \in 0..Attempts : raws[k] \in {0, NoCode}
<1> DEFINE known == {k \in DOMAIN raws : raws[k] # NoCode}
           failing == {k \in known : raws[k] # 0}
           first == CHOOSE k \in failing : \A j \in failing : k <= j
<1>1. DOMAIN raws = 0..Attempts /\ 0 \in Codes /\ NoCode \in Codes /\ NoCode # 0
  BY DEF Codes, NoCode
<1>2. Decisive(raws) = IF failing # {} THEN raws[first] ELSE IF known # {} THEN 0 ELSE NoCode
  BY DEF Decisive
<1>3. CASE failing # {}
  <2>1. failing \in SUBSET Nat
    BY <1>1 DEF AttemptsMakeSense
  <2> HIDE DEF failing
  <2>2. \E k \in failing : \A j \in failing : k <= j
    BY <1>3, <2>1, LeastNat
  <2>3. first \in failing
    BY <2>2
  <2> HIDE DEF first
  <2>4. raws[first] # 0 /\ raws[first] \in Codes
    BY <1>1, <2>3 DEF failing
  <2> QED
    BY <1>2, <1>3, <2>4
<1>4. CASE failing = {}
  <2>1. \A k \in 0..Attempts : raws[k] \in {0, NoCode}
    BY <1>1, <1>4
  <2>2. Decisive(raws) \in {0, NoCode}
    BY <1>2, <1>4
  <2> QED
    BY <1>1, <2>1, <2>2
<1> QED
  BY <1>3, <1>4

LEMMA VerdictCompoundEarned ==
  ASSUME AttemptsMakeSense, NEW q \in FrameStates, Truthful(q), Settled(q), NEW exit \in Int
  PROVE  /\ VerdictCompound(q, exit) \in Verdicts
         /\ VerdictCompound(q, exit).status = "PASSED" => q.signal = 0 /\ exit = 0 /\ Seen(q)
<1> DEFINE seen == {k \in 1..Attempts : ~Unreported(q.factsBy[k])}
           raws == [k \in 0..Attempts |-> IF k = 0 THEN q.setupFacts.raw ELSE q.factsBy[k].raw]
           faulty == {k \in seen : q.factsBy[k].problem # "none"}
           first == CHOOSE k \in faulty : \A j \in faulty : k <= j
           problem == IF q.invalid THEN "protocol-mismatch"
                      ELSE IF ProblemOf(q.setupFacts) # "none" THEN q.setupFacts.problem
                      ELSE IF faulty # {} THEN q.factsBy[first].problem
                      ELSE IF exit # 0 /\ q.signal = 0 THEN "state-unavailable" ELSE "none"
           incomplete == \/ q.reason # "none" \/ problem # "none"
                         \/ ~(q.registered /\ q.draining)
                         \/ seen = {} /\ q.setupFacts.raw = NoCode /\ q.signal = 0
           cause == IF ProblemOf(q.setupFacts) # "none" THEN q.setupFacts.problem ELSE problem
           outcome == Outcome(Decisive(raws), q.signal, cause, incomplete)
<1>1. /\ q.signal \in Cancellations /\ q.setupFacts \in Reports
      /\ \A k \in 1..Attempts : q.factsBy[k] \in Reports
  BY DEF FrameStates
<1>2. \A k \in 1..Attempts : q.factsBy[k].raw \in Codes
  BY <1>1, ReportsKnown
<1>3. raws \in [0..Attempts -> Codes]
  <2>1. q.setupFacts.raw \in Codes
    BY <1>1, ReportsKnown
  <2>2. \A k \in 0..Attempts : k # 0 => k \in 1..Attempts
    BY DEF AttemptsMakeSense
  <2> QED
    BY <1>2, <2>1, <2>2
<1>4. \A k \in 1..Attempts : raws[k] = q.factsBy[k].raw
  BY DEF AttemptsMakeSense
<1>5. VerdictCompound(q, exit) =
        IF q.gates = 1 /\ seen = {} /\ q.reason # "none" THEN [status |-> "NOT_RUN", exit |-> 2]
        ELSE IF outcome.status = "PASSED" /\ seen # 1..Attempts THEN [status |-> "INCOMPLETE", exit |-> 70]
        ELSE outcome
  BY DEF VerdictCompound
<1> HIDE DEF raws
<1>6. Decisive(raws) \in Codes /\ (Decisive(raws) = 0 => \A k \in 0..Attempts : raws[k] \in {0, NoCode})
  BY <1>3, DecisiveKnown
<1>7. outcome \in Verdicts
  <2> HIDE DEF incomplete, cause
  <2> QED
    BY <1>1, <1>6, OutcomeTyped
<1>8. outcome.status = "PASSED" =>
        q.signal = 0 /\ ~incomplete /\ Decisive(raws) # NoCode /\ (cause = "none" => Decisive(raws) = 0)
  <2> HIDE DEF incomplete, cause
  <2> QED
    BY <1>1, <1>6, OutcomePassed
<1>9. VerdictCompound(q, exit) \in Verdicts
  <2>1. [status |-> "NOT_RUN", exit |-> 2] \in Verdicts /\ [status |-> "INCOMPLETE", exit |-> 70] \in Verdicts
    BY DEF Verdicts, Statuses
  <2> HIDE DEF outcome, seen
  <2> QED
    BY <1>5, <1>7, <2>1
<1>10. ASSUME VerdictCompound(q, exit).status = "PASSED" PROVE q.signal = 0 /\ exit = 0 /\ Seen(q)
  <2>1. outcome.status = "PASSED" /\ seen = 1..Attempts
    <3> HIDE DEF outcome, seen
    <3> QED
      BY <1>5, <1>10
  <2>2. q.signal = 0 /\ ~incomplete /\ (cause = "none" => Decisive(raws) = 0)
    <3> HIDE DEF outcome, incomplete, cause
    <3> QED
      BY <1>8, <2>1
  <2> HIDE DEF outcome
  <2>3. problem = "none"
    <3> HIDE DEF problem, seen
    <3> QED
      BY <2>2
  <2>4. ProblemOf(q.setupFacts) = "none"
    <3>1. CASE ProblemOf(q.setupFacts) # "none"
      <4>1. q.setupFacts.problem # "none"
        BY <3>1 DEF ProblemOf
      <4>2. problem \in {"protocol-mismatch", q.setupFacts.problem}
        <5> HIDE DEF faulty, first
        <5> QED
          BY <3>1
      <4> HIDE DEF problem
      <4> QED
        BY <2>3, <4>1, <4>2
    <3> QED
      BY <3>1
  <2>5. faulty = {}
    <3>1. CASE faulty # {}
      <4>1. faulty \in SUBSET Nat
        BY DEF AttemptsMakeSense
      <4>2. \A k \in faulty : q.factsBy[k].problem # "none"
        OBVIOUS
      <4> HIDE DEF faulty
      <4>3. \E k \in faulty : \A j \in faulty : k <= j
        BY <3>1, <4>1, LeastNat
      <4>4. first \in faulty
        BY <4>3
      <4> HIDE DEF first
      <4>5. q.factsBy[first].problem # "none"
        BY <4>2, <4>4
      <4>6. problem \in {"protocol-mismatch", q.factsBy[first].problem}
        BY <2>4, <3>1
      <4> HIDE DEF problem
      <4> QED
        BY <2>3, <4>5, <4>6
    <3> QED
      BY <3>1
  <2>6. exit = 0
    <3> HIDE DEF faulty, first
    <3> QED
      BY <2>2, <2>3, <2>4, <2>5
  <2>7. \A k \in 1..Attempts : q.factsBy[k].problem = "none"
    BY <2>1, <2>5
  <2>8. \A k \in 1..Attempts : q.factsBy[k].raw # NoCode
    BY <2>7 DEF Truthful, Told
  <2>9. Decisive(raws) = 0
    <3> HIDE DEF problem
    <3> QED
      BY <2>2, <2>3, <2>4
  <2>10. \A k \in 1..Attempts : q.factsBy[k].raw = 0
    <3>1. 1..Attempts \subseteq 0..Attempts
      BY DEF AttemptsMakeSense
    <3> QED
      BY <1>4, <1>6, <2>8, <2>9, <3>1
  <2>11. q.readies > 0
    <3>1. 1 \in 1..Attempts
      BY DEF AttemptsMakeSense
    <3>2. ~Unreported(q.factsBy[1])
      BY <2>1, <3>1
    <3> QED
      BY <3>1, <3>2 DEF Settled
  <2> QED
    BY <2>2, <2>6, <2>7, <2>10, <2>11 DEF Seen
<1> QED
  BY <1>9, <1>10
\* What the controller has seen of every attempt is what happened to it.
LEMMA SeenIsDone ==
  ASSUME AttemptsMakeSense, IInv, NEW q \in FrameStates, Truthful(q), Settled(q), q.continued = o.continued,
         IF Attempts = 1 THEN SeenOne(q) ELSE Seen(q)
  PROVE  /\ started = (IF HasSetup THEN 0 ELSE 1)..Attempts
         /\ \A k \in started : code[k] = 0
         /\ q.continued = 1..Attempts
<1>1. started \subseteq 0..Attempts /\ q.continued \subseteq 1..Attempts /\ 0 # NoCode
  BY DEF IInv, Control, TypeOK, FrameStates, NoCode
<1>2. /\ \A k \in 0..Attempts : code[k] # NoCode => k \in started
      /\ \A k \in started : Allowed(k)
  BY DEF IInv, Work, Coded
<1>3. \A k \in 1..Attempts : code[k] = 0
  <2>1. CASE Attempts = 1
    <3>1. code[1] = 0
      BY <2>1 DEF SeenOne, Truthful, Told
    <3> QED
      BY <2>1, <3>1
  <2>2. CASE Attempts # 1
    BY <2>2 DEF Seen, Truthful, Told
  <2> QED
    BY <2>1, <2>2
<1>4. HasSetup => code[0] = 0
  <2>1. q.readies > 0
    BY DEF Seen, SeenOne
  <2> QED
    BY <2>1 DEF Settled, SetupPassed, Truthful, Told
<1>5. \A k \in 0..Attempts : k \in started <=> (k # 0 \/ HasSetup)
  <2>1. ASSUME NEW k \in 0..Attempts PROVE k \in started <=> (k # 0 \/ HasSetup)
    <3>1. k = 0 \/ k \in 1..Attempts
      BY DEF AttemptsMakeSense
    <3> QED
      BY <1>1, <1>2, <1>3, <1>4, <3>1 DEF Allowed
  <2> QED
    BY <2>1
<1>6. started = (IF HasSetup THEN 0 ELSE 1)..Attempts
  <2>1. CASE HasSetup
    BY <1>1, <1>5, <2>1
  <2>2. CASE ~HasSetup
    <3>1. \A k \in 0..Attempts : k # 0 <=> k \in 1..Attempts
      BY DEF AttemptsMakeSense
    <3>2. 1..Attempts \subseteq 0..Attempts
      BY DEF AttemptsMakeSense
    <3> QED
      BY <1>1, <1>5, <2>2, <3>1, <3>2
  <2> QED
    BY <2>1, <2>2
<1>7. \A k \in started : code[k] = 0
  <2>1. \A k \in 0..Attempts : k = 0 \/ k \in 1..Attempts
    BY DEF AttemptsMakeSense
  <2> QED
    BY <1>1, <1>3, <1>4, <1>5, <2>1
<1>8. q.continued = 1..Attempts
  <2>1. ASSUME NEW k \in 1..Attempts PROVE k \in o.continued
    <3>1. k \in 0..Attempts /\ k # 0
      BY DEF AttemptsMakeSense
    <3> QED
      BY <1>2, <1>5, <3>1 DEF Allowed
  <2> QED
    BY <1>1, <2>1
<1> QED
  BY <1>6, <1>7, <1>8

\* The verdict is passed on a guard that is gone and frames that are read.
LEMMA JudgesKeep == ASSUME AttemptsMakeSense, IInv, OwnerJudges PROVE IInv'
<1>1. /\ UNCHANGED <<g, down, child, code, strays, started, expired, dumps>> /\ up' = <<>>
      /\ ~o.deciding /\ o.pc = "loop"
  BY DEF OwnerJudges, Watching, work
<1> PICK q \in FrameStates : q = Drained(o) /\ Heeds(q)
  BY <1>1, DrainedHeeded DEF Heeds
<1> PICK exit \in Int : exit = IF At("exited") THEN g.exit ELSE -9
  BY DEF IInv, Control, TypeOK, GuardStates
<1>2. /\ Truthful(q) /\ Settled(q) /\ q.continued = o.continued /\ q.signal = o.signal
      /\ ~q.deciding /\ (q.draining => Sent)
  BY <1>1 DEF Heeds, Unmoved
<1>3. /\ Verdict(q, exit) \in Verdicts
      /\ Verdict(q, exit).status = "PASSED" =>
           q.signal = 0 /\ exit = 0 /\ IF Attempts = 1 THEN SeenOne(q) ELSE Seen(q)
  <2>1. CASE Attempts = 1
    BY <1>2, <2>1, VerdictOneEarned DEF Verdict
  <2>2. CASE Attempts # 1
    BY <1>2, <2>2, VerdictCompoundEarned DEF Verdict
  <2> QED
    BY <2>1, <2>2
<1> PICK absent \in Probes :
           o' = [q EXCEPT !.pc = "judged",
                          !.verdict = IF absent THEN Verdict(q, exit) ELSE Uncertain(Verdict(q, exit))]
  BY DEF OwnerJudges
<1> PICK v \in Verdicts :
           /\ v = IF absent THEN Verdict(q, exit) ELSE Uncertain(Verdict(q, exit))
           /\ v.status = "PASSED" => v = Verdict(q, exit) /\ absent
  <2>1. ASSUME NEW w \in Verdicts PROVE Uncertain(w) \in Verdicts /\ Uncertain(w).status # "PASSED"
    BY DEF Uncertain, Verdicts, Statuses
  <2> QED
    BY <1>3, <2>1
<1>4. o' = [q EXCEPT !.pc = "judged", !.verdict = v]
  OBVIOUS
<1>5. o' \in FrameStates
  BY <1>4 DEF FrameStates, Verdicts
<1>6. /\ o'.pc = "judged" /\ o'.verdict = v /\ o'.continued = q.continued /\ o'.signal = q.signal
      /\ o'.setupFacts = q.setupFacts /\ o'.facts = q.facts /\ o'.factsBy = q.factsBy
      /\ o'.ready = q.ready /\ o'.phase = q.phase /\ o'.phases = q.phases /\ o'.readies = q.readies
      /\ o'.deciding = q.deciding /\ o'.draining = q.draining
  BY <1>4 DEF FrameStates
<1>7. Truthful(o') /\ Settled(o')
  BY <1>2, <1>6 DEF Truthful, Told, Settled, Unreported, SetupPassed
<1>8. Sent' => Sent
  <2>1. DOMAIN <<>> = {}
    OBVIOUS
  <2> QED
    BY <1>1, <1>2, <1>6, <2>1 DEF Sent
<1>9. ASSUME v.status = "PASSED" PROVE o'.pc = "judged" /\ g'.pc = "exited" /\ PassIsEarned'
  <2>1. q.signal = 0 /\ exit = 0 /\ IF Attempts = 1 THEN SeenOne(q) ELSE Seen(q)
    BY <1>3, <1>9
  <2>2. g.pc = "exited" /\ g.exit = 0
    BY <2>1 DEF At
  <2>3. g.problem = "none" /\ child = "none"
    BY <2>2 DEF IInv, Work, Quieted, Over
  <2>4. ~strays
    BY <1>9 DEF Probes
  <2>5. /\ started = (IF HasSetup THEN 0 ELSE 1)..Attempts
        /\ \A k \in started : code[k] = 0
        /\ q.continued = 1..Attempts
    BY <1>2, <2>1, SeenIsDone
  <2> QED
    BY <1>1, <1>6, <2>1, <2>2, <2>3, <2>4, <2>5 DEF PassIsEarned
<1>10. Earned'
  BY <1>6, <1>9 DEF Earned
<1>11. down' \in Seq(DownFrames)
  BY <1>1 DEF IInv, Control, TypeOK
<1>12. \A i \in DOMAIN down' : Decided(down[i])'
  BY <1>1, <1>2, <1>6 DEF IInv, Control, Decided
<1> QED
  BY <1>1, <1>2, <1>5, <1>6, <1>7, <1>8, <1>10, <1>11, <1>12, OwnerMoves

-----------------------------------------------------------------------------
LEMMA Beginning == ASSUME AttemptsMakeSense, Init PROVE IInv
<1>1. TypeOK
  <2>1. g \in GuardStates
    BY DEF Init, GuardStart, GuardStates, Points, Cancellations, Problems, Goals, Answers, AttemptsMakeSense, NoCode
  <2>2. o \in FrameStates
    <3>1. NoFacts \in Reports /\ [k \in 1..Attempts |-> NoFacts] \in [1..Attempts -> Reports]
      BY DEF Reports
    <3>2. [status |-> "none", exit |-> NoCode] \in [status : Statuses, exit : Int]
      BY DEF Statuses, NoCode
    <3>3. 0 \in 0..Attempts /\ 0 \in Cancellations
      BY DEF AttemptsMakeSense, Cancellations
    <3> QED
      BY <3>1, <3>2, <3>3 DEF Init, FramesStart, FrameStates
  <2>3. up \in Seq(UpFrames) /\ down \in Seq(DownFrames)
    BY DEF Init
  <2>4. /\ child \in {"none", "running", "exited"} /\ code \in [0..Attempts -> Codes]
        /\ strays \in BOOLEAN /\ expired \in BOOLEAN /\ started \subseteq 0..Attempts /\ dumps \in Nat
    BY DEF Init, Codes
  <2> QED
    BY <2>1, <2>2, <2>3, <2>4 DEF TypeOK
<1>2. Control
  <2>1. Sane(g)
    BY DEF Init, GuardStart, Sane, Timeouts
  <2>2. DOMAIN down = {}
    BY DEF Init
  <2> QED
    BY <1>1, <2>1, <2>2 DEF Control
<1>3. Work
  <2>1. ~Sent
    <3>1. DOMAIN up = {}
      BY DEF Init
    <3> QED
      BY <3>1 DEF Init, FramesStart, Sent
  <2>2. Placed
    BY DEF Init, GuardStart, Placed, Idle
  <2>3. Coded
    BY DEF Init, GuardStart, Coded
  <2>4. Quieted
    BY <2>1 DEF Init, GuardStart, Quieted
  <2> QED
    BY <2>2, <2>3, <2>4 DEF Work
<1>4. Records
  <2>1. TruthOnWire
    <3>1. DOMAIN up = {}
      BY DEF Init
    <3> QED
      BY <3>1 DEF TruthOnWire
  <2>2. Truthful(o)
    BY DEF Init, FramesStart, Truthful, Told, NoFacts
  <2>3. Settled(o)
    BY DEF Init, FramesStart, Settled, Unreported, NoFacts
  <2> QED
    BY <2>1, <2>2, <2>3 DEF Records
<1>5. Earned
  BY DEF Init, FramesStart, Earned
<1> QED
  BY <1>2, <1>3, <1>4, <1>5 DEF IInv

\* Doing nothing keeps everything.
LEMMA RestKeeps == ASSUME IInv, UNCHANGED vars PROVE IInv'
<1>1. UNCHANGED <<g, o, up, down, child, code, strays, expired, started, dumps>>
  BY DEF vars
<1>2. Control' /\ Earned'
  BY <1>1 DEF IInv, Control, TypeOK, Sane, Decided, Earned, PassIsEarned
<1>3. Work'
  BY <1>1 DEF IInv, Work, Placed, Coded, Quieted, Over, Sent, Allowed
<1>4. Records'
  BY <1>1 DEF IInv, Records, TruthOnWire, Truthful, Told, Done, Settled, Unreported, SetupPassed
<1> QED
  BY <1>2, <1>3, <1>4 DEF IInv

LEMMA StepKeeps == ASSUME AttemptsMakeSense, IInv, [Next]_vars PROVE IInv'
<1>1. CASE GuardSteps
  BY <1>1, GuardKeeps
<1>2. CASE OwnerSteps
  BY <1>2, CancelsKeep, DrainsKeep, DecidesKeep, SendsKeep, JudgesKeep DEF OwnerSteps
<1>3. CASE World
  BY <1>3, GuardKeeps, ChildExitKeeps, OthersKeep DEF World
<1>4. CASE UNCHANGED vars
  BY <1>4, RestKeeps
<1> QED
  BY <1>1, <1>2, <1>3, <1>4 DEF Next

\* The invariant holds of every state of one guard and its controller.
THEOREM Invariance == ASSUME AttemptsMakeSense PROVE Spec => []IInv
<1>1. Init => IInv
  BY Beginning
<1>2. IInv /\ [Next]_vars => IInv'
  BY StepKeeps
<1> QED
  BY <1>1, <1>2, PTL DEF Spec

LEMMA Consequences ==
  ASSUME AttemptsMakeSense, IInv
  PROVE  PassIsEarned /\ ExecutionNeedsContinue /\ FirstEndWins
<1>1. PassIsEarned
  BY DEF IInv, Earned, PassIsEarned
<1>2. ExecutionNeedsContinue
  BY DEF IInv, Work, Coded, Allowed, ExecutionNeedsContinue
<1>3. FirstEndWins
  BY DEF IInv, Control, Sane, FirstEndWins
<1> QED
  BY <1>1, <1>2, <1>3

-----------------------------------------------------------------------------
(***************************************************************************)
(* Where there is one attempt, the controller believes a clean guard.      *)
(*                                                                         *)
(* Fits says what record the frames sent so far make at each point of the  *)
(* guard's way, whatever of them is still on the channel; Waits and Mails  *)
(* keep the decision where it belongs.                                     *)
(***************************************************************************)
\* The guard came as far as it is undisturbed, and the controller is there.
Clean ==
  /\ o.pc # "gone" /\ g.cancel = 0 /\ g.pc # "killed"
  /\ g.pc = "exited" => g.exit = 0
Running == {"recheck", "fork", "watch", "collect", "result", "facts"}
Leaving == {"drain", "mark", "exited"}
Unhurt ==
  /\ g.readable /\ g.writable /\ ~g.graced
  /\ g.pc \notin {"dump", "reap", "abort"}
  /\ g.pc = "gate" => g.gate = g.attempt /\ g.decision = "none"
  /\ g.closed => g.pc \in {"facts", "next"} \union Leaving
  /\ g.pc = "next" /\ g.attempt = 0 /\ g.closed => HasSetup
  /\ g.pc = "facts" => g.fault = "none" \/ g.closed

\* What the controller looks at in its record when a frame arrives.
SameSetup(p, q) == q.setupPhase = p.setupPhase /\ q.setupFacts = p.setupFacts
SameAttempt(p, q) ==
  q.ready = p.ready /\ q.decided = p.decided /\ q.reason = p.reason /\ q.phase = p.phase /\ q.facts = p.facts
SameEnds(p, q) == q.registered = p.registered /\ q.draining = p.draining /\ q.invalid = p.invalid
Like(p, q) == SameSetup(p, q) /\ SameAttempt(p, q) /\ SameEnds(p, q)

SetupFits(d) ==
  /\ g.pc \in {"boot", "register"} \/ (g.attempt = 0 /\ g.pc = "check") \/ ~HasSetup =>
       ~d.setupPhase /\ Unreported(d.setupFacts)
  /\ g.attempt = 0 /\ g.pc \in Running => d.setupPhase /\ Unreported(d.setupFacts)
  /\ g.attempt = 0 /\ g.pc \in {"next", "ask"} \union Leaving /\ HasSetup =>
       d.setupPhase /\ ~Unreported(d.setupFacts) /\ (g.closed \/ SetupPassed(d))
  /\ g.attempt # 0 /\ HasSetup => d.setupPhase /\ SetupPassed(d)
  /\ g.attempt = 0 /\ g.pc \in {"check"} \union Running \union Leaving => HasSetup
AttemptFits(d) ==
  /\ g.attempt = 0 => d.ready = 0 /\ ~d.phase /\ Unreported(d.facts)
  /\ g.attempt # 0 => d.ready # 0
  /\ g.attempt # 0 /\ g.pc # "gate" => d.decided
  /\ g.attempt # 0 /\ g.pc \in {"gate", "check"} => ~d.phase /\ Unreported(d.facts)
  /\ g.attempt # 0 /\ g.pc \in {"check"} \union Running => d.reason = "none"
  /\ g.attempt # 0 /\ g.pc \in Running => d.phase /\ Unreported(d.facts)
  /\ g.attempt # 0 /\ g.pc \in {"next", "ask"} => ~Unreported(d.facts)
  /\ g.attempt # 0 /\ g.pc \in Leaving => ~Unreported(d.facts) \/ (d.reason # "none" /\ ~d.phase)
Fits(d) ==
  /\ ~d.invalid
  /\ d.registered <=> g.pc \notin {"boot", "register"}
  /\ d.draining <=> g.pc = "exited"
  /\ SetupFits(d) /\ AttemptFits(d)
Believed == \A q \in FrameStates : Like(o, q) => Fits(Drained(q))

\* A decision is made for a guard that waits for it, and sent once.
Waits ==
  /\ (o.ready # 0 /\ ~o.decided) \/ o.deciding => g.pc = "gate" /\ up = <<>>
  /\ o.deciding => o.ready # 0 /\ ~o.decided
Asked(f) ==
  f.kind = "decision" =>
    /\ g.pc = "gate" /\ f.attempt = g.attempt /\ up = <<>> /\ o.decided
    /\ f.action = IF o.reason = "none" THEN "continue" ELSE "stop"
Mails ==
  /\ \A i \in DOMAIN down : Asked(down[i])
  /\ \A i, j \in DOMAIN down : down[i].kind = "decision" /\ down[j].kind = "decision" => i = j
Heeded == o.pc = "judged" => Ended /\ up = <<>>

Undisturbed == Unhurt /\ Believed /\ Waits /\ Mails /\ Heeded
Belief == Clean => Undisturbed

-----------------------------------------------------------------------------
\* Nothing received is nothing learnt.
LEMMA ReceivedNothing == ASSUME NEW q PROVE ReceivedAll(q, <<>>) = q
<1> DEFINE T == [i \in 0..0 |-> {q}]
<1>1. q \in T[0] /\ T[0] = {q}
  OBVIOUS
<1>2. \A i \in 1..0 : \A t \in T[i - 1] : Received(t, <<>>[i]) \in T[i]
  OBVIOUS
<1>3. Len(<<>>) = 0 /\ 0 \in Nat
  OBVIOUS
<1> HIDE DEF T
<1>4. ReceivedAll(q, <<>>) \in T[0]
  BY <1>1, <1>2, <1>3, ReceivedClimbs
<1> QED
  BY <1>1, <1>4

\* A record stays one.
LEMMA RecordedTyped ==
  ASSUME AttemptsMakeSense, NEW q \in FrameStates, NEW f \in UpFrames PROVE Received(q, f) \in FrameStates
<1>1. [q EXCEPT !.invalid = TRUE] \in FrameStates
  BY DEF FrameStates
<1>2. Recorded(q, f) \in FrameStates
  <2>1. CASE f \in Notices
    <3>1. [q EXCEPT !.registered = TRUE] \in FrameStates
      BY DEF FrameStates
    <3>2. [q EXCEPT !.draining = TRUE] \in FrameStates
      BY DEF FrameStates
    <3>3. f.kind \in {"registered", "draining"}
      BY <2>1 DEF Notices
    <3> QED
      BY <3>1, <3>2, <3>3 DEF Recorded
  <2>2. CASE f \in Readies
    <3> PICK readies \in Nat : readies = q.readies + 1
      BY DEF FrameStates
    <3>1. f.attempt \in 0..Attempts /\ NoFacts \in Reports
      BY <2>2 DEF Readies, Reports
    <3> DEFINE p == [q EXCEPT !.ready = f.attempt, !.readies = readies, !.decided = FALSE]
    <3>2. p \in FrameStates
      BY <3>1 DEF FrameStates
    <3> HIDE DEF p
    <3>3. [p EXCEPT !.reason = "none", !.phase = FALSE, !.facts = NoFacts] \in FrameStates
      BY <3>1, <3>2 DEF FrameStates
    <3>4. [q EXCEPT !.ready = f.attempt, !.readies = readies, !.decided = FALSE,
                    !.reason = "none", !.phase = FALSE, !.facts = NoFacts] \in FrameStates
      BY <3>3 DEF p
    <3> QED
      BY <2>2, <3>4 DEF Readies, Recorded
  <2>3. CASE f \in Phases
    <3>1. [q EXCEPT !.setupPhase = TRUE] \in FrameStates
      BY DEF FrameStates
    <3>2. ASSUME f.attempt # 0 PROVE [q EXCEPT !.phase = TRUE, !.phases = q.phases \union {f.attempt}] \in FrameStates
      <4>1. f.attempt \in 1..Attempts
        BY <2>3, <3>2 DEF Phases
      <4> PICK phases \in SUBSET (1..Attempts) : phases = q.phases \union {f.attempt}
        BY <4>1 DEF FrameStates
      <4>2. [q EXCEPT !.phase = TRUE, !.phases = phases] \in FrameStates
        BY DEF FrameStates
      <4> QED
        BY <4>2
    <3>3. f.kind = "phase"
      BY <2>3 DEF Phases
    <3> QED
      BY <3>1, <3>2, <3>3 DEF Recorded
  <2>4. CASE f \in FactFrames
    <3> PICK facts \in Reports : facts = [raw |-> f.raw, problem |-> f.problem]
      BY <2>4 DEF FactFrames, Reports
    <3>1. [q EXCEPT !.setupFacts = facts] \in FrameStates
      BY DEF FrameStates
    <3>2. [q EXCEPT !.facts = facts] \in FrameStates
      BY DEF FrameStates
    <3>3. f.kind = "facts" /\ (f.attempt # 0 => f.attempt \in 1..Attempts)
      BY <2>4 DEF FactFrames
    <3>4. ASSUME f.attempt # 0, Attempts # 1
          PROVE  [q EXCEPT !.facts = facts, !.factsBy = [q.factsBy EXCEPT ![f.attempt] = facts],
                           !.phase = FALSE, !.decided = FALSE, !.ready = 0] \in FrameStates
      <4> PICK factsBy \in [1..Attempts -> Reports] : factsBy = [q.factsBy EXCEPT ![f.attempt] = facts]
        BY <3>3 DEF FrameStates
      <4> DEFINE p == [q EXCEPT !.facts = facts, !.factsBy = factsBy, !.phase = FALSE]
      <4>1. p \in FrameStates
        <5>1. q \in FrameStates /\ facts \in Reports /\ factsBy \in [1..Attempts -> Reports]
          OBVIOUS
        <5> HIDE <3>1, <3>2, <3>3, <3>4
        <5> QED
          BY <5>1, ZenonT(30) DEF FrameStates
      <4> HIDE DEF p
      <4>2. 0 \in 0..Attempts
        BY DEF AttemptsMakeSense
      <4>3. [p EXCEPT !.decided = FALSE, !.ready = 0] \in FrameStates
        BY <4>1, <4>2 DEF FrameStates
      <4>4. [q EXCEPT !.facts = facts, !.factsBy = factsBy, !.phase = FALSE, !.decided = FALSE, !.ready = 0] \in FrameStates
        BY <4>3 DEF p
      <4> QED
        BY <4>4
    <3> QED
      BY <3>1, <3>2, <3>3, <3>4 DEF Recorded
  <2> QED
    BY <2>1, <2>2, <2>3, <2>4 DEF UpFrames
<1> QED
  BY <1>1, <1>2 DEF Received

\* Receiving goes from record to record.
LEMMA ReceivedStepwise ==
  ASSUME AttemptsMakeSense, NEW q \in FrameStates, NEW frames, NEW n \in Nat,
         \A i \in 1..n : frames[i] \in UpFrames
  PROVE  \E a \in [0..n -> FrameStates] :
           a[0] = q /\ \A i \in 1..n : a[i] = Received(a[i - 1], frames[i])
<1> DEFINE F == [i \in 1..n |-> [t \in FrameStates |-> Received(t, frames[i])]]
<1>1. F \in [1..n -> [FrameStates -> FrameStates]]
  BY RecordedTyped
<1> PICK a \in [0..n -> FrameStates] : \A i \in 0..n : a[i] = Folding(q, F, a, i)
  <2> HIDE DEF F
  <2> QED
    BY <1>1, FoldExists
<1>2. a[0] = q
  <2>1. 0 \in 0..n
    OBVIOUS
  <2> HIDE DEF F
  <2>2. a[0] = Folding(q, F, a, 0)
    BY <2>1
  <2> QED
    BY <2>2 DEF Folding
<1>3. ASSUME NEW i \in 1..n PROVE a[i] = Received(a[i - 1], frames[i])
  <2>1. i \in 0..n /\ i # 0 /\ i - 1 \in 0..n
    OBVIOUS
  <2>2. a[i] = F[i][a[i - 1]]
    <3> HIDE DEF F
    <3> QED
      BY <2>1 DEF Folding
  <2>3. a[i - 1] \in FrameStates
    BY <2>1
  <2> QED
    BY <2>2, <2>3
<1> QED
  BY <1>2, <1>3

\* One frame more is received after the others.
LEMMA ReceivedNext ==
  ASSUME AttemptsMakeSense, NEW q \in FrameStates, NEW frames, NEW n \in Nat, Len(frames) = n,
         \A i \in 1..n : frames[i] \in UpFrames, NEW more, NEW f,
         Len(more) = n + 1, more[n + 1] = f, \A i \in 1..n : more[i] = frames[i]
  PROVE  /\ ReceivedAll(q, frames) \in FrameStates
         /\ ReceivedAll(q, more) = Received(ReceivedAll(q, frames), f)
<1> PICK a \in [0..n -> FrameStates] :
      a[0] = q /\ \A i \in 1..n : a[i] = Received(a[i - 1], frames[i])
  <2>1. AttemptsMakeSense /\ q \in FrameStates /\ n \in Nat /\ \A i \in 1..n : frames[i] \in UpFrames
    OBVIOUS
  <2> QED
    BY ONLY <2>1, ReceivedStepwise, ZenonT(30)
<1>2. a[0] = q /\ a[n] \in FrameStates
  <2>1. n \in 0..n
    OBVIOUS
  <2> QED
    BY <2>1
<1>3. \A i \in 1..n : a[i] = Received(a[i - 1], frames[i])
  OBVIOUS
<1>4. ReceivedAll(q, frames) = a[n]
  <2> DEFINE T == [i \in 0..n |-> {a[i]}]
  <2>1. q \in T[0] /\ T[n] = {a[n]}
    BY <1>2
  <2>2. ASSUME NEW i \in 1..n, NEW t \in T[i - 1] PROVE Received(t, frames[i]) \in T[i]
    <3>1. i - 1 \in 0..n /\ i \in 0..n
      OBVIOUS
    <3>2. t = a[i - 1] /\ T[i] = {a[i]}
      BY <2>2, <3>1
    <3> HIDE DEF T
    <3> QED
      BY <1>3, <3>2
  <2> HIDE DEF T
  <2>3. ReceivedAll(q, frames) \in T[n]
    BY <2>1, <2>2, ReceivedClimbs
  <2> QED
    BY <2>1, <2>3
<1>5. ReceivedAll(q, more) = Received(a[n], f)
  <2> DEFINE T == [i \in 0..(n + 1) |-> IF i = n + 1 THEN {Received(a[n], f)} ELSE {a[i]}]
  <2>1. q \in T[0] /\ T[n + 1] = {Received(a[n], f)}
    BY <1>2
  <2>2. n + 1 \in Nat
    OBVIOUS
  <2>3. ASSUME NEW i \in 1..(n + 1), NEW t \in T[i - 1] PROVE Received(t, more[i]) \in T[i]
    <3>1. i - 1 \in 0..(n + 1) /\ i \in 0..(n + 1) /\ i - 1 # n + 1
      OBVIOUS
    <3>2. t = a[i - 1]
      BY <2>3, <3>1
    <3>3. CASE i = n + 1
      <4>1. t = a[n] /\ T[i] = {Received(a[n], f)}
        BY <3>1, <3>2, <3>3
      <4> HIDE DEF T
      <4> QED
        BY <2>2, <3>3, <4>1
    <3>4. CASE i # n + 1
      <4>1. i \in 1..n /\ T[i] = {a[i]}
        BY <3>1, <3>4
      <4> HIDE DEF T
      <4> QED
        BY <1>3, <2>2, <3>2, <4>1
    <3> QED
      BY <3>3, <3>4
  <2> HIDE DEF T
  <2>4. ReceivedAll(q, more) \in T[n + 1]
    BY <2>1, <2>2, <2>3, ReceivedClimbs
  <2> QED
    BY <2>1, <2>4
<1> QED
  BY <1>2, <1>4, <1>5

LEMMA ReceivedMore ==
  ASSUME AttemptsMakeSense, NEW q \in FrameStates, NEW frames \in Seq(UpFrames), NEW f \in UpFrames
  PROVE  /\ ReceivedAll(q, frames) \in FrameStates
         /\ ReceivedAll(q, Append(frames, f)) = Received(ReceivedAll(q, frames), f)
<1> PICK n \in Nat : Len(frames) = n
  OBVIOUS
<1> PICK more : more = Append(frames, f)
  OBVIOUS
<1>1. /\ Len(more) = n + 1 /\ more[n + 1] = f /\ \A i \in 1..n : more[i] = frames[i]
      /\ \A i \in 1..n : frames[i] \in UpFrames
  OBVIOUS
<1>2. /\ ReceivedAll(q, frames) \in FrameStates
      /\ ReceivedAll(q, more) = Received(ReceivedAll(q, frames), f)
  <2>1. AttemptsMakeSense /\ q \in FrameStates /\ n \in Nat /\ Len(frames) = n
    OBVIOUS
  <2> QED
    BY ONLY <1>1, <2>1, ReceivedNext
<1> QED
  BY <1>2

-----------------------------------------------------------------------------
\* A frame that is read cuts nothing off but what it cancels.
LEMMA FrameHurts ==
  ASSUME AttemptsMakeSense, NEW s \in GuardStates, Sane(s), NEW f \in DownFrames, Decided(f),
         s.readable \/ s.cancel # 0
  PROVE  LET t == Parsed(s, f) IN
         /\ t \in GuardStates /\ Sane(t) /\ (t.readable \/ t.cancel # 0)
         /\ s.cancel # 0 => t.cancel # 0
         /\ f.kind = "cancel" => t.cancel # 0
<1>1. Stays(s, Parsed(s, f))
  BY FrameKeeps
<1>2. CASE ~s.readable
  BY <1>1, <1>2 DEF Parsed, Stays, Same
<1>3. CASE s.readable /\ f \in Cancels
  BY <1>1, <1>3, CancelKeeps DEF Parsed, Cancels, Stays, Same
<1>4. CASE s.readable /\ f \in Decisions
  <2>1. CASE MatchesGate(s, f)
    <3> DEFINE t == [s EXCEPT !.gate = 0, !.decision = f.action]
    <3>1. Parsed(s, f) = t /\ f.kind # "cancel"
      BY <1>4, <2>1 DEF Parsed, Decisions
    <3>2. t.readable = s.readable
      BY DEF GuardStates
    <3> HIDE DEF t
    <3> QED
      BY <1>1, <1>4, <3>1, <3>2 DEF Stays, Same
  <2>2. CASE ~MatchesGate(s, f)
    <3> DEFINE t == [s EXCEPT !.readable = FALSE]
    <3>1. t \in GuardStates /\ Sane(t)
      BY DEF GuardStates, Sane
    <3>2. Failed(t, "protocol-mismatch", FALSE).cancel # 0
      <4> HIDE DEF t
      <4> QED
        BY <3>1, FailureKeeps DEF Problems, Timeouts
    <3>3. Parsed(s, f) = Failed(t, "protocol-mismatch", FALSE)
      BY <1>4, <2>2 DEF Parsed, Decisions
    <3> HIDE DEF t
    <3> QED
      BY <1>1, <3>2, <3>3 DEF Stays, Same
  <2> QED
    BY <2>1, <2>2
<1> QED
  BY <1>2, <1>3, <1>4 DEF DownFrames

\* Of a controller that is there, frames arrive and nothing else.
LEMMA ArrivedIsDown ==
  ASSUME AttemptsMakeSense, Control, o.pc # "gone"
  PROVE  /\ Arrived = down /\ Len(Arrived) \in Nat /\ DOMAIN down = 1..Len(down)
         /\ \A i \in 1..Len(Arrived) : Arrived[i] \in DownFrames /\ Decided(Arrived[i])
<1>1. down \in Seq(DownFrames) /\ \A i \in DOMAIN down : Decided(down[i])
  BY DEF Control, TypeOK
<1>2. Arrived = down
  BY <1>1 DEF Arrived
<1> QED
  BY <1>1, <1>2

\* A cancellation that has arrived is heard.
LEMMA CancelHeard ==
  ASSUME AttemptsMakeSense, Control, o.pc # "gone", g.readable,
         NEW k \in DOMAIN down, down[k].kind = "cancel"
  PROVE  Polled(g).cancel # 0
<1> PICK n \in Nat : Len(Arrived) = n
  BY ArrivedIsDown
<1> DEFINE T == [i \in 0..n |-> {t \in GuardStates :
             Sane(t) /\ (t.readable \/ t.cancel # 0) /\ (k <= i => t.cancel # 0)}]
<1>1. k \in 1..n /\ Arrived[k].kind = "cancel"
  BY ArrivedIsDown
<1>2. g \in T[0]
  <2>1. g \in GuardStates /\ Sane(g) /\ ~ (k <= 0)
    BY <1>1 DEF Control, TypeOK
  <2> QED
    BY <2>1
<1>3. ASSUME NEW i \in 1..n, NEW t \in T[i - 1] PROVE Parsed(t, Arrived[i]) \in T[i]
  <2>1. i - 1 \in 0..n /\ i \in 0..n
    OBVIOUS
  <2>2. t \in GuardStates /\ Sane(t) /\ (t.readable \/ t.cancel # 0) /\ (k <= i - 1 => t.cancel # 0)
    BY <2>1
  <2>3. Arrived[i] \in DownFrames /\ Decided(Arrived[i])
    BY ArrivedIsDown
  <2> PICK u : u = Parsed(t, Arrived[i])
    OBVIOUS
  <2>4. /\ u \in GuardStates /\ Sane(u) /\ (u.readable \/ u.cancel # 0)
        /\ t.cancel # 0 => u.cancel # 0
        /\ Arrived[i].kind = "cancel" => u.cancel # 0
    <3> HIDE DEF T
    <3> QED
      BY <2>2, <2>3, FrameHurts
  <2>5. k <= i => u.cancel # 0
    <3>1. k <= i => k <= i - 1 \/ k = i
      BY <1>1
    <3> QED
      BY <1>1, <2>2, <2>4, <3>1
  <2> QED
    BY <2>1, <2>4, <2>5
<1>4. Polled(g) \in T[n]
  <2> HIDE DEF T
  <2> QED
    BY <1>2, <1>3, PolledClimbs
<1>5. n \in 0..n /\ k <= n
  BY <1>1
<1> QED
  BY <1>4, <1>5

\* What has not been sent is not heard.
LEMMA SilenceHeard ==
  ASSUME AttemptsMakeSense, Control, o.pc # "gone", down = <<>>, NEW s PROVE Polled(s) = s
<1> DEFINE T == [i \in 0..0 |-> {s}]
<1>1. s \in T[0] /\ T[0] = {s}
  OBVIOUS
<1>2. Len(Arrived) = 0 /\ 0 \in Nat
  BY ArrivedIsDown
<1>3. \A i \in 1..0 : \A t \in T[i - 1] : Parsed(t, Arrived[i]) \in T[i]
  OBVIOUS
<1> HIDE DEF T
<1>4. Polled(s) \in T[0]
  BY <1>1, <1>2, <1>3, PolledClimbs
<1> QED
  BY <1>1, <1>4

\* So is a single frame.
LEMMA FrameHeard ==
  ASSUME AttemptsMakeSense, Control, o.pc # "gone", Len(down) = 1, NEW s PROVE Polled(s) = Parsed(s, down[1])
<1> DEFINE T == [i \in 0..1 |-> IF i = 0 THEN {s} ELSE {Parsed(s, down[1])}]
<1>1. s \in T[0] /\ T[0] = {s} /\ T[1] = {Parsed(s, down[1])}
  OBVIOUS
<1>2. Len(Arrived) = 1 /\ 1 \in Nat /\ Arrived = down
  BY ArrivedIsDown
<1>3. ASSUME NEW i \in 1..1, NEW t \in T[i - 1] PROVE Parsed(t, Arrived[i]) \in T[i]
  <2>1. i = 1 /\ i - 1 = 0
    OBVIOUS
  <2>2. t = s
    BY <1>1, <2>1
  <2> QED
    BY <1>1, <1>2, <2>1, <2>2
<1> HIDE DEF T
<1>4. Polled(s) \in T[1]
  BY <1>1, <1>2, <1>3, PolledClimbs
<1> QED
  BY <1>1, <1>4

\* A clean guard that waits for no decision and hears no cancellation hears nothing.
LEMMA NothingHeard ==
  ASSUME AttemptsMakeSense, Control, Clean, Unhurt, Mails, g.pc # "gate", Polled(g).cancel = 0
  PROVE  Polled(g) = g
<1>1. o.pc # "gone" /\ g.readable
  BY DEF Clean, Unhurt
<1>2. down = <<>>
  <2> SUFFICES ASSUME down # <<>> PROVE FALSE
    OBVIOUS
  <2>1. down \in Seq(DownFrames)
    BY DEF Control, TypeOK
  <2>2. 1 \in DOMAIN down /\ down[1] \in DownFrames
    BY <2>1
  <2>3. down[1].kind # "decision"
    BY <2>2 DEF Mails, Asked
  <2>4. down[1].kind = "cancel"
    BY <2>2, <2>3 DEF DownFrames, Cancels, Decisions
  <2> QED
    BY <1>1, <2>2, <2>4, CancelHeard
<1> QED
  BY <1>1, <1>2, SilenceHeard

\* One that waits and hears no cancellation hears the decision.
LEMMA DecisionHeard ==
  ASSUME AttemptsMakeSense, Control, Clean, Unhurt, Mails, g.pc = "gate", down # <<>>, Polled(g).cancel = 0
  PROVE  \E f \in Decisions :
           Asked(f) /\ Polled(g) = [g EXCEPT !.gate = 0, !.decision = f.action]
<1>1. o.pc # "gone" /\ g.readable /\ g.gate = g.attempt /\ g.attempt # 0
  BY DEF Clean, Unhurt, Control, Sane
<1>2. down \in Seq(DownFrames)
  BY DEF Control, TypeOK
<1>3. \A i \in DOMAIN down : down[i] \in Decisions
  <2> SUFFICES ASSUME NEW i \in DOMAIN down PROVE down[i] \in Decisions
    OBVIOUS
  <2>1. down[i] \in DownFrames /\ down[i].kind # "cancel"
    BY <1>1, <1>2, CancelHeard
  <2> QED
    BY <2>1 DEF DownFrames, Cancels
<1>4. Len(down) = 1 /\ 1 \in DOMAIN down
  <2>1. Len(down) \in Nat /\ Len(down) # 0 /\ DOMAIN down = 1..Len(down)
    BY <1>2
  <2>2. ASSUME Len(down) # 1 PROVE FALSE
    <3>1. 1 \in DOMAIN down /\ 2 \in DOMAIN down
      BY <2>1, <2>2
    <3>2. down[1].kind = "decision" /\ down[2].kind = "decision"
      BY <1>3, <3>1 DEF Decisions
    <3> QED
      BY <3>1, <3>2 DEF Mails
  <2> QED
    BY <2>1, <2>2
<1> PICK f \in Decisions : f = down[1]
  BY <1>3, <1>4
<1>5. Asked(f) /\ f.kind = "decision" /\ f.attempt = g.attempt
  BY <1>4 DEF Mails, Asked, Decisions
<1>6. Polled(g) = Parsed(g, f)
  BY <1>1, <1>4, FrameHeard
<1>7. Parsed(g, f) = [g EXCEPT !.gate = 0, !.decision = f.action]
  BY <1>1, <1>5 DEF Parsed, MatchesGate
<1> QED
  BY <1>5, <1>6, <1>7

-----------------------------------------------------------------------------
(***************************************************************************)
(* The steps of a guard that is clean after them.                          *)
(***************************************************************************)
\* Moving on moves, and nothing else.
Onto(t, s, pc) ==
  /\ t.pc = pc /\ t.attempt = s.attempt /\ t.cancel = s.cancel /\ t.closed = s.closed
  /\ t.graced = s.graced /\ t.readable = s.readable /\ t.writable = s.writable
  /\ t.gate = s.gate /\ t.decision = s.decision /\ t.fault = s.fault
LEMMA GoMoves == ASSUME NEW s \in GuardStates, NEW pc PROVE Onto(Go(s, pc), s, pc)
BY DEF Go, Onto, GuardStates

\* A problem, a cancellation and a reap cancel; nothing takes a cancellation back.
LEMMA Cancelling ==
  ASSUME NEW s \in GuardStates
  PROVE  /\ \A problem, dump : Failed(s, problem, dump).cancel # 0
         /\ \A signal \in Signals : CancelledBy(s, signal).cancel # 0
         /\ \A after : s.cancel # 0 \/ ~s.graced => Reaping(s, after).cancel # 0
         /\ \A code_ : Exit(s, code_).cancel = s.cancel /\ Exit(s, code_).exit = code_
         /\ Disconnected(s).cancel = s.cancel
<1>1. ASSUME NEW problem, NEW dump PROVE Failed(s, problem, dump).cancel # 0
  BY DEF Failed, GuardStates
<1>2. ASSUME NEW signal \in Signals PROVE CancelledBy(s, signal).cancel # 0
  BY DEF CancelledBy, GuardStates, Signals
<1>3. ASSUME NEW after, s.cancel # 0 \/ ~s.graced PROVE Reaping(s, after).cancel # 0
  <2>1. CASE s.graced
    BY <1>3, <2>1 DEF Reaping, GuardStates
  <2>2. CASE ~s.graced
    <3>1. CancelledBy(s, 15).cancel # 0
      BY <1>2 DEF Signals
    <3> PICK t : t = CancelledBy(s, 15)
      OBVIOUS
    <3>2. DOMAIN t = DOMAIN s /\ "cancel" \in DOMAIN s
      BY DEF CancelledBy, GuardStates
    <3>3. Reaping(s, after) = [t EXCEPT !.pc = "reap", !.after = after, !.graced = TRUE]
      BY <2>2 DEF Reaping
    <3> QED
      BY <3>1, <3>2, <3>3
  <2> QED
    BY <2>1, <2>2
<1>4. ASSUME NEW code_ PROVE Exit(s, code_).cancel = s.cancel /\ Exit(s, code_).exit = code_
  BY DEF Exit, GuardStates
<1>5. Disconnected(s).cancel = s.cancel
  BY DEF Disconnected, GuardStates
<1> QED
  BY <1>1, <1>2, <1>3, <1>4, <1>5

LEMMA Emitted ==
  ASSUME NEW s \in GuardStates, NEW f, Emitting(s, f)
  PROVE  /\ g'.cancel = s.cancel
         /\ s.writable /\ o.pc # "gone" => g' = s /\ up' = Append(up, f)
BY Cancelling DEF Emitting

\* An attempt that is not run, and one that is ended, stay cancelled.
LEMMA NotRunLasts == ASSUME NEW t \in GuardStates, t.cancel # 0, NotRun(t) PROVE g'.cancel # 0
<1> PICK u : u = IF t.attempt = 0 THEN [t EXCEPT !.closed = TRUE] ELSE t
  OBVIOUS
<1>1. u \in GuardStates /\ u.cancel # 0
  BY DEF GuardStates
<1>2. Go(u, "next") \in GuardStates /\ Go(u, "next").cancel # 0
  BY <1>1, GoMoves, ZenonT(30) DEF Go, GuardStates, Points, Onto
<1>3. g' = Go(u, "next") \/ \E f : Emitting(Go(u, "next"), f)
  BY DEF NotRun
<1> QED
  BY <1>2, <1>3, Emitted
LEMMA EndingLasts == ASSUME NEW t \in GuardStates, t.cancel # 0, Ending(t) PROVE g'.cancel # 0
<1>1. Go(t, "dump").cancel # 0
  BY GoMoves DEF Onto
<1>2. Reaping(t, "collect").cancel # 0
  BY Cancelling
<1> QED
  BY <1>1, <1>2 DEF Ending

LEMMA CancelLasts ==
  ASSUME AttemptsMakeSense, IInv, g.cancel # 0, GuardSteps \/ GuardSignalled \/ GuardKilled
  PROVE  g'.cancel # 0
<1>1. g \in GuardStates /\ Sane(g) /\ Control
  BY DEF IInv, Control, TypeOK
<1> PICK s \in GuardStates : s = Polled(g) /\ s.cancel # 0
  BY <1>1, Heard DEF Stays, Same
<1> PICK r \in GuardStates : r = Readied(g) /\ r.cancel # 0
  BY <1>1, Looked DEF Stays, Same
<1>3. ASSUME NEW t \in GuardStates, t.cancel # 0, NEW pc \in Points PROVE Go(t, pc) \in GuardStates /\ Go(t, pc).cancel # 0
  BY <1>3 DEF Go, GuardStates
<1>4. CASE Break \/ Abort
  <2>1. CancelledBy(g, 15) \in GuardStates /\ CancelledBy(g, 15).cancel # 0
    BY <1>1, CancelKeeps DEF Signals, Stays
  <2> QED
    BY <1>1, <1>4, <2>1, Cancelling DEF Break, Abort
<1>5. CASE Boot
  BY <1>3, <1>5, Cancelling DEF Boot, Points
<1>6. CASE Register
  BY <1>1, <1>3, <1>6, Cancelling, Emitted DEF Register, Points
<1>7. CASE NextAttempt \/ Ask
  <2>1. ASSUME NEW pc \in {"ask", "drain"}, g' = Go(g, pc) PROVE g'.cancel # 0
    BY <1>1, <1>3, <2>1 DEF Points
  <2>2. ASSUME NEW p \in {"ownership-uncertain", "execution-timeout"}, g' = Go(Failed(g, p, FALSE), "drain") PROVE g'.cancel # 0
    <3>1. Failed(g, p, FALSE).cancel # 0 /\ DOMAIN Failed(g, p, FALSE) = DOMAIN g /\ "cancel" \in DOMAIN g
      BY <1>1, Cancelling DEF Failed, GuardStates
    <3> QED
      BY <2>2, <3>1 DEF Go
  <2>3. ASSUME NEW f, Emitting([Go(g, "gate") EXCEPT !.attempt = g.attempt + 1, !.gate = g.attempt + 1, !.decision = "none"], f),
               Prepared(g.attempt + 1)
        PROVE  g'.cancel # 0
    <3> PICK k \in 0..Attempts : k = g.attempt + 1
      BY <1>1, <2>3 DEF Prepared, GuardStates, AttemptsMakeSense
    <3> PICK u \in GuardStates : u = Go(g, "gate") /\ u.cancel = g.cancel
      BY <1>1, <1>3, GoMoves DEF Points, Onto
    <3> DEFINE t == [u EXCEPT !.attempt = k, !.gate = k, !.decision = "none"]
    <3>1. t \in GuardStates /\ t.cancel = u.cancel
      BY DEF GuardStates, Answers
    <3> HIDE DEF t
    <3> QED
      BY <2>3, <3>1, Emitted DEF t
  <2>4. Ask => Prepared(g.attempt + 1)
    BY DEF Ask, At, IInv, Work, Placed
  <2> QED
    BY <1>7, <2>1, <2>2, <2>3, <2>4 DEF NextAttempt, Ask
<1>8. CASE GatePoll \/ GateTimeout
  <2>1. ASSUME NEW t \in GuardStates, t.cancel # 0 PROVE GateOutcome(t).cancel # 0
    BY <2>1 DEF GateOutcome, Go, GuardStates
  <2>2. CASE GatePoll
    BY <1>1, <2>1, <2>2 DEF GatePoll
  <2>3. CASE GateTimeout
    <3> PICK t : t = Failed(g, "attempt-decision-timeout", FALSE)
      OBVIOUS
    <3>1. t.cancel # 0 /\ DOMAIN t = DOMAIN g /\ "cancel" \in DOMAIN g
      BY <1>1, Cancelling DEF Failed, GuardStates
    <3> QED
      BY <2>3, <3>1 DEF GateTimeout, Go
  <2> QED
    BY <1>8, <2>2, <2>3
<1>9. CASE Check \/ Recheck
  BY <1>3, <1>9, NotRunLasts, Emitted DEF Check, Recheck, Points
<1>10. CASE Fork \/ WatchChildGone \/ ReapDone
  BY <1>1, <1>10 DEF Fork, WatchChildGone, ReapDone, Go, GuardStates
<1>11. CASE WatchPoll \/ ReapPoll
  BY <1>11 DEF WatchPoll, ReapPoll
<1>13. CASE WatchExpires \/ WatchStalls
  BY <1>1, <1>13 DEF WatchExpires, WatchStalls
<1>14. CASE WatchCancelled
  BY <1>1, <1>14, EndingLasts DEF WatchCancelled
<1>15. CASE DumpWait \/ Collect
  BY <1>3, <1>15, Cancelling DEF DumpWait, Collect, Points
<1>16. CASE ReapExpires \/ GuardKilled
  BY <1>1, <1>3, <1>16 DEF ReapExpires, GuardKilled, Points
<1>17. CASE Result
  <2>1. ASSUME g' = [Go(g, "facts") EXCEPT !.fault = g.problem] \/ g' = [Go(g, "facts") EXCEPT !.fault = "none"] PROVE g'.cancel # 0
    BY <1>1, <2>1 DEF Go, GuardStates
  <2>2. ASSUME g' = [Reaping(Failed(g, "ownership-uncertain", FALSE), "facts") EXCEPT !.fault = "ownership-uncertain"] PROVE g'.cancel # 0
    <3> PICK t \in GuardStates : t = Failed(g, "ownership-uncertain", FALSE) /\ t.cancel # 0 /\ Sane(t)
      BY <1>1, FailureKeeps DEF Stays, Problems, Timeouts
    <3>1. Reaping(t, "facts") \in GuardStates /\ Reaping(t, "facts").cancel # 0
      <4>1. "facts" \in Goals
        BY DEF Goals
      <4> QED
        BY <4>1, ReapKeeps
    <3> PICK u \in GuardStates : u = Reaping(t, "facts") /\ u.cancel # 0
      BY <3>1
    <3>2. g' = [u EXCEPT !.fault = "ownership-uncertain"]
      BY <2>2
    <3> QED
      BY <3>2 DEF GuardStates
  <2> QED
    BY <1>17, <2>1, <2>2 DEF Result
<1>18. CASE SendFacts
  <2> PICK closed \in BOOLEAN : \E f : Emitting([Go(g, "next") EXCEPT !.closed = closed], f)
    <3> PICK closed \in BOOLEAN : closed = (g.closed \/ (g.attempt = 0 /\ Facts(g, g.fault).raw # 0))
      BY <1>1 DEF GuardStates
    <3>1. Go(g, "next").closed = g.closed
      BY <1>1, GoMoves DEF Onto
    <3>2. Emitting([Go(g, "next") EXCEPT !.closed = closed], Facts(g, g.fault))
      BY <1>18, <3>1 DEF SendFacts
    <3> QED
      BY <3>2
  <2>1. [Go(g, "next") EXCEPT !.closed = closed] \in GuardStates /\ [Go(g, "next") EXCEPT !.closed = closed].cancel # 0
    BY <1>1 DEF Go, GuardStates, Points
  <2> QED
    BY <2>1, Emitted
<1>19. CASE Drain
  <2> DEFINE t == [s EXCEPT !.closed = TRUE]
  <2>1. t \in GuardStates /\ t.cancel = s.cancel
    BY DEF GuardStates
  <2>2. g' = Reaping(t, "mark") \/ g' = Go(t, "mark")
    BY <1>19 DEF Drain
  <2>3. t \in GuardStates /\ t.cancel # 0
    BY <2>1
  <2> HIDE DEF t
  <2>4. Reaping(t, "mark").cancel # 0
    BY <2>3, Cancelling
  <2>5. Go(t, "mark").cancel # 0
    BY <2>3, GoMoves DEF Onto
  <2> QED
    BY <2>2, <2>4, <2>5
<1>20. CASE Mark
  <2>1. GuardExitCode(g) \in Int
    BY <1>1 DEF GuardExitCode, GuardStates, Cancellations, Signals
  <2>2. ASSUME NEW exit \in Int PROVE Exit(g, exit) \in GuardStates /\ Exit(g, exit).cancel # 0
    BY <1>1 DEF Exit, GuardStates, Points
  <2> QED
    BY <1>20, <2>1, <2>2, Emitted DEF Mark
<1>21. CASE GuardSignalled
  BY <1>1, <1>21, Cancelling DEF GuardSignalled, Signals
<1> QED
  BY <1>4, <1>5, <1>6, <1>7, <1>8, <1>9, <1>10, <1>11, <1>13, <1>14, <1>15, <1>16, <1>17, <1>18, <1>19, <1>20, <1>21 DEF GuardSteps

\* There is one attempt.
Single == Attempts = 1

\* What a frame that is accepted changes of the record.
LEMMA Noted ==
  ASSUME Single, NEW d \in FrameStates, NEW f \in UpFrames
  PROVE  LET t == Recorded(d, f) IN
         /\ f.kind = "registered" =>
              t.registered /\ t.draining = d.draining /\ t.invalid = d.invalid /\ SameSetup(d, t) /\ SameAttempt(d, t)
         /\ f.kind = "draining" =>
              t.draining /\ t.registered = d.registered /\ t.invalid = d.invalid /\ SameSetup(d, t) /\ SameAttempt(d, t)
         /\ f.kind = "ready" =>
              /\ t.ready = f.attempt /\ ~t.decided /\ t.reason = "none" /\ ~t.phase /\ t.facts = NoFacts
              /\ SameSetup(d, t) /\ SameEnds(d, t)
         /\ f.kind = "phase" /\ f.attempt = 0 =>
              t.setupPhase /\ t.setupFacts = d.setupFacts /\ SameAttempt(d, t) /\ SameEnds(d, t)
         /\ f.kind = "phase" /\ f.attempt # 0 =>
              /\ t.phase /\ t.ready = d.ready /\ t.decided = d.decided /\ t.reason = d.reason /\ t.facts = d.facts
              /\ SameSetup(d, t) /\ SameEnds(d, t)
         /\ f.kind = "facts" /\ f.attempt = 0 =>
              /\ t.setupFacts = [raw |-> f.raw, problem |-> f.problem] /\ t.setupPhase = d.setupPhase
              /\ SameAttempt(d, t) /\ SameEnds(d, t)
         /\ f.kind = "facts" /\ f.attempt # 0 =>
              /\ t.facts = [raw |-> f.raw, problem |-> f.problem] /\ t.phase = d.phase
              /\ t.ready = d.ready /\ t.decided = d.decided /\ t.reason = d.reason
              /\ SameSetup(d, t) /\ SameEnds(d, t)
<1>1. CASE f.kind = "registered"
  BY <1>1 DEF Recorded, FrameStates, SameSetup, SameAttempt
<1>2. CASE f.kind = "draining"
  BY <1>2 DEF Recorded, FrameStates, SameSetup, SameAttempt
<1>3. CASE f.kind = "ready"
  BY <1>3 DEF Recorded, FrameStates, SameSetup, SameEnds
<1>4. CASE f.kind = "phase" /\ f.attempt = 0
  BY <1>4 DEF Recorded, FrameStates, SameAttempt, SameEnds
<1>5. CASE f.kind = "phase" /\ f.attempt # 0
  BY <1>5 DEF Recorded, FrameStates, SameSetup, SameEnds
<1>6. CASE f.kind = "facts" /\ f.attempt = 0
  BY <1>6 DEF Recorded, FrameStates, SameAttempt, SameEnds
<1>7. CASE f.kind = "facts" /\ f.attempt # 0
  BY <1>7 DEF Recorded, FrameStates, SameSetup, SameEnds, Single
<1>8. f.kind \in {"registered", "draining", "ready", "phase", "facts"}
  BY DEF UpFrames, Notices, Readies, Phases, FactFrames
<1> QED
  BY <1>1, <1>2, <1>3, <1>4, <1>5, <1>6, <1>7, <1>8

\* A record that may be what the frames sent so far make.
Known(d) == d \in FrameStates /\ Fits(d) /\ (up = <<>> => Like(o, d))
Silent == UNCHANGED up /\ \A d : Known(d) => Fits(d)'
Says(f) == up' = Append(up, f) /\ g.pc # "gate" /\ \A d : Known(d) => Accepts(d, f) /\ Fits(Recorded(d, f))'
Steadily ==
  /\ Unhurt' /\ (Silent \/ \E f \in UpFrames : Says(f))
  /\ g.pc = "gate" => o.decided /\ ~o.deciding /\ down' = <<>>
Going == AttemptsMakeSense /\ Single /\ IInv /\ Clean /\ Undisturbed /\ Clean'

\* A guard that has ended takes no step, and one that is clean has always been.
LEMMA CleanBefore ==
  ASSUME AttemptsMakeSense, Single, IInv, Belief, GuardSteps \/ GuardSignalled \/ GuardKilled, Clean'
  PROVE  Going /\ ~Ended /\ o' = o /\ down' \in {down, <<>>}
<1>1. ~Ended
  <2>1. CASE Break \/ Abort \/ Boot \/ Register \/ NextAttempt \/ Ask \/ GatePoll \/ GateTimeout \/ Check \/ Recheck \/ Fork
    BY <2>1 DEF Break, Abort, Boot, Register, NextAttempt, Ask, GatePoll, GateTimeout, Check, Recheck, Fork, At, Ended
  <2>2. CASE WatchPoll \/ WatchExpires \/ WatchStalls \/ WatchCancelled \/ WatchChildGone \/ DumpWait \/ ReapPoll
    BY <2>2 DEF WatchPoll, WatchExpires, WatchStalls, WatchCancelled, WatchChildGone, DumpWait, ReapPoll, At, Ended
  <2>3. CASE ReapDone \/ ReapExpires \/ Collect \/ Result \/ SendFacts \/ Drain \/ Mark
    BY <2>3 DEF ReapDone, ReapExpires, Collect, Result, SendFacts, Drain, Mark, At, Ended
  <2>4. CASE GuardSignalled \/ GuardKilled
    BY <2>4 DEF GuardSignalled, GuardKilled
  <2> QED
    BY <2>1, <2>2, <2>3, <2>4 DEF GuardSteps
<1>2. o' = o /\ down' \in {down, <<>>}
  BY GuardTouches DEF IInv, Control
<1>3. g.cancel = 0
  BY CancelLasts DEF Clean
<1> QED
  BY <1>1, <1>2, <1>3 DEF Going, Clean, Ended, Belief

LEMMA SteadilyKeeps ==
  ASSUME Going, ~Ended, o' = o, down' \in {down, <<>>}, Steadily PROVE Belief'
<1>1. /\ up \in Seq(UpFrames) /\ o \in FrameStates /\ AttemptsMakeSense /\ Clean
      /\ Unhurt /\ Believed /\ Waits /\ Mails /\ Heeded
  BY DEF Going, IInv, Control, TypeOK, Undisturbed
<1>2. ASSUME NEW q \in FrameStates, Like(o, q) PROVE Known(Drained(q))
  <2>1. ReceivedAll(q, up) \in FrameStates
    <3> PICK f : f = [kind |-> "registered"]
      OBVIOUS
    <3>1. f \in UpFrames
      BY DEF UpFrames, Notices
    <3> QED
      BY <1>1, <3>1, ReceivedMore
  <2>2. up = <<>> => Drained(q) = q
    BY ReceivedNothing DEF Drained
  <2> QED
    BY <1>1, <1>2, <2>1, <2>2 DEF Believed, Known, Drained
<1>3. Believed'
  <2> SUFFICES ASSUME NEW q \in FrameStates, Like(o, q) PROVE Fits(Drained(q))'
    BY DEF Believed
  <2>1. Known(Drained(q))
    BY <1>2
  <2>2. CASE Silent
    <3>1. Drained(q)' = Drained(q)
      BY <2>2 DEF Silent, Drained
    <3> PICK d : d = Drained(q)
      OBVIOUS
    <3>2. Fits(d)'
      BY <2>1, <2>2 DEF Silent
    <3>3. Drained(q)' = d
      BY <3>1
    <3> QED
      BY <3>2, <3>3 DEF Fits, SetupFits, AttemptFits
  <2>3. ASSUME NEW f \in UpFrames, Says(f) PROVE Fits(Drained(q))'
    <3> PICK d : d = Drained(q)
      OBVIOUS
    <3>1. Known(d)
      BY <2>1
    <3>2. Accepts(d, f) /\ Fits(Recorded(d, f))' /\ ~d.invalid
      BY <2>3, <3>1 DEF Says, Known, Fits
    <3>3. Drained(q)' = Received(d, f)
      <4>1. up' = Append(up, f)
        BY <2>3 DEF Says
      <4>2. ReceivedAll(q, Append(up, f)) = Received(ReceivedAll(q, up), f)
        BY <1>1, ReceivedMore
      <4> QED
        BY <4>1, <4>2 DEF Drained
    <3>4. Received(d, f) = Recorded(d, f)
      BY <3>2 DEF Received
    <3> PICK t : t = Recorded(d, f)
      OBVIOUS
    <3>5. Drained(q)' = t /\ Fits(t)'
      BY <3>2, <3>3, <3>4
    <3> QED
      BY <3>5 DEF Fits, SetupFits, AttemptFits
  <2> QED
    BY <2>2, <2>3 DEF Steadily
<1>4. Waits'
  <2>1. CASE g.pc = "gate"
    BY <1>1, <2>1 DEF Steadily, Waits
  <2>2. CASE g.pc # "gate"
    BY <1>1, <2>2 DEF Waits
  <2> QED
    BY <2>1, <2>2
<1>5. Mails'
  <2>1. CASE down' = <<>>
    BY <2>1 DEF Mails
  <2>2. CASE down' = down /\ down # <<>>
    <3>1. g.pc # "gate"
      BY <2>2 DEF Steadily
    <3>2. \A i \in DOMAIN down : down[i].kind # "decision"
      BY <1>1, <3>1 DEF Mails, Asked
    <3> QED
      BY <2>2, <3>2 DEF Mails, Asked
  <2> QED
    BY <2>1, <2>2
<1>6. Heeded'
  BY <1>1 DEF Heeded
<1>7. Unhurt'
  BY DEF Steadily
<1> QED
  BY <1>3, <1>4, <1>5, <1>6, <1>7 DEF Belief, Undisturbed

\* What a step of a guard that goes on may count on.
LEMMA GoingOn ==
  ASSUME Going
  PROVE  /\ AttemptsMakeSense /\ Control /\ Placed /\ Coded /\ g \in GuardStates /\ Sane(g)
         /\ Clean /\ Unhurt /\ Mails /\ Waits /\ o.pc # "gone"
         /\ g.cancel = 0 /\ g.problem = "none" /\ g.readable /\ g.writable /\ ~g.graced
         /\ g.attempt \in {0, 1} /\ (Prepared(g.attempt + 1) <=> g.attempt = 0)
         /\ g'.cancel = 0 /\ g'.pc # "killed" /\ (g'.pc = "exited" => g'.exit = 0)
BY DEF Going, IInv, Work, Control, TypeOK, Sane, Undisturbed, Unhurt, Clean, GuardStates, Single, Prepared

\* A look at the channel that ends without a cancellation finds no change.
LEMMA Quiet ==
  ASSUME Going, g.pc # "gate"
  PROVE  /\ Polled(g).cancel = 0 => Polled(g) = g
         /\ Readied(g).cancel = 0 => Readied(g) = g /\ (expired => g.closed)
<1>1. Polled(g).cancel = 0 => Polled(g) = g
  BY GoingOn, NothingHeard
<1>2. ASSUME Readied(g).cancel = 0 PROVE Readied(g) = g /\ (expired => g.closed)
  <2> PICK p \in GuardStates : p = Polled(g)
    BY GoingOn, Heard DEF Stays
  <2>1. Failed(p, "execution-timeout", FALSE).cancel # 0
    BY DEF Failed, GuardStates
  <2>2. Readied(g) = p /\ ~(expired /\ ~p.closed)
    BY <1>2, <2>1 DEF Readied
  <2> QED
    BY <1>1, <1>2, <2>2
<1> QED
  BY <1>1, <1>2

\* A guard that only moves on without a word.
LEMMA MovesOn ==
  ASSUME Going, UNCHANGED up, g.pc # "gate", NEW pc \in Points \ {"gate", "dump", "reap", "abort"}, Onto(g', g, pc),
         \A d : Known(d) => Fits(d)',
         g.closed => pc \in {"facts", "next"} \union Leaving,
         pc = "next" /\ g.attempt = 0 /\ g.closed => HasSetup,
         pc = "facts" => g.fault = "none" \/ g.closed
  PROVE  Steadily
BY GoingOn DEF Steadily, Silent, Unhurt, Onto

\* One that says something.
LEMMA SpeaksOn ==
  ASSUME Going, NEW s \in GuardStates, NEW f \in UpFrames, Emitting(s, f), g.pc # "gate", s.writable,
         \A d : Known(d) => Accepts(d, f) /\ Fits(Recorded(d, f))',
         s.readable, ~s.graced, s.pc \notin {"dump", "reap", "abort"},
         s.pc = "gate" => s.gate = s.attempt /\ s.decision = "none",
         s.closed => s.pc \in {"facts", "next"} \union Leaving,
         s.pc = "next" /\ s.attempt = 0 /\ s.closed => HasSetup,
         s.pc = "facts" => s.fault = "none" \/ s.closed
  PROVE  Steadily
<1>1. g' = s /\ up' = Append(up, f)
  BY GoingOn, Emitted
<1>2. Says(f)
  BY <1>1 DEF Says
<1>3. Unhurt'
  BY <1>1 DEF Unhurt
<1> QED
  BY <1>2, <1>3 DEF Steadily

\* The setup a guard is at is declared.
LEMMA SetupDeclared ==
  ASSUME Going, g.attempt = 0, g.pc \in {"check"} \union Running \union Leaving PROVE HasSetup
<1> PICK d : d = Drained(o)
  OBVIOUS
<1>1. o \in FrameStates /\ Like(o, o)
  BY DEF Going, IInv, Control, TypeOK, Like, SameSetup, SameAttempt, SameEnds
<1>2. Fits(d)
  BY <1>1 DEF Going, Undisturbed, Believed
<1> QED
  BY <1>2 DEF Fits, SetupFits

-----------------------------------------------------------------------------
LEMMA BootSteady == ASSUME Going, Boot PROVE Steadily
<1>1. g.pc = "boot" /\ g.attempt = 0 /\ UNCHANGED up /\ ~g.closed
  BY GoingOn DEF Boot, At, Placed, Unhurt, Leaving
<1> PICK s \in GuardStates : s = Polled(g)
  BY GoingOn, Heard DEF Stays
<1>2. g' = Go(s, "register")
  BY GoingOn, Cancelling DEF Boot, Exit, GuardStates, Cancellations, Signals
<1>3. s.cancel = 0
  BY <1>2, GoingOn, GoMoves DEF Onto
<1>4. s = g
  BY <1>1, <1>3, Quiet
<1>5. Onto(g', g, "register")
  BY <1>2, <1>4, GoMoves
<1>6. \A d : Known(d) => Fits(d)'
  BY <1>1, <1>5 DEF Known, Fits, SetupFits, AttemptFits, Onto, Running, Leaving
<1> QED
  BY <1>1, <1>5, <1>6, MovesOn DEF Points, Leaving

LEMMA RegisterSteady == ASSUME Going, Register PROVE Steadily
<1>1. g.pc = "register" /\ g.attempt = 0 /\ ~g.closed
  BY GoingOn DEF Register, At, Placed, Unhurt, Leaving
<1> PICK f : f = [kind |-> "registered"]
  OBVIOUS
<1> PICK pc \in {"check", "next"} : pc = IF HasSetup THEN "check" ELSE "next"
  OBVIOUS
<1> PICK s \in GuardStates : s = Go(g, pc)
  BY GoingOn DEF Go, GuardStates, Points
<1>2. Emitting(s, f)
  <2>1. g' # Exit(g, 75)
    <3>1. Exit(g, 75).exit = 75 /\ Exit(g, 75).pc = "exited"
      BY GoingOn DEF Exit, GuardStates
    <3> QED
      BY <3>1, GoingOn
  <2> QED
    BY <2>1 DEF Register
<1>3. Onto(s, g, pc) /\ f \in UpFrames
  BY GoingOn, GoMoves DEF UpFrames, Notices
<1>4. g' = s
  BY <1>2, <1>3, GoingOn, Emitted DEF Onto
<1>5. ASSUME NEW d, Known(d) PROVE Accepts(d, f) /\ Fits(Recorded(d, f))'
  <2>1. d \in FrameStates /\ Fits(d)
    BY <1>5 DEF Known
  <2>2. Accepts(d, f)
    BY <1>1, <2>1 DEF Accepts, AcceptsOne, Going, Single, Fits, SetupFits, AttemptFits
  <2> PICK t : t = Recorded(d, f)
    OBVIOUS
  <2>3. t.registered /\ t.draining = d.draining /\ t.invalid = d.invalid /\ SameSetup(d, t) /\ SameAttempt(d, t)
    BY <1>3, <2>1, Noted DEF Going
  <2>4. Fits(t)'
    BY <1>1, <1>3, <1>4, <2>1, <2>3 DEF Fits, SetupFits, AttemptFits, SameSetup, SameAttempt, Onto, Running, Leaving
  <2> QED
    BY <2>2, <2>4 DEF Fits, SetupFits, AttemptFits
<1> QED
  BY <1>1, <1>2, <1>3, <1>5, SpeaksOn, GoingOn DEF Onto, Leaving

\* A problem cancels the guard, so it is not one that goes on.
LEMMA FailureShows ==
  ASSUME Going, NEW p, g' = Go(Failed(g, p, FALSE), "drain") PROVE FALSE
<1> PICK t : t = Failed(g, p, FALSE)
  OBVIOUS
<1>1. t.cancel # 0 /\ DOMAIN t = DOMAIN g /\ "cancel" \in DOMAIN g
  BY GoingOn DEF Failed, GuardStates
<1> QED
  BY <1>1, GoingOn DEF Go

LEMMA NextSteady == ASSUME Going, NextAttempt PROVE Steadily
<1>1. g.pc = "next" /\ UNCHANGED up
  BY DEF NextAttempt, At
<1>2. CASE g' = Go(g, "drain") /\ (g.closed \/ ~Prepared(g.attempt + 1))
  <2>1. Onto(g', g, "drain")
    BY <1>2, GoingOn, GoMoves
  <2>2. g.attempt = 0 => HasSetup
    BY <1>1, <1>2, GoingOn DEF Unhurt
  <2>3. ASSUME NEW d, Known(d) PROVE Fits(d)'
    BY <1>1, <1>2, <2>1, <2>2, <2>3, GoingOn DEF Known, Fits, SetupFits, AttemptFits, Onto, Running, Leaving
  <2> QED
    BY <1>1, <1>2, <2>1, <2>3, MovesOn DEF Points, Leaving
<1>3. CASE g' = Go(g, "ask") /\ ~g.closed /\ Prepared(g.attempt + 1)
  <2>1. Onto(g', g, "ask")
    BY <1>3, GoingOn, GoMoves
  <2>2. ASSUME NEW d, Known(d) PROVE Fits(d)'
    BY <1>1, <1>3, <2>1, <2>2, GoingOn DEF Known, Fits, SetupFits, AttemptFits, Onto, Running, Leaving
  <2> QED
    BY <1>1, <1>3, <2>1, <2>2, MovesOn DEF Points
<1> QED
  BY <1>2, <1>3, FailureShows DEF NextAttempt

LEMMA AskSteady == ASSUME Going, Ask PROVE Steadily
<1>1. g.pc = "ask" /\ ~g.closed /\ g.attempt = 0
  BY GoingOn DEF Ask, At, Placed, Unhurt, Leaving
<1>4. ASSUME Emitting([Go(g, "gate") EXCEPT !.attempt = 1, !.gate = 1, !.decision = "none"], [kind |-> "ready", attempt |-> 1])
      PROVE  Steadily
  <2> PICK f : f = [kind |-> "ready", attempt |-> 1]
    OBVIOUS
  <2>1. 1 \in 1..Attempts /\ 1 \in 0..Attempts
    BY DEF Going, Single
  <2>2. f \in UpFrames
    BY <2>1 DEF UpFrames, Readies
  <2> PICK s \in GuardStates : s = [Go(g, "gate") EXCEPT !.attempt = 1, !.gate = 1, !.decision = "none"]
    BY <2>1, GoingOn DEF Go, GuardStates, Points, Answers
  <2>3. /\ s.pc = "gate" /\ s.attempt = 1 /\ s.gate = 1 /\ s.decision = "none" /\ s.closed = g.closed
        /\ s.graced = g.graced /\ s.readable = g.readable /\ s.writable = g.writable /\ s.cancel = g.cancel
    BY GoingOn DEF Go, GuardStates
  <2>4. Emitting(s, f)
    BY <1>4
  <2>5. g' = s
    BY <2>3, <2>4, GoingOn, Emitted
  <2>6. ASSUME NEW d, Known(d) PROVE Accepts(d, f) /\ Fits(Recorded(d, f))'
    <3>1. d \in FrameStates /\ Fits(d)
      BY <2>6 DEF Known
    <3>2. /\ d.registered /\ ~d.draining /\ d.ready = 0 /\ ~d.phase /\ Unreported(d.facts) /\ ~d.invalid
          /\ HasSetup => d.setupPhase /\ ~Unreported(d.setupFacts) /\ SetupPassed(d)
          /\ ~HasSetup => Unreported(d.setupFacts) /\ ~d.setupPhase
      BY <1>1, <3>1 DEF Fits, SetupFits, AttemptFits, Leaving
    <3>3. Accepts(d, f)
      BY <3>2 DEF Accepts, AcceptsOne, Going, Single, SetupSettled
    <3> PICK t : t = Recorded(d, f)
      OBVIOUS
    <3>4. /\ t.ready = 1 /\ ~t.decided /\ t.reason = "none" /\ ~t.phase /\ t.facts = NoFacts
          /\ SameSetup(d, t) /\ SameEnds(d, t)
      BY <2>2, <3>1, Noted DEF Going
    <3>5. SetupFits(t)'
      BY <2>3, <2>5, <3>2, <3>4 DEF SetupFits, SameSetup, SetupPassed, Running, Leaving
    <3>6. AttemptFits(t)'
      BY <2>3, <2>5, <3>4 DEF AttemptFits, Unreported, NoFacts, Running, Leaving
    <3>7. Fits(t)'
      BY <2>3, <2>5, <3>2, <3>4, <3>5, <3>6 DEF Fits, SameEnds
    <3> QED
      BY <3>3, <3>7 DEF Fits, SetupFits, AttemptFits
  <2> QED
    BY <1>1, <1>4, <2>2, <2>3, <2>4, <2>6, SpeaksOn, GoingOn
<1>5. g.attempt + 1 = 1
  BY <1>1
<1> QED
  BY <1>1, <1>4, <1>5, FailureShows DEF Ask

\* The gate opens with the decision and with nothing else.
LEMMA GateSteady == ASSUME Going, GatePoll \/ GateTimeout PROVE Steadily
<1>1. g.pc = "gate" /\ ~g.closed /\ UNCHANGED up
  BY GoingOn DEF GatePoll, GateTimeout, At, Unhurt, Leaving
<1>2. ~GateTimeout
  <2> PICK t : t = Failed(g, "attempt-decision-timeout", FALSE)
    OBVIOUS
  <2>1. t.cancel # 0 /\ DOMAIN t = DOMAIN g /\ "cancel" \in DOMAIN g
    BY GoingOn DEF Failed, GuardStates
  <2> QED
    BY <2>1, GoingOn DEF GateTimeout, Go
<1> PICK s \in GuardStates : s = Polled(g)
  BY GoingOn, Heard DEF Stays
<1>3. Mail /\ down' = <<>> /\ g' = IF s.decision # "none" \/ s.closed THEN GateOutcome(s) ELSE s
  BY <1>1, <1>2 DEF GatePoll
<1>4. s.cancel = 0
  <2>1. GateOutcome(s).cancel = s.cancel
    BY DEF GateOutcome, Go, GuardStates
  <2> QED
    BY <1>3, <2>1, GoingOn
<1>5. down # <<>>
  BY <1>3, GoingOn DEF Mail
<1> PICK f \in Decisions : Asked(f) /\ s = [g EXCEPT !.gate = 0, !.decision = f.action]
  <2>1. \E f \in Decisions : Asked(f) /\ Polled(g) = [g EXCEPT !.gate = 0, !.decision = f.action]
    BY <1>1, <1>4, <1>5, GoingOn, DecisionHeard
  <2> QED
    BY <2>1
<1>6. f.kind = "decision" /\ f.action \in {"continue", "stop"}
  BY DEF Decisions
<1>7. /\ g.attempt # 0 /\ up = <<>> /\ o.decided /\ ~o.deciding
      /\ f.action = IF o.reason = "none" THEN "continue" ELSE "stop"
  BY <1>1, <1>6, GoingOn DEF Asked, Waits, Sane
<1>8. /\ s.decision = f.action /\ s.closed = g.closed /\ s.attempt = g.attempt /\ s.graced = g.graced
      /\ s.readable = g.readable /\ s.writable = g.writable
  BY GoingOn DEF GuardStates
<1>9. g' = GateOutcome(s)
  BY <1>3, <1>6, <1>8
<1>10. /\ g'.attempt = g.attempt /\ g'.graced = g.graced /\ g'.readable = g.readable /\ g'.writable = g.writable
       /\ f.action = "continue" => g'.pc = "check" /\ g'.closed = g.closed
       /\ f.action = "stop" => g'.pc = "drain"
  <2>1. CASE f.action = "continue"
    BY <1>8, <1>9, <2>1 DEF GateOutcome, Go, GuardStates
  <2>2. CASE f.action = "stop"
    BY <1>8, <1>9, <2>2 DEF GateOutcome, Go, GuardStates
  <2> QED
    BY <1>6, <2>1, <2>2
<1>11. Unhurt'
  BY <1>1, <1>6, <1>10, GoingOn DEF Unhurt, Leaving
<1>12. ASSUME NEW d, Known(d) PROVE Fits(d)'
  <2>1. Fits(d) /\ d.decided = o.decided /\ d.reason = o.reason
    BY <1>7, <1>12 DEF Known, Like, SameAttempt
  <2>2. SetupFits(d)'
    BY <1>1, <1>6, <1>7, <1>10, <2>1 DEF Fits, SetupFits, Running, Leaving
  <2>3. AttemptFits(d)'
    BY <1>1, <1>6, <1>7, <1>10, <2>1 DEF Fits, AttemptFits, Running, Leaving
  <2> QED
    BY <1>1, <1>6, <1>10, <2>1, <2>2, <2>3 DEF Fits
<1> QED
  BY <1>1, <1>3, <1>7, <1>11, <1>12 DEF Steadily, Silent

\* A guard that goes on after a look was not turned back by it.
LEMMA LookSteady ==
  ASSUME Going, g.pc \in {"check", "recheck"}, NEW pc \in {"recheck", "fork"},
         NotRun(Readied(g)) \/ g' = Go(Readied(g), pc) \/ (\E f : Emitting(Go(Readied(g), pc), f)),
         Readied(g).closed => NotRun(Readied(g))
  PROVE  Readied(g) = g /\ ~g.closed
<1> PICK s \in GuardStates : s = Readied(g)
  BY GoingOn, Looked DEF Stays
<1>1. s.cancel = 0
  <2>1. Go(s, pc) \in GuardStates /\ Go(s, pc).cancel = s.cancel
    BY DEF Go, GuardStates, Points
  <2>2. CASE NotRun(s)
    BY <2>2, NotRunLasts, GoingOn
  <2>3. CASE ~NotRun(s)
    BY <2>1, <2>3, Emitted, GoingOn
  <2> QED
    BY <2>2, <2>3
<1>2. s = g
  BY <1>1, GoingOn, Quiet
<1> QED
  BY <1>2, GoingOn DEF Unhurt, Leaving

LEMMA CheckSteady == ASSUME Going, Check PROVE Steadily
<1>1. g.pc = "check"
  BY DEF Check, At
<1>2. Readied(g) = g /\ ~g.closed
  <2>1. Readied(g).closed => NotRun(Readied(g))
    BY DEF Check
  <2>2. NotRun(Readied(g)) \/ (\E f : Emitting(Go(Readied(g), "recheck"), f))
    BY DEF Check
  <2> QED
    BY <1>1, <2>1, <2>2, LookSteady
<1> PICK f : f = [kind |-> "phase", attempt |-> g.attempt]
  OBVIOUS
<1> PICK s \in GuardStates : s = Go(g, "recheck")
  BY GoingOn DEF Go, GuardStates, Points
<1>3. Emitting(s, f)
  BY <1>2 DEF Check
<1>4. Onto(s, g, "recheck") /\ f \in UpFrames
  <2>1. g.attempt \in 0..Attempts
    BY GoingOn DEF GuardStates
  <2> QED
    BY <2>1, GoingOn, GoMoves DEF UpFrames, Phases
<1>5. g' = s
  BY <1>3, <1>4, GoingOn, Emitted DEF Onto
<1>6. ASSUME NEW d, Known(d) PROVE Accepts(d, f) /\ Fits(Recorded(d, f))'
  <2>1. d \in FrameStates /\ Fits(d) /\ SetupFits(d) /\ AttemptFits(d)
    BY <1>6 DEF Known, Fits
  <2> PICK t : t = Recorded(d, f)
    OBVIOUS
  <2>2. d.registered /\ ~d.draining /\ ~d.phase /\ Unreported(d.facts) /\ ~d.invalid
    BY <1>1, <2>1, GoingOn DEF Fits, AttemptFits
  <2>3. CASE g.attempt = 0
    <3>1. HasSetup /\ ~d.setupPhase /\ Unreported(d.setupFacts)
      BY <1>1, <2>1, <2>3 DEF SetupFits
    <3>2. Accepts(d, f)
      BY <2>2, <2>3, <3>1 DEF Accepts, AcceptsOne, Going, Single
    <3>3. t.setupPhase /\ t.setupFacts = d.setupFacts /\ SameAttempt(d, t) /\ SameEnds(d, t)
      BY <1>4, <2>1, <2>3, Noted DEF Going
    <3>4. SetupFits(t)' /\ AttemptFits(t)'
      BY <1>1, <1>4, <1>5, <2>1, <2>2, <2>3, <3>1, <3>3 DEF SetupFits, AttemptFits, SameAttempt, Onto, Running, Leaving
    <3>5. Fits(t)'
      BY <1>4, <1>5, <2>2, <3>3, <3>4 DEF Fits, SameEnds, Onto
    <3> QED
      BY <3>2, <3>5 DEF Fits, SetupFits, AttemptFits
  <2>4. CASE g.attempt # 0
    <3>1. d.ready # 0 /\ d.decided /\ d.reason = "none"
      BY <1>1, <2>1, <2>4 DEF AttemptFits
    <3>2. Accepts(d, f)
      BY <2>2, <2>4, <3>1 DEF Accepts, AcceptsOne, Going, Single
    <3>3. /\ t.phase /\ t.ready = d.ready /\ t.decided = d.decided /\ t.reason = d.reason /\ t.facts = d.facts
          /\ SameSetup(d, t) /\ SameEnds(d, t)
      BY <1>4, <2>1, <2>4, Noted, ZenonT(30) DEF Going
    <3>4. SetupFits(t)'
      BY <1>1, <1>4, <1>5, <2>1, <2>4, <3>3 DEF SetupFits, SetupPassed, SameSetup, Onto, Running, Leaving
    <3>5. AttemptFits(t)'
      BY <1>1, <1>4, <1>5, <2>1, <2>2, <2>4, <3>1, <3>3 DEF AttemptFits, Onto, Running, Leaving
    <3>6. Fits(t)'
      BY <1>4, <1>5, <2>2, <3>3, <3>4, <3>5 DEF Fits, SameEnds, Onto
    <3> QED
      BY <3>2, <3>6 DEF Fits, SetupFits, AttemptFits
  <2> QED
    BY <2>3, <2>4
<1> QED
  BY <1>1, <1>2, <1>3, <1>4, <1>6, SpeaksOn, GoingOn DEF Onto, Leaving

\* One that runs an attempt moves on in silence.
LEMMA RunsOn ==
  ASSUME Going, UNCHANGED up, g.pc \in Running, g'.pc \in Running, g'.attempt = g.attempt,
         g'.readable = g.readable, g'.writable = g.writable, g'.graced = g.graced,
         g'.closed => g'.pc = "facts", g'.pc = "facts" => g'.fault = "none" \/ g'.closed
  PROVE  Steadily
<1>1. g.pc # "gate" /\ g'.pc \notin {"gate", "next", "dump", "reap", "abort"}
  BY DEF Running
<1>2. ASSUME NEW d, Known(d) PROVE Fits(d)'
  BY <1>2 DEF Known, Fits, SetupFits, AttemptFits, Running, Leaving
<1>3. Unhurt'
  BY <1>1, GoingOn DEF Unhurt, Leaving
<1> QED
  BY <1>1, <1>2, <1>3 DEF Steadily, Silent

LEMMA RunSteady ==
  ASSUME Going, Recheck \/ Fork \/ WatchPoll \/ WatchChildGone \/ Collect \/ Result PROVE Steadily
<1>1. g \in GuardStates /\ Unhurt /\ (g.closed => g.pc = "facts" \/ g.pc \notin Running)
  BY GoingOn DEF Unhurt, Running, Leaving
<1>2. ASSUME NEW pc \in Running \ {"facts"}, g.pc \in Running \ {"facts"}, UNCHANGED up, g' = Go(g, pc) PROVE Steadily
  BY <1>1, <1>2, GoMoves, RunsOn DEF Onto
<1>3. CASE Recheck
  <2>1. g.pc = "recheck"
    BY <1>3 DEF Recheck, At
  <2>2. Readied(g) = g /\ ~g.closed
    <3>1. Readied(g).closed => NotRun(Readied(g))
      BY <1>3 DEF Recheck
    <3>2. NotRun(Readied(g)) \/ g' = Go(Readied(g), "fork")
      BY <1>3 DEF Recheck
    <3> QED
      BY <2>1, <3>1, <3>2, LookSteady
  <2>3. g' = Go(g, "fork") /\ UNCHANGED up
    BY <1>3, <2>2 DEF Recheck
  <2> QED
    BY <1>2, <2>1, <2>3 DEF Running
<1>4. CASE Fork
  <2>1. g.pc = "fork" /\ UNCHANGED up /\ ~g.closed
    BY <1>1, <1>4 DEF Fork, At, Running
  <2>2. CASE g' = [Go(g, "watch") EXCEPT !.spawned = TRUE]
    <3>1. /\ g'.pc = "watch" /\ g'.attempt = g.attempt /\ g'.closed = g.closed
          /\ g'.readable = g.readable /\ g'.writable = g.writable /\ g'.graced = g.graced
      BY <1>1, <2>2 DEF Go, GuardStates
    <3> QED
      BY <2>1, <3>1, RunsOn DEF Running
  <2>3. CASE g' = [Go(g, "facts") EXCEPT !.fault = "missing-executable", !.closed = TRUE]
    <3>1. /\ g'.pc = "facts" /\ g'.attempt = g.attempt /\ g'.closed
          /\ g'.readable = g.readable /\ g'.writable = g.writable /\ g'.graced = g.graced
      BY <1>1, <2>3 DEF Go, GuardStates
    <3> QED
      BY <2>1, <3>1, RunsOn DEF Running
  <2> QED
    BY <1>4, <2>2, <2>3 DEF Fork
<1>5. CASE WatchPoll
  <2>1. g.pc = "watch" /\ UNCHANGED up /\ g' = Polled(g)
    BY <1>5 DEF WatchPoll, At
  <2>2. g' = g
    BY <2>1, GoingOn, Quiet
  <2> QED
    BY <1>1, <2>1, <2>2, RunsOn DEF Running
<1>6. CASE WatchChildGone
  BY <1>2, <1>6 DEF WatchChildGone, At, Running
<1>7. CASE Collect
  <2>1. g.pc = "collect" /\ UNCHANGED up
    BY <1>7 DEF Collect, At
  <2> PICK s \in GuardStates : s = Polled(g)
    BY GoingOn, Heard DEF Stays
  <2>2. s.cancel = 0 /\ g' = Go(s, "result")
    BY <1>7, GoingOn, Cancelling DEF Collect
  <2>3. s = g
    BY <2>1, <2>2, Quiet
  <2> QED
    BY <1>2, <2>1, <2>2, <2>3 DEF Running
<1>8. CASE Result
  <2>1. g.pc = "result" /\ UNCHANGED up /\ g.problem = "none" /\ ~g.closed
    BY <1>1, <1>8, GoingOn DEF Result, At, Running
  <2>2. CASE g' = [Go(g, "facts") EXCEPT !.fault = "none"]
    <3>1. /\ g'.pc = "facts" /\ g'.attempt = g.attempt /\ g'.closed = g.closed /\ g'.fault = "none"
          /\ g'.readable = g.readable /\ g'.writable = g.writable /\ g'.graced = g.graced
      BY <1>1, <2>2 DEF Go, GuardStates
    <3> QED
      BY <2>1, <3>1, RunsOn DEF Running
  <2>3. g' # [Reaping(Failed(g, "ownership-uncertain", FALSE), "facts") EXCEPT !.fault = "ownership-uncertain"]
    <3> PICK t \in GuardStates : t = Failed(g, "ownership-uncertain", FALSE) /\ t.cancel # 0 /\ Sane(t)
      BY GoingOn, FailureKeeps DEF Stays, Problems, Timeouts
    <3>1. Reaping(t, "facts") \in GuardStates /\ Reaping(t, "facts").cancel # 0
      <4>1. "facts" \in Goals
        BY DEF Goals
      <4> QED
        BY <4>1, ReapKeeps
    <3> PICK u \in GuardStates : u = Reaping(t, "facts") /\ u.cancel # 0
      BY <3>1
    <3>2. [u EXCEPT !.fault = "ownership-uncertain"].cancel # 0
      BY DEF GuardStates
    <3> QED
      BY <3>2, GoingOn
  <2> QED
    BY <1>8, <2>1, <2>2, <2>3 DEF Result
<1> QED
  BY <1>3, <1>4, <1>5, <1>6, <1>7, <1>8

\* The facts are believed, and whoever sends them goes on.
LEMMA FactsSteady == ASSUME Going, SendFacts PROVE Steadily
<1>1. g.pc = "facts" /\ g \in GuardStates /\ g.fault \in Problems /\ TypeOK
  BY GoingOn DEF SendFacts, At, GuardStates, Control
<1> PICK f \in UpFrames : /\ f = Facts(g, g.fault) /\ f.kind = "facts" /\ f.problem = g.fault
                          /\ f.attempt = g.attempt /\ f.raw = code[g.attempt]
  BY <1>1, FactsTyped
<1> PICK closed \in BOOLEAN : closed = (g.closed \/ (g.attempt = 0 /\ f.raw # 0))
  BY <1>1 DEF GuardStates
<1> PICK s \in GuardStates : s = [Go(g, "next") EXCEPT !.closed = closed]
  BY <1>1 DEF Go, GuardStates, Points
<1>2. /\ s.pc = "next" /\ s.attempt = g.attempt /\ s.closed = closed /\ s.graced = g.graced
      /\ s.readable = g.readable /\ s.writable = g.writable
  BY <1>1 DEF Go, GuardStates
<1>3. Emitting(s, f)
  <2>1. Go(g, "next").closed = g.closed
    BY <1>1, GoMoves DEF Onto
  <2> QED
    BY <2>1 DEF SendFacts
<1>4. g' = s
  BY <1>2, <1>3, GoingOn, Emitted
<1>5. (g.attempt = 0 => HasSetup) /\ (g.fault = "none" \/ g.closed) /\ g.fault # "absent"
  BY <1>1, GoingOn, SetupDeclared DEF Unhurt, Running, Problems, Timeouts
<1>6. ASSUME NEW d, Known(d) PROVE Accepts(d, f) /\ Fits(Recorded(d, f))'
  <2>1. d \in FrameStates /\ Fits(d) /\ SetupFits(d) /\ AttemptFits(d)
    BY <1>6 DEF Known, Fits
  <2> PICK t : t = Recorded(d, f)
    OBVIOUS
  <2> PICK r : r = [raw |-> f.raw, problem |-> f.problem]
    OBVIOUS
  <2>20. r.raw = f.raw /\ r.problem = g.fault
    OBVIOUS
  <2>2. d.registered /\ ~d.draining /\ Unreported(d.facts) /\ ~d.invalid
    BY <1>1, <2>1, GoingOn DEF Fits, AttemptFits, Running
  <2>3. CASE g.attempt = 0
    <3>1. d.setupPhase /\ Unreported(d.setupFacts) /\ ~d.phase
      BY <1>1, <2>1, <2>3 DEF SetupFits, AttemptFits, Running
    <3>2. Accepts(d, f)
      BY <2>2, <2>3, <3>1 DEF Accepts, AcceptsOne, Going, Single
    <3>3. t.setupFacts = r /\ t.setupPhase = d.setupPhase /\ SameAttempt(d, t) /\ SameEnds(d, t)
      BY <2>1, <2>3, Noted DEF Going
    <3>4. ~Unreported(t.setupFacts) /\ (closed \/ SetupPassed(t))
      BY <1>5, <2>3, <2>20, <3>3 DEF Unreported, SetupPassed
    <3>5. SetupFits(t)'
      BY <1>2, <1>4, <1>5, <2>3, <3>1, <3>3, <3>4 DEF SetupFits, Running, Leaving
    <3>6. AttemptFits(t)'
      BY <1>1, <1>2, <1>4, <2>1, <2>3, <3>3 DEF AttemptFits, SameAttempt, Running, Leaving
    <3>7. Fits(t)'
      BY <1>2, <1>4, <2>2, <3>3, <3>5, <3>6 DEF Fits, SameEnds
    <3> QED
      BY <3>2, <3>7 DEF Fits, SetupFits, AttemptFits
  <2>4. CASE g.attempt # 0
    <3>1. d.ready # 0 /\ d.decided /\ d.phase
      BY <1>1, <2>1, <2>4 DEF AttemptFits, Running
    <3>2. Accepts(d, f)
      BY <2>2, <2>4, <3>1 DEF Accepts, AcceptsOne, Going, Single
    <3>3. /\ t.facts = r /\ t.phase = d.phase
          /\ t.ready = d.ready /\ t.decided = d.decided /\ t.reason = d.reason
          /\ SameSetup(d, t) /\ SameEnds(d, t)
      BY <2>1, <2>4, Noted DEF Going
    <3>4. ~Unreported(t.facts)
      BY <1>5, <2>20, <3>3 DEF Unreported
    <3>5. SetupFits(t)'
      BY <1>1, <1>2, <1>4, <2>1, <2>4, <3>3 DEF SetupFits, SetupPassed, SameSetup, Running, Leaving
    <3>6. AttemptFits(t)'
      BY <1>2, <1>4, <2>4, <3>1, <3>3, <3>4 DEF AttemptFits, Running, Leaving
    <3>7. Fits(t)'
      BY <1>2, <1>4, <2>2, <3>3, <3>5, <3>6 DEF Fits, SameEnds
    <3> QED
      BY <3>2, <3>7 DEF Fits, SetupFits, AttemptFits
  <2> QED
    BY <2>3, <2>4
<1> QED
  BY <1>1, <1>2, <1>3, <1>5, <1>6, SpeaksOn, GoingOn

\* So is the end.
LEMMA DrainSteady == ASSUME Going, Drain PROVE Steadily
<1>1. g.pc = "drain" /\ UNCHANGED up /\ g \in GuardStates
  BY GoingOn DEF Drain, At
<1> PICK p \in GuardStates : p = Polled(g)
  BY GoingOn, Heard DEF Stays
<1>20. [p EXCEPT !.closed = TRUE] \in GuardStates /\ [p EXCEPT !.closed = TRUE].cancel = p.cancel
  BY DEF GuardStates
<1> PICK s \in GuardStates : s = [p EXCEPT !.closed = TRUE] /\ s.cancel = p.cancel
  BY <1>20
<1>2. g' = IF s.cancel # 0 /\ s.spawned THEN Reaping(s, "mark") ELSE Go(s, "mark")
  BY DEF Drain
<1>3. s.cancel = 0
  <2>1. Go(s, "mark").cancel = s.cancel
    BY GoMoves DEF Onto
  <2>2. s.cancel # 0 => Reaping(s, "mark").cancel # 0
    BY Cancelling
  <2> QED
    BY <1>2, <2>1, <2>2, GoingOn
<1>4. p = g /\ g' = Go(s, "mark")
  BY <1>1, <1>2, <1>3, Quiet
<1>5. /\ g'.pc = "mark" /\ g'.attempt = g.attempt
      /\ g'.graced = g.graced /\ g'.readable = g.readable /\ g'.writable = g.writable
  BY <1>4 DEF Go, GuardStates
<1>6. Unhurt'
  BY <1>5, GoingOn DEF Unhurt, Leaving
<1>7. g'.closed
  BY <1>4 DEF Go, GuardStates
<1>8. ASSUME NEW d, Known(d) PROVE Fits(d)'
  BY <1>1, <1>5, <1>7, <1>8 DEF Known, Fits, SetupFits, AttemptFits, Running, Leaving
<1> QED
  BY <1>1, <1>6, <1>8 DEF Steadily, Silent

LEMMA MarkSteady == ASSUME Going, Mark PROVE Steadily
<1>1. g.pc = "mark" /\ g \in GuardStates
  BY GoingOn DEF Mark, At
<1>2. GuardExitCode(g) = 0
  BY GoingOn DEF GuardExitCode, Timeouts
<1> PICK f : f = [kind |-> "draining"]
  OBVIOUS
<1>20. Exit(g, 0) \in GuardStates
  <2>1. "exited" \in Points /\ 0 \in Int
    BY DEF Points
  <2> QED
    BY <1>1, <2>1 DEF Exit, GuardStates
<1> PICK s \in GuardStates : s = Exit(g, 0)
  BY <1>20
<1>3. /\ s.pc = "exited" /\ s.attempt = g.attempt /\ s.closed = g.closed /\ s.graced = g.graced
      /\ s.readable = g.readable /\ s.writable = g.writable
  BY <1>1 DEF Exit, GuardStates
<1>4. Emitting(s, f)
  <2>1. g' # Exit(g, 75)
    <3>1. Exit(g, 75).exit = 75 /\ Exit(g, 75).pc = "exited"
      BY <1>1 DEF Exit, GuardStates
    <3> QED
      BY <3>1, GoingOn
  <2> QED
    BY <1>2, <2>1 DEF Mark
<1>5. g' = s
  BY <1>3, <1>4, GoingOn, Emitted
<1>6. f \in UpFrames
  BY DEF UpFrames, Notices
<1>7. g.attempt = 0 => HasSetup
  BY <1>1, SetupDeclared DEF Leaving
<1>8. ASSUME NEW d, Known(d) PROVE Accepts(d, f) /\ Fits(Recorded(d, f))'
  <2>1. d \in FrameStates /\ Fits(d) /\ SetupFits(d) /\ AttemptFits(d)
    BY <1>8 DEF Known, Fits
  <2>2. DrainingAcceptedOne(d)
    <3>1. CASE g.attempt = 0
      BY <1>1, <1>7, <2>1, <3>1 DEF SetupFits, AttemptFits, Leaving, DrainingAcceptedOne
    <3>2. CASE g.attempt # 0
      BY <1>1, <2>1, <3>2 DEF AttemptFits, Leaving, DrainingAcceptedOne
    <3> QED
      BY <3>1, <3>2
  <2>3. Accepts(d, f)
    BY <1>1, <2>1, <2>2 DEF Accepts, AcceptsOne, Fits, Going, Single
  <2> PICK t : t = Recorded(d, f)
    OBVIOUS
  <2>4. t.draining /\ t.registered = d.registered /\ t.invalid = d.invalid /\ SameSetup(d, t) /\ SameAttempt(d, t)
    BY <1>6, <2>1, Noted DEF Going
  <2>5. SetupFits(t)'
    BY <1>1, <1>3, <1>5, <1>7, <2>1, <2>4 DEF SetupFits, SetupPassed, SameSetup, Running, Leaving
  <2>6. AttemptFits(t)'
    BY <1>1, <1>3, <1>5, <2>1, <2>4 DEF AttemptFits, SameAttempt, Running, Leaving
  <2>7. Fits(t)'
    BY <1>1, <1>3, <1>5, <2>1, <2>4, <2>5, <2>6 DEF Fits
  <2> QED
    BY <2>3, <2>7 DEF Fits, SetupFits, AttemptFits
<1> QED
  BY <1>1, <1>3, <1>4, <1>6, <1>8, SpeaksOn, GoingOn DEF Leaving

\* Whoever breaks off, reaps, is cancelled or struck down is not clean.
LEMMA OthersAreUnclean ==
  ASSUME Going
  PROVE  ~(\/ Break \/ Abort \/ WatchExpires \/ WatchStalls \/ WatchCancelled \/ DumpWait \/ ReapPoll
           \/ ReapDone \/ ReapExpires \/ GuardSignalled \/ GuardKilled)
<1>1. g \in GuardStates /\ g.pc \notin {"abort", "dump", "reap"} /\ g.cancel = 0 /\ g'.cancel = 0 /\ ~g.graced
  BY GoingOn DEF Unhurt
<1>2. ~Break
  <2>1. Exit(g, 70).exit = 70 /\ Exit(g, 70).pc = "exited"
    BY <1>1 DEF Exit, GuardStates
  <2>2. Reaping(CancelledBy(g, 15), "abort").cancel # 0
    <3>1. CancelledBy(g, 15) \in GuardStates /\ CancelledBy(g, 15).cancel # 0
      BY GoingOn, CancelKeeps DEF Signals, Stays
    <3> QED
      BY <3>1, Cancelling
  <2> QED
    BY <1>1, <2>1, <2>2, GoingOn DEF Break
<1>3. ~(Abort \/ DumpWait \/ ReapPoll \/ ReapDone \/ ReapExpires \/ WatchCancelled)
  BY <1>1 DEF Abort, DumpWait, ReapPoll, ReapDone, ReapExpires, WatchCancelled, At
<1>4. ASSUME NEW problem \in Timeouts, Ending(Failed(g, problem, TRUE)) PROVE FALSE
  <2>1. problem \in Problems \ {"none", "missing-executable"} /\ TRUE \in BOOLEAN
    BY DEF Problems, Timeouts
  <2>2. g \in GuardStates /\ Sane(g) /\ g.cancel # 2
    BY GoingOn
  <2>3. Failed(g, problem, TRUE) \in GuardStates /\ Failed(g, problem, TRUE).cancel # 0
    BY <2>1, <2>2, FailureKeeps DEF Stays
  <2> PICK t \in GuardStates : t = Failed(g, problem, TRUE) /\ t.cancel # 0
    BY <2>3
  <2> QED
    BY <1>1, <1>4, EndingLasts
<1>5. ~(WatchExpires \/ WatchStalls)
  BY <1>4 DEF WatchExpires, WatchStalls, Timeouts
<1>6. ~(GuardSignalled \/ GuardKilled)
  <2>1. CancelledBy(g, 15).cancel # 0
    BY <1>1, Cancelling DEF Signals
  <2>2. Go(g, "killed").pc = "killed"
    BY <1>1, GoMoves DEF Onto
  <2> QED
    BY <1>1, <2>1, <2>2, GoingOn DEF GuardSignalled, GuardKilled
<1> QED
  BY <1>2, <1>3, <1>5, <1>6

LEMMA GuardSteady == ASSUME Going, GuardSteps \/ GuardSignalled \/ GuardKilled PROVE Steadily
BY OthersAreUnclean, BootSteady, RegisterSteady, NextSteady, AskSteady, GateSteady, CheckSteady, RunSteady, FactsSteady, DrainSteady, MarkSteady
   DEF GuardSteps

LEMMA GuardBelieved ==
  ASSUME AttemptsMakeSense, Single, IInv, Belief, GuardSteps \/ GuardSignalled \/ GuardKilled PROVE Belief'
<1>1. CASE ~Clean'
  BY <1>1 DEF Belief
<1>2. CASE Clean'
  BY <1>2, CleanBefore, GuardSteady, SteadilyKeeps
<1> QED
  BY <1>1, <1>2

-----------------------------------------------------------------------------
(***************************************************************************)
(* The steps of the controller and the world.                              *)
(***************************************************************************)
\* What fits a point of the guard's way is seen in the fields that are looked at.
LEMMA FitsAlike == ASSUME NEW p, NEW q, Fits(p), Like(p, q) PROVE Fits(q)
<1>1. SetupFits(q)
  BY DEF Fits, SetupFits, SetupPassed, Like, SameSetup
<1>2. AttemptFits(q)
  BY DEF Fits, AttemptFits, Like, SameAttempt
<1> QED
  BY <1>1, <1>2 DEF Fits, Like, SameEnds

\* A guard the controller leaves clean was clean.
LEMMA OwnerBefore ==
  ASSUME AttemptsMakeSense, IInv, Belief, Clean', UNCHANGED g, o.pc # "gone"
  PROVE  Clean /\ Undisturbed /\ Unhurt' /\ (Ended <=> Ended') /\ o \in FrameStates /\ up \in Seq(UpFrames)
<1>1. Clean
  BY DEF Clean
<1> QED
  BY <1>1 DEF Belief, Undisturbed, Unhurt, Ended, IInv, Control, TypeOK

\* Fields nobody looks at do not count, nor does a channel that is not read.
LEMMA StillBelieved ==
  ASSUME Believed, UNCHANGED <<g, up>>, Like(o, o') PROVE Believed'
<1> SUFFICES ASSUME NEW q \in FrameStates, Like(o', q) PROVE Fits(Drained(q))'
  BY DEF Believed
<1>1. Like(o, q)
  BY DEF Like, SameSetup, SameAttempt, SameEnds
<1> PICK d : d = Drained(q)
  OBVIOUS
<1>2. Fits(d)
  BY <1>1 DEF Believed
<1>3. Drained(q)' = d /\ Fits(d)'
  BY <1>2 DEF Drained, Fits, SetupFits, AttemptFits
<1> QED
  BY <1>3 DEF Fits, SetupFits, AttemptFits

\* On an empty channel the record itself has to fit.
LEMMA ReadBelieved ==
  ASSUME UNCHANGED g, up' = <<>>, NEW d, Fits(d), Like(d, o') PROVE Believed'
<1> SUFFICES ASSUME NEW q \in FrameStates, Like(o', q) PROVE Fits(Drained(q))'
  BY DEF Believed
<1>1. Like(d, q)
  BY DEF Like, SameSetup, SameAttempt, SameEnds
<1>2. Fits(q)
  BY <1>1, FitsAlike
<1>3. Drained(q)' = q /\ Fits(q)'
  BY <1>2, ReceivedNothing DEF Drained, Fits, SetupFits, AttemptFits
<1> QED
  BY <1>3 DEF Fits, SetupFits, AttemptFits

\* Cancelling, being interrupted and beginning to decide.
LEMMA NotingBelieved ==
  ASSUME AttemptsMakeSense, IInv, Belief, OwnerCancels \/ OwnerSignal \/ OwnerDecides PROVE Belief'
<1> SUFFICES ASSUME Clean' PROVE Undisturbed'
  BY DEF Belief
<1>1. UNCHANGED <<g, up>> /\ o.pc = "loop"
  BY DEF OwnerCancels, OwnerSignal, OwnerDecides, Watching
<1>2. /\ Unhurt /\ Believed /\ Waits /\ Mails /\ Heeded /\ Unhurt' /\ o \in FrameStates
      /\ down \in Seq(DownFrames)
  BY <1>1, OwnerBefore DEF Undisturbed, IInv, Control, TypeOK
<1>3. /\ Like(o, o') /\ o'.pc = "loop"
      /\ o'.deciding => o.deciding \/ (o.ready # 0 /\ ~o.decided)
  <2>1. CASE OwnerCancels
    <3>1. o' = [o EXCEPT !.cancelled = TRUE, !.cancelSent = o.signal # 0]
      BY <2>1 DEF OwnerCancels
    <3> QED
      BY <1>1, <1>2, <3>1 DEF FrameStates, Like, SameSetup, SameAttempt, SameEnds
  <2>2. CASE OwnerSignal
    BY <1>1, <1>2, <2>2 DEF OwnerSignal, FrameStates, Like, SameSetup, SameAttempt, SameEnds
  <2>3. CASE OwnerDecides
    BY <1>1, <1>2, <2>3 DEF OwnerDecides, FrameStates, Like, SameSetup, SameAttempt, SameEnds
  <2> QED
    BY <2>1, <2>2, <2>3
<1>4. Believed'
  BY <1>1, <1>2, <1>3, StillBelieved
<1>5. Waits'
  BY <1>1, <1>2, <1>3 DEF Waits, Like, SameAttempt
<1>6. \A f : Asked(f) => Asked(f)'
  BY <1>1, <1>3 DEF Asked, Like, SameAttempt
<1>7. Mails'
  <2>1. CASE down' = down
    BY <1>2, <1>6, <2>1 DEF Mails
  <2>2. CASE down' # down
    <3> PICK f : down' = Append(down, f) /\ f.kind = "cancel"
      <4> PICK f : f = [kind |-> "cancel", signal |-> IF o.signal # 0 THEN o.signal ELSE 15]
        OBVIOUS
      <4>1. f.kind = "cancel"
        OBVIOUS
      <4>2. Deliver(f)
        BY <2>2 DEF OwnerCancels, OwnerSignal, OwnerDecides
      <4> QED
        BY <2>2, <4>1, <4>2 DEF Deliver
    <3> PICK e : e = down'
      OBVIOUS
    <3>1. \A i \in DOMAIN e : e[i] = f \/ (i \in DOMAIN down /\ e[i] = down[i])
      BY <1>2
    <3>2. f.kind # "decision"
      OBVIOUS
    <3>3. \A i \in DOMAIN e : Asked(e[i])'
      <4>1. Asked(f)'
        BY <3>2 DEF Asked
      <4> QED
        BY <1>2, <1>6, <3>1, <4>1 DEF Mails
    <3>4. \A i, j \in DOMAIN e : e[i].kind = "decision" /\ e[j].kind = "decision" => i = j
      BY <1>2, <3>1, <3>2 DEF Mails
    <3> QED
      BY <3>3, <3>4 DEF Mails, Asked
  <2> QED
    BY <2>1, <2>2
<1>8. Heeded'
  BY <1>3 DEF Heeded
<1> QED
  BY <1>2, <1>4, <1>5, <1>7, <1>8 DEF Undisturbed

\* Reading what was sent, to the end if the guard has ended.
LEMMA ReadingBelieved ==
  ASSUME AttemptsMakeSense, IInv, Belief, OwnerDrains \/ OwnerJudges PROVE Belief'
<1> SUFFICES ASSUME Clean' PROVE Undisturbed'
  BY DEF Belief
<1>1. UNCHANGED <<g, down>> /\ up' = <<>> /\ o.pc = "loop" /\ ~o.deciding
  BY DEF OwnerDrains, OwnerJudges, Watching
<1>2. /\ Unhurt /\ Believed /\ Waits /\ Mails /\ Heeded /\ Unhurt' /\ o \in FrameStates
      /\ (Ended <=> Ended') /\ down \in Seq(DownFrames)
  BY <1>1, OwnerBefore DEF Undisturbed, IInv, Control, TypeOK
<1> PICK d \in FrameStates : d = Drained(o) /\ d.pc = "loop" /\ ~d.deciding
  <2>1. Heeds(Drained(o))
    BY <1>1, DrainedHeeded
  <2> QED
    BY <1>1, <2>1 DEF Heeds, Unmoved
<1>3. Fits(d)
  <2>1. Like(o, o)
    BY DEF Like, SameSetup, SameAttempt, SameEnds
  <2> QED
    BY <1>2, <2>1 DEF Believed
<1>4. Like(d, o') /\ ~o'.deciding /\ (o'.pc = "judged" => Ended)
  <2>1. CASE OwnerDrains
    <3>1. o' = d
      BY <2>1 DEF OwnerDrains
    <3> QED
      BY <3>1 DEF Like, SameSetup, SameAttempt, SameEnds
  <2>2. CASE OwnerJudges
    <3> PICK v : o' = [d EXCEPT !.pc = "judged", !.verdict = v]
      BY <2>2 DEF OwnerJudges
    <3>1. Like(d, o') /\ ~o'.deciding
      BY DEF FrameStates, Like, SameSetup, SameAttempt, SameEnds
    <3> QED
      BY <2>2, <3>1 DEF OwnerJudges
  <2> QED
    BY <2>1, <2>2
<1>5. Believed'
  BY <1>1, <1>3, <1>4, ReadBelieved
<1>6. Waits'
  <2>1. o'.ready # 0 /\ ~o'.decided => g.pc = "gate"
    BY <1>3, <1>4 DEF Fits, AttemptFits, Like, SameAttempt
  <2> QED
    BY <1>1, <1>4, <2>1 DEF Waits
<1>7. \A i \in DOMAIN down : down[i].kind # "decision"
  <2>1. OwnerDrains => up # <<>>
    BY DEF OwnerDrains
  <2>2. OwnerJudges => g.pc # "gate"
    BY DEF OwnerJudges, Ended
  <2> QED
    BY <1>2, <2>1, <2>2 DEF Mails, Asked
<1>8. Mails'
  BY <1>1, <1>7 DEF Mails, Asked
<1>9. Heeded'
  BY <1>1, <1>2, <1>4 DEF Heeded
<1> QED
  BY <1>2, <1>5, <1>6, <1>8, <1>9 DEF Undisturbed

\* The decision is sent to a guard that waits for it, and is the only one.
LEMMA SendingBelieved ==
  ASSUME AttemptsMakeSense, Single, IInv, Belief, OwnerSends PROVE Belief'
<1> SUFFICES ASSUME Clean' PROVE Undisturbed'
  BY DEF Belief
<1>1. UNCHANGED <<g, up>> /\ o.pc = "loop" /\ o.deciding
  BY DEF OwnerSends
<1>2. /\ Unhurt /\ Believed /\ Waits /\ Mails /\ Heeded /\ Unhurt' /\ o \in FrameStates
      /\ down \in Seq(DownFrames)
  BY <1>1, OwnerBefore DEF Undisturbed, IInv, Control, TypeOK
<1>3. g.pc = "gate" /\ up = <<>> /\ o.ready # 0 /\ ~o.decided /\ ~Ended
  BY <1>1, <1>2 DEF Waits, Ended
<1> PICK reason : /\ reason \in {"none"} \union StopReasons
                  /\ o' = [o EXCEPT !.deciding = FALSE, !.invalid = @ \/ Ended, !.decided = ~Ended,
                                    !.reason = IF Ended THEN @ ELSE reason,
                                    !.continued = IF reason = "none" THEN @ \union {o.ready} ELSE @]
                  /\ Deliver([kind |-> "decision", attempt |-> o.ready,
                              action |-> IF reason = "none" THEN "continue" ELSE "stop"])
  BY DEF OwnerSends
<1> PICK continued : continued = IF reason = "none" THEN o.continued \union {o.ready} ELSE o.continued
  OBVIOUS
<1>4. o' = [o EXCEPT !.deciding = FALSE, !.invalid = o.invalid, !.decided = TRUE, !.reason = reason, !.continued = continued]
  <2>1. (o.invalid \/ Ended) = o.invalid /\ (~Ended) = TRUE /\ (IF Ended THEN o.reason ELSE reason) = reason
    BY <1>2, <1>3 DEF FrameStates
  <2> QED
    BY <1>2, <2>1 DEF FrameStates
<1>5. /\ SameSetup(o, o') /\ SameEnds(o, o') /\ o'.ready = o.ready /\ o'.phase = o.phase /\ o'.facts = o.facts
      /\ o'.decided /\ o'.reason = reason /\ ~o'.deciding /\ o'.pc = "loop"
  BY <1>1, <1>2, <1>4, ZenonT(30) DEF FrameStates, SameSetup, SameEnds
<1> PICK f : f = [kind |-> "decision", attempt |-> o.ready, action |-> IF reason = "none" THEN "continue" ELSE "stop"]
  OBVIOUS
<1>6. down' = Append(down, f)
  BY <1>3 DEF Deliver
<1>7. Fits(o)
  <2>1. Like(o, o)
    BY DEF Like, SameSetup, SameAttempt, SameEnds
  <2>2. Drained(o) = o
    BY <1>3, ReceivedNothing DEF Drained
  <2> QED
    BY <1>2, <2>1, <2>2 DEF Believed
<1>8. g.attempt # 0 /\ o.ready = g.attempt
  <2>1. g.attempt # 0
    BY <1>3 DEF IInv, Control, Sane
  <2>2. o.ready \in 0..1 /\ g.attempt \in 0..1
    BY <1>2 DEF Single, FrameStates, IInv, Control, TypeOK, GuardStates
  <2> QED
    BY <1>3, <2>1, <2>2
<1>9. Believed'
  <2> PICK d : d = o'
    OBVIOUS
  <2>1. SetupFits(d)
    BY <1>5, <1>7 DEF Fits, SetupFits, SetupPassed, SameSetup
  <2>2. AttemptFits(d)
    BY <1>3, <1>5, <1>7, <1>8 DEF Fits, AttemptFits, Running, Leaving
  <2>3. Fits(d)
    BY <1>5, <1>7, <2>1, <2>2 DEF Fits, SameEnds
  <2>4. Like(d, o')
    BY DEF Like, SameSetup, SameAttempt, SameEnds
  <2> QED
    BY <1>1, <1>3, <2>3, <2>4, ReadBelieved
<1>10. Waits'
  BY <1>5 DEF Waits
<1>11. Mails'
  <2>1. \A i \in DOMAIN down : down[i].kind # "decision"
    BY <1>2, <1>3 DEF Mails, Asked
  <2> PICK n \in Nat : n = Len(down)
    BY <1>2
  <2> PICK e : e = down'
    OBVIOUS
  <2>2. /\ DOMAIN e = 1..(n + 1) /\ e[n + 1] = f
        /\ \A i \in DOMAIN e : i # n + 1 => i \in DOMAIN down /\ e[i] = down[i]
    BY <1>2, <1>6
  <2>3. Asked(f)'
    BY <1>1, <1>3, <1>5, <1>8 DEF Asked
  <2>4. \A i \in DOMAIN e : Asked(e[i])'
    <3>1. ASSUME NEW h, h.kind # "decision" PROVE Asked(h)'
      BY <3>1 DEF Asked
    <3> QED
      BY <2>1, <2>2, <2>3, <3>1
  <2>5. \A i, j \in DOMAIN e : e[i].kind = "decision" /\ e[j].kind = "decision" => i = j
    BY <2>1, <2>2
  <2> QED
    BY <2>4, <2>5 DEF Mails, Asked
<1>12. Heeded'
  BY <1>5 DEF Heeded
<1> QED
  BY <1>2, <1>9, <1>10, <1>11, <1>12 DEF Undisturbed

\* Nothing else is seen by either side.
LEMMA UnseenBelieved == ASSUME Belief, UNCHANGED <<g, o, up, down>> PROVE Belief'
<1> SUFFICES ASSUME Clean' PROVE Undisturbed'
  BY DEF Belief
<1>1. Clean
  BY DEF Clean
<1>2. Unhurt /\ Believed /\ Waits /\ Mails /\ Heeded
  BY <1>1 DEF Belief, Undisturbed
<1>3. Believed'
  <2>1. Like(o, o')
    BY DEF Like, SameSetup, SameAttempt, SameEnds
  <2> QED
    BY <1>2, <2>1, StillBelieved
<1>4. Unhurt' /\ Waits' /\ Heeded'
  BY <1>2 DEF Unhurt, Waits, Heeded, Ended
<1>5. Mails'
  BY <1>2 DEF Mails, Asked
<1> QED
  BY <1>3, <1>4, <1>5 DEF Undisturbed

LEMMA StepBelieved == ASSUME AttemptsMakeSense, Single, IInv, Belief, [Next]_vars PROVE Belief'
<1>1. CASE OwnerCrashes
  <2>1. o'.pc = "gone"
    <3>1. o' = [o EXCEPT !.pc = "gone"] /\ o \in FrameStates
      BY <1>1 DEF OwnerCrashes, IInv, Control, TypeOK
    <3> QED
      BY <3>1 DEF FrameStates
  <2> QED
    BY <2>1 DEF Belief, Clean
<1>2. CASE ChildExits \/ StraysExit \/ DeadlinePasses \/ UNCHANGED vars
  BY <1>2, UnseenBelieved DEF ChildExits, StraysExit, DeadlinePasses, vars
<1> QED
  BY <1>1, <1>2, GuardBelieved, NotingBelieved, ReadingBelieved, SendingBelieved DEF Next, World, OwnerSteps

LEMMA BeliefBegins == ASSUME AttemptsMakeSense, Init PROVE Belief
<1>1. g = GuardStart /\ o = FramesStart /\ up = <<>> /\ down = <<>>
  BY DEF Init
<1>2. Unhurt /\ Waits /\ Mails /\ Heeded
  BY <1>1 DEF GuardStart, FramesStart, Unhurt, Waits, Mails, Heeded, Leaving
<1>3. Fits(o)
  BY <1>1 DEF GuardStart, FramesStart, Fits, SetupFits, AttemptFits, Unreported, NoFacts, Running, Leaving
<1>4. Believed
  <2> SUFFICES ASSUME NEW q \in FrameStates, Like(o, q) PROVE Fits(Drained(q))
    BY DEF Believed
  <2>1. Drained(q) = q
    BY <1>1, ReceivedNothing DEF Drained
  <2> QED
    BY <1>3, <2>1, FitsAlike
<1> QED
  BY <1>2, <1>4 DEF Belief, Undisturbed

\* The belief holds of every state of a guard with one attempt and its controller.
THEOREM Trust == ASSUME AttemptsMakeSense, Single PROVE Spec => []Belief
<1>1. Init => Belief
  BY BeliefBegins
<1>2. IInv /\ Belief /\ [Next]_vars => Belief'
  BY StepBelieved
<1>3. Spec => []IInv
  BY Invariance
<1> QED
  BY <1>1, <1>2, <1>3, PTL DEF Spec

LEMMA Believing == ASSUME AttemptsMakeSense, IInv, Belief PROVE CleanGuardIsBelieved
<1> SUFFICES ASSUME o.pc = "judged", g.pc = "exited", g.exit = 0 PROVE ~o.invalid /\ o.draining
  BY DEF CleanGuardIsBelieved
<1>1. Clean
  BY DEF Clean, IInv, Work, Quieted
<1>2. Believed /\ up = <<>> /\ o \in FrameStates
  BY <1>1 DEF Belief, Undisturbed, Heeded, IInv, Control, TypeOK
<1>3. Like(o, o) /\ Drained(o) = o
  BY <1>2, ReceivedNothing DEF Drained, Like, SameSetup, SameAttempt, SameEnds
<1>4. Fits(o)
  BY <1>2, <1>3 DEF Believed
<1> QED
  BY <1>4 DEF Fits
=============================================================================
