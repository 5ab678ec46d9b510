---------------------------- MODULE MCScheduler ----------------------------
\* Instances of the slot scheduler for TLC.
EXTENDS Scheduler

CONSTANTS a, b, c

ASSUME CaseAssumption == {a, c} \subseteq Runs

VARIABLE case   \* which instance a behaviour is of; it never changes

OneNamespace == [r \in Runs |-> "host"]
\* a and b run in one pid namespace, c in another.
TwoNamespaces == [r \in Runs |-> IF r = c THEN "container" ELSE "host"]

OwnCheckouts == [r \in Runs |-> r]
OneCheckout == [r \in Runs |-> "shared"]

OneSlotEach == [r \in Runs |-> 1]
\* c asks for more than the smallest configuration has.
TwoForC == [r \in Runs |-> IF r = c THEN 2 ELSE 1]

NoEstimate == [r \in Runs |-> 0]
\* b gives no estimate.
AllButB == [r \in Runs |-> IF r = b THEN 0 ELSE 2]

NoLocks == [r \in Runs |-> {}]
\* b and c name the same resource.
OneDatabase == [r \in Runs |-> IF r = a THEN {} ELSE {"database"}]

NoParent == [r \in Runs |-> NoRun]
\* The work of a invokes c.
CInsideA == [r \in Runs |-> IF r = c THEN a ELSE NoRun]

OneSlot == {[slots |-> 1, jobs |-> 2, memory |-> 0]}
OneConfig == {[slots |-> 2, jobs |-> 2, memory |-> 0]}
\* A roomy machine, and one with fewer slots and a memory budget.
TwoConfigs == {[slots |-> 3, jobs |-> 2, memory |-> 0],
               [slots |-> 2, jobs |-> 3, memory |-> 4]}

-----------------------------------------------------------------------------
\* The configuration file gives the constants of the first instance of a run;
\* the others differ in these.  Each is taken with the theorems about it, for
\* MCSchedulerProofs to use.
Domains == INSTANCE SchedulerProofs WITH
  Checkout <- OneCheckout, Namespace <- TwoNamespaces,
  Events <- {"crash", "kill", "blur", "reuse", "release"}
Releases == INSTANCE SchedulerProofs WITH
  Checkout <- OneCheckout,
  Events <- {"crash", "kill", "break", "escape", "late", "release", "force", "forget"}
Reboots == INSTANCE SchedulerProofs WITH
  Configs <- OneConfig, Events <- {"crash", "kill", "escape", "reboot"}
Nested == INSTANCE SchedulerProofs WITH
  Configs <- OneConfig, Parent <- CInsideA, Events <- {"crash", "kill", "escape", "late", "forget"}

QueueSpec == case = "queue" /\ Init /\ [][Next /\ UNCHANGED case]_<<case, vars>>

FaultsInit ==
  \/ case = "faults" /\ Init
  \/ case = "namespaces" /\ Domains!Init
  \/ case = "releases" /\ Releases!Init
  \/ case = "reboots" /\ Reboots!Init
  \/ case = "nested" /\ Nested!Init
FaultsNext ==
  /\ UNCHANGED case
  /\ \/ case = "faults" /\ Next
     \/ case = "namespaces" /\ Domains!Next
     \/ case = "releases" /\ Releases!Next
     \/ case = "reboots" /\ Reboots!Next
     \/ case = "nested" /\ Nested!Next
FaultsSpec == FaultsInit /\ [][FaultsNext]_<<case, vars>>

\* Scheduler!WorkIsCharged under faults, and between two pid namespaces.
ChargedWork ==
  /\ case = "faults" => WorkIsCharged
  /\ case = "reboots" => Reboots!WorkIsCharged
  /\ case = "namespaces" => Domains!WorkIsCharged

\* Scheduler!OwnerKeepsGrant under faults and under operator releases.
KeptGrants ==
  /\ case = "faults" => OwnerKeepsGrant
  /\ case = "reboots" => Reboots!OwnerKeepsGrant
  /\ case = "releases" => Releases!OwnerKeepsGrant

\* Scheduler!NoConflictingWork of two runs in one checkout, between two pid
\* namespaces and under operator releases.
ConflictsExcluded ==
  /\ case = "namespaces" => Domains!NoConflictingWork
  /\ case = "releases" => Releases!NoConflictingWork

\* Scheduler!NestedNeverWaits where the work of a invokes c: c never queues
\* while that work would wait for it.
NestingNeverWaits ==
  [][case = "nested" =>
       \A r \in Queued(jobs') \ Queued(jobs) : \A p \in Runs :
         CInsideA[r] = p /\ Alone(p) =>
           ~(kid[p] = "grouped" \/ (kid[p] = "escaped" /\ GuardAlive(p)))]_vars
=============================================================================
