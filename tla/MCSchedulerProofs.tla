-------------------------- MODULE MCSchedulerProofs --------------------------
(***************************************************************************)
(* The theorems about the slot scheduler, for the instances of it that TLC *)
(* runs.  A behaviour of one instance is a behaviour of the scheduler with *)
(* its constants, because case never changes; so what is proved of the     *)
(* scheduler holds of it.                                                  *)
(***************************************************************************)
EXTENDS MCScheduler, SchedulerProofs

fvars == <<case, vars>>

\* A behaviour stays with its instance.
LEMMA OneCase == [FaultsNext]_fvars => UNCHANGED case
BY DEF FaultsNext, fvars

\* The constants of every instance satisfy the scheduler's assumptions.
LEMMA CaseAssumptions ==
  /\ Domains!RequestAssumption /\ Domains!LimitsAssumption
  /\ Releases!RequestAssumption /\ Releases!LimitsAssumption
  /\ Reboots!RequestAssumption /\ Reboots!LimitsAssumption
  /\ Nested!RequestAssumption /\ Nested!LimitsAssumption
BY RequestAssumption, LimitsAssumption, CaseAssumption
   DEF Domains!RequestAssumption, Domains!LimitsAssumption,
       Releases!RequestAssumption, Releases!LimitsAssumption,
       Reboots!RequestAssumption, Reboots!LimitsAssumption,
       Nested!RequestAssumption, Nested!LimitsAssumption, OneConfig, CInsideA

\* What holds of every behaviour of the scheduler holds of every instance.
LEMMA CaseSpecs ==
  /\ FaultsSpec /\ case = "faults" => Spec /\ [](case = "faults")
  /\ FaultsSpec /\ case = "reboots" => Reboots!Spec /\ [](case = "reboots")
  /\ FaultsSpec /\ case = "namespaces" => Domains!Spec /\ [](case = "namespaces")
  /\ FaultsSpec /\ case = "releases" => Releases!Spec /\ [](case = "releases")
  /\ FaultsSpec /\ case = "nested" => Nested!Spec /\ [](case = "nested")
  /\ FaultsSpec /\ ~(case = "faults") => []~(case = "faults")
  /\ FaultsSpec /\ ~(case = "reboots") => []~(case = "reboots")
  /\ FaultsSpec /\ ~(case = "namespaces") => []~(case = "namespaces")
  /\ FaultsSpec /\ ~(case = "releases") => []~(case = "releases")
  /\ FaultsSpec /\ ~(case = "nested") => []~(case = "nested")
<1>1. /\ FaultsInit /\ case = "faults" => Init
      /\ FaultsInit /\ case = "reboots" => Reboots!Init
      /\ FaultsInit /\ case = "namespaces" => Domains!Init
      /\ FaultsInit /\ case = "releases" => Releases!Init
      /\ FaultsInit /\ case = "nested" => Nested!Init
  BY DEF FaultsInit
<1>2. /\ case = "faults" /\ [FaultsNext]_fvars => [Next]_vars
      /\ case = "reboots" /\ [FaultsNext]_fvars => [Reboots!Next]_vars
      /\ case = "namespaces" /\ [FaultsNext]_fvars => [Domains!Next]_vars
      /\ case = "releases" /\ [FaultsNext]_fvars => [Releases!Next]_vars
      /\ case = "nested" /\ [FaultsNext]_fvars => [Nested!Next]_vars
  BY DEF FaultsNext, fvars, vars
<1>3. /\ Spec <=> Init /\ [][Next]_vars
      /\ Reboots!Spec <=> Reboots!Init /\ [][Reboots!Next]_vars
      /\ Domains!Spec <=> Domains!Init /\ [][Domains!Next]_vars
      /\ Releases!Spec <=> Releases!Init /\ [][Releases!Next]_vars
      /\ Nested!Spec <=> Nested!Init /\ [][Nested!Next]_vars
  BY DEF Spec, vars, Reboots!Spec, Reboots!vars, Domains!Spec, Domains!vars,
         Releases!Spec, Releases!vars, Nested!Spec, Nested!vars
<1>4. /\ case = "faults" /\ [FaultsNext]_fvars => (case = "faults")'
      /\ case = "reboots" /\ [FaultsNext]_fvars => (case = "reboots")'
      /\ case = "namespaces" /\ [FaultsNext]_fvars => (case = "namespaces")'
      /\ case = "releases" /\ [FaultsNext]_fvars => (case = "releases")'
      /\ case = "nested" /\ [FaultsNext]_fvars => (case = "nested")'
      /\ ~(case = "faults") /\ [FaultsNext]_fvars => ~(case = "faults")'
      /\ ~(case = "reboots") /\ [FaultsNext]_fvars => ~(case = "reboots")'
      /\ ~(case = "namespaces") /\ [FaultsNext]_fvars => ~(case = "namespaces")'
      /\ ~(case = "releases") /\ [FaultsNext]_fvars => ~(case = "releases")'
      /\ ~(case = "nested") /\ [FaultsNext]_fvars => ~(case = "nested")'
  BY OneCase
<1>5. FaultsSpec <=> FaultsInit /\ [][FaultsNext]_fvars
  BY DEF FaultsSpec, fvars
<1>6. /\ FaultsSpec /\ case = "faults" => Spec /\ [](case = "faults")
      /\ FaultsSpec /\ ~(case = "faults") => []~(case = "faults")
  BY <1>1, <1>2, <1>3, <1>4, <1>5, PTL
<1>7. /\ FaultsSpec /\ case = "reboots" => Reboots!Spec /\ [](case = "reboots")
      /\ FaultsSpec /\ ~(case = "reboots") => []~(case = "reboots")
  BY <1>1, <1>2, <1>3, <1>4, <1>5, PTL
<1>8. /\ FaultsSpec /\ case = "namespaces" => Domains!Spec /\ [](case = "namespaces")
      /\ FaultsSpec /\ ~(case = "namespaces") => []~(case = "namespaces")
  BY <1>1, <1>2, <1>3, <1>4, <1>5, PTL
<1>9. /\ FaultsSpec /\ case = "releases" => Releases!Spec /\ [](case = "releases")
      /\ FaultsSpec /\ ~(case = "releases") => []~(case = "releases")
  BY <1>1, <1>2, <1>3, <1>4, <1>5, PTL
<1>10. /\ FaultsSpec /\ case = "nested" => Nested!Spec /\ [](case = "nested")
       /\ FaultsSpec /\ ~(case = "nested") => []~(case = "nested")
  BY <1>1, <1>2, <1>3, <1>4, <1>5, PTL
<1> QED
  BY <1>6, <1>7, <1>8, <1>9, <1>10

-----------------------------------------------------------------------------
\* Scheduler!WorkIsCharged under faults, after reboots and between two pid
\* namespaces.
THEOREM WorkIsChargedInAll == FaultsSpec => []ChargedWork
<1>1. /\ Spec => []WorkIsCharged
      /\ Reboots!Spec => []Reboots!WorkIsCharged
      /\ Domains!Spec => []Domains!WorkIsCharged
  BY CaseAssumptions, WorkStaysCharged, Reboots!WorkStaysCharged, Domains!WorkStaysCharged
<1>2. /\ case = "faults" /\ WorkIsCharged => ChargedWork
      /\ case = "reboots" /\ Reboots!WorkIsCharged => ChargedWork
      /\ case = "namespaces" /\ Domains!WorkIsCharged => ChargedWork
      /\ ~(case = "faults") /\ ~(case = "reboots") /\ ~(case = "namespaces") => ChargedWork
  BY DEF ChargedWork
<1> QED
  BY <1>1, <1>2, CaseSpecs, PTL

\* Scheduler!OwnerKeepsGrant under faults, after reboots and under operator
\* releases.
THEOREM GrantsAreKeptInAll == FaultsSpec => []KeptGrants
<1>1. /\ Spec => []OwnerKeepsGrant
      /\ Reboots!Spec => []Reboots!OwnerKeepsGrant
      /\ Releases!Spec => []Releases!OwnerKeepsGrant
  BY CaseAssumptions, GrantsStay, Reboots!GrantsStay, Releases!GrantsStay
<1>2. /\ case = "faults" /\ OwnerKeepsGrant => KeptGrants
      /\ case = "reboots" /\ Reboots!OwnerKeepsGrant => KeptGrants
      /\ case = "releases" /\ Releases!OwnerKeepsGrant => KeptGrants
      /\ ~(case = "faults") /\ ~(case = "reboots") /\ ~(case = "releases") => KeptGrants
  BY DEF KeptGrants
<1> QED
  BY <1>1, <1>2, CaseSpecs, PTL

\* Scheduler!NoConflictingWork of runs in one checkout, between two pid
\* namespaces and under operator releases.
THEOREM ConflictsAreExcludedInAll == FaultsSpec => []ConflictsExcluded
<1>1. /\ Domains!Spec => []Domains!NoConflictingWork
      /\ Releases!Spec => []Releases!NoConflictingWork
  BY CaseAssumptions, Domains!ConflictsNeverWork, Releases!ConflictsNeverWork
<1>2. /\ case = "namespaces" /\ Domains!NoConflictingWork => ConflictsExcluded
      /\ case = "releases" /\ Releases!NoConflictingWork => ConflictsExcluded
      /\ ~(case = "namespaces") /\ ~(case = "releases") => ConflictsExcluded
  BY DEF ConflictsExcluded
<1> QED
  BY <1>1, <1>2, CaseSpecs, PTL

\* Scheduler!NestedNeverWaits where the work of a invokes c: c never queues
\* while that work would wait for it.
THEOREM NestedWorkNeverWaits == FaultsSpec => NestingNeverWaits
<1> DEFINE Waits(r, p) == kid[p] = "grouped" \/ (kid[p] = "escaped" /\ GuardAlive(p))
<1>1. Nested!Spec =>
        [][\A r \in Queued(jobs') \ Queued(jobs) : \A p \in Runs :
             CInsideA[r] = p /\ Alone(p) => ~Waits(r, p)]_vars
  <2>1. Nested!Spec => Nested!NestedNeverWaits
    BY CaseAssumptions, Nested!NestingNeverQueues
  <2>2. [\A r \in Nested!Queued(jobs') \ Nested!Queued(jobs) : \A p \in Runs :
           CInsideA[r] = p /\ Nested!Alone(p) =>
             ~(kid[p] = "grouped" \/ (kid[p] = "escaped" /\ Nested!GuardAlive(p)))]_(Nested!vars)
        => [\A r \in Queued(jobs') \ Queued(jobs) : \A p \in Runs :
              CInsideA[r] = p /\ Alone(p) => ~Waits(r, p)]_vars
    BY DEF Nested!Queued, Queued, Nested!Alone, Alone, Nested!GuardAlive, GuardAlive,
           Nested!vars, vars
  <2> QED
    BY <2>1, <2>2, PTL DEF Nested!NestedNeverWaits
<1>2. /\ [\A r \in Queued(jobs') \ Queued(jobs) : \A p \in Runs :
            CInsideA[r] = p /\ Alone(p) => ~Waits(r, p)]_vars =>
          [case = "nested" =>
             \A r \in Queued(jobs') \ Queued(jobs) : \A p \in Runs :
               CInsideA[r] = p /\ Alone(p) => ~Waits(r, p)]_vars
      /\ ~(case = "nested") =>
          [case = "nested" =>
             \A r \in Queued(jobs') \ Queued(jobs) : \A p \in Runs :
               CInsideA[r] = p /\ Alone(p) => ~Waits(r, p)]_vars
  OBVIOUS
<1> QED
  BY <1>1, <1>2, CaseSpecs, PTL DEF NestingNeverWaits
=============================================================================
