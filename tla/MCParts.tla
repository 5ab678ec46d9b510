------------------------------- MODULE MCParts -------------------------------
\* Instances of the parts around a run for TLC.  A behaviour is of one part;
\* the variables of the guard rest in its initial state in the others, and
\* those of the others are None except in their own.  A component that has
\* theorems is taken with them, for PartsProofs to use.
EXTENDS Integers, TLC

CONSTANTS
  lib, ta, tb, terminal, None,
  Sources, Cases, Imports, Corner,   \* a project: its files, its test files, what
                                     \* these import, and those of one folder
  Large, MaxFailed, MaxGreenFiles,   \* its files that are too large to hash; caps of its record
  MaxCommits, MaxEdits,              \* bounds
  Gateways, gw0, Grants,             \* a parallel run: its workers, the first of them,
                                     \* and what it may be granted
  Openers                            \* processes that open a coordinator

VARIABLES
  part,     \* which part a behaviour is of; it never changes
  g, o, up, down, child, code, strays, expired, started, dumps,
  disk, proc, past,
  grant, worker, wire, todo, hub, report, truth,
  row, lock, sidecar, owner, guard, db, removal, wronged,
  lockfile, holder, ledger, marker, opener

control == <<g, o, up, down, child, code, strays, expired, started, dumps>>
files == <<disk, proc, past>>
session == <<grant, worker, wire, todo, hub, report, truth>>
leases == <<row, lock, sidecar, owner, guard, db, removal, wronged>>
coordinator == <<lockfile, holder, ledger, marker, opener>>
vars == <<part, control, files, session, leases, coordinator>>

-----------------------------------------------------------------------------
Everything == {"interrupt", "terminate", "kill", "crash", "expire", "slow",
               "stall", "stray", "missing", "doubt", "racing", "lost", "broken"}

\* An attempt behind a setup, the two attempts of a comparison, and an attempt
\* on its own.
One == INSTANCE GuardControlProofs WITH
  Attempts <- 1, HasSetup <- TRUE, Events <- Everything
Two == INSTANCE GuardControlProofs WITH
  Attempts <- 2, HasSetup <- FALSE, Events <- Everything
Bare == INSTANCE GuardControlProofs WITH
  Attempts <- 1, HasSetup <- FALSE, Events <- Everything

\* One terminal; for TLC a source file with its test, and a test on its own.
Green == INSTANCE LastGreen WITH
  Files <- Sources, Tests <- Cases, Deps <- Imports, Folder <- Corner,
  Commands <- {"bare", "based", "folder", "full folder", "full", "file"},
  Runners <- {"pytest", "vitest"},
  Shells <- {terminal}, Events <- {"sick", "switch"}
OneImport == [t \in Cases |-> IF t = ta THEN {lib, ta} ELSE {t}]
\* The same, and files are deleted.
Deleting == INSTANCE LastGreen WITH
  Files <- {lib, ta}, Tests <- {ta}, Deps <- [t \in {ta} |-> {lib, ta}],
  Folder <- {}, Commands <- {"bare", "full"}, Runners <- {"pytest"},
  Shells <- {terminal}, Events <- {"delete", "restore"}, MaxCommits <- 1, MaxEdits <- 1

\* A parallel run; for TLC a full one of the advanced profile, and a scoped one.
Suite == INSTANCE Bridge WITH
  Workers <- Gateways, First <- gw0, Tests <- Cases, control <- hub
FullAndScoped ==
  {[full |-> TRUE, advanced |-> TRUE, events |-> {"crash", "drop", "rewrite", "soften", "quit"}],
   [full |-> FALSE, advanced |-> FALSE, events |-> {"differ", "broken", "stop", "subtest", "refuse"}]}

\* The files of three runs in two pid namespaces; and of two runs, one of which
\* cannot tell its namespace, with an enqueue that is tried again.
Neighbours == INSTANCE LeaseFilesProofs WITH
  Runs <- 1 .. 3, NamespaceOf <- <<"here", "there", "there">>, Unknown <- "unknown", MaxTries <- 1
Unsure == INSTANCE LeaseFilesProofs WITH
  Runs <- 1 .. 2, NamespaceOf <- <<"here", "unknown">>, Unknown <- "unknown", MaxTries <- 2

\* Openers of a coordinator that does not exist yet.
Birth == INSTANCE Bootstrap WITH Processes <- Openers

ASSUME NamesAssumption == Neighbours!NoneDiffers /\ Unsure!NoneDiffers /\ Birth!NoneDiffers
ASSUME ProjectAssumption == Green!ProjectMakesSense
ASSUME SessionAssumption == Suite!SessionMakesSense
ASSUME ManifestAssumption == One!AttemptsMakeSense /\ Two!AttemptsMakeSense /\ Bare!AttemptsMakeSense

-----------------------------------------------------------------------------
NoFiles == disk = None /\ proc = None /\ past = None
NoGuard == One!Init
NoSession ==
  /\ grant = None /\ worker = None /\ wire = None /\ todo = None /\ hub = None /\ report = None
  /\ truth = None
NoLeases ==
  /\ row = None /\ lock = None /\ sidecar = None /\ owner = None /\ guard = None
  /\ db = None /\ removal = None /\ wronged = None
NoCoordinator ==
  /\ lockfile = None /\ holder = None /\ ledger = None /\ marker = None /\ opener = None

Init ==
  \/ /\ NoFiles /\ NoSession /\ NoLeases /\ NoCoordinator
     /\ \/ part = "guard of one" /\ One!Init
        \/ part = "guard of two" /\ Two!Init
        \/ part = "bare guard" /\ Bare!Init
  \/ /\ NoGuard /\ NoSession /\ NoLeases /\ NoCoordinator
     /\ part = "green" /\ Green!Init
  \/ /\ NoGuard /\ NoFiles /\ NoLeases /\ NoCoordinator
     /\ part = "suite" /\ Suite!Init
  \/ /\ NoGuard /\ NoFiles /\ NoSession /\ NoCoordinator
     /\ \/ part = "neighbours" /\ Neighbours!Init
        \/ part = "unsure" /\ Unsure!Init
  \/ /\ NoGuard /\ NoFiles /\ NoSession /\ NoLeases
     /\ part = "birth" /\ Birth!Init
Next ==
  /\ UNCHANGED part
  /\ \/ /\ UNCHANGED <<files, session, leases, coordinator>>
        /\ \/ part = "guard of one" /\ One!Next
           \/ part = "guard of two" /\ Two!Next
           \/ part = "bare guard" /\ Bare!Next
     \/ UNCHANGED <<control, session, leases, coordinator>> /\ part = "green" /\ Green!Next
     \/ UNCHANGED <<control, files, leases, coordinator>> /\ part = "suite" /\ Suite!Next
     \/ /\ UNCHANGED <<control, files, session, coordinator>>
        /\ \/ part = "neighbours" /\ Neighbours!Next
           \/ part = "unsure" /\ Unsure!Next
     \/ UNCHANGED <<control, files, session, leases>> /\ part = "birth" /\ Birth!Next
Spec == Init /\ [][Next]_vars

\* GuardControl!PassIsEarned: a verdict of PASSED was earned by every attempt.
PassIsEarned ==
  IF part = "guard of two" THEN Two!PassIsEarned
  ELSE IF part = "bare guard" THEN Bare!PassIsEarned ELSE One!PassIsEarned

\* GuardControl!ExecutionNeedsContinue: no attempt runs without leave.
ExecutionNeedsContinue ==
  IF part = "guard of two" THEN Two!ExecutionNeedsContinue ELSE One!ExecutionNeedsContinue

\* GuardControl!FirstEndWins: of a cancel and a clock the first decides.
FirstEndWins == One!FirstEndWins

\* GuardControl!CleanGuardIsBelieved where there is one attempt: a guard that
\* exits 0 has not broken the handoff.
CleanGuardIsBelieved == part # "guard of two" => One!CleanGuardIsBelieved

\* LastGreen!RecordIsSound: the green point hides no breakage and no failure.
RecordIsSound == part = "green" => Green!BareFindsBreakage /\ Green!FailuresReturn

\* Bridge!PassIsWhole, CountsAreTrue and MarkerMeansDone: what the bridge says
\* of a parallel run is so.
ParallelReportIsTrue == part = "suite" => Suite!ReportIsTrue

\* LeaseFiles!LeaseTellsTruth and NoOrphans: whoever judges a run by its files
\* judges it truly, and no file is left that nobody would remove.
LeaseFilesTellTruth ==
  /\ part = "neighbours" => Neighbours!LeaseTellsTruth /\ Neighbours!NoOrphans
  /\ part = "unsure" => Unsure!LeaseTellsTruth /\ Unsure!NoOrphans

\* Bootstrap!BootstrapHolds: openers of one coordinator refuse nothing that can
\* be completed, and rows rest on a coordinator that is whole.
BootstrapHolds == part = "birth" => Birth!BootstrapHolds

-----------------------------------------------------------------------------
\* Files are deleted, too.
DeletingSpec ==
  /\ part = "deleting" /\ NoGuard /\ NoSession /\ NoLeases /\ NoCoordinator /\ Deleting!Init
  /\ [][UNCHANGED <<part, control, session, leases, coordinator>> /\ Deleting!Next]_vars

\* lastgreen.py:7 - "The next bare run diffs committed changes since that commit
\* plus working-tree differences against the fingerprint".
DeletionsAreFound == part = "deleting" => Deleting!BareFindsBreakage
=============================================================================
