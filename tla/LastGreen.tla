------------------------------ MODULE LastGreen ------------------------------
(***************************************************************************)
(* The last-green record of one project (lastgreen.py) and the commands    *)
(* that consult and move it (cli.py): a bare run tests what changed since  *)
(* the commit and the dirty files at which a covering run last passed, and *)
(* the test files that failed since.  A file is its own entry in Git; the  *)
(* import graph (impact.py) is the function Deps.  What the selection      *)
(* engine makes of the static plan of a run is any choice of tests here;   *)
(* module Selection has its rules.                                         *)
(***************************************************************************)
EXTENDS Integers, FiniteSets, Sequences

CONSTANTS
  Files,      \* tracked files of the project
  Tests,      \* the test files among them
  Deps,       \* Deps[t]: the files t imports, itself included
  Folder,     \* the test files under the folder that a folder run names
  Commands,   \* the commands people type
  Shells,     \* the terminals they type them in
  Events,     \* what else may happen
  Large,      \* files that are never hashed: over MAX_HASH_BYTES
  MaxFailed,  \* MAX_LAST_FAILED
  MaxGreenFiles,          \* MAX_GREEN_FILES
  Runners,    \* the runners a project may be configured for
  MaxCommits, MaxEdits,   \* bounds
  None

\* A test imports itself, and files of the project.
ProjectMakesSense ==
  /\ Tests \subseteq Files /\ Folder \subseteq Tests /\ None \notin Nat
  /\ \A t \in Tests : t \in Deps[t] /\ Deps[t] \subseteq Files

VARIABLES
  disk,   \* the runner, the repository, the working tree and the record
  proc,   \* the command of every shell
  past    \* what happened: edits so far, tests whose last reported run failed,
          \* tests that are sick, tests that the record has been let off (left)

vars == <<disk, proc, past>>

Gone == 0
Fine == 1
Broken == 2
Changed == 3
Contents == {Gone, Fine, Broken, Changed}

\* What load makes of a project without a record: no green point, no failures.
NoRecord == [commit |-> None, files |-> [f \in {} |-> None], failed |-> {}]
Idle == [pc |-> "idle", command |-> None, chosen |-> {}, failed |-> {}, print |-> NoRecord]

\* The branch base is commit 1; a commit names the commits it descends from,
\* itself included, and the tree.
Init ==
  /\ \E runner \in Runners :
     disk = [runner |-> runner,
             commits |-> <<[line |-> {1}, tree |-> [f \in Files |-> Fine]]>>, head |-> 1,
             work |-> [f \in Files |-> Fine], record |-> NoRecord]
  /\ proc = [s \in Shells |-> Idle]
  /\ past = [edits |-> 0, red |-> {}, sick |-> {}, left |-> {}]

Committed(i) == disk.commits[i].tree
Dirty == {f \in Files : disk.work[f] # Committed(disk.head)[f]}
\* worktree_changed_files: the committed range and the working tree.
ChangedSince(i) == {f \in Files : Committed(i)[f] # Committed(disk.head)[f]} \union Dirty

Ancestors(i) == disk.commits[i].line

\* _content_hash: a missing file has none, nor has a large one.
Hash(f) == IF disk.work[f] = Gone \/ f \in Large THEN None ELSE disk.work[f]
Printed(record, f) == IF f \in DOMAIN record.files THEN record.files[f] ELSE None

\* dirty_vs_fingerprint.
Moved(record) == {f \in Dirty : Printed(record, f) # Hash(f)}

\* What was committed since the point, less what was committed as it had been.
Landed(record) ==
  {f \in Files : /\ Committed(record.commit)[f] # Committed(disk.head)[f]
                 /\ ~ (Printed(record, f) # None /\ Hash(f) = Printed(record, f))}

\* The green point is on the way to commit i.
UsableAt(i) == disk.record.commit # None /\ disk.record.commit \in Ancestors(i)
LastFailed == disk.record.failed

\* consult: the green point, or the branch base, and the files that failed.
Consulted(base, explicit) ==
  LastFailed \union
  IF UsableAt(disk.head) /\ ~explicit
  THEN Landed(disk.record) \union Moved(disk.record)
  ELSE ChangedSince(base)

\* vitest is told of the commit alone, and compares the files itself.
Compared(base, explicit) ==
  IF disk.runner = "pytest" THEN Consulted(base, explicit)
  ELSE IF Consulted(base, explicit) = {} THEN {}
  ELSE ChangedSince(IF UsableAt(disk.head) /\ ~explicit THEN disk.record.commit ELSE base)

Present == {t \in Tests : disk.work[t] # Gone}
\* impact.plan: the tests a changed file reaches.
Reached(changed) == {t \in Present : Deps[t] \intersect changed # {}}

\* The static plan of a command; --base names HEAD here.
Planned(command) ==
  CASE command = "bare" -> Reached(Compared(1, FALSE))
    [] command = "based" -> Reached(Compared(disk.head, TRUE))
    [] command = "folder" -> Reached(Compared(1, FALSE)) \intersect Folder
    [] command = "full folder" -> Present \intersect Folder
    [] command = "full" -> Present

\* _plan_and_refine: what a command may run.  The static plan stands where there
\* is nothing to refine it by; otherwise the records decide what is run and what
\* is deferred.  The empty choice is no run.
Refined(command) ==
  IF disk.runner # "pytest" THEN {}
  ELSE CASE command \in {"bare", "based"} -> SUBSET Present
         [] command = "folder" -> SUBSET (Present \intersect Folder)
         [] OTHER -> {}
Chosen(command) == (IF command = "file" THEN {{t} : t \in Present}
                    ELSE {Planned(command)} \union Refined(command)) \ {{}}
\* Mutant: a folder run vouches for the project.
CoversAlways(command) == command # "file"
Covers(command) == command \in {"bare", "based", "full"}
\* The command lines that name every test file they run, as test_*.py.
Names(command) == disk.runner = "pytest" /\ command \in {"bare", "based", "folder", "file"}

-----------------------------------------------------------------------------
Go(s, p) == proc' = [proc EXCEPT ![s] = p]
At(s, pc) == proc[s].pc = pc

Consult(s) ==
  /\ At(s, "idle")
  /\ \E command \in Commands : \E tests \in Chosen(command) :
       Go(s, [Idle EXCEPT !.pc = "planned", !.command = command, !.chosen = tests])
  /\ UNCHANGED <<disk, past>>

\* A test fails when something it imports is broken or gone, or its
\* surroundings are; runs of one checkout do not overlap.
Fails(t) == \/ \E f \in Deps[t] : disk.work[f] \in {Gone, Broken}
            \/ t \in past.sick
Execute(s) ==
  /\ At(s, "planned")
  /\ Go(s, [proc[s] EXCEPT !.pc = "ran", !.failed = {t \in proc[s].chosen : Fails(t)}])
  /\ UNCHANGED <<disk, past>>

\* _note_run: the fingerprint is taken, then stored; not of too many files.
Fingerprint == [commit |-> disk.head, failed |-> {}, files |-> [f \in Dirty |-> Hash(f)]]
Note(s) ==
  /\ At(s, "ran")
  /\ CASE proc[s].failed = {} /\ Covers(proc[s].command) /\ Cardinality(Dirty) <= MaxGreenFiles ->
            Go(s, [proc[s] EXCEPT !.pc = "passing", !.print = Fingerprint])
       [] proc[s].failed # {} /\ Names(proc[s].command) ->
            Go(s, [proc[s] EXCEPT !.pc = "failing", !.print = disk.record])
       [] OTHER -> Go(s, Idle)
  /\ past' = [past EXCEPT !.red = IF proc[s].failed = {} THEN @ \ proc[s].chosen ELSE @]
  /\ UNCHANGED disk

\* The plan that a covering run is held to: a run with --base to that of a plain one.
Promised(command) == Planned(IF command = "based" THEN "bare" ELSE command)
RecordPass(s) ==
  /\ At(s, "passing") /\ Go(s, Idle)
  /\ disk' = [disk EXCEPT !.record = proc[s].print]
  /\ past' = [past EXCEPT !.left = (@ \union Promised(proc[s].command)) \ proc[s].chosen]

\* record_failure, over the record that was loaded: the files join those that
\* are remembered, in the order of the command line, while there is room.
Merged(old, files) ==
  LET all == old \union files
  IN  {kept \in SUBSET all : old \subseteq kept /\ Cardinality(kept) =
         IF Cardinality(all) <= MaxFailed THEN Cardinality(all) ELSE MaxFailed}
RecordFailure(s) ==
  /\ At(s, "failing") /\ Go(s, Idle)
  /\ \E kept \in Merged(proc[s].print.failed, proc[s].chosen) :
       /\ disk' = [disk EXCEPT !.record = [proc[s].print EXCEPT !.failed = kept]]
       /\ past' = [past EXCEPT !.red = @ \union proc[s].failed,
                               !.left = (@ \union proc[s].failed) \ kept]

-----------------------------------------------------------------------------
Interrupt(s) == /\ proc[s].pc # "idle" /\ Go(s, Idle) /\ UNCHANGED <<disk, past>>

\* Nobody edits or commits while a command runs, unless "meanwhile".
Quiet == "meanwhile" \in Events \/ \A s \in Shells : At(s, "idle")

\* The content a file has in HEAD; or, of a file that was dirty at the green
\* point, the one it had in the commit of that point.
Restores(f, c) ==
  \/ c = Committed(disk.head)[f]
  \/ UsableAt(disk.head) /\ f \in DOMAIN disk.record.files /\ c = Committed(disk.record.commit)[f]
\* Deleting a file, and restoring one, are events of their own.
Edit ==
  /\ Quiet /\ past.edits < MaxEdits
  /\ \E f \in Files : \E c \in Contents \ {disk.work[f]} :
       /\ c = Gone => "delete" \in Events
       /\ Restores(f, c) => "restore" \in Events
       /\ disk' = [disk EXCEPT !.work[f] = c]
  /\ past' = [past EXCEPT !.edits = @ + 1] /\ UNCHANGED proc

\* Something no file shows: a service, a clock, an installed package.
Sicken ==
  /\ "sick" \in Events /\ Quiet
  /\ \E t \in Tests : past' = [past EXCEPT !.sick = IF t \in @ THEN @ \ {t} ELSE @ \union {t}]
  /\ UNCHANGED <<disk, proc>>

Commit ==
  /\ Quiet /\ Len(disk.commits) < MaxCommits /\ Dirty # {}
  /\ disk' = [disk EXCEPT !.commits = Append(@, [line |-> Ancestors(disk.head) \union {Len(@) + 1},
                                                      tree |-> disk.work]),
                          !.head = Len(disk.commits) + 1]
  /\ UNCHANGED <<proc, past>>

\* Another commit is checked out over a clean working tree; one that descends
\* from the green point may restore files, too.
Switch ==
  /\ "switch" \in Events /\ Quiet /\ Dirty = {}
  /\ \E i \in DOMAIN disk.commits \ {disk.head} :
       /\ UsableAt(i) => "restore" \in Events
       /\ disk' = [disk EXCEPT !.head = i, !.work = Committed(i)]
  /\ UNCHANGED <<proc, past>>

Next ==
  \/ \E s \in Shells : \/ Consult(s) \/ Execute(s) \/ Note(s) \/ RecordPass(s)
                       \/ RecordFailure(s) \/ Interrupt(s)
  \/ Edit \/ Sicken \/ Commit \/ Switch
Spec == Init /\ [][Next]_vars

-----------------------------------------------------------------------------
\* The record is let off a test (past.left) when a bare run that passed had it in
\* its plan and did not run it - the selection engine left it out or deferred it,
\* or --base did - and when it failed with the list of failures full.  A dirty
\* file that is too large to hash says nothing either.
Unhashed == Large \intersect Dirty

\* With one terminal, where nothing is edited while a command runs, deleted, or
\* put back to a content it has in Git: whatever was run, committed or interrupted
\* before, the static plan of a bare run includes every test that an edit of the
\* branch has broken, but those the record was let off.  The green point vouches
\* for no file that a covering run did not account for as it is.
\* (lastgreen.consult, lastgreen.record_pass, cli._note_run)
BareFindsBreakage ==
  \A t \in Present \ past.left :
    (\E f \in Deps[t] \ Unhashed : disk.work[f] \in {Gone, Broken}) => t \in Planned("bare")

\* There, too, a test file whose last reported run failed is in the plan of the
\* next bare run, for whatever reason it failed, unless the record was let off.
\* (lastgreen.record_failure, lastgreen.consult)
FailuresReturn == past.red \intersect Present \subseteq Planned("bare") \union past.left

RecordIsSound == BareFindsBreakage /\ FailuresReturn
=============================================================================
