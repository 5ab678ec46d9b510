----------------------------- MODULE MCSelection -----------------------------
\* Instances of test selection for TLC.
EXTENDS Integers, TLC

CONSTANT None

VARIABLES
  case,   \* which instance a behaviour is of; it never changes
  disk, proc, past

vars == <<case, disk, proc, past>>

\* A module m with a function f that reads X, a test of f, and a test that
\* notices what importing m does.
f == <<"m", "f">>
X == <<"m", "X">>
one == <<"t", "one">>
two == <<"t", "two">>
Nothing(S) == [x \in S |-> {}]
Only(S, function) == function @@ Nothing(S)
Kinds == [body |-> {"good", "other", "bad"}, signature |-> {"good", "raises"}, assign |-> {"good", "bad"},
          effect |-> {"good", "bad"}, syntax |-> {"good", "raises"}, data |-> {"good", "bad"}, file |-> {"good", "gone"}]
ValuesOf(units) == [u \in units |-> Kinds[u[2]]]
MT == {"m", "t"}
TestImportsM == ("m" :> {}) @@ ("t" :> {"m"})
OfF == {<<"m", "body", "f">>, <<"m", "signature", "f">>, <<"m", "assign", "X">>, <<"m", "effect", "">>, <<"t", "body", "one">>}
Callers == INSTANCE Selection WITH
  Units <- OfF, Values <- ValuesOf(OfF), TestFiles <- {"t"}, Tests <- {one, two},
  Imports <- TestImportsM, FromNames <- Nothing(MT),
  Calls <- Only({f, one, two}, one :> {f}), CallsToo <- Nothing({f, one, two}),
  Uses <- Only({f, one, two}, f :> {X}), DefRefs <- Nothing({f, one, two, X}), EffectRefs <- Nothing(MT),
  ImportCalls <- Nothing(MT), Lazy <- Nothing({f, one, two}), Opens <- Nothing({f, one, two}),
  Spawned <- Nothing({f, one, two}), Notices <- Only({one, two}, two :> {"m"}),
  Checkouts <- {"here"}, Events <- {}, Keep <- 3, MaxEdits <- 3, MaxRuns <- 3

\* f opens a file and imports lazy, whose h the test of f calls in one of its
\* versions; another file's test runs f in a child process.
h == <<"lazy", "h">>
child1 == <<"u", "child">>
OfFiles == {<<"t", "body", "one">>, <<"lazy", "body", "h">>, <<"lazy", "effect", "">>, <<"d", "data", "">>,
            <<"u", "file", "">>, <<"m", "syntax", "">>}
Scoped == {one, child1, f, h}
Modules == {"m", "t", "u", "lazy"}
Files == INSTANCE Selection WITH
  Units <- OfFiles, Values <- ValuesOf(OfFiles), TestFiles <- {"t", "u"}, Tests <- {one, child1},
  Imports <- Only(Modules, ("t" :> {"m"}) @@ ("u" :> {"m"})), FromNames <- Nothing(Modules),
  Calls <- Only(Scoped, one :> {f}), CallsToo <- Only(Scoped, one :> {h}),
  Uses <- Nothing(Scoped), DefRefs <- Nothing(Scoped), EffectRefs <- Nothing(Modules),
  ImportCalls <- Nothing(Modules), Lazy <- Only(Scoped, f :> {"lazy"}), Opens <- Only(Scoped, f :> {"d"}),
  Spawned <- Only(Scoped, child1 :> {f}), Notices <- Only({one, child1}, one :> {"lazy"}),
  Checkouts <- {"here"}, Events <- {"cancel", "incomplete", "uncached"}, Keep <- 3, MaxEdits <- 2, MaxRuns <- 2

\* Two worktrees of one store; runs that die; a store that is full.
OfBodies == {<<"m", "body", "f">>, <<"t", "body", "one">>}
Bodies(tests) == [u \in OfBodies |-> tests]
Worktrees == INSTANCE Selection WITH
  Units <- OfBodies, Values <- Bodies({"good", "bad"}), TestFiles <- {"t"}, Tests <- {one, two},
  Imports <- TestImportsM, FromNames <- Nothing(MT),
  Calls <- Only({f, one, two}, one :> {f}), CallsToo <- Nothing({f, one, two}),
  Uses <- Nothing({f, one, two}), DefRefs <- Nothing({f, one, two}), EffectRefs <- Nothing(MT),
  ImportCalls <- Nothing(MT), Lazy <- Nothing({f, one, two}), Opens <- Nothing({f, one, two}),
  Spawned <- Nothing({f, one, two}), Notices <- Nothing({one, two}),
  Checkouts <- {"here", "there"}, Events <- {"evict", "crash"}, Keep <- 2, MaxEdits <- 2, MaxRuns <- 3
\* One worktree; its store is full, or it is edited after its tests have run.
Unsteady == INSTANCE Selection WITH
  Units <- OfBodies, Values <- Bodies({"good", "other", "bad"}), TestFiles <- {"t"}, Tests <- {one, two},
  Imports <- TestImportsM, FromNames <- Nothing(MT),
  Calls <- Only({f, one, two}, one :> {f}), CallsToo <- Nothing({f, one, two}),
  Uses <- Nothing({f, one, two}), DefRefs <- Nothing({f, one, two}), EffectRefs <- Nothing(MT),
  ImportCalls <- Nothing(MT), Lazy <- Nothing({f, one, two}), Opens <- Nothing({f, one, two}),
  Spawned <- Nothing({f, one, two}), Notices <- Nothing({one, two}),
  Checkouts <- {"here"}, Events <- {"evict", "late"}, Keep <- 3, MaxEdits <- 2, MaxRuns <- 3

-----------------------------------------------------------------------------
Init ==
  \/ case = "callers" /\ Callers!Init
  \/ case = "files" /\ Files!Init
  \/ case = "worktrees" /\ Worktrees!Init
Next ==
  /\ UNCHANGED case
  /\ \/ case = "callers" /\ Callers!Next
     \/ case = "files" /\ Files!Next
     \/ case = "worktrees" /\ Worktrees!Next
Spec == Init /\ [][Next]_vars

\* Selection!NothingMissed and GatesMissNothing: recorded tests that selection
\* passes over would pass.
SelectionMissesNothing ==
  /\ case = "callers" => Callers!NothingMissed /\ Callers!GatesMissNothing
  /\ case = "files" => Files!NothingMissed /\ Files!GatesMissNothing
  /\ case = "worktrees" => Worktrees!NothingMissed /\ Worktrees!GatesMissNothing

-----------------------------------------------------------------------------
\* A store that evicts, and edits while a run is recorded.
UnsteadySpec ==
  /\ case = "unsteady" /\ Unsteady!Init
  /\ [][UNCHANGED case /\ Unsteady!Next]_vars

\* docs/specs/2026-10-07-ptest-0.5-selection.md:390 - "A test without a valid
\* record is never skipped unless the static rule proves it unaffected."
ForgottenTestsRun == case = "unsteady" => Unsteady!UnrecordedAreRun

\* docs/specs/2026-10-07-ptest-0.5-selection.md:388 - "A test whose recorded
\* dependencies changed is never skipped by the dynamic engine".
LateEditsAreFound == case = "unsteady" => Unsteady!NothingMissed
=============================================================================
