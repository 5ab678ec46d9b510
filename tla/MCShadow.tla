------------------------------- MODULE MCShadow -------------------------------
\* Selection put to the test, for TLC: the comparisons and full gates of MCHistory
\* that judge a plan made from the store, and the instances of MCSelection, whose
\* plans are made from recorded dependencies.  A behaviour is of one of them, and
\* the variables of the other rest.
EXTENDS MCHistory

VARIABLES disk, proc, past   \* those of Selection

recorded == <<disk, proc, past>>

FromRecords == INSTANCE MCSelection

ShadowInit ==
  \/ StartsAlone /\ disk = None /\ proc = None /\ past = None
  \/ Init /\ Unmarked /\ FromRecords!Init
ShadowNext ==
  /\ UNCHANGED <<case, published>>
  /\ \/ case = "alone" /\ Next /\ UNCHANGED recorded
     \/ FromRecords!Next /\ UNCHANGED vars
ShadowSpec == ShadowInit /\ [][ShadowNext]_<<case, vars, published, recorded>>

\* MCSelection!SelectionMissesNothing: recorded tests that selection passes over
\* would pass.
SelectionMissesNothing == FromRecords!SelectionMissesNothing
=============================================================================
