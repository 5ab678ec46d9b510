------------------------------ MODULE Admission ------------------------------
(***************************************************************************)
(* What the scheduler promises a caller, without ledger, processes or      *)
(* recovery (design section 7: strict FIFO with the head possibly blocked, *)
(* all claims acquired atomically): a run waits with a ticket, holds its   *)
(* claims, or neither.  Any number of runs may leave at any moment; those  *)
(* admitted together are older than everyone left waiting, and conflict    *)
(* with nobody they will hold beside.                                      *)
(***************************************************************************)
EXTENDS Integers

CONSTANTS Runs,
          Conflict  \* the pairs <<r, s>> that may not hold together

VARIABLES waiting, holding, ticket

avars == <<waiting, holding, ticket>>

AInit == /\ waiting = {} /\ holding = {}
         /\ ticket = [r \in Runs |-> 0]

TicketsKept(S) == \A r \in S : ticket'[r] = ticket[r]

\* Runs leave either side, and the oldest of the remaining ones are admitted.
Serve ==
  LET admitted == holding' \ holding
  IN  /\ waiting' \subseteq waiting
      /\ admitted \subseteq waiting
      /\ waiting' \intersect holding' = {}
      /\ \A g \in admitted : \A w \in waiting' : ticket[g] < ticket[w]
      /\ \A g \in admitted : \A h \in holding' \ {g} : <<g, h>> \notin Conflict
      /\ TicketsKept(waiting' \union holding')

\* One run joins at the end of the line; others may leave meanwhile.
Join(r) ==
  /\ r \notin waiting \union holding
  /\ r \in waiting' /\ waiting' \ {r} \subseteq waiting
  /\ holding' \subseteq holding
  /\ TicketsKept((waiting' \union holding') \ {r})
  /\ \A s \in (waiting' \union holding') \ {r} : ticket'[s] < ticket'[r]

ANext == Serve \/ \E r \in Runs : Join(r)

ASpec == AInit /\ [][ANext]_avars
=============================================================================
