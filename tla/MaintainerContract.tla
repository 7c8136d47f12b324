------------------------- MODULE MaintainerContract -------------------------
(***************************************************************************)
(* What the maintainer lock of a derived store promises                    *)
(* (norn-fs/src/lock.rs).  Exclusion is a file's, and the lock is asked    *)
(* for by name: each time something outside Norn makes the name mean       *)
(* another file, or none, a new era of the name begins.  A maintainer has  *)
(* its tenure from the era in which its file was last known to be the      *)
(* name's, and no two maintainers have the same tenure.                    *)
(***************************************************************************)
EXTENDS Naturals

CONSTANT Acquirers

VARIABLES
    era,     \* how often the name has been made to mean something else, from 1
    tenure   \* the era each maintainer was last confirmed in; 0 for the others

vars == <<era, tenure>>

Init ==
    /\ era = 1
    /\ tenure = [p \in Acquirers |-> 0]

\* Become the maintainer, or be confirmed as the maintainer one is.
Confirm(p) ==
    /\ \A q \in Acquirers \ {p} : tenure[q] # era
    /\ tenure' = [tenure EXCEPT ![p] = era]
    /\ UNCHANGED era

Leave(p) ==
    /\ tenure[p] # 0
    /\ tenure' = [tenure EXCEPT ![p] = 0]
    /\ UNCHANGED era

Disturb ==
    /\ era' = era + 1
    /\ UNCHANGED tenure

Next ==
    \/ \E p \in Acquirers : Confirm(p) \/ Leave(p)
    \/ Disturb

Spec == Init /\ [][Next]_vars
=============================================================================
