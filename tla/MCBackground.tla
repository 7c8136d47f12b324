---------------------------- MODULE MCBackground ----------------------------
EXTENDS Background, TLC

CONSTANT Steady

LaneSymmetry == Permutations(LaneThreads)

SteadyStaysAtRest ==
    \A s \in Steady :
        /\ entry[s].attached => entry'[s].attached
        /\ entry'[s].claim \in {"open", "attaching", "maintenance"}
        /\ ~entry'[s].rung
        /\ entry[s].attached => entry'[s].feeds
=============================================================================
