---------------------------- MODULE EntryContract ----------------------------
(***************************************************************************)
(* What the lifecycle of one entry promises a client of the host, and the  *)
(* ops under it, with no thread, job, gate or epoch in it: coverage of the *)
(* vault is gained whole, is worked on, and ends whole; the entry answers  *)
(* reads only while it is covered; a release, once begun, ends before      *)
(* coverage is gained again; and a read outlives what it reads only by     *)
(* what it has pinned.                                                     *)
(***************************************************************************)
EXTENDS Naturals

VARIABLES
    phase,    \* "detached", "covered" or "releasing"
    serving,  \* a read may begin
    reads     \* reads under way

cvars == <<phase, serving, reads>>

Phases == {"detached", "covered", "releasing"}

Init ==
    /\ phase = "detached"
    /\ serving = FALSE
    /\ reads = 0

\* An attach ends well, and the entry may serve at once.
Gain ==
    /\ phase = "detached"
    /\ phase' = "covered"
    /\ serving' \in BOOLEAN
    /\ UNCHANGED reads

\* Healing, reconciling and losing sight of the vault change what is served.
Work ==
    /\ phase = "covered"
    /\ serving' \in BOOLEAN
    /\ UNCHANGED <<phase, reads>>

\* Coverage, or an attach that would have gained it, is to be given back.
BeginRelease ==
    /\ phase \in {"detached", "covered"}
    /\ phase' = "releasing"
    /\ serving' = FALSE
    /\ UNCHANGED reads

EndRelease ==
    /\ phase = "releasing"
    /\ phase' = "detached"
    /\ UNCHANGED <<serving, reads>>

\* The leg that had the coverage ends without it: nothing was being served.
Lose ==
    /\ phase = "covered"
    /\ ~serving
    /\ phase' = "detached"
    /\ UNCHANGED <<serving, reads>>

BeginRead ==
    /\ phase = "covered"
    /\ serving
    /\ reads' = reads + 1
    /\ UNCHANGED <<phase, serving>>

EndRead ==
    /\ reads > 0
    /\ reads' = reads - 1
    /\ UNCHANGED <<phase, serving>>

Next == Gain \/ Work \/ BeginRelease \/ EndRelease \/ Lose \/ BeginRead \/ EndRead

Spec == Init /\ [][Next]_cvars
=============================================================================
