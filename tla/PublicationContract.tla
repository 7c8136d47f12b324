------------------------ MODULE PublicationContract ------------------------
(***************************************************************************)
(* What publishing a plan promises of the files it writes: a target takes  *)
(* its after-state only once every target drawing on it holds its own      *)
(* where a power cut cannot take it back.  Other writers, whose changes    *)
(* are not the plan's, are told apart by the files they touched.           *)
(***************************************************************************)

CONSTANTS Targets, Bytes, Before, After, Draws

VARIABLES
    bytes,    \* what each target holds
    keeps,    \* what a power cut may leave it holding
    foreign   \* the targets another writer has changed

vars == <<bytes, keeps, foreign>>

Change(t, content) ==
    /\ bytes' = [bytes EXCEPT ![t] = content]
    /\ keeps' = [keeps EXCEPT ![t] = @ \cup {content}]

Safe(t) == t \in foreign \/ keeps[t] = {After[t]}

Land(t) ==
    /\ \A d \in Draws : d[2] = t => Safe(d[1])
    /\ Change(t, After[t])
    /\ UNCHANGED foreign

Foreign(t) ==
    /\ foreign' = foreign \cup {t}
    /\ \E content \in Bytes : Change(t, content)

Sync(t) ==
    /\ keeps' = [keeps EXCEPT ![t] = {bytes[t]}]
    /\ UNCHANGED <<bytes, foreign>>

PowerCut ==
    /\ bytes' \in {b \in [Targets -> Bytes] : \A t \in Targets : b[t] \in keeps[t]}
    /\ keeps' = [t \in Targets |-> {bytes'[t]}]
    /\ UNCHANGED foreign

Init ==
    /\ bytes = Before
    /\ keeps = [t \in Targets |-> {Before[t]}]
    /\ foreign = {}

Next == PowerCut \/ \E t \in Targets : Land(t) \/ Foreign(t) \/ Sync(t)

Spec == Init /\ [][Next]_vars

----------------------------------------------------------------------------
\* What a target is written from stands somewhere a power cut cannot reach: at
\* its source as it was, or at the target that took it over.
Survives ==
    \A d \in Draws :
        \/ d[1] \in foreign \/ d[2] \in foreign
        \/ keeps[d[2]] = {Before[d[2]]}
        \/ keeps[d[1]] = {After[d[1]]}
=============================================================================
