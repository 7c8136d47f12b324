------------------------------- MODULE Claim -------------------------------
(***************************************************************************)
(* The claim and the coverage of one entry: the pure moves of              *)
(* norn-host/src/lifecycle/claim.rs, each a function from a value to the   *)
(* value the move leaves.  A claim is the right to run work against an     *)
(* entry: an epoch that names the work the entry stands at, a gate, the    *)
(* leg running against the entry, and the queue slot of the job sent for   *)
(* it.  Coverage is the custody of the one attachment of the entry.        *)
(*                                                                         *)
(* Epochs are naturals that only grow; 0 is the epoch of a new entry, at   *)
(* which no job is ever issued, so 0 stands for "no epoch" in a slot.      *)
(* The waiting reload, the routine flag that admits it and the background  *)
(* wake are not part of this module.                                       *)
(***************************************************************************)
EXTENDS Naturals

JobKinds == {"Attach", "Recover", "Rebuild", "Reconcile", "Maintenance", "Detach"}

\* A job is its kind and the epoch it was issued at; the vault is implicit.
Jobs  == [kind : JobKinds, epoch : Nat]
NoJob == [kind |-> "none", epoch |-> 0]

\* A leg is a watcher poll or a job running against the entry.
LegKinds == {"Poll", "Job"}
Legs  == [kind : LegKinds, epoch : Nat]
NoLeg == [kind |-> "none", epoch |-> 0]

PollLeg(epoch) == [kind |-> "Poll", epoch |-> epoch]
JobLeg(epoch)  == [kind |-> "Job", epoch |-> epoch]

\* marker is the job a "scheduled" gate holds, NoJob otherwise.
Claims == [epoch  : Nat,
           gate   : {"open", "held", "scheduled"},
           marker : Jobs \cup {NoJob},
           leg    : Legs \cup {NoLeg},
           slot   : Nat]

StartingAt(epoch) ==
    [epoch |-> epoch, gate |-> "open", marker |-> NoJob, leg |-> NoLeg, slot |-> 0]

----------------------------------------------------------------------------
(* Reading a claim                                                         *)

StandsAt(c, epoch) == c.epoch = epoch
IsHeld(c)          == c.gate # "open"
Running(c)         == c.leg # NoLeg
SlotTaken(c)       == c.slot # 0

----------------------------------------------------------------------------
(* The gate                                                                *)

SetGate(c, gate)   == [c EXCEPT !.gate = gate, !.marker = NoJob]
SetMarker(c, job)  == [c EXCEPT !.gate = "scheduled", !.marker = job]

\* Move the entry on: whatever runs at the epoch before answers for itself alone.
Supersede(c) == [c EXCEPT !.epoch = @ + 1]

\* Hold the gate, unless a marker holds it.
Hold(c) == IF c.gate = "scheduled" THEN c ELSE SetGate(c, "held")

Schedule(c, kind) ==
    SetMarker(Supersede(c), [kind |-> kind, epoch |-> c.epoch + 1])

\* The job handed on is the one at the new epoch; the caller sends it itself.
HandOn(c, kind) == Hold(Supersede(c))

\* Mutant of HandedOn: the job is issued past the epoch the claim moves to.
HandedOnAhead(c, kind) == [kind |-> kind, epoch |-> c.epoch + 2]

HandedOn(c, kind) == [kind |-> kind, epoch |-> c.epoch + 1]

OpenGate(c) == SetGate(c, "open")

Release(c) == IF c.gate = "scheduled" THEN c ELSE SetGate(c, "open")

\* A marker dropped under a running leg leaves the gate to that leg.
DropMarker(c) ==
    IF c.gate = "scheduled"
    THEN SetGate(c, IF Running(c) THEN "held" ELSE "open")
    ELSE c

Restore(c, job) == IF c.gate = "scheduled" THEN c ELSE SetMarker(c, job)

Mark(c, job) == SetMarker(c, job)

AbandonSlot(c) == [c EXCEPT !.slot = 0]

Invalidate(c) == DropMarker(AbandonSlot(Supersede(c)))

----------------------------------------------------------------------------
(* The leg                                                                 *)

BeginPoll(c, epoch)   == SetGate([c EXCEPT !.leg = PollLeg(epoch)], "held")
BeginJobLeg(c, epoch) == SetGate([c EXCEPT !.leg = JobLeg(epoch)], "held")

EndRunningLeg(c) == [c EXCEPT !.leg = NoLeg]

EndPoll(c, epoch) ==
    Release(IF c.leg = PollLeg(epoch) THEN EndRunningLeg(c) ELSE c)

EndJobLeg(c, epoch) ==
    IF c.leg = JobLeg(epoch) THEN EndRunningLeg(c) ELSE c

\* Blind to the kind of the leg: the one end a release gives whatever leg took it.
EndLeg(c, epoch) ==
    IF Running(c) /\ c.leg.epoch = epoch THEN EndRunningLeg(c) ELSE c

----------------------------------------------------------------------------
(* The queue slot                                                          *)

TakeSlot(c, epoch) == [c EXCEPT !.slot = epoch]

\* A job frees the slot it holds and no other's.
FreeSlot(c, epoch) == IF c.slot = epoch THEN AbandonSlot(c) ELSE c

\* Mutant of MarkedIsFree: blind to a job of the entry in the channel.
MarkedIsFreeOfLegs(c) == c.gate = "scheduled" /\ ~Running(c)

\* A marker is sent while no job of the entry is in the channel and no leg runs.
MarkedIsFree(c) == c.gate = "scheduled" /\ ~SlotTaken(c) /\ ~Running(c)
TakeSlotForMarked(c) == TakeSlot(c, c.marker.epoch)

\* The leg at epoch ends and the job it moves on to goes into the channel: a
\* marker naming that job becomes a plain hold, so nothing sends it twice.
HandOff(c, epoch, job) ==
    LET ended == EndJobLeg(c, epoch)
        gated == IF ended.gate = "scheduled" /\ ended.marker.epoch = job.epoch
                 THEN SetGate(ended, "held")
                 ELSE ended
    IN  TakeSlot(gated, job.epoch)

----------------------------------------------------------------------------
(* Coverage: none, parked in the entry, or out with the leg of one epoch.  *)

Coverages == [at : {"none", "parked", "leg"}, leg : Nat]

NoCoverage    == [at |-> "none", leg |-> 0]
Parked        == [at |-> "parked", leg |-> 0]
OnLeg(epoch)  == [at |-> "leg", leg |-> epoch]

InHand(cov)       == cov.at = "parked"
OutWithLeg(cov)   == cov.at = "leg"
AccountedFor(cov) == cov.at # "none"

\* take and give_up hand an attachment over exactly when it is InHand.
TakeCoverage(cov, epoch) == IF InHand(cov) THEN OnLeg(epoch) ELSE cov
GiveUp(cov)              == IF InHand(cov) THEN NoCoverage ELSE cov
ReleasedBy(cov, epoch)   == IF cov = OnLeg(epoch) THEN NoCoverage ELSE cov

\* park_by and install overwrite the custody; what they assert of it first is
\* checked where they are called.
ParkBy(cov, epoch)   == Parked
MayPark(cov, epoch)  == cov \in {OnLeg(epoch), NoCoverage}
MayInstall(cov)      == cov = NoCoverage
=============================================================================
