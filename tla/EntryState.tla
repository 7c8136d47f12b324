----------------------------- MODULE EntryState -----------------------------
(***************************************************************************)
(* The state of one entry and the moves its handlers are built from        *)
(* (EntryState and the free functions over it in                           *)
(* norn-host/src/lifecycle.rs).  Every operator that ends in a state is a  *)
(* function from the entry's state to the state the code leaves, so that a *)
(* handler that makes several calls under one hold of the gate is their    *)
(* composition.                                                            *)
(*                                                                         *)
(* Data kept: what a decision of the code reads.  A batch of watcher facts *)
(* is "none", "facts" or "rescan"; the reason of an Untrusted entry is     *)
(* kept as far as the code tells reasons apart; damage, a reader and each  *)
(* park are present or absent.  Reload, apply and construction state are   *)
(* not part of this module.                                                *)
(***************************************************************************)
EXTENDS Claim

Batches == {"none", "facts", "rescan"}

Warm      == {"Installing", "Healing", "Releasing"}
Distrust  == {"Overflow", "Rebuilding", "Untrusted"}
Trusts    == {"Unattached", "Ready"} \cup Warm \cup Distrust

Entries ==
    [claim : Claims, coverage : Coverages, reader : BOOLEAN, trust : Trusts,
     pending : Batches, damage : BOOLEAN,
     recovery_required : BOOLEAN, rebuild_required : BOOLEAN, awaits : BOOLEAN,
     contended : BOOLEAN, duplicate : BOOLEAN, identity : BOOLEAN,
     leases : Nat, recovery_demands : Nat,
     pins : Nat, pinned_leg : Legs \cup {NoLeg},
     detach_due : BOOLEAN, detach_scheduled : BOOLEAN, detach_in_flight : BOOLEAN]

Unattached(epoch) ==
    [claim |-> StartingAt(epoch), coverage |-> NoCoverage, reader |-> FALSE,
     trust |-> "Unattached", pending |-> "none", damage |-> FALSE,
     recovery_required |-> FALSE, rebuild_required |-> FALSE, awaits |-> FALSE,
     contended |-> FALSE, duplicate |-> FALSE, identity |-> FALSE,
     leases |-> 0, recovery_demands |-> 0, pins |-> 0, pinned_leg |-> NoLeg,
     detach_due |-> FALSE, detach_scheduled |-> FALSE, detach_in_flight |-> FALSE]

----------------------------------------------------------------------------
(* Reading an entry                                                        *)

OwesARung(s)        == s.recovery_required \/ s.rebuild_required
RecoveryDemanded(s) == s.recovery_demands > 0
StandsParked(s)     == s.contended \/ s.duplicate \/ s.identity
Pinned(s)           == s.pins > 0
InHandOf(s)         == InHand(s.coverage)
StandsAtEpoch(s, epoch) == StandsAt(s.claim, epoch)

\* Nothing runs, is marked, or is being given back: new work may be scheduled.
Schedulable(s) ==
    /\ s.trust \in {"Unattached"} \cup Distrust
    /\ ~IsHeld(s.claim)
    /\ ~s.detach_in_flight

----------------------------------------------------------------------------
(* Facts                                                                   *)

\* Any fact taken in ends the wait of a recovery for a change of the vault.
Merge(s, batch) ==
    IF batch = "none" THEN s
    ELSE [s EXCEPT !.pending = IF "rescan" \in {@, batch} THEN "rescan" ELSE "facts",
                   !.awaits = FALSE]

ClearPending(s) == [s EXCEPT !.pending = "none"]

----------------------------------------------------------------------------
(* Trust and the rungs of the heal ladder                                  *)

SetTrust(s, trust) == [s EXCEPT !.trust = trust]

RetireRecoveryDemands(s) == [s EXCEPT !.recovery_demands = 0]

RequireRecoveryKeepingDemands(s) ==
    [s EXCEPT !.recovery_required = TRUE, !.awaits = FALSE]

RequireRecovery(s) == RetireRecoveryDemands(RequireRecoveryKeepingDemands(s))

RequireRebuild(s) ==
    RetireRecoveryDemands(
        [s EXCEPT !.rebuild_required = TRUE, !.recovery_required = FALSE, !.awaits = FALSE])

WithdrawTrustForDamage(s) == SetTrust(RequireRebuild(s), "Rebuilding")

ClearRebuild(s) == [s EXCEPT !.rebuild_required = FALSE, !.damage = FALSE]

ClearRecovery(s) ==
    RetireRecoveryDemands([s EXCEPT !.recovery_required = FALSE, !.awaits = FALSE])

ClearRungs(s) == ClearRebuild(ClearRecovery(s))

PublishPendingReconcile(s) ==
    SetTrust(s, IF s.pending = "rescan" THEN "Overflow" ELSE "Healing")

PublishReadyWhereNothingIsLeft(s, saturated) ==
    IF ~saturated /\ s.pending = "none" /\ ~OwesARung(s) THEN SetTrust(s, "Ready") ELSE s

\* The vault answered and cannot be trusted: a recovery is owed, and a demand
\* alone does not run it again before the vault changes.
WithholdTrust(s, tookInAFact) ==
    SetTrust([Merge(RequireRecovery(s), "rescan") EXCEPT !.awaits = ~tookInAFact],
             "Untrusted")

----------------------------------------------------------------------------
(* Coverage, the reader over it, and the pins that keep it                 *)

CloseReader(s) == [s EXCEPT !.reader = FALSE]

Park(s, epoch) == [s EXCEPT !.coverage = ParkBy(@, epoch)]

\* minted says whether the store opened the read handle.
InstallCoverage(s, minted) == [s EXCEPT !.reader = minted, !.coverage = Parked]
RemintCoverage(s, epoch, minted) == Park([s EXCEPT !.reader = minted], epoch)
ParkCoverage(s, epoch, minted) == Park([s EXCEPT !.reader = @ \/ minted], epoch)

PinForLeg(s, leg) == [s EXCEPT !.pinned_leg = leg, !.pins = @ + 1]

Unpin(s) == [s EXCEPT !.pins = IF @ > 0 THEN @ - 1 ELSE 0]

\* Mutant of UnpinLeg: a leg that pinned nothing takes back the pin of a read.
UnpinAnyLeg(s, leg) == Unpin([s EXCEPT !.pinned_leg = NoLeg])

UnpinLeg(s, leg) ==
    IF s.pinned_leg = leg THEN Unpin([s EXCEPT !.pinned_leg = NoLeg]) ELSE s

\* What a leg does to take the coverage it works on.
TakeForLeg(s, leg) ==
    PinForLeg([s EXCEPT !.coverage = TakeCoverage(@, leg.epoch)], leg)

RetireRegistryParks(s) == [s EXCEPT !.identity = FALSE, !.duplicate = FALSE]

\* Mutant of ParkIdentityRefusal: the trust stands over the park.
ParkIdentityQuietly(s) == [s EXCEPT !.identity = TRUE]

ParkIdentityRefusal(s) == SetTrust([s EXCEPT !.identity = TRUE], "Untrusted")

----------------------------------------------------------------------------
(* Scheduling                                                              *)

ReleaseGate(s)     == [s EXCEPT !.claim = Release(@)]
InvalidateClaim(s) == [s EXCEPT !.claim = Invalidate(@)]
OpenClaim(s)       == [s EXCEPT !.claim = OpenGate(@)]
ScheduleJob(s, kind) == [s EXCEPT !.claim = Schedule(@, kind)]
HandOnTo(s, kind)    == [s EXCEPT !.claim = HandOn(@, kind)]

\* The rung of the ladder an entry owes whoever demands it.
OwedBy(s) ==
    IF ~InHandOf(s) THEN "Attach"
    ELSE IF s.rebuild_required THEN "Rebuild"
    ELSE IF s.recovery_required THEN "Recover"
    ELSE "Reconcile"

ScheduleDemand(s) ==
    LET work == OwedBy(s)
        published == IF work \in {"Attach", "Recover"} THEN SetTrust(s, "Installing")
                     ELSE IF work = "Reconcile" THEN PublishPendingReconcile(s)
                     ELSE s
    IN  ScheduleJob(published, work)

CanScheduleDemandedWork(s) ==
    /\ s.leases > 0
    /\ Schedulable(s)
    /\ s.recovery_required => RecoveryDemanded(s)
    /\ ~StandsParked(s)

ScheduleDemandedWork(s) ==
    IF CanScheduleDemandedWork(s) THEN ScheduleDemand(s) ELSE s

\* Mutant of CanScheduleDueDetach: an entry that owes a rung is never reaped.
CanScheduleDueDetachOfHealed(s) ==
    /\ s.detach_due /\ InHandOf(s) /\ s.leases = 0 /\ ~Pinned(s)
    /\ ~IsHeld(s.claim) /\ ~OwesARung(s)

CanScheduleDueDetach(s) ==
    /\ s.detach_due
    /\ InHandOf(s)
    /\ s.leases = 0
    /\ ~Pinned(s)
    /\ ~IsHeld(s.claim)

ScheduleDueDetach(s) ==
    IF CanScheduleDueDetach(s)
    THEN ScheduleJob([s EXCEPT !.detach_scheduled = TRUE], "Detach")
    ELSE s

CanPublishDamage(s) ==
    /\ s.damage
    /\ ~IsHeld(s.claim)
    /\ InHandOf(s)
    /\ ~s.detach_in_flight
    /\ ~StandsParked(s)

TakeDamage(s) == WithdrawTrustForDamage([s EXCEPT !.damage = FALSE])

\* A read that met damage schedules the work, or leaves the damage for later.
PublishDamage(s) == IF CanPublishDamage(s) THEN ScheduleDemand(TakeDamage(s)) ELSE s

\* The order a finished leg asks in: the first that schedules ends the asking.
PublishDamageOrDemandedWork(s) ==
    IF CanPublishDamage(s) THEN PublishDamage(s) ELSE ScheduleDemandedWork(s)

----------------------------------------------------------------------------
(* Demand                                                                  *)

\* Mutant of RecordDemand: a detach already scheduled is left standing.
RecordDemandAlone(s, asksForRecovery) ==
    [s EXCEPT !.leases = @ + 1, !.detach_due = FALSE,
              !.recovery_demands =
                  IF asksForRecovery /\ s.recovery_required THEN @ + 1 ELSE @]

\* A live lease ends the idle count, and takes back a detach not yet under way.
RecordDemand(s, asksForRecovery) ==
    LET asked == [s EXCEPT
            !.leases = @ + 1,
            !.recovery_demands =
                IF asksForRecovery /\ s.recovery_required THEN @ + 1 ELSE @,
            !.detach_due = FALSE]
    IN  IF s.detach_scheduled /\ ~s.detach_in_flight
        THEN [OpenClaim(InvalidateClaim(asked)) EXCEPT !.detach_scheduled = FALSE]
        ELSE asked

\* asking says whether the lease still counts as a demand for recovery.
GiveBackDemand(s, asking) ==
    [s EXCEPT
        !.leases = @ - 1,
        !.recovery_demands = IF asking THEN @ - 1 ELSE @,
        !.detach_due = @ /\ s.leases # 1]

----------------------------------------------------------------------------
(* Releasing coverage                                                      *)

\* Mutant of BeginRelease: the window opens and the trust stands.
BeginReleaseQuietly(s) == [CloseReader(OpenClaim(s)) EXCEPT !.detach_in_flight = TRUE]

BeginRelease(s) ==
    SetTrust([CloseReader(OpenClaim(s)) EXCEPT !.detach_in_flight = TRUE], "Releasing")

\* Mutant of EndRelease: a window opened over a leg since superseded stays open.
EndReleaseOfStanding(s, epoch) ==
    IF StandsAtEpoch(s, epoch)
    THEN SetTrust(ClearRungs(ClearPending([s EXCEPT
             !.claim = OpenGate(EndLeg(@, epoch)), !.coverage = ReleasedBy(@, epoch),
             !.detach_in_flight = FALSE, !.detach_due = FALSE,
             !.detach_scheduled = FALSE])), "Unattached")
    ELSE [s EXCEPT !.coverage = ReleasedBy(@, epoch)]

\* The end of a release, once the attachment has gone back to the ops.
EndRelease(s, epoch) ==
    LET ended == [s EXCEPT
            !.claim = OpenGate(EndLeg(@, epoch)),
            !.coverage = ReleasedBy(@, epoch),
            !.detach_in_flight = FALSE, !.detach_due = FALSE, !.detach_scheduled = FALSE]
    IN  SetTrust(ClearRungs(ClearPending(ended)), "Unattached")

\* Whether the lease standing on a released entry is owed a new attach.
ReattachOwed(s) ==
    /\ s.leases > 0
    /\ s.recovery_required => RecoveryDemanded(s)
    /\ ~StandsParked(s)

\* The attach is handed on and its queue slot taken under the same hold.
Reattach(s) ==
    LET next == HandOnTo(SetTrust(s, "Installing"), "Attach")
    IN  [next EXCEPT !.claim = TakeSlot(@, next.claim.epoch)]

\* One alias of a conflict: park it, and take from it what it holds.
RefuseConflict(s) ==
    LET refused == [ClearRungs(ClearPending(InvalidateClaim(s))) EXCEPT
                        !.identity = FALSE, !.duplicate = TRUE]
        opened  == OpenClaim(refused)
    IN  IF s.detach_in_flight THEN refused
        ELSE IF InHandOf(s)
        THEN BeginRelease([opened EXCEPT
                 !.coverage = TakeCoverage(@, opened.claim.epoch),
                 !.claim = EndRunningLeg(@)])
        ELSE IF OutWithLeg(s.coverage) \/ Running(s.claim)
        THEN BeginRelease(opened)
        ELSE SetTrust(opened, "Unattached")

\* Give the entry's coverage back without a release window over a leg.
GiveBackCoverage(s) ==
    LET refused == CloseReader(ClearRebuild(InvalidateClaim(s)))
    IN  IF InHandOf(s)
        THEN [OpenClaim(refused) EXCEPT
                 !.coverage = TakeCoverage(@, refused.claim.epoch),
                 !.claim = EndRunningLeg(@),
                 !.detach_in_flight = TRUE]
        ELSE IF ~Running(s.claim) /\ ~s.detach_in_flight
        THEN OpenClaim(refused)
        ELSE refused

\* What an identity refusal settles of the entry before its coverage goes back.
IdentityRefused(s) == ParkIdentityRefusal(RequireRecovery(Merge(s, "rescan")))

\* Mutant of EndGiveBack: the custody that was given back is left standing.
EndGiveBackOut(s, epoch) == ScheduleDemandedWork([s EXCEPT !.detach_in_flight = FALSE])

EndGiveBack(s, epoch) ==
    ScheduleDemandedWork(
        [s EXCEPT !.coverage = ReleasedBy(@, epoch), !.detach_in_flight = FALSE])
=============================================================================
