--------------------------- MODULE EntryLifecycle ---------------------------
(***************************************************************************)
(* One vault entry of the norn host, and the threads that work on it       *)
(* (norn-host/src/lifecycle.rs): the workers that run the jobs of the      *)
(* bounded channel, the dispatcher that polls the watcher, reaps the idle  *)
(* entry and sends what is marked, and the registrar, which stands for     *)
(* every other thread that refuses this entry its root: a registration     *)
(* change, or an attach of another name that reaches the same root.        *)
(*                                                                         *)
(* One action is one hold of the entry's gate, with everything the code    *)
(* does under that hold; what a thread does between two holds (a call into *)
(* the ops, giving an attachment back) lies between two actions, where any *)
(* other thread may act.  A thread carries what its call stack holds: the  *)
(* leg it runs, the attachment it has in hand, the job it is to send.      *)
(*                                                                         *)
(* The channel is shared with every other vault, so a send may find it     *)
(* full at any time.  What the environment may do is capped by two         *)
(* budgets: MaxDemands leases asked for, MaxEvents watcher facts, failures *)
(* of the ops, refusals, unwinds and maintenance falling due.              *)
(***************************************************************************)
EXTENDS EntryState, Sequences, FiniteSets

CONSTANTS Workers, Dispatcher, Registrar, MaxDemands, MaxEvents

ASSUME ThreadsAssumption ==
    /\ Dispatcher \notin Workers
    /\ Registrar \notin Workers \cup {Dispatcher}
ASSUME BudgetsAssumption == MaxDemands \in Nat /\ MaxEvents \in Nat

Threads == Workers \cup {Dispatcher, Registrar}

VARIABLES
    entry,      \* the state behind the entry's gate
    thread,     \* what each thread holds between two holds of the gate
    queue,      \* the jobs of this entry in the channel, oldest first
    sends,      \* marked jobs taken off the gate and not yet in the channel
    reads,      \* reads pinning the entry's coverage
    underived,  \* watcher facts taken in and not yet derived into the store
    demands,    \* budget spent on leases
    events      \* budget spent on everything else the environment does

vars == <<entry, thread, queue, sends, reads, underived, demands, events>>

Pcs == {"idle", "received", "begun", "working", "polling", "stale", "handing",
        "sending", "ending", "closing", "releasing", "returning", "classifying",
        "losing", "departing", "unwound", "reclaiming", "reclaimed", "refusing"}

\* What a thread runs: a job, or a poll of the watcher.
Work == [kind : JobKinds \cup {"none", "Poll"}, epoch : Nat]

\* job: the work; held: an attachment in hand, or being built; next: the job the
\* leg hands on; followup: the job being sent; rel: the epoch a release or a
\* give-back ends; lost: the epoch a moved root was lost at; after: where the
\* thread goes once its send or its release is over.
ThreadStates ==
    [pc : Pcs, job : Work, held : BOOLEAN, next : Jobs \cup {NoJob},
     followup : Jobs \cup {NoJob}, rel : Nat, lost : Nat, after : Pcs]

Idle == [pc |-> "idle", job |-> NoJob, held |-> FALSE, next |-> NoJob,
         followup |-> NoJob, rel |-> 0, lost |-> 0, after |-> "idle"]

TypeOK ==
    /\ entry \in Entries
    /\ thread \in [Threads -> ThreadStates]
    /\ queue \in Seq(Jobs)
    /\ sends \in SUBSET Jobs
    /\ reads \in Nat
    /\ underived \in BOOLEAN
    /\ demands \in 0..MaxDemands
    /\ events \in 0..MaxEvents

Init ==
    /\ entry = Unattached(0)
    /\ thread = [t \in Threads |-> Idle]
    /\ queue = <<>>
    /\ sends = {}
    /\ reads = 0
    /\ underived = FALSE
    /\ demands = 0
    /\ events = 0

----------------------------------------------------------------------------
(* Threads                                                                 *)

At(t, pc)   == thread[t].pc = pc
EpochOf(t)  == thread[t].job.epoch
KindOf(t)   == thread[t].job.kind
Stands(t)   == StandsAtEpoch(entry, EpochOf(t))

\* The leg a thread runs under, as the claim registers it.
LegOf(t) == IF KindOf(t) = "Poll" THEN PollLeg(EpochOf(t)) ELSE JobLeg(EpochOf(t))

\* The thread moves to pc, with or without its attachment.
Moved(r, pc, held) ==
    IF pc = "idle" THEN Idle ELSE [r EXCEPT !.pc = pc, !.held = held, !.after = "idle"]
Goes(t, pc, held) == thread' = [thread EXCEPT ![t] = Moved(@, pc, held)]
Rests(t) == thread' = [thread EXCEPT ![t] = Idle]
\* The thread is done with a send or a release.
Resumes(t) ==
    thread' = [thread EXCEPT ![t] =
        Moved([@ EXCEPT !.followup = NoJob, !.rel = 0], @.after, FALSE)]

\* A worker past its job runs end_job_leg; the others have nothing more to do.
Over(t) == IF t \in Workers THEN "ending" ELSE "idle"

\* The thread has next to send through dispatch_handoff, or nothing.
HandsOn(t, next) ==
    thread' = [thread EXCEPT ![t] =
        [@ EXCEPT !.pc = IF next = NoJob THEN "ending" ELSE "handing",
                  !.held = FALSE, !.next = next]]

\* finish_release at epoch, then after.
GoesReleasing(t, held, epoch, after) ==
    thread' = [thread EXCEPT ![t] =
        [@ EXCEPT !.pc = "releasing", !.held = held, !.rel = epoch, !.after = after]]

\* The environment spends one of its events.
Event == events < MaxEvents /\ events' = events + 1
NoEvent == UNCHANGED events

\* A batch the ops hand over: facts are news of the vault, and cost an event.
Observes(batch) == IF batch = "none" THEN NoEvent ELSE Event

Channel == <<queue, sends>>
Client  == <<reads, demands>>

----------------------------------------------------------------------------
(* Refusals of the root, which any thread may meet or make                 *)

\* refuse_conflict, from a thread that then goes to after: an entry that holds
\* its own coverage is released by the refusing thread itself.
MeetsConflict(t, held, after) ==
    /\ entry' = RefuseConflict(entry)
    /\ IF InHandOf(entry) /\ ~entry.detach_in_flight
       THEN GoesReleasing(t, TRUE, entry.claim.epoch + 1, after)
       ELSE Goes(t, after, held)

\* give_back_entry_coverage over state s, likewise.
MeetsGiveBack(s, t, held, after) ==
    /\ entry' = GiveBackCoverage(s)
    /\ IF InHandOf(s)
       THEN thread' = [thread EXCEPT ![t] =
                [@ EXCEPT !.pc = "returning", !.held = TRUE,
                          !.rel = s.claim.epoch + 1, !.after = after]]
       ELSE Goes(t, after, held)

\* refuse_identity_error.
MeetsIdentityRefusal(s, t, held, after) ==
    MeetsGiveBack(IdentityRefused(s), t, held, after)

----------------------------------------------------------------------------
(* A worker takes a job                                                    *)

\* Workers share one receiver, and then each takes the gate of the entry.
Receive(w) ==
    /\ At(w, "idle")
    /\ queue # <<>>
    /\ thread' = [thread EXCEPT ![w] = [Idle EXCEPT !.pc = "received", !.job = Head(queue)]]
    /\ queue' = Tail(queue)
    /\ UNCHANGED <<entry, sends, underived, events, Client>>

\* A job the entry has moved on from does nothing but drop its own marker.
ReceiveStale(w) ==
    /\ At(w, "received")
    /\ ~Stands(w)
    /\ LET freed == FreeSlot(entry.claim, EpochOf(w))
       IN  entry' = [entry EXCEPT !.claim =
               IF freed.marker.epoch = EpochOf(w) THEN DropMarker(freed) ELSE freed]
    /\ Rests(w)
    /\ UNCHANGED <<underived, events, Channel, Client>>

BeginLeg(w) ==
    /\ At(w, "received")
    /\ Stands(w)
    /\ entry' = [entry EXCEPT !.claim = BeginJobLeg(FreeSlot(@, EpochOf(w)), EpochOf(w))]
    /\ Goes(w, "begun", FALSE)
    /\ UNCHANGED <<underived, events, Channel, Client>>

\* The entry moved on between the leg's registration and its first hold.
BegunStale(w) ==
    /\ At(w, "begun")
    /\ KindOf(w) # "Attach"
    /\ ~Stands(w)
    /\ Goes(w, "ending", FALSE)
    /\ UNCHANGED <<entry, underived, events, Channel, Client>>

----------------------------------------------------------------------------
(* Attach                                                                  *)

\* An attach reads where its root stands, and calls the ops with no hold: what
\* they build is the worker's until it is installed.
BeginAttach(w) ==
    /\ At(w, "begun")
    /\ KindOf(w) = "Attach"
    /\ Goes(w, "working", TRUE)
    /\ UNCHANGED <<entry, underived, events, Channel, Client>>

\* The root refuses its identity, before the attach or after it.
AttachRefused(w) ==
    /\ KindOf(w) = "Attach"
    /\ \/ At(w, "begun") /\ entry' = IF Stands(w)
                                     THEN ParkIdentityRefusal(ReleaseGate(entry))
                                     ELSE entry
       \/ At(w, "working") /\ entry' = IF Stands(w)
              THEN ParkIdentityRefusal([ReleaseGate(entry) EXCEPT !.damage = FALSE])
              ELSE entry
    /\ Event
    /\ Goes(w, "ending", FALSE)
    /\ UNCHANGED <<underived, Channel, Client>>

\* The root is reached under another name too, before the attach or after it.
AttachConflict(w) ==
    /\ KindOf(w) = "Attach"
    /\ At(w, "begun") \/ At(w, "working")
    /\ Event
    /\ MeetsConflict(w, FALSE, "ending")
    /\ UNCHANGED <<underived, Channel, Client>>

\* The name reached one root before the attach and another after it: what was
\* built, if anything was, covers neither, and the leg's end gives it back.
AttachMoved(w) ==
    /\ At(w, "working")
    /\ KindOf(w) = "Attach"
    /\ Event
    /\ entry' = IF Stands(w) THEN BeginRelease(entry) ELSE entry
    /\ \E built \in BOOLEAN : Goes(w, "ending", built)
    /\ UNCHANGED <<underived, Channel, Client>>

AttachStale(w) ==
    /\ At(w, "working")
    /\ KindOf(w) = "Attach"
    /\ ~Stands(w)
    /\ \E built \in BOOLEAN : Goes(w, "ending", built)
    /\ UNCHANGED <<entry, underived, events, Channel, Client>>

\* What every completed attach does before it decides on the entry's trust.
Attached(s, observed, minted) ==
    [ClearRungs(InstallCoverage(Merge(ReleaseGate(s), observed), minted)) EXCEPT
        !.identity = FALSE, !.duplicate = FALSE, !.contended = FALSE]

\* The attach of an entry that is still where the worker found it.
AttachSucceeds(w) ==
    /\ At(w, "working")
    /\ KindOf(w) = "Attach"
    /\ Stands(w)
    /\ \E observed \in Batches, minted \in BOOLEAN :
        LET attached == Attached(entry, observed, minted) IN
        /\ Observes(observed)
        /\ underived' = (observed # "none")
        /\ IF entry.damage
           THEN /\ entry' = HandOnTo(TakeDamage(attached), "Rebuild")
                /\ HandsOn(w, HandedOn(attached.claim, "Rebuild"))
           ELSE IF attached.pending = "none"
           THEN /\ entry' = SetTrust(attached, "Ready")
                /\ HandsOn(w, NoJob)
           ELSE /\ entry' = HandOnTo(PublishPendingReconcile(attached), "Reconcile")
                /\ HandsOn(w, HandedOn(attached.claim, "Reconcile"))
    /\ UNCHANGED <<Channel, Client>>

\* The vault attached, and the ops withhold trust in it until it changes.
AttachWithheld(w) ==
    /\ At(w, "working")
    /\ KindOf(w) = "Attach"
    /\ Stands(w)
    /\ Event
    /\ \E tookInAFact, minted \in BOOLEAN :
        LET observed == IF tookInAFact THEN "facts" ELSE "none" IN
        /\ entry' = [WithholdTrust(Attached(entry, observed, minted), tookInAFact)
                        EXCEPT !.damage = entry.damage]
        /\ underived' = tookInAFact
    /\ HandsOn(w, NoJob)
    /\ UNCHANGED <<Channel, Client>>

\* How the ops fail a job: the maintainer lock is lost, or another process has
\* it; the watcher ended, with its root or without; the environment refused;
\* the store is damaged.
Failures == {"lost", "contended", "terminal", "moved", "environmental", "damaged"}

\* Damage a read met meanwhile goes with the build it was met in.
FailedAttach(s, failure) ==
    LET let_go == [ReleaseGate(s) EXCEPT !.damage = FALSE] IN
    CASE failure = "contended" -> SetTrust([let_go EXCEPT !.contended = TRUE], "Unattached")
      [] failure = "lost"      -> SetTrust(ClearPending(let_go), "Unattached")
      [] OTHER                 -> SetTrust(let_go, "Untrusted")

AttachFails(w) ==
    /\ At(w, "working")
    /\ KindOf(w) = "Attach"
    /\ Stands(w)
    /\ Event
    /\ \E failure \in Failures : entry' = FailedAttach(entry, failure)
    /\ HandsOn(w, NoJob)
    /\ UNCHANGED <<underived, Channel, Client>>

----------------------------------------------------------------------------
(* The first hold of a leg that works on the entry's coverage              *)

\* A claim lost before the leg took anything: where a read pins the coverage
\* the job is marked again, and otherwise the gate is let go.
RestoreLostClaim(s, job) ==
    IF Pinned(s) THEN [s EXCEPT !.claim = Restore(@, job)] ELSE OpenClaim(s)

CoverageJobs == {"Recover", "Rebuild", "Reconcile", "Maintenance"}

LosesClaim(w) ==
    /\ At(w, "begun")
    /\ KindOf(w) \in CoverageJobs
    /\ Stands(w)
    /\ ~InHandOf(entry)
    /\ entry' = RestoreLostClaim(entry, thread[w].job)
    /\ Goes(w, "ending", FALSE)
    /\ UNCHANGED <<underived, events, Channel, Client>>

\* A reconcile takes the pending facts as its work, and an entry it finds ready
\* heals while it runs.
TakeFacts(s) ==
    LET taken == ClearPending(s) IN
    IF s.trust \in Warm \cup Distrust THEN taken ELSE SetTrust(taken, "Healing")

TakesCoverage(w) ==
    /\ At(w, "begun")
    /\ KindOf(w) \in CoverageJobs
    /\ Stands(w)
    /\ InHandOf(entry)
    /\ LET taken == TakeForLeg(entry, LegOf(w))
       IN  entry' = IF KindOf(w) = "Reconcile" THEN TakeFacts(taken) ELSE taken
    /\ Goes(w, "working", TRUE)
    /\ UNCHANGED <<underived, events, Channel, Client>>

\* A recover reads where its root stands before it takes the coverage.
RecoverRefusedAtOnce(w) ==
    /\ At(w, "begun")
    /\ KindOf(w) = "Recover"
    /\ Event
    /\ MeetsConflict(w, FALSE, "ending") \/ MeetsIdentityRefusal(entry, w, FALSE, "ending")
    /\ UNCHANGED <<underived, Channel, Client>>

----------------------------------------------------------------------------
(* The end of a leg that works on the entry's coverage                     *)

Unpinned(w) == UnpinLeg(entry, LegOf(w))

\* A leg the entry has moved on from gives its coverage back and says nothing.
WorkedStale(w) ==
    /\ At(w, "working")
    /\ KindOf(w) \in CoverageJobs
    /\ ~Stands(w)
    /\ \/ entry' = Unpinned(w) /\ Goes(w, "ending", TRUE)
       \/ /\ KindOf(w) = "Rebuild"
          /\ entry' = [Unpinned(w) EXCEPT !.coverage = ReleasedBy(@, EpochOf(w))]
          /\ Goes(w, "ending", FALSE)
    /\ UNCHANGED <<underived, events, Channel, Client>>

\* A recover reads its root again after the work.  A refusal there is met once the
\* pin has gone back, in a hold of its own.
RecoverUnpins(w) ==
    /\ At(w, "working")
    /\ KindOf(w) = "Recover"
    /\ Event
    /\ entry' = Unpinned(w)
    /\ Goes(w, "refusing", TRUE)
    /\ UNCHANGED <<underived, Channel, Client>>

RecoverRefused(w) ==
    /\ At(w, "refusing")
    /\ \/ entry' = RefuseConflict(entry)
       \/ entry' = GiveBackCoverage(IdentityRefused(entry))
    /\ Goes(w, "ending", TRUE)
    /\ UNCHANGED <<underived, events, Channel, Client>>

\* A root that moved meanwhile ends the coverage at once.
RecoverFindsMoved(w) ==
    /\ At(w, "working")
    /\ KindOf(w) = "Recover"
    /\ Event
    /\ entry' = IF Stands(w) THEN BeginRelease(Unpinned(w)) ELSE Unpinned(w)
    /\ Goes(w, "ending", TRUE)
    /\ UNCHANGED <<underived, Channel, Client>>

\* The job schedule_due_detach schedules over s, if any.
DueDetach(s) ==
    IF CanScheduleDueDetach(s)
    THEN [kind |-> "Detach", epoch |-> s.claim.epoch + 1]
    ELSE NoJob

\* Mutants of LostSight: no recovery is owed; or the facts lost with the watcher
\* are not taken for a rescan.
LostSightOwingNothing(s, epoch) ==
    SetTrust(Merge(ReleaseGate(Park(s, epoch)), "rescan"), "Untrusted")
LostSightOfFacts(s, epoch) ==
    SetTrust(RequireRecovery(ReleaseGate(Park(s, epoch))), "Untrusted")

\* The coverage is parked, the entry owes a recovery, and its trust is gone.
LostSight(s, epoch) ==
    SetTrust(Merge(RequireRecovery(ReleaseGate(Park(s, epoch))), "rescan"), "Untrusted")

\* Losing the maintainer lock ends the coverage; damage hands on a rebuild; any
\* other failure leaves the coverage parked under a recovery.
TurnLosesLock(w) ==
    /\ At(w, "working")
    /\ KindOf(w) \in CoverageJobs \ {"Rebuild"}
    /\ Stands(w)
    /\ Event
    /\ \E contended \in BOOLEAN :
        entry' = BeginRelease([Unpinned(w) EXCEPT !.contended = @ \/ contended])
    /\ GoesReleasing(w, TRUE, EpochOf(w), "ending")
    /\ UNCHANGED <<underived, Channel, Client>>

TurnFails(w) ==
    /\ At(w, "working")
    /\ KindOf(w) \in CoverageJobs \ {"Rebuild"}
    /\ Stands(w)
    /\ Event
    /\ LET lost == LostSight(Unpinned(w), EpochOf(w)) IN
       /\ entry' = ScheduleDueDetach(lost)
       /\ \/ HandsOn(w, DueDetach(lost))
          \/ thread' = [thread EXCEPT ![w] =
                [@ EXCEPT !.pc = "classifying", !.held = FALSE, !.next = DueDetach(lost),
                          !.lost = entry'.claim.epoch]]
    /\ underived' = TRUE
    /\ UNCHANGED <<Channel, Client>>

TurnFindsDamage(w) ==
    /\ At(w, "working")
    /\ KindOf(w) \in CoverageJobs \ {"Rebuild"}
    /\ Stands(w)
    /\ Event
    /\ LET damaged == WithdrawTrustForDamage(Park(Unpinned(w), EpochOf(w))) IN
       /\ entry' = HandOnTo(damaged, "Rebuild")
       /\ HandsOn(w, HandedOn(damaged.claim, "Rebuild"))
    /\ UNCHANGED <<underived, Channel, Client>>

\* Damage a read met under the leg hands a rebuild on.
HandsOnDamage(w, s) ==
    /\ entry' = HandOnTo(TakeDamage(s), "Rebuild")
    /\ HandsOn(w, HandedOn(s.claim, "Rebuild"))

\* The leg hands on to a job of that kind over s.
HandsOnTo(w, s, kind) ==
    /\ entry' = HandOnTo(s, kind)
    /\ HandsOn(w, HandedOn(s.claim, kind))

\* Mutant of HandsOnDueDetach: a detach that fell due under the leg is left to the
\* next reap.
HandsOnDueDetachLater(w, s) ==
    /\ entry' = s
    /\ HandsOn(w, NoJob)

\* The leg ends over s, and sends the detach that is due if one is.
HandsOnDueDetach(w, s) ==
    /\ entry' = ScheduleDueDetach(s)
    /\ HandsOn(w, DueDetach(s))

----------------------------------------------------------------------------
(* Recover and Rebuild                                                     *)

\* saturated: the watcher still had facts when the leg stopped draining it.
Drains(observed, saturated) ==
    /\ Observes(observed)
    /\ saturated => observed # "none"

Recovered(w, observed, minted) ==
    ClearRecovery(ParkCoverage(Merge(ReleaseGate(Unpinned(w)), observed), EpochOf(w), minted))

RecoverSucceeds(w) ==
    /\ At(w, "working")
    /\ KindOf(w) = "Recover"
    /\ Stands(w)
    /\ \E observed \in Batches, saturated, minted \in BOOLEAN :
        LET s == Recovered(w, observed, minted) IN
        /\ Drains(observed, saturated)
        /\ underived' = (underived \/ observed # "none")
        /\ IF s.damage THEN HandsOnDamage(w, s)
           ELSE IF s.detach_due
           THEN HandsOnDueDetach(w,
                    PublishReadyWhereNothingIsLeft(
                        IF s.pending # "none" THEN PublishPendingReconcile(s) ELSE s,
                        saturated))
           ELSE IF s.pending = "none"
           THEN entry' = SetTrust(s, "Ready") /\ HandsOn(w, NoJob)
           ELSE HandsOnTo(w, s, "Reconcile")
    /\ UNCHANGED <<Channel, Client>>

Rebuilt(w, observed, minted) ==
    ClearRebuild(RemintCoverage(Merge(ReleaseGate(Unpinned(w)), observed), EpochOf(w), minted))

RebuildSucceeds(w) ==
    /\ At(w, "working")
    /\ KindOf(w) = "Rebuild"
    /\ Stands(w)
    /\ \E observed \in Batches, saturated, minted \in BOOLEAN :
        LET s == Rebuilt(w, observed, minted)
            published == PublishReadyWhereNothingIsLeft(
                IF s.pending # "none" THEN PublishPendingReconcile(s) ELSE s, saturated) IN
        /\ Drains(observed, saturated)
        /\ underived' = (observed # "none")
        /\ IF entry.damage THEN HandsOnDamage(w, s)
           ELSE IF s.detach_due THEN HandsOnDueDetach(w, published)
           ELSE IF s.pending # "none" THEN HandsOnTo(w, published, "Reconcile")
           ELSE entry' = published /\ HandsOn(w, NoJob)
    /\ UNCHANGED <<Channel, Client>>

\* The vault answered, and trust in it is withheld until it changes.
LegWithheld(w) ==
    /\ At(w, "working")
    /\ KindOf(w) \in {"Recover", "Rebuild"}
    /\ Stands(w)
    /\ Event
    /\ \E tookInAFact, minted \in BOOLEAN :
        LET observed == IF tookInAFact THEN "facts" ELSE "none"
            done == IF KindOf(w) = "Recover" THEN Recovered(w, observed, minted)
                    ELSE [Rebuilt(w, observed, minted) EXCEPT !.damage = entry.damage] IN
        /\ HandsOnDueDetach(w, WithholdTrust(done, tookInAFact))
        /\ underived' = (tookInAFact \/ (underived /\ KindOf(w) = "Recover"))
    /\ UNCHANGED <<Channel, Client>>

\* A rebuild that fails ends the coverage, whether or not it kept the attachment.
RebuildFails(w) ==
    /\ At(w, "working")
    /\ KindOf(w) = "Rebuild"
    /\ Stands(w)
    /\ Event
    /\ entry' = BeginRelease(Unpinned(w))
    /\ \E kept \in BOOLEAN : GoesReleasing(w, kept, EpochOf(w), "ending")
    /\ UNCHANGED <<underived, Channel, Client>>

----------------------------------------------------------------------------
(* Reconcile and Maintenance                                               *)

\* A reconcile that derived its work: the facts it met meanwhile stay pending.
Reconciled(w, observed) ==
    LET parked == Park(Merge(Unpinned(w), observed), EpochOf(w))
    IN  IF parked.pending # "none" THEN PublishPendingReconcile(parked) ELSE parked

\* maintenanceDue costs an event; a turn may not find it due for ever.
ReconcileSucceeds(w) ==
    /\ At(w, "working")
    /\ KindOf(w) = "Reconcile"
    /\ Stands(w)
    /\ \E observed \in Batches, saturated, maintenanceDue \in BOOLEAN :
        LET s == Reconciled(w, observed)
            published == PublishReadyWhereNothingIsLeft(s, saturated) IN
        /\ saturated => observed # "none"
        /\ IF observed # "none" \/ maintenanceDue THEN Event ELSE NoEvent
        /\ underived' = (s.pending # "none")
        /\ IF s.damage THEN HandsOnDamage(w, s)
           ELSE IF s.detach_due THEN HandsOnDueDetach(w, ReleaseGate(published))
           ELSE IF maintenanceDue /\ ~OwesARung(s) THEN HandsOnTo(w, published, "Maintenance")
           ELSE IF saturated THEN HandsOnTo(w, s, "Reconcile")
           ELSE IF s.pending = "none"
           THEN /\ entry' = ReleaseGate(IF OwesARung(s) THEN s ELSE SetTrust(s, "Ready"))
                /\ HandsOn(w, NoJob)
           ELSE entry' = s /\ Goes(w, "begun", FALSE)
    /\ UNCHANGED <<Channel, Client>>

\* A maintenance leg derives nothing of the vault's facts.
MaintenanceSucceeds(w) ==
    /\ At(w, "working")
    /\ KindOf(w) = "Maintenance"
    /\ Stands(w)
    /\ \E observed \in Batches, saturated, stillDue \in BOOLEAN :
        LET s == PublishReadyWhereNothingIsLeft(
                     ReleaseGate(Park(Merge(Unpinned(w), observed), EpochOf(w))), saturated) IN
        /\ saturated => observed # "none"
        /\ IF observed # "none" \/ stillDue THEN Event ELSE NoEvent
        /\ underived' = (underived \/ observed # "none")
        /\ IF s.damage THEN HandsOnDamage(w, s)
           ELSE IF s.detach_due THEN HandsOnDueDetach(w, s)
           ELSE IF s.pending # "none" THEN HandsOnTo(w, PublishPendingReconcile(s), "Reconcile")
           ELSE IF stillDue /\ ~OwesARung(s)
           THEN /\ entry' = ScheduleJob(s, "Maintenance")
                /\ HandsOn(w, HandedOn(s.claim, "Maintenance"))
           ELSE entry' = s /\ HandsOn(w, NoJob)
    /\ UNCHANGED <<Channel, Client>>

----------------------------------------------------------------------------
(* Detach                                                                  *)

BeginDetach(w) ==
    /\ At(w, "begun")
    /\ KindOf(w) = "Detach"
    /\ Stands(w)
    /\ entry' = BeginRelease([entry EXCEPT !.coverage = TakeCoverage(@, EpochOf(w))])
    /\ GoesReleasing(w, InHandOf(entry), EpochOf(w), "ending")
    /\ UNCHANGED <<underived, events, Channel, Client>>

----------------------------------------------------------------------------
(* Releases and give-backs, on whatever thread they fall to                *)

\* finish_release: the attachment goes back to the ops, the window closes, and
\* a lease still standing gets its attach from this thread.
FinishRelease(t) ==
    /\ At(t, "releasing")
    /\ LET released == EndRelease(entry, thread[t].rel)
           next == [kind |-> "Attach", epoch |-> released.claim.epoch + 1]
       IN  IF ReattachOwed(entry)
           THEN /\ entry' = Reattach(released)
                /\ thread' = [thread EXCEPT ![t] =
                      [@ EXCEPT !.pc = "sending", !.held = FALSE, !.rel = 0,
                                !.followup = next]]
           ELSE /\ entry' = released
                /\ Resumes(t)
    /\ UNCHANGED <<underived, events, Channel, Client>>

\* The end of give_back_entry_coverage.
ReturnCoverage(t) ==
    /\ At(t, "returning")
    /\ entry' = EndGiveBack(entry, thread[t].rel)
    /\ Resumes(t)
    /\ UNCHANGED <<underived, events, Channel, Client>>

\* dispatch_handoff: the leg ends and the slot is taken, then the job is sent.
HandOffTo(t) ==
    /\ At(t, "handing")
    /\ entry' = [entry EXCEPT !.claim = HandOff(@, EpochOf(t), thread[t].next)]
    /\ thread' = [thread EXCEPT ![t] =
          [@ EXCEPT !.pc = "sending", !.next = NoJob, !.followup = thread[t].next,
                    !.after = "ending"]]
    /\ UNCHANGED <<underived, events, Channel, Client>>

\* dispatch_followup: the channel takes the job,
SendFollowup(t) ==
    /\ At(t, "sending")
    /\ queue' = Append(queue, thread[t].followup)
    /\ Resumes(t)
    /\ UNCHANGED <<entry, sends, underived, events, Client>>

\* or is full, and the job is left as the entry's marker where it still stands.
RefuseFollowup(t) ==
    /\ At(t, "sending")
    /\ LET next  == thread[t].followup
           freed == FreeSlot(entry.claim, next.epoch)
       IN  entry' = [entry EXCEPT !.claim =
               IF StandsAt(freed, next.epoch) THEN Mark(freed, next) ELSE freed]
    /\ Resumes(t)
    /\ UNCHANGED <<underived, events, Channel, Client>>

----------------------------------------------------------------------------
(* end_job_leg                                                             *)

\* A release window over this leg is closed by the leg's end.
EndsByReleasing(w) ==
    /\ At(w, "ending")
    /\ entry.detach_in_flight /\ entry.claim.leg = JobLeg(EpochOf(w))
    /\ GoesReleasing(w, thread[w].held, EpochOf(w), "idle")
    /\ UNCHANGED <<entry, underived, events, Channel, Client>>

EndsByClosing(w) ==
    /\ At(w, "ending")
    /\ ~(entry.detach_in_flight /\ entry.claim.leg = JobLeg(EpochOf(w)))
    /\ Goes(w, "closing", thread[w].held)
    /\ UNCHANGED <<entry, underived, events, Channel, Client>>

\* Mutants of CloseLeg: a superseded leg leaves the gate shut; or a release window
\* opened over the leg is left to somebody else.
CloseLegShut(w) ==
    LET epoch == EpochOf(w)
        ended == [entry EXCEPT !.claim = EndJobLeg(@, epoch),
                               !.coverage = ReleasedBy(@, epoch)]
    IN  /\ At(w, "closing")
        /\ IF entry.claim.leg # JobLeg(epoch) THEN UNCHANGED entry /\ Rests(w)
           ELSE IF entry.detach_in_flight
           THEN entry' = ended /\ GoesReleasing(w, FALSE, epoch, "idle")
           ELSE entry' = PublishDamageOrDemandedWork(ended) /\ Rests(w)
        /\ UNCHANGED <<underived, events, Channel, Client>>
CloseLegUnderWindow(w) ==
    LET epoch == EpochOf(w)
        ended == [entry EXCEPT !.claim = EndJobLeg(@, epoch),
                               !.coverage = ReleasedBy(@, epoch)]
    IN  /\ At(w, "closing")
        /\ IF entry.claim.leg # JobLeg(epoch) THEN UNCHANGED entry
           ELSE IF ~Stands(w)
           THEN entry' = PublishDamageOrDemandedWork(ReleaseGate(ended))
           ELSE entry' = PublishDamage(ended)
        /\ Rests(w)
        /\ UNCHANGED <<underived, events, Channel, Client>>

\* What the leg held has gone back; a leg the claim still registers ends here,
\* and one the entry moved on from under it leaves its hold to what is owed.
CloseLeg(w) ==
    LET epoch == EpochOf(w)
        ended == [entry EXCEPT !.claim = EndJobLeg(@, epoch),
                               !.coverage = ReleasedBy(@, epoch)]
    IN  /\ At(w, "closing")
        /\ IF entry.claim.leg # JobLeg(epoch)
           THEN UNCHANGED entry /\ Rests(w)
           ELSE IF entry.detach_in_flight
           THEN entry' = ended /\ GoesReleasing(w, FALSE, epoch, "idle")
           ELSE IF ~Stands(w)
           THEN entry' = PublishDamageOrDemandedWork(ReleaseGate(ended)) /\ Rests(w)
           ELSE entry' = PublishDamage(ended) /\ Rests(w)
        /\ UNCHANGED <<underived, events, Channel, Client>>

----------------------------------------------------------------------------
(* A root read again: by the thread that lost it, and by the registrar     *)

AfterClassifying(t) == IF t = Registrar THEN "departing" ELSE "losing"

\* park_on_classification_under_gate: the root classifies clear, or is refused.
ClassifyClear(t) ==
    /\ At(t, "classifying")
    /\ Goes(t, AfterClassifying(t), FALSE)
    /\ UNCHANGED <<entry, underived, events, Channel, Client>>

ClassifyRefused(t) ==
    /\ At(t, "classifying")
    /\ Event
    /\ \/ MeetsConflict(t, FALSE, AfterClassifying(t))
       \/ MeetsIdentityRefusal(entry, t, FALSE, AfterClassifying(t))
    /\ UNCHANGED <<underived, Channel, Client>>

\* give_back_lost_coverage: coverage of a root that moved is given back, where
\* the entry still stands at the epoch it was lost at.
GiveBackLost(t) ==
    LET after == IF thread[t].next # NoJob THEN "handing" ELSE Over(t) IN
    /\ At(t, "losing")
    /\ IF StandsAtEpoch(entry, thread[t].lost)
       THEN MeetsGiveBack(entry, t, FALSE, after)
       ELSE UNCHANGED entry /\ Goes(t, after, FALSE)
    /\ UNCHANGED <<underived, events, Channel, Client>>

\* A registration changed, and this entry's root is refused for it.
RegistrarRefuses(r) ==
    /\ At(r, "idle")
    /\ Event
    /\ MeetsConflict(r, FALSE, "idle") \/ MeetsIdentityRefusal(entry, r, FALSE, "idle")
    /\ UNCHANGED <<underived, Channel, Client>>

\* reclassify_after_departure: another name of the root went away.
RegistrarReclassifies(r) ==
    /\ At(r, "idle")
    /\ entry.duplicate
    /\ Event
    /\ entry' = [entry EXCEPT !.duplicate = FALSE]
    /\ Goes(r, "classifying", FALSE)
    /\ UNCHANGED <<underived, Channel, Client>>

RegistrarSettles(r) ==
    /\ At(r, "departing")
    /\ entry' = ScheduleDemandedWork(entry)
    /\ Rests(r)
    /\ UNCHANGED <<underived, events, Channel, Client>>

----------------------------------------------------------------------------
(* Unwinds                                                                 *)

\* The ops panic under a leg: what the thread held goes with its stack.
Unwind(t) ==
    /\ At(t, "begun") \/ At(t, "working") \/ At(t, "polling")
    /\ Event
    /\ Goes(t, "unwound", FALSE)
    /\ UNCHANGED <<entry, underived, Channel, Client>>

\* reclaim_unwound_leg: a leg the claim still registers ends in a release.
Reclaim(t) ==
    LET unpinned == UnpinLeg(entry, LegOf(t)) IN
    /\ At(t, "unwound")
    /\ IF entry.claim.leg # LegOf(t)
       THEN entry' = unpinned /\ Rests(t)
       ELSE /\ entry' = BeginRelease([InvalidateClaim(unpinned) EXCEPT !.coverage = GiveUp(@)])
            /\ thread' = [thread EXCEPT ![t] =
                  [@ EXCEPT !.pc = "reclaiming", !.held = InHandOf(entry), !.rel = EpochOf(t)]]
    /\ UNCHANGED <<underived, events, Channel, Client>>

\* No attach is handed on from an unwind: the next demand asks for one.
FinishReclaim(t) ==
    /\ At(t, "reclaiming")
    /\ entry' = EndRelease(entry, thread[t].rel)
    /\ thread' = [thread EXCEPT ![t] = Moved([@ EXCEPT !.rel = 0], "reclaimed", FALSE)]
    /\ UNCHANGED <<underived, events, Channel, Client>>

WithdrawAfterReclaim(t) ==
    /\ At(t, "reclaimed")
    /\ entry' = IF entry.trust = "Unattached" /\ ~StandsParked(entry)
                THEN SetTrust(entry, "Untrusted") ELSE entry
    /\ Rests(t)
    /\ UNCHANGED <<underived, events, Channel, Client>>

----------------------------------------------------------------------------
(* The dispatcher: the idle reap, the watcher poll                         *)

\* No time is kept: an entry without a lease may be found idle at any tick.
Reap ==
    /\ At(Dispatcher, "idle")
    /\ entry.leases = 0
    /\ InHandOf(entry) \/ Pinned(entry)
    /\ entry' = ScheduleDueDetach([entry EXCEPT !.detach_due = TRUE])
    /\ UNCHANGED <<thread, underived, events, Channel, Client>>

BeginWatcherPoll ==
    /\ At(Dispatcher, "idle")
    /\ ~IsHeld(entry.claim)
    /\ InHandOf(entry)
    /\ LET leg == PollLeg(entry.claim.epoch) IN
       /\ entry' = [TakeForLeg(entry, leg) EXCEPT !.claim = BeginPoll(@, leg.epoch)]
       /\ thread' = [thread EXCEPT ![Dispatcher] =
             [Idle EXCEPT !.pc = "polling", !.job = leg, !.held = TRUE]]
    /\ UNCHANGED <<underived, events, Channel, Client>>

\* Mutant of PollSchedules: the reconcile a poll owes is left to a demand.
PollSchedulesOnDemand(s, owesReconcile) ==
    IF CanPublishDamage(s) THEN PublishDamage(s)
    ELSE IF CanScheduleDemandedWork(s) THEN ScheduleDemand(s)
    ELSE ScheduleDueDetach(s)

\* What a poll leaves over s: the first of these that schedules ends the asking.
PollSchedules(s, owesReconcile) ==
    IF owesReconcile THEN ScheduleJob(s, "Reconcile")
    ELSE IF CanPublishDamage(s) THEN PublishDamage(s)
    ELSE IF CanScheduleDemandedWork(s) THEN ScheduleDemand(s)
    ELSE ScheduleDueDetach(s)

PollStands == At(Dispatcher, "polling") /\ Stands(Dispatcher)
PollUnpinned == UnpinLeg(entry, LegOf(Dispatcher))

PollEnded(s) ==
    LET epoch == EpochOf(Dispatcher) IN Park([s EXCEPT !.claim = EndPoll(@, epoch)], epoch)

PollFindsNothing ==
    /\ PollStands
    /\ LET parked == PollEnded(PollUnpinned)
           owes == ~OwesARung(parked) /\ parked.pending # "none"
       IN  entry' = PollSchedules(IF owes THEN PublishPendingReconcile(parked) ELSE parked, owes)
    /\ Rests(Dispatcher)
    /\ UNCHANGED <<underived, events, Channel, Client>>

PollFindsFacts ==
    /\ PollStands
    /\ Event
    /\ \E batch \in Batches \ {"none"} :
        LET merged == Merge(PollUnpinned, batch)
            trusted == SetTrust(merged, IF batch = "rescan" THEN "Overflow" ELSE "Healing")
            owes == ~OwesARung(merged)
        IN  entry' = PollSchedules(PollEnded(IF owes THEN trusted ELSE merged), owes)
    /\ underived' = TRUE
    /\ Rests(Dispatcher)
    /\ UNCHANGED <<Channel, Client>>

PollLosesLock ==
    /\ PollStands
    /\ Event
    /\ \E contended \in BOOLEAN :
        entry' = BeginRelease([PollUnpinned EXCEPT !.contended = @ \/ contended,
                                                   !.claim = Supersede(@)])
    /\ GoesReleasing(Dispatcher, TRUE, EpochOf(Dispatcher), "idle")
    /\ UNCHANGED <<underived, Channel, Client>>

\* The watcher ended, with its root or without, or the environment refused: the
\* leases that asked for a recovery still ask for it.
PollFails ==
    /\ PollStands
    /\ Event
    /\ LET dropped == [PollUnpinned EXCEPT !.claim = DropMarker(@)]
           distrusted == SetTrust(Merge(RequireRecoveryKeepingDemands(dropped), "rescan"),
                                  "Untrusted")
       IN  entry' = PollSchedules(PollEnded(distrusted), FALSE)
    /\ underived' = TRUE
    /\ \/ Rests(Dispatcher)
       \/ thread' = [thread EXCEPT ![Dispatcher] =
             [Idle EXCEPT !.pc = "classifying", !.lost = entry'.claim.epoch]]
    /\ UNCHANGED <<Channel, Client>>

PollFindsDamage ==
    /\ PollStands
    /\ Event
    /\ LET dropped == [PollUnpinned EXCEPT !.claim = DropMarker(@)]
       IN  entry' = ScheduleJob(PollEnded(WithdrawTrustForDamage(dropped)), "Rebuild")
    /\ Rests(Dispatcher)
    /\ UNCHANGED <<underived, Channel, Client>>

\* A poll the entry has moved on from.
PollStale ==
    /\ At(Dispatcher, "polling")
    /\ ~Stands(Dispatcher)
    /\ entry' = PollUnpinned
    /\ Goes(Dispatcher, "stale", TRUE)
    /\ UNCHANGED <<underived, events, Channel, Client>>

\* A release window over this poll is closed by it; otherwise what it holds
\* goes back first.
StalePollGivesBack ==
    /\ At(Dispatcher, "stale")
    /\ IF entry.detach_in_flight /\ entry.claim.leg = LegOf(Dispatcher)
       THEN GoesReleasing(Dispatcher, TRUE, EpochOf(Dispatcher), "idle")
       ELSE Goes(Dispatcher, "closing", TRUE)
    /\ UNCHANGED <<entry, underived, events, Channel, Client>>

CloseStalePoll ==
    LET epoch == EpochOf(Dispatcher)
        released == [entry EXCEPT !.coverage = ReleasedBy(@, epoch)]
        registered == entry.claim.leg = PollLeg(epoch)
    IN  /\ At(Dispatcher, "closing")
        /\ IF registered /\ entry.detach_in_flight
           THEN entry' = released /\ GoesReleasing(Dispatcher, FALSE, epoch, "idle")
           ELSE /\ entry' = PublishDamageOrDemandedWork(
                        IF registered THEN [released EXCEPT !.claim = EndPoll(@, epoch)]
                        ELSE released)
                /\ Rests(Dispatcher)
        /\ UNCHANGED <<underived, events, Channel, Client>>

----------------------------------------------------------------------------
(* The send of a marked job: at once by who marked it, and again by every  *)
(* dispatcher tick                                                         *)

TakeMarked ==
    /\ MarkedIsFree(entry.claim)
    /\ sends' = sends \cup {entry.claim.marker}
    /\ entry' = [entry EXCEPT !.claim = TakeSlotForMarked(@)]
    /\ UNCHANGED <<thread, queue, underived, events, Client>>

SendMarked(job) ==
    /\ job \in sends
    /\ sends' = sends \ {job}
    /\ queue' = Append(queue, job)
    /\ UNCHANGED <<entry, thread, underived, events, Client>>

\* The channel is full: the marker stands, and the slot is free again.
RefuseMarked(job) ==
    /\ job \in sends
    /\ sends' = sends \ {job}
    /\ entry' = [entry EXCEPT !.claim = FreeSlot(@, job.epoch)]
    /\ UNCHANGED <<thread, queue, underived, events, Client>>

----------------------------------------------------------------------------
(* Demands, reads and maintenance                                          *)

Asks == demands < MaxDemands /\ demands' = demands + 1

\* demand_entry; retry is the one demand that withdraws a contended park first.
DemandEntry(retry) ==
    /\ Asks
    /\ LET asked    == RecordDemand(
                [entry EXCEPT !.contended = @ /\ ~retry], TRUE)
           settled  == IF asked.contended THEN asked ELSE RetireRegistryParks(asked)
       IN  entry' = IF Schedulable(asked) /\ ~StandsParked(settled)
                    THEN ScheduleDemand(settled) ELSE settled
    /\ UNCHANGED <<thread, reads, underived, events, Channel>>

\* begin_query_read: a read does not ask again for a recovery that waits for
\* the vault to change.
BeginQueryRead ==
    /\ Asks
    /\ LET asked == RecordDemand(entry, ~entry.awaits)
       IN  entry' = IF Schedulable(asked) /\ ~StandsParked(asked) /\ ~entry.awaits
                    THEN ScheduleDemand(asked) ELSE asked
    /\ UNCHANGED <<thread, reads, underived, events, Channel>>

\* A read on its lease finds the entry ready, and pins what it reads.
PinRead ==
    /\ entry.leases > reads
    /\ entry.trust = "Ready"
    /\ ~StandsParked(entry)
    /\ entry.reader \/ InHandOf(entry)
    /\ entry' = [entry EXCEPT !.reader = TRUE, !.pins = @ + 1]
    /\ reads' = reads + 1
    /\ UNCHANGED <<thread, underived, demands, events, Channel>>

EndRead ==
    /\ reads > 0
    /\ entry' = Unpin(entry)
    /\ reads' = reads - 1
    /\ UNCHANGED <<thread, underived, demands, events, Channel>>

DropLease(asking) ==
    /\ entry.leases > reads
    /\ IF asking THEN RecoveryDemanded(entry) ELSE entry.leases > entry.recovery_demands
    /\ entry' = GiveBackDemand(entry, asking)
    /\ UNCHANGED <<thread, underived, Channel, reads, demands, events>>

\* judge_damage_a_read_met, for a read on the handle the entry stands on.
ReadMeetsDamage ==
    /\ entry.leases > 0
    /\ entry.reader
    /\ ~entry.rebuild_required
    /\ ~StandsParked(entry)
    /\ Event
    /\ entry' = PublishDamage([entry EXCEPT !.damage = TRUE])
    /\ UNCHANGED <<thread, underived, Channel, Client>>

\* ask_entry, where maintenance is due.
AskMaintenance ==
    /\ InHandOf(entry)
    /\ ~entry.detach_in_flight
    /\ ~IsHeld(entry.claim)
    /\ ~entry.detach_due
    /\ ~OwesARung(entry)
    /\ Event
    /\ entry' = ScheduleJob(entry, "Maintenance")
    /\ UNCHANGED <<thread, underived, Channel, Client>>

----------------------------------------------------------------------------

WorkerStep(w) ==
    \/ Receive(w) \/ ReceiveStale(w) \/ BeginLeg(w) \/ BegunStale(w)
    \/ BeginAttach(w) \/ AttachRefused(w) \/ AttachConflict(w) \/ AttachMoved(w)
    \/ AttachStale(w) \/ AttachSucceeds(w) \/ AttachWithheld(w) \/ AttachFails(w)
    \/ LosesClaim(w) \/ TakesCoverage(w) \/ RecoverRefusedAtOnce(w)
    \/ WorkedStale(w) \/ RecoverUnpins(w) \/ RecoverRefused(w) \/ RecoverFindsMoved(w)
    \/ TurnLosesLock(w) \/ TurnFails(w) \/ TurnFindsDamage(w)
    \/ RecoverSucceeds(w) \/ RebuildSucceeds(w) \/ LegWithheld(w) \/ RebuildFails(w)
    \/ ReconcileSucceeds(w) \/ MaintenanceSucceeds(w) \/ BeginDetach(w)
    \/ HandOffTo(w) \/ EndsByReleasing(w) \/ EndsByClosing(w) \/ CloseLeg(w)

DispatcherStep ==
    \/ Reap \/ BeginWatcherPoll \/ PollFindsNothing \/ PollFindsFacts
    \/ PollLosesLock \/ PollFails \/ PollFindsDamage
    \/ PollStale \/ StalePollGivesBack \/ CloseStalePoll

RegistrarStep(r) ==
    RegistrarRefuses(r) \/ RegistrarReclassifies(r) \/ RegistrarSettles(r)

\* What falls to whichever thread met it.
AnyThreadStep(t) ==
    \/ FinishRelease(t) \/ ReturnCoverage(t) \/ SendFollowup(t) \/ RefuseFollowup(t)
    \/ ClassifyClear(t) \/ ClassifyRefused(t) \/ GiveBackLost(t)
    \/ Unwind(t) \/ Reclaim(t) \/ FinishReclaim(t) \/ WithdrawAfterReclaim(t)

MarkedStep == TakeMarked \/ \E job \in sends : SendMarked(job) \/ RefuseMarked(job)

ClientStep ==
    \/ \E retry \in BOOLEAN : DemandEntry(retry)
    \/ BeginQueryRead \/ PinRead \/ EndRead
    \/ \E asking \in BOOLEAN : DropLease(asking)
    \/ ReadMeetsDamage \/ AskMaintenance

Next ==
    \/ \E w \in Workers : WorkerStep(w)
    \/ DispatcherStep
    \/ RegistrarStep(Registrar)
    \/ \E t \in Threads : AnyThreadStep(t)
    \/ MarkedStep
    \/ ClientStep

Spec == Init /\ [][Next]_vars

\* What the host's threads promise.  A worker that has a job to do goes on with
\* it, and so does a thread that meets a release or a refusal.  The dispatcher
\* runs every step of its tick in the same order each time, so a poll under way
\* ends, and a reap or a send of what is marked that is possible again and again
\* is tried while it is possible.  The channel is not full for ever, because the
\* workers of the host go on emptying it.  Nothing is promised of clients, of the
\* watcher, of failures or of registrations.
FairSpec ==
    /\ Spec
    /\ \A w \in Workers : WF_vars(WorkerStep(w))
    /\ \A t \in Threads : WF_vars(AnyThreadStep(t))
    /\ WF_vars(RegistrarSettles(Registrar))
    /\ WF_vars(BeginWatcherPoll)
    /\ WF_vars(PollFindsNothing \/ PollStale \/ StalePollGivesBack \/ CloseStalePoll)
    /\ SF_vars(Reap)
    /\ WF_vars(TakeMarked)
    /\ SF_vars(\E job \in sends : SendMarked(job))
=============================================================================
