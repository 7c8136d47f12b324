--------------------------- MODULE EntryProperties ---------------------------
(***************************************************************************)
(* What makes the lifecycle of an entry correct: the safety properties,    *)
(* the action properties and the liveness properties the runs check.  The  *)
(* line numbers are those of norn-host/src/lifecycle.rs, or of             *)
(* lifecycle/claim.rs where the text says so.                              *)
(***************************************************************************)
EXTENDS EntryLifecycle, FiniteSetsExt

\* A thread between the first and the last hold of the leg it runs,
Runs(t) == ~At(t, "idle") /\ ~At(t, "received")

\* and one whose leg is the leg the claim registers.
Registered(t) == Runs(t) /\ entry.claim.leg = LegOf(t)

\* A thread that has an attachment to give back, and a window to close after it.
Closing(t) == At(t, "releasing") \/ At(t, "returning") \/ At(t, "reclaiming")

\* The jobs between the hold that issues them and the hold that begins them.
InFlight ==
    (Range(queue) \cup sends
     \cup {thread[t].followup : t \in Threads}
     \cup {thread[t].job : t \in {u \in Threads : At(u, "received")}}) \ {NoJob}

Current(job) == StandsAtEpoch(entry, job.epoch)

\* An attach under way has what the ops build for it before the entry says so.
Builds(t) ==
    /\ KindOf(t) = "Attach"
    /\ \/ thread[t].pc \in {"working", "ending", "closing"}
       \/ At(t, "releasing") /\ thread[t].rel = EpochOf(t)

----------------------------------------------------------------------------
(* Custody                                                                 *)

\* The custody an entry states is the custody there is.  It has at most one
\* attachment, parked in it, in the hands of one thread, or being built by one
\* (a second is a second watcher and a second maintainer lock over one store);
\* who has it in hand has it under the epoch the coverage names; and coverage
\* said to be out with a leg is out with a thread that will answer for it.
CustodyAccounts ==
    /\ Quantify(Threads, LAMBDA t : thread[t].held) + (IF InHandOf(entry) THEN 1 ELSE 0) <= 1
    /\ \A t \in Threads : thread[t].held /\ ~Builds(t) /\ ~At(t, "reclaiming") =>
           entry.coverage =
               OnLeg(IF At(t, "releasing") \/ At(t, "returning") THEN thread[t].rel ELSE EpochOf(t))
    /\ OutWithLeg(entry.coverage) =>
           \E t \in Threads : Runs(t) /\ entry.coverage.leg \in {EpochOf(t), thread[t].rel}

\* Every pin on the coverage is a read's or the running leg's, and the leg's pin
\* is given back by every end of the leg: a pin left over is an entry that is
\* never reaped (2242-2276).
PinsAccounted ==
    /\ entry.pins = reads + (IF entry.pinned_leg = NoLeg THEN 0 ELSE 1)
    /\ entry.pinned_leg # NoLeg =>
           \E t \in Threads : /\ LegOf(t) = entry.pinned_leg
                              /\ At(t, "working") \/ At(t, "polling") \/ At(t, "unwound")

\* A release under way has exactly one thread that will close it, or a leg whose
\* end will (4120-4141): with none the entry releases for ever, with two the
\* second closes a window opened since.
ReleaseHasOneCloser ==
    /\ entry.detach_in_flight => \E t \in Threads : Closing(t) \/ Registered(t)
    /\ Quantify(Threads, Closing) <= 1
    /\ \A t \in Threads : Closing(t) => entry.detach_in_flight

----------------------------------------------------------------------------
(* The gate, the leg and the queue slot                                    *)

\* A gate that is shut is shut for work that will open it: a leg that is
\* registered and lives, the marked job of the epoch the entry stands at, or
\* such a job on its way to a worker.  An entry whose gate is shut for nothing is
\* one no later work reaches.
GateAnswered ==
    /\ entry.claim.gate = "held" =>
           \/ \E t \in Threads : Registered(t)
           \/ \E job \in InFlight : Current(job)
           \/ \E t \in Threads : thread[t].next # NoJob /\ Current(thread[t].next)
    /\ entry.claim.gate = "scheduled" => Current(entry.claim.marker)
    /\ Running(entry.claim) => \E t \in Threads : Registered(t)

\* Nothing in the system names an epoch the entry has not reached, so every epoch
\* the claim moves on to is new: a job, a leg, a slot, a custody or a release that
\* belongs to an epoch left behind can never be taken for current work.
EpochsIssued ==
    /\ {entry.claim.marker.epoch, entry.claim.leg.epoch, entry.claim.slot,
        entry.coverage.leg, entry.pinned_leg.epoch} \subseteq 0..entry.claim.epoch
    /\ \A t \in Threads :
           {thread[t].job.epoch, thread[t].next.epoch, thread[t].followup.epoch,
            thread[t].rel, thread[t].lost} \subseteq 0..entry.claim.epoch
    /\ \A i \in DOMAIN queue : queue[i].epoch \in 0..entry.claim.epoch
    /\ \A job \in sends : job.epoch \in 0..entry.claim.epoch

\* No step of any thread moves the entry back to an epoch it has left: work that
\* has been superseded stays superseded, through releases and unwinds too.
SupersededStaysSuperseded == [][entry.claim.epoch' >= entry.claim.epoch]_vars

\* The job of the epoch the entry stands at is in one place only: in the channel,
\* in a send, or in the hands of the worker that runs it.  And a taken slot names
\* a job that is really on its way (claim.rs 211-224): a slot nothing will free
\* keeps every later job of the entry out of the channel.
SentOnce ==
    LET standing(t) ==
            \/ thread[t].followup # NoJob /\ Current(thread[t].followup)
            \/ /\ thread[t].pc \in {"received", "begun", "working", "polling", "refusing"}
               /\ Stands(t)
    IN  /\ SlotTaken(entry.claim) => \E job \in InFlight : job.epoch = entry.claim.slot
        /\ Quantify(DOMAIN queue, LAMBDA i : Current(queue[i]))
           + Quantify(sends, Current) + Quantify(Threads, standing) <= 1

\* A job beside its own marker is a job a dispatcher tick sends a second time
\* under the same epoch (claim.rs 1163-1166), so what is taken off the marker is
\* never a job that is already on its way.
MarkedJobIsNotSentTwice == [][TakeMarked => entry.claim.marker \notin InFlight]_vars

\* A detach begins over an entry no lease asks for and no read pins: a demand
\* that arrived since it was scheduled has taken it back (3316-3333; claim.rs
\* 383-388 says so of a read, and 486-492 the opposite).
NoDetachUnderDemand ==
    [][\A w \in Workers : BeginDetach(w) => entry.leases = 0 /\ ~Pinned(entry)]_vars

\* A detach that falls due over coverage in hand is never left over an open gate:
\* whatever opens the gate then, the end of any leg, a poll or a reap, schedules it in
\* the same hold (2968-2987 and its eighteen callers), and the last pin never goes
\* back after the last lease.  One left over would keep the entry from maintenance,
\* which asks for none while a detach is due (background.rs 300-304), and from rest.
DueDetachIsScheduled == entry.detach_due /\ InHandOf(entry) => IsHeld(entry.claim)

----------------------------------------------------------------------------
(* Trust                                                                   *)

\* An entry that answers reads has its coverage, owes no rung of the heal ladder,
\* stands on no park and is not being released; and no reader of its store
\* outlives the coverage, whatever it says of itself.
ReadySound ==
    /\ entry.trust = "Ready" =>
           /\ AccountedFor(entry.coverage)
           /\ ~OwesARung(entry)
           /\ ~StandsParked(entry)
           /\ ~entry.detach_in_flight
    /\ entry.reader => AccountedFor(entry.coverage) /\ ~entry.detach_in_flight

\* A fact of the vault the watcher gave up to the entry is not lost on any path
\* of failure, hand-on or overflow: until it is derived it is pending, or a rung
\* that reads the whole vault again is owed, or a reconcile is working on it, or
\* the coverage it came from is going.
FactsKept ==
    underived /\ AccountedFor(entry.coverage) =>
        \/ entry.pending # "none" \/ OwesARung(entry) \/ entry.detach_in_flight
        \/ \E t \in Threads : \/ At(t, "working") /\ KindOf(t) = "Reconcile"
                              \/ At(t, "unwound")

\* A read begins over no fact the entry knows it has not derived (docs/decisions
\* 0050, line 304).
ReadsServeNothingKnownStale == [][PinRead => entry.pending = "none"]_vars

----------------------------------------------------------------------------
(* The assertions of the code, where each is evaluated                     *)

\* claim.rs 646 and 2048: an attach installs over no coverage and no reader.
InstallsOverNothing ==
    \A w \in Workers : At(w, "working") /\ KindOf(w) = "Attach" /\ Stands(w) =>
        MayInstall(entry.coverage) /\ ~entry.reader

\* claim.rs 634: a leg parks its own coverage and no other's.
ParksItsOwn ==
    \A t \in Threads : (At(t, "working") \/ At(t, "polling")) /\ KindOf(t) # "Attach" /\ Stands(t) =>
        MayPark(entry.coverage, EpochOf(t))

\* 2257: one leg at a time pins the coverage it takes.
PinsOneLeg ==
    /\ \A w \in Workers : At(w, "begun") /\ KindOf(w) \in CoverageJobs /\ Stands(w)
            /\ InHandOf(entry) => entry.pinned_leg = NoLeg
    /\ At(Dispatcher, "idle") /\ ~IsHeld(entry.claim) /\ InHandOf(entry) =>
           entry.pinned_leg = NoLeg

\* 2901: covered work that owes no rung is a reconcile of facts there are.
ReconcileIsOwed ==
    InHandOf(entry) /\ ~OwesARung(entry) /\ Schedulable(entry) =>
        entry.trust \in {"Overflow", "Unattached"}

\* 3490 and 7676: what gives an attachment back has closed the reader over it.
GivesBackWithoutReader ==
    \A t \in Threads :
        At(t, "releasing") \/ At(t, "reclaiming") \/ (At(t, "closing") /\ thread[t].held) =>
            ~entry.reader

\* 4171: coverage out with a leg is out with the registered one, or in a release.
OutWithARegisteredLeg ==
    OutWithLeg(entry.coverage) => Running(entry.claim) \/ entry.detach_in_flight

\* What the code asserts in a debug build holds wherever it is asserted, in every
\* interleaving.
AssertionsHold ==
    /\ InstallsOverNothing
    /\ ParksItsOwn
    /\ PinsOneLeg
    /\ ReconcileIsOwed
    /\ GivesBackWithoutReader
    /\ OutWithARegisteredLeg

----------------------------------------------------------------------------
(* Liveness, under FairSpec                                                *)

\* A release under way ends.
WindowCloses == entry.detach_in_flight ~> ~entry.detach_in_flight

\* An entry said to be installing, healing or releasing does not stay so.
WarmingEnds == entry.trust \in Warm ~> entry.trust \notin Warm

\* Coverage nobody asks for is given back.
IdleDetaches ==
    (entry.leases = 0 /\ AccountedFor(entry.coverage))
        ~> (entry.leases > 0 \/ ~AccountedFor(entry.coverage))

\* A fact taken in is derived, unless a rung that waits for a demand is owed, or
\* the coverage it came from goes.
FactsDerived ==
    underived ~> (~underived \/ OwesARung(entry) \/ ~AccountedFor(entry.coverage))

\* A shut gate opens: no claim is left with nobody to end it.
GateOpens == IsHeld(entry.claim) ~> ~IsHeld(entry.claim)

----------------------------------------------------------------------------
(* The contract of the entry                                               *)

\* The phase of the contract is read off the release flag and the custody; the
\* entry serves while its trust is Ready and no park stands on it.
Contract == INSTANCE EntryContract WITH
    phase <- IF entry.detach_in_flight THEN "releasing"
             ELSE IF AccountedFor(entry.coverage) THEN "covered" ELSE "detached",
    serving <- entry.trust = "Ready" /\ ~StandsParked(entry),
    reads <- reads

\* The threads, jobs and epochs of the lifecycle implement the contract.
ImplementsContract == Contract!Spec

----------------------------------------------------------------------------
(* Two steps the theorems leave out                                        *)

\* A leg superseded between the hold that issued the job it hands on and the hold
\* that sends it takes the queue slot from whatever newer job holds it (claim.rs
\* 1172-1184).  Runs bounded by this constraint leave that one step out.
HandOffTakesAFreeSlot ==
    \A t \in Threads : At(t, "handing") /\ At(t, "sending")' => ~SlotTaken(entry.claim)

\* A demand that takes back a scheduled detach opens the gate, whatever holds it
\* (3327-3331).  What holds it is that detach, or the leg that has issued it and has
\* yet to hand it on, unless the coverage went back by another way since the detach
\* was scheduled, which leaves its flag standing (4276-4360).  The theorems of
\* custody and trust leave that step out; the runs of two demands do not reach it.
LeavesLegsBe ==
    entry.detach_scheduled /\ ~entry.detach_in_flight /\ ~entry'.detach_scheduled =>
        \A t \in Threads : Registered(t) /\ entry.claim.gate = "held" =>
            KindOf(t) = "Detach" \/ thread[t].next # NoJob

\* The lifecycle without these two steps.
SparingNext == Next /\ HandOffTakesAFreeSlot /\ LeavesLegsBe
SparingSpec == Init /\ [][SparingNext]_vars
=============================================================================
