----------------------- MODULE EntryLifecycle_proofs -----------------------
(***************************************************************************)
(* Theorems of the lifecycle of an entry, for any set of workers and any   *)
(* budgets: the types, that nothing names an epoch the entry has not       *)
(* reached, and that the entry never goes back to an epoch it has left.    *)
(*                                                                         *)
(* The three rest on one inductive invariant, Inv: TypeOK and EpochsIssued *)
(* arranged by who holds what.  The first part is about the moves of a     *)
(* claim, a coverage and an entry: every move keeps them well-formed and   *)
(* every epoch in them issued; a move of an entry either leaves the claim, *)
(* the custody and the leg that pins them alone, or stays at the entry's   *)
(* epoch, or goes one epoch on; and the queue slot stays with the job that *)
(* has it, or is given up, but for the few moves that take it.  Every      *)
(* action either changes the entry by such moves (Grows) or leaves it      *)
(* alone; what a thread keeps of an epoch is then still issued, and what   *)
(* it is given is the epoch just reached.                                  *)
(***************************************************************************)
EXTENDS EntryProperties, SequenceTheorems, TLAPS

----------------------------------------------------------------------------
(* The claim                                                               *)

\* A well-formed claim names no epoch past the one it stands at.
ClaimSound(c) ==
    /\ c \in Claims
    /\ c.marker.epoch \in 0..c.epoch
    /\ c.gate = "scheduled" => c.marker \in Jobs
    /\ c.leg.epoch \in 0..c.epoch
    /\ c.slot \in 0..c.epoch

\* A move of the claim that stays at its epoch, and one that goes on by one: both
\* leave the queue slot to the job that has it, or give it up.  And a move that
\* stays at its epoch, whatever it does with the slot.
SlotKept(c, r) == r.slot \in {c.slot, 0}
Stays(c, r)    == ClaimSound(r) /\ r.epoch = c.epoch /\ SlotKept(c, r)
GoesOn(c, r)   == ClaimSound(r) /\ r.epoch = c.epoch + 1 /\ SlotKept(c, r)
Lasts(c, r)    == ClaimSound(r) /\ r.epoch = c.epoch

LEMMA NothingTyped ==
    /\ NoJob.epoch = 0 /\ NoLeg.epoch = 0
    /\ NoJob \in Jobs \cup {NoJob} /\ NoLeg \in Legs \cup {NoLeg}
BY DEF NoJob, NoLeg

LEMMA ClaimEpochs ==
    ASSUME NEW c, ClaimSound(c)
    PROVE  /\ c.epoch \in Nat
           /\ c.marker \in Jobs \cup {NoJob} /\ c.marker.epoch \in Nat
           /\ c.leg \in Legs \cup {NoLeg} /\ c.leg.epoch \in Nat
BY DEF ClaimSound, Claims

LEMMA NewClaim == ASSUME NEW epoch \in Nat PROVE ClaimSound(StartingAt(epoch))
BY NothingTyped DEF ClaimSound, StartingAt, Claims

LEMMA SetGateStays ==
    ASSUME NEW c, ClaimSound(c), NEW gate \in {"open", "held"}
    PROVE  Stays(c, SetGate(c, gate))
<1> DEFINE r == SetGate(c, gate)
<1>1. r \in Claims
    BY NothingTyped DEF ClaimSound, SetGate, Claims
<1>2. /\ r.epoch = c.epoch /\ r.marker = NoJob /\ r.leg = c.leg /\ r.slot = c.slot
      /\ r.gate = gate /\ gate # "scheduled"
    BY DEF ClaimSound, SetGate, Claims
<1>3. 0 \in 0..c.epoch
    BY ClaimEpochs
<1> QED
    BY <1>1, <1>2, <1>3, NothingTyped DEF Stays, ClaimSound, SlotKept

LEMMA SetMarkerStays ==
    ASSUME NEW c, ClaimSound(c), NEW job \in Jobs, job.epoch <= c.epoch
    PROVE  Stays(c, SetMarker(c, job))
<1>1. job.epoch \in Nat
    BY DEF Jobs
<1> DEFINE r == SetMarker(c, job)
<1>2. r \in Claims
    BY DEF ClaimSound, SetMarker, Claims
<1>3. r.epoch = c.epoch /\ r.marker = job /\ r.leg = c.leg /\ r.slot = c.slot
    BY DEF ClaimSound, SetMarker, Claims
<1> QED
    BY <1>1, <1>2, <1>3, ClaimEpochs DEF Stays, ClaimSound, SlotKept

LEMMA SupersedeGoesOn == ASSUME NEW c, ClaimSound(c) PROVE GoesOn(c, Supersede(c))
<1>1. Supersede(c) \in Claims /\ Supersede(c).epoch = c.epoch + 1
    BY DEF ClaimSound, Supersede, Claims
<1>2. /\ Supersede(c).marker = c.marker /\ Supersede(c).leg = c.leg
      /\ Supersede(c).slot = c.slot /\ Supersede(c).gate = c.gate
    BY DEF ClaimSound, Supersede, Claims
<1> QED
    BY <1>1, <1>2, ClaimEpochs DEF GoesOn, ClaimSound, SlotKept

\* The gate moves.
LEMMA GateMovesStay ==
    ASSUME NEW c, ClaimSound(c)
    PROVE  /\ Stays(c, Hold(c)) /\ Stays(c, OpenGate(c)) /\ Stays(c, Release(c))
           /\ Stays(c, DropMarker(c))
<1>1. Stays(c, c)
    BY DEF Stays, SlotKept
<1> QED
    BY <1>1, SetGateStays DEF Hold, OpenGate, Release, DropMarker

LEMMA MarkerMovesStay ==
    ASSUME NEW c, ClaimSound(c), NEW job \in Jobs, job.epoch <= c.epoch
    PROVE  Stays(c, Mark(c, job)) /\ Stays(c, Restore(c, job))
<1>1. Stays(c, c)
    BY DEF Stays, SlotKept
<1> QED
    BY <1>1, SetMarkerStays DEF Mark, Restore

LEMMA ScheduleGoesOn ==
    ASSUME NEW c, ClaimSound(c), NEW kind \in JobKinds
    PROVE  GoesOn(c, Schedule(c, kind))
<1>1. GoesOn(c, Supersede(c))
    BY SupersedeGoesOn
<1>2. [kind |-> kind, epoch |-> c.epoch + 1] \in Jobs
    BY ClaimEpochs DEF Jobs
<1>3. Stays(Supersede(c), Schedule(c, kind))
    <2>1. ClaimSound(Supersede(c)) /\ Supersede(c).epoch = c.epoch + 1 /\ c.epoch \in Nat
        BY <1>1, ClaimEpochs DEF GoesOn, SlotKept
    <2> QED
        BY <2>1, <1>2, SetMarkerStays DEF Schedule
<1> QED
    BY <1>1, <1>3 DEF Stays, GoesOn, SlotKept

LEMMA HandOnGoesOn ==
    ASSUME NEW c, ClaimSound(c), NEW kind \in JobKinds
    PROVE  /\ GoesOn(c, HandOn(c, kind))
           /\ HandedOn(c, kind) \in Jobs
           /\ HandedOn(c, kind).epoch = c.epoch + 1
<1>1. GoesOn(c, Supersede(c))
    BY SupersedeGoesOn
<1>2. Stays(Supersede(c), HandOn(c, kind))
    BY <1>1, GateMovesStay DEF GoesOn, HandOn, SlotKept
<1>3. HandedOn(c, kind) \in Jobs /\ HandedOn(c, kind).epoch = c.epoch + 1
    BY ClaimEpochs DEF HandedOn, Jobs
<1> QED
    BY <1>1, <1>2, <1>3 DEF Stays, GoesOn, SlotKept

LEMMA SlotMovesStay ==
    ASSUME NEW c, ClaimSound(c), NEW epoch \in 0..c.epoch
    PROVE  /\ Stays(c, AbandonSlot(c)) /\ Stays(c, FreeSlot(c, epoch))
           /\ Lasts(c, TakeSlot(c, epoch)) /\ Lasts(c, TakeSlotForMarked(c))
           /\ TakeSlot(c, epoch).slot = epoch /\ TakeSlotForMarked(c).slot = c.marker.epoch
           /\ epoch # 0 => FreeSlot(c, epoch).slot # epoch
<1>1. ASSUME NEW slot \in 0..c.epoch
      PROVE  Lasts(c, [c EXCEPT !.slot = slot]) /\ [c EXCEPT !.slot = slot].slot = slot
    BY DEF Lasts, ClaimSound, Claims
<1>2. Stays(c, c) /\ 0 \in 0..c.epoch /\ c.marker.epoch \in 0..c.epoch
    BY ClaimEpochs DEF Stays, SlotKept, ClaimSound
<1>3. Stays(c, AbandonSlot(c)) /\ AbandonSlot(c).slot = 0
    BY <1>1, <1>2 DEF AbandonSlot, Stays, Lasts, SlotKept
<1> QED
    BY <1>1, <1>2, <1>3 DEF TakeSlot, FreeSlot, TakeSlotForMarked

\* The leg moves.
LEMMA LegMovesStay ==
    ASSUME NEW c, ClaimSound(c), NEW epoch \in 0..c.epoch
    PROVE  /\ Stays(c, EndRunningLeg(c)) /\ Stays(c, EndJobLeg(c, epoch))
           /\ Stays(c, EndLeg(c, epoch)) /\ Stays(c, EndPoll(c, epoch))
           /\ Stays(c, BeginPoll(c, epoch)) /\ Stays(c, BeginJobLeg(c, epoch))
<1>1. ASSUME NEW leg \in Legs \cup {NoLeg}, leg.epoch \in 0..c.epoch
      PROVE  Stays(c, [c EXCEPT !.leg = leg])
    BY <1>1 DEF Stays, ClaimSound, Claims, SlotKept
<1>2. Stays(c, c) /\ epoch \in Nat /\ 0 \in 0..c.epoch
    BY ClaimEpochs DEF Stays, ClaimSound, SlotKept
<1>3. PollLeg(epoch) \in Legs /\ PollLeg(epoch).epoch = epoch
    BY <1>2 DEF PollLeg, Legs, LegKinds
<1>4. JobLeg(epoch) \in Legs /\ JobLeg(epoch).epoch = epoch
    BY <1>2 DEF JobLeg, Legs, LegKinds
<1>5. Stays(c, EndRunningLeg(c)) /\ Stays(c, EndJobLeg(c, epoch)) /\ Stays(c, EndLeg(c, epoch))
    BY <1>1, <1>2, NothingTyped DEF EndRunningLeg, EndJobLeg, EndLeg
<1>6. Stays(c, EndPoll(c, epoch))
    BY <1>5, <1>2, GateMovesStay DEF EndPoll, Stays, SlotKept
<1>7. Stays(c, BeginPoll(c, epoch))
    BY <1>1, <1>3, SetGateStays DEF BeginPoll, Stays, SlotKept
<1>8. Stays(c, BeginJobLeg(c, epoch))
    BY <1>1, <1>4, SetGateStays DEF BeginJobLeg, Stays, SlotKept
<1> QED
    BY <1>5, <1>6, <1>7, <1>8

LEMMA InvalidateGoesOn == ASSUME NEW c, ClaimSound(c) PROVE GoesOn(c, Invalidate(c))
<1>1. GoesOn(c, Supersede(c))
    BY SupersedeGoesOn
<1>2. 0 \in 0..Supersede(c).epoch
    BY <1>1, ClaimEpochs DEF GoesOn, SlotKept
<1>3. Stays(Supersede(c), AbandonSlot(Supersede(c)))
    BY <1>1, <1>2, SlotMovesStay DEF GoesOn, SlotKept
<1>4. Stays(AbandonSlot(Supersede(c)), Invalidate(c))
    BY <1>3, GateMovesStay DEF Stays, Invalidate, SlotKept
<1> QED
    BY <1>1, <1>3, <1>4 DEF Stays, GoesOn, SlotKept

LEMMA HandOffLasts ==
    ASSUME NEW c, ClaimSound(c), NEW epoch \in 0..c.epoch,
           NEW job \in Jobs \cup {NoJob}, job.epoch \in 0..c.epoch
    PROVE  Lasts(c, HandOff(c, epoch, job)) /\ HandOff(c, epoch, job).slot = job.epoch
<1> DEFINE ended == EndJobLeg(c, epoch)
           gated == IF ended.gate = "scheduled" /\ ended.marker.epoch = job.epoch
                    THEN SetGate(ended, "held") ELSE ended
<1>1. Stays(c, ended)
    BY LegMovesStay
<1>2. Stays(c, gated)
    BY <1>1, SetGateStays DEF Stays, SlotKept
<1>3. Lasts(c, TakeSlot(gated, job.epoch)) /\ TakeSlot(gated, job.epoch).slot = job.epoch
    <2> HIDE DEF gated
    <2> QED
        BY <1>2, SlotMovesStay DEF Stays, Lasts, SlotKept
<1> QED
    BY <1>3 DEF HandOff

\* Every custody the moves of a coverage leave is none, parked, or out with the
\* epoch of the leg that takes it.
LEMMA CoverageMoves ==
    ASSUME NEW cov \in Coverages, NEW bound \in Nat, cov.leg <= bound, NEW epoch \in 0..bound
    PROVE  \A r \in {NoCoverage, Parked, TakeCoverage(cov, epoch), GiveUp(cov),
                     ReleasedBy(cov, epoch), ParkBy(cov, epoch)} :
               r \in Coverages /\ r.leg \in 0..bound
<1>1. cov.leg \in 0..bound /\ 0 \in 0..bound
    BY DEF Coverages
<1>2. /\ NoCoverage \in Coverages /\ NoCoverage.leg = 0
      /\ Parked \in Coverages /\ Parked.leg = 0
      /\ OnLeg(epoch) \in Coverages /\ OnLeg(epoch).leg = epoch
    BY DEF NoCoverage, Parked, OnLeg, Coverages
<1> QED
    BY <1>1, <1>2 DEF TakeCoverage, GiveUp, ReleasedBy, ParkBy

----------------------------------------------------------------------------
(* The entry                                                               *)

\* A well-formed entry names no epoch past the one its claim stands at.
Sound(s) ==
    /\ s \in Entries
    /\ ClaimSound(s.claim)
    /\ s.coverage.leg \in 0..s.claim.epoch
    /\ s.pinned_leg.epoch \in 0..s.claim.epoch

\* r differs from s in data alone.
Alike(s, r) ==
    /\ r \in Entries
    /\ r.claim = s.claim /\ r.coverage = s.coverage /\ r.pinned_leg = s.pinned_leg

\* A move of the entry that stays at its epoch, one that goes on by one, and one
\* that does not go back: all three leave the queue slot to the job that has it, or
\* give it up.  And a move that does not go back, whatever it does with the slot.
Keeps(s, r) == Sound(r) /\ r.claim.epoch = s.claim.epoch /\ SlotKept(s.claim, r.claim)
Moves(s, r) == Sound(r) /\ r.claim.epoch = s.claim.epoch + 1 /\ SlotKept(s.claim, r.claim)
Grows(s, r) == Sound(r) /\ r.claim.epoch >= s.claim.epoch /\ SlotKept(s.claim, r.claim)
Rises(s, r) == Sound(r) /\ r.claim.epoch >= s.claim.epoch

LEMMA EntryTyped ==
    ASSUME NEW s \in Entries
    PROVE  /\ s.claim \in Claims /\ s.coverage \in Coverages
           /\ s.pinned_leg \in Legs \cup {NoLeg}
           /\ s.trust \in Trusts /\ s.pending \in Batches
           /\ s.leases \in Nat /\ s.recovery_demands \in Nat /\ s.pins \in Nat
BY DEF Entries

LEMMA SoundEpoch == ASSUME NEW s, Sound(s) PROVE s.claim.epoch \in Nat
BY ClaimEpochs DEF Sound

LEMMA NewEntry == Sound(Unattached(0)) /\ Unattached(0).claim.epoch = 0
<1>1. ClaimSound(StartingAt(0)) /\ StartingAt(0).epoch = 0
    BY NewClaim DEF StartingAt
<1>2. StartingAt(0) \in Claims
    BY <1>1 DEF ClaimSound
<1>3. Unattached(0) \in Entries
    BY <1>2, NothingTyped DEF Unattached, Entries, NoCoverage, Coverages, Trusts, Batches
<1>4. /\ Unattached(0).claim = StartingAt(0) /\ Unattached(0).coverage.leg = 0
      /\ Unattached(0).pinned_leg = NoLeg
    BY DEF Unattached, NoCoverage
<1> QED
    BY <1>1, <1>3, <1>4, NothingTyped DEF Sound

LEMMA AlikeKeeps ==
    ASSUME NEW s, NEW r, Sound(s), Alike(s, r)
    PROVE  Keeps(s, r)
BY DEF Alike, Keeps, Sound, SlotKept

LEMMA AlikeTransitive ==
    ASSUME NEW s, NEW r, NEW q, Alike(s, r), Alike(r, q)
    PROVE  Alike(s, q)
BY DEF Alike

----------------------------------------------------------------------------
(* Moves of the data                                                       *)

LEMMA TrustAlike ==
    ASSUME NEW s \in Entries, NEW trust \in Trusts
    PROVE  Alike(s, SetTrust(s, trust))
BY DEF Alike, SetTrust, Entries

LEMMA FactsAlike ==
    ASSUME NEW s \in Entries, NEW batch \in Batches
    PROVE  Alike(s, Merge(s, batch)) /\ Alike(s, ClearPending(s))
<1>1. ASSUME NEW pending \in Batches PROVE Alike(s, [s EXCEPT !.pending = pending])
    BY DEF Alike, Entries
<1>2. ASSUME NEW q \in Entries PROVE Alike(q, [q EXCEPT !.awaits = FALSE])
    BY DEF Alike, Entries
<1>3. Alike(s, ClearPending(s))
    BY <1>1 DEF ClearPending, Batches
<1>4. CASE batch = "none"
    BY <1>3, <1>4 DEF Merge, Alike
<1>5. CASE batch # "none"
    <2> DEFINE pending == IF "rescan" \in {s.pending, batch} THEN "rescan" ELSE "facts"
               q == [s EXCEPT !.pending = pending]
    <2>1. Alike(s, q) /\ q \in Entries
        BY <1>1 DEF Batches, Alike
    <2>2. Alike(q, [q EXCEPT !.awaits = FALSE])
        BY <1>2, <2>1
    <2>3. Merge(s, batch) = [q EXCEPT !.awaits = FALSE]
        BY <1>5 DEF Merge
    <2> QED
        BY <1>3, <2>1, <2>2, <2>3, AlikeTransitive
<1> QED
    BY <1>4, <1>5

LEMMA FlagsAlike ==
    ASSUME NEW s \in Entries
    PROVE  /\ Alike(s, s)
           /\ Alike(s, RetireRecoveryDemands(s))
           /\ Alike(s, RequireRecoveryKeepingDemands(s))
           /\ Alike(s, ClearRebuild(s))
           /\ Alike(s, CloseReader(s))
           /\ Alike(s, Unpin(s))
           /\ Alike(s, RetireRegistryParks(s))
<1>1. Alike(s, s) /\ Alike(s, RetireRecoveryDemands(s))
    BY DEF Alike, RetireRecoveryDemands, Entries
<1>2. Alike(s, RequireRecoveryKeepingDemands(s)) /\ Alike(s, ClearRebuild(s))
    BY DEF Alike, RequireRecoveryKeepingDemands, ClearRebuild, Entries
<1>3. Alike(s, CloseReader(s)) /\ Alike(s, Unpin(s)) /\ Alike(s, RetireRegistryParks(s))
    <2>1. Alike(s, CloseReader(s)) /\ Alike(s, RetireRegistryParks(s))
        BY DEF Alike, CloseReader, RetireRegistryParks, Entries
    <2>2. ASSUME NEW pins \in Nat PROVE Alike(s, [s EXCEPT !.pins = pins])
        BY DEF Alike, Entries
    <2>3. (IF s.pins > 0 THEN s.pins - 1 ELSE 0) \in Nat
        BY EntryTyped
    <2> QED
        BY <2>1, <2>2, <2>3 DEF Unpin
<1> QED
    BY <1>1, <1>2, <1>3

LEMMA RungsAlike ==
    ASSUME NEW s \in Entries
    PROVE  /\ Alike(s, RequireRecovery(s)) /\ Alike(s, RequireRebuild(s))
           /\ Alike(s, WithdrawTrustForDamage(s)) /\ Alike(s, TakeDamage(s))
           /\ Alike(s, ClearRecovery(s)) /\ Alike(s, ClearRungs(s))
<1>1. ASSUME NEW q \in Entries PROVE Alike(q, RequireRebuild(q)) /\ RequireRebuild(q) \in Entries
    BY DEF Alike, RequireRebuild, RetireRecoveryDemands, Entries
<1>2. ASSUME NEW q \in Entries PROVE Alike(q, ClearRecovery(q)) /\ ClearRecovery(q) \in Entries
    BY DEF Alike, ClearRecovery, RetireRecoveryDemands, Entries
<1>3. Alike(s, RequireRecovery(s))
    BY FlagsAlike, AlikeTransitive DEF RequireRecovery, Alike
<1>4. ASSUME NEW q \in Entries PROVE Alike(q, WithdrawTrustForDamage(q))
    BY <1>1, TrustAlike, AlikeTransitive DEF WithdrawTrustForDamage, Trusts, Distrust
<1>5. Alike(s, [s EXCEPT !.damage = FALSE]) /\ [s EXCEPT !.damage = FALSE] \in Entries
    BY DEF Alike, Entries
<1>6. Alike(s, TakeDamage(s))
    BY <1>4, <1>5, AlikeTransitive DEF TakeDamage
<1>7. Alike(s, ClearRungs(s))
    BY <1>2, FlagsAlike, AlikeTransitive DEF ClearRungs
<1> QED
    BY <1>1, <1>2, <1>3, <1>4, <1>6, <1>7

LEMMA PublishAlike ==
    ASSUME NEW s \in Entries
    PROVE  /\ Alike(s, PublishPendingReconcile(s))
           /\ \A saturated \in BOOLEAN : Alike(s, PublishReadyWhereNothingIsLeft(s, saturated))
           /\ \A tookInAFact \in BOOLEAN : Alike(s, WithholdTrust(s, tookInAFact))
           /\ Alike(s, ParkIdentityRefusal(s)) /\ Alike(s, IdentityRefused(s))
<1>1. {"Overflow", "Healing", "Ready", "Untrusted"} \subseteq Trusts /\ "rescan" \in Batches
    BY DEF Trusts, Warm, Distrust, Batches
<1>2. Alike(s, PublishPendingReconcile(s))
    BY <1>1, TrustAlike DEF PublishPendingReconcile
<1>3. ASSUME NEW saturated \in BOOLEAN
      PROVE  Alike(s, PublishReadyWhereNothingIsLeft(s, saturated))
    BY <1>1, TrustAlike, FlagsAlike DEF PublishReadyWhereNothingIsLeft
<1>4. Alike(s, Merge(RequireRecovery(s), "rescan")) /\ Merge(RequireRecovery(s), "rescan") \in Entries
    <2>1. Alike(s, RequireRecovery(s)) /\ RequireRecovery(s) \in Entries
        BY RungsAlike DEF Alike
    <2>2. Alike(RequireRecovery(s), Merge(RequireRecovery(s), "rescan"))
        BY <2>1, <1>1, FactsAlike
    <2> QED
        BY <2>1, <2>2, AlikeTransitive DEF Alike
<1>5. ASSUME NEW q \in Entries, NEW tookInAFact \in BOOLEAN
      PROVE  Alike(q, [q EXCEPT !.awaits = ~tookInAFact])
    BY DEF Alike, Entries
<1>6. ASSUME NEW tookInAFact \in BOOLEAN PROVE Alike(s, WithholdTrust(s, tookInAFact))
    <2> DEFINE m == Merge(RequireRecovery(s), "rescan")
               q == [m EXCEPT !.awaits = ~tookInAFact]
    <2>1. Alike(s, q) /\ q \in Entries
        <3> HIDE DEF m
        <3> QED
            BY <1>4, <1>5, AlikeTransitive DEF m, Alike
    <2>2. Alike(q, SetTrust(q, "Untrusted"))
        BY <2>1, <1>1, TrustAlike
    <2> QED
        BY <2>1, <2>2, AlikeTransitive DEF WithholdTrust
<1>7. ASSUME NEW q \in Entries PROVE Alike(q, ParkIdentityRefusal(q))
    <2>1. Alike(q, [q EXCEPT !.identity = TRUE]) /\ [q EXCEPT !.identity = TRUE] \in Entries
        BY DEF Alike, Entries
    <2> QED
        BY <2>1, <1>1, TrustAlike, AlikeTransitive DEF ParkIdentityRefusal
<1>8. Alike(s, IdentityRefused(s))
    <2>1. Merge(s, "rescan") \in Entries /\ Alike(s, Merge(s, "rescan"))
        BY <1>1, FactsAlike DEF Alike
    <2>2. Alike(s, RequireRecovery(Merge(s, "rescan"))) /\ RequireRecovery(Merge(s, "rescan")) \in Entries
        BY <2>1, RungsAlike, AlikeTransitive DEF Alike
    <2> QED
        BY <2>2, <1>7, AlikeTransitive DEF IdentityRefused
<1> QED
    BY <1>2, <1>3, <1>6, <1>7, <1>8

----------------------------------------------------------------------------
(* Moves of the claim, the custody and the pin                             *)

LEMMA ClaimMoved ==
    ASSUME NEW s, Sound(s), NEW c, ClaimSound(c), c.epoch >= s.claim.epoch
    PROVE  LET r == [s EXCEPT !.claim = c]
           IN  /\ Sound(r)
               /\ r.claim = c /\ r.coverage = s.coverage /\ r.pinned_leg = s.pinned_leg
<1> DEFINE r == [s EXCEPT !.claim = c]
<1>1. /\ s \in Entries /\ c \in Claims /\ s.claim.epoch \in Nat /\ c.epoch \in Nat
    BY SoundEpoch, ClaimEpochs DEF Sound, ClaimSound
<1>2. r \in Entries
    BY <1>1 DEF Entries
<1>3. r.claim = c /\ r.coverage = s.coverage /\ r.pinned_leg = s.pinned_leg
    BY <1>1 DEF Entries
<1> QED
    BY <1>1, <1>2, <1>3 DEF Sound

LEMMA CoverageMoved ==
    ASSUME NEW s, Sound(s), NEW cov \in Coverages, cov.leg \in 0..s.claim.epoch
    PROVE  LET r == [s EXCEPT !.coverage = cov] IN Sound(r) /\ r.claim = s.claim
<1> DEFINE r == [s EXCEPT !.coverage = cov]
<1>1. r \in Entries /\ s \in Entries
    BY DEF Sound, Entries
<1>2. r.claim = s.claim /\ r.coverage = cov /\ r.pinned_leg = s.pinned_leg
    BY <1>1 DEF Entries
<1> QED
    BY <1>1, <1>2 DEF Sound

LEMMA PinMoved ==
    ASSUME NEW s, Sound(s), NEW leg \in Legs \cup {NoLeg}, leg.epoch \in 0..s.claim.epoch
    PROVE  LET r == [s EXCEPT !.pinned_leg = leg] IN Sound(r) /\ r.claim = s.claim
<1> DEFINE r == [s EXCEPT !.pinned_leg = leg]
<1>1. r \in Entries /\ s \in Entries
    BY DEF Sound, Entries
<1>2. r.claim = s.claim /\ r.coverage = s.coverage /\ r.pinned_leg = leg
    BY <1>1 DEF Entries
<1> QED
    BY <1>1, <1>2 DEF Sound

\* A flag set or cleared.
LEMMA FlagsMoved ==
    ASSUME NEW s \in Entries, NEW flag \in BOOLEAN
    PROVE  /\ Alike(s, [s EXCEPT !.detach_due = flag])
           /\ Alike(s, [s EXCEPT !.detach_scheduled = flag])
           /\ Alike(s, [s EXCEPT !.detach_in_flight = flag])
           /\ Alike(s, [s EXCEPT !.reader = flag])
           /\ Alike(s, [s EXCEPT !.damage = flag])
           /\ Alike(s, [s EXCEPT !.contended = flag])
           /\ Alike(s, [s EXCEPT !.identity = flag])
           /\ Alike(s, [s EXCEPT !.duplicate = flag])
<1>1. /\ Alike(s, [s EXCEPT !.detach_due = flag])
      /\ Alike(s, [s EXCEPT !.detach_scheduled = flag])
    BY DEF Alike, Entries
<1>2. /\ Alike(s, [s EXCEPT !.detach_in_flight = flag])
      /\ Alike(s, [s EXCEPT !.reader = flag])
    BY DEF Alike, Entries
<1>3. /\ Alike(s, [s EXCEPT !.damage = flag])
      /\ Alike(s, [s EXCEPT !.contended = flag])
    BY DEF Alike, Entries
<1>4. /\ Alike(s, [s EXCEPT !.identity = flag])
      /\ Alike(s, [s EXCEPT !.duplicate = flag])
    BY DEF Alike, Entries
<1> QED
    BY <1>1, <1>2, <1>3, <1>4

LEMMA CountsMoved ==
    ASSUME NEW s \in Entries, NEW n \in Nat
    PROVE  /\ Alike(s, [s EXCEPT !.leases = n])
           /\ Alike(s, [s EXCEPT !.recovery_demands = n])
           /\ Alike(s, [s EXCEPT !.pins = n])
BY DEF Alike, Entries

LEMMA SoundSteps ==
    ASSUME NEW s, NEW r, NEW q, Sound(s)
    PROVE  /\ Keeps(s, s)
           /\ Keeps(s, r) /\ Keeps(r, q) => Keeps(s, q)
           /\ Keeps(s, r) /\ Moves(r, q) => Moves(s, q)
           /\ Moves(s, r) /\ Keeps(r, q) => Moves(s, q)
           /\ Keeps(s, r) /\ Grows(r, q) => Grows(s, q)
           /\ Moves(s, r) /\ Grows(r, q) => Grows(s, q)
           /\ Keeps(s, r) => Grows(s, r) /\ Sound(r)
           /\ Moves(s, r) => Grows(s, r) /\ Sound(r)
<1>1. s.claim.epoch \in Nat /\ (Sound(r) => r.claim.epoch \in Nat)
      /\ (Sound(q) => q.claim.epoch \in Nat)
    BY SoundEpoch
<1> QED
    BY <1>1 DEF Keeps, Moves, Grows, SlotKept

LEMMA ParkKeeps ==
    ASSUME NEW s, Sound(s), NEW epoch \in 0..s.claim.epoch, NEW minted \in BOOLEAN
    PROVE  /\ Keeps(s, Park(s, epoch))
           /\ Keeps(s, InstallCoverage(s, minted))
           /\ Keeps(s, RemintCoverage(s, epoch, minted))
           /\ Keeps(s, ParkCoverage(s, epoch, minted))
<1>1. ASSUME NEW q, Sound(q) PROVE Keeps(q, [q EXCEPT !.coverage = Parked])
    <2>1. Parked \in Coverages /\ Parked.leg \in 0..q.claim.epoch
        BY <1>1, SoundEpoch DEF Parked, Coverages
    <2> QED
        BY <1>1, <2>1, CoverageMoved DEF Keeps, SlotKept
<1>2. ASSUME NEW reader \in BOOLEAN
      PROVE  Keeps(s, [s EXCEPT !.reader = reader])
    BY FlagsMoved, AlikeKeeps DEF Sound
<1>3. Keeps(s, Park(s, epoch))
    BY <1>1 DEF Park, ParkBy
<1>4. ASSUME NEW reader \in BOOLEAN
      PROVE  Keeps(s, [[s EXCEPT !.reader = reader] EXCEPT !.coverage = Parked])
    <2> DEFINE q == [s EXCEPT !.reader = reader]
    <2>1. Keeps(s, q) /\ Sound(q)
        BY <1>2 DEF Keeps
    <2> HIDE DEF q
    <2>2. Keeps(q, [q EXCEPT !.coverage = Parked])
        BY <1>1, <2>1
    <2>3. Keeps(s, [q EXCEPT !.coverage = Parked])
        BY <2>1, <2>2, SoundSteps
    <2> QED
        BY <2>3 DEF q
<1>5. (s.reader \/ minted) \in BOOLEAN
    OBVIOUS
<1>6. InstallCoverage(s, minted) = [[s EXCEPT !.reader = minted] EXCEPT !.coverage = Parked]
    BY DEF InstallCoverage
<1>7. /\ RemintCoverage(s, epoch, minted)
             = [[s EXCEPT !.reader = minted] EXCEPT !.coverage = Parked]
      /\ ParkCoverage(s, epoch, minted)
             = [[s EXCEPT !.reader = s.reader \/ minted] EXCEPT !.coverage = Parked]
    BY DEF RemintCoverage, ParkCoverage, Park, ParkBy
<1> QED
    BY <1>3, <1>4, <1>5, <1>6, <1>7

LEMMA PinKeeps ==
    ASSUME NEW s, Sound(s), NEW leg \in Legs, leg.epoch \in 0..s.claim.epoch
    PROVE  /\ Keeps(s, PinForLeg(s, leg)) /\ Keeps(s, UnpinLeg(s, leg))
           /\ Keeps(s, TakeForLeg(s, leg))
<1>1. ASSUME NEW q, Sound(q), NEW pin \in Legs \cup {NoLeg}, pin.epoch \in 0..q.claim.epoch
      PROVE  Keeps(q, [q EXCEPT !.pinned_leg = pin])
    BY <1>1, PinMoved DEF Keeps, SlotKept
<1>2. ASSUME NEW q, Sound(q), NEW pins \in Nat PROVE Keeps(q, [q EXCEPT !.pins = pins])
    BY <1>2, CountsMoved, AlikeKeeps DEF Sound
<1>3. ASSUME NEW q, Sound(q), leg.epoch \in 0..q.claim.epoch PROVE Keeps(q, PinForLeg(q, leg))
    <2> DEFINE p == [q EXCEPT !.pinned_leg = leg]
    <2>1. Keeps(q, p)
        BY <1>1, <1>3
    <2>2. q.pins + 1 \in Nat
        BY <1>3, EntryTyped DEF Sound
    <2>3. PinForLeg(q, leg) = [p EXCEPT !.pins = q.pins + 1]
        BY DEF PinForLeg
    <2>4. Keeps(p, [p EXCEPT !.pins = q.pins + 1])
        BY <2>1, <2>2, <1>2 DEF Keeps, SlotKept
    <2> QED
        BY <1>3, <2>1, <2>3, <2>4, SoundSteps
<1>4. Keeps(s, UnpinLeg(s, leg))
    <2> DEFINE p == [s EXCEPT !.pinned_leg = NoLeg]
    <2>1. Keeps(s, p)
        BY <1>1, SoundEpoch, NothingTyped
    <2>2. Keeps(p, Unpin(p))
        BY <2>1, FlagsAlike, AlikeKeeps DEF Keeps, Sound, SlotKept
    <2> QED
        BY <2>1, <2>2, SoundSteps DEF UnpinLeg
<1>5. Keeps(s, TakeForLeg(s, leg))
    <2> DEFINE cov == TakeCoverage(s.coverage, leg.epoch)
               p == [s EXCEPT !.coverage = cov]
    <2>1. cov \in Coverages /\ cov.leg \in 0..s.claim.epoch
        BY CoverageMoves, SoundEpoch, EntryTyped DEF Sound
    <2>2. Keeps(s, p)
        BY <2>1, CoverageMoved DEF Keeps, SlotKept
    <2>3. Keeps(p, PinForLeg(p, leg))
        BY <2>2, <1>3 DEF Keeps, SlotKept
    <2> QED
        BY <2>2, <2>3, SoundSteps DEF TakeForLeg
<1> QED
    BY <1>3, <1>4, <1>5

\* A leg, or a release, of an epoch the entry has reached gives its custody back.
LEMMA CustodyKeeps ==
    ASSUME NEW s, Sound(s), NEW epoch \in 0..s.claim.epoch
    PROVE  /\ Keeps(s, [s EXCEPT !.coverage = ReleasedBy(@, epoch)])
           /\ Keeps(s, [s EXCEPT !.coverage = TakeCoverage(@, epoch)])
           /\ Keeps(s, [s EXCEPT !.coverage = GiveUp(@)])
<1>1. ASSUME NEW cov \in Coverages, cov.leg \in 0..s.claim.epoch
      PROVE  Keeps(s, [s EXCEPT !.coverage = cov])
    BY <1>1, CoverageMoved DEF Keeps, SlotKept
<1> QED
    BY <1>1, CoverageMoves, SoundEpoch, EntryTyped DEF Sound

\* What a move of the claim makes of the entry.
LEMMA ClaimKeeps ==
    ASSUME NEW s, Sound(s), NEW c, Stays(s.claim, c)
    PROVE  Keeps(s, [s EXCEPT !.claim = c]) /\ [s EXCEPT !.claim = c].claim = c
<1>1. c.epoch >= s.claim.epoch
    BY SoundEpoch DEF Stays, SlotKept
<1> QED
    BY <1>1, ClaimMoved DEF Stays, Keeps, SlotKept

LEMMA ClaimMoves ==
    ASSUME NEW s, Sound(s), NEW c, GoesOn(s.claim, c)
    PROVE  Moves(s, [s EXCEPT !.claim = c]) /\ [s EXCEPT !.claim = c].claim = c
<1>1. c.epoch >= s.claim.epoch
    BY SoundEpoch DEF GoesOn, SlotKept
<1> QED
    BY <1>1, ClaimMoved DEF GoesOn, Moves, SlotKept

LEMMA GateKeeps ==
    ASSUME NEW s, Sound(s)
    PROVE  /\ Keeps(s, ReleaseGate(s)) /\ Keeps(s, OpenClaim(s))
           /\ Keeps(s, [s EXCEPT !.claim = DropMarker(@)])
           /\ Keeps(s, [s EXCEPT !.claim = EndRunningLeg(@)])
           /\ Moves(s, InvalidateClaim(s))
           /\ Moves(s, [s EXCEPT !.claim = Supersede(@)])
<1>1. /\ Stays(s.claim, Release(s.claim)) /\ Stays(s.claim, OpenGate(s.claim))
      /\ Stays(s.claim, DropMarker(s.claim)) /\ GoesOn(s.claim, Invalidate(s.claim))
      /\ GoesOn(s.claim, Supersede(s.claim))
    BY GateMovesStay, InvalidateGoesOn, SupersedeGoesOn DEF Sound
<1>2. Stays(s.claim, EndRunningLeg(s.claim))
    BY LegMovesStay, SoundEpoch DEF Sound
<1> QED
    BY <1>1, <1>2, ClaimKeeps, ClaimMoves DEF ReleaseGate, OpenClaim, InvalidateClaim

LEMMA ScheduleMoves ==
    ASSUME NEW s, Sound(s), NEW kind \in JobKinds
    PROVE  /\ Moves(s, ScheduleJob(s, kind)) /\ Moves(s, HandOnTo(s, kind))
           /\ HandedOn(s.claim, kind) \in Jobs
           /\ HandedOn(s.claim, kind).epoch = s.claim.epoch + 1
<1>1. GoesOn(s.claim, Schedule(s.claim, kind)) /\ GoesOn(s.claim, HandOn(s.claim, kind))
    BY ScheduleGoesOn, HandOnGoesOn DEF Sound
<1>2. /\ HandedOn(s.claim, kind) \in Jobs
      /\ HandedOn(s.claim, kind).epoch = s.claim.epoch + 1
    BY HandOnGoesOn DEF Sound
<1> QED
    BY <1>1, <1>2, ClaimMoves DEF ScheduleJob, HandOnTo

\* A data move before another move changes nothing of what the other does.
LEMMA AlikeThen ==
    ASSUME NEW s, NEW r, NEW q, Sound(s), Alike(s, r)
    PROVE  /\ Sound(r) /\ r.claim = s.claim
           /\ Keeps(r, q) => Keeps(s, q)
           /\ Moves(r, q) => Moves(s, q)
           /\ Grows(r, q) => Grows(s, q)
BY AlikeKeeps DEF Alike, Keeps, Moves, Grows, SlotKept

\* and after one.
LEMMA ThenAlike ==
    ASSUME NEW s, NEW r, NEW q, Sound(s), Alike(r, q)
    PROVE  /\ Keeps(s, r) => Keeps(s, q)
           /\ Moves(s, r) => Moves(s, q)
           /\ Grows(s, r) => Grows(s, q)
<1>1. Sound(r) => Keeps(r, q)
    BY AlikeKeeps
<1> QED
    BY <1>1 DEF Keeps, Moves, Grows, SlotKept

----------------------------------------------------------------------------
(* Scheduling, demand and release                                          *)

LEMMA ScheduleDemandMoves == ASSUME NEW s, Sound(s) PROVE Moves(s, ScheduleDemand(s))
<1> DEFINE work == OwedBy(s)
           published == IF work \in {"Attach", "Recover"} THEN SetTrust(s, "Installing")
                        ELSE IF work = "Reconcile" THEN PublishPendingReconcile(s)
                        ELSE s
<1>1. work \in JobKinds
    BY DEF OwedBy, JobKinds
<1>2. Alike(s, published)
    <2>1. s \in Entries /\ "Installing" \in Trusts
        BY DEF Sound, Trusts, Warm
    <2> QED
        BY <2>1, TrustAlike, PublishAlike, FlagsAlike
<1>3. ScheduleDemand(s) = ScheduleJob(published, work)
    BY DEF ScheduleDemand
<1> HIDE DEF work, published
<1> QED
    BY <1>1, <1>2, <1>3, AlikeThen, ScheduleMoves

LEMMA ScheduleGrows ==
    ASSUME NEW s, Sound(s)
    PROVE  /\ Grows(s, ScheduleDemandedWork(s)) /\ Grows(s, PublishDamage(s))
           /\ Grows(s, PublishDamageOrDemandedWork(s))
           /\ CanScheduleDueDetach(s) => Moves(s, ScheduleDueDetach(s))
           /\ Grows(s, ScheduleDueDetach(s))
<1>1. Grows(s, s) /\ Moves(s, ScheduleDemand(s))
    BY SoundSteps, ScheduleDemandMoves
<1>2. Grows(s, ScheduleDemandedWork(s))
    BY <1>1, SoundSteps DEF ScheduleDemandedWork
<1>3. Moves(s, ScheduleDemand(TakeDamage(s)))
    BY RungsAlike, AlikeThen, ScheduleDemandMoves DEF Sound
<1>4. Grows(s, PublishDamage(s))
    BY <1>1, <1>3, SoundSteps DEF PublishDamage
<1>5. Moves(s, ScheduleJob([s EXCEPT !.detach_scheduled = TRUE], "Detach"))
    <2>1. Alike(s, [s EXCEPT !.detach_scheduled = TRUE])
        BY FlagsMoved DEF Sound
    <2>2. "Detach" \in JobKinds
        BY DEF JobKinds
    <2> DEFINE p == [s EXCEPT !.detach_scheduled = TRUE]
    <2>3. Sound(p)
        BY <2>1, AlikeThen
    <2> HIDE DEF p
    <2>4. Moves(p, ScheduleJob(p, "Detach"))
        BY <2>2, <2>3, ScheduleMoves
    <2> QED
        BY <2>1, <2>4, AlikeThen DEF p
<1>6. /\ CanScheduleDueDetach(s) => Moves(s, ScheduleDueDetach(s))
      /\ Grows(s, ScheduleDueDetach(s))
    BY <1>1, <1>5, SoundSteps DEF ScheduleDueDetach
<1> QED
    BY <1>2, <1>4, <1>6 DEF PublishDamageOrDemandedWork

LEMMA RecordDemandGrows ==
    ASSUME NEW s, Sound(s), NEW asks \in BOOLEAN
    PROVE  Grows(s, RecordDemand(s, asks))
<1> DEFINE asked == [s EXCEPT
               !.leases = @ + 1,
               !.recovery_demands = IF asks /\ s.recovery_required THEN @ + 1 ELSE @,
               !.detach_due = FALSE]
           opened == OpenClaim(InvalidateClaim(asked))
<1>1. Alike(s, asked)
    <2> DEFINE count == IF asks /\ s.recovery_required
                        THEN s.recovery_demands + 1 ELSE s.recovery_demands
               p == [s EXCEPT !.leases = s.leases + 1]
               q == [p EXCEPT !.recovery_demands = count]
    <2>1. s \in Entries /\ count \in Nat /\ s.leases + 1 \in Nat
        BY EntryTyped DEF Sound
    <2>2. Alike(s, p) /\ p \in Entries
        BY <2>1, CountsMoved DEF Alike
    <2>3. Alike(p, q) /\ q \in Entries
        <3> HIDE DEF p, count
        <3> QED
            BY <2>1, <2>2, CountsMoved DEF Alike
    <2>4. Alike(q, [q EXCEPT !.detach_due = FALSE])
        <3> HIDE DEF q
        <3> QED
            BY <2>3, FlagsMoved
    <2>5. asked = [q EXCEPT !.detach_due = FALSE]
        OBVIOUS
    <2> QED
        BY <2>2, <2>3, <2>4, <2>5, AlikeTransitive
<1>2. Sound(asked)
    BY <1>1, AlikeThen
<1> HIDE DEF asked
<1>3. Moves(asked, InvalidateClaim(asked)) /\ Keeps(InvalidateClaim(asked), opened)
    BY <1>2, GateKeeps DEF Moves, SlotKept
<1>4. Moves(asked, opened)
    BY <1>2, <1>3, SoundSteps
<1>5. Alike(opened, [opened EXCEPT !.detach_scheduled = FALSE])
    BY <1>4, FlagsMoved DEF Moves, Sound, SlotKept
<1>6. Moves(asked, [opened EXCEPT !.detach_scheduled = FALSE])
    BY <1>2, <1>4, <1>5, ThenAlike
<1>7. Grows(asked, asked) /\ Grows(asked, [opened EXCEPT !.detach_scheduled = FALSE])
    BY <1>2, <1>6, SoundSteps
<1>8. RecordDemand(s, asks) \in {asked, [opened EXCEPT !.detach_scheduled = FALSE]}
    BY DEF RecordDemand, asked
<1> QED
    BY <1>1, <1>7, <1>8, AlikeThen

LEMMA GiveBackDemandAlike ==
    ASSUME NEW s \in Entries, s.leases > 0, NEW asking \in BOOLEAN,
           asking => s.recovery_demands > 0
    PROVE  Alike(s, GiveBackDemand(s, asking))
<1> DEFINE count == IF asking THEN s.recovery_demands - 1 ELSE s.recovery_demands
           due == s.detach_due /\ s.leases # 1
           p == [s EXCEPT !.leases = s.leases - 1]
           q == [p EXCEPT !.recovery_demands = count]
<1>1. count \in Nat /\ s.leases - 1 \in Nat /\ due \in BOOLEAN
    BY EntryTyped
<1>2. GiveBackDemand(s, asking) = [q EXCEPT !.detach_due = due]
    BY DEF GiveBackDemand
<1> HIDE DEF count, due
<1>3. Alike(s, p) /\ p \in Entries
    BY <1>1, CountsMoved DEF Alike
<1> HIDE DEF p
<1>4. Alike(p, q) /\ q \in Entries
    BY <1>1, <1>3, CountsMoved DEF Alike
<1> HIDE DEF q
<1>5. Alike(q, [q EXCEPT !.detach_due = due])
    BY <1>1, <1>4, FlagsMoved
<1> QED
    BY <1>2, <1>3, <1>4, <1>5, AlikeTransitive

LEMMA BeginReleaseKeeps == ASSUME NEW s, Sound(s) PROVE Keeps(s, BeginRelease(s))
<1> DEFINE p == OpenClaim(s)
           q == CloseReader(p)
           r == [q EXCEPT !.detach_in_flight = TRUE]
<1>1. Keeps(s, p) /\ p \in Entries
    BY GateKeeps DEF Keeps, Sound, SlotKept
<1>2. Alike(p, q) /\ q \in Entries
    BY <1>1, FlagsAlike DEF Alike
<1>3. Alike(q, r) /\ r \in Entries
    BY <1>2, FlagsMoved DEF Alike
<1>4. Alike(r, SetTrust(r, "Releasing"))
    BY <1>3, TrustAlike DEF Trusts, Warm
<1>5. Alike(p, SetTrust(r, "Releasing"))
    BY <1>2, <1>3, <1>4, AlikeTransitive
<1> QED
    BY <1>1, <1>5, ThenAlike DEF BeginRelease

LEMMA EndReleaseKeeps ==
    ASSUME NEW s, Sound(s), NEW epoch \in 0..s.claim.epoch
    PROVE  Keeps(s, EndRelease(s, epoch))
<1> DEFINE claim == OpenGate(EndLeg(s.claim, epoch))
           p == [s EXCEPT !.claim = claim]
           q == [p EXCEPT !.coverage = ReleasedBy(@, epoch)]
           ended == [s EXCEPT
               !.claim = OpenGate(EndLeg(@, epoch)),
               !.coverage = ReleasedBy(@, epoch),
               !.detach_in_flight = FALSE, !.detach_due = FALSE, !.detach_scheduled = FALSE]
<1>1. Stays(s.claim, claim)
    <2>1. Stays(s.claim, EndLeg(s.claim, epoch))
        BY LegMovesStay DEF Sound
    <2> QED
        BY <2>1, GateMovesStay DEF Stays, SlotKept
<1>2. Keeps(s, p)
    <2> HIDE DEF claim
    <2> QED
        BY <1>1, ClaimKeeps
<1>3. Keeps(p, q)
    <2> HIDE DEF p
    <2> QED
        BY <1>2, CustodyKeeps DEF Keeps, SlotKept
<1>4. Alike(q, ended)
    <2> DEFINE a == [q EXCEPT !.detach_in_flight = FALSE]
               b == [a EXCEPT !.detach_due = FALSE]
               c == [b EXCEPT !.detach_scheduled = FALSE]
    <2>1. c = ended
        BY DEF Sound, Entries
    <2>2. q \in Entries
        BY <1>3 DEF Keeps, Sound, SlotKept
    <2> HIDE DEF q, ended
    <2>3. Alike(q, a) /\ a \in Entries
        BY <2>2, FlagsMoved DEF Alike
    <2> HIDE DEF a
    <2>4. Alike(a, b) /\ b \in Entries
        BY <2>3, FlagsMoved DEF Alike
    <2> HIDE DEF b
    <2>5. Alike(b, c)
        BY <2>4, FlagsMoved
    <2> QED
        BY <2>1, <2>3, <2>4, <2>5, AlikeTransitive
<1>5. Alike(ended, SetTrust(ClearRungs(ClearPending(ended)), "Unattached"))
    <2>1. ended \in Entries
        BY <1>4 DEF Alike
    <2> HIDE DEF ended
    <2>2. Alike(ended, ClearPending(ended)) /\ ClearPending(ended) \in Entries
        BY <2>1, FactsAlike DEF Alike, Batches
    <2>3. Alike(ClearPending(ended), ClearRungs(ClearPending(ended)))
          /\ ClearRungs(ClearPending(ended)) \in Entries
        BY <2>2, RungsAlike DEF Alike
    <2>4. Alike(ClearRungs(ClearPending(ended)),
                SetTrust(ClearRungs(ClearPending(ended)), "Unattached"))
        BY <2>3, TrustAlike DEF Trusts
    <2> QED
        BY <2>2, <2>3, <2>4, AlikeTransitive
<1>6. EndRelease(s, epoch) = SetTrust(ClearRungs(ClearPending(ended)), "Unattached")
    BY DEF EndRelease
<1> HIDE DEF ended, q, p
<1> QED
    BY <1>2, <1>3, <1>4, <1>5, <1>6, SoundSteps, ThenAlike

\* A release that owes an attach takes the slot for it.
LEMMA ReattachRises ==
    ASSUME NEW s, Sound(s)
    PROVE  /\ Rises(s, Reattach(s)) /\ Reattach(s).claim.epoch = s.claim.epoch + 1
           /\ Reattach(s).claim.slot = s.claim.epoch + 1
<1> DEFINE next == HandOnTo(SetTrust(s, "Installing"), "Attach")
<1>1. Alike(s, SetTrust(s, "Installing"))
    BY TrustAlike DEF Sound, Trusts, Warm
<1>2. Moves(s, next)
    BY <1>1, AlikeThen, ScheduleMoves DEF JobKinds
<1>3. /\ Sound(next) /\ next.claim.epoch = s.claim.epoch + 1 /\ ClaimSound(next.claim)
      /\ s.claim.epoch \in Nat
    BY <1>2, SoundEpoch DEF Moves, Sound, SlotKept
<1>4. Reattach(s) = [next EXCEPT !.claim = TakeSlot(next.claim, next.claim.epoch)]
    BY DEF Reattach
<1> HIDE DEF next
<1>5. /\ Lasts(next.claim, TakeSlot(next.claim, next.claim.epoch))
      /\ TakeSlot(next.claim, next.claim.epoch).slot = next.claim.epoch
    BY <1>3, SlotMovesStay
<1>6. /\ Sound(Reattach(s))
      /\ Reattach(s).claim = TakeSlot(next.claim, next.claim.epoch)
    BY <1>3, <1>4, <1>5, ClaimMoved DEF Lasts
<1> QED
    BY <1>3, <1>5, <1>6 DEF Lasts, Rises

\* The custody a refusal takes, and the leg it ends with the taking.
LEMMA TakenKeeps ==
    ASSUME NEW s, Sound(s), NEW epoch \in 0..s.claim.epoch
    PROVE  Keeps(s, [s EXCEPT !.coverage = TakeCoverage(@, epoch),
                              !.claim = EndRunningLeg(@)])
<1> DEFINE p == [s EXCEPT !.coverage = TakeCoverage(@, epoch)]
           q == [p EXCEPT !.claim = EndRunningLeg(@)]
<1>1. Keeps(s, p)
    BY CustodyKeeps
<1>2. Keeps(p, q)
    <2> HIDE DEF p
    <2> QED
        BY <1>1, GateKeeps DEF Keeps, SlotKept
<1>3. q = [s EXCEPT !.coverage = TakeCoverage(@, epoch), !.claim = EndRunningLeg(@)]
    BY DEF Sound, Entries
<1> HIDE DEF p, q
<1> QED
    BY <1>1, <1>2, <1>3, SoundSteps

LEMMA RefuseConflictMoves == ASSUME NEW s, Sound(s) PROVE Moves(s, RefuseConflict(s))
<1> DEFINE cleared == ClearRungs(ClearPending(InvalidateClaim(s)))
           refused == [cleared EXCEPT !.identity = FALSE, !.duplicate = TRUE]
           opened == OpenClaim(refused)
           taken == [opened EXCEPT !.coverage = TakeCoverage(@, opened.claim.epoch),
                                   !.claim = EndRunningLeg(@)]
<1>1. Moves(s, cleared)
    <2>1. Moves(s, InvalidateClaim(s)) /\ InvalidateClaim(s) \in Entries
        BY GateKeeps DEF Moves, Sound, SlotKept
    <2>2. Alike(InvalidateClaim(s), ClearPending(InvalidateClaim(s)))
          /\ ClearPending(InvalidateClaim(s)) \in Entries
        BY <2>1, FactsAlike DEF Alike, Batches
    <2>3. Alike(InvalidateClaim(s), cleared)
        BY <2>2, RungsAlike, AlikeTransitive
    <2> QED
        BY <2>1, <2>3, ThenAlike
<1>2. Moves(s, refused)
    <2> DEFINE a == [cleared EXCEPT !.identity = FALSE]
    <2>1. cleared \in Entries
        BY <1>1 DEF Moves, Sound, SlotKept
    <2> HIDE DEF cleared
    <2>2. Alike(cleared, a) /\ a \in Entries
        BY <2>1, FlagsMoved DEF Alike
    <2>3. refused = [a EXCEPT !.duplicate = TRUE]
        OBVIOUS
    <2> HIDE DEF a
    <2>4. Alike(a, refused)
        BY <2>2, <2>3, FlagsMoved
    <2> QED
        BY <1>1, <2>2, <2>4, AlikeTransitive, ThenAlike
<1>3. Moves(s, opened)
    <2> HIDE DEF refused
    <2> QED
        BY <1>2, GateKeeps, SoundSteps DEF Moves, SlotKept
<1>4. Moves(s, taken)
    <2> HIDE DEF opened
    <2>1. Sound(opened) /\ opened.claim.epoch \in 0..opened.claim.epoch
        BY <1>3, SoundEpoch DEF Moves, SlotKept
    <2>2. Keeps(opened, taken)
        BY <2>1, TakenKeeps
    <2> HIDE DEF taken
    <2> QED
        BY <1>3, <2>2, SoundSteps
<1>5. Moves(s, BeginRelease(opened)) /\ Moves(s, BeginRelease(taken))
    <2> HIDE DEF opened, taken
    <2> QED
        BY <1>3, <1>4, BeginReleaseKeeps, SoundSteps
<1>6. Moves(s, SetTrust(opened, "Unattached"))
    <2> HIDE DEF opened
    <2> QED
        BY <1>3, TrustAlike, ThenAlike DEF Moves, Sound, Trusts, SlotKept
<1>7. RefuseConflict(s) \in {refused, BeginRelease(taken), BeginRelease(opened),
                             SetTrust(opened, "Unattached")}
    BY DEF RefuseConflict
<1> HIDE DEF refused, opened, taken
<1> QED
    BY <1>2, <1>5, <1>6, <1>7

LEMMA GiveBackCoverageMoves == ASSUME NEW s, Sound(s) PROVE Moves(s, GiveBackCoverage(s))
<1> DEFINE refused == CloseReader(ClearRebuild(InvalidateClaim(s)))
           opened == OpenClaim(refused)
           taken == [opened EXCEPT !.coverage = TakeCoverage(@, refused.claim.epoch),
                                   !.claim = EndRunningLeg(@)]
           given == [opened EXCEPT !.coverage = TakeCoverage(@, refused.claim.epoch),
                                   !.claim = EndRunningLeg(@),
                                   !.detach_in_flight = TRUE]
<1>1. Moves(s, refused)
    <2>1. Moves(s, InvalidateClaim(s)) /\ InvalidateClaim(s) \in Entries
        BY GateKeeps DEF Moves, Sound, SlotKept
    <2>2. Alike(InvalidateClaim(s), ClearRebuild(InvalidateClaim(s)))
          /\ ClearRebuild(InvalidateClaim(s)) \in Entries
        BY <2>1, FlagsAlike DEF Alike
    <2>3. Alike(InvalidateClaim(s), refused)
        BY <2>2, FlagsAlike, AlikeTransitive
    <2> QED
        BY <2>1, <2>3, ThenAlike
<1>2. Keeps(refused, opened) /\ Moves(s, opened)
    <2> HIDE DEF refused
    <2> QED
        BY <1>1, GateKeeps, SoundSteps DEF Moves, SlotKept
<1>3. Moves(s, taken)
    <2> HIDE DEF refused, opened
    <2>1. Sound(opened) /\ refused.claim.epoch \in 0..opened.claim.epoch
        BY <1>1, <1>2, SoundEpoch DEF Moves, Keeps, SlotKept
    <2>2. Keeps(opened, taken)
        BY <2>1, TakenKeeps
    <2> HIDE DEF taken
    <2> QED
        BY <1>2, <2>2, SoundSteps
<1>4. Moves(s, given)
    <2>1. given = [taken EXCEPT !.detach_in_flight = TRUE]
        OBVIOUS
    <2> HIDE DEF taken, given
    <2> QED
        BY <1>3, <2>1, FlagsMoved, ThenAlike DEF Moves, Sound, SlotKept
<1>5. GiveBackCoverage(s) \in {given, opened, refused}
    BY DEF GiveBackCoverage
<1> HIDE DEF refused, opened, given
<1> QED
    BY <1>1, <1>2, <1>4, <1>5

LEMMA EndGiveBackGrows ==
    ASSUME NEW s, Sound(s), NEW epoch \in 0..s.claim.epoch
    PROVE  Grows(s, EndGiveBack(s, epoch))
<1> DEFINE p == [s EXCEPT !.coverage = ReleasedBy(@, epoch)]
           q == [p EXCEPT !.detach_in_flight = FALSE]
<1>1. Keeps(s, p)
    BY CustodyKeeps
<1>2. Keeps(s, q)
    <2> HIDE DEF p
    <2> QED
        BY <1>1, FlagsMoved, ThenAlike DEF Keeps, Sound, SlotKept
<1>3. EndGiveBack(s, epoch) = ScheduleDemandedWork(q)
    BY DEF EndGiveBack
<1> HIDE DEF q
<1> QED
    BY <1>2, <1>3, ScheduleGrows, SoundSteps

----------------------------------------------------------------------------
(* The invariant                                                           *)

ThreadSound(r, epoch) ==
    /\ r \in ThreadStates
    /\ r.job.epoch \in 0..epoch /\ r.next.epoch \in 0..epoch
    /\ r.followup.epoch \in 0..epoch /\ r.rel \in 0..epoch /\ r.lost \in 0..epoch

\* A thread that is to send a job has one, and knows where it goes from there
\* only while it sends or gives something back.
Sends(r) ==
    /\ r.pc = "handing" \/ r.after = "handing" => r.next \in Jobs
    /\ r.pc = "sending" => r.followup \in Jobs
    /\ r.after # "sending"
    /\ r.after # "idle" => r.pc \in {"releasing", "returning", "sending"}

ThreadInv ==
    /\ thread \in [Threads -> ThreadStates]
    /\ \A t \in Threads : ThreadSound(thread[t], entry.claim.epoch) /\ Sends(thread[t])

ChannelInv ==
    /\ queue \in Seq(Jobs)
    /\ \A i \in DOMAIN queue : queue[i].epoch \in 0..entry.claim.epoch
    /\ sends \in SUBSET Jobs
    /\ \A job \in sends : job.epoch \in 0..entry.claim.epoch

RestInv ==
    /\ reads \in Nat /\ underived \in BOOLEAN
    /\ demands \in 0..MaxDemands /\ events \in 0..MaxEvents

Inv == Sound(entry) /\ ThreadInv /\ ChannelInv /\ RestInv

\* A step that gives the queue slot to a job, which is then on its way.
Gives ==
    /\ Rises(entry, entry')
    /\ \E job \in InFlight' : job.epoch = entry.claim.slot'

\* What every step does.
Preserves ==
    /\ Grows(entry, entry') \/ Gives
    /\ ThreadInv' /\ ChannelInv' /\ RestInv'

----------------------------------------------------------------------------
(* Threads                                                                 *)

LEMMA IdleSound ==
    ASSUME NEW epoch \in Nat
    PROVE  ThreadSound(Idle, epoch) /\ Sends(Idle)
<1>1. NoJob.epoch = 0 /\ NoJob.kind = "none"
    BY DEF NoJob
<1>2. NoJob \in Work
    BY DEF NoJob, Work
<1>3. Idle \in ThreadStates
    BY <1>2 DEF Idle, ThreadStates, Pcs
<1> QED
    BY <1>1, <1>3 DEF ThreadSound, Sends, Idle

LEMMA Epochs ==
    ASSUME Inv, Grows(entry, entry') \/ Rises(entry, entry')
    PROVE  /\ entry.claim.epoch \in Nat /\ entry.claim.epoch' \in Nat
           /\ entry.claim.epoch' >= entry.claim.epoch
BY SoundEpoch DEF Inv, Grows, Rises, SlotKept

\* What holds of a thread goes on holding while the epoch grows.
LEMMA ThreadStaysSound ==
    ASSUME Inv, Grows(entry, entry') \/ Rises(entry, entry'), NEW t \in Threads
    PROVE  ThreadSound(thread[t], entry.claim.epoch') /\ Sends(thread[t])
BY Epochs DEF Inv, ThreadInv, ThreadSound

LEMMA ThreadMoved ==
    ASSUME Inv, Grows(entry, entry') \/ Rises(entry, entry'), NEW t \in Threads, NEW r,
           ThreadSound(r, entry.claim.epoch'), Sends(r), thread' = [thread EXCEPT ![t] = r]
    PROVE  ThreadInv'
<1>1. thread' \in [Threads -> ThreadStates]
    BY DEF Inv, ThreadInv, ThreadSound
<1>2. ASSUME NEW u \in Threads
      PROVE  ThreadSound(thread'[u], entry.claim.epoch') /\ Sends(thread'[u])
    <2>1. thread'[u] = IF u = t THEN r ELSE thread[u]
        BY DEF Inv, ThreadInv
    <2> QED
        BY <2>1, ThreadStaysSound
<1> QED
    BY <1>1, <1>2 DEF ThreadInv

LEMMA ThreadsStay ==
    ASSUME Inv, Grows(entry, entry') \/ Rises(entry, entry'), UNCHANGED thread
    PROVE  ThreadInv'
BY ThreadStaysSound DEF Inv, ThreadInv

LEMMA MovedSound ==
    ASSUME NEW epoch \in Nat, NEW r, ThreadSound(r, epoch), NEW pc \in Pcs, NEW held \in BOOLEAN,
           pc # "sending", pc = "handing" => r.next \in Jobs
    PROVE  ThreadSound(Moved(r, pc, held), epoch) /\ Sends(Moved(r, pc, held))
<1> DEFINE q == [r EXCEPT !.pc = pc, !.held = held, !.after = "idle"]
<1>1. q \in ThreadStates
    BY DEF ThreadSound, ThreadStates, Pcs
<1>2. /\ q.job = r.job /\ q.next = r.next /\ q.followup = r.followup
      /\ q.rel = r.rel /\ q.lost = r.lost /\ q.pc = pc /\ q.after = "idle"
    BY DEF ThreadSound, ThreadStates
<1>3. ThreadSound(q, epoch) /\ Sends(q)
    BY <1>1, <1>2 DEF ThreadSound, Sends
<1> QED
    BY <1>3, IdleSound DEF Moved

LEMMA GoesSound ==
    ASSUME Inv, Grows(entry, entry') \/ Rises(entry, entry'), NEW t \in Threads, NEW pc \in Pcs, NEW held \in BOOLEAN,
           pc # "sending", pc = "handing" => thread[t].next \in Jobs, Goes(t, pc, held)
    PROVE  ThreadInv'
<1>1. /\ ThreadSound(Moved(thread[t], pc, held), entry.claim.epoch')
      /\ Sends(Moved(thread[t], pc, held))
    BY Epochs, ThreadStaysSound, MovedSound
<1>2. thread' = [thread EXCEPT ![t] = Moved(thread[t], pc, held)]
    BY DEF Goes
<1> QED
    BY <1>1, <1>2, ThreadMoved

LEMMA RestsSound ==
    ASSUME Inv, Grows(entry, entry') \/ Rises(entry, entry'), NEW t \in Threads, Rests(t)
    PROVE  ThreadInv'
BY Epochs, IdleSound, ThreadMoved DEF Rests

\* A thread state with some of its fields replaced.
LEMMA FieldsSound ==
    ASSUME NEW epoch \in Nat, NEW r, ThreadSound(r, epoch),
           NEW pc \in Pcs, NEW after \in Pcs, NEW held \in BOOLEAN,
           NEW job \in Jobs \cup {NoJob}, job.epoch \in 0..epoch, NEW n \in 0..epoch
    PROVE  /\ ThreadSound([r EXCEPT !.pc = pc], epoch)
           /\ ThreadSound([r EXCEPT !.after = after], epoch)
           /\ ThreadSound([r EXCEPT !.held = held], epoch)
           /\ ThreadSound([r EXCEPT !.next = job], epoch)
           /\ ThreadSound([r EXCEPT !.followup = job], epoch)
           /\ ThreadSound([r EXCEPT !.rel = n], epoch)
           /\ ThreadSound([r EXCEPT !.lost = n], epoch)
<1>1. /\ ThreadSound([r EXCEPT !.pc = pc], epoch)
      /\ ThreadSound([r EXCEPT !.after = after], epoch)
      /\ ThreadSound([r EXCEPT !.held = held], epoch)
    BY DEF ThreadSound, ThreadStates
<1>2. /\ ThreadSound([r EXCEPT !.next = job], epoch)
      /\ ThreadSound([r EXCEPT !.followup = job], epoch)
    BY DEF ThreadSound, ThreadStates
<1>3. n \in Nat
    OBVIOUS
<1>4. /\ ThreadSound([r EXCEPT !.rel = n], epoch)
      /\ ThreadSound([r EXCEPT !.lost = n], epoch)
    BY <1>3 DEF ThreadSound, ThreadStates
<1> QED
    BY <1>1, <1>2, <1>4

LEMMA NoJobSound ==
    ASSUME NEW epoch \in Nat
    PROVE  NoJob \in Jobs \cup {NoJob} /\ NoJob.epoch \in 0..epoch
BY DEF NoJob

LEMMA ResumesSound ==
    ASSUME Inv, Grows(entry, entry') \/ Rises(entry, entry'), NEW t \in Threads, Resumes(t)
    PROVE  ThreadInv'
<1> DEFINE r == thread[t]
           p == [r EXCEPT !.followup = NoJob]
           q == [p EXCEPT !.rel = 0]
           epoch == entry.claim.epoch'
<1>1. epoch \in Nat /\ 0 \in 0..epoch /\ NoJob \in Jobs \cup {NoJob} /\ NoJob.epoch \in 0..epoch
      /\ "idle" \in Pcs
    BY Epochs, NoJobSound DEF Pcs
<1>2. ThreadSound(r, epoch)
    BY ThreadStaysSound
<1>3. ThreadSound(p, epoch)
    <2> HIDE DEF epoch
    <2> QED
        BY <1>1, <1>2, FieldsSound
<1>4. ThreadSound(q, epoch)
    <2> HIDE DEF p, epoch
    <2> QED
        BY <1>1, <1>3, FieldsSound
<1>5. /\ r.after \in Pcs /\ q.next = r.next
      /\ r.after # "sending" /\ (r.after = "handing" => r.next \in Jobs)
    BY <1>2, ThreadStaysSound DEF ThreadSound, ThreadStates, Sends
<1>6. thread' = [thread EXCEPT ![t] = Moved(q, r.after, FALSE)]
    BY DEF Resumes
<1> HIDE DEF q, epoch
<1>7. ThreadSound(Moved(q, r.after, FALSE), epoch) /\ Sends(Moved(q, r.after, FALSE))
    BY <1>1, <1>4, <1>5, MovedSound
<1> QED
    BY <1>6, <1>7, ThreadMoved DEF epoch

LEMMA HandsOnSound ==
    ASSUME Inv, Grows(entry, entry') \/ Rises(entry, entry'), NEW t \in Threads,
           NEW next \in Jobs \cup {NoJob}, next.epoch <= entry.claim.epoch',
           At(t, "working"), HandsOn(t, next)
    PROVE  ThreadInv'
<1> DEFINE r == thread[t]
           pc == IF next = NoJob THEN "ending" ELSE "handing"
           p == [r EXCEPT !.pc = pc]
           q == [p EXCEPT !.held = FALSE]
           epoch == entry.claim.epoch'
<1>1. epoch \in Nat /\ 0 \in 0..epoch /\ next.epoch \in 0..epoch /\ pc \in Pcs
    BY Epochs, NothingTyped DEF Jobs, Pcs
<1>2. ThreadSound(r, epoch)
    BY ThreadStaysSound
<1>3. thread' = [thread EXCEPT ![t] = [q EXCEPT !.next = next]]
    BY DEF HandsOn
<1> HIDE DEF pc, epoch
<1>4. ThreadSound(p, epoch)
    BY <1>1, <1>2, FieldsSound
<1> HIDE DEF p
<1>5. ThreadSound(q, epoch)
    BY <1>1, <1>4, FieldsSound
<1> HIDE DEF q
<1>6. ThreadSound([q EXCEPT !.next = next], epoch)
    BY <1>1, <1>5, FieldsSound
<1>7. r \in ThreadStates /\ r.after = "idle"
    BY <1>2, ThreadStaysSound DEF ThreadSound, Sends, At
<1>8. /\ [q EXCEPT !.next = next].pc = pc /\ [q EXCEPT !.next = next].after = r.after
      /\ [q EXCEPT !.next = next].next = next
    BY <1>7 DEF ThreadStates, p, q
<1>9. pc # "sending" /\ (pc = "handing" => next \in Jobs)
    BY DEF pc
<1>10. Sends([q EXCEPT !.next = next])
    BY <1>7, <1>8, <1>9 DEF Sends
<1> QED
    BY <1>3, <1>6, <1>10, ThreadMoved DEF epoch

LEMMA GoesReleasingSound ==
    ASSUME Inv, Grows(entry, entry') \/ Rises(entry, entry'), NEW t \in Threads, NEW held \in BOOLEAN,
           NEW epoch \in 0..entry.claim.epoch', NEW pc \in Pcs, NEW after \in Pcs,
           pc \in {"releasing", "returning"} \/ (pc = "reclaiming" /\ after = "idle"),
           after # "sending", after = "handing" => thread[t].next \in Jobs,
           thread' = [thread EXCEPT ![t] =
               [@ EXCEPT !.pc = pc, !.held = held, !.rel = epoch, !.after = after]]
    PROVE  ThreadInv'
<1> DEFINE bound == entry.claim.epoch'
           r == thread[t]
           p == [r EXCEPT !.pc = pc]
           q == [p EXCEPT !.held = held]
           x == [q EXCEPT !.rel = epoch]
<1>1. bound \in Nat /\ ThreadSound(r, bound) /\ epoch \in 0..bound
    BY Epochs, ThreadStaysSound
<1>2. NoJob \in Jobs \cup {NoJob} /\ NoJob.epoch \in 0..bound
    BY <1>1, NoJobSound
<1>3. thread' = [thread EXCEPT ![t] = [x EXCEPT !.after = after]]
    OBVIOUS
<1> HIDE DEF bound
<1>4. ThreadSound(p, bound)
    BY <1>1, <1>2, FieldsSound
<1> HIDE DEF p
<1>5. ThreadSound(q, bound)
    BY <1>1, <1>2, <1>4, FieldsSound
<1> HIDE DEF q
<1>6. ThreadSound(x, bound)
    BY <1>1, <1>2, <1>5, FieldsSound
<1> HIDE DEF x
<1>7. ThreadSound([x EXCEPT !.after = after], bound)
    BY <1>1, <1>2, <1>6, FieldsSound
<1>8. /\ [x EXCEPT !.after = after].pc = pc /\ [x EXCEPT !.after = after].after = after
      /\ [x EXCEPT !.after = after].next = r.next
    BY <1>1 DEF ThreadSound, ThreadStates, p, q, x
<1>9. Sends([x EXCEPT !.after = after])
    BY <1>8 DEF Sends
<1> QED
    BY <1>3, <1>7, <1>9, ThreadMoved DEF bound

----------------------------------------------------------------------------
(* The rest                                                                *)

LEMMA ChannelStays ==
    ASSUME Inv, Grows(entry, entry') \/ Rises(entry, entry'), UNCHANGED Channel
    PROVE  ChannelInv'
<1>1. queue' = queue /\ sends' = sends
    BY DEF Channel
<1> QED
    BY <1>1, Epochs, LenProperties DEF Inv, ChannelInv, Jobs

LEMMA RestStays ==
    ASSUME Inv, UNCHANGED Client, Event \/ NoEvent, underived' \in BOOLEAN
    PROVE  RestInv'
BY BudgetsAssumption DEF Inv, RestInv, Client, Event, NoEvent

LEMMA Concludes ==
    ASSUME Inv, Grows(entry, entry') \/ Gives, ThreadInv', UNCHANGED Channel, UNCHANGED Client,
           Event \/ NoEvent, underived' \in BOOLEAN
    PROVE  Preserves
BY ChannelStays, RestStays DEF Preserves, Gives

LEMMA Facts ==
    ASSUME Inv
    PROVE  /\ Sound(entry) /\ entry \in Entries /\ Keeps(entry, entry) /\ Grows(entry, entry)
           /\ entry.claim.epoch \in Nat /\ ClaimSound(entry.claim)
           /\ underived \in BOOLEAN /\ \A w \in Workers : w \in Threads
           /\ Dispatcher \in Threads /\ Registrar \in Threads
BY SoundSteps, SoundEpoch DEF Inv, RestInv, Sound, Threads

LEMMA ThreadFacts ==
    ASSUME Inv, NEW t \in Threads
    PROVE  /\ EpochOf(t) \in 0..entry.claim.epoch
           /\ LegOf(t) \in Legs /\ LegOf(t).epoch = EpochOf(t)
           /\ JobLeg(EpochOf(t)) \in Legs
           /\ thread[t].next \in Jobs \cup {NoJob}
           /\ thread[t].next.epoch \in 0..entry.claim.epoch
           /\ thread[t].followup \in Jobs \cup {NoJob}
           /\ thread[t].followup.epoch \in 0..entry.claim.epoch
           /\ thread[t].rel \in 0..entry.claim.epoch
           /\ thread[t].lost \in 0..entry.claim.epoch
           /\ thread[t].held \in BOOLEAN /\ thread[t].after \in Pcs
           /\ thread[t].job \in Work /\ ThreadSound(thread[t], entry.claim.epoch)
           /\ Sends(thread[t])
<1>1. ThreadSound(thread[t], entry.claim.epoch) /\ Sends(thread[t])
    BY DEF Inv, ThreadInv
<1>2. EpochOf(t) \in 0..entry.claim.epoch /\ EpochOf(t) \in Nat
    BY <1>1 DEF ThreadSound, EpochOf
<1>3. PollLeg(EpochOf(t)) \in Legs /\ JobLeg(EpochOf(t)) \in Legs
      /\ PollLeg(EpochOf(t)).epoch = EpochOf(t) /\ JobLeg(EpochOf(t)).epoch = EpochOf(t)
    BY <1>2 DEF PollLeg, JobLeg, Legs, LegKinds
<1>4. LegOf(t) \in Legs /\ LegOf(t).epoch = EpochOf(t)
    BY <1>3 DEF LegOf
<1> QED
    BY <1>1, <1>2, <1>3, <1>4 DEF ThreadSound, ThreadStates

LEMMA UnpinnedKeeps ==
    ASSUME Inv, NEW t \in Threads
    PROVE  Keeps(entry, UnpinLeg(entry, LegOf(t))) /\ Keeps(entry, Unpinned(t))
BY ThreadFacts, PinKeeps DEF Inv, Unpinned

----------------------------------------------------------------------------
(* A worker takes a job                                                    *)

LEMMA ReceivePreserves == ASSUME Inv, NEW w \in Workers, Receive(w) PROVE Preserves
<1> DEFINE r == [Idle EXCEPT !.pc = "received", !.job = Head(queue)]
           epoch == entry.claim.epoch
<1>1. /\ w \in Threads /\ epoch \in Nat /\ Grows(entry, entry) /\ underived \in BOOLEAN
      /\ entry' = entry
    BY Facts DEF Receive
<1>2. queue \in Seq(Jobs) /\ queue # <<>> /\ 1 \in DOMAIN queue /\ Head(queue) = queue[1]
      /\ Head(queue) \in Jobs
    BY DEF Receive, Inv, ChannelInv
<1>3. Head(queue).epoch \in 0..epoch /\ Head(queue) \in Work
    BY <1>2 DEF Inv, ChannelInv, Jobs, Work
<1>4. ThreadSound(Idle, epoch)
    BY <1>1, IdleSound
<1>5. ThreadSound(r, epoch) /\ Sends(r)
    <2>1. r \in ThreadStates
        BY <1>3, <1>4 DEF ThreadSound, ThreadStates, Pcs
    <2>2. /\ r.job = Head(queue) /\ r.next = Idle.next /\ r.followup = Idle.followup
          /\ r.rel = Idle.rel /\ r.lost = Idle.lost /\ r.pc = "received" /\ r.after = Idle.after
        BY <1>4 DEF ThreadSound, ThreadStates
    <2> QED
        BY <1>3, <1>4, <2>1, <2>2 DEF ThreadSound, Sends, Idle
<1>6. ThreadInv'
    <2>1. thread' = [thread EXCEPT ![w] = r]
        BY DEF Receive
    <2> HIDE DEF r
    <2> QED
        BY <1>1, <1>5, <2>1, ThreadMoved
<1>7. ChannelInv'
    <2>1. queue' = Tail(queue) /\ sends' = sends
        BY DEF Receive
    <2>2. queue' \in Seq(Jobs) /\ Len(queue') = Len(queue) - 1
          /\ \A i \in 1..Len(queue') : queue'[i] = queue[i + 1]
        BY <1>2, <2>1, HeadTailProperties
    <2>3. \A i \in 1..Len(queue') : i + 1 \in DOMAIN queue
        BY <1>2, <2>2, LenProperties
    <2> QED
        BY <1>1, <2>1, <2>2, <2>3, LenProperties DEF Inv, ChannelInv
<1> QED
    BY <1>1, <1>6, <1>7 DEF Preserves, Receive, Inv, RestInv, Client

LEMMA ReceiveStalePreserves == ASSUME Inv, NEW w \in Workers, ReceiveStale(w) PROVE Preserves
<1> DEFINE freed == FreeSlot(entry.claim, EpochOf(w))
           claim == IF freed.marker.epoch = EpochOf(w) THEN DropMarker(freed) ELSE freed
<1>1. Stays(entry.claim, freed)
    BY Facts, ThreadFacts, SlotMovesStay
<1>2. Stays(entry.claim, claim)
    BY <1>1, GateMovesStay DEF Stays, SlotKept
<1>3. entry' = [entry EXCEPT !.claim = claim]
    BY DEF ReceiveStale
<1> HIDE DEF claim
<1>4. Grows(entry, entry')
    BY <1>2, <1>3, Facts, ClaimKeeps, SoundSteps
<1>5. ThreadInv'
    BY <1>4, Facts, RestsSound DEF ReceiveStale
<1> QED
    BY <1>4, <1>5, Facts, Concludes DEF ReceiveStale, NoEvent

LEMMA BeginLegPreserves == ASSUME Inv, NEW w \in Workers, BeginLeg(w) PROVE Preserves
<1> DEFINE freed == FreeSlot(entry.claim, EpochOf(w))
           claim == BeginJobLeg(freed, EpochOf(w))
<1>1. Stays(entry.claim, freed)
    BY Facts, ThreadFacts, SlotMovesStay
<1>2. Stays(entry.claim, claim)
    <2> HIDE DEF freed
    <2>1. ClaimSound(freed) /\ EpochOf(w) \in 0..freed.epoch
        BY <1>1, Facts, ThreadFacts DEF Stays
    <2>2. Stays(freed, claim)
        BY <2>1, LegMovesStay
    <2> HIDE DEF claim
    <2> QED
        BY <1>1, <2>2 DEF Stays, SlotKept
<1>3. entry' = [entry EXCEPT !.claim = claim]
    BY DEF BeginLeg
<1> HIDE DEF claim
<1>4. Grows(entry, entry')
    BY <1>2, <1>3, Facts, ClaimKeeps, SoundSteps
<1>5. ThreadInv'
    BY <1>4, Facts, GoesSound DEF BeginLeg, Pcs
<1> QED
    BY <1>4, <1>5, Facts, Concludes DEF BeginLeg, NoEvent

\* Steps that leave the entry alone, or change it by one known move.
LEMMA IdleStepsPreserve ==
    ASSUME Inv, NEW w \in Workers,
           BegunStale(w) \/ BeginAttach(w) \/ AttachStale(w) \/ EndsByClosing(w)
    PROVE  Preserves
<1>1. Grows(entry, entry') /\ w \in Threads
    BY Facts DEF BegunStale, BeginAttach, AttachStale, EndsByClosing
<1>2. \E pc \in Pcs, held \in BOOLEAN : pc \notin {"sending", "handing"} /\ Goes(w, pc, held)
    BY <1>1, ThreadFacts DEF BegunStale, BeginAttach, AttachStale, EndsByClosing, Pcs
<1>3. ThreadInv'
    BY <1>1, <1>2, GoesSound
<1> QED
    BY <1>1, <1>3, Facts, Concludes DEF BegunStale, BeginAttach, AttachStale, EndsByClosing, NoEvent

----------------------------------------------------------------------------
(* Refusals of the root                                                    *)

LEMMA GoesReleasingKeeps ==
    ASSUME Inv, Grows(entry, entry') \/ Rises(entry, entry'), NEW t \in Threads, NEW held \in BOOLEAN,
           NEW epoch \in 0..entry.claim.epoch', NEW after \in Pcs,
           after # "sending", after = "handing" => thread[t].next \in Jobs,
           GoesReleasing(t, held, epoch, after)
    PROVE  ThreadInv'
<1>1. "releasing" \in Pcs
    BY DEF Pcs
<1> QED
    BY <1>1, GoesReleasingSound DEF GoesReleasing

LEMMA MeetsConflictSound ==
    ASSUME Inv, NEW t \in Threads, NEW held \in BOOLEAN, NEW after \in Pcs,
           after # "sending", after = "handing" => thread[t].next \in Jobs,
           MeetsConflict(t, held, after)
    PROVE  Grows(entry, entry') /\ ThreadInv'
<1>1. Moves(entry, entry')
    BY Facts, RefuseConflictMoves DEF MeetsConflict
<1>2. Grows(entry, entry')
    BY <1>1, Facts, SoundSteps
<1>3. entry.claim.epoch + 1 \in 0..entry.claim.epoch'
    BY <1>1, Facts DEF Moves, SlotKept
<1>4. CASE Goes(t, after, held)
    BY <1>2, <1>4, GoesSound
<1>5. CASE GoesReleasing(t, TRUE, entry.claim.epoch + 1, after)
    BY <1>2, <1>3, <1>5, GoesReleasingKeeps
<1> QED
    BY <1>2, <1>4, <1>5 DEF MeetsConflict

LEMMA MeetsGiveBackSound ==
    ASSUME Inv, NEW t \in Threads, NEW held \in BOOLEAN, NEW after \in Pcs, NEW s,
           after # "sending", after = "handing" => thread[t].next \in Jobs,
           Keeps(entry, s), MeetsGiveBack(s, t, held, after)
    PROVE  Grows(entry, entry') /\ ThreadInv'
<1>1. Moves(s, entry')
    BY GiveBackCoverageMoves DEF Keeps, MeetsGiveBack, SlotKept
<1>2. Grows(entry, entry')
    BY <1>1, Facts, SoundSteps
<1>3. s.claim.epoch + 1 \in 0..entry.claim.epoch'
    BY <1>1, Facts DEF Moves, Keeps, SlotKept
<1>4. CASE Goes(t, after, held)
    BY <1>2, <1>4, GoesSound
<1>5. CASE thread' = [thread EXCEPT ![t] =
               [@ EXCEPT !.pc = "returning", !.held = TRUE,
                         !.rel = s.claim.epoch + 1, !.after = after]]
    <2>1. "returning" \in Pcs
        BY DEF Pcs
    <2> QED
        BY <1>2, <1>3, <1>5, <2>1, GoesReleasingSound
<1> QED
    BY <1>2, <1>4, <1>5 DEF MeetsGiveBack

LEMMA MeetsIdentityRefusalSound ==
    ASSUME Inv, NEW t \in Threads, NEW held \in BOOLEAN, NEW after \in Pcs,
           after # "sending", after = "handing" => thread[t].next \in Jobs,
           MeetsIdentityRefusal(entry, t, held, after)
    PROVE  Grows(entry, entry') /\ ThreadInv'
<1>1. Keeps(entry, IdentityRefused(entry))
    BY Facts, PublishAlike, AlikeKeeps
<1> QED
    BY <1>1, MeetsGiveBackSound DEF MeetsIdentityRefusal

----------------------------------------------------------------------------
(* Attach                                                                  *)

LEMMA AttachRefusedPreserves == ASSUME Inv, NEW w \in Workers, AttachRefused(w) PROVE Preserves
<1> DEFINE gated == ReleaseGate(entry)
           cleared == [gated EXCEPT !.damage = FALSE]
<1>1. Keeps(entry, gated) /\ gated \in Entries
    BY Facts, GateKeeps DEF Keeps, Sound, SlotKept
<1>2. Keeps(entry, ParkIdentityRefusal(gated))
    <2> HIDE DEF gated
    <2> QED
        BY <1>1, Facts, PublishAlike, ThenAlike
<1>3. Alike(gated, cleared) /\ cleared \in Entries
    <2> HIDE DEF gated
    <2> QED
        BY <1>1, FlagsMoved DEF Alike
<1>4. Keeps(entry, ParkIdentityRefusal(cleared))
    <2> HIDE DEF gated, cleared
    <2> QED
        BY <1>1, <1>3, Facts, PublishAlike, ThenAlike
<1>5. Keeps(entry, entry')
    BY <1>2, <1>4, Facts DEF AttachRefused
<1>6. Grows(entry, entry') /\ w \in Threads
    BY <1>5, Facts, SoundSteps
<1>7. ThreadInv'
    BY <1>6, GoesSound DEF AttachRefused, Pcs
<1> QED
    BY <1>6, <1>7, Facts, Concludes DEF AttachRefused

LEMMA AttachConflictPreserves == ASSUME Inv, NEW w \in Workers, AttachConflict(w) PROVE Preserves
<1>1. w \in Threads /\ "ending" \in Pcs
    BY Facts DEF Pcs
<1>2. Grows(entry, entry') /\ ThreadInv'
    BY <1>1, MeetsConflictSound DEF AttachConflict
<1> QED
    BY <1>2, Facts, Concludes DEF AttachConflict

LEMMA AttachMovedPreserves == ASSUME Inv, NEW w \in Workers, AttachMoved(w) PROVE Preserves
<1>1. Grows(entry, entry') /\ w \in Threads
    BY Facts, BeginReleaseKeeps, SoundSteps DEF AttachMoved
<1>2. ThreadInv'
    BY <1>1, GoesSound DEF AttachMoved, Pcs
<1> QED
    BY <1>1, <1>2, Facts, Concludes DEF AttachMoved

\* An attach that completed leaves a well-formed entry at its epoch.
LEMMA AttachedKeeps ==
    ASSUME Inv, NEW observed \in Batches, NEW minted \in BOOLEAN
    PROVE  Keeps(entry, Attached(entry, observed, minted))
<1> DEFINE a == ReleaseGate(entry)
           b == Merge(a, observed)
           c == InstallCoverage(b, minted)
           d == ClearRungs(c)
           e == [d EXCEPT !.identity = FALSE]
           f == [e EXCEPT !.duplicate = FALSE]
           g == [f EXCEPT !.contended = FALSE]
<1>1. Keeps(entry, a)
    BY Facts, GateKeeps
<1>2. Attached(entry, observed, minted) = g
    BY DEF Attached
<1> HIDE DEF a
<1>3. Keeps(entry, b)
    BY <1>1, Facts, FactsAlike, ThenAlike DEF Keeps, Sound, SlotKept
<1> HIDE DEF b
<1>4. Keeps(entry, c)
    <2>1. b.claim.epoch \in Nat /\ 0 \in 0..b.claim.epoch
        BY <1>3, SoundEpoch DEF Keeps, SlotKept
    <2>2. Keeps(b, c)
        BY <1>3, <2>1, ParkKeeps DEF Keeps, SlotKept
    <2> QED
        BY <1>3, <2>2, Facts, SoundSteps
<1> HIDE DEF c
<1>5. Keeps(entry, d)
    BY <1>4, Facts, RungsAlike, ThenAlike DEF Keeps, Sound, SlotKept
<1> HIDE DEF d
<1>6. Keeps(entry, e)
    BY <1>5, Facts, FlagsMoved, ThenAlike DEF Keeps, Sound, SlotKept
<1> HIDE DEF e
<1>7. Keeps(entry, f)
    BY <1>6, Facts, FlagsMoved, ThenAlike DEF Keeps, Sound, SlotKept
<1> HIDE DEF f
<1>8. Keeps(entry, g)
    BY <1>7, Facts, FlagsMoved, ThenAlike DEF Keeps, Sound, SlotKept
<1> QED
    BY <1>2, <1>8

----------------------------------------------------------------------------
(* What a leg hands on as it ends                                          *)

LEMMA HandsOnNothing ==
    ASSUME Inv, NEW t \in Threads, At(t, "working"), NEW s, Keeps(entry, s), entry' = s,
           HandsOn(t, NoJob)
    PROVE  Grows(entry, entry') /\ ThreadInv'
<1>1. Grows(entry, entry')
    BY Facts, SoundSteps
<1>2. NoJob.epoch <= entry.claim.epoch'
    BY <1>1, Epochs, NothingTyped
<1> QED
    BY <1>1, <1>2, HandsOnSound

\* The job handed on is one of the epoch the entry moves on to.
LEMMA HandsOnKind ==
    ASSUME Inv, NEW t \in Threads, At(t, "working"), NEW s, Keeps(entry, s),
           NEW kind \in JobKinds, HandsOn(t, HandedOn(s.claim, kind)),
           \/ entry' = HandOnTo(s, kind)
           \/ entry' = ScheduleJob(s, kind)
           \/ entry' = HandOnTo(TakeDamage(s), kind)
    PROVE  Grows(entry, entry') /\ ThreadInv'
<1>1. Sound(s) /\ s \in Entries
    BY DEF Keeps, Sound, SlotKept
<1>2. Alike(s, TakeDamage(s)) /\ Sound(TakeDamage(s))
    BY <1>1, RungsAlike, AlikeKeeps DEF Keeps, SlotKept
<1>3. Moves(s, entry')
    <2>1. Moves(s, HandOnTo(s, kind)) /\ Moves(s, ScheduleJob(s, kind))
        BY <1>1, ScheduleMoves
    <2>2. Moves(TakeDamage(s), HandOnTo(TakeDamage(s), kind))
        BY <1>2, ScheduleMoves
    <2> QED
        BY <1>1, <1>2, <2>1, <2>2, AlikeThen
<1>4. Grows(entry, entry')
    BY <1>3, Facts, SoundSteps
<1>5. /\ HandedOn(s.claim, kind) \in Jobs
      /\ HandedOn(s.claim, kind).epoch = s.claim.epoch + 1
    BY <1>1, ScheduleMoves
<1>6. entry.claim.epoch' = s.claim.epoch + 1 /\ s.claim.epoch + 1 \in Nat
    BY <1>1, <1>3, SoundEpoch DEF Moves, SlotKept
<1>7. HandedOn(s.claim, kind).epoch <= entry.claim.epoch'
    BY <1>5, <1>6
<1> QED
    BY <1>4, <1>5, <1>7, HandsOnSound

LEMMA DueDetachSound ==
    ASSUME Inv, NEW s, Keeps(entry, s), entry' = ScheduleDueDetach(s)
    PROVE  /\ Grows(entry, entry')
           /\ DueDetach(s) \in Jobs \cup {NoJob}
           /\ DueDetach(s).epoch \in 0..entry.claim.epoch'
           /\ DueDetach(s).epoch <= entry.claim.epoch'
<1>1. Sound(s) /\ s.claim.epoch \in Nat
    BY SoundEpoch DEF Keeps, SlotKept
<1>2. Grows(entry, entry')
    BY <1>1, Facts, SoundSteps, ScheduleGrows
<1>3. CASE CanScheduleDueDetach(s)
    <2>1. entry'.claim.epoch = s.claim.epoch + 1
        BY <1>1, <1>3, ScheduleGrows DEF Moves, SlotKept
    <2>2. DueDetach(s) = [kind |-> "Detach", epoch |-> s.claim.epoch + 1]
        BY <1>3 DEF DueDetach
    <2> QED
        BY <1>1, <1>2, <2>1, <2>2 DEF Jobs, JobKinds
<1>4. CASE ~CanScheduleDueDetach(s)
    BY <1>2, <1>4, Epochs, NothingTyped DEF DueDetach
<1> QED
    BY <1>3, <1>4

LEMMA HandsOnDetach ==
    ASSUME Inv, NEW t \in Threads, At(t, "working"), NEW s, Keeps(entry, s),
           HandsOnDueDetach(t, s)
    PROVE  Grows(entry, entry') /\ ThreadInv'
<1>1. Grows(entry, entry') /\ DueDetach(s) \in Jobs \cup {NoJob}
      /\ DueDetach(s).epoch <= entry.claim.epoch'
    BY DueDetachSound DEF HandsOnDueDetach
<1> QED
    BY <1>1, HandsOnSound DEF HandsOnDueDetach

\* A data move of a state the entry may be in is a state it may be in.
LEMMA AlikeKept ==
    ASSUME Inv, NEW s, NEW r, Keeps(entry, s), s \in Entries => Alike(s, r)
    PROVE  Keeps(entry, r)
BY Facts, ThenAlike DEF Keeps, Sound, SlotKept

LEMMA AttachSucceedsPreserves == ASSUME Inv, NEW w \in Workers, AttachSucceeds(w) PROVE Preserves
<1>1. w \in Threads /\ At(w, "working")
    BY Facts DEF AttachSucceeds
<1>2. PICK observed \in Batches, minted \in BOOLEAN :
        LET attached == Attached(entry, observed, minted) IN
        /\ Observes(observed)
        /\ underived' = (observed # "none")
        /\ IF entry.damage
           THEN /\ entry' = HandOnTo(TakeDamage(attached), "Rebuild")
                /\ HandsOn(w, HandedOn(attached.claim, "Rebuild"))
           ELSE IF attached.pending = "none"
           THEN /\ entry' = SetTrust(attached, "Ready")
                /\ HandsOn(w, NoJob)
           ELSE /\ entry' = HandOnTo(PublishPendingReconcile(attached), "Reconcile")
                /\ HandsOn(w, HandedOn(attached.claim, "Reconcile"))
    BY DEF AttachSucceeds
<1> DEFINE attached == Attached(entry, observed, minted)
           healing == PublishPendingReconcile(attached)
<1>3. Keeps(entry, attached)
    BY AttachedKeeps
<1> HIDE DEF attached
<1>4. /\ Keeps(entry, SetTrust(attached, "Ready"))
      /\ Keeps(entry, healing)
    BY <1>3, AlikeKept, TrustAlike, PublishAlike DEF Trusts
<1>5. healing.claim = attached.claim
    BY <1>3, PublishAlike DEF Alike, Keeps, Sound, SlotKept
<1>6. "Rebuild" \in JobKinds /\ "Reconcile" \in JobKinds
    BY DEF JobKinds
<1>7. \/ /\ entry' = HandOnTo(TakeDamage(attached), "Rebuild")
         /\ HandsOn(w, HandedOn(attached.claim, "Rebuild"))
      \/ /\ entry' = SetTrust(attached, "Ready")
         /\ HandsOn(w, NoJob)
      \/ /\ entry' = HandOnTo(healing, "Reconcile")
         /\ HandsOn(w, HandedOn(attached.claim, "Reconcile"))
    BY <1>2 DEF attached
<1>8. HandedOn(attached.claim, "Reconcile") = HandedOn(healing.claim, "Reconcile")
    BY <1>5
<1> HIDE DEF healing
<1>9. Grows(entry, entry') /\ ThreadInv'
    BY <1>1, <1>3, <1>4, <1>6, <1>7, <1>8, HandsOnKind, HandsOnNothing
<1>10. underived' \in BOOLEAN /\ (Event \/ NoEvent)
    BY <1>2 DEF Observes
<1> QED
    BY <1>9, <1>10, Concludes DEF AttachSucceeds

LEMMA AttachWithheldPreserves == ASSUME Inv, NEW w \in Workers, AttachWithheld(w) PROVE Preserves
<1>1. w \in Threads /\ At(w, "working")
    BY Facts DEF AttachWithheld
<1>2. PICK tookInAFact \in BOOLEAN, minted \in BOOLEAN :
        LET observed == IF tookInAFact THEN "facts" ELSE "none" IN
        /\ entry' = [WithholdTrust(Attached(entry, observed, minted), tookInAFact)
                        EXCEPT !.damage = entry.damage]
        /\ underived' = tookInAFact
    BY DEF AttachWithheld
<1> DEFINE attached == Attached(entry, IF tookInAFact THEN "facts" ELSE "none", minted)
           withheld == WithholdTrust(attached, tookInAFact)
<1>3. Keeps(entry, attached)
    BY AttachedKeeps DEF Batches
<1> HIDE DEF attached
<1>4. Keeps(entry, withheld)
    BY <1>3, AlikeKept, PublishAlike
<1> HIDE DEF withheld
<1>5. entry.damage \in BOOLEAN
    BY Facts DEF Entries
<1>6. Keeps(entry, [withheld EXCEPT !.damage = entry.damage])
    BY <1>4, <1>5, AlikeKept, FlagsMoved
<1>7. entry' = [withheld EXCEPT !.damage = entry.damage]
    BY <1>2 DEF withheld, attached
<1>8. Grows(entry, entry') /\ ThreadInv'
    BY <1>1, <1>6, <1>7, HandsOnNothing DEF AttachWithheld
<1> QED
    BY <1>2, <1>8, Concludes DEF AttachWithheld

LEMMA AttachFailsPreserves == ASSUME Inv, NEW w \in Workers, AttachFails(w) PROVE Preserves
<1>1. w \in Threads /\ At(w, "working")
    BY Facts DEF AttachFails
<1>2. PICK failure \in Failures : entry' = FailedAttach(entry, failure)
    BY DEF AttachFails
<1> DEFINE gated == ReleaseGate(entry)
           let_go == [gated EXCEPT !.damage = FALSE]
           parked == [let_go EXCEPT !.contended = TRUE]
           bare == ClearPending(let_go)
<1>3. Keeps(entry, gated)
    BY Facts, GateKeeps
<1>4. Keeps(entry, let_go)
    <2> HIDE DEF gated
    <2> QED
        BY <1>3, AlikeKept, FlagsMoved
<1>5. entry' = SetTrust(parked, "Unattached") \/ entry' = SetTrust(bare, "Unattached")
      \/ entry' = SetTrust(let_go, "Untrusted")
    BY <1>2 DEF FailedAttach, Failures
<1> HIDE DEF let_go
<1>6. /\ Keeps(entry, parked)
      /\ Keeps(entry, bare)
    <2>1. "none" \in Batches
        BY DEF Batches
    <2> QED
        BY <1>4, <2>1, AlikeKept, FlagsMoved, FactsAlike
<1> HIDE DEF parked, bare
<1>7. Keeps(entry, entry')
    BY <1>4, <1>5, <1>6, AlikeKept, TrustAlike DEF Trusts, Distrust
<1>8. Grows(entry, entry') /\ ThreadInv'
    BY <1>1, <1>7, HandsOnNothing DEF AttachFails
<1> QED
    BY <1>8, Facts, Concludes DEF AttachFails

----------------------------------------------------------------------------
(* The first hold of a leg, and the ends of a leg that fails               *)

LEMMA WorkerJobs ==
    ASSUME Inv, NEW w \in Workers, KindOf(w) \in CoverageJobs
    PROVE  thread[w].job \in Jobs /\ thread[w].job.epoch \in 0..entry.claim.epoch
<1>1. thread[w].job \in Work /\ EpochOf(w) \in 0..entry.claim.epoch
    BY Facts, ThreadFacts
<1>2. thread[w].job = [kind |-> KindOf(w), epoch |-> EpochOf(w)] /\ EpochOf(w) \in Nat
    BY <1>1 DEF Work, KindOf, EpochOf
<1>3. KindOf(w) \in JobKinds
    BY DEF CoverageJobs, JobKinds
<1> QED
    BY <1>1, <1>2, <1>3 DEF Jobs, EpochOf

LEMMA LosesClaimPreserves == ASSUME Inv, NEW w \in Workers, LosesClaim(w) PROVE Preserves
<1> DEFINE job == thread[w].job
           restored == Restore(entry.claim, job)
<1>1. job \in Jobs /\ job.epoch <= entry.claim.epoch
    BY WorkerJobs, Facts DEF LosesClaim
<1>2. Stays(entry.claim, restored)
    <2> HIDE DEF job
    <2> QED
        BY <1>1, Facts, MarkerMovesStay
<1>3. Keeps(entry, [entry EXCEPT !.claim = restored])
    <2> HIDE DEF restored
    <2> QED
        BY <1>2, Facts, ClaimKeeps
<1>4. Keeps(entry, entry')
    BY <1>3, Facts, GateKeeps DEF LosesClaim, RestoreLostClaim
<1>5. Grows(entry, entry') /\ w \in Threads
    BY <1>4, Facts, SoundSteps
<1>6. ThreadInv'
    BY <1>5, GoesSound DEF LosesClaim, Pcs
<1> QED
    BY <1>5, <1>6, Facts, Concludes DEF LosesClaim, NoEvent

LEMMA TakesCoveragePreserves == ASSUME Inv, NEW w \in Workers, TakesCoverage(w) PROVE Preserves
<1> DEFINE taken == TakeForLeg(entry, LegOf(w))
           cleared == ClearPending(taken)
<1>1. Keeps(entry, taken)
    BY Facts, ThreadFacts, PinKeeps
<1>2. entry' = taken \/ entry' = cleared \/ entry' = SetTrust(cleared, "Healing")
    BY DEF TakesCoverage, TakeFacts
<1> HIDE DEF taken
<1>3. Keeps(entry, cleared)
    <2>1. "none" \in Batches
        BY DEF Batches
    <2> QED
        BY <1>1, <2>1, AlikeKept, FactsAlike
<1> HIDE DEF cleared
<1>4. Keeps(entry, SetTrust(cleared, "Healing"))
    BY <1>3, AlikeKept, TrustAlike DEF Trusts, Warm
<1>5. Grows(entry, entry') /\ w \in Threads
    BY <1>1, <1>2, <1>3, <1>4, Facts, SoundSteps
<1>6. ThreadInv'
    BY <1>5, GoesSound DEF TakesCoverage, Pcs
<1> QED
    BY <1>5, <1>6, Facts, Concludes DEF TakesCoverage, NoEvent

LEMMA RecoverRefusedAtOncePreserves ==
    ASSUME Inv, NEW w \in Workers, RecoverRefusedAtOnce(w) PROVE Preserves
<1>1. w \in Threads /\ "ending" \in Pcs
    BY Facts DEF Pcs
<1>2. Grows(entry, entry') /\ ThreadInv'
    BY <1>1, MeetsConflictSound, MeetsIdentityRefusalSound DEF RecoverRefusedAtOnce
<1> QED
    BY <1>2, Facts, Concludes DEF RecoverRefusedAtOnce

LEMMA WorkedStalePreserves == ASSUME Inv, NEW w \in Workers, WorkedStale(w) PROVE Preserves
<1> DEFINE s == Unpinned(w)
<1>1. Keeps(entry, s) /\ EpochOf(w) \in 0..entry.claim.epoch /\ w \in Threads
    BY Facts, UnpinnedKeeps, ThreadFacts
<1>2. Keeps(entry, [s EXCEPT !.coverage = ReleasedBy(@, EpochOf(w))])
    <2> HIDE DEF s
    <2>1. Keeps(s, [s EXCEPT !.coverage = ReleasedBy(@, EpochOf(w))])
        BY <1>1, CustodyKeeps DEF Keeps, SlotKept
    <2> QED
        BY <1>1, <2>1, Facts, SoundSteps
<1>3. Grows(entry, entry')
    BY <1>1, <1>2, Facts, SoundSteps DEF WorkedStale
<1>4. ThreadInv'
    BY <1>1, <1>3, GoesSound DEF WorkedStale, Pcs
<1> QED
    BY <1>3, <1>4, Facts, Concludes DEF WorkedStale, NoEvent

LEMMA RecoverUnpinsPreserves == ASSUME Inv, NEW w \in Workers, RecoverUnpins(w) PROVE Preserves
<1>1. w \in Threads /\ "refusing" \in Pcs
    BY Facts DEF Pcs
<1>2. Grows(entry, entry')
    BY UnpinnedKeeps, Facts, SoundSteps DEF RecoverUnpins
<1>3. ThreadInv'
    BY <1>1, <1>2, GoesSound DEF RecoverUnpins
<1> QED
    BY <1>2, <1>3, Facts, Concludes DEF RecoverUnpins

LEMMA RecoverRefusedPreserves == ASSUME Inv, NEW w \in Workers, RecoverRefused(w) PROVE Preserves
<1> DEFINE refused == IdentityRefused(entry)
<1>1. w \in Threads /\ "ending" \in Pcs
    BY Facts DEF Pcs
<1>2. entry' = RefuseConflict(entry) \/ entry' = GiveBackCoverage(refused)
    BY DEF RecoverRefused
<1>3. Keeps(entry, refused)
    BY Facts, AlikeKept, PublishAlike
<1> HIDE DEF refused
<1>4. Moves(entry, RefuseConflict(entry)) /\ Moves(refused, GiveBackCoverage(refused))
    BY <1>3, Facts, RefuseConflictMoves, GiveBackCoverageMoves DEF Keeps, SlotKept
<1>5. Grows(entry, entry')
    BY <1>2, <1>3, <1>4, Facts, SoundSteps
<1>6. ThreadInv'
    BY <1>1, <1>5, GoesSound DEF RecoverRefused
<1> QED
    BY <1>5, <1>6, Facts, Concludes DEF RecoverRefused, NoEvent

LEMMA RecoverFindsMovedPreserves ==
    ASSUME Inv, NEW w \in Workers, RecoverFindsMoved(w) PROVE Preserves
<1> DEFINE s == Unpinned(w)
<1>1. Keeps(entry, s) /\ w \in Threads /\ "ending" \in Pcs
    BY Facts, UnpinnedKeeps DEF Pcs
<1>2. entry' = BeginRelease(s) \/ entry' = s
    BY DEF RecoverFindsMoved
<1> HIDE DEF s
<1>3. Keeps(s, BeginRelease(s))
    BY <1>1, BeginReleaseKeeps DEF Keeps, SlotKept
<1>4. Grows(entry, entry')
    BY <1>1, <1>2, <1>3, Facts, SoundSteps
<1>5. ThreadInv'
    BY <1>1, <1>4, GoesSound DEF RecoverFindsMoved
<1> QED
    BY <1>4, <1>5, Facts, Concludes DEF RecoverFindsMoved

LEMMA TurnLosesLockPreserves == ASSUME Inv, NEW w \in Workers, TurnLosesLock(w) PROVE Preserves
<1>1. PICK contended \in BOOLEAN :
        entry' = BeginRelease([Unpinned(w) EXCEPT !.contended = @ \/ contended])
    BY DEF TurnLosesLock
<1> DEFINE s == Unpinned(w)
           flag == s.contended \/ contended
           parked == [s EXCEPT !.contended = flag]
<1>2. Keeps(entry, s) /\ EpochOf(w) \in 0..entry.claim.epoch /\ w \in Threads
    BY Facts, UnpinnedKeeps, ThreadFacts
<1>3. entry' = BeginRelease(parked)
    BY <1>1
<1> HIDE DEF s
<1>4. flag \in BOOLEAN
    BY <1>2 DEF Keeps, Sound, Entries, SlotKept
<1> HIDE DEF flag
<1>5. Keeps(entry, parked)
    BY <1>2, <1>4, AlikeKept, FlagsMoved
<1> HIDE DEF parked
<1>6. Keeps(entry, BeginRelease(parked))
    BY <1>5, Facts, BeginReleaseKeeps, SoundSteps DEF Keeps, SlotKept
<1>7. Grows(entry, entry') /\ EpochOf(w) \in 0..entry.claim.epoch'
    BY <1>2, <1>3, <1>6, Facts, SoundSteps DEF Keeps, SlotKept
<1>8. "ending" \in Pcs
    BY DEF Pcs
<1>9. ThreadInv'
    BY <1>2, <1>7, <1>8, GoesReleasingKeeps DEF TurnLosesLock
<1> QED
    BY <1>7, <1>9, Facts, Concludes DEF TurnLosesLock

\* The thread goes to read its root again, with the detach it is to send.
LEMMA GoesClassifyingSound ==
    ASSUME Inv, Grows(entry, entry') \/ Rises(entry, entry'), NEW t \in Threads, At(t, "working"),
           NEW next \in Jobs \cup {NoJob}, next.epoch \in 0..entry.claim.epoch',
           thread' = [thread EXCEPT ![t] =
               [@ EXCEPT !.pc = "classifying", !.held = FALSE, !.next = next,
                         !.lost = entry'.claim.epoch]]
    PROVE  ThreadInv'
<1> DEFINE bound == entry.claim.epoch'
           r == thread[t]
           p == [r EXCEPT !.pc = "classifying"]
           q == [p EXCEPT !.held = FALSE]
           x == [q EXCEPT !.next = next]
           y == [x EXCEPT !.lost = bound]
<1>1. bound \in Nat /\ ThreadSound(r, bound) /\ bound \in 0..bound /\ "classifying" \in Pcs
    BY Epochs, ThreadStaysSound DEF Pcs
<1>2. r \in ThreadStates /\ r.after = "idle"
    BY <1>1, ThreadStaysSound DEF ThreadSound, Sends, At
<1>3. thread' = [thread EXCEPT ![t] = y]
    OBVIOUS
<1>4. y.pc = "classifying" /\ y.after = "idle"
    BY <1>2 DEF ThreadStates
<1> HIDE DEF bound
<1>5. ThreadSound(p, bound)
    BY <1>1, FieldsSound DEF bound
<1> HIDE DEF p
<1>6. ThreadSound(q, bound)
    BY <1>1, <1>5, FieldsSound DEF bound
<1> HIDE DEF q
<1>7. ThreadSound(x, bound)
    BY <1>1, <1>6, FieldsSound DEF bound
<1> HIDE DEF x
<1>8. ThreadSound(y, bound)
    BY <1>1, <1>7, NoJobSound, FieldsSound
<1>9. Sends(y)
    BY <1>4 DEF Sends
<1> HIDE DEF y
<1> QED
    BY <1>3, <1>8, <1>9, ThreadMoved DEF bound

LEMMA LostSightKeeps ==
    ASSUME Inv, NEW w \in Workers
    PROVE  Keeps(entry, LostSight(Unpinned(w), EpochOf(w)))
<1> DEFINE s == Unpinned(w)
           a == Park(s, EpochOf(w))
           b == ReleaseGate(a)
           c == RequireRecovery(b)
           d == Merge(c, "rescan")
<1>1. Keeps(entry, s) /\ EpochOf(w) \in 0..entry.claim.epoch
    BY Facts, UnpinnedKeeps, ThreadFacts
<1>2. LostSight(s, EpochOf(w)) = SetTrust(d, "Untrusted")
    BY DEF LostSight
<1> HIDE DEF s
<1>3. Keeps(entry, a)
    BY <1>1, Facts, ParkKeeps, SoundSteps DEF Keeps, SlotKept
<1> HIDE DEF a
<1>4. Keeps(entry, b)
    BY <1>3, Facts, GateKeeps, SoundSteps DEF Keeps, SlotKept
<1> HIDE DEF b
<1>5. Keeps(entry, c)
    BY <1>4, AlikeKept, RungsAlike
<1> HIDE DEF c
<1>6. Keeps(entry, d)
    <2>1. "rescan" \in Batches
        BY DEF Batches
    <2> QED
        BY <1>5, <2>1, AlikeKept, FactsAlike
<1> HIDE DEF d
<1>7. Keeps(entry, SetTrust(d, "Untrusted"))
    BY <1>6, AlikeKept, TrustAlike DEF Trusts, Distrust
<1> QED
    BY <1>2, <1>7 DEF s

LEMMA TurnFailsPreserves == ASSUME Inv, NEW w \in Workers, TurnFails(w) PROVE Preserves
<1> DEFINE lost == LostSight(Unpinned(w), EpochOf(w))
<1>1. w \in Threads /\ At(w, "working") /\ Keeps(entry, lost)
    BY Facts, LostSightKeeps DEF TurnFails
<1>2. /\ entry' = ScheduleDueDetach(lost)
      /\ \/ HandsOn(w, DueDetach(lost))
         \/ thread' = [thread EXCEPT ![w] =
               [@ EXCEPT !.pc = "classifying", !.held = FALSE, !.next = DueDetach(lost),
                         !.lost = entry'.claim.epoch]]
    BY DEF TurnFails
<1> HIDE DEF lost
<1>3. /\ Grows(entry, entry') /\ DueDetach(lost) \in Jobs \cup {NoJob}
      /\ DueDetach(lost).epoch \in 0..entry.claim.epoch'
      /\ DueDetach(lost).epoch <= entry.claim.epoch'
    BY <1>1, <1>2, DueDetachSound
<1>4. ThreadInv'
    BY <1>1, <1>2, <1>3, HandsOnSound, GoesClassifyingSound
<1> QED
    BY <1>3, <1>4, Facts, Concludes DEF TurnFails

LEMMA TurnFindsDamagePreserves ==
    ASSUME Inv, NEW w \in Workers, TurnFindsDamage(w) PROVE Preserves
<1> DEFINE s == Unpinned(w)
           parked == Park(s, EpochOf(w))
           damaged == WithdrawTrustForDamage(parked)
<1>1. w \in Threads /\ At(w, "working") /\ Keeps(entry, s)
      /\ EpochOf(w) \in 0..entry.claim.epoch
    BY Facts, UnpinnedKeeps, ThreadFacts DEF TurnFindsDamage
<1>2. entry' = HandOnTo(damaged, "Rebuild") /\ HandsOn(w, HandedOn(damaged.claim, "Rebuild"))
    BY DEF TurnFindsDamage
<1> HIDE DEF s
<1>3. Keeps(entry, parked)
    BY <1>1, Facts, ParkKeeps, SoundSteps DEF Keeps, SlotKept
<1> HIDE DEF parked
<1>4. Keeps(entry, damaged)
    BY <1>3, AlikeKept, RungsAlike
<1> HIDE DEF damaged
<1>5. "Rebuild" \in JobKinds
    BY DEF JobKinds
<1>6. Grows(entry, entry') /\ ThreadInv'
    BY <1>1, <1>2, <1>4, <1>5, HandsOnKind
<1> QED
    BY <1>6, Facts, Concludes DEF TurnFindsDamage

----------------------------------------------------------------------------
(* The ends of a leg that succeeds                                         *)

\* What a turn leaves before it decides on the trust, for each kind of leg.
LEMMA RecoveredKeeps ==
    ASSUME Inv, NEW w \in Workers, NEW observed \in Batches, NEW minted \in BOOLEAN
    PROVE  /\ Keeps(entry, Recovered(w, observed, minted))
           /\ Keeps(entry, Rebuilt(w, observed, minted))
<1> DEFINE s == Unpinned(w)
           a == ReleaseGate(s)
           b == Merge(a, observed)
           c == ParkCoverage(b, EpochOf(w), minted)
           d == RemintCoverage(b, EpochOf(w), minted)
<1>1. Keeps(entry, s) /\ EpochOf(w) \in 0..entry.claim.epoch
    BY Facts, UnpinnedKeeps, ThreadFacts
<1>2. /\ Recovered(w, observed, minted) = ClearRecovery(c)
      /\ Rebuilt(w, observed, minted) = ClearRebuild(d)
    BY DEF Recovered, Rebuilt
<1> HIDE DEF s
<1>3. Keeps(entry, a)
    BY <1>1, Facts, GateKeeps, SoundSteps DEF Keeps, SlotKept
<1> HIDE DEF a
<1>4. Keeps(entry, b)
    BY <1>3, AlikeKept, FactsAlike
<1> HIDE DEF b
<1>5. Keeps(entry, c) /\ Keeps(entry, d)
    BY <1>1, <1>4, Facts, ParkKeeps, SoundSteps DEF Keeps, SlotKept
<1> HIDE DEF c, d
<1>6. Keeps(entry, ClearRecovery(c)) /\ Keeps(entry, ClearRebuild(d))
    BY <1>5, AlikeKept, RungsAlike, FlagsAlike
<1> QED
    BY <1>2, <1>6

LEMMA PublishKeeps ==
    ASSUME Inv, NEW s, Keeps(entry, s), NEW saturated \in BOOLEAN
    PROVE  LET healing == IF s.pending # "none" THEN PublishPendingReconcile(s) ELSE s
           IN  /\ Keeps(entry, healing) /\ Keeps(entry, PublishPendingReconcile(s))
               /\ Keeps(entry, PublishReadyWhereNothingIsLeft(s, saturated))
               /\ Keeps(entry, PublishReadyWhereNothingIsLeft(healing, saturated))
<1> DEFINE healing == IF s.pending # "none" THEN PublishPendingReconcile(s) ELSE s
<1>1. Keeps(entry, healing) /\ Keeps(entry, PublishPendingReconcile(s))
    BY AlikeKept, PublishAlike
<1> HIDE DEF healing
<1>2. /\ Keeps(entry, PublishReadyWhereNothingIsLeft(s, saturated))
      /\ Keeps(entry, PublishReadyWhereNothingIsLeft(healing, saturated))
    BY <1>1, AlikeKept, PublishAlike
<1> QED
    BY <1>1, <1>2 DEF healing

LEMMA KindsHandedOn ==
    /\ "Rebuild" \in JobKinds /\ "Reconcile" \in JobKinds /\ "Maintenance" \in JobKinds
    /\ "Ready" \in Trusts
BY DEF JobKinds, Trusts

\* The ends of a leg, as the actions below choose among them.
LEMMA HandsOnSomething ==
    ASSUME Inv, NEW w \in Workers, At(w, "working"), NEW s, Keeps(entry, s),
           \/ HandsOnDamage(w, s)
           \/ HandsOnDueDetach(w, s)
           \/ HandsOnTo(w, s, "Reconcile")
           \/ HandsOnTo(w, s, "Maintenance")
           \/ entry' = ScheduleJob(s, "Maintenance") /\ HandsOn(w, HandedOn(s.claim, "Maintenance"))
           \/ entry' = s /\ HandsOn(w, NoJob)
    PROVE  Grows(entry, entry') /\ ThreadInv'
<1>1. w \in Threads
    BY Facts
<1>2. CASE HandsOnDamage(w, s)
    BY <1>1, <1>2, KindsHandedOn, HandsOnKind DEF HandsOnDamage
<1>3. CASE HandsOnDueDetach(w, s)
    BY <1>1, <1>3, HandsOnDetach
<1>4. CASE HandsOnTo(w, s, "Reconcile") \/ HandsOnTo(w, s, "Maintenance")
    BY <1>1, <1>4, KindsHandedOn, HandsOnKind DEF HandsOnTo
<1>5. CASE entry' = ScheduleJob(s, "Maintenance") /\ HandsOn(w, HandedOn(s.claim, "Maintenance"))
    BY <1>1, <1>5, KindsHandedOn, HandsOnKind
<1>6. CASE entry' = s /\ HandsOn(w, NoJob)
    BY <1>1, <1>6, HandsOnNothing
<1> QED
    BY <1>2, <1>3, <1>4, <1>5, <1>6

LEMMA RecoverSucceedsPreserves ==
    ASSUME Inv, NEW w \in Workers, RecoverSucceeds(w) PROVE Preserves
<1>1. At(w, "working")
    BY DEF RecoverSucceeds
<1>2. PICK observed \in Batches, saturated \in BOOLEAN, minted \in BOOLEAN :
        LET s == Recovered(w, observed, minted) IN
        /\ Drains(observed, saturated)
        /\ underived' = (underived \/ observed # "none")
        /\ IF s.damage THEN HandsOnDamage(w, s)
           ELSE IF s.detach_due
           THEN HandsOnDueDetach(w,
                    PublishReadyWhereNothingIsLeft(
                        IF s.pending # "none" THEN PublishPendingReconcile(s) ELSE s,
                        saturated))
           ELSE IF s.pending = "none"
           THEN entry' = SetTrust(s, "Ready") /\ HandsOn(w, NoJob)
           ELSE HandsOnTo(w, s, "Reconcile")
    BY DEF RecoverSucceeds
<1> DEFINE s == Recovered(w, observed, minted)
           published == PublishReadyWhereNothingIsLeft(
                        IF s.pending # "none" THEN PublishPendingReconcile(s) ELSE s,
                        saturated)
           ready == SetTrust(s, "Ready")
<1>3. Keeps(entry, s)
    BY RecoveredKeeps
<1>4. \/ HandsOnDamage(w, s) \/ HandsOnDueDetach(w, published)
      \/ HandsOnTo(w, s, "Reconcile")
      \/ entry' = ready /\ HandsOn(w, NoJob)
    BY <1>2
<1> HIDE DEF s
<1>5. Keeps(entry, published)
    BY <1>3, PublishKeeps
<1>6. Keeps(entry, ready)
    BY <1>3, AlikeKept, TrustAlike, KindsHandedOn
<1> HIDE DEF published, ready
<1>7. Grows(entry, entry') /\ ThreadInv'
    BY <1>1, <1>3, <1>4, <1>5, <1>6, HandsOnSomething
<1>8. underived' \in BOOLEAN /\ (Event \/ NoEvent)
    BY <1>2 DEF Drains, Observes
<1> QED
    BY <1>7, <1>8, Concludes DEF RecoverSucceeds

LEMMA RebuildSucceedsPreserves ==
    ASSUME Inv, NEW w \in Workers, RebuildSucceeds(w) PROVE Preserves
<1>1. At(w, "working")
    BY DEF RebuildSucceeds
<1>2. PICK observed \in Batches, saturated \in BOOLEAN, minted \in BOOLEAN :
        LET s == Rebuilt(w, observed, minted)
            published == PublishReadyWhereNothingIsLeft(
                IF s.pending # "none" THEN PublishPendingReconcile(s) ELSE s, saturated) IN
        /\ Drains(observed, saturated)
        /\ underived' = (observed # "none")
        /\ IF entry.damage THEN HandsOnDamage(w, s)
           ELSE IF s.detach_due THEN HandsOnDueDetach(w, published)
           ELSE IF s.pending # "none" THEN HandsOnTo(w, published, "Reconcile")
           ELSE entry' = published /\ HandsOn(w, NoJob)
    BY DEF RebuildSucceeds
<1> DEFINE s == Rebuilt(w, observed, minted)
           published == PublishReadyWhereNothingIsLeft(
                        IF s.pending # "none" THEN PublishPendingReconcile(s) ELSE s,
                        saturated)
<1>3. Keeps(entry, s)
    BY RecoveredKeeps
<1>4. \/ HandsOnDamage(w, s) \/ HandsOnDueDetach(w, published)
      \/ HandsOnTo(w, published, "Reconcile")
      \/ entry' = published /\ HandsOn(w, NoJob)
    BY <1>2
<1> HIDE DEF s
<1>5. Keeps(entry, published)
    BY <1>3, PublishKeeps
<1> HIDE DEF published
<1>6. Grows(entry, entry') /\ ThreadInv'
    BY <1>1, <1>3, <1>4, <1>5, HandsOnSomething
<1>7. underived' \in BOOLEAN /\ (Event \/ NoEvent)
    BY <1>2 DEF Drains, Observes
<1> QED
    BY <1>6, <1>7, Concludes DEF RebuildSucceeds

LEMMA LegWithheldPreserves == ASSUME Inv, NEW w \in Workers, LegWithheld(w) PROVE Preserves
<1>1. At(w, "working")
    BY DEF LegWithheld
<1>2. PICK tookInAFact \in BOOLEAN, minted \in BOOLEAN :
        LET observed == IF tookInAFact THEN "facts" ELSE "none"
            done == IF KindOf(w) = "Recover" THEN Recovered(w, observed, minted)
                    ELSE [Rebuilt(w, observed, minted) EXCEPT !.damage = entry.damage] IN
        /\ HandsOnDueDetach(w, WithholdTrust(done, tookInAFact))
        /\ underived' = (tookInAFact \/ (underived /\ KindOf(w) = "Recover"))
    BY DEF LegWithheld
<1> DEFINE observed == IF tookInAFact THEN "facts" ELSE "none"
           recovered == Recovered(w, observed, minted)
           rebuilt == Rebuilt(w, observed, minted)
           done == IF KindOf(w) = "Recover" THEN recovered
                   ELSE [rebuilt EXCEPT !.damage = entry.damage]
<1>3. observed \in Batches
    BY DEF Batches
<1> HIDE DEF observed
<1>4. Keeps(entry, recovered) /\ Keeps(entry, rebuilt) /\ entry.damage \in BOOLEAN
    BY <1>3, Facts, RecoveredKeeps DEF Entries
<1> HIDE DEF recovered, rebuilt
<1>5. Keeps(entry, [rebuilt EXCEPT !.damage = entry.damage])
    BY <1>4, AlikeKept, FlagsMoved
<1>6. Keeps(entry, done)
    BY <1>4, <1>5
<1>7. HandsOnDueDetach(w, WithholdTrust(done, tookInAFact))
    BY <1>2 DEF observed, recovered, rebuilt
<1> HIDE DEF done
<1>8. Keeps(entry, WithholdTrust(done, tookInAFact))
    BY <1>6, AlikeKept, PublishAlike
<1>9. Grows(entry, entry') /\ ThreadInv'
    BY <1>1, <1>7, <1>8, HandsOnSomething
<1> QED
    BY <1>2, <1>9, Concludes DEF LegWithheld

LEMMA RebuildFailsPreserves == ASSUME Inv, NEW w \in Workers, RebuildFails(w) PROVE Preserves
<1> DEFINE s == Unpinned(w)
<1>1. Keeps(entry, s) /\ EpochOf(w) \in 0..entry.claim.epoch /\ w \in Threads /\ "ending" \in Pcs
    BY Facts, UnpinnedKeeps, ThreadFacts DEF Pcs
<1>2. entry' = BeginRelease(s)
    BY DEF RebuildFails
<1> HIDE DEF s
<1>3. Keeps(entry, entry')
    BY <1>1, <1>2, Facts, BeginReleaseKeeps, SoundSteps DEF Keeps, SlotKept
<1>4. Grows(entry, entry') /\ EpochOf(w) \in 0..entry.claim.epoch'
    BY <1>1, <1>3, Facts, SoundSteps DEF Keeps, SlotKept
<1>5. ThreadInv'
    BY <1>1, <1>4, GoesReleasingKeeps DEF RebuildFails
<1> QED
    BY <1>4, <1>5, Facts, Concludes DEF RebuildFails

LEMMA ReconcileSucceedsPreserves ==
    ASSUME Inv, NEW w \in Workers, ReconcileSucceeds(w) PROVE Preserves
<1>1. At(w, "working") /\ w \in Threads
    BY Facts DEF ReconcileSucceeds
<1>2. PICK observed \in Batches, saturated \in BOOLEAN, maintenanceDue \in BOOLEAN :
        LET s == Reconciled(w, observed)
            published == PublishReadyWhereNothingIsLeft(s, saturated) IN
        /\ saturated => observed # "none"
        /\ IF observed # "none" \/ maintenanceDue THEN Event ELSE NoEvent
        /\ underived' = (s.pending # "none")
        /\ IF s.damage THEN HandsOnDamage(w, s)
           ELSE IF s.detach_due THEN HandsOnDueDetach(w, ReleaseGate(published))
           ELSE IF maintenanceDue /\ ~OwesARung(s) THEN HandsOnTo(w, published, "Maintenance")
           ELSE IF saturated THEN HandsOnTo(w, s, "Reconcile")
           ELSE IF s.pending = "none"
           THEN /\ entry' = ReleaseGate(IF OwesARung(s) THEN s ELSE SetTrust(s, "Ready"))
                /\ HandsOn(w, NoJob)
           ELSE entry' = s /\ Goes(w, "begun", FALSE)
    BY DEF ReconcileSucceeds
<1> DEFINE u == Unpinned(w)
           a == Merge(u, observed)
           b == Park(a, EpochOf(w))
           s == Reconciled(w, observed)
           published == PublishReadyWhereNothingIsLeft(s, saturated)
           gated == ReleaseGate(published)
           rested == IF OwesARung(s) THEN s ELSE SetTrust(s, "Ready")
           released == ReleaseGate(rested)
<1>3. Keeps(entry, u) /\ EpochOf(w) \in 0..entry.claim.epoch
    BY Facts, UnpinnedKeeps, ThreadFacts
<1>4. s = b \/ s = PublishPendingReconcile(b)
    BY DEF Reconciled
<1>5. \/ HandsOnDamage(w, s) \/ HandsOnDueDetach(w, gated)
      \/ HandsOnTo(w, published, "Maintenance") \/ HandsOnTo(w, s, "Reconcile")
      \/ entry' = released /\ HandsOn(w, NoJob)
      \/ entry' = s /\ Goes(w, "begun", FALSE)
    BY <1>2
<1> HIDE DEF u, s
<1>6. Keeps(entry, a)
    BY <1>3, AlikeKept, FactsAlike
<1> HIDE DEF a
<1>7. Keeps(entry, b)
    BY <1>3, <1>6, Facts, ParkKeeps, SoundSteps DEF Keeps, SlotKept
<1> HIDE DEF b
<1>8. Keeps(entry, s)
    BY <1>4, <1>7, AlikeKept, PublishAlike
<1>9. Keeps(entry, published)
    BY <1>8, PublishKeeps
<1>10. Keeps(entry, rested)
    BY <1>8, AlikeKept, TrustAlike, KindsHandedOn
<1> HIDE DEF published, rested
<1>11. Keeps(entry, gated) /\ Keeps(entry, released)
    BY <1>9, <1>10, Facts, GateKeeps, SoundSteps DEF Keeps, SlotKept
<1> HIDE DEF gated, released
<1>12. ASSUME entry' = s /\ Goes(w, "begun", FALSE)
       PROVE  Grows(entry, entry') /\ ThreadInv'
    <2>1. Grows(entry, entry')
        BY <1>8, <1>12, Facts, SoundSteps
    <2> QED
        BY <1>1, <1>12, <2>1, GoesSound DEF Pcs
<1>13. Grows(entry, entry') /\ ThreadInv'
    BY <1>1, <1>5, <1>8, <1>9, <1>11, <1>12, HandsOnSomething
<1>14. underived' \in BOOLEAN /\ (Event \/ NoEvent)
    BY <1>2
<1> QED
    BY <1>13, <1>14, Concludes DEF ReconcileSucceeds

LEMMA MaintenanceSucceedsPreserves ==
    ASSUME Inv, NEW w \in Workers, MaintenanceSucceeds(w) PROVE Preserves
<1>1. At(w, "working") /\ w \in Threads
    BY Facts DEF MaintenanceSucceeds
<1>2. PICK observed \in Batches, saturated \in BOOLEAN, stillDue \in BOOLEAN :
        LET s == PublishReadyWhereNothingIsLeft(
                     ReleaseGate(Park(Merge(Unpinned(w), observed), EpochOf(w))), saturated) IN
        /\ saturated => observed # "none"
        /\ IF observed # "none" \/ stillDue THEN Event ELSE NoEvent
        /\ underived' = (underived \/ observed # "none")
        /\ IF s.damage THEN HandsOnDamage(w, s)
           ELSE IF s.detach_due THEN HandsOnDueDetach(w, s)
           ELSE IF s.pending # "none" THEN HandsOnTo(w, PublishPendingReconcile(s), "Reconcile")
           ELSE IF stillDue /\ ~OwesARung(s)
           THEN /\ entry' = ScheduleJob(s, "Maintenance")
                /\ HandsOn(w, HandedOn(s.claim, "Maintenance"))
           ELSE entry' = s /\ HandsOn(w, NoJob)
    BY DEF MaintenanceSucceeds
<1> DEFINE u == Unpinned(w)
           a == Merge(u, observed)
           b == Park(a, EpochOf(w))
           c == ReleaseGate(b)
           s == PublishReadyWhereNothingIsLeft(c, saturated)
<1>3. Keeps(entry, u) /\ EpochOf(w) \in 0..entry.claim.epoch
    BY Facts, UnpinnedKeeps, ThreadFacts
<1>4. \/ HandsOnDamage(w, s) \/ HandsOnDueDetach(w, s)
      \/ HandsOnTo(w, PublishPendingReconcile(s), "Reconcile")
      \/ entry' = ScheduleJob(s, "Maintenance") /\ HandsOn(w, HandedOn(s.claim, "Maintenance"))
      \/ entry' = s /\ HandsOn(w, NoJob)
    BY <1>2
<1> HIDE DEF u
<1>5. Keeps(entry, a)
    BY <1>3, AlikeKept, FactsAlike
<1> HIDE DEF a
<1>6. Keeps(entry, b)
    BY <1>3, <1>5, Facts, ParkKeeps, SoundSteps DEF Keeps, SlotKept
<1> HIDE DEF b
<1>7. Keeps(entry, c)
    BY <1>6, Facts, GateKeeps, SoundSteps DEF Keeps, SlotKept
<1> HIDE DEF c
<1>8. Keeps(entry, s)
    BY <1>7, PublishKeeps
<1> HIDE DEF s
<1>9. Keeps(entry, PublishPendingReconcile(s))
    BY <1>8, AlikeKept, PublishAlike
<1>10. Grows(entry, entry') /\ ThreadInv'
    BY <1>1, <1>4, <1>8, <1>9, HandsOnSomething
<1>11. underived' \in BOOLEAN /\ (Event \/ NoEvent)
    BY <1>2, Facts
<1> QED
    BY <1>10, <1>11, Concludes DEF MaintenanceSucceeds

----------------------------------------------------------------------------
(* Detach, and the end of a leg                                            *)

LEMMA BeginDetachPreserves == ASSUME Inv, NEW w \in Workers, BeginDetach(w) PROVE Preserves
<1> DEFINE taken == [entry EXCEPT !.coverage = TakeCoverage(@, EpochOf(w))]
<1>1. /\ EpochOf(w) \in 0..entry.claim.epoch /\ w \in Threads /\ "ending" \in Pcs
      /\ InHandOf(entry) \in BOOLEAN
    BY Facts, ThreadFacts DEF Pcs, InHandOf, InHand
<1>2. Keeps(entry, taken)
    BY <1>1, Facts, CustodyKeeps
<1>3. entry' = BeginRelease(taken)
    BY DEF BeginDetach
<1> HIDE DEF taken
<1>4. Keeps(entry, entry')
    BY <1>2, <1>3, Facts, BeginReleaseKeeps, SoundSteps DEF Keeps, SlotKept
<1>5. Grows(entry, entry') /\ EpochOf(w) \in 0..entry.claim.epoch'
    BY <1>1, <1>4, Facts, SoundSteps DEF Keeps, SlotKept
<1>6. ThreadInv'
    BY <1>1, <1>5, GoesReleasingKeeps DEF BeginDetach
<1> QED
    BY <1>5, <1>6, Facts, Concludes DEF BeginDetach, NoEvent

LEMMA EndsByReleasingPreserves ==
    ASSUME Inv, NEW w \in Workers, EndsByReleasing(w) PROVE Preserves
<1>1. /\ EpochOf(w) \in 0..entry.claim.epoch /\ w \in Threads /\ "idle" \in Pcs
      /\ thread[w].held \in BOOLEAN
    BY Facts, ThreadFacts DEF Pcs
<1>2. Grows(entry, entry') /\ EpochOf(w) \in 0..entry.claim.epoch'
    BY <1>1, Facts DEF EndsByReleasing
<1>3. ThreadInv'
    BY <1>1, <1>2, GoesReleasingKeeps DEF EndsByReleasing
<1> QED
    BY <1>2, <1>3, Facts, Concludes DEF EndsByReleasing, NoEvent

LEMMA CloseLegPreserves == ASSUME Inv, NEW w \in Workers, CloseLeg(w) PROVE Preserves
<1> DEFINE epoch == EpochOf(w)
           left == [entry EXCEPT !.claim = EndJobLeg(entry.claim, epoch)]
           ended == [left EXCEPT !.coverage = ReleasedBy(@, epoch)]
<1>1. epoch \in 0..entry.claim.epoch /\ w \in Threads /\ "idle" \in Pcs
    BY Facts, ThreadFacts DEF Pcs
<1>2. ended = [entry EXCEPT !.claim = EndJobLeg(@, epoch), !.coverage = ReleasedBy(@, epoch)]
    OBVIOUS
<1>3. \/ entry' = entry /\ Rests(w)
      \/ entry' = ended /\ GoesReleasing(w, FALSE, epoch, "idle")
      \/ entry' = PublishDamageOrDemandedWork(ReleaseGate(ended)) /\ Rests(w)
      \/ entry' = PublishDamage(ended) /\ Rests(w)
    BY <1>2 DEF CloseLeg
<1> HIDE DEF epoch
<1>4. Keeps(entry, left)
    BY <1>1, Facts, LegMovesStay, ClaimKeeps
<1> HIDE DEF left
<1>5. Keeps(entry, ended)
    <2>1. Sound(left) /\ epoch \in 0..left.claim.epoch
        BY <1>1, <1>4 DEF Keeps
    <2>2. Keeps(left, ended)
        BY <2>1, CustodyKeeps
    <2> QED
        BY <1>4, <2>2, Facts, SoundSteps
<1> HIDE DEF ended
<1>6. Keeps(entry, ReleaseGate(ended))
    BY <1>5, Facts, GateKeeps, SoundSteps DEF Keeps, SlotKept
<1>7. /\ Grows(ReleaseGate(ended), PublishDamageOrDemandedWork(ReleaseGate(ended)))
      /\ Grows(ended, PublishDamage(ended))
    BY <1>5, <1>6, ScheduleGrows DEF Keeps, SlotKept
<1>8. Grows(entry, entry')
    BY <1>3, <1>5, <1>6, <1>7, Facts, SoundSteps
<1>9. epoch \in 0..entry.claim.epoch'
    BY <1>1, <1>8, Epochs
<1>10. ThreadInv'
    BY <1>1, <1>3, <1>8, <1>9, RestsSound, GoesReleasingKeeps
<1> QED
    BY <1>8, <1>10, Facts, Concludes DEF CloseLeg, NoEvent

----------------------------------------------------------------------------
(* Releases, give-backs and sends                                          *)

LEMMA ClaimLasts ==
    ASSUME Inv, NEW c, Lasts(entry.claim, c), entry' = [entry EXCEPT !.claim = c]
    PROVE  /\ Rises(entry, entry') /\ entry.claim.slot' = c.slot
           /\ entry.claim.epoch' = entry.claim.epoch
<1>1. Sound(entry) /\ ClaimSound(c) /\ c.epoch = entry.claim.epoch /\ c.epoch >= entry.claim.epoch
    BY Facts DEF Lasts
<1>2. Sound(entry') /\ entry.claim' = c
    BY <1>1, ClaimMoved
<1> QED
    BY <1>1, <1>2 DEF Rises

\* What a thread is about to send is on its way.
LEMMA FollowupInFlight ==
    ASSUME NEW t \in Threads, NEW job \in Jobs, thread'[t].followup = job
    PROVE  job \in InFlight'
<1>1. job # NoJob
    BY DEF Jobs, JobKinds, NoJob
<1> QED
    BY <1>1 DEF InFlight

LEMMA HandOffToPreserves == ASSUME Inv, NEW t \in Threads, HandOffTo(t) PROVE Preserves
<1> DEFINE bound == entry.claim.epoch'
           r == thread[t]
           next == r.next
           p == [r EXCEPT !.pc = "sending"]
           q == [p EXCEPT !.next = NoJob]
           x == [q EXCEPT !.followup = next]
           y == [x EXCEPT !.after = "ending"]
           claim == HandOff(entry.claim, EpochOf(t), next)
<1>1. /\ EpochOf(t) \in 0..entry.claim.epoch /\ next \in Jobs /\ next \in Jobs \cup {NoJob}
      /\ next.epoch \in 0..entry.claim.epoch
    BY ThreadFacts DEF HandOffTo, At, Sends
<1>2. entry' = [entry EXCEPT !.claim = claim] /\ thread' = [thread EXCEPT ![t] = y]
    BY DEF HandOffTo
<1>3. Lasts(entry.claim, claim) /\ claim.slot = next.epoch
    <2> HIDE DEF next
    <2> QED
        BY <1>1, Facts, HandOffLasts
<1> HIDE DEF claim
<1>4. /\ Rises(entry, entry') /\ entry.claim.slot' = next.epoch
      /\ entry.claim.epoch' = entry.claim.epoch
    BY <1>2, <1>3, Facts, ClaimLasts
<1>5. next.epoch \in 0..bound
    BY <1>1, <1>4
<1>6. /\ ThreadSound(r, bound) /\ r \in ThreadStates /\ bound \in Nat /\ 0 \in 0..bound
      /\ "sending" \in Pcs /\ "ending" \in Pcs
      /\ NoJob \in Jobs \cup {NoJob} /\ NoJob.epoch \in 0..bound
    BY <1>4, Epochs, ThreadStaysSound, NothingTyped DEF ThreadSound, Pcs
<1>7. y.pc = "sending" /\ y.after = "ending" /\ y.followup = next
    BY <1>6 DEF ThreadStates
<1>8. Sends(y)
    BY <1>1, <1>7 DEF Sends
<1> HIDE DEF bound, next
<1>9. ThreadSound(p, bound)
    BY <1>6, FieldsSound
<1> HIDE DEF p
<1>10. ThreadSound(q, bound)
    BY <1>6, <1>9, FieldsSound
<1> HIDE DEF q
<1>11. ThreadSound(x, bound)
    BY <1>1, <1>5, <1>6, <1>10, FieldsSound
<1> HIDE DEF x
<1>12. ThreadSound(y, bound)
    BY <1>6, <1>11, FieldsSound
<1> HIDE DEF y
<1>13. ThreadInv'
    BY <1>2, <1>4, <1>8, <1>12, ThreadMoved DEF bound
<1>14. thread'[t].followup = next
    BY <1>2, <1>7 DEF Inv, ThreadInv
<1>15. Gives
    BY <1>1, <1>4, <1>14, FollowupInFlight DEF Gives
<1> QED
    BY <1>13, <1>15, Facts, Concludes DEF HandOffTo, NoEvent

LEMMA ReleasedKeeps ==
    ASSUME Inv, NEW t \in Threads
    PROVE  Keeps(entry, EndRelease(entry, thread[t].rel))
BY Facts, ThreadFacts, EndReleaseKeeps

LEMMA FinishReleasePreserves == ASSUME Inv, NEW t \in Threads, FinishRelease(t) PROVE Preserves
<1> DEFINE bound == entry.claim.epoch'
           released == EndRelease(entry, thread[t].rel)
           next == [kind |-> "Attach", epoch |-> released.claim.epoch + 1]
           r == thread[t]
           p == [r EXCEPT !.pc = "sending"]
           q == [p EXCEPT !.held = FALSE]
           x == [q EXCEPT !.rel = 0]
           y == [x EXCEPT !.followup = next]
<1>1. Keeps(entry, released) /\ At(t, "releasing")
    BY ReleasedKeeps DEF FinishRelease
<1>2. \/ entry' = released /\ Resumes(t)
      \/ entry' = Reattach(released) /\ thread' = [thread EXCEPT ![t] = y]
    BY DEF FinishRelease
<1> HIDE DEF released
<1>3. /\ Rises(released, Reattach(released)) /\ released.claim.epoch \in Nat
      /\ released.claim.epoch = entry.claim.epoch /\ Grows(entry, released)
      /\ Reattach(released).claim.epoch = released.claim.epoch + 1
      /\ Reattach(released).claim.slot = released.claim.epoch + 1
    BY <1>1, Facts, SoundEpoch, SoundSteps, ReattachRises DEF Keeps
<1>4. Grows(entry, entry') \/ Rises(entry, entry')
    BY <1>2, <1>3 DEF Rises
<1>5. ASSUME entry' = Reattach(released), thread' = [thread EXCEPT ![t] = y]
      PROVE  ThreadInv' /\ Gives
    <2>1. next \in Jobs /\ next \in Jobs \cup {NoJob} /\ next.epoch \in 0..bound
        BY <1>3, <1>5 DEF Jobs, JobKinds
    <2>2. /\ ThreadSound(r, bound) /\ r \in ThreadStates /\ bound \in Nat /\ 0 \in 0..bound
          /\ "sending" \in Pcs /\ Sends(r)
          /\ NoJob \in Jobs \cup {NoJob} /\ NoJob.epoch \in 0..bound
        BY <1>4, Epochs, ThreadStaysSound, NothingTyped DEF ThreadSound, Pcs
    <2>3. y.pc = "sending" /\ y.after = r.after /\ y.followup = next /\ y.next = r.next
        BY <2>2 DEF ThreadStates
    <2>4. Sends(y)
        BY <2>1, <2>2, <2>3 DEF Sends
    <2> HIDE DEF bound, next
    <2>5. ThreadSound(p, bound)
        BY <2>2, FieldsSound
    <2> HIDE DEF p
    <2>6. ThreadSound(q, bound)
        BY <2>2, <2>5, FieldsSound
    <2> HIDE DEF q
    <2>7. ThreadSound(x, bound)
        BY <2>2, <2>6, FieldsSound
    <2> HIDE DEF x
    <2>8. ThreadSound(y, bound)
        BY <2>1, <2>2, <2>7, FieldsSound
    <2> HIDE DEF y
    <2>9. ThreadInv'
        BY <1>4, <1>5, <2>4, <2>8, ThreadMoved DEF bound
    <2>10. thread'[t].followup = next
        BY <1>5, <2>3 DEF Inv, ThreadInv
    <2>11. next.epoch = entry.claim.slot' /\ Rises(entry, entry')
        BY <1>3, <1>5 DEF next, Rises
    <2> QED
        BY <2>1, <2>9, <2>10, <2>11, FollowupInFlight DEF Gives
<1>6. ThreadInv'
    BY <1>2, <1>4, <1>5, ResumesSound
<1>7. Grows(entry, entry') \/ Gives
    BY <1>2, <1>3, <1>5
<1> QED
    BY <1>6, <1>7, Facts, Concludes DEF FinishRelease, NoEvent

LEMMA ReturnCoveragePreserves ==
    ASSUME Inv, NEW t \in Threads, ReturnCoverage(t) PROVE Preserves
<1>1. Grows(entry, entry')
    BY Facts, ThreadFacts, EndGiveBackGrows DEF ReturnCoverage
<1>2. ThreadInv'
    BY <1>1, ResumesSound DEF ReturnCoverage
<1> QED
    BY <1>1, <1>2, Facts, Concludes DEF ReturnCoverage, NoEvent

LEMMA AppendSound ==
    ASSUME Inv, UNCHANGED entry, NEW job \in Jobs, job.epoch \in 0..entry.claim.epoch,
           queue' = Append(queue, job), sends' \in SUBSET sends
    PROVE  ChannelInv'
<1>1. queue \in Seq(Jobs) /\ queue' \in Seq(Jobs)
    BY AppendProperties DEF Inv, ChannelInv
<1>2. /\ Len(queue') = Len(queue) + 1 /\ queue'[Len(queue) + 1] = job
      /\ \A i \in 1..Len(queue) : queue'[i] = queue[i]
    BY <1>1, AppendProperties
<1>3. DOMAIN queue = 1..Len(queue) /\ DOMAIN queue' = 1..Len(queue') /\ Len(queue) \in Nat
    BY <1>1, LenProperties
<1>4. \A i \in DOMAIN queue' : queue'[i].epoch \in 0..entry.claim.epoch
    BY <1>2, <1>3 DEF Inv, ChannelInv
<1> QED
    BY <1>1, <1>4 DEF Inv, ChannelInv

LEMMA SendFollowupPreserves ==
    ASSUME Inv, NEW t \in Threads, SendFollowup(t) PROVE Preserves
<1>1. Grows(entry, entry')
    BY Facts DEF SendFollowup
<1>2. ThreadInv'
    BY <1>1, ResumesSound DEF SendFollowup
<1>3. thread[t].followup \in Jobs /\ thread[t].followup.epoch \in 0..entry.claim.epoch
    BY ThreadFacts DEF SendFollowup, At, Sends
<1>4. ChannelInv'
    BY <1>3, AppendSound DEF SendFollowup
<1>5. RestInv'
    BY Facts, RestStays DEF SendFollowup, NoEvent
<1> QED
    BY <1>1, <1>2, <1>4, <1>5 DEF Preserves

LEMMA RefuseFollowupPreserves ==
    ASSUME Inv, NEW t \in Threads, RefuseFollowup(t) PROVE Preserves
<1> DEFINE next == thread[t].followup
           freed == FreeSlot(entry.claim, next.epoch)
           claim == IF StandsAt(freed, next.epoch) THEN Mark(freed, next) ELSE freed
<1>1. next \in Jobs /\ next.epoch \in 0..entry.claim.epoch
    BY ThreadFacts DEF RefuseFollowup, At, Sends
<1>2. entry' = [entry EXCEPT !.claim = claim]
    BY DEF RefuseFollowup
<1> HIDE DEF next
<1>3. Stays(entry.claim, freed)
    BY <1>1, Facts, SlotMovesStay
<1> HIDE DEF freed
<1>4. Stays(entry.claim, claim)
    BY <1>1, <1>3, Facts, MarkerMovesStay DEF Stays, SlotKept
<1> HIDE DEF claim
<1>5. Grows(entry, entry')
    BY <1>2, <1>4, Facts, ClaimKeeps, SoundSteps
<1>6. ThreadInv'
    BY <1>5, ResumesSound DEF RefuseFollowup
<1> QED
    BY <1>5, <1>6, Facts, Concludes DEF RefuseFollowup, NoEvent

----------------------------------------------------------------------------
(* A root read again, and unwinds                                          *)

LEMMA AfterClassifyingPc ==
    ASSUME NEW t \in Threads
    PROVE  AfterClassifying(t) \in Pcs \ {"sending", "handing"}
BY DEF AfterClassifying, Pcs

LEMMA ClassifyPreserves ==
    ASSUME Inv, NEW t \in Threads, ClassifyClear(t) \/ ClassifyRefused(t) PROVE Preserves
<1>1. CASE ClassifyClear(t)
    <2>1. Grows(entry, entry')
        BY <1>1, Facts DEF ClassifyClear
    <2>2. ThreadInv'
        BY <1>1, <2>1, AfterClassifyingPc, GoesSound DEF ClassifyClear
    <2> QED
        BY <1>1, <2>1, <2>2, Facts, Concludes DEF ClassifyClear, NoEvent
<1>2. CASE ClassifyRefused(t)
    <2>1. Grows(entry, entry') /\ ThreadInv'
        BY <1>2, AfterClassifyingPc, MeetsConflictSound, MeetsIdentityRefusalSound
        DEF ClassifyRefused
    <2> QED
        BY <1>2, <2>1, Facts, Concludes DEF ClassifyRefused
<1> QED
    BY <1>1, <1>2

LEMMA GiveBackLostPreserves == ASSUME Inv, NEW t \in Threads, GiveBackLost(t) PROVE Preserves
<1> DEFINE after == IF thread[t].next # NoJob THEN "handing" ELSE Over(t)
<1>1. after \in Pcs /\ after # "sending" /\ (after = "handing" => thread[t].next \in Jobs)
    BY ThreadFacts DEF Over, Pcs
<1>2. \/ MeetsGiveBack(entry, t, FALSE, after)
      \/ entry' = entry /\ Goes(t, after, FALSE)
    BY DEF GiveBackLost
<1> HIDE DEF after
<1>3. CASE MeetsGiveBack(entry, t, FALSE, after)
    <2>1. Grows(entry, entry') /\ ThreadInv'
        BY <1>1, <1>3, Facts, MeetsGiveBackSound
    <2> QED
        BY <2>1, Facts, Concludes DEF GiveBackLost, NoEvent
<1>4. CASE entry' = entry /\ Goes(t, after, FALSE)
    <2>1. Grows(entry, entry')
        BY <1>4, Facts
    <2>2. ThreadInv'
        BY <1>1, <1>4, <2>1, GoesSound
    <2> QED
        BY <2>1, <2>2, Facts, Concludes DEF GiveBackLost, NoEvent
<1> QED
    BY <1>2, <1>3, <1>4

LEMMA RegistrarPreserves == ASSUME Inv, RegistrarStep(Registrar) PROVE Preserves
<1>1. Registrar \in Threads /\ "idle" \in Pcs /\ "classifying" \in Pcs
    BY Facts DEF Pcs
<1>2. CASE RegistrarRefuses(Registrar)
    <2>1. Grows(entry, entry') /\ ThreadInv'
        BY <1>1, <1>2, MeetsConflictSound, MeetsIdentityRefusalSound DEF RegistrarRefuses
    <2> QED
        BY <1>2, <2>1, Facts, Concludes DEF RegistrarRefuses
<1>3. CASE RegistrarReclassifies(Registrar)
    <2>1. Grows(entry, entry')
        BY <1>3, Facts, FlagsMoved, AlikeKeeps, SoundSteps DEF RegistrarReclassifies
    <2>2. ThreadInv'
        BY <1>1, <1>3, <2>1, GoesSound DEF RegistrarReclassifies
    <2> QED
        BY <1>3, <2>1, <2>2, Facts, Concludes DEF RegistrarReclassifies
<1>4. CASE RegistrarSettles(Registrar)
    <2>1. Grows(entry, entry')
        BY <1>4, Facts, ScheduleGrows DEF RegistrarSettles
    <2>2. ThreadInv'
        BY <1>1, <1>4, <2>1, RestsSound DEF RegistrarSettles
    <2> QED
        BY <1>4, <2>1, <2>2, Facts, Concludes DEF RegistrarSettles, NoEvent
<1> QED
    BY <1>2, <1>3, <1>4 DEF RegistrarStep

LEMMA UnwindPreserves == ASSUME Inv, NEW t \in Threads, Unwind(t) PROVE Preserves
<1>1. Grows(entry, entry')
    BY Facts DEF Unwind
<1>2. ThreadInv'
    BY <1>1, GoesSound DEF Unwind, Pcs
<1> QED
    BY <1>1, <1>2, Facts, Concludes DEF Unwind

LEMMA ReclaimPreserves == ASSUME Inv, NEW t \in Threads, Reclaim(t) PROVE Preserves
<1> DEFINE unpinned == UnpinLeg(entry, LegOf(t))
           dropped == InvalidateClaim(unpinned)
           given == [dropped EXCEPT !.coverage = GiveUp(@)]
           r == thread[t]
           p == [r EXCEPT !.pc = "reclaiming"]
           q == [p EXCEPT !.held = InHandOf(entry)]
           x == [q EXCEPT !.rel = EpochOf(t)]
           bound == entry.claim.epoch'
<1>1. Keeps(entry, unpinned) /\ EpochOf(t) \in 0..entry.claim.epoch /\ At(t, "unwound")
    BY UnpinnedKeeps, ThreadFacts DEF Reclaim
<1>2. \/ entry' = unpinned /\ Rests(t)
      \/ entry' = BeginRelease(given) /\ thread' = [thread EXCEPT ![t] = x]
    BY DEF Reclaim
<1> HIDE DEF unpinned
<1>3. Moves(entry, dropped)
    BY <1>1, Facts, GateKeeps, SoundSteps DEF Keeps, SlotKept
<1> HIDE DEF dropped
<1>4. Moves(entry, given)
    <2>1. dropped.claim.epoch \in Nat /\ 0 \in 0..dropped.claim.epoch
        BY <1>3, SoundEpoch DEF Moves, SlotKept
    <2>2. Keeps(dropped, given)
        BY <1>3, <2>1, CustodyKeeps DEF Moves, SlotKept
    <2> QED
        BY <1>3, <2>2, Facts, SoundSteps
<1> HIDE DEF given
<1>5. Moves(entry, BeginRelease(given))
    BY <1>4, Facts, BeginReleaseKeeps, SoundSteps DEF Moves, SlotKept
<1>6. Grows(entry, entry')
    BY <1>1, <1>2, <1>5, Facts, SoundSteps
<1>7. ASSUME thread' = [thread EXCEPT ![t] = x] PROVE ThreadInv'
    <2>1. /\ bound \in Nat /\ ThreadSound(r, bound) /\ Sends(r) /\ r \in ThreadStates
          /\ EpochOf(t) \in 0..bound /\ InHandOf(entry) \in BOOLEAN /\ "reclaiming" \in Pcs
          /\ NoJob \in Jobs \cup {NoJob} /\ NoJob.epoch \in 0..bound
        BY <1>1, <1>6, Epochs, ThreadStaysSound, NothingTyped
        DEF ThreadSound, InHandOf, InHand, Pcs
    <2>2. x.pc = "reclaiming" /\ x.after = r.after /\ r.pc = "unwound"
        BY <1>1, <2>1 DEF ThreadStates, At
    <2>3. Sends(x)
        BY <2>1, <2>2 DEF Sends
    <2> HIDE DEF bound
    <2>4. ThreadSound(p, bound)
        BY <2>1, FieldsSound
    <2> HIDE DEF p
    <2>5. ThreadSound(q, bound)
        BY <2>1, <2>4, FieldsSound
    <2> HIDE DEF q
    <2>6. ThreadSound(x, bound)
        BY <2>1, <2>5, FieldsSound
    <2> HIDE DEF x
    <2> QED
        BY <1>6, <1>7, <2>3, <2>6, ThreadMoved DEF bound
<1>8. ThreadInv'
    BY <1>2, <1>6, <1>7, RestsSound
<1> QED
    BY <1>6, <1>8, Facts, Concludes DEF Reclaim, NoEvent

LEMMA FinishReclaimPreserves ==
    ASSUME Inv, NEW t \in Threads, FinishReclaim(t) PROVE Preserves
<1> DEFINE bound == entry.claim.epoch'
           r == [thread[t] EXCEPT !.rel = 0]
<1>1. Grows(entry, entry')
    BY Facts, ReleasedKeeps, SoundSteps DEF FinishReclaim
<1>2. /\ bound \in Nat /\ ThreadSound(thread[t], bound) /\ 0 \in 0..bound
      /\ NoJob \in Jobs \cup {NoJob} /\ NoJob.epoch \in 0..bound
      /\ "reclaimed" \in Pcs
    BY <1>1, Epochs, ThreadStaysSound, NothingTyped DEF Pcs
<1>3. thread' = [thread EXCEPT ![t] = Moved(r, "reclaimed", FALSE)]
    BY DEF FinishReclaim
<1> HIDE DEF bound
<1>4. ThreadSound(r, bound)
    BY <1>2, FieldsSound
<1> HIDE DEF r
<1>5. ThreadSound(Moved(r, "reclaimed", FALSE), bound) /\ Sends(Moved(r, "reclaimed", FALSE))
    BY <1>2, <1>4, MovedSound
<1>6. ThreadInv'
    BY <1>1, <1>3, <1>5, ThreadMoved DEF bound
<1> QED
    BY <1>1, <1>6, Facts, Concludes DEF FinishReclaim, NoEvent

LEMMA WithdrawAfterReclaimPreserves ==
    ASSUME Inv, NEW t \in Threads, WithdrawAfterReclaim(t) PROVE Preserves
<1>1. Grows(entry, entry')
    BY Facts, TrustAlike, AlikeKeeps, SoundSteps DEF WithdrawAfterReclaim, Trusts, Distrust
<1>2. ThreadInv'
    BY <1>1, RestsSound DEF WithdrawAfterReclaim
<1> QED
    BY <1>1, <1>2, Facts, Concludes DEF WithdrawAfterReclaim, NoEvent

----------------------------------------------------------------------------
(* The dispatcher                                                          *)

LEMMA ReapPreserves == ASSUME Inv, Reap PROVE Preserves
<1> DEFINE due == [entry EXCEPT !.detach_due = TRUE]
<1>1. Keeps(entry, due) /\ entry' = ScheduleDueDetach(due)
    BY Facts, FlagsMoved, AlikeKeeps DEF Reap
<1> HIDE DEF due
<1>2. Grows(due, ScheduleDueDetach(due))
    BY <1>1, ScheduleGrows DEF Keeps, SlotKept
<1>3. Grows(entry, entry')
    BY <1>1, <1>2, Facts, SoundSteps
<1>4. ThreadInv'
    BY <1>3, ThreadsStay DEF Reap
<1> QED
    BY <1>3, <1>4, Facts, Concludes DEF Reap, NoEvent

LEMMA BeginWatcherPollPreserves == ASSUME Inv, BeginWatcherPoll PROVE Preserves
<1> DEFINE epoch == entry.claim.epoch
           leg == PollLeg(epoch)
           taken == TakeForLeg(entry, leg)
           claim == BeginPoll(taken.claim, leg.epoch)
           r == [Idle EXCEPT !.pc = "polling", !.job = leg, !.held = TRUE]
<1>1. epoch \in Nat /\ leg \in Legs /\ leg.epoch = epoch /\ epoch \in 0..epoch /\ leg \in Work
    BY Facts DEF PollLeg, Legs, LegKinds, Work
<1>2. entry' = [taken EXCEPT !.claim = claim] /\ thread' = [thread EXCEPT ![Dispatcher] = r]
    BY DEF BeginWatcherPoll
<1>3. ThreadSound(Idle, epoch) /\ Sends(Idle)
    BY <1>1, IdleSound
<1> HIDE DEF leg
<1>4. Keeps(entry, taken)
    BY <1>1, Facts, PinKeeps
<1> HIDE DEF taken
<1>5. Stays(taken.claim, claim)
    BY <1>1, <1>4, LegMovesStay DEF Keeps, Sound, SlotKept
<1> HIDE DEF claim
<1>6. Keeps(entry, entry')
    BY <1>2, <1>4, <1>5, Facts, ClaimKeeps, SoundSteps DEF Keeps, SlotKept
<1>7. Grows(entry, entry') /\ entry.claim.epoch' = epoch
    BY <1>6, Facts, SoundSteps DEF Keeps, SlotKept
<1>8. r \in ThreadStates
    BY <1>1, <1>3 DEF ThreadSound, ThreadStates, Pcs
<1>9. /\ r.job = leg /\ r.next = Idle.next /\ r.followup = Idle.followup
      /\ r.rel = Idle.rel /\ r.lost = Idle.lost /\ r.pc = "polling" /\ r.after = Idle.after
    BY <1>3 DEF ThreadSound, ThreadStates
<1>10. ThreadSound(r, epoch) /\ Sends(r)
    BY <1>1, <1>3, <1>8, <1>9 DEF ThreadSound, Sends, Idle
<1> HIDE DEF r
<1>11. ThreadInv'
    BY <1>2, <1>7, <1>10, Facts, ThreadMoved
<1> QED
    BY <1>7, <1>11, Facts, Concludes DEF BeginWatcherPoll, NoEvent

\* What a poll schedules over a well-formed entry.
LEMMA PollSchedulesGrows ==
    ASSUME Inv, NEW s, Keeps(entry, s), NEW owes \in BOOLEAN
    PROVE  Grows(entry, PollSchedules(s, owes))
<1>1. Moves(s, ScheduleJob(s, "Reconcile")) /\ Moves(s, ScheduleDemand(s))
      /\ Grows(s, PublishDamage(s)) /\ Grows(s, ScheduleDueDetach(s))
    BY KindsHandedOn, ScheduleMoves, ScheduleDemandMoves, ScheduleGrows DEF Keeps, SlotKept
<1>2. Sound(s) /\ (Moves(s, PollSchedules(s, owes)) \/ Grows(s, PollSchedules(s, owes)))
    BY <1>1 DEF PollSchedules, Keeps, SlotKept
<1> QED
    BY <1>2, Facts, SoundSteps

LEMMA PollFacts ==
    ASSUME Inv
    PROVE  /\ Keeps(entry, PollUnpinned) /\ Dispatcher \in Threads
           /\ EpochOf(Dispatcher) \in 0..entry.claim.epoch
BY Facts, ThreadFacts, UnpinnedKeeps DEF PollUnpinned

LEMMA PollEndedKeeps ==
    ASSUME Inv, NEW s, Keeps(entry, s)
    PROVE  Keeps(entry, PollEnded(s))
<1> DEFINE epoch == EpochOf(Dispatcher)
           claim == EndPoll(s.claim, epoch)
           left == [s EXCEPT !.claim = claim]
<1>1. epoch \in 0..s.claim.epoch /\ epoch \in 0..entry.claim.epoch /\ Sound(s)
    BY PollFacts DEF Keeps, SlotKept
<1>2. PollEnded(s) = Park(left, epoch)
    BY DEF PollEnded
<1> HIDE DEF epoch
<1>3. Stays(s.claim, claim)
    BY <1>1, LegMovesStay DEF Sound
<1> HIDE DEF claim
<1>4. Keeps(entry, left)
    BY <1>1, <1>3, Facts, ClaimKeeps, SoundSteps
<1> HIDE DEF left
<1>5. Keeps(left, Park(left, epoch))
    BY <1>1, <1>4, ParkKeeps DEF Keeps, SlotKept
<1> QED
    BY <1>2, <1>4, <1>5, Facts, SoundSteps

LEMMA PollFindsNothingPreserves == ASSUME Inv, PollFindsNothing PROVE Preserves
<1> DEFINE parked == PollEnded(PollUnpinned)
           owes == ~OwesARung(parked) /\ parked.pending # "none"
           left == IF owes THEN PublishPendingReconcile(parked) ELSE parked
<1>1. Keeps(entry, parked)
    BY PollFacts, PollEndedKeeps
<1>2. entry' = PollSchedules(left, owes)
    BY DEF PollFindsNothing
<1> HIDE DEF parked
<1>3. owes \in BOOLEAN
    OBVIOUS
<1>4. Keeps(entry, left)
    BY <1>1, AlikeKept, PublishAlike
<1> HIDE DEF owes, left
<1>5. Grows(entry, entry')
    BY <1>2, <1>3, <1>4, PollSchedulesGrows
<1>6. ThreadInv'
    BY <1>5, PollFacts, RestsSound DEF PollFindsNothing
<1> QED
    BY <1>5, <1>6, Facts, Concludes DEF PollFindsNothing, NoEvent

LEMMA PollFindsFactsPreserves == ASSUME Inv, PollFindsFacts PROVE Preserves
<1>1. PICK batch \in Batches :
        LET merged == Merge(PollUnpinned, batch)
            trusted == SetTrust(merged, IF batch = "rescan" THEN "Overflow" ELSE "Healing")
            owes == ~OwesARung(merged)
        IN  entry' = PollSchedules(PollEnded(IF owes THEN trusted ELSE merged), owes)
    BY DEF PollFindsFacts
<1> DEFINE merged == Merge(PollUnpinned, batch)
           trust == IF batch = "rescan" THEN "Overflow" ELSE "Healing"
           owes == ~OwesARung(merged)
           left == IF owes THEN SetTrust(merged, trust) ELSE merged
<1>2. entry' = PollSchedules(PollEnded(left), owes) /\ owes \in BOOLEAN /\ trust \in Trusts
    BY <1>1 DEF Trusts, Warm, Distrust
<1>3. Keeps(entry, merged)
    BY PollFacts, AlikeKept, FactsAlike
<1> HIDE DEF merged, trust
<1>4. Keeps(entry, left)
    BY <1>2, <1>3, AlikeKept, TrustAlike
<1> HIDE DEF left, owes
<1>5. Grows(entry, entry')
    BY <1>2, <1>4, PollEndedKeeps, PollSchedulesGrows
<1>6. ThreadInv'
    BY <1>5, PollFacts, RestsSound DEF PollFindsFacts
<1> QED
    BY <1>5, <1>6, Concludes DEF PollFindsFacts

LEMMA PollLosesLockPreserves == ASSUME Inv, PollLosesLock PROVE Preserves
<1>1. PICK contended \in BOOLEAN :
        entry' = BeginRelease([PollUnpinned EXCEPT !.contended = @ \/ contended,
                                                   !.claim = Supersede(@)])
    BY DEF PollLosesLock
<1> DEFINE u == PollUnpinned
           flag == u.contended \/ contended
           parked == [u EXCEPT !.contended = flag]
           left == [parked EXCEPT !.claim = Supersede(@)]
<1>2. entry' = BeginRelease(left)
    BY <1>1
<1>3. Keeps(entry, u)
    BY PollFacts
<1> HIDE DEF u
<1>4. flag \in BOOLEAN
    BY <1>3 DEF Keeps, Sound, Entries, SlotKept
<1> HIDE DEF flag
<1>5. Keeps(entry, parked)
    BY <1>3, <1>4, AlikeKept, FlagsMoved
<1> HIDE DEF parked
<1>6. Moves(entry, left)
    <2>1. Moves(parked, left)
        BY <1>5, GateKeeps DEF Keeps, SlotKept
    <2> QED
        BY <1>5, <2>1, Facts, SoundSteps
<1> HIDE DEF left
<1>7. Moves(entry, entry')
    BY <1>2, <1>6, Facts, BeginReleaseKeeps, SoundSteps DEF Moves, SlotKept
<1>8. Grows(entry, entry')
    BY <1>7, Facts, SoundSteps
<1>9. EpochOf(Dispatcher) \in 0..entry.claim.epoch' /\ "idle" \in Pcs
    BY <1>8, PollFacts, Epochs DEF Pcs
<1>10. ThreadInv'
    BY <1>8, <1>9, PollFacts, GoesReleasingKeeps DEF PollLosesLock
<1> QED
    BY <1>8, <1>10, Facts, Concludes DEF PollLosesLock

\* What a poll that fails leaves of the claim.
LEMMA PollDroppedKeeps ==
    ASSUME Inv
    PROVE  Keeps(entry, [PollUnpinned EXCEPT !.claim = DropMarker(@)])
<1> DEFINE u == PollUnpinned
           dropped == [u EXCEPT !.claim = DropMarker(@)]
<1>1. Keeps(entry, u)
    BY PollFacts
<1> HIDE DEF u
<1>2. Keeps(u, dropped)
    BY <1>1, GateKeeps DEF Keeps, SlotKept
<1>3. Keeps(entry, dropped)
    BY <1>1, <1>2, Facts, SoundSteps
<1> QED
    BY <1>3 DEF u

LEMMA PollFailsPreserves == ASSUME Inv, PollFails PROVE Preserves
<1> DEFINE dropped == [PollUnpinned EXCEPT !.claim = DropMarker(@)]
           owing == RequireRecoveryKeepingDemands(dropped)
           merged == Merge(owing, "rescan")
           left == SetTrust(merged, "Untrusted")
           bound == entry.claim.epoch'
           leg == [Idle EXCEPT !.pc = "classifying"]
           r == [leg EXCEPT !.lost = bound]
<1>1. Keeps(entry, dropped)
    BY PollDroppedKeeps
<1>2. /\ entry' = PollSchedules(PollEnded(left), FALSE)
      /\ Rests(Dispatcher) \/ thread' = [thread EXCEPT ![Dispatcher] = r]
    BY DEF PollFails
<1> HIDE DEF dropped
<1>3. Keeps(entry, owing)
    BY <1>1, AlikeKept, FlagsAlike
<1> HIDE DEF owing
<1>4. Keeps(entry, merged)
    <2>1. "rescan" \in Batches
        BY DEF Batches
    <2> QED
        BY <1>3, <2>1, AlikeKept, FactsAlike
<1> HIDE DEF merged
<1>5. Keeps(entry, left)
    BY <1>4, AlikeKept, TrustAlike DEF Trusts, Distrust
<1> HIDE DEF left
<1>6. Grows(entry, entry')
    BY <1>2, <1>5, PollEndedKeeps, PollSchedulesGrows
<1>7. /\ bound \in Nat /\ bound \in 0..bound /\ ThreadSound(Idle, bound) /\ "classifying" \in Pcs
      /\ NoJob \in Jobs \cup {NoJob} /\ NoJob.epoch \in 0..bound /\ Idle \in ThreadStates
    BY <1>6, Epochs, IdleSound, NoJobSound DEF ThreadSound, Pcs
<1>8. r.pc = "classifying" /\ r.after = "idle"
    BY <1>7 DEF ThreadStates, Idle
<1> HIDE DEF bound
<1>9. ThreadSound(leg, bound)
    BY <1>7, FieldsSound
<1> HIDE DEF leg
<1>10. ThreadSound(r, bound)
    BY <1>7, <1>9, FieldsSound
<1>11. Sends(r)
    BY <1>8 DEF Sends
<1> HIDE DEF r
<1>12. ThreadInv'
    BY <1>2, <1>6, <1>10, <1>11, PollFacts, RestsSound, ThreadMoved DEF bound
<1> QED
    BY <1>6, <1>12, Concludes DEF PollFails

LEMMA PollFindsDamagePreserves == ASSUME Inv, PollFindsDamage PROVE Preserves
<1> DEFINE dropped == [PollUnpinned EXCEPT !.claim = DropMarker(@)]
           withdrawn == WithdrawTrustForDamage(dropped)
           left == PollEnded(withdrawn)
<1>1. Keeps(entry, dropped)
    BY PollDroppedKeeps
<1>2. entry' = ScheduleJob(left, "Rebuild")
    BY DEF PollFindsDamage
<1> HIDE DEF dropped
<1>3. Keeps(entry, withdrawn)
    BY <1>1, AlikeKept, RungsAlike
<1> HIDE DEF withdrawn
<1>4. Keeps(entry, left)
    BY <1>3, PollEndedKeeps
<1> HIDE DEF left
<1>5. Moves(left, entry')
    BY <1>2, <1>4, KindsHandedOn, ScheduleMoves DEF Keeps, SlotKept
<1>6. Grows(entry, entry')
    BY <1>4, <1>5, Facts, SoundSteps
<1>7. ThreadInv'
    BY <1>6, PollFacts, RestsSound DEF PollFindsDamage
<1> QED
    BY <1>6, <1>7, Facts, Concludes DEF PollFindsDamage

LEMMA StalePollPreserves == ASSUME Inv, PollStale \/ StalePollGivesBack PROVE Preserves
<1>1. Grows(entry, entry')
    BY PollFacts, Facts, SoundSteps DEF PollStale, StalePollGivesBack
<1>2. /\ EpochOf(Dispatcher) \in 0..entry.claim.epoch' /\ Dispatcher \in Threads
      /\ "idle" \in Pcs /\ "stale" \in Pcs /\ "closing" \in Pcs
    BY <1>1, PollFacts, Epochs DEF Pcs
<1>3. ThreadInv'
    BY <1>1, <1>2, GoesSound, GoesReleasingKeeps DEF PollStale, StalePollGivesBack
<1> QED
    BY <1>1, <1>3, Facts, Concludes DEF PollStale, StalePollGivesBack, NoEvent

LEMMA CloseStalePollPreserves == ASSUME Inv, CloseStalePoll PROVE Preserves
<1> DEFINE epoch == EpochOf(Dispatcher)
           released == [entry EXCEPT !.coverage = ReleasedBy(@, epoch)]
           claim == EndPoll(released.claim, epoch)
           ended == [released EXCEPT !.claim = claim]
           left == IF entry.claim.leg = PollLeg(epoch) THEN ended ELSE released
<1>1. epoch \in 0..entry.claim.epoch /\ Dispatcher \in Threads /\ "idle" \in Pcs
    BY PollFacts DEF Pcs
<1>2. \/ entry' = released /\ GoesReleasing(Dispatcher, FALSE, epoch, "idle")
      \/ entry' = PublishDamageOrDemandedWork(left) /\ Rests(Dispatcher)
    BY DEF CloseStalePoll
<1> HIDE DEF epoch
<1>3. Keeps(entry, released)
    BY <1>1, Facts, CustodyKeeps
<1> HIDE DEF released
<1>4. Stays(released.claim, claim)
    BY <1>1, <1>3, LegMovesStay DEF Keeps, Sound, SlotKept
<1> HIDE DEF claim
<1>5. Keeps(released, ended)
    BY <1>3, <1>4, ClaimKeeps DEF Keeps, SlotKept
<1>6. Keeps(entry, left)
    BY <1>3, <1>5, Facts, SoundSteps
<1> HIDE DEF left
<1>7. Grows(left, PublishDamageOrDemandedWork(left))
    BY <1>6, ScheduleGrows DEF Keeps, SlotKept
<1>8. Grows(entry, entry')
    BY <1>2, <1>3, <1>6, <1>7, Facts, SoundSteps
<1>9. epoch \in 0..entry.claim.epoch'
    BY <1>1, <1>8, Epochs
<1>10. ThreadInv'
    BY <1>1, <1>2, <1>8, <1>9, RestsSound, GoesReleasingKeeps
<1> QED
    BY <1>8, <1>10, Facts, Concludes DEF CloseStalePoll, NoEvent

----------------------------------------------------------------------------
(* Marked jobs and clients                                                 *)

LEMMA MarkedPreserves == ASSUME Inv, MarkedStep PROVE Preserves
<1>1. CASE TakeMarked
    <2>1. entry.claim.marker \in Jobs /\ entry.claim.marker.epoch \in 0..entry.claim.epoch
        BY <1>1, Facts DEF TakeMarked, MarkedIsFree, ClaimSound
    <2>2. /\ Lasts(entry.claim, TakeSlotForMarked(entry.claim))
          /\ TakeSlotForMarked(entry.claim).slot = entry.claim.marker.epoch
        BY Facts, SlotMovesStay
    <2>3. entry' = [entry EXCEPT !.claim = TakeSlotForMarked(entry.claim)]
        BY <1>1 DEF TakeMarked
    <2>4. /\ Rises(entry, entry') /\ entry.claim.epoch' = entry.claim.epoch
          /\ entry.claim.slot' = entry.claim.marker.epoch
        BY <2>2, <2>3, ClaimLasts
    <2>8. entry.claim.marker \in InFlight'
        <3>1. entry.claim.marker # NoJob
            BY <2>1 DEF Jobs, JobKinds, NoJob
        <3> QED
            BY <1>1, <3>1 DEF TakeMarked, InFlight
    <2>5. ThreadInv'
        BY <1>1, <2>4, ThreadsStay DEF TakeMarked
    <2>6. ChannelInv'
        BY <1>1, <2>1, <2>4 DEF TakeMarked, Inv, ChannelInv
    <2>7. RestInv'
        BY <1>1, Facts, RestStays DEF TakeMarked, NoEvent
    <2> QED
        BY <2>4, <2>5, <2>6, <2>7, <2>8 DEF Preserves, Gives
<1>2. ASSUME NEW job \in sends, SendMarked(job) PROVE Preserves
    <2>1. job \in Jobs /\ job.epoch \in 0..entry.claim.epoch
        BY DEF Inv, ChannelInv
    <2>2. Grows(entry, entry')
        BY <1>2, Facts DEF SendMarked
    <2>3. ThreadInv'
        BY <1>2, <2>2, ThreadsStay DEF SendMarked
    <2>4. ChannelInv'
        BY <1>2, <2>1, AppendSound DEF SendMarked
    <2>5. RestInv'
        BY <1>2, Facts, RestStays DEF SendMarked, NoEvent
    <2> QED
        BY <2>2, <2>3, <2>4, <2>5 DEF Preserves
<1>3. ASSUME NEW job \in sends, RefuseMarked(job) PROVE Preserves
    <2>1. job \in Jobs /\ job.epoch \in 0..entry.claim.epoch
        BY DEF Inv, ChannelInv
    <2>2. Stays(entry.claim, FreeSlot(entry.claim, job.epoch))
        BY <2>1, Facts, SlotMovesStay
    <2>3. Keeps(entry, entry')
        BY <1>3, <2>2, Facts, ClaimKeeps DEF RefuseMarked
    <2>4. Grows(entry, entry') /\ entry.claim.epoch' = entry.claim.epoch
        BY <2>3, Facts, SoundSteps DEF Keeps, SlotKept
    <2>5. ThreadInv'
        BY <1>3, <2>4, ThreadsStay DEF RefuseMarked
    <2>6. ChannelInv'
        BY <1>3, <2>4 DEF RefuseMarked, Inv, ChannelInv
    <2>7. RestInv'
        BY <1>3, Facts, RestStays DEF RefuseMarked, NoEvent
    <2> QED
        BY <2>4, <2>5, <2>6, <2>7 DEF Preserves
<1> QED
    BY <1>1, <1>2, <1>3 DEF MarkedStep

\* A step of a client touches the entry and its own counts.
LEMMA ClientConcludes ==
    ASSUME Inv, Grows(entry, entry'), UNCHANGED <<thread, underived>>, UNCHANGED Channel,
           reads' \in Nat, demands' \in 0..MaxDemands, Event \/ NoEvent
    PROVE  Preserves
<1>1. ThreadInv' /\ ChannelInv'
    BY ThreadsStay, ChannelStays
<1>2. events' \in 0..MaxEvents
    BY BudgetsAssumption DEF Inv, RestInv, Event, NoEvent
<1> QED
    BY <1>1, <1>2 DEF Inv, RestInv, Preserves

LEMMA DemandEntryPreserves ==
    ASSUME Inv, NEW retry \in BOOLEAN, DemandEntry(retry) PROVE Preserves
<1> DEFINE flag == entry.contended /\ ~retry
           bare == [entry EXCEPT !.contended = flag]
           asked == RecordDemand(bare, TRUE)
           settled == IF asked.contended THEN asked ELSE RetireRegistryParks(asked)
<1>1. flag \in BOOLEAN
    BY Facts DEF Entries
<1>2. entry' = settled \/ entry' = ScheduleDemand(settled)
    BY DEF DemandEntry
<1> HIDE DEF flag
<1>3. Keeps(entry, bare)
    BY <1>1, Facts, FlagsMoved, AlikeKeeps
<1> HIDE DEF bare
<1>4. Grows(bare, asked)
    BY <1>3, RecordDemandGrows DEF Keeps, SlotKept
<1>5. Grows(entry, asked)
    BY <1>3, <1>4, Facts, SoundSteps
<1> HIDE DEF asked
<1>6. Grows(entry, settled)
    BY <1>5, Facts, FlagsAlike, ThenAlike DEF Grows, Sound, SlotKept
<1> HIDE DEF settled
<1>7. Moves(settled, ScheduleDemand(settled)) /\ settled.claim.epoch \in Nat
    BY <1>6, SoundEpoch, ScheduleDemandMoves DEF Grows, SlotKept
<1>8. Grows(entry, entry')
    BY <1>2, <1>6, <1>7, Facts DEF Grows, Moves, SlotKept
<1> QED
    BY <1>8, BudgetsAssumption, ClientConcludes
    DEF DemandEntry, Asks, NoEvent, Inv, RestInv

LEMMA BeginQueryReadPreserves == ASSUME Inv, BeginQueryRead PROVE Preserves
<1> DEFINE asked == RecordDemand(entry, ~entry.awaits)
<1>1. Grows(entry, asked)
    BY Facts, RecordDemandGrows
<1>2. entry' = asked \/ entry' = ScheduleDemand(asked)
    BY DEF BeginQueryRead
<1> HIDE DEF asked
<1>3. Moves(asked, ScheduleDemand(asked)) /\ asked.claim.epoch \in Nat
    BY <1>1, SoundEpoch, ScheduleDemandMoves DEF Grows, SlotKept
<1>4. Grows(entry, entry')
    BY <1>1, <1>2, <1>3, Facts DEF Grows, Moves, SlotKept
<1> QED
    BY <1>4, BudgetsAssumption, ClientConcludes
    DEF BeginQueryRead, Asks, NoEvent, Inv, RestInv

LEMMA ReadsPreserve ==
    ASSUME Inv, NEW asking \in BOOLEAN, PinRead \/ EndRead \/ DropLease(asking)
    PROVE  Preserves
<1>1. entry.leases \in Nat /\ entry.recovery_demands \in Nat /\ entry.pins \in Nat /\ reads \in Nat
    BY Facts, EntryTyped DEF Inv, RestInv
<1>2. CASE PinRead
    <2> DEFINE opened == [entry EXCEPT !.reader = TRUE]
               pinned == [opened EXCEPT !.pins = entry.pins + 1]
    <2>1. Keeps(entry, opened) /\ opened.pins = entry.pins
        BY Facts, FlagsMoved, AlikeKeeps DEF Entries
    <2>2. entry' = pinned /\ entry.pins + 1 \in Nat
        BY <1>1, <1>2, <2>1 DEF PinRead
    <2> HIDE DEF opened
    <2>3. Keeps(entry, pinned)
        BY <2>1, <2>2, AlikeKept, CountsMoved
    <2>4. Grows(entry, entry')
        BY <2>2, <2>3, Facts, SoundSteps
    <2> QED
        BY <1>1, <1>2, <2>4, ClientConcludes DEF PinRead, NoEvent, Inv, RestInv
<1>3. CASE EndRead
    <2>1. Grows(entry, entry')
        BY <1>3, Facts, FlagsAlike, AlikeKeeps, SoundSteps DEF EndRead
    <2> QED
        BY <1>1, <1>3, <2>1, ClientConcludes DEF EndRead, NoEvent, Inv, RestInv
<1>4. CASE DropLease(asking)
    <2>1. entry.leases > 0 /\ (asking => entry.recovery_demands > 0)
        BY <1>1, <1>4 DEF DropLease, RecoveryDemanded
    <2>2. Grows(entry, entry')
        BY <1>4, <2>1, Facts, GiveBackDemandAlike, AlikeKeeps, SoundSteps DEF DropLease
    <2> QED
        BY <1>1, <1>4, <2>2, ClientConcludes DEF DropLease, NoEvent, Inv, RestInv
<1> QED
    BY <1>2, <1>3, <1>4

LEMMA EntryAsksPreserve == ASSUME Inv, ReadMeetsDamage \/ AskMaintenance PROVE Preserves
<1>1. CASE ReadMeetsDamage
    <2> DEFINE met == [entry EXCEPT !.damage = TRUE]
    <2>1. Keeps(entry, met) /\ entry' = PublishDamage(met)
        BY <1>1, Facts, FlagsMoved, AlikeKeeps DEF ReadMeetsDamage
    <2> HIDE DEF met
    <2>2. Grows(entry, entry')
        BY <2>1, Facts, ScheduleGrows, SoundSteps DEF Keeps, SlotKept
    <2> QED
        BY <1>1, <2>2, ClientConcludes DEF ReadMeetsDamage, Client, Inv, RestInv
<1>2. CASE AskMaintenance
    <2>1. Grows(entry, entry')
        BY <1>2, Facts, KindsHandedOn, ScheduleMoves, SoundSteps DEF AskMaintenance
    <2> QED
        BY <1>2, <2>1, ClientConcludes DEF AskMaintenance, Client, Inv, RestInv
<1> QED
    BY <1>1, <1>2

----------------------------------------------------------------------------
(* The invariant, and what follows from it                                 *)

LEMMA InitInv == Init => Inv
<1> SUFFICES ASSUME Init PROVE Inv
    OBVIOUS
<1>1. Sound(entry) /\ entry.claim.epoch = 0
    BY NewEntry DEF Init
<1>2. ThreadSound(Idle, 0) /\ Sends(Idle) /\ Idle \in ThreadStates
    BY IdleSound DEF ThreadSound
<1>3. ThreadInv
    BY <1>1, <1>2 DEF Init, ThreadInv
<1>4. ChannelInv
    BY LenProperties DEF Init, ChannelInv
<1>5. RestInv
    <2>1. underived \in BOOLEAN
        BY DEF Init
    <2> QED
        BY <2>1, BudgetsAssumption DEF Init, RestInv
<1> QED
    BY <1>1, <1>3, <1>4, <1>5 DEF Inv

LEMMA StutterPreserves == ASSUME Inv, UNCHANGED vars PROVE Preserves
<1>1. Grows(entry, entry')
    BY Facts DEF vars
<1> QED
    BY <1>1, Facts, ClientConcludes DEF vars, NoEvent, Channel, Inv, RestInv

LEMMA WorkerPreserves == ASSUME Inv, NEW w \in Workers, WorkerStep(w) PROVE Preserves
BY ReceivePreserves, ReceiveStalePreserves, BeginLegPreserves, IdleStepsPreserve,
   AttachRefusedPreserves, AttachConflictPreserves, AttachMovedPreserves,
   AttachSucceedsPreserves, AttachWithheldPreserves, AttachFailsPreserves,
   LosesClaimPreserves, TakesCoveragePreserves, RecoverRefusedAtOncePreserves,
   WorkedStalePreserves, RecoverUnpinsPreserves, RecoverRefusedPreserves,
   RecoverFindsMovedPreserves, TurnLosesLockPreserves,
   TurnFailsPreserves, TurnFindsDamagePreserves, RecoverSucceedsPreserves,
   RebuildSucceedsPreserves, LegWithheldPreserves, RebuildFailsPreserves,
   ReconcileSucceedsPreserves, MaintenanceSucceedsPreserves, BeginDetachPreserves,
   HandOffToPreserves, EndsByReleasingPreserves, CloseLegPreserves, Facts
DEF WorkerStep

LEMMA DispatcherPreserves == ASSUME Inv, DispatcherStep PROVE Preserves
BY ReapPreserves, BeginWatcherPollPreserves, PollFindsNothingPreserves,
   PollFindsFactsPreserves, PollLosesLockPreserves, PollFailsPreserves,
   PollFindsDamagePreserves, StalePollPreserves, CloseStalePollPreserves
DEF DispatcherStep

LEMMA AnyThreadPreserves == ASSUME Inv, NEW t \in Threads, AnyThreadStep(t) PROVE Preserves
BY FinishReleasePreserves, ReturnCoveragePreserves, SendFollowupPreserves,
   RefuseFollowupPreserves, ClassifyPreserves, GiveBackLostPreserves, UnwindPreserves,
   ReclaimPreserves, FinishReclaimPreserves, WithdrawAfterReclaimPreserves
DEF AnyThreadStep

LEMMA ClientPreserves == ASSUME Inv, ClientStep PROVE Preserves
BY DemandEntryPreserves, BeginQueryReadPreserves, ReadsPreserve, EntryAsksPreserve
DEF ClientStep

\* Every step preserves the invariant, and takes the entry to no earlier epoch.
LEMMA StepPreserves == ASSUME Inv, [Next]_vars PROVE Preserves
<1>1. ASSUME NEW w \in Workers, WorkerStep(w) PROVE Preserves
    BY <1>1, WorkerPreserves
<1>2. CASE DispatcherStep
    BY <1>2, DispatcherPreserves
<1>3. CASE RegistrarStep(Registrar)
    BY <1>3, RegistrarPreserves
<1>4. ASSUME NEW t \in Threads, AnyThreadStep(t) PROVE Preserves
    BY <1>4, AnyThreadPreserves
<1>5. CASE MarkedStep
    BY <1>5, MarkedPreserves
<1>6. CASE ClientStep
    BY <1>6, ClientPreserves
<1>7. CASE UNCHANGED vars
    BY <1>7, StutterPreserves
<1> QED
    BY <1>1, <1>2, <1>3, <1>4, <1>5, <1>6, <1>7 DEF Next

LEMMA PreservesInv == Preserves => Inv'
BY DEF Preserves, Gives, Grows, Rises, Inv

\* The inductive invariant holds of every reachable state: the entry is sound, the
\* threads' jobs, releases and sends are of issued epochs, and so is what the
\* channel carries.  Every hold of every thread in lifecycle.rs keeps it.
THEOREM InvHolds == Spec => []Inv
<1>1. Inv /\ [Next]_vars => Inv'
    BY StepPreserves, PreservesInv
<1> QED
    BY <1>1, InitInv, PTL DEF Spec

\* For any number of workers and any budgets, every variable has its type.
THEOREM LifecycleTyped == Spec => []TypeOK
<1>1. Inv => TypeOK
    BY DEF Inv, Sound, ThreadInv, ChannelInv, RestInv, TypeOK
<1> QED
    BY <1>1, InvHolds, PTL

\* No job, leg, slot, custody or release of the system names an epoch the entry
\* has not reached: what an epoch left behind started is never current again.
THEOREM EpochsAreIssued == Spec => []EpochsIssued
<1>1. ASSUME Inv PROVE EpochsIssued
    <2>1. /\ entry.claim.marker.epoch \in 0..entry.claim.epoch
          /\ entry.claim.leg.epoch \in 0..entry.claim.epoch
          /\ entry.claim.slot \in 0..entry.claim.epoch
          /\ entry.coverage.leg \in 0..entry.claim.epoch
          /\ entry.pinned_leg.epoch \in 0..entry.claim.epoch
        BY <1>1 DEF Inv, Sound, ClaimSound
    <2>2. \A t \in Threads :
              /\ thread[t].job.epoch \in 0..entry.claim.epoch
              /\ thread[t].next.epoch \in 0..entry.claim.epoch
              /\ thread[t].followup.epoch \in 0..entry.claim.epoch
              /\ thread[t].rel \in 0..entry.claim.epoch
              /\ thread[t].lost \in 0..entry.claim.epoch
        BY <1>1 DEF Inv, ThreadInv, ThreadSound
    <2>3. /\ \A i \in DOMAIN queue : queue[i].epoch \in 0..entry.claim.epoch
          /\ \A job \in sends : job.epoch \in 0..entry.claim.epoch
        BY <1>1 DEF Inv, ChannelInv
    <2> QED
        BY <2>1, <2>2, <2>3, Zenon DEF EpochsIssued
<1> QED
    BY <1>1, InvHolds, PTL

\* No step of any thread, unwinds and releases included, takes the entry back to
\* an epoch it has left.
THEOREM EpochsNeverGoBack == Spec => SupersededStaysSuperseded
<1>1. Inv /\ [Next]_vars => [entry.claim.epoch' >= entry.claim.epoch]_vars
    BY StepPreserves DEF Preserves, Gives, Grows, Rises
<1> QED
    BY <1>1, InvHolds, PTL DEF Spec, SupersededStaysSuperseded
=============================================================================
