------------------------- MODULE EntryTrust_proofs -------------------------
(***************************************************************************)
(* What the entry says of itself: when it answers reads, what it owes, and *)
(* what it may not forget, for any set of workers and any budgets, under   *)
(* SparingSpec; and that the lifecycle implements the entry's contract.    *)
(*                                                                         *)
(* ReadySound and FactsKept are not inductive: a leg that succeeds makes   *)
(* the entry Ready, so the work on its way must suit what the entry owes.  *)
(* Trust says so.  ReadyMeans, KeptMeans and RungsMean say what a trust, a *)
(* coverage in hand and a rung mean of one another; GateMeans that a       *)
(* rebuild owed of coverage in hand is not left to an open gate; LegsHold  *)
(* that a thread has the job for coverage in hand while a leg of the past  *)
(* still holds the gate; JobsSuit that a job sent, queued, marked or run   *)
(* takes the entry for what it is; FactsStand that facts taken in are      *)
(* pending, owed a heal or being derived; LostMeans that a leg which lost  *)
(* its root has left the ground of a verdict, and what may go on beside it.*)
(*                                                                         *)
(* By custody a step concerns one thread.  SoloTrust and ArrangedUpholds   *)
(* reduce it to that thread and the entry before and after, and the lemmas *)
(* HandedUpholds, SoftlyUpholds and MovedOnUpholds to the few ways an      *)
(* action may go: it begins work at the next epoch, changes nothing that   *)
(* work minds, or leaves the epoch and all work of it behind.  Then come   *)
(* the actions, in groups.  Passes, which every step keeps, is what the    *)
(* refinement needs beyond the invariant: how coverage may end.            *)
(***************************************************************************)
EXTENDS EntryCustody_proofs

----------------------------------------------------------------------------
(* The invariant                                                           *)

\* A job of that kind, of the entry's epoch, on a thread's stack, or a leg at it.
WorkOf(s, r, kind) ==
    \/ /\ r.pc \in {"received", "begun", "working", "polling"}
       /\ r.job.kind = kind /\ r.job.epoch = s.claim.epoch
    \/ Standing(s, r.next) /\ r.next.kind = kind
    \/ Standing(s, r.followup) /\ r.followup.kind = kind
MarkedFor(s, kind) == s.claim.gate = "scheduled" /\ s.claim.marker.kind = kind

\* Work of that kind is on its way, or under way, for the entry as it stands.
Awaited(kind) ==
    \/ MarkedFor(entry, kind)
    \/ \E i \in DOMAIN queue : Standing(entry, queue[i]) /\ queue[i].kind = kind
    \/ \E job \in sends : Standing(entry, job) /\ job.kind = kind
    \/ \E t \in Threads : WorkOf(entry, thread[t], kind)

Kinds == JobKinds \cup {"Poll"}

\* What work of that kind takes the entry to be.
Suits(s, kind) ==
    /\ kind = "Recover" => ~s.rebuild_required /\ s.trust = "Installing"
    /\ kind = "Rebuild" => ~s.recovery_required
    /\ kind \in {"Reconcile", "Maintenance"} => ~OwesARung(s)
    /\ kind = "Poll" => ~s.rebuild_required

\* Coverage the entry has, or has out with the leg of its epoch.
Kept(s) == InHandOf(s) \/ (s.coverage = OnLeg(s.claim.epoch) /\ ~s.detach_in_flight)

ReadyMeans(s) ==
    s.trust = "Ready" =>
        /\ AccountedFor(s.coverage) /\ ~OwesARung(s) /\ ~StandsParked(s) /\ ~s.detach_in_flight
        /\ OutWithLeg(s.coverage) => s.coverage.leg = s.claim.epoch
KeptMeans(s) ==
    Kept(s) =>
        /\ ~StandsParked(s)
        /\ s.trust # "Unattached"
        /\ s.trust \in {"Untrusted", "Rebuilding"} => OwesARung(s)
        /\ s.rebuild_required => s.trust = "Rebuilding"
RungsMean(s) ==
    /\ ~(s.recovery_required /\ s.rebuild_required)
    /\ s.awaits => s.recovery_required
    /\ s.recovery_required /\ AccountedFor(s.coverage) => s.pending # "none"
GateMeans(s) == s.rebuild_required /\ InHandOf(s) => s.claim.gate # "open"
Trusty(s) == ReadyMeans(s) /\ KeptMeans(s) /\ RungsMean(s)

JobsSuit == \A kind \in Kinds : Awaited(kind) => Suits(entry, kind)

LegsHold ==
    InHandOf(entry) /\ entry.claim.gate = "held" /\ Running(entry.claim)
    /\ entry.claim.leg.epoch # entry.claim.epoch
        => \E t \in Threads : Standing(entry, thread[t].next)

Derives(s, r) ==
    /\ Registers(s, r) /\ r.job.kind = "Reconcile"
    /\ r.pc \in {"working", "unwound"}
    /\ r.job.epoch = s.claim.epoch
    /\ s.coverage = OnLeg(s.claim.epoch)
Minds(s) == s.pending # "none" \/ OwesARung(s) \/ s.detach_in_flight
FactsStand ==
    underived /\ AccountedFor(entry.coverage) =>
        Minds(entry) \/ \E t \in Threads : Derives(entry, thread[t])

LostAt(s, r) == r.pc \in {"classifying", "losing"} /\ r.lost = s.claim.epoch
LostNow == \E t \in Threads \ {Registrar} : LostAt(entry, thread[t])
LostGround(s) == AccountedFor(s.coverage) => s.trust # "Ready" /\ s.pending # "none"
Spared == {"Recover", "Rebuild", "Detach", "Poll"}
LostMeans ==
    /\ LostNow => LostGround(entry) /\ \A kind \in Kinds : Awaited(kind) => kind \in Spared
    /\ \A t \in Threads : thread[t].after = "losing" => thread[t].lost < entry.claim.epoch

Trust == Trusty(entry) /\ GateMeans(entry) /\ JobsSuit /\ LegsHold /\ FactsStand /\ LostMeans

----------------------------------------------------------------------------
(* What is awaited, and of whom                                            *)

\* A release ends without coverage, and coverage that goes by any other way goes
\* from an entry that does not serve.
Covered(s) == AccountedFor(s.coverage) /\ ~s.detach_in_flight
Passes(s, q) ==
    /\ s.detach_in_flight /\ ~q.detach_in_flight => ~AccountedFor(q.coverage)
    /\ Covered(s) /\ ~Covered(q) /\ ~q.detach_in_flight => s.trust # "Ready"

\* What every step does.
Upholds == Trust' /\ Passes(entry, entry')

\* The work of a thread, and the marked job.
OwnAwaits(s, r, kind) == MarkedFor(s, kind) \/ WorkOf(s, r, kind)

LEMMA WorkStands ==
    ASSUME NEW s, NEW r, Stand(s, r), NEW kind, WorkOf(s, r, kind)
    PROVE  /\ s.claim.gate # "open" /\ Engaged(s, r)
           /\ s.claim.gate = "scheduled" => s.claim.marker.kind = kind
<1>1. CASE r.pc \in {"begun", "working", "polling"} /\ r.job.epoch = s.claim.epoch
    BY <1>1 DEF Stand, LiveStand, Live, Engaged
<1>2. CASE r.pc = "received" /\ r.job.kind = kind /\ r.job.epoch = s.claim.epoch
    BY <1>2 DEF Stand, CarryStand, Carries, Sent, Engaged
<1>3. CASE Standing(s, r.next) /\ r.next.kind = kind
    BY <1>3 DEF Stand, NextStand, Engaged
<1>4. CASE Standing(s, r.followup) /\ r.followup.kind = kind
    BY <1>4 DEF Stand, CarryStand, Carries, Sent, Engaged
<1> QED
    BY <1>1, <1>2, <1>3, <1>4 DEF WorkOf

\* An open gate waits for nothing, and a marker is all that its gate waits for.
LEMMA OpenAwaitsNothing ==
    ASSUME NEW s, NEW r, Stand(s, r), NEW kind, OwnAwaits(s, r, kind)
    PROVE  /\ s.claim.gate # "open"
           /\ s.claim.gate = "scheduled" => kind = s.claim.marker.kind
BY WorkStands DEF OwnAwaits, MarkedFor

\* The work of threads of the past is past.
LEMMA WorkPast ==
    ASSUME Inv, NEW t \in Threads, NEW kind, NEW s, s.claim.epoch \in Nat,
           s.claim.epoch > entry.claim.epoch
    PROVE  ~WorkOf(s, thread[t], kind)
BY ThreadNums DEF WorkOf, Standing

\* After a step of t that moves on to a new epoch, or that the entry waited for, the
\* entry waits for t alone.
LEMMA AwaitedOwn ==
    ASSUME Inv, Inv', Custody, NEW t \in Threads, Unmoved(t), UNCHANGED <<queue, sends>>,
           entry.claim.epoch' >= entry.claim.epoch,
           entry.claim.epoch' # entry.claim.epoch \/ Engaged(entry, thread[t]),
           NEW kind, Awaited(kind)'
    PROVE  OwnAwaits(entry', thread'[t], kind)
<1> DEFINE e == entry.claim.epoch
<1>1. e \in Nat /\ e' \in Nat
    BY Facts, SoundEpoch DEF Inv
<1>2. (~InQueue /\ ~InSends) \/ e' > e
    BY <1>1, EngagedAlone
<1>3. /\ \A i \in DOMAIN queue : ~Standing(entry', queue[i])
      /\ \A job \in sends : ~Standing(entry', job)
    BY <1>2, ChannelPast
<1>4. ASSUME NEW u \in Threads \ {t}, WorkOf(entry', thread'[u], kind) PROVE FALSE
    <2>1. thread'[u] = thread[u]
        BY DEF Unmoved
    <2>2. CASE e' > e
        BY <1>1, <1>4, <2>1, <2>2, WorkPast
    <2>3. CASE e' = e /\ Engaged(entry, thread[t])
        <3>1. WorkOf(entry, thread[u], kind)
            BY <1>4, <2>1, <2>3 DEF WorkOf, Standing
        <3>2. Engaged(entry, thread[u])
            BY <3>1, WorkStands DEF Custody, ThreadsStand
        <3> QED
            BY <2>3, <3>2, EngagedAlone
    <2> QED
        BY <1>1, <2>2, <2>3
<1>5. \A i \in DOMAIN queue' : ~Standing(entry', queue'[i])
    BY <1>3
<1>6. \A job \in sends' : ~Standing(entry', job)
    BY <1>3
<1>7. \/ MarkedFor(entry', kind)
      \/ \E u \in Threads : WorkOf(entry', thread'[u], kind)
    BY <1>5, <1>6 DEF Awaited
<1> QED
    BY <1>4, <1>7 DEF OwnAwaits

\* What was lost at the new epoch was lost by t, or before.
LEMMA LostOwn ==
    ASSUME Inv, Inv', NEW t \in Threads, Unmoved(t),
           entry.claim.epoch' >= entry.claim.epoch, LostNow'
    PROVE  (t # Registrar /\ LostAt(entry', thread'[t])) \/ (LostNow /\ entry.claim.epoch' = entry.claim.epoch)
<1>1. PICK u \in Threads \ {Registrar} : LostAt(entry', thread'[u])
    BY DEF LostNow
<1>2. CASE u # t
    <2>1. thread'[u] = thread[u] /\ thread[u].lost \in 0..entry.claim.epoch
        BY <1>2 DEF Unmoved, Inv, ThreadInv, ThreadSound
    <2>2. thread[u].lost = entry.claim.epoch' /\ entry.claim.epoch \in Nat
        BY <1>1, <2>1, Facts DEF LostAt
    <2> QED
        BY <1>1, <2>1, <2>2 DEF LostAt, LostNow
<1> QED
    BY <1>1, <1>2

\* A thread on its way to losing a root carries an epoch the entry has left.
AfterLosing(r, epoch) == r.after = "losing" => r.lost < epoch

LEMMA OthersAfterLosing ==
    ASSUME Inv, Inv', Trust, NEW t \in Threads, Unmoved(t),
           entry.claim.epoch' >= entry.claim.epoch,
           AfterLosing(thread'[t], entry.claim.epoch')
    PROVE  \A u \in Threads : thread'[u].after = "losing" => thread'[u].lost < entry.claim.epoch'
<1> SUFFICES ASSUME NEW u \in Threads, thread'[u].after = "losing"
             PROVE  thread'[u].lost < entry.claim.epoch'
    OBVIOUS
<1>1. entry.claim.epoch \in Nat /\ entry.claim.epoch' \in Nat
    BY Facts, SoundEpoch DEF Inv
<1>2. CASE u # t
    <2>1. thread'[u] = thread[u] /\ thread[u].lost \in 0..entry.claim.epoch
        BY <1>2 DEF Unmoved, Inv, ThreadInv, ThreadSound
    <2>2. thread[u].lost < entry.claim.epoch
        BY <2>1 DEF Trust, LostMeans
    <2> QED
        BY <1>1, <2>1, <2>2
<1> QED
    BY <1>2 DEF AfterLosing

\* What t does with what was lost.
LostOver(r, s) ==
    LostGround(s) /\ \A kind \in Kinds : OwnAwaits(s, r, kind) => kind \in Spared

\* A step of t that moves on to a new epoch, or that the entry waited for.
LEMMA SoloTrust ==
    ASSUME Inv, Inv', Custody, Trust, NEW t \in Threads, Unmoved(t),
           UNCHANGED <<queue, sends>>,
           entry.claim.epoch' >= entry.claim.epoch,
           entry.claim.epoch' # entry.claim.epoch \/ Engaged(entry, thread[t]),
           Trusty(entry'), GateMeans(entry'), LegsHold',
           \A kind \in Kinds : OwnAwaits(entry', thread'[t], kind) => Suits(entry', kind),
           (t # Registrar /\ LostAt(entry', thread'[t])) \/ (LostNow /\ entry.claim.epoch' = entry.claim.epoch) =>
               LostOver(thread'[t], entry'),
           AfterLosing(thread'[t], entry.claim.epoch'),
           underived' /\ AccountedFor(entry'.coverage) =>
               Minds(entry') \/ Derives(entry', thread'[t])
    PROVE  Trust'
<1>1. ASSUME NEW kind \in Kinds, Awaited(kind)' PROVE OwnAwaits(entry', thread'[t], kind)
    BY <1>1, AwaitedOwn
<1>2. JobsSuit'
    BY <1>1 DEF JobsSuit
<1>3. LostNow' => LostOver(thread'[t], entry')
    BY LostOwn
<1>4. LostMeans'
    BY <1>1, <1>3, OthersAfterLosing DEF LostMeans, LostOver
<1>5. FactsStand'
    BY DEF FactsStand
<1> QED
    BY <1>2, <1>4, <1>5 DEF Trust

\* A leg of the past leaves no gate held over coverage in hand, but for the work it
\* hands on.
LEMMA LegsStill ==
    ASSUME Trust, NEW t \in Threads, Unmoved(t),
           \/ ~InHandOf(entry') \/ entry.claim.gate' # "held" \/ entry.claim.leg' = NoLeg
           \/ entry.claim.leg'.epoch = entry.claim.epoch'
           \/ Standing(entry', thread'[t].next)
           \/ /\ entry.claim.epoch' = entry.claim.epoch /\ entry.claim.leg' = entry.claim.leg
              /\ entry.claim.gate = "held" /\ InHandOf(entry)
              /\ Standing(entry, thread[t].next) => Standing(entry', thread'[t].next)
    PROVE  LegsHold'
<1> SUFFICES ASSUME InHandOf(entry'), entry.claim.gate' = "held", entry.claim.leg' # NoLeg,
                    entry.claim.leg'.epoch # entry.claim.epoch'
             PROVE  \E u \in Threads : Standing(entry', thread'[u].next)
    BY DEF LegsHold, Running
<1>1. CASE /\ entry.claim.epoch' = entry.claim.epoch /\ entry.claim.leg' = entry.claim.leg
           /\ entry.claim.gate = "held" /\ InHandOf(entry)
           /\ Standing(entry, thread[t].next) => Standing(entry', thread'[t].next)
    <2>1. PICK u \in Threads : Standing(entry, thread[u].next)
        BY <1>1 DEF Trust, LegsHold, Running
    <2>2. CASE u # t
        BY <1>1, <2>1, <2>2 DEF Unmoved, Standing
    <2> QED
        BY <1>1, <2>1, <2>2
<1> QED
    BY <1>1

\* q says of its trust what s says.
SameTrust(s, q) ==
    /\ q.claim.epoch = s.claim.epoch
    /\ q.coverage = s.coverage /\ q.detach_in_flight = s.detach_in_flight
    /\ q.trust = s.trust /\ q.pending = s.pending
    /\ q.recovery_required = s.recovery_required /\ q.rebuild_required = s.rebuild_required
    /\ q.awaits = s.awaits
    /\ q.contended = s.contended /\ q.duplicate = s.duplicate /\ q.identity = s.identity

LEMMA SameTrusty ==
    ASSUME NEW s, NEW q, SameTrust(s, q)
    PROVE  /\ Trusty(q) <=> Trusty(s)
           /\ \A kind : Suits(q, kind) <=> Suits(s, kind)
           /\ LostGround(q) <=> LostGround(s)
           /\ Minds(q) <=> Minds(s)
           /\ Passes(s, q)
<1>1. /\ OwesARung(q) <=> OwesARung(s)
      /\ StandsParked(q) <=> StandsParked(s)
      /\ InHandOf(q) <=> InHandOf(s)
      /\ Kept(q) <=> Kept(s)
    BY DEF SameTrust, OwesARung, StandsParked, InHandOf, Kept
<1>2. (Trusty(q) <=> Trusty(s))
    BY <1>1 DEF SameTrust, Trusty, ReadyMeans, KeptMeans, RungsMean
<1>3. \A kind : Suits(q, kind) <=> Suits(s, kind)
    BY <1>1 DEF SameTrust, Suits
<1>4. (LostGround(q) <=> LostGround(s)) /\ (Minds(q) <=> Minds(s))
    BY <1>1 DEF SameTrust, LostGround, Minds
<1>5. Passes(s, q)
    BY DEF SameTrust, Passes, Covered
<1> QED
    BY <1>2, <1>3, <1>4, <1>5

\* q is worth at least the trust that s is worth.
Eases(s, q) ==
    /\ q.claim.epoch = s.claim.epoch /\ q.coverage = s.coverage
    /\ q.rebuild_required = s.rebuild_required
    /\ Trusty(q) /\ (LostGround(s) => LostGround(q)) /\ (Minds(s) => Minds(q)) /\ Passes(s, q)
    /\ \A kind : Suits(s, kind) => Suits(q, kind)

LEMMA SameEases ==
    ASSUME NEW s, NEW q, SameTrust(s, q), Trusty(s) PROVE Eases(s, q)
BY SameTrusty DEF Eases, SameTrust

\* A step that leaves the trust alone, and adds nothing to what is awaited or lost.
LEMMA SoftlyUpholds ==
    ASSUME Trust, Eases(entry, entry'), UNCHANGED underived, LegsHold',
           entry.claim.gate' = "open" =>
               entry.claim.gate = "open" \/ ~entry.rebuild_required \/ ~InHandOf(entry),
           \A kind \in Kinds : Awaited(kind)' => Awaited(kind),
           LostNow' => LostNow,
           \A u \in Threads : thread'[u].after = "losing" => thread'[u].lost < entry.claim.epoch',
           (\E u \in Threads : Derives(entry, thread[u])) =>
               \E u \in Threads : Derives(entry', thread'[u])
    PROVE  Upholds
<1>1. /\ Trusty(entry') /\ (LostGround(entry) => LostGround(entry'))
      /\ \A kind : Suits(entry, kind) => Suits(entry', kind)
      /\ Minds(entry) => Minds(entry')
    BY DEF Eases
<1>2. JobsSuit'
    BY <1>1 DEF Trust, JobsSuit
<1>3. LostMeans'
    BY <1>1 DEF Trust, LostMeans
<1>4. FactsStand'
    BY <1>1 DEF Trust, FactsStand, Eases
<1>5. GateMeans(entry')
    <2>1. GateMeans(entry)
        BY DEF Trust
    <2> QED
        BY <2>1 DEF GateMeans, Eases, InHandOf, InHand
<1>6. Passes(entry, entry')
    BY DEF Eases
<1>7. Trust'
    BY <1>1, <1>2, <1>3, <1>4, <1>5 DEF Trust
<1> QED
    BY <1>6, <1>7 DEF Upholds

\* A step of one thread.
LEMMA SoftTrust ==
    ASSUME Inv, Inv', Custody, Trust, NEW t \in Threads, Unmoved(t),
           UNCHANGED <<queue, sends, underived>>, Eases(entry, entry'), LegsHold',
           entry.claim.leg' = entry.claim.leg \/ Engaged(entry, thread[t]),
           entry.claim.gate' = "open" =>
               entry.claim.gate = "open" \/ ~entry.rebuild_required \/ ~InHandOf(entry),
           \A kind \in Kinds :
               OwnAwaits(entry', thread'[t], kind) => OwnAwaits(entry, thread[t], kind),
           t # Registrar /\ LostAt(entry', thread'[t]) => LostNow,
           AfterLosing(thread'[t], entry.claim.epoch'),
           Derives(entry, thread[t]) => Derives(entry', thread'[t])
    PROVE  Upholds
<1>1. entry.claim.epoch' = entry.claim.epoch /\ entry.coverage' = entry.coverage
      /\ entry.claim.epoch \in Nat
    BY Facts DEF Eases
<1>2. ASSUME NEW u \in Threads \ {t}
      PROVE  /\ thread'[u] = thread[u]
             /\ \A kind : WorkOf(entry', thread'[u], kind) => WorkOf(entry, thread[u], kind)
    BY <1>1 DEF Unmoved, WorkOf, Standing
<1>3. ASSUME NEW kind \in Kinds, Awaited(kind)' PROVE Awaited(kind)
    <2>1. CASE MarkedFor(entry', kind)
        BY <2>1 DEF OwnAwaits, Awaited
    <2>2. CASE \E i \in DOMAIN queue' : Standing(entry', queue'[i]) /\ queue'[i].kind = kind
        BY <1>1, <2>2 DEF Awaited, Standing
    <2>3. CASE \E job \in sends' : Standing(entry', job) /\ job.kind = kind
        BY <1>1, <2>3 DEF Awaited, Standing
    <2>4. CASE \E u \in Threads : WorkOf(entry', thread'[u], kind)
        BY <1>2, <2>4 DEF OwnAwaits, Awaited
    <2> QED
        BY <1>3, <2>1, <2>2, <2>3, <2>4 DEF Awaited
<1>4. LostNow' => LostNow
    BY <1>1, LostOwn
<1>5. \A u \in Threads : thread'[u].after = "losing" => thread'[u].lost < entry.claim.epoch'
    BY <1>1, OthersAfterLosing
<1>6. ASSUME NEW u \in Threads, Derives(entry, thread[u])
      PROVE  Derives(entry', thread'[u])
    <2>1. CASE u # t
        <3>1. ~Engaged(entry, thread[t])
            BY <1>6, <2>1, EngagedAlone DEF Derives, Engaged
        <3> QED
            BY <1>1, <1>6, <2>1, <3>1 DEF Unmoved, Derives, Registers, Engaged
    <2> QED
        BY <1>6, <2>1
<1> QED
    BY <1>3, <1>4, <1>5, <1>6, SoftlyUpholds

----------------------------------------------------------------------------
(* Steps that leave the trust alone                                        *)

AtWork == {"received", "begun", "working", "polling"}

\* q carries no work that r does not.
FewerJobs(r, q) ==
    /\ q.next \in {r.next, NoJob} /\ q.followup \in {r.followup, NoJob}
    /\ q.pc \in AtWork => r.pc \in AtWork /\ q.job = r.job

LEMMA FewerAwaited ==
    ASSUME NEW s, NEW p, p.claim.epoch = s.claim.epoch, NEW r, NEW q, FewerJobs(r, q), NEW kind,
           WorkOf(p, q, kind)
    PROVE  WorkOf(s, r, kind)
BY DEF WorkOf, FewerJobs, AtWork, Standing

LEMMA EntryAlone ==
    ASSUME Inv, Inv', Custody, Trust, NEW t \in Threads, Unmoved(t),
           UNCHANGED <<entry, queue, sends, underived>>,
           FewerJobs(thread[t], thread'[t]), thread'[t].next = thread[t].next,
           t # Registrar /\ LostAt(entry, thread'[t]) => LostAt(entry, thread[t]),
           AfterLosing(thread'[t], entry.claim.epoch),
           Derives(entry, thread[t]) => Derives(entry, thread'[t])
    PROVE  Upholds
<1>1. Eases(entry, entry')
    BY SameEases DEF SameTrust, Trust
<1>2. LegsHold'
    <2>1. CASE InHandOf(entry) /\ entry.claim.gate = "held"
        BY <2>1, LegsStill
    <2> QED
        BY <2>1, LegsStill
<1>3. ASSUME NEW kind \in Kinds, OwnAwaits(entry', thread'[t], kind)
      PROVE  OwnAwaits(entry, thread[t], kind)
    BY <1>3, FewerAwaited DEF OwnAwaits, MarkedFor
<1>4. t # Registrar /\ LostAt(entry', thread'[t]) => LostNow
    BY DEF LostNow
<1>5. Derives(entry, thread[t]) => Derives(entry', thread'[t])
    OBVIOUS
<1>6. AfterLosing(thread'[t], entry.claim.epoch')
    OBVIOUS
<1> QED
    BY <1>1, <1>2, <1>3, <1>4, <1>5, <1>6, SoftTrust

\* Where a thread goes, with the epoch it keeps of what it lost.
LEMMA GoesWith ==
    ASSUME Inv, NEW t \in Threads, NEW pc, pc # "idle", NEW held, Goes(t, pc, held)
    PROVE  /\ thread'[t] = [thread[t] EXCEPT !.pc = pc, !.held = held, !.after = "idle"]
           /\ thread'[t].lost = thread[t].lost
<1>1. thread \in [Threads -> ThreadStates]
    BY DEF Inv, ThreadInv
<1>2. thread'[t] = [thread[t] EXCEPT !.pc = pc, !.held = held, !.after = "idle"]
    BY <1>1 DEF Goes, Moved
<1> QED
    BY <1>1, <1>2 DEF ThreadStates

\* A thread that goes on to a place from which nothing is derived or lost.
LEMMA GoesAlone ==
    ASSUME Inv, Inv', Custody, Trust, NEW t \in Threads, UNCHANGED <<entry, queue, sends, underived>>,
           NEW pc, NEW held, Goes(t, pc, held), pc # "idle",
           pc \in AtWork => thread[t].pc \in AtWork,
           pc \in {"classifying", "losing"} => thread[t].pc \in {"classifying", "losing"},
           Derives(entry, thread[t]) => pc \in {"working", "unwound"}
    PROVE  Upholds
<1>1. /\ Unmoved(t) /\ SameWork(thread[t], thread'[t])
      /\ thread'[t].pc = pc /\ thread'[t].after = "idle"
    BY GoesTo
<1>2. thread'[t].lost = thread[t].lost
    BY GoesWith
<1>3. FewerJobs(thread[t], thread'[t])
    BY <1>1 DEF FewerJobs, SameWork
<1>4. LostAt(entry, thread'[t]) => LostAt(entry, thread[t])
    BY <1>1, <1>2 DEF LostAt
<1>5. Derives(entry, thread[t]) => Derives(entry, thread'[t])
    BY <1>1 DEF Derives, SameWork, Registers, LegsRun, LegFor
<1>6. AfterLosing(thread'[t], entry.claim.epoch)
    BY <1>1 DEF AfterLosing
<1> QED
    BY <1>1, <1>3, <1>4, <1>5, <1>6, EntryAlone DEF SameWork

LEMMA BegunStaleUpholds ==
    ASSUME Inv, Inv', Custody, Trust, NEW w \in Workers, BegunStale(w) PROVE Upholds
<1>1. At(w, "begun") /\ Goes(w, "ending", FALSE) /\ UNCHANGED <<entry, underived, queue, sends>>
    BY DEF BegunStale, Channel
<1>2. ~Derives(entry, thread[w]) /\ w \in Threads
    BY <1>1, Facts DEF Derives, At
<1> QED
    BY <1>1, <1>2, GoesAlone DEF AtWork

LEMMA BeginAttachUpholds ==
    ASSUME Inv, Inv', Custody, Trust, NEW w \in Workers, BeginAttach(w) PROVE Upholds
<1>1. At(w, "begun") /\ Goes(w, "working", TRUE) /\ UNCHANGED <<entry, underived, queue, sends>>
    BY DEF BeginAttach, Channel
<1>2. ~Derives(entry, thread[w]) /\ w \in Threads
    BY <1>1, Facts DEF Derives, At
<1> QED
    BY <1>1, <1>2, GoesAlone DEF AtWork, At

LEMMA AttachStaleUpholds ==
    ASSUME Inv, Inv', Custody, Trust, NEW w \in Workers, AttachStale(w) PROVE Upholds
<1>1. PICK built \in BOOLEAN : Goes(w, "ending", built)
    BY DEF AttachStale
<1>2. KindOf(w) = "Attach" /\ UNCHANGED <<entry, underived, queue, sends>>
    BY DEF AttachStale, Channel
<1>3. ~Derives(entry, thread[w]) /\ w \in Threads
    BY <1>2, Facts DEF Derives, KindOf
<1> QED
    BY <1>1, <1>2, <1>3, GoesAlone DEF AtWork

LEMMA EndsByClosingUpholds ==
    ASSUME Inv, Inv', Custody, Trust, NEW w \in Workers, EndsByClosing(w) PROVE Upholds
<1>1. At(w, "ending") /\ Goes(w, "closing", thread[w].held)
      /\ UNCHANGED <<entry, underived, queue, sends>>
    BY DEF EndsByClosing, Channel
<1>2. ~Derives(entry, thread[w]) /\ w \in Threads
    BY <1>1, Facts DEF Derives, At
<1> QED
    BY <1>1, <1>2, GoesAlone DEF AtWork

LEMMA UnwindUpholds ==
    ASSUME Inv, Inv', Custody, Trust, NEW t \in Threads, Unwind(t) PROVE Upholds
<1>1. Goes(t, "unwound", FALSE) /\ UNCHANGED <<entry, underived, queue, sends>>
    BY DEF Unwind, Channel
<1> QED
    BY <1>1, GoesAlone DEF AtWork

LEMMA ClassifyClearUpholds ==
    ASSUME Inv, Inv', Custody, Trust, NEW t \in Threads, ClassifyClear(t) PROVE Upholds
<1>1. At(t, "classifying") /\ Goes(t, AfterClassifying(t), FALSE)
      /\ UNCHANGED <<entry, underived, queue, sends>>
    BY DEF ClassifyClear, Channel
<1>2. AfterClassifying(t) \in {"departing", "losing"} /\ ~Derives(entry, thread[t])
    BY <1>1 DEF AfterClassifying, Derives, At
<1> QED
    BY <1>1, <1>2, GoesAlone DEF AtWork, At

\* A thread goes on to release what it has.
LEMMA ReleasingAlone ==
    ASSUME Inv, Inv', Custody, Trust, NEW t \in Threads, UNCHANGED <<entry, queue, sends, underived>>,
           NEW held, NEW epoch, GoesReleasing(t, held, epoch, "idle"),
           ~Derives(entry, thread[t])
    PROVE  Upholds
<1>1. /\ Unmoved(t) /\ thread'[t].pc = "releasing" /\ thread'[t].after = "idle"
      /\ thread'[t].next = thread[t].next /\ thread'[t].followup = thread[t].followup
    BY ReleasingTo
<1>2. FewerJobs(thread[t], thread'[t])
    BY <1>1 DEF FewerJobs, AtWork
<1>3. ~LostAt(entry, thread'[t]) /\ AfterLosing(thread'[t], entry.claim.epoch)
    BY <1>1 DEF LostAt, AfterLosing
<1> QED
    BY <1>1, <1>2, <1>3, EntryAlone

LEMMA EndsByReleasingUpholds ==
    ASSUME Inv, Inv', Custody, Trust, NEW w \in Workers, EndsByReleasing(w) PROVE Upholds
<1>1. At(w, "ending") /\ GoesReleasing(w, thread[w].held, EpochOf(w), "idle")
      /\ UNCHANGED <<entry, underived, queue, sends>>
    BY DEF EndsByReleasing, Channel
<1>2. ~Derives(entry, thread[w]) /\ w \in Threads
    BY <1>1, Facts DEF Derives, At
<1> QED
    BY <1>1, <1>2, ReleasingAlone

LEMMA StalePollGivesBackUpholds ==
    ASSUME Inv, Inv', Custody, Trust, StalePollGivesBack PROVE Upholds
<1>1. At(Dispatcher, "stale") /\ UNCHANGED <<entry, underived, queue, sends>>
      /\ \/ GoesReleasing(Dispatcher, TRUE, EpochOf(Dispatcher), "idle")
         \/ Goes(Dispatcher, "closing", TRUE)
    BY DEF StalePollGivesBack, Channel
<1>2. ~Derives(entry, thread[Dispatcher]) /\ Dispatcher \in Threads
    BY <1>1, Facts DEF Derives, At
<1> QED
    BY <1>1, <1>2, ReleasingAlone, GoesAlone DEF AtWork

----------------------------------------------------------------------------
(* Scheduling                                                              *)

\* q says of the coverage and its trust what s says, at whatever epoch.
SameHeal(s, q) ==
    /\ q.coverage = s.coverage /\ q.detach_in_flight = s.detach_in_flight
    /\ q.trust = s.trust /\ q.pending = s.pending
    /\ q.recovery_required = s.recovery_required /\ q.rebuild_required = s.rebuild_required
    /\ q.awaits = s.awaits
    /\ q.contended = s.contended /\ q.duplicate = s.duplicate /\ q.identity = s.identity

Resting(s) == ~OutWithLeg(s.coverage)

LEMMA SameHealTrusty ==
    ASSUME NEW s, NEW q, SameHeal(s, q), Resting(s)
    PROVE  /\ Trusty(q) <=> Trusty(s)
           /\ \A kind : Suits(q, kind) <=> Suits(s, kind)
           /\ LostGround(q) <=> LostGround(s)
           /\ Minds(q) <=> Minds(s)
           /\ Resting(q) /\ (InHandOf(q) <=> InHandOf(s))
<1>1. /\ OwesARung(q) <=> OwesARung(s)
      /\ StandsParked(q) <=> StandsParked(s)
      /\ InHandOf(q) <=> InHandOf(s)
      /\ Kept(q) <=> Kept(s)
    BY DEF SameHeal, OwesARung, StandsParked, InHandOf, Kept, Resting, OutWithLeg, OnLeg
<1>2. (Trusty(q) <=> Trusty(s))
    BY <1>1 DEF SameHeal, Trusty, ReadyMeans, KeptMeans, RungsMean, Resting
<1>3. \A kind : Suits(q, kind) <=> Suits(s, kind)
    BY <1>1 DEF SameHeal, Suits
<1>4. (LostGround(q) <=> LostGround(s)) /\ (Minds(q) <=> Minds(s)) /\ Resting(q)
    BY <1>1 DEF SameHeal, LostGround, Minds, Resting
<1> QED
    BY <1>1, <1>2, <1>3, <1>4

\* q is s, with the work scheduled that s suits, if any was.
Arranged(s, q) ==
    /\ Trusty(q) /\ (GateMeans(s) => GateMeans(q))
    /\ q.coverage = s.coverage /\ q.detach_in_flight = s.detach_in_flight
    /\ (Minds(s) => Minds(q)) /\ (LostGround(s) => LostGround(q))
    /\ \/ q = s
       \/ /\ s.claim.gate = "open"
          /\ \E kind \in JobKinds :
                 /\ q.claim = Schedule(s.claim, kind) /\ Suits(q, kind)
                 /\ InHandOf(s) /\ OwesARung(s) => kind \in Spared

LEMMA ScheduledIs ==
    ASSUME NEW s \in Entries, NEW q, NEW kind \in JobKinds, q.claim = Schedule(s.claim, kind)
    PROVE  /\ q.claim.epoch = s.claim.epoch + 1 /\ q.claim.gate = "scheduled"
           /\ q.claim.marker.kind = kind /\ q.claim.leg = s.claim.leg
           /\ GateMeans(q)
<1> DEFINE job == [kind |-> kind, epoch |-> s.claim.epoch + 1]
<1>1. s.claim \in Claims
    BY DEF Entries
<1>2. /\ ClaimIs(q.claim, s.claim.epoch + 1, "scheduled", job, s.claim.leg, s.claim.slot)
      /\ job.kind = kind
    BY <1>1, ScheduleFields
<1> HIDE DEF job
<1> QED
    BY <1>2 DEF ClaimIs, GateMeans

\* A job over an entry that it suits.
LEMMA JobArranged ==
    ASSUME NEW s \in Entries, NEW p \in Entries, NEW kind \in JobKinds,
           Trusty(p), Resting(p), Suits(p, kind), s.claim.gate = "open",
           p.claim = s.claim, p.coverage = s.coverage,
           p.detach_in_flight = s.detach_in_flight, p.pending = s.pending,
           Minds(s) => Minds(p), p.trust = "Ready" => s.trust = "Ready",
           InHandOf(s) /\ OwesARung(s) => kind \in Spared
    PROVE  Arranged(s, ScheduleJob(p, kind))
<1> DEFINE q == ScheduleJob(p, kind)
<1>1. q.claim = Schedule(s.claim, kind) /\ SameHeal(p, q)
    BY DEF ScheduleJob, SameHeal, Entries
<1> HIDE DEF q
<1>2. /\ Trusty(q) /\ Suits(q, kind) /\ (Minds(p) => Minds(q))
      /\ (LostGround(p) => LostGround(q))
    BY <1>1, SameHealTrusty
<1>3. LostGround(s) => LostGround(p)
    BY DEF LostGround
<1>4. GateMeans(q)
    BY <1>1, ScheduledIs
<1>5. q.coverage = s.coverage /\ q.detach_in_flight = s.detach_in_flight
    BY <1>1 DEF SameHeal
<1>6. Arranged(s, q)
    BY <1>1, <1>2, <1>3, <1>4, <1>5 DEF Arranged
<1> QED
    BY <1>6 DEF q

LEMMA TrustSet ==
    ASSUME NEW s \in Entries, NEW trust \in Trusts
    PROVE  /\ SetTrust(s, trust) \in Entries /\ SetTrust(s, trust).trust = trust
           /\ SetTrust(s, trust).claim = s.claim /\ SetTrust(s, trust).coverage = s.coverage
           /\ SetTrust(s, trust).detach_in_flight = s.detach_in_flight
           /\ SetTrust(s, trust).pending = s.pending
           /\ SetTrust(s, trust).recovery_required = s.recovery_required
           /\ SetTrust(s, trust).rebuild_required = s.rebuild_required
           /\ SetTrust(s, trust).awaits = s.awaits
           /\ SetTrust(s, trust).contended = s.contended
           /\ SetTrust(s, trust).duplicate = s.duplicate
           /\ SetTrust(s, trust).identity = s.identity
           /\ SetTrust(s, trust).damage = s.damage
           /\ SetTrust(s, trust).reader = s.reader
BY DEF SetTrust, Entries

\* What s says of its trust is trust, and the rest of q is the rest of s.
Retrusted(s, q, trust) ==
    /\ q.coverage = s.coverage /\ q.detach_in_flight = s.detach_in_flight
    /\ q.claim.epoch = s.claim.epoch
    /\ q.trust = trust /\ q.pending = s.pending
    /\ q.recovery_required = s.recovery_required /\ q.rebuild_required = s.rebuild_required
    /\ q.awaits = s.awaits
    /\ q.contended = s.contended /\ q.duplicate = s.duplicate /\ q.identity = s.identity

LEMMA TrustRetrusted ==
    ASSUME NEW s \in Entries, NEW trust \in Trusts
    PROVE  Retrusted(s, SetTrust(s, trust), trust)
BY TrustSet DEF Retrusted

\* An entry made warm, or found overflowing.
LEMMA RetrustedTrusty ==
    ASSUME NEW s, NEW q, NEW trust, Retrusted(s, q, trust), Trusty(s),
           trust \notin {"Ready", "Unattached", "Untrusted", "Rebuilding"},
           ~s.rebuild_required \/ ~Kept(s)
    PROVE  Trusty(q) /\ (Minds(q) <=> Minds(s))
<1>1. (Kept(q) <=> Kept(s)) /\ (StandsParked(q) <=> StandsParked(s))
      /\ (OwesARung(q) <=> OwesARung(s))
    BY DEF Retrusted, Kept, InHandOf, StandsParked, OwesARung
<1>2. ReadyMeans(q)
    BY DEF Retrusted, ReadyMeans
<1>3. KeptMeans(q)
    BY <1>1 DEF Retrusted, KeptMeans, Trusty
<1>4. RungsMean(q)
    BY DEF Retrusted, RungsMean, Trusty
<1> QED
    BY <1>1, <1>2, <1>3, <1>4 DEF Trusty, Minds, Retrusted

PublishedTrust(s) == IF s.pending = "rescan" THEN "Overflow" ELSE "Healing"

LEMMA PublishedIs ==
    ASSUME NEW s \in Entries
    PROVE  /\ PublishPendingReconcile(s) = SetTrust(s, PublishedTrust(s))
           /\ PublishedTrust(s) \in {"Overflow", "Healing"} /\ PublishedTrust(s) \in Trusts
BY DEF PublishPendingReconcile, PublishedTrust, Trusts, Warm, Distrust

\* Demanded work, over an entry that may schedule it.
LEMMA DemandArranged ==
    ASSUME NEW s \in Entries, Trusty(s), Resting(s), ~s.detach_in_flight,
           s.claim.gate = "open"
    PROVE  Arranged(s, ScheduleDemand(s))
<1> DEFINE work == OwedBy(s)
           published == IF work \in {"Attach", "Recover"} THEN SetTrust(s, "Installing")
                        ELSE IF work = "Reconcile" THEN PublishPendingReconcile(s)
                        ELSE s
<1>1. /\ work \in JobKinds
      /\ work = "Attach" => ~InHandOf(s)
      /\ work = "Rebuild" => InHandOf(s) /\ s.rebuild_required
      /\ work = "Recover" => InHandOf(s) /\ ~s.rebuild_required
      /\ work = "Reconcile" => InHandOf(s) /\ ~OwesARung(s)
      /\ work \in {"Attach", "Rebuild", "Recover", "Reconcile"}
      /\ InHandOf(s) => work # "Attach"
    BY DEF OwedBy, JobKinds, OwesARung
<1>2. ScheduleDemand(s) = ScheduleJob(published, work)
    BY DEF ScheduleDemand
<1> HIDE DEF work
<1>3. "Installing" \in Trusts
    BY DEF Trusts, Warm
<1>4. CASE work = "Rebuild"
    <2>1. published = s
        BY <1>4
    <2>2. Suits(s, work)
        BY <1>1, <1>4 DEF Trusty, RungsMean, Suits
    <2> QED
        BY <1>1, <1>2, <1>4, <2>1, <2>2, JobArranged DEF Spared
<1>5. CASE work \in {"Attach", "Recover"}
    <2>1. published = SetTrust(s, "Installing")
        BY <1>5
    <2>2. Retrusted(s, published, "Installing") /\ published \in Entries
          /\ published.claim = s.claim
        BY <1>3, <2>1, TrustRetrusted, TrustSet
    <2> HIDE DEF published
    <2>3. ~s.rebuild_required \/ ~Kept(s)
        BY <1>1, <1>5 DEF Kept, Resting, OutWithLeg, OnLeg
    <2>4. Trusty(published) /\ (Minds(published) <=> Minds(s))
        BY <2>2, <2>3, RetrustedTrusty
    <2>5. Suits(published, work) /\ Resting(published)
        BY <1>1, <1>5, <2>2 DEF Suits, Retrusted, Resting
    <2>6. InHandOf(s) /\ OwesARung(s) => work \in Spared
        BY <1>1, <1>5 DEF Spared
    <2> QED
        BY <1>1, <1>2, <2>2, <2>4, <2>5, <2>6, JobArranged DEF Retrusted
<1>6. CASE work = "Reconcile"
    <2>1. PICK trust \in {"Overflow", "Healing"} :
              published = SetTrust(s, trust) /\ trust \in Trusts
        BY <1>6, PublishedIs
    <2>2. Retrusted(s, published, trust) /\ published \in Entries
          /\ published.claim = s.claim
        BY <2>1, TrustRetrusted, TrustSet
    <2> HIDE DEF published
    <2>3. ~s.rebuild_required
        BY <1>1, <1>6 DEF OwesARung
    <2>4. Trusty(published) /\ (Minds(published) <=> Minds(s))
        BY <2>2, <2>3, RetrustedTrusty
    <2>5. Suits(published, work) /\ Resting(published)
        BY <1>1, <1>6, <2>2 DEF Suits, Retrusted, Resting, OwesARung
    <2> QED
        BY <1>1, <1>2, <1>6, <2>2, <2>4, <2>5, JobArranged DEF Retrusted
<1> QED
    BY <1>1, <1>4, <1>5, <1>6

LEMMA UnarrangedIs ==
    ASSUME NEW s, Trusty(s) PROVE Arranged(s, s)
BY DEF Arranged

LEMMA DemandedArranged ==
    ASSUME NEW s \in Entries, Trusty(s), Resting(s)
    PROVE  Arranged(s, ScheduleDemandedWork(s))
BY DemandArranged, UnarrangedIs
   DEF ScheduleDemandedWork, CanScheduleDemandedWork, Schedulable, IsHeld

LEMMA DueArranged ==
    ASSUME NEW s \in Entries, Trusty(s), Resting(s)
    PROVE  Arranged(s, ScheduleDueDetach(s))
<1>1. CASE CanScheduleDueDetach(s)
    <2> DEFINE p == [s EXCEPT !.detach_scheduled = TRUE]
    <2>1. p \in Entries /\ SameHeal(s, p) /\ p.claim = s.claim
        BY DEF SameHeal, Entries
    <2>2. ScheduleDueDetach(s) = ScheduleJob(p, "Detach") /\ s.claim.gate = "open"
        BY <1>1 DEF ScheduleDueDetach, CanScheduleDueDetach, IsHeld
    <2> HIDE DEF p
    <2>3. Trusty(p) /\ Resting(p) /\ (Minds(s) => Minds(p)) /\ Suits(p, "Detach")
        BY <2>1, SameHealTrusty DEF Suits
    <2>4. "Detach" \in JobKinds \cap Spared
        BY DEF JobKinds, Spared
    <2> QED
        BY <2>1, <2>2, <2>3, <2>4, JobArranged DEF SameHeal
<1>2. CASE ~CanScheduleDueDetach(s)
    BY <1>2, UnarrangedIs DEF ScheduleDueDetach
<1> QED
    BY <1>1, <1>2

\* Damage published: a rebuild is owed, and nothing else is.
LEMMA DamagedTrusty ==
    ASSUME NEW s, NEW q, ~StandsParked(s) \/ ~Kept(q),
           q.contended = s.contended, q.duplicate = s.duplicate, q.identity = s.identity,
           q.trust = "Rebuilding", q.rebuild_required, ~q.recovery_required, ~q.awaits
    PROVE  Trusty(q) /\ Minds(q)
<1>1. ReadyMeans(q) /\ RungsMean(q)
    BY DEF ReadyMeans, RungsMean
<1>2. KeptMeans(q)
    BY DEF KeptMeans, StandsParked, OwesARung
<1> QED
    BY <1>1, <1>2 DEF Trusty, Minds, OwesARung

LEMMA TakenDamageIs ==
    ASSUME NEW s \in Entries
    PROVE  LET q == TakeDamage(s)
           IN  /\ q \in Entries /\ q.claim = s.claim /\ q.coverage = s.coverage
               /\ q.detach_in_flight = s.detach_in_flight /\ q.pending = s.pending
               /\ q.contended = s.contended /\ q.duplicate = s.duplicate /\ q.identity = s.identity
               /\ q.trust = "Rebuilding" /\ q.rebuild_required /\ ~q.recovery_required /\ ~q.awaits
               /\ q.detach_due = s.detach_due
<1>1. TakeDamage(s) \in Entries
    BY DataAlike
<1>2. LET q == TakeDamage(s)
      IN  /\ q.claim = s.claim /\ q.coverage = s.coverage
          /\ q.detach_in_flight = s.detach_in_flight /\ q.pending = s.pending
          /\ q.contended = s.contended /\ q.duplicate = s.duplicate /\ q.identity = s.identity
          /\ q.trust = "Rebuilding" /\ q.rebuild_required = TRUE /\ q.recovery_required = FALSE
          /\ q.awaits = FALSE /\ q.detach_due = s.detach_due
    BY DEF TakeDamage, WithdrawTrustForDamage, SetTrust, RequireRebuild,
           RetireRecoveryDemands, Entries
<1> QED
    BY <1>1, <1>2

LEMMA PublishArranged ==
    ASSUME NEW s \in Entries, Trusty(s), Resting(s)
    PROVE  Arranged(s, PublishDamage(s))
<1>1. CASE CanPublishDamage(s)
    <2> DEFINE d == TakeDamage(s)
    <2>1. /\ d \in Entries /\ d.claim = s.claim /\ d.coverage = s.coverage
          /\ d.detach_in_flight = s.detach_in_flight /\ d.pending = s.pending
          /\ d.contended = s.contended /\ d.duplicate = s.duplicate /\ d.identity = s.identity
          /\ d.trust = "Rebuilding" /\ d.rebuild_required /\ ~d.recovery_required /\ ~d.awaits
        BY TakenDamageIs
    <2>2. ~s.detach_in_flight /\ s.claim.gate = "open" /\ InHandOf(s) /\ ~StandsParked(s)
        BY <1>1 DEF CanPublishDamage, IsHeld
    <2>3. PublishDamage(s) = ScheduleDemand(d)
        BY <1>1 DEF PublishDamage
    <2> HIDE DEF d
    <2>4. Trusty(d) /\ Minds(d) /\ Resting(d)
        BY <2>1, <2>2, DamagedTrusty DEF Resting
    <2>5. OwedBy(d) = "Rebuild"
        BY <2>1, <2>2 DEF OwedBy, InHandOf
    <2>6. ScheduleDemand(d) = ScheduleJob(d, "Rebuild") /\ "Rebuild" \in JobKinds /\ "Rebuild" \in Spared
        BY <2>5 DEF ScheduleDemand, JobKinds, Spared
    <2>7. Suits(d, "Rebuild")
        BY <2>1 DEF Suits
    <2> QED
        BY <2>1, <2>2, <2>3, <2>4, <2>6, <2>7, JobArranged
<1>2. CASE ~CanPublishDamage(s)
    BY <1>2, UnarrangedIs DEF PublishDamage
<1> QED
    BY <1>1, <1>2

LEMMA WaysToArrange ==
    ASSUME NEW s \in Entries, Trusty(s), Resting(s)
    PROVE  /\ Arranged(s, PublishDamageOrDemandedWork(s))
           /\ Arranged(s, PollSchedules(s, FALSE))
           /\ s.claim.gate = "open" /\ ~OwesARung(s) => Arranged(s, PollSchedules(s, TRUE))
<1>1. Arranged(s, PublishDamageOrDemandedWork(s))
    BY PublishArranged, DemandedArranged DEF PublishDamageOrDemandedWork
<1>2. Arranged(s, PollSchedules(s, FALSE))
    <2>1. CanScheduleDemandedWork(s) => Arranged(s, ScheduleDemand(s))
        BY DemandedArranged DEF ScheduleDemandedWork
    <2> QED
        BY <2>1, PublishArranged, DueArranged DEF PollSchedules
<1>3. ASSUME s.claim.gate = "open", ~OwesARung(s) PROVE Arranged(s, PollSchedules(s, TRUE))
    <2>1. Suits(s, "Reconcile") /\ "Reconcile" \in JobKinds
        BY <1>3 DEF Suits, JobKinds
    <2> QED
        BY <1>3, <2>1, JobArranged DEF PollSchedules
<1> QED
    BY <1>1, <1>2, <1>3

----------------------------------------------------------------------------
(* Steps that end over a state, and may then schedule                      *)

LEMMA PassesOn ==
    ASSUME NEW p, NEW s, NEW q, Passes(p, s),
           q.coverage = s.coverage, q.detach_in_flight = s.detach_in_flight
    PROVE  Passes(p, q)
BY DEF Passes, Covered

\* A step of t that puts the entry at s, with its gate open, and may then schedule.
LEMMA ArrangedUpholds ==
    ASSUME Inv, Inv', Custody, Custody', Trust, NEW t \in Threads, Unmoved(t),
           UNCHANGED <<queue, sends>>, NEW s \in Entries, Arranged(s, entry'),
           s.claim.epoch >= entry.claim.epoch, s.claim.gate = "open",
           entry' = s => Engaged(entry, thread[t]) \/ s.claim.epoch # entry.claim.epoch,
           entry' = s => GateMeans(s), Passes(entry, s),
           LostAt(entry', thread'[t]) => LostGround(s) /\ OwesARung(s) /\ InHandOf(s),
           LostNow => LostGround(s) \/ s.claim.epoch # entry.claim.epoch,
           AfterLosing(thread'[t], entry.claim.epoch),
           underived' /\ AccountedFor(s.coverage) => Minds(s)
    PROVE  Upholds
<1>1. /\ entry.claim.epoch \in Nat /\ s.claim.epoch \in Nat
      /\ thread'[t].lost \in Nat
    <2>1. s.claim.epoch \in Nat
        BY DEF Entries, Claims
    <2>2. thread'[t] \in ThreadStates
        BY DEF Inv, ThreadInv
    <2> QED
        BY <2>1, <2>2, Facts DEF ThreadStates
<1>2. \/ entry' = s
      \/ \E kind \in JobKinds :
             /\ entry'.claim = Schedule(s.claim, kind) /\ Suits(entry', kind)
             /\ InHandOf(s) /\ OwesARung(s) => kind \in Spared
    BY DEF Arranged
<1>3. CASE entry' = s
    <2>1. Stand(entry', thread'[t]) /\ entry'.claim.gate = "open"
        BY <1>3 DEF Custody, ThreadsStand
    <2>2. \A kind : ~OwnAwaits(entry', thread'[t], kind)
        BY <2>1, OpenAwaitsNothing
    <2>3. LegsHold'
        BY <2>1 DEF LegsHold
    <2>4. Trusty(entry') /\ GateMeans(entry')
        BY <1>3 DEF Arranged
    <2>5. LostAt(entry', thread'[t]) \/ (LostNow /\ entry.claim.epoch' = entry.claim.epoch) =>
               LostOver(thread'[t], entry')
        BY <1>3, <2>2 DEF LostOver
    <2>6. underived' /\ AccountedFor(entry'.coverage) => Minds(entry')
        BY <1>3
    <2>7. entry.claim.epoch' >= entry.claim.epoch
          /\ (Engaged(entry, thread[t]) \/ entry.claim.epoch' # entry.claim.epoch)
          /\ AfterLosing(thread'[t], entry.claim.epoch')
        BY <1>1, <1>3 DEF AfterLosing
    <2>8. Trust'
        BY <2>2, <2>3, <2>4, <2>5, <2>6, <2>7, SoloTrust
    <2> QED
        BY <1>3, <2>8 DEF Upholds
<1>4. ASSUME NEW kind \in JobKinds, entry'.claim = Schedule(s.claim, kind),
             Suits(entry', kind), InHandOf(s) /\ OwesARung(s) => kind \in Spared
      PROVE  Upholds
    <2>1. /\ entry'.claim.epoch = s.claim.epoch + 1 /\ entry'.claim.gate = "scheduled"
          /\ entry'.claim.marker.kind = kind /\ GateMeans(entry')
        BY <1>4, ScheduledIs
    <2>2. Stand(entry', thread'[t])
        BY DEF Custody, ThreadsStand
    <2>3. \A k : OwnAwaits(entry', thread'[t], k) => k = kind
        BY <2>1, <2>2, OpenAwaitsNothing
    <2>4. LegsHold'
        BY <2>1 DEF LegsHold
    <2>5. /\ Trusty(entry') /\ (LostGround(s) => LostGround(entry'))
          /\ (Minds(s) => Minds(entry'))
          /\ entry'.coverage = s.coverage /\ entry'.detach_in_flight = s.detach_in_flight
        BY DEF Arranged
    <2>6. entry.claim.epoch' > entry.claim.epoch
        BY <1>1, <2>1
    <2>7. LostAt(entry', thread'[t]) \/ (LostNow /\ entry.claim.epoch' = entry.claim.epoch) =>
               LostOver(thread'[t], entry')
        BY <1>1, <1>4, <2>3, <2>5, <2>6 DEF LostOver
    <2>8. underived' /\ AccountedFor(entry'.coverage) => Minds(entry')
        BY <2>5
    <2>9. /\ entry.claim.epoch' >= entry.claim.epoch /\ entry.claim.epoch' # entry.claim.epoch
          /\ AfterLosing(thread'[t], entry.claim.epoch')
        BY <1>1, <2>1, <2>6 DEF AfterLosing
    <2>10. \A k \in Kinds : OwnAwaits(entry', thread'[t], k) => Suits(entry', k)
        BY <1>4, <2>3
    <2>11. Trust'
        BY <2>1, <2>4, <2>5, <2>7, <2>8, <2>9, <2>10, SoloTrust
    <2> QED
        BY <2>5, <2>11, PassesOn DEF Upholds
<1> QED
    BY <1>2, <1>3, <1>4

\* A step of t that moves the entry on and shuts its gate for one job of that kind.
LEMMA HandedUpholds ==
    ASSUME Inv, Inv', Custody, Trust, NEW t \in Threads, Unmoved(t),
           UNCHANGED <<queue, sends>>,
           entry.claim.epoch' > entry.claim.epoch, entry.claim.gate' = "held", LegsHold',
           NEW kind, \A k : WorkOf(entry', thread'[t], k) => k = kind,
           thread'[t].pc \notin {"classifying", "losing"},
           AfterLosing(thread'[t], entry.claim.epoch),
           Trusty(entry'), Suits(entry', kind), Passes(entry, entry'),
           underived' /\ AccountedFor(entry'.coverage) => Minds(entry')
    PROVE  Upholds
<1>1. /\ entry.claim.epoch \in Nat /\ entry.claim.epoch' \in Nat
      /\ thread'[t].lost \in Nat
    <2>1. entry.claim.epoch' \in Nat
        BY SoundEpoch DEF Inv
    <2>2. thread'[t] \in ThreadStates
        BY DEF Inv, ThreadInv
    <2> QED
        BY <2>1, <2>2, Facts DEF ThreadStates
<1>2. \A k \in Kinds : OwnAwaits(entry', thread'[t], k) => Suits(entry', k)
    BY DEF OwnAwaits, MarkedFor
<1>3. GateMeans(entry')
    BY DEF GateMeans
<1>4. ~LostAt(entry', thread'[t]) /\ entry.claim.epoch' # entry.claim.epoch
    BY <1>1 DEF LostAt
<1>5. AfterLosing(thread'[t], entry.claim.epoch') /\ entry.claim.epoch' >= entry.claim.epoch
    BY <1>1 DEF AfterLosing
<1>6. Trust'
    BY <1>2, <1>3, <1>4, <1>5, SoloTrust
<1> QED
    BY <1>6 DEF Upholds

----------------------------------------------------------------------------
(* The end of a leg at work                                                *)

\* The leg hands on what the state it leaves suits, or ends over a state that may
\* then schedule.
HandsTruly(w, s) ==
    \/ HandsOnDamage(w, s) /\ InHandOf(s)
    \/ /\ \E kind \in {"Rebuild", "Reconcile", "Maintenance"} :
              HandsOnTo(w, s, kind) /\ Suits(s, kind)
       /\ InHandOf(s)
    \/ /\ entry' = ScheduleDueDetach(s) /\ HandsOver(w, DueDetach(s))
       /\ s.claim.gate = "open" /\ GateMeans(s)
    \/ /\ entry' = ScheduleJob(s, "Maintenance") /\ HandsOn(w, HandedOn(s.claim, "Maintenance"))
       /\ Suits(s, "Maintenance") /\ s.claim.gate = "open"
    \/ /\ entry' = s /\ HandsOn(w, NoJob)
       /\ s.claim.gate = "open" /\ GateMeans(s)

LEMMA PartedPasses ==
    ASSUME Inv, Custody, NEW w \in Workers, At(w, "working"), Stands(w), NEW s, Parted(w, s),
           KindOf(w) # "Attach" => InHandOf(s)
    PROVE  Passes(entry, s)
<1>1. ~entry.detach_in_flight /\ (KindOf(w) = "Attach" => entry.coverage = NoCoverage)
    BY WorkingIs
<1>2. CASE KindOf(w) = "Attach"
    BY <1>1, <1>2 DEF Passes, Covered, AccountedFor, NoCoverage
<1>3. CASE InHandOf(s) /\ ~s.detach_in_flight
    BY <1>1, <1>3 DEF Passes, Covered, AccountedFor, InHandOf, InHand
<1> QED
    BY <1>2, <1>3 DEF Parted

\* A leg that hands a job on over p, whose claim is s's.
LEMMA LegHandsTrust ==
    ASSUME Inv, Inv', Custody, Trust, NEW w \in Workers, At(w, "working"), Stands(w),
           NEW s, Parted(w, s), UNCHANGED <<queue, sends>>,
           NEW p \in Entries, p.claim = s.claim, p.coverage = s.coverage,
           p.detach_in_flight = s.detach_in_flight,
           InHandOf(p), Trusty(p), NEW kind \in JobKinds, Suits(p, kind),
           entry' = HandOnTo(p, kind), HandsOn(w, HandedOn(s.claim, kind)),
           Passes(entry, s), underived' /\ AccountedFor(s.coverage) => Minds(p)
    PROVE  Upholds
<1> DEFINE job == HandedOn(s.claim, kind)
           e == HandOnTo(p, kind)
<1>1. /\ w \in Threads /\ thread[w].followup = NoJob /\ thread[w].after = "idle"
      /\ entry.claim.epoch \in Nat
    BY WorkingIs, Facts
<1>2. /\ s.claim \in Claims /\ s.claim.epoch = entry.claim.epoch
      /\ s.claim.gate # "scheduled" /\ s.claim.epoch \in Nat
    BY <1>1 DEF Parted, Keeps, Sound, Entries
<1>3. job \in Jobs /\ job # NoJob /\ job.epoch = entry.claim.epoch + 1 /\ job.kind = kind
    BY <1>2 DEF HandedOn, Jobs, NoJob
<1>4. /\ Unmoved(w) /\ thread'[w].pc = "handing" /\ thread'[w].next = job
      /\ thread'[w].followup = NoJob /\ thread'[w].after = "idle"
    <2>1. HandsOver(w, job) /\ HandsOn(w, job)
        BY DEF HandsOver
    <2>2. thread \in [Threads -> ThreadStates] /\ thread[w] \in ThreadStates
        BY <1>1 DEF Inv, ThreadInv
    <2>3. thread'[w].pc = "handing"
        BY <1>1, <1>3, <2>1, <2>2 DEF HandsOn, ThreadStates
    <2> QED
        BY <1>1, <2>1, <2>3, HandingTo
<1>5. SameHeal(p, e) /\ e.claim = HandOn(s.claim, kind)
    BY DEF HandOnTo, SameHeal, Entries
<1>6. e.claim.epoch = entry.claim.epoch + 1 /\ e.claim.gate = "held"
    BY <1>2, <1>5, HandOnFields DEF ClaimIs
<1> HIDE DEF job
<1>7. e = entry'
    OBVIOUS
<1> HIDE DEF e
<1>8. Trusty(e) /\ Suits(e, kind) /\ (Minds(p) => Minds(e))
    <2>1. Resting(p)
        BY DEF Resting, OutWithLeg, InHandOf, InHand
    <2> QED
        BY <1>5, <2>1, SameHealTrusty
<1>9. Standing(entry', thread'[w].next)
    BY <1>3, <1>4, <1>6, <1>7 DEF Standing
<1>10. LegsHold'
    BY <1>1, <1>9 DEF LegsHold
<1>11. \A k : WorkOf(entry', thread'[w], k) => k = kind
    BY <1>3, <1>4 DEF WorkOf, Standing
<1>12. Passes(entry, entry')
    BY <1>5, <1>7, PassesOn DEF SameHeal
<1>13. AfterLosing(thread'[w], entry.claim.epoch) /\ thread'[w].pc \notin {"classifying", "losing"}
    BY <1>4 DEF AfterLosing
<1>14. underived' /\ AccountedFor(entry'.coverage) => Minds(entry')
    BY <1>5, <1>7, <1>8 DEF SameHeal
<1>15. entry.claim.epoch' > entry.claim.epoch /\ entry.claim.gate' = "held"
    BY <1>1, <1>6, <1>7
<1>16. Trusty(entry') /\ Suits(entry', kind)
    BY <1>7, <1>8
<1> QED
    BY <1>1, <1>4, <1>10, <1>11, <1>12, <1>13, <1>14, <1>15, <1>16, HandedUpholds

\* Damage a read met under the leg hands a rebuild on, whatever the trust.
LEMMA LegDamageTrust ==
    ASSUME Inv, Inv', Custody, Trust, NEW w \in Workers, At(w, "working"), Stands(w),
           NEW s, Parted(w, s), UNCHANGED <<queue, sends>>, HandsOnDamage(w, s),
           InHandOf(s), ~StandsParked(s)
    PROVE  Upholds
<1> DEFINE d == TakeDamage(s)
<1>1. s \in Entries /\ Passes(entry, s)
    BY PartedPasses DEF Parted, Keeps, Sound
<1>2. /\ d \in Entries /\ d.claim = s.claim /\ d.coverage = s.coverage
      /\ d.detach_in_flight = s.detach_in_flight
      /\ d.contended = s.contended /\ d.duplicate = s.duplicate /\ d.identity = s.identity
      /\ d.trust = "Rebuilding" /\ d.rebuild_required /\ ~d.recovery_required /\ ~d.awaits
    BY <1>1, TakenDamageIs
<1>3. entry' = HandOnTo(d, "Rebuild") /\ HandsOn(w, HandedOn(s.claim, "Rebuild"))
    BY DEF HandsOnDamage
<1> HIDE DEF d
<1>4. Trusty(d) /\ Minds(d) /\ InHandOf(d) /\ Suits(d, "Rebuild") /\ "Rebuild" \in JobKinds
    BY <1>2, DamagedTrusty DEF InHandOf, Suits, JobKinds
<1> QED
    BY <1>1, <1>2, <1>3, <1>4, LegHandsTrust

LEMMA LegTrust ==
    ASSUME Inv, Inv', Custody, Custody', Trust, NEW w \in Workers, At(w, "working"), Stands(w),
           NEW s, Parted(w, s), UNCHANGED <<queue, sends>>, HandsTruly(w, s),
           KindOf(w) # "Attach" => InHandOf(s),
           Trusty(s), LostGround(entry) /\ KindOf(w) \in Spared => LostGround(s),
           thread'[w].pc = "classifying" => LostGround(s) /\ OwesARung(s) /\ InHandOf(s),
           underived' /\ AccountedFor(s.coverage) => Minds(s)
    PROVE  Upholds
<1>1. /\ w \in Threads /\ Engaged(entry, thread[w])
      /\ thread[w].followup = NoJob /\ thread[w].after = "idle"
      /\ entry.claim.epoch \in Nat /\ KindOf(w) \in Kinds /\ WorkOf(entry, thread[w], KindOf(w))
    <2>1. KindOf(w) \in JobKinds /\ WorkOf(entry, thread[w], KindOf(w))
        BY WorkerIs DEF At, WorkOf, KindOf, Stands, StandsAtEpoch, StandsAt, EpochOf
    <2> QED
        BY <2>1, WorkingIs, Facts DEF Kinds
<1>2. /\ s \in Entries /\ s.claim.epoch = entry.claim.epoch /\ Resting(s)
    BY DEF Parted, Keeps, Sound, Resting, OutWithLeg, NoCoverage, Parked
<1>3. Passes(entry, s)
    BY PartedPasses
<1>4. LostNow => LostGround(s)
    <2>1. Awaited(KindOf(w))
        BY <1>1 DEF Awaited
    <2> QED
        BY <1>1, <2>1 DEF Trust, LostMeans
<1>5. ASSUME NEW next, HandsOver(w, next), Arranged(s, entry'), GateMeans(s),
             s.claim.gate = "open"
      PROVE  Upholds
    <2>1. /\ Unmoved(w) /\ thread'[w].after = "idle"
          /\ thread'[w].pc \in {"ending", "handing", "classifying"}
        BY <1>1, <1>5, HandingTo
    <2>2. LostAt(entry', thread'[w]) => LostGround(s) /\ OwesARung(s) /\ InHandOf(s)
        BY <2>1 DEF LostAt
    <2>3. AfterLosing(thread'[w], entry.claim.epoch)
        BY <2>1 DEF AfterLosing
    <2>4. s.claim.epoch >= entry.claim.epoch
        BY <1>1, <1>2
    <2> QED
        BY <1>1, <1>2, <1>3, <1>4, <1>5, <2>1, <2>2, <2>3, <2>4, ArrangedUpholds
<1>6. CASE HandsOnDamage(w, s) /\ InHandOf(s)
    <2>1. ~StandsParked(s)
        BY <1>6 DEF Trusty, KeptMeans, Kept
    <2> QED
        BY <1>6, <2>1, LegDamageTrust
<1>7. ASSUME NEW kind \in {"Rebuild", "Reconcile", "Maintenance"}, HandsOnTo(w, s, kind),
             Suits(s, kind), InHandOf(s)
      PROVE  Upholds
    <2>1. entry' = HandOnTo(s, kind) /\ HandsOn(w, HandedOn(s.claim, kind)) /\ kind \in JobKinds
        BY <1>7 DEF HandsOnTo, JobKinds
    <2> QED
        BY <1>2, <1>3, <1>7, <2>1, LegHandsTrust
<1>8. CASE /\ entry' = ScheduleDueDetach(s) /\ HandsOver(w, DueDetach(s))
           /\ s.claim.gate = "open" /\ GateMeans(s)
    <2>1. Arranged(s, entry') /\ GateMeans(s)
        BY <1>2, <1>8, DueArranged
    <2> QED
        BY <1>5, <1>8, <2>1
<1>9. CASE /\ entry' = ScheduleJob(s, "Maintenance")
           /\ HandsOn(w, HandedOn(s.claim, "Maintenance"))
           /\ Suits(s, "Maintenance") /\ s.claim.gate = "open"
    <2>1. ~OwesARung(s) /\ "Maintenance" \in JobKinds
        BY <1>9 DEF Suits, JobKinds
    <2>2. Arranged(s, entry')
        BY <1>2, <1>9, <2>1, JobArranged
    <2>3. GateMeans(s) /\ HandsOver(w, HandedOn(s.claim, "Maintenance"))
        BY <1>9, <2>1 DEF OwesARung, GateMeans, HandsOver
    <2> QED
        BY <1>5, <1>9, <2>2, <2>3
<1>10. CASE /\ entry' = s /\ HandsOn(w, NoJob)
            /\ s.claim.gate = "open" /\ GateMeans(s)
    <2>1. Arranged(s, entry') /\ GateMeans(s) /\ HandsOver(w, NoJob)
        BY <1>10, UnarrangedIs DEF HandsOver
    <2> QED
        BY <1>5, <1>10, <2>1
<1> QED
    BY <1>6, <1>7, <1>8, <1>9, <1>10 DEF HandsTruly

----------------------------------------------------------------------------
(* What a leg leaves of the trust                                          *)

SameParks(s, q) ==
    q.contended = s.contended /\ q.duplicate = s.duplicate /\ q.identity = s.identity

LEMMA ParksSame ==
    ASSUME NEW s, NEW q, SameParks(s, q) PROVE StandsParked(q) <=> StandsParked(s)
BY DEF SameParks, StandsParked

\* Coverage in hand that owes nothing, under any trust but a withheld one.
LEMMA HealedTrusty ==
    ASSUME NEW s, ~s.detach_in_flight, ~StandsParked(s), ~OwesARung(s), ~s.awaits,
           InHandOf(s), s.trust \notin {"Unattached", "Untrusted", "Rebuilding"}
    PROVE  Trusty(s) /\ GateMeans(s)
           /\ Suits(s, "Reconcile") /\ Suits(s, "Maintenance")
<1>1. ReadyMeans(s)
    BY DEF ReadyMeans, InHandOf, InHand, AccountedFor, OutWithLeg
<1>2. KeptMeans(s) /\ RungsMean(s)
    BY DEF KeptMeans, RungsMean, OwesARung
<1> QED
    BY <1>1, <1>2 DEF Trusty, GateMeans, Suits, OwesARung

\* An entry that owes a recovery, with what it has to read again pending.
LEMMA WithheldTrusty ==
    ASSUME NEW s, ~StandsParked(s) \/ ~Kept(s), s.recovery_required, ~s.rebuild_required,
           s.pending # "none", s.trust = "Untrusted"
    PROVE  Trusty(s) /\ GateMeans(s) /\ Minds(s) /\ LostGround(s) /\ OwesARung(s)
<1>1. ReadyMeans(s) /\ RungsMean(s) /\ KeptMeans(s)
    BY DEF ReadyMeans, RungsMean, KeptMeans, OwesARung
<1> QED
    BY <1>1 DEF Trusty, GateMeans, Minds, LostGround, OwesARung

Merged(pending, batch) ==
    IF batch = "none" THEN pending
    ELSE IF "rescan" \in {pending, batch} THEN "rescan" ELSE "facts"

LEMMA MergedIs ==
    ASSUME NEW pending, NEW batch
    PROVE  Merged(pending, batch) = "none" <=> pending = "none" /\ batch = "none"
BY DEF Merged

\* What a working leg finds.
LEMMA WorkFinds ==
    ASSUME Inv, Custody, Trust, NEW w \in Workers, At(w, "working"), Stands(w)
    PROVE  /\ ~entry.detach_in_flight /\ Suits(entry, KindOf(w)) /\ Trusty(entry)
           /\ KindOf(w) # "Attach" =>
                  /\ ~StandsParked(entry) /\ AccountedFor(entry.coverage)
                  /\ entry.trust # "Unattached"
                  /\ entry.trust \in {"Untrusted", "Rebuilding"} => OwesARung(entry)
           /\ KindOf(w) \notin {"Attach", "Reconcile"} /\ underived =>
                  entry.pending # "none" \/ entry.rebuild_required
           /\ KindOf(w) \notin {"Attach", "Rebuild"} => ~entry.rebuild_required
           /\ KindOf(w) \in {"Reconcile", "Maintenance"} => ~OwesARung(entry)
           /\ KindOf(w) = "Rebuild" => ~entry.recovery_required
           /\ KindOf(w) \in JobKinds \ {"Detach"}
           /\ thread[w].job.kind = KindOf(w)
<1>1. /\ w \in Threads /\ KindOf(w) \in Kinds /\ WorkOf(entry, thread[w], KindOf(w))
      /\ thread[w].job.kind = KindOf(w) /\ KindOf(w) \in JobKinds
    <2>1. KindOf(w) \in JobKinds /\ WorkOf(entry, thread[w], KindOf(w))
        BY WorkerIs DEF At, WorkOf, KindOf, Stands, StandsAtEpoch, StandsAt, EpochOf
    <2> QED
        BY <2>1, WorkingIs DEF Kinds, KindOf
<1>2. Suits(entry, KindOf(w)) /\ Trusty(entry)
    <2>1. Awaited(KindOf(w))
        BY <1>1 DEF Awaited
    <2> QED
        BY <1>1, <2>1 DEF Trust, JobsSuit
<1>3. ~entry.detach_in_flight
      /\ (KindOf(w) # "Attach" => entry.coverage = OnLeg(entry.claim.epoch))
    BY WorkingIs DEF Stands, StandsAtEpoch, StandsAt
<1>4. ASSUME KindOf(w) # "Attach"
      PROVE  /\ ~StandsParked(entry) /\ AccountedFor(entry.coverage)
             /\ entry.trust # "Unattached"
             /\ entry.trust \in {"Untrusted", "Rebuilding"} => OwesARung(entry)
    BY <1>2, <1>3, <1>4 DEF Trusty, KeptMeans, Kept, AccountedFor, OnLeg
<1>5. ASSUME KindOf(w) \notin {"Attach", "Reconcile"}, underived
      PROVE  entry.pending # "none" \/ entry.rebuild_required
    <2>1. ASSUME NEW t \in Threads, Derives(entry, thread[t]) PROVE FALSE
        <3>1. Engaged(entry, thread[t]) /\ Engaged(entry, thread[w])
            BY <2>1, WorkingIs DEF Derives, Engaged
        <3>2. t = w
            BY <1>1, <3>1, EngagedAlone
        <3> QED
            BY <1>1, <1>5, <2>1, <3>2 DEF Derives
    <2>2. Minds(entry)
        BY <1>4, <1>5, <2>1 DEF Trust, FactsStand
    <2> QED
        BY <1>2, <1>3, <1>4, <1>5, <2>2 DEF Minds, OwesARung, Trusty, RungsMean
<1>6. /\ KindOf(w) \notin {"Attach", "Rebuild"} => ~entry.rebuild_required
      /\ KindOf(w) \in {"Reconcile", "Maintenance"} => ~OwesARung(entry)
      /\ KindOf(w) = "Rebuild" => ~entry.recovery_required
      /\ KindOf(w) # "Detach"
    <2>1. KindOf(w) # "Detach"
        BY <1>1, WorkerIs DEF At, Shape
    <2>2. KindOf(w) \in {"Attach", "Recover", "Rebuild", "Reconcile", "Maintenance"}
        BY <1>1, <2>1 DEF JobKinds
    <2> QED
        BY <1>2, <2>1, <2>2 DEF Suits, OwesARung
<1> QED
    BY <1>1, <1>2, <1>3, <1>4, <1>5, <1>6

LEMMA UnpinnedHeal ==
    ASSUME Inv, NEW t \in Threads
    PROVE  LET u == UnpinLeg(entry, LegOf(t))
           IN  /\ u \in Entries /\ SameTrust(entry, u) /\ u.claim = entry.claim
               /\ u.damage = entry.damage /\ u.detach_due = entry.detach_due
               /\ u.leases = entry.leases /\ u.recovery_demands = entry.recovery_demands
<1> DEFINE p == [entry EXCEPT !.pinned_leg = NoLeg]
           u == UnpinLeg(entry, LegOf(t))
<1>1. entry \in Entries /\ p \in Entries
    BY Facts DEF Entries
<1>2. u \in Entries
    BY UnpinnedKeeps DEF Keeps, Sound
<1>3. u = entry \/ u = Unpin(p)
    BY DEF UnpinLeg
<1>4. SameTrust(entry, p) /\ p.claim = entry.claim
      /\ p.damage = entry.damage /\ p.detach_due = entry.detach_due
      /\ p.leases = entry.leases /\ p.recovery_demands = entry.recovery_demands
    BY <1>1 DEF SameTrust, Entries
<1> HIDE DEF p
<1>5. SameTrust(p, Unpin(p)) /\ Unpin(p).claim = p.claim
      /\ Unpin(p).damage = p.damage /\ Unpin(p).detach_due = p.detach_due
      /\ Unpin(p).leases = p.leases /\ Unpin(p).recovery_demands = p.recovery_demands
    BY <1>1 DEF Unpin, SameTrust, Entries
<1>6. SameTrust(entry, u) /\ u.claim = entry.claim
      /\ u.damage = entry.damage /\ u.detach_due = entry.detach_due
      /\ u.leases = entry.leases /\ u.recovery_demands = entry.recovery_demands
    <2>1. CASE u = entry
        BY <2>1 DEF SameTrust
    <2>2. CASE u = Unpin(p)
        <3> HIDE DEF u
        <3> QED
            BY <1>4, <1>5, <2>2 DEF SameTrust
    <2> QED
        BY <1>3, <2>1, <2>2
<1> QED
    BY <1>2, <1>6

----------------------------------------------------------------------------
(* What the states a leg goes through say of the trust                     *)

\* s says that of its trust, under the parks and the window of u.
Says(s, u, trust, pending, recovery, rebuild, awaits) ==
    /\ s.trust = trust /\ s.pending = pending /\ s.recovery_required = recovery
    /\ s.rebuild_required = rebuild /\ s.awaits = awaits
    /\ s.detach_in_flight = u.detach_in_flight /\ SameParks(u, s)

StillAwaits(s, observed) == IF observed = "none" THEN s.awaits ELSE FALSE

LEMMA WorkedSays ==
    ASSUME NEW u \in Entries, NEW epoch, NEW observed \in Batches, NEW minted \in BOOLEAN
    PROVE  /\ Says(ClearRecovery(ParkCoverage(Merge(ReleaseGate(u), observed), epoch, minted)),
                   u, u.trust, Merged(u.pending, observed), FALSE, u.rebuild_required, FALSE)
           /\ Says(ClearRebuild(RemintCoverage(Merge(ReleaseGate(u), observed), epoch, minted)),
                   u, u.trust, Merged(u.pending, observed), u.recovery_required, FALSE,
                   StillAwaits(u, observed))
           /\ Says(ReleaseGate(Park(Merge(u, observed), epoch)),
                   u, u.trust, Merged(u.pending, observed), u.recovery_required,
                   u.rebuild_required, StillAwaits(u, observed))
           /\ Says(Park(Merge(u, observed), epoch),
                   u, u.trust, Merged(u.pending, observed), u.recovery_required,
                   u.rebuild_required, StillAwaits(u, observed))
           /\ Says(LostSight(u, epoch), u, "Untrusted", "rescan", TRUE, u.rebuild_required, FALSE)
<1>1. Says(ClearRecovery(ParkCoverage(Merge(ReleaseGate(u), observed), epoch, minted)),
           u, u.trust, Merged(u.pending, observed), FALSE, u.rebuild_required, FALSE)
    BY DEF Says, SameParks, Merged, ClearRecovery, RetireRecoveryDemands, ParkCoverage, Park,
           ParkBy, Merge, ReleaseGate, Entries
<1>2. Says(ClearRebuild(RemintCoverage(Merge(ReleaseGate(u), observed), epoch, minted)),
           u, u.trust, Merged(u.pending, observed), u.recovery_required, FALSE,
           StillAwaits(u, observed))
    BY DEF Says, SameParks, Merged, StillAwaits, ClearRebuild, RemintCoverage, Park, ParkBy,
           Merge, ReleaseGate, Entries
<1>3. Says(ReleaseGate(Park(Merge(u, observed), epoch)),
           u, u.trust, Merged(u.pending, observed), u.recovery_required,
           u.rebuild_required, StillAwaits(u, observed))
    BY DEF Says, SameParks, Merged, StillAwaits, Park, ParkBy, Merge, ReleaseGate, Entries
<1>4. Says(Park(Merge(u, observed), epoch),
           u, u.trust, Merged(u.pending, observed), u.recovery_required,
           u.rebuild_required, StillAwaits(u, observed))
    BY DEF Says, SameParks, Merged, StillAwaits, Park, ParkBy, Merge, Entries
<1>5. Says(LostSight(u, epoch), u, "Untrusted", "rescan", TRUE, u.rebuild_required, FALSE)
    BY DEF Says, SameParks, LostSight, SetTrust, RequireRecovery, RetireRecoveryDemands,
           RequireRecoveryKeepingDemands, Park, ParkBy, Merge, ReleaseGate, Entries
<1> QED
    BY <1>1, <1>2, <1>3, <1>4, <1>5

LEMMA AttachedSays ==
    ASSUME Inv, NEW observed \in Batches, NEW minted \in BOOLEAN
    PROVE  LET s == Attached(entry, observed, minted)
           IN  /\ s.trust = entry.trust /\ s.pending = Merged(entry.pending, observed)
               /\ ~OwesARung(s) /\ ~s.awaits /\ ~StandsParked(s)
<1> DEFINE s == Attached(entry, observed, minted)
<1>1. entry \in Entries
    BY Facts
<1>2. /\ s.trust = entry.trust /\ s.pending = Merged(entry.pending, observed)
      /\ s.recovery_required = FALSE /\ s.rebuild_required = FALSE /\ s.awaits = FALSE
      /\ s.contended = FALSE /\ s.duplicate = FALSE /\ s.identity = FALSE
    BY <1>1 DEF Attached, ClearRungs, ClearRebuild, ClearRecovery, RetireRecoveryDemands,
                InstallCoverage, Merge, Merged, ReleaseGate, Entries
<1> HIDE DEF s
<1> QED
    BY <1>2 DEF OwesARung, StandsParked, s

\* Trust withheld over coverage that is in hand, or not there.
LEMMA WithholdSays ==
    ASSUME NEW s \in Entries, NEW tookInAFact \in BOOLEAN
    PROVE  Says(WithholdTrust(s, tookInAFact), s, "Untrusted", "rescan", TRUE,
                s.rebuild_required, ~tookInAFact)
BY DEF Says, SameParks, WithholdTrust, SetTrust, Merge, RequireRecovery, RetireRecoveryDemands,
       RequireRecoveryKeepingDemands, Entries

LEMMA ReadyTrust == "Ready" \in Trusts /\ "Untrusted" \in Trusts /\ "Healing" \in Trusts
BY DEF Trusts, Warm, Distrust

\* Coverage in hand that nothing is owed over, whatever trust is then set.
LEMMA HealedSet ==
    ASSUME NEW s \in Entries, ~s.detach_in_flight, ~StandsParked(s), ~OwesARung(s), ~s.awaits,
           InHandOf(s), NEW trust \in Trusts \ {"Unattached", "Untrusted", "Rebuilding"}
    PROVE  LET q == SetTrust(s, trust)
           IN  /\ Trusty(q) /\ GateMeans(q) /\ q.claim = s.claim /\ q.coverage = s.coverage
               /\ Suits(q, "Reconcile") /\ Suits(q, "Maintenance") /\ InHandOf(q)
               /\ q \in Entries /\ q.pending = s.pending /\ ~OwesARung(q) /\ q.trust = trust
               /\ (Minds(q) <=> Minds(s))
<1> DEFINE q == SetTrust(s, trust)
<1>1. /\ q \in Entries /\ q.trust = trust /\ q.claim = s.claim /\ q.coverage = s.coverage
      /\ q.detach_in_flight = s.detach_in_flight /\ q.pending = s.pending
      /\ q.recovery_required = s.recovery_required /\ q.rebuild_required = s.rebuild_required
      /\ q.awaits = s.awaits
      /\ q.contended = s.contended /\ q.duplicate = s.duplicate /\ q.identity = s.identity
    BY TrustSet
<1> HIDE DEF q
<1>2. /\ ~q.detach_in_flight /\ ~StandsParked(q) /\ ~OwesARung(q) /\ ~q.awaits /\ InHandOf(q)
      /\ (Minds(q) <=> Minds(s))
    BY <1>1 DEF StandsParked, OwesARung, InHandOf, Minds
<1> QED
    BY <1>1, <1>2, HealedTrusty DEF q

\* What is published over coverage that nothing is owed over: what is pending, or
\* that it is ready.
LEMMA PublishedOver ==
    ASSUME NEW s \in Entries, NEW saturated \in BOOLEAN, saturated => s.pending # "none",
           ~OwesARung(s)
    PROVE  \E trust \in Trusts \ {"Unattached", "Untrusted", "Rebuilding"} :
               /\ PublishReadyWhereNothingIsLeft(
                      IF s.pending # "none" THEN PublishPendingReconcile(s) ELSE s, saturated)
                  = SetTrust(s, trust)
               /\ trust = "Ready" => s.pending = "none"
<1>1. CASE s.pending = "none"
    <2>1. PublishReadyWhereNothingIsLeft(s, saturated) = SetTrust(s, "Ready")
        BY <1>1 DEF PublishReadyWhereNothingIsLeft
    <2> QED
        BY <1>1, <2>1, ReadyTrust
<1>2. CASE s.pending # "none"
    <2>1. PICK trust \in {"Overflow", "Healing"} :
              PublishPendingReconcile(s) = SetTrust(s, trust) /\ trust \in Trusts
        BY PublishedIs
    <2>2. SetTrust(s, trust).pending # "none"
        BY <1>2, <2>1, TrustSet
    <2>3. PublishReadyWhereNothingIsLeft(SetTrust(s, trust), saturated) = SetTrust(s, trust)
        BY <2>2 DEF PublishReadyWhereNothingIsLeft
    <2> QED
        BY <1>2, <2>1, <2>3
<1> QED
    BY <1>1, <1>2

LEMMA HandsOnPlace ==
    ASSUME Inv, NEW w \in Workers, NEW next, HandsOn(w, next)
    PROVE  thread'[w].pc # "classifying"
<1>1. thread \in [Threads -> ThreadStates] /\ w \in Threads
    BY Facts DEF Inv, ThreadInv
<1>2. thread'[w].pc \in {"ending", "handing"}
    BY <1>1 DEF HandsOn, ThreadStates
<1> QED
    BY <1>2

----------------------------------------------------------------------------
(* The end of an attach                                                    *)

LEMMA AttachSucceedsUpholds ==
    ASSUME Inv, Inv', Custody, Custody', Trust, NEW w \in Workers, AttachSucceeds(w)
    PROVE  Upholds
<1>1. PICK observed \in Batches, minted \in BOOLEAN :
        LET attached == Attached(entry, observed, minted) IN
        /\ Observes(observed)
        /\ underived' = (observed # "none")
        /\ IF entry.damage
           THEN /\ entry' = HandOnTo(TakeDamage(attached), "Rebuild")
                /\ HandsOn(w, HandedOn(attached.claim, "Rebuild"))
           ELSE IF attached.pending = "none"
           THEN /\ entry' = SetTrust(attached, "Ready")
                /\ HandsOn(w, NoJob)
           ELSE /\ entry' = HandOnTo(PublishPendingReconcile(attached), "Reconcile")
                /\ HandsOn(w, HandedOn(attached.claim, "Reconcile"))
    BY DEF AttachSucceeds
<1> DEFINE s == Attached(entry, observed, minted)
<1>2. At(w, "working") /\ Stands(w) /\ KindOf(w) = "Attach" /\ UNCHANGED <<queue, sends>>
    BY DEF AttachSucceeds, Channel
<1>3. /\ underived' => observed # "none"
      /\ \/ entry' = HandOnTo(TakeDamage(s), "Rebuild") /\ HandsOn(w, HandedOn(s.claim, "Rebuild"))
         \/ entry' = SetTrust(s, "Ready") /\ HandsOn(w, NoJob) /\ s.pending = "none"
         \/ /\ entry' = HandOnTo(PublishPendingReconcile(s), "Reconcile")
            /\ HandsOn(w, HandedOn(s.claim, "Reconcile"))
    BY <1>1
<1>4. Keeps(entry, s) /\ s \in Entries /\ Parks(entry, s) /\ s.claim = Release(entry.claim)
    BY AttachedKeeps, AttachedParks DEF Keeps, Sound
<1>5. /\ s.pending = Merged(entry.pending, observed)
      /\ ~OwesARung(s) /\ ~s.awaits /\ ~StandsParked(s)
    BY AttachedSays
<1> HIDE DEF s
<1>6. Parted(w, s) /\ InHandOf(s) /\ s.claim.gate = "open"
    BY <1>2, <1>4, WorkedParted
<1>7. ~s.detach_in_flight
    BY <1>6 DEF Parted
<1>8. underived' => Minds(s)
    BY <1>3, <1>5, MergedIs DEF Minds
<1>9. "Attach" \notin Spared
    BY DEF Spared
<1>10. CASE entry' = HandOnTo(TakeDamage(s), "Rebuild") /\ HandsOn(w, HandedOn(s.claim, "Rebuild"))
    <2>1. HandsOnDamage(w, s)
        BY <1>10 DEF HandsOnDamage
    <2> QED
        BY <1>2, <1>5, <1>6, <2>1, LegDamageTrust
<1>11. ASSUME NEW trust \in Trusts \ {"Unattached", "Untrusted", "Rebuilding"}
       PROVE  LET q == SetTrust(s, trust)
              IN  /\ Trusty(q) /\ GateMeans(q) /\ q.claim = s.claim /\ q.coverage = s.coverage
                  /\ Suits(q, "Reconcile") /\ InHandOf(q) /\ (underived' => Minds(q))
                  /\ Parted(w, q)
    <2>1. LET q == SetTrust(s, trust)
          IN  /\ Trusty(q) /\ GateMeans(q) /\ q.claim = s.claim /\ q.coverage = s.coverage
              /\ Suits(q, "Reconcile") /\ InHandOf(q) /\ (Minds(q) <=> Minds(s))
        BY <1>4, <1>5, <1>6, <1>7, HealedSet
    <2>2. SameCustody(s, SetTrust(s, trust)) /\ Keeps(entry, SetTrust(s, trust))
        BY <1>4, PublishesAlike, AlikeKept, TrustAlike
    <2>3. Parted(w, SetTrust(s, trust))
        BY <1>6, <2>2, PartedAlike
    <2> QED
        BY <1>8, <2>1, <2>3
<1>12. CASE entry' = SetTrust(s, "Ready") /\ HandsOn(w, NoJob)
    <2> DEFINE q == SetTrust(s, "Ready")
    <2>1. Trusty(q) /\ GateMeans(q) /\ q.claim = s.claim /\ (underived' => Minds(q)) /\ Parted(w, q)
        BY <1>11, ReadyTrust
    <2>2. HandsTruly(w, q)
        BY <1>6, <1>12, <2>1 DEF HandsTruly
    <2>3. thread'[w].pc # "classifying"
        BY <1>12, HandsOnPlace
    <2> HIDE DEF q
    <2> QED
        BY <1>2, <1>9, <2>1, <2>2, <2>3, LegTrust
<1>13. CASE /\ entry' = HandOnTo(PublishPendingReconcile(s), "Reconcile")
            /\ HandsOn(w, HandedOn(s.claim, "Reconcile"))
    <2> DEFINE q == PublishPendingReconcile(s)
    <2>1. PICK trust \in {"Overflow", "Healing"} : q = SetTrust(s, trust) /\ trust \in Trusts
        BY <1>4, PublishedIs
    <2> HIDE DEF q
    <2>2. /\ Trusty(q) /\ q.claim = s.claim /\ (underived' => Minds(q)) /\ Parted(w, q)
          /\ Suits(q, "Reconcile") /\ InHandOf(q)
        BY <1>11, <2>1
    <2>3. HandsTruly(w, q)
        BY <1>13, <2>2 DEF HandsTruly, HandsOnTo, q
    <2>4. thread'[w].pc # "classifying"
        BY <1>13, HandsOnPlace
    <2> QED
        BY <1>2, <1>9, <2>2, <2>3, <2>4, LegTrust
<1> QED
    BY <1>3, <1>10, <1>12, <1>13

LEMMA AttachWithheldUpholds ==
    ASSUME Inv, Inv', Custody, Custody', Trust, NEW w \in Workers, AttachWithheld(w)
    PROVE  Upholds
<1>1. PICK tookInAFact \in BOOLEAN, minted \in BOOLEAN :
        LET observed == IF tookInAFact THEN "facts" ELSE "none" IN
        entry' = [WithholdTrust(Attached(entry, observed, minted), tookInAFact)
                        EXCEPT !.damage = entry.damage]
    BY DEF AttachWithheld
<1> DEFINE observed == IF tookInAFact THEN "facts" ELSE "none"
           s == Attached(entry, observed, minted)
           p == WithholdTrust(s, tookInAFact)
           q == [p EXCEPT !.damage = entry.damage]
<1>2. At(w, "working") /\ Stands(w) /\ KindOf(w) = "Attach" /\ UNCHANGED <<queue, sends>>
      /\ HandsOn(w, NoJob) /\ entry' = q
    BY <1>1 DEF AttachWithheld, Channel
<1>3. observed \in Batches /\ entry.damage \in BOOLEAN
    BY Facts DEF Batches, Entries
<1> HIDE DEF observed
<1>4. Keeps(entry, s) /\ s \in Entries /\ Parks(entry, s) /\ s.claim = Release(entry.claim)
    BY <1>3, AttachedKeeps, AttachedParks DEF Keeps, Sound
<1>5. ~OwesARung(s) /\ ~StandsParked(s)
    BY <1>3, AttachedSays
<1> HIDE DEF s
<1>6. Parted(w, s) /\ s.claim.gate = "open"
    BY <1>2, <1>4, WorkedParted
<1>7. /\ SameCustody(s, p) /\ Keeps(entry, p) /\ p \in Entries
      /\ Says(p, s, "Untrusted", "rescan", TRUE, s.rebuild_required, ~tookInAFact)
    BY <1>4, PublishesAlike, AlikeKept, PublishAlike, WithholdSays DEF Keeps, Sound
<1> HIDE DEF p
<1>8. SameCustody(p, q) /\ Keeps(entry, q)
      /\ Says(q, p, p.trust, p.pending, p.recovery_required, p.rebuild_required, p.awaits)
    <2>1. Says(q, p, p.trust, p.pending, p.recovery_required, p.rebuild_required, p.awaits)
        BY <1>7 DEF Says, SameParks, Entries
    <2> QED
        BY <1>3, <1>7, <2>1, PublishesAlike, FlagsMoved, AlikeKept
<1> HIDE DEF q
<1>9. Parted(w, q) /\ q.claim.gate = "open"
    BY <1>6, <1>7, <1>8, PartedAlike
<1>10. ~StandsParked(q) /\ q.recovery_required /\ ~q.rebuild_required
       /\ q.pending # "none" /\ q.trust = "Untrusted"
    BY <1>5, <1>7, <1>8 DEF Says, SameParks, StandsParked, OwesARung
<1>11. Trusty(q) /\ GateMeans(q) /\ Minds(q)
    BY <1>10, WithheldTrusty
<1>12. HandsTruly(w, q)
    BY <1>2, <1>9, <1>11 DEF HandsTruly
<1>13. thread'[w].pc # "classifying" /\ "Attach" \notin Spared
    BY <1>2, HandsOnPlace DEF Spared
<1> QED
    BY <1>2, <1>9, <1>11, <1>12, <1>13, LegTrust

LEMMA AttachFailsUpholds ==
    ASSUME Inv, Inv', Custody, Custody', Trust, NEW w \in Workers, AttachFails(w)
    PROVE  Upholds
<1>1. PICK failure \in Failures : entry' = FailedAttach(entry, failure)
    BY DEF AttachFails
<1>2. At(w, "working") /\ Stands(w) /\ KindOf(w) = "Attach" /\ UNCHANGED <<queue, sends>>
      /\ HandsOn(w, NoJob)
    BY DEF AttachFails, Channel
<1> DEFINE a == [ReleaseGate(entry) EXCEPT !.damage = FALSE]
           b == [a EXCEPT !.contended = TRUE]
           s == FailedAttach(entry, failure)
<1>3. /\ entry.claim.leg = LegOf(w) /\ entry.claim.gate = "held" /\ ~entry.detach_in_flight
      /\ entry.pinned_leg = NoLeg /\ entry.pins = reads
      /\ entry.coverage = NoCoverage /\ ~entry.reader /\ entry.claim \in Claims /\ entry \in Entries
    BY <1>2, WorkingIs, Facts, EntryTyped
<1>4. ClaimIs(Release(entry.claim), entry.claim.epoch, "open", NoJob, LegOf(w), entry.claim.slot)
    BY <1>3, GateFields
<1>5. /\ failure = "contended" => s = SetTrust(b, "Unattached")
      /\ failure = "lost" => s = SetTrust(ClearPending(a), "Unattached")
      /\ failure \notin {"contended", "lost"} => s = SetTrust(a, "Untrusted")
    BY DEF FailedAttach
<1>6. /\ s.claim = Release(entry.claim) /\ s.coverage = entry.coverage
      /\ s.reader = entry.reader /\ s.detach_in_flight = entry.detach_in_flight
      /\ s.pins = entry.pins /\ s.pinned_leg = entry.pinned_leg
    <2> HIDE DEF s
    <2> QED
        BY <1>3, <1>5 DEF SetTrust, ClearPending, ReleaseGate, Entries
<1>7. /\ s.trust \in {"Unattached", "Untrusted"}
      /\ s.recovery_required = entry.recovery_required
      /\ s.rebuild_required = entry.rebuild_required /\ s.awaits = entry.awaits
    <2> HIDE DEF s
    <2> QED
        BY <1>3, <1>5 DEF SetTrust, ClearPending, ReleaseGate, Entries
<1>8. Keeps(entry, s)
    <2>1. Keeps(entry, ReleaseGate(entry))
        BY Facts, GateKeeps
    <2> QED
        BY <1>1, <1>4, <1>6, <2>1 DEF Keeps, SlotKept, Inv, ClaimIs
<1> HIDE DEF s
<1>9. Parted(w, s) /\ s.claim.gate = "open"
    BY <1>3, <1>4, <1>6, <1>8 DEF Parted, ClaimIs
<1>10. ~AccountedFor(s.coverage) /\ ~Kept(s) /\ ~InHandOf(s)
    BY <1>3, <1>6 DEF AccountedFor, Kept, InHandOf, InHand, NoCoverage, OnLeg
<1>11. Trusty(s) /\ GateMeans(s)
    <2>1. ReadyMeans(s) /\ KeptMeans(s) /\ GateMeans(s)
        BY <1>7, <1>10 DEF ReadyMeans, KeptMeans, GateMeans
    <2>2. RungsMean(s)
        BY <1>7, <1>10 DEF RungsMean, Trust, Trusty
    <2> QED
        BY <2>1, <2>2 DEF Trusty
<1>12. HandsTruly(w, s)
    BY <1>1, <1>2, <1>9, <1>11 DEF HandsTruly, s
<1>13. thread'[w].pc # "classifying" /\ "Attach" \notin Spared
    BY <1>2, HandsOnPlace DEF Spared
<1> QED
    BY <1>2, <1>9, <1>10, <1>11, <1>12, <1>13, LegTrust

----------------------------------------------------------------------------
(* The end of a leg that worked on the coverage of the entry               *)

\* What the entry says, its own leg finds it saying once its pin is taken back.
LEMMA UnpinnedSays ==
    ASSUME Inv, NEW w \in Workers
    PROVE  /\ Unpinned(w) \in Entries
           /\ Says(Unpinned(w), entry, entry.trust, entry.pending, entry.recovery_required,
                   entry.rebuild_required, entry.awaits)
           /\ (StandsParked(Unpinned(w)) <=> StandsParked(entry))
           /\ Unpinned(w).claim = entry.claim /\ Unpinned(w).coverage = entry.coverage
           /\ Unpinned(w).damage = entry.damage
<1> DEFINE u == Unpinned(w)
<1>1. w \in Threads
    BY Facts
<1>2. u \in Entries /\ SameTrust(entry, u) /\ u.claim = entry.claim /\ u.damage = entry.damage
    BY <1>1, UnpinnedHeal DEF Unpinned
<1> HIDE DEF u
<1>3. Says(u, entry, entry.trust, entry.pending, entry.recovery_required,
           entry.rebuild_required, entry.awaits) /\ SameParks(entry, u)
    BY <1>2 DEF SameTrust, Says, SameParks
<1> QED
    BY <1>2, <1>3, ParksSame DEF u, SameTrust

LEMMA TurnFailsUpholds ==
    ASSUME Inv, Inv', Custody, Custody', Trust, NEW w \in Workers, TurnFails(w)
    PROVE  Upholds
<1> DEFINE s == LostSight(Unpinned(w), EpochOf(w))
           u == Unpinned(w)
<1>1. /\ At(w, "working") /\ Stands(w) /\ KindOf(w) \in CoverageJobs \ {"Rebuild"}
      /\ UNCHANGED <<queue, sends>>
    BY DEF TurnFails, Channel
<1>2. /\ entry' = ScheduleDueDetach(s)
      /\ \/ HandsOn(w, DueDetach(s))
         \/ thread' = [thread EXCEPT ![w] =
               [@ EXCEPT !.pc = "classifying", !.held = FALSE, !.next = DueDetach(s),
                         !.lost = entry'.claim.epoch]]
    BY DEF TurnFails
<1>3. entry.claim.epoch' \in Nat /\ KindOf(w) \notin {"Attach", "Rebuild"}
    BY <1>1, SoundEpoch DEF Inv, CoverageJobs
<1>4. /\ u \in Entries /\ u.claim = entry.claim /\ u.rebuild_required = entry.rebuild_required
      /\ (StandsParked(u) <=> StandsParked(entry))
    BY UnpinnedSays DEF Says
<1>5. ~StandsParked(entry) /\ ~entry.rebuild_required
    BY <1>1, <1>3, WorkFinds
<1> HIDE DEF u
<1>6. Keeps(entry, s) /\ Parks(u, s) /\ s.claim = Release(u.claim)
      /\ Says(s, u, "Untrusted", "rescan", TRUE, u.rebuild_required, FALSE)
    <2>1. /\ Parks(u, LostSight(u, EpochOf(w))) /\ LostSight(u, EpochOf(w)).claim = Release(u.claim)
          /\ Says(LostSight(u, EpochOf(w)), u, "Untrusted", "rescan", TRUE, u.rebuild_required, FALSE)
        BY <1>4, WorkedParks, WorkedSays DEF Batches
    <2> QED
        BY <2>1, LostSightKeeps DEF u
<1> HIDE DEF s
<1>7. Parted(w, s) /\ InHandOf(s) /\ s.claim.gate = "open"
    BY <1>1, <1>3, <1>4, <1>6, WorkedParted DEF u
<1>8. ~StandsParked(s)
    BY <1>4, <1>5, <1>6, ParksSame DEF Says
<1>9. Trusty(s) /\ GateMeans(s) /\ Minds(s) /\ LostGround(s) /\ OwesARung(s)
    BY <1>4, <1>5, <1>6, <1>8, WithheldTrusty DEF Says
<1>10. HandsOver(w, DueDetach(s))
    BY <1>2, <1>3 DEF HandsOver
<1>11. HandsTruly(w, s)
    BY <1>2, <1>7, <1>9, <1>10 DEF HandsTruly
<1> QED
    BY <1>1, <1>7, <1>9, <1>11, LegTrust

LEMMA TurnFindsDamageUpholds ==
    ASSUME Inv, Inv', Custody, Trust, NEW w \in Workers, TurnFindsDamage(w)
    PROVE  Upholds
<1> DEFINE u == Unpinned(w)
           p == Park(u, EpochOf(w))
           s == WithdrawTrustForDamage(p)
<1>1. /\ At(w, "working") /\ Stands(w) /\ KindOf(w) # "Attach"
      /\ UNCHANGED <<queue, sends>>
      /\ entry' = HandOnTo(s, "Rebuild") /\ HandsOn(w, HandedOn(s.claim, "Rebuild"))
    BY DEF TurnFindsDamage, CoverageJobs, Channel
<1>2. u \in Entries /\ Keeps(entry, u) /\ EpochOf(w) \in 0..entry.claim.epoch
    BY <1>1, UnpinnedIs, ThreadFacts, Facts
<1>3. (StandsParked(u) <=> StandsParked(entry)) /\ ~StandsParked(entry)
    BY <1>1, UnpinnedSays, WorkFinds
<1> HIDE DEF u
<1>4. Keeps(entry, p) /\ Parks(u, p) /\ p \in Entries /\ SameParks(u, p)
    <2>1. Keeps(entry, p)
        BY <1>2, Facts, ParkKeeps, SoundSteps DEF Keeps, SlotKept
    <2>2. "none" \in Batches /\ TRUE \in BOOLEAN
        BY DEF Batches
    <2>3. Parks(u, p)
        BY <1>2, <2>2, WorkedParks
    <2>4. SameParks(u, p)
        BY <1>2 DEF SameParks, Park, Entries
    <2> QED
        BY <2>1, <2>3, <2>4 DEF Keeps, Sound
<1> HIDE DEF p
<1>5. Keeps(entry, s) /\ SameCustody(p, s) /\ s \in Entries
    BY <1>4, AlikeKept, RungsAlike, PublishesAlike DEF Keeps, Sound
<1>6. /\ s.contended = p.contended /\ s.duplicate = p.duplicate /\ s.identity = p.identity
      /\ s.trust = "Rebuilding" /\ s.rebuild_required = TRUE /\ s.recovery_required = FALSE
      /\ s.awaits = FALSE
    BY <1>4 DEF WithdrawTrustForDamage, SetTrust, RequireRebuild, RetireRecoveryDemands, Entries
<1> HIDE DEF s
<1>7. Parted(w, s) /\ InHandOf(s)
    <2>1. Parks(u, s)
        BY <1>4, <1>5, ParksAlike
    <2> QED
        BY <1>1, <1>5, <2>1, WorkedParted DEF u
<1>8. Trusty(s) /\ Minds(s) /\ Suits(s, "Rebuild") /\ "Rebuild" \in JobKinds
    <2>1. ~StandsParked(p)
        BY <1>3, <1>4, ParksSame
    <2> QED
        BY <1>6, <2>1, DamagedTrusty DEF Suits, JobKinds
<1>9. Passes(entry, s)
    BY <1>1, <1>7, PartedPasses
<1> QED
    BY <1>1, <1>5, <1>7, <1>8, <1>9, LegHandsTrust

\* What a recovery leaves before it decides on the trust, and what a rebuild does.
LEMMA HealedLeaves ==
    ASSUME Inv, Custody, Trust, NEW w \in Workers, At(w, "working"), Stands(w),
           KindOf(w) \in {"Recover", "Rebuild"}, NEW observed \in Batches, NEW minted \in BOOLEAN,
           NEW s, s = IF KindOf(w) = "Recover" THEN Recovered(w, observed, minted)
                      ELSE Rebuilt(w, observed, minted)
    PROVE  /\ Keeps(entry, s) /\ s \in Entries /\ Parted(w, s) /\ InHandOf(s)
           /\ s.claim.gate = "open" /\ ~s.detach_in_flight
           /\ ~StandsParked(s) /\ ~OwesARung(s) /\ ~s.awaits
           /\ s.trust = entry.trust /\ s.pending = Merged(entry.pending, observed)
<1> DEFINE u == Unpinned(w)
           epoch == EpochOf(w)
<1>1. KindOf(w) # "Attach"
    OBVIOUS
<1>2. Keeps(entry, s) /\ Parks(Unpinned(w), s) /\ s.claim = Release(entry.claim)
    BY <1>1, RecoveredParks
<1>3. Parted(w, s) /\ InHandOf(s) /\ s.claim.gate = "open"
    BY <1>1, <1>2, WorkedParted
<1>4. u \in Entries /\ u.trust = entry.trust /\ u.pending = entry.pending
      /\ u.recovery_required = entry.recovery_required /\ u.awaits = entry.awaits
      /\ u.rebuild_required = entry.rebuild_required /\ (StandsParked(u) <=> StandsParked(entry))
    BY UnpinnedSays DEF Says
<1>5. ~StandsParked(entry) /\ Suits(entry, KindOf(w)) /\ Trusty(entry)
    BY <1>1, WorkFinds
<1> HIDE DEF u, epoch
<1>6. CASE KindOf(w) = "Recover"
    <2>1. s = ClearRecovery(ParkCoverage(Merge(ReleaseGate(u), observed), epoch, minted))
        BY <1>6 DEF Recovered, u, epoch
    <2>2. Says(s, u, u.trust, Merged(u.pending, observed), FALSE, u.rebuild_required, FALSE)
        BY <1>4, <2>1, WorkedSays
    <2>3. ~entry.rebuild_required
        BY <1>5, <1>6 DEF Suits
    <2>4. ~StandsParked(s)
        BY <1>4, <1>5, <2>2, ParksSame DEF Says
    <2> QED
        BY <1>2, <1>3, <1>4, <2>2, <2>3, <2>4 DEF Says, OwesARung, Keeps, Sound, Parted
<1>7. CASE KindOf(w) = "Rebuild"
    <2>1. s = ClearRebuild(RemintCoverage(Merge(ReleaseGate(u), observed), epoch, minted))
        BY <1>7 DEF Rebuilt, u, epoch
    <2>2. Says(s, u, u.trust, Merged(u.pending, observed), u.recovery_required, FALSE,
               StillAwaits(u, observed))
        BY <1>4, <2>1, WorkedSays
    <2>3. ~entry.recovery_required /\ ~entry.awaits
        BY <1>5, <1>7 DEF Suits, Trusty, RungsMean
    <2>4. ~StandsParked(s)
        BY <1>4, <1>5, <2>2, ParksSame DEF Says
    <2>5. ~StillAwaits(u, observed)
        BY <1>4, <2>3 DEF StillAwaits
    <2> QED
        BY <1>2, <1>3, <1>4, <2>2, <2>3, <2>4, <2>5 DEF Says, OwesARung, Keeps, Sound, Parted
<1> QED
    BY <1>6, <1>7

\* Trust set over what a leg leaves of a healed entry.
LEMMA HealedOver ==
    ASSUME Inv, NEW w \in Workers, NEW s \in Entries, Keeps(entry, s), Parted(w, s),
           ~StandsParked(s), ~OwesARung(s), ~s.awaits, InHandOf(s),
           NEW trust \in Trusts \ {"Unattached", "Untrusted", "Rebuilding"}, NEW q, q = SetTrust(s, trust)
    PROVE  /\ Trusty(q) /\ GateMeans(q) /\ q.claim = s.claim /\ q.coverage = s.coverage
           /\ Suits(q, "Reconcile") /\ Suits(q, "Maintenance") /\ InHandOf(q)
           /\ Parted(w, q) /\ q.pending = s.pending
           /\ (Minds(q) <=> Minds(s))
           /\ (s.pending # "none" => Minds(q))
           /\ (s.pending # "none" /\ trust # "Ready" => LostGround(q))
<1>1. ~s.detach_in_flight
    BY DEF Parted
<1>2. /\ Trusty(q) /\ GateMeans(q) /\ q.claim = s.claim /\ q.coverage = s.coverage
      /\ Suits(q, "Reconcile") /\ Suits(q, "Maintenance") /\ InHandOf(q)
      /\ q.pending = s.pending /\ q.trust = trust /\ (Minds(q) <=> Minds(s))
    BY <1>1, HealedSet
<1>3. SameCustody(s, q) /\ Keeps(entry, q)
    BY PublishesAlike, AlikeKept, TrustAlike
<1>4. Parted(w, q)
    BY <1>3, PartedAlike
<1> QED
    BY <1>2, <1>4 DEF LostGround, Minds

LEMMA RecoverSucceedsUpholds ==
    ASSUME Inv, Inv', Custody, Custody', Trust, NEW w \in Workers, RecoverSucceeds(w)
    PROVE  Upholds
<1>1. PICK observed \in Batches, saturated \in BOOLEAN, minted \in BOOLEAN :
        LET s == Recovered(w, observed, minted) IN
        /\ Drains(observed, saturated)
        /\ underived' = (underived \/ observed # "none")
        /\ IF s.damage THEN HandsOnDamage(w, s)
           ELSE IF s.detach_due
           THEN HandsOnDueDetach(w,
                    PublishReadyWhereNothingIsLeft(
                        IF s.pending # "none" THEN PublishPendingReconcile(s) ELSE s,
                        saturated))
           ELSE IF s.pending = "none"
           THEN entry' = SetTrust(s, "Ready") /\ HandsOn(w, NoJob)
           ELSE HandsOnTo(w, s, "Reconcile")
    BY DEF RecoverSucceeds
<1> DEFINE s == Recovered(w, observed, minted)
           published == PublishReadyWhereNothingIsLeft(
                        IF s.pending # "none" THEN PublishPendingReconcile(s) ELSE s,
                        saturated)
           ready == SetTrust(s, "Ready")
<1>2. /\ At(w, "working") /\ Stands(w) /\ KindOf(w) = "Recover" /\ KindOf(w) # "Attach"
      /\ UNCHANGED <<queue, sends>>
    BY DEF RecoverSucceeds, Channel
<1>3. /\ saturated => observed # "none"
      /\ underived' => underived \/ observed # "none"
      /\ \/ HandsOnDamage(w, s) \/ HandsOnDueDetach(w, published)
         \/ HandsOnTo(w, s, "Reconcile")
         \/ entry' = ready /\ HandsOn(w, NoJob) /\ s.pending = "none"
    BY <1>1 DEF Drains
<1>4. /\ Keeps(entry, s) /\ s \in Entries /\ Parted(w, s) /\ InHandOf(s)
      /\ s.claim.gate = "open" /\ ~s.detach_in_flight
      /\ ~StandsParked(s) /\ ~OwesARung(s) /\ ~s.awaits
      /\ s.trust = entry.trust /\ s.pending = Merged(entry.pending, observed)
    BY <1>2, HealedLeaves
<1>5. /\ entry.trust = "Installing" /\ ~entry.rebuild_required
      /\ underived => entry.pending # "none"
      /\ AccountedFor(entry.coverage)
    BY <1>2, WorkFinds DEF Suits
<1> HIDE DEF s
<1>6. /\ saturated \/ underived' => s.pending # "none"
      /\ LostGround(entry) => s.pending # "none"
    BY <1>3, <1>4, <1>5, MergedIs DEF LostGround
<1>7. "Installing" \in Trusts \ {"Unattached", "Untrusted", "Rebuilding"}
    BY DEF Trusts, Warm
<1>8. CASE HandsOnDamage(w, s)
    BY <1>2, <1>4, <1>8, LegDamageTrust
<1>9. ASSUME NEW q, NEW trust \in Trusts \ {"Unattached", "Untrusted", "Rebuilding"},
             q = SetTrust(s, trust), trust = "Ready" => s.pending = "none", HandsTruly(w, q),
             thread'[w].pc # "classifying"
      PROVE  Upholds
    <2>1. /\ Trusty(q) /\ InHandOf(q) /\ Parted(w, q)
          /\ s.pending # "none" => Minds(q)
          /\ s.pending # "none" /\ trust # "Ready" => LostGround(q)
        BY <1>4, <1>9, HealedOver
    <2> QED
        BY <1>2, <1>6, <1>9, <2>1, LegTrust
<1>10. CASE HandsOnDueDetach(w, published)
    <2>1. PICK trust \in Trusts \ {"Unattached", "Untrusted", "Rebuilding"} :
              /\ published = SetTrust(s, trust)
              /\ trust = "Ready" => s.pending = "none"
        BY <1>4, <1>6, PublishedOver
    <2> HIDE DEF published
    <2>2. GateMeans(published) /\ published.claim = s.claim
        BY <1>4, <2>1, HealedOver
    <2>3. HandsTruly(w, published)
        BY <1>4, <1>10, <2>2 DEF HandsTruly, HandsOnDueDetach, HandsOver
    <2>4. thread'[w].pc # "classifying"
        BY <1>10, HandsOnPlace DEF HandsOnDueDetach
    <2> QED
        BY <1>9, <2>1, <2>3, <2>4
<1>11. CASE HandsOnTo(w, s, "Reconcile")
    <2>1. s = SetTrust(s, "Installing")
        BY <1>4, <1>5 DEF SetTrust, Entries
    <2>2. Suits(s, "Reconcile")
        BY <1>4 DEF Suits
    <2>3. HandsTruly(w, s)
        BY <1>4, <1>11, <2>2 DEF HandsTruly
    <2>4. thread'[w].pc # "classifying"
        BY <1>11, HandsOnPlace DEF HandsOnTo
    <2> QED
        BY <1>7, <1>9, <2>1, <2>3, <2>4
<1>12. CASE entry' = ready /\ HandsOn(w, NoJob) /\ s.pending = "none"
    <2>1. GateMeans(ready) /\ ready.claim = s.claim
        BY <1>4, ReadyTrust, HealedOver
    <2>2. HandsTruly(w, ready)
        BY <1>4, <1>12, <2>1 DEF HandsTruly
    <2>3. thread'[w].pc # "classifying"
        BY <1>12, HandsOnPlace
    <2> QED
        BY <1>9, <1>12, <2>2, <2>3, ReadyTrust
<1> QED
    BY <1>3, <1>8, <1>10, <1>11, <1>12

LEMMA RebuildSucceedsUpholds ==
    ASSUME Inv, Inv', Custody, Custody', Trust, NEW w \in Workers, RebuildSucceeds(w)
    PROVE  Upholds
<1>1. PICK observed \in Batches, saturated \in BOOLEAN, minted \in BOOLEAN :
        LET s == Rebuilt(w, observed, minted)
            published == PublishReadyWhereNothingIsLeft(
                IF s.pending # "none" THEN PublishPendingReconcile(s) ELSE s, saturated) IN
        /\ Drains(observed, saturated)
        /\ underived' = (observed # "none")
        /\ IF entry.damage THEN HandsOnDamage(w, s)
           ELSE IF s.detach_due THEN HandsOnDueDetach(w, published)
           ELSE IF s.pending # "none" THEN HandsOnTo(w, published, "Reconcile")
           ELSE entry' = published /\ HandsOn(w, NoJob)
    BY DEF RebuildSucceeds
<1> DEFINE s == Rebuilt(w, observed, minted)
           published == PublishReadyWhereNothingIsLeft(
                        IF s.pending # "none" THEN PublishPendingReconcile(s) ELSE s,
                        saturated)
<1>2. /\ At(w, "working") /\ Stands(w) /\ KindOf(w) = "Rebuild" /\ KindOf(w) # "Attach"
      /\ UNCHANGED <<queue, sends>>
    BY DEF RebuildSucceeds, Channel
<1>3. /\ saturated => observed # "none"
      /\ underived' => observed # "none"
      /\ \/ HandsOnDamage(w, s) \/ HandsOnDueDetach(w, published)
         \/ HandsOnTo(w, published, "Reconcile")
         \/ entry' = published /\ HandsOn(w, NoJob)
    BY <1>1 DEF Drains
<1>4. /\ Keeps(entry, s) /\ s \in Entries /\ Parted(w, s) /\ InHandOf(s)
      /\ s.claim.gate = "open" /\ ~s.detach_in_flight
      /\ ~StandsParked(s) /\ ~OwesARung(s) /\ ~s.awaits
      /\ s.trust = entry.trust /\ s.pending = Merged(entry.pending, observed)
    BY <1>2, HealedLeaves
<1>5. AccountedFor(entry.coverage)
    BY <1>2, WorkFinds
<1> HIDE DEF s
<1>6. /\ saturated \/ underived' => s.pending # "none"
      /\ LostGround(entry) => s.pending # "none"
    BY <1>3, <1>4, <1>5, MergedIs DEF LostGround
<1>7. CASE HandsOnDamage(w, s)
    BY <1>2, <1>4, <1>7, LegDamageTrust
<1>8. CASE ~HandsOnDamage(w, s)
    <2>1. PICK trust \in Trusts \ {"Unattached", "Untrusted", "Rebuilding"} :
              /\ published = SetTrust(s, trust)
              /\ trust = "Ready" => s.pending = "none"
        BY <1>4, <1>6, PublishedOver
    <2> HIDE DEF published
    <2>2. /\ GateMeans(published) /\ published.claim = s.claim
          /\ Trusty(published) /\ InHandOf(published) /\ Parted(w, published)
          /\ Suits(published, "Reconcile")
          /\ s.pending # "none" => Minds(published)
          /\ s.pending # "none" /\ trust # "Ready" => LostGround(published)
        BY <1>4, <2>1, HealedOver
    <2>3. HandsTruly(w, published)
        BY <1>3, <1>4, <1>8, <2>2 DEF HandsTruly, HandsOnDueDetach, HandsOver
    <2>4. thread'[w].pc # "classifying"
        BY <1>3, <1>8, HandsOnPlace DEF HandsOnDueDetach, HandsOnTo
    <2> QED
        BY <1>2, <1>6, <2>1, <2>2, <2>3, <2>4, LegTrust
<1> QED
    BY <1>7, <1>8

LEMMA LegWithheldUpholds ==
    ASSUME Inv, Inv', Custody, Custody', Trust, NEW w \in Workers, LegWithheld(w)
    PROVE  Upholds
<1>1. PICK tookInAFact \in BOOLEAN, minted \in BOOLEAN :
        LET observed == IF tookInAFact THEN "facts" ELSE "none"
            done == IF KindOf(w) = "Recover" THEN Recovered(w, observed, minted)
                    ELSE [Rebuilt(w, observed, minted) EXCEPT !.damage = entry.damage] IN
        HandsOnDueDetach(w, WithholdTrust(done, tookInAFact))
    BY DEF LegWithheld
<1> DEFINE observed == IF tookInAFact THEN "facts" ELSE "none"
           healed == IF KindOf(w) = "Recover" THEN Recovered(w, observed, minted)
                     ELSE Rebuilt(w, observed, minted)
           damaged == [healed EXCEPT !.damage = entry.damage]
           done == IF KindOf(w) = "Recover" THEN healed ELSE damaged
           s == WithholdTrust(done, tookInAFact)
<1>2. /\ At(w, "working") /\ Stands(w) /\ KindOf(w) \in {"Recover", "Rebuild"}
      /\ KindOf(w) # "Attach" /\ UNCHANGED <<queue, sends>>
    BY DEF LegWithheld, Channel
<1>3. HandsOnDueDetach(w, s)
    BY <1>1, <1>2
<1>4. observed \in Batches /\ entry.damage \in BOOLEAN
    BY Facts DEF Batches, Entries
<1> HIDE DEF observed
<1>5. /\ Keeps(entry, healed) /\ healed \in Entries /\ Parted(w, healed) /\ InHandOf(healed)
      /\ healed.claim.gate = "open" /\ ~StandsParked(healed) /\ ~OwesARung(healed)
    BY <1>2, <1>4, HealedLeaves
<1> HIDE DEF healed
<1>6. /\ Keeps(entry, damaged) /\ SameCustody(healed, damaged) /\ damaged \in Entries
      /\ ~StandsParked(damaged) /\ ~OwesARung(damaged)
    <2>1. ~StandsParked(damaged) /\ ~OwesARung(damaged)
        BY <1>5 DEF StandsParked, OwesARung, Entries
    <2>2. Keeps(entry, damaged) /\ SameCustody(healed, damaged)
        BY <1>4, <1>5, AlikeKept, FlagsMoved, PublishesAlike
    <2> QED
        BY <2>1, <2>2 DEF Keeps, Sound
<1> HIDE DEF damaged
<1>7. /\ Keeps(entry, done) /\ done \in Entries /\ Parted(w, done) /\ InHandOf(done)
      /\ done.claim.gate = "open" /\ ~StandsParked(done) /\ ~OwesARung(done)
    <2>1. Parted(w, damaged) /\ InHandOf(damaged) /\ damaged.claim = healed.claim
        BY <1>5, <1>6, PartedAlike
    <2> QED
        BY <1>5, <1>6, <2>1
<1> HIDE DEF done
<1>8. /\ Keeps(entry, s) /\ SameCustody(done, s)
      /\ Says(s, done, "Untrusted", "rescan", TRUE, done.rebuild_required, ~tookInAFact)
    BY <1>7, AlikeKept, PublishAlike, PublishesAlike, WithholdSays
<1> HIDE DEF s
<1>9. Parted(w, s) /\ InHandOf(s) /\ s.claim = done.claim
    BY <1>7, <1>8, PartedAlike
<1>10. ~StandsParked(s)
    BY <1>7, <1>8, ParksSame DEF Says
<1>11. Trusty(s) /\ GateMeans(s) /\ Minds(s) /\ LostGround(s)
    BY <1>7, <1>8, <1>10, WithheldTrusty DEF Says, OwesARung
<1>12. HandsTruly(w, s)
    BY <1>3, <1>7, <1>9, <1>11 DEF HandsTruly, HandsOnDueDetach, HandsOver
<1>13. thread'[w].pc # "classifying"
    BY <1>3, HandsOnPlace DEF HandsOnDueDetach
<1> QED
    BY <1>2, <1>9, <1>11, <1>12, <1>13, LegTrust

\* The kinds of leg that find nothing owed leave nothing owed.
LEMMA TurnLeaves ==
    ASSUME Inv, Custody, Trust, NEW w \in Workers, At(w, "working"), Stands(w),
           KindOf(w) \in {"Reconcile", "Maintenance"}, NEW observed \in Batches,
           NEW b, b \in {Park(Merge(Unpinned(w), observed), EpochOf(w)),
                         ReleaseGate(Park(Merge(Unpinned(w), observed), EpochOf(w)))}
    PROVE  /\ Keeps(entry, b) /\ b \in Entries /\ Parted(w, b) /\ InHandOf(b)
           /\ ~StandsParked(b) /\ ~OwesARung(b) /\ ~b.awaits
           /\ b.pending = Merged(entry.pending, observed)
           /\ b.trust \in Trusts \ {"Unattached", "Untrusted", "Rebuilding"}
           /\ b = Park(Merge(Unpinned(w), observed), EpochOf(w)) => b.claim = entry.claim
           /\ b = ReleaseGate(Park(Merge(Unpinned(w), observed), EpochOf(w))) =>
                  b.claim = Release(entry.claim) /\ b.claim.gate = "open"
<1> DEFINE u == Unpinned(w)
           epoch == EpochOf(w)
           a == Merge(u, observed)
           p == Park(a, epoch)
           c == ReleaseGate(p)
<1>1. KindOf(w) # "Attach" /\ w \in Threads
    BY Facts
<1>2. Keeps(entry, u) /\ epoch \in 0..entry.claim.epoch /\ u \in Entries
      /\ u.claim = entry.claim
    BY <1>1, UnpinnedIs, ThreadFacts
<1>3. u.trust = entry.trust /\ u.pending = entry.pending
      /\ u.recovery_required = entry.recovery_required /\ u.awaits = entry.awaits
      /\ u.rebuild_required = entry.rebuild_required /\ (StandsParked(u) <=> StandsParked(entry))
    BY UnpinnedSays DEF Says
<1>4. /\ ~StandsParked(entry) /\ Trusty(entry) /\ ~OwesARung(entry)
      /\ entry.trust \notin {"Unattached", "Untrusted", "Rebuilding"}
    BY <1>1, WorkFinds
<1>5. ~entry.awaits /\ entry.trust \in Trusts
    BY <1>4, Facts DEF Trusty, RungsMean, OwesARung, Entries
<1> HIDE DEF u, epoch
<1>6. Keeps(entry, a)
    BY <1>2, AlikeKept, FactsAlike
<1>7. /\ Parks(u, c) /\ c.claim = Release(u.claim) /\ Parks(u, p)
      /\ Says(c, u, u.trust, Merged(u.pending, observed), u.recovery_required,
              u.rebuild_required, StillAwaits(u, observed))
      /\ Says(p, u, u.trust, Merged(u.pending, observed), u.recovery_required,
              u.rebuild_required, StillAwaits(u, observed))
    BY <1>2, WorkedParks, WorkedSays
<1>8. p.claim = u.claim
    BY <1>2 DEF Park, Merge, Entries
<1> HIDE DEF a
<1>9. Keeps(entry, p)
    BY <1>2, <1>6, Facts, ParkKeeps, SoundSteps DEF Keeps, SlotKept
<1> HIDE DEF p
<1>10. Keeps(entry, c)
    BY <1>9, Facts, GateKeeps, SoundSteps DEF Keeps
<1>11. b = p \/ b = c
    BY DEF p, a, u, epoch
<1> HIDE DEF c
<1>12. /\ Keeps(entry, b) /\ Parks(u, b)
       /\ Says(b, u, u.trust, Merged(u.pending, observed), u.recovery_required,
               u.rebuild_required, StillAwaits(u, observed))
    BY <1>7, <1>9, <1>10, <1>11
<1>13. Parted(w, b) /\ InHandOf(b) /\ (b.claim = Release(entry.claim) => b.claim.gate = "open")
    BY <1>1, <1>12, WorkedParted DEF u
<1>14. ~StandsParked(b)
    BY <1>3, <1>4, <1>12, ParksSame DEF Says
<1>15. ~StillAwaits(u, observed)
    BY <1>3, <1>5 DEF StillAwaits
<1>16. /\ ~OwesARung(b) /\ ~b.awaits /\ b.pending = Merged(entry.pending, observed)
       /\ b.trust = entry.trust
    BY <1>3, <1>4, <1>12, <1>15 DEF Says, OwesARung
<1>17. (b = p => b.claim = entry.claim) /\ (b = c => b.claim = Release(entry.claim))
    BY <1>2, <1>7, <1>8
<1> QED
    BY <1>4, <1>5, <1>12, <1>13, <1>14, <1>16, <1>17 DEF c, p, a, u, epoch, Keeps, Sound

\* The gate released over such a state.
LEMMA ReleasedOver ==
    ASSUME Inv, NEW w \in Workers, NEW s \in Entries, Parted(w, s), Trusty(s),
           Resting(s)
    PROVE  LET q == ReleaseGate(s)
           IN  /\ Parted(w, q) /\ q.claim.gate = "open"
               /\ Trusty(q) /\ (Minds(q) <=> Minds(s)) /\ (InHandOf(q) <=> InHandOf(s))
               /\ q.rebuild_required = s.rebuild_required /\ q.claim = Release(s.claim)
<1> DEFINE q == ReleaseGate(s)
<1>1. /\ Keeps(entry, s) /\ s.claim.leg = LegOf(w) /\ s.claim.gate \in {"open", "held"}
      /\ s.claim \in Claims /\ s.reader \in BOOLEAN
    BY DEF Parted, Entries
<1>2. /\ q.claim = Release(s.claim) /\ q.coverage = s.coverage /\ q.reader = s.reader
      /\ q.detach_in_flight = s.detach_in_flight /\ q.pinned_leg = s.pinned_leg /\ q.pins = s.pins
      /\ SameHeal(s, q) /\ q.rebuild_required = s.rebuild_required
    BY DEF ReleaseGate, SameHeal, Entries
<1>3. Keeps(entry, q)
    BY <1>1, Facts, GateKeeps, SoundSteps DEF Keeps
<1> HIDE DEF q
<1>4. ClaimIs(Release(s.claim), s.claim.epoch, "open", NoJob, LegOf(w), s.claim.slot)
    BY <1>1, GateFields
<1>5. Parted(w, q) /\ q.claim.gate = "open"
    BY <1>2, <1>3, <1>4 DEF Parted, ClaimIs
<1>6. Trusty(q) /\ (Minds(q) <=> Minds(s)) /\ (InHandOf(q) <=> InHandOf(s))
    BY <1>2, SameHealTrusty
<1> QED
    BY <1>2, <1>5, <1>6 DEF q

\* A reconcile that begins again over what it met meanwhile.
LEMMA BegunAgainTrust ==
    ASSUME Inv, Inv', Custody, Custody', Trust, NEW w \in Workers, At(w, "working"), Stands(w),
           KindOf(w) = "Reconcile", Parted(w, entry'), InHandOf(entry'), entry'.claim = entry.claim,
           Trusty(entry'), GateMeans(entry'), Suits(entry', "Reconcile"),
           Goes(w, "begun", FALSE), UNCHANGED <<queue, sends>>,
           underived' => Minds(entry')
    PROVE  Upholds
<1>1. /\ w \in Threads /\ Engaged(entry, thread[w]) /\ entry.claim.leg = LegOf(w)
      /\ thread[w].followup = NoJob /\ thread[w].next = NoJob /\ entry.claim.gate = "held"
      /\ entry.claim.epoch \in Nat /\ EpochOf(w) = entry.claim.epoch
    BY WorkingIs, Facts DEF Stands, StandsAtEpoch, StandsAt
<1>2. /\ Unmoved(w) /\ SameWork(thread[w], thread'[w])
      /\ thread'[w].pc = "begun" /\ thread'[w].after = "idle"
    BY <1>1, GoesTo
<1>3. /\ thread'[w].next = NoJob /\ thread'[w].followup = NoJob /\ thread'[w].job.kind = "Reconcile"
    BY <1>1, <1>2 DEF SameWork, KindOf
<1>4. LegsHold'
    <2>1. LegOf(w).epoch = entry.claim.epoch
        BY <1>1 DEF LegOf, PollLeg, JobLeg
    <2>2. entry.claim.leg' = LegOf(w) /\ entry.claim.epoch' = entry.claim.epoch
        BY <1>1
    <2> QED
        BY <1>1, <1>2, <2>1, <2>2, LegsStill
<1>5. \A kind : OwnAwaits(entry', thread'[w], kind) => kind = "Reconcile"
    <2>1. entry'.claim.gate = "held" /\ entry'.claim.epoch \in Nat
        BY <1>1
    <2>2. NoJob.epoch = 0 /\ NoJob.kind = "none"
        BY DEF NoJob
    <2>3. \A kind : WorkOf(entry', thread'[w], kind) => kind \in {"Reconcile"} \/
              (Standing(entry', NoJob) /\ kind = "none")
        BY <1>2, <1>3, <2>2 DEF WorkOf
    <2>4. ~Standing(entry', NoJob)
        BY DEF Standing
    <2> QED
        BY <2>1, <2>3, <2>4 DEF OwnAwaits, MarkedFor
<1>6. ~LostNow
    <2>1. WorkOf(entry, thread[w], "Reconcile")
        BY <1>1 DEF At, WorkOf, KindOf, EpochOf
    <2>2. Awaited("Reconcile") /\ "Reconcile" \in Kinds \ Spared
        BY <1>1, <2>1 DEF Awaited, Kinds, JobKinds, Spared
    <2> QED
        BY <2>2 DEF Trust, LostMeans
<1>7. ~LostAt(entry', thread'[w]) /\ AfterLosing(thread'[w], entry.claim.epoch')
    BY <1>2 DEF LostAt, AfterLosing
<1>8. entry.claim.epoch' >= entry.claim.epoch
    BY <1>1
<1>9. Trust'
    BY <1>1, <1>2, <1>4, <1>5, <1>6, <1>7, <1>8, SoloTrust
<1>10. Passes(entry, entry')
    BY <1>1, PartedPasses
<1> QED
    BY <1>9, <1>10 DEF Upholds

LEMMA ReconcileSucceedsUpholds ==
    ASSUME Inv, Inv', Custody, Custody', Trust, NEW w \in Workers, ReconcileSucceeds(w)
    PROVE  Upholds
<1>1. PICK observed \in Batches, saturated \in BOOLEAN, maintenanceDue \in BOOLEAN :
        LET s == Reconciled(w, observed)
            published == PublishReadyWhereNothingIsLeft(s, saturated) IN
        /\ saturated => observed # "none"
        /\ IF observed # "none" \/ maintenanceDue THEN Event ELSE NoEvent
        /\ underived' = (s.pending # "none")
        /\ IF s.damage THEN HandsOnDamage(w, s)
           ELSE IF s.detach_due THEN HandsOnDueDetach(w, ReleaseGate(published))
           ELSE IF maintenanceDue /\ ~OwesARung(s) THEN HandsOnTo(w, published, "Maintenance")
           ELSE IF saturated THEN HandsOnTo(w, s, "Reconcile")
           ELSE IF s.pending = "none"
           THEN /\ entry' = ReleaseGate(IF OwesARung(s) THEN s ELSE SetTrust(s, "Ready"))
                /\ HandsOn(w, NoJob)
           ELSE entry' = s /\ Goes(w, "begun", FALSE)
    BY DEF ReconcileSucceeds
<1> DEFINE b == Park(Merge(Unpinned(w), observed), EpochOf(w))
           s == Reconciled(w, observed)
           published == PublishReadyWhereNothingIsLeft(s, saturated)
           gated == ReleaseGate(published)
           rested == IF OwesARung(s) THEN s ELSE SetTrust(s, "Ready")
           released == ReleaseGate(rested)
<1>2. /\ At(w, "working") /\ Stands(w) /\ KindOf(w) = "Reconcile" /\ KindOf(w) # "Attach"
      /\ UNCHANGED <<queue, sends>> /\ "Reconcile" \notin Spared
    BY DEF ReconcileSucceeds, Channel, Spared
<1>3. s = b \/ s = PublishPendingReconcile(b)
    BY DEF Reconciled
<1>4. /\ underived' => s.pending # "none"
      /\ \/ HandsOnDamage(w, s)
         \/ entry' = ScheduleDueDetach(gated) /\ HandsOn(w, DueDetach(gated))
         \/ HandsOnTo(w, published, "Maintenance") \/ HandsOnTo(w, s, "Reconcile")
         \/ entry' = released /\ HandsOn(w, NoJob)
         \/ entry' = s /\ Goes(w, "begun", FALSE)
    BY <1>1 DEF HandsOnDueDetach
<1>5. /\ Keeps(entry, b) /\ b \in Entries /\ Parted(w, b) /\ InHandOf(b)
      /\ ~StandsParked(b) /\ ~OwesARung(b) /\ ~b.awaits
      /\ b.trust \in Trusts \ {"Unattached", "Untrusted", "Rebuilding"}
      /\ b.claim = entry.claim
    BY <1>2, TurnLeaves
<1> HIDE DEF b, s
<1>6. PICK trust \in Trusts \ {"Unattached", "Untrusted", "Rebuilding"} : s = SetTrust(b, trust)
    <2>1. b = SetTrust(b, b.trust)
        BY <1>5 DEF SetTrust, Entries
    <2>2. PICK trust \in {"Overflow", "Healing"} :
              PublishPendingReconcile(b) = SetTrust(b, trust) /\ trust \in Trusts
        BY <1>5, PublishedIs
    <2> QED
        BY <1>3, <1>5, <2>1, <2>2
<1>7. ASSUME NEW q, NEW kept \in Trusts \ {"Unattached", "Untrusted", "Rebuilding"},
             q = SetTrust(b, kept)
      PROVE  /\ Trusty(q) /\ GateMeans(q) /\ q.claim = entry.claim /\ q \in Entries
             /\ Suits(q, "Reconcile") /\ Suits(q, "Maintenance") /\ InHandOf(q)
             /\ Parted(w, q) /\ (b.pending # "none" => Minds(q)) /\ q.pending = b.pending
             /\ Resting(q)
    <2>1. /\ Trusty(q) /\ GateMeans(q) /\ q.claim = b.claim
          /\ Suits(q, "Reconcile") /\ Suits(q, "Maintenance") /\ InHandOf(q)
          /\ Parted(w, q) /\ (b.pending # "none" => Minds(q)) /\ q.pending = b.pending
        BY <1>5, <1>7, HealedOver
    <2> QED
        BY <1>5, <2>1 DEF Parted, Keeps, Sound, Resting, OutWithLeg, InHandOf, InHand
<1>8. s.pending = b.pending /\ Parted(w, s) /\ InHandOf(s) /\ ~StandsParked(s)
      /\ SetTrust(s, "Ready") = SetTrust(b, "Ready")
    <2>1. s.pending = b.pending /\ Parted(w, s) /\ InHandOf(s)
        BY <1>6, <1>7
    <2>2. ~StandsParked(s)
        BY <1>5, <1>6, TrustSet DEF StandsParked
    <2>3. SetTrust(s, "Ready") = SetTrust(b, "Ready")
        BY <1>5, <1>6 DEF SetTrust, Entries
    <2> QED
        BY <2>1, <2>2, <2>3
<1>9. CASE HandsOnDamage(w, s)
    BY <1>2, <1>8, <1>9, LegDamageTrust
<1>10. /\ \E kept \in Trusts \ {"Unattached", "Untrusted", "Rebuilding"} : published = SetTrust(b, kept)
       /\ \E kept \in Trusts \ {"Unattached", "Untrusted", "Rebuilding"} : rested = SetTrust(b, kept)
    <2>1. published = s \/ published = SetTrust(s, "Ready")
        BY DEF PublishReadyWhereNothingIsLeft
    <2>2. rested = s \/ rested = SetTrust(s, "Ready")
        OBVIOUS
    <2> HIDE DEF published, rested
    <2> QED
        BY <1>6, <1>8, <2>1, <2>2, ReadyTrust
<1> HIDE DEF published, rested
<1>11. ASSUME NEW q, NEW p, p = ReleaseGate(q), Trusty(q), GateMeans(q), q \in Entries, Parted(w, q),
              b.pending # "none" => Minds(q), InHandOf(q), Resting(q), Suits(q, "Reconcile"),
              \/ entry' = ScheduleDueDetach(p) /\ HandsOn(w, DueDetach(p))
              \/ entry' = p /\ HandsOn(w, NoJob)
       PROVE  Upholds
    <2>1. /\ Parted(w, p) /\ p.claim.gate = "open"
          /\ Trusty(p) /\ (Minds(p) <=> Minds(q)) /\ InHandOf(p)
          /\ p.rebuild_required = q.rebuild_required
        BY <1>11, ReleasedOver
    <2>2. GateMeans(p)
        BY <1>11, <2>1 DEF Suits, OwesARung, GateMeans
    <2>3. HandsTruly(w, p)
        BY <1>11, <2>1, <2>2 DEF HandsTruly, HandsOver
    <2>4. thread'[w].pc # "classifying"
        BY <1>11, HandsOnPlace
    <2>5. underived' => Minds(p)
        BY <1>4, <1>8, <1>11, <2>1
    <2> QED
        BY <1>2, <2>1, <2>3, <2>4, <2>5, LegTrust
<1>12. CASE entry' = ScheduleDueDetach(gated) /\ HandsOn(w, DueDetach(gated))
    BY <1>7, <1>10, <1>11, <1>12
<1>13. CASE entry' = released /\ HandsOn(w, NoJob)
    BY <1>7, <1>10, <1>11, <1>13
<1>14. ASSUME NEW q, Trusty(q), Parted(w, q), b.pending # "none" => Minds(q), InHandOf(q),
              NEW kind \in {"Reconcile", "Maintenance"}, Suits(q, kind), HandsOnTo(w, q, kind)
       PROVE  Upholds
    <2>1. HandsTruly(w, q)
        BY <1>14 DEF HandsTruly
    <2>2. thread'[w].pc # "classifying"
        BY <1>14, HandsOnPlace DEF HandsOnTo
    <2>3. underived' => Minds(q)
        BY <1>4, <1>8, <1>14
    <2> QED
        BY <1>2, <1>14, <2>1, <2>2, <2>3, LegTrust
<1>15. CASE HandsOnTo(w, published, "Maintenance")
    BY <1>7, <1>10, <1>14, <1>15
<1>16. CASE HandsOnTo(w, s, "Reconcile")
    BY <1>6, <1>7, <1>14, <1>16
<1>17. CASE entry' = s /\ Goes(w, "begun", FALSE)
    <2>1. /\ Trusty(s) /\ GateMeans(s) /\ s.claim = entry.claim /\ Suits(s, "Reconcile")
          /\ InHandOf(s) /\ Parted(w, s) /\ (underived' => Minds(s))
        BY <1>4, <1>6, <1>7, <1>8
    <2> QED
        BY <1>2, <1>17, <2>1, BegunAgainTrust
<1> QED
    BY <1>4, <1>9, <1>12, <1>13, <1>15, <1>16, <1>17

LEMMA MaintenanceSucceedsUpholds ==
    ASSUME Inv, Inv', Custody, Custody', Trust, NEW w \in Workers, MaintenanceSucceeds(w)
    PROVE  Upholds
<1>1. PICK observed \in Batches, saturated \in BOOLEAN, stillDue \in BOOLEAN :
        LET s == PublishReadyWhereNothingIsLeft(
                     ReleaseGate(Park(Merge(Unpinned(w), observed), EpochOf(w))), saturated) IN
        /\ saturated => observed # "none"
        /\ IF observed # "none" \/ stillDue THEN Event ELSE NoEvent
        /\ underived' = (underived \/ observed # "none")
        /\ IF s.damage THEN HandsOnDamage(w, s)
           ELSE IF s.detach_due THEN HandsOnDueDetach(w, s)
           ELSE IF s.pending # "none" THEN HandsOnTo(w, PublishPendingReconcile(s), "Reconcile")
           ELSE IF stillDue /\ ~OwesARung(s)
           THEN /\ entry' = ScheduleJob(s, "Maintenance")
                /\ HandsOn(w, HandedOn(s.claim, "Maintenance"))
           ELSE entry' = s /\ HandsOn(w, NoJob)
    BY DEF MaintenanceSucceeds
<1> DEFINE b == ReleaseGate(Park(Merge(Unpinned(w), observed), EpochOf(w)))
           s == PublishReadyWhereNothingIsLeft(b, saturated)
           p == PublishPendingReconcile(s)
<1>2. /\ At(w, "working") /\ Stands(w) /\ KindOf(w) = "Maintenance" /\ KindOf(w) # "Attach"
      /\ UNCHANGED <<queue, sends>> /\ "Maintenance" \notin Spared
    BY DEF MaintenanceSucceeds, Channel, Spared
<1>3. /\ underived' => underived \/ observed # "none"
      /\ \/ HandsOnDamage(w, s) \/ HandsOnDueDetach(w, s)
         \/ HandsOnTo(w, p, "Reconcile")
         \/ entry' = ScheduleJob(s, "Maintenance") /\ HandsOn(w, HandedOn(s.claim, "Maintenance"))
         \/ entry' = s /\ HandsOn(w, NoJob)
    BY <1>1
<1>4. /\ Keeps(entry, b) /\ b \in Entries /\ Parted(w, b) /\ InHandOf(b)
      /\ ~StandsParked(b) /\ ~OwesARung(b) /\ ~b.awaits
      /\ b.trust \in Trusts \ {"Unattached", "Untrusted", "Rebuilding"}
      /\ b.pending = Merged(entry.pending, observed)
    BY <1>2, TurnLeaves
<1>5. b.claim.gate = "open"
    BY <1>2, TurnLeaves
<1>6. underived => entry.pending # "none" \/ entry.rebuild_required
    BY <1>2, WorkFinds
<1>7. ~entry.rebuild_required
    BY <1>2, WorkFinds
<1>8. underived' => b.pending # "none"
    BY <1>3, <1>4, <1>6, <1>7, MergedIs
<1> HIDE DEF b
<1>9. ASSUME NEW q, NEW kept \in Trusts \ {"Unattached", "Untrusted", "Rebuilding"},
             q = SetTrust(b, kept)
      PROVE  /\ Trusty(q) /\ GateMeans(q) /\ q.claim.gate = "open" /\ q \in Entries
             /\ Suits(q, "Reconcile") /\ Suits(q, "Maintenance") /\ InHandOf(q)
             /\ Parted(w, q) /\ (underived' => Minds(q)) /\ ~StandsParked(q)
    <2>1. /\ Trusty(q) /\ GateMeans(q) /\ q.claim = b.claim
          /\ Suits(q, "Reconcile") /\ Suits(q, "Maintenance") /\ InHandOf(q)
          /\ Parted(w, q) /\ (b.pending # "none" => Minds(q))
        BY <1>4, <1>9, HealedOver
    <2>2. ~StandsParked(q)
        BY <1>4, <1>9, TrustSet DEF StandsParked
    <2> QED
        BY <1>5, <1>8, <2>1, <2>2 DEF Parted, Keeps, Sound
<1>10. \E kept \in Trusts \ {"Unattached", "Untrusted", "Rebuilding"} : s = SetTrust(b, kept)
    <2>1. b = SetTrust(b, b.trust)
        BY <1>4 DEF SetTrust, Entries
    <2> QED
        BY <1>4, <2>1, ReadyTrust DEF PublishReadyWhereNothingIsLeft
<1> HIDE DEF s
<1>11. \E kept \in Trusts \ {"Unattached", "Untrusted", "Rebuilding"} : p = SetTrust(b, kept)
    <2>1. PICK trust \in {"Overflow", "Healing"} : p = SetTrust(s, trust) /\ trust \in Trusts
        BY <1>9, <1>10, PublishedIs
    <2>2. SetTrust(s, trust) = SetTrust(b, trust)
        BY <1>4, <1>10 DEF SetTrust, Entries
    <2> QED
        BY <2>1, <2>2
<1> HIDE DEF p
<1>12. CASE HandsOnDamage(w, s)
    BY <1>2, <1>9, <1>10, <1>12, LegDamageTrust
<1>13. CASE HandsOnTo(w, p, "Reconcile")
    <2>1. HandsTruly(w, p)
        BY <1>9, <1>11, <1>13 DEF HandsTruly
    <2>2. thread'[w].pc # "classifying"
        BY <1>13, HandsOnPlace DEF HandsOnTo
    <2> QED
        BY <1>2, <1>9, <1>11, <2>1, <2>2, LegTrust
<1>14. CASE ~HandsOnDamage(w, s) /\ ~HandsOnTo(w, p, "Reconcile")
    <2>1. HandsTruly(w, s)
        BY <1>3, <1>9, <1>10, <1>14 DEF HandsTruly, HandsOnDueDetach, HandsOver
    <2>2. thread'[w].pc # "classifying"
        BY <1>3, <1>14, HandsOnPlace DEF HandsOnDueDetach
    <2> QED
        BY <1>2, <1>9, <1>10, <2>1, <2>2, LegTrust
<1> QED
    BY <1>12, <1>13, <1>14

----------------------------------------------------------------------------
(* Refusals, which move the entry on                                       *)

\* What the thread carries is of epochs before that one.
Past(r, epoch) ==
    /\ r.job.epoch # epoch /\ r.next.epoch # epoch /\ r.followup.epoch # epoch
    /\ r.lost # epoch /\ r.lost < epoch

LEMMA PastIs ==
    ASSUME Inv, NEW t \in Threads, NEW r, r.job \in {thread[t].job, NoJob},
           r.next \in {thread[t].next, NoJob}, r.followup \in {thread[t].followup, NoJob},
           r.lost \in {thread[t].lost, 0}, NEW epoch \in Nat, epoch > entry.claim.epoch
    PROVE  Past(r, epoch)
<1>1. /\ thread[t].job.epoch \in Nat /\ thread[t].job.epoch <= entry.claim.epoch
      /\ thread[t].next.epoch \in Nat /\ thread[t].next.epoch <= entry.claim.epoch
      /\ thread[t].followup.epoch \in Nat /\ thread[t].followup.epoch <= entry.claim.epoch
      /\ entry.claim.epoch \in Nat
    BY ThreadNums
<1>2. thread[t].lost \in Nat /\ thread[t].lost <= entry.claim.epoch
    BY <1>1, ThreadFacts
<1>3. NoJob.epoch = 0
    BY DEF NoJob
<1>4. \A n \in Nat : n <= entry.claim.epoch => n # epoch /\ n < epoch
    BY <1>1
<1>5. 0 \in Nat /\ 0 <= entry.claim.epoch
    BY <1>1
<1> QED
    BY <1>1, <1>2, <1>3, <1>4, <1>5 DEF Past

LEMMA MovedOnUpholds ==
    ASSUME Inv, Inv', Custody, Trust, NEW t \in Threads, Unmoved(t), UNCHANGED <<queue, sends>>,
           entry.claim.epoch' > entry.claim.epoch, entry.claim.gate' # "scheduled",
           Past(thread'[t], entry.claim.epoch'),
           Trusty(entry'), ~InHandOf(entry'), Passes(entry, entry'),
           underived' /\ AccountedFor(entry'.coverage) => Minds(entry')
    PROVE  Upholds
<1>1. entry.claim.epoch \in Nat /\ entry.claim.epoch' \in Nat
    BY Facts, SoundEpoch DEF Inv
<1>2. \A kind : ~OwnAwaits(entry', thread'[t], kind)
    BY DEF OwnAwaits, MarkedFor, WorkOf, Standing, Past
<1>3. LegsHold' /\ GateMeans(entry')
    BY DEF LegsHold, GateMeans
<1>4. ~LostAt(entry', thread'[t]) /\ AfterLosing(thread'[t], entry.claim.epoch')
    BY DEF LostAt, Past, AfterLosing
<1>5. entry.claim.epoch' >= entry.claim.epoch /\ entry.claim.epoch' # entry.claim.epoch
    BY <1>1
<1>6. Trust'
    BY <1>2, <1>3, <1>4, <1>5, SoloTrust
<1> QED
    BY <1>6 DEF Upholds

\* A thread that meets a refusal takes on no work.
LEMMA MeetsPast ==
    ASSUME Inv, NEW t \in Threads, NEW pc, NEW after, NEW held, NEW epoch, NEW rel,
           \/ thread' = [thread EXCEPT ![t] =
                  [@ EXCEPT !.pc = pc, !.held = held, !.rel = rel, !.after = after]]
           \/ Goes(t, after, held),
           epoch \in Nat, epoch > entry.claim.epoch
    PROVE  Unmoved(t) /\ Past(thread'[t], epoch)
<1> DEFINE r == thread[t]
           q == thread'[t]
<1>1. r \in ThreadStates /\ thread \in [Threads -> ThreadStates]
    BY DEF Inv, ThreadInv
<1>2. CASE thread' = [thread EXCEPT ![t] =
               [@ EXCEPT !.pc = pc, !.held = held, !.rel = rel, !.after = after]]
    <2>1. Unmoved(t) /\ q = [r EXCEPT !.pc = pc, !.held = held, !.rel = rel, !.after = after]
        BY <1>1, <1>2 DEF Unmoved
    <2> HIDE DEF q, r
    <2>2. q.job = r.job /\ q.next = r.next /\ q.followup = r.followup /\ q.lost = r.lost
        BY <1>1, <2>1 DEF ThreadStates
    <2>3. Past(q, epoch)
        BY <2>2, PastIs DEF r
    <2> QED
        BY <2>1, <2>3 DEF q
<1>3. CASE Goes(t, after, held)
    <2>1. Unmoved(t) /\ q = Moved(r, after, held)
        BY <1>1, <1>3 DEF Unmoved, Goes
    <2>2. CASE after = "idle"
        <3>0. q = Idle
            BY <2>1, <2>2 DEF Moved
        <3> HIDE DEF q, r
        <3>1. q = Idle /\ Idle.lost = 0
            BY <3>0 DEF Idle
        <3>2. q.job = NoJob /\ q.next = NoJob /\ q.followup = NoJob /\ q.lost = 0
            BY <3>1, IdleIs
        <3>3. Past(q, epoch)
            BY <3>2, PastIs DEF r
        <3> QED
            BY <2>1, <3>3 DEF q
    <2>3. CASE after # "idle"
        <3>1. q = [r EXCEPT !.pc = after, !.held = held, !.after = "idle"]
            BY <2>1, <2>3 DEF Moved
        <3> HIDE DEF q, r
        <3>2. q.job = r.job /\ q.next = r.next /\ q.followup = r.followup /\ q.lost = r.lost
            BY <1>1, <3>1 DEF ThreadStates
        <3> QED
            BY <2>1, <3>2, PastIs DEF q, r
    <2> QED
        BY <2>2, <2>3
<1> QED
    BY <1>2, <1>3

\* The opening of a window.
LEMMA ReleaseTrusty ==
    ASSUME NEW s \in Entries, ~InHandOf(s), RungsMean(s)
    PROVE  LET e == BeginRelease(s)
           IN  /\ Trusty(e) /\ Minds(e) /\ ~InHandOf(e) /\ e.detach_in_flight
               /\ e.claim.epoch = s.claim.epoch /\ e.claim.gate = "open"
               /\ e.coverage = s.coverage /\ e.pending = s.pending /\ e.trust = "Releasing"
<1> DEFINE e == BeginRelease(s)
<1>1. /\ e.pending = s.pending /\ e.awaits = s.awaits
      /\ e.recovery_required = s.recovery_required /\ e.rebuild_required = s.rebuild_required
    BY DEF BeginRelease, SetTrust, CloseReader, OpenClaim, Entries
<1>2. /\ e.claim.epoch = s.claim.epoch /\ e.claim.gate = "open"
      /\ e.detach_in_flight /\ e.coverage = s.coverage /\ e.trust = "Releasing"
    BY BeginReleaseFields DEF ClaimIs
<1> HIDE DEF e
<1>3. ~InHandOf(e) /\ ~Kept(e)
    BY <1>2 DEF InHandOf, Kept
<1>4. ReadyMeans(e) /\ KeptMeans(e)
    BY <1>2, <1>3 DEF ReadyMeans, KeptMeans
<1>5. RungsMean(e)
    BY <1>1, <1>2 DEF RungsMean
<1>6. Trusty(e) /\ Minds(e)
    BY <1>2, <1>4, <1>5 DEF Trusty, Minds
<1> QED
    BY <1>1, <1>2, <1>3, <1>6 DEF e

LEMMA ConflictHeals ==
    ASSUME NEW s \in Entries
    PROVE  LET conflict == [ClearRungs(ClearPending(InvalidateClaim(s))) EXCEPT
                                !.identity = FALSE, !.duplicate = TRUE]
           IN  /\ ~conflict.recovery_required /\ ~conflict.rebuild_required /\ ~conflict.awaits
               /\ conflict.trust = s.trust
<1> DEFINE u == InvalidateClaim(s)
           cleared == ClearPending(u)
           healed == ClearRungs(cleared)
           conflict == [healed EXCEPT !.identity = FALSE, !.duplicate = TRUE]
<1>1. Invalidate(s.claim) \in Claims
    BY EntryTyped, InvalidateFields
<1>2. u \in Entries /\ u.trust = s.trust
    BY <1>1 DEF InvalidateClaim, Entries
<1> HIDE DEF u
<1>3. cleared \in Entries /\ cleared.trust = s.trust
    BY <1>2 DEF ClearPending, Entries, Batches
<1> HIDE DEF cleared
<1>4. /\ healed \in Entries /\ healed.trust = s.trust
      /\ healed.recovery_required = FALSE /\ healed.rebuild_required = FALSE
      /\ healed.awaits = FALSE
    BY <1>3 DEF ClearRungs, ClearRebuild, ClearRecovery, RetireRecoveryDemands, Entries
<1> HIDE DEF healed
<1>5. /\ conflict.recovery_required = FALSE /\ conflict.rebuild_required = FALSE
      /\ conflict.awaits = FALSE /\ conflict.trust = s.trust
    BY <1>4 DEF Entries
<1> QED
    BY <1>5 DEF u, cleared, healed

\* A conflict leaves no rung owed, and nothing in hand.
LEMMA ConflictTrust ==
    ASSUME NEW s \in Entries, Trusty(s), s.detach_in_flight => ~InHandOf(s)
    PROVE  LET p == RefuseConflict(s)
           IN  /\ Trusty(p) /\ ~InHandOf(p) /\ Passes(s, p)
               /\ p.claim.epoch = s.claim.epoch + 1 /\ p.claim.gate # "scheduled"
               /\ AccountedFor(p.coverage) => Minds(p)
<1> DEFINE p == RefuseConflict(s)
           conflict == [ClearRungs(ClearPending(InvalidateClaim(s))) EXCEPT
                            !.identity = FALSE, !.duplicate = TRUE]
           opened == OpenClaim(conflict)
           taken == [opened EXCEPT !.coverage = TakeCoverage(@, opened.claim.epoch),
                                   !.claim = EndRunningLeg(@)]
<1>1. /\ conflict \in Entries /\ conflict.claim = Invalidate(s.claim)
      /\ conflict.coverage = s.coverage /\ conflict.detach_in_flight = s.detach_in_flight
    BY RefusedFields
<1>2. /\ ~conflict.recovery_required /\ ~conflict.rebuild_required /\ ~conflict.awaits
      /\ conflict.trust = s.trust
    BY ConflictHeals
<1>3. /\ conflict.claim \in Claims /\ conflict.claim.epoch = s.claim.epoch + 1
      /\ conflict.claim.gate # "scheduled"
    BY <1>1, EntryTyped, InvalidateFields
<1>4. p = IF s.detach_in_flight THEN conflict
          ELSE IF InHandOf(s) THEN BeginRelease(taken)
          ELSE IF OutWithLeg(s.coverage) \/ Running(s.claim) THEN BeginRelease(opened)
          ELSE SetTrust(opened, "Unattached")
    BY DEF RefuseConflict
<1> HIDE DEF conflict, p
<1>5. RungsMean(conflict)
    BY <1>2 DEF RungsMean
<1>6. /\ opened \in Entries /\ opened.claim.epoch = s.claim.epoch + 1
      /\ opened.claim.gate = "open" /\ opened.claim \in Claims
      /\ opened.coverage = s.coverage /\ opened.detach_in_flight = s.detach_in_flight
      /\ ~opened.recovery_required /\ ~opened.rebuild_required /\ ~opened.awaits
    <2>1. ClaimIs(OpenGate(conflict.claim), conflict.claim.epoch, "open", NoJob,
                  conflict.claim.leg, conflict.claim.slot)
        BY <1>3, GateFields
    <2>2. OpenGate(conflict.claim) \in Claims
        BY <1>3 DEF OpenGate, SetGate, Claims
    <2> QED
        BY <1>1, <1>2, <1>3, <2>1, <2>2 DEF OpenClaim, Entries, ClaimIs
<1> HIDE DEF opened
<1>7. RungsMean(opened)
    BY <1>6 DEF RungsMean
<1>8. CASE s.detach_in_flight
    <2>1. p = conflict /\ ~InHandOf(p) /\ p.detach_in_flight
        BY <1>1, <1>4, <1>8 DEF InHandOf
    <2>2. ReadyMeans(p)
        BY <1>2, <1>8, <2>1 DEF Trusty, ReadyMeans
    <2>3. KeptMeans(p)
        BY <2>1 DEF KeptMeans, Kept
    <2>4. Passes(s, p) /\ Minds(p)
        BY <2>1 DEF Passes, Minds
    <2> QED
        BY <1>3, <1>5, <2>1, <2>2, <2>3, <2>4 DEF Trusty, p
<1>9. CASE ~s.detach_in_flight /\ InHandOf(s)
    <2>1. /\ taken \in Entries /\ taken.coverage = TakeCoverage(s.coverage, opened.claim.epoch)
          /\ taken.claim = EndRunningLeg(opened.claim)
          /\ ~taken.recovery_required /\ ~taken.rebuild_required /\ ~taken.awaits
        <3>1. EndRunningLeg(opened.claim) \in Claims
            BY <1>6 DEF EndRunningLeg, Claims
        <3>2. TakeCoverage(s.coverage, opened.claim.epoch) \in Coverages
            BY <1>6 DEF TakeCoverage, OnLeg, Coverages, Entries, Claims
        <3> QED
            BY <1>6, <3>1, <3>2 DEF Entries
    <2>2. ~InHandOf(taken) /\ RungsMean(taken)
        BY <1>9, <2>1 DEF InHandOf, TakeCoverage, OnLeg, InHand, RungsMean
    <2>3. taken.claim.epoch = s.claim.epoch + 1
        BY <1>6, <2>1, GateFields DEF ClaimIs
    <2>4. p = BeginRelease(taken)
        BY <1>4, <1>9
    <2> HIDE DEF taken
    <2>5. Trusty(p) /\ Minds(p) /\ ~InHandOf(p) /\ p.detach_in_flight
          /\ p.claim.epoch = s.claim.epoch + 1 /\ p.claim.gate = "open"
        BY <2>1, <2>2, <2>3, <2>4, ReleaseTrusty
    <2>6. Passes(s, p)
        BY <2>5 DEF Passes
    <2> QED
        BY <2>5, <2>6 DEF p
<1>10. CASE ~s.detach_in_flight /\ ~InHandOf(s) /\ (OutWithLeg(s.coverage) \/ Running(s.claim))
    <2>1. p = BeginRelease(opened) /\ ~InHandOf(opened)
        BY <1>4, <1>6, <1>10 DEF InHandOf
    <2>2. Trusty(p) /\ Minds(p) /\ ~InHandOf(p) /\ p.detach_in_flight
          /\ p.claim.epoch = s.claim.epoch + 1 /\ p.claim.gate = "open"
        BY <1>6, <1>7, <2>1, ReleaseTrusty
    <2>3. Passes(s, p)
        BY <2>2 DEF Passes
    <2> QED
        BY <2>2, <2>3 DEF p
<1>11. CASE ~s.detach_in_flight /\ ~InHandOf(s) /\ ~OutWithLeg(s.coverage) /\ ~Running(s.claim)
    <2>1. p = SetTrust(opened, "Unattached") /\ "Unattached" \in Trusts
        BY <1>4, <1>11 DEF Trusts
    <2>2. /\ p.trust = "Unattached" /\ p.claim = opened.claim /\ p.coverage = s.coverage
          /\ p.detach_in_flight = s.detach_in_flight
          /\ ~p.recovery_required /\ ~p.rebuild_required /\ ~p.awaits
        BY <1>6, <2>1, TrustSet
    <2>3. ~AccountedFor(s.coverage)
        BY <1>11 DEF AccountedFor, InHandOf, InHand, OutWithLeg, Entries, Coverages
    <2>4. ~InHandOf(p) /\ ~Kept(p)
        BY <2>2, <2>3 DEF InHandOf, InHand, Kept, OnLeg, AccountedFor
    <2>5. Trusty(p) /\ Passes(s, p)
        BY <1>11, <2>2, <2>3, <2>4 DEF Trusty, ReadyMeans, KeptMeans, RungsMean, Passes, Covered
    <2> QED
        BY <1>6, <2>2, <2>3, <2>4, <2>5 DEF p
<1> QED
    BY <1>8, <1>9, <1>10, <1>11

\* Coverage given back leaves the entry with nothing in hand, an epoch on.
LEMMA GiveBackTrust ==
    ASSUME NEW s \in Entries, s.coverage.leg \in 0..s.claim.epoch, s.trust # "Ready",
           AccountedFor(s.coverage) => s.pending # "none", s.awaits => s.recovery_required
    PROVE  LET p == GiveBackCoverage(s)
           IN  /\ Trusty(p) /\ ~InHandOf(p)
               /\ p.claim.epoch = s.claim.epoch + 1 /\ p.claim.gate # "scheduled"
               /\ AccountedFor(p.coverage) <=> AccountedFor(s.coverage)
               /\ s.detach_in_flight => p.detach_in_flight
               /\ p.pending = s.pending
<1> DEFINE p == GiveBackCoverage(s)
           u == InvalidateClaim(s)
           cleared == ClearRebuild(u)
           refused == CloseReader(cleared)
           opened == OpenClaim(refused)
<1>1. /\ refused \in Entries /\ refused.claim = Invalidate(s.claim)
      /\ refused.coverage = s.coverage /\ refused.detach_in_flight = s.detach_in_flight
    BY RefusedFields
<1>2. /\ refused.claim \in Claims /\ refused.claim.epoch = s.claim.epoch + 1
      /\ refused.claim.gate # "scheduled" /\ s.claim.epoch \in Nat
    BY <1>1, EntryTyped, InvalidateFields DEF Claims
<1>3. /\ refused.trust = s.trust /\ refused.pending = s.pending
      /\ refused.recovery_required = s.recovery_required /\ refused.rebuild_required = FALSE
      /\ refused.awaits = s.awaits
    <2>1. u \in Entries /\ Invalidate(s.claim) \in Claims
        BY EntryTyped, InvalidateFields DEF InvalidateClaim, Entries
    <2>2. /\ u.trust = s.trust /\ u.pending = s.pending
          /\ u.recovery_required = s.recovery_required /\ u.awaits = s.awaits
        BY DEF InvalidateClaim, Entries
    <2> HIDE DEF u
    <2>3. /\ cleared \in Entries /\ cleared.trust = u.trust /\ cleared.pending = u.pending
          /\ cleared.recovery_required = u.recovery_required /\ cleared.rebuild_required = FALSE
          /\ cleared.awaits = u.awaits
        BY <2>1 DEF ClearRebuild, Entries
    <2> HIDE DEF cleared
    <2> QED
        BY <2>2, <2>3 DEF CloseReader, Entries
<1>4. p = IF InHandOf(s)
          THEN [opened EXCEPT !.coverage = TakeCoverage(@, refused.claim.epoch),
                              !.claim = EndRunningLeg(@), !.detach_in_flight = TRUE]
          ELSE IF ~Running(s.claim) /\ ~s.detach_in_flight THEN opened ELSE refused
    BY DEF GiveBackCoverage
<1> HIDE DEF refused, p
<1>5. /\ opened \in Entries /\ opened.claim \in Claims
      /\ opened.claim.epoch = s.claim.epoch + 1 /\ opened.claim.gate = "open"
      /\ opened.coverage = s.coverage /\ opened.detach_in_flight = s.detach_in_flight
      /\ opened.trust = s.trust /\ opened.pending = s.pending
      /\ opened.recovery_required = s.recovery_required /\ opened.rebuild_required = FALSE
      /\ opened.awaits = s.awaits
    <2>1. ClaimIs(OpenGate(refused.claim), refused.claim.epoch, "open", NoJob,
                  refused.claim.leg, refused.claim.slot)
        BY <1>2, GateFields
    <2>2. OpenGate(refused.claim) \in Claims
        BY <1>2 DEF OpenGate, SetGate, Claims
    <2> QED
        BY <1>1, <1>2, <1>3, <2>1, <2>2 DEF OpenClaim, Entries, ClaimIs
<1> HIDE DEF opened
<1>6. /\ p.claim.epoch = s.claim.epoch + 1 /\ p.claim.gate # "scheduled"
      /\ p.trust = s.trust /\ p.pending = s.pending
      /\ p.recovery_required = s.recovery_required /\ p.rebuild_required = FALSE
      /\ p.awaits = s.awaits
      /\ InHandOf(s) => p.detach_in_flight
      /\ ~InHandOf(s) => p.detach_in_flight = s.detach_in_flight
      /\ p.coverage = TakeCoverage(s.coverage, s.claim.epoch + 1)
    <2>1. CASE InHandOf(s)
        <3>1. ClaimIs(EndRunningLeg(opened.claim), opened.claim.epoch, opened.claim.gate,
                      opened.claim.marker, NoLeg, opened.claim.slot)
            BY <1>5, GateFields
        <3> QED
            BY <1>2, <1>4, <1>5, <2>1, <3>1 DEF Entries, ClaimIs
    <2>2. CASE ~InHandOf(s)
        <3>1. p \in {opened, refused} /\ TakeCoverage(s.coverage, s.claim.epoch + 1) = s.coverage
            BY <1>4, <2>2 DEF TakeCoverage, InHandOf
        <3>2. CASE p = opened
            BY <1>5, <2>2, <3>1, <3>2
        <3>3. CASE p = refused
            BY <1>1, <1>2, <1>3, <2>2, <3>1, <3>3
        <3> QED
            BY <3>1, <3>2, <3>3
    <2> QED
        BY <2>1, <2>2
<1>7. /\ ~InHandOf(p) /\ (AccountedFor(p.coverage) <=> AccountedFor(s.coverage))
      /\ p.coverage = OnLeg(s.claim.epoch + 1) => InHandOf(s)
    <2>1. CASE InHandOf(s)
        BY <1>6, <2>1 DEF InHandOf, InHand, TakeCoverage, OnLeg, AccountedFor
    <2>2. CASE ~InHandOf(s)
        <3>1. p.coverage = s.coverage
            BY <1>6, <2>2 DEF InHandOf, TakeCoverage
        <3>2. s.coverage # OnLeg(s.claim.epoch + 1)
            BY <1>2 DEF OnLeg
        <3> QED
            BY <2>2, <3>1, <3>2 DEF InHandOf
    <2> QED
        BY <2>1, <2>2
<1>8. ~Kept(p)
    BY <1>6, <1>7 DEF Kept
<1>9. Trusty(p)
    BY <1>6, <1>7, <1>8 DEF Trusty, ReadyMeans, KeptMeans, RungsMean
<1> QED
    BY <1>6, <1>7, <1>9 DEF p

LEMMA GiveBackUpholds ==
    ASSUME Inv, Inv', Custody, Trust, NEW t \in Threads, Unmoved(t), UNCHANGED <<queue, sends>>,
           Past(thread'[t], entry.claim.epoch + 1),
           NEW s \in Entries, s.claim = entry.claim, s.coverage = entry.coverage,
           s.detach_in_flight = entry.detach_in_flight,
           s.trust # "Ready", AccountedFor(s.coverage) => s.pending # "none",
           s.awaits => s.recovery_required,
           entry' = GiveBackCoverage(s)
    PROVE  Upholds
<1>1. entry.claim.epoch \in Nat /\ s.coverage.leg \in 0..s.claim.epoch
    BY Facts DEF Sound
<1>2. /\ Trusty(entry') /\ ~InHandOf(entry')
      /\ entry.claim.epoch' = entry.claim.epoch + 1 /\ entry.claim.gate' # "scheduled"
      /\ AccountedFor(entry'.coverage) <=> AccountedFor(s.coverage)
      /\ s.detach_in_flight => entry'.detach_in_flight
      /\ entry'.pending = s.pending
    BY <1>1, GiveBackTrust
<1>3. Passes(entry, entry')
    BY <1>2 DEF Passes, Covered
<1>4. AccountedFor(entry'.coverage) => Minds(entry')
    BY <1>2 DEF Minds
<1> QED
    BY <1>1, <1>2, <1>3, <1>4, MovedOnUpholds

LEMMA ConflictUpholds ==
    ASSUME Inv, Inv', Custody, Trust, NEW t \in Threads, Unmoved(t), UNCHANGED <<queue, sends>>,
           Past(thread'[t], entry.claim.epoch + 1),
           NEW s \in Entries, SameTrust(entry, s), entry' = RefuseConflict(s)
    PROVE  Upholds
<1>1. entry.claim.epoch \in Nat /\ s.claim.epoch = entry.claim.epoch
    BY Facts DEF SameTrust
<1>2. Trusty(s) /\ (s.detach_in_flight => ~InHandOf(s))
    BY SameTrusty DEF Trust, Custody, Settled, SameTrust, InHandOf
<1>3. /\ Trusty(entry') /\ ~InHandOf(entry') /\ Passes(s, entry')
      /\ entry.claim.epoch' = entry.claim.epoch + 1 /\ entry.claim.gate' # "scheduled"
      /\ AccountedFor(entry'.coverage) => Minds(entry')
    BY <1>1, <1>2, ConflictTrust
<1>4. Passes(entry, entry')
    BY <1>3 DEF Passes, Covered, SameTrust
<1> QED
    BY <1>1, <1>3, <1>4, MovedOnUpholds

LEMMA IdentitySays ==
    ASSUME NEW s \in Entries
    PROVE  LET i == IdentityRefused(s)
           IN  /\ i \in Entries /\ i.claim = s.claim /\ i.coverage = s.coverage
               /\ i.detach_in_flight = s.detach_in_flight
               /\ i.trust = "Untrusted" /\ i.pending # "none"
               /\ i.recovery_required = TRUE /\ i.awaits = FALSE
<1> DEFINE i == IdentityRefused(s)
           merged == Merge(s, "rescan")
           required == RequireRecovery(merged)
<1>1. i \in Entries /\ SameCustody(s, i)
    BY IdentityAlike
<1>2. merged \in Entries /\ merged.pending # "none"
    BY DEF Merge, Entries, Batches
<1>3. i = ParkIdentityRefusal(required)
    BY DEF IdentityRefused
<1> HIDE DEF merged, i
<1>4. /\ required \in Entries /\ required.pending # "none"
      /\ required.recovery_required = TRUE /\ required.awaits = FALSE
    BY <1>2 DEF RequireRecovery, RequireRecoveryKeepingDemands, RetireRecoveryDemands, Entries
<1> HIDE DEF required
<1>5. /\ i.trust = "Untrusted" /\ i.pending # "none"
      /\ i.recovery_required = TRUE /\ i.awaits = FALSE
    BY <1>3, <1>4 DEF ParkIdentityRefusal, SetTrust, Entries
<1> QED
    BY <1>1, <1>5 DEF SameCustody, i

\* A thread meets a refusal.
LEMMA MeetsConflictUpholds ==
    ASSUME Inv, Inv', Custody, Trust, NEW t \in Threads, NEW after, NEW held,
           MeetsConflict(t, held, after), UNCHANGED <<queue, sends>>
    PROVE  Upholds
<1> DEFINE epoch == entry.claim.epoch + 1
<1>1. entry.claim.epoch \in Nat /\ entry \in Entries
    BY Facts
<1>2. epoch \in Nat /\ epoch > entry.claim.epoch
    BY <1>1
<1>3. entry' = RefuseConflict(entry)
    BY DEF MeetsConflict
<1>4. \/ thread' = [thread EXCEPT ![t] =
              [@ EXCEPT !.pc = "releasing", !.held = TRUE, !.rel = epoch, !.after = after]]
      \/ Goes(t, after, held)
    BY DEF MeetsConflict, GoesReleasing
<1> HIDE DEF epoch
<1>5. Unmoved(t) /\ Past(thread'[t], epoch)
    <2>1. CASE thread' = [thread EXCEPT ![t] =
              [@ EXCEPT !.pc = "releasing", !.held = TRUE, !.rel = epoch, !.after = after]]
        BY <1>2, <2>1, MeetsPast
    <2>2. CASE Goes(t, after, held)
        BY <1>2, <2>2, MeetsPast
    <2> QED
        BY <1>4, <2>1, <2>2
<1>6. SameTrust(entry, entry)
    BY DEF SameTrust
<1> QED
    BY <1>1, <1>3, <1>5, <1>6, ConflictUpholds DEF epoch

LEMMA MeetsGiveBackUpholds ==
    ASSUME Inv, Inv', Custody, Trust, NEW t \in Threads, NEW after, NEW held,
           NEW s \in Entries, s.claim = entry.claim, s.coverage = entry.coverage,
           s.detach_in_flight = entry.detach_in_flight,
           s.trust # "Ready", AccountedFor(s.coverage) => s.pending # "none",
           s.awaits => s.recovery_required,
           MeetsGiveBack(s, t, held, after), UNCHANGED <<queue, sends>>
    PROVE  Upholds
<1> DEFINE epoch == entry.claim.epoch + 1
<1>1. entry.claim.epoch \in Nat
    BY Facts
<1>2. epoch \in Nat /\ epoch > entry.claim.epoch
    BY <1>1
<1>3. entry' = GiveBackCoverage(s)
    BY DEF MeetsGiveBack
<1>4. \/ thread' = [thread EXCEPT ![t] =
              [@ EXCEPT !.pc = "returning", !.held = TRUE, !.rel = epoch, !.after = after]]
      \/ Goes(t, after, held)
    BY DEF MeetsGiveBack
<1> HIDE DEF epoch
<1>5. Unmoved(t) /\ Past(thread'[t], epoch)
    <2>1. CASE thread' = [thread EXCEPT ![t] =
              [@ EXCEPT !.pc = "returning", !.held = TRUE, !.rel = epoch, !.after = after]]
        BY <1>2, <2>1, MeetsPast
    <2>2. CASE Goes(t, after, held)
        BY <1>2, <2>2, MeetsPast
    <2> QED
        BY <1>4, <2>1, <2>2
<1> QED
    BY <1>3, <1>5, GiveBackUpholds DEF epoch

LEMMA MeetsIdentityUpholds ==
    ASSUME Inv, Inv', Custody, Trust, NEW t \in Threads, NEW after, NEW held,
           MeetsIdentityRefusal(entry, t, held, after), UNCHANGED <<queue, sends>>
    PROVE  Upholds
<1> DEFINE i == IdentityRefused(entry)
<1>1. entry \in Entries
    BY Facts
<1>2. /\ i \in Entries /\ i.claim = entry.claim /\ i.coverage = entry.coverage
      /\ i.detach_in_flight = entry.detach_in_flight
      /\ i.trust = "Untrusted" /\ i.pending # "none"
      /\ i.recovery_required = TRUE /\ i.awaits = FALSE
    BY <1>1, IdentitySays
<1>3. MeetsGiveBack(i, t, held, after)
    BY DEF MeetsIdentityRefusal
<1> HIDE DEF i
<1> QED
    BY <1>2, <1>3, MeetsGiveBackUpholds

LEMMA AttachConflictUpholds ==
    ASSUME Inv, Inv', Custody, Trust, NEW w \in Workers, AttachConflict(w) PROVE Upholds
BY MeetsConflictUpholds, Facts DEF AttachConflict, Channel

LEMMA RecoverRefusedAtOnceUpholds ==
    ASSUME Inv, Inv', Custody, Trust, NEW w \in Workers, RecoverRefusedAtOnce(w) PROVE Upholds
BY MeetsConflictUpholds, MeetsIdentityUpholds, Facts DEF RecoverRefusedAtOnce, Channel

LEMMA ClassifyRefusedUpholds ==
    ASSUME Inv, Inv', Custody, Trust, NEW t \in Threads, ClassifyRefused(t) PROVE Upholds
BY MeetsConflictUpholds, MeetsIdentityUpholds DEF ClassifyRefused, Channel

LEMMA RegistrarRefusesUpholds ==
    ASSUME Inv, Inv', Custody, Trust, RegistrarRefuses(Registrar) PROVE Upholds
BY MeetsConflictUpholds, MeetsIdentityUpholds, Facts DEF RegistrarRefuses, Channel

\* Coverage of a lost root goes back with the entry as it was left; a thread that
\* finds the entry moved on goes on alone.
LEMMA GiveBackLostUpholds ==
    ASSUME Inv, Inv', Custody, Trust, NEW t \in Threads, GiveBackLost(t) PROVE Upholds
<1> DEFINE after == IF thread[t].next # NoJob THEN "handing" ELSE Over(t)
           r == thread[t]
<1>1. /\ r.pc = "losing" /\ UNCHANGED <<queue, sends, underived>>
      /\ IF StandsAtEpoch(entry, thread[t].lost)
         THEN MeetsGiveBack(entry, t, FALSE, after)
         ELSE UNCHANGED entry /\ Goes(t, after, FALSE)
    BY DEF GiveBackLost, At, Channel
<1>2. /\ Shape(t, r) /\ Stand(entry, r) /\ Registrar \notin Workers /\ Dispatcher \notin Workers
    BY ThreadsAssumption DEF Custody, ThreadsStand
<1>3. /\ t # Registrar /\ (t \in Workers \/ t = Dispatcher)
      /\ after \in {"handing", "ending", "idle"}
      /\ after = "idle" => t = Dispatcher /\ r.next = NoJob
    BY <1>1, <1>2 DEF Shape, Threads, Over
<1>4. CASE StandsAtEpoch(entry, r.lost)
    <2>1. LostAt(entry, r) /\ LostNow
        BY <1>1, <1>3, <1>4 DEF LostAt, LostNow, StandsAtEpoch, StandsAt
    <2>2. LostGround(entry) /\ RungsMean(entry) /\ Trusty(entry) /\ entry \in Entries
        BY <2>1, Facts DEF Trust, LostMeans, Trusty
    <2>3. MeetsGiveBack(entry, t, FALSE, after)
        BY <1>1, <1>4
    <2>4. entry.trust # "Ready" /\ (AccountedFor(entry.coverage) => entry.pending # "none")
          /\ (entry.awaits => entry.recovery_required)
        BY <2>2 DEF LostGround, RungsMean, Trusty, ReadyMeans
    <2> QED
        BY <1>1, <2>2, <2>3, <2>4, MeetsGiveBackUpholds
<1>5. CASE ~StandsAtEpoch(entry, r.lost)
    <2>1. UNCHANGED entry /\ Goes(t, after, FALSE)
        BY <1>1, <1>5
    <2>2. ~Derives(entry, r)
        BY <1>1 DEF Derives
    <2>3. CASE after # "idle"
        BY <1>1, <1>3, <2>1, <2>2, <2>3, GoesAlone DEF AtWork
    <2>4. CASE after = "idle"
        <3>1. Unmoved(t) /\ thread'[t] = Idle
            BY <1>2, <2>1, <2>4, RestsTo
        <3>2. FewerJobs(r, thread'[t]) /\ thread'[t].next = r.next
              /\ ~LostAt(entry, thread'[t]) /\ AfterLosing(thread'[t], entry.claim.epoch)
            BY <1>3, <2>4, <3>1, IdleIs DEF FewerJobs, AtWork, LostAt, AfterLosing
        <3> QED
            BY <1>1, <2>1, <2>2, <3>1, <3>2, EntryAlone
    <2> QED
        BY <2>3, <2>4
<1> QED
    BY <1>4, <1>5

----------------------------------------------------------------------------
(* Releases                                                                *)

\* A thread goes on with no more than it had, over an entry whose trust and claim stand.
LEMMA EasesAlone ==
    ASSUME Inv, Inv', Custody, Trust, NEW t \in Threads, Unmoved(t),
           UNCHANGED <<queue, sends, underived>>,
           Eases(entry, entry'), entry.claim.gate' = entry.claim.gate,
           entry.claim.marker' = entry.claim.marker, entry.claim.leg' = entry.claim.leg,
           FewerJobs(thread[t], thread'[t]), thread'[t].next = thread[t].next,
           t # Registrar /\ LostAt(entry, thread'[t]) => LostAt(entry, thread[t]),
           AfterLosing(thread'[t], entry.claim.epoch),
           Derives(entry, thread[t]) => Derives(entry', thread'[t])
    PROVE  Upholds
<1>1. /\ entry'.claim.epoch = entry.claim.epoch /\ (InHandOf(entry') <=> InHandOf(entry))
      /\ \A job : Standing(entry', job) <=> Standing(entry, job)
    BY DEF Eases, InHandOf, Standing
<1>2. LegsHold'
    <2>1. CASE InHandOf(entry) /\ entry.claim.gate = "held"
        BY <1>1, <2>1, LegsStill
    <2>2. CASE ~InHandOf(entry) \/ entry.claim.gate # "held"
        BY <1>1, <2>2, LegsStill
    <2> QED
        BY <2>1, <2>2
<1>3. ASSUME NEW kind \in Kinds, OwnAwaits(entry', thread'[t], kind)
      PROVE  OwnAwaits(entry, thread[t], kind)
    BY <1>1, <1>3, FewerAwaited DEF OwnAwaits, MarkedFor
<1>4. t # Registrar /\ LostAt(entry', thread'[t]) => LostNow
    BY <1>1 DEF LostNow, LostAt
<1>5. AfterLosing(thread'[t], entry.claim.epoch')
    BY <1>1
<1>6. entry.claim.leg' = entry.claim.leg /\ entry.claim.gate' = entry.claim.gate
    OBVIOUS
<1> QED
    BY <1>2, <1>3, <1>4, <1>5, <1>6, SoftTrust

\* A step that opens a window over coverage that is not in hand.
LEMMA ReleasingUpholds ==
    ASSUME Inv, Inv', Custody, Custody', Trust, NEW t \in Threads, Unmoved(t),
           UNCHANGED <<queue, sends>>, NEW s \in Entries, entry' = BeginRelease(s),
           ~InHandOf(s), RungsMean(s), s.claim.epoch >= entry.claim.epoch,
           s.pending = entry.pending,
           AccountedFor(s.coverage) => AccountedFor(entry.coverage),
           Engaged(entry, thread[t]) \/ s.claim.epoch # entry.claim.epoch,
           thread'[t].pc \notin {"classifying", "losing"}, thread'[t].after # "losing"
    PROVE  Upholds
<1>1. PICK p : p = entry'
    OBVIOUS
<1>2. /\ Trusty(p) /\ Minds(p) /\ ~InHandOf(p) /\ p.detach_in_flight
      /\ p.claim.epoch = s.claim.epoch /\ p.claim.gate = "open"
      /\ p.coverage = s.coverage /\ p.pending = s.pending /\ p.trust = "Releasing"
    BY <1>1, ReleaseTrusty
<1>3. p \in Entries
    BY <1>1 DEF Inv, Sound
<1>4. Arranged(p, entry')
    BY <1>1, <1>2 DEF Arranged
<1>5. GateMeans(p) /\ Passes(entry, p)
    BY <1>2 DEF GateMeans, Passes
<1>6. ~LostAt(entry', thread'[t]) /\ AfterLosing(thread'[t], entry.claim.epoch)
    BY DEF LostAt, AfterLosing
<1>7. LostNow => LostGround(p)
    BY <1>2 DEF Trust, LostMeans, LostGround
<1> HIDE <1>1
<1> QED
    BY <1>2, <1>3, <1>4, <1>5, <1>6, <1>7, ArrangedUpholds

LEMMA AttachMovedUpholds ==
    ASSUME Inv, Inv', Custody, Custody', Trust, NEW w \in Workers, AttachMoved(w) PROVE Upholds
<1>1. /\ At(w, "working") /\ KindOf(w) = "Attach" /\ UNCHANGED <<underived, queue, sends>>
      /\ entry' = IF Stands(w) THEN BeginRelease(entry) ELSE entry
    BY DEF AttachMoved, Channel
<1>2. PICK built \in BOOLEAN : Goes(w, "ending", built)
    BY DEF AttachMoved
<1>3. /\ w \in Threads /\ Engaged(entry, thread[w]) /\ entry.coverage = NoCoverage
      /\ entry \in Entries
    BY <1>1, AttachingIs
<1>4. CASE Stands(w)
    <2>1. Unmoved(w) /\ thread'[w].pc = "ending" /\ thread'[w].after = "idle"
        BY <1>2, <1>3, GoesTo
    <2>2. ~InHandOf(entry) /\ RungsMean(entry) /\ entry.claim.epoch >= entry.claim.epoch
        BY <1>3, Facts DEF InHandOf, InHand, NoCoverage, Trust, Trusty
    <2>3. entry' = BeginRelease(entry)
        BY <1>1, <1>4
    <2> QED
        BY <1>1, <1>3, <2>1, <2>2, <2>3, ReleasingUpholds
<1>5. CASE ~Stands(w)
    <2>1. UNCHANGED entry /\ ~Derives(entry, thread[w])
        BY <1>1, <1>5 DEF Derives, KindOf
    <2> QED
        BY <1>1, <1>2, <1>3, <2>1, GoesAlone DEF AtWork
<1> QED
    BY <1>4, <1>5

LEMMA TurnLosesLockUpholds ==
    ASSUME Inv, Inv', Custody, Custody', Trust, NEW w \in Workers, TurnLosesLock(w) PROVE Upholds
<1> DEFINE u == Unpinned(w)
<1>1. /\ At(w, "working") /\ KindOf(w) # "Attach" /\ UNCHANGED <<queue, sends>>
      /\ GoesReleasing(w, TRUE, EpochOf(w), "ending")
    BY DEF TurnLosesLock, CoverageJobs, Channel
<1>2. PICK contended \in BOOLEAN : entry' = BeginRelease([u EXCEPT !.contended = @ \/ contended])
    BY DEF TurnLosesLock
<1> DEFINE v == [u EXCEPT !.contended = @ \/ contended]
<1>3. /\ w \in Threads /\ Engaged(entry, thread[w]) /\ ~InHandOf(entry)
    BY <1>1, WorkingIs
<1>4. u \in Entries /\ SameTrust(entry, u) /\ u.claim = entry.claim /\ entry.claim.epoch \in Nat
    BY <1>3, UnpinnedHeal, Facts DEF Unpinned
<1> HIDE DEF u
<1>5. /\ v \in Entries /\ v.claim = u.claim /\ v.coverage = u.coverage /\ v.pending = u.pending
      /\ v.recovery_required = u.recovery_required /\ v.rebuild_required = u.rebuild_required
      /\ v.awaits = u.awaits
    <2>1. (u.contended \/ contended) \in BOOLEAN
        OBVIOUS
    <2> QED
        BY <1>4, <2>1 DEF Entries
<1>6. entry' = BeginRelease(v)
    BY <1>2
<1> HIDE DEF v
<1>7. ~InHandOf(v) /\ RungsMean(v)
    BY <1>3, <1>4, <1>5 DEF SameTrust, InHandOf, Trust, Trusty, RungsMean
<1>8. /\ v.claim.epoch >= entry.claim.epoch /\ v.pending = entry.pending
      /\ v.coverage = entry.coverage
    BY <1>4, <1>5 DEF SameTrust
<1>11. PICK held : GoesReleasing(w, held, EpochOf(w), "ending")
    BY <1>1
<1>9. Unmoved(w) /\ thread'[w].pc = "releasing" /\ thread'[w].after = "ending"
    BY <1>3, <1>11, ReleasingTo
<1>10. v \in Entries /\ (AccountedFor(v.coverage) => AccountedFor(entry.coverage))
    BY <1>5, <1>8
<1> QED
    BY <1>1, <1>3, <1>6, <1>7, <1>8, <1>9, <1>10, ReleasingUpholds

LEMMA RebuildFailsUpholds ==
    ASSUME Inv, Inv', Custody, Custody', Trust, NEW w \in Workers, RebuildFails(w) PROVE Upholds
<1> DEFINE u == Unpinned(w)
<1>1. /\ At(w, "working") /\ KindOf(w) # "Attach" /\ UNCHANGED <<queue, sends>>
      /\ entry' = BeginRelease(u)
    BY DEF RebuildFails, Channel
<1>2. PICK kept \in BOOLEAN : GoesReleasing(w, kept, EpochOf(w), "ending")
    BY DEF RebuildFails
<1>3. /\ w \in Threads /\ Engaged(entry, thread[w]) /\ ~InHandOf(entry)
    BY <1>1, WorkingIs
<1>4. u \in Entries /\ SameTrust(entry, u) /\ u.claim = entry.claim /\ entry.claim.epoch \in Nat
    BY <1>3, UnpinnedHeal, Facts DEF Unpinned
<1> HIDE DEF u
<1>5. ~InHandOf(u) /\ RungsMean(u)
    BY <1>3, <1>4 DEF SameTrust, InHandOf, Trust, Trusty, RungsMean
<1>6. /\ u.claim.epoch >= entry.claim.epoch /\ u.pending = entry.pending
      /\ u.coverage = entry.coverage
    BY <1>4 DEF SameTrust
<1>7. Unmoved(w) /\ thread'[w].pc = "releasing" /\ thread'[w].after = "ending"
    BY <1>2, <1>3, ReleasingTo
<1> QED
    BY <1>1, <1>3, <1>4, <1>5, <1>6, <1>7, ReleasingUpholds

LEMMA BeginDetachUpholds ==
    ASSUME Inv, Inv', Custody, Custody', Trust, NEW w \in Workers, BeginDetach(w) PROVE Upholds
<1> DEFINE r == thread[w]
           v == [entry EXCEPT !.coverage = TakeCoverage(@, EpochOf(w))]
<1>1. /\ r.pc = "begun" /\ r.pc # "idle" /\ r.job.epoch = entry.claim.epoch
      /\ UNCHANGED <<queue, sends>> /\ entry' = BeginRelease(v)
      /\ GoesReleasing(w, InHandOf(entry), EpochOf(w), "ending")
    BY DEF BeginDetach, At, Stands, StandsAtEpoch, StandsAt, EpochOf, Channel
<1>2. w \in Threads /\ Stand(entry, r) /\ entry \in Entries /\ entry.claim.epoch \in Nat
    BY <1>1, WorkerIs, Facts
<1>3. Engaged(entry, r)
    BY <1>1, <1>2 DEF Stand, LiveStand, Live, Engaged
<1>4. /\ v \in Entries /\ v.claim = entry.claim /\ v.pending = entry.pending
      /\ v.coverage = TakeCoverage(entry.coverage, EpochOf(w))
      /\ v.recovery_required = entry.recovery_required
      /\ v.rebuild_required = entry.rebuild_required /\ v.awaits = entry.awaits
    <2>1. EpochOf(w) \in Nat
        BY <1>2, ThreadFacts
    <2>2. TakeCoverage(entry.coverage, EpochOf(w)) \in Coverages
        BY <1>2, <2>1 DEF TakeCoverage, OnLeg, Coverages, Entries
    <2> QED
        BY <1>2, <2>2 DEF Entries
<1> HIDE DEF v
<1>5. ~InHandOf(v) /\ (AccountedFor(v.coverage) => AccountedFor(entry.coverage))
    BY <1>4 DEF InHandOf, InHand, TakeCoverage, OnLeg, AccountedFor
<1>6. RungsMean(v)
    BY <1>4, <1>5 DEF Trust, Trusty, RungsMean
<1>7. Unmoved(w) /\ thread'[w].pc = "releasing" /\ thread'[w].after = "ending"
    BY <1>1, <1>2, ReleasingTo
<1>8. v.claim.epoch >= entry.claim.epoch
    BY <1>2, <1>4
<1> QED
    BY <1>1, <1>2, <1>3, <1>4, <1>5, <1>6, <1>7, <1>8, ReleasingUpholds

LEMMA PollLosesLockUpholds ==
    ASSUME Inv, Inv', Custody, Custody', Trust, PollLosesLock PROVE Upholds
<1> DEFINE u == PollUnpinned
           r == thread[Dispatcher]
<1>1. /\ At(Dispatcher, "polling") /\ UNCHANGED <<queue, sends>>
      /\ GoesReleasing(Dispatcher, TRUE, EpochOf(Dispatcher), "idle")
    BY DEF PollLosesLock, PollStands, Channel
<1>2. PICK contended \in BOOLEAN :
          entry' = BeginRelease([u EXCEPT !.contended = @ \/ contended, !.claim = Supersede(@)])
    BY DEF PollLosesLock
<1> DEFINE v == [u EXCEPT !.contended = @ \/ contended, !.claim = Supersede(@)]
<1>3. /\ Dispatcher \in Threads /\ Engaged(entry, r) /\ entry.coverage = OnLeg(r.job.epoch)
    BY <1>1, PollingIs
<1>4. u \in Entries /\ SameTrust(entry, u) /\ u.claim = entry.claim /\ entry.claim.epoch \in Nat
    BY <1>3, UnpinnedHeal, Facts DEF PollUnpinned
<1> HIDE DEF u
<1>5. /\ v \in Entries /\ v.claim = Supersede(u.claim) /\ v.coverage = u.coverage
      /\ v.pending = u.pending
      /\ v.recovery_required = u.recovery_required /\ v.rebuild_required = u.rebuild_required
      /\ v.awaits = u.awaits
    <2>1. (u.contended \/ contended) \in BOOLEAN
        OBVIOUS
    <2>2. Supersede(u.claim) \in Claims
        BY <1>4 DEF Supersede, Entries, Claims
    <2> QED
        BY <1>4, <2>1, <2>2 DEF Entries
<1>6. entry' = BeginRelease(v)
    BY <1>2
<1> HIDE DEF v
<1>7. ~InHandOf(v) /\ RungsMean(v)
    BY <1>3, <1>4, <1>5 DEF SameTrust, InHandOf, InHand, OnLeg, Trust, Trusty, RungsMean
<1>8. /\ v.claim.epoch >= entry.claim.epoch /\ v.pending = entry.pending
      /\ v.coverage = entry.coverage
    <2>1. v.claim.epoch = u.claim.epoch + 1
        BY <1>4, <1>5, GateFields DEF ClaimIs, Entries
    <2> QED
        BY <1>4, <1>5, <2>1 DEF SameTrust
<1>11. PICK held : GoesReleasing(Dispatcher, held, EpochOf(Dispatcher), "idle")
    BY <1>1
<1>9. Unmoved(Dispatcher) /\ thread'[Dispatcher].pc = "releasing"
      /\ thread'[Dispatcher].after = "idle"
    BY <1>3, <1>11, ReleasingTo
<1>10. v \in Entries /\ (AccountedFor(v.coverage) => AccountedFor(entry.coverage))
    BY <1>5, <1>8
<1> QED
    BY <1>1, <1>3, <1>6, <1>7, <1>8, <1>9, <1>10, ReleasingUpholds

\* A recover that gives its pin back works no more, and changes nothing else.
LEMMA RecoverEasesUpholds ==
    ASSUME Inv, Inv', Custody, Trust, NEW w \in Workers, At(w, "working"), KindOf(w) = "Recover",
           NEW pc \in {"refusing", "ending"}, Goes(w, pc, TRUE),
           UNCHANGED <<queue, sends, underived>>, entry' = Unpinned(w)
    PROVE  Upholds
<1> DEFINE u == Unpinned(w)
           r == thread[w]
<1>1. w \in Threads /\ Engaged(entry, r)
    BY WorkingIs
<1>2. u \in Entries /\ SameTrust(entry, u) /\ u.claim = entry.claim /\ entry.claim.epoch \in Nat
    BY <1>1, UnpinnedHeal, Facts DEF Unpinned
<1>3. entry' = u
    OBVIOUS
<1> HIDE DEF u
<1>4. Unmoved(w) /\ SameWork(r, thread'[w]) /\ thread'[w].pc = pc /\ thread'[w].after = "idle"
    BY <1>1, GoesTo
<1>5. Eases(entry, entry') /\ entry.claim.gate' = entry.claim.gate
      /\ entry.claim.marker' = entry.claim.marker /\ entry.claim.leg' = entry.claim.leg
    BY <1>2, <1>3, SameEases DEF Trust
<1>6. FewerJobs(r, thread'[w]) /\ thread'[w].next = r.next
    BY <1>4 DEF FewerJobs, AtWork, SameWork
<1>7. ~LostAt(entry, thread'[w]) /\ AfterLosing(thread'[w], entry.claim.epoch)
    BY <1>4 DEF LostAt, AfterLosing
<1>8. ~Derives(entry, r)
    BY DEF Derives, KindOf
<1> QED
    BY <1>1, <1>4, <1>5, <1>6, <1>7, <1>8, EasesAlone

LEMMA RecoverUnpinsUpholds ==
    ASSUME Inv, Inv', Custody, Trust, NEW w \in Workers, RecoverUnpins(w) PROVE Upholds
BY RecoverEasesUpholds DEF RecoverUnpins, Channel

LEMMA RecoverFindsMovedUpholds ==
    ASSUME Inv, Inv', Custody, Custody', Trust, NEW w \in Workers, RecoverFindsMoved(w)
    PROVE  Upholds
<1> DEFINE u == Unpinned(w)
           r == thread[w]
<1>1. /\ At(w, "working") /\ KindOf(w) = "Recover" /\ Goes(w, "ending", TRUE)
      /\ UNCHANGED <<queue, sends, underived>>
      /\ entry' = u \/ entry' = BeginRelease(u)
    BY DEF RecoverFindsMoved, Channel
<1>2. /\ w \in Threads /\ Engaged(entry, r) /\ ~InHandOf(entry)
    BY <1>1, WorkingIs
<1>3. u \in Entries /\ SameTrust(entry, u) /\ u.claim = entry.claim /\ entry.claim.epoch \in Nat
    BY <1>2, UnpinnedHeal, Facts DEF Unpinned
<1>4. CASE entry' = u
    BY <1>1, <1>4, RecoverEasesUpholds
<1> HIDE DEF u
<1>5. Unmoved(w) /\ SameWork(r, thread'[w]) /\ thread'[w].pc = "ending"
      /\ thread'[w].after = "idle"
    BY <1>1, <1>2, GoesTo
<1>6. CASE entry' = BeginRelease(u)
    <2>1. ~InHandOf(u) /\ RungsMean(u)
        BY <1>2, <1>3 DEF SameTrust, InHandOf, Trust, Trusty, RungsMean
    <2>2. /\ u.claim.epoch >= entry.claim.epoch /\ u.pending = entry.pending
          /\ u.coverage = entry.coverage
        BY <1>3 DEF SameTrust
    <2> QED
        BY <1>1, <1>2, <1>3, <1>5, <1>6, <2>1, <2>2, ReleasingUpholds
<1> QED
    BY <1>1, <1>4, <1>6

LEMMA RecoverRefusedUpholds ==
    ASSUME Inv, Inv', Custody, Trust, NEW w \in Workers, RecoverRefused(w) PROVE Upholds
<1> DEFINE r == thread[w]
           epoch == entry.claim.epoch + 1
<1>1. /\ r.pc = "refusing" /\ r.pc # "idle" /\ Goes(w, "ending", TRUE)
      /\ UNCHANGED <<queue, sends, underived>>
      /\ \/ entry' = RefuseConflict(entry)
         \/ entry' = GiveBackCoverage(IdentityRefused(entry))
    BY DEF RecoverRefused, At, Channel
<1>2. w \in Threads /\ entry \in Entries /\ entry.claim.epoch \in Nat
    BY <1>1, WorkerIs, Facts
<1>3. epoch \in Nat /\ epoch > entry.claim.epoch
    BY <1>2
<1>4. SameTrust(entry, entry)
    BY DEF SameTrust
<1> HIDE DEF epoch
<1>5. Unmoved(w) /\ Past(thread'[w], epoch)
    BY <1>1, <1>2, <1>3, MeetsPast
<1>6. CASE entry' = RefuseConflict(entry)
    BY <1>1, <1>2, <1>4, <1>5, <1>6, ConflictUpholds DEF epoch
<1>7. CASE entry' = GiveBackCoverage(IdentityRefused(entry))
    <2>1. PICK i : i = IdentityRefused(entry)
        OBVIOUS
    <2>2. /\ i \in Entries /\ i.claim = entry.claim /\ i.coverage = entry.coverage
          /\ i.detach_in_flight = entry.detach_in_flight
          /\ i.trust = "Untrusted" /\ i.pending # "none"
          /\ i.recovery_required = TRUE /\ i.awaits = FALSE
        BY <1>2, <2>1, IdentitySays
    <2>3. entry' = GiveBackCoverage(i)
        BY <1>7, <2>1
    <2> HIDE <2>1
    <2> QED
        BY <1>1, <1>2, <1>5, <2>2, <2>3, GiveBackUpholds DEF epoch
<1> QED
    BY <1>1, <1>6, <1>7

----------------------------------------------------------------------------
(* Steps that add nothing to what is awaited                               *)

\* A thread that has nothing to hand on rests, over an entry that may have let a slot go.
LEMMA EasesRests ==
    ASSUME Inv, Inv', Custody, Trust, NEW t \in Threads, Rests(t),
           UNCHANGED <<queue, sends, underived>>,
           Eases(entry, entry'), entry.claim.gate' = entry.claim.gate,
           entry.claim.marker' = entry.claim.marker, entry.claim.leg' = entry.claim.leg,
           thread[t].next = NoJob, ~Derives(entry, thread[t])
    PROVE  Upholds
<1>1. Unmoved(t) /\ thread'[t] = Idle
    BY RestsTo
<1>2. FewerJobs(thread[t], thread'[t]) /\ thread'[t].next = thread[t].next
      /\ ~LostAt(entry, thread'[t]) /\ AfterLosing(thread'[t], entry.claim.epoch)
    BY <1>1, IdleIs DEF FewerJobs, AtWork, LostAt, AfterLosing
<1> QED
    BY <1>1, <1>2, EasesAlone

\* A slot freed or taken is nothing the trust reads.
LEMMA SlotEases ==
    ASSUME NEW s \in Entries, Trusty(s), NEW claim \in Claims, claim.epoch = s.claim.epoch
    PROVE  LET q == [s EXCEPT !.claim = claim] IN Eases(s, q) /\ q.claim = claim
<1> DEFINE q == [s EXCEPT !.claim = claim]
<1>1. q.claim = claim /\ SameTrust(s, q)
    BY DEF Entries, SameTrust
<1> HIDE DEF q
<1>2. Eases(s, q)
    BY <1>1, SameEases
<1> QED
    BY <1>1, <1>2 DEF q

LEMMA ReceiveStaleUpholds ==
    ASSUME Inv, Inv', Custody, Trust, NEW w \in Workers, ReceiveStale(w) PROVE Upholds
<1> DEFINE r == thread[w]
           freed == FreeSlot(entry.claim, EpochOf(w))
<1>1. /\ r.pc = "received" /\ r.pc # "idle" /\ r.job.epoch # entry.claim.epoch /\ Rests(w)
      /\ UNCHANGED <<queue, sends, underived>> /\ EpochOf(w) = r.job.epoch
      /\ entry' = [entry EXCEPT !.claim =
               IF freed.marker.epoch = EpochOf(w) THEN DropMarker(freed) ELSE freed]
    BY DEF ReceiveStale, At, Stands, StandsAtEpoch, StandsAt, EpochOf, Channel
<1>2. w \in Threads /\ Shape(w, r)
    BY <1>1, WorkerIs
<1>3. entry.claim \in Claims /\ entry \in Entries /\ Trusty(entry)
    BY Facts, EntryTyped DEF Trust
<1>4. /\ freed.gate = entry.claim.gate /\ freed.marker = entry.claim.marker
      /\ freed.leg = entry.claim.leg /\ freed.epoch = entry.claim.epoch /\ freed \in Claims
    BY <1>3 DEF FreeSlot, AbandonSlot, Claims
<1>5. freed.gate = "scheduled" => freed.marker.epoch # EpochOf(w)
    BY <1>1, <1>4 DEF Custody, Settled, Standing
<1>6. entry' = [entry EXCEPT !.claim = freed]
    <2>1. freed.marker.epoch = EpochOf(w) => DropMarker(freed) = freed
        BY <1>5 DEF DropMarker
    <2> QED
        BY <1>1, <2>1
<1> HIDE DEF freed
<1>7. Eases(entry, entry') /\ entry'.claim = freed
    BY <1>3, <1>4, <1>6, SlotEases
<1>8. r.next = NoJob /\ ~Derives(entry, r)
    BY <1>1, <1>2 DEF Shape, Derives
<1> QED
    BY <1>1, <1>2, <1>4, <1>7, <1>8, EasesRests

LEMMA ReclaimLeavesUpholds ==
    ASSUME Inv, Inv', Custody, Trust, NEW t \in Threads, Reclaim(t),
           entry.claim.leg # LegOf(t)
    PROVE  Upholds
<1> DEFINE u == UnpinLeg(entry, LegOf(t))
<1>1. /\ At(t, "unwound") /\ UNCHANGED <<queue, sends, underived>>
      /\ entry' = u /\ Rests(t)
    BY DEF Reclaim, Channel
<1>2. SameTrust(entry, u) /\ u.claim = entry.claim
    BY UnpinnedHeal
<1> HIDE DEF u
<1>3. Eases(entry, entry') /\ entry'.claim = entry.claim
    BY <1>1, <1>2, SameEases DEF Trust
<1>4. thread[t].next = NoJob /\ ~Derives(entry, thread[t])
    BY <1>1, UnwoundIs DEF Derives
<1> QED
    BY <1>1, <1>3, <1>4, EasesRests

LEMMA PollStaleUpholds ==
    ASSUME Inv, Inv', Custody, Trust, PollStale PROVE Upholds
<1> DEFINE u == PollUnpinned
           r == thread[Dispatcher]
           q == thread'[Dispatcher]
<1>1. /\ At(Dispatcher, "polling") /\ UNCHANGED <<queue, sends, underived>>
      /\ entry' = u /\ Goes(Dispatcher, "stale", TRUE)
    BY DEF PollStale, Channel
<1>2. Dispatcher \in Threads /\ r.job.kind = "Poll"
    BY <1>1, PollingIs
<1>3. SameTrust(entry, u) /\ u.claim = entry.claim
    BY <1>2, UnpinnedHeal DEF PollUnpinned
<1> HIDE DEF u
<1>4. Eases(entry, entry') /\ entry'.claim = entry.claim
    BY <1>1, <1>3, SameEases DEF Trust
<1>5. PICK held : Goes(Dispatcher, "stale", held)
    BY <1>1
<1>6. Unmoved(Dispatcher) /\ SameWork(r, q) /\ q.pc = "stale" /\ q.after = "idle"
    BY <1>2, <1>5, GoesTo
<1> HIDE DEF q
<1>7. FewerJobs(r, q) /\ q.next = r.next /\ ~LostAt(entry, q) /\ AfterLosing(q, entry.claim.epoch)
    BY <1>6 DEF FewerJobs, AtWork, SameWork, LostAt, AfterLosing
<1>8. ~Derives(entry, r)
    BY <1>2 DEF Derives
<1> QED
    BY <1>1, <1>2, <1>4, <1>6, <1>7, <1>8, EasesAlone DEF q

LEMMA RegistrarReclassifiesUpholds ==
    ASSUME Inv, Inv', Custody, Trust, RegistrarReclassifies(Registrar) PROVE Upholds
<1> DEFINE r == thread[Registrar]
           q == thread'[Registrar]
<1>1. /\ At(Registrar, "idle") /\ UNCHANGED <<queue, sends, underived>>
      /\ entry' = [entry EXCEPT !.duplicate = FALSE] /\ Goes(Registrar, "classifying", FALSE)
    BY DEF RegistrarReclassifies, Channel
<1>2. Registrar \in Threads /\ entry \in Entries /\ Trusty(entry)
    BY Facts DEF Trust
<1>3. /\ entry'.claim = entry.claim /\ entry'.coverage = entry.coverage
      /\ entry'.detach_in_flight = entry.detach_in_flight
      /\ entry'.trust = entry.trust /\ entry'.pending = entry.pending
      /\ entry'.recovery_required = entry.recovery_required
      /\ entry'.rebuild_required = entry.rebuild_required /\ entry'.awaits = entry.awaits
      /\ entry'.contended = entry.contended /\ ~entry'.duplicate
      /\ entry'.identity = entry.identity
    BY <1>1, <1>2 DEF Entries
<1>4. PICK p : p = entry'
    OBVIOUS
<1>5. Eases(entry, p)
    <2>1. /\ OwesARung(p) <=> OwesARung(entry)
          /\ InHandOf(p) <=> InHandOf(entry)
          /\ Kept(p) <=> Kept(entry) /\ p.claim.epoch = entry.claim.epoch
          /\ StandsParked(p) => StandsParked(entry)
        BY <1>3, <1>4 DEF OwesARung, InHandOf, Kept, StandsParked
    <2>2. Trusty(p)
        BY <1>2, <1>3, <1>4, <2>1 DEF Trusty, ReadyMeans, KeptMeans, RungsMean
    <2>3. (LostGround(entry) => LostGround(p)) /\ (Minds(entry) => Minds(p))
        BY <1>3, <1>4, <2>1 DEF LostGround, Minds
    <2>4. Passes(entry, p)
        BY <1>3, <1>4 DEF Passes, Covered
    <2>5. \A kind : Suits(entry, kind) => Suits(p, kind)
        BY <1>3, <1>4, <2>1 DEF Suits
    <2> QED
        BY <1>3, <1>4, <2>1, <2>2, <2>3, <2>4, <2>5 DEF Eases
<1>6. PICK held : Goes(Registrar, "classifying", held)
    BY <1>1
<1>7. Unmoved(Registrar) /\ SameWork(r, q) /\ q.pc = "classifying" /\ q.after = "idle"
    BY <1>2, <1>6, GoesTo
<1> HIDE DEF q
<1>8. FewerJobs(r, q) /\ q.next = r.next /\ AfterLosing(q, entry.claim.epoch)
    BY <1>7 DEF FewerJobs, AtWork, SameWork, AfterLosing
<1>9. ~Derives(entry, r)
    BY <1>1 DEF Derives, At
<1> QED
    BY <1>1, <1>2, <1>3, <1>4, <1>5, <1>7, <1>8, <1>9, EasesAlone DEF q

LEMMA WithdrawAfterReclaimUpholds ==
    ASSUME Inv, Inv', Custody, Trust, NEW t \in Threads, WithdrawAfterReclaim(t) PROVE Upholds
<1> DEFINE p == SetTrust(entry, "Untrusted")
<1>1. /\ At(t, "reclaimed") /\ UNCHANGED <<queue, sends, underived>> /\ Rests(t)
      /\ entry' = IF entry.trust = "Unattached" /\ ~StandsParked(entry) THEN p ELSE entry
    BY DEF WithdrawAfterReclaim, Channel
<1>2. entry \in Entries /\ Trusty(entry) /\ "Untrusted" \in Trusts
    BY Facts DEF Trust, Trusts, Distrust
<1>3. Retrusted(entry, p, "Untrusted") /\ p.claim = entry.claim
    BY <1>2, TrustSet DEF Retrusted
<1> HIDE DEF p
<1>4. ASSUME entry.trust = "Unattached" PROVE Eases(entry, p)
    <2>1. /\ OwesARung(p) <=> OwesARung(entry)
          /\ Kept(p) <=> Kept(entry) /\ p.claim.epoch = entry.claim.epoch
        BY <1>3 DEF OwesARung, InHandOf, Kept, Retrusted
    <2>2. ~Kept(p)
        BY <1>2, <1>4, <2>1 DEF Trusty, KeptMeans
    <2>3. Trusty(p)
        BY <1>2, <1>3, <2>2 DEF Trusty, ReadyMeans, KeptMeans, RungsMean, Retrusted
    <2>4. (LostGround(entry) => LostGround(p)) /\ (Minds(entry) => Minds(p))
        BY <1>3, <2>1 DEF LostGround, Minds, Retrusted
    <2>5. Passes(entry, p)
        BY <1>3 DEF Passes, Covered, Retrusted
    <2>6. \A kind : Suits(entry, kind) => Suits(p, kind)
        BY <1>3, <1>4, <2>1 DEF Suits, Retrusted
    <2> QED
        BY <1>3, <2>1, <2>3, <2>4, <2>5, <2>6 DEF Eases, Retrusted
<1>5. Eases(entry, entry) 
    BY <1>2, SameEases DEF SameTrust
<1>6. Eases(entry, entry') /\ entry'.claim = entry.claim
    BY <1>1, <1>3, <1>4, <1>5
<1>7. thread[t].next = NoJob /\ ~Derives(entry, thread[t])
    BY <1>1 DEF At, Derives, Custody, ThreadsStand, Shape
<1> QED
    BY <1>1, <1>6, <1>7, EasesRests

\* A leg whose claim was lost before it took anything does not occur.
LEMMA LosesClaimUpholds ==
    ASSUME Inv, Inv', Custody, Trust, NEW w \in Workers, LosesClaim(w) PROVE Upholds
<1>1. /\ thread[w].pc = "begun" /\ thread[w].job.kind # "Attach" /\ w \in Threads
      /\ thread[w].job.epoch = entry.claim.epoch /\ ~InHandOf(entry)
    BY Facts DEF LosesClaim, At, KindOf, CoverageJobs, Stands, StandsAtEpoch, StandsAt, EpochOf
<1>2. LiveStand(entry, thread[w])
    BY <1>1 DEF Custody, ThreadsStand, Stand
<1> QED
    BY <1>1, <1>2 DEF LiveStand, Live, Fits

\* Leases, reads and pins are nothing the trust reads.
LEMMA CountsUphold ==
    ASSUME Inv, Inv', Custody, Trust, UNCHANGED <<thread, queue, sends, underived>>,
           SameTrust(entry, entry'), entry.claim.gate' = entry.claim.gate,
           entry.claim.marker' = entry.claim.marker, entry.claim.leg' = entry.claim.leg
    PROVE  Upholds
<1>1. Eases(entry, entry') /\ Dispatcher \in Threads
    BY SameEases, Facts DEF Trust
<1>2. Unmoved(Dispatcher) /\ thread'[Dispatcher] = thread[Dispatcher]
    BY DEF Unmoved
<1>3. FewerJobs(thread[Dispatcher], thread'[Dispatcher])
    BY <1>2 DEF FewerJobs
<1>4. AfterLosing(thread'[Dispatcher], entry.claim.epoch)
    BY <1>1, <1>2 DEF AfterLosing, Trust, LostMeans
<1>5. Derives(entry, thread[Dispatcher]) => Derives(entry', thread'[Dispatcher])
    BY <1>2 DEF Derives, Registers, SameTrust
<1> QED
    BY <1>1, <1>2, <1>3, <1>4, <1>5, EasesAlone

LEMMA ReadsUphold ==
    ASSUME Inv, Inv', Custody, Trust, NEW asking \in BOOLEAN, PinRead \/ EndRead \/ DropLease(asking)
    PROVE  Upholds
<1>1. UNCHANGED <<thread, queue, sends, underived>> /\ entry \in Entries
    BY Facts DEF PinRead, EndRead, DropLease, Channel
<1>2. SameTrust(entry, entry') /\ entry'.claim = entry.claim
    <2>1. CASE PinRead
        BY <1>1, <2>1 DEF PinRead, SameTrust, Entries
    <2>2. CASE EndRead
        BY <1>1, <2>2 DEF EndRead, Unpin, SameTrust, Entries
    <2>3. CASE DropLease(asking)
        BY <1>1, <2>3 DEF DropLease, GiveBackDemand, SameTrust, Entries
    <2> QED
        BY <2>1, <2>2, <2>3
<1> QED
    BY <1>1, <1>2, CountsUphold

----------------------------------------------------------------------------
(* A leg begun, a job handed off, and the channel                          *)

LEMMA BeginLegUpholds ==
    ASSUME Inv, Inv', Custody, Trust, NEW w \in Workers, BeginLeg(w) PROVE Upholds
<1> DEFINE r == thread[w]
           q == thread'[w]
           epoch == entry.claim.epoch
           claim == BeginJobLeg(FreeSlot(entry.claim, epoch), epoch)
<1>1. /\ r.pc = "received" /\ r.job.epoch = epoch /\ EpochOf(w) = epoch
      /\ Goes(w, "begun", FALSE) /\ UNCHANGED <<queue, sends, underived>>
      /\ entry' = [entry EXCEPT !.claim = claim]
    BY DEF BeginLeg, At, Stands, StandsAtEpoch, StandsAt, EpochOf, Channel
<1>2. /\ w \in Threads /\ entry \in Entries /\ Trusty(entry) /\ epoch \in Nat
      /\ entry.claim \in Claims
    BY Facts, EntryTyped DEF Trust
<1>3. Engaged(entry, r)
    BY <1>1 DEF Engaged, Carries
<1>4. /\ claim.epoch = epoch /\ claim.gate = "held" /\ claim.leg = JobLeg(epoch)
      /\ claim \in Claims
    BY <1>2 DEF BeginJobLeg, SetGate, FreeSlot, AbandonSlot, Claims, JobLeg, Legs, LegKinds
<1> HIDE DEF claim
<1>5. Eases(entry, entry') /\ entry'.claim = claim
    BY <1>1, <1>2, <1>4, SlotEases
<1>6. Unmoved(w) /\ SameWork(r, q) /\ q.pc = "begun" /\ q.after = "idle"
    <2>1. PICK held : Goes(w, "begun", held)
        BY <1>1
    <2> QED
        BY <1>2, <2>1, GoesTo
<1> HIDE DEF q
<1>7. entry.claim.leg'.epoch = entry.claim.epoch'
    BY <1>4, <1>5 DEF JobLeg
<1>8. LegsHold'
    BY <1>2, <1>6, <1>7, LegsStill
<1>9. FewerJobs(r, q)
    BY <1>1, <1>6 DEF FewerJobs, AtWork, SameWork
<1>10. ASSUME NEW kind \in Kinds, OwnAwaits(entry', q, kind) PROVE OwnAwaits(entry, r, kind)
    <2>1. entry'.claim.epoch = entry.claim.epoch /\ ~MarkedFor(entry', kind)
        BY <1>4, <1>5 DEF MarkedFor
    <2> QED
        BY <1>9, <1>10, <2>1, FewerAwaited DEF OwnAwaits
<1>11. ~LostAt(entry', q) /\ AfterLosing(q, entry.claim.epoch') /\ ~Derives(entry, r)
    BY <1>1, <1>6 DEF LostAt, AfterLosing, Derives
<1>12. entry.claim.gate' = "held"
    BY <1>4, <1>5
<1> QED
    BY <1>1, <1>2, <1>3, <1>5, <1>6, <1>8, <1>10, <1>11, <1>12, SoftTrust DEF q

LEMMA HandOffToUpholds ==
    ASSUME Inv, Inv', Custody, Trust, NEW w \in Workers, HandOffTo(w) PROVE Upholds
<1> DEFINE r == thread[w]
           q == thread'[w]
           c == entry.claim
           claim == HandOff(c, r.job.epoch, r.next)
<1>1. /\ r.pc = "handing" /\ UNCHANGED <<queue, sends, underived>>
      /\ entry' = [entry EXCEPT !.claim = claim]
      /\ thread' = [thread EXCEPT ![w] =
             [@ EXCEPT !.pc = "sending", !.next = NoJob, !.followup = thread[w].next,
                       !.after = "ending"]]
    BY DEF HandOffTo, At, EpochOf, Channel
<1>2. /\ w \in Threads /\ r.job \in Jobs /\ Shape(w, r) /\ Stand(entry, r) /\ r \in ThreadStates
    BY <1>1, WorkerIs
<1>3. /\ entry \in Entries /\ Trusty(entry) /\ c.epoch \in Nat /\ c \in Claims
      /\ thread \in [Threads -> ThreadStates] /\ r.job.epoch \in Nat
    BY <1>2, Facts, EntryTyped DEF Inv, ThreadInv, Jobs, Trust
<1>4. r.next # NoJob /\ r.next \in Jobs
    <2>1. r.next # NoJob
        BY <1>1, <1>2 DEF Shape
    <2> QED
        BY <1>2, <2>1, ThreadFacts
<1>5. /\ q.pc = "sending" /\ q.next = NoJob /\ q.followup = r.next /\ q.after = "ending"
      /\ Unmoved(w)
    BY <1>1, <1>2, <1>3 DEF Unmoved, ThreadStates
<1>6. c.gate = "scheduled" => c.marker.epoch = c.epoch
    BY DEF Custody, Settled, Standing
<1>7. /\ claim.epoch = c.epoch
      /\ c.leg = JobLeg(r.job.epoch) => claim.leg = NoLeg
      /\ c.leg # JobLeg(r.job.epoch) => claim.leg = c.leg
      /\ c.gate = "scheduled" /\ r.next.epoch = c.epoch => claim.gate = "held"
      /\ ~(c.gate = "scheduled" /\ r.next.epoch = c.epoch) =>
             claim.gate = c.gate /\ claim.marker = c.marker
    BY <1>3, <1>4, <1>6, HandOffFields
<1>8. claim \in Claims
    <2>1. r.next.epoch \in Nat
        BY <1>4 DEF Jobs
    <2>2. /\ entry' \in Entries /\ claim = entry'.claim
        BY <1>1, <1>3 DEF Inv, Sound, Entries
    <2> QED
        BY <2>2, EntryTyped
<1>9. Registers(entry, r) <=> c.leg = JobLeg(r.job.epoch)
    BY <1>1, <1>2 DEF Registers, LegsRun, LegFor, Jobs, JobKinds
<1>10. r.next.epoch = c.epoch => Registers(entry, r)
    BY <1>2, <1>4 DEF Stand, NextStand, Standing
<1> HIDE DEF claim, q
<1>11. Eases(entry, entry') /\ entry'.claim = claim
    BY <1>1, <1>3, <1>7, <1>8, SlotEases
<1>12. entry'.claim.leg = entry.claim.leg \/ Engaged(entry, r)
    BY <1>7, <1>9, <1>11 DEF Engaged
<1>13. LegsHold'
    <2>1. CASE Registers(entry, r)
        <3>1. entry.claim.leg' = NoLeg
            BY <1>7, <1>9, <1>11, <2>1
        <3> QED
            BY <1>2, <1>5, <3>1, LegsStill
    <2>2. CASE ~Registers(entry, r)
        <3>1. /\ entry.claim.leg' = entry.claim.leg /\ entry.claim.epoch' = entry.claim.epoch
              /\ entry.claim.gate' = entry.claim.gate
            BY <1>7, <1>9, <1>10, <1>11, <2>2
        <3>2. ~Standing(entry, r.next) /\ (InHandOf(entry') <=> InHandOf(entry))
            BY <1>10, <1>11, <2>2 DEF Standing, Eases, InHandOf
        <3>3. CASE InHandOf(entry) /\ entry.claim.gate = "held"
            BY <1>2, <1>5, <3>1, <3>2, <3>3, LegsStill
        <3>4. CASE ~(InHandOf(entry) /\ entry.claim.gate = "held")
            BY <1>2, <1>5, <3>1, <3>2, <3>4, LegsStill
        <3> QED
            BY <3>3, <3>4
    <2> QED
        BY <2>1, <2>2
<1>14. ASSUME NEW kind \in Kinds, OwnAwaits(entry', q, kind) PROVE OwnAwaits(entry, r, kind)
    <2>1. CASE MarkedFor(entry', kind)
        <3>1. ~(c.gate = "scheduled" /\ r.next.epoch = c.epoch)
            BY <1>7, <1>11, <2>1 DEF MarkedFor
        <3> QED
            BY <1>7, <1>11, <2>1, <3>1 DEF MarkedFor, OwnAwaits
    <2>2. CASE WorkOf(entry', q, kind)
        BY <1>5, <1>7, <1>11, <2>2 DEF WorkOf, OwnAwaits, Standing
    <2> QED
        BY <1>14, <2>1, <2>2 DEF OwnAwaits
<1>15. ~LostAt(entry', q) /\ AfterLosing(q, entry.claim.epoch') /\ ~Derives(entry, r)
    BY <1>1, <1>5 DEF LostAt, AfterLosing, Derives
<1>16. entry.claim.gate' = "open" => entry.claim.gate = "open"
    BY <1>7, <1>11
<1> QED
    BY <1>1, <1>2, <1>5, <1>11, <1>12, <1>13, <1>14, <1>15, <1>16, SoftTrust DEF q

\* What a thread carries once its send or its release is over.
LEMMA ResumesTrust ==
    ASSUME Inv, Custody, Trust, NEW t \in Threads, Resumes(t), At(t, "sending") \/ Closes(thread[t])
    PROVE  /\ FewerJobs(thread[t], thread'[t]) /\ ~Standing(entry, thread[t].next)
           /\ thread'[t].pc \notin AtWork \cup {"classifying"}
           /\ thread'[t].followup = NoJob /\ thread'[t].next \in {thread[t].next, NoJob}
           /\ thread'[t].after = "idle"
           /\ thread'[t].pc = "losing" => thread'[t].lost < entry.claim.epoch
           /\ ~LostAt(entry, thread'[t]) /\ ~Derives(entry, thread[t])
<1> DEFINE r == thread[t]
           q == thread'[t]
<1>1. Shape(t, r) /\ Stand(entry, r)
    BY DEF Custody, ThreadsStand
<1>2. r.pc \in {"sending", "releasing", "returning", "reclaiming"}
    BY DEF At, Closes
<1>3. ~Standing(entry, r.next)
    BY <1>1, <1>2 DEF Stand, NextStand
<1>4. ~Derives(entry, r)
    BY <1>2 DEF Derives
<1>5. CASE r.after = "idle"
    <2>1. q = Idle
        BY <1>5, ResumesTo
    <2> QED
        BY <1>3, <1>4, <2>1, IdleIs DEF FewerJobs, AtWork, LostAt, Idle
<1>6. CASE r.after # "idle"
    <2>1. /\ q.pc = r.after /\ q.after = "idle" /\ q.job = r.job /\ q.next = r.next
          /\ q.followup = NoJob
        BY <1>6, ResumesTo
    <2>2. q.lost = r.lost
        <3>1. thread \in [Threads -> ThreadStates] /\ r \in ThreadStates
            BY DEF Inv, ThreadInv
        <3>2. q = Moved([r EXCEPT !.followup = NoJob, !.rel = 0], r.after, FALSE)
            BY <3>1 DEF Resumes
        <3> QED
            BY <1>6, <3>1, <3>2 DEF Moved, ThreadStates
    <2>3. q.pc \in {"ending", "losing", "departing", "handing"}
        BY <1>1, <1>6, <2>1 DEF Shape
    <2>4. q.pc = "losing" => q.lost < entry.claim.epoch
        BY <2>1, <2>2 DEF Trust, LostMeans
    <2>5. entry.claim.epoch \in Nat /\ r.lost \in Nat
        BY Facts, ThreadFacts
    <2>6. ~LostAt(entry, q)
        BY <2>2, <2>3, <2>4, <2>5 DEF LostAt
    <2> QED
        BY <1>3, <1>4, <2>1, <2>3, <2>4, <2>6 DEF FewerJobs, AtWork
<1> QED
    BY <1>5, <1>6

LEMMA RefuseFollowupUpholds ==
    ASSUME Inv, Inv', Custody, Trust, NEW t \in Threads, RefuseFollowup(t) PROVE Upholds
<1> DEFINE r == thread[t]
           q == thread'[t]
           next == r.followup
           freed == FreeSlot(entry.claim, next.epoch)
           claim == IF StandsAt(freed, next.epoch) THEN Mark(freed, next) ELSE freed
<1>1. /\ At(t, "sending") /\ UNCHANGED <<queue, sends, underived>> /\ Resumes(t)
      /\ entry' = [entry EXCEPT !.claim = claim]
    BY DEF RefuseFollowup, Channel
<1>2. entry \in Entries /\ Trusty(entry) /\ entry.claim \in Claims
    BY Facts, EntryTyped DEF Trust
<1>3. next \in Jobs /\ next # NoJob
    BY <1>1, SendingIs
<1>4. /\ freed.epoch = entry.claim.epoch /\ freed.gate = entry.claim.gate
      /\ freed.marker = entry.claim.marker /\ freed.leg = entry.claim.leg /\ freed \in Claims
    BY <1>2 DEF FreeSlot, AbandonSlot, Claims
<1> HIDE DEF freed
<1>5. /\ claim.epoch = entry.claim.epoch /\ claim.leg = entry.claim.leg /\ claim \in Claims
      /\ next.epoch = entry.claim.epoch => claim.gate = "scheduled" /\ claim.marker = next
      /\ next.epoch # entry.claim.epoch =>
             claim.gate = entry.claim.gate /\ claim.marker = entry.claim.marker
    BY <1>3, <1>4 DEF StandsAt, Mark, SetMarker, Claims
<1> HIDE DEF claim, next
<1>6. Eases(entry, entry') /\ entry'.claim = claim
    BY <1>1, <1>2, <1>5, SlotEases
<1>7. /\ FewerJobs(r, q) /\ ~Standing(entry, r.next) /\ q.after = "idle"
      /\ ~LostAt(entry, q) /\ ~Derives(entry, r) /\ Unmoved(t)
    BY <1>1, ResumesTrust, ResumesTo
<1> HIDE DEF q
<1>8. LegsHold'
    <2>1. CASE next.epoch = entry.claim.epoch
        <3>1. entry.claim.gate' # "held"
            BY <1>5, <1>6, <2>1
        <3> QED
            BY <1>7, <3>1, LegsStill
    <2>2. CASE next.epoch # entry.claim.epoch
        <3>1. /\ entry.claim.leg' = entry.claim.leg /\ entry.claim.epoch' = entry.claim.epoch
              /\ entry.claim.gate' = entry.claim.gate /\ (InHandOf(entry') <=> InHandOf(entry))
            BY <1>5, <1>6, <2>2 DEF Eases, InHandOf
        <3>2. CASE InHandOf(entry) /\ entry.claim.gate = "held"
            BY <1>7, <3>1, <3>2, LegsStill
        <3>3. CASE ~(InHandOf(entry) /\ entry.claim.gate = "held")
            BY <1>7, <3>1, <3>3, LegsStill
        <3> QED
            BY <3>2, <3>3
    <2> QED
        BY <2>1, <2>2
<1>9. ASSUME NEW kind \in Kinds, OwnAwaits(entry', q, kind) PROVE OwnAwaits(entry, r, kind)
    <2>1. CASE MarkedFor(entry', kind)
        BY <1>3, <1>5, <1>6, <2>1 DEF MarkedFor, OwnAwaits, WorkOf, Standing, next
    <2>2. CASE WorkOf(entry', q, kind)
        <3>1. entry'.claim.epoch = entry.claim.epoch
            BY <1>5, <1>6
        <3> QED
            BY <1>7, <2>2, <3>1, FewerAwaited DEF OwnAwaits
    <2> QED
        BY <1>9, <2>1, <2>2 DEF OwnAwaits
<1>10. ~LostAt(entry', q) /\ AfterLosing(q, entry.claim.epoch')
    BY <1>5, <1>6, <1>7 DEF LostAt, AfterLosing
<1>11. entry.claim.gate' = "open" => entry.claim.gate = "open"
    BY <1>5, <1>6
<1>12. entry.claim.leg' = entry.claim.leg
    BY <1>5, <1>6
<1> QED
    BY <1>1, <1>6, <1>7, <1>8, <1>9, <1>10, <1>11, <1>12, SoftTrust DEF q

\* A job moves along the channel.
LEMMA ChannelUpholds ==
    ASSUME Inv, Inv', Custody, Trust, NEW t \in Threads, Unmoved(t), UNCHANGED underived,
           Eases(entry, entry'), entry.claim.gate' = entry.claim.gate,
           entry.claim.marker' = entry.claim.marker, entry.claim.leg' = entry.claim.leg,
           \A i \in DOMAIN queue' : Standing(entry, queue'[i]) => Awaited(queue'[i].kind),
           \A job \in sends' : Standing(entry, job) => Awaited(job.kind),
           \A kind \in Kinds : WorkOf(entry, thread'[t], kind) => Awaited(kind),
           Standing(entry, thread[t].next) => Standing(entry, thread'[t].next),
           LostAt(entry, thread'[t]) => LostAt(entry, thread[t]),
           AfterLosing(thread'[t], entry.claim.epoch),
           Derives(entry, thread[t]) => Derives(entry, thread'[t])
    PROVE  Upholds
<1>1. /\ entry'.claim.epoch = entry.claim.epoch /\ (InHandOf(entry') <=> InHandOf(entry))
      /\ \A job : Standing(entry', job) <=> Standing(entry, job)
      /\ entry'.coverage = entry.coverage
    BY DEF Eases, InHandOf, Standing
<1>2. LegsHold'
    <2>1. CASE InHandOf(entry) /\ entry.claim.gate = "held"
        BY <1>1, <2>1, LegsStill
    <2>2. CASE ~InHandOf(entry) \/ entry.claim.gate # "held"
        BY <1>1, <2>2, LegsStill
    <2> QED
        BY <2>1, <2>2
<1>3. \A r : /\ LostAt(entry', r) <=> LostAt(entry, r)
             /\ Derives(entry', r) <=> Derives(entry, r)
             /\ \A kind : WorkOf(entry', r, kind) <=> WorkOf(entry, r, kind)
    BY <1>1 DEF LostAt, Derives, Registers, WorkOf, Standing
<1>4. ASSUME NEW kind \in Kinds, Awaited(kind)' PROVE Awaited(kind)
    <2>1. CASE MarkedFor(entry', kind)
        BY <2>1 DEF MarkedFor, Awaited
    <2>2. CASE \E i \in DOMAIN queue' : Standing(entry', queue'[i]) /\ queue'[i].kind = kind
        BY <1>1, <2>2
    <2>3. CASE \E job \in sends' : Standing(entry', job) /\ job.kind = kind
        BY <1>1, <2>3
    <2>4. CASE \E u \in Threads : WorkOf(entry', thread'[u], kind)
        <3>1. PICK u \in Threads : WorkOf(entry, thread'[u], kind)
            BY <1>3, <2>4
        <3> QED
            BY <3>1 DEF Unmoved, Awaited
    <2> QED
        BY <1>4, <2>1, <2>2, <2>3, <2>4 DEF Awaited
<1>5. LostNow' => LostNow
    BY <1>3 DEF LostNow, Unmoved
<1>6. entry.claim.epoch' >= entry.claim.epoch
    BY <1>1, Facts
<1>7. \A u \in Threads : thread'[u].after = "losing" => thread'[u].lost < entry.claim.epoch'
    <2>1. AfterLosing(thread'[t], entry.claim.epoch')
        BY <1>1
    <2> QED
        BY <1>6, <2>1, OthersAfterLosing
<1>8. (\E u \in Threads : Derives(entry, thread[u])) => \E u \in Threads : Derives(entry', thread'[u])
    BY <1>3 DEF Unmoved
<1>9. entry.claim.gate' = "open" => entry.claim.gate = "open"
    OBVIOUS
<1> QED
    BY <1>2, <1>4, <1>5, <1>7, <1>8, <1>9, SoftlyUpholds

\* What the threads do not take part in.
LEMMA ChannelAlone ==
    ASSUME Inv, Inv', Custody, Trust, UNCHANGED <<thread, underived>>,
           Eases(entry, entry'), entry.claim.gate' = entry.claim.gate,
           entry.claim.marker' = entry.claim.marker, entry.claim.leg' = entry.claim.leg,
           \A i \in DOMAIN queue' : Standing(entry, queue'[i]) => Awaited(queue'[i].kind),
           \A job \in sends' : Standing(entry, job) => Awaited(job.kind)
    PROVE  Upholds
<1>1. Dispatcher \in Threads /\ thread'[Dispatcher] = thread[Dispatcher] /\ Unmoved(Dispatcher)
    BY Facts DEF Unmoved
<1>2. \A kind \in Kinds : WorkOf(entry, thread'[Dispatcher], kind) => Awaited(kind)
    BY <1>1 DEF Awaited
<1>3. AfterLosing(thread'[Dispatcher], entry.claim.epoch)
    BY <1>1 DEF AfterLosing, Trust, LostMeans
<1> QED
    BY <1>1, <1>2, <1>3, ChannelUpholds

LEMMA SendFollowupUpholds ==
    ASSUME Inv, Inv', Custody, Trust, NEW t \in Threads, SendFollowup(t) PROVE Upholds
<1> DEFINE r == thread[t]
           q == thread'[t]
<1>1. /\ At(t, "sending") /\ Resumes(t) /\ queue' = Append(queue, r.followup)
      /\ UNCHANGED <<entry, sends, underived>>
    BY DEF SendFollowup
<1>2. r.followup \in Jobs
    BY <1>1, SendingIs
<1>3. /\ FewerJobs(r, q) /\ ~Standing(entry, r.next) /\ q.after = "idle"
      /\ ~LostAt(entry, q) /\ ~Derives(entry, r) /\ Unmoved(t)
    BY <1>1, ResumesTrust, ResumesTo
<1> HIDE DEF q
<1>4. Eases(entry, entry')
    BY <1>1, SameEases DEF SameTrust, Trust
<1>5. ASSUME NEW i \in DOMAIN queue', Standing(entry, queue'[i]) PROVE Awaited(queue'[i].kind)
    <2>1. CASE i \in DOMAIN queue
        <3>1. queue'[i] = queue[i]
            BY <1>1, <1>2, <2>1, Appended
        <3> QED
            BY <1>5, <2>1, <3>1 DEF Awaited
    <2>2. CASE i \notin DOMAIN queue
        <3>1. queue'[i] = r.followup
            BY <1>1, <1>2, <2>2, Appended
        <3>2. WorkOf(entry, r, queue'[i].kind)
            BY <1>5, <3>1 DEF WorkOf
        <3> QED
            BY <3>2 DEF Awaited
    <2> QED
        BY <2>1, <2>2
<1>6. \A job \in sends' : Standing(entry, job) => Awaited(job.kind)
    BY <1>1 DEF Awaited
<1>7. ASSUME NEW kind \in Kinds, WorkOf(entry, q, kind) PROVE Awaited(kind)
    <2>1. WorkOf(entry, r, kind)
        BY <1>3, <1>7, FewerAwaited
    <2> QED
        BY <2>1 DEF Awaited
<1>8. AfterLosing(q, entry.claim.epoch)
    BY <1>3 DEF AfterLosing
<1> QED
    BY <1>1, <1>3, <1>4, <1>5, <1>6, <1>7, <1>8, ChannelUpholds DEF q

LEMMA ReceiveUpholds ==
    ASSUME Inv, Inv', Custody, Trust, NEW w \in Workers, Receive(w) PROVE Upholds
<1> DEFINE r == thread[w]
           q == thread'[w]
<1>1. /\ r.pc = "idle" /\ queue # <<>> /\ queue' = Tail(queue) /\ UNCHANGED <<entry, sends, underived>>
      /\ thread' = [thread EXCEPT ![w] = [Idle EXCEPT !.pc = "received", !.job = Head(queue)]]
    BY DEF Receive, At
<1>2. w \in Threads /\ thread \in [Threads -> ThreadStates]
    BY Facts DEF Inv, ThreadInv
<1>3. /\ Unmoved(w) /\ q.pc = "received" /\ q.job = Head(queue) /\ q.next = NoJob
      /\ q.followup = NoJob /\ q.after = "idle"
    BY <1>1, <1>2 DEF Unmoved, Idle
<1> HIDE DEF q
<1>4. Head(queue) = queue[1] /\ 1 \in DOMAIN queue /\ Head(queue) \in Jobs
    BY <1>1, TakenOff
<1>5. Eases(entry, entry')
    BY <1>1, SameEases DEF SameTrust, Trust
<1>6. ASSUME NEW i \in DOMAIN queue', Standing(entry, queue'[i]) PROVE Awaited(queue'[i].kind)
    <2>1. i + 1 \in DOMAIN queue /\ queue'[i] = queue[i + 1]
        BY <1>1, TakenOff
    <2>2. PICK j \in DOMAIN queue : queue'[i] = queue[j]
        BY <2>1
    <2> QED
        BY <1>6, <2>2 DEF Awaited
<1>7. \A job \in sends' : Standing(entry, job) => Awaited(job.kind)
    BY <1>1 DEF Awaited
<1>8. ASSUME NEW kind \in Kinds, WorkOf(entry, q, kind) PROVE Awaited(kind)
    <2>1. Head(queue).kind = kind /\ Head(queue).epoch = entry.claim.epoch
        BY <1>3, <1>8 DEF WorkOf, Standing
    <2>2. Standing(entry, queue[1]) /\ queue[1].kind = kind
        BY <1>4, <2>1 DEF Standing, Jobs, JobKinds, NoJob
    <2> QED
        BY <1>4, <2>2 DEF Awaited
<1>9. r.next = NoJob /\ ~Derives(entry, r) /\ ~LostAt(entry, q) /\ AfterLosing(q, entry.claim.epoch)
    <2>1. r = Idle
        BY <1>1, <1>2 DEF Custody, ThreadsStand, Shape
    <2> QED
        BY <1>3, <2>1 DEF Idle, Derives, LostAt, AfterLosing
<1>10. Standing(entry, r.next) => Standing(entry, q.next)
    BY <1>9 DEF Standing
<1> QED
    BY <1>1, <1>2, <1>3, <1>5, <1>6, <1>7, <1>8, <1>9, <1>10, ChannelUpholds DEF q

LEMMA TakeMarkedUpholds ==
    ASSUME Inv, Inv', Custody, Trust, TakeMarked PROVE Upholds
<1> DEFINE claim == TakeSlotForMarked(entry.claim)
<1>1. /\ entry.claim.gate = "scheduled" /\ sends' = sends \cup {entry.claim.marker}
      /\ entry' = [entry EXCEPT !.claim = claim]
      /\ UNCHANGED <<thread, queue, underived>>
    BY DEF TakeMarked, MarkedIsFree
<1>2. entry \in Entries /\ Trusty(entry) /\ entry.claim \in Claims
    BY Facts, EntryTyped DEF Trust
<1>3. entry.claim.marker.epoch \in Nat
    BY <1>1 DEF Custody, Settled, Jobs
<1>4. /\ claim.epoch = entry.claim.epoch /\ claim.gate = entry.claim.gate /\ claim \in Claims
      /\ claim.marker = entry.claim.marker /\ claim.leg = entry.claim.leg
    BY <1>2, <1>3 DEF TakeSlotForMarked, TakeSlot, Claims
<1> HIDE DEF claim
<1>5. Eases(entry, entry') /\ entry'.claim = claim
    BY <1>1, <1>2, <1>4, SlotEases
<1>6. \A i \in DOMAIN queue' : Standing(entry, queue'[i]) => Awaited(queue'[i].kind)
    BY <1>1 DEF Awaited
<1>7. \A job \in sends' : Standing(entry, job) => Awaited(job.kind)
    BY <1>1 DEF Awaited, MarkedFor
<1> QED
    BY <1>1, <1>4, <1>5, <1>6, <1>7, ChannelAlone

LEMMA SendMarkedUpholds ==
    ASSUME Inv, Inv', Custody, Trust, NEW job, SendMarked(job) PROVE Upholds
<1>1. /\ job \in sends /\ sends' = sends \ {job} /\ queue' = Append(queue, job)
      /\ UNCHANGED <<entry, thread, underived>>
    BY DEF SendMarked
<1>2. job \in Jobs
    BY <1>1 DEF Inv, ChannelInv
<1>3. Eases(entry, entry')
    BY <1>1, SameEases DEF SameTrust, Trust
<1>4. ASSUME NEW i \in DOMAIN queue', Standing(entry, queue'[i]) PROVE Awaited(queue'[i].kind)
    <2>1. CASE i \in DOMAIN queue
        <3>1. queue'[i] = queue[i]
            BY <1>1, <1>2, <2>1, Appended
        <3> QED
            BY <1>4, <2>1, <3>1 DEF Awaited
    <2>2. CASE i \notin DOMAIN queue
        <3>1. queue'[i] = job
            BY <1>1, <1>2, <2>2, Appended
        <3> QED
            BY <1>1, <1>4, <3>1 DEF Awaited
    <2> QED
        BY <2>1, <2>2
<1>5. \A other \in sends' : Standing(entry, other) => Awaited(other.kind)
    BY <1>1 DEF Awaited
<1> QED
    BY <1>1, <1>3, <1>4, <1>5, ChannelAlone

LEMMA RefuseMarkedUpholds ==
    ASSUME Inv, Inv', Custody, Trust, NEW job, RefuseMarked(job) PROVE Upholds
<1> DEFINE claim == FreeSlot(entry.claim, job.epoch)
<1>1. /\ job \in sends /\ sends' = sends \ {job}
      /\ entry' = [entry EXCEPT !.claim = claim] /\ UNCHANGED <<thread, queue, underived>>
    BY DEF RefuseMarked
<1>2. entry \in Entries /\ Trusty(entry) /\ entry.claim \in Claims
    BY Facts, EntryTyped DEF Trust
<1>3. /\ claim.epoch = entry.claim.epoch /\ claim.gate = entry.claim.gate /\ claim \in Claims
      /\ claim.marker = entry.claim.marker /\ claim.leg = entry.claim.leg
    BY <1>2 DEF FreeSlot, AbandonSlot, Claims
<1> HIDE DEF claim
<1>4. Eases(entry, entry') /\ entry'.claim = claim
    BY <1>1, <1>2, <1>3, SlotEases
<1>5. \A i \in DOMAIN queue' : Standing(entry, queue'[i]) => Awaited(queue'[i].kind)
    BY <1>1 DEF Awaited
<1>6. \A other \in sends' : Standing(entry, other) => Awaited(other.kind)
    BY <1>1 DEF Awaited
<1> QED
    BY <1>1, <1>3, <1>4, <1>5, <1>6, ChannelAlone

----------------------------------------------------------------------------
(* The ends of a leg that stay                                             *)

\* What a thread past its work carries, and what it does not.
PastWork(r) ==
    /\ r.pc \notin AtWork \cup {"classifying", "losing", "unwound"}
    /\ r.next = NoJob /\ r.followup = NoJob /\ r.after # "losing"

LEMMA PastWorkIs ==
    ASSUME NEW r, PastWork(r), NEW s
    PROVE  /\ \A kind : ~WorkOf(s, r, kind)
           /\ ~LostAt(s, r) /\ AfterLosing(r, s.claim.epoch)
           /\ \A kind : OwnAwaits(s, r, kind) => MarkedFor(s, kind)
BY DEF PastWork, WorkOf, AtWork, LostAt, AfterLosing, Standing, OwnAwaits

LEMMA AttachRefusedUpholds ==
    ASSUME Inv, Inv', Custody, Custody', Trust, NEW w \in Workers, AttachRefused(w)
    PROVE  Upholds
<1> DEFINE r == thread[w]
           q == thread'[w]
<1>1. /\ At(w, "begun") \/ At(w, "working")
      /\ KindOf(w) = "Attach" /\ UNCHANGED <<queue, sends, underived>>
      /\ Goes(w, "ending", FALSE)
      /\ \/ entry' = entry
         \/ Stands(w) /\ \/ entry' = ParkIdentityRefusal(ReleaseGate(entry))
                         \/ entry' = ParkIdentityRefusal([ReleaseGate(entry) EXCEPT !.damage = FALSE])
    BY DEF AttachRefused, Channel
<1>2. /\ w \in Threads /\ Registers(entry, r) /\ r.job.kind = "Attach"
      /\ Stands(w) => entry.claim.gate = "held" /\ ~entry.detach_in_flight
      /\ entry.coverage = NoCoverage /\ entry \in Entries /\ entry.claim \in Claims
    BY <1>1, AttachingIs
<1>3. CASE entry' = entry
    <2>1. ~Derives(entry, r)
        BY <1>2 DEF Derives
    <2> QED
        BY <1>1, <1>2, <1>3, <2>1, GoesAlone DEF AtWork
<1>4. CASE /\ Stands(w)
           /\ \/ entry' = ParkIdentityRefusal(ReleaseGate(entry))
              \/ entry' = ParkIdentityRefusal([ReleaseGate(entry) EXCEPT !.damage = FALSE])
    <2>1. PICK p : p = entry'
        OBVIOUS
    <2>2. /\ p.claim = Release(entry.claim) /\ p.coverage = entry.coverage
          /\ p.detach_in_flight = entry.detach_in_flight /\ p.trust = "Untrusted"
          /\ p.recovery_required = entry.recovery_required
          /\ p.rebuild_required = entry.rebuild_required /\ p.awaits = entry.awaits
        BY <1>2, <1>4, <2>1 DEF ParkIdentityRefusal, SetTrust, ReleaseGate, Entries
    <2>3. p.claim.epoch = entry.claim.epoch /\ p.claim.gate = "open"
        BY <1>2, <1>4, <2>2, GateFields DEF ClaimIs
    <2>4. ~AccountedFor(p.coverage) /\ ~InHandOf(p) /\ ~Kept(p) /\ ~AccountedFor(entry.coverage)
        BY <1>2, <2>2 DEF AccountedFor, InHandOf, InHand, Kept, OnLeg, NoCoverage
    <2>5. Trusty(p)
        BY <2>2, <2>4 DEF Trust, Trusty, ReadyMeans, KeptMeans, RungsMean
    <2>6. p \in Entries
        BY <2>1 DEF Inv, Sound
    <2>7. Arranged(p, entry') /\ GateMeans(p) /\ Passes(entry, p) /\ LostGround(p)
        BY <2>1, <2>2, <2>4, <2>5, UnarrangedIs DEF GateMeans, Passes, Covered, LostGround
    <2>8. PICK held : Goes(w, "ending", held)
        BY <1>1
    <2>9. Unmoved(w) /\ q.pc = "ending" /\ q.after = "idle"
        BY <1>2, <2>8, GoesTo
    <2>10. ~LostAt(entry', q) /\ AfterLosing(q, entry.claim.epoch)
        BY <2>9 DEF LostAt, AfterLosing
    <2>11. Engaged(entry, r) /\ p.claim.epoch >= entry.claim.epoch
        BY <1>2, <2>3, Facts DEF Engaged
    <2> HIDE <2>1
    <2> QED
        BY <1>1, <1>2, <2>3, <2>4, <2>6, <2>7, <2>9, <2>10, <2>11, ArrangedUpholds
<1> QED
    BY <1>1, <1>3, <1>4

LEMMA TakesCoverageUpholds ==
    ASSUME Inv, Inv', Custody, Trust, NEW w \in Workers, TakesCoverage(w) PROVE Upholds
<1> DEFINE r == thread[w]
           q == thread'[w]
           leg == LegOf(w)
           taken == TakeForLeg(entry, leg)
           epoch == entry.claim.epoch
<1>1. /\ r.pc = "begun" /\ KindOf(w) \in CoverageJobs /\ r.job.epoch = epoch
      /\ InHandOf(entry) /\ Goes(w, "working", TRUE) /\ UNCHANGED <<queue, sends, underived>>
      /\ entry' = IF KindOf(w) = "Reconcile" THEN TakeFacts(taken) ELSE taken
    BY DEF TakesCoverage, At, Stands, StandsAtEpoch, StandsAt, EpochOf, Channel
<1>2. /\ w \in Threads /\ Shape(w, r) /\ Stand(entry, r) /\ KindOf(w) = r.job.kind
      /\ LegFor(r) = leg /\ leg = JobLeg(r.job.epoch) /\ r.job.kind \in JobKinds
    BY <1>1, WorkerIs
<1>3. entry \in Entries /\ leg \in Legs /\ leg.epoch = epoch /\ epoch \in Nat /\ Trusty(entry)
      /\ leg.epoch \in 0..epoch /\ Sound(entry)
    BY <1>1, <1>2, Facts, ThreadFacts DEF EpochOf, Trust
<1>4. /\ Registers(entry, r) /\ Engaged(entry, r) /\ entry.claim.leg = leg
      /\ entry.claim.gate = "held" /\ ~entry.detach_in_flight
    BY <1>1, <1>2 DEF Stand, LiveStand, Live, Registers, Engaged
<1>5. WorkOf(entry, r, r.job.kind)
    BY <1>1 DEF WorkOf
<1>6. Awaited(r.job.kind) /\ r.job.kind \in Kinds /\ Suits(entry, r.job.kind)
    BY <1>2, <1>5 DEF Awaited, Trust, JobsSuit, Kinds
<1>7. taken \in Entries
    BY <1>3, PinKeeps DEF Keeps, Sound
<1>8. /\ taken.claim = entry.claim /\ taken.coverage = OnLeg(epoch)
      /\ taken.detach_in_flight = entry.detach_in_flight
      /\ taken.trust = entry.trust /\ taken.pending = entry.pending
      /\ taken.recovery_required = entry.recovery_required
      /\ taken.rebuild_required = entry.rebuild_required /\ taken.awaits = entry.awaits
      /\ SameParks(entry, taken)
    <2>1. taken.coverage = TakeCoverage(entry.coverage, leg.epoch)
        BY <1>3, TakeForLegFields
    <2>2. taken.coverage = OnLeg(epoch)
        BY <1>1, <1>3, <2>1 DEF TakeCoverage, InHandOf
    <2> QED
        BY <1>3, <2>2 DEF TakeForLeg, PinForLeg, Entries, SameParks
<1> HIDE DEF taken, leg
<1>9. PICK p : p = entry'
    OBVIOUS
<1>10. /\ p.claim = entry.claim /\ p.coverage = OnLeg(epoch) /\ ~p.detach_in_flight
       /\ p.recovery_required = entry.recovery_required
       /\ p.rebuild_required = entry.rebuild_required /\ p.awaits = entry.awaits
       /\ SameParks(entry, p)
       /\ r.job.kind # "Reconcile" => p.trust = entry.trust /\ p.pending = entry.pending
       /\ r.job.kind = "Reconcile" =>
              p.trust = IF entry.trust \in Warm \cup Distrust THEN entry.trust ELSE "Healing"
    <2>1. CASE r.job.kind # "Reconcile"
        BY <1>1, <1>2, <1>4, <1>8, <1>9, <2>1
    <2>2. CASE r.job.kind = "Reconcile"
        <3>1. p = TakeFacts(taken)
            BY <1>1, <1>2, <1>9, <2>2
        <3> QED
            BY <1>4, <1>7, <1>8, <2>2, <3>1 DEF TakeFacts, ClearPending, SetTrust, Entries, SameParks
    <2> QED
        BY <2>1, <2>2
<1>11. /\ OwesARung(p) <=> OwesARung(entry)
       /\ StandsParked(p) <=> StandsParked(entry)
       /\ Kept(entry) /\ AccountedFor(entry.coverage) /\ AccountedFor(p.coverage) /\ ~InHandOf(p)
       /\ p.claim.epoch = epoch
    BY <1>1, <1>10, ParksSame
       DEF OwesARung, Kept, InHandOf, InHand, AccountedFor, OnLeg
<1>12. Trusty(p)
    <2>1. p.trust = "Ready" => entry.trust = "Ready"
        BY <1>10
    <2>2. ReadyMeans(p)
        BY <1>3, <1>10, <1>11, <2>1 DEF Trusty, ReadyMeans, OnLeg
    <2>3. p.trust # "Unattached" /\ (p.trust \in {"Untrusted", "Rebuilding"} => p.trust = entry.trust)
        BY <1>3, <1>10, <1>11 DEF Trusty, KeptMeans
    <2>4. p.rebuild_required => p.trust = "Rebuilding"
        BY <1>3, <1>10, <1>11 DEF Trusty, KeptMeans, Distrust
    <2>5. KeptMeans(p)
        BY <1>3, <1>11, <2>3, <2>4 DEF Trusty, KeptMeans
    <2>6. RungsMean(p)
        BY <1>3, <1>6, <1>10, <1>11 DEF Trusty, RungsMean, Suits, OwesARung
    <2> QED
        BY <2>2, <2>5, <2>6 DEF Trusty
<1>13. Unmoved(w) /\ SameWork(r, q) /\ q.pc = "working" /\ q.after = "idle"
    <2>1. PICK held : Goes(w, "working", held)
        BY <1>1
    <2> QED
        BY <1>2, <2>1, GoesTo
<1>14. r.next = NoJob /\ r.followup = NoJob
    BY <1>1, <1>2 DEF Shape
<1>15. q.job = r.job /\ q.next = NoJob /\ q.followup = NoJob
    BY <1>13, <1>14 DEF SameWork
<1> HIDE DEF q
<1>16. ASSUME NEW kind, OwnAwaits(p, q, kind) PROVE kind = r.job.kind
    BY <1>4, <1>10, <1>13, <1>15, <1>16 DEF OwnAwaits, MarkedFor, WorkOf, Standing
<1>17. Suits(p, r.job.kind)
    BY <1>6, <1>10, <1>11 DEF Suits
<1>18. ~LostAt(p, q)
    BY <1>13 DEF LostAt
<1>19. LostNow => LostOver(q, p)
    <2>1. LostNow => LostGround(entry) /\ r.job.kind \in Spared
        BY <1>6 DEF Trust, LostMeans
    <2>2. LostNow => LostGround(p)
        BY <1>10, <1>11, <2>1 DEF LostGround, Spared
    <2> QED
        BY <1>16, <2>1, <2>2 DEF LostOver
<1>20. underived /\ AccountedFor(p.coverage) => Minds(p) \/ Derives(p, q)
    <2>1. CASE r.job.kind = "Reconcile"
        <3>1. Registers(p, q)
            BY <1>2, <1>4, <1>10, <1>13, <1>15 DEF Registers, LegsRun, LegFor
        <3> QED
            BY <1>1, <1>10, <1>11, <1>13, <1>15, <2>1, <3>1 DEF Derives
    <2>2. CASE r.job.kind # "Reconcile"
        <3>1. \A u : ~Derives(entry, u)
            BY <1>1 DEF Derives, InHandOf, InHand, OnLeg
        <3>2. underived => Minds(entry)
            BY <1>11, <3>1 DEF Trust, FactsStand
        <3> QED
            BY <1>4, <1>10, <1>11, <2>2, <3>2 DEF Minds
    <2> QED
        BY <2>1, <2>2
<1>21. GateMeans(p) /\ Passes(entry, p)
    BY <1>4, <1>10, <1>11 DEF GateMeans, Passes, Covered
<1>22. LegsHold'
    <2>1. ~InHandOf(entry')
        BY <1>9, <1>11
    <2> QED
        BY <2>1 DEF LegsHold
<1>23. entry.claim.epoch' >= entry.claim.epoch /\ AfterLosing(q, entry.claim.epoch')
    BY <1>3, <1>9, <1>11, <1>13 DEF AfterLosing
<1>24. Trust'
    BY <1>1, <1>2, <1>4, <1>9, <1>12, <1>13, <1>16, <1>17, <1>18, <1>19, <1>20, <1>21, <1>22,
       <1>23, SoloTrust DEF q
<1> QED
    BY <1>9, <1>21, <1>24 DEF Upholds

LEMMA WorkedStaleUpholds ==
    ASSUME Inv, Inv', Custody, Trust, NEW w \in Workers, WorkedStale(w) PROVE Upholds
<1> DEFINE u == Unpinned(w)
           r == thread[w]
           q == thread'[w]
           back == [u EXCEPT !.coverage = ReleasedBy(@, EpochOf(w))]
<1>1. /\ At(w, "working") /\ KindOf(w) # "Attach" /\ ~Stands(w)
      /\ UNCHANGED <<queue, sends, underived>>
      /\ \/ entry' = u /\ Goes(w, "ending", TRUE)
         \/ entry' = back /\ Goes(w, "ending", FALSE)
    BY DEF WorkedStale, CoverageJobs, Channel
<1>2. /\ w \in Threads /\ Engaged(entry, r) /\ ~InHandOf(entry)
      /\ entry.coverage = OnLeg(EpochOf(w)) /\ r.next = NoJob /\ r.followup = NoJob
      /\ entry.claim.gate = "held" \/ entry.detach_in_flight
    BY <1>1, WorkingIs
<1>3. u \in Entries /\ SameTrust(entry, u) /\ u.claim = entry.claim /\ entry.claim.epoch \in Nat
    BY <1>2, UnpinnedHeal, Facts DEF Unpinned
<1>4. EpochOf(w) # entry.claim.epoch /\ EpochOf(w) = r.job.epoch
    BY <1>1 DEF Stands, StandsAtEpoch, StandsAt, EpochOf
<1>5. PICK held : Goes(w, "ending", held)
    BY <1>1
<1>6. Unmoved(w) /\ SameWork(r, q) /\ q.pc = "ending" /\ q.after = "idle"
    BY <1>2, <1>5, GoesTo
<1>7. PastWork(q) /\ ~Derives(entry, r)
    BY <1>2, <1>4, <1>6 DEF PastWork, AtWork, SameWork, Derives
<1> HIDE DEF u, q
<1>8. CASE entry' = u
    <2>1. Eases(entry, entry')
        BY <1>3, <1>8, SameEases DEF Trust
    <2>2. FewerJobs(r, q) /\ q.next = r.next
        BY <1>6 DEF FewerJobs, AtWork, SameWork
    <2>3. ~LostAt(entry, q) /\ AfterLosing(q, entry.claim.epoch)
        BY <1>7, PastWorkIs
    <2> QED
        BY <1>1, <1>2, <1>3, <1>6, <1>7, <1>8, <2>1, <2>2, <2>3, EasesAlone DEF q
<1>9. CASE entry' = back
    <2>1. PICK p : p = entry'
        OBVIOUS
    <2>2. /\ p.claim = entry.claim /\ p.coverage = NoCoverage
          /\ p.detach_in_flight = entry.detach_in_flight /\ p.trust = entry.trust
          /\ p.recovery_required = entry.recovery_required
          /\ p.rebuild_required = entry.rebuild_required /\ p.awaits = entry.awaits
        BY <1>2, <1>3, <1>9, <2>1 DEF SameTrust, ReleasedBy, Entries
    <2>3. entry.trust # "Ready"
        BY <1>2, <1>4 DEF Trust, Trusty, ReadyMeans, OutWithLeg, OnLeg
    <2>4. ~AccountedFor(p.coverage) /\ ~InHandOf(p) /\ ~Kept(p)
        BY <2>2 DEF AccountedFor, InHandOf, InHand, Kept, OnLeg, NoCoverage
    <2>5. Trusty(p) /\ GateMeans(p) /\ LostGround(p) /\ Passes(entry, p)
        BY <2>2, <2>3, <2>4
           DEF Trust, Trusty, ReadyMeans, KeptMeans, RungsMean, GateMeans, LostGround, Passes, Covered
    <2>6. entry.claim.gate # "scheduled"
        BY <1>2 DEF Custody, Settled
    <2>7. \A kind : ~OwnAwaits(p, q, kind)
        BY <1>7, <2>2, <2>6, PastWorkIs DEF MarkedFor
    <2>8. LegsHold'
        BY <2>1, <2>4 DEF LegsHold
    <2>9. ~LostAt(p, q) /\ AfterLosing(q, p.claim.epoch) /\ LostOver(q, p)
        BY <1>7, <2>5, <2>7, PastWorkIs DEF LostOver
    <2>10. entry.claim.epoch' >= entry.claim.epoch
        BY <1>3, <2>1, <2>2
    <2>11. Trust'
        BY <1>1, <1>2, <1>6, <2>1, <2>4, <2>5, <2>7, <2>8, <2>9, <2>10, SoloTrust DEF q
    <2> QED
        BY <2>1, <2>5, <2>11 DEF Upholds
<1> QED
    BY <1>1, <1>8, <1>9

----------------------------------------------------------------------------
(* A leg closed                                                            *)

\* q says what s says, of its coverage apart.
SameWord(s, q) ==
    /\ q.claim.epoch = s.claim.epoch /\ q.detach_in_flight = s.detach_in_flight
    /\ q.trust = s.trust /\ q.pending = s.pending
    /\ q.recovery_required = s.recovery_required /\ q.rebuild_required = s.rebuild_required
    /\ q.awaits = s.awaits
    /\ q.contended = s.contended /\ q.duplicate = s.duplicate /\ q.identity = s.identity

\* Coverage let go: what a leg of the past had out, or nothing.
LetsGo(s, q) ==
    \/ q.coverage = s.coverage
    \/ q.coverage = NoCoverage /\ OutWithLeg(s.coverage) /\ s.coverage.leg # s.claim.epoch

LEMMA LetsGoTrusty ==
    ASSUME NEW s, NEW q, SameWord(s, q), LetsGo(s, q), Trusty(s)
    PROVE  /\ Trusty(q) /\ Passes(s, q) /\ (LostGround(s) => LostGround(q))
           /\ (Minds(s) => Minds(q)) /\ (InHandOf(q) => InHandOf(s))
           /\ AccountedFor(q.coverage) => AccountedFor(s.coverage)
           /\ \A kind : Suits(s, kind) => Suits(q, kind)
<1>1. CASE q.coverage = s.coverage
    <2>1. SameTrust(s, q)
        BY <1>1 DEF SameTrust, SameWord
    <2> QED
        BY <1>1, <2>1, SameTrusty DEF InHandOf
<1>2. CASE q.coverage = NoCoverage /\ OutWithLeg(s.coverage) /\ s.coverage.leg # s.claim.epoch
    <2>1. /\ ~AccountedFor(q.coverage) /\ ~InHandOf(q) /\ ~Kept(q)
          /\ OwesARung(q) <=> OwesARung(s)
        BY <1>2 DEF AccountedFor, InHandOf, InHand, Kept, OnLeg, NoCoverage, OwesARung, SameWord
    <2>2. s.trust # "Ready"
        BY <1>2 DEF Trusty, ReadyMeans
    <2>3. Trusty(q)
        BY <2>1, <2>2 DEF Trusty, ReadyMeans, KeptMeans, RungsMean, SameWord
    <2>4. Passes(s, q) /\ LostGround(q) /\ (Minds(s) => Minds(q))
          /\ \A kind : Suits(s, kind) => Suits(q, kind)
        BY <2>1, <2>2 DEF Passes, Covered, LostGround, Minds, SameWord, Suits
    <2> QED
        BY <2>1, <2>3, <2>4
<1> QED
    BY <1>1, <1>2 DEF LetsGo

\* Facts not derived are minded, unless a thread derives them.
LEMMA FactsMinded ==
    ASSUME Custody, Trust, NEW t \in Threads, Engaged(entry, thread[t]),
           ~Derives(entry, thread[t]), underived, AccountedFor(entry.coverage)
    PROVE  Minds(entry)
<1> SUFFICES ASSUME NEW u \in Threads, Derives(entry, thread[u]) PROVE FALSE
    BY DEF Trust, FactsStand
<1>1. Engaged(entry, thread[u]) /\ u # t
    BY DEF Derives, Engaged
<1> QED
    BY <1>1, EngagedAlone

LEMMA ClosedUpholds ==
    ASSUME Inv, Inv', Custody, Custody', Trust, NEW t \in Threads, Rests(t),
           UNCHANGED <<queue, sends, underived>>, Engaged(entry, thread[t]),
           ~Derives(entry, thread[t]), NEW s \in Entries, SameWord(entry, s), LetsGo(entry, s),
           s.claim.gate = "open", Resting(s),
           InHandOf(s) => entry.claim.gate = "open" \/ ~entry.rebuild_required,
           entry' \in {PublishDamageOrDemandedWork(s), PublishDamage(s)}
    PROVE  Upholds
<1>1. /\ Trusty(s) /\ Passes(entry, s) /\ (LostGround(entry) => LostGround(s))
      /\ (Minds(entry) => Minds(s)) /\ (InHandOf(s) => InHandOf(entry))
      /\ AccountedFor(s.coverage) => AccountedFor(entry.coverage)
    BY LetsGoTrusty DEF Trust
<1>2. Arranged(s, entry')
    BY <1>1, WaysToArrange, PublishArranged
<1>3. GateMeans(s)
    BY <1>1 DEF Trust, GateMeans, SameWord
<1>4. underived /\ AccountedFor(s.coverage) => Minds(s)
    BY <1>1, FactsMinded
<1>5. Unmoved(t) /\ thread'[t] = Idle
    BY RestsTo
<1>6. ~LostAt(entry', thread'[t]) /\ AfterLosing(thread'[t], entry.claim.epoch)
    BY <1>5 DEF LostAt, AfterLosing, Idle
<1>7. LostNow => LostGround(s)
    BY <1>1 DEF Trust, LostMeans
<1>8. s.claim.epoch >= entry.claim.epoch
    BY Facts DEF SameWord
<1> QED
    BY <1>1, <1>2, <1>3, <1>4, <1>5, <1>6, <1>7, <1>8, ArrangedUpholds

\* Under a window, what a leg had goes with the release.
LEMMA ClosedUnderWindow ==
    ASSUME Inv, Inv', Custody, Custody', Trust, NEW t \in Threads, Unmoved(t),
           UNCHANGED <<queue, sends, underived>>, Engaged(entry, thread[t]),
           SameWord(entry, entry'), entry.detach_in_flight, entry'.claim.gate = "open",
           entry'.coverage \in {entry.coverage, NoCoverage},
           thread'[t].pc = "releasing", thread'[t].after = "idle"
    PROVE  Upholds
<1>1. PICK p : p = entry'
    OBVIOUS
<1>2. /\ SameWord(entry, p) /\ p.detach_in_flight /\ p.claim.gate = "open" /\ p \in Entries
      /\ p.coverage \in {entry.coverage, NoCoverage} /\ p.claim.epoch = entry.claim.epoch
    BY <1>1 DEF SameWord, Inv, Sound
<1>3. entry.trust # "Ready" /\ ~InHandOf(entry) /\ Trusty(entry)
    BY DEF Trust, Trusty, ReadyMeans, Custody, Settled
<1>4. ~InHandOf(p) /\ ~Kept(p) /\ (AccountedFor(p.coverage) => AccountedFor(entry.coverage))
    BY <1>2, <1>3 DEF InHandOf, InHand, Kept, AccountedFor, NoCoverage
<1>5. Trusty(p)
    BY <1>2, <1>3, <1>4 DEF Trusty, ReadyMeans, KeptMeans, RungsMean, SameWord
<1>6. Arranged(p, entry') /\ GateMeans(p) /\ Passes(entry, p) /\ Minds(p)
    BY <1>1, <1>2, <1>4, <1>5, UnarrangedIs DEF GateMeans, Passes, Minds
<1>7. LostNow => LostGround(p)
    BY <1>2, <1>4 DEF Trust, LostMeans, LostGround, SameWord
<1>8. ~LostAt(entry', thread'[t]) /\ AfterLosing(thread'[t], entry.claim.epoch)
    BY DEF LostAt, AfterLosing
<1>9. p.claim.epoch >= entry.claim.epoch
    BY <1>2, Facts
<1> HIDE <1>1
<1> QED
    BY <1>2, <1>6, <1>7, <1>8, <1>9, ArrangedUpholds

LEMMA CloseLegUpholds ==
    ASSUME Inv, Inv', Custody, Custody', Trust, NEW w \in Workers, CloseLeg(w) PROVE Upholds
<1> DEFINE r == thread[w]
           epoch == EpochOf(w)
           ended == [entry EXCEPT !.claim = EndJobLeg(@, epoch),
                                  !.coverage = ReleasedBy(@, epoch)]
           opened == ReleaseGate(ended)
<1>1. /\ r.pc = "closing" /\ r.pc # "idle" /\ UNCHANGED <<queue, sends, underived>>
      /\ \/ entry.claim.leg # JobLeg(epoch) /\ entry' = entry /\ Rests(w)
         \/ /\ entry.claim.leg = JobLeg(epoch) /\ entry.detach_in_flight
            /\ entry' = ended /\ GoesReleasing(w, FALSE, epoch, "idle")
         \/ /\ entry.claim.leg = JobLeg(epoch) /\ ~entry.detach_in_flight /\ ~Stands(w)
            /\ entry' = PublishDamageOrDemandedWork(opened) /\ Rests(w)
         \/ /\ entry.claim.leg = JobLeg(epoch) /\ ~entry.detach_in_flight /\ Stands(w)
            /\ entry' = PublishDamage(ended) /\ Rests(w)
    BY DEF CloseLeg, At, Channel
<1>2. w \in Threads /\ Shape(w, r) /\ r.job \in Jobs
      /\ epoch = r.job.epoch /\ LegFor(r) = JobLeg(epoch) /\ Settled(entry)
    BY <1>1, WorkerIs DEF Custody
<1>3. epoch \in 0..entry.claim.epoch /\ entry.claim \in Claims /\ entry \in Entries
    BY <1>2, Facts, ThreadFacts, EntryTyped
<1>4. /\ Keeps(entry, ended) /\ Keeps(entry, opened)
      /\ ended \in Entries /\ ended.claim = EndJobLeg(entry.claim, epoch)
      /\ ended.coverage = ReleasedBy(entry.coverage, epoch)
    BY <1>3, EndedIs
<1>5. /\ ended.detach_in_flight = entry.detach_in_flight /\ ended.trust = entry.trust
      /\ ended.pending = entry.pending /\ ended.recovery_required = entry.recovery_required
      /\ ended.rebuild_required = entry.rebuild_required /\ ended.awaits = entry.awaits
      /\ ended.contended = entry.contended /\ ended.duplicate = entry.duplicate
      /\ ended.identity = entry.identity
    BY <1>3 DEF Entries
<1>6. opened \in Entries
    BY <1>4 DEF Keeps, Sound
<1>7. /\ opened.claim = Release(ended.claim) /\ opened.coverage = ended.coverage
      /\ opened.detach_in_flight = ended.detach_in_flight /\ opened.trust = ended.trust
      /\ opened.pending = ended.pending /\ opened.recovery_required = ended.recovery_required
      /\ opened.rebuild_required = ended.rebuild_required /\ opened.awaits = ended.awaits
      /\ opened.contended = ended.contended /\ opened.duplicate = ended.duplicate
      /\ opened.identity = ended.identity
    BY <1>4 DEF ReleaseGate, Entries
<1>8. Stands(w) <=> epoch = entry.claim.epoch
    BY DEF Stands, StandsAtEpoch, StandsAt
<1>9. r.next = NoJob /\ ~Derives(entry, r)
    BY <1>1, <1>2 DEF Shape, Derives
<1>10. Registers(entry, r) <=> entry.claim.leg = JobLeg(epoch)
    BY <1>1, <1>2 DEF Registers, LegsRun, Jobs, JobKinds
<1> HIDE DEF opened, ended, epoch
<1>11. CASE entry.claim.leg # JobLeg(epoch)
    <2>1. entry' = entry /\ Rests(w)
        BY <1>1, <1>11
    <2>2. Eases(entry, entry')
        BY <2>1, SameEases DEF SameTrust, Trust
    <2> QED
        BY <1>1, <1>2, <1>9, <2>1, <2>2, EasesRests
<1>12. CASE entry.claim.leg = JobLeg(epoch)
    <2>1. /\ Registers(entry, r) /\ Engaged(entry, r)
          /\ OutWithLeg(entry.coverage) => entry.coverage = OnLeg(epoch)
          /\ epoch = entry.claim.epoch =>
                 entry.claim.gate # "held" /\ (OutWithLeg(entry.coverage) => entry.detach_in_flight)
        BY <1>1, <1>2, <1>10, <1>12, ClosingIs
    <2>2. /\ ended.claim.epoch = entry.claim.epoch /\ ended.claim.leg = NoLeg
          /\ ended.claim.gate = entry.claim.gate /\ ended.claim.marker = entry.claim.marker
          /\ ended.claim \in Claims
        BY <1>3, <1>4, <1>12 DEF EndJobLeg, EndRunningLeg, Claims
    <2>3. \/ ended.coverage = entry.coverage /\ ~OutWithLeg(entry.coverage)
          \/ ended.coverage = NoCoverage /\ OutWithLeg(entry.coverage)
        BY <1>4, <2>1 DEF ReleasedBy, OnLeg, OutWithLeg
    <2>4. SameWord(entry, ended)
        BY <1>5, <2>2 DEF SameWord
    <2>5. ~OutWithLeg(ended.coverage)
        BY <2>3 DEF OutWithLeg, NoCoverage
    <2>6. CASE entry.detach_in_flight
        <3>1. entry' = ended /\ GoesReleasing(w, FALSE, epoch, "idle")
            BY <1>1, <1>12, <2>6
        <3>2. PICK held : GoesReleasing(w, held, epoch, "idle")
            BY <3>1
        <3>3. Unmoved(w) /\ thread'[w].pc = "releasing" /\ thread'[w].after = "idle"
            BY <1>1, <1>2, <3>2, ReleasingTo
        <3>4. entry'.claim.gate = "open"
            BY <1>2, <2>2, <2>6, <3>1 DEF Settled
        <3> QED
            BY <1>1, <1>2, <2>1, <2>3, <2>4, <2>6, <3>1, <3>3, <3>4, ClosedUnderWindow
    <2>7. CASE ~entry.detach_in_flight
        <3> DEFINE s == IF Stands(w) THEN ended ELSE opened
        <3>1. Rests(w) /\ entry' \in {PublishDamageOrDemandedWork(s), PublishDamage(s)}
              /\ (Stands(w) => entry' = PublishDamage(s))
            BY <1>1, <1>12, <2>7
        <3>2. /\ s \in Entries /\ s.claim.epoch = entry.claim.epoch /\ s.coverage = ended.coverage
              /\ s.claim.leg = NoLeg
              /\ entry.claim.gate = "scheduled" =>
                     s.claim.gate = "scheduled" /\ s.claim.marker = entry.claim.marker
              /\ entry.claim.gate # "scheduled" => s.claim.gate = "open"
            <4>1. CASE Stands(w)
                <5>1. entry.claim.gate \in {"open", "held", "scheduled"}
                    BY <1>3 DEF Claims
                <5>2. entry.claim.gate # "held"
                    BY <1>8, <2>1, <4>1
                <5> QED
                    BY <1>4, <2>2, <4>1, <5>1, <5>2
            <4>2. CASE ~Stands(w)
                <5>1. ended.claim.gate = "scheduled" => Release(ended.claim) = ended.claim
                    BY DEF Release
                <5>2. ended.claim.gate # "scheduled" =>
                          ClaimIs(Release(ended.claim), ended.claim.epoch, "open", NoJob,
                                  ended.claim.leg, ended.claim.slot)
                    BY <2>2, GateFields
                <5> QED
                    BY <1>6, <1>7, <2>2, <4>2, <5>1, <5>2 DEF ClaimIs
            <4> QED
                BY <4>1, <4>2
        <3>3. SameWord(entry, s)
            <4>1. SameWord(entry, opened)
                BY <1>5, <1>7, <3>2, <2>2, <2>4 DEF SameWord, opened, ReleaseGate, Release, SetGate
            <4> QED
                BY <2>4, <4>1
        <3> HIDE DEF s
        <3>4. LetsGo(entry, s)
            <4>1. OutWithLeg(entry.coverage) => entry.coverage.leg # entry.claim.epoch
                BY <2>1, <2>7 DEF OnLeg
            <4> QED
                BY <2>3, <3>2, <4>1 DEF LetsGo
        <3>5. CASE entry.claim.gate # "scheduled"
            <4>1. InHandOf(s) => entry.claim.gate = "open" \/ ~entry.rebuild_required
                <5> SUFFICES ASSUME InHandOf(s), entry.claim.gate # "open" PROVE FALSE
                    OBVIOUS
                <5>1. InHandOf(entry) /\ entry.claim.gate = "held"
                    <6>1. InHandOf(entry)
                        BY <2>3, <3>2 DEF InHandOf, InHand, NoCoverage
                    <6>2. entry.claim.gate \in {"open", "held", "scheduled"}
                        BY <1>3 DEF Claims
                    <6> QED
                        BY <3>5, <6>1, <6>2
                <5>2. entry.claim.leg # NoLeg /\ entry.claim.leg.epoch # entry.claim.epoch
                    BY <1>12, <2>1, <5>1 DEF JobLeg, NoLeg
                <5>3. PICK u \in Threads : Standing(entry, thread[u].next)
                    BY <5>1, <5>2 DEF Trust, LegsHold, Running
                <5>4. Engaged(entry, thread[u])
                    BY <5>3 DEF Custody, ThreadsStand, Stand, NextStand, Engaged
                <5>5. u = w
                    BY <1>2, <2>1, <5>4, EngagedAlone
                <5> QED
                    BY <1>9, <5>3, <5>5 DEF Standing
            <4>2. Resting(s) /\ s.claim.gate = "open"
                BY <2>5, <3>2, <3>5 DEF Resting
            <4> QED
                BY <1>1, <1>2, <1>9, <2>1, <3>1, <3>2, <3>3, <3>4, <4>1, <4>2, ClosedUpholds
        <3>6. CASE entry.claim.gate = "scheduled"
            <4>1. entry' = s
                BY <3>1, <3>2, <3>6
                   DEF PublishDamageOrDemandedWork, PublishDamage, CanPublishDamage, IsHeld,
                       ScheduleDemandedWork, CanScheduleDemandedWork, Schedulable
            <4>2. ~OutWithLeg(entry.coverage)
                BY <1>2, <2>7, <3>6 DEF Settled
            <4>3. SameTrust(entry, s)
                BY <2>3, <3>2, <3>3, <4>2 DEF SameTrust, SameWord
            <4>4. Eases(entry, entry')
                BY <4>1, <4>3, SameEases DEF Trust
            <4>5. Unmoved(w) /\ thread'[w] = Idle
                BY <3>1, <1>2, RestsTo
            <4>6. PastWork(thread'[w])
                BY <4>5 DEF PastWork, AtWork, Idle
            <4>7. LegsHold' /\ entry.claim.gate' # "open"
                BY <3>2, <3>6, <4>1 DEF LegsHold
            <4>8. ASSUME NEW kind \in Kinds, OwnAwaits(entry', thread'[w], kind)
                  PROVE  OwnAwaits(entry, r, kind)
                <5>1. MarkedFor(entry', kind)
                    BY <4>6, <4>8, PastWorkIs
                <5> QED
                    BY <3>2, <3>6, <4>1, <5>1 DEF MarkedFor, OwnAwaits
            <4>9. ~LostAt(entry', thread'[w]) /\ AfterLosing(thread'[w], entry.claim.epoch')
                BY <4>6, PastWorkIs
            <4> QED
                BY <1>1, <1>2, <1>9, <2>1, <4>4, <4>5, <4>7, <4>8, <4>9, SoftTrust
        <3> QED
            BY <3>5, <3>6
    <2> QED
        BY <2>6, <2>7
<1> QED
    BY <1>11, <1>12

LEMMA CloseStalePollUpholds ==
    ASSUME Inv, Inv', Custody, Custody', Trust, CloseStalePoll PROVE Upholds
<1> DEFINE r == thread[Dispatcher]
           epoch == EpochOf(Dispatcher)
           released == [entry EXCEPT !.coverage = ReleasedBy(@, epoch)]
           claim == EndPoll(released.claim, epoch)
           ended == [released EXCEPT !.claim = claim]
<1>1. /\ At(Dispatcher, "closing") /\ UNCHANGED <<queue, sends, underived>>
      /\ \/ entry' = released /\ GoesReleasing(Dispatcher, FALSE, epoch, "idle")
            /\ entry.detach_in_flight
         \/ /\ ~(entry.claim.leg = PollLeg(epoch) /\ entry.detach_in_flight)
            /\ entry' = PublishDamageOrDemandedWork(
                   IF entry.claim.leg = PollLeg(epoch) THEN ended ELSE released)
            /\ Rests(Dispatcher)
    BY DEF CloseStalePoll, Channel
<1>2. /\ Dispatcher \in Threads /\ Registers(entry, r) /\ Engaged(entry, r) /\ r.pc = "closing"
      /\ r.pc # "idle"
      /\ epoch = r.job.epoch /\ entry.claim.leg = PollLeg(epoch)
      /\ entry.claim.gate = "held" \/ entry.detach_in_flight
      /\ ~entry.detach_in_flight => epoch # entry.claim.epoch
      /\ Settled(entry) /\ entry.coverage = OnLeg(epoch)
    BY <1>1, PollOverIs DEF At
<1>3. /\ entry \in Entries /\ entry.claim \in Claims
    BY Facts, EntryTyped
<1> HIDE DEF epoch
<1>4. /\ released.coverage = NoCoverage /\ released.claim = entry.claim
      /\ released \in Entries /\ SameWord(entry, released)
    <2>1. NoCoverage \in Coverages
        BY DEF NoCoverage, Coverages
    <2> QED
        BY <1>2, <1>3, <2>1 DEF ReleasedBy, Entries, SameWord
<1> HIDE DEF released
<1>5. ~Derives(entry, r)
    BY <1>2 DEF Derives
<1>6. CASE /\ entry' = released /\ GoesReleasing(Dispatcher, FALSE, epoch, "idle")
           /\ entry.detach_in_flight
    <2>1. PICK held : GoesReleasing(Dispatcher, held, epoch, "idle")
        BY <1>6
    <2>2. Unmoved(Dispatcher) /\ thread'[Dispatcher].pc = "releasing"
          /\ thread'[Dispatcher].after = "idle"
        BY <1>2, <2>1, ReleasingTo
    <2>3. entry'.claim.gate = "open"
        BY <1>2, <1>4, <1>6 DEF Settled
    <2> QED
        BY <1>1, <1>2, <1>4, <1>6, <2>2, <2>3, ClosedUnderWindow
<1>7. CASE entry' = PublishDamageOrDemandedWork(ended) /\ Rests(Dispatcher) /\ ~entry.detach_in_flight
    <2>1. claim.epoch = entry.claim.epoch /\ claim.gate = "open" /\ claim \in Claims
        <3>1. released.claim \in Claims /\ released.claim.gate = "held"
            BY <1>2, <1>3, <1>4, <1>7
        <3>2. claim = Release(EndRunningLeg(released.claim))
            BY <1>2, <1>4 DEF EndPoll
        <3> DEFINE d == EndRunningLeg(released.claim)
        <3>3. /\ d.epoch = entry.claim.epoch /\ d.gate = "held" /\ d \in Claims
            BY <1>4, <3>1 DEF EndRunningLeg, Claims
        <3> HIDE DEF d
        <3>4. ClaimIs(Release(d), d.epoch, "open", NoJob, d.leg, d.slot)
            BY <3>3, GateFields
        <3>5. Release(d) \in Claims
            BY <3>3 DEF Release, SetGate, Claims
        <3> QED
            BY <3>2, <3>3, <3>4, <3>5 DEF ClaimIs, d
    <2> HIDE DEF claim
    <2>2. /\ ended \in Entries /\ ended.claim = claim /\ ended.coverage = NoCoverage
          /\ SameWord(entry, ended)
        BY <1>4, <2>1 DEF Entries, SameWord
    <2> HIDE DEF ended
    <2>3. LetsGo(entry, ended)
        BY <1>2, <1>7, <2>2 DEF LetsGo, OnLeg, OutWithLeg
    <2>4. Resting(ended) /\ ~InHandOf(ended) /\ ended.claim.gate = "open"
        BY <2>1, <2>2 DEF Resting, InHandOf, InHand, OutWithLeg, NoCoverage
    <2> QED
        BY <1>1, <1>2, <1>5, <1>7, <2>2, <2>3, <2>4, ClosedUpholds
<1> QED
    BY <1>1, <1>2, <1>6, <1>7

----------------------------------------------------------------------------
(* The polls                                                               *)

\* What a poll finds at the epoch it was begun at.
LEMMA PollFinds ==
    ASSUME Inv, Custody, Trust, PollStands
    PROVE  /\ Dispatcher \in Threads /\ Engaged(entry, thread[Dispatcher])
           /\ Trusty(entry) /\ ~StandsParked(entry) /\ entry.trust # "Unattached"
           /\ ~entry.rebuild_required /\ ~entry.detach_in_flight
           /\ entry.trust \in {"Untrusted", "Rebuilding"} => entry.recovery_required
           /\ entry.recovery_required => entry.pending # "none"
           /\ underived => entry.pending # "none"
           /\ LostNow => entry.trust # "Ready" /\ entry.pending # "none"
           /\ entry.claim.gate = "held" /\ entry.claim.leg = PollLeg(EpochOf(Dispatcher))
           /\ entry.coverage = OnLeg(entry.claim.epoch)
           /\ PollUnpinned \in Entries /\ SameTrust(entry, PollUnpinned)
           /\ PollUnpinned.claim = entry.claim /\ PollUnpinned.damage = entry.damage
<1> DEFINE r == thread[Dispatcher]
<1>1. At(Dispatcher, "polling") /\ Stands(Dispatcher)
    BY DEF PollStands
<1>2. /\ Dispatcher \in Threads /\ Engaged(entry, r) /\ r.pc = "polling" /\ r.job.kind = "Poll"
      /\ EpochOf(Dispatcher) = r.job.epoch /\ entry.claim.leg = PollLeg(r.job.epoch)
      /\ entry.claim.gate = "held" /\ ~entry.detach_in_flight
      /\ entry.coverage = OnLeg(r.job.epoch)
    BY <1>1, PollingIs
<1>3. r.job.epoch = entry.claim.epoch
    BY <1>1, <1>2 DEF Stands, StandsAtEpoch, StandsAt
<1>4. Suits(entry, "Poll") /\ Trusty(entry)
    <2>1. WorkOf(entry, r, "Poll") /\ "Poll" \in Kinds
        BY <1>2, <1>3 DEF WorkOf, Kinds
    <2>2. Awaited("Poll")
        BY <1>2, <2>1 DEF Awaited
    <2> QED
        BY <2>1, <2>2 DEF Trust, JobsSuit
<1>5. Kept(entry) /\ AccountedFor(entry.coverage) /\ ~entry.rebuild_required
    BY <1>2, <1>3, <1>4 DEF Kept, AccountedFor, OnLeg, Suits
<1>6. /\ ~StandsParked(entry) /\ entry.trust # "Unattached"
      /\ entry.trust \in {"Untrusted", "Rebuilding"} => entry.recovery_required
      /\ entry.recovery_required => entry.pending # "none"
    BY <1>4, <1>5 DEF Trusty, KeptMeans, RungsMean, OwesARung
<1>7. underived => entry.pending # "none"
    <2>1. ~Derives(entry, r)
        BY <1>2 DEF Derives
    <2> QED
        BY <1>2, <1>5, <1>6, <2>1, FactsMinded DEF Minds, OwesARung
<1>8. LostNow => entry.trust # "Ready" /\ entry.pending # "none"
    BY <1>5 DEF Trust, LostMeans, LostGround
<1>9. /\ PollUnpinned \in Entries /\ SameTrust(entry, PollUnpinned)
      /\ PollUnpinned.claim = entry.claim /\ PollUnpinned.damage = entry.damage
    BY <1>2, UnpinnedHeal DEF PollUnpinned
<1> QED
    BY <1>2, <1>3, <1>4, <1>5, <1>6, <1>7, <1>8, <1>9

\* A poll that ends leaves the coverage in hand over an open gate, and says no more.
LEMMA PollEndedHeal ==
    ASSUME Inv, Custody, PollStands, NEW s \in Entries, s.claim = entry.claim
    PROVE  LET p == PollEnded(s)
           IN  /\ p \in Entries /\ SameWord(s, p) /\ p.claim.epoch = entry.claim.epoch
               /\ p.claim.gate = "open" /\ p.coverage = Parked /\ InHandOf(p) /\ Resting(p)
<1> DEFINE epoch == EpochOf(Dispatcher)
           c == EndPoll(s.claim, epoch)
           p == PollEnded(s)
<1>1. At(Dispatcher, "polling") /\ Stands(Dispatcher)
    BY DEF PollStands
<1>2. epoch = EpochOf(Dispatcher) /\ s.claim.leg = PollLeg(epoch) /\ s.claim.gate # "scheduled"
    BY <1>1, PollingIs
<1> HIDE DEF epoch
<1>3. p.claim.epoch = s.claim.epoch /\ p.claim.gate = "open" /\ p.coverage = Parked
      /\ p.detach_in_flight = s.detach_in_flight
    BY <1>2, PollEndedFields
<1>4. c \in Claims
    BY DEF EndPoll, EndRunningLeg, Release, SetGate, Entries, Claims
<1>5. p = [s EXCEPT !.claim = c, !.coverage = Parked]
    BY <1>2, <1>4 DEF PollEnded, Park, ParkBy, Entries
<1> HIDE DEF c
<1>6. Parked \in Coverages
    BY DEF Parked, Coverages
<1> HIDE DEF p
<1>7. p \in Entries /\ SameWord(s, p)
    BY <1>3, <1>4, <1>5, <1>6 DEF Entries, SameWord
<1>8. InHandOf(p) /\ Resting(p)
    BY <1>3 DEF InHandOf, InHand, Resting, OutWithLeg, Parked
<1> QED
    BY <1>3, <1>7, <1>8 DEF p

\* A poll that ends over s, and leaves what s then has scheduled.
LEMMA PollUpholds ==
    ASSUME Inv, Inv', Custody, Custody', Trust, PollStands, UNCHANGED <<queue, sends>>,
           NEW s \in Entries, s.claim.epoch = entry.claim.epoch, s.claim.gate = "open",
           s.coverage = Parked, ~s.detach_in_flight, Arranged(s, entry'),
           entry' = s => GateMeans(s), LostNow => LostGround(s), underived' => Minds(s),
           Rests(Dispatcher) \/ (LostGround(s) /\ OwesARung(s) /\ PollDone)
    PROVE  Upholds
<1> DEFINE q == thread'[Dispatcher]
<1>1. Dispatcher \in Threads /\ Engaged(entry, thread[Dispatcher]) /\ ~entry.detach_in_flight
    BY PollFinds
<1>2. InHandOf(s) /\ AccountedFor(s.coverage)
    BY DEF InHandOf, InHand, AccountedFor, Parked
<1>3. Unmoved(Dispatcher) /\ q.after = "idle"
      /\ (q.pc = "idle" \/ (LostGround(s) /\ OwesARung(s)))
    <2>1. CASE Rests(Dispatcher)
        <3>1. Unmoved(Dispatcher) /\ q = Idle
            BY <1>1, <2>1, RestsTo
        <3> QED
            BY <3>1 DEF Idle
    <2>2. CASE LostGround(s) /\ OwesARung(s) /\ PollDone /\ ~Rests(Dispatcher)
        <3>1. PICK lost : thread' = [thread EXCEPT ![Dispatcher] =
                  [Idle EXCEPT !.pc = "classifying", !.lost = lost]]
            BY <2>2 DEF PollDone
        <3>2. thread \in [Threads -> ThreadStates]
            BY DEF Inv, ThreadInv
        <3>3. Unmoved(Dispatcher) /\ q = [Idle EXCEPT !.pc = "classifying", !.lost = lost]
            BY <1>1, <3>1, <3>2 DEF Unmoved
        <3> QED
            BY <2>2, <3>3 DEF Idle
    <2> QED
        BY <2>1, <2>2
<1> HIDE DEF q
<1>4. Passes(entry, s)
    BY <1>1, <1>2 DEF Passes, Covered
<1>5. LostAt(entry', q) => LostGround(s) /\ OwesARung(s) /\ InHandOf(s)
    BY <1>2, <1>3 DEF LostAt
<1>6. AfterLosing(q, entry.claim.epoch)
    BY <1>3 DEF AfterLosing
<1>7. s.claim.epoch >= entry.claim.epoch
    BY Facts
<1> QED
    BY <1>1, <1>2, <1>3, <1>4, <1>5, <1>6, <1>7, ArrangedUpholds DEF q

\* What says nothing more than the entry a poll stands in is as sound as it is.
LEMMA PollSaysTrusty ==
    ASSUME Inv, Custody, Trust, PollStands, NEW p, SameWord(entry, p), p.coverage = Parked
    PROVE  /\ Trusty(p) /\ GateMeans(p) /\ ~p.detach_in_flight /\ ~p.rebuild_required
           /\ (LostNow => LostGround(p)) /\ (underived => Minds(p))
<1>1. /\ Trusty(entry) /\ entry.coverage = OnLeg(entry.claim.epoch) /\ ~entry.detach_in_flight
      /\ ~entry.rebuild_required /\ (underived => entry.pending # "none")
      /\ LostNow => entry.trust # "Ready" /\ entry.pending # "none"
    BY PollFinds
<1>2. /\ Kept(entry) /\ AccountedFor(entry.coverage) /\ AccountedFor(p.coverage)
      /\ ~OutWithLeg(p.coverage)
    BY <1>1 DEF Kept, AccountedFor, OnLeg, Parked, OutWithLeg
<1>3. /\ OwesARung(p) <=> OwesARung(entry)
      /\ StandsParked(p) <=> StandsParked(entry)
    BY DEF SameWord, OwesARung, StandsParked
<1>4. Trusty(p)
    BY <1>1, <1>2, <1>3 DEF Trusty, ReadyMeans, KeptMeans, RungsMean, SameWord
<1> QED
    BY <1>1, <1>4 DEF SameWord, GateMeans, LostGround, Minds

LEMMA PollFindsNothingUpholds ==
    ASSUME Inv, Inv', Custody, Custody', Trust, PollFindsNothing PROVE Upholds
<1> DEFINE u == PollUnpinned
           parked == PollEnded(u)
           owes == ~OwesARung(parked) /\ parked.pending # "none"
           s == IF owes THEN PublishPendingReconcile(parked) ELSE parked
<1>1. /\ PollStands /\ Rests(Dispatcher) /\ UNCHANGED <<queue, sends, underived>>
      /\ entry' = PollSchedules(s, owes)
    BY DEF PollFindsNothing, Channel
<1>2. u \in Entries /\ SameTrust(entry, u) /\ u.claim = entry.claim
    BY <1>1, PollFinds
<1> HIDE DEF u
<1>3. /\ parked \in Entries /\ SameWord(u, parked) /\ parked.claim.epoch = entry.claim.epoch
      /\ parked.claim.gate = "open" /\ parked.coverage = Parked /\ InHandOf(parked)
      /\ Resting(parked)
    BY <1>1, <1>2, PollEndedHeal
<1> HIDE DEF parked
<1>4. SameWord(entry, parked)
    BY <1>2, <1>3 DEF SameTrust, SameWord
<1>5. /\ Trusty(parked) /\ GateMeans(parked) /\ ~parked.detach_in_flight
      /\ ~parked.rebuild_required
      /\ (LostNow => LostGround(parked)) /\ (underived => Minds(parked))
    BY <1>1, <1>3, <1>4, PollSaysTrusty
<1>6. CASE ~owes
    <2>1. s = parked /\ entry' = PollSchedules(parked, FALSE)
        BY <1>1, <1>6 DEF PollSchedules
    <2>2. Arranged(parked, entry')
        BY <1>3, <1>5, <2>1, WaysToArrange
    <2> QED
        BY <1>1, <1>3, <1>5, <2>2, PollUpholds
<1>7. CASE owes
    <2> DEFINE trust == PublishedTrust(parked)
               p == SetTrust(parked, trust)
    <2>1. /\ trust \in Trusts /\ trust \in {"Overflow", "Healing"}
          /\ PublishPendingReconcile(parked) = p
        BY <1>3, PublishedIs
    <2>2. entry' = PollSchedules(p, TRUE)
        BY <1>1, <1>7, <2>1 DEF PollSchedules
    <2> HIDE DEF trust
    <2>3. /\ p \in Entries /\ p.trust = trust /\ p.claim = parked.claim
          /\ p.coverage = parked.coverage /\ p.detach_in_flight = parked.detach_in_flight
          /\ p.pending = parked.pending /\ p.rebuild_required = parked.rebuild_required
          /\ p.recovery_required = parked.recovery_required
          /\ Retrusted(parked, p, trust)
        BY <1>3, <2>1, TrustSet, TrustRetrusted
    <2> HIDE DEF p
    <2>4. Trusty(p) /\ (Minds(p) <=> Minds(parked))
        BY <1>5, <2>1, <2>3, RetrustedTrusty
    <2>5. /\ Resting(p) /\ ~OwesARung(p) /\ GateMeans(p)
          /\ p.claim.gate = "open" /\ p.claim.epoch = entry.claim.epoch
          /\ p.coverage = Parked /\ ~p.detach_in_flight
        BY <1>3, <1>5, <1>7, <2>3 DEF Resting, OwesARung, GateMeans
    <2>6. Arranged(p, entry')
        BY <2>2, <2>3, <2>4, <2>5, WaysToArrange
    <2>7. LostNow => LostGround(p)
        BY <1>7, <2>1, <2>3 DEF LostGround
    <2>8. underived' => Minds(p)
        BY <1>1, <1>5, <2>4
    <2> QED
        BY <1>1, <2>3, <2>5, <2>6, <2>7, <2>8, PollUpholds
<1> QED
    BY <1>6, <1>7

LEMMA PollFindsFactsUpholds ==
    ASSUME Inv, Inv', Custody, Custody', Trust, PollFindsFacts PROVE Upholds
<1>1. PICK batch \in Batches \ {"none"} :
        LET merged == Merge(PollUnpinned, batch)
            trusted == SetTrust(merged, IF batch = "rescan" THEN "Overflow" ELSE "Healing")
            owes == ~OwesARung(merged)
        IN  entry' = PollSchedules(PollEnded(IF owes THEN trusted ELSE merged), owes)
    BY DEF PollFindsFacts
<1> DEFINE u == PollUnpinned
           merged == Merge(u, batch)
           trust == IF batch = "rescan" THEN "Overflow" ELSE "Healing"
           owes == ~OwesARung(merged)
           left == IF owes THEN SetTrust(merged, trust) ELSE merged
           s == PollEnded(left)
<1>2. /\ entry' = PollSchedules(s, owes)
      /\ trust \in Trusts /\ trust \in {"Overflow", "Healing"}
    BY <1>1 DEF Trusts, Warm, Distrust
<1>3. PollStands /\ Rests(Dispatcher) /\ UNCHANGED <<queue, sends>>
    BY DEF PollFindsFacts, Channel
<1> HIDE DEF trust
<1>4. u \in Entries /\ SameTrust(entry, u) /\ u.claim = entry.claim
    BY <1>3, PollFinds
<1> HIDE DEF u
<1>5. /\ merged \in Entries /\ merged.claim = u.claim /\ merged.trust = u.trust
      /\ merged.detach_in_flight = u.detach_in_flight
      /\ merged.recovery_required = u.recovery_required
      /\ merged.rebuild_required = u.rebuild_required
      /\ merged.contended = u.contended /\ merged.duplicate = u.duplicate
      /\ merged.identity = u.identity
    BY <1>1, <1>4 DEF Merge, Entries, Batches
<1>6. merged.pending # "none" /\ ~merged.awaits
    BY <1>1, <1>4 DEF Merge, Entries, Batches
<1> HIDE DEF merged
<1>7. /\ left \in Entries /\ left.claim = merged.claim
      /\ left.detach_in_flight = merged.detach_in_flight
      /\ left.recovery_required = merged.recovery_required
      /\ left.rebuild_required = merged.rebuild_required
      /\ left.contended = merged.contended /\ left.duplicate = merged.duplicate
      /\ left.identity = merged.identity
      /\ left.pending = merged.pending /\ left.awaits = merged.awaits
      /\ left.trust = IF owes THEN trust ELSE merged.trust
    BY <1>2, <1>5, TrustSet
<1>8. owes <=> ~left.recovery_required /\ ~left.rebuild_required
    BY <1>7 DEF OwesARung
<1>9. left.claim = entry.claim
    BY <1>4, <1>5, <1>7
<1> HIDE DEF left, owes
<1>10. /\ s \in Entries /\ SameWord(left, s) /\ s.claim.epoch = entry.claim.epoch
       /\ s.claim.gate = "open" /\ s.coverage = Parked /\ InHandOf(s) /\ Resting(s)
    BY <1>3, <1>7, <1>9, PollEndedHeal
<1> HIDE DEF s
<1>11. /\ ~entry.rebuild_required /\ ~entry.detach_in_flight /\ ~StandsParked(entry)
       /\ entry.trust # "Unattached" /\ Trusty(entry)
    BY <1>3, PollFinds
<1>12. /\ ~s.rebuild_required /\ ~s.detach_in_flight /\ ~s.awaits /\ s.pending # "none"
       /\ owes <=> ~s.recovery_required
       /\ s.trust = IF owes THEN trust ELSE entry.trust
       /\ s.recovery_required = entry.recovery_required
       /\ SameParks(entry, s)
    BY <1>4, <1>5, <1>6, <1>7, <1>8, <1>10, <1>11 DEF SameWord, SameTrust, SameParks
<1>13. ~StandsParked(s) /\ (owes <=> ~OwesARung(s))
    BY <1>11, <1>12, ParksSame DEF OwesARung
<1>14. s.trust # "Ready" /\ s.trust # "Unattached"
    <2>1. CASE owes
        BY <1>2, <1>12, <2>1
    <2>2. CASE ~owes
        BY <1>11, <1>12, <2>2 DEF Trusty, ReadyMeans, OwesARung
    <2> QED
        BY <2>1, <2>2
<1>15. Trusty(s) /\ GateMeans(s)
    <2>1. CASE owes
        BY <1>2, <1>10, <1>12, <1>13, <2>1, HealedTrusty
    <2>2. CASE ~owes
        BY <1>12, <1>13, <1>14, <2>2 DEF Trusty, ReadyMeans, KeptMeans, RungsMean, GateMeans
    <2> QED
        BY <2>1, <2>2
<1>16. Arranged(s, entry')
    <2>1. CASE owes
        <3>1. entry' = PollSchedules(s, TRUE)
            BY <1>2, <2>1 DEF PollSchedules
        <3> QED
            BY <1>10, <1>13, <1>15, <2>1, <3>1, WaysToArrange
    <2>2. CASE ~owes
        <3>1. entry' = PollSchedules(s, FALSE)
            BY <1>2, <2>2 DEF PollSchedules
        <3> QED
            BY <1>10, <1>15, <3>1, WaysToArrange
    <2> QED
        BY <2>1, <2>2
<1>17. LostGround(s) /\ Minds(s)
    BY <1>12, <1>14 DEF LostGround, Minds
<1> QED
    BY <1>3, <1>10, <1>12, <1>15, <1>16, <1>17, PollUpholds

\* A gate that a poll holds is held by no marker.
LEMMA PollDroppedHeal ==
    ASSUME Inv, Custody, Trust, PollStands
    PROVE  LET dropped == [PollUnpinned EXCEPT !.claim = DropMarker(@)]
           IN  /\ dropped \in Entries /\ SameTrust(entry, dropped)
               /\ dropped.claim = entry.claim
<1> DEFINE u == PollUnpinned
           dropped == [u EXCEPT !.claim = DropMarker(@)]
<1>1. u \in Entries /\ SameTrust(entry, u) /\ u.claim = entry.claim /\ entry.claim.gate = "held"
    BY PollFinds
<1> HIDE DEF u
<1>2. DropMarker(u.claim) = u.claim
    BY <1>1 DEF DropMarker
<1>3. dropped = u
    BY <1>1, <1>2 DEF Entries
<1> QED
    BY <1>1, <1>3 DEF u

LEMMA PollFailsUpholds ==
    ASSUME Inv, Inv', Custody, Custody', Trust, PollFails PROVE Upholds
<1> DEFINE dropped == [PollUnpinned EXCEPT !.claim = DropMarker(@)]
           left == SetTrust(Merge(RequireRecoveryKeepingDemands(dropped), "rescan"), "Untrusted")
           s == PollEnded(left)
<1>1. PollStands /\ UNCHANGED <<queue, sends>>
    BY DEF PollFails, Channel
<1>2. PollDone
    BY DEF PollFails, PollDone
<1>3. entry' = PollSchedules(s, FALSE)
    BY DEF PollFails
<1>4. dropped \in Entries /\ SameTrust(entry, dropped) /\ dropped.claim = entry.claim
    BY <1>1, PollDroppedHeal
<1> HIDE DEF dropped
<1>5. /\ left \in Entries /\ left.claim = dropped.claim /\ left.trust = "Untrusted"
      /\ left.detach_in_flight = dropped.detach_in_flight
      /\ left.recovery_required = TRUE
      /\ left.rebuild_required = dropped.rebuild_required
      /\ left.contended = dropped.contended /\ left.duplicate = dropped.duplicate
      /\ left.identity = dropped.identity /\ left.pending = "rescan"
    BY <1>4 DEF SetTrust, Merge, RequireRecoveryKeepingDemands, Entries, Batches, Trusts, Distrust
<1>6. left.claim = entry.claim
    BY <1>4, <1>5
<1> HIDE DEF left
<1>7. /\ s \in Entries /\ SameWord(left, s) /\ s.claim.epoch = entry.claim.epoch
      /\ s.claim.gate = "open" /\ s.coverage = Parked /\ InHandOf(s) /\ Resting(s)
    BY <1>1, <1>5, <1>6, PollEndedHeal
<1> HIDE DEF s
<1>8. /\ ~entry.rebuild_required /\ ~entry.detach_in_flight /\ ~StandsParked(entry)
    BY <1>1, PollFinds
<1>9. /\ ~s.rebuild_required /\ ~s.detach_in_flight /\ s.pending # "none"
      /\ s.recovery_required /\ s.trust = "Untrusted" /\ SameParks(entry, s)
    BY <1>4, <1>5, <1>7, <1>8 DEF SameWord, SameTrust, SameParks
<1>10. ~StandsParked(s)
    BY <1>8, <1>9, ParksSame
<1>11. Trusty(s) /\ GateMeans(s) /\ Minds(s) /\ LostGround(s) /\ OwesARung(s)
    BY <1>9, <1>10, WithheldTrusty
<1>12. Arranged(s, entry')
    BY <1>3, <1>7, <1>11, WaysToArrange
<1> QED
    BY <1>1, <1>2, <1>7, <1>9, <1>11, <1>12, PollUpholds

LEMMA PollFindsDamageUpholds ==
    ASSUME Inv, Inv', Custody, Custody', Trust, PollFindsDamage PROVE Upholds
<1> DEFINE dropped == [PollUnpinned EXCEPT !.claim = DropMarker(@)]
           left == WithdrawTrustForDamage(dropped)
           s == PollEnded(left)
<1>1. PollStands /\ Rests(Dispatcher) /\ UNCHANGED <<queue, sends, underived>>
    BY DEF PollFindsDamage, Channel
<1>2. entry' = ScheduleJob(s, "Rebuild")
    BY DEF PollFindsDamage
<1>3. dropped \in Entries /\ SameTrust(entry, dropped) /\ dropped.claim = entry.claim
    BY <1>1, PollDroppedHeal
<1> HIDE DEF dropped
<1>4. /\ left \in Entries /\ left.claim = dropped.claim /\ left.trust = "Rebuilding"
      /\ left.detach_in_flight = dropped.detach_in_flight
      /\ left.recovery_required = FALSE /\ left.rebuild_required = TRUE /\ left.awaits = FALSE
      /\ left.contended = dropped.contended /\ left.duplicate = dropped.duplicate
      /\ left.identity = dropped.identity /\ left.pending = dropped.pending
    BY <1>3 DEF SetTrust, WithdrawTrustForDamage, RequireRebuild, RetireRecoveryDemands, Entries,
                Trusts, Distrust
<1>5. left.claim = entry.claim
    BY <1>3, <1>4
<1> HIDE DEF left
<1>6. /\ s \in Entries /\ SameWord(left, s) /\ s.claim.epoch = entry.claim.epoch
      /\ s.claim.gate = "open" /\ s.coverage = Parked /\ InHandOf(s) /\ Resting(s)
    BY <1>1, <1>4, <1>5, PollEndedHeal
<1> HIDE DEF s
<1>7. /\ ~entry.detach_in_flight /\ ~StandsParked(entry)
      /\ LostNow => entry.trust # "Ready" /\ entry.pending # "none"
    BY <1>1, PollFinds
<1>8. /\ s.rebuild_required /\ ~s.recovery_required /\ ~s.awaits /\ s.trust = "Rebuilding"
      /\ ~s.detach_in_flight /\ SameParks(entry, s) /\ s.pending = entry.pending
    BY <1>3, <1>4, <1>6, <1>7 DEF SameWord, SameTrust, SameParks
<1>9. ~StandsParked(s)
    BY <1>7, <1>8, ParksSame
<1>10. Trusty(s) /\ Minds(s)
    BY <1>8, <1>9, DamagedTrusty
<1>11. Suits(s, "Rebuild") /\ "Rebuild" \in JobKinds /\ "Rebuild" \in Spared
    BY <1>8 DEF Suits, JobKinds, Spared
<1>12. Arranged(s, entry')
    BY <1>2, <1>6, <1>10, <1>11, JobArranged
<1>13. entry' # s
    <2>1. entry'.claim = Schedule(s.claim, "Rebuild")
        BY <1>2, <1>6 DEF ScheduleJob, Entries
    <2>2. entry'.claim.gate = "scheduled"
        BY <1>6, <1>11, <2>1, ScheduledIs
    <2> QED
        BY <1>6, <2>2
<1>14. LostNow => LostGround(s)
    BY <1>7, <1>8 DEF LostGround
<1> QED
    BY <1>1, <1>6, <1>8, <1>10, <1>12, <1>13, <1>14, PollUpholds

----------------------------------------------------------------------------
(* What is found over an open gate                                         *)

\* Over an open gate nobody derives anything.
LEMMA OpenMinds ==
    ASSUME Custody, Trust, entry.claim.gate = "open", underived, AccountedFor(entry.coverage)
    PROVE  Minds(entry)
<1> SUFFICES ASSUME NEW u \in Threads, Derives(entry, thread[u]) PROVE Minds(entry)
    BY DEF Trust, FactsStand
<1>1. OutWithLeg(entry.coverage)
    BY DEF Derives, OnLeg, OutWithLeg
<1>2. entry.detach_in_flight
    BY <1>1 DEF Custody, Settled
<1> QED
    BY <1>2 DEF Minds

\* Work scheduled by a thread the entry does not wait for.
LEMMA ArrangedAlone ==
    ASSUME Inv, Inv', Custody, Custody', Trust, NEW t \in Threads, Unmoved(t),
           thread'[t] \in {thread[t], Idle}, UNCHANGED <<queue, sends, underived>>,
           NEW s \in Entries, SameTrust(entry, s), s.claim = entry.claim,
           Arranged(s, entry'), entry' # s
    PROVE  Upholds
<1>1. s.claim.gate = "open"
    BY DEF Arranged
<1>2. PICK kind \in JobKinds : entry'.claim = Schedule(s.claim, kind)
    BY DEF Arranged
<1>3. entry'.claim.epoch = entry.claim.epoch + 1
    BY <1>2, ScheduledIs
<1>4. /\ thread[t].lost \in 0..entry.claim.epoch /\ entry.claim.epoch \in Nat
      /\ thread[t].after = "losing" => thread[t].lost < entry.claim.epoch
    BY ThreadFacts, Facts DEF Trust, LostMeans
<1>5. ~LostAt(entry', thread'[t]) /\ AfterLosing(thread'[t], entry.claim.epoch)
    <2>1. CASE thread'[t] = thread[t]
        BY <1>3, <1>4, <2>1 DEF LostAt, AfterLosing
    <2>2. CASE thread'[t] = Idle
        BY <2>2 DEF LostAt, AfterLosing, Idle
    <2> QED
        BY <2>1, <2>2
<1>6. /\ LostGround(s) <=> LostGround(entry)
      /\ Minds(s) <=> Minds(entry)
      /\ Passes(entry, s)
    BY SameTrusty
<1>7. underived' /\ AccountedFor(s.coverage) => Minds(s)
    BY <1>1, <1>6, OpenMinds DEF SameTrust
<1>8. LostNow => LostGround(s)
    BY <1>6 DEF Trust, LostMeans
<1>9. s.claim.epoch >= entry.claim.epoch
    BY <1>4
<1> QED
    BY <1>1, <1>5, <1>6, <1>7, <1>8, <1>9, ArrangedUpholds

\* Such work, where there is any.
LEMMA CountsOrArranged ==
    ASSUME Inv, Inv', Custody, Custody', Trust, UNCHANGED <<thread, queue, sends, underived>>,
           NEW s \in Entries, SameTrust(entry, s), s.claim = entry.claim,
           entry' # s => Arranged(s, entry')
    PROVE  Upholds
<1>1. CASE entry' = s
    BY <1>1, CountsUphold
<1>2. CASE entry' # s
    <2>1. Dispatcher \in Threads
        BY DEF Threads
    <2>2. Unmoved(Dispatcher) /\ thread'[Dispatcher] \in {thread[Dispatcher], Idle}
        BY DEF Unmoved
    <2> QED
        BY <1>2, <2>1, <2>2, ArrangedAlone
<1> QED
    BY <1>1, <1>2

LEMMA ReapUpholds ==
    ASSUME Inv, Inv', Custody, Custody', Trust, Reap PROVE Upholds
<1> DEFINE s == [entry EXCEPT !.detach_due = TRUE]
<1>1. entry' = ScheduleDueDetach(s) /\ UNCHANGED <<thread, queue, sends, underived>>
    BY DEF Reap, Channel
<1>2. s \in Entries /\ SameTrust(entry, s) /\ s.claim = entry.claim
    BY Facts DEF Entries, SameTrust
<1> HIDE DEF s
<1>3. Trusty(s)
    BY <1>2, SameTrusty DEF Trust
<1>4. ASSUME entry' # s PROVE Arranged(s, entry')
    <2>1. InHandOf(s)
        BY <1>1, <1>4 DEF ScheduleDueDetach, CanScheduleDueDetach
    <2>2. Resting(s)
        BY <2>1 DEF Resting, OutWithLeg, InHandOf, InHand
    <2> QED
        BY <1>1, <1>2, <1>3, <2>2, DueArranged
<1> QED
    BY <1>1, <1>2, <1>4, CountsOrArranged

LEMMA ReadMeetsDamageUpholds ==
    ASSUME Inv, Inv', Custody, Custody', Trust, ReadMeetsDamage PROVE Upholds
<1> DEFINE s == [entry EXCEPT !.damage = TRUE]
<1>1. entry' = PublishDamage(s) /\ UNCHANGED <<thread, queue, sends, underived>>
    BY DEF ReadMeetsDamage, Channel
<1>2. s \in Entries /\ SameTrust(entry, s) /\ s.claim = entry.claim
    BY Facts DEF Entries, SameTrust
<1> HIDE DEF s
<1>3. Trusty(s)
    BY <1>2, SameTrusty DEF Trust
<1>4. ASSUME entry' # s PROVE Arranged(s, entry')
    <2>1. InHandOf(s)
        BY <1>1, <1>4 DEF PublishDamage, CanPublishDamage
    <2>2. Resting(s)
        BY <2>1 DEF Resting, OutWithLeg, InHandOf, InHand
    <2> QED
        BY <1>1, <1>2, <1>3, <2>2, PublishArranged
<1> QED
    BY <1>1, <1>2, <1>4, CountsOrArranged

LEMMA AskMaintenanceUpholds ==
    ASSUME Inv, Inv', Custody, Custody', Trust, AskMaintenance PROVE Upholds
<1>1. /\ entry' = ScheduleJob(entry, "Maintenance") /\ UNCHANGED <<thread, queue, sends, underived>>
      /\ entry.claim.gate = "open" /\ InHandOf(entry) /\ ~OwesARung(entry)
    BY DEF AskMaintenance, Channel, IsHeld
<1>2. entry \in Entries /\ SameTrust(entry, entry) /\ Trusty(entry)
    BY Facts DEF SameTrust, Trust
<1>3. Suits(entry, "Maintenance") /\ "Maintenance" \in JobKinds /\ Resting(entry)
    BY <1>1 DEF Suits, JobKinds, Resting, OutWithLeg, InHandOf, InHand
<1>4. Arranged(entry, entry')
    BY <1>1, <1>2, <1>3, JobArranged
<1> QED
    BY <1>1, <1>2, <1>4, CountsOrArranged

LEMMA RegistrarSettlesUpholds ==
    ASSUME Inv, Inv', Custody, Custody', Trust, RegistrarSettles(Registrar) PROVE Upholds
<1> DEFINE r == thread[Registrar]
<1>1. /\ r.pc = "departing" /\ entry' = ScheduleDemandedWork(entry)
      /\ Rests(Registrar) /\ UNCHANGED <<queue, sends, underived>>
    BY DEF RegistrarSettles, At, Channel
<1>2. Registrar \in Threads /\ Shape(Registrar, r)
    BY DEF Threads, Custody, ThreadsStand
<1>3. r.next = NoJob /\ ~Derives(entry, r)
    BY <1>1, <1>2 DEF Shape, Derives
<1>4. entry \in Entries /\ SameTrust(entry, entry) /\ Trusty(entry)
    BY Facts DEF SameTrust, Trust
<1>5. CASE entry' = entry
    <2>1. Eases(entry, entry')
        BY <1>4, <1>5, SameEases
    <2> QED
        BY <1>1, <1>2, <1>3, <1>5, <2>1, EasesRests
<1>6. CASE entry' # entry
    <2>1. entry.claim.gate = "open" /\ ~entry.detach_in_flight
        BY <1>1, <1>6 DEF ScheduleDemandedWork, CanScheduleDemandedWork, Schedulable, IsHeld
    <2>2. Resting(entry)
        BY <2>1 DEF Resting, Custody, Settled
    <2>3. Arranged(entry, entry')
        BY <1>1, <1>4, <2>2, DemandedArranged
    <2>4. Unmoved(Registrar) /\ thread'[Registrar] \in {r, Idle}
        BY <1>1, <1>2, RestsTo
    <2> QED
        BY <1>1, <1>2, <1>4, <1>6, <2>3, <2>4, ArrangedAlone
<1> QED
    BY <1>5, <1>6

\* A poll takes coverage that nobody waits for.
LEMMA BeginWatcherPollUpholds ==
    ASSUME Inv, Inv', Custody, Custody', Trust, BeginWatcherPoll PROVE Upholds
<1> DEFINE epoch == entry.claim.epoch
           leg == PollLeg(epoch)
           q == [Idle EXCEPT !.pc = "polling", !.job = leg, !.held = TRUE]
<1>1. /\ Dispatcher \in Threads /\ entry \in Entries /\ epoch \in Nat /\ Settled(entry)
      /\ thread \in [Threads -> ThreadStates] /\ Trusty(entry)
    BY Facts DEF Inv, ThreadInv, Custody, Trust
<1>2. /\ entry.claim.gate = "open" /\ entry.coverage = Parked /\ InHandOf(entry)
      /\ UNCHANGED <<queue, sends, underived>>
    BY <1>1 DEF BeginWatcherPoll, IsHeld, InHandOf, InHand, Settled, NoCoverage, Channel, OutWithLeg
<1>3. ~entry.detach_in_flight /\ ~entry.rebuild_required
    BY <1>1, <1>2 DEF Settled, Trust, GateMeans
<1>4. /\ entry' = [TakeForLeg(entry, leg) EXCEPT !.claim = BeginPoll(@, epoch)]
      /\ thread' = [thread EXCEPT ![Dispatcher] = q]
    BY DEF BeginWatcherPoll, PollLeg
<1>5. /\ entry'.claim.epoch = epoch /\ entry'.claim.gate = "held"
      /\ entry'.coverage = OnLeg(epoch)
      /\ entry'.detach_in_flight = entry.detach_in_flight
      /\ entry'.trust = entry.trust /\ entry'.pending = entry.pending
      /\ entry'.recovery_required = entry.recovery_required
      /\ entry'.rebuild_required = entry.rebuild_required /\ entry'.awaits = entry.awaits
      /\ entry'.contended = entry.contended /\ entry'.duplicate = entry.duplicate
      /\ entry'.identity = entry.identity
    <2> DEFINE taken == TakeForLeg(entry, leg)
               claim == BeginPoll(entry.claim, epoch)
    <2>1. /\ taken.claim = entry.claim /\ taken.coverage = TakeCoverage(entry.coverage, leg.epoch)
          /\ taken.detach_in_flight = entry.detach_in_flight
        BY <1>1, TakeForLegFields
    <2>2. /\ taken.trust = entry.trust /\ taken.pending = entry.pending
          /\ taken.recovery_required = entry.recovery_required
          /\ taken.rebuild_required = entry.rebuild_required /\ taken.awaits = entry.awaits
          /\ taken.contended = entry.contended /\ taken.duplicate = entry.duplicate
          /\ taken.identity = entry.identity
        BY <1>1 DEF TakeForLeg, PinForLeg, Entries
    <2>3. claim.epoch = epoch /\ claim.gate = "held"
        BY <1>1 DEF BeginPoll, SetGate, Entries, Claims
    <2>4. TakeCoverage(entry.coverage, leg.epoch) = OnLeg(epoch)
        BY <1>2 DEF TakeCoverage, InHand, Parked, PollLeg
    <2>5. taken \in Entries
        <3>1. leg \in Legs /\ leg.epoch \in 0..entry.claim.epoch
            BY <1>1 DEF PollLeg, Legs, LegKinds
        <3> QED
            BY <3>1, Facts, PinKeeps DEF Keeps, Sound
    <2>6. entry' = [taken EXCEPT !.claim = claim]
        BY <1>4, <2>1
    <2> HIDE DEF taken, claim
    <2>7. /\ entry'.claim = claim /\ entry'.coverage = taken.coverage
          /\ entry'.detach_in_flight = taken.detach_in_flight
          /\ entry'.trust = taken.trust /\ entry'.pending = taken.pending
          /\ entry'.recovery_required = taken.recovery_required
          /\ entry'.rebuild_required = taken.rebuild_required /\ entry'.awaits = taken.awaits
          /\ entry'.contended = taken.contended /\ entry'.duplicate = taken.duplicate
          /\ entry'.identity = taken.identity
        BY <2>5, <2>6 DEF Entries
    <2> QED
        BY <2>1, <2>2, <2>3, <2>4, <2>7
<1>6. /\ q.pc = "polling" /\ q.job = leg /\ q.next = NoJob /\ q.followup = NoJob
      /\ q.after = "idle" /\ leg.kind = "Poll"
    BY DEF Idle, PollLeg
<1>7. Unmoved(Dispatcher) /\ thread'[Dispatcher] = q
    BY <1>1, <1>4 DEF Unmoved
<1>8. ~InQueue /\ ~InSends
    BY <1>2, <1>3, LooseIs
<1> HIDE DEF q, leg
<1>9. PICK e : e = entry'
    OBVIOUS
<1>10. /\ SameWord(entry, e) /\ e.claim.epoch = epoch /\ e.claim.gate = "held"
       /\ e.coverage = OnLeg(epoch) /\ ~e.detach_in_flight /\ ~e.rebuild_required
    BY <1>3, <1>5, <1>9 DEF SameWord
<1>11. /\ ~InHandOf(e) /\ Kept(e) /\ Kept(entry) /\ AccountedFor(e.coverage)
       /\ AccountedFor(entry.coverage)
    BY <1>2, <1>10 DEF InHandOf, InHand, Kept, AccountedFor, OnLeg, Parked
<1>12. /\ OwesARung(e) <=> OwesARung(entry)
       /\ StandsParked(e) <=> StandsParked(entry)
    BY <1>10 DEF SameWord, OwesARung, StandsParked
<1>13. Trusty(e)
    <2>1. ReadyMeans(e)
        BY <1>1, <1>10, <1>11, <1>12 DEF Trusty, ReadyMeans, SameWord, OnLeg
    <2>2. KeptMeans(e) /\ RungsMean(e)
        BY <1>1, <1>10, <1>11, <1>12 DEF Trusty, KeptMeans, RungsMean, SameWord
    <2> QED
        BY <2>1, <2>2 DEF Trusty
<1>14. GateMeans(e) /\ Passes(entry, e) /\ Suits(e, "Poll")
    BY <1>3, <1>10, <1>11 DEF GateMeans, Passes, Covered, Suits
<1>15. ASSUME NEW kind \in Kinds, Awaited(kind)' PROVE kind = "Poll"
    <2>1. ~MarkedFor(entry', kind)
        BY <1>5 DEF MarkedFor
    <2>2. \A i \in DOMAIN queue' : ~Standing(entry', queue'[i])
        BY <1>2, <1>5, <1>8 DEF InQueue, Standing
    <2>3. \A job \in sends' : ~Standing(entry', job)
        BY <1>2, <1>5, <1>8 DEF InSends, Standing
    <2>4. PICK u \in Threads : WorkOf(entry', thread'[u], kind)
        BY <1>15, <2>1, <2>2, <2>3 DEF Awaited
    <2>5. CASE u = Dispatcher
        BY <1>6, <1>7, <2>4, <2>5 DEF WorkOf, Standing
    <2>6. CASE u # Dispatcher
        <3>1. thread'[u] = thread[u]
            BY <1>7, <2>6 DEF Unmoved
        <3>2. WorkOf(entry, thread[u], kind)
            BY <1>5, <2>4, <3>1 DEF WorkOf, Standing
        <3> QED
            BY <1>2, <3>2, WorkStands DEF Custody, ThreadsStand
    <2> QED
        BY <2>5, <2>6
<1>16. JobsSuit' /\ LegsHold'
    <2>1. JobsSuit'
        BY <1>9, <1>14, <1>15 DEF JobsSuit
    <2>2. LegsHold'
        BY <1>9, <1>11 DEF LegsHold
    <2> QED
        BY <2>1, <2>2
<1>17. FactsStand'
    <2>1. underived => Minds(entry)
        BY <1>2, <1>11, OpenMinds
    <2>2. Minds(entry) => Minds(e)
        BY <1>10, <1>12 DEF Minds, SameWord
    <2> QED
        BY <1>2, <1>9, <2>1, <2>2 DEF FactsStand
<1>18. LostMeans'
    <2>1. ASSUME LostNow' PROVE LostGround(e)
        <3>1. PICK u \in Threads \ {Registrar} : LostAt(entry', thread'[u])
            BY <2>1 DEF LostNow
        <3>2. u # Dispatcher
            BY <1>6, <1>7, <3>1 DEF LostAt
        <3>3. LostAt(entry, thread[u])
            BY <1>5, <1>7, <3>1, <3>2 DEF LostAt, Unmoved
        <3>4. LostGround(entry)
            BY <3>1, <3>3 DEF Trust, LostMeans, LostNow
        <3> QED
            BY <1>10, <1>11, <3>4 DEF LostGround, SameWord
    <2>2. \A kind \in Kinds : Awaited(kind)' => kind \in Spared
        BY <1>15 DEF Spared
    <2>3. ASSUME NEW u \in Threads, thread'[u].after = "losing"
          PROVE  thread'[u].lost < entry.claim.epoch'
        <3>1. u # Dispatcher
            BY <1>6, <1>7, <2>3
        <3>2. thread'[u] = thread[u]
            BY <1>7, <3>1 DEF Unmoved
        <3> QED
            BY <1>5, <2>3, <3>2 DEF Trust, LostMeans
    <2> QED
        BY <1>9, <2>1, <2>2, <2>3 DEF LostMeans
<1> QED
    BY <1>9, <1>13, <1>14, <1>16, <1>17, <1>18 DEF Upholds, Trust

----------------------------------------------------------------------------
(* The end of a release window                                             *)

\* A thread that closes its window, over an entry left without coverage, which may
\* then schedule.
LEMMA WindowClosedUpholds ==
    ASSUME Inv, Inv', Custody, Custody', Trust, NEW t \in Threads, Closes(thread[t]),
           Unmoved(t), UNCHANGED <<queue, sends>>, NEW s \in Entries,
           s.claim.epoch = entry.claim.epoch, s.claim.gate = "open",
           ~AccountedFor(s.coverage), Arranged(s, entry'),
           thread'[t].pc # "classifying", thread'[t].after = "idle",
           thread'[t].pc = "losing" => thread'[t].lost < entry.claim.epoch
    PROVE  Upholds
<1>1. Engaged(entry, thread[t]) /\ entry.detach_in_flight
    BY ClosesIs
<1>2. entry.claim.epoch \in Nat /\ thread'[t].lost \in Nat
    <2>1. thread'[t] \in ThreadStates
        BY DEF Inv, ThreadInv
    <2> QED
        BY <2>1, Facts DEF ThreadStates
<1>3. ~InHandOf(s)
    BY DEF InHandOf, InHand, AccountedFor
<1>4. LostGround(s) /\ GateMeans(s) /\ Passes(entry, s)
    BY <1>1, <1>3 DEF LostGround, GateMeans, Passes, Covered
<1>5. entry'.claim.epoch = entry.claim.epoch \/ entry'.claim.epoch = entry.claim.epoch + 1
    <2>1. CASE entry' = s
        BY <2>1
    <2>2. CASE entry' # s
        <3>1. PICK kind \in JobKinds : entry'.claim = Schedule(s.claim, kind)
            BY <2>2 DEF Arranged
        <3> QED
            BY <3>1, ScheduledIs
    <2> QED
        BY <2>1, <2>2
<1>6. ~LostAt(entry', thread'[t]) /\ AfterLosing(thread'[t], entry.claim.epoch)
    BY <1>2, <1>5 DEF LostAt, AfterLosing
<1>7. s.claim.epoch >= entry.claim.epoch
    BY <1>2
<1> QED
    BY <1>1, <1>4, <1>6, <1>7, ArrangedUpholds

\* A released entry has nothing, owes nothing and says so.
LEMMA ReleasedTrust ==
    ASSUME Inv, Custody, NEW t \in Threads, Closes(thread[t])
    PROVE  LET released == EndRelease(entry, thread[t].rel) IN
           /\ released \in Entries /\ released.claim.epoch = entry.claim.epoch
           /\ released.claim.gate = "open" /\ released.claim.leg = NoLeg
           /\ released.coverage = NoCoverage /\ ~released.detach_in_flight
           /\ released.trust = "Unattached" /\ released.pending = "none"
           /\ ~released.recovery_required /\ ~released.rebuild_required /\ ~released.awaits
           /\ Trusty(released) /\ ~AccountedFor(released.coverage)
<1> DEFINE released == EndRelease(entry, thread[t].rel)
<1>1. Loosed(released, reads) /\ Keeps(entry, released) /\ released.coverage = NoCoverage
    BY ReleasedIs
<1>2. released \in Entries /\ released.claim.epoch = entry.claim.epoch
    BY <1>1 DEF Keeps, Sound
<1>3. /\ released.claim.gate = "open" /\ released.claim.leg = NoLeg
      /\ ~released.detach_in_flight
    BY <1>1 DEF Loosed
<1>4. /\ released.trust = "Unattached" /\ released.pending = "none"
      /\ ~released.recovery_required /\ ~released.rebuild_required /\ ~released.awaits
    BY Facts DEF EndRelease, SetTrust, ClearRungs, ClearRebuild, ClearRecovery,
                 RetireRecoveryDemands, ClearPending, Entries
<1> HIDE DEF released
<1>5. ~AccountedFor(released.coverage) /\ ~Kept(released)
    BY <1>1 DEF AccountedFor, Kept, InHandOf, InHand, NoCoverage, OnLeg
<1>6. Trusty(released)
    BY <1>4, <1>5 DEF Trusty, ReadyMeans, KeptMeans, RungsMean
<1> QED
    BY <1>1, <1>2, <1>3, <1>4, <1>5, <1>6 DEF released

\* The attach a released entry is owed takes it to be installing.
LEMMA ReattachTrusty ==
    ASSUME NEW s \in Entries, s.coverage = NoCoverage, ~s.recovery_required,
           ~s.rebuild_required, ~s.awaits
    PROVE  Trusty(Reattach(s))
<1> DEFINE p == Reattach(s)
<1>1. /\ p.coverage = NoCoverage /\ p.trust = "Installing"
      /\ ~p.recovery_required /\ ~p.rebuild_required /\ ~p.awaits
    BY DEF Reattach, HandOnTo, SetTrust, Entries
<1> HIDE DEF p
<1>2. ~Kept(p)
    BY <1>1 DEF Kept, InHandOf, InHand, NoCoverage, OnLeg
<1>3. Trusty(p)
    BY <1>1, <1>2 DEF Trusty, ReadyMeans, KeptMeans, RungsMean
<1> QED
    BY <1>3 DEF p

LEMMA FinishReleaseUpholds ==
    ASSUME Inv, Inv', Custody, Custody', Trust, NEW t \in Threads, FinishRelease(t)
    PROVE  Upholds
<1> DEFINE r == thread[t]
           released == EndRelease(entry, thread[t].rel)
<1>1. r.pc = "releasing" /\ UNCHANGED <<queue, sends, underived>>
    BY DEF FinishRelease, At, Channel
<1>2. Closes(r)
    BY <1>1 DEF Closes
<1>3. /\ released \in Entries /\ released.claim.epoch = entry.claim.epoch
      /\ released.claim.gate = "open" /\ released.claim.leg = NoLeg
      /\ released.coverage = NoCoverage /\ ~released.detach_in_flight
      /\ ~released.recovery_required /\ ~released.rebuild_required /\ ~released.awaits
      /\ Trusty(released) /\ ~AccountedFor(released.coverage)
    BY <1>2, ReleasedTrust
<1>4. CASE ~ReattachOwed(entry)
    <2>1. entry' = released /\ Resumes(t)
        BY <1>4 DEF FinishRelease
    <2> HIDE DEF released
    <2>2. Unmoved(t)
        BY <2>1, ResumesTo
    <2>3. /\ thread'[t].pc # "classifying" /\ thread'[t].after = "idle"
          /\ thread'[t].pc = "losing" => thread'[t].lost < entry.claim.epoch
        BY <1>2, <2>1, ResumesTrust
    <2>4. Arranged(released, entry')
        BY <1>3, <2>1, UnarrangedIs
    <2> HIDE <2>1
    <2> QED
        BY <1>1, <1>2, <1>3, <2>2, <2>3, <2>4, WindowClosedUpholds
<1>5. CASE ReattachOwed(entry)
    <2> DEFINE next == [kind |-> "Attach", epoch |-> released.claim.epoch + 1]
    <2>1. /\ entry' = Reattach(released)
          /\ thread' = [thread EXCEPT ![t] =
                [@ EXCEPT !.pc = "sending", !.held = FALSE, !.rel = 0, !.followup = next]]
        BY <1>5 DEF FinishRelease
    <2> HIDE DEF released
    <2>2. /\ thread \in [Threads -> ThreadStates] /\ r \in ThreadStates
          /\ entry.claim.epoch \in Nat /\ entry.detach_in_flight
          /\ r.next.epoch \in 0..entry.claim.epoch
        BY <1>2, Facts, ClosesIs DEF Inv, ThreadInv
    <2>3. PICK q : q = thread'[t]
        OBVIOUS
    <2>4. /\ q.pc = "sending" /\ q.followup = next /\ q.next = r.next
          /\ q.after = r.after /\ q.lost = r.lost /\ Unmoved(t)
        BY <2>1, <2>2, <2>3 DEF ThreadStates, Unmoved
    <2>5. ClaimIs(entry'.claim, entry.claim.epoch + 1, "held", NoJob, NoLeg,
                  entry.claim.epoch + 1)
        BY <1>3, <2>1, ReattachFields
    <2>6. entry'.coverage = NoCoverage /\ entry'.detach_in_flight = released.detach_in_flight
        BY <1>3, <2>1, ReattachFields
    <2>7. Trusty(entry')
        BY <1>3, <2>1, ReattachTrusty
    <2>8. PICK p : p = entry'
        OBVIOUS
    <2>9. /\ p.claim.epoch = entry.claim.epoch + 1 /\ p.claim.gate = "held"
          /\ p.claim.leg = NoLeg /\ p.coverage = NoCoverage /\ ~p.detach_in_flight
        BY <1>3, <2>5, <2>6, <2>8 DEF ClaimIs
    <2>10. \A k : WorkOf(p, q, k) => k = "Attach"
        <3>1. next.kind = "Attach" /\ ~Standing(p, q.next)
            BY <2>2, <2>4, <2>9 DEF Standing
        <3> QED
            BY <2>4, <3>1 DEF WorkOf
    <2>11. AfterLosing(q, entry.claim.epoch)
        BY <2>4 DEF AfterLosing, Trust, LostMeans
    <2>12. LegsHold'
        BY <2>8, <2>9 DEF LegsHold, Running
    <2>13. Suits(p, "Attach") /\ Passes(entry, p) /\ ~AccountedFor(p.coverage)
        BY <2>2, <2>9 DEF Suits, Passes, Covered, AccountedFor, NoCoverage
    <2>14. entry.claim.epoch' > entry.claim.epoch /\ entry.claim.gate' = "held"
        BY <2>2, <2>8, <2>9
    <2> QED
        BY <1>1, <2>3, <2>4, <2>7, <2>8, <2>10, <2>11, <2>12, <2>13, <2>14, HandedUpholds
<1> QED
    BY <1>4, <1>5

LEMMA ReturnCoverageUpholds ==
    ASSUME Inv, Inv', Custody, Custody', Trust, NEW t \in Threads, ReturnCoverage(t)
    PROVE  Upholds
<1> DEFINE back == [entry EXCEPT !.coverage = ReleasedBy(@, thread[t].rel),
                                 !.detach_in_flight = FALSE]
<1>1. /\ thread[t].pc = "returning" /\ Resumes(t) /\ UNCHANGED <<queue, sends, underived>>
      /\ entry' = ScheduleDemandedWork(back)
    BY DEF ReturnCoverage, At, EndGiveBack, Channel
<1>2. Closes(thread[t])
    BY <1>1 DEF Closes
<1>3. Loosed(back, reads) /\ Keeps(entry, back)
    BY <1>1, <1>2, ReleasedIs
<1>4. /\ entry \in Entries /\ entry.detach_in_flight
      /\ entry.coverage \in {NoCoverage, OnLeg(thread[t].rel)}
    BY <1>2, Facts, ClosesIs
<1>5. /\ back.coverage = NoCoverage /\ back.trust = entry.trust
      /\ back.recovery_required = entry.recovery_required
      /\ back.rebuild_required = entry.rebuild_required /\ back.awaits = entry.awaits
    <2>1. ReleasedBy(entry.coverage, thread[t].rel) = NoCoverage
        BY <1>4 DEF ReleasedBy
    <2> QED
        BY <1>4, <2>1 DEF Entries
<1> HIDE DEF back
<1>6. back \in Entries /\ back.claim.epoch = entry.claim.epoch /\ back.claim.gate = "open"
    BY <1>3 DEF Keeps, Sound, Loosed
<1>7. ~AccountedFor(back.coverage) /\ ~Kept(back) /\ Resting(back)
    BY <1>5 DEF AccountedFor, Kept, InHandOf, InHand, NoCoverage, OnLeg, Resting, OutWithLeg
<1>8. Trusty(back)
    <2>1. back.trust # "Ready"
        BY <1>4, <1>5 DEF Trust, Trusty, ReadyMeans
    <2> QED
        BY <1>5, <1>7, <2>1 DEF Trust, Trusty, ReadyMeans, KeptMeans, RungsMean
<1>9. Arranged(back, entry')
    BY <1>1, <1>6, <1>7, <1>8, DemandedArranged
<1>10. Unmoved(t)
    BY <1>1, ResumesTo
<1>11. /\ thread'[t].pc # "classifying" /\ thread'[t].after = "idle"
       /\ thread'[t].pc = "losing" => thread'[t].lost < entry.claim.epoch
    BY <1>1, <1>2, ResumesTrust
<1> QED
    BY <1>1, <1>2, <1>6, <1>7, <1>9, <1>10, <1>11, WindowClosedUpholds

LEMMA FinishReclaimUpholds ==
    ASSUME Inv, Inv', Custody, Custody', Trust, NEW t \in Threads, FinishReclaim(t)
    PROVE  Upholds
<1> DEFINE r == thread[t]
           released == EndRelease(entry, thread[t].rel)
<1>1. /\ r.pc = "reclaiming" /\ UNCHANGED <<queue, sends, underived>>
      /\ entry' = released
      /\ thread' = [thread EXCEPT ![t] = Moved([@ EXCEPT !.rel = 0], "reclaimed", FALSE)]
    BY DEF FinishReclaim, At, Channel
<1>2. Closes(r)
    BY <1>1 DEF Closes
<1>3. /\ released \in Entries /\ released.claim.epoch = entry.claim.epoch
      /\ released.claim.gate = "open" /\ Trusty(released) /\ ~AccountedFor(released.coverage)
    BY <1>2, ReleasedTrust
<1> HIDE DEF released
<1>4. thread \in [Threads -> ThreadStates] /\ r \in ThreadStates
    BY DEF Inv, ThreadInv
<1>5. thread'[t].pc = "reclaimed" /\ thread'[t].after = "idle" /\ Unmoved(t)
    BY <1>1, <1>4 DEF Moved, ThreadStates, Unmoved
<1>6. Arranged(released, entry')
    BY <1>1, <1>3, UnarrangedIs
<1>7. UNCHANGED <<queue, sends>> /\ thread'[t].pc # "classifying" /\ thread'[t].pc # "losing"
    BY <1>1, <1>5
<1> HIDE <1>1
<1> QED
    BY <1>2, <1>3, <1>5, <1>6, <1>7, WindowClosedUpholds

LEMMA ReclaimUpholds ==
    ASSUME Inv, Inv', Custody, Custody', Trust, NEW t \in Threads, Reclaim(t)
    PROVE  Upholds
<1> DEFINE r == thread[t]
           u == UnpinLeg(entry, LegOf(t))
           s == [InvalidateClaim(u) EXCEPT !.coverage = GiveUp(@)]
<1>1. At(t, "unwound") /\ UNCHANGED <<queue, sends>>
    BY DEF Reclaim, Channel
<1>2. /\ r.after = "idle" /\ r \in ThreadStates
      /\ Registers(entry, r) <=> entry.claim.leg = LegOf(t)
    BY <1>1, UnwoundIs, ThreadNums
<1>3. CASE entry.claim.leg # LegOf(t)
    BY <1>3, ReclaimLeavesUpholds
<1>4. CASE entry.claim.leg = LegOf(t)
    <2>1. Engaged(entry, r)
        BY <1>2, <1>4 DEF Engaged
    <2>2. /\ entry' = BeginRelease(s)
          /\ thread' = [thread EXCEPT ![t] =
                [@ EXCEPT !.pc = "reclaiming", !.held = InHandOf(entry), !.rel = EpochOf(t)]]
        BY <1>4 DEF Reclaim
    <2>3. u \in Entries /\ SameTrust(entry, u) /\ u.claim = entry.claim
        BY UnpinnedHeal
    <2> HIDE DEF u
    <2>4. u.claim \in Claims /\ entry.claim.epoch \in Nat
        BY <2>3, Facts DEF Entries
    <2>5. /\ s.claim = Invalidate(u.claim) /\ s.coverage = GiveUp(u.coverage)
          /\ s.pending = u.pending
          /\ s.recovery_required = u.recovery_required
          /\ s.rebuild_required = u.rebuild_required /\ s.awaits = u.awaits
        BY <2>3 DEF InvalidateClaim, Entries
    <2>6. s \in Entries
        <3>1. u.coverage \in Coverages /\ NoCoverage \in Coverages
            BY <2>3 DEF Entries, NoCoverage, Coverages
        <3>2. GiveUp(u.coverage) \in Coverages
            BY <3>1 DEF GiveUp
        <3>3. Invalidate(u.claim) \in Claims
            BY <2>4, InvalidateFields
        <3> QED
            BY <2>3, <3>2, <3>3 DEF InvalidateClaim, Entries
    <2>7. s.claim.epoch = entry.claim.epoch + 1
        BY <2>3, <2>4, <2>5, InvalidateFields
    <2> HIDE DEF s
    <2>8. ~InHandOf(s) /\ (AccountedFor(s.coverage) => AccountedFor(entry.coverage))
        BY <2>3, <2>5 DEF SameTrust, GiveUp, InHandOf, InHand, AccountedFor, NoCoverage
    <2>9. RungsMean(s) /\ s.pending = entry.pending
        BY <2>3, <2>5, <2>8 DEF SameTrust, Trust, Trusty, RungsMean
    <2>10. /\ Unmoved(t) /\ thread'[t].pc \notin {"classifying", "losing"}
           /\ thread'[t].after # "losing"
        BY <1>2, <2>2 DEF Unmoved, ThreadStates, Inv, ThreadInv
    <2>11. s.claim.epoch >= entry.claim.epoch
        BY <2>4, <2>7
    <2> QED
        BY <1>1, <2>1, <2>2, <2>6, <2>8, <2>9, <2>10, <2>11, ReleasingUpholds
<1> QED
    BY <1>3, <1>4

----------------------------------------------------------------------------
(* Demands                                                                 *)

\* q is s with the refusals that parked it withdrawn, if any were.
Forgives(s, q) ==
    /\ q.coverage = s.coverage /\ q.detach_in_flight = s.detach_in_flight
    /\ q.trust = s.trust /\ q.pending = s.pending
    /\ q.recovery_required = s.recovery_required /\ q.rebuild_required = s.rebuild_required
    /\ q.awaits = s.awaits
    /\ (q.contended => s.contended) /\ (q.duplicate => s.duplicate)
    /\ (q.identity => s.identity)

LEMMA ForgivesTrusty ==
    ASSUME NEW s, NEW q, Forgives(s, q), Trusty(s),
           q.claim.epoch = s.claim.epoch \/ Resting(s)
    PROVE  /\ Trusty(q) /\ Passes(s, q)
           /\ \A kind : Suits(s, kind) => Suits(q, kind)
           /\ LostGround(s) => LostGround(q)
           /\ Minds(s) => Minds(q)
           /\ Resting(s) => Resting(q)
<1>1. /\ OwesARung(q) <=> OwesARung(s)
      /\ StandsParked(q) => StandsParked(s)
      /\ InHandOf(q) <=> InHandOf(s)
      /\ Kept(q) <=> Kept(s)
    BY DEF Forgives, OwesARung, StandsParked, InHandOf, Kept, Resting, OutWithLeg, OnLeg
<1>2. ReadyMeans(q)
    BY <1>1 DEF Forgives, Trusty, ReadyMeans, Resting
<1>3. KeptMeans(q) /\ RungsMean(q)
    BY <1>1 DEF Forgives, Trusty, KeptMeans, RungsMean
<1>4. \A kind : Suits(s, kind) => Suits(q, kind)
    BY <1>1 DEF Forgives, Suits
<1>5. (LostGround(s) => LostGround(q)) /\ (Minds(s) => Minds(q))
    BY <1>1 DEF Forgives, LostGround, Minds
<1>6. Passes(s, q) /\ (Resting(s) => Resting(q))
    BY DEF Forgives, Passes, Covered, Resting
<1> QED
    BY <1>2, <1>3, <1>4, <1>5, <1>6 DEF Trusty

\* The refusals withdrawn, and nothing else.
LEMMA ForgivenUpholds ==
    ASSUME Inv, Inv', Custody, Trust, UNCHANGED <<thread, queue, sends, underived>>,
           Forgives(entry, entry'), entry'.claim = entry.claim
    PROVE  Upholds
<1>1. Dispatcher \in Threads /\ Trusty(entry) /\ entry'.claim.epoch = entry.claim.epoch
    BY Facts DEF Trust
<1>2. PICK p : p = entry'
    OBVIOUS
<1>3. Eases(entry, p)
    BY <1>1, <1>2, ForgivesTrusty DEF Eases, Forgives
<1>4. Unmoved(Dispatcher) /\ thread'[Dispatcher] = thread[Dispatcher]
    BY DEF Unmoved
<1>5. FewerJobs(thread[Dispatcher], thread'[Dispatcher])
    BY <1>4 DEF FewerJobs
<1>6. AfterLosing(thread'[Dispatcher], entry.claim.epoch)
    BY <1>1, <1>4 DEF AfterLosing, Trust, LostMeans
<1>7. Derives(entry, thread[Dispatcher]) => Derives(entry', thread'[Dispatcher])
    BY <1>4 DEF Derives, Registers, Forgives
<1>8. /\ entry.claim.gate' = entry.claim.gate /\ entry.claim.marker' = entry.claim.marker
      /\ entry.claim.leg' = entry.claim.leg /\ Eases(entry, entry')
    BY <1>2, <1>3
<1> QED
    BY <1>1, <1>4, <1>5, <1>6, <1>7, <1>8, EasesAlone

\* A demand that moves the entry on.
LEMMA AwayUpholds ==
    ASSUME Inv, Inv', Custody, Custody', Trust,
           UNCHANGED <<thread, queue, sends, underived>>, Resting(entry),
           NEW s \in Entries, Forgives(entry, s), s.claim.epoch >= entry.claim.epoch,
           s.claim.gate = "open", Arranged(s, entry'),
           entry'.claim.epoch > entry.claim.epoch, entry' = s => GateMeans(s)
    PROVE  Upholds
<1> DEFINE r == thread[Dispatcher]
<1>1. /\ Dispatcher \in Threads /\ entry.claim.epoch \in Nat /\ Trusty(entry)
      /\ r.lost \in 0..entry.claim.epoch
      /\ r.after = "losing" => r.lost < entry.claim.epoch
    BY Facts, ThreadFacts DEF Trust, LostMeans
<1>2. Unmoved(Dispatcher) /\ thread'[Dispatcher] = r
    BY DEF Unmoved
<1>3. /\ LostGround(entry) => LostGround(s)
      /\ Minds(entry) => Minds(s)
      /\ Passes(entry, s)
    BY <1>1, ForgivesTrusty
<1>4. ~LostAt(entry', thread'[Dispatcher]) /\ AfterLosing(thread'[Dispatcher], entry.claim.epoch)
    <2>1. entry'.claim.epoch \in Nat
        BY SoundEpoch DEF Inv
    <2> QED
        BY <1>1, <1>2, <2>1 DEF LostAt, AfterLosing
<1>5. LostNow => LostGround(s)
    BY <1>3 DEF Trust, LostMeans
<1>6. underived' /\ AccountedFor(s.coverage) => Minds(s)
    <2>1. \A u \in Threads : ~Derives(entry, thread[u])
        BY DEF Derives, Resting, OnLeg, OutWithLeg
    <2>2. underived /\ AccountedFor(entry.coverage) => Minds(entry)
        BY <2>1 DEF Trust, FactsStand
    <2> QED
        BY <1>3, <2>2 DEF Forgives
<1>7. entry' = s => s.claim.epoch # entry.claim.epoch
    BY <1>1
<1> QED
    BY <1>1, <1>2, <1>3, <1>4, <1>5, <1>6, <1>7, ArrangedUpholds

\* A demand that takes back a scheduled detach finds no coverage out with a leg.
LEMMA TakenBackRests ==
    ASSUME Inv, Custody, LeavesLegsBe, entry.detach_scheduled, ~entry.detach_in_flight,
           ~entry'.detach_scheduled
    PROVE  Resting(entry)
<1>1. \A u \in Threads : Registers(entry, thread[u]) /\ entry.claim.gate = "held" =>
          thread[u].job.kind = "Detach" \/ thread[u].next # NoJob
    <2>1. \A u \in Threads : Registered(u) /\ entry.claim.gate = "held" =>
              KindOf(u) = "Detach" \/ thread[u].next # NoJob
        BY DEF LeavesLegsBe
    <2> QED
        BY <2>1 DEF Registered, Runs, At, Registers, LegsRun, LegFor, LegOf, KindOf, EpochOf
<1>2. ASSUME NEW u \in Threads, OutWithLeg(entry.coverage) PROVE ~Custodian(entry, thread[u])
    <2> DEFINE r == thread[u]
    <2>1. /\ Shape(u, r) /\ Stand(entry, r)
          /\ Registers(entry, r) /\ entry.claim.gate = "held" =>
                 r.job.kind = "Detach" \/ r.next # NoJob
        BY <1>1 DEF Custody, ThreadsStand
    <2> HIDE DEF r
    <2>2. ~Holds(r)
        BY <2>1 DEF Stand, HoldsStand, Holds, Shape
    <2>3. ~Closes(r)
        BY <2>1 DEF Stand, CloseStand
    <2>4. entry.claim.gate = "held"
        BY <1>2 DEF Custody, Settled
    <2> QED
        BY <2>1, <2>2, <2>3, <2>4 DEF Custodian, Shape, r
<1> QED
    BY <1>2 DEF Custody, Answered, Resting

LEMMA RecordDemandForgives ==
    ASSUME NEW s \in Entries, NEW asks PROVE Forgives(s, RecordDemand(s, asks))
<1> DEFINE p == RecordDemand(s, asks)
<1>1. p.coverage = s.coverage /\ p.detach_in_flight = s.detach_in_flight
    BY RecordDemandFields
<1>2. /\ p.trust = s.trust /\ p.pending = s.pending
      /\ p.recovery_required = s.recovery_required
      /\ p.rebuild_required = s.rebuild_required /\ p.awaits = s.awaits
      /\ p.contended = s.contended /\ p.duplicate = s.duplicate /\ p.identity = s.identity
    BY DEF RecordDemand, OpenClaim, InvalidateClaim, Entries
<1> HIDE DEF p
<1>3. Forgives(s, p)
    BY <1>1, <1>2 DEF Forgives
<1> QED
    BY <1>3 DEF p

\* A demand recorded, and the work it asks for.
LEMMA DemandUpholds ==
    ASSUME Inv, Inv', Custody, Custody', Trust, LeavesLegsBe,
           UNCHANGED <<thread, queue, sends, underived>>,
           NEW p \in Entries, Forgives(entry, p),
           p.detach_in_flight = entry.detach_in_flight,
           entry.detach_scheduled /\ ~entry.detach_in_flight =>
               p.claim = OpenGate(Invalidate(entry.claim)) /\ ~p.detach_scheduled,
           ~(entry.detach_scheduled /\ ~entry.detach_in_flight) => p.claim = entry.claim,
           entry' = p \/ (Schedulable(p) /\ entry' = ScheduleDemand(p)),
           Schedulable(p) /\ ~StandsParked(p) /\ ~p.awaits => entry' = ScheduleDemand(p)
    PROVE  Upholds
<1>1. /\ entry \in Entries /\ entry.claim \in Claims /\ entry.claim.epoch \in Nat
      /\ Trusty(entry) /\ Settled(entry)
    BY Facts, EntryTyped DEF Trust, Custody
<1>2. ASSUME Schedulable(p), entry' = ScheduleDemand(p), Resting(entry),
             p.claim.epoch >= entry.claim.epoch
      PROVE  Upholds
    <2>1. Trusty(p) /\ Resting(p)
        BY <1>1, <1>2, ForgivesTrusty
    <2>2. p.claim.gate = "open" /\ ~p.detach_in_flight
        <3>1. p.claim.gate \in {"open", "held", "scheduled"}
            BY DEF Entries, Claims
        <3> QED
            BY <1>2, <3>1 DEF Schedulable, IsHeld
    <2>3. Arranged(p, entry')
        BY <1>2, <2>1, <2>2, DemandArranged
    <2>4. PICK kind \in JobKinds : entry'.claim = Schedule(p.claim, kind)
        <3>1. ScheduleDemand(p).claim = Schedule(p.claim, OwedBy(p)) /\ OwedBy(p) \in JobKinds
            BY DEF ScheduleDemand, ScheduleJob, PublishPendingReconcile, SetTrust, OwedBy,
                   JobKinds, Entries
        <3> QED
            BY <1>2, <3>1
    <2>5. entry'.claim.epoch = p.claim.epoch + 1 /\ entry'.claim.gate = "scheduled"
        BY <2>4, ScheduledIs
    <2>6. entry' # p /\ entry'.claim.epoch > entry.claim.epoch
        <3>1. p.claim.epoch \in Nat
            BY DEF Entries, Claims
        <3> QED
            BY <1>1, <1>2, <2>2, <2>5, <3>1
    <2> QED
        BY <1>2, <2>2, <2>3, <2>6, AwayUpholds
<1>3. CASE ~(entry.detach_scheduled /\ ~entry.detach_in_flight)
    <2>1. p.claim = entry.claim
        BY <1>3
    <2>2. CASE entry' = p
        BY <2>1, <2>2, ForgivenUpholds
    <2>3. CASE Schedulable(p) /\ entry' = ScheduleDemand(p)
        <3>1. entry.claim.gate = "open" /\ ~entry.detach_in_flight
            BY <1>1, <2>1, <2>3 DEF Schedulable, IsHeld, Claims
        <3>2. Resting(entry)
            BY <1>1, <3>1 DEF Resting, Settled
        <3>3. p.claim.epoch >= entry.claim.epoch
            BY <1>1, <2>1
        <3> QED
            BY <1>2, <2>3, <3>2, <3>3
    <2> QED
        BY <2>2, <2>3
<1>4. CASE entry.detach_scheduled /\ ~entry.detach_in_flight
    <2>1. p.claim = OpenGate(Invalidate(entry.claim)) /\ ~p.detach_scheduled
        BY <1>4
    <2>2. p.claim.epoch = entry.claim.epoch + 1 /\ p.claim.gate = "open"
        <3>1. Invalidate(entry.claim) \in Claims
              /\ Invalidate(entry.claim).epoch = entry.claim.epoch + 1
            BY <1>1, InvalidateFields
        <3> QED
            BY <2>1, <3>1, GateFields DEF ClaimIs
    <2>3. ~entry'.detach_scheduled
        BY <2>1, DemandKeepsFlag
    <2>4. Resting(entry) /\ p.claim.epoch >= entry.claim.epoch
        BY <1>1, <1>4, <2>2, <2>3, TakenBackRests
    <2>5. CASE Schedulable(p) /\ entry' = ScheduleDemand(p)
        BY <1>2, <2>4, <2>5
    <2>6. CASE entry' = p /\ ~(Schedulable(p) /\ entry' = ScheduleDemand(p))
        <3>1. Trusty(p)
            BY <1>1, <2>4, ForgivesTrusty
        <3>2. Arranged(p, entry')
            BY <2>6, <3>1, UnarrangedIs
        <3>3. GateMeans(p)
            <4> SUFFICES ASSUME p.rebuild_required, InHandOf(p) PROVE FALSE
                BY DEF GateMeans
            <4>1. p.trust = "Rebuilding" /\ ~StandsParked(p) /\ ~p.awaits
                BY <3>1 DEF Trusty, KeptMeans, RungsMean, Kept
            <4>2. Schedulable(p)
                BY <1>4, <2>2, <4>1 DEF Schedulable, Distrust, IsHeld
            <4> QED
                BY <2>6, <4>1, <4>2
        <3>4. entry'.claim.epoch > entry.claim.epoch
            BY <1>1, <2>2, <2>6
        <3> HIDE <2>6
        <3> QED
            BY <2>2, <2>4, <3>2, <3>3, <3>4, AwayUpholds
    <2> QED
        BY <2>5, <2>6
<1> QED
    BY <1>3, <1>4

LEMMA DemandEntryUpholds ==
    ASSUME Inv, Inv', Custody, Custody', Trust, LeavesLegsBe, NEW retry \in BOOLEAN,
           DemandEntry(retry)
    PROVE  Upholds
<1> DEFINE flag == entry.contended /\ ~retry
           bare == [entry EXCEPT !.contended = flag]
           asked == RecordDemand(bare, TRUE)
           settled == IF asked.contended THEN asked ELSE RetireRegistryParks(asked)
<1>1. /\ flag \in BOOLEAN /\ UNCHANGED <<thread, queue, sends, underived>>
      /\ entry \in Entries /\ Sound(entry)
    BY Facts DEF Entries, DemandEntry, Channel
<1>2. entry' = IF Schedulable(asked) /\ ~StandsParked(settled)
               THEN ScheduleDemand(settled) ELSE settled
    BY DEF DemandEntry
<1>3. flag => entry.contended
    OBVIOUS
<1> HIDE DEF flag
<1>4. /\ bare \in Entries /\ Forgives(entry, bare) /\ bare.claim = entry.claim
      /\ bare.detach_in_flight = entry.detach_in_flight
      /\ bare.detach_scheduled = entry.detach_scheduled /\ Keeps(entry, bare)
    <2>1. bare \in Entries /\ bare.claim = entry.claim
          /\ bare.detach_in_flight = entry.detach_in_flight
          /\ bare.detach_scheduled = entry.detach_scheduled
        BY <1>1 DEF Entries
    <2>2. Forgives(entry, bare)
        BY <1>1, <1>3 DEF Forgives, Entries
    <2>3. Keeps(entry, bare)
        BY <1>1, FlagsMoved, AlikeKeeps
    <2> QED
        BY <2>1, <2>2, <2>3
<1> HIDE DEF bare
<1>5. asked \in Entries
    <2>1. Grows(bare, asked)
        BY <1>4, RecordDemandGrows DEF Keeps
    <2> QED
        BY <2>1 DEF Grows, Sound
<1>6. Forgives(bare, asked)
    BY <1>4, RecordDemandForgives
<1>7. /\ bare.detach_scheduled /\ ~bare.detach_in_flight =>
             asked.claim = OpenGate(Invalidate(bare.claim)) /\ ~asked.detach_scheduled
      /\ ~(bare.detach_scheduled /\ ~bare.detach_in_flight) => asked.claim = bare.claim
    BY <1>4, RecordDemandFields
<1> HIDE DEF asked
<1>8. /\ settled \in Entries /\ Forgives(asked, settled) /\ settled.claim = asked.claim
      /\ settled.detach_scheduled = asked.detach_scheduled
    <2>1. CASE asked.contended
        BY <1>5, <2>1 DEF Forgives
    <2>2. CASE ~asked.contended
        BY <1>5, <2>2 DEF RetireRegistryParks, Forgives, Entries
    <2> QED
        BY <2>1, <2>2
<1> HIDE DEF settled
<1>9. Forgives(entry, settled) /\ settled.detach_in_flight = entry.detach_in_flight
    BY <1>4, <1>6, <1>8 DEF Forgives
<1>10. Schedulable(settled) <=> Schedulable(asked)
    BY <1>8 DEF Schedulable, Forgives
<1>11. /\ entry' = settled \/ (Schedulable(settled) /\ entry' = ScheduleDemand(settled))
       /\ Schedulable(settled) /\ ~StandsParked(settled) => entry' = ScheduleDemand(settled)
    BY <1>2, <1>10
<1>12. /\ entry.detach_scheduled /\ ~entry.detach_in_flight =>
              settled.claim = OpenGate(Invalidate(entry.claim)) /\ ~settled.detach_scheduled
       /\ ~(entry.detach_scheduled /\ ~entry.detach_in_flight) => settled.claim = entry.claim
    BY <1>4, <1>7, <1>8
<1> QED
    BY <1>1, <1>8, <1>9, <1>11, <1>12, DemandUpholds

LEMMA BeginQueryReadUpholds ==
    ASSUME Inv, Inv', Custody, Custody', Trust, LeavesLegsBe, BeginQueryRead PROVE Upholds
<1> DEFINE asks == ~entry.awaits
           asked == RecordDemand(entry, asks)
<1>1. /\ asks \in BOOLEAN /\ UNCHANGED <<thread, queue, sends, underived>>
      /\ entry \in Entries /\ Sound(entry)
    BY Facts DEF Entries, BeginQueryRead, Channel
<1>2. entry' = IF Schedulable(asked) /\ ~StandsParked(asked) /\ ~entry.awaits
               THEN ScheduleDemand(asked) ELSE asked
    BY DEF BeginQueryRead
<1> HIDE DEF asks
<1>3. asked \in Entries
    <2>1. Grows(entry, asked)
        BY <1>1, RecordDemandGrows
    <2> QED
        BY <2>1 DEF Grows, Sound
<1>4. Forgives(entry, asked)
    BY <1>1, RecordDemandForgives
<1>5. /\ entry.detach_scheduled /\ ~entry.detach_in_flight =>
             asked.claim = OpenGate(Invalidate(entry.claim)) /\ ~asked.detach_scheduled
      /\ ~(entry.detach_scheduled /\ ~entry.detach_in_flight) => asked.claim = entry.claim
    BY <1>1, RecordDemandFields
<1> HIDE DEF asked
<1>6. asked.awaits = entry.awaits /\ asked.detach_in_flight = entry.detach_in_flight
    BY <1>4 DEF Forgives
<1>7. /\ entry' = asked \/ (Schedulable(asked) /\ entry' = ScheduleDemand(asked))
      /\ Schedulable(asked) /\ ~StandsParked(asked) /\ ~asked.awaits =>
             entry' = ScheduleDemand(asked)
    BY <1>2, <1>6
<1> QED
    BY <1>1, <1>3, <1>4, <1>5, <1>6, <1>7, DemandUpholds

----------------------------------------------------------------------------
(* Every step                                                              *)

LEMMA WorkerUpholds ==
    ASSUME Inv, Inv', Custody, Custody', Trust, HandOffTakesAFreeSlot, NEW w \in Workers,
           WorkerStep(w)
    PROVE  Upholds
<1>1. CASE \/ Receive(w) \/ ReceiveStale(w) \/ BeginLeg(w) \/ BegunStale(w)
           \/ BeginAttach(w) \/ AttachRefused(w) \/ AttachConflict(w) \/ AttachMoved(w)
           \/ AttachStale(w) \/ AttachSucceeds(w) \/ AttachWithheld(w) \/ AttachFails(w)
    BY <1>1, ReceiveUpholds, ReceiveStaleUpholds, BeginLegUpholds, BegunStaleUpholds,
       BeginAttachUpholds, AttachRefusedUpholds, AttachConflictUpholds, AttachMovedUpholds,
       AttachStaleUpholds, AttachSucceedsUpholds, AttachWithheldUpholds, AttachFailsUpholds
<1>2. CASE \/ LosesClaim(w) \/ TakesCoverage(w) \/ RecoverRefusedAtOnce(w)
           \/ WorkedStale(w) \/ RecoverUnpins(w) \/ RecoverRefused(w) \/ RecoverFindsMoved(w)
           \/ TurnLosesLock(w) \/ TurnFails(w) \/ TurnFindsDamage(w) \/ RecoverSucceeds(w)
           \/ RebuildSucceeds(w) \/ LegWithheld(w) \/ RebuildFails(w)
    BY <1>2, LosesClaimUpholds, TakesCoverageUpholds, RecoverRefusedAtOnceUpholds,
       WorkedStaleUpholds, RecoverUnpinsUpholds, RecoverRefusedUpholds, RecoverFindsMovedUpholds,
       TurnLosesLockUpholds, TurnFailsUpholds, TurnFindsDamageUpholds, RecoverSucceedsUpholds, RebuildSucceedsUpholds,
       LegWithheldUpholds, RebuildFailsUpholds
<1>3. CASE \/ ReconcileSucceeds(w) \/ MaintenanceSucceeds(w) \/ BeginDetach(w)
           \/ HandOffTo(w) \/ EndsByReleasing(w) \/ EndsByClosing(w) \/ CloseLeg(w)
    BY <1>3, ReconcileSucceedsUpholds, MaintenanceSucceedsUpholds, BeginDetachUpholds,
       HandOffToUpholds, EndsByReleasingUpholds, EndsByClosingUpholds, CloseLegUpholds
<1> QED
    BY <1>1, <1>2, <1>3 DEF WorkerStep

LEMMA DispatcherUpholds ==
    ASSUME Inv, Inv', Custody, Custody', Trust, DispatcherStep PROVE Upholds
BY ReapUpholds, BeginWatcherPollUpholds, PollFindsNothingUpholds, PollFindsFactsUpholds,
   PollLosesLockUpholds, PollFailsUpholds, PollFindsDamageUpholds, PollStaleUpholds,
   StalePollGivesBackUpholds, CloseStalePollUpholds
DEF DispatcherStep

LEMMA AnyThreadUpholds ==
    ASSUME Inv, Inv', Custody, Custody', Trust, NEW t \in Threads, AnyThreadStep(t)
    PROVE  Upholds
BY FinishReleaseUpholds, ReturnCoverageUpholds, SendFollowupUpholds, RefuseFollowupUpholds,
   ClassifyClearUpholds, ClassifyRefusedUpholds, GiveBackLostUpholds, UnwindUpholds,
   ReclaimUpholds, FinishReclaimUpholds, WithdrawAfterReclaimUpholds
DEF AnyThreadStep

LEMMA ClientUpholds ==
    ASSUME Inv, Inv', Custody, Custody', Trust, LeavesLegsBe, ClientStep PROVE Upholds
<1>1. ASSUME NEW retry \in BOOLEAN, DemandEntry(retry) PROVE Upholds
    BY <1>1, DemandEntryUpholds
<1>2. ASSUME NEW asking \in BOOLEAN, PinRead \/ EndRead \/ DropLease(asking) PROVE Upholds
    BY <1>2, ReadsUphold
<1>3. CASE BeginQueryRead \/ ReadMeetsDamage \/ AskMaintenance
    BY <1>3, BeginQueryReadUpholds, ReadMeetsDamageUpholds, AskMaintenanceUpholds
<1> QED
    BY <1>1, <1>2, <1>3 DEF ClientStep

LEMMA StepUpholds ==
    ASSUME Inv, Inv', Custody, Custody', Trust, [SparingNext]_vars PROVE Upholds
<1>1. ASSUME SparingNext PROVE Upholds
    <2>1. Next /\ HandOffTakesAFreeSlot /\ LeavesLegsBe
        BY <1>1 DEF SparingNext
    <2>2. ASSUME NEW w \in Workers, WorkerStep(w) PROVE Upholds
        BY <2>1, <2>2, WorkerUpholds
    <2>3. CASE DispatcherStep
        BY <2>3, DispatcherUpholds
    <2>4. CASE RegistrarStep(Registrar)
        BY <2>4, RegistrarRefusesUpholds, RegistrarReclassifiesUpholds,
           RegistrarSettlesUpholds
        DEF RegistrarStep
    <2>5. ASSUME NEW t \in Threads, AnyThreadStep(t) PROVE Upholds
        BY <2>5, AnyThreadUpholds
    <2>6. CASE MarkedStep
        BY <2>6, TakeMarkedUpholds, SendMarkedUpholds, RefuseMarkedUpholds DEF MarkedStep
    <2>7. CASE ClientStep
        BY <2>1, <2>7, ClientUpholds
    <2> QED
        BY <2>1, <2>2, <2>3, <2>4, <2>5, <2>6, <2>7 DEF Next
<1>2. CASE UNCHANGED vars
    <2>1. UNCHANGED <<thread, queue, sends, underived, entry>>
        BY <1>2 DEF vars
    <2>2. SameTrust(entry, entry') /\ entry'.claim = entry.claim
        BY <2>1 DEF SameTrust
    <2> QED
        BY <2>1, <2>2, CountsUphold
<1> QED
    BY <1>1, <1>2

LEMMA InitTrust == Init => Trust
<1> SUFFICES ASSUME Init PROVE Trust
    OBVIOUS
<1>1. /\ entry.claim.gate = "open" /\ entry.coverage = NoCoverage
      /\ entry.trust = "Unattached" /\ ~entry.recovery_required /\ ~entry.rebuild_required
      /\ ~entry.awaits /\ queue = <<>> /\ sends = {} /\ underived = FALSE
    BY DEF Init, Unattached, StartingAt
<1>2. \A t \in Threads : thread[t].pc = "idle" /\ thread[t].next = NoJob
                         /\ thread[t].followup = NoJob /\ thread[t].after = "idle"
    BY DEF Init, Idle
<1>3. ~Kept(entry) /\ ~InHandOf(entry)
    BY <1>1 DEF Kept, InHandOf, InHand, NoCoverage, OnLeg
<1>4. Trusty(entry) /\ GateMeans(entry)
    BY <1>1, <1>3 DEF Trusty, ReadyMeans, KeptMeans, RungsMean, GateMeans
<1>5. ASSUME NEW kind PROVE ~Awaited(kind)
    <2>1. \A t \in Threads : ~WorkOf(entry, thread[t], kind)
        BY <1>2 DEF WorkOf, Standing
    <2> QED
        BY <1>1, <2>1 DEF Awaited, MarkedFor
<1>6. JobsSuit /\ LegsHold /\ FactsStand
    BY <1>1, <1>3, <1>5 DEF JobsSuit, LegsHold, FactsStand
<1>7. LostMeans
    BY <1>2, <1>5 DEF LostMeans, LostNow, LostAt
<1> QED
    BY <1>4, <1>6, <1>7 DEF Trust

----------------------------------------------------------------------------
(* What follows                                                            *)

LEMMA ReadySoundOf == Custody /\ Trust => ReadySound
<1> SUFFICES ASSUME Custody, Trust PROVE ReadySound
    OBVIOUS
<1>1. ReadyMeans(entry) /\ Settled(entry)
    BY DEF Trust, Trusty, Custody
<1>2. entry.reader => AccountedFor(entry.coverage) /\ ~entry.detach_in_flight
    BY <1>1 DEF Settled
<1> QED
    BY <1>1, <1>2 DEF ReadySound, ReadyMeans

LEMMA FactsKeptOf == Trust => FactsKept
<1> SUFFICES ASSUME Trust, underived, AccountedFor(entry.coverage), ~Minds(entry)
             PROVE  \E t \in Threads : (At(t, "working") /\ KindOf(t) = "Reconcile") \/ At(t, "unwound")
    BY DEF FactsKept, Minds
<1>1. PICK t \in Threads : Derives(entry, thread[t])
    BY DEF Trust, FactsStand
<1> QED
    BY <1>1 DEF Derives, At, KindOf

LEMMA ReconcileIsOwedOf == Trust => ReconcileIsOwed
<1> SUFFICES ASSUME Trust, InHandOf(entry), ~OwesARung(entry), Schedulable(entry)
             PROVE  entry.trust \in {"Overflow", "Unattached"}
    BY DEF ReconcileIsOwed
<1>1. entry.trust \notin {"Untrusted", "Rebuilding"}
    BY DEF Trust, Trusty, KeptMeans, Kept
<1> QED
    BY <1>1 DEF Schedulable, Distrust

----------------------------------------------------------------------------
(* The contract                                                            *)

PhaseOf(s) ==
    IF s.detach_in_flight THEN "releasing"
    ELSE IF AccountedFor(s.coverage) THEN "covered" ELSE "detached"
ServesOf(s) == s.trust = "Ready" /\ ~StandsParked(s)

\* An entry that serves is covered, and its phases follow one another as they should.
LEMMA PhasesFollow ==
    ASSUME NEW s, NEW q, ReadyMeans(s), ReadyMeans(q), Passes(s, q)
    PROVE  /\ ServesOf(s) => PhaseOf(s) = "covered"
           /\ ServesOf(q) => PhaseOf(q) = "covered"
           /\ PhaseOf(s) \in {"releasing", "covered", "detached"}
           /\ PhaseOf(q) \in {"releasing", "covered", "detached"}
           /\ PhaseOf(s) = "releasing" => PhaseOf(q) # "covered"
           /\ PhaseOf(s) = "covered" /\ PhaseOf(q) = "detached" => ~ServesOf(s)
BY DEF ReadyMeans, Passes, Covered, PhaseOf, ServesOf

\* Only a read counts reads.
LEMMA ReadsAlone ==
    ASSUME [Next]_vars PROVE reads' = reads \/ PinRead \/ EndRead
<1>1. ASSUME NEW w \in Workers, WorkerStep(w) PROVE reads' = reads
    <2>1. CASE \/ Receive(w) \/ ReceiveStale(w) \/ BeginLeg(w) \/ BegunStale(w)
               \/ BeginAttach(w) \/ AttachRefused(w) \/ AttachConflict(w) \/ AttachMoved(w)
               \/ AttachStale(w) \/ AttachSucceeds(w) \/ AttachWithheld(w) \/ AttachFails(w)
        BY <2>1 DEF Receive, ReceiveStale, BeginLeg, BegunStale, BeginAttach, AttachRefused,
            AttachConflict, AttachMoved, AttachStale, AttachSucceeds, AttachWithheld,
            AttachFails, Client
    <2>2. CASE \/ LosesClaim(w) \/ TakesCoverage(w) \/ RecoverRefusedAtOnce(w)
               \/ WorkedStale(w) \/ RecoverUnpins(w) \/ RecoverRefused(w)
               \/ RecoverFindsMoved(w) \/ TurnLosesLock(w) \/ TurnFails(w)
               \/ TurnFindsDamage(w) \/ RecoverSucceeds(w) \/ RebuildSucceeds(w)
               \/ LegWithheld(w) \/ RebuildFails(w)
        BY <2>2 DEF LosesClaim, TakesCoverage, RecoverRefusedAtOnce, WorkedStale,
            RecoverUnpins, RecoverRefused, RecoverFindsMoved, TurnLosesLock, TurnFails, TurnFindsDamage, RecoverSucceeds,
            RebuildSucceeds, LegWithheld, RebuildFails, Client
    <2>3. CASE \/ ReconcileSucceeds(w) \/ MaintenanceSucceeds(w) \/ BeginDetach(w)
               \/ HandOffTo(w) \/ EndsByReleasing(w) \/ EndsByClosing(w) \/ CloseLeg(w)
        BY <2>3 DEF ReconcileSucceeds, MaintenanceSucceeds, BeginDetach, HandOffTo,
            EndsByReleasing, EndsByClosing, CloseLeg, Client
    <2> QED
        BY <1>1, <2>1, <2>2, <2>3 DEF WorkerStep
<1>2. ASSUME DispatcherStep PROVE reads' = reads
    BY <1>2 DEF DispatcherStep, Reap, BeginWatcherPoll, PollFindsNothing, PollFindsFacts,
        PollLosesLock, PollFails, PollFindsDamage, PollStale, StalePollGivesBack,
        CloseStalePoll, Client
<1>3. ASSUME RegistrarStep(Registrar) PROVE reads' = reads
    BY <1>3 DEF RegistrarStep, RegistrarRefuses, RegistrarReclassifies, RegistrarSettles, Client
<1>4. ASSUME NEW t \in Threads, AnyThreadStep(t) PROVE reads' = reads
    BY <1>4 DEF AnyThreadStep, FinishRelease, ReturnCoverage, SendFollowup, RefuseFollowup,
        ClassifyClear, ClassifyRefused, GiveBackLost, Unwind, Reclaim, FinishReclaim,
        WithdrawAfterReclaim, Client
<1>5. ASSUME MarkedStep PROVE reads' = reads
    BY <1>5 DEF MarkedStep, TakeMarked, SendMarked, RefuseMarked, Client
<1>6. ASSUME ClientStep, ~PinRead, ~EndRead PROVE reads' = reads
    BY <1>6 DEF ClientStep, DemandEntry, BeginQueryRead, DropLease, ReadMeetsDamage,
        AskMaintenance, Client
<1>7. CASE UNCHANGED vars
    BY <1>7 DEF vars
<1> QED
    BY <1>1, <1>2, <1>3, <1>4, <1>5, <1>6, <1>7 DEF Next

\* A read begins over an entry that serves, and leaves it as it was.
LEMMA ReadsMove ==
    ASSUME Inv, [Next]_vars
    PROVE  \/ reads' = reads
           \/ /\ reads' = reads + 1 /\ ServesOf(entry)
              /\ PhaseOf(entry') = PhaseOf(entry) /\ ServesOf(entry') = ServesOf(entry)
           \/ /\ reads > 0 /\ reads' = reads - 1
              /\ PhaseOf(entry') = PhaseOf(entry) /\ ServesOf(entry') = ServesOf(entry)
<1>1. entry \in Entries
    BY Facts
<1>2. CASE PinRead
    <2>1. /\ reads' = reads + 1 /\ ServesOf(entry)
          /\ entry' = [entry EXCEPT !.reader = TRUE, !.pins = @ + 1]
        BY <1>2 DEF PinRead, ServesOf
    <2>2. PhaseOf(entry') = PhaseOf(entry) /\ ServesOf(entry') = ServesOf(entry)
        BY <1>1, <2>1 DEF PhaseOf, ServesOf, StandsParked, Entries
    <2> QED
        BY <2>1, <2>2
<1>3. CASE EndRead
    <2>1. reads > 0 /\ reads' = reads - 1 /\ entry' = Unpin(entry)
        BY <1>3 DEF EndRead
    <2>2. PhaseOf(entry') = PhaseOf(entry) /\ ServesOf(entry') = ServesOf(entry)
        BY <1>1, <2>1 DEF PhaseOf, ServesOf, StandsParked, Unpin, Entries
    <2> QED
        BY <2>1, <2>2
<1> QED
    BY <1>2, <1>3, ReadsAlone

LEMMA StepImplements ==
    ASSUME Inv, Trust, Trust', Passes(entry, entry'), [Next]_vars
    PROVE  [Contract!Next]_(Contract!cvars)
<1> DEFINE phase == PhaseOf(entry)
           serves == ServesOf(entry)
           phase2 == PhaseOf(entry')
           serves2 == ServesOf(entry')
<1>1. /\ phase = IF entry.detach_in_flight THEN "releasing"
                 ELSE IF AccountedFor(entry.coverage) THEN "covered" ELSE "detached"
      /\ phase2 = IF entry'.detach_in_flight THEN "releasing"
                  ELSE IF AccountedFor(entry'.coverage) THEN "covered" ELSE "detached"
      /\ serves = (entry.trust = "Ready" /\ ~StandsParked(entry))
      /\ serves2 = (entry'.trust = "Ready" /\ ~StandsParked(entry'))
    BY DEF PhaseOf, ServesOf
<1>2. serves \in BOOLEAN /\ serves2 \in BOOLEAN
    BY DEF ServesOf, StandsParked
<1>3. /\ serves => phase = "covered"
      /\ serves2 => phase2 = "covered"
      /\ phase \in {"releasing", "covered", "detached"}
      /\ phase2 \in {"releasing", "covered", "detached"}
      /\ phase = "releasing" => phase2 # "covered"
      /\ phase = "covered" /\ phase2 = "detached" => ~serves
    <2>1. ReadyMeans(entry) /\ ReadyMeans(entry')
        BY DEF Trust, Trusty
    <2> QED
        BY <2>1, PhasesFollow
<1>4. \/ reads' = reads
      \/ /\ reads' = reads + 1 /\ serves /\ phase2 = phase /\ serves2 = serves
      \/ /\ reads > 0 /\ reads' = reads - 1 /\ phase2 = phase /\ serves2 = serves
    BY ReadsMove
<1> HIDE DEF phase, serves, phase2, serves2
<1>5. CASE reads' = reads
    <2>1. CASE phase = phase2 /\ phase # "covered"
        <3>1. serves = serves2
            BY <1>2, <1>3, <2>1
        <3> QED
            BY <1>1, <1>5, <2>1, <3>1 DEF Contract!cvars
    <2>2. CASE phase = "covered" /\ phase2 = "covered"
        BY <1>1, <1>2, <1>5, <2>2 DEF Contract!Next, Contract!Work
    <2>3. CASE phase = "detached" /\ phase2 = "covered"
        BY <1>1, <1>2, <1>5, <2>3 DEF Contract!Next, Contract!Gain
    <2>4. CASE phase # "releasing" /\ phase2 = "releasing"
        <3>1. serves2 = FALSE
            BY <1>2, <1>3, <2>4
        <3> QED
            BY <1>1, <1>3, <1>5, <2>4, <3>1 DEF Contract!Next, Contract!BeginRelease
    <2>5. CASE phase = "releasing" /\ phase2 = "detached"
        <3>1. serves2 = serves
            BY <1>2, <1>3, <2>5
        <3> QED
            BY <1>1, <1>5, <2>5, <3>1 DEF Contract!Next, Contract!EndRelease
    <2>6. CASE phase = "covered" /\ phase2 = "detached"
        <3>1. serves2 = serves /\ ~serves
            BY <1>2, <1>3, <2>6
        <3> QED
            BY <1>1, <1>5, <2>6, <3>1 DEF Contract!Next, Contract!Lose
    <2> QED
        BY <1>3, <2>1, <2>2, <2>3, <2>4, <2>5, <2>6
<1>6. CASE reads' = reads + 1 /\ serves /\ phase2 = phase /\ serves2 = serves
    BY <1>1, <1>3, <1>6 DEF Contract!Next, Contract!BeginRead
<1>7. CASE reads > 0 /\ reads' = reads - 1 /\ phase2 = phase /\ serves2 = serves
    BY <1>1, <1>7 DEF Contract!Next, Contract!EndRead
<1> QED
    BY <1>4, <1>5, <1>6, <1>7

LEMMA InitImplements == Init => Contract!Init
BY DEF Init, Unattached, StandsParked, AccountedFor, NoCoverage, Contract!Init

----------------------------------------------------------------------------
(* The theorems                                                            *)

\* What the entry says of itself, what is owed and what is on its way to heal it
\* agree, in every state of the lifecycle.
THEOREM TrustHolds == SparingSpec => [](Inv /\ Custody /\ Trust)
<1>1. Init => Trust
    BY InitTrust
<1>2. Inv /\ Inv' /\ Custody /\ Custody' /\ Trust /\ [SparingNext]_vars => Trust'
    BY StepUpholds DEF Upholds
<1> QED
    BY <1>1, <1>2, CustodyHolds, PTL DEF SparingSpec

\* An entry that answers reads has its coverage, owes no rung of the heal ladder,
\* stands on no park and is not being released, and no reader outlives the coverage.
THEOREM ReadyIsSound == SparingSpec => []ReadySound
<1>1. Inv /\ Custody /\ Trust => ReadySound
    BY ReadySoundOf
<1> QED
    BY <1>1, TrustHolds, PTL

\* A fact of the vault taken in is not lost on any path of failure, hand-on or
\* overflow before it is derived.
THEOREM FactsAreKept == SparingSpec => []FactsKept
<1>1. Inv /\ Custody /\ Trust => FactsKept
    BY FactsKeptOf
<1> QED
    BY <1>1, TrustHolds, PTL

\* What the code asserts in a debug build holds wherever it is asserted.
THEOREM EntryIsAsAsserted == SparingSpec => []AssertionsHold
<1>1. Inv /\ Custody /\ Trust => AssertionsHold
    BY InstallsOverNothingOf, ParksItsOwnOf, PinsOneLegOf, ReconcileIsOwedOf,
       GivesBackWithoutReaderOf, OutWithARegisteredLegOf
    DEF AssertionsHold
<1> QED
    BY <1>1, TrustHolds, PTL

\* The threads, jobs and epochs of the lifecycle implement the contract of the entry:
\* coverage is gained whole and ends whole, reads are answered only under it, and a
\* release ends before coverage is gained again.
THEOREM ContractIsImplemented == SparingSpec => ImplementsContract
<1>1. Init => Contract!Init
    BY InitImplements
<1>2. Inv /\ Inv' /\ Custody /\ Custody' /\ Trust /\ Trust' /\ [SparingNext]_vars
          => [Contract!Next]_(Contract!cvars)
    <2> SUFFICES ASSUME Inv, Inv', Custody, Custody', Trust, Trust', [SparingNext]_vars
                 PROVE  [Contract!Next]_(Contract!cvars)
        OBVIOUS
    <2>1. Passes(entry, entry')
        BY StepUpholds DEF Upholds
    <2>2. [Next]_vars
        BY SparingStep
    <2> QED
        BY <2>1, <2>2, StepImplements
<1> QED
    BY <1>1, <1>2, TrustHolds, PTL DEF SparingSpec, ImplementsContract, Contract!Spec

=============================================================================
