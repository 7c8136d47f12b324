------------------------ MODULE EntryCustody_proofs ------------------------
(***************************************************************************)
(* Who holds the coverage of an entry, who will end what is under way on   *)
(* it, and which job of it is on its way: the custody of the entry, for    *)
(* any set of workers and any budgets, under SparingSpec.                  *)
(*                                                                         *)
(* At any moment the entry waits for one answer at most.  Either one       *)
(* thread is engaged: it runs the leg the claim registers, or has a window *)
(* to close, or carries the job of the entry's epoch; or that job is in    *)
(* the channel; or it is the marker; or nothing is under way.  Custody     *)
(* says so (OneEngaged, ChannelStands, Answered), what the entry and a     *)
(* thread may each be (Settled, Shape), and how the engaged thread and the *)
(* entry stand to one another at each of its points (Stand).               *)
(*                                                                         *)
(* A step therefore concerns one thread.  The lemmas of the second part    *)
(* reduce a step to that thread and the entry (Sole, before and after),    *)
(* and show once that the others stay out of it: their work is of an epoch *)
(* left behind, and epochs never come back (Quiet).  What follows goes     *)
(* through the actions in the order of EntryLifecycle.  The last parts add *)
(* that a taken queue slot names a job on its way, and draw the properties *)
(* the runs check.                                                         *)
(***************************************************************************)
EXTENDS EntryLifecycle_proofs, FiniteSetTheorems

----------------------------------------------------------------------------
(* One entry and one thread                                                *)

LegsRun(r)      == r.pc \notin {"idle", "received"}
LegFor(r)       == IF r.job.kind = "Poll" THEN PollLeg(r.job.epoch) ELSE JobLeg(r.job.epoch)
\* A thread that has begun a leg and not yet ended it runs the leg registered.
Registers(s, r) ==
    LegsRun(r) /\ r.job.kind # "none" /\ s.claim.leg = LegFor(r)
Closes(r)       == r.pc \in {"releasing", "returning", "reclaiming"}

Standing(s, job) == job # NoJob /\ job.epoch = s.claim.epoch
Carries(s, r) ==
    \/ r.pc = "received" /\ r.job.epoch = s.claim.epoch
    \/ Standing(s, r.followup)

\* The one thread whose next step the entry waits for, if any.
Engaged(s, r) == Registers(s, r) \/ Closes(r) \/ Carries(s, r)

\* A thread that works on the coverage, or builds it, or has yet to let it go.
Holds(r) ==
    \/ r.pc \in {"working", "polling", "stale", "refusing"}
    \/ r.pc \in {"ending", "closing"} /\ r.held
    \/ r.pc = "begun" /\ r.job.kind = "Attach"
Live(s, r) == r.pc \in {"begun", "working", "polling"} /\ r.job.epoch = s.claim.epoch

\* What a job of that kind finds when it begins.
Fits(s, kind) ==
    /\ kind = "Attach" => s.coverage = NoCoverage /\ ~s.reader
    /\ kind # "Attach" => InHandOf(s)
    /\ kind = "Detach" => s.detach_scheduled /\ s.leases = 0 /\ s.pins = 0

\* What stands while a job of the entry's epoch is on its way.
Sent(s, job) ==
    /\ s.claim.leg = NoLeg
    /\ s.claim.gate # "open"
    /\ ~s.detach_in_flight
    /\ s.claim.slot = s.claim.epoch /\ s.claim.epoch # 0
    /\ s.claim.gate = "scheduled" => s.claim.marker = job
    /\ Fits(s, job.kind)

\* What a thread can be, whatever the entry is.
Shape(t, r) ==
    /\ r.pc = "idle" => r = Idle
    /\ ~(r.pc \in {"releasing", "returning", "sending"}) => r.after = "idle"
    /\ r.after \in {"idle", "ending", "losing", "departing", "handing"}
    /\ r.followup # NoJob <=> r.pc = "sending"
    /\ r.next # NoJob =>
           r.pc \in {"handing", "classifying", "losing", "releasing", "returning", "sending"}
    /\ r.held => r.pc \in {"working", "polling", "stale", "refusing", "ending", "closing",
                           "releasing", "returning", "reclaiming"}
    /\ r.pc = "handing" \/ r.after = "handing" => r.next # NoJob
    /\ r.after = "ending" => r.next = NoJob
    /\ r.pc \in {"working", "polling", "stale", "refusing"} => r.held
    /\ r.pc = "refusing" => r.job.kind = "Recover" /\ t \in Workers
    /\ r.job.kind = "Detach" => /\ r.pc \notin {"working", "polling", "stale"}
                                /\ ~(r.pc \in {"ending", "closing"} /\ r.held)
    /\ r.pc \in {"polling", "stale"} => r.job.kind = "Poll"
    /\ r.pc \in {"received", "begun", "working", "ending", "handing"} => t \in Workers
    /\ t \in Workers => /\ r.pc \notin {"polling", "stale", "departing"} /\ r.after # "departing"
                        /\ r.job \in Jobs \cup {NoJob}
                        /\ r.pc # "idle" => r.job \in Jobs
    /\ t = Dispatcher => /\ r.next = NoJob /\ r.after \in {"idle", "losing"}
                         /\ r.pc = "closing" => r.held
                         /\ r.job.kind \in {"none", "Poll"}
                         /\ r.pc \in {"closing", "unwound", "reclaiming", "reclaimed"}
                                => r.job.kind = "Poll"
                         /\ r.pc \in {"classifying", "losing"} \/ r.after = "losing" =>
                                r.job = NoJob
    /\ t = Registrar => /\ r.next = NoJob /\ r.after \in {"idle", "departing"} /\ r.job = NoJob
                        /\ r.pc \in {"idle", "classifying", "departing", "releasing",
                                     "returning", "sending"}

\* How a thread and the entry stand to one another.
HoldsStand(s, r) ==
    Holds(r) =>
        /\ Registers(s, r)
        /\ s.claim.gate = "held" \/ s.detach_in_flight
        /\ r.job.kind = "Attach" => s.coverage = NoCoverage /\ ~s.reader
        /\ r.job.kind # "Attach" => s.coverage = OnLeg(r.job.epoch)
        /\ r.pc \in {"working", "polling"} /\ r.job.kind # "Attach" => s.pinned_leg = LegFor(r)
        /\ r.pc = "refusing" => s.pinned_leg = NoLeg
        /\ r.pc \in {"stale", "ending", "closing"} /\ r.job.kind # "Attach" /\ ~s.detach_in_flight
               => r.job.epoch # s.claim.epoch
LiveStand(s, r) ==
    Live(s, r) =>
        /\ Registers(s, r)
        /\ s.claim.gate = "held"
        /\ ~s.detach_in_flight
        /\ r.pc = "begun" => Fits(s, r.job.kind)
NextStand(s, r) ==
    Standing(s, r.next) =>
        /\ Registers(s, r)
        /\ s.claim.gate # "open"
        /\ ~s.detach_in_flight
        /\ s.claim.epoch # 0
        /\ r.pc \in {"handing", "classifying", "losing"}
        /\ s.claim.gate = "scheduled" => s.claim.marker = r.next
        /\ Fits(s, r.next.kind)
CarryStand(s, r) ==
    /\ r.pc = "received" /\ r.job.epoch = s.claim.epoch => Sent(s, r.job)
    /\ Standing(s, r.followup) => Sent(s, r.followup) /\ s.claim.gate = "held"
CloseStand(s, r) ==
    Closes(r) =>
        /\ s.detach_in_flight
        /\ s.claim.leg = NoLeg \/ (Registers(s, r) /\ r.rel = r.job.epoch)
        /\ r.pc = "returning" => s.claim.leg = NoLeg
        /\ r.pc # "reclaiming" /\ r.held
           /\ ~(r.pc = "releasing" /\ r.job.kind = "Attach" /\ r.rel = r.job.epoch)
               => s.coverage = OnLeg(r.rel)
\* A leg that is over has let the gate go, where the entry is still at its epoch;
\* past a send and a reclaim it has ended.  One that has work to hand on leaves its
\* coverage in hand, and shuts the gate for that work alone.
Spent(s, r) ==
    /\ r.pc \in {"sending", "reclaimed"} => ~Registers(s, r)
    /\ \/ r.pc \in {"ending", "closing", "stale"}
       \/ r.pc \in {"classifying", "losing"} /\ r.next = NoJob
       => (Registers(s, r) /\ r.job.epoch = s.claim.epoch => s.claim.gate # "held")
    /\ r.next # NoJob /\ Registers(s, r) =>
           InHandOf(s) /\ (s.claim.gate = "held" => Standing(s, r.next))
Stand(s, r) ==
    /\ HoldsStand(s, r) /\ LiveStand(s, r) /\ NextStand(s, r) /\ CarryStand(s, r)
    /\ CloseStand(s, r) /\ Spent(s, r)

\* The thread that answers for coverage out of the entry's hands.
Custodian(s, r) ==
    \/ /\ Registers(s, r) /\ (Holds(r) \/ r.pc = "unwound")
       /\ r.job.kind \notin {"Attach", "Detach"}
       /\ s.coverage.leg = r.job.epoch
    \/ Closes(r) /\ s.coverage.leg = r.rel

\* What the entry says of itself, whoever works on it.
Settled(s) ==
    /\ s.claim.gate = "scheduled" =>
           /\ s.claim.marker \in Jobs /\ Standing(s, s.claim.marker) /\ s.claim.epoch # 0
           /\ ~s.detach_in_flight /\ Fits(s, s.claim.marker.kind)
    /\ s.detach_in_flight => s.claim.gate = "open" /\ ~InHandOf(s) /\ ~s.reader
    /\ s.coverage \in {NoCoverage, Parked} \/ OutWithLeg(s.coverage)
    /\ OutWithLeg(s.coverage) => s.claim.gate = "held" \/ s.detach_in_flight
    /\ s.reader => /\ AccountedFor(s.coverage)
                   /\ OutWithLeg(s.coverage) => s.coverage.leg = s.claim.epoch
    /\ s.pinned_leg # NoLeg => /\ s.claim.leg = s.pinned_leg
                               /\ s.coverage = OnLeg(s.pinned_leg.epoch)

PinsCounted(s, n) == s.pins = n + (IF s.pinned_leg = NoLeg THEN 0 ELSE 1)

\* The entry waits for this thread, if it waits for one.
Answers(s, r) ==
    /\ Running(s.claim) => Registers(s, r)
    /\ s.detach_in_flight => Running(s.claim) \/ Closes(r)
    /\ OutWithLeg(s.coverage) => Custodian(s, r)
    /\ s.pinned_leg # NoLeg => Registers(s, r) /\ r.pc \in {"working", "polling", "unwound"}

HeldFor(s, r) == s.claim.gate = "held" => Running(s.claim) \/ Carries(s, r)

Sole(t, s, r, n) ==
    /\ Shape(t, r) /\ Stand(s, r) /\ Settled(s) /\ PinsCounted(s, n) /\ Answers(s, r)
    /\ HeldFor(s, r)

\* Work the entry has issued and nobody has begun.
NewWork(s, r) == s.claim.gate = "scheduled" \/ Carries(s, r) \/ Standing(s, r.next)

----------------------------------------------------------------------------
(* The invariant                                                           *)

OneEngaged ==
    \A t, u \in Threads : Engaged(entry, thread[t]) /\ Engaged(entry, thread[u]) => t = u

InQueue == \E i \in DOMAIN queue : Standing(entry, queue[i])
InSends == \E job \in sends : Standing(entry, job)

\* A job nobody has begun is one nobody has run.
Unused ==
    \/ InQueue \/ InSends \/ \E t \in Threads : NewWork(entry, thread[t])
    => \A t \in Threads : LegsRun(thread[t]) => thread[t].job.epoch # entry.claim.epoch

\* What is sent of the entry's epoch is sent once, and a marker being sent still
\* stands as the marker.
ChannelSent ==
    /\ \A i \in DOMAIN queue : Standing(entry, queue[i]) =>
           Sent(entry, queue[i]) /\ \A j \in DOMAIN queue : Standing(entry, queue[j]) => j = i
    /\ \A job \in sends : Standing(entry, job) =>
           /\ Sent(entry, job) /\ entry.claim.gate = "scheduled"
           /\ \A other \in sends : Standing(entry, other) => other = job
ChannelStands ==
    /\ ChannelSent
    /\ ~(InQueue /\ InSends)
    /\ InQueue \/ InSends => \A t \in Threads : ~Engaged(entry, thread[t])

Answered ==
    /\ Running(entry.claim) => \E t \in Threads : Registers(entry, thread[t])
    /\ entry.detach_in_flight =>
           Running(entry.claim) \/ \E t \in Threads : Closes(thread[t])
    /\ OutWithLeg(entry.coverage) => \E t \in Threads : Custodian(entry, thread[t])
    /\ entry.pinned_leg # NoLeg =>
           \E t \in Threads : /\ Registers(entry, thread[t])
                              /\ thread[t].pc \in {"working", "polling", "unwound"}
    /\ entry.claim.gate = "held" =>
           \/ Running(entry.claim) \/ InQueue \/ InSends
           \/ \E t \in Threads : Carries(entry, thread[t])

ThreadsStand == \A t \in Threads : Shape(t, thread[t]) /\ Stand(entry, thread[t])

Custody ==
    /\ ThreadsStand /\ Settled(entry) /\ PinsCounted(entry, reads)
    /\ OneEngaged /\ Unused /\ ChannelStands /\ Answered

----------------------------------------------------------------------------
(* A step of the thread the entry waits for                                *)

LEMMA ThreadNums ==
    ASSUME Inv, NEW t \in Threads
    PROVE  /\ thread[t] \in ThreadStates
           /\ thread[t].job.epoch \in Nat /\ thread[t].job.epoch <= entry.claim.epoch
           /\ thread[t].next.epoch \in Nat /\ thread[t].next.epoch <= entry.claim.epoch
           /\ thread[t].followup.epoch \in Nat /\ thread[t].followup.epoch <= entry.claim.epoch
           /\ entry.claim.epoch \in Nat
BY Facts, ThreadFacts DEF ThreadSound

LEMMA LegForIsALeg ==
    ASSUME NEW r \in ThreadStates PROVE LegFor(r) # NoLeg /\ LegFor(r).epoch = r.job.epoch
BY DEF LegFor, PollLeg, JobLeg, NoLeg

LEMMA QuietIs ==
    ASSUME NEW s, NEW r, Stand(s, r), ~Engaged(s, r)
    PROVE  ~Holds(r) /\ ~Live(s, r) /\ ~Standing(s, r.next) /\ ~Carries(s, r) /\ ~Closes(r)
BY DEF Stand, HoldsStand, Spent, LiveStand, NextStand, Engaged

\* A thread nobody waits for stays one, while the claim goes on to no leg of its own.
LEMMA QuietStays ==
    ASSUME Inv, Inv', Custody, NEW u \in Threads, ~Engaged(entry, thread[u]),
           thread'[u] = thread[u], entry.claim.epoch' >= entry.claim.epoch,
           \/ entry.claim.leg' \in {entry.claim.leg, NoLeg}
           \/ LegsRun(thread[u]) => entry.claim.leg' # LegFor(thread[u])
    PROVE  /\ ~Engaged(entry', thread'[u]) /\ Stand(entry', thread'[u])
           /\ ~NewWork(entry', thread'[u]) \/ entry.claim.gate' = "scheduled"
<1> DEFINE r == thread[u]
<1>1. ~Holds(r) /\ ~Live(entry, r) /\ ~Standing(entry, r.next) /\ ~Carries(entry, r) /\ ~Closes(r)
    BY QuietIs DEF Custody, ThreadsStand
<1>2. /\ r \in ThreadStates
      /\ r.job.epoch \in Nat /\ r.job.epoch <= entry.claim.epoch
      /\ r.next.epoch \in Nat /\ r.next.epoch <= entry.claim.epoch
      /\ r.followup.epoch \in Nat /\ r.followup.epoch <= entry.claim.epoch
      /\ entry.claim.epoch \in Nat
    BY ThreadNums
<1>10. entry.claim.epoch' \in Nat
    BY SoundEpoch DEF Inv
<1>3. LegFor(r) # NoLeg
    BY <1>2, LegForIsALeg
<1>4. ~Registers(entry, r)
    BY DEF Engaged
<1> HIDE DEF r
<1>5. ~Registers(entry', r)
    BY <1>3, <1>4 DEF Registers, r
<1>6. ~Live(entry', r) /\ ~Standing(entry', r.next) /\ ~Carries(entry', r)
    BY <1>1, <1>2, <1>10 DEF Live, Standing, Carries
<1>7. ~Engaged(entry', r)
    BY <1>1, <1>5, <1>6 DEF Engaged
<1>8. /\ HoldsStand(entry', r) /\ LiveStand(entry', r) /\ NextStand(entry', r)
      /\ CloseStand(entry', r) /\ Spent(entry', r)
    BY <1>1, <1>5, <1>6 DEF HoldsStand, Spent, LiveStand, NextStand, CloseStand
<1>9. CarryStand(entry', r)
    BY <1>6 DEF CarryStand, Carries
<1> QED
    BY <1>6, <1>7, <1>8, <1>9 DEF Stand, NewWork, r

LEMMA SoleOf ==
    ASSUME Custody, NEW t \in Threads,
           \A u \in Threads \ {t} : ~Engaged(entry, thread[u])
    PROVE  /\ Shape(t, thread[t]) /\ Stand(entry, thread[t]) /\ Settled(entry)
           /\ PinsCounted(entry, reads) /\ Answers(entry, thread[t])
           /\ ~InQueue /\ ~InSends => Sole(t, entry, thread[t], reads)
<1>1. /\ Shape(t, thread[t]) /\ Stand(entry, thread[t]) /\ Settled(entry)
      /\ PinsCounted(entry, reads)
    BY DEF Custody, ThreadsStand
<1>2. ASSUME NEW u \in Threads, Registers(entry, thread[u]) \/ Closes(thread[u])
                \/ Carries(entry, thread[u]) \/ Custodian(entry, thread[u])
      PROVE  u = t
    BY <1>2 DEF Engaged, Custodian
<1>3. Answers(entry, thread[t])
    BY <1>2 DEF Custody, Answered, Answers
<1>4. ASSUME ~InQueue, ~InSends PROVE HeldFor(entry, thread[t])
    BY <1>2, <1>4 DEF Custody, Answered, HeldFor
<1> QED
    BY <1>1, <1>3, <1>4 DEF Sole

\* While a thread is waited for, no job of the entry's epoch is in the channel.
LEMMA EngagedAlone ==
    ASSUME Custody, NEW t \in Threads, Engaged(entry, thread[t])
    PROVE  /\ \A u \in Threads \ {t} : ~Engaged(entry, thread[u])
           /\ ~InQueue /\ ~InSends
           /\ Sole(t, entry, thread[t], reads)
<1>1. /\ \A u \in Threads \ {t} : ~Engaged(entry, thread[u])
      /\ ~InQueue /\ ~InSends
    BY DEF Custody, OneEngaged, ChannelStands, ChannelSent
<1> QED
    BY <1>1, SoleOf

\* Jobs of the channel that are of the past stay of the past.
LEMMA ChannelPast ==
    ASSUME Inv, Inv', entry.claim.epoch' >= entry.claim.epoch,
           \/ ~InQueue /\ ~InSends
           \/ entry.claim.epoch' > entry.claim.epoch
    PROVE  /\ \A i \in DOMAIN queue : ~Standing(entry', queue[i])
           /\ \A job \in sends : ~Standing(entry', job)
<1>1. entry.claim.epoch \in Nat /\ entry.claim.epoch' \in Nat
    BY SoundEpoch DEF Inv
<1>2. /\ \A i \in DOMAIN queue : queue[i].epoch \in Nat /\ queue[i].epoch <= entry.claim.epoch
      /\ \A job \in sends : job.epoch \in Nat /\ job.epoch <= entry.claim.epoch
    BY <1>1 DEF Inv, ChannelInv
<1> QED
    BY <1>1, <1>2 DEF Standing, InQueue, InSends

\* A thread that is not waited for once the step is taken.
Quiet(u) ==
    /\ Shape(u, thread'[u]) /\ Stand(entry', thread'[u]) /\ ~Engaged(entry', thread'[u])
    /\ LegsRun(thread'[u]) =>
           \/ thread'[u].job.epoch # entry.claim.epoch'
           \/ LegsRun(thread[u]) /\ thread'[u].job.epoch = thread[u].job.epoch

\* The claim moves on to no leg of u's.
LegSpares(u) ==
    \/ entry.claim.leg' \in {entry.claim.leg, NoLeg}
    \/ LegsRun(thread[u]) => entry.claim.leg' # LegFor(thread[u])

LEMMA QuietUnchanged ==
    ASSUME Inv, Inv', Custody, NEW u \in Threads, ~Engaged(entry, thread[u]),
           thread'[u] = thread[u], LegSpares(u), entry.claim.epoch' >= entry.claim.epoch
    PROVE  Quiet(u)
<1>1. Shape(u, thread[u])
    BY DEF Custody, ThreadsStand
<1>2. \/ entry.claim.leg' \in {entry.claim.leg, NoLeg}
      \/ LegsRun(thread[u]) => entry.claim.leg' # LegFor(thread[u])
    BY DEF LegSpares
<1>3. ~Engaged(entry', thread'[u]) /\ Stand(entry', thread'[u])
    BY <1>2, QuietStays
<1> QED
    BY <1>1, <1>3 DEF Quiet

\* Where every other thread is quiet, the one that is left answers for everything.
LEMMA SoleLeft ==
    ASSUME Inv, Inv', Custody, NEW t \in Threads,
           \A u \in Threads \ {t} : Quiet(u),
           entry.claim.epoch' >= entry.claim.epoch,
           ~InQueue', ~InSends',
           Sole(t, entry', thread'[t], reads'),
           NewWork(entry', thread'[t]) =>
               \/ entry.claim.epoch' > entry.claim.epoch
               \/ InQueue \/ InSends \/ \E v \in Threads : NewWork(entry, thread[v]),
           NewWork(entry', thread'[t]) /\ LegsRun(thread'[t]) =>
               thread'[t].job.epoch # entry.claim.epoch'
    PROVE  Custody'
<1> DEFINE r == thread'[t]
<1>1. ASSUME NEW u \in Threads \ {t}
      PROVE  /\ Shape(u, thread'[u]) /\ Stand(entry', thread'[u]) /\ ~Engaged(entry', thread'[u])
             /\ ~NewWork(entry', thread'[u]) \/ entry.claim.gate' = "scheduled"
             /\ LegsRun(thread'[u]) =>
                    \/ thread'[u].job.epoch # entry.claim.epoch'
                    \/ LegsRun(thread[u]) /\ thread'[u].job.epoch = thread[u].job.epoch
    <2>1. Quiet(u) /\ Stand(entry', thread'[u]) /\ ~Engaged(entry', thread'[u])
        BY DEF Quiet
    <2>2. ~Carries(entry', thread'[u]) /\ ~Standing(entry', thread'[u].next)
        BY <2>1 DEF Engaged, Stand, NextStand
    <2> QED
        BY <2>1, <2>2 DEF Quiet, NewWork
<1>2. /\ \A i \in DOMAIN queue' : ~Standing(entry', queue'[i])
      /\ \A job \in sends' : ~Standing(entry', job)
    BY DEF InQueue, InSends
<1>3. ~InQueue' /\ ~InSends'
    OBVIOUS
<1>4. ThreadsStand' /\ Settled(entry') /\ PinsCounted(entry', reads')
    BY <1>1 DEF Sole, ThreadsStand
<1>5. OneEngaged'
    BY <1>1 DEF OneEngaged
<1>6. ChannelStands'
    BY <1>2, <1>3 DEF ChannelStands, ChannelSent
<1>7. Answered'
    BY DEF Sole, Answers, HeldFor, Answered
<1>8. Unused'
    <2> SUFFICES ASSUME (\E u \in Threads : NewWork(entry', thread'[u])),
                        NEW v \in Threads, LegsRun(thread'[v])
                 PROVE  thread'[v].job.epoch # entry.claim.epoch'
        BY <1>3 DEF Unused
    <2>1. NewWork(entry', r)
        BY <1>1 DEF NewWork
    <2>2. CASE v = t
        BY <2>1, <2>2
    <2>3. CASE v # t
        <3>1. /\ thread[v].job.epoch \in Nat /\ thread[v].job.epoch <= entry.claim.epoch
              /\ entry.claim.epoch \in Nat /\ entry.claim.epoch' \in Nat
            BY ThreadNums, SoundEpoch DEF Inv
        <3>2. (InQueue \/ InSends \/ \E u \in Threads : NewWork(entry, thread[u]))
              /\ LegsRun(thread[v])
                  => thread[v].job.epoch # entry.claim.epoch
            BY <2>3 DEF Custody, Unused
        <3>3. \/ thread'[v].job.epoch # entry.claim.epoch'
              \/ LegsRun(thread[v]) /\ thread'[v].job.epoch = thread[v].job.epoch
            BY <1>1, <2>3
        <3>4. CASE entry.claim.epoch' > entry.claim.epoch
            BY <3>1, <3>3, <3>4
        <3>5. CASE ~(entry.claim.epoch' > entry.claim.epoch)
            <4>1. /\ entry.claim.epoch' = entry.claim.epoch
                  /\ InQueue \/ InSends \/ \E u \in Threads : NewWork(entry, thread[u])
                BY <2>1, <3>1, <3>5
            <4> QED
                BY <3>2, <3>3, <4>1
        <3> QED
            BY <3>4, <3>5
    <2> QED
        BY <2>2, <2>3
<1> QED
    BY <1>4, <1>5, <1>6, <1>7, <1>8 DEF Custody

LEMMA SoleStep ==
    ASSUME Inv, Inv', Custody, NEW t \in Threads,
           \A u \in Threads \ {t} : Quiet(u),
           entry.claim.epoch' >= entry.claim.epoch,
           UNCHANGED <<queue, sends>>,
           \/ ~InQueue /\ ~InSends
           \/ entry.claim.epoch' > entry.claim.epoch,
           Sole(t, entry', thread'[t], reads'),
           NewWork(entry', thread'[t]) =>
               \/ entry.claim.epoch' > entry.claim.epoch
               \/ \E v \in Threads : NewWork(entry, thread[v]),
           NewWork(entry', thread'[t]) /\ LegsRun(thread'[t]) =>
               thread'[t].job.epoch # entry.claim.epoch'
    PROVE  Custody'
<1>1. /\ \A i \in DOMAIN queue : ~Standing(entry', queue[i])
      /\ \A job \in sends : ~Standing(entry', job)
    BY ChannelPast
<1>2. ~InQueue' /\ ~InSends'
    BY <1>1 DEF InQueue, InSends
<1> QED
    BY <1>2, SoleLeft

Unmoved(t) == \A u \in Threads \ {t} : thread'[u] = thread[u]

\* A step of the thread the entry waits for, on no new leg.
LEMMA EngagedStep ==
    ASSUME Inv, Inv', Custody, NEW t \in Threads, Engaged(entry, thread[t]), Unmoved(t),
           entry.claim.epoch' >= entry.claim.epoch,
           entry.claim.leg' \in {entry.claim.leg, NoLeg},
           UNCHANGED <<queue, sends>>,
           Sole(t, entry', thread'[t], reads'),
           NewWork(entry', thread'[t]) =>
               \/ entry.claim.epoch' > entry.claim.epoch
               \/ NewWork(entry, thread[t]),
           NewWork(entry', thread'[t]) /\ LegsRun(thread'[t]) =>
               thread'[t].job.epoch # entry.claim.epoch'
    PROVE  Custody'
<1>1. ~InQueue /\ ~InSends /\ \A u \in Threads \ {t} : ~Engaged(entry, thread[u])
    BY EngagedAlone
<1>2. \A u \in Threads \ {t} : Quiet(u)
    BY <1>1, QuietUnchanged DEF Unmoved, LegSpares
<1> QED
    BY <1>1, <1>2, SoleStep

----------------------------------------------------------------------------
(* What the custody reads of an entry                                      *)

\* s and q differ in nothing that custody reads.
SameCustody(s, q) ==
    /\ q.claim = s.claim /\ q.coverage = s.coverage /\ q.reader = s.reader
    /\ q.detach_in_flight = s.detach_in_flight /\ q.detach_scheduled = s.detach_scheduled
    /\ q.leases = s.leases /\ q.pins = s.pins /\ q.pinned_leg = s.pinned_leg

LEMMA StandAlike ==
    ASSUME NEW s, NEW q, NEW r, SameCustody(s, q)
    PROVE  /\ (Stand(q, r) <=> Stand(s, r)) /\ (Engaged(q, r) <=> Engaged(s, r))
           /\ (Settled(q) <=> Settled(s)) /\ (Answers(q, r) <=> Answers(s, r))
           /\ (HeldFor(q, r) <=> HeldFor(s, r)) /\ (NewWork(q, r) <=> NewWork(s, r))
           /\ \A job : (Sent(q, job) <=> Sent(s, job)) /\ (Standing(q, job) <=> Standing(s, job))
           /\ \A n : (PinsCounted(q, n) <=> PinsCounted(s, n))
<1>1. /\ (Registers(q, r) <=> Registers(s, r)) /\ (Carries(q, r) <=> Carries(s, r))
      /\ \A job : (Standing(q, job) <=> Standing(s, job))
      /\ (Live(q, r) <=> Live(s, r))
      /\ \A kind : (Fits(q, kind) <=> Fits(s, kind))
    BY DEF SameCustody, Registers, Carries, Standing, Live, Fits, InHandOf
<1>2. \A job : (Sent(q, job) <=> Sent(s, job))
    BY <1>1 DEF SameCustody, Sent
<1>3. /\ (HoldsStand(q, r) <=> HoldsStand(s, r)) /\ (LiveStand(q, r) <=> LiveStand(s, r))
      /\ (CloseStand(q, r) <=> CloseStand(s, r)) /\ (Spent(q, r) <=> Spent(s, r))
    BY <1>1 DEF SameCustody, HoldsStand, Spent, LiveStand, CloseStand, InHandOf
<1>4. (NextStand(q, r) <=> NextStand(s, r)) /\ (CarryStand(q, r) <=> CarryStand(s, r))
    BY <1>1, <1>2 DEF SameCustody, NextStand, CarryStand
<1>5. (Stand(q, r) <=> Stand(s, r)) /\ (Engaged(q, r) <=> Engaged(s, r))
    BY <1>1, <1>3, <1>4 DEF Stand, Engaged
<1>6. (Settled(q) <=> Settled(s))
    BY <1>1 DEF SameCustody, Settled, InHandOf
<1>7. (Answers(q, r) <=> Answers(s, r)) /\ (HeldFor(q, r) <=> HeldFor(s, r))
    BY <1>1 DEF SameCustody, Answers, HeldFor, Custodian
<1> QED
    BY <1>1, <1>2, <1>5, <1>6, <1>7 DEF SameCustody, NewWork, PinsCounted

LEMMA SoleAlike ==
    ASSUME NEW s, NEW q, NEW r, NEW t, NEW n, SameCustody(s, q)
    PROVE  Sole(t, s, r, n) <=> Sole(t, q, r, n)
BY StandAlike DEF Sole

----------------------------------------------------------------------------
(* What a thread is after a step of its own                                *)

\* r goes on to q with what it carries, but for its place and its attachment.
SameWork(r, q) ==
    q.job = r.job /\ q.next = r.next /\ q.followup = r.followup /\ q.rel = r.rel

LEMMA GoesTo ==
    ASSUME Inv, NEW t \in Threads, NEW pc, pc # "idle", NEW held, Goes(t, pc, held)
    PROVE  /\ Unmoved(t) /\ SameWork(thread[t], thread'[t])
           /\ thread'[t].pc = pc /\ thread'[t].held = held /\ thread'[t].after = "idle"
<1>1. thread \in [Threads -> ThreadStates]
    BY DEF Inv, ThreadInv
<1>2. Unmoved(t) /\ thread'[t] = [thread[t] EXCEPT !.pc = pc, !.held = held, !.after = "idle"]
    BY <1>1 DEF Goes, Moved, Unmoved
<1>3. thread[t] \in ThreadStates
    BY <1>1
<1> QED
    BY <1>2, <1>3 DEF SameWork, ThreadStates

LEMMA RestsTo ==
    ASSUME Inv, NEW t \in Threads, Rests(t) \/ Goes(t, "idle", FALSE)
    PROVE  Unmoved(t) /\ thread'[t] = Idle
BY DEF Inv, ThreadInv, Rests, Unmoved, Goes, Moved

\* A leg that ends with next to hand on, or reads its root again first.
HandsOver(t, next) ==
    \/ HandsOn(t, next)
    \/ \E lost \in Nat : thread' = [thread EXCEPT ![t] =
           [@ EXCEPT !.pc = "classifying", !.held = FALSE, !.next = next, !.lost = lost]]

LEMMA HandingTo ==
    ASSUME Inv, NEW t \in Threads, NEW next, HandsOver(t, next)
    PROVE  /\ Unmoved(t)
           /\ thread'[t].pc \in {IF next = NoJob THEN "ending" ELSE "handing", "classifying"}
           /\ thread'[t].held = FALSE /\ thread'[t].next = next
           /\ thread'[t].job = thread[t].job /\ thread'[t].followup = thread[t].followup
           /\ thread'[t].rel = thread[t].rel /\ thread'[t].after = thread[t].after
<1>1. thread \in [Threads -> ThreadStates]
    BY DEF Inv, ThreadInv
<1>2. thread[t] \in ThreadStates
    BY <1>1
<1>3. CASE HandsOn(t, next)
    <2>1. /\ Unmoved(t)
          /\ thread'[t] = [thread[t] EXCEPT !.pc = IF next = NoJob THEN "ending" ELSE "handing",
                                            !.held = FALSE, !.next = next]
        BY <1>1, <1>3 DEF HandsOn, Unmoved
    <2> QED
        BY <1>2, <2>1 DEF ThreadStates
<1>4. CASE ~HandsOn(t, next)
    <2>1. PICK lost \in Nat : thread' = [thread EXCEPT ![t] =
              [@ EXCEPT !.pc = "classifying", !.held = FALSE, !.next = next, !.lost = lost]]
        BY <1>4 DEF HandsOver
    <2>2. /\ Unmoved(t)
          /\ thread'[t] = [thread[t] EXCEPT !.pc = "classifying", !.held = FALSE,
                                            !.next = next, !.lost = lost]
        BY <1>1, <2>1 DEF Unmoved
    <2> QED
        BY <1>2, <2>2 DEF ThreadStates
<1> QED
    BY <1>3, <1>4

LEMMA ReleasingTo ==
    ASSUME Inv, NEW t \in Threads, NEW held, NEW epoch, NEW after,
           GoesReleasing(t, held, epoch, after)
    PROVE  /\ Unmoved(t)
           /\ thread'[t].pc = "releasing" /\ thread'[t].held = held
           /\ thread'[t].rel = epoch /\ thread'[t].after = after
           /\ thread'[t].job = thread[t].job /\ thread'[t].next = thread[t].next
           /\ thread'[t].followup = thread[t].followup
<1>1. thread \in [Threads -> ThreadStates]
    BY DEF Inv, ThreadInv
<1>2. /\ Unmoved(t)
      /\ thread'[t] = [thread[t] EXCEPT !.pc = "releasing", !.held = held, !.rel = epoch,
                                        !.after = after]
    BY <1>1 DEF GoesReleasing, Unmoved
<1>3. thread[t] \in ThreadStates
    BY <1>1
<1> QED
    BY <1>2, <1>3 DEF ThreadStates

LEMMA ResumesTo ==
    ASSUME Inv, NEW t \in Threads, Resumes(t)
    PROVE  /\ Unmoved(t)
           /\ thread[t].after = "idle" => thread'[t] = Idle
           /\ thread[t].after # "idle" =>
                  /\ thread'[t].pc = thread[t].after /\ thread'[t].held = FALSE
                  /\ thread'[t].after = "idle" /\ thread'[t].job = thread[t].job
                  /\ thread'[t].next = thread[t].next /\ thread'[t].followup = NoJob
                  /\ thread'[t].rel = 0
<1> DEFINE q == [thread[t] EXCEPT !.followup = NoJob, !.rel = 0]
<1>1. thread \in [Threads -> ThreadStates]
    BY DEF Inv, ThreadInv
<1>2. Unmoved(t) /\ thread'[t] = Moved(q, thread[t].after, FALSE)
    BY <1>1 DEF Resumes, Unmoved
<1>3. q \in ThreadStates /\ q.job = thread[t].job /\ q.next = thread[t].next
      /\ q.followup = NoJob /\ q.rel = 0
    BY <1>1 DEF ThreadStates
<1> HIDE DEF q
<1>4. CASE thread[t].after = "idle"
    BY <1>2, <1>4 DEF Moved
<1>5. CASE thread[t].after # "idle"
    <2>1. thread'[t] = [q EXCEPT !.pc = thread[t].after, !.held = FALSE, !.after = "idle"]
        BY <1>2, <1>5 DEF Moved
    <2> QED
        BY <1>2, <1>3, <1>5, <2>1 DEF ThreadStates
<1> QED
    BY <1>4, <1>5

LEMMA IdleIs ==
    /\ Idle.pc = "idle" /\ Idle.job = NoJob /\ ~Idle.held /\ Idle.next = NoJob
    /\ Idle.followup = NoJob /\ Idle.rel = 0 /\ Idle.after = "idle"
    /\ ~LegsRun(Idle) /\ ~Closes(Idle) /\ ~Holds(Idle)
    /\ \A s : ~Engaged(s, Idle) /\ Stand(s, Idle) /\ (NewWork(s, Idle) => s.claim.gate = "scheduled")
    /\ \A t \in Threads : Shape(t, Idle)
<1>1. /\ Idle.pc = "idle" /\ Idle.job = NoJob /\ ~Idle.held /\ Idle.next = NoJob
      /\ Idle.followup = NoJob /\ Idle.rel = 0 /\ Idle.after = "idle"
    BY DEF Idle
<1>2. ~LegsRun(Idle) /\ ~Closes(Idle) /\ ~Holds(Idle)
    BY <1>1 DEF LegsRun, Closes, Holds
<1>3. \A s : ~Standing(s, Idle.next) /\ ~Carries(s, Idle) /\ ~Live(s, Idle) /\ ~Registers(s, Idle)
    BY <1>1, <1>2 DEF Standing, Carries, Live, Registers
<1>4. \A s : /\ HoldsStand(s, Idle) /\ LiveStand(s, Idle) /\ NextStand(s, Idle)
             /\ CloseStand(s, Idle) /\ Spent(s, Idle)
    BY <1>1, <1>2, <1>3 DEF HoldsStand, Spent, LiveStand, NextStand, CloseStand
<1>5. \A s : CarryStand(s, Idle)
    BY <1>1, <1>3 DEF CarryStand, Carries
<1>6. \A t \in Threads : Shape(t, Idle)
    BY <1>1 DEF Shape, NoJob
<1> QED
    BY <1>1, <1>2, <1>3, <1>4, <1>5, <1>6 DEF Engaged, Stand, NewWork

----------------------------------------------------------------------------
(* What the moves of a claim leave in it                                   *)

\* The claim moves from c to a claim of those values.
ClaimIs(c, epoch, gate, marker, leg, slot) ==
    /\ c.epoch = epoch /\ c.gate = gate /\ c.marker = marker /\ c.leg = leg /\ c.slot = slot

LEMMA ScheduleFields ==
    ASSUME NEW c \in Claims, NEW kind \in JobKinds
    PROVE  LET job == [kind |-> kind, epoch |-> c.epoch + 1]
           IN  ClaimIs(Schedule(c, kind), c.epoch + 1, "scheduled", job, c.leg, c.slot)
BY DEF ClaimIs, Schedule, SetMarker, Supersede, Claims

LEMMA HandOnFields ==
    ASSUME NEW c \in Claims, NEW kind \in JobKinds, c.gate # "scheduled"
    PROVE  ClaimIs(HandOn(c, kind), c.epoch + 1, "held", NoJob, c.leg, c.slot)
BY DEF ClaimIs, HandOn, Hold, SetGate, Supersede, Claims

LEMMA GateFields ==
    ASSUME NEW c \in Claims
    PROVE  /\ ClaimIs(OpenGate(c), c.epoch, "open", NoJob, c.leg, c.slot)
           /\ c.gate # "scheduled" =>
                  ClaimIs(Release(c), c.epoch, "open", NoJob, c.leg, c.slot)
           /\ c.gate # "scheduled" => DropMarker(c) = c
           /\ ClaimIs(Supersede(c), c.epoch + 1, c.gate, c.marker, c.leg, c.slot)
           /\ ClaimIs(EndRunningLeg(c), c.epoch, c.gate, c.marker, NoLeg, c.slot)
BY DEF ClaimIs, OpenGate, Release, SetGate, DropMarker, Supersede, EndRunningLeg, Claims

LEMMA InvalidateFields ==
    ASSUME NEW c \in Claims
    PROVE  /\ Invalidate(c).epoch = c.epoch + 1 /\ Invalidate(c).leg = c.leg
           /\ Invalidate(c).slot = 0 /\ Invalidate(c) \in Claims
           /\ Invalidate(c).gate # "scheduled"
           /\ Invalidate(c).gate = "held" <=> c.gate = "held" \/ (c.gate = "scheduled" /\ Running(c))
<1> DEFINE d == [[c EXCEPT !.epoch = @ + 1] EXCEPT !.slot = 0]
<1>1. d \in Claims /\ d.epoch = c.epoch + 1 /\ d.slot = 0 /\ d.leg = c.leg /\ d.gate = c.gate
    <2>1. c.epoch + 1 \in Nat
        BY DEF Claims
    <2>2. d \in Claims
        BY <2>1 DEF Claims
    <2>3. d.epoch = c.epoch + 1 /\ d.slot = 0 /\ d.leg = c.leg /\ d.gate = c.gate
        BY DEF Claims
    <2> QED
        BY <2>2, <2>3
<1>2. Invalidate(c) = DropMarker(d)
    BY DEF Invalidate, AbandonSlot, Supersede
<1> HIDE DEF d
<1>3. d.gate \in {"open", "held", "scheduled"}
    BY <1>1 DEF Claims
<1>4. CASE d.gate = "scheduled"
    <2> DEFINE g == IF Running(d) THEN "held" ELSE "open"
               e == [[d EXCEPT !.gate = g] EXCEPT !.marker = NoJob]
    <2>1. DropMarker(d) = e /\ g \in {"open", "held"}
        BY <1>4 DEF DropMarker, SetGate
    <2> HIDE DEF g
    <2>2. e \in Claims /\ e.epoch = d.epoch /\ e.leg = d.leg /\ e.slot = d.slot /\ e.gate = g
        BY <1>1, <2>1 DEF Claims
    <2> QED
        BY <1>1, <1>2, <1>4, <2>1, <2>2 DEF g, Running
<1>5. CASE d.gate # "scheduled"
    BY <1>1, <1>2, <1>3, <1>5 DEF DropMarker
<1> QED
    BY <1>4, <1>5

----------------------------------------------------------------------------
(* Scheduling                                                              *)

\* What r keeps of an epoch is an epoch the entry has reached.
Reached(s, r) ==
    /\ s.claim.epoch \in Nat
    /\ r.job.epoch \in Nat /\ r.job.epoch <= s.claim.epoch
    /\ r.next.epoch \in Nat /\ r.next.epoch <= s.claim.epoch
    /\ r.followup.epoch \in Nat /\ r.followup.epoch <= s.claim.epoch

\* q is s with a job scheduled over an open gate: one that will find what it
\* needs.
Schedules(s, q) ==
    /\ s.claim.gate = "open" /\ ~s.detach_in_flight
    /\ \E kind \in JobKinds :
           /\ q.claim = Schedule(s.claim, kind)
           /\ kind = "Attach" <=> ~InHandOf(s)
           /\ kind = "Detach" => q.detach_scheduled /\ s.leases = 0 /\ s.pins = 0
    /\ q.coverage = s.coverage /\ q.reader = s.reader /\ q.detach_in_flight = s.detach_in_flight
    /\ q.leases = s.leases /\ q.pins = s.pins /\ q.pinned_leg = s.pinned_leg
MaySchedule(s, q) == SameCustody(s, q) \/ Schedules(s, q)

LEMMA ScheduledSole ==
    ASSUME NEW t, NEW s \in Entries, NEW q, NEW r, NEW n,
           Sole(t, s, r, n), Reached(s, r), MaySchedule(s, q)
    PROVE  /\ Sole(t, q, r, n)
           /\ NewWork(q, r) => q.claim.epoch > s.claim.epoch \/ NewWork(s, r)
           /\ q.claim.epoch >= s.claim.epoch /\ q.claim.leg = s.claim.leg
           /\ NewWork(q, r) /\ LegsRun(r) /\ ~(NewWork(s, r) /\ r.job.epoch = s.claim.epoch)
                  => r.job.epoch # q.claim.epoch
<1>1. CASE SameCustody(s, q)
    <2>1. Sole(t, q, r, n) /\ (NewWork(q, r) <=> NewWork(s, r))
        BY <1>1, SoleAlike, StandAlike
    <2> QED
        BY <1>1, <2>1 DEF SameCustody, Reached
<1>2. CASE Schedules(s, q)
    <2>1. PICK kind \in JobKinds :
              /\ q.claim = Schedule(s.claim, kind)
              /\ kind = "Attach" <=> ~InHandOf(s)
              /\ kind = "Detach" => q.detach_scheduled /\ s.leases = 0 /\ s.pins = 0
        BY <1>2 DEF Schedules
    <2> DEFINE job == [kind |-> kind, epoch |-> s.claim.epoch + 1]
    <2>2. /\ ClaimIs(q.claim, s.claim.epoch + 1, "scheduled", job, s.claim.leg, s.claim.slot)
          /\ job \in Jobs /\ job.kind = kind /\ job.epoch = s.claim.epoch + 1 /\ job # NoJob
        <3>1. s.claim \in Claims /\ s.claim.epoch \in Nat
            BY DEF Entries, Reached
        <3>2. job \in Jobs /\ job.epoch # 0
            BY <3>1 DEF Jobs
        <3> QED
            BY <2>1, <3>1, <3>2, ScheduleFields DEF NoJob
    <2> HIDE DEF job
    <2>3. /\ s.claim.gate = "open" /\ ~s.detach_in_flight /\ ~q.detach_in_flight
          /\ q.coverage = s.coverage /\ q.reader = s.reader
          /\ q.leases = s.leases /\ q.pins = s.pins /\ q.pinned_leg = s.pinned_leg
        BY <1>2 DEF Schedules
    <2>4. /\ Settled(s) /\ ~OutWithLeg(s.coverage) /\ s.pinned_leg = NoLeg
          /\ ~InHandOf(s) => s.coverage = NoCoverage /\ ~s.reader
        <3>1. Settled(s) /\ ~OutWithLeg(s.coverage)
            BY <2>3 DEF Sole, Settled
        <3>2. ~InHandOf(s) => s.coverage = NoCoverage
            BY <3>1 DEF Settled, InHandOf, InHand, Parked
        <3>3. s.coverage = NoCoverage => ~s.reader
            BY <3>1 DEF Settled, AccountedFor, NoCoverage
        <3>4. s.pinned_leg = NoLeg
            BY <3>1 DEF Settled, OutWithLeg, OnLeg
        <3> QED
            BY <3>1, <3>2, <3>3, <3>4
    <2>5. Fits(q, kind)
        BY <2>1, <2>3, <2>4 DEF Fits, InHandOf
    <2>6. Settled(q)
        BY <2>2, <2>3, <2>4, <2>5 DEF Settled, ClaimIs, Standing, InHandOf, Reached
    <2>7. ~Holds(r) /\ ~Live(s, r) /\ ~Carries(s, r) /\ ~Closes(r)
        BY <2>3 DEF Sole, Stand, HoldsStand, Spent, LiveStand, CarryStand, CloseStand, Carries, Sent
    <2>8. ~Live(q, r) /\ ~Standing(q, r.next) /\ ~Carries(q, r)
        BY <2>2 DEF ClaimIs, Reached, Live, Standing, Carries
    <2>10. Registers(q, r) <=> Registers(s, r)
        BY <2>2 DEF Registers, ClaimIs
    <2>9. Stand(q, r)
        BY <2>2, <2>3, <2>7, <2>8, <2>10 DEF ClaimIs, Sole, Stand, HoldsStand, Spent, LiveStand, NextStand, CarryStand, CloseStand, Carries, InHandOf
    <2>11. Answers(q, r) /\ HeldFor(q, r)
        BY <2>2, <2>3, <2>4, <2>10 DEF Sole, Answers, ClaimIs, Running, HeldFor
    <2>12. Sole(t, q, r, n)
        BY <2>3, <2>6, <2>9, <2>11 DEF Sole, PinsCounted
    <2> QED
        BY <2>2, <2>12 DEF ClaimIs, Reached
<1> QED
    BY <1>1, <1>2 DEF MaySchedule

\* What each of the ways to schedule makes of an entry whose coverage is in its
\* hands only while nothing is being released.
LEMMA JobMaySchedule ==
    ASSUME NEW s \in Entries, NEW kind \in JobKinds, kind \notin {"Attach", "Detach"},
           s.claim.gate = "open", ~s.detach_in_flight, InHandOf(s)
    PROVE  Schedules(s, ScheduleJob(s, kind))
<1> DEFINE q == ScheduleJob(s, kind)
<1>1. /\ q.claim = Schedule(s.claim, kind)
      /\ q.coverage = s.coverage /\ q.reader = s.reader
      /\ q.detach_in_flight = s.detach_in_flight
      /\ q.leases = s.leases /\ q.pins = s.pins /\ q.pinned_leg = s.pinned_leg
    BY DEF ScheduleJob, Entries
<1> HIDE DEF q
<1> QED
    BY <1>1 DEF Schedules, q

LEMMA DemandSchedules ==
    ASSUME NEW s \in Entries, s.claim.gate = "open", ~s.detach_in_flight
    PROVE  Schedules(s, ScheduleDemand(s))
<1> DEFINE work == OwedBy(s)
           published == IF work \in {"Attach", "Recover"} THEN SetTrust(s, "Installing")
                        ELSE IF work = "Reconcile" THEN PublishPendingReconcile(s)
                        ELSE s
           q == ScheduleJob(published, work)
<1>1. /\ work \in JobKinds /\ work # "Detach"
      /\ work = "Attach" <=> ~InHandOf(s)
    BY DEF OwedBy, JobKinds
<1>2. SameCustody(s, published) /\ published \in Entries
    <2>1. ASSUME NEW trust \in Trusts
          PROVE  SameCustody(s, SetTrust(s, trust)) /\ SetTrust(s, trust) \in Entries
        BY DEF SameCustody, SetTrust, Entries
    <2>2. SameCustody(s, s)
        BY DEF SameCustody
    <2>3. {"Installing", "Overflow", "Healing"} \subseteq Trusts
        BY DEF Trusts, Warm, Distrust
    <2> QED
        BY <2>1, <2>2, <2>3 DEF PublishPendingReconcile
<1>3. ScheduleDemand(s) = q
    BY DEF ScheduleDemand
<1> HIDE DEF work, published
<1>4. /\ q.claim = Schedule(published.claim, work)
      /\ q.coverage = published.coverage /\ q.reader = published.reader
      /\ q.detach_in_flight = published.detach_in_flight
      /\ q.leases = published.leases /\ q.pins = published.pins
      /\ q.pinned_leg = published.pinned_leg
    BY <1>2 DEF ScheduleJob, Entries
<1> HIDE DEF q
<1> QED
    BY <1>1, <1>2, <1>3, <1>4 DEF Schedules, SameCustody

LEMMA DataAlike ==
    ASSUME NEW s \in Entries
    PROVE  /\ SameCustody(s, TakeDamage(s)) /\ TakeDamage(s) \in Entries
           /\ SameCustody(s, s)
           /\ SameCustody(s, [s EXCEPT !.damage = TRUE])
           /\ SameCustody(s, [s EXCEPT !.detach_due = TRUE])
           /\ [s EXCEPT !.damage = TRUE] \in Entries /\ [s EXCEPT !.detach_due = TRUE] \in Entries
<1>1. SameCustody(s, TakeDamage(s))
    BY DEF SameCustody, TakeDamage, WithdrawTrustForDamage, SetTrust, RequireRebuild,
           RetireRecoveryDemands, Entries
<1>2. TakeDamage(s) \in Entries
    BY RungsAlike DEF Alike
<1>3. /\ SameCustody(s, s)
      /\ SameCustody(s, [s EXCEPT !.damage = TRUE])
      /\ SameCustody(s, [s EXCEPT !.detach_due = TRUE])
    BY DEF SameCustody, Entries
<1> QED
    BY <1>1, <1>2, <1>3, FlagsMoved DEF Alike

LEMMA AlikeSchedules ==
    ASSUME NEW s, NEW p, NEW q, SameCustody(s, p)
    PROVE  /\ Schedules(p, q) => Schedules(s, q)
           /\ SameCustody(p, q) => SameCustody(s, q)
BY DEF SameCustody, Schedules, InHandOf

LEMMA DueSchedules ==
    ASSUME NEW s \in Entries, CanScheduleDueDetach(s), ~s.detach_in_flight
    PROVE  Schedules(s, ScheduleDueDetach(s))
<1> DEFINE q == ScheduleJob([s EXCEPT !.detach_scheduled = TRUE], "Detach")
<1>1. /\ q.claim = Schedule(s.claim, "Detach") /\ q.detach_scheduled
      /\ q.coverage = s.coverage /\ q.reader = s.reader
      /\ q.detach_in_flight = s.detach_in_flight
      /\ q.leases = s.leases /\ q.pins = s.pins /\ q.pinned_leg = s.pinned_leg
    BY DEF ScheduleJob, Entries
<1>2. s.claim.gate = "open" /\ InHandOf(s) /\ s.leases = 0 /\ s.pins = 0
    BY DEF CanScheduleDueDetach, IsHeld, Pinned, Entries
<1>3. "Detach" \in JobKinds
    BY DEF JobKinds
<1>4. ScheduleDueDetach(s) = q
    BY DEF ScheduleDueDetach
<1> HIDE DEF q
<1> QED
    BY <1>1, <1>2, <1>3, <1>4 DEF Schedules

LEMMA WaysToSchedule ==
    ASSUME NEW s \in Entries, s.detach_in_flight => ~InHandOf(s)
    PROVE  /\ MaySchedule(s, ScheduleDemandedWork(s))
           /\ MaySchedule(s, ScheduleDueDetach(s))
           /\ MaySchedule(s, PublishDamage(s))
           /\ MaySchedule(s, PublishDamageOrDemandedWork(s))
           /\ MaySchedule(s, PollSchedules(s, FALSE))
           /\ s.claim.gate = "open" /\ InHandOf(s) => MaySchedule(s, PollSchedules(s, TRUE))
<1>1. SameCustody(s, s) /\ SameCustody(s, TakeDamage(s)) /\ TakeDamage(s) \in Entries
    BY DataAlike
<1>2. MaySchedule(s, ScheduleDemandedWork(s))
    BY <1>1, DemandSchedules
       DEF ScheduleDemandedWork, CanScheduleDemandedWork, Schedulable, IsHeld, MaySchedule
<1>3. MaySchedule(s, ScheduleDueDetach(s))
    <2>1. CASE CanScheduleDueDetach(s)
        BY <2>1, DueSchedules DEF CanScheduleDueDetach, MaySchedule
    <2>2. CASE ~CanScheduleDueDetach(s)
        BY <1>1, <2>2 DEF ScheduleDueDetach, MaySchedule
    <2> QED
        BY <2>1, <2>2
<1>4. MaySchedule(s, PublishDamage(s))
    <2>1. CASE CanPublishDamage(s)
        <3> DEFINE d == TakeDamage(s)
        <3>1. PublishDamage(s) = ScheduleDemand(d)
            BY <2>1 DEF PublishDamage
        <3>2. s.claim.gate = "open" /\ ~s.detach_in_flight
            BY <2>1 DEF CanPublishDamage, IsHeld
        <3> HIDE DEF d
        <3>3. Schedules(d, ScheduleDemand(d))
            BY <1>1, <3>2, DemandSchedules DEF SameCustody, d
        <3> QED
            BY <1>1, <3>1, <3>3, AlikeSchedules DEF MaySchedule, d
    <2>2. CASE ~CanPublishDamage(s)
        BY <1>1, <2>2 DEF PublishDamage, MaySchedule
    <2> QED
        BY <2>1, <2>2
<1>5. MaySchedule(s, PublishDamageOrDemandedWork(s))
    BY <1>2, <1>4 DEF PublishDamageOrDemandedWork
<1>6. MaySchedule(s, PollSchedules(s, FALSE))
    <2>1. CanScheduleDemandedWork(s) => MaySchedule(s, ScheduleDemand(s))
        BY <1>2 DEF ScheduleDemandedWork
    <2> QED
        BY <1>3, <1>4, <2>1 DEF PollSchedules
<1>7. ASSUME s.claim.gate = "open", InHandOf(s) PROVE MaySchedule(s, PollSchedules(s, TRUE))
    BY <1>7, JobMaySchedule DEF PollSchedules, JobKinds, MaySchedule
<1> QED
    BY <1>2, <1>3, <1>4, <1>5, <1>6, <1>7

\* A step that puts the entry, and the thread it waits for, into a state that is
\* settled, and then may schedule.
LEMMA SoleThenSchedules ==
    ASSUME Inv, Inv', Custody, NEW t \in Threads, NEW s, Keeps(entry, s),
           \A u \in Threads \ {t} : Quiet(u),
           UNCHANGED <<queue, sends>>, ~InQueue /\ ~InSends,
           Sole(t, s, thread'[t], reads'),
           s.claim.leg \in {entry.claim.leg, NoLeg},
           NewWork(s, thread'[t]) =>
               /\ \E v \in Threads : NewWork(entry, thread[v])
               /\ LegsRun(thread'[t]) => thread'[t].job.epoch # entry.claim.epoch,
           thread'[t].job.epoch \in 0..entry.claim.epoch,
           thread'[t].next.epoch \in 0..entry.claim.epoch,
           thread'[t].followup.epoch \in 0..entry.claim.epoch,
           MaySchedule(s, entry')
    PROVE  Custody'
<1>1. s \in Entries /\ s.claim.epoch = entry.claim.epoch /\ entry.claim.epoch \in Nat
    BY SoundEpoch DEF Keeps, Sound, Inv
<1>2. Reached(s, thread'[t])
    BY <1>1 DEF Reached
<1> DEFINE r == thread'[t]
<1>3. /\ Sole(t, entry', r, reads')
      /\ NewWork(entry', r) => entry'.claim.epoch > s.claim.epoch \/ NewWork(s, r)
      /\ entry'.claim.epoch >= s.claim.epoch
      /\ NewWork(entry', r) /\ LegsRun(r) /\ ~(NewWork(s, r) /\ r.job.epoch = s.claim.epoch)
                  => r.job.epoch # entry'.claim.epoch
    BY <1>1, <1>2, ScheduledSole
<1> QED
    BY <1>1, <1>3, SoleStep

----------------------------------------------------------------------------
(* A leg at its work                                                       *)

LEMMA WorkerIs ==
    ASSUME Inv, Custody, NEW w \in Workers, thread[w].pc # "idle"
    PROVE  /\ w \in Threads /\ thread[w].job \in Jobs /\ KindOf(w) \in JobKinds
           /\ LegOf(w) = JobLeg(EpochOf(w)) /\ LegFor(thread[w]) = LegOf(w)
           /\ KindOf(w) = thread[w].job.kind /\ EpochOf(w) = thread[w].job.epoch
           /\ w # Dispatcher /\ w # Registrar
           /\ thread[w] \in ThreadStates /\ Shape(w, thread[w]) /\ Stand(entry, thread[w])
<1>1. w \in Threads /\ w # Dispatcher /\ w # Registrar
    BY ThreadsAssumption DEF Threads
<1>2. Shape(w, thread[w]) /\ Stand(entry, thread[w])
    BY <1>1 DEF Custody, ThreadsStand
<1>3. thread[w].job \in Jobs
    BY <1>2 DEF Shape
<1>4. KindOf(w) \in JobKinds /\ KindOf(w) # "Poll"
    BY <1>3 DEF KindOf, Jobs, JobKinds
<1>5. LegOf(w) = JobLeg(EpochOf(w)) /\ LegFor(thread[w]) = LegOf(w)
    BY <1>4 DEF LegOf, LegFor, KindOf, EpochOf
<1> QED
    BY <1>1, <1>2, <1>3, <1>4, <1>5, ThreadNums DEF KindOf, EpochOf

\* A worker that works on the coverage, or builds it: the entry waits for it.
LEMMA WorkingIs ==
    ASSUME Inv, Custody, NEW w \in Workers, At(w, "working")
    PROVE  /\ w \in Threads /\ LegsRun(thread[w]) /\ ~Closes(thread[w])
           /\ Engaged(entry, thread[w]) /\ entry.claim.leg = LegOf(w)
           /\ Sole(w, entry, thread[w], reads)
           /\ entry.claim.gate = "held" \/ entry.detach_in_flight
           /\ Stands(w) => entry.claim.gate = "held" /\ ~entry.detach_in_flight
           /\ thread[w].next = NoJob /\ thread[w].followup = NoJob /\ thread[w].after = "idle"
           /\ KindOf(w) = "Attach" =>
                  entry.coverage = NoCoverage /\ ~entry.reader /\ entry.pinned_leg = NoLeg
                  /\ entry.pins = reads
           /\ KindOf(w) # "Attach" =>
                  /\ entry.coverage = OnLeg(EpochOf(w)) /\ entry.pinned_leg = LegOf(w)
                  /\ entry.pins = reads + 1 /\ ~InHandOf(entry)
<1> DEFINE r == thread[w]
<1>1. /\ w \in Threads /\ Shape(w, r) /\ Stand(entry, r) /\ r.pc = "working"
      /\ LegFor(r) = LegOf(w) /\ KindOf(w) = r.job.kind /\ EpochOf(w) = r.job.epoch
      /\ LegOf(w) = JobLeg(EpochOf(w))
    BY WorkerIs DEF At
<1> HIDE DEF r
<1>2. Holds(r) /\ LegsRun(r) /\ ~Closes(r)
    BY <1>1 DEF Holds, LegsRun, Closes
<1>3. /\ Registers(entry, r)
      /\ entry.claim.gate = "held" \/ entry.detach_in_flight
      /\ r.job.kind = "Attach" => entry.coverage = NoCoverage /\ ~entry.reader
      /\ r.job.kind # "Attach" => entry.coverage = OnLeg(r.job.epoch)
      /\ r.job.kind # "Attach" => entry.pinned_leg = LegFor(r)
    BY <1>1, <1>2 DEF Stand, HoldsStand, Spent
<1>4. Engaged(entry, r) /\ Sole(w, entry, r, reads)
    BY <1>1, <1>3, EngagedAlone DEF Engaged, r
<1>5. Stands(w) => entry.claim.gate = "held" /\ ~entry.detach_in_flight
    BY <1>1 DEF Stand, LiveStand, Live, Stands, StandsAtEpoch, StandsAt
<1>6. r.next = NoJob /\ r.followup = NoJob /\ r.after = "idle"
    BY <1>1 DEF Shape
<1>7. LegFor(r) # NoLeg
    BY <1>1 DEF JobLeg, NoLeg
<1>8. PinsCounted(entry, reads) /\ Settled(entry) /\ entry.pins \in Nat /\ reads \in Nat
    BY EntryTyped DEF Custody, Inv, Sound, RestInv
<1>9. r.job.kind = "Attach" => entry.pinned_leg = NoLeg
    BY <1>3, <1>8 DEF Settled, NoCoverage, OnLeg
<1>10. r.job.kind # "Attach" => entry.pins = reads + 1 /\ ~InHandOf(entry)
    BY <1>3, <1>7, <1>8 DEF PinsCounted, InHandOf, InHand, OnLeg
<1>11. r.job.kind = "Attach" => entry.pins = reads
    BY <1>8, <1>9 DEF PinsCounted
<1> QED
    BY <1>1, <1>2, <1>3, <1>4, <1>5, <1>6, <1>9, <1>10, <1>11 DEF r, Registers

\* The leg of w has put back what it took: the entry stands where it stood, at
\* the epoch of the leg, over s.
Parted(w, s) ==
    /\ Keeps(entry, s)
    /\ s.claim.leg = LegOf(w) /\ s.claim.gate \in {"open", "held"}
    /\ s.coverage \in {NoCoverage, Parked} /\ (s.reader => s.coverage = Parked)
    /\ ~s.detach_in_flight /\ s.pinned_leg = NoLeg /\ s.pins = reads

\* and hands its work on.
Hands(w, s) ==
    \/ HandsOnDamage(w, s) /\ InHandOf(s)
    \/ /\ \E kind \in {"Rebuild", "Reconcile", "Maintenance"} : HandsOnTo(w, s, kind)
       /\ InHandOf(s)
    \/ /\ entry' = ScheduleDueDetach(s) /\ HandsOver(w, DueDetach(s))
       /\ s.claim.gate = "open"
    \/ /\ entry' = ScheduleJob(s, "Maintenance") /\ HandsOn(w, HandedOn(s.claim, "Maintenance"))
       /\ InHandOf(s) /\ s.claim.gate = "open"
    \/ entry' = s /\ HandsOn(w, NoJob) /\ s.claim.gate = "open"

\* A leg that hands on a job of the epoch the claim moves on to.
LEMMA HandsSole ==
    ASSUME NEW t \in Workers, NEW s, NEW e, NEW r, NEW q, NEW n \in Nat, NEW job \in Jobs,
           Shape(t, r), LegsRun(r), r.pc = "working", r.job \in Jobs,
           s.claim.leg = LegFor(r), s.claim.epoch \in Nat, r.job.epoch = s.claim.epoch,
           s.coverage \in {NoCoverage, Parked}, s.reader => s.coverage = Parked,
           ~s.detach_in_flight, s.pinned_leg = NoLeg, s.pins = n,
           q.pc \in {"handing", "classifying"}, q.held = FALSE, q.next = job, q.job = r.job,
           q.followup = NoJob, q.after = "idle", job.kind # "Attach",
           job.epoch = s.claim.epoch + 1, e.claim.epoch = job.epoch,
           e.claim.leg = s.claim.leg,
           \/ e.claim.gate = "held"
           \/ e.claim.gate = "scheduled" /\ e.claim.marker = job,
           Fits(e, job.kind),
           e.coverage = s.coverage, e.reader = s.reader, ~e.detach_in_flight,
           e.pins = s.pins, e.pinned_leg = NoLeg
    PROVE  Sole(t, e, q, n)
<1>0. job # NoJob /\ job.epoch # 0
    BY DEF NoJob
<1>1. Shape(t, q)
    BY <1>0, ThreadsAssumption DEF Shape
<1>2. LegFor(q) = LegFor(r) /\ LegsRun(q) /\ Registers(e, q)
    BY DEF LegFor, LegsRun, Registers, Jobs, JobKinds
<1>3. Stand(e, q)
    <2>1. ~Holds(q) /\ ~Live(e, q) /\ ~Closes(q) /\ ~Carries(e, q)
        BY DEF Holds, Live, Closes, Carries, Standing
    <2>2. NextStand(e, q)
        BY <1>0, <1>2 DEF NextStand
    <2>3. InHandOf(e) /\ Standing(e, q.next)
        BY <1>0 DEF Fits, Standing
    <2> QED
        BY <2>1, <2>2, <2>3 DEF Stand, HoldsStand, Spent, LiveStand, CloseStand, CarryStand, Carries
<1>4. ~OutWithLeg(e.coverage) /\ (e.coverage = NoCoverage => ~e.reader)
    BY DEF OutWithLeg, NoCoverage, Parked
<1>5. Settled(e)
    BY <1>0, <1>4 DEF Settled, Standing, AccountedFor, Parked
<1>6. PinsCounted(e, n) /\ Answers(e, q)
    BY <1>2, <1>4 DEF PinsCounted, Answers
<1>7. LegFor(r) # NoLeg
    BY DEF LegFor, JobLeg, PollLeg, NoLeg
<1>8. HeldFor(e, q)
    BY <1>7 DEF HeldFor, Running
<1> QED
    BY <1>1, <1>3, <1>5, <1>6, <1>8 DEF Sole

LEMMA EndsSole ==
    ASSUME NEW t \in Workers, NEW s, NEW r, NEW q, NEW n \in Nat,
           Shape(t, r), r.pc = "working" \/ r.pc = "begun", r.job \in Jobs,
           s.claim.leg = LegFor(r), s.claim.gate = "open",
           s.coverage \in {NoCoverage, Parked}, s.reader => s.coverage = Parked,
           ~s.detach_in_flight, s.pinned_leg = NoLeg, s.pins = n,
           q.pc \in {"ending", "classifying"}, q.held = FALSE, q.next = NoJob, q.job = r.job,
           q.followup = NoJob, q.after = "idle"
    PROVE  Sole(t, s, q, n) /\ ~NewWork(s, q)
<1>1. Shape(t, q)
    BY ThreadsAssumption DEF Shape
<1>2. LegFor(q) = LegFor(r) /\ LegsRun(q) /\ Registers(s, q)
    BY DEF LegFor, LegsRun, Registers, Jobs, JobKinds
<1>3. ~Holds(q) /\ ~Live(s, q) /\ ~Closes(q) /\ ~Carries(s, q) /\ ~Standing(s, q.next)
    BY DEF Holds, Live, Closes, Carries, Standing
<1>4. Stand(s, q)
    BY <1>3 DEF Stand, HoldsStand, Spent, LiveStand, CloseStand, CarryStand, Carries, NextStand
<1>5. ~OutWithLeg(s.coverage) /\ (s.coverage = NoCoverage => ~s.reader)
    BY DEF OutWithLeg, NoCoverage, Parked
<1>6. Settled(s)
    BY <1>5 DEF Settled, AccountedFor, Parked
<1>7. PinsCounted(s, n) /\ Answers(s, q) /\ HeldFor(s, q)
    BY <1>2, <1>5 DEF PinsCounted, Answers, HeldFor
<1> QED
    BY <1>1, <1>3, <1>4, <1>6, <1>7 DEF Sole, NewWork

LEMMA LegEnds ==
    ASSUME Inv, Inv', Custody, NEW w \in Workers, At(w, "working"), Stands(w),
           NEW s, Parted(w, s), Hands(w, s), UNCHANGED <<queue, sends, reads>>
    PROVE  Custody'
<1> DEFINE r == thread[w]
           q == thread'[w]
<1>1. /\ w \in Threads /\ LegsRun(r) /\ Engaged(entry, r) /\ entry.claim.leg = LegOf(w)
      /\ Shape(w, r) /\ r.pc = "working" /\ r.job \in Jobs
      /\ r.followup = NoJob /\ r.after = "idle"
      /\ LegOf(w) = LegFor(r) /\ r.job.epoch = entry.claim.epoch
      /\ ~InQueue /\ ~InSends /\ \A u \in Threads \ {w} : ~Engaged(entry, thread[u])
    BY WorkingIs, WorkerIs, EngagedAlone DEF At, Stands, StandsAtEpoch, StandsAt
<1>2. /\ s \in Entries /\ s.claim \in Claims /\ s.claim.epoch = entry.claim.epoch
      /\ s.claim.epoch \in Nat /\ s.claim.leg = LegFor(r)
      /\ s.claim.gate \in {"open", "held"}
      /\ s.coverage \in {NoCoverage, Parked} /\ (s.reader => s.coverage = Parked)
      /\ ~s.detach_in_flight /\ s.pinned_leg = NoLeg /\ s.pins = reads' /\ reads' \in Nat
    BY <1>1, SoundEpoch, EntryTyped DEF Parted, Keeps, Sound, Inv, RestInv
\* A job handed on over e, whose claim is s's a step further.
<1>3. ASSUME NEW e, NEW job \in Jobs, SameCustody(e, entry'), HandsOver(w, job),
             e.claim.epoch = s.claim.epoch + 1, job.epoch = s.claim.epoch + 1,
             e.claim.leg = s.claim.leg,
             \/ e.claim.gate = "held"
             \/ e.claim.gate = "scheduled" /\ e.claim.marker = job,
             Fits(e, job.kind), job.kind # "Attach",
             e.coverage = s.coverage, e.reader = s.reader, ~e.detach_in_flight,
             e.pins = s.pins, e.pinned_leg = NoLeg
      PROVE  Custody'
    <2>1. job # NoJob
        BY <1>2, <1>3 DEF NoJob
    <2>2. /\ Unmoved(w) /\ q.pc \in {"handing", "classifying"} /\ q.held = FALSE /\ q.next = job /\ q.job = r.job
          /\ q.followup = NoJob /\ q.after = "idle"
        BY <1>1, <1>3, <2>1, HandingTo
    <2>3. e.claim.epoch = job.epoch /\ r.job.epoch = s.claim.epoch
        BY <1>1, <1>2, <1>3
    <2> HIDE DEF q, r
    <2>4. Sole(w, e, q, reads')
        BY <1>1, <1>2, <1>3, <2>2, <2>3, HandsSole
    <2>5. Sole(w, entry', q, reads')
        BY <1>3, <2>4, SoleAlike
    <2>6. entry'.claim.epoch = entry.claim.epoch + 1 /\ entry'.claim.leg = entry.claim.leg
        BY <1>1, <1>2, <1>3 DEF SameCustody
    <2>7. q.job.epoch # entry'.claim.epoch
        BY <1>1, <1>2, <2>2, <2>6
    <2> QED
        BY <1>1, <1>2, <2>2, <2>5, <2>6, <2>7, EngagedStep DEF q, r
\* The leg ends over s, which may then schedule.
<1>4. CASE entry' = s /\ HandsOver(w, NoJob) /\ s.claim.gate = "open"
    <2>1. /\ Unmoved(w) /\ q.pc \in {"ending", "classifying"} /\ q.held = FALSE /\ q.next = NoJob /\ q.job = r.job
          /\ q.followup = NoJob /\ q.after = "idle"
        BY <1>1, <1>4, HandingTo
    <2> HIDE DEF q, r
    <2>2. Sole(w, s, q, reads') /\ ~NewWork(s, q)
        BY <1>1, <1>2, <1>4, <2>1, EndsSole
    <2> QED
        BY <1>1, <1>2, <1>4, <2>1, <2>2, EngagedStep DEF q, r
<1>5. ASSUME NEW kind \in {"Rebuild", "Reconcile", "Maintenance"}, InHandOf(s),
             NEW e, e \in {HandOnTo(s, kind), ScheduleJob(s, kind), HandOnTo(TakeDamage(s), kind)},
             e = ScheduleJob(s, kind) => s.claim.gate = "open",
             entry' = e, HandsOn(w, HandedOn(s.claim, kind))
      PROVE  Custody'
    <2> DEFINE job == HandedOn(s.claim, kind)
    <2>1. kind \in JobKinds /\ s.claim.gate # "scheduled"
        BY <1>2 DEF JobKinds
    <2>2. job \in Jobs /\ job.epoch = s.claim.epoch + 1 /\ job.kind = kind
        BY <1>2, <2>1 DEF HandedOn, Jobs
    <2>3. ASSUME NEW p \in Entries, SameCustody(s, p)
          PROVE  /\ HandOnTo(p, kind).claim = HandOn(s.claim, kind)
                 /\ HandOnTo(p, kind).coverage = s.coverage /\ HandOnTo(p, kind).reader = s.reader
                 /\ HandOnTo(p, kind).detach_in_flight = s.detach_in_flight
                 /\ HandOnTo(p, kind).pins = s.pins /\ HandOnTo(p, kind).pinned_leg = s.pinned_leg
        BY <2>3 DEF HandOnTo, SameCustody, Entries
    <2>4. /\ SameCustody(s, s) /\ SameCustody(s, TakeDamage(s)) /\ TakeDamage(s) \in Entries
        BY <1>2, DataAlike
    <2>5. /\ e.claim \in {HandOn(s.claim, kind), Schedule(s.claim, kind)}
          /\ e.coverage = s.coverage /\ e.reader = s.reader
          /\ e.detach_in_flight = s.detach_in_flight
          /\ e.pins = s.pins /\ e.pinned_leg = s.pinned_leg
        <3>1. CASE e = ScheduleJob(s, kind)
            BY <1>2, <3>1 DEF ScheduleJob, Entries
        <3>2. CASE e = HandOnTo(s, kind)
            BY <1>2, <2>3, <2>4, <3>2
        <3>3. CASE e = HandOnTo(TakeDamage(s), kind)
            BY <1>2, <2>3, <2>4, <3>3
        <3> QED
            BY <1>5, <3>1, <3>2, <3>3
    <2>6. /\ e.claim.epoch = s.claim.epoch + 1 /\ e.claim.leg = s.claim.leg
          /\ \/ e.claim.gate = "held"
             \/ e.claim.gate = "scheduled" /\ e.claim.marker = job
        BY <1>2, <2>1, <2>5, HandOnFields, ScheduleFields DEF ClaimIs, HandedOn
    <2>7. Fits(e, job.kind)
        BY <1>5, <2>2, <2>5 DEF Fits, InHandOf
    <2>8. SameCustody(e, entry')
        BY <1>5 DEF SameCustody
    <2> HIDE DEF job, q, r
    <2>9. HandsOver(w, job)
        BY <1>5 DEF job, HandsOver
    <2> QED
        BY <1>2, <1>3, <2>2, <2>5, <2>6, <2>7, <2>8, <2>9
<1>6. CASE /\ entry' = ScheduleDueDetach(s) /\ HandsOver(w, DueDetach(s))
           /\ s.claim.gate = "open"
    <2>1. CASE CanScheduleDueDetach(s)
        <3> DEFINE job == [kind |-> "Detach", epoch |-> s.claim.epoch + 1]
                   p == [s EXCEPT !.detach_scheduled = TRUE]
                   e == ScheduleJob(p, "Detach")
        <3>1. entry' = e /\ HandsOver(w, job)
            BY <1>6, <2>1 DEF ScheduleDueDetach, DueDetach
        <3>2. job \in Jobs /\ job.epoch = s.claim.epoch + 1 /\ job.kind = "Detach"
            BY <1>2 DEF Jobs, JobKinds
        <3>3. /\ e.claim = Schedule(s.claim, "Detach")
              /\ e.coverage = s.coverage /\ e.reader = s.reader
              /\ e.detach_in_flight = s.detach_in_flight /\ e.detach_scheduled
              /\ e.pins = s.pins /\ e.pinned_leg = s.pinned_leg /\ e.leases = s.leases
            BY <1>2 DEF ScheduleJob, Entries
        <3>4. ClaimIs(e.claim, s.claim.epoch + 1, "scheduled", job, s.claim.leg, s.claim.slot)
            BY <1>2, <3>3, ScheduleFields DEF JobKinds
        <3>5. InHandOf(s) /\ s.leases = 0 /\ s.pins = 0
            BY <1>2, <2>1 DEF CanScheduleDueDetach, Pinned
        <3>6. Fits(e, job.kind)
            BY <3>2, <3>3, <3>5 DEF Fits, InHandOf
        <3> HIDE DEF job, e, q, r
        <3>7. SameCustody(e, entry')
            BY <3>1 DEF SameCustody
        <3> QED
            BY <1>2, <1>3, <3>1, <3>2, <3>3, <3>4, <3>6, <3>7 DEF ClaimIs
    <2>2. CASE ~CanScheduleDueDetach(s)
        BY <1>4, <1>6, <2>2 DEF ScheduleDueDetach, DueDetach
    <2> QED
        BY <2>1, <2>2
<1> QED
    <2>1. CASE HandsOnDamage(w, s) /\ InHandOf(s)
        <3>1. entry' = HandOnTo(TakeDamage(s), "Rebuild") /\ HandsOn(w, HandedOn(s.claim, "Rebuild"))
            BY <2>1 DEF HandsOnDamage
        <3>2. HandOnTo(TakeDamage(s), "Rebuild") = ScheduleJob(s, "Rebuild") => s.claim.gate = "open"
            <4>1. SameCustody(s, TakeDamage(s)) /\ TakeDamage(s) \in Entries
                BY <1>2, DataAlike
            <4>2. HandOnTo(TakeDamage(s), "Rebuild").claim = HandOn(s.claim, "Rebuild")
                BY <4>1 DEF HandOnTo, SameCustody, Entries
            <4>3. ScheduleJob(s, "Rebuild").claim = Schedule(s.claim, "Rebuild")
                BY <1>2 DEF ScheduleJob, Entries
            <4>4. HandOn(s.claim, "Rebuild").gate = "held" /\ Schedule(s.claim, "Rebuild").gate = "scheduled"
                BY <1>2, HandOnFields, ScheduleFields DEF ClaimIs, JobKinds
            <4> QED
                BY <4>2, <4>3, <4>4
        <3> QED
            BY <1>5, <2>1, <3>1, <3>2
    <2>2. ASSUME NEW kind \in {"Rebuild", "Reconcile", "Maintenance"}, HandsOnTo(w, s, kind), InHandOf(s)
          PROVE  Custody'
        <3>1. entry' = HandOnTo(s, kind) /\ HandsOn(w, HandedOn(s.claim, kind))
            BY <2>2 DEF HandsOnTo
        <3>2. HandOnTo(s, kind) # ScheduleJob(s, kind)
            <4>1. HandOnTo(s, kind).claim = HandOn(s.claim, kind)
                BY <1>2 DEF HandOnTo, Entries
            <4>2. ScheduleJob(s, kind).claim = Schedule(s.claim, kind)
                BY <1>2 DEF ScheduleJob, Entries
            <4>3. HandOn(s.claim, kind).gate = "held" /\ Schedule(s.claim, kind).gate = "scheduled"
                <5>1. kind \in JobKinds /\ s.claim \in Claims /\ s.claim.gate # "scheduled"
                    BY <1>2 DEF JobKinds
                <5> QED
                    BY <5>1, HandOnFields, ScheduleFields DEF ClaimIs
            <4> QED
                BY <4>1, <4>2, <4>3
        <3> QED
            BY <1>5, <2>2, <3>1, <3>2
    <2>3. CASE /\ entry' = ScheduleJob(s, "Maintenance")
               /\ HandsOn(w, HandedOn(s.claim, "Maintenance"))
               /\ InHandOf(s) /\ s.claim.gate = "open"
        BY <1>5, <2>3
    <2> QED
        BY <1>4, <1>6, <2>1, <2>2, <2>3 DEF Hands, HandsOver

----------------------------------------------------------------------------
(* What the ends of the legs leave                                         *)

LEMMA PartedAlike ==
    ASSUME NEW w, NEW s, NEW p, Parted(w, s), SameCustody(s, p), Keeps(entry, p)
    PROVE  Parted(w, p) /\ (InHandOf(s) => InHandOf(p)) /\ p.claim = s.claim
BY DEF Parted, SameCustody, InHandOf

LEMMA PublishesAlike ==
    ASSUME NEW s \in Entries
    PROVE  /\ SameCustody(s, PublishPendingReconcile(s))
           /\ \A trust : SameCustody(s, SetTrust(s, trust))
           /\ \A saturated \in BOOLEAN :
                  SameCustody(s, PublishReadyWhereNothingIsLeft(s, saturated))
           /\ \A tookInAFact \in BOOLEAN : SameCustody(s, WithholdTrust(s, tookInAFact))
           /\ SameCustody(s, WithdrawTrustForDamage(s))
           /\ \A damage : SameCustody(s, [s EXCEPT !.damage = damage])
<1>1. \A trust : SameCustody(s, SetTrust(s, trust))
    BY DEF SameCustody, SetTrust, Entries
<1>2. SameCustody(s, PublishPendingReconcile(s))
    BY <1>1 DEF PublishPendingReconcile
<1>3. \A saturated \in BOOLEAN : SameCustody(s, PublishReadyWhereNothingIsLeft(s, saturated))
    BY <1>1 DEF PublishReadyWhereNothingIsLeft, SameCustody
<1>4. ASSUME NEW tookInAFact \in BOOLEAN PROVE SameCustody(s, WithholdTrust(s, tookInAFact))
    BY DEF SameCustody, WithholdTrust, SetTrust, Merge, RequireRecovery, RetireRecoveryDemands,
           RequireRecoveryKeepingDemands, Entries
<1>5. SameCustody(s, WithdrawTrustForDamage(s))
    BY DEF SameCustody, WithdrawTrustForDamage, SetTrust, RequireRebuild, RetireRecoveryDemands,
           Entries
<1>6. \A damage : SameCustody(s, [s EXCEPT !.damage = damage])
    BY DEF SameCustody, Entries
<1> QED
    BY <1>1, <1>2, <1>3, <1>4, <1>5, <1>6

\* u with its coverage parked, its gate as it was or released.
Parks(u, s) ==
    /\ s.claim \in {u.claim, Release(u.claim)} /\ s.coverage = Parked
    /\ s.reader \in BOOLEAN
    /\ s.detach_in_flight = u.detach_in_flight
    /\ s.pins = u.pins /\ s.pinned_leg = u.pinned_leg

LEMMA AttachedParks ==
    ASSUME Inv, NEW observed \in Batches, NEW minted \in BOOLEAN
    PROVE  /\ Parks(entry, Attached(entry, observed, minted))
           /\ Attached(entry, observed, minted).claim = Release(entry.claim)
<1> DEFINE s == Attached(entry, observed, minted)
<1>1. entry \in Entries
    BY Facts
<1>2. /\ s.claim = Release(entry.claim) /\ s.coverage = Parked
      /\ s.reader = minted
      /\ s.detach_in_flight = entry.detach_in_flight
      /\ s.pins = entry.pins /\ s.pinned_leg = entry.pinned_leg
    BY <1>1 DEF Attached, ClearRungs, ClearRebuild, ClearRecovery, RetireRecoveryDemands,
                InstallCoverage, Merge, ReleaseGate, Entries
<1> QED
    BY <1>2 DEF Parks

LEMMA WorkedParks ==
    ASSUME NEW u \in Entries, NEW epoch, NEW observed \in Batches, NEW minted \in BOOLEAN
    PROVE  /\ LET s == ClearRecovery(ParkCoverage(Merge(ReleaseGate(u), observed), epoch, minted))
              IN  Parks(u, s) /\ s.claim = Release(u.claim)
           /\ LET s == ClearRebuild(RemintCoverage(Merge(ReleaseGate(u), observed), epoch, minted))
              IN  Parks(u, s) /\ s.claim = Release(u.claim)
           /\ LET s == ReleaseGate(Park(Merge(u, observed), epoch))
              IN  Parks(u, s) /\ s.claim = Release(u.claim)
           /\ LET s == LostSight(u, epoch)
              IN  Parks(u, s) /\ s.claim = Release(u.claim)
           /\ Parks(u, Park(u, epoch)) /\ Parks(u, Park(Merge(u, observed), epoch))
<1>1. u.reader \in BOOLEAN /\ (u.reader \/ minted) \in BOOLEAN
    BY DEF Entries
<1>2. LET s == ClearRecovery(ParkCoverage(Merge(ReleaseGate(u), observed), epoch, minted))
      IN  /\ s.claim = Release(u.claim) /\ s.coverage = Parked
          /\ s.reader = (u.reader \/ minted)
          /\ s.detach_in_flight = u.detach_in_flight
          /\ s.pins = u.pins /\ s.pinned_leg = u.pinned_leg
    BY DEF ClearRecovery, RetireRecoveryDemands, ParkCoverage, Park, ParkBy, Merge, ReleaseGate,
           Entries
<1>3. LET s == ClearRebuild(RemintCoverage(Merge(ReleaseGate(u), observed), epoch, minted))
      IN  /\ s.claim = Release(u.claim) /\ s.coverage = Parked
          /\ s.reader = minted
          /\ s.detach_in_flight = u.detach_in_flight
          /\ s.pins = u.pins /\ s.pinned_leg = u.pinned_leg
    BY DEF ClearRebuild, RemintCoverage, Park, ParkBy, Merge, ReleaseGate, Entries
<1>4. LET s == ReleaseGate(Park(Merge(u, observed), epoch))
      IN  /\ s.claim = Release(u.claim) /\ s.coverage = Parked
          /\ s.reader = u.reader
          /\ s.detach_in_flight = u.detach_in_flight
          /\ s.pins = u.pins /\ s.pinned_leg = u.pinned_leg
    BY DEF Park, ParkBy, Merge, ReleaseGate, Entries
<1>5. LET s == LostSight(u, epoch)
      IN  /\ s.claim = Release(u.claim) /\ s.coverage = Parked
          /\ s.reader = u.reader
          /\ s.detach_in_flight = u.detach_in_flight
          /\ s.pins = u.pins /\ s.pinned_leg = u.pinned_leg
    BY DEF LostSight, SetTrust, RequireRecovery, RetireRecoveryDemands,
           RequireRecoveryKeepingDemands, Park, ParkBy, Merge, ReleaseGate, Entries
<1>6. ASSUME NEW s \in {Park(u, epoch), Park(Merge(u, observed), epoch)}
      PROVE  /\ s.claim = u.claim /\ s.coverage = Parked
             /\ s.reader = u.reader
             /\ s.detach_in_flight = u.detach_in_flight
             /\ s.pins = u.pins /\ s.pinned_leg = u.pinned_leg
    BY DEF Park, ParkBy, Merge, Entries
<1>7. Parks(u, Park(u, epoch)) /\ Parks(u, Park(Merge(u, observed), epoch))
    BY <1>1, <1>6 DEF Parks
<1> QED
    BY <1>1, <1>2, <1>3, <1>4, <1>5, <1>7 DEF Parks

\* The pin of the working leg is taken back.
LEMMA UnpinnedIs ==
    ASSUME Inv, Custody, NEW w \in Workers, At(w, "working"), KindOf(w) # "Attach"
    PROVE  LET u == Unpinned(w)
           IN  /\ Keeps(entry, u) /\ u \in Entries
               /\ u.claim = entry.claim /\ u.coverage = entry.coverage /\ u.reader = entry.reader
               /\ u.detach_in_flight = entry.detach_in_flight
               /\ u.detach_scheduled = entry.detach_scheduled /\ u.leases = entry.leases
               /\ u.pins = reads /\ u.pinned_leg = NoLeg
<1>1. entry.pinned_leg = LegOf(w) /\ entry.pins = reads + 1 /\ reads \in Nat /\ entry \in Entries
      /\ w \in Threads
    BY WorkingIs, Facts DEF Inv, RestInv
<1>2. Keeps(entry, Unpinned(w)) /\ Unpinned(w) \in Entries
    BY <1>1, UnpinnedKeeps DEF Keeps, Sound
<1>3. Unpinned(w) = [[entry EXCEPT !.pinned_leg = NoLeg] EXCEPT !.pins = reads]
    <2> DEFINE p == [entry EXCEPT !.pinned_leg = NoLeg]
    <2>1. Unpinned(w) = Unpin(p) /\ p.pins = entry.pins
        BY <1>1 DEF Unpinned, UnpinLeg, Entries
    <2>2. entry.pins > 0 /\ entry.pins - 1 = reads
        BY <1>1
    <2> HIDE DEF p
    <2>3. Unpin(p) = [p EXCEPT !.pins = reads]
        BY <2>1, <2>2 DEF Unpin
    <2> QED
        BY <2>1, <2>3 DEF p
<1> QED
    BY <1>1, <1>2, <1>3 DEF Entries

\* A working leg that parks is parted from its coverage.
LEMMA WorkedParted ==
    ASSUME Inv, Custody, NEW w \in Workers, At(w, "working"), Stands(w),
           NEW s, Keeps(entry, s),
           \/ KindOf(w) # "Attach" /\ Parks(Unpinned(w), s)
           \/ KindOf(w) = "Attach" /\ Parks(entry, s)
    PROVE  Parted(w, s) /\ InHandOf(s)
           /\ (s.claim = Release(entry.claim) => s.claim.gate = "open")
<1>1. /\ entry.claim.leg = LegOf(w) /\ entry.claim.gate = "held" /\ ~entry.detach_in_flight
      /\ KindOf(w) = "Attach" => entry.pinned_leg = NoLeg /\ entry.pins = reads
      /\ KindOf(w) # "Attach" =>
             /\ Unpinned(w).claim = entry.claim /\ ~Unpinned(w).detach_in_flight
             /\ Unpinned(w).pins = reads /\ Unpinned(w).pinned_leg = NoLeg
      /\ entry.claim \in Claims
    BY WorkingIs, UnpinnedIs, Facts, EntryTyped
<1>2. ClaimIs(Release(entry.claim), entry.claim.epoch, "open", NoJob, LegOf(w), entry.claim.slot)
    BY <1>1, GateFields
<1>3. /\ s.claim \in {entry.claim, Release(entry.claim)} /\ s.coverage = Parked
      /\ ~s.detach_in_flight /\ s.pins = reads /\ s.pinned_leg = NoLeg
    BY <1>1 DEF Parks
<1> QED
    BY <1>1, <1>2, <1>3 DEF Parted, InHandOf, InHand, Parked, ClaimIs

LEMMA AttachSucceedsKeeps ==
    ASSUME Inv, Inv', Custody, NEW w \in Workers, AttachSucceeds(w) PROVE Custody'
<1>1. PICK observed \in Batches, minted \in BOOLEAN :
        LET attached == Attached(entry, observed, minted) IN
        IF entry.damage
           THEN /\ entry' = HandOnTo(TakeDamage(attached), "Rebuild")
                /\ HandsOn(w, HandedOn(attached.claim, "Rebuild"))
           ELSE IF attached.pending = "none"
           THEN /\ entry' = SetTrust(attached, "Ready")
                /\ HandsOn(w, NoJob)
           ELSE /\ entry' = HandOnTo(PublishPendingReconcile(attached), "Reconcile")
                /\ HandsOn(w, HandedOn(attached.claim, "Reconcile"))
    BY DEF AttachSucceeds
<1> DEFINE s == Attached(entry, observed, minted)
           p == PublishPendingReconcile(s)
           ready == SetTrust(s, "Ready")
<1>2. At(w, "working") /\ Stands(w) /\ KindOf(w) = "Attach" /\ UNCHANGED <<queue, sends, reads>>
    BY DEF AttachSucceeds, Channel, Client
<1>3. \/ entry' = HandOnTo(TakeDamage(s), "Rebuild") /\ HandsOn(w, HandedOn(s.claim, "Rebuild"))
      \/ entry' = ready /\ HandsOn(w, NoJob)
      \/ entry' = HandOnTo(p, "Reconcile") /\ HandsOn(w, HandedOn(s.claim, "Reconcile"))
    BY <1>1
<1>4. Keeps(entry, s) /\ s \in Entries /\ Parks(entry, s) /\ s.claim = Release(entry.claim)
    BY AttachedKeeps, AttachedParks DEF Keeps, Sound
<1> HIDE DEF s
<1>5. Parted(w, s) /\ InHandOf(s) /\ s.claim.gate = "open"
    BY <1>2, <1>4, WorkedParted
<1>6. /\ SameCustody(s, p) /\ SameCustody(s, ready) /\ Keeps(entry, p) /\ Keeps(entry, ready)
    BY <1>4, PublishesAlike, AlikeKept, PublishAlike, TrustAlike, KindsHandedOn
<1> HIDE DEF p, ready
<1>7. /\ Parted(w, p) /\ InHandOf(p) /\ p.claim = s.claim
      /\ Parted(w, ready) /\ ready.claim = s.claim
    BY <1>5, <1>6, PartedAlike
<1>8. CASE entry' = HandOnTo(TakeDamage(s), "Rebuild") /\ HandsOn(w, HandedOn(s.claim, "Rebuild"))
    <2>1. Hands(w, s)
        BY <1>5, <1>8 DEF Hands, HandsOnDamage
    <2> QED
        BY <1>2, <1>5, <2>1, LegEnds
<1>9. CASE entry' = ready /\ HandsOn(w, NoJob)
    <2>1. Hands(w, ready)
        BY <1>5, <1>7, <1>9 DEF Hands
    <2> QED
        BY <1>2, <1>7, <2>1, LegEnds
<1>10. CASE entry' = HandOnTo(p, "Reconcile") /\ HandsOn(w, HandedOn(s.claim, "Reconcile"))
    <2>1. Hands(w, p)
        BY <1>7, <1>10 DEF Hands, HandsOnTo
    <2> QED
        BY <1>2, <1>7, <2>1, LegEnds
<1> QED
    BY <1>3, <1>8, <1>9, <1>10

LEMMA AttachWithheldKeeps ==
    ASSUME Inv, Inv', Custody, NEW w \in Workers, AttachWithheld(w) PROVE Custody'
<1>1. PICK tookInAFact \in BOOLEAN, minted \in BOOLEAN :
        LET observed == IF tookInAFact THEN "facts" ELSE "none" IN
        entry' = [WithholdTrust(Attached(entry, observed, minted), tookInAFact)
                        EXCEPT !.damage = entry.damage]
    BY DEF AttachWithheld
<1> DEFINE observed == IF tookInAFact THEN "facts" ELSE "none"
           s == Attached(entry, observed, minted)
           p == WithholdTrust(s, tookInAFact)
           q == [p EXCEPT !.damage = entry.damage]
<1>2. At(w, "working") /\ Stands(w) /\ KindOf(w) = "Attach" /\ UNCHANGED <<queue, sends, reads>>
      /\ HandsOn(w, NoJob) /\ entry' = q
    BY <1>1 DEF AttachWithheld, Channel, Client
<1>3. observed \in Batches /\ entry.damage \in BOOLEAN
    BY Facts DEF Batches, Entries
<1> HIDE DEF observed
<1>4. Keeps(entry, s) /\ s \in Entries /\ Parks(entry, s) /\ s.claim = Release(entry.claim)
    BY <1>3, AttachedKeeps, AttachedParks DEF Keeps, Sound
<1> HIDE DEF s
<1>5. Parted(w, s) /\ s.claim.gate = "open"
    BY <1>2, <1>4, WorkedParted
<1>6. SameCustody(s, p) /\ Keeps(entry, p) /\ p \in Entries
    BY <1>4, PublishesAlike, AlikeKept, PublishAlike DEF Keeps, Sound
<1> HIDE DEF p
<1>7. SameCustody(p, q) /\ Keeps(entry, q)
    BY <1>3, <1>6, PublishesAlike, FlagsMoved, AlikeKept
<1> HIDE DEF q
<1>8. Parted(w, q) /\ q.claim.gate = "open"
    BY <1>5, <1>6, <1>7, PartedAlike
<1>9. Hands(w, q)
    BY <1>2, <1>8 DEF Hands
<1> QED
    BY <1>2, <1>8, <1>9, LegEnds

LEMMA AttachFailsKeeps ==
    ASSUME Inv, Inv', Custody, NEW w \in Workers, AttachFails(w) PROVE Custody'
<1>1. PICK failure \in Failures : entry' = FailedAttach(entry, failure)
    BY DEF AttachFails
<1>2. At(w, "working") /\ Stands(w) /\ KindOf(w) = "Attach" /\ UNCHANGED <<queue, sends, reads>>
      /\ HandsOn(w, NoJob)
    BY DEF AttachFails, Channel, Client
<1> DEFINE a == [ReleaseGate(entry) EXCEPT !.damage = FALSE]
           b == [a EXCEPT !.contended = TRUE]
           s == FailedAttach(entry, failure)
<1>3. /\ entry.claim.leg = LegOf(w) /\ entry.claim.gate = "held" /\ ~entry.detach_in_flight
      /\ entry.pinned_leg = NoLeg /\ entry.pins = reads
      /\ entry.coverage = NoCoverage /\ ~entry.reader /\ entry.claim \in Claims /\ entry \in Entries
    BY <1>2, WorkingIs, Facts, EntryTyped
<1>4. ClaimIs(Release(entry.claim), entry.claim.epoch, "open", NoJob, LegOf(w), entry.claim.slot)
    BY <1>3, GateFields
<1>5. Keeps(entry, ReleaseGate(entry))
    BY Facts, GateKeeps
<1>6. /\ s.claim = Release(entry.claim) /\ s.coverage = entry.coverage
      /\ s.reader = entry.reader /\ s.detach_in_flight = entry.detach_in_flight
      /\ s.pins = entry.pins /\ s.pinned_leg = entry.pinned_leg
    <2>1. failure = "contended" => s = SetTrust(b, "Unattached")
        BY DEF FailedAttach
    <2>2. failure = "lost" => s = SetTrust(ClearPending(a), "Unattached")
        BY DEF FailedAttach
    <2>3. failure \notin {"contended", "lost"} => s = SetTrust(a, "Untrusted")
        BY DEF FailedAttach
    <2> HIDE DEF s
    <2> QED
        BY <1>3, <2>1, <2>2, <2>3 DEF SetTrust, ClearPending, ReleaseGate, Entries
<1>7. Keeps(entry, s)
    BY <1>1, <1>4, <1>6 DEF Keeps, SlotKept, Inv, ClaimIs
<1> HIDE DEF s
<1>8. Parted(w, s) /\ s.claim.gate = "open"
    BY <1>3, <1>4, <1>6, <1>7 DEF Parted, ClaimIs
<1>9. Hands(w, s)
    BY <1>1, <1>2, <1>8 DEF Hands, s
<1> QED
    BY <1>2, <1>8, <1>9, LegEnds

\* How a working leg ends over s: with damage or a job handed on, or with its gate
\* let go.
EndsOver(w, s) ==
    \/ HandsOnDamage(w, s)
    \/ \E kind \in {"Rebuild", "Reconcile", "Maintenance"} : HandsOnTo(w, s, kind)
    \/ /\ s.claim = Release(entry.claim)
       /\ \/ entry' = ScheduleDueDetach(s) /\ HandsOver(w, DueDetach(s))
          \/ /\ entry' = ScheduleJob(s, "Maintenance")
             /\ HandsOn(w, HandedOn(s.claim, "Maintenance"))
          \/ entry' = s /\ HandsOn(w, NoJob)

LEMMA WorkedEnds ==
    ASSUME Inv, Inv', Custody, NEW w \in Workers, At(w, "working"), Stands(w),
           KindOf(w) # "Attach", NEW s, Keeps(entry, s), Parks(Unpinned(w), s),
           EndsOver(w, s), UNCHANGED <<queue, sends, reads>>
    PROVE  Custody'
<1>1. Parted(w, s) /\ InHandOf(s)
      /\ (s.claim = Release(entry.claim) => s.claim.gate = "open")
    BY WorkedParted
<1>2. Hands(w, s)
    BY <1>1 DEF EndsOver, Hands
<1> QED
    BY <1>1, <1>2, LegEnds

LEMMA ParksAlike ==
    ASSUME NEW u, NEW s, NEW p, Parks(u, s), SameCustody(s, p)
    PROVE  Parks(u, p) /\ p.claim = s.claim
BY DEF Parks, SameCustody

LEMMA UnpinnedClaim ==
    ASSUME Inv, Custody, NEW w \in Workers, At(w, "working"), KindOf(w) # "Attach"
    PROVE  Unpinned(w) \in Entries /\ Unpinned(w).claim = entry.claim
BY UnpinnedIs

LEMMA TurnFailsKeeps ==
    ASSUME Inv, Inv', Custody, NEW w \in Workers, TurnFails(w) PROVE Custody'
<1> DEFINE s == LostSight(Unpinned(w), EpochOf(w))
           u == Unpinned(w)
<1>1. /\ At(w, "working") /\ Stands(w) /\ KindOf(w) # "Attach"
      /\ UNCHANGED <<queue, sends, reads>>
    BY DEF TurnFails, CoverageJobs, Channel, Client
<1>2. /\ entry' = ScheduleDueDetach(s)
      /\ \/ HandsOn(w, DueDetach(s))
         \/ thread' = [thread EXCEPT ![w] =
               [@ EXCEPT !.pc = "classifying", !.held = FALSE, !.next = DueDetach(s),
                         !.lost = entry'.claim.epoch]]
    BY DEF TurnFails
<1>3. entry.claim.epoch' \in Nat
    BY SoundEpoch DEF Inv
<1>4. u \in Entries /\ u.claim = entry.claim
    BY <1>1, UnpinnedClaim
<1> HIDE DEF u
<1>5. Keeps(entry, s) /\ Parks(u, s) /\ s.claim = Release(u.claim)
    <2>1. Parks(u, LostSight(u, EpochOf(w))) /\ LostSight(u, EpochOf(w)).claim = Release(u.claim)
        BY <1>4, WorkedParks DEF Batches
    <2> QED
        BY <2>1, LostSightKeeps DEF u
<1> HIDE DEF s
<1>6. EndsOver(w, s)
    BY <1>2, <1>3, <1>4, <1>5 DEF EndsOver, HandsOver
<1> QED
    BY <1>1, <1>5, <1>6, WorkedEnds DEF u

LEMMA TurnFindsDamageKeeps ==
    ASSUME Inv, Inv', Custody, NEW w \in Workers, TurnFindsDamage(w) PROVE Custody'
<1> DEFINE u == Unpinned(w)
           p == Park(u, EpochOf(w))
           s == WithdrawTrustForDamage(p)
<1>1. /\ At(w, "working") /\ Stands(w) /\ KindOf(w) # "Attach"
      /\ UNCHANGED <<queue, sends, reads>>
      /\ entry' = HandOnTo(s, "Rebuild") /\ HandsOn(w, HandedOn(s.claim, "Rebuild"))
    BY DEF TurnFindsDamage, CoverageJobs, Channel, Client
<1>2. u \in Entries /\ Keeps(entry, u) /\ EpochOf(w) \in 0..entry.claim.epoch
    BY <1>1, UnpinnedIs, ThreadFacts, Facts
<1> HIDE DEF u
<1>3. Keeps(entry, p) /\ Parks(u, p) /\ p \in Entries
    <2>1. Keeps(entry, p)
        BY <1>2, Facts, ParkKeeps, SoundSteps DEF Keeps, SlotKept
    <2>2. "none" \in Batches /\ TRUE \in BOOLEAN
        BY DEF Batches
    <2>3. Parks(u, p)
        BY <1>2, <2>2, WorkedParks
    <2> QED
        BY <2>1, <2>3 DEF Keeps, Sound
<1> HIDE DEF p
<1>4. Keeps(entry, s) /\ SameCustody(p, s)
    BY <1>3, AlikeKept, RungsAlike, PublishesAlike
<1> HIDE DEF s
<1>5. Parks(u, s)
    BY <1>3, <1>4, ParksAlike
<1>6. EndsOver(w, s)
    BY <1>1 DEF EndsOver, HandsOnTo
<1> QED
    BY <1>1, <1>4, <1>5, <1>6, WorkedEnds DEF u

\* What a turn that succeeded leaves before it decides on the trust.
LEMMA RecoveredParks ==
    ASSUME Inv, Custody, NEW w \in Workers, At(w, "working"), KindOf(w) # "Attach",
           NEW observed \in Batches, NEW minted \in BOOLEAN,
           NEW s \in {Recovered(w, observed, minted), Rebuilt(w, observed, minted)}
    PROVE  Keeps(entry, s) /\ Parks(Unpinned(w), s) /\ s.claim = Release(entry.claim)
<1> DEFINE u == Unpinned(w)
           epoch == EpochOf(w)
<1>1. Unpinned(w) \in Entries /\ Unpinned(w).claim = entry.claim
    BY UnpinnedClaim
<1>2. s \in {ClearRecovery(ParkCoverage(Merge(ReleaseGate(u), observed), epoch, minted)),
             ClearRebuild(RemintCoverage(Merge(ReleaseGate(u), observed), epoch, minted))}
    BY DEF Recovered, Rebuilt
<1> HIDE DEF u, epoch
<1>3. u \in Entries /\ u.claim = entry.claim
    BY <1>1 DEF u
<1>4. Parks(u, s) /\ s.claim = Release(u.claim)
    <2>1. CASE s = ClearRecovery(ParkCoverage(Merge(ReleaseGate(u), observed), epoch, minted))
        BY <1>3, <2>1, WorkedParks
    <2>2. CASE s = ClearRebuild(RemintCoverage(Merge(ReleaseGate(u), observed), epoch, minted))
        BY <1>3, <2>2, WorkedParks
    <2> QED
        BY <1>2, <2>1, <2>2
<1> QED
    BY <1>3, <1>4, RecoveredKeeps DEF u

\* Trust published over s.
LEMMA PublishedAlike ==
    ASSUME Inv, NEW s, Keeps(entry, s), NEW saturated \in BOOLEAN,
           NEW p \in {PublishReadyWhereNothingIsLeft(
                          IF s.pending # "none" THEN PublishPendingReconcile(s) ELSE s, saturated),
                      PublishReadyWhereNothingIsLeft(s, saturated),
                      PublishPendingReconcile(s), SetTrust(s, "Ready"), s}
    PROVE  Keeps(entry, p) /\ SameCustody(s, p)
<1> DEFINE healing == IF s.pending # "none" THEN PublishPendingReconcile(s) ELSE s
<1>1. s \in Entries
    BY DEF Keeps, Sound
<1>2. Keeps(entry, healing) /\ SameCustody(s, healing)
    BY <1>1, PublishKeeps, PublishesAlike, DataAlike
<1>3. Keeps(entry, PublishReadyWhereNothingIsLeft(healing, saturated))
    BY PublishKeeps
<1> HIDE DEF healing
<1>4. SameCustody(healing, PublishReadyWhereNothingIsLeft(healing, saturated))
    BY <1>2, PublishesAlike DEF Keeps, Sound
<1>5. SameCustody(s, PublishReadyWhereNothingIsLeft(healing, saturated))
    BY <1>2, <1>4 DEF SameCustody
<1>6. CASE p = PublishReadyWhereNothingIsLeft(healing, saturated)
    BY <1>3, <1>5, <1>6
<1>7. CASE p \in {PublishReadyWhereNothingIsLeft(s, saturated), PublishPendingReconcile(s), s}
    BY <1>1, <1>7, PublishKeeps, PublishesAlike, DataAlike
<1>8. CASE p = SetTrust(s, "Ready")
    BY <1>1, <1>8, PublishesAlike, AlikeKept, TrustAlike, KindsHandedOn
<1> QED
    BY <1>6, <1>7, <1>8 DEF healing

LEMMA RecoverSucceedsKeeps ==
    ASSUME Inv, Inv', Custody, NEW w \in Workers, RecoverSucceeds(w) PROVE Custody'
<1>1. PICK observed \in Batches, saturated \in BOOLEAN, minted \in BOOLEAN :
        LET s == Recovered(w, observed, minted) IN
        IF s.damage THEN HandsOnDamage(w, s)
           ELSE IF s.detach_due
           THEN HandsOnDueDetach(w,
                    PublishReadyWhereNothingIsLeft(
                        IF s.pending # "none" THEN PublishPendingReconcile(s) ELSE s,
                        saturated))
           ELSE IF s.pending = "none"
           THEN entry' = SetTrust(s, "Ready") /\ HandsOn(w, NoJob)
           ELSE HandsOnTo(w, s, "Reconcile")
    BY DEF RecoverSucceeds
<1> DEFINE s == Recovered(w, observed, minted)
           published == PublishReadyWhereNothingIsLeft(
                        IF s.pending # "none" THEN PublishPendingReconcile(s) ELSE s,
                        saturated)
           ready == SetTrust(s, "Ready")
<1>2. /\ At(w, "working") /\ Stands(w) /\ KindOf(w) # "Attach"
      /\ UNCHANGED <<queue, sends, reads>>
    BY DEF RecoverSucceeds, Channel, Client
<1>3. Keeps(entry, s) /\ Parks(Unpinned(w), s) /\ s.claim = Release(entry.claim)
    BY <1>2, RecoveredParks
<1>4. \/ HandsOnDamage(w, s) \/ HandsOnDueDetach(w, published)
      \/ HandsOnTo(w, s, "Reconcile")
      \/ entry' = ready /\ HandsOn(w, NoJob)
    BY <1>1
<1> HIDE DEF s
<1>5. Keeps(entry, published) /\ SameCustody(s, published)
      /\ Keeps(entry, ready) /\ SameCustody(s, ready)
    BY <1>3, PublishedAlike
<1> HIDE DEF published, ready
<1>6. /\ Parks(Unpinned(w), published) /\ published.claim = Release(entry.claim)
      /\ Parks(Unpinned(w), ready) /\ ready.claim = Release(entry.claim)
    BY <1>3, <1>5, ParksAlike
<1>7. EndsOver(w, s) \/ EndsOver(w, published) \/ EndsOver(w, ready)
    BY <1>4, <1>6 DEF EndsOver, HandsOnDueDetach, HandsOver
<1> QED
    BY <1>2, <1>3, <1>5, <1>6, <1>7, WorkedEnds

LEMMA RebuildSucceedsKeeps ==
    ASSUME Inv, Inv', Custody, NEW w \in Workers, RebuildSucceeds(w) PROVE Custody'
<1>1. PICK observed \in Batches, saturated \in BOOLEAN, minted \in BOOLEAN :
        LET s == Rebuilt(w, observed, minted)
            published == PublishReadyWhereNothingIsLeft(
                IF s.pending # "none" THEN PublishPendingReconcile(s) ELSE s, saturated) IN
        IF entry.damage THEN HandsOnDamage(w, s)
           ELSE IF s.detach_due THEN HandsOnDueDetach(w, published)
           ELSE IF s.pending # "none" THEN HandsOnTo(w, published, "Reconcile")
           ELSE entry' = published /\ HandsOn(w, NoJob)
    BY DEF RebuildSucceeds
<1> DEFINE s == Rebuilt(w, observed, minted)
           published == PublishReadyWhereNothingIsLeft(
                        IF s.pending # "none" THEN PublishPendingReconcile(s) ELSE s,
                        saturated)
<1>2. /\ At(w, "working") /\ Stands(w) /\ KindOf(w) # "Attach"
      /\ UNCHANGED <<queue, sends, reads>>
    BY DEF RebuildSucceeds, Channel, Client
<1>3. Keeps(entry, s) /\ Parks(Unpinned(w), s) /\ s.claim = Release(entry.claim)
    BY <1>2, RecoveredParks
<1>4. \/ HandsOnDamage(w, s) \/ HandsOnDueDetach(w, published)
      \/ HandsOnTo(w, published, "Reconcile")
      \/ entry' = published /\ HandsOn(w, NoJob)
    BY <1>1
<1> HIDE DEF s
<1>5. Keeps(entry, published) /\ SameCustody(s, published)
    BY <1>3, PublishedAlike
<1> HIDE DEF published
<1>6. Parks(Unpinned(w), published) /\ published.claim = Release(entry.claim)
    BY <1>3, <1>5, ParksAlike
<1>7. EndsOver(w, s) \/ EndsOver(w, published)
    BY <1>4, <1>6 DEF EndsOver, HandsOnDueDetach, HandsOver
<1> QED
    BY <1>2, <1>3, <1>5, <1>6, <1>7, WorkedEnds

LEMMA LegWithheldKeeps ==
    ASSUME Inv, Inv', Custody, NEW w \in Workers, LegWithheld(w) PROVE Custody'
<1>1. PICK tookInAFact \in BOOLEAN, minted \in BOOLEAN :
        LET observed == IF tookInAFact THEN "facts" ELSE "none"
            done == IF KindOf(w) = "Recover" THEN Recovered(w, observed, minted)
                    ELSE [Rebuilt(w, observed, minted) EXCEPT !.damage = entry.damage] IN
        HandsOnDueDetach(w, WithholdTrust(done, tookInAFact))
    BY DEF LegWithheld
<1> DEFINE observed == IF tookInAFact THEN "facts" ELSE "none"
           recovered == Recovered(w, observed, minted)
           rebuilt == Rebuilt(w, observed, minted)
           damaged == [rebuilt EXCEPT !.damage = entry.damage]
           done == IF KindOf(w) = "Recover" THEN recovered ELSE damaged
           s == WithholdTrust(done, tookInAFact)
<1>2. /\ At(w, "working") /\ Stands(w) /\ KindOf(w) # "Attach"
      /\ UNCHANGED <<queue, sends, reads>> /\ HandsOnDueDetach(w, s)
    BY <1>1 DEF LegWithheld, Channel, Client
<1>3. observed \in Batches /\ entry.damage \in BOOLEAN
    BY Facts DEF Batches, Entries
<1> HIDE DEF observed
<1>4. ASSUME NEW p \in {recovered, rebuilt}
      PROVE  /\ Keeps(entry, p) /\ p \in Entries /\ Parks(Unpinned(w), p)
             /\ p.claim = Release(entry.claim)
    BY <1>2, <1>3, RecoveredParks DEF Keeps, Sound
<1> HIDE DEF recovered, rebuilt
<1>5. Keeps(entry, damaged) /\ SameCustody(rebuilt, damaged)
    BY <1>3, <1>4, AlikeKept, FlagsMoved, PublishesAlike
<1> HIDE DEF damaged
<1>6. /\ Keeps(entry, done) /\ done \in Entries /\ Parks(Unpinned(w), done)
      /\ done.claim = Release(entry.claim)
    BY <1>4, <1>5, ParksAlike DEF Keeps, Sound
<1> HIDE DEF done
<1>7. Keeps(entry, s) /\ SameCustody(done, s)
    BY <1>6, AlikeKept, PublishAlike, PublishesAlike
<1> HIDE DEF s
<1>8. Parks(Unpinned(w), s) /\ s.claim = Release(entry.claim)
    BY <1>6, <1>7, ParksAlike
<1>9. EndsOver(w, s)
    BY <1>2, <1>8 DEF EndsOver, HandsOnDueDetach, HandsOver
<1> QED
    BY <1>2, <1>7, <1>8, <1>9, WorkedEnds

\* A reconcile that goes on to another turn of its own.
LEMMA BeginsAgain ==
    ASSUME Inv, Inv', Custody, NEW w \in Workers, At(w, "working"), Stands(w),
           KindOf(w) = "Reconcile", Keeps(entry, entry'), Parks(Unpinned(w), entry'),
           entry'.claim = entry.claim, Goes(w, "begun", FALSE),
           UNCHANGED <<queue, sends, reads>>
    PROVE  Custody'
<1> DEFINE r == thread[w]
           q == thread'[w]
           e == entry'
<1>1. /\ w \in Threads /\ Engaged(entry, r) /\ entry.claim.leg = LegFor(r)
      /\ Shape(w, r) /\ r.job \in Jobs /\ r.job.kind = "Reconcile"
      /\ r.followup = NoJob /\ r.next = NoJob
      /\ entry.claim.gate = "held" /\ r.job.epoch = entry.claim.epoch
    <2>1. r.pc # "idle" /\ r.job.epoch = entry.claim.epoch /\ r.job.kind = "Reconcile"
        BY DEF At, Stands, StandsAtEpoch, StandsAt, EpochOf, KindOf
    <2>2. w \in Threads /\ LegOf(w) = LegFor(r) /\ Shape(w, r) /\ r.job \in Jobs
        BY <2>1, WorkerIs
    <2>3. /\ Engaged(entry, r) /\ entry.claim.leg = LegOf(w)
          /\ r.followup = NoJob /\ r.next = NoJob /\ entry.claim.gate = "held"
        BY WorkingIs
    <2> QED
        BY <2>1, <2>2, <2>3
<1>2. /\ e.coverage = Parked /\ ~e.detach_in_flight /\ e.pinned_leg = NoLeg
      /\ e.pins = reads' /\ e.claim = entry.claim /\ InHandOf(e) /\ reads' \in Nat
    <2>1. Parted(w, entry') /\ InHandOf(entry') /\ entry'.coverage = Parked
        BY WorkedParted DEF Parks
    <2>2. reads' \in Nat
        BY DEF Inv, RestInv
    <2> QED
        BY <2>1, <2>2 DEF Parted
<1>3. /\ Unmoved(w) /\ SameWork(r, q)
      /\ q.pc = "begun" /\ q.held = FALSE /\ q.after = "idle"
    BY <1>1, GoesTo
<1> HIDE DEF r, q, e
<1>4. q.job = r.job /\ q.next = NoJob /\ q.followup = NoJob
    BY <1>1, <1>3 DEF SameWork
<1>5. Shape(w, q)
    BY <1>1, <1>3, <1>4, ThreadsAssumption DEF Shape
<1>6. LegsRun(q) /\ Registers(e, q) /\ e.claim.leg = LegFor(q)
    BY <1>1, <1>2, <1>3, <1>4 DEF LegsRun, Registers, LegFor, Jobs, JobKinds
<1>7. ~Holds(q) /\ ~Closes(q) /\ ~Carries(e, q) /\ ~Standing(e, q.next)
    BY <1>1, <1>3, <1>4 DEF Holds, Closes, Carries, Standing
<1>8. Fits(e, q.job.kind)
    BY <1>1, <1>2, <1>4 DEF Fits
<1>9. Stand(e, q)
    BY <1>1, <1>2, <1>3, <1>4, <1>6, <1>7, <1>8 DEF Stand, HoldsStand, Spent, LiveStand, CloseStand, CarryStand, Carries, NextStand
<1>10. Settled(e)
    BY <1>1, <1>2 DEF Settled, OutWithLeg, Parked, AccountedFor
<1>11. PinsCounted(e, reads') /\ Answers(e, q) /\ Running(e.claim)
    <2>1. LegFor(q) # NoLeg
        BY DEF LegFor, PollLeg, JobLeg, NoLeg
    <2> QED
        BY <1>2, <1>6, <2>1 DEF PinsCounted, Answers, OutWithLeg, Parked, Running
<1>12. Sole(w, e, q, reads')
    BY <1>5, <1>9, <1>10, <1>11 DEF Sole, HeldFor
<1>13. ~NewWork(e, q)
    BY <1>1, <1>2, <1>7 DEF NewWork
<1>14. entry.claim.epoch \in Nat
    BY SoundEpoch DEF Inv
<1> QED
    BY <1>1, <1>2, <1>3, <1>12, <1>13, <1>14, EngagedStep DEF r, q, e

LEMMA ReconcileSucceedsKeeps ==
    ASSUME Inv, Inv', Custody, NEW w \in Workers, ReconcileSucceeds(w) PROVE Custody'
<1>1. PICK observed \in Batches, saturated \in BOOLEAN, maintenanceDue \in BOOLEAN :
        LET s == Reconciled(w, observed)
            published == PublishReadyWhereNothingIsLeft(s, saturated) IN
        IF s.damage THEN HandsOnDamage(w, s)
           ELSE IF s.detach_due THEN HandsOnDueDetach(w, ReleaseGate(published))
           ELSE IF maintenanceDue /\ ~OwesARung(s) THEN HandsOnTo(w, published, "Maintenance")
           ELSE IF saturated THEN HandsOnTo(w, s, "Reconcile")
           ELSE IF s.pending = "none"
           THEN /\ entry' = ReleaseGate(IF OwesARung(s) THEN s ELSE SetTrust(s, "Ready"))
                /\ HandsOn(w, NoJob)
           ELSE entry' = s /\ Goes(w, "begun", FALSE)
    BY DEF ReconcileSucceeds
<1> DEFINE u == Unpinned(w)
           a == Merge(u, observed)
           b == Park(a, EpochOf(w))
           s == Reconciled(w, observed)
           published == PublishReadyWhereNothingIsLeft(s, saturated)
           gated == ReleaseGate(published)
           rested == IF OwesARung(s) THEN s ELSE SetTrust(s, "Ready")
           released == ReleaseGate(rested)
<1>2. /\ At(w, "working") /\ Stands(w) /\ KindOf(w) = "Reconcile"
      /\ UNCHANGED <<queue, sends, reads>>
    BY DEF ReconcileSucceeds, Channel, Client
<1>3. Keeps(entry, u) /\ EpochOf(w) \in 0..entry.claim.epoch /\ u \in Entries
      /\ u.claim = entry.claim
    BY <1>2, Facts, UnpinnedIs, ThreadFacts
<1>4. s = b \/ s = PublishPendingReconcile(b)
    BY DEF Reconciled
<1>5. \/ HandsOnDamage(w, s) \/ HandsOnDueDetach(w, gated)
      \/ HandsOnTo(w, published, "Maintenance") \/ HandsOnTo(w, s, "Reconcile")
      \/ entry' = released /\ HandsOn(w, NoJob)
      \/ entry' = s /\ Goes(w, "begun", FALSE)
    BY <1>1
<1> HIDE DEF u, s
<1>6. Keeps(entry, a) /\ SameCustody(u, a)
    <2>1. SameCustody(u, a)
        BY <1>3 DEF Merge, SameCustody, Entries
    <2> QED
        BY <1>3, <2>1, AlikeKept, FactsAlike
<1>7. Keeps(entry, b) /\ Parks(u, b) /\ b.claim = u.claim
    <2>1. Parks(u, b)
        BY <1>3, WorkedParks
    <2>2. b.claim = a.claim
        BY <1>6 DEF Park, Entries, Keeps, Sound
    <2> HIDE DEF a
    <2>3. Keeps(entry, b)
        BY <1>3, <1>6, Facts, ParkKeeps, SoundSteps DEF Keeps, SlotKept
    <2> QED
        BY <1>6, <2>1, <2>2, <2>3 DEF SameCustody
<1> HIDE DEF a, b
<1>8. Keeps(entry, s) /\ Parks(u, s) /\ s.claim = entry.claim
    <2>1. s = PublishPendingReconcile(b) => Keeps(entry, s) /\ SameCustody(b, s)
        BY <1>7, PublishKeeps, PublishesAlike DEF Keeps, Sound
    <2> QED
        BY <1>3, <1>4, <1>7, <2>1, ParksAlike
<1>9. ASSUME NEW p \in {s, published, rested}
      PROVE  /\ Keeps(entry, p) /\ Parks(u, p) /\ p.claim = entry.claim
    <2>1. p \in {s, PublishReadyWhereNothingIsLeft(s, saturated), SetTrust(s, "Ready")}
        OBVIOUS
    <2>2. Keeps(entry, p) /\ SameCustody(s, p)
        BY <1>8, <2>1, PublishedAlike
    <2> QED
        BY <1>8, <2>2, ParksAlike
<1>10. ASSUME NEW p, Keeps(entry, p), Parks(u, p), p.claim = entry.claim
       PROVE  /\ Keeps(entry, ReleaseGate(p)) /\ Parks(u, ReleaseGate(p))
              /\ ReleaseGate(p).claim = Release(entry.claim)
    <2>1. Keeps(entry, ReleaseGate(p))
        BY <1>10, Facts, GateKeeps, SoundSteps DEF Keeps
    <2>2. p \in Entries
        BY <1>10 DEF Keeps, Sound
    <2> QED
        BY <1>3, <1>10, <2>1, <2>2 DEF ReleaseGate, Parks, Entries
<1> HIDE DEF published, rested
<1>11. /\ Keeps(entry, gated) /\ Parks(u, gated) /\ gated.claim = Release(entry.claim)
       /\ Keeps(entry, released) /\ Parks(u, released) /\ released.claim = Release(entry.claim)
    BY <1>9, <1>10
<1> HIDE DEF gated, released
<1>12. CASE entry' = s /\ Goes(w, "begun", FALSE)
    BY <1>2, <1>8, <1>12, BeginsAgain DEF u
<1>13. CASE ~(entry' = s /\ Goes(w, "begun", FALSE))
    <2>1. EndsOver(w, s) \/ EndsOver(w, gated) \/ EndsOver(w, published) \/ EndsOver(w, released)
        BY <1>5, <1>11, <1>13 DEF EndsOver, HandsOnDueDetach, HandsOver
    <2> QED
        BY <1>2, <1>8, <1>9, <1>11, <2>1, WorkedEnds DEF u
<1> QED
    BY <1>12, <1>13

LEMMA MaintenanceSucceedsKeeps ==
    ASSUME Inv, Inv', Custody, NEW w \in Workers, MaintenanceSucceeds(w) PROVE Custody'
<1>1. PICK observed \in Batches, saturated \in BOOLEAN, stillDue \in BOOLEAN :
        LET s == PublishReadyWhereNothingIsLeft(
                     ReleaseGate(Park(Merge(Unpinned(w), observed), EpochOf(w))), saturated) IN
        IF s.damage THEN HandsOnDamage(w, s)
           ELSE IF s.detach_due THEN HandsOnDueDetach(w, s)
           ELSE IF s.pending # "none" THEN HandsOnTo(w, PublishPendingReconcile(s), "Reconcile")
           ELSE IF stillDue /\ ~OwesARung(s)
           THEN /\ entry' = ScheduleJob(s, "Maintenance")
                /\ HandsOn(w, HandedOn(s.claim, "Maintenance"))
           ELSE entry' = s /\ HandsOn(w, NoJob)
    BY DEF MaintenanceSucceeds
<1> DEFINE u == Unpinned(w)
           a == Merge(u, observed)
           b == Park(a, EpochOf(w))
           c == ReleaseGate(b)
           s == PublishReadyWhereNothingIsLeft(c, saturated)
           p == PublishPendingReconcile(s)
<1>2. /\ At(w, "working") /\ Stands(w) /\ KindOf(w) # "Attach"
      /\ UNCHANGED <<queue, sends, reads>>
    BY DEF MaintenanceSucceeds, Channel, Client
<1>3. Keeps(entry, u) /\ EpochOf(w) \in 0..entry.claim.epoch /\ u \in Entries
      /\ u.claim = entry.claim
    BY <1>2, Facts, UnpinnedIs, ThreadFacts
<1>4. \/ HandsOnDamage(w, s) \/ HandsOnDueDetach(w, s)
      \/ HandsOnTo(w, p, "Reconcile")
      \/ entry' = ScheduleJob(s, "Maintenance") /\ HandsOn(w, HandedOn(s.claim, "Maintenance"))
      \/ entry' = s /\ HandsOn(w, NoJob)
    BY <1>1
<1> HIDE DEF u
<1>5. Parks(u, c) /\ c.claim = Release(u.claim)
    BY <1>3, WorkedParks
<1>6. Keeps(entry, a)
    BY <1>3, AlikeKept, FactsAlike
<1> HIDE DEF a
<1>7. Keeps(entry, b)
    BY <1>3, <1>6, Facts, ParkKeeps, SoundSteps DEF Keeps, SlotKept
<1> HIDE DEF b
<1>8. Keeps(entry, c)
    BY <1>7, Facts, GateKeeps, SoundSteps DEF Keeps
<1> HIDE DEF c
<1>9. Keeps(entry, s) /\ Parks(u, s) /\ s.claim = Release(entry.claim)
    <2>1. Keeps(entry, s) /\ SameCustody(c, s)
        BY <1>8, PublishedAlike
    <2> QED
        BY <1>3, <1>5, <2>1, ParksAlike
<1> HIDE DEF s
<1>10. Keeps(entry, p) /\ Parks(u, p)
    <2>1. Keeps(entry, p) /\ SameCustody(s, p)
        BY <1>9, PublishedAlike
    <2> QED
        BY <1>9, <2>1, ParksAlike
<1> HIDE DEF p
<1>11. EndsOver(w, s) \/ EndsOver(w, p)
    BY <1>4, <1>9 DEF EndsOver, HandsOnDueDetach, HandsOver
<1> QED
    BY <1>2, <1>9, <1>10, <1>11, WorkedEnds DEF u

----------------------------------------------------------------------------
(* A leg that is over                                                      *)

\* A leg over its work, with or without its attachment in hand.
Ends(t, r, q) ==
    /\ r.pc \in {"begun", "working", "polling", "stale", "refusing", "ending"}
    /\ SameWork(r, q) /\ q.after = "idle" /\ q.pc \in {"ending", "closing", "stale"}
    /\ t \in Workers => q.pc \in {"ending", "closing"}
    /\ t = Dispatcher => q.pc \in {"closing", "stale"} /\ q.held
    /\ q.held => r.job.kind # "Detach"

LEMMA EndsShape ==
    ASSUME NEW t \in Threads, NEW r, NEW q, Shape(t, r), Ends(t, r, q)
    PROVE  /\ Shape(t, q) /\ LegFor(q) = LegFor(r) /\ LegsRun(q) /\ LegsRun(r)
           /\ q.next = NoJob /\ q.followup = NoJob /\ q.job = r.job
<1>1. r.next = NoJob /\ r.followup = NoJob /\ t # Registrar
    BY DEF Shape, Ends
<1>2. /\ q.next = NoJob /\ q.followup = NoJob /\ q.job = r.job /\ q.after = "idle"
      /\ q.pc \in {"ending", "closing", "stale"}
    BY <1>1 DEF Ends, SameWork
<1>3. t \in Workers \/ t = Dispatcher
    BY <1>1 DEF Threads
<1>4. CASE t \in Workers
    <2>1. /\ t # Dispatcher /\ q.pc \in {"ending", "closing"} /\ r.job \in Jobs
          /\ q.held => r.job.kind # "Detach"
        BY <1>1, <1>4, ThreadsAssumption DEF Shape, Ends
    <2> QED
        BY <1>1, <1>2, <1>4, <2>1 DEF Shape, LegFor, LegsRun, Ends
<1>5. CASE t = Dispatcher
    <2>1. t \notin Workers /\ q.pc \in {"closing", "stale"} /\ q.held /\ r.pc \in {"polling", "stale"}
        BY <1>5, ThreadsAssumption DEF Shape, Ends
    <2>2. r.job.kind = "Poll"
        BY <2>1 DEF Shape
    <2> QED
        BY <1>1, <1>2, <1>5, <2>1, <2>2 DEF Shape, LegFor, LegsRun, Ends
<1> QED
    BY <1>3, <1>4, <1>5

\* What an attachment in hand says of the entry it came from.
HeldStands(e, q) ==
    q.held =>
        /\ e.claim.gate = "held" \/ e.detach_in_flight
        /\ q.job.kind = "Attach" => e.coverage = NoCoverage /\ ~e.reader
        /\ q.job.kind # "Attach" =>
               /\ e.coverage = OnLeg(q.job.epoch)
               /\ ~e.detach_in_flight => q.job.epoch # e.claim.epoch

LEMMA OverSole ==
    ASSUME NEW t \in Threads, NEW e, NEW q, NEW n,
           Shape(t, q), q.pc \in {"ending", "closing", "stale"}, q.job.kind # "none",
           e.claim.leg = LegFor(q), Settled(e), PinsCounted(e, n), HeldStands(e, q),
           OutWithLeg(e.coverage) => q.held /\ q.job.kind # "Attach",
           e.pinned_leg = NoLeg, q.job.epoch = e.claim.epoch => e.claim.gate # "held"
    PROVE  Sole(t, e, q, n) /\ (NewWork(e, q) => e.claim.gate = "scheduled")
<1>1. LegsRun(q) /\ Registers(e, q) /\ ~Closes(q) /\ ~Carries(e, q) /\ ~Live(e, q)
      /\ ~Standing(e, q.next) /\ ~Standing(e, q.followup) /\ q.next = NoJob
    BY DEF LegsRun, Registers, Closes, Carries, Live, Standing, Shape
<1>2. q.held => q.job.kind # "Detach"
    BY DEF Shape
<1>3. HoldsStand(e, q)
    BY <1>1 DEF HoldsStand, Spent, Holds, HeldStands, Shape
<1>4. /\ LiveStand(e, q) /\ NextStand(e, q) /\ CarryStand(e, q) /\ CloseStand(e, q)
      /\ Spent(e, q)
    BY <1>1 DEF Spent, LiveStand, NextStand, CarryStand, CloseStand
<1>5. OutWithLeg(e.coverage) => Custodian(e, q)
    BY <1>1, <1>2 DEF Custodian, Holds, HeldStands, OnLeg
<1>6. LegFor(q) # NoLeg
    BY DEF LegFor, PollLeg, JobLeg, NoLeg
<1>7. Answers(e, q) /\ HeldFor(e, q)
    BY <1>1, <1>5, <1>6 DEF Answers, HeldFor, Running
<1> QED
    BY <1>1, <1>3, <1>4, <1>7 DEF Sole, Stand, NewWork

LEMMA LegGoesOver ==
    ASSUME Inv, Inv', Custody, NEW t \in Threads, Registers(entry, thread[t]), Unmoved(t),
           Ends(t, thread[t], thread'[t]),
           entry.claim.epoch' >= entry.claim.epoch, entry.claim.leg' = entry.claim.leg,
           entry.claim.gate' = "scheduled" => entry.claim.gate = "scheduled",
           Settled(entry'), PinsCounted(entry', reads'), HeldStands(entry', thread'[t]),
           OutWithLeg(entry'.coverage) => thread'[t].held /\ thread'[t].job.kind # "Attach",
           entry'.pinned_leg = NoLeg,
           thread[t].job.epoch = entry.claim.epoch' => entry.claim.gate' # "held",
           UNCHANGED <<queue, sends>>
    PROVE  Custody'
<1> DEFINE r == thread[t]
           q == thread'[t]
<1>1. Shape(t, r) /\ Engaged(entry, r)
    BY DEF Custody, ThreadsStand, Engaged
<1>2. /\ Shape(t, q) /\ LegFor(q) = LegFor(r) /\ LegsRun(q) /\ LegsRun(r) /\ q.job = r.job
      /\ q.pc \in {"ending", "closing", "stale"}
    BY <1>1, EndsShape DEF Ends
<1>3. entry'.claim.leg = LegFor(q) /\ q.job.kind # "none"
    BY <1>2 DEF Registers
<1>4. Sole(t, entry', q, reads') /\ (NewWork(entry', q) => entry'.claim.gate = "scheduled")
    BY <1>2, <1>3, OverSole
<1>5. /\ r.job.epoch \in Nat /\ r.job.epoch <= entry.claim.epoch /\ entry.claim.epoch \in Nat
      /\ entry.claim.epoch' \in Nat
    BY ThreadNums, SoundEpoch DEF Inv
<1>6. ASSUME NewWork(entry', q) PROVE NewWork(entry, r) /\ q.job.epoch # entry'.claim.epoch
    <2>1. entry.claim.gate = "scheduled" /\ NewWork(entry, r)
        BY <1>4, <1>6 DEF NewWork
    <2>2. r.job.epoch # entry.claim.epoch
        BY <1>2, <2>1 DEF Custody, Unused
    <2> QED
        BY <1>2, <1>5, <2>1, <2>2
<1> QED
    BY <1>1, <1>4, <1>6, EngagedStep

LEMMA AttachingIs ==
    ASSUME Inv, Custody, NEW w \in Workers, KindOf(w) = "Attach", At(w, "begun") \/ At(w, "working")
    PROVE  LET r == thread[w] IN
           /\ w \in Threads /\ Shape(w, r) /\ Registers(entry, r) /\ Engaged(entry, r)
           /\ entry.claim.leg = LegFor(r)
           /\ r.job.kind = "Attach" /\ r.pc \in {"begun", "working"} /\ w # Dispatcher
           /\ entry.claim.gate = "held" \/ entry.detach_in_flight
           /\ Stands(w) => entry.claim.gate = "held" /\ ~entry.detach_in_flight
           /\ entry.coverage = NoCoverage /\ ~entry.reader /\ entry.pinned_leg = NoLeg
           /\ entry.pins = reads /\ reads \in Nat /\ entry \in Entries /\ Settled(entry)
           /\ entry.claim \in Claims
<1> DEFINE r == thread[w]
<1>1. /\ r.pc \in {"begun", "working"} /\ r.job.kind = "Attach" /\ Holds(r) /\ LegsRun(r)
      /\ r.pc # "idle"
    BY DEF At, KindOf, Holds, LegsRun
<1>2. w \in Threads /\ Shape(w, r) /\ Stand(entry, r) /\ w # Dispatcher
    BY <1>1, WorkerIs
<1>3. /\ Registers(entry, r) /\ Engaged(entry, r) /\ entry.claim.leg = LegFor(r)
      /\ entry.claim.gate = "held" \/ entry.detach_in_flight
      /\ entry.coverage = NoCoverage /\ ~entry.reader
    BY <1>1, <1>2 DEF Stand, HoldsStand, Spent, Engaged, Registers
<1>4. Stands(w) => entry.claim.gate = "held" /\ ~entry.detach_in_flight
    BY <1>1, <1>2 DEF Stand, LiveStand, Live, Stands, StandsAtEpoch, StandsAt, EpochOf
<1>5. PinsCounted(entry, reads) /\ Settled(entry) /\ reads \in Nat /\ entry \in Entries
      /\ entry.claim \in Claims
    BY Facts, EntryTyped DEF Custody, Inv, RestInv
<1>6. entry.pinned_leg = NoLeg
    BY <1>3, <1>5 DEF Settled, NoCoverage, OnLeg
<1> QED
    BY <1>1, <1>2, <1>3, <1>4, <1>5, <1>6 DEF PinsCounted

\* What the opening of a window leaves of s.
LEMMA BeginReleaseFields ==
    ASSUME NEW s \in Entries
    PROVE  LET e == BeginRelease(s) IN
           /\ ClaimIs(e.claim, s.claim.epoch, "open", NoJob, s.claim.leg, s.claim.slot)
           /\ e.detach_in_flight /\ ~e.reader /\ e.coverage = s.coverage
           /\ e.pins = s.pins /\ e.pinned_leg = s.pinned_leg
           /\ e.trust = "Releasing"
<1>1. LET e == BeginRelease(s) IN
      /\ e.claim = OpenGate(s.claim)
      /\ e.detach_in_flight /\ e.reader = FALSE /\ e.coverage = s.coverage
      /\ e.pins = s.pins /\ e.pinned_leg = s.pinned_leg
      /\ e.trust = "Releasing"
    BY DEF BeginRelease, SetTrust, CloseReader, OpenClaim, Entries
<1> QED
    BY <1>1, GateFields, EntryTyped

LEMMA AttachOverKeeps ==
    ASSUME Inv, Inv', Custody, NEW w \in Workers, AttachMoved(w) \/ AttachStale(w) PROVE Custody'
<1> DEFINE r == thread[w]
           q == thread'[w]
           e == entry'
<1>1. /\ At(w, "working") /\ KindOf(w) = "Attach" /\ UNCHANGED <<queue, sends, reads>>
      /\ \E built \in BOOLEAN : Goes(w, "ending", built)
      /\ entry' = entry \/ (Stands(w) /\ entry' = BeginRelease(entry))
    BY DEF AttachMoved, AttachStale, Channel, Client
<1>2. AttachMoved(w) => (Stands(w) => entry' = BeginRelease(entry))
    BY DEF AttachMoved
<1>3. PICK built \in BOOLEAN : Goes(w, "ending", built)
    BY <1>1
<1>4. /\ w \in Threads /\ Registers(entry, r) /\ entry.claim.leg = LegFor(r)
      /\ r.job.kind = "Attach" /\ r.pc \in {"begun", "working"} /\ w # Dispatcher
      /\ entry.claim.gate = "held" \/ entry.detach_in_flight
      /\ Stands(w) => entry.claim.gate = "held" /\ ~entry.detach_in_flight
      /\ entry.coverage = NoCoverage /\ ~entry.reader /\ entry.pinned_leg = NoLeg
      /\ entry.pins = reads /\ reads \in Nat /\ entry \in Entries /\ Settled(entry)
    BY <1>1, AttachingIs
<1>5. /\ Unmoved(w) /\ SameWork(r, q) /\ q.pc = "ending" /\ q.after = "idle" /\ q.held = built
    BY <1>3, <1>4, GoesTo
<1>6. /\ e.claim.epoch = entry.claim.epoch /\ e.claim.leg = entry.claim.leg
      /\ e.claim.gate = "scheduled" => entry.claim.gate = "scheduled"
      /\ e.claim.gate = "held" \/ e.detach_in_flight
      /\ e.coverage = NoCoverage /\ ~e.reader /\ e.pinned_leg = NoLeg /\ e.pins = reads
      /\ entry' # entry => e.claim.gate = "open"
    <2>1. CASE entry' = entry
        BY <1>4, <2>1
    <2>2. CASE Stands(w) /\ entry' = BeginRelease(entry)
        BY <1>4, <2>2, BeginReleaseFields DEF ClaimIs
    <2> QED
        BY <1>1, <2>1, <2>2
<1>7. Settled(entry')
    <2>1. CASE entry' = entry
        BY <1>4, <2>1
    <2>2. CASE entry' # entry
        BY <1>6, <2>2 DEF Settled, InHandOf, InHand, NoCoverage, OutWithLeg
    <2> QED
        BY <2>1, <2>2
<1> HIDE DEF r, q, e
<1>8. Ends(w, r, q)
    BY <1>4, <1>5 DEF Ends
<1>9. HeldStands(entry', q) /\ ~OutWithLeg(entry'.coverage) /\ PinsCounted(entry', reads')
    BY <1>1, <1>4, <1>5, <1>6 DEF HeldStands, SameWork, OutWithLeg, NoCoverage, PinsCounted, e
<1>10. entry.claim.epoch \in Nat
    BY SoundEpoch DEF Inv
<1>11. r.job.epoch = e.claim.epoch => e.claim.gate # "held"
    <2>1. Stands(w) => entry' = BeginRelease(entry)
        BY <1>2 DEF AttachMoved, AttachStale
    <2>2. Stands(w) => e.claim.gate = "open"
        BY <2>1, <1>4, BeginReleaseFields DEF ClaimIs, e
    <2> QED
        BY <2>2, <1>6 DEF Stands, StandsAtEpoch, StandsAt, EpochOf, r
<1> QED
    BY <1>1, <1>4, <1>5, <1>6, <1>7, <1>8, <1>9, <1>10, <1>11, LegGoesOver DEF r, q, e

LEMMA AttachRefusedKeeps ==
    ASSUME Inv, Inv', Custody, NEW w \in Workers, AttachRefused(w) PROVE Custody'
<1> DEFINE r == thread[w]
           q == thread'[w]
           e == entry'
<1>1. /\ At(w, "begun") \/ At(w, "working")
      /\ KindOf(w) = "Attach" /\ UNCHANGED <<queue, sends, reads>>
      /\ Goes(w, "ending", FALSE)
      /\ \/ entry' = entry
         \/ Stands(w) /\ \/ entry' = ParkIdentityRefusal(ReleaseGate(entry))
                         \/ entry' = ParkIdentityRefusal([ReleaseGate(entry) EXCEPT !.damage = FALSE])
    BY DEF AttachRefused, Channel, Client
<1>2. /\ w \in Threads /\ Registers(entry, r) /\ entry.claim.leg = LegFor(r)
      /\ r.job.kind = "Attach" /\ r.pc \in {"begun", "working"} /\ w # Dispatcher
      /\ Stands(w) => entry.claim.gate = "held" /\ ~entry.detach_in_flight
      /\ entry.coverage = NoCoverage /\ ~entry.reader /\ entry.pinned_leg = NoLeg
      /\ entry.pins = reads /\ reads \in Nat /\ entry \in Entries /\ Settled(entry)
      /\ entry.claim \in Claims
    BY <1>1, AttachingIs
<1>3. /\ Unmoved(w) /\ SameWork(r, q) /\ q.pc = "ending" /\ q.after = "idle" /\ q.held = FALSE
    BY <1>1, <1>2, GoesTo
<1>4. /\ e.claim.epoch = entry.claim.epoch /\ e.claim.leg = entry.claim.leg
      /\ e.claim.gate = "scheduled" => entry.claim.gate = "scheduled"
      /\ e.coverage = NoCoverage /\ ~e.reader /\ e.pinned_leg = NoLeg /\ e.pins = reads
      /\ entry' # entry => e.claim.gate = "open" /\ ~e.detach_in_flight
    <2>1. CASE entry' = entry
        BY <1>2, <2>1
    <2>2. CASE /\ Stands(w)
               /\ \/ entry' = ParkIdentityRefusal(ReleaseGate(entry))
                  \/ entry' = ParkIdentityRefusal([ReleaseGate(entry) EXCEPT !.damage = FALSE])
        <3>1. /\ e.claim = Release(entry.claim) /\ e.coverage = entry.coverage
              /\ e.reader = entry.reader /\ e.pinned_leg = entry.pinned_leg
              /\ e.pins = entry.pins /\ e.detach_in_flight = entry.detach_in_flight
            BY <1>2, <2>2 DEF ParkIdentityRefusal, SetTrust, ReleaseGate, Entries
        <3> QED
            BY <1>2, <2>2, <3>1, GateFields DEF ClaimIs
    <2> QED
        BY <1>1, <2>1, <2>2
<1>5. Settled(entry')
    <2>1. CASE entry' = entry
        BY <1>2, <2>1
    <2>2. CASE entry' # entry
        BY <1>4, <2>2 DEF Settled, InHandOf, InHand, NoCoverage, OutWithLeg
    <2> QED
        BY <2>1, <2>2
<1> HIDE DEF r, q, e
<1>6. Ends(w, r, q)
    BY <1>2, <1>3 DEF Ends
<1>7. HeldStands(entry', q) /\ ~OutWithLeg(entry'.coverage) /\ PinsCounted(entry', reads')
    BY <1>1, <1>2, <1>3, <1>4 DEF HeldStands, OutWithLeg, NoCoverage, PinsCounted, e
<1>8. entry.claim.epoch \in Nat
    BY SoundEpoch DEF Inv
<1>9. r.job.epoch = e.claim.epoch => e.claim.gate # "held"
    <2>1. Stands(w) => \/ entry' = ParkIdentityRefusal(ReleaseGate(entry))
                       \/ entry' = ParkIdentityRefusal([ReleaseGate(entry) EXCEPT !.damage = FALSE])
        BY DEF AttachRefused
    <2>2. Stands(w) => entry'.claim = Release(entry.claim)
        BY <1>2, <2>1 DEF ParkIdentityRefusal, SetTrust, ReleaseGate, Entries
    <2>3. Stands(w) => e.claim.gate # "held"
        BY <1>2, <2>2, GateFields DEF ClaimIs, e
    <2> QED
        BY <2>3, <1>4 DEF Stands, StandsAtEpoch, StandsAt, EpochOf, r
<1> QED
    BY <1>1, <1>2, <1>3, <1>4, <1>5, <1>6, <1>7, <1>8, <1>9, LegGoesOver DEF r, q, e

LEMMA BeginAttachKeeps ==
    ASSUME Inv, Inv', Custody, NEW w \in Workers, BeginAttach(w) PROVE Custody'
<1> DEFINE r == thread[w]
           q == thread'[w]
<1>1. /\ At(w, "begun") /\ KindOf(w) = "Attach" /\ UNCHANGED <<queue, sends, reads, entry>>
      /\ Goes(w, "working", TRUE)
    BY DEF BeginAttach, Channel, Client
<1>2. /\ w \in Threads /\ Shape(w, r) /\ Registers(entry, r) /\ Engaged(entry, r)
      /\ r.job.kind = "Attach" /\ r.pc = "begun"
    BY <1>1, AttachingIs DEF At
<1>3. /\ Unmoved(w) /\ SameWork(r, q) /\ q.pc = "working" /\ q.after = "idle" /\ q.held = TRUE
    BY <1>1, <1>2, GoesTo
<1>4. Sole(w, entry, r, reads)
    BY <1>2, EngagedAlone
<1> HIDE DEF r, q
<1>5. q.job = r.job /\ q.next = NoJob /\ q.followup = NoJob /\ w \in Workers
    BY <1>2, <1>3 DEF SameWork, Shape
<1>6. Shape(w, q)
    BY <1>2, <1>3, <1>5, ThreadsAssumption DEF Shape
<1>7. LegFor(q) = LegFor(r) /\ LegsRun(q) /\ Registers(entry, q) /\ Holds(r) /\ Holds(q)
    BY <1>2, <1>3, <1>5 DEF LegFor, LegsRun, Registers, Holds
<1>8. ~Closes(q) /\ ~Closes(r) /\ ~Carries(entry, q) /\ ~Carries(entry, r) /\ ~Standing(entry, q.next)
    BY <1>2, <1>3, <1>5 DEF Closes, Carries, Standing, Shape
<1>9. Live(entry, q) <=> Live(entry, r)
    BY <1>2, <1>3, <1>5 DEF Live
<1>10. Stand(entry, q)
    <2>1. HoldsStand(entry, q)
        BY <1>2, <1>3, <1>4, <1>5, <1>7 DEF Sole, Stand, HoldsStand, Spent
    <2>2. LiveStand(entry, q)
        BY <1>3, <1>4, <1>7, <1>9 DEF Sole, Stand, LiveStand
    <2>3. NextStand(entry, q) /\ CarryStand(entry, q) /\ CloseStand(entry, q) /\ Spent(entry, q)
        BY <1>3, <1>4, <1>5, <1>8 DEF Spent, NextStand, CarryStand, CloseStand, Carries
    <2> QED
        BY <2>1, <2>2, <2>3 DEF Stand
<1>11. Answers(entry, q)
    BY <1>2, <1>3, <1>4, <1>5, <1>7, <1>8 DEF Sole, Answers, Custodian
<1>12. Sole(w, entry, q, reads)
    BY <1>4, <1>6, <1>8, <1>10, <1>11 DEF Sole, HeldFor
<1>13. entry.claim.gate # "scheduled"
    BY <1>2, <1>4, <1>7 DEF Sole, Stand, HoldsStand, Spent, Settled
<1>14. ~NewWork(entry, q) /\ entry.claim.epoch \in Nat
    BY <1>8, <1>13, SoundEpoch DEF NewWork, Inv
<1> QED
    BY <1>1, <1>2, <1>3, <1>12, <1>14, EngagedStep DEF r, q

----------------------------------------------------------------------------
(* A release opened, or taken over, by the leg it is of                    *)

\* The thread of a registered leg goes to release what the leg had.
Releases(t, r, q) ==
    /\ r.pc \in {"begun", "working", "polling", "stale", "ending", "closing"}
    /\ q.pc = "releasing" /\ q.job = r.job /\ q.next = r.next /\ q.followup = r.followup
    /\ q.rel = r.job.epoch
    /\ q.after \in {"idle", "ending"} /\ (t = Dispatcher => q.after = "idle")

LEMMA ReleasesKeeps ==
    ASSUME Inv, Inv', Custody, NEW t \in Threads, Registers(entry, thread[t]), Unmoved(t),
           Releases(t, thread[t], thread'[t]),
           entry.claim.epoch' >= entry.claim.epoch, entry.claim.leg' \in {entry.claim.leg, NoLeg},
           entry'.claim.gate = "open", entry'.detach_in_flight, ~entry'.reader,
           entry'.pinned_leg = NoLeg, PinsCounted(entry', reads'),
           \/ entry'.coverage = OnLeg(thread[t].job.epoch)
           \/ entry'.coverage = NoCoverage /\ (thread'[t].held => thread[t].job.kind = "Attach"),
           UNCHANGED <<queue, sends>>
    PROVE  Custody'
<1> DEFINE r == thread[t]
           q == thread'[t]
           e == entry'
<1>1. /\ Shape(t, r) /\ Engaged(entry, r) /\ LegsRun(r) /\ entry.claim.leg = LegFor(r)
      /\ r.job.kind # "none"
    BY DEF Custody, ThreadsStand, Engaged, Registers
<1>2. /\ e.claim.leg \in {LegFor(r), NoLeg} /\ e.claim.gate = "open" /\ e.detach_in_flight
      /\ ~e.reader /\ e.pinned_leg = NoLeg
      /\ \/ e.coverage = OnLeg(r.job.epoch)
         \/ e.coverage = NoCoverage /\ (q.held => r.job.kind = "Attach")
    BY <1>1
<1>3. Releases(t, r, q)
    OBVIOUS
<1>4. ~NewWork(e, q)
    <2>1. r.next = NoJob /\ r.followup = NoJob
        BY <1>1, <1>3 DEF Shape, Releases
    <2> QED
        BY <1>2, <1>3, <2>1 DEF NewWork, Carries, Standing, Releases
<1> HIDE DEF r, q, e
<1>5. /\ r.next = NoJob /\ r.followup = NoJob /\ t # Registrar
      /\ q.next = NoJob /\ q.followup = NoJob /\ q.job = r.job /\ q.pc = "releasing"
      /\ q.rel = r.job.epoch /\ (t \in Workers \/ t = Dispatcher)
    BY <1>1, <1>3 DEF Shape, Releases, Threads
<1>6. Shape(t, q)
    <2>1. CASE t \in Workers
        <3>1. t # Dispatcher /\ r.job \in Jobs
            BY <1>1, <1>3, <2>1, ThreadsAssumption DEF Shape, Releases
        <3> QED
            BY <1>3, <1>5, <2>1, <3>1 DEF Shape, Releases
    <2>2. CASE t = Dispatcher
        <3>1. t \notin Workers /\ r.job.kind \in {"none", "Poll"} /\ q.after = "idle"
            BY <1>1, <1>3, <2>2, ThreadsAssumption DEF Shape, Releases
        <3> QED
            BY <1>5, <2>2, <3>1 DEF Shape
    <2> QED
        BY <1>5, <2>1, <2>2
<1>7. LegFor(q) = LegFor(r) /\ LegsRun(q) /\ (e.claim.leg # NoLeg => Registers(e, q)) /\ Closes(q)
    BY <1>1, <1>2, <1>5 DEF LegFor, LegsRun, Registers, Closes
<1>8. ~Holds(q) /\ ~Live(e, q) /\ ~Carries(e, q) /\ ~Standing(e, q.next) /\ ~Standing(e, q.followup)
    BY <1>5 DEF Holds, Live, Carries, Standing
<1>9. CloseStand(e, q)
    BY <1>2, <1>5, <1>7 DEF CloseStand
<1>10. Stand(e, q)
    BY <1>5, <1>8, <1>9 DEF Stand, HoldsStand, Spent, LiveStand, NextStand, CarryStand
<1>11. ~InHandOf(e) /\ (OutWithLeg(e.coverage) => e.coverage.leg = q.rel)
       /\ (e.coverage \in {NoCoverage, Parked} \/ OutWithLeg(e.coverage))
    BY <1>2, <1>5 DEF InHandOf, InHand, NoCoverage, OnLeg, OutWithLeg
<1>12. Settled(e)
    BY <1>2, <1>11 DEF Settled
<1>13. Answers(e, q) /\ HeldFor(e, q)
    BY <1>2, <1>7, <1>11 DEF Answers, Custodian, HeldFor, Running
<1>14. Sole(t, e, q, reads')
    BY <1>6, <1>10, <1>12, <1>13 DEF Sole, e
<1> QED
    BY <1>1, <1>4, <1>14, EngagedStep DEF r, q, e

\* A leg that works on coverage it took.
LEMMA TakenIs ==
    ASSUME Inv, Custody, NEW w \in Workers, At(w, "working"), KindOf(w) # "Attach"
    PROVE  LET r == thread[w]
               u == Unpinned(w) IN
           /\ w \in Threads /\ Registers(entry, r) /\ entry.claim.leg = LegFor(r)
           /\ r.pc = "working" /\ r.job.kind \notin {"Attach", "Detach"} /\ w # Dispatcher
           /\ r.next = NoJob /\ r.followup = NoJob /\ EpochOf(w) = r.job.epoch
           /\ entry.claim.gate = "held" \/ entry.detach_in_flight
           /\ Stands(w) => entry.claim.gate = "held" /\ ~entry.detach_in_flight
           /\ Settled(entry) /\ entry.coverage = OnLeg(r.job.epoch)
           /\ u \in Entries /\ u.claim = entry.claim /\ u.coverage = entry.coverage
           /\ u.reader = entry.reader /\ u.detach_in_flight = entry.detach_in_flight
           /\ u.detach_scheduled = entry.detach_scheduled /\ u.leases = entry.leases
           /\ u.pins = reads /\ u.pinned_leg = NoLeg /\ reads \in Nat
<1> DEFINE r == thread[w]
<1>1. r.pc = "working" /\ r.pc # "idle" /\ r.job.kind # "Attach"
    BY DEF At, KindOf
<1>2. w \in Threads /\ w # Dispatcher /\ Shape(w, r) /\ EpochOf(w) = r.job.epoch /\ LegFor(r) = LegOf(w)
    BY <1>1, WorkerIs
<1>3. /\ LegsRun(r) /\ entry.claim.leg = LegOf(w)
      /\ entry.claim.gate = "held" \/ entry.detach_in_flight
      /\ Stands(w) => entry.claim.gate = "held" /\ ~entry.detach_in_flight
      /\ r.next = NoJob /\ r.followup = NoJob
      /\ entry.coverage = OnLeg(EpochOf(w))
    BY WorkingIs
<1>4. r.job.kind \notin {"Detach", "none"}
    BY <1>1, <1>2, WorkerIs DEF Shape, Jobs, JobKinds
<1>5. Settled(entry) /\ reads \in Nat
    BY DEF Custody, Inv, RestInv
<1> QED
    BY <1>1, <1>2, <1>3, <1>4, <1>5, UnpinnedIs DEF Registers

LEMMA RebuildFailsKeeps ==
    ASSUME Inv, Inv', Custody, NEW w \in Workers, RebuildFails(w) PROVE Custody'
<1> DEFINE r == thread[w]
           q == thread'[w]
           u == Unpinned(w)
<1>1. /\ At(w, "working") /\ KindOf(w) # "Attach" /\ UNCHANGED <<queue, sends, reads>>
      /\ entry' = BeginRelease(u)
    BY DEF RebuildFails, Channel, Client
<1>2. PICK kept \in BOOLEAN : GoesReleasing(w, kept, EpochOf(w), "ending")
    BY DEF RebuildFails
<1>3. /\ w \in Threads /\ Registers(entry, r) /\ entry.claim.leg = LegFor(r)
      /\ r.pc = "working" /\ w # Dispatcher /\ EpochOf(w) = r.job.epoch
      /\ entry.coverage = OnLeg(r.job.epoch)
      /\ u \in Entries /\ u.claim = entry.claim /\ u.coverage = entry.coverage
      /\ u.pins = reads /\ u.pinned_leg = NoLeg /\ reads \in Nat
    BY <1>1, TakenIs
<1> HIDE DEF u
<1>4. /\ entry'.claim.epoch = entry.claim.epoch /\ entry'.claim.leg = entry.claim.leg
      /\ entry'.claim.gate = "open" /\ entry'.detach_in_flight /\ ~entry'.reader
      /\ entry'.pinned_leg = NoLeg /\ entry'.pins = reads /\ entry'.coverage = entry.coverage
    BY <1>1, <1>3, BeginReleaseFields DEF ClaimIs
<1>5. Unmoved(w) /\ Releases(w, r, q)
    BY <1>2, <1>3, ReleasingTo DEF Releases
<1>6. PinsCounted(entry', reads') /\ entry.claim.epoch \in Nat
    BY <1>1, <1>3, <1>4, SoundEpoch DEF PinsCounted, Inv
<1> QED
    BY <1>1, <1>3, <1>4, <1>5, <1>6, ReleasesKeeps

LEMMA TurnLosesLockKeeps ==
    ASSUME Inv, Inv', Custody, NEW w \in Workers, TurnLosesLock(w) PROVE Custody'
<1> DEFINE r == thread[w]
           q == thread'[w]
           u == Unpinned(w)
<1>1. /\ At(w, "working") /\ KindOf(w) # "Attach" /\ UNCHANGED <<queue, sends, reads>>
      /\ GoesReleasing(w, TRUE, EpochOf(w), "ending")
    BY DEF TurnLosesLock, CoverageJobs, Channel, Client
<1>2. PICK contended \in BOOLEAN : entry' = BeginRelease([u EXCEPT !.contended = @ \/ contended])
    BY DEF TurnLosesLock
<1> DEFINE v == [u EXCEPT !.contended = @ \/ contended]
<1>3. /\ w \in Threads /\ Registers(entry, r) /\ entry.claim.leg = LegFor(r)
      /\ r.pc = "working" /\ w # Dispatcher /\ EpochOf(w) = r.job.epoch
      /\ entry.coverage = OnLeg(r.job.epoch)
      /\ u \in Entries /\ u.claim = entry.claim /\ u.coverage = entry.coverage
      /\ u.pins = reads /\ u.pinned_leg = NoLeg /\ reads \in Nat
    BY <1>1, TakenIs
<1> HIDE DEF u
<1>4. v \in Entries /\ v.claim = u.claim /\ v.coverage = u.coverage /\ v.pins = u.pins
      /\ v.pinned_leg = u.pinned_leg
    <2>1. (u.contended \/ contended) \in BOOLEAN
        OBVIOUS
    <2> QED
        BY <1>3, <2>1 DEF Entries
<1>8. entry' = BeginRelease(v)
    BY <1>2 DEF v
<1> HIDE DEF v
<1>5. /\ entry'.claim.epoch = entry.claim.epoch /\ entry'.claim.leg = entry.claim.leg
      /\ entry'.claim.gate = "open" /\ entry'.detach_in_flight /\ ~entry'.reader
      /\ entry'.pinned_leg = NoLeg /\ entry'.pins = reads /\ entry'.coverage = entry.coverage
    BY <1>8, <1>3, <1>4, BeginReleaseFields DEF ClaimIs
<1>9. PICK held \in BOOLEAN : GoesReleasing(w, held, EpochOf(w), "ending")
    BY <1>1
<1>6. Unmoved(w) /\ Releases(w, r, q)
    BY <1>9, <1>3, ReleasingTo DEF Releases
<1>7. PinsCounted(entry', reads') /\ entry.claim.epoch \in Nat
    BY <1>1, <1>3, <1>5, SoundEpoch DEF PinsCounted, Inv
<1> QED
    BY <1>1, <1>3, <1>5, <1>6, <1>7, ReleasesKeeps

LEMMA BeginDetachKeeps ==
    ASSUME Inv, Inv', Custody, NEW w \in Workers, BeginDetach(w)
    PROVE  Custody' /\ entry.leases = 0 /\ entry.pins = 0
<1> DEFINE r == thread[w]
           q == thread'[w]
           v == [entry EXCEPT !.coverage = TakeCoverage(@, EpochOf(w))]
<1>1. /\ r.pc = "begun" /\ r.job.kind = "Detach" /\ r.job.epoch = entry.claim.epoch
      /\ UNCHANGED <<queue, sends, reads>> /\ r.pc # "idle"
      /\ GoesReleasing(w, InHandOf(entry), EpochOf(w), "ending") /\ entry' = BeginRelease(v)
    BY DEF BeginDetach, At, KindOf, Stands, StandsAtEpoch, StandsAt, EpochOf, Channel, Client
<1>2. w \in Threads /\ w # Dispatcher /\ EpochOf(w) = r.job.epoch /\ Stand(entry, r) /\ entry \in Entries
    BY <1>1, WorkerIs, Facts
<1>3. /\ Registers(entry, r) /\ Fits(entry, "Detach")
    BY <1>1, <1>2 DEF Stand, LiveStand, Live
<1>4. InHandOf(entry) /\ entry.leases = 0 /\ entry.pins = 0
    BY <1>3 DEF Fits
<1>5. /\ v \in Entries /\ v.claim = entry.claim /\ v.coverage = OnLeg(r.job.epoch)
      /\ v.pins = entry.pins /\ v.pinned_leg = entry.pinned_leg
    <2>1. Keeps(entry, v)
        <3>1. EpochOf(w) \in 0..entry.claim.epoch
            BY <1>2, ThreadFacts
        <3> QED
            BY <3>1, CustodyKeeps DEF Inv
    <2>2. TakeCoverage(entry.coverage, EpochOf(w)) = OnLeg(r.job.epoch)
        BY <1>2, <1>4 DEF TakeCoverage, InHandOf
    <2> QED
        BY <1>2, <2>1, <2>2 DEF Keeps, Sound, Entries
<1>6. entry.pinned_leg = NoLeg
    BY <1>4 DEF Custody, Settled, InHandOf, InHand, OnLeg
<1> HIDE DEF v
<1>7. /\ entry'.claim.epoch = entry.claim.epoch /\ entry'.claim.leg = entry.claim.leg
      /\ entry'.claim.gate = "open" /\ entry'.detach_in_flight /\ ~entry'.reader
      /\ entry'.pinned_leg = NoLeg /\ entry'.pins = entry.pins /\ entry'.coverage = OnLeg(r.job.epoch)
    BY <1>1, <1>5, <1>6, BeginReleaseFields DEF ClaimIs
<1>8. Unmoved(w) /\ Releases(w, r, q)
    BY <1>1, <1>2, ReleasingTo DEF Releases
<1>9. PinsCounted(entry', reads') /\ entry.claim.epoch \in Nat
    BY <1>1, <1>6, <1>7, SoundEpoch DEF Custody, PinsCounted, Inv
<1> QED
    BY <1>1, <1>2, <1>3, <1>4, <1>7, <1>8, <1>9, ReleasesKeeps

----------------------------------------------------------------------------
(* A step of a thread nobody waits for                                     *)

\* s and q differ in nothing that custody reads, but for a slot that is of no job
\* of the entry's epoch.
SameStanding(s, q) ==
    /\ q.claim.epoch = s.claim.epoch /\ q.claim.gate = s.claim.gate
    /\ q.claim.marker = s.claim.marker /\ q.claim.leg = s.claim.leg
    /\ s.claim.slot = s.claim.epoch => q.claim.slot = s.claim.slot
    /\ q.coverage = s.coverage /\ q.reader = s.reader
    /\ q.detach_in_flight = s.detach_in_flight /\ q.detach_scheduled = s.detach_scheduled
    /\ q.leases = s.leases /\ q.pins = s.pins /\ q.pinned_leg = s.pinned_leg

LEMMA SameCustodyStands ==
    ASSUME NEW s, NEW q, SameCustody(s, q) PROVE SameStanding(s, q)
BY DEF SameCustody, SameStanding

\* q is s with a lease or a pin more or less, where no detach waits for there being
\* none, or with a reader over coverage in hand.
Softens(s, q) ==
    /\ q.claim.epoch = s.claim.epoch /\ q.claim.gate = s.claim.gate
    /\ q.claim.marker = s.claim.marker /\ q.claim.leg = s.claim.leg
    /\ s.claim.slot = s.claim.epoch => q.claim.slot = s.claim.slot
    /\ q.coverage = s.coverage /\ q.pinned_leg = s.pinned_leg
    /\ q.detach_in_flight = s.detach_in_flight /\ q.detach_scheduled = s.detach_scheduled
    /\ q.reader = s.reader \/ InHandOf(s)
    /\ \/ q.leases = s.leases /\ q.pins = s.pins
       \/ s.leases # 0 \/ s.pins # 0 \/ ~s.detach_scheduled \/ s.detach_in_flight

LEMMA SoftStands ==
    ASSUME NEW s, NEW q, NEW r, Softens(s, q)
    PROVE  /\ Stand(s, r) => Stand(q, r)
           /\ (Engaged(q, r) <=> Engaged(s, r)) /\ (Registers(q, r) <=> Registers(s, r))
           /\ (Carries(q, r) <=> Carries(s, r)) /\ (Custodian(q, r) <=> Custodian(s, r))
           /\ Settled(s) => Settled(q)
           /\ (NewWork(q, r) <=> NewWork(s, r))
           /\ \A job : (Sent(s, job) => Sent(q, job)) /\ (Standing(q, job) <=> Standing(s, job))
           /\ (Running(q.claim) <=> Running(s.claim))
<1>1. /\ (Registers(q, r) <=> Registers(s, r)) /\ (Carries(q, r) <=> Carries(s, r))
      /\ \A job : (Standing(q, job) <=> Standing(s, job))
      /\ (Live(q, r) <=> Live(s, r)) /\ (InHandOf(q) <=> InHandOf(s))
    BY DEF Softens, Registers, Carries, Standing, Live, InHandOf
<1>2. s.coverage = NoCoverage => ~InHandOf(s)
    BY DEF InHandOf, InHand, NoCoverage
<1>3. \A kind : Fits(s, kind) /\ ~s.detach_in_flight => Fits(q, kind)
    BY <1>1, <1>2 DEF Softens, Fits
<1>4. \A job : (Sent(s, job) => Sent(q, job))
    BY <1>1, <1>3 DEF Softens, Sent
<1>5. HoldsStand(s, r) => HoldsStand(q, r)
    BY <1>1, <1>2 DEF Softens, HoldsStand
<1>6. LiveStand(s, r) => LiveStand(q, r)
    BY <1>1, <1>3 DEF Softens, LiveStand
<1>7. NextStand(s, r) => NextStand(q, r)
    BY <1>1, <1>3 DEF Softens, NextStand
<1>8. CarryStand(s, r) => CarryStand(q, r)
    BY <1>1, <1>4 DEF Softens, CarryStand
<1>9. CloseStand(s, r) => CloseStand(q, r)
    BY <1>1 DEF Softens, CloseStand
<1>10. Settled(s) => Settled(q)
    <2>1. InHandOf(s) => AccountedFor(s.coverage) /\ ~OutWithLeg(s.coverage)
        BY DEF InHandOf, InHand, AccountedFor, OutWithLeg
    <2> QED
        BY <1>1, <1>3, <2>1 DEF Softens, Settled
<1>11. Custodian(q, r) <=> Custodian(s, r)
    BY <1>1 DEF Softens, Custodian
<1>12. (NewWork(q, r) <=> NewWork(s, r)) /\ (Engaged(q, r) <=> Engaged(s, r))
       /\ (Running(q.claim) <=> Running(s.claim))
    BY <1>1 DEF Softens, NewWork, Engaged, Running
<1>13. Spent(s, r) => Spent(q, r)
    BY <1>1 DEF Softens, Spent
<1>14. Stand(s, r) => Stand(q, r)
    BY <1>5, <1>6, <1>7, <1>8, <1>9, <1>13 DEF Stand
<1> QED
    BY <1>1, <1>4, <1>10, <1>11, <1>12, <1>14

LEMMA StandingAlike ==
    ASSUME NEW s, NEW q, NEW r, SameStanding(s, q)
    PROVE  /\ Stand(s, r) => Stand(q, r)
           /\ (Engaged(q, r) <=> Engaged(s, r)) /\ (Registers(q, r) <=> Registers(s, r))
           /\ (Carries(q, r) <=> Carries(s, r)) /\ (Custodian(q, r) <=> Custodian(s, r))
           /\ Settled(s) => Settled(q)
           /\ (NewWork(q, r) <=> NewWork(s, r))
           /\ \A job : (Sent(s, job) => Sent(q, job)) /\ (Standing(q, job) <=> Standing(s, job))
           /\ \A n : (PinsCounted(q, n) <=> PinsCounted(s, n))
           /\ (Running(q.claim) <=> Running(s.claim))
<1>1. Softens(s, q)
    BY DEF SameStanding, Softens
<1>2. \A n : (PinsCounted(q, n) <=> PinsCounted(s, n))
    BY DEF SameStanding, PinsCounted
<1> QED
    BY <1>1, <1>2, SoftStands

\* What stands in the channel goes on standing there.
\* There is no work at the epoch an entry starts at.
LEMMA WorkPastStart ==
    ASSUME Custody, InQueue \/ InSends \/ \E t \in Threads : NewWork(entry, thread[t])
    PROVE  entry.claim.epoch # 0
<1>1. CASE InQueue \/ InSends
    BY <1>1 DEF Custody, ChannelStands, ChannelSent, InQueue, InSends, Sent
<1>2. ASSUME NEW t \in Threads, NewWork(entry, thread[t]) PROVE entry.claim.epoch # 0
    <2>1. Settled(entry) /\ NextStand(entry, thread[t]) /\ CarryStand(entry, thread[t])
        BY DEF Custody, ThreadsStand, Stand
    <2> QED
        BY <1>2, <2>1 DEF NewWork, Settled, NextStand, CarryStand, Carries, Sent
<1> QED
    BY <1>1, <1>2

LEMMA SoftMovesOver ==
    ASSUME Inv, Inv', Custody, NEW t \in Threads, ~Engaged(entry, thread[t]), Unmoved(t),
           Shape(t, thread'[t]), Stand(entry', thread'[t]), ~Engaged(entry', thread'[t]),
           LegsRun(thread'[t]) =>
               \/ thread'[t].job.epoch # entry.claim.epoch' \/ entry.claim.epoch = 0
               \/ LegsRun(thread[t]) /\ thread'[t].job.epoch = thread[t].job.epoch,
           Softens(entry, entry'), PinsCounted(entry', reads'),
           InQueue' <=> InQueue, InSends' <=> InSends, ChannelSent'
    PROVE  Custody'
<1>1. ASSUME NEW u \in Threads \ {t} PROVE thread'[u] = thread[u]
    BY DEF Unmoved
<1>2. ASSUME NEW u \in Threads
      PROVE  /\ (Registers(entry', thread[u]) <=> Registers(entry, thread[u]))
             /\ (Carries(entry', thread[u]) <=> Carries(entry, thread[u]))
             /\ (Custodian(entry', thread[u]) <=> Custodian(entry, thread[u]))
             /\ (Engaged(entry', thread[u]) <=> Engaged(entry, thread[u]))
             /\ (NewWork(entry', thread[u]) <=> NewWork(entry, thread[u]))
             /\ Stand(entry', thread[u])
    BY SoftStands DEF Custody, ThreadsStand
<1>3. /\ \A job : (Sent(entry, job) => Sent(entry', job))
                  /\ (Standing(entry', job) <=> Standing(entry, job))
      /\ Settled(entry') /\ PinsCounted(entry', reads')
      /\ (Running(entry.claim)' <=> Running(entry.claim))
    BY SoftStands DEF Custody
<1>4. Shape(t, thread'[t]) /\ Stand(entry', thread'[t]) /\ ~Engaged(entry', thread'[t])
    OBVIOUS
<1>5. ThreadsStand'
    BY <1>1, <1>2, <1>4 DEF ThreadsStand, Custody
<1>6. \A u \in Threads : Engaged(entry', thread'[u]) => u # t /\ Engaged(entry, thread[u])
    BY <1>1, <1>2, <1>4
<1>7. OneEngaged'
    BY <1>6 DEF OneEngaged, Custody
<1>8. (InQueue' <=> InQueue) /\ (InSends' <=> InSends)
    OBVIOUS
<1>9. NewWork(entry', thread'[t]) => NewWork(entry, thread[t])
    BY <1>4, QuietIs DEF NewWork, Softens
<1>10. entry.claim.epoch' = entry.claim.epoch
    BY DEF Softens
<1>11. Unused'
    <2>1. SUFFICES ASSUME InQueue' \/ InSends' \/ \E v \in Threads : NewWork(entry', thread'[v]),
                          NEW u \in Threads, LegsRun(thread'[u])
                   PROVE  thread'[u].job.epoch # entry.claim.epoch'
        BY DEF Unused
    <2>2. InQueue \/ InSends \/ \E v \in Threads : NewWork(entry, thread[v])
        BY <1>1, <1>2, <1>8, <1>9, <2>1
    <2>3. \A v \in Threads : LegsRun(thread[v]) => thread[v].job.epoch # entry.claim.epoch
        BY <2>2 DEF Custody, Unused
    <2> QED
        BY <1>1, <1>10, <2>1, <2>2, <2>3, WorkPastStart
<1>12. ChannelStands'
    <2>3. ~(InQueue' /\ InSends')
          /\ (InQueue' \/ InSends' => \A u \in Threads : ~Engaged(entry', thread'[u]))
        BY <1>6, <1>8 DEF Custody, ChannelStands, ChannelSent
    <2> QED
        BY <2>3 DEF ChannelStands
<1>13. Answered'
    <2>1. \A u \in Threads :
              /\ Registers(entry, thread[u]) \/ Carries(entry, thread[u]) \/ Closes(thread[u])
                 \/ Custodian(entry, thread[u]) => u # t
              /\ u # t => thread'[u] = thread[u]
        BY <1>1 DEF Engaged, Custodian
    <2>2. Running(entry.claim)' => \E u \in Threads : Registers(entry', thread'[u])
        BY <1>2, <1>3, <2>1 DEF Custody, Answered
    <2>3. entry'.detach_in_flight =>
              Running(entry.claim)' \/ \E u \in Threads : Closes(thread'[u])
        BY <1>3, <2>1 DEF Custody, Answered, Softens
    <2>4. OutWithLeg(entry'.coverage) => \E u \in Threads : Custodian(entry', thread'[u])
        BY <1>2, <2>1 DEF Custody, Answered, Softens
    <2>5. entry'.pinned_leg # NoLeg =>
              \E u \in Threads : /\ Registers(entry', thread'[u])
                                 /\ thread'[u].pc \in {"working", "polling", "unwound"}
        BY <1>2, <2>1 DEF Custody, Answered, Softens
    <2>6. entry.claim.gate' = "held" =>
              \/ Running(entry.claim)' \/ InQueue' \/ InSends'
              \/ \E u \in Threads : Carries(entry', thread'[u])
        BY <1>2, <1>3, <1>8, <2>1 DEF Custody, Answered, Softens
    <2> QED
        BY <2>2, <2>3, <2>4, <2>5, <2>6 DEF Answered
<1> QED
    BY <1>3, <1>5, <1>7, <1>11, <1>12, <1>13 DEF Custody

LEMMA QuietMovesOver ==
    ASSUME Inv, Inv', Custody, NEW t \in Threads, ~Engaged(entry, thread[t]), Unmoved(t), Quiet(t),
           SameStanding(entry, entry'), UNCHANGED reads,
           InQueue' <=> InQueue, InSends' <=> InSends, ChannelSent'
    PROVE  Custody'
<1>1. Softens(entry, entry') /\ PinsCounted(entry', reads')
    BY DEF Custody, PinsCounted, SameStanding, Softens
<1> QED
    BY <1>1, SoftMovesOver DEF Quiet

LEMMA SoftChannel ==
    ASSUME Custody, Softens(entry, entry'), UNCHANGED <<queue, sends>>
    PROVE  /\ InQueue' <=> InQueue
           /\ InSends' <=> InSends
           /\ ChannelSent'
<1>1. \A job : (Sent(entry, job) => Sent(entry', job))
                /\ (Standing(entry', job) <=> Standing(entry, job))
    BY SoftStands
<1>2. (InQueue' <=> InQueue) /\ (InSends' <=> InSends)
    BY <1>1 DEF InQueue, InSends
<1>3. \A i \in DOMAIN queue' : Standing(entry', queue'[i]) =>
          Sent(entry', queue'[i])
          /\ \A j \in DOMAIN queue' : Standing(entry', queue'[j]) => j = i
    BY <1>1 DEF Custody, ChannelStands, ChannelSent
<1>4. \A job \in sends' : Standing(entry', job) =>
          /\ Sent(entry', job) /\ entry.claim.gate' = "scheduled"
          /\ \A other \in sends' : Standing(entry', other) => other = job
    BY <1>1 DEF Custody, ChannelStands, ChannelSent, Softens
<1> QED
    BY <1>2, <1>3, <1>4 DEF ChannelSent

LEMMA SameChannel ==
    ASSUME Custody, SameStanding(entry, entry'), UNCHANGED <<queue, sends>>
    PROVE  /\ InQueue' <=> InQueue
           /\ InSends' <=> InSends
           /\ ChannelSent'
<1>1. Softens(entry, entry')
    BY DEF SameStanding, Softens
<1> QED
    BY <1>1, SoftChannel

LEMMA QuietMoves ==
    ASSUME Inv, Inv', Custody, NEW t \in Threads, ~Engaged(entry, thread[t]), Unmoved(t), Quiet(t),
           SameStanding(entry, entry'), UNCHANGED <<queue, sends, reads>>
    PROVE  Custody'
BY SameChannel, QuietMovesOver

LEMMA QuietIdles ==
    ASSUME Inv, Inv', Custody, NEW t \in Threads, ~Engaged(entry, thread[t]), Unmoved(t),
           thread'[t] = Idle, SameStanding(entry, entry'), UNCHANGED <<queue, sends, reads>>
    PROVE  Custody'
<1>1. Quiet(t)
    BY IdleIs DEF Quiet
<1> QED
    BY <1>1, QuietMoves

LEMMA QuietGoes ==
    ASSUME Inv, Inv', Custody, NEW t \in Threads, ~Engaged(entry, thread[t]), Unmoved(t),
           LegsRun(thread[t]), Shape(t, thread'[t]),
           thread'[t].pc \in {"ending", "closing", "handing", "classifying", "losing",
                              "departing", "unwound"},
           ~thread'[t].held, thread'[t].job = thread[t].job, thread'[t].followup = NoJob,
           thread'[t].next \in {thread[t].next, NoJob},
           SameStanding(entry, entry'), UNCHANGED <<queue, sends, reads>>
    PROVE  Custody'
<1> DEFINE r == thread[t]
           q == thread'[t]
<1>1. ~Registers(entry, r) /\ ~Standing(entry, r.next)
    BY QuietIs DEF Engaged, Custody, ThreadsStand
<1>2. LegFor(q) = LegFor(r) /\ (Registers(entry', q) <=> Registers(entry', r))
    BY DEF LegFor, Registers, LegsRun
<1>3. ~Registers(entry', q)
    BY <1>1, <1>2, StandingAlike
<1>4. ~Standing(entry', q.next) /\ ~Standing(entry', q.followup)
    BY <1>1 DEF Standing, SameStanding
<1> HIDE DEF r, q
<1>5. ~Holds(q) /\ ~Closes(q) /\ ~Carries(entry', q) /\ ~Live(entry', q)
    BY <1>4 DEF Holds, Closes, Carries, Live, q
<1>6. Stand(entry', q) /\ ~Engaged(entry', q)
    BY <1>3, <1>4, <1>5 DEF Stand, HoldsStand, LiveStand, NextStand, CarryStand, CloseStand,
                            Carries, Spent, Engaged
<1>7. Quiet(t)
    BY <1>6 DEF Quiet, q
<1> QED
    BY <1>7, QuietMoves

LEMMA FreeSlotStands ==
    ASSUME NEW s \in Entries, NEW q, NEW epoch, epoch # s.claim.epoch,
           q = [s EXCEPT !.claim = FreeSlot(@, epoch)]
    PROVE  SameStanding(s, q)
<1>1. s.claim \in Claims
    BY EntryTyped
<1>2. LET c == FreeSlot(s.claim, epoch) IN
      /\ c.epoch = s.claim.epoch /\ c.gate = s.claim.gate /\ c.marker = s.claim.marker
      /\ c.leg = s.claim.leg /\ (s.claim.slot = s.claim.epoch => c.slot = s.claim.slot)
    BY <1>1 DEF FreeSlot, AbandonSlot, Claims
<1>3. q.claim = FreeSlot(s.claim, epoch)
    BY DEF Entries
<1>4. /\ q.coverage = s.coverage /\ q.reader = s.reader
      /\ q.detach_in_flight = s.detach_in_flight /\ q.detach_scheduled = s.detach_scheduled
      /\ q.leases = s.leases /\ q.pins = s.pins /\ q.pinned_leg = s.pinned_leg
    BY DEF Entries
<1> QED
    BY <1>2, <1>3, <1>4 DEF SameStanding

LEMMA ReceiveStaleKeeps ==
    ASSUME Inv, Inv', Custody, NEW w \in Workers, ReceiveStale(w) PROVE Custody'
<1> DEFINE r == thread[w]
           freed == FreeSlot(entry.claim, EpochOf(w))
<1>1. /\ r.pc = "received" /\ r.pc # "idle" /\ r.job.epoch # entry.claim.epoch /\ Rests(w)
      /\ UNCHANGED <<queue, sends, reads>> /\ EpochOf(w) = r.job.epoch
      /\ entry' = [entry EXCEPT !.claim =
               IF freed.marker.epoch = EpochOf(w) THEN DropMarker(freed) ELSE freed]
    BY DEF ReceiveStale, At, Stands, StandsAtEpoch, StandsAt, EpochOf, Channel, Client
<1>2. w \in Threads /\ Shape(w, r)
    BY <1>1, WorkerIs
<1>3. ~Engaged(entry, r)
    BY <1>1, <1>2 DEF Engaged, Registers, LegsRun, Closes, Carries, Standing, Shape
<1>4. entry.claim \in Claims /\ entry \in Entries
    BY Facts, EntryTyped
<1>5. freed.gate = entry.claim.gate /\ freed.marker = entry.claim.marker
    BY <1>4 DEF FreeSlot, AbandonSlot, Claims
<1>6. freed.gate = "scheduled" => freed.marker.epoch # EpochOf(w)
    BY <1>1, <1>5 DEF Custody, Settled, Standing
<1>7. entry' = [entry EXCEPT !.claim = FreeSlot(@, EpochOf(w))]
    <2>1. freed.marker.epoch = EpochOf(w) => DropMarker(freed) = freed
        BY <1>6 DEF DropMarker
    <2> QED
        BY <1>1, <2>1
<1>8. SameStanding(entry, entry')
    BY <1>1, <1>4, <1>7, FreeSlotStands
<1>9. Unmoved(w) /\ thread'[w] = Idle
    BY <1>1, <1>2, RestsTo
<1> QED
    BY <1>1, <1>2, <1>3, <1>8, <1>9, QuietIdles

----------------------------------------------------------------------------
(* Steps that leave the entry alone                                        *)

LEMMA EngagedGoesOn ==
    ASSUME Inv, Inv', Custody, NEW t \in Threads, Engaged(entry, thread[t]), Unmoved(t),
           UNCHANGED <<entry, queue, sends, reads>>,
           LegsRun(thread[t]), thread'[t].job = thread[t].job,
           Sole(t, entry, thread'[t], reads),
           NewWork(entry, thread'[t]) => NewWork(entry, thread[t])
    PROVE  Custody'
<1>1. NewWork(entry, thread[t]) => thread[t].job.epoch # entry.claim.epoch
    BY DEF Custody, Unused
<1>2. entry.claim.epoch \in Nat
    BY Facts
<1> QED
    BY <1>1, <1>2, EngagedStep

\* A leg that runs and does nothing more for the entry than its end.
LEMMA LegRunsOut ==
    ASSUME Inv, Inv', Custody, NEW w \in Workers, UNCHANGED <<entry, queue, sends, reads>>,
           \/ /\ thread[w].pc = "begun" /\ KindOf(w) # "Attach" /\ ~Stands(w)
              /\ Goes(w, "ending", FALSE)
           \/ thread[w].pc = "ending" /\ Goes(w, "closing", thread[w].held)
    PROVE  Custody'
<1> DEFINE r == thread[w]
           q == thread'[w]
<1>1. /\ r.pc \in {"begun", "ending"} /\ r.pc # "idle"
      /\ r.pc = "begun" => r.job.kind # "Attach"
    BY DEF KindOf
<1>2. w \in Threads /\ Shape(w, r) /\ Stand(entry, r) /\ r.job \in Jobs
      /\ w # Dispatcher
    BY <1>1, WorkerIs
<1>3. /\ Unmoved(w) /\ SameWork(r, q) /\ q.after = "idle"
      /\ \/ r.pc = "begun" /\ q.pc = "ending" /\ q.held = FALSE
         \/ r.pc = "ending" /\ q.pc = "closing" /\ q.held = r.held
    BY <1>2, GoesTo
<1>4. /\ LegsRun(r) /\ r.next = NoJob /\ r.followup = NoJob
      /\ q.job = r.job /\ q.next = NoJob /\ q.followup = NoJob
    BY <1>1, <1>2, <1>3 DEF LegsRun, Shape, SameWork
<1>5. (q.held => r.held) /\ (r.held => Holds(r) /\ r.pc = "ending" /\ q.held)
    BY <1>1, <1>2, <1>3 DEF Holds, Shape
<1> HIDE DEF r, q
<1>6. Ends(w, r, q)
    BY <1>1, <1>2, <1>3, <1>5 DEF Ends, Shape
<1>7. Shape(w, q)
    BY <1>2, <1>6, EndsShape
<1>8. CASE Engaged(entry, r)
    <2>1. Registers(entry, r) /\ ~Closes(r) /\ Sole(w, entry, r, reads)
        BY <1>1, <1>2, <1>4, <1>8, EngagedAlone DEF Engaged, Closes, Carries, Standing, r
    <2>2. /\ Settled(entry) /\ PinsCounted(entry, reads) /\ entry.pinned_leg = NoLeg
          /\ OutWithLeg(entry.coverage) => Custodian(entry, r)
        BY <1>1, <2>1 DEF Sole, Answers
    <2>3. OutWithLeg(entry.coverage) => q.held /\ q.job.kind # "Attach"
        BY <1>1, <1>4, <1>5, <2>1, <2>2 DEF Custodian, Holds
    <2>4. HeldStands(entry, q)
        BY <1>1, <1>2, <1>4, <1>5 DEF HeldStands, Stand, HoldsStand
    <2>5. entry.claim.epoch \in Nat
        BY Facts
    <2>6. r.job.epoch = entry.claim.epoch => entry.claim.gate # "held"
        <3>1. CASE r.pc = "begun"
            BY <3>1 DEF Stands, StandsAtEpoch, StandsAt, EpochOf, r
        <3>2. CASE r.pc = "ending"
            BY <1>2, <2>1, <3>2 DEF Stand, Spent
        <3> QED
            BY <1>1, <3>1, <3>2
    <2> QED
        BY <1>2, <1>3, <1>6, <2>1, <2>2, <2>3, <2>4, <2>5, <2>6, LegGoesOver DEF r, q
<1>9. CASE ~Engaged(entry, r)
    <2>1. ~Holds(r)
        BY <1>2, <1>9, QuietIs
    <2>2. ~q.held
        BY <1>5, <2>1
    <2>3. SameStanding(entry, entry')
        BY DEF SameStanding
    <2> QED
        BY <1>2, <1>3, <1>4, <1>7, <1>9, <2>2, <2>3, QuietGoes DEF r, q
<1> QED
    BY <1>8, <1>9

LEMMA BegunStaleKeeps ==
    ASSUME Inv, Inv', Custody, NEW w \in Workers, BegunStale(w) PROVE Custody'
BY LegRunsOut DEF BegunStale, At, Channel, Client

LEMMA EndsByClosingKeeps ==
    ASSUME Inv, Inv', Custody, NEW w \in Workers, EndsByClosing(w) PROVE Custody'
BY LegRunsOut DEF EndsByClosing, At, Channel, Client

LEMMA UnwindKeeps ==
    ASSUME Inv, Inv', Custody, NEW t \in Threads, Unwind(t) PROVE Custody'
<1> DEFINE r == thread[t]
           q == thread'[t]
<1>1. /\ r.pc \in {"begun", "working", "polling"} /\ Goes(t, "unwound", FALSE)
      /\ UNCHANGED <<entry, queue, sends, reads>>
    BY DEF Unwind, At, Channel, Client
<1>2. Shape(t, r) /\ Stand(entry, r)
    BY DEF Custody, ThreadsStand
<1>3. Unmoved(t) /\ SameWork(r, q) /\ q.after = "idle" /\ q.pc = "unwound" /\ q.held = FALSE
    BY <1>1, GoesTo
<1>4. /\ LegsRun(r) /\ LegsRun(q) /\ r.next = NoJob /\ r.followup = NoJob /\ ~Closes(r)
      /\ q.job = r.job /\ q.next = NoJob /\ q.followup = NoJob
    BY <1>1, <1>2, <1>3 DEF LegsRun, Shape, SameWork, Closes
<1>5. /\ t = Dispatcher => r.job.kind = "Poll"
      /\ t # Registrar /\ (t \in Workers => r.job \in Jobs /\ t # Dispatcher)
    BY <1>1, <1>2, ThreadsAssumption DEF Shape
<1>6. Shape(t, q)
    <2>1. t = Dispatcher => t \notin Workers
        BY ThreadsAssumption
    <2> QED
        BY <1>2, <1>3, <1>4, <1>5, <2>1 DEF Shape
<1> HIDE DEF r, q
<1>7. CASE Engaged(entry, r)
    <2>1. Registers(entry, r) /\ ~Carries(entry, r) /\ Sole(t, entry, r, reads)
        BY <1>1, <1>4, <1>7, EngagedAlone DEF Engaged, Carries, Standing, r
    <2>2. Registers(entry, q)
        BY <1>4, <2>1 DEF Registers, LegFor
    <2>3. ~Holds(q) /\ ~Live(entry, q) /\ ~Carries(entry, q) /\ ~Closes(q) /\ ~Standing(entry, q.next)
          /\ ~Standing(entry, q.followup)
        BY <1>3, <1>4 DEF Holds, Live, Carries, Closes, Standing
    <2>4. Stand(entry, q)
        BY <1>3, <1>4, <2>3 DEF Stand, HoldsStand, LiveStand, NextStand, CarryStand, CloseStand,
                          Carries, Spent
    <2>5. Answers(entry, q) /\ HeldFor(entry, q)
        BY <1>3, <1>4, <2>1, <2>2 DEF Sole, Answers, HeldFor, Custodian
    <2>6. Sole(t, entry, q, reads)
        BY <1>6, <2>1, <2>4, <2>5 DEF Sole
    <2>7. NewWork(entry, q) => NewWork(entry, r)
        BY <2>3 DEF NewWork
    <2> QED
        BY <1>1, <1>3, <1>4, <1>7, <2>6, <2>7, EngagedGoesOn DEF r, q
<1>8. CASE ~Engaged(entry, r)
    <2>1. SameStanding(entry, entry')
        BY <1>1 DEF SameStanding
    <2> QED
        BY <1>1, <1>3, <1>4, <1>6, <1>8, <2>1, QuietGoes DEF r, q
<1> QED
    BY <1>7, <1>8

LEMMA ClassifyClearKeeps ==
    ASSUME Inv, Inv', Custody, NEW t \in Threads, ClassifyClear(t) PROVE Custody'
<1> DEFINE r == thread[t]
           q == thread'[t]
<1>1. /\ r.pc = "classifying" /\ Goes(t, AfterClassifying(t), FALSE)
      /\ UNCHANGED <<entry, queue, sends, reads>>
    BY DEF ClassifyClear, At, Channel, Client
<1>2. Shape(t, r) /\ Stand(entry, r)
    BY DEF Custody, ThreadsStand
<1>0. AfterClassifying(t) # "idle" /\ AfterClassifying(t) = IF t = Registrar THEN "departing" ELSE "losing"
    BY DEF AfterClassifying
<1>3. Unmoved(t) /\ SameWork(r, q) /\ q.after = "idle" /\ q.held = FALSE
      /\ q.pc = IF t = Registrar THEN "departing" ELSE "losing"
    BY <1>0, <1>1, GoesTo
<1>4. /\ LegsRun(r) /\ LegsRun(q) /\ r.followup = NoJob /\ ~Closes(r)
      /\ q.job = r.job /\ q.next = r.next /\ q.followup = NoJob
    BY <1>1, <1>2, <1>3 DEF LegsRun, Shape, SameWork, Closes
<1>5. /\ t = Registrar => r.next = NoJob /\ r.job = NoJob /\ t \notin Workers /\ t # Dispatcher
      /\ t = Dispatcher => r.next = NoJob /\ r.job = NoJob /\ t \notin Workers
    BY <1>1, <1>2, ThreadsAssumption DEF Shape
<1>6. Shape(t, q)
    BY <1>1, <1>2, <1>3, <1>4, <1>5 DEF Shape, NoJob
<1> HIDE DEF r, q
<1>7. CASE Engaged(entry, r)
    <2>1. Registers(entry, r) /\ ~Carries(entry, r) /\ Sole(t, entry, r, reads)
        BY <1>1, <1>4, <1>7, EngagedAlone DEF Engaged, Carries, Standing, r
    <2>2. Registers(entry, q)
        BY <1>4, <2>1 DEF Registers, LegFor
    <2>3. ~Holds(q) /\ ~Live(entry, q) /\ ~Carries(entry, q) /\ ~Closes(q)
          /\ ~Standing(entry, q.followup)
        BY <1>3, <1>4 DEF Holds, Live, Carries, Closes, Standing
    <2>4. NextStand(entry, q)
        <3>1. SUFFICES ASSUME Standing(entry, q.next) PROVE t # Registrar /\ NextStand(entry, r)
            BY <1>3, <1>4, <2>2 DEF NextStand
        <3> QED
            BY <1>2, <1>4, <1>5, <3>1 DEF Stand, Standing
    <2>5. Stand(entry, q)
        BY <1>1, <1>2, <1>3, <1>4, <2>1, <2>3, <2>4 DEF Stand, HoldsStand, LiveStand, CarryStand, CloseStand, Carries, Spent
    <2>6. Answers(entry, q) /\ HeldFor(entry, q)
        <3>1. ~Holds(r) /\ r.pc = "classifying"
            BY <1>1 DEF Holds
        <3> QED
            BY <1>3, <1>4, <2>1, <2>2, <3>1 DEF Sole, Answers, HeldFor, Custodian
    <2>7. Sole(t, entry, q, reads)
        BY <1>6, <2>1, <2>5, <2>6 DEF Sole
    <2>8. NewWork(entry, q) => NewWork(entry, r)
        BY <1>4, <2>3 DEF NewWork
    <2> QED
        BY <1>1, <1>3, <1>4, <1>7, <2>7, <2>8, EngagedGoesOn DEF r, q
<1>8. CASE ~Engaged(entry, r)
    <2>1. SameStanding(entry, entry')
        BY <1>1 DEF SameStanding
    <2> QED
        BY <1>1, <1>3, <1>4, <1>6, <1>8, <2>1, QuietGoes DEF r, q
<1> QED
    BY <1>7, <1>8

----------------------------------------------------------------------------
(* A leg over with coverage it took                                        *)

LEMMA TakenGoesOver ==
    ASSUME Inv, Inv', Custody, NEW w \in Workers, At(w, "working"), KindOf(w) # "Attach",
           NEW held \in BOOLEAN, Goes(w, "ending", held), UNCHANGED <<queue, sends, reads>>,
           entry'.claim.epoch = entry.claim.epoch, entry'.claim.leg = entry.claim.leg,
           entry'.claim.gate \in {"open", "held"}, ~entry'.reader,
           entry'.claim.gate = "held" \/ entry'.detach_in_flight,
           entry'.claim.gate = "held" => EpochOf(w) # entry.claim.epoch,
           entry'.detach_in_flight => entry'.claim.gate = "open",
           entry'.pinned_leg = NoLeg, entry'.pins = reads,
           \/ /\ held /\ entry'.coverage = OnLeg(EpochOf(w))
              /\ ~entry'.detach_in_flight => EpochOf(w) # entry.claim.epoch
           \/ ~held /\ entry'.coverage = NoCoverage
    PROVE  Custody'
<1> DEFINE r == thread[w]
           q == thread'[w]
           e == entry'
<1>1. /\ w \in Threads /\ Registers(entry, r) /\ r.pc = "working" /\ w # Dispatcher
      /\ r.job.kind \notin {"Attach", "Detach"} /\ EpochOf(w) = r.job.epoch /\ reads \in Nat
    BY TakenIs
<1>2. /\ Unmoved(w) /\ SameWork(r, q) /\ q.after = "idle" /\ q.pc = "ending" /\ q.held = held
    BY <1>1, GoesTo
<1>3. q.job = r.job
    BY <1>2 DEF SameWork
<1>4. Ends(w, r, q)
    BY <1>1, <1>2 DEF Ends
<1> HIDE DEF r, q, e
<1>5. /\ e.coverage \in {NoCoverage, Parked} \/ OutWithLeg(e.coverage)
      /\ ~InHandOf(e) /\ ~AccountedFor(NoCoverage)
      /\ OutWithLeg(e.coverage) => held /\ e.coverage = OnLeg(EpochOf(w))
    BY DEF OutWithLeg, OnLeg, NoCoverage, InHandOf, InHand, AccountedFor, e
<1>6. Settled(e)
    BY <1>5 DEF Settled, e
<1>7. HeldStands(e, q)
    BY <1>1, <1>2, <1>3, <1>5 DEF HeldStands, e
<1>8. PinsCounted(e, reads')
    BY <1>1 DEF PinsCounted, e
<1>9. entry.claim.epoch \in Nat
    BY Facts
<1>10. r.job.epoch = entry.claim.epoch' => entry.claim.gate' # "held"
    BY <1>1
<1> QED
    BY <1>1, <1>2, <1>3, <1>4, <1>5, <1>6, <1>7, <1>8, <1>9, <1>10, LegGoesOver DEF r, q, e

\* No reader stands over coverage out with a leg the entry has moved on from.
LEMMA StaleHasNoReader ==
    ASSUME NEW s, Settled(s), NEW epoch, s.coverage = OnLeg(epoch), epoch # s.claim.epoch
    PROVE  ~s.reader
BY DEF Settled, OutWithLeg, OnLeg

LEMMA WorkedStaleKeeps ==
    ASSUME Inv, Inv', Custody, NEW w \in Workers, WorkedStale(w) PROVE Custody'
<1> DEFINE r == thread[w]
           u == Unpinned(w)
<1>1. /\ At(w, "working") /\ KindOf(w) # "Attach" /\ ~Stands(w)
      /\ UNCHANGED <<queue, sends, reads>>
      /\ \/ entry' = u /\ Goes(w, "ending", TRUE)
         \/ /\ entry' = [u EXCEPT !.coverage = ReleasedBy(@, EpochOf(w))]
            /\ Goes(w, "ending", FALSE)
    BY DEF WorkedStale, CoverageJobs, Channel, Client
<1>2. /\ EpochOf(w) = r.job.epoch /\ entry.coverage = OnLeg(EpochOf(w)) /\ Settled(entry)
      /\ entry.claim.gate = "held" \/ entry.detach_in_flight
      /\ u \in Entries /\ u.claim = entry.claim /\ u.coverage = entry.coverage
      /\ u.reader = entry.reader /\ u.detach_in_flight = entry.detach_in_flight
      /\ u.pins = reads /\ u.pinned_leg = NoLeg
    BY <1>1, TakenIs
<1> HIDE DEF u
<1>3. EpochOf(w) # entry.claim.epoch
    BY <1>1 DEF Stands, StandsAtEpoch, StandsAt
<1>4. ~entry.reader /\ (entry.detach_in_flight => entry.claim.gate = "open")
    BY <1>2, <1>3, StaleHasNoReader DEF Settled
<1>5. CASE entry' = u /\ Goes(w, "ending", TRUE)
    <2>1. PICK held \in BOOLEAN : held /\ Goes(w, "ending", held)
        BY <1>5
    <2> QED
        BY <1>1, <1>2, <1>3, <1>4, <1>5, <2>1, TakenGoesOver
<1>6. CASE entry' = [u EXCEPT !.coverage = ReleasedBy(@, EpochOf(w))] /\ Goes(w, "ending", FALSE)
    <2>1. PICK held \in BOOLEAN : ~held /\ Goes(w, "ending", held)
        BY <1>6
    <2>2. /\ entry'.claim = u.claim /\ entry'.coverage = ReleasedBy(u.coverage, EpochOf(w))
          /\ entry'.reader = u.reader /\ entry'.detach_in_flight = u.detach_in_flight
          /\ entry'.pins = u.pins /\ entry'.pinned_leg = u.pinned_leg
        BY <1>2, <1>6 DEF Entries
    <2>3. entry'.coverage = NoCoverage
        BY <1>2, <2>2 DEF ReleasedBy
    <2> QED
        BY <1>1, <1>2, <1>3, <1>4, <2>1, <2>2, <2>3, TakenGoesOver
<1> QED
    BY <1>1, <1>5, <1>6

\* A recover that finds its root moved ends in a release of its coverage.
LEMMA RecoverMovedKeeps ==
    ASSUME Inv, Inv', Custody, NEW w \in Workers, At(w, "working"), KindOf(w) # "Attach",
           entry' = (IF Stands(w) THEN BeginRelease(Unpinned(w)) ELSE Unpinned(w)),
           Goes(w, "ending", TRUE), UNCHANGED <<queue, sends, reads>>
    PROVE  Custody'
<1> DEFINE r == thread[w]
           u == Unpinned(w)
<1>2. /\ EpochOf(w) = r.job.epoch /\ entry.coverage = OnLeg(EpochOf(w)) /\ Settled(entry)
      /\ entry.claim.gate = "held" \/ entry.detach_in_flight
      /\ u \in Entries /\ u.claim = entry.claim /\ u.coverage = entry.coverage
      /\ u.reader = entry.reader /\ u.detach_in_flight = entry.detach_in_flight
      /\ u.pins = reads /\ u.pinned_leg = NoLeg
    BY TakenIs
<1>0. entry' = IF Stands(w) THEN BeginRelease(u) ELSE u
    OBVIOUS
<1> HIDE DEF u
<1>1. PICK held \in BOOLEAN : held /\ Goes(w, "ending", held)
    OBVIOUS
<1>3. CASE Stands(w)
    <2>1. /\ entry'.claim.epoch = entry.claim.epoch /\ entry'.claim.leg = entry.claim.leg
          /\ entry'.claim.gate = "open" /\ entry'.detach_in_flight /\ ~entry'.reader
          /\ entry'.pinned_leg = NoLeg /\ entry'.pins = reads
          /\ entry'.coverage = OnLeg(EpochOf(w))
        BY <1>0, <1>2, <1>3, BeginReleaseFields DEF ClaimIs
    <2> QED
        BY <1>1, <2>1, TakenGoesOver
<1>4. CASE ~Stands(w)
    <2>1. EpochOf(w) # entry.claim.epoch
        BY <1>4 DEF Stands, StandsAtEpoch, StandsAt
    <2>2. ~entry.reader /\ (entry.detach_in_flight => entry.claim.gate = "open")
        BY <1>2, <2>1, StaleHasNoReader DEF Settled
    <2> QED
        BY <1>0, <1>1, <1>2, <1>4, <2>1, <2>2, TakenGoesOver
<1> QED
    BY <1>3, <1>4

LEMMA EndsByReleasingKeeps ==
    ASSUME Inv, Inv', Custody, NEW w \in Workers, EndsByReleasing(w) PROVE Custody'
<1> DEFINE r == thread[w]
           q == thread'[w]
<1>1. /\ r.pc = "ending" /\ r.pc # "idle" /\ entry.detach_in_flight
      /\ entry.claim.leg = JobLeg(EpochOf(w)) /\ GoesReleasing(w, r.held, EpochOf(w), "idle")
      /\ UNCHANGED <<entry, queue, sends, reads>>
    BY DEF EndsByReleasing, At, Channel, Client
<1>2. w \in Threads /\ Shape(w, r) /\ Stand(entry, r) /\ r.job \in Jobs /\ w # Dispatcher
      /\ EpochOf(w) = r.job.epoch /\ LegFor(r) = JobLeg(EpochOf(w)) /\ Settled(entry)
    BY <1>1, WorkerIs DEF Custody
<1>3. Registers(entry, r)
    BY <1>1, <1>2 DEF Registers, LegsRun, Jobs, JobKinds
<1>4. Sole(w, entry, r, reads)
    BY <1>2, <1>3, EngagedAlone DEF Engaged
<1>5. Unmoved(w) /\ Releases(w, r, q) /\ q.held = r.held
    BY <1>1, <1>2, ReleasingTo DEF Releases
<1> HIDE DEF r, q
<1>6. /\ entry.claim.gate = "open" /\ ~entry.reader /\ ~InHandOf(entry) /\ PinsCounted(entry, reads)
      /\ entry.pinned_leg = NoLeg
      /\ OutWithLeg(entry.coverage) => Custodian(entry, r)
    BY <1>1, <1>4 DEF Sole, Settled, Answers
<1>7. \/ entry.coverage = OnLeg(r.job.epoch)
      \/ entry.coverage = NoCoverage /\ (q.held => r.job.kind = "Attach")
    <2>1. r.held => Holds(r)
        BY <1>1 DEF Holds
    <2>2. CASE OutWithLeg(entry.coverage)
        <3>1. Holds(r) /\ r.job.kind # "Attach"
            BY <1>1, <1>6, <2>2 DEF Custodian, Closes, Holds
        <3> QED
            BY <1>2, <3>1 DEF Stand, HoldsStand
    <2>3. CASE ~OutWithLeg(entry.coverage)
        <3>1. entry.coverage = NoCoverage
            BY <1>2, <1>6, <2>3 DEF Settled, InHandOf, InHand, Parked
        <3>2. r.held => r.job.kind = "Attach"
            BY <1>2, <2>1, <3>1 DEF Stand, HoldsStand, OnLeg, NoCoverage
        <3> QED
            BY <1>5, <3>1, <3>2
    <2> QED
        BY <2>2, <2>3
<1>8. entry.claim.epoch \in Nat
    BY Facts
<1> QED
    BY <1>1, <1>2, <1>3, <1>5, <1>6, <1>7, <1>8, ReleasesKeeps DEF r, q

----------------------------------------------------------------------------
(* The end of a leg that is over                                           *)

\* e with its leg ended and what the leg held let go.
LEMMA ClosedSole ==
    ASSUME NEW t \in Threads, NEW e, NEW s, NEW n, Settled(e), e.pinned_leg = NoLeg,
           PinsCounted(e, n), ~e.detach_in_flight,
           s.claim.epoch = e.claim.epoch, s.claim.leg = NoLeg, s.claim.gate # "held",
           s.claim.gate = "scheduled" =>
               e.claim.gate = "scheduled" /\ s.claim.marker = e.claim.marker,
           \/ s.coverage = e.coverage /\ ~OutWithLeg(e.coverage)
           \/ s.coverage = NoCoverage /\ OutWithLeg(e.coverage) /\ ~e.reader,
           s.reader = e.reader, s.detach_in_flight = e.detach_in_flight,
           s.detach_scheduled = e.detach_scheduled, s.leases = e.leases,
           s.pins = e.pins, s.pinned_leg = e.pinned_leg
    PROVE  Sole(t, s, Idle, n) /\ (NewWork(s, Idle) => e.claim.gate = "scheduled")
<1>1. ~OutWithLeg(s.coverage) /\ s.coverage \in {NoCoverage, Parked}
    BY DEF Settled, OutWithLeg, NoCoverage
<1>2. s.claim.gate = "scheduled" => s.coverage = e.coverage
    BY DEF Settled
<1>3. Settled(s)
    <2>1. s.claim.gate = "scheduled" =>
              /\ s.claim.marker \in Jobs /\ Standing(s, s.claim.marker) /\ s.claim.epoch # 0
              /\ ~s.detach_in_flight /\ Fits(s, s.claim.marker.kind)
        BY <1>2 DEF Settled, Standing, Fits, InHandOf
    <2>2. s.reader => AccountedFor(s.coverage)
        BY DEF Settled
    <2> QED
        BY <1>1, <2>1, <2>2 DEF Settled
<1>4. Answers(s, Idle) /\ HeldFor(s, Idle)
    BY <1>1 DEF Answers, HeldFor, Running
<1>5. PinsCounted(s, n)
    BY DEF PinsCounted
<1> QED
    BY <1>3, <1>4, <1>5, IdleIs DEF Sole

LEMMA EndedIs ==
    ASSUME Inv, NEW epoch \in 0..entry.claim.epoch
    PROVE  LET ended == [entry EXCEPT !.claim = EndJobLeg(@, epoch),
                                      !.coverage = ReleasedBy(@, epoch)] IN
           /\ Keeps(entry, ended) /\ Keeps(entry, ReleaseGate(ended))
           /\ ended \in Entries /\ ended.claim = EndJobLeg(entry.claim, epoch)
           /\ ended.coverage = ReleasedBy(entry.coverage, epoch)
           /\ ended.reader = entry.reader /\ ended.detach_in_flight = entry.detach_in_flight
           /\ ended.detach_scheduled = entry.detach_scheduled /\ ended.leases = entry.leases
           /\ ended.pins = entry.pins /\ ended.pinned_leg = entry.pinned_leg
<1> DEFINE left == [entry EXCEPT !.claim = EndJobLeg(entry.claim, epoch)]
           ended == [left EXCEPT !.coverage = ReleasedBy(@, epoch)]
<1>1. ended = [entry EXCEPT !.claim = EndJobLeg(@, epoch), !.coverage = ReleasedBy(@, epoch)]
    OBVIOUS
<1>2. /\ ended.claim = EndJobLeg(entry.claim, epoch)
      /\ ended.coverage = ReleasedBy(entry.coverage, epoch)
      /\ ended.reader = entry.reader /\ ended.detach_in_flight = entry.detach_in_flight
      /\ ended.detach_scheduled = entry.detach_scheduled /\ ended.leases = entry.leases
      /\ ended.pins = entry.pins /\ ended.pinned_leg = entry.pinned_leg
    BY Facts DEF Entries
<1>3. Keeps(entry, left)
    BY Facts, LegMovesStay, ClaimKeeps
<1> HIDE DEF left
<1>4. Keeps(entry, ended)
    <2>1. Sound(left) /\ left.claim.epoch = entry.claim.epoch
        BY <1>3 DEF Keeps
    <2>2. Keeps(left, ended)
        BY <2>1, CustodyKeeps
    <2>3. Sound(entry)
        BY DEF Inv
    <2> QED
        BY <1>3, <2>2, <2>3, SoundSteps
<1> HIDE DEF ended
<1>5. Keeps(entry, ReleaseGate(ended))
    BY <1>4, Facts, GateKeeps, SoundSteps DEF Keeps
<1>6. ended \in Entries
    BY <1>4 DEF Keeps, Sound
<1> QED
    BY <1>1, <1>2, <1>4, <1>5, <1>6

\* What a leg at its end leaves to say of the entry.
LEMMA ClosingIs ==
    ASSUME Inv, Custody, NEW t \in Threads, thread[t].pc = "closing", Registers(entry, thread[t])
    PROVE  LET r == thread[t] IN
           /\ Engaged(entry, r) /\ Sole(t, entry, r, reads) /\ entry.pinned_leg = NoLeg
           /\ OutWithLeg(entry.coverage) => entry.coverage = OnLeg(r.job.epoch) /\ Holds(r)
           /\ r.job.epoch = entry.claim.epoch =>
                  entry.claim.gate # "held" /\ (OutWithLeg(entry.coverage) => entry.detach_in_flight)
           /\ r.job.epoch # entry.claim.epoch /\ OutWithLeg(entry.coverage) => ~entry.reader
           /\ r.next = NoJob /\ r.followup = NoJob
<1> DEFINE r == thread[t]
<1>1. Shape(t, r) /\ Stand(entry, r) /\ Engaged(entry, r)
    BY DEF Custody, ThreadsStand, Engaged
<1>2. Sole(t, entry, r, reads)
    BY <1>1, EngagedAlone
<1> HIDE DEF r
<1>3. entry.pinned_leg = NoLeg
    BY <1>2 DEF Sole, Answers, r
<1>4. OutWithLeg(entry.coverage) =>
          /\ entry.coverage = OnLeg(r.job.epoch) /\ Holds(r)
          /\ ~entry.detach_in_flight => r.job.epoch # entry.claim.epoch
    <2>1. SUFFICES ASSUME OutWithLeg(entry.coverage)
                   PROVE  /\ entry.coverage = OnLeg(r.job.epoch) /\ Holds(r)
                          /\ ~entry.detach_in_flight => r.job.epoch # entry.claim.epoch
        OBVIOUS
    <2>2. Holds(r) /\ r.job.kind # "Attach"
        BY <1>2, <2>1 DEF Sole, Answers, Custodian, Closes, r
    <2> QED
        BY <1>1, <2>2 DEF Stand, HoldsStand, r
<1>5. r.job.epoch = entry.claim.epoch => entry.claim.gate # "held"
    BY <1>1 DEF Stand, Spent, r
<1>6. r.job.epoch # entry.claim.epoch /\ OutWithLeg(entry.coverage) => ~entry.reader
    BY <1>2, <1>4, StaleHasNoReader DEF Sole
<1>7. r.next = NoJob /\ r.followup = NoJob
    BY <1>1 DEF Shape, r
<1> QED
    BY <1>1, <1>2, <1>3, <1>4, <1>5, <1>6, <1>7 DEF r

\* A step of the thread the entry waits for that leaves s, and then may schedule.
LEMMA EngagedThenSchedules ==
    ASSUME Inv, Inv', Custody, NEW t \in Threads, Engaged(entry, thread[t]), Unmoved(t),
           NEW s, Keeps(entry, s), UNCHANGED <<queue, sends>>,
           Sole(t, s, thread'[t], reads'), s.claim.leg \in {entry.claim.leg, NoLeg},
           NewWork(s, thread'[t]) =>
               /\ NewWork(entry, thread[t])
               /\ LegsRun(thread'[t]) => thread'[t].job.epoch # entry.claim.epoch,
           thread'[t].job.epoch \in 0..entry.claim.epoch,
           thread'[t].next.epoch \in 0..entry.claim.epoch,
           thread'[t].followup.epoch \in 0..entry.claim.epoch,
           MaySchedule(s, entry')
    PROVE  Custody'
<1>1. s \in Entries /\ s.claim.epoch = entry.claim.epoch /\ entry.claim.epoch \in Nat
    BY SoundEpoch DEF Keeps, Sound, Inv
<1>2. Reached(s, thread'[t])
    BY <1>1 DEF Reached
<1>3. entry'.claim.epoch >= s.claim.epoch /\ entry'.claim.leg = s.claim.leg
    BY <1>1, <1>2, ScheduledSole
<1>4. ~InQueue /\ ~InSends /\ \A u \in Threads \ {t} : ~Engaged(entry, thread[u])
    BY EngagedAlone
<1>5. \A u \in Threads \ {t} : Quiet(u)
    BY <1>1, <1>3, <1>4, QuietUnchanged DEF Unmoved, LegSpares
<1> QED
    BY <1>4, <1>5, SoleThenSchedules

\* The thread the entry waits for is done, over s, which then may schedule.
LEMMA EngagedRests ==
    ASSUME Inv, Inv', Custody, NEW t \in Threads, Engaged(entry, thread[t]), Unmoved(t),
           thread'[t] = Idle, UNCHANGED <<queue, sends, reads>>,
           NEW s, Keeps(entry, s), s.claim.leg \in {entry.claim.leg, NoLeg},
           Sole(t, s, Idle, reads), NewWork(s, Idle) => entry.claim.gate = "scheduled",
           MaySchedule(s, entry')
    PROVE  Custody'
<1>1. Idle.job = NoJob /\ Idle.next = NoJob /\ Idle.followup = NoJob /\ ~LegsRun(Idle)
    BY IdleIs
<1>2. entry.claim.epoch \in Nat /\ NoJob.epoch = 0
    BY SoundEpoch DEF Inv, NoJob
<1>3. 0 \in 0..entry.claim.epoch
    BY <1>2
<1>4. NewWork(s, Idle) => NewWork(entry, thread[t])
    BY DEF NewWork
<1>5. /\ thread'[t].job.epoch \in 0..entry.claim.epoch
      /\ thread'[t].next.epoch \in 0..entry.claim.epoch
      /\ thread'[t].followup.epoch \in 0..entry.claim.epoch
    BY <1>1, <1>2, <1>3
<1> QED
    BY <1>1, <1>4, <1>5, EngagedThenSchedules

LEMMA ReleaseGateFields ==
    ASSUME NEW s \in Entries
    PROVE  LET q == ReleaseGate(s) IN
           /\ q \in Entries
           /\ q.claim.epoch = s.claim.epoch /\ q.claim.leg = s.claim.leg
           /\ q.claim.gate # "held"
           /\ q.claim.gate = "scheduled" =>
                  s.claim.gate = "scheduled" /\ q.claim.marker = s.claim.marker
           /\ q.coverage = s.coverage /\ q.reader = s.reader
           /\ q.detach_in_flight = s.detach_in_flight /\ q.detach_scheduled = s.detach_scheduled
           /\ q.leases = s.leases /\ q.pins = s.pins /\ q.pinned_leg = s.pinned_leg
<1>1. s.claim \in Claims
    BY EntryTyped
<1>2. Release(s.claim) \in Claims
    BY <1>1 DEF Release, SetGate, Claims
<1>3. LET c == Release(s.claim) IN
      /\ c.epoch = s.claim.epoch /\ c.leg = s.claim.leg /\ c.gate # "held"
      /\ c.gate = "scheduled" => s.claim.gate = "scheduled" /\ c.marker = s.claim.marker
    BY <1>1 DEF Release, SetGate, Claims
<1>4. LET q == ReleaseGate(s) IN
      /\ q.claim = Release(s.claim) /\ q.coverage = s.coverage /\ q.reader = s.reader
      /\ q.detach_in_flight = s.detach_in_flight /\ q.detach_scheduled = s.detach_scheduled
      /\ q.leases = s.leases /\ q.pins = s.pins /\ q.pinned_leg = s.pinned_leg
    BY DEF ReleaseGate, Entries
<1>5. ReleaseGate(s) \in Entries
    BY <1>2 DEF ReleaseGate, Entries
<1> QED
    BY <1>3, <1>4, <1>5

LEMMA CloseLegKeeps ==
    ASSUME Inv, Inv', Custody, NEW w \in Workers, CloseLeg(w) PROVE Custody'
<1> DEFINE r == thread[w]
           epoch == EpochOf(w)
           ended == [entry EXCEPT !.claim = EndJobLeg(@, epoch),
                                  !.coverage = ReleasedBy(@, epoch)]
<1>1. /\ r.pc = "closing" /\ r.pc # "idle" /\ UNCHANGED <<queue, sends, reads>>
      /\ \/ entry.claim.leg # JobLeg(epoch) /\ entry' = entry /\ Rests(w)
         \/ /\ entry.claim.leg = JobLeg(epoch) /\ entry.detach_in_flight
            /\ entry' = ended /\ GoesReleasing(w, FALSE, epoch, "idle")
         \/ /\ entry.claim.leg = JobLeg(epoch) /\ ~entry.detach_in_flight /\ ~Stands(w)
            /\ entry' = PublishDamageOrDemandedWork(ReleaseGate(ended)) /\ Rests(w)
         \/ /\ entry.claim.leg = JobLeg(epoch) /\ ~entry.detach_in_flight /\ Stands(w)
            /\ entry' = PublishDamage(ended) /\ Rests(w)
    BY DEF CloseLeg, At, Channel, Client
<1>2. w \in Threads /\ Shape(w, r) /\ Stand(entry, r) /\ r.job \in Jobs /\ w # Dispatcher
      /\ epoch = r.job.epoch /\ LegFor(r) = JobLeg(epoch) /\ Settled(entry)
    BY <1>1, WorkerIs DEF Custody
<1>3. Registers(entry, r) <=> entry.claim.leg = JobLeg(epoch)
    BY <1>1, <1>2 DEF Registers, LegsRun, Jobs, JobKinds
<1>4. epoch \in 0..entry.claim.epoch /\ PinsCounted(entry, reads) /\ entry.claim \in Claims
    BY <1>2, Facts, ThreadFacts, EntryTyped DEF Custody
<1>5. /\ Keeps(entry, ended) /\ Keeps(entry, ReleaseGate(ended))
      /\ ended \in Entries /\ ended.claim = EndJobLeg(entry.claim, epoch)
      /\ ended.coverage = ReleasedBy(entry.coverage, epoch)
      /\ ended.reader = entry.reader /\ ended.detach_in_flight = entry.detach_in_flight
      /\ ended.detach_scheduled = entry.detach_scheduled /\ ended.leases = entry.leases
      /\ ended.pins = entry.pins /\ ended.pinned_leg = entry.pinned_leg
    BY <1>4, EndedIs
<1>9. Stands(w) <=> r.job.epoch = entry.claim.epoch
    BY <1>2 DEF Stands, StandsAtEpoch, StandsAt
<1> HIDE DEF ended, r, epoch
<1>6. CASE entry.claim.leg # JobLeg(epoch)
    <2>1. entry' = entry /\ Rests(w)
        BY <1>1, <1>6
    <2>2. ~Engaged(entry, r)
        BY <1>1, <1>2, <1>3, <1>6 DEF Engaged, Closes, Carries, Standing, Shape
    <2>3. Unmoved(w) /\ thread'[w] = Idle /\ SameStanding(entry, entry')
        BY <1>2, <2>1, RestsTo DEF SameStanding
    <2> QED
        BY <1>1, <1>2, <2>2, <2>3, QuietIdles DEF r
<1>7. CASE entry.claim.leg = JobLeg(epoch)
    <2>1. /\ Registers(entry, r) /\ Engaged(entry, r) /\ entry.pinned_leg = NoLeg
          /\ OutWithLeg(entry.coverage) => entry.coverage = OnLeg(epoch)
          /\ r.job.epoch = entry.claim.epoch =>
                 entry.claim.gate # "held" /\ (OutWithLeg(entry.coverage) => entry.detach_in_flight)
          /\ r.job.epoch # entry.claim.epoch /\ OutWithLeg(entry.coverage) => ~entry.reader
        BY <1>1, <1>2, <1>3, <1>7, ClosingIs DEF r
    <2>2. /\ ended.claim.epoch = entry.claim.epoch /\ ended.claim.leg = NoLeg
          /\ ended.claim.gate = entry.claim.gate /\ ended.claim.marker = entry.claim.marker
        BY <1>4, <1>5, <1>7 DEF EndJobLeg, EndRunningLeg, Claims
    <2>3. \/ ended.coverage = entry.coverage /\ ~OutWithLeg(entry.coverage)
          \/ ended.coverage = NoCoverage /\ OutWithLeg(entry.coverage)
        BY <1>5, <2>1 DEF ReleasedBy, OnLeg, OutWithLeg
    <2>4. CASE entry.detach_in_flight
        <3>1. entry' = ended /\ GoesReleasing(w, FALSE, epoch, "idle")
            BY <1>1, <1>7, <2>4
        <3>2. PICK held \in BOOLEAN : ~held /\ GoesReleasing(w, held, epoch, "idle")
            BY <3>1
        <3>3. Unmoved(w) /\ Releases(w, thread[w], thread'[w]) /\ ~thread'[w].held
            BY <1>1, <1>2, <3>2, ReleasingTo DEF Releases, r
        <3>4. /\ entry.claim.gate = "open" /\ ~entry.reader /\ ~InHandOf(entry)
              /\ ended.coverage = NoCoverage
            BY <1>2, <2>3, <2>4 DEF Settled, InHandOf, InHand, Parked
        <3>5. PinsCounted(entry', reads') /\ entry.claim.epoch \in Nat
            BY <1>1, <1>4, <1>5, <3>1, Facts DEF PinsCounted
        <3>6. /\ entry'.claim.epoch = entry.claim.epoch /\ entry'.claim.leg = NoLeg
              /\ entry'.claim.gate = "open" /\ entry'.detach_in_flight /\ ~entry'.reader
              /\ entry'.pinned_leg = NoLeg /\ entry'.coverage = NoCoverage
            BY <1>5, <2>1, <2>2, <2>4, <3>1, <3>4
        <3>7. entry.claim.epoch' >= entry.claim.epoch
            BY <3>5, <3>6
        <3>8. w \in Threads /\ Registers(entry, thread[w])
            BY <1>2, <2>1 DEF r
        <3>9. UNCHANGED <<queue, sends>>
            BY <1>1
        <3> QED
            BY <3>3, <3>5, <3>6, <3>7, <3>8, <3>9, ReleasesKeeps
    <2>5. CASE ~entry.detach_in_flight
        <3>1. PICK s \in {ended, ReleaseGate(ended)} :
                  /\ \/ s = ReleaseGate(ended) /\ entry' = PublishDamageOrDemandedWork(s)
                     \/ s = ended /\ entry' = PublishDamage(s) /\ Stands(w)
                  /\ Rests(w)
                  /\ ~Stands(w) \/ s = ended
            BY <1>1, <1>7, <2>5
        <3>2. /\ Keeps(entry, s) /\ s \in Entries
              /\ s.claim.epoch = entry.claim.epoch /\ s.claim.leg = NoLeg /\ s.claim.gate # "held"
              /\ s.claim.gate = "scheduled" =>
                     entry.claim.gate = "scheduled" /\ s.claim.marker = entry.claim.marker
              /\ s.coverage = ended.coverage /\ s.reader = entry.reader
              /\ s.detach_in_flight = entry.detach_in_flight
              /\ s.detach_scheduled = entry.detach_scheduled /\ s.leases = entry.leases
              /\ s.pins = entry.pins /\ s.pinned_leg = entry.pinned_leg
            <4>1. CASE s = ended
                <5>1. r.job.epoch = entry.claim.epoch \/ s = ReleaseGate(ended)
                    BY <1>9, <3>1
                <5>2. CASE r.job.epoch = entry.claim.epoch
                    BY <1>5, <2>1, <2>2, <4>1, <5>2
                <5>3. CASE s = ReleaseGate(ended)
                    BY <1>5, <2>2, <5>3, ReleaseGateFields DEF Keeps, Sound
                <5> QED
                    BY <5>1, <5>2, <5>3
            <4>2. CASE s = ReleaseGate(ended)
                BY <1>5, <2>2, <4>2, ReleaseGateFields DEF Keeps, Sound
            <4> QED
                BY <3>1, <4>1, <4>2
        <3>3. OutWithLeg(entry.coverage) => ~entry.reader
            BY <2>1, <2>5
        <3>4. \/ s.coverage = entry.coverage /\ ~OutWithLeg(entry.coverage)
              \/ s.coverage = NoCoverage /\ OutWithLeg(entry.coverage) /\ ~entry.reader
            BY <2>3, <3>2, <3>3
        <3>5. Sole(w, s, Idle, reads) /\ (NewWork(s, Idle) => entry.claim.gate = "scheduled")
            BY <1>2, <1>4, <2>1, <2>5, <3>2, <3>4, ClosedSole
        <3>6. MaySchedule(s, entry')
            BY <2>5, <3>1, <3>2, WaysToSchedule
        <3>7. Unmoved(w) /\ thread'[w] = Idle
            BY <1>2, <3>1, RestsTo
        <3>8. w \in Threads /\ Engaged(entry, thread[w]) /\ UNCHANGED <<queue, sends, reads>>
            BY <1>1, <1>2, <2>1 DEF r
        <3> QED
            BY <3>2, <3>5, <3>6, <3>7, <3>8, EngagedRests
    <2> QED
        BY <2>4, <2>5
<1> QED
    BY <1>6, <1>7

----------------------------------------------------------------------------
(* The watcher poll                                                        *)

LEMMA PollingIs ==
    ASSUME Inv, Custody, At(Dispatcher, "polling")
    PROVE  LET r == thread[Dispatcher]
               u == PollUnpinned IN
           /\ Dispatcher \in Threads /\ Shape(Dispatcher, r)
           /\ Registers(entry, r) /\ Engaged(entry, r) /\ entry.claim.leg = LegFor(r)
           /\ r.pc = "polling" /\ r.job.kind = "Poll" /\ EpochOf(Dispatcher) = r.job.epoch
           /\ LegFor(r) = PollLeg(r.job.epoch)
           /\ r.next = NoJob /\ r.followup = NoJob
           /\ entry.claim.gate = "held" \/ entry.detach_in_flight
           /\ Stands(Dispatcher) => entry.claim.gate = "held" /\ ~entry.detach_in_flight
           /\ Settled(entry) /\ entry.coverage = OnLeg(r.job.epoch)
           /\ Keeps(entry, u) /\ u \in Entries
           /\ u.claim = entry.claim /\ u.coverage = entry.coverage
           /\ u.reader = entry.reader /\ u.detach_in_flight = entry.detach_in_flight
           /\ u.detach_scheduled = entry.detach_scheduled /\ u.leases = entry.leases
           /\ u.pins = reads /\ u.pinned_leg = NoLeg /\ reads \in Nat
<1> DEFINE r == thread[Dispatcher]
           u == PollUnpinned
<1>1. /\ Dispatcher \in Threads /\ r.pc = "polling" /\ Shape(Dispatcher, r) /\ Stand(entry, r)
      /\ Settled(entry) /\ PinsCounted(entry, reads) /\ reads \in Nat /\ entry \in Entries
    BY Facts DEF At, Custody, ThreadsStand, Threads, Inv, RestInv
<1>2. /\ r.job.kind = "Poll" /\ EpochOf(Dispatcher) = r.job.epoch
      /\ LegFor(r) = PollLeg(r.job.epoch) /\ LegOf(Dispatcher) = LegFor(r)
      /\ r.next = NoJob /\ r.followup = NoJob /\ Holds(r)
    BY <1>1 DEF Shape, EpochOf, LegFor, LegOf, KindOf, Holds
<1>3. /\ Registers(entry, r) /\ Engaged(entry, r) /\ entry.claim.leg = LegFor(r)
      /\ entry.claim.gate = "held" \/ entry.detach_in_flight
      /\ entry.coverage = OnLeg(r.job.epoch) /\ entry.pinned_leg = LegFor(r)
    BY <1>1, <1>2 DEF Stand, HoldsStand, Engaged, Registers
<1>4. Stands(Dispatcher) => entry.claim.gate = "held" /\ ~entry.detach_in_flight
    BY <1>1, <1>2 DEF Stands, StandsAtEpoch, StandsAt, Stand, LiveStand, Live
<1>5. Keeps(entry, u) /\ u \in Entries
    BY PollFacts DEF Keeps, Sound
<1>6. entry.pins = reads + 1
    BY <1>1, <1>2, <1>3 DEF PinsCounted, PollLeg, NoLeg
<1>7. u = [[entry EXCEPT !.pinned_leg = NoLeg] EXCEPT !.pins = reads]
    <2> DEFINE p == [entry EXCEPT !.pinned_leg = NoLeg]
    <2>1. u = Unpin(p) /\ p.pins = entry.pins
        BY <1>1, <1>2, <1>3 DEF PollUnpinned, UnpinLeg, Entries
    <2>2. entry.pins > 0 /\ entry.pins - 1 = reads
        BY <1>1, <1>6
    <2> HIDE DEF p
    <2>3. Unpin(p) = [p EXCEPT !.pins = reads]
        BY <2>1, <2>2 DEF Unpin
    <2> QED
        BY <2>1, <2>3 DEF p
<1>8. /\ u.claim = entry.claim /\ u.coverage = entry.coverage
      /\ u.reader = entry.reader /\ u.detach_in_flight = entry.detach_in_flight
      /\ u.detach_scheduled = entry.detach_scheduled /\ u.leases = entry.leases
      /\ u.pins = reads /\ u.pinned_leg = NoLeg
    BY <1>1, <1>7 DEF Entries
<1> QED
    BY <1>1, <1>2, <1>3, <1>4, <1>5, <1>8

\* A thread past all its work, over an open entry that holds what it has.
LEMMA RestsSole ==
    ASSUME NEW t \in Threads, NEW p, NEW q, NEW n \in Nat,
           p.claim.gate = "open", p.claim.leg = NoLeg, p.coverage \in {NoCoverage, Parked},
           p.reader => p.coverage = Parked, ~p.detach_in_flight, p.pinned_leg = NoLeg, p.pins = n,
           \/ q = Idle
           \/ /\ t = Dispatcher /\ q.pc = "classifying" /\ ~q.held /\ q.job = NoJob
              /\ q.next = NoJob /\ q.followup = NoJob /\ q.after = "idle"
    PROVE  Sole(t, p, q, n) /\ ~NewWork(p, q)
<1>1. /\ Settled(p) /\ PinsCounted(p, n) /\ ~Running(p.claim) /\ ~OutWithLeg(p.coverage)
    BY DEF Settled, PinsCounted, Running, OutWithLeg, AccountedFor, NoCoverage, Parked
<1>2. Answers(p, q) /\ HeldFor(p, q)
    BY <1>1 DEF Answers, HeldFor
<1>3. CASE q = Idle
    BY <1>1, <1>2, <1>3, IdleIs DEF Sole
<1>4. CASE /\ t = Dispatcher /\ q.pc = "classifying" /\ ~q.held /\ q.job = NoJob
           /\ q.next = NoJob /\ q.followup = NoJob /\ q.after = "idle"
    <2>1. Dispatcher \notin Workers /\ Dispatcher # Registrar
        BY ThreadsAssumption
    <2>2. Shape(t, q)
        BY <1>4, <2>1 DEF Shape, NoJob
    <2>3. /\ ~Registers(p, q) /\ ~Closes(q) /\ ~Carries(p, q) /\ ~Standing(p, q.next)
          /\ ~Holds(q) /\ ~Live(p, q)
        BY <1>4 DEF Registers, Closes, Carries, Standing, Holds, Live, NoJob
    <2>4. HoldsStand(p, q) /\ LiveStand(p, q) /\ NextStand(p, q) /\ CloseStand(p, q) /\ Spent(p, q)
        BY <2>3 DEF HoldsStand, LiveStand, NextStand, CloseStand, Spent
    <2>5. CarryStand(p, q)
        BY <2>3 DEF CarryStand, Carries
    <2> QED
        BY <1>1, <1>2, <2>2, <2>3, <2>4, <2>5 DEF Sole, Stand, NewWork
<1> QED
    BY <1>3, <1>4

\* A poll that ends over s leaves its coverage parked and the gate open.
LEMMA PollEndedFields ==
    ASSUME NEW s \in Entries, NEW epoch, epoch = EpochOf(Dispatcher),
           s.claim.leg = PollLeg(epoch), s.claim.gate # "scheduled"
    PROVE  LET p == PollEnded(s) IN
           /\ p.claim.epoch = s.claim.epoch /\ p.claim.gate = "open" /\ p.claim.leg = NoLeg
           /\ p.coverage = Parked /\ p.reader = s.reader
           /\ p.detach_in_flight = s.detach_in_flight /\ p.pins = s.pins
           /\ p.pinned_leg = s.pinned_leg
<1>1. s.claim \in Claims
    BY DEF Entries
<1> DEFINE c == EndPoll(s.claim, epoch)
<1>2. c.epoch = s.claim.epoch /\ c.gate = "open" /\ c.leg = NoLeg
    <2>1. /\ EndRunningLeg(s.claim).epoch = s.claim.epoch /\ EndRunningLeg(s.claim).leg = NoLeg
          /\ EndRunningLeg(s.claim).gate = s.claim.gate
          /\ EndRunningLeg(s.claim) \in Claims
        BY <1>1 DEF EndRunningLeg, Claims
    <2>2. c = Release(EndRunningLeg(s.claim))
        BY DEF EndPoll
    <2> QED
        BY <2>1, <2>2, GateFields DEF ClaimIs
<1> HIDE DEF c
<1>3. LET p == PollEnded(s) IN
      /\ p.claim = c /\ p.coverage = Parked /\ p.reader = s.reader
      /\ p.detach_in_flight = s.detach_in_flight /\ p.pins = s.pins
      /\ p.pinned_leg = s.pinned_leg
    BY DEF PollEnded, Park, ParkBy, c, Entries
<1> QED
    BY <1>2, <1>3

PollDone ==
    \/ Rests(Dispatcher)
    \/ \E lost : thread' = [thread EXCEPT ![Dispatcher] =
          [Idle EXCEPT !.pc = "classifying", !.lost = lost]]

\* A poll that ends over s, and leaves what p, which differs from it in no custody,
\* then schedules.
LEMMA PollEnds ==
    ASSUME Inv, Inv', Custody, PollStands, UNCHANGED <<queue, sends, reads>>,
           NEW s, Keeps(entry, s), SameCustody(PollUnpinned, s),
           NEW p, Keeps(entry, p), SameCustody(PollEnded(s), p),
           \/ \E owes \in BOOLEAN : entry' = PollSchedules(p, owes)
           \/ entry' = ScheduleJob(p, "Rebuild"),
           PollDone
    PROVE  Custody'
<1> DEFINE q == thread'[Dispatcher]
           u == PollUnpinned
<1>1. At(Dispatcher, "polling") /\ Stands(Dispatcher)
    BY DEF PollStands
<1>2. LET r == thread[Dispatcher] IN
      /\ Dispatcher \in Threads /\ Engaged(entry, r) /\ entry.claim.leg = PollLeg(r.job.epoch)
      /\ EpochOf(Dispatcher) = r.job.epoch
      /\ entry.claim.gate = "held" /\ ~entry.detach_in_flight
      /\ Settled(entry) /\ entry.coverage = OnLeg(r.job.epoch)
      /\ u.claim = entry.claim /\ u.detach_in_flight = entry.detach_in_flight
      /\ u.pins = reads /\ u.pinned_leg = NoLeg /\ reads \in Nat
    BY <1>1, PollingIs
<1>3. /\ s.claim = entry.claim /\ ~s.detach_in_flight /\ s.pins = reads /\ s.pinned_leg = NoLeg
      /\ s \in Entries /\ p \in Entries
    BY <1>2 DEF SameCustody, Keeps, Sound
<1>4. /\ p.claim.gate = "open" /\ p.claim.leg = NoLeg /\ p.coverage = Parked
      /\ ~p.detach_in_flight /\ p.pinned_leg = NoLeg /\ p.pins = reads
    BY <1>2, <1>3, PollEndedFields DEF SameCustody
<1>5. MaySchedule(p, entry')
    <2>1. InHandOf(p)
        BY <1>4 DEF InHandOf, InHand, Parked
    <2>2. CASE entry' = ScheduleJob(p, "Rebuild")
        BY <1>3, <1>4, <2>1, <2>2, JobMaySchedule DEF MaySchedule, JobKinds
    <2>3. CASE \E owes \in BOOLEAN : entry' = PollSchedules(p, owes)
        <3>1. PICK owes \in BOOLEAN : entry' = PollSchedules(p, owes)
            BY <2>3
        <3>2. CASE owes
            BY <1>3, <1>4, <2>1, <3>1, <3>2, JobMaySchedule DEF PollSchedules, MaySchedule, JobKinds
        <3>3. CASE ~owes
            <4>1. entry' = PollSchedules(p, FALSE)
                BY <3>1, <3>3 DEF PollSchedules
            <4>2. MaySchedule(p, PollSchedules(p, FALSE))
                BY <1>3, <1>4, WaysToSchedule
            <4> QED
                BY <4>1, <4>2
        <3> QED
            BY <3>2, <3>3
    <2> QED
        BY <2>2, <2>3
<1>6. /\ Unmoved(Dispatcher)
      /\ \/ q = Idle
         \/ /\ q.pc = "classifying" /\ ~q.held /\ q.job = NoJob
            /\ q.next = NoJob /\ q.followup = NoJob /\ q.after = "idle"
    <2>1. thread \in [Threads -> ThreadStates]
        BY DEF Inv, ThreadInv
    <2>2. CASE Rests(Dispatcher)
        BY <1>2, <2>2, RestsTo
    <2>3. CASE ~Rests(Dispatcher)
        <3>1. PICK lost : thread' = [thread EXCEPT ![Dispatcher] =
                  [Idle EXCEPT !.pc = "classifying", !.lost = lost]]
            BY <2>3 DEF PollDone
        <3>2. Unmoved(Dispatcher) /\ q = [Idle EXCEPT !.pc = "classifying", !.lost = lost]
            BY <1>2, <2>1, <3>1 DEF Unmoved
        <3> QED
            BY <3>2 DEF Idle
    <2> QED
        BY <2>2, <2>3
<1>7. p.claim.leg \in {entry.claim.leg, NoLeg} /\ reads' = reads
    BY <1>4
<1>8. Sole(Dispatcher, p, q, reads) /\ ~NewWork(p, q)
    BY <1>2, <1>4, <1>6, RestsSole
<1>9. q.job.epoch = 0 /\ q.next.epoch = 0 /\ q.followup.epoch = 0
    BY <1>6, IdleIs DEF NoJob
<1>10. 0 \in 0..entry.claim.epoch
    BY SoundEpoch DEF Inv
<1> QED
    BY <1>2, <1>5, <1>6, <1>7, <1>8, <1>9, <1>10, EngagedThenSchedules

\* The moves of trust and rungs a poll may make are of no custody.
LEMMA PollMovesAlike ==
    ASSUME NEW s \in Entries, NEW batch \in Batches
    PROVE  /\ SameCustody(s, Merge(s, batch)) /\ SameCustody(s, RequireRecoveryKeepingDemands(s))
           /\ SameCustody(s, WithdrawTrustForDamage(s))
           /\ \A trust : SameCustody(s, SetTrust(s, trust))
           /\ SameCustody(s, PublishPendingReconcile(s)) /\ SameCustody(s, s)
BY DEF SameCustody, Merge, RequireRecoveryKeepingDemands, WithdrawTrustForDamage, SetTrust,
       RequireRebuild, RetireRecoveryDemands, PublishPendingReconcile, Entries

LEMMA PollFindsNothingKeeps ==
    ASSUME Inv, Inv', Custody, PollFindsNothing PROVE Custody'
<1> DEFINE u == PollUnpinned
           parked == PollEnded(u)
           owes == ~OwesARung(parked) /\ parked.pending # "none"
           p == IF owes THEN PublishPendingReconcile(parked) ELSE parked
<1>1. /\ PollStands /\ Rests(Dispatcher) /\ UNCHANGED <<queue, sends, reads>>
      /\ entry' = PollSchedules(p, owes)
    BY DEF PollFindsNothing, Channel, Client
<1>2. Keeps(entry, u) /\ SameCustody(u, u)
    BY PollFacts DEF SameCustody
<1>3. Keeps(entry, parked) /\ Keeps(entry, PublishPendingReconcile(parked))
    BY <1>2, PollEndedKeeps, PublishKeeps
<1>4. parked \in Entries
    BY <1>3 DEF Keeps, Sound
<1>5. owes \in BOOLEAN
    OBVIOUS
<1> HIDE DEF owes, u
<1>6. Keeps(entry, p) /\ SameCustody(parked, p)
    <2> HIDE DEF parked
    <2>1. "none" \in Batches
        BY DEF Batches
    <2> QED
        BY <1>3, <1>4, <2>1, PollMovesAlike
<1> HIDE DEF p
<1> QED
    BY <1>1, <1>2, <1>5, <1>6, PollEnds DEF u, PollDone

LEMMA PollFindsFactsKeeps ==
    ASSUME Inv, Inv', Custody, PollFindsFacts PROVE Custody'
<1>1. PICK batch \in Batches :
        LET merged == Merge(PollUnpinned, batch)
            trusted == SetTrust(merged, IF batch = "rescan" THEN "Overflow" ELSE "Healing")
            owes == ~OwesARung(merged)
        IN  entry' = PollSchedules(PollEnded(IF owes THEN trusted ELSE merged), owes)
    BY DEF PollFindsFacts
<1> DEFINE merged == Merge(PollUnpinned, batch)
           trust == IF batch = "rescan" THEN "Overflow" ELSE "Healing"
           owes == ~OwesARung(merged)
           left == IF owes THEN SetTrust(merged, trust) ELSE merged
<1>2. /\ entry' = PollSchedules(PollEnded(left), owes) /\ owes \in BOOLEAN
      /\ trust \in Trusts
    BY <1>1 DEF Trusts, Warm, Distrust
<1>3. Keeps(entry, merged) /\ PollUnpinned \in Entries
    BY PollFacts, AlikeKept, FactsAlike DEF Keeps, Sound
<1>4. SameCustody(PollUnpinned, merged) /\ merged \in Entries
    BY <1>3, PollMovesAlike DEF Keeps, Sound
<1> HIDE DEF merged, trust
<1>5. Keeps(entry, left)
    BY <1>2, <1>3, AlikeKept, TrustAlike
<1>6. SameCustody(merged, left)
    <2>1. "none" \in Batches
        BY DEF Batches
    <2> HIDE DEF owes
    <2> QED
        BY <1>4, <2>1, PollMovesAlike
<1> HIDE DEF left, owes
<1>7. SameCustody(PollUnpinned, left)
    BY <1>4, <1>6, AlikeSchedules
<1>8. Keeps(entry, PollEnded(left)) /\ SameCustody(PollEnded(left), PollEnded(left))
    BY <1>5, PollEndedKeeps DEF SameCustody
<1>9. PollStands /\ PollDone /\ UNCHANGED <<queue, sends, reads>>
    BY DEF PollFindsFacts, PollDone, Channel, Client
<1>10. \E owing \in BOOLEAN : entry' = PollSchedules(PollEnded(left), owing)
    BY <1>2
<1> QED
    BY <1>5, <1>7, <1>8, <1>9, <1>10, PollEnds

\* A gate that a poll holds is held by no marker.
LEMMA PollDropped ==
    ASSUME Inv, Custody, PollStands
    PROVE  LET dropped == [PollUnpinned EXCEPT !.claim = DropMarker(@)] IN
           /\ Keeps(entry, dropped) /\ dropped \in Entries /\ SameCustody(PollUnpinned, dropped)
<1> DEFINE u == PollUnpinned
           dropped == [u EXCEPT !.claim = DropMarker(@)]
<1>1. At(Dispatcher, "polling") /\ Stands(Dispatcher)
    BY DEF PollStands
<1>2. u \in Entries /\ u.claim = entry.claim /\ entry.claim.gate = "held"
    BY <1>1, PollingIs
<1>3. Keeps(entry, dropped) /\ dropped \in Entries
    BY PollDroppedKeeps DEF Keeps, Sound
<1> HIDE DEF u
<1>4. DropMarker(u.claim) = u.claim
    BY <1>2 DEF DropMarker
<1>5. SameCustody(u, dropped)
    BY <1>2, <1>4 DEF SameCustody, Entries
<1> QED
    BY <1>3, <1>5 DEF u

LEMMA PollFailsKeeps ==
    ASSUME Inv, Inv', Custody, PollFails PROVE Custody'
<1> DEFINE dropped == [PollUnpinned EXCEPT !.claim = DropMarker(@)]
           owing == RequireRecoveryKeepingDemands(dropped)
           merged == Merge(owing, "rescan")
           left == SetTrust(merged, "Untrusted")
<1>1. PollStands /\ UNCHANGED <<queue, sends, reads>>
    BY DEF PollFails, Channel, Client
<1>2. PollDone
    BY DEF PollFails, PollDone
<1>3. entry' = PollSchedules(PollEnded(left), FALSE)
    BY DEF PollFails
<1>4. Keeps(entry, dropped) /\ dropped \in Entries /\ SameCustody(PollUnpinned, dropped)
    BY <1>1, PollDropped
<1> HIDE DEF dropped
<1>5. "rescan" \in Batches
    BY DEF Batches
<1>6. Keeps(entry, owing) /\ SameCustody(dropped, owing)
    BY <1>4, <1>5, AlikeKept, FlagsAlike, PollMovesAlike
<1> HIDE DEF owing
<1>7. Keeps(entry, merged) /\ SameCustody(owing, merged)
    <2>1. owing \in Entries
        BY <1>6 DEF Keeps, Sound
    <2> QED
        BY <1>5, <1>6, <2>1, AlikeKept, FactsAlike, PollMovesAlike
<1> HIDE DEF merged
<1>8. Keeps(entry, left) /\ SameCustody(merged, left)
    <2>1. merged \in Entries
        BY <1>7 DEF Keeps, Sound
    <2> QED
        BY <1>5, <1>7, <2>1, AlikeKept, TrustAlike, PollMovesAlike DEF Trusts, Distrust
<1> HIDE DEF left
<1>9. SameCustody(PollUnpinned, left)
    BY <1>4, <1>6, <1>7, <1>8, AlikeSchedules
<1>10. Keeps(entry, PollEnded(left)) /\ SameCustody(PollEnded(left), PollEnded(left))
    BY <1>8, PollEndedKeeps DEF SameCustody
<1>11. \E owes \in BOOLEAN : entry' = PollSchedules(PollEnded(left), owes)
    BY <1>3
<1> QED
    BY <1>1, <1>2, <1>8, <1>9, <1>10, <1>11, PollEnds

LEMMA PollFindsDamageKeeps ==
    ASSUME Inv, Inv', Custody, PollFindsDamage PROVE Custody'
<1> DEFINE dropped == [PollUnpinned EXCEPT !.claim = DropMarker(@)]
           withdrawn == WithdrawTrustForDamage(dropped)
<1>1. PollStands /\ UNCHANGED <<queue, sends, reads>> /\ PollDone
    BY DEF PollFindsDamage, PollDone, Channel, Client
<1>2. entry' = ScheduleJob(PollEnded(withdrawn), "Rebuild")
    BY DEF PollFindsDamage
<1>3. Keeps(entry, dropped) /\ dropped \in Entries /\ SameCustody(PollUnpinned, dropped)
    BY <1>1, PollDropped
<1> HIDE DEF dropped
<1>4. "rescan" \in Batches
    BY DEF Batches
<1>5. Keeps(entry, withdrawn) /\ SameCustody(dropped, withdrawn)
    BY <1>3, <1>4, AlikeKept, RungsAlike, PollMovesAlike
<1> HIDE DEF withdrawn
<1>6. SameCustody(PollUnpinned, withdrawn)
    BY <1>3, <1>5, AlikeSchedules
<1>7. Keeps(entry, PollEnded(withdrawn)) /\ SameCustody(PollEnded(withdrawn), PollEnded(withdrawn))
    BY <1>5, PollEndedKeeps DEF SameCustody
<1> QED
    BY <1>1, <1>2, <1>5, <1>6, <1>7, PollEnds

LEMMA PollLosesLockKeeps ==
    ASSUME Inv, Inv', Custody, PollLosesLock PROVE Custody'
<1> DEFINE r == thread[Dispatcher]
           q == thread'[Dispatcher]
           u == PollUnpinned
<1>1. /\ At(Dispatcher, "polling") /\ UNCHANGED <<queue, sends, reads>>
      /\ GoesReleasing(Dispatcher, TRUE, EpochOf(Dispatcher), "idle")
    BY DEF PollLosesLock, PollStands, Channel, Client
<1>2. PICK contended \in BOOLEAN :
          entry' = BeginRelease([u EXCEPT !.contended = @ \/ contended, !.claim = Supersede(@)])
    BY DEF PollLosesLock
<1> DEFINE v == [u EXCEPT !.contended = @ \/ contended, !.claim = Supersede(@)]
<1>3. /\ Dispatcher \in Threads /\ Registers(entry, r) /\ r.pc = "polling"
      /\ EpochOf(Dispatcher) = r.job.epoch /\ entry.coverage = OnLeg(r.job.epoch)
      /\ u \in Entries /\ u.claim = entry.claim /\ u.coverage = entry.coverage
      /\ u.pins = reads /\ u.pinned_leg = NoLeg /\ reads \in Nat
    BY <1>1, PollingIs
<1> HIDE DEF u
<1>4. v \in Entries /\ v.claim = Supersede(u.claim) /\ v.coverage = u.coverage /\ v.pins = u.pins
      /\ v.pinned_leg = u.pinned_leg
    <2>1. (u.contended \/ contended) \in BOOLEAN
        OBVIOUS
    <2>2. Supersede(u.claim) \in Claims
        BY <1>3 DEF Supersede, Entries, Claims
    <2> QED
        BY <1>3, <2>1, <2>2 DEF Entries
<1>5. entry' = BeginRelease(v)
    BY <1>2 DEF v
<1> HIDE DEF v
<1>6. v.claim.epoch = entry.claim.epoch + 1 /\ v.claim.leg = entry.claim.leg
    BY <1>3, <1>4, GateFields DEF ClaimIs, Entries
<1>7. /\ entry'.claim.epoch = entry.claim.epoch + 1 /\ entry'.claim.leg = entry.claim.leg
      /\ entry'.claim.gate = "open" /\ entry'.detach_in_flight /\ ~entry'.reader
      /\ entry'.pinned_leg = NoLeg /\ entry'.pins = reads /\ entry'.coverage = entry.coverage
    BY <1>3, <1>4, <1>5, <1>6, BeginReleaseFields DEF ClaimIs
<1>8. PICK held \in BOOLEAN : GoesReleasing(Dispatcher, held, EpochOf(Dispatcher), "idle")
    BY <1>1
<1>9. Unmoved(Dispatcher) /\ Releases(Dispatcher, r, q)
    BY <1>3, <1>8, ReleasingTo DEF Releases
<1>10. PinsCounted(entry', reads') /\ entry.claim.epoch \in Nat
    BY <1>1, <1>3, <1>7, SoundEpoch DEF PinsCounted, Inv
<1>11. entry.claim.epoch' >= entry.claim.epoch
    BY <1>7, <1>10
<1> QED
    BY <1>1, <1>3, <1>7, <1>9, <1>10, <1>11, ReleasesKeeps

LEMMA PollStaleKeeps ==
    ASSUME Inv, Inv', Custody, PollStale PROVE Custody'
<1> DEFINE r == thread[Dispatcher]
           q == thread'[Dispatcher]
           e == entry'
<1>1. /\ At(Dispatcher, "polling") /\ UNCHANGED <<queue, sends, reads>> /\ ~Stands(Dispatcher)
      /\ Goes(Dispatcher, "stale", TRUE) /\ entry' = PollUnpinned
    BY DEF PollStale, Channel, Client
<1>2. /\ Dispatcher \in Threads /\ Shape(Dispatcher, r) /\ Registers(entry, r) /\ r.pc = "polling"
      /\ r.job.kind = "Poll" /\ EpochOf(Dispatcher) = r.job.epoch
      /\ entry.claim.gate = "held" \/ entry.detach_in_flight
      /\ Settled(entry) /\ entry.coverage = OnLeg(r.job.epoch)
      /\ e.claim = entry.claim /\ e.coverage = entry.coverage
      /\ e.reader = entry.reader /\ e.detach_in_flight = entry.detach_in_flight
      /\ e.detach_scheduled = entry.detach_scheduled /\ e.leases = entry.leases
      /\ e.pins = reads /\ e.pinned_leg = NoLeg /\ reads \in Nat
    BY <1>1, PollingIs
<1>3. r.job.epoch # entry.claim.epoch
    BY <1>1, <1>2 DEF Stands, StandsAtEpoch, StandsAt
<1>4. PICK held \in BOOLEAN : held /\ Goes(Dispatcher, "stale", held)
    BY <1>1
<1>5. Unmoved(Dispatcher) /\ SameWork(r, q) /\ q.after = "idle" /\ q.pc = "stale" /\ q.held
    BY <1>2, <1>4, GoesTo
<1>6. Dispatcher \notin Workers
    BY ThreadsAssumption
<1>7. Ends(Dispatcher, r, q) /\ q.job = r.job
    BY <1>2, <1>5, <1>6 DEF Ends, SameWork
<1> HIDE DEF r, q, e
<1>8. /\ ~entry.reader /\ ~InHandOf(e)
    BY <1>2, <1>3, StaleHasNoReader DEF InHandOf, InHand, OnLeg
<1>9. Settled(e)
    <2>1. OutWithLeg(e.coverage) /\ e.claim.gate # "scheduled"
        BY <1>2 DEF OutWithLeg, OnLeg, Settled
    <2> QED
        BY <1>2, <1>8, <2>1 DEF Settled
<1>10. HeldStands(e, q)
    BY <1>2, <1>3, <1>5, <1>7 DEF HeldStands
<1>11. PinsCounted(e, reads') /\ entry.claim.epoch \in Nat
    BY <1>1, <1>2, Facts DEF PinsCounted
<1>12. /\ entry.claim.epoch' >= entry.claim.epoch /\ entry.claim.leg' = entry.claim.leg
       /\ entry.claim.gate' = "scheduled" => entry.claim.gate = "scheduled"
       /\ r.job.epoch = entry.claim.epoch' => entry.claim.gate' # "held"
       /\ q.held /\ r.job.kind # "Attach"
    BY <1>2, <1>3, <1>5, <1>11 DEF e
<1> QED
    BY <1>1, <1>2, <1>5, <1>7, <1>9, <1>10, <1>11, <1>12, LegGoesOver DEF r, q, e

\* A poll that is over holds what it took until it has given it back.
LEMMA PollOverIs ==
    ASSUME Inv, Custody, At(Dispatcher, "stale") \/ At(Dispatcher, "closing")
    PROVE  LET r == thread[Dispatcher] IN
           /\ Dispatcher \in Threads /\ Shape(Dispatcher, r)
           /\ Registers(entry, r) /\ Engaged(entry, r) /\ r.held
           /\ entry.claim.leg = LegFor(r) /\ LegOf(Dispatcher) = LegFor(r)
           /\ r.job.kind = "Poll" /\ EpochOf(Dispatcher) = r.job.epoch
           /\ LegFor(r) = PollLeg(r.job.epoch) /\ r.next = NoJob /\ r.followup = NoJob
           /\ entry.claim.gate = "held" \/ entry.detach_in_flight
           /\ ~entry.detach_in_flight => r.job.epoch # entry.claim.epoch
           /\ Settled(entry) /\ PinsCounted(entry, reads) /\ entry.pinned_leg = NoLeg
           /\ entry.coverage = OnLeg(r.job.epoch) /\ ~entry.reader
<1> DEFINE r == thread[Dispatcher]
<1>1. /\ Dispatcher \in Threads /\ r.pc \in {"stale", "closing"} /\ Shape(Dispatcher, r)
      /\ Stand(entry, r) /\ Settled(entry) /\ PinsCounted(entry, reads)
    BY DEF At, Custody, ThreadsStand, Threads
<1>2. /\ r.job.kind = "Poll" /\ EpochOf(Dispatcher) = r.job.epoch
      /\ LegFor(r) = PollLeg(r.job.epoch) /\ LegOf(Dispatcher) = LegFor(r)
      /\ r.next = NoJob /\ r.followup = NoJob /\ Holds(r) /\ r.held
    BY <1>1 DEF Shape, EpochOf, LegFor, LegOf, KindOf, Holds
<1>3. /\ Registers(entry, r) /\ Engaged(entry, r) /\ entry.claim.leg = LegFor(r)
      /\ entry.claim.gate = "held" \/ entry.detach_in_flight
      /\ entry.coverage = OnLeg(r.job.epoch)
      /\ ~entry.detach_in_flight => r.job.epoch # entry.claim.epoch
    BY <1>1, <1>2 DEF Stand, HoldsStand, Engaged, Registers
<1>4. Sole(Dispatcher, entry, r, reads)
    BY <1>1, <1>3, EngagedAlone
<1>5. entry.pinned_leg = NoLeg
    BY <1>1, <1>4 DEF Sole, Answers
<1>6. ~entry.reader
    BY <1>1, <1>3, StaleHasNoReader DEF Settled
<1> QED
    BY <1>1, <1>2, <1>3, <1>5, <1>6

LEMMA StalePollGivesBackKeeps ==
    ASSUME Inv, Inv', Custody, StalePollGivesBack PROVE Custody'
<1> DEFINE r == thread[Dispatcher]
           q == thread'[Dispatcher]
<1>1. /\ At(Dispatcher, "stale") /\ UNCHANGED <<entry, queue, sends, reads>>
      /\ \/ /\ entry.detach_in_flight
            /\ GoesReleasing(Dispatcher, TRUE, EpochOf(Dispatcher), "idle")
         \/ /\ ~(entry.detach_in_flight /\ entry.claim.leg = LegOf(Dispatcher))
            /\ Goes(Dispatcher, "closing", TRUE)
    BY DEF StalePollGivesBack, Channel, Client
<1>2. /\ Dispatcher \in Threads /\ Shape(Dispatcher, r) /\ Registers(entry, r) /\ r.pc = "stale"
      /\ entry.claim.leg = LegOf(Dispatcher) /\ r.job.kind = "Poll"
      /\ EpochOf(Dispatcher) = r.job.epoch
      /\ entry.claim.gate = "held" \/ entry.detach_in_flight
      /\ ~entry.detach_in_flight => r.job.epoch # entry.claim.epoch
      /\ Settled(entry) /\ PinsCounted(entry, reads) /\ entry.pinned_leg = NoLeg
      /\ entry.coverage = OnLeg(r.job.epoch) /\ ~entry.reader
    BY <1>1, PollOverIs DEF At
<1>3. entry.claim.epoch \in Nat /\ entry.claim.epoch' >= entry.claim.epoch /\ PinsCounted(entry', reads')
    BY <1>1, <1>2, Facts
<1>4. CASE /\ entry.detach_in_flight
           /\ GoesReleasing(Dispatcher, TRUE, EpochOf(Dispatcher), "idle")
    <2>1. PICK held \in BOOLEAN : GoesReleasing(Dispatcher, held, EpochOf(Dispatcher), "idle")
        BY <1>4
    <2>2. Unmoved(Dispatcher) /\ Releases(Dispatcher, r, q)
        BY <1>2, <2>1, ReleasingTo DEF Releases
    <2>3. entry.claim.gate = "open"
        BY <1>2, <1>4 DEF Settled
    <2> QED
        BY <1>1, <1>2, <1>3, <1>4, <2>2, <2>3, ReleasesKeeps
<1>5. CASE /\ ~(entry.detach_in_flight /\ entry.claim.leg = LegOf(Dispatcher))
           /\ Goes(Dispatcher, "closing", TRUE)
    <2>1. ~entry.detach_in_flight /\ r.job.epoch # entry.claim.epoch /\ entry.claim.gate = "held"
        BY <1>2, <1>5
    <2>2. PICK held \in BOOLEAN : held /\ Goes(Dispatcher, "closing", held)
        BY <1>5
    <2>8. Dispatcher \in Threads
        BY <1>2
    <2>3. Unmoved(Dispatcher) /\ SameWork(r, q) /\ q.after = "idle" /\ q.pc = "closing" /\ q.held
        BY <2>2, <2>8, GoesTo
    <2>4. Dispatcher \notin Workers
        BY ThreadsAssumption
    <2>5. Ends(Dispatcher, r, q) /\ q.job = r.job
        BY <1>2, <2>3, <2>4 DEF Ends, SameWork
    <2>6. HeldStands(entry, q)
        BY <1>2, <2>1, <2>3, <2>5 DEF HeldStands
    <2>7. /\ HeldStands(entry', q) /\ Settled(entry') /\ entry'.pinned_leg = NoLeg
          /\ entry.claim.leg' = entry.claim.leg
          /\ entry.claim.gate' = "scheduled" => entry.claim.gate = "scheduled"
          /\ r.job.epoch = entry.claim.epoch' => entry.claim.gate' # "held"
          /\ q.held /\ r.job.kind # "Attach" /\ q.job.kind # "Attach"
        BY <1>1, <1>2, <2>1, <2>3, <2>5, <2>6
    <2> HIDE DEF r, q
    <2> QED
        BY <1>1, <1>2, <1>3, <2>3, <2>5, <2>7, LegGoesOver DEF r, q
<1> QED
    BY <1>1, <1>4, <1>5

LEMMA CloseStalePollKeeps ==
    ASSUME Inv, Inv', Custody, CloseStalePoll PROVE Custody'
<1> DEFINE r == thread[Dispatcher]
           q == thread'[Dispatcher]
           epoch == EpochOf(Dispatcher)
           released == [entry EXCEPT !.coverage = ReleasedBy(@, epoch)]
           claim == EndPoll(released.claim, epoch)
           ended == [released EXCEPT !.claim = claim]
<1>1. /\ At(Dispatcher, "closing") /\ UNCHANGED <<queue, sends, reads>>
      /\ \/ entry' = released /\ GoesReleasing(Dispatcher, FALSE, epoch, "idle")
            /\ entry.detach_in_flight
         \/ /\ ~(entry.claim.leg = PollLeg(epoch) /\ entry.detach_in_flight)
            /\ entry' = PublishDamageOrDemandedWork(
                   IF entry.claim.leg = PollLeg(epoch) THEN ended ELSE released)
            /\ Rests(Dispatcher)
    BY DEF CloseStalePoll, Channel, Client
<1>2. /\ Dispatcher \in Threads /\ Registers(entry, r) /\ Engaged(entry, r) /\ r.pc = "closing"
      /\ epoch = r.job.epoch /\ entry.claim.leg = PollLeg(epoch) /\ r.job.kind = "Poll"
      /\ entry.claim.gate = "held" \/ entry.detach_in_flight
      /\ Settled(entry) /\ PinsCounted(entry, reads) /\ entry.pinned_leg = NoLeg
      /\ entry.coverage = OnLeg(epoch) /\ ~entry.reader
    BY <1>1, PollOverIs DEF At
<1>3. epoch \in 0..entry.claim.epoch /\ entry \in Entries /\ entry.claim.epoch \in Nat
    BY PollFacts, Facts
<1> HIDE DEF epoch
<1>4. Keeps(entry, released)
    BY <1>3, Facts, CustodyKeeps
<1>5. /\ released.coverage = NoCoverage /\ released.claim = entry.claim
      /\ released.reader = entry.reader /\ released.detach_in_flight = entry.detach_in_flight
      /\ released.detach_scheduled = entry.detach_scheduled /\ released.leases = entry.leases
      /\ released.pins = entry.pins /\ released.pinned_leg = entry.pinned_leg
    BY <1>2, <1>3 DEF ReleasedBy, Entries
<1> HIDE DEF released
<1>6. Stays(released.claim, claim)
    BY <1>3, <1>4, LegMovesStay DEF Keeps, Sound
<1>7. CASE /\ entry' = released /\ GoesReleasing(Dispatcher, FALSE, epoch, "idle")
           /\ entry.detach_in_flight
    <2>1. PICK held \in BOOLEAN : ~held /\ GoesReleasing(Dispatcher, held, epoch, "idle")
        BY <1>7
    <2>2. Unmoved(Dispatcher) /\ Releases(Dispatcher, r, q) /\ ~q.held
        BY <1>2, <2>1, ReleasingTo DEF Releases
    <2>3. entry.claim.gate = "open"
        BY <1>2, <1>7 DEF Settled
    <2>4. PinsCounted(entry', reads') /\ entry.claim.epoch' >= entry.claim.epoch
        BY <1>1, <1>2, <1>3, <1>5, <1>7 DEF PinsCounted
    <2> QED
        BY <1>1, <1>2, <1>5, <1>7, <2>2, <2>3, <2>4, ReleasesKeeps
<1>8. CASE entry' = PublishDamageOrDemandedWork(ended) /\ Rests(Dispatcher) /\ ~entry.detach_in_flight
    <2>1. claim.epoch = entry.claim.epoch /\ claim.leg = NoLeg /\ claim.gate = "open"
        <3>1. released.claim \in Claims /\ released.claim.gate = "held"
            BY <1>2, <1>3, <1>5, <1>8 DEF Entries
        <3>2. claim = Release(EndRunningLeg(released.claim))
            BY <1>2, <1>5 DEF EndPoll
        <3> DEFINE d == EndRunningLeg(released.claim)
        <3>3. /\ d.epoch = entry.claim.epoch /\ d.leg = NoLeg /\ d.gate = "held" /\ d \in Claims
            BY <1>5, <3>1 DEF EndRunningLeg, Claims
        <3> HIDE DEF d
        <3>4. ClaimIs(Release(d), d.epoch, "open", NoJob, d.leg, d.slot)
            BY <3>3, GateFields
        <3> QED
            BY <3>2, <3>3, <3>4 DEF ClaimIs, d
    <2> HIDE DEF claim
    <2>2. Keeps(released, ended) /\ Keeps(entry, ended) /\ ended \in Entries
        BY <1>4, <1>6, Facts, ClaimKeeps, SoundSteps DEF Keeps, Sound
    <2>3. /\ ended.claim = claim /\ ended.coverage = NoCoverage
          /\ ended.reader = entry.reader /\ ended.detach_in_flight = entry.detach_in_flight
          /\ ended.detach_scheduled = entry.detach_scheduled /\ ended.leases = entry.leases
          /\ ended.pins = entry.pins /\ ended.pinned_leg = entry.pinned_leg
        BY <1>4, <1>5 DEF Keeps, Sound, Entries
    <2> HIDE DEF ended
    <2>4. OutWithLeg(entry.coverage)
        BY <1>2 DEF OutWithLeg, OnLeg
    <2>5. Sole(Dispatcher, ended, Idle, reads) /\ (NewWork(ended, Idle) => entry.claim.gate = "scheduled")
        BY <1>2, <1>8, <2>1, <2>3, <2>4, ClosedSole
    <2>6. MaySchedule(ended, entry')
        BY <1>8, <2>2, <2>3, WaysToSchedule
    <2>7. Unmoved(Dispatcher) /\ thread'[Dispatcher] = Idle
        BY <1>2, <1>8, RestsTo
    <2> QED
        BY <1>1, <1>2, <2>1, <2>2, <2>3, <2>5, <2>6, <2>7, EngagedRests
<1> QED
    BY <1>1, <1>2, <1>7, <1>8

----------------------------------------------------------------------------
(* A leg that takes the claim                                              *)

\* Over an open gate, with nothing being released, nobody has more to do for the
\* entry than to end.
LEMMA LooseIs ==
    ASSUME Custody, entry.claim.gate = "open", ~entry.detach_in_flight
    PROVE  /\ \A u \in Threads :
                  LET r == thread[u] IN
                  ~Holds(r) /\ ~Live(entry, r) /\ ~Standing(entry, r.next) /\ ~Carries(entry, r)
                  /\ ~Closes(r)
           /\ ~InQueue /\ ~InSends
<1>1. ASSUME NEW u \in Threads
      PROVE  LET r == thread[u] IN
             ~Holds(r) /\ ~Live(entry, r) /\ ~Standing(entry, r.next) /\ ~Carries(entry, r)
             /\ ~Closes(r)
    <2> DEFINE r == thread[u]
    <2>1. Stand(entry, r)
        BY DEF Custody, ThreadsStand
    <2> HIDE DEF r
    <2>2. ~Holds(r) /\ ~Live(entry, r) /\ ~Standing(entry, r.next) /\ ~Closes(r)
        BY <2>1 DEF Stand, HoldsStand, LiveStand, NextStand, CloseStand
    <2>3. ~Carries(entry, r)
        BY <2>1 DEF Stand, CarryStand, Carries, Sent
    <2> QED
        BY <2>2, <2>3 DEF r
<1>2. ~InQueue /\ ~InSends
    BY DEF Custody, ChannelStands, ChannelSent, InQueue, InSends, Sent
<1> QED
    BY <1>1, <1>2

\* A thread that works for nobody's leg but its own, which the claim has left, is
\* waited for no longer.
LEMMA LooseQuiet ==
    ASSUME Inv, Inv', Custody, NEW u \in Threads, thread'[u] = thread[u],
           entry.claim.epoch' >= entry.claim.epoch,
           ~Holds(thread[u]), ~Closes(thread[u]), ~Registers(entry', thread[u]),
           \/ entry.claim.epoch' > entry.claim.epoch
           \/ /\ ~Live(entry, thread[u]) /\ ~Standing(entry, thread[u].next)
              /\ ~Carries(entry, thread[u])
    PROVE  Quiet(u)
<1> DEFINE r == thread[u]
<1>1. /\ r.job.epoch \in Nat /\ r.job.epoch <= entry.claim.epoch
      /\ r.next.epoch \in Nat /\ r.next.epoch <= entry.claim.epoch
      /\ r.followup.epoch \in Nat /\ r.followup.epoch <= entry.claim.epoch
      /\ entry.claim.epoch \in Nat
    BY ThreadNums
<1>2. entry.claim.epoch' \in Nat
    BY SoundEpoch DEF Inv
<1>3. Shape(u, r)
    BY DEF Custody, ThreadsStand
<1> HIDE DEF r
<1>4. ~Live(entry', r) /\ ~Standing(entry', r.next) /\ ~Carries(entry', r)
    BY <1>1, <1>2 DEF Live, Standing, Carries, r
<1>5. ~Engaged(entry', r) /\ ~Holds(r) /\ ~Closes(r) /\ ~Registers(entry', r)
    BY <1>4 DEF Engaged, r
<1>6. /\ HoldsStand(entry', r) /\ LiveStand(entry', r) /\ NextStand(entry', r)
      /\ CloseStand(entry', r) /\ Spent(entry', r)
    BY <1>4, <1>5 DEF HoldsStand, Spent, LiveStand, NextStand, CloseStand
<1>7. CarryStand(entry', r)
    BY <1>4 DEF CarryStand, Carries
<1> QED
    BY <1>3, <1>5, <1>6, <1>7 DEF Quiet, Stand, r

LEMMA TakeForLegFields ==
    ASSUME NEW s \in Entries, NEW leg
    PROVE  LET e == TakeForLeg(s, leg) IN
           /\ e.claim = s.claim /\ e.coverage = TakeCoverage(s.coverage, leg.epoch)
           /\ e.reader = s.reader /\ e.detach_in_flight = s.detach_in_flight
           /\ e.detach_scheduled = s.detach_scheduled /\ e.leases = s.leases
           /\ e.pins = s.pins + 1 /\ e.pinned_leg = leg
BY DEF TakeForLeg, PinForLeg, Entries

LEMMA BeginWatcherPollKeeps ==
    ASSUME Inv, Inv', Custody, BeginWatcherPoll PROVE Custody'
<1> DEFINE epoch == entry.claim.epoch
           leg == PollLeg(epoch)
           q == [Idle EXCEPT !.pc = "polling", !.job = leg, !.held = TRUE]
<1>1. /\ Dispatcher \in Threads /\ entry \in Entries /\ epoch \in Nat /\ reads \in Nat
      /\ thread \in [Threads -> ThreadStates] /\ Dispatcher \notin Workers /\ Dispatcher # Registrar
    BY Facts, ThreadsAssumption DEF Inv, RestInv, ThreadInv
<1>2. /\ entry.claim.gate = "open" /\ entry.coverage = Parked
      /\ UNCHANGED <<queue, sends, reads>>
    BY <1>1 DEF BeginWatcherPoll, IsHeld, InHandOf, InHand, Custody, Settled, NoCoverage,
                Channel, Client, OutWithLeg
<1>3. ~entry.detach_in_flight /\ entry.pinned_leg = NoLeg /\ entry.pins = reads
    <2>1. ~entry.detach_in_flight
        BY <1>2 DEF Custody, Settled, InHandOf, InHand, Parked
    <2>2. entry.pinned_leg = NoLeg
        BY <1>2 DEF Custody, Settled, Parked, OnLeg
    <2>3. PinsCounted(entry, reads)
        BY DEF Custody
    <2> QED
        BY <2>1, <2>2, <2>3, <1>1 DEF PinsCounted
<1>4. /\ entry' = [TakeForLeg(entry, leg) EXCEPT !.claim = BeginPoll(@, epoch)]
      /\ thread' = [thread EXCEPT ![Dispatcher] = q]
    BY DEF BeginWatcherPoll, PollLeg
<1>5. /\ entry'.claim.epoch = epoch /\ entry'.claim.gate = "held" /\ entry'.claim.leg = leg
      /\ entry'.coverage = OnLeg(epoch) /\ entry'.reader = entry.reader
      /\ entry'.detach_in_flight = entry.detach_in_flight
      /\ entry'.pinned_leg = leg /\ entry'.pins = reads + 1
    <2> DEFINE taken == TakeForLeg(entry, leg)
               claim == BeginPoll(entry.claim, epoch)
    <2>1. /\ taken.claim = entry.claim /\ taken.coverage = TakeCoverage(entry.coverage, leg.epoch)
          /\ taken.reader = entry.reader /\ taken.detach_in_flight = entry.detach_in_flight
          /\ taken.pins = entry.pins + 1 /\ taken.pinned_leg = leg
        BY <1>1, TakeForLegFields
    <2>2. claim.epoch = epoch /\ claim.gate = "held" /\ claim.leg = leg
        BY <1>1 DEF BeginPoll, SetGate, Entries, Claims
    <2>3. TakeCoverage(entry.coverage, leg.epoch) = OnLeg(epoch)
        BY <1>2 DEF TakeCoverage, InHand, Parked, PollLeg
    <2>4. taken \in Entries
        <3>1. leg \in Legs /\ leg.epoch \in 0..entry.claim.epoch
            BY <1>1 DEF PollLeg, Legs, LegKinds
        <3> QED
            BY <3>1, Facts, PinKeeps DEF Keeps, Sound
    <2>5. entry' = [taken EXCEPT !.claim = claim]
        BY <1>4, <2>1
    <2> HIDE DEF taken, claim
    <2>6. /\ entry'.claim = claim /\ entry'.coverage = taken.coverage
          /\ entry'.reader = taken.reader /\ entry'.detach_in_flight = taken.detach_in_flight
          /\ entry'.pins = taken.pins /\ entry'.pinned_leg = taken.pinned_leg
        BY <2>4, <2>5 DEF Entries
    <2> QED
        BY <1>3, <2>1, <2>2, <2>3, <2>6
<1>6. /\ q.pc = "polling" /\ q.job = leg /\ q.held = TRUE /\ q.next = NoJob /\ q.followup = NoJob
      /\ q.rel = 0 /\ q.after = "idle"
    BY DEF Idle
<1>7. Unmoved(Dispatcher) /\ thread'[Dispatcher] = q
    BY <1>1, <1>4 DEF Unmoved
<1>8. /\ leg.kind = "Poll" /\ leg.epoch = epoch /\ leg # NoJob /\ leg # NoLeg
      /\ NoJob.kind = "none" /\ LegFor(q) = leg
    BY <1>6 DEF PollLeg, NoJob, NoLeg, LegFor
<1>20. leg # JobLeg(epoch)
    BY DEF PollLeg, JobLeg
<1> HIDE DEF q
<1>9. Shape(Dispatcher, q)
    BY <1>1, <1>6, <1>8 DEF Shape
<1>10. Registers(entry', q)
    BY <1>5, <1>6, <1>8 DEF Registers, LegsRun
<1>11. Stand(entry', q)
    <2>1. HoldsStand(entry', q) /\ LiveStand(entry', q)
        BY <1>3, <1>5, <1>6, <1>8, <1>10 DEF HoldsStand, LiveStand, Holds, Live
    <2>2. /\ NextStand(entry', q) /\ CarryStand(entry', q) /\ CloseStand(entry', q)
          /\ Spent(entry', q)
        BY <1>6 DEF NextStand, CarryStand, CloseStand, Spent, Standing, Closes
    <2> QED
        BY <2>1, <2>2 DEF Stand
<1>12. Settled(entry')
    BY <1>3, <1>5, <1>8 DEF Settled, OnLeg, OutWithLeg, AccountedFor
<1>13. PinsCounted(entry', reads')
    BY <1>2, <1>5, <1>8 DEF PinsCounted
<1>14. Answers(entry', q) /\ HeldFor(entry', q)
    BY <1>3, <1>5, <1>6, <1>8, <1>10 DEF Answers, HeldFor, Custodian, Holds, OnLeg, Running
<1>15. Sole(Dispatcher, entry', q, reads')
    BY <1>9, <1>11, <1>12, <1>13, <1>14 DEF Sole
<1>16. ~NewWork(entry', q)
    BY <1>5, <1>6 DEF NewWork, Carries, Standing
<1>17. ASSUME NEW u \in Threads \ {Dispatcher} PROVE Quiet(u)
    <2>1. /\ ~Holds(thread[u]) /\ ~Live(entry, thread[u]) /\ ~Standing(entry, thread[u].next)
          /\ ~Carries(entry, thread[u]) /\ ~Closes(thread[u])
        BY <1>2, <1>3, LooseIs
    <2>2. thread'[u] = thread[u]
        BY <1>7 DEF Unmoved
    <2>3. Shape(u, thread[u])
        BY DEF Custody, ThreadsStand
    <2>4. ~Registers(entry', thread[u])
        <3>1. CASE u = Registrar
            BY <2>3, <3>1 DEF Shape, Registers, NoJob
        <3>2. CASE u \in Workers
            BY <2>3, <3>2, <1>5 DEF Shape, Registers, LegsRun, LegFor, Jobs, JobKinds, PollLeg, JobLeg
        <3> QED
            BY <3>1, <3>2 DEF Threads
    <2>5. entry.claim.epoch' >= entry.claim.epoch
        BY <1>1, <1>5
    <2> QED
        BY <2>1, <2>2, <2>4, <2>5, LooseQuiet
<1>18. ~InQueue /\ ~InSends
    BY <1>2, <1>3, LooseIs
<1>19. entry.claim.epoch' >= entry.claim.epoch
    BY <1>1, <1>5
<1> HIDE DEF epoch, leg
<1> QED
    BY <1>1, <1>2, <1>7, <1>15, <1>16, <1>17, <1>18, <1>19, SoleStep

LEMMA BeginLegKeeps ==
    ASSUME Inv, Inv', Custody, NEW w \in Workers, BeginLeg(w) PROVE Custody'
<1> DEFINE r == thread[w]
           q == thread'[w]
           epoch == entry.claim.epoch
           claim == BeginJobLeg(FreeSlot(entry.claim, epoch), epoch)
<1>1. /\ r.pc = "received" /\ r.job.epoch = epoch /\ EpochOf(w) = epoch
      /\ Goes(w, "begun", FALSE) /\ UNCHANGED <<queue, sends, reads>>
      /\ entry' = [entry EXCEPT !.claim = claim]
    BY DEF BeginLeg, At, Stands, StandsAtEpoch, StandsAt, EpochOf, Channel, Client
<1>2. /\ w \in Threads /\ r.job \in Jobs /\ Shape(w, r) /\ Stand(entry, r)
      /\ w # Dispatcher /\ w # Registrar /\ r \in ThreadStates
    BY <1>1, WorkerIs
<1>3. entry \in Entries /\ epoch \in Nat /\ reads \in Nat /\ entry.claim \in Claims
    BY Facts DEF Inv, RestInv, Entries
<1>4. Engaged(entry, r) /\ NewWork(entry, r) /\ Carries(entry, r) /\ Sent(entry, r.job)
    BY <1>1, <1>2 DEF Engaged, NewWork, Carries, Stand, CarryStand
<1>5. /\ \A u \in Threads \ {w} : ~Engaged(entry, thread[u])
      /\ ~InQueue /\ ~InSends /\ Sole(w, entry, r, reads)
    BY <1>2, <1>4, EngagedAlone
<1>6. /\ entry.claim.leg = NoLeg /\ ~entry.detach_in_flight /\ Fits(entry, r.job.kind)
    BY <1>4 DEF Sent
<1>7. /\ entry.pinned_leg = NoLeg /\ ~OutWithLeg(entry.coverage)
      /\ entry.coverage \in {NoCoverage, Parked} /\ (entry.reader => entry.coverage = Parked)
    <2>1. ~Custodian(entry, r) /\ ~Registers(entry, r)
        BY <1>1 DEF Custodian, Registers, LegsRun, Closes
    <2>2. /\ entry.pinned_leg = NoLeg /\ ~OutWithLeg(entry.coverage)
        BY <1>5, <2>1 DEF Sole, Answers
    <2> QED
        BY <1>5, <2>2 DEF Sole, Settled, AccountedFor, NoCoverage
<1>8. claim.epoch = epoch /\ claim.gate = "held" /\ claim.leg = JobLeg(epoch)
    BY <1>3 DEF BeginJobLeg, SetGate, FreeSlot, AbandonSlot, Claims
<1> HIDE DEF claim
<1>9. /\ entry'.claim = claim /\ entry'.coverage = entry.coverage /\ entry'.reader = entry.reader
      /\ entry'.detach_in_flight = entry.detach_in_flight
      /\ entry'.detach_scheduled = entry.detach_scheduled /\ entry'.leases = entry.leases
      /\ entry'.pins = entry.pins /\ entry'.pinned_leg = entry.pinned_leg
    BY <1>1, <1>3 DEF Entries
<1>10. /\ Unmoved(w) /\ SameWork(r, q) /\ q.pc = "begun" /\ q.held = FALSE /\ q.after = "idle"
    BY <1>1, <1>2, GoesTo
<1>11. /\ r.next = NoJob /\ r.followup = NoJob /\ r.job.kind # "none" /\ r.job.kind # "Poll"
    BY <1>1, <1>2 DEF Shape, Jobs, JobKinds
<1>12. /\ q.job = r.job /\ q.next = NoJob /\ q.followup = NoJob /\ LegFor(q) = JobLeg(epoch)
    BY <1>1, <1>10, <1>11 DEF SameWork, LegFor
<1> HIDE DEF r, q, epoch
<1>13. Shape(w, q)
    BY <1>2, <1>10, <1>12 DEF Shape
<1>14. Registers(entry', q)
    BY <1>8, <1>9, <1>10, <1>11, <1>12 DEF Registers, LegsRun
<1>15. Fits(entry', q.job.kind)
    BY <1>6, <1>9, <1>12 DEF Fits, InHandOf
<1>16. Stand(entry', q)
    <2>1. LiveStand(entry', q)
        BY <1>6, <1>8, <1>9, <1>14, <1>15 DEF LiveStand
    <2>2. HoldsStand(entry', q)
        BY <1>8, <1>9, <1>10, <1>14, <1>15 DEF HoldsStand, Holds, Fits
    <2>3. /\ NextStand(entry', q) /\ CarryStand(entry', q) /\ CloseStand(entry', q)
          /\ Spent(entry', q)
        BY <1>10, <1>12 DEF NextStand, CarryStand, CloseStand, Spent, Standing, Closes
    <2> QED
        BY <2>1, <2>2, <2>3 DEF Stand
<1>17. Settled(entry')
    BY <1>6, <1>7, <1>8, <1>9 DEF Settled, AccountedFor, Parked
<1>18. PinsCounted(entry', reads')
    BY <1>1, <1>5, <1>9 DEF PinsCounted, Sole
<1>19. Answers(entry', q) /\ HeldFor(entry', q)
    BY <1>6, <1>7, <1>9, <1>14, <1>8 DEF Answers, HeldFor, Running, JobLeg, NoLeg
<1>20. Sole(w, entry', q, reads')
    BY <1>13, <1>16, <1>17, <1>18, <1>19 DEF Sole
<1>21. ~NewWork(entry', q)
    BY <1>8, <1>9, <1>10, <1>12 DEF NewWork, Carries, Standing
<1>22. entry.claim.epoch' >= entry.claim.epoch
    BY <1>3, <1>8, <1>9 DEF epoch
<1>23. ASSUME NEW u \in Threads \ {w} PROVE Quiet(u)
    <2>1. thread'[u] = thread[u]
        BY <1>10 DEF Unmoved
    <2>2. LegsRun(thread[u]) => thread[u].job.epoch # epoch
        BY <1>2, <1>4 DEF Custody, Unused, r, epoch
    <2>3. LegsRun(thread[u]) => JobLeg(epoch) # LegFor(thread[u])
        BY <2>2 DEF LegFor, JobLeg, PollLeg
    <2>4. LegSpares(u)
        BY <2>3, <1>8, <1>9 DEF LegSpares
    <2> QED
        BY <2>1, <2>4, <1>5, <1>22, QuietUnchanged
<1> QED
    BY <1>1, <1>2, <1>5, <1>20, <1>21, <1>22, <1>23, SoleStep DEF q

LEMMA TakesCoverageKeeps ==
    ASSUME Inv, Inv', Custody, NEW w \in Workers, TakesCoverage(w) PROVE Custody'
<1> DEFINE r == thread[w]
           q == thread'[w]
           leg == LegOf(w)
           taken == TakeForLeg(entry, leg)
<1>1. /\ r.pc = "begun" /\ KindOf(w) \in CoverageJobs /\ r.job.epoch = entry.claim.epoch
      /\ InHandOf(entry) /\ Goes(w, "working", TRUE) /\ UNCHANGED <<queue, sends, reads>>
    BY DEF TakesCoverage, At, Stands, StandsAtEpoch, StandsAt, EpochOf, Channel, Client
<1>2. /\ w \in Threads /\ r.job \in Jobs /\ Shape(w, r) /\ Stand(entry, r)
      /\ w # Dispatcher /\ w # Registrar /\ r \in ThreadStates /\ KindOf(w) = r.job.kind
      /\ LegFor(r) = leg /\ leg = JobLeg(r.job.epoch)
    BY <1>1, WorkerIs
<1>3. entry \in Entries /\ reads \in Nat /\ leg \in Legs /\ leg # NoLeg /\ Sound(entry)
      /\ leg.epoch = r.job.epoch /\ leg.epoch \in 0..entry.claim.epoch
    BY <1>2, Facts, ThreadFacts DEF Inv, RestInv, Legs, NoLeg, LegKinds, EpochOf
<1>4. /\ Registers(entry, r) /\ Engaged(entry, r) /\ entry.claim.leg = leg
      /\ entry.claim.gate = "held" /\ ~entry.detach_in_flight
    BY <1>1, <1>2 DEF Stand, LiveStand, Live, Registers, Engaged
<1>5. Sole(w, entry, r, reads)
    BY <1>2, <1>4, EngagedAlone
<1>6. entry.coverage = Parked /\ entry.pinned_leg = NoLeg /\ entry.pins = reads
    <2>1. Settled(entry) /\ PinsCounted(entry, reads)
        BY <1>5 DEF Sole
    <2>2. entry.coverage = Parked
        BY <1>1, <2>1 DEF Settled, InHandOf, InHand, NoCoverage, OutWithLeg
    <2>3. entry.pinned_leg = NoLeg
        BY <2>1, <2>2 DEF Settled, Parked, OnLeg
    <2> QED
        BY <2>1, <2>2, <2>3, <1>3 DEF PinsCounted
<1>7. /\ taken.claim = entry.claim /\ taken.coverage = OnLeg(r.job.epoch)
      /\ taken.reader = entry.reader /\ taken.detach_in_flight = entry.detach_in_flight
      /\ taken.detach_scheduled = entry.detach_scheduled /\ taken.leases = entry.leases
      /\ taken.pins = entry.pins + 1 /\ taken.pinned_leg = leg
    BY <1>3, <1>6, TakeForLegFields DEF TakeCoverage, InHand, Parked
<1>8. taken \in Entries
    BY <1>3, PinKeeps DEF Keeps, Sound
<1>9. entry' \in {taken, ClearPending(taken), SetTrust(ClearPending(taken), "Healing")}
    BY DEF TakesCoverage, TakeFacts
<1> HIDE DEF taken, leg
<1>10. /\ entry'.claim = taken.claim /\ entry'.coverage = taken.coverage
       /\ entry'.reader = taken.reader /\ entry'.detach_in_flight = taken.detach_in_flight
       /\ entry'.pins = taken.pins /\ entry'.pinned_leg = taken.pinned_leg
    BY <1>8, <1>9 DEF ClearPending, SetTrust, Entries
<1>11. /\ Unmoved(w) /\ SameWork(r, q) /\ q.pc = "working" /\ q.held = TRUE /\ q.after = "idle"
    BY <1>1, <1>2, GoesTo
<1>12. /\ r.next = NoJob /\ r.followup = NoJob /\ r.job.kind # "none" /\ r.job.kind # "Poll"
       /\ r.job.kind # "Attach" /\ r.job.kind # "Detach"
    BY <1>1, <1>2 DEF Shape, Jobs, JobKinds, CoverageJobs
<1>13. /\ q.job = r.job /\ q.next = NoJob /\ q.followup = NoJob /\ LegFor(q) = leg
    BY <1>2, <1>11, <1>12 DEF SameWork, LegFor
<1> HIDE DEF r, q
<1>14. Shape(w, q)
    BY <1>2, <1>11, <1>12, <1>13 DEF Shape
<1>15. Registers(entry', q)
    BY <1>4, <1>7, <1>10, <1>11, <1>12, <1>13 DEF Registers, LegsRun
<1>16. Stand(entry', q)
    <2>1. LiveStand(entry', q)
        BY <1>4, <1>7, <1>10, <1>11, <1>15 DEF LiveStand
    <2>2. HoldsStand(entry', q)
        BY <1>4, <1>7, <1>10, <1>11, <1>12, <1>13, <1>15 DEF HoldsStand
    <2>3. /\ NextStand(entry', q) /\ CarryStand(entry', q) /\ CloseStand(entry', q)
          /\ Spent(entry', q)
        BY <1>11, <1>13 DEF NextStand, CarryStand, CloseStand, Spent, Standing, Closes
    <2> QED
        BY <2>1, <2>2, <2>3 DEF Stand
<1>17. Settled(entry')
    BY <1>1, <1>3, <1>4, <1>7, <1>10 DEF Settled, OnLeg, OutWithLeg, AccountedFor
<1>18. PinsCounted(entry', reads')
    BY <1>1, <1>3, <1>6, <1>7, <1>10 DEF PinsCounted
<1>19. Answers(entry', q) /\ HeldFor(entry', q)
    BY <1>3, <1>4, <1>7, <1>10, <1>11, <1>12, <1>13, <1>15 
       DEF Answers, HeldFor, Running, Custodian, Holds, OnLeg
<1>20. Sole(w, entry', q, reads')
    BY <1>14, <1>16, <1>17, <1>18, <1>19 DEF Sole
<1>21. ~NewWork(entry', q)
    BY <1>4, <1>7, <1>10, <1>11, <1>13 DEF NewWork, Carries, Standing
<1>22. entry.claim.epoch' >= entry.claim.epoch
    BY <1>7, <1>10, Facts
<1>23. entry.claim.leg' \in {entry.claim.leg, NoLeg} /\ Engaged(entry, thread[w])
    BY <1>4, <1>7, <1>10 DEF r
<1> QED
    BY <1>1, <1>2, <1>11, <1>20, <1>21, <1>22, <1>23, EngagedStep DEF q

----------------------------------------------------------------------------
(* A job handed on, and sent                                               *)

LEMMA HandOffFields ==
    ASSUME NEW c \in Claims, NEW epoch \in Nat, NEW job \in Jobs
    PROVE  LET h == HandOff(c, epoch, job) IN
           /\ h.epoch = c.epoch /\ h.slot = job.epoch
           /\ c.leg = JobLeg(epoch) => h.leg = NoLeg
           /\ c.leg # JobLeg(epoch) => h.leg = c.leg
           /\ c.gate = "scheduled" /\ c.marker.epoch = job.epoch => h.gate = "held"
           /\ ~(c.gate = "scheduled" /\ c.marker.epoch = job.epoch) =>
                  h.gate = c.gate /\ h.marker = c.marker
<1> DEFINE ended == EndJobLeg(c, epoch)
           gated == IF ended.gate = "scheduled" /\ ended.marker.epoch = job.epoch
                    THEN SetGate(ended, "held") ELSE ended
<1>1. /\ ended \in Claims /\ ended.epoch = c.epoch /\ ended.gate = c.gate /\ ended.marker = c.marker
      /\ c.leg = JobLeg(epoch) => ended.leg = NoLeg
      /\ c.leg # JobLeg(epoch) => ended.leg = c.leg
    BY DEF EndJobLeg, EndRunningLeg, Claims
<1>2. HandOff(c, epoch, job) = TakeSlot(gated, job.epoch)
    BY DEF HandOff
<1> HIDE DEF ended
<1>3. /\ gated.epoch = c.epoch /\ gated.leg = ended.leg /\ gated \in Claims
      /\ c.gate = "scheduled" /\ c.marker.epoch = job.epoch => gated.gate = "held"
      /\ ~(c.gate = "scheduled" /\ c.marker.epoch = job.epoch) =>
             gated.gate = c.gate /\ gated.marker = c.marker
    <2> DEFINE held == SetGate(ended, "held")
    <2>1. held \in Claims /\ held.epoch = ended.epoch /\ held.leg = ended.leg /\ held.gate = "held"
        BY <1>1 DEF SetGate, Claims
    <2> HIDE DEF held
    <2>2. gated = IF c.gate = "scheduled" /\ c.marker.epoch = job.epoch THEN held ELSE ended
        BY <1>1 DEF held
    <2> QED
        BY <1>1, <2>1, <2>2
<1> HIDE DEF gated
<1>4. LET h == TakeSlot(gated, job.epoch) IN
      /\ h.epoch = gated.epoch /\ h.slot = job.epoch /\ h.leg = gated.leg
      /\ h.gate = gated.gate /\ h.marker = gated.marker
    BY <1>3 DEF TakeSlot, Claims
<1> QED
    BY <1>1, <1>2, <1>3, <1>4

\* A thread that hands a job on over an open slot.
LEMMA HandOffToKeeps ==
    ASSUME Inv, Inv', Custody, NEW w \in Workers, HandOffTo(w), HandOffTakesAFreeSlot
    PROVE  Custody'
<1> DEFINE r == thread[w]
           q == thread'[w]
           job == r.next
           c == entry.claim
           claim == HandOff(c, r.job.epoch, job)
<1>1. /\ r.pc = "handing" /\ UNCHANGED <<queue, sends, reads>>
      /\ entry' = [entry EXCEPT !.claim = claim]
      /\ thread' = [thread EXCEPT ![w] =
             [@ EXCEPT !.pc = "sending", !.next = NoJob, !.followup = thread[w].next,
                       !.after = "ending"]]
    BY DEF HandOffTo, At, EpochOf, Channel, Client
<1>2. /\ w \in Threads /\ r.job \in Jobs /\ Shape(w, r) /\ Stand(entry, r)
      /\ w # Dispatcher /\ w # Registrar /\ r \in ThreadStates
    BY <1>1, WorkerIs
<1>3. /\ entry \in Entries /\ c.epoch \in Nat /\ reads \in Nat /\ c \in Claims
      /\ thread \in [Threads -> ThreadStates] /\ r.job.epoch \in Nat
    BY <1>2, Facts DEF Inv, RestInv, Entries, ThreadInv, Jobs
<1>4. job # NoJob /\ job \in Jobs /\ job.epoch \in 0..c.epoch /\ r.followup = NoJob /\ r.held = FALSE
    <2>1. job # NoJob /\ r.followup = NoJob
        BY <1>1, <1>2 DEF Shape
    <2>2. job \in Jobs /\ job.epoch \in 0..c.epoch
        BY <1>2, <2>1, ThreadFacts
    <2>3. ~r.held /\ r.held \in BOOLEAN
        BY <1>1, <1>2 DEF Shape, ThreadStates
    <2> QED
        BY <2>1, <2>2, <2>3
<1>5. /\ q.pc = "sending" /\ q.next = NoJob /\ q.followup = job /\ q.after = "ending"
      /\ q.job = r.job /\ q.held = FALSE /\ q.rel = r.rel /\ Unmoved(w)
    BY <1>1, <1>2, <1>3, <1>4 DEF Unmoved, ThreadStates
<1>6. SlotTaken(c) = FALSE /\ c.slot = 0
    <2>1. thread'[w].pc = "sending"
        BY <1>5
    <2> QED
        BY <1>1, <1>2, <2>1 DEF HandOffTakesAFreeSlot, At, SlotTaken
<1>7. LegFor(r) = JobLeg(r.job.epoch) /\ r.job.kind # "none" /\ LegFor(q) = LegFor(r)
    BY <1>2, <1>5 DEF LegFor, Jobs, JobKinds
<1>8. Settled(entry) /\ PinsCounted(entry, reads)
    BY DEF Custody
<1>9. c.gate = "scheduled" => c.marker.epoch = c.epoch /\ c.marker \in Jobs
    BY <1>8 DEF Settled, Standing
<1>10. /\ claim.epoch = c.epoch /\ claim.slot = job.epoch
       /\ c.leg = LegFor(r) => claim.leg = NoLeg
       /\ c.leg # LegFor(r) => claim.leg = c.leg
       /\ c.gate = "scheduled" /\ job.epoch = c.epoch => claim.gate = "held"
       /\ ~(c.gate = "scheduled" /\ job.epoch = c.epoch) =>
              claim.gate = c.gate /\ claim.marker = c.marker
    BY <1>3, <1>4, <1>7, <1>9, HandOffFields
<1> HIDE DEF claim, c, q
<1>11. /\ entry'.claim = claim /\ entry'.coverage = entry.coverage /\ entry'.reader = entry.reader
       /\ entry'.detach_in_flight = entry.detach_in_flight
       /\ entry'.detach_scheduled = entry.detach_scheduled /\ entry'.leases = entry.leases
       /\ entry'.pins = entry.pins /\ entry'.pinned_leg = entry.pinned_leg
    BY <1>1, <1>3 DEF Entries
<1> HIDE DEF r
<1>12. Shape(w, q)
    BY <1>2, <1>4, <1>5 DEF Shape
<1>13. ~Holds(q) /\ ~Live(entry', q) /\ ~Closes(q) /\ ~Standing(entry', q.next) /\ LegsRun(q)
    BY <1>5 DEF Holds, Live, Closes, Standing, LegsRun
<1>14. (Standing(entry, job) <=> job.epoch = c.epoch) /\ (Standing(entry', job) <=> job.epoch = c.epoch)
    BY <1>4, <1>10, <1>11 DEF Standing, c
<1>15. Registers(entry, r) <=> c.leg = LegFor(r)
    BY <1>1, <1>7 DEF Registers, LegsRun, c, r
<1>16. entry.claim.epoch' >= entry.claim.epoch
    BY <1>3, <1>10, <1>11 DEF c
<1>17. LegFor(r) # NoLeg
    BY <1>7 DEF JobLeg, NoLeg
<1>18. ~Registers(entry', q)
    BY <1>7, <1>10, <1>11, <1>17 DEF Registers
<1>19. CASE ~Engaged(entry, r)
    <2>1. c.leg # LegFor(r) /\ job.epoch # c.epoch
        BY <1>2, <1>14, <1>15, <1>19 DEF Engaged, Stand, NextStand, job
    <2>2. SameStanding(entry, entry')
        <3>1. claim.epoch = c.epoch /\ claim.gate = c.gate /\ claim.marker = c.marker
              /\ claim.leg = c.leg
            BY <1>10, <2>1
        <3>2. c.slot # c.epoch
            BY <1>3, <1>4, <1>6, <2>1
        <3> QED
            BY <1>11, <3>1, <3>2 DEF SameStanding, c
    <2>3. Stand(entry', q) /\ ~Engaged(entry', q)
        <3>1. ~Carries(entry', q)
            BY <1>5, <1>14, <2>1 DEF Carries
        <3>2. ~Standing(entry', q.followup)
            BY <1>5, <1>14, <2>1
        <3>3. HoldsStand(entry', q) /\ LiveStand(entry', q) /\ NextStand(entry', q)
            BY <1>13 DEF HoldsStand, LiveStand, NextStand
        <3>4. CarryStand(entry', q) /\ CloseStand(entry', q) /\ Spent(entry', q)
            BY <1>5, <1>13, <1>18, <3>2 DEF CarryStand, CloseStand, Spent
        <3> QED
            BY <1>13, <1>18, <3>1, <3>3, <3>4 DEF Stand, Engaged
    <2>4. Quiet(w)
        <3>1. LegsRun(thread[w]) /\ thread'[w].job.epoch = thread[w].job.epoch
            BY <1>1, <1>5 DEF LegsRun, r, q
        <3> QED
            BY <1>12, <2>3, <3>1 DEF Quiet, q
    <2> QED
        BY <1>1, <1>2, <1>5, <1>19, <2>2, <2>4, QuietMoves DEF r
<1>20. CASE Engaged(entry, r)
    <2>1. Sole(w, entry, r, reads)
        BY <1>2, <1>20, EngagedAlone DEF r
    <2>2. Registers(entry, r) /\ ~Closes(r) /\ ~Carries(entry, r) /\ ~Holds(r)
        <3>1. ~Closes(r) /\ ~Carries(entry, r) /\ ~Holds(r)
            BY <1>1, <1>4 DEF Closes, Carries, Standing, Holds, r
        <3> QED
            BY <1>20, <3>1 DEF Engaged
    <2>3. c.leg = LegFor(r) /\ claim.leg = NoLeg
        BY <1>10, <1>15, <2>2
    <2>4. /\ InHandOf(entry) /\ (c.gate = "held" => job.epoch = c.epoch)
          /\ ~entry.detach_in_flight
        <3>1. InHandOf(entry) /\ (c.gate = "held" => Standing(entry, job))
            BY <1>2, <1>4, <2>2 DEF Stand, Spent, c, job
        <3> QED
            BY <1>8, <1>14, <3>1 DEF Settled
    <2>5. ~OutWithLeg(entry.coverage) /\ entry.pinned_leg = NoLeg
        <3>1. ~OutWithLeg(entry.coverage)
            BY <2>4 DEF OutWithLeg, InHandOf, InHand
        <3>2. r.pc = "handing"
            BY <1>1 DEF r
        <3>3. entry.pinned_leg = NoLeg
            BY <2>1, <3>2 DEF Sole, Answers
        <3> QED
            BY <3>1, <3>3
    <2>6. CASE job.epoch = c.epoch
        <3>1. Standing(entry, job) /\ Standing(entry', job)
            BY <1>14, <2>6
        <3>2. /\ c.gate # "open" /\ c.epoch # 0 /\ Fits(entry, job.kind)
            BY <1>2, <3>1 DEF Stand, NextStand, c, job
        <3>3. claim.gate = "held"
            BY <1>3, <1>10, <2>6, <3>2 DEF c, Claims
        <3>4. Fits(entry', job.kind)
            BY <1>11, <3>2 DEF Fits, InHandOf
        <3>5. Sent(entry', job)
            BY <1>10, <1>11, <2>3, <2>4, <2>6, <3>2, <3>3, <3>4 DEF Sent
        <3>6. Stand(entry', q)
            <4>1. HoldsStand(entry', q) /\ LiveStand(entry', q) /\ NextStand(entry', q)
                BY <1>13 DEF HoldsStand, LiveStand, NextStand
            <4>2. CarryStand(entry', q) /\ CloseStand(entry', q) /\ Spent(entry', q)
                BY <1>5, <1>11, <1>13, <1>18, <3>3, <3>5 DEF CarryStand, CloseStand, Spent
            <4> QED
                BY <4>1, <4>2 DEF Stand
        <3>7. Settled(entry') /\ PinsCounted(entry', reads')
            BY <1>1, <1>8, <1>11, <2>4, <2>5, <3>3 DEF Settled, PinsCounted
        <3>8. Carries(entry', q)
            BY <1>5, <3>1 DEF Carries
        <3>9. Answers(entry', q) /\ HeldFor(entry', q)
            BY <1>11, <2>3, <2>4, <2>5, <3>8 DEF Answers, HeldFor, Running
        <3>10. Sole(w, entry', q, reads')
            BY <1>12, <3>6, <3>7, <3>9 DEF Sole
        <3>11. NewWork(entry, r)
            BY <3>1 DEF NewWork, job
        <3>12. q.job.epoch # entry'.claim.epoch
            <4>1. LegsRun(thread[w]) => thread[w].job.epoch # entry.claim.epoch
                BY <1>2, <3>11 DEF Custody, Unused, r
            <4>2. LegsRun(thread[w])
                BY <1>1 DEF LegsRun, r
            <4> QED
                BY <1>5, <1>10, <1>11, <4>1, <4>2 DEF r, c
        <3>13. entry.claim.leg' \in {entry.claim.leg, NoLeg}
            BY <1>11, <2>3
        <3> QED
            BY <1>1, <1>2, <1>5, <1>16, <1>20, <3>10, <3>11, <3>12, <3>13, EngagedStep DEF q, r
    <2>7. CASE job.epoch # c.epoch
        <3>1. ~Standing(entry', job) /\ claim.gate = c.gate /\ claim.marker = c.marker
              /\ c.gate # "held"
            BY <1>10, <1>14, <2>4, <2>7
        <3>2. ~Carries(entry', q) /\ ~Standing(entry', q.followup)
            BY <1>5, <3>1 DEF Carries
        <3>3. Stand(entry', q)
            <4>1. HoldsStand(entry', q) /\ LiveStand(entry', q) /\ NextStand(entry', q)
                BY <1>13 DEF HoldsStand, LiveStand, NextStand
            <4>2. CarryStand(entry', q) /\ CloseStand(entry', q) /\ Spent(entry', q)
                BY <1>5, <1>13, <1>18, <3>2 DEF CarryStand, CloseStand, Spent
            <4> QED
                BY <4>1, <4>2 DEF Stand
        <3>4. \A kind : (Fits(entry', kind) <=> Fits(entry, kind))
            BY <1>11 DEF Fits, InHandOf
        <3>5. Settled(entry') /\ PinsCounted(entry', reads')
            <4>1. Settled(entry')
                BY <1>8, <1>10, <1>11, <2>4, <2>5, <3>1, <3>4 DEF Settled, Standing, c
            <4> QED
                BY <1>1, <1>8, <1>11, <4>1 DEF PinsCounted
        <3>6. Answers(entry', q) /\ HeldFor(entry', q)
            BY <1>11, <2>3, <2>4, <2>5, <3>1 DEF Answers, HeldFor, Running
        <3>7. Sole(w, entry', q, reads')
            BY <1>12, <3>3, <3>5, <3>6 DEF Sole
        <3>8. NewWork(entry', q) => NewWork(entry, r)
            BY <1>11, <1>13, <3>1, <3>2 DEF NewWork, c
        <3>9. NewWork(entry', q) => q.job.epoch # entry'.claim.epoch
            <4>1. NewWork(entry, r) /\ LegsRun(thread[w]) => thread[w].job.epoch # entry.claim.epoch
                BY <1>2 DEF Custody, Unused, r
            <4>2. LegsRun(thread[w])
                BY <1>1 DEF LegsRun, r
            <4> QED
                BY <1>5, <1>10, <1>11, <3>8, <4>1, <4>2 DEF r, c
        <3>10. entry.claim.leg' \in {entry.claim.leg, NoLeg}
            BY <1>11, <2>3
        <3> QED
            BY <1>1, <1>2, <1>5, <1>16, <1>20, <3>7, <3>8, <3>9, <3>10, EngagedStep DEF q, r
    <2> QED
        BY <2>6, <2>7
<1> QED
    BY <1>19, <1>20

----------------------------------------------------------------------------
(* The end of a release                                                    *)

\* An open entry with no leg, that holds what it has.
Loosed(s, n) ==
    /\ s.claim.gate = "open" /\ s.claim.leg = NoLeg
    /\ s.coverage \in {NoCoverage, Parked} /\ (s.reader => s.coverage = Parked)
    /\ ~s.detach_in_flight /\ s.pinned_leg = NoLeg /\ s.pins = n

LEMMA LoosedSole ==
    ASSUME NEW t, NEW p, NEW q, NEW n \in Nat, Loosed(p, n), Shape(t, q),
           ~Holds(q), ~Closes(q), ~Live(p, q), ~Standing(p, q.next), ~Carries(p, q)
    PROVE  Sole(t, p, q, n) /\ ~NewWork(p, q) /\ ~Registers(p, q)
<1>1. LegFor(q) # NoLeg
    BY DEF LegFor, PollLeg, JobLeg, NoLeg
<1>2. ~Registers(p, q)
    BY <1>1 DEF Registers, Loosed
<1>3. Stand(p, q)
    <2>1. HoldsStand(p, q) /\ LiveStand(p, q) /\ NextStand(p, q) /\ CloseStand(p, q)
        BY DEF HoldsStand, LiveStand, NextStand, CloseStand
    <2>2. CarryStand(p, q) /\ Spent(p, q)
        BY <1>2 DEF CarryStand, Spent, Carries
    <2> QED
        BY <2>1, <2>2 DEF Stand
<1>4. ~OutWithLeg(p.coverage)
    BY DEF Loosed, OutWithLeg, NoCoverage, Parked
<1>5. Settled(p)
    BY <1>4 DEF Settled, Loosed, AccountedFor, Parked
<1>6. PinsCounted(p, n) /\ Answers(p, q) /\ HeldFor(p, q)
    BY <1>4 DEF PinsCounted, Answers, HeldFor, Loosed, Running
<1> QED
    BY <1>2, <1>3, <1>5, <1>6 DEF Sole, NewWork, Loosed

\* A thread that is to close a release window.
LEMMA ClosesIs ==
    ASSUME Inv, Custody, NEW t \in Threads, Closes(thread[t])
    PROVE  LET r == thread[t] IN
           /\ Engaged(entry, r) /\ Sole(t, entry, r, reads) /\ Shape(t, r) /\ LegsRun(r)
           /\ entry.detach_in_flight /\ entry.claim.gate = "open" /\ ~entry.reader
           /\ entry.claim.leg = NoLeg \/ (entry.claim.leg = LegFor(r) /\ r.rel = r.job.epoch)
           /\ r.pc = "returning" => entry.claim.leg = NoLeg
           /\ entry.coverage \in {NoCoverage, OnLeg(r.rel)}
           /\ entry.pinned_leg = NoLeg /\ entry.pins = reads
           /\ ~Standing(entry, r.next) /\ r.followup = NoJob /\ reads \in Nat
           /\ r \in ThreadStates /\ Reached(entry, r)
           /\ r.job.epoch \in 0..entry.claim.epoch /\ r.next.epoch \in 0..entry.claim.epoch
           /\ r.rel \in 0..entry.claim.epoch
<1> DEFINE r == thread[t]
<1>1. Engaged(entry, r)
    BY DEF Engaged
<1>2. Sole(t, entry, r, reads)
    BY <1>1, EngagedAlone
<1>3. /\ Shape(t, r) /\ Stand(entry, r) /\ Settled(entry) /\ Answers(entry, r)
      /\ PinsCounted(entry, reads)
    BY <1>2 DEF Sole
<1>4. r \in ThreadStates /\ entry.coverage \in Coverages /\ reads \in Nat /\ Reached(entry, r)
    BY ThreadNums, Facts DEF Entries, Inv, RestInv, Reached
<1>5. /\ r.job.epoch \in 0..entry.claim.epoch /\ r.next.epoch \in 0..entry.claim.epoch
      /\ r.rel \in 0..entry.claim.epoch
    BY ThreadFacts DEF EpochOf
<1> HIDE DEF r
<1>6. LegsRun(r) /\ r.pc \in {"releasing", "returning", "reclaiming"} /\ Closes(r) /\ ~Holds(r)
    BY DEF Closes, LegsRun, Holds, r
<1>7. entry.detach_in_flight
    BY <1>3, <1>6 DEF Stand, CloseStand
<1>8. entry.claim.gate = "open" /\ ~entry.reader /\ ~InHandOf(entry)
    BY <1>3, <1>7 DEF Settled
<1>9. /\ entry.claim.leg = NoLeg \/ (entry.claim.leg = LegFor(r) /\ r.rel = r.job.epoch)
      /\ r.pc = "returning" => entry.claim.leg = NoLeg
    BY <1>3, <1>6 DEF Stand, CloseStand, Registers
<1>10. entry.coverage \in {NoCoverage, OnLeg(r.rel)}
    <2>1. CASE OutWithLeg(entry.coverage)
        <3>1. entry.coverage.leg = r.rel
            BY <1>3, <1>6, <2>1 DEF Answers, Custodian
        <3> QED
            BY <1>4, <2>1, <3>1 DEF OutWithLeg, OnLeg, Coverages
    <2>2. CASE ~OutWithLeg(entry.coverage)
        BY <1>3, <1>8, <2>2 DEF Settled, InHandOf, InHand, Parked
    <2> QED
        BY <2>1, <2>2
<1>11. entry.pinned_leg = NoLeg
    BY <1>3, <1>6 DEF Answers
<1>12. entry.pins = reads
    BY <1>3, <1>4, <1>11 DEF PinsCounted
<1>13. ~Standing(entry, r.next)
    BY <1>3, <1>6 DEF Stand, NextStand
<1>14. r.followup = NoJob
    BY <1>3, <1>6 DEF Shape
<1> QED
    BY <1>1, <1>2, <1>3, <1>4, <1>5, <1>6, <1>7, <1>8, <1>9, <1>10, <1>11, <1>12, <1>13, <1>14
       DEF r

\* What the end of a release leaves, and that of a give-back.
LEMMA ReleasedIs ==
    ASSUME Inv, Custody, NEW t \in Threads, Closes(thread[t])
    PROVE  LET released == EndRelease(entry, thread[t].rel)
               back == [entry EXCEPT !.coverage = ReleasedBy(@, thread[t].rel),
                                     !.detach_in_flight = FALSE] IN
           /\ Loosed(released, reads) /\ Keeps(entry, released) /\ released.coverage = NoCoverage
           /\ thread[t].pc = "returning" => Loosed(back, reads)
           /\ Keeps(entry, back)
<1> DEFINE r == thread[t]
           epoch == r.rel
           claim == OpenGate(EndLeg(entry.claim, epoch))
           released == EndRelease(entry, epoch)
           back == [entry EXCEPT !.coverage = ReleasedBy(@, epoch), !.detach_in_flight = FALSE]
<1>1. /\ entry.claim.gate = "open" /\ ~entry.reader
      /\ entry.claim.leg = NoLeg \/ (entry.claim.leg = LegFor(r) /\ epoch = r.job.epoch)
      /\ r.pc = "returning" => entry.claim.leg = NoLeg
      /\ entry.coverage \in {NoCoverage, OnLeg(epoch)}
      /\ entry.pinned_leg = NoLeg /\ entry.pins = reads /\ reads \in Nat
      /\ epoch \in 0..entry.claim.epoch /\ r \in ThreadStates
    BY ClosesIs
<1>2. entry \in Entries /\ entry.claim \in Claims /\ Sound(entry)
    BY Facts DEF Entries
<1>3. LegFor(r).epoch = r.job.epoch
    BY <1>1, LegForIsALeg
<1>4. Keeps(entry, released)
    BY <1>1, <1>2, EndReleaseKeeps
<1>5. Keeps(entry, back)
    <2> DEFINE p == [entry EXCEPT !.coverage = ReleasedBy(@, epoch)]
               b == [p EXCEPT !.detach_in_flight = FALSE]
    <2>1. Keeps(entry, p)
        BY <1>1, <1>2, CustodyKeeps
    <2>2. back = b
        BY <1>2 DEF Entries
    <2> HIDE DEF p
    <2>3. Keeps(entry, b)
        BY <2>1, <1>2, FlagsMoved, ThenAlike DEF Keeps, Sound
    <2> QED
        BY <2>2, <2>3
<1> HIDE DEF r, epoch
<1>6. ReleasedBy(entry.coverage, epoch) = NoCoverage
    BY <1>1 DEF ReleasedBy, NoCoverage, OnLeg
<1>7. claim.gate = "open" /\ claim.leg = NoLeg /\ claim \in Claims
    <2> DEFINE d == EndLeg(entry.claim, epoch)
    <2>1. d \in Claims /\ d.leg = NoLeg
        BY <1>1, <1>2, <1>3 DEF EndLeg, Running, EndRunningLeg, Claims
    <2> HIDE DEF d
    <2>2. OpenGate(d).gate = "open" /\ OpenGate(d).leg = d.leg /\ OpenGate(d) \in Claims
        BY <2>1 DEF OpenGate, SetGate, Claims
    <2> QED
        BY <2>1, <2>2 DEF d
<1> HIDE DEF claim
<1>8. /\ released.claim = claim /\ released.coverage = ReleasedBy(entry.coverage, epoch)
      /\ released.reader = entry.reader /\ released.detach_in_flight = FALSE
      /\ released.pins = entry.pins /\ released.pinned_leg = entry.pinned_leg
    BY <1>2 DEF EndRelease, SetTrust, ClearRungs, ClearRebuild, ClearRecovery, RetireRecoveryDemands,
       ClearPending, Entries, claim
<1>9. /\ back.claim = entry.claim /\ back.coverage = ReleasedBy(entry.coverage, epoch)
      /\ back.reader = entry.reader /\ back.detach_in_flight = FALSE
      /\ back.pins = entry.pins /\ back.pinned_leg = entry.pinned_leg
    BY <1>2 DEF Entries
<1> HIDE DEF released, back
<1>10. Loosed(released, reads) /\ released.coverage = NoCoverage
    BY <1>1, <1>6, <1>7, <1>8 DEF Loosed
<1>11. r.pc = "returning" => Loosed(back, reads)
    BY <1>1, <1>6, <1>9 DEF Loosed
<1> QED
    BY <1>4, <1>5, <1>10, <1>11 DEF released, back, r, epoch

\* Where a thread goes after a send or a release.
LEMMA AfterShape ==
    ASSUME NEW t \in Threads, NEW r, NEW q, Shape(t, r),
           r.pc \in {"releasing", "returning", "sending"}, r.after # "idle",
           q.pc = r.after, q.held = FALSE, q.after = "idle", q.job = r.job, q.next = r.next,
           q.followup = NoJob
    PROVE  Shape(t, q)
<1>1. r.after \in {"ending", "losing", "departing", "handing"}
    BY DEF Shape
<1>2. t \in Workers \/ t = Dispatcher \/ t = Registrar
    BY DEF Threads
<1>3. CASE t \in Workers
    <2>1. t # Dispatcher /\ t # Registrar
        BY <1>3, ThreadsAssumption
    <2>2. r.job \in Jobs /\ r.after # "departing"
        BY <1>3 DEF Shape
    <2>3. r.job.kind # "none"
        BY <2>2 DEF Jobs, JobKinds
    <2>4. q.next # NoJob => q.pc \in {"handing", "losing"}
        BY <1>1, <2>2 DEF Shape
    <2> QED
        BY <1>1, <1>3, <2>1, <2>2, <2>4 DEF Shape
<1>4. CASE t = Dispatcher
    <2>1. t \notin Workers /\ t # Registrar
        BY <1>4, ThreadsAssumption
    <2> QED
        BY <1>1, <1>4, <2>1 DEF Shape
<1>5. CASE t = Registrar
    <2>1. t \notin Workers /\ t # Dispatcher
        BY <1>5, ThreadsAssumption
    <2> QED
        BY <1>1, <1>5, <2>1 DEF Shape
<1> QED
    BY <1>2, <1>3, <1>4, <1>5

\* A thread that goes on once its release is over.
LEMMA ResumesShape ==
    ASSUME Inv, Custody, NEW t \in Threads, Closes(thread[t]), Resumes(t)
    PROVE  LET q == thread'[t] IN
           /\ Unmoved(t) /\ Shape(t, q) /\ ~Holds(q) /\ ~Closes(q)
           /\ \A p : p.claim.epoch = entry.claim.epoch =>
                  ~Live(p, q) /\ ~Standing(p, q.next) /\ ~Carries(p, q)
           /\ q.job.epoch \in 0..entry.claim.epoch /\ q.next.epoch \in 0..entry.claim.epoch
           /\ q.followup.epoch \in 0..entry.claim.epoch
<1> DEFINE r == thread[t]
           q == thread'[t]
<1>1. /\ Shape(t, r) /\ ~Standing(entry, r.next) /\ LegsRun(r)
      /\ r.job.epoch \in 0..entry.claim.epoch /\ r.next.epoch \in 0..entry.claim.epoch
      /\ r.pc \in {"releasing", "returning", "reclaiming"}
    BY ClosesIs DEF Closes
<1>2. /\ Unmoved(t)
      /\ r.after = "idle" => q = Idle
      /\ r.after # "idle" =>
             /\ q.pc = r.after /\ q.held = FALSE
             /\ q.after = "idle" /\ q.job = r.job
             /\ q.next = r.next /\ q.followup = NoJob
             /\ q.rel = 0
    BY ResumesTo
<1>3. NoJob.epoch \in 0..entry.claim.epoch
    BY Facts DEF NoJob
<1> HIDE DEF r, q
<1>4. CASE r.after = "idle"
    <2>1. q = Idle
        BY <1>2, <1>4
    <2>2. \A p : ~Engaged(p, q) /\ Stand(p, q)
        BY <2>1, IdleIs
    <2>3. Shape(t, q) /\ ~Holds(q) /\ ~Closes(q)
        BY <2>1, IdleIs
    <2>4. q.job = NoJob /\ q.next = NoJob /\ q.followup = NoJob /\ q.pc = "idle"
        BY <2>1, IdleIs
    <2>5. \A p : ~Live(p, q) /\ ~Standing(p, q.next) /\ ~Carries(p, q)
        BY <2>4 DEF Live, Standing, Carries
    <2> QED
        BY <1>2, <1>3, <2>3, <2>4, <2>5 DEF r, q
<1>5. CASE r.after # "idle"
    <2>1. r.after \in {"ending", "losing", "departing", "handing"}
        BY <1>1, <1>5 DEF Shape
    <2>2. ~Holds(q) /\ ~Closes(q)
        BY <1>2, <1>5, <2>1 DEF Holds, Closes
    <2>3. ASSUME NEW p, p.claim.epoch = entry.claim.epoch
          PROVE  ~Live(p, q) /\ ~Standing(p, q.next) /\ ~Carries(p, q)
        <3>1. ~Standing(p, r.next)
            BY <1>1, <2>3 DEF Standing
        <3> QED
            BY <1>2, <1>5, <2>1, <3>1 DEF Live, Carries, Standing
    <2>4. Shape(t, q)
        <3>1. r.pc \in {"releasing", "returning"}
            BY <1>1, <1>5 DEF Shape
        <3> QED
            BY <1>1, <1>2, <1>5, <3>1, AfterShape
    <2> QED
        BY <1>1, <1>2, <1>3, <1>5, <2>2, <2>3, <2>4 DEF r, q
<1> QED
    BY <1>4, <1>5

\* The thread that closes a window goes on over the entry it leaves loose.
LEMMA ClosesWindow ==
    ASSUME Inv, Inv', Custody, NEW t \in Threads, Closes(thread[t]), Unmoved(t),
           NEW s, Keeps(entry, s), Loosed(s, reads), MaySchedule(s, entry'),
           UNCHANGED <<queue, sends, reads>>,
           Shape(t, thread'[t]), ~Holds(thread'[t]), ~Closes(thread'[t]),
           ~Live(s, thread'[t]), ~Standing(s, thread'[t].next), ~Carries(s, thread'[t]),
           thread'[t].job.epoch \in 0..entry.claim.epoch,
           thread'[t].next.epoch \in 0..entry.claim.epoch,
           thread'[t].followup.epoch \in 0..entry.claim.epoch
    PROVE  Custody'
<1>1. Engaged(entry, thread[t]) /\ reads \in Nat
    BY ClosesIs
<1>2. Sole(t, s, thread'[t], reads') /\ ~NewWork(s, thread'[t])
    BY <1>1, LoosedSole
<1>3. s.claim.leg \in {entry.claim.leg, NoLeg}
    BY DEF Loosed
<1> QED
    BY <1>1, <1>2, <1>3, EngagedThenSchedules

LEMMA ReturnCoverageKeeps ==
    ASSUME Inv, Inv', Custody, NEW t \in Threads, ReturnCoverage(t) PROVE Custody'
<1> DEFINE back == [entry EXCEPT !.coverage = ReleasedBy(@, thread[t].rel),
                                 !.detach_in_flight = FALSE]
<1>1. /\ thread[t].pc = "returning" /\ Resumes(t) /\ UNCHANGED <<queue, sends, reads>>
      /\ entry' = ScheduleDemandedWork(back)
    BY DEF ReturnCoverage, At, EndGiveBack, Channel, Client
<1>2. Closes(thread[t])
    BY <1>1 DEF Closes
<1>3. Loosed(back, reads) /\ Keeps(entry, back)
    BY <1>1, <1>2, ReleasedIs
<1> HIDE DEF back
<1>4. MaySchedule(back, entry')
    BY <1>1, <1>3, WaysToSchedule DEF Keeps, Sound, Loosed
<1>5. back.claim.epoch = entry.claim.epoch
    BY <1>3 DEF Keeps
<1> QED
    BY <1>1, <1>2, <1>3, <1>4, <1>5, ResumesShape, ClosesWindow

LEMMA FinishReclaimKeeps ==
    ASSUME Inv, Inv', Custody, NEW t \in Threads, FinishReclaim(t) PROVE Custody'
<1> DEFINE r == thread[t]
           q == thread'[t]
           released == EndRelease(entry, thread[t].rel)
<1>1. /\ r.pc = "reclaiming" /\ UNCHANGED <<queue, sends, reads>>
      /\ entry' = released
      /\ thread' = [thread EXCEPT ![t] = Moved([@ EXCEPT !.rel = 0], "reclaimed", FALSE)]
    BY DEF FinishReclaim, At, Channel, Client
<1>2. Closes(r)
    BY <1>1 DEF Closes
<1>3. Loosed(released, reads) /\ Keeps(entry, released)
    BY <1>2, ReleasedIs
<1>4. /\ Shape(t, r) /\ r.followup = NoJob /\ r \in ThreadStates
      /\ r.job.epoch \in 0..entry.claim.epoch /\ r.next.epoch \in 0..entry.claim.epoch
    BY <1>2, ClosesIs
<1>5. r.next = NoJob
    BY <1>1, <1>4 DEF Shape
<1>6. thread \in [Threads -> ThreadStates]
    BY DEF Inv, ThreadInv
<1>7. /\ q.pc = "reclaimed" /\ q.held = FALSE /\ q.after = "idle" /\ q.job = r.job
      /\ q.next = r.next /\ q.followup = r.followup /\ Unmoved(t)
    BY <1>1, <1>4, <1>6 DEF Moved, ThreadStates, Unmoved
<1>8. SameCustody(released, released)
    BY DEF SameCustody
<1> HIDE DEF r, q, released
<1>9. Shape(t, q)
    BY <1>1, <1>4, <1>5, <1>7 DEF Shape
<1>10. /\ ~Holds(q) /\ ~Closes(q) /\ ~Live(released, q) /\ ~Standing(released, q.next)
       /\ ~Carries(released, q)
    BY <1>4, <1>5, <1>7 DEF Holds, Closes, Live, Standing, Carries
<1>11. /\ q.job.epoch \in 0..entry.claim.epoch /\ q.next.epoch \in 0..entry.claim.epoch
       /\ q.followup.epoch \in 0..entry.claim.epoch
    BY <1>4, <1>7, Facts DEF NoJob
<1> QED
    BY <1>1, <1>2, <1>3, <1>7, <1>8, <1>9, <1>10, <1>11, ClosesWindow DEF MaySchedule, r, q

\* The attach a released entry is owed, handed on with its slot taken.
LEMMA ReattachFields ==
    ASSUME NEW s \in Entries, s.claim.gate # "scheduled"
    PROVE  LET e == Reattach(s)
               epoch == s.claim.epoch + 1 IN
           /\ ClaimIs(e.claim, epoch, "held", NoJob, s.claim.leg, epoch)
           /\ e.coverage = s.coverage /\ e.reader = s.reader
           /\ e.detach_in_flight = s.detach_in_flight
           /\ e.pins = s.pins /\ e.pinned_leg = s.pinned_leg
<1> DEFINE claim == HandOn(s.claim, "Attach")
           u == SetTrust(s, "Installing")
           next == HandOnTo(u, "Attach")
<1>1. s.claim \in Claims
    BY DEF Entries
<1>2. ClaimIs(claim, s.claim.epoch + 1, "held", NoJob, s.claim.leg, s.claim.slot)
    BY <1>1, HandOnFields DEF JobKinds
<1>8. claim \in Claims
    <2>1. Supersede(s.claim) \in Claims
        BY <1>1 DEF Supersede, Claims
    <2>2. \A c \in Claims : Hold(c) \in Claims
        BY DEF Hold, SetGate, Claims
    <2> QED
        BY <2>1, <2>2 DEF HandOn
<1> HIDE DEF claim
<1>3. /\ u \in Entries /\ u.claim = s.claim /\ u.coverage = s.coverage /\ u.reader = s.reader
      /\ u.detach_in_flight = s.detach_in_flight /\ u.pins = s.pins
      /\ u.pinned_leg = s.pinned_leg
    BY DEF SetTrust, Entries, Trusts, Warm
<1> HIDE DEF u
<1>4. /\ next.claim = claim /\ next.coverage = u.coverage /\ next.reader = u.reader
      /\ next.detach_in_flight = u.detach_in_flight /\ next.pins = u.pins
      /\ next.pinned_leg = u.pinned_leg /\ next \in Entries
    BY <1>3, <1>8 DEF HandOnTo, Entries, claim
<1>5. Reattach(s) = [next EXCEPT !.claim = TakeSlot(@, next.claim.epoch)]
    BY DEF Reattach, next, u
<1> HIDE DEF next
<1>6. LET c == TakeSlot(claim, claim.epoch) IN
      ClaimIs(c, claim.epoch, claim.gate, claim.marker, claim.leg, claim.epoch)
    BY <1>8 DEF TakeSlot, ClaimIs, Claims
<1>7. /\ Reattach(s).claim = TakeSlot(claim, claim.epoch)
      /\ Reattach(s).coverage = next.coverage /\ Reattach(s).reader = next.reader
      /\ Reattach(s).detach_in_flight = next.detach_in_flight
      /\ Reattach(s).pins = next.pins /\ Reattach(s).pinned_leg = next.pinned_leg
    BY <1>4, <1>5 DEF Entries
<1> QED
    BY <1>2, <1>3, <1>4, <1>6, <1>7 DEF ClaimIs

\* An attach handed on over an entry that has let everything go.
LEMMA SendsAttach ==
    ASSUME NEW t \in Threads, NEW s, NEW e, NEW r, NEW q \in ThreadStates, NEW n \in Nat,
           NEW epoch \in Nat,
           Loosed(s, n), s.coverage = NoCoverage, epoch = s.claim.epoch,
           ClaimIs(e.claim, epoch + 1, "held", NoJob, NoLeg, epoch + 1),
           e.coverage = s.coverage, e.reader = s.reader,
           e.detach_in_flight = s.detach_in_flight, e.pins = s.pins,
           e.pinned_leg = s.pinned_leg,
           Shape(t, r), Closes(r), Reached(s, r), r.pc = "releasing",
           q.pc = "sending", ~q.held, q.followup = [kind |-> "Attach", epoch |-> epoch + 1],
           q.job = r.job, q.next = r.next, q.after = r.after
    PROVE  Sole(t, e, q, n)
<1>1. q.followup # NoJob /\ q.followup.kind = "Attach" /\ q.followup.epoch = epoch + 1
    BY DEF NoJob
<1>2. Shape(t, q)
    BY <1>1 DEF Shape
<1>3. /\ ~Registers(e, q) /\ ~Holds(q) /\ ~Live(e, q) /\ ~Closes(q)
      /\ ~Standing(e, q.next)
    BY LegForIsALeg DEF Registers, Holds, Live, Closes, Standing, ClaimIs, Reached
<1>4. Sent(e, q.followup) /\ Carries(e, q)
    BY <1>1 DEF Sent, Fits, Loosed, ClaimIs, Carries, Standing, NoCoverage, Parked
<1>5. Stand(e, q)
    BY <1>3, <1>4 DEF Stand, HoldsStand, LiveStand, NextStand, CarryStand, CloseStand, Spent,
                      ClaimIs
<1>6. /\ Settled(e) /\ PinsCounted(e, n) /\ ~e.detach_in_flight /\ ~OutWithLeg(e.coverage)
      /\ ~Running(e.claim) /\ e.pinned_leg = NoLeg
    BY DEF Settled, PinsCounted, Loosed, ClaimIs, OutWithLeg, NoCoverage, Parked, Running
<1> QED
    BY <1>2, <1>4, <1>5, <1>6 DEF Sole, Answers, HeldFor

LEMMA FinishReleaseKeeps ==
    ASSUME Inv, Inv', Custody, NEW t \in Threads, FinishRelease(t) PROVE Custody'
<1> DEFINE r == thread[t]
           q == thread'[t]
           released == EndRelease(entry, thread[t].rel)
<1>1. r.pc = "releasing" /\ UNCHANGED <<queue, sends, reads>>
    BY DEF FinishRelease, At, Channel, Client
<1>2. Closes(r)
    BY <1>1 DEF Closes
<1>3. Loosed(released, reads) /\ Keeps(entry, released) /\ released.coverage = NoCoverage
    BY <1>2, ReleasedIs
<1>4. released \in Entries /\ released.claim.epoch = entry.claim.epoch
    BY <1>3 DEF Keeps, Sound
<1>5. CASE ~ReattachOwed(entry)
    <2>1. entry' = released /\ Resumes(t)
        BY <1>5 DEF FinishRelease
    <2>2. SameCustody(released, released)
        BY DEF SameCustody
    <2> HIDE DEF released
    <2>3. MaySchedule(released, entry')
        BY <2>1, <2>2 DEF MaySchedule
    <2> QED
        BY <1>1, <1>2, <1>3, <1>4, <2>1, <2>3, ResumesShape, ClosesWindow
<1>6. CASE ReattachOwed(entry)
    <2> DEFINE next == [kind |-> "Attach", epoch |-> released.claim.epoch + 1]
    <2>1. /\ entry' = Reattach(released)
          /\ thread' = [thread EXCEPT ![t] =
                [@ EXCEPT !.pc = "sending", !.held = FALSE, !.rel = 0, !.followup = next]]
        BY <1>6 DEF FinishRelease
    <2> HIDE DEF released
    <2>2. thread \in [Threads -> ThreadStates] /\ thread' \in [Threads -> ThreadStates]
        BY DEF Inv, ThreadInv
    <2>3. /\ q \in ThreadStates /\ q.pc = "sending" /\ ~q.held /\ q.followup = next
          /\ q.job = r.job /\ q.next = r.next /\ q.after = r.after /\ Unmoved(t)
        BY <2>1, <2>2 DEF ThreadStates, Unmoved
    <2> HIDE DEF q
    <2>4. /\ Engaged(entry, r) /\ Shape(t, r) /\ Reached(entry, r) /\ reads \in Nat
          /\ entry.claim.epoch \in Nat
        BY <1>2, ClosesIs DEF Reached
    <2>5. Reached(released, r)
        BY <1>4, <2>4 DEF Reached
    <2>6. /\ ClaimIs(entry'.claim, entry.claim.epoch + 1, "held", NoJob, NoLeg,
                     entry.claim.epoch + 1)
          /\ entry'.coverage = released.coverage /\ entry'.reader = released.reader
          /\ entry'.detach_in_flight = released.detach_in_flight
          /\ entry'.pins = released.pins /\ entry'.pinned_leg = released.pinned_leg
        BY <1>3, <1>4, <2>1, ReattachFields DEF Loosed
    <2>7. Sole(t, entry', q, reads)
        BY <1>1, <1>2, <1>3, <1>4, <2>3, <2>4, <2>5, <2>6, SendsAttach
    <2>8. /\ entry'.claim.epoch > entry.claim.epoch /\ entry'.claim.leg = NoLeg
          /\ entry'.claim.epoch >= entry.claim.epoch
          /\ q.job.epoch # entry'.claim.epoch
        <3>1. entry'.claim.epoch = entry.claim.epoch + 1 /\ entry'.claim.leg = NoLeg
            BY <2>6 DEF ClaimIs
        <3>2. r.job.epoch \in Nat /\ r.job.epoch <= entry.claim.epoch
            BY <2>4 DEF Reached
        <3> QED
            BY <3>1, <3>2, <2>3, <2>4
    <2> QED
        BY <1>1, <2>3, <2>4, <2>7, <2>8, EngagedStep DEF q
<1> QED
    BY <1>5, <1>6

----------------------------------------------------------------------------
(* The end of an unwound leg                                               *)

LEMMA UnwoundIs ==
    ASSUME Inv, Custody, NEW t \in Threads, At(t, "unwound")
    PROVE  LET r == thread[t] IN
           /\ r.pc = "unwound" /\ LegOf(t) = LegFor(r) /\ LegsRun(r) /\ ~Closes(r)
           /\ r.job.kind # "none" /\ r.next = NoJob /\ r.followup = NoJob /\ r.after = "idle"
           /\ Shape(t, r) /\ ~Carries(entry, r)
           /\ Registers(entry, r) <=> entry.claim.leg = LegOf(t)
<1> DEFINE r == thread[t]
<1>1. r.pc = "unwound" /\ Shape(t, r) /\ LegOf(t) = LegFor(r)
    BY DEF At, Custody, ThreadsStand, LegOf, LegFor, KindOf, EpochOf
<1> HIDE DEF r
<1>2. /\ r.next = NoJob /\ r.followup = NoJob /\ r.after = "idle" /\ LegsRun(r) /\ ~Closes(r)
    BY <1>1 DEF Shape, LegsRun, Closes
<1>3. r.job.kind # "none"
    <2>1. CASE t \in Workers
        BY <1>1, <2>1 DEF Shape, Jobs, JobKinds
    <2>2. CASE t = Dispatcher
        BY <1>1, <2>2 DEF Shape
    <2>3. CASE t = Registrar
        BY <1>1, <2>3 DEF Shape
    <2> QED
        BY <2>1, <2>2, <2>3 DEF Threads
<1>4. ~Carries(entry, r)
    BY <1>1, <1>2 DEF Carries, Standing
<1> QED
    BY <1>1, <1>2, <1>3, <1>4 DEF Registers, r

\* The entry a reclaim leaves, while the window is open.
LEMMA ReclaimFields ==
    ASSUME NEW s \in Entries, s.claim.gate # "scheduled" \/ Running(s.claim)
    PROVE  LET e == BeginRelease([InvalidateClaim(s) EXCEPT !.coverage = GiveUp(@)]) IN
           /\ e.claim.epoch = s.claim.epoch + 1 /\ e.claim.gate = "open"
           /\ e.claim.leg = s.claim.leg /\ e.detach_in_flight /\ ~e.reader
           /\ e.coverage = GiveUp(s.coverage) /\ e.pins = s.pins
           /\ e.pinned_leg = s.pinned_leg
<1> DEFINE u == InvalidateClaim(s)
           v == [u EXCEPT !.coverage = GiveUp(@)]
<1>1. s.claim \in Claims
    BY DEF Entries
<1>2. /\ u \in Entries /\ u.claim.epoch = s.claim.epoch + 1 /\ u.claim.leg = s.claim.leg
      /\ u.coverage = s.coverage /\ u.pins = s.pins /\ u.pinned_leg = s.pinned_leg
    <2>1. /\ u.claim = Invalidate(s.claim) /\ u.coverage = s.coverage /\ u.pins = s.pins
          /\ u.pinned_leg = s.pinned_leg
        BY DEF InvalidateClaim, Entries
    <2>2. Invalidate(s.claim) \in Claims
        BY <1>1, InvalidateFields
    <2>3. u \in Entries
        BY <2>2 DEF InvalidateClaim, Entries
    <2> QED
        BY <1>1, <2>1, <2>3, InvalidateFields
<1> HIDE DEF u
<1>3. /\ v \in Entries /\ v.claim = u.claim /\ v.coverage = GiveUp(u.coverage)
      /\ v.pins = u.pins /\ v.pinned_leg = u.pinned_leg
    <2>1. u.coverage \in Coverages /\ NoCoverage \in Coverages
        BY <1>2 DEF Entries, NoCoverage, Coverages
    <2>2. GiveUp(u.coverage) \in Coverages
        BY <2>1 DEF GiveUp
    <2> QED
        BY <1>2, <2>2 DEF Entries
<1> HIDE DEF v
<1> QED
    BY <1>2, <1>3, BeginReleaseFields DEF ClaimIs, u, v

LEMMA ReclaimKeeps ==
    ASSUME Inv, Inv', Custody, NEW t \in Threads, Reclaim(t) PROVE Custody'
<1> DEFINE r == thread[t]
           q == thread'[t]
           s == UnpinLeg(entry, LegOf(t))
           e == entry'
<1>1. At(t, "unwound") /\ UNCHANGED <<queue, sends, reads>>
    BY DEF Reclaim, Channel, Client
<1>2. /\ r.pc = "unwound" /\ LegOf(t) = LegFor(r) /\ LegsRun(r) /\ ~Closes(r)
      /\ r.job.kind # "none" /\ r.next = NoJob /\ r.followup = NoJob /\ r.after = "idle"
      /\ Shape(t, r) /\ ~Carries(entry, r)
      /\ Registers(entry, r) <=> entry.claim.leg = LegOf(t)
    BY <1>1, UnwoundIs
<1>3. /\ Settled(entry) /\ entry \in Entries /\ reads \in Nat /\ r \in ThreadStates
      /\ PinsCounted(entry, reads) /\ entry.claim.epoch \in Nat
      /\ r.job.epoch \in Nat /\ r.job.epoch <= entry.claim.epoch
    BY Facts, ThreadNums DEF Custody, Inv, RestInv
<1>4. CASE entry.claim.leg # LegOf(t)
    <2>1. LegOf(t) # NoLeg /\ LegFor(r) # NoLeg
        BY <1>2, <1>3, LegForIsALeg
    <2>2. entry.pinned_leg # LegOf(t)
        BY <1>3, <1>4, <2>1 DEF Settled
    <2>3. entry' = entry /\ Rests(t)
        BY <1>4, <2>2 DEF Reclaim, UnpinLeg
    <2>4. ~Engaged(entry, r)
        BY <1>2, <1>4 DEF Engaged
    <2>5. SameStanding(entry, entry')
        BY <2>3 DEF SameStanding
    <2> QED
        BY <1>1, <2>3, <2>4, <2>5, RestsTo, QuietIdles
<1>5. CASE entry.claim.leg = LegOf(t)
    <2>1. Registers(entry, r) /\ Engaged(entry, r)
        BY <1>2, <1>5 DEF Engaged
    <2>2. Sole(t, entry, r, reads)
        BY <2>1, EngagedAlone
    <2>3. entry.claim.leg = LegFor(r) /\ LegFor(r) # NoLeg
        BY <1>2, <1>3, <1>5, LegForIsALeg
    <2>4. /\ s \in Entries /\ s.claim = entry.claim /\ s.coverage = entry.coverage
          /\ s.pinned_leg = NoLeg /\ s.pins = reads
        <3>1. s \in Entries
            BY UnpinnedKeeps DEF Keeps, Sound
        <3>2. entry.pinned_leg \in {LegOf(t), NoLeg}
            BY <1>3, <1>5 DEF Settled
        <3>3. CASE entry.pinned_leg = NoLeg
            <4>1. s = entry
                BY <1>2, <2>3, <3>3 DEF UnpinLeg
            <4> QED
                BY <1>3, <3>1, <3>3, <4>1 DEF PinsCounted
        <3>4. CASE entry.pinned_leg = LegOf(t)
            <4>1. entry.pins = reads + 1
                BY <1>2, <1>3, <2>3, <3>4 DEF PinsCounted
            <4>2. s = Unpin([entry EXCEPT !.pinned_leg = NoLeg])
                BY <3>4 DEF UnpinLeg
            <4> QED
                BY <1>3, <3>1, <4>1, <4>2 DEF Unpin, Entries
        <3> QED
            BY <3>2, <3>3, <3>4
    <2>5. /\ entry' = BeginRelease([InvalidateClaim(s) EXCEPT !.coverage = GiveUp(@)])
          /\ thread' = [thread EXCEPT ![t] =
                [@ EXCEPT !.pc = "reclaiming", !.held = InHandOf(entry), !.rel = EpochOf(t)]]
        BY <1>5 DEF Reclaim
    <2> HIDE DEF s
    <2>6. /\ e.claim.epoch = entry.claim.epoch + 1 /\ e.claim.gate = "open"
          /\ e.claim.leg = LegFor(r) /\ e.detach_in_flight /\ ~e.reader
          /\ e.coverage = GiveUp(entry.coverage) /\ e.pins = reads /\ e.pinned_leg = NoLeg
        BY <2>3, <2>4, <2>5, ReclaimFields DEF Running
    <2>7. thread \in [Threads -> ThreadStates] /\ thread' \in [Threads -> ThreadStates]
        BY DEF Inv, ThreadInv
    <2>8. /\ Unmoved(t) /\ q.pc = "reclaiming" /\ q.rel = r.job.epoch /\ q.job = r.job
          /\ q.next = NoJob /\ q.followup = NoJob /\ q.after = "idle"
        BY <1>2, <2>5, <2>7 DEF Unmoved, EpochOf, ThreadStates
    <2> HIDE DEF q, e, r
    <2>9. Shape(t, q)
        BY <1>2, <2>8 DEF Shape
    <2>10. /\ Registers(e, q) /\ ~Holds(q) /\ ~Live(e, q) /\ Closes(q) /\ LegsRun(q)
           /\ ~Standing(e, q.next) /\ ~Carries(e, q)
        BY <1>2, <2>6, <2>8 DEF Registers, Holds, Live, Closes, LegsRun, Standing, Carries, LegFor
    <2>11. Stand(e, q)
        BY <2>6, <2>8, <2>10 DEF Stand, HoldsStand, LiveStand, NextStand, CarryStand, CloseStand,
                                Spent, Carries
    <2>12. OutWithLeg(e.coverage) => e.coverage = entry.coverage
        BY <2>6 DEF GiveUp, OutWithLeg, NoCoverage
    <2>13. Settled(e)
        <3>1. e.coverage \in {NoCoverage} \/ OutWithLeg(e.coverage)
            BY <1>3, <2>6 DEF Settled, GiveUp, InHand, Parked
        <3> QED
            BY <2>6, <3>1 DEF Settled, InHandOf, InHand, NoCoverage, OutWithLeg
    <2>14. PinsCounted(e, reads)
        BY <1>3, <2>6 DEF PinsCounted
    <2>15. Answers(e, q)
        <3>1. OutWithLeg(e.coverage) => e.coverage.leg = r.job.epoch
            BY <1>2, <2>2, <2>12 DEF Sole, Answers, Custodian
        <3> QED
            BY <2>6, <2>8, <2>10, <3>1 DEF Answers, Custodian, Running
    <2>16. HeldFor(e, q) /\ ~NewWork(e, q)
        BY <2>6, <2>10 DEF HeldFor, NewWork
    <2>17. Sole(t, e, q, reads) /\ e.claim.epoch >= entry.claim.epoch
        BY <1>3, <2>6, <2>9, <2>11, <2>13, <2>14, <2>15, <2>16 DEF Sole
    <2> QED
        BY <1>1, <2>1, <2>3, <2>6, <2>8, <2>16, <2>17, EngagedStep DEF q, e, r
<1> QED
    BY <1>4, <1>5

----------------------------------------------------------------------------
(* The channel                                                             *)

\* While a job of the entry's epoch waits to begin, nothing of the entry is out.
LEMMA WaitingIs ==
    ASSUME Inv, Custody, entry.claim.leg = NoLeg, ~entry.detach_in_flight
    PROVE  /\ ~Running(entry.claim) /\ entry.pinned_leg = NoLeg /\ ~OutWithLeg(entry.coverage)
           /\ \A u \in Threads : ~Registers(entry, thread[u]) /\ ~Closes(thread[u])
<1>1. ASSUME NEW u \in Threads PROVE ~Registers(entry, thread[u]) /\ ~Closes(thread[u])
    <2>1. LegFor(thread[u]) # NoLeg
        BY ThreadNums, LegForIsALeg
    <2>2. CloseStand(entry, thread[u])
        BY DEF Custody, ThreadsStand, Stand
    <2> QED
        BY <2>1, <2>2 DEF Registers, CloseStand
<1>2. entry.pinned_leg = NoLeg
    BY DEF Custody, Settled
<1>3. ~OutWithLeg(entry.coverage)
    BY <1>1 DEF Custody, Answered, Custodian
<1> QED
    BY <1>1, <1>2, <1>3 DEF Running

\* Where no thread is waited for, the channel or the marker has the work.
LEMMA ChannelStep ==
    ASSUME Inv, Inv', Custody, \A u \in Threads : Quiet(u),
           entry.claim.epoch' >= entry.claim.epoch,
           Settled(entry'), PinsCounted(entry', reads'), ~Running(entry.claim)',
           ~entry'.detach_in_flight, entry'.pinned_leg = NoLeg, ~OutWithLeg(entry'.coverage),
           entry.claim.gate' = "held" => InQueue' \/ InSends',
           ~(InQueue' /\ InSends'), ChannelSent',
           InQueue \/ InSends \/ \E v \in Threads : NewWork(entry, thread[v])
    PROVE  Custody'
<1>1. ASSUME NEW u \in Threads
      PROVE  /\ Shape(u, thread'[u]) /\ Stand(entry', thread'[u]) /\ ~Engaged(entry', thread'[u])
             /\ LegsRun(thread'[u]) =>
                    \/ thread'[u].job.epoch # entry.claim.epoch'
                    \/ LegsRun(thread[u]) /\ thread'[u].job.epoch = thread[u].job.epoch
    BY DEF Quiet
<1>2. Unused'
    <2> SUFFICES ASSUME NEW v \in Threads, LegsRun(thread'[v])
                 PROVE  thread'[v].job.epoch # entry.claim.epoch'
        BY DEF Unused
    <2>1. /\ thread[v].job.epoch \in Nat /\ thread[v].job.epoch <= entry.claim.epoch
          /\ entry.claim.epoch \in Nat /\ entry.claim.epoch' \in Nat
        BY ThreadNums, SoundEpoch DEF Inv
    <2>2. LegsRun(thread[v]) => thread[v].job.epoch # entry.claim.epoch
        BY DEF Custody, Unused
    <2> QED
        BY <1>1, <2>1, <2>2
<1>3. ThreadsStand' /\ OneEngaged'
    BY <1>1 DEF ThreadsStand, OneEngaged
<1>4. ChannelStands'
    BY <1>1 DEF ChannelStands
<1>5. Answered'
    BY DEF Answered
<1> QED
    BY <1>2, <1>3, <1>4, <1>5 DEF Custody

\* A thread whose send is over has nothing to answer for.
LEMMA SentQuiet ==
    ASSUME Inv, Inv', Custody, NEW t \in Threads, At(t, "sending"), Resumes(t),
           entry.claim.epoch' = entry.claim.epoch, entry.claim.leg' = entry.claim.leg
    PROVE  Unmoved(t) /\ Quiet(t)
<1> DEFINE r == thread[t]
           q == thread'[t]
<1>1. /\ r.pc = "sending" /\ Shape(t, r) /\ Stand(entry, r) /\ LegsRun(r)
    BY DEF At, Custody, ThreadsStand, LegsRun
<1>2. /\ Unmoved(t)
      /\ r.after = "idle" => q = Idle
      /\ r.after # "idle" =>
             /\ q.pc = r.after /\ q.held = FALSE
             /\ q.after = "idle" /\ q.job = r.job
             /\ q.next = r.next /\ q.followup = NoJob
    BY ResumesTo
<1> HIDE DEF r, q
<1>3. CASE r.after = "idle"
    BY <1>2, <1>3, IdleIs DEF Quiet, q
<1>4. CASE r.after # "idle"
    <2>1. r.after \in {"ending", "losing", "departing", "handing"}
        BY <1>1, <1>4 DEF Shape
    <2>2. Shape(t, q)
        BY <1>1, <1>2, <1>4, AfterShape
    <2>3. ~Registers(entry, r) /\ ~Standing(entry, r.next)
        BY <1>1 DEF Stand, Spent, NextStand
    <2>4. /\ ~Registers(entry', q) /\ ~Standing(entry', q.next) /\ ~Carries(entry', q)
          /\ ~Holds(q) /\ ~Closes(q) /\ ~Live(entry', q)
        <3>1. LegFor(q) = LegFor(r) /\ LegsRun(q)
            BY <1>2, <1>4, <2>1 DEF LegFor, LegsRun
        <3>2. ~Registers(entry', q)
            BY <1>1, <1>2, <1>4, <2>3, <3>1 DEF Registers
        <3> QED
            BY <1>2, <1>4, <2>1, <2>3, <3>2 DEF Standing, Carries, Holds, Closes, Live
    <2>5. Stand(entry', q) /\ ~Engaged(entry', q)
        BY <2>4 DEF Stand, HoldsStand, LiveStand, NextStand, CarryStand, CloseStand,
                    Carries, Spent, Engaged
    <2> QED
        BY <1>1, <1>2, <1>4, <2>2, <2>5 DEF Quiet, r, q
<1> QED
    BY <1>2, <1>3, <1>4

\* A job put into the channel.
LEMMA Appended ==
    ASSUME Inv, Inv', NEW job \in Jobs, queue' = Append(queue, job)
    PROVE  /\ \A i \in DOMAIN queue : i \in DOMAIN queue' /\ queue'[i] = queue[i]
           /\ \A i \in DOMAIN queue' : i \notin DOMAIN queue => queue'[i] = job
           /\ \A i, j \in DOMAIN queue' : i \notin DOMAIN queue /\ j \notin DOMAIN queue => i = j
           /\ \E i \in DOMAIN queue' : queue'[i] = job
<1>1. queue \in Seq(Jobs) /\ queue' \in Seq(Jobs)
    BY DEF Inv, ChannelInv
<1>2. /\ Len(queue') = Len(queue) + 1 /\ queue'[Len(queue) + 1] = job
      /\ \A i \in 1..Len(queue) : queue'[i] = queue[i]
    BY <1>1, AppendProperties
<1>3. DOMAIN queue = 1..Len(queue) /\ DOMAIN queue' = 1..Len(queue') /\ Len(queue) \in Nat
    BY <1>1, LenProperties
<1>4. \A i \in DOMAIN queue' : i \notin DOMAIN queue => i = Len(queue) + 1
    BY <1>2, <1>3
<1>5. \A i \in DOMAIN queue : i \in DOMAIN queue'
    BY <1>2, <1>3
<1>6. Len(queue) + 1 \in DOMAIN queue'
    BY <1>2, <1>3
<1> QED
    BY <1>2, <1>3, <1>4, <1>5, <1>6

\* A job of the entry's epoch put into a channel that has none, over an entry that
\* stands where it stood.
LEMMA AppendsStanding ==
    ASSUME Inv, Inv', Custody, UNCHANGED entry, NEW job \in Jobs, Standing(entry, job),
           Sent(entry, job), queue' = Append(queue, job), ~InQueue, ~InSends',
           UNCHANGED reads, \A u \in Threads : Quiet(u),
           InSends \/ \E v \in Threads : NewWork(entry, thread[v])
    PROVE  Custody'
<1>1. /\ \A i \in DOMAIN queue : i \in DOMAIN queue' /\ queue'[i] = queue[i]
      /\ \A i \in DOMAIN queue' : i \notin DOMAIN queue => queue'[i] = job
      /\ \A i, j \in DOMAIN queue' : i \notin DOMAIN queue /\ j \notin DOMAIN queue => i = j
      /\ \E i \in DOMAIN queue' : queue'[i] = job
    BY Appended
<1>2. \A i \in DOMAIN queue' : Standing(entry', queue'[i]) => i \notin DOMAIN queue
    BY <1>1 DEF InQueue
<1>3. InQueue'
    BY <1>1 DEF InQueue
<1>4. ChannelSent'
    <2>1. \A i \in DOMAIN queue' : Standing(entry', queue'[i]) =>
              Sent(entry', queue'[i])
              /\ \A j \in DOMAIN queue' : Standing(entry', queue'[j]) => j = i
        BY <1>1, <1>2
    <2>2. \A other \in sends' : ~Standing(entry', other)
        BY DEF InSends
    <2> QED
        BY <2>1, <2>2 DEF ChannelSent
<1>5. ~Running(entry.claim) /\ entry.pinned_leg = NoLeg /\ ~OutWithLeg(entry.coverage)
    BY WaitingIs DEF Sent
<1>6. entry.claim.epoch' >= entry.claim.epoch
    BY Facts
<1> QED
    BY <1>3, <1>4, <1>5, <1>6, ChannelStep DEF Sent, Custody

\* A job of the past put into the channel.
LEMMA AppendsStale ==
    ASSUME Inv, Inv', Custody, UNCHANGED entry, NEW job \in Jobs, ~Standing(entry, job),
           queue' = Append(queue, job), sends' \subseteq sends,
           \A other \in sends : Standing(entry, other) => other \in sends'
    PROVE  (InQueue' <=> InQueue) /\ (InSends' <=> InSends) /\ ChannelSent'
<1>1. /\ \A i \in DOMAIN queue : i \in DOMAIN queue' /\ queue'[i] = queue[i]
      /\ \A i \in DOMAIN queue' : i \notin DOMAIN queue => queue'[i] = job
    BY Appended
<1>2. \A i \in DOMAIN queue' : Standing(entry', queue'[i]) =>
          i \in DOMAIN queue /\ Standing(entry, queue[i])
    BY <1>1
<1>3. InQueue' <=> InQueue
    BY <1>1, <1>2 DEF InQueue
<1>4. InSends' <=> InSends
    BY DEF InSends
<1>5. ChannelSent'
    BY <1>1, <1>2 DEF ChannelSent, Custody, ChannelStands
<1> QED
    BY <1>3, <1>4, <1>5

LEMMA SendingIs ==
    ASSUME Inv, Custody, NEW t \in Threads, At(t, "sending")
    PROVE  LET r == thread[t] IN
           /\ r.followup \in Jobs /\ r.followup # NoJob /\ r.followup.epoch \in 0..entry.claim.epoch
           /\ ~Registers(entry, r) /\ ~Closes(r) /\ LegsRun(r)
           /\ Engaged(entry, r) <=> Standing(entry, r.followup)
           /\ Standing(entry, r.followup) =>
                  /\ Sent(entry, r.followup) /\ entry.claim.gate = "held"
                  /\ ~InQueue /\ ~InSends /\ NewWork(entry, r)
                  /\ \A u \in Threads \ {t} : ~Engaged(entry, thread[u])
<1> DEFINE r == thread[t]
<1>1. /\ r.pc = "sending" /\ Shape(t, r) /\ Stand(entry, r)
    BY DEF At, Custody, ThreadsStand
<1>2. r.followup \in Jobs /\ r.followup.epoch \in 0..entry.claim.epoch
    BY <1>1, ThreadFacts DEF Sends
<1>3. Standing(entry, r.followup) => Engaged(entry, r) /\ NewWork(entry, r)
    BY DEF Engaged, Carries, NewWork
<1>4. Standing(entry, r.followup) =>
          ~InQueue /\ ~InSends /\ \A u \in Threads \ {t} : ~Engaged(entry, thread[u])
    BY <1>3, EngagedAlone
<1> HIDE DEF r
<1>5. r.followup # NoJob /\ ~Registers(entry, r) /\ ~Closes(r) /\ LegsRun(r)
    BY <1>1 DEF Shape, Stand, Spent, Closes, LegsRun
<1>6. Engaged(entry, r) => Standing(entry, r.followup)
    BY <1>1, <1>5 DEF Engaged, Carries
<1>7. Standing(entry, r.followup) => Sent(entry, r.followup) /\ entry.claim.gate = "held"
    BY <1>1 DEF Stand, CarryStand
<1> QED
    BY <1>2, <1>3, <1>4, <1>5, <1>6, <1>7 DEF r

LEMMA SendFollowupKeeps ==
    ASSUME Inv, Inv', Custody, NEW t \in Threads, SendFollowup(t) PROVE Custody'
<1> DEFINE job == thread[t].followup
<1>1. /\ At(t, "sending") /\ Resumes(t) /\ UNCHANGED <<entry, sends, reads>>
      /\ queue' = Append(queue, job)
    BY DEF SendFollowup, Client
<1>2. Unmoved(t) /\ Quiet(t)
    BY <1>1, SentQuiet
<1>3. /\ job \in Jobs /\ ~Registers(entry, thread[t]) /\ ~Closes(thread[t])
      /\ Engaged(entry, thread[t]) <=> Standing(entry, job)
      /\ Standing(entry, job) =>
             /\ Sent(entry, job) /\ ~InQueue /\ ~InSends /\ NewWork(entry, thread[t])
             /\ \A u \in Threads \ {t} : ~Engaged(entry, thread[u])
    BY <1>1, SendingIs
<1> HIDE DEF job
<1>4. CASE Standing(entry, job)
    <2>1. \A u \in Threads \ {t} : Quiet(u)
        <3>1. entry.claim.epoch' >= entry.claim.epoch
            BY <1>1, Facts
        <3> QED
            BY <1>1, <1>2, <1>3, <1>4, <3>1, QuietUnchanged DEF Unmoved, LegSpares
    <2>2. \A u \in Threads : Quiet(u)
        BY <1>2, <2>1
    <2>3. ~InSends'
        BY <1>1, <1>3, <1>4 DEF InSends
    <2>4. \E v \in Threads : NewWork(entry, thread[v])
        BY <1>3, <1>4
    <2> QED
        BY <1>1, <1>3, <1>4, <2>2, <2>3, <2>4, AppendsStanding
<1>5. CASE ~Standing(entry, job)
    <2>1. (InQueue' <=> InQueue) /\ (InSends' <=> InSends) /\ ChannelSent'
        BY <1>1, <1>3, <1>5, AppendsStale
    <2>2. SameStanding(entry, entry')
        BY <1>1 DEF SameStanding
    <2> QED
        BY <1>1, <1>2, <1>3, <1>5, <2>1, <2>2, QuietMovesOver
<1> QED
    BY <1>4, <1>5

\* A job of the entry's epoch left as its marker.
LEMMA MarksStanding ==
    ASSUME Inv, Inv', Custody, NEW job \in Jobs, Standing(entry, job), Sent(entry, job),
           \A u \in Threads : Quiet(u), ~InQueue', ~InSends', UNCHANGED reads,
           InSends \/ \E v \in Threads : NewWork(entry, thread[v]),
           entry'.claim.epoch = entry.claim.epoch, entry'.claim.gate = "scheduled",
           entry'.claim.marker = job, entry'.claim.leg = NoLeg,
           entry'.coverage = entry.coverage, entry'.reader = entry.reader,
           entry'.detach_in_flight = entry.detach_in_flight,
           entry'.detach_scheduled = entry.detach_scheduled, entry'.leases = entry.leases,
           entry'.pins = entry.pins, entry'.pinned_leg = entry.pinned_leg
    PROVE  Custody'
<1>1. /\ ~Running(entry.claim) /\ entry.pinned_leg = NoLeg /\ ~OutWithLeg(entry.coverage)
      /\ ~entry.detach_in_flight
    BY WaitingIs DEF Sent
<1>2. Fits(entry', job.kind)
    BY DEF Sent, Fits, InHandOf
<1>3. Settled(entry')
    <2>1. Settled(entry)
        BY DEF Custody
    <2> QED
        BY <1>1, <1>2, <2>1 DEF Settled, Standing, Sent
<1>4. PinsCounted(entry', reads')
    BY DEF Custody, PinsCounted
<1>5. ChannelSent'
    BY DEF ChannelSent, InQueue, InSends
<1>6. entry.claim.epoch' >= entry.claim.epoch
    BY Facts
<1> QED
    BY <1>1, <1>3, <1>4, <1>5, <1>6, ChannelStep DEF Running

LEMMA RefuseFollowupKeeps ==
    ASSUME Inv, Inv', Custody, NEW t \in Threads, RefuseFollowup(t) PROVE Custody'
<1> DEFINE job == thread[t].followup
           freed == FreeSlot(entry.claim, job.epoch)
<1>1. /\ At(t, "sending") /\ Resumes(t) /\ UNCHANGED <<queue, sends, reads>>
      /\ entry' = [entry EXCEPT !.claim =
               IF StandsAt(freed, job.epoch) THEN Mark(freed, job) ELSE freed]
    BY DEF RefuseFollowup, Channel, Client
<1>2. /\ job \in Jobs /\ job # NoJob /\ job.epoch \in 0..entry.claim.epoch
      /\ Engaged(entry, thread[t]) <=> Standing(entry, job)
      /\ Standing(entry, job) =>
             /\ Sent(entry, job) /\ ~InQueue /\ ~InSends /\ NewWork(entry, thread[t])
             /\ \A u \in Threads \ {t} : ~Engaged(entry, thread[u])
    BY <1>1, SendingIs
<1>3. entry \in Entries /\ entry.claim \in Claims
    BY Facts, EntryTyped
<1> HIDE DEF job
<1>4. freed.epoch = entry.claim.epoch /\ freed.leg = entry.claim.leg /\ freed \in Claims
    BY <1>3 DEF FreeSlot, AbandonSlot, Claims
<1> HIDE DEF freed
<1>5. entry'.claim.epoch = entry.claim.epoch /\ entry'.claim.leg = entry.claim.leg
    BY <1>1, <1>3, <1>4 DEF Entries, Mark, SetMarker, Claims
<1>6. Unmoved(t) /\ Quiet(t)
    BY <1>1, <1>5, SentQuiet
<1>7. CASE Standing(entry, job)
    <2>1. StandsAt(freed, job.epoch)
        BY <1>4, <1>7 DEF StandsAt, Standing
    <2>2. /\ entry'.claim.gate = "scheduled" /\ entry'.claim.marker = job
          /\ entry'.coverage = entry.coverage /\ entry'.reader = entry.reader
          /\ entry'.detach_in_flight = entry.detach_in_flight
          /\ entry'.detach_scheduled = entry.detach_scheduled /\ entry'.leases = entry.leases
          /\ entry'.pins = entry.pins /\ entry'.pinned_leg = entry.pinned_leg
        BY <1>1, <1>3, <1>4, <2>1 DEF Entries, Mark, SetMarker, Claims
    <2>3. \A u \in Threads \ {t} : Quiet(u)
        <3>1. entry.claim.epoch' >= entry.claim.epoch
            BY <1>5, Facts
        <3> QED
            BY <1>2, <1>5, <1>6, <1>7, <3>1, QuietUnchanged DEF Unmoved, LegSpares
    <2>4. \A u \in Threads : Quiet(u)
        BY <1>6, <2>3
    <2>5. ~InQueue' /\ ~InSends'
        BY <1>1, <1>2, <1>5, <1>7 DEF InQueue, InSends, Standing
    <2>6. entry'.claim.leg = NoLeg
        BY <1>2, <1>5, <1>7 DEF Sent
    <2>7. \E v \in Threads : NewWork(entry, thread[v])
        BY <1>2, <1>7
    <2> QED
        BY <1>1, <1>2, <1>5, <1>7, <2>2, <2>4, <2>5, <2>6, <2>7, MarksStanding
<1>8. CASE ~Standing(entry, job)
    <2>1. job.epoch # entry.claim.epoch
        BY <1>2, <1>8 DEF Standing
    <2>2. entry' = [entry EXCEPT !.claim = FreeSlot(@, job.epoch)]
        BY <1>1, <1>4, <2>1 DEF StandsAt, freed
    <2>3. SameStanding(entry, entry')
        BY <1>3, <2>1, <2>2, FreeSlotStands
    <2> QED
        BY <1>1, <1>2, <1>6, <1>8, <2>3, QuietMoves
<1> QED
    BY <1>7, <1>8

\* Some thread is not waited for, and a step that moves none leaves it so.
LEMMA SomeQuiet ==
    ASSUME Inv, Inv', Custody, UNCHANGED thread, entry.claim.epoch' = entry.claim.epoch,
           entry.claim.leg' = entry.claim.leg
    PROVE  /\ \E t \in Threads : ~Engaged(entry, thread[t]) /\ Unmoved(t) /\ Quiet(t)
           /\ (\A u \in Threads : ~Engaged(entry, thread[u])) => \A u \in Threads : Quiet(u)
<1>1. Dispatcher \in Threads /\ Registrar \in Threads /\ Dispatcher # Registrar
    BY ThreadsAssumption DEF Threads
<1>2. PICK t \in Threads : ~Engaged(entry, thread[t])
    BY <1>1 DEF Custody, OneEngaged
<1>3. entry.claim.epoch' >= entry.claim.epoch
    BY Facts
<1>4. ASSUME NEW u \in Threads, ~Engaged(entry, thread[u]) PROVE Quiet(u)
    BY <1>3, <1>4, QuietUnchanged DEF LegSpares
<1> QED
    BY <1>2, <1>4 DEF Unmoved

LEMMA SendMarkedKeeps ==
    ASSUME Inv, Inv', Custody, NEW job \in sends, SendMarked(job) PROVE Custody'
<1>1. /\ sends' = sends \ {job} /\ queue' = Append(queue, job)
      /\ UNCHANGED <<entry, thread, reads>> /\ job \in Jobs
    BY DEF SendMarked, Client, Inv, ChannelInv
<1>2. CASE Standing(entry, job)
    <2>1. /\ Sent(entry, job) /\ InSends /\ ~InQueue
          /\ \A other \in sends : Standing(entry, other) => other = job
          /\ \A u \in Threads : ~Engaged(entry, thread[u])
        BY <1>2 DEF Custody, ChannelStands, ChannelSent, InSends
    <2>2. ~InSends'
        BY <1>1, <2>1 DEF InSends
    <2>3. \A u \in Threads : Quiet(u)
        BY <1>1, <2>1, SomeQuiet
    <2> QED
        BY <1>1, <1>2, <2>1, <2>2, <2>3, AppendsStanding
<1>3. CASE ~Standing(entry, job)
    <2>1. (InQueue' <=> InQueue) /\ (InSends' <=> InSends) /\ ChannelSent'
        BY <1>1, <1>3, AppendsStale
    <2>2. SameStanding(entry, entry')
        BY <1>1 DEF SameStanding
    <2>3. PICK t \in Threads : ~Engaged(entry, thread[t]) /\ Unmoved(t) /\ Quiet(t)
        BY <1>1, SomeQuiet
    <2> QED
        BY <1>1, <2>1, <2>2, <2>3, QuietMovesOver
<1> QED
    BY <1>2, <1>3

LEMMA RefuseMarkedKeeps ==
    ASSUME Inv, Inv', Custody, NEW job \in sends, RefuseMarked(job) PROVE Custody'
<1>1. /\ sends' = sends \ {job} /\ UNCHANGED <<queue, thread, reads>> /\ job \in Jobs
      /\ entry' = [entry EXCEPT !.claim = FreeSlot(@, job.epoch)]
    BY DEF RefuseMarked, Client, Inv, ChannelInv
<1>2. entry \in Entries /\ entry.claim \in Claims
    BY Facts, EntryTyped
<1>3. /\ entry'.claim.epoch = entry.claim.epoch /\ entry'.claim.leg = entry.claim.leg
      /\ entry'.claim.gate = entry.claim.gate /\ entry'.claim.marker = entry.claim.marker
      /\ entry'.coverage = entry.coverage /\ entry'.reader = entry.reader
      /\ entry'.detach_in_flight = entry.detach_in_flight
      /\ entry'.detach_scheduled = entry.detach_scheduled /\ entry'.leases = entry.leases
      /\ entry'.pins = entry.pins /\ entry'.pinned_leg = entry.pinned_leg
    <2>1. LET c == FreeSlot(entry.claim, job.epoch) IN
          /\ c.epoch = entry.claim.epoch /\ c.leg = entry.claim.leg
          /\ c.gate = entry.claim.gate /\ c.marker = entry.claim.marker
        BY <1>2 DEF FreeSlot, AbandonSlot, Claims
    <2> QED
        BY <1>1, <1>2, <2>1 DEF Entries
<1>4. CASE Standing(entry, job)
    <2>1. /\ Sent(entry, job) /\ InSends /\ ~InQueue /\ entry.claim.gate = "scheduled"
          /\ \A other \in sends : Standing(entry, other) => other = job
          /\ \A u \in Threads : ~Engaged(entry, thread[u])
        BY <1>4 DEF Custody, ChannelStands, ChannelSent, InSends
    <2>2. ~InSends' /\ ~InQueue'
        BY <1>1, <1>3, <2>1 DEF InSends, InQueue, Standing
    <2>3. \A u \in Threads : Quiet(u)
        BY <1>1, <1>3, <2>1, SomeQuiet
    <2>4. entry.claim.marker = job /\ entry.claim.leg = NoLeg
        BY <2>1 DEF Sent
    <2> QED
        BY <1>1, <1>3, <1>4, <2>1, <2>2, <2>3, <2>4, MarksStanding
<1>5. CASE ~Standing(entry, job)
    <2>1. job.epoch # entry.claim.epoch
        BY <1>1, <1>5 DEF Standing, Jobs, NoJob, JobKinds
    <2>2. SameStanding(entry, entry')
        BY <1>1, <1>2, <2>1, FreeSlotStands
    <2>3. \A other : (Standing(entry', other) <=> Standing(entry, other))
                     /\ (Sent(entry, other) => Sent(entry', other))
        BY <2>2, StandingAlike
    <2>4. (InQueue' <=> InQueue) /\ (InSends' <=> InSends)
        BY <1>1, <1>5, <2>3 DEF InQueue, InSends
    <2>5. ChannelSent'
        BY <1>1, <1>3, <2>3 DEF Custody, ChannelStands, ChannelSent
    <2>6. PICK t \in Threads : ~Engaged(entry, thread[t]) /\ Unmoved(t) /\ Quiet(t)
        BY <1>1, <1>3, SomeQuiet
    <2> QED
        BY <1>1, <2>2, <2>4, <2>5, <2>6, QuietMovesOver
<1> QED
    BY <1>4, <1>5

\* A job taken off the channel.
LEMMA TakenOff ==
    ASSUME Inv, Inv', queue # <<>>, queue' = Tail(queue)
    PROVE  /\ Head(queue) = queue[1] /\ 1 \in DOMAIN queue /\ Head(queue) \in Jobs
           /\ \A i \in DOMAIN queue' :
                  i + 1 \in DOMAIN queue /\ i + 1 # 1 /\ queue'[i] = queue[i + 1]
           /\ \A i \in DOMAIN queue : i # 1 =>
                  i - 1 \in DOMAIN queue' /\ queue'[i - 1] = queue[i]
           /\ \A i, j \in DOMAIN queue' : i + 1 = j + 1 => i = j
<1>1. queue \in Seq(Jobs)
    BY DEF Inv, ChannelInv
<1>2. queue' \in Seq(Jobs) /\ Len(queue') = Len(queue) - 1
      /\ \A i \in 1..Len(queue') : queue'[i] = queue[i + 1]
    BY <1>1, HeadTailProperties
<1>3. Len(queue) \in Nat /\ DOMAIN queue = 1..Len(queue) /\ DOMAIN queue' = 1..Len(queue')
    BY <1>1, <1>2, LenProperties
<1>4. Len(queue) # 0
    BY <1>1, EmptySeq
<1>5. Head(queue) = queue[1] /\ 1 \in DOMAIN queue /\ Head(queue) \in Jobs
    BY <1>1, <1>3, <1>4
<1>6. \A i \in DOMAIN queue' : i + 1 \in DOMAIN queue /\ i + 1 # 1
    BY <1>2, <1>3
<1>7. \A i \in DOMAIN queue : i # 1 => i - 1 \in DOMAIN queue' /\ queue'[i - 1] = queue[i]
    <2> SUFFICES ASSUME NEW i \in DOMAIN queue, i # 1
                 PROVE  i - 1 \in DOMAIN queue' /\ queue'[i - 1] = queue[i]
        OBVIOUS
    <2>1. i - 1 \in 1..Len(queue') /\ (i - 1) + 1 = i
        BY <1>2, <1>3
    <2> QED
        BY <1>2, <1>3, <2>1
<1>8. \A i, j \in DOMAIN queue' : i + 1 = j + 1 => i = j
    BY <1>3, <1>2
<1> QED
    BY <1>2, <1>3, <1>5, <1>6, <1>7, <1>8

LEMMA ReceiveKeeps ==
    ASSUME Inv, Inv', Custody, NEW w \in Workers, Receive(w) PROVE Custody'
<1> DEFINE job == Head(queue)
           q == [Idle EXCEPT !.pc = "received", !.job = job]
<1>1. /\ thread[w].pc = "idle" /\ queue # <<>> /\ queue' = Tail(queue)
      /\ thread' = [thread EXCEPT ![w] = q] /\ UNCHANGED <<entry, sends, reads>>
    BY DEF Receive, At, Client
<1>2. /\ w \in Threads /\ thread \in [Threads -> ThreadStates] /\ Shape(w, thread[w])
      /\ w # Dispatcher /\ w # Registrar
    BY Facts, ThreadsAssumption DEF Inv, ThreadInv, Custody, ThreadsStand
<1>3. thread[w] = Idle /\ ~Engaged(entry, thread[w])
    BY <1>1, <1>2, IdleIs DEF Shape
<1>4. /\ job = queue[1] /\ 1 \in DOMAIN queue /\ job \in Jobs
      /\ \A i \in DOMAIN queue' :
             i + 1 \in DOMAIN queue /\ i + 1 # 1 /\ queue'[i] = queue[i + 1]
      /\ \A i \in DOMAIN queue : i # 1 =>
             i - 1 \in DOMAIN queue' /\ queue'[i - 1] = queue[i]
      /\ \A i, j \in DOMAIN queue' : i + 1 = j + 1 => i = j
    BY <1>1, TakenOff
<1>5. /\ q.pc = "received" /\ q.job = job /\ ~q.held /\ q.next = NoJob /\ q.followup = NoJob
      /\ q.after = "idle" /\ q.rel = 0
    BY DEF Idle
<1>6. Unmoved(w) /\ thread'[w] = q
    BY <1>1, <1>2 DEF Unmoved
<1>7. entry.claim.epoch \in Nat /\ entry.claim.epoch' >= entry.claim.epoch /\ reads \in Nat
    BY <1>1, Facts DEF Inv, RestInv
<1> HIDE DEF q, job
<1>8. Shape(w, q)
    BY <1>2, <1>4, <1>5 DEF Shape, Jobs, JobKinds
<1>9. /\ ~Holds(q) /\ ~Live(entry, q) /\ ~Standing(entry, q.next) /\ ~Registers(entry, q)
      /\ ~Closes(q) /\ ~LegsRun(q) /\ ~Standing(entry, q.followup)
      /\ Carries(entry, q) <=> job.epoch = entry.claim.epoch
    BY <1>5 DEF Holds, Live, Standing, Registers, LegsRun, Closes, Carries
<1>10. CASE job.epoch = entry.claim.epoch
    <2>1. job # NoJob
        BY <1>4 DEF Jobs, JobKinds, NoJob
    <2>2. Standing(entry, job)
        BY <2>1, <1>10 DEF Standing
    <2>3. /\ InQueue /\ ~InSends /\ Sent(entry, job)
          /\ \A j \in DOMAIN queue : Standing(entry, queue[j]) => j = 1
          /\ \A u \in Threads : ~Engaged(entry, thread[u])
        BY <1>4, <2>2 DEF Custody, ChannelStands, ChannelSent, InQueue
    <2>4. ~InQueue' /\ ~InSends'
        BY <1>1, <1>4, <2>3 DEF InQueue, InSends
    <2>5. ASSUME NEW u \in Threads \ {w} PROVE Quiet(u)
        BY <1>1, <1>6, <1>7, <2>3, QuietUnchanged DEF LegSpares, Unmoved
    <2>6. /\ ~Running(entry.claim) /\ entry.pinned_leg = NoLeg /\ ~OutWithLeg(entry.coverage)
          /\ ~entry.detach_in_flight
        BY <2>3, WaitingIs DEF Sent
    <2>7. Stand(entry, q)
        BY <1>5, <1>9, <2>3 DEF Stand, HoldsStand, LiveStand, NextStand, CarryStand, CloseStand, Spent
    <2>8. Sole(w, entry, q, reads)
        BY <1>8, <1>9, <1>10, <2>6, <2>7 DEF Sole, Answers, HeldFor, Custody
    <2>9. Sole(w, entry', thread'[w], reads')
        BY <1>1, <1>6, <2>8
    <2>10. ~LegsRun(thread'[w])
        BY <1>6, <1>9
    <2> QED
        BY <1>2, <1>7, <2>3, <2>4, <2>5, <2>9, <2>10, SoleLeft
<1>11. CASE job.epoch # entry.claim.epoch
    <2>1. ~Standing(entry, job) /\ ~Engaged(entry, q)
        BY <1>9, <1>11 DEF Standing, Engaged
    <2>2. Stand(entry, q)
        BY <1>5, <1>9, <1>11 DEF Stand, HoldsStand, LiveStand, NextStand, CarryStand, CloseStand, Spent
    <2>3. Quiet(w)
        BY <1>1, <1>6, <1>8, <1>9, <2>1, <2>2 DEF Quiet
    <2>4. InQueue' <=> InQueue
        BY <1>1, <1>4, <2>1 DEF InQueue
    <2>5. InSends' <=> InSends
        BY <1>1 DEF InSends
    <2>6. ChannelSent'
        <3>1. \A i \in DOMAIN queue' : Standing(entry', queue'[i]) =>
                  Sent(entry', queue'[i])
                  /\ \A j \in DOMAIN queue' : Standing(entry', queue'[j]) => j = i
            <4> SUFFICES ASSUME NEW i \in DOMAIN queue', Standing(entry, queue'[i])
                         PROVE  /\ Sent(entry, queue'[i])
                                /\ \A j \in DOMAIN queue' : Standing(entry, queue'[j]) => j = i
                BY <1>1
            <4>1. i + 1 \in DOMAIN queue /\ Standing(entry, queue[i + 1])
                BY <1>4
            <4>2. /\ Sent(entry, queue[i + 1])
                  /\ \A j \in DOMAIN queue : Standing(entry, queue[j]) => j = i + 1
                BY <4>1 DEF Custody, ChannelStands, ChannelSent
            <4> QED
                BY <1>4, <4>2
        <3> QED
            BY <1>1, <3>1 DEF Custody, ChannelStands, ChannelSent
    <2>7. SameStanding(entry, entry')
        BY <1>1 DEF SameStanding
    <2> QED
        BY <1>1, <1>2, <1>3, <1>6, <2>3, <2>4, <2>5, <2>6, <2>7, QuietMovesOver
<1> QED
    BY <1>10, <1>11

LEMMA TakeMarkedKeeps ==
    ASSUME Inv, Inv', Custody, TakeMarked PROVE Custody'
<1> DEFINE job == entry.claim.marker
<1>1. /\ entry.claim.gate = "scheduled" /\ entry.claim.slot = 0 /\ entry.claim.leg = NoLeg
      /\ sends' = sends \cup {job} /\ UNCHANGED <<queue, thread, reads>>
      /\ entry' = [entry EXCEPT !.claim = TakeSlotForMarked(@)]
    BY DEF TakeMarked, MarkedIsFree, SlotTaken, Running, Client
<1>2. /\ entry \in Entries /\ entry.claim \in Claims /\ job \in Jobs /\ Standing(entry, job)
      /\ entry.claim.epoch # 0 /\ entry.claim.epoch \in Nat
      /\ ~entry.detach_in_flight /\ Fits(entry, job.kind)
    BY <1>1, Facts, EntryTyped DEF Custody, Settled
<1>3. /\ entry'.claim.epoch = entry.claim.epoch /\ entry'.claim.leg = entry.claim.leg
      /\ entry'.claim.gate = entry.claim.gate /\ entry'.claim.marker = entry.claim.marker
      /\ entry'.claim.slot = entry.claim.epoch
      /\ entry'.coverage = entry.coverage /\ entry'.reader = entry.reader
      /\ entry'.detach_in_flight = entry.detach_in_flight
      /\ entry'.detach_scheduled = entry.detach_scheduled /\ entry'.leases = entry.leases
      /\ entry'.pins = entry.pins /\ entry'.pinned_leg = entry.pinned_leg
    <2>1. LET c == TakeSlotForMarked(entry.claim) IN
          /\ c.epoch = entry.claim.epoch /\ c.leg = entry.claim.leg
          /\ c.gate = entry.claim.gate /\ c.marker = entry.claim.marker
          /\ c.slot = job.epoch
        BY <1>2 DEF TakeSlotForMarked, TakeSlot, Claims
    <2>2. job.epoch = entry.claim.epoch
        BY <1>2 DEF Standing
    <2> QED
        BY <1>1, <1>2, <2>1, <2>2 DEF Entries
<1> HIDE DEF job
\* With no slot taken, no job of the epoch is on its way.
<1>4. \A other : ~Sent(entry, other)
    BY <1>1, <1>2 DEF Sent
<1>5. ~InQueue /\ ~InSends
    BY <1>4 DEF Custody, ChannelStands, ChannelSent, InQueue, InSends
<1>6. /\ ~Running(entry.claim) /\ entry.pinned_leg = NoLeg /\ ~OutWithLeg(entry.coverage)
      /\ \A u \in Threads : ~Registers(entry, thread[u]) /\ ~Closes(thread[u])
    BY <1>1, <1>2, WaitingIs
<1>7. \A u \in Threads : ~Engaged(entry, thread[u])
    <2> SUFFICES ASSUME NEW u \in Threads PROVE ~Carries(entry, thread[u])
        BY <1>6 DEF Engaged
    <2>1. CarryStand(entry, thread[u])
        BY DEF Custody, ThreadsStand, Stand
    <2> QED
        BY <1>4, <2>1 DEF CarryStand, Carries
<1>8. \A u \in Threads : Quiet(u)
    BY <1>1, <1>3, <1>7, SomeQuiet
<1>9. Sent(entry', job)
    BY <1>1, <1>2, <1>3 DEF Sent, Fits, InHandOf, job
<1>10. \A other : Standing(entry', other) <=> Standing(entry, other)
    BY <1>3 DEF Standing
<1>11. ~InQueue' /\ \A other \in sends' : Standing(entry', other) => other = job
    BY <1>1, <1>5, <1>10 DEF InQueue, InSends
<1>12. ChannelSent'
    BY <1>1, <1>3, <1>9, <1>11 DEF ChannelSent, InQueue
<1>13. Settled(entry') /\ PinsCounted(entry', reads')
    <2>1. /\ SameStanding(entry, [entry' EXCEPT !.claim = entry.claim])
          /\ Settled(entry) /\ PinsCounted(entry, reads)
        BY <1>2, <1>3 DEF Custody, SameStanding
    <2> QED
        BY <1>1, <1>2, <1>3, <2>1 DEF Settled, PinsCounted, Standing, Fits, InHandOf
<1>14. \E v \in Threads : NewWork(entry, thread[v])
    BY <1>1, Facts DEF NewWork
<1>15. entry.claim.epoch' >= entry.claim.epoch
    BY <1>2, <1>3
<1> QED
    BY <1>1, <1>2, <1>3, <1>6, <1>8, <1>11, <1>12, <1>13, <1>14, <1>15, ChannelStep DEF Running

LEMMA WithdrawAfterReclaimKeeps ==
    ASSUME Inv, Inv', Custody, NEW t \in Threads, WithdrawAfterReclaim(t) PROVE Custody'
<1>1. /\ thread[t].pc = "reclaimed" /\ Rests(t) /\ UNCHANGED <<queue, sends, reads>>
      /\ entry' = (IF entry.trust = "Unattached" /\ ~StandsParked(entry)
                   THEN SetTrust(entry, "Untrusted") ELSE entry)
    BY DEF WithdrawAfterReclaim, At, Channel, Client
<1>2. Shape(t, thread[t]) /\ Spent(entry, thread[t])
    BY DEF Custody, ThreadsStand, Stand
<1>3. ~Engaged(entry, thread[t])
    BY <1>1, <1>2 DEF Engaged, Spent, Closes, Carries, Standing, Shape
<1>4. SameCustody(entry, entry')
    BY <1>1, Facts, PublishesAlike, DataAlike
<1>5. Unmoved(t) /\ thread'[t] = Idle
    BY <1>1, RestsTo
<1> QED
    BY <1>1, <1>3, <1>4, <1>5, SameCustodyStands, QuietIdles

\* A claim is not lost before its leg begins, while the bounds hold: the job is
\* sent over coverage in hand, and nothing takes it out of hand.
LEMMA LosesClaimKeeps ==
    ASSUME Inv, Inv', Custody, NEW w \in Workers, LosesClaim(w) PROVE Custody'
<1>1. /\ thread[w].pc = "begun" /\ thread[w].job.kind # "Attach" /\ w \in Threads
      /\ thread[w].job.epoch = entry.claim.epoch /\ ~InHandOf(entry)
    BY Facts DEF LosesClaim, At, KindOf, CoverageJobs, Stands, StandsAtEpoch, StandsAt, EpochOf
<1>2. LiveStand(entry, thread[w])
    BY <1>1 DEF Custody, ThreadsStand, Stand
<1> QED
    BY <1>1, <1>2 DEF LiveStand, Live, Fits

----------------------------------------------------------------------------
(* Refusals of the root                                                    *)

\* p is s an epoch on: what was issued before is of the past, the leg and the
\* coverage are where they were, and what was out is still answered for.
Superseded(s, p) ==
    /\ p.claim.epoch = s.claim.epoch + 1 /\ p.claim.leg = s.claim.leg
    /\ p.coverage = s.coverage /\ p.pins = s.pins /\ p.pinned_leg = s.pinned_leg
    /\ p.claim.gate # "scheduled"
    /\ p.claim.gate = "held" => Running(s.claim) /\ ~InHandOf(s)
    /\ p.detach_in_flight => p.claim.gate = "open" /\ ~p.reader /\ ~InHandOf(p)
    /\ p.detach_in_flight => s.detach_in_flight \/ Running(s.claim)
    /\ s.detach_in_flight => p.detach_in_flight
    /\ p.reader => s.reader /\ ~OutWithLeg(p.coverage)
    /\ OutWithLeg(s.coverage) => p.claim.gate = "held" \/ p.detach_in_flight

\* A leg that ran under a shut gate, or in a release, goes on running so.
StaysShut(s, p) ==
    Running(s.claim) /\ (s.claim.gate = "held" \/ s.detach_in_flight) =>
        p.claim.gate = "held" \/ p.detach_in_flight \/ InHandOf(s)

\* p is s an epoch on, its coverage taken out of hand to be given back.
TakenBack(s, p) ==
    /\ p.claim.epoch = s.claim.epoch + 1 /\ p.claim.leg = NoLeg /\ p.claim.gate = "open"
    /\ p.coverage = OnLeg(s.claim.epoch + 1) /\ p.detach_in_flight /\ ~p.reader
    /\ p.pins = s.pins /\ p.pinned_leg = s.pinned_leg

LEMMA RefusedFields ==
    ASSUME NEW s \in Entries
    PROVE  LET conflict == [ClearRungs(ClearPending(InvalidateClaim(s))) EXCEPT
                                !.identity = FALSE, !.duplicate = TRUE]
               back == CloseReader(ClearRebuild(InvalidateClaim(s)))
           IN  /\ conflict \in Entries /\ conflict.claim = Invalidate(s.claim)
               /\ conflict.coverage = s.coverage /\ conflict.reader = s.reader
               /\ conflict.detach_in_flight = s.detach_in_flight
               /\ conflict.pins = s.pins /\ conflict.pinned_leg = s.pinned_leg
               /\ back \in Entries /\ back.claim = Invalidate(s.claim)
               /\ back.coverage = s.coverage /\ back.reader = FALSE
               /\ back.detach_in_flight = s.detach_in_flight
               /\ back.pins = s.pins /\ back.pinned_leg = s.pinned_leg
<1> DEFINE u == InvalidateClaim(s)
<1>1. Invalidate(s.claim) \in Claims
    BY EntryTyped, InvalidateFields
<1>2. /\ u \in Entries /\ u.claim = Invalidate(s.claim) /\ u.coverage = s.coverage
      /\ u.reader = s.reader /\ u.detach_in_flight = s.detach_in_flight
      /\ u.pins = s.pins /\ u.pinned_leg = s.pinned_leg
    BY <1>1 DEF InvalidateClaim, Entries
<1> HIDE DEF u
<1> DEFINE cleared == ClearPending(u)
           healed == ClearRungs(cleared)
           conflict == [healed EXCEPT !.identity = FALSE, !.duplicate = TRUE]
           back == CloseReader(ClearRebuild(u))
<1>3. /\ conflict \in Entries /\ conflict.claim = u.claim
      /\ conflict.coverage = u.coverage /\ conflict.reader = u.reader
      /\ conflict.detach_in_flight = u.detach_in_flight
      /\ conflict.pins = u.pins /\ conflict.pinned_leg = u.pinned_leg
    <2>1. cleared \in Entries /\ SameCustody(u, cleared)
        BY <1>2 DEF ClearPending, Entries, Batches, SameCustody
    <2> HIDE DEF cleared
    <2>2. healed \in Entries /\ SameCustody(cleared, healed)
        BY <2>1 DEF ClearRungs, ClearRebuild, ClearRecovery, RetireRecoveryDemands, Entries,
                    SameCustody
    <2> HIDE DEF healed
    <2>3. conflict \in Entries /\ SameCustody(healed, conflict)
        BY <2>2 DEF Entries, SameCustody
    <2> HIDE DEF conflict
    <2> QED
        BY <2>1, <2>2, <2>3 DEF SameCustody
<1>4. /\ back \in Entries /\ back.claim = u.claim
      /\ back.coverage = u.coverage /\ back.reader = FALSE
      /\ back.detach_in_flight = u.detach_in_flight
      /\ back.pins = u.pins /\ back.pinned_leg = u.pinned_leg
    BY <1>2 DEF ClearRebuild, CloseReader, Entries
<1> QED
    BY <1>2, <1>3, <1>4 DEF u

\* A conflict, and a give-back, take the entry one epoch on; what is in hand is
\* taken out of hand by the thread that meets it.
LEMMA RefusalsSupersede ==
    ASSUME NEW s \in Entries, Settled(s), OutWithLeg(s.coverage) => Running(s.claim) \/ s.detach_in_flight,
           NEW p, p = RefuseConflict(s) \/ p = GiveBackCoverage(s)
    PROVE  /\ ~InHandOf(s) => Superseded(s, p) /\ StaysShut(s, p)
           /\ InHandOf(s) => TakenBack(s, p)
<1> DEFINE c == Invalidate(s.claim)
           conflict == [ClearRungs(ClearPending(InvalidateClaim(s))) EXCEPT
                            !.identity = FALSE, !.duplicate = TRUE]
           opened == OpenClaim(conflict)
           back == CloseReader(ClearRebuild(InvalidateClaim(s)))
<1>1. /\ c.epoch = s.claim.epoch + 1 /\ c.leg = s.claim.leg /\ c \in Claims
      /\ c.gate # "scheduled" /\ (c.gate = "held" <=>
             s.claim.gate = "held" \/ (s.claim.gate = "scheduled" /\ Running(s.claim)))
    BY EntryTyped, InvalidateFields
<1>2. /\ conflict \in Entries /\ conflict.claim = c
      /\ conflict.coverage = s.coverage /\ conflict.reader = s.reader
      /\ conflict.detach_in_flight = s.detach_in_flight
      /\ conflict.pins = s.pins /\ conflict.pinned_leg = s.pinned_leg
      /\ back \in Entries /\ back.claim = c
      /\ back.coverage = s.coverage /\ back.reader = FALSE
      /\ back.detach_in_flight = s.detach_in_flight
      /\ back.pins = s.pins /\ back.pinned_leg = s.pinned_leg
    BY RefusedFields
<1>3. /\ s.detach_in_flight => s.claim.gate = "open" /\ ~InHandOf(s) /\ ~s.reader
      /\ OutWithLeg(s.coverage) => s.claim.gate = "held" \/ s.detach_in_flight
      /\ s.coverage \in Coverages /\ c.gate \in {"open", "held"} /\ s.claim.gate \in {"open", "held", "scheduled"}
      /\ ~(InHandOf(s) /\ OutWithLeg(s.coverage))
      /\ s.coverage \in {NoCoverage, Parked} \/ OutWithLeg(s.coverage)
      /\ s.reader => AccountedFor(s.coverage)
    BY <1>1, EntryTyped DEF Settled, Claims, InHandOf, InHand, OutWithLeg
<1>4. /\ ClaimIs(OpenGate(c), c.epoch, "open", NoJob, c.leg, c.slot)
    BY <1>1, GateFields
<1>5. OpenGate(c) \in Claims
    BY <1>1 DEF OpenGate, SetGate, Claims
<1> HIDE DEF c
<1>6. CASE p = RefuseConflict(s)
    <2>1. /\ opened \in Entries /\ opened.claim = OpenGate(c)
          /\ opened.coverage = s.coverage /\ opened.reader = s.reader
          /\ opened.detach_in_flight = s.detach_in_flight
          /\ opened.pins = s.pins /\ opened.pinned_leg = s.pinned_leg
        <3> HIDE DEF conflict
        <3> QED
            BY <1>2, <1>5 DEF OpenClaim, Entries
    <2>2. CASE s.detach_in_flight
        <3>1. p = conflict
            BY <1>6, <2>2 DEF RefuseConflict
        <3> QED
            BY <1>1, <1>2, <1>3, <2>2, <3>1 DEF Superseded, StaysShut, InHandOf
    <2>3. CASE ~s.detach_in_flight /\ InHandOf(s)
        <3> DEFINE taken == [opened EXCEPT
                       !.coverage = TakeCoverage(@, opened.claim.epoch),
                       !.claim = EndRunningLeg(@)]
        <3>1. p = BeginRelease(taken)
            BY <1>6, <2>3 DEF RefuseConflict
        <3> HIDE DEF opened, conflict
        <3>2. /\ taken.claim = EndRunningLeg(OpenGate(c)) /\ taken.coverage = OnLeg(s.claim.epoch + 1)
              /\ taken.pins = s.pins /\ taken.pinned_leg = s.pinned_leg
            BY <1>1, <1>4, <2>1, <2>3 DEF Entries, TakeCoverage, InHandOf, ClaimIs
        <3>3. EndRunningLeg(OpenGate(c)).epoch = s.claim.epoch + 1 /\ EndRunningLeg(OpenGate(c)).leg = NoLeg
              /\ EndRunningLeg(OpenGate(c)) \in Claims
            BY <1>1, <1>4, <1>5 DEF EndRunningLeg, Claims, ClaimIs
        <3>4. OnLeg(s.claim.epoch + 1) \in Coverages
            BY EntryTyped DEF OnLeg, Coverages, Claims
        <3>5. taken \in Entries
            BY <2>1, <3>2, <3>3, <3>4, <2>3, <1>4 DEF Entries
        <3> HIDE DEF taken
        <3> QED
            BY <2>3, <3>1, <3>2, <3>3, <3>5, BeginReleaseFields DEF TakenBack, ClaimIs
    <2>4. CASE ~s.detach_in_flight /\ ~InHandOf(s) /\ (OutWithLeg(s.coverage) \/ Running(s.claim))
        <3>1. p = BeginRelease(opened)
            BY <1>6, <2>4 DEF RefuseConflict
        <3> HIDE DEF opened, conflict
        <3>2. /\ ClaimIs(p.claim, s.claim.epoch + 1, "open", NoJob, s.claim.leg, c.slot)
              /\ p.detach_in_flight /\ ~p.reader /\ p.coverage = s.coverage
              /\ p.pins = s.pins /\ p.pinned_leg = s.pinned_leg
            BY <1>1, <1>4, <2>1, <3>1, BeginReleaseFields DEF ClaimIs
        <3> QED
            BY <1>3, <2>4, <3>2 DEF Superseded, StaysShut, InHandOf, ClaimIs
    <2>5. CASE ~s.detach_in_flight /\ ~InHandOf(s) /\ ~OutWithLeg(s.coverage) /\ ~Running(s.claim)
        <3>1. p = SetTrust(opened, "Unattached")
            BY <1>6, <2>5 DEF RefuseConflict
        <3> HIDE DEF opened, conflict
        <3>2. /\ p.claim = OpenGate(c) /\ p.coverage = s.coverage /\ p.reader = s.reader
              /\ p.detach_in_flight = s.detach_in_flight
              /\ p.pins = s.pins /\ p.pinned_leg = s.pinned_leg
            BY <2>1, <3>1 DEF SetTrust, Entries
        <3> QED
            BY <1>1, <1>3, <1>4, <2>5, <3>2 DEF Superseded, StaysShut, InHandOf, ClaimIs
    <2> QED
        BY <2>2, <2>3, <2>4, <2>5
<1>7. CASE p = GiveBackCoverage(s)
    <2>1. CASE InHandOf(s)
        <3>1. p = [OpenClaim(back) EXCEPT
                       !.coverage = TakeCoverage(@, back.claim.epoch),
                       !.claim = EndRunningLeg(@),
                       !.detach_in_flight = TRUE]
            BY <1>7, <2>1 DEF GiveBackCoverage
        <3> HIDE DEF back
        <3>2. /\ p.claim = EndRunningLeg(OpenGate(c)) /\ p.coverage = TakeCoverage(s.coverage, c.epoch)
              /\ p.detach_in_flight = TRUE /\ p.reader = FALSE
              /\ p.pins = s.pins /\ p.pinned_leg = s.pinned_leg
            BY <1>2, <3>1 DEF OpenClaim, Entries
        <3>3. /\ EndRunningLeg(OpenGate(c)).epoch = s.claim.epoch + 1 /\ EndRunningLeg(OpenGate(c)).leg = NoLeg
              /\ EndRunningLeg(OpenGate(c)).gate = "open"
            BY <1>1, <1>4, <1>5 DEF EndRunningLeg, Claims, ClaimIs
        <3>4. p.coverage = OnLeg(s.claim.epoch + 1)
            BY <1>1, <2>1, <3>2 DEF TakeCoverage, InHandOf
        <3> QED
            BY <2>1, <3>2, <3>3, <3>4 DEF TakenBack
    <2>2. CASE ~InHandOf(s) /\ ~Running(s.claim) /\ ~s.detach_in_flight
        <3>1. p = OpenClaim(back)
            BY <1>7, <2>2 DEF GiveBackCoverage
        <3> HIDE DEF back
        <3>2. /\ p.claim = OpenGate(c) /\ p.coverage = s.coverage /\ p.reader = FALSE
              /\ p.detach_in_flight = s.detach_in_flight
              /\ p.pins = s.pins /\ p.pinned_leg = s.pinned_leg
            BY <1>2, <3>1 DEF OpenClaim, Entries
        <3> QED
            BY <1>1, <1>3, <1>4, <2>2, <3>2 DEF Superseded, StaysShut, InHandOf, ClaimIs
    <2>3. CASE ~InHandOf(s) /\ (Running(s.claim) \/ s.detach_in_flight)
        <3>1. p = back
            BY <1>7, <2>3 DEF GiveBackCoverage
        <3> HIDE DEF back
        <3> QED
            BY <1>1, <1>2, <1>3, <2>3, <3>1 DEF Superseded, StaysShut, InHandOf
    <2> QED
        BY <2>1, <2>2, <2>3
<1> QED
    BY <1>6, <1>7

LEMMA SupersededAlike ==
    ASSUME NEW s, NEW i, NEW p, SameCustody(s, i)
    PROVE  /\ Superseded(i, p) => Superseded(s, p)
           /\ StaysShut(i, p) => StaysShut(s, p)
           /\ TakenBack(i, p) => TakenBack(s, p)
           /\ InHandOf(i) <=> InHandOf(s)
BY DEF SameCustody, Superseded, StaysShut, TakenBack, InHandOf

LEMMA SupersededSettles ==
    ASSUME NEW s, NEW p, Settled(s), Superseded(s, p) PROVE Settled(p)
BY DEF Settled, Superseded, AccountedFor, OutWithLeg

\* A thread that stood to s stands to p: what it knew is of the past.
LEMMA SupersededStand ==
    ASSUME NEW s, NEW p, NEW r, Superseded(s, p), Reached(s, r), Stand(s, r),
           Holds(r) => p.claim.gate = "held" \/ p.detach_in_flight
    PROVE  /\ Stand(p, r) /\ ~NewWork(p, r) /\ ~Carries(p, r)
           /\ (Registers(p, r) <=> Registers(s, r)) /\ (Engaged(p, r) => Engaged(s, r))
<1>1. /\ Registers(p, r) <=> Registers(s, r)
      /\ ~Live(p, r) /\ ~Standing(p, r.next) /\ ~Carries(p, r)
      /\ r.job.epoch # p.claim.epoch
    BY DEF Superseded, Reached, Registers, Live, Standing, Carries
<1>2. HoldsStand(p, r)
    BY <1>1 DEF Superseded, Stand, HoldsStand
<1>3. LiveStand(p, r) /\ NextStand(p, r) /\ CarryStand(p, r)
    BY <1>1 DEF LiveStand, NextStand, CarryStand, Carries
<1>4. CloseStand(p, r)
    BY <1>1 DEF Superseded, Stand, CloseStand
<1>5. Spent(p, r)
    BY <1>1 DEF Superseded, Stand, Spent, InHandOf
<1> QED
    BY <1>1, <1>2, <1>3, <1>4, <1>5 DEF Stand, NewWork, Superseded, Engaged

LEMMA SupersededSole ==
    ASSUME NEW t, NEW s, NEW p, NEW r, NEW n, Superseded(s, p), Reached(s, r),
           Shape(t, r), Stand(s, r), Settled(s), PinsCounted(s, n), Answers(s, r),
           Holds(r) => p.claim.gate = "held" \/ p.detach_in_flight
    PROVE  Sole(t, p, r, n) /\ ~NewWork(p, r)
<1>1. /\ Stand(p, r) /\ ~NewWork(p, r) /\ Settled(p)
      /\ Registers(p, r) <=> Registers(s, r)
    BY SupersededStand, SupersededSettles
<1>2. PinsCounted(p, n)
    BY DEF PinsCounted, Superseded
<1>3. Answers(p, r) /\ HeldFor(p, r)
    BY <1>1 DEF Answers, HeldFor, Superseded, Running, Custodian
<1> QED
    BY <1>1, <1>2, <1>3 DEF Sole

\* The thread that meets a refusal, or makes one, goes on from there with nothing
\* in hand.
Refuses(t, r, q) ==
    /\ r.pc \in {"idle", "classifying", "losing", "begun"} \/ (r.pc = "working" /\ r.job.kind = "Attach")
    /\ Shape(t, q)
    /\ \/ q = Idle /\ (r.pc = "idle" \/ r.job.kind = "none")
       \/ /\ r.pc # "idle" /\ q.pc \in {"ending", "handing", "losing", "departing"} /\ ~q.held
          /\ q.job = r.job /\ q.next = r.next /\ q.followup = NoJob

LEMMA RefusesStands ==
    ASSUME NEW t, NEW s, NEW p, NEW r, NEW q, NEW n, Superseded(s, p), Reached(s, r), ~InHandOf(s),
           Shape(t, r), Stand(s, r), Settled(s), PinsCounted(s, n), Refuses(t, r, q)
    PROVE  /\ Stand(p, q) /\ ~NewWork(p, q) /\ ~Carries(p, q) /\ ~Closes(q)
           /\ Registers(p, q) <=> Registers(s, r)
           /\ LegsRun(q) => q.job.epoch # p.claim.epoch
           /\ Answers(s, r) => Sole(t, p, q, n)
<1>1. /\ ~Holds(q) /\ ~Live(p, q) /\ ~Standing(p, q.next) /\ ~Carries(p, q) /\ ~Closes(q)
      /\ LegsRun(q) => q.job.epoch # p.claim.epoch
    BY IdleIs DEF Refuses, Superseded, Reached, Holds, Live, Standing, Carries, Closes
<1>2. Registers(p, q) <=> Registers(s, r)
    <2>1. CASE q = Idle
        BY <2>1, IdleIs DEF Refuses, Registers, LegsRun
    <2>2. CASE q # Idle
        BY <2>2 DEF Refuses, Registers, LegsRun, LegFor, Superseded
    <2> QED
        BY <2>1, <2>2
<1>3. r.next # NoJob => ~Registers(s, r)
    BY DEF Stand, Spent
<1>4. q.next # NoJob => ~Registers(p, q)
    BY <1>2, <1>3, IdleIs DEF Refuses
<1>5. Stand(p, q)
    <2>1. HoldsStand(p, q) /\ LiveStand(p, q) /\ NextStand(p, q) /\ CarryStand(p, q) /\ CloseStand(p, q)
        BY <1>1 DEF HoldsStand, LiveStand, NextStand, CarryStand, CloseStand, Carries
    <2>2. Spent(p, q)
        BY <1>1, <1>4, IdleIs DEF Spent, Refuses, Registers
    <2> QED
        BY <2>1, <2>2 DEF Stand
<1>6. ~NewWork(p, q)
    BY <1>1 DEF NewWork, Superseded
<1>7. ASSUME Answers(s, r) PROVE Sole(t, p, q, n)
    <2>1. ~Closes(r) /\ ~Custodian(s, r)
        BY DEF Refuses, Closes, Custodian, Holds
    <2>2. ~OutWithLeg(s.coverage)
        BY <1>7, <2>1 DEF Answers
    <2>3. s.pinned_leg = NoLeg
        BY <2>2, <1>7 DEF Settled, OutWithLeg, OnLeg
    <2>4. Answers(p, q)
        BY <1>2, <1>7, <2>1, <2>2, <2>3 DEF Answers, Superseded, Running
    <2>5. HeldFor(p, q) /\ PinsCounted(p, n) /\ Settled(p)
        BY SupersededSettles DEF HeldFor, PinsCounted, Superseded, Running
    <2> QED
        BY <1>5, <2>4, <2>5 DEF Sole, Refuses
<1> QED
    BY <1>1, <1>2, <1>5, <1>6, <1>7

LEMMA ReachedIs ==
    ASSUME Inv, NEW t \in Threads PROVE Reached(entry, thread[t])
BY ThreadNums DEF Reached

\* An entry superseded by a refusal, with nothing in hand to give back.
LEMMA RefusalKeeps ==
    ASSUME Inv, Inv', Custody, NEW t \in Threads, Unmoved(t), Refuses(t, thread[t], thread'[t]),
           Superseded(entry, entry'), StaysShut(entry, entry'), ~InHandOf(entry), UNCHANGED <<queue, sends, reads>>
    PROVE  Custody'
<1>1. entry.claim.epoch' > entry.claim.epoch /\ entry.claim.epoch' >= entry.claim.epoch
      /\ entry.claim.epoch \in Nat /\ entry.claim.leg' = entry.claim.leg
    BY Facts DEF Superseded
<1>2. \A u \in Threads : Shape(u, thread[u]) /\ Stand(entry, thread[u]) /\ Reached(entry, thread[u])
    BY ReachedIs DEF Custody, ThreadsStand
<1>3. Settled(entry) /\ PinsCounted(entry, reads)
    BY DEF Custody
<1>4. ASSUME NEW u \in Threads \ {t}, ~Engaged(entry, thread[u]) PROVE Quiet(u)
    BY <1>1, <1>4, QuietUnchanged DEF LegSpares, Unmoved
<1>5. /\ Stand(entry', thread'[t]) /\ ~NewWork(entry', thread'[t]) /\ ~Carries(entry', thread'[t])
      /\ ~Closes(thread'[t])
      /\ Registers(entry', thread'[t]) <=> Registers(entry, thread[t])
      /\ LegsRun(thread'[t]) => thread'[t].job.epoch # entry.claim.epoch'
      /\ Answers(entry, thread[t]) => Sole(t, entry', thread'[t], reads)
    BY <1>2, <1>3, RefusesStands
<1>6. CASE \A u \in Threads \ {t} : ~Engaged(entry, thread[u])
    <2>1. Answers(entry, thread[t])
        BY <1>6, SoleOf
    <2>2. Sole(t, entry', thread'[t], reads')
        BY <1>5, <2>1
    <2> QED
        BY <1>1, <1>4, <1>5, <1>6, <2>2, SoleStep
<1>7. ASSUME NEW u \in Threads \ {t}, Engaged(entry, thread[u]) PROVE Custody'
    <2>1. /\ \A v \in Threads \ {u} : ~Engaged(entry, thread[v])
          /\ Answers(entry, thread[u]) /\ thread'[u] = thread[u]
        BY <1>7, EngagedAlone DEF Sole, Unmoved
    <2>2. Holds(thread[u]) => entry.claim.gate' = "held" \/ entry'.detach_in_flight
        <3>1. Holds(thread[u]) => Running(entry.claim) /\ (entry.claim.gate = "held" \/ entry.detach_in_flight)
            <4>1. LegFor(thread[u]) # NoLeg
                BY ThreadNums, LegForIsALeg
            <4> QED
                BY <1>2, <4>1 DEF Stand, HoldsStand, Registers, Running
        <3> QED
            BY <3>1 DEF StaysShut
    <2>3. Sole(u, entry', thread[u], reads) /\ ~NewWork(entry', thread[u])
        BY <1>2, <1>3, <2>1, <2>2, SupersededSole
    <2>4. Quiet(t)
        <3>1. ~Engaged(entry, thread[t])
            BY <2>1
        <3>2. ~Engaged(entry', thread'[t])
            BY <1>5, <3>1 DEF Engaged
        <3> QED
            BY <1>5, <3>2 DEF Quiet, Refuses
    <2>5. ASSUME NEW v \in Threads \ {u} PROVE Quiet(v)
        BY <1>4, <2>1, <2>4
    <2> QED
        BY <1>1, <2>1, <2>3, <2>5, SoleStep
<1> QED
    BY <1>6, <1>7

\* An entry whose coverage the refusing thread takes out of hand.
LEMMA RefusalTakes ==
    ASSUME Inv, Inv', Custody, NEW t \in Threads, Unmoved(t), Shape(t, thread'[t]),
           thread'[t].pc \in {"releasing", "returning"}, thread'[t].rel = entry.claim.epoch + 1,
           thread'[t].job = thread[t].job, thread'[t].next = thread[t].next,
           thread'[t].followup = NoJob,
           TakenBack(entry, entry'), InHandOf(entry), UNCHANGED <<queue, sends, reads>>
    PROVE  Custody'
<1> DEFINE q == thread'[t]
<1>1. /\ entry.claim.epoch' > entry.claim.epoch /\ entry.claim.epoch' >= entry.claim.epoch
      /\ entry.claim.epoch \in Nat /\ entry.claim.leg' = NoLeg
    BY Facts DEF TakenBack
<1>2. /\ Settled(entry) /\ PinsCounted(entry, reads) /\ Reached(entry, thread[t])
      /\ \A u \in Threads : Stand(entry, thread[u])
    BY ReachedIs DEF Custody, ThreadsStand
<1>3. /\ entry.pinned_leg = NoLeg /\ ~entry.detach_in_flight
      /\ \A epoch : entry.coverage # OnLeg(epoch)
      /\ entry.coverage # NoCoverage
    BY <1>2 DEF Settled, InHandOf, InHand, OnLeg, NoCoverage
<1>4. \A u \in Threads : LegFor(thread[u]) # NoLeg
    BY ThreadNums, LegForIsALeg
<1>5. ASSUME NEW u \in Threads \ {t} PROVE Quiet(u)
    <2>1. ~Holds(thread[u]) /\ ~Closes(thread[u])
        BY <1>2, <1>3 DEF Stand, HoldsStand, CloseStand
    <2>2. ~Registers(entry', thread[u])
        BY <1>1, <1>4 DEF Registers
    <2> QED
        BY <1>1, <2>1, <2>2, LooseQuiet DEF Unmoved
<1>6. LegFor(q) # NoLeg
    BY <1>4 DEF LegFor
<1>7. /\ ~Registers(entry', q) /\ ~Holds(q) /\ ~Live(entry', q) /\ ~Carries(entry', q)
      /\ ~Standing(entry', q.next) /\ Closes(q) /\ q.job.epoch # entry.claim.epoch'
      /\ ~(q.job.kind = "Attach" /\ q.rel = q.job.epoch)
    BY <1>1, <1>2, <1>6 DEF Registers, Holds, Live, Carries, Standing, Closes, Reached
<1>8. Stand(entry', q)
    <2>1. HoldsStand(entry', q) /\ LiveStand(entry', q) /\ NextStand(entry', q) /\ CarryStand(entry', q)
        BY <1>7 DEF HoldsStand, LiveStand, NextStand, CarryStand, Carries
    <2>2. CloseStand(entry', q)
        BY <1>1 DEF CloseStand, TakenBack
    <2>3. Spent(entry', q)
        BY <1>7 DEF Spent
    <2> QED
        BY <2>1, <2>2, <2>3 DEF Stand
<1>9. Settled(entry') /\ PinsCounted(entry', reads')
    BY <1>2, <1>3 DEF Settled, PinsCounted, TakenBack, InHandOf, InHand, OutWithLeg, OnLeg
<1>10. Answers(entry', q) /\ HeldFor(entry', q)
    BY <1>3, <1>7 DEF Answers, HeldFor, TakenBack, Running, Custodian, OnLeg
<1>11. Sole(t, entry', q, reads') /\ ~NewWork(entry', q)
    BY <1>7, <1>8, <1>9, <1>10 DEF Sole, NewWork, TakenBack
<1> QED
    BY <1>1, <1>5, <1>11, SoleStep DEF q

\* Where a thread goes on from a refusal.
GoesOnTo(t, r, after) ==
    /\ r.pc \in {"idle", "classifying", "losing", "begun"} \/ (r.pc = "working" /\ r.job.kind = "Attach")
    /\ after \in {"idle", "ending", "losing", "departing", "handing"}
    /\ after \in {"ending", "handing"} => t \in Workers
    /\ after = "handing" => r.next # NoJob
    /\ after = "ending" => r.next = NoJob
    /\ t \in Workers => r.pc # "idle" /\ after \notin {"departing", "idle"}
    /\ t = Dispatcher => after \in {"idle", "losing"} /\ r.job = NoJob
    /\ after = "departing" => t = Registrar
    /\ t = Registrar => after \in {"idle", "departing"}
    /\ after = "idle" => r.pc = "idle" \/ r.job.kind = "none"
    /\ r.pc = "idle" => after = "idle"

LEMMA GoesOnShape ==
    ASSUME NEW t \in Threads, NEW r, NEW q, NEW after, Shape(t, r), GoesOnTo(t, r, after),
           q.job = r.job, q.next = r.next, q.followup = r.followup
    PROVE  /\ q.pc \in {"releasing", "returning"} /\ q.after = after => Shape(t, q)
           /\ after # "idle" /\ q.pc = after /\ ~q.held /\ q.after = "idle" => Shape(t, q)
           /\ r.followup = NoJob
<1>1. r.followup = NoJob /\ (r.next # NoJob => r.pc \in {"classifying", "losing"})
    BY DEF Shape, GoesOnTo
<1>3. t \in Workers => t # Dispatcher /\ t # Registrar
    BY ThreadsAssumption
<1>4. t \in Workers => r.pc # "idle"
    BY DEF GoesOnTo
<1>5. ASSUME q.pc \in {"releasing", "returning"}, q.after = after PROVE Shape(t, q)
    BY <1>1, <1>3, <1>4, <1>5 DEF Shape, GoesOnTo
<1>6. ASSUME after # "idle", q.pc = after, ~q.held, q.after = "idle" PROVE Shape(t, q)
    BY <1>1, <1>3, <1>4, <1>6 DEF Shape, GoesOnTo
<1> QED
    BY <1>1, <1>5, <1>6

\* A refusal met over i, which differs from the entry in no custody.
LEMMA MeetsKeeps ==
    ASSUME Inv, Inv', Custody, NEW t \in Threads, NEW after, GoesOnTo(t, thread[t], after),
           NEW i \in Entries, SameCustody(entry, i),
           entry' = RefuseConflict(i) \/ entry' = GiveBackCoverage(i),
           NEW pc \in {"releasing", "returning"},
           InHandOf(entry) => thread' = [thread EXCEPT ![t] =
               [@ EXCEPT !.pc = pc, !.held = TRUE, !.rel = entry.claim.epoch + 1, !.after = after]],
           ~InHandOf(entry) => Goes(t, after, FALSE),
           UNCHANGED <<queue, sends, reads>>
    PROVE  Custody'
<1> DEFINE r == thread[t]
           q == thread'[t]
<1>1. /\ Settled(entry) /\ Shape(t, r) /\ r \in ThreadStates
      /\ thread \in [Threads -> ThreadStates]
    BY DEF Custody, ThreadsStand, Inv, ThreadInv
<1>2. OutWithLeg(entry.coverage) => Running(entry.claim) \/ entry.detach_in_flight
    <2>1. \A u \in Threads : LegFor(thread[u]) # NoLeg
        BY ThreadNums, LegForIsALeg
    <2>2. ASSUME OutWithLeg(entry.coverage) PROVE Running(entry.claim) \/ entry.detach_in_flight
        <3>1. PICK u \in Threads : Custodian(entry, thread[u])
            BY <2>2 DEF Custody, Answered
        <3>2. Stand(entry, thread[u])
            BY DEF Custody, ThreadsStand
        <3> QED
            BY <2>1, <3>1, <3>2 DEF Custodian, Registers, Running, Stand, CloseStand
    <2> QED
        BY <2>2
<1>3. /\ Settled(i) /\ (OutWithLeg(i.coverage) => Running(i.claim) \/ i.detach_in_flight)
    BY <1>1, <1>2, StandAlike DEF SameCustody
<1>4. /\ ~InHandOf(i) => Superseded(i, entry') /\ StaysShut(i, entry')
      /\ InHandOf(i) => TakenBack(i, entry')
    BY <1>3, RefusalsSupersede
<1>5. /\ ~InHandOf(entry) => Superseded(entry, entry') /\ StaysShut(entry, entry')
      /\ InHandOf(entry) => TakenBack(entry, entry')
    BY <1>4, SupersededAlike
<1>6. CASE InHandOf(entry)
    <2>1. /\ Unmoved(t) /\ q.pc = pc /\ q.rel = entry.claim.epoch + 1 /\ q.after = after
          /\ q.job = r.job /\ q.next = r.next /\ q.followup = r.followup
        <3>1. thread' = [thread EXCEPT ![t] =
                  [@ EXCEPT !.pc = pc, !.held = TRUE, !.rel = entry.claim.epoch + 1, !.after = after]]
            BY <1>6
        <3>2. Unmoved(t) /\ q = [r EXCEPT !.pc = pc, !.held = TRUE, !.rel = entry.claim.epoch + 1,
                                          !.after = after]
            BY <1>1, <3>1 DEF Unmoved
        <3> HIDE DEF q, r
        <3> QED
            BY <1>1, <3>2 DEF ThreadStates
    <2>2. Shape(t, q) /\ q.followup = NoJob
        BY <1>1, <2>1, GoesOnShape
    <2> QED
        BY <1>5, <1>6, <2>1, <2>2, RefusalTakes
<1>7. CASE ~InHandOf(entry)
    <2>1. Unmoved(t) /\ Refuses(t, r, q)
        <3>1. CASE after = "idle"
            <4>1. Unmoved(t) /\ q = Idle
                BY <1>7, <3>1, RestsTo
            <4> QED
                BY <3>1, <4>1, IdleIs DEF Refuses, GoesOnTo
        <3>2. CASE after # "idle"
            <4> Goes(t, after, FALSE)
                BY <1>7
            <4>1. Unmoved(t) /\ SameWork(r, q) /\ q.pc = after /\ q.held = FALSE /\ q.after = "idle"
                BY <3>2, GoesTo
            <4>2. Shape(t, q) /\ r.followup = NoJob
                BY <1>1, <3>2, <4>1, GoesOnShape DEF SameWork
            <4>3. r.pc # "idle"
                BY <3>2 DEF GoesOnTo
            <4> QED
                BY <3>2, <4>1, <4>2, <4>3 DEF Refuses, GoesOnTo, SameWork
        <3> QED
            BY <3>1, <3>2
    <2> QED
        BY <1>5, <1>7, <2>1, RefusalKeeps
<1> QED
    BY <1>6, <1>7

LEMMA IdentityAlike ==
    ASSUME NEW s \in Entries
    PROVE  SameCustody(s, IdentityRefused(s)) /\ IdentityRefused(s) \in Entries
<1>1. IdentityRefused(s) \in Entries
    BY PublishAlike DEF Alike
<1> DEFINE merged == Merge(s, "rescan")
           required == RequireRecovery(merged)
<1>2. merged \in Entries /\ SameCustody(s, merged)
    BY PollMovesAlike, FactsAlike DEF Alike, Batches
<1> HIDE DEF merged
<1>3. required \in Entries /\ SameCustody(merged, required)
    BY <1>2 DEF RequireRecovery, RequireRecoveryKeepingDemands, RetireRecoveryDemands, Entries,
                SameCustody
<1> HIDE DEF required
<1>4. SameCustody(required, ParkIdentityRefusal(required))
    BY <1>3 DEF ParkIdentityRefusal, SetTrust, Entries, SameCustody
<1> QED
    BY <1>1, <1>2, <1>3, <1>4 DEF IdentityRefused, merged, required, SameCustody

LEMMA MeetsConflictKeeps ==
    ASSUME Inv, Inv', Custody, NEW t \in Threads, NEW after, GoesOnTo(t, thread[t], after),
           MeetsConflict(t, FALSE, after), UNCHANGED <<queue, sends, reads>>
    PROVE  Custody'
<1>1. InHandOf(entry) => ~entry.detach_in_flight
    BY DEF Custody, Settled
<1>2. entry \in Entries /\ SameCustody(entry, entry)
    BY Facts, DataAlike
<1> QED
    BY <1>1, <1>2, MeetsKeeps DEF MeetsConflict, GoesReleasing

LEMMA MeetsGiveBackKeeps ==
    ASSUME Inv, Inv', Custody, NEW t \in Threads, NEW after, GoesOnTo(t, thread[t], after),
           \/ MeetsGiveBack(entry, t, FALSE, after)
           \/ MeetsIdentityRefusal(entry, t, FALSE, after),
           UNCHANGED <<queue, sends, reads>>
    PROVE  Custody'
<1>1. /\ entry \in Entries /\ SameCustody(entry, entry)
      /\ IdentityRefused(entry) \in Entries /\ SameCustody(entry, IdentityRefused(entry))
    BY Facts, DataAlike, IdentityAlike
<1>2. PICK i \in {entry, IdentityRefused(entry)} : MeetsGiveBack(i, t, FALSE, after)
    BY DEF MeetsIdentityRefusal
<1>3. i \in Entries /\ SameCustody(entry, i)
    BY <1>1
<1>4. /\ entry' = GiveBackCoverage(i) /\ (InHandOf(i) <=> InHandOf(entry))
      /\ i.claim.epoch = entry.claim.epoch
      /\ IF InHandOf(i)
         THEN thread' = [thread EXCEPT ![t] =
                [@ EXCEPT !.pc = "returning", !.held = TRUE,
                          !.rel = i.claim.epoch + 1, !.after = after]]
         ELSE Goes(t, after, FALSE)
    BY <1>2, <1>3 DEF MeetsGiveBack, SameCustody, InHandOf
<1> QED
    BY <1>3, <1>4, MeetsKeeps

LEMMA AttachConflictKeeps ==
    ASSUME Inv, Inv', Custody, NEW w \in Workers, AttachConflict(w) PROVE Custody'
<1>1. /\ thread[w].job.kind = "Attach" /\ thread[w].pc \in {"begun", "working"}
      /\ MeetsConflict(w, FALSE, "ending") /\ UNCHANGED <<queue, sends, reads>>
    BY DEF AttachConflict, KindOf, At, Channel, Client
<1>2. w \in Threads /\ Shape(w, thread[w]) /\ w # Dispatcher /\ w # Registrar
    BY <1>1, WorkerIs
<1>3. GoesOnTo(w, thread[w], "ending")
    BY <1>1, <1>2 DEF GoesOnTo, Shape
<1> QED
    BY <1>1, <1>2, <1>3, MeetsConflictKeeps

LEMMA RecoverRefusedAtOnceKeeps ==
    ASSUME Inv, Inv', Custody, NEW w \in Workers, RecoverRefusedAtOnce(w) PROVE Custody'
<1>1. /\ thread[w].pc = "begun" /\ UNCHANGED <<queue, sends, reads>>
      /\ \/ MeetsConflict(w, FALSE, "ending")
         \/ MeetsIdentityRefusal(entry, w, FALSE, "ending")
    BY DEF RecoverRefusedAtOnce, KindOf, At, Channel, Client
<1>2. w \in Threads /\ Shape(w, thread[w]) /\ w # Dispatcher /\ w # Registrar
    BY <1>1, WorkerIs
<1>3. GoesOnTo(w, thread[w], "ending")
    BY <1>1, <1>2 DEF GoesOnTo, Shape
<1> QED
    BY <1>1, <1>2, <1>3, MeetsConflictKeeps, MeetsGiveBackKeeps

LEMMA ClassifyRefusedKeeps ==
    ASSUME Inv, Inv', Custody, NEW t \in Threads, ClassifyRefused(t) PROVE Custody'
<1>1. /\ thread[t].pc = "classifying" /\ UNCHANGED <<queue, sends, reads>>
      /\ \/ MeetsConflict(t, FALSE, AfterClassifying(t))
         \/ MeetsIdentityRefusal(entry, t, FALSE, AfterClassifying(t))
    BY DEF ClassifyRefused, At, Channel, Client
<1>2. Shape(t, thread[t]) /\ Dispatcher # Registrar /\ Registrar \notin Workers
    BY ThreadsAssumption DEF Custody, ThreadsStand
<1>3. GoesOnTo(t, thread[t], AfterClassifying(t))
    BY <1>1, <1>2 DEF GoesOnTo, Shape, AfterClassifying
<1> QED
    BY <1>1, <1>3, MeetsConflictKeeps, MeetsGiveBackKeeps

LEMMA RegistrarRefusesKeeps ==
    ASSUME Inv, Inv', Custody, RegistrarRefuses(Registrar) PROVE Custody'
<1>1. /\ thread[Registrar].pc = "idle" /\ UNCHANGED <<queue, sends, reads>>
      /\ \/ MeetsConflict(Registrar, FALSE, "idle")
         \/ MeetsIdentityRefusal(entry, Registrar, FALSE, "idle")
    BY DEF RegistrarRefuses, At, Channel, Client
<1>2. Registrar \in Threads /\ Registrar # Dispatcher /\ Registrar \notin Workers
    BY ThreadsAssumption, Facts
<1>3. GoesOnTo(Registrar, thread[Registrar], "idle")
    BY <1>1, <1>2 DEF GoesOnTo
<1> QED
    BY <1>1, <1>2, <1>3, MeetsConflictKeeps, MeetsGiveBackKeeps

LEMMA GiveBackLostKeeps ==
    ASSUME Inv, Inv', Custody, NEW t \in Threads, GiveBackLost(t) PROVE Custody'
<1> DEFINE r == thread[t]
           q == thread'[t]
           after == IF thread[t].next # NoJob THEN "handing" ELSE Over(t)
<1>1. /\ r.pc = "losing" /\ UNCHANGED <<queue, sends, reads>>
      /\ \/ MeetsGiveBack(entry, t, FALSE, after)
         \/ UNCHANGED entry /\ Goes(t, after, FALSE)
    BY DEF GiveBackLost, At, Channel, Client
<1>2. /\ Shape(t, r) /\ Stand(entry, r) /\ Registrar \notin Workers /\ Dispatcher \notin Workers
    BY ThreadsAssumption DEF Custody, ThreadsStand
<1>3. /\ t \in Workers \/ t = Dispatcher
      /\ t = Dispatcher => r.job = NoJob /\ r.next = NoJob /\ after = "idle"
      /\ t \in Workers => after = IF r.next # NoJob THEN "handing" ELSE "ending"
    BY <1>1, <1>2 DEF Shape, Threads, Over
<1>4. CASE MeetsGiveBack(entry, t, FALSE, after)
    <2>1. GoesOnTo(t, r, after)
        BY <1>1, <1>2, <1>3 DEF GoesOnTo, NoJob
    <2> QED
        BY <1>1, <1>4, <2>1, MeetsGiveBackKeeps
<1>5. CASE UNCHANGED entry /\ Goes(t, after, FALSE)
    <2>1. SameStanding(entry, entry')
        BY <1>5 DEF SameStanding
    <2>2. ~Closes(r) /\ ~Carries(entry, r) /\ LegsRun(r) /\ r.followup = NoJob
        BY <1>1, <1>2 DEF Closes, Carries, Standing, LegsRun, Shape
    <2>3. CASE t = Dispatcher
        <3>1. Unmoved(t) /\ q = Idle
            BY <1>3, <1>5, <2>3, RestsTo
        <3>2. ~Engaged(entry, r)
            BY <1>3, <2>2, <2>3 DEF Engaged, Registers, NoJob
        <3> QED
            BY <1>1, <2>1, <3>1, <3>2, QuietIdles
    <2>4. CASE t \in Workers
        <3> after # "idle" /\ Goes(t, after, FALSE)
            BY <1>3, <1>5, <2>4
        <3>1. /\ Unmoved(t) /\ SameWork(r, q) /\ q.pc = after /\ q.held = FALSE /\ q.after = "idle"
            BY GoesTo
        <3>2. GoesOnTo(t, r, after)
            BY <1>1, <1>2, <1>3, <2>4 DEF GoesOnTo
        <3>3. /\ q.job = r.job /\ q.next = r.next /\ q.followup = NoJob
              /\ q.pc = IF r.next # NoJob THEN "handing" ELSE "ending"
              /\ Shape(t, q)
            BY <1>2, <1>3, <2>2, <2>4, <3>1, <3>2, GoesOnShape DEF SameWork
        <3> HIDE DEF after, r, q
        <3>4. CASE ~Engaged(entry, r)
            BY <1>1, <2>1, <2>2, <3>1, <3>3, <3>4, QuietGoes DEF r, q
        <3>5. CASE Engaged(entry, r)
            <4>1. Sole(t, entry, r, reads)
                BY <3>5, EngagedAlone DEF r
            <4>2. /\ Registers(entry, q) <=> Registers(entry, r)
                  /\ ~Holds(q) /\ ~Live(entry, q) /\ ~Carries(entry, q) /\ ~Closes(q)
                  /\ ~Custodian(entry, r)
                BY <1>1, <3>1, <3>3 DEF Registers, LegsRun, LegFor, Holds, Live, Carries, Standing, Closes,
                                        Custodian
            <4>3. Stand(entry, q)
                <5>1. HoldsStand(entry, q) /\ LiveStand(entry, q) /\ CarryStand(entry, q) /\ CloseStand(entry, q)
                    BY <4>2 DEF HoldsStand, LiveStand, CarryStand, CloseStand, Carries
                <5>2. NextStand(entry, q)
                    BY <1>1, <1>2, <3>3, <4>2 DEF Stand, NextStand, Standing
                <5>3. Spent(entry, q)
                    BY <1>1, <1>2, <3>3, <4>2 DEF Stand, Spent
                <5> QED
                    BY <5>1, <5>2, <5>3 DEF Stand
            <4>4. Sole(t, entry, q, reads)
                BY <1>1, <2>2, <3>3, <4>1, <4>2, <4>3 DEF Sole, Answers, HeldFor
            <4>5. NewWork(entry, q) => NewWork(entry, r)
                BY <3>3, <4>2 DEF NewWork
            <4> QED
                BY <1>1, <1>5, <2>2, <3>1, <3>3, <3>5, <4>4, <4>5, EngagedGoesOn DEF r, q
        <3> QED
            BY <3>4, <3>5
    <2> QED
        BY <1>3, <2>3, <2>4
<1> QED
    BY <1>1, <1>4, <1>5

\* A recover whose second reading of the root finds it moved.
LEMMA RecoverFindsMovedKeeps ==
    ASSUME Inv, Inv', Custody, NEW w \in Workers, RecoverFindsMoved(w) PROVE Custody'
BY RecoverMovedKeeps DEF RecoverFindsMoved, Channel, Client, KindOf

\* A recover about to be refused has given its pin back, and keeps its attachment.
LEMMA RecoverUnpinsKeeps ==
    ASSUME Inv, Inv', Custody, NEW w \in Workers, RecoverUnpins(w) PROVE Custody'
<1> DEFINE r == thread[w]
           q == thread'[w]
           u == Unpinned(w)
<1>1. /\ At(w, "working") /\ r.job.kind = "Recover" /\ Goes(w, "refusing", TRUE)
      /\ UNCHANGED <<queue, sends, reads>> /\ entry' = u
    BY DEF RecoverUnpins, KindOf, Channel, Client
<1>2. /\ w \in Threads /\ Registers(entry, r) /\ entry.claim.leg = LegFor(r)
      /\ r.pc = "working" /\ w # Dispatcher /\ r.next = NoJob /\ r.followup = NoJob
      /\ entry.claim.gate = "held" \/ entry.detach_in_flight
      /\ Settled(entry) /\ entry.coverage = OnLeg(r.job.epoch)
      /\ u \in Entries /\ u.claim = entry.claim /\ u.coverage = entry.coverage
      /\ u.reader = entry.reader /\ u.detach_in_flight = entry.detach_in_flight
      /\ u.detach_scheduled = entry.detach_scheduled /\ u.leases = entry.leases
      /\ u.pins = reads /\ u.pinned_leg = NoLeg /\ reads \in Nat
    BY <1>1, TakenIs DEF KindOf
<1>3. Shape(w, r) /\ r.job \in Jobs /\ w # Registrar
    BY <1>1, <1>2, WorkerIs
<1>4. Sole(w, entry, r, reads) /\ Engaged(entry, r)
    BY <1>2, EngagedAlone DEF Engaged
<1>5. /\ Unmoved(w) /\ SameWork(r, q) /\ q.pc = "refusing" /\ q.held = TRUE /\ q.after = "idle"
    BY <1>1, <1>2, GoesTo
<1>6. entry.claim.epoch \in Nat
    BY Facts
<1> HIDE DEF u
<1>7. /\ entry'.claim = entry.claim /\ entry'.coverage = OnLeg(r.job.epoch)
      /\ entry'.reader = entry.reader /\ entry'.detach_in_flight = entry.detach_in_flight
      /\ entry'.detach_scheduled = entry.detach_scheduled /\ entry'.leases = entry.leases
      /\ entry'.pins = reads /\ entry'.pinned_leg = NoLeg
    BY <1>1, <1>2
<1>8. /\ q.job = r.job /\ q.next = NoJob /\ q.followup = NoJob /\ LegFor(q) = LegFor(r)
    BY <1>2, <1>5 DEF SameWork, LegFor
<1>9. ~InHandOf(entry') /\ (AccountedFor(entry'.coverage) => AccountedFor(entry.coverage))
    BY <1>2, <1>7 DEF InHandOf, InHand, OnLeg
<1> HIDE DEF r, q
<1>10. Shape(w, q)
    BY <1>1, <1>2, <1>3, <1>5, <1>8 DEF Shape, r
<1>11. Registers(entry', q)
    BY <1>1, <1>2, <1>5, <1>7, <1>8 DEF Registers, LegsRun
<1>12. Stand(entry', q)
    <2>1. q.job.kind = "Recover"
        BY <1>1, <1>8 DEF r
    <2>2. HoldsStand(entry', q)
        BY <1>2, <1>5, <1>7, <1>8, <1>11, <2>1 DEF HoldsStand
    <2>3. /\ LiveStand(entry', q) /\ NextStand(entry', q) /\ CarryStand(entry', q)
          /\ CloseStand(entry', q) /\ Spent(entry', q)
        BY <1>5, <1>8 DEF LiveStand, Live, NextStand, CarryStand, CloseStand, Spent,
           Standing, Closes
    <2> QED
        BY <2>2, <2>3 DEF Stand
<1>13. Settled(entry')
    BY <1>2, <1>7, <1>9 DEF Settled, Fits, InHandOf
<1>14. PinsCounted(entry', reads')
    BY <1>1, <1>2, <1>7 DEF PinsCounted
<1>15. Answers(entry', q) /\ HeldFor(entry', q)
    <2>1. LegFor(q) # NoLeg /\ q.job.kind = "Recover"
        BY <1>1, <1>8 DEF LegFor, JobLeg, PollLeg, NoLeg, r
    <2>2. Running(entry'.claim)
        BY <1>2, <1>7, <1>8, <2>1 DEF Running
    <2>3. Custodian(entry', q)
        BY <1>5, <1>7, <1>8, <1>11, <2>1 DEF Custodian, Holds, OnLeg
    <2> QED
        BY <1>7, <1>11, <2>2, <2>3 DEF Answers, HeldFor
<1>16. Sole(w, entry', q, reads')
    BY <1>10, <1>12, <1>13, <1>14, <1>15 DEF Sole
<1>17. NewWork(entry', q) => NewWork(entry, r)
    BY <1>5, <1>7, <1>8 DEF NewWork, Carries, Standing
<1>18. entry.claim.epoch' >= entry.claim.epoch /\ entry.claim.leg' \in {entry.claim.leg, NoLeg}
    BY <1>6, <1>7
<1>19. NewWork(entry', q) => entry.claim.gate = "scheduled"
    BY <1>5, <1>7, <1>8 DEF NewWork, Carries, Standing
<1>20. NewWork(entry', q) => q.job.epoch # entry'.claim.epoch
    <2>1. ASSUME NewWork(entry', q) PROVE r.job.epoch # entry.claim.epoch
        BY <1>2, <1>17, <2>1 DEF Custody, Unused, Registers, r
    <2> QED
        BY <1>7, <1>8, <2>1
<1> QED
    BY <1>1, <1>2, <1>4, <1>5, <1>16, <1>17, <1>18, <1>20, EngagedStep DEF q, r

\* A recover refused after its work gives back what it took at its end.
LEMMA RecoverRefusedKeeps ==
    ASSUME Inv, Inv', Custody, NEW w \in Workers, RecoverRefused(w) PROVE Custody'
<1> DEFINE r == thread[w]
           q == thread'[w]
<1>1. /\ r.pc = "refusing" /\ r.pc # "idle" /\ Goes(w, "ending", TRUE)
      /\ UNCHANGED <<queue, sends, reads>>
      /\ \/ entry' = RefuseConflict(entry)
         \/ entry' = GiveBackCoverage(IdentityRefused(entry))
    BY DEF RecoverRefused, At, Channel, Client
<1>2. w \in Threads /\ w # Dispatcher /\ Shape(w, r) /\ Stand(entry, r)
    BY <1>1, WorkerIs
<1>3. /\ Registers(entry, r) /\ entry.claim.leg = LegFor(r) /\ r.job.kind = "Recover"
      /\ Settled(entry) /\ entry.coverage = OnLeg(r.job.epoch)
      /\ entry.claim.gate = "held" \/ entry.detach_in_flight
      /\ entry.pinned_leg = NoLeg /\ entry.pins = reads
      /\ entry \in Entries /\ reads \in Nat
    <2>1. Holds(r) /\ r.job.kind = "Recover"
        BY <1>1, <1>2 DEF Holds, Shape
    <2>2. /\ Registers(entry, r) /\ entry.coverage = OnLeg(r.job.epoch)
          /\ entry.claim.gate = "held" \/ entry.detach_in_flight
          /\ entry.pinned_leg = NoLeg
        BY <1>1, <1>2, <2>1 DEF Stand, HoldsStand
    <2>3. entry \in Entries /\ reads \in Nat /\ Settled(entry)
        BY Facts DEF Custody, Inv, RestInv
    <2>4. entry.pins \in Nat /\ entry.pins = reads
        BY <2>2, <2>3 DEF Custody, PinsCounted, Entries
    <2> QED
        BY <2>1, <2>2, <2>3, <2>4 DEF Registers
<1>4. /\ r \in ThreadStates /\ Reached(entry, r) /\ LegFor(r) # NoLeg
      /\ entry.claim.epoch \in Nat
    BY <1>2, <1>3, ReachedIs, LegForIsALeg, Facts DEF Inv, ThreadInv
<1>5. Unmoved(w) /\ SameWork(r, q) /\ q.pc = "ending" /\ q.held = TRUE /\ q.after = "idle"
    BY <1>1, <1>2, GoesTo
<1>6. Running(entry.claim) /\ ~InHandOf(entry)
    BY <1>3, <1>4 DEF Running, InHandOf, InHand, OnLeg
<1>7. /\ IdentityRefused(entry) \in Entries /\ SameCustody(entry, IdentityRefused(entry))
      /\ Settled(IdentityRefused(entry)) /\ Running(IdentityRefused(entry).claim)
      /\ ~InHandOf(IdentityRefused(entry))
    BY <1>3, <1>6, IdentityAlike, StandAlike, SupersededAlike DEF SameCustody
<1>8. Superseded(entry, entry')
    <2>1. CASE entry' = RefuseConflict(entry)
        BY <1>3, <1>6, <2>1, RefusalsSupersede
    <2>2. CASE entry' = GiveBackCoverage(IdentityRefused(entry))
        BY <1>3, <1>7, <2>2, RefusalsSupersede, SupersededAlike
    <2> QED
        BY <1>1, <2>1, <2>2
<1>9. Settled(entry')
    BY <1>3, <1>6, <1>8, SupersededSettles
<1>10. /\ entry.claim.epoch' = entry.claim.epoch + 1 /\ entry.claim.leg' = entry.claim.leg
       /\ entry'.coverage = OnLeg(r.job.epoch) /\ entry'.pins = reads /\ entry'.pinned_leg = NoLeg
       /\ entry.claim.gate' # "scheduled" /\ r.job.epoch # entry.claim.epoch'
       /\ entry'.claim.gate = "held" \/ entry'.detach_in_flight
    BY <1>3, <1>4, <1>6, <1>8 DEF Superseded, Reached, OutWithLeg, OnLeg
<1>11. PinsCounted(entry', reads')
    BY <1>1, <1>3, <1>10 DEF PinsCounted
<1>12. Ends(w, r, q) /\ q.job = r.job
    BY <1>1, <1>2, <1>3, <1>5 DEF Ends, SameWork
<1>13. HeldStands(entry', q)
    BY <1>3, <1>10, <1>12 DEF HeldStands
<1>14. entry.claim.epoch' >= entry.claim.epoch
    BY <1>4, <1>10
<1> HIDE DEF r, q
<1> QED
    BY <1>1, <1>2, <1>3, <1>5, <1>9, <1>10, <1>11, <1>12, <1>13, <1>14, LegGoesOver
       DEF r, q

----------------------------------------------------------------------------
(* Steps of the entry alone: reads, leases, reaps and demands              *)

\* A lease or a pin more or less, and then whatever may be scheduled; u, which
\* nobody waits for, may come to rest over it.
LEMMA EntryThenSettles ==
    ASSUME Inv, Inv', Custody, NEW u \in Threads, ~Engaged(entry, thread[u]), Unmoved(u),
           thread'[u] \in {thread[u], Idle}, UNCHANGED <<queue, sends>>,
           NEW s, Keeps(entry, s), Softens(entry, s), PinsCounted(s, reads'),
           MaySchedule(s, entry')
    PROVE  Custody'
<1>1. /\ s \in Entries /\ s.claim.epoch = entry.claim.epoch /\ entry.claim.epoch \in Nat
      /\ s.claim.leg = entry.claim.leg
    BY SoundEpoch DEF Keeps, Sound, Inv, Softens
<1>2. CASE SameCustody(s, entry')
    <2>1. Softens(entry, entry') /\ PinsCounted(entry', reads')
        BY <1>2 DEF SameCustody, Softens, PinsCounted
    <2>2. entry.claim.epoch' >= entry.claim.epoch /\ entry.claim.leg' = entry.claim.leg
        BY <1>1, <2>1 DEF Softens
    <2>3. Quiet(u)
        <3>1. CASE thread'[u] = thread[u]
            BY <2>2, <3>1, QuietUnchanged DEF LegSpares
        <3>2. CASE thread'[u] = Idle
            BY <3>2, IdleIs DEF Quiet
        <3> QED
            BY <3>1, <3>2
    <2> QED
        BY <2>1, <2>3, SoftChannel, SoftMovesOver DEF Quiet
<1>3. CASE Schedules(s, entry')
    <2>1. /\ s.claim.gate = "open" /\ entry.claim.gate = "open" /\ ~entry.detach_in_flight
          /\ ~InQueue /\ ~InSends
          /\ \A v \in Threads : ~Carries(entry, thread[v]) /\ ~Standing(entry, thread[v].next)
        BY <1>3, LooseIs DEF Schedules, Softens
    <2>2. Dispatcher \in Threads /\ Registrar \in Threads /\ Dispatcher # Registrar
        BY ThreadsAssumption DEF Threads
    <2>3. PICK t \in Threads \ {u} : \A v \in Threads \ {t} : ~Engaged(entry, thread[v])
        BY <2>2 DEF Custody, OneEngaged
    <2> DEFINE r == thread[t]
    <2>4. thread'[t] = r
        BY <2>3 DEF Unmoved
    <2>5. /\ Shape(t, r) /\ Stand(entry, r) /\ Settled(entry) /\ Answers(entry, r)
        BY <2>3, SoleOf
    <2> HIDE DEF r
    <2>6. /\ Stand(s, r) /\ Settled(s)
          /\ Registers(s, r) <=> Registers(entry, r)
          /\ Custodian(s, r) <=> Custodian(entry, r)
          /\ Running(s.claim) <=> Running(entry.claim)
          /\ NewWork(s, r) <=> NewWork(entry, r)
        BY <2>5, SoftStands
    <2>7. Answers(s, r) /\ HeldFor(s, r)
        BY <2>1, <2>5, <2>6 DEF Answers, HeldFor, Softens
    <2>8. Sole(t, s, thread'[t], reads')
        BY <2>4, <2>5, <2>6, <2>7 DEF Sole
    <2>9. ~NewWork(s, thread'[t])
        BY <2>1, <2>3, <2>4, <2>6 DEF NewWork, r
    <2>10. entry.claim.leg' = entry.claim.leg /\ entry.claim.epoch' >= entry.claim.epoch
        <3>1. PICK kind \in JobKinds : entry.claim' = Schedule(s.claim, kind)
            BY <1>3 DEF Schedules
        <3>2. s.claim \in Claims
            BY <1>1 DEF Entries
        <3>3. entry.claim'.epoch = s.claim.epoch + 1 /\ entry.claim'.leg = s.claim.leg
            BY <3>1, <3>2, ScheduleFields DEF ClaimIs
        <3> QED
            BY <1>1, <3>3
    <2>11. ASSUME NEW v \in Threads \ {t} PROVE Quiet(v)
        <3>1. CASE thread'[v] = thread[v]
            BY <2>3, <2>10, <3>1, QuietUnchanged DEF LegSpares
        <3>2. CASE thread'[v] = Idle
            BY <3>2, IdleIs DEF Quiet
        <3> QED
            BY <3>1, <3>2 DEF Unmoved
    <2>12. /\ thread'[t].job.epoch \in 0..entry.claim.epoch
           /\ thread'[t].next.epoch \in 0..entry.claim.epoch
           /\ thread'[t].followup.epoch \in 0..entry.claim.epoch
        BY <2>4, ThreadNums DEF r
    <2> QED
        BY <1>1, <2>1, <2>8, <2>9, <2>11, <2>12, SoleThenSchedules
<1> QED
    BY <1>2, <1>3 DEF MaySchedule

LEMMA EntryThen ==
    ASSUME Inv, Inv', Custody, UNCHANGED <<thread, queue, sends>>,
           NEW s, Keeps(entry, s), Softens(entry, s), PinsCounted(s, reads'),
           MaySchedule(s, entry')
    PROVE  Custody'
<1>1. Dispatcher \in Threads /\ Registrar \in Threads /\ Dispatcher # Registrar
    BY ThreadsAssumption DEF Threads
<1>2. PICK u \in Threads : ~Engaged(entry, thread[u])
    BY <1>1 DEF Custody, OneEngaged
<1>3. Unmoved(u) /\ thread'[u] \in {thread[u], Idle}
    BY DEF Unmoved
<1> QED
    BY <1>2, <1>3, EntryThenSettles

\* A step that leaves the entry as the custody reads it, and then may schedule.
LEMMA CustodyThen ==
    ASSUME Inv, Inv', Custody, UNCHANGED <<thread, queue, sends, reads>>,
           NEW s \in Entries, SameCustody(entry, s), Keeps(entry, s), MaySchedule(s, entry')
    PROVE  Custody'
<1>1. Softens(entry, s) /\ PinsCounted(s, reads')
    BY DEF Custody, PinsCounted, SameCustody, Softens
<1> QED
    BY <1>1, EntryThen

LEMMA RegistrarSettlesKeeps ==
    ASSUME Inv, Inv', Custody, RegistrarSettles(Registrar) PROVE Custody'
<1>1. /\ thread[Registrar].pc = "departing" /\ entry' = ScheduleDemandedWork(entry)
      /\ Rests(Registrar) /\ UNCHANGED <<queue, sends, reads>>
    BY DEF RegistrarSettles, At, Channel, Client
<1>2. /\ Registrar \in Threads /\ Shape(Registrar, thread[Registrar])
      /\ Registrar # Dispatcher /\ Registrar \notin Workers
    BY ThreadsAssumption DEF Threads, Custody, ThreadsStand
<1>3. ~Engaged(entry, thread[Registrar])
    BY <1>1, <1>2 DEF Engaged, Registers, Closes, Carries, Standing, Shape, NoJob
<1>4. Unmoved(Registrar) /\ thread'[Registrar] = Idle
    BY <1>1, <1>2, RestsTo
<1>5. /\ Keeps(entry, entry) /\ Softens(entry, entry) /\ PinsCounted(entry, reads')
    BY <1>1, Facts DEF Keeps, Inv, Softens, Custody
<1>6. MaySchedule(entry, entry')
    BY <1>1, Facts, WaysToSchedule DEF Custody, Settled
<1> QED
    BY <1>1, <1>2, <1>3, <1>4, <1>5, <1>6, EntryThenSettles

LEMMA RegistrarReclassifiesKeeps ==
    ASSUME Inv, Inv', Custody, RegistrarReclassifies(Registrar) PROVE Custody'
<1> DEFINE q == thread'[Registrar]
<1>1. /\ thread[Registrar].pc = "idle" /\ entry' = [entry EXCEPT !.duplicate = FALSE]
      /\ Goes(Registrar, "classifying", FALSE) /\ UNCHANGED <<queue, sends, reads>>
    BY DEF RegistrarReclassifies, At, Channel, Client
<1>2. /\ Registrar \in Threads /\ Shape(Registrar, thread[Registrar])
      /\ Registrar # Dispatcher /\ Registrar \notin Workers
    BY ThreadsAssumption DEF Threads, Custody, ThreadsStand
<1>3. thread[Registrar] = Idle /\ ~Engaged(entry, thread[Registrar])
    BY <1>1, <1>2, IdleIs DEF Shape
<1>4. /\ Unmoved(Registrar) /\ q.pc = "classifying" /\ q.held = FALSE /\ q.after = "idle"
      /\ q.job = NoJob /\ q.next = NoJob /\ q.followup = NoJob
    BY <1>1, <1>2, <1>3, GoesTo, IdleIs DEF SameWork
<1>5. SameStanding(entry, entry')
    BY <1>1, Facts DEF SameStanding, Entries
<1>6. /\ Shape(Registrar, q) /\ Stand(entry', q) /\ ~Engaged(entry', q)
      /\ q.job.epoch # entry.claim.epoch' \/ entry.claim.epoch = 0
    <2>1. Shape(Registrar, q)
        BY <1>2, <1>4 DEF Shape, NoJob
    <2>2. /\ ~Registers(entry', q) /\ ~Holds(q) /\ ~Live(entry', q) /\ ~Carries(entry', q)
          /\ ~Standing(entry', q.next) /\ ~Closes(q)
        BY <1>4 DEF Registers, Holds, Live, Carries, Standing, Closes, NoJob
    <2>3. Stand(entry', q) /\ ~Engaged(entry', q)
        BY <1>4, <2>2 DEF Stand, HoldsStand, LiveStand, NextStand, CarryStand, CloseStand, Spent,
                          Carries, Engaged
    <2>4. q.job.epoch = 0 /\ (q.job.epoch # entry.claim.epoch' \/ entry.claim.epoch = 0)
        BY <1>4, <1>5 DEF NoJob, SameStanding
    <2> QED
        BY <2>1, <2>3, <2>4
<1>7. Softens(entry, entry') /\ PinsCounted(entry', reads')
    BY <1>1, <1>5 DEF Custody, PinsCounted, SameStanding, Softens
<1> QED
    BY <1>1, <1>2, <1>3, <1>4, <1>6, <1>7, SoftChannel, SoftMovesOver

LEMMA ReapKeeps ==
    ASSUME Inv, Inv', Custody, Reap PROVE Custody'
<1> DEFINE s == [entry EXCEPT !.detach_due = TRUE]
<1>1. entry' = ScheduleDueDetach(s) /\ UNCHANGED <<thread, queue, sends, reads>>
    BY DEF Reap, Channel, Client
<1>2. s \in Entries /\ SameCustody(entry, s)
    BY Facts, DataAlike
<1> HIDE DEF s
<1>3. Keeps(entry, s)
    BY <1>2, Facts DEF Keeps, Sound, SameCustody, Inv
<1>4. MaySchedule(s, entry')
    BY <1>1, <1>2, WaysToSchedule DEF Custody, Settled, SameCustody, InHandOf
<1> QED
    BY <1>1, <1>2, <1>3, <1>4, CustodyThen

LEMMA ReadMeetsDamageKeeps ==
    ASSUME Inv, Inv', Custody, ReadMeetsDamage PROVE Custody'
<1> DEFINE s == [entry EXCEPT !.damage = TRUE]
<1>1. entry' = PublishDamage(s) /\ UNCHANGED <<thread, queue, sends, reads>>
    BY DEF ReadMeetsDamage, Channel, Client
<1>2. s \in Entries /\ SameCustody(entry, s)
    BY Facts, DataAlike
<1> HIDE DEF s
<1>3. Keeps(entry, s)
    BY <1>2, Facts DEF Keeps, Sound, SameCustody, Inv
<1>4. MaySchedule(s, entry')
    BY <1>1, <1>2, WaysToSchedule DEF Custody, Settled, SameCustody, InHandOf
<1> QED
    BY <1>1, <1>2, <1>3, <1>4, CustodyThen

LEMMA AskMaintenanceKeeps ==
    ASSUME Inv, Inv', Custody, AskMaintenance PROVE Custody'
<1>1. /\ entry' = ScheduleJob(entry, "Maintenance") /\ UNCHANGED <<thread, queue, sends, reads>>
      /\ entry.claim.gate = "open" /\ ~entry.detach_in_flight /\ InHandOf(entry)
    BY DEF AskMaintenance, Channel, Client, IsHeld
<1>2. entry \in Entries /\ SameCustody(entry, entry) /\ Keeps(entry, entry)
    BY Facts, DataAlike DEF Keeps, Inv
<1>3. MaySchedule(entry, entry')
    BY <1>1, <1>2, JobMaySchedule DEF JobKinds, MaySchedule
<1> QED
    BY <1>1, <1>2, <1>3, CustodyThen

\* A lease or a pin more or less.
LEMMA CountsKeep ==
    ASSUME Inv, Inv', Custody, UNCHANGED <<thread, queue, sends>>,
           entry'.claim = entry.claim, Softens(entry, entry'), PinsCounted(entry', reads')
    PROVE  Custody'
<1>1. Keeps(entry, entry') /\ SameCustody(entry', entry')
    BY DEF Keeps, SlotKept, Inv, SameCustody
<1> QED
    BY <1>1, EntryThen DEF MaySchedule

LEMMA ReadsKeep ==
    ASSUME Inv, Inv', Custody, NEW asking \in BOOLEAN, PinRead \/ EndRead \/ DropLease(asking)
    PROVE  Custody'
<1>1. /\ entry \in Entries /\ entry.pins \in Nat /\ entry.leases \in Nat /\ reads \in Nat
      /\ PinsCounted(entry, reads)
    BY Facts, EntryTyped DEF Custody, Inv, RestInv
<1>2. CASE PinRead
    <2>1. /\ entry' = [entry EXCEPT !.reader = TRUE, !.pins = @ + 1] /\ reads' = reads + 1
          /\ entry.leases # 0 /\ (entry.reader \/ InHandOf(entry))
          /\ UNCHANGED <<thread, queue, sends>>
        BY <1>1, <1>2 DEF PinRead, Channel
    <2>2. Softens(entry, entry') /\ entry'.pins = entry.pins + 1
          /\ entry'.pinned_leg = entry.pinned_leg /\ entry'.claim = entry.claim
        BY <1>1, <2>1 DEF Softens, Entries
    <2>3. PinsCounted(entry', reads')
        BY <1>1, <2>1, <2>2 DEF PinsCounted
    <2> QED
        BY <2>1, <2>2, <2>3, CountsKeep
<1>3. CASE EndRead
    <2>1. /\ entry' = Unpin(entry) /\ reads' = reads - 1 /\ reads > 0
          /\ UNCHANGED <<thread, queue, sends>>
        BY <1>3 DEF EndRead, Channel
    <2>2. entry.pins > 0 /\ entry.pins # 0
        BY <1>1, <2>1 DEF PinsCounted
    <2>3. Softens(entry, entry') /\ entry'.pins = entry.pins - 1
          /\ entry'.pinned_leg = entry.pinned_leg /\ entry'.claim = entry.claim
        BY <1>1, <2>1, <2>2 DEF Softens, Unpin, Entries
    <2>4. PinsCounted(entry', reads')
        BY <1>1, <2>1, <2>3 DEF PinsCounted
    <2> QED
        BY <2>1, <2>3, <2>4, CountsKeep
<1>4. CASE DropLease(asking)
    <2>1. /\ entry' = GiveBackDemand(entry, asking) /\ entry.leases # 0
          /\ UNCHANGED <<thread, queue, sends, reads>>
        BY <1>1, <1>4 DEF DropLease, Channel
    <2>2. Softens(entry, entry') /\ entry'.pins = entry.pins
          /\ entry'.pinned_leg = entry.pinned_leg /\ entry'.claim = entry.claim
        BY <1>1, <2>1 DEF Softens, GiveBackDemand, Entries
    <2>3. PinsCounted(entry', reads')
        BY <1>1, <2>1, <2>2 DEF PinsCounted
    <2> QED
        BY <2>1, <2>2, <2>3, CountsKeep
<1> QED
    BY <1>2, <1>3, <1>4

LEMMA RecordDemandFields ==
    ASSUME NEW s \in Entries, NEW asks
    PROVE  LET p == RecordDemand(s, asks)
           IN  /\ p.coverage = s.coverage /\ p.reader = s.reader
               /\ p.pins = s.pins /\ p.pinned_leg = s.pinned_leg
               /\ p.detach_in_flight = s.detach_in_flight
               /\ s.detach_scheduled /\ ~s.detach_in_flight =>
                      p.claim = OpenGate(Invalidate(s.claim)) /\ ~p.detach_scheduled
               /\ ~(s.detach_scheduled /\ ~s.detach_in_flight) =>
                      p.claim = s.claim /\ p.detach_scheduled = s.detach_scheduled
<1> DEFINE asked == [s EXCEPT
            !.leases = @ + 1,
            !.recovery_demands = IF asks /\ s.recovery_required THEN @ + 1 ELSE @,
            !.detach_due = FALSE]
           taken == [OpenClaim(InvalidateClaim(asked)) EXCEPT !.detach_scheduled = FALSE]
<1>1. /\ asked.claim = s.claim /\ asked.coverage = s.coverage /\ asked.reader = s.reader
      /\ asked.pins = s.pins /\ asked.pinned_leg = s.pinned_leg
      /\ asked.detach_in_flight = s.detach_in_flight
      /\ asked.detach_scheduled = s.detach_scheduled
      /\ DOMAIN asked = DOMAIN s
    BY DEF Entries
<1>2. RecordDemand(s, asks) = IF s.detach_scheduled /\ ~s.detach_in_flight THEN taken ELSE asked
    BY DEF RecordDemand
<1> HIDE DEF asked
<1>3. /\ taken.claim = OpenGate(Invalidate(asked.claim)) /\ taken.coverage = asked.coverage
      /\ taken.reader = asked.reader /\ taken.pins = asked.pins
      /\ taken.pinned_leg = asked.pinned_leg
      /\ taken.detach_in_flight = asked.detach_in_flight /\ taken.detach_scheduled = FALSE
    BY <1>1 DEF OpenClaim, InvalidateClaim, Entries
<1> HIDE DEF taken
<1> QED
    BY <1>1, <1>2, <1>3

LEMMA DemandKeepsFlag ==
    ASSUME NEW s \in Entries PROVE ScheduleDemand(s).detach_scheduled = s.detach_scheduled
<1>1. ASSUME NEW trust, NEW work
      PROVE  /\ ScheduleJob(SetTrust(s, trust), work).detach_scheduled = s.detach_scheduled
             /\ ScheduleJob(s, work).detach_scheduled = s.detach_scheduled
    BY DEF ScheduleJob, SetTrust, Entries
<1> QED
    BY <1>1 DEF ScheduleDemand, PublishPendingReconcile

\* A demand recorded over the entry as the custody reads it, and the work it asks
\* for.
LEMMA DemandThen ==
    ASSUME Inv, Inv', Custody, LeavesLegsBe, UNCHANGED <<thread, queue, sends, reads>>,
           NEW bare \in Entries, SameCustody(entry, bare), NEW asks \in BOOLEAN,
           NEW p \in Entries, SameCustody(RecordDemand(bare, asks), p), Grows(entry, p),
           \/ entry' = p
           \/ Schedulable(p) /\ entry' = ScheduleDemand(p)
    PROVE  Custody'
<1>1. /\ p.coverage = entry.coverage /\ p.reader = entry.reader
      /\ p.pins = entry.pins /\ p.pinned_leg = entry.pinned_leg
      /\ p.detach_in_flight = entry.detach_in_flight
      /\ entry.detach_scheduled /\ ~entry.detach_in_flight =>
             p.claim = OpenGate(Invalidate(entry.claim)) /\ ~p.detach_scheduled
      /\ ~(entry.detach_scheduled /\ ~entry.detach_in_flight) =>
             p.claim = entry.claim /\ p.detach_scheduled = entry.detach_scheduled
    BY RecordDemandFields DEF SameCustody
<1>2. MaySchedule(p, entry') /\ entry'.detach_scheduled = p.detach_scheduled
    <2>1. CASE entry' = p
        BY <2>1 DEF MaySchedule, SameCustody
    <2>2. CASE Schedulable(p) /\ entry' = ScheduleDemand(p)
        BY <2>2, DemandSchedules, DemandKeepsFlag DEF MaySchedule, Schedulable, IsHeld
    <2> QED
        BY <2>1, <2>2
<1>3. Settled(entry) /\ PinsCounted(entry, reads) /\ entry \in Entries
    BY Facts DEF Custody
<1>4. CASE ~(entry.detach_scheduled /\ ~entry.detach_in_flight)
    <2>1. Softens(entry, p) /\ PinsCounted(p, reads')
        BY <1>1, <1>3, <1>4 DEF Softens, PinsCounted
    <2>2. Keeps(entry, p)
        BY <1>1, <1>4 DEF Grows, Keeps
    <2> QED
        BY <1>2, <2>1, <2>2, EntryThen
<1>5. CASE entry.detach_scheduled /\ ~entry.detach_in_flight
    <2>1. /\ p.claim.epoch = entry.claim.epoch + 1 /\ p.claim.leg = entry.claim.leg
          /\ p.claim.gate = "open" /\ entry.claim.epoch \in Nat
        <3>1. entry.claim \in Claims /\ Invalidate(entry.claim) \in Claims
            BY <1>3, InvalidateFields DEF Entries
        <3>2. p.claim = OpenGate(Invalidate(entry.claim))
            BY <1>1, <1>5
        <3> QED
            BY <3>1, <3>2, InvalidateFields, GateFields DEF ClaimIs, Claims
    <2>2. \A u \in Threads : Registers(entry, thread[u]) /\ entry.claim.gate = "held" =>
              thread[u].job.kind = "Detach" \/ thread[u].next # NoJob
        <3>1. ~entry'.detach_scheduled
            BY <1>1, <1>2, <1>5
        <3>2. \A u \in Threads : Registered(u) /\ entry.claim.gate = "held" =>
                  KindOf(u) = "Detach" \/ thread[u].next # NoJob
            BY <1>5, <3>1 DEF LeavesLegsBe
        <3> QED
            BY <3>2 DEF Registered, Runs, At, Registers, LegsRun, LegFor, LegOf, KindOf, EpochOf
    <2>3. ASSUME NEW u \in Threads
          PROVE  /\ ~Holds(thread[u])
                 /\ OutWithLeg(entry.coverage) => ~Custodian(entry, thread[u])
        <3> DEFINE r == thread[u]
        <3>1. /\ Shape(u, r) /\ Stand(entry, r)
              /\ Registers(entry, r) /\ entry.claim.gate = "held" =>
                     r.job.kind = "Detach" \/ r.next # NoJob
            BY <2>2 DEF Custody, ThreadsStand
        <3> HIDE DEF r
        <3>2. ~Holds(r)
            BY <1>5, <3>1 DEF Stand, HoldsStand, Holds, Shape
        <3>3. ~Closes(r)
            BY <1>5, <3>1 DEF Stand, CloseStand
        <3>4. OutWithLeg(entry.coverage) => entry.claim.gate = "held"
            BY <1>3, <1>5 DEF Settled
        <3> QED
            BY <3>1, <3>2, <3>3, <3>4 DEF Custodian, Shape, r
    <2>4. ~OutWithLeg(entry.coverage)
        BY <2>3 DEF Custody, Answered
    <2>5. Superseded(entry, p)
        BY <1>1, <1>5, <2>1, <2>4 DEF Superseded
    <2>6. PICK t \in Threads : \A v \in Threads \ {t} : ~Engaged(entry, thread[v])
        <3>1. Dispatcher \in Threads
            BY DEF Threads
        <3> QED
            BY <3>1 DEF Custody, OneEngaged
    <2>7. /\ Shape(t, thread[t]) /\ Stand(entry, thread[t]) /\ Answers(entry, thread[t])
          /\ Reached(entry, thread[t])
        BY <2>6, SoleOf, ReachedIs
    <2>8. Sole(t, p, thread[t], reads) /\ ~NewWork(p, thread[t])
        BY <1>3, <2>3, <2>5, <2>7, SupersededSole
    <2>9. Reached(p, thread[t])
        BY <2>1, <2>7 DEF Reached
    <2>10. /\ Sole(t, entry', thread[t], reads)
           /\ entry'.claim.epoch >= p.claim.epoch /\ entry'.claim.leg = p.claim.leg
        BY <1>2, <2>8, <2>9, ScheduledSole
    <2>11. /\ entry.claim.epoch' > entry.claim.epoch /\ entry.claim.epoch' >= entry.claim.epoch
           /\ entry.claim.leg' = entry.claim.leg /\ entry.claim.epoch' \in Nat
        <3>1. entry'.claim.epoch \in Nat
            BY SoundEpoch DEF Inv
        <3> QED
            BY <2>1, <2>10, <3>1
    <2>12. \A u \in Threads \ {t} : Quiet(u)
        BY <2>6, <2>11, QuietUnchanged DEF LegSpares
    <2>13. thread'[t].job.epoch # entry.claim.epoch'
        BY <2>1, <2>7, <2>11 DEF Reached
    <2> QED
        BY <2>6, <2>10, <2>11, <2>12, <2>13, SoleStep
<1> QED
    BY <1>4, <1>5

LEMMA DemandEntryKeeps ==
    ASSUME Inv, Inv', Custody, LeavesLegsBe, NEW retry \in BOOLEAN, DemandEntry(retry)
    PROVE  Custody'
<1> DEFINE flag == entry.contended /\ ~retry
           bare == [entry EXCEPT !.contended = flag]
           asked == RecordDemand(bare, TRUE)
           settled == IF asked.contended THEN asked ELSE RetireRegistryParks(asked)
<1>1. flag \in BOOLEAN /\ UNCHANGED <<thread, queue, sends, reads>>
    BY Facts DEF Entries, DemandEntry, Channel
<1>2. entry' = settled \/ (Schedulable(asked) /\ entry' = ScheduleDemand(settled))
    BY DEF DemandEntry
<1> HIDE DEF flag
<1>3. bare \in Entries /\ SameCustody(entry, bare) /\ Keeps(entry, bare)
    BY <1>1, Facts, FlagsMoved, AlikeKeeps DEF SameCustody, Entries
<1> HIDE DEF bare
<1>4. Grows(bare, asked)
    BY <1>3, RecordDemandGrows DEF Keeps
<1>5. Grows(entry, asked) /\ asked \in Entries
    BY <1>3, <1>4, Facts, SoundSteps DEF Grows, Sound
<1> HIDE DEF asked
<1>6. /\ Grows(entry, settled) /\ settled \in Entries /\ SameCustody(asked, settled)
      /\ settled.trust = asked.trust
    <2>1. Grows(entry, settled)
        BY <1>5, Facts, FlagsAlike, ThenAlike DEF Grows, Sound
    <2>2. SameCustody(asked, settled) /\ settled.trust = asked.trust
        BY <1>5 DEF RetireRegistryParks, SameCustody, Entries
    <2> QED
        BY <2>1, <2>2 DEF Grows, Sound
<1> HIDE DEF settled
<1>7. entry' = settled \/ (Schedulable(settled) /\ entry' = ScheduleDemand(settled))
    BY <1>2, <1>6 DEF Schedulable, SameCustody
<1> QED
    BY <1>1, <1>3, <1>6, <1>7, DemandThen DEF asked

LEMMA BeginQueryReadKeeps ==
    ASSUME Inv, Inv', Custody, LeavesLegsBe, BeginQueryRead PROVE Custody'
<1> DEFINE asks == ~entry.awaits
           asked == RecordDemand(entry, asks)
<1>1. asks \in BOOLEAN /\ UNCHANGED <<thread, queue, sends, reads>>
    BY Facts DEF Entries, BeginQueryRead, Channel
<1>2. entry' = asked \/ (Schedulable(asked) /\ entry' = ScheduleDemand(asked))
    BY DEF BeginQueryRead
<1> HIDE DEF asks
<1>3. Grows(entry, asked) /\ asked \in Entries
    BY <1>1, Facts, RecordDemandGrows DEF Grows, Sound
<1>4. SameCustody(entry, entry) /\ SameCustody(asked, asked) /\ entry \in Entries
    BY Facts DEF SameCustody
<1> QED
    BY <1>1, <1>2, <1>3, <1>4, DemandThen

----------------------------------------------------------------------------
(* Every step                                                              *)

LEMMA WorkerKeeps ==
    ASSUME Inv, Inv', Custody, HandOffTakesAFreeSlot, NEW w \in Workers, WorkerStep(w)
    PROVE  Custody'
BY ReceiveKeeps, ReceiveStaleKeeps, BeginLegKeeps, BegunStaleKeeps, BeginAttachKeeps,
   AttachRefusedKeeps, AttachConflictKeeps, AttachOverKeeps, AttachSucceedsKeeps,
   AttachWithheldKeeps, AttachFailsKeeps, LosesClaimKeeps, TakesCoverageKeeps,
   RecoverRefusedAtOnceKeeps, WorkedStaleKeeps, RecoverUnpinsKeeps, RecoverRefusedKeeps,
   RecoverFindsMovedKeeps, TurnLosesLockKeeps,
   TurnFailsKeeps, TurnFindsDamageKeeps, RecoverSucceedsKeeps, RebuildSucceedsKeeps,
   LegWithheldKeeps, RebuildFailsKeeps, ReconcileSucceedsKeeps, MaintenanceSucceedsKeeps,
   BeginDetachKeeps, HandOffToKeeps, EndsByReleasingKeeps, EndsByClosingKeeps, CloseLegKeeps
DEF WorkerStep

LEMMA DispatcherKeeps == ASSUME Inv, Inv', Custody, DispatcherStep PROVE Custody'
BY ReapKeeps, BeginWatcherPollKeeps, PollFindsNothingKeeps, PollFindsFactsKeeps,
   PollLosesLockKeeps, PollFailsKeeps, PollFindsDamageKeeps, PollStaleKeeps,
   StalePollGivesBackKeeps, CloseStalePollKeeps
DEF DispatcherStep

LEMMA AnyThreadKeeps ==
    ASSUME Inv, Inv', Custody, NEW t \in Threads, AnyThreadStep(t) PROVE Custody'
BY FinishReleaseKeeps, ReturnCoverageKeeps, SendFollowupKeeps, RefuseFollowupKeeps,
   ClassifyClearKeeps, ClassifyRefusedKeeps, GiveBackLostKeeps, UnwindKeeps, ReclaimKeeps,
   FinishReclaimKeeps, WithdrawAfterReclaimKeeps
DEF AnyThreadStep

LEMMA ClientKeeps ==
    ASSUME Inv, Inv', Custody, LeavesLegsBe, ClientStep PROVE Custody'
BY DemandEntryKeeps, BeginQueryReadKeeps, ReadsKeep, ReadMeetsDamageKeeps, AskMaintenanceKeeps
DEF ClientStep

LEMMA StepKeepsCustody ==
    ASSUME Inv, Inv', Custody, [SparingNext]_vars PROVE Custody'
<1>1. ASSUME SparingNext PROVE Custody'
    <2>1. Next /\ HandOffTakesAFreeSlot /\ LeavesLegsBe
        BY <1>1 DEF SparingNext
    <2>2. ASSUME NEW w \in Workers, WorkerStep(w) PROVE Custody'
        BY <2>1, <2>2, WorkerKeeps
    <2>3. CASE DispatcherStep
        BY <2>3, DispatcherKeeps
    <2>4. CASE RegistrarStep(Registrar)
        BY <2>4, RegistrarRefusesKeeps, RegistrarReclassifiesKeeps, RegistrarSettlesKeeps
        DEF RegistrarStep
    <2>5. ASSUME NEW t \in Threads, AnyThreadStep(t) PROVE Custody'
        BY <2>5, AnyThreadKeeps
    <2>6. CASE MarkedStep
        BY <2>6, TakeMarkedKeeps, SendMarkedKeeps, RefuseMarkedKeeps DEF MarkedStep
    <2>7. CASE ClientStep
        BY <2>1, <2>7, ClientKeeps
    <2> QED
        BY <2>1, <2>2, <2>3, <2>4, <2>5, <2>6, <2>7 DEF Next
<1>2. CASE UNCHANGED vars
    <2>1. UNCHANGED <<thread, queue, sends, entry>> /\ entry'.claim = entry.claim
          /\ Softens(entry, entry') /\ PinsCounted(entry', reads')
        BY <1>2 DEF vars, Softens, Custody
    <2> QED
        BY <2>1, CountsKeep
<1> QED
    BY <1>1, <1>2

LEMMA InitCustody == Init => Custody
<1> SUFFICES ASSUME Init PROVE Custody
    OBVIOUS
<1>1. /\ entry.claim.epoch = 0 /\ entry.claim.gate = "open" /\ entry.claim.leg = NoLeg
      /\ entry.coverage = NoCoverage /\ ~entry.reader /\ ~entry.detach_in_flight
      /\ entry.pins = 0 /\ entry.pinned_leg = NoLeg /\ reads = 0
      /\ queue = <<>> /\ sends = {}
    BY DEF Init, Unattached, StartingAt
<1>2. \A t \in Threads : thread[t] = Idle
    BY DEF Init
<1>3. ThreadsStand
    BY <1>2, IdleIs DEF ThreadsStand
<1>4. Settled(entry) /\ PinsCounted(entry, reads)
    BY <1>1 DEF Settled, PinsCounted, NoCoverage, OutWithLeg, InHandOf, InHand
<1>5. /\ \A t \in Threads : ~Engaged(entry, thread[t]) /\ ~LegsRun(thread[t])
      /\ ~InQueue /\ ~InSends
    BY <1>1, <1>2, IdleIs DEF InQueue, InSends
<1>6. OneEngaged /\ Unused
    BY <1>5 DEF OneEngaged, Unused
<1>7. ChannelStands
    BY <1>1, <1>5 DEF ChannelStands, ChannelSent
<1>8. Answered
    BY <1>1 DEF Answered, Running, OutWithLeg, NoCoverage
<1> QED
    BY <1>3, <1>4, <1>6, <1>7, <1>8 DEF Custody

----------------------------------------------------------------------------
(* The queue slot                                                          *)

\* A taken slot names a job that is on its way.
SlotAnswered == SlotTaken(entry.claim) => \E job \in InFlight : job.epoch = entry.claim.slot

OthersStay(t) == \A u \in Threads \ {t} : thread'[u] = thread[u]

\* A step of a thread that carries no job leaves on its way what is.
Light(t) ==
    /\ thread[t].pc \notin {"received", "sending"}
    /\ OthersStay(t) /\ UNCHANGED Channel

LEMMA OneMoves ==
    ASSUME Inv, NEW t \in Threads,
           \/ \E pc, held : Goes(t, pc, held)
           \/ Rests(t) \/ Resumes(t)
           \/ \E next : HandsOn(t, next)
           \/ \E held, epoch, after : GoesReleasing(t, held, epoch, after)
           \/ \E r : thread' = [thread EXCEPT ![t] = r]
    PROVE  OthersStay(t)
<1>1. \E r : thread' = [thread EXCEPT ![t] = r]
    BY DEF Goes, Rests, Resumes, HandsOn, GoesReleasing
<1> QED
    BY <1>1 DEF OthersStay, Inv, ThreadInv

LEMMA OneMeets ==
    ASSUME Inv, NEW t \in Threads, NEW s, NEW held, NEW after,
           \/ MeetsConflict(t, held, after) \/ MeetsGiveBack(s, t, held, after)
           \/ MeetsIdentityRefusal(s, t, held, after)
    PROVE  OthersStay(t)
<1>1. MeetsConflict(t, held, after) => OthersStay(t)
    BY OneMoves DEF MeetsConflict
<1>2. ASSUME NEW q, MeetsGiveBack(q, t, held, after) PROVE OthersStay(t)
    BY <1>2, OneMoves DEF MeetsGiveBack
<1> QED
    BY <1>1, <1>2 DEF MeetsIdentityRefusal

LEMMA LightKeepsFlight ==
    ASSUME Custody, NEW t \in Threads, Light(t)
    PROVE  InFlight \subseteq InFlight'
<1>1. thread[t].followup = NoJob /\ thread[t].pc # "received"
    BY DEF Light, Custody, ThreadsStand, Shape
<1>2. queue' = queue /\ sends' = sends /\ \A u \in Threads \ {t} : thread'[u] = thread[u]
    BY DEF Light, Channel, OthersStay
<1> SUFFICES ASSUME NEW job \in InFlight PROVE job \in InFlight'
    OBVIOUS
<1>3. CASE job \in Range(queue) \cup sends
    BY <1>2, <1>3 DEF InFlight
<1>4. ASSUME NEW u \in Threads, job = thread[u].followup PROVE job \in InFlight'
    <2>1. u # t
        BY <1>1, <1>4 DEF InFlight
    <2> QED
        BY <1>2, <1>4, <2>1 DEF InFlight
<1>5. ASSUME NEW u \in Threads, At(u, "received"), job = thread[u].job PROVE job \in InFlight'
    <2>1. u # t
        BY <1>1, <1>5 DEF At
    <2> QED
        BY <1>2, <1>5, <2>1 DEF InFlight, At
<1> QED
    BY <1>3, <1>4, <1>5 DEF InFlight

LEMMA WorkerIsLight ==
    ASSUME Inv, NEW w \in Workers, WorkerStep(w),
           ~Receive(w), ~ReceiveStale(w), ~BeginLeg(w)
    PROVE  w \in Threads /\ Light(w)
<1>1. w \in Threads
    BY DEF Threads
<1>2. CASE BegunStale(w) \/ BeginAttach(w) \/ AttachRefused(w) \/ AttachConflict(w)
           \/ AttachMoved(w) \/ AttachStale(w)
    BY <1>1, <1>2, OneMoves, OneMeets DEF BegunStale, BeginAttach, AttachRefused,
       AttachConflict, AttachMoved, AttachStale, Light, At, Channel
<1>3. CASE AttachSucceeds(w) \/ AttachWithheld(w) \/ AttachFails(w)
    BY <1>1, <1>3, OneMoves DEF AttachSucceeds, AttachWithheld, AttachFails, Light, At, Channel
<1>4. CASE LosesClaim(w) \/ TakesCoverage(w) \/ RecoverRefusedAtOnce(w) \/ WorkedStale(w)
           \/ RecoverUnpins(w) \/ RecoverRefused(w) \/ RecoverFindsMoved(w)
    BY <1>1, <1>4, OneMoves, OneMeets DEF LosesClaim, TakesCoverage, RecoverRefusedAtOnce,
       WorkedStale, RecoverUnpins, RecoverRefused, RecoverFindsMoved, Light, At, Channel
<1>5. CASE TurnLosesLock(w) \/ TurnFails(w) \/ TurnFindsDamage(w)
    BY <1>1, <1>5, OneMoves DEF TurnLosesLock, TurnFails, TurnFindsDamage, Light, At, Channel
<1>6. CASE RecoverSucceeds(w) \/ RebuildSucceeds(w)
    BY <1>1, <1>6, OneMoves DEF RecoverSucceeds, RebuildSucceeds, HandsOnDamage, HandsOnTo,
       HandsOnDueDetach, Light, At, Channel
<1>7. CASE LegWithheld(w) \/ RebuildFails(w)
    BY <1>1, <1>7, OneMoves DEF LegWithheld, RebuildFails, HandsOnDueDetach, Light, At, Channel
<1>8. CASE ReconcileSucceeds(w) \/ MaintenanceSucceeds(w)
    BY <1>1, <1>8, OneMoves DEF ReconcileSucceeds, MaintenanceSucceeds, HandsOnDamage,
       HandsOnTo, HandsOnDueDetach, Light, At, Channel
<1>9. CASE BeginDetach(w) \/ HandOffTo(w) \/ EndsByReleasing(w) \/ EndsByClosing(w) \/ CloseLeg(w)
    BY <1>1, <1>9, OneMoves DEF BeginDetach, HandOffTo, EndsByReleasing, EndsByClosing,
       CloseLeg, Light, At, Channel
<1> QED
    BY <1>2, <1>3, <1>4, <1>5, <1>6, <1>7, <1>8, <1>9 DEF WorkerStep

LEMMA DispatcherIsLight ==
    ASSUME Inv, DispatcherStep
    PROVE  \/ Light(Dispatcher)
           \/ UNCHANGED <<thread, queue, sends>>
<1>1. Dispatcher \in Threads
    BY DEF Threads
<1>2. CASE Reap
    BY <1>2 DEF Reap, Channel
<1>3. CASE BeginWatcherPoll \/ PollFindsNothing \/ PollFindsFacts \/ PollLosesLock
    BY <1>1, <1>3, OneMoves DEF BeginWatcherPoll, PollFindsNothing, PollFindsFacts,
       PollLosesLock, PollStands, Light, At, Channel
<1>4. CASE PollFails \/ PollFindsDamage \/ PollStale \/ StalePollGivesBack \/ CloseStalePoll
    BY <1>1, <1>4, OneMoves DEF PollFails, PollFindsDamage, PollStale, StalePollGivesBack,
       CloseStalePoll, PollStands, Light, At, Channel
<1> QED
    BY <1>2, <1>3, <1>4 DEF DispatcherStep

LEMMA RegistrarIsLight ==
    ASSUME Inv, RegistrarStep(Registrar) PROVE Light(Registrar)
<1>1. Registrar \in Threads
    BY DEF Threads
<1> QED
    BY <1>1, OneMoves, OneMeets DEF RegistrarStep, RegistrarRefuses, RegistrarReclassifies,
       RegistrarSettles, Light, At, Channel

LEMMA AnyThreadIsLight ==
    ASSUME Inv, NEW t \in Threads, AnyThreadStep(t), ~SendFollowup(t), ~RefuseFollowup(t)
    PROVE  Light(t)
<1>1. CASE FinishRelease(t) \/ ReturnCoverage(t) \/ ClassifyClear(t) \/ ClassifyRefused(t)
    BY <1>1, OneMoves, OneMeets DEF FinishRelease, ReturnCoverage, ClassifyClear,
       ClassifyRefused, Light, At, Channel
<1>2. CASE GiveBackLost(t) \/ Unwind(t) \/ Reclaim(t) \/ FinishReclaim(t) \/ WithdrawAfterReclaim(t)
    BY <1>2, OneMoves, OneMeets DEF GiveBackLost, Unwind, Reclaim, FinishReclaim,
       WithdrawAfterReclaim, Light, At, Channel
<1> QED
    BY <1>1, <1>2 DEF AnyThreadStep

\* A job on its way that a step does not begin, drop or refuse stays on its way.
Spares(job) == \A other \in InFlight : other.epoch # job.epoch => other \in InFlight'

LEMMA BeginsFreely ==
    ASSUME Inv, Custody, NEW w \in Workers, ReceiveStale(w) \/ BeginLeg(w)
    PROVE  /\ Spares(thread[w].job)
           /\ thread[w].job.epoch # 0 => entry.claim.slot' # thread[w].job.epoch
<1> DEFINE r == thread[w]
           freed == FreeSlot(entry.claim, EpochOf(w))
<1>1. /\ w \in Threads /\ r.pc = "received" /\ EpochOf(w) = r.job.epoch
      /\ OthersStay(w) /\ queue' = queue /\ sends' = sends
    BY OneMoves DEF ReceiveStale, BeginLeg, At, Channel, EpochOf, Threads
<1>2. r.followup = NoJob
    BY <1>1 DEF Custody, ThreadsStand, Shape
<1>3. ASSUME NEW other \in InFlight, other.epoch # r.job.epoch PROVE other \in InFlight'
    <2>1. CASE other \in Range(queue) \cup sends
        BY <1>1, <2>1 DEF InFlight
    <2>2. ASSUME NEW u \in Threads, other = thread[u].followup PROVE other \in InFlight'
        <3>1. u # w
            BY <1>2, <2>2 DEF InFlight
        <3> QED
            BY <1>1, <2>2, <3>1 DEF InFlight, OthersStay
    <2>3. ASSUME NEW u \in Threads, At(u, "received"), other = thread[u].job
          PROVE  other \in InFlight'
        <3>1. u # w
            BY <1>3, <2>3
        <3> QED
            BY <1>1, <2>3, <3>1 DEF InFlight, OthersStay, At
    <2> QED
        BY <2>1, <2>2, <2>3 DEF InFlight
<1>4. ASSUME r.job.epoch # 0 PROVE entry.claim.slot' # r.job.epoch
    <2>1. /\ EpochOf(w) \in 0..entry.claim.epoch /\ ClaimSound(entry.claim) /\ entry \in Entries
        BY <1>1, Facts, ThreadFacts
    <2>2. ClaimSound(freed) /\ freed \in Claims /\ freed.slot # r.job.epoch
        BY <1>1, <1>4, <2>1, SlotMovesStay DEF Stays, ClaimSound
    <2>3. /\ DropMarker(freed).slot = freed.slot
          /\ BeginJobLeg(freed, EpochOf(w)).slot = freed.slot
        <3> HIDE DEF freed
        <3> QED
            BY <2>2 DEF DropMarker, SetGate, BeginJobLeg, Claims
    <2>4. entry.claim' \in {freed, DropMarker(freed), BeginJobLeg(freed, EpochOf(w))}
        BY <2>1 DEF ReceiveStale, BeginLeg, Entries
    <2> QED
        BY <2>2, <2>3, <2>4
<1> QED
    BY <1>3, <1>4 DEF Spares

\* A refused send frees its slot.
LEMMA RefusesFreely ==
    ASSUME Inv, Custody
    PROVE  /\ \A t \in Threads : RefuseFollowup(t) =>
                  /\ Spares(thread[t].followup)
                  /\ thread[t].followup.epoch # 0 =>
                         entry.claim.slot' # thread[t].followup.epoch
           /\ \A job \in sends : RefuseMarked(job) =>
                  Spares(job) /\ (job.epoch # 0 => entry.claim.slot' # job.epoch)
<1>1. ASSUME NEW t \in Threads, RefuseFollowup(t)
      PROVE  /\ Spares(thread[t].followup)
             /\ thread[t].followup.epoch # 0 => entry.claim.slot' # thread[t].followup.epoch
    <2> DEFINE next == thread[t].followup
               freed == FreeSlot(entry.claim, next.epoch)
    <2>1. /\ OthersStay(t) /\ queue' = queue /\ sends' = sends /\ thread[t].pc = "sending"
        BY <1>1, OneMoves DEF RefuseFollowup, At, Channel
    <2>2. Spares(next)
        <3> SUFFICES ASSUME NEW other \in InFlight, other.epoch # next.epoch
                     PROVE  other \in InFlight'
            BY DEF Spares
        <3>1. CASE other \in Range(queue) \cup sends
            BY <2>1, <3>1 DEF InFlight
        <3>2. ASSUME NEW u \in Threads, other = thread[u].followup PROVE other \in InFlight'
            BY <2>1, <3>2 DEF InFlight, OthersStay
        <3>3. ASSUME NEW u \in Threads, At(u, "received"), other = thread[u].job
              PROVE  other \in InFlight'
            BY <2>1, <3>3 DEF InFlight, OthersStay, At
        <3> QED
            BY <3>1, <3>2, <3>3 DEF InFlight
    <2>3. ASSUME next.epoch # 0 PROVE entry.claim.slot' # next.epoch
        <3>1. /\ next.epoch \in 0..entry.claim.epoch /\ ClaimSound(entry.claim)
              /\ entry \in Entries
            BY Facts, ThreadFacts
        <3>2. freed \in Claims /\ freed.slot # next.epoch
            BY <2>3, <3>1, SlotMovesStay DEF Stays, ClaimSound
        <3>3. entry.claim' \in {freed, Mark(freed, next)}
            BY <1>1, <3>1 DEF RefuseFollowup, Entries
        <3>4. Mark(freed, next).slot = freed.slot
            <4> HIDE DEF freed
            <4> QED
                BY <3>2 DEF Mark, SetMarker, Claims
        <3> QED
            BY <3>2, <3>3, <3>4
    <2> QED
        BY <2>2, <2>3
<1>2. ASSUME NEW job \in sends, RefuseMarked(job)
      PROVE  Spares(job) /\ (job.epoch # 0 => entry.claim.slot' # job.epoch)
    <2>1. /\ thread' = thread /\ queue' = queue /\ sends' = sends \ {job}
          /\ entry' = [entry EXCEPT !.claim = FreeSlot(entry.claim, job.epoch)]
        BY <1>2 DEF RefuseMarked
    <2>2. Spares(job)
        BY <2>1 DEF Spares, InFlight, At
    <2>3. job.epoch \in 0..entry.claim.epoch /\ ClaimSound(entry.claim) /\ entry \in Entries
        BY Facts DEF Inv, ChannelInv
    <2>4. entry.claim' = FreeSlot(entry.claim, job.epoch)
        BY <2>1, <2>3 DEF Entries
    <2> QED
        BY <2>2, <2>3, <2>4, SlotMovesStay
<1> QED
    BY <1>1, <1>2

\* What the channel takes, and what a worker takes from it, stays on its way.
LEMMA ChannelKeepsFlight ==
    ASSUME Inv, Custody,
           \/ \E w \in Workers : Receive(w)
           \/ \E t \in Threads : SendFollowup(t)
           \/ \E job \in sends : SendMarked(job)
    PROVE  InFlight \subseteq InFlight'
<1>1. queue \in Seq(Jobs)
    BY DEF Inv, ChannelInv
<1>2. ASSUME NEW w \in Workers, Receive(w) PROVE InFlight \subseteq InFlight'
    <2>1. /\ w \in Threads /\ OthersStay(w) /\ sends' = sends /\ queue # <<>>
          /\ queue' = Tail(queue) /\ thread[w].pc = "idle"
          /\ thread'[w] = [Idle EXCEPT !.pc = "received", !.job = Head(queue)]
        BY <1>2, OneMoves DEF Receive, At, Threads, Inv, ThreadInv
    <2>2. thread'[w].pc = "received" /\ thread'[w].job = Head(queue)
        BY <2>1 DEF Idle
    <2>3. thread[w].followup = NoJob
        BY <2>1 DEF Custody, ThreadsStand, Shape
    <2> SUFFICES ASSUME NEW other \in InFlight PROVE other \in InFlight'
        OBVIOUS
    <2>4. ASSUME NEW i \in DOMAIN queue, other = queue[i] PROVE other \in InFlight'
        <3>1. CASE i = 1
            <4>1. other = Head(queue)
                BY <1>1, <2>1, <2>4, <3>1, HeadTailProperties
            <4> QED
                BY <2>1, <2>2, <4>1 DEF InFlight, At
        <3>2. CASE i # 1
            <4>1. /\ i \in 1..Len(queue) /\ Len(queue) \in Nat
                BY <1>1, LenProperties
            <4>2. /\ Tail(queue) \in Seq(Jobs) /\ Len(Tail(queue)) = Len(queue) - 1
                  /\ \A j \in 1..Len(Tail(queue)) : Tail(queue)[j] = queue[j + 1]
                BY <1>1, <2>1, HeadTailProperties
            <4>3. i - 1 \in 1..Len(Tail(queue)) /\ (i - 1) + 1 = i
                BY <3>2, <4>1, <4>2
            <4>4. Tail(queue)[i - 1] = queue[i] /\ i - 1 \in DOMAIN Tail(queue)
                BY <4>2, <4>3, LenProperties
            <4>5. other \in Range(queue')
                BY <2>1, <2>4, <4>4 DEF Range
            <4> QED
                BY <4>5 DEF InFlight
        <3> QED
            BY <3>1, <3>2
    <2>5. CASE other \in sends
        BY <2>1, <2>5 DEF InFlight
    <2>6. ASSUME NEW u \in Threads, other = thread[u].followup PROVE other \in InFlight'
        <3>1. u # w
            BY <2>3, <2>6 DEF InFlight
        <3> QED
            BY <2>1, <2>6, <3>1 DEF InFlight, OthersStay
    <2>7. ASSUME NEW u \in Threads, At(u, "received"), other = thread[u].job
          PROVE  other \in InFlight'
        <3>1. u # w
            BY <2>1, <2>7 DEF At
        <3> QED
            BY <2>1, <2>7, <3>1 DEF InFlight, OthersStay, At
    <2> QED
        BY <2>4, <2>5, <2>6, <2>7 DEF InFlight, Range
<1>3. ASSUME NEW job \in Jobs, queue' = Append(queue, job)
      PROVE  Range(queue) \subseteq Range(queue') /\ job \in Range(queue')
    <2>1. /\ Len(queue) \in Nat /\ DOMAIN queue = 1..Len(queue)
          /\ queue' \in Seq(Jobs) /\ Len(queue') = Len(queue) + 1
          /\ \A i \in 1..Len(queue) : queue'[i] = queue[i]
          /\ queue'[Len(queue) + 1] = job
        BY <1>1, <1>3, AppendProperties, LenProperties
    <2>2. DOMAIN queue' = 1..Len(queue')
        BY <2>1, LenProperties
    <2>3. /\ \A i \in DOMAIN queue : i \in DOMAIN queue' /\ queue'[i] = queue[i]
          /\ Len(queue) + 1 \in DOMAIN queue'
        BY <2>1, <2>2
    <2> QED
        BY <2>1, <2>3 DEF Range
<1>4. ASSUME NEW t \in Threads, SendFollowup(t) PROVE InFlight \subseteq InFlight'
    <2>1. /\ OthersStay(t) /\ sends' = sends /\ thread[t].pc = "sending"
          /\ queue' = Append(queue, thread[t].followup)
        BY <1>4, OneMoves DEF SendFollowup, At
    <2>2. thread[t].followup \in Jobs
        BY <2>1, ThreadFacts DEF Sends
    <2>3. Range(queue) \subseteq Range(queue') /\ thread[t].followup \in Range(queue')
        BY <1>3, <2>1, <2>2
    <2> SUFFICES ASSUME NEW other \in InFlight PROVE other \in InFlight'
        OBVIOUS
    <2>4. CASE other \in Range(queue) \cup sends
        BY <2>1, <2>3, <2>4 DEF InFlight
    <2>5. ASSUME NEW u \in Threads, other = thread[u].followup PROVE other \in InFlight'
        BY <2>1, <2>3, <2>5 DEF InFlight, OthersStay
    <2>6. ASSUME NEW u \in Threads, At(u, "received"), other = thread[u].job
          PROVE  other \in InFlight'
        BY <2>1, <2>6 DEF InFlight, OthersStay, At
    <2> QED
        BY <2>4, <2>5, <2>6 DEF InFlight
<1>5. ASSUME NEW job \in sends, SendMarked(job) PROVE InFlight \subseteq InFlight'
    <2>1. thread' = thread /\ sends' = sends \ {job} /\ queue' = Append(queue, job) /\ job \in Jobs
        BY <1>5 DEF SendMarked, Inv, ChannelInv
    <2>2. Range(queue) \subseteq Range(queue') /\ job \in Range(queue')
        BY <1>3, <2>1
    <2> QED
        BY <2>1, <2>2 DEF InFlight, At
<1> QED
    BY <1>2, <1>4, <1>5

\* A step that leaves the channel and the threads alone, or only reads.
LEMMA ClientKeepsFlight ==
    ASSUME ClientStep \/ UNCHANGED vars \/ UNCHANGED <<thread, queue, sends>>
    PROVE  InFlight' = InFlight
<1>1. UNCHANGED <<thread, queue, sends>>
    BY DEF ClientStep, DemandEntry, BeginQueryRead, PinRead, EndRead, DropLease,
       ReadMeetsDamage, AskMaintenance, Channel, vars
<1> QED
    BY <1>1 DEF InFlight, At

LEMMA StepKeepsSlot ==
    ASSUME Inv, Custody, SlotAnswered, [Next]_vars PROVE SlotAnswered'
<1>1. CASE Gives
    BY <1>1 DEF Gives, SlotAnswered
<1>2. CASE Grows(entry, entry') /\ SlotTaken(entry.claim')
    <2>1. entry.claim.slot' = entry.claim.slot /\ SlotTaken(entry.claim)
        BY <1>2 DEF Grows, SlotKept, SlotTaken
    <2>2. PICK job \in InFlight : job.epoch = entry.claim.slot
        BY <2>1 DEF SlotAnswered
    <2> SUFFICES job \in InFlight'
        BY <2>1, <2>2 DEF SlotAnswered
    <2>3. ASSUME NEW other, Spares(other), other.epoch # 0 => entry.claim.slot' # other.epoch
          PROVE  job \in InFlight'
        BY <2>1, <2>2, <2>3 DEF Spares, SlotTaken
    <2>4. ASSUME NEW w \in Workers, WorkerStep(w) PROVE job \in InFlight'
        <3>1. CASE ReceiveStale(w) \/ BeginLeg(w)
            BY <2>3, <3>1, BeginsFreely
        <3>2. CASE Receive(w)
            BY <3>2, ChannelKeepsFlight
        <3> QED
            BY <2>4, <3>1, <3>2, WorkerIsLight, LightKeepsFlight
    <2>5. ASSUME DispatcherStep PROVE job \in InFlight'
        BY <2>5, DispatcherIsLight, LightKeepsFlight, ClientKeepsFlight DEF Threads
    <2>6. ASSUME RegistrarStep(Registrar) PROVE job \in InFlight'
        BY <2>6, RegistrarIsLight, LightKeepsFlight DEF Threads
    <2>7. ASSUME NEW t \in Threads, AnyThreadStep(t) PROVE job \in InFlight'
        <3>1. CASE SendFollowup(t)
            BY <3>1, ChannelKeepsFlight
        <3>2. CASE RefuseFollowup(t)
            BY <2>3, <3>2, RefusesFreely
        <3> QED
            BY <2>7, <3>1, <3>2, AnyThreadIsLight, LightKeepsFlight
    <2>8. ASSUME MarkedStep PROVE job \in InFlight'
        <3>1. CASE TakeMarked
            BY <3>1 DEF TakeMarked, InFlight, At
        <3>2. ASSUME NEW other \in sends, RefuseMarked(other) PROVE job \in InFlight'
            BY <2>3, <3>2, RefusesFreely
        <3> QED
            BY <2>8, <3>1, <3>2, ChannelKeepsFlight DEF MarkedStep
    <2> QED
        BY <2>4, <2>5, <2>6, <2>7, <2>8, ClientKeepsFlight DEF Next
<1>3. Gives \/ Grows(entry, entry')
    BY StepPreserves DEF Preserves
<1> QED
    BY <1>1, <1>2, <1>3 DEF SlotAnswered

----------------------------------------------------------------------------
(* What custody says of the properties the runs check                      *)

LEMMA OneOrNone ==
    ASSUME NEW S, \A x, y \in S : x = y PROVE Cardinality(S) \in {0, 1}
<1>1. CASE S = {}
    BY <1>1, FS_EmptySet
<1>2. ASSUME NEW x \in S PROVE Cardinality(S) = 1
    <2>1. S = {x}
        OBVIOUS
    <2> QED
        BY <2>1, FS_Singleton
<1> QED
    BY <1>1, <1>2

\* A thread that registers its leg is one the properties call registered, and the
\* registered leg is the leg of the thread that runs it.
LEMMA RegistersIs ==
    ASSUME NEW t \in Threads
    PROVE  /\ Runs(t) <=> LegsRun(thread[t])
           /\ LegFor(thread[t]) = LegOf(t)
           /\ Registers(entry, thread[t]) => Registered(t)
           /\ Closing(t) <=> Closes(thread[t])
BY DEF Runs, LegsRun, LegFor, LegOf, At, KindOf, EpochOf, Registers, Registered, Closing, Closes

LEMMA HeldIs ==
    ASSUME Inv, Custody, NEW t \in Threads, thread[t].held
    PROVE  /\ Engaged(entry, thread[t]) /\ ~InHandOf(entry)
           /\ Holds(thread[t]) \/ Closes(thread[t])
<1> DEFINE r == thread[t]
<1>1. Shape(t, r) /\ Stand(entry, r) /\ Settled(entry)
    BY DEF Custody, ThreadsStand
<1>2. Holds(r) \/ Closes(r)
    BY <1>1 DEF Shape, Holds, Closes
<1>3. ASSUME Holds(r) PROVE Registers(entry, r) /\ ~InHandOf(entry)
    <2>1. Registers(entry, r) /\ entry.coverage \in {NoCoverage, OnLeg(r.job.epoch)}
        BY <1>1, <1>3 DEF Stand, HoldsStand
    <2> QED
        BY <2>1 DEF InHandOf, InHand, NoCoverage, OnLeg
<1>4. ASSUME Closes(r) PROVE ~InHandOf(entry)
    BY <1>1, <1>4 DEF Stand, CloseStand, Settled
<1> QED
    BY <1>2, <1>3, <1>4 DEF Engaged

LEMMA CustodyAccountsOf == Inv /\ Custody => CustodyAccounts
<1> SUFFICES ASSUME Inv, Custody PROVE CustodyAccounts
    OBVIOUS
<1> DEFINE S == {t \in Threads : thread[t].held}
<1>1. Quantify(Threads, LAMBDA t : thread[t].held) + (IF InHandOf(entry) THEN 1 ELSE 0) <= 1
    <2>1. \A t, u \in S : t = u
        BY HeldIs DEF Custody, OneEngaged
    <2>2. InHandOf(entry) => \A t \in S : FALSE
        BY HeldIs
    <2> HIDE DEF S
    <2>3. Cardinality(S) \in {0, 1} /\ (S = {} => Cardinality(S) = 0)
        BY <2>1, OneOrNone, FS_EmptySet
    <2>4. InHandOf(entry) => S = {}
        BY <2>2
    <2>5. Quantify(Threads, LAMBDA t : thread[t].held) = Cardinality(S)
        BY DEF Quantify, S
    <2> QED
        BY <2>3, <2>4, <2>5
<1>2. ASSUME NEW t \in Threads, thread[t].held, ~Builds(t), ~At(t, "reclaiming")
      PROVE  entry.coverage =
                 OnLeg(IF At(t, "releasing") \/ At(t, "returning") THEN thread[t].rel ELSE EpochOf(t))
    <2> DEFINE r == thread[t]
    <2>1. Shape(t, r) /\ Stand(entry, r) /\ (Holds(r) \/ Closes(r))
        BY <1>2, HeldIs DEF Custody, ThreadsStand
    <2>2. CASE Closes(r)
        <3>1. ~(r.pc = "releasing" /\ r.job.kind = "Attach" /\ r.rel = r.job.epoch)
            BY <1>2 DEF Builds, At, KindOf, EpochOf
        <3>2. r.pc # "reclaiming" /\ r.held /\ (At(t, "releasing") \/ At(t, "returning"))
            BY <1>2, <2>2 DEF At, Closes
        <3>3. entry.coverage = OnLeg(r.rel)
            BY <2>1, <2>2, <3>1, <3>2 DEF Stand, CloseStand
        <3> QED
            BY <3>2, <3>3
    <2>3. CASE Holds(r)
        <3>1. ~At(t, "releasing") /\ ~At(t, "returning")
            BY <2>3 DEF Holds, At
        <3>2. r.job.kind # "Attach"
            BY <1>2, <2>1, <2>3 DEF Builds, At, KindOf, Shape, Holds
        <3>3. entry.coverage = OnLeg(r.job.epoch)
            BY <2>1, <2>3, <3>2 DEF Stand, HoldsStand
        <3> QED
            BY <3>1, <3>3 DEF EpochOf
    <2> QED
        BY <2>1, <2>2, <2>3
<1>3. ASSUME OutWithLeg(entry.coverage)
      PROVE  \E t \in Threads : Runs(t) /\ entry.coverage.leg \in {EpochOf(t), thread[t].rel}
    <2>1. PICK t \in Threads : Custodian(entry, thread[t])
        BY <1>3 DEF Custody, Answered
    <2> QED
        BY <2>1 DEF Custodian, Runs, At, EpochOf, Closes, Registers, LegsRun
<1> QED
    BY <1>1, <1>2, <1>3 DEF CustodyAccounts

LEMMA PinsAccountedOf == Inv /\ Custody => PinsAccounted
<1> SUFFICES ASSUME Inv, Custody PROVE PinsAccounted
    OBVIOUS
<1>1. entry.pins = reads + (IF entry.pinned_leg = NoLeg THEN 0 ELSE 1)
    BY DEF Custody, PinsCounted
<1>2. ASSUME entry.pinned_leg # NoLeg
      PROVE  \E t \in Threads : /\ LegOf(t) = entry.pinned_leg
                                /\ At(t, "working") \/ At(t, "polling") \/ At(t, "unwound")
    <2>1. PICK t \in Threads : /\ Registers(entry, thread[t])
                               /\ thread[t].pc \in {"working", "polling", "unwound"}
        BY <1>2 DEF Custody, Answered
    <2>2. entry.claim.leg = entry.pinned_leg
        BY <1>2 DEF Custody, Settled
    <2>3. LegOf(t) = entry.pinned_leg
        BY <2>1, <2>2, RegistersIs DEF Registers
    <2> QED
        BY <2>1, <2>3 DEF At
<1> QED
    BY <1>1, <1>2 DEF PinsAccounted

LEMMA ReleaseHasOneCloserOf == Inv /\ Custody => ReleaseHasOneCloser
<1> SUFFICES ASSUME Inv, Custody PROVE ReleaseHasOneCloser
    OBVIOUS
<1>1. ASSUME entry.detach_in_flight PROVE \E t \in Threads : Closing(t) \/ Registered(t)
    BY <1>1, RegistersIs DEF Custody, Answered
<1>2. Quantify(Threads, Closing) <= 1
    <2> DEFINE S == {t \in Threads : Closing(t)}
    <2>1. \A t, u \in S : t = u
        BY RegistersIs DEF Custody, OneEngaged, Engaged
    <2> HIDE DEF S
    <2>2. Cardinality(S) \in {0, 1}
        BY <2>1, OneOrNone
    <2>3. Quantify(Threads, Closing) = Cardinality(S)
        BY DEF Quantify, S
    <2> QED
        BY <2>2, <2>3
<1>3. ASSUME NEW t \in Threads, Closing(t) PROVE entry.detach_in_flight
    BY <1>3, RegistersIs DEF Custody, ThreadsStand, Stand, CloseStand
<1> QED
    BY <1>1, <1>2, <1>3 DEF ReleaseHasOneCloser
LEMMA StandingIsCurrent ==
    ASSUME NEW job PROVE Standing(entry, job) <=> (job # NoJob /\ Current(job))
BY DEF Standing, Current, StandsAtEpoch, StandsAt

LEMMA CarriedIsInFlight ==
    ASSUME Inv, Custody, NEW t \in Threads, Carries(entry, thread[t])
    PROVE  \E job \in InFlight : Current(job)
<1> DEFINE r == thread[t]
<1>1. CASE Standing(entry, r.followup)
    BY <1>1, StandingIsCurrent DEF InFlight
<1>2. CASE r.pc = "received" /\ r.job.epoch = entry.claim.epoch
    <2>1. r.job \in Jobs
        BY <1>2 DEF Custody, ThreadsStand, Shape
    <2>2. r.job # NoJob
        BY <2>1 DEF Jobs, JobKinds, NoJob
    <2>3. r.job \in InFlight
        BY <1>2, <2>2 DEF InFlight, At
    <2>4. Current(r.job)
        BY <1>2 DEF Current, StandsAtEpoch, StandsAt
    <2> QED
        BY <2>3, <2>4
<1> QED
    BY <1>1, <1>2 DEF Carries

LEMMA GateAnsweredOf == Inv /\ Custody => GateAnswered
<1> SUFFICES ASSUME Inv, Custody PROVE GateAnswered
    OBVIOUS
<1>1. Running(entry.claim) => \E t \in Threads : Registered(t)
    BY RegistersIs DEF Custody, Answered
<1>2. ASSUME entry.claim.gate = "held", ~Running(entry.claim)
      PROVE  \E job \in InFlight : Current(job)
    <2>1. CASE InQueue
        <3>1. PICK i \in DOMAIN queue : Standing(entry, queue[i])
            BY <2>1 DEF InQueue
        <3> QED
            BY <3>1, StandingIsCurrent DEF InFlight, Range
    <2>2. CASE InSends
        BY <2>2, StandingIsCurrent DEF InFlight, InSends
    <2>3. CASE \E t \in Threads : Carries(entry, thread[t])
        BY <2>3, CarriedIsInFlight
    <2> QED
        BY <1>2, <2>1, <2>2, <2>3 DEF Custody, Answered
<1>3. entry.claim.gate = "scheduled" => Current(entry.claim.marker)
    BY StandingIsCurrent DEF Custody, Settled
<1> QED
    BY <1>1, <1>2, <1>3 DEF GateAnswered

LEMMA StandsEngaged ==
    ASSUME Inv, Custody, NEW t \in Threads,
           \/ thread[t].followup # NoJob /\ Current(thread[t].followup)
           \/ thread[t].pc \in {"received", "begun", "working", "polling", "refusing"} /\ Stands(t)
    PROVE  Engaged(entry, thread[t])
<1> DEFINE r == thread[t]
<1>1. CASE r.followup # NoJob /\ Current(r.followup)
    BY <1>1, StandingIsCurrent DEF Engaged, Carries
<1>2. CASE r.pc \in {"received", "begun", "working", "polling"} /\ Stands(t)
    <2>1. r.job.epoch = entry.claim.epoch
        BY <1>2 DEF Stands, StandsAtEpoch, StandsAt, EpochOf
    <2>2. LiveStand(entry, r)
        BY DEF Custody, ThreadsStand, Stand
    <2> QED
        BY <1>2, <2>1, <2>2 DEF LiveStand, Live, Engaged, Carries
<1>3. CASE r.pc = "refusing"
    BY <1>3 DEF Custody, ThreadsStand, Stand, HoldsStand, Holds, Engaged
<1> QED
    BY <1>1, <1>2, <1>3

LEMMA SentOnceOf ==
    Inv /\ Custody =>
        LET standing(t) ==
                \/ thread[t].followup # NoJob /\ Current(thread[t].followup)
                \/ /\ thread[t].pc \in {"received", "begun", "working", "polling", "refusing"}
                   /\ Stands(t)
        IN  Quantify(DOMAIN queue, LAMBDA i : Current(queue[i]))
            + Quantify(sends, Current) + Quantify(Threads, standing) <= 1
<1> DEFINE standing(t) ==
               \/ thread[t].followup # NoJob /\ Current(thread[t].followup)
               \/ /\ thread[t].pc \in {"received", "begun", "working", "polling", "refusing"}
                  /\ Stands(t)
           Q == {i \in DOMAIN queue : Current(queue[i])}
           S == {job \in sends : Current(job)}
           T == {t \in Threads : standing(t)}
<1> SUFFICES ASSUME Inv, Custody
             PROVE  Quantify(DOMAIN queue, LAMBDA i : Current(queue[i]))
                    + Quantify(sends, Current) + Quantify(Threads, standing) <= 1
    OBVIOUS
<1>1. /\ Quantify(DOMAIN queue, LAMBDA i : Current(queue[i])) = Cardinality(Q)
      /\ Quantify(sends, Current) = Cardinality(S)
      /\ Quantify(Threads, standing) = Cardinality(T)
    BY DEF Quantify
<1>2. /\ \A i \in DOMAIN queue : queue[i] # NoJob
      /\ \A job \in sends : job # NoJob
    BY DEF Inv, ChannelInv, Jobs, JobKinds, NoJob
<1>3. /\ \A i \in Q : Standing(entry, queue[i])
      /\ \A job \in S : Standing(entry, job)
    BY <1>2, StandingIsCurrent
<1>4. \A t \in T : Engaged(entry, thread[t])
    BY StandsEngaged
<1>5. /\ \A i, j \in Q : i = j
      /\ \A i, j \in S : i = j
      /\ \A i, j \in T : i = j
    BY <1>3, <1>4 DEF Custody, ChannelStands, ChannelSent, OneEngaged
<1>6. /\ Q # {} => S = {} /\ T = {}
      /\ S # {} => Q = {} /\ T = {}
    BY <1>3, <1>4 DEF Custody, ChannelStands, InQueue, InSends
<1> HIDE DEF Q, S, T
<1>7. /\ Cardinality(Q) \in {0, 1} /\ (Q = {} => Cardinality(Q) = 0)
      /\ Cardinality(S) \in {0, 1} /\ (S = {} => Cardinality(S) = 0)
      /\ Cardinality(T) \in {0, 1}
    BY <1>5, OneOrNone, FS_EmptySet
<1> HIDE DEF standing
<1> QED
    BY <1>1, <1>6, <1>7

LEMMA InstallsOverNothingOf == Inv /\ Custody => InstallsOverNothing
<1> SUFFICES ASSUME Inv, Custody, NEW w \in Workers, At(w, "working"), KindOf(w) = "Attach"
             PROVE  MayInstall(entry.coverage) /\ ~entry.reader
    BY DEF InstallsOverNothing
<1>1. Holds(thread[w]) /\ thread[w].job.kind = "Attach"
    BY DEF At, KindOf, Holds
<1>2. HoldsStand(entry, thread[w])
    BY DEF Custody, ThreadsStand, Stand, Threads
<1> QED
    BY <1>1, <1>2 DEF HoldsStand, MayInstall

LEMMA ParksItsOwnOf == Inv /\ Custody => ParksItsOwn
<1> SUFFICES ASSUME Inv, Custody, NEW t \in Threads, At(t, "working") \/ At(t, "polling"),
                    KindOf(t) # "Attach"
             PROVE  MayPark(entry.coverage, EpochOf(t))
    BY DEF ParksItsOwn
<1>1. Holds(thread[t]) /\ thread[t].job.kind # "Attach"
    BY DEF At, KindOf, Holds
<1>2. HoldsStand(entry, thread[t])
    BY DEF Custody, ThreadsStand, Stand
<1> QED
    BY <1>1, <1>2 DEF HoldsStand, MayPark, EpochOf

LEMMA PinsOneLegOf == Inv /\ Custody => PinsOneLeg
<1> SUFFICES ASSUME Inv, Custody, InHandOf(entry) PROVE entry.pinned_leg = NoLeg
    BY DEF PinsOneLeg
<1>1. entry.pinned_leg # NoLeg => entry.coverage = OnLeg(entry.pinned_leg.epoch)
    BY DEF Custody, Settled
<1> QED
    BY <1>1 DEF InHandOf, InHand, OnLeg

LEMMA GivesBackWithoutReaderOf == Inv /\ Custody => GivesBackWithoutReader
<1> SUFFICES ASSUME Inv, Custody, NEW t \in Threads,
                    At(t, "releasing") \/ At(t, "reclaiming") \/ (At(t, "closing") /\ thread[t].held)
             PROVE  ~entry.reader
    BY DEF GivesBackWithoutReader
<1> DEFINE r == thread[t]
<1>1. Stand(entry, r) /\ Settled(entry) /\ Shape(t, r)
    BY DEF Custody, ThreadsStand
<1>2. CASE Closes(r)
    BY <1>1, <1>2 DEF Stand, CloseStand, Settled
<1>3. CASE r.pc = "closing" /\ r.held
    <2>1. Holds(r) /\ HoldsStand(entry, r)
        BY <1>1, <1>3 DEF Holds, Stand
    <2>2. CASE r.job.kind = "Attach"
        BY <2>1, <2>2 DEF HoldsStand
    <2>3. CASE r.job.kind # "Attach" /\ ~entry.detach_in_flight
        <3>1. entry.coverage = OnLeg(r.job.epoch) /\ r.job.epoch # entry.claim.epoch
            BY <1>3, <2>1, <2>3 DEF HoldsStand
        <3> QED
            BY <1>1, <3>1 DEF Settled, OutWithLeg, OnLeg
    <2> QED
        BY <1>1, <2>2, <2>3 DEF Settled
<1> QED
    BY <1>2, <1>3 DEF At, Closes

LEMMA OutWithARegisteredLegOf == Inv /\ Custody => OutWithARegisteredLeg
<1> SUFFICES ASSUME Inv, Custody, OutWithLeg(entry.coverage)
             PROVE  Running(entry.claim) \/ entry.detach_in_flight
    BY DEF OutWithARegisteredLeg
<1>1. PICK t \in Threads : Custodian(entry, thread[t])
    BY DEF Custody, Answered
<1>2. CASE Registers(entry, thread[t])
    BY <1>2, ThreadNums, LegForIsALeg DEF Registers, Running
<1>3. CASE Closes(thread[t])
    BY <1>3 DEF Custody, ThreadsStand, Stand, CloseStand
<1> QED
    BY <1>1, <1>2, <1>3 DEF Custodian

LEMMA MarkerNotInFlight ==
    ASSUME Inv, Custody, TakeMarked PROVE entry.claim.marker \notin InFlight
<1> DEFINE m == entry.claim.marker
<1>1. entry.claim.gate = "scheduled" /\ entry.claim.slot = 0
    BY DEF TakeMarked, MarkedIsFree, SlotTaken
<1>2. Standing(entry, m)
    BY <1>1 DEF Custody, Settled
<1>3. ASSUME NEW job, Sent(entry, job) PROVE FALSE
    BY <1>1, <1>3 DEF Sent
<1>4. m \notin Range(queue) \cup sends
    BY <1>2, <1>3 DEF Range, Custody, ChannelStands, ChannelSent
<1>5. ASSUME NEW t \in Threads PROVE m # thread[t].followup
    BY <1>2, <1>3 DEF Custody, ThreadsStand, Stand, CarryStand
<1>6. ASSUME NEW t \in Threads, At(t, "received") PROVE m # thread[t].job
    BY <1>2, <1>3, <1>6 DEF Custody, ThreadsStand, Stand, CarryStand, Standing, At
<1> QED
    BY <1>4, <1>5, <1>6 DEF InFlight

----------------------------------------------------------------------------
(* The theorems                                                            *)

LEMMA SparingStep == [SparingNext]_vars => [Next]_vars
BY DEF SparingNext

\* Whoever the entry waits for, and what every thread, job and mark of the entry
\* may then be: the custody of the entry holds of every state of the lifecycle.
THEOREM CustodyHolds == SparingSpec => [](Inv /\ Custody /\ SlotAnswered)
<1>1. Init => Inv /\ Custody /\ SlotAnswered
    <2>1. Init => SlotAnswered
        BY DEF Init, Unattached, StartingAt, SlotAnswered, SlotTaken
    <2> QED
        BY <2>1, InitInv, InitCustody
<1>2. Inv /\ Custody /\ SlotAnswered /\ [SparingNext]_vars => Inv' /\ Custody' /\ SlotAnswered'
    BY SparingStep, StepPreserves, PreservesInv, StepKeepsCustody, StepKeepsSlot
<1> QED
    BY <1>1, <1>2, PTL DEF SparingSpec

\* An entry has at most one attachment: parked in it, in the hands of one thread, or
\* being built by one; who has it in hand has it under the epoch the coverage names,
\* and coverage said to be out with a leg is out with a thread that answers for it.
THEOREM CustodyIsAccountedFor == SparingSpec => []CustodyAccounts
<1>1. Inv /\ Custody => CustodyAccounts
    BY CustodyAccountsOf
<1> QED
    BY <1>1, CustodyHolds, PTL

\* Every pin on the coverage is a read's or the running leg's, and every end of the
\* leg gives its pin back.
THEOREM PinsAreAccountedFor == SparingSpec => []PinsAccounted
<1>1. Inv /\ Custody => PinsAccounted
    BY PinsAccountedOf
<1> QED
    BY <1>1, CustodyHolds, PTL

\* A release under way is closed by one thread, or by the end of the leg it was
\* opened over: never by none, never by two.
THEOREM ReleasesHaveOneCloser == SparingSpec => []ReleaseHasOneCloser
<1>1. Inv /\ Custody => ReleaseHasOneCloser
    BY ReleaseHasOneCloserOf
<1> QED
    BY <1>1, CustodyHolds, PTL

\* A gate that is shut is shut for a leg that runs, for the marked job of the epoch
\* the entry stands at, or for such a job on its way.
THEOREM GatesAreAnswered == SparingSpec => []GateAnswered
<1>1. Inv /\ Custody => GateAnswered
    BY GateAnsweredOf
<1> QED
    BY <1>1, CustodyHolds, PTL

\* The job of the epoch the entry stands at is in one place only, and a taken slot
\* names a job that is on its way.
THEOREM JobsAreSentOnce == SparingSpec => []SentOnce
<1>1. Inv /\ Custody /\ SlotAnswered => SentOnce
    BY SentOnceOf DEF SentOnce, SlotAnswered
<1> QED
    BY <1>1, CustodyHolds, PTL

\* What is taken off the marker to be sent is never a job already on its way.
THEOREM MarkedJobsAreSentOnce == SparingSpec => MarkedJobIsNotSentTwice
<1>1. Inv /\ Custody => (TakeMarked => entry.claim.marker \notin InFlight)
    BY MarkerNotInFlight
<1>2. Inv /\ Custody /\ [SparingNext]_vars => [TakeMarked => entry.claim.marker \notin InFlight]_vars
    BY <1>1
<1> QED
    BY <1>2, CustodyHolds, PTL DEF SparingSpec, MarkedJobIsNotSentTwice

\* A detach begins over an entry no lease asks for and no read pins.
THEOREM NoDetachIsUnderDemand == SparingSpec => NoDetachUnderDemand
<1>1. ASSUME Inv, Custody, [SparingNext]_vars
      PROVE  [\A w \in Workers : BeginDetach(w) => entry.leases = 0 /\ ~Pinned(entry)]_vars
    <2>1. Inv'
        BY <1>1, SparingStep, StepPreserves, PreservesInv
    <2> QED
        BY <1>1, <2>1, BeginDetachKeeps DEF Pinned
<1> QED
    BY <1>1, CustodyHolds, PTL DEF SparingSpec, NoDetachUnderDemand

\* Of what the code asserts in a debug build, all that is about who holds the
\* coverage: an attach installs over nothing, a leg parks its own, one leg at a time
\* pins it, it goes back with its reader closed, and it is out with the leg the
\* claim registers or in a release.
THEOREM CustodyIsAsAsserted ==
    SparingSpec => [](/\ InstallsOverNothing /\ ParksItsOwn /\ PinsOneLeg
                      /\ GivesBackWithoutReader /\ OutWithARegisteredLeg)
<1>1. Inv /\ Custody => /\ InstallsOverNothing /\ ParksItsOwn /\ PinsOneLeg
                        /\ GivesBackWithoutReader /\ OutWithARegisteredLeg
    BY InstallsOverNothingOf, ParksItsOwnOf, PinsOneLegOf, GivesBackWithoutReaderOf,
       OutWithARegisteredLegOf
<1> QED
    BY <1>1, CustodyHolds, PTL

=============================================================================
