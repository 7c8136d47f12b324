# A verification development of norn

Norn serves vaults of notes: a host process keeps, for every registered vault, a
derived store built from the files of the vault, a watcher that reports changes
of them, and a lock that makes this process the store's one maintainer. Reads are
answered from the store, and only while the store is known to say what the vault
says. This directory models the parts of that program whose correctness rests on
the order of steps taken by several threads or on what a failure leaves behind.

It grows component by component. Modelled, checked and proved today are the
lifecycle of one vault entry, the applier with the write kernel it publishes
through, the watch buffer, the background scheduler with its lane, and the
maintainer lock; the inventory says what the rest is, and the plan says in which
order it follows.

## Inventory

Paths are relative to `src/crates/`.

| Component | State it keeps | Operations | What is hard | What makes it correct |
|---|---|---|---|---|
| **Entry lifecycle** `norn-host/src/lifecycle.rs`, `lifecycle/claim.rs` | per vault, behind one gate: the claim (epoch, gate, leg, queue slot), custody of the attachment, trust, pending facts, rungs of the heal ladder, parks, demand leases, pins, release flags | jobs Attach, Recover, Rebuild, Reconcile, Maintenance, Detach; poll, reap, dispatch; demand, read, drop; refusal, release, give-back; reclaim of an unwound leg | every thread lets the gate go to call the ops, and finds the entry moved on; a bounded channel that may be full; panics under a leg | one attachment; every shut gate and open release window has its one closer; trust says what is so; no fact is forgotten; every warming ends |
| **Reload and apply queues** `lifecycle.rs`, `lifecycle/apply.rs` | a waiting reload, a FIFO of applies, the routine flag of the claim | hand the claim to a reload or an apply at each end of a leg | priority between reload, apply, facts, damage and detach | no waiter starves or is answered twice |
| **Loading and early reads** `lifecycle/loading.rs`, `lifecycle/gate.rs` | construction token, published step, requests pulled ahead | publish a step; admit, hold or refuse an early read | a build superseded while a step is published | no early read is admitted against another build |
| **Background scheduler, lane** `lifecycle/background.rs`, `lifecycle/lane.rs` | wake flag, deadline, retry; queue of stores owed work | wake, ask, sleep; run a unit, retry | a wake or retry during an ask | owed work is always asked for again |
| **Registry, serving set** `registry.rs`, `lifecycle/serving.rs` | entries by name, retired epoch, service state | insert, withdraw, remove, replace; classify aliases | an old job reaching a new entry; two names of one root | no job crosses a replacement; no root is served twice |
| **Applier** `applier.rs`, `applier/` | staged targets, progress, effects | check, stage, publish, interrupt, discard, commit the changeset | a stop, a crash or another writer between targets; a rename in two steps | a re-send converges; a source outlives what draws on it; the store learns what landed |
| **Snapshot readers** `norn-store/src/store.rs` | pool, read budget, retirement | establish, return, retire | a retirement under a wait | no snapshot outlives its store lifetime |
| **Store ceremony, construction** `norn-db/src/ceremony.rs`, `norn-store/src/construction.rs` | the database file, its pinned keys, the construction mark | open: create, adopt, rebuild; construction steps | a crash between any two steps | an unfinished build is never adopted |
| **Increments and feed** `norn-store/src/increment.rs`, `feed.rs` | generations, tombstones, cursors | commit an increment, page the feed | a cursor over another lifetime | no change is skipped |
| **Semantic engine** `norn-semantic/src/engine.rs` | vectors, cursors, watermarks | drain a page, reconcile, commit | a crash between pages, a store rebuilt under the cursor | rows and watermark agree |
| **Maintainer lock** `norn-fs/src/lock.rs` | a lock file, the inode its name means, the open handles | acquire (open, flock, recheck the name, try again), `still_current`, release | the file unlinked, replaced or moved back between any two calls; a process dying | one maintainer while the file is left alone; of two, one is confirmed in a past era of the name |
| **Watch buffer** `norn-fs/src/watch.rs` | the pending batch, rescans, terminal cause | ingest, coalesce, drain | loss, overflow, death of the backend | nothing lost goes unreported |
| **Write kernel, shadows** `norn-fs/src/write.rs`, `shadow.rs` | shadow files | stage, verify, rename, sync, sweep | crash between steps; a sweep under a slow stage | a name holds the old content or the new |
| **Walk, text, planner, derivation, configuration, wire** | none between calls | pure computation, parsing, I/O | – | – |
| **Binary, embedding stub, fixtures, test kit, vendored notify** | – | – | – | – |

The components meet as follows. Clients reach an entry by demands and reads, each
of which holds a *lease* on it. The entry's threads are the worker pool, which
takes jobs from one channel shared by all vaults; the dispatcher, whose tick
reaps, polls the watcher of every entry and sends what is marked; the background
scheduler, which marks maintenance; and whichever thread changes a registration.
They share the entry's state behind its gate and call the *ops* (store, watcher,
lock) with the gate let go. The applier runs as a job of the entry, writes the
vault through the write kernel and commits to the store; the watcher reports what
it wrote among everything else, and a ledger of own writes tells the two apart. The
semantic engine drains the store's feed on the lane.

## Modules

| Module | Models |
|---|---|
| `Claim` | the pure moves of the claim and of coverage, `lifecycle/claim.rs` |
| `EntryState` | the state of one entry and the moves handlers are composed of: `EntryState` and the free functions over it in `lifecycle.rs` |
| `EntryLifecycle` | the threads: one action per hold of the gate; `Init`, `Next`, `Spec`, `FairSpec` |
| `EntryContract` | the abstract contract: detached, covered, releasing; serving; reads |
| `EntryProperties` | what is checked, the refinement mapping, and the two steps the theorems leave out |
| `MCEntryLifecycle` | the instance TLC checks |
| `MaintainerLock` | the maintainer lock of one derived store and those who take it: one action per system call another process can come between; its properties |
| `MaintainerContract` | what the lock promises: eras of the name, and the era each maintainer was last confirmed in |
| `MCMaintainerLock` | the instance TLC checks |
| `Background` | the scheduler's signals and its ask of every entry, the lane's set and turns, and what they read of gates, verifications and engines; its properties |
| `MCBackground` | the instances TLC checks, with one bound |
| `Applier` | the apply job from staging to answer, the write kernel's calls, the own-write ledger and its settling, the changeset; other writers, crashes and power cuts; its properties |
| `PublicationContract` | what publication promises of each entry and of what survives a power cut |
| `MCApplier` | the plan TLC checks: a document moved out of one that is renamed in case alone and written over from a third |
| `WatchBuffer` | the three threads of a subscription: callback, coalescer, attachment; its properties |
| `MCWatchBuffer` | the tree TLC checks |
| `EntryLifecycle_proofs`, `EntryCustody_proofs`, `EntryTrust_proofs`, `MaintainerLock_proofs`, `Background_proofs`, `Applier_proofs`, `WatchBuffer_proofs` | the theorems |

**State and code.** The variable `entry` is a record with the fields of
`EntryState` that a decision of the code reads. `thread[t]` is what a thread's
call stack holds between two holds of the gate: the leg it runs, the attachment
in its hands, the job it has issued and not yet sent, the epoch a release or a
give-back ends, and where it is (`pc`). `queue` is this entry's part of the
channel. `sends` holds the marked jobs taken off the gate and not yet sent.
`reads` counts the reads that pin the coverage. `underived` is a ghost: a fact was
taken in from the watcher and has not been derived since.

**One action is one hold of the gate**, with everything the code does under it:
`AttachSucceeds` is the whole arm from the retaken lock to the drop of the guard.
Where the code lets the gate go — to call the ops, to give an attachment back, to
send into the channel — two actions stand, and every other thread may act
between them. A leg therefore runs: `Receive` (the worker takes the job),
`BeginLeg` or `ReceiveStale` (the first hold, which frees the slot and registers
the leg), `TakesCoverage` or `BeginAttach`, one of the leg's ends (`RecoverSucceeds`,
`TurnFails`, `Unwind`, …), `HandOffTo` and `SendFollowup` or `RefuseFollowup` for
the job it hands on, and `EndsByReleasing` or `EndsByClosing` and `CloseLeg` for
`end_job_leg`. The registrar stands for every other thread that refuses this
entry its root: a registration change, or an attach of another name that reaches
the same root.

**Data.** A batch of facts is `none`, `facts` or `rescan`. The reason of an
untrusted entry is kept as far as the code tells reasons apart (`Overflow`,
`Rebuilding`, `Untrusted`). Damage, a reader and each park are present or absent.
No time is kept: an idle entry may be found idle at any tick, and maintenance may
be due at any ask.

**The maintainer lock** is a component of its own: to the entry it is the answer
`LostMaintainership` or `MaintainerContended` of an op. `name` is the inode the
lock name resolves to, `aside` one that something foreign keeps under another name
(so the file may be moved away and back), and `acquirer[p]` what one call of
`try_acquire` or one `Maintainership` holds: its handle, its attempt, and two
ghosts, the era the loop began in and the era its handle was last known to be the
name's. `era` is the ghost that counts what something foreign did to the name.
The acquirers are the attaches, retirements and sweeps of any host, so a process
is as many acquirers as it has handles. A flock is read off the handles, an inode
is used again once no link and no handle has it, and a machine that fails a call
(`AcquireFails`) or a process that dies (`Dies`) drops its handle. A
`still_current` that fails environmentally changes nothing of this state and has no
action.

**The background scheduler** meets the entry at four places: the gate, the claim's
mark and the wake of the move that opens it, the read stance, and the damage a
lane unit met. `Background` keeps of each entry what the scheduler reads
(`entry[s]`) and lets its legs commit, owe, wake, discard, rebind, publish and
release in the order the code does these (`LegCommits` to `ReleaseEnds`); which
leg runs and why is the entry modules' subject. `signals` is what the scheduler's
leaf lock guards, `asker` its thread between two holds, `lane` the coalescing set,
`turn[t]` the stack of a lane thread, and `ops[s]` the verification's slot, the
engine's owes and the claim-bound clock. A time is how many ticks ahead it lies;
`Tick` may come between any two steps, but an ask reads the clock once when it takes
a gate (`background.rs:282`), and how far that reading lies back (`since`) is
what its filter of lane deadlines turns on. A generation counter is three values,
because only whether the last owe is settled, seen or later than what was seen is
ever asked. An ask holds one gate over three actions, so lane threads and clocks
move under it and everything that needs the gate waits. `ask_entry` schedules no
maintenance while a detach is due (`background.rs:303`); the module has no such flag,
because a detach due over coverage in hand holds the claim, which the ask reads too.
That is `DueDetachIsScheduled`, which the run `entry` checks of the lifecycle.

**The applier.** A plan is two functions, `Before` and `After`, over `Targets`, and
`Draws`, which says whose content a target is written from (a move is a create
that draws on a removal). `job` is the job's phase and leg, `left` the targets its
loop has still to come to, `act` the stack of `publish_target` for the one under
way, `held` and `shadows` what staging made, `report` the progress and the answer's
data, `rows` the changeset read back and not yet committed. `vault` is what every
process sees; `survives[t]` is the set of states a power cut may leave of an entry:
its last synced state and every state since, so a sync makes it a singleton.
`watch` is the subscription's side: entries with a report not yet settled, the
batch being compared, the ledger, and what a reconcile owes. A file is its content,
its spelling and a stamp for its modification time, because the ledger compares
content and stamp. `foreign` is a ghost, the entries another writer has changed,
and `job.clean` one that says no fault has met this attempt. Publication is the
code's order: `Foremost` is the targets no other waits for, of the least rank
(`publish_order`), and each is judged, acted on, recorded in the ledger and synced,
in four actions any other writer, sweep, settling or crash may come between. A
respell's two transitions are one target; `withheld` are those the report names at
the new spelling alone, because a stop left a target that draws on the old one.

**The watch buffer** has the fields of `State` as variables (`pending`, `terminal`,
`healing`, `closing`, `unplaced`, `unsubscribed`, `died`), the condition variable as
the set of threads asleep on it (`waiting`), and the two channels (`slot`, `wake`).
`coalescer` and `host` say where those threads stand; a hold of the lock is one
action. A batch is a function from paths to the name each is carried at and whether
that name died, or a rescan. `tree`, `stale` and `echo` are what reports are right
or wrong about: the spelling each path is rendered under, the paths whose rows are
behind the disk, and those whose state is the one an own write left. `Reach` is
`Vault::reach`: a root is read at the spelling its directory lists, whichever it is
carried at.

## Runs

The runs of the entry use two workers, the dispatcher and the registrar. `MaxDemands` bounds
the leases asked for over a behaviour, `MaxEvents` what the environment does:
facts the watcher reports, failures of the ops, refusals, panics, damage, and
maintenance falling due.

| Run | Instance | Checks | Shows |
|---|---|---|---|
| `entry` | budgets 2, 2 | `CustodyAccounts`, `ReleaseHasOneCloser`, `GateAnswered`, `SentOnce`, `AssertionsHold`, `PinsAccounted`, `ReadySound`, `FactsKept`, `DueDetachIsScheduled`, `NoDetachUnderDemand`, `ImplementsContract` | attachment, gate, window and job are each answered for by exactly one thread; the `debug_assert!`s of the code hold where they stand; what the entry says of itself agrees with what its threads hold; a detach that falls due is never left over an open gate; the lifecycle refines the contract |
| `epochs` | 2, 2 | `EpochsIssued` | no job, leg or slot names an epoch not issued, with no step left out |
| `entry_liveness` | 1, 2 | `FactsDerived`, `WarmingEnds`, `WindowCloses`, `IdleDetaches`, `GateOpens` | facts are derived or passed to a rung of the ladder; no warming stands for ever; releases end, idle entries are given back, shut gates open |
| `lock` | 2 acquirers, 2 attempts, 3 eras | `OneMaintainerPerEra`, `RefusalMeansReplaced`, `ImplementsMaintainership`, `AcquisitionAnswers`, `OverlapEnds` | two maintainers are never confirmed in one era; `LockFileReplaced` is true where it is answered; an acquisition is answered whoever holds the lock; two maintainers do not both stay; the lock refines its contract |
| `background` | 1 store with engine and verification, 2 lane threads | `OwedStoreIsReached`, `OneTurnPerStore`, `UnansweredFeedIsOwed`, `OneLifetimeIsVerified` | owed work is queued, on its way, or asked for in time; turns of a store do not meet; no owe is lost to the unit beside it |
| `background_pair` | 2 stores, 1 lane thread, holds of a tick | `DueUpkeepIsReached`, `OwedStoreIsReached` | one store's deadline, retry or wake does not hide the other's; maintenance that is due is asked for or marked |
| `background_liveness` | 1 store with engine, 1 lane thread | `OwedWorkRuns` | owed work gets a unit through refusals, unwinds and legs |
| `applier` | 3 targets, 2 attempts, 2 faults, 1 foreign change | `ContentSurvives`, `StoreFollowsVault`, `ReportedSourcesSpent`, `CleanResendApplies`, `AppliedIsDurable`, `ShadowsAccounted`, `ImplementsContract` | what is moved is never lost; once everything settles the store lists what the tree lists; an answer names no source its content has not left, an old spelling included; a clean re-send finishes; no job leaves a shadow; publication refines its contract |
| `watch` | a folder and a file, 2 spellings, cap 3, 2 disturbances | `StaleIsCovered`, `NoLostWakeup`, `StaleIsReached`, `NothingHangs` | no accepted fact and no wakeup is lost; what the disk shows is derived in the end; no thread waits for ever |
| `stale_ready` | 2, 2 | `ReadsServeNothingKnownStale` | violated: see the findings |
| `double_send` | 2, 2 | `MarkedJobIsNotSentTwice` | violated: see the findings |
| `applier_put_back` | 3 targets, 1 attempt, no fault, 2 foreign changes | `PutBackIsReported` | violated: see the findings |

Deadlock is not checked for the entry: with its budgets spent and no lease left the system
rests, as the host does; nor for the applier, whose attempts run out, nor for the
watch buffer, whose subscription ends when it is dropped.

**Why these bounds.** Two leases let a demand meet what another demand started;
two events let a failure, a refusal or a panic meet the facts, the maintenance or
the other failure it interferes with; two workers let a superseded leg run beside
the leg that replaced it, and the dispatcher and registrar make four threads that
may each hold something. Every action of `Next` fires at (2,2), over a million
states up to the symmetry of the workers. (1,3), 454 thousand states, was run
once over all the invariants with the same results. The liveness run leaves out
symmetry and is bounded to one lease with two events, which let facts and a failure,
or a failure and the refusal that follows it, meet; two leases around one event were
run once, with the same results.

For the lock, three eras are two foreign acts, which is what it takes to fail both
attempts of an acquisition, or to move a file away and bring it back; two
acquirers, each of which leaves and comes back, are a stale maintainer and a current
one or a contender. The safety properties were run once for three acquirers, with
the same result, and are proved for any number. There is an
inode for every handle and link there can be, so none is ever missing. Nobody is
stuck, and deadlock is checked.

For the scheduler, a clock's interval and the retry are one tick. In
`background_pair` an ask holds a gate for at most one tick (`HoldTicks`), so a clock
can come due before, during and after every hold, which are all the orders there
are; in `background` the steps of a hold interleave with the lane and the legs but
no tick falls inside one, and in return an engine, two lane threads and every leg
meet. `background_pair` keeps one of its
stores (`Steady`) at a stance that feeds, with no leg but the maintenance an ask
schedules, which bounds what is told of it and not of the other. Engines and
verifications of two stores at once exceed five million states and were explored
in part only. Deadlock is checked: the clock always ticks.

For the applier, the plan is a chain of three. A document is renamed in case alone
and edited, the one target published in two steps; its old body is moved to a new
document, so its content leaves with the old spelling and a stop may have to withhold
that name alone; its new body is drawn from a third, which is removed, so it both draws
and is drawn from. With it come all four ranks of the order but the empty one. Two
attempts make one re-send; two faults let a crash or power cut come after a failed
sync, or a withdrawn leg meet a failed changeset; one foreign change may fall at any
point of either. 1.49 million states, and every action fires. Three other plans were
run once with the same results: a move beside a respell that edits on its own (1.55
million states), two respells one of which is written over from the other, and four
targets where one both draws and is drawn from.

For the watch buffer, two disturbances let a change meet a change, an overflow, a
moved root, a failing backend or a dying coalescer; the folder and the file in it
let one root speak for another and one die under the other; two spellings let a
rename be reported in either order. At cap 3 two paths do not widen the
accumulation; at cap 2, where they do, the safety properties were run once with
three disturbances (5.3 million states) with the same result, and the theorems are
about every cap.

**The bound `HandOffTakesAFreeSlot`.** The second finding is a step that breaks
what the claim promises, and one job running twice under one epoch breaks nearly
every custody property in its wake: two legs of one epoch are one leg to the
code. So that the other properties still say something, the run `entry` leaves
out exactly that step, a hand-off that takes a slot another job holds. Nothing else is excluded, and with it excluded every property holds.
The theorems about custody and trust leave it out too, and with it the step of finding 4, which no run has the
demands for: `SparingSpec` is `Spec` without the two (`SparingNext`). Every other step of every thread is in it.
`EpochsIssued` holds without the bound too: the run `epochs` checks it with every
step in, and it is proved so, as is that no step goes back to an epoch left behind
(`SupersededStaysSuperseded`).
It is also the run in which `LosesClaim` fires: a leg that finds its coverage gone
under an epoch that still stands is one that runs beside its own double, and no
other behaviour within the bounds reaches that arm. The liveness run does not use
the bound: at its budgets its properties hold with the step in.

**Fairness.** `FairSpec` promises what the host's threads do. Each worker goes on
with what it has begun (weak fairness of its steps), and so does a thread that
has a release, a give-back, a classification or a reclaim in hand. The dispatcher
runs every part of its tick in the same order each time, so a poll that is
possible begins and ends, what is marked and free is taken, and — strongly,
because other threads make it possible and impossible again — an idle entry is
reaped. The channel is strongly fair to a marked job, because the workers empty it
for as long as the host lives. Nothing is promised of clients, of the watcher, of
failures, of refusals or of maintenance falling due; the budgets end those in any
behaviour, which is the assumption that the environment is quiet for long enough.
It is not claimed that a lease is attached for: an attach that fails because its
maintainer lock was lost waits, by design, for the next demand.

For the lock, a call of `try_acquire` runs, a leg that writes ends, and a host
asks `still_current` again with every poll of the watcher (`production.rs:2353`)
and gives back what it found lost. No fairness makes a maintainer release: that an
acquisition is answered all the same is the property. `OverlapEnds` needs the
foreign acts to end, which `MaxEras` sees to: a file moved back and forth under
each check in turn would let two maintainers stay.

For the scheduler, its thread and the lane threads go on with what they have
begun, clocks tick, and a leg that has committed owes, wakes and publishes.
Waiting for a gate is strongly fair, since others take it and let it go. Nothing
is promised of attaches, releases, stance moves, refusals, unwinds, or of the ops
ending a page rather than refusing it.

For the watch buffer, the callback, the coalescer, an opened heal window and a drop
each go on with what they have begun (weak fairness). The coalescer's short sleep
ends, because it is as long as the quiet window; its sleep of an hour is given no
fairness, so that a wakeup lost for an hour is a violation and not a delay. The
host's poll is strongly fair: it comes with every tick, and heals, which make it
impossible for a while, end. Nothing is promised of heals beginning, of the writers,
or of failures.

The applier has no liveness property: a job is a sequence of steps that ends, and
whether it is sent again is its caller's choice.

## Findings

1. **A read served over facts the entry knows of** (`stale_ready`). A maintenance
   leg drains facts and ends with a detach due. Unlike the reconcile, recover and
   rebuild legs, its arm for a due detach (`lifecycle.rs:8670`) does not publish
   the reconcile those facts are owed, so the entry stays `Ready`. A demand then
   takes the detach back, and reads are served at `Ready` until the next poll
   finds the facts. `docs/decisions/0050-…:304` says that a source read never
   answers from a state it knows is stale; the gap line 322 accepts is of edits
   not yet seen while a leg runs, and ends with the leg.
2. **A job sent twice** (`double_send`). A leg issues the job it hands on under
   one hold and sends it under a later one. If the gate is open between the two,
   another thread may refuse the root and a demand may then schedule an attach,
   which is sent and takes the queue slot. The late `hand_off` (`claim.rs:1183`)
   takes the slot unconditionally; when its superseded job is refused by a full
   channel or arrives stale, the slot is freed while the attach's marker and the
   attach itself stand, and the next tick sends the attach again under the same
   epoch, which `claim.rs:1163` says these moves prevent.
3. **A row that outlives its file** (`applier_put_back`). A plan removes a file and
   records in the ledger that it expects absence there. Before the changeset's
   second look another writer puts a file back, so `commit_plan_changeset` skips the
   death (`production.rs:3876`) and leaves it to the watcher, 'as the ledger's entry
   expects absence' (`production.rs:3835`). The watcher compares what stands at the
   path when its batch is settled, not when it was reported; if the other writer has
   removed the file again by then, absence is what the ledger expects
   (`watch.rs:2431`), the report is dropped as an echo, and the row stays though
   nothing is owed. The store no longer 'equals a build from zero' until a later heal
   or another change there. It takes two foreign changes around one changeset;
   `StoreFollowsVault` holds of one (`StoreFollowsOneWrite`), and of any number once
   this step is left out (`StoreFollowed`): nothing else in the code loses a row.
4. **A demand that opens the claim under an attach** (beyond the bounds of the runs).
   `record_demand` withdraws 'an idle detach that is scheduled and not yet
   dispatched' (`lifecycle.rs:3298`) by the flag `detach_scheduled` (3327). A release
   resets that flag where it ends (`finish_release`, 3518), but
   `give_back_entry_coverage` (4276-4360) supersedes a scheduled detach and leaves
   it. So: a lease is dropped and the reap schedules the detach; a refusal of the root
   gives the coverage back; a demand comes while that give-back is in flight, finds
   nothing to withdraw (`detach_in_flight`), and the give-back's end schedules its
   attach; the next demand finds the flag still up and nothing in flight, and
   invalidates and opens the claim under the attach that runs. A second attach may be
   scheduled beside the first, and `ReadySound` fails in 29 steps. It takes three
   demands, where the runs go to two: TLC found it with one worker, three demands and
   one event. `LeavesLegsBe` is the one step the theorems of custody and trust leave
   out for it.
5. **A detach scheduled before a read** (`entry`). `claim.rs:486` says that a
   `Job::Detach` scheduled before `Host::begin_read` takes its hold 'tears the entry
   down under that hold', characterized by
   `a_detach_scheduled_before_a_read_tears_the_entry_down_under_it`. There is no such
   test, and the code does the opposite: the read's first hold records its demand
   (`lifecycle.rs:6448`), which withdraws a detach that has not begun (3327-3331), as
   `claim.rs:383` and the test
   `a_read_withdraws_an_idle_detach_that_is_scheduled_and_not_yet_running` say.
   `NoDetachUnderDemand` holds, and is proved, against that text.

## Proofs

The theorems hold for any set of workers and any budgets, with no bound on the
interleavings; they assume that dispatcher, registrar and workers are distinct
threads and that the budgets are naturals (`ThreadsAssumption`,
`BudgetsAssumption`). Those of the lock hold for any acquirers, inodes, attempts
and eras (`LockAssumption`), those of the scheduler for any stores, lane threads,
engines, clocks and holds, with a retry no longer than the interval
(`BackgroundAssumption`, as `BACKGROUND_RETRY_AFTER` is). Those of the applier hold
for any plan in which no target draws on itself and a respell keeps a document
(`PlanAssumption`), any attempts, faults and foreign changes (`KeptAssumption`: the
mark of a row left as it stands is no content); those of the watch
buffer for any tree without cycles, any spellings, cap and disturbances
(`PathsAssumption` and those beside it).

| Theorem | States |
|---|---|
| `EntryLifecycle_proofs!InvHolds` | the inductive invariant `Inv` |
| `EntryLifecycle_proofs!LifecycleTyped` | `Spec => []TypeOK` |
| `EntryLifecycle_proofs!EpochsAreIssued` | `Spec => []EpochsIssued`: no job, leg, slot, custody or release names an epoch the entry has not reached |
| `EntryLifecycle_proofs!EpochsNeverGoBack` | `Spec => SupersededStaysSuperseded` |
| `EntryCustody_proofs!CustodyHolds` | `SparingSpec => [](Inv /\ Custody /\ SlotAnswered)`: the inductive invariant of custody |
| `EntryCustody_proofs!CustodyIsAccountedFor` | `SparingSpec => []CustodyAccounts` |
| `EntryCustody_proofs!PinsAreAccountedFor` | `SparingSpec => []PinsAccounted` |
| `EntryCustody_proofs!ReleasesHaveOneCloser` | `SparingSpec => []ReleaseHasOneCloser` |
| `EntryCustody_proofs!GatesAreAnswered` | `SparingSpec => []GateAnswered` |
| `EntryCustody_proofs!JobsAreSentOnce` | `SparingSpec => []SentOnce` |
| `EntryCustody_proofs!MarkedJobsAreSentOnce` | `SparingSpec => MarkedJobIsNotSentTwice` |
| `EntryCustody_proofs!NoDetachIsUnderDemand` | `SparingSpec => NoDetachUnderDemand` |
| `EntryTrust_proofs!TrustHolds` | `SparingSpec => [](Inv /\ Custody /\ Trust)`: the inductive invariant of trust |
| `EntryTrust_proofs!ReadyIsSound` | `SparingSpec => []ReadySound` |
| `EntryTrust_proofs!FactsAreKept` | `SparingSpec => []FactsKept` |
| `EntryTrust_proofs!EntryIsAsAsserted` | `SparingSpec => []AssertionsHold`: the six debug assertions |
| `EntryTrust_proofs!ContractIsImplemented` | `SparingSpec => ImplementsContract`, the refinement of `EntryContract` |
| `MaintainerLock_proofs!LockInvHolds` | the inductive invariant of the lock |
| `MaintainerLock_proofs!MaintainersAreApart` | `Spec => []OneMaintainerPerEra` |
| `MaintainerLock_proofs!RefusalIsEarned` | `Spec => RefusalMeansReplaced` |
| `MaintainerLock_proofs!LockImplementsContract` | `Spec => ImplementsMaintainership`, the refinement of `MaintainerContract` |
| `Background_proofs!BackgroundTypeOK` | `Spec => []TypeOK`: among others, no time kept for a sleep is a time past |
| `Background_proofs!OneTurnPerStoreAlways` | `Spec => []OneTurnPerStore` |
| `Background_proofs!OneLifetimeIsVerifiedAlways` | `Spec => []OneLifetimeIsVerified` |
| `Background_proofs!UnansweredFeedIsOwedAlways` | `Spec => []UnansweredFeedIsOwed` |
| `Background_proofs!DueUpkeepIsReachedAlways` | `Spec => []DueUpkeepIsReached` |
| `Background_proofs!OwedStoreIsReachedAlways` | `Spec => []OwedStoreIsReached` |
| `Applier_proofs!InvHolds`, `ApplierTyped` | the inductive invariant of the applier, and `Spec => []TypeOK` |
| `Applier_proofs!PublicationImplements` | `Spec => ImplementsContract`, the refinement of `PublicationContract` |
| `Applier_proofs!MovedContentSurvives` | `Spec => []ContentSurvives` |
| `Applier_proofs!AppliedStays` | `Spec => []AppliedIsDurable` |
| `Applier_proofs!SourcesReportedSpent` | `Spec => []ReportedSourcesSpent` |
| `Applier_proofs!ShadowsAreAccounted` | `Spec => []ShadowsAccounted` |
| `Applier_proofs!CleanResendIsApplied` | `Spec => []CleanResendApplies` |
| `Applier_proofs!StoreFollowed` | `SparingSpec => []StoreFollowsVault`, for any number of foreign changes |
| `Applier_proofs!StoreFollowsOneWrite` | `Writes <= 1` gives `Spec => []StoreFollowsVault` |
| `WatchBuffer_proofs!WatchTyped` | `Spec => []TypeOK` |
| `WatchBuffer_proofs!NothingForgotten` | `Spec => []StaleIsCovered` |
| `WatchBuffer_proofs!WakeupsArrive` | `Spec => []NoLostWakeup` |

**The invariant.** `TypeOK` alone is not inductive: a lease given back must be
one that was counted, a thread that sends must have a job to send, and a marker
must stand under a shut gate. `EpochsIssued` alone is not either: the epoch a
thread will hand on, or end a release at, must be issued while it is still on the
thread's stack. `Inv` states both together: `Sound(entry)`, the entry with every
epoch in it at most the claim's; `ThreadInv`, what each stack holds, and that a
thread at `sending` has a job; `ChannelInv`, the queue and the sends; and
`RestInv`, the counters. Because every move of the claim either keeps its epoch or
raises it by one, what was issued stays issued. The argument goes by layers:
the first part of `EntryLifecycle_proofs` gives, for each move of the claim, its type
and that its epoch grows, and lifts that to the moves of an entry; the second has one
lemma for each action, collected per thread and then over `Next`.

**Custody.** The properties of custody fail one by one to be inductive, because each
relies on the others: a leg may park what it holds because no other leg is
registered, and none is because the gate was shut for the one job that was on its
way. What holds them together is that *an entry waits for one answer at most*. A
thread is `Engaged` if it runs the leg the claim registers, has a window to close, or
carries the job of the entry's epoch. `Custody` says that at most one thread is
(`OneEngaged`); that the job of the epoch is in the channel only if none is
(`ChannelStands`); that whatever stands open is answered for (`Answered`); and what
the engaged thread and the entry look like to one another at each of the thread's
points (`Shape`, `Settled`, `Stand`). A step concerns one thread and the entry: under
`Sole` no other is engaged, so the lemmas of `EntryCustody_proofs` are about one
record and the entry before and after. That the others stay out of it is shown once
(`Quiet`): what they carry is of an epoch left behind, and by `EpochsIssued` epochs
never come back. `SlotAnswered` adds that a taken slot names a job on its way.
The properties the runs check follow from `CustodyHolds` by counting: each of their
sums over threads is of a set with at most one member.

**Trust.** `ReadySound` is not inductive, though custody is given. A leg that ends
well makes the entry `Ready`, so what it was sent for must still be what the entry
owes; a leg that finds its root gone ends in two steps, and what runs meanwhile must
not answer for it; and a gate left open over a rung that is owed is a gate nobody
will heal through. `Trust` says what each of these is, beside what the stances mean
of one another (`Trusty`: an entry that is `Ready` has its coverage, owes no rung,
stands on no park and is not being released; coverage in hand at a distrusted stance
owes a rung; there is one rung at most).
`JobsSuit` speaks of work wherever it is, in the marker, the queue, a send or on a
stack: a recovery finds the entry installing and owing no rebuild, a rebuild finds no
recovery owed, a reconcile and a maintenance find neither. `FactsStand` is
`FactsKept` with the thread named: facts no one has derived, under coverage, are
pending, owed to a rung or a release, or being derived by the leg the claim
registers, whose epoch stands.
`LostMeans` is about the leg that lost its root: until it is classified the entry
is not `Ready`, facts are owed, and nothing but a heal, a detach or a poll is on its
way. `LegsHold` covers the one moment in which coverage is back in hand and the gate
is still held by a leg of the past: some thread has the job for it.

As for custody, a step concerns one thread, and `SoloTrust` and `ArrangedUpholds`
reduce it to that thread and the entry. What is left of most actions is one of three
shapes: work begun at the next epoch (`HandedUpholds`), a change no work minds
(`SoftlyUpholds`), or an epoch left with all its work (`MovedOnUpholds`). The
refinement needs one fact more, of each step and not of a state (`Passes`): a release
ends without coverage, and coverage that goes by any other way goes from an entry
that does not serve. With it every step is one of `EntryContract` or a stutter, and
only a read changes the number of reads (`ReadsAlone`).

For the lock, `OneMaintainerPerEra` is not inductive alone: a confirmation must
know that another maintainer confirmed in the era has the file of the name
(`HandleInv`: a handle known in this era is the name's) and that a file has one
flock (`FlockInv`). `RefusalMeansReplaced` rests on `LoopInv`: each attempt made
has cost an era, because the handle was the name's when it was opened and was not
when it was asked again. `NoOtherInEra` is the lemma both the invariant and the
refinement turn on.

For the scheduler, `Inv` adds `UnitInv` to the three properties it proves together:
a turn has a store of the host's, a verification that runs has its stop recorded,
and only a unit is told that its lifetime retired. With the stop recorded, a leg
that binds the next lifetime waits for it. `UnansweredFeedIsOwed` needs `FeedInv`,
which knows when rows landed: rows a draining unit's snapshot has not seen are owed
by an owe the unit does not settle, or their leg has yet to owe them. That no second
unit of the store resets the owe rests on `OneTurnPerStore`.

`DueUpkeepIsReached` and `OwedStoreIsReached` say that something will come to what is
due, and each step that takes one such something away must leave another.
`UpkeepInv` knows that while the scheduler asks, the deadline it has found so far is
the only one it will sleep by, and that the deadline an entry keeps for itself is
never after its clock. `OwedInv` counts less than the property does: a turn whose
unit reads a lifetime that has retired will drop what it finds, so it is no turn that
will look at the store, and a leg that has yet to say what it committed brings the
scheduler to the engine's work but not to a clock. What is left is inductive with
`StancesInv` (an entry serves over a delivery that is committed, no rung owed, no
release begun, so a discard or a release finds the stance withdrawn) and `TurnsInv`
(a unit runs for what its turn owes). The retry is part of the promise: a turn that
unwound or was refused leaves its store to an ask within `RetryAfter`, which may be
later than the clock; with a retry of one tick, as in the runs, it is not, and with a
longer one TLC finds the clock passed (`Interval = 3`, `RetryAfter = 2`).

For the applier, `Inv` has five parts beside `TypeOK`. `Listed` says which targets a
phase has behind it: while publishing, every target no longer `left` is landed and
synced, or another writer has been there. `ActInv` says what the act under way stands
on, step by step. `PastInv` keeps the order of an earlier attempt: where a target was
landed and others draw on it, they survive as planned or the source does. `ShadowInv`
ties each shadow to a staged target of the running job, and `ReportInv` each result
to its target. The refinement is proved action by action: a source is only ever
changed when `Foremost` offers it, so every target that waits for it is behind, and
by `Listed` synced; that is the guard of the contract's `Land`. `ContentSurvives`
then follows from the contract, whose own invariant it is.
`CleanResendApplies` needs `ResendInv` on top, which speaks of plans no other writer
has met: what may survive of a target is a state of the plan or one cut short between
two of its renames (`Planned`); a source is as the plan found it, at the spelling it
is drawn from, until what draws on it is on the disk (`Drawn`); so an attempt finds every target landed, half way or as
before, stages what it must, and no judgement stops it (`CleanInv`).

`StoreFollowsVault` speaks of a settled host; what leads there is `RowInv`, true at
every moment a coverage is held. Of each target one of three holds. A report of it is
on its way that will not pass for the plan's own: it is owed, or reported and not what
the ledger expects, or being compared and not what was read from the ledger
(`Reached`). Or the plan has changed it and the changeset will say so, and the plan's
bytes still stand there (`Pends`). Or its rows, as they will be once the changeset
commits, are what the tree lists (`Right`). So each step that hides a report must leave
a right row behind: a record of an own write may hide one only where the plan's bytes
stand, the second look writes a row only of bytes it found, and a changeset that fails
owes every target. Four facts carry it. `StampInv`: another writer's stamp is none the
ledger holds, so its write differs from everything expected. `AtInv`: under which
spelling a target stands at each step of a respell, and for each result told of it.
`RowsAt`: no row stands at a spelling its target does not have. `RenameInv`: what is
renamed holds the bytes it was judged by, or its change is reported. An absence has no
stamp, which is why a removal can pass for the plan's own (finding 3):
`SparingSpec` is `Spec` without that step (`LeavesAbsencesBe`), and `AbsenceInv` shows
that a single foreign change cannot take it.

For the watch buffer, `Standing` says that each place a batch can be in is empty
unless its thread stands where it fills it. `StaleIsCovered` is inductive with it,
action by action; what needs an argument is the closing of a batch, which drops
roots. `Kept` and `Carried` show that what a dropped root reached the one above it
reaches, by going to the topmost root above it, which exists by `PathsAssumption`;
and that a suppressed echo, a leaf, is not stale. `NoLostWakeup` needs
`HostAsleep` and `CoalescerAsleep`, who waits for what, and `LongSleep`, that the
nap was planned over nothing that has appeared since without a wake.

**Only model-checked.** Liveness, which needs fairness and `ENABLED`, is out of
the prover's reach and stays with the runs. The theorems about custody and trust are
of `SparingSpec`: with the two steps it leaves out they are false (findings 2 and 4),
`ReadySound` for one at three demands. `DueDetachIsScheduled` is checked and not
proved: at three demands it fails behind the step of finding 4, whose second attach
may install over a detach that fell due meanwhile, and without that step it holds
(10.4 million states, run once). `StoreFollowed` is of the applier's `SparingSpec`
for the same reason (finding 3). `PutBackIsReported` and the other properties of the
runs that expect a violation are false and have no theorem.

## Not modelled

In the scheduler: shutdown (`stop`, `stopping`), the counters of wakes, asks,
turns and units, the tickets by which a search and a lane unit take turns at a
slot, and `maintenance_owed`, which production leaves at its default of nothing
owed. An unwind of a whole turn of the scheduler before it asks anyone leaves no
deadline, as its comment says (`background.rs:189`); the properties set those
stretches aside (`unwound`) until the next wake. A poisoned gate is never read
again, so what it guards is forgotten.

In the entry: the waiting reload, the apply queue and the routine flag of the
claim; construction and early reads; the `Service` of an entry and its
replacement; the `Settle` stance, on which a read waits for the facts it met; the
host's own shutdown. The mutex that serialises attaches of a root (`attach_gate`)
is left out, which allows interleavings the code does not: what holds here holds
with it. The ops are an environment that answers or fails in every way
`JobFailure` has.

In the applier: replacement of the vault's root under a job, the control files and
landings outside the vault, the cleanup of emptied folders, the checks of links and
schemas a plan passes before it is staged, and failures to remove a shadow. Other
writers change an entry's content and never its spelling; their stamps are unique,
as modification times are taken to be by the ledger. The ledger's check that the
spelling on disk is the recorded one is left out, and entries that expect the same
count as one. Where the order of publication is a tie the model takes any. A source
that is itself drawn from is looked at once by `keep_available_sources`, so in a
chain of moves its answer may leave out a target whose content has moved on: the
second disjunct of `ReportedSourcesSpent`.

In the watch buffer: the start of a subscription (its synchronisation, the authority
over a build, and the observation revision), the partition of schema and control
facts, and the ledger's capacity and lifetimes, which are in `Applier`. Which
terminal cause is kept of several is not told apart. A heal's own walk is not counted
as reading what it walks, and the derivation of a batch is one step. A case-only
rename of a file norn itself has just written is left out: the ledger matches it by
content alone (`watch.rs:2423`). Own writes are of documents that are there and
current. Where `hand_over` finds the receiver gone it drops the batch, as the code
does. Condition variables do not wake spuriously; each wait is a loop that would go
back to sleep.

Of the rest: planning, derivation, walking, parsing, configuration and the wire
types compute over their inputs and keep no state between calls, and much of the
implementation by lines is test support. The registry, the queues of reloads and
applies, early reads, the store's opening, its feed and the semantic engine have
state worth modelling and are in the plan.

## Plan

1. **Entry** (done): `Claim`, `EntryState`, `EntryLifecycle`, its contract and
   its properties; types, epochs, custody and trust proved, and the refinement.
2. **Applier** (done): `Applier` over a vault of a few names with another writer, a
   watcher, crashes and power cuts between any two acts; its contract, its safety,
   the refinement and that the store follows the vault proved.
3. **Maintainer lock** (done): `MaintainerLock`, its contract, its safety and the
   refinement proved.
4. **Background scheduler** (done): `Background`; its lane's safety and its two
   reachability invariants proved.
5. **Serving set**: two entries' claims under one name; no job crosses.
6. **Store ceremony and construction**: opens and crashes over one file.
7. **Reload and apply queues** as an extension of the entry modules, with the
   order each end of a leg asks in.
8. **Semantic engine and feed**; **loading**; glob matching and link resolution as
   operators against reference definitions.
9. **Watch buffer** (done): `WatchBuffer`, its safety proved; the subscription's
   start and the observation revision still to be.
10. **Proofs** (done): every invariant and action property a passing run checks, and
   every refinement; liveness stays with the runs.
