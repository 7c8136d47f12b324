----------------------------- MODULE Background -----------------------------
(***************************************************************************)
(* The background scheduler and the background lane of a host              *)
(* (norn-host/src/lifecycle/background.rs, lifecycle/lane.rs), with what   *)
(* they read: the gate of each entry, the verification of its store        *)
(* (verification.rs) and what its semantic engine owes (semantic.rs).      *)
(*                                                                         *)
(* The scheduler sleeps until a wake or a deadline and then asks every     *)
(* entry; a store that owes a unit is put in the lane's set, and a lane    *)
(* thread runs one turn for it; maintenance that is due is scheduled on    *)
(* the entry's claim.                                                      *)
(*                                                                         *)
(* One action is one hold of a leaf lock or of a gate, but for the ask of  *)
(* one entry: lane threads and clocks move while it holds the gate, so it  *)
(* is three actions, and what else needs that gate waits for the last.     *)
(* A time is how many ticks ahead it lies, 0 or less once it is past.      *)
(***************************************************************************)
EXTENDS Integers, SequencesExt

CONSTANTS
    Stores, NoStore, LaneThreads,
    Engines,      \* the stores a semantic engine is composed over
    Verified,     \* the stores whose verification clock runs
    Maintained,   \* the stores whose claim-bound clocks run
    Interval,     \* the ticks between two runs of what a clock times
    RetryAfter,   \* BACKGROUND_RETRY_AFTER
    HoldTicks     \* bound: the ticks an ask's hold of one gate takes, at most

ASSUME BackgroundAssumption ==
    /\ NoStore \notin Stores
    /\ Engines \subseteq Stores /\ Verified \subseteq Stores /\ Maintained \subseteq Stores
    /\ RetryAfter \in Nat \ {0} /\ Interval \in Nat /\ RetryAfter <= Interval
    /\ HoldTicks \in Nat

VARIABLES
    signals,   \* what the scheduler's leaf lock guards
    asker,     \* the scheduler's thread
    entry,     \* what a gate guards, and the leg that runs under the claim
    ops,       \* what the ops keep of each store
    lane,      \* the coalescing set
    turn       \* the lane's threads

vars == <<signals, asker, entry, ops, lane, turn>>

----------------------------------------------------------------------------
(* Times                                                                   *)

\* No time at all, after every other.
Never == Interval + 1
Times == 0 .. Never
Clocks == -HoldTicks .. Never

\* The instant after.  How far past a time is matters to a hold of a gate alone.
Elapse(at, floor) == IF at \in {Never, floor} THEN at ELSE at - 1

Past(at) == at <= 0

Ahead(at) == IF Past(at) THEN 0 ELSE at

Earlier(one, other) == IF one <= other THEN one ELSE other

ClockOf(set, s) == IF s \in set THEN Interval ELSE Never

----------------------------------------------------------------------------
(* State                                                                   *)

\* woken, earliest and retry as in Signals.
Signals == [woken : BOOLEAN, earliest : Times, retry : Times]

\* left: the entries of the snapshot not yet asked; store: the one whose gate
\* the ask holds, read: whether its owed work has been read, since: the ticks
\* since its one reading of the clock; found: the earliest deadline so far;
\* unwound: the last turn unwound whole.
Askers ==
    [asking : BOOLEAN, left : SUBSET Stores, store : Stores \cup {NoStore},
     read : BOOLEAN, since : 0..HoldTicks, found : Times, unwound : BOOLEAN]

\* The claim is open, or held by a leg: one that attaches, works ("leg", and
\* "maintenance" for the leg an ask schedules), has committed to the store and
\* not said so ("committed", "owing"), has discarded the store, or gives it back.
ClaimStates == {"open", "attaching", "leg", "maintenance", "committed", "owing",
                "discarded", "detaching", "detached"}

\* feeds: the read stance is serve or settle; rung: a rung of the heal ladder
\* is owed; damage: damage_met_under_a_claim; mark: owes_maintenance;
\* due: background_due.
EntryStates ==
    [attached : BOOLEAN, poisoned : BOOLEAN, feeds : BOOLEAN, rung : BOOLEAN,
     damage : BOOLEAN, claim : ClaimStates, mark : BOOLEAN, due : Times]

\* bound, clock, running: the slot of the verification.  current: the engine's
\* delivery is committed beside this lifetime.  owed: an owe is "recorded" until
\* a unit has "seen" it and settles it.  feed: rows no unit has answered for,
\* "read" those in the snapshot of the unit that runs.  upkeep: the claim-bound
\* clock, kept on the attachment.
OpsStates ==
    [bound : BOOLEAN, clock : Clocks, running : BOOLEAN, current : BOOLEAN,
     owed : {"settled", "seen", "recorded"}, feed : {"answered", "read", "landed"},
     upkeep : Times]

LaneStates ==
    [queue : Seq(Stores), queued : SUBSET Stores, running : SUBSET Stores,
     again : SUBSET Stores]

Pcs == {"idle", "boundary", "unit", "verifying", "returned", "seen", "draining", "judging",
        "ending", "finishing", "requeueing"}

\* ran: a unit of this turn ran; stale: the lifetime its unit reads has retired.
TurnStates ==
    [pc : Pcs, store : Stores \cup {NoStore}, owed : BOOLEAN, ran : BOOLEAN, stale : BOOLEAN]

TypeOK ==
    /\ signals \in Signals
    /\ asker \in Askers
    /\ entry \in [Stores -> EntryStates]
    /\ ops \in [Stores -> OpsStates]
    /\ lane \in LaneStates
    /\ turn \in [LaneThreads -> TurnStates]

Waiting(unwound) ==
    [asking |-> FALSE, left |-> {}, store |-> NoStore, read |-> FALSE, since |-> 0,
     found |-> Never, unwound |-> unwound]

Idle == [pc |-> "idle", store |-> NoStore, owed |-> FALSE, ran |-> FALSE, stale |-> FALSE]

Unattached(poisoned) ==
    [attached |-> FALSE, poisoned |-> poisoned, feeds |-> FALSE, rung |-> FALSE,
     damage |-> FALSE, claim |-> "open", mark |-> FALSE, due |-> Never]

Init ==
    /\ signals = [woken |-> FALSE, earliest |-> Never, retry |-> Never]
    /\ asker = Waiting(FALSE)
    /\ entry = [s \in Stores |-> Unattached(FALSE)]
    /\ ops = [s \in Stores |->
                [bound |-> FALSE, clock |-> Never, running |-> FALSE, current |-> FALSE,
                 owed |-> "settled", feed |-> "answered", upkeep |-> Never]]
    /\ lane = [queue |-> <<>>, queued |-> {}, running |-> {}, again |-> {}]
    /\ turn = [t \in LaneThreads |-> Idle]

\* The gate is there to be taken.
GateFree(s) == asker.store # s /\ ~entry[s].poisoned

Wake == signals' = [signals EXCEPT !.woken = TRUE]
WakeIf(condition) == signals' = [signals EXCEPT !.woken = @ \/ condition]

RetryAt(at) == signals' = [signals EXCEPT !.retry = Earlier(@, Ahead(at))]

----------------------------------------------------------------------------
(* What the ops answer of a store                                          *)

VerificationDeadline(s) == IF ops[s].running \/ ~ops[s].bound THEN Never ELSE ops[s].clock

VerificationOwed(s) == Past(VerificationDeadline(s))

EngineOwes(s) == ops[s].owed # "settled" /\ ops[s].current

BackgroundOwed(s) == VerificationOwed(s) \/ EngineOwes(s)

----------------------------------------------------------------------------
(* The coalescing set                                                      *)

\* Mutant of Enqueue: a store whose turn runs is queued beside it.
EnqueueBesideItsTurn(s) ==
    [lane EXCEPT !.queue = IF s \in lane.queued THEN @ ELSE Append(@, s),
                 !.queued = @ \cup {s}]

Enqueue(s) ==
    IF s \in lane.running THEN [lane EXCEPT !.again = @ \cup {s}]
    ELSE [lane EXCEPT !.queue = IF s \in lane.queued THEN @ ELSE Append(@, s),
                      !.queued = @ \cup {s}]

----------------------------------------------------------------------------
(* The scheduler                                                           *)

\* A turn begins: every entry is asked, so a retry is answered with the rest.
NextTurn ==
    /\ ~asker.asking
    /\ signals.woken \/ Past(Earlier(signals.earliest, signals.retry))
    /\ signals' = [woken |-> FALSE, earliest |-> Never, retry |-> Never]
    /\ asker' = [Waiting(FALSE) EXCEPT !.asking = TRUE, !.left = Stores]
    /\ UNCHANGED <<entry, ops, lane, turn>>

Asks(s) == asker.asking /\ asker.store = NoStore /\ s \in asker.left

PassesPoisoned(s) ==
    /\ Asks(s)
    /\ entry[s].poisoned
    /\ asker' = [asker EXCEPT !.left = @ \ {s}]
    /\ UNCHANGED <<signals, entry, ops, lane, turn>>

\* No coverage, no clocks.
AsksUncovered(s) ==
    /\ Asks(s)
    /\ ~entry[s].poisoned /\ ~entry[s].attached
    /\ entry' = [entry EXCEPT ![s].mark = FALSE, ![s].due = Never]
    /\ asker' = [asker EXCEPT !.left = @ \ {s}]
    /\ UNCHANGED <<signals, ops, lane, turn>>

\* The gate is taken and the clock is read.
BeginsAsk(s) ==
    /\ Asks(s)
    /\ ~entry[s].poisoned /\ entry[s].attached
    /\ asker' = [asker EXCEPT !.store = s, !.read = FALSE, !.since = 0]
    /\ UNCHANGED <<signals, entry, ops, lane, turn>>

ReadsOwed ==
    /\ asker.store # NoStore /\ ~asker.read
    /\ lane' = IF entry[asker.store].feeds /\ BackgroundOwed(asker.store)
               THEN Enqueue(asker.store)
               ELSE lane
    /\ asker' = [asker EXCEPT !.read = TRUE]
    /\ UNCHANGED <<signals, entry, ops, turn>>

\* Mutant of LaneDeadline: the clock is read again for the deadline.
LaneDeadlineReadAgain(s) ==
    LET at == VerificationDeadline(s) IN IF at > 0 THEN Ahead(at) ELSE Never

\* The lane's clock, where it was to come when the ask read the time.
LaneDeadline(s) ==
    LET at == VerificationDeadline(s) IN IF at + asker.since > 0 THEN Ahead(at) ELSE Never

\* The coverage is in hand while no leg has it, and its clock is read then.  The code
\* asks that no detach be due, too: one that is due over coverage in hand holds the
\* claim (DueDetachIsScheduled, of the entry), so an open claim has said so.
EndsAsk ==
    /\ asker.store # NoStore /\ asker.read
    /\ LET s    == asker.store
           due  == IF entry[s].claim = "open" THEN ops[s].upkeep ELSE entry[s].due
           owes == Past(due)
           goes == owes /\ entry[s].claim = "open" /\ ~entry[s].rung
       IN  /\ entry' = [entry EXCEPT ![s].due = due, ![s].mark = owes,
                                     ![s].claim = IF goes THEN "maintenance" ELSE @]
           /\ asker' = [asker EXCEPT
                 !.left = @ \ {s}, !.store = NoStore, !.read = FALSE, !.since = 0,
                 !.found = Earlier(@, Earlier(LaneDeadline(s), IF owes THEN Never ELSE due))]
    /\ UNCHANGED <<signals, ops, lane, turn>>

\* A panic under the gate poisons it, and nothing reads what it guards again; the
\* entries after this one are asked.
AskUnwinds ==
    /\ asker.store # NoStore
    /\ entry' = [entry EXCEPT ![asker.store] = Unattached(TRUE)]
    /\ asker' = [asker EXCEPT !.left = @ \ {asker.store}, !.store = NoStore, !.read = FALSE,
                              !.since = 0]
    /\ UNCHANGED <<signals, ops, lane, turn>>

\* A panic before any entry is asked: the turn leaves no deadline.
TurnUnwindsWhole ==
    /\ asker.asking /\ asker.left = Stores /\ asker.store = NoStore
    /\ signals' = [signals EXCEPT !.earliest = Never]
    /\ asker' = Waiting(TRUE)
    /\ UNCHANGED <<entry, ops, lane, turn>>

\* Mutant of SleepUntil: the deadline is all the scheduler sleeps until.
SleepUntilThatAlone ==
    /\ asker.asking /\ asker.left = {} /\ asker.store = NoStore
    /\ signals' = [signals EXCEPT !.earliest = asker.found, !.retry = Never]
    /\ asker' = Waiting(FALSE)
    /\ UNCHANGED <<entry, ops, lane, turn>>

SleepUntil ==
    /\ asker.asking /\ asker.left = {} /\ asker.store = NoStore
    /\ signals' = [signals EXCEPT !.earliest = asker.found]
    /\ asker' = Waiting(FALSE)
    /\ UNCHANGED <<entry, ops, lane, turn>>

----------------------------------------------------------------------------
(* The legs of an entry, as far as the scheduler and the lane meet them    *)

ClaimAt(s, state) == entry[s].claim = state

Moves(s, state) == entry' = [entry EXCEPT ![s].claim = state]

\* An attach opens the store and binds its verification.
AttachBinds(s) ==
    /\ GateFree(s) /\ ~entry[s].attached /\ ClaimAt(s, "open")
    /\ ~ops[s].running
    /\ ops' = [ops EXCEPT ![s].bound = TRUE, ![s].clock = ClockOf(Verified, s)]
    /\ Moves(s, "attaching")
    /\ UNCHANGED <<signals, asker, lane, turn>>

\* install_coverage over the store it filled, with the delivery committed, which
\* owes the engine's initialization, and the claim given back.
AttachInstalls(s) ==
    /\ GateFree(s) /\ ClaimAt(s, "attaching")
    /\ \E rung, feeds \in BOOLEAN :
        /\ rung => ~feeds
        /\ entry' = [entry EXCEPT ![s].attached = TRUE, ![s].claim = "open", ![s].rung = rung,
                                  ![s].feeds = feeds, ![s].due = ClockOf(Maintained, s)]
    /\ ops' = [ops EXCEPT ![s].current = TRUE, ![s].upkeep = ClockOf(Maintained, s),
                          ![s].feed = IF s \in Engines THEN "landed" ELSE @,
                          ![s].owed = IF s \in Engines THEN "recorded" ELSE @]
    /\ Wake
    /\ UNCHANGED <<asker, lane, turn>>

\* A job or a poll takes the claim; a rung is owed until a leg climbs it.
TakesClaim(s) ==
    /\ GateFree(s) /\ entry[s].attached /\ ClaimAt(s, "open")
    /\ Moves(s, "leg")
    /\ UNCHANGED <<signals, asker, ops, lane, turn>>

\* owe_semantic: the leg commits, owes, and wakes, on a host that composes engines.
LegCommits(s) ==
    /\ ClaimAt(s, "leg") /\ Engines # {} /\ ops[s].current
    /\ ops' = [ops EXCEPT ![s].feed = IF s \in Engines THEN "landed" ELSE @]
    /\ Moves(s, "committed")
    /\ UNCHANGED <<signals, asker, lane, turn>>

LegOwes(s) ==
    /\ ClaimAt(s, "committed")
    /\ ops' = IF s \in Engines THEN [ops EXCEPT ![s].owed = "recorded"] ELSE ops
    /\ Moves(s, "owing")
    /\ UNCHANGED <<signals, asker, lane, turn>>

LegWakes(s) ==
    /\ GateFree(s) /\ ClaimAt(s, "owing")
    /\ Moves(s, "leg")
    /\ WakeIf(Engines # {})
    /\ UNCHANGED <<asker, ops, lane, turn>>

InUnit(t) == turn[t].pc \in {"verifying", "returned", "seen", "draining", "judging"}

\* A slot that prepares again owes its initialization; one out of service owes
\* nothing.  A delivery that retires with its attachment owes what it owed.
OwedOnRetiring(s) ==
    IF ClaimAt(s, "detaching") \/ s \notin Engines THEN {ops[s].owed}
    ELSE {ops[s].owed, "recorded"}

\* The slot lock a unit reads its page under is waited for; a unit over the
\* lifetime that retires finds it stale where it ends.
RetireStore(s) ==
    /\ \A t \in LaneThreads : turn[t].store = s => turn[t].pc # "seen"
    /\ \E owed \in OwedOnRetiring(s) :
         ops' = [ops EXCEPT ![s].bound = FALSE, ![s].clock = Never, ![s].current = FALSE,
                            ![s].owed = owed]
    /\ turn' = [t \in LaneThreads |->
                  IF turn[t].store = s /\ InUnit(t) THEN [turn[t] EXCEPT !.stale = TRUE]
                  ELSE turn[t]]

\* A rebuild discards the store.  No read is served over one.
LegDiscards(s) ==
    /\ ClaimAt(s, "leg") /\ ops[s].current /\ entry[s].rung
    /\ RetireStore(s)
    /\ Moves(s, "discarded")
    /\ UNCHANGED <<signals, asker, lane>>

\* Mutant of LegRebinds: no verification is waited for.
LegRebindsAtOnce(s) ==
    /\ ClaimAt(s, "discarded")
    /\ ops' = [ops EXCEPT ![s].bound = TRUE, ![s].clock = ClockOf(Verified, s),
                          ![s].feed = IF s \in Engines THEN "landed" ELSE @]
    /\ Moves(s, "committed")
    /\ UNCHANGED <<signals, asker, lane, turn>>

\* It binds the store it opens, once a verification of the old one is back,
\* and builds it: the leg commits.
LegRebinds(s) ==
    /\ ClaimAt(s, "discarded") /\ ~ops[s].running
    /\ ops' = [ops EXCEPT ![s].bound = TRUE, ![s].clock = ClockOf(Verified, s),
                          ![s].feed = IF s \in Engines THEN "landed" ELSE @]
    /\ Moves(s, "committed")
    /\ UNCHANGED <<signals, asker, lane, turn>>

Returns(s, feeds) == ~entry[s].feeds /\ feeds

\* publish_delivery: the engine's delivery is committed beside the lifetime.
Delivers(s) == s \in Engines /\ ~ops[s].current

\* A unit of maintenance moves its clock on; a pass not yet done keeps it due.
UpkeepAfter(s) ==
    IF ClaimAt(s, "maintenance") /\ Past(ops[s].upkeep)
    THEN {ops[s].upkeep, ClockOf(Maintained, s)} ELSE {ops[s].upkeep}

\* Mutant of LegPublishes: a release sends no wake for the mark.
LegPublishesQuietly(s) ==
    /\ GateFree(s) /\ entry[s].claim \in {"leg", "maintenance"}
    /\ \E claim \in {"open", "leg"}, rung, feeds \in BOOLEAN, upkeep \in UpkeepAfter(s) :
        /\ feeds => ~rung /\ ~entry[s].damage
        /\ entry[s].damage => rung /\ claim = "leg"
        /\ entry' = [entry EXCEPT ![s].claim = claim, ![s].rung = rung, ![s].feeds = feeds,
                                  ![s].damage = FALSE]
        /\ ops' = [ops EXCEPT ![s].current = TRUE, ![s].upkeep = upkeep]
        /\ WakeIf(Returns(s, feeds) \/ Delivers(s))
    /\ UNCHANGED <<asker, lane, turn>>

\* A leg ends, or hands the claim on, and says what it leaves: a rung owed, a
\* read stance, the damage met beside it published, a delivery committed.
LegPublishes(s) ==
    /\ GateFree(s) /\ entry[s].claim \in {"leg", "maintenance"}
    /\ \E claim \in {"open", "leg"}, rung, feeds \in BOOLEAN, upkeep \in UpkeepAfter(s) :
        /\ feeds => ~rung /\ ~entry[s].damage
        /\ entry[s].damage => rung /\ claim = "leg"
        /\ entry' = [entry EXCEPT ![s].claim = claim, ![s].rung = rung, ![s].feeds = feeds,
                                  ![s].damage = FALSE]
        /\ ops' = [ops EXCEPT ![s].current = TRUE, ![s].upkeep = upkeep]
        /\ WakeIf(\/ claim = "open" /\ entry[s].mark
                  \/ Returns(s, feeds)
                  \/ Delivers(s))
    /\ UNCHANGED <<asker, lane, turn>>

\* Facts, a refusal or a park withdraw the stance, and a hold returns it.
StanceMoves(s) ==
    /\ GateFree(s) /\ entry[s].attached /\ ops[s].current
    /\ entry[s].claim \notin {"detaching", "detached"}
    /\ ~entry[s].feeds => ~entry[s].rung
    /\ entry' = [entry EXCEPT ![s].feeds = ~@]
    /\ WakeIf(~entry[s].feeds)
    /\ UNCHANGED <<asker, ops, lane, turn>>

\* The release of an attachment, by a detach or by a leg that fails: begun, over
\* coverage the entry gives up or a leg still has; the store's readers retired;
\* ended.  Both ends open the gate.
ReleaseBegins(s) ==
    /\ GateFree(s) /\ entry[s].claim \in {"attaching", "leg", "committed", "discarded"}
    /\ \E attached \in {FALSE, entry[s].attached} :
         entry' = [entry EXCEPT ![s].attached = attached, ![s].feeds = FALSE, ![s].rung = FALSE,
                                ![s].damage = FALSE, ![s].claim = "detaching"]
    /\ WakeIf(entry[s].mark)
    /\ UNCHANGED <<asker, ops, lane, turn>>

ReleaseRetires(s) ==
    /\ ClaimAt(s, "detaching")
    /\ RetireStore(s)
    /\ Moves(s, "detached")
    /\ UNCHANGED <<signals, asker, lane>>

ReleaseEnds(s) ==
    /\ GateFree(s) /\ ClaimAt(s, "detached") /\ ~ops[s].running
    /\ ops' = [ops EXCEPT ![s].owed = "settled", ![s].feed = "answered", ![s].upkeep = Never]
    /\ entry' = [entry EXCEPT ![s].attached = FALSE, ![s].claim = "open"]
    /\ WakeIf(entry[s].mark)
    /\ UNCHANGED <<asker, lane, turn>>

----------------------------------------------------------------------------
(* The lane                                                                *)

At(t, pc) == turn[t].pc = pc
StoreOf(t) == turn[t].store

Goes(t, pc) == turn' = [turn EXCEPT ![t].pc = pc]

\* next
TakesTurn(t) ==
    /\ At(t, "idle") /\ lane.queue # <<>>
    /\ LET s == Head(lane.queue)
       IN  /\ lane' = [lane EXCEPT !.queue = Tail(@), !.queued = @ \ {s}, !.running = @ \cup {s}]
           /\ turn' = [turn EXCEPT ![t] = [Idle EXCEPT !.pc = "boundary", !.store = s,
                                                       !.owed = TRUE]]
    /\ UNCHANGED <<signals, asker, entry, ops>>

\* The budget is spent, which it is not before a unit ran, or nothing is owed.
TurnStops(t) ==
    /\ At(t, "boundary") /\ (turn[t].ran \/ ~turn[t].owed)
    /\ Goes(t, "ending")
    /\ UNCHANGED <<signals, asker, entry, ops, lane>>

Feeds(s) == entry[s].attached /\ ~entry[s].poisoned /\ entry[s].feeds

\* feeds: the gate is taken for it and let go before the unit.
ReadsStance(t) ==
    /\ At(t, "boundary") /\ turn[t].owed
    /\ asker.store # StoreOf(t)
    /\ turn' = [turn EXCEPT ![t].pc   = IF Feeds(StoreOf(t)) THEN "unit" ELSE "ending",
                            ![t].owed = Feeds(StoreOf(t))]
    /\ UNCHANGED <<signals, asker, entry, ops, lane>>

UnitEnds(t, owed) ==
    turn' = [turn EXCEPT ![t].pc = "boundary", ![t].owed = owed, ![t].ran = TRUE,
                         ![t].stale = FALSE]

FindsNothingOwed(t) ==
    /\ At(t, "unit") /\ ~BackgroundOwed(StoreOf(t))
    /\ turn' = [turn EXCEPT ![t].pc = "ending", ![t].owed = FALSE]
    /\ UNCHANGED <<signals, asker, entry, ops, lane>>

VerificationBegins(t) ==
    /\ At(t, "unit") /\ VerificationOwed(StoreOf(t))
    /\ ops' = [ops EXCEPT ![StoreOf(t)].running = TRUE]
    /\ Goes(t, "verifying")
    /\ UNCHANGED <<signals, asker, entry, lane>>

\* The stop is taken back first, which a retirement waits for.
VerificationReturns(t) ==
    /\ At(t, "verifying")
    /\ ops' = [ops EXCEPT ![StoreOf(t)].running = FALSE]
    /\ Goes(t, "returned")
    /\ UNCHANGED <<signals, asker, entry, lane>>

ClockMoves(t, at) ==
    ops' = IF turn[t].stale THEN ops ELSE [ops EXCEPT ![StoreOf(t)].clock = at]

\* Sound, refused or interrupted.
VerificationEnds(t) ==
    /\ At(t, "returned")
    /\ ClockMoves(t, Interval)
    /\ UnitEnds(t, EngineOwes(StoreOf(t)) \/ (turn[t].stale /\ VerificationOwed(StoreOf(t))))
    /\ UNCHANGED <<signals, asker, entry, lane>>

VerificationFindsDamage(t) ==
    /\ At(t, "returned") /\ ~turn[t].stale
    /\ ClockMoves(t, RetryAfter)
    /\ turn' = [turn EXCEPT ![t].pc = "judging", ![t].owed = FALSE]
    /\ UNCHANGED <<signals, asker, entry, lane>>

\* A unit of the engine reads what is owed before its snapshot.
EngineUnitBegins(t) ==
    /\ At(t, "unit") /\ ~VerificationOwed(StoreOf(t)) /\ EngineOwes(StoreOf(t))
    /\ ops' = [ops EXCEPT ![StoreOf(t)].owed = "seen"]
    /\ Goes(t, "seen")
    /\ UNCHANGED <<signals, asker, entry, lane>>

ReadsPage(t) ==
    /\ At(t, "seen")
    /\ ops' = IF turn[t].stale THEN ops
              ELSE [ops EXCEPT ![StoreOf(t)].feed = IF @ = "answered" THEN @ ELSE "read"]
    /\ Goes(t, "draining")
    /\ UNCHANGED <<signals, asker, entry, lane>>

\* Retired meanwhile: the page is discarded and nothing is settled.
DiscardsPage(t) ==
    /\ At(t, "draining") /\ turn[t].stale
    /\ UnitEnds(t, FALSE)
    /\ UNCHANGED <<signals, asker, entry, ops, lane>>

\* A page of several, or an initialization.
DrainsPage(t) ==
    /\ At(t, "draining") /\ ~turn[t].stale
    /\ UnitEnds(t, TRUE)
    /\ UNCHANGED <<signals, asker, entry, ops, lane>>

\* Mutant of DrainsLast: every owe recorded so far is settled.
DrainsLastSettlingAll(t) ==
    /\ At(t, "draining") /\ ~turn[t].stale
    /\ ops' = [ops EXCEPT ![StoreOf(t)].owed = "settled",
                          ![StoreOf(t)].feed = IF @ = "read" THEN "answered" ELSE @]
    /\ UnitEnds(t, FALSE)
    /\ UNCHANGED <<signals, asker, entry, lane>>

\* Nothing more is owed of what the snapshot saw, or its step failed and leaves
\* its rows to the cursor: what was seen is settled.
DrainsLast(t) ==
    /\ At(t, "draining") /\ ~turn[t].stale
    /\ ops' = [ops EXCEPT ![StoreOf(t)].owed = IF @ = "seen" THEN "settled" ELSE @,
                          ![StoreOf(t)].feed = IF @ = "read" THEN "answered" ELSE @]
    /\ UnitEnds(t, ops'[StoreOf(t)].owed # "settled")
    /\ UNCHANGED <<signals, asker, entry, lane>>

\* The engine takes itself out of service: there is nothing left to drain for.
EngineFails(t) ==
    /\ At(t, "draining") /\ ~turn[t].stale
    /\ ops' = [ops EXCEPT ![StoreOf(t)].owed = "settled", ![StoreOf(t)].feed = "answered"]
    /\ UnitEnds(t, FALSE)
    /\ UNCHANGED <<signals, asker, entry, lane>>

UnitRefused(t) ==
    /\ At(t, "draining") /\ ~turn[t].stale
    /\ UnitEnds(t, FALSE)
    /\ RetryAt(RetryAfter)
    /\ UNCHANGED <<asker, entry, ops, lane>>

FeedReadFindsDamage(t) ==
    /\ At(t, "draining") /\ ~turn[t].stale
    /\ turn' = [turn EXCEPT ![t].pc = "judging", ![t].owed = FALSE]
    /\ UNCHANGED <<signals, asker, entry, ops, lane>>

\* The verdict counts for the lifetime it read, over a stance that feeds: a
\* free entry owes the rebuild at once, a held one at the end of its claim.
JudgesDamage(t) ==
    /\ At(t, "judging")
    /\ asker.store # StoreOf(t)
    /\ LET s == StoreOf(t)
       IN  entry' = IF turn[t].stale \/ ~Feeds(s) THEN entry
                    ELSE IF ClaimAt(s, "open")
                    THEN [entry EXCEPT ![s].feeds = FALSE, ![s].rung = TRUE, ![s].claim = "leg"]
                    ELSE [entry EXCEPT ![s].damage = TRUE]
    /\ UnitEnds(t, FALSE)
    /\ UNCHANGED <<signals, asker, ops, lane>>

\* Mutant of TurnUnwinds: the store whose turn unwound is left to the next ask.
TurnUnwindsUnheard(t) ==
    /\ turn[t].pc \in {"unit", "verifying", "seen", "draining", "judging"}
    /\ ops' = IF At(t, "verifying") THEN [ops EXCEPT ![StoreOf(t)].running = FALSE] ELSE ops
    /\ turn' = [turn EXCEPT ![t].pc = "finishing", ![t].owed = FALSE, ![t].stale = FALSE]
    /\ UNCHANGED <<signals, asker, entry, lane>>

\* The stop is taken back, and the scheduler asks again after a while.
TurnUnwinds(t) ==
    /\ turn[t].pc \in {"unit", "verifying", "seen", "draining", "judging"}
    /\ ops' = IF At(t, "verifying") THEN [ops EXCEPT ![StoreOf(t)].running = FALSE] ELSE ops
    /\ turn' = [turn EXCEPT ![t].pc = "finishing", ![t].owed = FALSE, ![t].stale = FALSE]
    /\ RetryAt(RetryAfter)
    /\ UNCHANGED <<asker, entry, lane>>

\* The clock's next reading is handed back.
TurnEnds(t) ==
    /\ At(t, "ending")
    /\ RetryAt(VerificationDeadline(StoreOf(t)))
    /\ Goes(t, "finishing")
    /\ UNCHANGED <<asker, entry, ops, lane>>

\* finish lets the set go before it queues the store again.
Finishes(t) ==
    /\ At(t, "finishing")
    /\ lane' = [lane EXCEPT !.running = @ \ {StoreOf(t)}, !.again = @ \ {StoreOf(t)}]
    /\ turn' = [turn EXCEPT ![t] = IF turn[t].owed \/ StoreOf(t) \in lane.again
                                   THEN [@ EXCEPT !.pc = "requeueing"] ELSE Idle]
    /\ UNCHANGED <<signals, asker, entry, ops>>

Requeues(t) ==
    /\ At(t, "requeueing")
    /\ lane' = Enqueue(StoreOf(t))
    /\ turn' = [turn EXCEPT ![t] = Idle]
    /\ UNCHANGED <<signals, asker, entry, ops>>

----------------------------------------------------------------------------
(* The specification                                                       *)

Tick ==
    /\ asker.store # NoStore => asker.since < HoldTicks
    /\ signals' = [signals EXCEPT !.earliest = Elapse(@, 0), !.retry = Elapse(@, 0)]
    /\ asker' = [asker EXCEPT !.found = Elapse(@, 0),
                              !.since = IF asker.store = NoStore THEN @ ELSE @ + 1]
    /\ entry' = [s \in Stores |-> [entry[s] EXCEPT !.due = Elapse(@, 0)]]
    /\ ops' = [s \in Stores |-> [ops[s] EXCEPT !.clock  = Elapse(@, -HoldTicks),
                                               !.upkeep = Elapse(@, 0)]]
    /\ UNCHANGED <<lane, turn>>

Scheduling ==
    \/ NextTurn \/ ReadsOwed \/ EndsAsk \/ SleepUntil
    \/ \E s \in Stores : PassesPoisoned(s) \/ AsksUncovered(s) \/ BeginsAsk(s)

Attaching(s) == AttachBinds(s) \/ AttachInstalls(s)

Working(s) ==
    \/ TakesClaim(s) \/ LegCommits(s) \/ LegOwes(s) \/ LegWakes(s)
    \/ LegDiscards(s) \/ LegRebinds(s) \/ LegPublishes(s)

Releasing(s) == ReleaseBegins(s) \/ ReleaseRetires(s) \/ ReleaseEnds(s)

Verifying(t) ==
    VerificationBegins(t) \/ VerificationReturns(t) \/ VerificationEnds(t)
    \/ VerificationFindsDamage(t)

Draining(t) ==
    \/ EngineUnitBegins(t) \/ ReadsPage(t) \/ DiscardsPage(t) \/ DrainsPage(t)
    \/ DrainsLast(t) \/ EngineFails(t) \/ UnitRefused(t) \/ FeedReadFindsDamage(t)

Turning(t) ==
    \/ TakesTurn(t) \/ TurnStops(t) \/ FindsNothingOwed(t) \/ TurnEnds(t)
    \/ Finishes(t) \/ Requeues(t)

Next ==
    \/ Scheduling \/ AskUnwinds \/ TurnUnwindsWhole \/ Tick
    \/ \E s \in Stores : Attaching(s) \/ Working(s) \/ StanceMoves(s) \/ Releasing(s)
    \/ \E t \in LaneThreads :
         Turning(t) \/ ReadsStance(t) \/ Verifying(t) \/ Draining(t) \/ JudgesDamage(t)
         \/ TurnUnwinds(t)

Spec == Init /\ [][Next]_vars

\* The threads go on with what they have begun, a leg that works ends, and a
\* thread that waits for a gate others take and let go gets it.
FairSpec ==
    /\ Spec
    /\ WF_vars(Scheduling) /\ WF_vars(Tick)
    /\ \A s \in Stores : WF_vars(LegOwes(s)) /\ SF_vars(LegWakes(s)) /\ SF_vars(LegPublishes(s))
    /\ \A t \in LaneThreads :
         /\ WF_vars(Turning(t)) /\ WF_vars(Verifying(t)) /\ WF_vars(Draining(t))
         /\ SF_vars(ReadsStance(t)) /\ SF_vars(JudgesDamage(t))

----------------------------------------------------------------------------
(* Properties                                                              *)

InTurn(t) == turn[t].pc \notin {"idle", "requeueing"}

\* The scheduler wakes at a deadline no later, or has yet to note one.
AsksBy(at) ==
    \E deadline \in {signals.earliest, signals.retry, asker.found} :
        Past(deadline) \/ deadline <= at

StillToRead(s) == asker.asking /\ s \in asker.left /\ ~(asker.store = s /\ asker.read)

LaneWillLook(s) ==
    \/ s \in lane.queued \cup lane.again
    \/ \E t \in LaneThreads : StoreOf(t) = s /\ (turn[t].owed \/ turn[t].pc \in {"judging", "requeueing"})

ClockIsToBeRead(s) ==
    \/ asker.store = s /\ LaneDeadline(s) # Never
    \/ \E t \in LaneThreads : StoreOf(t) = s /\ turn[t].pc \in {"boundary", "ending"}

LegWillSay(s) == entry[s].claim \in {"committed", "owing"} \/ entry[s].damage

Reached(s) ==
    signals.woken \/ StillToRead(s) \/ LaneWillLook(s) \/ LegWillSay(s)

\* Over a stance that feeds, work an engine owes is in the lane's set or on its
\* way there, or the scheduler asks again within the retry; and a verification
\* whose clock runs is looked at by its time, or within the retry of a turn that
\* unwound or was refused (background.rs, lane.rs).
OwedStoreIsReached ==
    \A s \in Stores : Feeds(s) /\ ~asker.unwound =>
        /\ EngineOwes(s) => Reached(s) \/ signals.retry <= RetryAfter
        /\ VerificationDeadline(s) # Never =>
             \/ Reached(s) \/ ClockIsToBeRead(s)
             \/ AsksBy(VerificationDeadline(s)) \/ signals.retry <= RetryAfter

\* Maintenance of a covered entry is asked for by its time, or stands marked
\* where the move that opens the gate wakes the scheduler (claim.rs:61).
DueUpkeepIsReached ==
    \A s \in Stores : entry[s].attached /\ ~entry[s].poisoned /\ ~asker.unwound =>
        \/ signals.woken
        \/ asker.asking /\ s \in asker.left
        \/ AsksBy(ops[s].upkeep)
        \/ entry[s].mark /\ (entry[s].claim # "open" \/ entry[s].rung)

\* At most one turn runs for a store, and it is queued once and not beside its
\* turn (lane.rs:96).
OneTurnPerStore ==
    /\ \A t, u \in LaneThreads : InTurn(t) /\ InTurn(u) /\ StoreOf(t) = StoreOf(u) => t = u
    /\ lane.running = {StoreOf(t) : t \in {u \in LaneThreads : InTurn(u)}}
    /\ lane.again \subseteq lane.running
    /\ lane.queued \cap lane.running = {}
    /\ IsInjective(lane.queue) /\ ToSet(lane.queue) = lane.queued

\* No owe is lost to a unit that ran beside it: rows no unit has answered for
\* are owed, or the leg that committed them is about to say so or has failed, and
\* the delivery goes back with the coverage (semantic.rs:612).
UnansweredFeedIsOwed ==
    \A s \in Stores :
        entry[s].attached /\ ops[s].feed # "answered" =>
            ops[s].owed # "settled" \/ entry[s].claim \in {"committed", "detaching", "detached"}

\* A lifetime is bound only once the verification of the one before is back
\* (verification.rs:19).
OneLifetimeIsVerified ==
    \A t \in LaneThreads : At(t, "verifying") /\ turn[t].stale => ~ops[StoreOf(t)].bound

\* Over a stance that goes on feeding, owed work gets a unit again and again,
\* whatever refusals, unwinds and legs come between (lane.rs:247).
OwedWorkRuns ==
    \A s \in Stores :
        Feeds(s) /\ BackgroundOwed(s)
          ~> \/ ~Feeds(s) \/ ~BackgroundOwed(s) \/ asker.unwound
             \/ \E t \in LaneThreads : StoreOf(t) = s /\ At(t, "unit")
=============================================================================
