-------------------------- MODULE Background_proofs --------------------------
(***************************************************************************)
(* The safety of the lane, of what it settles of an engine's owed work,    *)
(* and of the deadlines and wakes that bring the scheduler to upkeep and   *)
(* to owed work, for any stores, lane threads, engines and clocks, and for *)
(* any interval and retry.                                                 *)
(***************************************************************************)
EXTENDS Background, TLAPS

\* What a turn has of the store it runs for: it is one of the host's, its stop
\* is recorded while a verification runs, and only a unit's lifetime retires.
UnitInv ==
    \A t \in LaneThreads :
        /\ ~At(t, "idle") => StoreOf(t) \in Stores
        /\ At(t, "verifying") => ops[StoreOf(t)].running
        /\ turn[t].stale => InUnit(t)

Inv == TypeOK /\ UnitInv /\ OneTurnPerStore /\ OneLifetimeIsVerified

----------------------------------------------------------------------------
(* Times                                                                   *)

LEMMA TimesAreClocks == Times \subseteq Clocks /\ \A set, s : ClockOf(set, s) \in Clocks
  BY BackgroundAssumption DEF Times, Clocks, Never, ClockOf

LEMMA NamedTimes ==
    /\ Never \in Times /\ RetryAfter \in Times /\ Interval \in Times
    /\ \A set, s : ClockOf(set, s) \in Times
  BY BackgroundAssumption DEF Times, Never, ClockOf

LEMMA NoTicks == 0 \in 0..HoldTicks
  BY BackgroundAssumption

LEMMA EarlierTime == \A one, other \in Times : Earlier(one, other) \in Times
  BY DEF Earlier

LEMMA AheadTime == \A at \in Clocks : Ahead(at) \in Times
  BY BackgroundAssumption DEF Ahead, Past, Clocks, Times, Never

LEMMA ElapsedTime == \A at \in Times : Elapse(at, 0) \in Times
  BY BackgroundAssumption DEF Elapse, Times, Never

LEMMA ElapsedClock == \A at \in Clocks : Elapse(at, -HoldTicks) \in Clocks
  BY BackgroundAssumption DEF Elapse, Clocks, Never

LEMMA ReadClocks ==
  ASSUME TypeOK, NEW s \in Stores
  PROVE  /\ VerificationDeadline(s) \in Clocks
         /\ LaneDeadline(s) \in Times
  <1>1. VerificationDeadline(s) \in Clocks
    BY NamedTimes, TimesAreClocks DEF TypeOK, OpsStates, VerificationDeadline
  <1>2. LaneDeadline(s) \in Times
    BY <1>1, NamedTimes, AheadTime DEF LaneDeadline
  <1> QED BY <1>1, <1>2

LEMMA WaitingTyped == \A unwound \in BOOLEAN : Waiting(unwound) \in Askers
  BY NamedTimes, BackgroundAssumption DEF Waiting, Askers

\* The moves of the signals keep their type.
LEMMA WakeTyped ==
  ASSUME signals \in Signals, NEW condition \in BOOLEAN, WakeIf(condition) PROVE signals' \in Signals
  BY DEF Signals, WakeIf

LEMMA RetryTyped ==
  ASSUME signals \in Signals, NEW at \in Clocks, RetryAt(at) PROVE signals' \in Signals
  BY AheadTime, EarlierTime DEF Signals, RetryAt

----------------------------------------------------------------------------
(* The lane                                                                *)

LEMMA InitInv == Init => Inv
  <1> SUFFICES ASSUME Init PROVE Inv
    OBVIOUS
  <1>1. TypeOK
    BY NamedTimes, TimesAreClocks, BackgroundAssumption
    DEF Init, TypeOK, Signals, Askers, EntryStates, OpsStates, LaneStates, TurnStates, Waiting,
        Unattached, Idle, ClaimStates, Pcs
  <1>2. UnitInv /\ OneLifetimeIsVerified
    BY DEF Init, UnitInv, OneLifetimeIsVerified, Idle, At
  <1>3. OneTurnPerStore
    BY DEF Init, OneTurnPerStore, InTurn, Idle, IsInjective, ToSet
  <1> QED BY <1>1, <1>2, <1>3 DEF Inv

\* What says nothing new of the lane and of running verifications keeps what the
\* invariant says of them: no turn begins or ends, no verification begins, and a
\* store is bound only where none runs.
LEMMA LaneStands ==
  ASSUME Inv, lane' = lane,
         turn' \in [LaneThreads -> TurnStates], ops' \in [Stores -> OpsStates],
         \A s \in Stores : /\ ops'[s].running = ops[s].running
                           /\ ops'[s].bound => ops[s].bound \/ ~ops[s].running,
         \A t \in LaneThreads :
             /\ turn'[t].store = turn[t].store
             /\ turn'[t].pc = "idle" <=> turn[t].pc = "idle"
             /\ turn'[t].pc = "requeueing" <=> turn[t].pc = "requeueing"
             /\ turn'[t].pc = "verifying" => turn[t].pc = "verifying"
             /\ turn'[t].stale =>
                    /\ turn'[t].pc \in {"verifying", "returned", "seen", "draining", "judging"}
                    /\ turn[t].stale \/ ~ops'[turn[t].store].bound
  PROVE  UnitInv' /\ OneTurnPerStore' /\ OneLifetimeIsVerified'
  <1>1. UnitInv'
    BY DEF Inv, UnitInv, At, StoreOf, InUnit
  <1>2. OneLifetimeIsVerified'
    BY DEF Inv, UnitInv, OneLifetimeIsVerified, At, StoreOf
  <1>3. \A t \in LaneThreads : InTurn(t)' = InTurn(t) /\ StoreOf(t)' = StoreOf(t)
    BY DEF InTurn, StoreOf
  <1>4. OneTurnPerStore'
    BY <1>3 DEF Inv, OneTurnPerStore
  <1> QED BY <1>1, <1>2, <1>4

\* A store put in the set, not beside its turn and not twice.
LEMMA EnqueueTyped ==
  ASSUME lane \in LaneStates, NEW s \in Stores PROVE Enqueue(s) \in LaneStates
  <1>1. Append(lane.queue, s) \in Seq(Stores)
    BY DEF LaneStates
  <1> QED BY <1>1 DEF Enqueue, LaneStates

LEMMA EnqueueOnce ==
  ASSUME lane \in LaneStates, NEW s \in Stores,
         lane.again \subseteq lane.running, lane.queued \cap lane.running = {},
         IsInjective(lane.queue), ToSet(lane.queue) = lane.queued
  PROVE  LET set == Enqueue(s)
         IN  /\ set.running = lane.running
             /\ set.again \subseteq set.running /\ set.queued \cap set.running = {}
             /\ IsInjective(set.queue) /\ ToSet(set.queue) = set.queued
  <1>1. CASE s \in lane.running \/ s \in lane.queued
    <2>1. Enqueue(s).queue = lane.queue /\ Enqueue(s).queued = lane.queued
      BY <1>1 DEF Enqueue, LaneStates
    <2>2. Enqueue(s).running = lane.running /\ Enqueue(s).again \subseteq lane.running
      BY <1>1 DEF Enqueue, LaneStates
    <2> QED BY <2>1, <2>2
  <1>2. CASE s \notin lane.running /\ s \notin lane.queued
    <2> DEFINE q == lane.queue
    <2>1. q \in Seq(Stores)
      BY DEF LaneStates
    <2>2. Enqueue(s) = [lane EXCEPT !.queue = Append(q, s), !.queued = @ \cup {s}]
      BY <1>2 DEF Enqueue
    <2>3. /\ Len(Append(q, s)) = Len(q) + 1
          /\ \A i \in 1..Len(q) : Append(q, s)[i] = q[i]
          /\ Append(q, s)[Len(q) + 1] = s
          /\ DOMAIN Append(q, s) = 1..(Len(q) + 1) /\ DOMAIN q = 1..Len(q) /\ Len(q) \in Nat
      BY <2>1
    <2>4. \A i \in 1..Len(q) : q[i] # s
      BY <1>2, <2>3 DEF ToSet
    <2>5. IsInjective(Append(q, s))
      BY <2>3, <2>4 DEF IsInjective
    <2>6. ToSet(Append(q, s)) = lane.queued \cup {s}
      BY <2>3 DEF ToSet
    <2> QED BY <1>2, <2>2, <2>5, <2>6 DEF LaneStates
  <1> QED BY <1>1, <1>2

\* The store at the head leaves the queue and is nowhere else in it.
LEMMA HeadLeaves ==
  ASSUME NEW q \in Seq(Stores), q # <<>>, IsInjective(q)
  PROVE  Head(q) \in ToSet(q) /\ IsInjective(Tail(q)) /\ ToSet(Tail(q)) = ToSet(q) \ {Head(q)}
  <1>1. /\ Len(q) \in Nat \ {0} /\ DOMAIN q = 1..Len(q) /\ Head(q) = q[1]
        /\ DOMAIN Tail(q) = 1..(Len(q) - 1)
        /\ \A i \in 1..(Len(q) - 1) : Tail(q)[i] = q[i + 1]
    OBVIOUS
  <1>2. \A i, j \in 1..Len(q) : q[i] = q[j] => i = j
    BY <1>1 DEF IsInjective
  <1>3. IsInjective(Tail(q))
    <2> SUFFICES ASSUME NEW i \in 1..(Len(q) - 1), NEW j \in 1..(Len(q) - 1), Tail(q)[i] = Tail(q)[j]
                 PROVE  i = j
      BY <1>1 DEF IsInjective
    <2>1. q[i + 1] = q[j + 1] /\ i + 1 \in 1..Len(q) /\ j + 1 \in 1..Len(q)
      BY <1>1
    <2> QED BY <2>1, <1>2
  <1>4. ToSet(Tail(q)) \subseteq ToSet(q) \ {Head(q)}
    <2> SUFFICES ASSUME NEW i \in 1..(Len(q) - 1) PROVE Tail(q)[i] \in ToSet(q) \ {q[1]}
      BY <1>1 DEF ToSet
    <2>1. i + 1 \in 1..Len(q) /\ 1 \in 1..Len(q) /\ i + 1 # 1 /\ Tail(q)[i] = q[i + 1]
      BY <1>1
    <2> QED BY <2>1, <1>1, <1>2 DEF ToSet
  <1>5. ToSet(q) \ {Head(q)} \subseteq ToSet(Tail(q))
    <2> SUFFICES ASSUME NEW i \in 1..Len(q), q[i] # q[1] PROVE q[i] \in ToSet(Tail(q))
      BY <1>1 DEF ToSet
    <2>1. i - 1 \in 1..(Len(q) - 1) /\ Tail(q)[i - 1] = q[(i - 1) + 1] /\ (i - 1) + 1 = i
      BY <1>1
    <2> QED BY <2>1, <1>1 DEF ToSet
  <1>6. Head(q) \in ToSet(q)
    BY <1>1 DEF ToSet
  <1> QED BY <1>3, <1>4, <1>5, <1>6

----------------------------------------------------------------------------
(* The scheduler                                                           *)

\* A step of the scheduler: only ReadsOwed touches the lane.
LEMMA SchedulerStands ==
  ASSUME Inv, signals' \in Signals, asker' \in Askers, entry' \in [Stores -> EntryStates],
         UNCHANGED <<ops, lane, turn>>
  PROVE  Inv'
  <1>1. TypeOK'
    BY DEF Inv, TypeOK
  <1>2. UnitInv' /\ OneTurnPerStore' /\ OneLifetimeIsVerified'
    BY LaneStands DEF Inv, TypeOK, UnitInv, InUnit
  <1> QED BY <1>1, <1>2 DEF Inv

LEMMA SchedulingInv == ASSUME Inv, Scheduling PROVE Inv'
  <1> USE DEF Inv
  <1>1. CASE NextTurn
    <2>1. signals' \in Signals
      BY <1>1, NamedTimes DEF NextTurn, Signals
    <2>2. asker' \in Askers
      BY <1>1, NamedTimes, WaitingTyped DEF NextTurn, Askers
    <2> QED BY <1>1, <2>1, <2>2, SchedulerStands DEF NextTurn, TypeOK
  <1>2. CASE SleepUntil
    <2>1. signals' \in Signals
      BY <1>2 DEF SleepUntil, TypeOK, Signals, Askers
    <2> QED BY <1>2, <2>1, WaitingTyped, SchedulerStands DEF SleepUntil, TypeOK
  <1>3. ASSUME NEW s \in Stores, PassesPoisoned(s) \/ AsksUncovered(s) \/ BeginsAsk(s) PROVE Inv'
    <2>1. CASE PassesPoisoned(s)
      <3>1. asker' \in Askers
        BY <2>1 DEF PassesPoisoned, TypeOK, Askers
      <3> QED BY <2>1, <3>1, SchedulerStands DEF PassesPoisoned, TypeOK
    <2>2. CASE AsksUncovered(s)
      <3>1. asker' \in Askers
        BY <2>2 DEF AsksUncovered, TypeOK, Askers
      <3>2. entry' \in [Stores -> EntryStates]
        BY <2>2, NamedTimes DEF AsksUncovered, TypeOK, EntryStates
      <3> QED BY <2>2, <3>1, <3>2, SchedulerStands DEF AsksUncovered, TypeOK
    <2>3. CASE BeginsAsk(s)
      <3>1. asker' \in Askers
        BY <2>3, NoTicks DEF BeginsAsk, TypeOK, Askers
      <3> QED BY <2>3, <3>1, SchedulerStands DEF BeginsAsk, TypeOK
    <2> QED BY <1>3, <2>1, <2>2, <2>3
  <1>4. CASE ReadsOwed
    <2> DEFINE s == asker.store
    <2>1. s \in Stores
      BY <1>4 DEF ReadsOwed, TypeOK, Askers
    <2>2. lane' = lane \/ lane' = Enqueue(s)
      BY <1>4 DEF ReadsOwed
    <2>3. TypeOK'
      BY <1>4, <2>1, <2>2, EnqueueTyped DEF ReadsOwed, TypeOK, Askers
    <2>4. UnitInv' /\ OneLifetimeIsVerified'
      BY <1>4 DEF ReadsOwed, UnitInv, OneLifetimeIsVerified, At, StoreOf, InUnit
    <2>5. OneTurnPerStore'
      BY <1>4, <2>1, <2>2, EnqueueOnce DEF ReadsOwed, TypeOK, OneTurnPerStore, InTurn, StoreOf
    <2> QED BY <2>3, <2>4, <2>5
  <1>5. CASE EndsAsk
    <2> DEFINE s == asker.store
    <2>1. s \in Stores
      BY <1>5 DEF EndsAsk, TypeOK, Askers
    <2> DEFINE due  == IF entry[s].claim = "open" THEN ops[s].upkeep ELSE entry[s].due
               owes == Past(due)
               claim == IF owes /\ entry[s].claim = "open" /\ ~entry[s].rung
                        THEN "maintenance" ELSE entry[s].claim
               found == Earlier(asker.found, Earlier(LaneDeadline(s), IF owes THEN Never ELSE due))
    <2>2. due \in Times /\ owes \in BOOLEAN /\ claim \in ClaimStates
      BY <2>1 DEF TypeOK, EntryStates, OpsStates, ClaimStates, Past
    <2>3. found \in Times
      BY <2>1, <2>2, ReadClocks, NamedTimes, EarlierTime DEF TypeOK, Askers
    <2>4. /\ entry' = [entry EXCEPT ![s].due = due, ![s].mark = owes, ![s].claim = claim]
          /\ asker' = [asker EXCEPT !.left = @ \ {s}, !.store = NoStore, !.read = FALSE,
                                    !.since = 0, !.found = found]
      BY <1>5 DEF EndsAsk
    <2> HIDE DEF due, owes, claim, found
    <2>5. entry' \in [Stores -> EntryStates]
      BY <2>1, <2>2, <2>4 DEF TypeOK, EntryStates
    <2>6. asker' \in Askers
      BY <2>1, <2>3, <2>4, NoTicks DEF TypeOK, Askers
    <2> QED BY <1>5, <2>5, <2>6, SchedulerStands DEF EndsAsk, TypeOK
  <1> QED BY <1>1, <1>2, <1>3, <1>4, <1>5 DEF Scheduling

LEMMA UnwindsInv == ASSUME Inv, AskUnwinds \/ TurnUnwindsWhole PROVE Inv'
  <1> USE DEF Inv
  <1>1. CASE AskUnwinds
    <2>1. asker' \in Askers
      BY <1>1, NoTicks DEF AskUnwinds, TypeOK, Askers
    <2>2. Unattached(TRUE) \in EntryStates
      BY NamedTimes DEF Unattached, EntryStates, ClaimStates
    <2>3. entry' \in [Stores -> EntryStates]
      BY <1>1, <2>2 DEF AskUnwinds, TypeOK
    <2> QED BY <1>1, <2>1, <2>3, SchedulerStands DEF AskUnwinds, TypeOK
  <1>2. CASE TurnUnwindsWhole
    <2>1. signals' \in Signals
      BY <1>2, NamedTimes DEF TurnUnwindsWhole, TypeOK, Signals
    <2> QED BY <1>2, <2>1, WaitingTyped, SchedulerStands DEF TurnUnwindsWhole, TypeOK
  <1> QED BY <1>1, <1>2

LEMMA TickInv == ASSUME Inv, Tick PROVE Inv'
  <1> USE DEF Inv, TypeOK
  <1>1. signals' \in Signals
    BY ElapsedTime DEF Tick, Signals
  <1>2. asker' \in Askers
    <2>1. Elapse(asker.found, 0) \in Times
      BY ElapsedTime DEF Askers
    <2>2. (IF asker.store = NoStore THEN asker.since ELSE asker.since + 1) \in 0..HoldTicks
      <3>1. asker.since \in 0..HoldTicks
        BY DEF Askers
      <3>2. asker.store = NoStore \/ asker.since < HoldTicks
        BY DEF Tick
      <3> QED BY <3>1, <3>2, BackgroundAssumption
    <2>3. asker' = [asker EXCEPT !.found = Elapse(asker.found, 0),
                                 !.since = IF asker.store = NoStore THEN asker.since
                                           ELSE asker.since + 1]
      BY DEF Tick
    <2> QED BY <2>1, <2>2, <2>3 DEF Askers
  <1>3. entry' \in [Stores -> EntryStates]
    BY ElapsedTime DEF Tick, EntryStates
  <1>4. ops' \in [Stores -> OpsStates]
    BY ElapsedTime, ElapsedClock DEF Tick, OpsStates
  <1>5. \A s \in Stores : ops'[s].running = ops[s].running /\ ops'[s].bound = ops[s].bound
    BY DEF Tick, OpsStates
  <1>6. lane' = lane /\ turn' = turn
    BY DEF Tick
  <1>7. UnitInv' /\ OneTurnPerStore' /\ OneLifetimeIsVerified'
    BY <1>4, <1>5, <1>6, LaneStands DEF UnitInv, InUnit
  <1> QED BY <1>1, <1>2, <1>3, <1>4, <1>6, <1>7

----------------------------------------------------------------------------
(* The legs of an entry                                                    *)

\* A step of a leg that leaves the lane's threads alone.
LEMMA LegStands ==
  ASSUME Inv, signals' \in Signals, entry' \in [Stores -> EntryStates],
         ops' \in [Stores -> OpsStates],
         \A s \in Stores : /\ ops'[s].running = ops[s].running
                           /\ ops'[s].bound => ops[s].bound \/ ~ops[s].running,
         UNCHANGED <<asker, lane, turn>>
  PROVE  Inv'
  <1>1. TypeOK'
    BY DEF Inv, TypeOK
  <1>2. UnitInv' /\ OneTurnPerStore' /\ OneLifetimeIsVerified'
    BY LaneStands DEF Inv, TypeOK, UnitInv, InUnit
  <1> QED BY <1>1, <1>2 DEF Inv

LEMMA MovesTyped ==
  ASSUME entry \in [Stores -> EntryStates], NEW s \in Stores, NEW state \in ClaimStates,
         Moves(s, state)
  PROVE  entry' \in [Stores -> EntryStates]
  BY DEF Moves, EntryStates

LEMMA AttachingInv == ASSUME Inv, NEW s \in Stores, Attaching(s) PROVE Inv'
  <1>0. /\ signals \in Signals /\ entry \in [Stores -> EntryStates]
        /\ ops \in [Stores -> OpsStates] /\ turn \in [LaneThreads -> TurnStates]
    BY DEF Inv, TypeOK
  <1>1. CASE AttachBinds(s)
    <2>1. ops' \in [Stores -> OpsStates]
      <3>1. PICK clock \in Clocks : ops' = [ops EXCEPT ![s].bound = TRUE, ![s].clock = clock]
        BY <1>0, <1>1, TimesAreClocks DEF AttachBinds
      <3>2. [ops EXCEPT ![s].bound = TRUE, ![s].clock = clock] \in [Stores -> OpsStates]
        BY <1>0 DEF OpsStates
      <3> QED BY <3>1, <3>2
    <2> QED BY <1>0, <1>1, <2>1, MovesTyped, LegStands
            DEF AttachBinds, OpsStates, ClaimStates
  <1>2. CASE AttachInstalls(s)
    <2>1. ops' \in [Stores -> OpsStates]
      <3> DEFINE upkeep == ClockOf(Maintained, s)
                 feed == IF s \in Engines THEN "landed" ELSE ops[s].feed
                 owed == IF s \in Engines THEN "recorded" ELSE ops[s].owed
      <3>1. /\ upkeep \in Times
            /\ feed \in {"answered", "read", "landed"} /\ owed \in {"settled", "seen", "recorded"}
        BY <1>0, NamedTimes DEF OpsStates
      <3>2. ops' = [ops EXCEPT ![s].current = TRUE, ![s].upkeep = upkeep, ![s].feed = feed,
                               ![s].owed = owed]
        BY <1>0, <1>2 DEF AttachInstalls, OpsStates
      <3> HIDE DEF upkeep, feed, owed
      <3>3. [ops EXCEPT ![s].current = TRUE, ![s].upkeep = upkeep, ![s].feed = feed,
                        ![s].owed = owed] \in [Stores -> OpsStates]
        <4>1. ops[s] \in OpsStates
          BY <1>0
        <4>2. [ops[s] EXCEPT !.current = TRUE, !.upkeep = upkeep, !.feed = feed, !.owed = owed]
                \in OpsStates
          BY <4>1, <3>1 DEF OpsStates
        <4> QED BY <1>0, <4>2
      <3> QED BY <3>2, <3>3
    <2>2. entry' \in [Stores -> EntryStates]
      <3>1. PICK rung \in BOOLEAN, feeds \in BOOLEAN, due \in Times :
              entry' = [entry EXCEPT ![s].attached = TRUE, ![s].claim = "open", ![s].rung = rung,
                                     ![s].feeds = feeds, ![s].due = due]
        BY <1>2, NamedTimes DEF AttachInstalls
      <3>2. [entry EXCEPT ![s].attached = TRUE, ![s].claim = "open", ![s].rung = rung,
                          ![s].feeds = feeds, ![s].due = due] \in [Stores -> EntryStates]
        <4>1. entry[s] \in EntryStates
          BY <1>0
        <4>2. [entry[s] EXCEPT !.attached = TRUE, !.claim = "open", !.rung = rung,
                               !.feeds = feeds, !.due = due] \in EntryStates
          BY <4>1 DEF EntryStates, ClaimStates
        <4> QED BY <1>0, <4>2
      <3> QED BY <3>1, <3>2
    <2>3. signals' \in Signals
      BY <1>0, <1>2 DEF AttachInstalls, Wake, Signals
    <2> QED BY <1>0, <1>2, <2>1, <2>2, <2>3, LegStands DEF AttachInstalls, OpsStates
  <1> QED BY <1>1, <1>2 DEF Attaching

\* A retirement unbinds the store, so a verification of it may be told stale.
LEMMA RetirementInv ==
  ASSUME Inv, NEW s \in Stores, RetireStore(s), entry' \in [Stores -> EntryStates],
         UNCHANGED <<signals, asker, lane>>
  PROVE  Inv'
  <1>0. /\ signals \in Signals /\ entry \in [Stores -> EntryStates]
        /\ ops \in [Stores -> OpsStates] /\ turn \in [LaneThreads -> TurnStates]
    BY DEF Inv, TypeOK
  <1>1. ops' \in [Stores -> OpsStates]
    <2>1. PICK owed \in OwedOnRetiring(s) :
            ops' = [ops EXCEPT ![s].bound = FALSE, ![s].clock = Never, ![s].current = FALSE,
                               ![s].owed = owed]
      BY DEF RetireStore
    <2>2. owed \in {"settled", "seen", "recorded"}
      BY <1>0 DEF OwedOnRetiring, OpsStates
    <2>3. Never \in Clocks
      BY NamedTimes, TimesAreClocks
    <2>4. [ops EXCEPT ![s].bound = FALSE, ![s].clock = Never, ![s].current = FALSE,
                      ![s].owed = owed] \in [Stores -> OpsStates]
      <3>1. ops[s] \in OpsStates
        BY <1>0
      <3>2. [ops[s] EXCEPT !.bound = FALSE, !.clock = Never, !.current = FALSE, !.owed = owed]
              \in OpsStates
        BY <3>1, <2>2, <2>3 DEF OpsStates
      <3> QED BY <1>0, <3>2
    <2> QED BY <2>1, <2>4
  <1>2. turn' \in [LaneThreads -> TurnStates]
    <2>1. \A t \in LaneThreads : [turn[t] EXCEPT !.stale = TRUE] \in TurnStates
      BY <1>0 DEF TurnStates
    <2> QED BY <1>0, <2>1 DEF RetireStore
  <1>3. \A u \in Stores : ops'[u].running = ops[u].running /\ (ops'[u].bound => ops[u].bound)
    BY <1>0 DEF RetireStore, OpsStates
  <1>4. ~ops'[s].bound
    BY <1>0 DEF RetireStore, OpsStates
  <1>5. \A t \in LaneThreads :
          /\ turn'[t].store = turn[t].store /\ turn'[t].pc = turn[t].pc
          /\ turn'[t].stale => turn[t].stale \/ (turn[t].store = s /\ InUnit(t))
    BY <1>0 DEF RetireStore, TurnStates
  <1>6. UnitInv' /\ OneTurnPerStore' /\ OneLifetimeIsVerified'
    BY <1>0, <1>1, <1>2, <1>3, <1>4, <1>5, LaneStands DEF Inv, UnitInv, InUnit
  <1>7. TypeOK'
    BY <1>1, <1>2 DEF Inv, TypeOK
  <1> QED BY <1>6, <1>7 DEF Inv

LEMMA WorkingInv == ASSUME Inv, NEW s \in Stores, Working(s) PROVE Inv'
  <1>0. /\ signals \in Signals /\ entry \in [Stores -> EntryStates]
        /\ ops \in [Stores -> OpsStates] /\ turn \in [LaneThreads -> TurnStates]
    BY DEF Inv, TypeOK
  <1>1. CASE TakesClaim(s)
    BY <1>0, <1>1, MovesTyped, LegStands DEF TakesClaim, ClaimStates
  <1>2. CASE LegCommits(s) \/ LegOwes(s)
    <2>1. ops' \in [Stores -> OpsStates] /\ \A u \in Stores : /\ ops'[u].running = ops[u].running
                                                             /\ ops'[u].bound = ops[u].bound
      BY <1>0, <1>2 DEF LegCommits, LegOwes, OpsStates
    <2> QED BY <1>0, <1>2, <2>1, MovesTyped, LegStands DEF LegCommits, LegOwes, ClaimStates
  <1>3. CASE LegWakes(s)
    BY <1>0, <1>3, WakeTyped, MovesTyped, LegStands DEF LegWakes, ClaimStates
  <1>4. CASE LegDiscards(s)
    BY <1>0, <1>4, MovesTyped, RetirementInv DEF LegDiscards, ClaimStates
  <1>5. CASE LegRebinds(s)
    <2>1. ops' \in [Stores -> OpsStates]
      <3>1. PICK clock \in Clocks, feed \in {"answered", "read", "landed"} :
              ops' = [ops EXCEPT ![s].bound = TRUE, ![s].clock = clock, ![s].feed = feed]
        <4>1. ops[s].feed \in {"answered", "read", "landed"}
          BY <1>0 DEF OpsStates
        <4> QED BY <1>0, <1>5, <4>1, TimesAreClocks DEF LegRebinds, OpsStates
      <3>2. [ops EXCEPT ![s].bound = TRUE, ![s].clock = clock, ![s].feed = feed]
              \in [Stores -> OpsStates]
        <4>1. ops[s] \in OpsStates
          BY <1>0
        <4>2. [ops[s] EXCEPT !.bound = TRUE, !.clock = clock, !.feed = feed] \in OpsStates
          BY <4>1 DEF OpsStates
        <4> QED BY <1>0, <4>2
      <3> QED BY <3>1, <3>2
    <2>2. \A u \in Stores : /\ ops'[u].running = ops[u].running
                            /\ ops'[u].bound => ops[u].bound \/ ~ops[u].running
      BY <1>0, <1>5 DEF LegRebinds, OpsStates
    <2> QED BY <1>0, <1>5, <2>1, <2>2, MovesTyped, LegStands DEF LegRebinds, ClaimStates
  <1>6. CASE LegPublishes(s)
    <2>1. PICK claim \in {"open", "leg"}, rung, feeds \in BOOLEAN, upkeep \in UpkeepAfter(s) :
            /\ feeds => ~rung /\ ~entry[s].damage
            /\ entry[s].damage => rung /\ claim = "leg"
            /\ entry' = [entry EXCEPT ![s].claim = claim, ![s].rung = rung, ![s].feeds = feeds,
                                      ![s].damage = FALSE]
            /\ ops' = [ops EXCEPT ![s].current = TRUE, ![s].upkeep = upkeep]
            /\ WakeIf(\/ claim = "open" /\ entry[s].mark
                      \/ Returns(s, feeds)
                      \/ Delivers(s))
      BY <1>6 DEF LegPublishes
    <2> UNCHANGED <<asker, lane, turn>>
      BY <1>6 DEF LegPublishes
    <2>2. upkeep \in Times
      <3>1. ops[s].upkeep \in Times
        BY <1>0 DEF OpsStates
      <3> QED BY <1>0, <3>1, NamedTimes DEF UpkeepAfter
    <2>3. entry' \in [Stores -> EntryStates]
      <3>1. [entry EXCEPT ![s].claim = claim, ![s].rung = rung, ![s].feeds = feeds,
                          ![s].damage = FALSE] \in [Stores -> EntryStates]
        <4>1. entry[s] \in EntryStates
          BY <1>0
        <4>2. [entry[s] EXCEPT !.claim = claim, !.rung = rung, !.feeds = feeds, !.damage = FALSE]
                \in EntryStates
          BY <4>1 DEF EntryStates, ClaimStates
        <4> QED BY <1>0, <4>2
      <3> QED BY <2>1, <3>1
    <2>4. ops' \in [Stores -> OpsStates]
      <3>1. [ops EXCEPT ![s].current = TRUE, ![s].upkeep = upkeep] \in [Stores -> OpsStates]
        BY <1>0, <2>2 DEF OpsStates
      <3> QED BY <2>1, <3>1
    <2>5. signals' \in Signals
      <3>1. entry[s].mark \in BOOLEAN /\ Returns(s, feeds) \in BOOLEAN /\ Delivers(s) \in BOOLEAN
        BY <1>0 DEF EntryStates, Returns, Delivers
      <3> QED BY <1>0, <2>1, <3>1, WakeTyped
    <2> QED BY <1>0, <2>1, <2>3, <2>4, <2>5, LegStands DEF OpsStates
  <1> QED BY <1>1, <1>2, <1>3, <1>4, <1>5, <1>6 DEF Working

LEMMA StanceInv == ASSUME Inv, NEW s \in Stores, StanceMoves(s) PROVE Inv'
  <1>0. /\ signals \in Signals /\ entry \in [Stores -> EntryStates]
        /\ ops \in [Stores -> OpsStates] /\ turn \in [LaneThreads -> TurnStates]
    BY DEF Inv, TypeOK
  <1>1. entry' \in [Stores -> EntryStates]
    BY <1>0 DEF StanceMoves, EntryStates
  <1>2. signals' \in Signals
    BY <1>0 DEF StanceMoves, WakeIf, EntryStates, Signals
  <1> QED BY <1>0, <1>1, <1>2, LegStands DEF StanceMoves

LEMMA ReleasingInv == ASSUME Inv, NEW s \in Stores, Releasing(s) PROVE Inv'
  <1>0. /\ signals \in Signals /\ entry \in [Stores -> EntryStates]
        /\ ops \in [Stores -> OpsStates] /\ turn \in [LaneThreads -> TurnStates]
    BY DEF Inv, TypeOK
  <1>1. CASE ReleaseBegins(s)
    <2>1. entry' \in [Stores -> EntryStates]
      BY <1>0, <1>1 DEF ReleaseBegins, EntryStates, ClaimStates
    <2>2. signals' \in Signals
      BY <1>0, <1>1 DEF ReleaseBegins, WakeIf, EntryStates, Signals
    <2> QED BY <1>0, <1>1, <2>1, <2>2, LegStands DEF ReleaseBegins
  <1>2. CASE ReleaseRetires(s)
    BY <1>0, <1>2, MovesTyped, RetirementInv DEF ReleaseRetires, ClaimStates
  <1>3. CASE ReleaseEnds(s)
    <2>1. entry' \in [Stores -> EntryStates]
      BY <1>0, <1>3 DEF ReleaseEnds, EntryStates, ClaimStates
    <2>2. ops' \in [Stores -> OpsStates]
      <3>1. [ops EXCEPT ![s].owed = "settled", ![s].feed = "answered", ![s].upkeep = Never]
              \in [Stores -> OpsStates]
        <4>1. ops[s] \in OpsStates
          BY <1>0
        <4>2. [ops[s] EXCEPT !.owed = "settled", !.feed = "answered", !.upkeep = Never] \in OpsStates
          BY <4>1, NamedTimes DEF OpsStates
        <4> QED BY <1>0, <4>2
      <3> QED BY <1>3, <3>1 DEF ReleaseEnds
    <2>3. signals' \in Signals
      BY <1>0, <1>3 DEF ReleaseEnds, WakeIf, EntryStates, Signals
    <2> QED BY <1>0, <1>3, <2>1, <2>2, <2>3, LegStands DEF ReleaseEnds, OpsStates
  <1> QED BY <1>1, <1>2, <1>3 DEF Releasing

----------------------------------------------------------------------------
(* The turns of the lane                                                   *)

\* A step of a turn that goes on: the other turns stand, no other runs for its
\* store, and a verification begins over a lifetime that has not retired.
LEMMA TurnGoesOn ==
  ASSUME Inv, NEW t \in LaneThreads,
         turn' \in [LaneThreads -> TurnStates],
         \A u \in LaneThreads \ {t} : turn'[u] = turn[u],
         turn'[t].store = turn[t].store,
         turn[t].pc \notin {"idle", "requeueing"}, turn'[t].pc \notin {"idle", "requeueing"},
         turn'[t].stale => InUnit(t)' /\ turn'[t].pc # "verifying",
         signals' \in Signals, entry' \in [Stores -> EntryStates],
         ops' \in [Stores -> OpsStates],
         \A s \in Stores : /\ ops'[s].bound = ops[s].bound
                           /\ s # turn[t].store => ops'[s].running = ops[s].running,
         turn'[t].pc = "verifying" => ops'[turn[t].store].running,
         UNCHANGED <<asker, lane>>
  PROVE  Inv'
  <1>1. TypeOK'
    BY DEF Inv, TypeOK
  <1>2. \A u \in LaneThreads : InTurn(u)' = InTurn(u) /\ StoreOf(u)' = StoreOf(u)
    BY DEF InTurn, StoreOf
  <1>3. OneTurnPerStore'
    BY <1>2 DEF Inv, OneTurnPerStore
  <1>4. \A u \in LaneThreads \ {t} : InTurn(u) => turn[u].store # turn[t].store
    BY DEF Inv, OneTurnPerStore, InTurn, StoreOf
  <1>5. UnitInv'
    <2> SUFFICES ASSUME NEW u \in LaneThreads
                 PROVE  /\ turn'[u].pc # "idle" => turn'[u].store \in Stores
                        /\ turn'[u].pc = "verifying" => ops'[turn'[u].store].running
                        /\ turn'[u].stale => InUnit(u)'
      BY DEF UnitInv, At, StoreOf
    <2>1. CASE u = t
      BY <2>1 DEF Inv, UnitInv, At, StoreOf
    <2>2. CASE u # t
      BY <2>2, <1>4 DEF Inv, UnitInv, At, StoreOf, InTurn, InUnit
    <2> QED BY <2>1, <2>2
  <1>6. OneLifetimeIsVerified'
    BY DEF Inv, UnitInv, OneLifetimeIsVerified, At, StoreOf
  <1> QED BY <1>1, <1>3, <1>5, <1>6 DEF Inv

LEMMA GoesTyped ==
  ASSUME turn \in [LaneThreads -> TurnStates], NEW t \in LaneThreads, NEW pc \in Pcs, Goes(t, pc)
  PROVE  /\ turn' \in [LaneThreads -> TurnStates]
         /\ \A u \in LaneThreads \ {t} : turn'[u] = turn[u]
         /\ turn'[t].store = turn[t].store /\ turn'[t].pc = pc /\ turn'[t].stale = turn[t].stale
  BY DEF Goes, TurnStates

LEMMA UnitEndsTyped ==
  ASSUME turn \in [LaneThreads -> TurnStates], NEW t \in LaneThreads, NEW owed \in BOOLEAN,
         UnitEnds(t, owed)
  PROVE  /\ turn' \in [LaneThreads -> TurnStates]
         /\ \A u \in LaneThreads \ {t} : turn'[u] = turn[u]
         /\ turn'[t].store = turn[t].store /\ turn'[t].pc = "boundary" /\ ~turn'[t].stale
  <1>1. [turn[t] EXCEPT !.pc = "boundary", !.owed = owed, !.ran = TRUE, !.stale = FALSE] \in TurnStates
    BY DEF TurnStates, Pcs
  <1> QED BY <1>1 DEF UnitEnds, TurnStates

\* A turn that says what it still owes.
LEMMA OwesTyped ==
  ASSUME turn \in [LaneThreads -> TurnStates], NEW t \in LaneThreads, NEW pc \in Pcs,
         NEW owed \in BOOLEAN, turn' = [turn EXCEPT ![t].pc = pc, ![t].owed = owed]
  PROVE  /\ turn' \in [LaneThreads -> TurnStates]
         /\ \A u \in LaneThreads \ {t} : turn'[u] = turn[u]
         /\ turn'[t].store = turn[t].store /\ turn'[t].pc = pc /\ turn'[t].stale = turn[t].stale
  BY DEF TurnStates

LEMMA OwedTyped ==
  ASSUME Inv, NEW s \in Stores
  PROVE  /\ EngineOwes(s) \in BOOLEAN /\ VerificationOwed(s) \in BOOLEAN
         /\ BackgroundOwed(s) \in BOOLEAN /\ Feeds(s) \in BOOLEAN
  BY DEF Inv, TypeOK, EntryStates, OpsStates, EngineOwes, VerificationOwed, BackgroundOwed, Feeds, Past

LEMMA BoundaryInv ==
  ASSUME Inv, NEW t \in LaneThreads,
         TurnStops(t) \/ FindsNothingOwed(t) \/ TurnEnds(t) \/ ReadsStance(t)
  PROVE  Inv'
  <1>0. /\ signals \in Signals /\ entry \in [Stores -> EntryStates]
        /\ ops \in [Stores -> OpsStates] /\ turn \in [LaneThreads -> TurnStates]
    BY DEF Inv, TypeOK
  <1>1. ~InUnit(t) => ~turn[t].stale
    BY DEF Inv, UnitInv
  <1>2. CASE TurnStops(t)
    <2>1. Goes(t, "ending") /\ turn[t].pc = "boundary" /\ UNCHANGED <<signals, asker, entry, ops, lane>>
      BY <1>2 DEF TurnStops, At
    <2> QED BY <1>0, <1>1, <2>1, GoesTyped, TurnGoesOn DEF Pcs, InUnit
  <1>3. CASE FindsNothingOwed(t)
    <2>1. /\ turn' = [turn EXCEPT ![t].pc = "ending", ![t].owed = FALSE]
          /\ turn[t].pc = "unit" /\ UNCHANGED <<signals, asker, entry, ops, lane>>
      BY <1>3 DEF FindsNothingOwed, At
    <2> QED BY <1>0, <1>1, <2>1, OwesTyped, TurnGoesOn DEF Pcs, InUnit
  <1>4. CASE TurnEnds(t)
    <2>1. /\ Goes(t, "finishing") /\ turn[t].pc = "ending" /\ UNCHANGED <<asker, entry, ops, lane>>
          /\ RetryAt(VerificationDeadline(StoreOf(t)))
      BY <1>4 DEF TurnEnds, At
    <2>2. StoreOf(t) \in Stores
      BY <2>1 DEF Inv, UnitInv, At
    <2>3. signals' \in Signals
      BY <1>0, <2>1, <2>2, ReadClocks, RetryTyped DEF Inv
    <2> QED BY <1>0, <1>1, <2>1, <2>3, GoesTyped, TurnGoesOn DEF Pcs, InUnit
  <1>5. CASE ReadsStance(t)
    <2>1. turn[t].pc = "boundary" /\ UNCHANGED <<signals, asker, entry, ops, lane>>
      BY <1>5 DEF ReadsStance, At
    <2>2. StoreOf(t) \in Stores
      BY <2>1 DEF Inv, UnitInv, At
    <2>3. PICK pc \in {"unit", "ending"}, owed \in BOOLEAN :
            turn' = [turn EXCEPT ![t].pc = pc, ![t].owed = owed]
      BY <1>5, <2>2, OwedTyped DEF ReadsStance
    <2> QED BY <1>0, <1>1, <2>1, <2>3, OwesTyped, TurnGoesOn DEF Pcs, InUnit
  <1> QED BY <1>2, <1>3, <1>4, <1>5

LEMMA VerifyingInv == ASSUME Inv, NEW t \in LaneThreads, Verifying(t) PROVE Inv'
  <1>0. /\ signals \in Signals /\ entry \in [Stores -> EntryStates]
        /\ ops \in [Stores -> OpsStates] /\ turn \in [LaneThreads -> TurnStates]
    BY DEF Inv, TypeOK
  <1> DEFINE s == StoreOf(t)
  <1>1. s \in Stores /\ (~InUnit(t) => ~turn[t].stale)
    BY DEF Verifying, VerificationBegins, VerificationReturns, VerificationEnds,
           VerificationFindsDamage, At, Inv, UnitInv
  <1>2. \A running \in BOOLEAN :
          LET moved == [ops EXCEPT ![s].running = running]
          IN  /\ moved \in [Stores -> OpsStates] /\ moved[s].running = running
              /\ \A u \in Stores : moved[u].bound = ops[u].bound /\ (u # s => moved[u] = ops[u])
    BY <1>0, <1>1 DEF OpsStates
  <1>3. \A at \in Times : ClockMoves(t, at) =>
          /\ ops' \in [Stores -> OpsStates]
          /\ \A u \in Stores : ops'[u].bound = ops[u].bound /\ ops'[u].running = ops[u].running
    BY <1>0, <1>1, TimesAreClocks DEF ClockMoves, OpsStates
  <1>4. CASE VerificationBegins(t)
    <2>1. /\ Goes(t, "verifying") /\ turn[t].pc = "unit" /\ UNCHANGED <<signals, asker, entry, lane>>
          /\ ops' = [ops EXCEPT ![s].running = TRUE]
      BY <1>4 DEF VerificationBegins, At
    <2>2. ops' \in [Stores -> OpsStates] /\ ops'[s].running
          /\ \A u \in Stores : ops'[u].bound = ops[u].bound /\ (u # s => ops'[u] = ops[u])
      BY <1>2, <2>1
    <2> QED BY <1>0, <1>1, <2>1, <2>2, GoesTyped, TurnGoesOn DEF Pcs, InUnit, StoreOf
  <1>5. CASE VerificationReturns(t)
    <2>1. /\ Goes(t, "returned") /\ turn[t].pc = "verifying" /\ UNCHANGED <<signals, asker, entry, lane>>
          /\ ops' = [ops EXCEPT ![s].running = FALSE]
      BY <1>5 DEF VerificationReturns, At
    <2>2. ops' \in [Stores -> OpsStates]
          /\ \A u \in Stores : ops'[u].bound = ops[u].bound /\ (u # s => ops'[u] = ops[u])
      BY <1>2, <2>1
    <2> QED BY <1>0, <1>1, <2>1, <2>2, GoesTyped, TurnGoesOn DEF Pcs, InUnit, StoreOf
  <1>6. CASE VerificationEnds(t)
    <2> DEFINE owed == EngineOwes(s) \/ (turn[t].stale /\ VerificationOwed(s))
    <2>1. /\ turn[t].pc = "returned" /\ ClockMoves(t, Interval) /\ UnitEnds(t, owed)
          /\ UNCHANGED <<signals, asker, entry, lane>>
      BY <1>6 DEF VerificationEnds, At
    <2>2. owed \in BOOLEAN
      BY <1>0, <1>1, OwedTyped DEF TurnStates
    <2> HIDE DEF owed
    <2>3. /\ ops' \in [Stores -> OpsStates]
          /\ \A u \in Stores : ops'[u].bound = ops[u].bound /\ ops'[u].running = ops[u].running
      BY <1>3, <2>1, NamedTimes
    <2> QED BY <1>0, <1>1, <2>1, <2>2, <2>3, UnitEndsTyped, TurnGoesOn DEF Pcs
  <1>7. CASE VerificationFindsDamage(t)
    <2>1. /\ turn[t].pc = "returned" /\ ~turn[t].stale /\ ClockMoves(t, RetryAfter)
          /\ turn' = [turn EXCEPT ![t].pc = "judging", ![t].owed = FALSE]
          /\ UNCHANGED <<signals, asker, entry, lane>>
      BY <1>7 DEF VerificationFindsDamage, At
    <2>2. /\ ops' \in [Stores -> OpsStates]
          /\ \A u \in Stores : ops'[u].bound = ops[u].bound /\ ops'[u].running = ops[u].running
      BY <1>3, <2>1, NamedTimes
    <2>3. /\ turn' \in [LaneThreads -> TurnStates]
          /\ \A u \in LaneThreads \ {t} : turn'[u] = turn[u]
          /\ turn'[t].store = turn[t].store /\ turn'[t].pc = "judging" /\ ~turn'[t].stale
      BY <1>0, <2>1, OwesTyped DEF Pcs
    <2> QED BY <1>0, <2>1, <2>2, <2>3, TurnGoesOn
  <1> QED BY <1>4, <1>5, <1>6, <1>7 DEF Verifying

LEMMA DrainingInv == ASSUME Inv, NEW t \in LaneThreads, Draining(t) PROVE Inv'
  <1>0. /\ signals \in Signals /\ entry \in [Stores -> EntryStates]
        /\ ops \in [Stores -> OpsStates] /\ turn \in [LaneThreads -> TurnStates]
    BY DEF Inv, TypeOK
  <1> DEFINE s == StoreOf(t)
  <1>1. s \in Stores /\ (~InUnit(t) => ~turn[t].stale)
    BY DEF Draining, EngineUnitBegins, ReadsPage, DiscardsPage, DrainsPage, DrainsLast, EngineFails,
           UnitRefused, FeedReadFindsDamage, At, Inv, UnitInv
  <1> DEFINE Settles == \A u \in Stores : ops'[u].bound = ops[u].bound /\ ops'[u].running = ops[u].running
  <1>2. ASSUME NEW owed \in {"settled", "seen", "recorded"}, NEW feed \in {"answered", "read", "landed"},
               ops' = [ops EXCEPT ![s].owed = owed, ![s].feed = feed]
        PROVE  ops' \in [Stores -> OpsStates] /\ Settles
    <2>1. ops[s] \in OpsStates
      BY <1>0, <1>1
    <2>2. [ops[s] EXCEPT !.owed = owed, !.feed = feed] \in OpsStates
      BY <2>1 DEF OpsStates
    <2>3. ops' = [ops EXCEPT ![s] = [ops[s] EXCEPT !.owed = owed, !.feed = feed]]
      BY <1>2
    <2> QED BY <1>0, <1>1, <2>1, <2>2, <2>3 DEF OpsStates
  <1>3. ops[s].owed \in {"settled", "seen", "recorded"} /\ ops[s].feed \in {"answered", "read", "landed"}
    BY <1>0, <1>1 DEF OpsStates
  <1>4. CASE EngineUnitBegins(t)
    <2>1. /\ turn[t].pc = "unit" /\ Goes(t, "seen") /\ UNCHANGED <<signals, asker, entry, lane>>
          /\ ops' = [ops EXCEPT ![s].owed = "seen"]
      BY <1>4 DEF EngineUnitBegins, At
    <2>2. ops' \in [Stores -> OpsStates] /\ Settles
      BY <1>0, <1>1, <2>1 DEF OpsStates
    <2> QED BY <1>0, <1>1, <2>1, <2>2, GoesTyped, TurnGoesOn DEF Pcs, InUnit
  <1>5. CASE ReadsPage(t)
    <2>1. turn[t].pc = "seen" /\ Goes(t, "draining") /\ UNCHANGED <<signals, asker, entry, lane>>
      BY <1>5 DEF ReadsPage, At
    <2>2. ops' = ops \/ \E feed \in {"answered", "read", "landed"} : ops' = [ops EXCEPT ![s].feed = feed]
      BY <1>3, <1>5 DEF ReadsPage
    <2>3. ops' \in [Stores -> OpsStates] /\ Settles
      BY <1>0, <1>1, <2>2 DEF OpsStates
    <2> QED BY <1>0, <1>1, <2>1, <2>3, GoesTyped, TurnGoesOn DEF Pcs, InUnit
  <1>6. CASE DiscardsPage(t) \/ DrainsPage(t) \/ UnitRefused(t)
    <2>1. turn[t].pc = "draining" /\ UNCHANGED <<asker, entry, ops, lane>>
          /\ \E owed \in BOOLEAN : UnitEnds(t, owed)
      BY <1>6 DEF DiscardsPage, DrainsPage, UnitRefused, At
    <2>2. signals' \in Signals
      BY <1>0, <1>6, NamedTimes, TimesAreClocks, RetryTyped DEF DiscardsPage, DrainsPage, UnitRefused
    <2> QED BY <1>0, <1>1, <2>1, <2>2, UnitEndsTyped, TurnGoesOn
  <1>7. CASE DrainsLast(t) \/ EngineFails(t)
    <2>1. turn[t].pc = "draining" /\ UNCHANGED <<signals, asker, entry, lane>>
          /\ \E owed \in BOOLEAN : UnitEnds(t, owed)
      BY <1>7 DEF DrainsLast, EngineFails, At
    <2>2. \E owed \in {"settled", "seen", "recorded"}, feed \in {"answered", "read", "landed"} :
            ops' = [ops EXCEPT ![s].owed = owed, ![s].feed = feed]
      BY <1>0, <1>1, <1>3, <1>7 DEF DrainsLast, EngineFails, OpsStates
    <2>3. ops' \in [Stores -> OpsStates] /\ Settles
      BY <1>2, <2>2
    <2> QED BY <1>0, <1>1, <2>1, <2>3, UnitEndsTyped, TurnGoesOn
  <1>8. CASE FeedReadFindsDamage(t)
    <2>1. /\ turn[t].pc = "draining" /\ ~turn[t].stale /\ UNCHANGED <<signals, asker, entry, ops, lane>>
          /\ turn' = [turn EXCEPT ![t].pc = "judging", ![t].owed = FALSE]
      BY <1>8 DEF FeedReadFindsDamage, At
    <2> QED BY <1>0, <1>1, <2>1, OwesTyped, TurnGoesOn DEF Pcs
  <1> QED BY <1>4, <1>5, <1>6, <1>7, <1>8 DEF Draining

LEMMA JudgesInv == ASSUME Inv, NEW t \in LaneThreads, JudgesDamage(t) PROVE Inv'
  <1>0. /\ signals \in Signals /\ entry \in [Stores -> EntryStates]
        /\ ops \in [Stores -> OpsStates] /\ turn \in [LaneThreads -> TurnStates]
    BY DEF Inv, TypeOK
  <1> DEFINE s == StoreOf(t)
  <1>1. s \in Stores /\ turn[t].pc = "judging" /\ UnitEnds(t, FALSE)
        /\ UNCHANGED <<signals, asker, ops, lane>>
    BY DEF JudgesDamage, At, Inv, UnitInv
  <1>2. \/ entry' = entry
        \/ entry' = [entry EXCEPT ![s].feeds = FALSE, ![s].rung = TRUE, ![s].claim = "leg"]
        \/ entry' = [entry EXCEPT ![s].damage = TRUE]
    BY DEF JudgesDamage
  <1>3. entry' \in [Stores -> EntryStates]
    <2>1. entry[s] \in EntryStates
      BY <1>0, <1>1
    <2>2. /\ [entry[s] EXCEPT !.feeds = FALSE, !.rung = TRUE, !.claim = "leg"] \in EntryStates
          /\ [entry[s] EXCEPT !.damage = TRUE] \in EntryStates
      BY <2>1 DEF EntryStates, ClaimStates
    <2> QED BY <1>0, <1>1, <1>2, <2>2
  <1> QED BY <1>0, <1>1, <1>3, UnitEndsTyped, TurnGoesOn

LEMMA TurnUnwindsInv == ASSUME Inv, NEW t \in LaneThreads, TurnUnwinds(t) PROVE Inv'
  <1>0. /\ signals \in Signals /\ entry \in [Stores -> EntryStates]
        /\ ops \in [Stores -> OpsStates] /\ turn \in [LaneThreads -> TurnStates]
    BY DEF Inv, TypeOK
  <1> DEFINE s == StoreOf(t)
  <1>1. /\ turn[t].pc \in {"unit", "verifying", "seen", "draining", "judging"} /\ RetryAt(RetryAfter)
        /\ turn' = [turn EXCEPT ![t].pc = "finishing", ![t].owed = FALSE, ![t].stale = FALSE]
        /\ ops' = ops \/ ops' = [ops EXCEPT ![s].running = FALSE]
        /\ UNCHANGED <<asker, entry, lane>>
    BY DEF TurnUnwinds
  <1>2. s \in Stores
    BY <1>1 DEF Inv, UnitInv, At
  <1>3. signals' \in Signals
    BY <1>0, <1>1, NamedTimes, TimesAreClocks, RetryTyped
  <1>4. /\ ops' \in [Stores -> OpsStates]
        /\ \A u \in Stores : ops'[u].bound = ops[u].bound /\ (u # s => ops'[u] = ops[u])
    <2>1. LET moved == [ops EXCEPT ![s].running = FALSE]
          IN  /\ moved \in [Stores -> OpsStates]
              /\ \A u \in Stores : moved[u].bound = ops[u].bound /\ (u # s => moved[u] = ops[u])
      BY <1>0, <1>2 DEF OpsStates
    <2> QED BY <1>0, <1>1, <2>1
  <1>5. /\ turn' \in [LaneThreads -> TurnStates]
        /\ \A u \in LaneThreads \ {t} : turn'[u] = turn[u]
        /\ turn'[t].store = turn[t].store /\ turn'[t].pc = "finishing" /\ ~turn'[t].stale
    <2>1. [turn[t] EXCEPT !.pc = "finishing", !.owed = FALSE, !.stale = FALSE] \in TurnStates
      BY <1>0 DEF TurnStates, Pcs
    <2> QED BY <1>0, <1>1, <2>1 DEF TurnStates
  <1> QED BY <1>0, <1>1, <1>2, <1>3, <1>4, <1>5, TurnGoesOn DEF StoreOf

\* A thread that is not in a turn takes the store at the head.
LEMMA TakesInv == ASSUME Inv, NEW t \in LaneThreads, TakesTurn(t) PROVE Inv'
  <1>0. /\ lane \in LaneStates /\ turn \in [LaneThreads -> TurnStates]
        /\ UnitInv /\ OneTurnPerStore /\ OneLifetimeIsVerified
    BY DEF Inv, TypeOK
  <1> DEFINE q == lane.queue
             s == Head(q)
             next == [Idle EXCEPT !.pc = "boundary", !.store = s, !.owed = TRUE]
  <1>1. /\ turn[t].pc = "idle" /\ q # <<>>
        /\ lane' = [lane EXCEPT !.queue = Tail(q), !.queued = @ \ {s}, !.running = @ \cup {s}]
        /\ turn' = [turn EXCEPT ![t] = next]
        /\ UNCHANGED <<signals, asker, entry, ops>>
    BY DEF TakesTurn, At
  <1>2. q \in Seq(Stores) /\ IsInjective(q) /\ ToSet(q) = lane.queued
    BY <1>0 DEF LaneStates, OneTurnPerStore
  <1>3. /\ s \in lane.queued /\ s \notin lane.running
        /\ IsInjective(Tail(q)) /\ ToSet(Tail(q)) = lane.queued \ {s}
    BY <1>0, <1>1, <1>2, HeadLeaves DEF OneTurnPerStore
  <1>4. s \in Stores /\ Tail(q) \in Seq(Stores)
    BY <1>1, <1>2
  <1> HIDE DEF q, s
  <1>5. /\ lane'.queue = Tail(q) /\ lane'.queued = lane.queued \ {s}
        /\ lane'.running = lane.running \cup {s} /\ lane'.again = lane.again
        /\ lane' \in LaneStates
    BY <1>0, <1>1, <1>4 DEF LaneStates
  <1>6. next \in TurnStates /\ next.pc = "boundary" /\ next.store = s /\ ~next.stale
    BY <1>4 DEF TurnStates, Pcs, Idle
  <1> HIDE DEF next
  <1>7. turn'[t] = next /\ (\A u \in LaneThreads \ {t} : turn'[u] = turn[u])
        /\ turn' \in [LaneThreads -> TurnStates]
    BY <1>0, <1>1, <1>6
  <1>8. TypeOK'
    BY <1>1, <1>5, <1>7 DEF Inv, TypeOK
  <1>9. UnitInv' /\ OneLifetimeIsVerified'
    BY <1>0, <1>1, <1>4, <1>6, <1>7 DEF UnitInv, OneLifetimeIsVerified, At, StoreOf, InUnit
  <1>10. /\ ~InTurn(t) /\ InTurn(t)' /\ StoreOf(t)' = s
         /\ \A u \in LaneThreads \ {t} : InTurn(u)' = InTurn(u) /\ StoreOf(u)' = StoreOf(u)
    BY <1>1, <1>6, <1>7 DEF InTurn, StoreOf
  <1>11. \A u \in LaneThreads : InTurn(u) => StoreOf(u) # s
    BY <1>0, <1>3 DEF OneTurnPerStore
  <1>12. OneTurnPerStore'
    <2>1. \A u, v \in LaneThreads :
            InTurn(u)' /\ InTurn(v)' /\ StoreOf(u)' = StoreOf(v)' => u = v
      BY <1>0, <1>10, <1>11 DEF OneTurnPerStore
    <2>2. lane'.running = {StoreOf(u)' : u \in {v \in LaneThreads : InTurn(v)'}}
      BY <1>0, <1>5, <1>10 DEF OneTurnPerStore
    <2>3. /\ lane'.again \subseteq lane'.running /\ lane'.queued \cap lane'.running = {}
          /\ IsInjective(lane'.queue) /\ ToSet(lane'.queue) = lane'.queued
      BY <1>0, <1>3, <1>5 DEF OneTurnPerStore
    <2> QED BY <2>1, <2>2, <2>3 DEF OneTurnPerStore
  <1> QED BY <1>8, <1>9, <1>12 DEF Inv

\* The turn lets its store go, whether or not the thread then queues it again.
LEMMA FinishesInv == ASSUME Inv, NEW t \in LaneThreads, Finishes(t) PROVE Inv'
  <1>0. /\ lane \in LaneStates /\ turn \in [LaneThreads -> TurnStates]
        /\ UnitInv /\ OneTurnPerStore /\ OneLifetimeIsVerified
    BY DEF Inv, TypeOK
  <1> DEFINE s == StoreOf(t)
  <1>1. /\ turn[t].pc = "finishing" /\ UNCHANGED <<signals, asker, entry, ops>>
        /\ lane' = [lane EXCEPT !.running = @ \ {s}, !.again = @ \ {s}]
        /\ turn' = [turn EXCEPT ![t] = [turn[t] EXCEPT !.pc = "requeueing"]]
           \/ turn' = [turn EXCEPT ![t] = Idle]
    BY DEF Finishes, At
  <1>2. s \in Stores /\ ~turn[t].stale
    BY <1>0, <1>1 DEF UnitInv, At, InUnit
  <1>3. /\ lane'.queue = lane.queue /\ lane'.queued = lane.queued
        /\ lane'.running = lane.running \ {s} /\ lane'.again = lane.again \ {s}
        /\ lane' \in LaneStates
    BY <1>0, <1>1 DEF LaneStates
  <1>4. /\ turn' \in [LaneThreads -> TurnStates] /\ ~turn'[t].stale
        /\ \A u \in LaneThreads \ {t} : turn'[u] = turn[u]
        /\ turn'[t].pc = "idle" \/ (turn'[t].pc = "requeueing" /\ turn'[t].store = turn[t].store)
    <2> DEFINE next == [turn[t] EXCEPT !.pc = "requeueing"]
    <2>1. /\ next \in TurnStates /\ next.pc = "requeueing" /\ next.store = turn[t].store
          /\ ~next.stale
      BY <1>0, <1>2 DEF TurnStates, Pcs
    <2>2. Idle \in TurnStates /\ Idle.pc = "idle" /\ ~Idle.stale
      BY DEF TurnStates, Pcs, Idle
    <2> HIDE DEF next
    <2>3. turn' = [turn EXCEPT ![t] = next] \/ turn' = [turn EXCEPT ![t] = Idle]
      BY <1>1 DEF next
    <2> QED BY <1>0, <2>1, <2>2, <2>3
  <1>5. TypeOK'
    BY <1>1, <1>3, <1>4 DEF Inv, TypeOK
  <1>6. UnitInv' /\ OneLifetimeIsVerified'
    BY <1>0, <1>1, <1>2, <1>4 DEF UnitInv, OneLifetimeIsVerified, At, StoreOf, InUnit
  <1>7. /\ InTurn(t) /\ ~InTurn(t)'
        /\ \A u \in LaneThreads \ {t} : InTurn(u)' = InTurn(u) /\ StoreOf(u)' = StoreOf(u)
    BY <1>1, <1>4 DEF InTurn, StoreOf
  <1>8. \A u \in LaneThreads \ {t} : InTurn(u) => StoreOf(u) # s
    BY <1>0, <1>7 DEF OneTurnPerStore
  <1>9. OneTurnPerStore'
    <2>1. \A u, v \in LaneThreads :
            InTurn(u)' /\ InTurn(v)' /\ StoreOf(u)' = StoreOf(v)' => u = v
      BY <1>0, <1>7 DEF OneTurnPerStore
    <2>2. lane'.running = {StoreOf(u)' : u \in {v \in LaneThreads : InTurn(v)'}}
      BY <1>0, <1>3, <1>7, <1>8 DEF OneTurnPerStore
    <2>3. /\ lane'.again \subseteq lane'.running /\ lane'.queued \cap lane'.running = {}
          /\ IsInjective(lane'.queue) /\ ToSet(lane'.queue) = lane'.queued
      BY <1>0, <1>3 DEF OneTurnPerStore
    <2> QED BY <2>1, <2>2, <2>3 DEF OneTurnPerStore
  <1> QED BY <1>5, <1>6, <1>9 DEF Inv

LEMMA RequeuesInv == ASSUME Inv, NEW t \in LaneThreads, Requeues(t) PROVE Inv'
  <1>0. /\ lane \in LaneStates /\ turn \in [LaneThreads -> TurnStates]
        /\ UnitInv /\ OneTurnPerStore /\ OneLifetimeIsVerified
    BY DEF Inv, TypeOK
  <1>1. /\ turn[t].pc = "requeueing" /\ UNCHANGED <<signals, asker, entry, ops>>
        /\ lane' = Enqueue(StoreOf(t)) /\ turn' = [turn EXCEPT ![t] = Idle]
    BY DEF Requeues, At
  <1>2. StoreOf(t) \in Stores
    BY <1>0, <1>1 DEF UnitInv, At
  <1>3. /\ turn' \in [LaneThreads -> TurnStates] /\ turn'[t] = Idle
        /\ \A u \in LaneThreads \ {t} : turn'[u] = turn[u]
    BY <1>0, <1>1 DEF TurnStates, Pcs, Idle
  <1>4. TypeOK'
    BY <1>1, <1>2, <1>3, EnqueueTyped DEF Inv, TypeOK
  <1>5. UnitInv' /\ OneLifetimeIsVerified'
    BY <1>0, <1>1, <1>3 DEF UnitInv, OneLifetimeIsVerified, At, StoreOf, InUnit, Idle
  <1>6. /\ ~InTurn(t) /\ ~InTurn(t)'
        /\ \A u \in LaneThreads \ {t} : InTurn(u)' = InTurn(u) /\ StoreOf(u)' = StoreOf(u)
    BY <1>1, <1>3 DEF InTurn, StoreOf, Idle
  <1>7. /\ lane'.running = lane.running
        /\ lane'.again \subseteq lane'.running /\ lane'.queued \cap lane'.running = {}
        /\ IsInjective(lane'.queue) /\ ToSet(lane'.queue) = lane'.queued
    BY <1>0, <1>1, <1>2, EnqueueOnce DEF OneTurnPerStore
  <1>8. lane'.running = {StoreOf(u)' : u \in {v \in LaneThreads : InTurn(v)'}}
    BY <1>0, <1>6, <1>7 DEF OneTurnPerStore
  <1>9. OneTurnPerStore'
    BY <1>0, <1>6, <1>7, <1>8 DEF OneTurnPerStore
  <1> QED BY <1>4, <1>5, <1>9 DEF Inv

----------------------------------------------------------------------------
(* What an engine owes                                                     *)

\* The leg that committed rows has yet to owe them, or has failed.
Saying(s) == entry[s].claim \in {"committed", "detaching", "detached"}

Drains(t) == At(t, "draining") /\ ~turn[t].stale

\* Rows that landed after the snapshot of a unit are owed beside what the unit
\* settles, which is only what it saw.
FeedInv ==
    \A s \in Stores :
        /\ s \notin Engines => ops[s].feed = "answered"
        /\ entry[s].attached =>
             /\ ops[s].feed # "answered" => ops[s].owed # "settled" \/ Saying(s)
             /\ ops[s].feed = "landed" =>
                  \A t \in LaneThreads :
                      Drains(t) /\ StoreOf(t) = s => ops[s].owed = "recorded" \/ Saying(s)

LEMMA FeedStands ==
  ASSUME FeedInv,
         \A s \in Stores :
             /\ ops'[s].feed = ops[s].feed /\ ops'[s].owed \in {ops[s].owed, "recorded"}
             /\ entry'[s].attached => entry[s].attached /\ (Saying(s) => Saying(s)'),
         \A t \in LaneThreads : Drains(t)' => Drains(t) /\ StoreOf(t)' = StoreOf(t)
  PROVE  FeedInv'
  BY DEF FeedInv

LEMMA SchedulingFeed ==
  ASSUME Inv, FeedInv, Scheduling \/ AskUnwinds \/ TurnUnwindsWhole \/ Tick PROVE FeedInv'
  <1>1. \A s \in Stores : ops'[s].feed = ops[s].feed /\ ops'[s].owed = ops[s].owed
    <2>1. CASE Tick
      BY <2>1 DEF Tick, Inv, TypeOK, OpsStates
    <2>2. CASE ~Tick
      BY <2>2 DEF Scheduling, NextTurn, ReadsOwed, EndsAsk, SleepUntil, PassesPoisoned,
                  AsksUncovered, BeginsAsk, AskUnwinds, TurnUnwindsWhole
    <2> QED BY <2>1, <2>2
  <1>2. turn' = turn
    BY DEF Scheduling, NextTurn, ReadsOwed, EndsAsk, SleepUntil, PassesPoisoned, AsksUncovered,
           BeginsAsk, AskUnwinds, TurnUnwindsWhole, Tick
  <1>3. \A s \in Stores : entry'[s].attached => entry[s].attached /\ (Saying(s) => Saying(s)')
    <2>0. entry \in [Stores -> EntryStates] /\ asker \in Askers
      BY DEF Inv, TypeOK
    <2>1. CASE EndsAsk
      <3>1. PICK due, owes, claim :
              /\ entry' = [entry EXCEPT ![asker.store].due = due, ![asker.store].mark = owes,
                                        ![asker.store].claim = claim]
              /\ claim = entry[asker.store].claim \/ entry[asker.store].claim = "open"
        BY <2>1 DEF EndsAsk
      <3> QED BY <2>0, <3>1 DEF EntryStates, Saying
    <2>2. CASE AskUnwinds
      BY <2>0, <2>2 DEF AskUnwinds, Unattached, Askers, Saying
    <2>3. ASSUME NEW s \in Stores, AsksUncovered(s)
          PROVE  \A u \in Stores : entry'[u].attached = entry[u].attached /\ entry'[u].claim = entry[u].claim
      BY <2>0, <2>3 DEF AsksUncovered, EntryStates
    <2>4. CASE Tick
      BY <2>0, <2>4 DEF Tick, EntryStates, Saying
    <2>5. entry' = entry \/ EndsAsk \/ AskUnwinds \/ Tick \/ \E s \in Stores : AsksUncovered(s)
      BY DEF Scheduling, NextTurn, ReadsOwed, SleepUntil, PassesPoisoned, BeginsAsk, TurnUnwindsWhole
    <2> QED BY <2>1, <2>2, <2>3, <2>4, <2>5 DEF Saying
  <1> QED BY <1>1, <1>2, <1>3, FeedStands DEF Drains, At, StoreOf

\* A leg that says nothing of the feed, and leaves no claim that has yet to.
LEMMA LegFeedStands ==
  ASSUME FeedInv, NEW s \in Stores, UNCHANGED turn,
         \A u \in Stores : ops'[u].feed = ops[u].feed /\ ops'[u].owed \in {ops[u].owed, "recorded"},
         \A u \in Stores \ {s} : entry'[u] = entry[u],
         entry'[s].attached => entry[s].attached /\ (Saying(s) => Saying(s)')
  PROVE  FeedInv'
  BY FeedStands DEF Drains, At, StoreOf, Saying

\* A leg that lands rows says so by its claim, or owes them with the claim.
LEMMA RowsLand ==
  ASSUME FeedInv, NEW s \in Stores, UNCHANGED turn,
         \A u \in Stores \ {s} : ops'[u] = ops[u] /\ entry'[u] = entry[u],
         s \notin Engines => ops'[s].feed = "answered",
         entry'[s].attached => ops'[s].feed = "answered" \/ ops'[s].owed = "recorded" \/ Saying(s)'
  PROVE  FeedInv'
  BY DEF FeedInv, Saying, Drains, At, StoreOf

LEMMA LegsFeed ==
  ASSUME Inv, FeedInv, NEW s \in Stores,
         Attaching(s) \/ Working(s) \/ StanceMoves(s) \/ Releasing(s)
  PROVE  FeedInv'
  <1>0. entry \in [Stores -> EntryStates] /\ ops \in [Stores -> OpsStates]
    BY DEF Inv, TypeOK
  <1>a. s \notin Engines => ops[s].feed = "answered"
    BY DEF FeedInv
  <1>1. ASSUME NEW state, Moves(s, state)
        PROVE  /\ \A u \in Stores \ {s} : entry'[u] = entry[u]
               /\ entry'[s].attached = entry[s].attached /\ entry'[s].claim = state
    BY <1>0, <1>1 DEF Moves, EntryStates
  <1>2. CASE AttachBinds(s) \/ TakesClaim(s) \/ LegWakes(s)
    <2>1. /\ turn' = turn /\ ~Saying(s) /\ \E state : Moves(s, state)
      BY <1>2 DEF AttachBinds, TakesClaim, LegWakes, ClaimAt, Saying
    <2>2. \A u \in Stores : ops'[u].feed = ops[u].feed /\ ops'[u].owed = ops[u].owed
      BY <1>0, <1>2 DEF AttachBinds, TakesClaim, LegWakes, OpsStates
    <2> QED BY <1>1, <2>1, <2>2, LegFeedStands
  <1>3. CASE AttachInstalls(s)
    <2>1. turn' = turn /\ \A u \in Stores \ {s} : entry'[u] = entry[u]
      BY <1>0, <1>3 DEF AttachInstalls
    <2>2. /\ \A u \in Stores \ {s} : ops'[u] = ops[u]
          /\ IF s \in Engines THEN ops'[s].owed = "recorded" ELSE ops'[s].feed = ops[s].feed
      BY <1>0, <1>3 DEF AttachInstalls, OpsStates
    <2> QED BY <1>a, <2>1, <2>2, RowsLand
  <1>4. CASE LegCommits(s)
    <2>1. turn' = turn /\ Moves(s, "committed")
      BY <1>4 DEF LegCommits
    <2>2. /\ \A u \in Stores \ {s} : ops'[u] = ops[u]
          /\ s \notin Engines => ops'[s].feed = ops[s].feed
      BY <1>0, <1>4 DEF LegCommits, OpsStates
    <2> QED BY <1>a, <1>1, <2>1, <2>2, RowsLand DEF Saying
  <1>5. CASE LegOwes(s)
    <2>1. turn' = turn /\ Moves(s, "owing")
      BY <1>5 DEF LegOwes
    <2>2. /\ \A u \in Stores \ {s} : ops'[u] = ops[u]
          /\ IF s \in Engines THEN ops'[s].owed = "recorded" ELSE ops'[s].feed = ops[s].feed
      BY <1>0, <1>5 DEF LegOwes, OpsStates
    <2> QED BY <1>a, <1>1, <2>1, <2>2, RowsLand
  <1>6. CASE LegRebinds(s)
    <2>1. turn' = turn /\ Moves(s, "committed")
      BY <1>6 DEF LegRebinds
    <2>2. /\ \A u \in Stores \ {s} : ops'[u] = ops[u]
          /\ s \notin Engines => ops'[s].feed = ops[s].feed
      BY <1>0, <1>6 DEF LegRebinds, OpsStates
    <2> QED BY <1>a, <1>1, <2>1, <2>2, RowsLand DEF Saying
  <1>7. CASE LegPublishes(s)
    <2>1. turn' = turn /\ ~Saying(s)
      BY <1>7 DEF LegPublishes, Saying
    <2>2. \A u \in Stores : ops'[u].feed = ops[u].feed /\ ops'[u].owed = ops[u].owed
      <3>1. PICK upkeep : ops' = [ops EXCEPT ![s].current = TRUE, ![s].upkeep = upkeep]
        BY <1>7 DEF LegPublishes
      <3> QED BY <1>0, <3>1 DEF OpsStates
    <2>3. (\A u \in Stores \ {s} : entry'[u] = entry[u]) /\ entry'[s].attached = entry[s].attached
      <3>1. PICK claim \in {"open", "leg"}, rung, feeds \in BOOLEAN :
              entry' = [entry EXCEPT ![s].claim = claim, ![s].rung = rung, ![s].feeds = feeds,
                                     ![s].damage = FALSE]
        BY <1>7, Zenon DEF LegPublishes
      <3> QED BY <1>0, <3>1 DEF EntryStates
    <2> QED BY <2>1, <2>2, <2>3, LegFeedStands
  <1>8. CASE StanceMoves(s)
    <2>1. turn' = turn /\ ops' = ops /\ entry' = [entry EXCEPT ![s].feeds = ~entry[s].feeds]
      BY <1>8 DEF StanceMoves
    <2>2. /\ \A u \in Stores \ {s} : entry'[u] = entry[u]
          /\ entry'[s].attached = entry[s].attached /\ entry'[s].claim = entry[s].claim
      BY <1>0, <2>1 DEF EntryStates
    <2> QED BY <2>1, <2>2, LegFeedStands DEF Saying
  <1>9. CASE ReleaseBegins(s)
    <2>1. turn' = turn /\ ops' = ops
      BY <1>9 DEF ReleaseBegins
    <2>2. PICK attached \in {FALSE, entry[s].attached} :
            entry' = [entry EXCEPT ![s].attached = attached, ![s].feeds = FALSE, ![s].rung = FALSE,
                                   ![s].damage = FALSE, ![s].claim = "detaching"]
      BY <1>9 DEF ReleaseBegins
    <2>3. /\ \A u \in Stores \ {s} : entry'[u] = entry[u]
          /\ entry'[s].attached = attached /\ entry'[s].claim = "detaching"
      BY <1>0, <2>2 DEF EntryStates
    <2> QED BY <2>1, <2>2, <2>3, LegFeedStands DEF Saying
  <1>10. CASE LegDiscards(s) \/ ReleaseRetires(s)
    <2>1. /\ RetireStore(s)
          /\ \/ ~Saying(s) /\ Moves(s, "discarded")
             \/ Moves(s, "detached")
      BY <1>10 DEF LegDiscards, ReleaseRetires, ClaimAt, Saying
    <2>2. \A u \in Stores : ops'[u].feed = ops[u].feed /\ ops'[u].owed \in {ops[u].owed, "recorded"}
      <3>1. PICK owed \in {ops[s].owed, "recorded"} :
              ops' = [ops EXCEPT ![s].bound = FALSE, ![s].clock = Never, ![s].current = FALSE,
                                 ![s].owed = owed]
        BY <2>1 DEF RetireStore, OwedOnRetiring
      <3> QED BY <1>0, <3>1 DEF OpsStates
    <2>3. \A t \in LaneThreads : Drains(t)' => Drains(t) /\ StoreOf(t)' = StoreOf(t)
      BY <2>1 DEF RetireStore, Drains, At, StoreOf, Inv, TypeOK, TurnStates
    <2>4. \A u \in Stores : entry'[u].attached => entry[u].attached /\ (Saying(u) => Saying(u)')
      BY <1>1, <2>1 DEF Saying
    <2> QED BY <2>2, <2>3, <2>4, FeedStands
  <1>11. CASE ReleaseEnds(s)
    <2>1. turn' = turn /\ \A u \in Stores \ {s} : entry'[u] = entry[u]
      BY <1>0, <1>11 DEF ReleaseEnds
    <2>2. ops'[s].feed = "answered" /\ \A u \in Stores \ {s} : ops'[u] = ops[u]
      BY <1>0, <1>11 DEF ReleaseEnds, OpsStates
    <2> QED BY <2>1, <2>2, RowsLand
  <1> QED BY <1>2, <1>3, <1>4, <1>5, <1>6, <1>7, <1>8, <1>9, <1>10, <1>11
          DEF Attaching, Working, Releasing

\* A step of a turn that settles nothing.
LEMMA TurnFeedStands ==
  ASSUME FeedInv, NEW t \in LaneThreads,
         \A u \in LaneThreads \ {t} : turn'[u] = turn[u], ~Drains(t)',
         \A s \in Stores : /\ ops'[s].feed = ops[s].feed /\ ops'[s].owed = ops[s].owed
                           /\ entry'[s].attached => entry[s].attached /\ (Saying(s) => Saying(s)')
  PROVE  FeedInv'
  BY FeedStands DEF Drains, At, StoreOf

\* No other turn of the store drains beside the one that runs.
LEMMA OneDrains ==
  ASSUME Inv, NEW t \in LaneThreads, turn[t].pc \notin {"idle", "requeueing"},
         NEW u \in LaneThreads \ {t}, Drains(u)
  PROVE  StoreOf(u) # StoreOf(t)
  BY DEF Inv, OneTurnPerStore, InTurn, Drains, At, StoreOf

LEMMA TurnsFeed ==
  ASSUME Inv, FeedInv, NEW t \in LaneThreads,
         Turning(t) \/ ReadsStance(t) \/ Verifying(t) \/ JudgesDamage(t) \/ TurnUnwinds(t)
  PROVE  FeedInv'
  <1>0. /\ entry \in [Stores -> EntryStates] /\ ops \in [Stores -> OpsStates]
        /\ turn \in [LaneThreads -> TurnStates]
    BY DEF Inv, TypeOK
  <1>1. \A u \in LaneThreads \ {t} : turn'[u] = turn[u]
    BY <1>0 DEF Turning, TakesTurn, TurnStops, FindsNothingOwed, TurnEnds, Finishes, Requeues, Goes,
                ReadsStance, Verifying, VerificationBegins, VerificationReturns, VerificationEnds,
                VerificationFindsDamage, UnitEnds, JudgesDamage, TurnUnwinds
  <1>2. turn'[t].pc # "draining"
    <2>1. CASE TakesTurn(t) \/ Finishes(t) \/ Requeues(t)
      <3>1. \/ turn' = [turn EXCEPT ![t] = Idle]
            \/ turn' = [turn EXCEPT ![t] = [turn[t] EXCEPT !.pc = "requeueing"]]
            \/ turn' = [turn EXCEPT ![t] = [Idle EXCEPT !.pc = "boundary", !.store = Head(lane.queue),
                                                        !.owed = TRUE]]
        BY <2>1 DEF TakesTurn, Finishes, Requeues
      <3>2. /\ Idle.pc # "draining"
            /\ [turn[t] EXCEPT !.pc = "requeueing"].pc # "draining"
            /\ [Idle EXCEPT !.pc = "boundary", !.store = Head(lane.queue), !.owed = TRUE].pc
                 # "draining"
        BY <1>0 DEF TurnStates, Idle
      <3> QED BY <1>0, <3>1, <3>2
    <2>3. CASE TurnStops(t) \/ FindsNothingOwed(t) \/ TurnEnds(t) \/ ReadsStance(t)
      BY <1>0, <2>3 DEF TurnStops, FindsNothingOwed, TurnEnds, ReadsStance, Goes, TurnStates
    <2>2. CASE Verifying(t) \/ JudgesDamage(t) \/ TurnUnwinds(t)
      BY <1>0, <2>2 DEF Verifying, VerificationBegins, VerificationReturns, VerificationEnds, Goes,
                        VerificationFindsDamage, UnitEnds, JudgesDamage, TurnUnwinds, TurnStates
    <2> QED BY <2>1, <2>2, <2>3 DEF Turning
  <1>3. \A s \in Stores : ops'[s].feed = ops[s].feed /\ ops'[s].owed = ops[s].owed
    <2>1. CASE Turning(t) \/ ReadsStance(t) \/ JudgesDamage(t)
      BY <2>1 DEF Turning, TakesTurn, TurnStops, FindsNothingOwed, TurnEnds, Finishes, Requeues,
                  ReadsStance, JudgesDamage
    <2>2. CASE VerificationBegins(t) \/ VerificationReturns(t) \/ TurnUnwinds(t)
      BY <1>0, <2>2 DEF VerificationBegins, VerificationReturns, TurnUnwinds, OpsStates
    <2>3. CASE VerificationEnds(t) \/ VerificationFindsDamage(t)
      BY <1>0, <2>3 DEF VerificationEnds, VerificationFindsDamage, ClockMoves, OpsStates
    <2> QED BY <2>1, <2>2, <2>3 DEF Verifying
  <1>4. \A s \in Stores : entry'[s].attached => entry[s].attached /\ (Saying(s) => Saying(s)')
    <2>1. CASE JudgesDamage(t)
      <3>1. \/ entry' = entry
            \/ entry[StoreOf(t)].claim = "open" /\
               entry' = [entry EXCEPT ![StoreOf(t)].feeds = FALSE, ![StoreOf(t)].rung = TRUE,
                                      ![StoreOf(t)].claim = "leg"]
            \/ entry' = [entry EXCEPT ![StoreOf(t)].damage = TRUE]
        BY <2>1 DEF JudgesDamage, ClaimAt
      <3> QED BY <1>0, <3>1 DEF EntryStates, Saying
    <2>2. CASE ~JudgesDamage(t)
      BY <2>2 DEF Turning, TakesTurn, TurnStops, FindsNothingOwed, TurnEnds, Finishes, Requeues,
                  ReadsStance, Verifying, VerificationBegins, VerificationReturns, VerificationEnds,
                  VerificationFindsDamage, TurnUnwinds, Saying
    <2> QED BY <2>1, <2>2
  <1> QED BY <1>1, <1>2, <1>3, <1>4, TurnFeedStands DEF Drains, At

LEMMA DrainsFeed == ASSUME Inv, FeedInv, NEW t \in LaneThreads, Draining(t) PROVE FeedInv'
  <1> DEFINE s == StoreOf(t)
  <1>0. ops \in [Stores -> OpsStates] /\ turn \in [LaneThreads -> TurnStates] /\ entry' = entry
    BY DEF Inv, TypeOK, Draining, EngineUnitBegins, ReadsPage, DiscardsPage, DrainsPage, DrainsLast,
           EngineFails, UnitRefused, FeedReadFindsDamage
  <1>1. s \in Stores /\ turn[t].pc \in {"unit", "seen", "draining"}
    BY DEF Draining, EngineUnitBegins, ReadsPage, DiscardsPage, DrainsPage, DrainsLast, EngineFails,
           UnitRefused, FeedReadFindsDamage, At, Inv, UnitInv
  <1>2. \A u \in LaneThreads \ {t} : turn'[u] = turn[u]
    BY <1>0 DEF Draining, EngineUnitBegins, ReadsPage, DiscardsPage, DrainsPage, DrainsLast, Goes,
                EngineFails, UnitRefused, FeedReadFindsDamage, UnitEnds
  <1>3. \A u \in LaneThreads \ {t} : Drains(u) => StoreOf(u) # s
    BY <1>1, OneDrains
  <1>4. CASE EngineUnitBegins(t)
    <2>1. ~Drains(t)'
      BY <1>0, <1>4 DEF EngineUnitBegins, Goes, Drains, At, TurnStates
    <2>2. /\ ops'[s].feed = ops[s].feed /\ ops'[s].owed = "seen"
          /\ \A u \in Stores \ {s} : ops'[u] = ops[u]
      BY <1>0, <1>1, <1>4 DEF EngineUnitBegins, OpsStates
    <2> QED BY <1>0, <1>2, <1>3, <2>1, <2>2 DEF FeedInv, Saying, Drains, At, StoreOf
  <1>5. CASE ReadsPage(t)
    <2>1. turn'[t].store = turn[t].store /\ turn'[t].stale = turn[t].stale
      BY <1>0, <1>5 DEF ReadsPage, Goes, TurnStates
    <2>2. /\ ops'[s].owed = ops[s].owed
          /\ ops'[s].feed = "answered" <=> ops[s].feed = "answered"
          /\ ops'[s].feed = "landed" => turn[t].stale /\ ops[s].feed = "landed"
          /\ \A u \in Stores \ {s} : ops'[u] = ops[u]
      BY <1>0, <1>1, <1>5 DEF ReadsPage, OpsStates
    <2> QED BY <1>0, <1>2, <1>3, <2>1, <2>2 DEF FeedInv, Saying, Drains, At, StoreOf
  <1>6. CASE DiscardsPage(t) \/ DrainsPage(t) \/ UnitRefused(t) \/ FeedReadFindsDamage(t)
    <2>1. ~Drains(t)' /\ ops' = ops
      BY <1>0, <1>6 DEF DiscardsPage, DrainsPage, UnitRefused, FeedReadFindsDamage, UnitEnds, Drains,
                        At, TurnStates
    <2> QED BY <1>0, <1>2, <2>1, TurnFeedStands DEF Saying
  <1>7. CASE DrainsLast(t) \/ EngineFails(t)
    <2>1. Drains(t) /\ ~Drains(t)'
      BY <1>0, <1>7 DEF DrainsLast, EngineFails, UnitEnds, Drains, At, TurnStates
    <2>2. /\ ops'[s].feed = "answered"
             \/ /\ ops[s].feed = "landed" /\ ops'[s].feed = "landed"
                /\ ops[s].owed = "recorded" => ops'[s].owed = "recorded"
          /\ \A u \in Stores \ {s} : ops'[u] = ops[u]
      <3>1. PICK owed, feed :
              /\ ops' = [ops EXCEPT ![s].owed = owed, ![s].feed = feed]
              /\ feed = "answered"
                 \/ /\ feed = ops[s].feed /\ feed # "read"
                    /\ ops[s].owed = "recorded" => owed = "recorded"
        BY <1>7 DEF DrainsLast, EngineFails
      <3> QED BY <1>0, <1>1, <3>1 DEF OpsStates
    <2>3. entry[s].attached /\ ops[s].feed = "landed" => ops[s].owed = "recorded" \/ Saying(s)
      BY <1>1, <2>1 DEF FeedInv
    <2> QED BY <1>0, <1>2, <1>3, <2>1, <2>2, <2>3 DEF FeedInv, Saying, Drains, At, StoreOf
  <1> QED BY <1>4, <1>5, <1>6, <1>7 DEF Draining

LEMMA FeedAlways == /\ Init => FeedInv
                    /\ Inv /\ FeedInv /\ [Next]_vars => FeedInv'
  <1>1. Init => FeedInv
    BY DEF Init, FeedInv, Unattached
  <1>2. ASSUME Inv, FeedInv, [Next]_vars PROVE FeedInv'
    <2>1. CASE UNCHANGED vars
      BY <1>2, <2>1 DEF vars, FeedInv, Saying, Drains, At, StoreOf
    <2>2. CASE Next
      BY <1>2, <2>2, SchedulingFeed, LegsFeed, TurnsFeed, DrainsFeed DEF Next
    <2> QED BY <1>2, <2>1, <2>2
  <1> QED BY <1>1, <1>2

----------------------------------------------------------------------------
(* Upkeep that is due                                                      *)

\* What the deadline of one entry's upkeep comes to: DueUpkeepIsReached of s.
Asked(s) ==
    entry[s].attached /\ ~entry[s].poisoned /\ ~asker.unwound =>
        \/ signals.woken
        \/ asker.asking /\ s \in asker.left
        \/ AsksBy(ops[s].upkeep)
        \/ entry[s].mark /\ (entry[s].claim # "open" \/ entry[s].rung)

\* While a turn asks, the deadline it found is the only one; and an entry's own
\* deadline, which the ask reads under a leg, is never after its clock's.
UpkeepInv ==
    /\ asker.asking => signals.earliest = Never /\ ~asker.unwound
    /\ \A s \in Stores : /\ entry[s].attached => entry[s].due <= ops[s].upkeep
                         /\ Asked(s)

LEMMA TimesAreIntegers == Times \subseteq Int /\ 0 \in Times /\ Never \in Int /\ \A at \in Times : at <= Never
  BY BackgroundAssumption DEF Times, Never

LEMMA EarlierBounds ==
  \A one, other \in Times :
      /\ Earlier(one, other) \in {one, other}
      /\ Earlier(one, other) <= one /\ Earlier(one, other) <= other
  BY TimesAreIntegers DEF Earlier

\* Time brings no deadline past another, and none past its time back.
LEMMA ElapseKeepsOrder ==
  \A one, other \in Times :
      /\ one <= other => Elapse(one, 0) <= Elapse(other, 0)
      /\ Past(one) => Past(Elapse(one, 0))
  BY BackgroundAssumption DEF Elapse, Past, Times, Never

LEMMA InTime ==
  \A at, earlier, by, later \in Int :
      earlier <= at /\ by <= later /\ (Past(at) \/ at <= by) => Past(earlier) \/ earlier <= later
  BY DEF Past

\* What leaves the scheduler's turn alone and brings no deadline later: the entry
\* is answered for while its clock moves only on, or a wake is recorded.
LEMMA AskedStands ==
  ASSUME Inv, UpkeepInv, Inv', NEW s \in Stores,
         asker' = asker, signals'.earliest = signals.earliest, signals'.retry <= signals.retry,
         signals.woken => signals'.woken,
         \/ signals'.woken
         \/ /\ entry'[s].attached /\ ~entry'[s].poisoned => entry[s].attached /\ ~entry[s].poisoned
            /\ ops[s].upkeep <= ops'[s].upkeep
            /\ entry[s].mark => entry'[s].mark
            /\ entry[s].mark /\ (entry[s].claim # "open" \/ entry[s].rung) =>
                   entry'[s].claim # "open" \/ entry'[s].rung
  PROVE  Asked(s)'
  <1>1. CASE ~AsksBy(ops[s].upkeep) \/ signals'.woken
    BY <1>1 DEF UpkeepInv, Asked
  <1>2. CASE AsksBy(ops[s].upkeep) /\ ~signals'.woken
    <2>1. signals \in Signals /\ signals' \in Signals /\ asker \in Askers /\ ops[s] \in OpsStates
          /\ ops'[s] \in OpsStates
      BY DEF Inv, TypeOK
    <2>2. /\ signals.earliest \in Int /\ signals.retry \in Int /\ signals'.retry \in Int
          /\ asker.found \in Int /\ ops[s].upkeep \in Int /\ ops'[s].upkeep \in Int
      BY <2>1, TimesAreIntegers DEF Signals, Askers, OpsStates
    <2>3. PICK deadline \in {signals.earliest, signals.retry, asker.found} :
            Past(deadline) \/ deadline <= ops[s].upkeep
      BY <1>2 DEF AsksBy
    <2>4. deadline \in Int
      BY <2>2, <2>3
    <2>5. PICK other \in {signals'.earliest, signals'.retry, asker'.found} \cap Int : other <= deadline
      <3>1. CASE deadline = signals.retry
        BY <2>2, <3>1
      <3>2. CASE deadline # signals.retry
        BY <2>2, <2>3, <3>2
      <3> QED BY <3>1, <3>2
    <2>6. Past(other) \/ other <= ops'[s].upkeep
      <3>1. other \in Int /\ other <= deadline /\ ops[s].upkeep <= ops'[s].upkeep
        BY <1>2, <2>5
      <3> QED BY <2>2, <2>3, <2>4, <3>1, InTime
    <2>7. AsksBy(ops[s].upkeep)'
      BY <2>5, <2>6 DEF AsksBy, Past
    <2> QED BY <2>7 DEF Asked
  <1> QED BY <1>1, <1>2

\* What a step of a leg or a turn does to the scheduler's signals.
LEMMA SignalsOnlySooner ==
  ASSUME signals \in Signals,
         \/ signals' = signals \/ Wake \/ \E condition \in BOOLEAN : WakeIf(condition)
         \/ \E at \in Clocks : RetryAt(at)
  PROVE  /\ signals'.earliest = signals.earliest /\ signals'.retry <= signals.retry
         /\ signals.woken => signals'.woken
  <1>0. signals.retry \in Times /\ signals.retry \in Int
    BY TimesAreIntegers DEF Signals
  <1>1. CASE signals' = signals
    BY <1>0, <1>1
  <1>2. CASE Wake \/ \E condition \in BOOLEAN : WakeIf(condition)
    BY <1>0, <1>2 DEF Wake, WakeIf, Signals
  <1>3. ASSUME NEW at \in Clocks, RetryAt(at)
        PROVE  /\ signals'.earliest = signals.earliest /\ signals'.retry <= signals.retry
               /\ signals'.woken = signals.woken
    <2>1. Earlier(signals.retry, Ahead(at)) <= signals.retry
      BY <1>0, AheadTime, EarlierBounds
    <2> QED BY <1>3, <2>1 DEF RetryAt, Signals
  <1> QED BY <1>1, <1>2, <1>3

\* A step that leaves one store's upkeep its clock, its deadline and its mark.
Keeps(s) ==
    /\ entry'[s].attached /\ ~entry'[s].poisoned => entry[s].attached /\ ~entry[s].poisoned
    /\ entry'[s].attached => entry[s].attached
    /\ ops'[s].upkeep = ops[s].upkeep /\ entry'[s].due = entry[s].due
    /\ entry'[s].mark = entry[s].mark
    /\ entry[s].claim # "open" \/ entry[s].rung => entry'[s].claim # "open" \/ entry'[s].rung

LEMMA UpkeepStands ==
  ASSUME Inv, UpkeepInv, Inv', asker' = asker,
         signals'.earliest = signals.earliest, signals'.retry <= signals.retry,
         signals.woken => signals'.woken,
         \A s \in Stores :
             \/ Keeps(s)
             \/ signals'.woken /\ (entry'[s].attached => entry'[s].due <= ops'[s].upkeep)
  PROVE  UpkeepInv'
  <1>1. \A s \in Stores : ops[s].upkeep \in Int
    BY TimesAreIntegers DEF Inv, TypeOK, OpsStates
  <1>2. ASSUME NEW s \in Stores PROVE Asked(s)'
    BY <1>1, AskedStands DEF Keeps
  <1>3. ASSUME NEW s \in Stores PROVE entry'[s].attached => entry'[s].due <= ops'[s].upkeep
    BY DEF Keeps, UpkeepInv
  <1> QED BY <1>2, <1>3 DEF UpkeepInv

LEMMA LegsUpkeep ==
  ASSUME Inv, UpkeepInv, Inv', NEW s \in Stores,
         Attaching(s) \/ Working(s) \/ StanceMoves(s) \/ Releasing(s)
  PROVE  UpkeepInv'
  <1>0. /\ signals \in Signals /\ entry \in [Stores -> EntryStates]
        /\ ops \in [Stores -> OpsStates] /\ ClockOf(Maintained, s) \in Int
        /\ \A u \in Stores : ops[u].upkeep \in Int /\ entry[u].due \in Int
    BY TimesAreIntegers, NamedTimes DEF Inv, TypeOK, OpsStates, EntryStates
  <1>1. asker' = asker
    BY DEF Attaching, AttachBinds, AttachInstalls, Working, TakesClaim, LegCommits, LegOwes, LegWakes,
           LegDiscards, LegRebinds, LegPublishes, StanceMoves, Releasing, ReleaseBegins,
           ReleaseRetires, ReleaseEnds
  <1>2. CASE AttachInstalls(s)
    <2>1. PICK rung \in BOOLEAN, feeds \in BOOLEAN :
            entry' = [entry EXCEPT ![s].attached = TRUE, ![s].claim = "open", ![s].rung = rung,
                                   ![s].feeds = feeds, ![s].due = ClockOf(Maintained, s)]
      BY <1>2 DEF AttachInstalls
    <2>2. /\ ops'[s].upkeep = ClockOf(Maintained, s) /\ entry'[s].due = ClockOf(Maintained, s)
          /\ \A u \in Stores \ {s} : ops'[u] = ops[u] /\ entry'[u] = entry[u]
      BY <1>0, <1>2, <2>1 DEF AttachInstalls, OpsStates, EntryStates
    <2>3. signals'.woken /\ signals'.earliest = signals.earliest /\ signals'.retry <= signals.retry
      BY <1>0, <1>2, SignalsOnlySooner DEF AttachInstalls, Wake, Signals
    <2> QED BY <1>0, <1>1, <2>2, <2>3, UpkeepStands DEF UpkeepInv, Keeps
  <1>3. CASE AttachBinds(s) \/ TakesClaim(s) \/ LegCommits(s) \/ LegOwes(s) \/ LegRebinds(s)
    <2>1. signals' = signals
      BY <1>3 DEF AttachBinds, TakesClaim, LegCommits, LegOwes, LegRebinds
    <2>2. PICK state \in {"attaching", "leg", "committed", "owing"} :
            entry' = [entry EXCEPT ![s].claim = state]
      BY <1>3 DEF AttachBinds, TakesClaim, LegCommits, LegOwes, LegRebinds, Moves
    <2>3. \A u \in Stores : ops'[u].upkeep = ops[u].upkeep
      BY <1>0, <1>3 DEF AttachBinds, TakesClaim, LegCommits, LegOwes, LegRebinds, OpsStates
    <2>4. \A u \in Stores : Keeps(u)
      BY <1>0, <2>2, <2>3 DEF Keeps, EntryStates
    <2> QED BY <1>0, <1>1, <2>1, <2>4, SignalsOnlySooner, UpkeepStands
  <1>4. CASE LegWakes(s)
    <2>1. entry' = [entry EXCEPT ![s].claim = "leg"] /\ ops' = ops /\ WakeIf(Engines # {})
      BY <1>4 DEF LegWakes, Moves
    <2>2. \A u \in Stores : Keeps(u)
      BY <1>0, <2>1 DEF Keeps, EntryStates
    <2> QED BY <1>0, <1>1, <2>1, <2>2, SignalsOnlySooner, UpkeepStands
  <1>5. CASE LegDiscards(s) \/ ReleaseRetires(s)
    <2>1. signals' = signals /\ RetireStore(s)
          /\ (Moves(s, "discarded") \/ Moves(s, "detached"))
      BY <1>5 DEF LegDiscards, ReleaseRetires
    <2>2. \A u \in Stores : ops'[u].upkeep = ops[u].upkeep
      BY <1>0, <2>1 DEF RetireStore, OpsStates
    <2>3. \A u \in Stores : Keeps(u)
      BY <1>0, <2>1, <2>2 DEF Moves, Keeps, EntryStates
    <2> QED BY <1>0, <1>1, <2>1, <2>3, SignalsOnlySooner, UpkeepStands
  <1>6. CASE LegPublishes(s)
    <2>1. PICK claim \in {"open", "leg"}, rung, feeds \in BOOLEAN, upkeep \in UpkeepAfter(s) :
            /\ feeds => ~rung /\ ~entry[s].damage
            /\ entry[s].damage => rung /\ claim = "leg"
            /\ entry' = [entry EXCEPT ![s].claim = claim, ![s].rung = rung, ![s].feeds = feeds,
                                      ![s].damage = FALSE]
            /\ ops' = [ops EXCEPT ![s].current = TRUE, ![s].upkeep = upkeep]
            /\ WakeIf(\/ claim = "open" /\ entry[s].mark
                      \/ Returns(s, feeds)
                      \/ Delivers(s))
      BY <1>6 DEF LegPublishes
    <2> DEFINE condition == (claim = "open" /\ entry[s].mark) \/ Returns(s, feeds) \/ Delivers(s)
    <2>2. condition \in BOOLEAN /\ WakeIf(condition)
      BY <1>0, <2>1 DEF EntryStates, Returns, Delivers
    <2>3. /\ signals'.earliest = signals.earliest /\ signals'.retry <= signals.retry
          /\ signals.woken => signals'.woken
      <3> HIDE DEF condition
      <3> QED BY <1>0, <2>2, SignalsOnlySooner
    <2>4. claim = "open" /\ entry[s].mark => signals'.woken
      BY <1>0, <2>1 DEF WakeIf, Signals
    <2>5. ops[s].upkeep <= upkeep
      <3>1. Past(ops[s].upkeep) => ops[s].upkeep <= ClockOf(Maintained, s)
        BY <1>0, NamedTimes, BackgroundAssumption DEF Past, ClockOf, Never
      <3> QED BY <1>0, <3>1 DEF UpkeepAfter
    <2>6. /\ entry'[s].attached = entry[s].attached /\ entry'[s].poisoned = entry[s].poisoned
          /\ entry'[s].mark = entry[s].mark /\ entry'[s].due = entry[s].due
          /\ entry'[s].claim = claim /\ ops'[s].upkeep = upkeep
          /\ \A u \in Stores \ {s} : ops'[u] = ops[u] /\ entry'[u] = entry[u]
      BY <1>0, <2>1 DEF EntryStates, OpsStates
    <2>7. Asked(s)'
      BY <1>1, <2>3, <2>4, <2>5, <2>6, AskedStands
    <2>8. ASSUME NEW u \in Stores \ {s} PROVE Asked(u)'
      BY <1>0, <1>1, <2>3, <2>6, AskedStands
    <2>9. entry'[s].attached => entry'[s].due <= ops'[s].upkeep
      <3>1. upkeep \in Int /\ entry[s].due \in Int /\ ops[s].upkeep \in Int
        BY <1>0 DEF UpkeepAfter
      <3>2. entry[s].attached => entry[s].due <= ops[s].upkeep
        BY DEF UpkeepInv
      <3> QED BY <2>5, <2>6, <3>1, <3>2
    <2> QED BY <1>1, <2>3, <2>6, <2>7, <2>8, <2>9 DEF UpkeepInv
  <1>7. CASE StanceMoves(s)
    <2>1. /\ entry' = [entry EXCEPT ![s].feeds = ~entry[s].feeds] /\ ops' = ops
          /\ WakeIf(~entry[s].feeds) /\ (~entry[s].feeds) \in BOOLEAN
      BY <1>0, <1>7 DEF StanceMoves, EntryStates
    <2>2. \A u \in Stores : Keeps(u)
      BY <1>0, <2>1 DEF Keeps, EntryStates
    <2> QED BY <1>0, <1>1, <2>1, <2>2, SignalsOnlySooner, UpkeepStands
  <1>8. CASE ReleaseBegins(s)
    <2>1. PICK attached \in {FALSE, entry[s].attached} :
            entry' = [entry EXCEPT ![s].attached = attached, ![s].feeds = FALSE, ![s].rung = FALSE,
                                   ![s].damage = FALSE, ![s].claim = "detaching"]
      BY <1>8 DEF ReleaseBegins
    <2>2. ops' = ops /\ WakeIf(entry[s].mark) /\ entry[s].mark \in BOOLEAN
      BY <1>0, <1>8 DEF ReleaseBegins, EntryStates
    <2>3. /\ \A u \in Stores \ {s} : entry'[u] = entry[u]
          /\ entry'[s].attached => entry[s].attached
          /\ entry'[s].poisoned = entry[s].poisoned /\ entry'[s].mark = entry[s].mark
          /\ entry'[s].due = entry[s].due /\ entry'[s].claim = "detaching"
      <3>1. attached => entry[s].attached
        BY <2>1
      <3>2. /\ \A u \in Stores \ {s} : entry'[u] = entry[u]
            /\ entry'[s].attached = attached
            /\ entry'[s].poisoned = entry[s].poisoned /\ entry'[s].mark = entry[s].mark
            /\ entry'[s].due = entry[s].due /\ entry'[s].claim = "detaching"
        <4> HIDE DEF UpkeepInv
        <4> QED BY <1>0, <2>1 DEF EntryStates
      <3> QED BY <3>1, <3>2
    <2>4. \A u \in Stores : Keeps(u)
      BY <2>2, <2>3 DEF Keeps
    <2> QED BY <1>0, <1>1, <2>2, <2>4, SignalsOnlySooner, UpkeepStands
  <1>9. CASE ReleaseEnds(s)
    <2>1. /\ ~entry'[s].attached
          /\ \A u \in Stores \ {s} : ops'[u] = ops[u] /\ entry'[u] = entry[u]
      BY <1>0, <1>9 DEF ReleaseEnds, EntryStates
    <2>2. WakeIf(entry[s].mark) /\ entry[s].mark \in BOOLEAN
      BY <1>0, <1>9 DEF ReleaseEnds, EntryStates
    <2>3. /\ signals'.earliest = signals.earliest /\ signals'.retry <= signals.retry
          /\ signals.woken => signals'.woken
      BY <1>0, <2>2, SignalsOnlySooner
    <2>4. ASSUME NEW u \in Stores \ {s} PROVE Asked(u)'
      BY <1>0, <1>1, <2>1, <2>3, AskedStands
    <2>5. Asked(s)'
      BY <2>1 DEF Asked
    <2> QED BY <1>1, <2>1, <2>3, <2>4, <2>5 DEF UpkeepInv
  <1> QED BY <1>2, <1>3, <1>4, <1>5, <1>6, <1>7, <1>8, <1>9 DEF Attaching, Working, Releasing

LEMMA TurnsUpkeep ==
  ASSUME Inv, UpkeepInv, Inv', NEW t \in LaneThreads,
         \/ Turning(t) \/ ReadsStance(t) \/ Verifying(t) \/ Draining(t) \/ JudgesDamage(t)
         \/ TurnUnwinds(t)
  PROVE  UpkeepInv'
  <1>0. /\ signals \in Signals /\ entry \in [Stores -> EntryStates]
        /\ ops \in [Stores -> OpsStates] /\ RetryAfter \in Clocks
    BY NamedTimes, TimesAreClocks DEF Inv, TypeOK
  <1>1. asker' = asker
    BY DEF Turning, TakesTurn, TurnStops, FindsNothingOwed, TurnEnds, Finishes, Requeues, ReadsStance,
           Verifying, VerificationBegins, VerificationReturns, VerificationEnds,
           VerificationFindsDamage, Draining, EngineUnitBegins, ReadsPage, DiscardsPage, DrainsPage,
           DrainsLast, EngineFails, UnitRefused, FeedReadFindsDamage, JudgesDamage, TurnUnwinds
  <1>2. /\ signals'.earliest = signals.earliest /\ signals'.retry <= signals.retry
        /\ signals.woken => signals'.woken
    <2>1. CASE UnitRefused(t) \/ TurnUnwinds(t)
      BY <1>0, <2>1, SignalsOnlySooner DEF UnitRefused, TurnUnwinds
    <2>2. CASE TurnEnds(t)
      <3>1. StoreOf(t) \in Stores
        BY <2>2 DEF TurnEnds, Inv, UnitInv, At
      <3>2. VerificationDeadline(StoreOf(t)) \in Clocks
        BY <3>1, ReadClocks DEF Inv
      <3> QED BY <1>0, <2>2, <3>2, SignalsOnlySooner DEF TurnEnds
    <2>3. CASE signals' = signals
      BY <1>0, <2>3, SignalsOnlySooner
    <2> QED BY <2>1, <2>2, <2>3
            DEF Turning, TakesTurn, TurnStops, FindsNothingOwed, Finishes, Requeues, ReadsStance,
                Verifying, VerificationBegins, VerificationReturns, VerificationEnds,
                VerificationFindsDamage, Draining, EngineUnitBegins, ReadsPage, DiscardsPage,
                DrainsPage, DrainsLast, EngineFails, FeedReadFindsDamage, JudgesDamage
  <1>3. \A s \in Stores : ops'[s].upkeep = ops[s].upkeep
    <2>1. CASE Turning(t) \/ ReadsStance(t) \/ JudgesDamage(t)
      BY <2>1 DEF Turning, TakesTurn, TurnStops, FindsNothingOwed, TurnEnds, Finishes, Requeues,
                  ReadsStance, JudgesDamage
    <2>2. CASE Verifying(t) \/ TurnUnwinds(t)
      <3>1. CASE VerificationBegins(t) \/ VerificationReturns(t) \/ TurnUnwinds(t)
        BY <1>0, <3>1 DEF VerificationBegins, VerificationReturns, TurnUnwinds, OpsStates
      <3>2. CASE VerificationEnds(t) \/ VerificationFindsDamage(t)
        BY <1>0, <3>2 DEF VerificationEnds, VerificationFindsDamage, ClockMoves, OpsStates
      <3> QED BY <2>2, <3>1, <3>2 DEF Verifying
    <2>3. CASE Draining(t)
      <3>1. CASE EngineUnitBegins(t)
        BY <1>0, <3>1 DEF EngineUnitBegins, OpsStates
      <3>4. CASE ReadsPage(t)
        BY <1>0, <3>4 DEF ReadsPage, OpsStates
      <3>2. CASE DrainsLast(t) \/ EngineFails(t)
        <4>1. PICK owed, feed :
                ops' = [ops EXCEPT ![StoreOf(t)].owed = owed, ![StoreOf(t)].feed = feed]
          BY <3>2 DEF DrainsLast, EngineFails
        <4> QED BY <1>0, <4>1 DEF OpsStates
      <3>3. CASE ops' = ops
        BY <3>3
      <3> QED BY <2>3, <3>1, <3>2, <3>3, <3>4
              DEF Draining, DiscardsPage, DrainsPage, UnitRefused, FeedReadFindsDamage
    <2> QED BY <2>1, <2>2, <2>3
  <1>4. \A s \in Stores : Keeps(s)
    <2>1. CASE entry' = entry
      BY <1>3, <2>1 DEF Keeps
    <2>2. CASE JudgesDamage(t)
      <3>1. \/ entry' = entry
            \/ entry' = [entry EXCEPT ![StoreOf(t)].feeds = FALSE, ![StoreOf(t)].rung = TRUE,
                                      ![StoreOf(t)].claim = "leg"]
            \/ entry' = [entry EXCEPT ![StoreOf(t)].damage = TRUE]
        BY <2>2 DEF JudgesDamage
      <3> QED BY <1>0, <1>3, <3>1 DEF Keeps, EntryStates
    <2> QED BY <2>1, <2>2
            DEF Turning, TakesTurn, TurnStops, FindsNothingOwed, TurnEnds, Finishes, Requeues,
                ReadsStance, Verifying, VerificationBegins, VerificationReturns, VerificationEnds,
                VerificationFindsDamage, Draining, EngineUnitBegins, ReadsPage, DiscardsPage,
                DrainsPage, DrainsLast, EngineFails, UnitRefused, FeedReadFindsDamage, TurnUnwinds
  <1> QED BY <1>1, <1>2, <1>4, UpkeepStands

\* A step of the scheduler's own thread, or of time, leaves the rest as it is.
LEMMA SchedulingUpkeep == ASSUME Inv, UpkeepInv, Inv', Scheduling PROVE UpkeepInv'
  <1>0. /\ signals \in Signals /\ entry \in [Stores -> EntryStates]
        /\ ops \in [Stores -> OpsStates] /\ asker \in Askers
        /\ signals.earliest \in Int /\ signals.retry \in Int /\ asker.found \in Times
        /\ \A u \in Stores : ops[u].upkeep \in Times /\ entry[u].due \in Times
    BY TimesAreIntegers DEF Inv, TypeOK, Signals, Askers, OpsStates, EntryStates
  <1>1. CASE NextTurn
    <2>1. /\ signals'.earliest = Never /\ asker'.asking /\ ~asker'.unwound
          /\ asker'.left = Stores
      BY <1>1 DEF NextTurn, Waiting
    <2> QED BY <1>1, <2>1 DEF NextTurn, UpkeepInv, Asked
  <1>2. CASE SleepUntil
    <2>1. /\ asker.asking /\ asker.left = {} /\ signals.earliest = Never /\ ~asker.unwound
          /\ ~asker'.asking /\ asker'.found = Never
          /\ signals'.earliest = asker.found /\ signals'.retry = signals.retry
          /\ signals'.woken = signals.woken
      BY <1>0, <1>2 DEF SleepUntil, Waiting, Signals, UpkeepInv
    <2>2. ASSUME NEW s \in Stores PROVE Asked(s)'
      <3>1. AsksBy(ops[s].upkeep) => AsksBy(ops[s].upkeep)'
        <4>1. ops' = ops
          BY <1>2 DEF SleepUntil
        <4>2. Past(Never) \/ Never <= ops[s].upkeep => Past(asker.found) \/ asker.found <= ops[s].upkeep
          BY <1>0, BackgroundAssumption DEF Past, Never, Times
        <4> QED BY <2>1, <4>1, <4>2 DEF AsksBy
      <3> QED BY <1>2, <2>1, <3>1 DEF SleepUntil, UpkeepInv, Asked
    <2> QED BY <1>2, <2>1, <2>2 DEF SleepUntil, UpkeepInv
  <1>3. ASSUME NEW s \in Stores, PassesPoisoned(s) \/ AsksUncovered(s) \/ BeginsAsk(s)
        PROVE  UpkeepInv'
    <2>1. /\ signals' = signals /\ ops' = ops
          /\ asker'.asking = asker.asking /\ asker'.unwound = asker.unwound
          /\ asker'.found = asker.found
          /\ asker'.left = IF BeginsAsk(s) THEN asker.left ELSE asker.left \ {s}
      BY <1>0, <1>3 DEF PassesPoisoned, AsksUncovered, BeginsAsk, Askers
    <2>2. ASSUME NEW u \in Stores \ {s} PROVE Asked(u)' /\ entry'[u] = entry[u]
      <3>1. entry'[u] = entry[u]
        BY <1>0, <1>3 DEF PassesPoisoned, AsksUncovered, BeginsAsk
      <3> QED BY <2>1, <3>1 DEF UpkeepInv, Asked, AsksBy
    <2>3. Asked(s)' /\ (entry'[s].attached => entry'[s].due <= ops'[s].upkeep)
      <3>1. CASE PassesPoisoned(s)
        BY <2>1, <3>1 DEF PassesPoisoned, UpkeepInv, Asked
      <3>2. CASE AsksUncovered(s)
        <4>1. ~entry'[s].attached
          BY <1>0, <3>2 DEF AsksUncovered, EntryStates
        <4> QED BY <4>1 DEF Asked
      <3>3. CASE BeginsAsk(s)
        BY <2>1, <3>3 DEF BeginsAsk, UpkeepInv, Asked, AsksBy
      <3> QED BY <1>3, <3>1, <3>2, <3>3
    <2> QED BY <2>1, <2>2, <2>3 DEF UpkeepInv
  <1>4. CASE ReadsOwed
    <2>1. /\ signals' = signals /\ ops' = ops /\ entry' = entry
          /\ asker'.asking = asker.asking /\ asker'.unwound = asker.unwound
          /\ asker'.found = asker.found /\ asker'.left = asker.left
      BY <1>0, <1>4 DEF ReadsOwed, Askers
    <2> QED BY <2>1 DEF UpkeepInv, Asked, AsksBy
  <1>5. CASE EndsAsk
    <2>1. PICK s \in Stores : s = asker.store
      BY <1>0, <1>5 DEF EndsAsk, Askers
    <2> DEFINE due  == IF entry[s].claim = "open" THEN ops[s].upkeep ELSE entry[s].due
               owes == Past(due)
               goes == owes /\ entry[s].claim = "open" /\ ~entry[s].rung
               own  == IF owes THEN Never ELSE due
               asks == Earlier(LaneDeadline(s), own)
    <2>2. due \in Times /\ own \in Times /\ asks \in Times /\ asks <= own
      <3>1. due \in Times /\ own \in Times
        BY <1>0, <2>1, NamedTimes
      <3> HIDE DEF own
      <3> QED BY <2>1, <3>1, ReadClocks, EarlierTime, EarlierBounds DEF Inv
    <2>3. Earlier(asker.found, asks) \in Times /\ Earlier(asker.found, asks) <= asker.found
          /\ Earlier(asker.found, asks) <= asks
      <3> HIDE DEF asks
      <3> QED BY <1>0, <2>2, EarlierTime, EarlierBounds
    <2>4. /\ entry' = [entry EXCEPT ![s].due = due, ![s].mark = owes,
                                    ![s].claim = IF goes THEN "maintenance" ELSE @]
          /\ asker' = [asker EXCEPT !.left = @ \ {s}, !.store = NoStore, !.read = FALSE,
                                    !.since = 0, !.found = Earlier(@, asks)]
      BY <1>5, <2>1 DEF EndsAsk
    <2>5. /\ signals' = signals /\ ops' = ops
          /\ asker'.asking = asker.asking /\ asker'.unwound = asker.unwound
          /\ asker'.left = asker.left \ {s} /\ asker'.found = Earlier(asker.found, asks)
      BY <1>0, <1>5, <2>4 DEF EndsAsk, Askers
    <2>6. /\ entry'[s].due = due /\ entry'[s].mark = owes /\ entry'[s].attached = entry[s].attached
          /\ entry'[s].rung = entry[s].rung
          /\ entry'[s].claim = IF goes THEN "maintenance" ELSE entry[s].claim
          /\ \A u \in Stores \ {s} : entry'[u] = entry[u]
      <3> HIDE DEF due, owes, goes
      <3> QED BY <1>0, <2>1, <2>4 DEF EntryStates
    <2> HIDE DEF asks
    <2>7. entry[s].attached => due <= ops[s].upkeep
      <3>1. ops[s].upkeep \in Int
        BY <1>0, <2>1, TimesAreIntegers
      <3> QED BY <2>1, <3>1 DEF UpkeepInv
    <2>8. ASSUME NEW u \in Stores \ {s} PROVE Asked(u)'
      <3>1. AsksBy(ops[u].upkeep) => AsksBy(ops[u].upkeep)'
        <4>1. Past(asker.found) \/ asker.found <= ops[u].upkeep
                => Past(asker'.found) \/ asker'.found <= ops[u].upkeep
          <5>1. asker.found \in Int /\ asker'.found \in Int /\ ops[u].upkeep \in Int
            BY <1>0, <2>3, <2>5, TimesAreIntegers
          <5>2. asker'.found <= asker.found /\ ops[u].upkeep <= ops[u].upkeep
            BY <2>3, <2>5, <5>1
          <5> QED BY <5>1, <5>2, InTime
        <4> QED BY <2>5, <4>1 DEF AsksBy
      <3> QED BY <2>5, <2>6, <3>1 DEF UpkeepInv, Asked
    <2>9. Asked(s)'
      <3>1. CASE owes
        <4>1. entry'[s].mark /\ (entry'[s].claim # "open" \/ entry'[s].rung)
          BY <2>6, <3>1
        <4> QED BY <4>1 DEF Asked
      <3>2. CASE ~owes /\ entry[s].attached
        <4>1. asker'.found <= ops[s].upkeep
          <5>1. own = due
            BY <3>2
          <5>2. /\ asker'.found \in Int /\ asks \in Int /\ due \in Int /\ ops[s].upkeep \in Int
            <6> HIDE DEF due, own
            <6> QED BY <1>0, <2>1, <2>2, <2>3, <2>5, TimesAreIntegers
          <5>3. asker'.found <= asks /\ asks <= due /\ due <= ops[s].upkeep
            <6> HIDE DEF due, own
            <6> QED BY <2>2, <2>3, <2>5, <2>7, <3>2, <5>1
          <5> HIDE DEF due, own
          <5> QED BY <5>2, <5>3
        <4> QED BY <2>5, <4>1 DEF Asked, AsksBy
      <3>3. CASE ~entry[s].attached
        BY <2>6, <3>3 DEF Asked
      <3> QED BY <3>1, <3>2, <3>3
    <2> QED BY <2>5, <2>6, <2>7, <2>8, <2>9 DEF UpkeepInv
  <1> QED BY <1>1, <1>2, <1>3, <1>4, <1>5 DEF Scheduling

LEMMA UnwindsUpkeep ==
  ASSUME Inv, UpkeepInv, Inv', AskUnwinds \/ TurnUnwindsWhole PROVE UpkeepInv'
  <1>0. entry \in [Stores -> EntryStates] /\ asker \in Askers
    BY DEF Inv, TypeOK
  <1>1. CASE AskUnwinds
    <2>1. /\ signals' = signals /\ ops' = ops
          /\ asker'.asking = asker.asking /\ asker'.unwound = asker.unwound
          /\ asker'.found = asker.found /\ asker'.left = asker.left \ {asker.store}
      BY <1>0, <1>1 DEF AskUnwinds, Askers
    <2>2. ASSUME NEW s \in Stores
          PROVE  IF s = asker.store THEN ~entry'[s].attached ELSE entry'[s] = entry[s]
      BY <1>0, <1>1 DEF AskUnwinds, Unattached
    <2> QED BY <2>1, <2>2 DEF UpkeepInv, Asked, AsksBy
  <1>2. CASE TurnUnwindsWhole
    BY <1>2 DEF TurnUnwindsWhole, Waiting, UpkeepInv, Asked
  <1> QED BY <1>1, <1>2

LEMMA TickUpkeep == ASSUME Inv, UpkeepInv, Inv', Tick PROVE UpkeepInv'
  <1>0. /\ signals \in Signals /\ entry \in [Stores -> EntryStates]
        /\ ops \in [Stores -> OpsStates] /\ asker \in Askers
        /\ signals.earliest \in Times /\ signals.retry \in Times /\ asker.found \in Times
        /\ \A u \in Stores : ops[u].upkeep \in Times /\ entry[u].due \in Times
    BY DEF Inv, TypeOK, Signals, Askers, OpsStates, EntryStates
  <1>1. /\ signals'.woken = signals.woken
        /\ signals'.earliest = Elapse(signals.earliest, 0)
        /\ signals'.retry = Elapse(signals.retry, 0)
        /\ asker'.asking = asker.asking /\ asker'.left = asker.left
        /\ asker'.unwound = asker.unwound /\ asker'.found = Elapse(asker.found, 0)
    BY <1>0 DEF Tick, Signals, Askers
  <1>2. \A s \in Stores :
          /\ entry'[s].attached = entry[s].attached /\ entry'[s].poisoned = entry[s].poisoned
          /\ entry'[s].mark = entry[s].mark /\ entry'[s].claim = entry[s].claim
          /\ entry'[s].rung = entry[s].rung /\ entry'[s].due = Elapse(entry[s].due, 0)
          /\ ops'[s].upkeep = Elapse(ops[s].upkeep, 0)
    BY <1>0 DEF Tick, EntryStates, OpsStates
  <1>3. signals.earliest = Never => signals'.earliest = Never
    BY <1>1 DEF Elapse
  <1>4. ASSUME NEW s \in Stores PROVE AsksBy(ops[s].upkeep) => AsksBy(ops[s].upkeep)'
    <2>1. \A at \in Times : Past(at) \/ at <= ops[s].upkeep
                             => Past(Elapse(at, 0)) \/ Elapse(at, 0) <= ops'[s].upkeep
      BY <1>0, <1>2, ElapseKeepsOrder
    <2> QED BY <1>0, <1>1, <2>1 DEF AsksBy
  <1>5. ASSUME NEW s \in Stores PROVE Asked(s)'
    BY <1>1, <1>2, <1>4 DEF UpkeepInv, Asked
  <1>6. ASSUME NEW s \in Stores PROVE entry'[s].attached => entry'[s].due <= ops'[s].upkeep
    BY <1>0, <1>2, ElapseKeepsOrder DEF UpkeepInv
  <1> QED BY <1>1, <1>3, <1>5, <1>6 DEF UpkeepInv

LEMMA UpkeepAlways == /\ Init => UpkeepInv
                      /\ Inv /\ UpkeepInv /\ Inv' /\ [Next]_vars => UpkeepInv'
  <1>1. Init => UpkeepInv
    BY DEF Init, UpkeepInv, Asked, Unattached, Waiting
  <1>2. ASSUME Inv, UpkeepInv, Inv', [Next]_vars PROVE UpkeepInv'
    <2>1. CASE UNCHANGED vars
      BY <1>2, <2>1 DEF vars, UpkeepInv, Asked, AsksBy
    <2>2. CASE Next
      BY <1>2, <2>2, SchedulingUpkeep, UnwindsUpkeep, TickUpkeep, LegsUpkeep, TurnsUpkeep DEF Next
    <2> QED BY <1>2, <2>1, <2>2
  <1> QED BY <1>1, <1>2

----------------------------------------------------------------------------
(* Owed work that is reached                                               *)

\* Reads are served over a delivery that is committed, with no rung owed and no
\* release begun; a store that was discarded has no delivery; and only an
\* engine's store owes it work.
StanceOf(s) ==
    /\ entry[s].feeds => /\ ops[s].current /\ ~entry[s].rung
                         /\ entry[s].claim \notin {"detaching", "detached"}
    /\ entry[s].claim = "discarded" => ~ops[s].current
    /\ ops[s].owed # "settled" => s \in Engines

StancesInv == \A s \in Stores : StanceOf(s)

\* A turn will look at the store over the lifetime that stands.
Looks(s) ==
    \/ s \in lane.queued \cup lane.again
    \/ \E t \in LaneThreads :
          /\ StoreOf(t) = s
          /\ At(t, "requeueing") \/ (~turn[t].stale /\ (turn[t].owed \/ At(t, "judging")))

Sought(s) ==
    \/ signals.woken \/ StillToRead(s) \/ Looks(s) \/ entry[s].damage
    \/ signals.retry <= RetryAfter

SoughtForEngine(s) == Sought(s) \/ entry[s].claim \in {"committed", "owing"}

SoughtForClock(s) ==
    Sought(s) \/ ClockIsToBeRead(s) \/ AsksBy(VerificationDeadline(s))

\* OwedStoreIsReached of one store, without what its next step could take away: a
\* turn whose unit reads a lifetime that has retired counts for nothing, and a leg
\* that has yet to say what it committed counts for the engine alone.
OwedOf(s) ==
    Feeds(s) /\ ~asker.unwound =>
        /\ EngineOwes(s) => SoughtForEngine(s)
        /\ VerificationDeadline(s) # Never => SoughtForClock(s)

OwedInv == \A s \in Stores : OwedOf(s)

----------------------------------------------------------------------------
(* The stance                                                              *)

\* What a step leaves of an entry's stance.
LEMMA StanceStands ==
  ASSUME NEW s \in Stores, StanceOf(s),
         entry'[s].feeds => entry[s].feeds, entry'[s].rung => entry[s].rung,
         \/ entry'[s].claim = entry[s].claim
         \/ entry'[s].claim \notin {"detaching", "detached", "discarded"},
         ops'[s].current = ops[s].current,
         ops'[s].owed = ops[s].owed \/ ops'[s].owed = "settled" \/ ops[s].owed # "settled"
  PROVE  StanceOf(s)'
  BY DEF StanceOf

LEMMA SchedulingStance ==
  ASSUME Inv, StancesInv, Scheduling \/ AskUnwinds \/ TurnUnwindsWhole \/ Tick
  PROVE  StancesInv'
  <1>0. entry \in [Stores -> EntryStates] /\ ops \in [Stores -> OpsStates] /\ asker \in Askers
    BY DEF Inv, TypeOK
  <1>1. \A s \in Stores : ops'[s].owed = ops[s].owed /\ ops'[s].current = ops[s].current
    <2>1. CASE Tick
      BY <1>0, <2>1 DEF Tick, OpsStates
    <2>2. CASE ~Tick
      BY <2>2 DEF Scheduling, NextTurn, ReadsOwed, EndsAsk, SleepUntil, PassesPoisoned,
                  AsksUncovered, BeginsAsk, AskUnwinds, TurnUnwindsWhole
    <2> QED BY <2>1, <2>2
  <1>2. \A s \in Stores :
          /\ entry'[s].feeds => entry[s].feeds
          /\ entry'[s].rung => entry[s].rung
          /\ \/ entry'[s].claim = entry[s].claim
             \/ entry'[s].claim \notin {"detaching", "detached", "discarded"}
    <2>1. CASE EndsAsk
      <3>1. PICK due, owes, claim :
              /\ entry' = [entry EXCEPT ![asker.store].due = due, ![asker.store].mark = owes,
                                        ![asker.store].claim = claim]
              /\ claim = entry[asker.store].claim \/ claim = "maintenance"
        BY <2>1 DEF EndsAsk
      <3> QED BY <1>0, <3>1 DEF EntryStates
    <2>2. CASE AskUnwinds
      BY <1>0, <2>2 DEF AskUnwinds, Unattached, Askers
    <2>3. ASSUME NEW s \in Stores, AsksUncovered(s)
          PROVE  \A u \in Stores : /\ entry'[u].feeds = entry[u].feeds /\ entry'[u].rung = entry[u].rung
                                   /\ entry'[u].claim = entry[u].claim
      BY <1>0, <2>3 DEF AsksUncovered, EntryStates
    <2>4. CASE Tick
      BY <1>0, <2>4 DEF Tick, EntryStates
    <2>5. entry' = entry \/ EndsAsk \/ AskUnwinds \/ Tick \/ \E s \in Stores : AsksUncovered(s)
      BY DEF Scheduling, NextTurn, ReadsOwed, SleepUntil, PassesPoisoned, BeginsAsk, TurnUnwindsWhole
    <2> QED BY <2>1, <2>2, <2>3, <2>4, <2>5
  <1> QED BY <1>1, <1>2, StanceStands DEF StancesInv

LEMMA LegsStance ==
  ASSUME Inv, StancesInv, NEW s \in Stores,
         Attaching(s) \/ Working(s) \/ StanceMoves(s) \/ Releasing(s)
  PROVE  StancesInv'
  <1>0. entry \in [Stores -> EntryStates] /\ ops \in [Stores -> OpsStates] /\ StanceOf(s)
    BY DEF Inv, TypeOK, StancesInv
  <1>1. ASSUME \A u \in Stores \ {s} : entry'[u] = entry[u] /\ ops'[u] = ops[u], StanceOf(s)'
        PROVE  StancesInv'
    BY <1>1 DEF StancesInv, StanceOf
  <1>2. ASSUME NEW state, Moves(s, state)
        PROVE  /\ \A u \in Stores \ {s} : entry'[u] = entry[u]
               /\ entry'[s].feeds = entry[s].feeds /\ entry'[s].rung = entry[s].rung
               /\ entry'[s].claim = state
    BY <1>0, <1>2 DEF Moves, EntryStates
  <1>3. CASE AttachBinds(s) \/ TakesClaim(s) \/ LegCommits(s) \/ LegOwes(s) \/ LegWakes(s)
             \/ LegRebinds(s)
    <2>1. \E state \in {"attaching", "leg", "committed", "owing"} : Moves(s, state)
      BY <1>3 DEF AttachBinds, TakesClaim, LegCommits, LegOwes, LegWakes, LegRebinds
    <2>2. /\ \A u \in Stores \ {s} : ops'[u] = ops[u]
          /\ ops'[s].current = ops[s].current
          /\ ops'[s].owed = ops[s].owed \/ s \in Engines
      BY <1>0, <1>3 DEF AttachBinds, TakesClaim, LegCommits, LegOwes, LegWakes, LegRebinds, OpsStates
    <2> QED BY <1>0, <1>1, <1>2, <2>1, <2>2 DEF StanceOf
  <1>4. CASE AttachInstalls(s)
    <2>1. PICK rung \in BOOLEAN, feeds \in BOOLEAN :
            /\ rung => ~feeds
            /\ entry' = [entry EXCEPT ![s].attached = TRUE, ![s].claim = "open", ![s].rung = rung,
                                      ![s].feeds = feeds, ![s].due = ClockOf(Maintained, s)]
      BY <1>4 DEF AttachInstalls
    <2>2. /\ entry'[s].feeds = feeds /\ entry'[s].rung = rung /\ entry'[s].claim = "open"
          /\ \A u \in Stores \ {s} : entry'[u] = entry[u]
      BY <1>0, <2>1 DEF EntryStates
    <2>3. /\ \A u \in Stores \ {s} : ops'[u] = ops[u]
          /\ ops'[s].current /\ (ops'[s].owed = ops[s].owed \/ s \in Engines)
      BY <1>0, <1>4 DEF AttachInstalls, OpsStates
    <2> QED BY <1>0, <1>1, <2>1, <2>2, <2>3 DEF StanceOf
  <1>5. CASE LegDiscards(s) \/ ReleaseRetires(s)
    <2>1. /\ RetireStore(s) /\ ~entry[s].feeds
          /\ \E state \in {"discarded", "detached"} : Moves(s, state)
      BY <1>0, <1>5 DEF LegDiscards, ReleaseRetires, ClaimAt, StanceOf
    <2>2. /\ \A u \in Stores \ {s} : ops'[u] = ops[u]
          /\ ~ops'[s].current /\ (ops'[s].owed = ops[s].owed \/ s \in Engines)
      BY <1>0, <2>1 DEF RetireStore, OwedOnRetiring, OpsStates
    <2> QED BY <1>0, <1>1, <1>2, <2>1, <2>2 DEF StanceOf
  <1>6. CASE LegPublishes(s)
    <2>1. PICK claim \in {"open", "leg"}, rung, feeds \in BOOLEAN, upkeep \in UpkeepAfter(s) :
            /\ feeds => ~rung /\ ~entry[s].damage
            /\ entry[s].damage => rung /\ claim = "leg"
            /\ entry' = [entry EXCEPT ![s].claim = claim, ![s].rung = rung, ![s].feeds = feeds,
                                      ![s].damage = FALSE]
            /\ ops' = [ops EXCEPT ![s].current = TRUE, ![s].upkeep = upkeep]
            /\ WakeIf(\/ claim = "open" /\ entry[s].mark
                      \/ Returns(s, feeds)
                      \/ Delivers(s))
      BY <1>6 DEF LegPublishes
    <2>2. /\ entry'[s].feeds = feeds /\ entry'[s].rung = rung /\ entry'[s].claim = claim
          /\ ops'[s].current /\ ops'[s].owed = ops[s].owed
          /\ \A u \in Stores \ {s} : entry'[u] = entry[u] /\ ops'[u] = ops[u]
      <3>1. /\ entry'[s].feeds = feeds /\ entry'[s].rung = rung /\ entry'[s].claim = claim
            /\ \A u \in Stores \ {s} : entry'[u] = entry[u]
        BY <1>0, <2>1 DEF EntryStates
      <3>2. ops'[s].current /\ ops'[s].owed = ops[s].owed /\ \A u \in Stores \ {s} : ops'[u] = ops[u]
        BY <1>0, <2>1 DEF OpsStates
      <3> QED BY <3>1, <3>2
    <2>3. StanceOf(s)'
      BY <1>0, <2>1, <2>2 DEF StanceOf
    <2> QED BY <1>1, <2>2, <2>3
  <1>7. CASE StanceMoves(s)
    <2>1. /\ entry'[s].feeds = ~entry[s].feeds /\ entry'[s].rung = entry[s].rung
          /\ entry'[s].claim = entry[s].claim /\ ops' = ops
          /\ \A u \in Stores \ {s} : entry'[u] = entry[u]
      BY <1>0, <1>7 DEF StanceMoves, EntryStates
    <2> QED BY <1>0, <1>1, <1>7, <2>1 DEF StanceMoves, StanceOf
  <1>8. CASE ReleaseBegins(s)
    <2>1. PICK attached :
            entry' = [entry EXCEPT ![s].attached = attached, ![s].feeds = FALSE, ![s].rung = FALSE,
                                   ![s].damage = FALSE, ![s].claim = "detaching"]
      BY <1>8 DEF ReleaseBegins
    <2>2. /\ ~entry'[s].feeds /\ entry'[s].claim = "detaching" /\ ops' = ops
          /\ \A u \in Stores \ {s} : entry'[u] = entry[u]
      BY <1>0, <1>8, <2>1 DEF ReleaseBegins, EntryStates
    <2> QED BY <1>0, <1>1, <2>2 DEF StanceOf
  <1>9. CASE ReleaseEnds(s)
    <2>1. /\ entry'[s].feeds = entry[s].feeds /\ entry'[s].claim = "open"
          /\ ops'[s].owed = "settled"
          /\ \A u \in Stores \ {s} : entry'[u] = entry[u] /\ ops'[u] = ops[u]
      BY <1>0, <1>9 DEF ReleaseEnds, EntryStates, OpsStates
    <2>2. ~entry[s].feeds
      BY <1>0, <1>9 DEF ReleaseEnds, ClaimAt, StanceOf
    <2> QED BY <1>1, <2>1, <2>2 DEF StanceOf
  <1> QED BY <1>3, <1>4, <1>5, <1>6, <1>7, <1>8, <1>9 DEF Attaching, Working, Releasing

LEMMA TurnsStance ==
  ASSUME Inv, StancesInv, NEW t \in LaneThreads,
         \/ Turning(t) \/ ReadsStance(t) \/ Verifying(t) \/ Draining(t) \/ JudgesDamage(t)
         \/ TurnUnwinds(t)
  PROVE  StancesInv'
  <1>0. entry \in [Stores -> EntryStates] /\ ops \in [Stores -> OpsStates]
    BY DEF Inv, TypeOK
  <1>1. \A s \in Stores :
          /\ entry'[s].feeds => entry[s].feeds /\ (entry'[s].rung => entry[s].rung)
          /\ entry'[s].claim = entry[s].claim \/ entry'[s].claim = "leg"
    <2>1. CASE JudgesDamage(t)
      <3>1. \/ entry' = entry
            \/ entry' = [entry EXCEPT ![StoreOf(t)].feeds = FALSE, ![StoreOf(t)].rung = TRUE,
                                      ![StoreOf(t)].claim = "leg"]
            \/ entry' = [entry EXCEPT ![StoreOf(t)].damage = TRUE]
        BY <2>1 DEF JudgesDamage
      <3> QED BY <1>0, <3>1 DEF EntryStates
    <2>2. CASE entry' = entry
      BY <2>2
    <2> QED BY <2>1, <2>2
            DEF Turning, TakesTurn, TurnStops, FindsNothingOwed, TurnEnds, Finishes, Requeues,
                ReadsStance, Verifying, VerificationBegins, VerificationReturns, VerificationEnds,
                VerificationFindsDamage, Draining, EngineUnitBegins, ReadsPage, DiscardsPage,
                DrainsPage, DrainsLast, EngineFails, UnitRefused, FeedReadFindsDamage, TurnUnwinds
  <1>2. \A s \in Stores :
          /\ ops'[s].current = ops[s].current
          /\ ops'[s].owed = ops[s].owed \/ ops'[s].owed = "settled" \/ ops[s].owed # "settled"
    <2>1. CASE EngineUnitBegins(t)
      BY <1>0, <2>1 DEF EngineUnitBegins, EngineOwes, OpsStates
    <2>2. CASE DrainsLast(t) \/ EngineFails(t)
      <3>1. PICK owed, feed :
              /\ ops' = [ops EXCEPT ![StoreOf(t)].owed = owed, ![StoreOf(t)].feed = feed]
              /\ owed = "settled" \/ owed = ops[StoreOf(t)].owed
        BY <2>2 DEF DrainsLast, EngineFails
      <3> QED BY <1>0, <3>1 DEF OpsStates
    <2>3. CASE VerificationBegins(t) \/ VerificationReturns(t) \/ TurnUnwinds(t)
      BY <1>0, <2>3 DEF VerificationBegins, VerificationReturns, TurnUnwinds, OpsStates
    <2>4. CASE VerificationEnds(t) \/ VerificationFindsDamage(t)
      BY <1>0, <2>4 DEF VerificationEnds, VerificationFindsDamage, ClockMoves, OpsStates
    <2>5. CASE ReadsPage(t)
      BY <1>0, <2>5 DEF ReadsPage, OpsStates
    <2>6. CASE ops' = ops
      BY <2>6
    <2> QED BY <2>1, <2>2, <2>3, <2>4, <2>5, <2>6
            DEF Turning, TakesTurn, TurnStops, FindsNothingOwed, TurnEnds, Finishes, Requeues,
                ReadsStance, Verifying, Draining, DiscardsPage, DrainsPage, UnitRefused,
                FeedReadFindsDamage, JudgesDamage
  <1> QED BY <1>1, <1>2 DEF StancesInv, StanceOf

LEMMA StancesAlways == /\ Init => StancesInv
                       /\ Inv /\ StancesInv /\ [Next]_vars => StancesInv'
  <1>1. Init => StancesInv
    BY DEF Init, StancesInv, StanceOf, Unattached
  <1>2. ASSUME Inv, StancesInv, [Next]_vars PROVE StancesInv'
    <2>1. CASE UNCHANGED vars
      BY <1>2, <2>1 DEF vars, StancesInv, StanceOf
    <2> QED BY <1>2, <2>1, SchedulingStance, LegsStance, TurnsStance DEF Next
  <1> QED BY <1>1, <1>2

----------------------------------------------------------------------------
(* The turns                                                               *)

\* A turn has a store while it runs, and a unit runs for work its turn owes.
TurnsInv ==
    \A t \in LaneThreads :
        /\ At(t, "idle") => StoreOf(t) = NoStore
        /\ turn[t].pc \in {"unit", "verifying", "returned", "seen", "draining"} => turn[t].owed

LEMMA TurnsAlways == /\ Init => TurnsInv
                     /\ Inv /\ TurnsInv /\ [Next]_vars => TurnsInv'
  <1>1. Init => TurnsInv
    BY DEF Init, TurnsInv, Idle, At, StoreOf
  <1>2. ASSUME Inv, TurnsInv, UNCHANGED turn PROVE TurnsInv'
    BY <1>2 DEF TurnsInv, At, StoreOf
  <1>3. ASSUME Inv, TurnsInv, Scheduling \/ AskUnwinds \/ TurnUnwindsWhole \/ Tick
        PROVE  TurnsInv'
    <2>1. UNCHANGED turn
      BY <1>3 DEF Scheduling, NextTurn, ReadsOwed, EndsAsk, SleepUntil, PassesPoisoned,
             AsksUncovered, BeginsAsk, AskUnwinds, TurnUnwindsWhole, Tick
    <2> QED BY <1>2, <1>3, <2>1
  <1>4. ASSUME Inv, TurnsInv, NEW s \in Stores,
               Attaching(s) \/ Working(s) \/ StanceMoves(s) \/ Releasing(s)
        PROVE  TurnsInv'
    <2>1. CASE LegDiscards(s) \/ ReleaseRetires(s)
      <3>1. \A t \in LaneThreads :
              /\ turn'[t].pc = turn[t].pc /\ turn'[t].store = turn[t].store
              /\ turn'[t].owed = turn[t].owed
        BY <1>4, <2>1 DEF LegDiscards, ReleaseRetires, RetireStore, Inv, TypeOK, TurnStates
      <3> QED BY <1>4, <3>1 DEF TurnsInv, At, StoreOf
    <2>2. CASE UNCHANGED turn
      BY <1>2, <1>4, <2>2
    <2> QED BY <1>4, <2>1, <2>2
            DEF Attaching, AttachBinds, AttachInstalls, Working, TakesClaim, LegCommits, LegOwes,
                LegWakes, LegRebinds, LegPublishes, StanceMoves, Releasing, ReleaseBegins, ReleaseEnds
  <1>5. ASSUME Inv, TurnsInv, NEW t \in LaneThreads,
               \/ Turning(t) \/ ReadsStance(t) \/ Verifying(t) \/ Draining(t) \/ JudgesDamage(t)
               \/ TurnUnwinds(t)
        PROVE  TurnsInv'
    <2>0. turn \in [LaneThreads -> TurnStates] /\ turn[t] \in TurnStates
      BY <1>5 DEF Inv, TypeOK
    <2>1. ASSUME NEW r, turn' = [turn EXCEPT ![t] = r],
                 r.pc = "idle" => r.store = NoStore,
                 r.pc \in {"unit", "verifying", "returned", "seen", "draining"} => r.owed
          PROVE  TurnsInv'
      BY <1>5, <2>0, <2>1 DEF TurnsInv, At, StoreOf
    <2>2. turn[t].pc \in {"unit", "verifying", "returned", "seen", "draining"} => turn[t].owed
      BY <1>5 DEF TurnsInv
    <2>3. ASSUME NEW pc \in Pcs \ {"idle"}, Goes(t, pc),
                 pc \in {"unit", "verifying", "returned", "seen", "draining"} => turn[t].owed
          PROVE  TurnsInv'
      <3>1. [turn[t] EXCEPT !.pc = pc].pc = pc /\ [turn[t] EXCEPT !.pc = pc].owed = turn[t].owed
        BY <2>0 DEF TurnStates
      <3> QED BY <2>1, <2>3, <3>1 DEF Goes
    <2>4. ASSUME NEW owed, UnitEnds(t, owed) PROVE TurnsInv'
      <3>1. [turn[t] EXCEPT !.pc = "boundary", !.owed = owed, !.ran = TRUE, !.stale = FALSE].pc = "boundary"
        BY <2>0 DEF TurnStates
      <3> QED BY <2>1, <2>4, <3>1 DEF UnitEnds
    <2>5. CASE TakesTurn(t)
      <3> DEFINE r == [Idle EXCEPT !.pc = "boundary", !.store = Head(lane.queue), !.owed = TRUE]
      <3>1. turn' = [turn EXCEPT ![t] = r]
        BY <2>5 DEF TakesTurn
      <3>2. r.pc = "boundary"
        BY DEF Idle
      <3> QED BY <2>1, <3>1, <3>2
    <2>6. CASE TurnStops(t) \/ TurnEnds(t)
      BY <2>3, <2>6 DEF TurnStops, TurnEnds, Pcs
    <2>7. CASE FindsNothingOwed(t)
      <3>1. [turn[t] EXCEPT !.pc = "ending", !.owed = FALSE].pc = "ending"
        BY <2>0 DEF TurnStates
      <3> QED BY <2>1, <2>7, <3>1 DEF FindsNothingOwed
    <2>8. CASE Finishes(t)
      <3>1. [turn[t] EXCEPT !.pc = "requeueing"].pc = "requeueing"
            /\ Idle.pc = "idle" /\ Idle.store = NoStore
        BY <2>0 DEF TurnStates, Idle
      <3> QED BY <2>1, <2>8, <3>1 DEF Finishes
    <2>9. CASE Requeues(t)
      BY <2>1, <2>9 DEF Requeues, Idle
    <2>10. CASE ReadsStance(t)
      <3> DEFINE feeds == Feeds(StoreOf(t))
      <3>1. turn' = [turn EXCEPT ![t].pc = IF feeds THEN "unit" ELSE "ending", ![t].owed = feeds]
        BY <2>10 DEF ReadsStance
      <3>2. CASE feeds
        <4>1. /\ [turn[t] EXCEPT !.pc = "unit", !.owed = feeds].pc = "unit"
              /\ [turn[t] EXCEPT !.pc = "unit", !.owed = feeds].owed
          BY <2>0, <3>2 DEF TurnStates
        <4> QED BY <2>1, <3>1, <3>2, <4>1
      <3>3. CASE ~feeds
        <4>1. [turn[t] EXCEPT !.pc = "ending", !.owed = feeds].pc = "ending"
          BY <2>0 DEF TurnStates
        <4> QED BY <2>1, <3>1, <3>3, <4>1
      <3> QED BY <3>2, <3>3
    <2>11. CASE VerificationBegins(t) \/ VerificationReturns(t) \/ EngineUnitBegins(t) \/ ReadsPage(t)
      <3>1. CASE VerificationBegins(t)
        BY <2>2, <2>3, <3>1 DEF VerificationBegins, At, Pcs
      <3>2. CASE VerificationReturns(t)
        BY <2>2, <2>3, <3>2 DEF VerificationReturns, At, Pcs
      <3>3. CASE EngineUnitBegins(t)
        BY <2>2, <2>3, <3>3 DEF EngineUnitBegins, At, Pcs
      <3>4. CASE ReadsPage(t)
        BY <2>2, <2>3, <3>4 DEF ReadsPage, At, Pcs
      <3> QED BY <2>11, <3>1, <3>2, <3>3, <3>4
    <2>12. CASE VerificationFindsDamage(t) \/ FeedReadFindsDamage(t)
      <3>1. [turn[t] EXCEPT !.pc = "judging", !.owed = FALSE].pc = "judging"
        BY <2>0 DEF TurnStates
      <3> QED BY <2>1, <2>12, <3>1 DEF VerificationFindsDamage, FeedReadFindsDamage
    <2>13. CASE TurnUnwinds(t)
      <3>1. [turn[t] EXCEPT !.pc = "finishing", !.owed = FALSE, !.stale = FALSE].pc = "finishing"
        BY <2>0 DEF TurnStates
      <3> QED BY <2>1, <2>13, <3>1 DEF TurnUnwinds
    <2>14. CASE \E owed : UnitEnds(t, owed)
      BY <2>4, <2>14
    <2>15. VerificationEnds(t) \/ DiscardsPage(t) \/ DrainsPage(t) \/ DrainsLast(t) \/ EngineFails(t)
             \/ UnitRefused(t) \/ JudgesDamage(t)
           => \E owed : UnitEnds(t, owed)
      BY DEF VerificationEnds, DiscardsPage, DrainsPage, DrainsLast, EngineFails, UnitRefused,
             JudgesDamage
    <2> QED BY <1>5, <2>5, <2>6, <2>7, <2>8, <2>9, <2>10, <2>11, <2>12, <2>13, <2>14, <2>15
            DEF Turning, Verifying, Draining
  <1>6. ASSUME Inv, TurnsInv, [Next]_vars PROVE TurnsInv'
    BY <1>2, <1>3, <1>4, <1>5, <1>6 DEF Next, vars
  <1> QED BY <1>1, <1>6

----------------------------------------------------------------------------
(* What is owed over a stance that feeds                                   *)

\* A step after which the scheduler asks no later.
Sooner ==
    /\ asker' = asker
    /\ signals'.earliest = signals.earliest /\ signals'.retry <= signals.retry
    /\ signals.woken => signals'.woken

LEMMA TimesOfSignals ==
  ASSUME TypeOK
  PROVE  /\ signals.earliest \in Int /\ signals.retry \in Int /\ asker.found \in Int
         /\ \A s \in Stores : VerificationDeadline(s) \in Int
  <1>1. signals.earliest \in Int /\ signals.retry \in Int /\ asker.found \in Int
    BY TimesAreIntegers DEF TypeOK, Signals, Askers
  <1>2. Clocks \subseteq Int
    BY BackgroundAssumption DEF Clocks, Never
  <1> QED BY <1>1, <1>2, ReadClocks

\* A deadline that is asked by goes on being asked by while the clock stands.
LEMMA StillAsksBy ==
  ASSUME TypeOK, TypeOK', NEW s \in Stores,
         VerificationDeadline(s)' = VerificationDeadline(s),
         signals'.earliest = signals.earliest, signals'.retry <= signals.retry,
         asker'.found <= asker.found, AsksBy(VerificationDeadline(s))
  PROVE  AsksBy(VerificationDeadline(s))'
  <1>1. /\ signals.earliest \in Int /\ signals.retry \in Int /\ asker.found \in Int
        /\ signals'.earliest \in Int /\ signals'.retry \in Int /\ asker'.found \in Int
        /\ VerificationDeadline(s) \in Int
    <2>1. /\ signals'.earliest \in Int /\ signals'.retry \in Int /\ asker'.found \in Int
      BY TimesAreIntegers DEF TypeOK, Signals, Askers
    <2> QED BY <2>1, TimesOfSignals
  <1>2. PICK deadline \in {signals.earliest, signals.retry, asker.found} :
          Past(deadline) \/ deadline <= VerificationDeadline(s)
    BY DEF AsksBy
  <1>3. PICK other \in {signals'.earliest, signals'.retry, asker'.found} \cap Int :
          deadline \in Int /\ other <= deadline
    <2>1. CASE deadline = signals.retry
      BY <1>1, <2>1
    <2>2. CASE deadline = asker.found
      BY <1>1, <2>2
    <2>3. CASE deadline = signals.earliest
      BY <1>1, <2>3
    <2> QED BY <1>2, <2>1, <2>2, <2>3
  <1>4. Past(other) \/ other <= VerificationDeadline(s)
    BY <1>1, <1>2, <1>3 DEF Past
  <1> QED BY <1>3, <1>4 DEF AsksBy, Past

\* What keeps a store sought, whatever the turns and the legs of others do.
LEMMA StillSought ==
  ASSUME TypeOK, TypeOK', Sooner, NEW s \in Stores, Sought(s),
         Looks(s) => Looks(s)', entry[s].damage => entry'[s].damage
  PROVE  Sought(s)'
  <1>1. signals.retry <= RetryAfter => signals'.retry <= RetryAfter
    <2>1. signals.retry \in Int /\ signals'.retry \in Int
      BY TimesAreIntegers DEF TypeOK, Signals
    <2>2. RetryAfter \in Int
      BY BackgroundAssumption
    <2> QED BY <2>1, <2>2 DEF Sooner
  <1>2. StillToRead(s) => StillToRead(s)'
    BY DEF StillToRead, Sooner
  <1> QED BY <1>1, <1>2 DEF Sought, Sooner

\* A store whose work goes on being sought by what sought it, with no more owed.
LEMMA OwedStands ==
  ASSUME TypeOK, TypeOK', Sooner, NEW s \in Stores, OwedOf(s),
         Feeds(s)' => Feeds(s),
         EngineOwes(s)' => \/ entry'[s].claim \in {"committed", "owing"}
                           \/ EngineOwes(s) /\ entry[s].claim \notin {"committed", "owing"},
         VerificationDeadline(s)' # Never =>
             /\ VerificationDeadline(s)' = VerificationDeadline(s)
             /\ \A t \in LaneThreads :
                    StoreOf(t) = s /\ turn[t].pc \in {"boundary", "ending"}
                        => (StoreOf(t) = s /\ turn[t].pc \in {"boundary", "ending"})',
         Looks(s) => Looks(s)', entry[s].damage => entry'[s].damage
  PROVE  OwedOf(s)'
  <1> SUFFICES ASSUME Feeds(s)', ~asker'.unwound
               PROVE  /\ EngineOwes(s)' => SoughtForEngine(s)'
                      /\ VerificationDeadline(s)' # Never => SoughtForClock(s)'
    BY DEF OwedOf
  <1>1. /\ EngineOwes(s) => SoughtForEngine(s)
        /\ VerificationDeadline(s) # Never => SoughtForClock(s)
    BY DEF OwedOf, Sooner
  <1>2. Sought(s) => Sought(s)'
    BY StillSought
  <1>3. EngineOwes(s)' => SoughtForEngine(s)'
    BY <1>1, <1>2 DEF SoughtForEngine
  <1>4. VerificationDeadline(s)' # Never => SoughtForClock(s)'
    <2> SUFFICES ASSUME VerificationDeadline(s)' # Never PROVE SoughtForClock(s)'
      OBVIOUS
    <2>1. VerificationDeadline(s)' = VerificationDeadline(s) /\ SoughtForClock(s)
      BY <1>1
    <2>2. AsksBy(VerificationDeadline(s)) => AsksBy(VerificationDeadline(s))'
      <3>1. asker'.found <= asker.found
        <4>1. asker.found \in Int
          BY TimesOfSignals
        <4> QED BY <4>1 DEF Sooner
      <3> QED BY <2>1, <3>1, StillAsksBy DEF Sooner
    <2>3. ClockIsToBeRead(s) => ClockIsToBeRead(s)'
      <3>1. asker.store = s /\ LaneDeadline(s) # Never => (asker.store = s /\ LaneDeadline(s) # Never)'
        BY <2>1 DEF LaneDeadline, Sooner
      <3> QED BY <3>1 DEF ClockIsToBeRead
    <2> QED BY <1>2, <2>1, <2>2, <2>3 DEF SoughtForClock
  <1> QED BY <1>3, <1>4

\* A step about one store, by its leg or by a turn for it, leaves the others.
LEMMA OthersStand ==
  ASSUME Inv, Inv', OwedInv, Sooner, NEW s \in Stores,
         \A u \in Stores \ {s} :
             /\ entry'[u] = entry[u] /\ ops'[u] = ops[u]
             /\ u \in lane.queued \cup lane.again => u \in lane'.queued \cup lane'.again,
         \A t \in LaneThreads : StoreOf(t) \notin {s, NoStore} => turn'[t] = turn[t],
         OwedOf(s)'
  PROVE  OwedInv'
  <1> SUFFICES ASSUME NEW u \in Stores \ {s} PROVE OwedOf(u)'
    BY DEF OwedInv
  <1>1. u # NoStore /\ OwedOf(u)
    BY BackgroundAssumption DEF OwedInv
  <1>2. entry'[u] = entry[u] /\ ops'[u] = ops[u]
    OBVIOUS
  <1>3. Feeds(u)' = Feeds(u) /\ EngineOwes(u)' = EngineOwes(u)
        /\ VerificationDeadline(u)' = VerificationDeadline(u)
    BY <1>2 DEF Feeds, EngineOwes, VerificationDeadline
  <1>4. \A t \in LaneThreads : StoreOf(t) = u => turn'[t] = turn[t]
    BY <1>1
  <1>5. Looks(u) => Looks(u)'
    BY <1>4 DEF Looks, At, StoreOf
  <1>6. \A t \in LaneThreads :
          StoreOf(t) = u /\ turn[t].pc \in {"boundary", "ending"}
            => (StoreOf(t) = u /\ turn[t].pc \in {"boundary", "ending"})'
    BY <1>4 DEF StoreOf
  <1>7. EngineOwes(u)' => \/ entry'[u].claim \in {"committed", "owing"}
                          \/ EngineOwes(u) /\ entry[u].claim \notin {"committed", "owing"}
    BY <1>2, <1>3
  <1> QED BY <1>1, <1>2, <1>3, <1>5, <1>6, <1>7, OwedStands DEF Inv

LEMMA LegsAskSooner ==
  ASSUME Inv, NEW s \in Stores, Attaching(s) \/ Working(s) \/ StanceMoves(s) \/ Releasing(s)
  PROVE  Sooner
  <1>0. signals \in Signals /\ entry \in [Stores -> EntryStates]
    BY DEF Inv, TypeOK
  <1>1. asker' = asker
    BY DEF Attaching, AttachBinds, AttachInstalls, Working, TakesClaim, LegCommits, LegOwes, LegWakes,
           LegDiscards, LegRebinds, LegPublishes, StanceMoves, Releasing, ReleaseBegins,
           ReleaseRetires, ReleaseEnds
  <1>2. entry[s].mark \in BOOLEAN /\ entry[s].feeds \in BOOLEAN
    BY <1>0 DEF EntryStates
  <1>3. signals' = signals \/ Wake \/ \E condition \in BOOLEAN : WakeIf(condition)
    <2>1. CASE LegPublishes(s)
      <3>1. PICK claim \in {"open", "leg"}, rung, feeds \in BOOLEAN, upkeep \in UpkeepAfter(s) :
            /\ feeds => ~rung /\ ~entry[s].damage
            /\ entry[s].damage => rung /\ claim = "leg"
            /\ entry' = [entry EXCEPT ![s].claim = claim, ![s].rung = rung, ![s].feeds = feeds,
                                      ![s].damage = FALSE]
            /\ ops' = [ops EXCEPT ![s].current = TRUE, ![s].upkeep = upkeep]
            /\ WakeIf(\/ claim = "open" /\ entry[s].mark
                      \/ Returns(s, feeds)
                      \/ Delivers(s))
        BY <2>1 DEF LegPublishes
      <3> DEFINE condition == (claim = "open" /\ entry[s].mark) \/ Returns(s, feeds) \/ Delivers(s)
      <3>2. condition \in BOOLEAN /\ WakeIf(condition)
        BY <1>2, <3>1 DEF Returns, Delivers
      <3> QED BY <3>2
    <2>2. CASE ~LegPublishes(s)
      <3>1. signals' = signals \/ Wake \/ WakeIf(Engines # {}) \/ WakeIf(~entry[s].feeds)
            \/ WakeIf(entry[s].mark)
        BY <2>2 DEF Attaching, AttachBinds, AttachInstalls, Working, TakesClaim, LegCommits, LegOwes,
               LegWakes, LegDiscards, LegRebinds, StanceMoves, Releasing, ReleaseBegins,
               ReleaseRetires, ReleaseEnds
      <3>2. (Engines # {}) \in BOOLEAN /\ (~entry[s].feeds) \in BOOLEAN
        OBVIOUS
      <3> QED BY <1>2, <3>1, <3>2
    <2> QED BY <2>1, <2>2
  <1> QED BY <1>0, <1>1, <1>3, SignalsOnlySooner DEF Sooner

LEMMA LegsOwed ==
  ASSUME Inv, Inv', StancesInv, OwedInv, NEW s \in Stores,
         Attaching(s) \/ Working(s) \/ StanceMoves(s) \/ Releasing(s)
  PROVE  OwedInv'
  <1>0. /\ signals \in Signals /\ entry \in [Stores -> EntryStates]
        /\ ops \in [Stores -> OpsStates] /\ turn \in [LaneThreads -> TurnStates]
        /\ TypeOK /\ TypeOK'
    BY DEF Inv, TypeOK
  <1>1. Sooner /\ StanceOf(s) /\ OwedOf(s)
    BY LegsAskSooner DEF StancesInv, OwedInv
  <1>2. lane' = lane
    BY DEF Attaching, AttachBinds, AttachInstalls, Working, TakesClaim, LegCommits, LegOwes, LegWakes,
           LegDiscards, LegRebinds, LegPublishes, StanceMoves, Releasing, ReleaseBegins,
           ReleaseRetires, ReleaseEnds
  <1>3. ASSUME \A u \in Stores \ {s} : entry'[u] = entry[u] /\ ops'[u] = ops[u],
               \A t \in LaneThreads : StoreOf(t) \notin {s, NoStore} => turn'[t] = turn[t],
               OwedOf(s)'
        PROVE  OwedInv'
    BY <1>1, <1>2, <1>3, OthersStand
  <1>4. ~Feeds(s)' \/ signals'.woken => OwedOf(s)'
    BY DEF OwedOf, SoughtForEngine, SoughtForClock, Sought
  <1>5. ASSUME turn' = turn, Feeds(s)' => Feeds(s), entry[s].damage => entry'[s].damage,
               EngineOwes(s)' => \/ entry'[s].claim \in {"committed", "owing"}
                                 \/ EngineOwes(s) /\ entry[s].claim \notin {"committed", "owing"},
               VerificationDeadline(s)' # Never => VerificationDeadline(s)' = VerificationDeadline(s)
        PROVE  OwedOf(s)'
    <2>1. Looks(s) => Looks(s)'
      BY <1>2, <1>5 DEF Looks, At, StoreOf
    <2>2. \A t \in LaneThreads :
            StoreOf(t) = s /\ turn[t].pc \in {"boundary", "ending"}
              => (StoreOf(t) = s /\ turn[t].pc \in {"boundary", "ending"})'
      BY <1>5 DEF StoreOf
    <2> QED BY <1>0, <1>1, <1>5, <2>1, <2>2, OwedStands
  <1>6. ASSUME NEW state, Moves(s, state)
        PROVE  /\ \A u \in Stores \ {s} : entry'[u] = entry[u]
               /\ entry'[s].feeds = entry[s].feeds /\ entry'[s].attached = entry[s].attached
               /\ entry'[s].poisoned = entry[s].poisoned
               /\ entry'[s].damage = entry[s].damage /\ entry'[s].claim = state
    BY <1>0, <1>6 DEF Moves, EntryStates
  <1>7. CASE AttachBinds(s)
    <2>1. Moves(s, "attaching") /\ ~entry[s].attached /\ turn' = turn
          /\ \A u \in Stores \ {s} : ops'[u] = ops[u]
      BY <1>0, <1>7 DEF AttachBinds
    <2>2. ~Feeds(s)' /\ \A u \in Stores \ {s} : entry'[u] = entry[u]
      BY <1>6, <2>1 DEF Feeds
    <2> QED BY <1>3, <1>4, <2>1, <2>2
  <1>8. CASE AttachInstalls(s)
    <2>1. signals'.woken /\ turn' = turn /\ \A u \in Stores \ {s} : entry'[u] = entry[u] /\ ops'[u] = ops[u]
      BY <1>0, <1>8 DEF AttachInstalls, Wake, Signals
    <2> QED BY <1>3, <1>4, <2>1
  <1>9. CASE TakesClaim(s)
    <2>1. Moves(s, "leg") /\ entry[s].claim = "open" /\ turn' = turn /\ ops' = ops
      BY <1>9 DEF TakesClaim, ClaimAt
    <2>2. OwedOf(s)'
      BY <1>5, <1>6, <2>1 DEF Feeds, EngineOwes, VerificationDeadline
    <2> QED BY <1>3, <1>6, <2>1, <2>2
  <1>10. CASE LegCommits(s) \/ LegOwes(s)
    <2>1. \E state \in {"committed", "owing"} : Moves(s, state)
      BY <1>10 DEF LegCommits, LegOwes
    <2>2. turn' = turn /\ ops'[s].running = ops[s].running /\ ops'[s].bound = ops[s].bound
          /\ ops'[s].clock = ops[s].clock /\ \A u \in Stores \ {s} : ops'[u] = ops[u]
      BY <1>0, <1>10 DEF LegCommits, LegOwes, OpsStates
    <2>3. OwedOf(s)'
      BY <1>5, <1>6, <2>1, <2>2 DEF Feeds, VerificationDeadline
    <2> QED BY <1>3, <1>6, <2>1, <2>2, <2>3
  <1>11. CASE LegWakes(s)
    <2>1. Moves(s, "leg") /\ WakeIf(Engines # {}) /\ turn' = turn /\ ops' = ops
      BY <1>11 DEF LegWakes
    <2>2. CASE Engines # {}
      <3>1. signals'.woken
        BY <1>0, <2>1, <2>2 DEF WakeIf, Signals
      <3> QED BY <1>3, <1>4, <1>6, <2>1, <3>1
    <2>3. CASE Engines = {}
      <3>1. ~EngineOwes(s)'
        BY <1>1, <2>1, <2>3 DEF EngineOwes, StanceOf
      <3>2. OwedOf(s)'
        BY <1>5, <1>6, <2>1, <3>1 DEF Feeds, VerificationDeadline
      <3> QED BY <1>3, <1>6, <2>1, <3>2
    <2> QED BY <2>2, <2>3
  <1>12. CASE LegDiscards(s) \/ ReleaseRetires(s)
    <2>1. /\ RetireStore(s) /\ ~entry[s].feeds
          /\ \E state \in {"discarded", "detached"} : Moves(s, state)
      BY <1>1, <1>12 DEF LegDiscards, ReleaseRetires, ClaimAt, StanceOf
    <2>2. /\ \A u \in Stores \ {s} : ops'[u] = ops[u]
          /\ \A t \in LaneThreads : StoreOf(t) \notin {s, NoStore} => turn'[t] = turn[t]
      BY <1>0, <2>1 DEF RetireStore, StoreOf
    <2>3. OwedOf(s)'
      BY <1>4, <1>6, <2>1 DEF Feeds
    <2> QED BY <1>3, <1>6, <2>1, <2>2, <2>3
  <1>13. CASE LegRebinds(s)
    <2>1. /\ Moves(s, "committed") /\ ~entry[s].feeds /\ turn' = turn
          /\ \A u \in Stores \ {s} : ops'[u] = ops[u]
      BY <1>0, <1>1, <1>13 DEF LegRebinds, ClaimAt, StanceOf
    <2>3. OwedOf(s)'
      BY <1>4, <1>6, <2>1 DEF Feeds
    <2> QED BY <1>3, <1>6, <2>1, <2>3
  <1>14. CASE LegPublishes(s)
    <2>1. PICK claim \in {"open", "leg"}, rung, feeds \in BOOLEAN, upkeep \in UpkeepAfter(s) :
            /\ feeds => ~rung /\ ~entry[s].damage
            /\ entry[s].damage => rung /\ claim = "leg"
            /\ entry' = [entry EXCEPT ![s].claim = claim, ![s].rung = rung, ![s].feeds = feeds,
                                      ![s].damage = FALSE]
            /\ ops' = [ops EXCEPT ![s].current = TRUE, ![s].upkeep = upkeep]
            /\ WakeIf(\/ claim = "open" /\ entry[s].mark
                      \/ Returns(s, feeds)
                      \/ Delivers(s))
      BY <1>14 DEF LegPublishes
    <2>2. /\ entry'[s].feeds = feeds /\ entry'[s].attached = entry[s].attached
          /\ entry'[s].poisoned = entry[s].poisoned /\ entry'[s].claim = claim
          /\ \A u \in Stores \ {s} : entry'[u] = entry[u]
      BY <1>0, <2>1 DEF EntryStates
    <2>3. /\ ops'[s].owed = ops[s].owed /\ ops'[s].running = ops[s].running
          /\ ops'[s].bound = ops[s].bound /\ ops'[s].clock = ops[s].clock
          /\ \A u \in Stores \ {s} : ops'[u] = ops[u]
      BY <1>0, <2>1 DEF OpsStates
    <2>4. ~entry[s].feeds /\ feeds => signals'.woken
      BY <1>0, <2>1 DEF WakeIf, Signals, Returns
    <2>5. entry[s].claim \notin {"committed", "owing"} /\ turn' = turn
      BY <1>14 DEF LegPublishes
    <2>6. CASE entry[s].feeds /\ feeds
      <3>1. ops[s].current /\ ~entry[s].damage
        BY <1>1, <2>1, <2>6 DEF StanceOf
      <3>2. EngineOwes(s)' => EngineOwes(s)
        BY <2>3, <3>1 DEF EngineOwes
      <3>3. VerificationDeadline(s)' = VerificationDeadline(s)
        BY <2>3 DEF VerificationDeadline
      <3>4. Feeds(s)' => Feeds(s)
        BY <2>2, <2>6 DEF Feeds
      <3> QED BY <1>3, <1>5, <2>2, <2>3, <2>5, <3>1, <3>2, <3>3, <3>4
    <2>7. CASE ~entry[s].feeds \/ ~feeds
      <3>1. ~Feeds(s)' \/ signals'.woken
        BY <2>2, <2>4, <2>7 DEF Feeds
      <3> QED BY <1>3, <1>4, <2>2, <2>3, <2>5, <3>1
    <2> QED BY <2>6, <2>7
  <1>15. CASE StanceMoves(s)
    <2>1. /\ entry'[s].feeds = ~entry[s].feeds /\ turn' = turn /\ ops' = ops
          /\ \A u \in Stores \ {s} : entry'[u] = entry[u]
      BY <1>0, <1>15 DEF StanceMoves, EntryStates
    <2>2. ~entry[s].feeds => signals'.woken
      BY <1>0, <1>15 DEF StanceMoves, WakeIf, Signals
    <2>3. OwedOf(s)'
      BY <1>4, <2>1, <2>2 DEF Feeds
    <2> QED BY <1>3, <2>1, <2>3
  <1>16. CASE ReleaseBegins(s)
    <2>1. PICK attached \in {FALSE, entry[s].attached} :
            entry' = [entry EXCEPT ![s].attached = attached, ![s].feeds = FALSE, ![s].rung = FALSE,
                                   ![s].damage = FALSE, ![s].claim = "detaching"]
      BY <1>16 DEF ReleaseBegins
    <2>2. ~entry'[s].feeds /\ ops' = ops /\ turn' = turn /\ \A u \in Stores \ {s} : entry'[u] = entry[u]
      BY <1>0, <1>16, <2>1 DEF ReleaseBegins, EntryStates
    <2> QED BY <1>3, <1>4, <2>2 DEF Feeds
  <1>17. CASE ReleaseEnds(s)
    <2>1. ~entry'[s].attached /\ turn' = turn
          /\ \A u \in Stores \ {s} : entry'[u] = entry[u] /\ ops'[u] = ops[u]
      BY <1>0, <1>17 DEF ReleaseEnds, EntryStates
    <2> QED BY <1>3, <1>4, <2>1 DEF Feeds
  <1> QED BY <1>7, <1>8, <1>9, <1>10, <1>11, <1>12, <1>13, <1>14, <1>15, <1>16, <1>17
          DEF Attaching, Working, Releasing

LEMMA TurnsAskSooner ==
  ASSUME Inv, NEW t \in LaneThreads,
         \/ Turning(t) \/ ReadsStance(t) \/ Verifying(t) \/ Draining(t) \/ JudgesDamage(t)
         \/ TurnUnwinds(t)
  PROVE  Sooner
  <1>0. signals \in Signals /\ RetryAfter \in Clocks
    BY NamedTimes, TimesAreClocks DEF Inv, TypeOK
  <1>1. asker' = asker
    BY DEF Turning, TakesTurn, TurnStops, FindsNothingOwed, TurnEnds, Finishes, Requeues, ReadsStance,
           Verifying, VerificationBegins, VerificationReturns, VerificationEnds,
           VerificationFindsDamage, Draining, EngineUnitBegins, ReadsPage, DiscardsPage, DrainsPage,
           DrainsLast, EngineFails, UnitRefused, FeedReadFindsDamage, JudgesDamage, TurnUnwinds
  <1>2. signals' = signals \/ \E at \in Clocks : RetryAt(at)
    <2>1. CASE UnitRefused(t) \/ TurnUnwinds(t)
      BY <1>0, <2>1 DEF UnitRefused, TurnUnwinds
    <2>2. CASE TurnEnds(t)
      <3>1. StoreOf(t) \in Stores
        BY <2>2 DEF TurnEnds, Inv, UnitInv, At
      <3>2. VerificationDeadline(StoreOf(t)) \in Clocks
        BY <3>1, ReadClocks DEF Inv
      <3> QED BY <2>2, <3>2 DEF TurnEnds
    <2>3. CASE signals' = signals
      BY <2>3
    <2> QED BY <2>1, <2>2, <2>3
            DEF Turning, TakesTurn, TurnStops, FindsNothingOwed, Finishes, Requeues, ReadsStance,
                Verifying, VerificationBegins, VerificationReturns, VerificationEnds,
                VerificationFindsDamage, Draining, EngineUnitBegins, ReadsPage, DiscardsPage,
                DrainsPage, DrainsLast, EngineFails, FeedReadFindsDamage, JudgesDamage
  <1> QED BY <1>0, <1>1, <1>2, SignalsOnlySooner DEF Sooner

LEMMA EnqueuedIsLookedAt ==
  ASSUME TypeOK, NEW s \in Stores, lane' = Enqueue(s)
  PROVE  /\ s \in lane'.queued \cup lane'.again
         /\ lane.queued \cup lane.again \subseteq lane'.queued \cup lane'.again
  BY DEF TypeOK, LaneStates, Enqueue

\* A turn leaves the other stores what they are.
LEMMA TurnLeavesOthers ==
  ASSUME Inv, Inv', TurnsInv, OwedInv, Sooner, NEW t \in LaneThreads, NEW s \in Stores,
         StoreOf(t) \in {s, NoStore},
         \A u \in LaneThreads \ {t} : turn'[u] = turn[u],
         \A u \in Stores \ {s} :
             /\ entry'[u] = entry[u] /\ ops'[u] = ops[u]
             /\ u \in lane.queued \cup lane.again => u \in lane'.queued \cup lane'.again,
         OwedOf(s)'
  PROVE  OwedInv'
  <1>1. \A u \in LaneThreads : StoreOf(u) \notin {s, NoStore} => turn'[u] = turn[u]
    OBVIOUS
  <1> QED BY <1>1, OthersStand

LEMMA LookedAt ==
  ASSUME NEW s \in Stores, Looks(s)' \/ signals'.retry <= RetryAfter PROVE OwedOf(s)'
  BY DEF OwedOf, SoughtForEngine, SoughtForClock, Sought

\* A turn goes on to a step that stands for no more of its store than before.
LEMMA TurnOwedStands ==
  ASSUME Inv, Inv', Sooner, NEW t \in LaneThreads, NEW s \in Stores, StoreOf(t) = s, OwedOf(s),
         \A u \in LaneThreads \ {t} : turn'[u] = turn[u],
         lane.queued \cup lane.again \subseteq lane'.queued \cup lane'.again,
         entry' = entry, EngineOwes(s)' => EngineOwes(s),
         VerificationDeadline(s)' # Never =>
             /\ VerificationDeadline(s)' = VerificationDeadline(s)
             /\ turn[t].pc \in {"boundary", "ending"}
                  => (StoreOf(t) = s /\ turn[t].pc \in {"boundary", "ending"})',
         At(t, "requeueing") \/ (~turn[t].stale /\ (turn[t].owed \/ At(t, "judging"))) => Looks(s)'
  PROVE  OwedOf(s)'
  <1>1. Looks(s) => Looks(s)'
    <2>1. CASE s \in lane.queued \cup lane.again
      BY <2>1 DEF Looks
    <2>2. ASSUME NEW u \in LaneThreads \ {t}, StoreOf(u) = s,
                 At(u, "requeueing") \/ (~turn[u].stale /\ (turn[u].owed \/ At(u, "judging")))
          PROVE  Looks(s)'
      BY <2>2 DEF Looks, At, StoreOf
    <2> QED BY <2>1, <2>2 DEF Looks
  <1>2. Feeds(s)' => Feeds(s)
    BY DEF Feeds
  <1>3. EngineOwes(s)' => \/ entry'[s].claim \in {"committed", "owing"}
                          \/ EngineOwes(s) /\ entry[s].claim \notin {"committed", "owing"}
    OBVIOUS
  <1>4. VerificationDeadline(s)' # Never =>
           /\ VerificationDeadline(s)' = VerificationDeadline(s)
           /\ \A u \in LaneThreads :
                  StoreOf(u) = s /\ turn[u].pc \in {"boundary", "ending"}
                      => (StoreOf(u) = s /\ turn[u].pc \in {"boundary", "ending"})'
    <2>1. \A u \in LaneThreads \ {t} : StoreOf(u) = s /\ turn[u].pc \in {"boundary", "ending"}
                      => (StoreOf(u) = s /\ turn[u].pc \in {"boundary", "ending"})'
      BY DEF StoreOf
    <2> QED BY <2>1
  <1> QED BY <1>1, <1>2, <1>3, <1>4, OwedStands DEF Inv

LEMMA TurnsOwed ==
  ASSUME Inv, Inv', TurnsInv, OwedInv, NEW t \in LaneThreads,
         \/ Turning(t) \/ ReadsStance(t) \/ Verifying(t) \/ Draining(t) \/ JudgesDamage(t)
         \/ TurnUnwinds(t)
  PROVE  OwedInv'
  <1>0. /\ signals \in Signals /\ entry \in [Stores -> EntryStates]
        /\ ops \in [Stores -> OpsStates] /\ turn \in [LaneThreads -> TurnStates]
        /\ lane \in LaneStates /\ turn[t] \in TurnStates /\ TypeOK
    BY DEF Inv, TypeOK
  <1>1. Sooner
    BY TurnsAskSooner
  <1>2. CASE TakesTurn(t)
    <2>1. PICK s \in Stores : s = Head(lane.queue)
      <3>1. lane.queue \in Seq(Stores) /\ lane.queue # <<>>
        BY <1>0, <1>2 DEF TakesTurn, LaneStates
      <3> QED BY <3>1
    <2>2. /\ lane' = [lane EXCEPT !.queue = Tail(@), !.queued = @ \ {s}, !.running = @ \cup {s}]
          /\ turn' = [turn EXCEPT ![t] = [Idle EXCEPT !.pc = "boundary", !.store = s, !.owed = TRUE]]
          /\ StoreOf(t) = NoStore /\ entry' = entry /\ ops' = ops
      BY <1>2, <2>1 DEF TakesTurn, TurnsInv
    <2>3. /\ turn'[t].store = s /\ turn'[t].owed /\ ~turn'[t].stale
          /\ \A u \in LaneThreads \ {t} : turn'[u] = turn[u]
      BY <1>0, <2>2 DEF Idle
    <2>4. lane'.queued = lane.queued \ {s} /\ lane'.again = lane.again
      BY <1>0, <2>2 DEF LaneStates
    <2>5. Looks(s)'
      BY <2>3 DEF Looks, StoreOf
    <2>6. OwedOf(s)'
      BY <2>1, <2>5, LookedAt
    <2> QED BY <1>1, <2>1, <2>2, <2>3, <2>4, <2>6, TurnLeavesOthers
  <1>3. CASE ~TakesTurn(t)
    <2>0. ~At(t, "idle")
      BY <1>3 DEF Turning, TurnStops, FindsNothingOwed, TurnEnds, Finishes, Requeues,
             ReadsStance, Verifying, VerificationBegins, VerificationReturns, VerificationEnds,
             VerificationFindsDamage, Draining, EngineUnitBegins, ReadsPage, DiscardsPage, DrainsPage,
             DrainsLast, EngineFails, UnitRefused, FeedReadFindsDamage, JudgesDamage, TurnUnwinds, At
    <2>1. PICK s \in Stores : StoreOf(t) = s /\ turn[t].store = s /\ OwedOf(s)
      BY <2>0 DEF Inv, UnitInv, OwedInv, StoreOf
    <2>2. /\ turn[t].stale => InUnit(t)
          /\ turn[t].pc \in {"unit", "verifying", "returned", "seen", "draining"} => turn[t].owed
      BY DEF Inv, UnitInv, TurnsInv
    <2>3. ASSUME \A u \in LaneThreads \ {t} : turn'[u] = turn[u],
                 \A u \in Stores \ {s} : entry'[u] = entry[u] /\ ops'[u] = ops[u],
                 (lane.queued \cup lane.again) \ {s} \subseteq lane'.queued \cup lane'.again,
                 OwedOf(s)'
          PROVE  OwedInv'
      <3>1. \A u \in Stores \ {s} :
              /\ entry'[u] = entry[u] /\ ops'[u] = ops[u]
              /\ u \in lane.queued \cup lane.again => u \in lane'.queued \cup lane'.again
        BY <2>3
      <3>2. StoreOf(t) \in {s, NoStore}
        BY <2>1
      <3> QED BY <1>1, <2>1, <2>3, <3>1, <3>2, TurnLeavesOthers
    <2>4. ASSUME NEW pc, Goes(t, pc)
          PROVE  /\ \A u \in LaneThreads \ {t} : turn'[u] = turn[u]
                 /\ turn'[t].pc = pc /\ turn'[t].store = s
                 /\ turn'[t].owed = turn[t].owed /\ turn'[t].stale = turn[t].stale
      BY <1>0, <2>1, <2>4 DEF Goes, TurnStates
    <2>5. ASSUME NEW owed, UnitEnds(t, owed)
          PROVE  /\ \A u \in LaneThreads \ {t} : turn'[u] = turn[u]
                 /\ turn'[t].pc = "boundary" /\ turn'[t].store = s
                 /\ turn'[t].owed = owed /\ ~turn'[t].stale
      BY <1>0, <2>1, <2>5 DEF UnitEnds, TurnStates
    <2>6. turn'[t].store = s /\ ~turn'[t].stale /\ (turn'[t].owed \/ turn'[t].pc = "judging")
            => OwedOf(s)'
      <3>1. ASSUME turn'[t].store = s, ~turn'[t].stale, turn'[t].owed \/ turn'[t].pc = "judging"
            PROVE  Looks(s)'
        BY <3>1 DEF Looks, StoreOf, At
      <3> QED BY <2>1, <3>1, LookedAt
    <2>7. turn'[t].store = s /\ turn'[t].pc \in {"boundary", "ending"}
          /\ (EngineOwes(s)' => SoughtForEngine(s)') => OwedOf(s)'
      <3>1. ASSUME turn'[t].store = s, turn'[t].pc \in {"boundary", "ending"}
            PROVE  ClockIsToBeRead(s)'
        BY <3>1 DEF ClockIsToBeRead, StoreOf
      <3> QED BY <3>1 DEF OwedOf, SoughtForClock
    <2>8. signals'.retry <= RetryAfter => OwedOf(s)'
      BY <2>1, LookedAt
    <2>9. ASSUME \A u \in LaneThreads \ {t} : turn'[u] = turn[u],
                 lane.queued \cup lane.again \subseteq lane'.queued \cup lane'.again,
                 entry' = entry, EngineOwes(s)' => EngineOwes(s),
                 VerificationDeadline(s)' # Never =>
                    /\ VerificationDeadline(s)' = VerificationDeadline(s)
                    /\ turn[t].pc \in {"boundary", "ending"}
                         => turn'[t].store = s /\ turn'[t].pc \in {"boundary", "ending"},
                 At(t, "requeueing") \/ (~turn[t].stale /\ (turn[t].owed \/ At(t, "judging")))
                    => turn'[t].store = s /\ ~turn'[t].stale /\ turn'[t].owed
          PROVE  OwedOf(s)'
      <3>1. turn'[t].store = s /\ ~turn'[t].stale /\ turn'[t].owed => Looks(s)'
        BY DEF Looks, StoreOf, At
      <3>2. StoreOf(t) = s
        BY <2>1
      <3>3. VerificationDeadline(s)' # Never =>
               /\ VerificationDeadline(s)' = VerificationDeadline(s)
               /\ turn[t].pc \in {"boundary", "ending"}
                    => (StoreOf(t) = s /\ turn[t].pc \in {"boundary", "ending"})'
        BY <2>9 DEF StoreOf
      <3>4. At(t, "requeueing") \/ (~turn[t].stale /\ (turn[t].owed \/ At(t, "judging"))) => Looks(s)'
        BY <2>9, <3>1
      <3> QED BY <1>1, <2>1, <2>9, <3>2, <3>3, <3>4, TurnOwedStands
    <2>10. CASE TurnStops(t) \/ ReadsPage(t)
      <3>1. /\ \/ turn[t].pc = "boundary" /\ Goes(t, "ending")
               \/ turn[t].pc = "seen" /\ Goes(t, "draining")
            /\ lane' = lane /\ entry' = entry
        BY <2>10 DEF TurnStops, ReadsPage, At
      <3>2. /\ \A u \in Stores : ops'[u].owed = ops[u].owed /\ ops'[u].current = ops[u].current
            /\ \A u \in Stores : ops'[u].running = ops[u].running /\ ops'[u].bound = ops[u].bound
            /\ \A u \in Stores : ops'[u].clock = ops[u].clock
            /\ \A u \in Stores \ {s} : ops'[u] = ops[u]
        BY <1>0, <2>1, <2>10 DEF TurnStops, ReadsPage, OpsStates
      <3>3. EngineOwes(s)' = EngineOwes(s) /\ VerificationDeadline(s)' = VerificationDeadline(s)
        BY <2>1, <3>2 DEF EngineOwes, VerificationDeadline
      <3>4. OwedOf(s)'
        BY <2>1, <2>4, <2>9, <3>1, <3>3 DEF At
      <3> QED BY <2>3, <2>4, <3>1, <3>2, <3>4
    <2>11. CASE FindsNothingOwed(t)
      <3>1. /\ turn' = [turn EXCEPT ![t].pc = "ending", ![t].owed = FALSE] /\ lane' = lane
            /\ entry' = entry /\ ops' = ops /\ ~EngineOwes(s)
        BY <2>11, <2>1 DEF FindsNothingOwed, BackgroundOwed
      <3>2. /\ turn'[t].store = s /\ turn'[t].pc = "ending"
            /\ \A u \in LaneThreads \ {t} : turn'[u] = turn[u]
        BY <1>0, <2>1, <3>1 DEF TurnStates
      <3>3. ~EngineOwes(s)'
        BY <3>1 DEF EngineOwes
      <3> QED BY <2>3, <2>7, <3>1, <3>2, <3>3
    <2>12. CASE ReadsStance(t)
      <3>1. /\ turn' = [turn EXCEPT ![t].pc = IF Feeds(s) THEN "unit" ELSE "ending", ![t].owed = Feeds(s)]
            /\ lane' = lane /\ entry' = entry /\ ops' = ops /\ At(t, "boundary")
        BY <2>12, <2>1 DEF ReadsStance
      <3>2. /\ turn'[t].store = s /\ turn'[t].owed = Feeds(s) /\ turn'[t].stale = turn[t].stale
            /\ \A u \in LaneThreads \ {t} : turn'[u] = turn[u]
        BY <1>0, <2>1, <3>1 DEF TurnStates
      <3>3. ~turn[t].stale
        BY <2>2, <3>1 DEF At, InUnit
      <3>4. CASE Feeds(s)
        BY <2>3, <2>6, <3>1, <3>2, <3>3, <3>4
      <3>5. CASE ~Feeds(s)
        <4>1. OwedOf(s)'
          BY <3>1, <3>5 DEF OwedOf, Feeds
        <4> QED BY <2>3, <3>1, <3>2, <4>1
      <3> QED BY <3>4, <3>5
    <2>13. CASE TurnEnds(t)
      <3>1. /\ RetryAt(VerificationDeadline(s)) /\ Goes(t, "finishing") /\ At(t, "ending")
            /\ lane' = lane /\ entry' = entry /\ ops' = ops /\ asker' = asker
        BY <2>13, <2>1 DEF TurnEnds
      <3>2. Looks(s) => Looks(s)'
        <4>1. \A u \in LaneThreads : turn'[u].store = turn[u].store /\ turn'[u].owed = turn[u].owed
                                     /\ turn'[u].stale = turn[u].stale
          BY <2>1, <2>4, <3>1
        <4>2. \A u \in LaneThreads : At(u, "requeueing") \/ At(u, "judging") => turn'[u] = turn[u]
          BY <2>4, <3>1 DEF At
        <4> QED BY <3>1, <4>1, <4>2 DEF Looks, At, StoreOf
      <3>3. Sought(s) => Sought(s)'
        BY <1>1, <2>1, <3>1, <3>2, StillSought DEF Inv
      <3>4. EngineOwes(s)' => EngineOwes(s)
        BY <3>1 DEF EngineOwes
      <3>5. AsksBy(VerificationDeadline(s))'
        <4>1. /\ signals.retry \in Times /\ VerificationDeadline(s) \in Clocks
              /\ Ahead(VerificationDeadline(s)) \in Times
          BY <1>0, <2>1, ReadClocks, AheadTime DEF Signals
        <4>2. /\ signals'.retry <= Ahead(VerificationDeadline(s))
              /\ signals'.retry \in Int /\ VerificationDeadline(s) \in Int
          <5>1. signals'.retry = Earlier(signals.retry, Ahead(VerificationDeadline(s)))
            BY <1>0, <3>1 DEF RetryAt, Signals
          <5>2. signals'.retry \in Times
            BY <4>1, <5>1, EarlierTime
          <5> QED BY <1>0, <2>1, <4>1, <5>1, <5>2, EarlierBounds, TimesAreIntegers, TimesOfSignals
        <4>3. Past(signals'.retry) \/ signals'.retry <= VerificationDeadline(s)
          BY <4>2 DEF Ahead, Past
        <4>4. VerificationDeadline(s)' = VerificationDeadline(s)
          BY <3>1 DEF VerificationDeadline
        <4> QED BY <4>3, <4>4 DEF AsksBy, Past
      <3>6. OwedOf(s)'
        BY <2>1, <3>1, <3>3, <3>4, <3>5 DEF OwedOf, SoughtForEngine, SoughtForClock, Feeds
      <3> QED BY <2>3, <2>4, <3>1, <3>6
    <2>14. CASE Finishes(t)
      <3>1. /\ lane' = [lane EXCEPT !.running = @ \ {s}, !.again = @ \ {s}]
            /\ turn' = [turn EXCEPT ![t] = IF turn[t].owed \/ s \in lane.again
                                           THEN [@ EXCEPT !.pc = "requeueing"] ELSE Idle]
            /\ At(t, "finishing") /\ entry' = entry /\ ops' = ops
        BY <2>14, <2>1 DEF Finishes
      <3>2. /\ lane'.queued = lane.queued /\ lane'.again = lane.again \ {s}
            /\ \A u \in LaneThreads \ {t} : turn'[u] = turn[u]
        BY <1>0, <3>1 DEF LaneStates
      <3>3. CASE turn[t].owed \/ s \in lane.again
        <4>1. turn'[t].pc = "requeueing" /\ turn'[t].store = s
          BY <1>0, <2>1, <3>1, <3>3 DEF TurnStates
        <4>2. OwedOf(s)'
          BY <2>1, <4>1, LookedAt DEF Looks, StoreOf, At
        <4> QED BY <2>3, <3>1, <3>2, <4>2
      <3>4. CASE ~turn[t].owed /\ s \notin lane.again
        <4>1. EngineOwes(s)' = EngineOwes(s) /\ VerificationDeadline(s)' = VerificationDeadline(s)
          BY <3>1 DEF EngineOwes, VerificationDeadline
        <4>2. OwedOf(s)'
          BY <2>9, <3>1, <3>2, <3>4, <4>1 DEF At
        <4> QED BY <2>3, <3>1, <3>2, <4>2
      <3> QED BY <3>3, <3>4
    <2>15. CASE Requeues(t)
      <3>1. lane' = Enqueue(s) /\ turn' = [turn EXCEPT ![t] = Idle] /\ entry' = entry /\ ops' = ops
        BY <2>15, <2>1 DEF Requeues
      <3>2. /\ s \in lane'.queued \cup lane'.again
            /\ lane.queued \cup lane.again \subseteq lane'.queued \cup lane'.again
        BY <1>0, <2>1, <3>1, EnqueuedIsLookedAt
      <3>3. OwedOf(s)'
        BY <2>1, <3>2, LookedAt DEF Looks
      <3> QED BY <1>0, <2>3, <3>1, <3>2, <3>3
    <2>16. CASE VerificationBegins(t) \/ VerificationReturns(t)
      <3>1. PICK running \in BOOLEAN, pc \in {"verifying", "returned"} :
              /\ ops' = [ops EXCEPT ![s].running = running] /\ Goes(t, pc)
              /\ running \/ At(t, "verifying")
        BY <2>16, <2>1 DEF VerificationBegins, VerificationReturns
      <3>2. lane' = lane /\ entry' = entry /\ turn[t].pc \in {"unit", "verifying"}
        BY <2>16 DEF VerificationBegins, VerificationReturns, At
      <3>3. /\ ops'[s].running = running /\ ops'[s].bound = ops[s].bound
            /\ ops'[s].owed = ops[s].owed /\ ops'[s].current = ops[s].current
            /\ \A u \in Stores \ {s} : ops'[u] = ops[u]
        BY <1>0, <2>1, <3>1 DEF OpsStates
      <3>4. CASE running \/ turn[t].stale
        <4>1. running \/ ~ops[s].bound
          BY <3>1, <3>4, <2>1 DEF Inv, OneLifetimeIsVerified
        <4>2. VerificationDeadline(s)' = Never
          BY <3>3, <4>1 DEF VerificationDeadline
        <4>3. EngineOwes(s)' => EngineOwes(s)
          BY <3>3 DEF EngineOwes
        <4>4. OwedOf(s)'
          BY <2>4, <2>9, <3>1, <3>2, <4>2, <4>3 DEF At
        <4> QED BY <2>3, <2>4, <3>1, <3>2, <3>3, <4>4
      <3>5. CASE ~turn[t].stale
        BY <2>2, <2>3, <2>4, <2>6, <3>1, <3>2, <3>3, <3>5
      <3> QED BY <3>4, <3>5
    <2>17. CASE VerificationEnds(t)
      <3>1. /\ ops' = IF turn[t].stale THEN ops ELSE [ops EXCEPT ![s].clock = Interval]
            /\ UnitEnds(t, EngineOwes(s) \/ (turn[t].stale /\ VerificationOwed(s)))
            /\ lane' = lane /\ entry' = entry
        BY <2>17, <2>1 DEF VerificationEnds, ClockMoves
      <3>2. /\ ops'[s].owed = ops[s].owed /\ ops'[s].current = ops[s].current
            /\ \A u \in Stores \ {s} : ops'[u] = ops[u]
        BY <1>0, <2>1, <3>1 DEF OpsStates
      <3>3. EngineOwes(s)' = EngineOwes(s)
        BY <3>2 DEF EngineOwes
      <3>4. turn'[t].store = s /\ turn'[t].pc = "boundary" /\ ~turn'[t].stale
            /\ turn'[t].owed = (EngineOwes(s) \/ (turn[t].stale /\ VerificationOwed(s)))
            /\ \A u \in LaneThreads \ {t} : turn'[u] = turn[u]
        BY <2>5, <3>1
      <3>5. OwedOf(s)'
        BY <2>6, <2>7, <3>3, <3>4
      <3> QED BY <2>3, <3>1, <3>2, <3>4, <3>5
    <2>18. CASE VerificationFindsDamage(t) \/ FeedReadFindsDamage(t)
      <3>1. /\ turn' = [turn EXCEPT ![t].pc = "judging", ![t].owed = FALSE] /\ ~turn[t].stale
            /\ lane' = lane /\ entry' = entry
            /\ ops' = ops \/ ops' = [ops EXCEPT ![s].clock = RetryAfter]
        BY <2>18, <2>1 DEF VerificationFindsDamage, FeedReadFindsDamage, ClockMoves
      <3>2. /\ turn'[t].store = s /\ turn'[t].pc = "judging" /\ ~turn'[t].stale
            /\ \A u \in LaneThreads \ {t} : turn'[u] = turn[u]
            /\ \A u \in Stores \ {s} : ops'[u] = ops[u]
        BY <1>0, <2>1, <3>1 DEF TurnStates
      <3> QED BY <2>3, <2>6, <3>1, <3>2
    <2>19. CASE EngineUnitBegins(t)
      <3>1. /\ ops' = [ops EXCEPT ![s].owed = "seen"] /\ Goes(t, "seen") /\ At(t, "unit")
            /\ lane' = lane /\ entry' = entry
        BY <2>19, <2>1 DEF EngineUnitBegins
      <3>2. ~turn[t].stale /\ turn[t].owed
        BY <2>2, <3>1 DEF At, InUnit
      <3>3. OwedOf(s)'
        BY <2>4, <2>6, <3>1, <3>2
      <3> QED BY <1>0, <2>3, <2>4, <3>1, <3>3
    <2>20. CASE DiscardsPage(t)
      <3>1. /\ UnitEnds(t, FALSE) /\ turn[t].stale /\ At(t, "draining")
            /\ lane' = lane /\ entry' = entry /\ ops' = ops
        BY <2>20 DEF DiscardsPage
      <3>2. EngineOwes(s)' = EngineOwes(s) /\ VerificationDeadline(s)' = VerificationDeadline(s)
        BY <3>1 DEF EngineOwes, VerificationDeadline
      <3>3. OwedOf(s)'
        BY <2>5, <2>9, <3>1, <3>2 DEF At
      <3> QED BY <2>3, <2>5, <3>1, <3>3
    <2>21. CASE DrainsPage(t)
      <3>1. UnitEnds(t, TRUE) /\ lane' = lane /\ entry' = entry /\ ops' = ops
        BY <2>21 DEF DrainsPage
      <3>2. OwedOf(s)'
        BY <2>5, <2>6, <3>1
      <3> QED BY <2>3, <2>5, <3>1, <3>2
    <2>22. CASE DrainsLast(t)
      <3>1. /\ UnitEnds(t, ops'[s].owed # "settled") /\ lane' = lane /\ entry' = entry
            /\ ops' = [ops EXCEPT ![s].owed = IF @ = "seen" THEN "settled" ELSE @,
                                  ![s].feed = IF @ = "read" THEN "answered" ELSE @]
        BY <2>22, <2>1 DEF DrainsLast
      <3>2. /\ turn'[t].store = s /\ turn'[t].pc = "boundary" /\ ~turn'[t].stale
            /\ turn'[t].owed = (ops'[s].owed # "settled")
            /\ \A u \in LaneThreads \ {t} : turn'[u] = turn[u]
        BY <2>5, <3>1
      <3>3. OwedOf(s)'
        BY <2>6, <2>7, <3>2 DEF EngineOwes
      <3> QED BY <1>0, <2>3, <3>1, <3>2, <3>3
    <2>23. CASE EngineFails(t)
      <3>1. /\ UnitEnds(t, FALSE) /\ lane' = lane /\ entry' = entry
            /\ ops' = [ops EXCEPT ![s].owed = "settled", ![s].feed = "answered"]
        BY <2>23, <2>1 DEF EngineFails
      <3>2. ops'[s].owed = "settled" /\ \A u \in Stores \ {s} : ops'[u] = ops[u]
        BY <1>0, <3>1 DEF OpsStates
      <3>3. OwedOf(s)'
        BY <2>5, <2>7, <3>1, <3>2 DEF EngineOwes
      <3> QED BY <2>3, <2>5, <3>1, <3>2, <3>3
    <2>24. CASE UnitRefused(t) \/ TurnUnwinds(t)
      <3>1. RetryAt(RetryAfter) /\ lane' = lane /\ entry' = entry
        BY <2>24 DEF UnitRefused, TurnUnwinds
      <3>2. signals'.retry <= RetryAfter
        <4>1. signals.retry \in Times /\ RetryAfter \in Times /\ Ahead(RetryAfter) = RetryAfter
          BY <1>0, BackgroundAssumption, NamedTimes DEF Signals, Ahead, Past
        <4>2. signals'.retry = Earlier(signals.retry, Ahead(RetryAfter))
          BY <1>0, <3>1 DEF RetryAt, Signals
        <4> QED BY <4>1, <4>2, EarlierBounds
      <3>3. \A u \in Stores \ {s} : ops'[u] = ops[u]
        BY <1>0, <2>1, <2>24 DEF UnitRefused, TurnUnwinds
      <3>4. \A u \in LaneThreads \ {t} : turn'[u] = turn[u]
        BY <1>0, <2>5, <2>24 DEF UnitRefused, TurnUnwinds
      <3> QED BY <2>3, <2>8, <3>1, <3>2, <3>3, <3>4
    <2>25. CASE JudgesDamage(t)
      <3>1. /\ UnitEnds(t, FALSE) /\ At(t, "judging") /\ lane' = lane /\ ops' = ops
            /\ entry' = IF turn[t].stale \/ ~Feeds(s) THEN entry
                        ELSE IF ClaimAt(s, "open")
                        THEN [entry EXCEPT ![s].feeds = FALSE, ![s].rung = TRUE, ![s].claim = "leg"]
                        ELSE [entry EXCEPT ![s].damage = TRUE]
        BY <2>25, <2>1 DEF JudgesDamage
      <3>2. EngineOwes(s)' = EngineOwes(s) /\ VerificationDeadline(s)' = VerificationDeadline(s)
        BY <3>1 DEF EngineOwes, VerificationDeadline
      <3>3. \A u \in Stores \ {s} : entry'[u] = entry[u]
        BY <1>0, <3>1
      <3>4. CASE Feeds(s)' /\ ~turn[t].stale
        <4>1. entry'[s].damage
          <5>1. CASE ~Feeds(s)
            <6>1. entry' = entry
              BY <3>1, <5>1
            <6> QED BY <3>4, <5>1, <6>1 DEF Feeds
          <5>2. CASE entry' = [entry EXCEPT ![s].feeds = FALSE, ![s].rung = TRUE, ![s].claim = "leg"]
            BY <1>0, <3>4, <5>2 DEF Feeds, EntryStates
          <5>3. CASE entry' = [entry EXCEPT ![s].damage = TRUE]
            BY <1>0, <5>3 DEF EntryStates
          <5> QED BY <3>1, <3>4, <5>1, <5>2, <5>3
        <4>2. OwedOf(s)'
          BY <4>1 DEF OwedOf, SoughtForEngine, SoughtForClock, Sought
        <4> QED BY <2>3, <2>5, <3>1, <3>3, <4>2
      <3>5. CASE ~Feeds(s)'
        BY <2>3, <2>5, <3>1, <3>3, <3>5 DEF OwedOf
      <3>6. CASE turn[t].stale
        <4>1. entry' = entry
          BY <3>1, <3>6
        <4>2. OwedOf(s)'
          BY <2>5, <2>9, <3>1, <3>2, <3>6, <4>1 DEF At
        <4> QED BY <2>3, <2>5, <3>1, <3>3, <4>2
      <3> QED BY <3>4, <3>5, <3>6
    <2> QED BY <1>3, <2>10, <2>11, <2>12, <2>13, <2>14, <2>15, <2>16, <2>17, <2>18, <2>19, <2>20,
               <2>21, <2>22, <2>23, <2>24, <2>25 DEF Turning, Verifying, Draining
  <1> QED BY <1>2, <1>3

\* The scheduler itself: what a turn reads is in the lane's set or in the
\* deadline it finds, and it sleeps until no later.
LEMMA SchedulerOwed ==
  ASSUME Inv, Inv', UpkeepInv, OwedInv, Scheduling \/ AskUnwinds \/ TurnUnwindsWhole
  PROVE  OwedInv'
  <1>0. /\ signals \in Signals /\ entry \in [Stores -> EntryStates]
        /\ ops \in [Stores -> OpsStates] /\ asker \in Askers /\ lane \in LaneStates
        /\ TypeOK /\ TypeOK' /\ NoStore \notin Stores
    BY BackgroundAssumption DEF Inv, TypeOK
  <1>1. ops' = ops /\ turn' = turn
    BY DEF Scheduling, NextTurn, ReadsOwed, EndsAsk, SleepUntil, PassesPoisoned, AsksUncovered,
           BeginsAsk, AskUnwinds, TurnUnwindsWhole
  <1>2. \A s \in Stores : /\ EngineOwes(s)' = EngineOwes(s)
                          /\ VerificationDeadline(s)' = VerificationDeadline(s)
    BY <1>1 DEF EngineOwes, VerificationDeadline
  <1>3. signals.earliest \in Int /\ signals.retry \in Int /\ asker.found \in Int
        /\ asker'.found \in Int /\ \A s \in Stores : VerificationDeadline(s) \in Int
    <2>1. asker'.found \in Int
      BY <1>0, TimesAreIntegers DEF TypeOK, Askers
    <2> QED BY <1>0, <2>1, TimesOfSignals
  \* What the scheduler does to a store but for its one ask of it.
  <1>4. ASSUME NEW s \in Stores, signals' = signals, asker'.found <= asker.found,
               asker'.unwound = asker.unwound,
               Feeds(s)' => Feeds(s), entry'[s].damage = entry[s].damage,
               entry'[s].claim = entry[s].claim,
               s \in lane.queued \cup lane.again => s \in lane'.queued \cup lane'.again,
               StillToRead(s) => StillToRead(s)', asker.store # s
        PROVE  OwedOf(s)'
    <2>1. OwedOf(s)
      BY DEF OwedInv
    <2>2. Looks(s) => Looks(s)'
      BY <1>1, <1>4 DEF Looks, At, StoreOf
    <2>3. Sought(s) => Sought(s)'
      BY <1>4, <2>2 DEF Sought
    <2>4. ClockIsToBeRead(s) => ClockIsToBeRead(s)'
      BY <1>1, <1>4 DEF ClockIsToBeRead, StoreOf
    <2>5. AsksBy(VerificationDeadline(s)) => AsksBy(VerificationDeadline(s))'
      <3>1. signals'.earliest = signals.earliest /\ signals'.retry <= signals.retry
        BY <1>3, <1>4
      <3> QED BY <1>0, <1>2, <1>4, <3>1, StillAsksBy
    <2> QED BY <1>2, <1>4, <2>1, <2>3, <2>4, <2>5 DEF OwedOf, SoughtForEngine, SoughtForClock
  <1>5. CASE NextTurn
    <2>1. asker'.asking /\ asker'.left = Stores /\ asker'.store = NoStore
      BY <1>5 DEF NextTurn, Waiting
    <2>2. \A s \in Stores : StillToRead(s)'
      BY <1>0, <2>1 DEF StillToRead
    <2> QED BY <2>2 DEF OwedInv, OwedOf, SoughtForEngine, SoughtForClock, Sought
  <1>6. CASE SleepUntil
    <2>1. /\ asker.asking /\ asker.left = {} /\ asker.store = NoStore
          /\ signals' = [signals EXCEPT !.earliest = asker.found] /\ asker' = Waiting(FALSE)
          /\ entry' = entry /\ lane' = lane
      BY <1>6 DEF SleepUntil
    <2>2. /\ signals.earliest = Never /\ ~asker.unwound
          /\ signals'.earliest = asker.found /\ signals'.retry = signals.retry
          /\ signals'.woken = signals.woken
      BY <1>0, <2>1 DEF UpkeepInv, Signals
    <2>3. ASSUME NEW s \in Stores PROVE OwedOf(s)'
      <3>1. OwedOf(s) /\ ~StillToRead(s) /\ asker.store # s
        BY <1>0, <2>1 DEF OwedInv, StillToRead
      <3>2. Looks(s)' = Looks(s)
        BY <1>1, <2>1 DEF Looks, At, StoreOf
      <3>3. Feeds(s)' = Feeds(s) /\ entry'[s] = entry[s]
        BY <2>1 DEF Feeds
      <3>4. Sought(s) => Sought(s)'
        BY <2>2, <3>1, <3>2, <3>3 DEF Sought
      <3>5. ClockIsToBeRead(s) => ClockIsToBeRead(s)'
        BY <1>1, <3>1 DEF ClockIsToBeRead, StoreOf
      <3>6. VerificationDeadline(s)' # Never /\ AsksBy(VerificationDeadline(s))
              => AsksBy(VerificationDeadline(s))'
        <4>1. VerificationDeadline(s) # Never => ~(Past(Never) \/ Never <= VerificationDeadline(s))
          <5>1. VerificationDeadline(s) \in -HoldTicks .. Never
            BY <1>0, ReadClocks DEF Clocks
          <5> QED BY <5>1, BackgroundAssumption DEF Past, Never
        <4> QED BY <1>2, <2>2, <4>1 DEF AsksBy
      <3> QED BY <1>2, <2>2, <3>1, <3>3, <3>4, <3>5, <3>6 DEF OwedOf, SoughtForEngine, SoughtForClock
    <2> QED BY <2>3 DEF OwedInv
  <1>7. ASSUME NEW s \in Stores, PassesPoisoned(s) \/ AsksUncovered(s) \/ BeginsAsk(s)
        PROVE  OwedInv'
    <2>1. /\ signals' = signals /\ lane' = lane /\ asker.store = NoStore /\ asker.asking
          /\ asker'.asking = asker.asking /\ asker'.unwound = asker.unwound
          /\ asker'.found = asker.found
      BY <1>0, <1>7 DEF PassesPoisoned, AsksUncovered, BeginsAsk, Asks, Askers
    <2>2. /\ ~BeginsAsk(s) => asker'.left = asker.left \ {s} /\ asker'.store = NoStore
          /\ BeginsAsk(s) => asker'.left = asker.left /\ asker'.store = s /\ ~asker'.read
          /\ s \in asker.left
      BY <1>0, <1>7 DEF PassesPoisoned, AsksUncovered, BeginsAsk, Asks, Askers
    <2>3. \A u \in Stores \ {s} : entry'[u] = entry[u]
      BY <1>0, <1>7 DEF PassesPoisoned, AsksUncovered, BeginsAsk
    <2>4. ASSUME NEW u \in Stores \ {s} PROVE OwedOf(u)'
      <3>1. StillToRead(u) => StillToRead(u)'
        BY <1>0, <2>1, <2>2 DEF StillToRead
      <3>2. asker'.found <= asker.found /\ asker.store # u /\ (Feeds(u)' => Feeds(u))
        BY <1>0, <1>3, <2>1, <2>3 DEF Feeds
      <3> QED BY <1>4, <2>1, <2>3, <3>1, <3>2
    <2>5. OwedOf(s)'
      <3>1. CASE BeginsAsk(s)
        <4>1. StillToRead(s)'
          BY <2>1, <2>2, <3>1 DEF StillToRead
        <4> QED BY <4>1 DEF OwedOf, SoughtForEngine, SoughtForClock, Sought
      <3>2. CASE PassesPoisoned(s)
        BY <3>2 DEF PassesPoisoned, OwedOf, Feeds
      <3>3. CASE AsksUncovered(s)
        <4>1. ~entry'[s].attached
          BY <1>0, <3>3 DEF AsksUncovered, EntryStates
        <4> QED BY <4>1 DEF OwedOf, Feeds
      <3> QED BY <1>7, <3>1, <3>2, <3>3
    <2> QED BY <2>4, <2>5 DEF OwedInv
  <1>8. CASE ReadsOwed
    <2>1. PICK s \in Stores : s = asker.store
      BY <1>0, <1>8 DEF ReadsOwed, Askers
    <2>2. /\ lane' = IF entry[s].feeds /\ BackgroundOwed(s) THEN Enqueue(s) ELSE lane
          /\ signals' = signals /\ entry' = entry /\ asker' = [asker EXCEPT !.read = TRUE]
      BY <1>8, <2>1 DEF ReadsOwed
    <2>3. /\ asker'.asking = asker.asking /\ asker'.unwound = asker.unwound
          /\ asker'.found = asker.found /\ asker'.left = asker.left /\ asker'.store = s
          /\ asker'.since = asker.since
      BY <1>0, <2>1, <2>2 DEF Askers
    <2>4. lane.queued \cup lane.again \subseteq lane'.queued \cup lane'.again
      BY <1>0, <2>2, EnqueuedIsLookedAt
    <2>5. ASSUME NEW u \in Stores \ {s} PROVE OwedOf(u)'
      <3>1. StillToRead(u) => StillToRead(u)'
        BY <2>1, <2>3 DEF StillToRead
      <3>2. asker'.found <= asker.found /\ asker.store # u /\ (Feeds(u)' => Feeds(u))
        BY <1>3, <2>1, <2>2, <2>3 DEF Feeds
      <3> QED BY <1>4, <2>2, <2>3, <2>4, <3>1, <3>2
    <2>6. CASE entry[s].feeds /\ BackgroundOwed(s)
      <3>1. s \in lane'.queued \cup lane'.again
        BY <1>0, <2>2, <2>6, EnqueuedIsLookedAt
      <3>2. OwedOf(s)'
        BY <3>1, LookedAt DEF Looks
      <3> QED BY <2>5, <3>2 DEF OwedInv
    <2>7. CASE ~entry[s].feeds
      BY <2>2, <2>5, <2>7 DEF OwedInv, OwedOf, Feeds
    <2>8. CASE ~BackgroundOwed(s)
      <3>1. ~EngineOwes(s)' /\ VerificationDeadline(s)' > 0
        BY <1>2, <1>3, <2>8 DEF BackgroundOwed, VerificationOwed, Past
      <3>2. VerificationDeadline(s)' # Never => ClockIsToBeRead(s)'
        <4>1. asker'.since \in 0..HoldTicks /\ VerificationDeadline(s)' \in Int
          BY <1>0, <1>2, <1>3, <2>3 DEF Askers
        <4>2. VerificationDeadline(s)' + asker'.since > 0
          BY <3>1, <4>1, BackgroundAssumption
        <4>3. LaneDeadline(s)' = VerificationDeadline(s)'
          BY <3>1, <4>1, <4>2 DEF LaneDeadline, Ahead, Past
        <4> QED BY <2>3, <4>3 DEF ClockIsToBeRead
      <3>3. OwedOf(s)'
        BY <3>1, <3>2 DEF OwedOf, SoughtForClock
      <3> QED BY <2>5, <3>3 DEF OwedInv
    <2> QED BY <2>6, <2>7, <2>8
  <1>9. CASE EndsAsk \/ AskUnwinds
    <2>1. PICK s \in Stores : s = asker.store
      BY <1>0, <1>9 DEF EndsAsk, AskUnwinds, Askers
    <2>2. /\ signals' = signals /\ lane' = lane /\ asker'.asking = asker.asking
          /\ asker'.unwound = asker.unwound /\ asker'.left = asker.left \ {s} /\ asker'.store = NoStore
      BY <1>0, <1>9, <2>1 DEF EndsAsk, AskUnwinds, Askers
    <2>3. \A u \in Stores \ {s} : entry'[u] = entry[u]
      BY <1>0, <1>9, <2>1 DEF EndsAsk, AskUnwinds
    <2>4. asker'.found <= asker.found => \A u \in Stores \ {s} : OwedOf(u)'
      <3> SUFFICES ASSUME asker'.found <= asker.found, NEW u \in Stores \ {s} PROVE OwedOf(u)'
        OBVIOUS
      <3>1. StillToRead(u) => StillToRead(u)'
        BY <1>0, <2>1, <2>2 DEF StillToRead
      <3>2. asker.store # u /\ (Feeds(u)' => Feeds(u))
        BY <2>1, <2>3 DEF Feeds
      <3> QED BY <1>4, <2>2, <2>3, <3>1, <3>2
    <2>5. CASE AskUnwinds
      <3>1. asker'.found <= asker.found /\ ~entry'[s].attached
        BY <1>0, <1>3, <2>1, <2>5 DEF AskUnwinds, Askers, Unattached
      <3>2. OwedOf(s)'
        BY <3>1 DEF OwedOf, Feeds
      <3> QED BY <2>4, <3>1, <3>2 DEF OwedInv
    <2>6. CASE EndsAsk
      <3> DEFINE due == IF entry[s].claim = "open" THEN ops[s].upkeep ELSE entry[s].due
                 own == IF Past(due) THEN Never ELSE due
      <3>1. /\ asker.read
            /\ asker' = [asker EXCEPT
                 !.left = @ \ {s}, !.store = NoStore, !.read = FALSE, !.since = 0,
                 !.found = Earlier(@, Earlier(LaneDeadline(s), own))]
        BY <2>1, <2>6 DEF EndsAsk
      <3>2. own \in Times /\ LaneDeadline(s) \in Times
        <4>1. entry[s].due \in Times /\ ops[s].upkeep \in Times
          BY <1>0 DEF EntryStates, OpsStates
        <4> QED BY <1>0, <4>1, NamedTimes, ReadClocks
      <3> HIDE DEF own
      <3>3. asker'.found <= asker.found /\ asker'.found <= LaneDeadline(s)
        <4>1. asker'.found = Earlier(asker.found, Earlier(LaneDeadline(s), own))
          BY <1>0, <3>1 DEF Askers
        <4>2. /\ Earlier(LaneDeadline(s), own) \in Times /\ asker.found \in Times
              /\ Earlier(LaneDeadline(s), own) <= LaneDeadline(s)
          BY <1>0, <3>2, EarlierTime, EarlierBounds DEF Askers
        <4>3. asker'.found <= asker.found /\ asker'.found <= Earlier(LaneDeadline(s), own)
          BY <4>1, <4>2, EarlierBounds
        <4>4. Earlier(LaneDeadline(s), own) \in Int /\ LaneDeadline(s) \in Int
          BY <3>2, <4>2, TimesAreIntegers
        <4> QED BY <1>3, <4>2, <4>3, <4>4
      <3>4. \E deadline, mark, claim :
              /\ entry' = [entry EXCEPT ![s].due = deadline, ![s].mark = mark, ![s].claim = claim]
              /\ claim = entry[s].claim \/ (entry[s].claim = "open" /\ claim = "maintenance")
        BY <2>1, <2>6 DEF EndsAsk
      <3>5. /\ entry'[s].attached = entry[s].attached /\ entry'[s].poisoned = entry[s].poisoned
            /\ entry'[s].feeds = entry[s].feeds /\ entry'[s].damage = entry[s].damage
            /\ entry[s].claim \in {"committed", "owing"} => entry'[s].claim \in {"committed", "owing"}
        BY <1>0, <3>4 DEF EntryStates
      <3>6. OwedOf(s) /\ ~StillToRead(s)
        BY <2>1, <3>1 DEF OwedInv, StillToRead
      <3>7. Sought(s) => Sought(s)'
        <4>1. Looks(s)' = Looks(s)
          BY <1>1, <2>2 DEF Looks, At, StoreOf
        <4> QED BY <2>2, <3>5, <3>6, <4>1 DEF Sought
      <3>8. AsksBy(VerificationDeadline(s)) => AsksBy(VerificationDeadline(s))'
        <4>1. signals'.earliest = signals.earliest /\ signals'.retry <= signals.retry
          BY <1>3, <2>2
        <4> QED BY <1>0, <1>2, <3>3, <4>1, StillAsksBy
      <3>9. ClockIsToBeRead(s) => ClockIsToBeRead(s)' \/ AsksBy(VerificationDeadline(s))'
        <4>1. CASE LaneDeadline(s) # Never
          <5>1. LaneDeadline(s) = Ahead(VerificationDeadline(s))
            BY <4>1 DEF LaneDeadline
          <5>2. Past(asker'.found) \/ asker'.found <= VerificationDeadline(s)
            BY <1>3, <3>3, <5>1 DEF Ahead, Past
          <5> QED BY <1>2, <5>2 DEF AsksBy
        <4>2. CASE LaneDeadline(s) = Never
          BY <1>1, <4>2 DEF ClockIsToBeRead, StoreOf
        <4> QED BY <4>1, <4>2
      <3>10. OwedOf(s)'
        BY <1>2, <2>2, <3>5, <3>6, <3>7, <3>8, <3>9
           DEF OwedOf, SoughtForEngine, SoughtForClock, Feeds
      <3> QED BY <2>4, <3>3, <3>10 DEF OwedInv
    <2> QED BY <1>9, <2>5, <2>6
  <1>10. CASE TurnUnwindsWhole
    <2>1. asker'.unwound
      BY <1>10 DEF TurnUnwindsWhole, Waiting
    <2> QED BY <2>1 DEF OwedInv, OwedOf
  <1> QED BY <1>5, <1>6, <1>7, <1>8, <1>9, <1>10 DEF Scheduling

LEMMA TickOwed == ASSUME Inv, Inv', OwedInv, Tick PROVE OwedInv'
  <1>0. /\ signals \in Signals /\ entry \in [Stores -> EntryStates]
        /\ ops \in [Stores -> OpsStates] /\ asker \in Askers /\ TypeOK
        /\ signals.earliest \in Times /\ signals.retry \in Times /\ asker.found \in Times
    BY DEF Inv, TypeOK, Signals, Askers
  <1>1. /\ signals'.woken = signals.woken
        /\ signals'.earliest = Elapse(signals.earliest, 0)
        /\ signals'.retry = Elapse(signals.retry, 0)
        /\ asker'.asking = asker.asking /\ asker'.left = asker.left
        /\ asker'.unwound = asker.unwound /\ asker'.found = Elapse(asker.found, 0)
        /\ asker'.store = asker.store /\ asker'.read = asker.read
        /\ asker'.since = IF asker.store = NoStore THEN asker.since ELSE asker.since + 1
        /\ lane' = lane /\ turn' = turn
    BY <1>0 DEF Tick, Signals, Askers
  <1>2. \A s \in Stores :
          /\ entry'[s].attached = entry[s].attached /\ entry'[s].poisoned = entry[s].poisoned
          /\ entry'[s].feeds = entry[s].feeds /\ entry'[s].damage = entry[s].damage
          /\ entry'[s].claim = entry[s].claim
          /\ ops'[s].owed = ops[s].owed /\ ops'[s].current = ops[s].current
          /\ ops'[s].running = ops[s].running /\ ops'[s].bound = ops[s].bound
          /\ ops'[s].clock = Elapse(ops[s].clock, -HoldTicks)
    BY <1>0 DEF Tick, EntryStates, OpsStates
  <1> SUFFICES ASSUME NEW s \in Stores PROVE OwedOf(s)'
    BY DEF OwedInv
  <1>3. OwedOf(s) /\ Feeds(s)' = Feeds(s) /\ EngineOwes(s)' = EngineOwes(s)
    BY <1>2 DEF OwedInv, Feeds, EngineOwes
  <1>4. Sought(s) => Sought(s)'
    <2>1. signals.retry <= RetryAfter => signals'.retry <= RetryAfter
      BY <1>0, <1>1, BackgroundAssumption DEF Elapse, Times, Never
    <2>2. StillToRead(s)' = StillToRead(s) /\ Looks(s)' = Looks(s)
      BY <1>1 DEF StillToRead, Looks, At, StoreOf
    <2> QED BY <1>1, <1>2, <2>1, <2>2 DEF Sought
  <1>5. VerificationDeadline(s)' # Never
          => /\ VerificationDeadline(s) # Never
             /\ VerificationDeadline(s)' = Elapse(VerificationDeadline(s), -HoldTicks)
             /\ VerificationDeadline(s) \in -HoldTicks .. Never
    <2>1. VerificationDeadline(s) \in -HoldTicks .. Never
      BY <1>0, ReadClocks DEF Clocks
    <2> QED BY <1>2, <2>1 DEF VerificationDeadline, Elapse
  <1>6. ASSUME VerificationDeadline(s)' # Never, SoughtForClock(s) PROVE SoughtForClock(s)'
    <2>1. CASE Sought(s)
      BY <1>4, <2>1 DEF SoughtForClock
    <2>2. CASE AsksBy(VerificationDeadline(s))
      <3>1. ASSUME NEW at \in Times, Past(at) \/ at <= VerificationDeadline(s)
            PROVE  Past(Elapse(at, 0)) \/ Elapse(at, 0) <= VerificationDeadline(s)'
        <4>1. VerificationDeadline(s) # Never
              /\ VerificationDeadline(s)' = Elapse(VerificationDeadline(s), -HoldTicks)
              /\ VerificationDeadline(s) \in -HoldTicks .. Never
          BY <1>5, <1>6
        <4>2. at \in 0 .. Never /\ Never \in Nat /\ HoldTicks \in Nat
          BY BackgroundAssumption DEF Times, Never
        <4> QED BY <3>1, <4>1, <4>2 DEF Elapse, Past
      <3>2. AsksBy(VerificationDeadline(s))'
        BY <1>0, <1>1, <2>2, <3>1 DEF AsksBy
      <3> QED BY <3>2 DEF SoughtForClock
    <2>3. CASE asker.store = s /\ LaneDeadline(s) # Never
      <3>1. VerificationDeadline(s) + asker.since > 0 /\ asker.since \in 0 .. HoldTicks
        BY <1>0, <2>3 DEF LaneDeadline, Askers
      <3>2. asker'.since = asker.since + 1 /\ asker.since < HoldTicks
        BY <1>1, <2>3, BackgroundAssumption DEF Tick
      <3>3. /\ VerificationDeadline(s)' + asker'.since > 0
            /\ VerificationDeadline(s)' < Never /\ VerificationDeadline(s)' \in Int
        <4>1. VerificationDeadline(s) # Never
              /\ VerificationDeadline(s)' = Elapse(VerificationDeadline(s), -HoldTicks)
              /\ VerificationDeadline(s) \in -HoldTicks .. Never
          BY <1>5, <1>6
        <4>2. Never \in Nat /\ HoldTicks \in Nat
          BY BackgroundAssumption DEF Never
        <4> QED BY <3>1, <3>2, <4>1, <4>2 DEF Elapse
      <3>4. LaneDeadline(s)' # Never
        <4>1. Never > 0 /\ Never \in Int
          BY BackgroundAssumption DEF Never
        <4>2. LaneDeadline(s)' = Ahead(VerificationDeadline(s))'
          BY <3>3 DEF LaneDeadline
        <4> QED BY <3>3, <4>1, <4>2 DEF Ahead, Past
      <3> QED BY <1>1, <2>3, <3>4 DEF SoughtForClock, ClockIsToBeRead
    <2>4. CASE \E t \in LaneThreads : StoreOf(t) = s /\ turn[t].pc \in {"boundary", "ending"}
      BY <1>1, <2>4 DEF SoughtForClock, ClockIsToBeRead, StoreOf
    <2> QED BY <1>6, <2>1, <2>2, <2>3, <2>4 DEF SoughtForClock, ClockIsToBeRead
  <1> QED BY <1>1, <1>3, <1>4, <1>5, <1>6, <1>2 DEF OwedOf, SoughtForEngine

LEMMA OwedAlways ==
  /\ Init => OwedInv
  /\ Inv /\ Inv' /\ StancesInv /\ TurnsInv /\ UpkeepInv /\ OwedInv /\ [Next]_vars => OwedInv'
  <1>1. Init => OwedInv
    BY DEF Init, OwedInv, OwedOf, Feeds, Unattached
  <1>2. ASSUME Inv, Inv', StancesInv, TurnsInv, UpkeepInv, OwedInv, [Next]_vars PROVE OwedInv'
    <2>1. CASE UNCHANGED vars
      BY <1>2, <2>1
         DEF vars, OwedInv, OwedOf, Feeds, EngineOwes, VerificationDeadline, SoughtForEngine,
             SoughtForClock, Sought, StillToRead, Looks, At, StoreOf, ClockIsToBeRead, LaneDeadline,
             AsksBy
    <2>2. CASE Next
      BY <1>2, <2>2, SchedulerOwed, TickOwed, LegsOwed, TurnsOwed DEF Next
    <2> QED BY <1>2, <2>1, <2>2
  <1> QED BY <1>1, <1>2

\* What each store's line of OwedStoreIsReached comes to.
LEMMA OwedIsReached == OwedInv => OwedStoreIsReached
  <1>1. \A s \in Stores : Sought(s) => Reached(s) \/ signals.retry <= RetryAfter
    BY DEF Sought, Reached, Looks, LaneWillLook, LegWillSay, At
  <1>2. \A s \in Stores : entry[s].claim \in {"committed", "owing"} => Reached(s)
    BY DEF Reached, LegWillSay
  <1> QED BY <1>1, <1>2 DEF OwedInv, OwedOf, SoughtForEngine, SoughtForClock, OwedStoreIsReached

----------------------------------------------------------------------------
(* The theorems                                                            *)

LEMMA NextInv == Inv /\ [Next]_vars => Inv'
  <1> SUFFICES ASSUME Inv, [Next]_vars PROVE Inv'
    OBVIOUS
  <1>1. CASE Scheduling \/ AskUnwinds \/ TurnUnwindsWhole \/ Tick
    BY <1>1, SchedulingInv, UnwindsInv, TickInv
  <1>2. ASSUME NEW s \in Stores, Attaching(s) \/ Working(s) \/ StanceMoves(s) \/ Releasing(s)
        PROVE  Inv'
    BY <1>2, AttachingInv, WorkingInv, StanceInv, ReleasingInv
  <1>3. ASSUME NEW t \in LaneThreads,
               \/ Turning(t) \/ ReadsStance(t) \/ Verifying(t) \/ Draining(t) \/ JudgesDamage(t)
               \/ TurnUnwinds(t)
        PROVE  Inv'
    BY <1>3, BoundaryInv, TakesInv, FinishesInv, RequeuesInv, VerifyingInv, DrainingInv, JudgesInv,
       TurnUnwindsInv DEF Turning
  <1>4. CASE UNCHANGED vars
    BY <1>4 DEF vars, Inv, TypeOK, UnitInv, OneTurnPerStore, OneLifetimeIsVerified, At, StoreOf,
                InTurn, InUnit
  <1> QED BY <1>1, <1>2, <1>3, <1>4 DEF Next

\* Every reachable state of the scheduler, the lane and what they read has its
\* type: a deadline is never kept in the past (background.rs:140).
THEOREM BackgroundTypeOK == Spec => []TypeOK
  <1>1. Inv => TypeOK
    BY DEF Inv
  <1> QED BY InitInv, NextInv, <1>1, PTL DEF Spec

\* However many lane threads run and whatever asks them, a store has at most one
\* turn, is queued once, and is not queued beside its turn (lane.rs:96).
THEOREM OneTurnPerStoreAlways == Spec => []OneTurnPerStore
  <1>1. Inv => OneTurnPerStore
    BY DEF Inv
  <1> QED BY InitInv, NextInv, <1>1, PTL DEF Spec

\* Whatever legs retire and open a store while its verification runs, its next
\* lifetime is bound only once the verification is back (verification.rs:19).
THEOREM OneLifetimeIsVerifiedAlways == Spec => []OneLifetimeIsVerified
  <1>1. Inv => OneLifetimeIsVerified
    BY DEF Inv
  <1> QED BY InitInv, NextInv, <1>1, PTL DEF Spec

\* However legs commit beside the units that drain, rows no unit has answered
\* for are owed: an owe recorded after a unit read what it settles stands
\* (semantic.rs:612).
THEOREM UnansweredFeedIsOwedAlways == Spec => []UnansweredFeedIsOwed
  <1>1. FeedInv => UnansweredFeedIsOwed
    BY DEF FeedInv, UnansweredFeedIsOwed, Saying
  <1> QED BY InitInv, NextInv, FeedAlways, <1>1, PTL DEF Spec

\* Whatever legs, turns, wakes and ticks come between, maintenance of a covered
\* entry is asked for by its time: a deadline is noted no later than its clock,
\* or the mark stands where the move that opens the gate wakes the scheduler
\* (claim.rs:61, background.rs:250).
THEOREM DueUpkeepIsReachedAlways == Spec => []DueUpkeepIsReached
  <1>1. UpkeepInv => DueUpkeepIsReached
    BY DEF UpkeepInv, DueUpkeepIsReached, Asked
  <1> QED BY InitInv, NextInv, UpkeepAlways, <1>1, PTL DEF Spec

\* Whatever legs, turns, refusals, unwinds and ticks come between, no work owed
\* over a stance that feeds is left for no one to come to: it is in the lane's set
\* or on its way there, a leg is about to say it, or the scheduler asks by its time
\* or within its retry (background.rs:250, lane.rs:247).
THEOREM OwedStoreIsReachedAlways == Spec => []OwedStoreIsReached
  <1>1. Init => Inv /\ UpkeepInv /\ StancesInv /\ TurnsInv /\ OwedInv
    BY InitInv, UpkeepAlways, StancesAlways, TurnsAlways, OwedAlways
  <1>2. /\ Inv /\ UpkeepInv /\ StancesInv /\ TurnsInv /\ OwedInv /\ [Next]_vars
           => (Inv /\ UpkeepInv /\ StancesInv /\ TurnsInv /\ OwedInv)'
    BY NextInv, UpkeepAlways, StancesAlways, TurnsAlways, OwedAlways
  <1>3. Inv /\ UpkeepInv /\ StancesInv /\ TurnsInv /\ OwedInv => OwedStoreIsReached
    BY OwedIsReached
  <1> QED BY <1>1, <1>2, <1>3, PTL DEF Spec
=============================================================================
