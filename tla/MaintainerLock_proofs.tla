------------------------ MODULE MaintainerLock_proofs ------------------------
(***************************************************************************)
(* The safety of the maintainer lock, for any acquirers, any supply of     *)
(* inodes, any bound on the attempts and any number of eras.               *)
(***************************************************************************)
EXTENDS MaintainerLock, TLAPS

\* Who has a handle, and that a handle opened in this era is the name's.
HandleInv ==
    \A p \in Acquirers :
        IF At(p, "idle") \/ At(p, "opening") THEN Handle(p) = NoInode
        ELSE /\ Handle(p) \in Inodes
             /\ Since(p) \in 1..era
             /\ Since(p) = era => name = Handle(p)

\* A file has one flock.
FlockInv ==
    \A p, q \in Acquirers :
        p # q /\ HoldsFlock(p) /\ HoldsFlock(q) => Handle(p) # Handle(q)

\* Each attempt that was made has cost an era of the name.
LoopInv ==
    \A p \in Acquirers :
        /\ At(p, "opening") => acquirer[p].began + acquirer[p].attempt <= era
        /\ At(p, "opened") \/ At(p, "locked") =>
               acquirer[p].began + acquirer[p].attempt <= Since(p)

Inv == TypeOK /\ HandleInv /\ FlockInv /\ LoopInv /\ OneMaintainerPerEra

\* The initial states have the invariant: nobody has a handle.
LEMMA InitInv == Init => Inv
  BY LockAssumption
  DEF Init, Inv, TypeOK, HandleInv, FlockInv, LoopInv, OneMaintainerPerEra, AcquirerStates,
      Pcs, Idle, At, Handle, Since, HoldsFlock, Maintains

\* A step of p that leaves the names alone and keeps what p's state must have
\* keeps the invariant: what it says of the others does not change.
LEMMA OneMoves ==
  ASSUME Inv, NEW p \in Acquirers, NEW r \in AcquirerStates, Becomes(p, r), UNCHANGED Names,
         IF r.pc \in {"idle", "opening"} THEN r.handle = NoInode
         ELSE r.handle \in Inodes /\ r.since \in 1..era /\ (r.since = era => name = r.handle),
         r.pc \in {"locked", "writing", "holding", "leaving"} =>
             \A q \in Acquirers \ {p} : HoldsFlock(q) => Handle(q) # r.handle,
         r.pc = "opening" => r.began + r.attempt <= era,
         r.pc \in {"opened", "locked"} => r.began + r.attempt <= r.since,
         r.pc \in {"writing", "holding", "leaving"} =>
             \A q \in Acquirers \ {p} : Maintains(q) => Since(q) # r.since
  PROVE  Inv'
  <1>1. acquirer' = [acquirer EXCEPT ![p] = r] /\ name' = name /\ aside' = aside /\ era' = era
    BY DEF Becomes, Names
  <1>2. acquirer \in [Acquirers -> AcquirerStates]
    BY DEF Inv, TypeOK
  <1>3. acquirer'[p] = r /\ \A q \in Acquirers \ {p} : acquirer'[q] = acquirer[q]
    BY <1>1, <1>2
  <1>4. TypeOK'
    BY <1>1, <1>2 DEF Inv, TypeOK
  <1>5. HandleInv'
    BY <1>1, <1>3 DEF Inv, HandleInv, At, Handle, Since
  <1>6. FlockInv'
    BY <1>1, <1>3 DEF Inv, FlockInv, HoldsFlock, Handle
  <1>7. LoopInv'
    BY <1>1, <1>3 DEF Inv, LoopInv, At, Since
  <1>8. OneMaintainerPerEra'
    BY <1>1, <1>3 DEF Inv, OneMaintainerPerEra, Maintains, Since
  <1>9. QED
    BY <1>4, <1>5, <1>6, <1>7, <1>8 DEF Inv

\* A thread that lets go of what it has keeps the invariant.
LEMMA LetsGoKeeps ==
  ASSUME Inv, NEW p \in Acquirers, LetsGo(p), UNCHANGED Names
  PROVE  Inv'
  <1>1. Idle \in AcquirerStates
    BY LockAssumption DEF Idle, AcquirerStates, Pcs
  <1>2. QED
    BY <1>1, OneMoves DEF LetsGo, Idle

\* Who is confirmed in this era is its one maintainer: another confirmed in it
\* would have the file of the name too, and its flock.
LEMMA NoOtherInEra ==
  ASSUME Inv, NEW p \in Acquirers, NEW q \in Acquirers \ {p},
         HoldsFlock(p), Current(p), Maintains(q)
  PROVE  Since(q) # era
  <1>1. HoldsFlock(q) /\ ~(At(q, "idle") \/ At(q, "opening"))
    BY DEF Maintains, HoldsFlock, At
  <1>2. Handle(q) # Handle(p)
    BY <1>1 DEF Inv, FlockInv
  <1>3. Since(q) = era => name = Handle(q)
    BY <1>1 DEF Inv, HandleInv
  <1>4. QED
    BY <1>2, <1>3 DEF Current

\* Being confirmed keeps the invariant.
LEMMA ConfirmedKeeps ==
  ASSUME Inv, NEW p \in Acquirers, HoldsFlock(p), Current(p), Confirmed(p), UNCHANGED Names
  PROVE  Inv'
  <1> DEFINE r == [pc |-> "writing", handle |-> Handle(p), attempt |-> 0,
                   since |-> era, began |-> 0]
  <1>1. Handle(p) \in Inodes
    BY DEF Inv, HandleInv, HoldsFlock, At
  <1>2. era \in Nat \ {0}
    BY DEF Inv, TypeOK
  <1>3. /\ r \in AcquirerStates
        /\ r.pc = "writing" /\ r.handle = Handle(p) /\ r.since = era
    BY <1>1, <1>2, LockAssumption DEF AcquirerStates, Pcs
  <1>4. r.since \in 1..era /\ (r.since = era => name = r.handle)
    BY <1>2, <1>3 DEF Current
  <1>5. \A q \in Acquirers \ {p} : HoldsFlock(q) => Handle(q) # r.handle
    BY <1>3 DEF Inv, FlockInv
  <1>6. \A q \in Acquirers \ {p} : Maintains(q) => Since(q) # r.since
    BY <1>3, NoOtherInEra
  <1>7. Becomes(p, r)
    BY DEF Confirmed
  <1> HIDE DEF r
  <1>8. QED
    BY <1>1, <1>3, <1>4, <1>5, <1>6, <1>7, OneMoves

\* Every step of an acquirer keeps the invariant.
LEMMA AcquirerKeeps ==
  ASSUME Inv, NEW p \in Acquirers, AcquirerStep(p)
  PROVE  Inv'
  <1>1. /\ acquirer[p] \in AcquirerStates /\ era \in Nat \ {0}
        /\ acquirer \in [Acquirers -> AcquirerStates]
        /\ name \in Inodes \cup {NoInode}
    BY DEF Inv, TypeOK
  <1>2. CASE BeginAcquire(p)
    <2> DEFINE r == [Idle EXCEPT !.pc = "opening", !.began = era]
    <2>1. Idle \in AcquirerStates
      BY LockAssumption DEF Idle, AcquirerStates, Pcs
    <2>2. /\ r \in AcquirerStates
          /\ r.pc = "opening" /\ r.handle = NoInode /\ r.began = era /\ r.attempt = 0
      <3>1. r \in AcquirerStates /\ r.pc = "opening" /\ r.began = era
        BY <1>1, <2>1 DEF AcquirerStates, Pcs
      <3>2. r.handle = Idle.handle /\ r.attempt = Idle.attempt
        BY <2>1 DEF AcquirerStates
      <3>3. QED
        BY <3>1, <3>2 DEF Idle
    <2>3. Becomes(p, r) /\ UNCHANGED Names
      BY <1>2 DEF BeginAcquire
    <2> HIDE DEF r
    <2>4. QED
      BY <1>1, <2>2, <2>3, OneMoves
  <1>3. CASE OpenLockFile(p)
    <2>1. PICK i \in IF name = NoInode THEN Unused ELSE {name} :
              /\ name' = i
              /\ Becomes(p, [acquirer[p] EXCEPT !.pc = "opened", !.handle = i, !.since = era])
      BY <1>3 DEF OpenLockFile
    <2> DEFINE r == [acquirer[p] EXCEPT !.pc = "opened", !.handle = i, !.since = era]
    <2>2. i \in Inodes /\ (name # NoInode => i = name)
      BY <1>1, <2>1 DEF Unused
    <2>3. /\ r \in AcquirerStates
          /\ r.pc = "opened" /\ r.handle = i /\ r.since = era
          /\ r.began = acquirer[p].began /\ r.attempt = acquirer[p].attempt
      BY <1>1, <2>2 DEF AcquirerStates, Pcs
    <2>4. acquirer' = [acquirer EXCEPT ![p] = r] /\ aside' = aside /\ era' = era
      BY <1>3, <2>1 DEF OpenLockFile, Becomes
    <2> HIDE DEF r
    <2>5. acquirer'[p] = r /\ \A q \in Acquirers \ {p} : acquirer'[q] = acquirer[q]
      BY <1>1, <2>4
    <2>6. TypeOK'
      BY <1>1, <2>1, <2>2, <2>3, <2>4 DEF Inv, TypeOK
    <2>7. HandleInv'
      <3> SUFFICES ASSUME NEW q \in Acquirers
                   PROVE  (IF At(q, "idle") \/ At(q, "opening") THEN Handle(q) = NoInode
                           ELSE /\ Handle(q) \in Inodes
                                /\ Since(q) \in 1..era
                                /\ Since(q) = era => name = Handle(q))'
        BY DEF HandleInv
      <3>1. CASE q = p
        BY <1>1, <2>1, <2>2, <2>3, <2>4, <2>5, <3>1 DEF At, Handle, Since
      <3>2. CASE q # p
        <4>1. acquirer'[q] = acquirer[q]
          BY <2>5, <3>2
        <4>2. IF At(q, "idle") \/ At(q, "opening") THEN Handle(q) = NoInode
              ELSE /\ Handle(q) \in Inodes
                   /\ Since(q) \in 1..era
                   /\ Since(q) = era => name = Handle(q)
          BY DEF Inv, HandleInv
        <4>3. name # NoInode => name' = name
          BY <2>1, <2>2
        <4>4. QED
          BY <2>4, <4>1, <4>2, <4>3, LockAssumption DEF At, Handle, Since
      <3>3. QED
        BY <3>1, <3>2
    <2>8. FlockInv'
      BY <2>3, <2>5 DEF Inv, FlockInv, HoldsFlock, Handle
    <2>9. LoopInv'
      <3>1. acquirer[p].began + acquirer[p].attempt <= era
        BY <1>3 DEF Inv, LoopInv, OpenLockFile, At
      <3>2. QED
        BY <2>3, <2>4, <2>5, <3>1 DEF Inv, LoopInv, At, Since
    <2>10. OneMaintainerPerEra'
      BY <2>3, <2>5 DEF Inv, OneMaintainerPerEra, Maintains, Since
    <2>11. QED
      BY <2>6, <2>7, <2>8, <2>9, <2>10 DEF Inv
  <1>4. CASE TakeFlock(p)
    <2> DEFINE r == [acquirer[p] EXCEPT !.pc = "locked"]
    <2>1. /\ r \in AcquirerStates
          /\ r.pc = "locked" /\ r.handle = Handle(p) /\ r.since = Since(p)
          /\ r.began = acquirer[p].began /\ r.attempt = acquirer[p].attempt
      BY <1>1 DEF AcquirerStates, Pcs, Handle, Since
    <2>2. Becomes(p, r) /\ UNCHANGED Names /\ At(p, "opened")
      BY <1>4 DEF TakeFlock, Goes
    <2>3. \A q \in Acquirers : HoldsFlock(q) => Handle(q) # r.handle
      BY <1>4, <2>1 DEF TakeFlock, FlockTaken
    <2>4. r.handle \in Inodes /\ r.since \in 1..era /\ (r.since = era => name = r.handle)
      BY <2>1, <2>2 DEF Inv, HandleInv, At
    <2>5. r.began + r.attempt <= r.since
      BY <2>1, <2>2 DEF Inv, LoopInv
    <2> HIDE DEF r
    <2>6. QED
      BY <2>1, <2>2, <2>3, <2>4, <2>5, OneMoves
  <1>5. CASE TryAgain(p)
    <2> DEFINE r == [acquirer[p] EXCEPT !.pc = "opening", !.handle = NoInode, !.since = 0,
                                        !.attempt = @ + 1]
    <2>1. acquirer[p].attempt + 1 \in 0..LockAttempts - 1
      BY <1>1, <1>5, LockAssumption DEF TryAgain, AcquirerStates
    <2>2. /\ r \in AcquirerStates
          /\ r.pc = "opening" /\ r.handle = NoInode
          /\ r.began = acquirer[p].began /\ r.attempt = acquirer[p].attempt + 1
      BY <1>1, <2>1 DEF AcquirerStates, Pcs
    <2>3. Becomes(p, r) /\ UNCHANGED Names /\ At(p, "locked") /\ ~Current(p)
      BY <1>5 DEF TryAgain
    <2>4. Since(p) \in 1..era /\ Since(p) # era
      BY <2>3 DEF Inv, HandleInv, Current, At
    <2>5. acquirer[p].began + acquirer[p].attempt <= Since(p)
      BY <2>3 DEF Inv, LoopInv
    <2>6. acquirer[p].began \in Nat /\ acquirer[p].attempt \in Nat
      BY <1>1 DEF AcquirerStates
    <2>7. r.began + r.attempt <= era
      BY <1>1, <2>2, <2>4, <2>5, <2>6
    <2> HIDE DEF r
    <2>8. QED
      BY <2>2, <2>3, <2>7, OneMoves
  <1>6. CASE Contended(p) \/ RefuseReplaced(p) \/ AcquireFails(p) \/ Release(p) \/ Dies(p)
    BY <1>6, LetsGoKeeps DEF Contended, RefuseReplaced, AcquireFails, Release, Dies
  <1>7. CASE ConfirmName(p) \/ BeginLeg(p)
    BY <1>7, ConfirmedKeeps DEF ConfirmName, BeginLeg, At, HoldsFlock
  <1>8. CASE EndLeg(p) \/ LegFindsItLost(p)
    <2>1. PICK pc \in {"holding", "leaving"} : Goes(p, pc)
      BY <1>8 DEF EndLeg, LegFindsItLost
    <2> DEFINE r == [acquirer[p] EXCEPT !.pc = pc]
    <2>2. /\ r \in AcquirerStates
          /\ r.pc = pc /\ r.handle = Handle(p) /\ r.since = Since(p)
      BY <1>1 DEF AcquirerStates, Pcs, Handle, Since
    <2>3. Becomes(p, r) /\ UNCHANGED Names /\ Maintains(p)
      BY <1>8, <2>1 DEF EndLeg, LegFindsItLost, Goes, At, Maintains
    <2>4. HoldsFlock(p) /\ ~(At(p, "idle") \/ At(p, "opening"))
      BY <2>3 DEF Maintains, HoldsFlock, At
    <2>5. r.handle \in Inodes /\ r.since \in 1..era /\ (r.since = era => name = r.handle)
      BY <2>2, <2>4 DEF Inv, HandleInv
    <2>6. \A q \in Acquirers \ {p} : HoldsFlock(q) => Handle(q) # r.handle
      BY <2>2, <2>4 DEF Inv, FlockInv
    <2>7. \A q \in Acquirers \ {p} : Maintains(q) => Since(q) # r.since
      BY <2>2, <2>3 DEF Inv, OneMaintainerPerEra
    <2> HIDE DEF r
    <2>8. QED
      BY <2>2, <2>3, <2>5, <2>6, <2>7, OneMoves
  <1>9. QED
    BY <1>2, <1>3, <1>4, <1>5, <1>6, <1>7, <1>8 DEF AcquirerStep, Acquire, Leg

\* What something foreign does to the name keeps the invariant: it begins an era
\* in which nobody has been confirmed.
LEMMA ForeignKeeps ==
  ASSUME Inv, Foreign
  PROVE  Inv'
  <1>1. acquirer' = acquirer /\ era' = era + 1 /\ era \in Nat \ {0}
    BY DEF Foreign, Inv, TypeOK
  <1>2. TypeOK'
    BY <1>1 DEF Foreign, Unused, Inv, TypeOK
  <1>3. HandleInv'
    BY <1>1 DEF Inv, HandleInv, At, Handle, Since
  <1>4. FlockInv' /\ OneMaintainerPerEra'
    BY <1>1 DEF Inv, FlockInv, OneMaintainerPerEra, HoldsFlock, Maintains, Handle, Since
  <1>5. LoopInv'
    BY <1>1 DEF Inv, LoopInv, At, Since, TypeOK, AcquirerStates
  <1>6. QED
    BY <1>2, <1>3, <1>4, <1>5 DEF Inv

\* The inductive invariant of the lock.
THEOREM LockInvHolds == Spec => []Inv
  <1>1. Inv /\ [Next]_vars => Inv'
    <2> SUFFICES ASSUME Inv, [Next]_vars PROVE Inv'
      OBVIOUS
    <2>1. CASE UNCHANGED vars
      BY <2>1 DEF vars, Inv, TypeOK, HandleInv, FlockInv, LoopInv, OneMaintainerPerEra,
                  At, Handle, Since, HoldsFlock, Maintains
    <2>2. CASE Next
      BY <2>2, AcquirerKeeps, ForeignKeeps DEF Next
    <2>3. QED
      BY <2>1, <2>2
  <1>2. QED
    BY <1>1, InitInv, PTL DEF Spec

\* No two maintainers of a store are confirmed in one era of its lock file: with
\* nothing foreign touching the file there is never a second one.
THEOREM MaintainersAreApart == Spec => []OneMaintainerPerEra
  BY LockInvHolds, PTL DEF Inv

\* LockFileReplaced is answered only to an acquisition whose every attempt was
\* met by a change of the name.
THEOREM RefusalIsEarned == Spec => RefusalMeansReplaced
  <1>1. Inv /\ [Next]_vars =>
            [\A p \in Acquirers :
                RefuseReplaced(p) => era - acquirer[p].began >= LockAttempts]_vars
    <2> SUFFICES ASSUME Inv, NEW p \in Acquirers, RefuseReplaced(p)
                 PROVE  era - acquirer[p].began >= LockAttempts
      OBVIOUS
    <2>1. At(p, "locked") /\ ~Current(p) /\ acquirer[p].attempt + 1 >= LockAttempts
      BY DEF RefuseReplaced
    <2>2. Since(p) \in 1..era /\ Since(p) # era
      BY <2>1 DEF Inv, HandleInv, Current, At
    <2>3. acquirer[p].began + acquirer[p].attempt <= Since(p)
      BY <2>1 DEF Inv, LoopInv
    <2>4. acquirer[p].began \in Nat /\ acquirer[p].attempt \in Nat /\ era \in Nat
      BY DEF Inv, TypeOK, AcquirerStates
    <2>5. QED
      BY <2>1, <2>2, <2>3, <2>4, LockAssumption
  <1>2. QED
    BY <1>1, LockInvHolds, PTL DEF Spec, RefusalMeansReplaced

\* The lock implements the maintainer contract: a confirmation finds no other
\* maintainer of the era, and everything else ends a tenure or leaves it alone.
THEOREM LockImplementsContract == Spec => ImplementsMaintainership
  <1> DEFINE tenure == [p \in Acquirers |-> IF Maintains(p) THEN Since(p) ELSE 0]
  <1>1. Init => Contract!Init
    BY DEF Init, Contract!Init, Idle, Maintains
  <1>2. Inv /\ [Next]_vars => [Contract!Next]_(Contract!vars)
    <2> SUFFICES ASSUME Inv, [Next]_vars
                 PROVE  [Contract!Next]_(Contract!vars)
      OBVIOUS
    <2>1. acquirer \in [Acquirers -> AcquirerStates] /\ era \in Nat \ {0}
      BY DEF Inv, TypeOK
    <2>2. ASSUME NEW p \in Acquirers, NEW r, Becomes(p, r)
          PROVE  tenure' = [tenure EXCEPT ![p] =
                     IF r.pc \in {"writing", "holding", "leaving"} THEN r.since ELSE 0]
      BY <2>1, <2>2 DEF Becomes, Maintains, Since
    <2>3. CASE UNCHANGED vars
      BY <2>3 DEF vars, Contract!vars, Maintains, Since
    <2>4. CASE Foreign
      BY <2>4 DEF Foreign, Contract!Next, Contract!Disturb, Maintains, Since
    <2>5. ASSUME NEW p \in Acquirers, AcquirerStep(p)
          PROVE  [Contract!Next]_(Contract!vars)
      <3>1. CASE ConfirmName(p) \/ BeginLeg(p)
        <4>1. HoldsFlock(p) /\ Current(p) /\ Confirmed(p) /\ UNCHANGED Names
          BY <3>1 DEF ConfirmName, BeginLeg, At, HoldsFlock
        <4>2. tenure' = [tenure EXCEPT ![p] = era]
          BY <2>2, <4>1 DEF Confirmed
        <4>3. \A q \in Acquirers \ {p} : tenure[q] # era
          BY <2>1, <4>1, NoOtherInEra
        <4>4. Contract!Confirm(p)
          BY <4>1, <4>2, <4>3 DEF Contract!Confirm, Names
        <4>5. QED
          BY <4>4 DEF Contract!Next
      <3>2. ASSUME LetsGo(p), UNCHANGED Names
            PROVE  [Contract!Next]_(Contract!vars)
        <4>1. tenure' = [tenure EXCEPT ![p] = 0] /\ era' = era
          BY <2>2, <3>2 DEF LetsGo, Idle, Names
        <4>2. CASE tenure[p] # 0
          BY <4>1, <4>2 DEF Contract!Next, Contract!Leave
        <4>3. CASE tenure[p] = 0
          BY <4>1, <4>3 DEF Contract!vars
        <4>4. QED
          BY <4>2, <4>3
      <3>3. CASE Contended(p) \/ RefuseReplaced(p) \/ AcquireFails(p) \/ Release(p) \/ Dies(p)
        BY <3>2, <3>3 DEF Contended, RefuseReplaced, AcquireFails, Release, Dies
      <3>4. ASSUME NEW r, Becomes(p, r), era' = era,
                   IF Maintains(p)
                   THEN r.pc \in {"writing", "holding", "leaving"} /\ r.since = Since(p)
                   ELSE r.pc \notin {"writing", "holding", "leaving"}
            PROVE  [Contract!Next]_(Contract!vars)
        BY <2>2, <3>4 DEF Contract!vars
      <3>5. CASE BeginAcquire(p)
        <4> DEFINE r == [Idle EXCEPT !.pc = "opening", !.began = era]
        <4>1. Becomes(p, r) /\ era' = era /\ ~Maintains(p) /\ r.pc = "opening"
          BY <3>5 DEF BeginAcquire, Names, At, Maintains, Idle
        <4> HIDE DEF r
        <4>2. QED
          BY <3>4, <4>1
      <3>6. CASE OpenLockFile(p)
        <4>1. PICK i : Becomes(p, [acquirer[p] EXCEPT !.pc = "opened", !.handle = i,
                                                      !.since = era])
          BY <3>6 DEF OpenLockFile
        <4> DEFINE r == [acquirer[p] EXCEPT !.pc = "opened", !.handle = i, !.since = era]
        <4>2. era' = era /\ ~Maintains(p) /\ r.pc = "opened"
          BY <2>1, <3>6 DEF OpenLockFile, At, Maintains, AcquirerStates
        <4> HIDE DEF r
        <4>3. QED
          BY <3>4, <4>1, <4>2 DEF r
      <3>7. CASE TakeFlock(p)
        <4> DEFINE r == [acquirer[p] EXCEPT !.pc = "locked"]
        <4>1. Becomes(p, r) /\ era' = era /\ ~Maintains(p) /\ r.pc = "locked"
          BY <2>1, <3>7 DEF TakeFlock, Goes, Names, At, Maintains, AcquirerStates
        <4> HIDE DEF r
        <4>2. QED
          BY <3>4, <4>1
      <3>8. CASE TryAgain(p)
        <4> DEFINE r == [acquirer[p] EXCEPT !.pc = "opening", !.handle = NoInode,
                                            !.since = 0, !.attempt = @ + 1]
        <4>1. Becomes(p, r) /\ era' = era /\ ~Maintains(p) /\ r.pc = "opening"
          BY <2>1, <3>8 DEF TryAgain, Names, At, Maintains, AcquirerStates
        <4> HIDE DEF r
        <4>2. QED
          BY <3>4, <4>1
      <3>9. CASE EndLeg(p) \/ LegFindsItLost(p)
        <4>1. PICK pc \in {"holding", "leaving"} : Goes(p, pc)
          BY <3>9 DEF EndLeg, LegFindsItLost
        <4> DEFINE r == [acquirer[p] EXCEPT !.pc = pc]
        <4>2. Becomes(p, r) /\ era' = era /\ Maintains(p) /\ r.pc = pc /\ r.since = Since(p)
          BY <2>1, <3>9, <4>1
          DEF EndLeg, LegFindsItLost, Goes, Names, At, Maintains, Since, AcquirerStates
        <4> HIDE DEF r
        <4>3. QED
          BY <3>4, <4>2
      <3>10. QED
        BY <2>5, <3>1, <3>3, <3>5, <3>6, <3>7, <3>8, <3>9 DEF AcquirerStep, Acquire, Leg
    <2>6. QED
      BY <2>3, <2>4, <2>5 DEF Next
  <1>3. QED
    BY <1>1, <1>2, LockInvHolds, PTL DEF Spec, ImplementsMaintainership, Contract!Spec
=============================================================================
